------------------------------ MODULE MCCache -------------------------------
(***************************************************************************)
(* Small instances of CachePipeline for TLC.                               *)
(***************************************************************************)
EXTENDS CachePipeline, TLC

AllFaults == FaultKinds

\* The faults that change which jobs run, wait and end.
SomeFaults == {"uncertain"}

\* Workers, sources and keys are interchangeable; jobs are not, they are
\* served in the order of their creation.
Symmetry == Permutations(Workers) \cup Permutations(Sources)
            \cup Permutations(Keys)
=============================================================================
