------------------------------ MODULE MCCacheJob ------------------------------
(***************************************************************************)
(* One job of CachePipeline for TLC, under every fault.  Two workers take  *)
(* it from each other; what holds with one worker process only, which is   *)
(* how the system is deployed, is stated of the behaviours in which the    *)
(* second one never runs.                                                  *)
(***************************************************************************)
EXTENDS MCCache

\* CachePipeline's Fairness; the second worker may stop at any time.
OneFairness ==
  /\ WF_vars(WorkerNext(First))
  /\ \A j \in Jobs : /\ WF_vars(ExpireClaim(j)) /\ WF_vars(PollFallsDue(j))
                     /\ WF_vars(LeaseRunsOut(j))
  /\ <>[][Undisturbed]_vars

OneSpec == Spec /\ OneFairness

-----------------------------------------------------------------------------
\* CachePipeline: with one worker cancellations, deletions and submissions end.
AloneCancellationConverges == Alone => CancellationConverges
AloneCleaningEnds          == Alone => CleaningEnds
AloneSubmissionSettles     == Alone => SubmissionSettles
==============================================================================
