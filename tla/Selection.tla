------------------------------ MODULE Selection ------------------------------
(***************************************************************************)
(* Choosing rows of an ordered table: SELECT ... WHERE ... ORDER BY.       *)
(***************************************************************************)
EXTENDS Naturals, Sequences

\* The elements of s that are in T, in their order: what SelectSeq computes, by a
\* function that proofs can look into.
Selected(s, T) ==
  LET upTo[n \in 0 .. Len(s)] ==
        IF n = 0 THEN <<>>
        ELSE IF s[n] \in T THEN Append(upTo[n - 1], s[n]) ELSE upTo[n - 1]
  IN upTo[Len(s)]
==============================================================================
