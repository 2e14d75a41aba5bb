--------------------------- MODULE CacheResolver ----------------------------
(***************************************************************************)
(* What CacheMediaResolver (worker/resolution.py) does under its claim,    *)
(* and the source rejection it shares with the offline worker.             *)
(***************************************************************************)
EXTENDS CacheClaimQueue

\* The task directory is checked, listed and checked again, and its files are
\* classified.  It may have been moved or deleted, hold a blocked file, no
\* video, videos of one candidate, or of several.
Inspect(w) ==
    LET found == {"complete_ready", "complete_choice", "fail", "detach"}
                 \cup (IF "source" \in Faults THEN {"reject"} ELSE {})
    IN
    /\ step[w] = "inspect"
    /\ \E s \in (IF dir[at[w]] THEN found ELSE {"detach"}) \cup Problem :
          Continue(w, s)
    /\ UNCHANGED <<ledger, progress, claims, attempts, leased, rejected,
                   remote>>

\* SourceRejectionClient.reject commits the rejection of the source before the
\* job is failed, in another transaction and without the claim.
Reject(w) ==
    /\ step[w] = "reject"
    /\ rejected' = rejected \cup {source[at[w]]}
    /\ Continue(w, "fail")
    /\ UNCHANGED <<ledger, progress, claims, attempts, leased, remote>>

ResolverNext(w) == Inspect(w) \/ Reject(w)
=============================================================================
