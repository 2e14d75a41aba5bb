---------------------------- MODULE CacheCleanup ----------------------------
(***************************************************************************)
(* CleanupQueue and CleanupWorker (cleanup.py): the managed deletion of a  *)
(* job's task directory, by attempts made under a claim.                   *)
(***************************************************************************)
EXTENDS CacheClaimQueue

\* Variant: past the limit of busy attempts a job is not taken up again.
CleanableBelowLimit ==
    {j \in Jobs : status[j] = "cleaning" /\ Unclaimed(j) /\ ~leased[j]
                  /\ attempts[j] < BusyMaxAttempts}

\* Jobs whose deletion was asked for and nobody plays, in any order: the
\* rotation by updated_at is abstracted.
Cleanable ==
    {j \in Jobs : status[j] = "cleaning" /\ Unclaimed(j) /\ ~leased[j]}

\* Materialized jobs that can be evicted.  Which of them, and when, depends on
\* their expiry time, the ready capacity and a read of the leases that may be
\* stale when the row is locked: any, at any time (CacheRetention has these).
Evictable ==
    {j \in Jobs : status[j] \in {"awaiting_selection", "ready"} /\ Unclaimed(j)}

\* Steps an error other than "busy" or "directory not found" leads to.
CleanupProblem ==
    IF "transient" \in Faults THEN {"cleanup_fail"} ELSE {}

\* The binding was replaced or the directory is not the job's: nothing at 115
\* is touched any more.
Mismatch == IF "permanent" \in Faults THEN {"cleanup_detach"} ELSE {}

\* Past the limit of attempts a busy answer fails the job, before it the job is
\* released for another attempt.
AfterBusy(j) ==
    IF attempts[j] >= BusyMaxAttempts THEN "fail_busy" ELSE "release"

Busy(j) == IF "busy" \in Faults THEN {AfterBusy(j)} ELSE {}

\* The counts only matter below the bound.
OneMore(n) == IF n < MaxAttempts THEN n + 1 ELSE n

\* A new attempt: the count includes every earlier one, however it ended.
Attempt(w, j) ==
    /\ attempts' = [attempts EXCEPT ![j] = OneMore(@)]
    /\ Claim(w, j)
    /\ \E s \in {"verify_ownership"} \cup Mismatch \cup CleanupProblem :
          step' = [step EXCEPT ![w] = s]

ClaimCleaning(w) ==
    /\ AtStage(w, "cleanup")
    /\ \E j \in Cleanable : Attempt(w, j)
    /\ UNCHANGED <<ledger, progress, leased, rejected, remote>>

\* Nothing to clean: a job past its expiry, or the least recently used one
\* while too many are ready, is moved to cleaning and claimed.
Evict(w) ==
    /\ AtStage(w, "cleanup")
    /\ Cleanable = {}
    /\ \E j \in Evictable : Move(j, "cleaning") /\ Attempt(w, j)
    /\ UNCHANGED <<progress, leased, rejected, remote>>

\* The root and the task directory are checked: a missing task directory is a
\* success, an ownership mismatch or a missing root detaches the job.
VerifyOwnership(w) ==
    LET j == at[w] IN
    /\ step[w] = "verify_ownership"
    /\ \E s \in {IF dir[j] THEN "delete" ELSE "succeed"}
                \cup Mismatch \cup Busy(j) \cup CleanupProblem : Continue(w, s)
    /\ UNCHANGED <<ledger, progress, claims, attempts, leased, rejected,
                   remote>>

\* delete_managed_entries, asked three times while 115 is busy.
Delete(w) ==
    LET j == at[w] IN
    /\ step[w] = "delete"
    /\ \/ /\ dir' = [dir EXCEPT ![j] = FALSE]
          /\ \E s \in {"succeed"} \cup CleanupProblem : Continue(w, s)
       \/ /\ UNCHANGED dir
          /\ \E s \in Busy(j) \cup CleanupProblem : Continue(w, s)
    /\ UNCHANGED <<ledger, progress, claims, attempts, leased, rejected, task,
                   submits>>

-----------------------------------------------------------------------------
(* Writes: the claim must be held and the job still cleaning *)

CleanupAccepted(w) == Holds(w) /\ status[at[w]] = "cleaning"

CleanupTarget == [succeed |-> "cleaned", cleanup_fail |-> "cleanup_failed",
                  fail_busy |-> "cleanup_failed", cleanup_detach |-> "detached"]

EndAttempt(w) ==
    LET j == at[w] IN
    /\ step[w] \in DOMAIN CleanupTarget /\ CleanupAccepted(w)
    /\ Move(j, CleanupTarget[step[w]])
    /\ Touch(j, FALSE) /\ ClearClaim(j) /\ Finish(w)
    /\ UNCHANGED <<progress, attempts, leased, rejected, remote>>

\* release: the attempt ended busy; the job stays in cleaning, unclaimed.
Release(w) ==
    LET j == at[w] IN
    /\ step[w] = "release" /\ CleanupAccepted(w)
    /\ Touch(j, retrying[j]) /\ ClearClaim(j) /\ Finish(w)
    /\ UNCHANGED <<ledger, progress, attempts, leased, rejected, remote>>

\* CleanupClaimLost.
CleanupRefused(w) ==
    /\ step[w] \in CleanupWrites /\ ~CleanupAccepted(w)
    /\ Finish(w)
    /\ UNCHANGED <<ledger, progress, claims, attempts, leased, rejected,
                   remote>>

CleanupNext(w) ==
    \/ ClaimCleaning(w) \/ Evict(w) \/ VerifyOwnership(w) \/ Delete(w)
    \/ EndAttempt(w) \/ Release(w) \/ CleanupRefused(w)
=============================================================================
