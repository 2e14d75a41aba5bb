-------------------------- MODULE CacheClaimQueue ---------------------------
(***************************************************************************)
(* CacheJobClaimQueue (worker/claim.py): how a worker claims a job and the *)
(* writes it makes under that claim.  A claim is an owner, a fresh token   *)
(* and an expiry; a write is refused unless the row still carries the      *)
(* writer's token and the claim has not expired.                           *)
(***************************************************************************)
EXTENDS CacheRows

\* The row carries this worker's token and the claim has not expired
\* (_claimed_job; the cleanup queue has the same test).
Holds(w) ==
    /\ at[w] \in Jobs
    /\ holder[at[w]] = w
    /\ lease[at[w]] = "live"

\* Variant: an expired claim is never taken over.
UnclaimedNever(j) == lease[j] = "none"

\* claim_expires_at IS NULL OR claim_expires_at <= now.
Unclaimed(j) == lease[j] \in {"none", "expired"}

\* Steps a call may lead to when 115 answers with an error.
Problem == (IF "transient" \in Faults THEN {"defer"} ELSE {})
           \cup (IF "permanent" \in Faults THEN {"fail"} ELSE {})

Claim(w, j) ==
    /\ holder' = [holder EXCEPT ![j] = w]
    /\ lease' = [lease EXCEPT ![j] = "live"]
    /\ pollDue' = [pollDue EXCEPT ![j] = FALSE]
    /\ at' = [at EXCEPT ![w] = j]
    /\ UNCHANGED <<stage, retrying>>

Continue(w, next) ==
    /\ step' = [step EXCEPT ![w] = next]
    /\ UNCHANGED <<stage, at>>

\* CacheWorkerPipeline runs its three consumers in turn.
NextStage == [offline |-> "resolver", resolver |-> "cleanup",
              cleanup |-> "offline"]

Finish(w) ==
    /\ step' = [step EXCEPT ![w] = "idle"]
    /\ stage' = [stage EXCEPT ![w] = NextStage[@]]
    /\ at' = [at EXCEPT ![w] = NoJob]

-----------------------------------------------------------------------------
(* Claiming *)

\* The first thing done under a claim: the rejected-source test, the opening
\* of the 115 session (either may divert the job) and the dispatch on the row
\* as it was claimed.  None of it writes, so it is part of the claim.
FirstSteps(j, first) ==
    IF source[j] \in rejected THEN {"fail"} ELSE {first} \cup Problem

\* Variant: a submission that was started is made again.
SubmitStepAgain(j) ==
    IF ~cid[j] THEN "mkdir"
    ELSE IF started[j] THEN "submit_offline"
    ELSE "load_submission_payload"

\* Variant: whether the submission was started is not looked at.
SubmitStepBlind(j) == IF ~cid[j] THEN "mkdir" ELSE "load_submission_payload"

\* Where the submission of a job starts or goes on.
SubmitStep(j) ==
    IF ~cid[j] THEN "mkdir"
    ELSE IF started[j] THEN "find_by_task_directory"
    ELSE "load_submission_payload"

CancelStep(j) ==
    IF ~cid[j] THEN "mkdir"
    ELSE IF hash[j] THEN "cancel_offline"
    ELSE IF started[j] THEN "find_cancel_target"
    ELSE "complete_cancel"

DispatchStep(j) ==
    CASE status[j] = "submitting" -> SubmitStep(j)
      [] status[j] = "cancelling" -> CancelStep(j)
      [] OTHER                    -> "poll"

\* An offlining job is taken over, claimed or not, once its poll is due.
Claimable ==
    {j \in Jobs :
        /\ status[j] \in {"submitting", "offlining", "cancelling"}
        /\ Unclaimed(j) \/ (status[j] = "offlining" /\ pollDue[j])}

\* Cancellations first, then submissions, then polls; oldest first in each.
FirstClaimable ==
    LET In(s) == {j \in Claimable : status[j] = s} IN
    IF In("cancelling") # {} THEN Oldest(In("cancelling"))
    ELSE IF In("submitting") # {} THEN Oldest(In("submitting"))
    ELSE Oldest(In("offlining"))

Queued == {j \in Jobs : status[j] = "queued"}

AtStage(w, s) == stage[w] = s /\ step[w] = "idle"

\* claim_next of a job that is already running or being cancelled.
ClaimNext(w) ==
    /\ AtStage(w, "offline")
    /\ \E j \in FirstClaimable :
        /\ Claim(w, j)
        /\ \E s \in FirstSteps(j, DispatchStep(j)) :
              step' = [step EXCEPT ![w] = s]
    /\ UNCHANGED <<ledger, progress, attempts, leased, rejected, remote>>

\* claim_next with nothing claimable: the oldest queued job takes a free slot.
StartQueued(w) ==
    /\ AtStage(w, "offline")
    /\ Claimable = {}
    /\ CountIn("running") < RunningCapacity
    /\ \E j \in Oldest(Queued) :
        /\ Move(j, "submitting")
        /\ Claim(w, j)
        /\ \E s \in FirstSteps(j, SubmitStep(j)) :
              step' = [step EXCEPT ![w] = s]
    /\ UNCHANGED <<progress, attempts, leased, rejected, remote>>

Resolvable == {j \in Jobs : status[j] = "resolving" /\ Unclaimed(j)}

ClaimResolving(w) ==
    /\ AtStage(w, "resolver")
    /\ \E j \in Oldest(Resolvable) :
        /\ Claim(w, j)
        /\ step' = [step EXCEPT ![w] = IF source[j] \in rejected
                      THEN "fail" ELSE "resolution_movie_number"]
    /\ UNCHANGED <<ledger, progress, attempts, leased, rejected, remote>>

-----------------------------------------------------------------------------
(* Fenced writes *)

\* The status a write moves the job to; the other writes leave it alone.
WriteTarget ==
    [save_submission |-> "offlining", mark_submit_uncertain |-> "submit_uncertain",
     record_completed |-> "resolving", record_failed |-> "failed",
     fail |-> "failed", detach |-> "detached", complete_ready |-> "ready",
     complete_choice |-> "awaiting_selection", complete_cancel |-> "cleaning"]

\* The conditions a write tests on the row besides the claim.
RowAllows(w) ==
    LET j == at[w] IN
    /\ step[w] = "mark_submit_started" => cid[j] /\ ~started[j]
    /\ step[w] \in {"save_submission", "mark_submit_uncertain"} =>
         cid[j] /\ started[j]
    /\ step[w] \in {"record_running", "record_completed", "record_failed"} =>
         hash[j]
    /\ step[w] = "save_cancel_target" => status[j] = "cancelling"
    /\ step[w] \in {"detach", "resolution_movie_number", "complete_ready",
                    "complete_choice"} => status[j] = "resolving"

\* The state machine has the transition the write makes.
TransitionAllowed(w) ==
    step[w] \in DOMAIN WriteTarget =>
        WriteTarget[step[w]] \in LegalTargets(status[at[w]])

Accepted(w) == Holds(w) /\ RowAllows(w) /\ TransitionAllowed(w)

\* Variant: the cancellation of the job is not noticed.
AfterDirectorySubmit(j) == "load_submission_payload"

\* The claim returned by save_task_directory carries the status of the row:
\* the job may have been cancelled while its directory was being created.
AfterDirectory(j) ==
    IF status[j] = "cancelling" THEN "complete_cancel"
    ELSE "load_submission_payload"

\* A write that keeps the claim (renewed) and lets the worker go on.
SaveTaskDirectory(w) ==
    LET j == at[w] IN
    /\ step[w] = "save_task_directory" /\ Accepted(w)
    /\ cid' = [cid EXCEPT ![j] = TRUE]
    /\ Touch(j, retrying[j]) /\ KeepClaim
    /\ Continue(w, AfterDirectory(j))
    /\ UNCHANGED <<ledger, started, hash, attempts, leased, rejected, remote>>

MarkSubmitStarted(w) ==
    LET j == at[w] IN
    /\ step[w] = "mark_submit_started" /\ Accepted(w)
    /\ started' = [started EXCEPT ![j] = TRUE]
    /\ Touch(j, retrying[j]) /\ KeepClaim
    /\ Continue(w, "submit_offline")
    /\ UNCHANGED <<ledger, cid, hash, attempts, leased, rejected, remote>>

SaveCancelTarget(w) ==
    LET j == at[w] IN
    /\ step[w] = "save_cancel_target" /\ Accepted(w)
    /\ hash' = [hash EXCEPT ![j] = TRUE]
    /\ Touch(j, retrying[j]) /\ KeepClaim
    /\ Continue(w, "cancel_offline")
    /\ UNCHANGED <<ledger, cid, started, attempts, leased, rejected, remote>>

ResolutionMovieNumber(w) ==
    LET j == at[w] IN
    /\ step[w] = "resolution_movie_number" /\ Accepted(w)
    /\ Touch(j, retrying[j]) /\ KeepClaim
    /\ Continue(w, "inspect")
    /\ UNCHANGED <<ledger, progress, attempts, leased, rejected, remote>>

\* A write that moves the job on and gives the claim up.
SaveSubmission(w) ==
    LET j == at[w] IN
    /\ step[w] = "save_submission" /\ Accepted(w)
    /\ hash' = [hash EXCEPT ![j] = TRUE]
    /\ Move(j, "offlining")
    /\ Touch(j, FALSE) /\ ClearClaim(j) /\ Finish(w)
    /\ UNCHANGED <<cid, started, attempts, leased, rejected, remote>>

MarkSubmitUncertain(w) ==
    LET j == at[w] IN
    /\ step[w] = "mark_submit_uncertain" /\ Accepted(w)
    /\ hash' = [hash EXCEPT ![j] = FALSE]
    /\ Move(j, "submit_uncertain")
    /\ Touch(j, FALSE) /\ ClearClaim(j) /\ Finish(w)
    /\ UNCHANGED <<cid, started, attempts, leased, rejected, remote>>

\* record_offline_snapshot of a finished task, fail, fail_rejected, detach and
\* complete_resolution: the job moves to the target of the step.
MoveAndRelease(w) ==
    LET j == at[w] IN
    /\ step[w] \in {"record_completed", "record_failed", "fail", "detach",
                    "complete_ready", "complete_choice"}
    /\ Accepted(w)
    /\ Move(j, WriteTarget[step[w]])
    /\ Touch(j, FALSE) /\ ClearClaim(j) /\ Finish(w)
    /\ UNCHANGED <<progress, attempts, leased, rejected, remote>>

\* With a task directory the job goes to managed cleanup, without one it is
\* cleaned at once (through cleaning).
CompleteCancel(w) ==
    LET j == at[w]
        target == IF cid[j] THEN "cleaning" ELSE "cleaned"
    IN
    /\ step[w] = "complete_cancel" /\ Accepted(w)
    /\ status' = [status EXCEPT ![j] = target]
    /\ cap' = [cap EXCEPT ![j] = CapacityOf(target)]
    /\ Touch(j, FALSE) /\ ClearClaim(j) /\ Finish(w)
    /\ UNCHANGED <<source, req, progress, attempts, leased, rejected, remote>>

\* record_offline_snapshot of a running task renews the claim and leaves it;
\* defer sets its expiry to the retry delay and records the failure.
KeepWaiting(w) ==
    LET j == at[w] IN
    /\ step[w] \in {"record_running", "defer"} /\ Accepted(w)
    /\ Touch(j, step[w] = "defer") /\ KeepClaim /\ Finish(w)
    /\ UNCHANGED <<ledger, progress, attempts, leased, rejected, remote>>

\* CacheJobClaimLost or InvalidCacheJobTransition: the transaction rolls back
\* and the worker gives the job up.
WriteRefused(w) ==
    /\ step[w] \in QueueWrites /\ ~Accepted(w)
    /\ Finish(w)
    /\ UNCHANGED <<ledger, progress, claims, attempts, leased, rejected,
                   remote>>

QueueNext(w) ==
    \/ ClaimNext(w) \/ StartQueued(w) \/ ClaimResolving(w)
    \/ SaveTaskDirectory(w) \/ MarkSubmitStarted(w) \/ SaveCancelTarget(w)
    \/ ResolutionMovieNumber(w)
    \/ SaveSubmission(w) \/ MarkSubmitUncertain(w) \/ MoveAndRelease(w)
    \/ CompleteCancel(w) \/ KeepWaiting(w) \/ WriteRefused(w)
=============================================================================
