------------------------------ MODULE CacheApi ------------------------------
(***************************************************************************)
(* The transactions the API process runs on the cache rows: play requests, *)
(* confirmed cancellation, manual cleanup, media selection and playback    *)
(* leases.  Any number of API requests interleave with the workers.        *)
(***************************************************************************)
EXTENDS CacheRows

\* Variant: a source whose job is being cancelled counts as free.
ActiveJobsOfUncancelled(s) ==
    {j \in Jobs : status[j] \in Active \ {"cancelling"} /\ source[j] = s}

\* The live jobs of a source.
ActiveJobsOf(s) == {j \in Jobs : status[j] \in Active /\ source[j] = s}

\* Jobs are numbered in the order of their creation.
NextJob == Oldest({j \in Jobs : status[j] = Absent})

\* Common to both outcomes of PlayRequestService.create: a key that was never
\* used and a source validate_for_play accepts.  A key used before is answered
\* with its job, or refused when it names another source: nothing is written.
NewRequest(k, s) == req[k] = NoJob /\ s \notin rejected

\* A live job of the source is joined, whatever its status.
JoinJob(k, s) ==
    /\ NewRequest(k, s)
    /\ \E j \in ActiveJobsOf(s) : req' = [req EXCEPT ![k] = j]
    /\ UNCHANGED <<status, cap, source, progress, claims, attempts, leased,
                   rejected, remote, control>>

\* Otherwise a job is created: straight into a running slot when one is free
\* (ahead of any queued job), else into the queue, else refused.
CreateJob(k, s) ==
    LET class == IF CountIn("running") < RunningCapacity
                   THEN "running" ELSE "queued"
    IN
    /\ NewRequest(k, s)
    /\ ActiveJobsOf(s) = {}
    /\ class = "queued" => CountIn("queued") < QueuedCapacity
    /\ \E j \in NextJob :
        /\ status' = [status EXCEPT ![j] =
                        IF class = "running" THEN "submitting" ELSE "queued"]
        /\ cap' = [cap EXCEPT ![j] = class]
        /\ source' = [source EXCEPT ![j] = s]
        /\ req' = [req EXCEPT ![k] = j]
    /\ UNCHANGED <<progress, claims, attempts, leased, rejected, remote,
                   control>>

\* Variant: any claimed submission keeps its claim when it is cancelled.
MkdirInFlightAnyClaim(j) ==
    /\ status[j] = "submitting"
    /\ lease[j] # "none"

\* Variant: an expired claim does not count.
MkdirInFlightUnexpired(j) ==
    /\ status[j] = "submitting"
    /\ ~cid[j] /\ ~started[j] /\ ~hash[j]
    /\ lease[j] = "live"

\* A worker has claimed the job and may be creating its directory right now.
MkdirInFlight(j) ==
    /\ status[j] = "submitting"
    /\ ~cid[j] /\ ~started[j] /\ ~hash[j]
    /\ lease[j] # "none"

\* Where a confirmed cancellation leaves the job: nothing can exist at 115,
\* only the directory can, or the remote task has to be looked for.
CancelTarget(j) ==
    IF MkdirInFlight(j) THEN "cancelling"
    ELSE IF ~cid[j] /\ ~started[j] /\ ~hash[j] THEN "cleaned"
    ELSE IF cid[j] /\ ~started[j] THEN "cleaning"
    ELSE "cancelling"

\* CancellationService.request: queued -> cancelling -> cleaning -> cleaned in
\* one transaction when nothing can exist at 115.
CancelJob(j) ==
    /\ status[j] \in Cancellable
    /\ status' = [status EXCEPT ![j] = CancelTarget(j)]
    /\ cap' = [cap EXCEPT ![j] = NextCapacity(@, CancelTarget(j))]
    /\ IF MkdirInFlight(j) THEN KeepClaim ELSE ClearClaim(j)
    /\ Touch(j, FALSE)
    /\ UNCHANGED <<source, req, progress, attempts, leased, rejected, remote,
                   control>>

\* CleanupQueue.request: refused while the media is being played.
RequestCleanup(j) ==
    /\ ~leased[j]
    /\ status[j] \in {"awaiting_selection", "ready", "cleanup_failed"}
    /\ Move(j, "cleaning")
    /\ ClearClaim(j)
    /\ Touch(j, FALSE)
    /\ UNCHANGED <<progress, attempts, leased, rejected, remote, control>>

\* MediaSelectionService.select of one whole candidate.
SelectMedia(j) ==
    /\ status[j] = "awaiting_selection"
    /\ Move(j, "ready")
    /\ KeepClaim
    /\ Touch(j, FALSE)
    /\ UNCHANGED <<progress, attempts, leased, rejected, remote, control>>

\* A playback session or a heartbeat leases a ready job under its row lock.
AcquireLease(j) ==
    /\ status[j] = "ready"
    /\ leased' = [leased EXCEPT ![j] = TRUE]
    /\ UNCHANGED <<ledger, progress, claims, attempts, rejected, remote,
                   control>>

\* The last lease of the job is ended or expires.
EndLease(j) ==
    /\ leased[j]
    /\ leased' = [leased EXCEPT ![j] = FALSE]
    /\ UNCHANGED <<ledger, progress, claims, attempts, rejected, remote,
                   control>>

ApiNext ==
    \/ \E k \in Keys, s \in Sources : JoinJob(k, s) \/ CreateJob(k, s)
    \/ \E j \in Jobs :
         \/ CancelJob(j)
         \/ RequestCleanup(j)
         \/ SelectMedia(j)
         \/ AcquireLease(j)
         \/ EndLease(j)
=============================================================================
