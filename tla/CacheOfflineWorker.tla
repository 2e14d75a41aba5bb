------------------------ MODULE CacheOfflineWorker --------------------------
(***************************************************************************)
(* What CacheOfflineWorker (worker/offline.py) does between two writes of  *)
(* the claim queue: the calls to the 115 account, and the step each answer *)
(* leads to.  A call may take effect at 115 and still be answered with an  *)
(* error; a call is not fenced, so it also happens when the claim is lost. *)
(***************************************************************************)
EXTENDS CacheClaimQueue

Calling(w, call) == step[w] = call /\ stage[w] = "offline"

RowsUnchanged == UNCHANGED <<ledger, progress, claims, attempts, leased>>

\* find_or_create_directory by the job's unique directory name.
Mkdir(w) ==
    LET j == at[w] IN
    /\ Calling(w, "mkdir")
    /\ \/ /\ dir' = [dir EXCEPT ![j] = TRUE]
          /\ \E s \in {"save_task_directory"} \cup Problem : Continue(w, s)
       \/ /\ UNCHANGED dir
          /\ \E s \in Problem : Continue(w, s)
    /\ UNCHANGED <<task, submits, rejected>> /\ RowsUnchanged

\* load_submission_payload: the magnet, unless the source is gone or rejected.
LoadSubmissionPayload(w) ==
    /\ Calling(w, "load_submission_payload")
    /\ \E s \in (IF source[at[w]] \in rejected THEN {"fail"}
                   ELSE {"mark_submit_started"})
                \cup (Problem \ {"defer"}) : Continue(w, s)
    /\ UNCHANGED <<remote, rejected>> /\ RowsUnchanged

\* submit_offline: accepted or refused by 115, the answer possibly lost.
SubmitOffline(w) ==
    LET j == at[w]
        unsure == IF "uncertain" \in Faults THEN {"find_by_task_directory"}
                    ELSE {}
        refused == IF "source" \in Faults THEN {"reject"} ELSE {}
    IN
    /\ Calling(w, "submit_offline")
    /\ submits' = [submits EXCEPT ![j] = @ + 1]
    /\ \/ /\ task' = [task EXCEPT ![j] = "running"]
          /\ \E s \in {"save_submission"} \cup unsure : Continue(w, s)
       \/ /\ UNCHANGED task
          /\ \E s \in unsure \cup refused \cup Problem : Continue(w, s)
    /\ UNCHANGED <<dir, rejected>> /\ RowsUnchanged

\* The offline list is searched for the one task saved to the job's directory,
\* after a submission whose outcome is unknown ...
FindByTaskDirectory(w) ==
    /\ Calling(w, "find_by_task_directory")
    /\ \E s \in {IF task[at[w]] = "none" THEN "mark_submit_uncertain"
                   ELSE "save_submission"} \cup Problem : Continue(w, s)
    /\ UNCHANGED <<remote, rejected>> /\ RowsUnchanged

\* ... and when a cancelled job may have been submitted.
FindCancelTarget(w) ==
    /\ Calling(w, "find_cancel_target")
    /\ \E s \in {IF task[at[w]] = "none" THEN "complete_cancel"
                   ELSE "save_cancel_target"} \cup Problem : Continue(w, s)
    /\ UNCHANGED <<remote, rejected>> /\ RowsUnchanged

\* cancel_offline; a task that is not found counts as cancelled.
CancelOffline(w) ==
    LET j == at[w] IN
    /\ Calling(w, "cancel_offline")
    /\ \/ /\ task' = [task EXCEPT ![j] = "none"]
          /\ \E s \in {"complete_cancel"} \cup Problem : Continue(w, s)
       \/ /\ UNCHANGED task
          /\ \E s \in Problem : Continue(w, s)
    /\ UNCHANGED <<dir, submits, rejected>> /\ RowsUnchanged

Recording == [none |-> "fail", running |-> "record_running",
              done |-> "record_completed", failed |-> "record_failed"]

Poll(w) ==
    /\ Calling(w, "poll")
    /\ \E s \in {Recording[task[at[w]]]} \cup Problem : Continue(w, s)
    /\ UNCHANGED <<remote, rejected>> /\ RowsUnchanged

OfflineNext(w) ==
    \/ Mkdir(w) \/ LoadSubmissionPayload(w) \/ SubmitOffline(w)
    \/ FindByTaskDirectory(w) \/ FindCancelTarget(w) \/ CancelOffline(w)
    \/ Poll(w)
=============================================================================
