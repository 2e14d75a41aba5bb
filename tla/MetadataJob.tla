----------------------------- MODULE MetadataJob -----------------------------
(***************************************************************************)
(* The rows of the metadata queue and what their columns allow:            *)
(* catalog/metadata_state.py and the parts of catalog/metadata_queue.py    *)
(* that compute and do not write.  A job is one attempt at one movie; its  *)
(* attempt number is its place in the sequence of the movie's jobs.        *)
(* Dates, numbers and failure texts are abstracted: among queued jobs of   *)
(* one priority any may be claimed first.                                  *)
(***************************************************************************)
EXTENDS Naturals, Sequences, FiniteSets, SequencesExt, Selection

CONSTANT OPTIONAL_STAGES  \* the optional stages in their order

Core       == "javdb_core"
ALL_STAGES == <<Core>> \o OPTIONAL_STAGES
Stages     == Range(ALL_STAGES)
Optional   == Range(OPTIONAL_STAGES)

PRIORITY_BY_REASON ==
  [manual_or_search |-> 10, ranking |-> 20, daily |-> 30,
   initial |-> 40, history |-> 50]

Reasons       == DOMAIN PRIORITY_BY_REASON
Priority(job) == PRIORITY_BY_REASON[job.reason]

StageStatus == {"pending", "running", "succeeded", "warning", "failed", "skipped"}
JobStatus   == {"queued", "running", "completed", "completed_with_warnings", "failed"}

\* Variant: a queued job does not count as active.
ActiveRunning(job) == job.status = "running"

Active(job) == job.status \in {"queued", "running"}

\* A full attempt runs every stage; an enrichment attempt the chosen ones.
StagePlan(mode, requested) ==
  [stage \in Stages |-> IF mode = "full" \/ stage \in requested
                        THEN "pending" ELSE "skipped"]

NewJob(reason, mode, requested, parent) ==
  [reason |-> reason, mode |-> mode, requested |-> requested,
   status |-> "queued", owner |-> 0, live |-> FALSE, overdue |-> FALSE,
   parent |-> parent, stages |-> StagePlan(mode, requested)]

\* live is claim_expires_at > now; overdue is elapsed_ms past the hard timeout.
JobRow == [reason : Reasons, mode : {"full", "missing_enrichment"},
           requested : SUBSET Optional, status : JobStatus, owner : Nat,
           live : BOOLEAN, overdue : BOOLEAN, parent : Nat,
           stages : [Stages -> StageStatus]]

\* The CHECK constraints of metadata_job: a claim belongs to a running job.
\* And what the code relies on: one stage of it runs at most.
RowWellFormed(job) ==
  LET running == {stage \in Stages : job.stages[stage] = "running"}
  IN /\ (job.status = "running") = (job.owner # 0)
     /\ (job.live \/ running # {}) => job.status = "running"
     /\ Cardinality(running) <= 1

\* The condition every write of a claim holder carries.
HoldsClaim(job, token) == job.status = "running" /\ job.owner = token /\ job.live

\* Variant: an expired claim is never taken over.
ClaimableQueued(job) == job.status = "queued"

Claimable(job) == job.status = "queued" \/ (job.status = "running" /\ ~job.live)

\* Variant: the stage of the lost claim stays running.
ClaimedJobKeepsStage(job, token) ==
  [job EXCEPT !.status = "running", !.owner = token, !.live = TRUE]

\* A job taken over from an expired claim forgets the stage that was running.
ClaimedJob(job, token) ==
  [job EXCEPT !.status = "running", !.owner = token, !.live = TRUE,
              !.stages = [stage \in Stages |->
                            IF @[stage] = "running" THEN "pending" ELSE @[stage]]]

\* Variant: the claim stays on the row.
FinishedJobKeepsClaim(job, status) == [job EXCEPT !.status = status]

FinishedJob(job, status) ==
  [job EXCEPT !.status = status, !.owner = 0, !.live = FALSE, !.overdue = FALSE]

\* _fail closes the one stage that was running with the job.
FailedJob(job) ==
  LET running == {stage \in Stages : job.stages[stage] = "running"}
      closed  == IF running = {} THEN Core ELSE CHOOSE stage \in running : TRUE
  IN [FinishedJob(job, "failed") EXCEPT
        !.stages[closed] = IF running = {} THEN @ ELSE "failed"]

PendingStages(job) ==
  Selected(ALL_STAGES, {stage \in Stages : job.stages[stage] = "pending"})

HasWarnings(job) ==
  \E stage \in Stages : job.stages[stage] \in {"warning", "failed"}

\* The stage's status in the youngest attempt of the parent chain that ran it.
LatestNonSkipped(attempts, a, stage) ==
  LET look[i \in 0 .. Len(attempts)] ==
        CASE i = 0 -> "none"
          [] i > 0 /\ attempts[i].stages[stage] # "skipped" ->
               attempts[i].stages[stage]
          [] OTHER -> look[attempts[i].parent]
  IN look[a]

\* The optional stages an administrator may ask to run again for attempt a.
RetryableStages(attempts, a, catalogState) ==
  LET job == attempts[a]
  IN IF \/ job.status = "completed_with_warnings"
        \/ /\ job.status = "failed" /\ catalogState = "core_ready"
           /\ job.stages[Core] = "succeeded"
     THEN {stage \in Optional :
             LatestNonSkipped(attempts, a, stage) \in {"warning", "failed", "pending"}}
     ELSE {}
==============================================================================
