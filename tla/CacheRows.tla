----------------------------- MODULE CacheRows ------------------------------
(***************************************************************************)
(* The shared state of the cloud cache and the transactions the API runs   *)
(* on it.  The database rows (cache_job, cache_play_request, the playback  *)
(* leases, the rejected sources), what the 115 account holds, and the      *)
(* control state of the worker processes are declared here; the worker     *)
(* modules extend this one.                                                *)
(*                                                                         *)
(* A database transaction is one step: it locks the rows it writes, and    *)
(* the ones that count jobs also hold the capacity advisory lock.  Time is *)
(* abstract: a claim expires, a poll falls due and a playback lease ends   *)
(* whenever they may.                                                      *)
(***************************************************************************)
EXTENDS Integers, FiniteSets, CacheJob

CONSTANTS
    MaxJobs,          \* bound: how many cache jobs are ever created
    Sources,          \* magnet sources
    Keys,             \* idempotency keys of play requests
    Workers,          \* worker processes
    Nobody,           \* holder of a job that no worker has claimed
    RunningCapacity,  \* RUNNING_CAPACITY
    QueuedCapacity,   \* QUEUED_CAPACITY
    BusyMaxAttempts,  \* _BUSY_MAX_ATTEMPTS
    MaxAttempts,      \* bound: the counts of cleanup attempts stop here
    Faults            \* what may go wrong in this configuration

FaultKinds == {"transient", "permanent", "uncertain", "source", "busy",
               "vanish", "crash"}

ASSUME RowsAssumption ==
    /\ MaxJobs \in Nat \ {0}
    /\ RunningCapacity \in Nat \ {0}
    /\ QueuedCapacity \in Nat
    /\ BusyMaxAttempts \in Nat
    /\ MaxAttempts \in Nat
    /\ BusyMaxAttempts < MaxAttempts
    /\ Nobody \notin Workers
    /\ Faults \subseteq FaultKinds

VARIABLES
    status, cap, source,  \* cache_job: status, capacity_class, source_id
    req,                  \* cache_play_request: key -> job
    cid, started, hash,   \* task_dir_cid, submit_started_at, remote_info_hash
    holder,               \* whose token claim_token is
    lease,                \* claim_expires_at: no claim, unexpired, expired
    pollDue,              \* updated_at is OFFLINE_POLL_DELAY in the past
    retrying,             \* failure_code was set by defer
    attempts,             \* cache_cleanup_attempt rows of the job
    leased,               \* an unexpired playback lease exists
    rejected,             \* sources with a source_rejection row
    dir, task,            \* 115: the task directory, the offline task
    submits,              \* 115: submit_offline calls received for the job
    stage, step, at       \* worker: pipeline consumer, next step, claimed job

ledger   == <<status, cap, source, req>>
progress == <<cid, started, hash>>
claims   == <<holder, lease, pollDue, retrying>>
remote   == <<dir, task, submits>>
control  == <<stage, step, at>>
vars == <<ledger, progress, claims, attempts, leased, rejected, remote,
          control>>

-----------------------------------------------------------------------------
(* Types *)

Jobs   == 1..MaxJobs
NoJob  == 0
Leases == {"none", "live", "expired"}
Tasks  == {"none", "running", "done", "failed"}
Stages == {"offline", "resolver", "cleanup"}

\* Steps that end in a write fenced by the claim, by consumer.
QueueWrites == {"save_task_directory", "mark_submit_started",
    "save_submission", "mark_submit_uncertain", "record_running",
    "record_completed", "record_failed", "complete_cancel",
    "save_cancel_target", "fail", "defer", "detach",
    "resolution_movie_number", "complete_ready", "complete_choice"}
CleanupWrites == {"succeed", "cleanup_fail", "fail_busy", "release",
    "cleanup_detach"}
FencedWrites == QueueWrites \cup CleanupWrites
\* Steps that call 115 or read a table without touching the job row.
Calls == {"mkdir", "load_submission_payload", "submit_offline",
    "find_by_task_directory", "find_cancel_target", "cancel_offline", "poll",
    "reject", "inspect", "verify_ownership", "delete"}
Steps == {"idle"} \cup FencedWrites \cup Calls

TypeOK ==
    /\ status \in [Jobs -> Statuses \cup {Absent}]
    /\ cap \in [Jobs -> Capacities]
    /\ source \in [Jobs -> Sources \cup {Absent}]
    /\ req \in [Keys -> Jobs \cup {NoJob}]
    /\ cid \in [Jobs -> BOOLEAN]
    /\ started \in [Jobs -> BOOLEAN]
    /\ hash \in [Jobs -> BOOLEAN]
    /\ holder \in [Jobs -> Workers \cup {Nobody}]
    /\ lease \in [Jobs -> Leases]
    /\ pollDue \in [Jobs -> BOOLEAN]
    /\ retrying \in [Jobs -> BOOLEAN]
    /\ attempts \in [Jobs -> 0..MaxAttempts]
    /\ leased \in [Jobs -> BOOLEAN]
    /\ rejected \in SUBSET Sources
    /\ dir \in [Jobs -> BOOLEAN]
    /\ task \in [Jobs -> Tasks]
    /\ submits \in [Jobs -> Nat]
    /\ stage \in [Workers -> Stages]
    /\ step \in [Workers -> Steps]
    /\ at \in [Workers -> Jobs \cup {NoJob}]

Init ==
    /\ status = [j \in Jobs |-> Absent]
    /\ cap = [j \in Jobs |-> "released"]
    /\ source = [j \in Jobs |-> Absent]
    /\ req = [k \in Keys |-> NoJob]
    /\ cid = [j \in Jobs |-> FALSE]
    /\ started = [j \in Jobs |-> FALSE]
    /\ hash = [j \in Jobs |-> FALSE]
    /\ holder = [j \in Jobs |-> Nobody]
    /\ lease = [j \in Jobs |-> "none"]
    /\ pollDue = [j \in Jobs |-> FALSE]
    /\ retrying = [j \in Jobs |-> FALSE]
    /\ attempts = [j \in Jobs |-> 0]
    /\ leased = [j \in Jobs |-> FALSE]
    /\ rejected = {}
    /\ dir = [j \in Jobs |-> FALSE]
    /\ task = [j \in Jobs |-> "none"]
    /\ submits = [j \in Jobs |-> 0]
    /\ stage = [w \in Workers |-> "offline"]
    /\ step = [w \in Workers |-> "idle"]
    /\ at = [w \in Workers |-> NoJob]

-----------------------------------------------------------------------------
(* Rows *)

\* Variant: the count forgets the jobs that are being cancelled.
CountInUncancelled(class) ==
    Cardinality({j \in Jobs : cap[j] = class /\ status[j] # "cancelling"})

\* capacity_snapshot: the jobs counted in a class.
CountIn(class) == Cardinality({j \in Jobs : cap[j] = class})

\* Jobs are served oldest first (created_at, then id): the first of a set, as a
\* set that is empty when there is none.
Oldest(S) == {j \in S : \A k \in S : j <= k}

\* CacheJobState.transition applied to a row.
Move(j, target) ==
    /\ target \in LegalTargets(status[j])
    /\ status' = [status EXCEPT ![j] = target]
    /\ cap' = [cap EXCEPT ![j] = NextCapacity(@, target)]
    /\ UNCHANGED <<source, req>>

\* Every write sets updated_at, and most set or clear failure_code.
Touch(j, failing) ==
    /\ pollDue' = [pollDue EXCEPT ![j] = FALSE]
    /\ retrying' = [retrying EXCEPT ![j] = failing]

ClearClaim(j) ==
    /\ holder' = [holder EXCEPT ![j] = Nobody]
    /\ lease' = [lease EXCEPT ![j] = "none"]

KeepClaim == UNCHANGED <<holder, lease>>

=============================================================================
