--------------------------- MODULE CacheRetention ---------------------------
(***************************************************************************)
(* Which materialized cache jobs are kept: expiry (TTL), least recent use  *)
(* (LRU) above the ready capacity, and playback leases (cleanup.py,        *)
(* ttl_lru.py, playback/lease.py, playback/heartbeat.py).                  *)
(*                                                                         *)
(* Here the cleanup queue's claim_next is not one step: its statements run *)
(* at READ COMMITTED, each on a snapshot of its own.  The last one selects *)
(* its candidates in the snapshot and then locks the first that is not     *)
(* locked by others; when that row was changed since, PostgreSQL evaluates *)
(* the condition again on the new row, but not on the leases, which are in *)
(* another table.  The capacity advisory lock is held all along: claims,   *)
(* manual requests and cancellations exclude each other; leases, ends of   *)
(* attempts and newly resolved jobs do not take it.                        *)
(***************************************************************************)
EXTENDS Integers, FiniteSets, Sequences, Functions, Selection

CONSTANTS
    Jobs,          \* cache jobs
    Workers,       \* worker processes
    Nobody,        \* no worker
    Lost,          \* holder of a claim whose worker was killed
    ReadyCapacity  \* READY_CAPACITY

ASSUME RetentionAssumption ==
    /\ IsFiniteSet(Jobs)
    /\ ReadyCapacity \in Nat
    /\ Nobody \notin Workers /\ Lost \notin Workers /\ Lost # Nobody

VARIABLES
    status,     \* cache_job.status
    due,        \* expires_at has passed
    leased,     \* an unexpired playback lease exists
    recency,    \* the materialized jobs by last_accessed_at, oldest first
    locked,     \* row locked by a transaction that is acquiring a lease
    claimant,   \* the worker that makes a cleanup attempt
    claimer,    \* the worker in claim_next: it holds the capacity lock
    statement,  \* the next statement of its transaction
    cleaning,   \* the counts it has read
    ready,
    found       \* the candidates of its selection, in order

txn  == <<claimer, statement, cleaning, ready, found>>
vars == <<status, due, leased, recency, locked, claimant, txn>>

Materialized == {"awaiting_selection", "ready"}
ReadyClass   == Materialized \cup {"cleaning", "cleanup_failed"}
Statuses     == {"running"} \cup ReadyClass \cup {"cleaned", "detached"}

In(S) == {j \in Jobs : status[j] \in S}

Statements == {"none", "count_cleaning", "count_ready", "select", "lock"}

OverTarget == ready - cleaning > ReadyCapacity

\* The shape of the rows; recency holds the materialized jobs, each once, and
\* only a ready job is locked for a lease.
TypeOK ==
    /\ status \in [Jobs -> Statuses]
    /\ due \in [Jobs -> BOOLEAN]
    /\ leased \in [Jobs -> BOOLEAN]
    /\ recency \in Seq(Jobs) /\ IsInjective(recency)
    /\ Range(recency) = In(Materialized)
    /\ locked \in [Jobs -> BOOLEAN]
    /\ \A j \in Jobs : locked[j] => status[j] = "ready"
    /\ claimant \in [Jobs -> Workers \cup {Nobody, Lost}]
    /\ claimer \in Workers \cup {Nobody}
    /\ statement \in Statements
    /\ cleaning \in 0..Cardinality(Jobs)
    /\ ready \in 0..Cardinality(Jobs)
    /\ found \in Seq(Jobs)

Init ==
    /\ status = [j \in Jobs |-> "running"]
    /\ due = [j \in Jobs |-> FALSE]
    /\ leased = [j \in Jobs |-> FALSE]
    /\ recency = <<>>
    /\ locked = [j \in Jobs |-> FALSE]
    /\ claimant = [j \in Jobs |-> Nobody]
    /\ claimer = Nobody /\ statement = "none"
    /\ cleaning = 0 /\ ready = 0 /\ found = <<>>

-----------------------------------------------------------------------------
(* The API and time *)

\* Variant: the advisory lock is not taken.
CapacityLockFreeIgnored == TRUE

\* No claim_next transaction holds the capacity advisory lock.
CapacityLockFree == claimer = Nobody

\* Variant: the earlier use of the job stays on record.
TouchedAgain(j) == Append(recency, j)

\* The other jobs in the order of their last use.
Others(j) == Selected(recency, Jobs \ {j})

\* refresh_timestamps: the job becomes the most recently used one.
Touched(j) == Append(Others(j), j)

\* MediaSelectionService.select keeps the timestamps.
SelectMedia(j) ==
    /\ status[j] = "awaiting_selection"
    /\ status' = [status EXCEPT ![j] = "ready"]
    /\ UNCHANGED <<due, leased, recency, locked, claimant, txn>>

\* A new playback session, a lease or a heartbeat: the row is locked and found
\* ready ...
BeginLease(j) ==
    /\ status[j] = "ready" /\ ~locked[j]
    /\ locked' = [locked EXCEPT ![j] = TRUE]
    /\ UNCHANGED <<status, due, leased, recency, claimant, txn>>

\* ... and the lease and the refreshed timestamps are committed together.
CommitLease(j) ==
    /\ locked[j]
    /\ leased' = [leased EXCEPT ![j] = TRUE]
    /\ due' = [due EXCEPT ![j] = FALSE]
    /\ recency' = Touched(j)
    /\ locked' = [locked EXCEPT ![j] = FALSE]
    /\ UNCHANGED <<status, claimant, txn>>

\* The session is revoked, expired or unknown: nothing is written.
AbortLease(j) ==
    /\ locked[j]
    /\ locked' = [locked EXCEPT ![j] = FALSE]
    /\ UNCHANGED <<status, due, leased, recency, claimant, txn>>

\* The last lease is ended by the client, or expires.
EndLease(j) ==
    /\ leased[j]
    /\ leased' = [leased EXCEPT ![j] = FALSE]
    /\ UNCHANGED <<status, due, recency, locked, claimant, txn>>

\* The time to live passes.  It is an hour at least and counts from the same
\* instant as a lease of 90 seconds, so it does not pass during a lease.
Expire(j) ==
    /\ status[j] \in Materialized /\ ~leased[j] /\ ~due[j]
    /\ due' = [due EXCEPT ![j] = TRUE]
    /\ UNCHANGED <<status, leased, recency, locked, claimant, txn>>

\* CleanupQueue.request: the leases are read after the row was locked.
RequestCleanup(j) ==
    /\ CapacityLockFree /\ ~locked[j]
    /\ ~leased[j]
    /\ status[j] \in Materialized \cup {"cleanup_failed"}
    /\ status' = [status EXCEPT ![j] = "cleaning"]
    /\ recency' = Others(j)
    /\ claimant' = [claimant EXCEPT ![j] = Nobody]
    /\ UNCHANGED <<due, leased, locked, txn>>

-----------------------------------------------------------------------------
(* CleanupQueue.claim_next *)

\* Commit or rollback.
EndTxn ==
    /\ claimer' = Nobody /\ statement' = "none"
    /\ cleaning' = 0 /\ ready' = 0 /\ found' = <<>>

\* A worker does one thing at a time.
Idle(w) == claimer # w /\ \A j \in Jobs : claimant[j] # w

Cleanable ==
    {j \in Jobs : status[j] = "cleaning" /\ claimant[j] = Nobody /\ ~leased[j]}

ClaimCleaning(w) ==
    /\ Idle(w) /\ CapacityLockFree
    /\ \E j \in Cleanable : claimant' = [claimant EXCEPT ![j] = w]
    /\ UNCHANGED <<status, due, leased, recency, locked, txn>>

\* Nothing is there to be cleaned: an eviction is considered.
Consider(w) ==
    /\ Idle(w) /\ CapacityLockFree
    /\ Cleanable = {}
    /\ claimer' = w /\ statement' = "count_cleaning"
    /\ UNCHANGED <<cleaning, ready, found>>
    /\ UNCHANGED <<status, due, leased, recency, locked, claimant>>

\* The two counts are read by two statements.
CountCleaning ==
    /\ statement = "count_cleaning"
    /\ cleaning' = Cardinality(In({"cleaning"}))
    /\ statement' = "count_ready"
    /\ UNCHANGED <<claimer, ready, found>>
    /\ UNCHANGED <<status, due, leased, recency, locked, claimant>>

CountReady ==
    /\ statement = "count_ready"
    /\ ready' = Cardinality(In(ReadyClass))
    /\ statement' = "select"
    /\ UNCHANGED <<claimer, cleaning, found>>
    /\ UNCHANGED <<status, due, leased, recency, locked, claimant>>

\* Variant: only expired jobs are ever evicted.
EligibleExpired(j) == status[j] \in Materialized /\ due[j]

\* Expired jobs, and above the target any materialized job.
Eligible(j) ==
    status[j] \in Materialized /\ (due[j] \/ OverTarget)

\* The candidates of the snapshot: expired ones first, then by last access.
SelectVictims ==
    LET free == {j \in Jobs : Eligible(j) /\ ~leased[j]}
        old  == {j \in free : due[j]}
    IN
    /\ statement = "select"
    /\ found' = Selected(recency, old) \o Selected(recency, free \ old)
    /\ statement' = "lock"
    /\ UNCHANGED <<claimer, cleaning, ready>>
    /\ UNCHANGED <<status, due, leased, recency, locked, claimant>>

\* Variant: what the snapshot showed is not looked at again.
StillEligibleAssumed(j) == status[j] \in Materialized

\* The condition on the row, evaluated again on the version that is locked.
StillEligible(j) == Eligible(j)

Lockable(j) == ~locked[j] /\ StillEligible(j)

\* FOR UPDATE SKIP LOCKED LIMIT 1: the first candidate that can be locked and
\* is still eligible goes to cleaning, claimed.
Evict ==
    /\ statement = "lock"
    /\ \E j \in Jobs, i \in DOMAIN found :
        /\ found[i] = j /\ Lockable(j)
        /\ \A k \in 1..(i - 1) : ~Lockable(found[k])
        /\ status' = [status EXCEPT ![j] = "cleaning"]
        /\ recency' = Others(j)
        /\ claimant' = [claimant EXCEPT ![j] = claimer]
    /\ EndTxn
    /\ UNCHANGED <<due, leased, locked>>

NoVictim ==
    /\ statement = "lock"
    /\ \A i \in DOMAIN found : ~Lockable(found[i])
    /\ EndTxn
    /\ UNCHANGED <<status, due, leased, recency, locked, claimant>>

ClaimStep == CountCleaning \/ CountReady \/ SelectVictims \/ Evict \/ NoVictim

-----------------------------------------------------------------------------
(* The other work of a worker, without the capacity lock *)

\* complete_resolution: one or several candidates were found.
Resolve(w, j) ==
    /\ Idle(w)
    /\ status[j] = "running"
    /\ \E s \in Materialized : status' = [status EXCEPT ![j] = s]
    /\ recency' = Touched(j)
    /\ UNCHANGED <<due, leased, locked, claimant, txn>>

\* complete_cancel of a job that has a task directory.
CompleteCancel(w, j) ==
    /\ Idle(w)
    /\ status[j] = "running"
    /\ status' = [status EXCEPT ![j] = "cleaning"]
    /\ UNCHANGED <<due, leased, recency, locked, claimant, txn>>

\* The end of an attempt.  succeed deletes the media and with them the sessions
\* and leases; fail and detach do not.
EndAttempt(w, j) ==
    /\ status[j] = "cleaning" /\ claimant[j] = w
    /\ \E s \in {"cleaned", "cleanup_failed", "detached"} :
        /\ status' = [status EXCEPT ![j] = s]
        /\ leased' = [leased EXCEPT ![j] = @ /\ s # "cleaned"]
    /\ claimant' = [claimant EXCEPT ![j] = Nobody]
    /\ UNCHANGED <<due, recency, locked, txn>>

\* The attempt ends busy and is released, or its claim expires.
GiveUp(j) ==
    /\ status[j] = "cleaning" /\ claimant[j] # Nobody
    /\ claimant' = [claimant EXCEPT ![j] = Nobody]
    /\ UNCHANGED <<status, due, leased, recency, locked, txn>>

\* The worker is killed: its transaction is rolled back, its claim stays.
Crash(w) ==
    /\ ~Idle(w)
    /\ IF claimer = w THEN EndTxn ELSE UNCHANGED txn
    /\ claimant' = [j \in Jobs |-> IF claimant[j] = w THEN Lost ELSE claimant[j]]
    /\ UNCHANGED <<status, due, leased, recency, locked>>

-----------------------------------------------------------------------------

Next ==
    \/ \E j \in Jobs :
         \/ SelectMedia(j) \/ Expire(j) \/ RequestCleanup(j)
         \/ BeginLease(j) \/ CommitLease(j) \/ AbortLease(j) \/ EndLease(j)
         \/ GiveUp(j)
    \/ \E w \in Workers :
         \/ ClaimCleaning(w) \/ Consider(w) \/ Crash(w)
         \/ \E j \in Jobs : Resolve(w, j) \/ CompleteCancel(w, j) \/ EndAttempt(w, j)
    \/ ClaimStep

Spec == Init /\ [][Next]_vars

\* No worker is killed, no attempt of a live worker ends without a result, no
\* lease is refused and nobody asks for a cleanup.  (A transaction that found no
\* victim ends like a killed one, a renewed lease may change nothing.)
Undisturbed ==
    /\ \A w \in Workers : Crash(w) => NoVictim
    /\ \A j \in Jobs :
        /\ AbortLease(j) => CommitLease(j)
        /\ ~RequestCleanup(j)
        /\ ~(GiveUp(j) /\ claimant[j] \in Workers)

\* Workers run, lost claims expire; an attempt is busy for a bounded number of
\* times only, because 115 stops being busy or the limit of AfterBusy in
\* CacheCleanup is reached, and disturbances stop.
Fairness ==
    /\ \A w \in Workers, j \in Jobs : WF_vars(EndAttempt(w, j))
    /\ \A w \in Workers : WF_vars(ClaimCleaning(w) \/ Consider(w))
    /\ WF_vars(ClaimStep)
    /\ \A j \in Jobs : /\ WF_vars(CommitLease(j))
                       /\ WF_vars(GiveUp(j) /\ claimant[j] = Lost)
    /\ <>[][Undisturbed]_vars

FairSpec == Spec /\ Fairness

-----------------------------------------------------------------------------

EvictedBy(j) ==
    status[j] \in Materialized /\ status'[j] = "cleaning" /\ claimant'[j] # Nobody

\* With one worker process: a job that has not expired is only evicted while
\* more than ReadyCapacity jobs, not counting the ones being cleaned, are ready
\* at that moment - although the counts were read by earlier statements.
EvictionIsNeeded ==
    [][\A j \in Jobs : EvictedBy(j) /\ ~due[j] =>
         Cardinality(In(ReadyClass)) - Cardinality(In({"cleaning"}))
           > ReadyCapacity]_vars

\* A lease wins against the expiry: a job that is played is not evicted because
\* its time to live had passed before, also when the lease was committed after
\* the candidates were selected.
LeaseBeatsExpiry ==
    [][\A j \in Jobs : EvictedBy(j) /\ leased[j] => OverTarget]_vars

\* A job that nobody plays does not stay when it has expired, or when more
\* than ReadyCapacity jobs are ready.
RetentionConverges ==
    \A j \in Jobs :
        []<>~(/\ status[j] \in Materialized /\ ~leased[j]
              /\ \/ due[j]
                 \/ Cardinality(In(ReadyClass)) - Cardinality(In({"cleaning"}))
                      > ReadyCapacity)

\* "While the cached film is playing it has a lease, and a valid lease keeps it
\* from being cleaned automatically" (2026-07-24--sakuraplayer-v1.md, AC-096).
PlayedIsKept == [][\A j \in Jobs : EvictedBy(j) => ~leased[j]]_vars
=============================================================================
