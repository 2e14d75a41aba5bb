--------------------------- MODULE CachePipeline ----------------------------
(***************************************************************************)
(* The cloud cache as a whole: API requests, worker processes that run the *)
(* offline, resolver and cleanup consumers in turn and may be killed at    *)
(* any point, the 115 account, and the passing of time.                    *)
(***************************************************************************)
EXTENDS CacheApi, CacheOfflineWorker, CacheResolver, CacheCleanup

\* A consumer with nothing to claim returns "idle" and the next one runs.
PassTurn(w) ==
    /\ step[w] = "idle"
    /\ CASE stage[w] = "offline" ->
              /\ Claimable = {}
              /\ CountIn("running") >= RunningCapacity \/ Queued = {}
         [] stage[w] = "resolver" -> Resolvable = {}
         [] OTHER -> Cleanable = {}
    /\ Finish(w)
    /\ UNCHANGED <<ledger, progress, claims, attempts, leased, rejected,
                   remote>>

\* A worker process is killed and restarted: its recovery pass is the pipeline
\* itself, and its claims stay in the rows until they expire.
Crash(w) ==
    /\ "crash" \in Faults
    /\ step[w] # "idle"
    /\ step' = [step EXCEPT ![w] = "idle"]
    /\ stage' = [stage EXCEPT ![w] = "offline"]
    /\ at' = [at EXCEPT ![w] = NoJob]
    /\ UNCHANGED <<ledger, progress, claims, attempts, leased, rejected,
                   remote>>

WorkerNext(w) ==
    QueueNext(w) \/ OfflineNext(w) \/ ResolverNext(w) \/ CleanupNext(w)
    \/ PassTurn(w)

-----------------------------------------------------------------------------
(* Time, and the 115 account *)

ExpireClaim(j) ==
    /\ lease[j] = "live"
    /\ lease' = [lease EXCEPT ![j] = "expired"]
    /\ UNCHANGED <<ledger, progress, holder, pollDue, retrying, attempts,
                   leased, rejected, remote, control>>

PollFallsDue(j) ==
    /\ status[j] = "offlining" /\ ~pollDue[j]
    /\ pollDue' = [pollDue EXCEPT ![j] = TRUE]
    /\ UNCHANGED <<ledger, progress, holder, lease, retrying, attempts,
                   leased, rejected, remote, control>>

\* The offline download ends.
TaskEnds(j) ==
    /\ task[j] = "running"
    /\ \E t \in {"done", "failed"} : task' = [task EXCEPT ![j] = t]
    /\ UNCHANGED <<ledger, progress, claims, attempts, leased, rejected, dir,
                   submits, control>>

\* The account owner, or 115 itself, removes the task or the directory.
Vanish(j) ==
    /\ "vanish" \in Faults
    /\ \/ /\ task[j] # "none"
          /\ task' = [task EXCEPT ![j] = "none"]
          /\ UNCHANGED dir
       \/ /\ dir[j]
          /\ dir' = [dir EXCEPT ![j] = FALSE]
          /\ UNCHANGED task
    /\ UNCHANGED <<ledger, progress, claims, attempts, leased, rejected,
                   submits, control>>

EnvironmentNext ==
    \E j \in Jobs : ExpireClaim(j) \/ PollFallsDue(j) \/ TaskEnds(j)
                    \/ Vanish(j)

-----------------------------------------------------------------------------

Next ==
    \/ ApiNext
    \/ \E w \in Workers : WorkerNext(w) \/ Crash(w)
    \/ EnvironmentNext

Spec == Init /\ [][Next]_vars

\* Nothing goes wrong in this step: no worker is killed, no claim runs out
\* while its worker is at work, no session or call ends in a transient error.
\* 115 may still be busy, refuse what it is asked, or lose a directory.
\* (A cleanup whose write is refused ends like one that is killed.)
Undisturbed ==
    /\ \A w \in Workers : Crash(w) => CleanupRefused(w)
    /\ ~\E w \in Workers : at[w] \in Jobs /\ ExpireClaim(at[w])
    /\ \A w \in Workers :
         step[w] # step'[w] => step'[w] \notin {"defer", "cleanup_fail"}

\* The lease of a job that is not ready cannot be renewed, and runs out.
LeaseRunsOut(j) == status[j] # "ready" /\ EndLease(j)

\* Workers run; claims expire and polls fall due; from some time on the steps
\* are undisturbed.  A pipeline that is disturbed for ever need not get on.
Fairness ==
    /\ \A w \in Workers : WF_vars(WorkerNext(w))
    /\ \A j \in Jobs : /\ WF_vars(ExpireClaim(j)) /\ WF_vars(PollFallsDue(j))
                      /\ WF_vars(LeaseRunsOut(j))
    /\ <>[][Undisturbed]_vars

FairSpec == Spec /\ Fairness

-----------------------------------------------------------------------------
(* Safety *)

\* Every row is one the domain and the CHECK constraints of models.py allow,
\* although a dozen writes change parts of it: the class is the one its status
\* is counted in (a cancelling row still holds its slot), a submission comes
\* after the directory and the start were stored, each status has the remote
\* state it promises, and the claim columns are set together.
RowsWellFormed ==
    \A j \in Jobs :
        /\ status[j] # Absent => WellFormed(status[j], cap[j])
        /\ hash[j] => started[j]
        /\ started[j] => cid[j]
        /\ submits[j] > 0 => started[j]
        /\ status[j] \in {"offlining", "resolving", "awaiting_selection",
                          "ready"} => hash[j]
        /\ status[j] = "submit_uncertain" => started[j] /\ ~hash[j]
        /\ status[j] \in {"cleaning", "cleanup_failed"} => cid[j]
        /\ (holder[j] = Nobody) <=> (lease[j] = "none")

\* The magnet of a job is sent to 115 at most once, through lost answers,
\* expired claims, other workers and crashes: each submission costs quota.
AtMostOneSubmission == \A j \in Jobs : submits[j] <= 1

\* A worker that still holds its claim never has its write refused for another
\* reason: no consumer meets InvalidCacheJobTransition, which the resolver and
\* the cleanup worker do not catch and which would end their process.
ClaimHolderCanWrite ==
    \A w \in Workers :
        Holds(w) =>
            /\ step[w] \in QueueWrites =>
                 RowAllows(w) /\ TransitionAllowed(w)
            /\ step[w] \in CleanupWrites => status[at[w]] = "cleaning"

\* When a job is reported cleaned, nothing of it is left at 115, neither its
\* directory nor a running download.
CleanedLeavesNothing ==
    \A j \in Jobs :
        status[j] = "cleaned" => ~dir[j] /\ task[j] # "running"

\* Only the first worker runs: the others stay as they are initially.
First == CHOOSE w \in Workers : TRUE
OthersIdle ==
    \A w \in Workers \ {First} : stage[w] = "offline" /\ step[w] = "idle"
Alone == []OthersIdle

\* With one worker process, which is how the system is deployed, a job that is
\* cleaned left nothing: a stale worker's calls to 115 would not be fenced.
AloneCleanedLeavesNothing == Alone => []CleanedLeavesNothing

\* A job whose cancellation was confirmed before its submission started is
\* never submitted, although mark_submit_started does not look at its status.
CancelledIsNeverSubmitted ==
    [][\A j \in Jobs :
         status[j] \in {"cancelling", "cleaning", "cleanup_failed"}
           /\ ~started[j] => ~started'[j]]_vars

\* Every behaviour of the pipeline is one of the ledger: claims, expiries,
\* crashes and lost answers never show in what a client is promised.
Ledger == INSTANCE CacheLedger
LedgerSpec == Ledger!Spec

\* The capacity limits hold whatever the interleaving: the writes that move
\* jobs without the advisory lock never overfill a class (CacheLedger).
CapacityRespected == Ledger!CapacityRespected

\* A source has at most one live job (CacheLedger).
OneLiveJobPerSource == Ledger!OneLiveJobPerSource

\* Terminal jobs stay as they are (CacheLedger).
TerminalIsFinal == Ledger!TerminalIsFinal

-----------------------------------------------------------------------------
(* Liveness *)

\* A confirmed cancellation converges: a cancelling job does not hold its slot
\* for ever.
CancellationConverges ==
    \A j \in Jobs : status[j] = "cancelling" ~> status[j] # "cancelling"

\* From some moment on no attempt ends because 115 is busy.
BusyEnds ==
    <>[][\A w \in Workers : step[w] # step'[w] => step'[w] \notin {"release", "fail_busy"}]_vars

\* Once 115 is no longer busy a managed deletion ends, whatever number of busy
\* attempts, lost claims and crashes it went through: a job that was released is
\* taken up again (claim_next; REQ-CHG-335).  The code also ends it after a
\* limit of busy attempts, which the documents disagree about (README, section 6).
CleaningEnds ==
    BusyEnds => \A j \in Jobs : status[j] = "cleaning" ~> status[j] # "cleaning"

\* A job that was given a running slot is submitted, or given up.
SubmissionSettles ==
    \A j \in Jobs : status[j] = "submitting" ~> status[j] # "submitting"

=============================================================================
