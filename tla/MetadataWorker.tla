---------------------------- MODULE MetadataWorker ----------------------------
(***************************************************************************)
(* worker/metadata_supervisor.py and metadata_child.py over MetadataQueue: *)
(* the supervisor claims jobs, starts a child process for each, renews its *)
(* claim, and reaps, times out or loses the child.  The child runs the     *)
(* stages of its job, each step a transaction of its own.                  *)
(*                                                                         *)
(* Time is abstracted to its two consequences for a running job: the claim *)
(* lapses (claim_expires_at passes) and the hard timeout passes.  A lapse  *)
(* of a supervised claim is a late tick: the supervisor loop also waits    *)
(* for the termination of other children and for the database.             *)
(***************************************************************************)
EXTENDS MetadataQueue

CONSTANT MaxFaults   \* bound of the model: late ticks, kills, crashes, shutdowns

VARIABLES children,  \* the supervisor's table: the claims it has a child for
          slot,      \* the claim it is about to launch, or NoClaim
          procs,     \* the child processes that are alive, by claim
          faults     \* how many faults happened

vars == <<queueVars, children, slot, procs, faults>>

NoClaim == [token |-> 0]
Claim(m, a, token) == [token |-> token, movie |-> m, attempt |-> a]

Row(c) == jobs[c.movie][c.attempt]

Holds(c) == HoldsClaim(Row(c), c.token)

ChildPc == {"load", "check", "start", "exec", "verify", "good", "bad", "fail"}
ChildState == [pc : ChildPc, todo : Seq(Stages), warnings : BOOLEAN]

\* The claims whose owner was made.
Claims == [token : 1 .. claims, movie : Movies, attempt : 1 .. MaxJobs]

TypeOK ==
  /\ QueueTypeOK
  /\ children \subseteq Claims
  /\ slot \in Claims \cup {NoClaim}
  /\ DOMAIN procs \subseteq Claims
  /\ \A c \in DOMAIN procs : procs[c] \in ChildState
  /\ faults \in 0 .. MaxFaults

Init ==
  /\ QueueInit
  /\ children = {} /\ slot = NoClaim
  /\ procs = <<>> /\ faults = 0

Alive == DOMAIN procs
Without(killed) == [c \in Alive \ killed |-> procs[c]]
Fault == faults < MaxFaults /\ faults' = faults + 1

-----------------------------------------------------------------------------
(* The supervisor.                                                         *)

\* _fill_slots takes a claim while a slot is free ...
ClaimSlot(m, a) ==
  /\ slot = NoClaim
  /\ Cardinality(children) < MaxRunning
  /\ ClaimNext(m, a)
  /\ slot' = Claim(m, a, claims')
  /\ UNCHANGED <<children, procs, faults>>

\* ... and launches a child, unless the job used up its time before.  The
\* table has one child per job: an older one is forgotten and runs on.
Launch ==
  /\ slot # NoClaim /\ ~Row(slot).overdue
  /\ children' = {c \in children : c.movie # slot.movie} \cup {slot}
  /\ procs' = [c \in Alive \cup {slot} |->
                 IF c \in Alive THEN procs[c]
                 ELSE [pc |-> "load", todo |-> <<>>, warnings |-> FALSE]]
  /\ slot' = NoClaim
  /\ UNCHANGED <<queueVars, faults>>

\* The job is out of time, or the process could not be started.
LaunchFails ==
  /\ slot # NoClaim /\ Holds(slot)
  /\ Row(slot).overdue \/ faults < MaxFaults
  /\ FailJob(slot.movie, slot.attempt)
  /\ faults' = IF Row(slot).overdue THEN faults ELSE faults + 1
  /\ slot' = NoClaim
  /\ UNCHANGED <<children, procs>>

\* Every exception that leaves the tick (a claim lost before the launch, a
\* lost connection) and every crash ends the worker process.
WorkerDies ==
  /\ \/ Fault
     \/ slot # NoClaim /\ ~Holds(slot) /\ UNCHANGED faults
  /\ children' = {} /\ slot' = NoClaim
  /\ UNCHANGED <<queueVars, procs>>

\* The watchdog thread of a child sees its parent's pipe close.
WatchdogKills(c) ==
  /\ c \in Alive \ children
  /\ procs' = Without({c})
  /\ UNCHANGED <<queueVars, children, slot, faults>>

\* _reap_finished: a child that ended without ending its job fails it.
Reap(c) ==
  /\ c \in children \ Alive
  /\ IF Holds(c) THEN FailJob(c.movie, c.attempt) ELSE UNCHANGED queueVars
  /\ children' = children \ {c}
  /\ UNCHANGED <<slot, procs, faults>>

\* _terminate_timed_out: the kill precedes the write, so an expired claim
\* does not keep the job from failing.
TerminateTimedOut(c) ==
  /\ c \in children /\ Row(c).overdue
  /\ procs' = Without({c})
  /\ IF Row(c).status = "running" /\ Row(c).owner = c.token
     THEN FailJob(c.movie, c.attempt) ELSE UNCHANGED queueVars
  /\ children' = children \ {c}
  /\ UNCHANGED <<slot, faults>>

\* _renew_claims finds the claim gone and gives the child up.
RenewLost(c) ==
  /\ c \in children /\ ~Holds(c)
  /\ procs' = Without({c})
  /\ children' = children \ {c}
  /\ UNCHANGED <<queueVars, slot, faults>>

\* shutdown kills the children and expires their claims.
Shutdown ==
  /\ slot = NoClaim /\ children # {}
  /\ Fault
  /\ procs' = Without(children)
  /\ jobs' = [m \in Movies |-> [a \in 1 .. Len(jobs[m]) |->
                IF \E c \in children : /\ c.movie = m /\ c.attempt = a
                                       /\ jobs[m][a].status = "running"
                                       /\ jobs[m][a].owner = c.token
                THEN [jobs[m][a] EXCEPT !.live = FALSE] ELSE jobs[m][a]]]
  /\ children' = {}
  /\ UNCHANGED <<catalog, paused, seeding, seeded, claims, slot>>

-----------------------------------------------------------------------------
(* The child process of claim c.                                           *)

Step(c, child) == procs' = [procs EXCEPT ![c] = child]
Exit(c)        == procs' = Without({c})
Stage(c)       == Head(procs[c].todo)
At(c, pc)      == c \in Alive /\ procs[c].pc = pc

\* load_claim reads the stages that are left and the warnings so far.
LoadClaim(c) ==
  /\ At(c, "load") /\ Holds(c)
  /\ Step(c, [pc |-> IF Row(c).mode = "missing_enrichment" THEN "check" ELSE "start",
              todo |-> PendingStages(Row(c)), warnings |-> HasWarnings(Row(c))])
  /\ UNCHANGED queueVars

\* An enrichment attempt needs the core to be there.
CheckCore(c) ==
  /\ At(c, "check") /\ Holds(c)
  /\ Step(c, [procs[c] EXCEPT !.pc = IF catalog[c.movie] = "core_ready"
                                     THEN "start" ELSE "fail"])
  /\ UNCHANGED queueVars

ChildStartStage(c) ==
  /\ At(c, "start") /\ procs[c].todo # <<>>
  /\ StartStage(c.movie, c.attempt, c.token, Stage(c))
  /\ Step(c, [procs[c] EXCEPT !.pc = "exec"])

\* The provider work of a stage: its result is written under the fence, or
\* the stage fails before or after that write.
ExecuteCore(c) ==
  /\ At(c, "exec") /\ Stage(c) = Core
  /\ ImportCore(c.movie, c.attempt, c.token)
  /\ \E pc \in {"verify", "bad"} : Step(c, [procs[c] EXCEPT !.pc = pc])

ExecuteFails(c) ==
  /\ At(c, "exec")
  /\ Step(c, [procs[c] EXCEPT !.pc = "bad"])
  /\ UNCHANGED queueVars

ExecuteOptional(c) ==
  /\ At(c, "exec") /\ Stage(c) # Core
  /\ Step(c, [procs[c] EXCEPT !.pc = "good"])
  /\ UNCHANGED queueVars

VerifyCore(c) ==
  /\ At(c, "verify") /\ Holds(c)
  /\ Step(c, [procs[c] EXCEPT !.pc = IF catalog[c.movie] = "core_ready"
                                     THEN "good" ELSE "bad"])
  /\ UNCHANGED queueVars

FinishGood(c) ==
  /\ At(c, "good")
  /\ FinishStage(c.movie, c.attempt, c.token, Stage(c), "succeeded")
  /\ Step(c, [procs[c] EXCEPT !.pc = "start", !.todo = Tail(@)])

\* A failed core stage ends the job; any other failure is a warning.
FinishBad(c) ==
  /\ At(c, "bad")
  /\ IF Stage(c) = Core
     THEN /\ FinishStage(c.movie, c.attempt, c.token, Core, "failed")
          /\ Step(c, [procs[c] EXCEPT !.pc = "fail"])
     ELSE /\ FinishStage(c.movie, c.attempt, c.token, Stage(c), "warning")
          /\ Step(c, [pc |-> "start", todo |-> Tail(procs[c].todo), warnings |-> TRUE])

ChildFails(c) ==
  /\ At(c, "fail") /\ Holds(c)
  /\ FailJob(c.movie, c.attempt)
  /\ Exit(c)

ChildCompletes(c) ==
  /\ At(c, "start") /\ procs[c].todo = <<>>
  /\ Complete(c.movie, c.attempt, c.token, procs[c].warnings)
  /\ Exit(c)

\* A write that is refused raises, and the exception ends the child.
ChildRefused(c) ==
  /\ c \in Alive
  /\ \/ procs[c].pc # "exec" /\ ~Holds(c)
     \/ /\ At(c, "start") /\ procs[c].todo = <<>>
        /\ ~CanComplete(c.movie, c.attempt, c.token, procs[c].warnings)
  /\ Exit(c)
  /\ UNCHANGED queueVars

ChildStep(c) ==
  /\ \/ LoadClaim(c) \/ CheckCore(c) \/ ChildStartStage(c)
     \/ ExecuteCore(c) \/ ExecuteFails(c) \/ ExecuteOptional(c) \/ VerifyCore(c)
     \/ FinishGood(c) \/ FinishBad(c)
     \/ ChildFails(c) \/ ChildCompletes(c) \/ ChildRefused(c)
  /\ UNCHANGED <<children, slot, faults>>

ChildKilled(c) ==
  /\ c \in Alive
  /\ Fault /\ Exit(c)
  /\ UNCHANGED <<queueVars, children, slot>>

-----------------------------------------------------------------------------
(* Time.                                                                   *)

Supervised(m, a) == Exists(m, a) /\ \E c \in children \cup {slot} :
                      c.token # 0 /\ jobs[m][a].owner = c.token

\* Nobody renews the claim of a job whose worker is gone.
ClaimExpires(m, a) ==
  /\ Exists(m, a) /\ jobs[m][a].live
  /\ IF Supervised(m, a) THEN Fault ELSE UNCHANGED faults
  /\ SetJob(m, a, [jobs[m][a] EXCEPT !.live = FALSE])
  /\ UNCHANGED <<catalog, paused, seeding, seeded, claims, children, slot, procs>>

HardTimeoutPasses(m, a) ==
  /\ Exists(m, a) /\ jobs[m][a].status = "running" /\ ~jobs[m][a].overdue
  /\ SetJob(m, a, [jobs[m][a] EXCEPT !.overdue = TRUE])
  /\ UNCHANGED <<catalog, paused, seeding, seeded, claims, children, slot, procs, faults>>

-----------------------------------------------------------------------------
Supervisor == \/ \E id \in JobIds : ClaimSlot(id[1], id[2])
              \/ Launch \/ LaunchFails
              \/ \E c \in children : Reap(c) \/ TerminateTimedOut(c) \/ RenewLost(c)

Next ==
  \/ Request /\ UNCHANGED <<children, slot, procs, faults>>
  \/ Supervisor \/ WorkerDies \/ Shutdown
  \/ \E c \in Alive : ChildStep(c) \/ ChildKilled(c) \/ WatchdogKills(c)
  \/ \E id \in JobIds : ClaimExpires(id[1], id[2]) \/ HardTimeoutPasses(id[1], id[2])

Spec == Init /\ [][Next]_vars

(* The worker container is restarted and its loop ticks; a child takes its *)
(* steps; time passes.  Requests and faults are not fair.                  *)
LateLaunchDies   == slot # NoClaim /\ ~Holds(slot) /\ WorkerDies
OrphanExpires(m) == \E a \in 1 .. MaxJobs : ~Supervised(m, a) /\ ClaimExpires(m, a)
TimePasses(m)    == \E a \in 1 .. MaxJobs : HardTimeoutPasses(m, a)
OverdueEnds(m)   == \E c \in children : c.movie = m /\ TerminateTimedOut(c)

Fairness ==
  /\ WF_vars(Supervisor) /\ WF_vars(LateLaunchDies)
  /\ \A m \in Movies :
       WF_vars(OrphanExpires(m)) /\ WF_vars(TimePasses(m)) /\ WF_vars(OverdueEnds(m))

FairSpec == Spec /\ Fairness
-----------------------------------------------------------------------------
(* Safety.                                                                 *)

\* What the catalog says of a movie that is not ready is what its youngest
\* job does, and a job completes only for a movie that is ready.
CatalogFollowsJobs ==
  \A m \in Movies :
    /\ catalog[m] # "core_ready" =>
         catalog[m] = CASE jobs[m] = <<>>                  -> "raw_only"
                        [] jobs[m] # <<>> /\ Latest(m).status = "queued"  -> "metadata_queued"
                        [] jobs[m] # <<>> /\ Latest(m).status = "running" -> "metadata_running"
                        [] jobs[m] # <<>> /\ Latest(m).status = "failed"  -> "raw_only"
    /\ \A a \in 1 .. Len(jobs[m]) :
         jobs[m][a].stages[Core] = "succeeded" => catalog[m] = "core_ready"

\* At most MAX_RUNNING_JOBS jobs run under an unexpired claim, and at most
\* one job of a movie is active (the youngest).
SlotsRespected ==
  /\ Cardinality(LiveJobs) <= MaxRunning
  /\ \A m \in Movies : \A a \in 1 .. Len(jobs[m]) - 1 : ~Active(jobs[m][a])

\* The API promises an administrator at most MAX_RUNNING_JOBS running jobs
\* (MetadataQueueControlOutput.running).  The code does not keep it: the
\* count includes jobs whose claim expired, and claim_next does not.
RunningWithinContract == Cardinality(RunningJobs) <= MaxRunning

\* The queue implements the abstract work queue: one open attempt per movie,
\* fresh claims, and an attempt ends once and only while it is held.
Attempts ==
  [m \in Movies |-> [a \in 1 .. Len(jobs[m]) |->
     [phase |-> CASE jobs[m][a].status = "queued"  -> "queued"
                  [] jobs[m][a].status = "running" -> "held"
                  [] jobs[m][a].status = "failed"  -> "failed"
                  [] OTHER                         -> "done",
      holder |-> jobs[m][a].owner]]]

Abstract == INSTANCE WorkQueue WITH
  Keys <- Movies, taken <- claims, attempts <- Attempts

ImplementsWorkQueue == Abstract!Spec

\* Unless claiming stays paused or is paused again and again, an active job
\* ends: the hard timeout bounds it even when its child hangs.
ActiveJobsEnd ==
  <>[]~paused => \A m \in Movies :
    (jobs[m] # <<>> /\ Active(Latest(m))) ~> (jobs[m] # <<>> /\ ~Active(Latest(m)))
==============================================================================
