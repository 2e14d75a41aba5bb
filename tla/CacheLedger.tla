---------------------------- MODULE CacheLedger -----------------------------
(***************************************************************************)
(* What the cloud cache promises to its clients, without the workers, the  *)
(* claims and the 115 account: a play request gets a job, a job moves      *)
(* along the legal transitions of the domain, at most RunningCapacity jobs *)
(* run, at most QueuedCapacity wait, a source has at most one live job and *)
(* a request keeps the job it got.                                         *)
(***************************************************************************)
EXTENDS Integers, FiniteSets, CacheJob

CONSTANTS MaxJobs, Sources, Keys, RunningCapacity, QueuedCapacity

VARIABLES status, cap, source, req

vars == <<status, cap, source, req>>

Jobs  == 1..MaxJobs
NoJob == 0

Init ==
    /\ status = [j \in Jobs |-> Absent]
    /\ cap = [j \in Jobs |-> "released"]
    /\ source = [j \in Jobs |-> Absent]
    /\ req = [k \in Keys |-> NoJob]

CountIn(class) == Cardinality({j \in Jobs : cap[j] = class})
LiveJobsOf(s) == {j \in Jobs : status[j] \in Active /\ source[j] = s}

\* A new job runs at once when a slot is free, waits when the queue has room.
Admit(k, s) ==
    /\ req[k] = NoJob
    /\ LiveJobsOf(s) = {}
    /\ \E j \in Jobs :
        /\ status[j] = Absent
        /\ source' = [source EXCEPT ![j] = s]
        /\ req' = [req EXCEPT ![k] = j]
        /\ \/ /\ CountIn("running") < RunningCapacity
              /\ status' = [status EXCEPT ![j] = "submitting"]
              /\ cap' = [cap EXCEPT ![j] = "running"]
           \/ /\ CountIn("running") >= RunningCapacity
              /\ CountIn("queued") < QueuedCapacity
              /\ status' = [status EXCEPT ![j] = "queued"]
              /\ cap' = [cap EXCEPT ![j] = "queued"]

Join(k, s) ==
    /\ req[k] = NoJob
    /\ \E j \in LiveJobsOf(s) : req' = [req EXCEPT ![k] = j]
    /\ UNCHANGED <<status, cap, source>>

\* The oldest queued job takes a free slot.
Start(j) ==
    /\ status[j] = "queued"
    /\ \A i \in Jobs : status[i] = "queued" => j <= i
    /\ CountIn("running") < RunningCapacity
    /\ status' = [status EXCEPT ![j] = "submitting"]
    /\ cap' = [cap EXCEPT ![j] = "running"]
    /\ UNCHANGED <<source, req>>

\* Any other legal transition.  A queued job only starts or is withdrawn:
\* nothing of it can exist at 115.
Advance(j, target) ==
    /\ status[j] # "queued"
    /\ target \in LegalTargets(status[j])
    /\ status' = [status EXCEPT ![j] = target]
    /\ cap' = [cap EXCEPT ![j] = NextCapacity(@, target)]
    /\ UNCHANGED <<source, req>>

\* A cancellation that goes on to cleaning, or to cleaned, in the same step.
Withdraw(j, target) ==
    /\ status[j] \in Cancellable \cup {"cancelling"}
    /\ target \in {"cleaning", "cleaned"}
    /\ status' = [status EXCEPT ![j] = target]
    /\ cap' = [cap EXCEPT ![j] = CapacityOf(target)]
    /\ UNCHANGED <<source, req>>

Next ==
    \/ \E k \in Keys, s \in Sources : Admit(k, s) \/ Join(k, s)
    \/ \E j \in Jobs :
         \/ Start(j)
         \/ \E t \in Statuses : Advance(j, t) \/ Withdraw(j, t)

Spec == Init /\ [][Next]_vars

-----------------------------------------------------------------------------

TypeOK ==
    /\ status \in [Jobs -> Statuses \cup {Absent}]
    /\ cap \in [Jobs -> Capacities]
    /\ source \in [Jobs -> Sources \cup {Absent}]
    /\ req \in [Keys -> Jobs \cup {NoJob}]

\* The capacity limits of capacity.py: at most RunningCapacity jobs may have a
\* directory being filled or a download running at 115, counting those whose
\* cancellation has not gone through yet, and at most QueuedCapacity wait.
CapacityRespected ==
    LET In(S) == Cardinality({j \in Jobs : status[j] \in S}) IN
    /\ In(RunningStatuses \cup {"cancelling"}) <= RunningCapacity
    /\ In({"queued"}) <= QueuedCapacity

\* A source has at most one live job, so a repeated click joins it instead of
\* downloading twice (the partial unique index of models.py).
OneLiveJobPerSource ==
    \A i, j \in Jobs :
        /\ status[i] \in Active /\ status[j] \in Active
        /\ source[i] = source[j]
        => i = j

\* Nothing of a job that reached a terminal status moves again, and its play
\* requests keep pointing at it.
TerminalIsFinal ==
    [][\A j \in Jobs : status[j] \in Terminal =>
         /\ status'[j] = status[j]
         /\ \A k \in Keys : req[k] = j => req'[k] = j]_vars
=============================================================================
