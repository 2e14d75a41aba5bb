------------------------ MODULE CachePipelineProofs -------------------------
(***************************************************************************)
(* Proofs about CachePipeline, for any number of jobs, workers, sources    *)
(* and keys, any capacities and any set of faults: its types, that a job   *)
(* is submitted at most once, that the rows of the cloud cache stay well   *)
(* formed, that the pipeline implements the ledger, that a claim is worth  *)
(* having, and that a job that is cleaned left nothing.                    *)
(***************************************************************************)
EXTENDS CachePipeline, FiniteSetTheorems, TLAPS

-----------------------------------------------------------------------------
(* Types *)

\* A worker between two steps is at a job that exists.
AtWork ==
    /\ \A j \in Jobs : status[j] # Absent => source[j] \in Sources
    /\ \A w \in Workers : step[w] # "idle" =>
         at[w] \in Jobs /\ source[at[w]] \in Sources

TypeInv == TypeOK /\ AtWork

\* Where a dispatch, a claim or a call may lead is a step.
LEMMA StepsNamed ==
    /\ Problem \subseteq Steps /\ CleanupProblem \subseteq Steps
    /\ \A j \in Jobs : FirstSteps(j, SubmitStep(j)) \subseteq Steps \ {"idle"}
    /\ \A j \in Jobs : FirstSteps(j, DispatchStep(j)) \subseteq Steps \ {"idle"}
    /\ \A j \in Jobs : AfterDirectory(j) \in Steps
    /\ FencedWrites \subseteq Steps
  BY DEF Problem, CleanupProblem, FirstSteps, SubmitStep, DispatchStep,
         CancelStep, AfterDirectory, Steps, Calls, FencedWrites, QueueWrites,
         CleanupWrites

LEMMA MovesTyped ==
    ASSUME NEW s \in Statuses \cup {Absent}, NEW t \in LegalTargets(s)
    PROVE  t \in Statuses /\ s # Absent
  BY DEF LegalTargets, Statuses, Active, Terminal, RunningStatuses,
         ReadyStatuses, Absent

LEMMA ClassesTyped ==
    ASSUME NEW t \in Statuses, NEW c \in Capacities
    PROVE  NextCapacity(c, t) \in Capacities /\ CapacityOf(t) \in Capacities
  BY DEF NextCapacity, CapacityOf, Capacities

LEMMA InitTypeInv == ASSUME Init PROVE TypeInv
  BY RowsAssumption
     DEF Init, TypeInv, TypeOK, AtWork, Capacities, Leases, Tasks, Stages,
         Steps, Absent, NoJob

LEMMA ApiKeepsTypeInv ==
    ASSUME TypeInv, ApiNext
    PROVE  TypeInv'
  <1> USE DEF TypeInv, TypeOK, AtWork, ledger, progress, claims, remote, control
  <1>1. ASSUME NEW k \in Keys, NEW s \in Sources, JoinJob(k, s)
        PROVE  TypeInv'
    BY <1>1 DEF JoinJob, ActiveJobsOf
  <1>2. ASSUME NEW k \in Keys, NEW s \in Sources, CreateJob(k, s)
        PROVE  TypeInv'
    BY <1>2 DEF CreateJob, NextJob, Oldest, Statuses, Active, RunningStatuses,
                Capacities
  <1>3. ASSUME NEW j \in Jobs, CancelJob(j)
        PROVE  TypeInv'
    <2>1. CancelTarget(j) \in Statuses /\ status[j] # Absent
      BY <1>3 DEF CancelJob, CancelTarget, Statuses, Active, Terminal, ReadyStatuses,
                  Cancellable, Absent
    <2>2. NextCapacity(cap[j], CancelTarget(j)) \in Capacities
      BY <2>1, ClassesTyped
    <2> QED BY <1>3, <2>1, <2>2 DEF CancelJob, KeepClaim, ClearClaim, Touch, Leases
  <1>4. ASSUME NEW j \in Jobs, RequestCleanup(j)
        PROVE  TypeInv'
    BY <1>4, MovesTyped, ClassesTyped
       DEF RequestCleanup, Move, ClearClaim, Touch, Leases
  <1>5. ASSUME NEW j \in Jobs, SelectMedia(j)
        PROVE  TypeInv'
    BY <1>5, MovesTyped, ClassesTyped DEF SelectMedia, Move, KeepClaim, Touch
  <1>6. ASSUME NEW j \in Jobs, AcquireLease(j) \/ EndLease(j)
        PROVE  TypeInv'
    BY <1>6 DEF AcquireLease, EndLease
  <1> QED BY <1>1, <1>2, <1>3, <1>4, <1>5, <1>6 DEF ApiNext

\* The writes that move a job name a legal target of its status.
LEMMA WritesTyped ==
    /\ \A x \in DOMAIN WriteTarget : WriteTarget[x] \in Statuses
    /\ \A x \in DOMAIN CleanupTarget : CleanupTarget[x] \in Statuses
  BY DEF WriteTarget, CleanupTarget, Statuses, Active, Terminal,
         RunningStatuses, ReadyStatuses

\* A write that gives the claim up changes the job's row and ends the turn.
LEMMA ReleaseKeepsTypeInv ==
    ASSUME TypeInv, NEW w \in Workers, NEW j \in Jobs, NEW t \in Statuses,
           NEW c \in Capacities, NEW h \in BOOLEAN,
           status[j] # Absent,
           status' = [status EXCEPT ![j] = t], cap' = [cap EXCEPT ![j] = c],
           hash' = [hash EXCEPT ![j] = h],
           Touch(j, FALSE), ClearClaim(j), Finish(w),
           UNCHANGED <<source, req, cid, started, attempts, leased, rejected,
                       remote>>
    PROVE  TypeInv'
  BY DEF TypeInv, TypeOK, AtWork, remote, Touch, ClearClaim, Finish, NextStage,
         Leases, Stages, Steps

LEMMA QueueKeepsTypeInv ==
    ASSUME TypeInv, NEW w \in Workers, QueueNext(w)
    PROVE  TypeInv'
  <1> USE DEF TypeInv, TypeOK, AtWork, ledger, progress, claims, remote, control
  <1>1. CASE ClaimNext(w)
    <2>1. PICK j \in FirstClaimable :
            /\ Claim(w, j)
            /\ \E x \in FirstSteps(j, DispatchStep(j)) :
                  step' = [step EXCEPT ![w] = x]
      BY <1>1 DEF ClaimNext
    <2>2. j \in Jobs /\ status[j] # Absent
      BY DEF FirstClaimable, Claimable, Oldest, Absent
    <2>3. UNCHANGED <<ledger, progress, attempts, leased, rejected, remote>>
      BY <1>1 DEF ClaimNext
    <2> QED BY <2>1, <2>2, <2>3, StepsNamed DEF Claim, Leases
  <1>2. CASE StartQueued(w)
    <2>1. PICK j \in Oldest(Queued) :
            /\ Move(j, "submitting")
            /\ Claim(w, j)
            /\ \E x \in FirstSteps(j, SubmitStep(j)) :
                  step' = [step EXCEPT ![w] = x]
      BY <1>2 DEF StartQueued
    <2>2. j \in Jobs /\ status[j] # Absent
      BY DEF Oldest, Queued, Absent
    <2>3. UNCHANGED <<progress, attempts, leased, rejected, remote>>
      BY <1>2 DEF StartQueued
    <2>4. "submitting" \in Statuses
      BY DEF Statuses, Active, RunningStatuses
    <2> QED BY <2>1, <2>2, <2>3, <2>4, StepsNamed, ClassesTyped
            DEF Claim, Move, Leases
  <1>3. CASE ClaimResolving(w)
    <2>1. PICK j \in Oldest(Resolvable) :
            /\ Claim(w, j)
            /\ step' = [step EXCEPT ![w] = IF source[j] \in rejected
                          THEN "fail" ELSE "resolution_movie_number"]
      BY <1>3 DEF ClaimResolving
    <2>2. j \in Jobs /\ status[j] # Absent
      BY DEF Oldest, Resolvable, Absent
    <2>3. UNCHANGED <<ledger, progress, attempts, leased, rejected, remote>>
      BY <1>3 DEF ClaimResolving
    <2>4. {"fail", "resolution_movie_number"} \subseteq Steps
      BY DEF Steps, FencedWrites, QueueWrites
    <2> QED BY <2>1, <2>2, <2>3, <2>4 DEF Claim, Leases
  <1>4. CASE SaveTaskDirectory(w)
    BY <1>4, StepsNamed DEF SaveTaskDirectory, Touch, KeepClaim, Continue,
                            Accepted, Holds
  <1>5. CASE MarkSubmitStarted(w)
    BY <1>5 DEF MarkSubmitStarted, Touch, KeepClaim, Continue, Accepted, Holds,
                Steps, Calls
  <1>6. CASE SaveCancelTarget(w)
    BY <1>6 DEF SaveCancelTarget, Touch, KeepClaim, Continue, Accepted, Holds,
                Steps, Calls
  <1>7. CASE ResolutionMovieNumber(w)
    BY <1>7 DEF ResolutionMovieNumber, Touch, KeepClaim, Continue, Accepted,
                Holds, Steps, Calls
  <1>8. CASE SaveSubmission(w) \/ MarkSubmitUncertain(w)
    <2>1. PICK t \in {"offlining", "submit_uncertain"}, b \in BOOLEAN :
            /\ Move(at[w], t)
            /\ hash' = [hash EXCEPT ![at[w]] = b]
      BY <1>8 DEF SaveSubmission, MarkSubmitUncertain
    <2>2. at[w] \in Jobs /\ status[at[w]] # Absent
      BY <1>8, <2>1, MovesTyped
         DEF SaveSubmission, MarkSubmitUncertain, Accepted, Holds, Move
    <2>3. /\ status' = [status EXCEPT ![at[w]] = t]
          /\ t \in Statuses
          /\ cap' = [cap EXCEPT ![at[w]] = NextCapacity(cap[at[w]], t)]
          /\ NextCapacity(cap[at[w]], t) \in Capacities
          /\ source' = source /\ req' = req
      BY <2>1, <2>2, ClassesTyped
         DEF Move, Statuses, Active, RunningStatuses
    <2>4. /\ Touch(at[w], FALSE) /\ ClearClaim(at[w]) /\ Finish(w)
          /\ UNCHANGED <<cid, started, attempts, leased, rejected, remote>>
      BY <1>8 DEF SaveSubmission, MarkSubmitUncertain
    <2> HIDE DEF TypeInv, TypeOK, AtWork
    <2> QED BY <2>1, <2>2, <2>3, <2>4, ReleaseKeepsTypeInv
  <1>9. CASE MoveAndRelease(w)
    BY <1>9, MovesTyped, ClassesTyped
       DEF MoveAndRelease, Move, Touch, ClearClaim, Finish, NextStage, Accepted,
           Holds, Leases, Stages, Steps
  <1>10. CASE CompleteCancel(w)
    <2>1. /\ "cleaning" \in Statuses /\ "cleaned" \in Statuses
          /\ CapacityOf("cleaning") \in Capacities
          /\ CapacityOf("cleaned") \in Capacities
      BY DEF Statuses, Active, ReadyStatuses, Terminal, CapacityOf, Capacities
    <2>2. at[w] \in Jobs /\ status[at[w]] # Absent
      <3>1. at[w] \in Jobs /\ "cleaning" \in LegalTargets(status[at[w]])
        BY <1>10 DEF CompleteCancel, Accepted, Holds, TransitionAllowed,
                     WriteTarget
      <3> QED BY <3>1, MovesTyped
    <2> QED BY <1>10, <2>1, <2>2
        DEF CompleteCancel, Touch, ClearClaim, Finish, NextStage, Leases,
            Stages, Steps
  <1>11. CASE KeepWaiting(w)
    BY <1>11 DEF KeepWaiting, Touch, KeepClaim, Finish, NextStage, Accepted,
                 Holds, Stages, Steps
  <1>12. CASE WriteRefused(w)
    BY <1>12 DEF WriteRefused, Finish, NextStage, Stages, Steps
  <1> QED BY <1>1, <1>2, <1>3, <1>4, <1>5, <1>6, <1>7, <1>8, <1>9, <1>10,
             <1>11, <1>12 DEF QueueNext

\* A call goes on to another step and changes only what 115 holds, or the
\* rejected sources.
LEMMA CallKeepsTypeInv ==
    ASSUME TypeInv, NEW w \in Workers, step[w] # "idle",
           NEW x \in Steps, Continue(w, x), RowsUnchanged,
           dir' \in [Jobs -> BOOLEAN], task' \in [Jobs -> Tasks],
           submits' \in [Jobs -> Nat], rejected' \in SUBSET Sources
    PROVE  TypeInv'
  BY DEF TypeInv, TypeOK, AtWork, Continue, RowsUnchanged, ledger, progress,
         claims

LEMMA CallsKeepTypeInv ==
    ASSUME TypeInv, NEW w \in Workers, OfflineNext(w) \/ ResolverNext(w)
    PROVE  TypeInv'
  <1> DEFINE WorldTyped == /\ dir' \in [Jobs -> BOOLEAN]
                           /\ task' \in [Jobs -> Tasks]
                           /\ submits' \in [Jobs -> Nat]
                           /\ rejected' \in SUBSET Sources
             Goes == \E x \in Steps : Continue(w, x)
  <1> USE DEF TypeInv, TypeOK, remote, Problem, Steps, FencedWrites,
              QueueWrites
  <1>1. SUFFICES step[w] # "idle" /\ Goes /\ RowsUnchanged /\ WorldTyped
    BY CallKeepsTypeInv
  <1>2. CASE Mkdir(w)
    <2>1. WorldTyped
      BY <1>2 DEF Mkdir, RowsUnchanged
    <2> QED BY <1>2, <2>1 DEF Mkdir, Calling
  <1>3. CASE LoadSubmissionPayload(w)
    BY <1>3 DEF LoadSubmissionPayload, Calling
  <1>4. CASE SubmitOffline(w)
    <2>1. submits' \in [Jobs -> Nat] /\ dir' = dir /\ rejected' = rejected
      <3>1. at[w] \in Jobs
        BY <1>4 DEF SubmitOffline, Calling, AtWork
      <3>2. submits' = [submits EXCEPT ![at[w]] = submits[at[w]] + 1]
        BY <1>4 DEF SubmitOffline
      <3>3. submits[at[w]] + 1 \in Nat
        BY <3>1
      <3>4. dir' = dir /\ rejected' = rejected
        BY <1>4 DEF SubmitOffline
      <3> QED BY <3>2, <3>3, <3>4
    <2>2. task' = task \/ task' = [task EXCEPT ![at[w]] = "running"]
      BY <1>4 DEF SubmitOffline
    <2>3. WorldTyped
      BY <2>1, <2>2 DEF Tasks
    <2>4. step[w] # "idle" /\ RowsUnchanged
      BY <1>4 DEF SubmitOffline, Calling
    <2>5. Goes
      BY <1>4 DEF SubmitOffline, Calls
    <2> QED BY <2>3, <2>4, <2>5
  <1>5. CASE FindByTaskDirectory(w)
    BY <1>5 DEF FindByTaskDirectory, Calling
  <1>6. CASE FindCancelTarget(w)
    BY <1>6 DEF FindCancelTarget, Calling
  <1>7. CASE CancelOffline(w)
    <2>1. WorldTyped
      BY <1>7 DEF CancelOffline, Tasks
    <2> QED BY <1>7, <2>1 DEF CancelOffline, Calling
  <1>8. CASE Poll(w)
    <2>1. Recording[task[at[w]]] \in Steps
      <3>1. at[w] \in Jobs
        BY <1>8 DEF Poll, Calling, AtWork
      <3> QED BY <3>1 DEF Recording, Tasks
    <2> QED BY <1>8, <2>1 DEF Poll, Calling
  <1>9. CASE Inspect(w)
    BY <1>9 DEF Inspect, RowsUnchanged, Calls
  <1>10. CASE Reject(w)
    <2>1. source[at[w]] \in Sources
      BY <1>10 DEF Reject, AtWork
    <2> QED BY <1>10, <2>1 DEF Reject, RowsUnchanged
  <1> QED BY <1>2, <1>3, <1>4, <1>5, <1>6, <1>7, <1>8, <1>9, <1>10
          DEF OfflineNext, ResolverNext

LEMMA CleanupKeepsTypeInv ==
    ASSUME TypeInv, NEW w \in Workers, CleanupNext(w)
    PROVE  TypeInv'
  <1> USE DEF TypeInv, TypeOK, AtWork, ledger, progress, claims, remote, control
  <1>1. ASSUME NEW j \in Jobs, status[j] # Absent, Attempt(w, j),
               status' = status \/ status' = [status EXCEPT ![j] = "cleaning"],
               cap' = cap \/ cap' = [cap EXCEPT ![j] = "ready"],
               UNCHANGED <<source, req, progress, leased, rejected, remote>>
        PROVE  TypeInv'
    <2>1. /\ holder' \in [Jobs -> Workers \cup {Nobody}]
          /\ lease' \in [Jobs -> Leases]
          /\ pollDue' \in [Jobs -> BOOLEAN]
          /\ at' = [at EXCEPT ![w] = j] /\ stage' = stage /\ retrying' = retrying
      BY <1>1 DEF Attempt, Claim, Leases
    <2>2. OneMore(attempts[j]) \in 0..MaxAttempts
      BY RowsAssumption DEF OneMore
    <2>3. attempts' \in [Jobs -> 0..MaxAttempts]
      BY <1>1, <2>2 DEF Attempt
    <2>4. PICK x \in {"verify_ownership", "cleanup_fail", "cleanup_detach"} :
            step' = [step EXCEPT ![w] = x]
      BY <1>1 DEF Attempt, Mismatch, CleanupProblem
    <2>5. x \in Steps /\ x # "idle"
      BY <2>4 DEF Steps, Calls, FencedWrites, CleanupWrites
    <2>6. status' \in [Jobs -> Statuses \cup {Absent}]
      BY <1>1 DEF Statuses, Active, ReadyStatuses
    <2>7. cap' \in [Jobs -> Capacities]
      BY <1>1 DEF Capacities
    <2> QED BY <1>1, <2>1, <2>3, <2>4, <2>5, <2>6, <2>7
  <1>2. CASE ClaimCleaning(w)
    <2>1. PICK j \in Cleanable : Attempt(w, j)
      BY <1>2 DEF ClaimCleaning
    <2> QED BY <1>1, <1>2, <2>1 DEF ClaimCleaning, Cleanable, Absent
  <1>3. CASE Evict(w)
    <2>1. PICK j \in Evictable : Move(j, "cleaning") /\ Attempt(w, j)
      BY <1>3 DEF Evict
    <2>2. NextCapacity(cap[j], "cleaning") = "ready"
      BY DEF NextCapacity, CapacityOf, ReadyStatuses, RunningStatuses
    <2> QED BY <1>1, <1>3, <2>1, <2>2 DEF Evict, Evictable, Move, Absent
  <1>4. CASE VerifyOwnership(w)
    BY <1>4 DEF VerifyOwnership, Continue, Mismatch, Busy, AfterBusy, CleanupProblem, Steps, Calls,
                FencedWrites, CleanupWrites
  <1>5. CASE Delete(w)
    <2>1. step[w] # "idle" /\ RowsUnchanged
          /\ UNCHANGED <<rejected, task, submits>>
      BY <1>5 DEF Delete, RowsUnchanged
    <2>2. /\ dir' \in [Jobs -> BOOLEAN] /\ task' \in [Jobs -> Tasks]
          /\ submits' \in [Jobs -> Nat] /\ rejected' \in SUBSET Sources
      BY <1>5, <2>1 DEF Delete
    <2>3. PICK x \in {"succeed", "cleanup_fail", "fail_busy", "release"} :
            Continue(w, x)
      BY <1>5 DEF Delete, Mismatch, Busy, AfterBusy, CleanupProblem
    <2>4. x \in Steps
      BY DEF Steps, FencedWrites, CleanupWrites
    <2> HIDE DEF TypeInv, TypeOK, AtWork
    <2> QED BY <2>1, <2>2, <2>3, <2>4, CallKeepsTypeInv
  <1>6. CASE EndAttempt(w)
    <2>1. at[w] \in Jobs /\ step[w] \in DOMAIN CleanupTarget
          /\ Move(at[w], CleanupTarget[step[w]])
      BY <1>6 DEF EndAttempt, CleanupAccepted, Holds
    <2>2. PICK t \in Statuses : t = CleanupTarget[step[w]]
      BY <2>1, WritesTyped
    <2>3. NextCapacity(cap[at[w]], t) \in Capacities
      BY <2>1, ClassesTyped
    <2>4. status[at[w]] # Absent
      BY <2>1, <2>2, MovesTyped DEF Move
    <2>5. /\ status' = [status EXCEPT ![at[w]] = t]
          /\ cap' = [cap EXCEPT ![at[w]] = NextCapacity(cap[at[w]], t)]
          /\ source' = source /\ req' = req
      BY <2>1, <2>2 DEF Move
    <2>6. /\ Touch(at[w], FALSE) /\ ClearClaim(at[w]) /\ Finish(w)
          /\ UNCHANGED <<cid, started, attempts, leased, rejected, remote>>
          /\ hash' = [hash EXCEPT ![at[w]] = hash[at[w]]]
          /\ hash[at[w]] \in BOOLEAN
      BY <1>6, <2>1 DEF EndAttempt
    <2> HIDE DEF TypeInv, TypeOK, AtWork
    <2> QED BY <2>1, <2>3, <2>4, <2>5, <2>6, ReleaseKeepsTypeInv
  <1>7. CASE Release(w)
    BY <1>7 DEF Release, CleanupAccepted, Holds, Touch, ClearClaim, Finish,
                NextStage, Leases, Stages, Steps
  <1>8. CASE CleanupRefused(w)
    BY <1>8 DEF CleanupRefused, Finish, NextStage, Stages, Steps
  <1> QED BY <1>2, <1>3, <1>4, <1>5, <1>6, <1>7, <1>8 DEF CleanupNext

LEMMA NextKeepsTypeInv ==
    ASSUME TypeInv, [Next]_vars
    PROVE  TypeInv'
  <1> USE DEF TypeInv, TypeOK, AtWork, ledger, progress, claims, remote, control
  <1>1. CASE ApiNext
    BY <1>1, ApiKeepsTypeInv
  <1>2. ASSUME NEW w \in Workers, WorkerNext(w)
        PROVE  TypeInv'
    <2>1. CASE PassTurn(w)
      BY <2>1 DEF PassTurn, Finish, NextStage, Stages, Steps
    <2> QED BY <1>2, <2>1, QueueKeepsTypeInv, CallsKeepTypeInv,
               CleanupKeepsTypeInv DEF WorkerNext
  <1>3. ASSUME NEW w \in Workers, Crash(w)
        PROVE  TypeInv'
    BY <1>3 DEF Crash, Stages, Steps
  <1>4. ASSUME NEW j \in Jobs,
               ExpireClaim(j) \/ PollFallsDue(j) \/ TaskEnds(j) \/ Vanish(j)
        PROVE  TypeInv'
    <2>1. CASE ExpireClaim(j) \/ PollFallsDue(j)
      BY <2>1 DEF ExpireClaim, PollFallsDue, Leases
    <2>2. CASE TaskEnds(j)
      BY <2>2 DEF TaskEnds, Tasks
    <2>3. CASE Vanish(j)
      BY <2>3 DEF Vanish, Tasks
    <2> QED BY <1>4, <2>1, <2>2, <2>3
  <1>5. CASE UNCHANGED vars
    BY <1>5 DEF vars
  <1> QED BY <1>1, <1>2, <1>3, <1>4, <1>5 DEF Next, EnvironmentNext

\* Every variable keeps its type, whatever the number of jobs and workers.
THEOREM TypeCorrect == Spec => []TypeOK
  <1>1. Init => TypeInv
    BY InitTypeInv
  <1>2. TypeInv /\ [Next]_vars => TypeInv'
    BY NextKeepsTypeInv
  <1>3. TypeInv => TypeOK
    BY DEF TypeInv
  <1> QED BY <1>1, <1>2, <1>3, PTL DEF Spec

-----------------------------------------------------------------------------
(* Submissions *)

Submitting(w) == step[w] = "submit_offline"

\* A worker about to submit a job is the only one, and the job was marked as
\* started and has not been submitted.
SubmitInv ==
    /\ \A j \in Jobs : submits[j] <= 1 /\ (submits[j] > 0 => started[j])
    /\ \A w \in Workers : Submitting(w) =>
         /\ started[at[w]] /\ submits[at[w]] = 0
         /\ \A v \in Workers : Submitting(v) /\ at[v] = at[w] => v = w

\* A step after which no other worker is about to submit keeps it.
LEMMA NoNewSubmission ==
    ASSUME SubmitInv, submits' = submits, started' = started,
           \A v \in Workers : Submitting(v)' => Submitting(v) /\ at'[v] = at[v]
    PROVE  SubmitInv'
  BY DEF SubmitInv

\* A submission is never what a worker does first.
LEMMA DispatchIsSafe ==
    /\ \A j \in Jobs : "submit_offline" \notin FirstSteps(j, SubmitStep(j))
    /\ \A j \in Jobs : "submit_offline" \notin FirstSteps(j, DispatchStep(j))
    /\ "submit_offline" \notin Problem \cup CleanupProblem
  BY DEF FirstSteps, SubmitStep, DispatchStep, CancelStep, Problem,
         CleanupProblem

\* Marking the submission as started, and submitting.
LEMMA SubmissionKeepsSubmitInv ==
    ASSUME TypeInv, SubmitInv, NEW w \in Workers,
           MarkSubmitStarted(w) \/ SubmitOffline(w)
    PROVE  SubmitInv'
  <1>1. at[w] \in Jobs
    BY DEF TypeInv, AtWork, MarkSubmitStarted, SubmitOffline, Calling, Accepted,
           Holds
  <1>2. CASE MarkSubmitStarted(w)
    <2>1. /\ started' = [started EXCEPT ![at[w]] = TRUE]
          /\ step' = [step EXCEPT ![w] = "submit_offline"]
          /\ at' = at /\ submits' = submits
          /\ ~started[at[w]]
      BY <1>2 DEF MarkSubmitStarted, Continue, Accepted, RowAllows, remote
    <2> QED BY <1>1, <2>1 DEF TypeInv, TypeOK, SubmitInv, Submitting
  <1>3. CASE SubmitOffline(w)
    <2>1. PICK x \in Steps : x # "submit_offline" /\ Continue(w, x)
      BY <1>3 DEF SubmitOffline, Problem, Steps, Calls, FencedWrites,
                  QueueWrites
    <2>2. /\ submits' = [submits EXCEPT ![at[w]] = submits[at[w]] + 1]
          /\ started' = started
          /\ Submitting(w)
      BY <1>3 DEF SubmitOffline, Calling, RowsUnchanged, progress, Submitting
    <2>3. /\ step' = [step EXCEPT ![w] = x] /\ at' = at
      BY <2>1 DEF Continue
    <2>4. submits[at[w]] = 0 /\ started[at[w]]
      BY <2>2 DEF SubmitInv
    <2> QED BY <1>1, <2>1, <2>2, <2>3, <2>4
            DEF TypeInv, TypeOK, SubmitInv, Submitting
  <1> QED BY <1>2, <1>3

LEMMA NextKeepsSubmitInv ==
    ASSUME TypeInv, SubmitInv, [Next]_vars
    PROVE  SubmitInv'
  <1> USE DEF progress, remote, control, Submitting
  <1>1. CASE ApiNext
    <2>1. UNCHANGED <<submits, started, step, at>>
      BY <1>1 DEF ApiNext, JoinJob, CreateJob, CancelJob, RequestCleanup,
                  SelectMedia, AcquireLease, EndLease
    <2> QED BY <2>1, NoNewSubmission
  <1>2. ASSUME NEW w \in Workers, QueueNext(w), ~MarkSubmitStarted(w)
        PROVE  SubmitInv'
    <2>1. submits' = submits /\ started' = started
      BY <1>2 DEF QueueNext, ClaimNext, StartQueued, ClaimResolving,
                  SaveTaskDirectory, SaveCancelTarget, ResolutionMovieNumber,
                  SaveSubmission, MarkSubmitUncertain, MoveAndRelease,
                  CompleteCancel, KeepWaiting, WriteRefused
    <2>2. PICK x :
            x # "submit_offline" /\ step' = [step EXCEPT ![w] = x]
      <3>1. CASE ClaimNext(w) \/ StartQueued(w)
        BY <3>1, DispatchIsSafe, StepsNamed
           DEF ClaimNext, StartQueued, FirstClaimable, Claimable, Oldest, Queued,
               Steps, Calls, FencedWrites, QueueWrites, CleanupWrites
      <3>2. CASE ClaimResolving(w) \/ SaveTaskDirectory(w)
        BY <3>2 DEF ClaimResolving, SaveTaskDirectory, AfterDirectory, Continue
      <3>3. CASE SaveCancelTarget(w) \/ ResolutionMovieNumber(w)
        BY <3>3 DEF SaveCancelTarget, ResolutionMovieNumber, Continue
      <3>4. CASE \/ SaveSubmission(w) \/ MarkSubmitUncertain(w)
                 \/ MoveAndRelease(w) \/ CompleteCancel(w) \/ KeepWaiting(w)
                 \/ WriteRefused(w)
        BY <3>4 DEF SaveSubmission, MarkSubmitUncertain, MoveAndRelease,
                    CompleteCancel, KeepWaiting, WriteRefused, Finish
      <3> QED BY <1>2, <3>1, <3>2, <3>3, <3>4 DEF QueueNext
    <2>3. \A v \in Workers : v # w => at'[v] = at[v]
      BY <1>2 DEF QueueNext, ClaimNext, StartQueued, ClaimResolving, Claim,
                  SaveTaskDirectory, SaveCancelTarget, ResolutionMovieNumber,
                  SaveSubmission, MarkSubmitUncertain, MoveAndRelease,
                  CompleteCancel, KeepWaiting, WriteRefused, Continue, Finish,
                  TypeInv, TypeOK
    <2> QED BY <2>1, <2>2, <2>3, NoNewSubmission DEF TypeInv, TypeOK
  <1>3. ASSUME NEW w \in Workers, \/ OfflineNext(w) /\ ~SubmitOffline(w)
                                  \/ ResolverNext(w) \/ CleanupNext(w)
                                  \/ PassTurn(w) \/ Crash(w)
        PROVE  SubmitInv'
    <2>1. submits' = submits /\ started' = started
      BY <1>3 DEF OfflineNext, Mkdir, LoadSubmissionPayload,
                  FindByTaskDirectory, FindCancelTarget, CancelOffline, Poll,
                  RowsUnchanged, ResolverNext, Inspect, Reject, CleanupNext,
                  ClaimCleaning, Evict, VerifyOwnership, Delete, EndAttempt,
                  Release, CleanupRefused, PassTurn, Crash
    <2>2. PICK x : x # "submit_offline" /\ step' = [step EXCEPT ![w] = x]
      <3>1. CASE OfflineNext(w) /\ ~SubmitOffline(w)
        <4>1. CASE Mkdir(w) \/ LoadSubmissionPayload(w)
          BY <4>1 DEF Mkdir, LoadSubmissionPayload, Continue, Problem
        <4>2. CASE FindByTaskDirectory(w) \/ FindCancelTarget(w)
          BY <4>2 DEF FindByTaskDirectory, FindCancelTarget, Continue, Problem
        <4>3. CASE CancelOffline(w)
          BY <4>3 DEF CancelOffline, Continue, Problem
        <4>4. CASE Poll(w)
          <5>1. PICK x \in {Recording[task[at[w]]]} \cup Problem :
                  step' = [step EXCEPT ![w] = x]
            BY <4>4 DEF Poll, Continue
          <5>2. task[at[w]] \in Tasks
            BY <4>4 DEF Poll, Calling, TypeInv, TypeOK, AtWork
          <5>3. Recording[task[at[w]]] # "submit_offline"
            BY <5>2 DEF Recording, Tasks
          <5>4. x # "submit_offline"
            BY <5>1, <5>3 DEF Problem
          <5> QED BY <5>1, <5>4
        <4> QED BY <3>1, <4>1, <4>2, <4>3, <4>4 DEF OfflineNext
      <3>2. CASE ResolverNext(w)
        BY <3>2 DEF ResolverNext, Inspect, Reject, Continue, Problem
      <3>3. CASE CleanupNext(w)
        BY <3>3 DEF CleanupNext, ClaimCleaning, Evict, Attempt, Mismatch, CleanupProblem,
                    VerifyOwnership, Delete, Mismatch, Busy, AfterBusy, EndAttempt, Release,
                    CleanupRefused, Continue, Finish
      <3>4. CASE PassTurn(w) \/ Crash(w)
        BY <3>4 DEF PassTurn, Crash, Finish
      <3> QED BY <1>3, <3>1, <3>2, <3>3, <3>4
    <2>3. \A v \in Workers : v # w => at'[v] = at[v]
      BY <1>3 DEF OfflineNext, Mkdir, LoadSubmissionPayload,
                  FindByTaskDirectory, FindCancelTarget, CancelOffline, Poll,
                  ResolverNext, Inspect, Reject, CleanupNext, ClaimCleaning,
                  Evict, Attempt, Claim, VerifyOwnership, Delete, EndAttempt,
                  Release, CleanupRefused, PassTurn, Crash, Continue, Finish,
                  TypeInv, TypeOK
    <2> QED BY <2>1, <2>2, <2>3, NoNewSubmission DEF TypeInv, TypeOK
  <1>4. CASE EnvironmentNext
    <2>1. UNCHANGED <<submits, started, step, at>>
      BY <1>4 DEF EnvironmentNext, ExpireClaim, PollFallsDue, TaskEnds, Vanish
    <2> QED BY <2>1, NoNewSubmission
  <1>5. CASE UNCHANGED vars
    BY <1>5, NoNewSubmission DEF vars
  <1> QED BY <1>1, <1>2, <1>3, <1>4, <1>5, SubmissionKeepsSubmitInv
          DEF Next, WorkerNext

\* A job is submitted to 115 at most once, with any number of workers that
\* take it from each other, lost answers and crashes.
THEOREM SubmittedOnce == Spec => []AtMostOneSubmission
  <1>1. Init => TypeInv /\ SubmitInv
    BY InitTypeInv DEF Init, SubmitInv, Submitting
  <1>2. TypeInv /\ SubmitInv /\ [Next]_vars => (TypeInv /\ SubmitInv)'
    BY NextKeepsTypeInv, NextKeepsSubmitInv
  <1>3. SubmitInv => AtMostOneSubmission
    BY DEF SubmitInv, AtMostOneSubmission
  <1> QED BY <1>1, <1>2, <1>3, PTL DEF Spec

-----------------------------------------------------------------------------
(* The rows of the jobs. *)

\* What RowsWellFormed says of the rows themselves, and that nothing was done
\* for a job that no worker was given yet.
RowOK(j) ==
    /\ status[j] # Absent => WellFormed(status[j], cap[j])
    /\ hash[j] => started[j]
    /\ started[j] => cid[j]
    /\ status[j] \in {"offlining", "resolving", "awaiting_selection", "ready"}
         => hash[j]
    /\ status[j] = "submit_uncertain" => started[j] /\ ~hash[j]
    /\ status[j] \in {"cleaning", "cleanup_failed"} => cid[j]
    /\ holder[j] = Nobody <=> lease[j] = "none"
    /\ status[j] \in {"queued", Absent} =>
         lease[j] = "none" /\ ~cid[j] /\ ~started[j] /\ ~hash[j]

\* A worker looks for the task of a cancelled job only if it was started.
LooksForTask(w) == step[w] \in {"find_cancel_target", "save_cancel_target"}

RowInv ==
    /\ \A j \in Jobs : RowOK(j)
    /\ \A w \in Workers : LooksForTask(w) => started[at[w]]

\* The part of the invariant that a single job's step has to establish.
LEMMA OneRow ==
    ASSUME TypeInv, RowInv, NEW j \in Jobs, RowOK(j)',
           \A i \in Jobs \ {j} :
             /\ status'[i] = status[i] /\ cap'[i] = cap[i]
             /\ cid'[i] = cid[i] /\ started'[i] = started[i]
             /\ hash'[i] = hash[i]
             /\ holder'[i] = holder[i] /\ lease'[i] = lease[i],
           started[j] => started'[j],
           \A w \in Workers : LooksForTask(w)' =>
             (LooksForTask(w) /\ at'[w] = at[w]) \/ started'[at'[w]]
    PROVE  RowInv'
  <1>1. \A i \in Jobs : RowOK(i)'
    BY DEF RowInv, RowOK
  <1>2. \A w \in Workers : LooksForTask(w)' => started'[at'[w]]
    BY DEF RowInv, LooksForTask, TypeInv, AtWork
  <1> QED BY <1>1, <1>2 DEF RowInv

LEMMA InitRowInv == ASSUME Init PROVE RowInv
  BY DEF Init, RowInv, RowOK, LooksForTask, Absent

LEMMA ApiKeepsRowInv ==
    ASSUME TypeInv, RowInv, ApiNext
    PROVE  RowInv'
  <1> USE DEF ledger, progress, claims, remote, control, LooksForTask
  <1>1. ASSUME NEW k \in Keys, NEW s \in Sources, JoinJob(k, s)
        PROVE  RowInv'
    BY <1>1 DEF JoinJob, RowInv, RowOK
  <1>2. ASSUME NEW k \in Keys, NEW s \in Sources, CreateJob(k, s)
        PROVE  RowInv'
    <2>1. PICK j \in Jobs, t \in {"submitting", "queued"} :
            /\ status[j] = Absent
            /\ status' = [status EXCEPT ![j] = t]
            /\ cap' = [cap EXCEPT ![j] = CapacityOf(t)]
      <3>1. /\ CapacityOf("submitting") = "running"
            /\ CapacityOf("queued") = "queued"
        <4>1. CapacityOf("submitting") = "running"
          BY DEF CapacityOf, RunningStatuses, ReadyStatuses
        <4>2. CapacityOf("queued") = "queued"
          BY DEF CapacityOf, RunningStatuses, ReadyStatuses
        <4> QED BY <4>1, <4>2
      <3>2. CASE CountIn("running") < RunningCapacity
        <4>1. PICK j \in NextJob :
                /\ status' = [status EXCEPT ![j] = "submitting"]
                /\ cap' = [cap EXCEPT ![j] = "running"]
          BY <1>2, <3>2, Zenon DEF CreateJob
        <4> QED BY <3>1, <4>1 DEF NextJob, Oldest
      <3>3. CASE ~(CountIn("running") < RunningCapacity)
        <4>1. PICK j \in NextJob :
                /\ status' = [status EXCEPT ![j] = "queued"]
                /\ cap' = [cap EXCEPT ![j] = "queued"]
          BY <1>2, <3>3 DEF CreateJob
        <4> QED BY <3>1, <4>1 DEF NextJob, Oldest
      <3> QED BY <3>2, <3>3
    <2>2. UNCHANGED <<progress, claims, control>>
      BY <1>2 DEF CreateJob
    <2>3. RowOK(j)'
      BY <2>1, <2>2 DEF RowInv, RowOK, WellFormed, TypeInv, TypeOK
    <2> QED BY <2>1, <2>2, <2>3, OneRow DEF TypeInv, TypeOK
  <1>3. ASSUME NEW j \in Jobs, CancelJob(j)
        PROVE  RowInv'
    <2>1. /\ status' = [status EXCEPT ![j] = CancelTarget(j)]
          /\ cap' = [cap EXCEPT ![j] = NextCapacity(cap[j], CancelTarget(j))]
          /\ IF MkdirInFlight(j) THEN KeepClaim ELSE ClearClaim(j)
          /\ UNCHANGED <<progress, control>>
          /\ status[j] \in Cancellable
      BY <1>3 DEF CancelJob
    <2>2. RowOK(j) /\ cap[j] # "released"
      BY <2>1 DEF RowInv, RowOK, WellFormed, Cancellable, CapacityOf,
                  RunningStatuses, Absent
    <2>3. RowOK(j)'
      BY <2>1, <2>2 DEF RowOK, CancelTarget, WellFormed, NextCapacity, KeepClaim,
                        ClearClaim, TypeInv, TypeOK, Absent, MkdirInFlight
    <2> QED BY <2>1, <2>3, OneRow DEF KeepClaim, ClearClaim, TypeInv, TypeOK
  <1>4. ASSUME NEW j \in Jobs, RequestCleanup(j) \/ SelectMedia(j)
        PROVE  RowInv'
    <2>1. PICK t \in {"cleaning", "ready"} :
            /\ Move(j, t)
            /\ ClearClaim(j) \/ KeepClaim
            /\ UNCHANGED <<progress, control>>
            /\ status[j] \in {"awaiting_selection", "ready", "cleanup_failed"}
            /\ t = "ready" => status[j] = "awaiting_selection"
      BY <1>4 DEF RequestCleanup, SelectMedia
    <2>2. RowOK(j)'
      BY <2>1 DEF RowInv, RowOK, Move, ClearClaim, KeepClaim, WellFormed,
                  NextCapacity, TypeInv, TypeOK, Absent
    <2> QED BY <2>1, <2>2, OneRow DEF Move, KeepClaim, ClearClaim, TypeInv, TypeOK
  <1>5. ASSUME NEW j \in Jobs, AcquireLease(j) \/ EndLease(j)
        PROVE  RowInv'
    BY <1>5 DEF AcquireLease, EndLease, RowInv, RowOK
  <1> QED BY <1>1, <1>2, <1>3, <1>4, <1>5 DEF ApiNext

\* Claiming a job that was given to the workers.
LEMMA ClaimKeepsRowInv ==
    ASSUME TypeInv, RowInv, NEW w \in Workers, NEW j \in Jobs, NEW x \in Steps,
           NEW t \in {status[j], "cleaning", "submitting"}, Claim(w, j),
           step' = [step EXCEPT ![w] = x],
           x = "find_cancel_target" => started[j],
           x # "save_cancel_target",
           status' = [status EXCEPT ![j] = t],
           \/ t = status[j] /\ cap' = cap /\ t \notin {"queued", Absent}
           \/ t # status[j] /\ cap' = [cap EXCEPT ![j] = CapacityOf(t)],
           t = "cleaning" => cid[j],
           UNCHANGED progress
    PROVE  RowInv'
  <1> USE DEF progress, claims, control, Claim, TypeInv, TypeOK
  <1>1. RowOK(j)'
    BY RowsAssumption DEF RowInv, RowOK, WellFormed, Absent
  <1>2. \A v \in Workers : LooksForTask(v)' =>
             (LooksForTask(v) /\ at'[v] = at[v]) \/ started'[at'[v]]
    BY DEF LooksForTask
  <1> QED BY <1>1, <1>2, OneRow

\* A write that keeps the claim and stores what the worker just did.
LEMMA WriteKeepsRowInv ==
    ASSUME TypeInv, RowInv, NEW w \in Workers, NEW j \in Jobs,
           j = at[w], Accepted(w),
           UNCHANGED <<status, cap, holder, lease>>,
           UNCHANGED hash \/ hash' = [hash EXCEPT ![j] = TRUE],
           UNCHANGED started \/ started' = [started EXCEPT ![j] = TRUE],
           UNCHANGED cid \/ cid' = [cid EXCEPT ![j] = TRUE],
           started' # started => cid[j],
           hash' # hash => started[j] /\ status[j] = "cancelling",
           \/ /\ at' = at
              /\ \E x \in Steps : /\ x \notin {"save_cancel_target",
                                            "find_cancel_target"}
                                 /\ step' = [step EXCEPT ![w] = x]
           \/ Finish(w)
    PROVE  RowInv'
  <1>1. status[j] \notin {"queued", Absent}
    BY DEF RowInv, RowOK, Accepted, Holds
  <1>2. RowOK(j)'
    BY <1>1 DEF RowInv, RowOK, TypeInv, TypeOK
  <1>3. \A v \in Workers : LooksForTask(v)' => LooksForTask(v) /\ at'[v] = at[v]
    BY DEF LooksForTask, Finish, TypeInv, TypeOK
  <1>4. started[j] => started'[j]
    BY DEF TypeInv, TypeOK
  <1>5. \A i \in Jobs \ {j} : /\ cid'[i] = cid[i] /\ started'[i] = started[i]
                             /\ hash'[i] = hash[i]
    BY DEF TypeInv, TypeOK
  <1> QED BY <1>2, <1>3, <1>4, <1>5, OneRow

\* A write that moves the job and gives the claim up.
LEMMA ReleaseKeepsRowInv ==
    ASSUME TypeInv, RowInv, NEW w \in Workers, NEW j \in Jobs,
           j = at[w], ClearClaim(j), Finish(w),
           NEW t \in Statuses,
           status' = [status EXCEPT ![j] = t],
           cap' = [cap EXCEPT ![j] = CapacityOf(t)], t # "cancelling",
           UNCHANGED <<cid, started>>,
           UNCHANGED hash \/ hash' = [hash EXCEPT ![j] = TRUE]
             \/ hash' = [hash EXCEPT ![j] = FALSE],
           hash'[j] => started[j],
           t = "submit_uncertain" => started[j] /\ ~hash'[j],
           t \in {"offlining", "resolving", "awaiting_selection", "ready"}
             => hash'[j],
           t \in {"cleaning", "cleanup_failed"} => cid[j],
           t # "queued"
    PROVE  RowInv'
  <1>1. RowOK(j)'
    BY DEF RowInv, RowOK, WellFormed, ClearClaim, TypeInv, TypeOK,
                Absent, Statuses, Active, Terminal, RunningStatuses,
                ReadyStatuses
  <1>2. \A v \in Workers : LooksForTask(v)' => LooksForTask(v) /\ at'[v] = at[v]
    BY DEF LooksForTask, Finish, TypeInv, TypeOK
  <1>3. \A i \in Jobs \ {j} :
           /\ status'[i] = status[i] /\ cap'[i] = cap[i]
           /\ cid'[i] = cid[i] /\ started'[i] = started[i]
           /\ hash'[i] = hash[i]
           /\ holder'[i] = holder[i] /\ lease'[i] = lease[i]
    BY DEF ClearClaim, TypeInv, TypeOK
  <1> QED BY <1>1, <1>2, <1>3, OneRow

LEMMA QueueKeepsRowInv ==
    ASSUME TypeInv, RowInv, NEW w \in Workers, QueueNext(w)
    PROVE  RowInv'
  <1> USE DEF ledger, progress, claims, remote, control
  <1> DEFINE j == at[w]
  <1>1. CASE ClaimNext(w)
    <2>1. PICK i \in FirstClaimable :
            /\ Claim(w, i)
            /\ \E x \in FirstSteps(i, DispatchStep(i)) :
                  step' = [step EXCEPT ![w] = x]
      BY <1>1 DEF ClaimNext
    <2>2. i \in Jobs /\ status[i] \in {"submitting", "offlining", "cancelling"}
      BY DEF FirstClaimable, Claimable, Oldest
    <2>3. PICK x \in FirstSteps(i, DispatchStep(i)) :
            step' = [step EXCEPT ![w] = x]
      BY <2>1
    <2>4. /\ x \in Steps /\ x # "save_cancel_target"
          /\ x = "find_cancel_target" => started[i]
      BY <2>2, <2>3, StepsNamed
         DEF FirstSteps, DispatchStep, CancelStep, SubmitStep, Problem
    <2>5. status' = status /\ cap' = cap /\ UNCHANGED progress
      BY <1>1 DEF ClaimNext
    <2>6. status' = [status EXCEPT ![i] = status[i]]
      BY <2>5 DEF TypeInv, TypeOK
    <2> QED BY <2>1, <2>2, <2>3, <2>4, <2>5, <2>6, ClaimKeepsRowInv DEF Absent
  <1>2. CASE StartQueued(w)
    <2>1. PICK i \in Oldest(Queued) :
            /\ Move(i, "submitting")
            /\ Claim(w, i)
            /\ \E x \in FirstSteps(i, SubmitStep(i)) :
                  step' = [step EXCEPT ![w] = x]
      BY <1>2 DEF StartQueued
    <2>2. i \in Jobs /\ status[i] = "queued"
      BY DEF Oldest, Queued
    <2>3. PICK x \in FirstSteps(i, SubmitStep(i)) :
            step' = [step EXCEPT ![w] = x]
      BY <2>1
    <2>4. x \in Steps /\ x \notin {"save_cancel_target", "find_cancel_target"}
      BY <2>2, <2>3, StepsNamed DEF FirstSteps, SubmitStep, Problem
    <2>5. UNCHANGED progress
      BY <1>2 DEF StartQueued
    <2>6. /\ status' = [status EXCEPT ![i] = "submitting"]
          /\ cap' = [cap EXCEPT ![i] = CapacityOf("submitting")]
      BY <2>1 DEF Move, NextCapacity
    <2> QED BY <2>1, <2>2, <2>3, <2>4, <2>5, <2>6, ClaimKeepsRowInv
  <1>3. CASE ClaimResolving(w)
    <2>1. PICK i \in Oldest(Resolvable) :
            /\ Claim(w, i)
            /\ step' = [step EXCEPT ![w] = IF source[i] \in rejected
                          THEN "fail" ELSE "resolution_movie_number"]
      BY <1>3 DEF ClaimResolving
    <2>2. i \in Jobs /\ status[i] = "resolving"
      BY DEF Oldest, Resolvable
    <2>3. PICK x \in {"fail", "resolution_movie_number"} :
            step' = [step EXCEPT ![w] = x]
      BY <2>1
    <2>4. x \in Steps
      BY DEF Steps, FencedWrites, QueueWrites
    <2>5. status' = status /\ cap' = cap /\ UNCHANGED progress
      BY <1>3 DEF ClaimResolving
    <2>6. status' = [status EXCEPT ![i] = status[i]]
      BY <2>5 DEF TypeInv, TypeOK
    <2> QED BY <2>1, <2>2, <2>3, <2>4, <2>5, <2>6, ClaimKeepsRowInv DEF Absent
  <1>5. CASE SaveTaskDirectory(w)
    BY WriteKeepsRowInv, <1>5 DEF SaveTaskDirectory, Accepted, Holds, KeepClaim, Continue,
                      AfterDirectory, Steps, Calls, FencedWrites, QueueWrites
  <1>6. CASE MarkSubmitStarted(w)
    BY WriteKeepsRowInv, <1>6 DEF MarkSubmitStarted, Accepted, Holds, RowAllows, KeepClaim,
                      Continue, Steps, Calls
  <1>7. CASE SaveCancelTarget(w)
    <2>1. started[j]
      BY <1>7 DEF SaveCancelTarget, RowInv, LooksForTask
    <2> QED BY WriteKeepsRowInv, <1>7, <2>1
            DEF SaveCancelTarget, Accepted, Holds, RowAllows, KeepClaim, Continue,
                Steps, Calls
  <1>8. CASE ResolutionMovieNumber(w) \/ KeepWaiting(w)
    BY WriteKeepsRowInv, <1>8 DEF ResolutionMovieNumber, KeepWaiting, Accepted, Holds,
                      KeepClaim, Continue, Steps, Calls
  <1>10. CASE SaveSubmission(w) \/ MarkSubmitUncertain(w)
    <2>1. PICK t \in {"offlining", "submit_uncertain"} :
            /\ Move(j, t)
            /\ hash' = [hash EXCEPT ![j] = (t = "offlining")]
      BY <1>10 DEF SaveSubmission, MarkSubmitUncertain
    <2>2. /\ j \in Jobs /\ Accepted(w) /\ ClearClaim(j) /\ Finish(w)
          /\ UNCHANGED <<cid, started>>
          /\ cid[j] /\ started[j]
      BY <1>10 DEF SaveSubmission, MarkSubmitUncertain, Accepted, Holds, RowAllows
    <2>3. /\ status' = [status EXCEPT ![j] = t]
          /\ cap' = [cap EXCEPT ![j] = CapacityOf(t)]
          /\ t \in Statuses /\ t \notin {"cancelling", "queued"}
      BY <2>1 DEF Move, NextCapacity, Statuses, Active, RunningStatuses
    <2>4. hash'[j] = (t = "offlining")
      BY <2>1, <2>2 DEF TypeInv, TypeOK
    <2> QED BY ReleaseKeepsRowInv, <2>1, <2>2, <2>3, <2>4
  <1>11. CASE MoveAndRelease(w)
    <2>1. PICK t : t = WriteTarget[step[w]]
      OBVIOUS
    <2>2. /\ t \in {"resolving", "failed", "detached", "ready",
                    "awaiting_selection"}
          /\ t \in {"resolving", "ready", "awaiting_selection"} => hash[j]
          /\ j \in Jobs /\ Accepted(w) /\ ClearClaim(j) /\ Finish(w)
          /\ UNCHANGED <<cid, started, hash>>
          /\ Move(j, t)
      BY <1>11, <2>1 DEF MoveAndRelease, WriteTarget, Accepted, Holds, RowAllows,
                         RowInv, RowOK
    <2>3. /\ status' = [status EXCEPT ![j] = t]
          /\ cap' = [cap EXCEPT ![j] = CapacityOf(t)]
          /\ t \in Statuses
      BY <2>2 DEF Move, NextCapacity, Statuses, Active, Terminal, RunningStatuses,
                  ReadyStatuses
    <2> QED BY ReleaseKeepsRowInv, <2>2, <2>3 DEF RowInv, RowOK
  <1>12. CASE CompleteCancel(w)
    <2>1. PICK t \in {"cleaning", "cleaned"} :
            /\ status' = [status EXCEPT ![j] = t]
            /\ cap' = [cap EXCEPT ![j] = CapacityOf(t)]
            /\ t = "cleaning" => cid[j]
      BY <1>12 DEF CompleteCancel
    <2>2. /\ j \in Jobs /\ Accepted(w) /\ ClearClaim(j) /\ Finish(w)
          /\ UNCHANGED <<cid, started, hash>>
      BY <1>12 DEF CompleteCancel, Accepted, Holds
    <2>3. t \in Statuses
      BY DEF Statuses, Active, Terminal, ReadyStatuses
    <2> QED BY ReleaseKeepsRowInv, <2>1, <2>2, <2>3 DEF RowInv, RowOK
  <1>13. CASE WriteRefused(w)
    BY <1>13 DEF WriteRefused, Finish, RowInv, RowOK, LooksForTask, TypeInv,
                 TypeOK
  <1> QED BY <1>1, <1>2, <1>3, <1>5, <1>6, <1>7, <1>8, <1>10, <1>11, <1>12,
             <1>13 DEF QueueNext

\* A call, a pass and a crash leave the rows alone.
LEMMA StepKeepsRowInv ==
    ASSUME RowInv, UNCHANGED <<status, cap, progress, holder, lease>>,
           \A w \in Workers : LooksForTask(w)' =>
             at'[w] = at[w] /\ (LooksForTask(w) \/ step[w] = "find_cancel_target")
    PROVE  RowInv'
  BY DEF RowInv, RowOK, LooksForTask, progress

LEMMA WorkersKeepRowInv ==
    ASSUME TypeInv, RowInv, NEW w \in Workers,
           \/ OfflineNext(w) \/ ResolverNext(w) \/ PassTurn(w) \/ Crash(w)
    PROVE  RowInv'
  <1> USE DEF ledger, progress, claims, remote, control
  <1>1. UNCHANGED <<status, cap, progress, holder, lease>>
    BY DEF OfflineNext, Mkdir, LoadSubmissionPayload, SubmitOffline,
           FindByTaskDirectory, FindCancelTarget, CancelOffline, Poll,
           RowsUnchanged, ResolverNext, Inspect, Reject, PassTurn, Crash
  <1>2. CASE OfflineNext(w)
    <2>1. at' = at
      BY <1>2 DEF OfflineNext, Mkdir, LoadSubmissionPayload, SubmitOffline,
             FindByTaskDirectory, FindCancelTarget, CancelOffline, Poll, Continue
    <2>2. PICK x : /\ step' = [step EXCEPT ![w] = x]
                   /\ x # "find_cancel_target"
                   /\ x = "save_cancel_target" => step[w] = "find_cancel_target"
      <3>1. CASE Mkdir(w) \/ LoadSubmissionPayload(w) \/ SubmitOffline(w)
        BY <3>1 DEF Mkdir, LoadSubmissionPayload, SubmitOffline, Continue, Problem
      <3>2. CASE FindByTaskDirectory(w)
        BY <3>2 DEF FindByTaskDirectory, Continue, Problem
      <3>3. CASE FindCancelTarget(w)
        BY <3>3 DEF FindCancelTarget, Calling, Continue, Problem
      <3>4. CASE CancelOffline(w)
        BY <3>4 DEF CancelOffline, Continue, Problem
      <3>5. CASE Poll(w)
        <4>1. PICK x \in {Recording[task[at[w]]]} \cup Problem :
                step' = [step EXCEPT ![w] = x]
          BY <3>5 DEF Poll, Continue
        <4>2. task[at[w]] \in Tasks
          BY <3>5 DEF Poll, Calling, TypeInv, TypeOK, AtWork
        <4>3. Recording[task[at[w]]] \notin {"find_cancel_target", "save_cancel_target"}
          BY <4>2 DEF Recording, Tasks
        <4>4. x \notin {"find_cancel_target", "save_cancel_target"}
          BY <4>1, <4>3 DEF Problem
        <4> QED BY <4>1, <4>4
      <3> QED BY <1>2, <3>1, <3>2, <3>3, <3>4, <3>5 DEF OfflineNext
    <2> QED BY <1>1, <2>1, <2>2, StepKeepsRowInv DEF LooksForTask, TypeInv, TypeOK
  <1>3. CASE ResolverNext(w)
    <2>1. at' = at
      BY <1>3 DEF ResolverNext, Inspect, Reject, Continue
    <2>2. PICK x : /\ step' = [step EXCEPT ![w] = x]
                   /\ x \notin {"find_cancel_target", "save_cancel_target"}
      BY <1>3 DEF ResolverNext, Inspect, Reject, Continue, Problem
    <2> QED BY <1>1, <2>1, <2>2, StepKeepsRowInv DEF LooksForTask, TypeInv, TypeOK
  <1>4. CASE PassTurn(w) \/ Crash(w)
    <2>1. \A v \in Workers : v # w => at'[v] = at[v]
      BY <1>4 DEF PassTurn, Crash, Finish, TypeInv, TypeOK
    <2>2. step' = [step EXCEPT ![w] = "idle"]
      BY <1>4 DEF PassTurn, Crash, Finish
    <2> QED BY <1>1, <2>1, <2>2, StepKeepsRowInv DEF LooksForTask, TypeInv, TypeOK
  <1> QED BY <1>2, <1>3, <1>4

LEMMA CleanupKeepsRowInv ==
    ASSUME TypeInv, RowInv, NEW w \in Workers, CleanupNext(w)
    PROVE  RowInv'
  <1> USE DEF ledger, progress, claims, remote, control
  <1>1. ASSUME NEW j \in Jobs, Attempt(w, j), UNCHANGED progress,
               status[j] \in {"cleaning", "awaiting_selection", "ready"},
               status' = [status EXCEPT ![j] = "cleaning"],
               \/ status[j] = "cleaning" /\ cap' = cap
               \/ /\ status[j] # "cleaning"
                  /\ cap' = [cap EXCEPT ![j] = CapacityOf("cleaning")]
        PROVE  RowInv'
    <2>1. PICK x \in {"verify_ownership", "cleanup_fail", "cleanup_detach"} :
            step' = [step EXCEPT ![w] = x]
      BY <1>1 DEF Attempt, Mismatch, CleanupProblem
    <2>2. x \in Steps
      BY <2>1 DEF Steps, Calls, FencedWrites, CleanupWrites
    <2>3. cid[j]
      BY <1>1 DEF RowInv, RowOK
    <2>4. Claim(w, j)
      BY <1>1 DEF Attempt
    <2> QED BY <1>1, <2>1, <2>2, <2>3, <2>4, ClaimKeepsRowInv DEF Absent
  <1>2. CASE ClaimCleaning(w)
    <2>1. PICK j \in Cleanable : Attempt(w, j)
      BY <1>2 DEF ClaimCleaning
    <2>2. status' = status /\ cap' = cap /\ UNCHANGED progress
      BY <1>2 DEF ClaimCleaning
    <2>3. j \in Jobs /\ status[j] = "cleaning"
      BY DEF Cleanable
    <2>4. status' = [status EXCEPT ![j] = "cleaning"]
      BY <2>2, <2>3 DEF TypeInv, TypeOK
    <2> QED BY <1>1, <2>1, <2>2, <2>3, <2>4
  <1>3. CASE Evict(w)
    <2>1. PICK j \in Evictable : Move(j, "cleaning") /\ Attempt(w, j)
      BY <1>3 DEF Evict
    <2>2. UNCHANGED progress
      BY <1>3 DEF Evict
    <2> QED BY <1>1, <2>1, <2>2 DEF Evictable, Move, NextCapacity
  <1>4. CASE VerifyOwnership(w) \/ Delete(w)
    <2>1. UNCHANGED <<status, cap, progress, holder, lease, at>>
      BY <1>4 DEF VerifyOwnership, Delete, Continue
    <2>2. PICK x : /\ step' = [step EXCEPT ![w] = x]
                   /\ x \notin {"find_cancel_target", "save_cancel_target"}
      BY <1>4 DEF VerifyOwnership, Delete, Mismatch, Busy, AfterBusy, CleanupProblem, Continue
    <2> QED BY <2>1, <2>2, StepKeepsRowInv DEF LooksForTask, TypeInv, TypeOK
  <1>5. CASE EndAttempt(w)
    <2>1. PICK t : t = CleanupTarget[step[w]]
      OBVIOUS
    <2>2. /\ t \in {"cleaned", "cleanup_failed", "detached"}
          /\ at[w] \in Jobs /\ ClearClaim(at[w]) /\ Finish(w)
          /\ UNCHANGED <<cid, started, hash>>
          /\ Move(at[w], t)
          /\ status[at[w]] = "cleaning"
      BY <1>5, <2>1 DEF EndAttempt, CleanupTarget, CleanupAccepted, Holds
    <2>3. /\ status' = [status EXCEPT ![at[w]] = t]
          /\ cap' = [cap EXCEPT ![at[w]] = CapacityOf(t)]
          /\ t \in Statuses
      BY <2>2 DEF Move, NextCapacity, Statuses, Active, Terminal, ReadyStatuses
    <2>4. cid[at[w]] /\ (hash[at[w]] => started[at[w]])
      BY <2>2 DEF RowInv, RowOK
    <2> QED BY <2>2, <2>3, <2>4, ReleaseKeepsRowInv
  <1>6. CASE Release(w)
    <2>1. /\ at[w] \in Jobs /\ ClearClaim(at[w]) /\ Finish(w)
          /\ UNCHANGED <<cid, started, hash, status, cap>>
          /\ status[at[w]] = "cleaning"
      BY <1>6 DEF Release, CleanupAccepted, Holds
    <2>2. cid[at[w]] /\ (hash[at[w]] => started[at[w]])
          /\ cap[at[w]] = CapacityOf("cleaning")
      BY <2>1 DEF RowInv, RowOK, WellFormed, Absent
    <2>3. /\ status' = [status EXCEPT ![at[w]] = "cleaning"]
          /\ cap' = [cap EXCEPT ![at[w]] = CapacityOf("cleaning")]
      BY <2>1, <2>2 DEF TypeInv, TypeOK
    <2>4. "cleaning" \in Statuses
      BY DEF Statuses, Active, ReadyStatuses
    <2> QED BY <2>1, <2>2, <2>3, <2>4, ReleaseKeepsRowInv
  <1>7. CASE CleanupRefused(w)
    BY <1>7 DEF CleanupRefused, Finish, RowInv, RowOK, LooksForTask, TypeInv,
                TypeOK
  <1> QED BY <1>2, <1>3, <1>4, <1>5, <1>6, <1>7 DEF CleanupNext

LEMMA NextKeepsRowInv ==
    ASSUME TypeInv, RowInv, [Next]_vars
    PROVE  RowInv'
  <1> USE DEF ledger, progress, claims, remote, control
  <1>1. ASSUME NEW j \in Jobs, ExpireClaim(j)
        PROVE  RowInv'
    BY <1>1 DEF ExpireClaim, RowInv, RowOK, LooksForTask, TypeInv, TypeOK
  <1>2. ASSUME NEW j \in Jobs, PollFallsDue(j) \/ TaskEnds(j) \/ Vanish(j)
        PROVE  RowInv'
    BY <1>2 DEF PollFallsDue, TaskEnds, Vanish, RowInv, RowOK, LooksForTask
  <1>3. CASE UNCHANGED vars
    BY <1>3 DEF vars, RowInv, RowOK, LooksForTask
  <1> QED BY <1>1, <1>2, <1>3, ApiKeepsRowInv, QueueKeepsRowInv,
             CleanupKeepsRowInv, WorkersKeepRowInv
          DEF Next, WorkerNext, EnvironmentNext

Inv == TypeInv /\ SubmitInv /\ RowInv

LEMMA InvIsInductive == Spec => []Inv
  <1>1. Init => Inv
    BY InitTypeInv, InitRowInv DEF Init, Inv, SubmitInv, Submitting
  <1>2. Inv /\ [Next]_vars => Inv'
    BY NextKeepsTypeInv, NextKeepsSubmitInv, NextKeepsRowInv DEF Inv
  <1> QED BY <1>1, <1>2, PTL DEF Spec

\* Every row is one the domain and the CHECK constraints allow, whatever the
\* number of workers and jobs and whatever goes wrong.
THEOREM RowsStayWellFormed == Spec => []RowsWellFormed
  <1>1. Inv => RowsWellFormed
    BY DEF Inv, SubmitInv, RowInv, RowOK, RowsWellFormed
  <1> QED BY <1>1, InvIsInductive, PTL

-----------------------------------------------------------------------------
(* Refinement *)

\* The ledger speaks of the same jobs, statuses, classes and counts.
LEMMA SameWords ==
    /\ Ledger!Jobs = Jobs /\ Ledger!NoJob = NoJob /\ Ledger!Absent = Absent
    /\ Ledger!Statuses = Statuses /\ Ledger!Active = Active
    /\ Ledger!Terminal = Terminal /\ Ledger!Cancellable = Cancellable
    /\ Ledger!RunningStatuses = RunningStatuses
  BY DEF Ledger!Jobs, Jobs, Ledger!NoJob, NoJob, Ledger!Absent, Absent,
         Ledger!Statuses, Statuses, Ledger!Active, Active, Ledger!Terminal,
         Terminal, Ledger!Cancellable, Cancellable, Ledger!RunningStatuses,
         RunningStatuses, Ledger!ReadyStatuses, ReadyStatuses

LEMMA SameRules ==
    /\ \A s : Ledger!CapacityOf(s) = CapacityOf(s)
    /\ \A s : Ledger!LegalTargets(s) = LegalTargets(s)
    /\ \A c, t : Ledger!NextCapacity(c, t) = NextCapacity(c, t)
  <1>1. Ledger!RunningStatuses = RunningStatuses
        /\ Ledger!ReadyStatuses = ReadyStatuses
    BY DEF Ledger!RunningStatuses, RunningStatuses, Ledger!ReadyStatuses,
           ReadyStatuses
  <1>2. \A s : Ledger!CapacityOf(s) = CapacityOf(s)
    BY <1>1 DEF Ledger!CapacityOf, CapacityOf
  <1>3. \A s : Ledger!LegalTargets(s) = LegalTargets(s)
    BY DEF Ledger!LegalTargets, LegalTargets
  <1>4. \A c, t : Ledger!NextCapacity(c, t) = NextCapacity(c, t)
    BY <1>2 DEF Ledger!NextCapacity, NextCapacity
  <1> QED BY <1>2, <1>3, <1>4

LEMMA SameCounts ==
    /\ \A class : Ledger!CountIn(class) = CountIn(class)
    /\ \A class : CountIn(class) \in Nat
    /\ \A s : Ledger!LiveJobsOf(s) = ActiveJobsOf(s)
  <1>1. \A class : Ledger!CountIn(class) = CountIn(class)
    BY SameWords DEF Ledger!CountIn, CountIn, Ledger!Cardinality, Cardinality
  <1>2. ASSUME NEW class
        PROVE  CountIn(class) \in Nat
    <2>1. IsFiniteSet(Jobs)
      BY RowsAssumption, FS_Interval DEF Jobs
    <2>2. IsFiniteSet({j \in Jobs : cap[j] = class})
      BY <2>1, FS_Subset
    <2> QED BY <2>2, FS_CardinalityType DEF CountIn
  <1>3. \A s : Ledger!LiveJobsOf(s) = ActiveJobsOf(s)
    BY SameWords DEF Ledger!LiveJobsOf, ActiveJobsOf
  <1> QED BY <1>1, <1>2, <1>3

LEMMA InitIsLedgerInit == Init => Ledger!Init
  BY SameWords DEF Init, Ledger!Init

\* A legal transition of a job that is not queued.
LEMMA MoveIsAdvance ==
    ASSUME TypeInv, NEW j \in Jobs, NEW t, Move(j, t), status[j] # "queued"
    PROVE  Ledger!Next
  <1>1. t \in Statuses
    BY MovesTyped DEF Move, TypeInv, TypeOK
  <1>2. Ledger!Advance(j, t)
    BY SameRules DEF Move, Ledger!Advance
  <1> QED BY <1>1, <1>2, SameWords DEF Ledger!Next

\* A cancellation that ends in cleaning, or in cleaned, in one step.
LEMMA WithdrawIsNext ==
    ASSUME NEW j \in Jobs, NEW t \in {"cleaning", "cleaned"},
           status[j] \in Cancellable \cup {"cancelling"},
           status' = [status EXCEPT ![j] = t],
           cap' = [cap EXCEPT ![j] = CapacityOf(t)],
           UNCHANGED <<source, req>>
    PROVE  Ledger!Next
  <1>1. Ledger!Withdraw(j, t)
    BY SameWords, SameRules DEF Ledger!Withdraw
  <1>2. t \in Statuses
    BY DEF Statuses, Active, Terminal, ReadyStatuses
  <1> QED BY <1>1, <1>2, SameWords DEF Ledger!Next

LEMMA ApiImplementsLedger ==
    ASSUME Inv, ApiNext
    PROVE  Ledger!Next \/ UNCHANGED ledger
  <1> USE SameWords, SameCounts
  <1>1. ASSUME NEW k \in Keys, NEW s \in Sources, JoinJob(k, s)
        PROVE  Ledger!Next
    <2>1. Ledger!Join(k, s)
      BY <1>1 DEF JoinJob, NewRequest, Ledger!Join
    <2> QED BY <2>1 DEF Ledger!Next
  <1>2. ASSUME NEW k \in Keys, NEW s \in Sources, CreateJob(k, s)
        PROVE  Ledger!Next
    <2>1. CASE CountIn("running") < RunningCapacity
      <3>1. PICK j \in NextJob :
              /\ status' = [status EXCEPT ![j] = "submitting"]
              /\ cap' = [cap EXCEPT ![j] = "running"]
              /\ source' = [source EXCEPT ![j] = s]
              /\ req' = [req EXCEPT ![k] = j]
        BY <1>2, <2>1, Zenon DEF CreateJob
      <3>2. j \in Jobs /\ status[j] = Absent
        BY DEF NextJob, Oldest
      <3>3. req[k] = NoJob /\ Ledger!LiveJobsOf(s) = {}
        BY <1>2 DEF CreateJob, NewRequest
      <3>4. Ledger!Admit(k, s)
        BY <2>1, <3>1, <3>2, <3>3 DEF Ledger!Admit
      <3> QED BY <3>4 DEF Ledger!Next
    <2>2. CASE ~(CountIn("running") < RunningCapacity)
      <3>1. PICK j \in NextJob :
              /\ status' = [status EXCEPT ![j] = "queued"]
              /\ cap' = [cap EXCEPT ![j] = "queued"]
              /\ source' = [source EXCEPT ![j] = s]
              /\ req' = [req EXCEPT ![k] = j]
        BY <1>2, <2>2 DEF CreateJob
      <3>2. j \in Jobs /\ status[j] = Absent
        BY DEF NextJob, Oldest
      <3>3. req[k] = NoJob /\ Ledger!LiveJobsOf(s) = {}
            /\ CountIn("queued") < QueuedCapacity
        BY <1>2, <2>2 DEF CreateJob, NewRequest
      <3>4. CountIn("running") >= RunningCapacity
        BY <2>2, RowsAssumption
      <3>5. Ledger!Admit(k, s)
        BY <3>1, <3>2, <3>3, <3>4 DEF Ledger!Admit
      <3> QED BY <3>5 DEF Ledger!Next
    <2> QED BY <2>1, <2>2
  <1>3. ASSUME NEW j \in Jobs, CancelJob(j)
        PROVE  Ledger!Next
    <2>1. /\ status' = [status EXCEPT ![j] = CancelTarget(j)]
          /\ cap' = [cap EXCEPT ![j] = NextCapacity(cap[j], CancelTarget(j))]
          /\ UNCHANGED <<source, req>>
          /\ status[j] \in Cancellable
      BY <1>3 DEF CancelJob
    <2>2. CASE CancelTarget(j) = "cancelling"
      <3>1. status[j] # "queued"
        BY <2>2 DEF CancelTarget, MkdirInFlight, Inv, RowInv, RowOK
      <3>2. "cancelling" \in LegalTargets(status[j])
        BY <2>1, <3>1 DEF Cancellable, LegalTargets
      <3>3. Move(j, "cancelling")
        BY <2>1, <2>2, <3>2 DEF Move
      <3> QED BY <3>1, <3>3, MoveIsAdvance DEF Inv
    <2>3. CASE CancelTarget(j) # "cancelling"
      <3>1. CancelTarget(j) \in {"cleaning", "cleaned"}
        BY <2>3 DEF CancelTarget
      <3>2. NextCapacity(cap[j], CancelTarget(j)) = CapacityOf(CancelTarget(j))
        BY <2>3 DEF NextCapacity
      <3> QED BY <2>1, <3>1, <3>2, WithdrawIsNext
    <2> QED BY <2>2, <2>3
  <1>4. ASSUME NEW j \in Jobs, RequestCleanup(j) \/ SelectMedia(j)
        PROVE  Ledger!Next
    BY <1>4, MoveIsAdvance DEF RequestCleanup, SelectMedia, Inv
  <1>5. ASSUME NEW j \in Jobs, AcquireLease(j) \/ EndLease(j)
        PROVE  UNCHANGED ledger
    BY <1>5 DEF AcquireLease, EndLease
  <1> QED BY <1>1, <1>2, <1>3, <1>4, <1>5 DEF ApiNext

LEMMA QueueImplementsLedger ==
    ASSUME Inv, NEW w \in Workers, QueueNext(w)
    PROVE  Ledger!Next \/ UNCHANGED ledger
  <1>1. CASE StartQueued(w)
    <2>1. PICK j \in Oldest(Queued) : Move(j, "submitting")
      BY <1>1 DEF StartQueued
    <2>2. /\ j \in Jobs /\ status[j] = "queued"
          /\ \A i \in Jobs : status[i] = "queued" => j <= i
      BY DEF Oldest, Queued
    <2>3. CapacityOf("submitting") = "running"
      BY DEF CapacityOf, RunningStatuses, ReadyStatuses
    <2>4. Ledger!Start(j)
      BY <1>1, <2>1, <2>2, <2>3, SameWords, SameCounts
         DEF StartQueued, Move, NextCapacity, Ledger!Start
    <2> QED BY <2>2, <2>4, SameWords DEF Ledger!Next
  <1>2. ASSUME Accepted(w)
        PROVE  at[w] \in Jobs /\ status[at[w]] # "queued"
    BY <1>2 DEF Accepted, Holds, Inv, RowInv, RowOK
  <1>3. CASE SaveSubmission(w) \/ MarkSubmitUncertain(w) \/ MoveAndRelease(w)
    BY <1>2, <1>3, MoveIsAdvance
       DEF SaveSubmission, MarkSubmitUncertain, MoveAndRelease, Inv
  <1>4. CASE CompleteCancel(w)
    <2>1. /\ at[w] \in Jobs /\ status[at[w]] # "queued"
          /\ "cleaning" \in LegalTargets(status[at[w]])
      BY <1>2, <1>4 DEF CompleteCancel, Accepted, TransitionAllowed, WriteTarget
    <2>2. CASE cid[at[w]]
      <3>1. Move(at[w], "cleaning")
        BY <1>4, <2>1, <2>2 DEF CompleteCancel, Move, NextCapacity
      <3> QED BY <2>1, <3>1, MoveIsAdvance DEF Inv
    <2>3. CASE ~cid[at[w]]
      <3>1. status[at[w]] \notin {"awaiting_selection", "ready", "cleanup_failed"}
        BY <2>1, <2>3 DEF Inv, RowInv, RowOK
      <3>2. status[at[w]] = "cancelling"
        BY <2>1, <3>1 DEF LegalTargets, RunningStatuses
      <3> QED BY <1>4, <2>1, <2>3, <3>2, WithdrawIsNext DEF CompleteCancel
    <2> QED BY <2>2, <2>3
  <1>5. CASE \/ ClaimNext(w) \/ ClaimResolving(w) \/ SaveTaskDirectory(w)
             \/ MarkSubmitStarted(w) \/ SaveCancelTarget(w)
             \/ ResolutionMovieNumber(w) \/ KeepWaiting(w) \/ WriteRefused(w)
    BY <1>5 DEF ClaimNext, ClaimResolving, SaveTaskDirectory, MarkSubmitStarted,
                SaveCancelTarget, ResolutionMovieNumber, KeepWaiting, WriteRefused
  <1> QED BY <1>1, <1>3, <1>4, <1>5 DEF QueueNext

LEMMA NextImplementsLedger == Inv /\ [Next]_vars => [Ledger!Next]_(Ledger!vars)
  <1> SUFFICES ASSUME Inv, [Next]_vars
               PROVE  Ledger!Next \/ UNCHANGED ledger
    BY DEF Ledger!vars, ledger
  <1>1. ASSUME NEW w \in Workers, CleanupNext(w)
        PROVE  Ledger!Next \/ UNCHANGED ledger
    <2>1. CASE Evict(w)
      BY <2>1, MoveIsAdvance DEF Evict, Evictable, Inv
    <2>2. CASE EndAttempt(w)
      BY <2>2, MoveIsAdvance DEF EndAttempt, CleanupAccepted, Holds, Inv
    <2>3. CASE \/ ClaimCleaning(w) \/ VerifyOwnership(w) \/ Delete(w)
               \/ Release(w) \/ CleanupRefused(w)
      BY <2>3 DEF ClaimCleaning, VerifyOwnership, Delete, Release, CleanupRefused
    <2> QED BY <1>1, <2>1, <2>2, <2>3 DEF CleanupNext
  <1>2. ASSUME NEW w \in Workers, OfflineNext(w) \/ ResolverNext(w)
                                  \/ PassTurn(w) \/ Crash(w)
        PROVE  UNCHANGED ledger
    BY <1>2 DEF OfflineNext, Mkdir, LoadSubmissionPayload, SubmitOffline,
           FindByTaskDirectory, FindCancelTarget, CancelOffline, Poll,
           RowsUnchanged, ResolverNext, Inspect, Reject, PassTurn, Crash
  <1>3. CASE EnvironmentNext
    BY <1>3 DEF EnvironmentNext, ExpireClaim, PollFallsDue, TaskEnds, Vanish
  <1>4. CASE UNCHANGED vars
    BY <1>4 DEF vars
  <1> QED BY <1>1, <1>2, <1>3, <1>4, ApiImplementsLedger, QueueImplementsLedger
          DEF Next, WorkerNext

\* The pipeline implements the ledger: no interleaving of requests, workers,
\* crashes and answers of 115 shows a client anything the ledger forbids.
THEOREM ImplementsLedger == Spec => LedgerSpec
  <1>1. Init => Ledger!Init
    BY InitIsLedgerInit
  <1>2. Inv /\ [Next]_vars => [Ledger!Next]_(Ledger!vars)
    BY NextImplementsLedger
  <1> QED BY <1>1, <1>2, InvIsInductive, PTL DEF Spec, LedgerSpec, Ledger!Spec

-----------------------------------------------------------------------------
(* What the ledger promises holds of the pipeline *)

LP == INSTANCE CacheLedgerProofs

\* CacheLedger and CacheLedgerProofs are two instances of one specification.
LEMMA TwoInstances ==
    /\ Ledger!Jobs = LP!Jobs /\ Ledger!NoJob = LP!NoJob
    /\ Ledger!Absent = LP!Absent /\ Ledger!Statuses = LP!Statuses
    /\ Ledger!Active = LP!Active /\ Ledger!Terminal = LP!Terminal
    /\ Ledger!Cancellable = LP!Cancellable
    /\ Ledger!RunningStatuses = LP!RunningStatuses
  BY DEF Ledger!Jobs, LP!Jobs, Ledger!NoJob, LP!NoJob, Ledger!Absent, LP!Absent,
         Ledger!Statuses, LP!Statuses, Ledger!Active, LP!Active,
         Ledger!Terminal, LP!Terminal, Ledger!Cancellable, LP!Cancellable,
         Ledger!RunningStatuses, LP!RunningStatuses, Ledger!ReadyStatuses,
         LP!ReadyStatuses

LEMMA TwoInstancesRules ==
    /\ \A s : Ledger!CapacityOf(s) = LP!CapacityOf(s)
    /\ \A s : Ledger!LegalTargets(s) = LP!LegalTargets(s)
    /\ \A c, t : Ledger!NextCapacity(c, t) = LP!NextCapacity(c, t)
    /\ \A class : Ledger!CountIn(class) = LP!CountIn(class)
    /\ \A s : Ledger!LiveJobsOf(s) = LP!LiveJobsOf(s)
  <1>1. Ledger!RunningStatuses = LP!RunningStatuses
        /\ Ledger!ReadyStatuses = LP!ReadyStatuses
    BY DEF Ledger!RunningStatuses, LP!RunningStatuses, Ledger!ReadyStatuses,
           LP!ReadyStatuses
  <1>2. \A s : Ledger!CapacityOf(s) = LP!CapacityOf(s)
    BY <1>1 DEF Ledger!CapacityOf, LP!CapacityOf
  <1>3. \A s : Ledger!LegalTargets(s) = LP!LegalTargets(s)
    BY DEF Ledger!LegalTargets, LP!LegalTargets
  <1>4. \A c, t : Ledger!NextCapacity(c, t) = LP!NextCapacity(c, t)
    BY <1>2 DEF Ledger!NextCapacity, LP!NextCapacity
  <1>5. \A class : Ledger!CountIn(class) = LP!CountIn(class)
    BY TwoInstances
       DEF Ledger!CountIn, LP!CountIn, Ledger!Cardinality, LP!Cardinality
  <1>6. \A s : Ledger!LiveJobsOf(s) = LP!LiveJobsOf(s)
    BY TwoInstances DEF Ledger!LiveJobsOf, LP!LiveJobsOf
  <1> QED BY <1>2, <1>3, <1>4, <1>5, <1>6

LEMMA TwoInstancesActions ==
    /\ Ledger!Init <=> LP!Init
    /\ Ledger!Next <=> LP!Next
    /\ UNCHANGED Ledger!vars <=> UNCHANGED LP!vars
  <1> USE TwoInstances, TwoInstancesRules
  <1>1. Ledger!Init <=> LP!Init
    BY DEF Ledger!Init, LP!Init
  <1>2. UNCHANGED Ledger!vars <=> UNCHANGED LP!vars
    BY DEF Ledger!vars, LP!vars
  <1>3. \A k \in Keys, s \in Sources : Ledger!Admit(k, s) <=> LP!Admit(k, s)
    BY DEF Ledger!Admit, LP!Admit
  <1>4. \A k \in Keys, s \in Sources : Ledger!Join(k, s) <=> LP!Join(k, s)
    BY DEF Ledger!Join, LP!Join
  <1>5. \A j \in Ledger!Jobs : Ledger!Start(j) <=> LP!Start(j)
    BY DEF Ledger!Start, LP!Start
  <1>6. \A j \in Ledger!Jobs, t \in Ledger!Statuses :
          /\ Ledger!Advance(j, t) <=> LP!Advance(j, t)
          /\ Ledger!Withdraw(j, t) <=> LP!Withdraw(j, t)
    BY DEF Ledger!Advance, LP!Advance, Ledger!Withdraw, LP!Withdraw
  <1>7. Ledger!Next <=> LP!Next
    BY <1>3, <1>4, <1>5, <1>6 DEF Ledger!Next, LP!Next
  <1> QED BY <1>1, <1>2, <1>7

LEMMA SpecOfTheOther == Spec => LP!Spec
  <1>1. Ledger!Init <=> LP!Init
    BY TwoInstancesActions
  <1>2. [Ledger!Next]_(Ledger!vars) <=> [LP!Next]_(LP!vars)
    BY TwoInstancesActions
  <1> QED BY <1>1, <1>2, ImplementsLedger, PTL
          DEF LedgerSpec, Ledger!Spec, LP!Spec

LEMMA LimitsHold == Spec => [](CapacityRespected /\ OneLiveJobPerSource)
  <1>1. LP!Spec => [](LP!CapacityRespected /\ LP!OneLiveJobPerSource)
    BY LP!LedgerSafe, RowsAssumption DEF LP!LedgerConstants
  <1>2. LP!CapacityRespected => CapacityRespected
    BY TwoInstances
       DEF CapacityRespected, Ledger!CapacityRespected, LP!CapacityRespected,
           Ledger!Cardinality, LP!Cardinality
  <1>3. LP!OneLiveJobPerSource => OneLiveJobPerSource
    BY TwoInstances
       DEF OneLiveJobPerSource, Ledger!OneLiveJobPerSource,
           LP!OneLiveJobPerSource
  <1> QED BY <1>1, <1>2, <1>3, SpecOfTheOther, PTL

\* At most RunningCapacity jobs hold a slot and at most QueuedCapacity wait.
THEOREM CapacityHolds == Spec => []CapacityRespected
  BY LimitsHold, PTL

\* A source never has two live jobs.
THEOREM OneLiveJobHolds == Spec => []OneLiveJobPerSource
  BY LimitsHold, PTL

\* What reached a terminal status stays there, with its requests.
THEOREM TerminalStays == Spec => TerminalIsFinal
  <1> DEFINE Final == \A j \in LP!Jobs : status[j] \in LP!Terminal =>
                        /\ status'[j] = status[j]
                        /\ \A k \in Keys : req[k] = j => req'[k] = j
  <1>1. LP!Spec => [][Final]_(LP!vars)
    BY LP!LedgerFinal, RowsAssumption DEF LP!LedgerConstants, LP!TerminalIsFinal
  <1>2. [Final]_(LP!vars) =>
          [\A j \in Ledger!Jobs : status[j] \in Ledger!Terminal =>
             /\ status'[j] = status[j]
             /\ \A k \in Keys : req[k] = j => req'[k] = j]_(Ledger!vars)
    BY TwoInstances, TwoInstancesActions
  <1> QED BY <1>1, <1>2, SpecOfTheOther, PTL
          DEF TerminalIsFinal, Ledger!TerminalIsFinal

-----------------------------------------------------------------------------
(* What a worker is about to do under a claim fits the row.                *)

\* The states in which a job may be while the holder of its claim is at a step.
StepFits(x, s, directory, start) ==
    /\ x \in {"mkdir", "save_task_directory"} =>
         s \in {"submitting", "cancelling"} /\ ~directory
    /\ x \in {"load_submission_payload", "mark_submit_started"} =>
         s = "submitting" /\ directory /\ ~start
    /\ x \in {"submit_offline", "find_by_task_directory", "save_submission",
              "mark_submit_uncertain"} => s = "submitting" /\ start
    /\ x \in {"find_cancel_target", "save_cancel_target", "cancel_offline",
              "complete_cancel"} => s = "cancelling"
    /\ x \in {"poll", "record_running", "record_completed", "record_failed"} =>
         s = "offlining"
    /\ x \in {"resolution_movie_number", "inspect", "detach", "complete_ready",
              "complete_choice"} => s = "resolving"
    /\ x \in {"reject", "fail", "defer"} =>
         s \in {"submitting", "cancelling", "offlining", "resolving"}
    /\ x \in {"verify_ownership", "delete"} \cup CleanupWrites => s = "cleaning"

ClaimFits(w) ==
    step[w] # "idle" /\ holder[at[w]] = w =>
        StepFits(step[w], status[at[w]], cid[at[w]], started[at[w]])

ClaimInv == \A w \in Workers : ClaimFits(w)

\* Nothing a worker's claim depends on changes.
ClaimUntouched(w) ==
    /\ step'[w] = step[w] /\ at'[w] = at[w]
    /\ step[w] # "idle" =>
         \/ holder'[at[w]] # w
         \/ /\ holder[at[w]] = w /\ status'[at[w]] = status[at[w]]
            /\ cid'[at[w]] = cid[at[w]] /\ started'[at[w]] = started[at[w]]

LEMMA ClaimsKept ==
    ASSUME ClaimInv, \A w \in Workers : ClaimUntouched(w) \/ ClaimFits(w)'
    PROVE  ClaimInv'
  BY DEF ClaimInv, ClaimFits, ClaimUntouched

\* A step that leaves the rows and the claims alone.
LEMMA CallKeepsClaimInv ==
    ASSUME TypeInv, ClaimInv, NEW w \in Workers, NEW x \in Steps,
           UNCHANGED <<status, cid, started, holder>>,
           step' = [step EXCEPT ![w] = x],
           \A v \in Workers \ {w} : at'[v] = at[v],
           \/ x = "idle"
           \/ /\ at'[w] = at[w] /\ step[w] # "idle"
              /\ holder[at[w]] = w => StepFits(x, status[at[w]], cid[at[w]], started[at[w]])
    PROVE  ClaimInv'
  <1>1. \A v \in Workers \ {w} : ClaimUntouched(v)
    BY DEF ClaimUntouched, TypeInv, TypeOK, AtWork
  <1>2. ClaimFits(w)'
    BY DEF ClaimFits, TypeInv, TypeOK
  <1> QED BY <1>1, <1>2, ClaimsKept

\* Claiming a job.
LEMMA ClaimKeepsClaimInv ==
    ASSUME TypeInv, ClaimInv, NEW w \in Workers, NEW j \in Jobs, NEW x \in Steps,
           Claim(w, j), step' = [step EXCEPT ![w] = x],
           UNCHANGED <<cid, started>>,
           NEW t \in Statuses, status' = [status EXCEPT ![j] = t],
           StepFits(x, t, cid[j], started[j])
    PROVE  ClaimInv'
  <1>1. \A v \in Workers \ {w} : ClaimUntouched(v)
    BY DEF ClaimUntouched, TypeInv, TypeOK, AtWork, Claim
  <1>2. ClaimFits(w)'
    BY DEF ClaimFits, TypeInv, TypeOK, Claim
  <1> QED BY <1>1, <1>2, ClaimsKept

\* A write of the holder, after which it goes on or ends its turn.
LEMMA WriteKeepsClaimInv ==
    ASSUME TypeInv, ClaimInv, NEW w \in Workers, NEW x \in Steps, Holds(w),
           step[w] # "idle", step' = [step EXCEPT ![w] = x],
           \A v \in Workers \ {w} : at'[v] = at[v],
           \/ UNCHANGED holder
           \/ holder' = [holder EXCEPT ![at[w]] = Nobody],
           \A i \in Jobs \ {at[w]} :
              status'[i] = status[i] /\ cid'[i] = cid[i] /\ started'[i] = started[i],
           \/ x = "idle"
           \/ /\ at'[w] = at[w]
              /\ StepFits(x, status'[at[w]], cid'[at[w]], started'[at[w]])
    PROVE  ClaimInv'
  <1>1. \A v \in Workers \ {w} : ClaimUntouched(v)
    BY RowsAssumption DEF ClaimUntouched, TypeInv, TypeOK, AtWork, Holds
  <1>2. ClaimFits(w)'
    BY DEF ClaimFits, TypeInv, TypeOK
  <1> QED BY <1>1, <1>2, ClaimsKept

LEMMA QueueKeepsClaimInv ==
    ASSUME TypeInv, RowInv, ClaimInv, NEW w \in Workers, QueueNext(w)
    PROVE  ClaimInv'
  <1> USE DEF ledger, progress, claims, remote, control
  <1> DEFINE j == at[w]
  <1>1. CASE ClaimNext(w)
    <2>1. PICK i \in FirstClaimable :
            /\ Claim(w, i)
            /\ \E x \in FirstSteps(i, DispatchStep(i)) :
                  step' = [step EXCEPT ![w] = x]
      BY <1>1 DEF ClaimNext
    <2>2. i \in Jobs /\ status[i] \in {"submitting", "offlining", "cancelling"}
      BY DEF FirstClaimable, Claimable, Oldest
    <2>3. PICK x \in FirstSteps(i, DispatchStep(i)) :
            step' = [step EXCEPT ![w] = x]
      BY <2>1
    <2>4. x \in Steps
      BY <2>2, <2>3, StepsNamed
    <2>5. x \in {"fail", "defer"} \/ x = DispatchStep(i)
      BY <2>3 DEF FirstSteps, Problem
    <2>6. StepFits(x, status[i], cid[i], started[i])
      BY <2>2, <2>5 DEF StepFits, DispatchStep, CancelStep, SubmitStep, CleanupWrites
    <2>7. status' = [status EXCEPT ![i] = status[i]] /\ status[i] \in Statuses
      BY <1>1, <2>2 DEF ClaimNext, TypeInv, TypeOK, Absent
    <2> QED BY <1>1, <2>1, <2>2, <2>3, <2>4, <2>6, <2>7, ClaimKeepsClaimInv DEF ClaimNext
  <1>2. CASE StartQueued(w)
    <2>1. PICK i \in Oldest(Queued) :
            /\ Move(i, "submitting")
            /\ Claim(w, i)
            /\ \E x \in FirstSteps(i, SubmitStep(i)) :
                  step' = [step EXCEPT ![w] = x]
      BY <1>2 DEF StartQueued
    <2>2. i \in Jobs /\ status[i] = "queued"
      BY DEF Oldest, Queued
    <2>3. PICK x \in FirstSteps(i, SubmitStep(i)) :
            step' = [step EXCEPT ![w] = x]
      BY <2>1
    <2>4. x \in Steps
      BY <2>2, <2>3, StepsNamed
    <2>5. ~cid[i]
      BY <2>2 DEF RowInv, RowOK
    <2>6. StepFits(x, "submitting", cid[i], started[i])
      BY <2>3, <2>5 DEF FirstSteps, Problem, StepFits, SubmitStep, CleanupWrites
    <2>7. status' = [status EXCEPT ![i] = "submitting"] /\ "submitting" \in Statuses
      BY <2>1 DEF Move, Statuses, Active, RunningStatuses
    <2> QED BY <1>2, <2>1, <2>2, <2>3, <2>4, <2>6, <2>7, ClaimKeepsClaimInv DEF StartQueued
  <1>3. CASE ClaimResolving(w)
    <2>1. PICK i \in Oldest(Resolvable) :
            /\ Claim(w, i)
            /\ step' = [step EXCEPT ![w] = IF source[i] \in rejected
                          THEN "fail" ELSE "resolution_movie_number"]
      BY <1>3 DEF ClaimResolving
    <2>2. i \in Jobs /\ status[i] = "resolving"
      BY DEF Oldest, Resolvable
    <2>3. PICK x \in {"fail", "resolution_movie_number"} :
            step' = [step EXCEPT ![w] = x]
      BY <2>1
    <2>4. x \in Steps
      BY DEF Steps, FencedWrites, QueueWrites
    <2>5. StepFits(x, status[i], cid[i], started[i])
      BY <2>2 DEF StepFits, CleanupWrites
    <2>6. status' = [status EXCEPT ![i] = status[i]] /\ status[i] \in Statuses
      BY <1>3, <2>2 DEF ClaimResolving, TypeInv, TypeOK, Absent
    <2> QED BY <1>3, <2>1, <2>2, <2>3, <2>4, <2>5, <2>6, ClaimKeepsClaimInv
            DEF ClaimResolving
  <1>4. CASE SaveTaskDirectory(w)
    <2>1. /\ Holds(w) /\ step[w] = "save_task_directory" /\ j \in Jobs
          /\ cid' = [cid EXCEPT ![j] = TRUE]
          /\ step' = [step EXCEPT ![w] = AfterDirectory(j)]
          /\ UNCHANGED <<status, started, holder, at>>
      BY <1>4 DEF SaveTaskDirectory, Accepted, Holds, KeepClaim, Continue
    <2>2. status[j] \in {"submitting", "cancelling"} /\ ~started[j]
      BY <2>1 DEF ClaimInv, ClaimFits, StepFits, Holds, RowInv, RowOK
    <2>3. StepFits(AfterDirectory(j), status'[j], cid'[j], started'[j])
      BY <2>1, <2>2 DEF AfterDirectory, StepFits, CleanupWrites, TypeInv, TypeOK
    <2>4. cid'[j] /\ \A i \in Jobs \ {j} : cid'[i] = cid[i]
      BY <2>1 DEF TypeInv, TypeOK
    <2> QED BY <2>1, <2>3, <2>4, StepsNamed, WriteKeepsClaimInv
  <1>5. CASE MarkSubmitStarted(w)
    <2>1. /\ Holds(w) /\ step[w] = "mark_submit_started" /\ j \in Jobs
          /\ started' = [started EXCEPT ![j] = TRUE]
          /\ step' = [step EXCEPT ![w] = "submit_offline"]
          /\ UNCHANGED <<status, cid, holder, at>>
      BY <1>5 DEF MarkSubmitStarted, Accepted, Holds, KeepClaim, Continue
    <2>2. status[j] = "submitting"
      BY <2>1 DEF ClaimInv, ClaimFits, StepFits, Holds
    <2>3. StepFits("submit_offline", status'[j], cid'[j], started'[j])
      BY <2>1, <2>2 DEF StepFits, CleanupWrites, TypeInv, TypeOK
    <2>4. "submit_offline" \in Steps /\ \A i \in Jobs \ {j} : started'[i] = started[i]
      BY <2>1 DEF TypeInv, TypeOK, Steps, Calls
    <2> QED BY <2>1, <2>3, <2>4, WriteKeepsClaimInv
  <1>6. CASE SaveCancelTarget(w) \/ ResolutionMovieNumber(w)
    <2>1. PICK x \in {"cancel_offline", "inspect"} :
            /\ step' = [step EXCEPT ![w] = x]
            /\ x = "cancel_offline" <=> step[w] = "save_cancel_target"
      BY <1>6 DEF SaveCancelTarget, ResolutionMovieNumber, Continue
    <2>2. /\ Holds(w) /\ step[w] \in {"save_cancel_target", "resolution_movie_number"}
          /\ UNCHANGED <<status, cid, started, holder, at>>
      BY <1>6 DEF SaveCancelTarget, ResolutionMovieNumber, Accepted, KeepClaim, Continue
    <2>3. StepFits(x, status[j], cid[j], started[j])
      BY <2>1, <2>2 DEF ClaimInv, ClaimFits, StepFits, Holds, CleanupWrites
    <2>4. x \in Steps
      BY DEF Steps, Calls
    <2> QED BY <2>1, <2>2, <2>3, <2>4, WriteKeepsClaimInv
  <1>7. CASE \/ SaveSubmission(w) \/ MarkSubmitUncertain(w) \/ MoveAndRelease(w)
            \/ CompleteCancel(w) \/ KeepWaiting(w)
    <2>1. /\ Holds(w) /\ step[w] # "idle" /\ Finish(w) /\ UNCHANGED <<cid, started>>
      BY <1>7 DEF SaveSubmission, MarkSubmitUncertain, MoveAndRelease, CompleteCancel,
                  KeepWaiting, Accepted
    <2>2. UNCHANGED holder \/ holder' = [holder EXCEPT ![j] = Nobody]
      BY <1>7 DEF SaveSubmission, MarkSubmitUncertain, MoveAndRelease, CompleteCancel,
                  KeepWaiting, KeepClaim, ClearClaim
    <2>3. \A i \in Jobs \ {j} : status'[i] = status[i]
      BY <1>7 DEF SaveSubmission, MarkSubmitUncertain, MoveAndRelease, CompleteCancel,
                  KeepWaiting, Move, TypeInv, TypeOK
    <2>4. "idle" \in Steps
      BY DEF Steps
    <2> QED BY <2>1, <2>2, <2>3, <2>4, WriteKeepsClaimInv DEF Finish, TypeInv, TypeOK
  <1>8. CASE WriteRefused(w)
    BY <1>8, CallKeepsClaimInv DEF WriteRefused, Finish, Steps, TypeInv, TypeOK
  <1> QED BY <1>1, <1>2, <1>3, <1>4, <1>5, <1>6, <1>7, <1>8 DEF QueueNext

LEMMA CallsKeepClaimInv ==
    ASSUME TypeInv, RowInv, ClaimInv, NEW w \in Workers,
           OfflineNext(w) \/ ResolverNext(w) \/ PassTurn(w) \/ Crash(w)
    PROVE  ClaimInv'
  <1> USE DEF ledger, progress, claims, remote, control
  <1> DEFINE Fits(x) == StepFits(x, status[at[w]], cid[at[w]], started[at[w]])
             OnRow == step[w] # "idle" /\ UNCHANGED <<status, cid, started, holder, at>>
             Mine == holder[at[w]] = w
  <1>1. SUFFICES ASSUME OfflineNext(w) \/ ResolverNext(w)
        PROVE  OnRow /\ \E x \in Steps : step' = [step EXCEPT ![w] = x] /\ (Mine => Fits(x))
    <2>1. CASE PassTurn(w) \/ Crash(w)
      BY <2>1, CallKeepsClaimInv DEF PassTurn, Crash, Finish, Steps, TypeInv, TypeOK
    <2> QED BY <1>1, <2>1, CallKeepsClaimInv
  <1> HIDE DEF ledger, progress, claims, remote, control
  <1>2. OnRow
    BY <1>1 DEF OfflineNext, Mkdir, LoadSubmissionPayload, SubmitOffline, FindByTaskDirectory,
                FindCancelTarget, CancelOffline, Poll, Calling, RowsUnchanged, ledger,
                progress, claims, Continue, ResolverNext, Inspect, Reject
  <1>3. Mine => Fits(step[w])
    BY <1>2 DEF ClaimInv, ClaimFits
  <1>4. PICK x \in Steps :
          /\ step' = [step EXCEPT ![w] = x]
          /\ \/ step[w] \in {"mkdir", "load_submission_payload", "submit_offline",
                             "find_by_task_directory", "find_cancel_target",
                             "cancel_offline", "poll", "reject", "inspect"}
                /\ x \in {"fail", "defer"}
             \/ step[w] = "mkdir" /\ x = "save_task_directory"
             \/ step[w] = "load_submission_payload" /\ x = "mark_submit_started"
             \/ /\ step[w] \in {"submit_offline", "find_by_task_directory"}
                /\ x \in {"save_submission", "find_by_task_directory",
                          "mark_submit_uncertain", "reject"}
             \/ /\ step[w] \in {"find_cancel_target", "cancel_offline"}
                /\ x \in {"complete_cancel", "save_cancel_target"}
             \/ /\ step[w] = "poll"
                /\ x \in {"record_running", "record_completed", "record_failed"}
             \/ /\ step[w] = "inspect"
                /\ x \in {"complete_ready", "complete_choice", "detach", "reject"}
    <2> USE DEF Calling, Continue, Problem, Steps, Calls, FencedWrites, QueueWrites
    <2>1. CASE Mkdir(w) \/ LoadSubmissionPayload(w)
      BY <2>1 DEF Mkdir, LoadSubmissionPayload
    <2>2. CASE SubmitOffline(w) \/ FindByTaskDirectory(w)
      BY <2>2 DEF SubmitOffline, FindByTaskDirectory
    <2>3. CASE FindCancelTarget(w) \/ CancelOffline(w)
      BY <2>3 DEF FindCancelTarget, CancelOffline
    <2>4. CASE Poll(w)
      <3>1. task[at[w]] \in Tasks
        BY <2>4 DEF Poll, TypeInv, TypeOK, AtWork
      <3>2. Recording[task[at[w]]] \in {"fail", "record_running", "record_completed",
                                       "record_failed"}
        BY <3>1 DEF Recording, Tasks
      <3> QED BY <2>4, <3>2 DEF Poll
    <2>5. CASE Inspect(w) \/ Reject(w)
      BY <2>5 DEF Inspect, Reject
    <2> QED BY <1>1, <2>1, <2>2, <2>3, <2>4, <2>5 DEF OfflineNext, ResolverNext
  <1>5. Mine => Fits(x)
    BY <1>3, <1>4 DEF StepFits, CleanupWrites
  <1> QED BY <1>2, <1>4, <1>5

LEMMA CleanupKeepsClaimInv ==
    ASSUME TypeInv, ClaimInv, NEW w \in Workers, CleanupNext(w)
    PROVE  ClaimInv'
  <1> USE DEF ledger, progress, claims, remote, control
  <1>1. CASE ClaimCleaning(w) \/ Evict(w)
    <2>1. PICK j \in Jobs :
            Attempt(w, j) /\ status' = [status EXCEPT ![j] = "cleaning"]
      BY <1>1 DEF ClaimCleaning, Evict, Cleanable, Evictable, Move, TypeInv, TypeOK
    <2>2. PICK x \in {"verify_ownership", "cleanup_fail", "cleanup_detach"} :
            step' = [step EXCEPT ![w] = x]
      BY <2>1 DEF Attempt, Mismatch, CleanupProblem
    <2>3. x \in Steps /\ "cleaning" \in Statuses
      BY DEF Steps, Calls, FencedWrites, CleanupWrites, Statuses, Active, ReadyStatuses
    <2>4. StepFits(x, "cleaning", cid[j], started[j])
      BY DEF StepFits, CleanupWrites
    <2>5. UNCHANGED <<cid, started>> /\ Claim(w, j)
      BY <1>1, <2>1 DEF ClaimCleaning, Evict, Attempt
    <2> QED BY <2>1, <2>2, <2>3, <2>4, <2>5, ClaimKeepsClaimInv
  <1>2. CASE VerifyOwnership(w) \/ Delete(w)
    <2>1. /\ UNCHANGED <<status, cid, started, holder, at>>
          /\ step[w] \in {"verify_ownership", "delete"}
      BY <1>2 DEF VerifyOwnership, Delete, Continue
    <2>2. PICK x : /\ step' = [step EXCEPT ![w] = x]
                   /\ x \in {"delete", "succeed", "cleanup_fail", "fail_busy", "release",
                             "cleanup_detach"}
      BY <1>2 DEF VerifyOwnership, Delete, Mismatch, Busy, AfterBusy, CleanupProblem, Continue
    <2>3. holder[at[w]] = w => StepFits(x, status[at[w]], cid[at[w]], started[at[w]])
      BY <2>1, <2>2 DEF ClaimInv, ClaimFits, StepFits, CleanupWrites
    <2>4. x \in Steps
      BY <2>2 DEF Steps, Calls, FencedWrites, CleanupWrites
    <2> QED BY <2>1, <2>2, <2>3, <2>4, CallKeepsClaimInv
  <1>3. CASE EndAttempt(w) \/ Release(w)
    <2>1. /\ Holds(w) /\ step[w] # "idle" /\ Finish(w) /\ UNCHANGED <<cid, started>>
          /\ holder' = [holder EXCEPT ![at[w]] = Nobody]
      BY <1>3 DEF EndAttempt, Release, CleanupAccepted, ClearClaim, CleanupTarget
    <2>2. \A i \in Jobs \ {at[w]} : status'[i] = status[i]
      BY <1>3 DEF EndAttempt, Release, Move, TypeInv, TypeOK
    <2>3. "idle" \in Steps
      BY DEF Steps
    <2> QED BY <2>1, <2>2, <2>3, WriteKeepsClaimInv DEF Finish, TypeInv, TypeOK
  <1>4. CASE CleanupRefused(w)
    BY <1>4, CallKeepsClaimInv DEF CleanupRefused, Finish, Steps, TypeInv, TypeOK
  <1> QED BY <1>1, <1>2, <1>3, <1>4 DEF CleanupNext

\* What the API does to a claimed job it does by taking the claim away, except
\* that a job whose directory may be in the making is cancelled under it.
LEMMA ApiKeepsClaimInv ==
    ASSUME TypeInv, RowInv, ClaimInv, ApiNext
    PROVE  ClaimInv'
  <1> USE DEF ledger, progress, claims, control
  <1>1. UNCHANGED <<cid, started, step, at>>
    BY DEF ApiNext, JoinJob, CreateJob, CancelJob, RequestCleanup, SelectMedia,
           AcquireLease, EndLease
  <1>2. CASE UNCHANGED <<status, holder>>
    BY <1>1, <1>2, ClaimsKept DEF ClaimUntouched, ClaimFits, ClaimInv
  <1>3. ASSUME NEW k \in Keys, NEW s \in Sources, CreateJob(k, s)
        PROVE  ClaimInv'
    <2>1. PICK j \in Jobs : /\ status[j] = Absent
                            /\ \A i \in Jobs \ {j} : status'[i] = status[i]
      BY <1>3 DEF CreateJob, NextJob, Oldest, TypeInv, TypeOK
    <2>2. holder[j] = Nobody
      BY <2>1 DEF RowInv, RowOK
    <2>3. holder' = holder
      BY <1>3 DEF CreateJob
    <2>4. \A w \in Workers : ClaimUntouched(w)
      BY <1>1, <2>1, <2>2, <2>3, RowsAssumption
         DEF ClaimUntouched, ClaimFits, ClaimInv, TypeInv, AtWork
    <2> QED BY <2>4, ClaimsKept
  <1>4. ASSUME NEW j \in Jobs, CancelJob(j) PROVE ClaimInv'
    <2>1. CASE MkdirInFlight(j)
      <3>1. holder' = holder /\ status' = [status EXCEPT ![j] = "cancelling"]
        BY <1>4, <2>1 DEF CancelJob, CancelTarget, KeepClaim
      <3>2. ASSUME NEW w \in Workers PROVE ClaimFits(w)'
        <4>1. CASE at[w] # j
          BY <1>1, <3>1, <4>1 DEF ClaimInv, ClaimFits, TypeInv, TypeOK, AtWork
        <4>2. CASE at[w] = j /\ step[w] # "idle" /\ holder[j] = w
          <5>1. StepFits(step[w], "submitting", cid[j], started[j]) /\ ~cid[j]
            BY <2>1, <4>2 DEF ClaimInv, ClaimFits, MkdirInFlight
          <5>2. ~started[j]
            BY <5>1 DEF RowInv, RowOK
          <5>3. StepFits(step[w], "cancelling", cid[j], started[j])
            BY <5>1, <5>2 DEF StepFits, CleanupWrites
          <5>4. status'[j] = "cancelling"
            BY <3>1 DEF TypeInv, TypeOK
          <5> QED BY <1>1, <3>1, <4>2, <5>3, <5>4 DEF ClaimFits
        <4> QED BY <1>1, <3>1, <4>1, <4>2 DEF ClaimFits
      <3> QED BY <3>2 DEF ClaimInv
    <2>2. CASE ~MkdirInFlight(j)
      <3>1. /\ holder' = [holder EXCEPT ![j] = Nobody]
            /\ \A i \in Jobs \ {j} : status'[i] = status[i]
        BY <1>4, <2>2 DEF CancelJob, ClearClaim, TypeInv, TypeOK
      <3> QED BY <1>1, <3>1, ClaimsKept, RowsAssumption
              DEF ClaimUntouched, ClaimFits, ClaimInv, TypeInv, TypeOK, AtWork
    <2> QED BY <2>1, <2>2
  <1>5. ASSUME NEW j \in Jobs, RequestCleanup(j) PROVE ClaimInv'
    <2>1. /\ holder' = [holder EXCEPT ![j] = Nobody]
          /\ \A i \in Jobs \ {j} : status'[i] = status[i]
      BY <1>5 DEF RequestCleanup, Move, ClearClaim, TypeInv, TypeOK
    <2> QED BY <1>1, <2>1, ClaimsKept, RowsAssumption
            DEF ClaimUntouched, ClaimFits, ClaimInv, TypeInv, TypeOK, AtWork
  <1>6. ASSUME NEW j \in Jobs, SelectMedia(j) PROVE ClaimInv'
    <2>1. /\ holder' = holder /\ status[j] = "awaiting_selection"
          /\ \A i \in Jobs \ {j} : status'[i] = status[i]
      BY <1>6 DEF SelectMedia, Move, KeepClaim, TypeInv, TypeOK
    <2>2. \A w \in Workers : ~(step[w] # "idle" /\ at[w] = j /\ holder[j] = w)
      BY <2>1 DEF ClaimInv, ClaimFits, StepFits, TypeInv, TypeOK, Steps, Calls, FencedWrites,
                  QueueWrites
    <2> QED BY <1>1, <2>1, <2>2 DEF ClaimFits, ClaimInv, TypeInv, AtWork
  <1>7. ASSUME NEW k \in Keys, NEW s \in Sources, JoinJob(k, s) PROVE UNCHANGED <<status, holder>>
    BY <1>7 DEF JoinJob
  <1>8. ASSUME NEW j \in Jobs, AcquireLease(j) \/ EndLease(j) PROVE UNCHANGED <<status, holder>>
    BY <1>8 DEF AcquireLease, EndLease
  <1> QED BY <1>2, <1>3, <1>4, <1>5, <1>6, <1>7, <1>8 DEF ApiNext

LEMMA NextKeepsClaimInv ==
    ASSUME TypeInv, RowInv, ClaimInv, [Next]_vars
    PROVE  ClaimInv'
  <1>1. CASE EnvironmentNext \/ UNCHANGED vars
    <2>1. UNCHANGED <<status, cid, started, holder, step, at>>
      BY <1>1 DEF EnvironmentNext, ExpireClaim, PollFallsDue, TaskEnds, Vanish, vars, ledger,
                  progress, claims, control
    <2> QED BY <2>1 DEF ClaimInv, ClaimFits
  <1> QED BY <1>1, ApiKeepsClaimInv, QueueKeepsClaimInv, CallsKeepClaimInv,
             CleanupKeepsClaimInv DEF Next, WorkerNext

LEMMA ClaimsStayFit == Spec => [](TypeInv /\ RowInv /\ ClaimInv)
  <1>1. Init => TypeInv /\ RowInv /\ ClaimInv
    BY InitTypeInv, InitRowInv DEF Init, ClaimInv, ClaimFits
  <1>2. TypeInv /\ RowInv /\ ClaimInv /\ [Next]_vars => (TypeInv /\ RowInv /\ ClaimInv)'
    BY NextKeepsTypeInv, NextKeepsRowInv, NextKeepsClaimInv
  <1> QED BY <1>1, <1>2, PTL DEF Spec

\* A worker that holds its claim never meets InvalidCacheJobTransition, which
\* the resolver and the cleanup worker do not catch (worker/claim.py,
\* cleanup.py): whatever other workers and the API did meanwhile, the row
\* allows what the worker is about to write.
THEOREM ClaimHoldersCanWrite == Spec => []ClaimHolderCanWrite
  <1>1. ASSUME RowInv, ClaimInv, NEW w \in Workers, Holds(w),
               step[w] \in QueueWrites
        PROVE  RowAllows(w) /\ TransitionAllowed(w)
    <2>1. StepFits(step[w], status[at[w]], cid[at[w]], started[at[w]]) /\ RowOK(at[w])
      BY <1>1 DEF ClaimInv, ClaimFits, Holds, QueueWrites, RowInv
    <2>2. RowAllows(w)
      BY <2>1 DEF StepFits, RowAllows, RowOK
    <2>3. TransitionAllowed(w)
      BY <2>1 DEF StepFits, TransitionAllowed, WriteTarget, LegalTargets
    <2> QED BY <2>2, <2>3
  <1>2. ASSUME ClaimInv, NEW w \in Workers, Holds(w), step[w] \in CleanupWrites
        PROVE  status[at[w]] = "cleaning"
    BY <1>2 DEF ClaimInv, ClaimFits, Holds, StepFits, CleanupWrites
  <1>3. RowInv /\ ClaimInv => ClaimHolderCanWrite
    BY <1>1, <1>2 DEF ClaimHolderCanWrite
  <1> QED BY <1>3, ClaimsStayFit, PTL

\* A job whose cancellation was confirmed before its submission started is
\* never submitted: mark_submit_started does not look at the status, but its
\* writer would have lost the claim (cancellation.py, worker/claim.py).
THEOREM CancelledStaysUnsubmitted == Spec => CancelledIsNeverSubmitted
  <1>1. ASSUME TypeInv, RowInv, ClaimInv, [Next]_vars, NEW j \in Jobs,
               status[j] \in {"cancelling", "cleaning", "cleanup_failed"}, ~started[j]
        PROVE  ~started'[j]
    <2>1. ASSUME NEW w \in Workers, MarkSubmitStarted(w) PROVE ~started'[j]
      <3>1. /\ step[w] = "mark_submit_started" /\ Holds(w)
            /\ started' = [started EXCEPT ![at[w]] = TRUE]
        BY <2>1 DEF MarkSubmitStarted, Accepted
      <3>2. status[at[w]] = "submitting"
        BY <1>1, <3>1 DEF ClaimInv, ClaimFits, StepFits, Holds
      <3>3. at[w] # j
        BY <1>1, <3>2
      <3>4. started'[j] = started[j]
        BY <1>1, <3>1, <3>3 DEF TypeInv, TypeOK
      <3> QED BY <1>1, <3>4
    <2>2. CASE ~\E w \in Workers : MarkSubmitStarted(w)
      <3>1. CASE ApiNext \/ EnvironmentNext \/ UNCHANGED vars
        BY <1>1, <3>1 DEF ApiNext, JoinJob, CreateJob, CancelJob, RequestCleanup, SelectMedia,
               AcquireLease, EndLease, EnvironmentNext, ExpireClaim, PollFallsDue, TaskEnds,
               Vanish, vars, progress
      <3>2. ASSUME NEW w \in Workers, QueueNext(w), ~MarkSubmitStarted(w)
            PROVE started' = started
        BY <3>2 DEF QueueNext, ClaimNext, StartQueued, ClaimResolving,
               SaveTaskDirectory, SaveCancelTarget, ResolutionMovieNumber, SaveSubmission,
               MarkSubmitUncertain, MoveAndRelease, CompleteCancel, KeepWaiting, WriteRefused,
               progress
      <3>3. ASSUME NEW w \in Workers, \/ OfflineNext(w) \/ ResolverNext(w) \/ CleanupNext(w)
                                      \/ PassTurn(w) \/ Crash(w)
            PROVE started' = started
        BY <3>3 DEF OfflineNext, Mkdir, LoadSubmissionPayload, SubmitOffline,
               FindByTaskDirectory, FindCancelTarget, CancelOffline, Poll, RowsUnchanged,
               ResolverNext, Inspect, Reject, CleanupNext, ClaimCleaning, Evict,
               VerifyOwnership, Delete, EndAttempt, Release, CleanupRefused, PassTurn, Crash,
               progress
      <3> QED BY <1>1, <2>2, <3>1, <3>2, <3>3 DEF Next, WorkerNext
    <2> QED BY <2>1, <2>2
  <1>2. TypeInv /\ RowInv /\ ClaimInv /\ [Next]_vars =>
          [\A j \in Jobs :
             status[j] \in {"cancelling", "cleaning", "cleanup_failed"}
               /\ ~started[j] => ~started'[j]]_vars
    BY <1>1
  <1> QED BY <1>2, ClaimsStayFit, PTL DEF Spec, CancelledIsNeverSubmitted

-----------------------------------------------------------------------------
(* With one worker process nothing is left at 115 of a job that is cleaned. *)

\* The download of a job runs only while the job may still look for it.
TaskFits(j) ==
    task[j] = "running" =>
        /\ started[j]
        /\ status[j] \in {"submitting", "submit_uncertain", "offlining", "cancelling", "failed"}

\* A directory is remembered by the row, or by the claim it was made under.
DirFits(j) ==
    dir[j] =>
        /\ status[j] \notin {"cleaned", "queued", Absent}
        /\ cid[j] \/ status[j] = "failed" \/ lease[j] # "none"

\* What the worker does next fits what is at 115, even if its claim was lost.
WorkFits(w) ==
    /\ step[w] \in {"mkdir", "save_task_directory"} => holder[at[w]] = w
    /\ step[w] = "submit_offline" =>
         started[at[w]] /\ status[at[w]] \in {"submitting", "cancelling"}
    /\ step[w] \in {"find_cancel_target", "save_cancel_target", "cancel_offline",
                    "complete_cancel"} => cid[at[w]]
    /\ step[w] \in {"complete_cancel", "record_completed"} => task[at[w]] # "running"
    /\ step[w] = "succeed" => ~dir[at[w]]

LeftInv ==
    /\ \A j \in Jobs : TaskFits(j) /\ DirFits(j)
    /\ \A w \in Workers : WorkFits(w)

\* A step of the one worker, or of the API, that concerns one job.
LEMMA OneJobLeft ==
    ASSUME TypeInv, LeftInv, NEW j \in Jobs,
           \A i \in Jobs \ {j} :
             /\ status'[i] = status[i] /\ cid'[i] = cid[i] /\ started'[i] = started[i]
             /\ lease'[i] = lease[i] /\ task'[i] = task[i] /\ dir'[i] = dir[i],
           TaskFits(j)', DirFits(j)', \A w \in Workers : WorkFits(w)'
    PROVE  LeftInv'
  BY DEF LeftInv, TaskFits, DirFits

OnlyWorks(w) == \A v \in Workers \ {w} : step'[v] = "idle"

LEMMA IdleFits == \A w \in Workers : step'[w] = "idle" => WorkFits(w)'
  BY DEF WorkFits

LEMMA ClaimKeepsLeftInv ==
    ASSUME TypeInv, RowInv, LeftInv, NEW w \in Workers, OnlyWorks(w), NEW j \in Jobs,
           NEW x \in Steps, Claim(w, j), step' = [step EXCEPT ![w] = x],
           UNCHANGED <<cid, started, dir, task>>,
           NEW t \in Statuses, status' = [status EXCEPT ![j] = t],
           \/ t = status[j]
           \/ status[j] = "queued" /\ t = "submitting"
           \/ status[j] \in {"awaiting_selection", "ready"} /\ t = "cleaning",
           x \in {"find_cancel_target", "cancel_offline", "complete_cancel"} => cid[j],
           x = "complete_cancel" => ~started[j],
           x \notin {"save_task_directory", "submit_offline", "save_cancel_target",
                    "record_completed", "succeed"}
    PROVE  LeftInv'
  <1>1. /\ status'[j] = t /\ lease'[j] = "live" /\ holder'[j] = w /\ at'[w] = j /\ step'[w] = x
        /\ \A i \in Jobs \ {j} : status'[i] = status[i] /\ lease'[i] = lease[i]
    BY DEF Claim, TypeInv, TypeOK
  <1>2. TaskFits(j) /\ DirFits(j) /\ RowOK(j)
    BY DEF LeftInv, RowInv
  <1>3. TaskFits(j)' /\ DirFits(j)'
    BY <1>1, <1>2 DEF TaskFits, DirFits, RowOK, Absent
  <1>4. WorkFits(w)'
    BY <1>1, <1>2 DEF WorkFits, TaskFits
  <1> QED BY <1>1, <1>3, <1>4, IdleFits, OneJobLeft DEF OnlyWorks

\* A write of the holder that ends its turn.
LEMMA ReleaseKeepsLeftInv ==
    ASSUME TypeInv, LeftInv, NEW w \in Workers, OnlyWorks(w), NEW j \in Jobs,
           Finish(w), UNCHANGED <<cid, started, dir, task>>,
           \A i \in Jobs \ {j} : status'[i] = status[i] /\ lease'[i] = lease[i],
           status'[j] = status[j] \/ status'[j] \notin {"cleaned", "queued", Absent} \/ ~dir[j],
           cid[j] \/ lease'[j] = lease[j] \/ status'[j] = "failed",
           \/ task[j] # "running" \/ status'[j] = status[j]
           \/ status'[j] \in {"submit_uncertain", "offlining", "failed"},
           status[j] = "failed" => status'[j] = "failed"
    PROVE  LeftInv'
  <1>1. step'[w] = "idle"
    BY DEF Finish, TypeInv, TypeOK
  <1>2. TaskFits(j) /\ DirFits(j)
    BY DEF LeftInv
  <1>3. TaskFits(j)'
    BY <1>2 DEF TaskFits
  <1>4. DirFits(j)'
    BY <1>2 DEF DirFits
  <1> QED BY <1>1, <1>3, <1>4, IdleFits, OneJobLeft DEF OnlyWorks

LEMMA QueueKeepsLeftInv ==
    ASSUME TypeInv, RowInv, ClaimInv, LeftInv, NEW w \in Workers, OnlyWorks(w), QueueNext(w)
    PROVE  LeftInv'
  <1> USE DEF ledger, progress, claims, remote, control
  <1> DEFINE j == at[w]
  <1>0. WorkFits(w)
    BY DEF LeftInv
  <1>1. CASE ClaimNext(w)
    <2>1. PICK i \in FirstClaimable :
            /\ Claim(w, i)
            /\ \E x \in FirstSteps(i, DispatchStep(i)) :
                  step' = [step EXCEPT ![w] = x]
      BY <1>1 DEF ClaimNext
    <2>2. i \in Jobs /\ status[i] \in {"submitting", "offlining", "cancelling"} /\ RowOK(i)
      BY DEF FirstClaimable, Claimable, Oldest, RowInv
    <2>3. PICK x \in FirstSteps(i, DispatchStep(i)) :
            step' = [step EXCEPT ![w] = x]
      BY <2>1
    <2>4. x \in Steps
      BY <2>2, <2>3, StepsNamed
    <2>5. x \in {"fail", "defer"} \/ x = DispatchStep(i)
      BY <2>3 DEF FirstSteps, Problem
    <2>6. /\ x \in {"find_cancel_target", "cancel_offline", "complete_cancel"} => cid[i]
          /\ x = "complete_cancel" => ~started[i]
          /\ x \notin {"save_task_directory", "submit_offline", "save_cancel_target",
                       "record_completed", "succeed"}
      BY <2>2, <2>5 DEF DispatchStep, CancelStep, SubmitStep, RowOK
    <2>7. status' = [status EXCEPT ![i] = status[i]] /\ status[i] \in Statuses
      BY <1>1, <2>2 DEF ClaimNext, TypeInv, TypeOK, Absent
    <2>8. UNCHANGED <<cid, started, dir, task>>
      BY <1>1 DEF ClaimNext
    <2> QED BY <2>1, <2>2, <2>3, <2>4, <2>6, <2>7, <2>8, ClaimKeepsLeftInv
  <1>2. CASE StartQueued(w)
    <2>1. PICK i \in Oldest(Queued) :
            /\ Move(i, "submitting")
            /\ Claim(w, i)
            /\ \E x \in FirstSteps(i, SubmitStep(i)) :
                  step' = [step EXCEPT ![w] = x]
      BY <1>2 DEF StartQueued
    <2>2. i \in Jobs /\ status[i] = "queued"
      BY DEF Oldest, Queued
    <2>3. PICK x \in FirstSteps(i, SubmitStep(i)) :
            step' = [step EXCEPT ![w] = x]
      BY <2>1
    <2>4. x \in Steps
      BY <2>2, <2>3, StepsNamed
    <2>5. x \in {"fail", "defer", "mkdir", "find_by_task_directory", "load_submission_payload"}
      BY <2>3 DEF FirstSteps, Problem, SubmitStep
    <2>6. status' = [status EXCEPT ![i] = "submitting"] /\ "submitting" \in Statuses
      BY <2>1 DEF Move, Statuses, Active, RunningStatuses
    <2>7. UNCHANGED <<cid, started, dir, task>>
      BY <1>2 DEF StartQueued
    <2> QED BY <2>1, <2>2, <2>3, <2>4, <2>5, <2>6, <2>7, ClaimKeepsLeftInv
  <1>3. CASE ClaimResolving(w)
    <2>1. PICK i \in Oldest(Resolvable) :
            /\ Claim(w, i)
            /\ step' = [step EXCEPT ![w] = IF source[i] \in rejected
                          THEN "fail" ELSE "resolution_movie_number"]
      BY <1>3 DEF ClaimResolving
    <2>2. i \in Jobs /\ status[i] = "resolving"
      BY DEF Oldest, Resolvable
    <2>3. PICK x \in {"fail", "resolution_movie_number"} :
            step' = [step EXCEPT ![w] = x]
      BY <2>1
    <2>4. x \in Steps
      BY DEF Steps, FencedWrites, QueueWrites
    <2>5. status' = [status EXCEPT ![i] = status[i]] /\ status[i] \in Statuses
      BY <1>3, <2>2 DEF ClaimResolving, TypeInv, TypeOK, Absent
    <2>6. UNCHANGED <<cid, started, dir, task>>
      BY <1>3 DEF ClaimResolving
    <2> QED BY <2>1, <2>2, <2>3, <2>4, <2>5, <2>6, ClaimKeepsLeftInv
  <1>4. ASSUME Holds(w), step[w] # "idle", NEW x \in Steps, step' = [step EXCEPT ![w] = x],
               UNCHANGED <<status, lease, holder, dir, task, at>>,
               started' = started \/ started' = [started EXCEPT ![j] = TRUE],
               cid' = cid \/ cid' = [cid EXCEPT ![j] = TRUE],
               x \in {"complete_cancel", "cancel_offline"} => cid'[j],
               x = "complete_cancel" => ~started[j],
               x = "submit_offline" => started'[j] /\ status[j] = "submitting",
               x \notin {"mkdir", "save_task_directory", "find_cancel_target",
                        "save_cancel_target", "record_completed", "succeed"}
        PROVE  LeftInv'
    <2>1. j \in Jobs /\ TaskFits(j) /\ DirFits(j)
      BY <1>4 DEF Holds, LeftInv
    <2>2. (started[j] => started'[j]) /\ (cid[j] => cid'[j])
          /\ \A i \in Jobs \ {j} : started'[i] = started[i] /\ cid'[i] = cid[i]
      BY <1>4, <2>1 DEF TypeInv, TypeOK
    <2>3. TaskFits(j)' /\ DirFits(j)'
      BY <1>4, <2>1, <2>2 DEF TaskFits, DirFits
    <2>4. step'[w] = x /\ at'[w] = j
      BY <1>4 DEF TypeInv, TypeOK
    <2>5. WorkFits(w)'
      BY <1>4, <2>1, <2>2, <2>4 DEF WorkFits, TaskFits
    <2> QED BY <1>4, <2>1, <2>2, <2>3, <2>5, IdleFits, OneJobLeft DEF OnlyWorks
  <1>5. CASE SaveTaskDirectory(w)
    <2>1. /\ Holds(w) /\ step[w] = "save_task_directory" /\ j \in Jobs
          /\ cid' = [cid EXCEPT ![j] = TRUE]
          /\ step' = [step EXCEPT ![w] = AfterDirectory(j)]
          /\ UNCHANGED <<status, started, lease, holder, dir, task, at>>
      BY <1>5 DEF SaveTaskDirectory, Accepted, Holds, KeepClaim, Continue
    <2>2. ~started[j]
      BY <2>1 DEF ClaimInv, ClaimFits, StepFits, Holds, RowInv, RowOK
    <2>3. cid'[j]
      BY <2>1 DEF TypeInv, TypeOK
    <2>4. AfterDirectory(j) \in {"complete_cancel", "load_submission_payload"}
      BY DEF AfterDirectory
    <2> QED BY <1>4, <2>1, <2>2, <2>3, <2>4, StepsNamed
  <1>6. CASE MarkSubmitStarted(w)
    <2>1. /\ Holds(w) /\ step[w] = "mark_submit_started" /\ j \in Jobs
          /\ started' = [started EXCEPT ![j] = TRUE]
          /\ step' = [step EXCEPT ![w] = "submit_offline"]
          /\ UNCHANGED <<status, cid, lease, holder, dir, task, at>>
      BY <1>6 DEF MarkSubmitStarted, Accepted, Holds, KeepClaim, Continue
    <2>2. status[j] = "submitting"
      BY <2>1 DEF ClaimInv, ClaimFits, StepFits, Holds
    <2>3. "submit_offline" \in Steps /\ started'[j]
      BY <2>1 DEF TypeInv, TypeOK, Steps, Calls
    <2> QED BY <1>4, <2>1, <2>2, <2>3
  <1>7. CASE SaveCancelTarget(w) \/ ResolutionMovieNumber(w)
    <2>1. PICK x \in {"cancel_offline", "inspect"} :
            /\ step' = [step EXCEPT ![w] = x]
            /\ x = "cancel_offline" => step[w] = "save_cancel_target"
      BY <1>7 DEF SaveCancelTarget, ResolutionMovieNumber, Continue
    <2>2. /\ Holds(w) /\ step[w] # "idle"
          /\ UNCHANGED <<status, cid, started, lease, holder, dir, task, at>>
      BY <1>7 DEF SaveCancelTarget, ResolutionMovieNumber, Accepted, KeepClaim, Continue
    <2>3. x = "cancel_offline" => cid'[j]
      BY <1>0, <2>1, <2>2 DEF WorkFits
    <2>4. x \in Steps
      BY DEF Steps, Calls
    <2> QED BY <1>4, <2>1, <2>2, <2>3, <2>4
  <1>8. CASE \/ SaveSubmission(w) \/ MarkSubmitUncertain(w) \/ MoveAndRelease(w)
            \/ CompleteCancel(w) \/ KeepWaiting(w)
    <2>1. /\ Accepted(w) /\ Holds(w) /\ j \in Jobs /\ RowOK(j) /\ TaskFits(j) /\ Finish(w)
          /\ UNCHANGED <<cid, started, dir, task>>
          /\ StepFits(step[w], status[j], cid[j], started[j])
      BY <1>8 DEF SaveSubmission, MarkSubmitUncertain, MoveAndRelease, CompleteCancel,
                  KeepWaiting, Accepted, Holds, RowInv, LeftInv, ClaimInv, ClaimFits
    <2>2. \A i \in Jobs \ {j} : status'[i] = status[i] /\ lease'[i] = lease[i]
      BY <1>8 DEF SaveSubmission, MarkSubmitUncertain, MoveAndRelease, CompleteCancel,
                  KeepWaiting, Move, KeepClaim, ClearClaim, TypeInv, TypeOK
    <2>3. CASE SaveSubmission(w) \/ MarkSubmitUncertain(w)
      <3>1. status'[j] \in {"offlining", "submit_uncertain"} /\ cid[j]
            /\ status[j] = "submitting"
        BY <2>1, <2>3 DEF SaveSubmission, MarkSubmitUncertain, Move, RowAllows, Accepted,
                          StepFits, TypeInv, TypeOK
      <3> QED BY <2>1, <2>2, <3>1, ReleaseKeepsLeftInv DEF Absent
    <2>4. CASE MoveAndRelease(w)
      <3>1. PICK t : t = WriteTarget[step[w]]
        OBVIOUS
      <3>2. status'[j] = t
        BY <2>1, <2>4, <3>1 DEF MoveAndRelease, Move, TypeInv, TypeOK
      <3>3. CASE step[w] \in {"record_failed", "fail"}
        <4>1. t = "failed"
          BY <3>1, <3>3 DEF WriteTarget
        <4> QED BY <2>1, <2>2, <3>2, <4>1, ReleaseKeepsLeftInv DEF Absent
      <3>4. CASE step[w] = "record_completed"
        <4>1. t = "resolving" /\ status[j] = "offlining" /\ cid[j] /\ task[j] # "running"
          BY <1>0, <2>1, <3>1, <3>4 DEF WriteTarget, StepFits, RowOK, WorkFits
        <4> QED BY <2>1, <2>2, <3>2, <4>1, ReleaseKeepsLeftInv DEF Absent
      <3>5. CASE step[w] \in {"detach", "complete_ready", "complete_choice"}
        <4>1. /\ t \in {"detached", "ready", "awaiting_selection"}
              /\ status[j] = "resolving" /\ cid[j] /\ task[j] # "running"
          BY <2>1, <3>1, <3>5 DEF WriteTarget, StepFits, RowOK, TaskFits
        <4> QED BY <2>1, <2>2, <3>2, <4>1, ReleaseKeepsLeftInv DEF Absent
      <3> QED BY <2>4, <3>3, <3>4, <3>5 DEF MoveAndRelease
    <2>5. CASE CompleteCancel(w)
      <3>1. cid[j] /\ task[j] # "running" /\ status[j] = "cancelling"
        BY <1>0, <2>1, <2>5 DEF CompleteCancel, WorkFits, StepFits
      <3>2. status'[j] = "cleaning"
        BY <2>1, <2>5, <3>1 DEF CompleteCancel, TypeInv, TypeOK
      <3> QED BY <2>1, <2>2, <3>1, <3>2, ReleaseKeepsLeftInv DEF Absent
    <2>6. CASE KeepWaiting(w)
      <3>1. status' = status /\ lease' = lease
        BY <2>6 DEF KeepWaiting, KeepClaim
      <3> QED BY <2>1, <2>2, <3>1, ReleaseKeepsLeftInv
    <2> QED BY <1>8, <2>3, <2>4, <2>5, <2>6
  <1>9. CASE WriteRefused(w)
    <2>1. step'[w] = "idle" /\ UNCHANGED <<status, cid, started, lease, dir, task>>
      BY <1>9 DEF WriteRefused, Finish, TypeInv, TypeOK
    <2> QED BY <2>1, IdleFits DEF OnlyWorks, LeftInv, TaskFits, DirFits
  <1> QED BY <1>1, <1>2, <1>3, <1>5, <1>6, <1>7, <1>8, <1>9 DEF QueueNext

LEMMA CallsKeepLeftInv ==
    ASSUME TypeInv, RowInv, ClaimInv, LeftInv, NEW w \in Workers, OnlyWorks(w),
           OfflineNext(w) \/ ResolverNext(w) \/ PassTurn(w) \/ Crash(w)
    PROVE  LeftInv'
  <1> DEFINE j == at[w]
  <1>0. WorkFits(w)
    BY DEF LeftInv
  <1>1. UNCHANGED <<status, cid, started, hash, lease, holder>>
    BY DEF OfflineNext, Mkdir, LoadSubmissionPayload, SubmitOffline, FindByTaskDirectory,
           FindCancelTarget, CancelOffline, Poll, RowsUnchanged, ResolverNext, Inspect,
           Reject, PassTurn, Crash, ledger, progress, claims
  <1>2. CASE PassTurn(w) \/ Crash(w)
    <2>1. step'[w] = "idle" /\ UNCHANGED <<dir, task>>
      BY <1>2 DEF PassTurn, Crash, Finish, remote, TypeInv, TypeOK
    <2> QED BY <1>1, <2>1, IdleFits DEF OnlyWorks, LeftInv, TaskFits, DirFits
  <1>3. ASSUME step[w] # "idle", UNCHANGED at,
               \/ dir' = dir
               \/ step[w] = "mkdir" /\ dir' = [dir EXCEPT ![j] = TRUE],
               \/ task' = task
               \/ step[w] = "submit_offline" /\ task' = [task EXCEPT ![j] = "running"]
               \/ task' = [task EXCEPT ![j] = "none"],
               NEW x \in Steps, step' = [step EXCEPT ![w] = x],
               x = "save_task_directory" => step[w] = "mkdir",
               x \in {"complete_cancel", "save_cancel_target"} => cid[j],
               x \in {"complete_cancel", "record_completed"} => task'[j] # "running",
               x \notin {"mkdir", "submit_offline", "find_cancel_target", "cancel_offline",
                        "succeed"}
        PROVE  LeftInv'
    <2>1. j \in Jobs /\ TaskFits(j) /\ DirFits(j) /\ RowOK(j)
      BY <1>3 DEF LeftInv, RowInv, TypeInv, AtWork
    <2>2. TaskFits(j)'
      BY <1>0, <1>1, <1>3, <2>1 DEF TaskFits, WorkFits, TypeInv, TypeOK
    <2>3. ASSUME dir' # dir PROVE lease[j] # "none" /\ status[j] \in {"submitting", "cancelling"}
      <3>1. holder[j] = w /\ step[w] = "mkdir"
        BY <1>0, <1>3, <2>3 DEF WorkFits
      <3>2. status[j] \in {"submitting", "cancelling"}
        BY <3>1 DEF ClaimInv, ClaimFits, StepFits
      <3> QED BY <2>1, <3>1, <3>2, RowsAssumption DEF RowOK
    <2>4. DirFits(j)'
      <3>1. CASE dir' = dir
        BY <1>1, <1>3, <2>1, <3>1 DEF DirFits
      <3>2. CASE dir' # dir
        BY <1>1, <1>3, <2>3, <3>2 DEF DirFits, Absent
      <3> QED BY <3>1, <3>2
    <2>5. step'[w] = x
      BY <1>3 DEF TypeInv, TypeOK
    <2>6. WorkFits(w)'
      BY <1>0, <1>1, <1>3, <2>5 DEF WorkFits
    <2>7. \A i \in Jobs \ {j} : task'[i] = task[i] /\ dir'[i] = dir[i]
      BY <1>3 DEF TypeInv, TypeOK
    <2>8. \A v \in Workers : WorkFits(v)'
      BY <2>6, IdleFits DEF OnlyWorks
    <2> QED BY <1>1, <1>3, <2>1, <2>2, <2>4, <2>7, <2>8, OneJobLeft
  <1> DEFINE Names == {"save_task_directory", "mark_submit_started", "save_submission",
                       "find_by_task_directory", "mark_submit_uncertain", "reject", "fail",
                       "defer", "complete_cancel", "save_cancel_target", "record_running",
                       "record_completed", "record_failed", "complete_ready",
                       "complete_choice", "detach"}
  <1>6. Names \subseteq Steps
    BY DEF Steps, Calls, FencedWrites, QueueWrites
  <1>4. CASE OfflineNext(w)
    <2> USE DEF Calling, Continue, Problem
    <2>1. CASE Mkdir(w) \/ LoadSubmissionPayload(w)
      <3>1. PICK x \in {"save_task_directory", "mark_submit_started", "fail", "defer"} :
              /\ step' = [step EXCEPT ![w] = x]
              /\ x = "save_task_directory" => step[w] = "mkdir"
        BY <2>1 DEF Mkdir, LoadSubmissionPayload
      <3>2. /\ step[w] # "idle" /\ at' = at /\ task' = task
            /\ \/ dir' = dir
               \/ step[w] = "mkdir" /\ dir' = [dir EXCEPT ![j] = TRUE]
        BY <2>1 DEF Mkdir, LoadSubmissionPayload, remote
      <3> QED BY <1>3, <1>6, <3>1, <3>2
    <2>2. CASE SubmitOffline(w)
      <3>1. PICK x \in {"save_submission", "find_by_task_directory", "reject", "fail", "defer"} :
              step' = [step EXCEPT ![w] = x]
        BY <2>2 DEF SubmitOffline
      <3>2. /\ step[w] = "submit_offline" /\ at' = at /\ dir' = dir
            /\ task' = task \/ task' = [task EXCEPT ![j] = "running"]
        BY <2>2 DEF SubmitOffline
      <3> QED BY <1>3, <1>6, <3>1, <3>2
    <2>3. CASE FindByTaskDirectory(w)
      <3>1. PICK x \in {"mark_submit_uncertain", "save_submission", "fail", "defer"} :
              step' = [step EXCEPT ![w] = x]
        BY <2>3 DEF FindByTaskDirectory
      <3>2. step[w] # "idle" /\ at' = at /\ dir' = dir /\ task' = task
        BY <2>3 DEF FindByTaskDirectory, remote
      <3> QED BY <1>3, <1>6, <3>1, <3>2
    <2>4. CASE FindCancelTarget(w)
      <3>1. cid[j] /\ step[w] = "find_cancel_target"
        BY <1>0, <2>4 DEF FindCancelTarget, WorkFits
      <3>2. PICK x \in {"complete_cancel", "save_cancel_target", "fail", "defer"} :
              /\ step' = [step EXCEPT ![w] = x]
              /\ x = "complete_cancel" => task[j] = "none"
        BY <2>4 DEF FindCancelTarget
      <3>3. at' = at /\ dir' = dir /\ task' = task
        BY <2>4 DEF FindCancelTarget, remote
      <3> QED BY <1>3, <1>6, <3>1, <3>2, <3>3
    <2>5. CASE CancelOffline(w)
      <3>1. cid[j] /\ step[w] = "cancel_offline" /\ j \in Jobs
        BY <1>0, <2>5 DEF CancelOffline, WorkFits, TypeInv, AtWork
      <3>2. PICK x \in {"complete_cancel", "fail", "defer"} :
              /\ step' = [step EXCEPT ![w] = x]
              /\ x = "complete_cancel" => task'[j] = "none"
        BY <2>5, <3>1 DEF CancelOffline, TypeInv, TypeOK
      <3>3. /\ at' = at /\ dir' = dir
            /\ task' = task \/ task' = [task EXCEPT ![j] = "none"]
        BY <2>5 DEF CancelOffline
      <3> QED BY <1>3, <1>6, <3>1, <3>2, <3>3
    <2>6. CASE Poll(w)
      <3>1. j \in Jobs /\ task[j] \in Tasks /\ step[w] = "poll"
        BY <2>6 DEF Poll, TypeInv, TypeOK, AtWork
      <3>2. PICK x : /\ x = Recording[task[j]] \/ x \in {"fail", "defer"}
                     /\ step' = [step EXCEPT ![w] = x]
        BY <2>6 DEF Poll
      <3>3. /\ x \in {"fail", "defer", "record_running", "record_completed", "record_failed"}
            /\ x = "record_completed" => task[j] # "running"
        BY <3>1, <3>2 DEF Recording, Tasks
      <3>4. at' = at /\ dir' = dir /\ task' = task
        BY <2>6 DEF Poll, remote
      <3> QED BY <1>3, <1>6, <3>1, <3>2, <3>3, <3>4
    <2> QED BY <1>4, <2>1, <2>2, <2>3, <2>4, <2>5, <2>6 DEF OfflineNext
  <1>5. CASE ResolverNext(w)
    <2>1. PICK x \in {"complete_ready", "complete_choice", "fail", "detach", "reject", "defer"} :
            step' = [step EXCEPT ![w] = x]
      BY <1>5 DEF ResolverNext, Inspect, Reject, Continue, Problem
    <2>2. step[w] # "idle" /\ at' = at /\ dir' = dir /\ task' = task
      BY <1>5 DEF ResolverNext, Inspect, Reject, Continue, remote
    <2> QED BY <1>3, <1>6, <2>1, <2>2
  <1> QED BY <1>2, <1>4, <1>5

LEMMA CleanupKeepsLeftInv ==
    ASSUME TypeInv, RowInv, ClaimInv, LeftInv, NEW w \in Workers, OnlyWorks(w), CleanupNext(w)
    PROVE  LeftInv'
  <1> USE DEF ledger, progress, claims, remote, control
  <1> DEFINE j == at[w]
  <1>0. WorkFits(w)
    BY DEF LeftInv
  <1>1. CASE ClaimCleaning(w) \/ Evict(w)
    <2>1. PICK i \in Jobs :
            /\ Attempt(w, i) /\ status' = [status EXCEPT ![i] = "cleaning"]
            /\ status[i] \in {"cleaning", "awaiting_selection", "ready"}
      BY <1>1 DEF ClaimCleaning, Evict, Cleanable, Evictable, Move, TypeInv, TypeOK
    <2>2. PICK x \in {"verify_ownership", "cleanup_fail", "cleanup_detach"} :
            step' = [step EXCEPT ![w] = x]
      BY <2>1 DEF Attempt, Mismatch, CleanupProblem
    <2>3. x \in Steps /\ "cleaning" \in Statuses
      BY DEF Steps, Calls, FencedWrites, CleanupWrites, Statuses, Active, ReadyStatuses
    <2>4. UNCHANGED <<cid, started, dir, task>> /\ Claim(w, i)
      BY <1>1, <2>1 DEF ClaimCleaning, Evict, Attempt
    <2> QED BY <2>1, <2>2, <2>3, <2>4, ClaimKeepsLeftInv
  <1>2. CASE VerifyOwnership(w) \/ Delete(w)
    <2>1. /\ UNCHANGED <<status, cid, started, lease, holder, at, task>>
          /\ step[w] \in {"verify_ownership", "delete"}
          /\ dir' = dir \/ dir' = [dir EXCEPT ![j] = FALSE]
      BY <1>2 DEF VerifyOwnership, Delete, Continue
    <2>2. j \in Jobs
      BY <2>1 DEF TypeInv, AtWork
    <2>3. PICK x : /\ step' = [step EXCEPT ![w] = x]
                   /\ x \in {"delete", "succeed", "cleanup_fail", "fail_busy", "release",
                             "cleanup_detach"}
                   /\ x = "succeed" => ~dir'[j]
      BY <1>2, <2>2 DEF VerifyOwnership, Delete, Mismatch, Busy, AfterBusy, CleanupProblem,
                  Continue, TypeInv, TypeOK
    <2>4. \A i \in Jobs : dir'[i] => dir[i]
      BY <2>1 DEF TypeInv, TypeOK
    <2>5. step'[w] = x
      BY <2>3 DEF TypeInv, TypeOK
    <2>6. WorkFits(w)'
      BY <2>1, <2>3, <2>5 DEF WorkFits
    <2> QED BY <2>1, <2>4, <2>6, IdleFits DEF OnlyWorks, LeftInv, TaskFits, DirFits
  <1>3. CASE EndAttempt(w) \/ Release(w)
    <2>1. /\ j \in Jobs /\ RowOK(j) /\ TaskFits(j) /\ Finish(w) /\ status[j] = "cleaning"
          /\ UNCHANGED <<cid, started, dir, task>>
      BY <1>3 DEF EndAttempt, Release, CleanupAccepted, Holds, RowInv, LeftInv
    <2>2. \A i \in Jobs \ {j} : status'[i] = status[i] /\ lease'[i] = lease[i]
      BY <1>3 DEF EndAttempt, Release, Move, ClearClaim, TypeInv, TypeOK
    <2>3. status'[j] \in {"cleaned", "cleanup_failed", "detached", "cleaning"}
          /\ (status'[j] = "cleaned" => step[w] = "succeed")
      <3>1. CASE EndAttempt(w)
        <4>1. PICK t : t = CleanupTarget[step[w]]
          OBVIOUS
        <4>2. /\ t \in {"cleaned", "cleanup_failed", "detached"}
              /\ t = "cleaned" => step[w] = "succeed"
          BY <3>1, <4>1 DEF EndAttempt, CleanupTarget
        <4>3. status'[j] = t
          BY <2>1, <3>1, <4>1 DEF EndAttempt, Move, TypeInv, TypeOK
        <4> QED BY <4>2, <4>3
      <3>2. CASE Release(w)
        BY <2>1, <3>2 DEF Release
      <3> QED BY <1>3, <3>1, <3>2
    <2>4. cid[j] /\ task[j] # "running"
      BY <2>1 DEF RowOK, TaskFits
    <2>5. status'[j] = "cleaned" => ~dir[j]
      BY <1>0, <2>3 DEF WorkFits
    <2> QED BY <2>1, <2>2, <2>3, <2>4, <2>5, ReleaseKeepsLeftInv DEF Absent
  <1>4. CASE CleanupRefused(w)
    <2>1. step'[w] = "idle" /\ UNCHANGED <<status, cid, started, lease, dir, task>>
      BY <1>4 DEF CleanupRefused, Finish, TypeInv, TypeOK
    <2> QED BY <2>1, IdleFits DEF OnlyWorks, LeftInv, TaskFits, DirFits
  <1> QED BY <1>1, <1>2, <1>3, <1>4 DEF CleanupNext

\* The API and the world outside leave the workers at their steps.
LEMMA ApiKeepsLeftInv ==
    ASSUME TypeInv, RowInv, ClaimInv, LeftInv, ApiNext
    PROVE  LeftInv'
  <1> USE DEF ledger, progress, claims, remote, control
  <1>1. UNCHANGED <<cid, started, hash, step, at, dir, task>>
    BY DEF ApiNext, JoinJob, CreateJob, CancelJob, RequestCleanup, SelectMedia,
           AcquireLease, EndLease
  <1>2. CASE UNCHANGED <<status, holder, lease>>
    BY <1>1, <1>2 DEF LeftInv, TaskFits, DirFits, WorkFits
  <1>3. ASSUME NEW k \in Keys, NEW s \in Sources, CreateJob(k, s)
        PROVE  LeftInv'
    <2>1. PICK j \in Jobs : /\ status[j] = Absent
                            /\ \A i \in Jobs \ {j} : status'[i] = status[i]
      BY <1>3 DEF CreateJob, NextJob, Oldest, TypeInv, TypeOK
    <2>2. TaskFits(j) /\ DirFits(j) /\ RowOK(j)
      BY DEF LeftInv, RowInv
    <2>3. task[j] # "running" /\ ~dir[j]
      BY <2>1, <2>2 DEF TaskFits, DirFits, Absent
    <2>4. UNCHANGED <<holder, lease>>
      BY <1>3 DEF CreateJob
    <2>5. TaskFits(j)' /\ DirFits(j)'
      BY <1>1, <2>3 DEF TaskFits, DirFits
    <2>6. \A w \in Workers : WorkFits(w)'
      BY <1>1, <2>1, <2>4 DEF WorkFits, LeftInv, TypeInv, AtWork, Absent
    <2> QED BY <1>1, <2>1, <2>4, <2>5, <2>6, OneJobLeft
  <1>4. ASSUME NEW j \in Jobs, CancelJob(j) PROVE LeftInv'
    <2>1. /\ status[j] \in Cancellable /\ status'[j] = CancelTarget(j)
          /\ \A i \in Jobs \ {j} : status'[i] = status[i]
      BY <1>4 DEF CancelJob, TypeInv, TypeOK
    <2>2. TaskFits(j) /\ DirFits(j) /\ RowOK(j)
      BY DEF LeftInv, RowInv
    <2>3. TaskFits(j)'
      BY <1>1, <2>1, <2>2 DEF TaskFits, CancelTarget, MkdirInFlight, RowOK
    <2>4. /\ MkdirInFlight(j) => UNCHANGED <<holder, lease>>
          /\ \A i \in Jobs \ {j} : holder'[i] = holder[i] /\ lease'[i] = lease[i]
      BY <1>4 DEF CancelJob, KeepClaim, ClearClaim, TypeInv, TypeOK
    <2>5. dir[j] => cid[j] \/ MkdirInFlight(j)
      BY <2>1, <2>2 DEF DirFits, RowOK, Cancellable, MkdirInFlight
    <2>6. DirFits(j)'
      <3>1. CASE MkdirInFlight(j)
        <4>1. status'[j] = "cancelling" /\ lease'[j] # "none"
          BY <2>1, <2>4, <3>1 DEF CancelTarget, MkdirInFlight
        <4> QED BY <4>1 DEF DirFits, Absent
      <3>2. CASE ~MkdirInFlight(j) /\ cid[j]
        <4>1. status'[j] \in {"cleaning", "cancelling"} /\ cid'[j]
          BY <1>1, <2>1, <3>2 DEF CancelTarget
        <4> QED BY <4>1 DEF DirFits, Absent
      <3>3. CASE ~dir[j]
        BY <1>1, <3>3 DEF DirFits
      <3> QED BY <2>5, <3>1, <3>2, <3>3
    <2>7. ASSUME NEW w \in Workers PROVE WorkFits(w)'
      <3>1. WorkFits(w) /\ ClaimFits(w)
        BY DEF LeftInv, ClaimInv
      <3>2. CASE step[w] \in {"mkdir", "save_task_directory"}
        <4>1. at[w] \in Jobs /\ holder[at[w]] = w
          BY <3>1, <3>2 DEF WorkFits, TypeInv, AtWork
        <4>2. CASE at[w] = j
          <5>1. /\ ~cid[j] /\ status[j] = "submitting"
            BY <2>1, <3>1, <3>2, <4>1, <4>2 DEF ClaimFits, StepFits, Cancellable
          <5>2. MkdirInFlight(j)
            BY <2>2, <4>1, <4>2, <5>1, RowsAssumption DEF RowOK, MkdirInFlight
          <5> QED BY <1>1, <2>4, <3>2, <4>1, <5>2 DEF WorkFits
        <4>3. CASE at[w] # j
          BY <1>1, <2>4, <3>2, <4>1, <4>3 DEF WorkFits
        <4> QED BY <4>2, <4>3
      <3>3. CASE step[w] = "submit_offline"
        <4>1. at[w] \in Jobs /\ started[at[w]] /\ status[at[w]] \in {"submitting", "cancelling"}
          BY <3>1, <3>3 DEF WorkFits, TypeInv, AtWork
        <4>2. status'[at[w]] \in {"submitting", "cancelling"}
          BY <2>1, <2>2, <4>1 DEF CancelTarget, MkdirInFlight, RowOK
        <4> QED BY <1>1, <3>3, <4>1, <4>2 DEF WorkFits
      <3>4. CASE step[w] \notin {"mkdir", "save_task_directory", "submit_offline"}
        BY <1>1, <3>1, <3>4 DEF WorkFits
      <3> QED BY <3>2, <3>3, <3>4
    <2> QED BY <1>1, <2>1, <2>3, <2>4, <2>6, <2>7, OneJobLeft
  <1>5. ASSUME NEW j \in Jobs, RequestCleanup(j) \/ SelectMedia(j) PROVE LeftInv'
    <2>1. /\ status[j] \in {"awaiting_selection", "ready", "cleanup_failed"}
          /\ status'[j] \in {"cleaning", "ready"}
          /\ \A i \in Jobs \ {j} : /\ status'[i] = status[i]
                                   /\ holder'[i] = holder[i] /\ lease'[i] = lease[i]
      BY <1>5 DEF RequestCleanup, SelectMedia, Move, ClearClaim, KeepClaim, TypeInv, TypeOK
    <2>2. TaskFits(j) /\ DirFits(j) /\ RowOK(j)
      BY DEF LeftInv, RowInv
    <2>3. TaskFits(j)' /\ DirFits(j)'
      BY <1>1, <2>1, <2>2 DEF TaskFits, DirFits, RowOK, Absent
    <2>4. ASSUME NEW w \in Workers PROVE WorkFits(w)'
      <3>1. WorkFits(w) /\ ClaimFits(w)
        BY DEF LeftInv, ClaimInv
      <3>2. CASE step[w] \in {"mkdir", "save_task_directory", "submit_offline"}
        <4>1. at[w] \in Jobs /\ at[w] # j
          BY <2>1, <3>1, <3>2 DEF WorkFits, ClaimFits, StepFits, TypeInv, AtWork
        <4> QED BY <1>1, <2>1, <3>1, <3>2, <4>1 DEF WorkFits
      <3>3. CASE step[w] \notin {"mkdir", "save_task_directory", "submit_offline"}
        BY <1>1, <3>1, <3>3 DEF WorkFits
      <3> QED BY <3>2, <3>3
    <2> QED BY <1>1, <2>1, <2>3, <2>4, OneJobLeft
  <1>6. ASSUME NEW k \in Keys, NEW s \in Sources, JoinJob(k, s)
        PROVE  UNCHANGED <<status, holder, lease>>
    BY <1>6 DEF JoinJob
  <1>7. ASSUME NEW j \in Jobs, AcquireLease(j) \/ EndLease(j)
        PROVE  UNCHANGED <<status, holder, lease>>
    BY <1>7 DEF AcquireLease, EndLease
  <1> QED BY <1>2, <1>3, <1>4, <1>5, <1>6, <1>7 DEF ApiNext

LEMMA EnvironmentKeepsLeftInv ==
    ASSUME TypeInv, LeftInv, EnvironmentNext \/ UNCHANGED vars
    PROVE  LeftInv'
  <1>1. UNCHANGED <<status, cid, started, holder, step, at>>
    BY DEF EnvironmentNext, ExpireClaim, PollFallsDue, TaskEnds, Vanish, vars, ledger,
           progress, claims, control
  <1>2. \A j \in Jobs : /\ (task'[j] = "running" => task[j] = "running")
                       /\ (dir'[j] => dir[j])
                       /\ (lease[j] # "none" => lease'[j] # "none")
    BY DEF EnvironmentNext, ExpireClaim, PollFallsDue, TaskEnds, Vanish, vars, claims, remote,
           TypeInv, TypeOK
  <1>3. \A j \in Jobs : TaskFits(j)' /\ DirFits(j)'
    BY <1>1, <1>2 DEF LeftInv, TaskFits, DirFits
  <1>4. \A w \in Workers : WorkFits(w)'
    BY <1>1, <1>2 DEF LeftInv, WorkFits, TypeInv, AtWork
  <1> QED BY <1>3, <1>4 DEF LeftInv

\* A worker that stays as it was initially takes no step.
LEMMA OnlyFirstWorks ==
    ASSUME TypeInv, OthersIdle, OthersIdle', NEW w \in Workers, WorkerNext(w) \/ Crash(w)
    PROVE  w = First /\ OnlyWorks(w)
  <1>1. SUFFICES ASSUME w # First PROVE FALSE
    BY DEF OthersIdle, OnlyWorks
  <1>2. step[w] = "idle" /\ stage[w] = "offline" /\ step'[w] = "idle" /\ stage'[w] = "offline"
    BY <1>1 DEF OthersIdle
  <1>3. ~ClaimNext(w) /\ ~StartQueued(w)
    <2>1. ASSUME NEW j \in Jobs, NEW x \in FirstSteps(j, DispatchStep(j)) \cup FirstSteps(j, SubmitStep(j)),
                 step' = [step EXCEPT ![w] = x]
          PROVE  FALSE
      <3>1. x # "idle"
        BY <2>1, StepsNamed
      <3> QED BY <1>2, <2>1, <3>1 DEF TypeInv, TypeOK
    <2> QED BY <2>1 DEF ClaimNext, StartQueued, FirstClaimable, Claimable, Oldest, Queued
  <1>4. ~ClaimResolving(w) /\ ~ClaimCleaning(w) /\ ~Evict(w)
    BY <1>2 DEF ClaimResolving, ClaimCleaning, Evict, AtStage
  <1>5. ~PassTurn(w)
    BY <1>2 DEF PassTurn, Finish, NextStage, TypeInv, TypeOK
  <1>6. ~OfflineNext(w) /\ ~ResolverNext(w) /\ ~Crash(w)
    BY <1>2 DEF OfflineNext, Mkdir, LoadSubmissionPayload, SubmitOffline, FindByTaskDirectory,
                FindCancelTarget, CancelOffline, Poll, Calling, ResolverNext, Inspect, Reject,
                Crash
  <1>7. ~QueueNext(w)
    BY <1>2, <1>3, <1>4 DEF QueueNext, SaveTaskDirectory, MarkSubmitStarted, SaveCancelTarget,
                ResolutionMovieNumber, SaveSubmission, MarkSubmitUncertain, MoveAndRelease,
                CompleteCancel, KeepWaiting, WriteRefused, QueueWrites
  <1>8. ~CleanupNext(w)
    BY <1>2, <1>4 DEF CleanupNext, VerifyOwnership, Delete, EndAttempt, Release, CleanupRefused,
                CleanupTarget, CleanupWrites
  <1> QED BY <1>5, <1>6, <1>7, <1>8 DEF WorkerNext

LEMMA NextKeepsLeftInv ==
    ASSUME TypeInv, RowInv, ClaimInv, LeftInv, OthersIdle, OthersIdle', [Next]_vars
    PROVE  LeftInv'
  <1>1. ASSUME NEW w \in Workers, WorkerNext(w) \/ Crash(w) PROVE LeftInv'
    <2>1. OnlyWorks(w)
      BY <1>1, OnlyFirstWorks
    <2> QED BY <1>1, <2>1, QueueKeepsLeftInv, CallsKeepLeftInv, CleanupKeepsLeftInv
            DEF WorkerNext
  <1> QED BY <1>1, ApiKeepsLeftInv, EnvironmentKeepsLeftInv DEF Next

\* With one worker process, as the system is deployed: when a job is reported
\* cleaned (cancellation.py, cleanup.py), its directory is gone from 115 and its
\* download does not run, whatever claims ran out and however often the
\* process was killed.
THEOREM CleanedLeftNothing == Spec => AloneCleanedLeavesNothing
  <1>1. Init => LeftInv
    BY DEF Init, LeftInv, TaskFits, DirFits, WorkFits
  <1>2. TypeInv /\ RowInv /\ ClaimInv /\ LeftInv /\ OthersIdle /\ OthersIdle' /\ [Next]_vars
          => LeftInv'
    BY NextKeepsLeftInv
  <1>3. TypeInv /\ LeftInv => CleanedLeavesNothing
    BY DEF LeftInv, TaskFits, DirFits, CleanedLeavesNothing
  <1> QED BY <1>1, <1>2, <1>3, ClaimsStayFit, PTL DEF Spec, AloneCleanedLeavesNothing, Alone
=============================================================================
