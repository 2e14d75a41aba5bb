------------------------- MODULE CacheLedgerProofs --------------------------
(***************************************************************************)
(* Proofs about CacheLedger: its limits hold for any number of jobs, any   *)
(* capacities, sources and keys.                                           *)
(***************************************************************************)
EXTENDS CacheLedger, FiniteSetTheorems, TLAPS

LedgerConstants ==
    /\ MaxJobs \in Nat
    /\ RunningCapacity \in Nat
    /\ QueuedCapacity \in Nat

HoldsSlot == RunningStatuses \cup {"cancelling"}

\* What a job may become, whatever its status: no legal transition takes a slot
\* or leads back into the queue, except the start of a queued job.
LEMMA LegalMoves ==
    ASSUME NEW s \in Statuses \cup {Absent}, NEW t \in LegalTargets(s)
    PROVE  /\ s \notin Terminal \cup {Absent}
           /\ t \in Statuses
           /\ t # "queued"
           /\ t \in HoldsSlot => s \in HoldsSlot \cup {"queued"}
  BY DEF LegalTargets, Statuses, Active, Terminal, RunningStatuses,
         ReadyStatuses, Absent, HoldsSlot

\* The class a job is counted in after such a transition.
LEMMA Classes ==
    ASSUME NEW t \in Statuses
    PROVE  /\ CapacityOf(t) \in Capacities
           /\ CapacityOf(t) = "running" <=> t \in RunningStatuses
           /\ CapacityOf(t) = "queued" <=> t = "queued"
  BY DEF CapacityOf, Capacities, Statuses, Active, Terminal, RunningStatuses,
         ReadyStatuses

-----------------------------------------------------------------------------
(* The inductive invariant *)

\* The classes counted by the guards are the statuses the limits speak of.
ClassesMatch ==
    \A j \in Jobs :
        /\ cap[j] = "running" <=> status[j] \in HoldsSlot
        /\ cap[j] = "queued" <=> status[j] = "queued"

CountsBounded ==
    /\ CountIn("running") <= RunningCapacity
    /\ CountIn("queued") <= QueuedCapacity

LedgerInv == TypeOK /\ ClassesMatch /\ CountsBounded /\ OneLiveJobPerSource

\* Two sets of jobs are counted as numbers, a smaller set counts no more, and
\* one more job counts at most one more.
LEMMA Counts ==
    ASSUME LedgerConstants, NEW S \in SUBSET Jobs, NEW T \in SUBSET Jobs
    PROVE  /\ Cardinality(S) \in Nat
           /\ Cardinality(T) \in Nat
           /\ T \subseteq S => Cardinality(T) <= Cardinality(S)
           /\ \A j \in Jobs : T \subseteq S \cup {j} =>
                Cardinality(T) <= Cardinality(S) + 1
  <1>1. IsFiniteSet(Jobs)
    BY FS_Interval DEF LedgerConstants, Jobs
  <1>2. /\ IsFiniteSet(S) /\ Cardinality(S) \in Nat
        /\ IsFiniteSet(T) /\ Cardinality(T) \in Nat
    BY <1>1, FS_Subset, FS_CardinalityType
  <1>3. ASSUME T \subseteq S PROVE Cardinality(T) <= Cardinality(S)
    BY <1>2, <1>3, FS_Subset
  <1>4. ASSUME NEW j \in Jobs, T \subseteq S \cup {j}
        PROVE  Cardinality(T) <= Cardinality(S) + 1
    <2>1. /\ IsFiniteSet(S \cup {j})
          /\ Cardinality(S \cup {j}) <= Cardinality(S) + 1
      BY <1>2, FS_AddElement
    <2>2. Cardinality(T) <= Cardinality(S \cup {j})
      BY <1>4, <2>1, FS_Subset
    <2>3. Cardinality(S \cup {j}) \in Nat
      BY <2>1, FS_CardinalityType
    <2> QED BY <1>2, <2>1, <2>2, <2>3
  <1> QED BY <1>2, <1>3, <1>4

LEMMA InitLedgerInv ==
    ASSUME LedgerConstants, Init
    PROVE  LedgerInv
  <1>1. TypeOK
    BY DEF Init, TypeOK, Capacities
  <1>2. ClassesMatch
    BY DEF Init, ClassesMatch, HoldsSlot, RunningStatuses, Absent
  <1>3. {j \in Jobs : cap[j] = "running"} = {} /\ {j \in Jobs : cap[j] = "queued"} = {}
    BY DEF Init
  <1>4. CountsBounded
    BY <1>3, FS_EmptySet DEF CountsBounded, CountIn, LedgerConstants
  <1>5. OneLiveJobPerSource
    BY DEF Init, OneLiveJobPerSource, Active, RunningStatuses, ReadyStatuses,
           Absent
  <1> QED BY <1>1, <1>2, <1>4, <1>5 DEF LedgerInv

\* A job changes class as its status does, whatever the step.
LEMMA StepKeepsTypeAndClasses ==
    ASSUME LedgerConstants, TypeOK, ClassesMatch, Next
    PROVE  TypeOK' /\ ClassesMatch'
  <1> USE DEF TypeOK, ClassesMatch
  <1>1. ASSUME NEW k \in Keys, NEW s \in Sources, Admit(k, s)
        PROVE  TypeOK' /\ ClassesMatch'
    BY <1>1 DEF Admit, Statuses, Active, RunningStatuses, HoldsSlot, Capacities
  <1>2. ASSUME NEW k \in Keys, NEW s \in Sources, Join(k, s)
        PROVE  TypeOK' /\ ClassesMatch'
    BY <1>2 DEF Join, LiveJobsOf
  <1>3. ASSUME NEW j \in Jobs, Start(j)
        PROVE  TypeOK' /\ ClassesMatch'
    BY <1>3 DEF Start, Statuses, Active, RunningStatuses, HoldsSlot, Capacities
  <1>4. ASSUME NEW j \in Jobs, NEW t \in Statuses, Advance(j, t)
        PROVE  TypeOK' /\ ClassesMatch'
    <2>1. status[j] \in Statuses \cup {Absent} /\ t \in LegalTargets(status[j])
      BY <1>4 DEF Advance
    <2>2. t # "queued" /\ (t \in HoldsSlot => status[j] \in HoldsSlot)
      BY <1>4, <2>1, LegalMoves DEF Advance
    <2>3. /\ NextCapacity(cap[j], t) \in Capacities
          /\ NextCapacity(cap[j], t) = "running" <=> t \in HoldsSlot
          /\ NextCapacity(cap[j], t) # "queued"
      <3>1. CASE t = "cancelling"
        <4>1. NextCapacity(cap[j], t) = cap[j]
          BY <3>1 DEF NextCapacity
        <4>2. cap[j] = "running"
          BY <2>2, <3>1 DEF HoldsSlot
        <4> QED BY <3>1, <4>1, <4>2 DEF Capacities, HoldsSlot
      <3>2. CASE t # "cancelling"
        <4>1. NextCapacity(cap[j], t) = CapacityOf(t)
          BY <3>2 DEF NextCapacity
        <4>2. t \in HoldsSlot <=> t \in RunningStatuses
          BY <3>2 DEF HoldsSlot
        <4> QED BY <2>2, <4>1, <4>2, Classes
      <3> QED BY <3>1, <3>2
    <2>4. /\ status' = [status EXCEPT ![j] = t]
          /\ cap' = [cap EXCEPT ![j] = NextCapacity(cap[j], t)]
          /\ source' = source /\ req' = req
      BY <1>4 DEF Advance
    <2> QED BY <2>2, <2>3, <2>4
  <1>5. ASSUME NEW j \in Jobs, NEW t \in Statuses, Withdraw(j, t)
        PROVE  TypeOK' /\ ClassesMatch'
    <2>1. /\ t \in {"cleaning", "cleaned"}
          /\ status' = [status EXCEPT ![j] = t]
          /\ cap' = [cap EXCEPT ![j] = CapacityOf(t)]
          /\ source' = source /\ req' = req
      BY <1>5 DEF Withdraw
    <2>2. t \notin HoldsSlot /\ t # "queued"
      BY <2>1 DEF HoldsSlot, RunningStatuses
    <2>3. /\ CapacityOf(t) \in Capacities
          /\ CapacityOf(t) # "running" /\ CapacityOf(t) # "queued"
      BY <2>2, Classes DEF HoldsSlot
    <2> QED BY <2>1, <2>2, <2>3
  <1> QED BY <1>1, <1>2, <1>3, <1>4, <1>5 DEF Next

\* Only Admit and Start add a job to a class, and they look at the count.
LEMMA StepKeepsCounts ==
    ASSUME LedgerConstants, TypeOK, ClassesMatch, CountsBounded, Next
    PROVE  CountsBounded'
  <1> DEFINE R == {i \in Jobs : cap[i] = "running"}
             Q == {i \in Jobs : cap[i] = "queued"}
  <1>1. /\ R \in SUBSET Jobs /\ R' \in SUBSET Jobs
        /\ Q \in SUBSET Jobs /\ Q' \in SUBSET Jobs
    BY DEF Jobs
  <1>2. /\ CountIn("running") = Cardinality(R)
        /\ CountIn("queued") = Cardinality(Q)
        /\ CountIn("running")' = Cardinality(R')
        /\ CountIn("queued")' = Cardinality(Q')
    BY DEF CountIn
  <1>3. ASSUME R' \subseteq R, Q' \subseteq Q PROVE CountsBounded'
    BY <1>1, <1>2, <1>3, Counts DEF CountsBounded, LedgerConstants
  <1>4. ASSUME NEW j \in Jobs, R' \subseteq R \cup {j}, Q' \subseteq Q,
               CountIn("running") < RunningCapacity
        PROVE  CountsBounded'
    <2>1. Cardinality(R') <= Cardinality(R) + 1 /\ Cardinality(Q') <= Cardinality(Q)
      BY <1>1, <1>4, Counts
    <2>2. /\ Cardinality(R) \in Nat /\ Cardinality(R') \in Nat
          /\ Cardinality(Q) \in Nat /\ Cardinality(Q') \in Nat
      BY <1>1, Counts
    <2> QED BY <1>2, <1>4, <2>1, <2>2 DEF CountsBounded, LedgerConstants
  <1>5. ASSUME NEW j \in Jobs, R' \subseteq R, Q' \subseteq Q \cup {j},
               CountIn("queued") < QueuedCapacity
        PROVE  CountsBounded'
    <2>1. Cardinality(R') <= Cardinality(R) /\ Cardinality(Q') <= Cardinality(Q) + 1
      BY <1>1, <1>5, Counts
    <2>2. /\ Cardinality(R) \in Nat /\ Cardinality(R') \in Nat
          /\ Cardinality(Q) \in Nat /\ Cardinality(Q') \in Nat
      BY <1>1, Counts
    <2> QED BY <1>2, <1>5, <2>1, <2>2 DEF CountsBounded, LedgerConstants
  <1>6. ASSUME NEW k \in Keys, NEW s \in Sources, Admit(k, s)
        PROVE  CountsBounded'
    <2>1. PICK j \in Jobs :
            \/ /\ CountIn("running") < RunningCapacity
               /\ cap' = [cap EXCEPT ![j] = "running"]
            \/ /\ CountIn("queued") < QueuedCapacity
               /\ cap' = [cap EXCEPT ![j] = "queued"]
      BY <1>6 DEF Admit
    <2>2. CASE /\ CountIn("running") < RunningCapacity
               /\ cap' = [cap EXCEPT ![j] = "running"]
      <3>1. R' \subseteq R \cup {j} /\ Q' \subseteq Q
        BY <2>2 DEF TypeOK
      <3> HIDE DEF R, Q
      <3> QED BY <1>4, <2>2, <3>1
    <2>3. CASE /\ CountIn("queued") < QueuedCapacity
               /\ cap' = [cap EXCEPT ![j] = "queued"]
      <3>1. R' \subseteq R /\ Q' \subseteq Q \cup {j}
        BY <2>3 DEF TypeOK
      <3> HIDE DEF R, Q
      <3> QED BY <1>5, <2>3, <3>1
    <2> QED BY <2>1, <2>2, <2>3
  <1>7. ASSUME NEW k \in Keys, NEW s \in Sources, Join(k, s)
        PROVE  CountsBounded'
    BY <1>3, <1>7 DEF Join
  <1>8. ASSUME NEW j \in Jobs, Start(j)
        PROVE  CountsBounded'
    <2>1. /\ CountIn("running") < RunningCapacity
          /\ cap' = [cap EXCEPT ![j] = "running"]
      BY <1>8 DEF Start
    <2>2. R' \subseteq R \cup {j} /\ Q' \subseteq Q
      BY <2>1 DEF TypeOK
    <2> HIDE DEF R, Q
    <2> QED BY <1>4, <2>1, <2>2
  <1>9. ASSUME NEW j \in Jobs, NEW t \in Statuses,
               Advance(j, t) \/ Withdraw(j, t)
        PROVE  CountsBounded'
    <2>1. ClassesMatch'
      BY <1>9, StepKeepsTypeAndClasses DEF Next
    <2>2. status' = [status EXCEPT ![j] = t]
      BY <1>9 DEF Advance, Withdraw
    <2>3. t # "queued" /\ (t \in HoldsSlot => status[j] \in HoldsSlot)
      <3>1. CASE Advance(j, t)
        BY <3>1, LegalMoves DEF Advance, TypeOK
      <3>2. CASE Withdraw(j, t)
        BY <3>2 DEF Withdraw, HoldsSlot, RunningStatuses
      <3> QED BY <1>9, <3>1, <3>2
    <2>4. R' \subseteq R /\ Q' \subseteq Q
      BY <2>1, <2>2, <2>3 DEF TypeOK, ClassesMatch
    <2> HIDE DEF R, Q
    <2> QED BY <1>3, <2>4
  <1> QED BY <1>6, <1>7, <1>8, <1>9 DEF Next

\* A job only comes to life by Admit, whose source has no other live job.
LEMMA StepKeepsOneLive ==
    ASSUME TypeOK, OneLiveJobPerSource, Next
    PROVE  OneLiveJobPerSource'
  <1>1. ASSUME NEW k \in Keys, NEW s \in Sources, Admit(k, s)
        PROVE  OneLiveJobPerSource'
    <2>1. LiveJobsOf(s) = {}
      BY <1>1 DEF Admit
    <2>2. PICK j \in Jobs, t \in {"submitting", "queued"} :
            /\ source' = [source EXCEPT ![j] = s]
            /\ status' = [status EXCEPT ![j] = t]
      BY <1>1 DEF Admit
    <2> QED BY <2>1, <2>2 DEF OneLiveJobPerSource, LiveJobsOf, TypeOK
  <1>2. ASSUME NEW k \in Keys, NEW s \in Sources, Join(k, s)
        PROVE  OneLiveJobPerSource'
    BY <1>2 DEF Join, OneLiveJobPerSource
  <1>3. ASSUME NEW j \in Jobs, NEW t \in Statuses,
               Start(j) \/ Advance(j, t) \/ Withdraw(j, t)
        PROVE  OneLiveJobPerSource'
    <2>1. status[j] \in Active
      <3>1. CASE Start(j)
        BY <3>1 DEF Start, Active
      <3>2. CASE Advance(j, t)
        BY <3>2, LegalMoves DEF Advance, TypeOK, Statuses
      <3>3. CASE Withdraw(j, t)
        BY <3>3 DEF Withdraw, Cancellable, Active, RunningStatuses
      <3> QED BY <1>3, <3>1, <3>2, <3>3
    <2>2. /\ source' = source
          /\ \A i \in Jobs : i # j => status'[i] = status[i]
      BY <1>3 DEF Start, Advance, Withdraw, TypeOK
    <2> QED BY <2>1, <2>2 DEF OneLiveJobPerSource
  <1> QED
    <2>1. "cleaned" \in Statuses
      BY DEF Statuses, Terminal
    <2> QED BY <1>1, <1>2, <1>3, <2>1 DEF Next

-----------------------------------------------------------------------------

\* The limits follow from the counts, because the classes match the statuses.
LEMMA InvGivesLimits ==
    ASSUME LedgerInv
    PROVE  CapacityRespected
  <1>1. {j \in Jobs : status[j] \in RunningStatuses \cup {"cancelling"}}
          = {j \in Jobs : cap[j] = "running"}
    BY DEF LedgerInv, ClassesMatch, HoldsSlot
  <1>2. {j \in Jobs : status[j] \in {"queued"}} = {j \in Jobs : cap[j] = "queued"}
    BY DEF LedgerInv, ClassesMatch
  <1> QED BY <1>1, <1>2 DEF LedgerInv, CountsBounded, CountIn, CapacityRespected

LEMMA StepKeepsLedgerInv ==
    ASSUME LedgerConstants, LedgerInv, [Next]_vars
    PROVE  LedgerInv'
  <1>1. CASE Next
    BY <1>1, StepKeepsTypeAndClasses, StepKeepsCounts, StepKeepsOneLive
       DEF LedgerInv
  <1>2. CASE UNCHANGED vars
    BY <1>2 DEF LedgerInv, vars, TypeOK, ClassesMatch, CountsBounded, CountIn,
                OneLiveJobPerSource
  <1> QED BY <1>1, <1>2

\* The ledger never overfills a class and never has two live jobs of a source.
THEOREM LedgerSafe ==
    ASSUME LedgerConstants
    PROVE  Spec => [](CapacityRespected /\ OneLiveJobPerSource)
  <1>1. Init => LedgerInv
    BY InitLedgerInv
  <1>2. LedgerInv /\ [Next]_vars => LedgerInv'
    BY StepKeepsLedgerInv
  <1>3. LedgerInv => CapacityRespected /\ OneLiveJobPerSource
    BY InvGivesLimits DEF LedgerInv
  <1> QED BY <1>1, <1>2, <1>3, PTL DEF Spec

\* What is terminal stays, and requests keep their job.
THEOREM LedgerFinal ==
    ASSUME LedgerConstants
    PROVE  Spec => TerminalIsFinal
  <1> DEFINE Final == \A j \in Jobs : status[j] \in Terminal =>
                        /\ status'[j] = status[j]
                        /\ \A k \in Keys : req[k] = j => req'[k] = j
  <1>1. Spec => []LedgerInv
    <2>1. Init => LedgerInv
      BY InitLedgerInv
    <2>2. LedgerInv /\ [Next]_vars => LedgerInv'
      BY StepKeepsLedgerInv
    <2> QED BY <2>1, <2>2, PTL DEF Spec
  <1>2. LedgerInv /\ [Next]_vars => Final
    <2> SUFFICES ASSUME LedgerInv, [Next]_vars, NEW j \in Jobs,
                        status[j] \in Terminal
                 PROVE  /\ status'[j] = status[j]
                        /\ \A k \in Keys : req[k] = j => req'[k] = j
      OBVIOUS
    <2>0. TypeOK /\ Absent \notin Terminal
      BY DEF LedgerInv, Absent, Terminal
    <2>1. CASE Next
      <3> USE <2>0
      <3>1. ASSUME NEW k \in Keys, NEW s \in Sources, Admit(k, s) \/ Join(k, s)
            PROVE  /\ status'[j] = status[j]
                   /\ \A i \in Keys : req[i] = j => req'[i] = j
        <4>1. req[k] = NoJob /\ NoJob # j
          BY <3>1 DEF Admit, Join, Jobs, NoJob, LedgerConstants
        <4>2. \E i \in Jobs : req' = [req EXCEPT ![k] = i]
          BY <3>1 DEF Admit, Join, LiveJobsOf
        <4>3. status'[j] = status[j]
          <5>1. CASE Admit(k, s)
            BY <2>0, <5>1 DEF Admit, TypeOK
          <5>2. CASE Join(k, s)
            BY <5>2 DEF Join
          <5> QED BY <3>1, <5>1, <5>2
        <4> QED BY <4>1, <4>2, <4>3 DEF TypeOK
      <3>2. ASSUME NEW i \in Jobs, NEW t \in Statuses,
                   Start(i) \/ Advance(i, t) \/ Withdraw(i, t)
            PROVE  status'[j] = status[j] /\ req' = req
        <4>1. i # j
          <5>1. CASE Start(i)
            BY <5>1 DEF Start, Terminal
          <5>2. CASE Advance(i, t)
            BY <5>2, LegalMoves DEF Advance, TypeOK
          <5>3. CASE Withdraw(i, t)
            BY <5>3 DEF Withdraw, Cancellable, Terminal
          <5> QED BY <3>2, <5>1, <5>2, <5>3
        <4> QED BY <3>2, <4>1 DEF Start, Advance, Withdraw, TypeOK
      <3>3. "cleaned" \in Statuses
        BY DEF Statuses, Terminal
      <3> QED BY <2>1, <3>1, <3>2, <3>3 DEF Next
    <2>2. CASE UNCHANGED vars
      BY <2>2 DEF vars
    <2> QED BY <2>1, <2>2
  <1> QED BY <1>1, <1>2, PTL DEF Spec, TerminalIsFinal
=============================================================================
