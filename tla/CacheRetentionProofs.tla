------------------------ MODULE CacheRetentionProofs ------------------------
(***************************************************************************)
(* Proofs about CacheRetention, for any set of jobs and any ready capacity:*)
(* a lease beats the expiry of a job, and with one worker process nothing  *)
(* is evicted without need.                                                *)
(***************************************************************************)
EXTENDS CacheRetention, SelectionProofs, FiniteSetTheorems, TLAPS

\* The part of the type invariant the proofs need.
Shape ==
    /\ status \in [Jobs -> Statuses]
    /\ due \in [Jobs -> BOOLEAN]
    /\ leased \in [Jobs -> BOOLEAN]
    /\ claimant \in [Jobs -> Workers \cup {Nobody, Lost}]
    /\ claimer \in Workers \cup {Nobody}
    /\ statement \in Statements

\* The time to live of a job does not pass while the job is played.
LeaseIsFresh == \A j \in Jobs : leased[j] => ~due[j]

\* The counts a transaction has read still hold when it uses them: no write
\* that changes them happens while it holds the capacity lock.
CountsAreCurrent ==
    /\ statement # "none" => /\ claimer \in Workers
                             /\ \A j \in Jobs : claimant[j] # claimer
    /\ statement \in {"count_ready", "select", "lock"} =>
         cleaning = Cardinality(In({"cleaning"}))
    /\ statement \in {"select", "lock"} => ready = Cardinality(In(ReadyClass))

-----------------------------------------------------------------------------

LEMMA ShapeStep == Shape /\ [Next]_vars => Shape'
<1> SUFFICES ASSUME Shape, [Next]_vars PROVE Shape'
    OBVIOUS
<1> USE DEF Shape, Statuses, Statements, ReadyClass, Materialized
<1>1. ASSUME NEW j \in Jobs, SelectMedia(j) PROVE Shape'
    BY <1>1 DEF SelectMedia, txn
<1>2. ASSUME NEW j \in Jobs, Expire(j) PROVE Shape'
    BY <1>2 DEF Expire, txn
<1>3. ASSUME NEW j \in Jobs, RequestCleanup(j) PROVE Shape'
    BY <1>3 DEF RequestCleanup, txn
<1>4. ASSUME NEW j \in Jobs,
             BeginLease(j) \/ CommitLease(j) \/ AbortLease(j) \/ EndLease(j)
      PROVE  Shape'
    BY <1>4 DEF BeginLease, CommitLease, AbortLease, EndLease, txn
<1>5. ASSUME NEW j \in Jobs, GiveUp(j) PROVE Shape'
    BY <1>5 DEF GiveUp, txn
<1>6. ASSUME NEW w \in Workers, ClaimCleaning(w) PROVE Shape'
    BY <1>6 DEF ClaimCleaning, txn
<1>7. ASSUME NEW w \in Workers, Consider(w) PROVE Shape'
    BY <1>7 DEF Consider
<1>8. ASSUME NEW w \in Workers, Crash(w) PROVE Shape'
    BY <1>8 DEF Crash, EndTxn, txn
<1>9. ASSUME NEW w \in Workers, NEW j \in Jobs, Resolve(w, j) PROVE Shape'
    BY <1>9 DEF Resolve, txn
<1>10. ASSUME NEW w \in Workers, NEW j \in Jobs, CompleteCancel(w, j)
       PROVE  Shape'
    BY <1>10 DEF CompleteCancel, txn
<1>11. ASSUME NEW w \in Workers, NEW j \in Jobs, EndAttempt(w, j) PROVE Shape'
    BY <1>11 DEF EndAttempt, txn
<1>12. ASSUME CountCleaning \/ CountReady \/ SelectVictims PROVE Shape'
    BY <1>12 DEF CountCleaning, CountReady, SelectVictims
<1>13. ASSUME Evict PROVE Shape'
    BY <1>13 DEF Evict, EndTxn
<1>14. ASSUME NoVictim PROVE Shape'
    BY <1>14 DEF NoVictim, EndTxn
<1>15. CASE UNCHANGED vars
    BY <1>15 DEF vars, txn
<1> QED BY <1>1, <1>2, <1>3, <1>4, <1>5, <1>6, <1>7, <1>8, <1>9, <1>10, <1>11,
           <1>12, <1>13, <1>14, <1>15 DEF Next, ClaimStep

LEMMA ShapeInit == Init => Shape
BY DEF Init, Shape, Statuses, Statements

LEMMA FreshInit == Init => LeaseIsFresh
BY DEF Init, LeaseIsFresh

\* Only Expire sets due, and only CommitLease sets leased.
LEMMA FreshStep == Shape /\ LeaseIsFresh /\ [Next]_vars => LeaseIsFresh'
<1> SUFFICES ASSUME Shape, LeaseIsFresh, [Next]_vars,
                    NEW j \in Jobs, leased'[j]
             PROVE  ~due'[j]
    BY DEF LeaseIsFresh
<1> USE DEF Shape, LeaseIsFresh
<1>1. ASSUME NEW i \in Jobs, Expire(i) PROVE ~due'[j]
    BY <1>1 DEF Expire
<1>2. ASSUME NEW i \in Jobs, CommitLease(i) PROVE ~due'[j]
    BY <1>2 DEF CommitLease
<1>3. ASSUME NEW i \in Jobs, EndLease(i) PROVE ~due'[j]
    BY <1>3 DEF EndLease
<1>4. ASSUME NEW w \in Workers, NEW i \in Jobs, EndAttempt(w, i)
      PROVE  ~due'[j]
    <2>1. leased[j]
        BY <1>4 DEF EndAttempt
    <2> QED BY <2>1, <1>4 DEF EndAttempt
<1>5. CASE UNCHANGED <<due, leased>>
    BY <1>5
<1>6. \/ UNCHANGED <<due, leased>>
      \/ \E i \in Jobs : Expire(i) \/ CommitLease(i) \/ EndLease(i)
      \/ \E w \in Workers, i \in Jobs : EndAttempt(w, i)
    BY DEF Next, ClaimStep, vars, SelectMedia, RequestCleanup, BeginLease,
           AbortLease, GiveUp, ClaimCleaning, Consider, Crash, Resolve,
           CompleteCancel, CountCleaning, CountReady, SelectVictims, Evict,
           NoVictim
<1> QED BY <1>1, <1>2, <1>3, <1>4, <1>5, <1>6

-----------------------------------------------------------------------------

\* An eviction is made by Evict, of a job that is still eligible.
LEMMA EvictionIsEvict ==
    ASSUME Shape, [Next]_vars, NEW j \in Jobs, EvictedBy(j)
    PROVE  statement = "lock" /\ (due[j] \/ OverTarget)
<1> USE DEF Shape, EvictedBy, Materialized
<1>1. ASSUME NEW i \in Jobs, RequestCleanup(i) PROVE FALSE
    BY <1>1 DEF RequestCleanup
<1>2. ASSUME NEW i \in Jobs, SelectMedia(i) PROVE FALSE
    BY <1>2 DEF SelectMedia
<1>3. ASSUME NEW w \in Workers, NEW i \in Jobs,
             Resolve(w, i) \/ CompleteCancel(w, i) \/ EndAttempt(w, i)
      PROVE  FALSE
    BY <1>3 DEF Resolve, CompleteCancel, EndAttempt
<1>4. ASSUME Evict PROVE statement = "lock" /\ (due[j] \/ OverTarget)
    BY <1>4 DEF Evict, Lockable, StillEligible, Eligible
<1>5. CASE UNCHANGED status
    BY <1>5
<1>6. \/ UNCHANGED status \/ Evict
      \/ \E i \in Jobs : RequestCleanup(i) \/ SelectMedia(i)
      \/ \E w \in Workers, i \in Jobs :
           Resolve(w, i) \/ CompleteCancel(w, i) \/ EndAttempt(w, i)
    BY DEF Next, ClaimStep, vars, BeginLease, CommitLease, AbortLease, EndLease,
           Expire, GiveUp, ClaimCleaning, Consider, Crash, CountCleaning,
           CountReady, SelectVictims, NoVictim
<1> QED BY <1>1, <1>2, <1>3, <1>4, <1>5, <1>6

\* A job that is played is never evicted because it had expired, whatever the
\* number of workers (cleanup.py: the expiry is looked at again on the locked
\* row, which acquiring a lease has refreshed).
THEOREM LeaseWins == Spec => LeaseBeatsExpiry
<1>1. ASSUME Shape, LeaseIsFresh, [Next]_vars
      PROVE  [\A j \in Jobs : EvictedBy(j) /\ leased[j] => OverTarget]_vars
    BY <1>1, EvictionIsEvict DEF LeaseIsFresh
<1> QED BY <1>1, ShapeInit, ShapeStep, FreshInit, FreshStep, PTL
        DEF Spec, LeaseBeatsExpiry

-----------------------------------------------------------------------------

LEMMA CountsInit == Init => CountsAreCurrent
BY DEF Init, CountsAreCurrent

\* With one worker, a step leaves the two counted sets alone while a
\* transaction is open.
LEMMA CountedSetsStay ==
    ASSUME NEW CONSTANT only, Workers = {only},
           Shape, CountsAreCurrent, [Next]_vars, statement # "none"
    PROVE  /\ \/ UNCHANGED <<In({"cleaning"}), In(ReadyClass)>>
              \/ statement' = "none"
           /\ \A i \in Jobs : claimant'[i] # claimer \/ statement' = "none"
<1> USE DEF Shape, CountsAreCurrent, In, Materialized, ReadyClass
<1>0. claimer = only /\ \A i \in Jobs : claimant[i] # claimer
    OBVIOUS
<1> DEFINE Goal == /\ \/ UNCHANGED <<In({"cleaning"}), In(ReadyClass)>>
                      \/ statement' = "none"
                   /\ \A i \in Jobs : claimant'[i] # claimer \/ statement' = "none"
<1>1. ASSUME NEW j \in Jobs, SelectMedia(j) PROVE Goal
    BY <1>0, <1>1 DEF SelectMedia
<1>2. ASSUME NEW j \in Jobs, RequestCleanup(j) PROVE Goal
    BY <1>0, <1>2, RetentionAssumption DEF RequestCleanup, CapacityLockFree
<1>3. ASSUME NEW j \in Jobs, GiveUp(j) PROVE Goal
    BY <1>0, <1>3, RetentionAssumption DEF GiveUp
<1>4. ASSUME NEW w \in Workers, ClaimCleaning(w) \/ Consider(w) PROVE Goal
    BY <1>0, <1>4 DEF ClaimCleaning, Consider, Idle
<1>5. ASSUME NEW w \in Workers, Crash(w) PROVE Goal
    BY <1>0, <1>5 DEF Crash, EndTxn
<1>6. ASSUME NEW w \in Workers, NEW j \in Jobs,
             Resolve(w, j) \/ CompleteCancel(w, j)
      PROVE  Goal
    BY <1>0, <1>6 DEF Resolve, CompleteCancel, Idle
<1>7. ASSUME NEW w \in Workers, NEW j \in Jobs, EndAttempt(w, j) PROVE Goal
    BY <1>0, <1>7 DEF EndAttempt
<1>8. CASE statement' = "none"
    BY <1>8
<1>9. CASE UNCHANGED <<status, claimant>>
    BY <1>0, <1>9
<1>10. \/ UNCHANGED <<status, claimant>> \/ statement' = "none"
       \/ \E j \in Jobs : SelectMedia(j) \/ RequestCleanup(j) \/ GiveUp(j)
       \/ \E w \in Workers :
            \/ ClaimCleaning(w) \/ Consider(w) \/ Crash(w)
            \/ \E j \in Jobs :
                 Resolve(w, j) \/ CompleteCancel(w, j) \/ EndAttempt(w, j)
    BY DEF Next, ClaimStep, vars, BeginLease, CommitLease, AbortLease, EndLease,
           Expire, CountCleaning, CountReady, SelectVictims, Evict, NoVictim,
           EndTxn
<1> QED BY <1>1, <1>2, <1>3, <1>4, <1>5, <1>6, <1>7, <1>8, <1>9, <1>10

LEMMA CountsStep ==
    ASSUME NEW CONSTANT only, Workers = {only},
           Shape, CountsAreCurrent, [Next]_vars
    PROVE  CountsAreCurrent'
<1>1. CASE UNCHANGED <<statement, claimer, cleaning, ready>> /\ statement # "none"
    BY <1>1, CountedSetsStay DEF CountsAreCurrent
<1>2. CASE statement = "none" /\ UNCHANGED <<statement, claimer>>
    BY <1>2 DEF CountsAreCurrent
<1>3. ASSUME CountCleaning PROVE CountsAreCurrent'
    BY <1>3, CountedSetsStay DEF CountsAreCurrent, CountCleaning, In
<1>4. ASSUME CountReady PROVE CountsAreCurrent'
    BY <1>4, CountedSetsStay DEF CountsAreCurrent, CountReady, In
<1>5. ASSUME SelectVictims PROVE CountsAreCurrent'
    BY <1>5, CountedSetsStay DEF CountsAreCurrent, SelectVictims, In
<1>6. ASSUME EndTxn PROVE CountsAreCurrent'
    BY <1>6 DEF CountsAreCurrent, EndTxn
<1>7. ASSUME NEW w \in Workers, Consider(w) PROVE CountsAreCurrent'
    BY <1>7 DEF CountsAreCurrent, Consider, Idle
<1>8. \/ UNCHANGED <<statement, claimer, cleaning, ready>>
      \/ CountCleaning \/ CountReady \/ SelectVictims \/ EndTxn
      \/ \E w \in Workers : Consider(w)
    BY DEF Next, ClaimStep, vars, txn, SelectMedia, Expire, RequestCleanup,
           BeginLease, CommitLease, AbortLease, EndLease, GiveUp,
           ClaimCleaning, Crash, Resolve, CompleteCancel, EndAttempt, Evict,
           NoVictim
<1> QED BY <1>1, <1>2, <1>3, <1>4, <1>5, <1>6, <1>7, <1>8 DEF Shape

\* With one worker process no job is evicted before its time while the ready
\* jobs fit: the counts of cleanup.py, read by earlier statements, are still
\* those of the moment of the eviction, because every other write that changes
\* them takes the capacity lock or is the same worker's.
THEOREM EvictionsAreNeeded ==
    ASSUME NEW CONSTANT only, Workers = {only}
    PROVE  Spec => EvictionIsNeeded
<1>1. ASSUME Shape, CountsAreCurrent, [Next]_vars
      PROVE  [\A j \in Jobs : EvictedBy(j) /\ ~due[j] =>
                Cardinality(In(ReadyClass)) - Cardinality(In({"cleaning"}))
                  > ReadyCapacity]_vars
    BY <1>1, EvictionIsEvict DEF CountsAreCurrent, OverTarget
<1>2. Shape /\ CountsAreCurrent /\ [Next]_vars => CountsAreCurrent'
    BY CountsStep
<1> QED BY <1>1, <1>2, ShapeInit, ShapeStep, CountsInit, PTL
        DEF Spec, EvictionIsNeeded

-----------------------------------------------------------------------------
(* The types, with the order of the last uses and the locks of the leases. *)

\* What is known of recency, of the locks and of what a transaction has read.
Recency ==
    /\ recency \in Seq(Jobs) /\ IsInjective(recency)
    /\ Range(recency) = In(Materialized)

Locks == /\ locked \in [Jobs -> BOOLEAN]
         /\ \A j \in Jobs : locked[j] => status[j] = "ready"

Reads == /\ cleaning \in 0..Cardinality(Jobs)
         /\ ready \in 0..Cardinality(Jobs)
         /\ found \in Seq(Jobs)

LEMMA TypeParts == TypeOK <=> Shape /\ Recency /\ Locks /\ Reads
BY DEF TypeOK, Shape, Recency, Locks, Reads

\* The elements of a selection.
LEMMA SelectedRange ==
    ASSUME NEW S, NEW s \in Seq(S), NEW T
    PROVE  Range(Selected(s, T)) = Range(s) \cap T
<1> PICK r : r = Selected(s, T)
    OBVIOUS
<1>1. r \in Seq(S \cap T)
    BY SelectedTyped
<1>2. DOMAIN r = 1..Len(r) /\ DOMAIN s = 1..Len(s)
    BY <1>1
<1>3. ASSUME NEW p \in 1..Len(r) PROVE r[p] \in Range(s) \cap T
    <2>1. p \in 1..Len(Selected(s, T))
        OBVIOUS
    <2>2. Selected(s, T)[p] \in T /\ \E i \in 1..Len(s) : s[i] = Selected(s, T)[p]
        BY <2>1, SelectedMember
    <2> QED BY <1>2, <2>2 DEF Range
<1>4. ASSUME NEW i \in 1..Len(s), s[i] \in T PROVE s[i] \in Range(r)
    <2> PICK y, t : y = s[i] /\ t = WithValue(s, i, y)
        OBVIOUS
    <2>1. y \in S /\ s[i] \in T /\ y \in T
        BY <1>4
    <2>2. \E p \in 1..Len(Selected(s, T)) :
            /\ Selected(s, T)[p] = s[i]
            /\ Selected(t, T) = WithValue(Selected(s, T), p, y)
        BY <2>1, SelectedReplaced
    <2> QED BY <1>2, <2>2 DEF Range
<1>5. \A x \in Range(r) : x \in Range(s) \cap T
    BY <1>2, <1>3 DEF Range
<1>6. \A x \in Range(s) \cap T : x \in Range(r)
    BY <1>2, <1>4 DEF Range
<1> QED BY <1>5, <1>6

LEMMA OnceInjective ==
    ASSUME NEW S, NEW s \in Seq(S)
    PROVE  IsOnce(s) <=> IsInjective(s)
<1>1. DOMAIN s = 1..Len(s)
    OBVIOUS
<1>2. ASSUME IsOnce(s), NEW a \in DOMAIN s, NEW b \in DOMAIN s, s[a] = s[b] PROVE a = b
    <2>1. a \in 1..Len(s) /\ b \in 1..Len(s)
        BY <1>1
    <2> QED BY <1>2, <2>1 DEF IsOnce
<1>3. ASSUME IsInjective(s), NEW a \in 1..Len(s), NEW b \in 1..Len(s), s[a] = s[b] PROVE a = b
    BY <1>1, <1>3 DEF IsInjective
<1> QED BY <1>2, <1>3 DEF IsOnce, IsInjective

\* The jobs but one, and that one put last.
LEMMA OthersKnown ==
    ASSUME Recency, NEW j \in Jobs
    PROVE  /\ Others(j) \in Seq(Jobs) /\ IsInjective(Others(j))
           /\ Range(Others(j)) = In(Materialized) \ {j}
<1> PICK T, s : T = Jobs \ {j} /\ s = recency
    OBVIOUS
<1>1. s \in Seq(Jobs) /\ IsOnce(s) /\ Others(j) = Selected(s, T)
    <2>1. s \in Seq(Jobs) /\ IsInjective(s)
        BY DEF Recency
    <2>2. IsOnce(s)
        BY <2>1, OnceInjective
    <2> QED BY <2>1, <2>2 DEF Others
<1>0. IsOnce(Selected(s, T))
    BY <1>1, SelectedOnce
<1> PICK r : r = Selected(s, T)
    OBVIOUS
<1>2. r \in Seq(Jobs \cap T) /\ Jobs \cap T = T /\ T \subseteq Jobs
    BY <1>1, SelectedTyped
<1>3. r \in Seq(Jobs)
    BY <1>2
<1>4. IsOnce(r)
    BY <1>0
<1>5. IsInjective(r)
    BY <1>3, <1>4, OnceInjective
<1>6. Range(r) = Range(s) \cap T
    BY <1>1, SelectedRange
<1>7. Range(s) = In(Materialized) /\ In(Materialized) \subseteq Jobs
    BY DEF Recency, In
<1> QED BY <1>1, <1>3, <1>5, <1>6, <1>7

LEMMA TouchedKnown ==
    ASSUME Recency, NEW j \in Jobs
    PROVE  /\ Touched(j) \in Seq(Jobs) /\ IsInjective(Touched(j))
           /\ Range(Touched(j)) = In(Materialized) \cup {j}
<1> PICK o, t, k : o = Others(j) /\ t = Touched(j) /\ k = Len(o)
    OBVIOUS
<1>1. o \in Seq(Jobs) /\ IsInjective(o) /\ Range(o) = In(Materialized) \ {j}
    BY OthersKnown
<1>2. t = Append(o, j)
    BY DEF Touched
<1>3. /\ k \in Nat /\ t \in Seq(Jobs) /\ Len(t) = k + 1 /\ t[k + 1] = j
      /\ DOMAIN o = 1..k /\ DOMAIN t = 1..(k + 1)
      /\ \A n \in 1..k : t[n] = o[n]
    BY <1>1, <1>2
<1>4. \A n \in 1..(k + 1) : n \in 1..k \/ n = k + 1
    BY <1>3
<1>5. \A n \in 1..k : o[n] # j /\ n \in 1..(k + 1)
    <2> TAKE n \in 1..k
    <2>1. o[n] \in Range(o)
        BY <1>3 DEF Range
    <2> QED BY <1>1, <1>3, <2>1
<1>6. IsInjective(t)
    BY <1>1, <1>3, <1>4, <1>5 DEF IsInjective
<1>7. k + 1 \in 1..(k + 1)
    BY <1>3
<1>8. Range(t) = Range(o) \cup {j}
    <2>1. \A x \in Range(o) : x \in Range(t)
        BY <1>3, <1>5 DEF Range
    <2>2. j \in Range(t)
        BY <1>3, <1>7 DEF Range
    <2>3. \A x \in Range(t) : x \in Range(o) \/ x = j
        BY <1>3, <1>4 DEF Range
    <2> QED BY <2>1, <2>2, <2>3
<1> QED BY <1>1, <1>3, <1>6, <1>8

LEMMA TypeInit == Init => TypeOK
<1> SUFFICES ASSUME Init PROVE Shape /\ Recency /\ Locks /\ Reads
    BY TypeParts
<1>1. Cardinality(Jobs) \in Nat
    BY RetentionAssumption, FS_CardinalityType
<1>2. recency = <<>> /\ IsInjective(<<>>) /\ Range(<<>>) = {}
    BY DEF Init, IsInjective, Range
<1>3. In(Materialized) = {}
    BY DEF Init, In, Materialized
<1>4. Recency
    BY <1>2, <1>3 DEF Recency
<1>5. Locks
    BY DEF Init, Locks
<1>6. Reads
    BY <1>1 DEF Init, Reads
<1> QED BY <1>4, <1>5, <1>6, ShapeInit

\* Which jobs are materialized, after a step that writes one job.
LEMMA MaterializedAfter ==
    ASSUME Shape, NEW j \in Jobs, NEW s \in Statuses, status' = [status EXCEPT ![j] = s]
    PROVE  In(Materialized)' = IF s \in Materialized THEN In(Materialized) \cup {j}
                               ELSE In(Materialized) \ {j}
BY DEF Shape, In

LEMMA RecencyStep == Shape /\ Recency /\ Locks /\ [Next]_vars => Recency'
<1> SUFFICES ASSUME Shape, Recency, Locks, [Next]_vars PROVE Recency'
    OBVIOUS
<1>0. Statuses = {"running", "awaiting_selection", "ready", "cleaning", "cleanup_failed",
                  "cleaned", "detached"}
      /\ Materialized = {"awaiting_selection", "ready"}
    BY DEF Statuses, ReadyClass, Materialized
<1>1. ASSUME NEW j \in Jobs, SelectMedia(j) PROVE Recency'
    <2>1. In(Materialized)' = In(Materialized) \cup {j} /\ j \in In(Materialized)
        BY <1>0, <1>1, MaterializedAfter DEF SelectMedia, In
    <2> QED BY <1>1, <2>1 DEF SelectMedia, Recency
<1>2. ASSUME NEW j \in Jobs, CommitLease(j) PROVE Recency'
    <2>1. j \in In(Materialized) /\ UNCHANGED status
        BY <1>0, <1>2 DEF CommitLease, Locks, In
    <2>2. In(Materialized)' = In(Materialized) \cup {j}
        BY <2>1 DEF In
    <2> QED BY <1>2, <2>2, TouchedKnown DEF CommitLease, Recency
<1>3. ASSUME NEW j \in Jobs, RequestCleanup(j) PROVE Recency'
    <2>1. In(Materialized)' = In(Materialized) \ {j}
        BY <1>0, <1>3, MaterializedAfter DEF RequestCleanup
    <2> QED BY <1>3, <2>1, OthersKnown DEF RequestCleanup, Recency
<1>4. ASSUME NEW w \in Workers, NEW j \in Jobs, Resolve(w, j) PROVE Recency'
    <2>1. In(Materialized)' = In(Materialized) \cup {j}
        BY <1>0, <1>4, MaterializedAfter DEF Resolve
    <2> QED BY <1>4, <2>1, TouchedKnown DEF Resolve, Recency
<1>5. ASSUME NEW w \in Workers, NEW j \in Jobs, CompleteCancel(w, j) \/ EndAttempt(w, j)
      PROVE  Recency'
    <2>1. In(Materialized)' = In(Materialized) \ {j} /\ j \notin In(Materialized)
        BY <1>0, <1>5, MaterializedAfter DEF CompleteCancel, EndAttempt, In
    <2> QED BY <1>5, <2>1 DEF CompleteCancel, EndAttempt, Recency
<1>6. ASSUME Evict PROVE Recency'
    <2>1. PICK j \in Jobs : /\ status' = [status EXCEPT ![j] = "cleaning"]
                            /\ recency' = Others(j)
        BY <1>6 DEF Evict
    <2>2. In(Materialized)' = In(Materialized) \ {j}
        BY <1>0, <2>1, MaterializedAfter
    <2> QED BY <2>1, <2>2, OthersKnown DEF Recency
<1>7. CASE UNCHANGED <<status, recency>>
    BY <1>7 DEF Recency, In
<1>8. \/ UNCHANGED <<status, recency>>
      \/ Evict
      \/ \E j \in Jobs : SelectMedia(j) \/ CommitLease(j) \/ RequestCleanup(j)
      \/ \E w \in Workers, j \in Jobs :
           Resolve(w, j) \/ CompleteCancel(w, j) \/ EndAttempt(w, j)
    BY DEF Next, ClaimStep, vars, Expire, BeginLease, AbortLease, EndLease, GiveUp,
           ClaimCleaning, Consider, Crash, CountCleaning, CountReady, SelectVictims, NoVictim
<1> QED BY <1>1, <1>2, <1>3, <1>4, <1>5, <1>6, <1>7, <1>8

\* A locked row is not cleaned, and only a ready one is locked.
LEMMA LocksStep == Shape /\ Locks /\ [Next]_vars => Locks'
<1> SUFFICES ASSUME Shape, Locks, [Next]_vars PROVE Locks'
    OBVIOUS
<1>1. ASSUME NEW j \in Jobs, BeginLease(j) \/ CommitLease(j) \/ AbortLease(j) PROVE Locks'
    BY <1>1 DEF BeginLease, CommitLease, AbortLease, Locks
<1>2. ASSUME NEW j \in Jobs, SelectMedia(j) \/ RequestCleanup(j) PROVE Locks'
    BY <1>2 DEF SelectMedia, RequestCleanup, Locks, Shape
<1>3. ASSUME NEW w \in Workers, NEW j \in Jobs,
             Resolve(w, j) \/ CompleteCancel(w, j) \/ EndAttempt(w, j)
      PROVE  Locks'
    <2>1. ~locked[j] /\ UNCHANGED locked
        BY <1>3 DEF Resolve, CompleteCancel, EndAttempt, Locks
    <2>2. \A i \in Jobs : i # j => status'[i] = status[i]
        BY <1>3 DEF Resolve, CompleteCancel, EndAttempt, Shape
    <2> QED BY <2>1, <2>2 DEF Locks
<1>4. ASSUME Evict PROVE Locks'
    <2>1. PICK j \in Jobs : /\ ~locked[j] /\ status' = [status EXCEPT ![j] = "cleaning"]
                            /\ UNCHANGED locked
        BY <1>4 DEF Evict, Lockable
    <2> QED BY <2>1 DEF Locks, Shape
<1>5. CASE UNCHANGED <<status, locked>>
    BY <1>5 DEF Locks
<1>6. \/ UNCHANGED <<status, locked>>
      \/ Evict
      \/ \E j \in Jobs : \/ BeginLease(j) \/ CommitLease(j) \/ AbortLease(j)
                         \/ SelectMedia(j) \/ RequestCleanup(j)
      \/ \E w \in Workers, j \in Jobs :
           Resolve(w, j) \/ CompleteCancel(w, j) \/ EndAttempt(w, j)
    BY DEF Next, ClaimStep, vars, Expire, EndLease, GiveUp,
           ClaimCleaning, Consider, Crash, CountCleaning, CountReady, SelectVictims, NoVictim
<1> QED BY <1>1, <1>2, <1>3, <1>4, <1>5, <1>6

LEMMA ReadsStep == Recency /\ Reads /\ [Next]_vars => Reads'
<1> SUFFICES ASSUME Recency, Reads, [Next]_vars PROVE Reads'
    OBVIOUS
<1>1. \A S : Cardinality(In(S)) \in 0..Cardinality(Jobs)
    <2> TAKE S
    <2>1. IsFiniteSet(Jobs) /\ In(S) \subseteq Jobs
        BY RetentionAssumption DEF In
    <2>2. Cardinality(In(S)) <= Cardinality(Jobs) /\ IsFiniteSet(In(S))
        BY <2>1, FS_Subset
    <2>3. Cardinality(In(S)) \in Nat /\ Cardinality(Jobs) \in Nat
        BY <2>1, <2>2, FS_CardinalityType
    <2> QED BY <2>2, <2>3
<1>2. 0 \in 0..Cardinality(Jobs)
    BY RetentionAssumption, FS_CardinalityType
<1>3. CASE CountCleaning
    BY <1>1, <1>3 DEF CountCleaning, Reads
<1>4. CASE CountReady
    BY <1>1, <1>4 DEF CountReady, Reads
<1>5. CASE SelectVictims
    <2>1. PICK T, U : found' = Selected(recency, T) \o Selected(recency, U)
        BY <1>5 DEF SelectVictims
    <2>2. \A X : Selected(recency, X) \in Seq(Jobs)
        <3> TAKE X
        <3> PICK s, r : s = recency /\ r = Selected(s, X)
            OBVIOUS
        <3>1. s \in Seq(Jobs)
            BY DEF Recency
        <3>2. r \in Seq(Jobs \cap X)
            BY <3>1, SelectedTyped
        <3>3. r \in Seq(Jobs)
            BY <3>2
        <3> QED BY <3>3
    <2>3. found' \in Seq(Jobs)
        BY <2>1, <2>2
    <2> QED BY <1>5, <2>3 DEF SelectVictims, Reads
<1>6. CASE EndTxn
    BY <1>2, <1>6 DEF EndTxn, Reads
<1>7. CASE UNCHANGED <<cleaning, ready, found>>
    BY <1>7 DEF Reads
<1>8. \/ UNCHANGED <<cleaning, ready, found>>
      \/ EndTxn \/ CountCleaning \/ CountReady \/ SelectVictims
    BY DEF Next, ClaimStep, vars, txn, SelectMedia, Expire, RequestCleanup, BeginLease,
           CommitLease, AbortLease, EndLease, GiveUp, ClaimCleaning, Consider, Crash,
           Resolve, CompleteCancel, EndAttempt, Evict, NoVictim
<1> QED BY <1>3, <1>4, <1>5, <1>6, <1>7, <1>8

\* The rows keep their shape, each materialized job has its one place in the order
\* of the last use, and a row locked for a lease is ready (ttl_lru.py, lease.py).
THEOREM RetentionTypes == Spec => []TypeOK
<1>1. TypeOK /\ [Next]_vars => TypeOK'
    <2> SUFFICES ASSUME TypeOK, [Next]_vars PROVE TypeOK'
        OBVIOUS
    <2>1. Shape /\ Recency /\ Locks /\ Reads
        BY TypeParts
    <2>2. Shape' /\ Recency' /\ Locks' /\ Reads'
        BY <2>1, ShapeStep, RecencyStep, LocksStep, ReadsStep
    <2> QED BY <2>2 DEF TypeOK, Shape, Recency, Locks, Reads
<1> QED BY <1>1, TypeInit, PTL DEF Spec
===========================================================
