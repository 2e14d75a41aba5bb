--------------------------- MODULE MetadataProofs ---------------------------
(***************************************************************************)
(* What is proved of the metadata queue, its supervisor and its children,  *)
(* for any movies, stages and bounds: the slots are respected, the catalog *)
(* says what the jobs do, rows and children keep their types, and the      *)
(* queue implements the abstract work queue.                               *)
(***************************************************************************)
EXTENDS MetadataWorker, SelectionProofs, FiniteSetTheorems, TLAPS

\* What the constants are, by both compositions that take the queue in.
MetadataConstants ==
  /\ MaxRunning \in Nat /\ MaxJobs \in Nat /\ MaxFaults \in Nat
  /\ OPTIONAL_STAGES \in Seq(Optional)

-----------------------------------------------------------------------------
(* The rows that the operations write.                                     *)

\* A claim names a job there is.
Named(c) == c.movie \in Movies /\ c.attempt \in DOMAIN jobs[c.movie]

LiveJob(j) == j.status = "running" /\ j.live

Done(j) == j.stages[Core] = "succeeded"

\* One stage runs at most, and only while the job runs; a claim is of a job
\* that runs.
IsStill(j)  == \A stage \in Stages : j.stages[stage] # "running"
Runs(j, s)  == \A stage \in Stages : j.stages[stage] = "running" <=> stage = s

RowShape(j) ==
  /\ j.status = "running" <=> j.owner # 0
  /\ j.live => j.status = "running"
  /\ \A s \in Stages : j.stages[s] = "running" => j.status = "running" /\ Runs(j, s)

LEMMA AllStages ==
  ASSUME MetadataConstants
  PROVE  Core \in Stages /\ ALL_STAGES \in Seq(Stages)
<1> DEFINE T == Optional \union {Core}
<1>1. OPTIONAL_STAGES \in Seq(T)
  <2>1. OPTIONAL_STAGES \in Seq(Optional)
    BY DEF MetadataConstants
  <2> HIDE DEF T
  <2>2. Optional \subseteq T
    BY DEF T
  <2> QED
    BY <2>1, <2>2
<1>2. Core \in T
  OBVIOUS
<1> HIDE DEF T
<1>3. PICK first : first = <<Core>>
  OBVIOUS
<1>4. first \in Seq(T) /\ Len(first) = 1 /\ first[1] = Core
  BY <1>2, <1>3
<1>5. ALL_STAGES = first \o OPTIONAL_STAGES
  BY <1>3 DEF ALL_STAGES
<1>6. /\ Len(first \o OPTIONAL_STAGES) = Len(first) + Len(OPTIONAL_STAGES)
      /\ \A i \in 1 .. Len(first) + Len(OPTIONAL_STAGES) :
           (first \o OPTIONAL_STAGES)[i] =
             IF i <= Len(first) THEN first[i] ELSE OPTIONAL_STAGES[i - Len(first)]
      /\ first \o OPTIONAL_STAGES \in Seq(T)
  <2>1. first \in Seq(T)
    BY <1>4
  <2> QED
    BY <1>1, <2>1, ConcatProperties
<1>7. 1 \in DOMAIN ALL_STAGES /\ ALL_STAGES[1] = Core
  <2>1. 1 \in 1 .. Len(first) + Len(OPTIONAL_STAGES) /\ 1 <= Len(first)
    BY <1>1, <1>4
  <2>2. (first \o OPTIONAL_STAGES)[1] = Core
    BY <2>1, <1>4, <1>6
  <2> QED
    BY <2>1, <2>2, <1>5, <1>6
<1>8. ALL_STAGES \in Seq(Stages)
  <2> PICK s : s = ALL_STAGES
    OBVIOUS
  <2> PICK S : S = Stages
    OBVIOUS
  <2>1. s \in Seq(T) /\ S = {s[i] : i \in DOMAIN s}
    BY <1>5, <1>6 DEF Stages, Range
  <2> QED
    BY <2>1
<1> QED
  BY <1>7, <1>8 DEF Stages, Range

LEMMA QueueRows ==
  ASSUME jobs \in [Movies -> Seq(JobRow)], NEW m \in Movies
  PROVE  /\ jobs[m] \in Seq(JobRow) /\ Len(jobs[m]) \in Nat
         /\ DOMAIN jobs[m] = 1 .. Len(jobs[m])
         /\ \A a \in DOMAIN jobs[m] : jobs[m][a] \in JobRow
<1>1. jobs[m] \in Seq(JobRow)
  OBVIOUS
<1> QED
  BY <1>1

LEMMA ClaimedRow ==
  ASSUME MetadataConstants, NEW j \in JobRow, NEW token \in Nat
  PROVE  /\ ClaimedJob(j, token) \in JobRow
         /\ ClaimedJob(j, token).status = "running"
         /\ ClaimedJob(j, token).owner = token
         /\ Done(ClaimedJob(j, token)) => Done(j)
         /\ IsStill(ClaimedJob(j, token))
<1> DEFINE stages == [stage \in Stages |->
                        IF j.stages[stage] = "running" THEN "pending" ELSE j.stages[stage]]
<1>1. /\ stages \in [Stages -> StageStatus] /\ "running" \in JobStatus
      /\ \A stage \in Stages : stages[stage] # "running"
  BY DEF JobRow, StageStatus, JobStatus
<1>2. ClaimedJob(j, token) =
        [j EXCEPT !.status = "running", !.owner = token, !.live = TRUE, !.stages = stages]
  BY DEF ClaimedJob, JobRow
<1>3. stages[Core] = "succeeded" => Done(j)
  BY AllStages DEF Done
<1> HIDE DEF stages
<1> QED
  BY <1>1, <1>2, <1>3 DEF JobRow, Done, IsStill

LEMMA FinishedRow ==
  ASSUME NEW j \in JobRow, NEW status \in JobStatus
  PROVE  /\ FinishedJob(j, status) \in JobRow
         /\ FinishedJob(j, status).status = status
         /\ FinishedJob(j, status).owner = 0 /\ ~FinishedJob(j, status).live
         /\ FinishedJob(j, status).stages = j.stages
  BY DEF FinishedJob, JobRow

StageSet(j, stage, status) == [j EXCEPT !.stages[stage] = status]

LEMMA StageRow ==
  ASSUME MetadataConstants, NEW j \in JobRow, NEW stage, NEW status \in StageStatus
  PROVE  /\ StageSet(j, stage, status) \in JobRow
         /\ StageSet(j, stage, status).status = j.status
         /\ StageSet(j, stage, status).owner = j.owner
         /\ StageSet(j, stage, status).live = j.live
         /\ Done(StageSet(j, stage, status)) =>
              Done(j) \/ (stage = Core /\ status = "succeeded")
<1> DEFINE stages == [j.stages EXCEPT ![stage] = status]
<1>1. stages \in [Stages -> StageStatus]
  BY DEF JobRow
<1>2. StageSet(j, stage, status) = [j EXCEPT !.stages = stages]
  BY DEF JobRow, StageSet
<1>3. stages[Core] = "succeeded" =>
        Done(j) \/ (stage = Core /\ status = "succeeded")
  BY AllStages DEF JobRow, Done
<1> HIDE DEF stages
<1>4. /\ StageSet(j, stage, status) \in JobRow
      /\ StageSet(j, stage, status).status = j.status
      /\ StageSet(j, stage, status).owner = j.owner
      /\ StageSet(j, stage, status).live = j.live
      /\ StageSet(j, stage, status).stages = stages
  BY <1>1, <1>2 DEF JobRow
<1> QED
  BY <1>3, <1>4 DEF Done

LEMMA StagesSet ==
  ASSUME NEW j \in JobRow, NEW stage, NEW status \in StageStatus
  PROVE  StageSet(j, stage, status).stages = [j.stages EXCEPT ![stage] = status]
  BY DEF JobRow, StageSet

LEMMA FailedRow ==
  ASSUME MetadataConstants, NEW j \in JobRow
  PROVE  /\ FailedJob(j) \in JobRow
         /\ FailedJob(j).status = "failed" /\ FailedJob(j).owner = 0
         /\ Done(FailedJob(j)) => Done(j)
         /\ RowShape(j) => RowShape(FailedJob(j))
<1> PICK old : old = FinishedJob(j, "failed")
  OBVIOUS
<1>1. old \in JobRow /\ old.status = "failed" /\ old.owner = 0 /\ ~old.live /\ old.stages = j.stages
  BY FinishedRow DEF JobStatus
<1> DEFINE running == {stage \in Stages : j.stages[stage] = "running"}
           closed == IF running = {} THEN Core ELSE CHOOSE stage \in running : TRUE
           status == IF running = {} THEN old.stages[closed] ELSE "failed"
           stages == [old.stages EXCEPT ![closed] = status]
<1>2. FailedJob(j) = [old EXCEPT !.stages = stages]
  BY <1>1 DEF FailedJob, JobRow
<1>3. old.stages \in [Stages -> StageStatus]
  BY <1>1 DEF JobRow
<1>4. closed \in Stages => status \in StageStatus
  BY <1>3 DEF StageStatus
<1>5. /\ status = old.stages[closed] \/ status = "failed"
      /\ running # {} => closed \in running /\ status = "failed"
  OBVIOUS
<1>6. RowShape(j) => \A stage \in Stages : stages[stage] # "running"
  <2> SUFFICES ASSUME RowShape(j), NEW stage \in Stages, stages[stage] = "running"
               PROVE  FALSE
    OBVIOUS
  <2>1. CASE running = {}
    <3>1. stages = old.stages
      BY <1>3, <2>1
    <3> QED
      BY <1>1, <2>1, <3>1
  <2>2. CASE running # {}
    <3>1. closed \in Stages /\ j.stages[closed] = "running" /\ status = "failed"
      BY <1>5, <2>2
    <3> HIDE DEF closed, status, running
    <3>2. stage # closed /\ j.stages[stage] = "running"
      BY <1>1, <1>3, <3>1
    <3> QED
      BY <3>1, <3>2 DEF RowShape, Runs
  <2> QED
    BY <2>1, <2>2
<1> HIDE DEF closed, status
<1>7. stages \in [Stages -> StageStatus]
  BY <1>3, <1>4
<1>8. stages[Core] = "succeeded" => Done(j)
  BY <1>1, <1>3, <1>5, AllStages DEF Done
<1> HIDE DEF stages
<1>9. FailedJob(j) \in JobRow /\ FailedJob(j).status = "failed" /\ FailedJob(j).owner = 0
      /\ ~FailedJob(j).live /\ FailedJob(j).stages = stages
  BY <1>1, <1>2, <1>7 DEF JobRow
<1> QED
  BY <1>6, <1>8, <1>9 DEF Done, RowShape

LEMMA NewRow ==
  ASSUME MetadataConstants,
         NEW reason \in {"initial", "history", "manual_or_search", "ranking"},
         NEW mode \in {"full", "missing_enrichment"},
         NEW requested \in SUBSET Optional, NEW parent \in Nat
  PROVE  /\ NewJob(reason, mode, requested, parent) \in JobRow
         /\ NewJob(reason, mode, requested, parent).status = "queued"
         /\ NewJob(reason, mode, requested, parent).owner = 0
         /\ RowShape(NewJob(reason, mode, requested, parent))
         /\ ~Done(NewJob(reason, mode, requested, parent))
<1>1. reason \in Reasons
  BY DEF Reasons, PRIORITY_BY_REASON
<1>2. /\ StagePlan(mode, requested) \in [Stages -> StageStatus]
      /\ StagePlan(mode, requested)[Core] # "succeeded"
      /\ \A stage \in Stages : StagePlan(mode, requested)[stage] # "running"
  BY AllStages DEF StagePlan, StageStatus
<1>3. "queued" \in JobStatus
  BY DEF JobStatus
<1> QED
  BY <1>1, <1>2, <1>3 DEF NewJob, JobRow, Done, RowShape

\* One row becomes another.
LEMMA RowSet ==
  ASSUME jobs \in [Movies -> Seq(JobRow)], NEW m \in Movies, NEW a \in DOMAIN jobs[m],
         NEW row \in JobRow, SetJob(m, a, row)
  PROVE  /\ jobs' \in [Movies -> Seq(JobRow)]
         /\ \A n \in Movies : DOMAIN jobs'[n] = DOMAIN jobs[n] /\ Len(jobs'[n]) = Len(jobs[n])
         /\ jobs'[m][a] = row
         /\ \A n \in Movies : n # m => jobs'[n] = jobs[n]
         /\ \A n \in Movies : \A b \in DOMAIN jobs[n] :
              n # m \/ b # a => jobs'[n][b] = jobs[n][b]
<1> DEFINE mine == [jobs[m] EXCEPT ![a] = row]
<1>1. jobs[m] \in Seq(JobRow)
  OBVIOUS
<1>2. /\ mine \in Seq(JobRow) /\ DOMAIN mine = DOMAIN jobs[m] /\ mine[a] = row
      /\ \A b \in DOMAIN jobs[m] : b # a => mine[b] = jobs[m][b]
      /\ Len(mine) = Len(jobs[m])
  BY <1>1
<1>3. jobs' = [jobs EXCEPT ![m] = mine]
  BY DEF SetJob
<1> HIDE DEF mine
<1>4. jobs'[m] = mine /\ \A n \in Movies : n # m => jobs'[n] = jobs[n]
  BY <1>3
<1>5. jobs' \in [Movies -> Seq(JobRow)]
  BY <1>2, <1>3
<1> QED
  BY <1>2, <1>4, <1>5

-----------------------------------------------------------------------------
(* The metadata jobs.  A job that is no longer the youngest of its movie   *)
(* is over, so whoever claims, ends or fails a job works on the youngest.  *)

MetadataTypes ==
  /\ jobs \in [Movies -> Seq(JobRow)] /\ claims \in Nat
  /\ \A c \in children : Named(c)
  /\ slot # NoClaim => Named(slot)
  /\ \A c \in DOMAIN procs : Named(c)

YoungestActive ==
  \A m \in Movies : \A a \in DOMAIN jobs[m] :
    Active(jobs[m][a]) => a = Len(jobs[m])

SlotsBounded ==
  IsFiniteSet(LiveJobs) /\ Cardinality(LiveJobs) <= MaxRunning

QueueInv == MetadataTypes /\ YoungestActive /\ SlotsBounded

\* The jobs that count against the slots.
LEMMA LiveRows ==
  LiveJobs = {id \in JobIds : id[2] \in 1 .. Len(jobs[id[1]])
                                                  /\ LiveJob(jobs[id[1]][id[2]])}
<1>1. ASSUME NEW id
      PROVE  id \in LiveJobs <=>
               id \in JobIds /\ id[2] \in 1 .. Len(jobs[id[1]]) /\ LiveJob(jobs[id[1]][id[2]])
  BY DEF LiveJobs, RunningJobs, ActiveJobs, Exists,
     Active, LiveJob
<1> DEFINE S == {id \in JobIds : id[2] \in 1 .. Len(jobs[id[1]]) /\ LiveJob(jobs[id[1]][id[2]])}
<1>2. \A id : id \in S <=> id \in JobIds /\ id[2] \in 1 .. Len(jobs[id[1]])
                              /\ LiveJob(jobs[id[1]][id[2]])
  OBVIOUS
<1> HIDE DEF S
<1>3. LiveJobs = S
  BY <1>1, <1>2
<1> QED
  BY <1>3 DEF S

LEMMA QueueStarts ==
  ASSUME MetadataConstants PROVE Init => QueueInv
<1> SUFFICES ASSUME Init PROVE QueueInv
  OBVIOUS
<1> USE DEF Init, QueueInit
<1>1. \A m \in Movies : jobs[m] = <<>>
  OBVIOUS
<1>2. MetadataTypes
  BY DEF MetadataTypes
<1>3. YoungestActive
  BY <1>1 DEF YoungestActive
<1>4. SlotsBounded
  <2>1. \A id \in JobIds : ~(id[2] \in 1 .. Len(jobs[id[1]]))
    BY <1>1 DEF JobIds
  <2>2. LiveJobs = {}
    BY <2>1, LiveRows
  <2> QED
    BY <2>2, FS_EmptySet DEF SlotsBounded, MetadataConstants
<1> QED
  BY <1>2, <1>3, <1>4 DEF QueueInv

\* A step that adds no job and claims none: rows end or lose their lease, and
\* the claims that are around were around before.
LEMMA QueueQuiet ==
  ASSUME MetadataConstants, QueueInv, claims' = claims, jobs' \in [Movies -> Seq(JobRow)],
         \A m \in Movies :
           /\ DOMAIN jobs'[m] = DOMAIN jobs[m]
           /\ \A a \in DOMAIN jobs[m] :
                /\ Active(jobs'[m][a]) => Active(jobs[m][a])
                /\ LiveJob(jobs'[m][a]) => LiveJob(jobs[m][a]),
         \A c \in children' : c \in children \/ (c = slot /\ slot # NoClaim),
         slot' # NoClaim => slot' = slot,
         \A c \in DOMAIN procs' : c \in DOMAIN procs \/ (c = slot /\ slot # NoClaim)
  PROVE  QueueInv'
<1>1. jobs \in [Movies -> Seq(JobRow)] /\ claims \in Nat
  BY DEF QueueInv, MetadataTypes
<1>2. \A m \in Movies : Len(jobs'[m]) = Len(jobs[m])
  <2>1. \A m \in Movies : jobs[m] \in Seq(JobRow) /\ jobs'[m] \in Seq(JobRow)
    BY <1>1
  <2> QED
    BY <2>1
<1>3. MetadataTypes'
  BY <1>1 DEF QueueInv, MetadataTypes, Named
<1>4. YoungestActive'
  BY <1>2 DEF QueueInv, YoungestActive
<1>5. SlotsBounded'
  <2>1. LiveJobs' \subseteq LiveJobs
    <3> SUFFICES ASSUME NEW id \in LiveJobs' PROVE id \in LiveJobs
      OBVIOUS
    <3>1. id \in JobIds /\ id[2] \in 1 .. Len(jobs'[id[1]]) /\ LiveJob(jobs'[id[1]][id[2]])
      BY DEF LiveJobs, RunningJobs, ActiveJobs, Exists,
         Active, LiveJob, JobIds
    <3>2. id[1] \in Movies
      BY <3>1 DEF JobIds
    <3>3. id[2] \in DOMAIN jobs[id[1]]
      BY <1>1, <1>2, <3>1, <3>2, QueueRows
    <3>4. id[2] \in 1 .. Len(jobs[id[1]]) /\ LiveJob(jobs[id[1]][id[2]])
      BY <1>2, <3>1, <3>2, <3>3
    <3> QED
      BY <3>1, <3>4, LiveRows
  <2>2. IsFiniteSet(LiveJobs) /\ Cardinality(LiveJobs) <= MaxRunning
    BY DEF QueueInv, SlotsBounded
  <2>3. IsFiniteSet(LiveJobs') /\ Cardinality(LiveJobs') <= MaxRunning
    BY <2>1, <2>2, FS_Subset, FS_CardinalityType DEF MetadataConstants
  <2> QED
    BY <2>3 DEF SlotsBounded
<1> QED
  BY <1>3, <1>4, <1>5 DEF QueueInv

\* A row that is not made active or alive by its change leaves the invariant.
LEMMA QueueRow ==
  ASSUME MetadataConstants, QueueInv, NEW m \in Movies, NEW a \in DOMAIN jobs[m], NEW row \in JobRow,
         SetJob(m, a, row), claims' = claims,
         Active(row) => Active(jobs[m][a]),
         LiveJob(row) => LiveJob(jobs[m][a]),
         \A c \in children' : c \in children \/ (c = slot /\ slot # NoClaim),
         slot' # NoClaim => slot' = slot,
         \A c \in DOMAIN procs' : c \in DOMAIN procs \/ (c = slot /\ slot # NoClaim)
  PROVE  QueueInv'
<1>1. jobs \in [Movies -> Seq(JobRow)]
  BY DEF QueueInv, MetadataTypes
<1>2. /\ jobs' \in [Movies -> Seq(JobRow)]
      /\ \A n \in Movies : DOMAIN jobs'[n] = DOMAIN jobs[n]
      /\ jobs'[m][a] = row
      /\ \A n \in Movies : \A b \in DOMAIN jobs[n] :
           n # m \/ b # a => jobs'[n][b] = jobs[n][b]
  BY <1>1, RowSet
<1>3. ASSUME NEW n \in Movies, NEW b \in DOMAIN jobs[n]
      PROVE  /\ Active(jobs'[n][b]) => Active(jobs[n][b])
             /\ LiveJob(jobs'[n][b]) => LiveJob(jobs[n][b])
  BY <1>2
<1> QED
  BY <1>2, <1>3, QueueQuiet

\* A job is added for a movie that has no active one.
LEMMA QueueAdd ==
  ASSUME MetadataConstants, QueueInv, NEW m \in Movies, NEW row \in JobRow, row.status = "queued",
         \A a \in DOMAIN jobs[m] : ~Active(jobs[m][a]),
         jobs' = [jobs EXCEPT ![m] = Append(@, row)],
         UNCHANGED <<claims, children, slot, procs>>
  PROVE  QueueInv'
<1>0. jobs \in [Movies -> Seq(JobRow)] /\ MetadataTypes /\ YoungestActive
  BY DEF QueueInv, MetadataTypes
<1>1. /\ jobs[m] \in Seq(JobRow) /\ Len(jobs[m]) \in Nat
      /\ DOMAIN jobs[m] = 1 .. Len(jobs[m])
  BY <1>0, QueueRows
<1> DEFINE mine == Append(jobs[m], row)
<1>2. /\ mine \in Seq(JobRow) /\ Len(mine) = Len(jobs[m]) + 1
      /\ DOMAIN mine = 1 .. Len(jobs[m]) + 1
      /\ mine[Len(jobs[m]) + 1] = row /\ \A a \in DOMAIN jobs[m] : mine[a] = jobs[m][a]
  BY <1>1
<1>3. jobs' = [jobs EXCEPT ![m] = mine]
  OBVIOUS
<1> HIDE DEF mine
<1>4. /\ jobs' \in [Movies -> Seq(JobRow)] /\ jobs'[m] = mine
      /\ \A n \in Movies : n # m => jobs'[n] = jobs[n]
  BY <1>0, <1>2, <1>3
<1>5. \A n \in Movies : \A a \in DOMAIN jobs[n] : a \in DOMAIN jobs'[n] /\ jobs'[n][a] = jobs[n][a]
  BY <1>1, <1>2, <1>4
<1>6. MetadataTypes'
  BY <1>0, <1>4, <1>5 DEF MetadataTypes, Named
<1>7. YoungestActive'
  <2> SUFFICES ASSUME NEW n \in Movies, NEW a \in DOMAIN jobs'[n], Active(jobs'[n][a])
               PROVE  a = Len(jobs'[n])
    BY DEF YoungestActive, Active
  <2>1. CASE n = m
    BY <1>1, <1>2, <1>4, <2>1
  <2>2. CASE n # m
    BY <1>0, <1>4, <2>2 DEF YoungestActive
  <2> QED
    BY <2>1, <2>2
<1>8. SlotsBounded'
  <2>1. LiveJobs' \subseteq LiveJobs
    <3> SUFFICES ASSUME NEW id \in LiveJobs' PROVE id \in LiveJobs
      OBVIOUS
    <3>1. id \in JobIds /\ id[2] \in 1 .. Len(jobs'[id[1]]) /\ LiveJob(jobs'[id[1]][id[2]])
      BY DEF LiveJobs, RunningJobs, ActiveJobs, Exists,
         Active, LiveJob, JobIds
    <3>2. id[1] \in Movies
      BY <3>1 DEF JobIds
    <3>3. jobs'[id[1]][id[2]] # row
      BY <3>1 DEF LiveJob
    <3>4. id[2] \in 1 .. Len(jobs[id[1]])
      <4>1. CASE id[1] = m
        BY <1>1, <1>2, <1>4, <3>1, <3>3, <4>1
      <4>2. CASE id[1] # m
        BY <1>4, <3>1, <3>2, <4>2
      <4> QED
        BY <4>1, <4>2
    <3>5. id[2] \in DOMAIN jobs[id[1]]
      BY <1>0, <3>2, <3>4, QueueRows
    <3> QED
      BY <1>5, <3>1, <3>2, <3>4, <3>5, LiveRows
  <2>2. IsFiniteSet(LiveJobs) /\ Cardinality(LiveJobs) <= MaxRunning
    BY DEF QueueInv, SlotsBounded
  <2>3. IsFiniteSet(LiveJobs') /\ Cardinality(LiveJobs') <= MaxRunning
    BY <2>1, <2>2, FS_Subset, FS_CardinalityType DEF MetadataConstants
  <2> QED
    BY <2>3 DEF SlotsBounded
<1> QED
  BY <1>6, <1>7, <1>8 DEF QueueInv

\* A claim takes a free slot: of the jobs that count against the slots only the
\* one that is claimed is new.
LEMMA QueueClaim ==
  ASSUME MetadataConstants, QueueInv, NEW m \in Movies, NEW a \in Nat, ClaimSlot(m, a)
  PROVE  QueueInv'
<1> DEFINE row == ClaimedJob(jobs[m][a], claims + 1)
<1>0. jobs \in [Movies -> Seq(JobRow)] /\ MetadataTypes /\ YoungestActive /\ claims \in Nat
  BY DEF QueueInv, MetadataTypes
<1>1. /\ a \in 1 .. Len(jobs[m]) /\ Claimable(jobs[m][a]) /\ claims' = claims + 1
      /\ SetJob(m, a, row) /\ SlotFree
      /\ slot' = Claim(m, a, claims + 1) /\ UNCHANGED <<children, procs>>
  BY DEF ClaimSlot, ClaimNext, Exists
<1>2. a \in DOMAIN jobs[m] /\ jobs[m][a] \in JobRow
  BY <1>0, <1>1, QueueRows
<1>3. row \in JobRow
  BY <1>0, <1>2, ClaimedRow
<1> HIDE DEF row
<1>4. /\ jobs' \in [Movies -> Seq(JobRow)]
      /\ \A n \in Movies : DOMAIN jobs'[n] = DOMAIN jobs[n]
      /\ jobs'[m][a] = row
      /\ \A n \in Movies : \A b \in DOMAIN jobs[n] :
           n # m \/ b # a => jobs'[n][b] = jobs[n][b]
  BY <1>0, <1>1, <1>2, <1>3, RowSet
<1>5. slot'.movie = m /\ slot'.attempt = a
  BY <1>1 DEF Claim
<1>6. MetadataTypes'
  BY <1>0, <1>1, <1>2, <1>4, <1>5 DEF MetadataTypes, Named
<1>7. \A n \in Movies : Len(jobs'[n]) = Len(jobs[n])
  <2>1. \A n \in Movies : jobs[n] \in Seq(JobRow) /\ jobs'[n] \in Seq(JobRow)
    BY <1>0, <1>4
  <2> QED
    BY <1>4, <2>1
<1>8. YoungestActive'
  <2>1. a = Len(jobs[m])
    BY <1>0, <1>1, <1>2 DEF YoungestActive, Claimable, Active
  <2> SUFFICES ASSUME NEW n \in Movies, NEW b \in DOMAIN jobs'[n], Active(jobs'[n][b])
               PROVE  b = Len(jobs'[n])
    BY DEF YoungestActive, Active
  <2>2. CASE n = m /\ b = a
    BY <1>7, <2>1, <2>2
  <2>3. CASE n # m \/ b # a
    BY <1>0, <1>4, <1>7, <2>3 DEF YoungestActive
  <2> QED
    BY <2>2, <2>3
<1>9. SlotsBounded'
  <2>1. LiveJobs' \subseteq LiveJobs \union {<<m, a>>}
    <3> SUFFICES ASSUME NEW id \in LiveJobs', id # <<m, a>> PROVE id \in LiveJobs
      OBVIOUS
    <3>1. id \in JobIds /\ id[2] \in 1 .. Len(jobs'[id[1]]) /\ LiveJob(jobs'[id[1]][id[2]])
      BY DEF LiveJobs, RunningJobs, ActiveJobs, Exists,
         Active, LiveJob, JobIds
    <3>2. id[1] \in Movies /\ (id[1] # m \/ id[2] # a)
      BY <3>1 DEF JobIds
    <3>3. id[2] \in 1 .. Len(jobs[id[1]]) /\ id[2] \in DOMAIN jobs[id[1]]
      BY <1>0, <1>7, <3>1, <3>2, QueueRows
    <3>4. jobs'[id[1]][id[2]] = jobs[id[1]][id[2]]
      BY <1>4, <3>2, <3>3
    <3> QED
      BY <3>1, <3>3, <3>4, LiveRows
  <2>2. IsFiniteSet(LiveJobs) /\ Cardinality(LiveJobs) < MaxRunning
    BY <1>1 DEF QueueInv, SlotsBounded, SlotFree
  <2>3. /\ IsFiniteSet(LiveJobs \union {<<m, a>>})
        /\ Cardinality(LiveJobs \union {<<m, a>>}) <= Cardinality(LiveJobs) + 1
    <3>1. Cardinality(LiveJobs) \in Nat
      BY <2>2, FS_CardinalityType
    <3> PICK S : S = LiveJobs
      OBVIOUS
    <3> PICK id : id = <<m, a>>
      OBVIOUS
    <3>2. IsFiniteSet(S) /\ Cardinality(S) \in Nat
      BY <2>2, <3>1
    <3>3. /\ IsFiniteSet(S \union {id})
          /\ Cardinality(S \union {id}) = IF id \in S THEN Cardinality(S) ELSE Cardinality(S) + 1
      BY <3>2, FS_AddElement
    <3>4. IsFiniteSet(S \union {id}) /\ Cardinality(S \union {id}) <= Cardinality(S) + 1
      BY <3>2, <3>3
    <3> QED
      BY <3>4
  <2>4. /\ Cardinality(LiveJobs) \in Nat
        /\ Cardinality(LiveJobs \union {<<m, a>>}) \in Nat
    BY <2>2, <2>3, FS_CardinalityType
  <2>5. IsFiniteSet(LiveJobs') /\ Cardinality(LiveJobs')
                                             <= Cardinality(LiveJobs \union {<<m, a>>})
    BY <2>1, <2>3, FS_Subset
  <2>6. Cardinality(LiveJobs') \in Nat
    BY <2>5, FS_CardinalityType
  <2>7. IsFiniteSet(LiveJobs') /\ Cardinality(LiveJobs') <= MaxRunning
    BY <2>2, <2>3, <2>4, <2>5, <2>6 DEF MetadataConstants
  <2> QED
    BY <2>7 DEF SlotsBounded
<1> QED
  BY <1>6, <1>8, <1>9 DEF QueueInv

\* The claims that are around after a step were around before.
Around ==
  /\ \A c \in children' : c \in children \/ (c = slot /\ slot # NoClaim)
  /\ slot' # NoClaim => slot' = slot
  /\ \A c \in DOMAIN procs' : c \in DOMAIN procs \/ (c = slot /\ slot # NoClaim)

\* The rows of the queue, as the bound of the model counts them.
Rows == {id \in JobIds : Exists(id[1], id[2])}

\* What a step does to the rows is one of these.
Submits ==
  \E m \in Movies, row \in JobRow :
    /\ row.status = "queued" /\ row.owner = 0 /\ RowShape(row)
    /\ \A a \in DOMAIN jobs[m] : ~Active(jobs[m][a])
    /\ Cardinality(Rows) < MaxJobs
    /\ jobs' = [jobs EXCEPT ![m] = Append(@, row)]
    /\ UNCHANGED <<claims, children, slot, procs>>

Takes == \E m \in Movies, a \in Nat : ClaimSlot(m, a)

Ends ==
  \E m \in Movies : \E a \in DOMAIN jobs[m] : \E row \in JobRow :
    /\ jobs[m][a].status = "running"
    /\ row.status \in {"completed", "completed_with_warnings", "failed"} /\ row.owner = 0
    /\ RowShape(jobs[m][a]) => RowShape(row)
    /\ SetJob(m, a, row)
    /\ claims' = claims /\ Around

Keeps ==
  /\ jobs' \in [Movies -> Seq(JobRow)]
  /\ \A m \in Movies :
       /\ DOMAIN jobs'[m] = DOMAIN jobs[m]
       /\ \A a \in DOMAIN jobs[m] :
            /\ jobs'[m][a].status = jobs[m][a].status /\ jobs'[m][a].owner = jobs[m][a].owner
            /\ jobs'[m][a].live => jobs[m][a].live
  /\ claims' = claims /\ Around

Stays ==
  /\ Keeps
  /\ \A m \in Movies : \A a \in DOMAIN jobs[m] : jobs'[m][a].stages = jobs[m][a].stages

LEMMA RowKept ==
  ASSUME MetadataConstants, QueueInv, NEW m \in Movies, NEW a \in DOMAIN jobs[m],
         NEW row \in JobRow, SetJob(m, a, row), claims' = claims, Around,
         row.status = jobs[m][a].status, row.owner = jobs[m][a].owner,
         row.live => jobs[m][a].live
  PROVE  Keeps /\ (row.stages = jobs[m][a].stages => Stays)
<1>1. jobs \in [Movies -> Seq(JobRow)]
  BY DEF QueueInv, MetadataTypes
<1>2. /\ jobs' \in [Movies -> Seq(JobRow)]
      /\ \A n \in Movies : DOMAIN jobs'[n] = DOMAIN jobs[n]
      /\ jobs'[m][a] = row
      /\ \A n \in Movies : \A b \in DOMAIN jobs[n] :
           n # m \/ b # a => jobs'[n][b] = jobs[n][b]
  BY <1>1, RowSet
<1>3. ASSUME NEW n \in Movies, NEW b \in DOMAIN jobs[n]
      PROVE  /\ jobs'[n][b].status = jobs[n][b].status /\ jobs'[n][b].owner = jobs[n][b].owner
             /\ jobs'[n][b].live => jobs[n][b].live
             /\ row.stages = jobs[m][a].stages => jobs'[n][b].stages = jobs[n][b].stages
  BY <1>2
<1>4. Keeps
  BY <1>2, <1>3 DEF Keeps
<1> QED
  BY <1>3, <1>4 DEF Stays

LEMMA RowsSame ==
  ASSUME QueueInv, UNCHANGED <<jobs, claims>>, Around PROVE Stays
  BY DEF QueueInv, MetadataTypes, Keeps, Stays

LEMMA NothingAround == ASSUME UNCHANGED <<children, slot, procs>> PROVE Around
  BY DEF Around

\* Asking for a job.
LEMMA AddSubmits ==
  ASSUME MetadataConstants, QueueInv, NEW m \in Movies,
         NEW reason \in {"initial", "history", "manual_or_search", "ranking"},
         NEW mode \in {"full", "missing_enrichment"},
         NEW requested \in SUBSET Optional, NEW parent \in Nat,
         AddJob(m, reason, mode, requested, parent),
         \A a \in DOMAIN jobs[m] : ~Active(jobs[m][a]),
         UNCHANGED <<claims, children, slot, procs>>
  PROVE  Submits
<1> PICK row : row = NewJob(reason, mode, requested, parent)
  OBVIOUS
<1>1. row \in JobRow /\ row.status = "queued" /\ row.owner = 0 /\ RowShape(row)
  BY NewRow
<1>2. jobs' = [jobs EXCEPT ![m] = Append(@, row)] /\ Cardinality(Rows) < MaxJobs
  BY DEF AddJob, Rows
<1> QED
  BY <1>1, <1>2 DEF Submits

LEMMA ReprioritiseStays ==
  ASSUME MetadataConstants, QueueInv, NEW m \in Movies, NEW reason \in {"manual_or_search", "ranking"},
         jobs[m] # <<>>, Reprioritise(m, reason),
         UNCHANGED <<claims, children, slot, procs>>
  PROVE  Stays
<1> DEFINE last == Len(jobs[m])
<1>1. last \in DOMAIN jobs[m] /\ jobs[m][last] \in JobRow
  <2>1. jobs[m] \in Seq(JobRow)
    BY DEF QueueInv, MetadataTypes
  <2> QED
    BY <2>1
<1> PICK row : row = [jobs[m][last] EXCEPT !.reason = reason]
  OBVIOUS
<1>2. /\ row \in JobRow /\ row.status = jobs[m][last].status
      /\ row.owner = jobs[m][last].owner /\ row.live = jobs[m][last].live
      /\ row.stages = jobs[m][last].stages
  BY <1>1 DEF JobRow, Reasons, PRIORITY_BY_REASON
<1>3. SetJob(m, last, row)
  BY DEF Reprioritise, Latest
<1> HIDE DEF last
<1> QED
  BY <1>1, <1>2, <1>3, RowKept, NothingAround

LEMMA RequestStep ==
  ASSUME MetadataConstants, QueueInv, Request, UNCHANGED <<children, slot, procs>>
  PROVE  Submits \/ Stays
<1>0. /\ {} \in SUBSET Optional /\ 0 \in Nat
      /\ \A m \in Movies : jobs[m] \in Seq(JobRow) /\ Len(jobs[m]) \in Nat
  <2>1. \A m \in Movies : jobs[m] \in Seq(JobRow)
    BY DEF QueueInv, MetadataTypes
  <2> QED
    BY <2>1
<1>1. \A m \in Movies : jobs[m] = <<>> => \A a \in DOMAIN jobs[m] : ~Active(jobs[m][a])
  OBVIOUS
<1>2. ASSUME NEW m \in Movies, SeedInitial(m) \/ SeedHistory(m)
      PROVE  Submits
  <2>1. PICK reason \in {"initial", "history"} : AddJob(m, reason, "full", {}, 0)
    BY <1>2 DEF SeedInitial, SeedHistory
  <2>2. jobs[m] = <<>> /\ UNCHANGED claims
    BY <1>2 DEF SeedInitial, SeedHistory, Candidate
  <2> QED
    BY <1>0, <1>1, <2>1, <2>2, AddSubmits
<1>3. ASSUME NEW m \in Movies, EnsureSearchPriority(m) PROVE Submits \/ Stays
  <2>1. CASE jobs[m] = <<>> /\ AddJob(m, "manual_or_search", "full", {}, 0)
    BY <1>0, <1>1, <1>3, <2>1, AddSubmits DEF EnsureSearchPriority
  <2>2. CASE jobs[m] # <<>> /\ Reprioritise(m, "manual_or_search")
    BY <1>3, <2>2, ReprioritiseStays DEF EnsureSearchPriority
  <2> QED
    BY <1>3, <2>1, <2>2 DEF EnsureSearchPriority
<1>4. ASSUME NEW m \in Movies, EnsureRankingPriority(m) PROVE Submits \/ Stays
  <2>1. CASE jobs[m] = <<>> /\ AddJob(m, "ranking", "full", {}, 0)
    BY <1>0, <1>1, <1>4, <2>1, AddSubmits DEF EnsureRankingPriority
  <2>2. CASE jobs[m] # <<>> /\ Reprioritise(m, "ranking")
    BY <1>4, <2>2, ReprioritiseStays DEF EnsureRankingPriority
  <2> QED
    BY <1>4, <2>1, <2>2 DEF EnsureRankingPriority
<1>5. ASSUME NEW m \in Movies, RescrapeMovie(m) PROVE Submits \/ Stays
  <2>1. CASE jobs[m] # <<>> /\ Active(Latest(m))
    BY <1>5, <2>1, ReprioritiseStays DEF RescrapeMovie
  <2>2. CASE ~(jobs[m] # <<>> /\ Active(Latest(m)))
    <3>1. \A a \in DOMAIN jobs[m] : ~Active(jobs[m][a])
      BY <2>2 DEF QueueInv, YoungestActive, Latest
    <3>2. AddJob(m, "manual_or_search", "full", {}, Len(jobs[m])) /\ UNCHANGED claims
      BY <1>5, <2>2 DEF RescrapeMovie
    <3> QED
      BY <1>0, <3>1, <3>2, AddSubmits
  <2> QED
    BY <2>1, <2>2
<1>6. ASSUME NEW m \in Movies, NEW a \in 1 .. Len(jobs[m]),
             \/ ManualRetry(m, a)
             \/ \E requested \in SUBSET Optional : RetryEnrichment(m, a, requested)
      PROVE  Submits
  <2>1. \A b \in DOMAIN jobs[m] : ~Active(jobs[m][b])
    BY <1>0, <1>6 DEF ManualRetry, RetryEnrichment, NoActive
  <2>2. CASE ManualRetry(m, a)
    BY <1>0, <2>1, <2>2, AddSubmits DEF ManualRetry
  <2>3. ASSUME NEW requested \in SUBSET Optional, RetryEnrichment(m, a, requested)
        PROVE  Submits
    BY <1>0, <2>1, <2>3, AddSubmits DEF RetryEnrichment
  <2> QED
    BY <1>6, <2>2, <2>3
<1>7. CASE MarkInitialComplete \/ SetPaused
  BY <1>7, RowsSame, NothingAround DEF MarkInitialComplete, SetPaused
<1> QED
  BY <1>2, <1>3, <1>4, <1>5, <1>6, <1>7 DEF Request

\* A claim that holds names the running job of its movie.
LEMMA HeldRow ==
  ASSUME MetadataConstants, QueueInv, NEW c, Named(c)
  PROVE  /\ c.movie \in Movies /\ c.attempt \in DOMAIN jobs[c.movie]
         /\ Row(c) \in JobRow
         /\ Row(c) = jobs[c.movie][c.attempt]
         /\ Holds(c) => Row(c).status = "running"
<1>1. c.movie \in Movies /\ c.attempt \in DOMAIN jobs[c.movie]
  BY DEF Named
<1>2. jobs[c.movie][c.attempt] \in JobRow
  BY <1>1, QueueRows DEF QueueInv, MetadataTypes
<1> QED
  BY <1>1, <1>2 DEF Row, Holds, HoldsClaim

LEMMA FailEnds ==
  ASSUME MetadataConstants, QueueInv, NEW c, Named(c), Row(c).status = "running",
         FailJob(c.movie, c.attempt), Around
  PROVE  Ends
<1> PICK row : row = FailedJob(jobs[c.movie][c.attempt])
  OBVIOUS
<1>1. /\ c.movie \in Movies /\ c.attempt \in DOMAIN jobs[c.movie]
      /\ jobs[c.movie][c.attempt] \in JobRow
      /\ jobs[c.movie][c.attempt].status = "running"
  BY HeldRow
<1>2. /\ row \in JobRow /\ row.status = "failed" /\ row.owner = 0
      /\ RowShape(jobs[c.movie][c.attempt]) => RowShape(row)
  BY <1>1, FailedRow
<1>3. SetJob(c.movie, c.attempt, row) /\ claims' = claims
  BY DEF FailJob
<1> QED
  BY <1>1, <1>2, <1>3 DEF Ends

LEMMA SupervisorStep ==
  ASSUME MetadataConstants, QueueInv, Supervisor \/ WorkerDies
  PROVE  Takes \/ Ends \/ Stays
<1>0. /\ \A c \in children : Named(c)
      /\ slot # NoClaim => Named(slot)
      /\ \A c \in DOMAIN procs : Named(c)
  BY DEF QueueInv, MetadataTypes
<1>1. ASSUME NEW id \in JobIds, ClaimSlot(id[1], id[2]) PROVE Takes
  <2>1. id[1] \in Movies /\ id[2] \in Nat
    BY DEF JobIds
  <2> QED
    BY <1>1, <2>1 DEF Takes
<1>2. CASE Launch
  <2>1. /\ slot # NoClaim /\ slot' = NoClaim
        /\ children' = {c \in children : c.movie # slot.movie} \union {slot}
        /\ DOMAIN procs' = DOMAIN procs \union {slot} /\ UNCHANGED <<jobs, claims>>
    BY <1>2 DEF Launch, Alive, queueVars
  <2>2. Around
    BY <2>1 DEF Around
  <2> QED
    BY <2>1, <2>2, RowsSame
<1>3. CASE LaunchFails
  <2>1. /\ slot # NoClaim /\ Holds(slot) /\ slot' = NoClaim
        /\ FailJob(slot.movie, slot.attempt) /\ UNCHANGED <<children, procs>>
    BY <1>3 DEF LaunchFails
  <2>2. Around
    BY <2>1 DEF Around
  <2> QED
    BY <1>0, <2>1, <2>2, HeldRow, FailEnds
<1>4. CASE WorkerDies
  <2>1. Around /\ UNCHANGED <<jobs, claims>>
    BY <1>4 DEF WorkerDies, queueVars, Around
  <2> QED
    BY <2>1, RowsSame
<1>5. ASSUME NEW c \in children, Reap(c) PROVE Ends \/ Stays
  <2>1. Around
    BY <1>5 DEF Reap, Around
  <2>2. CASE Holds(c)
    BY <1>0, <1>5, <2>1, <2>2, HeldRow, FailEnds DEF Reap
  <2>3. CASE ~Holds(c)
    BY <1>5, <2>1, <2>3, RowsSame DEF Reap, queueVars
  <2> QED
    BY <2>2, <2>3
<1>6. ASSUME NEW c \in children, TerminateTimedOut(c) PROVE Ends \/ Stays
  <2>1. Around
    BY <1>6 DEF TerminateTimedOut, Without, Alive, Around
  <2>2. CASE Row(c).status = "running" /\ Row(c).owner = c.token
    BY <1>0, <1>6, <2>1, <2>2, FailEnds DEF TerminateTimedOut
  <2>3. CASE ~(Row(c).status = "running" /\ Row(c).owner = c.token)
    BY <1>6, <2>1, <2>3, RowsSame DEF TerminateTimedOut, queueVars
  <2> QED
    BY <2>2, <2>3
<1>7. ASSUME NEW c \in children, RenewLost(c) PROVE Stays
  <2>1. Around /\ UNCHANGED <<jobs, claims>>
    BY <1>7 DEF RenewLost, Without, Alive, queueVars, Around
  <2> QED
    BY <2>1, RowsSame
<1> QED
  BY <1>1, <1>2, <1>3, <1>4, <1>5, <1>6, <1>7 DEF Supervisor

LEMMA ShutdownStep == ASSUME MetadataConstants, QueueInv, Shutdown PROVE Stays
<1>0. jobs \in [Movies -> Seq(JobRow)]
  BY DEF QueueInv, MetadataTypes
<1>1. Around /\ claims' = claims
  BY DEF Shutdown, Without, Alive, Around
<1> DEFINE Lost(m, a) == \E c \in children : /\ c.movie = m /\ c.attempt = a
                                             /\ jobs[m][a].status = "running"
                                             /\ jobs[m][a].owner = c.token
           After(m) == [a \in 1 .. Len(jobs[m]) |->
                          IF Lost(m, a) THEN [jobs[m][a] EXCEPT !.live = FALSE] ELSE jobs[m][a]]
<1>2. jobs' = [m \in Movies |-> After(m)]
  BY DEF Shutdown
<1>3. ASSUME NEW m \in Movies
      PROVE  /\ After(m) \in Seq(JobRow) /\ DOMAIN After(m) = DOMAIN jobs[m]
             /\ \A a \in DOMAIN jobs[m] :
                  /\ After(m)[a].status = jobs[m][a].status
                  /\ After(m)[a].owner = jobs[m][a].owner
                  /\ After(m)[a].stages = jobs[m][a].stages
                  /\ After(m)[a].live => jobs[m][a].live
  <2>1. /\ jobs[m] \in Seq(JobRow) /\ Len(jobs[m]) \in Nat
        /\ DOMAIN jobs[m] = 1 .. Len(jobs[m])
        /\ \A a \in DOMAIN jobs[m] : jobs[m][a] \in JobRow
    BY <1>0, QueueRows
  <2>2. ASSUME NEW j \in JobRow
        PROVE  /\ [j EXCEPT !.live = FALSE] \in JobRow
               /\ [j EXCEPT !.live = FALSE].status = j.status
               /\ [j EXCEPT !.live = FALSE].owner = j.owner
               /\ [j EXCEPT !.live = FALSE].stages = j.stages
               /\ ~[j EXCEPT !.live = FALSE].live
    BY DEF JobRow
  <2>3. \A a \in 1 .. Len(jobs[m]) :
          /\ After(m)[a] \in JobRow
          /\ After(m)[a].status = jobs[m][a].status
          /\ After(m)[a].owner = jobs[m][a].owner
          /\ After(m)[a].stages = jobs[m][a].stages
          /\ After(m)[a].live => jobs[m][a].live
    <3> HIDE DEF Lost
    <3> QED
      BY <2>1, <2>2
  <2>4. DOMAIN After(m) = 1 .. Len(jobs[m])
    OBVIOUS
  <2>5. After(m) = [a \in 1 .. Len(jobs[m]) |-> After(m)[a]]
    OBVIOUS
  <2> HIDE DEF After
  <2>6. After(m) \in Seq(JobRow)
    <3> PICK rows : rows = After(m)
      OBVIOUS
    <3> PICK n \in Nat : n = Len(jobs[m])
      BY <2>1
    <3>1. rows \in [1 .. n -> JobRow]
      BY <2>3, <2>5
    <3>2. rows \in Seq(JobRow)
      BY <3>1
    <3> QED
      BY <3>2
  <2> QED
    BY <2>1, <2>3, <2>4, <2>6
<1> HIDE DEF After
<1>4. jobs' \in [Movies -> Seq(JobRow)] /\ \A m \in Movies : jobs'[m] = After(m)
  BY <1>2, <1>3
<1> QED
  BY <1>1, <1>3, <1>4 DEF Keeps, Stays

LEMMA ChildAround ==
  ASSUME NEW c, UNCHANGED <<children, slot>>,
         (\E proc : Step(c, proc)) \/ Exit(c)
  PROVE  Around
  BY DEF Around, Step, Exit, Without, Alive

LEMMA StageKeeps ==
  ASSUME MetadataConstants, QueueInv, NEW c, Named(c), NEW stage, NEW status \in StageStatus,
         SetJob(c.movie, c.attempt, [jobs[c.movie][c.attempt] EXCEPT !.stages[stage] = status]),
         claims' = claims, Around
  PROVE  Keeps
<1>1. /\ c.movie \in Movies /\ c.attempt \in DOMAIN jobs[c.movie]
      /\ jobs[c.movie][c.attempt] \in JobRow
  BY HeldRow
<1> PICK j \in JobRow : j = jobs[c.movie][c.attempt]
  BY <1>1
<1> PICK row : row = StageSet(j, stage, status)
  OBVIOUS
<1>2. /\ row \in JobRow /\ row.status = jobs[c.movie][c.attempt].status
      /\ row.owner = jobs[c.movie][c.attempt].owner /\ row.live = jobs[c.movie][c.attempt].live
  BY StageRow
<1>3. SetJob(c.movie, c.attempt, row)
  BY DEF StageSet
<1> QED
  BY <1>1, <1>2, <1>3, RowKept

\* A child ends, with its job or without.
ChildLeaves(c) ==
  (ChildFails(c) \/ ChildCompletes(c) \/ ChildRefused(c)) /\ UNCHANGED <<children, slot, faults>>

LEMMA ChildLeavesStep ==
  ASSUME MetadataConstants, QueueInv, NEW c \in DOMAIN procs,
         ChildLeaves(c) \/ ChildKilled(c) \/ WatchdogKills(c)
  PROVE  Ends \/ Stays
<1>0. Named(c)
  BY DEF QueueInv, MetadataTypes
<1>1. UNCHANGED <<children, slot>>
  BY DEF ChildLeaves, ChildKilled, WatchdogKills
<1>2. CASE ChildFails(c)
  <2>1. Holds(c) /\ FailJob(c.movie, c.attempt) /\ Exit(c)
    BY <1>2 DEF ChildFails
  <2> QED
    BY <1>0, <1>1, <2>1, ChildAround, HeldRow, FailEnds
<1>3. CASE ChildCompletes(c)
  <2>1. PICK status \in {"completed", "completed_with_warnings"} :
          SetJob(c.movie, c.attempt, FinishedJob(jobs[c.movie][c.attempt], status))
    BY <1>3 DEF ChildCompletes, Complete
  <2>2. /\ Exit(c) /\ claims' = claims /\ Holds(c)
        /\ \A stage \in Stages : jobs[c.movie][c.attempt].stages[stage] # "running"
    BY <1>3 DEF ChildCompletes, Complete, CanComplete, Holds, Row
  <2> PICK row : row = FinishedJob(jobs[c.movie][c.attempt], status)
    OBVIOUS
  <2>3. /\ c.movie \in Movies /\ c.attempt \in DOMAIN jobs[c.movie]
        /\ jobs[c.movie][c.attempt] \in JobRow
        /\ jobs[c.movie][c.attempt].status = "running"
    BY <1>0, <2>2, HeldRow
  <2>4. status \in JobStatus
    BY DEF JobStatus
  <2>5. /\ row \in JobRow /\ row.status = status /\ row.owner = 0 /\ ~row.live
        /\ row.stages = jobs[c.movie][c.attempt].stages
    BY <2>3, <2>4, FinishedRow
  <2>6. RowShape(row)
    BY <2>2, <2>5 DEF RowShape
  <2>7. Around
    BY <1>1, <2>2, ChildAround
  <2> QED
    BY <2>1, <2>2, <2>3, <2>5, <2>6, <2>7 DEF Ends
<1>4. CASE ChildRefused(c) \/ ChildKilled(c) \/ WatchdogKills(c)
  <2>1. Exit(c) /\ UNCHANGED <<jobs, claims>>
    BY <1>4 DEF ChildRefused, ChildKilled, WatchdogKills, queueVars, Exit
  <2> QED
    BY <1>1, <2>1, ChildAround, RowsSame
<1> QED
  BY <1>2, <1>3, <1>4 DEF ChildLeaves

\* A child works on: it writes one stage of its job at most.
ChildWorks(c) == ChildStep(c) /\ ~ChildLeaves(c)

LEMMA ChildWorksStep ==
  ASSUME MetadataConstants, QueueInv, NEW c \in DOMAIN procs, ChildWorks(c)
  PROVE  Keeps
<1>0. Named(c) /\ \A s \in {"running", "succeeded", "failed", "warning"} : s \in StageStatus
  BY DEF QueueInv, MetadataTypes, StageStatus
<1>1. UNCHANGED <<children, slot>>
  BY DEF ChildWorks, ChildStep
<1>2. CASE \/ LoadClaim(c) \/ CheckCore(c) \/ ExecuteFails(c)
           \/ ExecuteOptional(c) \/ VerifyCore(c) \/ ExecuteCore(c)
  <2>1. (\E proc : Step(c, proc)) /\ UNCHANGED <<jobs, claims>>
    BY <1>2 DEF LoadClaim, CheckCore, ExecuteFails,
       ExecuteOptional, VerifyCore, ExecuteCore, ImportCore,
       queueVars
  <2> QED
    BY <1>1, <2>1, ChildAround, RowsSame DEF Stays
<1>3. CASE ChildStartStage(c)
  <2>1. (\E proc : Step(c, proc)) /\ claims' = claims
        /\ SetJob(c.movie, c.attempt,
             [jobs[c.movie][c.attempt] EXCEPT !.stages[Stage(c)] = "running"])
    BY <1>3 DEF ChildStartStage, StartStage
  <2> QED
    BY <1>0, <1>1, <2>1, ChildAround, StageKeeps
<1>4. CASE FinishGood(c) \/ FinishBad(c)
  <2>1. (\E proc : Step(c, proc)) /\ claims' = claims
    BY <1>4 DEF FinishGood, FinishBad, FinishStage
  <2>2. \E stage : \E status \in StageStatus : SetJob(c.movie, c.attempt,
             [jobs[c.movie][c.attempt] EXCEPT !.stages[stage] = status])
    <3>1. CASE FinishGood(c)
      BY <1>0, <3>1 DEF FinishGood, FinishStage
    <3>2. CASE FinishBad(c) /\ Stage(c) = Core
      BY <1>0, <3>2 DEF FinishBad, FinishStage
    <3>3. CASE FinishBad(c) /\ Stage(c) # Core
      BY <1>0, <3>3 DEF FinishBad, FinishStage
    <3> QED
      BY <1>4, <3>1, <3>2, <3>3
  <2> QED
    BY <1>0, <1>1, <2>1, <2>2, ChildAround, StageKeeps
<1> QED
  BY <1>2, <1>3, <1>4 DEF ChildWorks, ChildLeaves, ChildStep

LEMMA TimeStep ==
  ASSUME MetadataConstants, QueueInv, NEW id \in JobIds,
         ClaimExpires(id[1], id[2]) \/ HardTimeoutPasses(id[1], id[2])
  PROVE  Stays
<1>1. PICK m, a : m = id[1] /\ a = id[2]
  OBVIOUS
<1>2. m \in Movies /\ a \in 1 .. Len(jobs[m]) /\ claims' = claims /\ UNCHANGED <<children, slot, procs>>
  BY <1>1 DEF JobIds, ClaimExpires, HardTimeoutPasses, Exists
<1>3. a \in DOMAIN jobs[m] /\ jobs[m][a] \in JobRow
  BY <1>2, QueueRows DEF QueueInv, MetadataTypes
<1>4. PICK row : /\ SetJob(m, a, row)
                 /\ \/ row = [jobs[m][a] EXCEPT !.live = FALSE]
                    \/ row = [jobs[m][a] EXCEPT !.overdue = TRUE]
  BY <1>1 DEF ClaimExpires, HardTimeoutPasses
<1>5. /\ row \in JobRow /\ row.status = jobs[m][a].status
      /\ row.owner = jobs[m][a].owner /\ (row.live => jobs[m][a].live)
      /\ row.stages = jobs[m][a].stages
  BY <1>3, <1>4 DEF JobRow
<1> QED
  BY <1>2, <1>3, <1>4, <1>5, RowKept, NothingAround

\* Every step of the queue and its workers does one of these.
LEMMA MetadataStep ==
  ASSUME MetadataConstants, QueueInv, Next
  PROVE  Submits \/ Takes \/ Ends \/ Keeps
<1>1. CASE Request /\ UNCHANGED <<children, slot, procs, faults>>
  BY <1>1, RequestStep DEF Stays
<1>2. CASE Supervisor \/ WorkerDies
  BY <1>2, SupervisorStep DEF Stays
<1>3. CASE Shutdown
  BY <1>3, ShutdownStep DEF Stays
<1>4. ASSUME NEW c \in Alive,
             ChildStep(c) \/ ChildKilled(c) \/ WatchdogKills(c)
      PROVE  Ends \/ Keeps
  BY <1>4, ChildLeavesStep, ChildWorksStep DEF Alive, ChildWorks, Stays
<1>5. ASSUME NEW id \in JobIds,
             ClaimExpires(id[1], id[2]) \/ HardTimeoutPasses(id[1], id[2])
      PROVE  Keeps
  BY <1>5, TimeStep DEF Stays
<1> QED
  BY <1>1, <1>2, <1>3, <1>4, <1>5 DEF Next

LEMMA QueueNext ==
  ASSUME MetadataConstants PROVE QueueInv /\ [Next]_(vars) => QueueInv'
<1> SUFFICES ASSUME QueueInv, [Next]_(vars) PROVE QueueInv'
  OBVIOUS
<1>1. CASE Submits
  BY <1>1, QueueAdd DEF Submits
<1>2. CASE Takes
  BY <1>2, QueueClaim DEF Takes
<1>3. CASE Ends
  <2>1. PICK m \in Movies : \E a \in DOMAIN jobs[m] : \E row \in JobRow :
               /\ jobs[m][a].status = "running"
               /\ row.status \in {"completed", "completed_with_warnings", "failed"} /\ row.owner = 0
               /\ SetJob(m, a, row) /\ claims' = claims /\ Around
    BY <1>3 DEF Ends
  <2>2. PICK a \in DOMAIN jobs[m] : \E row \in JobRow :
               /\ jobs[m][a].status = "running"
               /\ row.status \in {"completed", "completed_with_warnings", "failed"} /\ row.owner = 0
               /\ SetJob(m, a, row) /\ claims' = claims /\ Around
    BY <2>1
  <2>3. PICK row \in JobRow :
               /\ row.status \in {"completed", "completed_with_warnings", "failed"}
               /\ SetJob(m, a, row) /\ claims' = claims /\ Around
    BY <2>2
  <2>4. ~Active(row) /\ ~LiveJob(row)
    BY <2>3 DEF Active, LiveJob
  <2> QED
    BY <2>3, <2>4, QueueRow DEF Around
<1>4. CASE Keeps
  BY <1>4, QueueQuiet DEF Keeps, Around, Active, LiveJob
<1>5. CASE UNCHANGED vars
  BY <1>5, RowsSame, NothingAround, QueueQuiet
  DEF vars, queueVars, Keeps, Stays, Around, Active, LiveJob
<1> QED
  BY <1>1, <1>2, <1>3, <1>4, <1>5, MetadataStep

LEMMA QueueInvariant == ASSUME MetadataConstants PROVE Spec => []QueueInv
  BY QueueStarts, QueueNext, PTL DEF Spec

\* Whatever workers die, are late or claim at once, at most MAX_RUNNING_JOBS jobs
\* run under a claim that has not expired, and of the jobs of a movie only the
\* youngest is active (metadata_queue.py claim_next, _insert_job).
LEMMA SlotsHold ==
  ASSUME QueueInv PROVE SlotsRespected
<1>1. Cardinality(LiveJobs) <= MaxRunning
  BY DEF QueueInv, SlotsBounded
<1>2. ASSUME NEW m \in Movies, NEW a \in 1 .. Len(jobs[m]) - 1
      PROVE  ~Active(jobs[m][a])
  <2>1. Len(jobs[m]) \in Nat /\ DOMAIN jobs[m] = 1 .. Len(jobs[m])
    BY QueueRows DEF QueueInv, MetadataTypes
  <2>2. a \in DOMAIN jobs[m] /\ a # Len(jobs[m])
    BY <2>1
  <2> QED
    BY <2>2 DEF QueueInv, YoungestActive
<1> QED
  BY <1>1, <1>2 DEF SlotsRespected

\* A job as the abstract queue shows it.
Shown(j) ==
  [phase |-> CASE j.status = "queued"  -> "queued"
               [] j.status = "running" -> "held"
               [] j.status = "failed"  -> "failed"
               [] OTHER                  -> "done",
   holder |-> j.owner]

Show(m) == [a \in 1 .. Len(jobs[m]) |-> Shown(jobs[m][a])]

LEMMA Shows == /\ Attempts = [m \in Movies |-> Show(m)]
               /\ Attempts' = [m \in Movies |-> Show(m)']
  BY DEF Attempts, Show, Shown

LEMMA ShownPhase ==
  ASSUME NEW j \in JobRow
  PROVE  /\ Shown(j).holder = j.owner
         /\ Shown(j).phase = "queued" <=> j.status = "queued"
         /\ Shown(j).phase = "held" <=> j.status = "running"
         /\ j.status = "failed" => Shown(j) = [phase |-> "failed", holder |-> j.owner]
         /\ j.status \in {"completed", "completed_with_warnings"} =>
              Shown(j) = [phase |-> "done", holder |-> j.owner]
         /\ j.status = "queued" => Shown(j) = [phase |-> "queued", holder |-> j.owner]
         /\ j.status = "running" => Shown(j) = [phase |-> "held", holder |-> j.owner]
  BY DEF Shown

\* One row becomes another, as the abstract queue shows it.
LEMMA ShownSet ==
  ASSUME MetadataConstants, QueueInv, NEW m \in Movies, NEW a \in DOMAIN jobs[m], NEW row \in JobRow,
         SetJob(m, a, row)
  PROVE  Attempts' = [Attempts EXCEPT ![m][a] = Shown(row)]
<1>1. jobs \in [Movies -> Seq(JobRow)]
  BY DEF QueueInv, MetadataTypes
<1>2. /\ jobs' \in [Movies -> Seq(JobRow)]
      /\ \A n \in Movies : DOMAIN jobs'[n] = DOMAIN jobs[n]
      /\ jobs'[m][a] = row
      /\ \A n \in Movies : \A b \in DOMAIN jobs[n] :
           n # m \/ b # a => jobs'[n][b] = jobs[n][b]
  BY <1>1, RowSet
<1>3. \A n \in Movies : /\ Len(jobs'[n]) = Len(jobs[n]) /\ DOMAIN jobs[n] = 1 .. Len(jobs[n])
  <2>1. \A n \in Movies : jobs[n] \in Seq(JobRow) /\ jobs'[n] \in Seq(JobRow)
    BY <1>1, <1>2
  <2> QED
    BY <1>2, <2>1
<1>4. ASSUME NEW n \in Movies, n # m PROVE Show(n)' = Show(n)
  BY <1>2, <1>3, <1>4 DEF Show
<1>5. Show(m)' = [Show(m) EXCEPT ![a] = Shown(row)]
  <2>1. \A b \in 1 .. Len(jobs[m]) : Show(m)'[b] = [Show(m) EXCEPT ![a] = Shown(row)][b]
    BY <1>2, <1>3 DEF Show
  <2>2. /\ Show(m)' = [b \in 1 .. Len(jobs[m]) |-> Show(m)'[b]]
        /\ Show(m) = [b \in 1 .. Len(jobs[m]) |-> Show(m)[b]]
    BY <1>2, <1>3 DEF Show
  <2> QED
    BY <2>1, <2>2
<1> QED
  BY <1>4, <1>5, Shows

\* The abstract queue, of attempts A.
Entry(phase, holder)  == [phase |-> phase, holder |-> holder]
PhaseIn(A, m)         == A[m][Len(A[m])].phase
OpenIn(A, m)          == A[m] # <<>> /\ PhaseIn(A, m) \in {"queued", "held"}
Submitted(A, m)       == [A EXCEPT ![m] = Append(@, Entry("queued", 0))]
Replaced(A, m, entry) == [A EXCEPT ![m][Len(A[m])] = entry]

\* Its steps.
LEMMA AbstractSubmit ==
  ASSUME NEW A, NEW B, A = Attempts,
         B = Attempts', NEW m \in Movies, claims' = claims,
         ~OpenIn(A, m), B = Submitted(A, m)
  PROVE  Abstract!Next
<1>1. Abstract!Submit(m)
  BY DEF Abstract!Submit, Abstract!Open, Abstract!Last, OpenIn, PhaseIn, Submitted, Entry
<1> QED
  BY <1>1 DEF Abstract!Next

LEMMA AbstractTake ==
  ASSUME NEW A, NEW B, A = Attempts,
         B = Attempts', NEW m \in Movies, claims' = claims + 1,
         OpenIn(A, m), B = Replaced(A, m, Entry("held", claims + 1))
  PROVE  Abstract!Next
<1>1. Abstract!Take(m)
  BY DEF Abstract!Take, Abstract!Open, Abstract!Last, Abstract!SetLast, OpenIn, PhaseIn,
     Replaced, Entry
<1> QED
  BY <1>1 DEF Abstract!Next

LEMMA AbstractEnd ==
  ASSUME NEW A, NEW B, A = Attempts,
         B = Attempts', NEW m \in Movies, NEW outcome \in {"done", "failed"},
         claims' = claims, OpenIn(A, m), PhaseIn(A, m) = "held",
         B = Replaced(A, m, Entry(outcome, 0))
  PROVE  Abstract!Next
<1>1. Abstract!End(m, outcome)
  BY DEF Abstract!End, Abstract!Open, Abstract!Last, Abstract!SetLast, OpenIn, PhaseIn,
     Replaced, Entry
<1> QED
  BY <1>1 DEF Abstract!Next, Abstract!Outcomes

\* The last job of a movie, as the abstract queue shows it.
LEMMA ShownLast ==
  ASSUME MetadataConstants, QueueInv, NEW m \in Movies, NEW s, s = Attempts[m]
  PROVE  /\ s = Show(m) /\ Len(s) = Len(jobs[m]) /\ (s = <<>> <=> jobs[m] = <<>>)
         /\ \A a \in DOMAIN jobs[m] : s[a] = Shown(jobs[m][a])
         /\ jobs[m] # <<>> => Len(jobs[m]) \in DOMAIN jobs[m]
<1>1. /\ jobs[m] \in Seq(JobRow) /\ Len(jobs[m]) \in Nat
      /\ DOMAIN jobs[m] = 1 .. Len(jobs[m])
      /\ \A a \in DOMAIN jobs[m] : jobs[m][a] \in JobRow
  BY QueueRows DEF QueueInv, MetadataTypes
<1>2. s = Show(m)
  BY Shows
<1> PICK n : n = Len(jobs[m])
  OBVIOUS
<1> DEFINE T == {Shown(j) : j \in JobRow}
<1>3. s = [a \in 1 .. n |-> s[a]] /\ \A a \in 1 .. n : s[a] = Shown(jobs[m][a]) /\ s[a] \in T
  BY <1>1, <1>2 DEF Show
<1> HIDE DEF T
<1>4. s \in [1 .. n -> T] /\ n \in Nat
  BY <1>1, <1>3
<1>5. s \in Seq(T) /\ Len(s) = n
  BY <1>4
<1>6. s = <<>> <=> n = 0
  BY <1>5
<1>7. (jobs[m] = <<>> <=> n = 0) /\ (jobs[m] # <<>> => Len(jobs[m]) \in DOMAIN jobs[m])
  BY <1>1
<1> QED
  BY <1>1, <1>2, <1>3, <1>5, <1>6, <1>7

LEMMA ShownOpen ==
  ASSUME MetadataConstants, QueueInv, NEW m \in Movies, NEW A, A = Attempts
  PROVE  /\ \A a \in DOMAIN jobs[m] : a = Len(jobs[m]) =>
              /\ Len(A[m]) = a /\ A[m] # <<>>
              /\ PhaseIn(A, m) = Shown(jobs[m][a]).phase
         /\ A[m] # <<>> => Len(jobs[m]) \in DOMAIN jobs[m]
<1> PICK s : s = A[m]
  OBVIOUS
<1>1. /\ s = Show(m) /\ Len(s) = Len(jobs[m]) /\ (s = <<>> <=> jobs[m] = <<>>)
      /\ \A a \in DOMAIN jobs[m] : s[a] = Shown(jobs[m][a])
      /\ jobs[m] # <<>> => Len(jobs[m]) \in DOMAIN jobs[m]
  BY ShownLast
<1>2. ASSUME NEW a \in DOMAIN jobs[m], a = Len(jobs[m])
      PROVE  Len(s) = a /\ s # <<>> /\ s[Len(s)].phase = Shown(jobs[m][a]).phase
  <2>1. jobs[m] # <<>>
    OBVIOUS
  <2> QED
    BY <1>1, <1>2, <2>1
<1> QED
  BY <1>1, <1>2 DEF PhaseIn

LEMMA MetadataImplements ==
  ASSUME MetadataConstants, QueueInv, [Next]_(vars)
  PROVE  [Abstract!Next]_(Abstract!vars)
<1> PICK A : A = Attempts
  OBVIOUS
<1> PICK B : B = Attempts'
  OBVIOUS
<1>0. jobs \in [Movies -> Seq(JobRow)]
  BY DEF QueueInv, MetadataTypes
<1>1. CASE Submits
  <2>1. PICK m \in Movies, row \in JobRow :
          /\ row.status = "queued" /\ row.owner = 0
          /\ \A a \in DOMAIN jobs[m] : ~Active(jobs[m][a])
          /\ jobs' = [jobs EXCEPT ![m] = Append(@, row)] /\ claims' = claims
    BY <1>1 DEF Submits
  <2>2. ~OpenIn(A, m)
    <3> SUFFICES ASSUME A[m] # <<>> PROVE PhaseIn(A, m) \notin {"queued", "held"}
      BY DEF OpenIn
    <3> PICK a : a = Len(jobs[m])
      OBVIOUS
    <3>1. a \in DOMAIN jobs[m]
      BY ShownOpen
    <3>2. PhaseIn(A, m) = Shown(jobs[m][a]).phase /\ jobs[m][a] \in JobRow
      BY <1>0, <3>1, ShownOpen, QueueRows
    <3> QED
      BY <2>1, <3>1, <3>2, ShownPhase DEF Active
  <2>3. B = Submitted(A, m)
    <3> PICK new : new = Entry("queued", 0)
      OBVIOUS
    <3>1. new = Shown(row)
      BY <2>1, ShownPhase DEF Entry
    <3>2. jobs'[m] = Append(jobs[m], row) /\ \A n \in Movies : n # m => jobs'[n] = jobs[n]
      BY <1>0, <2>1
    <3>3. \A n \in Movies : n # m => Show(n)' = Show(n)
      BY <3>2 DEF Show
    <3>4. Show(m)' = Append(Show(m), new)
      <4>1. jobs[m] \in Seq(JobRow) /\ Len(jobs[m]) \in Nat
        BY <1>0, QueueRows
      <4> PICK s, t, k : s = Show(m) /\ t = Show(m)' /\ k = Len(jobs[m])
        OBVIOUS
      <4>2. /\ Len(jobs'[m]) = k + 1 /\ k \in Nat /\ jobs'[m][k + 1] = row
            /\ \A a \in 1 .. k : jobs'[m][a] = jobs[m][a]
        BY <3>2, <4>1
      <4>3. /\ s = [a \in 1 .. k |-> Shown(jobs[m][a])]
            /\ t = [a \in 1 .. k + 1 |-> Shown(jobs'[m][a])]
        BY <4>2 DEF Show
      <4>4. t = [a \in 1 .. k + 1 |-> IF a = k + 1 THEN new ELSE s[a]]
        BY <3>1, <4>2, <4>3
      <4>5. Append(s, new) = [a \in 1 .. k + 1 |-> IF a = k + 1 THEN new ELSE s[a]]
        <5> DEFINE T == {s[a] : a \in 1 .. k} \union {new}
        <5>1. s \in [1 .. k -> T]
          BY <4>3
        <5>2. new \in T
          OBVIOUS
        <5> HIDE DEF T
        <5>3. s \in Seq(T) /\ Len(s) = k
          BY <4>2, <5>1
        <5> PICK u : u = Append(s, new)
          OBVIOUS
        <5>4. u \in Seq(T) /\ Len(u) = k + 1 /\ u[k + 1] = new
          BY <4>2, <5>2, <5>3
        <5>5. \A a \in 1 .. k : u[a] = s[a]
          BY <4>2, <5>2, <5>3
        <5>0. k \in Nat
          BY <4>2
        <5>6. u = [a \in 1 .. k + 1 |-> u[a]]
          <6>1. u \in [1 .. Len(u) -> T]
            BY <5>4, LenProperties
          <6>2. u \in [1 .. k + 1 -> T]
            BY <5>4, <6>1
          <6> QED
            BY <6>2
        <5>7. \A a \in 1 .. k + 1 : u[a] = IF a = k + 1 THEN new ELSE s[a]
          <6> TAKE a \in 1 .. k + 1
          <6>1. CASE a = k + 1
            BY <5>4, <6>1
          <6>2. CASE a # k + 1
            <7>1. a \in 1 .. k
              BY <5>0, <6>2
            <7> QED
              BY <5>5, <6>2, <7>1
          <6> QED
            BY <6>1, <6>2
        <5> QED
          BY <5>6, <5>7
      <4> QED
        BY <4>4, <4>5
    <3>5. A = [n \in Movies |-> Show(n)] /\ B = [n \in Movies |-> Show(n)']
      BY Shows
    <3>6. \A n \in Movies : B[n] = [A EXCEPT ![m] = Append(@, new)][n]
      BY <3>3, <3>4, <3>5
    <3>7. B = [A EXCEPT ![m] = Append(@, new)]
      BY <3>5, <3>6
    <3> QED
      BY <3>7 DEF Submitted
  <2> QED
    BY <2>1, <2>2, <2>3, AbstractSubmit
<1>2. CASE Takes
  <2>1. PICK m \in Movies, a \in Nat : ClaimSlot(m, a)
    BY <1>2 DEF Takes
  <2> PICK row : row = ClaimedJob(jobs[m][a], claims + 1)
    OBVIOUS
  <2>2. /\ a \in 1 .. Len(jobs[m]) /\ Claimable(jobs[m][a]) /\ claims' = claims + 1
        /\ SetJob(m, a, row)
    BY <2>1 DEF ClaimSlot, ClaimNext, Exists
  <2>3. a \in DOMAIN jobs[m] /\ jobs[m][a] \in JobRow /\ claims + 1 \in Nat
    BY <1>0, <2>2, QueueRows DEF QueueInv, MetadataTypes
  <2>4. row \in JobRow /\ row.status = "running" /\ row.owner = claims + 1
    BY <2>3, ClaimedRow
  <2>5. a = Len(jobs[m])
    BY <2>2, <2>3 DEF QueueInv, YoungestActive, Claimable, Active
  <2>6. A[m] # <<>> /\ Len(A[m]) = a /\ PhaseIn(A, m) = Shown(jobs[m][a]).phase
    BY <2>3, <2>5, ShownOpen
  <2>7. OpenIn(A, m)
    BY <2>2, <2>3, <2>6, ShownPhase DEF Claimable, OpenIn
  <2>8. Shown(row) = Entry("held", claims + 1)
    BY <2>4, ShownPhase DEF Entry
  <2>9. B = [A EXCEPT ![m][a] = Shown(row)]
    BY <2>2, <2>3, <2>4, ShownSet
  <2>10. B = Replaced(A, m, Entry("held", claims + 1))
    BY <2>6, <2>8, <2>9 DEF Replaced
  <2> QED
    BY <2>2, <2>7, <2>10, AbstractTake
<1>3. CASE Ends
  <2>1. PICK m \in Movies : \E a \in DOMAIN jobs[m] : \E row \in JobRow :
               /\ jobs[m][a].status = "running"
               /\ row.status \in {"completed", "completed_with_warnings", "failed"} /\ row.owner = 0
               /\ SetJob(m, a, row) /\ claims' = claims
    BY <1>3 DEF Ends
  <2>2. PICK a \in DOMAIN jobs[m] : \E row \in JobRow :
               /\ jobs[m][a].status = "running"
               /\ row.status \in {"completed", "completed_with_warnings", "failed"} /\ row.owner = 0
               /\ SetJob(m, a, row) /\ claims' = claims
    BY <2>1
  <2>3. PICK row \in JobRow :
               /\ row.status \in {"completed", "completed_with_warnings", "failed"} /\ row.owner = 0
               /\ SetJob(m, a, row) /\ claims' = claims
    BY <2>2
  <2>4. jobs[m][a] \in JobRow /\ a = Len(jobs[m])
    BY <1>0, <2>2, QueueRows DEF QueueInv, YoungestActive, Active
  <2>5. A[m] # <<>> /\ Len(A[m]) = a /\ PhaseIn(A, m) = Shown(jobs[m][a]).phase
    BY <2>4, ShownOpen
  <2>6. OpenIn(A, m) /\ PhaseIn(A, m) = "held"
    BY <2>2, <2>4, <2>5, ShownPhase DEF OpenIn
  <2>7. PICK outcome \in {"done", "failed"} : Shown(row) = Entry(outcome, 0)
    BY <2>3, ShownPhase DEF Entry
  <2>8. B = Replaced(A, m, Entry(outcome, 0))
    <3>1. B = [A EXCEPT ![m][a] = Shown(row)]
      BY <2>3, ShownSet
    <3> QED
      BY <2>5, <2>7, <3>1 DEF Replaced
  <2> QED
    BY <2>3, <2>6, <2>8, AbstractEnd
<1>4. CASE Keeps
  <2>1. \A m \in Movies : Show(m)' = Show(m)
    <3> SUFFICES ASSUME NEW m \in Movies PROVE Show(m)' = Show(m)
      OBVIOUS
    <3>1. /\ jobs[m] \in Seq(JobRow) /\ jobs'[m] \in Seq(JobRow)
          /\ DOMAIN jobs'[m] = DOMAIN jobs[m]
          /\ \A a \in DOMAIN jobs[m] : jobs'[m][a].status = jobs[m][a].status
                                       /\ jobs'[m][a].owner = jobs[m][a].owner
      BY <1>0, <1>4 DEF Keeps
    <3>2. Len(jobs'[m]) = Len(jobs[m]) /\ DOMAIN jobs[m] = 1 .. Len(jobs[m])
      BY <3>1
    <3>3. \A a \in 1 .. Len(jobs[m]) : Shown(jobs'[m][a]) = Shown(jobs[m][a])
      BY <3>1, <3>2 DEF Shown
    <3> QED
      BY <3>2, <3>3 DEF Show
  <2>2. Attempts' = Attempts /\ claims' = claims
    BY <1>4, <2>1, Shows DEF Keeps
  <2> QED
    BY <2>2 DEF Abstract!vars
<1>5. CASE UNCHANGED vars
  BY <1>5, Shows DEF vars, queueVars, Abstract!vars, Attempts
<1> QED
  BY <1>1, <1>2, <1>3, <1>4, <1>5, MetadataStep

\* The metadata queue and its workers implement the abstract work queue: a movie
\* has one open attempt, every claim is fresh, and an attempt ends once, while
\* it is held (metadata_queue.py, metadata_supervisor.py, metadata_child.py).
LEMMA QueueImplements == ASSUME MetadataConstants PROVE Spec => ImplementsWorkQueue
<1>1. Init => Abstract!Init
  BY Shows DEF Init, QueueInit, Abstract!Init, Show
<1>2. QueueInv /\ [Next]_vars => [Abstract!Next]_(Abstract!vars)
  BY MetadataImplements
<1> QED
  BY <1>1, <1>2, QueueInvariant, PTL DEF Spec, ImplementsWorkQueue, Abstract!Spec

-----------------------------------------------------------------------------
(* The metadata jobs.  core_ready is for good, and every other state of a  *)
(* movie is written together with the row of its youngest job; so what is  *)
(* left to show is that whoever writes a job writes the youngest.          *)

\* A child that is about to report its core stage as done has seen the movie ready.
ChildFits(c) ==
  /\ procs[c] = [pc |-> procs[c].pc, todo |-> procs[c].todo, warnings |-> procs[c].warnings]
  /\ procs[c].pc = "good" /\ Head(procs[c].todo) = Core =>
       catalog[c.movie] = "core_ready"

JobTypes ==
  /\ jobs \in [Movies -> Seq(JobRow)] /\ claims \in Nat
  /\ catalog \in [Movies -> CatalogState]
  /\ procs = [c \in DOMAIN procs |-> procs[c]]
  /\ \A c \in children : Named(c)
  /\ slot # NoClaim => Named(slot)
  /\ \A c \in DOMAIN procs : Named(c)

\* The states of a movie that is not ready, by the status of its youngest job.
Follows(state, status) ==
  \/ state = "metadata_queued"  /\ status = "queued"
  \/ state = "metadata_running" /\ status = "running"
  \/ state = "raw_only"         /\ status = "failed"

MovieFits(m) ==
  /\ \A a \in DOMAIN jobs[m] :
       /\ Active(jobs[m][a]) => a = Len(jobs[m])
       /\ jobs[m][a].stages[Core] = "succeeded" => catalog[m] = "core_ready"
  /\ catalog[m] # "core_ready" =>
       IF jobs[m] = <<>> THEN catalog[m] = "raw_only"
       ELSE Follows(catalog[m], jobs[m][Len(jobs[m])].status)

CatalogInv ==
  JobTypes /\ (\A m \in Movies : MovieFits(m)) /\ (\A c \in DOMAIN procs : ChildFits(c))


\* What a step may do to the claims that are around and to the children.
Known ==
  /\ \A c \in children' : Named(c)
  /\ slot' # NoClaim => Named(slot')

Carried ==
  /\ procs' = [c \in DOMAIN procs' |-> procs'[c]]
  /\ \A c \in DOMAIN procs' :
       /\ Named(c)
       /\ (c \in DOMAIN procs /\ procs'[c] = procs[c]) \/ ChildFits(c)'

LEMMA JobRows ==
  ASSUME JobTypes, NEW m \in Movies
  PROVE  /\ jobs[m] \in Seq(JobRow) /\ Len(jobs[m]) \in Nat
         /\ DOMAIN jobs[m] = 1 .. Len(jobs[m])
         /\ \A a \in DOMAIN jobs[m] : jobs[m][a] \in JobRow
         /\ jobs[m] # <<>> => Len(jobs[m]) \in DOMAIN jobs[m]
<1>1. jobs[m] \in Seq(JobRow)
  BY DEF JobTypes
<1> QED
  BY <1>1

LEMMA StillFits ==
  ASSUME MetadataConstants, CatalogInv, Carried,
         \A m \in Movies : catalog[m] = "core_ready" => catalog'[m] = "core_ready"
  PROVE  \A c \in DOMAIN procs' : ChildFits(c)'
<1> SUFFICES ASSUME NEW c \in DOMAIN procs' PROVE ChildFits(c)'
  OBVIOUS
<1>1. CASE c \in DOMAIN procs /\ procs'[c] = procs[c]
  <2>1. c.movie \in Movies /\ ChildFits(c)
    BY <1>1 DEF CatalogInv, Carried, Named
  <2> QED
    BY <1>1, <2>1 DEF ChildFits
<1> QED
  BY <1>1 DEF Carried

\* A step about one movie.
LEMMA OneMovie ==
  ASSUME MetadataConstants, CatalogInv, NEW m \in Movies,
         jobs' \in [Movies -> Seq(JobRow)], claims' \in Nat,
         catalog' \in [Movies -> CatalogState],
         \A n \in Movies : DOMAIN jobs[n] \subseteq DOMAIN jobs'[n],
         \A n \in Movies \ {m} : jobs'[n] = jobs[n] /\ catalog'[n] = catalog[n],
         catalog[m] = "core_ready" => catalog'[m] = "core_ready",
         MovieFits(m)', Known, Carried
  PROVE  CatalogInv'
<1>1. JobTypes'
  BY DEF JobTypes, Known, Carried, Named
<1>2. \A n \in Movies : catalog[n] = "core_ready" => catalog'[n] = "core_ready"
  OBVIOUS
<1>3. ASSUME NEW n \in Movies PROVE MovieFits(n)'
  <2>1. CASE n # m
    BY <2>1 DEF CatalogInv, MovieFits
  <2> QED
    BY <2>1
<1> QED
  BY <1>1, <1>2, <1>3, StillFits DEF CatalogInv

\* The state that CoreReadyOr leaves, and that which no write leaves.
LEMMA StateSet ==
  ASSUME JobTypes, NEW m \in Movies, NEW state \in CatalogState,
         catalog' = CoreReadyOr(m, state)
  PROVE  /\ catalog' \in [Movies -> CatalogState]
         /\ catalog'[m] = IF catalog[m] = "core_ready" THEN "core_ready" ELSE state
         /\ \A n \in Movies \ {m} : catalog'[n] = catalog[n]
  BY DEF JobTypes, CoreReadyOr

\* The row of a job is written, and the state of its movie with it.
LEMMA RowWritten ==
  ASSUME MetadataConstants, CatalogInv, NEW m \in Movies, NEW a \in DOMAIN jobs[m], NEW row \in JobRow,
         SetJob(m, a, row), claims' \in Nat, Known, Carried,
         Done(row) => Done(jobs[m][a]) \/ catalog[m] = "core_ready",
         Active(row) => Active(jobs[m][a]),
         \/ /\ catalog' = catalog
            /\ row.status = jobs[m][a].status \/ catalog[m] = "core_ready"
         \/ /\ Active(jobs[m][a])
            /\ \E state \in CatalogState :
                 Follows(state, row.status) /\ catalog' = CoreReadyOr(m, state)
  PROVE  CatalogInv'
<1>0. /\ JobTypes /\ MovieFits(m) /\ catalog \in [Movies -> CatalogState]
      /\ jobs \in [Movies -> Seq(JobRow)]
  BY DEF CatalogInv, JobTypes
<1>1. /\ jobs' \in [Movies -> Seq(JobRow)]
      /\ \A n \in Movies : DOMAIN jobs'[n] = DOMAIN jobs[n] /\ Len(jobs'[n]) = Len(jobs[n])
      /\ jobs'[m][a] = row
      /\ \A b \in DOMAIN jobs[m] : b # a => jobs'[m][b] = jobs[m][b]
      /\ \A n \in Movies : n # m => jobs'[n] = jobs[n]
  BY <1>0, RowSet
<1>2. /\ catalog' \in [Movies -> CatalogState]
      /\ \A n \in Movies \ {m} : catalog'[n] = catalog[n]
      /\ catalog[m] = "core_ready" => catalog'[m] = "core_ready"
      /\ \/ catalog'[m] = "core_ready" /\ catalog[m] = "core_ready"
         \/ /\ catalog[m] # "core_ready" /\ catalog'[m] = catalog[m]
            /\ row.status = jobs[m][a].status
         \/ /\ catalog[m] # "core_ready" /\ Active(jobs[m][a])
            /\ Follows(catalog'[m], row.status)
  BY <1>0, StateSet
<1>3. /\ jobs[m] # <<>> /\ jobs'[m] # <<>> /\ Len(jobs[m]) \in DOMAIN jobs[m]
      /\ jobs'[m] \in Seq(JobRow)
  <2>1. jobs[m] # <<>>
    OBVIOUS
  <2>2. DOMAIN jobs'[m] # {}
    BY <1>1
  <2>3. jobs'[m] # <<>>
    BY <2>2
  <2> QED
    BY <1>0, <1>1, <2>1, <2>3, JobRows
<1>4. MovieFits(m)'
  <2>1. ASSUME NEW b \in DOMAIN jobs'[m]
        PROVE  /\ Active(jobs'[m][b]) => b = Len(jobs'[m])
               /\ Done(jobs'[m][b]) => catalog'[m] = "core_ready"
    <3>1. b \in DOMAIN jobs[m] /\ Len(jobs'[m]) = Len(jobs[m])
      BY <1>1
    <3>2. /\ Active(jobs[m][b]) => b = Len(jobs[m])
          /\ Done(jobs[m][b]) => catalog[m] = "core_ready"
      BY <1>0, <3>1 DEF MovieFits, Done
    <3>3. CASE b = a
      BY <1>1, <1>2, <3>1, <3>2, <3>3
    <3>4. CASE b # a
      BY <1>1, <1>2, <3>1, <3>2, <3>4
    <3> QED
      BY <3>3, <3>4
  <2>2. catalog'[m] # "core_ready" => Follows(catalog'[m], jobs'[m][Len(jobs'[m])].status)
    <3>1. CASE catalog[m] # "core_ready" /\ catalog'[m] = catalog[m]
               /\ row.status = jobs[m][a].status
      <4>1. Follows(catalog[m], jobs[m][Len(jobs[m])].status)
        BY <1>0, <1>3, <3>1 DEF MovieFits
      <4>2. jobs'[m][Len(jobs[m])].status = jobs[m][Len(jobs[m])].status
        BY <1>1, <1>3, <3>1
      <4> QED
        BY <1>1, <3>1, <4>1, <4>2
    <3>2. CASE Active(jobs[m][a]) /\ Follows(catalog'[m], row.status)
      BY <1>0, <1>1, <3>2 DEF MovieFits
    <3> QED
      BY <1>2, <3>1, <3>2
  <2> QED
    BY <1>3, <2>1, <2>2 DEF MovieFits, Done
<1> QED
  BY <1>0, <1>1, <1>2, <1>4, OneMovie DEF JobTypes

\* A job is added for a movie that has no active one.
LEMMA JobAdded ==
  ASSUME MetadataConstants, CatalogInv, NEW m \in Movies,
         NEW reason \in {"initial", "history", "manual_or_search", "ranking"},
         NEW mode \in {"full", "missing_enrichment"},
         NEW requested \in SUBSET Optional, NEW parent \in Nat,
         AddJob(m, reason, mode, requested, parent),
         \A a \in DOMAIN jobs[m] : ~Active(jobs[m][a]),
         UNCHANGED <<claims, children, slot, procs>>
  PROVE  CatalogInv'
<1>0. JobTypes /\ MovieFits(m) /\ jobs \in [Movies -> Seq(JobRow)] /\ claims \in Nat
  BY DEF CatalogInv, JobTypes
<1> PICK row : row = NewJob(reason, mode, requested, parent)
  OBVIOUS
<1>1. row \in JobRow /\ row.status = "queued" /\ ~Done(row)
  BY NewRow
<1>2. /\ jobs[m] \in Seq(JobRow) /\ Len(jobs[m]) \in Nat
      /\ DOMAIN jobs[m] = 1 .. Len(jobs[m])
  BY <1>0, JobRows
<1> DEFINE mine == Append(jobs[m], row)
<1>3. /\ mine \in Seq(JobRow) /\ Len(mine) = Len(jobs[m]) + 1 /\ mine # <<>>
      /\ DOMAIN mine = 1 .. Len(jobs[m]) + 1
      /\ mine[Len(jobs[m]) + 1] = row /\ \A a \in DOMAIN jobs[m] : mine[a] = jobs[m][a]
  BY <1>1, <1>2
<1>4. jobs' = [jobs EXCEPT ![m] = mine] /\ catalog' = CoreReadyOr(m, "metadata_queued")
  BY DEF AddJob
<1> HIDE DEF mine
<1>5. /\ jobs' \in [Movies -> Seq(JobRow)] /\ jobs'[m] = mine
      /\ \A n \in Movies : n # m => jobs'[n] = jobs[n]
  BY <1>0, <1>3, <1>4
<1>6. /\ catalog' \in [Movies -> CatalogState]
      /\ catalog'[m] = IF catalog[m] = "core_ready" THEN "core_ready" ELSE "metadata_queued"
      /\ \A n \in Movies \ {m} : catalog'[n] = catalog[n]
  BY <1>0, <1>4, StateSet DEF CatalogState
<1>7. \A n \in Movies : DOMAIN jobs[n] \subseteq DOMAIN jobs'[n]
  BY <1>2, <1>3, <1>5
<1>8. MovieFits(m)'
  <2>1. ASSUME NEW a \in DOMAIN mine
        PROVE  /\ Active(mine[a]) => a = Len(mine)
               /\ Done(mine[a]) => catalog'[m] = "core_ready"
    <3>1. CASE a \in DOMAIN jobs[m]
      BY <1>0, <1>3, <1>6, <3>1 DEF MovieFits, Done
    <3>2. CASE a = Len(jobs[m]) + 1
      BY <1>1, <1>3, <3>2
    <3> QED
      BY <1>2, <1>3, <3>1, <3>2
  <2>2. catalog'[m] # "core_ready" => Follows(catalog'[m], mine[Len(mine)].status)
    BY <1>1, <1>3, <1>6 DEF Follows
  <2> QED
    BY <1>3, <1>5, <2>1, <2>2 DEF MovieFits, Done
<1>9. Known /\ Carried
  BY <1>0 DEF JobTypes, Known, Carried
<1> QED
  BY <1>0, <1>5, <1>6, <1>7, <1>8, <1>9, OneMovie

LEMMA NothingMoves ==
  ASSUME MetadataConstants, CatalogInv, UNCHANGED <<children, slot, procs>>
  PROVE  Known /\ Carried
  BY DEF CatalogInv, JobTypes, Known, Carried

LEMMA NothingWritten ==
  ASSUME MetadataConstants, CatalogInv, UNCHANGED <<jobs, catalog, claims>>, Known, Carried
  PROVE  CatalogInv'
<1>1. JobTypes'
  BY DEF CatalogInv, JobTypes, Known, Carried, Named
<1>2. \A m \in Movies : MovieFits(m)'
  BY DEF CatalogInv, MovieFits
<1> QED
  BY <1>1, <1>2, StillFits DEF CatalogInv

LEMMA Reprioritised ==
  ASSUME MetadataConstants, CatalogInv, NEW m \in Movies, NEW reason \in {"manual_or_search", "ranking"},
         jobs[m] # <<>>, Reprioritise(m, reason),
         UNCHANGED <<claims, children, slot, procs>>
  PROVE  CatalogInv'
<1>0. JobTypes /\ claims' \in Nat
  BY DEF CatalogInv, JobTypes
<1> DEFINE last == Len(jobs[m])
<1>1. last \in DOMAIN jobs[m] /\ jobs[m][last] \in JobRow
  BY <1>0, JobRows
<1> PICK row : row = [jobs[m][last] EXCEPT !.reason = reason]
  OBVIOUS
<1>2. /\ row \in JobRow /\ row.status = jobs[m][last].status
      /\ row.stages = jobs[m][last].stages
  BY <1>1 DEF JobRow, Reasons, PRIORITY_BY_REASON
<1>3. SetJob(m, last, row) /\ catalog' = catalog
  BY DEF Reprioritise, Latest
<1>4. (Done(row) => Done(jobs[m][last])) /\ (Active(row) => Active(jobs[m][last]))
  BY <1>2 DEF Done, Active
<1> HIDE DEF last
<1> QED
  BY <1>0, <1>1, <1>2, <1>3, <1>4, RowWritten, NothingMoves

\* Requests of users, of the administrator and of the seeder.
LEMMA RequestKept ==
  ASSUME MetadataConstants, CatalogInv, Request, UNCHANGED <<children, slot, procs>>
  PROVE  CatalogInv'
<1>0. /\ {} \in SUBSET Optional /\ 0 \in Nat
      /\ \A m \in Movies : Len(jobs[m]) \in Nat /\ DOMAIN jobs[m] = 1 .. Len(jobs[m])
  BY JobRows DEF CatalogInv
<1>1. \A m \in Movies : jobs[m] = <<>> => \A a \in DOMAIN jobs[m] : ~Active(jobs[m][a])
  OBVIOUS
<1>2. ASSUME NEW m \in Movies, SeedInitial(m) \/ SeedHistory(m)
      PROVE  CatalogInv'
  <2>1. PICK reason \in {"initial", "history"} : AddJob(m, reason, "full", {}, 0)
    BY <1>2 DEF SeedInitial, SeedHistory
  <2>2. jobs[m] = <<>> /\ UNCHANGED claims
    BY <1>2 DEF SeedInitial, SeedHistory, Candidate
  <2> QED
    BY <1>0, <1>1, <2>1, <2>2, JobAdded
<1>3. ASSUME NEW m \in Movies, EnsureSearchPriority(m) PROVE CatalogInv'
  <2>1. CASE jobs[m] = <<>> /\ AddJob(m, "manual_or_search", "full", {}, 0)
    BY <1>0, <1>1, <1>3, <2>1, JobAdded DEF EnsureSearchPriority
  <2>2. CASE jobs[m] # <<>> /\ Reprioritise(m, "manual_or_search")
    BY <1>3, <2>2, Reprioritised DEF EnsureSearchPriority
  <2> QED
    BY <1>3, <2>1, <2>2 DEF EnsureSearchPriority
<1>4. ASSUME NEW m \in Movies, EnsureRankingPriority(m) PROVE CatalogInv'
  <2>1. CASE jobs[m] = <<>> /\ AddJob(m, "ranking", "full", {}, 0)
    BY <1>0, <1>1, <1>4, <2>1, JobAdded DEF EnsureRankingPriority
  <2>2. CASE jobs[m] # <<>> /\ Reprioritise(m, "ranking")
    BY <1>4, <2>2, Reprioritised DEF EnsureRankingPriority
  <2> QED
    BY <1>4, <2>1, <2>2 DEF EnsureRankingPriority
<1>5. ASSUME NEW m \in Movies, RescrapeMovie(m) PROVE CatalogInv'
  <2>1. CASE jobs[m] # <<>> /\ Active(Latest(m))
    BY <1>5, <2>1, Reprioritised DEF RescrapeMovie
  <2>2. CASE ~(jobs[m] # <<>> /\ Active(Latest(m)))
    <3>1. \A a \in DOMAIN jobs[m] : ~Active(jobs[m][a])
      BY <2>2 DEF CatalogInv, MovieFits, Latest
    <3>2. AddJob(m, "manual_or_search", "full", {}, Len(jobs[m])) /\ UNCHANGED claims
      BY <1>5, <2>2 DEF RescrapeMovie
    <3> QED
      BY <1>0, <3>1, <3>2, JobAdded
  <2> QED
    BY <2>1, <2>2
<1>6. ASSUME NEW m \in Movies, NEW a \in 1 .. Len(jobs[m]),
             \/ ManualRetry(m, a)
             \/ \E requested \in SUBSET Optional : RetryEnrichment(m, a, requested)
      PROVE  CatalogInv'
  <2>1. \A b \in DOMAIN jobs[m] : ~Active(jobs[m][b])
    BY <1>0, <1>6 DEF ManualRetry, RetryEnrichment, NoActive
  <2>2. CASE ManualRetry(m, a)
    BY <1>0, <2>1, <2>2, JobAdded DEF ManualRetry
  <2>3. ASSUME NEW requested \in SUBSET Optional, RetryEnrichment(m, a, requested)
        PROVE  CatalogInv'
    BY <1>0, <2>1, <2>3, JobAdded DEF RetryEnrichment
  <2> QED
    BY <1>6, <2>2, <2>3
<1>7. CASE MarkInitialComplete \/ SetPaused
  BY <1>7, NothingWritten, NothingMoves DEF MarkInitialComplete, SetPaused
<1> QED
  BY <1>2, <1>3, <1>4, <1>5, <1>6, <1>7 DEF Request

\* A claim names a row there is.
LEMMA HeldJob ==
  ASSUME MetadataConstants, CatalogInv, NEW c, Named(c)
  PROVE  /\ c.movie \in Movies /\ c.attempt \in DOMAIN jobs[c.movie]
         /\ jobs[c.movie][c.attempt] \in JobRow
         /\ Row(c) = jobs[c.movie][c.attempt]
         /\ Holds(c) => jobs[c.movie][c.attempt].status = "running"
<1>1. c.movie \in Movies /\ c.attempt \in DOMAIN jobs[c.movie]
  BY DEF Named
<1>2. jobs[c.movie][c.attempt] \in JobRow
  BY <1>1, JobRows DEF CatalogInv
<1> QED
  BY <1>1, <1>2 DEF Row, Holds, HoldsClaim

LEMMA JobFailed ==
  ASSUME MetadataConstants, CatalogInv, NEW c, Named(c), jobs[c.movie][c.attempt].status = "running",
         FailJob(c.movie, c.attempt), Known, Carried
  PROVE  CatalogInv'
<1> PICK row : row = FailedJob(jobs[c.movie][c.attempt])
  OBVIOUS
<1>1. /\ c.movie \in Movies /\ c.attempt \in DOMAIN jobs[c.movie]
      /\ jobs[c.movie][c.attempt] \in JobRow
      /\ Active(jobs[c.movie][c.attempt])
  BY HeldJob DEF Active
<1>2. /\ row \in JobRow /\ row.status = "failed"
      /\ Done(row) => Done(jobs[c.movie][c.attempt])
  BY <1>1, FailedRow
<1>3. /\ SetJob(c.movie, c.attempt, row) /\ claims' = claims
      /\ catalog' = CoreReadyOr(c.movie, "raw_only")
  BY DEF FailJob
<1>4. claims' \in Nat /\ ~Active(row) /\ Follows("raw_only", row.status)
  BY <1>2, <1>3 DEF CatalogInv, JobTypes, Active, Follows
<1>5. "raw_only" \in CatalogState
  BY DEF CatalogState
<1> QED
  BY <1>1, <1>2, <1>3, <1>4, <1>5, RowWritten

LEMMA JobClaimed ==
  ASSUME MetadataConstants, CatalogInv, NEW m \in Movies, NEW a \in Nat, ClaimSlot(m, a)
  PROVE  CatalogInv'
<1> PICK row : row = ClaimedJob(jobs[m][a], claims + 1)
  OBVIOUS
<1>1. /\ a \in 1 .. Len(jobs[m]) /\ Claimable(jobs[m][a]) /\ claims' = claims + 1
      /\ SetJob(m, a, row) /\ catalog' = CoreReadyOr(m, "metadata_running")
      /\ slot' = Claim(m, a, claims + 1) /\ UNCHANGED <<children, procs>>
  BY DEF ClaimSlot, ClaimNext, Exists
<1>2. a \in DOMAIN jobs[m] /\ jobs[m][a] \in JobRow /\ claims \in Nat
  BY <1>1, JobRows DEF CatalogInv, JobTypes
<1>3. /\ row \in JobRow /\ row.status = "running" /\ claims' \in Nat
      /\ Done(row) => Done(jobs[m][a])
  BY <1>1, <1>2, ClaimedRow
<1>4. Active(jobs[m][a]) /\ Follows("metadata_running", row.status)
  BY <1>1, <1>3 DEF Claimable, Active, Follows
<1>5. "metadata_running" \in CatalogState
  BY DEF CatalogState
<1>6. Named(slot')
  BY <1>1, <1>2 DEF Claim, Named
<1>7. Known /\ Carried
  BY <1>1, <1>6 DEF CatalogInv, JobTypes, Known, Carried
<1> QED
  BY <1>1, <1>2, <1>3, <1>4, <1>5, <1>7, RowWritten

\* Processes that are removed leave the others as they are.
LEMMA SomeEnd ==
  ASSUME MetadataConstants, CatalogInv, NEW killed, procs' = Without(killed)
  PROVE  Carried
<1>1. procs' = [c \in DOMAIN procs \ killed |-> procs[c]]
  BY DEF Without, Alive
<1> QED
  BY <1>1 DEF CatalogInv, JobTypes, Carried

LEMMA SupervisorKept ==
  ASSUME MetadataConstants, CatalogInv, Supervisor \/ WorkerDies
  PROVE  CatalogInv'
<1>0. /\ \A c \in children : Named(c)
      /\ slot # NoClaim => Named(slot)
      /\ \A c \in DOMAIN procs : Named(c)
  BY DEF CatalogInv, JobTypes
<1>1. ASSUME NEW id \in JobIds, ClaimSlot(id[1], id[2]) PROVE CatalogInv'
  <2>1. id[1] \in Movies /\ id[2] \in Nat
    BY DEF JobIds
  <2> QED
    BY <1>1, <2>1, JobClaimed
<1>2. CASE Launch
  <2> PICK fresh : fresh = [pc |-> "load", todo |-> <<>>, warnings |-> FALSE]
    OBVIOUS
  <2>1. /\ slot # NoClaim /\ slot' = NoClaim
        /\ children' = {c \in children : c.movie # slot.movie} \union {slot}
        /\ procs' = [c \in DOMAIN procs \union {slot} |->
                       IF c \in DOMAIN procs THEN procs[c] ELSE fresh]
        /\ UNCHANGED <<jobs, catalog, claims>>
    BY <1>2 DEF Launch, Alive, queueVars
  <2>2. Known
    BY <1>0, <2>1 DEF Known
  <2>3. ASSUME NEW c \in DOMAIN procs' PROVE (c \in DOMAIN procs /\ procs'[c] = procs[c]) \/ ChildFits(c)'
    <3>1. CASE c \notin DOMAIN procs
      <4>1. procs'[c] = fresh
        BY <2>1, <3>1
      <4> QED
        BY <4>1 DEF ChildFits
    <3> QED
      BY <2>1, <3>1
  <2>4. Carried
    BY <1>0, <2>1, <2>3 DEF Carried
  <2> QED
    BY <2>1, <2>2, <2>4, NothingWritten
<1>3. CASE LaunchFails
  <2>1. /\ slot # NoClaim /\ Holds(slot) /\ slot' = NoClaim
        /\ FailJob(slot.movie, slot.attempt) /\ UNCHANGED <<children, procs>>
    BY <1>3 DEF LaunchFails
  <2>2. Known /\ Carried
    BY <1>0, <2>1 DEF CatalogInv, JobTypes, Known, Carried
  <2> QED
    BY <1>0, <2>1, <2>2, HeldJob, JobFailed
<1>4. CASE WorkerDies
  <2>1. Known /\ Carried /\ UNCHANGED <<jobs, catalog, claims>>
    BY <1>4 DEF CatalogInv, JobTypes, WorkerDies, queueVars, Known, Carried
  <2> QED
    BY <2>1, NothingWritten
<1>5. ASSUME NEW c \in children, Reap(c) PROVE CatalogInv'
  <2>1. Known /\ Carried
    BY <1>0, <1>5 DEF CatalogInv, JobTypes, Reap, Known, Carried
  <2>2. CASE Holds(c)
    BY <1>0, <1>5, <2>1, <2>2, HeldJob, JobFailed DEF Reap
  <2>3. CASE ~Holds(c)
    BY <1>5, <2>1, <2>3, NothingWritten DEF Reap, queueVars
  <2> QED
    BY <2>2, <2>3
<1>6. ASSUME NEW c \in children, TerminateTimedOut(c) PROVE CatalogInv'
  <2>1. Known /\ Carried
    <3>1. procs' = Without({c}) /\ children' = children \ {c} /\ slot' = slot
      BY <1>6 DEF TerminateTimedOut
    <3> QED
      BY <1>0, <3>1, SomeEnd DEF Known
  <2>2. CASE Row(c).status = "running" /\ Row(c).owner = c.token
    BY <1>0, <1>6, <2>1, <2>2, HeldJob, JobFailed DEF TerminateTimedOut
  <2>3. CASE ~(Row(c).status = "running" /\ Row(c).owner = c.token)
    BY <1>6, <2>1, <2>3, NothingWritten DEF TerminateTimedOut, queueVars
  <2> QED
    BY <2>2, <2>3
<1>7. ASSUME NEW c \in children, RenewLost(c) PROVE CatalogInv'
  <2>1. /\ procs' = Without({c}) /\ children' = children \ {c} /\ slot' = slot
        /\ UNCHANGED <<jobs, catalog, claims>>
    BY <1>7 DEF RenewLost, queueVars
  <2> QED
    BY <1>0, <2>1, SomeEnd, NothingWritten DEF Known
<1> QED
  BY <1>1, <1>2, <1>3, <1>4, <1>5, <1>6, <1>7 DEF Supervisor

\* Rows that only lose their lease.
LEMMA ShutdownKept == ASSUME MetadataConstants, CatalogInv, Shutdown PROVE CatalogInv'
<1>0. JobTypes /\ jobs \in [Movies -> Seq(JobRow)]
  BY DEF CatalogInv, JobTypes
<1>1. Known /\ Carried /\ UNCHANGED <<catalog, claims>>
  <2>1. /\ procs' = Without(children) /\ children' = {} /\ slot' = slot
        /\ slot = NoClaim /\ UNCHANGED <<catalog, claims>>
    BY DEF Shutdown
  <2> QED
    BY <2>1, SomeEnd DEF Known
<1> DEFINE Lost(m, a) == \E c \in children : /\ c.movie = m /\ c.attempt = a
                                             /\ jobs[m][a].status = "running"
                                             /\ jobs[m][a].owner = c.token
           After(m) == [a \in 1 .. Len(jobs[m]) |->
                          IF Lost(m, a) THEN [jobs[m][a] EXCEPT !.live = FALSE] ELSE jobs[m][a]]
<1>2. jobs' = [m \in Movies |-> After(m)]
  BY DEF Shutdown
<1>3. ASSUME NEW m \in Movies
      PROVE  /\ After(m) \in Seq(JobRow) /\ DOMAIN After(m) = DOMAIN jobs[m]
             /\ \A a \in DOMAIN jobs[m] :
                  /\ After(m)[a].status = jobs[m][a].status
                  /\ After(m)[a].stages = jobs[m][a].stages
  <2>1. /\ jobs[m] \in Seq(JobRow) /\ Len(jobs[m]) \in Nat
        /\ DOMAIN jobs[m] = 1 .. Len(jobs[m])
        /\ \A a \in DOMAIN jobs[m] : jobs[m][a] \in JobRow
    BY <1>0, JobRows
  <2>2. ASSUME NEW j \in JobRow
        PROVE  /\ [j EXCEPT !.live = FALSE] \in JobRow
               /\ [j EXCEPT !.live = FALSE].status = j.status
               /\ [j EXCEPT !.live = FALSE].stages = j.stages
    BY DEF JobRow
  <2>3. \A a \in 1 .. Len(jobs[m]) :
          /\ After(m)[a] \in JobRow
          /\ After(m)[a].status = jobs[m][a].status
          /\ After(m)[a].stages = jobs[m][a].stages
    <3> HIDE DEF Lost
    <3> QED
      BY <2>1, <2>2
  <2>4. DOMAIN After(m) = 1 .. Len(jobs[m])
    OBVIOUS
  <2>5. After(m) = [a \in 1 .. Len(jobs[m]) |-> After(m)[a]]
    OBVIOUS
  <2> HIDE DEF After
  <2>6. After(m) \in Seq(JobRow)
    <3> PICK rows0 : rows0 = After(m)
      OBVIOUS
    <3> PICK n \in Nat : n = Len(jobs[m])
      BY <2>1
    <3>1. rows0 \in [1 .. n -> JobRow]
      BY <2>3, <2>5
    <3>2. rows0 \in Seq(JobRow)
      BY <3>1
    <3> QED
      BY <3>2
  <2> QED
    BY <2>1, <2>3, <2>4, <2>6
<1> HIDE DEF After
<1>4. jobs' \in [Movies -> Seq(JobRow)] /\ \A m \in Movies : jobs'[m] = After(m)
  BY <1>2, <1>3
<1>5. ASSUME NEW m \in Movies
      PROVE  /\ DOMAIN jobs'[m] = DOMAIN jobs[m] /\ Len(jobs'[m]) = Len(jobs[m])
             /\ \A a \in DOMAIN jobs[m] : /\ jobs'[m][a].status = jobs[m][a].status
                                          /\ jobs'[m][a].stages = jobs[m][a].stages
             /\ jobs'[m] = <<>> <=> jobs[m] = <<>>
             /\ jobs[m] # <<>> => Len(jobs[m]) \in DOMAIN jobs[m]
  <2>1. jobs[m] \in Seq(JobRow) /\ jobs'[m] \in Seq(JobRow)
    BY <1>0, <1>4
  <2>2. DOMAIN jobs'[m] = DOMAIN jobs[m]
    BY <1>3, <1>4
  <2>3. Len(jobs'[m]) = Len(jobs[m])
    BY <2>1, <2>2
  <2>4. jobs'[m] = <<>> <=> jobs[m] = <<>>
    BY <2>1, <2>3
  <2> QED
    BY <1>0, <1>3, <1>4, <2>2, <2>3, <2>4, JobRows
<1>6. JobTypes'
  BY <1>0, <1>1, <1>4, <1>5 DEF JobTypes, Known, Carried, Named
<1>7. ASSUME NEW m \in Movies PROVE MovieFits(m)'
  BY <1>1, <1>5 DEF CatalogInv, MovieFits, Active
<1>8. \A c \in DOMAIN procs' : ChildFits(c)'
  BY <1>1, StillFits
<1> QED
  BY <1>6, <1>7, <1>8 DEF CatalogInv

-----------------------------------------------------------------------------
LEMMA ChildMoved ==
  ASSUME MetadataConstants, CatalogInv, NEW c \in DOMAIN procs, NEW child, Step(c, child),
         child = [pc |-> child.pc, todo |-> child.todo, warnings |-> child.warnings],
         child.pc = "good" /\ Head(child.todo) = Core => catalog'[c.movie] = "core_ready"
  PROVE  Carried
<1>1. procs' = [procs EXCEPT ![c] = child] /\ procs = [d \in DOMAIN procs |-> procs[d]]
  BY DEF Step, CatalogInv, JobTypes
<1>2. /\ DOMAIN procs' = DOMAIN procs /\ procs'[c] = child
      /\ \A d \in DOMAIN procs : d # c => procs'[d] = procs[d]
      /\ procs' = [d \in DOMAIN procs' |-> procs'[d]]
  BY <1>1
<1>3. ChildFits(c)'
  BY <1>2 DEF ChildFits
<1> QED
  BY <1>2, <1>3 DEF CatalogInv, JobTypes, Carried

\* A child is a record, of which a step changes the next thing to do.
LEMMA NextThing ==
  ASSUME MetadataConstants, CatalogInv, NEW c \in DOMAIN procs, NEW pc
  PROVE  LET child == [procs[c] EXCEPT !.pc = pc]
         IN child = [pc |-> pc, todo |-> procs[c].todo, warnings |-> procs[c].warnings]
<1>1. PICK p, todo, warnings : procs[c] = [pc |-> p, todo |-> todo, warnings |-> warnings]
  BY DEF CatalogInv, ChildFits
<1> QED
  BY <1>1

LEMMA ChildGoes ==
  ASSUME MetadataConstants, CatalogInv, NEW c \in DOMAIN procs, NEW pc,
         Step(c, [procs[c] EXCEPT !.pc = pc]),
         pc = "good" /\ Stage(c) = Core => catalog'[c.movie] = "core_ready"
  PROVE  Carried
<1> PICK child : child = [pc |-> pc, todo |-> procs[c].todo, warnings |-> procs[c].warnings]
  OBVIOUS
<1>1. [procs[c] EXCEPT !.pc = pc] = child
  BY NextThing
<1>2. child.pc = pc /\ child.todo = procs[c].todo
      /\ child = [pc |-> child.pc, todo |-> child.todo, warnings |-> child.warnings]
  OBVIOUS
<1>3. Step(c, child)
  BY <1>1
<1> QED
  BY <1>2, <1>3, ChildMoved DEF Stage

\* A stage of a job that a claim holds is written.
LEMMA StageWritten ==
  ASSUME MetadataConstants, CatalogInv, NEW c, Named(c), NEW stage, NEW status \in StageStatus,
         SetJob(c.movie, c.attempt, [jobs[c.movie][c.attempt] EXCEPT !.stages[stage] = status]),
         UNCHANGED <<catalog, claims>>, Known, Carried,
         stage = Core /\ status = "succeeded" => catalog[c.movie] = "core_ready"
  PROVE  CatalogInv'
<1>1. /\ c.movie \in Movies /\ c.attempt \in DOMAIN jobs[c.movie]
      /\ jobs[c.movie][c.attempt] \in JobRow
  BY HeldJob
<1> PICK j \in JobRow : j = jobs[c.movie][c.attempt]
  BY <1>1
<1> PICK row : row = StageSet(j, stage, status)
  OBVIOUS
<1>2. /\ row \in JobRow /\ row.status = jobs[c.movie][c.attempt].status
      /\ Done(row) => Done(j) \/ catalog[c.movie] = "core_ready"
  BY StageRow
<1>3. SetJob(c.movie, c.attempt, row) /\ claims' \in Nat
  BY DEF StageSet, CatalogInv, JobTypes
<1>4. Active(row) => Active(jobs[c.movie][c.attempt])
  BY <1>2 DEF Active
<1> QED
  BY <1>1, <1>2, <1>3, <1>4, RowWritten

LEMMA ChildKept ==
  ASSUME MetadataConstants, CatalogInv, NEW c \in DOMAIN procs,
         ChildStep(c) \/ ChildKilled(c) \/ WatchdogKills(c)
  PROVE  CatalogInv'
<1>0. /\ Named(c) /\ ChildFits(c)
      /\ \A s \in {"running", "succeeded", "failed", "warning"} : s \in StageStatus
  BY DEF CatalogInv, JobTypes, StageStatus
<1>1. UNCHANGED <<children, slot>> /\ Known
  <2>1. UNCHANGED <<children, slot>>
    BY DEF ChildStep, ChildKilled, WatchdogKills
  <2> QED
    BY <2>1 DEF CatalogInv, JobTypes, Known
<1>2. CASE LoadClaim(c)
  <2> PICK child : child = [pc |-> IF Row(c).mode = "missing_enrichment" THEN "check" ELSE "start",
                            todo |-> PendingStages(Row(c)),
                            warnings |-> HasWarnings(Row(c))]
    OBVIOUS
  <2>1. child = [pc |-> child.pc, todo |-> child.todo, warnings |-> child.warnings] /\ child.pc # "good"
    OBVIOUS
  <2>2. Step(c, child) /\ UNCHANGED <<jobs, catalog, claims>>
    BY <1>2 DEF LoadClaim, queueVars
  <2> QED
    BY <1>1, <2>1, <2>2, ChildMoved, NothingWritten
<1>3. CASE CheckCore(c) \/ ExecuteFails(c)
  <2>1. PICK pc \in {"start", "fail", "bad"} : Step(c, [procs[c] EXCEPT !.pc = pc])
    BY <1>3 DEF CheckCore, ExecuteFails
  <2>2. UNCHANGED <<jobs, catalog, claims>>
    BY <1>3 DEF CheckCore, ExecuteFails, queueVars
  <2> QED
    BY <1>1, <2>1, <2>2, ChildGoes, NothingWritten
<1>4. CASE ExecuteOptional(c) \/ VerifyCore(c)
  <2>1. PICK pc \in {"good", "bad"} :
          /\ Step(c, [procs[c] EXCEPT !.pc = pc])
          /\ pc = "good" => Stage(c) # Core \/ catalog[c.movie] = "core_ready"
    BY <1>4 DEF ExecuteOptional, VerifyCore
  <2>2. UNCHANGED <<jobs, catalog, claims>>
    BY <1>4 DEF ExecuteOptional, VerifyCore, queueVars
  <2> QED
    BY <1>1, <2>1, <2>2, ChildGoes, NothingWritten
<1>5. CASE ExecuteCore(c)
  <2>1. PICK pc \in {"verify", "bad"} : Step(c, [procs[c] EXCEPT !.pc = pc])
    BY <1>5 DEF ExecuteCore
  <2>2. /\ catalog' = [catalog EXCEPT ![c.movie] = "core_ready"] /\ UNCHANGED <<jobs, claims>>
    BY <1>5 DEF ExecuteCore, ImportCore
  <2>3. Carried
    BY <2>1, ChildGoes
  <2>4. /\ c.movie \in Movies /\ catalog \in [Movies -> CatalogState]
        /\ claims' \in Nat /\ jobs' \in [Movies -> Seq(JobRow)]
        /\ "core_ready" \in CatalogState
    BY <1>0, <2>2 DEF CatalogInv, JobTypes, Named, CatalogState
  <2>5. /\ catalog' \in [Movies -> CatalogState] /\ catalog'[c.movie] = "core_ready"
        /\ \A n \in Movies \ {c.movie} : catalog'[n] = catalog[n]
    BY <2>2, <2>4
  <2>6. MovieFits(c.movie)'
    BY <2>2, <2>4, <2>5 DEF CatalogInv, MovieFits
  <2> QED
    BY <1>1, <2>2, <2>3, <2>4, <2>5, <2>6, OneMovie
<1>6. CASE ChildStartStage(c)
  <2>1. /\ Step(c, [procs[c] EXCEPT !.pc = "exec"]) /\ UNCHANGED <<catalog, claims>>
        /\ SetJob(c.movie, c.attempt,
             [jobs[c.movie][c.attempt] EXCEPT !.stages[Stage(c)] = "running"])
    BY <1>6 DEF ChildStartStage, StartStage
  <2> QED
    BY <1>0, <1>1, <2>1, ChildGoes, StageWritten
<1>7. CASE FinishGood(c)
  <2>1. /\ procs[c].pc = "good" /\ UNCHANGED <<catalog, claims>>
        /\ SetJob(c.movie, c.attempt,
             [jobs[c.movie][c.attempt] EXCEPT !.stages[Stage(c)] = "succeeded"])
        /\ Step(c, [procs[c] EXCEPT !.pc = "start", !.todo = Tail(@)])
    BY <1>7 DEF FinishGood, FinishStage, At
  <2> PICK child : child = [procs[c] EXCEPT !.pc = "start", !.todo = Tail(@)]
    OBVIOUS
  <2>2. /\ child = [pc |-> child.pc, todo |-> child.todo, warnings |-> child.warnings]
        /\ child.pc = "start"
    <3>1. PICK p, todo, warnings : procs[c] = [pc |-> p, todo |-> todo, warnings |-> warnings]
      BY <1>0 DEF ChildFits
    <3> QED
      BY <3>1
  <2>3. Carried
    BY <2>1, <2>2, ChildMoved
  <2>4. Stage(c) = Core => catalog[c.movie] = "core_ready"
    BY <1>0, <2>1 DEF ChildFits, Stage
  <2> PICK stage : stage = Stage(c)
    OBVIOUS
  <2>5. /\ "succeeded" \in StageStatus /\ UNCHANGED <<catalog, claims>>
        /\ SetJob(c.movie, c.attempt,
             [jobs[c.movie][c.attempt] EXCEPT !.stages[stage] = "succeeded"])
        /\ stage = Core => catalog[c.movie] = "core_ready"
    BY <1>0, <2>1, <2>4
  <2> QED
    BY <1>0, <1>1, <2>3, <2>5, StageWritten
<1>8. CASE FinishBad(c)
  <2>1. CASE Stage(c) = Core
    <3>1. /\ UNCHANGED <<catalog, claims>> /\ Step(c, [procs[c] EXCEPT !.pc = "fail"])
          /\ SetJob(c.movie, c.attempt,
               [jobs[c.movie][c.attempt] EXCEPT !.stages[Core] = "failed"])
      BY <1>8, <2>1 DEF FinishBad, FinishStage
    <3>2. Carried
      BY <3>1, ChildGoes
    <3> QED
      BY <1>0, <1>1, <3>1, <3>2, StageWritten
  <2>2. CASE Stage(c) # Core
    <3> PICK child : child = [pc |-> "start", todo |-> Tail(procs[c].todo), warnings |-> TRUE]
      OBVIOUS
    <3>1. /\ UNCHANGED <<catalog, claims>> /\ Step(c, child)
          /\ SetJob(c.movie, c.attempt,
               [jobs[c.movie][c.attempt] EXCEPT !.stages[Stage(c)] = "warning"])
      BY <1>8, <2>2 DEF FinishBad, FinishStage
    <3>2. child = [pc |-> child.pc, todo |-> child.todo, warnings |-> child.warnings] /\ child.pc # "good"
      OBVIOUS
    <3>3. Carried
      BY <3>1, <3>2, ChildMoved
    <3> QED
      BY <1>0, <1>1, <3>1, <3>3, StageWritten
  <2> QED
    BY <2>1, <2>2
<1>9. CASE ChildFails(c)
  <2>1. Holds(c) /\ FailJob(c.movie, c.attempt) /\ procs' = Without({c})
    BY <1>9 DEF ChildFails, Exit
  <2> QED
    BY <1>0, <1>1, <2>1, HeldJob, SomeEnd, JobFailed
<1>10. CASE ChildCompletes(c)
  <2>1. PICK status \in {"completed", "completed_with_warnings"} :
          SetJob(c.movie, c.attempt, FinishedJob(jobs[c.movie][c.attempt], status))
    BY <1>10 DEF ChildCompletes, Complete
  <2>2. /\ procs' = Without({c}) /\ UNCHANGED <<catalog, claims>>
        /\ catalog[c.movie] = "core_ready"
    BY <1>10 DEF ChildCompletes, Complete, CanComplete, Exit
  <2> PICK row : row = FinishedJob(jobs[c.movie][c.attempt], status)
    OBVIOUS
  <2>3. /\ c.movie \in Movies /\ c.attempt \in DOMAIN jobs[c.movie]
        /\ jobs[c.movie][c.attempt] \in JobRow
    BY <1>0, HeldJob
  <2>4. status \in JobStatus /\ claims' \in Nat
    BY <2>2 DEF JobStatus, CatalogInv, JobTypes
  <2>5. row \in JobRow /\ row.status = status
    BY <2>3, <2>4, FinishedRow
  <2>6. ~Active(row)
    BY <2>5 DEF Active
  <2>7. Carried
    BY <2>2, SomeEnd
  <2> QED
    BY <1>1, <2>1, <2>2, <2>3, <2>4, <2>5, <2>6, <2>7, RowWritten
<1>11. CASE ChildRefused(c) \/ ChildKilled(c) \/ WatchdogKills(c)
  <2>1. procs' = Without({c}) /\ UNCHANGED <<jobs, catalog, claims>>
    BY <1>11 DEF ChildRefused, ChildKilled, WatchdogKills,
       queueVars, Exit
  <2> QED
    BY <1>1, <2>1, SomeEnd, NothingWritten
<1> QED
  BY <1>2, <1>3, <1>4, <1>5, <1>6, <1>7, <1>8, <1>9, <1>10, <1>11 DEF ChildStep

LEMMA TimeKept ==
  ASSUME MetadataConstants, CatalogInv, NEW id \in JobIds,
         ClaimExpires(id[1], id[2]) \/ HardTimeoutPasses(id[1], id[2])
  PROVE  CatalogInv'
<1>1. PICK m, a : m = id[1] /\ a = id[2]
  OBVIOUS
<1>2. /\ m \in Movies /\ a \in 1 .. Len(jobs[m])
      /\ UNCHANGED <<catalog, claims, children, slot, procs>>
  BY <1>1 DEF JobIds, ClaimExpires, HardTimeoutPasses, Exists
<1>3. a \in DOMAIN jobs[m] /\ jobs[m][a] \in JobRow /\ claims' \in Nat
  BY <1>2, JobRows DEF CatalogInv, JobTypes
<1>4. PICK row : /\ SetJob(m, a, row)
                 /\ \/ row = [jobs[m][a] EXCEPT !.live = FALSE]
                    \/ row = [jobs[m][a] EXCEPT !.overdue = TRUE]
  BY <1>1 DEF ClaimExpires, HardTimeoutPasses
<1>5. /\ row \in JobRow /\ row.status = jobs[m][a].status
      /\ row.stages = jobs[m][a].stages
  BY <1>3, <1>4 DEF JobRow
<1>6. (Done(row) => Done(jobs[m][a])) /\ (Active(row) => Active(jobs[m][a]))
  BY <1>5 DEF Done, Active
<1> QED
  BY <1>2, <1>3, <1>4, <1>5, <1>6, RowWritten, NothingMoves

LEMMA JobsInit ==
  ASSUME MetadataConstants PROVE Init => CatalogInv
<1> SUFFICES ASSUME Init PROVE CatalogInv
  OBVIOUS
<1> USE DEF Init, QueueInit
<1>1. \A m \in Movies : jobs[m] = <<>> /\ catalog[m] = "raw_only"
  OBVIOUS
<1>2. JobTypes
  <2>1. catalog \in [Movies -> CatalogState]
    BY DEF CatalogState
  <2>2. DOMAIN procs = {} /\ procs = [c \in {} |-> procs[c]]
    OBVIOUS
  <2> QED
    BY <2>1, <2>2 DEF JobTypes
<1>3. \A m \in Movies : MovieFits(m)
  BY <1>1 DEF MovieFits
<1>4. DOMAIN procs = {}
  OBVIOUS
<1> QED
  BY <1>2, <1>3, <1>4 DEF CatalogInv

LEMMA JobsStep ==
  ASSUME MetadataConstants PROVE CatalogInv /\ [Next]_(vars) => CatalogInv'
<1> SUFFICES ASSUME CatalogInv, [Next]_(vars) PROVE CatalogInv'
  OBVIOUS
<1>1. CASE Next
  <2>1. CASE Request /\ UNCHANGED <<children, slot, procs, faults>>
    BY <2>1, RequestKept
  <2>2. CASE Supervisor \/ WorkerDies
    BY <2>2, SupervisorKept
  <2>3. CASE Shutdown
    BY <2>3, ShutdownKept
  <2>4. ASSUME NEW c \in Alive,
               ChildStep(c) \/ ChildKilled(c) \/ WatchdogKills(c)
        PROVE  CatalogInv'
    BY <2>4, ChildKept DEF Alive
  <2>5. ASSUME NEW id \in JobIds,
               ClaimExpires(id[1], id[2]) \/ HardTimeoutPasses(id[1], id[2])
        PROVE  CatalogInv'
    BY <2>5, TimeKept
  <2> QED
    BY <1>1, <2>1, <2>2, <2>3, <2>4, <2>5 DEF Next
<1>2. CASE UNCHANGED vars
  BY <1>2, NothingWritten, NothingMoves DEF vars, queueVars
<1> QED
  BY <1>1, <1>2

\* What the catalog says of a movie that is not ready is what its youngest job
\* does, and a job completes its core stage, or itself, only for a movie that is
\* ready (metadata_queue.py, core_import.py), over kills, late ticks and restarts.
LEMMA CatalogFollows ==
  ASSUME CatalogInv PROVE CatalogFollowsJobs
<1>1. ASSUME NEW m \in Movies
      PROVE  /\ catalog[m] # "core_ready" =>
                  catalog[m] = CASE jobs[m] = <<>> -> "raw_only"
                      [] jobs[m] # <<>> /\ Latest(m).status = "queued"  -> "metadata_queued"
                      [] jobs[m] # <<>> /\ Latest(m).status = "running" -> "metadata_running"
                      [] jobs[m] # <<>> /\ Latest(m).status = "failed"  -> "raw_only"
             /\ \A a \in 1 .. Len(jobs[m]) :
                  jobs[m][a].stages[Core] = "succeeded" => catalog[m] = "core_ready"
  <2>1. MovieFits(m) /\ DOMAIN jobs[m] = 1 .. Len(jobs[m])
    BY JobRows DEF CatalogInv
  <2>2. \A a \in 1 .. Len(jobs[m]) :
          jobs[m][a].stages[Core] = "succeeded" => catalog[m] = "core_ready"
    BY <2>1 DEF MovieFits
  <2> PICK status : status = Latest(m).status
    OBVIOUS
  <2> PICK empty \in BOOLEAN : empty <=> jobs[m] = <<>>
    OBVIOUS
  <2>3. catalog[m] # "core_ready" =>
          IF empty THEN catalog[m] = "raw_only" ELSE Follows(catalog[m], status)
    BY <2>1 DEF MovieFits, Latest
  <2>4. catalog[m] # "core_ready" =>
          catalog[m] = CASE empty -> "raw_only"
                         [] ~empty /\ status = "queued"  -> "metadata_queued"
                         [] ~empty /\ status = "running" -> "metadata_running"
                         [] ~empty /\ status = "failed"  -> "raw_only"
    BY <2>3 DEF Follows
  <2> QED
    BY <2>2, <2>4
<1> QED
  BY <1>1 DEF CatalogFollowsJobs

-----------------------------------------------------------------------------
(* The types.  A claim that was made later, or has lapsed, lets nobody write *)
(* the row under an older one, so a child that still holds its claim finds  *)
(* the stages of its job as it left them.                                   *)

AtWork == {"exec", "verify", "good", "bad"}
Fresh  == [pc |-> "load", todo |-> <<>>, warnings |-> FALSE]

\* A child at work runs the stage its list begins with; any other runs none.
Believes(child, j) ==
  IF child.pc \in AtWork THEN child.todo # <<>> /\ Runs(j, Head(child.todo)) ELSE IsStill(j)

FitsJob(child, j, token) == HoldsClaim(j, token) => Believes(child, j)

RowsTyped ==
  \A m \in Movies :
    /\ Len(jobs[m]) <= MaxJobs
    /\ \A a \in DOMAIN jobs[m] : RowShape(jobs[m][a]) /\ jobs[m][a].owner <= claims

ClaimsTyped ==
  /\ children \subseteq Claims
  /\ slot \in Claims \union {NoClaim}
  /\ DOMAIN procs \subseteq Claims
  /\ \A c, d \in DOMAIN procs : c.token = d.token => c = d
  /\ \A c \in DOMAIN procs : c.token # slot.token

ChildrenFit ==
  /\ \A c \in DOMAIN procs :
       procs[c] \in ChildState /\ FitsJob(procs[c], jobs[c.movie][c.attempt], c.token)
  /\ slot # NoClaim => FitsJob(Fresh, jobs[slot.movie][slot.attempt], slot.token)

WorkInv == RowsTyped /\ IsFiniteSet(Rows) /\ ClaimsTyped /\ ChildrenFit

\* A step writes the rows as it should, and of those that are held by another
\* claim than own it writes no stage.
Calm(own) ==
  /\ jobs' \in [Movies -> Seq(JobRow)] /\ claims' = claims
  /\ IsFiniteSet(Rows') /\ RowsTyped'
  /\ \A m \in Movies : \A a \in DOMAIN jobs[m] : \A t \in 1 .. claims :
       t # own /\ HoldsClaim(jobs'[m][a], t) =>
         HoldsClaim(jobs[m][a], t) /\ jobs'[m][a].stages = jobs[m][a].stages

\* A step that is no child's work leaves the processes as they are, ends some
\* or starts one.
Untouched ==
  /\ Around
  /\ \A c \in DOMAIN procs' :
       \/ c \in DOMAIN procs /\ procs'[c] = procs[c]
       \/ procs'[c] = Fresh /\ c = slot /\ slot # NoClaim /\ slot' = NoClaim

LEMMA StillBelieved ==
  ASSUME NEW child, NEW j, NEW k, NEW t, FitsJob(child, j, t),
         HoldsClaim(k, t) => HoldsClaim(j, t) /\ k.stages = j.stages
  PROVE  FitsJob(child, k, t)
  BY DEF FitsJob, Believes, Runs, IsStill

LEMMA CalmKept ==
  ASSUME QueueInv, WorkInv, Calm(0), Untouched
  PROVE  WorkInv'
<1>0. /\ claims' = claims /\ claims \in Nat /\ RowsTyped' /\ IsFiniteSet(Rows')
      /\ ClaimsTyped /\ ChildrenFit
  BY DEF Calm, QueueInv, MetadataTypes, WorkInv
<1>1. Claims' = Claims /\ \A c \in Claims : c.token \in 1 .. claims /\ c.token # 0
  BY <1>0 DEF Claims
<1>2. NoClaim.token = 0
  BY DEF NoClaim
<1>3. slot' = slot \/ slot' = NoClaim
  BY DEF Untouched, Around
<1>4. ClaimsTyped'
  <2>1. children' \subseteq Claims /\ slot' \in Claims \union {NoClaim} /\ DOMAIN procs' \subseteq Claims
    BY <1>0, <1>3 DEF ClaimsTyped, Untouched, Around
  <2>2. \A c, d \in DOMAIN procs' : c.token = d.token => c = d
    BY <1>0 DEF ClaimsTyped, Untouched
  <2>3. \A c \in DOMAIN procs' : c.token # slot'.token
    <3> SUFFICES ASSUME NEW c \in DOMAIN procs' PROVE c.token # slot'.token
      OBVIOUS
    <3>1. CASE slot' = NoClaim
      BY <1>1, <1>2, <2>1, <3>1
    <3>2. CASE slot' # NoClaim
      BY <1>0, <1>3, <3>2 DEF ClaimsTyped, Untouched
    <3> QED
      BY <3>1, <3>2
  <2> QED
    BY <1>1, <2>1, <2>2, <2>3 DEF ClaimsTyped
<1>5. ASSUME NEW child, NEW c \in Claims, Named(c),
             FitsJob(child, jobs[c.movie][c.attempt], c.token)
      PROVE  FitsJob(child, jobs'[c.movie][c.attempt], c.token)
  <2> PICK j, k, t : j = jobs[c.movie][c.attempt] /\ k = jobs'[c.movie][c.attempt] /\ t = c.token
    OBVIOUS
  <2>1. HoldsClaim(k, t) => HoldsClaim(j, t) /\ k.stages = j.stages
    BY <1>1, <1>5 DEF Calm, Named
  <2> QED
    BY <1>5, <2>1, StillBelieved
<1>6. ASSUME NEW c \in DOMAIN procs'
      PROVE  procs'[c] \in ChildState /\ FitsJob(procs'[c], jobs'[c.movie][c.attempt], c.token)
  <2>1. CASE c \in DOMAIN procs /\ procs'[c] = procs[c]
    <3>1. c \in Claims /\ Named(c) /\ procs[c] \in ChildState
          /\ FitsJob(procs[c], jobs[c.movie][c.attempt], c.token)
      BY <1>0, <2>1 DEF ClaimsTyped, ChildrenFit, QueueInv, MetadataTypes
    <3> QED
      BY <1>5, <2>1, <3>1
  <2>2. CASE procs'[c] = Fresh /\ c = slot /\ slot # NoClaim
    <3>1. c \in Claims /\ Named(c) /\ FitsJob(Fresh, jobs[c.movie][c.attempt], c.token)
      BY <1>0, <2>2 DEF ClaimsTyped, ChildrenFit, QueueInv, MetadataTypes
    <3>2. Fresh \in ChildState
      BY DEF Fresh, ChildState, ChildPc
    <3> QED
      BY <1>5, <2>2, <3>1, <3>2
  <2> QED
    BY <2>1, <2>2 DEF Untouched
<1>7. ASSUME slot' # NoClaim
      PROVE  FitsJob(Fresh, jobs'[slot'.movie][slot'.attempt], slot'.token)
  <2>1. slot' = slot /\ slot \in Claims /\ Named(slot)
        /\ FitsJob(Fresh, jobs[slot.movie][slot.attempt], slot.token)
    BY <1>0, <1>3, <1>7 DEF ClaimsTyped, ChildrenFit, QueueInv, MetadataTypes
  <2> QED
    BY <1>5, <2>1
<1>8. ChildrenFit'
  BY <1>6, <1>7 DEF ChildrenFit
<1> QED
  BY <1>0, <1>4, <1>8 DEF WorkInv

\* A child works on, and writes the row of its own job only.
LEMMA ChildTurn ==
  ASSUME QueueInv, WorkInv, NEW c \in DOMAIN procs, NEW child \in ChildState,
         Step(c, child), UNCHANGED <<children, slot>>, Calm(c.token),
         FitsJob(child, jobs'[c.movie][c.attempt], c.token)
  PROVE  WorkInv'
<1>0. /\ claims' = claims /\ claims \in Nat /\ RowsTyped' /\ IsFiniteSet(Rows')
      /\ ClaimsTyped /\ ChildrenFit
  BY DEF Calm, QueueInv, MetadataTypes, WorkInv
<1>1. Claims' = Claims /\ \A d \in Claims : d.token \in 1 .. claims
  BY <1>0 DEF Claims
<1>2. /\ DOMAIN procs' = DOMAIN procs /\ procs'[c] = child
      /\ \A d \in DOMAIN procs : d # c => procs'[d] = procs[d]
  BY DEF Step
<1>3. ClaimsTyped'
  BY <1>0, <1>1, <1>2 DEF ClaimsTyped
<1>4. ASSUME NEW kid, NEW d \in Claims, Named(d), d.token # c.token,
             FitsJob(kid, jobs[d.movie][d.attempt], d.token)
      PROVE  FitsJob(kid, jobs'[d.movie][d.attempt], d.token)
  <2> PICK j, k, t : j = jobs[d.movie][d.attempt] /\ k = jobs'[d.movie][d.attempt] /\ t = d.token
    OBVIOUS
  <2>1. HoldsClaim(k, t) => HoldsClaim(j, t) /\ k.stages = j.stages
    BY <1>1, <1>4 DEF Calm, Named
  <2> QED
    BY <1>4, <2>1, StillBelieved
<1>5. ASSUME NEW d \in DOMAIN procs'
      PROVE  procs'[d] \in ChildState /\ FitsJob(procs'[d], jobs'[d.movie][d.attempt], d.token)
  <2>1. CASE d = c
    BY <1>2, <2>1
  <2>2. CASE d # c
    <3>1. d \in DOMAIN procs /\ d \in Claims /\ Named(d) /\ procs[d] \in ChildState
          /\ FitsJob(procs[d], jobs[d.movie][d.attempt], d.token) /\ d.token # c.token
      BY <1>0, <1>2, <2>2 DEF ClaimsTyped, ChildrenFit, QueueInv, MetadataTypes
    <3> QED
      BY <1>2, <1>4, <2>2, <3>1
  <2> QED
    BY <2>1, <2>2
<1>6. ASSUME slot' # NoClaim
      PROVE  FitsJob(Fresh, jobs'[slot'.movie][slot'.attempt], slot'.token)
  <2>1. slot' = slot /\ slot \in Claims /\ Named(slot) /\ slot.token # c.token
        /\ FitsJob(Fresh, jobs[slot.movie][slot.attempt], slot.token)
    BY <1>0, <1>6 DEF ClaimsTyped, ChildrenFit, QueueInv, MetadataTypes
  <2> QED
    BY <1>4, <2>1
<1>7. ChildrenFit'
  BY <1>5, <1>6 DEF ChildrenFit
<1> QED
  BY <1>0, <1>3, <1>7 DEF WorkInv

\* Steps that write no stage, or that end a job, are calm.
LEMMA RowsCounted ==
  ASSUME \A m \in Movies : Len(jobs'[m]) = Len(jobs[m])
  PROVE  Rows' = Rows
  BY DEF Rows, JobIds, Exists

LEMMA StaysCalm ==
  ASSUME QueueInv, WorkInv, Stays
  PROVE  \A own : Calm(own)
<1>1. /\ jobs \in [Movies -> Seq(JobRow)] /\ jobs' \in [Movies -> Seq(JobRow)] /\ claims' = claims
      /\ RowsTyped /\ IsFiniteSet(Rows)
  BY DEF QueueInv, MetadataTypes, Stays, Keeps, WorkInv
<1>2. \A m \in Movies : DOMAIN jobs'[m] = DOMAIN jobs[m] /\ Len(jobs'[m]) = Len(jobs[m])
  <2>1. \A m \in Movies : /\ jobs[m] \in Seq(JobRow) /\ jobs'[m] \in Seq(JobRow)
                          /\ DOMAIN jobs'[m] = DOMAIN jobs[m]
    BY <1>1 DEF Stays, Keeps
  <2> QED
    BY <2>1
<1>3. ASSUME NEW m \in Movies, NEW a \in DOMAIN jobs[m]
      PROVE  /\ jobs'[m][a].status = jobs[m][a].status /\ jobs'[m][a].owner = jobs[m][a].owner
             /\ jobs'[m][a].live => jobs[m][a].live
             /\ jobs'[m][a].stages = jobs[m][a].stages
  BY DEF Stays, Keeps
<1>4. ASSUME NEW m \in Movies, NEW a \in DOMAIN jobs[m]
      PROVE  RowShape(jobs'[m][a]) /\ jobs'[m][a].owner <= claims
  <2>1. RowShape(jobs[m][a]) /\ jobs[m][a].owner <= claims
    BY <1>1 DEF RowsTyped
  <2> QED
    BY <1>3, <2>1 DEF RowShape, Runs
<1>5. RowsTyped'
  BY <1>1, <1>2, <1>4 DEF RowsTyped
<1>6. IsFiniteSet(Rows')
  BY <1>1, <1>2, RowsCounted
<1> QED
  BY <1>1, <1>3, <1>5, <1>6 DEF Calm, HoldsClaim

\* A row is written by whoever ends its job, or by the child that holds it.
LEMMA RowCalm ==
  ASSUME QueueInv, WorkInv, NEW m \in Movies, NEW a \in DOMAIN jobs[m], NEW row \in JobRow,
         SetJob(m, a, row), claims' = claims, RowShape(row), NEW own \in 0 .. claims,
         row.status # "running" \/ row.owner = own, row.owner <= claims
  PROVE  Calm(own)
<1>1. jobs \in [Movies -> Seq(JobRow)] /\ RowsTyped /\ IsFiniteSet(Rows)
  BY DEF QueueInv, MetadataTypes, WorkInv
<1>2. /\ jobs' \in [Movies -> Seq(JobRow)]
      /\ \A n \in Movies : DOMAIN jobs'[n] = DOMAIN jobs[n] /\ Len(jobs'[n]) = Len(jobs[n])
      /\ jobs'[m][a] = row
      /\ \A n \in Movies : \A b \in DOMAIN jobs[n] :
           n # m \/ b # a => jobs'[n][b] = jobs[n][b]
  BY <1>1, RowSet
<1>3. ASSUME NEW n \in Movies, NEW b \in DOMAIN jobs[n]
      PROVE  /\ RowShape(jobs'[n][b]) /\ jobs'[n][b].owner <= claims
             /\ \A t \in 1 .. claims : t # own /\ HoldsClaim(jobs'[n][b], t) =>
                  HoldsClaim(jobs[n][b], t) /\ jobs'[n][b].stages = jobs[n][b].stages
  <2>1. CASE n = m /\ b = a
    BY <1>2, <2>1 DEF HoldsClaim
  <2>2. CASE n # m \/ b # a
    BY <1>1, <1>2, <2>2 DEF RowsTyped
  <2> QED
    BY <2>1, <2>2
<1>4. RowsTyped'
  BY <1>1, <1>2, <1>3 DEF RowsTyped
<1>5. IsFiniteSet(Rows')
  BY <1>1, <1>2, RowsCounted
<1> QED
  BY <1>2, <1>3, <1>4, <1>5 DEF Calm

LEMMA EndsCalm == ASSUME QueueInv, WorkInv, Ends PROVE Calm(0)
<1>1. PICK m \in Movies : \E a \in DOMAIN jobs[m] : \E row \in JobRow :
             /\ row.status \in {"completed", "completed_with_warnings", "failed"} /\ row.owner = 0
             /\ RowShape(jobs[m][a]) => RowShape(row)
             /\ SetJob(m, a, row) /\ claims' = claims
  BY DEF Ends
<1>2. PICK a \in DOMAIN jobs[m] : \E row \in JobRow :
             /\ row.status \in {"completed", "completed_with_warnings", "failed"} /\ row.owner = 0
             /\ RowShape(jobs[m][a]) => RowShape(row)
             /\ SetJob(m, a, row) /\ claims' = claims
  BY <1>1
<1>3. PICK row \in JobRow :
             /\ row.status \in {"completed", "completed_with_warnings", "failed"} /\ row.owner = 0
             /\ RowShape(jobs[m][a]) => RowShape(row)
             /\ SetJob(m, a, row) /\ claims' = claims
  BY <1>2
<1>4. RowShape(row)
  BY <1>3 DEF WorkInv, RowsTyped
<1>5. 0 \in 0 .. claims /\ row.owner <= claims /\ row.status # "running"
  BY <1>3 DEF QueueInv, MetadataTypes
<1> QED
  BY <1>3, <1>4, <1>5, RowCalm

\* The bound of the model leaves room for one more row.
LEMMA RoomLeft ==
  ASSUME MetadataConstants, jobs \in [Movies -> Seq(JobRow)], NEW m \in Movies,
         Len(jobs[m]) <= MaxJobs, IsFiniteSet(Rows), Cardinality(Rows) < MaxJobs
  PROVE  Len(jobs[m]) < MaxJobs
<1>0. Len(jobs[m]) \in Nat /\ MaxJobs \in Nat
  BY QueueRows DEF MetadataConstants
<1> SUFFICES ASSUME Len(jobs[m]) = MaxJobs PROVE FALSE
  BY <1>0
<1> PICK R : R = Rows
  OBVIOUS
<1> DEFINE f == [a \in 1 .. MaxJobs |-> <<m, a>>]
<1>1. \A a \in 1 .. MaxJobs : <<m, a>> \in R
  BY DEF Rows, JobIds, Exists
<1>2. f \in Injection(1 .. MaxJobs, R)
  BY <1>1 DEF Injection, IsInjective
<1> HIDE DEF f
<1>3. Cardinality(1 .. MaxJobs) <= Cardinality(R) /\ IsFiniteSet(R)
  BY <1>2, FS_Injection
<1>4. Cardinality(1 .. MaxJobs) = MaxJobs
  <2>1. 1 \in Int /\ MaxJobs \in Int
    BY <1>0
  <2>2. Cardinality(1 .. MaxJobs) = IF 1 > MaxJobs THEN 0 ELSE MaxJobs - 1 + 1
    BY <2>1, FS_Interval
  <2> QED
    BY <1>0, <2>2
<1>5. Cardinality(R) \in Nat
  BY <1>3, FS_CardinalityType
<1> QED
  BY <1>0, <1>3, <1>4, <1>5

LEMMA SubmitsCalm == ASSUME MetadataConstants, QueueInv, WorkInv, Submits PROVE Calm(0)
<1>0. /\ jobs \in [Movies -> Seq(JobRow)] /\ claims \in Nat
      /\ RowsTyped /\ IsFiniteSet(Rows) /\ MaxJobs \in Nat
  BY DEF QueueInv, MetadataTypes, WorkInv, MetadataConstants
<1>1. PICK m \in Movies, row \in JobRow :
        /\ row.status = "queued" /\ row.owner = 0 /\ RowShape(row)
        /\ Cardinality(Rows) < MaxJobs
        /\ jobs' = [jobs EXCEPT ![m] = Append(@, row)] /\ claims' = claims
  BY DEF Submits
<1>2. /\ jobs[m] \in Seq(JobRow) /\ Len(jobs[m]) \in Nat
      /\ DOMAIN jobs[m] = 1 .. Len(jobs[m]) /\ Len(jobs[m]) <= MaxJobs
  BY <1>0, QueueRows DEF RowsTyped
<1>3. Len(jobs[m]) < MaxJobs
  BY <1>0, <1>1, <1>2, RoomLeft
<1> DEFINE mine == Append(jobs[m], row)
<1>4. /\ mine \in Seq(JobRow) /\ Len(mine) = Len(jobs[m]) + 1
      /\ DOMAIN mine = 1 .. Len(jobs[m]) + 1
      /\ mine[Len(jobs[m]) + 1] = row /\ \A a \in DOMAIN jobs[m] : mine[a] = jobs[m][a]
  BY <1>2
<1>5. jobs' = [jobs EXCEPT ![m] = mine]
  BY <1>1
<1> HIDE DEF mine
<1>6. /\ jobs' \in [Movies -> Seq(JobRow)] /\ jobs'[m] = mine
      /\ \A n \in Movies : n # m => jobs'[n] = jobs[n]
  BY <1>0, <1>4, <1>5
<1>7. ASSUME NEW n \in Movies
      PROVE  /\ Len(jobs'[n]) <= MaxJobs
             /\ \A a \in DOMAIN jobs'[n] : RowShape(jobs'[n][a]) /\ jobs'[n][a].owner <= claims
             /\ \A a \in DOMAIN jobs[n] : jobs'[n][a] = jobs[n][a]
  <2>1. CASE n # m
    BY <1>0, <1>6, <2>1 DEF RowsTyped
  <2>2. CASE n = m
    <3>1. Len(mine) <= MaxJobs
      BY <1>0, <1>2, <1>3, <1>4
    <3>2. ASSUME NEW a \in DOMAIN mine PROVE RowShape(mine[a]) /\ mine[a].owner <= claims
      <4>1. CASE a \in DOMAIN jobs[m]
        BY <1>0, <1>4, <4>1 DEF RowsTyped
      <4>2. CASE a = Len(jobs[m]) + 1
        BY <1>0, <1>1, <1>4, <4>2
      <4> QED
        BY <1>2, <1>4, <4>1, <4>2
    <3> QED
      BY <1>4, <1>6, <2>2, <3>1, <3>2
  <2> QED
    BY <2>1, <2>2
<1>8. RowsTyped'
  BY <1>1, <1>7 DEF RowsTyped
<1>9. IsFiniteSet(Rows')
  <2> PICK new : new = <<m, Len(jobs[m]) + 1>>
    OBVIOUS
  <2>1. Rows' \subseteq Rows \union {new}
    <3> SUFFICES ASSUME NEW id \in Rows', id \notin Rows PROVE id = new
      OBVIOUS
    <3>1. id \in Movies \X (1 .. MaxJobs) /\ id[2] \in 1 .. Len(jobs'[id[1]])
          /\ id[2] \notin 1 .. Len(jobs[id[1]])
      BY DEF Rows, JobIds, Exists
    <3>2. id[1] = m
      BY <1>6, <3>1
    <3>3. id[2] = Len(jobs[m]) + 1
      BY <1>2, <1>4, <1>6, <3>1, <3>2
    <3> QED
      BY <3>1, <3>2, <3>3
  <2>2. IsFiniteSet(Rows \union {new})
    BY <1>0, FS_AddElement
  <2> QED
    BY <2>1, <2>2, FS_Subset
<1> QED
  BY <1>1, <1>6, <1>7, <1>8, <1>9 DEF Calm

\* A claim is fresh: nobody held the job it is of.
LEMMA TakesWork ==
  ASSUME MetadataConstants, QueueInv, WorkInv, NEW m \in Movies, NEW a \in Nat, ClaimSlot(m, a)
  PROVE  WorkInv'
<1>0. /\ jobs \in [Movies -> Seq(JobRow)] /\ claims \in Nat /\ MaxJobs \in Nat
      /\ RowsTyped /\ IsFiniteSet(Rows) /\ ClaimsTyped /\ ChildrenFit
  BY DEF QueueInv, MetadataTypes, WorkInv, MetadataConstants
<1> PICK row : row = ClaimedJob(jobs[m][a], claims + 1)
  OBVIOUS
<1>1. /\ a \in 1 .. Len(jobs[m]) /\ claims' = claims + 1 /\ slot = NoClaim
      /\ SetJob(m, a, row)
      /\ slot' = Claim(m, a, claims + 1) /\ UNCHANGED <<children, procs>>
  BY DEF ClaimSlot, ClaimNext, Exists
<1>2. a \in DOMAIN jobs[m] /\ jobs[m][a] \in JobRow /\ a \in 1 .. MaxJobs
  <2>1. a \in DOMAIN jobs[m] /\ jobs[m][a] \in JobRow /\ Len(jobs[m]) \in Nat /\ Len(jobs[m]) <= MaxJobs
    BY <1>0, <1>1, QueueRows DEF RowsTyped
  <2> QED
    BY <1>0, <1>1, <2>1
<1>3. row \in JobRow /\ row.status = "running" /\ row.owner = claims + 1 /\ IsStill(row)
  <2>1. jobs[m][a] \in JobRow /\ claims + 1 \in Nat
    BY <1>0, <1>2
  <2> QED
    BY <2>1, ClaimedRow
<1>4. /\ jobs' \in [Movies -> Seq(JobRow)]
      /\ \A n \in Movies : DOMAIN jobs'[n] = DOMAIN jobs[n] /\ Len(jobs'[n]) = Len(jobs[n])
      /\ jobs'[m][a] = row
      /\ \A n \in Movies : \A b \in DOMAIN jobs[n] :
           n # m \/ b # a => jobs'[n][b] = jobs[n][b]
  BY <1>0, <1>1, <1>2, <1>3, RowSet
<1>5. RowShape(row)
  BY <1>0, <1>3 DEF RowShape, IsStill
<1>6. RowsTyped'
  <2>1. ASSUME NEW n \in Movies, NEW b \in DOMAIN jobs[n]
        PROVE  RowShape(jobs'[n][b]) /\ jobs'[n][b].owner <= claims + 1
    <3>1. CASE n = m /\ b = a
      BY <1>0, <1>3, <1>4, <1>5, <3>1
    <3>2. CASE n # m \/ b # a
      <4>1. RowShape(jobs[n][b]) /\ jobs[n][b].owner <= claims /\ jobs[n][b] \in JobRow
        BY <1>0, QueueRows DEF RowsTyped
      <4>2. jobs[n][b].owner <= claims + 1
        BY <1>0, <4>1 DEF JobRow
      <4> QED
        BY <1>4, <3>2, <4>1, <4>2
    <3> QED
      BY <3>1, <3>2
  <2> QED
    BY <1>0, <1>1, <1>4, <2>1 DEF RowsTyped
<1>7. IsFiniteSet(Rows')
  BY <1>0, <1>4, RowsCounted
<1>8. /\ \A c \in Claims : c \in Claims' /\ c.token \in 1 .. claims
      /\ slot' \in Claims' /\ slot'.token = claims + 1
      /\ slot'.movie = m /\ slot'.attempt = a
  BY <1>0, <1>1, <1>2 DEF Claims, Claim
<1>9. ClaimsTyped'
  <2>1. \A c \in DOMAIN procs : c.token # claims + 1
    BY <1>0, <1>8 DEF ClaimsTyped
  <2>2. children \subseteq Claims /\ DOMAIN procs \subseteq Claims
        /\ \A c, d \in DOMAIN procs : c.token = d.token => c = d
    BY <1>0 DEF ClaimsTyped
  <2>3. children \subseteq Claims' /\ DOMAIN procs \subseteq Claims'
    BY <1>8, <2>2
  <2> QED
    BY <1>1, <1>8, <2>1, <2>2, <2>3 DEF ClaimsTyped
<1>10. ASSUME NEW c \in DOMAIN procs
       PROVE  procs[c] \in ChildState /\ FitsJob(procs[c], jobs'[c.movie][c.attempt], c.token)
  <2>1. /\ c \in Claims /\ Named(c) /\ procs[c] \in ChildState /\ c.token \in 1 .. claims
        /\ FitsJob(procs[c], jobs[c.movie][c.attempt], c.token)
    BY <1>0, <1>8 DEF ClaimsTyped, ChildrenFit, QueueInv, MetadataTypes
  <2>2. CASE c.movie = m /\ c.attempt = a
    BY <1>0, <1>3, <1>4, <2>1, <2>2 DEF FitsJob, HoldsClaim
  <2>3. CASE c.movie # m \/ c.attempt # a
    BY <1>4, <2>1, <2>3 DEF Named
  <2> QED
    BY <2>1, <2>2, <2>3
<1>11. FitsJob(Fresh, jobs'[slot'.movie][slot'.attempt], slot'.token)
  BY <1>3, <1>4, <1>8 DEF FitsJob, Believes, Fresh, AtWork
<1>12. ChildrenFit'
  BY <1>1, <1>10, <1>11 DEF ChildrenFit
<1> QED
  BY <1>6, <1>7, <1>9, <1>12 DEF WorkInv

\* What a child knows of its job: while it holds its claim, the stages.
LEMMA ChildKnows ==
  ASSUME MetadataConstants, QueueInv, WorkInv, NEW c \in DOMAIN procs
  PROVE  /\ Named(c) /\ c.token \in 0 .. claims /\ claims \in Nat
         /\ c.movie \in Movies /\ c.attempt \in DOMAIN jobs[c.movie]
         /\ jobs[c.movie][c.attempt] \in JobRow /\ RowShape(jobs[c.movie][c.attempt])
         /\ procs[c] \in ChildState
         /\ procs[c].pc \in ChildPc /\ procs[c].todo \in Seq(Stages) /\ procs[c].warnings \in BOOLEAN
         /\ FitsJob(procs[c], jobs[c.movie][c.attempt], c.token)
<1>1. Named(c) /\ c \in Claims /\ claims \in Nat /\ procs[c] \in ChildState
      /\ FitsJob(procs[c], jobs[c.movie][c.attempt], c.token)
  BY DEF QueueInv, MetadataTypes, WorkInv, ClaimsTyped, ChildrenFit
<1>2. c.token \in 0 .. claims
  BY <1>1 DEF Claims
<1>3. /\ c.movie \in Movies /\ c.attempt \in DOMAIN jobs[c.movie]
      /\ jobs[c.movie][c.attempt] \in JobRow
  BY <1>1, HeldRow
<1>4. RowShape(jobs[c.movie][c.attempt])
  BY <1>3 DEF WorkInv, RowsTyped
<1>5. procs[c].pc \in ChildPc /\ procs[c].todo \in Seq(Stages) /\ procs[c].warnings \in BOOLEAN
  BY <1>1 DEF ChildState
<1> QED
  BY <1>1, <1>2, <1>3, <1>4, <1>5

LEMMA ChildNext ==
  ASSUME NEW child \in ChildState, NEW pc \in ChildPc
  PROVE  /\ [child EXCEPT !.pc = pc] \in ChildState
         /\ [child EXCEPT !.pc = pc].pc = pc /\ [child EXCEPT !.pc = pc].todo = child.todo
  BY DEF ChildState

\* The stage that a child is about: its job is pending, or runs it.
LEMMA StageStarted ==
  ASSUME NEW j \in JobRow, NEW s \in Stages, RowShape(j), IsStill(j), j.status = "running"
  PROVE  LET row == StageSet(j, s, "running") IN Runs(row, s) /\ RowShape(row)
<1> DEFINE row == StageSet(j, s, "running")
<1>1. "running" \in StageStatus
  BY DEF StageStatus
<1>2. row.status = j.status /\ row.owner = j.owner /\ row.live = j.live
  BY DEF JobRow, StageSet
<1>3. row.stages = [j.stages EXCEPT ![s] = "running"]
  BY <1>1, StagesSet
<1>4. j.stages \in [Stages -> StageStatus]
  BY DEF JobRow
<1> HIDE DEF row
<1>5. Runs(row, s)
  BY <1>3, <1>4 DEF Runs, IsStill
<1>6. \A t \in Stages : row.stages[t] = "running" => t = s
  BY <1>5 DEF Runs
<1>7. RowShape(row)
  BY <1>2, <1>5, <1>6 DEF RowShape
<1> QED
  BY <1>5, <1>7 DEF row

LEMMA StageFinished ==
  ASSUME NEW j \in JobRow, NEW s \in Stages, NEW status \in {"succeeded", "warning", "failed"},
         RowShape(j), Runs(j, s)
  PROVE  LET row == StageSet(j, s, status) IN IsStill(row) /\ RowShape(row)
<1> DEFINE row == StageSet(j, s, status)
<1>1. status \in StageStatus
  BY DEF StageStatus
<1>2. row.status = j.status /\ row.owner = j.owner /\ row.live = j.live
  BY DEF JobRow, StageSet
<1>3. row.stages = [j.stages EXCEPT ![s] = status]
  BY <1>1, StagesSet
<1>4. j.stages \in [Stages -> StageStatus]
  BY DEF JobRow
<1> HIDE DEF row
<1>5. IsStill(row)
  BY <1>3, <1>4 DEF Runs, IsStill
<1>6. RowShape(row)
  BY <1>2, <1>5 DEF RowShape, IsStill
<1> QED
  BY <1>5, <1>6 DEF row

\* A child writes the row of its job while it holds the claim.
LEMMA StageTurn ==
  ASSUME MetadataConstants, QueueInv, WorkInv, NEW c \in DOMAIN procs,
         NEW child \in ChildState, Step(c, child), UNCHANGED <<children, slot, claims>>,
         NEW row \in JobRow, SetJob(c.movie, c.attempt, row), RowShape(row),
         row.owner = c.token, Believes(child, row)
  PROVE  WorkInv'
<1> PICK own : own = c.token
  OBVIOUS
<1>0. /\ own \in 0 .. claims /\ claims \in Nat
      /\ c.movie \in Movies /\ c.attempt \in DOMAIN jobs[c.movie]
      /\ jobs \in [Movies -> Seq(JobRow)]
  BY ChildKnows DEF QueueInv, MetadataTypes
<1>1. row.owner = own /\ row.owner <= claims
  BY <1>0
<1>2. Calm(own)
  BY <1>0, <1>1, RowCalm
<1>3. jobs'[c.movie][c.attempt] = row
  BY <1>0, RowSet
<1>4. FitsJob(child, jobs'[c.movie][c.attempt], c.token)
  BY <1>3 DEF FitsJob
<1> QED
  BY <1>2, <1>4, ChildTurn

LEMMA QuietTurn ==
  ASSUME MetadataConstants, QueueInv, WorkInv, NEW c \in DOMAIN procs,
         NEW child \in ChildState, Step(c, child), UNCHANGED <<jobs, claims, children, slot>>,
         FitsJob(child, jobs[c.movie][c.attempt], c.token)
  PROVE  WorkInv'
<1>1. Around
  BY ChildAround
<1>2. Calm(c.token)
  BY <1>1, RowsSame, StaysCalm
<1> QED
  BY <1>2, ChildTurn

LEMMA ChildWorksTyped ==
  ASSUME MetadataConstants, QueueInv, WorkInv, NEW c \in DOMAIN procs, ChildWorks(c)
  PROVE  WorkInv'
<1> PICK j : j = jobs[c.movie][c.attempt]
  OBVIOUS
<1> PICK kid : kid = procs[c]
  OBVIOUS
<1>0. /\ c.movie \in Movies /\ c.attempt \in DOMAIN jobs[c.movie]
      /\ j \in JobRow /\ RowShape(j) /\ claims \in Nat
      /\ kid \in ChildState /\ kid.todo \in Seq(Stages)
      /\ FitsJob(kid, j, c.token)
  BY ChildKnows
<1>1. UNCHANGED <<children, slot>> /\ Row(c) = j /\ Stage(c) = Head(kid.todo)
      /\ (Holds(c) <=> HoldsClaim(j, c.token))
  BY DEF ChildWorks, ChildStep, Row, Stage, Holds
<1>2. HoldsClaim(j, c.token) =>
        /\ j.status = "running" /\ j.owner = c.token
        /\ kid.pc \in AtWork => kid.todo # <<>> /\ Runs(j, Head(kid.todo))
        /\ kid.pc \notin AtWork => IsStill(j)
  BY <1>0 DEF FitsJob, Believes, HoldsClaim
<1>3. CASE LoadClaim(c)
  <2> PICK pc : pc = IF Row(c).mode = "missing_enrichment" THEN "check" ELSE "start"
    OBVIOUS
  <2> PICK todo, warnings : todo = PendingStages(Row(c)) /\ warnings = HasWarnings(Row(c))
    OBVIOUS
  <2> PICK child : child = [pc |-> pc, todo |-> todo, warnings |-> warnings]
    OBVIOUS
  <2>1. todo \in Seq(Stages)
    <3>1. ALL_STAGES \in Seq(Stages)
      BY AllStages
    <3>2. Selected(ALL_STAGES, {stage \in Stages : Row(c).stages[stage] = "pending"})
             \in Seq(Stages \cap {stage \in Stages : Row(c).stages[stage] = "pending"})
      BY <3>1, SelectedTyped
    <3> QED
      BY <3>2 DEF PendingStages
  <2>2. warnings \in BOOLEAN /\ pc \in ChildPc \ AtWork
    BY DEF HasWarnings, ChildPc, AtWork
  <2>3. child \in ChildState /\ child.pc \notin AtWork
    BY <2>1, <2>2 DEF ChildState
  <2>4. Step(c, child) /\ UNCHANGED <<jobs, claims>> /\ kid.pc = "load"
    BY <1>3 DEF LoadClaim, queueVars, At
  <2>5. FitsJob(child, j, c.token)
    BY <1>2, <2>3, <2>4 DEF FitsJob, Believes, AtWork
  <2> QED
    BY <1>1, <2>3, <2>4, <2>5, QuietTurn
<1>4. CASE CheckCore(c)
  <2>1. PICK pc \in {"start", "fail"} : Step(c, [kid EXCEPT !.pc = pc])
    BY <1>4 DEF CheckCore
  <2>2. UNCHANGED <<jobs, claims>> /\ kid.pc = "check" /\ pc \in ChildPc
    BY <1>4 DEF CheckCore, queueVars, At, ChildPc
  <2> PICK child : child = [kid EXCEPT !.pc = pc]
    OBVIOUS
  <2>3. child \in ChildState /\ child.pc = pc
    BY <1>0, <2>2, ChildNext
  <2>4. FitsJob(child, j, c.token)
    BY <1>2, <2>2, <2>3 DEF FitsJob, Believes, AtWork
  <2> QED
    BY <1>1, <2>1, <2>2, <2>3, <2>4, QuietTurn
<1>5. CASE ExecuteCore(c) \/ ExecuteFails(c) \/ ExecuteOptional(c) \/ VerifyCore(c)
  <2>1. PICK pc \in AtWork : Step(c, [kid EXCEPT !.pc = pc])
    BY <1>5 DEF ExecuteCore, ExecuteFails, ExecuteOptional, VerifyCore, AtWork
  <2>2. UNCHANGED <<jobs, claims>> /\ kid.pc \in AtWork /\ pc \in ChildPc
    BY <1>5 DEF ExecuteCore, ImportCore, ExecuteFails, ExecuteOptional, VerifyCore,
       queueVars, At, ChildPc, AtWork
  <2> PICK child : child = [kid EXCEPT !.pc = pc]
    OBVIOUS
  <2>3. child \in ChildState /\ child.pc = pc /\ child.todo = kid.todo
    BY <1>0, <2>2, ChildNext
  <2>4. FitsJob(child, j, c.token)
    BY <1>0, <2>2, <2>3 DEF FitsJob, Believes
  <2> QED
    BY <1>1, <2>1, <2>2, <2>3, <2>4, QuietTurn
<1>6. CASE ChildStartStage(c)
  <2>1. /\ kid.pc = "start" /\ kid.todo # <<>> /\ HoldsClaim(j, c.token)
        /\ SetJob(c.movie, c.attempt, [jobs[c.movie][c.attempt] EXCEPT !.stages[Stage(c)] = "running"])
        /\ claims' = claims /\ Step(c, [kid EXCEPT !.pc = "exec"])
    BY <1>6 DEF ChildStartStage, StartStage, At
  <2> PICK s : s = Head(kid.todo)
    OBVIOUS
  <2> PICK row : row = StageSet(j, s, "running")
    OBVIOUS
  <2> PICK child : child = [kid EXCEPT !.pc = "exec"]
    OBVIOUS
  <2>2. s \in Stages
    BY <1>0, <2>1
  <2>3. IsStill(j) /\ j.status = "running" /\ j.owner = c.token
    BY <1>2, <2>1 DEF AtWork
  <2>4. Runs(row, s) /\ RowShape(row)
    BY <1>0, <2>2, <2>3, StageStarted
  <2>5. row \in JobRow /\ row.owner = c.token
    BY <1>0, <2>3, StageRow DEF StageStatus
  <2>6. child \in ChildState /\ child.pc = "exec" /\ child.todo = kid.todo
    <3>1. "exec" \in ChildPc
      BY DEF ChildPc
    <3> QED
      BY <1>0, <3>1, ChildNext
  <2>7. Believes(child, row)
    BY <2>1, <2>4, <2>6 DEF Believes, AtWork
  <2>8. SetJob(c.movie, c.attempt, row) /\ Step(c, child)
    BY <1>1, <2>1 DEF StageSet
  <2> QED
    BY <1>1, <2>1, <2>4, <2>5, <2>6, <2>7, <2>8, StageTurn
<1>7. CASE FinishGood(c) \/ FinishBad(c)
  <2> PICK s : s = Head(kid.todo)
    OBVIOUS
  <2> DEFINE Leaves(status, child) ==
          /\ SetJob(c.movie, c.attempt, [jobs[c.movie][c.attempt] EXCEPT !.stages[s] = status])
          /\ Step(c, child)
          /\ \/ child = [kid EXCEPT !.pc = "start", !.todo = Tail(kid.todo)]
             \/ child = [kid EXCEPT !.pc = "fail"]
             \/ child = [pc |-> "start", todo |-> Tail(kid.todo), warnings |-> TRUE]
  <2>1. \E status \in {"succeeded", "warning", "failed"} : \E child : Leaves(status, child)
    <3>1. CASE FinishGood(c)
      BY <1>1, <3>1 DEF FinishGood, FinishStage
    <3>2. CASE FinishBad(c) /\ Stage(c) = Core
      <4>1. /\ SetJob(c.movie, c.attempt, [jobs[c.movie][c.attempt] EXCEPT !.stages[Core] = "failed"])
            /\ Step(c, [kid EXCEPT !.pc = "fail"])
        BY <3>2 DEF FinishBad, FinishStage
      <4>2. s = Core
        BY <1>1, <3>2
      <4> QED
        BY <4>1, <4>2
    <3>3. CASE FinishBad(c) /\ Stage(c) # Core
      BY <1>1, <3>3 DEF FinishBad, FinishStage
    <3> QED
      BY <1>7, <3>1, <3>2, <3>3
  <2> PICK status \in {"succeeded", "warning", "failed"} : \E child : Leaves(status, child)
    BY <2>1
  <2> PICK child : Leaves(status, child)
    OBVIOUS
  <2>2. /\ kid.pc \in AtWork /\ HoldsClaim(j, c.token) /\ claims' = claims
    BY <1>7 DEF FinishGood, FinishBad, FinishStage, At, AtWork
  <2>3. kid.todo # <<>> /\ Runs(j, s) /\ j.status = "running" /\ j.owner = c.token
    BY <1>2, <2>2
  <2>4. s \in Stages /\ Tail(kid.todo) \in Seq(Stages)
    <3>1. kid.todo \in Seq(Stages) /\ kid.todo # <<>>
      BY <1>0, <2>3 DEF ChildState
    <3> QED
      BY <3>1
  <2> PICK row : row = StageSet(j, s, status)
    OBVIOUS
  <2>5. IsStill(row) /\ RowShape(row)
    BY <1>0, <2>3, <2>4, StageFinished
  <2>6. row \in JobRow /\ row.owner = c.token
    BY <1>0, <2>3, StageRow DEF StageStatus
  <2>7. child \in ChildState /\ child.pc \notin AtWork
    <3>1. "start" \in ChildPc \ AtWork /\ "fail" \in ChildPc \ AtWork
      BY DEF ChildPc, AtWork
    <3>2. CASE child = [kid EXCEPT !.pc = "start", !.todo = Tail(kid.todo)]
      BY <1>0, <2>4, <3>1, <3>2 DEF ChildState
    <3>3. CASE child = [kid EXCEPT !.pc = "fail"]
      BY <1>0, <3>1, <3>3, ChildNext
    <3>4. CASE child = [pc |-> "start", todo |-> Tail(kid.todo), warnings |-> TRUE]
      BY <2>4, <3>1, <3>4 DEF ChildState
    <3> QED
      BY <3>2, <3>3, <3>4
  <2>8. Believes(child, row)
    BY <2>5, <2>7 DEF Believes
  <2>9. SetJob(c.movie, c.attempt, row)
    BY <2>1 DEF StageSet
  <2> QED
    BY <1>1, <2>1, <2>2, <2>5, <2>6, <2>7, <2>8, <2>9, StageTurn
<1> QED
  BY <1>3, <1>4, <1>5, <1>6, <1>7 DEF ChildWorks, ChildLeaves, ChildStep

\* The steps that are no child's work leave the processes as they are.
LEMMA OthersTouchNothing ==
  ASSUME \/ Request /\ UNCHANGED <<children, slot, procs, faults>>
         \/ Launch \/ LaunchFails \/ WorkerDies \/ Shutdown
         \/ \E c \in children : Reap(c) \/ TerminateTimedOut(c) \/ RenewLost(c)
         \/ \E c \in Alive : ChildLeaves(c) \/ ChildKilled(c) \/ WatchdogKills(c)
         \/ \E id \in JobIds : ClaimExpires(id[1], id[2]) \/ HardTimeoutPasses(id[1], id[2])
  PROVE  Untouched
<1>1. ASSUME UNCHANGED procs, \A c \in children' : c \in children \/ (c = slot /\ slot # NoClaim),
             slot' # NoClaim => slot' = slot
      PROVE  Untouched
  BY <1>1 DEF Untouched, Around
<1>2. ASSUME NEW killed, procs' = Without(killed), children' \subseteq children,
             slot' # NoClaim => slot' = slot
      PROVE  Untouched
  <2>1. DOMAIN procs' = DOMAIN procs \ killed /\ \A c \in DOMAIN procs' : procs'[c] = procs[c]
    BY <1>2 DEF Without, Alive
  <2> QED
    BY <1>2, <2>1 DEF Untouched, Around
<1>3. CASE Launch
  <2>1. /\ slot # NoClaim /\ slot' = NoClaim
        /\ children' = {c \in children : c.movie # slot.movie} \union {slot}
        /\ procs' = [c \in DOMAIN procs \union {slot} |->
                       IF c \in DOMAIN procs THEN procs[c] ELSE Fresh]
    BY <1>3 DEF Launch, Alive, Fresh
  <2> HIDE DEF Fresh
  <2>2. Around
    BY <2>1 DEF Around
  <2>3. \A c \in DOMAIN procs' : \/ c \in DOMAIN procs /\ procs'[c] = procs[c]
                                 \/ procs'[c] = Fresh /\ c = slot
    BY <2>1
  <2> QED
    BY <2>1, <2>2, <2>3 DEF Untouched
<1>4. CASE Request /\ UNCHANGED <<children, slot, procs, faults>>
  BY <1>1, <1>4
<1>5. CASE LaunchFails \/ WorkerDies
  BY <1>1, <1>5 DEF LaunchFails, WorkerDies
<1>6. CASE Shutdown
  BY <1>2, <1>6 DEF Shutdown
<1>7. ASSUME NEW c \in children, Reap(c) \/ TerminateTimedOut(c) \/ RenewLost(c)
      PROVE  Untouched
  BY <1>1, <1>2, <1>7 DEF Reap, TerminateTimedOut, RenewLost
<1>8. ASSUME NEW c, ChildLeaves(c) \/ ChildKilled(c) \/ WatchdogKills(c)
      PROVE  Untouched
  BY <1>2, <1>8 DEF ChildLeaves, ChildKilled, WatchdogKills, ChildFails, ChildCompletes,
     ChildRefused, Exit
<1>9. ASSUME NEW id \in JobIds, ClaimExpires(id[1], id[2]) \/ HardTimeoutPasses(id[1], id[2])
      PROVE  Untouched
  BY <1>1, <1>9 DEF ClaimExpires, HardTimeoutPasses
<1> QED
  BY <1>3, <1>4, <1>5, <1>6, <1>7, <1>8, <1>9

LEMMA WorkStarts == ASSUME MetadataConstants PROVE Init => WorkInv
<1> SUFFICES ASSUME Init PROVE WorkInv
  OBVIOUS
<1> USE DEF Init, QueueInit
<1>1. \A m \in Movies : jobs[m] = <<>> /\ Len(jobs[m]) = 0 /\ DOMAIN jobs[m] = {}
  OBVIOUS
<1>2. RowsTyped => WorkInv
  <2>1. Rows = {}
    BY <1>1 DEF Rows, Exists, JobIds
  <2>2. DOMAIN procs = {} /\ children = {} /\ slot = NoClaim
    OBVIOUS
  <2> QED
    BY <2>1, <2>2, FS_EmptySet DEF WorkInv, ClaimsTyped, ChildrenFit
<1>3. MaxJobs \in Nat
  BY DEF MetadataConstants
<1>4. RowsTyped
  BY <1>1, <1>3 DEF RowsTyped
<1> QED
  BY <1>2, <1>4

LEMMA WorkNext ==
  ASSUME MetadataConstants PROVE QueueInv /\ WorkInv /\ [Next]_vars => WorkInv'
<1> SUFFICES ASSUME QueueInv, WorkInv, [Next]_vars PROVE WorkInv'
  OBVIOUS
<1>1. ASSUME Submits \/ Ends \/ Stays, Untouched PROVE WorkInv'
  BY <1>1, SubmitsCalm, EndsCalm, StaysCalm, CalmKept
<1>2. CASE Takes
  BY <1>2, TakesWork DEF Takes
<1>3. CASE Request /\ UNCHANGED <<children, slot, procs, faults>>
  BY <1>1, <1>3, RequestStep, OthersTouchNothing
<1>4. CASE Supervisor \/ WorkerDies
  <2>1. Takes \/ Ends \/ Stays
    BY <1>4, SupervisorStep
  <2>2. CASE ~Takes
    <3>1. ~\E id \in JobIds : ClaimSlot(id[1], id[2])
      BY <2>2 DEF Takes, JobIds
    <3>2. Untouched
      BY <1>4, <3>1, OthersTouchNothing DEF Supervisor
    <3> QED
      BY <1>1, <2>1, <2>2, <3>2
  <2> QED
    BY <1>2, <2>2
<1>5. CASE Shutdown
  BY <1>1, <1>5, ShutdownStep, OthersTouchNothing
<1>6. ASSUME NEW c \in Alive, ChildStep(c) \/ ChildKilled(c) \/ WatchdogKills(c)
      PROVE  WorkInv'
  <2>1. c \in DOMAIN procs
    BY DEF Alive
  <2>2. CASE ChildWorks(c)
    BY <2>1, <2>2, ChildWorksTyped
  <2>3. CASE ChildLeaves(c) \/ ChildKilled(c) \/ WatchdogKills(c)
    BY <1>1, <2>1, <2>3, ChildLeavesStep, OthersTouchNothing
  <2> QED
    BY <1>6, <2>2, <2>3 DEF ChildWorks
<1>7. ASSUME NEW id \in JobIds, ClaimExpires(id[1], id[2]) \/ HardTimeoutPasses(id[1], id[2])
      PROVE  WorkInv'
  BY <1>1, <1>7, TimeStep, OthersTouchNothing
<1>8. CASE UNCHANGED vars
  <2>1. Untouched /\ Stays
    BY <1>8, RowsSame DEF vars, queueVars, Untouched, Around
  <2> QED
    BY <1>1, <2>1
<1> QED
  BY <1>3, <1>4, <1>5, <1>6, <1>7, <1>8 DEF Next

\* The flags of the queue, and the count of the faults.
FlagsTyped ==
  paused \in BOOLEAN /\ seeding \in BOOLEAN /\ seeded \subseteq Movies /\ faults \in 0 .. MaxFaults

LEMMA FlagsNext ==
  ASSUME MetadataConstants PROVE FlagsTyped /\ [Next]_vars => FlagsTyped'
<1> SUFFICES ASSUME FlagsTyped, [Next]_vars PROVE FlagsTyped'
  OBVIOUS
<1>0. MaxFaults \in Nat
  BY DEF MetadataConstants
<1>1. ASSUME faults < MaxFaults, faults' = faults + 1 PROVE faults' \in 0 .. MaxFaults
  BY <1>0, <1>1 DEF FlagsTyped
<1>2. ASSUME UNCHANGED <<paused, seeding, seeded>>, Fault \/ faults' = faults
      PROVE  FlagsTyped'
  BY <1>1, <1>2 DEF FlagsTyped, Fault
<1>3. CASE Request /\ UNCHANGED <<children, slot, procs, faults>>
  <2>1. ASSUME UNCHANGED <<paused, seeding, seeded>> PROVE FlagsTyped'
    BY <1>2, <1>3, <2>1
  <2>2. ASSUME NEW m \in Movies, SeedInitial(m) PROVE FlagsTyped'
    <3>1. seeded' = seeded \union {m} /\ seeding' \in BOOLEAN /\ paused' = paused
      BY <2>2 DEF SeedInitial
    <3> QED
      BY <1>3, <3>1 DEF FlagsTyped
  <2>3. CASE MarkInitialComplete
    BY <1>3, <2>3 DEF MarkInitialComplete, FlagsTyped
  <2>4. CASE SetPaused
    <3>1. paused' \in BOOLEAN /\ UNCHANGED <<seeding, seeded>>
      BY <2>4 DEF SetPaused
    <3> QED
      BY <1>3, <3>1 DEF FlagsTyped
  <2>5. ASSUME NEW m \in Movies,
               \/ SeedHistory(m) \/ EnsureSearchPriority(m) \/ EnsureRankingPriority(m)
               \/ RescrapeMovie(m)
               \/ \E a \in 1 .. Len(jobs[m]) : ManualRetry(m, a)
               \/ \E a \in 1 .. Len(jobs[m]) : \E requested \in SUBSET Optional :
                    RetryEnrichment(m, a, requested)
        PROVE  FlagsTyped'
    <3>1. UNCHANGED <<paused, seeding, seeded>>
      BY <2>5 DEF SeedHistory, EnsureSearchPriority, EnsureRankingPriority, RescrapeMovie,
         ManualRetry, RetryEnrichment
    <3> QED
      BY <2>1, <3>1
  <2> QED
    BY <1>3, <2>2, <2>3, <2>4, <2>5 DEF Request
<1>4. CASE \E id \in JobIds : ClaimSlot(id[1], id[2])
  <2>1. UNCHANGED <<paused, seeding, seeded, faults>>
    BY <1>4 DEF ClaimSlot, ClaimNext
  <2> QED
    BY <1>2, <2>1
<1>5. CASE Launch \/ WorkerDies \/ Shutdown
  <2>1. UNCHANGED <<paused, seeding, seeded>> /\ (Fault \/ faults' = faults)
    BY <1>5 DEF Launch, WorkerDies, Shutdown, queueVars
  <2> QED
    BY <1>2, <2>1
<1>6. CASE LaunchFails
  <2>1. UNCHANGED <<paused, seeding, seeded>> /\ (Fault \/ faults' = faults)
    BY <1>6 DEF LaunchFails, FailJob, Fault
  <2> QED
    BY <1>2, <2>1
<1>7. ASSUME NEW c \in children, Reap(c) \/ TerminateTimedOut(c) \/ RenewLost(c)
      PROVE  FlagsTyped'
  <2>1. UNCHANGED <<paused, seeding, seeded, faults>>
    BY <1>7 DEF Reap, TerminateTimedOut, RenewLost, FailJob, queueVars
  <2> QED
    BY <1>2, <2>1
<1>8. ASSUME NEW c \in Alive, ChildStep(c) \/ ChildKilled(c) \/ WatchdogKills(c)
      PROVE  FlagsTyped'
  <2>1. CASE ChildKilled(c) \/ WatchdogKills(c)
    BY <1>2, <2>1 DEF ChildKilled, WatchdogKills, queueVars
  <2>2. CASE ChildStep(c)
    <3>1. UNCHANGED <<paused, seeding, seeded, faults>>
      BY <2>2 DEF ChildStep, LoadClaim, CheckCore, ChildStartStage, StartStage, ExecuteCore, ImportCore,
         ExecuteFails, ExecuteOptional, VerifyCore, FinishGood, FinishBad, FinishStage,
         ChildFails, FailJob, ChildCompletes, Complete, ChildRefused, queueVars
    <3> QED
      BY <1>2, <3>1
  <2> QED
    BY <1>8, <2>1, <2>2
<1>9. ASSUME NEW id \in JobIds, ClaimExpires(id[1], id[2]) \/ HardTimeoutPasses(id[1], id[2])
      PROVE  FlagsTyped'
  <2>1. UNCHANGED <<paused, seeding, seeded>> /\ (Fault \/ faults' = faults)
    BY <1>9 DEF ClaimExpires, HardTimeoutPasses
  <2> QED
    BY <1>2, <2>1
<1>10. CASE UNCHANGED vars
  BY <1>2, <1>10 DEF vars, queueVars
<1> QED
  BY <1>3, <1>4, <1>5, <1>6, <1>7, <1>8, <1>9, <1>10 DEF Next, Supervisor

\* What every state of the queue and its workers keeps.
MetadataInv == QueueInv /\ CatalogInv /\ WorkInv /\ FlagsTyped

LEMMA MetadataStarts == ASSUME MetadataConstants PROVE Init => MetadataInv
<1> SUFFICES ASSUME Init PROVE MetadataInv
  OBVIOUS
<1>1. MaxFaults \in Nat
  BY DEF MetadataConstants
<1>2. FlagsTyped
  <2>1. faults = 0 /\ paused = FALSE /\ seeding = TRUE /\ seeded = {}
    BY DEF Init, QueueInit
  <2>2. faults \in 0 .. MaxFaults
    BY <1>1, <2>1
  <2> QED
    BY <2>1, <2>2 DEF FlagsTyped
<1> QED
  BY <1>2, QueueStarts, JobsInit, WorkStarts DEF MetadataInv

LEMMA MetadataNext == ASSUME MetadataConstants PROVE MetadataInv /\ [Next]_vars => MetadataInv'
  BY QueueNext, JobsStep, WorkNext, FlagsNext DEF MetadataInv

LEMMA TypesHold ==
  ASSUME MetadataInv PROVE TypeOK
<1>0. /\ jobs \in [Movies -> Seq(JobRow)] /\ claims \in Nat /\ catalog \in [Movies -> CatalogState]
      /\ RowsTyped /\ ClaimsTyped /\ ChildrenFit /\ FlagsTyped
  BY DEF MetadataInv, QueueInv, MetadataTypes, CatalogInv, JobTypes, WorkInv
<1>1. ASSUME NEW j, RowShape(j) PROVE RowWellFormed(j)
  <2> PICK running : running = {stage \in Stages : j.stages[stage] = "running"}
    OBVIOUS
  <2>1. IsFiniteSet(running) /\ Cardinality(running) <= 1
    <3>1. CASE running = {}
      BY <3>1, FS_EmptySet
    <3>2. CASE running # {}
      <4>1. PICK s \in running : TRUE
        BY <3>2
      <4>2. running = {s}
        BY <1>1, <4>1 DEF RowShape, Runs
      <4> QED
        BY <4>2, FS_Singleton
    <3> QED
      BY <3>1, <3>2
  <2>2. (j.live \/ running # {}) => j.status = "running"
    BY <1>1 DEF RowShape
  <2>3. (j.status = "running") = (j.owner # 0)
    BY <1>1 DEF RowShape
  <2>4. /\ (j.status = "running") = (j.owner # 0)
        /\ (j.live \/ running # {}) => j.status = "running"
        /\ Cardinality(running) <= 1
    BY <2>1, <2>2, <2>3
  <2> QED
    BY <2>4 DEF RowWellFormed
<1>2. QueueTypeOK
  <2>1. \A m \in Movies : /\ Len(jobs[m]) <= MaxJobs
                          /\ \A a \in 1 .. Len(jobs[m]) : RowWellFormed(jobs[m][a])
    BY <1>0, <1>1, QueueRows DEF RowsTyped
  <2> QED
    BY <1>0, <2>1 DEF QueueTypeOK, FlagsTyped
<1> QED
  BY <1>0, <1>2 DEF TypeOK, ClaimsTyped, ChildrenFit, FlagsTyped
=============================================================================
