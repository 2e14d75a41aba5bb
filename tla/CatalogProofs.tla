---------------------------- MODULE CatalogProofs ----------------------------
(***************************************************************************)
(* What is proved of the queues that fill the catalog, for any workers,    *)
(* boards, digests and bounds, in the composition that the catalog run     *)
(* checks: one snapshot per completed request and the rankings as a queue  *)
(* of attempts, what is derived is derived from the current snapshot, no   *)
(* row of a release is skipped, the catalog says what its jobs do, and the *)
(* types of all of it.                                                     *)
(***************************************************************************)
EXTENDS MCCatalog, SelectionProofs, FiniteSetTheorems, SequenceTheorems, TLAPS

-----------------------------------------------------------------------------
(* The rankings.                                                           *)

RankConsumer == [pc : Ranking!Pc, request : Nat, token : Nat, fetched : Nat]

RankTypes ==
  /\ requests \in Seq(Ranking!RequestRow) /\ taken \in Nat /\ fetches \in Nat
  /\ consumers \in [Workers -> RankConsumer]
  /\ snapshots \in [Boards -> Seq(Ranking!Snapshot)]

\* The unique index: a board has one active request at a time.
OneActive ==
  \A i, j \in DOMAIN requests :
    requests[i].scope = requests[j].scope /\ Ranking!ActiveRequest(i)
      /\ Ranking!ActiveRequest(j) => i = j

\* A token is made once, and one consumer works under it.
TokensDiffer ==
  /\ \A i \in DOMAIN requests : requests[i].token <= taken
  /\ \A w \in Workers : consumers[w].pc # "idle" =>
       consumers[w].request \in DOMAIN requests /\ consumers[w].token <= taken
  /\ \A v, w \in Workers :
       consumers[v].pc # "idle" /\ consumers[w].pc # "idle"
         /\ consumers[v].token = consumers[w].token => v = w

\* Nothing is younger than the last fetch.
FetchedBefore ==
  /\ \A s \in Boards : \A n \in DOMAIN snapshots[s] : snapshots[s][n].fetched <= fetches
  /\ \A w \in Workers : consumers[w].fetched <= fetches

\* What a consumer fetched under its claim is younger than any snapshot.
FetchedLater ==
  \A w \in Workers : consumers[w].pc \in {"prepare", "activate"} /\ Ranking!Mine(w) =>
    \A n \in DOMAIN snapshots[Ranking!Scope(w)] :
      snapshots[Ranking!Scope(w)][n].fetched < consumers[w].fetched

RankInv == /\ RankTypes /\ OneActive /\ TokensDiffer /\ FetchedBefore /\ FetchedLater
           /\ Ranking!OneSnapshotPerRequest

LEMMA RankingCardinality == \A S : Ranking!Cardinality(S) = Cardinality(S)
  BY DEF Ranking!Cardinality, Cardinality, Ranking!IsFiniteSet, IsFiniteSet

LEMMA RankInit == Ranking!Init => RankInv
<1> SUFFICES ASSUME Ranking!Init PROVE RankInv
  OBVIOUS
<1> USE DEF Ranking!Init, Ranking!RequestsInit
<1>1. RankTypes
  BY DEF RankTypes, RankConsumer, Ranking!Idle, Ranking!Pc
<1>2. OneActive /\ TokensDiffer /\ FetchedBefore /\ FetchedLater
  BY DEF OneActive, TokensDiffer, FetchedBefore, FetchedLater, Ranking!Idle
<1>3. Ranking!OneSnapshotPerRequest
  <2>1. ASSUME NEW s \in Boards
        PROVE  {i \in DOMAIN requests : requests[i].scope = s /\ requests[i].status = "completed"} = {}
    OBVIOUS
  <2>2. \A s \in Boards : snapshots[s] = <<>>
    OBVIOUS
  <2> QED
    BY <2>1, <2>2, RankingCardinality, FS_EmptySet DEF Ranking!OneSnapshotPerRequest
<1> QED
  BY <1>1, <1>2, <1>3 DEF RankInv

\* The rows, the consumers and the snapshots, as a step reads them.
LEMMA RankRows ==
  ASSUME RankTypes
  PROVE  /\ Len(requests) \in Nat /\ DOMAIN requests = 1 .. Len(requests)
         /\ \A i \in DOMAIN requests : requests[i] \in Ranking!RequestRow
         /\ \A w \in Workers : consumers[w] \in RankConsumer
         /\ \A s \in Boards : /\ snapshots[s] \in Seq(Ranking!Snapshot)
                              /\ Len(snapshots[s]) \in Nat
                              /\ DOMAIN snapshots[s] = 1 .. Len(snapshots[s])
                              /\ \A n \in DOMAIN snapshots[s] : snapshots[s][n] \in Ranking!Snapshot
<1>1. requests \in Seq(Ranking!RequestRow)
  BY DEF RankTypes
<1>2. \A s \in Boards : snapshots[s] \in Seq(Ranking!Snapshot)
  BY DEF RankTypes
<1>3. ASSUME NEW s \in Boards
      PROVE  /\ Len(snapshots[s]) \in Nat /\ DOMAIN snapshots[s] = 1 .. Len(snapshots[s])
             /\ \A n \in DOMAIN snapshots[s] : snapshots[s][n] \in Ranking!Snapshot
  BY <1>2
<1> QED
  BY <1>1, <1>2, <1>3 DEF RankTypes

\* The completed requests of a board.
CompletedOf(s) ==
  {i \in DOMAIN requests : requests[i].scope = s /\ requests[i].status = "completed"}

\* What is stored for a board is right.
StoredRight(s) ==
  /\ Len(snapshots[s]) = Cardinality(CompletedOf(s))
  /\ \A n \in DOMAIN snapshots[s] :
       /\ (snapshots[s][n].status = "current") = (n = Len(snapshots[s]))
       /\ n > 1 => snapshots[s][n - 1].fetched < snapshots[s][n].fetched

LEMMA RankingRight == Ranking!OneSnapshotPerRequest <=> \A s \in Boards : StoredRight(s)
  BY RankingCardinality DEF Ranking!OneSnapshotPerRequest, StoredRight, CompletedOf

\* One row of the queue becomes another of the same board.
LEMMA RequestSet ==
  ASSUME RankTypes, NEW i \in DOMAIN requests, NEW row \in Ranking!RequestRow,
         requests' = [requests EXCEPT ![i] = row]
  PROVE  /\ requests' \in Seq(Ranking!RequestRow) /\ DOMAIN requests' = DOMAIN requests
         /\ requests'[i] = row /\ \A j \in DOMAIN requests \ {i} : requests'[j] = requests[j]
<1>1. requests \in Seq(Ranking!RequestRow)
  BY DEF RankTypes
<1> QED
  BY <1>1

LEMMA ConsumerSet ==
  ASSUME RankTypes, NEW w \in Workers, NEW row \in RankConsumer,
         consumers' = [consumers EXCEPT ![w] = row]
  PROVE  /\ consumers' \in [Workers -> RankConsumer] /\ consumers'[w] = row
         /\ \A v \in Workers \ {w} : consumers'[v] = consumers[v]
BY DEF RankTypes

\* A consumer's row that goes on under the same claim, or is idle.
Continues(w, row) ==
  \/ row.pc = "idle"
  \/ /\ consumers[w].pc # "idle"
     /\ row.request = consumers[w].request /\ row.token = consumers[w].token

\* A step that neither claims nor stores: rows of the queue keep their token or
\* lose it, and what a consumer holds it held before.
LEMMA RankQuiet ==
  ASSUME RankInv, UNCHANGED <<taken, snapshots>>, fetches' \in Nat, fetches' >= fetches,
         requests' \in Seq(Ranking!RequestRow), DOMAIN requests' = DOMAIN requests,
         \A i \in DOMAIN requests :
           /\ requests'[i].scope = requests[i].scope
           /\ requests'[i].status = requests[i].status
                \/ (Ranking!ActiveRequest(i) /\ requests'[i].status = "failed")
           /\ requests'[i].token \in {requests[i].token, 0}
           /\ requests'[i].live => requests[i].live /\ requests'[i].token = requests[i].token,
         NEW w \in Workers, NEW row \in RankConsumer,
         consumers' = [consumers EXCEPT ![w] = row], Continues(w, row),
         row.fetched <= fetches',
         row.pc \in {"prepare", "activate"} =>
           \/ consumers[w].pc \in {"prepare", "activate"} /\ row.fetched = consumers[w].fetched
           \/ row.fetched > fetches
  PROVE  RankInv'
<1>0. RankTypes /\ OneActive /\ TokensDiffer /\ FetchedBefore /\ FetchedLater
      /\ \A s \in Boards : StoredRight(s)
  BY RankingRight DEF RankInv
<1>1. /\ consumers' \in [Workers -> RankConsumer] /\ consumers'[w] = row
      /\ \A v \in Workers \ {w} : consumers'[v] = consumers[v]
  BY <1>0, ConsumerSet
<1>2. RankTypes'
  BY <1>0, <1>1 DEF RankTypes
<1>3. OneActive'
  BY <1>0 DEF OneActive, Ranking!ActiveRequest
<1>4. TokensDiffer'
  <2>1. \A i \in DOMAIN requests : requests'[i].token <= taken
    BY <1>0, RankRows DEF TokensDiffer, RankTypes
  <2>2. \A v \in Workers : consumers'[v].pc # "idle" =>
          /\ consumers[v].pc # "idle" /\ consumers'[v].request = consumers[v].request
          /\ consumers'[v].token = consumers[v].token
    BY <1>1 DEF Continues
  <2> QED
    BY <1>0, <2>1, <2>2 DEF TokensDiffer
<1>5. FetchedBefore'
  <2>1. \A s \in Boards : \A n \in DOMAIN snapshots[s] : snapshots[s][n].fetched <= fetches'
    BY <1>0, RankRows DEF FetchedBefore, RankTypes, Ranking!Snapshot
  <2>2. \A v \in Workers : consumers'[v].fetched <= fetches'
    BY <1>0, <1>1, RankRows DEF FetchedBefore, RankTypes, RankConsumer
  <2> QED
    BY <2>1, <2>2 DEF FetchedBefore
<1>6. FetchedLater'
  <2> SUFFICES ASSUME NEW v \in Workers, consumers'[v].pc \in {"prepare", "activate"},
                      Ranking!Mine(v)',
                      NEW n \in DOMAIN snapshots[Ranking!Scope(v)']
               PROVE  snapshots[Ranking!Scope(v)'][n].fetched < consumers'[v].fetched
    BY DEF FetchedLater
  <2>1. /\ consumers[v].pc # "idle" /\ consumers'[v].request = consumers[v].request
        /\ consumers'[v].token = consumers[v].token /\ consumers[v].request \in DOMAIN requests
    BY <1>0, <1>1 DEF Continues, TokensDiffer
  <2>2. Ranking!Mine(v) /\ Ranking!Scope(v)' = Ranking!Scope(v)
    BY <2>1 DEF Ranking!Mine, Ranking!Holds, Ranking!Request, Ranking!Scope
  <2>3. Ranking!Scope(v) \in Boards
    BY <1>0, <2>1, RankRows DEF Ranking!Scope, Ranking!Request, Ranking!RequestRow
  <2>4. CASE consumers[v].pc \in {"prepare", "activate"} /\ consumers'[v].fetched = consumers[v].fetched
    BY <1>0, <2>2, <2>4 DEF FetchedLater
  <2>5. CASE consumers'[v].fetched > fetches
    <3>1. snapshots[Ranking!Scope(v)][n].fetched <= fetches
      BY <1>0, <2>2, <2>3 DEF FetchedBefore
    <3>2. /\ snapshots[Ranking!Scope(v)][n].fetched \in Nat /\ fetches \in Nat
          /\ consumers'[v].fetched \in Nat
      BY <1>0, <1>1, <2>2, <2>3, RankRows DEF Ranking!Snapshot, RankTypes, RankConsumer
    <3> QED
      BY <2>2, <2>5, <3>1, <3>2
  <2> QED
    BY <1>1, <2>4, <2>5
<1>7. \A s \in Boards : StoredRight(s)'
  <2>1. \A s \in Boards : CompletedOf(s)' = CompletedOf(s)
    BY DEF CompletedOf, Ranking!ActiveRequest
  <2> QED
    BY <1>0, <2>1 DEF StoredRight
<1>8. Ranking!OneSnapshotPerRequest'
  BY <1>7, RankingCardinality DEF Ranking!OneSnapshotPerRequest, StoredRight, CompletedOf
<1> QED
  BY <1>2, <1>3, <1>4, <1>5, <1>6, <1>8 DEF RankInv

LEMMA RankEnqueue ==
  ASSUME RankInv, NEW s \in Boards, Ranking!EnqueueDueTarget(s)
  PROVE  RankInv'
<1> DEFINE row == [scope |-> s, status |-> "queued", token |-> 0, live |-> FALSE]
           N == Len(requests)
<1>0. RankTypes /\ OneActive /\ TokensDiffer /\ FetchedBefore /\ FetchedLater
      /\ \A b \in Boards : StoredRight(b)
  BY RankingRight DEF RankInv
<1>1. /\ requests' = Append(requests, row) /\ Ranking!Free(s)
      /\ UNCHANGED <<taken, consumers, snapshots, fetches>>
  BY DEF Ranking!EnqueueDueTarget, Ranking!Enqueue
<1>2. row \in Ranking!RequestRow /\ row.status = "queued" /\ row.token = 0 /\ row.scope = s
  BY DEF Ranking!RequestRow, Ranking!RequestStatus
<1> HIDE DEF row
<1>3. /\ requests' \in Seq(Ranking!RequestRow) /\ DOMAIN requests' = 1 .. N + 1
      /\ requests'[N + 1] = row /\ DOMAIN requests = 1 .. N
      /\ \A i \in DOMAIN requests : requests'[i] = requests[i]
  BY <1>0, <1>1, <1>2 DEF RankTypes
<1>4. N \in Nat
  BY <1>0, RankRows
<1> HIDE DEF N
<1>5. \A i \in DOMAIN requests' : i \in DOMAIN requests \/ i = N + 1
  BY <1>3, <1>4
<1>6. RankTypes'
  BY <1>0, <1>1, <1>3 DEF RankTypes
<1>7. OneActive'
  <2>1. \A k \in DOMAIN requests : requests'[k].scope = s => ~Ranking!ActiveRequest(k)'
    BY <1>1, <1>3 DEF Ranking!Free, Ranking!ActiveRequest
  <2>2. ASSUME NEW j \in DOMAIN requests', NEW k \in DOMAIN requests', j # k,
               requests'[j].scope = requests'[k].scope,
               Ranking!ActiveRequest(j)', Ranking!ActiveRequest(k)'
        PROVE  FALSE
    <3>1. j \in DOMAIN requests /\ k \in DOMAIN requests
      BY <1>2, <1>3, <1>5, <2>1, <2>2
    <3> QED
      BY <1>0, <1>3, <2>2, <3>1 DEF OneActive, Ranking!ActiveRequest
  <2> QED
    BY <2>2 DEF OneActive
<1>8. TokensDiffer'
  <2>1. 0 <= taken
    BY <1>0 DEF RankTypes
  <2>2. DOMAIN requests \subseteq DOMAIN requests'
    BY <1>3, <1>4
  <2> QED
    BY <1>0, <1>1, <1>2, <1>3, <1>5, <2>1, <2>2 DEF TokensDiffer
<1>9. FetchedBefore'
  BY <1>0, <1>1 DEF FetchedBefore
<1>10. FetchedLater'
  <2>1. \A w \in Workers : consumers[w].pc \in {"prepare", "activate"} =>
          consumers[w].request \in DOMAIN requests
    BY <1>0 DEF TokensDiffer
  <2>2. ASSUME NEW w \in Workers, consumers[w].pc \in {"prepare", "activate"}
        PROVE  (Ranking!Mine(w)' <=> Ranking!Mine(w)) /\ Ranking!Scope(w)' = Ranking!Scope(w)
    BY <1>1, <1>3, <2>1, <2>2 DEF Ranking!Mine, Ranking!Holds, Ranking!Request, Ranking!Scope
  <2> QED
    BY <1>0, <1>1, <2>2 DEF FetchedLater
<1>11. \A b \in Boards : CompletedOf(b)' = CompletedOf(b)
  <2>1. N + 1 \notin DOMAIN requests
    BY <1>3, <1>4
  <2>2. ASSUME NEW b \in Boards, NEW j
        PROVE  j \in CompletedOf(b)' <=> j \in CompletedOf(b)
    BY <1>2, <1>3, <1>4, <1>5 DEF CompletedOf
  <2> QED
    BY <2>2 DEF CompletedOf
<1>12. Ranking!OneSnapshotPerRequest'
  <2>1. \A b \in Boards : StoredRight(b)'
    BY <1>0, <1>1, <1>11 DEF StoredRight
  <2> QED
    BY <2>1, RankingCardinality DEF Ranking!OneSnapshotPerRequest, StoredRight, CompletedOf
<1> QED
  BY <1>6, <1>7, <1>8, <1>9, <1>10, <1>12 DEF RankInv

LEMMA RankClaim ==
  ASSUME RankInv, NEW w \in Workers, NEW i \in DOMAIN requests, Ranking!Claim(w, i)
  PROVE  RankInv'
<1> DEFINE row == [requests[i] EXCEPT !.status = "claimed", !.token = taken + 1, !.live = TRUE]
           me == [pc |-> "fetch", request |-> i, token |-> taken + 1, fetched |-> 0]
<1>0. RankTypes /\ OneActive /\ TokensDiffer /\ FetchedBefore /\ FetchedLater
      /\ \A b \in Boards : StoredRight(b)
  BY RankingRight DEF RankInv
<1>1. /\ i \in Nat /\ taken \in Nat /\ taken + 1 \in Nat /\ fetches \in Nat
      /\ requests[i] \in Ranking!RequestRow
  BY <1>0, RankRows DEF RankTypes
<1>2. /\ row \in Ranking!RequestRow /\ row.scope = requests[i].scope
      /\ row.status = "claimed" /\ row.token = taken + 1
  BY <1>1 DEF Ranking!RequestRow, Ranking!RequestStatus
<1>3. /\ me \in RankConsumer /\ me.pc = "fetch" /\ me.token = taken + 1 /\ me.request = i
      /\ me.fetched = 0
  BY <1>1 DEF RankConsumer, Ranking!Pc
<1>4. /\ requests' = [requests EXCEPT ![i] = row] /\ taken' = taken + 1
      /\ consumers' = [consumers EXCEPT ![w] = me] /\ UNCHANGED <<snapshots, fetches>>
      /\ Ranking!ActiveRequest(i) /\ requests[i].status # "completed"
  BY DEF Ranking!Claim, Ranking!ClaimNext, Ranking!Claimable, Ranking!ActiveRequest
<1> HIDE DEF row, me
<1>5. /\ requests' \in Seq(Ranking!RequestRow) /\ DOMAIN requests' = DOMAIN requests
      /\ requests'[i] = row /\ \A j \in DOMAIN requests \ {i} : requests'[j] = requests[j]
  BY <1>0, <1>2, <1>4, RequestSet
<1>6. /\ consumers' \in [Workers -> RankConsumer] /\ consumers'[w] = me
      /\ \A v \in Workers \ {w} : consumers'[v] = consumers[v]
  BY <1>0, <1>3, <1>4, ConsumerSet
<1>7. RankTypes'
  BY <1>0, <1>1, <1>4, <1>5, <1>6 DEF RankTypes
<1>8. OneActive'
  BY <1>0, <1>2, <1>4, <1>5 DEF OneActive, Ranking!ActiveRequest
<1>9. TokensDiffer'
  <2>1. \A j \in DOMAIN requests : requests[j].token \in Nat
    BY <1>0, RankRows DEF Ranking!RequestRow
  <2>2. \A j \in DOMAIN requests : requests'[j].token <= taken + 1
    BY <1>0, <1>1, <1>2, <1>5, <2>1 DEF TokensDiffer
  <2>3. \A v \in Workers : consumers[v].token \in Nat
    BY <1>0, RankRows DEF RankConsumer
  <2>4. \A v \in Workers \ {w} : consumers'[v].pc # "idle" =>
           /\ consumers[v].pc # "idle" /\ consumers'[v].request \in DOMAIN requests
           /\ consumers'[v].token <= taken + 1 /\ consumers'[v].token # taken + 1
           /\ consumers'[v].token = consumers[v].token
    BY <1>0, <1>1, <1>6, <2>3 DEF TokensDiffer
  <2>5. consumers'[w].token = taken + 1 /\ consumers'[w].request \in DOMAIN requests
        /\ taken + 1 <= taken + 1
    BY <1>1, <1>3, <1>6
  <2> QED
    BY <1>0, <1>4, <1>5, <2>2, <2>4, <2>5 DEF TokensDiffer
<1>10. FetchedBefore'
  BY <1>0, <1>1, <1>3, <1>4, <1>6 DEF FetchedBefore
<1>11. FetchedLater'
  <2> SUFFICES ASSUME NEW v \in Workers, consumers'[v].pc \in {"prepare", "activate"},
                      Ranking!Mine(v)',
                      NEW n \in DOMAIN snapshots[Ranking!Scope(v)']
               PROVE  snapshots[Ranking!Scope(v)'][n].fetched < consumers'[v].fetched
    BY <1>4 DEF FetchedLater
  <2>1. v # w /\ consumers'[v] = consumers[v]
    BY <1>3, <1>6
  <2>2. consumers[v].request \in DOMAIN requests /\ consumers[v].token <= taken
        /\ consumers[v].token \in Nat
    BY <1>0, <2>1, RankRows DEF TokensDiffer, RankConsumer
  <2>3. consumers[v].request # i
    BY <1>1, <1>2, <1>5, <2>1, <2>2 DEF Ranking!Mine, Ranking!Holds, Ranking!Request
  <2>4. requests'[consumers[v].request] = requests[consumers[v].request]
    BY <1>5, <2>2, <2>3
  <2>5. Ranking!Mine(v) /\ Ranking!Scope(v)' = Ranking!Scope(v)
    BY <2>1, <2>4 DEF Ranking!Mine, Ranking!Holds, Ranking!Request, Ranking!Scope
  <2> QED
    BY <1>0, <2>1, <2>5 DEF FetchedLater
<1>12. \A b \in Boards : CompletedOf(b)' = CompletedOf(b)
  <2>1. ASSUME NEW b \in Boards, NEW j
        PROVE  j \in CompletedOf(b)' <=> j \in CompletedOf(b)
    BY <1>2, <1>4, <1>5 DEF CompletedOf
  <2> QED
    BY <2>1 DEF CompletedOf
<1>13. Ranking!OneSnapshotPerRequest'
  <2>1. \A b \in Boards : StoredRight(b)'
    BY <1>0, <1>4, <1>12 DEF StoredRight
  <2> QED
    BY <2>1, RankingCardinality DEF Ranking!OneSnapshotPerRequest, StoredRight, CompletedOf
<1> QED
  BY <1>7, <1>8, <1>9, <1>10, <1>11, <1>13 DEF RankInv

\* The new snapshot is current, the others are not, and it is the youngest.
LEMMA StoredRows ==
  ASSUME NEW old \in Seq(Ranking!Snapshot), NEW fetched \in Nat
  PROVE  /\ Ranking!Stored(old, fetched) \in Seq(Ranking!Snapshot)
         /\ DOMAIN old = 1 .. Len(old) /\ Len(old) \in Nat
         /\ DOMAIN Ranking!Stored(old, fetched) = 1 .. Len(old) + 1
         /\ Len(Ranking!Stored(old, fetched)) = Len(old) + 1
         /\ \A n \in DOMAIN old : /\ Ranking!Stored(old, fetched)[n].fetched = old[n].fetched
                                  /\ Ranking!Stored(old, fetched)[n].status = "superseded"
         /\ Ranking!Stored(old, fetched)[Len(old) + 1].fetched = fetched
         /\ Ranking!Stored(old, fetched)[Len(old) + 1].status = "current"
<1> DEFINE past == Ranking!Superseded(old)
           new == [status |-> "current", fetched |-> fetched]
<1>1. Len(old) \in Nat /\ DOMAIN old = 1 .. Len(old)
      /\ \A n \in DOMAIN old : old[n] \in Ranking!Snapshot
  OBVIOUS
<1>2. /\ DOMAIN past = 1 .. Len(old)
      /\ \A n \in DOMAIN old : /\ past[n] \in Ranking!Snapshot /\ past[n].fetched = old[n].fetched
                               /\ past[n].status = "superseded"
  BY <1>1 DEF Ranking!Superseded, Ranking!Snapshot
<1>3. new \in Ranking!Snapshot /\ new.fetched = fetched /\ new.status = "current"
  BY DEF Ranking!Snapshot
<1>4. Ranking!Stored(old, fetched) = Append(past, new)
  BY DEF Ranking!Stored
<1>5. past \in Seq(Ranking!Snapshot) /\ Len(past) = Len(old)
  <2>1. past = [n \in 1 .. Len(old) |-> past[n]]
    BY <1>1 DEF Ranking!Superseded
  <2> HIDE DEF past
  <2>2. past \in [1 .. Len(old) -> Ranking!Snapshot]
    BY <1>1, <1>2, <2>1
  <2> QED
    BY <1>1, <2>2
<1> HIDE DEF past, new
<1>6. /\ Append(past, new) \in Seq(Ranking!Snapshot)
      /\ DOMAIN Append(past, new) = 1 .. Len(old) + 1 /\ Len(Append(past, new)) = Len(old) + 1
      /\ \A n \in 1 .. Len(old) : Append(past, new)[n] = past[n]
      /\ Append(past, new)[Len(old) + 1] = new
  BY <1>1, <1>3, <1>5
<1> QED
  BY <1>1, <1>2, <1>3, <1>4, <1>6

\* The transaction that stores the snapshot and completes the request.
LEMMA RankActivate ==
  ASSUME RankInv, NEW w \in Workers, Ranking!Activate(w), Ranking!Mine(w),
         NEW i, NEW s, NEW mine, i = consumers[w].request, s = Ranking!Scope(w),
         mine = consumers[w].fetched
  PROVE  RankInv'
<1> DEFINE old == snapshots[s]
           row == [requests[i] EXCEPT !.status = "completed", !.token = 0, !.live = FALSE]
<1>0. RankTypes /\ OneActive /\ TokensDiffer /\ FetchedBefore /\ FetchedLater
      /\ \A b \in Boards : StoredRight(b)
  BY RankingRight DEF RankInv
<1>1. /\ requests' = [requests EXCEPT ![i] = row] /\ consumers[w].pc = "activate"
      /\ snapshots' = [snapshots EXCEPT ![s] = Ranking!Stored(old, mine)]
      /\ consumers' = [consumers EXCEPT ![w] = Ranking!Idle] /\ UNCHANGED <<taken, fetches>>
  BY DEF Ranking!Activate, Ranking!Finish, Ranking!Request
<1>2. /\ i \in DOMAIN requests /\ requests[i] \in Ranking!RequestRow
      /\ s = requests[i].scope /\ s \in Boards /\ consumers[w] \in RankConsumer
      /\ mine \in Nat /\ requests[i].status = "claimed"
  BY <1>0, <1>1, RankRows DEF TokensDiffer, Ranking!Scope, Ranking!Request, Ranking!RequestRow,
     RankConsumer, Ranking!Mine, Ranking!Holds
<1>3. row \in Ranking!RequestRow /\ row.status = "completed" /\ row.scope = s
  BY <1>2 DEF Ranking!RequestRow, Ranking!RequestStatus
<1>4. old \in Seq(Ranking!Snapshot)
  BY <1>0, <1>2, RankRows
<1> HIDE DEF row, old
<1>5. /\ requests' \in Seq(Ranking!RequestRow) /\ DOMAIN requests' = DOMAIN requests
      /\ requests'[i] = row /\ \A j \in DOMAIN requests \ {i} : requests'[j] = requests[j]
  BY <1>0, <1>1, <1>2, <1>3, RequestSet
<1>6. Ranking!Idle \in RankConsumer /\ Ranking!Idle.pc = "idle" /\ Ranking!Idle.fetched = 0
  BY DEF Ranking!Idle, RankConsumer, Ranking!Pc
<1>7. /\ consumers' \in [Workers -> RankConsumer] /\ consumers'[w] = Ranking!Idle
      /\ \A v \in Workers \ {w} : consumers'[v] = consumers[v]
  BY <1>0, <1>1, <1>6, ConsumerSet
<1>8. /\ Ranking!Stored(old, mine) \in Seq(Ranking!Snapshot)
      /\ DOMAIN old = 1 .. Len(old) /\ Len(old) \in Nat
      /\ DOMAIN Ranking!Stored(old, mine) = 1 .. Len(old) + 1
      /\ Len(Ranking!Stored(old, mine)) = Len(old) + 1
      /\ \A n \in DOMAIN old : /\ Ranking!Stored(old, mine)[n].fetched = old[n].fetched
                               /\ Ranking!Stored(old, mine)[n].status = "superseded"
      /\ Ranking!Stored(old, mine)[Len(old) + 1].fetched = mine
      /\ Ranking!Stored(old, mine)[Len(old) + 1].status = "current"
  <2>1. mine \in Nat
    BY <1>2
  <2> QED
    BY ONLY <1>4, <2>1, StoredRows
<1>9. /\ snapshots' \in [Boards -> Seq(Ranking!Snapshot)]
      /\ snapshots'[s] = Ranking!Stored(old, mine)
      /\ \A b \in Boards \ {s} : snapshots'[b] = snapshots[b]
  BY <1>0, <1>1, <1>2, <1>8 DEF RankTypes
<1>10. RankTypes'
  BY <1>0, <1>1, <1>5, <1>7, <1>9 DEF RankTypes
<1>11. OneActive'
  BY <1>0, <1>3, <1>5 DEF OneActive, Ranking!ActiveRequest
<1>12. TokensDiffer'
  <2>1. row.token = 0 /\ 0 <= taken
    BY <1>0, <1>2 DEF row, RankTypes, Ranking!RequestRow
  <2> QED
    BY <1>0, <1>1, <1>5, <1>6, <1>7, <2>1 DEF TokensDiffer
<1>13. FetchedBefore'
  <2>1. \A b \in Boards : \A n \in DOMAIN snapshots'[b] : snapshots'[b][n].fetched <= fetches
    <3>1. mine <= fetches
      BY <1>0 DEF FetchedBefore
    <3>2. \A n \in DOMAIN Ranking!Stored(old, mine) : n \in DOMAIN old \/ n = Len(old) + 1
      BY <1>8
    <3>3. \A n \in DOMAIN old : old[n].fetched <= fetches
      BY <1>0, <1>2 DEF FetchedBefore, old
    <3> QED
      BY <1>0, <1>8, <1>9, <3>1, <3>2, <3>3 DEF FetchedBefore
  <2>2. \A v \in Workers : consumers'[v].fetched <= fetches
    <3>1. 0 <= fetches
      BY <1>0 DEF RankTypes
    <3> QED
      BY <1>0, <1>6, <1>7, <3>1 DEF FetchedBefore
  <2> QED
    BY <1>1, <2>1, <2>2 DEF FetchedBefore
<1>14. FetchedLater'
  <2> SUFFICES ASSUME NEW v \in Workers, consumers'[v].pc \in {"prepare", "activate"},
                      Ranking!Mine(v)'
               PROVE  \A n \in DOMAIN snapshots'[Ranking!Scope(v)'] :
                        snapshots'[Ranking!Scope(v)'][n].fetched < consumers'[v].fetched
    BY DEF FetchedLater
  <2>1. v # w /\ consumers'[v] = consumers[v] /\ consumers[v].request \in DOMAIN requests
    BY <1>0, <1>6, <1>7 DEF TokensDiffer
  <2>2. consumers[v].request # i
    BY <1>3, <1>5, <2>1 DEF Ranking!Mine, Ranking!Holds, Ranking!Request
  <2>3. requests'[consumers[v].request] = requests[consumers[v].request]
    BY <1>5, <2>1, <2>2
  <2>4. Ranking!Mine(v) /\ Ranking!Scope(v)' = Ranking!Scope(v)
    BY <2>1, <2>3 DEF Ranking!Mine, Ranking!Holds, Ranking!Request, Ranking!Scope
  <2>5. Ranking!Scope(v) # s
    <3>1. Ranking!ActiveRequest(consumers[v].request) /\ Ranking!ActiveRequest(i)
      BY <1>2, <2>4 DEF Ranking!Mine, Ranking!Holds, Ranking!Request, Ranking!ActiveRequest
    <3> QED
      BY <1>0, <1>2, <2>1, <2>2, <3>1 DEF OneActive, Ranking!Scope, Ranking!Request
  <2>6. Ranking!Scope(v) \in Boards
    BY <1>0, <2>1, RankRows DEF Ranking!Scope, Ranking!Request, Ranking!RequestRow
  <2> QED
    BY <1>0, <1>9, <2>1, <2>4, <2>5, <2>6 DEF FetchedLater
<1>15. \A b \in Boards \ {s} : StoredRight(b)'
  <2>1. ASSUME NEW b \in Boards \ {s} PROVE CompletedOf(b)' = CompletedOf(b)
    <3>1. ASSUME NEW j PROVE j \in CompletedOf(b)' <=> j \in CompletedOf(b)
      BY <1>2, <1>3, <1>5 DEF CompletedOf
    <3> QED
      BY <3>1 DEF CompletedOf
  <2> QED
    BY <1>0, <1>9, <2>1 DEF StoredRight
<1>16. StoredRight(s)'
  <2>1. CompletedOf(s)' = CompletedOf(s) \union {i} /\ i \notin CompletedOf(s)
    BY <1>2, <1>3, <1>5 DEF CompletedOf
  <2>2. IsFiniteSet(CompletedOf(s))
    <3>1. DOMAIN requests = 1 .. Len(requests) /\ Len(requests) \in Nat
      BY <1>0, RankRows
    <3>2. IsFiniteSet(1 .. Len(requests))
      BY <3>1, FS_Interval
    <3> QED
      BY <3>1, <3>2, FS_Subset DEF CompletedOf
  <2>3. Cardinality(CompletedOf(s)') = Cardinality(CompletedOf(s)) + 1
    BY <2>1, <2>2, FS_AddElement
  <2>4. /\ Len(old) = Cardinality(CompletedOf(s))
        /\ \A n \in DOMAIN old : n > 1 => old[n - 1].fetched < old[n].fetched
    BY <1>0, <1>2 DEF StoredRight, old
  <2>5. \A n \in DOMAIN old : old[n].fetched < mine
    BY <1>1 DEF FetchedLater, RankInv, old
  <2>6. \A n \in 1 .. Len(old) + 1 : n \in DOMAIN old \/ n = Len(old) + 1
    BY <1>8
  <2>7. \A n \in DOMAIN old : n > 1 => n - 1 \in DOMAIN old
    BY <1>8
  <2>8. \A n \in 1 .. Len(old) + 1 :
          /\ (Ranking!Stored(old, mine)[n].status = "current") = (n = Len(old) + 1)
          /\ n > 1 => Ranking!Stored(old, mine)[n - 1].fetched < Ranking!Stored(old, mine)[n].fetched
    <3> SUFFICES ASSUME NEW n \in 1 .. Len(old) + 1
                 PROVE  /\ (Ranking!Stored(old, mine)[n].status = "current") = (n = Len(old) + 1)
                        /\ n > 1 => Ranking!Stored(old, mine)[n - 1].fetched
                                      < Ranking!Stored(old, mine)[n].fetched
      OBVIOUS
    <3>1. CASE n \in DOMAIN old
      <4>1. n # Len(old) + 1
        BY <1>8, <3>1
      <4> QED
        BY <1>8, <2>4, <2>7, <3>1, <4>1
    <3>2. CASE n = Len(old) + 1
      <4>1. n > 1 => n - 1 \in DOMAIN old /\ n - 1 = Len(old)
        BY <1>8, <3>2
      <4> QED
        BY <1>8, <2>5, <3>2, <4>1
    <3> QED
      BY <2>6, <3>1, <3>2
  <2>9. Len(snapshots'[s]) = Cardinality(CompletedOf(s)')
    BY <1>8, <1>9, <2>3, <2>4
  <2>10. \A n \in DOMAIN snapshots'[s] :
          /\ (snapshots'[s][n].status = "current") = (n = Len(snapshots'[s]))
          /\ n > 1 => snapshots'[s][n - 1].fetched < snapshots'[s][n].fetched
    BY <1>8, <1>9, <2>8
  <2> QED
    BY <2>9, <2>10 DEF StoredRight
<1>17. Ranking!OneSnapshotPerRequest'
  <2>1. \A b \in Boards : StoredRight(b)'
    BY <1>15, <1>16
  <2> QED
    BY <2>1, RankingCardinality DEF Ranking!OneSnapshotPerRequest, StoredRight, CompletedOf
<1> QED
  BY <1>10, <1>11, <1>12, <1>13, <1>14, <1>17 DEF RankInv

\* The steps of a consumer at its claim, beside the one that stores.
LEMMA RankConsume ==
  ASSUME RankInv, NEW w \in Workers,
         \/ Ranking!Fetch(w) \/ Ranking!Prepare(w) \/ Ranking!Fail(w)
         \/ Ranking!ActivateFails(w) \/ Ranking!Abandon(w) \/ Ranking!Crash(w)
         \/ Ranking!Activate(w) /\ ~Ranking!Mine(w)
  PROVE  RankInv'
<1>0. /\ RankTypes /\ consumers[w] \in RankConsumer /\ fetches \in Nat /\ taken \in Nat
      /\ requests \in Seq(Ranking!RequestRow) /\ consumers[w].fetched <= fetches
  BY RankRows DEF RankInv, RankTypes, FetchedBefore
<1>1. /\ Ranking!Idle \in RankConsumer /\ Ranking!Idle.pc = "idle" /\ Ranking!Idle.fetched = 0
  BY DEF Ranking!Idle, RankConsumer, Ranking!Pc
<1>2. ASSUME NEW row \in RankConsumer, consumers' = [consumers EXCEPT ![w] = row],
             Continues(w, row), row.fetched <= fetches,
             row.pc \in {"prepare", "activate"} =>
               consumers[w].pc \in {"prepare", "activate"} /\ row.fetched = consumers[w].fetched,
             UNCHANGED <<requests, taken, snapshots, fetches>>
      PROVE  RankInv'
  <2>1. /\ UNCHANGED <<taken, snapshots>> /\ fetches' \in Nat /\ fetches' >= fetches
        /\ row.fetched <= fetches'
    BY <1>0, <1>2
  <2>2. requests' \in Seq(Ranking!RequestRow) /\ DOMAIN requests' = DOMAIN requests
    BY <1>0, <1>2
  <2>3. \A i \in DOMAIN requests : /\ requests'[i].scope = requests[i].scope
                                   /\ requests'[i].status = requests[i].status
                                   /\ requests'[i].token = requests[i].token
                                   /\ requests'[i].live = requests[i].live
    BY <1>2
  <2> QED
    BY <1>2, <2>1, <2>2, <2>3, RankQuiet
<1>3. ASSUME NEW pc \in Ranking!Pc, Ranking!Go(w, pc), consumers[w].pc # "idle",
             pc = "prepare" => consumers[w].pc \in {"prepare", "activate"},
             pc = "activate" => consumers[w].pc \in {"prepare", "activate"},
             UNCHANGED <<requests, taken, snapshots, fetches>>
      PROVE  RankInv'
  <2> DEFINE row == [consumers[w] EXCEPT !.pc = pc]
  <2>1. /\ row \in RankConsumer /\ row.pc = pc /\ row.fetched = consumers[w].fetched
        /\ row.request = consumers[w].request /\ row.token = consumers[w].token
    BY <1>0 DEF RankConsumer
  <2>2. consumers' = [consumers EXCEPT ![w] = row]
    BY <1>3 DEF Ranking!Go
  <2> HIDE DEF row
  <2> QED
    BY <1>0, <1>2, <1>3, <2>1, <2>2 DEF Continues
<1>4. ASSUME consumers' = [consumers EXCEPT ![w] = Ranking!Idle],
             UNCHANGED <<requests, taken, snapshots, fetches>>
      PROVE  RankInv'
  <2>1. Ranking!Idle.fetched <= fetches
    BY <1>0, <1>1
  <2>2. Continues(w, Ranking!Idle)
    BY <1>1 DEF Continues
  <2>3. Ranking!Idle.pc \notin {"prepare", "activate"}
    BY <1>1
  <2> HIDE DEF Ranking!Idle
  <2> QED
    BY <1>1, <1>2, <1>4, <2>1, <2>2, <2>3
<1>5. CASE Ranking!Fetch(w)
  <2>1. CASE Ranking!Fault /\ Ranking!Go(w, "fail") /\ UNCHANGED fetches
    BY <1>3, <1>5, <2>1 DEF Ranking!Fetch, Ranking!Pc
  <2>2. CASE /\ fetches' = fetches + 1
             /\ consumers' = [consumers EXCEPT ![w].pc = "prepare", ![w].fetched = fetches']
    <3> DEFINE row == [consumers[w] EXCEPT !.pc = "prepare", !.fetched = fetches + 1]
    <3>1. /\ row \in RankConsumer /\ row.pc = "prepare" /\ row.fetched = fetches + 1
          /\ row.request = consumers[w].request /\ row.token = consumers[w].token
      <4>1. fetches + 1 \in Nat /\ "prepare" \in Ranking!Pc
        BY <1>0 DEF Ranking!Pc
      <4> QED
        BY <1>0, <4>1 DEF RankConsumer
    <3>2. /\ consumers' = [consumers EXCEPT ![w] = row] /\ consumers[w].pc = "fetch"
          /\ UNCHANGED <<requests, taken, snapshots>>
      BY <1>5, <2>2 DEF Ranking!Fetch
    <3> HIDE DEF row
    <3>3. fetches' \in Nat /\ fetches' >= fetches /\ row.fetched <= fetches' /\ row.fetched > fetches
      BY <1>0, <2>2, <3>1
    <3>4. Continues(w, row)
      BY <3>1, <3>2 DEF Continues
    <3> QED
      BY <1>0, <3>1, <3>2, <3>3, <3>4, RankQuiet
  <2> QED
    BY <1>5, <2>1, <2>2 DEF Ranking!Fetch
<1>6. CASE Ranking!Prepare(w)
  BY <1>3, <1>6 DEF Ranking!Prepare, Ranking!Pc
<1>7. CASE Ranking!ActivateFails(w) \/ (Ranking!Activate(w) /\ ~Ranking!Mine(w))
  BY <1>3, <1>7 DEF Ranking!ActivateFails, Ranking!Activate, Ranking!Pc
<1>8. CASE Ranking!Abandon(w) \/ Ranking!Crash(w)
  BY <1>4, <1>8 DEF Ranking!Abandon, Ranking!Crash
<1>9. CASE Ranking!Fail(w)
  <2> DEFINE i == consumers[w].request
             row == [requests[i] EXCEPT !.status = "failed", !.token = 0, !.live = FALSE]
  <2>1. /\ consumers' = [consumers EXCEPT ![w] = Ranking!Idle]
        /\ UNCHANGED <<taken, snapshots, fetches>> /\ consumers[w].pc = "fail"
        /\ \/ UNCHANGED requests
           \/ requests' = [requests EXCEPT ![i] = row] /\ Ranking!Mine(w)
    BY <1>9 DEF Ranking!Fail, Ranking!FailRequest, Ranking!Finish, Ranking!Mine, Ranking!Request
  <2>2. CASE UNCHANGED requests
    BY <1>4, <2>1, <2>2
  <2>3. CASE requests' = [requests EXCEPT ![i] = row] /\ Ranking!Mine(w)
    <3>1. i \in DOMAIN requests /\ requests[i] \in Ranking!RequestRow /\ Ranking!ActiveRequest(i)
      BY <1>0, <2>1, <2>3, RankRows DEF RankInv, TokensDiffer, Ranking!Mine, Ranking!Holds,
         Ranking!Request, Ranking!ActiveRequest
    <3>2. /\ row \in Ranking!RequestRow /\ row.status = "failed" /\ row.token = 0
          /\ row.scope = requests[i].scope /\ row.live = FALSE
      BY <3>1 DEF Ranking!RequestRow, Ranking!RequestStatus
    <3> HIDE DEF row, i
    <3>3. /\ requests' \in Seq(Ranking!RequestRow) /\ DOMAIN requests' = DOMAIN requests
          /\ requests'[i] = row /\ \A j \in DOMAIN requests \ {i} : requests'[j] = requests[j]
      BY <1>0, <2>3, <3>1, <3>2, RequestSet
    <3>4. \A j \in DOMAIN requests :
           /\ requests'[j].scope = requests[j].scope
           /\ requests'[j].status = requests[j].status
                \/ (Ranking!ActiveRequest(j) /\ requests'[j].status = "failed")
           /\ requests'[j].token \in {requests[j].token, 0}
           /\ requests'[j].live => requests[j].live /\ requests'[j].token = requests[j].token
      BY <3>1, <3>2, <3>3
    <3>5. /\ Continues(w, Ranking!Idle) /\ fetches' \in Nat /\ fetches' >= fetches
          /\ Ranking!Idle.fetched <= fetches'
      BY <1>0, <1>1, <2>1 DEF Continues
    <3> QED
      BY <1>1, <2>1, <3>3, <3>4, <3>5, RankQuiet
  <2> QED
    BY <2>1, <2>2, <2>3
<1> QED
  BY <1>5, <1>6, <1>7, <1>8, <1>9

LEMMA RankLapse ==
  ASSUME RankInv, NEW k \in DOMAIN requests, Ranking!ClaimLapses(k)
  PROVE  RankInv'
<1> DEFINE row == [requests[k] EXCEPT !.live = FALSE]
<1>0. RankTypes /\ OneActive /\ TokensDiffer /\ FetchedBefore /\ FetchedLater
      /\ \A b \in Boards : StoredRight(b)
  BY RankingRight DEF RankInv
<1>1. /\ requests' = [requests EXCEPT ![k] = row]
      /\ UNCHANGED <<taken, consumers, snapshots, fetches>>
  BY DEF Ranking!ClaimLapses, Ranking!Lapse
<1>2. requests[k] \in Ranking!RequestRow
  BY <1>0, RankRows
<1>3. /\ row \in Ranking!RequestRow /\ row.status = requests[k].status /\ row.live = FALSE
      /\ row.scope = requests[k].scope /\ row.token = requests[k].token
  BY <1>2 DEF Ranking!RequestRow
<1> HIDE DEF row
<1>4. /\ requests' \in Seq(Ranking!RequestRow) /\ DOMAIN requests' = DOMAIN requests
      /\ requests'[k] = row /\ \A j \in DOMAIN requests \ {k} : requests'[j] = requests[j]
  BY <1>0, <1>1, <1>3, RequestSet
<1>5. \A j \in DOMAIN requests :
        /\ requests'[j].scope = requests[j].scope /\ requests'[j].status = requests[j].status
        /\ requests'[j].token = requests[j].token
        /\ requests'[j].live => requests[j].live
  BY <1>3, <1>4
<1>6. RankTypes' /\ OneActive' /\ TokensDiffer' /\ FetchedBefore'
  BY <1>0, <1>1, <1>4, <1>5 DEF RankTypes, OneActive, TokensDiffer, FetchedBefore,
     Ranking!ActiveRequest
<1>7. FetchedLater'
  <2>1. \A w \in Workers : consumers[w].pc \in {"prepare", "activate"} =>
          consumers[w].request \in DOMAIN requests
    BY <1>0 DEF TokensDiffer
  <2> QED
    BY <1>0, <1>1, <1>5, <2>1 DEF FetchedLater, Ranking!Mine, Ranking!Holds, Ranking!Request,
       Ranking!Scope
<1>8. \A b \in Boards : StoredRight(b)'
  <2>1. \A b \in Boards : CompletedOf(b)' = CompletedOf(b)
    BY <1>4, <1>5 DEF CompletedOf
  <2> QED
    BY <1>0, <1>1, <2>1 DEF StoredRight
<1>9. Ranking!OneSnapshotPerRequest'
  BY <1>8, RankingCardinality DEF Ranking!OneSnapshotPerRequest, StoredRight, CompletedOf
<1> QED
  BY <1>6, <1>7, <1>9 DEF RankInv

LEMMA RankStep == RankInv /\ [Ranking!Next]_(Ranking!rankingVars) => RankInv'
<1> SUFFICES ASSUME RankInv, [Ranking!Next]_(Ranking!rankingVars) PROVE RankInv'
  OBVIOUS
<1>1. CASE Ranking!Next
  <2>1. CASE \E s \in Boards : Ranking!EnqueueDueTarget(s)
    BY <2>1, RankEnqueue
  <2>2. CASE \E w \in Workers : \E i \in DOMAIN requests : Ranking!Claim(w, i)
    BY <2>2, RankClaim
  <2>3. ASSUME NEW w \in Workers,
               \/ Ranking!Fetch(w) \/ Ranking!Prepare(w) \/ Ranking!Fail(w)
               \/ Ranking!ActivateFails(w) \/ Ranking!Abandon(w) \/ Ranking!Crash(w)
        PROVE  RankInv'
    BY <2>3, RankConsume
  <2>4. ASSUME NEW w \in Workers, Ranking!Activate(w) PROVE RankInv'
    <3>1. CASE Ranking!Mine(w)
      BY <2>4, <3>1, RankActivate
    <3>2. CASE ~Ranking!Mine(w)
      BY <2>4, <3>2, RankConsume
    <3> QED
      BY <3>1, <3>2
  <2>5. CASE \E i \in DOMAIN requests : Ranking!ClaimLapses(i)
    BY <2>5, RankLapse
  <2> QED
    BY <1>1, <2>1, <2>2, <2>3, <2>4, <2>5 DEF Ranking!Next, Ranking!Consume
<1>2. CASE UNCHANGED Ranking!rankingVars
  <2>0. RankTypes /\ OneActive /\ TokensDiffer /\ FetchedBefore /\ FetchedLater
        /\ Ranking!OneSnapshotPerRequest
    BY DEF RankInv
  <2>1. UNCHANGED <<requests, taken, consumers, snapshots, fetches>>
    BY <1>2 DEF Ranking!rankingVars
  <2>2. RankTypes' /\ FetchedBefore'
    BY <2>0, <2>1 DEF RankTypes, FetchedBefore
  <2>3. OneActive' /\ TokensDiffer'
    BY <2>0, <2>1 DEF OneActive, TokensDiffer, Ranking!ActiveRequest
  <2>4. FetchedLater'
    BY <2>0, <2>1 DEF FetchedLater, Ranking!Mine, Ranking!Holds, Ranking!Request, Ranking!Scope
  <2>5. Ranking!OneSnapshotPerRequest'
    <3>1. \A b \in Boards : StoredRight(b)'
      <4>1. \A b \in Boards : StoredRight(b)
        BY <2>0, RankingRight
      <4> QED
        BY <2>1, <4>1 DEF StoredRight, CompletedOf
    <3> QED
      BY <3>1, RankingCardinality DEF Ranking!OneSnapshotPerRequest, StoredRight, CompletedOf
  <2> QED
    BY <2>2, <2>3, <2>4, <2>5 DEF RankInv
<1> QED
  BY <1>1, <1>2

\* Each completed request of a board stored exactly one snapshot, and only the
\* last one stored, the youngest, is current (ranking_sync.py activate_snapshot).
THEOREM SnapshotsMatchRequests == Spec => []OneSnapshotPerRequest
<1> DEFINE Inv == part = "ranking" => RankInv
<1>1. Init => Inv
  BY RankInit DEF Init
<1>2. Inv /\ [Next]_vars => Inv'
  <2>1. ASSUME Inv, [Next]_vars, part' = "ranking" PROVE RankInv'
    <3>1. part = "ranking" /\ [Ranking!Next]_(Ranking!rankingVars)
      BY <2>1 DEF Next, OnlyAvdb, OnlyMetadata, vars, queueData, rankingData,
         Ranking!rankingVars
    <3> QED
      BY <2>1, <3>1, RankStep
  <2> QED
    BY <2>1
<1>3. Inv => OneSnapshotPerRequest
  BY DEF RankInv, OneSnapshotPerRequest
<1> QED
  BY <1>1, <1>2, <1>3, PTL DEF Spec

-----------------------------------------------------------------------------
(* The requests of the boards, and the abstract work queue of attempts.    *)

\* A request as an attempt of the abstract queue, and the requests of a board.
Attempted(row) ==
  [phase |-> CASE row.status = "queued"    -> "queued"
               [] row.status = "claimed"   -> "held"
               [] row.status = "completed" -> "done"
               [] row.status = "failed"    -> "failed",
   holder |-> row.token]

OfBoard(b)   == {row \in Ranking!RequestRow : row.scope = b}
BoardRows(b) == Selected(requests, OfBoard(b))
Made(s)      == [n \in DOMAIN s |-> Attempted(s[n])]

LEMMA MadeAre == /\ Ranking!Attempts = [b \in Boards |-> Made(BoardRows(b))]
                 /\ Ranking!Attempts' = [b \in Boards |-> Made(BoardRows(b)')]
<1>1. \A s, T : Ranking!Selected(s, T) = Selected(s, T)
  BY DEF Ranking!Selected, Selected
<1> QED
  BY <1>1 DEF Ranking!Attempts, Made, BoardRows, OfBoard, Attempted

LEMMA AttemptedPhase ==
  ASSUME NEW row
  PROVE  /\ Attempted(row).holder = row.token
         /\ row.status = "queued" => Attempted(row) = [phase |-> "queued", holder |-> row.token]
         /\ row.status = "claimed" => Attempted(row) = [phase |-> "held", holder |-> row.token]
         /\ row.status = "completed" => Attempted(row) = [phase |-> "done", holder |-> row.token]
         /\ row.status = "failed" => Attempted(row) = [phase |-> "failed", holder |-> row.token]
BY DEF Attempted

LEMMA MadeTyped ==
  ASSUME NEW S, NEW s \in Seq(S), NEW T, \A x \in S : Attempted(x) \in T
  PROVE  /\ Made(s) \in Seq(T) /\ Len(Made(s)) = Len(s) /\ DOMAIN Made(s) = 1 .. Len(s)
         /\ \A n \in 1 .. Len(s) : Made(s)[n] = Attempted(s[n])
<1> PICK k, m : k = Len(s) /\ m = Made(s)
  OBVIOUS
<1>1. k \in Nat /\ DOMAIN s = 1 .. k /\ \A n \in 1 .. k : s[n] \in S
  OBVIOUS
<1>2. /\ m = [n \in 1 .. k |-> m[n]]
      /\ \A n \in 1 .. k : m[n] = Attempted(s[n]) /\ m[n] \in T
  BY <1>1 DEF Made
<1>3. m \in [1 .. k -> T]
  BY <1>2
<1>4. m \in Seq(T) /\ Len(m) = k /\ DOMAIN m = 1 .. k
  BY <1>1, <1>3
<1> QED
  BY <1>2, <1>4

LEMMA MadeAppend ==
  ASSUME NEW S, NEW s \in Seq(S), NEW x \in S
  PROVE  Made(Append(s, x)) = Append(Made(s), Attempted(x))
<1> DEFINE T == {Attempted(y) : y \in S}
<1> PICK k, r, a : k = Len(s) /\ r = Append(s, x) /\ a = Attempted(x)
  OBVIOUS
<1> PICK m, l, u : m = Made(s) /\ l = Made(r) /\ u = Append(m, a)
  OBVIOUS
<1>1. k \in Nat /\ r \in Seq(S) /\ Len(r) = k + 1 /\ r[k + 1] = x
      /\ \A n \in 1 .. k : r[n] = s[n]
  OBVIOUS
<1>2. (\A y \in S : Attempted(y) \in T) /\ a \in T
  OBVIOUS
<1> HIDE DEF T
<1>3. m \in Seq(T) /\ Len(m) = k /\ \A n \in 1 .. k : m[n] = Attempted(s[n])
  BY <1>2, MadeTyped
<1>4. l \in Seq(T) /\ Len(l) = k + 1 /\ \A n \in 1 .. k + 1 : l[n] = Attempted(r[n])
  BY <1>1, <1>2, MadeTyped
<1>5. u \in Seq(T) /\ Len(u) = k + 1 /\ u[k + 1] = a /\ \A n \in 1 .. k : u[n] = m[n]
  BY <1>1, <1>2, <1>3
<1>6. \A n \in 1 .. k + 1 : l[n] = u[n]
  <2> TAKE n \in 1 .. k + 1
  <2>1. CASE n = k + 1
    BY <1>1, <1>4, <1>5, <2>1
  <2>2. CASE n # k + 1
    <3>1. n \in 1 .. k
      BY <1>1, <2>2
    <3> QED
      BY <1>1, <1>3, <1>4, <1>5, <3>1
  <2> QED
    BY <2>1, <2>2
<1> QED
  BY <1>4, <1>5, <1>6

LEMMA MadeReplaced ==
  ASSUME NEW S, NEW s \in Seq(S), NEW y \in S, NEW p \in 1 .. Len(s),
         NEW r, r = [s EXCEPT ![p] = y]
  PROVE  Made(r) = [Made(s) EXCEPT ![p] = Attempted(y)]
<1> DEFINE T == {Attempted(x) : x \in S}
<1> PICK k, a : k = Len(s) /\ a = Attempted(y)
  OBVIOUS
<1> PICK m, l, u : m = Made(s) /\ l = Made(r) /\ u = [m EXCEPT ![p] = a]
  OBVIOUS
<1>1. k \in Nat /\ r \in Seq(S) /\ Len(r) = k /\ r[p] = y /\ p \in 1 .. k
      /\ \A n \in 1 .. k : n # p => r[n] = s[n]
  OBVIOUS
<1>2. (\A x \in S : Attempted(x) \in T) /\ a \in T
  OBVIOUS
<1> HIDE DEF T
<1>3. m \in Seq(T) /\ Len(m) = k /\ \A n \in 1 .. k : m[n] = Attempted(s[n])
  BY <1>2, MadeTyped
<1>4. l \in Seq(T) /\ Len(l) = k /\ \A n \in 1 .. k : l[n] = Attempted(r[n])
  BY <1>1, <1>2, MadeTyped
<1>5. u \in Seq(T) /\ Len(u) = k /\ u[p] = a /\ \A n \in 1 .. k : n # p => u[n] = m[n]
  BY <1>1, <1>2, <1>3
<1>6. ASSUME NEW n \in 1 .. k PROVE l[n] = u[n]
  <2>1. CASE n = p
    BY <1>1, <1>4, <1>5, <2>1
  <2>2. CASE n # p
    <3>1. r[n] = s[n]
      BY <1>1, <2>2
    <3>2. l[n] = Attempted(r[n]) /\ m[n] = Attempted(s[n])
      BY <1>3, <1>4
    <3>3. u[n] = m[n]
      BY <1>5, <2>2
    <3> QED
      BY <3>1, <3>2, <3>3
  <2> QED
    BY <2>1, <2>2
<1>7. l = u
  BY <1>4, <1>5, <1>6, SeqEqual
<1> QED
  BY <1>7

LEMMA BoardRowsTyped ==
  ASSUME RankTypes, NEW b
  PROVE  /\ BoardRows(b) \in Seq(Ranking!RequestRow)
         /\ \A n \in 1 .. Len(BoardRows(b)) : BoardRows(b)[n] \in OfBoard(b)
<1> PICK S, T, s : S = Ranking!RequestRow /\ T = OfBoard(b) /\ s = requests
  OBVIOUS
<1>1. s \in Seq(S) /\ T \subseteq S
  BY DEF RankTypes, OfBoard
<1> PICK r : r = Selected(s, T)
  OBVIOUS
<1>2. r \in Seq(S \cap T)
  BY <1>1, SelectedTyped
<1>3. S \cap T = T
  BY <1>1
<1>4. r \in Seq(T)
  BY <1>2, <1>3
<1>5. r \in Seq(S)
  BY <1>1, <1>4
<1>6. \A n \in 1 .. Len(r) : r[n] \in T
  BY <1>4
<1>7. r = BoardRows(b)
  BY DEF BoardRows
<1> QED
  BY <1>5, <1>6, <1>7

\* A request of another board, or a new one, changes the other boards' attempts
\* in nothing.
LEMMA RowAppended ==
  ASSUME RankTypes, NEW row \in Ranking!RequestRow, requests' = Append(requests, row)
  PROVE  \A b \in Boards : BoardRows(b)' = IF row.scope = b THEN Append(BoardRows(b), row)
                                           ELSE BoardRows(b)
<1> TAKE b \in Boards
<1> PICK S, T, s : S = Ranking!RequestRow /\ T = OfBoard(b) /\ s = requests
  OBVIOUS
<1>1. s \in Seq(S) /\ row \in S
  BY DEF RankTypes
<1>2. Selected(Append(s, row), T) =
        IF row \in T THEN Append(Selected(s, T), row) ELSE Selected(s, T)
  BY <1>1, SelectedAppend
<1>3. row \in T <=> row.scope = b
  BY DEF OfBoard
<1>4. BoardRows(b)' = Selected(Append(s, row), T) /\ BoardRows(b) = Selected(s, T)
  BY DEF BoardRows, OfBoard
<1> QED
  BY <1>2, <1>3, <1>4

LEMMA RowReplaced ==
  ASSUME RankTypes, NEW i \in DOMAIN requests, NEW row \in Ranking!RequestRow,
         row.scope = requests[i].scope, requests' = WithValue(requests, i, row)
  PROVE  /\ \A b \in Boards : b # row.scope => BoardRows(b)' = BoardRows(b)
         /\ \E p \in 1 .. Len(BoardRows(row.scope)) :
              /\ BoardRows(row.scope)[p] = requests[i]
              /\ BoardRows(row.scope)' = [BoardRows(row.scope) EXCEPT ![p] = row]
<1>0. /\ requests \in Seq(Ranking!RequestRow) /\ i \in 1 .. Len(requests)
      /\ requests[i] \in Ranking!RequestRow
  BY RankRows DEF RankTypes
<1>1. ASSUME NEW b \in Boards, b # row.scope PROVE BoardRows(b)' = BoardRows(b)
  <2> PICK S, T, s, r : /\ S = Ranking!RequestRow /\ T = OfBoard(b) /\ s = requests
                        /\ r = WithValue(s, i, row)
    OBVIOUS
  <2>1. s[i] \notin T /\ row \notin T
    BY <1>1 DEF OfBoard
  <2>2. s \in Seq(S) /\ i \in 1 .. Len(s) /\ row \in S
    BY <1>0
  <2>3. Selected(r, T) = Selected(s, T)
    BY <2>1, <2>2, SelectedIgnores
  <2> QED
    BY <2>3 DEF BoardRows, OfBoard
<1> PICK b : b = row.scope
  OBVIOUS
<1>2. \E p \in 1 .. Len(BoardRows(b)) :
        BoardRows(b)[p] = requests[i] /\ BoardRows(b)' = [BoardRows(b) EXCEPT ![p] = row]
  <2> PICK S, T, s, r : /\ S = Ranking!RequestRow /\ T = OfBoard(b) /\ s = requests
                        /\ r = WithValue(s, i, row)
    OBVIOUS
  <2>1. s[i] \in T /\ row \in T
    BY <1>0 DEF OfBoard
  <2>2. s \in Seq(S) /\ i \in 1 .. Len(s) /\ row \in S
    BY <1>0
  <2>3. \E p \in 1 .. Len(Selected(s, T)) :
           /\ Selected(s, T)[p] = s[i]
           /\ Selected(r, T) = WithValue(Selected(s, T), p, row)
    BY <2>1, <2>2, SelectedReplaced
  <2>4. BoardRows(b)' = Selected(r, T) /\ BoardRows(b) = Selected(s, T)
    BY DEF BoardRows, OfBoard
  <2> QED
    BY <2>3, <2>4 DEF WithValue
<1> QED
  BY <1>1, <1>2

\* Only the youngest request of a board may be active.
EarlierEnded ==
  \A b \in Boards : \A n \in 1 .. Len(BoardRows(b)) :
    BoardRows(b)[n].status \in {"queued", "claimed"} => n = Len(BoardRows(b))

\* What the steps do to the queue.
Asks ==
  \E row \in Ranking!RequestRow :
    /\ row.status = "queued" /\ row.token = 0 /\ Ranking!Free(row.scope)
    /\ requests' = Append(requests, row) /\ taken' = taken

Claims ==
  \E i \in DOMAIN requests : \E row \in Ranking!RequestRow :
    /\ requests[i].status \in {"queued", "claimed"}
    /\ row.scope = requests[i].scope /\ row.status = "claimed" /\ row.token = taken + 1
    /\ requests' = WithValue(requests, i, row) /\ taken' = taken + 1

Ends ==
  \E i \in DOMAIN requests : \E row \in Ranking!RequestRow :
    /\ requests[i].status = "claimed"
    /\ row.scope = requests[i].scope /\ row.status \in {"completed", "failed"} /\ row.token = 0
    /\ requests' = WithValue(requests, i, row) /\ taken' = taken

Lapses ==
  \E i \in DOMAIN requests : \E row \in Ranking!RequestRow :
    /\ row.scope = requests[i].scope /\ row.status = requests[i].status
    /\ row.token = requests[i].token
    /\ requests' = WithValue(requests, i, row) /\ taken' = taken

LEMMA RankEffects ==
  ASSUME RankInv, [Ranking!Next]_(Ranking!rankingVars)
  PROVE  Asks \/ Claims \/ Ends \/ Lapses \/ UNCHANGED <<requests, taken>>
<1>0. /\ RankTypes /\ requests \in Seq(Ranking!RequestRow) /\ taken \in Nat
      /\ \A i \in DOMAIN requests : requests[i] \in Ranking!RequestRow
  BY RankRows DEF RankInv, RankTypes
<1>1. ASSUME NEW s \in Boards, Ranking!EnqueueDueTarget(s) PROVE Asks
  <2> PICK row : row = [scope |-> s, status |-> "queued", token |-> 0, live |-> FALSE]
    OBVIOUS
  <2>1. row \in Ranking!RequestRow /\ row.status = "queued" /\ row.token = 0 /\ row.scope = s
    BY DEF Ranking!RequestRow, Ranking!RequestStatus
  <2>2. requests' = Append(requests, row) /\ taken' = taken /\ Ranking!Free(s)
    BY <1>1 DEF Ranking!EnqueueDueTarget, Ranking!Enqueue
  <2> QED
    BY <2>1, <2>2 DEF Asks
<1>2. ASSUME NEW w \in Workers, NEW i \in DOMAIN requests, Ranking!Claim(w, i) PROVE Claims
  <2> PICK row : row = [requests[i] EXCEPT !.status = "claimed", !.token = taken + 1, !.live = TRUE]
    OBVIOUS
  <2>1. /\ row \in Ranking!RequestRow /\ row.status = "claimed" /\ row.token = taken + 1
        /\ row.scope = requests[i].scope
    <3>1. taken + 1 \in Nat /\ requests[i] \in Ranking!RequestRow
      BY <1>0
    <3> QED
      BY <3>1 DEF Ranking!RequestRow, Ranking!RequestStatus
  <2>2. /\ requests' = WithValue(requests, i, row) /\ taken' = taken + 1
        /\ requests[i].status \in {"queued", "claimed"}
    BY <1>2 DEF Ranking!Claim, Ranking!ClaimNext, Ranking!Claimable, WithValue
  <2> QED
    BY <2>1, <2>2 DEF Claims
<1>3. ASSUME NEW w \in Workers, Ranking!Mine(w), consumers[w].pc # "idle",
             NEW status \in {"completed", "failed"},
             Ranking!Finish(Ranking!Request(w), status), taken' = taken
      PROVE  Ends
  <2> PICK i : i = Ranking!Request(w)
    OBVIOUS
  <2>1. i \in DOMAIN requests /\ requests[i].status = "claimed"
    BY <1>3 DEF RankInv, TokensDiffer, Ranking!Mine, Ranking!Holds, Ranking!Request
  <2> PICK row : row = [requests[i] EXCEPT !.status = status, !.token = 0, !.live = FALSE]
    OBVIOUS
  <2>2. /\ row \in Ranking!RequestRow /\ row.status = status /\ row.token = 0
        /\ row.scope = requests[i].scope
    BY <1>0, <2>1 DEF Ranking!RequestRow, Ranking!RequestStatus
  <2>3. requests' = WithValue(requests, i, row)
    BY <1>3 DEF Ranking!Finish, WithValue
  <2> QED
    BY <1>3, <2>1, <2>2, <2>3 DEF Ends
<1>4. ASSUME NEW w \in Workers, Ranking!Fail(w)
      PROVE  Ends \/ UNCHANGED <<requests, taken>>
  BY <1>3, <1>4 DEF Ranking!Fail, Ranking!FailRequest, Ranking!Mine
<1>5. ASSUME NEW w \in Workers, Ranking!Activate(w)
      PROVE  Ends \/ UNCHANGED <<requests, taken>>
  BY <1>3, <1>5 DEF Ranking!Activate
<1>6. ASSUME NEW i \in DOMAIN requests, Ranking!ClaimLapses(i) PROVE Lapses
  <2> PICK row : row = [requests[i] EXCEPT !.live = FALSE]
    OBVIOUS
  <2>1. /\ row \in Ranking!RequestRow /\ row.status = requests[i].status
        /\ row.token = requests[i].token /\ row.scope = requests[i].scope
    BY <1>0 DEF Ranking!RequestRow
  <2>2. requests' = WithValue(requests, i, row) /\ taken' = taken
    BY <1>6 DEF Ranking!ClaimLapses, Ranking!Lapse, WithValue
  <2> QED
    BY <2>1, <2>2 DEF Lapses
<1>7. ASSUME NEW w \in Workers,
             \/ Ranking!Fetch(w) \/ Ranking!Prepare(w) \/ Ranking!ActivateFails(w)
             \/ Ranking!Abandon(w) \/ Ranking!Crash(w)
      PROVE  UNCHANGED <<requests, taken>>
  BY <1>7 DEF Ranking!Fetch, Ranking!Prepare, Ranking!ActivateFails, Ranking!Abandon, Ranking!Crash
<1>8. CASE UNCHANGED Ranking!rankingVars
  BY <1>8 DEF Ranking!rankingVars
<1> QED
  BY <1>1, <1>2, <1>4, <1>5, <1>6, <1>7, <1>8 DEF Ranking!Next, Ranking!Consume

LEMMA FreeEnded ==
  ASSUME RankTypes, NEW b \in Boards, Ranking!Free(b), NEW n \in 1 .. Len(BoardRows(b))
  PROVE  BoardRows(b)[n].status \notin {"queued", "claimed"}
<1> PICK S, T, s : S = Ranking!RequestRow /\ T = OfBoard(b) /\ s = requests
  OBVIOUS
<1>1. s \in Seq(S) /\ n \in 1 .. Len(Selected(s, T)) /\ BoardRows(b) = Selected(s, T)
  BY DEF RankTypes, BoardRows
<1>2. Selected(s, T)[n] \in T /\ \E j \in 1 .. Len(s) : s[j] = Selected(s, T)[n]
  BY <1>1, SelectedMember
<1>3. PICK j \in 1 .. Len(s) : s[j] = BoardRows(b)[n] /\ s[j] \in T
  BY <1>1, <1>2
<1>4. j \in DOMAIN requests /\ requests[j].scope = b
  BY <1>1, <1>3 DEF OfBoard
<1> QED
  BY <1>3, <1>4 DEF Ranking!Free, Ranking!ActiveRequest

LEMMA EarlierAppended ==
  ASSUME RankTypes, EarlierEnded, NEW row \in Ranking!RequestRow, Ranking!Free(row.scope),
         requests' = Append(requests, row)
  PROVE  EarlierEnded'
<1> SUFFICES ASSUME NEW b \in Boards, NEW n \in 1 .. Len(BoardRows(b)'),
                    BoardRows(b)'[n].status \in {"queued", "claimed"}
             PROVE  n = Len(BoardRows(b)')
  BY DEF EarlierEnded
<1>1. BoardRows(b)' = IF row.scope = b THEN Append(BoardRows(b), row) ELSE BoardRows(b)
  BY RowAppended
<1>2. CASE row.scope # b
  BY <1>1, <1>2 DEF EarlierEnded
<1>3. CASE row.scope = b
  <2> PICK s, t, k : s = BoardRows(b) /\ t = BoardRows(b)' /\ k = Len(s)
    OBVIOUS
  <2>1. s \in Seq(Ranking!RequestRow) /\ k \in Nat /\ t = Append(s, row)
    BY <1>1, <1>3, BoardRowsTyped
  <2>2. Len(t) = k + 1 /\ \A j \in 1 .. k : t[j] = s[j]
    BY <2>1
  <2>3. n \in 1 .. k + 1 /\ (n # k + 1 => n \in 1 .. k)
    BY <2>1, <2>2
  <2>4. \A j \in 1 .. k : s[j].status \notin {"queued", "claimed"}
    BY <1>3, FreeEnded
  <2> QED
    BY <2>2, <2>3, <2>4
<1> QED
  BY <1>2, <1>3

LEMMA EarlierReplaced ==
  ASSUME RankTypes, EarlierEnded, NEW i \in DOMAIN requests, NEW row \in Ranking!RequestRow,
         row.scope = requests[i].scope, requests' = WithValue(requests, i, row),
         row.status \in {"queued", "claimed"} => requests[i].status \in {"queued", "claimed"}
  PROVE  EarlierEnded'
<1> SUFFICES ASSUME NEW b \in Boards, NEW n \in 1 .. Len(BoardRows(b)'),
                    BoardRows(b)'[n].status \in {"queued", "claimed"}
             PROVE  n = Len(BoardRows(b)')
  BY DEF EarlierEnded
<1>1. CASE b # row.scope
  <2>1. BoardRows(b)' = BoardRows(b)
    BY <1>1, RowReplaced
  <2> QED
    BY <2>1 DEF EarlierEnded
<1>2. CASE b = row.scope
  <2>1. PICK p \in 1 .. Len(BoardRows(b)) :
          BoardRows(b)[p] = requests[i] /\ BoardRows(b)' = [BoardRows(b) EXCEPT ![p] = row]
    BY <1>2, RowReplaced
  <2> PICK s, t : s = BoardRows(b) /\ t = BoardRows(b)'
    OBVIOUS
  <2>2. s \in Seq(Ranking!RequestRow) /\ t = [s EXCEPT ![p] = row] /\ p \in 1 .. Len(s)
    BY <2>1, BoardRowsTyped
  <2>3. Len(t) = Len(s) /\ t[p] = row /\ \A j \in 1 .. Len(s) : j # p => t[j] = s[j]
    BY <2>2
  <2>4. \A j \in 1 .. Len(s) : s[j].status \in {"queued", "claimed"} => j = Len(s)
    BY DEF EarlierEnded
  <2> QED
    BY <2>1, <2>2, <2>3, <2>4
<1> QED
  BY <1>1, <1>2

LEMMA EarlierStep ==
  ASSUME RankInv, EarlierEnded, [Ranking!Next]_(Ranking!rankingVars)
  PROVE  EarlierEnded'
<1>0. RankTypes
  BY DEF RankInv
<1>1. CASE Asks
  BY <1>0, <1>1, EarlierAppended DEF Asks
<1>2. CASE Claims
  <2>1. PICK i \in DOMAIN requests, row \in Ranking!RequestRow :
          /\ requests[i].status \in {"queued", "claimed"}
          /\ row.scope = requests[i].scope /\ requests' = WithValue(requests, i, row)
    BY <1>2 DEF Claims
  <2> QED
    BY <1>0, <2>1, EarlierReplaced
<1>3. CASE Ends
  <2>1. PICK i \in DOMAIN requests, row \in Ranking!RequestRow :
          /\ row.status \in {"completed", "failed"}
          /\ row.scope = requests[i].scope /\ requests' = WithValue(requests, i, row)
    BY <1>3 DEF Ends
  <2>2. row.status \notin {"queued", "claimed"}
    BY <2>1
  <2> QED
    BY <1>0, <2>1, <2>2, EarlierReplaced
<1>4. CASE Lapses
  <2>1. PICK i \in DOMAIN requests, row \in Ranking!RequestRow :
          /\ row.status = requests[i].status
          /\ row.scope = requests[i].scope /\ requests' = WithValue(requests, i, row)
    BY <1>4 DEF Lapses
  <2> QED
    BY <1>0, <2>1, EarlierReplaced
<1>5. CASE UNCHANGED <<requests, taken>>
  BY <1>5 DEF EarlierEnded, BoardRows
<1> QED
  BY <1>1, <1>2, <1>3, <1>4, <1>5, RankEffects

LEMMA EarlierInit == ASSUME requests = <<>> PROVE EarlierEnded
<1>1. \A b : BoardRows(b) = <<>>
  BY SelectedEmpty DEF BoardRows
<1> QED
  BY <1>1 DEF EarlierEnded

Entry(phase, holder)  == [phase |-> phase, holder |-> holder]
PhaseIn(A, b)         == A[b][Len(A[b])].phase
OpenIn(A, b)          == A[b] # <<>> /\ PhaseIn(A, b) \in {"queued", "held"}
Replaced(A, b, entry) == [A EXCEPT ![b][Len(A[b])] = entry]

LEMMA AbstractSubmit ==
  ASSUME part = "ranking", part' = "ranking", NEW A, NEW B, A = Ranking!Attempts,
         B = Ranking!Attempts', NEW b \in Boards, taken' = taken,
         ~OpenIn(A, b), B = [A EXCEPT ![b] = Append(@, Entry("queued", 0))]
  PROVE  Abstract!Next
<1>1. Abstract!Submit(b)
  BY DEF Abstract!Submit, Abstract!Open, Abstract!Last, OpenIn, PhaseIn, Entry
<1> QED
  BY <1>1 DEF Abstract!Next

LEMMA AbstractTake ==
  ASSUME part = "ranking", part' = "ranking", NEW A, NEW B, A = Ranking!Attempts,
         B = Ranking!Attempts', NEW b \in Boards, taken' = taken + 1,
         OpenIn(A, b), B = Replaced(A, b, Entry("held", taken + 1))
  PROVE  Abstract!Next
<1>1. Abstract!Take(b)
  BY DEF Abstract!Take, Abstract!Open, Abstract!Last, Abstract!SetLast, OpenIn, PhaseIn,
     Replaced, Entry
<1> QED
  BY <1>1 DEF Abstract!Next

LEMMA AbstractEnd ==
  ASSUME part = "ranking", part' = "ranking", NEW A, NEW B, A = Ranking!Attempts,
         B = Ranking!Attempts', NEW b \in Boards, NEW outcome \in {"done", "failed"},
         taken' = taken, OpenIn(A, b), PhaseIn(A, b) = "held",
         B = Replaced(A, b, Entry(outcome, 0))
  PROVE  Abstract!Next
<1>1. Abstract!End(b, outcome)
  BY DEF Abstract!End, Abstract!Open, Abstract!Last, Abstract!SetLast, OpenIn, PhaseIn,
     Replaced, Entry
<1> QED
  BY <1>1 DEF Abstract!Next, Abstract!Outcomes

\* An attempt of a board, as the requests of the board show it.
LEMMA AttemptsRead ==
  ASSUME RankTypes, NEW b \in Boards, NEW A, A = Ranking!Attempts
  PROVE  /\ A[b] = Made(BoardRows(b)) /\ Len(A[b]) = Len(BoardRows(b)) /\ Len(A[b]) \in Nat
         /\ A[b] # <<>> => Len(A[b]) \in 1 .. Len(A[b])
         /\ \A n \in 1 .. Len(A[b]) : A[b][n] = Attempted(BoardRows(b)[n]) /\ A[b] # <<>>
<1> DEFINE S == Ranking!RequestRow
           T == {Attempted(x) : x \in S}
<1> PICK s, a : s = BoardRows(b) /\ a = A[b]
  OBVIOUS
<1>1. s \in Seq(S) /\ a = Made(s)
  BY BoardRowsTyped, MadeAre
<1>2. \A x \in S : Attempted(x) \in T
  OBVIOUS
<1> HIDE DEF S, T
<1>3. a \in Seq(T) /\ Len(a) = Len(s) /\ \A n \in 1 .. Len(s) : a[n] = Attempted(s[n])
  BY <1>1, <1>2, MadeTyped
<1>4. /\ Len(a) \in Nat /\ (a # <<>> => Len(a) \in 1 .. Len(a))
      /\ \A n \in 1 .. Len(a) : a # <<>>
  BY <1>3
<1> QED
  BY <1>1, <1>3, <1>4

LEMMA ActiveAttempt ==
  ASSUME RankTypes, EarlierEnded, NEW b \in Boards, NEW A, A = Ranking!Attempts,
         NEW p \in 1 .. Len(BoardRows(b)), BoardRows(b)[p].status \in {"queued", "claimed"}
  PROVE  /\ OpenIn(A, b) /\ Len(A[b]) = p
         /\ BoardRows(b)[p].status = "claimed" => PhaseIn(A, b) = "held"
<1> PICK row : row = BoardRows(b)[p]
  OBVIOUS
<1>1. p = Len(BoardRows(b))
  BY DEF EarlierEnded
<1>2. Len(A[b]) = p /\ A[b] # <<>> /\ A[b][p] = Attempted(row)
  BY <1>1, AttemptsRead
<1>3. /\ Attempted(row).phase \in {"queued", "held"}
      /\ row.status = "claimed" => Attempted(row).phase = "held"
  BY AttemptedPhase
<1> QED
  BY <1>2, <1>3 DEF OpenIn, PhaseIn

SetAttempt(A, b, p, entry) == [A EXCEPT ![b][p] = entry]

LEMMA AttemptsReplaced ==
  ASSUME RankTypes, EarlierEnded, NEW i \in DOMAIN requests, NEW row \in Ranking!RequestRow,
         row.scope = requests[i].scope, requests' = WithValue(requests, i, row),
         NEW A, NEW B, A = Ranking!Attempts, B = Ranking!Attempts', NEW b, b = row.scope
  PROVE  \E p \in 1 .. Len(BoardRows(b)) :
           BoardRows(b)[p] = requests[i] /\ B = SetAttempt(A, b, p, Attempted(row))
<1>1. b \in Boards
  BY DEF Ranking!RequestRow
<1>2. PICK p \in 1 .. Len(BoardRows(b)) :
        BoardRows(b)[p] = requests[i] /\ BoardRows(b)' = [BoardRows(b) EXCEPT ![p] = row]
  BY RowReplaced
<1>3. \A c \in Boards : c # b => BoardRows(c)' = BoardRows(c)
  BY RowReplaced
<1>4. /\ A = [c \in Boards |-> Made(BoardRows(c))]
      /\ B = [c \in Boards |-> Made(BoardRows(c)')]
  BY MadeAre
<1>5. Made(BoardRows(b)') = [Made(BoardRows(b)) EXCEPT ![p] = Attempted(row)]
  <2> PICK s, r, S : /\ s = BoardRows(b) /\ r = [s EXCEPT ![p] = row]
                     /\ S = Ranking!RequestRow
    OBVIOUS
  <2>1. s \in Seq(S) /\ row \in S /\ p \in 1 .. Len(s)
    BY BoardRowsTyped
  <2>2. Made(r) = [Made(s) EXCEPT ![p] = Attempted(row)]
    BY <2>1, MadeReplaced
  <2> QED
    BY <1>2, <2>2
<1>6. \A c \in Boards : B[c] = [A EXCEPT ![b][p] = Attempted(row)][c]
  BY <1>1, <1>3, <1>4, <1>5
<1>7. B = [A EXCEPT ![b][p] = Attempted(row)]
  BY <1>4, <1>6
<1> QED
  BY <1>2, <1>7 DEF SetAttempt

LEMMA RankingImplements ==
  ASSUME RankInv, EarlierEnded, [Ranking!Next]_(Ranking!rankingVars),
         part = "ranking", part' = "ranking"
  PROVE  [Abstract!Next]_(Abstract!vars)
<1> PICK A, B : A = Ranking!Attempts /\ B = Ranking!Attempts'
  OBVIOUS
<1>0. RankTypes
  BY DEF RankInv
<1>1. CASE Asks
  <2>1. PICK row \in Ranking!RequestRow :
          /\ row.status = "queued" /\ row.token = 0 /\ Ranking!Free(row.scope)
          /\ requests' = Append(requests, row) /\ taken' = taken
    BY <1>1 DEF Asks
  <2> PICK b : b = row.scope
    OBVIOUS
  <2>2. b \in Boards
    BY DEF Ranking!RequestRow
  <2>3. ~OpenIn(A, b)
    <3> SUFFICES ASSUME A[b] # <<>> PROVE PhaseIn(A, b) \notin {"queued", "held"}
      BY DEF OpenIn
    <3> PICK n, old : n = Len(A[b]) /\ old = BoardRows(b)[n]
      OBVIOUS
    <3>1. n \in 1 .. Len(BoardRows(b)) /\ A[b][n] = Attempted(old)
      BY <1>0, <2>2, AttemptsRead
    <3>2. old.status \notin {"queued", "claimed"} /\ old \in Ranking!RequestRow
      BY <1>0, <2>1, <2>2, <3>1, FreeEnded, BoardRowsTyped DEF OfBoard
    <3>3. old.status \in {"completed", "failed"}
      BY <3>2 DEF Ranking!RequestRow, Ranking!RequestStatus
    <3>4. Attempted(old).phase \notin {"queued", "held"}
      BY <3>3, AttemptedPhase
    <3> QED
      BY <3>1, <3>4 DEF PhaseIn
  <2>4. B = [A EXCEPT ![b] = Append(@, Entry("queued", 0))]
    <3>1. /\ A = [c \in Boards |-> Made(BoardRows(c))]
          /\ B = [c \in Boards |-> Made(BoardRows(c)')]
      BY MadeAre
    <3>2. \A c \in Boards : BoardRows(c)' = IF row.scope = c THEN Append(BoardRows(c), row)
                                             ELSE BoardRows(c)
      BY <1>0, <2>1, RowAppended
    <3>3. Attempted(row) = Entry("queued", 0)
      BY <2>1, AttemptedPhase DEF Entry
    <3>4. Made(Append(BoardRows(b), row)) = Append(Made(BoardRows(b)), Entry("queued", 0))
      <4> PICK s, S : s = BoardRows(b) /\ S = Ranking!RequestRow
        OBVIOUS
      <4>1. s \in Seq(S) /\ row \in S
        BY <1>0, BoardRowsTyped
      <4>2. Made(Append(s, row)) = Append(Made(s), Attempted(row))
        BY <4>1, MadeAppend
      <4> QED
        BY <3>3, <4>2
    <3>5. \A c \in Boards : B[c] = [A EXCEPT ![b] = Append(@, Entry("queued", 0))][c]
      BY <2>2, <3>1, <3>2, <3>4
    <3> QED
      BY <3>1, <3>5
  <2> QED
    BY <2>1, <2>2, <2>3, <2>4, AbstractSubmit
<1>2. CASE Claims
  <2>1. PICK i \in DOMAIN requests, row \in Ranking!RequestRow :
          /\ requests[i].status \in {"queued", "claimed"}
          /\ row.scope = requests[i].scope /\ row.status = "claimed" /\ row.token = taken + 1
          /\ requests' = WithValue(requests, i, row) /\ taken' = taken + 1
    BY <1>2 DEF Claims
  <2> PICK b : b = row.scope
    OBVIOUS
  <2>2. PICK p \in 1 .. Len(BoardRows(b)) :
          BoardRows(b)[p] = requests[i] /\ B = SetAttempt(A, b, p, Attempted(row))
    BY <1>0, <2>1, AttemptsReplaced
  <2>3. b \in Boards
    BY DEF Ranking!RequestRow
  <2>4. OpenIn(A, b) /\ Len(A[b]) = p
    BY <1>0, <2>1, <2>2, <2>3, ActiveAttempt
  <2>5. Attempted(row) = Entry("held", taken + 1)
    BY <2>1, AttemptedPhase DEF Entry
  <2>6. B = Replaced(A, b, Entry("held", taken + 1))
    BY <2>2, <2>4, <2>5 DEF Replaced, SetAttempt
  <2> QED
    BY <2>1, <2>3, <2>4, <2>6, AbstractTake
<1>3. CASE Ends
  <2>1. PICK i \in DOMAIN requests, row \in Ranking!RequestRow :
          /\ requests[i].status = "claimed"
          /\ row.scope = requests[i].scope /\ row.status \in {"completed", "failed"}
          /\ row.token = 0 /\ requests' = WithValue(requests, i, row) /\ taken' = taken
    BY <1>3 DEF Ends
  <2> PICK b : b = row.scope
    OBVIOUS
  <2>2. PICK p \in 1 .. Len(BoardRows(b)) :
          BoardRows(b)[p] = requests[i] /\ B = SetAttempt(A, b, p, Attempted(row))
    BY <1>0, <2>1, AttemptsReplaced
  <2>3. b \in Boards
    BY DEF Ranking!RequestRow
  <2>4. OpenIn(A, b) /\ Len(A[b]) = p /\ PhaseIn(A, b) = "held"
    BY <1>0, <2>1, <2>2, <2>3, ActiveAttempt
  <2>5. PICK outcome \in {"done", "failed"} : Attempted(row) = Entry(outcome, 0)
    BY <2>1, AttemptedPhase DEF Entry
  <2>6. B = Replaced(A, b, Entry(outcome, 0))
    BY <2>2, <2>4, <2>5 DEF Replaced, SetAttempt
  <2> QED
    BY <2>1, <2>3, <2>4, <2>6, AbstractEnd
<1>4. CASE Lapses
  <2>1. PICK i \in DOMAIN requests, row \in Ranking!RequestRow :
          /\ row.scope = requests[i].scope /\ row.status = requests[i].status
          /\ row.token = requests[i].token
          /\ requests' = WithValue(requests, i, row) /\ taken' = taken
    BY <1>4 DEF Lapses
  <2> PICK b : b = row.scope
    OBVIOUS
  <2>2. PICK p \in 1 .. Len(BoardRows(b)) :
          BoardRows(b)[p] = requests[i] /\ B = SetAttempt(A, b, p, Attempted(row))
    BY <1>0, <2>1, AttemptsReplaced
  <2>3. b \in Boards
    BY DEF Ranking!RequestRow
  <2>4. p \in 1 .. Len(A[b]) /\ A[b][p] = Attempted(row)
    <3>1. Attempted(row) = Attempted(requests[i])
      BY <2>1 DEF Attempted
    <3> QED
      BY <1>0, <2>2, <2>3, <3>1, AttemptsRead
  <2>5. B = A
    <3>1. A = [c \in Boards |-> A[c]]
      BY MadeAre
    <3>2. A[b] = [n \in DOMAIN A[b] |-> A[b][n]]
      BY <1>0, <2>3, AttemptsRead DEF Made
    <3>3. [A[b] EXCEPT ![p] = Attempted(row)] = A[b]
      BY <2>4, <3>2
    <3>4. [A EXCEPT ![b] = A[b]] = A
      BY <2>3, <3>1
    <3> QED
      BY <2>2, <3>3, <3>4 DEF SetAttempt
  <2> QED
    BY <2>1, <2>5 DEF Abstract!vars
<1>5. CASE UNCHANGED <<requests, taken>>
  <2>1. B = A
    BY <1>5, MadeAre DEF BoardRows
  <2> QED
    BY <1>5, <2>1 DEF Abstract!vars
<1> QED
  BY <1>1, <1>2, <1>3, <1>4, <1>5, RankEffects

\* The requests of the rankings implement the abstract work queue: a board has
\* one open attempt, every claim is fresh, and an attempt ends once, while it is
\* held (ranking_sync.py, worker/rankings.py).
THEOREM RankingsImplement == Spec => RankingImplementsWorkQueue
<1> DEFINE Inv == part = "ranking" => RankInv /\ EarlierEnded
<1>1. Init => Inv
  BY RankInit, EarlierInit DEF Init, Ranking!Init, Ranking!RequestsInit
<1>2. ASSUME [Next]_vars, part' = "ranking" \/ part = "ranking"
      PROVE  part = "ranking" /\ part' = "ranking" /\ [Ranking!Next]_(Ranking!rankingVars)
  BY <1>2 DEF Next, OnlyAvdb, OnlyMetadata, vars, queueData, rankingData, Ranking!rankingVars
<1>3. Inv /\ [Next]_vars => Inv'
  <2> SUFFICES ASSUME Inv, [Next]_vars, part' = "ranking" PROVE RankInv' /\ EarlierEnded'
    OBVIOUS
  <2>1. part = "ranking" /\ [Ranking!Next]_(Ranking!rankingVars)
    BY <1>2
  <2> QED
    BY <2>1, RankStep, EarlierStep
<1>4. Init => Abstract!Init
  <2> SUFFICES ASSUME Init PROVE Abstract!Init
    OBVIOUS
  <2>1. CASE part = "ranking"
    <3>1. \A b : BoardRows(b) = <<>>
      BY <2>1, SelectedEmpty DEF Init, Ranking!Init, Ranking!RequestsInit, BoardRows
    <3>2. Made(<<>>) = <<>>
      BY DEF Made
    <3>3. Ranking!Attempts = [b \in Boards |-> <<>>] /\ taken = 0
      BY <2>1, <3>1, <3>2, MadeAre DEF Init, Ranking!Init, Ranking!RequestsInit
    <3> QED
      BY <2>1, <3>3 DEF Abstract!Init
  <2>2. CASE part # "ranking"
    BY <2>2 DEF Abstract!Init
  <2> QED
    BY <2>1, <2>2
<1>5. Inv /\ [Next]_vars => [Abstract!Next]_(Abstract!vars)
  <2> SUFFICES ASSUME Inv, [Next]_vars PROVE [Abstract!Next]_(Abstract!vars)
    OBVIOUS
  <2>1. CASE part = "ranking"
    BY <1>2, <2>1, RankingImplements
  <2>2. CASE part # "ranking"
    <3>1. part' # "ranking"
      BY <1>2, <2>2
    <3> QED
      BY <2>2, <3>1 DEF Abstract!vars
  <2> QED
    BY <2>1, <2>2
<1> QED
  BY <1>1, <1>3, <1>4, <1>5, PTL DEF Spec, RankingImplementsWorkQueue, Abstract!Spec

-----------------------------------------------------------------------------
(* The provider snapshots.                                                 *)

ProviderConsumer ==
  [pc : Provider!Pc, request : Nat, token : Nat, todo : Seq(Provider!Names),
   digest : Digests \union {Provider!None}, seen : SUBSET Digests,
   known : BOOLEAN, failed : BOOLEAN]

ProviderTypes ==
  /\ requests \in Seq(Provider!RequestRow) /\ taken \in Nat
  /\ consumers \in [Workers -> ProviderConsumer]
  /\ rows \in [Provider!Names -> [Digests -> {"none", "current", "superseded"}]]
  /\ derived \in [Provider!Names -> Digests \union {Provider!None}]
  /\ files \in [Provider!Names -> SUBSET Digests]

\* What a consumer that works on a request has come to: the provider at the head
\* of its list is next, its file is there before the row is touched, and every
\* provider that left the list without a failure has a current row.
Worked(c) ==
  /\ c.pc \in {"download", "store", "lock", "wait", "activate"} => c.todo # <<>>
  /\ c.pc = "store" => c.digest \in Digests
  /\ c.pc \in {"lock", "wait", "activate"} => c.digest \in files[Head(c.todo)]
  /\ c.pc = "settle" => c.todo = <<>>
  /\ c.pc \notin {"idle", "fail"} /\ ~c.failed =>
       \A p \in Provider!Names :
         (\A n \in DOMAIN c.todo : c.todo[n] # p) => Provider!Current(p) # {}

\* The rows of one provider.
CurrentRight(p) ==
  /\ Provider!Current(p) # {} => Provider!Current(p) = {derived[p]} /\ derived[p] \in files[p]
  /\ derived[p] # Provider!None => Provider!Current(p) # {}

AllAfterCompletion ==
  (\E i \in DOMAIN requests : requests[i].status = "completed") =>
    \A p \in Provider!Names : Provider!Current(p) # {}

ProviderInv ==
  /\ ProviderTypes /\ AllAfterCompletion
  /\ \A w \in Workers : Worked(consumers[w])
  /\ \A p \in Provider!Names : CurrentRight(p)

LEMMA ProviderCardinality == \A S : Provider!Cardinality(S) = Cardinality(S)
  BY DEF Provider!Cardinality, Cardinality, Provider!IsFiniteSet, IsFiniteSet

LEMMA ProviderOrder ==
  /\ Providers \in Seq(Provider!Names) /\ Providers # <<>>
  /\ \A p \in Provider!Names : \E n \in DOMAIN Providers : Providers[n] = p
BY CatalogAssumption DEF Provider!Names, Provider!Range

LEMMA ProviderInit == Provider!Init => ProviderInv
<1> SUFFICES ASSUME Provider!Init PROVE ProviderInv
  OBVIOUS
<1> USE DEF Provider!Init, Provider!RequestsInit
<1>1. /\ Provider!Idle \in ProviderConsumer /\ Provider!Idle.pc = "idle"
  BY DEF Provider!Idle, ProviderConsumer, Provider!Pc
<1>2. ProviderTypes
  BY <1>1 DEF ProviderTypes
<1>3. AllAfterCompletion /\ \A w \in Workers : Worked(consumers[w])
  BY <1>1 DEF AllAfterCompletion, Worked
<1>4. \A p \in Provider!Names : CurrentRight(p)
  BY DEF CurrentRight, Provider!Current
<1> QED
  BY <1>2, <1>3, <1>4 DEF ProviderInv

LEMMA ProviderConsumerSet ==
  ASSUME ProviderTypes, NEW w \in Workers, NEW row \in ProviderConsumer,
         consumers' = [consumers EXCEPT ![w] = row]
  PROVE  /\ consumers' \in [Workers -> ProviderConsumer] /\ consumers'[w] = row
         /\ \A v \in Workers \ {w} : consumers'[v] = consumers[v]
  BY DEF ProviderTypes

\* One row of the queue becomes another.
LEMMA ProviderRequestSet ==
  ASSUME requests \in Seq(Provider!RequestRow), NEW i \in DOMAIN requests,
         NEW row \in Provider!RequestRow, requests' = [requests EXCEPT ![i] = row]
  PROVE  /\ requests' \in Seq(Provider!RequestRow) /\ DOMAIN requests' = DOMAIN requests
         /\ requests'[i] = row /\ \A j \in DOMAIN requests \ {i} : requests'[j] = requests[j]
  OBVIOUS

\* A step that activates nothing: files are added at most, and one consumer
\* goes on.
LEMMA ProviderQuiet ==
  ASSUME ProviderInv, UNCHANGED <<rows, derived>>, taken' \in Nat,
         files' \in [Provider!Names -> SUBSET Digests],
         \A p \in Provider!Names : files[p] \subseteq files'[p],
         requests' \in Seq(Provider!RequestRow),
         (\E i \in DOMAIN requests' : requests'[i].status = "completed") =>
           \/ \E i \in DOMAIN requests : requests[i].status = "completed"
           \/ \A p \in Provider!Names : Provider!Current(p) # {},
         NEW w \in Workers, NEW row \in ProviderConsumer,
         consumers' = [consumers EXCEPT ![w] = row], Worked(row)'
  PROVE  ProviderInv'
<1>0. /\ ProviderTypes /\ AllAfterCompletion /\ \A v \in Workers : Worked(consumers[v])
      /\ \A p \in Provider!Names : CurrentRight(p)
  BY DEF ProviderInv
<1>1. /\ consumers' \in [Workers -> ProviderConsumer] /\ consumers'[w] = row
      /\ \A v \in Workers \ {w} : consumers'[v] = consumers[v]
  BY <1>0, ProviderConsumerSet
<1>2. \A p \in Provider!Names : Provider!Current(p)' = Provider!Current(p)
  BY DEF Provider!Current
<1>3. ProviderTypes'
  BY <1>0, <1>1 DEF ProviderTypes
<1>4. AllAfterCompletion'
  BY <1>0, <1>2 DEF AllAfterCompletion
<1>5. \A p \in Provider!Names : CurrentRight(p)'
  BY <1>0, <1>2 DEF CurrentRight
<1>6. ASSUME NEW v \in Workers PROVE Worked(consumers[v])'
  <2>1. CASE v = w
    BY <1>1, <2>1 DEF Worked
  <2>2. CASE v # w
    <3>1. consumers'[v] = consumers[v] /\ consumers[v] \in ProviderConsumer /\ Worked(consumers[v])
      BY <1>0, <1>1, <2>2 DEF ProviderTypes
    <3>2. consumers[v].todo # <<>> => Head(consumers[v].todo) \in Provider!Names
      BY <3>1 DEF ProviderConsumer
    <3> QED
      BY <1>2, <3>1, <3>2 DEF Worked
  <2> QED
    BY <2>1, <2>2
<1> QED
  BY <1>3, <1>4, <1>5, <1>6 DEF ProviderInv

\* A consumer with the next provider before it, or none.
Advanced(c, failed) ==
  [c EXCEPT !.pc = IF Len(c.todo) = 1 THEN "settle" ELSE "download",
            !.todo = Tail(c.todo), !.failed = failed,
            !.digest = Provider!None, !.seen = {}, !.known = FALSE]

LEMMA AdvancedFields ==
  ASSUME NEW c \in ProviderConsumer, c.todo # <<>>, NEW failed \in BOOLEAN
  PROVE  /\ Advanced(c, failed) \in ProviderConsumer
         /\ Advanced(c, failed).pc \in {"settle", "download"}
         /\ Advanced(c, failed).pc = "settle" <=> Advanced(c, failed).todo = <<>>
         /\ Advanced(c, failed).failed = failed
         /\ \A p : p # Head(c.todo) /\ (\A n \in DOMAIN Advanced(c, failed).todo :
                                          Advanced(c, failed).todo[n] # p)
                     => \A n \in DOMAIN c.todo : c.todo[n] # p
<1> DEFINE s == c.todo
           pc == IF Len(s) = 1 THEN "settle" ELSE "download"
<1>1. s \in Seq(Provider!Names) /\ s # <<>> /\ Len(s) \in Nat /\ c.failed \in BOOLEAN
  BY DEF ProviderConsumer
<1>2. Tail(s) \in Seq(Provider!Names) /\ Len(Tail(s)) = Len(s) - 1
      /\ \A n \in 1 .. Len(s) - 1 : Tail(s)[n] = s[n + 1]
  BY <1>1
<1>3. pc \in Provider!Pc /\ pc \in {"settle", "download"} 
  BY <1>1 DEF Provider!Pc
<1>4. pc = "settle" <=> Tail(s) = <<>>
  <2>1. Tail(s) = <<>> <=> Len(Tail(s)) = 0
    <3> DEFINE tail == Tail(s)
    <3>1. tail \in Seq(Provider!Names)
      BY <1>2
    <3> HIDE DEF tail
    <3>2. tail = <<>> <=> Len(tail) = 0
      BY <3>1
    <3> QED
      BY <3>2 DEF tail
  <2> QED
    BY <1>1, <1>2, <2>1
<1>5. ASSUME NEW p, p # Head(s), \A n \in DOMAIN Tail(s) : Tail(s)[n] # p, NEW n \in DOMAIN s
      PROVE  s[n] # p
  <2>1. CASE n = 1
    BY <1>1, <1>5, <2>1
  <2>2. CASE n # 1
    <3>1. n - 1 \in 1 .. Len(s) - 1 /\ n - 1 \in DOMAIN Tail(s) /\ Tail(s)[n - 1] = s[(n - 1) + 1]
          /\ (n - 1) + 1 = n
      BY <1>1, <1>2, <1>5, <2>2
    <3> QED
      BY <1>5, <3>1
  <2> QED
    BY <2>1, <2>2
<1>6. Advanced(c, failed) = [c EXCEPT !.pc = pc, !.todo = Tail(s), !.failed = failed,
                                      !.digest = Provider!None, !.seen = {}, !.known = FALSE]
  BY DEF Advanced
<1> HIDE DEF pc, s
<1>7. /\ Advanced(c, failed) \in ProviderConsumer /\ Advanced(c, failed).pc = pc
      /\ Advanced(c, failed).todo = Tail(s) /\ Advanced(c, failed).failed = failed
  BY <1>1, <1>2, <1>3, <1>6 DEF ProviderConsumer
<1> QED
  BY <1>3, <1>4, <1>5, <1>7 DEF s

\* What the consumer of a provider step is.
LEMMA ProviderRows ==
  ASSUME ProviderInv, NEW w \in Workers
  PROVE  /\ ProviderTypes /\ consumers[w] \in ProviderConsumer /\ Worked(consumers[w])
         /\ requests \in Seq(Provider!RequestRow) /\ taken \in Nat
         /\ files \in [Provider!Names -> SUBSET Digests]
         /\ consumers[w].todo \in Seq(Provider!Names)
         /\ consumers[w].todo # <<>> => Provider!Provider(w) \in Provider!Names
<1>1. ProviderTypes /\ consumers[w] \in ProviderConsumer /\ Worked(consumers[w])
  BY DEF ProviderInv, ProviderTypes
<1>2. consumers[w].todo \in Seq(Provider!Names)
  BY <1>1 DEF ProviderConsumer
<1> QED
  BY <1>1, <1>2 DEF ProviderTypes, Provider!Provider

\* The next provider after a failure.
LEMMA ProviderFails ==
  ASSUME ProviderInv, NEW w \in Workers, consumers[w].todo # <<>>, Provider!Continue(w, TRUE),
         UNCHANGED <<requests, taken, rows, derived, files>>
  PROVE  ProviderInv'
<1> PICK row : row = Advanced(consumers[w], TRUE)
  OBVIOUS
<1>0. /\ consumers[w] \in ProviderConsumer /\ ProviderTypes
      /\ requests \in Seq(Provider!RequestRow) /\ taken \in Nat
      /\ files \in [Provider!Names -> SUBSET Digests]
  BY ProviderRows
<1>1. consumers' = [consumers EXCEPT ![w] = row]
  BY <1>0 DEF Provider!Continue, Advanced, ProviderTypes
<1>2. /\ row \in ProviderConsumer /\ row.pc \in {"settle", "download"} /\ row.failed
      /\ row.pc = "settle" <=> row.todo = <<>>
  BY <1>0, AdvancedFields
<1>3. Worked(row)'
  BY <1>2 DEF Worked
<1> QED
  BY <1>0, <1>1, <1>2, <1>3, ProviderQuiet

LEMMA ProviderActivate ==
  ASSUME ProviderInv, NEW w \in Workers, Provider!Activate(w)
  PROVE  ProviderInv'
<1> DEFINE p == Provider!Provider(w)
           d == Provider!Digest(w)
           new == Provider!Activated(rows[p], consumers[w].seen, d)
           left == {e \in Digests : new[e] = "current"}
<1>0. /\ ProviderTypes /\ consumers[w] \in ProviderConsumer /\ Worked(consumers[w])
      /\ requests \in Seq(Provider!RequestRow) /\ taken \in Nat
      /\ files \in [Provider!Names -> SUBSET Digests] /\ AllAfterCompletion
      /\ \A v \in Workers : Worked(consumers[v]) /\ consumers[v] \in ProviderConsumer
      /\ \A q \in Provider!Names : CurrentRight(q)
  BY ProviderRows DEF ProviderInv
<1>1. /\ consumers[w].pc = "activate" /\ consumers[w].todo # <<>> /\ p \in Provider!Names
      /\ d \in Digests /\ d \in files[p] /\ UNCHANGED <<requests, taken, faults, files>>
  <2>1. consumers[w].pc = "activate" /\ UNCHANGED <<requests, taken, faults, files>>
    BY DEF Provider!Activate, Provider!At
  <2>2. consumers[w].todo # <<>> /\ d \in files[p]
    BY <1>0, <2>1 DEF Worked, Provider!Provider, Provider!Digest
  <2>3. p \in Provider!Names
    BY <2>2, ProviderRows
  <2> QED
    BY <1>0, <2>1, <2>2, <2>3
<1>2. CASE /\ Provider!Cardinality(left) = 1
           /\ rows' = [rows EXCEPT ![p] = new] /\ derived' = [derived EXCEPT ![p] = d]
           /\ Provider!Continue(w, FALSE)
  <2>1. left = {d}
    <3>1. d \in left
      BY <1>0, <1>1 DEF Provider!Activated
    <3>2. IsFiniteSet(left)
      <4>1. left \subseteq {derived[p], d}
        <5>1. Provider!Current(p) \subseteq {derived[p]}
          BY <1>0, <1>1 DEF CurrentRight
        <5>2. \A e \in left : e = d \/ rows[p][e] = "current"
          BY <1>0, <1>1 DEF Provider!Activated
        <5> QED
          BY <5>1, <5>2 DEF Provider!Current
      <4>2. IsFiniteSet({derived[p], d})
        <5>1. {derived[p], d} = {derived[p]} \union {d}
          OBVIOUS
        <5>2. IsFiniteSet({derived[p]})
          BY FS_Singleton
        <5> QED
          BY <5>1, <5>2, FS_AddElement
      <4> QED
        BY <4>1, <4>2, FS_Subset
    <3>3. Cardinality(left) = 1
      BY <1>2, ProviderCardinality
    <3> HIDE DEF left
    <3>4. \E e : left = {e}
      BY <3>2, <3>3, FS_Singleton
    <3> QED
      BY <3>1, <3>4
  <2>2. new \in [Digests -> {"none", "current", "superseded"}]
    BY <1>0, <1>1 DEF Provider!Activated, ProviderTypes
  <2> HIDE DEF new
  <2>3. /\ rows' \in [Provider!Names -> [Digests -> {"none", "current", "superseded"}]]
        /\ rows'[p] = new /\ \A q \in Provider!Names \ {p} : rows'[q] = rows[q]
        /\ derived' \in [Provider!Names -> Digests \union {Provider!None}]
        /\ derived'[p] = d /\ \A q \in Provider!Names \ {p} : derived'[q] = derived[q]
    BY <1>0, <1>1, <1>2, <2>2 DEF ProviderTypes
  <2>4. /\ \A q \in Provider!Names : q = p => {e \in Digests : rows'[q][e] = "current"} = {d}
        /\ \A q \in Provider!Names \ {p} : {e \in Digests : rows'[q][e] = "current"} = Provider!Current(q)
    BY <2>1, <2>3 DEF Provider!Current
  <2> PICK row : row = Advanced(consumers[w], consumers[w].failed)
    OBVIOUS
  <2>5. consumers' = [consumers EXCEPT ![w] = row]
    <3>1. consumers[w].failed \in BOOLEAN
      BY <1>0 DEF ProviderConsumer
    <3>2. (consumers[w].failed \/ FALSE) = consumers[w].failed
      BY <3>1
    <3> QED
      BY <1>0, <1>2, <3>2 DEF Provider!Continue, Advanced, ProviderTypes
  <2>6. /\ row \in ProviderConsumer /\ row.pc \in {"settle", "download"}
        /\ row.failed = consumers[w].failed
        /\ row.pc = "settle" <=> row.todo = <<>>
        /\ \A q : q # Head(consumers[w].todo) /\ (\A n \in DOMAIN row.todo : row.todo[n] # q)
                     => \A n \in DOMAIN consumers[w].todo : consumers[w].todo[n] # q
    <3>1. consumers[w].failed \in BOOLEAN
      BY <1>0 DEF ProviderConsumer
    <3>2. consumers[w] \in ProviderConsumer /\ consumers[w].todo # <<>>
      BY <1>0, <1>1
    <3>3. row \in ProviderConsumer
      BY <3>1, <3>2, AdvancedFields
    <3>4. row.failed = consumers[w].failed
      BY <3>1, <3>2, AdvancedFields
    <3>5. row.pc \in {"settle", "download"}
      BY <3>1, <3>2, AdvancedFields
    <3>6. row.pc = "settle" <=> row.todo = <<>>
      BY <3>1, <3>2, AdvancedFields
    <3>7. \A q : q # Head(consumers[w].todo) /\ (\A n \in DOMAIN row.todo : row.todo[n] # q)
                     => \A n \in DOMAIN consumers[w].todo : consumers[w].todo[n] # q
      <4> DEFINE c == consumers[w]
                 next == Advanced(c, c.failed)
      <4>1. \A q : q # Head(c.todo) /\ (\A n \in DOMAIN next.todo : next.todo[n] # q)
                     => \A n \in DOMAIN c.todo : c.todo[n] # q
        <5>1. c \in ProviderConsumer /\ c.todo # <<>> /\ c.failed \in BOOLEAN
          BY <3>1, <3>2
        <5> HIDE DEF c
        <5> QED
          BY <5>1, AdvancedFields
      <4>2. row = next
        OBVIOUS
      <4> HIDE DEF c, next
      <4>3. \A q : q # Head(c.todo) /\ (\A n \in DOMAIN row.todo : row.todo[n] # q)
                     => \A n \in DOMAIN c.todo : c.todo[n] # q
        BY <4>1, <4>2
      <4> QED
        BY <4>3 DEF c
    <3> QED
      BY <3>3, <3>4, <3>5, <3>6, <3>7
  <2>7. /\ consumers' \in [Workers -> ProviderConsumer] /\ consumers'[w] = row
        /\ \A v \in Workers \ {w} : consumers'[v] = consumers[v]
    BY <1>0, <2>5, <2>6, ProviderConsumerSet
  <2>8. ProviderTypes'
    BY <1>0, <1>1, <2>3, <2>7 DEF ProviderTypes
  <2>9. \A q \in Provider!Names : Provider!Current(q) # {} => Provider!Current(q)' # {}
    BY <2>4 DEF Provider!Current
  <2>10. AllAfterCompletion'
    BY <1>0, <1>1, <2>9 DEF AllAfterCompletion
  <2>11. ASSUME NEW q \in Provider!Names PROVE CurrentRight(q)'
    <3>1. CASE q = p
      <4>1. Provider!Current(q)' = {d} /\ derived'[q] = d /\ d \in files'[q]
        BY <1>1, <2>3, <2>4, <3>1 DEF Provider!Current
      <4> QED
        BY <4>1 DEF CurrentRight
    <3>2. CASE q # p
      <4>1. Provider!Current(q)' = Provider!Current(q) /\ derived'[q] = derived[q]
        BY <2>3, <2>4, <3>2 DEF Provider!Current
      <4> QED
        BY <1>0, <1>1, <4>1 DEF CurrentRight
    <3> QED
      BY <3>1, <3>2
  <2>12. ASSUME NEW v \in Workers PROVE Worked(consumers[v])'
    <3>1. CASE v = w
      <4>1. ASSUME ~row.failed, NEW q \in Provider!Names, \A n \in DOMAIN row.todo : row.todo[n] # q
            PROVE  Provider!Current(q)' # {}
        <5>1. CASE q = p
          BY <2>4, <5>1 DEF Provider!Current
        <5>2. CASE q # p
          <6>1. \A n \in DOMAIN consumers[w].todo : consumers[w].todo[n] # q
            BY <2>6, <4>1, <5>2 DEF Provider!Provider
          <6>2. Provider!Current(q) # {}
            BY <1>0, <1>1, <2>6, <4>1, <6>1 DEF Worked
          <6> QED
            BY <2>9, <6>2
        <5> QED
          BY <5>1, <5>2
      <4>2. consumers'[v] = row
        BY <2>7, <3>1
      <4> QED
        BY <2>6, <4>1, <4>2 DEF Worked
    <3>2. CASE v # w
      <4>1. consumers'[v] = consumers[v] /\ Worked(consumers[v])
        BY <1>0, <2>7, <3>2
      <4> QED
        BY <1>1, <2>9, <4>1 DEF Worked
    <3> QED
      BY <3>1, <3>2
  <2> QED
    BY <2>8, <2>10, <2>11, <2>12 DEF ProviderInv
<1>3. CASE consumers' = [consumers EXCEPT ![w].pc = "fail", ![w].seen = {}]
           /\ UNCHANGED <<rows, derived>>
  <2> PICK row : row = [consumers[w] EXCEPT !.pc = "fail", !.seen = {}]
    OBVIOUS
  <2>1. /\ row \in ProviderConsumer /\ row.pc = "fail"
    BY <1>0 DEF ProviderConsumer, Provider!Pc
  <2>2. consumers' = [consumers EXCEPT ![w] = row]
    BY <1>0, <1>3 DEF ProviderTypes
  <2>3. Worked(row)'
    BY <2>1 DEF Worked
  <2> QED
    BY <1>0, <1>1, <1>3, <2>1, <2>2, <2>3, ProviderQuiet
<1> HIDE DEF p, d
<1> QED
  BY <1>2, <1>3 DEF Provider!Activate, Provider!Rebuilt, p, d

\* The steps of a consumer at its claim, beside the one that activates.
LEMMA ProviderConsume ==
  ASSUME ProviderInv, NEW w \in Workers,
         \/ Provider!Download(w) \/ Provider!StoreFile(w) \/ Provider!SelectRows(w)
         \/ Provider!LockRows(w) \/ Provider!Settle(w) \/ Provider!Fail(w)
         \/ Provider!ActivateFails(w) \/ Provider!Abandon(w) \/ Provider!Crash(w)
  PROVE  ProviderInv'
<1> DEFINE c == consumers[w]
           p == Provider!Provider(w)
<1>0. /\ ProviderTypes /\ c \in ProviderConsumer /\ Worked(c)
      /\ requests \in Seq(Provider!RequestRow) /\ taken \in Nat
      /\ files \in [Provider!Names -> SUBSET Digests] /\ AllAfterCompletion
  BY ProviderRows DEF ProviderInv
<1>1. c.todo # <<>> => p \in Provider!Names
  BY ProviderRows
<1>2. ASSUME NEW row, row \in ProviderConsumer, consumers' = [consumers EXCEPT ![w] = row],
             Worked(row)', UNCHANGED <<requests, taken, rows, derived>>,
             files' \in [Provider!Names -> SUBSET Digests],
             \A q \in Provider!Names : files[q] \subseteq files'[q]
      PROVE  ProviderInv'
  BY <1>0, <1>2, ProviderQuiet
<1>3. ASSUME NEW row, row \in ProviderConsumer, consumers' = [consumers EXCEPT ![w] = row],
             row.todo = c.todo, row.failed = c.failed, c.pc \notin {"idle", "fail"},
             row.pc \in {"download", "store", "lock", "wait", "activate"}, c.todo # <<>>,
             row.pc = "store" => row.digest \in Digests,
             row.pc \in {"lock", "wait", "activate"} => row.digest \in files'[Head(row.todo)],
             UNCHANGED <<requests, taken, rows, derived>>,
             files' \in [Provider!Names -> SUBSET Digests],
             \A q \in Provider!Names : files[q] \subseteq files'[q]
      PROVE  ProviderInv'
  <2>1. Worked(row)'
    BY <1>0, <1>3 DEF Worked, Provider!Current
  <2> QED
    BY <1>2, <1>3, <2>1
<1>4. ASSUME consumers' = [consumers EXCEPT ![w] = Provider!Idle], taken' = taken,
             UNCHANGED <<rows, derived, files>>,
             requests' \in Seq(Provider!RequestRow),
             (\E i \in DOMAIN requests' : requests'[i].status = "completed") =>
               \/ \E i \in DOMAIN requests : requests[i].status = "completed"
               \/ \A q \in Provider!Names : Provider!Current(q) # {}
      PROVE  ProviderInv'
  <2> PICK row : row = Provider!Idle
    OBVIOUS
  <2>1. row \in ProviderConsumer /\ row.pc = "idle"
    BY DEF Provider!Idle, ProviderConsumer, Provider!Pc
  <2>2. Worked(row)'
    BY <2>1 DEF Worked
  <2> HIDE DEF Provider!Idle
  <2> QED
    BY <1>0, <1>4, <2>1, <2>2, ProviderQuiet
<1>5. CASE Provider!Download(w)
  <2>1. c.pc = "download" /\ c.todo # <<>> /\ UNCHANGED <<requests, taken, rows, derived, files>>
    BY <1>0, <1>5 DEF Provider!Download, Provider!At, Provider!dataVars, Worked
  <2>2. CASE Provider!Continue(w, TRUE)
    BY <2>1, <2>2, ProviderFails
  <2>3. ASSUME NEW d \in Digests, consumers' = [consumers EXCEPT ![w].pc = "store", ![w].digest = d]
        PROVE  ProviderInv'
    <3> PICK row : row = [c EXCEPT !.pc = "store", !.digest = d]
      OBVIOUS
    <3>1. /\ row \in ProviderConsumer /\ row.pc = "store" /\ row.digest = d
          /\ row.todo = c.todo /\ row.failed = c.failed
      BY <1>0 DEF ProviderConsumer, Provider!Pc
    <3>2. consumers' = [consumers EXCEPT ![w] = row]
      BY <1>0, <2>3 DEF ProviderTypes
    <3> HIDE DEF c
    <3> QED
      BY <1>0, <1>3, <2>1, <3>1, <3>2
  <2> QED
    BY <1>5, <2>2, <2>3 DEF Provider!Download
<1>6. CASE Provider!StoreFile(w)
  <2> PICK row : row = [c EXCEPT !.pc = "lock"]
    OBVIOUS
  <2>1. /\ row \in ProviderConsumer /\ row.pc = "lock" /\ row.digest = c.digest
        /\ row.todo = c.todo /\ row.failed = c.failed
    BY <1>0 DEF ProviderConsumer, Provider!Pc
  <2>2. /\ c.pc = "store" /\ c.todo # <<>> /\ p \in Provider!Names /\ c.digest \in Digests
        /\ UNCHANGED <<requests, taken, rows, derived>>
        /\ files' = [files EXCEPT ![p] = @ \union {c.digest}]
    BY <1>0, <1>1, <1>6 DEF Provider!StoreFile, Provider!At, Provider!Digest, Worked
  <2>3. consumers' = [consumers EXCEPT ![w] = row]
    BY <1>0, <1>6 DEF ProviderTypes, Provider!StoreFile
  <2>4. /\ files' \in [Provider!Names -> SUBSET Digests] /\ c.digest \in files'[p]
        /\ \A q \in Provider!Names : files[q] \subseteq files'[q]
    BY <1>0, <2>2
  <2>5. p = Head(c.todo)
    BY DEF Provider!Provider
  <2> HIDE DEF c, p
  <2> QED
    BY <1>3, <2>1, <2>2, <2>3, <2>4, <2>5
<1>7. CASE Provider!SelectRows(w)
  <2> DEFINE seen == Provider!Current(p)
             known == rows[p][Provider!Digest(w)] # "none"
  <2>1. seen \in SUBSET Digests /\ known \in BOOLEAN
    BY DEF Provider!Current
  <2>2. /\ c.pc = "lock" /\ c.todo # <<>> /\ c.digest \in files[Head(c.todo)]
        /\ UNCHANGED <<requests, taken, rows, derived, files>>
        /\ consumers' = [consumers EXCEPT ![w].pc = "wait", ![w].seen = seen, ![w].known = known]
    BY <1>0, <1>7 DEF Provider!SelectRows, Provider!At, Provider!dataVars, Worked
  <2> PICK row : row = [c EXCEPT !.pc = "wait", !.seen = seen, !.known = known]
    OBVIOUS
  <2> HIDE DEF seen, known
  <2>3. /\ row \in ProviderConsumer /\ row.pc = "wait" /\ row.digest = c.digest
        /\ row.todo = c.todo /\ row.failed = c.failed
    BY <1>0, <2>1 DEF ProviderConsumer, Provider!Pc
  <2>4. consumers' = [consumers EXCEPT ![w] = row]
    BY <1>0, <2>2 DEF ProviderTypes
  <2> HIDE DEF c, p
  <2> QED
    BY <1>0, <1>3, <2>2, <2>3, <2>4
<1>8. CASE Provider!LockRows(w)
  <2> DEFINE seen == c.seen \intersect Provider!Current(p)
  <2>1. seen \in SUBSET Digests
    BY DEF Provider!Current
  <2>2. /\ c.pc = "wait" /\ c.todo # <<>> /\ c.digest \in files[Head(c.todo)]
        /\ UNCHANGED <<requests, taken, rows, derived, files>>
    BY <1>0, <1>8 DEF Provider!LockRows, Provider!At, Provider!dataVars, Worked
  <2>3. consumers' = [consumers EXCEPT ![w].pc = "activate", ![w].seen = seen]
    BY <1>0, <1>8 DEF Provider!LockRows, ProviderTypes
  <2> PICK row : row = [c EXCEPT !.pc = "activate", !.seen = seen]
    OBVIOUS
  <2> HIDE DEF seen
  <2>4. /\ row \in ProviderConsumer /\ row.pc = "activate" /\ row.digest = c.digest
        /\ row.todo = c.todo /\ row.failed = c.failed
    BY <1>0, <2>1 DEF ProviderConsumer, Provider!Pc
  <2>5. consumers' = [consumers EXCEPT ![w] = row]
    BY <1>0, <2>3 DEF ProviderTypes
  <2> HIDE DEF c, p
  <2> QED
    BY <1>0, <1>3, <2>2, <2>4, <2>5
<1>9. CASE Provider!ActivateFails(w)
  <2>1. c.todo # <<>>
    BY <1>0, <1>9 DEF Provider!ActivateFails, Provider!At, Worked
  <2> QED
    BY <1>9, <2>1, ProviderFails DEF Provider!ActivateFails, Provider!dataVars
<1>10. CASE Provider!Abandon(w) \/ Provider!Crash(w)
  BY <1>0, <1>4, <1>10 DEF Provider!Abandon, Provider!Crash, Provider!dataVars
<1>11. CASE Provider!Settle(w) \/ Provider!Fail(w)
  <2>1. /\ consumers' = [consumers EXCEPT ![w] = Provider!Idle] /\ taken' = taken
        /\ UNCHANGED <<rows, derived, files>>
        /\ \/ UNCHANGED requests
           \/ Provider!Mine(w) /\ Provider!Finish(c.request, "failed")
           \/ Provider!Mine(w) /\ Provider!Finish(c.request, "completed") /\ c.pc = "settle" /\ ~c.failed
    BY <1>11 DEF Provider!Settle, Provider!Fail, Provider!dataVars, Provider!FailRequest,
       Provider!Mine, Provider!Request, Provider!Outcome, Provider!At
  <2>2. CASE UNCHANGED requests
    BY <1>0, <1>4, <2>1, <2>2
  <2>3. ASSUME NEW status \in {"failed", "completed"}, Provider!Finish(c.request, status),
               status = "completed" => c.pc = "settle" /\ ~c.failed
        PROVE  ProviderInv'
    <3> PICK i : i = c.request
      OBVIOUS
    <3> DEFINE row == [requests[i] EXCEPT !.status = status, !.token = 0, !.live = FALSE]
    <3>1. requests' = [requests EXCEPT ![i] = row]
      BY <2>3 DEF Provider!Finish
    <3>2. i \in DOMAIN requests => requests[i] \in Provider!RequestRow
      BY <1>0
    <3>3. i \in DOMAIN requests => row \in Provider!RequestRow /\ row.status = status
      BY <3>2 DEF Provider!RequestRow, Provider!RequestStatus
    <3> HIDE DEF row
    <3>4. requests' \in Seq(Provider!RequestRow)
      <4>1. CASE i \in DOMAIN requests
        BY <1>0, <3>1, <3>3, <4>1, ProviderRequestSet
      <4>2. CASE i \notin DOMAIN requests
        <5>1. requests' = requests
          BY <1>0, <3>1, <4>2
        <5> QED
          BY <1>0, <5>1
      <4> QED
        BY <4>1, <4>2
    <3>5. ASSUME status = "completed" PROVE \A q \in Provider!Names : Provider!Current(q) # {}
      BY <1>0, <2>3, <3>5 DEF Worked
    <3>6. DOMAIN requests' = DOMAIN requests
          /\ \A j \in DOMAIN requests : requests'[j] = requests[j] \/ (j = i /\ requests'[j] = row)
      BY <3>1
    <3>7. (\E j \in DOMAIN requests' : requests'[j].status = "completed") =>
            \/ \E j \in DOMAIN requests : requests[j].status = "completed"
            \/ \A q \in Provider!Names : Provider!Current(q) # {}
      BY <3>3, <3>5, <3>6
    <3> QED
      BY <1>4, <2>1, <3>4, <3>7
  <2> QED
    BY <2>1, <2>2, <2>3
<1> QED
  BY <1>5, <1>6, <1>7, <1>8, <1>9, <1>10, <1>11

\* A step of the queue alone: nothing is completed by it.
LEMMA ProviderQueue ==
  ASSUME ProviderInv, UNCHANGED <<taken, consumers, rows, derived, files>>,
         requests' \in Seq(Provider!RequestRow),
         \A i \in DOMAIN requests' : requests'[i].status = "completed" =>
           i \in DOMAIN requests /\ requests[i].status = "completed"
  PROVE  ProviderInv'
<1>1. ProviderTypes' /\ AllAfterCompletion'
  BY DEF ProviderInv, ProviderTypes, AllAfterCompletion, Provider!Current
<1>2. \A w \in Workers : Worked(consumers[w])'
  BY DEF ProviderInv, Worked, Provider!Current
<1>3. \A p \in Provider!Names : CurrentRight(p)'
  BY DEF ProviderInv, CurrentRight, Provider!Current
<1> QED
  BY <1>1, <1>2, <1>3 DEF ProviderInv

LEMMA ProviderEnqueue ==
  ASSUME ProviderInv, NEW s \in Weekly, Provider!EnqueueRefresh(s)
  PROVE  ProviderInv'
<1> PICK row : row = [scope |-> s, status |-> "queued", token |-> 0, live |-> FALSE]
  OBVIOUS
<1>1. requests \in Seq(Provider!RequestRow)
  BY DEF ProviderInv, ProviderTypes
<1>2. row \in Provider!RequestRow /\ row.status = "queued"
  BY DEF Provider!RequestRow, Provider!RequestStatus
<1>3. requests' = Append(requests, row) /\ UNCHANGED <<taken, consumers, rows, derived, files>>
  BY DEF Provider!EnqueueRefresh, Provider!Enqueue, Provider!dataVars
<1>4. /\ requests' \in Seq(Provider!RequestRow)
      /\ \A i \in DOMAIN requests' : \/ i \in DOMAIN requests /\ requests'[i] = requests[i]
                                     \/ requests'[i] = row
  BY <1>1, <1>2, <1>3
<1>5. \A i \in DOMAIN requests' : requests'[i].status = "completed" =>
        i \in DOMAIN requests /\ requests[i].status = "completed"
  BY <1>2, <1>4
<1> QED
  BY <1>3, <1>4, <1>5, ProviderQueue

LEMMA ProviderLapse ==
  ASSUME ProviderInv, NEW k \in DOMAIN requests, Provider!ClaimLapses(k)
  PROVE  ProviderInv'
<1> PICK row : row = [requests[k] EXCEPT !.live = FALSE]
  OBVIOUS
<1>1. requests \in Seq(Provider!RequestRow) /\ requests[k] \in Provider!RequestRow
  BY DEF ProviderInv, ProviderTypes
<1>2. row \in Provider!RequestRow /\ row.status = requests[k].status
  BY <1>1 DEF Provider!RequestRow
<1>3. /\ requests' = [requests EXCEPT ![k] = row]
      /\ UNCHANGED <<taken, consumers, rows, derived, files>>
  BY <1>1 DEF Provider!ClaimLapses, Provider!Lapse, Provider!dataVars
<1>4. /\ requests' \in Seq(Provider!RequestRow) /\ DOMAIN requests' = DOMAIN requests
      /\ requests'[k] = row /\ \A j \in DOMAIN requests \ {k} : requests'[j] = requests[j]
  BY <1>1, <1>2, <1>3, ProviderRequestSet
<1> QED
  BY <1>2, <1>3, <1>4, ProviderQueue

LEMMA ProviderClaim ==
  ASSUME ProviderInv, NEW w \in Workers, NEW k \in DOMAIN requests, Provider!Claim(w, k)
  PROVE  ProviderInv'
<1>0. /\ ProviderTypes /\ consumers[w] \in ProviderConsumer
      /\ requests \in Seq(Provider!RequestRow) /\ taken \in Nat
      /\ files \in [Provider!Names -> SUBSET Digests]
  BY ProviderRows
<1> PICK row : row = [requests[k] EXCEPT !.status = "claimed", !.token = taken + 1, !.live = TRUE]
  OBVIOUS
<1> PICK c : c = [consumers[w] EXCEPT !.pc = "download", !.request = k, !.token = taken + 1,
                                      !.todo = Providers]
  OBVIOUS
<1>1. requests[k] \in Provider!RequestRow /\ k \in Nat /\ taken + 1 \in Nat
  BY <1>0
<1>2. row \in Provider!RequestRow /\ row.status = "claimed"
  BY <1>1 DEF Provider!RequestRow, Provider!RequestStatus
<1>3. /\ c \in ProviderConsumer /\ c.pc = "download" /\ c.todo = Providers
  BY <1>0, <1>1, ProviderOrder DEF ProviderConsumer, Provider!Pc
<1>4. /\ requests' = [requests EXCEPT ![k] = row] /\ taken' = taken + 1
      /\ UNCHANGED <<rows, derived, files>>
  BY <1>0 DEF Provider!Claim, Provider!ClaimNext, Provider!dataVars
<1>5. consumers' = [consumers EXCEPT ![w] = c]
  BY <1>0, <1>4 DEF Provider!Claim, ProviderTypes
<1>6. /\ requests' \in Seq(Provider!RequestRow) /\ DOMAIN requests' = DOMAIN requests
      /\ requests'[k] = row /\ \A j \in DOMAIN requests \ {k} : requests'[j] = requests[j]
  BY <1>0, <1>2, <1>4, ProviderRequestSet
<1>7. Worked(c)'
  BY <1>3, ProviderOrder DEF Worked
<1>8. taken' \in Nat /\ files' \in [Provider!Names -> SUBSET Digests]
      /\ \A p \in Provider!Names : files[p] \subseteq files'[p]
  BY <1>0, <1>1, <1>4
<1>9. (\E i \in DOMAIN requests' : requests'[i].status = "completed") =>
        \E i \in DOMAIN requests : requests[i].status = "completed"
  BY <1>2, <1>6
<1> QED
  BY <1>3, <1>4, <1>5, <1>6, <1>7, <1>8, <1>9, ProviderQuiet

LEMMA ProviderStep == ProviderInv /\ [Provider!Next]_(Provider!providerVars) => ProviderInv'
<1> SUFFICES ASSUME ProviderInv, [Provider!Next]_(Provider!providerVars) PROVE ProviderInv'
  OBVIOUS
<1>1. CASE Provider!Next
  <2>1. ASSUME NEW s \in Weekly, Provider!EnqueueRefresh(s) \/ Provider!EnsureInitial(s)
        PROVE  ProviderInv'
    BY <2>1, ProviderEnqueue DEF Provider!EnsureInitial
  <2>2. ASSUME NEW w \in Workers, NEW i \in DOMAIN requests, Provider!Claim(w, i)
        PROVE  ProviderInv'
    BY <2>2, ProviderClaim
  <2>3. ASSUME NEW w \in Workers, Provider!Activate(w) PROVE ProviderInv'
    BY <2>3, ProviderActivate
  <2>4. ASSUME NEW w \in Workers,
               \/ Provider!Download(w) \/ Provider!StoreFile(w) \/ Provider!SelectRows(w)
               \/ Provider!LockRows(w) \/ Provider!Settle(w) \/ Provider!Fail(w)
               \/ Provider!ActivateFails(w) \/ Provider!Abandon(w) \/ Provider!Crash(w)
        PROVE  ProviderInv'
    BY <2>4, ProviderConsume
  <2>5. ASSUME NEW i \in DOMAIN requests, Provider!ClaimLapses(i) PROVE ProviderInv'
    BY <2>5, ProviderLapse
  <2> QED
    BY <1>1, <2>1, <2>2, <2>3, <2>4, <2>5 DEF Provider!Next, Provider!Consume
<1>2. CASE UNCHANGED Provider!providerVars
  <2>1. UNCHANGED <<requests, taken, consumers, rows, derived, files>>
    BY <1>2 DEF Provider!providerVars
  <2> QED
    BY <2>1, ProviderQueue DEF ProviderInv, ProviderTypes
<1> QED
  BY <1>1, <1>2

\* Whatever consumers of the provider snapshots overlap, lose their claims or
\* fail, a provider has at most one current snapshot, its file is stored and
\* what is derived is of that snapshot; once a refresh completed every provider
\* has one (provider_snapshots.py activate, refresh_all).
THEOREM DerivedIsCurrent == Spec => []DerivedFollowsCurrent
<1> DEFINE Inv == part = "provider" => ProviderInv
<1>1. Init => Inv
  BY ProviderInit DEF Init
<1>2. Inv /\ [Next]_vars => Inv'
  <2>1. ASSUME Inv, [Next]_vars, part' = "provider" PROVE ProviderInv'
    <3>1. part = "provider" /\ [Provider!Next]_(Provider!providerVars)
      BY <2>1 DEF Next, OnlyAvdb, OnlyMetadata, vars, queueData, providerData,
         Provider!providerVars
    <3> QED
      BY <2>1, <3>1, ProviderStep
  <2> QED
    BY <2>1
<1>3. Inv => DerivedFollowsCurrent
  <2>1. ASSUME ProviderInv, NEW p \in Provider!Names
        PROVE  /\ Cardinality(Provider!Current(p)) <= 1
               /\ \A d \in Provider!Current(p) : d \in files[p] /\ derived[p] = d
               /\ derived[p] # Provider!None => Provider!Current(p) # {}
    <3>1. Provider!Current(p) = {} \/ Provider!Current(p) = {derived[p]}
      BY <2>1 DEF ProviderInv, CurrentRight
    <3>2. Cardinality(Provider!Current(p)) <= 1
      <4> PICK S : S = Provider!Current(p)
        OBVIOUS
      <4>1. S = {} => Cardinality(S) = 0
        BY FS_EmptySet
      <4>2. S = {derived[p]} => Cardinality(S) = 1
        BY FS_Singleton
      <4> QED
        BY <3>1, <4>1, <4>2
    <3> QED
      BY <2>1, <3>2 DEF ProviderInv, CurrentRight
  <2> QED
    BY <2>1, ProviderCardinality
    DEF DerivedFollowsCurrent, Provider!DerivedFollowsCurrent, ProviderInv, AllAfterCompletion
<1> QED
  BY <1>1, <1>2, <1>3, PTL DEF Spec
-----------------------------------------------------------------------------
(* The synchronization with AVdb.                                          *)

AvdbConsumer ==
  [pc : Avdb!Pc, request : Nat, token : Nat, release : Releases \union {<<>>},
   at : Nat \X Nat, total : Nat]
AvdbRun ==
  [status : Avdb!RunStatus, owner : Nat, live : BOOLEAN, cursor : Nat \X Nat,
   total : Nat, done : SUBSET Nat]

AvdbTypes ==
  /\ requests \in Seq(Avdb!RequestRow) /\ taken \in Nat
  /\ consumers \in [Workers -> AvdbConsumer]
  /\ runs \in [Releases -> AvdbRun]
  /\ imported \in [Releases -> SUBSET (Nat \X Nat)]

Working(c) == c.pc \notin {"idle", "claim"}
OnRun(c)   == c.pc \in {"start", "asset", "batch", "advance", "failrun", "owned", "complete"}

\* A token is made once, and one consumer works under it; a run that is owned
\* is owned under a token that was made.
AvdbTokens ==
  /\ \A w \in Workers : Working(consumers[w]) =>
       consumers[w].request \in DOMAIN requests /\ consumers[w].token <= taken
  /\ \A v, w \in Workers :
       Working(consumers[v]) /\ Working(consumers[w])
         /\ consumers[v].token = consumers[w].token => v = w

\* The assets that are done are the first ones, and the cursor is in the next
\* asset or at the end of those done.
Reached(r, run, k) ==
  /\ run.done = 1 .. k
  /\ \/ run.cursor[1] = k + 1
     \/ run.cursor[1] <= k /\ Avdb!RowsUpTo(r, run.cursor) = Avdb!RowsUpTo(r, <<k + 1, 0>>)

\* What a run has counted and imported.
RunRight(r, run, rowsIn) ==
  /\ run.cursor \in Avdb!RowsOf(r) \union {Avdb!Start}
  /\ IsFiniteSet(Avdb!RowsUpTo(r, run.cursor))
  /\ run.total = Cardinality(Avdb!RowsUpTo(r, run.cursor))
  /\ Avdb!RowsUpTo(r, run.cursor) \subseteq rowsIn /\ rowsIn \subseteq Avdb!RowsOf(r)
  /\ \E k \in 0 .. Avdb!AssetCount(r) : Reached(r, run, k)
  /\ run.status = "completed" =>
       rowsIn = Avdb!RowsOf(r) /\ run.done = 1 .. Avdb!AssetCount(r)

\* Where the consumer that owns the run stands.
AtAsset(r, run, c) ==
  /\ c.at[1] \in 1 .. Avdb!AssetCount(r) + 1 /\ 1 .. c.at[1] - 1 \subseteq run.done
  /\ c.total = run.total

AtBatch(r, run, c) ==
  /\ c.at[1] \in 1 .. Avdb!AssetCount(r) /\ c.at[2] \in 0 .. Assets[r][c.at[1]]
  /\ run.done = 1 .. c.at[1] - 1 /\ run.cursor[1] <= c.at[1]
  /\ Avdb!RowsUpTo(r, c.at) = Avdb!RowsUpTo(r, run.cursor)
  /\ c.total = run.total

AtAdvance(r, run, c, rowsIn) ==
  /\ c.at \in rowsIn /\ c.at \in Avdb!RowsOf(r) /\ run.done = 1 .. c.at[1] - 1
  /\ c.at \notin Avdb!RowsUpTo(r, run.cursor)
  /\ Avdb!RowsUpTo(r, c.at) = Avdb!RowsUpTo(r, run.cursor) \union {c.at}
  /\ c.total = run.total + 1

\* RunMine of a consumer's row.
Owns(run, c) == run.status = "running" /\ run.live /\ run.owner = c.token

Stands(c, r, run, rowsIn) ==
  Owns(run, c) =>
    /\ c.pc = "asset" => AtAsset(r, run, c)
    /\ c.pc = "batch" => AtBatch(r, run, c)
    /\ c.pc = "advance" => AtAdvance(r, run, c, rowsIn)

\* What a request is served with.
Serves(c) ==
  OnRun(c) =>
    /\ c.release \in Releases /\ c.release[1] = requests[c.request].scope
    /\ c.pc \in {"owned", "complete"} => runs[c.release].status = "completed"

AvdbCompletion ==
  \A i \in DOMAIN requests : requests[i].status = "completed" =>
    \E r \in Releases : r[1] = requests[i].scope /\ runs[r].status = "completed"

AvdbInv ==
  /\ AvdbTypes /\ AvdbTokens /\ AvdbCompletion
  /\ \A r \in Releases : RunRight(r, runs[r], imported[r])
  /\ \A w \in Workers : Serves(consumers[w])
  /\ \A w \in Workers : OnRun(consumers[w]) =>
       Stands(consumers[w], consumers[w].release, runs[consumers[w].release],
              imported[consumers[w].release])

-----------------------------------------------------------------------------
(* The rows of a release.                                                  *)

LEMMA RowsShape ==
  ASSUME NEW r \in Releases
  PROVE  /\ Assets[r] \in Seq(Nat) /\ Avdb!AssetCount(r) \in Nat
         /\ \A a \in 1 .. Avdb!AssetCount(r) : Assets[r][a] \in Nat
         /\ Avdb!RowsOf(r) \subseteq Nat \X Nat
         /\ \A a, n : <<a, n>> \in Avdb!RowsOf(r) <=>
              a \in 1 .. Avdb!AssetCount(r) /\ n \in 1 .. Assets[r][a]
         /\ \A row \in Avdb!RowsOf(r) :
              /\ row = <<row[1], row[2]>> /\ row[1] \in 1 .. Avdb!AssetCount(r)
              /\ row[2] \in 1 .. Assets[r][row[1]]
<1>1. Assets[r] \in Seq(Nat) /\ Avdb!AssetCount(r) = Len(Assets[r])
  BY CatalogAssumption DEF Avdb!AssetCount
<1>2. Avdb!AssetCount(r) \in Nat /\ \A a \in 1 .. Avdb!AssetCount(r) : Assets[r][a] \in Nat
  BY <1>1
<1>3. \A row : row \in Avdb!RowsOf(r) <=>
         \E a \in 1 .. Avdb!AssetCount(r) : row \in {a} \X (1 .. Assets[r][a])
  BY DEF Avdb!RowsOf
<1>4. ASSUME NEW row \in Avdb!RowsOf(r)
      PROVE  /\ row = <<row[1], row[2]>> /\ row[1] \in 1 .. Avdb!AssetCount(r)
             /\ row[2] \in 1 .. Assets[r][row[1]] /\ row \in Nat \X Nat
  <2>1. PICK a \in 1 .. Avdb!AssetCount(r) : row \in {a} \X (1 .. Assets[r][a])
    BY <1>3, <1>4
  <2> QED
    BY <1>2, <2>1
<1>5. ASSUME NEW a, NEW n
      PROVE  <<a, n>> \in Avdb!RowsOf(r) <=>
              a \in 1 .. Avdb!AssetCount(r) /\ n \in 1 .. Assets[r][a]
  BY <1>3
<1> QED
  BY <1>1, <1>2, <1>4, <1>5

LEMMA RowsAtStart ==
  ASSUME NEW r \in Releases
  PROVE  Avdb!RowsUpTo(r, Avdb!Start) = {}
<1>1. \A row \in Avdb!RowsOf(r) : row[1] \in Nat /\ row[1] >= 1 /\ row[2] \in Nat /\ row[2] >= 1
  BY RowsShape
<1> QED
  BY <1>1 DEF Avdb!RowsUpTo, Avdb!Start

\* The next row of an asset.
LEMMA RowsNext ==
  ASSUME NEW r \in Releases, NEW a \in Nat, NEW n \in Nat, <<a, n + 1>> \in Avdb!RowsOf(r)
  PROVE  /\ <<a, n + 1>> \notin Avdb!RowsUpTo(r, <<a, n>>)
         /\ Avdb!RowsUpTo(r, <<a, n + 1>>) = Avdb!RowsUpTo(r, <<a, n>>) \union {<<a, n + 1>>}
<1>1. \A row \in Avdb!RowsOf(r) : row = <<row[1], row[2]>> /\ row[1] \in Nat /\ row[2] \in Nat
  BY RowsShape
<1>2. \A row \in Avdb!RowsOf(r) :
        row[1] = a /\ row[2] <= n + 1 <=> (row[1] = a /\ row[2] <= n) \/ row = <<a, n + 1>>
  BY <1>1
<1>3. ASSUME NEW row
      PROVE  row \in Avdb!RowsUpTo(r, <<a, n + 1>>) <=>
               row \in Avdb!RowsUpTo(r, <<a, n>>) \union {<<a, n + 1>>}
  <2>1. CASE row \in Avdb!RowsOf(r)
    <3>1. row = <<a, n + 1>> => row[1] = a /\ row[2] = n + 1
      OBVIOUS
    <3> QED
      BY <1>1, <1>2, <2>1, <3>1 DEF Avdb!RowsUpTo
  <2>2. CASE row \notin Avdb!RowsOf(r)
    BY <2>2 DEF Avdb!RowsUpTo
  <2> QED
    BY <2>1, <2>2
<1>4. <<a, n + 1>> \notin Avdb!RowsUpTo(r, <<a, n>>)
  BY DEF Avdb!RowsUpTo
<1> QED
  BY <1>3, <1>4

\* At the end of an asset the next one begins.
LEMMA RowsEnd ==
  ASSUME NEW r \in Releases, NEW a \in Nat, NEW n \in Nat,
         a \in 1 .. Avdb!AssetCount(r), <<a, n + 1>> \notin Avdb!RowsOf(r)
  PROVE  Avdb!RowsUpTo(r, <<a, n>>) = Avdb!RowsUpTo(r, <<a + 1, 0>>)
<1>1. Assets[r][a] \in Nat /\ n >= Assets[r][a]
  BY RowsShape
<1>2. \A row \in Avdb!RowsOf(r) :
        /\ row[1] \in Nat /\ row[2] \in Nat /\ row[2] >= 1
        /\ row[1] = a => row[2] <= Assets[r][a]
  BY RowsShape
<1>3. \A row \in Avdb!RowsOf(r) :
        (row[1] < a \/ (row[1] = a /\ row[2] <= n))
          <=> (row[1] < a + 1 \/ (row[1] = a + 1 /\ row[2] <= 0))
  BY <1>1, <1>2
<1> QED
  BY <1>3 DEF Avdb!RowsUpTo

\* Behind the last asset is every row.
LEMMA RowsAll ==
  ASSUME NEW r \in Releases
  PROVE  Avdb!RowsUpTo(r, <<Avdb!AssetCount(r) + 1, 0>>) = Avdb!RowsOf(r)
<1>1. \A row \in Avdb!RowsOf(r) : row[1] < Avdb!AssetCount(r) + 1
  BY RowsShape
<1> QED
  BY <1>1 DEF Avdb!RowsUpTo

-----------------------------------------------------------------------------
(* Steps.                                                                  *)

LEMMA AvdbRows ==
  ASSUME AvdbTypes
  PROVE  /\ Len(requests) \in Nat /\ DOMAIN requests = 1 .. Len(requests) /\ taken \in Nat
         /\ \A i \in DOMAIN requests : requests[i] \in Avdb!RequestRow
         /\ \A w \in Workers :
              /\ consumers[w] \in AvdbConsumer /\ consumers[w].at \in Nat \X Nat
              /\ consumers[w].at = <<consumers[w].at[1], consumers[w].at[2]>>
              /\ consumers[w].at[1] \in Nat /\ consumers[w].at[2] \in Nat
              /\ consumers[w].total \in Nat /\ consumers[w].token \in Nat
         /\ \A r \in Releases : /\ runs[r] \in AvdbRun /\ runs[r].cursor \in Nat \X Nat
                                /\ imported[r] \subseteq Nat \X Nat
<1>1. requests \in Seq(Avdb!RequestRow) /\ taken \in Nat
  BY DEF AvdbTypes
<1>2. \A w \in Workers : consumers[w] \in AvdbConsumer
  BY DEF AvdbTypes
<1>3. \A r \in Releases : runs[r] \in AvdbRun /\ imported[r] \subseteq Nat \X Nat
  BY DEF AvdbTypes
<1>4. ASSUME NEW w \in Workers
      PROVE  /\ consumers[w].at \in Nat \X Nat /\ consumers[w].total \in Nat
             /\ consumers[w].token \in Nat
  BY <1>2 DEF AvdbConsumer
<1>5. \A x \in Nat \X Nat : x = <<x[1], x[2]>> /\ x[1] \in Nat /\ x[2] \in Nat
  OBVIOUS
<1>6. \A r \in Releases : runs[r].cursor \in Nat \X Nat
  BY <1>3 DEF AvdbRun
<1> QED
  BY <1>1, <1>2, <1>3, <1>4, <1>5, <1>6

\* What a consumer goes on with: no claim, the one it has, or a fresh one.
GoesOn(w) ==
  \/ ~Working(consumers'[w])
  \/ /\ Working(consumers[w]) /\ consumers'[w].request = consumers[w].request
     /\ consumers'[w].token = consumers[w].token
  \/ /\ taken' = taken + 1 /\ consumers'[w].token = taken'
     /\ consumers'[w].request \in DOMAIN requests

\* The consumers in S, one at most, go on; the others stand where they stood.
LEMMA AvdbFrame ==
  ASSUME AvdbInv, AvdbTypes', taken' >= taken, DOMAIN requests \subseteq DOMAIN requests',
         \A i \in DOMAIN requests : requests'[i].scope = requests[i].scope,
         \A i \in DOMAIN requests' : requests'[i].status = "completed" =>
           \/ i \in DOMAIN requests /\ requests[i].status = "completed"
           \/ \E r \in Releases : r[1] = requests'[i].scope /\ runs'[r].status = "completed",
         \A r \in Releases : /\ RunRight(r, runs'[r], imported'[r])
                             /\ runs[r].status = "completed" => runs'[r].status = "completed",
         NEW S \in SUBSET Workers, \A v, w \in S : v = w,
         \A v \in Workers \ S : consumers'[v] = consumers[v],
         \A v \in Workers \ S : OnRun(consumers[v]) =>
           Stands(consumers[v], consumers[v].release, runs'[consumers[v].release],
                  imported'[consumers[v].release]),
         \A w \in S : GoesOn(w) /\ Serves(consumers[w])',
         \A w \in S : OnRun(consumers'[w]) =>
           Stands(consumers'[w], consumers'[w].release, runs'[consumers'[w].release],
                  imported'[consumers'[w].release])
  PROVE  AvdbInv'
<1>1. /\ AvdbTypes /\ AvdbTokens /\ AvdbCompletion /\ taken \in Nat
      /\ \A w \in Workers : Serves(consumers[w])
      /\ \A w \in Workers : consumers[w].token \in Nat
  BY AvdbRows DEF AvdbInv
<1>2. AvdbTokens'
  <2>1. ASSUME NEW w \in Workers, Working(consumers'[w])
        PROVE  consumers'[w].request \in DOMAIN requests' /\ consumers'[w].token <= taken'
    <3>1. taken' \in Nat /\ taken' <= taken'
      BY DEF AvdbTypes
    <3>2. CASE w \in S
      BY <1>1, <2>1, <3>1, <3>2 DEF GoesOn, AvdbTokens
    <3>3. CASE w \notin S
      BY <1>1, <2>1, <3>1, <3>3 DEF AvdbTokens
    <3> QED
      BY <3>2, <3>3
  <2>2. ASSUME NEW v \in Workers, NEW w \in Workers, Working(consumers'[v]),
               Working(consumers'[w]), consumers'[v].token = consumers'[w].token
        PROVE  v = w
    <3>1. \A x \in Workers \ S : Working(consumers'[x]) => consumers'[x].token # taken + 1
      BY <1>1 DEF AvdbTokens
    <3>2. CASE v \in S /\ w \notin S
      BY <1>1, <2>2, <3>1, <3>2 DEF GoesOn, AvdbTokens
    <3>3. CASE v \notin S /\ w \in S
      BY <1>1, <2>2, <3>1, <3>3 DEF GoesOn, AvdbTokens
    <3>4. CASE v \notin S /\ w \notin S
      BY <1>1, <2>2, <3>4 DEF AvdbTokens
    <3> QED
      BY <3>2, <3>3, <3>4
  <2> QED
    BY <2>1, <2>2 DEF AvdbTokens
<1>3. AvdbCompletion'
  <2> SUFFICES ASSUME NEW i \in DOMAIN requests', requests'[i].status = "completed"
               PROVE  \E r \in Releases : r[1] = requests'[i].scope /\ runs'[r].status = "completed"
    BY DEF AvdbCompletion
  <2> QED
    BY <1>1 DEF AvdbCompletion
<1>4. ASSUME NEW w \in Workers PROVE Serves(consumers[w])'
  <2>1. CASE w \notin S
    <3>1. consumers'[w] = consumers[w] /\ Serves(consumers[w])
      BY <1>1, <2>1
    <3>2. OnRun(consumers[w]) => consumers[w].request \in DOMAIN requests
      BY <1>1 DEF AvdbTokens, OnRun, Working
    <3> QED
      BY <3>1, <3>2 DEF Serves, OnRun
  <2> QED
    BY <2>1
<1>5. ASSUME NEW w \in Workers, OnRun(consumers[w])'
      PROVE  Stands(consumers[w], consumers[w].release, runs[consumers[w].release],
                    imported[consumers[w].release])'
  <2>1. CASE w \in S
    BY <1>5, <2>1 DEF Stands, Owns, OnRun, AtAsset, AtBatch, AtAdvance
  <2>2. CASE w \notin S
    <3>1. consumers'[w] = consumers[w] /\ OnRun(consumers[w])
      BY <1>5, <2>2 DEF OnRun
    <3>2. Stands(consumers[w], consumers[w].release, runs'[consumers[w].release],
                 imported'[consumers[w].release])
      BY <2>2, <3>1
    <3> QED
      BY <3>1, <3>2 DEF Stands, Owns, AtAsset, AtBatch, AtAdvance
  <2> QED
    BY <2>1, <2>2
<1>6. \A r \in Releases : RunRight(r, runs[r], imported[r])'
  BY DEF RunRight, Reached
<1> QED
  BY <1>2, <1>3, <1>4, <1>5, <1>6 DEF AvdbInv

LEMMA StandsMore ==
  ASSUME NEW c, NEW r, NEW run, NEW rowsIn, NEW more, Stands(c, r, run, rowsIn), rowsIn \subseteq more
  PROVE  Stands(c, r, run, more)
BY DEF Stands, AtAdvance

\* A step of one consumer that touches no run.
LEMMA AvdbQuiet ==
  ASSUME AvdbInv, UNCHANGED <<runs, imported>>, taken' \in Nat, taken' >= taken,
         requests' \in Seq(Avdb!RequestRow), DOMAIN requests' = DOMAIN requests,
         \A i \in DOMAIN requests :
           /\ requests'[i].scope = requests[i].scope
           /\ requests'[i].status = "completed" =>
                \/ requests[i].status = "completed"
                \/ \E r \in Releases : r[1] = requests[i].scope /\ runs[r].status = "completed",
         NEW w \in Workers, NEW row \in AvdbConsumer,
         consumers' = [consumers EXCEPT ![w] = row], GoesOn(w),
         OnRun(row) =>
           /\ row.release \in Releases /\ row.release[1] = requests[row.request].scope
           /\ row.request \in DOMAIN requests
           /\ row.pc \in {"owned", "complete"} => runs[row.release].status = "completed"
           /\ Stands(row, row.release, runs[row.release], imported[row.release])
  PROVE  AvdbInv'
<1>1. /\ AvdbTypes /\ AvdbCompletion /\ \A r \in Releases : RunRight(r, runs[r], imported[r])
      /\ \A v \in Workers : OnRun(consumers[v]) =>
           Stands(consumers[v], consumers[v].release, runs[consumers[v].release],
                  imported[consumers[v].release])
  BY DEF AvdbInv
<1>2. /\ consumers' \in [Workers -> AvdbConsumer] /\ consumers'[w] = row
      /\ \A v \in Workers \ {w} : consumers'[v] = consumers[v]
  BY <1>1 DEF AvdbTypes
<1>3. AvdbTypes'
  BY <1>1, <1>2 DEF AvdbTypes
<1>4. Serves(consumers[w])'
  BY <1>2 DEF Serves
<1>5. \A v \in {w} : OnRun(consumers'[v]) =>
        Stands(consumers'[v], consumers'[v].release, runs'[consumers'[v].release],
               imported'[consumers'[v].release])
  BY <1>2
<1>6. \A r \in Releases : /\ RunRight(r, runs'[r], imported'[r])
                          /\ runs[r].status = "completed" => runs'[r].status = "completed"
  BY <1>1
<1>7. \A v \in Workers \ {w} : OnRun(consumers[v]) =>
        Stands(consumers[v], consumers[v].release, runs'[consumers[v].release],
               imported'[consumers[v].release])
  BY <1>1
<1>8. \A v \in {w} : GoesOn(v) /\ Serves(consumers[v])'
  BY <1>4
<1>9. \A i \in DOMAIN requests' : requests'[i].status = "completed" =>
           \/ i \in DOMAIN requests /\ requests[i].status = "completed"
           \/ \E r \in Releases : r[1] = requests'[i].scope /\ runs'[r].status = "completed"
  OBVIOUS
<1>10. {w} \in SUBSET Workers /\ \A u, v \in {w} : u = v
  OBVIOUS
<1> QED
  BY <1>2, <1>3, <1>5, <1>6, <1>7, <1>8, <1>9, <1>10, AvdbFrame

\* A step of the queue or of a run that no consumer takes.
LEMMA AvdbAlone ==
  ASSUME AvdbInv, UNCHANGED <<taken, consumers, imported>>,
         requests' \in Seq(Avdb!RequestRow), DOMAIN requests \subseteq DOMAIN requests',
         \A i \in DOMAIN requests : requests'[i].scope = requests[i].scope,
         \A i \in DOMAIN requests' : requests'[i].status = "completed" =>
           i \in DOMAIN requests /\ requests[i].status = "completed",
         runs' \in [Releases -> AvdbRun],
         \A r \in Releases :
           \/ runs'[r] = runs[r]
           \/ /\ ~runs'[r].live /\ runs'[r].status = runs[r].status
              /\ runs'[r].cursor = runs[r].cursor /\ runs'[r].total = runs[r].total
              /\ runs'[r].done = runs[r].done
  PROVE  AvdbInv'
<1>1. /\ AvdbTypes /\ \A r \in Releases : RunRight(r, runs[r], imported[r])
      /\ \A v \in Workers : OnRun(consumers[v]) =>
           Stands(consumers[v], consumers[v].release, runs[consumers[v].release],
                  imported[consumers[v].release])
      /\ \A v \in Workers : OnRun(consumers[v]) => consumers[v].release \in Releases
  BY DEF AvdbInv, Serves
<1>2. AvdbTypes' /\ taken' >= taken
  BY <1>1 DEF AvdbTypes
<1>3. \A r \in Releases : /\ RunRight(r, runs'[r], imported'[r])
                          /\ runs[r].status = "completed" => runs'[r].status = "completed"
  <2> TAKE r \in Releases
  <2>1. RunRight(r, runs[r], imported[r]) /\ imported' = imported
    BY <1>1
  <2>2. CASE runs'[r] = runs[r]
    BY <2>1, <2>2
  <2>3. CASE /\ runs'[r].status = runs[r].status /\ runs'[r].cursor = runs[r].cursor
             /\ runs'[r].total = runs[r].total /\ runs'[r].done = runs[r].done
    BY <2>1, <2>3 DEF RunRight, Reached
  <2> QED
    BY <2>2, <2>3
<1>4. ASSUME NEW v \in Workers, OnRun(consumers[v])
      PROVE  Stands(consumers[v], consumers[v].release, runs'[consumers[v].release],
                    imported'[consumers[v].release])
  <2>1. CASE runs'[consumers[v].release] = runs[consumers[v].release]
    BY <1>1, <1>4, <2>1
  <2>2. CASE ~runs'[consumers[v].release].live
    BY <2>2 DEF Stands, Owns
  <2> QED
    BY <1>1, <1>4, <2>1, <2>2
<1>5. \A v \in Workers \ {} : consumers'[v] = consumers[v]
  OBVIOUS
<1> DEFINE S == {}
<1>6. /\ S \in SUBSET Workers /\ (\A v, w \in S : v = w)
      /\ \A w \in S : GoesOn(w) /\ Serves(consumers[w])'
      /\ \A w \in S : OnRun(consumers'[w]) =>
           Stands(consumers'[w], consumers'[w].release, runs'[consumers'[w].release],
                  imported'[consumers'[w].release])
      /\ \A v \in Workers \ S : consumers'[v] = consumers[v]
      /\ \A v \in Workers \ S : OnRun(consumers[v]) =>
           Stands(consumers[v], consumers[v].release, runs'[consumers[v].release],
                  imported'[consumers[v].release])
  BY <1>4
<1>7. \A i \in DOMAIN requests' : requests'[i].status = "completed" =>
           \/ i \in DOMAIN requests /\ requests[i].status = "completed"
           \/ \E r \in Releases : r[1] = requests'[i].scope /\ runs'[r].status = "completed"
  OBVIOUS
<1> HIDE DEF S
<1> QED
  BY <1>2, <1>3, <1>6, <1>7, AvdbFrame

\* A step of a consumer on its run.
LEMMA AvdbRunStep ==
  ASSUME AvdbInv, UNCHANGED <<requests, taken>>, NEW w \in Workers, OnRun(consumers[w]),
         NEW r \in Releases, consumers[w].release = r,
         NEW run \in AvdbRun, NEW rowsIn \in SUBSET (Nat \X Nat), imported[r] \subseteq rowsIn,
         runs' = [runs EXCEPT ![r] = run], imported' = [imported EXCEPT ![r] = rowsIn],
         \/ run = runs[r]
         \/ run.owner = consumers[w].token \/ run.status # "running" \/ ~run.live,
         RunRight(r, run, rowsIn), runs[r].status = "completed" => run.status = "completed",
         NEW row \in AvdbConsumer, consumers' = [consumers EXCEPT ![w] = row],
         row.release = r, row.request = consumers[w].request, row.token = consumers[w].token,
         Working(row), row.pc \in {"owned", "complete"} => run.status = "completed",
         Stands(row, r, run, rowsIn)
  PROVE  AvdbInv'
<1>1. /\ AvdbTypes /\ AvdbTokens /\ \A s \in Releases : RunRight(s, runs[s], imported[s])
      /\ \A v \in Workers : OnRun(consumers[v]) =>
           Stands(consumers[v], consumers[v].release, runs[consumers[v].release],
                  imported[consumers[v].release])
      /\ \A v \in Workers : Serves(consumers[v])
  BY DEF AvdbInv
<1>2. /\ consumers' \in [Workers -> AvdbConsumer] /\ consumers'[w] = row
      /\ \A v \in Workers \ {w} : consumers'[v] = consumers[v]
      /\ runs' \in [Releases -> AvdbRun] /\ runs'[r] = run
      /\ \A s \in Releases \ {r} : runs'[s] = runs[s]
      /\ imported' \in [Releases -> SUBSET (Nat \X Nat)] /\ imported'[r] = rowsIn
      /\ \A s \in Releases \ {r} : imported'[s] = imported[s]
  BY <1>1 DEF AvdbTypes
<1>3. AvdbTypes' /\ taken' >= taken
  BY <1>1, <1>2 DEF AvdbTypes
<1>4. Serves(consumers[w])'
  <2>1. r[1] = requests[consumers[w].request].scope
    BY <1>1 DEF Serves
  <2> QED
    BY <1>2, <2>1 DEF Serves
<1>5. GoesOn(w)
  BY <1>2 DEF GoesOn, OnRun, Working
<1>6. \A s \in Releases : /\ RunRight(s, runs'[s], imported'[s])
                          /\ runs[s].status = "completed" => runs'[s].status = "completed"
  BY <1>1, <1>2
<1>7. ASSUME NEW v \in Workers \ {w}, OnRun(consumers[v])
      PROVE  Stands(consumers[v], consumers[v].release, runs'[consumers[v].release],
                    imported'[consumers[v].release])
  <2>1. /\ consumers[v].release \in Releases
        /\ Stands(consumers[v], consumers[v].release, runs[consumers[v].release],
                  imported[consumers[v].release])
    BY <1>1, <1>7 DEF Serves
  <2>2. CASE consumers[v].release # r
    BY <1>2, <2>1, <2>2
  <2>3. CASE consumers[v].release = r /\ run = runs[r]
    BY <1>2, <2>1, <2>3, StandsMore
  <2>4. CASE consumers[v].release = r /\ run # runs[r]
    <3>1. consumers[v].token # consumers[w].token
      BY <1>1, <1>7 DEF AvdbTokens, OnRun, Working
    <3>2. ~Owns(run, consumers[v])
      BY <2>4, <3>1 DEF Owns
    <3> QED
      BY <1>2, <2>4, <3>2 DEF Stands
  <2> QED
    BY <2>2, <2>3, <2>4
<1>8. /\ \A v \in {w} : GoesOn(v) /\ Serves(consumers[v])'
      /\ \A v \in {w} : OnRun(consumers'[v]) =>
           Stands(consumers'[v], consumers'[v].release, runs'[consumers'[v].release],
                  imported'[consumers'[v].release])
  BY <1>2, <1>4, <1>5
<1>9. \A i \in DOMAIN requests' : requests'[i].status = "completed" =>
           \/ i \in DOMAIN requests /\ requests[i].status = "completed"
           \/ \E s \in Releases : s[1] = requests'[i].scope /\ runs'[s].status = "completed"
  OBVIOUS
<1>10. {w} \in SUBSET Workers /\ \A u, v \in {w} : u = v
  OBVIOUS
<1> QED
  BY <1>2, <1>3, <1>6, <1>7, <1>8, <1>9, <1>10, AvdbFrame

\* One row of the queue becomes another.
LEMMA AvdbRequestSet ==
  ASSUME requests \in Seq(Avdb!RequestRow), NEW i \in DOMAIN requests,
         NEW row \in Avdb!RequestRow, requests' = [requests EXCEPT ![i] = row]
  PROVE  /\ requests' \in Seq(Avdb!RequestRow) /\ DOMAIN requests' = DOMAIN requests
         /\ requests'[i] = row /\ \A j \in DOMAIN requests \ {i} : requests'[j] = requests[j]
OBVIOUS

\* A consumer's row with another pc stands for the same claim and the same run.
LEMMA AvdbGoes ==
  ASSUME AvdbInv, NEW w \in Workers, NEW pc \in Avdb!Pc, Avdb!Go(w, pc),
         UNCHANGED <<runs, imported>>, taken' = taken,
         requests' \in Seq(Avdb!RequestRow), DOMAIN requests' = DOMAIN requests,
         \A i \in DOMAIN requests :
           requests'[i].scope = requests[i].scope /\ requests'[i].status = requests[i].status,
         pc \in {"idle", "claim", "fail"} \/ (pc \in {"failrun", "complete", "owned"} /\ OnRun(consumers[w])),
         pc \notin {"idle", "claim"} => Working(consumers[w]),
         pc \in {"complete", "owned"} => runs[consumers[w].release].status = "completed"
  PROVE  AvdbInv'
<1> DEFINE row == [consumers[w] EXCEPT !.pc = pc]
<1>1. consumers[w] \in AvdbConsumer /\ Serves(consumers[w]) /\ AvdbTokens /\ AvdbTypes
  BY AvdbRows DEF AvdbInv
<1>2. /\ row \in AvdbConsumer /\ row.pc = pc /\ row.request = consumers[w].request
      /\ row.token = consumers[w].token /\ row.release = consumers[w].release
  BY <1>1 DEF AvdbConsumer
<1>3. consumers' = [consumers EXCEPT ![w] = row]
  BY DEF Avdb!Go
<1> HIDE DEF row
<1>4. consumers'[w] = row
  BY <1>1, <1>3 DEF AvdbTypes
<1>5. GoesOn(w)
  BY <1>2, <1>4 DEF GoesOn, Working
<1>6. OnRun(row) =>
        /\ row.release \in Releases /\ row.release[1] = requests[row.request].scope
        /\ row.request \in DOMAIN requests
        /\ row.pc \in {"owned", "complete"} => runs[row.release].status = "completed"
        /\ Stands(row, row.release, runs[row.release], imported[row.release])
  BY <1>1, <1>2 DEF OnRun, Serves, AvdbTokens, Working, Stands
<1>7. taken' \in Nat /\ taken' >= taken
  BY <1>1 DEF AvdbTypes
<1>8. \A i \in DOMAIN requests : requests'[i].status = "completed" =>
        \/ requests[i].status = "completed"
        \/ \E r \in Releases : r[1] = requests[i].scope /\ runs[r].status = "completed"
  OBVIOUS
<1> QED
  BY <1>2, <1>3, <1>5, <1>6, <1>7, <1>8, AvdbQuiet

LEMMA AvdbGoSteps ==
  ASSUME AvdbInv, NEW w \in Workers,
         \/ Avdb!Sweep(w) \/ Avdb!CheckOwned(w) \/ Avdb!BatchFails(w) \/ Avdb!HeartbeatFails(w)
  PROVE  AvdbInv'
<1>1. /\ consumers[w] \in AvdbConsumer /\ Serves(consumers[w]) /\ AvdbTypes
      /\ requests \in Seq(Avdb!RequestRow)
  BY AvdbRows DEF AvdbInv, AvdbTypes
<1>2. {"claim", "complete", "fail", "failrun"} \subseteq Avdb!Pc
  BY DEF Avdb!Pc
<1>3. CASE Avdb!Sweep(w)
  <2>1. Avdb!Go(w, "claim") /\ UNCHANGED <<requests, taken, runs, imported>>
    BY <1>3 DEF Avdb!Sweep, Avdb!rowVars
  <2> QED
    BY <1>1, <1>2, <2>1, AvdbGoes
<1>4. CASE Avdb!CheckOwned(w)
  <2>1. /\ UNCHANGED <<requests, taken, runs, imported>>
        /\ Avdb!Go(w, "complete") \/ Avdb!Go(w, "fail")
        /\ consumers[w].pc = "owned"
    BY <1>4 DEF Avdb!CheckOwned, Avdb!rowVars, Avdb!At
  <2>2. OnRun(consumers[w]) /\ Working(consumers[w])
        /\ runs[consumers[w].release].status = "completed"
    BY <1>1, <2>1 DEF OnRun, Working, Serves
  <2> QED
    BY <1>1, <1>2, <2>1, <2>2, AvdbGoes
<1>5. CASE Avdb!BatchFails(w)
  <2>1. /\ UNCHANGED <<requests, taken, runs, imported>> /\ Avdb!Go(w, "failrun")
        /\ OnRun(consumers[w]) /\ Working(consumers[w])
    BY <1>5 DEF Avdb!BatchFails, Avdb!rowVars, Avdb!At, OnRun, Working
  <2> QED
    BY <1>1, <1>2, <2>1, AvdbGoes
<1>6. CASE Avdb!HeartbeatFails(w)
  <2>1. /\ UNCHANGED <<requests, taken, runs, imported>> /\ Avdb!Go(w, "fail")
        /\ Working(consumers[w])
    BY <1>6 DEF Avdb!HeartbeatFails, Avdb!rowVars, Avdb!At, Working
  <2> QED
    BY <1>1, <1>2, <2>1, AvdbGoes
<1> QED
  BY <1>3, <1>4, <1>5, <1>6

\* The consumer leaves its request, which keeps its status or ends.
LEMMA AvdbLeaves ==
  ASSUME AvdbInv, NEW w \in Workers, consumers' = [consumers EXCEPT ![w] = Avdb!Idle],
         UNCHANGED <<taken, runs, imported>>,
         requests' \in Seq(Avdb!RequestRow), DOMAIN requests' = DOMAIN requests,
         \A i \in DOMAIN requests :
           /\ requests'[i].scope = requests[i].scope
           /\ requests'[i].status = "completed" =>
                \/ requests[i].status = "completed"
                \/ \E r \in Releases : r[1] = requests[i].scope /\ runs[r].status = "completed"
  PROVE  AvdbInv'
<1>1. AvdbTypes /\ taken' \in Nat /\ taken' >= taken
  BY DEF AvdbInv, AvdbTypes
<1> DEFINE row == Avdb!Idle
<1>2. row \in AvdbConsumer /\ row.pc = "idle"
  BY DEF Avdb!Idle, AvdbConsumer, Avdb!Pc, Avdb!Start
<1> HIDE DEF row
<1>3. consumers'[w] = row /\ consumers' = [consumers EXCEPT ![w] = row]
  BY <1>1 DEF AvdbTypes, row
<1>4. GoesOn(w) /\ ~OnRun(row)
  BY <1>2, <1>3 DEF GoesOn, Working, OnRun
<1> QED
  BY <1>1, <1>2, <1>3, <1>4, AvdbQuiet

\* A request ends as its consumer wants.
LEMMA AvdbFinish ==
  ASSUME AvdbInv, NEW i \in DOMAIN requests, NEW status \in {"completed", "failed"},
         Avdb!Finish(i, status)
  PROVE  /\ requests' \in Seq(Avdb!RequestRow) /\ DOMAIN requests' = DOMAIN requests
         /\ \A j \in DOMAIN requests :
              /\ requests'[j].scope = requests[j].scope
              /\ requests'[j].status = IF j = i THEN status ELSE requests[j].status
<1> DEFINE row == [requests[i] EXCEPT !.status = status, !.token = 0, !.live = FALSE]
<1>1. requests[i] \in Avdb!RequestRow /\ requests \in Seq(Avdb!RequestRow)
  BY AvdbRows DEF AvdbInv, AvdbTypes
<1>2. row \in Avdb!RequestRow /\ row.status = status /\ row.scope = requests[i].scope
  BY <1>1 DEF Avdb!RequestRow, Avdb!RequestStatus
<1>3. requests' = [requests EXCEPT ![i] = row]
  BY DEF Avdb!Finish
<1> HIDE DEF row
<1> QED
  BY <1>1, <1>2, <1>3, AvdbRequestSet

LEMMA AvdbEnds ==
  ASSUME AvdbInv, NEW w \in Workers,
         Avdb!Fail(w) \/ Avdb!CompleteRequest(w) \/ Avdb!Crash(w)
  PROVE  AvdbInv'
<1> DEFINE i == consumers[w].request
<1>1. /\ consumers[w] \in AvdbConsumer /\ Serves(consumers[w]) /\ AvdbTypes /\ AvdbTokens
      /\ requests \in Seq(Avdb!RequestRow)
  BY AvdbRows DEF AvdbInv, AvdbTypes
<1>2. CASE Avdb!Crash(w)
  <2>1. consumers' = [consumers EXCEPT ![w] = Avdb!Idle] /\ UNCHANGED <<requests, taken, runs, imported>>
    BY <1>2 DEF Avdb!Crash, Avdb!rowVars
  <2> QED
    BY <1>1, <2>1, AvdbLeaves
<1>3. CASE Avdb!Fail(w)
  <2>1. /\ consumers' = [consumers EXCEPT ![w] = Avdb!Idle] /\ UNCHANGED <<taken, runs, imported>>
        /\ Avdb!Finish(i, "failed") \/ UNCHANGED requests
        /\ i \in DOMAIN requests
    BY <1>1, <1>3 DEF Avdb!Fail, Avdb!FailRequest, Avdb!Leave, Avdb!rowVars, Avdb!Request, Avdb!At,
       AvdbTokens, Working
  <2>2. CASE UNCHANGED requests
    BY <1>1, <2>1, <2>2, AvdbLeaves
  <2>3. CASE Avdb!Finish(i, "failed")
    <3>1. /\ requests' \in Seq(Avdb!RequestRow) /\ DOMAIN requests' = DOMAIN requests
          /\ \A j \in DOMAIN requests :
               /\ requests'[j].scope = requests[j].scope
               /\ requests'[j].status = IF j = i THEN "failed" ELSE requests[j].status
      BY <2>1, <2>3, AvdbFinish
    <3>2. \A j \in DOMAIN requests :
            requests'[j].status = "completed" => requests[j].status = "completed"
      BY <3>1
    <3> QED
      BY <1>1, <2>1, <3>1, <3>2, AvdbLeaves
  <2> QED
    BY <2>1, <2>2, <2>3
<1>4. CASE Avdb!CompleteRequest(w)
  <2>0. consumers[w].pc = "complete" /\ UNCHANGED <<taken, runs, imported>>
    BY <1>4 DEF Avdb!CompleteRequest, Avdb!rowVars, Avdb!At
  <2>1. /\ i \in DOMAIN requests /\ consumers[w].release \in Releases
        /\ consumers[w].release[1] = requests[i].scope
        /\ runs[consumers[w].release].status = "completed" /\ Working(consumers[w])
    BY <1>1, <2>0 DEF AvdbTokens, Working, Serves, OnRun
  <2>2. CASE Avdb!Mine(w)
    <3>1. Avdb!Finish(i, "completed") /\ consumers' = [consumers EXCEPT ![w] = Avdb!Idle]
      BY <1>4, <2>2 DEF Avdb!CompleteRequest, Avdb!Leave, Avdb!Request
    <3>2. /\ requests' \in Seq(Avdb!RequestRow) /\ DOMAIN requests' = DOMAIN requests
          /\ \A j \in DOMAIN requests :
               /\ requests'[j].scope = requests[j].scope
               /\ requests'[j].status = IF j = i THEN "completed" ELSE requests[j].status
      BY <2>1, <3>1, AvdbFinish
    <3>3. \A j \in DOMAIN requests : requests'[j].status = "completed" =>
            \/ requests[j].status = "completed"
            \/ \E r \in Releases : r[1] = requests[j].scope /\ runs[r].status = "completed"
      BY <2>1, <3>2
    <3> QED
      BY <2>0, <3>1, <3>2, <3>3, AvdbLeaves
  <2>3. CASE ~Avdb!Mine(w)
    <3>1. Avdb!Go(w, "fail") /\ UNCHANGED requests /\ "fail" \in Avdb!Pc
      BY <1>4, <2>3 DEF Avdb!CompleteRequest, Avdb!Pc
    <3> QED
      BY <1>1, <2>0, <2>1, <3>1, AvdbGoes
  <2> QED
    BY <2>2, <2>3
<1> QED
  BY <1>2, <1>3, <1>4

LEMMA AvdbClaim ==
  ASSUME AvdbInv, NEW w \in Workers, Avdb!Claim(w)
  PROVE  AvdbInv'
<1>1. /\ AvdbTypes /\ taken \in Nat /\ requests \in Seq(Avdb!RequestRow)
      /\ \A i \in DOMAIN requests : i \in Nat /\ requests[i] \in Avdb!RequestRow
  BY AvdbRows DEF AvdbInv, AvdbTypes
<1>2. UNCHANGED <<runs, imported>>
  BY DEF Avdb!Claim, Avdb!rowVars
<1>3. ASSUME NEW i \in DOMAIN requests, Avdb!ClaimNext(i),
             consumers' = [consumers EXCEPT ![w] =
               [Avdb!Idle EXCEPT !.pc = "fetch", !.request = i, !.token = taken']]
      PROVE  AvdbInv'
  <2> DEFINE row == [requests[i] EXCEPT !.status = "claimed", !.token = taken + 1, !.live = TRUE]
             me == [Avdb!Idle EXCEPT !.pc = "fetch", !.request = i, !.token = taken']
  <2>1. taken' = taken + 1 /\ requests' = [requests EXCEPT ![i] = row]
    BY <1>3 DEF Avdb!ClaimNext
  <2>0. taken + 1 \in Nat /\ i \in Nat /\ taken' \in Nat /\ requests[i] \in Avdb!RequestRow
    BY <1>1, <2>1
  <2>2. row \in Avdb!RequestRow /\ row.status = "claimed" /\ row.scope = requests[i].scope
    BY <2>0 DEF Avdb!RequestRow, Avdb!RequestStatus
  <2>3. me \in AvdbConsumer /\ me.pc = "fetch" /\ me.request = i /\ me.token = taken'
    BY <2>0 DEF Avdb!Idle, AvdbConsumer, Avdb!Pc, Avdb!Start
  <2>4. consumers' = [consumers EXCEPT ![w] = me]
    BY <1>3
  <2> HIDE DEF row, me
  <2>5. /\ requests' \in Seq(Avdb!RequestRow) /\ DOMAIN requests' = DOMAIN requests
        /\ requests'[i] = row /\ \A j \in DOMAIN requests \ {i} : requests'[j] = requests[j]
    BY <1>1, <2>1, <2>2, AvdbRequestSet
  <2>6. \A j \in DOMAIN requests :
          /\ requests'[j].scope = requests[j].scope
          /\ requests'[j].status = "completed" =>
               \/ requests[j].status = "completed"
               \/ \E r \in Releases : r[1] = requests[j].scope /\ runs[r].status = "completed"
    BY <2>2, <2>5
  <2>7. consumers'[w] = me
    BY <1>1, <2>4 DEF AvdbTypes
  <2>8. GoesOn(w) /\ ~OnRun(me)
    BY <2>1, <2>3, <2>7 DEF GoesOn, OnRun
  <2>9. taken' \in Nat /\ taken' >= taken
    BY <1>1, <2>1
  <2> QED
    BY <1>2, <2>3, <2>4, <2>5, <2>6, <2>8, <2>9, AvdbQuiet
<1>4. CASE Avdb!Go(w, "idle") /\ UNCHANGED <<requests, taken>>
  <2>1. "idle" \in Avdb!Pc
    BY DEF Avdb!Pc
  <2> QED
    BY <1>1, <1>2, <1>4, <2>1, AvdbGoes
<1> QED
  BY <1>3, <1>4 DEF Avdb!Claim

LEMMA AvdbFetch ==
  ASSUME AvdbInv, NEW w \in Workers, Avdb!Fetch(w)
  PROVE  AvdbInv'
<1>1. /\ consumers[w] \in AvdbConsumer /\ AvdbTypes /\ AvdbTokens
      /\ requests \in Seq(Avdb!RequestRow) /\ taken \in Nat
  BY AvdbRows DEF AvdbInv, AvdbTypes
<1>2. /\ consumers[w].pc = "fetch" /\ UNCHANGED <<requests, taken, runs, imported>>
      /\ Working(consumers[w]) /\ consumers[w].request \in DOMAIN requests
  BY <1>1 DEF Avdb!Fetch, Avdb!At, Avdb!rowVars, Working, AvdbTokens
<1>3. CASE Avdb!Go(w, "fail")
  <2>1. "fail" \in Avdb!Pc
    BY DEF Avdb!Pc
  <2> QED
    BY <1>1, <1>2, <1>3, <2>1, AvdbGoes
<1>4. ASSUME NEW r \in Releases, r[1] = requests[consumers[w].request].scope,
             consumers' = [consumers EXCEPT ![w].pc = "start", ![w].release = r]
      PROVE  AvdbInv'
  <2> DEFINE row == [consumers[w] EXCEPT !.pc = "start", !.release = r]
  <2>1. /\ row \in AvdbConsumer /\ row.pc = "start" /\ row.release = r
        /\ row.request = consumers[w].request /\ row.token = consumers[w].token
    BY <1>1 DEF AvdbConsumer, Avdb!Pc
  <2>2. consumers' = [consumers EXCEPT ![w] = row]
    BY <1>4
  <2> HIDE DEF row
  <2>3. consumers'[w] = row
    BY <1>1, <2>2 DEF AvdbTypes
  <2>4. GoesOn(w)
    BY <1>2, <2>1, <2>3 DEF GoesOn, Working
  <2>5. Stands(row, r, runs[r], imported[r])
    BY <2>1 DEF Stands
  <2>6. taken' \in Nat /\ taken' >= taken
    BY <1>1, <1>2
  <2>7. \A j \in DOMAIN requests :
          /\ requests'[j].scope = requests[j].scope
          /\ requests'[j].status = "completed" =>
               \/ requests[j].status = "completed"
               \/ \E s \in Releases : s[1] = requests[j].scope /\ runs[s].status = "completed"
    BY <1>2
  <2>8. OnRun(row) =>
        /\ row.release \in Releases /\ row.release[1] = requests[row.request].scope
        /\ row.request \in DOMAIN requests
        /\ row.pc \in {"owned", "complete"} => runs[row.release].status = "completed"
        /\ Stands(row, row.release, runs[row.release], imported[row.release])
    BY <1>2, <1>4, <2>1, <2>5
  <2> QED
    BY <1>1, <1>2, <2>1, <2>2, <2>4, <2>6, <2>7, <2>8, AvdbQuiet
<1> QED
  BY <1>3, <1>4 DEF Avdb!Fetch, Avdb!Request

\* What a consumer knows that is at a step on a run.
LEMMA AvdbAtRun ==
  ASSUME AvdbInv, NEW w \in Workers, OnRun(consumers[w]), NEW r, r = consumers[w].release
  PROVE  /\ r \in Releases /\ r = Avdb!Release(w) /\ runs[r] \in AvdbRun
         /\ imported[r] \in SUBSET (Nat \X Nat)
         /\ imported' = imported => imported' = [imported EXCEPT ![r] = imported[r]]
         /\ runs' = runs => runs' = [runs EXCEPT ![r] = runs[r]]
         /\ RunRight(r, runs[r], imported[r]) /\ Stands(consumers[w], r, runs[r], imported[r])
         /\ consumers[w] \in AvdbConsumer /\ Working(consumers[w])
         /\ Avdb!RunMine(w) <=> Owns(runs[r], consumers[w])
         /\ requests \in Seq(Avdb!RequestRow) /\ taken \in Nat
         /\ consumers[w].request \in DOMAIN requests
         /\ r[1] = requests[consumers[w].request].scope
<1>1. /\ AvdbTypes /\ consumers[w] \in AvdbConsumer /\ r \in Releases
      /\ r[1] = requests[consumers[w].request].scope
  BY AvdbRows DEF AvdbInv, Serves
<1>2. r = Avdb!Release(w) /\ Working(consumers[w]) /\ (Avdb!RunMine(w) <=> Owns(runs[r], consumers[w]))
  BY DEF Avdb!Release, Avdb!RunMine, Avdb!Run, Owns, OnRun, Working
<1>3. /\ runs[r] \in AvdbRun /\ imported[r] \in SUBSET (Nat \X Nat)
      /\ imported' = imported => imported' = [imported EXCEPT ![r] = imported[r]]
      /\ runs' = runs => runs' = [runs EXCEPT ![r] = runs[r]]
  BY <1>1 DEF AvdbTypes
<1>4. RunRight(r, runs[r], imported[r]) /\ Stands(consumers[w], r, runs[r], imported[r])
  BY <1>1 DEF AvdbInv
<1>5. requests \in Seq(Avdb!RequestRow) /\ taken \in Nat /\ consumers[w].request \in DOMAIN requests
  BY <1>1, <1>2 DEF AvdbInv, AvdbTypes, AvdbTokens
<1> QED
  BY <1>1, <1>2, <1>3, <1>4, <1>5

LEMMA AvdbStartRun ==
  ASSUME AvdbInv, NEW w \in Workers, Avdb!StartRun(w)
  PROVE  AvdbInv'
<1> DEFINE r == consumers[w].release
           me == consumers[w]
<1>1. /\ me.pc = "start" /\ OnRun(me) /\ UNCHANGED <<requests, taken, imported>>
  BY DEF Avdb!StartRun, Avdb!At, OnRun
<1>2. /\ r \in Releases /\ r = Avdb!Release(w) /\ runs[r] \in AvdbRun /\ me \in AvdbConsumer
      /\ imported[r] \in SUBSET (Nat \X Nat) /\ imported' = [imported EXCEPT ![r] = imported[r]]
      /\ RunRight(r, runs[r], imported[r]) /\ Working(me)
      /\ requests \in Seq(Avdb!RequestRow) /\ Avdb!Run(w) = runs[r]
  BY <1>1, AvdbAtRun DEF Avdb!Run
<1>3. CASE Avdb!RunTaken(runs[r])
  <2>1. /\ UNCHANGED runs
        /\ \/ Avdb!Go(w, "owned") /\ runs[r].status = "completed"
           \/ Avdb!Go(w, "fail")
    BY <1>2, <1>3 DEF Avdb!StartRun
  <2>2. {"owned", "fail"} \subseteq Avdb!Pc
    BY DEF Avdb!Pc
  <2> QED
    BY <1>1, <1>2, <2>1, <2>2, AvdbGoes
<1>4. CASE ~Avdb!RunTaken(runs[r])
  <2> DEFINE run == Avdb!Resumed(runs[r], me.token)
             row == [me EXCEPT !.pc = "asset", !.at = Avdb!Start, !.total = runs[r].total]
  <2>1. runs' = [runs EXCEPT ![r] = run] /\ consumers' = [consumers EXCEPT ![w] = row]
    BY <1>2, <1>4 DEF Avdb!StartRun
  <2>2. /\ run \in AvdbRun /\ run.owner = me.token /\ run.status = "running"
        /\ run.cursor = runs[r].cursor /\ run.total = runs[r].total /\ run.done = runs[r].done
    BY <1>2 DEF Avdb!Resumed, AvdbRun, AvdbConsumer, Avdb!RunStatus
  <2>3. /\ row \in AvdbConsumer /\ row.pc = "asset" /\ row.release = r
        /\ row.request = me.request /\ row.token = me.token /\ row.at = Avdb!Start
        /\ row.total = runs[r].total
    BY <1>2 DEF AvdbConsumer, AvdbRun, Avdb!Pc, Avdb!Start
  <2>4. runs[r].status # "completed"
    BY <1>4 DEF Avdb!RunTaken
  <2> HIDE DEF run, row
  <2>5. RunRight(r, run, imported[r])
    BY <1>2, <2>2 DEF RunRight, Reached
  <2>6. Stands(row, r, run, imported[r])
    <3>1. Avdb!AssetCount(r) \in Nat
      BY <1>2, RowsShape
    <3>2. AtAsset(r, run, row)
      BY <2>2, <2>3, <3>1 DEF AtAsset, Avdb!Start
    <3> QED
      BY <2>3, <3>2 DEF Stands
  <2>7. Working(row)
    BY <2>3 DEF Working
  <2> HIDE DEF r, me
  <2>8. OnRun(consumers[w]) /\ consumers[w].release = r /\ me = consumers[w]
    BY <1>1 DEF r, me
  <2> QED
    BY <1>1, <1>2, <2>1, <2>2, <2>3, <2>4, <2>5, <2>6, <2>7, <2>8, AvdbRunStep
<1> QED
  BY <1>3, <1>4

\* The run of a consumer at an asset.
LEMMA AssetsDone ==
  ASSUME NEW r \in Releases, NEW run \in AvdbRun, NEW c \in AvdbConsumer, NEW rowsIn,
         RunRight(r, run, rowsIn), AtAsset(r, run, c)
  PROVE  /\ Avdb!AssetCount(r) \in Nat /\ c.at[1] \in Nat
         /\ c.at[1] \in run.done =>
              c.at[1] <= Avdb!AssetCount(r) /\ 1 .. c.at[1] \subseteq run.done
         /\ c.at[1] \notin run.done =>
              /\ run.done = 1 .. c.at[1] - 1
              /\ \/ run.cursor[1] = c.at[1]
                 \/ run.cursor[1] < c.at[1]
                      /\ Avdb!RowsUpTo(r, run.cursor) = Avdb!RowsUpTo(r, <<c.at[1], 0>>)
<1> DEFINE a == c.at[1]
           n == Avdb!AssetCount(r)
<1>1. /\ n \in Nat /\ a \in Nat /\ a \in 1 .. n + 1 /\ 1 .. a - 1 \subseteq run.done
      /\ run.cursor[1] \in Nat
  BY RowsShape DEF AtAsset, AvdbRun
<1>2. PICK k \in 0 .. n : Reached(r, run, k)
  BY DEF RunRight
<1>3. /\ run.done = 1 .. k
      /\ \/ run.cursor[1] = k + 1
         \/ run.cursor[1] <= k /\ Avdb!RowsUpTo(r, run.cursor) = Avdb!RowsUpTo(r, <<k + 1, 0>>)
  BY <1>2 DEF Reached
<1> HIDE DEF a, n
<1>4. a \in run.done => a <= n /\ 1 .. a \subseteq run.done
  BY <1>1, <1>2, <1>3
<1>5. a \notin run.done => k = a - 1
  <2>1. a - 1 >= 1 => a - 1 \in 1 .. k
    BY <1>1, <1>2, <1>3
  <2> QED
    BY <1>1, <1>2, <1>3, <2>1
<1>6. k = a - 1 => k + 1 = a
  BY <1>1, <1>2
<1>7. a \notin run.done =>
        /\ run.done = 1 .. a - 1
        /\ \/ run.cursor[1] = a
           \/ run.cursor[1] < a /\ Avdb!RowsUpTo(r, run.cursor) = Avdb!RowsUpTo(r, <<a, 0>>)
  BY <1>1, <1>2, <1>3, <1>5, <1>6
<1> QED
  BY <1>1, <1>4, <1>7 DEF a, n

LEMMA AvdbNextAsset ==
  ASSUME AvdbInv, NEW w \in Workers, Avdb!NextAsset(w)
  PROVE  AvdbInv'
<1> DEFINE r == consumers[w].release
           me == consumers[w]
           a == me.at[1]
<1>1. /\ me.pc = "asset" /\ OnRun(me) /\ UNCHANGED <<requests, taken, imported>>
  BY DEF Avdb!NextAsset, Avdb!At, OnRun
<1>2. /\ r \in Releases /\ r = Avdb!Release(w) /\ runs[r] \in AvdbRun /\ me \in AvdbConsumer
      /\ imported[r] \in SUBSET (Nat \X Nat) /\ imported' = [imported EXCEPT ![r] = imported[r]]
      /\ runs' = runs => runs' = [runs EXCEPT ![r] = runs[r]]
      /\ RunRight(r, runs[r], imported[r]) /\ Working(me)
      /\ requests \in Seq(Avdb!RequestRow) /\ Avdb!Run(w) = runs[r]
      /\ Avdb!RunMine(w) <=> Owns(runs[r], me)
      /\ Stands(me, r, runs[r], imported[r])
  BY <1>1, AvdbAtRun DEF Avdb!Run
<1>3. CASE ~Avdb!RunMine(w)
  <2>1. UNCHANGED runs /\ Avdb!Go(w, "fail") /\ "fail" \in Avdb!Pc
    BY <1>3 DEF Avdb!NextAsset, Avdb!Pc
  <2> QED
    BY <1>1, <1>2, <2>1, AvdbGoes
<1>4. ASSUME Avdb!RunMine(w) PROVE AtAsset(r, runs[r], me)
  BY <1>1, <1>2, <1>4 DEF Stands
<1>5. ASSUME Avdb!RunMine(w)
      PROVE  /\ Avdb!AssetCount(r) \in Nat /\ a \in Nat
             /\ a \in runs[r].done =>
                  a <= Avdb!AssetCount(r) /\ 1 .. a \subseteq runs[r].done
             /\ a \notin runs[r].done =>
                  /\ runs[r].done = 1 .. a - 1
                  /\ \/ runs[r].cursor[1] = a
                     \/ runs[r].cursor[1] < a
                          /\ Avdb!RowsUpTo(r, runs[r].cursor) = Avdb!RowsUpTo(r, <<a, 0>>)
  <2> HIDE DEF r, me
  <2>1. /\ r \in Releases /\ runs[r] \in AvdbRun /\ me \in AvdbConsumer
        /\ RunRight(r, runs[r], imported[r]) /\ AtAsset(r, runs[r], me)
    BY <1>2, <1>4, <1>5
  <2> QED
    BY <2>1, AssetsDone
<1>6. /\ OnRun(consumers[w]) /\ consumers[w].release = r /\ me = consumers[w]
  BY <1>1
<1>7. ASSUME Avdb!RunMine(w), NEW row \in AvdbConsumer, row.release = r,
             row.request = me.request, row.token = me.token, row.pc \in {"asset", "batch"},
             consumers' = [consumers EXCEPT ![w] = row], UNCHANGED runs,
             Stands(row, r, runs[r], imported[r])
      PROVE  AvdbInv'
  <2> HIDE DEF r, me
  <2>1. Working(row) /\ row.pc \notin {"owned", "complete"}
    BY <1>7 DEF Working
  <2> QED
    BY <1>1, <1>2, <1>6, <1>7, <2>1, AvdbRunStep
<1>8. CASE Avdb!RunMine(w) /\ a > Avdb!AssetCount(r)
  <2> DEFINE run == [runs[r] EXCEPT !.status = "completed", !.owner = 0, !.live = FALSE]
             row == [me EXCEPT !.pc = "owned"]
  <2>0. Avdb!CompleteRun(w)
    BY <1>2, <1>5, <1>8 DEF Avdb!NextAsset
  <2>1. runs' = [runs EXCEPT ![r] = run] /\ consumers' = [consumers EXCEPT ![w] = row]
    BY <1>2, <2>0 DEF Avdb!CompleteRun, Avdb!Go
  <2>2. /\ run \in AvdbRun /\ run.status = "completed"
        /\ run.cursor = runs[r].cursor /\ run.total = runs[r].total /\ run.done = runs[r].done
    BY <1>2 DEF AvdbRun, Avdb!RunStatus
  <2>3. /\ row \in AvdbConsumer /\ row.pc = "owned" /\ row.release = r
        /\ row.request = me.request /\ row.token = me.token
    BY <1>2 DEF AvdbConsumer, Avdb!Pc
  <2> HIDE DEF run, row
  <2>4. a \notin runs[r].done
    BY <1>5, <1>8
  <2>5. a = Avdb!AssetCount(r) + 1 /\ a - 1 = Avdb!AssetCount(r) /\ Avdb!AssetCount(r) \in Nat
    BY <1>4, <1>5, <1>8 DEF AtAsset
  <2>6. runs[r].done = 1 .. Avdb!AssetCount(r)
    BY <1>5, <1>8, <2>4, <2>5
  <2>7. imported[r] = Avdb!RowsOf(r)
    <3>1. Avdb!RowsUpTo(r, runs[r].cursor) \subseteq imported[r] /\ imported[r] \subseteq Avdb!RowsOf(r)
          /\ runs[r].cursor \in Avdb!RowsOf(r) \union {Avdb!Start}
      BY <1>2 DEF RunRight
    <3>2. CASE Avdb!RowsUpTo(r, runs[r].cursor) = Avdb!RowsUpTo(r, <<a, 0>>)
      BY <1>2, <2>5, <3>1, <3>2, RowsAll
    <3>3. CASE runs[r].cursor[1] = a
      <4>1. runs[r].cursor \notin Avdb!RowsOf(r)
        BY <1>2, <2>5, <3>3, RowsShape
      <4>2. runs[r].cursor = Avdb!Start /\ Avdb!Start[1] = 1
        BY <3>1, <4>1 DEF Avdb!Start
      <4>3. Avdb!AssetCount(r) = 0
        BY <2>5, <3>3, <4>2
      <4>4. Avdb!RowsOf(r) = {}
        BY <1>2, <4>3, RowsShape
      <4> QED
        BY <3>1, <4>4
    <3> QED
      BY <1>5, <1>8, <2>4, <3>2, <3>3
  <2>8. RunRight(r, run, imported[r])
    BY <1>2, <2>2, <2>6, <2>7 DEF RunRight, Reached
  <2>9. Stands(row, r, run, imported[r])
    BY <2>3 DEF Stands
  <2>10. Working(row)
    BY <2>3 DEF Working
  <2> HIDE DEF r, me, a
  <2> QED
    BY <1>1, <1>2, <1>6, <2>1, <2>2, <2>3, <2>8, <2>9, <2>10, AvdbRunStep
<1>9. CASE Avdb!RunMine(w) /\ a \in runs[r].done
  <2> DEFINE row == [me EXCEPT !.at = <<a + 1, 0>>]
  <2>1. consumers' = [consumers EXCEPT ![w] = row] /\ UNCHANGED runs
    BY <1>2, <1>5, <1>9 DEF Avdb!NextAsset
  <2>2. /\ row \in AvdbConsumer /\ row.pc = "asset" /\ row.release = r
        /\ row.request = me.request /\ row.token = me.token
        /\ row.at[1] = a + 1 /\ row.total = me.total
    <3>1. a \in Nat /\ <<a + 1, 0>> \in Nat \X Nat
      BY <1>5, <1>9
    <3> QED
      BY <1>1, <1>2, <3>1 DEF AvdbConsumer
  <2> HIDE DEF row
  <2>3. AtAsset(r, runs[r], row)
    <3>1. a + 1 \in 1 .. Avdb!AssetCount(r) + 1 /\ a + 1 - 1 = a
      BY <1>5, <1>9
    <3> QED
      BY <1>4, <1>5, <1>9, <2>2, <3>1 DEF AtAsset
  <2>4. Stands(row, r, runs[r], imported[r])
    BY <2>2, <2>3 DEF Stands
  <2> HIDE DEF r, me, a
  <2> QED
    BY <1>7, <1>9, <2>1, <2>2, <2>4
<1>10. CASE Avdb!RunMine(w) /\ ~(a > Avdb!AssetCount(r)) /\ a \notin runs[r].done
  <2> DEFINE offset == IF runs[r].cursor[1] = a THEN runs[r].cursor[2] ELSE 0
             row == [me EXCEPT !.pc = "batch", !.at = <<a, offset>>]
  <2>1. consumers' = [consumers EXCEPT ![w] = row] /\ UNCHANGED runs
    <3>1. /\ consumers' = [consumers EXCEPT ![w].pc = "batch", ![w].at = <<a, offset>>]
          /\ UNCHANGED runs
      BY <1>2, <1>10 DEF Avdb!NextAsset
    <3> HIDE DEF offset
    <3> QED
      BY <3>1
  <2>2. a \in 1 .. Avdb!AssetCount(r) /\ Assets[r][a] \in Nat
    <3>1. a \in 1 .. Avdb!AssetCount(r)
      BY <1>4, <1>5, <1>10 DEF AtAsset
    <3> QED
      BY <1>2, <3>1, RowsShape
  <2>3. /\ offset \in 0 .. Assets[r][a] /\ runs[r].cursor[1] <= a
        /\ Avdb!RowsUpTo(r, <<a, offset>>) = Avdb!RowsUpTo(r, runs[r].cursor)
    <3>1. CASE runs[r].cursor[1] = a
      <4>1. runs[r].cursor = <<a, offset>> /\ offset \in Nat /\ a <= a
        <5>1. runs[r].cursor \in Nat \X Nat
          BY <1>2 DEF AvdbRun
        <5> QED
          BY <1>5, <1>10, <3>1, <5>1
      <4>2. CASE runs[r].cursor \in Avdb!RowsOf(r)
        <5>1. offset \in 1 .. Assets[r][a] /\ Avdb!AssetCount(r) \in Nat
          BY <1>2, <4>1, <4>2, RowsShape
        <5>2. offset \in 0 .. Assets[r][a] /\ runs[r].cursor[1] <= a
          BY <2>2, <3>1, <4>1, <5>1
        <5> QED
          BY <4>1, <5>2
      <4>3. CASE runs[r].cursor = Avdb!Start
        BY <2>2, <3>1, <4>1, <4>3 DEF Avdb!Start
      <4> QED
        BY <1>2, <4>2, <4>3 DEF RunRight
    <3>2. CASE runs[r].cursor[1] # a
      <4>1. offset = 0 /\ runs[r].cursor[1] < a
            /\ Avdb!RowsUpTo(r, runs[r].cursor) = Avdb!RowsUpTo(r, <<a, 0>>)
        BY <1>5, <1>10, <3>2
      <4>2. runs[r].cursor[1] \in Nat
        BY <1>2 DEF AvdbRun
      <4> QED
        BY <1>5, <1>10, <2>2, <4>1, <4>2
    <3> QED
      BY <3>1, <3>2
  <2> HIDE DEF offset
  <2>4. /\ row \in AvdbConsumer /\ row.pc = "batch" /\ row.release = r
        /\ row.request = me.request /\ row.token = me.token
        /\ row.at = <<a, offset>> /\ row.total = me.total
    <3>1. offset \in Nat /\ <<a, offset>> \in Nat \X Nat
      BY <1>5, <1>10, <2>2, <2>3
    <3> QED
      BY <1>2, <3>1 DEF AvdbConsumer, Avdb!Pc
  <2> HIDE DEF row
  <2>5. AtBatch(r, runs[r], row)
    <3>1. me.total = runs[r].total /\ runs[r].done = 1 .. a - 1
      BY <1>4, <1>5, <1>10 DEF AtAsset
    <3> QED
      BY <2>2, <2>3, <2>4, <3>1 DEF AtBatch
  <2>6. Stands(row, r, runs[r], imported[r])
    BY <2>4, <2>5 DEF Stands
  <2> HIDE DEF r, me, a
  <2> QED
    BY <1>7, <1>10, <2>1, <2>4, <2>6
<1> QED
  BY <1>3, <1>8, <1>9, <1>10

LEMMA AvdbImportBatch ==
  ASSUME AvdbInv, NEW w \in Workers, Avdb!ImportBatch(w)
  PROVE  AvdbInv'
<1> DEFINE r == consumers[w].release
           me == consumers[w]
           next == <<me.at[1], me.at[2] + 1>>
           rowsIn == imported[r] \union {next}
           row == [me EXCEPT !.pc = "advance", !.at = next, !.total = @ + 1]
<1>1. /\ me.pc = "batch" /\ OnRun(me) /\ UNCHANGED <<requests, taken, runs>>
  BY DEF Avdb!ImportBatch, Avdb!At, OnRun
<1>2. /\ r \in Releases /\ r = Avdb!Release(w) /\ runs[r] \in AvdbRun /\ me \in AvdbConsumer
      /\ imported[r] \in SUBSET (Nat \X Nat) /\ runs' = [runs EXCEPT ![r] = runs[r]]
      /\ RunRight(r, runs[r], imported[r]) /\ Working(me)
      /\ Stands(me, r, runs[r], imported[r])
  BY <1>1, AvdbAtRun
<1>3. /\ me.at[1] \in Nat /\ me.at[2] \in Nat /\ me.at = <<me.at[1], me.at[2]>> /\ me.total \in Nat
  BY AvdbRows DEF AvdbInv
<1>4. /\ next \in Avdb!RowsOf(r) /\ imported' = [imported EXCEPT ![r] = rowsIn]
      /\ consumers' = [consumers EXCEPT ![w] = row]
  BY <1>2 DEF Avdb!ImportBatch
<1>5. next \in Nat \X Nat /\ next[1] = me.at[1]
  BY <1>3
<1>6. rowsIn \in SUBSET (Nat \X Nat) /\ imported[r] \subseteq rowsIn /\ next \in rowsIn
  BY <1>2, <1>5
<1>7. /\ row \in AvdbConsumer /\ row.pc = "advance" /\ row.release = r
      /\ row.request = me.request /\ row.token = me.token
      /\ row.at = next /\ row.total = me.total + 1
  <2>1. PICK n : n = next
    OBVIOUS
  <2>2. PICK total : total = me.total + 1
    OBVIOUS
  <2>3. total \in Nat /\ n \in Nat \X Nat /\ "advance" \in Avdb!Pc
    BY <1>3, <1>5, <2>1, <2>2 DEF Avdb!Pc
  <2>4. row = [me EXCEPT !.pc = "advance", !.at = n, !.total = total]
    BY <2>1, <2>2
  <2> HIDE DEF row, next
  <2> QED
    BY <1>2, <2>1, <2>2, <2>3, <2>4 DEF AvdbConsumer
<1> HIDE DEF row
<1>8. RunRight(r, runs[r], rowsIn)
  BY <1>2, <1>4 DEF RunRight
<1>9. Stands(row, r, runs[r], rowsIn)
  <2>1. ASSUME Owns(runs[r], row) PROVE AtAdvance(r, runs[r], row, rowsIn)
    <3>1. AtBatch(r, runs[r], me)
      BY <1>1, <1>2, <1>7, <2>1 DEF Stands, Owns
    <3>2. /\ next \notin Avdb!RowsUpTo(r, <<me.at[1], me.at[2]>>)
          /\ Avdb!RowsUpTo(r, next) = Avdb!RowsUpTo(r, <<me.at[1], me.at[2]>>) \union {next}
      <4> PICK a \in Nat, n \in Nat : a = me.at[1] /\ n = me.at[2]
        BY <1>3
      <4>1. next = <<a, n + 1>> /\ <<a, n + 1>> \in Avdb!RowsOf(r)
        BY <1>4
      <4> QED
        BY <1>2, <4>1, RowsNext
    <3>3. Avdb!RowsUpTo(r, <<me.at[1], me.at[2]>>) = Avdb!RowsUpTo(r, runs[r].cursor)
      BY <1>3, <3>1 DEF AtBatch
    <3>4. runs[r].done = 1 .. next[1] - 1 /\ me.total = runs[r].total
      BY <1>5, <3>1 DEF AtBatch
    <3> HIDE DEF next, rowsIn, r, me
    <3> QED
      BY <1>4, <1>6, <1>7, <3>2, <3>3, <3>4 DEF AtAdvance
  <2> QED
    BY <1>7, <2>1 DEF Stands
<1>10. Working(row) /\ row.pc \notin {"owned", "complete"}
  BY <1>7 DEF Working
<1>11. /\ OnRun(consumers[w]) /\ consumers[w].release = r /\ me = consumers[w]
  BY <1>1
<1> HIDE DEF r, me, rowsIn, next
<1> QED
  BY <1>1, <1>2, <1>4, <1>6, <1>7, <1>8, <1>9, <1>10, <1>11, AvdbRunStep

LEMMA AvdbAssetImported ==
  ASSUME AvdbInv, NEW w \in Workers, Avdb!AssetImported(w)
  PROVE  AvdbInv'
<1> DEFINE r == consumers[w].release
           me == consumers[w]
           a == me.at[1]
           run == [runs[r] EXCEPT !.done = @ \union {a}]
           row == [me EXCEPT !.pc = "asset", !.at = <<a + 1, 0>>]
<1>1. /\ me.pc = "batch" /\ OnRun(me) /\ UNCHANGED <<requests, taken, imported>>
  BY DEF Avdb!AssetImported, Avdb!At, OnRun
<1>2. /\ r \in Releases /\ r = Avdb!Release(w) /\ runs[r] \in AvdbRun /\ me \in AvdbConsumer
      /\ imported[r] \in SUBSET (Nat \X Nat) /\ imported' = [imported EXCEPT ![r] = imported[r]]
      /\ RunRight(r, runs[r], imported[r]) /\ Working(me)
      /\ Stands(me, r, runs[r], imported[r])
      /\ Avdb!RunMine(w) <=> Owns(runs[r], me)
      /\ requests \in Seq(Avdb!RequestRow)
  BY <1>1, AvdbAtRun
<1>3. CASE ~Avdb!RunMine(w)
  <2>1. UNCHANGED runs /\ Avdb!Go(w, "fail") /\ "fail" \in Avdb!Pc
    BY <1>3 DEF Avdb!AssetImported, Avdb!Pc
  <2> QED
    BY <1>1, <1>2, <2>1, AvdbGoes
<1>4. CASE Avdb!RunMine(w)
  <2>1. /\ runs' = [runs EXCEPT ![r] = run] /\ consumers' = [consumers EXCEPT ![w] = row]
        /\ <<me.at[1], me.at[2] + 1>> \notin Avdb!RowsOf(r)
    BY <1>2, <1>4 DEF Avdb!AssetImported
  <2>2. a \in Nat /\ me.at[2] \in Nat /\ me.at = <<a, me.at[2]>> /\ <<a + 1, 0>> \in Nat \X Nat
    BY AvdbRows DEF AvdbInv
  <2>3. AtBatch(r, runs[r], me) /\ runs[r].status = "running"
    BY <1>1, <1>2, <1>4 DEF Stands, Owns
  <2>4. /\ a \in 1 .. Avdb!AssetCount(r) /\ runs[r].done = 1 .. a - 1 /\ runs[r].cursor[1] <= a
        /\ Avdb!RowsUpTo(r, <<a, me.at[2]>>) = Avdb!RowsUpTo(r, runs[r].cursor)
        /\ me.total = runs[r].total
    BY <2>2, <2>3 DEF AtBatch
  <2>5. Avdb!RowsUpTo(r, <<a, me.at[2]>>) = Avdb!RowsUpTo(r, <<a + 1, 0>>)
    BY <1>2, <2>1, <2>2, <2>4, RowsEnd
  <2>6. /\ run \in AvdbRun /\ run.done = 1 .. a /\ run.status = runs[r].status
        /\ run.owner = runs[r].owner /\ run.live = runs[r].live
        /\ run.cursor = runs[r].cursor /\ run.total = runs[r].total
    <3>1. (1 .. a - 1) \union {a} = 1 .. a
      BY <2>2, <2>4
    <3> QED
      BY <1>2, <2>2, <2>4, <3>1 DEF AvdbRun
  <2>7. /\ row \in AvdbConsumer /\ row.pc = "asset" /\ row.release = r
        /\ row.request = me.request /\ row.token = me.token
        /\ row.at = <<a + 1, 0>> /\ row.total = me.total
    BY <1>2, <2>2 DEF AvdbConsumer, Avdb!Pc
  <2> HIDE DEF run, row
  <2>8. Avdb!AssetCount(r) \in Nat
    BY <1>2, RowsShape
  <2>9. RunRight(r, run, imported[r])
    <3>1. Reached(r, run, a) /\ a \in 0 .. Avdb!AssetCount(r)
      BY <2>2, <2>4, <2>5, <2>6, <2>8 DEF Reached
    <3> QED
      BY <1>2, <2>3, <2>6, <3>1 DEF RunRight
  <2>10. Stands(row, r, run, imported[r])
    <3>1. a + 1 \in 1 .. Avdb!AssetCount(r) + 1 /\ a + 1 - 1 = a
      BY <2>2, <2>4, <2>8
    <3>2. AtAsset(r, run, row)
      BY <2>4, <2>6, <2>7, <3>1 DEF AtAsset
    <3> QED
      BY <2>7, <3>2 DEF Stands
  <2>11. Working(row) /\ row.pc \notin {"owned", "complete"} /\ run.owner = me.token
    BY <1>2, <1>4, <2>6, <2>7 DEF Working, Owns
  <2>12. OnRun(consumers[w]) /\ consumers[w].release = r /\ me = consumers[w]
         /\ (runs[r].status = "completed" => run.status = "completed")
    BY <1>1, <2>6
  <2> HIDE DEF r, me, a
  <2> QED
    BY <1>1, <1>2, <2>1, <2>6, <2>7, <2>9, <2>10, <2>11, <2>12, AvdbRunStep
<1> QED
  BY <1>3, <1>4

LEMMA AvdbAdvance ==
  ASSUME AvdbInv, NEW w \in Workers, Avdb!Advance(w)
  PROVE  AvdbInv'
<1> DEFINE r == consumers[w].release
           me == consumers[w]
           run == [runs[r] EXCEPT !.cursor = me.at, !.total = me.total]
           row == [me EXCEPT !.pc = "batch"]
<1>1. /\ me.pc = "advance" /\ OnRun(me) /\ UNCHANGED <<requests, taken, imported>>
  BY DEF Avdb!Advance, Avdb!At, OnRun
<1>2. /\ r \in Releases /\ r = Avdb!Release(w) /\ runs[r] \in AvdbRun /\ me \in AvdbConsumer
      /\ imported[r] \in SUBSET (Nat \X Nat) /\ imported' = [imported EXCEPT ![r] = imported[r]]
      /\ RunRight(r, runs[r], imported[r]) /\ Working(me)
      /\ Stands(me, r, runs[r], imported[r])
      /\ Avdb!RunMine(w) <=> Owns(runs[r], me)
      /\ requests \in Seq(Avdb!RequestRow)
  BY <1>1, AvdbAtRun
<1>3. CASE ~Avdb!RunMine(w)
  <2>1. UNCHANGED runs /\ Avdb!Go(w, "fail") /\ "fail" \in Avdb!Pc
    BY <1>3 DEF Avdb!Advance, Avdb!Pc
  <2> QED
    BY <1>1, <1>2, <2>1, AvdbGoes
<1>4. CASE Avdb!RunMine(w)
  <2>1. /\ runs' = [runs EXCEPT ![r] = run] /\ consumers' = [consumers EXCEPT ![w] = row]
    BY <1>2, <1>4 DEF Avdb!Advance, Avdb!Go
  <2>2. me.at \in Nat \X Nat /\ me.total \in Nat
    BY AvdbRows DEF AvdbInv
  <2>3. AtAdvance(r, runs[r], me, imported[r]) /\ runs[r].status = "running"
    BY <1>1, <1>2, <1>4 DEF Stands, Owns
  <2>4. /\ me.at[1] \in 1 .. Avdb!AssetCount(r) /\ me.at[2] \in 1 .. Assets[r][me.at[1]]
        /\ Assets[r][me.at[1]] \in Nat /\ Avdb!AssetCount(r) \in Nat
    BY <1>2, <2>3, RowsShape DEF AtAdvance
  <2>5. /\ run \in AvdbRun /\ run.done = runs[r].done /\ run.status = runs[r].status
        /\ run.owner = runs[r].owner /\ run.live = runs[r].live
        /\ run.cursor = me.at /\ run.total = me.total
    BY <1>2, <2>2 DEF AvdbRun
  <2>6. /\ row \in AvdbConsumer /\ row.pc = "batch" /\ row.release = r
        /\ row.request = me.request /\ row.token = me.token
        /\ row.at = me.at /\ row.total = me.total
    BY <1>2 DEF AvdbConsumer, Avdb!Pc
  <2> HIDE DEF run, row
  <2>7. RunRight(r, run, imported[r])
    <3>1. me.at[1] - 1 \in 0 .. Avdb!AssetCount(r) /\ me.at[1] - 1 + 1 = me.at[1]
      BY <2>4
    <3>2. Reached(r, run, me.at[1] - 1)
      BY <2>3, <2>5, <3>1 DEF Reached, AtAdvance
    <3> DEFINE old == Avdb!RowsUpTo(r, runs[r].cursor)
    <3>3. /\ IsFiniteSet(old) /\ runs[r].total = Cardinality(old) /\ old \subseteq imported[r]
          /\ imported[r] \subseteq Avdb!RowsOf(r)
      BY <1>2 DEF RunRight
    <3>4. /\ Avdb!RowsUpTo(r, me.at) = old \union {me.at} /\ me.at \notin old
          /\ me.total = runs[r].total + 1 /\ me.at \in imported[r] /\ me.at \in Avdb!RowsOf(r)
      BY <2>3 DEF AtAdvance
    <3> HIDE DEF old
    <3>5. IsFiniteSet(old \union {me.at}) /\ Cardinality(old \union {me.at}) = Cardinality(old) + 1
      BY <3>3, <3>4, FS_AddElement
    <3> QED
      BY <2>3, <2>5, <3>1, <3>2, <3>3, <3>4, <3>5 DEF RunRight
  <2>8. Stands(row, r, run, imported[r])
    <3>1. AtBatch(r, run, row)
      BY <2>3, <2>4, <2>5, <2>6 DEF AtBatch, AtAdvance
    <3> QED
      BY <2>6, <3>1 DEF Stands
  <2>9. Working(row) /\ row.pc \notin {"owned", "complete"} /\ run.owner = me.token
    BY <1>2, <1>4, <2>5, <2>6 DEF Working, Owns
  <2>10. OnRun(consumers[w]) /\ consumers[w].release = r /\ me = consumers[w]
         /\ (runs[r].status = "completed" => run.status = "completed")
    BY <1>1, <2>5
  <2> HIDE DEF r, me
  <2> QED
    BY <1>1, <1>2, <2>1, <2>5, <2>6, <2>7, <2>8, <2>9, <2>10, AvdbRunStep
<1> QED
  BY <1>3, <1>4

LEMMA AvdbFailRun ==
  ASSUME AvdbInv, NEW w \in Workers, Avdb!FailRun(w)
  PROVE  AvdbInv'
<1> DEFINE r == consumers[w].release
           me == consumers[w]
           run == [runs[r] EXCEPT !.status = "failed", !.owner = 0, !.live = FALSE]
           row == [me EXCEPT !.pc = "fail"]
<1>1. /\ me.pc = "failrun" /\ OnRun(me) /\ UNCHANGED <<requests, taken, imported>>
      /\ Avdb!Go(w, "fail")
  BY DEF Avdb!FailRun, Avdb!At, OnRun
<1>2. /\ r \in Releases /\ r = Avdb!Release(w) /\ runs[r] \in AvdbRun /\ me \in AvdbConsumer
      /\ imported[r] \in SUBSET (Nat \X Nat) /\ imported' = [imported EXCEPT ![r] = imported[r]]
      /\ RunRight(r, runs[r], imported[r]) /\ Working(me)
      /\ Avdb!RunMine(w) <=> Owns(runs[r], me)
      /\ requests \in Seq(Avdb!RequestRow)
  BY <1>1, AvdbAtRun
<1>3. CASE ~Avdb!RunMine(w)
  <2>1. UNCHANGED runs /\ "fail" \in Avdb!Pc
    BY <1>3 DEF Avdb!FailRun, Avdb!Pc
  <2> QED
    BY <1>1, <1>2, <2>1, AvdbGoes
<1>4. CASE Avdb!RunMine(w)
  <2>1. /\ runs' = [runs EXCEPT ![r] = run] /\ consumers' = [consumers EXCEPT ![w] = row]
    BY <1>1, <1>2, <1>4 DEF Avdb!FailRun, Avdb!Go
  <2>2. /\ run \in AvdbRun /\ run.done = runs[r].done /\ run.status = "failed"
        /\ run.cursor = runs[r].cursor /\ run.total = runs[r].total
    BY <1>2 DEF AvdbRun, Avdb!RunStatus
  <2>3. /\ row \in AvdbConsumer /\ row.pc = "fail" /\ row.release = r
        /\ row.request = me.request /\ row.token = me.token
    BY <1>2 DEF AvdbConsumer, Avdb!Pc
  <2> HIDE DEF run, row
  <2>4. RunRight(r, run, imported[r])
    BY <1>2, <2>2 DEF RunRight, Reached
  <2>5. Stands(row, r, run, imported[r])
    BY <2>3 DEF Stands
  <2>6. Working(row) /\ row.pc \notin {"owned", "complete"} /\ run.status # "running"
    BY <2>2, <2>3 DEF Working
  <2>7. OnRun(consumers[w]) /\ consumers[w].release = r /\ me = consumers[w]
         /\ (runs[r].status = "completed" => run.status = "completed")
    BY <1>1, <1>2, <1>4 DEF Owns
  <2> HIDE DEF r, me
  <2> QED
    BY <1>1, <1>2, <2>1, <2>2, <2>3, <2>4, <2>5, <2>6, <2>7, AvdbRunStep
<1> QED
  BY <1>3, <1>4

LEMMA AvdbEnqueue ==
  ASSUME AvdbInv, NEW mode \in Modes, Avdb!EnqueueMode(mode)
  PROVE  AvdbInv'
<1> DEFINE row == [scope |-> mode, status |-> "queued", token |-> 0, live |-> FALSE]
           n == Len(requests)
<1>1. /\ requests' = Append(requests, row) /\ UNCHANGED <<taken, consumers, imported, runs>>
      /\ requests \in Seq(Avdb!RequestRow) /\ AvdbTypes
  BY DEF Avdb!EnqueueMode, Avdb!Enqueue, Avdb!rowVars, AvdbInv, AvdbTypes
<1>2. row \in Avdb!RequestRow /\ row.status = "queued"
  BY DEF Avdb!RequestRow, Avdb!RequestStatus
<1> HIDE DEF row
<1>3. /\ requests' \in Seq(Avdb!RequestRow) /\ DOMAIN requests' = 1 .. n + 1
      /\ requests'[n + 1] = row /\ DOMAIN requests = 1 .. n /\ n \in Nat
      /\ \A i \in DOMAIN requests : requests'[i] = requests[i]
  BY <1>1, <1>2
<1> HIDE DEF n
<1>4. \A i \in DOMAIN requests' : i \in DOMAIN requests \/ i = n + 1
  BY <1>3
<1>5. /\ DOMAIN requests \subseteq DOMAIN requests'
      /\ \A i \in DOMAIN requests' : requests'[i].status = "completed" =>
           i \in DOMAIN requests /\ requests[i].status = "completed"
      /\ \A i \in DOMAIN requests : requests'[i].scope = requests[i].scope
  BY <1>2, <1>3, <1>4
<1>6. runs' \in [Releases -> AvdbRun] /\ \A r \in Releases : runs'[r] = runs[r]
  BY <1>1 DEF AvdbTypes
<1> QED
  BY <1>1, <1>3, <1>5, <1>6, AvdbAlone

LEMMA AvdbLapse ==
  ASSUME AvdbInv, NEW i \in DOMAIN requests, Avdb!ClaimLapses(i)
  PROVE  AvdbInv'
<1> DEFINE row == [requests[i] EXCEPT !.live = FALSE]
<1>1. /\ requests' = [requests EXCEPT ![i] = row] /\ UNCHANGED <<taken, consumers, imported, runs>>
      /\ requests \in Seq(Avdb!RequestRow) /\ requests[i] \in Avdb!RequestRow /\ AvdbTypes
  BY AvdbRows DEF Avdb!ClaimLapses, Avdb!Lapse, Avdb!rowVars, AvdbInv, AvdbTypes
<1>2. row \in Avdb!RequestRow /\ row.status = requests[i].status /\ row.scope = requests[i].scope
  BY <1>1 DEF Avdb!RequestRow, Avdb!RequestStatus
<1> HIDE DEF row
<1>3. /\ requests' \in Seq(Avdb!RequestRow) /\ DOMAIN requests' = DOMAIN requests
      /\ requests'[i] = row /\ \A j \in DOMAIN requests \ {i} : requests'[j] = requests[j]
  BY <1>1, <1>2, AvdbRequestSet
<1>4. /\ DOMAIN requests \subseteq DOMAIN requests'
      /\ \A j \in DOMAIN requests' : requests'[j].status = "completed" =>
           j \in DOMAIN requests /\ requests[j].status = "completed"
      /\ \A j \in DOMAIN requests : requests'[j].scope = requests[j].scope
  BY <1>2, <1>3
<1>5. runs' \in [Releases -> AvdbRun] /\ \A r \in Releases : runs'[r] = runs[r]
  BY <1>1 DEF AvdbTypes
<1> QED
  BY <1>1, <1>3, <1>4, <1>5, AvdbAlone

LEMMA AvdbRunLapses ==
  ASSUME AvdbInv, NEW r \in Releases, Avdb!RunLapses(r)
  PROVE  AvdbInv'
<1> DEFINE run == [runs[r] EXCEPT !.live = FALSE]
<1>1. /\ runs' = [runs EXCEPT ![r] = run] /\ UNCHANGED <<requests, taken, consumers, imported>>
      /\ requests \in Seq(Avdb!RequestRow) /\ runs[r] \in AvdbRun /\ AvdbTypes
  BY AvdbRows DEF Avdb!RunLapses, AvdbInv, AvdbTypes
<1>2. /\ run \in AvdbRun /\ ~run.live /\ run.status = runs[r].status
      /\ run.cursor = runs[r].cursor /\ run.total = runs[r].total /\ run.done = runs[r].done
  BY <1>1 DEF AvdbRun
<1> HIDE DEF run
<1>3. /\ runs' \in [Releases -> AvdbRun] /\ runs'[r] = run
      /\ \A s \in Releases \ {r} : runs'[s] = runs[s]
  BY <1>1, <1>2 DEF AvdbTypes
<1>4. \A s \in Releases :
        \/ runs'[s] = runs[s]
        \/ /\ ~runs'[s].live /\ runs'[s].status = runs[s].status
           /\ runs'[s].cursor = runs[s].cursor /\ runs'[s].total = runs[s].total
           /\ runs'[s].done = runs[s].done
  BY <1>2, <1>3
<1> QED
  BY <1>1, <1>3, <1>4, AvdbAlone

LEMMA AvdbInit == Avdb!Init => AvdbInv
<1> SUFFICES ASSUME Avdb!Init PROVE AvdbInv
  OBVIOUS
<1> USE DEF Avdb!Init, Avdb!RequestsInit
<1>1. /\ Avdb!Idle \in AvdbConsumer /\ Avdb!Idle.pc = "idle" /\ Avdb!NoRun \in AvdbRun
  BY DEF Avdb!Idle, AvdbConsumer, Avdb!Pc, Avdb!Start, Avdb!NoRun, AvdbRun, Avdb!RunStatus
<1>2. AvdbTypes
  BY <1>1 DEF AvdbTypes
<1>3. AvdbTokens /\ AvdbCompletion
  BY <1>1 DEF AvdbTokens, AvdbCompletion, Working
<1>4. \A w \in Workers : ~OnRun(consumers[w])
  BY <1>1 DEF OnRun
<1>5. ASSUME NEW r \in Releases PROVE RunRight(r, runs[r], imported[r])
  <2>1. Avdb!RowsUpTo(r, Avdb!Start) = {} /\ IsFiniteSet({}) /\ Cardinality({}) = 0
    BY RowsAtStart, FS_EmptySet
  <2>2. 0 \in 0 .. Avdb!AssetCount(r)
    BY RowsShape
  <2>3. Reached(r, Avdb!NoRun, 0)
    BY DEF Reached, Avdb!NoRun, Avdb!Start
  <2>4. runs[r] = Avdb!NoRun /\ imported[r] = {}
    OBVIOUS
  <2>5. Avdb!NoRun.cursor = Avdb!Start /\ Avdb!NoRun.total = 0 /\ Avdb!NoRun.status = "none"
    BY DEF Avdb!NoRun
  <2> HIDE DEF Avdb!Init
  <2> QED
    BY <2>1, <2>2, <2>3, <2>4, <2>5 DEF RunRight
<1> QED
  BY <1>2, <1>3, <1>4, <1>5 DEF AvdbInv, Serves

LEMMA AvdbStep == AvdbInv /\ [Avdb!Next]_(Avdb!avdbVars) => AvdbInv'
<1> SUFFICES ASSUME AvdbInv, [Avdb!Next]_(Avdb!avdbVars) PROVE AvdbInv'
  OBVIOUS
<1>1. CASE Avdb!Next
  <2>1. CASE \E mode \in Modes : Avdb!EnqueueMode(mode)
    BY <2>1, AvdbEnqueue
  <2>2. ASSUME NEW w \in Workers, Avdb!Consume(w) PROVE AvdbInv'
    BY <2>2, AvdbGoSteps, AvdbEnds, AvdbClaim, AvdbFetch, AvdbStartRun, AvdbNextAsset,
       AvdbImportBatch, AvdbAssetImported, AvdbAdvance, AvdbFailRun DEF Avdb!Consume
  <2>3. ASSUME NEW w \in Workers, Avdb!BatchFails(w) \/ Avdb!HeartbeatFails(w) \/ Avdb!Crash(w)
        PROVE  AvdbInv'
    BY <2>3, AvdbGoSteps, AvdbEnds
  <2>4. CASE \E i \in DOMAIN requests : Avdb!ClaimLapses(i)
    BY <2>4, AvdbLapse
  <2>5. CASE \E r \in Releases : Avdb!RunLapses(r)
    BY <2>5, AvdbRunLapses
  <2> QED
    BY <1>1, <2>1, <2>2, <2>3, <2>4, <2>5 DEF Avdb!Next
<1>2. CASE UNCHANGED Avdb!avdbVars
  <2>1. UNCHANGED <<requests, taken, consumers, runs, imported>>
    BY <1>2 DEF Avdb!avdbVars
  <2>2. requests \in Seq(Avdb!RequestRow) /\ runs \in [Releases -> AvdbRun]
    BY DEF AvdbInv, AvdbTypes
  <2> QED
    BY <2>1, <2>2, AvdbAlone
<1> QED
  BY <1>1, <1>2

LEMMA AvdbCardinality == \A S : Avdb!Cardinality(S) = Cardinality(S)
BY DEF Avdb!Cardinality, Cardinality, Avdb!IsFiniteSet, IsFiniteSet

\* However often a run of the synchronization is interrupted, taken over and
\* continued, its counts are those of the rows up to its cursor, which are all
\* imported; a completed run imported every row of its release, and a completed
\* request has a completed run (sync_service.py, source_importer.py).
THEOREM NoRowIsSkipped == Spec => []NothingIsSkipped
<1> DEFINE Inv == part = "avdb" => AvdbInv
<1>1. Init => Inv
  BY AvdbInit DEF Init
<1>2. Inv /\ [Next]_vars => Inv'
  <2>1. ASSUME Inv, [Next]_vars, part' = "avdb" PROVE AvdbInv'
    <3>1. part = "avdb" /\ [Avdb!Next]_(Avdb!avdbVars)
      BY <2>1 DEF Next, OnlyAvdb, OnlyMetadata, vars, queueData, avdbData, Avdb!avdbVars
    <3> QED
      BY <2>1, <3>1, AvdbStep
  <2> QED
    BY <2>1
<1>3. Inv => NothingIsSkipped
  BY AvdbCardinality
     DEF AvdbInv, RunRight, AvdbCompletion, NothingIsSkipped, Avdb!NothingIsSkipped
<1> QED
  BY <1>1, <1>2, <1>3, PTL DEF Spec

-----------------------------------------------------------------------------
(* The metadata jobs: MetadataProofs has the argument.                     *)

MP == INSTANCE MetadataProofs

\* Metadata and MP are two instances of one specification, so what is proved of
\* the one holds of the other: once expanded, their definitions are the same.
LEMMA SameVariables == Metadata!vars = MP!vars /\ Metadata!queueVars = MP!queueVars
  BY DEF Metadata!vars, MP!vars, Metadata!queueVars, MP!queueVars

LEMMA SameInit == Metadata!Init <=> MP!Init
  BY DEF Metadata!Init, MP!Init, Metadata!QueueInit, MP!QueueInit, Metadata!NoClaim, MP!NoClaim

LEMMA SameNext == Metadata!Next <=> MP!Next
<1> USE DEF Metadata!Core, MP!Core, Metadata!ALL_STAGES, MP!ALL_STAGES,
        Metadata!Stages, MP!Stages, Metadata!Optional, MP!Optional,
        Metadata!Range, MP!Range, Metadata!PRIORITY_BY_REASON,
        MP!PRIORITY_BY_REASON, Metadata!Reasons, MP!Reasons,
        Metadata!Priority, MP!Priority, Metadata!Active, MP!Active,
        Metadata!StagePlan, MP!StagePlan, Metadata!NewJob, MP!NewJob,
        Metadata!HoldsClaim, MP!HoldsClaim, Metadata!Claimable, MP!Claimable,
        Metadata!ClaimedJob, MP!ClaimedJob, Metadata!FinishedJob,
        MP!FinishedJob, Metadata!FailedJob, MP!FailedJob,
        Metadata!PendingStages, MP!PendingStages, Metadata!Selected,
        MP!Selected, Metadata!HasWarnings, MP!HasWarnings,
        Metadata!LatestNonSkipped, MP!LatestNonSkipped,
        Metadata!RetryableStages, MP!RetryableStages, Metadata!queueVars,
        MP!queueVars, Metadata!JobIds, MP!JobIds, Metadata!Exists, MP!Exists,
        Metadata!Latest, MP!Latest, Metadata!NoActive, MP!NoActive,
        Metadata!ActiveJobs, MP!ActiveJobs, Metadata!LiveJobs, MP!LiveJobs,
        Metadata!RunningJobs, MP!RunningJobs, Metadata!SetJob, MP!SetJob,
        Metadata!CoreReadyOr, MP!CoreReadyOr, Metadata!AddJob, MP!AddJob,
        Metadata!Reprioritise, MP!Reprioritise, Metadata!Candidate,
        MP!Candidate, Metadata!InitialCount, MP!InitialCount,
        Metadata!Cardinality, MP!Cardinality, Metadata!IsFiniteSet,
        MP!IsFiniteSet, Metadata!SlotFree, MP!SlotFree, Metadata!ClaimNext,
        MP!ClaimNext, Metadata!FailJob, MP!FailJob, Metadata!StartStage,
        MP!StartStage, Metadata!FinishStage, MP!FinishStage,
        Metadata!CanComplete, MP!CanComplete, Metadata!Complete, MP!Complete,
        Metadata!ImportCore, MP!ImportCore, Metadata!NoClaim, MP!NoClaim,
        Metadata!Claim, MP!Claim, Metadata!Row, MP!Row, Metadata!Holds,
        MP!Holds, Metadata!Alive, MP!Alive, Metadata!Without, MP!Without,
        Metadata!Fault, MP!Fault, Metadata!Step, MP!Step, Metadata!Exit,
        MP!Exit, Metadata!Stage, MP!Stage, Metadata!At, MP!At,
        Metadata!Supervised, MP!Supervised
<1>1. Metadata!Request <=> MP!Request
  BY DEF Metadata!SeedInitial, MP!SeedInitial, Metadata!MarkInitialComplete,
     MP!MarkInitialComplete, Metadata!SeedHistory, MP!SeedHistory,
     Metadata!EnsureSearchPriority, MP!EnsureSearchPriority,
     Metadata!EnsureRankingPriority, MP!EnsureRankingPriority,
     Metadata!RescrapeMovie, MP!RescrapeMovie, Metadata!ManualRetry,
     MP!ManualRetry, Metadata!RetryEnrichment, MP!RetryEnrichment,
     Metadata!SetPaused, MP!SetPaused, Metadata!Request, MP!Request
<1>2. Metadata!Supervisor <=> MP!Supervisor
  BY DEF Metadata!ClaimSlot, MP!ClaimSlot, Metadata!Launch, MP!Launch,
     Metadata!LaunchFails, MP!LaunchFails, Metadata!Reap, MP!Reap,
     Metadata!TerminateTimedOut, MP!TerminateTimedOut, Metadata!RenewLost,
     MP!RenewLost, Metadata!Supervisor, MP!Supervisor
<1>3. (Metadata!WorkerDies <=> MP!WorkerDies) /\ (Metadata!Shutdown <=> MP!Shutdown)
  BY DEF Metadata!WorkerDies, MP!WorkerDies, Metadata!Shutdown, MP!Shutdown
<1>4. ASSUME NEW c PROVE Metadata!ChildStep(c) <=> MP!ChildStep(c)
  BY DEF Metadata!LoadClaim, MP!LoadClaim, Metadata!CheckCore, MP!CheckCore,
     Metadata!ChildStartStage, MP!ChildStartStage, Metadata!ExecuteCore,
     MP!ExecuteCore, Metadata!ExecuteFails, MP!ExecuteFails,
     Metadata!ExecuteOptional, MP!ExecuteOptional, Metadata!VerifyCore,
     MP!VerifyCore, Metadata!FinishGood, MP!FinishGood, Metadata!FinishBad,
     MP!FinishBad, Metadata!ChildFails, MP!ChildFails,
     Metadata!ChildCompletes, MP!ChildCompletes, Metadata!ChildRefused,
     MP!ChildRefused, Metadata!ChildStep, MP!ChildStep
<1>5. ASSUME NEW c
      PROVE  /\ Metadata!ChildKilled(c) <=> MP!ChildKilled(c)
             /\ Metadata!WatchdogKills(c) <=> MP!WatchdogKills(c)
  BY DEF Metadata!ChildKilled, MP!ChildKilled, Metadata!WatchdogKills,
     MP!WatchdogKills
<1>6. ASSUME NEW m, NEW a
      PROVE  /\ Metadata!ClaimExpires(m, a) <=> MP!ClaimExpires(m, a)
             /\ Metadata!HardTimeoutPasses(m, a) <=> MP!HardTimeoutPasses(m, a)
  BY DEF Metadata!ClaimExpires, MP!ClaimExpires, Metadata!HardTimeoutPasses,
     MP!HardTimeoutPasses
<1> QED
  BY <1>1, <1>2, <1>3, <1>4, <1>5, <1>6 DEF Metadata!Next, MP!Next,
     Metadata!Alive, MP!Alive, Metadata!JobIds, MP!JobIds

LEMMA SameTypes == Metadata!TypeOK <=> MP!TypeOK
  BY DEF Metadata!TypeOK, MP!TypeOK, Metadata!QueueTypeOK, MP!QueueTypeOK,
     Metadata!RowWellFormed, MP!RowWellFormed, Metadata!JobRow, MP!JobRow,
     Metadata!Stages, MP!Stages, Metadata!Optional, MP!Optional,
     Metadata!ALL_STAGES, MP!ALL_STAGES, Metadata!Core, MP!Core,
     Metadata!Reasons, MP!Reasons, Metadata!PRIORITY_BY_REASON,
     MP!PRIORITY_BY_REASON, Metadata!JobStatus, MP!JobStatus,
     Metadata!StageStatus, MP!StageStatus, Metadata!CatalogState,
     MP!CatalogState, Metadata!Claims, MP!Claims, Metadata!NoClaim,
     MP!NoClaim, Metadata!ChildState, MP!ChildState, Metadata!ChildPc,
     MP!ChildPc, Metadata!Range, MP!Range, Metadata!Cardinality,
     MP!Cardinality, Metadata!IsFiniteSet, MP!IsFiniteSet

LEMMA SameCatalog == Metadata!CatalogFollowsJobs <=> MP!CatalogFollowsJobs
  BY DEF Metadata!CatalogFollowsJobs, MP!CatalogFollowsJobs, Metadata!Latest,
     MP!Latest, Metadata!Core, MP!Core

\* The constants of the queue are those its theorems are about.
LEMMA JobConstants == MP!MetadataConstants
<1>1. MaxRunning \in Nat /\ MaxJobs \in Nat /\ MaxFaults \in Nat
  BY CatalogAssumption
<1>2. OPTIONAL_STAGES \in Seq(MP!Optional)
  BY CatalogAssumption DEF Metadata!Optional, MP!Optional, Metadata!Range, MP!Range
<1> QED
  BY <1>1, <1>2 DEF MP!MetadataConstants

\* What the rows, claims and children of a metadata run keep.
JobsInv == part = "metadata" => MP!MetadataInv

LEMMA JobsInvariant == Spec => []JobsInv
<1>1. Init => JobsInv
  BY SameInit, JobConstants, MP!MetadataStarts DEF Init, JobsInv
<1>2. JobsInv /\ [Next]_vars => JobsInv'
  <2> SUFFICES ASSUME JobsInv, [Next]_vars, part' = "metadata" PROVE MP!MetadataInv'
    BY DEF JobsInv
  <2>1. part = "metadata" /\ [Metadata!Next]_(Metadata!vars)
    BY DEF Next, OnlyAvdb, OnlyMetadata, vars, jobData, Metadata!vars, Metadata!queueVars
  <2>2. UNCHANGED Metadata!vars <=> UNCHANGED MP!vars
    BY DEF Metadata!vars, MP!vars, Metadata!queueVars, MP!queueVars
  <2>3. MP!MetadataInv /\ [MP!Next]_(MP!vars)
    BY <2>1, <2>2, SameNext DEF JobsInv
  <2> QED
    BY <2>3, JobConstants, MP!MetadataNext
<1> QED
  BY <1>1, <1>2, PTL DEF Spec

\* What the catalog says of a movie that is not ready is what its youngest job
\* does, and a job completes its core stage, or itself, only for a movie that is
\* ready (metadata_queue.py, core_import.py), over kills, late ticks and restarts.
THEOREM CatalogIsTruthful == Spec => []CatalogFollowsJobs
<1>1. MP!MetadataInv => MP!CatalogInv
  BY DEF MP!MetadataInv
<1>2. MP!CatalogInv => MP!CatalogFollowsJobs
  BY JobConstants, MP!CatalogFollows
<1>3. JobsInv => CatalogFollowsJobs
  BY <1>1, <1>2, SameCatalog DEF JobsInv, CatalogFollowsJobs
<1> QED
  BY <1>3, JobsInvariant, PTL

-----------------------------------------------------------------------------
(* The types of the three queues of leased requests.  A step adds a row or *)
(* writes one, and a consumer is idle, stays with its request or takes one *)
(* of the queue.                                                           *)

Rows(S) == [scope : S, status : {"queued", "claimed", "completed", "failed"},
            token : Nat, live : BOOLEAN]

\* The CHECK constraints of a row.
ClaimFits(row) == /\ (row.token # 0) = (row.status = "claimed")
                  /\ row.live => row.status = "claimed"

QueueTyped(bound) ==
  /\ Len(requests) <= bound /\ faults \in 0 .. MaxFaults
  /\ \A i \in DOMAIN requests : ClaimFits(requests[i])
  /\ \A w \in Workers : consumers[w].request \in 0 .. Len(requests)

RowsMove(bound) ==
  /\ Len(requests') = Len(requests) \/ (Len(requests) < bound /\ Len(requests') = Len(requests) + 1)
  /\ \A i \in DOMAIN requests' : \/ i \in DOMAIN requests /\ requests'[i] = requests[i]
                                 \/ ClaimFits(requests'[i])

FaultsMove == faults' = faults \/ (faults < MaxFaults /\ faults' = faults + 1)

ConsumersMove ==
  \A w \in Workers : \/ consumers'[w].request \in {0, consumers[w].request}
                     \/ consumers'[w].request \in DOMAIN requests

LEMMA QueueKept ==
  ASSUME NEW S, requests \in Seq(Rows(S)), requests' \in Seq(Rows(S)), NEW bound \in Nat,
         QueueTyped(bound), RowsMove(bound), FaultsMove, ConsumersMove
  PROVE  QueueTyped(bound)'
<1>1. /\ Len(requests) \in Nat /\ DOMAIN requests = 1 .. Len(requests)
      /\ Len(requests') \in Nat /\ DOMAIN requests' = 1 .. Len(requests')
  OBVIOUS
<1>2. Len(requests') <= bound /\ Len(requests) <= Len(requests')
  <2> PICK n \in Nat, more \in Nat : n = Len(requests) /\ more = Len(requests')
    BY <1>1
  <2>1. n <= bound /\ (more = n \/ (n < bound /\ more = n + 1))
    BY DEF QueueTyped, RowsMove
  <2>2. more <= bound /\ n <= more
    BY <2>1
  <2> QED
    BY <2>2
<1>3. MaxFaults \in Nat
  BY CatalogAssumption
<1>4. faults' \in 0 .. MaxFaults
  BY <1>3 DEF QueueTyped, FaultsMove
<1>5. \A i \in DOMAIN requests' : ClaimFits(requests'[i])
  BY DEF QueueTyped, RowsMove
<1>6. \A w \in Workers : consumers'[w].request \in 0 .. Len(requests')
  BY <1>1, <1>2 DEF QueueTyped, ConsumersMove
<1> QED
  BY <1>2, <1>4, <1>5, <1>6 DEF QueueTyped, ClaimFits

\* The ways a step changes the rows.
LEMMA RowsStay == requests' = requests => \A bound : RowsMove(bound)
  BY DEF RowsMove

LEMMA RowAdded ==
  ASSUME NEW S, requests \in Seq(Rows(S)), NEW bound, Len(requests) < bound,
         NEW row \in Rows(S), ClaimFits(row), requests' = Append(requests, row)
  PROVE  RowsMove(bound)
<1>1. /\ Len(requests') = Len(requests) + 1
      /\ \A i \in DOMAIN requests' : \/ i \in DOMAIN requests /\ requests'[i] = requests[i]
                                     \/ requests'[i] = row
  OBVIOUS
<1> QED
  BY <1>1 DEF RowsMove

LEMMA RowWritten ==
  ASSUME NEW S, requests \in Seq(Rows(S)), NEW bound, NEW i \in DOMAIN requests,
         NEW row \in Rows(S), ClaimFits(row), requests' = [requests EXCEPT ![i] = row]
  PROVE  RowsMove(bound)
<1>1. /\ Len(requests') = Len(requests) /\ DOMAIN requests' = DOMAIN requests
      /\ \A j \in DOMAIN requests : requests'[j] = IF j = i THEN row ELSE requests[j]
  OBVIOUS
<1> QED
  BY <1>1 DEF RowsMove

\* A claim, the end of a claim, and its lapse, as the rows they write.
LEMMA NewRowFits ==
  ASSUME NEW S, NEW s \in S
  PROVE  LET row == [scope |-> s, status |-> "queued", token |-> 0, live |-> FALSE]
         IN row \in Rows(S) /\ ClaimFits(row)
  BY DEF Rows, ClaimFits

LEMMA ClaimedFits ==
  ASSUME NEW S, NEW old \in Rows(S), taken \in Nat
  PROVE  LET row == [old EXCEPT !.status = "claimed", !.token = taken + 1, !.live = TRUE]
         IN row \in Rows(S) /\ ClaimFits(row)
<1> PICK row : row = [old EXCEPT !.status = "claimed", !.token = taken + 1, !.live = TRUE]
  OBVIOUS
<1> PICK token \in Nat : token = taken + 1
  OBVIOUS
<1>0. row = [old EXCEPT !.status = "claimed", !.token = token, !.live = TRUE]
  OBVIOUS
<1>1. row \in Rows(S) /\ row.status = "claimed" /\ row.token = token /\ row.live
  BY <1>0 DEF Rows
<1>2. row.token # 0
  BY <1>1
<1>3. ClaimFits(row)
  BY <1>1, <1>2 DEF ClaimFits
<1> QED
  BY <1>1, <1>3

LEMMA EndedFits ==
  ASSUME NEW S, NEW old \in Rows(S), NEW status \in {"completed", "failed"}
  PROVE  LET row == [old EXCEPT !.status = status, !.token = 0, !.live = FALSE]
         IN row \in Rows(S) /\ ClaimFits(row)
  BY DEF Rows, ClaimFits

LEMMA LapsedFits ==
  ASSUME NEW S, NEW old \in Rows(S), ClaimFits(old)
  PROVE  LET row == [old EXCEPT !.live = FALSE]
         IN row \in Rows(S) /\ ClaimFits(row)
  BY DEF Rows, ClaimFits

-----------------------------------------------------------------------------
\* The rankings.
RankTyped == QueueTyped(MaxRequests + 1)

LEMMA RankQueue ==
  ASSUME RankTypes, RankTyped
  PROVE  /\ requests \in Seq(Rows(Boards)) /\ MaxRequests + 1 \in Nat
         /\ \A s \in Boards : Ranking!Enqueue(s) => RowsMove(MaxRequests + 1)
         /\ \A i \in DOMAIN requests :
              /\ Ranking!ClaimNext(i) => RowsMove(MaxRequests + 1)
              /\ \A status \in {"completed", "failed"} :
                   Ranking!Finish(i, status) => RowsMove(MaxRequests + 1)
              /\ Ranking!Lapse(i, Ranking!Busy) => RowsMove(MaxRequests + 1) /\ FaultsMove
<1>1. requests \in Seq(Rows(Boards)) /\ taken \in Nat
  BY DEF RankTypes, Ranking!RequestRow, Ranking!RequestStatus, Rows
<1>2. \A i \in DOMAIN requests : requests[i] \in Rows(Boards) /\ ClaimFits(requests[i])
  BY <1>1 DEF RankTyped, QueueTyped
<1>3. ASSUME NEW s \in Boards, Ranking!Enqueue(s) PROVE RowsMove(MaxRequests + 1)
  <2> PICK row : row = [scope |-> s, status |-> "queued", token |-> 0, live |-> FALSE]
    OBVIOUS
  <2>1. Len(requests) < MaxRequests + 1 /\ requests' = Append(requests, row)
    BY <1>3 DEF Ranking!Enqueue
  <2>2. row \in Rows(Boards) /\ ClaimFits(row)
    BY NewRowFits
  <2> QED
    BY <1>1, <2>1, <2>2, RowAdded
<1>4. ASSUME NEW i \in DOMAIN requests, Ranking!ClaimNext(i) PROVE RowsMove(MaxRequests + 1)
  <2> PICK row : row = [requests[i] EXCEPT !.status = "claimed", !.token = taken + 1, !.live = TRUE]
    OBVIOUS
  <2>1. row \in Rows(Boards) /\ ClaimFits(row)
    BY <1>1, <1>2, ClaimedFits
  <2>2. requests' = [requests EXCEPT ![i] = row]
    BY <1>1, <1>4 DEF Ranking!ClaimNext
  <2> QED
    BY <1>1, <2>1, <2>2, RowWritten
<1>5. ASSUME NEW i \in DOMAIN requests, NEW status \in {"completed", "failed"},
             Ranking!Finish(i, status)
      PROVE  RowsMove(MaxRequests + 1)
  <2> PICK row : row = [requests[i] EXCEPT !.status = status, !.token = 0, !.live = FALSE]
    OBVIOUS
  <2>1. row \in Rows(Boards) /\ ClaimFits(row)
    BY <1>2, EndedFits
  <2>2. requests' = [requests EXCEPT ![i] = row]
    BY <1>1, <1>5 DEF Ranking!Finish
  <2> QED
    BY <1>1, <2>1, <2>2, RowWritten
<1>6. ASSUME NEW i \in DOMAIN requests, Ranking!Lapse(i, Ranking!Busy)
      PROVE  RowsMove(MaxRequests + 1) /\ FaultsMove
  <2> PICK row : row = [requests[i] EXCEPT !.live = FALSE]
    OBVIOUS
  <2>1. row \in Rows(Boards) /\ ClaimFits(row)
    BY <1>2, LapsedFits
  <2>2. requests' = [requests EXCEPT ![i] = row] /\ FaultsMove
    BY <1>1, <1>6 DEF Ranking!Lapse, Ranking!Fault, FaultsMove
  <2> QED
    BY <1>1, <2>1, <2>2, RowWritten
<1>7. MaxRequests + 1 \in Nat
  <2>1. MaxRequests \in Nat
    BY CatalogAssumption
  <2> QED
    BY <2>1
<1> QED
  BY <1>1, <1>3, <1>4, <1>5, <1>6, <1>7

LEMMA RankTypedInit == Ranking!Init => RankTyped
<1> SUFFICES ASSUME Ranking!Init PROVE RankTyped
  OBVIOUS
<1>1. MaxRequests \in Nat /\ MaxFaults \in Nat
  BY CatalogAssumption
<1>2. requests = <<>> /\ faults = 0 /\ \A w \in Workers : consumers[w].request = 0
  BY DEF Ranking!Init, Ranking!RequestsInit, Ranking!Idle
<1> QED
  BY <1>1, <1>2 DEF RankTyped, QueueTyped

LEMMA RankTypedNext ==
  RankInv /\ RankTyped /\ [Ranking!Next]_(Ranking!rankingVars) => RankTyped'
<1> SUFFICES ASSUME RankInv, RankTyped, [Ranking!Next]_(Ranking!rankingVars) PROVE RankTyped'
  OBVIOUS
<1> PICK bound : bound = MaxRequests + 1
  OBVIOUS
<1>0. RankTypes /\ requests \in Seq(Rows(Boards)) /\ bound \in Nat
  BY RankQueue DEF RankInv
<1>1. requests' \in Seq(Rows(Boards))
  <2>1. RankInv'
    BY RankStep
  <2>2. Rows(Boards) = Ranking!RequestRow
    BY DEF Rows, Ranking!RequestRow, Ranking!RequestStatus
  <2> QED
    BY <2>1, <2>2 DEF RankInv, RankTypes
<1>2. \A w \in Workers : consumers[w].pc # "idle" => consumers[w].request \in DOMAIN requests
  BY DEF RankInv, TokensDiffer
<1>3. consumers \in [Workers -> RankConsumer]
  BY <1>0 DEF RankTypes
<1>4. RowsMove(bound) /\ FaultsMove /\ ConsumersMove
  <2>1. ASSUME NEW s \in Boards, Ranking!EnqueueDueTarget(s)
        PROVE  RowsMove(bound) /\ FaultsMove /\ ConsumersMove
    BY <1>0, <2>1, RankQueue DEF Ranking!EnqueueDueTarget, FaultsMove, ConsumersMove
  <2>2. ASSUME NEW w \in Workers, NEW i \in DOMAIN requests, Ranking!Claim(w, i)
        PROVE  RowsMove(bound) /\ FaultsMove /\ ConsumersMove
    <3>1. RowsMove(bound) /\ FaultsMove
      BY <1>0, <2>2, RankQueue DEF Ranking!Claim, FaultsMove
    <3>2. ConsumersMove
      BY <1>3, <2>2 DEF Ranking!Claim, ConsumersMove
    <3> QED
      BY <3>1, <3>2
  <2>3. ASSUME NEW w \in Workers,
               \/ Ranking!Fetch(w) \/ Ranking!Prepare(w) \/ Ranking!Fail(w) \/ Ranking!Activate(w)
               \/ Ranking!ActivateFails(w) \/ Ranking!Abandon(w) \/ Ranking!Crash(w)
        PROVE  ConsumersMove /\ FaultsMove
    <3>1. FaultsMove
      BY <2>3 DEF Ranking!Fetch, Ranking!Prepare, Ranking!Fail, Ranking!Activate,
         Ranking!ActivateFails, Ranking!Abandon, Ranking!Crash, Ranking!Fault, FaultsMove
    <3>2. \/ consumers' = [consumers EXCEPT ![w] = Ranking!Idle]
          \/ \E pc : consumers' = [consumers EXCEPT ![w].pc = pc]
          \/ \E pc, n : consumers' = [consumers EXCEPT ![w].pc = pc, ![w].fetched = n]
      BY <2>3 DEF Ranking!Fetch, Ranking!Prepare, Ranking!Fail, Ranking!Activate,
         Ranking!ActivateFails, Ranking!Abandon, Ranking!Crash, Ranking!Go
    <3>3. ASSUME NEW v \in Workers PROVE consumers'[v].request \in {0, consumers[v].request}
      <4>1. consumers[v] \in RankConsumer
        BY <1>3
      <4>2. CASE consumers' = [consumers EXCEPT ![w] = Ranking!Idle]
        BY <1>3, <4>1, <4>2 DEF Ranking!Idle
      <4>3. ASSUME NEW pc, consumers' = [consumers EXCEPT ![w].pc = pc]
            PROVE  consumers'[v].request = consumers[v].request
        BY <1>3, <4>1, <4>3 DEF RankConsumer
      <4>4. ASSUME NEW pc, NEW n, consumers' = [consumers EXCEPT ![w].pc = pc, ![w].fetched = n]
            PROVE  consumers'[v].request = consumers[v].request
        BY <1>3, <4>1, <4>4 DEF RankConsumer
      <4> QED
        BY <3>2, <4>2, <4>3, <4>4
    <3> QED
      BY <3>1, <3>3 DEF ConsumersMove
  <2>4. ASSUME NEW w \in Workers,
               \/ Ranking!Fetch(w) \/ Ranking!Prepare(w)
               \/ Ranking!ActivateFails(w) \/ Ranking!Abandon(w) \/ Ranking!Crash(w)
        PROVE  RowsMove(bound)
    BY <2>4, RowsStay DEF Ranking!Fetch, Ranking!Prepare, Ranking!ActivateFails, Ranking!Abandon,
       Ranking!Crash
  <2>5. ASSUME NEW w \in Workers, Ranking!Fail(w) \/ Ranking!Activate(w) PROVE RowsMove(bound)
    <3>1. Ranking!Request(w) \in DOMAIN requests
      BY <1>2, <2>5 DEF Ranking!Fail, Ranking!Activate, Ranking!Request
    <3>2. \/ requests' = requests
          \/ Ranking!Finish(Ranking!Request(w), "failed")
          \/ Ranking!Finish(Ranking!Request(w), "completed")
      BY <2>5 DEF Ranking!Fail, Ranking!FailRequest, Ranking!Activate
    <3> QED
      BY <1>0, <3>1, <3>2, RankQueue, RowsStay
  <2>6. ASSUME NEW i \in DOMAIN requests, Ranking!ClaimLapses(i)
        PROVE  RowsMove(bound) /\ FaultsMove /\ ConsumersMove
    BY <1>0, <2>6, RankQueue DEF Ranking!ClaimLapses, ConsumersMove
  <2>7. CASE UNCHANGED Ranking!rankingVars
    BY <2>7, RowsStay DEF Ranking!rankingVars, FaultsMove, ConsumersMove
  <2> QED
    BY <2>1, <2>2, <2>3, <2>4, <2>5, <2>6, <2>7 DEF Ranking!Next, Ranking!Consume
<1>5. QueueTyped(bound)
  BY DEF RankTyped
<1>6. QueueTyped(bound)'
  BY <1>0, <1>1, <1>4, <1>5, QueueKept
<1> QED
  BY <1>6 DEF RankTyped, QueueTyped

LEMMA RankTypesHold == RankInv /\ RankTyped => Ranking!TypeOK
<1> SUFFICES ASSUME RankInv, RankTyped PROVE Ranking!TypeOK
  OBVIOUS
<1>1. RankTypes /\ MaxRequests \in Nat /\ Len(requests) \in Nat /\ Len(requests) <= MaxRequests + 1
  <2>1. MaxRequests \in Nat
    BY CatalogAssumption
  <2> QED
    BY <2>1 DEF RankInv, RankTypes, RankTyped, QueueTyped
<1>2. Ranking!RequestsTypeOK
  BY <1>1 DEF RankTypes, RankTyped, QueueTyped, Ranking!RequestsTypeOK
<1>3. Ranking!ClaimFieldsOK
  BY DEF RankTyped, QueueTyped, ClaimFits, Ranking!ClaimFieldsOK
<1>4. \A w \in Workers : consumers[w].request \in 0 .. MaxRequests + 1
  BY <1>1 DEF RankTyped, QueueTyped
<1>5. consumers \in [Workers -> [pc : Ranking!Pc, request : 0 .. MaxRequests + 1,
                                 token : Nat, fetched : Nat]]
  BY <1>1, <1>4 DEF RankTypes, RankConsumer
<1> QED
  BY <1>1, <1>2, <1>3, <1>5 DEF RankTypes, Ranking!TypeOK

-----------------------------------------------------------------------------
\* The provider snapshots.  What a consumer has still to do is the end of the
\* list of providers.
EndOf(s) == /\ Len(s) <= Len(Providers)
            /\ \A n \in 1 .. Len(s) : s[n] = Providers[Len(Providers) - Len(s) + n]

ProviderTyped == QueueTyped(MaxRequests) /\ \A w \in Workers : EndOf(consumers[w].todo)

LEMMA EndsAre ==
  /\ EndOf(<<>>) /\ EndOf(Providers)
  /\ \A s \in Seq(Provider!Names) : s # <<>> /\ EndOf(s) => EndOf(Tail(s))
<1>1. Providers \in Seq(Provider!Names) /\ Len(Providers) \in Nat
  BY ProviderOrder
<1>2. EndOf(<<>>) /\ EndOf(Providers)
  BY <1>1 DEF EndOf
<1>3. ASSUME NEW s \in Seq(Provider!Names), s # <<>>, EndOf(s) PROVE EndOf(Tail(s))
  <2> PICK rest : rest = Tail(s)
    OBVIOUS
  <2>1. /\ Len(s) \in Nat /\ Len(rest) \in Nat /\ Len(rest) = Len(s) - 1
        /\ \A n \in 1 .. Len(s) - 1 : rest[n] = s[n + 1]
    BY <1>3
  <2> PICK k \in Nat, m \in Nat, N \in Nat : k = Len(s) /\ m = Len(rest) /\ N = Len(Providers)
    BY <1>1, <2>1
  <2>2. k <= N /\ m = k - 1 /\ \A n \in 1 .. k : s[n] = Providers[(N - k) + n]
    BY <1>3, <2>1 DEF EndOf
  <2>3. ASSUME NEW n \in 1 .. m PROVE rest[n] = Providers[(N - m) + n]
    <3>0. n \in Nat /\ 1 <= n /\ n <= m /\ k = m + 1
      BY <2>2
    <3> PICK next \in Nat : next = n + 1
      BY <3>0
    <3>1. next \in 1 .. k /\ (N - k) + next = (N - m) + n /\ n \in 1 .. k - 1
      BY <3>0
    <3>2. rest[n] = s[next]
      BY <2>1, <3>1
    <3>3. s[next] = Providers[(N - k) + next]
      BY <2>2, <3>1
    <3> QED
      BY <3>1, <3>2, <3>3
  <2>4. m <= N
    BY <2>2
  <2> QED
    BY <2>3, <2>4 DEF EndOf
<1> QED
  BY <1>2, <1>3

LEMMA EndIsSuffix ==
  ASSUME NEW s \in Seq(Provider!Names), EndOf(s) PROVE Provider!IsSuffix(s, Providers)
<1>1. /\ Providers \in Seq(Provider!Names) /\ Len(Providers) \in Nat /\ Len(s) \in Nat
      /\ \A n \in 1 .. Len(s) : s[n] \in Provider!Names
      /\ \A n \in 1 .. Len(Providers) : Providers[n] \in Provider!Names
  BY ProviderOrder
<1> PICK k \in Nat, N \in Nat : k = Len(s) /\ N = Len(Providers)
  BY <1>1
<1>2. k <= N /\ \A n \in 1 .. k : s[n] = Providers[(N - k) + n]
  BY DEF EndOf
<1> PICK back : back = [i \in 1 .. k |-> s[(k - i) + 1]]
  OBVIOUS
<1> PICK all : all = [i \in 1 .. N |-> Providers[(N - i) + 1]]
  OBVIOUS
<1>3. back = Provider!Reverse(s) /\ all = Provider!Reverse(Providers)
  BY DEF Provider!Reverse
<1>4. \A i \in 1 .. k : (k - i) + 1 \in 1 .. k
  OBVIOUS
<1>5. \A i \in 1 .. N : (N - i) + 1 \in 1 .. N
  OBVIOUS
<1>6. back \in Seq(Provider!Names) /\ Len(back) = k
  BY <1>1, <1>4
<1>7. all \in Seq(Provider!Names) /\ Len(all) = N
  BY <1>1, <1>5
<1>8. \A i \in 1 .. k : back[i] = all[i]
  <2>1. ASSUME NEW i \in 1 .. k PROVE back[i] = all[i]
    <3>1. (k - i) + 1 \in 1 .. k /\ i \in 1 .. N /\ (N - k) + ((k - i) + 1) = (N - i) + 1
      BY <1>2
    <3>2. back[i] = s[(k - i) + 1] /\ all[i] = Providers[(N - i) + 1]
      BY <3>1
    <3>3. s[(k - i) + 1] = Providers[(N - k) + ((k - i) + 1)]
      BY <1>2, <3>1
    <3> QED
      BY <3>1, <3>2, <3>3
  <2> QED
    BY <2>1
<1>9. SubSeq(back, 1, k) = SubSeq(all, 1, k)
  <2>1. /\ SubSeq(back, 1, k) = [i \in 1 .. k |-> back[i]]
        /\ SubSeq(all, 1, k) = [i \in 1 .. k |-> all[i]]
    <3>1. SubSeq(back, 1, k) \in Seq(Provider!Names) /\ Len(SubSeq(back, 1, k)) = k
          /\ \A i \in 1 .. k : SubSeq(back, 1, k)[i] = back[i]
      BY <1>2, <1>6
    <3>2. SubSeq(all, 1, k) \in Seq(Provider!Names) /\ Len(SubSeq(all, 1, k)) = k
          /\ \A i \in 1 .. k : SubSeq(all, 1, k)[i] = all[i]
      BY <1>2, <1>7
    <3> QED
      BY <3>1, <3>2
  <2> PICK one : one = SubSeq(back, 1, k)
    OBVIOUS
  <2> PICK two : two = SubSeq(all, 1, k)
    OBVIOUS
  <2>2. one = [i \in 1 .. k |-> back[i]] /\ two = [i \in 1 .. k |-> all[i]]
    BY <2>1
  <2>3. one = two
    BY <1>8, <2>2
  <2> QED
    BY <2>3
<1> QED
  BY <1>2, <1>3, <1>6, <1>7, <1>9 DEF Provider!IsSuffix, Provider!IsPrefix

LEMMA ProviderRowsMove ==
  ASSUME ProviderTypes, ProviderTyped
  PROVE  /\ requests \in Seq(Rows(Weekly)) /\ MaxRequests \in Nat
         /\ \A s \in Weekly : Provider!Enqueue(s) => RowsMove(MaxRequests)
         /\ \A i \in DOMAIN requests :
              /\ Provider!ClaimNext(i) => RowsMove(MaxRequests)
              /\ \A status \in {"completed", "failed"} :
                   Provider!Finish(i, status) => RowsMove(MaxRequests)
              /\ Provider!Lapse(i, Provider!Busy) => RowsMove(MaxRequests) /\ FaultsMove
<1>1. requests \in Seq(Rows(Weekly)) /\ taken \in Nat
  BY DEF ProviderTypes, Provider!RequestRow, Provider!RequestStatus, Rows
<1>2. \A i \in DOMAIN requests : requests[i] \in Rows(Weekly) /\ ClaimFits(requests[i])
  BY <1>1 DEF ProviderTyped, QueueTyped
<1>3. ASSUME NEW s \in Weekly, Provider!Enqueue(s) PROVE RowsMove(MaxRequests)
  <2> PICK row : row = [scope |-> s, status |-> "queued", token |-> 0, live |-> FALSE]
    OBVIOUS
  <2>1. Len(requests) < MaxRequests /\ requests' = Append(requests, row)
    BY <1>3 DEF Provider!Enqueue
  <2>2. row \in Rows(Weekly) /\ ClaimFits(row)
    BY NewRowFits
  <2> QED
    BY <1>1, <2>1, <2>2, RowAdded
<1>4. ASSUME NEW i \in DOMAIN requests, Provider!ClaimNext(i) PROVE RowsMove(MaxRequests)
  <2> PICK row : row = [requests[i] EXCEPT !.status = "claimed", !.token = taken + 1, !.live = TRUE]
    OBVIOUS
  <2>1. row \in Rows(Weekly) /\ ClaimFits(row)
    BY <1>1, <1>2, ClaimedFits
  <2>2. requests' = [requests EXCEPT ![i] = row]
    BY <1>1, <1>4 DEF Provider!ClaimNext
  <2> QED
    BY <1>1, <2>1, <2>2, RowWritten
<1>5. ASSUME NEW i \in DOMAIN requests, NEW status \in {"completed", "failed"},
             Provider!Finish(i, status)
      PROVE  RowsMove(MaxRequests)
  <2> PICK row : row = [requests[i] EXCEPT !.status = status, !.token = 0, !.live = FALSE]
    OBVIOUS
  <2>1. row \in Rows(Weekly) /\ ClaimFits(row)
    BY <1>2, EndedFits
  <2>2. requests' = [requests EXCEPT ![i] = row]
    BY <1>1, <1>5 DEF Provider!Finish
  <2> QED
    BY <1>1, <2>1, <2>2, RowWritten
<1>6. ASSUME NEW i \in DOMAIN requests, Provider!Lapse(i, Provider!Busy)
      PROVE  RowsMove(MaxRequests) /\ FaultsMove
  <2> PICK row : row = [requests[i] EXCEPT !.live = FALSE]
    OBVIOUS
  <2>1. row \in Rows(Weekly) /\ ClaimFits(row)
    BY <1>2, LapsedFits
  <2>2. requests' = [requests EXCEPT ![i] = row] /\ FaultsMove
    BY <1>1, <1>6 DEF Provider!Lapse, Provider!Fault, FaultsMove
  <2> QED
    BY <1>1, <2>1, <2>2, RowWritten
<1>7. MaxRequests \in Nat
  BY CatalogAssumption
<1> QED
  BY <1>1, <1>3, <1>4, <1>5, <1>6, <1>7

LEMMA ProviderTypedInit == Provider!Init => ProviderTyped
<1> SUFFICES ASSUME Provider!Init PROVE ProviderTyped
  OBVIOUS
<1>1. MaxRequests \in Nat /\ MaxFaults \in Nat
  BY CatalogAssumption
<1>2. requests = <<>> /\ faults = 0
      /\ \A w \in Workers : consumers[w].request = 0 /\ consumers[w].todo = <<>>
  BY DEF Provider!Init, Provider!RequestsInit, Provider!Idle
<1> QED
  BY <1>1, <1>2, EndsAre DEF ProviderTyped, QueueTyped

\* A consumer is idle, stays with its request and its list, goes on to the next
\* provider, or starts with a request of the queue.
Proceeds(row, next) ==
  \/ next.request = 0 /\ next.todo = <<>>
  \/ next.request = row.request /\ next.todo = row.todo
  \/ next.request = row.request /\ row.todo # <<>> /\ next.todo = Tail(row.todo)
  \/ next.request \in DOMAIN requests /\ next.todo = Providers

LEMMA ProviderProceeds ==
  ASSUME ProviderInv, [Provider!Next]_(Provider!providerVars), NEW v \in Workers
  PROVE  Proceeds(consumers[v], consumers'[v])
<1> USE DEF Proceeds
<1>1. consumers \in [Workers -> ProviderConsumer] /\ consumers[v] \in ProviderConsumer
  BY DEF ProviderInv, ProviderTypes
<1>2. CASE consumers' = consumers
  BY <1>2
<1>3. ASSUME NEW w \in Workers, NEW i \in DOMAIN requests, Provider!Claim(w, i)
      PROVE  Proceeds(consumers[v], consumers'[v])
  <2>1. CASE w = v
    <3>1. consumers'[v].request = i /\ consumers'[v].todo = Providers
      BY <1>1, <1>3, <2>1 DEF Provider!Claim, ProviderConsumer
    <3> QED
      BY <3>1
  <2>2. CASE w # v
    BY <1>1, <1>3, <2>2 DEF Provider!Claim
  <2> QED
    BY <2>1, <2>2
<1>4. ASSUME NEW w \in Workers, consumers' = [consumers EXCEPT ![w] = Provider!Idle]
      PROVE  Proceeds(consumers[v], consumers'[v])
  BY <1>1, <1>4 DEF Provider!Idle
<1>5. ASSUME NEW w \in Workers, NEW failed \in BOOLEAN, consumers[w].todo # <<>>,
             Provider!Continue(w, failed)
      PROVE  Proceeds(consumers[v], consumers'[v])
  <2>1. CASE w = v
    <3>1. consumers'[v].request = consumers[v].request /\ consumers'[v].todo = Tail(consumers[v].todo)
      BY <1>1, <1>5, <2>1 DEF Provider!Continue, ProviderConsumer
    <3> QED
      BY <1>5, <2>1, <3>1
  <2>2. CASE w # v
    BY <1>1, <1>5, <2>2 DEF Provider!Continue
  <2> QED
    BY <2>1, <2>2
<1>6. ASSUME NEW w \in Workers, Provider!Continue(w, FALSE) \/ Provider!Continue(w, TRUE),
             consumers[w].pc \in {"download", "activate"}
      PROVE  Proceeds(consumers[v], consumers'[v])
  <2>1. consumers[w].todo # <<>>
    BY <1>6 DEF ProviderInv, Worked
  <2> QED
    BY <1>5, <1>6, <2>1
<1>7. ASSUME NEW w \in Workers,
             \/ Provider!StoreFile(w) \/ Provider!SelectRows(w) \/ Provider!LockRows(w)
             \/ \E d \in Digests :
                  consumers' = [consumers EXCEPT ![w].pc = "store", ![w].digest = d]
             \/ consumers' = [consumers EXCEPT ![w].pc = "fail", ![w].seen = {}]
      PROVE  Proceeds(consumers[v], consumers'[v])
  <2>1. \/ \E pc : consumers' = [consumers EXCEPT ![w].pc = pc]
        \/ \E pc, seen : consumers' = [consumers EXCEPT ![w].pc = pc, ![w].seen = seen]
        \/ \E pc, seen, known :
             consumers' = [consumers EXCEPT ![w].pc = pc, ![w].seen = seen, ![w].known = known]
        \/ \E pc, d : consumers' = [consumers EXCEPT ![w].pc = pc, ![w].digest = d]
    <3>1. CASE Provider!StoreFile(w)
      BY <3>1 DEF Provider!StoreFile
    <3>2. CASE Provider!SelectRows(w)
      BY <3>2 DEF Provider!SelectRows
    <3>3. CASE Provider!LockRows(w)
      <4>1. \E seen : consumers' = [consumers EXCEPT ![w].pc = "activate", ![w].seen = seen]
        <5>1. consumers' = [consumers EXCEPT ![w].pc = "activate",
                              ![w].seen = consumers[w].seen \cap Provider!Current(Provider!Provider(w))]
          BY <1>1, <3>3 DEF Provider!LockRows, ProviderConsumer
        <5> QED
          BY <5>1
      <4> QED
        BY <4>1
    <3> QED
      BY <1>7, <3>1, <3>2, <3>3
  <2>2. consumers[v] \in ProviderConsumer
    BY <1>1
  <2>3. consumers'[v].request = consumers[v].request /\ consumers'[v].todo = consumers[v].todo
    <3>1. ASSUME NEW pc, consumers' = [consumers EXCEPT ![w].pc = pc]
          PROVE  consumers'[v].request = consumers[v].request /\ consumers'[v].todo = consumers[v].todo
      BY <1>1, <2>2, <3>1 DEF ProviderConsumer
    <3>2. ASSUME NEW pc, NEW seen, consumers' = [consumers EXCEPT ![w].pc = pc, ![w].seen = seen]
          PROVE  consumers'[v].request = consumers[v].request /\ consumers'[v].todo = consumers[v].todo
      BY <1>1, <2>2, <3>2 DEF ProviderConsumer
    <3>3. ASSUME NEW pc, NEW seen, NEW known,
                 consumers' = [consumers EXCEPT ![w].pc = pc, ![w].seen = seen, ![w].known = known]
          PROVE  consumers'[v].request = consumers[v].request /\ consumers'[v].todo = consumers[v].todo
      BY <1>1, <2>2, <3>3 DEF ProviderConsumer
    <3>4. ASSUME NEW pc, NEW d, consumers' = [consumers EXCEPT ![w].pc = pc, ![w].digest = d]
          PROVE  consumers'[v].request = consumers[v].request /\ consumers'[v].todo = consumers[v].todo
      BY <1>1, <2>2, <3>4 DEF ProviderConsumer
    <3> QED
      BY <2>1, <3>1, <3>2, <3>3, <3>4
  <2> QED
    BY <2>3
<1>8. ASSUME NEW w \in Workers, Provider!Download(w) PROVE Proceeds(consumers[v], consumers'[v])
  BY <1>6, <1>7, <1>8 DEF Provider!Download, Provider!At
<1>9. ASSUME NEW w \in Workers, Provider!Activate(w) PROVE Proceeds(consumers[v], consumers'[v])
  BY <1>6, <1>7, <1>9 DEF Provider!Activate, Provider!At
<1>10. ASSUME NEW w \in Workers, Provider!ActivateFails(w) PROVE Proceeds(consumers[v], consumers'[v])
  BY <1>6, <1>10 DEF Provider!ActivateFails, Provider!At
<1>11. ASSUME NEW w \in Workers,
              Provider!Settle(w) \/ Provider!Fail(w) \/ Provider!Abandon(w) \/ Provider!Crash(w)
       PROVE  Proceeds(consumers[v], consumers'[v])
  BY <1>4, <1>11 DEF Provider!Settle, Provider!Fail, Provider!Abandon, Provider!Crash
<1>12. \/ \E s \in Weekly : Provider!EnqueueRefresh(s) \/ Provider!EnsureInitial(s)
       \/ \E i \in DOMAIN requests : Provider!ClaimLapses(i)
       \/ UNCHANGED Provider!providerVars
       => consumers' = consumers
  BY DEF Provider!EnqueueRefresh, Provider!EnsureInitial, Provider!ClaimLapses, Provider!providerVars
<1> HIDE DEF Proceeds
<1> QED
  BY <1>2, <1>3, <1>7, <1>8, <1>9, <1>10, <1>11, <1>12 DEF Provider!Next, Provider!Consume

LEMMA ProviderMoves ==
  ASSUME ProviderInv, ProviderTyped, [Provider!Next]_(Provider!providerVars)
  PROVE  RowsMove(MaxRequests) /\ FaultsMove
<1>0. ProviderTypes /\ requests \in Seq(Rows(Weekly))
  BY ProviderRowsMove DEF ProviderInv
<1>1. ASSUME NEW s \in Weekly, Provider!EnqueueRefresh(s) \/ Provider!EnsureInitial(s)
      PROVE  RowsMove(MaxRequests) /\ FaultsMove
  BY <1>0, <1>1, ProviderRowsMove DEF Provider!EnsureInitial, Provider!EnqueueRefresh, FaultsMove
<1>2. ASSUME NEW w \in Workers, NEW i \in DOMAIN requests, Provider!Claim(w, i)
      PROVE  RowsMove(MaxRequests) /\ FaultsMove
  BY <1>0, <1>2, ProviderRowsMove DEF Provider!Claim, FaultsMove
<1>3. ASSUME NEW w \in Workers,
             \/ Provider!Download(w) \/ Provider!StoreFile(w) \/ Provider!SelectRows(w)
             \/ Provider!LockRows(w) \/ Provider!Activate(w) \/ Provider!ActivateFails(w)
             \/ Provider!Abandon(w) \/ Provider!Crash(w)
      PROVE  RowsMove(MaxRequests) /\ FaultsMove
  BY <1>3, RowsStay DEF Provider!Download, Provider!StoreFile, Provider!SelectRows,
     Provider!LockRows, Provider!Activate, Provider!ActivateFails, Provider!Abandon,
     Provider!Crash, Provider!Fault, FaultsMove
<1>4. ASSUME NEW w \in Workers, Provider!Settle(w) \/ Provider!Fail(w)
      PROVE  RowsMove(MaxRequests) /\ FaultsMove
  <2> PICK i : i = consumers[w].request
    OBVIOUS
  <2>1. faults' = faults
        /\ \/ requests' = requests
           \/ \E status \in {"completed", "failed"} : Provider!Finish(i, status)
    BY <1>4 DEF Provider!Settle, Provider!Fail, Provider!FailRequest, Provider!Request,
       Provider!Outcome
  <2>2. CASE i \in DOMAIN requests
    BY <1>0, <2>1, <2>2, ProviderRowsMove, RowsStay DEF FaultsMove
  <2>3. CASE i \notin DOMAIN requests
    <3>1. ASSUME NEW status, Provider!Finish(i, status) PROVE requests' = requests
      <4>1. requests' = [requests EXCEPT ![i] = [requests[i] EXCEPT
                            !.status = status, !.token = 0, !.live = FALSE]]
        BY <3>1 DEF Provider!Finish
      <4> QED
        BY <1>0, <2>3, <4>1
    <3> QED
      BY <2>1, <3>1, RowsStay DEF FaultsMove
  <2> QED
    BY <2>2, <2>3
<1>5. ASSUME NEW i \in DOMAIN requests, Provider!ClaimLapses(i)
      PROVE  RowsMove(MaxRequests) /\ FaultsMove
  BY <1>0, <1>5, ProviderRowsMove DEF Provider!ClaimLapses
<1>6. CASE UNCHANGED Provider!providerVars
  BY <1>6, RowsStay DEF Provider!providerVars, FaultsMove
<1> QED
  BY <1>1, <1>2, <1>3, <1>4, <1>5, <1>6 DEF Provider!Next, Provider!Consume

LEMMA ProviderTypedNext ==
  ProviderInv /\ ProviderTyped /\ [Provider!Next]_(Provider!providerVars) => ProviderTyped'
<1> SUFFICES ASSUME ProviderInv, ProviderTyped, [Provider!Next]_(Provider!providerVars)
             PROVE  ProviderTyped'
  OBVIOUS
<1>1. Rows(Weekly) = Provider!RequestRow
  BY DEF Rows, Provider!RequestRow, Provider!RequestStatus
<1>2. requests' \in Seq(Provider!RequestRow)
  BY ProviderStep DEF ProviderInv, ProviderTypes
<1>3. requests \in Seq(Rows(Weekly)) /\ requests' \in Seq(Rows(Weekly)) /\ MaxRequests \in Nat
  BY <1>1, <1>2, CatalogAssumption DEF ProviderInv, ProviderTypes
<1>4. RowsMove(MaxRequests) /\ FaultsMove
  BY ProviderMoves
<1>5. ConsumersMove
  BY ProviderProceeds DEF ConsumersMove, Proceeds
<1>6. QueueTyped(MaxRequests)'
  BY <1>3, <1>4, <1>5, QueueKept DEF ProviderTyped
<1>7. ASSUME NEW w \in Workers PROVE EndOf(consumers'[w].todo)
  <2> PICK s : s = consumers[w].todo
    OBVIOUS
  <2>1. s \in Seq(Provider!Names) /\ EndOf(s)
    BY DEF ProviderInv, ProviderTypes, ProviderConsumer, ProviderTyped
  <2>2. consumers'[w].todo \in {s, <<>>, Providers} \/ (s # <<>> /\ consumers'[w].todo = Tail(s))
    BY ProviderProceeds DEF Proceeds
  <2>3. s # <<>> => EndOf(Tail(s))
    BY <2>1, EndsAre
  <2> QED
    BY <2>1, <2>2, <2>3, EndsAre
<1> QED
  BY <1>6, <1>7 DEF ProviderTyped, EndOf

LEMMA ProviderTypesHold == ProviderInv /\ ProviderTyped => Provider!TypeOK
<1> SUFFICES ASSUME ProviderInv, ProviderTyped PROVE Provider!TypeOK
  OBVIOUS
<1>1. /\ requests \in Seq(Provider!RequestRow) /\ taken \in Nat
      /\ consumers \in [Workers -> ProviderConsumer] /\ MaxRequests \in Nat
      /\ rows \in [Provider!Names -> [Digests -> {"none", "current", "superseded"}]]
      /\ derived \in [Provider!Names -> Digests \union {Provider!None}]
      /\ files \in [Provider!Names -> SUBSET Digests]
  BY CatalogAssumption DEF ProviderInv, ProviderTypes
<1>2. /\ Len(requests) <= MaxRequests /\ faults \in 0 .. MaxFaults /\ Len(requests) \in Nat
      /\ \A i \in DOMAIN requests : ClaimFits(requests[i])
      /\ \A w \in Workers : consumers[w].request \in 0 .. Len(requests)
  BY <1>1 DEF ProviderTyped, QueueTyped
<1>3. Provider!RequestsTypeOK
  BY <1>1, <1>2 DEF Provider!RequestsTypeOK
<1>4. Provider!ClaimFieldsOK
  BY <1>2 DEF ClaimFits, Provider!ClaimFieldsOK
<1>5. ASSUME NEW w \in Workers
      PROVE  /\ consumers[w].pc \in Provider!Pc /\ consumers[w].request \in 0 .. MaxRequests
             /\ Provider!IsSuffix(consumers[w].todo, Providers)
             /\ consumers[w].digest \in Digests \cup {Provider!None}
  <2>1. consumers[w] \in ProviderConsumer
    BY <1>1
  <2>2. consumers[w].todo \in Seq(Provider!Names) /\ EndOf(consumers[w].todo)
    BY <2>1 DEF ProviderConsumer, ProviderTyped
  <2>3. consumers[w].request \in 0 .. MaxRequests
    BY <1>1, <1>2
  <2> QED
    BY <2>1, <2>2, <2>3, EndIsSuffix DEF ProviderConsumer
<1> QED
  BY <1>1, <1>3, <1>4, <1>5 DEF Provider!TypeOK

-----------------------------------------------------------------------------
\* The synchronization with AVdb.  A run has an owner while it runs; who works
\* has a token, and a directory of plaintext is of a token that was made.
RunFits(run) == /\ (run.owner # 0) = (run.status = "running")
                /\ run.live => run.status = "running"

AvdbTyped ==
  /\ QueueTyped(MaxRequests)
  /\ \A r \in Releases : RunFits(runs[r])
  /\ plaintext \subseteq 1 .. taken
  /\ \A w \in Workers : Working(consumers[w]) => consumers[w].token # 0

LEMMA AvdbRowsMove ==
  ASSUME AvdbTypes, AvdbTyped
  PROVE  /\ requests \in Seq(Rows(Modes)) /\ MaxRequests \in Nat
         /\ \A s \in Modes : Avdb!Enqueue(s) => RowsMove(MaxRequests)
         /\ \A i \in DOMAIN requests :
              /\ Avdb!ClaimNext(i) => RowsMove(MaxRequests)
              /\ \A status \in {"completed", "failed"} :
                   Avdb!Finish(i, status) => RowsMove(MaxRequests)
              /\ Avdb!Lapse(i, Avdb!Busy) => RowsMove(MaxRequests) /\ FaultsMove
<1>1. requests \in Seq(Rows(Modes)) /\ taken \in Nat
  BY DEF AvdbTypes, Avdb!RequestRow, Avdb!RequestStatus, Rows
<1>2. \A i \in DOMAIN requests : requests[i] \in Rows(Modes) /\ ClaimFits(requests[i])
  BY <1>1 DEF AvdbTyped, QueueTyped
<1>3. ASSUME NEW s \in Modes, Avdb!Enqueue(s) PROVE RowsMove(MaxRequests)
  <2> PICK row : row = [scope |-> s, status |-> "queued", token |-> 0, live |-> FALSE]
    OBVIOUS
  <2>1. Len(requests) < MaxRequests /\ requests' = Append(requests, row)
    BY <1>3 DEF Avdb!Enqueue
  <2>2. row \in Rows(Modes) /\ ClaimFits(row)
    BY NewRowFits
  <2> QED
    BY <1>1, <2>1, <2>2, RowAdded
<1>4. ASSUME NEW i \in DOMAIN requests, Avdb!ClaimNext(i) PROVE RowsMove(MaxRequests)
  <2> PICK row : row = [requests[i] EXCEPT !.status = "claimed", !.token = taken + 1, !.live = TRUE]
    OBVIOUS
  <2>1. row \in Rows(Modes) /\ ClaimFits(row)
    BY <1>1, <1>2, ClaimedFits
  <2>2. requests' = [requests EXCEPT ![i] = row]
    BY <1>1, <1>4 DEF Avdb!ClaimNext
  <2> QED
    BY <1>1, <2>1, <2>2, RowWritten
<1>5. ASSUME NEW i \in DOMAIN requests, NEW status \in {"completed", "failed"},
             Avdb!Finish(i, status)
      PROVE  RowsMove(MaxRequests)
  <2> PICK row : row = [requests[i] EXCEPT !.status = status, !.token = 0, !.live = FALSE]
    OBVIOUS
  <2>1. row \in Rows(Modes) /\ ClaimFits(row)
    BY <1>2, EndedFits
  <2>2. requests' = [requests EXCEPT ![i] = row]
    BY <1>1, <1>5 DEF Avdb!Finish
  <2> QED
    BY <1>1, <2>1, <2>2, RowWritten
<1>6. ASSUME NEW i \in DOMAIN requests, Avdb!Lapse(i, Avdb!Busy)
      PROVE  RowsMove(MaxRequests) /\ FaultsMove
  <2> PICK row : row = [requests[i] EXCEPT !.live = FALSE]
    OBVIOUS
  <2>1. row \in Rows(Modes) /\ ClaimFits(row)
    BY <1>2, LapsedFits
  <2>2. requests' = [requests EXCEPT ![i] = row] /\ FaultsMove
    BY <1>1, <1>6 DEF Avdb!Lapse, Avdb!Fault, FaultsMove
  <2> QED
    BY <1>1, <2>1, <2>2, RowWritten
<1>7. MaxRequests \in Nat
  BY CatalogAssumption
<1> QED
  BY <1>1, <1>3, <1>4, <1>5, <1>6, <1>7

LEMMA AvdbTypedInit == Avdb!Init => AvdbTyped
<1> SUFFICES ASSUME Avdb!Init PROVE AvdbTyped
  OBVIOUS
<1>1. MaxRequests \in Nat /\ MaxFaults \in Nat
  BY CatalogAssumption
<1>2. requests = <<>> /\ faults = 0 /\ plaintext = {} /\ taken = 0
      /\ \A w \in Workers : consumers[w].request = 0 /\ ~Working(consumers[w])
  BY DEF Avdb!Init, Avdb!RequestsInit, Avdb!Idle, Working
<1>3. \A r \in Releases : RunFits(runs[r])
  BY DEF Avdb!Init, Avdb!NoRun, RunFits
<1> QED
  BY <1>1, <1>2, <1>3 DEF AvdbTyped, QueueTyped

\* A run stays with its owner, is taken over, or is left.
RunMoves(old, new) ==
  \/ new.status = old.status /\ new.owner = old.owner /\ (new.live => old.live)
  \/ new.status = "running" /\ new.owner # 0
  \/ new.status # "running" /\ new.owner = 0 /\ ~new.live

LEMMA AvdbRunsMove ==
  ASSUME AvdbInv, AvdbTyped, [Avdb!Next]_(Avdb!avdbVars), NEW r \in Releases
  PROVE  RunMoves(runs[r], runs'[r])
<1>1. runs \in [Releases -> AvdbRun] /\ runs[r] \in AvdbRun
  BY DEF AvdbInv, AvdbTypes
<1>2. CASE runs' = runs
  BY <1>2 DEF RunMoves
<1>3. ASSUME NEW w \in Workers, Avdb!StartRun(w) PROVE RunMoves(runs[r], runs'[r])
  <2> PICK token : token = consumers[w].token
    OBVIOUS
  <2>1. token # 0
    BY <1>3 DEF Avdb!StartRun, Avdb!At, AvdbTyped, Working
  <2>2. \/ runs' = runs
        \/ runs' = [runs EXCEPT ![Avdb!Release(w)] = Avdb!Resumed(runs[Avdb!Release(w)], token)]
    BY <1>3 DEF Avdb!StartRun
  <2> PICK q : q = Avdb!Release(w)
    OBVIOUS
  <2>3. ASSUME runs' = [runs EXCEPT ![q] = Avdb!Resumed(runs[q], token)], q = r
        PROVE  runs'[r].status = "running" /\ runs'[r].owner # 0
    BY <1>1, <2>1, <2>3 DEF Avdb!Resumed, AvdbRun
  <2>4. ASSUME runs' = [runs EXCEPT ![q] = Avdb!Resumed(runs[q], token)], q # r
        PROVE  runs'[r] = runs[r]
    BY <1>1, <2>4
  <2> QED
    BY <2>2, <2>3, <2>4 DEF RunMoves
<1>4. ASSUME NEW q, NEW status, status # "running",
             runs' = [runs EXCEPT ![q].status = status, ![q].owner = 0, ![q].live = FALSE]
      PROVE  RunMoves(runs[r], runs'[r])
  <2>1. CASE q = r
    <3>1. runs'[r].status = status /\ runs'[r].owner = 0 /\ runs'[r].live = FALSE
      BY <1>1, <1>4, <2>1 DEF AvdbRun
    <3> QED
      BY <1>4, <3>1 DEF RunMoves
  <2>2. CASE q # r
    BY <1>1, <1>4, <2>2 DEF RunMoves
  <2> QED
    BY <2>1, <2>2
<1>5. ASSUME NEW w \in Workers, Avdb!NextAsset(w) \/ Avdb!FailRun(w)
      PROVE  RunMoves(runs[r], runs'[r])
  <2>1. \/ runs' = runs
        \/ \E q : \E status \in {"completed", "failed"} :
             runs' = [runs EXCEPT ![q].status = status, ![q].owner = 0, ![q].live = FALSE]
    BY <1>5 DEF Avdb!NextAsset, Avdb!CompleteRun, Avdb!FailRun
  <2> QED
    BY <1>2, <1>4, <2>1
<1>6. ASSUME NEW w \in Workers, Avdb!AssetImported(w) PROVE RunMoves(runs[r], runs'[r])
  <2>1. \/ runs' = runs
        \/ runs' = [runs EXCEPT ![Avdb!Release(w)].done = @ \cup {consumers[w].at[1]}]
    BY <1>6 DEF Avdb!AssetImported
  <2>2. /\ runs'[r].status = runs[r].status /\ runs'[r].owner = runs[r].owner
        /\ runs'[r].live = runs[r].live
    BY <1>1, <2>1 DEF AvdbRun
  <2> QED
    BY <2>2 DEF RunMoves
<1>7. ASSUME NEW w \in Workers, Avdb!Advance(w) PROVE RunMoves(runs[r], runs'[r])
  <2>1. \/ runs' = runs
        \/ \E cursor, total : runs' = [runs EXCEPT ![Avdb!Release(w)].cursor = cursor,
                                                   ![Avdb!Release(w)].total = total]
    BY <1>7 DEF Avdb!Advance
  <2>2. ASSUME NEW q, NEW cursor, NEW total,
               runs' = [runs EXCEPT ![q].cursor = cursor, ![q].total = total]
        PROVE  RunMoves(runs[r], runs'[r])
    <3>1. /\ runs'[r].status = runs[r].status /\ runs'[r].owner = runs[r].owner
          /\ runs'[r].live = runs[r].live
      BY <1>1, <2>2 DEF AvdbRun
    <3> QED
      BY <3>1 DEF RunMoves
  <2> QED
    BY <1>2, <2>1, <2>2
<1>8. ASSUME NEW q \in Releases, Avdb!RunLapses(q) PROVE RunMoves(runs[r], runs'[r])
  <2>1. runs' = [runs EXCEPT ![q].live = FALSE]
    BY <1>8 DEF Avdb!RunLapses
  <2>2. /\ runs'[r].status = runs[r].status /\ runs'[r].owner = runs[r].owner
        /\ runs'[r].live => runs[r].live
    BY <1>1, <2>1 DEF AvdbRun
  <2> QED
    BY <2>2 DEF RunMoves
<1>9. ASSUME NEW w \in Workers,
             \/ Avdb!Sweep(w) \/ Avdb!Claim(w) \/ Avdb!Fetch(w) \/ Avdb!ImportBatch(w)
             \/ Avdb!CheckOwned(w) \/ Avdb!CompleteRequest(w) \/ Avdb!Fail(w)
             \/ Avdb!BatchFails(w) \/ Avdb!HeartbeatFails(w) \/ Avdb!Crash(w)
      PROVE  runs' = runs
  BY <1>9 DEF Avdb!Sweep, Avdb!Claim, Avdb!Fetch, Avdb!ImportBatch, Avdb!CheckOwned,
     Avdb!CompleteRequest, Avdb!Fail, Avdb!BatchFails, Avdb!HeartbeatFails, Avdb!Crash, Avdb!rowVars
<1>10. \/ \E mode \in Modes : Avdb!EnqueueMode(mode)
       \/ \E i \in DOMAIN requests : Avdb!ClaimLapses(i)
       \/ UNCHANGED Avdb!avdbVars
       => runs' = runs
  BY DEF Avdb!EnqueueMode, Avdb!ClaimLapses, Avdb!avdbVars, Avdb!rowVars
<1> QED
  BY <1>2, <1>3, <1>5, <1>6, <1>7, <1>8, <1>9, <1>10 DEF Avdb!Next, Avdb!Consume

\* A consumer stays with its claim or loses it, is without one, or has a new one.
Follows(row, next) ==
  \/ /\ next.request = row.request /\ next.token = row.token
     /\ Working(next) => Working(row)
  \/ next.request = 0 /\ ~Working(next)
  \/ next.request \in DOMAIN requests /\ next.token = taken' /\ taken' = taken + 1

LEMMA AvdbFollows ==
  ASSUME AvdbInv, [Avdb!Next]_(Avdb!avdbVars), NEW v \in Workers
  PROVE  Follows(consumers[v], consumers'[v])
<1>1. consumers \in [Workers -> AvdbConsumer] /\ consumers[v] \in AvdbConsumer
  BY DEF AvdbInv, AvdbTypes
<1>2. CASE consumers' = consumers
  BY <1>2 DEF Follows
<1>3. ASSUME NEW w \in Workers, consumers' = [consumers EXCEPT ![w] = Avdb!Idle]
      PROVE  Follows(consumers[v], consumers'[v])
  BY <1>1, <1>3 DEF Avdb!Idle, Follows, Working
<1>4. ASSUME NEW w \in Workers, NEW pc, consumers' = [consumers EXCEPT ![w].pc = pc],
             pc \in {"idle", "claim"} \/ Working(consumers[w])
      PROVE  Follows(consumers[v], consumers'[v])
  <2>1. /\ consumers'[v].request = consumers[v].request /\ consumers'[v].token = consumers[v].token
        /\ consumers'[v].pc = IF v = w THEN pc ELSE consumers[v].pc
    BY <1>1, <1>4 DEF AvdbConsumer
  <2> QED
    BY <1>4, <2>1 DEF Follows, Working
<1>5. ASSUME NEW w \in Workers, Avdb!Claim(w) PROVE Follows(consumers[v], consumers'[v])
  <2>1. CASE Avdb!Go(w, "idle")
    BY <1>4, <2>1 DEF Avdb!Go
  <2>2. ASSUME NEW i \in DOMAIN requests, Avdb!ClaimNext(i),
               consumers' = [consumers EXCEPT ![w] =
                 [Avdb!Idle EXCEPT !.pc = "fetch", !.request = i, !.token = taken']]
        PROVE  Follows(consumers[v], consumers'[v])
    <3>1. taken' = taken + 1
      BY <2>2 DEF Avdb!ClaimNext
    <3>2. v = w => consumers'[v].request = i /\ consumers'[v].token = taken'
      BY <1>1, <2>2 DEF Avdb!Idle
    <3>3. v # w => consumers'[v] = consumers[v]
      BY <1>1, <2>2
    <3> QED
      BY <2>2, <3>1, <3>2, <3>3 DEF Follows
  <2> QED
    BY <1>5, <2>1, <2>2 DEF Avdb!Claim
<1>6. ASSUME NEW w \in Workers, Working(consumers[w]),
             /\ \A u \in Workers \ {w} : consumers'[u] = consumers[u]
             /\ consumers'[w].request = consumers[w].request
             /\ consumers'[w].token = consumers[w].token
      PROVE  Follows(consumers[v], consumers'[v])
  BY <1>6 DEF Follows
<1>7. ASSUME NEW w \in Workers, Working(consumers[w]),
             \/ \E pc, r : consumers' = [consumers EXCEPT ![w].pc = pc, ![w].release = r]
             \/ \E at : consumers' = [consumers EXCEPT ![w].at = at]
             \/ \E pc, at : consumers' = [consumers EXCEPT ![w].pc = pc, ![w].at = at]
             \/ \E pc, at, total :
                  consumers' = [consumers EXCEPT ![w].pc = pc, ![w].at = at, ![w].total = total]
      PROVE  Follows(consumers[v], consumers'[v])
  <2>0. consumers[w] \in AvdbConsumer
    BY <1>1
  <2>1. ASSUME NEW pc, NEW r, consumers' = [consumers EXCEPT ![w].pc = pc, ![w].release = r]
        PROVE  Follows(consumers[v], consumers'[v])
    <3>1. /\ \A u \in Workers \ {w} : consumers'[u] = consumers[u]
          /\ consumers'[w].request = consumers[w].request /\ consumers'[w].token = consumers[w].token
      BY <1>1, <2>0, <2>1 DEF AvdbConsumer
    <3> QED
      BY <1>6, <1>7, <3>1
  <2>2. ASSUME NEW at, consumers' = [consumers EXCEPT ![w].at = at]
        PROVE  Follows(consumers[v], consumers'[v])
    <3>1. /\ \A u \in Workers \ {w} : consumers'[u] = consumers[u]
          /\ consumers'[w].request = consumers[w].request /\ consumers'[w].token = consumers[w].token
      BY <1>1, <2>0, <2>2 DEF AvdbConsumer
    <3> QED
      BY <1>6, <1>7, <3>1
  <2>3. ASSUME NEW pc, NEW at, consumers' = [consumers EXCEPT ![w].pc = pc, ![w].at = at]
        PROVE  Follows(consumers[v], consumers'[v])
    <3>1. /\ \A u \in Workers \ {w} : consumers'[u] = consumers[u]
          /\ consumers'[w].request = consumers[w].request /\ consumers'[w].token = consumers[w].token
      BY <1>1, <2>0, <2>3 DEF AvdbConsumer
    <3> QED
      BY <1>6, <1>7, <3>1
  <2>4. ASSUME NEW pc, NEW at, NEW total,
               consumers' = [consumers EXCEPT ![w].pc = pc, ![w].at = at, ![w].total = total]
        PROVE  Follows(consumers[v], consumers'[v])
    <3>1. /\ \A u \in Workers \ {w} : consumers'[u] = consumers[u]
          /\ consumers'[w].request = consumers[w].request /\ consumers'[w].token = consumers[w].token
      BY <1>1, <2>0, <2>4 DEF AvdbConsumer
    <3> QED
      BY <1>6, <1>7, <3>1
  <2> QED
    BY <1>7, <2>1, <2>2, <2>3, <2>4
<1>8. ASSUME NEW w \in Workers, Avdb!Fetch(w) PROVE Follows(consumers[v], consumers'[v])
  <2>1. Working(consumers[w])
    BY <1>8 DEF Avdb!Fetch, Avdb!At, Working
  <2> QED
    BY <1>4, <1>7, <1>8, <2>1 DEF Avdb!Fetch, Avdb!Go
<1>9. ASSUME NEW w \in Workers, Avdb!StartRun(w) PROVE Follows(consumers[v], consumers'[v])
  <2>1. Working(consumers[w])
    BY <1>9 DEF Avdb!StartRun, Avdb!At, Working
  <2>2. CASE Avdb!RunTaken(Avdb!Run(w))
    <3>1. \E pc : consumers' = [consumers EXCEPT ![w].pc = pc]
      BY <1>9, <2>2 DEF Avdb!StartRun, Avdb!Go
    <3> QED
      BY <1>4, <2>1, <3>1
  <2>3. CASE ~Avdb!RunTaken(Avdb!Run(w))
    <3>1. consumers' = [consumers EXCEPT ![w].pc = "asset", ![w].at = Avdb!Start,
                                         ![w].total = Avdb!Run(w).total]
      BY <1>9, <2>3 DEF Avdb!StartRun
    <3>2. \E pc, at, total :
            consumers' = [consumers EXCEPT ![w].pc = pc, ![w].at = at, ![w].total = total]
      BY <3>1
    <3> QED
      BY <1>7, <2>1, <3>2
  <2> QED
    BY <2>2, <2>3
<1>10. ASSUME NEW w \in Workers, Avdb!NextAsset(w) PROVE Follows(consumers[v], consumers'[v])
  <2>1. Working(consumers[w])
    BY <1>10 DEF Avdb!NextAsset, Avdb!At, Working
  <2>2. \/ \E pc : consumers' = [consumers EXCEPT ![w].pc = pc]
        \/ \E at : consumers' = [consumers EXCEPT ![w].at = at]
        \/ \E pc, at : consumers' = [consumers EXCEPT ![w].pc = pc, ![w].at = at]
    BY <1>10 DEF Avdb!NextAsset, Avdb!CompleteRun, Avdb!Go
  <2> QED
    BY <1>4, <1>7, <2>1, <2>2
<1>11. ASSUME NEW w \in Workers, Avdb!ImportBatch(w) PROVE Follows(consumers[v], consumers'[v])
  <2>1. Working(consumers[w])
    BY <1>11 DEF Avdb!ImportBatch, Avdb!At, Working
  <2>2. \E at, total : consumers' = [consumers EXCEPT ![w].pc = "advance", ![w].at = at,
                                                      ![w].total = total]
    <3>1. consumers' = [consumers EXCEPT ![w].pc = "advance",
                          ![w].at = <<consumers[w].at[1], consumers[w].at[2] + 1>>,
                          ![w].total = consumers[w].total + 1]
      BY <1>1, <1>11 DEF Avdb!ImportBatch, AvdbConsumer
    <3> QED
      BY <3>1
  <2> QED
    BY <1>7, <2>1, <2>2
<1>12. ASSUME NEW w \in Workers, Avdb!AssetImported(w) PROVE Follows(consumers[v], consumers'[v])
  <2>1. Working(consumers[w])
    BY <1>12 DEF Avdb!AssetImported, Avdb!At, Working
  <2>2. \/ \E pc : consumers' = [consumers EXCEPT ![w].pc = pc]
        \/ \E pc, at : consumers' = [consumers EXCEPT ![w].pc = pc, ![w].at = at]
    BY <1>12 DEF Avdb!AssetImported, Avdb!Go
  <2> QED
    BY <1>4, <1>7, <2>1, <2>2
<1>13. ASSUME NEW w \in Workers,
              \/ Avdb!Advance(w) \/ Avdb!FailRun(w) \/ Avdb!CheckOwned(w)
              \/ Avdb!BatchFails(w) \/ Avdb!HeartbeatFails(w)
       PROVE  Follows(consumers[v], consumers'[v])
  <2>1. Working(consumers[w]) /\ \E pc : consumers' = [consumers EXCEPT ![w].pc = pc]
    BY <1>13 DEF Avdb!Advance, Avdb!FailRun, Avdb!CheckOwned, Avdb!BatchFails,
       Avdb!HeartbeatFails, Avdb!At, Avdb!Go, Working
  <2> QED
    BY <1>4, <2>1
<1>14. ASSUME NEW w \in Workers, Avdb!CompleteRequest(w) \/ Avdb!Fail(w) \/ Avdb!Crash(w)
       PROVE  Follows(consumers[v], consumers'[v])
  <2>1. \/ consumers' = [consumers EXCEPT ![w] = Avdb!Idle]
        \/ Working(consumers[w]) /\ consumers' = [consumers EXCEPT ![w].pc = "fail"]
    BY <1>14 DEF Avdb!CompleteRequest, Avdb!Fail, Avdb!Crash, Avdb!Leave, Avdb!Go, Avdb!At, Working
  <2> QED
    BY <1>3, <1>4, <2>1
<1>15. ASSUME NEW w \in Workers, Avdb!Sweep(w) PROVE Follows(consumers[v], consumers'[v])
  BY <1>4, <1>15 DEF Avdb!Sweep, Avdb!Go
<1>16. \/ \E mode \in Modes : Avdb!EnqueueMode(mode)
       \/ \E i \in DOMAIN requests : Avdb!ClaimLapses(i)
       \/ \E r \in Releases : Avdb!RunLapses(r)
       \/ UNCHANGED Avdb!avdbVars
       => consumers' = consumers
  BY DEF Avdb!EnqueueMode, Avdb!ClaimLapses, Avdb!RunLapses, Avdb!avdbVars
<1> QED
  BY <1>2, <1>5, <1>8, <1>9, <1>10, <1>11, <1>12, <1>13, <1>14, <1>15, <1>16
     DEF Avdb!Next, Avdb!Consume

\* The tokens that are made grow, and a directory is of the token of who works.
LEMMA AvdbPlaintext ==
  ASSUME AvdbInv, AvdbTyped, [Avdb!Next]_(Avdb!avdbVars)
  PROVE  taken' \in Nat /\ taken <= taken' /\ plaintext' \subseteq 1 .. taken'
<1>1. taken \in Nat /\ plaintext \subseteq 1 .. taken
  BY DEF AvdbInv, AvdbTypes, AvdbTyped
<1> DEFINE Keeps == taken' = taken /\ plaintext' \subseteq plaintext
<1>2. ASSUME NEW w \in Workers, Avdb!Sweep(w) \/ Avdb!CompleteRequest(w) \/ Avdb!Fail(w) PROVE Keeps
  BY <1>2 DEF Avdb!Sweep, Avdb!Kept, Avdb!CompleteRequest, Avdb!Fail, Avdb!Leave
<1>3. ASSUME NEW w \in Workers, Avdb!Claim(w)
      PROVE  (taken' = taken \/ taken' = taken + 1) /\ plaintext' \subseteq plaintext
  BY <1>3 DEF Avdb!Claim, Avdb!ClaimNext
<1>4. ASSUME NEW w \in Workers, Avdb!Fetch(w)
      PROVE  taken' = taken /\ Working(consumers[w])
             /\ plaintext' = plaintext \cup {consumers[w].token}
  BY <1>4 DEF Avdb!Fetch, Avdb!At, Working
<1>5. ASSUME NEW w \in Workers,
             \/ Avdb!StartRun(w) \/ Avdb!NextAsset(w) \/ Avdb!ImportBatch(w)
             \/ Avdb!AssetImported(w) \/ Avdb!Advance(w) \/ Avdb!FailRun(w) \/ Avdb!CheckOwned(w)
             \/ Avdb!BatchFails(w) \/ Avdb!HeartbeatFails(w) \/ Avdb!Crash(w)
      PROVE  Keeps
  BY <1>5 DEF Avdb!StartRun, Avdb!NextAsset, Avdb!ImportBatch, Avdb!AssetImported, Avdb!Advance,
     Avdb!FailRun, Avdb!CheckOwned, Avdb!BatchFails, Avdb!HeartbeatFails, Avdb!Crash
<1>6. ASSUME \/ \E mode \in Modes : Avdb!EnqueueMode(mode)
             \/ \E i \in DOMAIN requests : Avdb!ClaimLapses(i)
             \/ \E r \in Releases : Avdb!RunLapses(r)
             \/ UNCHANGED Avdb!avdbVars
      PROVE  Keeps
  BY <1>6 DEF Avdb!EnqueueMode, Avdb!ClaimLapses, Avdb!RunLapses, Avdb!avdbVars
<1>7. taken' = taken \/ taken' = taken + 1
  BY <1>2, <1>3, <1>4, <1>5, <1>6 DEF Avdb!Next, Avdb!Consume
<1>8. \/ plaintext' \subseteq plaintext
      \/ \E w \in Workers : Working(consumers[w]) /\ plaintext' = plaintext \cup {consumers[w].token}
  BY <1>2, <1>3, <1>4, <1>5, <1>6 DEF Avdb!Next, Avdb!Consume
<1>9. \A w \in Workers : Working(consumers[w]) => consumers[w].token \in 1 .. taken
  BY <1>1 DEF AvdbInv, AvdbTypes, AvdbConsumer, AvdbTokens, AvdbTyped
<1>10. plaintext' \subseteq 1 .. taken
  <2>1. CASE plaintext' \subseteq plaintext
    BY <1>1, <2>1
  <2>2. ASSUME NEW w \in Workers, Working(consumers[w]),
               plaintext' = plaintext \cup {consumers[w].token}
        PROVE  plaintext' \subseteq 1 .. taken
    <3>1. consumers[w].token \in 1 .. taken
      BY <1>9, <2>2
    <3> PICK t : t = consumers[w].token
      OBVIOUS
    <3> QED
      BY <1>1, <2>2, <3>1
  <2> QED
    BY <1>8, <2>1, <2>2
<1>11. taken' \in Nat /\ taken <= taken'
  BY <1>1, <1>7
<1>12. 1 .. taken \subseteq 1 .. taken'
  BY <1>1, <1>11
<1> QED
  BY <1>10, <1>11, <1>12

LEMMA AvdbMoves ==
  ASSUME AvdbInv, AvdbTyped, [Avdb!Next]_(Avdb!avdbVars)
  PROVE  RowsMove(MaxRequests) /\ FaultsMove
<1>0. AvdbTypes /\ requests \in Seq(Rows(Modes))
  BY AvdbRowsMove DEF AvdbInv
<1>1. ASSUME NEW mode \in Modes, Avdb!EnqueueMode(mode) PROVE RowsMove(MaxRequests) /\ FaultsMove
  BY <1>0, <1>1, AvdbRowsMove DEF Avdb!EnqueueMode, FaultsMove
<1>2. ASSUME NEW w \in Workers, Avdb!Claim(w) PROVE RowsMove(MaxRequests) /\ FaultsMove
  BY <1>0, <1>2, AvdbRowsMove, RowsStay DEF Avdb!Claim, FaultsMove
<1>3. ASSUME NEW w \in Workers,
             \/ Avdb!Sweep(w) \/ Avdb!Fetch(w) \/ Avdb!StartRun(w) \/ Avdb!NextAsset(w)
             \/ Avdb!ImportBatch(w) \/ Avdb!AssetImported(w) \/ Avdb!Advance(w) \/ Avdb!FailRun(w)
             \/ Avdb!CheckOwned(w) \/ Avdb!BatchFails(w) \/ Avdb!HeartbeatFails(w) \/ Avdb!Crash(w)
      PROVE  RowsMove(MaxRequests) /\ FaultsMove
  BY <1>3, RowsStay DEF Avdb!Sweep, Avdb!Fetch, Avdb!StartRun, Avdb!NextAsset, Avdb!ImportBatch,
     Avdb!AssetImported, Avdb!Advance, Avdb!FailRun, Avdb!CheckOwned, Avdb!BatchFails,
     Avdb!HeartbeatFails, Avdb!Crash, Avdb!Fault, FaultsMove
<1>4. ASSUME NEW w \in Workers, Avdb!CompleteRequest(w) \/ Avdb!Fail(w)
      PROVE  RowsMove(MaxRequests) /\ FaultsMove
  <2>1. consumers[w].request \in DOMAIN requests
    BY <1>4 DEF Avdb!CompleteRequest, Avdb!Fail, Avdb!At, AvdbInv, AvdbTokens, Working
  <2>2. faults' = faults
        /\ \/ requests' = requests
           \/ Avdb!Finish(consumers[w].request, "completed")
           \/ Avdb!Finish(consumers[w].request, "failed")
    BY <1>4 DEF Avdb!CompleteRequest, Avdb!Fail, Avdb!FailRequest, Avdb!Request
  <2> QED
    BY <1>0, <2>1, <2>2, AvdbRowsMove, RowsStay DEF FaultsMove
<1>5. ASSUME NEW i \in DOMAIN requests, Avdb!ClaimLapses(i)
      PROVE  RowsMove(MaxRequests) /\ FaultsMove
  BY <1>0, <1>5, AvdbRowsMove DEF Avdb!ClaimLapses
<1>6. ASSUME NEW r \in Releases, Avdb!RunLapses(r) PROVE RowsMove(MaxRequests) /\ FaultsMove
  BY <1>6, RowsStay DEF Avdb!RunLapses, Avdb!Fault, FaultsMove
<1>7. CASE UNCHANGED Avdb!avdbVars
  BY <1>7, RowsStay DEF Avdb!avdbVars, FaultsMove
<1> QED
  BY <1>1, <1>2, <1>3, <1>4, <1>5, <1>6, <1>7 DEF Avdb!Next, Avdb!Consume

LEMMA AvdbTypedNext ==
  AvdbInv /\ AvdbTyped /\ [Avdb!Next]_(Avdb!avdbVars) => AvdbTyped'
<1> SUFFICES ASSUME AvdbInv, AvdbTyped, [Avdb!Next]_(Avdb!avdbVars) PROVE AvdbTyped'
  OBVIOUS
<1>1. Rows(Modes) = Avdb!RequestRow
  BY DEF Rows, Avdb!RequestRow, Avdb!RequestStatus
<1>2. requests' \in Seq(Avdb!RequestRow)
  BY AvdbStep DEF AvdbInv, AvdbTypes
<1>3. requests \in Seq(Rows(Modes)) /\ requests' \in Seq(Rows(Modes)) /\ MaxRequests \in Nat
  BY <1>1, <1>2, CatalogAssumption DEF AvdbInv, AvdbTypes
<1>4. RowsMove(MaxRequests) /\ FaultsMove
  BY AvdbMoves
<1>5. ConsumersMove
  BY AvdbFollows DEF ConsumersMove, Follows
<1>6. QueueTyped(MaxRequests)'
  BY <1>3, <1>4, <1>5, QueueKept DEF AvdbTyped
<1>7. \A r \in Releases : RunFits(runs'[r])
  <2>1. \A r \in Releases : RunFits(runs[r]) /\ RunMoves(runs[r], runs'[r])
    BY AvdbRunsMove DEF AvdbTyped
  <2>2. \A r \in Releases : runs'[r].live \in BOOLEAN /\ runs'[r] \in AvdbRun
    BY AvdbStep DEF AvdbInv, AvdbTypes, AvdbRun
  <2> QED
    BY <2>1, <2>2 DEF RunFits, RunMoves
<1>8. taken \in Nat
  BY DEF AvdbInv, AvdbTypes
<1>9. \A w \in Workers : Working(consumers'[w]) => consumers'[w].token # 0
  <2>1. taken + 1 # 0
    BY <1>8
  <2> QED
    BY <2>1, AvdbFollows DEF Follows, AvdbTyped
<1>10. plaintext' \subseteq 1 .. taken'
  BY AvdbPlaintext
<1> QED
  BY <1>6, <1>7, <1>9, <1>10 DEF AvdbTyped, RunFits, Working

LEMMA AvdbTypesHold == AvdbInv /\ AvdbTyped => Avdb!TypeOK
<1> SUFFICES ASSUME AvdbInv, AvdbTyped PROVE Avdb!TypeOK
  OBVIOUS
<1>1. /\ requests \in Seq(Avdb!RequestRow) /\ taken \in Nat
      /\ consumers \in [Workers -> AvdbConsumer] /\ MaxRequests \in Nat
      /\ runs \in [Releases -> AvdbRun]
  BY CatalogAssumption DEF AvdbInv, AvdbTypes
<1>2. /\ Len(requests) <= MaxRequests /\ faults \in 0 .. MaxFaults /\ Len(requests) \in Nat
      /\ \A i \in DOMAIN requests : ClaimFits(requests[i])
      /\ \A w \in Workers : consumers[w].request \in 0 .. Len(requests)
  BY <1>1 DEF AvdbTyped, QueueTyped
<1>3. Avdb!RequestsTypeOK
  BY <1>1, <1>2 DEF Avdb!RequestsTypeOK
<1>4. Avdb!ClaimFieldsOK
  BY <1>2 DEF ClaimFits, Avdb!ClaimFieldsOK
<1>5. ASSUME NEW w \in Workers
      PROVE  /\ consumers[w].pc \in Avdb!Pc /\ consumers[w].request \in 0 .. MaxRequests
             /\ consumers[w].release \in Releases \cup {<<>>}
  <2>1. consumers[w] \in AvdbConsumer
    BY <1>1
  <2>2. consumers[w].request \in 0 .. MaxRequests
    BY <1>1, <1>2
  <2> QED
    BY <2>1, <2>2 DEF AvdbConsumer
<1>6. ASSUME NEW r \in Releases
      PROVE  /\ runs[r].status \in Avdb!RunStatus
             /\ runs[r].cursor \in Avdb!RowsOf(r) \cup {Avdb!Start}
             /\ (runs[r].owner # 0) = (runs[r].status = "running")
             /\ runs[r].live => runs[r].status = "running"
             /\ runs[r].done \subseteq 1 .. Avdb!AssetCount(r)
             /\ imported[r] \subseteq Avdb!RowsOf(r)
  <2>1. RunRight(r, runs[r], imported[r]) /\ RunFits(runs[r]) /\ runs[r] \in AvdbRun
    BY <1>1 DEF AvdbInv, AvdbTyped
  <2>2. Avdb!AssetCount(r) \in Nat
    <3>1. Assets[r] \in Seq(Nat)
      BY CatalogAssumption
    <3> QED
      BY <3>1 DEF Avdb!AssetCount
  <2>3. PICK k \in 0 .. Avdb!AssetCount(r) : runs[r].done = 1 .. k
    BY <2>1 DEF RunRight, Reached
  <2>4. 1 .. k \subseteq 1 .. Avdb!AssetCount(r)
    BY <2>2
  <2> QED
    BY <2>1, <2>3, <2>4 DEF RunRight, RunFits, AvdbRun
<1>7. plaintext \subseteq 1 .. taken /\ DOMAIN runs = Releases
  BY <1>1 DEF AvdbTyped
<1> QED
  BY <1>3, <1>4, <1>5, <1>6, <1>7 DEF Avdb!TypeOK

-----------------------------------------------------------------------------
\* Every queue keeps the types of its rows beside its invariant.
QueuesTyped ==
  /\ part = "avdb" => AvdbInv /\ AvdbTyped
  /\ part = "ranking" => RankInv /\ RankTyped
  /\ part = "provider" => ProviderInv /\ ProviderTyped

LEMMA QueuesKeepTypes == Spec => []QueuesTyped
<1>1. Init => QueuesTyped
  BY AvdbInit, AvdbTypedInit, RankInit, RankTypedInit, ProviderInit, ProviderTypedInit
     DEF Init, QueuesTyped
<1>2. QueuesTyped /\ [Next]_vars => QueuesTyped'
  <2> SUFFICES ASSUME QueuesTyped, [Next]_vars PROVE QueuesTyped'
    OBVIOUS
  <2>1. ASSUME part' = "avdb" PROVE (AvdbInv /\ AvdbTyped)'
    <3>1. part = "avdb" /\ [Avdb!Next]_(Avdb!avdbVars)
      BY <2>1 DEF Next, OnlyAvdb, OnlyMetadata, vars, queueData, avdbData, Avdb!avdbVars
    <3>2. AvdbInv /\ AvdbTyped
      BY <3>1 DEF QueuesTyped
    <3> QED
      BY <3>1, <3>2, AvdbStep, AvdbTypedNext
  <2>2. ASSUME part' = "ranking" PROVE (RankInv /\ RankTyped)'
    <3>1. part = "ranking" /\ [Ranking!Next]_(Ranking!rankingVars)
      BY <2>2 DEF Next, OnlyAvdb, OnlyMetadata, vars, queueData, rankingData, Ranking!rankingVars
    <3>2. RankInv /\ RankTyped
      BY <3>1 DEF QueuesTyped
    <3> QED
      BY <3>1, <3>2, RankStep, RankTypedNext
  <2>3. ASSUME part' = "provider" PROVE (ProviderInv /\ ProviderTyped)'
    <3>1. part = "provider" /\ [Provider!Next]_(Provider!providerVars)
      BY <2>3 DEF Next, OnlyAvdb, OnlyMetadata, vars, queueData, providerData,
         Provider!providerVars
    <3>2. ProviderInv /\ ProviderTyped
      BY <3>1 DEF QueuesTyped
    <3> QED
      BY <3>1, <3>2, ProviderStep, ProviderTypedNext
  <2> QED
    BY <2>1, <2>2, <2>3 DEF QueuesTyped
<1> QED
  BY <1>1, <1>2, PTL DEF Spec

\* The rows of the four queues keep the shape the code relies on: a request has a
\* token while it is claimed, and a lease only then; the plaintext on disk is of
\* tokens that were made; a provider fetch has an end of the list of providers
\* before it; a run of AVdb has an owner while it runs, and its cursor is a row of
\* the release; a job has one running stage at most, and only while it runs (the
\* constraints of the tables of the three synchronizations and of the jobs).
THEOREM CatalogTypes == Spec => []TypeOK
<1>1. AvdbInv /\ AvdbTyped => Avdb!TypeOK
  BY AvdbTypesHold
<1>2. RankInv /\ RankTyped => Ranking!TypeOK
  BY RankTypesHold
<1>3. ProviderInv /\ ProviderTyped => Provider!TypeOK
  BY ProviderTypesHold
<1>4. MP!MetadataInv => Metadata!TypeOK
  BY JobConstants, MP!TypesHold, SameTypes
<1>5. QueuesTyped /\ JobsInv => TypeOK
  BY <1>1, <1>2, <1>3, <1>4 DEF QueuesTyped, JobsInv, TypeOK
<1> QED
  BY <1>5, QueuesKeepTypes, JobsInvariant, PTL
=============================================================================
