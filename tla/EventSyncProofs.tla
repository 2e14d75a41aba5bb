--------------------------- MODULE EventSyncProofs ---------------------------
(***************************************************************************)
(* Proofs about EventSync, for any resources, any number of writers and of *)
(* events, and any set of faults: what the client shows includes every     *)
(* event up to its version, and an event that continues the sequence is    *)
(* applied.  The argument is that the committed numbers are at all times a *)
(* prefix of the numbers given out, so that a version covers everything    *)
(* below it.                                                               *)
(***************************************************************************)
EXTENDS EventSync, FiniteSetTheorems, WellFoundedInduction, TLAPS

-----------------------------------------------------------------------------
(* The greatest number of a set *)

Less == {p \in Nat \X Nat : p[1] < p[2]}

LEMMA LessIsWellFounded == IsWellFoundedOn(Less, Nat)
<1>1. OpToRel(<, Nat) = Less
    BY DEF OpToRel, Less
<1> QED BY <1>1, NatLessThanWellFounded

LEMMA GreatestExists ==
    ASSUME NEW S \in SUBSET Numbers, S # {}
    PROVE  \E n \in S : \A m \in S : m <= n
<1> DEFINE T == {k \in Nat : \E n \in S : k = MaxEvents - n}
<1>1. \A n \in S : MaxEvents - n \in T
    BY OutboxAssumption DEF Numbers
<1>2. T # {} /\ T \subseteq Nat
    BY <1>1
<1>3. PICK x \in T : \A y \in T : <<y, x>> \notin Less
    BY <1>2, LessIsWellFounded, WFMin
<1>4. PICK n \in S : x = MaxEvents - n
    BY <1>3
<1>5. ASSUME NEW m \in S PROVE m <= n
    <2>1. MaxEvents - m \in Nat /\ MaxEvents - n \in Nat
        BY <1>1
    <2>2. ~(MaxEvents - m < MaxEvents - n)
        BY <1>1, <1>3, <1>4, <2>1 DEF Less
    <2> QED BY <2>2, OutboxAssumption DEF Numbers
<1> QED BY <1>5

LEMMA GreatestIs ==
    ASSUME NEW S \in SUBSET Numbers
    PROVE  /\ Greatest(S) \in 0..MaxEvents
           /\ \A n \in S : n <= Greatest(S)
           /\ Greatest(S) # 0 => Greatest(S) \in S
<1>1. CASE S = {}
    BY <1>1, OutboxAssumption DEF Greatest
<1>2. CASE S # {}
    <2>1. \E n \in S : \A m \in S : m <= n
        BY <1>2, GreatestExists
    <2>2. Greatest(S) \in S /\ \A m \in S : m <= Greatest(S)
        BY <1>2, <2>1 DEF Greatest
    <2>3. Greatest(S) \in 0..MaxEvents
        <3> HIDE DEF Greatest
        <3>1. Greatest(S) \in Numbers
            BY <2>2
        <3> QED BY <3>1, OutboxAssumption DEF Numbers
    <2> QED BY <2>2, <2>3
<1> QED BY <1>1, <1>2

-----------------------------------------------------------------------------
(* The outbox *)

\* Numbers are given out one after the other, and those of transactions that
\* have not ended are the last ones, all of one transaction.
LogInOrder ==
    /\ \A m, n \in Numbers : m < n /\ event[n] # None => event[m] # None
    /\ \A n \in Numbers : owner[n] # None => event[n] # None
    /\ \A m, n \in Numbers :
         m < n /\ owner[m] # None /\ event[n] # None => owner[n] = owner[m]

\* What a reader sees is never followed by a smaller number.
LEMMA VisiblePrefix ==
    ASSUME LogInOrder, NEW n \in Numbers, Visible(n), NEW m \in Numbers, m <= n
    PROVE  Visible(m)
BY DEF LogInOrder, Visible, Numbers

SameResource(n) == {m \in Numbers : m <= n /\ event[m] = event[n]}

LEMMA SameResourceFinite ==
    ASSUME NEW n \in Numbers
    PROVE  /\ IsFiniteSet(SameResource(n))
           /\ StreamVersion(n) = Cardinality(SameResource(n))
           /\ StreamVersion(n) \in 0..MaxEvents
<1>1. IsFiniteSet(Numbers) /\ Cardinality(Numbers) = MaxEvents
    BY FS_Interval, OutboxAssumption DEF Numbers
<1>2. SameResource(n) \in SUBSET Numbers
    BY DEF SameResource
<1>3. IsFiniteSet(SameResource(n)) /\ Cardinality(SameResource(n)) <= MaxEvents
    BY <1>1, <1>2, FS_Subset
<1>4. StreamVersion(n) = Cardinality(SameResource(n))
    BY DEF StreamVersion, SameResource
<1> QED BY <1>3, <1>4, FS_CardinalityType, OutboxAssumption

LEMMA StreamVersionGrows ==
    ASSUME NEW k \in Numbers, NEW n \in Numbers, k < n, event[k] = event[n]
    PROVE  StreamVersion(k) < StreamVersion(n)
<1>1. /\ IsFiniteSet(SameResource(k) \cup {n})
      /\ Cardinality(SameResource(k) \cup {n}) = StreamVersion(k) + 1
    <2>1. n \notin SameResource(k)
        BY DEF SameResource, Numbers
    <2> QED BY <2>1, SameResourceFinite, FS_AddElement
<1>2. SameResource(k) \cup {n} \in SUBSET SameResource(n)
    BY DEF SameResource, Numbers
<1>3. StreamVersion(k) + 1 <= StreamVersion(n)
    BY <1>1, <1>2, SameResourceFinite, FS_Subset
<1> QED BY <1>3, SameResourceFinite

LEMMA StreamVersionContinues ==
    ASSUME NEW k \in Numbers, NEW n \in Numbers, k < n, event[k] = event[n],
           \A m \in Numbers : k < m /\ m < n => event[m] # event[n]
    PROVE  StreamVersion(n) = StreamVersion(k) + 1
<1>1. n \notin SameResource(k)
    BY DEF SameResource, Numbers
<1>2. SameResource(n) = SameResource(k) \cup {n}
    BY DEF SameResource, Numbers
<1> QED BY <1>1, <1>2, SameResourceFinite, FS_AddElement

\* A step leaves what readers have seen as it is.
VisibleKept ==
    \A n \in Numbers :
        Visible(n) => /\ Visible(n)'
                      /\ event'[n] = event[n]
                      /\ StreamVersion(n)' = StreamVersion(n)

\* To show VisibleKept it suffices that visible events stay visible: the
\* numbers below are visible too.
LEMMA VisibleKeptIf ==
    ASSUME LogInOrder,
           \A n \in Numbers : Visible(n) => Visible(n)' /\ event'[n] = event[n]
    PROVE  VisibleKept
<1> SUFFICES ASSUME NEW n \in Numbers, Visible(n)
             PROVE  StreamVersion(n)' = StreamVersion(n)
    BY DEF VisibleKept
<1>1. \A m \in Numbers : m <= n => event'[m] = event[m]
    BY VisiblePrefix
<1>2. {m \in Numbers : m <= n /\ event[m] = event[n]}'
        = {m \in Numbers : m <= n /\ event[m] = event[n]}
    <2>1. n <= n /\ event'[n] = event[n]
        BY <1>1 DEF Numbers
    <2>2. \A m \in Numbers : m <= n /\ event'[m] = event'[n]
                               <=> m <= n /\ event[m] = event[n]
        BY <1>1, <2>1
    <2> QED BY <2>2 DEF Numbers
<1> QED BY <1>2 DEF StreamVersion

LEMMA AppendKeeps ==
    ASSUME OutboxTypeOK, LogInOrder, NEW w \in Writers, NEW r \in Resources,
           AppendEvent(w, r)
    PROVE  OutboxTypeOK' /\ LogInOrder' /\ VisibleKept
<1> DEFINE next == Allocated + 1
<1>1. /\ next \in Numbers
      /\ \A n \in Numbers : event[n] # None <=> n < next
    <2> DEFINE S == {n \in Numbers : event[n] # None}
    <2>1. S \in SUBSET Numbers
        OBVIOUS
    <2>2. /\ Greatest(S) \in 0..MaxEvents
          /\ \A n \in S : n <= Greatest(S)
          /\ Greatest(S) # 0 => Greatest(S) \in S
        BY <2>1, GreatestIs
    <2>3. Allocated = Greatest(S) /\ Allocated < MaxEvents
        BY DEF Allocated, AppendEvent
    <2>4. next \in Numbers
        BY <2>2, <2>3, OutboxAssumption DEF Numbers
    <2>5. ASSUME NEW n \in Numbers PROVE event[n] # None <=> n < next
        <3>1. event[n] # None => n < next
            BY <2>2, <2>3, <2>5, OutboxAssumption DEF Numbers
        <3>2. n < next => event[n] # None
            <4> SUFFICES ASSUME n < next PROVE event[n] # None
                OBVIOUS
            <4>1. n <= Greatest(S) /\ Greatest(S) \in S
                BY <2>2, <2>3, <2>5, OutboxAssumption DEF Numbers
            <4> QED BY <4>1, <2>5 DEF LogInOrder, Numbers
        <3> QED BY <3>1, <3>2
    <2> QED BY <2>4, <2>5
<1>2. /\ event' = [event EXCEPT ![next] = r]
      /\ owner' = [owner EXCEPT ![next] = w]
      /\ expired' = expired
      /\ \A n \in Numbers : owner[n] \in {None, w}
    BY DEF AppendEvent, SequenceFree
<1> HIDE DEF next
<1>3. OutboxTypeOK'
    BY <1>1, <1>2 DEF OutboxTypeOK
<1>4. /\ event'[next] = r /\ r # None /\ owner'[next] = w /\ w # None
      /\ \A n \in Numbers : n # next => event'[n] = event[n] /\ owner'[n] = owner[n]
    BY <1>1, <1>2, OutboxAssumption DEF OutboxTypeOK
<1>5. LogInOrder'
    <2>1. \A n \in Numbers : event'[n] # None <=> n <= next
        BY <1>1, <1>4 DEF Numbers
    <2>2. \A m, n \in Numbers : m < n /\ event'[n] # None => event'[m] # None
        BY <1>1, <2>1 DEF Numbers
    <2>3. \A n \in Numbers : owner'[n] # None => event'[n] # None
        BY <1>4 DEF LogInOrder
    <2>4. ASSUME NEW m \in Numbers, NEW n \in Numbers,
                 m < n, owner'[m] # None, event'[n] # None
          PROVE  owner'[n] = owner'[m]
        <3>1. m # next /\ m < next /\ owner[m] = w
            BY <1>1, <1>2, <1>4, <2>1, <2>4 DEF Numbers
        <3>2. CASE n = next
            BY <3>1, <3>2, <1>4
        <3>3. CASE n # next
            BY <3>1, <3>3, <1>4, <2>4 DEF LogInOrder
        <3> QED BY <3>2, <3>3
    <2> QED BY <2>2, <2>3, <2>4 DEF LogInOrder
<1>6. \A n \in Numbers : Visible(n) => Visible(n)' /\ event'[n] = event[n]
    BY <1>1, <1>4 DEF Visible, Numbers
<1> QED BY <1>3, <1>5, <1>6, VisibleKeptIf

LEMMA CommitKeeps ==
    ASSUME OutboxTypeOK, LogInOrder, NEW w \in Writers, Commit(w)
    PROVE  OutboxTypeOK' /\ LogInOrder' /\ VisibleKept
<1>1. /\ event' = event /\ expired' = expired
      /\ owner' = [n \in Numbers |-> IF owner[n] = w THEN None ELSE owner[n]]
    BY DEF Commit
<1>2. OutboxTypeOK'
    BY <1>1 DEF OutboxTypeOK
<1>3. LogInOrder'
    BY <1>1 DEF LogInOrder
<1>4. \A n \in Numbers : Visible(n) => Visible(n)' /\ event'[n] = event[n]
    BY <1>1 DEF Visible
<1> QED BY <1>2, <1>3, <1>4, VisibleKeptIf

LEMMA RollbackKeeps ==
    ASSUME OutboxTypeOK, LogInOrder, NEW w \in Writers, Rollback(w)
    PROVE  OutboxTypeOK' /\ LogInOrder' /\ VisibleKept
<1>1. /\ event' = [n \in Numbers |-> IF owner[n] = w THEN None ELSE event[n]]
      /\ owner' = [n \in Numbers |-> IF owner[n] = w THEN None ELSE owner[n]]
      /\ expired' = expired /\ w # None
    BY OutboxAssumption DEF Rollback
<1>2. OutboxTypeOK'
    BY <1>1 DEF OutboxTypeOK
<1>3. LogInOrder'
    BY <1>1 DEF LogInOrder
<1>4. \A n \in Numbers : Visible(n) => Visible(n)' /\ event'[n] = event[n]
    BY <1>1 DEF Visible
<1> QED BY <1>2, <1>3, <1>4, VisibleKeptIf

LEMMA OutboxKeeps ==
    ASSUME OutboxTypeOK, LogInOrder, OutboxNext \/ UNCHANGED <<event, owner>>,
           expired' \subseteq Numbers
    PROVE  OutboxTypeOK' /\ LogInOrder' /\ VisibleKept
<1>1. CASE UNCHANGED <<event, owner>>
    <2>1. OutboxTypeOK' /\ LogInOrder'
        BY <1>1 DEF OutboxTypeOK, LogInOrder
    <2>2. \A n \in Numbers : Visible(n) => Visible(n)' /\ event'[n] = event[n]
        BY <1>1 DEF Visible
    <2> QED BY <2>1, <2>2, VisibleKeptIf
<1>2. CASE OutboxNext
    BY <1>2, AppendKeeps, CommitKeeps, RollbackKeeps DEF OutboxNext
<1> QED BY <1>1, <1>2

-----------------------------------------------------------------------------
(* The inductive invariant *)

\* What the snapshot has read, or will read, includes every event up to its
\* version.
AnswerCovers ==
    \A n \in 1..answer.version :
        Visible(n) /\ (event[n] \in unread \/ answer.rows[event[n]] >= n)

ChannelIsVisible == \A i \in 1..Len(channel) : Visible(channel[i])

\* A known stream version is the one of the event the resource reflects.
BaselineFits ==
    \A r \in Resources : \A v \in baseline[r] :
        /\ rows[r] \in 1..version
        /\ event[rows[r]] = r
        /\ v = StreamVersion(rows[r])

Covered ==
    /\ TypeOK
    /\ LogInOrder
    /\ NothingIsMissed
    /\ AnswerCovers
    /\ ChannelIsVisible
    /\ BaselineFits

LEMMA CoveredInit == Init => Covered
<1> SUFFICES ASSUME Init PROVE Covered
    OBVIOUS
<1>1. TypeOK
    <2>1. OutboxTypeOK
        BY DEF Init, OutboxInit, OutboxTypeOK
    <2>2. NoRows \in States /\ 0 \in 0..MaxEvents
        BY OutboxAssumption DEF NoRows, States
    <2>3. channel \in Seq(Numbers) /\ baseline \in [Resources -> SUBSET (0..MaxEvents)]
        BY DEF Init
    <2> QED BY <2>1, <2>2, <2>3 DEF Init, TypeOK, Recoveries
<1>2. LogInOrder
    BY DEF Init, OutboxInit, LogInOrder
<1> QED BY <1>1, <1>2 DEF Init, Covered, NothingIsMissed, AnswerCovers,
                         ChannelIsVisible, BaselineFits

\* Versions are bounded, so what they cover are numbers of events.
LEMMA CoversNumbers ==
    ASSUME TypeOK
    PROVE  1..version \subseteq Numbers /\ 1..answer.version \subseteq Numbers
BY OutboxAssumption DEF TypeOK, Numbers

\* A step that keeps what is visible and changes only the outbox.
LEMMA ServerKeeps ==
    ASSUME Covered, OutboxTypeOK', LogInOrder', VisibleKept,
           UNCHANGED <<connection, request, client>>
    PROVE  Covered'
<1> USE DEF connection, request, client
<1>1. TypeOK'
    BY DEF Covered, TypeOK
<1>2. NothingIsMissed'
    BY CoversNumbers DEF Covered, NothingIsMissed, VisibleKept
<1>3. AnswerCovers'
    BY CoversNumbers DEF Covered, AnswerCovers, VisibleKept
<1>4. ChannelIsVisible'
    <2>1. \A i \in 1..Len(channel) : channel[i] \in Numbers
        BY DEF Covered, TypeOK
    <2> QED BY <2>1 DEF Covered, ChannelIsVisible, VisibleKept
<1>5. BaselineFits'
    BY CoversNumbers
       DEF Covered, BaselineFits, NothingIsMissed, VisibleKept
<1> QED BY <1>1, <1>2, <1>3, <1>4, <1>5 DEF Covered

\* When the outbox does not change, neither do the operators on it.
LEMMA OutboxUnchanged ==
    ASSUME UNCHANGED outbox
    PROVE  /\ \A n \in Numbers : Visible(n)' = Visible(n)
           /\ \A n \in Numbers : StreamVersion(n)' = StreamVersion(n)
           /\ OutboxTypeOK' = OutboxTypeOK
           /\ LogInOrder' = LogInOrder
BY DEF outbox, Visible, StreamVersion, OutboxTypeOK, LogInOrder

\* A resource's events up to the version are reflected by its row, so that an
\* event that continues the sequence also continues the stream.
LEMMA ContinuationContinues ==
    ASSUME Covered, NEW n \in Numbers, n = version + 1, Visible(n),
           NEW v \in baseline[event[n]]
    PROVE  StreamVersion(n) = v + 1
<1> DEFINE r == event[n]
           k == rows[r]
<1>1. r \in Resources
    BY DEF Covered, TypeOK, OutboxTypeOK, Visible
<1>2. k \in 1..version /\ event[k] = r /\ v = StreamVersion(k)
    BY <1>1 DEF Covered, BaselineFits
<1>3. k \in Numbers /\ k < n /\ version \in Nat
    BY <1>2, CoversNumbers, OutboxAssumption DEF Covered, TypeOK, Numbers
<1>4. \A m \in Numbers : k < m /\ m < n => event[m] # r
    BY <1>2, <1>3 DEF Covered, NothingIsMissed, Numbers
<1> HIDE DEF k
<1> QED BY <1>2, <1>3, <1>4, StreamVersionContinues

LEMMA ContinuationIsNewer ==
    ASSUME Covered, NEW n \in Numbers, n = version + 1, Visible(n)
    PROVE  Newer(n)
<1> SUFFICES ASSUME NEW v \in baseline[event[n]] PROVE StreamVersion(n) > v
    BY DEF Newer
<1>1. event[n] \in Resources /\ v \in Nat
    BY DEF Covered, TypeOK, OutboxTypeOK, Visible
<1>2. StreamVersion(n) = v + 1
    BY ContinuationContinues
<1> QED BY <1>1, <1>2

\* The messages the client handles are about visible events.
LEMMA ReceivedIsVisible ==
    ASSUME Covered, NEW n \in Numbers, Received(n)
    PROVE  /\ Visible(n)
           /\ Tail(channel) \in Seq(Numbers)
           /\ \A i \in 1..Len(Tail(channel)) : Visible(Tail(channel)[i])
           /\ Tail(channel) # channel
BY DEF Covered, TypeOK, Received, ChannelIsVisible

-----------------------------------------------------------------------------
(* The steps *)

LEMMA SendKeeps == Covered /\ Send => Covered'
<1> SUFFICES ASSUME Covered, Send PROVE Covered'
    OBVIOUS
<1>1. PICK n \in Ahead : channel' = Append(channel, n) /\ cursor' = n
    BY DEF Send
<1>2. n \in Numbers /\ Visible(n) /\ n \in 0..MaxEvents
    BY OutboxAssumption DEF Ahead, Numbers
<1>3. UNCHANGED <<outbox, link, timer, request, client>>
    BY DEF Send
<1>4. TypeOK'
    BY <1>1, <1>2, <1>3, OutboxUnchanged
       DEF Covered, TypeOK, request, client
<1>5. ChannelIsVisible'
    <2>1. channel \in Seq(Numbers)
        BY DEF Covered, TypeOK
    <2>2. ASSUME NEW i \in 1..Len(channel') PROVE Visible(channel'[i])
        BY <1>1, <1>2, <2>1 DEF Covered, ChannelIsVisible
    <2> QED BY <1>3, <2>2 DEF outbox, Visible, ChannelIsVisible
<1>6. NothingIsMissed' /\ AnswerCovers' /\ BaselineFits' /\ LogInOrder'
    BY <1>3, OutboxUnchanged, CoversNumbers
       DEF Covered, NothingIsMissed, AnswerCovers, BaselineFits, LogInOrder,
           outbox, request, client, Visible, StreamVersion
<1> QED BY <1>4, <1>5, <1>6 DEF Covered

\* Steps that change neither the outbox nor the client nor the answer, and
\* only take messages from the channel.
LEMMA LinkKeeps ==
    ASSUME Covered, TypeOK', UNCHANGED <<outbox, answer, unread, client>>,
           \A i \in 1..Len(channel') : Visible(channel'[i])
    PROVE  Covered'
<1>1. ChannelIsVisible'
    BY DEF outbox, Visible, ChannelIsVisible
<1>2. NothingIsMissed' /\ AnswerCovers' /\ LogInOrder'
    BY DEF Covered, NothingIsMissed, AnswerCovers, LogInOrder,
           outbox, client, Visible
<1>3. BaselineFits'
    BY DEF Covered, BaselineFits, outbox, client, StreamVersion
<1> QED BY <1>1, <1>2, <1>3 DEF Covered

LEMMA ReadWatermarkKeeps == Covered /\ ReadWatermark => Covered'
<1> SUFFICES ASSUME Covered, ReadWatermark PROVE Covered'
    OBVIOUS
<1> DEFINE S == {n \in Numbers : Visible(n)}
<1>1. UNCHANGED <<outbox, connection, waiters, client>>
    BY DEF ReadWatermark
<1>2. /\ answer' = [version |-> Greatest(S), rows |-> NoRows]
      /\ unread' = Resources /\ recovery' = "reading"
    BY DEF ReadWatermark, Watermark
<1>3. /\ Greatest(S) \in 0..MaxEvents
      /\ Greatest(S) # 0 => Greatest(S) \in S
    <2>1. S \in SUBSET Numbers
        OBVIOUS
    <2> QED BY <2>1, GreatestIs
<1> HIDE DEF S
<1>4. TypeOK'
    <2>1. NoRows \in States
        BY OutboxAssumption DEF NoRows, States
    <2>2. answer' \in [version : 0..MaxEvents, rows : States]
        BY <1>2, <1>3, <2>1
    <2> QED BY <1>1, <1>2, <2>2, OutboxUnchanged
            DEF Covered, TypeOK, connection, client, Recoveries
<1>5. AnswerCovers'
    <2> SUFFICES ASSUME NEW n \in 1..answer'.version
                 PROVE  Visible(n) /\ event[n] \in Resources
        BY <1>1, <1>2 DEF AnswerCovers, Visible, outbox
    <2>1. n \in 1..Greatest(S) /\ Greatest(S) \in S
        BY <1>2, <1>3
    <2>2. Greatest(S) \in Numbers /\ Visible(Greatest(S))
        BY <2>1 DEF S
    <2>3. n \in Numbers /\ n <= Greatest(S)
        BY <2>1, <2>2, OutboxAssumption DEF Numbers
    <2>4. Visible(n)
        BY <2>2, <2>3, VisiblePrefix DEF Covered
    <2> QED BY <2>3, <2>4 DEF Covered, TypeOK, OutboxTypeOK, Visible
<1>6. NothingIsMissed' /\ ChannelIsVisible' /\ LogInOrder'
    BY <1>1 DEF Covered, NothingIsMissed, ChannelIsVisible, LogInOrder,
                outbox, connection, client, Visible
<1>7. BaselineFits'
    BY <1>1 DEF Covered, BaselineFits, outbox, client, StreamVersion
<1> QED BY <1>4, <1>5, <1>6, <1>7 DEF Covered

\* The row that is read reflects every visible event about the resource.
LEMMA ReadRowsKeeps ==
    ASSUME Covered, NEW r \in Resources, ReadRows(r)
    PROVE  Covered'
<1> DEFINE S == {n \in Numbers : Visible(n) /\ event[n] = r}
<1>1. UNCHANGED <<outbox, connection, recovery, waiters, client>>
    BY DEF ReadRows
<1>2. /\ answer' = [answer EXCEPT !.rows[r] = Greatest(S)]
      /\ unread' = unread \ {r}
    BY DEF ReadRows, Latest
<1>3. /\ Greatest(S) \in 0..MaxEvents
      /\ \A n \in S : n <= Greatest(S)
    <2>1. S \in SUBSET Numbers
        OBVIOUS
    <2> QED BY <2>1, GreatestIs
<1>4. \A n \in Numbers : Visible(n) /\ event[n] = r => n <= Greatest(S)
    BY <1>3
<1> HIDE DEF S
<1>5. answer \in [version : 0..MaxEvents, rows : States]
    BY DEF Covered, TypeOK
<1>6. /\ answer'.version = answer.version
      /\ answer'.rows = [answer.rows EXCEPT ![r] = Greatest(S)]
      /\ answer' \in [version : 0..MaxEvents, rows : States]
    BY <1>2, <1>3, <1>5 DEF States
<1>7. TypeOK'
    BY <1>1, <1>2, <1>6, OutboxUnchanged DEF Covered, TypeOK, connection, client
<1>8. AnswerCovers'
    <2> SUFFICES ASSUME NEW n \in 1..answer.version
                 PROVE  /\ Visible(n)
                        /\ \/ event[n] \in unread'
                           \/ answer'.rows[event[n]] >= n
        BY <1>1, <1>6 DEF AnswerCovers, Visible, outbox
    <2>1. /\ n \in Numbers /\ Visible(n)
          /\ event[n] \in unread \/ answer.rows[event[n]] >= n
        BY CoversNumbers DEF Covered, AnswerCovers
    <2>2. event[n] \in Resources
        BY <2>1 DEF Covered, TypeOK, OutboxTypeOK, Visible
    <2>3. CASE event[n] = r
        BY <1>3, <1>4, <1>5, <1>6, <2>1, <2>3, OutboxAssumption DEF States, Numbers
    <2>4. CASE event[n] # r
        BY <1>2, <1>5, <1>6, <2>1, <2>2, <2>4 DEF States
    <2> QED BY <2>1, <2>3, <2>4
<1>9. NothingIsMissed' /\ ChannelIsVisible' /\ LogInOrder'
    BY <1>1 DEF Covered, NothingIsMissed, ChannelIsVisible, LogInOrder,
                outbox, connection, client, Visible
<1>10. BaselineFits'
    BY <1>1 DEF Covered, BaselineFits, outbox, client, StreamVersion
<1> QED BY <1>7, <1>8, <1>9, <1>10 DEF Covered

\* An answer that is complete covers its version.
LEMMA ApplySnapshotKeeps == Covered /\ ApplySnapshot => Covered'
<1> SUFFICES ASSUME Covered, ApplySnapshot PROVE Covered'
    OBVIOUS
<1>1. /\ unread = {} /\ version' = answer.version /\ rows' = answer.rows
      /\ baseline' = [r \in Resources |-> {}]
      /\ answer' = [version |-> 0, rows |-> NoRows]
      /\ recovery' = "delivering"
      /\ UNCHANGED <<outbox, connection, waiters, unread>>
    BY DEF ApplySnapshot, FreshBaseline
<1>2. NoRows \in States /\ 0 \in 0..MaxEvents
    BY OutboxAssumption DEF NoRows, States
<1>3. TypeOK'
    <2>1. baseline' \in [Resources -> SUBSET (0..MaxEvents)]
        BY <1>1
    <2>2. answer' \in [version : 0..MaxEvents, rows : States]
        BY <1>1, <1>2
    <2>3. version' \in 0..MaxEvents /\ rows' \in States
        BY <1>1 DEF Covered, TypeOK
    <2> QED BY <1>1, <2>1, <2>2, <2>3, OutboxUnchanged
            DEF Covered, TypeOK, connection, Recoveries
<1>4. NothingIsMissed'
    BY <1>1 DEF Covered, AnswerCovers, NothingIsMissed, outbox, Visible
<1>5. AnswerCovers'
    BY <1>1 DEF AnswerCovers
<1>6. ChannelIsVisible' /\ LogInOrder'
    BY <1>1 DEF Covered, ChannelIsVisible, LogInOrder, outbox, connection, Visible
<1>7. BaselineFits'
    BY <1>1 DEF BaselineFits
<1> QED BY <1>3, <1>4, <1>5, <1>6, <1>7 DEF Covered

LEMMA FailRecoveryKeeps == Covered /\ FailRecovery => Covered'
<1> SUFFICES ASSUME Covered, FailRecovery PROVE Covered'
    OBVIOUS
<1>1. /\ recovery' = "none" /\ waiters' = {} /\ unread' = {}
      /\ answer' = [version |-> 0, rows |-> NoRows]
      /\ timer' = (timer \/ Retry)
      /\ UNCHANGED <<outbox, link, cursor, channel, client>>
    BY DEF FailRecovery
<1>2. TypeOK'
    <2>1. answer' \in [version : 0..MaxEvents, rows : States]
        BY <1>1, OutboxAssumption DEF NoRows, States
    <2>2. timer' \in BOOLEAN
        BY <1>1 DEF Covered, TypeOK, Retry
    <2> QED BY <1>1, <2>1, <2>2, OutboxUnchanged
            DEF Covered, TypeOK, client, Recoveries
<1>3. AnswerCovers'
    BY <1>1 DEF AnswerCovers
<1>4. NothingIsMissed' /\ ChannelIsVisible' /\ LogInOrder'
    BY <1>1 DEF Covered, NothingIsMissed, ChannelIsVisible, LogInOrder,
                outbox, client, Visible
<1>5. BaselineFits'
    BY <1>1 DEF Covered, BaselineFits, outbox, client, StreamVersion
<1> QED BY <1>2, <1>3, <1>4, <1>5 DEF Covered

LEMMA ConnectionKeeps ==
    ASSUME Covered,
           \/ CloseExpired \/ Drop \/ EndRecovery \/ Connect \/ ConnectFails
           \/ Foreground \/ Reconnect
    PROVE  Covered'
<1>1. CASE CloseExpired \/ Drop
    <2>1. /\ link' = "closed" /\ timer' = TRUE /\ cursor' = 0 /\ channel' = <<>>
          /\ UNCHANGED <<outbox, request, client>>
        BY <1>1 DEF CloseExpired, Drop, Close
    <2>2. 0 \in 0..MaxEvents /\ <<>> \in Seq(Numbers)
        BY OutboxAssumption
    <2>3. TypeOK'
        BY <2>1, <2>2, OutboxUnchanged DEF Covered, TypeOK, request, client
    <2> QED BY <2>1, <2>3, LinkKeeps DEF request
<1>2. ASSUME EndRecovery \/ Connect \/ ConnectFails \/ Foreground \/ Reconnect
      PROVE  Covered'
    <2>1. UNCHANGED <<outbox, cursor, channel, answer, unread, client>>
        BY <1>2 DEF EndRecovery, Connect, ConnectFails, Foreground, Reconnect,
                    Recover, connection, request
    <2>2. /\ link' \in {"closed", "connecting", "up"} /\ timer' \in BOOLEAN
          /\ recovery' \in Recoveries /\ waiters' \subseteq {Opener, Retrier}
        BY <1>2 DEF EndRecovery, Connect, ConnectFails, Foreground, Reconnect,
                    Recover, Recoveries, connection, request, Covered, TypeOK
    <2>3. TypeOK'
        BY <2>1, <2>2, OutboxUnchanged DEF Covered, TypeOK, client
    <2>4. \A i \in 1..Len(channel') : Visible(channel'[i])
        BY <2>1 DEF Covered, ChannelIsVisible
    <2> QED BY <2>1, <2>3, <2>4, LinkKeeps
<1> QED BY <1>1, <1>2

LEMMA IgnoreEventKeeps ==
    ASSUME Covered, NEW n \in Numbers, IgnoreEvent(n) \/ RecoverFrom(n)
    PROVE  Covered'
<1>1. /\ Received(n) /\ channel' = Tail(channel) /\ channel # <<>>
      /\ UNCHANGED <<outbox, link, timer, cursor, answer, unread, client>>
    BY DEF IgnoreEvent, RecoverFrom, Recover, Received, request
<1>2. recovery' \in Recoveries /\ waiters' \subseteq {Opener, Retrier}
    BY DEF IgnoreEvent, RecoverFrom, Recover, Recoveries, request, Covered, TypeOK
<1>3. TypeOK'
    BY <1>1, <1>2, ReceivedIsVisible, OutboxUnchanged DEF Covered, TypeOK, client
<1>4. \A i \in 1..Len(channel') : Visible(channel'[i])
    BY <1>1, ReceivedIsVisible
<1> QED BY <1>1, <1>3, <1>4, LinkKeeps

\* The event an applied patch reflects is the next one, and newer than the row.
LEMMA ApplyEventKeeps ==
    ASSUME Covered, NEW n \in Numbers, ApplyEvent(n)
    PROVE  Covered'
<1> DEFINE r == event[n]
<1>1. /\ Received(n) /\ n = version + 1 /\ version' = n
      /\ channel' = Tail(channel)
      /\ UNCHANGED <<outbox, link, timer, cursor>>
    BY DEF ApplyEvent, NeedsRecovery
<1>2. Visible(n) /\ r \in Resources /\ version \in Nat /\ n \in 0..MaxEvents
    BY <1>1, ReceivedIsVisible, OutboxAssumption
       DEF Covered, TypeOK, OutboxTypeOK, Visible, Numbers
<1>3. /\ rows' = [rows EXCEPT ![r] = n]
      /\ baseline' = [baseline EXCEPT ![r] = {StreamVersion(n)}]
    BY <1>1, <1>2, ContinuationIsNewer DEF ApplyEvent
<1>4. /\ answer' = answer /\ unread' = unread
      /\ recovery' \in Recoveries /\ waiters' \subseteq {Opener, Retrier}
    BY DEF ApplyEvent, Recover, Recoveries, request, Covered, TypeOK
<1>5. /\ rows \in [Resources -> 0..MaxEvents]
      /\ baseline \in [Resources -> SUBSET (0..MaxEvents)]
      /\ StreamVersion(n) \in 0..MaxEvents
    BY SameResourceFinite DEF Covered, TypeOK, States
<1>6. TypeOK'
    <2>1. rows' \in States /\ baseline' \in [Resources -> SUBSET (0..MaxEvents)]
        BY <1>2, <1>3, <1>5 DEF States
    <2>2. channel' \in Seq(Numbers)
        BY <1>1, ReceivedIsVisible
    <2> QED BY <1>1, <1>2, <1>4, <2>1, <2>2, OutboxUnchanged DEF Covered, TypeOK
<1>7. NothingIsMissed'
    <2> SUFFICES ASSUME NEW m \in 1..n PROVE Visible(m) /\ rows'[event[m]] >= m
        BY <1>1 DEF NothingIsMissed, outbox, Visible
    <2>1. CASE m = n
        BY <2>1, <1>2, <1>3, <1>5
    <2>2. CASE m # n
        <3>1. m \in 1..version /\ m \in Numbers /\ m < n
            BY <2>2, <1>1, <1>2, OutboxAssumption DEF Numbers
        <3>2. Visible(m) /\ rows[event[m]] >= m
            BY <3>1 DEF Covered, NothingIsMissed
        <3>3. event[m] \in Resources
            BY <3>1, <3>2 DEF Covered, TypeOK, OutboxTypeOK, Visible
        <3> QED BY <1>2, <1>3, <1>5, <3>1, <3>2, <3>3
    <2> QED BY <2>1, <2>2
<1>8. BaselineFits'
    <2> SUFFICES ASSUME NEW q \in Resources, NEW v \in baseline'[q]
                 PROVE  /\ rows'[q] \in 1..n
                        /\ event[rows'[q]] = q
                        /\ v = StreamVersion(rows'[q])
        BY <1>1 DEF BaselineFits, outbox, StreamVersion
    <2>1. CASE q = r
        BY <2>1, <1>2, <1>3, <1>5 DEF Numbers
    <2>2. CASE q # r
        <3>1. v \in baseline[q] /\ rows'[q] = rows[q]
            BY <2>2, <1>3, <1>5
        <3>2. /\ rows[q] \in 1..version /\ event[rows[q]] = q
              /\ v = StreamVersion(rows[q])
            BY <3>1 DEF Covered, BaselineFits
        <3> QED BY <3>1, <3>2, <1>1, <1>2
    <2> QED BY <2>1, <2>2
<1>9. AnswerCovers' /\ LogInOrder'
    BY <1>1, <1>4 DEF Covered, AnswerCovers, LogInOrder, outbox, Visible
<1>10. ChannelIsVisible'
    BY <1>1, ReceivedIsVisible DEF ChannelIsVisible, outbox, Visible
<1> QED BY <1>6, <1>7, <1>8, <1>9, <1>10 DEF Covered

-----------------------------------------------------------------------------
(* The theorems *)

LEMMA CoveredStep == Covered /\ [Next]_vars => Covered'
<1> SUFFICES ASSUME Covered, [Next]_vars PROVE Covered'
    OBVIOUS
<1>1. CASE OutboxNext /\ UNCHANGED <<connection, request, client>>
    <2>1. OutboxTypeOK /\ LogInOrder
        BY DEF Covered, TypeOK
    <2>2. expired' \subseteq Numbers
        BY <1>1, <2>1 DEF OutboxNext, AppendEvent, Commit, Rollback, OutboxTypeOK
    <2>3. OutboxTypeOK' /\ LogInOrder' /\ VisibleKept
        BY <1>1, <2>1, <2>2, OutboxKeeps
    <2> QED BY <1>1, <2>3, ServerKeeps
<1>2. ASSUME NEW n \in Numbers, Expire(n) PROVE Covered'
    <2>1. OutboxTypeOK /\ LogInOrder
        BY DEF Covered, TypeOK
    <2>2. /\ UNCHANGED <<event, owner>> /\ expired' \subseteq Numbers
          /\ UNCHANGED <<connection, request, client>>
        BY <1>2, <2>1 DEF Expire, OutboxTypeOK
    <2>3. OutboxTypeOK' /\ LogInOrder' /\ VisibleKept
        BY <2>1, <2>2, OutboxKeeps
    <2> QED BY <2>2, <2>3, ServerKeeps
<1>3. CASE Send \/ ReadWatermark \/ \E r \in Resources : ReadRows(r)
    BY <1>3, SendKeeps, ReadWatermarkKeeps, ReadRowsKeeps
<1>4. CASE ApplySnapshot \/ FailRecovery
    BY <1>4, ApplySnapshotKeeps, FailRecoveryKeeps
<1>5. CASE \/ CloseExpired \/ Drop \/ EndRecovery \/ Connect \/ ConnectFails
           \/ Foreground \/ Reconnect
    BY <1>5, ConnectionKeeps
<1>6. ASSUME NEW n \in Numbers,
             IgnoreEvent(n) \/ RecoverFrom(n) \/ ApplyEvent(n)
      PROVE  Covered'
    BY <1>6, IgnoreEventKeeps, ApplyEventKeeps
<1>7. CASE UNCHANGED vars
    <2>1. OutboxTypeOK /\ LogInOrder
        BY DEF Covered, TypeOK
    <2>2. /\ UNCHANGED <<event, owner>> /\ expired' \subseteq Numbers
          /\ UNCHANGED <<connection, request, client>>
        BY <1>7, <2>1 DEF vars, outbox, OutboxTypeOK
    <2>3. OutboxTypeOK' /\ LogInOrder' /\ VisibleKept
        BY <2>1, <2>2, OutboxKeeps
    <2> QED BY <2>2, <2>3, ServerKeeps
<1> QED BY <1>1, <1>2, <1>3, <1>4, <1>5, <1>6, <1>7
        DEF Next, ServerNext, ClientNext, FaultNext

LEMMA AlwaysCovered == Spec => []Covered
BY CoveredInit, CoveredStep, PTL DEF Spec

\* Every variable of the outbox, the connection and the client keeps its type.
THEOREM TypeCorrect == Spec => []TypeOK
<1>1. Covered => TypeOK
    BY DEF Covered
<1> QED BY <1>1, AlwaysCovered, PTL

\* What the client shows always includes every event up to its version: the
\* lock on the sequence, the watermark that is read before the rows, and the
\* test of the next sequence number are enough, whatever is lost or fails.
THEOREM NothingMissed == Spec => []NothingIsMissed
<1>1. Covered => NothingIsMissed
    BY DEF Covered
<1> QED BY <1>1, AlwaysCovered, PTL

\* One step does not take an event that continues the sequence from the channel
\* without applying it.
LEMMA ContinuationStep ==
    ASSUME Covered, [Next]_vars, NEW n \in Numbers,
           Received(n), n = version + 1, Held(event[n]),
           channel' = Tail(channel), link' = "up"
    PROVE  version' = n /\ rows'[event[n]] = n
<1>1. /\ Visible(n) /\ event[n] \in Resources /\ version \in Nat
      /\ channel \in Seq(Numbers) /\ channel # <<>> /\ Head(channel) = n
    BY ReceivedIsVisible DEF Covered, TypeOK, OutboxTypeOK, Visible, Received
<1>2. ~NeedsRecovery(n)
    <2>1. \A v \in baseline[event[n]] : v \in Nat /\ StreamVersion(n) = v + 1
        BY <1>1, ContinuationContinues DEF Covered, TypeOK
    <2> QED BY <2>1 DEF NeedsRecovery
<1>3. channel' # channel /\ \A k \in Numbers : channel' # Append(channel, k)
    BY <1>1
<1>4. PICK k \in Numbers : IgnoreEvent(k) \/ RecoverFrom(k) \/ ApplyEvent(k)
    <2>1. ~Send
        BY <1>3 DEF Send, Ahead
    <2>2. ~CloseExpired /\ ~Drop
        BY DEF CloseExpired, Drop, Close
    <2> QED BY <1>3, <2>1, <2>2
            DEF Next, ServerNext, ClientNext, FaultNext, Expire, ReadWatermark,
                ReadRows, ApplySnapshot, EndRecovery, Foreground, Reconnect,
                Connect, FailRecovery, ConnectFails, connection, vars
<1>5. k = n
    BY <1>1, <1>4 DEF IgnoreEvent, RecoverFrom, ApplyEvent, Received
<1>6. ApplyEvent(n)
    BY <1>1, <1>2, <1>4, <1>5 DEF IgnoreEvent, RecoverFrom
<1> QED BY <1>1, <1>6, ContinuationIsNewer DEF ApplyEvent, Covered, TypeOK, States

\* The stream versions never disagree with the sequence: the client never drops
\* an event that continues the sequence for a resource it holds.
THEOREM ContinuationApplied == Spec => ContinuationIsApplied
<1>1. Covered /\ [Next]_vars =>
        [\A n \in Numbers :
           Received(n) /\ n = version + 1 /\ Held(event[n])
             /\ channel' = Tail(channel) /\ link' = "up"
           => version' = n /\ rows'[event[n]] = n]_vars
    BY ContinuationStep
<1> QED BY <1>1, AlwaysCovered, PTL DEF Spec, ContinuationIsApplied
=============================================================================
