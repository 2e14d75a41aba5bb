----------------------------- MODULE EventSync ------------------------------
(***************************************************************************)
(* How the Windows client follows the backend: the websocket that sends    *)
(* the events of the outbox in order (events/websocket.py), the snapshot   *)
(* that is read statement by statement (events/snapshot.py), and the       *)
(* client's EventClient and SnapshotController                             *)
(* (windows/lib/core/events).                                              *)
(*                                                                         *)
(* The client's code runs on one thread, but it is suspended at every      *)
(* await: messages are handled while a recovery is in flight, and whoever  *)
(* asks for a recovery meanwhile joins that one.                           *)
(***************************************************************************)
EXTENDS EventOutbox, Sequences

CONSTANT Faults  \* what may go wrong in this configuration

FaultKinds == {"drop", "refuse", "fail", "fail_retried"}

ASSUME SyncAssumption == Faults \subseteq FaultKinds

VARIABLES
    link,      \* the connection, as the client sees it
    timer,     \* _reconnectTimer is pending
    cursor,    \* websocket handler: the last event it has sent, 0 for none
    channel,   \* events sent and not received yet
    recovery,  \* _recoveryInFlight: none, or how far it has come
    waiters,   \* who connects when it is over: see Opener and Retrier
    answer,    \* the answer of GET /events/snapshot: version and rows
    unread,    \* resources the snapshot service has not read yet
    version,   \* client: snapshotVersion
    rows,      \* client: its resources, by the last event they reflect
    baseline   \* client: _resourceVersions, {} while a version is not known

connection == <<link, timer, cursor, channel>>
request    == <<recovery, waiters, answer, unread>>
client     == <<version, rows, baseline>>
vars == <<outbox, connection, request, client>>

Recoveries == {"none", "asked", "reading", "delivering"}

\* start and a return to the foreground connect after their recovery; the
\* reconnect timer also tries again when it fails.
Opener  == "opener"
Retrier == "retrier"

States == [Resources -> 0..MaxEvents]

TypeOK ==
    /\ OutboxTypeOK
    /\ link \in {"closed", "connecting", "up"}
    /\ timer \in BOOLEAN
    /\ cursor \in 0..MaxEvents
    /\ channel \in Seq(Numbers)
    /\ recovery \in Recoveries
    /\ waiters \subseteq {Opener, Retrier}
    /\ answer \in [version : 0..MaxEvents, rows : States]
    /\ unread \subseteq Resources
    /\ version \in 0..MaxEvents
    /\ rows \in States
    /\ baseline \in [Resources -> SUBSET (0..MaxEvents)]

NoRows == [r \in Resources |-> 0]

\* The application has just called start.
Init ==
    /\ OutboxInit
    /\ link = "closed" /\ timer = FALSE
    /\ cursor = 0 /\ channel = <<>>
    /\ recovery = "asked" /\ waiters = {Opener}
    /\ answer = [version |-> 0, rows |-> NoRows] /\ unread = {}
    /\ version = 0 /\ rows = NoRows
    /\ baseline = [r \in Resources |-> {}]

\* Bound on time: the 30 days of an event are longer than a recovery, the
\* connection that follows it and the sending of the event.
Expire(n) ==
    /\ Visible(n) /\ n \notin expired /\ 1..(n - 1) \subseteq expired
    /\ recovery = "none" /\ link # "connecting"
    /\ link = "up" => n <= cursor
    /\ expired' = expired \cup {n}
    /\ UNCHANGED <<event, owner, connection, request, client>>

-----------------------------------------------------------------------------
(* The websocket handler *)

\* The events read_after returns.
Ahead == {n \in Numbers : Visible(n) /\ n > cursor /\ n \notin expired}

CursorKept == cursor \notin expired

\* _send_available: the next event is sent, and becomes the cursor.
Send ==
    /\ link = "up" /\ CursorKept
    /\ \E n \in Ahead :
        /\ \A m \in Ahead : n <= m
        /\ channel' = Append(channel, n)
        /\ cursor' = n
    /\ UNCHANGED <<outbox, link, timer, request, client>>

Close ==
    /\ link' = "closed" /\ timer' = TRUE
    /\ cursor' = 0 /\ channel' = <<>>

\* EventCursorUnavailable: closed with 4409, after what was sent before.
CloseExpired ==
    /\ link = "up" /\ ~CursorKept /\ channel = <<>>
    /\ Close
    /\ UNCHANGED <<outbox, request, client>>

\* The connection breaks, and what was under way is lost.
Drop ==
    /\ "drop" \in Faults
    /\ link = "up"
    /\ Close
    /\ UNCHANGED <<outbox, request, client>>

-----------------------------------------------------------------------------
(* The snapshot service: one transaction, but each statement sees what is  *)
(* committed when it starts                                                *)

ReadWatermark ==
    /\ recovery = "asked"
    /\ answer' = [version |-> Watermark, rows |-> NoRows]
    /\ unread' = Resources
    /\ recovery' = "reading"
    /\ UNCHANGED <<outbox, connection, waiters, client>>

ReadRows(r) ==
    /\ r \in unread
    /\ r \in Permanent => unread \subseteq Permanent
    /\ answer' = [answer EXCEPT !.rows[r] = Latest(r)]
    /\ unread' = unread \ {r}
    /\ UNCHANGED <<outbox, connection, recovery, waiters, client>>

-----------------------------------------------------------------------------
(* Recovery *)

\* SnapshotController.recover: whoever asks for it joins the one in flight.
Recover(who) ==
    /\ recovery' = IF recovery = "none" THEN "asked" ELSE recovery
    /\ waiters' = waiters \cup who
    /\ UNCHANGED <<answer, unread>>

\* Variant: the resources of a snapshot start at stream version 0.
FreshBaselineZero == [r \in Resources |-> {0}]

\* The stream versions of a snapshot's resources are not known.
FreshBaseline == [r \in Resources |-> {}]

\* _recover: the state is replaced, whatever was applied since the snapshot
\* was read; then the unread notifications are delivered.
ApplySnapshot ==
    /\ recovery = "reading" /\ unread = {}
    /\ version' = answer.version /\ rows' = answer.rows
    /\ baseline' = FreshBaseline
    /\ answer' = [version |-> 0, rows |-> NoRows]
    /\ recovery' = "delivering"
    /\ UNCHANGED <<outbox, connection, waiters, unread>>

\* _clearRecovery, and those who waited go on: _connect does nothing while
\* there is a connection or an attempt to make one.
EndRecovery ==
    /\ recovery = "delivering"
    /\ recovery' = "none" /\ waiters' = {}
    /\ link' = IF link = "closed" /\ waiters # {} THEN "connecting" ELSE link
    /\ UNCHANGED <<outbox, timer, cursor, channel, answer, unread, client>>

\* Variant: a failed reconnect is not tried again.
RetryNever == FALSE

\* The reconnect timer's callback catches the failure and sets the timer again;
\* a failed start, foreground or event is left at that.
Retry == Retrier \in waiters

\* The request for the snapshot fails.
FailRecovery ==
    /\ IF Retrier \in waiters THEN "fail_retried" \in Faults
                               ELSE "fail" \in Faults
    /\ recovery \in {"asked", "reading"}
    /\ recovery' = "none" /\ waiters' = {}
    /\ answer' = [version |-> 0, rows |-> NoRows] /\ unread' = {}
    /\ timer' = (timer \/ Retry)
    /\ UNCHANGED <<outbox, link, cursor, channel, client>>

\* handleVisibility(foreground).
Foreground ==
    /\ Opener \notin waiters
    /\ Recover({Opener})
    /\ UNCHANGED <<outbox, connection, client>>

\* The callback of _reconnectTimer.
Reconnect ==
    /\ timer
    /\ timer' = FALSE
    /\ Recover({Retrier})
    /\ UNCHANGED <<outbox, link, cursor, channel, client>>

\* _connect gives no cursor: everything that is kept will be sent.
Connect ==
    /\ link = "connecting"
    /\ link' = "up"
    /\ UNCHANGED <<outbox, timer, cursor, channel, request, client>>

ConnectFails ==
    /\ "refuse" \in Faults
    /\ link = "connecting"
    /\ link' = "closed" /\ timer' = TRUE
    /\ UNCHANGED <<outbox, cursor, channel, request, client>>

-----------------------------------------------------------------------------
(* SnapshotController.apply of the next message *)

Received(n) == link = "up" /\ channel # <<>> /\ Head(channel) = n

Held(r) == r \in Permanent \/ rows[r] # 0

Newer(n) == \A v \in baseline[event[n]] : StreamVersion(n) > v

\* A jump in the sequence, a resource that is not there, or a jump in its
\* stream version.
NeedsRecovery(n) ==
    \/ n # version + 1
    \/ ~Held(event[n])
    \/ \E v \in baseline[event[n]] : StreamVersion(n) > v + 1

IgnoreEvent(n) ==
    /\ Received(n) /\ n <= version
    /\ channel' = Tail(channel)
    /\ UNCHANGED <<outbox, link, timer, cursor, request, client>>

\* The event itself is dropped.
RecoverFrom(n) ==
    /\ Received(n) /\ n > version /\ NeedsRecovery(n)
    /\ channel' = Tail(channel)
    /\ Recover({})
    /\ UNCHANGED <<outbox, link, timer, cursor, client>>

\* A patch that is not newer only advances the version.  A new status of a
\* cache job is followed by a recovery, which refreshes the queue counts.
ApplyEvent(n) ==
    LET r == event[n] IN
    /\ Received(n) /\ n > version /\ ~NeedsRecovery(n)
    /\ version' = n
    /\ rows' = IF Newer(n) THEN [rows EXCEPT ![r] = n] ELSE rows
    /\ baseline' = IF Newer(n) THEN [baseline EXCEPT ![r] = {StreamVersion(n)}]
                     ELSE baseline
    /\ channel' = Tail(channel)
    /\ \/ UNCHANGED request
       \/ r \in CacheJobs /\ Newer(n) /\ Recover({})
    /\ UNCHANGED <<outbox, link, timer, cursor>>

-----------------------------------------------------------------------------

ServerNext ==
    \/ OutboxNext /\ UNCHANGED <<connection, request, client>>
    \/ \E n \in Numbers : Expire(n)
    \/ Send \/ CloseExpired
    \/ ReadWatermark \/ \E r \in Resources : ReadRows(r)

ClientNext ==
    \/ ApplySnapshot \/ EndRecovery \/ Foreground \/ Reconnect \/ Connect
    \/ \E n \in Numbers : IgnoreEvent(n) \/ RecoverFrom(n) \/ ApplyEvent(n)

FaultNext == Drop \/ FailRecovery \/ ConnectFails

Next == ServerNext \/ ClientNext \/ FaultNext

Spec == Init /\ [][Next]_vars

\* The backend answers and sends, the client's event loop runs, and faults
\* stop at some time.
Fairness ==
    /\ WF_vars(Send \/ CloseExpired)
    /\ WF_vars(ReadWatermark \/ \E r \in Resources : ReadRows(r))
    /\ WF_vars(ApplySnapshot) /\ WF_vars(EndRecovery)
    /\ WF_vars(Reconnect) /\ WF_vars(Connect)
    /\ WF_vars(\E n \in Numbers :
                 IgnoreEvent(n) \/ RecoverFrom(n) \/ ApplyEvent(n))
    /\ <>[][~FaultNext]_vars

FairSpec == Spec /\ Fairness

-----------------------------------------------------------------------------

\* What the client shows includes every event up to its version: no number at
\* or below a version that was ever handed out appears later, and no snapshot
\* or patch takes the client's resources behind its version.
NothingIsMissed ==
    \A n \in 1..version : Visible(n) /\ rows[event[n]] >= n

\* An event that continues the sequence, for a resource the client holds, is
\* always applied: the stream versions never disagree with the sequence, with
\* whatever snapshot it started from.
ContinuationIsApplied ==
    [][\A n \in Numbers :
         Received(n) /\ n = version + 1 /\ Held(event[n])
           /\ channel' = Tail(channel) /\ link' = "up"
         => version' = n /\ rows'[event[n]] = n]_vars

\* A reconnect catches up: what was committed while the connection was closed
\* is held by the client some time later, and from then on, also when it joins
\* a recovery whose snapshot is older.
ReconnectCatchesUp ==
    \A n \in Numbers :
        link = "closed" /\ timer /\ Visible(n) ~> [](version >= n)

\* "When the sequence jumps ... fetch the REST snapshot"
\* (contracts/realtime-events.md, 4.5): a client that receives event n out of
\* sequence gets a snapshot that includes it, unless the connection breaks.
GapIsRecovered ==
    \A n \in Numbers :
        Received(n) /\ n > version + 1
          ~> (\E r \in Resources : event[n] = r /\ rows[r] >= n) \/ link # "up"
=============================================================================
