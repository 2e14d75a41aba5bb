------------------------------ MODULE Playback ------------------------------
(***************************************************************************)
(* Playback sessions, their streams and heartbeats, and the progress of a  *)
(* movie (playback/session.py, heartbeat.py, progress.py), with the        *)
(* Windows player of each installation (player_controller.dart,            *)
(* progress_controller.dart).  Every progress names the version it         *)
(* replaces.  A request is authenticated against the administrator's epoch *)
(* and executed in a later transaction; a request the client gave up may   *)
(* still be executed.  Positions are few; a version stands for what the    *)
(* row said at that version.  That a heartbeat also falls into the creation *)
(* of another session is left out: the finish before it does what it does. *)
(***************************************************************************)
EXTENDS Naturals, Sequences, Functions

CONSTANTS Clients,      \* installations that play the movie
          Positions,    \* positions in seconds a player may be at
          Duration,     \* of the movie in seconds
          MaxVersion,   \* bound of the model: progress updates
          MaxSessions,  \* bound of the model: playback sessions
          MaxFaults     \* bound of the model: requests given up

VARIABLES epoch,     \* AdminUser.session_epoch
          progress,  \* the MoviePlaybackState row, version 0: no row
          sessions,  \* client: its PlaybackSession rows with their leases
          player,    \* client: PlayerController and ProgressController
          request,   \* client: the request at the head of _tail
          late,      \* requests given up by their clients, not yet executed
          seen,      \* history: the versions a client was told
          faults

NoRequest == [kind |-> "none", client |-> "none", session |-> 0, expected |-> 0, epoch |-> 0,
               at |-> "none", version |-> 0]
Closed == [at |-> "closed", session |-> 0, expected |-> 0, manifest |-> 0]

rows == <<epoch, progress, sessions>>
vars == <<rows, player, request, late, seen, faults>>

PlayRequests ==
  [kind : {"beat", "pause", "finish", "create", "none"}, client : Clients \union {"none"},
   session : Nat, expected : 0 .. MaxVersion, epoch : Nat,
   at : {"none", "sent", "admitted", "accepted", "conflict", "error"}, version : 0 .. MaxVersion]

\* A client names only sessions that were created for it.
SessionsExist ==
  /\ \A c \in Clients : /\ player[c].session <= Len(sessions[c])
                        /\ request[c].session <= Len(sessions[c])
  /\ \A req \in late : req.client \in Clients /\ req.session <= Len(sessions[req.client])

PlaybackTypeOK ==
  /\ epoch \in Nat
  /\ progress \in [version : 0 .. MaxVersion, position : Positions \union {0}, completed : BOOLEAN]
  /\ sessions \in [Clients -> Seq([epoch : Nat, lease : {"active", "ended"}])]
  /\ player \in [Clients -> [at : {"closed", "loading", "finishing", "playing", "ended"},
                             session : Nat, expected : 0 .. MaxVersion,
                             manifest : 0 .. MaxVersion]]
  /\ request \in [Clients -> PlayRequests] /\ late \subseteq PlayRequests
  /\ faults \in 0 .. MaxFaults
  /\ SessionsExist

Init ==
  /\ epoch = 0 /\ progress = [version |-> 0, position |-> 0, completed |-> FALSE]
  /\ sessions = [c \in Clients |-> <<>>] /\ player = [c \in Clients |-> Closed]
  /\ request = [c \in Clients |-> NoRequest] /\ late = {}
  /\ seen = [c \in Clients |-> {0}] /\ faults = 0
-----------------------------------------------------------------------------
(* The server. *)

\* completion_state: watched to 95 percent, or less than two minutes remain.
Completed(position) ==
  position > 0 /\ (100 * position >= 95 * Duration \/ Duration - position < 120)

\* Variant: whatever version the row has, it is replaced.
MatchesAny(req) == TRUE

Matches(req) == progress.version = req.expected

\* update_in_session for a request whose version matches, with the position the
\* request carries: any of Positions.
Update ==
  /\ progress.version < MaxVersion
  /\ \E position \in Positions :
       progress' = [version |-> progress.version + 1, completed |-> Completed(position),
                    position |-> IF Completed(position) THEN 0 ELSE position]

\* The session row as the heartbeat finds it; a lapsed lease is renewed as well.
OwnSession(req) ==
  req.session \in DOMAIN sessions[req.client]
  /\ sessions[req.client][req.session].epoch = req.epoch

\* A conflict rolls the lease back with the progress.
Beaten(req) ==
  sessions' = [sessions EXCEPT ![req.client][req.session].lease =
                 IF req.kind = "finish" THEN "ended" ELSE "active"]

\* The sessions that were created; the bound of the model.
Opened == FoldFunction(LAMBDA own, n : Len(own) + n, 0, sessions)

\* create takes the epoch of the authenticated request; the manifest carries
\* the progress of that moment.
Created(req) ==
  /\ Opened < MaxSessions
  /\ sessions' = [sessions EXCEPT ![req.client] =
                    Append(@, [epoch |-> req.epoch, lease |-> "active"])]

\* What the execution of a request does and what it answers.
Execute(req, outcome, version) ==
  \/ /\ req.kind = "create" /\ Created(req)
     /\ outcome = "accepted" /\ version = progress.version /\ UNCHANGED progress
  \/ /\ req.kind = "pause" /\ Matches(req) /\ Update /\ UNCHANGED sessions
     /\ outcome = "accepted" /\ version = progress'.version
  \/ /\ req.kind \in {"beat", "finish"} /\ OwnSession(req)
     /\ Matches(req) /\ Update /\ Beaten(req)
     /\ outcome = "accepted" /\ version = progress'.version
  \/ /\ req.kind = "pause" \/ (req.kind \in {"beat", "finish"} /\ OwnSession(req))
     /\ ~Matches(req) /\ UNCHANGED <<progress, sessions>>
     /\ outcome = "conflict" /\ version = progress.version
  \/ \* the cache job is not ready any more, or the session of an older epoch
     /\ req.kind # "pause"
     /\ UNCHANGED <<progress, sessions>>
     /\ outcome = "error" /\ version = 0

\* current_admin; after a logout the client has signed in again or stops.
Admit(c) ==
  /\ request[c].at = "sent"
  /\ request' = [request EXCEPT ![c].at = "admitted", ![c].epoch = epoch]
  /\ UNCHANGED <<rows, player, late, seen, faults>>

Serve(c) ==
  /\ request[c].at = "admitted"
  /\ \E outcome \in {"accepted", "conflict", "error"}, version \in 0 .. MaxVersion :
       /\ Execute(request[c], outcome, version)
       /\ request' = [request EXCEPT ![c].at = outcome, ![c].version = version]
  /\ UNCHANGED <<epoch, player, late, seen, faults>>

ServeLate(req) ==
  /\ req \in late /\ late' = late \ {req}
  /\ \E outcome \in {"accepted", "conflict", "error"}, version \in 0 .. MaxVersion :
       Execute(req, outcome, version)
  /\ UNCHANGED <<epoch, player, request, seen, faults>>

\* External: the administrator logs out.
Logout ==
  /\ epoch = 0 /\ epoch' = 1
  /\ UNCHANGED <<progress, sessions, player, request, late, seen, faults>>
-----------------------------------------------------------------------------
(* The player of a client: one request at a time. *)

Idle(c) == request[c] = NoRequest

Sent(c, kind) ==
  request' = [request EXCEPT ![c] =
    [NoRequest EXCEPT !.kind = kind, !.client = c, !.session = player[c].session,
                      !.at = "sent", !.expected = player[c].expected]]

\* _load: the first session, or another one for the other mode or after expiry.
\* Nothing is loaded or reported any more when the bounds are used up.
Load(c) ==
  /\ Opened < MaxSessions
  /\ Idle(c) /\ player[c].at \in {"closed", "playing"}
  /\ Sent(c, "create")
  /\ player' = [player EXCEPT ![c].at = "loading"]
  /\ UNCHANGED <<rows, late, seen, faults>>

\* The engine opens the stream, or fails to; attachManifest then expects the
\* version the manifest was made with.
Attached(c, version) ==
  \E opened \in {Closed, [at |-> "playing", session |-> Len(sessions[c]),
                          expected |-> version, manifest |-> 0]} :
    player' = [player EXCEPT ![c] = opened]

\* A manifest arrives; a session that is playing is finished before the new one
\* is attached.
Loaded(c) ==
  /\ request[c].kind = "create" /\ request[c].at = "accepted"
  /\ IF player[c].session = 0
     THEN /\ Attached(c, request[c].version)
          /\ request' = [request EXCEPT ![c] = NoRequest]
     ELSE /\ player' = [player EXCEPT ![c].at = "finishing", ![c].manifest = request[c].version]
          /\ Sent(c, "finish")
  /\ seen' = [seen EXCEPT ![c] = @ \union {request[c].version}]
  /\ UNCHANGED <<rows, late, faults>>

\* The ticker, a pause, the end of the movie or of the page.
Send(c, kind) ==
  /\ progress.version < MaxVersion
  /\ Idle(c) /\ player[c].at = "playing" /\ kind \in {"beat", "pause", "finish"}
  /\ Sent(c, kind)
  /\ player' = [player EXCEPT ![c].at = IF kind = "finish" THEN "ended" ELSE @]
  /\ UNCHANGED <<rows, late, seen, faults>>

\* _apply: the version of the answer, also of a conflict, is the one to replace.
\* A session that was finished is not used again.
Applied(c) ==
  LET told == request[c].at \in {"accepted", "conflict"} /\ request[c].version > 0 IN
  /\ seen' = [seen EXCEPT ![c] = @ \union IF told THEN {request[c].version} ELSE {}]
  /\ CASE player[c].at = "finishing" -> Attached(c, player[c].manifest)
       [] player[c].at = "ended"     -> player' = [player EXCEPT ![c] = Closed]
       [] OTHER -> player' = [player EXCEPT ![c].expected = IF told THEN request[c].version ELSE @]

Answered(c) ==
  /\ request[c].kind \in {"beat", "pause", "finish"}
  /\ request[c].at \in {"accepted", "conflict", "error"}
  /\ Applied(c)
  /\ request' = [request EXCEPT ![c] = NoRequest]
  /\ UNCHANGED <<rows, late, faults>>

LoadFails(c) ==
  /\ request[c].kind = "create" /\ request[c].at = "error"
  /\ player' = [player EXCEPT ![c].at = IF @ = "loading" /\ player[c].session # 0
                                        THEN "playing" ELSE "closed"]
  /\ request' = [request EXCEPT ![c] = NoRequest]
  /\ UNCHANGED <<rows, late, seen, faults>>

\* A time-out or a broken connection: nothing is known of the request.
GiveUp(c) ==
  /\ request[c].at \in {"sent", "admitted", "accepted", "conflict"}
  /\ request[c].kind # "create" /\ faults < MaxFaults /\ faults' = faults + 1
  /\ late' = IF request[c].at = "admitted" THEN late \union {request[c]} ELSE late
  /\ request' = [request EXCEPT ![c].at = "error", ![c].version = 0]
  /\ UNCHANGED <<rows, player, seen>>

Next ==
  \/ Logout
  \/ \E req \in late : ServeLate(req)
  \/ \E c \in Clients :
       \/ Admit(c) \/ Serve(c) \/ Load(c) \/ Loaded(c) \/ LoadFails(c)
       \/ Answered(c) \/ GiveUp(c)
       \/ \E kind \in {"beat", "pause", "finish"} : Send(c, kind)

Spec == Init /\ [][Next]_vars
-----------------------------------------------------------------------------
\* No progress is lost: an update raises the version by one and replaces a
\* state its client was told of, whatever is retried, late or rolled back
\* (progress.py:197, heartbeat.py:105, progress_controller.dart _apply).
NoLostUpdate ==
  [][progress' # progress =>
       /\ progress'.version = progress.version + 1
       /\ \/ \E c \in Clients : request'[c].at = "accepted" /\ request[c].at = "admitted"
                                /\ progress.version \in seen[c]
          \/ \E req \in late \ late' : progress.version \in seen[req.client]]_vars
=============================================================================
