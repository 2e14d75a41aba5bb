------------------------------ MODULE Identity ------------------------------
(***************************************************************************)
(* The administrator's sessions (identity/service.py) and the Windows      *)
(* client that keeps their tokens (api_client.dart, session_store.dart,    *)
(* auth_controller.dart).  A refresh rotates the token of its session, and *)
(* a rotated-out token that comes back revokes the session; so the client  *)
(* runs one refresh at a time, which every refused request joins.  Refresh *)
(* tokens are session and rotation number; writes of the secure storage    *)
(* and of the memory are steps of their own.                               *)
(***************************************************************************)
EXTENDS Naturals, Sequences

CONSTANTS Clients,      \* installations, by client_instance_id
          Slots,        \* the requests a client may have under way
          MaxSessions,  \* bound of the model: logins
          MaxRotations, \* bound of the model: refreshes of one session
          MaxLosses     \* bound of the model: lost answers and restarts

VARIABLES admin,     \* the administrator exists
          epoch,     \* AdminUser.session_epoch
          sessions,  \* the RefreshSession rows
          store,     \* client: SessionStore, access in memory, refresh on disk
          ui,        \* client: AuthSessionState
          user,      \* client: the login, bootstrap or logout under way
          refresh,   \* client: _refreshInFlight
          calls,     \* client, slot: a request, with the access token it failed with
          losses     \* client: answers lost to it and its restarts

Pair   == [session : 0 .. MaxSessions, token : Nat, epoch : Nat]
NoPair == [session |-> 0, token |-> 0, epoch |-> 0]

NoUser    == [kind |-> "none", at |-> "none", pair |-> NoPair]
NoRefresh == [at |-> "none", pair |-> NoPair]
NoCall    == [at |-> "idle", failed |-> NoPair]

server == <<admin, epoch, sessions>>
vars   == <<server, store, ui, user, refresh, calls, losses>>

IdentityTypeOK ==
  /\ admin \in BOOLEAN /\ epoch \in Nat
  /\ sessions \in Seq([client : Clients, token : Nat,
                       revoked : {"no", "login", "logout", "reuse"}])
  /\ store \in [Clients -> [access : Pair, refresh : Pair]]
  /\ ui \in [Clients -> {"starting", "in", "out"}]
  /\ user \in [Clients -> [kind : {"none", "login", "bootstrap", "logout"},
                           at : {"none", "sent", "checked", "answered", "written",
                                 "clear", "cleared"}, pair : Pair]]
  /\ refresh \in [Clients -> [at : {"none", "sent", "answered", "written", "failed",
                                    "cleared"}, pair : Pair]]
  /\ calls \in [Clients -> [Slots -> [at : {"idle", "sent", "refused", "waiting"},
                                      failed : Pair]]]
  /\ losses \in [Clients -> 0 .. MaxLosses]

Init ==
  /\ admin = FALSE /\ epoch = 0 /\ sessions = <<>> 
  /\ store = [c \in Clients |-> [access |-> NoPair, refresh |-> NoPair]]
  /\ ui = [c \in Clients |-> "out"]
  /\ user = [c \in Clients |-> NoUser]
  /\ refresh = [c \in Clients |-> NoRefresh]
  /\ calls = [c \in Clients |-> [r \in Slots |-> NoCall]]
  /\ losses = [c \in Clients |-> 0]
-----------------------------------------------------------------------------
(* The server: one transaction per operator. *)

Revoked(rows, s, why) == [rows EXCEPT ![s].revoked = why]

\* _create_session, after the other sessions of the installation are revoked.
Created(c) ==
  Append([s \in DOMAIN sessions |->
           IF sessions[s].client = c /\ sessions[s].revoked = "no"
           THEN [sessions[s] EXCEPT !.revoked = "login"] ELSE sessions[s]],
         [client |-> c, token |-> 1, revoked |-> "no"])

\* authenticate_access: a token of a live session and of the current epoch, which
\* the logout of any client moves, is refused only when its 15 minutes are over.
Accepted(pair) == sessions[pair.session].revoked = "no" /\ pair.epoch = epoch

\* A login reads the administrator, checks the password, then takes the lock.
ServeCheck(c) ==
  /\ user[c].kind = "login" /\ user[c].at = "sent" /\ admin
  /\ user' = [user EXCEPT ![c].at = "checked", ![c].pair.epoch = epoch]
  /\ UNCHANGED <<server, store, ui, refresh, calls, losses>>

ServeLogin(c) ==
  /\ user[c].at = "checked" /\ Len(sessions) < MaxSessions
  /\ sessions' = Created(c)
  /\ user' = [user EXCEPT ![c].at = "answered",
                          ![c].pair.session = Len(sessions) + 1, ![c].pair.token = 1]
  /\ UNCHANGED <<admin, epoch, store, ui, refresh, calls, losses>>

\* The advisory lock lets one bootstrap through; the others are refused.
ServeBootstrap(c) ==
  /\ user[c].kind = "bootstrap" /\ user[c].at = "sent"
  /\ IF admin
     THEN user' = [user EXCEPT ![c] = NoUser] /\ UNCHANGED server
     ELSE /\ Len(sessions) < MaxSessions
          /\ admin' = TRUE /\ sessions' = Created(c)
          /\ user' = [user EXCEPT ![c].at = "answered",
                       ![c].pair = [session |-> Len(sessions) + 1, token |-> 1, epoch |-> epoch]]
          /\ UNCHANGED epoch
  /\ UNCHANGED <<store, ui, refresh, calls, losses>>

\* Whatever the server says, the client goes on to clear its own tokens.
ServeLogout(c) ==
  /\ user[c].kind = "logout" /\ user[c].at = "sent"
  /\ user' = [user EXCEPT ![c].at = "clear"]
  /\ \/ Accepted(user[c].pair) /\ epoch' = epoch + 1
        /\ sessions' = Revoked(sessions, user[c].pair.session, "logout")
     \/ UNCHANGED <<sessions, epoch>>
  /\ UNCHANGED <<admin, store, ui, refresh, calls, losses>>

ServeRefresh(c) ==
  LET mine == refresh[c].pair
      row  == sessions[mine.session]
      refused == refresh' = [refresh EXCEPT ![c].at = "failed"]
  IN
  /\ refresh[c].at = "sent"
  /\ \/ row.revoked # "no" /\ refused /\ UNCHANGED sessions
     \/ row.revoked = "no" /\ row.token # mine.token
        /\ refused /\ sessions' = Revoked(sessions, mine.session, "reuse")
     \/ /\ row.revoked = "no" /\ row.token = mine.token /\ row.token <= MaxRotations
        /\ sessions' = [sessions EXCEPT ![mine.session].token = @ + 1]
        /\ refresh' = [refresh EXCEPT ![c] =
             [at |-> "answered", pair |-> [session |-> mine.session,
                                           token |-> mine.token + 1, epoch |-> epoch]]]
  /\ UNCHANGED <<admin, epoch, store, ui, user, calls, losses>>
-----------------------------------------------------------------------------
(* The client. *)

StartLogin(c) ==
  /\ ui[c] = "out" /\ user[c] = NoUser
  /\ \E kind \in IF admin THEN {"login"} ELSE {"bootstrap"} :
       user' = [user EXCEPT ![c] = [kind |-> kind, at |-> "sent", pair |-> NoPair]]
  /\ UNCHANGED <<server, store, ui, refresh, calls, losses>>

\* setTokens writes the refresh token and then the access token.
StoreRefresh(c, pair) == store' = [store EXCEPT ![c].refresh = pair]
StoreAccess(c, pair)  == store' = [store EXCEPT ![c].access = pair]

LoginAnswered(c) ==
  /\ user[c].at = "answered"
  /\ StoreRefresh(c, user[c].pair)
  /\ user' = [user EXCEPT ![c].at = "written"]
  /\ UNCHANGED <<server, ui, refresh, calls, losses>>

LoginDone(c) ==
  /\ user[c].at = "written"
  /\ StoreAccess(c, user[c].pair)
  /\ ui' = [ui EXCEPT ![c] = "in"] /\ user' = [user EXCEPT ![c] = NoUser]
  /\ UNCHANGED <<server, refresh, calls, losses>>

\* Without an access token the server is not asked.
StartLogout(c) ==
  /\ ui[c] = "in" /\ user[c] = NoUser
  /\ user' = [user EXCEPT ![c] =
       [kind |-> "logout", pair |-> store[c].access,
        at |-> IF store[c].access = NoPair THEN "clear" ELSE "sent"]]
  /\ UNCHANGED <<server, store, ui, refresh, calls, losses>>

LogoutClears(c) ==
  /\ user[c].at = "clear"
  /\ StoreAccess(c, NoPair)
  /\ user' = [user EXCEPT ![c].at = "cleared"]
  /\ UNCHANGED <<server, ui, refresh, calls, losses>>

LogoutDone(c) ==
  /\ user[c].at = "cleared"
  /\ StoreRefresh(c, NoPair)
  /\ ui' = [ui EXCEPT ![c] = "out"] /\ user' = [user EXCEPT ![c] = NoUser]
  /\ UNCHANGED <<server, refresh, calls, losses>>

\* The requests that joined the refresh are sent again, or fail with it.
Released(c) ==
  [calls EXCEPT ![c] = [r \in Slots |->
     IF calls[c][r].at = "waiting" THEN NoCall ELSE calls[c][r]]]

\* _performRefresh begins by reading the refresh token of the storage.
Started(c) ==
  [refresh EXCEPT ![c] = [at |-> IF store[c].refresh = NoPair THEN "failed" ELSE "sent",
                          pair |-> store[c].refresh]]

\* Variant: a refused request refreshes even while another refresh is under way.
JoinRefreshAlways(c) == refresh' = Started(c)

\* _singleFlightRefresh.
JoinRefresh(c) ==
  refresh' = IF refresh[c].at # "none" THEN refresh ELSE Started(c)

RefreshAnswered(c) ==
  /\ refresh[c].at = "answered"
  /\ StoreRefresh(c, refresh[c].pair)
  /\ refresh' = [refresh EXCEPT ![c].at = "written"]
  /\ UNCHANGED <<server, ui, user, calls, losses>>

RefreshDone(c) ==
  /\ refresh[c].at = "written"
  /\ StoreAccess(c, refresh[c].pair)
  /\ ui' = [ui EXCEPT ![c] = IF @ = "starting" THEN "in" ELSE @]
  /\ refresh' = [refresh EXCEPT ![c] = NoRefresh] /\ calls' = Released(c)
  /\ UNCHANGED <<server, user, losses>>

\* Any exception clears the tokens the store has by then, whoever wrote them.
RefreshFailed(c) ==
  /\ refresh[c].at = "failed"
  /\ StoreAccess(c, NoPair)
  /\ refresh' = [refresh EXCEPT ![c].at = "cleared"]
  /\ UNCHANGED <<server, ui, user, calls, losses>>

RefreshGivenUp(c) ==
  /\ refresh[c].at = "cleared"
  /\ StoreRefresh(c, NoPair)
  /\ ui' = [ui EXCEPT ![c] = IF @ = "starting" THEN "out" ELSE @]
  /\ refresh' = [refresh EXCEPT ![c] = NoRefresh] /\ calls' = Released(c)
  /\ UNCHANGED <<server, user, losses>>

Send(c, r) ==
  /\ calls[c][r] = NoCall /\ ui[c] = "in" /\ store[c].access # NoPair
  /\ calls' = [calls EXCEPT ![c][r] = [at |-> "sent", failed |-> store[c].access]]
  /\ UNCHANGED <<server, store, ui, user, refresh, losses>>

ServeCall(c, r) ==
  /\ calls[c][r].at = "sent"
  /\ \/ Accepted(calls[c][r].failed) /\ calls' = [calls EXCEPT ![c][r] = NoCall]
     \/ calls' = [calls EXCEPT ![c][r].at = "refused"]
  /\ UNCHANGED <<server, store, ui, user, refresh, losses>>

\* A refused request asks for a refresh unless the access token is a newer one;
\* the second sending changes nothing, whatever its answer.
CallRefused(c, r) ==
  /\ calls[c][r].at = "refused"
  /\ IF store[c].access \in {NoPair, calls[c][r].failed}
     THEN JoinRefresh(c) /\ calls' = [calls EXCEPT ![c][r].at = "waiting"]
     ELSE calls' = [calls EXCEPT ![c][r] = NoCall] /\ UNCHANGED refresh
  /\ UNCHANGED <<server, store, ui, user, losses>>

Loss(c) == losses[c] < MaxLosses /\ losses' = [losses EXCEPT ![c] = @ + 1]

\* A refresh does not reach the server, or its answer does not come back.
RefreshLost(c) ==
  /\ refresh[c].at \in {"sent", "answered"} /\ Loss(c)
  /\ refresh' = [refresh EXCEPT ![c].at = "failed"]
  /\ UNCHANGED <<server, store, ui, user, calls>>

\* The same of what the user asked; a logout clears the tokens all the same.
UserLost(c) ==
  /\ user[c].at \in {"sent", "checked", "answered"} /\ Loss(c)
  /\ user' = [user EXCEPT ![c] = IF @.kind = "logout" THEN [@ EXCEPT !.at = "clear"] ELSE NoUser]
  /\ UNCHANGED <<server, store, ui, refresh, calls>>

\* The application is closed, and at its start refreshes with what it finds.
Restart(c) ==
  /\ Loss(c)
  /\ StoreAccess(c, NoPair)
  /\ user' = [user EXCEPT ![c] = NoUser]
  /\ calls' = [calls EXCEPT ![c] = [r \in Slots |-> NoCall]]
  /\ IF store[c].refresh = NoPair
     THEN ui' = [ui EXCEPT ![c] = "out"] /\ refresh' = [refresh EXCEPT ![c] = NoRefresh]
     ELSE ui' = [ui EXCEPT ![c] = "starting"] /\ refresh' = Started(c)
  /\ UNCHANGED server

ClientStep(c) ==
  \/ StartLogin(c) \/ LoginAnswered(c) \/ LoginDone(c)
  \/ StartLogout(c) \/ LogoutClears(c) \/ LogoutDone(c)
  \/ RefreshAnswered(c) \/ RefreshDone(c) \/ RefreshFailed(c) \/ RefreshGivenUp(c)
  \/ \E r \in Slots : Send(c, r) \/ ServeCall(c, r) \/ CallRefused(c, r)

ServerStep(c) ==
  ServeCheck(c) \/ ServeLogin(c) \/ ServeBootstrap(c) \/ ServeLogout(c) \/ ServeRefresh(c)

Next == \E c \in Clients :
  ClientStep(c) \/ ServerStep(c) \/ RefreshLost(c) \/ UserLost(c) \/ Restart(c)

Spec == Init /\ [][Next]_vars
-----------------------------------------------------------------------------
\* A session is revoked for the reuse of its refresh token only when an answer
\* to its client was lost or the client was restarted: concurrent requests,
\* logins and logouts never make the client present a rotated-out token
\* (service.py:320, api_client.dart _singleFlightRefresh).
ReuseMeansLoss ==
  \A s \in DOMAIN sessions :
    sessions[s].revoked = "reuse" => losses[sessions[s].client] > 0
=============================================================================
