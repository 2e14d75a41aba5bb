--------------------------- MODULE Cloud115Binding ---------------------------
(***************************************************************************)
(* The administrator's 115 account: the QR sessions that log in            *)
(* (qr_service.py), the binding and its encrypted cookie                   *)
(* (binding_service.py, identity/secrets.py), and the scopes in which a    *)
(* probe or a cache operation uses the cookie while it may be replaced.    *)
(* A cookie is the login it comes from and how often 115 rotated it; both  *)
(* the binding and the setting count the versions of the cookie.           *)
(***************************************************************************)
EXTENDS Naturals, FiniteSets

CONSTANTS Accounts,     \* 115 accounts that may scan
          Qrs,          \* QR sessions
          Scopes,       \* probes and cache operations under way
          Capacity,     \* QrSessionService.capacity
          MaxRotations  \* bound of the model: rotations of one login

VARIABLES binding,  \* the singleton row, or NoBinding
          setting,  \* the EncryptedSetting row of the cookie; version 0: no row
          scopes,   \* what a scope has read: first the binding, then the cookie
          qrs,      \* the QR records and the operation that has a record's lock
          creating, \* creates that wait for 115 (_pending_creates)
          binder,   \* who has _bind_lock
          logins    \* external: how many logins 115 granted

NoCookie  == [account |-> "none", login |-> 0, rotation |-> 0]
NoBinding == [account |-> "none", status |-> "unbound", version |-> 0]
Nobody    == "nobody"
IdleScope == [kind |-> "none", account |-> "none", status |-> "unbound", version |-> 0,
              cookie |-> NoCookie]
NoQr == [listed |-> FALSE, overdue |-> FALSE, status |-> "absent", token |-> FALSE,
         result |-> NoCookie, consumed |-> FALSE, op |-> "none", held |-> NoCookie]

bound  == <<binding, setting>>
qr     == <<qrs, creating, binder, logins>>
vars   == <<bound, scopes, qr>>

Statuses == {"active", "expired", "unavailable", "detached"}
Cookies  == [account : Accounts, login : 1 .. Cardinality(Qrs), rotation : 0 .. MaxRotations]
            \union {NoCookie}
Final == {"expired", "canceled"}

BindingTypeOK ==
  /\ binding \in [account : Accounts, status : Statuses, version : Nat \ {0}] \union {NoBinding}
  /\ setting \in [version : Nat, cookie : Cookies]
  /\ scopes \in [Scopes -> [kind : {"none", "probe", "validate", "operation"},
                            account : Accounts \union {"none"},
                            status : Statuses \union {"unbound"},
                            version : Nat, cookie : Cookies]]
  /\ creating \in SUBSET Qrs /\ binder \in Qrs \union {Nobody}
  /\ qrs \in [Qrs -> [listed : BOOLEAN, overdue : BOOLEAN, token : BOOLEAN, consumed : BOOLEAN,
                      status : {"absent", "waiting", "confirmed"} \union Final,
                      result : Cookies, held : Cookies,
                      op : {"none", "poll", "finish", "save", "root"}]]
  /\ logins \in 0 .. Cardinality(Qrs)

Init ==
  /\ binding = NoBinding /\ setting = [version |-> 0, cookie |-> NoCookie]
  /\ scopes = [s \in Scopes |-> IdleScope]
  /\ qrs = [q \in Qrs |-> NoQr] /\ creating = {} /\ binder = Nobody /\ logins = 0
-----------------------------------------------------------------------------
(* QR sessions. *)

Discarded(record) == [record EXCEPT !.token = FALSE, !.result = NoCookie]
Expired(record)   == Discarded([record EXCEPT !.status = "expired"])

\* _purge_expired: overdue records leave the store, even while an operation runs.
Purged ==
  [q \in Qrs |-> IF qrs[q].listed /\ qrs[q].overdue
                 THEN [Expired(qrs[q]) EXCEPT !.listed = FALSE] ELSE qrs[q]]

Listed(records) == {q \in Qrs : records[q].listed}

Room == Cardinality(Listed(Purged)) + Cardinality(creating) < Capacity

CreateQr(q) ==
  /\ qrs[q].status = "absent" /\ q \notin creating /\ Room
  /\ qrs' = Purged /\ creating' = creating \union {q}
  /\ UNCHANGED <<bound, scopes, binder, logins>>

CreateAnswered(q) ==
  /\ q \in creating /\ creating' = creating \ {q}
  /\ \/ qrs' = [Purged EXCEPT ![q] = [NoQr EXCEPT !.listed = TRUE, !.status = "waiting",
                                                  !.token = TRUE]]
     \/ UNCHANGED qrs
  /\ UNCHANGED <<bound, scopes, binder, logins>>

\* Five minutes pass.
Overdue(q) ==
  /\ qrs[q].listed /\ ~qrs[q].overdue
  /\ qrs' = [qrs EXCEPT ![q].overdue = TRUE]
  /\ UNCHANGED <<bound, scopes, creating, binder, logins>>

\* An operation takes the record's lock, and expires a record that is overdue.
Begin(q, op, ready) ==
  /\ qrs[q].listed /\ qrs[q].op = "none" /\ ~qrs[q].consumed
  /\ \/ qrs[q].overdue /\ qrs' = [qrs EXCEPT ![q] = Expired(@)]
     \/ ~qrs[q].overdue /\ ready
        /\ qrs' = [qrs EXCEPT ![q].op = op, ![q].held = qrs[q].result]
  /\ UNCHANGED <<bound, scopes, creating, binder, logins>>

Open(q) == qrs[q].status \notin Final /\ qrs[q].token

PollQr(q) == Begin(q, "poll", Open(q))

\* What 115 says about the code; expired and cancelled codes lose their secrets.
Told(q, status) ==
  LET told == [qrs[q] EXCEPT !.status = status, !.op = "none", !.held = NoCookie]
  IN  [qrs EXCEPT ![q] = IF status \in Final THEN Discarded(told) ELSE told]

PollAnswered(q) ==
  /\ qrs[q].op = "poll"
  /\ \E status \in {"waiting", "confirmed"} \union Final : qrs' = Told(q, status)
  /\ UNCHANGED <<bound, scopes, creating, binder, logins>>

\* A login that 115 granted but could not be saved is saved by a later confirm.
ConfirmQr(q) ==
  IF qrs[q].result # NoCookie THEN Begin(q, "save", TRUE) ELSE Begin(q, "finish", Open(q))

FinishAnswered(q) ==
  /\ qrs[q].op = "finish"
  /\ \/ /\ qrs[q].status # "confirmed"
        /\ \E status \in {"waiting"} \union Final : qrs' = Told(q, status)
        /\ UNCHANGED logins
     \/ \* finish_qr_session fails
        /\ qrs' = [qrs EXCEPT ![q].status = "confirmed", ![q].op = "none"] /\ UNCHANGED logins
     \/ \E account \in Accounts :
          LET granted == [account |-> account, login |-> logins + 1, rotation |-> 0] IN
          /\ logins' = logins + 1
          /\ qrs' = [qrs EXCEPT ![q].status = "confirmed", ![q].op = "save",
                                ![q].result = granted, ![q].held = granted]
  /\ UNCHANGED <<bound, scopes, creating, binder>>
-----------------------------------------------------------------------------
(* The binding.  The CAS of the cookie is compare_and_set_secret_in_session. *)

OtherAccount(cookie) == binding # NoBinding /\ binding.account # cookie.account

\* Variant: a replaced cookie keeps its version.
SavedSameVersion(version, cookie) ==
  /\ setting.version = version
  /\ setting' = [version |-> version, cookie |-> cookie]

Saved(version, cookie) ==
  /\ setting.version = version
  /\ setting' = [version |-> version + 1, cookie |-> cookie]

\* The setting is cleared, never deleted: its version counts on.
Cleared(version) == Saved(version, NoCookie)

\* The operation ends without a binding and keeps the login for a retry.
BindRefused(q) ==
  qrs' = [qrs EXCEPT ![q].op = "none", ![q].held = NoCookie] /\ UNCHANGED <<bound, logins>>

BindStarts(q) ==
  /\ qrs[q].op = "save" /\ binder = Nobody
  /\ IF OtherAccount(qrs[q].held)
     THEN BindRefused(q) /\ UNCHANGED binder
     ELSE binder' = q /\ qrs' = [qrs EXCEPT ![q].op = "root"] /\ UNCHANGED <<bound, logins>>
  /\ UNCHANGED <<scopes, creating>>

\* Saved, the record is consumed.
Consumed(q) == [qrs EXCEPT ![q].op = "none", ![q].consumed = TRUE,
                           ![q].token = FALSE, ![q].result = NoCookie, ![q].held = NoCookie]

\* The version counts on over an unbinding, whose cleared setting stays.
Expected == IF binding # NoBinding THEN binding.version ELSE setting.version

\* The directory at 115 was not found or made, or the login is saved.
BindEnds(q) ==
  LET cookie == qrs[q].held IN
  /\ qrs[q].op = "root" /\ binder' = Nobody
  /\ \/ BindRefused(q)
     \/ /\ ~OtherAccount(cookie) /\ Saved(Expected, cookie)
        /\ binding' = [account |-> cookie.account, status |-> "active",
                       version |-> setting'.version]
        /\ qrs' = Consumed(q) /\ UNCHANGED logins
  /\ UNCHANGED <<scopes, creating>>

\* Refused while cache jobs hold capacity, which come and go as they like.
Remove ==
  /\ binding # NoBinding
  /\ Cleared(binding.version)
  /\ binding' = NoBinding
  /\ UNCHANGED <<scopes, qr>>
-----------------------------------------------------------------------------
(* Scopes. *)

\* get_secret_in_session, and the version the binding asks for.
Readable(version) == setting.cookie # NoCookie /\ setting.version = version

\* _credential_scope reads the binding, without a lock; an operation refuses an
\* expired or detached one.
OpenScope(s, kind) ==
  /\ scopes[s] = IdleScope /\ binding # NoBinding
  /\ kind = "operation" => binding.status \in {"active", "unavailable"}
  /\ scopes' = [scopes EXCEPT ![s] = [kind |-> kind, account |-> binding.account,
                                      status |-> binding.status, version |-> binding.version,
                                      cookie |-> NoCookie]]
  /\ UNCHANGED <<bound, qr>>

Opening(scope) == scope # IdleScope /\ scope.cookie = NoCookie
Opened(scope)  == scope.cookie # NoCookie

\* A second statement reads the setting.  Of another version, or cleared, it is a
\* state_conflict, for an operation a cloud115_protocol_error: no scope is opened.
ReadCookie(s) ==
  /\ Opening(scopes[s])
  /\ scopes' = [scopes EXCEPT ![s] = IF Readable(scopes[s].version)
                                     THEN [@ EXCEPT !.cookie = setting.cookie] ELSE IdleScope]
  /\ UNCHANGED <<bound, qr>>

\* What the scope may conclude: a probe that could not reach 115 does not
\* recover a detached directory.
Verdicts(scope) ==
  CASE scope.kind = "probe"     -> {"active", "expired", "detached"} \union
                                   (IF scope.status = "detached" THEN {} ELSE {"unavailable"})
    [] scope.kind = "validate"  -> {"active", "detached"}
    [] scope.kind = "operation" -> {"active", "expired", "unavailable"}

\* The client's cookie jar at the end of the scope.
Snapshots(cookie) ==
  {cookie} \union (IF cookie.rotation < MaxRotations
                   THEN {[cookie EXCEPT !.rotation = @ + 1]} ELSE {})

\* What _finish_scope asks of the locked binding.
SameCredential(scope) ==
  /\ binding # NoBinding /\ binding.account = scope.account
  /\ binding.version = scope.version

\* Variant: the binding keeps the version of the cookie it was read with.
ConcludedStatus(status) == binding' = [binding EXCEPT !.status = status]

Concluded(status) ==
  binding' = [binding EXCEPT !.status = status, !.version = setting'.version]

FinishScope(s) ==
  LET scope == scopes[s] IN
  /\ Opened(scope)
  /\ scopes' = [scopes EXCEPT ![s] = IdleScope]
  /\ \/ ~SameCredential(scope) /\ UNCHANGED bound
     \/ /\ SameCredential(scope)
        /\ \E status \in Verdicts(scope), cookie \in Snapshots(scope.cookie) :
             /\ \/ cookie = scope.cookie /\ UNCHANGED setting
                \/ cookie # scope.cookie /\ Saved(scope.version, cookie)
             /\ Concluded(status)
  /\ UNCHANGED qr

\* Another error than a Cloud115Problem leaves the binding alone.
DropScope(s) ==
  /\ Opened(scopes[s])
  /\ scopes' = [scopes EXCEPT ![s] = IdleScope]
  /\ UNCHANGED <<bound, qr>>

Next ==
  \/ \E q \in Qrs : CreateQr(q) \/ CreateAnswered(q) \/ Overdue(q)
                    \/ PollQr(q) \/ PollAnswered(q) \/ ConfirmQr(q) \/ FinishAnswered(q)
                    \/ BindStarts(q) \/ BindEnds(q)
  \/ Remove
  \/ \E s \in Scopes : ReadCookie(s) \/ FinishScope(s) \/ DropScope(s)
                       \/ \E kind \in {"probe", "validate", "operation"} : OpenScope(s, kind)

Spec == Init /\ [][Next]_vars
-----------------------------------------------------------------------------
\* The binding and the encrypted setting tell the same version, and there is a
\* cookie exactly while there is a binding.  Readers lock neither: a commit between
\* their two statements ends them with a conflict (binding_service.py:311), but one
\* that opens a scope has the account and the cookie of its version, and the
\* snapshot that it later saves over that version is of the cookie stored there.
VersionsAgree ==
  /\ (binding = NoBinding) = (setting.cookie = NoCookie)
  /\ binding # NoBinding => binding.version = setting.version
                            /\ binding.account = setting.cookie.account
  /\ \A s \in Scopes : Opened(scopes[s]) =>
       /\ scopes[s].account = scopes[s].cookie.account
       /\ scopes[s].version = setting.version => scopes[s].cookie = setting.cookie

\* "The snapshot of an old probe does not overwrite a new scan" (SESSION-HANDOFF.md:67):
\* while nothing is bound or unbound the stored cookie stays in its login, and
\* its rotations are never undone.
RescanWins ==
  [][(\A q \in Qrs : qrs'[q].consumed = qrs[q].consumed)
       /\ setting.cookie # NoCookie /\ setting'.cookie # NoCookie
     => /\ setting'.cookie.login = setting.cookie.login
        /\ setting'.cookie.rotation >= setting.cookie.rotation]_vars
=============================================================================
