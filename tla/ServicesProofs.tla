--------------------------- MODULE ServicesProofs ---------------------------
(***************************************************************************)
(* What is proved of the composition that the services run checks, for any *)
(* values of its constants: the binding of the 115 account agrees with its *)
(* cookie and a new scan wins, a session is revoked for reuse only after a *)
(* loss, a rejection is permanent, a text is paid for once, an image loses *)
(* its file only to a child without the claim, no progress of its playback *)
(* is lost, the metadata slots are respected, the metadata queue           *)
(* implements the abstract one, and the rows and clients of every part     *)
(* keep their types.                                                       *)
(***************************************************************************)
EXTENDS MCServices, FiniteSetTheorems, SequenceTheorems, TLAPS
-----------------------------------------------------------------------------
(* The 115 account. *)

QrRow == [listed : BOOLEAN, overdue : BOOLEAN, token : BOOLEAN, consumed : BOOLEAN,
          status : {"absent", "waiting", "confirmed"} \union Binding!Final,
          result : Binding!Cookies, held : Binding!Cookies,
          op : {"none", "poll", "finish", "save", "root"}]
ScopeRow == [kind : {"none", "probe", "validate", "operation"},
             account : Accounts \union {"none"}, version : Nat,
             cookie : Binding!Cookies, status : Binding!Statuses \union {"unbound"}]

QrTypes ==
  /\ qrs \in [Qrs -> QrRow] /\ creating \in SUBSET Qrs
  /\ binder \in Qrs \union {Binding!Nobody}
  /\ logins \in 0 .. Binding!Cardinality(Qrs)

BoundTypes ==
  /\ binding \in [account : Accounts, status : Binding!Statuses, version : Nat \ {0}]
                  \union {Binding!NoBinding}
  /\ setting \in [version : Nat, cookie : Binding!Cookies]
  /\ scopes \in [Scopes -> ScopeRow]

\* A QR code that may still grant a login.
MayGrant(q) ==
  \/ qrs[q].status = "absent" \/ qrs[q].op = "finish"
  \/ qrs[q].listed /\ qrs[q].token /\ qrs[q].result = Binding!NoCookie /\ ~qrs[q].consumed
Spent == {q \in Qrs : ~MayGrant(q)}

\* Each QR code grants one login at most.
LoginsCounted == logins <= Cardinality(Spent)

\* A record that was not created yet is untouched.
NotCreated ==
  \A q \in Qrs : /\ qrs[q].status = "absent" => qrs[q] = Binding!NoQr
                 /\ q \in creating => qrs[q].status = "absent"

\* An operation that saves has a login, and its record is not consumed yet.
HeldLogins ==
  \A q \in Qrs : /\ qrs[q].op \in {"save", "root"} => qrs[q].held # Binding!NoCookie
                 /\ qrs[q].op # "none" => ~qrs[q].consumed

QrInv == QrTypes /\ LoginsCounted /\ NotCreated /\ HeldLogins

\* What a scope read of the binding, and then of the cookie, is still so, or the
\* setting has a later version.
ScopesFresh ==
  \A s \in Scopes : scopes[s] # Binding!IdleScope =>
    /\ scopes[s].kind # "none" /\ scopes[s].version <= setting.version
    /\ scopes[s].version = setting.version => scopes[s].account = setting.cookie.account
    /\ scopes[s].cookie # Binding!NoCookie =>
         /\ scopes[s].account = scopes[s].cookie.account
         /\ scopes[s].version = setting.version => scopes[s].cookie = setting.cookie

\* The binding and the setting tell the same version and the same account.
RowsAgree ==
  /\ (binding = Binding!NoBinding) = (setting.cookie = Binding!NoCookie)
  /\ binding # Binding!NoBinding => binding.version = setting.version
                                    /\ binding.account = setting.cookie.account

BoundInv == BoundTypes /\ ScopesFresh /\ RowsAgree

\* Every behaviour of the composition is one of the account.
LEMMA BindingRuns == Spec => Binding!Spec
<1>1. Init => Binding!Init
  BY DEF Init
<1>2. [Next]_vars => [Binding!Next]_(Binding!vars)
  BY DEF Next, vars, bindingVars, Binding!vars, Binding!bound, Binding!qr
<1> QED
  BY <1>1, <1>2, PTL DEF Spec, Binding!Spec

\* The instance's Cardinality is that of FiniteSets.
LEMMA BindingCardinality == \A S : Binding!Cardinality(S) = Cardinality(S)
  BY DEF Binding!Cardinality, Cardinality, Binding!IsFiniteSet, IsFiniteSet

LEMMA CookieTypes ==
  /\ Binding!Cardinality(Qrs) \in Nat
  /\ Binding!NoCookie \in Binding!Cookies
  /\ \A c \in Binding!Cookies :
       /\ c.account \in Accounts \/ c = Binding!NoCookie
       /\ c.login \in Nat /\ c.rotation \in Nat
       /\ c = [account |-> c.account, login |-> c.login, rotation |-> c.rotation]
<1>1. Binding!Cardinality(Qrs) \in Nat
  BY BindingCardinality, FS_CardinalityType, ServicesAssumption DEF ServicesAssumption
<1> QED
  BY <1>1, ServicesAssumption DEF ServicesAssumption, Binding!Cookies, Binding!NoCookie

LEMMA BindingInit == Binding!Init => QrInv /\ BoundInv
<1> SUFFICES ASSUME Binding!Init PROVE QrInv /\ BoundInv
  OBVIOUS
<1> USE DEF Binding!Init
<1>1. QrTypes /\ BoundTypes
  BY CookieTypes DEF QrTypes, BoundTypes, QrRow, ScopeRow, Binding!NoBinding, Binding!NoQr,
     Binding!IdleScope, Binding!Final, Binding!Statuses, Binding!Nobody
<1>2. LoginsCounted
  <2>1. Spent = {}
    BY DEF Spent, MayGrant, Binding!NoQr
  <2> QED
    BY <2>1, FS_EmptySet DEF LoginsCounted
<1>3. NotCreated /\ HeldLogins /\ ScopesFresh /\ RowsAgree
  BY DEF NotCreated, HeldLogins, ScopesFresh, RowsAgree, Binding!NoQr
<1> QED
  BY <1>1, <1>2, <1>3 DEF QrInv, BoundInv

\* The count is kept while no code may grant again, and by a grant.
LEMMA CountKept ==
  ASSUME LoginsCounted, logins \in Nat, logins' = logins,
         \A q \in Qrs : MayGrant(q)' => MayGrant(q)
  PROVE  LoginsCounted'
<1>1. IsFiniteSet(Spent) /\ IsFiniteSet(Spent') /\ Spent \subseteq Spent'
  BY FS_Subset, ServicesAssumption DEF ServicesAssumption, Spent
<1>2. Cardinality(Spent) <= Cardinality(Spent')
  BY <1>1, FS_Subset
<1>3. Cardinality(Spent) \in Nat /\ Cardinality(Spent') \in Nat
  BY <1>1, FS_CardinalityType
<1> QED
  BY <1>2, <1>3 DEF LoginsCounted

LEMMA CountGrant ==
  ASSUME LoginsCounted, logins \in Nat, logins' = logins + 1, NEW q \in Qrs,
         MayGrant(q), ~MayGrant(q)', \A p \in Qrs \ {q} : MayGrant(p)' => MayGrant(p)
  PROVE  LoginsCounted' /\ logins' \in 0 .. Cardinality(Qrs)
<1>1. /\ IsFiniteSet(Qrs) /\ IsFiniteSet(Spent) /\ IsFiniteSet(Spent')
      /\ Spent \subseteq Spent' \ {q} /\ q \in Spent' /\ Spent' \subseteq Qrs
  BY FS_Subset, ServicesAssumption DEF ServicesAssumption, Spent
<1>2. /\ Cardinality(Spent) \in Nat /\ Cardinality(Spent') \in Nat /\ Cardinality(Qrs) \in Nat
      /\ IsFiniteSet(Spent' \ {q})
  BY <1>1, FS_CardinalityType, FS_Subset
<1>3. Cardinality(Spent' \ {q}) = Cardinality(Spent') - 1
  BY <1>1, FS_RemoveElement
<1>4. Cardinality(Spent) <= Cardinality(Spent' \ {q}) /\ Cardinality(Spent') <= Cardinality(Qrs)
  BY <1>1, <1>2, FS_Subset
<1> QED
  BY <1>2, <1>3, <1>4 DEF LoginsCounted

\* What the purge and the discarding of a record leave.
LEMMA DiscardedRows ==
  ASSUME QrTypes
  PROVE  /\ \A r \in QrRow : Binding!Discarded(r) \in QrRow /\ Binding!Expired(r) \in QrRow
         /\ Binding!Purged \in [Qrs -> QrRow]
         /\ \A q \in Qrs : \/ Binding!Purged[q] = qrs[q]
                           \/ /\ qrs[q].listed
                              /\ Binding!Purged[q] = [Binding!Expired(qrs[q]) EXCEPT !.listed = FALSE]
<1>1. \A r \in QrRow : Binding!Discarded(r) \in QrRow /\ Binding!Expired(r) \in QrRow
  BY CookieTypes DEF Binding!Discarded, Binding!Expired, QrRow, Binding!Final
<1>2. \A r \in QrRow : [r EXCEPT !.listed = FALSE] \in QrRow
  BY DEF QrRow
<1> QED
  BY <1>1, <1>2 DEF QrTypes, Binding!Purged

\* A step that changes no grant and touches rows as follows keeps QrInv.
LEMMA QrKept ==
  ASSUME QrInv, logins' = logins, binder' \in Qrs \union {Binding!Nobody},
         creating' \in SUBSET Qrs, qrs' \in [Qrs -> QrRow],
         \A q \in Qrs :
           /\ q \in creating' => qrs'[q].status = "absent"
           /\ qrs'[q].status = "absent" => qrs'[q] = Binding!NoQr
           /\ qrs'[q].op \in {"save", "root"} => qrs'[q].held # Binding!NoCookie
           /\ qrs'[q].op # "none" => ~qrs'[q].consumed
           /\ MayGrant(q)' => MayGrant(q)
  PROVE  QrInv'
<1>1. logins \in Nat
  BY CookieTypes DEF QrInv, QrTypes
<1>2. LoginsCounted'
  BY <1>1, CountKept DEF QrInv
<1>3. Binding!Cardinality(Qrs)' = Binding!Cardinality(Qrs)
  OBVIOUS
<1> QED
  BY <1>2 DEF QrInv, QrTypes, NotCreated, HeldLogins

\* One row changes, and may not grant what it could not grant before.
LEMMA RowChange ==
  ASSUME QrInv, logins' = logins, creating' = creating, binder' \in Qrs \union {Binding!Nobody},
         NEW q \in Qrs, qrs[q].status # "absent",
         NEW row \in QrRow, qrs' = [qrs EXCEPT ![q] = row],
         row.status # "absent",
         row.op \in {"save", "root"} => row.held # Binding!NoCookie,
         row.op # "none" => ~row.consumed,
         \/ MayGrant(q)
         \/ row.op # "finish" /\ ~(row.listed /\ row.token /\ row.result = Binding!NoCookie /\ ~row.consumed)
  PROVE  QrInv'
<1>1. qrs \in [Qrs -> QrRow] /\ creating \in SUBSET Qrs
  BY DEF QrInv, QrTypes
<1>2. qrs' \in [Qrs -> QrRow] /\ qrs'[q] = row /\ \A p \in Qrs \ {q} : qrs'[p] = qrs[p]
  BY <1>1
<1>3. \A p \in Qrs : MayGrant(p)' => MayGrant(p)
  <2> SUFFICES ASSUME NEW p \in Qrs, MayGrant(p)' PROVE MayGrant(p)
    OBVIOUS
  <2>1. CASE p = q
    BY <1>2, <2>1 DEF MayGrant
  <2>2. CASE p # q
    BY <1>2, <2>2 DEF MayGrant
  <2> QED
    BY <2>1, <2>2
<1>4. \A p \in Qrs :
        /\ p \in creating' => qrs'[p].status = "absent"
        /\ qrs'[p].status = "absent" => qrs'[p] = Binding!NoQr
        /\ qrs'[p].op \in {"save", "root"} => qrs'[p].held # Binding!NoCookie
        /\ qrs'[p].op # "none" => ~qrs'[p].consumed
  BY <1>2 DEF QrInv, NotCreated, HeldLogins
<1> QED
  BY <1>1, <1>2, <1>3, <1>4, QrKept

\* What 115 says about a code never lets it grant more.
LEMMA ToldKept ==
  ASSUME QrInv, logins' = logins, creating' = creating, binder' = binder,
         NEW q \in Qrs, qrs[q].status # "absent", MayGrant(q) \/ qrs[q].op = "poll",
         ~qrs[q].consumed,
         NEW status \in {"waiting", "confirmed"} \union Binding!Final,
         qrs' = Binding!Told(q, status)
  PROVE  QrInv'
<1>1. qrs \in [Qrs -> QrRow] /\ binder \in Qrs \union {Binding!Nobody}
  BY DEF QrInv, QrTypes
<1> DEFINE told == [qrs[q] EXCEPT !.status = status, !.op = "none", !.held = Binding!NoCookie]
           row  == IF status \in Binding!Final THEN Binding!Discarded(told) ELSE told
<1>2. told \in QrRow /\ told.status = status /\ told.op = "none" /\ told.listed = qrs[q].listed
      /\ told.token = qrs[q].token /\ told.result = qrs[q].result /\ told.consumed = qrs[q].consumed
  BY <1>1, CookieTypes DEF QrRow, Binding!Final
<1>3. Binding!Discarded(told) \in QrRow
  BY <1>2, DiscardedRows DEF QrInv
<1>4. Binding!Discarded(told).status = status /\ Binding!Discarded(told).op = "none"
      /\ Binding!Discarded(told).token = FALSE
  BY <1>2 DEF Binding!Discarded, QrRow
<1>5. row \in QrRow /\ row.status # "absent" /\ row.op = "none"
  BY <1>2, <1>3, <1>4 DEF Binding!Final
<1>6. qrs' = [qrs EXCEPT ![q] = row]
  BY <1>1 DEF Binding!Told
<1>7. \/ MayGrant(q)
      \/ ~(row.listed /\ row.token /\ row.result = Binding!NoCookie /\ ~row.consumed)
  BY <1>2, <1>4 DEF MayGrant
<1> HIDE DEF told, row
<1> QED
  BY <1>1, <1>5, <1>6, <1>7, RowChange

\* An operation begins, or the record expires, and grants no more than before.
LEMMA BeginKept ==
  ASSUME QrInv, NEW q \in Qrs, NEW op \in {"poll", "finish", "save"}, NEW ready \in BOOLEAN,
         Binding!Begin(q, op, ready),
         op = "save" => qrs[q].result # Binding!NoCookie,
         op = "finish" /\ ready => qrs[q].token /\ qrs[q].result = Binding!NoCookie
  PROVE  QrInv'
<1>1. /\ qrs \in [Qrs -> QrRow] /\ binder \in Qrs \union {Binding!Nobody}
      /\ qrs[q].status # "absent" /\ qrs[q].listed /\ ~qrs[q].consumed /\ qrs[q].op = "none"
  BY DEF QrInv, QrTypes, NotCreated, Binding!NoQr, Binding!Begin
<1>2. logins' = logins /\ creating' = creating /\ binder' = binder
  BY DEF Binding!Begin
<1>3. CASE qrs' = [qrs EXCEPT ![q] = Binding!Expired(@)]
  <2> DEFINE row == Binding!Expired(qrs[q])
  <2>1. row \in QrRow /\ qrs' = [qrs EXCEPT ![q] = row]
    BY <1>1, <1>3, DiscardedRows DEF QrInv
  <2>2. row.status = "expired" /\ row.op = "none" /\ row.token = FALSE
    BY <1>1 DEF QrRow, Binding!Expired, Binding!Discarded
  <2> HIDE DEF row
  <2> QED
    BY <1>1, <1>2, <2>1, <2>2, RowChange
<1>4. CASE ready /\ qrs' = [qrs EXCEPT ![q].op = op, ![q].held = qrs[q].result]
  <2> DEFINE row == [qrs[q] EXCEPT !.op = op, !.held = qrs[q].result]
  <2>1. row \in QrRow /\ qrs' = [qrs EXCEPT ![q] = row]
    BY <1>1, <1>4 DEF QrRow
  <2>2. /\ row.status = qrs[q].status /\ row.op = op /\ row.token = qrs[q].token
        /\ row.listed = qrs[q].listed /\ row.result = qrs[q].result /\ row.held = qrs[q].result
        /\ row.consumed = qrs[q].consumed
    BY <1>1 DEF QrRow
  <2> HIDE DEF row
  <2>3. \/ MayGrant(q)
        \/ row.op # "finish" /\ ~(row.listed /\ row.token /\ row.result = Binding!NoCookie /\ ~row.consumed)
    BY <1>1, <1>4, <2>2 DEF MayGrant
  <2> QED
    BY <1>1, <1>2, <2>1, <2>2, <2>3, RowChange
<1> QED
  BY <1>3, <1>4 DEF Binding!Begin

\* Overdue records leave the store, and one row may be created besides.
LEMMA PurgeKept ==
  ASSUME QrInv, logins' = logins, binder' = binder,
         creating' \in SUBSET Qrs, \A q \in creating' : q \in creating \/ qrs[q].status = "absent",
         \/ qrs' = qrs \/ qrs' = Binding!Purged
         \/ \E q \in creating \ creating' :
              qrs' = [Binding!Purged EXCEPT ![q] = [Binding!NoQr EXCEPT !.listed = TRUE, !.status = "waiting",
                                                                      !.token = TRUE]]
  PROVE  QrInv'
<1> DEFINE new == [Binding!NoQr EXCEPT !.listed = TRUE, !.status = "waiting", !.token = TRUE]
           gone(q) == [Binding!Expired(qrs[q]) EXCEPT !.listed = FALSE]
<1>1. /\ qrs \in [Qrs -> QrRow] /\ creating \in SUBSET Qrs /\ binder \in Qrs \union {Binding!Nobody}
      /\ Binding!Purged \in [Qrs -> QrRow]
  BY DiscardedRows DEF QrInv, QrTypes
<1>2. new \in QrRow /\ new.status = "waiting" /\ new.op = "none"
  BY CookieTypes DEF QrRow, Binding!NoQr
<1>3. \A q \in Qrs : /\ gone(q).status = "expired" /\ gone(q).op = qrs[q].op /\ gone(q).listed = FALSE
                     /\ gone(q).held = qrs[q].held /\ gone(q).consumed = qrs[q].consumed
  BY <1>1 DEF QrRow, Binding!Expired, Binding!Discarded
<1>4. \A q \in Qrs :
        \/ qrs'[q] = qrs[q]
        \/ qrs[q].listed /\ qrs'[q] = gone(q)
        \/ q \in creating \ creating' /\ qrs'[q] = new
  <2>1. \A q \in Qrs :
          \/ Binding!Purged[q] = qrs[q]
          \/ qrs[q].listed /\ Binding!Purged[q] = gone(q)
    BY DiscardedRows DEF QrInv
  <2>2. CASE qrs' = qrs \/ qrs' = Binding!Purged
    BY <2>1, <2>2
  <2>3. CASE \E p \in creating \ creating' : qrs' = [Binding!Purged EXCEPT ![p] = new]
    <3> HIDE DEF new, gone
    <3> QED
      BY <1>1, <2>1, <2>3
  <2> QED
    BY <2>2, <2>3
<1>5. qrs' \in [Qrs -> QrRow]
  BY <1>1, <1>2
<1> HIDE DEF new, gone
<1>6. ASSUME NEW q \in Qrs
      PROVE /\ q \in creating' => qrs'[q].status = "absent"
            /\ qrs'[q].status = "absent" => qrs'[q] = Binding!NoQr
            /\ qrs'[q].op \in {"save", "root"} => qrs'[q].held # Binding!NoCookie
            /\ qrs'[q].op # "none" => ~qrs'[q].consumed
            /\ MayGrant(q)' => MayGrant(q)
  <2>1. /\ qrs[q].status = "absent" => qrs[q] = Binding!NoQr
        /\ q \in creating => qrs[q].status = "absent"
        /\ qrs[q].op \in {"save", "root"} => qrs[q].held # Binding!NoCookie
        /\ qrs[q].op # "none" => ~qrs[q].consumed
    BY DEF QrInv, NotCreated, HeldLogins
  <2>2. CASE qrs'[q] = qrs[q]
    BY <2>1, <2>2 DEF MayGrant
  <2>3. CASE qrs[q].listed /\ qrs'[q] = gone(q)
    BY <1>3, <2>1, <2>3 DEF MayGrant, Binding!NoQr
  <2>4. CASE q \in creating \ creating' /\ qrs'[q] = new
    BY <1>2, <2>1, <2>4 DEF MayGrant
  <2> QED
    BY <1>4, <2>2, <2>3, <2>4
<1> QED
  BY <1>1, <1>5, <1>6, QrKept

\* The QR sessions and the saving of a login keep QrInv.
LEMMA QrStep == QrInv /\ [Binding!Next]_(Binding!vars) => QrInv'
<1> SUFFICES ASSUME QrInv, [Binding!Next]_(Binding!vars) PROVE QrInv'
  OBVIOUS
<1> USE DEF Binding!bound, Binding!qr
<1>0. /\ qrs \in [Qrs -> QrRow] /\ creating \in SUBSET Qrs
      /\ binder \in Qrs \union {Binding!Nobody}
      /\ logins \in Nat
  BY CookieTypes DEF QrInv, QrTypes
<1>1. CASE UNCHANGED Binding!qr
  BY <1>1 DEF QrInv, QrTypes, LoginsCounted, Spent, MayGrant, NotCreated, HeldLogins
<1>21. \A q \in Qrs : /\ qrs[q].listed \/ qrs[q].op # "none" => qrs[q].status # "absent"
                      /\ qrs[q].op # "none" => ~qrs[q].consumed
  BY DEF QrInv, NotCreated, HeldLogins, Binding!NoQr
<1>2. ASSUME NEW q \in Qrs, Binding!CreateQr(q) \/ Binding!CreateAnswered(q) PROVE QrInv'
  BY <1>0, <1>2, PurgeKept DEF Binding!CreateQr, Binding!CreateAnswered
<1>4. ASSUME NEW q \in Qrs, Binding!Overdue(q) PROVE QrInv'
  <2> DEFINE row == [qrs[q] EXCEPT !.overdue = TRUE]
  <2>1. row \in QrRow /\ qrs' = [qrs EXCEPT ![q] = row]
    BY <1>0, <1>4 DEF QrRow, Binding!Overdue
  <2>2. /\ row.status = qrs[q].status /\ row.op = qrs[q].op /\ row.token = qrs[q].token
        /\ row.listed = qrs[q].listed /\ row.result = qrs[q].result /\ row.held = qrs[q].held
        /\ row.consumed = qrs[q].consumed
    BY <1>0 DEF QrRow
  <2> HIDE DEF row
  <2>3. /\ qrs[q].status # "absent" /\ logins' = logins /\ creating' = creating /\ binder' = binder
    BY <1>4, <1>21 DEF Binding!Overdue
  <2>4. /\ row.status # "absent"
        /\ row.op \in {"save", "root"} => row.held # Binding!NoCookie
        /\ row.op # "none" => ~row.consumed
    BY <2>2, <2>3 DEF QrInv, HeldLogins
  <2>5. \/ MayGrant(q)
        \/ row.op # "finish" /\ ~(row.listed /\ row.token /\ row.result = Binding!NoCookie /\ ~row.consumed)
    BY <2>2 DEF MayGrant
  <2> QED
    BY <1>0, <2>1, <2>3, <2>4, <2>5, RowChange
<1>5. ASSUME NEW q \in Qrs, Binding!PollQr(q) PROVE QrInv'
  BY <1>0, <1>5, BeginKept DEF Binding!PollQr, Binding!Open
<1>6. ASSUME NEW q \in Qrs, Binding!PollAnswered(q) PROVE QrInv'
  BY <1>0, <1>6, <1>21, ToldKept DEF Binding!PollAnswered
<1>7. ASSUME NEW q \in Qrs, Binding!ConfirmQr(q) PROVE QrInv'
  <2>1. CASE qrs[q].result # Binding!NoCookie
    BY <1>7, <2>1, BeginKept DEF Binding!ConfirmQr
  <2>2. CASE qrs[q].result = Binding!NoCookie
    <3>1. Binding!Open(q) \in BOOLEAN /\ (Binding!Open(q) => qrs[q].token)
      BY <1>0 DEF Binding!Open, QrRow
    <3> QED
      BY <1>7, <2>2, <3>1, BeginKept DEF Binding!ConfirmQr
  <2> QED
    BY <2>1, <2>2
<1>8. ASSUME NEW q \in Qrs, Binding!FinishAnswered(q) PROVE QrInv'
  <2>1. CASE UNCHANGED logins
    <3>1. qrs[q].op = "finish" /\ MayGrant(q) /\ ~qrs[q].consumed
      BY <1>8 DEF Binding!FinishAnswered, MayGrant, QrInv, HeldLogins
    <3>2. \A status \in {"waiting"} \union Binding!Final : Binding!Told(q, status) = qrs' => QrInv'
      BY <1>0, <1>8, <1>21, <2>1, <3>1, ToldKept DEF Binding!FinishAnswered
    <3>3. ASSUME qrs' = [qrs EXCEPT ![q].status = "confirmed", ![q].op = "none"] PROVE QrInv'
      <4> DEFINE row == [qrs[q] EXCEPT !.status = "confirmed", !.op = "none"]
      <4>1. row \in QrRow /\ row.status # "absent" /\ row.op = "none" /\ qrs' = [qrs EXCEPT ![q] = row]
        BY <1>0, <3>3 DEF QrRow
      <4> HIDE DEF row
      <4> QED
        BY <1>0, <1>8, <1>21, <2>1, <3>1, <4>1, RowChange DEF Binding!FinishAnswered
    <3>4. logins + 1 # logins
      BY <1>0
    <3> QED
      BY <1>8, <2>1, <3>2, <3>3, <3>4 DEF Binding!FinishAnswered
  <2>2. CASE ~UNCHANGED logins
    <3>1. PICK account \in Accounts :
            LET granted == [account |-> account, login |-> logins + 1, rotation |-> 0] IN
            /\ logins' = logins + 1
            /\ qrs' = [qrs EXCEPT ![q].status = "confirmed", ![q].op = "save",
                                  ![q].result = granted, ![q].held = granted]
      BY <1>8, <2>2 DEF Binding!FinishAnswered
    <3> DEFINE granted == [account |-> account, login |-> logins + 1, rotation |-> 0]
           row     == [qrs[q] EXCEPT !.status = "confirmed", !.op = "save",
                                     !.result = granted, !.held = granted]
    <3>2. granted # Binding!NoCookie
      BY <1>0 DEF Binding!NoCookie
    <3>3. /\ row.status = "confirmed" /\ row.op = "save" /\ row.result = granted /\ row.held = granted
          /\ row.consumed = qrs[q].consumed
      BY <1>0 DEF QrRow
    <3>4. qrs' = [qrs EXCEPT ![q] = row]
      BY <1>0, <3>1
    <3>5. /\ qrs[q].op = "finish" /\ creating' = creating /\ binder' = binder
      BY <1>8 DEF Binding!FinishAnswered
    <3>6. qrs'[q] = row /\ \A p \in Qrs \ {q} : qrs'[p] = qrs[p]
      BY <1>0, <3>4
    <3>12. granted \in Binding!Cookies => row \in QrRow
      BY <1>0 DEF QrRow
    <3>13. logins + 1 \in 1 .. Cardinality(Qrs) => granted \in Binding!Cookies
      BY <3>1, BindingCardinality, ServicesAssumption DEF Binding!Cookies, ServicesAssumption
    <3> HIDE DEF granted, row
    <3>7. MayGrant(q) /\ ~MayGrant(q)' /\ \A p \in Qrs \ {q} : MayGrant(p)' => MayGrant(p)
      BY <3>2, <3>3, <3>5, <3>6 DEF MayGrant
    <3>8. LoginsCounted' /\ logins' \in 0 .. Cardinality(Qrs)
      BY <1>0, <3>1, <3>7, CountGrant DEF QrInv
    <3>9. row \in QrRow
      BY <1>0, <3>1, <3>8, <3>12, <3>13
    <3>10. qrs' \in [Qrs -> QrRow]
      BY <1>0, <3>4, <3>9
    <3>11. NotCreated' /\ HeldLogins'
      <4> SUFFICES ASSUME NEW p \in Qrs
                   PROVE /\ qrs'[p].status = "absent" => qrs'[p] = Binding!NoQr
                         /\ p \in creating => qrs'[p].status = "absent"
                         /\ qrs'[p].op \in {"save", "root"} => qrs'[p].held # Binding!NoCookie
                         /\ qrs'[p].op # "none" => ~qrs'[p].consumed
        BY <3>5 DEF NotCreated, HeldLogins
      <4>1. CASE p = q
        BY <1>21, <3>2, <3>3, <3>5, <3>6, <4>1 DEF QrInv, NotCreated
      <4>2. CASE p # q
        BY <3>6, <4>2 DEF QrInv, NotCreated, HeldLogins
      <4> QED
        BY <4>1, <4>2
    <3> QED
      BY <1>0, <3>5, <3>8, <3>10, <3>11, BindingCardinality DEF QrInv, QrTypes
  <2> QED
    BY <2>1, <2>2
<1>9. ASSUME NEW q \in Qrs, Binding!BindStarts(q) \/ Binding!BindEnds(q) PROVE QrInv'
  <2>1. qrs[q].op \in {"save", "root"} /\ qrs[q].status # "absent" /\ ~qrs[q].consumed
        /\ qrs[q].held # Binding!NoCookie
    BY <1>9, <1>21 DEF Binding!BindStarts, Binding!BindEnds, QrInv, HeldLogins
  <2>2. binder' \in Qrs \union {Binding!Nobody} /\ creating' = creating /\ logins' = logins
    BY <1>0, <1>9 DEF Binding!BindStarts, Binding!BindEnds, Binding!BindRefused
  <2>3. PICK row \in {[qrs[q] EXCEPT !.op = "none", !.held = Binding!NoCookie],
                      [qrs[q] EXCEPT !.op = "root"],
                      [qrs[q] EXCEPT !.op = "none", !.consumed = TRUE, !.token = FALSE,
                                     !.result = Binding!NoCookie, !.held = Binding!NoCookie]} :
          qrs' = [qrs EXCEPT ![q] = row]
    BY <1>0, <1>9 DEF Binding!BindStarts, Binding!BindEnds, Binding!BindRefused, Binding!Consumed
  <2>4. /\ row \in QrRow /\ row.status = qrs[q].status /\ row.op \in {"none", "root"}
        /\ row.op = "root" => row.held = qrs[q].held /\ row.consumed = qrs[q].consumed
        /\ row.listed = qrs[q].listed
        /\ row.token => row.token = qrs[q].token /\ row.result = qrs[q].result
    <3>1. qrs[q] \in QrRow /\ Binding!NoCookie \in Binding!Cookies
      BY <1>0, CookieTypes
    <3>2. CASE row = [qrs[q] EXCEPT !.op = "none", !.held = Binding!NoCookie]
      BY <3>1, <3>2 DEF QrRow
    <3>3. CASE row = [qrs[q] EXCEPT !.op = "root"]
      BY <3>1, <3>3 DEF QrRow
    <3>4. CASE row = [qrs[q] EXCEPT !.op = "none", !.consumed = TRUE, !.token = FALSE,
                                    !.result = Binding!NoCookie, !.held = Binding!NoCookie]
      BY <3>1, <3>4 DEF QrRow
    <3> QED
      BY <2>3, <3>2, <3>3, <3>4
  <2> QED
    BY <1>0, <2>1, <2>2, <2>3, <2>4, RowChange DEF MayGrant
<1>11. CASE Binding!Remove \/ \E s \in Scopes : \/ Binding!FinishScope(s) \/ Binding!DropScope(s)
                                                \/ Binding!ReadCookie(s)
                                                \/ \E kind \in {"probe", "validate", "operation"} :
                                                     Binding!OpenScope(s, kind)
  BY <1>1, <1>11 DEF Binding!Remove, Binding!FinishScope, Binding!DropScope, Binding!OpenScope,
     Binding!ReadCookie
<1> QED
  BY <1>1, <1>2, <1>4, <1>5, <1>6, <1>7, <1>8, <1>9, <1>11 DEF Binding!Next, Binding!vars

LEMMA IdleRow == Binding!IdleScope \in ScopeRow
  BY CookieTypes DEF ScopeRow, Binding!IdleScope

\* Saving a cookie over the version the setting has.
LEMMA SavedBinding ==
  ASSUME BoundInv, NEW version, NEW cookie \in Binding!Cookies, Binding!Saved(version, cookie),
         cookie # Binding!NoCookie, NEW status \in Binding!Statuses,
         binding' \in {[account |-> cookie.account, status |-> status, version |-> setting'.version]},
         scopes' = scopes \/ \E s \in Scopes : scopes' = [scopes EXCEPT ![s] = Binding!IdleScope]
  PROVE  BoundInv'
<1>1. /\ setting.version \in Nat /\ version = setting.version
      /\ setting' = [version |-> version + 1, cookie |-> cookie]
  BY DEF BoundInv, BoundTypes, Binding!Saved
<1>2. /\ setting'.version = setting.version + 1 /\ setting'.cookie = cookie
      /\ setting' \in [version : Nat, cookie : Binding!Cookies]
  BY <1>1
<1>3. cookie.account \in Accounts
  BY CookieTypes
<1>4. /\ binding' \in [account : Accounts, status : Binding!Statuses, version : Nat \ {0}]
      /\ binding'.version = setting'.version /\ binding'.account = cookie.account
      /\ binding'.status = status
  BY <1>1, <1>2, <1>3
<1>5. binding' # Binding!NoBinding
  BY <1>4 DEF Binding!NoBinding, Binding!Statuses
<1>6. RowsAgree'
  BY <1>2, <1>4, <1>5 DEF RowsAgree
<1>7. \A s \in Scopes : scopes'[s] = scopes[s] \/ scopes'[s] = Binding!IdleScope
  BY DEF BoundInv, BoundTypes
<1>8. scopes' \in [Scopes -> ScopeRow]
  BY IdleRow DEF BoundInv, BoundTypes
<1>9. ScopesFresh'
  <2> SUFFICES ASSUME NEW s \in Scopes, scopes'[s] # Binding!IdleScope
               PROVE /\ scopes'[s].kind # "none" /\ scopes'[s].version < setting'.version
                     /\ scopes'[s].cookie # Binding!NoCookie =>
                          scopes'[s].account = scopes'[s].cookie.account
    BY <1>2, <1>8 DEF ScopesFresh, ScopeRow, BoundInv, BoundTypes
  <2>1. scopes'[s] = scopes[s] /\ scopes[s].version \in Nat
    BY <1>7 DEF BoundInv, BoundTypes, ScopeRow
  <2> QED
    BY <1>1, <1>2, <2>1 DEF BoundInv, ScopesFresh
<1> QED
  BY <1>2, <1>4, <1>6, <1>8, <1>9 DEF BoundInv, BoundTypes

\* A step that leaves the binding alone, and may end a scope.
LEMMA ScopeEnds ==
  ASSUME BoundInv, UNCHANGED setting,
         binding' = binding \/ \E status \in Binding!Statuses :
           binding # Binding!NoBinding
           /\ binding' = [binding EXCEPT !.status = status, !.version = setting'.version],
         scopes' = scopes \/ \E s \in Scopes : scopes' = [scopes EXCEPT ![s] = Binding!IdleScope]
  PROVE  BoundInv'
<1>1. \A s \in Scopes : scopes'[s] = scopes[s] \/ scopes'[s] = Binding!IdleScope
  BY DEF BoundInv, BoundTypes
<1>2. scopes' \in [Scopes -> ScopeRow]
  BY IdleRow DEF BoundInv, BoundTypes
<1>3. ScopesFresh'
  BY <1>1 DEF BoundInv, ScopesFresh
<1>4. CASE binding' = binding
  BY <1>2, <1>3, <1>4 DEF BoundInv, BoundTypes, RowsAgree
<1>5. ASSUME NEW status \in Binding!Statuses, binding # Binding!NoBinding,
             binding' = [binding EXCEPT !.status = status, !.version = setting'.version]
      PROVE  BoundInv'
  <2>1. binding \in [account : Accounts, status : Binding!Statuses, version : Nat \ {0}]
        /\ binding.version = setting.version /\ binding.account = setting.cookie.account
        /\ setting.cookie # Binding!NoCookie
    BY <1>5 DEF BoundInv, BoundTypes, RowsAgree
  <2>2. binding' \in [account : Accounts, status : Binding!Statuses, version : Nat \ {0}]
        /\ binding'.version = setting.version /\ binding'.account = binding.account
        /\ binding'.status = status
    BY <1>5, <2>1
  <2>3. binding' # Binding!NoBinding
    BY <2>2 DEF Binding!NoBinding, Binding!Statuses
  <2>4. RowsAgree'
    BY <2>1, <2>2, <2>3 DEF RowsAgree
  <2> QED
    BY <1>2, <1>3, <2>2, <2>4 DEF BoundInv, BoundTypes
<1> QED
  BY <1>4, <1>5

\* What the end of a scope does: it ends, and a scope whose credential is still
\* the bound one concludes.
LEMMA FinishCases ==
  ASSUME BoundInv, NEW s \in Scopes, Binding!FinishScope(s)
  PROVE  LET scope == scopes[s] IN
         /\ scopes' = [scopes EXCEPT ![s] = Binding!IdleScope]
         /\ scope \in ScopeRow /\ scope.cookie \in Binding!Cookies \ {Binding!NoCookie}
         /\ \/ UNCHANGED <<binding, setting>>
            \/ /\ binding # Binding!NoBinding /\ binding.version = scope.version
               /\ scope.version = setting.version /\ scope.cookie = setting.cookie
               /\ \E status \in Binding!Statuses :
                    /\ binding' = [binding EXCEPT !.status = status, !.version = setting'.version]
                    /\ \/ UNCHANGED setting
                       \/ \E cookie \in Binding!Cookies \ {Binding!NoCookie} :
                            /\ cookie.account = scope.cookie.account
                            /\ cookie.login = scope.cookie.login
                            /\ cookie.rotation = scope.cookie.rotation + 1
                            /\ Binding!Saved(scope.version, cookie)
<1> DEFINE scope == scopes[s]
<1>1. /\ scope # Binding!IdleScope /\ scopes' = [scopes EXCEPT ![s] = Binding!IdleScope]
      /\ scope \in ScopeRow /\ scope.kind # "none"
      /\ scope.cookie \in Binding!Cookies \ {Binding!NoCookie}
      /\ scope.version = setting.version => scope.cookie = setting.cookie
  BY DEF Binding!FinishScope, Binding!Opened, Binding!IdleScope, BoundInv, BoundTypes, ScopesFresh,
     ScopeRow
<1>2. CASE ~Binding!SameCredential(scope) /\ UNCHANGED <<binding, setting>>
  BY <1>1, <1>2
<1>3. ASSUME NEW status \in Binding!Verdicts(scope), NEW cookie \in Binding!Snapshots(scope.cookie),
             Binding!SameCredential(scope), Binding!Concluded(status),
             \/ cookie = scope.cookie /\ UNCHANGED setting
             \/ cookie # scope.cookie /\ Binding!Saved(scope.version, cookie)
      PROVE  /\ binding # Binding!NoBinding /\ binding.version = scope.version
             /\ scope.version = setting.version /\ scope.cookie = setting.cookie
             /\ status \in Binding!Statuses
             /\ binding' = [binding EXCEPT !.status = status, !.version = setting'.version]
             /\ \/ UNCHANGED setting
                \/ /\ cookie \in Binding!Cookies \ {Binding!NoCookie}
                   /\ cookie.account = scope.cookie.account
                   /\ cookie.login = scope.cookie.login
                   /\ cookie.rotation = scope.cookie.rotation + 1
                   /\ Binding!Saved(scope.version, cookie)
  <2>1. scope.kind \in {"probe", "validate", "operation"}
    BY <1>1 DEF ScopeRow
  <2>2. status \in Binding!Statuses
    BY <1>3, <2>1 DEF Binding!Verdicts, Binding!Statuses
  <2>3. /\ binding # Binding!NoBinding /\ binding.version = scope.version
        /\ scope.version = setting.version
    BY <1>3 DEF Binding!SameCredential, BoundInv, RowsAgree
  <2>4. CASE cookie = scope.cookie /\ UNCHANGED setting
    BY <1>1, <1>3, <2>2, <2>3, <2>4 DEF Binding!Concluded
  <2>5. CASE cookie # scope.cookie /\ Binding!Saved(scope.version, cookie)
    <3> DEFINE old == scope.cookie
    <3>1. /\ old.account \in Accounts /\ old.login \in 1 .. Binding!Cardinality(Qrs)
          /\ old.rotation \in 0 .. MaxRotations
      BY <1>1 DEF Binding!Cookies
    <3>2. old.rotation < MaxRotations /\ cookie = [old EXCEPT !.rotation = @ + 1]
      BY <2>5 DEF Binding!Snapshots
    <3>3. old = [account |-> old.account, login |-> old.login, rotation |-> old.rotation]
      BY <1>1, CookieTypes
    <3> HIDE DEF old
    <3>4. cookie = [account |-> old.account, login |-> old.login, rotation |-> old.rotation + 1]
      BY <3>2, <3>3
    <3>6. cookie.account = old.account /\ cookie.login = old.login /\ cookie.rotation = old.rotation + 1
      BY <3>4
    <3>5. cookie \in Binding!Cookies /\ cookie # Binding!NoCookie
      <4>1. old.rotation + 1 \in 0 .. MaxRotations /\ old.rotation + 1 # 0
        <5>1. MaxRotations \in Nat
          BY ServicesAssumption
        <5> QED
          BY <3>1, <3>2, <5>1
      <4>2. cookie # Binding!NoCookie
        BY <3>6, <4>1 DEF Binding!NoCookie
      <4> QED
        BY <3>1, <3>4, <4>1, <4>2 DEF Binding!Cookies
    <3> QED
      BY <1>1, <1>3, <2>2, <2>3, <2>5, <3>5, <3>6 DEF Binding!Concluded, old
  <2> QED
    BY <1>3, <2>4, <2>5
<1> QED
  BY <1>1, <1>2, <1>3 DEF Binding!FinishScope, Binding!bound

LEMMA BoundStep == QrInv /\ BoundInv /\ [Binding!Next]_(Binding!vars) => BoundInv'
<1> SUFFICES ASSUME QrInv, BoundInv, [Binding!Next]_(Binding!vars) PROVE BoundInv'
  OBVIOUS
<1> USE DEF Binding!bound, Binding!qr
<1>1. CASE UNCHANGED <<binding, setting, scopes>>
  BY <1>1, ScopeEnds
<1>2. ASSUME NEW q \in Qrs, Binding!BindEnds(q) PROVE BoundInv'
  <2> DEFINE cookie == qrs[q].held
  <2>1. cookie \in Binding!Cookies /\ cookie # Binding!NoCookie
    BY <1>2 DEF Binding!BindEnds, QrInv, QrTypes, QrRow, HeldLogins
  <2>2. CASE Binding!BindRefused(q)
    BY <1>1, <1>2, <2>2 DEF Binding!BindEnds, Binding!BindRefused
  <2>3. CASE ~Binding!BindRefused(q)
    <3>1. /\ Binding!Saved(Binding!Expected, cookie) /\ scopes' = scopes
          /\ binding' = [account |-> cookie.account, status |-> "active", version |-> setting'.version]
      BY <1>2, <2>3 DEF Binding!BindEnds
    <3> HIDE DEF cookie
    <3> QED
      BY <2>1, <3>1, SavedBinding DEF Binding!Statuses
  <2> QED
    BY <2>2, <2>3
<1>3. CASE Binding!Remove
  <2>1. /\ setting.version \in Nat
        /\ setting' = [version |-> setting.version + 1, cookie |-> Binding!NoCookie]
        /\ binding' = Binding!NoBinding /\ scopes' = scopes
    BY <1>3 DEF Binding!Remove, Binding!Cleared, Binding!Saved, BoundInv, BoundTypes
  <2>2. setting'.version = setting.version + 1 /\ setting'.cookie = Binding!NoCookie
        /\ setting' \in [version : Nat, cookie : Binding!Cookies]
    BY <2>1, CookieTypes
  <2>3. BoundTypes' /\ RowsAgree'
    BY <2>1, <2>2 DEF BoundInv, BoundTypes, RowsAgree
  <2>4. ScopesFresh'
    <3>1. \A s \in Scopes : scopes[s].version \in Nat
      BY DEF BoundInv, BoundTypes, ScopeRow
    <3> QED
      BY <2>1, <2>2, <3>1 DEF BoundInv, ScopesFresh
  <2> QED
    BY <2>3, <2>4 DEF BoundInv
<1>4. ASSUME NEW s \in Scopes, Binding!DropScope(s) PROVE BoundInv'
  BY <1>4, ScopeEnds DEF Binding!DropScope
<1>5. ASSUME NEW s \in Scopes, Binding!FinishScope(s) PROVE BoundInv'
  <2>1. scopes' = [scopes EXCEPT ![s] = Binding!IdleScope]
    BY <1>5, FinishCases
  <2>2. CASE UNCHANGED <<binding, setting>>
    BY <2>1, <2>2, ScopeEnds
  <2>3. CASE ~UNCHANGED <<binding, setting>>
    <3>1. PICK status \in Binding!Statuses :
            /\ binding # Binding!NoBinding
            /\ binding.version = setting.version /\ scopes[s].version = setting.version
            /\ scopes[s].cookie = setting.cookie
            /\ binding' = [binding EXCEPT !.status = status, !.version = setting'.version]
            /\ \/ UNCHANGED setting
               \/ \E cookie \in Binding!Cookies \ {Binding!NoCookie} :
                    cookie.account = scopes[s].cookie.account /\ Binding!Saved(scopes[s].version, cookie)
      BY <1>5, <2>3, FinishCases
    <3>2. CASE UNCHANGED setting
      BY <2>1, <3>1, <3>2, ScopeEnds
    <3>3. CASE ~UNCHANGED setting
      <4>1. PICK cookie \in Binding!Cookies \ {Binding!NoCookie} :
              cookie.account = setting.cookie.account /\ Binding!Saved(setting.version, cookie)
        BY <3>1, <3>3
      <4>2. binding \in [account : Accounts, status : Binding!Statuses, version : Nat \ {0}]
            /\ binding.account = setting.cookie.account
        BY <3>1 DEF BoundInv, BoundTypes, RowsAgree
      <4>3. binding' = [account |-> cookie.account, status |-> status, version |-> setting'.version]
        BY <3>1, <4>1, <4>2
      <4> QED
        BY <2>1, <4>1, <4>3, SavedBinding
    <3> QED
      BY <3>2, <3>3
  <2> QED
    BY <2>2, <2>3
<1>6. ASSUME NEW s \in Scopes, NEW kind \in {"probe", "validate", "operation"},
             Binding!OpenScope(s, kind)
      PROVE  BoundInv'
  <2> DEFINE row == [kind |-> kind, account |-> binding.account, status |-> binding.status,
                     version |-> binding.version, cookie |-> Binding!NoCookie]
  <2>1. /\ binding # Binding!NoBinding /\ scopes' = [scopes EXCEPT ![s] = row]
        /\ UNCHANGED <<binding, setting>>
    BY <1>6 DEF Binding!OpenScope
  <2>2. /\ row \in ScopeRow /\ row.kind # "none" /\ row.cookie = Binding!NoCookie
        /\ row.version = setting.version /\ row.account = setting.cookie.account
        /\ setting.version \in Nat
    BY <2>1, CookieTypes DEF BoundInv, BoundTypes, RowsAgree, ScopeRow
  <2> HIDE DEF row
  <2>3. scopes' \in [Scopes -> ScopeRow]
        /\ \A p \in Scopes : scopes'[p] = IF p = s THEN row ELSE scopes[p]
    BY <2>1, <2>2 DEF BoundInv, BoundTypes
  <2>4. ScopesFresh'
    BY <2>1, <2>2, <2>3 DEF BoundInv, ScopesFresh
  <2> QED
    BY <2>1, <2>3, <2>4 DEF BoundInv, BoundTypes, RowsAgree
<1>8. ASSUME NEW s \in Scopes, Binding!ReadCookie(s) PROVE BoundInv'
  <2>1. scopes[s] \in ScopeRow /\ scopes[s] # Binding!IdleScope /\ UNCHANGED <<binding, setting>>
    BY <1>8 DEF Binding!ReadCookie, Binding!Opening, BoundInv, BoundTypes
  <2>2. CASE Binding!Readable(scopes[s].version)
    <3> DEFINE row == [scopes[s] EXCEPT !.cookie = setting.cookie]
    <3>1. scopes' = [scopes EXCEPT ![s] = row]
      BY <1>8, <2>2 DEF Binding!ReadCookie, BoundInv, BoundTypes
    <3>2. /\ row \in ScopeRow /\ row.kind = scopes[s].kind /\ row.account = scopes[s].account
          /\ row.version = setting.version /\ row.cookie = setting.cookie
      BY <2>1, <2>2 DEF Binding!Readable, BoundInv, BoundTypes, ScopeRow
    <3>3. row.kind # "none" /\ row.account = setting.cookie.account /\ row.version <= setting.version
      BY <2>1, <2>2, <3>2 DEF Binding!Readable, BoundInv, ScopesFresh
    <3> HIDE DEF row
    <3>4. scopes' \in [Scopes -> ScopeRow]
          /\ \A p \in Scopes : scopes'[p] = IF p = s THEN row ELSE scopes[p]
      BY <3>1, <3>2 DEF BoundInv, BoundTypes
    <3>5. ScopesFresh'
      BY <2>1, <3>2, <3>3, <3>4 DEF BoundInv, ScopesFresh
    <3> QED
      BY <2>1, <3>4, <3>5 DEF BoundInv, BoundTypes, RowsAgree
  <2>3. CASE ~Binding!Readable(scopes[s].version)
    BY <1>8, <2>1, <2>3, ScopeEnds DEF Binding!ReadCookie, BoundInv, BoundTypes
  <2> QED
    BY <2>2, <2>3
<1>7. ASSUME NEW q \in Qrs,
             \/ Binding!CreateQr(q) \/ Binding!CreateAnswered(q) \/ Binding!Overdue(q)
             \/ Binding!PollQr(q) \/ Binding!PollAnswered(q) \/ Binding!ConfirmQr(q)
             \/ Binding!FinishAnswered(q) \/ Binding!BindStarts(q)
      PROVE  UNCHANGED <<binding, setting, scopes>>
  BY <1>7 DEF Binding!CreateQr, Binding!CreateAnswered, Binding!Overdue, Binding!PollQr,
     Binding!PollAnswered, Binding!ConfirmQr, Binding!Begin, Binding!FinishAnswered,
     Binding!BindStarts, Binding!BindRefused
<1> QED
  BY <1>1, <1>2, <1>3, <1>4, <1>5, <1>6, <1>7, <1>8 DEF Binding!Next, Binding!vars

LEMMA BindingInvariant == Spec => [](QrInv /\ BoundInv)
<1>1. Binding!Spec => [](QrInv /\ BoundInv)
  BY BindingInit, QrStep, BoundStep, PTL DEF Binding!Spec
<1> QED
  BY <1>1, BindingRuns, PTL

\* At every moment the binding and the encrypted setting tell the same version of
\* the cookie, and a scope that was opened, whatever was committed between the two
\* statements of its reader, holds the account and the cookie of its version.
THEOREM BindingAgrees == Spec => []VersionsAgree
<1>1. BoundInv => Binding!VersionsAgree
  <2> SUFFICES ASSUME BoundInv, NEW s \in Scopes, Binding!Opened(scopes[s])
               PROVE  /\ scopes[s].account = scopes[s].cookie.account
                      /\ scopes[s].version = setting.version => scopes[s].cookie = setting.cookie
    BY DEF BoundInv, RowsAgree, Binding!VersionsAgree
  <2> QED
    BY DEF BoundInv, ScopesFresh, Binding!Opened, Binding!IdleScope
<1> QED
  BY <1>1, BindingInvariant, PTL DEF VersionsAgree

\* The cookie snapshot of an old probe never overwrites a newer scan: while nothing
\* is bound or unbound, the stored cookie stays in its login and never rotates back.
THEOREM RescanIsKept == Spec => RescanWins
<1> DEFINE Kept == (\A q \in Qrs : qrs'[q].consumed = qrs[q].consumed)
                   /\ setting.cookie # Binding!NoCookie /\ setting'.cookie # Binding!NoCookie
                   => /\ setting'.cookie.login = setting.cookie.login
                      /\ setting'.cookie.rotation >= setting.cookie.rotation
<1>1. QrInv /\ BoundInv /\ [Binding!Next]_(Binding!vars) => [Kept]_(Binding!vars)
  <2> SUFFICES ASSUME QrInv, BoundInv, Binding!Next,
                      \A q \in Qrs : qrs'[q].consumed = qrs[q].consumed,
                      setting.cookie # Binding!NoCookie, setting'.cookie # Binding!NoCookie
               PROVE  /\ setting'.cookie.login = setting.cookie.login
                      /\ setting'.cookie.rotation >= setting.cookie.rotation
    OBVIOUS
  <2> USE DEF Binding!bound, Binding!qr
  <2>0. /\ setting \in [version : Nat, cookie : Binding!Cookies]
        /\ setting.cookie.rotation \in Nat
    BY CookieTypes DEF BoundInv, BoundTypes
  <2>1. CASE UNCHANGED setting
    BY <2>0, <2>1
  <2>2. ASSUME NEW q \in Qrs, Binding!BindEnds(q) PROVE UNCHANGED setting
    <3>1. CASE Binding!BindRefused(q)
      BY <3>1 DEF Binding!BindRefused
    <3>2. CASE ~Binding!BindRefused(q)
      <4>1. qrs \in [Qrs -> QrRow] /\ qrs' = Binding!Consumed(q) /\ ~qrs[q].consumed
        BY <2>2, <3>2 DEF Binding!BindEnds, QrInv, QrTypes, HeldLogins
      <4>2. qrs'[q].consumed = TRUE
        BY <4>1 DEF Binding!Consumed, QrRow
      <4> QED
        BY <4>1, <4>2
    <3> QED
      BY <3>1, <3>2
  <2>3. CASE Binding!Remove
    BY <2>3 DEF Binding!Remove, Binding!Cleared, Binding!Saved
  <2>4. ASSUME NEW s \in Scopes, Binding!FinishScope(s)
        PROVE  /\ setting'.cookie.login = setting.cookie.login
               /\ setting'.cookie.rotation >= setting.cookie.rotation
    <3>1. CASE ~UNCHANGED setting
      <4>1. PICK cookie \in Binding!Cookies :
              /\ cookie.login = setting.cookie.login
              /\ cookie.rotation = setting.cookie.rotation + 1
              /\ Binding!Saved(scopes[s].version, cookie)
        BY <2>4, <3>1, FinishCases
      <4>2. setting'.cookie = cookie
        BY <4>1 DEF Binding!Saved
      <4> QED
        BY <2>0, <4>1, <4>2
    <3> QED
      BY <2>1, <3>1
  <2>5. \/ UNCHANGED setting \/ Binding!Remove
        \/ \E q \in Qrs : Binding!BindEnds(q)
        \/ \E s \in Scopes : Binding!FinishScope(s)
    BY DEF Binding!Next, Binding!CreateQr, Binding!CreateAnswered, Binding!Overdue, Binding!PollQr,
       Binding!PollAnswered, Binding!ConfirmQr, Binding!Begin, Binding!FinishAnswered,
       Binding!BindStarts, Binding!BindRefused, Binding!OpenScope, Binding!DropScope,
       Binding!ReadCookie
  <2> QED
    BY <2>1, <2>2, <2>3, <2>4, <2>5
<1>2. Binding!Spec /\ [](QrInv /\ BoundInv) => [][Kept]_(Binding!vars)
  BY <1>1, PTL DEF Binding!Spec
<1> QED
  BY <1>2, BindingRuns, BindingInvariant, PTL DEF RescanWins, Binding!RescanWins
-----------------------------------------------------------------------------
(* The sessions of the administrator.                                      *)

SessionRow == [client : Clients, token : Nat, revoked : {"no", "login", "logout", "reuse"}]
TokenPair  == [session : Nat, token : Nat, epoch : Nat]

StoreRow   == [access : TokenPair, refresh : TokenPair]
UserRow    == [kind : {"none", "login", "bootstrap", "logout"},
               at : {"none", "sent", "checked", "answered", "written", "clear", "cleared"},
               pair : TokenPair]
RefreshRow == [at : {"none", "sent", "answered", "written", "failed", "cleared"},
               pair : TokenPair]

IdentityTypes ==
  /\ epoch \in Nat /\ sessions \in Seq(SessionRow)
  /\ store \in [Clients -> StoreRow] /\ user \in [Clients -> UserRow]
  /\ refresh \in [Clients -> RefreshRow] /\ losses \in [Clients -> Nat]

Owns(c, pair) == pair.session \in DOMAIN sessions /\ sessions[pair.session].client = c

Stored(c)    == store[c].refresh # Identity!NoPair
Answered(c)  == user[c].at = "answered"
InFlight(c)  == refresh[c].at \in {"sent", "answered"}

\* The refresh tokens a client has or is about to have are of its own sessions.
OwnedBy(c) ==
  /\ Stored(c) => Owns(c, store[c].refresh)
  /\ Answered(c) => Owns(c, user[c].pair)
  /\ InFlight(c) => Owns(c, refresh[c].pair)

\* The pair has the token of its session, unless the session is revoked.
IsCurrent(pair) ==
  sessions[pair.session].revoked = "no" => sessions[pair.session].token = pair.token

\* A client that lost nothing never holds a rotated-out token, except while the
\* answer to its refresh is about to replace it.
NeverBehind(c) == losses[c] = 0 =>
  /\ Answered(c) => /\ IsCurrent(user[c].pair)
                    /\ store[c].refresh.session # user[c].pair.session
                    /\ InFlight(c) => refresh[c].pair.session # user[c].pair.session
  /\ InFlight(c) => IsCurrent(refresh[c].pair)
  /\ Stored(c) => \/ IsCurrent(store[c].refresh)
                  \/ /\ refresh[c].at = "answered"
                     /\ refresh[c].pair.session = store[c].refresh.session

IdentityInv == /\ IdentityTypes /\ Identity!ReuseMeansLoss
               /\ \A c \in Clients : OwnedBy(c) /\ NeverBehind(c)

LEMMA IdentityRuns == Spec => Identity!Spec
<1>1. Init => Identity!Init
  BY DEF Init
<1>2. [Next]_vars => [Identity!Next]_(Identity!vars)
  BY DEF Next, vars, identityVars, Identity!vars, Identity!server
<1> QED
  BY <1>1, <1>2, PTL DEF Spec, Identity!Spec

LEMMA IdentityInit == Identity!Init => IdentityInv
<1> SUFFICES ASSUME Identity!Init PROVE IdentityInv
  OBVIOUS
<1> USE DEF Identity!Init
<1>1. Identity!NoPair \in TokenPair
  BY DEF Identity!NoPair, TokenPair
<1>2. IdentityTypes
  BY <1>1 DEF IdentityTypes, SessionRow, StoreRow, UserRow, RefreshRow, Identity!NoUser, Identity!NoRefresh
<1>3. \A c \in Clients : ~Stored(c) /\ ~Answered(c) /\ ~InFlight(c)
  BY DEF Stored, Answered, InFlight, Identity!NoUser, Identity!NoRefresh
<1>4. Identity!ReuseMeansLoss
  BY DEF Identity!ReuseMeansLoss
<1> QED
  BY <1>2, <1>3, <1>4 DEF IdentityInv, OwnedBy, NeverBehind

LEMMA SessionRows ==
  ASSUME IdentityTypes
  PROVE  /\ Len(sessions) \in Nat /\ DOMAIN sessions = 1 .. Len(sessions)
         /\ \A s \in DOMAIN sessions : sessions[s] \in SessionRow
<1>1. sessions \in Seq(SessionRow)
  BY DEF IdentityTypes
<1> QED
  BY <1>1

\* A step of one client: what the other clients hold stays as current as it was.
LEMMA OneClient ==
  ASSUME IdentityInv, NEW c \in Clients, IdentityTypes',
         \A d \in Clients \ {c} : /\ store'[d] = store[d] /\ user'[d] = user[d]
                                  /\ refresh'[d] = refresh[d] /\ losses'[d] = losses[d],
         DOMAIN sessions \subseteq DOMAIN sessions',
         \A s \in DOMAIN sessions :
           /\ sessions'[s].client = sessions[s].client
           /\ sessions[s].client # c =>
                /\ sessions'[s].token = sessions[s].token
                /\ sessions'[s].revoked = "no" => sessions[s].revoked = "no",
         Identity!ReuseMeansLoss', OwnedBy(c)', NeverBehind(c)'
  PROVE  IdentityInv'
<1>1. ASSUME NEW d \in Clients \ {c} PROVE OwnedBy(d)' /\ NeverBehind(d)'
  <2>1. OwnedBy(d) /\ NeverBehind(d)
    BY DEF IdentityInv
  <2>2. OwnedBy(d)'
    BY <2>1 DEF OwnedBy, Owns, Stored, Answered, InFlight
  <2>3. NeverBehind(d)'
    BY <2>1 DEF OwnedBy, Owns, NeverBehind, IsCurrent, Stored, Answered, InFlight
  <2> QED
    BY <2>2, <2>3
<1> QED
  BY <1>1 DEF IdentityInv

\* Without a change of the sessions only losses may grow.
LEMMA SameSessions ==
  ASSUME IdentityInv, NEW c \in Clients, IdentityTypes', sessions' = sessions,
         \A d \in Clients \ {c} : /\ store'[d] = store[d] /\ user'[d] = user[d]
                                  /\ refresh'[d] = refresh[d] /\ losses'[d] = losses[d],
         losses'[c] >= losses[c], OwnedBy(c)', NeverBehind(c)'
  PROVE  IdentityInv'
<1>1. \A d \in Clients : losses[d] \in Nat /\ losses'[d] \in Nat /\ losses'[d] >= losses[d]
  <2>1. losses \in [Clients -> Nat] /\ losses' \in [Clients -> Nat]
    BY DEF IdentityInv, IdentityTypes
  <2> QED
    BY <2>1
<1>2. \A s \in DOMAIN sessions : sessions[s].client \in Clients
  BY SessionRows DEF IdentityInv, SessionRow
<1>3. Identity!ReuseMeansLoss'
  BY <1>1, <1>2 DEF IdentityInv, Identity!ReuseMeansLoss
<1> QED
  BY <1>3, OneClient

\* The rows of one client change.
RowsBecome(c, s, u, r, n) ==
  /\ store' = [store EXCEPT ![c] = s] /\ user' = [user EXCEPT ![c] = u]
  /\ refresh' = [refresh EXCEPT ![c] = r] /\ losses' = [losses EXCEPT ![c] = n]

LEMMA ClientRows ==
  ASSUME IdentityTypes, NEW c \in Clients, NEW s \in StoreRow, NEW u \in UserRow,
         NEW r \in RefreshRow, NEW n \in Nat, RowsBecome(c, s, u, r, n)
  PROVE  /\ store' \in [Clients -> StoreRow] /\ user' \in [Clients -> UserRow]
         /\ refresh' \in [Clients -> RefreshRow] /\ losses' \in [Clients -> Nat]
         /\ store'[c] = s /\ user'[c] = u /\ refresh'[c] = r /\ losses'[c] = n
         /\ \A d \in Clients \ {c} : /\ store'[d] = store[d] /\ user'[d] = user[d]
                                     /\ refresh'[d] = refresh[d] /\ losses'[d] = losses[d]
BY DEF IdentityTypes, RowsBecome

LEMMA UnchangedRows ==
  ASSUME IdentityTypes, NEW c \in Clients
  PROVE  /\ store[c] \in StoreRow /\ user[c] \in UserRow
         /\ refresh[c] \in RefreshRow /\ losses[c] \in Nat
         /\ store = [store EXCEPT ![c] = store[c]] /\ user = [user EXCEPT ![c] = user[c]]
         /\ refresh = [refresh EXCEPT ![c] = refresh[c]]
         /\ losses = [losses EXCEPT ![c] = losses[c]]
BY DEF IdentityTypes

\* A step after which the client holds no token it did not hold before.
LEMMA NothingGained ==
  ASSUME IdentityInv, UNCHANGED <<epoch, sessions>>, NEW c \in Clients,
         NEW s \in StoreRow, NEW u \in UserRow, NEW r \in RefreshRow, NEW n \in Nat,
         RowsBecome(c, s, u, r, n),
         n >= losses[c],
         u.at = "answered" => user[c].at = "answered" /\ u.pair = user[c].pair,
         r.at \in {"sent", "answered"} => r = refresh[c],
         refresh[c].at = "answered" => r = refresh[c] \/ n > losses[c],
         s.refresh \in {store[c].refresh, Identity!NoPair}
  PROVE  IdentityInv'
<1>1. OwnedBy(c) /\ NeverBehind(c) /\ losses[c] \in Nat
  BY UnchangedRows DEF IdentityInv
<1>0. /\ store'[c] = s /\ user'[c] = u /\ refresh'[c] = r /\ losses'[c] = n
      /\ \A d \in Clients \ {c} : /\ store'[d] = store[d] /\ user'[d] = user[d]
                                  /\ refresh'[d] = refresh[d] /\ losses'[d] = losses[d]
  BY ClientRows DEF IdentityInv
<1>2. IdentityTypes'
  BY ClientRows DEF IdentityInv, IdentityTypes
<1>5. OwnedBy(c)'
  BY <1>0, <1>1 DEF OwnedBy, Owns, Stored, Answered, InFlight
<1>3. CASE n # 0
  BY <1>0, <1>2, <1>3, <1>5, SameSessions DEF NeverBehind
<1>4. CASE n = 0
  <2>1. losses[c] = 0 /\ ~(n > losses[c])
    BY <1>1, <1>4
  <2>2. u.at = "answered" => /\ IsCurrent(user[c].pair)' /\ u.pair = user[c].pair
                             /\ store[c].refresh.session # user[c].pair.session
                             /\ InFlight(c) => refresh[c].pair.session # user[c].pair.session
    BY <1>0, <1>1, <2>1 DEF NeverBehind, IsCurrent, Answered
  <2>3. r.at \in {"sent", "answered"} => InFlight(c) /\ IsCurrent(refresh[c].pair)' /\ r = refresh[c]
    BY <1>0, <1>1, <2>1 DEF NeverBehind, IsCurrent, InFlight
  <2>4. s.refresh # Identity!NoPair => Stored(c) /\ s.refresh = store[c].refresh
    BY DEF Stored
  <2>5. u.at = "answered" => s.refresh.session # u.pair.session
    <3>1. CASE s.refresh = store[c].refresh
      BY <2>2, <3>1
    <3>2. CASE s.refresh = Identity!NoPair
      <4>1. u.at = "answered" => u.pair.session \in DOMAIN sessions
        BY <1>1 DEF OwnedBy, Owns, Answered
      <4>2. 0 \notin DOMAIN sessions
        BY SessionRows DEF IdentityInv
      <4> QED
        BY <3>2, <4>1, <4>2 DEF Identity!NoPair
    <3> QED
      BY <3>1, <3>2
  <2>6. s.refresh # Identity!NoPair =>
          \/ IsCurrent(s.refresh)'
          \/ r.at = "answered" /\ r.pair.session = s.refresh.session
    BY <1>0, <1>1, <2>1, <2>4 DEF NeverBehind, IsCurrent
  <2>7. NeverBehind(c)'
    BY <1>0, <2>2, <2>3, <2>5, <2>6 DEF NeverBehind, IsCurrent, Answered, InFlight, Stored
  <2> QED
    BY <1>0, <1>2, <1>5, <2>7, <1>1, <1>4, <2>1, SameSessions
<1> QED
  BY <1>3, <1>4

LEMMA PairTypes ==
  /\ Identity!NoPair \in TokenPair
  /\ Identity!NoUser \in UserRow /\ Identity!NoUser.at = "none"
  /\ Identity!NoRefresh \in RefreshRow /\ Identity!NoRefresh.at = "none"
BY DEF Identity!NoPair, Identity!NoUser, Identity!NoRefresh, TokenPair, UserRow, RefreshRow

\* The steps of the client and of the server that gain it no token.
LEMMA LosingSteps ==
  ASSUME IdentityInv, NEW c \in Clients,
         \/ Identity!ServeCheck(c) \/ Identity!StartLogin(c) \/ Identity!LoginDone(c)
         \/ Identity!StartLogout(c) \/ Identity!LogoutClears(c) \/ Identity!LogoutDone(c)
         \/ Identity!RefreshDone(c) \/ Identity!RefreshFailed(c) \/ Identity!RefreshGivenUp(c)
         \/ Identity!RefreshLost(c) \/ Identity!UserLost(c)
         \/ \E r \in Slots : Identity!Send(c, r) \/ Identity!ServeCall(c, r)
  PROVE  IdentityInv'
<1> USE DEF Identity!server
<1>0. /\ store[c] \in StoreRow /\ user[c] \in UserRow
      /\ refresh[c] \in RefreshRow /\ losses[c] \in Nat
      /\ store = [store EXCEPT ![c] = store[c]] /\ user = [user EXCEPT ![c] = user[c]]
      /\ refresh = [refresh EXCEPT ![c] = refresh[c]]
      /\ losses = [losses EXCEPT ![c] = losses[c]]
      /\ epoch \in Nat /\ UNCHANGED <<epoch, sessions>>
      /\ losses[c] >= losses[c] /\ losses[c] + 1 > losses[c] /\ losses[c] + 1 >= losses[c]
      /\ losses[c] + 1 \in Nat
  <2>1. losses[c] \in Nat
    BY UnchangedRows DEF IdentityInv
  <2>2. UNCHANGED <<epoch, sessions>>
    BY DEF Identity!ServeCheck, Identity!StartLogin, Identity!LoginDone, Identity!StartLogout,
       Identity!LogoutClears, Identity!LogoutDone, Identity!RefreshDone, Identity!RefreshFailed,
       Identity!RefreshGivenUp, Identity!RefreshLost, Identity!UserLost, Identity!Send,
       Identity!ServeCall
  <2> QED
    BY <2>1, <2>2, UnchangedRows DEF IdentityInv, IdentityTypes
<1>1. ASSUME NEW u \in UserRow, u.at # "answered", user' = [user EXCEPT ![c] = u],
             UNCHANGED <<store, refresh, losses>>
      PROVE  IdentityInv'
  <2>1. RowsBecome(c, store[c], u, refresh[c], losses[c])
    BY <1>0, <1>1 DEF RowsBecome
  <2> QED
    BY <1>0, <1>1, <2>1, NothingGained
<1>2. CASE Identity!ServeCheck(c)
  <2> DEFINE u == [user[c] EXCEPT !.at = "checked", !.pair.epoch = epoch]
  <2>1. u \in UserRow /\ u.at = "checked"
    BY <1>0 DEF UserRow, TokenPair
  <2>2. user' = [user EXCEPT ![c] = u] /\ UNCHANGED <<store, refresh, losses>>
    BY <1>2 DEF Identity!ServeCheck, IdentityInv, IdentityTypes
  <2> HIDE DEF u
  <2> QED
    BY <1>1, <2>1, <2>2
<1>3. CASE Identity!StartLogin(c)
  <2>1. PICK kind \in {"login", "bootstrap"} :
          user' = [user EXCEPT ![c] = [kind |-> kind, at |-> "sent", pair |-> Identity!NoPair]]
    BY <1>3 DEF Identity!StartLogin
  <2> DEFINE u == [kind |-> kind, at |-> "sent", pair |-> Identity!NoPair]
  <2>2. u \in UserRow /\ u.at = "sent"
    BY PairTypes DEF UserRow
  <2>3. user' = [user EXCEPT ![c] = u] /\ UNCHANGED <<store, refresh, losses>>
    BY <1>3, <2>1 DEF Identity!StartLogin
  <2> HIDE DEF u
  <2> QED
    BY <1>1, <2>2, <2>3
<1>4. CASE Identity!StartLogout(c)
  <2> DEFINE u == [kind |-> "logout", pair |-> store[c].access,
                   at |-> IF store[c].access = Identity!NoPair THEN "clear" ELSE "sent"]
  <2>1. u \in UserRow /\ u.at # "answered"
    BY <1>0 DEF UserRow, StoreRow
  <2>2. user' = [user EXCEPT ![c] = u] /\ UNCHANGED <<store, refresh, losses>>
    BY <1>4 DEF Identity!StartLogout
  <2> HIDE DEF u
  <2> QED
    BY <1>1, <2>1, <2>2
<1>5. ASSUME NEW s \in StoreRow, s.refresh \in {store[c].refresh, Identity!NoPair},
             store' = [store EXCEPT ![c] = s],
             NEW u \in UserRow, u = user[c] \/ u.at # "answered", user' = [user EXCEPT ![c] = u],
             NEW r \in RefreshRow, r = refresh[c] \/ r.at \notin {"sent", "answered"},
             refresh' = [refresh EXCEPT ![c] = r],
             refresh[c].at = "answered" => r = refresh[c],
             UNCHANGED losses
      PROVE  IdentityInv'
  <2>1. RowsBecome(c, s, u, r, losses[c])
    BY <1>0, <1>5 DEF RowsBecome
  <2> QED
    BY <1>0, <1>5, <2>1, NothingGained
<1> DEFINE noAccess(pair) == [store[c] EXCEPT !.access = pair]
           noRefresh == [store[c] EXCEPT !.refresh = Identity!NoPair]
           cleared == [refresh[c] EXCEPT !.at = "cleared"]
<1>6. /\ \A pair \in TokenPair : noAccess(pair) \in StoreRow /\ noAccess(pair).refresh = store[c].refresh
      /\ noRefresh \in StoreRow /\ noRefresh.refresh = Identity!NoPair
      /\ cleared \in RefreshRow /\ cleared.at = "cleared"
  BY <1>0, PairTypes DEF StoreRow, RefreshRow
<1>7. \A pair : /\ Identity!StoreAccess(c, pair) => store' = [store EXCEPT ![c] = noAccess(pair)]
                /\ Identity!StoreRefresh(c, Identity!NoPair) => store' = [store EXCEPT ![c] = noRefresh]
  BY DEF Identity!StoreAccess, Identity!StoreRefresh, IdentityInv, IdentityTypes
<1> HIDE DEF noAccess, noRefresh
<1>8. CASE Identity!LoginDone(c)
  <2>1. /\ store' = [store EXCEPT ![c] = noAccess(user[c].pair)]
        /\ user' = [user EXCEPT ![c] = Identity!NoUser] /\ UNCHANGED <<refresh, losses>>
    BY <1>7, <1>8 DEF Identity!LoginDone
  <2>2. user[c].pair \in TokenPair
    BY <1>0 DEF UserRow
  <2> QED
    BY <1>0, <1>5, <1>6, <2>1, <2>2, PairTypes
<1>9. CASE Identity!LogoutClears(c)
  <2> DEFINE u == [user[c] EXCEPT !.at = "cleared"]
  <2>1. u \in UserRow /\ u.at = "cleared"
    BY <1>0 DEF UserRow
  <2>2. /\ store' = [store EXCEPT ![c] = noAccess(Identity!NoPair)]
        /\ user' = [user EXCEPT ![c] = u] /\ UNCHANGED <<refresh, losses>>
    BY <1>7, <1>9 DEF Identity!LogoutClears, IdentityInv, IdentityTypes
  <2> HIDE DEF u
  <2> QED
    BY <1>0, <1>5, <1>6, <2>1, <2>2, PairTypes
<1>10. CASE Identity!LogoutDone(c)
  <2>1. /\ store' = [store EXCEPT ![c] = noRefresh]
        /\ user' = [user EXCEPT ![c] = Identity!NoUser] /\ UNCHANGED <<refresh, losses>>
    BY <1>7, <1>10 DEF Identity!LogoutDone
  <2> QED
    BY <1>0, <1>5, <1>6, <2>1, PairTypes
<1>11. CASE Identity!RefreshDone(c)
  <2>1. /\ store' = [store EXCEPT ![c] = noAccess(refresh[c].pair)] /\ refresh[c].at = "written"
        /\ refresh' = [refresh EXCEPT ![c] = Identity!NoRefresh] /\ UNCHANGED <<user, losses>>
    BY <1>7, <1>11 DEF Identity!RefreshDone
  <2>2. refresh[c].pair \in TokenPair
    BY <1>0 DEF RefreshRow
  <2> QED
    BY <1>0, <1>5, <1>6, <2>1, <2>2, PairTypes
<1>12. CASE Identity!RefreshFailed(c)
  <2>1. /\ store' = [store EXCEPT ![c] = noAccess(Identity!NoPair)] /\ refresh[c].at = "failed"
        /\ refresh' = [refresh EXCEPT ![c] = cleared] /\ UNCHANGED <<user, losses>>
    BY <1>7, <1>12 DEF Identity!RefreshFailed, IdentityInv, IdentityTypes
  <2> QED
    BY <1>0, <1>5, <1>6, <2>1, PairTypes
<1>13. CASE Identity!RefreshGivenUp(c)
  <2>1. /\ store' = [store EXCEPT ![c] = noRefresh] /\ refresh[c].at = "cleared"
        /\ refresh' = [refresh EXCEPT ![c] = Identity!NoRefresh] /\ UNCHANGED <<user, losses>>
    BY <1>7, <1>13 DEF Identity!RefreshGivenUp
  <2> QED
    BY <1>0, <1>5, <1>6, <2>1, PairTypes
<1>14. CASE Identity!RefreshLost(c)
  <2> DEFINE r == [refresh[c] EXCEPT !.at = "failed"]
  <2>1. r \in RefreshRow /\ r.at = "failed"
    BY <1>0 DEF RefreshRow
  <2>2. /\ refresh' = [refresh EXCEPT ![c] = r] /\ losses' = [losses EXCEPT ![c] = losses[c] + 1]
        /\ UNCHANGED <<store, user>>
    BY <1>14 DEF Identity!RefreshLost, Identity!Loss, IdentityInv, IdentityTypes
  <2> HIDE DEF r
  <2>3. RowsBecome(c, store[c], user[c], r, losses[c] + 1)
    BY <1>0, <2>2 DEF RowsBecome
  <2> QED
    BY <1>0, <2>1, <2>3, NothingGained
<1>15. CASE Identity!UserLost(c)
  <2> DEFINE u == IF user[c].kind = "logout" THEN [user[c] EXCEPT !.at = "clear"]
                                             ELSE Identity!NoUser
  <2>1. u \in UserRow /\ u.at # "answered"
    BY <1>0, PairTypes DEF UserRow
  <2>2. /\ user' = [user EXCEPT ![c] = u] /\ losses' = [losses EXCEPT ![c] = losses[c] + 1]
        /\ UNCHANGED <<store, refresh>>
    BY <1>15 DEF Identity!UserLost, Identity!Loss, IdentityInv, IdentityTypes
  <2> HIDE DEF u
  <2>3. RowsBecome(c, store[c], u, refresh[c], losses[c] + 1)
    BY <1>0, <2>2 DEF RowsBecome
  <2> QED
    BY <1>0, <2>1, <2>3, NothingGained
<1>16. CASE \E r \in Slots : Identity!Send(c, r) \/ Identity!ServeCall(c, r)
  <2>1. UNCHANGED <<store, user, refresh, losses>>
    BY <1>16 DEF Identity!Send, Identity!ServeCall
  <2>2. RowsBecome(c, store[c], user[c], refresh[c], losses[c])
    BY <1>0, <2>1 DEF RowsBecome
  <2> QED
    BY <1>0, <2>2, NothingGained
<1> QED
  BY <1>2, <1>3, <1>4, <1>8, <1>9, <1>10, <1>11, <1>12, <1>13, <1>14, <1>15, <1>16

\* Number 0, of NoPair, is no session.
LEMMA NoSession ==
  ASSUME IdentityInv PROVE Identity!NoPair.session \notin DOMAIN sessions
<1>1. DOMAIN sessions = 1 .. Len(sessions) /\ Len(sessions) \in Nat
  BY SessionRows DEF IdentityInv
<1> QED
  BY <1>1 DEF Identity!NoPair

\* The steps of the client that give it a token, and its restart.
LEMMA GainingSteps ==
  ASSUME IdentityInv, NEW c \in Clients,
         \/ Identity!LoginAnswered(c) \/ Identity!RefreshAnswered(c) \/ Identity!Restart(c)
         \/ \E r \in Slots : Identity!CallRefused(c, r)
  PROVE  IdentityInv'
<1> USE DEF Identity!server
<1>0. /\ store[c] \in StoreRow /\ user[c] \in UserRow
      /\ refresh[c] \in RefreshRow /\ losses[c] \in Nat
      /\ store = [store EXCEPT ![c] = store[c]] /\ user = [user EXCEPT ![c] = user[c]]
      /\ refresh = [refresh EXCEPT ![c] = refresh[c]]
      /\ losses = [losses EXCEPT ![c] = losses[c]]
      /\ epoch \in Nat /\ UNCHANGED <<epoch, sessions>>
      /\ OwnedBy(c) /\ NeverBehind(c)
  <2>1. UNCHANGED <<epoch, sessions>>
    BY DEF Identity!LoginAnswered, Identity!RefreshAnswered, Identity!Restart,
       Identity!CallRefused
  <2> QED
    BY <2>1, UnchangedRows DEF IdentityInv, IdentityTypes
<1>1. ASSUME NEW s \in StoreRow, NEW u \in UserRow, NEW r \in RefreshRow, NEW n \in Nat,
             n >= losses[c], RowsBecome(c, s, u, r, n), OwnedBy(c)', NeverBehind(c)'
      PROVE  IdentityInv'
  <2>1. IdentityTypes'
    BY <1>0, <1>1, ClientRows DEF IdentityInv, IdentityTypes
  <2>2. /\ losses'[c] = n
        /\ \A d \in Clients \ {c} : /\ store'[d] = store[d] /\ user'[d] = user[d]
                                    /\ refresh'[d] = refresh[d] /\ losses'[d] = losses[d]
    BY <1>1, ClientRows DEF IdentityInv
  <2>3. sessions' = sessions /\ losses'[c] >= losses[c]
    BY <1>0, <1>1, <2>2
  <2> QED
    BY <1>1, <2>1, <2>2, <2>3, SameSessions
<1>2. \A pair \in TokenPair : [store[c] EXCEPT !.refresh = pair] \in StoreRow
  BY <1>0 DEF StoreRow
<1>3. CASE Identity!LoginAnswered(c)
  <2> DEFINE s == [store[c] EXCEPT !.refresh = user[c].pair]
             u == [user[c] EXCEPT !.at = "written"]
  <2>1. /\ s \in StoreRow /\ s.refresh = user[c].pair
        /\ u \in UserRow /\ u.at = "written"
    BY <1>0, <1>2 DEF UserRow, StoreRow
  <2>2. RowsBecome(c, s, u, refresh[c], losses[c]) /\ Answered(c)
    BY <1>0, <1>3 DEF Identity!LoginAnswered, Identity!StoreRefresh, RowsBecome, Answered,
       IdentityInv, IdentityTypes
  <2> HIDE DEF s, u
  <2>3. /\ store'[c] = s /\ user'[c] = u /\ refresh'[c] = refresh[c] /\ losses'[c] = losses[c]
    BY <1>0, <2>1, <2>2, ClientRows DEF IdentityInv
  <2>4. OwnedBy(c)'
    BY <1>0, <2>1, <2>2, <2>3 DEF OwnedBy, Owns, Stored, Answered, InFlight
  <2>5. NeverBehind(c)'
    BY <1>0, <2>1, <2>2, <2>3 DEF NeverBehind, IsCurrent, Stored, Answered, InFlight
  <2> QED
    BY <1>0, <1>1, <2>1, <2>2, <2>4, <2>5
<1>4. CASE Identity!RefreshAnswered(c)
  <2> DEFINE s == [store[c] EXCEPT !.refresh = refresh[c].pair]
             r == [refresh[c] EXCEPT !.at = "written"]
  <2>1. /\ s \in StoreRow /\ s.refresh = refresh[c].pair
        /\ r \in RefreshRow /\ r.at = "written"
    BY <1>0, <1>2 DEF RefreshRow, StoreRow
  <2>2. RowsBecome(c, s, user[c], r, losses[c]) /\ InFlight(c)
    BY <1>0, <1>4 DEF Identity!RefreshAnswered, Identity!StoreRefresh, RowsBecome, InFlight,
       IdentityInv, IdentityTypes
  <2> HIDE DEF s, r
  <2>3. /\ store'[c] = s /\ user'[c] = user[c] /\ refresh'[c] = r /\ losses'[c] = losses[c]
    BY <1>0, <2>1, <2>2, ClientRows DEF IdentityInv
  <2>4. OwnedBy(c)'
    BY <1>0, <2>1, <2>2, <2>3 DEF OwnedBy, Owns, Stored, Answered, InFlight
  <2>5. NeverBehind(c)'
    BY <1>0, <2>1, <2>2, <2>3 DEF NeverBehind, IsCurrent, Stored, Answered, InFlight
  <2> QED
    BY <1>0, <1>1, <2>1, <2>2, <2>4, <2>5
<1> DEFINE begun == [at |-> IF store[c].refresh = Identity!NoPair THEN "failed" ELSE "sent",
                     pair |-> store[c].refresh]
<1>5. /\ begun \in RefreshRow /\ begun.pair = store[c].refresh
      /\ begun.at \in {"failed", "sent"} /\ (begun.at = "sent" => Stored(c))
      /\ Identity!Started(c) = [refresh EXCEPT ![c] = begun]
  BY <1>0 DEF RefreshRow, StoreRow, Stored, Identity!Started
<1> HIDE DEF begun
<1>6. CASE Identity!Restart(c)
  <2> DEFINE s == [store[c] EXCEPT !.access = Identity!NoPair]
             r == IF store[c].refresh = Identity!NoPair THEN Identity!NoRefresh ELSE begun
  <2>1. /\ s \in StoreRow /\ s.refresh = store[c].refresh
        /\ r \in RefreshRow /\ r.at # "answered"
        /\ r.at = "sent" => Stored(c) /\ r.pair = store[c].refresh
    BY <1>0, <1>5, PairTypes DEF RefreshRow, StoreRow
  <2>2. RowsBecome(c, s, Identity!NoUser, r, losses[c] + 1)
    BY <1>0, <1>5, <1>6 DEF Identity!Restart, Identity!StoreAccess, Identity!Loss, RowsBecome,
       IdentityInv, IdentityTypes
  <2> HIDE DEF s, r
  <2>3. losses[c] + 1 \in Nat /\ losses[c] + 1 # 0 /\ losses[c] + 1 >= losses[c]
    BY <1>0
  <2>4. /\ store'[c] = s /\ user'[c] = Identity!NoUser /\ refresh'[c] = r
        /\ losses'[c] = losses[c] + 1
    BY <1>0, <2>1, <2>2, <2>3, PairTypes, ClientRows DEF IdentityInv
  <2>5. OwnedBy(c)'
    BY <1>0, <2>1, <2>4, PairTypes DEF OwnedBy, Owns, Stored, Answered, InFlight
  <2>6. NeverBehind(c)'
    BY <2>3, <2>4 DEF NeverBehind
  <2> QED
    BY <1>1, <2>1, <2>2, <2>3, <2>5, <2>6, PairTypes
<1>7. ASSUME NEW k \in Slots, Identity!CallRefused(c, k) PROVE IdentityInv'
  <2>1. /\ UNCHANGED <<store, user, losses>>
        /\ refresh' = refresh \/ (refresh[c].at = "none" /\ refresh' = [refresh EXCEPT ![c] = begun])
    BY <1>5, <1>7 DEF Identity!CallRefused, Identity!JoinRefresh
  <2>2. PICK r \in RefreshRow :
          /\ refresh' = [refresh EXCEPT ![c] = r]
          /\ r = refresh[c] \/ (refresh[c].at = "none" /\ r = begun)
    BY <1>0, <1>5, <2>1
  <2>3. RowsBecome(c, store[c], user[c], r, losses[c])
    BY <1>0, <2>1, <2>2 DEF RowsBecome
  <2>4. store'[c] = store[c] /\ user'[c] = user[c] /\ refresh'[c] = r /\ losses'[c] = losses[c]
    BY <1>0, <2>2, <2>3, ClientRows DEF IdentityInv
  <2>5. OwnedBy(c)'
    BY <1>0, <1>5, <2>2, <2>4 DEF OwnedBy, Owns, Stored, Answered, InFlight
  <2>6. NeverBehind(c)'
    BY <1>0, <1>5, <2>2, <2>4 DEF NeverBehind, IsCurrent, Stored, Answered, InFlight
  <2> QED
    BY <1>0, <1>1, <2>3, <2>5, <2>6
<1> QED
  BY <1>3, <1>4, <1>6, <1>7

\* Creating a session revokes the others of its installation.
LEMMA CreatedRows ==
  ASSUME IdentityTypes, NEW c \in Clients
  PROVE  /\ Identity!Created(c) \in Seq(SessionRow)
         /\ DOMAIN Identity!Created(c) = 1 .. Len(sessions) + 1
         /\ \A s \in DOMAIN sessions :
              /\ Identity!Created(c)[s].client = sessions[s].client
              /\ Identity!Created(c)[s].token = sessions[s].token
              /\ \/ Identity!Created(c)[s].revoked = sessions[s].revoked
                 \/ sessions[s].client = c /\ Identity!Created(c)[s].revoked = "login"
         /\ Identity!Created(c)[Len(sessions) + 1] = [client |-> c, token |-> 1, revoked |-> "no"]
<1> DEFINE old == [s \in DOMAIN sessions |->
                     IF sessions[s].client = c /\ sessions[s].revoked = "no"
                     THEN [sessions[s] EXCEPT !.revoked = "login"] ELSE sessions[s]]
           new == [client |-> c, token |-> 1, revoked |-> "no"]
<1>1. /\ Len(sessions) \in Nat /\ DOMAIN sessions = 1 .. Len(sessions)
      /\ \A s \in DOMAIN sessions : sessions[s] \in SessionRow
  BY SessionRows
<1>2. \A s \in DOMAIN sessions :
        /\ old[s] \in SessionRow /\ old[s].client = sessions[s].client
        /\ old[s].token = sessions[s].token
        /\ \/ old[s].revoked = sessions[s].revoked
           \/ sessions[s].client = c /\ old[s].revoked = "login"
  BY <1>1 DEF SessionRow
<1>3. new \in SessionRow
  BY DEF SessionRow
<1>4. Identity!Created(c) = Append(old, new)
  BY DEF Identity!Created
<1>5. DOMAIN old = 1 .. Len(sessions)
  BY <1>1
<1> HIDE DEF old, new
<1>6. old \in Seq(SessionRow) /\ Len(old) = Len(sessions)
  <2>1. old \in [1 .. Len(sessions) -> SessionRow]
    BY <1>1, <1>2, <1>5 DEF old
  <2> QED
    BY <1>1, <2>1
<1>7. /\ Append(old, new) \in Seq(SessionRow) /\ DOMAIN Append(old, new) = 1 .. Len(sessions) + 1
      /\ \A s \in 1 .. Len(sessions) : Append(old, new)[s] = old[s]
      /\ Append(old, new)[Len(sessions) + 1] = new
  BY <1>1, <1>3, <1>6
<1> QED
  BY <1>1, <1>2, <1>4, <1>7 DEF new

\* The steps that create a session: login and bootstrap.
LEMMA CreatingSteps ==
  ASSUME IdentityInv, NEW c \in Clients,
         sessions' = Identity!Created(c), epoch' = epoch, NEW u \in UserRow, u.at = "answered",
         u.pair.session = Len(sessions) + 1, u.pair.token = 1,
         RowsBecome(c, store[c], u, refresh[c], losses[c])
  PROVE  IdentityInv'
<1> DEFINE N == Len(sessions)
<1>0. /\ store[c] \in StoreRow /\ refresh[c] \in RefreshRow /\ losses[c] \in Nat
      /\ OwnedBy(c) /\ NeverBehind(c) /\ Identity!ReuseMeansLoss /\ IdentityTypes
  BY UnchangedRows DEF IdentityInv
<1>1. /\ store'[c] = store[c] /\ user'[c] = u /\ refresh'[c] = refresh[c] /\ losses'[c] = losses[c]
      /\ \A d \in Clients \ {c} : /\ store'[d] = store[d] /\ user'[d] = user[d]
                                  /\ refresh'[d] = refresh[d] /\ losses'[d] = losses[d]
  BY <1>0, ClientRows
<1>10. /\ N \in Nat /\ DOMAIN sessions = 1 .. N
       /\ \A s \in DOMAIN sessions : sessions[s] \in SessionRow
  BY <1>0, SessionRows
<1>11. DOMAIN sessions' = 1 .. N + 1
  BY <1>0, CreatedRows
<1>2. /\ N + 1 \notin DOMAIN sessions /\ N + 1 # 0 /\ N + 1 \in DOMAIN sessions'
      /\ DOMAIN sessions \subseteq DOMAIN sessions'
      /\ \A s \in DOMAIN sessions' : s \in DOMAIN sessions \/ s = N + 1
      /\ \A s \in DOMAIN sessions : sessions[s] \in SessionRow /\ s # 0
  <2> HIDE DEF N
  <2> QED
    BY <1>10, <1>11
<1>3. /\ sessions' \in Seq(SessionRow)
      /\ \A s \in DOMAIN sessions :
              /\ sessions'[s].client = sessions[s].client
              /\ sessions'[s].token = sessions[s].token
              /\ \/ sessions'[s].revoked = sessions[s].revoked
                 \/ sessions[s].client = c /\ sessions'[s].revoked = "login"
      /\ sessions'[N + 1].client = c /\ sessions'[N + 1].token = 1
      /\ sessions'[N + 1].revoked = "no"
  <2> HIDE DEF Identity!Created
  <2>1. sessions'[N + 1] = [client |-> c, token |-> 1, revoked |-> "no"]
    BY <1>0, CreatedRows
  <2>2. /\ sessions'[N + 1].client = c /\ sessions'[N + 1].token = 1
        /\ sessions'[N + 1].revoked = "no"
    BY <2>1
  <2>3. sessions' \in Seq(SessionRow)
    BY <1>0, CreatedRows
  <2>4. \A s \in DOMAIN sessions :
              /\ sessions'[s].client = sessions[s].client
              /\ sessions'[s].token = sessions[s].token
              /\ \/ sessions'[s].revoked = sessions[s].revoked
                 \/ sessions[s].client = c /\ sessions'[s].revoked = "login"
    BY <1>0, CreatedRows
  <2> QED
    BY <2>2, <2>3, <2>4
<1> HIDE DEF N
<1>4. IdentityTypes'
  BY <1>0, <1>3, ClientRows DEF IdentityTypes
<1>5. Identity!ReuseMeansLoss'
  <2>1. \A d \in Clients : losses'[d] = losses[d]
    BY <1>1
  <2>2. \A s \in DOMAIN sessions : sessions[s].client \in Clients
    BY <1>2 DEF SessionRow
  <2> QED
    BY <1>0, <1>2, <1>3, <2>1, <2>2 DEF Identity!ReuseMeansLoss
<1>6. \A pair : Owns(c, pair) => Owns(c, pair)' /\ (IsCurrent(pair) => IsCurrent(pair)')
  BY <1>2, <1>3 DEF Owns, IsCurrent
<1>7. /\ Stored(c)' => Stored(c) /\ store'[c] = store[c] /\ Owns(c, store[c].refresh)
      /\ InFlight(c)' => InFlight(c) /\ refresh'[c] = refresh[c] /\ Owns(c, refresh[c].pair)
      /\ u.pair.session = N + 1
  BY <1>0, <1>1 DEF Stored, InFlight, OwnedBy, N
<1>8. OwnedBy(c)'
  BY <1>1, <1>2, <1>3, <1>6, <1>7 DEF OwnedBy, Owns, Stored, Answered, InFlight
<1>9. NeverBehind(c)'
  <2> SUFFICES ASSUME losses'[c] = 0 PROVE NeverBehind(c)'
    BY DEF NeverBehind
  <2>1. IsCurrent(u.pair)'
    BY <1>3, <1>7 DEF IsCurrent
  <2>2. store[c].refresh.session # N + 1
    <3>1. Identity!NoPair.session = 0
      BY DEF Identity!NoPair
    <3> QED
      BY <1>0, <1>2, <3>1 DEF OwnedBy, Owns, Stored
  <2>3. InFlight(c)' => refresh[c].pair.session # N + 1 /\ IsCurrent(refresh[c].pair)'
    BY <1>0, <1>1, <1>2, <1>6, <1>7 DEF NeverBehind, Owns
  <2>4. Stored(c)' => \/ IsCurrent(store[c].refresh)'
                      \/ /\ refresh'[c].at = "answered"
                         /\ refresh'[c].pair.session = store[c].refresh.session
    BY <1>0, <1>1, <1>6, <1>7 DEF NeverBehind
  <2>5. /\ IsCurrent(user[c].pair)'
        /\ store'[c].refresh.session # user'[c].pair.session
        /\ InFlight(c)' => refresh'[c].pair.session # user'[c].pair.session
    BY <1>1, <1>7, <2>1, <2>2, <2>3 DEF IsCurrent
  <2>6. InFlight(c)' => IsCurrent(refresh[c].pair)'
    BY <2>3
  <2>7. Stored(c)' => \/ IsCurrent(store[c].refresh)'
                      \/ /\ refresh'[c].at = "answered"
                         /\ refresh'[c].pair.session = store'[c].refresh.session
    BY <1>1, <2>4
  <2> QED
    BY <2>5, <2>6, <2>7 DEF NeverBehind
<1> QED
  BY <1>1, <1>2, <1>3, <1>4, <1>5, <1>8, <1>9, OneClient

LEMMA LoginSteps ==
  ASSUME IdentityInv, NEW c \in Clients,
         Identity!ServeLogin(c) \/ Identity!ServeBootstrap(c)
  PROVE  IdentityInv'
<1> USE DEF Identity!server
<1>0. /\ store[c] \in StoreRow /\ user[c] \in UserRow
      /\ refresh[c] \in RefreshRow /\ losses[c] \in Nat
      /\ store = [store EXCEPT ![c] = store[c]]
      /\ refresh = [refresh EXCEPT ![c] = refresh[c]]
      /\ losses = [losses EXCEPT ![c] = losses[c]]
      /\ epoch \in Nat /\ Len(sessions) + 1 \in Nat
  BY UnchangedRows, SessionRows DEF IdentityInv, IdentityTypes
<1>1. CASE Identity!ServeLogin(c)
  <2> DEFINE u == [user[c] EXCEPT !.at = "answered",
                          !.pair.session = Len(sessions) + 1, !.pair.token = 1]
  <2>1. /\ u \in UserRow /\ u.at = "answered" /\ u.pair.session = Len(sessions) + 1
        /\ u.pair.token = 1
    BY <1>0 DEF UserRow, TokenPair
  <2>2. /\ user' = [user EXCEPT ![c] = u] /\ sessions' = Identity!Created(c)
        /\ UNCHANGED <<epoch, store, refresh, losses>>
    BY <1>1 DEF Identity!ServeLogin, IdentityInv, IdentityTypes
  <2> HIDE DEF u
  <2>3. RowsBecome(c, store[c], u, refresh[c], losses[c])
    BY <1>0, <2>2 DEF RowsBecome
  <2> QED
    BY <2>1, <2>2, <2>3, CreatingSteps
<1>2. CASE Identity!ServeBootstrap(c) /\ ~admin
  <2> DEFINE u == [user[c] EXCEPT !.at = "answered",
                     !.pair = [session |-> Len(sessions) + 1, token |-> 1, epoch |-> epoch]]
  <2>1. /\ u \in UserRow /\ u.at = "answered" /\ u.pair.session = Len(sessions) + 1
        /\ u.pair.token = 1
    BY <1>0 DEF UserRow, TokenPair
  <2>2. /\ user' = [user EXCEPT ![c] = u] /\ sessions' = Identity!Created(c)
        /\ UNCHANGED <<epoch, store, refresh, losses>>
    BY <1>2 DEF Identity!ServeBootstrap, IdentityInv, IdentityTypes
  <2> HIDE DEF u
  <2>3. RowsBecome(c, store[c], u, refresh[c], losses[c])
    BY <1>0, <2>2 DEF RowsBecome
  <2> QED
    BY <2>1, <2>2, <2>3, CreatingSteps
<1>3. CASE Identity!ServeBootstrap(c) /\ admin
  <2>1. /\ user' = [user EXCEPT ![c] = Identity!NoUser]
        /\ UNCHANGED <<epoch, sessions, store, refresh, losses>>
    BY <1>3 DEF Identity!ServeBootstrap
  <2>2. RowsBecome(c, store[c], Identity!NoUser, refresh[c], losses[c])
    BY <1>0, <2>1 DEF RowsBecome
  <2> QED
    BY <1>0, <2>1, <2>2, PairTypes, NothingGained
<1> QED
  BY <1>1, <1>2, <1>3

\* A change of one row of the table.
LEMMA RowSet ==
  ASSUME IdentityTypes, NEW k \in DOMAIN sessions, NEW row \in SessionRow,
         sessions' = [sessions EXCEPT ![k] = row]
  PROVE  /\ sessions' \in Seq(SessionRow) /\ DOMAIN sessions' = DOMAIN sessions
         /\ sessions'[k] = row /\ \A s \in DOMAIN sessions \ {k} : sessions'[s] = sessions[s]
<1>1. sessions \in Seq(SessionRow)
  BY DEF IdentityTypes
<1> QED
  BY <1>1

LEMMA LogoutStep ==
  ASSUME IdentityInv, NEW c \in Clients, Identity!ServeLogout(c)
  PROVE  IdentityInv'
<1> DEFINE u == [user[c] EXCEPT !.at = "clear"]
           k == user[c].pair.session
<1>0. /\ store[c] \in StoreRow /\ user[c] \in UserRow
      /\ refresh[c] \in RefreshRow /\ losses[c] \in Nat
      /\ store = [store EXCEPT ![c] = store[c]]
      /\ refresh = [refresh EXCEPT ![c] = refresh[c]]
      /\ losses = [losses EXCEPT ![c] = losses[c]]
      /\ epoch \in Nat /\ IdentityTypes /\ OwnedBy(c) /\ NeverBehind(c)
      /\ Identity!ReuseMeansLoss
  BY UnchangedRows DEF IdentityInv, IdentityTypes
<1>1. u \in UserRow /\ u.at = "clear"
  BY <1>0 DEF UserRow
<1>2. /\ user' = [user EXCEPT ![c] = u] /\ UNCHANGED <<store, refresh, losses>>
      /\ \/ epoch' = epoch + 1 /\ sessions' = [sessions EXCEPT ![k].revoked = "logout"]
         \/ UNCHANGED <<sessions, epoch>>
  BY DEF Identity!ServeLogout, Identity!Revoked, IdentityInv, IdentityTypes
<1> HIDE DEF u, k
<1>3. RowsBecome(c, store[c], u, refresh[c], losses[c])
  BY <1>0, <1>2 DEF RowsBecome
<1>4. CASE UNCHANGED <<sessions, epoch>>
  BY <1>0, <1>1, <1>3, <1>4, NothingGained
<1>5. CASE epoch' = epoch + 1 /\ sessions' = [sessions EXCEPT ![k].revoked = "logout"]
  <2>1. /\ sessions' \in Seq(SessionRow) /\ DOMAIN sessions' = DOMAIN sessions
        /\ \A s \in DOMAIN sessions : /\ sessions'[s].client = sessions[s].client
                                      /\ sessions'[s].token = sessions[s].token
                                      /\ sessions'[s].revoked \in {sessions[s].revoked, "logout"}
    <3>1. CASE k \in DOMAIN sessions
      <4> DEFINE row == [sessions[k] EXCEPT !.revoked = "logout"]
      <4>1. sessions[k] \in SessionRow
        BY <1>0, <3>1, SessionRows
      <4>2. /\ row \in SessionRow /\ row.client = sessions[k].client
            /\ row.token = sessions[k].token /\ row.revoked = "logout"
        BY <4>1 DEF SessionRow
      <4>3. sessions' = [sessions EXCEPT ![k] = row]
        BY <1>5
      <4> HIDE DEF row
      <4> QED
        BY <1>0, <3>1, <4>2, <4>3, RowSet
    <3>2. CASE k \notin DOMAIN sessions
      <4>1. sessions' = sessions
        BY <1>0, <1>5, <3>2 DEF IdentityTypes
      <4> QED
        BY <1>0, <4>1 DEF IdentityTypes
    <3> QED
      BY <3>1, <3>2
  <2>2. IdentityTypes'
    BY <1>0, <1>1, <1>3, <1>5, <2>1, ClientRows DEF IdentityTypes
  <2>3. Identity!ReuseMeansLoss'
    BY <1>0, <1>2, <2>1 DEF Identity!ReuseMeansLoss
  <2>4. \A pair, d : Owns(d, pair) => Owns(d, pair)' /\ (IsCurrent(pair) => IsCurrent(pair)')
    BY <2>1 DEF Owns, IsCurrent
  <2>5. /\ store'[c] = store[c] /\ user'[c] = u /\ refresh'[c] = refresh[c]
        /\ losses'[c] = losses[c]
        /\ \A d \in Clients \ {c} : user'[d] = user[d]
    BY <1>0, <1>1, <1>3, ClientRows
  <2>6. OwnedBy(c)'
    BY <1>0, <1>1, <2>4, <2>5 DEF OwnedBy, Stored, Answered, InFlight
  <2>7. NeverBehind(c)'
    <3>1. ~Answered(c)'
      BY <1>1, <2>5 DEF Answered
    <3>2. losses'[c] = 0 /\ InFlight(c)' => IsCurrent(refresh[c].pair)'
      BY <1>0, <1>2, <2>4 DEF NeverBehind, OwnedBy, InFlight
    <3>3. losses'[c] = 0 /\ Stored(c)' =>
            \/ IsCurrent(store[c].refresh)'
            \/ /\ refresh'[c].at = "answered"
               /\ refresh'[c].pair.session = store'[c].refresh.session
      <4>1. Stored(c)' => Stored(c) /\ Owns(c, store[c].refresh)
        BY <1>0, <1>2 DEF OwnedBy, Stored
      <4> QED
        BY <1>0, <1>2, <2>4, <4>1 DEF NeverBehind
    <3> QED
      BY <3>1, <3>2, <3>3 DEF NeverBehind
  <2> QED
    BY <1>2, <2>1, <2>2, <2>3, <2>5, <2>6, <2>7, OneClient
<1> QED
  BY <1>2, <1>4, <1>5

\* A refresh answers with the next token, or finds the session revoked, or finds
\* the token rotated out: then the client has lost something.
LEMMA RefreshStep ==
  ASSUME IdentityInv, NEW c \in Clients, Identity!ServeRefresh(c)
  PROVE  IdentityInv'
<1> DEFINE k == refresh[c].pair.session
           token == refresh[c].pair.token
           failed == [refresh[c] EXCEPT !.at = "failed"]
           answer == [at |-> "answered", pair |-> [session |-> k, token |-> token + 1, epoch |-> epoch]]
           reuse == [sessions[k] EXCEPT !.revoked = "reuse"]
           rotated == [sessions[k] EXCEPT !.token = sessions[k].token + 1]
<1>0. /\ store[c] \in StoreRow /\ user[c] \in UserRow
      /\ refresh[c] \in RefreshRow /\ losses[c] \in Nat
      /\ store = [store EXCEPT ![c] = store[c]] /\ user = [user EXCEPT ![c] = user[c]]
      /\ losses = [losses EXCEPT ![c] = losses[c]]
      /\ epoch \in Nat /\ IdentityTypes /\ OwnedBy(c) /\ NeverBehind(c)
      /\ Identity!ReuseMeansLoss /\ UNCHANGED <<epoch, store, user, losses>>
  BY UnchangedRows DEF IdentityInv, IdentityTypes, Identity!ServeRefresh
<1>1. refresh[c].at = "sent" /\ InFlight(c)
  BY DEF Identity!ServeRefresh, InFlight
<1>2. /\ k \in DOMAIN sessions /\ sessions[k].client = c /\ sessions[k] \in SessionRow
      /\ token \in Nat /\ refresh[c].pair \in TokenPair
  BY <1>0, <1>1, SessionRows DEF OwnedBy, Owns, RefreshRow, TokenPair
<1>3. /\ failed \in RefreshRow /\ failed.at = "failed"
      /\ answer \in RefreshRow /\ answer.at = "answered" /\ answer.pair.session = k
      /\ answer.pair.token = token + 1
      /\ reuse \in SessionRow /\ reuse.client = c /\ reuse.revoked = "reuse"
      /\ reuse.token = sessions[k].token
      /\ rotated \in SessionRow /\ rotated.client = c /\ rotated.token = sessions[k].token + 1
      /\ rotated.revoked = sessions[k].revoked
  BY <1>0, <1>2 DEF RefreshRow, TokenPair, SessionRow
<1>4. \/ refresh' = [refresh EXCEPT ![c] = failed] /\ UNCHANGED sessions
      \/ /\ sessions[k].revoked = "no" /\ sessions[k].token # token
         /\ refresh' = [refresh EXCEPT ![c] = failed]
         /\ sessions' = [sessions EXCEPT ![k] = reuse]
      \/ /\ sessions[k].revoked = "no" /\ sessions[k].token = token
         /\ refresh' = [refresh EXCEPT ![c] = answer]
         /\ sessions' = [sessions EXCEPT ![k] = rotated]
  <2>1. \/ refresh' = [refresh EXCEPT ![c].at = "failed"] /\ UNCHANGED sessions
        \/ /\ sessions[k].revoked = "no" /\ sessions[k].token # token
           /\ refresh' = [refresh EXCEPT ![c].at = "failed"]
           /\ sessions' = [sessions EXCEPT ![k].revoked = "reuse"]
        \/ /\ sessions[k].revoked = "no" /\ sessions[k].token = token
           /\ refresh' = [refresh EXCEPT ![c] = answer]
           /\ sessions' = [sessions EXCEPT ![k].token = @ + 1]
    BY DEF Identity!ServeRefresh, Identity!Revoked
  <2> QED
    BY <2>1
<1> HIDE DEF failed, answer, reuse, rotated, k, token
<1>5. ASSUME NEW r \in RefreshRow, refresh' = [refresh EXCEPT ![c] = r]
      PROVE  RowsBecome(c, store[c], user[c], r, losses[c])
  BY <1>0, <1>5 DEF RowsBecome
<1>6. CASE refresh' = [refresh EXCEPT ![c] = failed] /\ UNCHANGED sessions
  <2>1. RowsBecome(c, store[c], user[c], failed, losses[c])
    BY <1>3, <1>5, <1>6
  <2>2. UNCHANGED <<epoch, sessions>> /\ losses[c] >= losses[c]
    BY <1>0, <1>6
  <2> QED
    BY <1>0, <1>1, <1>3, <2>1, <2>2, NothingGained
<1>7. ASSUME NEW row \in SessionRow, row.client = c, NEW r \in RefreshRow,
             row.revoked = "no" => sessions[k].revoked = "no",
             row.revoked = "reuse" => sessions[k].revoked = "reuse" \/ losses[c] > 0,
             sessions' = [sessions EXCEPT ![k] = row],
             refresh' = [refresh EXCEPT ![c] = r],
             r.at \in {"sent", "answered"} => r.pair.session = k,
             NeverBehind(c)'
      PROVE  IdentityInv'
  <2>1. /\ sessions' \in Seq(SessionRow) /\ DOMAIN sessions' = DOMAIN sessions
        /\ sessions'[k] = row /\ \A s \in DOMAIN sessions \ {k} : sessions'[s] = sessions[s]
    BY <1>0, <1>2, <1>7, RowSet
  <2>2. /\ store' \in [Clients -> StoreRow] /\ user' \in [Clients -> UserRow]
        /\ refresh' \in [Clients -> RefreshRow] /\ losses' \in [Clients -> Nat]
        /\ store'[c] = store[c] /\ user'[c] = user[c] /\ refresh'[c] = r /\ losses'[c] = losses[c]
        /\ \A d \in Clients \ {c} : /\ store'[d] = store[d] /\ user'[d] = user[d]
                                    /\ refresh'[d] = refresh[d] /\ losses'[d] = losses[d]
    BY <1>0, <1>5, <1>7, ClientRows
  <2>3. IdentityTypes'
    BY <1>0, <2>1, <2>2 DEF IdentityTypes
  <2>4. \A s \in DOMAIN sessions :
           /\ sessions'[s].client = sessions[s].client
           /\ sessions[s].client # c =>
                /\ sessions'[s].token = sessions[s].token
                /\ sessions'[s].revoked = "no" => sessions[s].revoked = "no"
    BY <1>2, <1>7, <2>1
  <2>5. Identity!ReuseMeansLoss'
    BY <1>0, <1>2, <1>7, <2>1, <2>4 DEF Identity!ReuseMeansLoss
  <2>6. OwnedBy(c)'
    BY <1>0, <1>2, <1>7, <2>1, <2>2, <2>4 DEF OwnedBy, Owns, Stored, Answered, InFlight
  <2> QED
    BY <1>7, <2>1, <2>2, <2>3, <2>4, <2>5, <2>6, OneClient
<1>8. CASE /\ sessions[k].revoked = "no" /\ sessions[k].token # token
           /\ refresh' = [refresh EXCEPT ![c] = failed]
           /\ sessions' = [sessions EXCEPT ![k] = reuse]
  <2>1. ~IsCurrent(refresh[c].pair)
    BY <1>8 DEF IsCurrent, k, token
  <2>2. losses[c] > 0 /\ losses'[c] = losses[c]
    BY <1>0, <1>1, <2>1 DEF NeverBehind
  <2>3. NeverBehind(c)'
    BY <2>2 DEF NeverBehind
  <2> QED
    BY <1>3, <1>7, <1>8, <2>2, <2>3
<1>9. CASE /\ sessions[k].revoked = "no" /\ sessions[k].token = token
           /\ refresh' = [refresh EXCEPT ![c] = answer]
           /\ sessions' = [sessions EXCEPT ![k] = rotated]
  <2>1. /\ sessions'[k] = rotated /\ \A s \in DOMAIN sessions \ {k} : sessions'[s] = sessions[s]
    BY <1>0, <1>2, <1>3, <1>9, RowSet
  <2>2. refresh'[c] = answer /\ store'[c] = store[c] /\ user'[c] = user[c] /\ losses'[c] = losses[c]
    BY <1>0, <1>3, <1>5, <1>9, ClientRows
  <2>3. NeverBehind(c)'
    <3> SUFFICES ASSUME losses'[c] = 0 PROVE NeverBehind(c)'
      BY DEF NeverBehind
    <3>1. IsCurrent(refresh[c].pair)'
      BY <1>3, <1>9, <2>1, <2>2 DEF IsCurrent
    <3>2. \A pair : Owns(c, pair) /\ pair.session # k /\ IsCurrent(pair) => IsCurrent(pair)'
      BY <2>1 DEF Owns, IsCurrent
    <3>3. Answered(c)' => /\ IsCurrent(user[c].pair)'
                          /\ store'[c].refresh.session # user'[c].pair.session
                          /\ refresh'[c].pair.session # user'[c].pair.session
      <4>1. Answered(c)' => Answered(c)
        BY <2>2 DEF Answered
      <4>2. Answered(c) => /\ Owns(c, user[c].pair) /\ IsCurrent(user[c].pair)
                           /\ store[c].refresh.session # user[c].pair.session
                           /\ user[c].pair.session # k
        BY <1>0, <1>1, <2>2 DEF NeverBehind, OwnedBy, k
      <4>3. Answered(c)' => IsCurrent(user[c].pair)'
        BY <2>2, <3>2, <4>1, <4>2
      <4> QED
        BY <1>3, <2>2, <4>1, <4>2, <4>3
    <3>4. Stored(c)' => \/ IsCurrent(store[c].refresh)'
                        \/ /\ refresh'[c].at = "answered"
                           /\ refresh'[c].pair.session = store'[c].refresh.session
      <4>1. Stored(c)' => Owns(c, store[c].refresh) /\ IsCurrent(store[c].refresh)
        BY <1>0, <1>1, <2>2 DEF NeverBehind, OwnedBy, Stored
      <4>2. Stored(c)' /\ store[c].refresh.session # k => IsCurrent(store[c].refresh)'
        BY <2>2, <3>2, <4>1
      <4> QED
        BY <1>3, <2>2, <4>2
    <3> QED
      BY <3>1, <3>3, <3>4 DEF NeverBehind
  <2> QED
    BY <1>3, <1>7, <1>9, <2>3
<1> QED
  BY <1>4, <1>6, <1>8, <1>9

LEMMA IdentityStep == IdentityInv /\ [Identity!Next]_(Identity!vars) => IdentityInv'
<1> SUFFICES ASSUME IdentityInv, [Identity!Next]_(Identity!vars) PROVE IdentityInv'
  OBVIOUS
<1>1. CASE Identity!Next
  BY <1>1, LosingSteps, GainingSteps, LoginSteps, LogoutStep, RefreshStep
  DEF Identity!Next, Identity!ClientStep, Identity!ServerStep
<1>2. CASE UNCHANGED Identity!vars
  BY <1>2 DEF Identity!vars, Identity!server, IdentityInv, IdentityTypes, OwnedBy, Owns, Stored,
     Answered, InFlight, NeverBehind, IsCurrent, Identity!ReuseMeansLoss
<1> QED
  BY <1>1, <1>2

\* A session is revoked for the reuse of its refresh token only when an answer
\* to its client was lost or the client was restarted (service.py:320,
\* api_client.dart _singleFlightRefresh).
THEOREM ReuseIsExplained == Spec => []ReuseMeansLoss
<1>1. Identity!Spec => []IdentityInv
  BY IdentityInit, IdentityStep, PTL DEF Identity!Spec
<1>2. IdentityInv => ReuseMeansLoss
  BY DEF IdentityInv, ReuseMeansLoss
<1> QED
  BY <1>1, <1>2, IdentityRuns, PTL
-----------------------------------------------------------------------------
\* Every behaviour of the composition is one of the sources, and of the content.
LEMMA SourcesRuns == Spec => Sources!Spec
<1>1. Init => Sources!Init
  BY DEF Init
<1>2. [Next]_vars => [Sources!Next]_(Sources!vars)
  BY DEF Next, vars, sourceVars, Sources!vars, Sources!rows
<1> QED
  BY <1>1, <1>2, PTL DEF Spec, Sources!Spec

LEMMA ContentRuns == Spec => Content!Spec
<1>1. Init => Content!Init
  BY DEF Init
<1>2. [Next]_vars => [Content!Next]_(Content!vars)
  BY DEF Next, vars, contentVars, Content!vars, Content!content, Content!files
<1> QED
  BY <1>1, <1>2, PTL DEF Spec, Content!Spec
-----------------------------------------------------------------------------
(* The sources.  The argument is the advisory lock of a post: an import    *)
(* holds the locks of the posts it read as not rejected, so none of them   *)
(* is rejected before it commits.                                          *)

Source == [status : {"absent", "pending", "identified", "manual", "rejected"},
           movie  : Numbers \cup {None},
           magnet : BOOLEAN]

\* The rows are rows, and a batch has a number or none for some posts.
RowsTyped ==
  /\ sources \in [Posts -> Source]
  /\ rejections \subseteq Posts
  /\ \E keys \in SUBSET Posts : importing \in [keys -> Numbers \cup {None}]

\* The row of a rejected post says so and has no magnet.
RejectedRows ==
  \A p \in rejections : sources[p].status = "rejected" /\ ~sources[p].magnet

\* No post of a batch under way is rejected.
LocksHold == \A p \in DOMAIN importing : p \notin rejections

SourcesInv == RowsTyped /\ RejectedRows /\ LocksHold

\* Initially no post is known, no batch is under way and nothing is rejected.
LEMMA SourcesInit == Sources!Init => SourcesInv
<1> SUFFICES ASSUME Sources!Init PROVE SourcesInv
  OBVIOUS
<1>1. sources \in [Posts -> Source]
  BY DEF Sources!Init, Source, Sources!NoSource
<1>2. importing \in [{} -> Numbers \cup {None}]
  BY DEF Sources!Init, Sources!NoImport
<1>3. DOMAIN importing = {}
  BY <1>2
<1> QED
  BY <1>1, <1>2, <1>3 DEF Sources!Init, SourcesInv, RowsTyped, RejectedRows, LocksHold

\* A change of rows that leaves rejected posts alone, under the same batch or
\* none, keeps the invariant.
LEMMA OtherRowsChange ==
  ASSUME SourcesInv, rejections' = rejections,
         sources' \in [Posts -> Source],
         \A p \in rejections : /\ sources'[p].status = sources[p].status
                               /\ sources'[p].magnet = sources[p].magnet,
         importing' = importing \/ importing' = Sources!NoImport
  PROVE  SourcesInv'
<1>1. \E keys \in SUBSET Posts : importing' \in [keys -> Numbers \cup {None}]
  <2>1. CASE importing' = importing
    BY <2>1 DEF SourcesInv, RowsTyped
  <2>2. CASE importing' = Sources!NoImport
    <3>1. importing' \in [{} -> Numbers \cup {None}]
      BY <2>2 DEF Sources!NoImport
    <3> QED
      BY <3>1
  <2> QED
    BY <2>1, <2>2
<1>2. LocksHold'
  BY DEF SourcesInv, LocksHold, Sources!NoImport
<1> QED
  BY <1>1, <1>2 DEF SourcesInv, RowsTyped, RejectedRows

\* A batch takes only posts without a rejection.
LEMMA ImportStartInv == SourcesInv /\ Sources!ImportStart => SourcesInv'
<1> SUFFICES ASSUME SourcesInv, Sources!ImportStart PROVE SourcesInv'
  OBVIOUS
<1>1. PICK keys \in SUBSET Posts, number \in [Posts -> Numbers \cup {None}] :
        importing' = Sources!Admitted([p \in keys |-> number[p]])
  BY DEF Sources!ImportStart
<1>2. importing' \in [keys \ rejections -> Numbers \cup {None}]
  BY <1>1 DEF Sources!Admitted
<1>3. DOMAIN importing' = keys \ rejections
  BY <1>2
<1>4. UNCHANGED <<sources, rejections>>
  BY DEF Sources!ImportStart, Sources!rows
<1> QED
  BY <1>2, <1>3, <1>4 DEF SourcesInv, RowsTyped, RejectedRows, LocksHold

\* What a batch writes are rows of its own posts.
LEMMA ImportCommitInv == SourcesInv /\ Sources!ImportCommit => SourcesInv'
<1> SUFFICES ASSUME SourcesInv, Sources!ImportCommit PROVE SourcesInv'
  OBVIOUS
<1>1. \A p \in DOMAIN importing : p \in Posts /\ importing[p] \in Numbers \cup {None}
  BY DEF SourcesInv, RowsTyped
<1>2. ASSUME NEW p \in DOMAIN importing PROVE Sources!Imported(p) \in Source
  <2>1. sources[p] \in Source
    BY <1>1 DEF SourcesInv, RowsTyped
  <2> QED
    BY <1>1, <2>1 DEF Sources!Imported, Sources!ManualNow, Source
<1>3. sources' = [p \in Posts |-> IF p \in DOMAIN importing THEN Sources!Imported(p) ELSE sources[p]]
  BY DEF Sources!ImportCommit
<1>4. sources' \in [Posts -> Source]
  BY <1>2, <1>3 DEF SourcesInv, RowsTyped
<1>5. \A p \in rejections : sources'[p] = sources[p]
  BY <1>3 DEF SourcesInv, RowsTyped, LocksHold
<1> QED
  BY <1>4, <1>5, OtherRowsChange DEF Sources!ImportCommit

\* The administrator changes attached or pending rows, or only their movie.
LEMMA AdministratorInv ==
  ASSUME SourcesInv, NEW p \in Posts, NEW m \in Numbers, NEW target \in Numbers,
         Sources!Identify(p, m) \/ Sources!Split(p, m) \/ Sources!Merge(target, m)
  PROVE  SourcesInv'
<1>1. sources \in [Posts -> Source]
  BY DEF SourcesInv, RowsTyped
<1>2. rejections' = rejections /\ importing' = importing
  BY DEF Sources!Identify, Sources!Split, Sources!Merge
<1>3. CASE Sources!Identify(p, m)
  <2>1. sources' = [sources EXCEPT ![p].movie = m, ![p].status = "manual"]
    BY <1>3 DEF Sources!Identify
  <2>2. sources' \in [Posts -> Source]
    BY <1>1, <2>1 DEF Source
  <2>3. p \notin rejections
    BY <1>3 DEF Sources!Identify, SourcesInv, RejectedRows
  <2>4. \A q \in rejections : sources'[q] = sources[q]
    BY <1>1, <2>1, <2>3 DEF SourcesInv, RowsTyped
  <2> QED
    BY <1>2, <2>2, <2>4, OtherRowsChange
<1>4. CASE Sources!Split(p, m)
  <2>1. sources' = [sources EXCEPT ![p].movie = m]
    BY <1>4 DEF Sources!Split
  <2>2. sources' \in [Posts -> Source]
    BY <1>1, <2>1 DEF Source
  <2>3. \A q \in Posts : /\ sources'[q].status = sources[q].status
                         /\ sources'[q].magnet = sources[q].magnet
    BY <1>1, <2>1 DEF Source
  <2> QED
    BY <1>2, <2>2, <2>3, OtherRowsChange DEF SourcesInv, RowsTyped
<1>5. CASE Sources!Merge(target, m)
  <2>1. sources' = [q \in Posts |-> IF sources[q].movie = m
                                    THEN [sources[q] EXCEPT !.movie = target]
                                    ELSE sources[q]]
    BY <1>5 DEF Sources!Merge
  <2>2. sources' \in [Posts -> Source]
    BY <1>1, <2>1 DEF Source
  <2>3. \A q \in Posts : /\ sources'[q].status = sources[q].status
                         /\ sources'[q].magnet = sources[q].magnet
    BY <1>1, <2>1 DEF Source
  <2> QED
    BY <1>2, <2>2, <2>3, OtherRowsChange DEF SourcesInv, RowsTyped
<1> QED
  BY <1>3, <1>4, <1>5

\* A rejection waits for the batch that holds the lock of its post.
LEMMA RejectInv == ASSUME SourcesInv, NEW p \in Posts, Sources!Reject(p) PROVE SourcesInv'
<1>1. CASE Sources!Unreadable(p)
  BY <1>1, OtherRowsChange DEF Sources!Unreadable, Sources!rows, SourcesInv, RowsTyped
<1>2. CASE ~Sources!Unreadable(p)
  <2>1. /\ Sources!KeyFree(p) /\ importing' = importing
        /\ sources' = [sources EXCEPT ![p].status = "rejected", ![p].magnet = FALSE]
        /\ rejections' = rejections \cup {p}
    BY <1>2 DEF Sources!Reject
  <2>2. sources \in [Posts -> Source] /\ rejections \subseteq Posts
    BY DEF SourcesInv, RowsTyped
  <2>3. sources' \in [Posts -> Source]
    BY <2>1, <2>2 DEF Source
  <2>4. sources'[p].status = "rejected" /\ ~sources'[p].magnet
    BY <2>1, <2>2 DEF Source
  <2>5. RejectedRows'
    BY <2>1, <2>2, <2>4 DEF SourcesInv, RejectedRows
  <2>6. LocksHold'
    BY <2>1 DEF SourcesInv, LocksHold, Sources!KeyFree
  <2> QED
    BY <2>1, <2>2, <2>3, <2>5, <2>6 DEF SourcesInv, RowsTyped
<1> QED
  BY <1>1, <1>2

\* The steps that change neither a source nor a rejection.
LEMMA OtherStepsInv ==
  ASSUME SourcesInv, UNCHANGED <<sources, rejections>>,
         importing' = importing \/ importing' = Sources!NoImport
  PROVE  SourcesInv'
BY OtherRowsChange DEF SourcesInv, RowsTyped

LEMMA SourcesNext == SourcesInv /\ [Sources!Next]_(Sources!vars) => SourcesInv'
<1> SUFFICES ASSUME SourcesInv, [Sources!Next]_(Sources!vars) PROVE SourcesInv'
  OBVIOUS
<1>1. CASE Sources!ImportStart
  BY <1>1, ImportStartInv
<1>2. CASE Sources!ImportCommit
  BY <1>2, ImportCommitInv
<1>3. CASE Sources!ImportRollback
  BY <1>3, OtherStepsInv DEF Sources!ImportRollback, Sources!rows
<1>4. CASE \E p \in Posts, m \in Numbers : Sources!Identify(p, m) \/ Sources!Split(p, m)
  BY <1>4, AdministratorInv
<1>5. CASE \E target, m \in Numbers : Sources!Merge(target, m)
  <2>1. CASE Posts = {}
    <3>1. PICK target \in Numbers, m \in Numbers : Sources!Merge(target, m)
      BY <1>5
    <3>2. /\ rejections' = rejections /\ importing' = importing
          /\ sources' = [q \in Posts |-> IF sources[q].movie = m
                                         THEN [sources[q] EXCEPT !.movie = target]
                                         ELSE sources[q]]
      BY <3>1 DEF Sources!Merge
    <3>3. sources' \in [Posts -> Source] /\ rejections = {}
      BY <2>1, <3>2 DEF SourcesInv, RowsTyped
    <3> QED
      BY <3>2, <3>3, OtherRowsChange
  <2>2. CASE Posts # {}
    BY <1>5, <2>2, AdministratorInv
  <2> QED
    BY <2>1, <2>2
<1>6. CASE \E p \in Posts : Sources!Reject(p)
  BY <1>6, RejectInv
<1>7. CASE \E p \in Posts, m \in Numbers : Sources!Play(p, m)
  BY <1>7, OtherStepsInv DEF Sources!Play
<1>8. CASE \E m \in Numbers : Sources!Seed(m)
  BY <1>8, OtherStepsInv DEF Sources!Seed
<1>9. CASE \E p \in Posts : Sources!Begin(p) \/ Sources!Call(p) \/ Sources!Reread(p) \/ Sources!Fail(p)
  BY <1>9, OtherStepsInv DEF Sources!Begin, Sources!Call, Sources!Reread, Sources!Fail, Sources!Unreadable, Sources!rows
<1>10. CASE Sources!Crash \/ Sources!Restart \/ UNCHANGED Sources!vars
  BY <1>10, OtherStepsInv DEF Sources!Crash, Sources!Restart, Sources!rows, Sources!vars
<1> QED
  BY <1>1, <1>2, <1>3, <1>4, <1>5, <1>6, <1>7, <1>8, <1>9, <1>10 DEF Sources!Next

\* The rows of rejected posts say so, in every reachable state.
LEMMA SourcesInvariant == Sources!Spec => []SourcesInv
  BY SourcesInit, SourcesNext, PTL DEF Sources!Spec

\* No step withdraws a rejection.
LEMMA RejectionsGrow == [Sources!Next]_(Sources!vars) => rejections \subseteq rejections'
<1> SUFFICES ASSUME [Sources!Next]_(Sources!vars) PROVE rejections \subseteq rejections'
  OBVIOUS
<1>1. CASE Sources!ImportStart \/ Sources!ImportCommit \/ Sources!ImportRollback
  BY <1>1 DEF Sources!ImportStart, Sources!ImportCommit, Sources!ImportRollback, Sources!rows
<1>2. CASE \E p \in Posts, m \in Numbers : Sources!Identify(p, m) \/ Sources!Split(p, m) \/ Sources!Play(p, m)
  BY <1>2 DEF Sources!Identify, Sources!Split, Sources!Play
<1>3. CASE (\E target, m \in Numbers : Sources!Merge(target, m)) \/ (\E m \in Numbers : Sources!Seed(m))
  BY <1>3 DEF Sources!Merge, Sources!Seed
<1>4. CASE \E p \in Posts : Sources!Begin(p) \/ Sources!Call(p) \/ Sources!Reject(p) \/ Sources!Reread(p) \/ Sources!Fail(p)
  BY <1>4 DEF Sources!Begin, Sources!Call, Sources!Reject, Sources!Reread, Sources!Fail, Sources!Unreadable, Sources!rows
<1>5. CASE Sources!Crash \/ Sources!Restart \/ UNCHANGED Sources!vars
  BY <1>5 DEF Sources!Crash, Sources!Restart, Sources!rows, Sources!vars
<1> QED
  BY <1>1, <1>2, <1>3, <1>4, <1>5 DEF Sources!Next

\* A rejected post stays rejected and never gets its magnet back
\* (resources/rejection.py, source_importer.py, source_lock.py).
THEOREM RejectionIsPermanent == Spec => RejectedStays
<1>1. SourcesInv /\ SourcesInv' /\ [Sources!Next]_(Sources!vars)
        => [\A p \in rejections :
              /\ p \in rejections'
              /\ sources'[p].status = "rejected" /\ ~sources'[p].magnet]_(Sources!vars)
  BY RejectionsGrow DEF SourcesInv, RejectedRows
<1> QED
  BY <1>1, SourcesRuns, SourcesInvariant, PTL DEF Sources!Spec, Sources!RejectedStays, RejectedStays
-----------------------------------------------------------------------------
(* The content of a movie.                                                 *)

Record == [status : {"absent", "reserved", "dispatched", "completed", "rejected", "unknown"},
           token : Children \cup {None}, live : BOOLEAN]
ChildRow == [step : Content!Steps, text : Texts \cup {None}, url : Urls \cup {None},
             file : Contents \cup {None}, new : BOOLEAN]

\* The steps of a translation that has its text.
Translating == {"reserve", "dispatch", "call", "success", "rejected", "unknown", "cached"}

ContentTypes ==
  /\ job \in [stage : Content!Stages \cup {"done"}, holder : Children \cup {None}]
  /\ job.stage = "done" => job.holder = None
  /\ movie \in [title : Texts \cup {None}, zh : Texts \cup {None}]
  /\ image \in [url : Urls \cup {None}, file : Contents \cup {None},
                status : {"absent", "retry_pending", "ready"}]
  /\ disk \subseteq Contents /\ stray \subseteq Contents
  /\ records \in [Texts -> Record] /\ paid \in [Texts -> Nat]
  /\ child \in [Children -> ChildRow]

\* Behind the core import there is a title; a translation has a text.
TitleThere ==
  /\ job.stage \in {"images", "translation"} => movie.title # None
  /\ \A w \in Children :
       /\ child[w].step \notin {"gone", "core"} => movie.title # None
       /\ child[w].step \in Translating => child[w].text # None

\* Before a record is dispatched nothing is paid; the child that is about to
\* call has the token of the dispatched record, and has not paid yet.
PaidInv ==
  /\ \A t \in Texts :
       /\ paid[t] <= 1
       /\ records[t].status \in {"absent", "reserved"} => paid[t] = 0
  /\ \A w \in Children : child[w].step = "call" =>
       LET t == child[w].text IN
       records[t].status = "dispatched" /\ records[t].token = w /\ paid[t] = 0

\* A child with the claim commits a file that is there, and discards one that
\* the image does not refer to, unless a child without the claim discarded it.
FilesInv ==
  /\ image.file # None => image.file \in disk \cup stray
  /\ \A w \in Children : child[w].step \in {"commit", "discard"} =>
       /\ child[w].file \in Contents
       /\ job.holder = w =>
            /\ child[w].step = "commit" => child[w].file \in disk \cup stray
            /\ child[w].new => child[w].file # image.file \/ child[w].file \in stray

ContentInv == ContentTypes /\ TitleThere /\ PaidInv /\ FilesInv

LEMMA ContentInit == Content!Init => ContentInv
<1> SUFFICES ASSUME Content!Init PROVE ContentInv
  OBVIOUS
<1> USE DEF Content!Init
<1>1. ContentTypes
  BY DEF ContentTypes, Record, ChildRow, Content!Steps, Content!NoImage, Content!NoRecord, Content!Gone
<1>2. TitleThere /\ PaidInv /\ FilesInv
  BY DEF TitleThere, Translating, PaidInv, FilesInv, Content!NoImage, Content!NoRecord, Content!Gone
<1> QED
  BY <1>1, <1>2 DEF ContentInv

\* The row of a child that goes on with what it has.
LEMMA GoRow ==
  ASSUME ContentTypes, NEW w \in Children, NEW step \in Content!Steps, Content!Go(w, step)
  PROVE  \E row \in ChildRow :
           /\ child' = [child EXCEPT ![w] = row]
           /\ row.step = step /\ row.text = child[w].text /\ row.file = child[w].file
           /\ row.new = child[w].new
<1> DEFINE row == [child[w] EXCEPT !.step = step]
<1>1. row \in ChildRow /\ row.step = step /\ row.text = child[w].text
      /\ row.file = child[w].file /\ row.new = child[w].new
  BY DEF ContentTypes, ChildRow
<1>2. child' = [child EXCEPT ![w] = row]
  BY DEF ContentTypes, Content!Go
<1> HIDE DEF row
<1> QED
  BY <1>1, <1>2

LEMMA GoSteps == {"finish", "discard", "dispatch", "call", "cached"} \subseteq Content!Steps
  BY DEF Content!Steps

\* The mark for nothing names no child, text or content.
LEMMA NoneApart == None \notin Children /\ None \notin Texts /\ None \notin Contents
  BY ServicesAssumption

\* A child moves and writes nothing; the claim may pass to it.
LEMMA Moved ==
  ASSUME ContentInv, UNCHANGED <<movie, image, disk, stray, records, paid>>,
         job' \in [stage : Content!Stages \cup {"done"}, holder : Children \cup {None}],
         job'.stage = "done" => job'.holder = None,
         job'.stage \in {"images", "translation"} => movie.title # None,
         NEW w \in Children, NEW row \in ChildRow, child' = [child EXCEPT ![w] = row],
         \A v \in Children : job'.holder = v =>
           job.holder = v \/ (v = w /\ row.step \notin {"commit", "discard"}),
         row.step # "call",
         row.step \notin {"gone", "core"} => movie.title # None,
         row.step \in Translating => row.text # None,
         row.step \in {"commit", "discard"} =>
           /\ row.step = "discard" /\ child[w].step = "commit"
           /\ row.file = child[w].file /\ row.new = child[w].new
  PROVE  ContentInv'
<1>1. child' \in [Children -> ChildRow] /\ child'[w] = row
      /\ \A v \in Children \ {w} : child'[v] = child[v]
  BY DEF ContentInv, ContentTypes
<1>2. ContentTypes'
  BY <1>1 DEF ContentInv, ContentTypes
<1>3. TitleThere'
  BY <1>1 DEF ContentInv, TitleThere
<1>4. PaidInv'
  BY <1>1 DEF ContentInv, PaidInv
<1>5. FilesInv'
  BY <1>1 DEF ContentInv, FilesInv
<1> QED
  BY <1>2, <1>3, <1>4, <1>5 DEF ContentInv

LEMMA JobMoves ==
  ASSUME ContentInv, UNCHANGED <<movie, image, disk, stray, records, paid, child>>,
         job' \in [stage : Content!Stages \cup {"done"}, holder : Children \cup {None}],
         job'.stage = "done" => job'.holder = None,
         job'.stage \in {"images", "translation"} => movie.title # None,
         job'.holder = None \/ job'.holder = job.holder
  PROVE  ContentInv'
  BY NoneApart
  DEF ContentInv, ContentTypes, TitleThere, PaidInv, FilesInv

\* The steps of the job and its claim.
LEMMA ClaimSteps ==
  ASSUME ContentInv, Content!NewJob \/ Content!Lapse \/ \E w \in Children :
           Content!Claim(w) \/ Content!Kill(w) \/ Content!Refused(w) \/ Content!Finish(w)
           \/ Content!CoreFails(w)
  PROVE  ContentInv'
<1> USE DEF Content!content, Content!files
<1>0. /\ job \in [stage : Content!Stages \cup {"done"}, holder : Children \cup {None}]
      /\ Content!Stages = {"core", "images", "translation"}
      /\ job.stage = "done" => job.holder = None
      /\ job.stage \in {"images", "translation"} => movie.title # None
      /\ Content!Gone \in ChildRow /\ Content!Gone.step = "gone"
  BY DEF ContentInv, ContentTypes, TitleThere, Content!Stages, Content!StageOrder, Content!Gone,
     ChildRow, Content!Steps
<1>1. CASE Content!NewJob
  <2>1. PICK s \in Content!Stages : /\ movie.title = None => s = "core"
                                    /\ job' = [stage |-> s, holder |-> None]
    BY <1>0, <1>1 DEF Content!NewJob
  <2> QED
    BY <1>1, <2>1, JobMoves DEF Content!NewJob
<1>2. CASE Content!Lapse
  <2>1. job' = [stage |-> job.stage, holder |-> None]
    BY <1>0, <1>2 DEF Content!Lapse
  <2> QED
    BY <1>0, <1>2, <2>1, JobMoves DEF Content!Lapse
<1>3. ASSUME NEW w \in Children, Content!Claim(w) PROVE ContentInv'
  <2> DEFINE row == [Content!Gone EXCEPT !.step = job.stage]
  <2>1. row \in ChildRow /\ row.step = job.stage /\ job.stage \in {"core", "images", "translation"}
    BY <1>0, <1>3 DEF Content!Claim, ChildRow, Content!Gone, Content!Steps
  <2>2. /\ child' = [child EXCEPT ![w] = row]
        /\ job' = [stage |-> job.stage, holder |-> w]
    BY <1>0, <1>3 DEF Content!Claim, ContentInv, ContentTypes
  <2>3. UNCHANGED <<movie, image, disk, stray, records, paid>>
    BY <1>3 DEF Content!Claim
  <2> HIDE DEF row
  <2>4. /\ job'.stage = job.stage /\ job'.holder = w
        /\ job' \in [stage : Content!Stages \cup {"done"}, holder : Children \cup {None}]
    BY <1>0, <2>2
  <2>5. row.step \notin {"commit", "discard", "call"} /\ row.step \notin Translating
    BY <2>1 DEF Translating
  <2> QED
    BY <1>0, <2>1, <2>2, <2>3, <2>4, <2>5, Moved
<1>4. ASSUME NEW w \in Children, Content!Kill(w) \/ Content!Refused(w) PROVE ContentInv'
  BY <1>0, <1>4, Moved DEF Content!Kill, Content!Refused, Translating
<1>5. ASSUME NEW w \in Children, Content!CoreFails(w) PROVE ContentInv'
  BY <1>0, <1>5, Moved, NoneApart
  DEF Content!CoreFails, Translating
<1>6. ASSUME NEW w \in Children, Content!Finish(w), ~Content!Refused(w) PROVE ContentInv'
  <2> DEFINE next == Content!StageOrder[job.stage]
             row  == IF next = "done" THEN Content!Gone ELSE [Content!Gone EXCEPT !.step = next]
  <2>1. /\ job.holder = w
        /\ job' = [stage |-> next, holder |-> IF next = "done" THEN None ELSE w]
        /\ child' = [child EXCEPT ![w] = row]
        /\ UNCHANGED <<movie, image, disk, stray, records, paid>>
    BY <1>6 DEF Content!Finish, Content!Holds
  <2>2. movie.title # None
    BY <1>6 DEF Content!Finish, Content!At, ContentInv, TitleThere
  <2>3. next \in {"images", "translation", "done"}
    <3>1. job.stage # "done"
      BY <1>0, <2>1, NoneApart
    <3> QED
      BY <1>0, <3>1 DEF Content!StageOrder
  <2>4. row \in ChildRow /\ row.step \in {"gone", "images", "translation"}
    BY <1>0, <2>3 DEF ChildRow, Content!Gone, Content!Steps
  <2> HIDE DEF next, row
  <2> QED
    BY <1>0, <2>1, <2>2, <2>3, <2>4, Moved, NoneApart DEF Translating
<1> QED
  BY <1>1, <1>2, <1>3, <1>4, <1>5, <1>6

\* The core import: a title, and another plan for the image.
LEMMA CoreStep ==
  ASSUME ContentInv, NEW w \in Children, Content!ImportCore(w)
  PROVE  ContentInv'
<1> USE DEF Content!content, Content!files
<1>1. CASE Content!Refused(w)
  BY <1>1, ClaimSteps
<1>2. CASE ~Content!Refused(w)
  <2>1. PICK t \in Texts, u \in Urls \cup {None} :
          movie' = [movie EXCEPT !.title = t] /\ image' = Content!Reconciled(u)
    BY <1>2 DEF Content!ImportCore
  <2>2. /\ job.holder = w /\ child[w].step = "core" /\ job' = job
        /\ Content!Go(w, "finish")
        /\ UNCHANGED <<disk, stray, records, paid>>
    BY <1>2 DEF Content!ImportCore, Content!Holds, Content!At
  <2>3. PICK row \in ChildRow : child' = [child EXCEPT ![w] = row] /\ row.step = "finish"
    BY <2>2, GoRow, GoSteps DEF ContentInv
  <2>4. child' \in [Children -> ChildRow] /\ child'[w] = row
        /\ \A v \in Children \ {w} : child'[v] = child[v]
    BY <2>3 DEF ContentInv, ContentTypes
  <2>5. movie' \in [title : Texts \cup {None}, zh : Texts \cup {None}] /\ movie'.title # None
    BY <2>1, NoneApart DEF ContentInv, ContentTypes
  <2>6. /\ image' \in [url : Urls \cup {None}, file : Contents \cup {None},
                       status : {"absent", "retry_pending", "ready"}]
        /\ image'.file \in {None, image.file}
    BY <2>1 DEF Content!Reconciled, Content!NoImage, ContentInv, ContentTypes
  <2>7. ContentTypes' /\ TitleThere' /\ PaidInv'
    BY <2>2, <2>3, <2>4, <2>5, <2>6 DEF ContentInv, ContentTypes, TitleThere, PaidInv, Translating
  <2>8. FilesInv'
    BY <2>2, <2>3, <2>4, <2>6, NoneApart DEF ContentInv, FilesInv
  <2> QED
    BY <2>7, <2>8 DEF ContentInv
<1> QED
  BY <1>1, <1>2

\* Images: stored before the commit, discarded after a refused one.
LEMMA ImageSteps ==
  ASSUME ContentInv, NEW w \in Children,
         \/ Content!LoadImages(w) \/ Content!Store(w)
         \/ Content!CommitImage(w) \/ Content!Discard(w)
  PROVE  ContentInv'
<1> USE DEF Content!content, Content!files
<1>0. /\ job \in [stage : Content!Stages \cup {"done"}, holder : Children \cup {None}]
      /\ job.stage = "done" => job.holder = None
      /\ job.stage \in {"images", "translation"} => movie.title # None
      /\ child[w] \in ChildRow /\ child \in [Children -> ChildRow]
      /\ child[w].step \notin {"gone", "core"} => movie.title # None
      /\ job' = job
  BY DEF ContentInv, ContentTypes, TitleThere, Content!LoadImages, Content!Store,
     Content!CommitImage, Content!Discard
<1>1. ASSUME UNCHANGED <<movie, image, disk, stray, records, paid>>,
             Content!Go(w, "finish"), child[w].step \notin {"gone", "core"}
      PROVE  ContentInv'
  <2>1. PICK row \in ChildRow : child' = [child EXCEPT ![w] = row] /\ row.step = "finish"
    BY <1>1, GoRow, GoSteps DEF ContentInv
  <2> QED
    BY <1>0, <1>1, <2>1, Moved DEF Translating
<1>2. CASE Content!LoadImages(w)
  <2>1. CASE Content!Go(w, "finish")
    BY <1>1, <1>2, <2>1 DEF Content!LoadImages, Content!At
  <2>2. CASE child' = [child EXCEPT ![w].step = "store", ![w].url = image.url]
    <3> DEFINE row == [child[w] EXCEPT !.step = "store", !.url = image.url]
    <3>1. row \in ChildRow /\ row.step = "store" /\ child' = [child EXCEPT ![w] = row]
      BY <1>0, <2>2 DEF ChildRow, Content!Steps, ContentInv, ContentTypes
    <3> HIDE DEF row
    <3> QED
      BY <1>0, <1>2, <3>1, Moved DEF Translating, Content!LoadImages, Content!At
  <2> QED
    BY <1>2, <2>1, <2>2 DEF Content!LoadImages
<1>3. CASE Content!Store(w)
  <2>1. CASE Content!Go(w, "finish") /\ UNCHANGED disk
    BY <1>1, <1>3, <2>1 DEF Content!Store, Content!At
  <2>2. CASE ~(Content!Go(w, "finish") /\ UNCHANGED disk)
    <3>1. PICK c \in Contents :
            /\ child' = [child EXCEPT ![w].step = "commit", ![w].file = c, ![w].new = c \notin disk]
            /\ disk' = disk \cup {c}
      BY <1>3, <2>2 DEF Content!Store
    <3> DEFINE row == [child[w] EXCEPT !.step = "commit", !.file = c, !.new = c \notin disk]
    <3>2. row \in ChildRow /\ row.step = "commit" /\ row.file = c /\ row.new = (c \notin disk)
      BY <1>0 DEF ChildRow, Content!Steps
    <3>3. child' = [child EXCEPT ![w] = row]
      BY <1>0, <3>1
    <3>4. child[w].step = "store" /\ UNCHANGED <<movie, image, stray, records, paid>>
      BY <1>3 DEF Content!Store, Content!At
    <3> HIDE DEF row
    <3>5. child' \in [Children -> ChildRow] /\ child'[w] = row
          /\ \A v \in Children \ {w} : child'[v] = child[v]
      BY <1>0, <3>2, <3>3
    <3>6. ContentTypes' /\ TitleThere' /\ PaidInv'
      BY <1>0, <3>1, <3>2, <3>4, <3>5 DEF ContentInv, ContentTypes, TitleThere, PaidInv, Translating
    <3>7. FilesInv'
      <4>1. image.file # None => image.file \in disk \cup stray
        BY DEF ContentInv, FilesInv
      <4>2. c # None
        BY NoneApart
      <4>3. c \in disk' /\ (row.new => c # image.file \/ c \in stray)
        BY <3>1, <3>2, <4>1, <4>2
      <4>4. \A v \in Children \ {w} : child[v].step \in {"commit", "discard"} =>
              /\ child[v].file \in Contents
              /\ job.holder = v =>
                   /\ child[v].step = "commit" => child[v].file \in disk' \cup stray
                   /\ child[v].new => child[v].file # image.file \/ child[v].file \in stray
        BY <3>1 DEF ContentInv, FilesInv
      <4> QED
        BY <1>0, <3>1, <3>2, <3>4, <3>5, <4>1, <4>3, <4>4 DEF FilesInv
    <3> QED
      BY <3>6, <3>7 DEF ContentInv
  <2> QED
    BY <2>1, <2>2
<1>4. CASE Content!CommitImage(w)
  <2>0. child[w].step = "commit" /\ UNCHANGED <<movie, disk, records, paid>>
    BY <1>4 DEF Content!CommitImage, Content!At
  <2>1. CASE Content!Go(w, "discard") /\ UNCHANGED <<image, stray>>
    <3>1. PICK row \in ChildRow :
            /\ child' = [child EXCEPT ![w] = row] /\ row.step = "discard"
            /\ row.file = child[w].file /\ row.new = child[w].new
      BY <2>1, GoRow, GoSteps DEF ContentInv
    <3> QED
      BY <1>0, <2>0, <2>1, <3>1, Moved DEF Translating
  <2>2. CASE ~(Content!Go(w, "discard") /\ UNCHANGED <<image, stray>>)
    <3>1. /\ job.holder = w
          /\ image' = [image EXCEPT !.file = child[w].file, !.status = "ready"]
          /\ stray' = stray \ (disk \cap {child[w].file})
          /\ Content!Go(w, "finish")
      BY <1>4, <2>2 DEF Content!CommitImage, Content!Holds
    <3>2. PICK row \in ChildRow : child' = [child EXCEPT ![w] = row] /\ row.step = "finish"
      BY <3>1, GoRow, GoSteps DEF ContentInv
    <3>3. child' \in [Children -> ChildRow] /\ child'[w] = row
          /\ \A v \in Children \ {w} : child'[v] = child[v]
      BY <1>0, <3>2
    <3>4. /\ image' \in [url : Urls \cup {None}, file : Contents \cup {None},
                         status : {"absent", "retry_pending", "ready"}]
          /\ image'.file = child[w].file
      BY <1>0, <3>1 DEF ContentInv, ContentTypes, ChildRow
    <3>5. ContentTypes' /\ TitleThere' /\ PaidInv'
      BY <1>0, <2>0, <3>1, <3>2, <3>3, <3>4 DEF ContentInv, ContentTypes, TitleThere, PaidInv, Translating
    <3>6. FilesInv'
      BY <1>0, <2>0, <3>1, <3>2, <3>3, <3>4 DEF ContentInv, FilesInv
    <3> QED
      BY <3>5, <3>6 DEF ContentInv
  <2> QED
    BY <2>1, <2>2
<1>5. CASE Content!Discard(w)
  <2>1. /\ child[w].step = "discard" /\ UNCHANGED <<movie, image, records, paid>>
        /\ disk' = disk \ (IF child[w].new THEN {child[w].file} ELSE {})
        /\ stray' = stray \cup (IF job.holder = w THEN {} ELSE disk \ disk')
        /\ Content!Go(w, "finish")
    BY <1>5 DEF Content!Discard, Content!Discarded, Content!Holds, Content!At
  <2>2. PICK row \in ChildRow : child' = [child EXCEPT ![w] = row] /\ row.step = "finish"
    BY <2>1, GoRow, GoSteps DEF ContentInv
  <2>3. child' \in [Children -> ChildRow] /\ child'[w] = row
        /\ \A v \in Children \ {w} : child'[v] = child[v]
    BY <1>0, <2>2
  <2>4. stray' \subseteq Contents /\ disk' \subseteq Contents
    BY <2>1 DEF ContentInv, ContentTypes
  <2>5. ContentTypes' /\ TitleThere' /\ PaidInv'
    BY <1>0, <2>1, <2>2, <2>3, <2>4 DEF ContentInv, ContentTypes, TitleThere, PaidInv, Translating
  <2>6. FilesInv'
    <3>1. CASE job.holder # w
      <4>1. disk \cup stray \subseteq disk' \cup stray' /\ stray \subseteq stray'
        BY <2>1, <3>1
      <4> QED
        BY <1>0, <2>1, <2>2, <2>3, <4>1 DEF ContentInv, FilesInv
    <3>2. CASE job.holder = w
      <4>1. stray' = stray
        BY <2>1, <3>2
      <4>2. image.file # None => image.file \in disk' \cup stray
        BY <2>1, <3>2 DEF ContentInv, FilesInv
      <4> QED
        BY <1>0, <2>1, <2>2, <2>3, <3>2, <4>1, <4>2 DEF ContentInv, FilesInv
    <3> QED
      BY <3>1, <3>2
  <2> QED
    BY <2>5, <2>6 DEF ContentInv
<1> QED
  BY <1>2, <1>3, <1>4, <1>5

\* A step of a translation: one record and the title change, and the child goes on.
LEMMA Translated ==
  ASSUME ContentInv, UNCHANGED <<job, image, disk, stray>>, NEW w \in Children,
         NEW row \in ChildRow, child' = [child EXCEPT ![w] = row],
         row.step \notin {"gone", "core", "commit", "discard"}, movie.title # None,
         row.step \in Translating => row.text # None,
         movie' \in [title : {movie.title}, zh : Texts \cup {None}],
         records' \in [Texts -> Record], paid' \in [Texts -> Nat], PaidInv'
  PROVE  ContentInv'
<1>1. child' \in [Children -> ChildRow] /\ child'[w] = row
      /\ \A v \in Children \ {w} : child'[v] = child[v]
  BY DEF ContentInv, ContentTypes
<1>2. ContentTypes' /\ TitleThere'
  BY <1>1 DEF ContentInv, ContentTypes, TitleThere
<1>3. FilesInv'
  BY <1>1 DEF ContentInv, FilesInv
<1> QED
  BY <1>2, <1>3 DEF ContentInv

LEMMA TranslationSteps ==
  ASSUME ContentInv, NEW w \in Children,
         \/ Content!LoadText(w) \/ Content!Reserve(w) \/ Content!Dispatch(w)
         \/ Content!Call(w) \/ Content!Conclude(w) \/ Content!ApplyCached(w),
         ~Content!Refused(w)
  PROVE  ContentInv'
<1> USE DEF Content!content, Content!files
<1> DEFINE t == child[w].text
<1>0. /\ job \in [stage : Content!Stages \cup {"done"}, holder : Children \cup {None}]
      /\ job.stage = "done" => job.holder = None
      /\ job.stage \in {"images", "translation"} => movie.title # None
      /\ child[w] \in ChildRow /\ child \in [Children -> ChildRow]
      /\ movie.title # None
      /\ movie \in [title : Texts \cup {None}, zh : Texts \cup {None}]
      /\ child[w].step \in Translating => t \in Texts
      /\ records \in [Texts -> Record] /\ paid \in [Texts -> Nat]
      /\ UNCHANGED <<job, image, disk, stray>>
  <2>1. child[w].step \notin {"gone", "core"} /\ UNCHANGED <<job, image, disk, stray>>
    BY DEF Content!LoadText, Content!Reserve, Content!Dispatch, Content!Call, Content!Conclude,
       Content!ApplyCached, Content!At
  <2> QED
    BY <2>1 DEF ContentInv, ContentTypes, TitleThere, ChildRow
<1>1. ASSUME Content!Go(w, "finish"), UNCHANGED <<records, paid>>, movie' = movie
      PROVE  ContentInv'
  <2>1. PICK row \in ChildRow : child' = [child EXCEPT ![w] = row] /\ row.step = "finish"
    BY <1>1, GoRow, GoSteps DEF ContentInv
  <2> QED
    BY <1>0, <1>1, <2>1, Moved DEF Translating
<1>9. \A v \in Children : child[v].step = "call" =>
        child[v].text \in Texts /\ records[child[v].text].status = "dispatched"
  BY DEF ContentInv, ContentTypes, TitleThere, PaidInv, Translating, ChildRow
<1>10. movie \in [title : {movie.title}, zh : Texts \cup {None}]
  BY <1>0
<1>11. ASSUME NEW row \in ChildRow, child' = [child EXCEPT ![w] = row],
              row.step \in {"dispatch", "call", "success", "rejected", "unknown", "finish"},
              row.step # "finish" => row.text \in Texts,
              movie' \in [title : {movie.title}, zh : Texts \cup {None}],
              records' \in [Texts -> Record], paid' \in [Texts -> Nat], PaidInv'
       PROVE  ContentInv'
  <2>1. /\ row.step \notin {"gone", "core", "commit", "discard"}
        /\ row.step \in Translating => row.text # None
    BY <1>11, NoneApart DEF Translating
  <2> QED
    BY <1>0, <1>11, <2>1, Translated
<1>2. CASE Content!LoadText(w)
  <2> DEFINE row == [child[w] EXCEPT !.step = "reserve", !.text = movie.title]
  <2>1. row \in ChildRow /\ row.step = "reserve" /\ row.text = movie.title
    BY <1>0 DEF ChildRow, Content!Steps
  <2>2. child' = [child EXCEPT ![w] = row] /\ UNCHANGED <<movie, records, paid>>
    BY <1>0, <1>2 DEF Content!LoadText
  <2> HIDE DEF row
  <2> QED
    BY <1>0, <2>1, <2>2, Moved DEF Translating
<1>3. CASE Content!Reserve(w)
  <2>0. child[w].step = "reserve" /\ t \in Texts /\ UNCHANGED <<movie, paid>>
    BY <1>0, <1>3 DEF Content!Reserve, Content!At, Translating
  <2>1. CASE records[t].status = "absent" \/ Content!Takeable(records[t])
    <3> DEFINE new == [status |-> "reserved", token |-> w, live |-> TRUE]
    <3>1. new \in Record /\ new.status = "reserved"
      BY DEF Record
    <3>2. Content!Go(w, "dispatch") /\ records' = [records EXCEPT ![t] = new]
      BY <1>3, <2>1 DEF Content!Reserve
    <3> HIDE DEF new
    <3>3. PICK row \in ChildRow : child' = [child EXCEPT ![w] = row] /\ row.step = "dispatch"
                                  /\ row.text = t
      BY <3>2, GoRow, GoSteps DEF ContentInv
    <3>4. /\ records' \in [Texts -> Record] /\ records'[t] = new
          /\ \A u \in Texts \ {t} : records'[u] = records[u]
          /\ child'[w] = row /\ \A v \in Children \ {w} : child'[v] = child[v]
      BY <1>0, <2>0, <3>1, <3>2, <3>3
    <3>5. records[t].status \in {"absent", "reserved"}
      BY <2>1 DEF Content!Takeable
    <3>6. PaidInv'
      BY <1>0, <1>9, <2>0, <3>1, <3>3, <3>4, <3>5 DEF ContentInv, PaidInv
    <3> QED
      BY <1>0, <1>10, <1>11, <2>0, <3>3, <3>4, <3>6
  <2>2. CASE Content!Go(w, "finish") /\ UNCHANGED records
    BY <1>1, <2>0, <2>2
  <2>3. CASE Content!Go(w, "cached") /\ UNCHANGED records
    <3>1. PICK row \in ChildRow : child' = [child EXCEPT ![w] = row] /\ row.step = "cached"
                                  /\ row.text = t
      BY <2>3, GoRow, GoSteps DEF ContentInv
    <3> QED
      BY <1>0, <2>0, <2>3, <3>1, Moved, NoneApart DEF Translating
  <2> QED
    BY <1>3, <2>1, <2>2, <2>3 DEF Content!Reserve
<1>4. CASE Content!Dispatch(w)
  <2>0. /\ child[w].step = "dispatch" /\ t \in Texts
        /\ job.holder = w /\ UNCHANGED <<movie, paid>>
    BY <1>0, <1>4 DEF Content!Dispatch, Content!At, Content!Holds, Translating
  <2>1. CASE records[t].status = "reserved" /\ records[t].token = w /\ records[t].live
    <3> DEFINE new == [records[t] EXCEPT !.status = "dispatched", !.live = FALSE]
    <3>1. new \in Record /\ new.status = "dispatched" /\ new.token = w
      BY <1>0, <2>0, <2>1 DEF Record
    <3>2. Content!Go(w, "call") /\ records' = [records EXCEPT ![t] = new]
      BY <1>0, <1>4, <2>0, <2>1 DEF Content!Dispatch
    <3> HIDE DEF new
    <3>3. PICK row \in ChildRow : child' = [child EXCEPT ![w] = row] /\ row.step = "call"
                                  /\ row.text = t
      BY <3>2, GoRow, GoSteps DEF ContentInv
    <3>4. /\ records' \in [Texts -> Record] /\ records'[t] = new
          /\ \A u \in Texts \ {t} : records'[u] = records[u]
          /\ child'[w] = row /\ \A v \in Children \ {w} : child'[v] = child[v]
      BY <1>0, <2>0, <3>1, <3>2, <3>3
    <3>5. PaidInv'
      BY <1>0, <1>9, <2>0, <2>1, <3>1, <3>3, <3>4 DEF ContentInv, PaidInv
    <3> QED
      BY <1>0, <1>10, <1>11, <2>0, <3>3, <3>4, <3>5
  <2> QED
    BY <1>1, <1>4, <2>0, <2>1 DEF Content!Dispatch
<1>5. CASE Content!Call(w)
  <2>0. /\ child[w].step = "call" /\ t \in Texts /\ UNCHANGED <<movie, records>>
        /\ paid' = [paid EXCEPT ![t] = @ + 1]
    BY <1>0, <1>5 DEF Content!Call, Content!At, Translating
  <2>1. PICK result \in {"success", "rejected", "unknown"} : Content!Go(w, result)
    BY <1>5 DEF Content!Call
  <2>2. PICK row \in ChildRow : child' = [child EXCEPT ![w] = row] /\ row.step = result
                                /\ row.text = t
    BY <2>1, GoRow DEF ContentInv, Content!Steps
  <2>3. /\ paid' \in [Texts -> Nat] /\ paid'[t] = paid[t] + 1
        /\ \A u \in Texts \ {t} : paid'[u] = paid[u]
        /\ child'[w] = row /\ \A v \in Children \ {w} : child'[v] = child[v]
    BY <1>0, <2>0, <2>2
  <2>4. PaidInv'
    <3>1. records[t].status = "dispatched" /\ records[t].token = w /\ paid[t] = 0
      BY <2>0 DEF ContentInv, PaidInv
    <3>2. \A v \in Children \ {w} : child[v].step = "call" => child[v].text # t
      BY <3>1 DEF ContentInv, PaidInv
    <3>3. \A v \in Children : child[v].step = "call" => child[v].text \in Texts
      BY DEF ContentInv, ContentTypes, TitleThere, Translating, ChildRow
    <3> QED
      BY <2>0, <2>1, <2>2, <2>3, <3>1, <3>2, <3>3 DEF ContentInv, PaidInv
  <2> QED
    BY <1>0, <1>10, <1>11, <2>0, <2>1, <2>2, <2>3, <2>4
<1>6. ASSUME child[w].step \in Translating, Content!Go(w, "finish"), UNCHANGED paid,
             movie' = movie \/ movie' = Content!Applied(t),
             \/ UNCHANGED records
             \/ /\ child[w].step # "call"
                /\ records[t].status = "dispatched" /\ records[t].token = w
                /\ \E status \in {"completed", "rejected", "unknown"} :
                     records' = [records EXCEPT ![t] = [Content!NoRecord EXCEPT !.status = status]]
      PROVE  ContentInv'
  <2>1. PICK row \in ChildRow : child' = [child EXCEPT ![w] = row] /\ row.step = "finish"
    BY <1>6, GoRow, GoSteps DEF ContentInv
  <2>2. t \in Texts /\ movie' \in [title : {movie.title}, zh : Texts \cup {None}]
    BY <1>0, <1>6 DEF Content!Applied
  <2>3. child'[w] = row /\ \A v \in Children \ {w} : child'[v] = child[v]
    BY <1>0, <2>1
  <2>4. records' \in [Texts -> Record] /\ PaidInv'
    <3>1. CASE UNCHANGED records
      BY <1>0, <1>6, <2>1, <2>3, <3>1 DEF ContentInv, PaidInv
    <3>2. CASE ~UNCHANGED records
      <4>1. PICK status \in {"completed", "rejected", "unknown"} :
              records' = [records EXCEPT ![t] = [Content!NoRecord EXCEPT !.status = status]]
        BY <1>6, <3>2
      <4> DEFINE new == [Content!NoRecord EXCEPT !.status = status]
      <4>2. new \in Record /\ new.status = status
        BY DEF Record, Content!NoRecord
      <4> HIDE DEF new
      <4>3. /\ records' \in [Texts -> Record] /\ records'[t] = new
            /\ \A u \in Texts \ {t} : records'[u] = records[u]
        BY <1>0, <2>2, <4>1, <4>2 DEF new
      <4>4. \A v \in Children \ {w} : child[v].step = "call" => child[v].text # t
        BY <1>6, <3>2 DEF ContentInv, PaidInv
      <4>5. \A v \in Children : child[v].step = "call" => child[v].text \in Texts
        BY DEF ContentInv, ContentTypes, TitleThere, Translating, ChildRow
      <4> QED
        BY <1>6, <2>1, <2>2, <2>3, <4>2, <4>3, <4>4, <4>5 DEF ContentInv, PaidInv
    <3> QED
      BY <3>1, <3>2
  <2> QED
    BY <1>0, <1>6, <1>11, <2>1, <2>2, <2>4
<1>7. CASE Content!Conclude(w)
  <2>1. /\ child[w].step \in {"success", "rejected", "unknown"} /\ UNCHANGED paid
        /\ Content!Go(w, "finish")
        /\ \/ UNCHANGED <<records, movie>>
           \/ /\ records[t].status = "dispatched" /\ records[t].token = w
              /\ movie' = movie \/ movie' = Content!Applied(t)
              /\ records' = [records EXCEPT ![t] = [Content!NoRecord EXCEPT !.status =
                               IF child[w].step = "success" THEN "completed" ELSE child[w].step]]
    BY <1>7 DEF Content!Conclude
  <2> QED
    BY <1>6, <2>1 DEF Translating
<1>8. CASE Content!ApplyCached(w)
  BY <1>6, <1>8 DEF Content!ApplyCached, Content!At, Translating
<1> QED
  BY <1>2, <1>3, <1>4, <1>5, <1>7, <1>8

LEMMA ContentNext == ContentInv /\ [Content!Next]_(Content!vars) => ContentInv'
<1> SUFFICES ASSUME ContentInv, [Content!Next]_(Content!vars) PROVE ContentInv'
  OBVIOUS
<1>1. CASE UNCHANGED Content!vars
  BY <1>1, JobMoves DEF Content!vars, Content!content, Content!files, ContentInv, ContentTypes, TitleThere
<1>2. CASE Content!NewJob \/ Content!Lapse
  BY <1>2, ClaimSteps
<1>3. ASSUME NEW w \in Children, Content!Step(w) PROVE ContentInv'
  <2>1. CASE Content!Refused(w)
    BY <2>1, ClaimSteps
  <2>2. CASE ~Content!Refused(w)
    BY <1>3, <2>2, ClaimSteps, CoreStep, ImageSteps, TranslationSteps DEF Content!Step
  <2> QED
    BY <2>1, <2>2
<1>4. ASSUME NEW t \in Texts, Content!ReservationLapses(t) PROVE ContentInv'
  <2> DEFINE new == [records[t] EXCEPT !.live = FALSE]
  <2>1. new \in Record /\ new.status = records[t].status /\ new.token = records[t].token
    <3>1. records[t] \in Record
      BY DEF ContentInv, ContentTypes
    <3> QED
      BY <3>1 DEF Record
  <2>2. /\ UNCHANGED <<job, movie, image, disk, stray, paid, child>>
        /\ records' = [records EXCEPT ![t] = new]
    BY <1>4 DEF Content!ReservationLapses, Content!files, ContentInv, ContentTypes
  <2> HIDE DEF new
  <2>3. /\ records' \in [Texts -> Record]
        /\ \A u \in Texts : records'[u].status = records[u].status
                            /\ records'[u].token = records[u].token
    BY <2>1, <2>2 DEF ContentInv, ContentTypes
  <2>4. \A v \in Children : child[v].step = "call" => child[v].text \in Texts
    BY DEF ContentInv, ContentTypes, TitleThere, Translating, ChildRow
  <2> QED
    BY <2>2, <2>3, <2>4 DEF ContentInv, ContentTypes, TitleThere, PaidInv, FilesInv
<1> QED
  BY <1>1, <1>2, <1>3, <1>4 DEF Content!Next

LEMMA ContentInvariant == Spec => []ContentInv
<1>1. Content!Spec => []ContentInv
  BY ContentInit, ContentNext, PTL DEF Content!Spec
<1> QED
  BY <1>1, ContentRuns, PTL

\* A text is sent to the paid provider at most once, whatever claims and
\* reservations lapse and whatever children run on or die (translation/service.py).
THEOREM TextsPaidOnce == Spec => []PaidOnce
<1>1. ContentInv => PaidOnce
  BY DEF ContentInv, PaidInv, PaidOnce, Content!PaidOnce
<1> QED
  BY <1>1, ContentInvariant, PTL

\* An image loses its file only to a child that discarded this very file after it
\* had lost its claim; every other failure, repetition or race leaves the file in
\* the store (image_store.py, providers/runtime.py).
THEOREM FilesLostToStaleChildren == Spec => []OnlyStaleChildLosesFile
<1>1. ContentInv => OnlyStaleChildLosesFile
  BY DEF ContentInv, FilesInv, OnlyStaleChildLosesFile, Content!OnlyStaleChildLosesFile
<1> QED
  BY <1>1, ContentInvariant, PTL
-----------------------------------------------------------------------------
(* The progress of a movie.                                                *)

Versions  == (0 .. MaxVersion) \union {0}
PlayRow   == [epoch : Nat, lease : {"active", "ended"}]
PlayerRow == [at : {"closed", "loading", "finishing", "playing", "ended"},
              session : Nat, expected : Versions, manifest : Versions]
Asked     == [kind : {"beat", "pause", "finish", "create", "none"},
              client : Installations \union {"none"}, session : Nat, expected : Versions,
              epoch : Nat, at : {"none", "sent", "admitted", "accepted", "conflict", "error"},
              version : Versions]

PlayTypes ==
  /\ playEpoch \in Nat /\ plays \in [Installations -> Seq(PlayRow)]
  /\ player \in [Installations -> PlayerRow] /\ request \in [Installations -> Asked]
  /\ late \subseteq Asked /\ seen \in [Installations -> SUBSET Versions]

\* A request that may change the progress names a version its client was told.
Informed(req) ==
  /\ req.client \in Installations
  /\ req.kind \in {"beat", "pause", "finish"} => req.expected \in seen[req.client]

\* A client expects, or is about to expect, a version it was told.
PlayerInformed(c) ==
  /\ 0 \in seen[c] /\ player[c].expected \in seen[c]
  /\ player[c].at = "finishing" => player[c].manifest \in seen[c]
  /\ request[c].at # "none" => request[c].client = c /\ Informed(request[c])

PlayInv ==
  /\ PlayTypes
  /\ \A c \in Installations : PlayerInformed(c)
  /\ \A req \in late : Informed(req)

LEMMA PlaybackRuns == Spec => Playback!Spec
<1>1. Init => Playback!Init
  BY DEF Init
<1>2. [Next]_vars => [Playback!Next]_(Playback!vars)
  BY DEF Next, vars, playbackVars, Playback!vars, Playback!rows
<1> QED
  BY <1>1, <1>2, PTL DEF Spec, Playback!Spec

LEMMA PlayConstants ==
  /\ Playback!NoRequest \in Asked /\ Playback!NoRequest.at = "none"
  /\ Playback!NoRequest.kind = "none"
  /\ Playback!Closed \in PlayerRow /\ Playback!Closed.expected = 0
  /\ Playback!Closed.at = "closed" /\ 0 \in Versions
BY DEF Playback!NoRequest, Playback!Closed, Asked, PlayerRow, Versions

LEMMA PlayInit == Playback!Init => PlayInv
<1> SUFFICES ASSUME Playback!Init PROVE PlayInv
  OBVIOUS
<1> USE DEF Playback!Init
<1>1. PlayTypes
  BY PlayConstants DEF PlayTypes
<1> QED
  BY <1>1, PlayConstants DEF PlayInv, PlayerInformed

\* The rows a step reads.
LEMMA PlayRows ==
  ASSUME PlayInv, NEW c \in Installations
  PROVE  /\ player[c] \in PlayerRow /\ request[c] \in Asked
         /\ seen[c] \in SUBSET Versions /\ plays[c] \in Seq(PlayRow) /\ Len(plays[c]) \in Nat
         /\ PlayerInformed(c)
<1>1. plays[c] \in Seq(PlayRow)
  BY DEF PlayInv, PlayTypes
<1> QED
  BY <1>1 DEF PlayInv, PlayTypes

\* The player, the request and the knowledge of one client change.
LEMMA PlayStep ==
  ASSUME PlayInv, NEW c \in Installations, NEW p \in PlayerRow, NEW r \in Asked,
         NEW told \in SUBSET Versions, NEW after \in SUBSET Asked,
         player' = [player EXCEPT ![c] = p], request' = [request EXCEPT ![c] = r],
         seen' = [seen EXCEPT ![c] = @ \union told], late' = after,
         playEpoch' \in Nat, plays' \in [Installations -> Seq(PlayRow)],
         \A req \in after : req \in late \/ (req = request[c] /\ request[c].at # "none"),
         p.expected \in seen[c] \union told,
         p.at = "finishing" => p.manifest \in seen[c] \union told,
         r.at # "none" => r.client = c /\ (r.kind \in {"beat", "pause", "finish"} =>
                                             r.expected \in seen[c] \union told)
  PROVE  PlayInv'
<1>1. /\ player'[c] = p /\ request'[c] = r /\ seen'[c] = seen[c] \union told
      /\ \A d \in Installations \ {c} : /\ player'[d] = player[d] /\ request'[d] = request[d]
                                        /\ seen'[d] = seen[d]
  BY DEF PlayInv, PlayTypes
<1>2. \A d \in Installations : seen[d] \subseteq seen'[d]
  BY <1>1
<1>3. PlayTypes'
  BY PlayRows DEF PlayInv, PlayTypes
<1>4. ASSUME NEW req, Informed(req) PROVE Informed(req)'
  BY <1>2, <1>4 DEF Informed
<1>5. PlayerInformed(c)'
  BY <1>1, PlayRows DEF PlayerInformed, Informed
<1>6. ASSUME NEW d \in Installations \ {c} PROVE PlayerInformed(d)'
  BY <1>1, <1>4, <1>6, PlayRows DEF PlayerInformed
<1>7. \A req \in late' : Informed(req)'
  BY <1>4, PlayRows DEF PlayInv, PlayerInformed
<1> QED
  BY <1>3, <1>5, <1>6, <1>7 DEF PlayInv

\* Executing a request keeps the sessions' shape.
LEMMA ExecutedTypes ==
  ASSUME PlayInv, NEW req \in Asked, req.client \in Installations, NEW outcome, NEW version,
         Playback!Execute(req, outcome, version)
  PROVE  plays' \in [Installations -> Seq(PlayRow)]
<1>1. \A c \in Installations : plays[c] \in Seq(PlayRow)
  BY DEF PlayInv, PlayTypes
<1>2. CASE Playback!Created(req)
  <2> DEFINE row == [epoch |-> req.epoch, lease |-> "active"]
  <2>1. row \in PlayRow
    BY DEF PlayRow, Asked
  <2>2. Append(plays[req.client], row) \in Seq(PlayRow)
    BY <1>1, <2>1
  <2>3. plays' = [plays EXCEPT ![req.client] = Append(plays[req.client], row)]
    BY <1>2 DEF Playback!Created
  <2> HIDE DEF row
  <2> QED
    BY <2>2, <2>3 DEF PlayInv, PlayTypes
<1>3. CASE Playback!OwnSession(req) /\ Playback!Beaten(req)
  <2> DEFINE own == plays[req.client]
             state == IF req.kind = "finish" THEN "ended" ELSE "active"
             row == [own[req.session] EXCEPT !.lease = state]
  <2>1. own \in Seq(PlayRow) /\ req.session \in DOMAIN own
    BY <1>1, <1>3 DEF Playback!OwnSession
  <2>2. own[req.session] \in PlayRow
    BY <2>1
  <2>3. row \in PlayRow
    BY <2>2 DEF PlayRow
  <2>4. plays' = [plays EXCEPT ![req.client] = [own EXCEPT ![req.session] = row]]
    BY <1>3 DEF Playback!Beaten
  <2> HIDE DEF row, own
  <2>5. [own EXCEPT ![req.session] = row] \in Seq(PlayRow)
    BY <2>1, <2>3
  <2> QED
    BY <2>4, <2>5 DEF PlayInv, PlayTypes
<1>4. CASE UNCHANGED plays
  BY <1>4 DEF PlayInv, PlayTypes
<1> QED
  BY <1>2, <1>3, <1>4 DEF Playback!Execute

\* The steps of a client and of the server at one request.
LEMMA PlayClient ==
  ASSUME PlayInv, NEW c \in Installations,
         \/ Playback!Admit(c) \/ Playback!Serve(c) \/ Playback!Load(c) \/ Playback!Loaded(c)
         \/ Playback!LoadFails(c) \/ Playback!Answered(c) \/ Playback!GiveUp(c)
         \/ \E kind \in {"beat", "pause", "finish"} : Playback!Send(c, kind)
  PROVE  PlayInv'
<1> USE DEF Playback!rows
<1>0. /\ player[c] \in PlayerRow /\ request[c] \in Asked /\ seen[c] \in SUBSET Versions
      /\ plays[c] \in Seq(PlayRow) /\ Len(plays[c]) \in Nat /\ PlayerInformed(c)
      /\ player = [player EXCEPT ![c] = player[c]]
      /\ request = [request EXCEPT ![c] = request[c]]
      /\ seen = [seen EXCEPT ![c] = @ \union {}]
      /\ playEpoch \in Nat /\ plays \in [Installations -> Seq(PlayRow)]
      /\ late \in SUBSET Asked
  BY PlayRows DEF PlayInv, PlayTypes
<1> DEFINE Known(req) == req.at # "none" => req.client = c /\
             (req.kind \in {"beat", "pause", "finish"} => req.expected \in seen[c])
<1>1. Known(request[c])
  BY <1>0 DEF PlayerInformed, Informed
<1>2. ASSUME NEW r \in Asked, request' = [request EXCEPT ![c] = r], Known(r),
             NEW p \in PlayerRow, player' = [player EXCEPT ![c] = p],
             p.expected \in seen[c], p.at = "finishing" => p.manifest \in seen[c],
             late' = late \/ (late' = late \union {request[c]} /\ request[c].at # "none"),
             playEpoch' = playEpoch, plays' \in [Installations -> Seq(PlayRow)], seen' = seen
      PROVE  PlayInv'
  <2>1. late' \in SUBSET Asked
    BY <1>0, <1>2
  <2>2. \A req \in late' : req \in late \/ (req = request[c] /\ request[c].at # "none")
    <3>1. CASE late' = late
      BY <3>1
    <3>2. CASE late' = late \union {request[c]} /\ request[c].at # "none"
      BY <3>2
    <3> QED
      BY <1>2, <3>1, <3>2
  <2> DEFINE told == {}
  <2>3. /\ told \in SUBSET Versions /\ seen' = [seen EXCEPT ![c] = @ \union told]
        /\ \A v \in seen[c] : v \in seen[c] \union told
    BY <1>0, <1>2
  <2> HIDE DEF told
  <2>4. PICK after \in SUBSET Asked : late' = after
    BY <2>1
  <2>5. p.expected \in seen[c] \union told
    BY <1>2, <2>3
  <2>6. p.at = "finishing" => p.manifest \in seen[c] \union told
    BY <1>2, <2>3
  <2>7. r.at # "none" => r.client = c /\ (r.kind \in {"beat", "pause", "finish"} =>
                                            r.expected \in seen[c] \union told)
    BY <1>2, <2>3
  <2>8. playEpoch' \in Nat /\ plays' \in [Installations -> Seq(PlayRow)]
    BY <1>0, <1>2
  <2> QED
    BY <1>2, <2>2, <2>3, <2>4, <2>5, <2>6, <2>7, <2>8, PlayStep
<1>3. CASE Playback!Admit(c)
  <2> DEFINE r == [request[c] EXCEPT !.at = "admitted", !.epoch = playEpoch]
  <2>1. r \in Asked /\ Known(r)
    BY <1>0, <1>1, <1>3 DEF Asked, Playback!Admit
  <2>2. /\ request' = [request EXCEPT ![c] = r]
        /\ UNCHANGED <<playEpoch, plays, player, late, seen>>
    BY <1>0, <1>3 DEF Playback!Admit, PlayInv, PlayTypes
  <2> HIDE DEF r
  <2> QED
    BY <1>0, <1>2, <2>1, <2>2 DEF PlayerInformed
<1>4. CASE Playback!Serve(c)
  <2>1. PICK outcome \in {"accepted", "conflict", "error"}, version \in 0 .. MaxVersion :
          /\ Playback!Execute(request[c], outcome, version)
          /\ request' = [request EXCEPT ![c].at = outcome, ![c].version = version]
    BY <1>4 DEF Playback!Serve
  <2> DEFINE r == [request[c] EXCEPT !.at = outcome, !.version = version]
  <2>2. r \in Asked /\ Known(r)
    BY <1>0, <1>1, <1>4 DEF Asked, Versions, Playback!Serve
  <2>3. /\ request' = [request EXCEPT ![c] = r] /\ UNCHANGED <<playEpoch, player, late, seen>>
    <3>1. UNCHANGED <<playEpoch, player, late, seen>>
      BY <1>4 DEF Playback!Serve
    <3> QED
      BY <1>0, <2>1, <3>1 DEF PlayInv, PlayTypes
  <2> HIDE DEF r
  <2>4. request[c].client \in Installations
    BY <1>1, <1>4 DEF Playback!Serve
  <2>5. plays' \in [Installations -> Seq(PlayRow)]
    BY <1>0, <2>1, <2>4, ExecutedTypes
  <2> QED
    BY <1>0, <1>2, <2>2, <2>3, <2>5 DEF PlayerInformed
<1>5. ASSUME NEW kind \in {"beat", "pause", "finish", "create"}
      PROVE  \E r \in Asked : /\ Known(r) /\ r.at = "sent"
                              /\ Playback!Sent(c, kind) => request' = [request EXCEPT ![c] = r]
  <2> DEFINE r == [Playback!NoRequest EXCEPT !.kind = kind, !.client = c,
                    !.session = player[c].session, !.at = "sent", !.expected = player[c].expected]
  <2>1. r \in Asked /\ r.client = c /\ r.expected = player[c].expected /\ r.at = "sent"
    BY <1>0, PlayConstants DEF Asked, PlayerRow
  <2>2. Playback!Sent(c, kind) => request' = [request EXCEPT ![c] = r]
    BY DEF Playback!Sent
  <2> HIDE DEF r
  <2> QED
    BY <1>0, <2>1, <2>2 DEF PlayerInformed
<1>6. CASE Playback!Load(c)
  <2> DEFINE p == [player[c] EXCEPT !.at = "loading"]
  <2>1. p \in PlayerRow /\ p.expected = player[c].expected /\ p.at = "loading"
    BY <1>0 DEF PlayerRow
  <2>2. /\ player' = [player EXCEPT ![c] = p] /\ Playback!Sent(c, "create")
        /\ UNCHANGED <<playEpoch, plays, late, seen>>
    BY <1>6 DEF Playback!Load, PlayInv, PlayTypes
  <2> HIDE DEF p
  <2>3. PICK r \in Asked : Known(r) /\ request' = [request EXCEPT ![c] = r]
    BY <1>5, <2>2
  <2> QED
    BY <1>0, <1>2, <2>1, <2>2, <2>3 DEF PlayerInformed
<1>7. ASSUME NEW kind \in {"beat", "pause", "finish"}, Playback!Send(c, kind)
      PROVE  PlayInv'
  <2> DEFINE p == [player[c] EXCEPT !.at = IF kind = "finish" THEN "ended" ELSE @]
  <2>1. /\ p \in PlayerRow /\ p.expected = player[c].expected /\ p.manifest = player[c].manifest
        /\ p.at \in {"ended", player[c].at}
    BY <1>0 DEF PlayerRow
  <2>2. /\ player' = [player EXCEPT ![c] = p] /\ Playback!Sent(c, kind)
        /\ UNCHANGED <<playEpoch, plays, late, seen>>
    BY <1>7 DEF Playback!Send, PlayInv, PlayTypes
  <2> HIDE DEF p
  <2>3. PICK r \in Asked : Known(r) /\ request' = [request EXCEPT ![c] = r]
    BY <1>5, <2>2
  <2> QED
    BY <1>0, <1>2, <2>1, <2>2, <2>3 DEF PlayerInformed
<1>8. CASE Playback!LoadFails(c)
  <2> DEFINE p == [player[c] EXCEPT !.at = IF @ = "loading" /\ player[c].session # 0
                                           THEN "playing" ELSE "closed"]
  <2>1. p \in PlayerRow /\ p.expected = player[c].expected /\ p.at # "finishing"
    BY <1>0 DEF PlayerRow
  <2>2. /\ player' = [player EXCEPT ![c] = p]
        /\ request' = [request EXCEPT ![c] = Playback!NoRequest]
        /\ UNCHANGED <<playEpoch, plays, late, seen>>
    BY <1>8 DEF Playback!LoadFails, PlayInv, PlayTypes
  <2> HIDE DEF p
  <2> QED
    BY <1>0, <1>2, <2>1, <2>2, PlayConstants DEF PlayerInformed
<1>9. CASE Playback!GiveUp(c)
  <2> DEFINE r == [request[c] EXCEPT !.at = "error", !.version = 0]
  <2>1. r \in Asked /\ Known(r)
    BY <1>0, <1>1, <1>9, PlayConstants DEF Asked, Playback!GiveUp
  <2>2. /\ request' = [request EXCEPT ![c] = r] /\ UNCHANGED <<playEpoch, plays, player, seen>>
        /\ late' = late \/ (late' = late \union {request[c]} /\ request[c].at # "none")
    BY <1>9 DEF Playback!GiveUp, PlayInv, PlayTypes
  <2> HIDE DEF r
  <2> QED
    BY <1>0, <1>2, <2>1, <2>2 DEF PlayerInformed
<1>10. ASSUME NEW version \in Versions, Playback!Attached(c, version)
       PROVE  \E p \in PlayerRow : /\ player' = [player EXCEPT ![c] = p]
                                   /\ p.expected \in {0, version} /\ p.at # "finishing"
  <2> DEFINE open == [at |-> "playing", session |-> Len(plays[c]), expected |-> version,
                      manifest |-> 0]
  <2>1. open \in PlayerRow /\ open.expected = version /\ open.at = "playing"
    BY <1>0, PlayConstants DEF PlayerRow
  <2>2. \E p \in {Playback!Closed, open} : player' = [player EXCEPT ![c] = p]
    BY <1>10 DEF Playback!Attached
  <2> HIDE DEF open
  <2> QED
    BY <2>1, <2>2, PlayConstants
<1>11. CASE Playback!Loaded(c)
  <2>1. request[c].version \in Versions
    BY <1>0 DEF Asked
  <2> DEFINE v == request[c].version
             told == {v}
             after == late
  <2>2. /\ told \in SUBSET Versions /\ after \in SUBSET Asked /\ late' = after
        /\ playEpoch' \in Nat /\ plays' \in [Installations -> Seq(PlayRow)]
        /\ \A req \in after : req \in late \/ (req = request[c] /\ request[c].at # "none")
        /\ seen' = [seen EXCEPT ![c] = @ \union told] /\ v \in told
    BY <1>0, <1>11, <2>1 DEF Playback!Loaded
  <2>3. \E p \in PlayerRow, r \in Asked :
           /\ player' = [player EXCEPT ![c] = p] /\ request' = [request EXCEPT ![c] = r]
           /\ p.expected \in seen[c] \union told
           /\ p.at = "finishing" => p.manifest \in seen[c] \union told
           /\ Known(r)
    <3>1. CASE player[c].session = 0
      <4>1. /\ Playback!Attached(c, v) /\ request' = [request EXCEPT ![c] = Playback!NoRequest]
        BY <1>11, <3>1 DEF Playback!Loaded
      <4>2. PICK p \in PlayerRow : /\ player' = [player EXCEPT ![c] = p]
                                   /\ p.expected \in {0, v} /\ p.at # "finishing"
        BY <1>10, <2>1, <4>1
      <4>3. p.expected \in seen[c] \union told
        BY <1>0, <4>2 DEF PlayerInformed
      <4> QED
        BY <4>1, <4>2, <4>3, PlayConstants
    <3>2. CASE player[c].session # 0
      <4> DEFINE p == [player[c] EXCEPT !.at = "finishing", !.manifest = v]
      <4>1. p \in PlayerRow /\ p.expected = player[c].expected /\ p.manifest = v
        BY <1>0, <2>1 DEF PlayerRow
      <4>2. /\ player' = [player EXCEPT ![c] = p] /\ Playback!Sent(c, "finish")
        BY <1>11, <3>2 DEF Playback!Loaded, PlayInv, PlayTypes
      <4> HIDE DEF p
      <4>3. PICK r \in Asked : Known(r) /\ request' = [request EXCEPT ![c] = r]
        BY <1>5, <4>2
      <4> QED
        BY <1>0, <4>1, <4>2, <4>3 DEF PlayerInformed
    <3> QED
      BY <3>1, <3>2
  <2> HIDE DEF told, after, v
  <2>4. PICK p \in PlayerRow, r \in Asked :
           /\ player' = [player EXCEPT ![c] = p] /\ request' = [request EXCEPT ![c] = r]
           /\ p.expected \in seen[c] \union told
           /\ p.at = "finishing" => p.manifest \in seen[c] \union told
           /\ Known(r)
    BY <2>3
  <2> QED
    BY <2>2, <2>4, PlayStep
<1>12. CASE Playback!Answered(c)
  <2> DEFINE was == request[c].at \in {"accepted", "conflict"} /\ request[c].version > 0
             told == IF was THEN {request[c].version} ELSE {}
             after == late
             r == Playback!NoRequest
  <2>1. /\ told \in SUBSET Versions /\ after \in SUBSET Asked /\ late' = after
        /\ playEpoch' \in Nat /\ plays' \in [Installations -> Seq(PlayRow)]
        /\ \A req \in after : req \in late \/ (req = request[c] /\ request[c].at # "none")
        /\ seen' = [seen EXCEPT ![c] = @ \union told]
        /\ r \in Asked /\ request' = [request EXCEPT ![c] = r] /\ r.at = "none"
    BY <1>0, <1>12, PlayConstants DEF Playback!Answered, Playback!Applied, Asked
  <2>2. \E p \in PlayerRow :
           /\ player' = [player EXCEPT ![c] = p]
           /\ p.expected \in seen[c] \union told
           /\ p.at = "finishing" => p.manifest \in seen[c] \union told
    <3>1. CASE player[c].at = "finishing"
      <4>1. Playback!Attached(c, player[c].manifest)
        BY <1>12, <3>1 DEF Playback!Answered, Playback!Applied
      <4>2. player[c].manifest \in Versions /\ player[c].manifest \in seen[c] /\ 0 \in seen[c]
        BY <1>0, <3>1 DEF PlayerInformed, PlayerRow
      <4> QED
        BY <1>10, <4>1, <4>2
    <3>2. CASE player[c].at = "ended"
      <4>1. player' = [player EXCEPT ![c] = Playback!Closed]
        BY <1>12, <3>2 DEF Playback!Answered, Playback!Applied
      <4> QED
        BY <1>0, <4>1, PlayConstants DEF PlayerInformed
    <3>3. CASE player[c].at \notin {"finishing", "ended"}
      <4> DEFINE p == [player[c] EXCEPT !.expected = IF was THEN request[c].version ELSE @]
      <4>1. player' = [player EXCEPT ![c] = p]
        BY <1>12, <3>3 DEF Playback!Answered, Playback!Applied, PlayInv, PlayTypes
      <4>2. p \in PlayerRow /\ p.at = player[c].at /\ p.expected \in seen[c] \union told
        BY <1>0 DEF PlayerRow, Asked, PlayerInformed
      <4> HIDE DEF p
      <4> QED
        BY <3>3, <4>1, <4>2
    <3> QED
      BY <3>1, <3>2, <3>3
  <2> HIDE DEF told, after, r
  <2> QED
    BY <2>1, <2>2, PlayStep
<1> QED
  BY <1>3, <1>4, <1>6, <1>7, <1>8, <1>9, <1>11, <1>12

LEMMA PlayNext == PlayInv /\ [Playback!Next]_(Playback!vars) => PlayInv'
<1> SUFFICES ASSUME PlayInv, [Playback!Next]_(Playback!vars) PROVE PlayInv'
  OBVIOUS
<1> USE DEF Playback!rows
<1>1. CASE Playback!Logout
  BY <1>1 DEF Playback!Logout, PlayInv, PlayTypes, PlayerInformed, Informed
<1>2. ASSUME NEW req \in late, Playback!ServeLate(req) PROVE PlayInv'
  <2>1. req \in Asked /\ req.client \in Installations
    BY DEF PlayInv, PlayTypes, Informed
  <2>2. plays' \in [Installations -> Seq(PlayRow)]
    BY <1>2, <2>1, ExecutedTypes DEF Playback!ServeLate
  <2> QED
    BY <1>2, <2>2 DEF Playback!ServeLate, PlayInv, PlayTypes, PlayerInformed, Informed
<1>3. CASE UNCHANGED Playback!vars
  BY <1>3 DEF Playback!vars, PlayInv, PlayTypes, PlayerInformed, Informed
<1> QED
  BY <1>1, <1>2, <1>3, PlayClient DEF Playback!Next

\* An update that is executed replaces the version its request names.
LEMMA ExecutedUpdate ==
  ASSUME NEW req, NEW outcome, NEW version, Playback!Execute(req, outcome, version),
         progress' # progress
  PROVE  /\ progress'.version = progress.version + 1 /\ outcome = "accepted"
         /\ req.kind \in {"beat", "pause", "finish"} /\ progress.version = req.expected
<1>1. /\ Playback!Update /\ Playback!Matches(req) /\ outcome = "accepted"
      /\ req.kind \in {"beat", "pause", "finish"}
  BY DEF Playback!Execute
<1>2. progress'.version = progress.version + 1
  BY <1>1 DEF Playback!Update
<1> QED
  BY <1>1, <1>2 DEF Playback!Matches

\* No progress is lost: an update raises the version by one and replaces a
\* state its client was told of, whatever is retried, late or rolled back
\* (progress.py:197, heartbeat.py:105, progress_controller.dart _apply).
THEOREM ProgressIsKept == Spec => NoLostUpdate
<1> DEFINE Kept ==
      progress' # progress =>
         /\ progress'.version = progress.version + 1
         /\ \/ \E c \in Installations : request'[c].at = "accepted" /\ request[c].at = "admitted"
                                        /\ progress.version \in seen[c]
            \/ \E req \in late \ late' : progress.version \in seen[req.client]
<1>1. PlayInv /\ [Playback!Next]_(Playback!vars) => [Kept]_(Playback!vars)
  <2> SUFFICES ASSUME PlayInv, Playback!Next, progress' # progress PROVE Kept
    BY DEF Playback!vars, Playback!rows
  <2>1. ASSUME NEW c \in Installations, Playback!Serve(c) PROVE Kept
    <3>1. PICK outcome \in {"accepted", "conflict", "error"}, version \in 0 .. MaxVersion :
            /\ Playback!Execute(request[c], outcome, version)
            /\ request' = [request EXCEPT ![c].at = outcome, ![c].version = version]
      BY <2>1 DEF Playback!Serve
    <3>2. /\ progress'.version = progress.version + 1 /\ outcome = "accepted"
          /\ request[c].kind \in {"beat", "pause", "finish"}
          /\ progress.version = request[c].expected
      BY <3>1, ExecutedUpdate
    <3>3. request[c].at = "admitted" /\ request[c] \in Asked /\ PlayerInformed(c)
      BY <2>1, PlayRows DEF Playback!Serve
    <3>4. request'[c].at = "accepted"
      BY <3>1, <3>2, <3>3 DEF PlayInv, PlayTypes, Asked
    <3>5. progress.version \in seen[c]
      BY <3>2, <3>3 DEF PlayerInformed, Informed
    <3> QED
      BY <3>2, <3>3, <3>4, <3>5
  <2>2. ASSUME NEW req \in late, Playback!ServeLate(req) PROVE Kept
    <3>1. PICK outcome \in {"accepted", "conflict", "error"}, version \in 0 .. MaxVersion :
            Playback!Execute(req, outcome, version)
      BY <2>2 DEF Playback!ServeLate
    <3>2. /\ progress'.version = progress.version + 1
          /\ req.kind \in {"beat", "pause", "finish"} /\ progress.version = req.expected
      BY <3>1, ExecutedUpdate
    <3>3. progress.version \in seen[req.client] /\ req \in late \ late'
      BY <2>2, <3>2 DEF PlayInv, Informed, Playback!ServeLate
    <3> QED
      BY <3>2, <3>3
  <2>3. \A c \in Installations :
          ~(\/ Playback!Admit(c) \/ Playback!Load(c) \/ Playback!Loaded(c)
            \/ Playback!LoadFails(c) \/ Playback!Answered(c) \/ Playback!GiveUp(c)
            \/ \E kind \in {"beat", "pause", "finish"} : Playback!Send(c, kind))
    BY DEF Playback!Admit, Playback!Load, Playback!Loaded, Playback!LoadFails,
       Playback!Answered, Playback!GiveUp, Playback!Send, Playback!rows
  <2>4. ~Playback!Logout
    BY DEF Playback!Logout
  <2> QED
    BY <2>1, <2>2, <2>3, <2>4 DEF Playback!Next
<1>2. Playback!Spec => []PlayInv
  BY PlayInit, PlayNext, PTL DEF Playback!Spec
<1>3. Playback!Spec => [][Kept]_(Playback!vars)
  BY <1>1, <1>2, PTL DEF Playback!Spec
<1> QED
  BY <1>3, PlaybackRuns, PTL DEF NoLostUpdate, Playback!NoLostUpdate

-----------------------------------------------------------------------------
(* The metadata jobs: MetadataProofs has the argument.                     *)

MP == INSTANCE MetadataProofs

\* Metadata and MP are two instances of one specification, so what is proved of
\* the one holds of the other: once expanded, their definitions are the same.
LEMMA SameVariables == Metadata!vars = MP!vars /\ Metadata!queueVars = MP!queueVars
  BY DEF Metadata!vars, MP!vars, Metadata!queueVars, MP!queueVars

LEMMA SameInit == Metadata!Init <=> MP!Init
  BY DEF Metadata!Init, MP!Init, Metadata!QueueInit, MP!QueueInit, Metadata!NoClaim, MP!NoClaim

LEMMA SameNext == Metadata!Next <=> MP!Next
<1> USE DEF Metadata!Core, MP!Core, Metadata!ALL_STAGES, MP!ALL_STAGES,
        Metadata!Stages, MP!Stages, Metadata!Optional, MP!Optional,
        Metadata!Range, MP!Range, Metadata!PRIORITY_BY_REASON,
        MP!PRIORITY_BY_REASON, Metadata!Reasons, MP!Reasons,
        Metadata!Priority, MP!Priority, Metadata!Active, MP!Active,
        Metadata!StagePlan, MP!StagePlan, Metadata!NewJob, MP!NewJob,
        Metadata!HoldsClaim, MP!HoldsClaim, Metadata!Claimable, MP!Claimable,
        Metadata!ClaimedJob, MP!ClaimedJob, Metadata!FinishedJob,
        MP!FinishedJob, Metadata!FailedJob, MP!FailedJob,
        Metadata!PendingStages, MP!PendingStages, Metadata!Selected,
        MP!Selected, Metadata!HasWarnings, MP!HasWarnings,
        Metadata!LatestNonSkipped, MP!LatestNonSkipped,
        Metadata!RetryableStages, MP!RetryableStages, Metadata!queueVars,
        MP!queueVars, Metadata!JobIds, MP!JobIds, Metadata!Exists, MP!Exists,
        Metadata!Latest, MP!Latest, Metadata!NoActive, MP!NoActive,
        Metadata!ActiveJobs, MP!ActiveJobs, Metadata!LiveJobs, MP!LiveJobs,
        Metadata!RunningJobs, MP!RunningJobs, Metadata!SetJob, MP!SetJob,
        Metadata!CoreReadyOr, MP!CoreReadyOr, Metadata!AddJob, MP!AddJob,
        Metadata!Reprioritise, MP!Reprioritise, Metadata!Candidate,
        MP!Candidate, Metadata!InitialCount, MP!InitialCount,
        Metadata!Cardinality, MP!Cardinality, Metadata!IsFiniteSet,
        MP!IsFiniteSet, Metadata!SlotFree, MP!SlotFree, Metadata!ClaimNext,
        MP!ClaimNext, Metadata!FailJob, MP!FailJob, Metadata!StartStage,
        MP!StartStage, Metadata!FinishStage, MP!FinishStage,
        Metadata!CanComplete, MP!CanComplete, Metadata!Complete, MP!Complete,
        Metadata!ImportCore, MP!ImportCore, Metadata!NoClaim, MP!NoClaim,
        Metadata!Claim, MP!Claim, Metadata!Row, MP!Row, Metadata!Holds,
        MP!Holds, Metadata!Alive, MP!Alive, Metadata!Without, MP!Without,
        Metadata!Fault, MP!Fault, Metadata!Step, MP!Step, Metadata!Exit,
        MP!Exit, Metadata!Stage, MP!Stage, Metadata!At, MP!At,
        Metadata!Supervised, MP!Supervised
<1>1. Metadata!Request <=> MP!Request
  BY DEF Metadata!SeedInitial, MP!SeedInitial, Metadata!MarkInitialComplete,
     MP!MarkInitialComplete, Metadata!SeedHistory, MP!SeedHistory,
     Metadata!EnsureSearchPriority, MP!EnsureSearchPriority,
     Metadata!EnsureRankingPriority, MP!EnsureRankingPriority,
     Metadata!RescrapeMovie, MP!RescrapeMovie, Metadata!ManualRetry,
     MP!ManualRetry, Metadata!RetryEnrichment, MP!RetryEnrichment,
     Metadata!SetPaused, MP!SetPaused, Metadata!Request, MP!Request
<1>2. Metadata!Supervisor <=> MP!Supervisor
  BY DEF Metadata!ClaimSlot, MP!ClaimSlot, Metadata!Launch, MP!Launch,
     Metadata!LaunchFails, MP!LaunchFails, Metadata!Reap, MP!Reap,
     Metadata!TerminateTimedOut, MP!TerminateTimedOut, Metadata!RenewLost,
     MP!RenewLost, Metadata!Supervisor, MP!Supervisor
<1>3. (Metadata!WorkerDies <=> MP!WorkerDies) /\ (Metadata!Shutdown <=> MP!Shutdown)
  BY DEF Metadata!WorkerDies, MP!WorkerDies, Metadata!Shutdown, MP!Shutdown
<1>4. ASSUME NEW c PROVE Metadata!ChildStep(c) <=> MP!ChildStep(c)
  BY DEF Metadata!LoadClaim, MP!LoadClaim, Metadata!CheckCore, MP!CheckCore,
     Metadata!ChildStartStage, MP!ChildStartStage, Metadata!ExecuteCore,
     MP!ExecuteCore, Metadata!ExecuteFails, MP!ExecuteFails,
     Metadata!ExecuteOptional, MP!ExecuteOptional, Metadata!VerifyCore,
     MP!VerifyCore, Metadata!FinishGood, MP!FinishGood, Metadata!FinishBad,
     MP!FinishBad, Metadata!ChildFails, MP!ChildFails,
     Metadata!ChildCompletes, MP!ChildCompletes, Metadata!ChildRefused,
     MP!ChildRefused, Metadata!ChildStep, MP!ChildStep
<1>5. ASSUME NEW c
      PROVE  /\ Metadata!ChildKilled(c) <=> MP!ChildKilled(c)
             /\ Metadata!WatchdogKills(c) <=> MP!WatchdogKills(c)
  BY DEF Metadata!ChildKilled, MP!ChildKilled, Metadata!WatchdogKills,
     MP!WatchdogKills
<1>6. ASSUME NEW m, NEW a
      PROVE  /\ Metadata!ClaimExpires(m, a) <=> MP!ClaimExpires(m, a)
             /\ Metadata!HardTimeoutPasses(m, a) <=> MP!HardTimeoutPasses(m, a)
  BY DEF Metadata!ClaimExpires, MP!ClaimExpires, Metadata!HardTimeoutPasses,
     MP!HardTimeoutPasses
<1> QED
  BY <1>1, <1>2, <1>3, <1>4, <1>5, <1>6 DEF Metadata!Next, MP!Next,
     Metadata!Alive, MP!Alive, Metadata!JobIds, MP!JobIds

LEMMA SameTypes == Metadata!TypeOK <=> MP!TypeOK
  BY DEF Metadata!TypeOK, MP!TypeOK, Metadata!QueueTypeOK, MP!QueueTypeOK,
     Metadata!RowWellFormed, MP!RowWellFormed, Metadata!JobRow, MP!JobRow,
     Metadata!Stages, MP!Stages, Metadata!Optional, MP!Optional,
     Metadata!ALL_STAGES, MP!ALL_STAGES, Metadata!Core, MP!Core,
     Metadata!Reasons, MP!Reasons, Metadata!PRIORITY_BY_REASON,
     MP!PRIORITY_BY_REASON, Metadata!JobStatus, MP!JobStatus,
     Metadata!StageStatus, MP!StageStatus, Metadata!CatalogState,
     MP!CatalogState, Metadata!Claims, MP!Claims, Metadata!NoClaim,
     MP!NoClaim, Metadata!ChildState, MP!ChildState, Metadata!ChildPc,
     MP!ChildPc, Metadata!Range, MP!Range, Metadata!Cardinality,
     MP!Cardinality, Metadata!IsFiniteSet, MP!IsFiniteSet

LEMMA SameSlots == Metadata!SlotsRespected <=> MP!SlotsRespected
  BY DEF Metadata!SlotsRespected, MP!SlotsRespected, Metadata!LiveJobs,
     MP!LiveJobs, Metadata!RunningJobs, MP!RunningJobs, Metadata!ActiveJobs,
     MP!ActiveJobs, Metadata!JobIds, MP!JobIds, Metadata!Exists, MP!Exists,
     Metadata!Active, MP!Active, Metadata!Cardinality, MP!Cardinality,
     Metadata!IsFiniteSet, MP!IsFiniteSet

LEMMA SameAttempts ==
  Metadata!Attempts = MP!Attempts /\ (Metadata!Attempts)' = (MP!Attempts)'
  BY DEF Metadata!Attempts, MP!Attempts

\* The constants of the queue are those its theorems are about.
LEMMA QueueConstants == MP!MetadataConstants
<1>1. MaxRunning \in Nat /\ MaxJobs \in Nat /\ MaxFaults \in Nat
  BY ServicesAssumption
<1>2. OPTIONAL_STAGES \in Seq(MP!Optional)
  BY ServicesAssumption DEF Metadata!Optional, MP!Optional, Metadata!Range, MP!Range
<1> QED
  BY <1>1, <1>2 DEF MP!MetadataConstants

LEMMA MetadataRuns == /\ Init => MP!Init
                      /\ [Next]_vars => [MP!Next]_(MP!vars)
<1>1. Init => MP!Init
  BY SameInit DEF Init
<1>2. [Next]_vars => [Metadata!Next]_(Metadata!vars)
  BY DEF Next, vars, metadataVars, Metadata!vars, Metadata!queueVars
<1>3. UNCHANGED Metadata!vars <=> UNCHANGED MP!vars
  BY DEF Metadata!vars, MP!vars, Metadata!queueVars, MP!queueVars
<1> QED
  BY <1>1, <1>2, <1>3, SameNext

LEMMA MetadataInvariant == Spec => []MP!MetadataInv
<1>1. Init => MP!MetadataInv
  BY MetadataRuns, QueueConstants, MP!MetadataStarts
<1>2. MP!MetadataInv /\ [Next]_vars => MP!MetadataInv'
  BY MetadataRuns, QueueConstants, MP!MetadataNext
<1> QED
  BY <1>1, <1>2, PTL DEF Spec

\* At most MAX_RUNNING_JOBS jobs run under a claim that did not expire, and only
\* the youngest job of a movie is queued or running (claim_next under the slot
\* lock, the unique index of the active job, metadata_supervisor.py).
THEOREM SlotsAreRespected == Spec => []SlotsRespected
<1>1. MP!MetadataInv => MP!QueueInv
  BY DEF MP!MetadataInv
<1>2. MP!QueueInv => MP!SlotsRespected
  BY QueueConstants, MP!SlotsHold
<1>3. MP!MetadataInv => SlotsRespected
  BY <1>1, <1>2, SameSlots DEF SlotsRespected
<1> QED
  BY <1>3, MetadataInvariant, PTL

\* The metadata queue and its workers implement the abstract work queue: a movie
\* has one open attempt, every claim is fresh, and an attempt ends once, while
\* it is held (metadata_queue.py, metadata_supervisor.py, metadata_child.py).
THEOREM QueueImplements == Spec => ImplementsWorkQueue
<1>1. Init => Abstract!Init
  <2> SUFFICES ASSUME Init PROVE Abstract!Init
    OBVIOUS
  <2>1. Metadata!QueueInit
    BY DEF Init, Metadata!Init
  <2>2. \A m \in Movies : jobs[m] = <<>> /\ Len(jobs[m]) = 0
    BY <2>1 DEF Metadata!QueueInit
  <2>3. Metadata!Attempts = [m \in Movies |-> <<>>]
    BY <2>2 DEF Metadata!Attempts
  <2> QED
    BY <2>1, <2>3 DEF Metadata!QueueInit, Abstract!Init
<1>2. MP!MetadataInv /\ [Next]_vars => [Abstract!Next]_(Abstract!vars)
  <2> SUFFICES ASSUME MP!MetadataInv, [Next]_vars PROVE [Abstract!Next]_(Abstract!vars)
    OBVIOUS
  <2>1. CASE part = "metadata"
    <3>1. part' = "metadata"
      BY <2>1 DEF Next, vars
    <3>2. [MP!Abstract!Next]_(MP!Abstract!vars)
      BY MetadataRuns, QueueConstants, MP!MetadataImplements DEF MP!MetadataInv
    <3>3. [Abstract!Next]_(Abstract!vars) <=> [MP!Abstract!Next]_(MP!Abstract!vars)
      BY <2>1, <3>1, SameAttempts
         DEF Abstract!Next, MP!Abstract!Next, Abstract!vars, MP!Abstract!vars,
             Abstract!Submit, MP!Abstract!Submit, Abstract!Take, MP!Abstract!Take,
             Abstract!End, MP!Abstract!End, Abstract!SetLast, MP!Abstract!SetLast,
             Abstract!Open, MP!Abstract!Open, Abstract!Last, MP!Abstract!Last,
             Abstract!Outcomes, MP!Abstract!Outcomes
    <3> QED
      BY <3>2, <3>3
  <2>2. CASE part # "metadata"
    <3>1. part' = part /\ claims' = claims
      BY <2>2 DEF Next, vars, metadataVars
    <3> QED
      BY <2>2, <3>1 DEF Abstract!vars
  <2> QED
    BY <2>1, <2>2
<1> QED
  BY <1>1, <1>2, MetadataInvariant, PTL DEF Spec, ImplementsWorkQueue, Abstract!Spec
-----------------------------------------------------------------------------
(* The types of the sessions.  Every step of a client changes one row of a *)
(* table, and the number of a session stays within the logins there are.   *)

SessionType == [client : Clients, token : Nat, revoked : {"no", "login", "logout", "reuse"}]
StoreType   == [access : Identity!Pair, refresh : Identity!Pair]
UserType    == [kind : {"none", "login", "bootstrap", "logout"},
                at : {"none", "sent", "checked", "answered", "written", "clear", "cleared"},
                pair : Identity!Pair]
RefreshType == [at : {"none", "sent", "answered", "written", "failed", "cleared"},
                pair : Identity!Pair]
CallType    == [at : {"idle", "sent", "refused", "waiting"}, failed : Identity!Pair]

ServerTyped == /\ admin \in BOOLEAN /\ epoch \in Nat
               /\ sessions \in Seq(SessionType) /\ Len(sessions) <= MaxSessions
ClientsTyped == /\ store \in [Clients -> StoreType]
                /\ ui \in [Clients -> {"starting", "in", "out"}]
                /\ user \in [Clients -> UserType]
                /\ refresh \in [Clients -> RefreshType]
                /\ calls \in [Clients -> [Slots -> CallType]]
                /\ losses \in [Clients -> 0 .. MaxLosses]

\* A table keeps its rows but one at most, which stays in its type.
Touches(f, g, T) == g = f \/ \E c \in Clients : \E row \in T : g = [f EXCEPT ![c] = row]

LEMMA TouchedTable ==
  ASSUME NEW T, NEW f \in [Clients -> T], NEW g, Touches(f, g, T)
  PROVE  g \in [Clients -> T]
  BY DEF Touches

LEMMA RowTouched ==
  ASSUME NEW T, NEW f, NEW c \in Clients, NEW row \in T
  PROVE  Touches(f, [f EXCEPT ![c] = row], T)
  BY DEF Touches

ClientsTouched ==
  /\ Touches(store, store', StoreType)
  /\ Touches(ui, ui', {"starting", "in", "out"})
  /\ Touches(user, user', UserType)
  /\ Touches(refresh, refresh', RefreshType)
  /\ Touches(calls, calls', [Slots -> CallType])
  /\ Touches(losses, losses', 0 .. MaxLosses)

LEMMA ClientsStayTyped == ASSUME ClientsTyped, ClientsTouched PROVE ClientsTyped'
<1> USE DEF ClientsTyped, ClientsTouched
<1>1. store' \in [Clients -> StoreType]
  BY TouchedTable
<1>2. ui' \in [Clients -> {"starting", "in", "out"}]
  BY TouchedTable
<1>3. user' \in [Clients -> UserType]
  BY TouchedTable
<1>4. refresh' \in [Clients -> RefreshType]
  BY TouchedTable
<1>5. calls' \in [Clients -> [Slots -> CallType]]
  BY TouchedTable
<1>6. losses' \in [Clients -> 0 .. MaxLosses]
  BY TouchedTable
<1> QED
  BY <1>1, <1>2, <1>3, <1>4, <1>5, <1>6

LEMMA PairsTyped ==
  /\ Identity!NoPair \in Identity!Pair
  /\ Identity!NoUser \in UserType /\ Identity!NoRefresh \in RefreshType
  /\ Identity!NoCall \in CallType
<1>1. Identity!NoPair \in Identity!Pair
  BY ServicesAssumption DEF Identity!NoPair, Identity!Pair
<1> QED
  BY <1>1 DEF Identity!NoUser, Identity!NoRefresh, Identity!NoCall, UserType, RefreshType, CallType

\* The steps of a client and of the network.
LEMMA StoreWritten ==
  ASSUME ClientsTyped, NEW c \in Clients, NEW pair \in Identity!Pair,
         Identity!StoreRefresh(c, pair) \/ Identity!StoreAccess(c, pair)
  PROVE  Touches(store, store', StoreType)
<1> PICK old : old = store[c]
  OBVIOUS
<1>1. old \in StoreType
  BY DEF ClientsTyped
<1>2. [old EXCEPT !.refresh = pair] \in StoreType /\ [old EXCEPT !.access = pair] \in StoreType
  BY <1>1 DEF StoreType
<1>3. \/ store' = [store EXCEPT ![c] = [old EXCEPT !.refresh = pair]]
      \/ store' = [store EXCEPT ![c] = [old EXCEPT !.access = pair]]
  BY DEF Identity!StoreRefresh, Identity!StoreAccess
<1> QED
  BY <1>2, <1>3, RowTouched

LEMMA RowsOfClient ==
  ASSUME ClientsTyped, NEW c \in Clients
  PROVE  /\ store[c] \in StoreType /\ user[c] \in UserType /\ refresh[c] \in RefreshType
         /\ calls[c] \in [Slots -> CallType] /\ losses[c] \in 0 .. MaxLosses
         /\ store[c].access \in Identity!Pair /\ store[c].refresh \in Identity!Pair
         /\ user[c].pair \in Identity!Pair /\ refresh[c].pair \in Identity!Pair
         /\ \A r \in Slots : calls[c][r] \in CallType /\ calls[c][r].failed \in Identity!Pair
  BY DEF ClientsTyped, StoreType, UserType, RefreshType, CallType

LEMMA UserMoves ==
  ASSUME ClientsTyped, NEW c \in Clients, NEW at, user' = [user EXCEPT ![c].at = at],
         at \in {"none", "sent", "checked", "answered", "written", "clear", "cleared"}
  PROVE  Touches(user, user', UserType)
<1> PICK row : row = [user[c] EXCEPT !.at = at]
  OBVIOUS
<1>1. row \in UserType
  BY RowsOfClient DEF UserType
<1> QED
  BY <1>1, RowTouched

LEMMA RefreshMoves ==
  ASSUME ClientsTyped, NEW c \in Clients, NEW at, refresh' = [refresh EXCEPT ![c].at = at],
         at \in {"none", "sent", "answered", "written", "failed", "cleared"}
  PROVE  Touches(refresh, refresh', RefreshType)
<1> PICK row : row = [refresh[c] EXCEPT !.at = at]
  OBVIOUS
<1>1. row \in RefreshType
  BY RowsOfClient DEF RefreshType
<1> QED
  BY <1>1, RowTouched

LEMMA StartedTyped ==
  ASSUME ClientsTyped, NEW c \in Clients
  PROVE  Touches(refresh, Identity!Started(c), RefreshType)
<1> PICK row : row = [at |-> IF store[c].refresh = Identity!NoPair THEN "failed" ELSE "sent",
                      pair |-> store[c].refresh]
  OBVIOUS
<1>1. row \in RefreshType
  BY RowsOfClient DEF RefreshType
<1>2. Identity!Started(c) = [refresh EXCEPT ![c] = row]
  BY DEF Identity!Started
<1> QED
  BY <1>1, <1>2 DEF Touches

LEMMA ReleasedTyped ==
  ASSUME ClientsTyped, NEW c \in Clients
  PROVE  Touches(calls, Identity!Released(c), [Slots -> CallType])
<1> PICK row : row = [r \in Slots |-> IF calls[c][r].at = "waiting" THEN Identity!NoCall
                                                                    ELSE calls[c][r]]
  OBVIOUS
<1>1. row \in [Slots -> CallType]
  BY RowsOfClient, PairsTyped
<1>2. Identity!Released(c) = [calls EXCEPT ![c] = row]
  BY DEF Identity!Released
<1> QED
  BY <1>1, <1>2 DEF Touches

LEMMA CallMoves ==
  ASSUME ClientsTyped, NEW c \in Clients, NEW r \in Slots, NEW call \in CallType,
         calls' = [calls EXCEPT ![c][r] = call]
  PROVE  Touches(calls, calls', [Slots -> CallType])
<1> PICK row : row = [calls[c] EXCEPT ![r] = call]
  OBVIOUS
<1>1. row \in [Slots -> CallType]
  BY RowsOfClient
<1> QED
  BY <1>1, RowTouched

LEMMA Unmoved == \A f, T : Touches(f, f, T)
  BY DEF Touches

LEMMA LossTouches ==
  ASSUME ClientsTyped, NEW c \in Clients, Identity!Loss(c)
  PROVE  Touches(losses, losses', 0 .. MaxLosses)
<1> PICK n : n = losses[c] + 1
  OBVIOUS
<1>1. n \in 0 .. MaxLosses /\ losses' = [losses EXCEPT ![c] = n]
  BY RowsOfClient, ServicesAssumption DEF Identity!Loss
<1> QED
  BY <1>1, RowTouched

LEMMA ClientTypes ==
  ASSUME ClientsTyped, NEW c \in Clients, Identity!ClientStep(c)
  PROVE  ClientsTouched /\ UNCHANGED <<admin, epoch, sessions>>
<1> USE DEF ClientsTouched, Identity!server
<1> HIDE DEF Identity!NoPair, Identity!NoUser, Identity!NoRefresh, Identity!NoCall
<1> DEFINE Uis == {"starting", "in", "out"}
<1>1. CASE Identity!StartLogin(c)
  <2>1. PICK kind \in {"login", "bootstrap"} :
          user' = [user EXCEPT ![c] = [kind |-> kind, at |-> "sent", pair |-> Identity!NoPair]]
    BY <1>1 DEF Identity!StartLogin
  <2>2. [kind |-> kind, at |-> "sent", pair |-> Identity!NoPair] \in UserType
    BY PairsTyped DEF UserType
  <2>3. Touches(user, user', UserType)
    BY <2>1, <2>2, RowTouched
  <2> QED
    BY <1>1, <2>3, Unmoved DEF Identity!StartLogin
<1>2. CASE Identity!LoginAnswered(c)
  <2>1. Touches(user, user', UserType)
    BY <1>2, UserMoves DEF Identity!LoginAnswered
  <2>2. Touches(store, store', StoreType)
    BY <1>2, RowsOfClient, StoreWritten DEF Identity!LoginAnswered
  <2> QED
    BY <1>2, <2>1, <2>2, Unmoved DEF Identity!LoginAnswered
<1>3. CASE Identity!LoginDone(c)
  <2>1. Touches(user, user', UserType)
    BY <1>3, PairsTyped, RowTouched DEF Identity!LoginDone
  <2>2. Touches(store, store', StoreType)
    BY <1>3, RowsOfClient, StoreWritten DEF Identity!LoginDone
  <2>3. Touches(ui, ui', Uis)
    BY <1>3, RowTouched DEF Identity!LoginDone
  <2> QED
    BY <1>3, <2>1, <2>2, <2>3, Unmoved DEF Identity!LoginDone
<1>4. CASE Identity!StartLogout(c)
  <2> PICK row : row = [kind |-> "logout", pair |-> store[c].access,
                        at |-> IF store[c].access = Identity!NoPair THEN "clear" ELSE "sent"]
    OBVIOUS
  <2>1. row \in UserType
    BY RowsOfClient DEF UserType
  <2>2. user' = [user EXCEPT ![c] = row]
    BY <1>4 DEF Identity!StartLogout
  <2>3. Touches(user, user', UserType)
    BY <2>1, <2>2, RowTouched
  <2> QED
    BY <1>4, <2>3, Unmoved DEF Identity!StartLogout
<1>5. CASE Identity!LogoutClears(c)
  <2>1. Touches(user, user', UserType)
    BY <1>5, UserMoves DEF Identity!LogoutClears
  <2>2. Touches(store, store', StoreType)
    BY <1>5, PairsTyped, StoreWritten DEF Identity!LogoutClears
  <2> QED
    BY <1>5, <2>1, <2>2, Unmoved DEF Identity!LogoutClears
<1>6. CASE Identity!LogoutDone(c)
  <2>1. Touches(user, user', UserType)
    BY <1>6, PairsTyped, RowTouched DEF Identity!LogoutDone
  <2>2. Touches(store, store', StoreType)
    BY <1>6, PairsTyped, StoreWritten DEF Identity!LogoutDone
  <2>3. Touches(ui, ui', Uis)
    BY <1>6, RowTouched DEF Identity!LogoutDone
  <2> QED
    BY <1>6, <2>1, <2>2, <2>3, Unmoved DEF Identity!LogoutDone
<1>7. CASE Identity!RefreshAnswered(c)
  <2>1. Touches(refresh, refresh', RefreshType)
    BY <1>7, RefreshMoves DEF Identity!RefreshAnswered
  <2>2. Touches(store, store', StoreType)
    BY <1>7, RowsOfClient, StoreWritten DEF Identity!RefreshAnswered
  <2> QED
    BY <1>7, <2>1, <2>2, Unmoved DEF Identity!RefreshAnswered
<1>8. CASE Identity!RefreshDone(c) \/ Identity!RefreshGivenUp(c)
  <2>1. Touches(refresh, refresh', RefreshType)
    BY <1>8, PairsTyped, RowTouched DEF Identity!RefreshDone, Identity!RefreshGivenUp
  <2>2. Touches(store, store', StoreType)
    BY <1>8, RowsOfClient, PairsTyped, StoreWritten
       DEF Identity!RefreshDone, Identity!RefreshGivenUp
  <2>3. Touches(ui, ui', Uis)
    <3> PICK old : old = ui[c]
      OBVIOUS
    <3>1. old \in Uis
      BY DEF ClientsTyped
    <3>2. \/ ui' = [ui EXCEPT ![c] = IF old = "starting" THEN "in" ELSE old]
          \/ ui' = [ui EXCEPT ![c] = IF old = "starting" THEN "out" ELSE old]
      BY <1>8 DEF Identity!RefreshDone, Identity!RefreshGivenUp
    <3> QED
      BY <3>1, <3>2, RowTouched
  <2>4. Touches(calls, calls', [Slots -> CallType])
    BY <1>8, ReleasedTyped DEF Identity!RefreshDone, Identity!RefreshGivenUp
  <2> QED
    BY <1>8, <2>1, <2>2, <2>3, <2>4, Unmoved DEF Identity!RefreshDone, Identity!RefreshGivenUp
<1>9. CASE Identity!RefreshFailed(c)
  <2>1. Touches(refresh, refresh', RefreshType)
    BY <1>9, RefreshMoves DEF Identity!RefreshFailed
  <2>2. Touches(store, store', StoreType)
    BY <1>9, PairsTyped, StoreWritten DEF Identity!RefreshFailed
  <2> QED
    BY <1>9, <2>1, <2>2, Unmoved DEF Identity!RefreshFailed
<1>10. ASSUME NEW r \in Slots, Identity!Send(c, r) \/ Identity!ServeCall(c, r)
       PROVE  ClientsTouched /\ UNCHANGED <<admin, epoch, sessions>>
  <2>1. \E call \in CallType : calls' = [calls EXCEPT ![c][r] = call]
    <3>1. CASE Identity!Send(c, r)
      <4>1. [at |-> "sent", failed |-> store[c].access] \in CallType
        BY RowsOfClient DEF CallType
      <4> QED
        BY <3>1, <4>1 DEF Identity!Send
    <3>2. CASE Identity!ServeCall(c, r)
      <4>1. [calls[c][r] EXCEPT !.at = "refused"] \in CallType
        BY RowsOfClient DEF CallType
      <4>2. \/ calls' = [calls EXCEPT ![c][r] = Identity!NoCall]
            \/ calls' = [calls EXCEPT ![c][r] = [calls[c][r] EXCEPT !.at = "refused"]]
        BY <3>2 DEF Identity!ServeCall
      <4> QED
        BY <4>1, <4>2, PairsTyped
    <3> QED
      BY <1>10, <3>1, <3>2
  <2>2. Touches(calls, calls', [Slots -> CallType])
    BY <2>1, CallMoves
  <2> QED
    BY <1>10, <2>2, Unmoved DEF Identity!Send, Identity!ServeCall
<1>11. ASSUME NEW r \in Slots, Identity!CallRefused(c, r)
       PROVE  ClientsTouched /\ UNCHANGED <<admin, epoch, sessions>>
  <2>1. \E call \in CallType : calls' = [calls EXCEPT ![c][r] = call]
    <3>1. [calls[c][r] EXCEPT !.at = "waiting"] \in CallType
      BY RowsOfClient DEF CallType
    <3>2. \/ calls' = [calls EXCEPT ![c][r] = Identity!NoCall]
          \/ calls' = [calls EXCEPT ![c][r] = [calls[c][r] EXCEPT !.at = "waiting"]]
      BY <1>11 DEF Identity!CallRefused
    <3> QED
      BY <3>1, <3>2, PairsTyped
  <2>2. Touches(calls, calls', [Slots -> CallType])
    BY <2>1, CallMoves
  <2>3. Touches(refresh, refresh', RefreshType)
    <3>1. refresh' = refresh \/ refresh' = Identity!Started(c)
      BY <1>11 DEF Identity!CallRefused, Identity!JoinRefresh
    <3> QED
      BY <3>1, StartedTyped, Unmoved
  <2> QED
    BY <1>11, <2>2, <2>3, Unmoved DEF Identity!CallRefused
<1> QED
  BY <1>1, <1>2, <1>3, <1>4, <1>5, <1>6, <1>7, <1>8, <1>9, <1>10, <1>11 DEF Identity!ClientStep

LEMMA LossTypes ==
  ASSUME ClientsTyped, NEW c \in Clients,
         Identity!RefreshLost(c) \/ Identity!UserLost(c) \/ Identity!Restart(c)
  PROVE  ClientsTouched /\ UNCHANGED <<admin, epoch, sessions>>
<1> USE DEF ClientsTouched, Identity!server
<1> HIDE DEF Identity!NoPair, Identity!NoUser, Identity!NoRefresh, Identity!NoCall
<1>0. Touches(losses, losses', 0 .. MaxLosses)
  BY LossTouches DEF Identity!RefreshLost, Identity!UserLost, Identity!Restart
<1>1. CASE Identity!RefreshLost(c)
  <2>1. Touches(refresh, refresh', RefreshType)
    BY <1>1, RefreshMoves DEF Identity!RefreshLost
  <2> QED
    BY <1>0, <1>1, <2>1, Unmoved DEF Identity!RefreshLost
<1>2. CASE Identity!UserLost(c)
  <2>1. [user[c] EXCEPT !.at = "clear"] \in UserType
    BY RowsOfClient DEF UserType
  <2>2. \/ user' = [user EXCEPT ![c] = [user[c] EXCEPT !.at = "clear"]]
        \/ user' = [user EXCEPT ![c] = Identity!NoUser]
    BY <1>2 DEF Identity!UserLost
  <2>3. ASSUME NEW row \in UserType, user' = [user EXCEPT ![c] = row]
        PROVE  Touches(user, user', UserType)
    BY <2>3, RowTouched
  <2>4. Touches(user, user', UserType)
    BY <2>1, <2>2, <2>3, PairsTyped
  <2> QED
    BY <1>0, <1>2, <2>4, Unmoved DEF Identity!UserLost
<1>3. CASE Identity!Restart(c)
  <2>1. Touches(store, store', StoreType)
    BY <1>3, PairsTyped, StoreWritten DEF Identity!Restart
  <2>2. Touches(user, user', UserType)
    BY <1>3, PairsTyped, RowTouched DEF Identity!Restart
  <2> PICK idle : idle = [r \in Slots |-> Identity!NoCall]
    OBVIOUS
  <2>3. idle \in [Slots -> CallType] /\ calls' = [calls EXCEPT ![c] = idle]
    BY <1>3, PairsTyped DEF Identity!Restart
  <2>4. Touches(calls, calls', [Slots -> CallType])
    BY <2>3, RowTouched
  <2>5. Touches(ui, ui', {"starting", "in", "out"})
    <3>1. ui' = [ui EXCEPT ![c] = "out"] \/ ui' = [ui EXCEPT ![c] = "starting"]
      BY <1>3 DEF Identity!Restart
    <3>2. /\ Touches(ui, [ui EXCEPT ![c] = "out"], {"starting", "in", "out"})
          /\ Touches(ui, [ui EXCEPT ![c] = "starting"], {"starting", "in", "out"})
      BY RowTouched
    <3> QED
      BY <3>1, <3>2
  <2>6. Touches(refresh, refresh', RefreshType)
    <3>1. refresh' = [refresh EXCEPT ![c] = Identity!NoRefresh] \/ refresh' = Identity!Started(c)
      BY <1>3 DEF Identity!Restart
    <3>2. CASE refresh' = [refresh EXCEPT ![c] = Identity!NoRefresh]
      BY <3>2, PairsTyped, RowTouched
    <3>3. CASE refresh' = Identity!Started(c)
      BY <3>3, StartedTyped
    <3> QED
      BY <3>1, <3>2, <3>3
  <2> QED
    BY <1>0, <1>3, <2>1, <2>2, <2>4, <2>5, <2>6 DEF Identity!Restart
<1> QED
  BY <1>1, <1>2, <1>3

\* The steps of the server.
LEMMA RowRevoked ==
  ASSUME ServerTyped, NEW s, NEW why \in {"no", "login", "logout", "reuse"}
  PROVE  /\ Identity!Revoked(sessions, s, why) \in Seq(SessionType)
         /\ Len(Identity!Revoked(sessions, s, why)) = Len(sessions)
<1> PICK new : new = Identity!Revoked(sessions, s, why)
  OBVIOUS
<1>1. DOMAIN new = DOMAIN sessions /\ DOMAIN sessions = 1 .. Len(sessions)
  BY DEF Identity!Revoked, ServerTyped
<1>2. \A i \in DOMAIN sessions : new[i] \in SessionType
  <2> TAKE i \in DOMAIN sessions
  <2>1. sessions[i] \in SessionType
    BY DEF ServerTyped
  <2>2. new[i] = sessions[i] \/ new[i] = [sessions[i] EXCEPT !.revoked = why]
    BY DEF Identity!Revoked
  <2> QED
    BY <2>1, <2>2 DEF SessionType
<1>3. new = [i \in 1 .. Len(sessions) |-> new[i]]
  BY <1>1 DEF Identity!Revoked
<1> QED
  BY <1>1, <1>2, <1>3 DEF ServerTyped

LEMMA CreatedTyped ==
  ASSUME ServerTyped, NEW c \in Clients
  PROVE  /\ Identity!Created(c) \in Seq(SessionType)
         /\ Len(Identity!Created(c)) = Len(sessions) + 1
<1> PICK old : old = [s \in DOMAIN sessions |->
           IF sessions[s].client = c /\ sessions[s].revoked = "no"
           THEN [sessions[s] EXCEPT !.revoked = "login"] ELSE sessions[s]]
  OBVIOUS
<1> PICK row : row = [client |-> c, token |-> 1, revoked |-> "no"]
  OBVIOUS
<1>1. row \in SessionType
  BY DEF SessionType
<1>2. \A s \in DOMAIN sessions : old[s] \in SessionType
  <2> TAKE s \in DOMAIN sessions
  <2>1. sessions[s] \in SessionType
    BY DEF ServerTyped
  <2>2. [sessions[s] EXCEPT !.revoked = "login"] \in SessionType
    BY <2>1 DEF SessionType
  <2> QED
    BY <2>1, <2>2
<1>3. old \in Seq(SessionType) /\ Len(old) = Len(sessions)
  <2> PICK n \in Nat : n = Len(sessions) /\ DOMAIN sessions = 1 .. n
    BY DEF ServerTyped
  <2>1. DOMAIN old = 1 .. n /\ \A s \in 1 .. n : old[s] \in SessionType
    BY <1>2
  <2>2. old = [s \in 1 .. n |-> old[s]]
    BY <2>1
  <2> QED
    BY <2>1, <2>2
<1>4. Identity!Created(c) = Append(old, row)
  BY DEF Identity!Created
<1> QED
  BY <1>1, <1>3, <1>4 DEF ServerTyped

LEMMA ServerTypes ==
  ASSUME ServerTyped, ClientsTyped, NEW c \in Clients, Identity!ServerStep(c)
  PROVE  ServerTyped' /\ ClientsTouched
<1> USE DEF ClientsTouched, Identity!server
<1> HIDE DEF Identity!NoPair, Identity!NoUser, Identity!NoRefresh, Identity!NoCall
<1>0. MaxSessions \in Nat /\ epoch \in Nat /\ Len(sessions) \in Nat
  BY ServicesAssumption DEF ServerTyped
<1>1. CASE Identity!ServeCheck(c)
  <2> PICK row : row = [user[c] EXCEPT !.at = "checked", !.pair.epoch = epoch]
    OBVIOUS
  <2>1. row \in UserType
    <3>1. [user[c].pair EXCEPT !.epoch = epoch] \in Identity!Pair
      BY <1>0, RowsOfClient DEF Identity!Pair
    <3> QED
      BY <3>1, RowsOfClient DEF UserType
  <2>2. user' = [user EXCEPT ![c] = row]
    BY <1>1 DEF Identity!ServeCheck, ClientsTyped
  <2>3. Touches(user, user', UserType)
    BY <2>1, <2>2, RowTouched
  <2> QED
    BY <1>1, <2>3, Unmoved DEF Identity!ServeCheck, ServerTyped
<1>2. CASE Identity!ServeLogin(c)
  <2> PICK row : row = [user[c] EXCEPT !.at = "answered",
                          !.pair.session = Len(sessions) + 1, !.pair.token = 1]
    OBVIOUS
  <2>1. row \in UserType
    <3>1. Len(sessions) + 1 \in 0 .. MaxSessions
      BY <1>0, <1>2 DEF Identity!ServeLogin
    <3>2. [user[c].pair EXCEPT !.session = Len(sessions) + 1, !.token = 1] \in Identity!Pair
      BY <3>1, RowsOfClient DEF Identity!Pair
    <3> QED
      BY <3>2, RowsOfClient DEF UserType
  <2>2. user' = [user EXCEPT ![c] = row]
    BY <1>2 DEF Identity!ServeLogin, ClientsTyped
  <2>3. Touches(user, user', UserType)
    BY <2>1, <2>2, RowTouched
  <2>4. ServerTyped'
    BY <1>0, <1>2, CreatedTyped DEF Identity!ServeLogin, ServerTyped
  <2> QED
    BY <1>2, <2>3, <2>4, Unmoved DEF Identity!ServeLogin
<1>3. CASE Identity!ServeBootstrap(c)
  <2>1. CASE admin
    <3>1. Touches(user, user', UserType)
      BY <1>3, <2>1, PairsTyped, RowTouched DEF Identity!ServeBootstrap
    <3> QED
      BY <1>3, <2>1, <3>1, Unmoved DEF Identity!ServeBootstrap, ServerTyped
  <2>2. CASE ~admin
    <3> PICK row : row = [user[c] EXCEPT !.at = "answered",
                  !.pair = [session |-> Len(sessions) + 1, token |-> 1, epoch |-> epoch]]
      OBVIOUS
    <3>1. row \in UserType
      <4>1. Len(sessions) + 1 \in 0 .. MaxSessions
        BY <1>0, <1>3, <2>2 DEF Identity!ServeBootstrap
      <4>2. [session |-> Len(sessions) + 1, token |-> 1, epoch |-> epoch] \in Identity!Pair
        BY <1>0, <4>1 DEF Identity!Pair
      <4> QED
        BY <4>2, RowsOfClient DEF UserType
    <3>2. user' = [user EXCEPT ![c] = row]
      BY <1>3, <2>2 DEF Identity!ServeBootstrap, ClientsTyped
    <3>3. Touches(user, user', UserType)
      BY <3>1, <3>2, RowTouched
    <3>4. ServerTyped'
      BY <1>0, <1>3, <2>2, CreatedTyped DEF Identity!ServeBootstrap, ServerTyped
    <3> QED
      BY <1>3, <2>2, <3>3, <3>4, Unmoved DEF Identity!ServeBootstrap
  <2> QED
    BY <2>1, <2>2
<1>4. CASE Identity!ServeLogout(c)
  <2>1. Touches(user, user', UserType)
    BY <1>4, UserMoves DEF Identity!ServeLogout
  <2>2. ServerTyped'
    BY <1>0, <1>4, RowRevoked DEF Identity!ServeLogout, ServerTyped
  <2> QED
    BY <1>4, <2>1, <2>2, Unmoved DEF Identity!ServeLogout
<1>5. CASE Identity!ServeRefresh(c)
  <2> PICK mine : mine = refresh[c].pair
    OBVIOUS
  <2> PICK row : row = sessions[mine.session]
    OBVIOUS
  <2>0. mine \in Identity!Pair /\ mine.session \in 0 .. MaxSessions /\ mine.token \in Nat
    BY RowsOfClient DEF Identity!Pair
  <2>1. CASE refresh' = [refresh EXCEPT ![c].at = "failed"]
             /\ (sessions' = sessions \/ sessions' = Identity!Revoked(sessions, mine.session, "reuse"))
    <3>1. Touches(refresh, refresh', RefreshType)
      BY <2>1, RefreshMoves
    <3>2. ServerTyped'
      BY <1>5, <2>1, RowRevoked DEF Identity!ServeRefresh, ServerTyped
    <3> QED
      BY <1>5, <3>1, <3>2, Unmoved DEF Identity!ServeRefresh
  <2>2. CASE /\ row.token = mine.token
             /\ sessions' = [sessions EXCEPT ![mine.session].token = @ + 1]
             /\ refresh' = [refresh EXCEPT ![c] =
                  [at |-> "answered", pair |-> [session |-> mine.session,
                                                token |-> mine.token + 1, epoch |-> epoch]]]
    <3> PICK pair : pair = [session |-> mine.session, token |-> mine.token + 1, epoch |-> epoch]
      OBVIOUS
    <3>1. pair \in Identity!Pair
      BY <1>0, <2>0 DEF Identity!Pair
    <3>2. [at |-> "answered", pair |-> pair] \in RefreshType
      BY <3>1 DEF RefreshType
    <3>3. Touches(refresh, refresh', RefreshType)
      BY <2>2, <3>2, RowTouched
    <3>4. sessions' \in Seq(SessionType) /\ Len(sessions') = Len(sessions)
      <4> PICK new : new = sessions'
        OBVIOUS
      <4> PICK k : k = mine.session
        OBVIOUS
      <4>1. new = [sessions EXCEPT ![k] = [sessions[k] EXCEPT !.token = sessions[k].token + 1]]
        BY <2>2
      <4>2. \A i \in 1 .. Len(sessions) : new[i] \in SessionType
        <5> TAKE i \in 1 .. Len(sessions)
        <5>0. sessions[i] \in SessionType
          BY DEF ServerTyped
        <5>1. sessions[i] \in SessionType /\ sessions[i].token + 1 \in Nat
          BY <5>0 DEF SessionType
        <5>2. [sessions[i] EXCEPT !.token = sessions[i].token + 1] \in SessionType
          BY <5>1 DEF SessionType
        <5>3. new[i] = sessions[i]
              \/ new[i] = [sessions[i] EXCEPT !.token = sessions[i].token + 1]
          BY <4>1 DEF ServerTyped
        <5> QED
          BY <5>1, <5>2, <5>3
      <4>3. new = [i \in 1 .. Len(sessions) |-> new[i]]
        <5> PICK up : up = [sessions[k] EXCEPT !.token = sessions[k].token + 1]
          OBVIOUS
        <5>1. new = [sessions EXCEPT ![k] = up]
          BY <4>1
        <5>2. sessions \in Seq(SessionType)
          BY DEF ServerTyped
        <5>3. DOMAIN new = 1 .. Len(sessions)
          <6>1. DOMAIN new = DOMAIN sessions
            BY <5>1
          <6>2. DOMAIN sessions = 1 .. Len(sessions)
            BY <5>2
          <6> QED
            BY <6>1, <6>2
        <5>4. new = [i \in DOMAIN new |-> new[i]]
          BY <5>1
        <5> QED
          BY <5>3, <5>4
      <4> QED
        BY <1>0, <4>2, <4>3
    <3>5. ServerTyped'
      BY <1>5, <3>4 DEF Identity!ServeRefresh, ServerTyped
    <3> QED
      BY <1>5, <3>3, <3>5, Unmoved DEF Identity!ServeRefresh
  <2> QED
    BY <1>5, <2>1, <2>2 DEF Identity!ServeRefresh
<1> QED
  BY <1>1, <1>2, <1>3, <1>4, <1>5 DEF Identity!ServerStep

IdentityTyped == ServerTyped /\ ClientsTyped

LEMMA IdentityTypesInit == Identity!Init => IdentityTyped
<1> SUFFICES ASSUME Identity!Init PROVE IdentityTyped
  OBVIOUS
<1> USE DEF Identity!Init
<1>0. MaxSessions \in Nat
  BY ServicesAssumption
<1>1. ServerTyped
  <2>1. admin \in BOOLEAN /\ epoch \in Nat
    OBVIOUS
  <2>2. sessions \in Seq(SessionType) /\ Len(sessions) <= MaxSessions
    <3>1. sessions = <<>>
      OBVIOUS
    <3> QED
      BY <1>0, <3>1
  <2> QED
    BY <2>1, <2>2 DEF ServerTyped
<1>2. [access |-> Identity!NoPair, refresh |-> Identity!NoPair] \in StoreType /\ 0 \in 0 .. MaxLosses
  BY PairsTyped, ServicesAssumption DEF StoreType
<1>3. ClientsTyped
  <2> HIDE DEF Identity!NoPair, Identity!NoUser, Identity!NoRefresh, Identity!NoCall
  <2> QED
    BY <1>2, PairsTyped DEF ClientsTyped
<1> QED
  BY <1>1, <1>3 DEF IdentityTyped

LEMMA IdentityTypesNext == IdentityTyped /\ [Identity!Next]_(Identity!vars) => IdentityTyped'
<1> SUFFICES ASSUME IdentityTyped, [Identity!Next]_(Identity!vars) PROVE IdentityTyped'
  OBVIOUS
<1> USE DEF IdentityTyped
<1>1. ASSUME NEW c \in Clients,
             Identity!ClientStep(c) \/ Identity!RefreshLost(c) \/ Identity!UserLost(c) \/ Identity!Restart(c)
      PROVE  IdentityTyped'
  <2>1. ClientsTouched /\ UNCHANGED <<admin, epoch, sessions>>
    BY <1>1, ClientTypes, LossTypes
  <2> QED
    BY <2>1, ClientsStayTyped DEF ServerTyped
<1>2. ASSUME NEW c \in Clients, Identity!ServerStep(c) PROVE IdentityTyped'
  BY <1>2, ServerTypes, ClientsStayTyped
<1>3. CASE UNCHANGED Identity!vars
  BY <1>3 DEF Identity!vars, Identity!server, ServerTyped, ClientsTyped
<1> QED
  BY <1>1, <1>2, <1>3 DEF Identity!Next

LEMMA IdentityTypesHold == IdentityTyped => Identity!IdentityTypeOK
  BY DEF IdentityTyped, ServerTyped, ClientsTyped, Identity!IdentityTypeOK, SessionType,
     StoreType, UserType, RefreshType, CallType
-----------------------------------------------------------------------------
(* The types of the playback.                                              *)

ProgressType == [version : 0 .. MaxVersion, position : Positions \union {0}, completed : BOOLEAN]

PlayTyped == /\ progress \in ProgressType /\ giveUps \in 0 .. MaxGiveUps
             /\ Playback!SessionsExist

LEMMA UpdateTyped ==
  ASSUME progress \in ProgressType, Playback!Update PROVE progress' \in ProgressType
<1>1. PICK position \in Positions :
        progress' = [version |-> progress.version + 1,
                     completed |-> Playback!Completed(position),
                     position |-> IF Playback!Completed(position) THEN 0 ELSE position]
  BY DEF Playback!Update
<1>2. Playback!Completed(position) \in BOOLEAN
  BY DEF Playback!Completed
<1> PICK done \in BOOLEAN : done = Playback!Completed(position)
  BY <1>2
<1>3. progress.version + 1 \in 0 .. MaxVersion
  BY ServicesAssumption DEF Playback!Update, ProgressType
<1>4. (IF done THEN 0 ELSE position) \in Positions \union {0}
  OBVIOUS
<1>5. progress' = [version |-> progress.version + 1, completed |-> done,
                   position |-> IF done THEN 0 ELSE position]
  BY <1>1
<1> QED
  BY <1>3, <1>4, <1>5 DEF ProgressType

\* Executing a request keeps the progress in its type, and no session goes away.
LEMMA ExecutedGrows ==
  ASSUME PlayInv, NEW req \in Asked, req.client \in Installations, NEW outcome, NEW version,
         Playback!Execute(req, outcome, version)
  PROVE  \A c \in Installations : Len(plays[c]) <= Len(plays'[c])
<1>1. \A c \in Installations : plays[c] \in Seq(PlayRow) /\ Len(plays[c]) \in Nat
  BY PlayRows
<1>2. CASE Playback!Created(req)
  <2> PICK row : row = [epoch |-> req.epoch, lease |-> "active"]
    OBVIOUS
  <2>1. row \in PlayRow
    BY DEF PlayRow, Asked
  <2> PICK own : own = Append(plays[req.client], row)
    OBVIOUS
  <2>2. Len(own) = Len(plays[req.client]) + 1
    BY <1>1, <2>1
  <2>3. plays' = [plays EXCEPT ![req.client] = own]
    BY <1>2 DEF Playback!Created
  <2>4. \A c \in Installations : plays'[c] = IF c = req.client THEN own ELSE plays[c]
    BY <2>3 DEF PlayInv, PlayTypes
  <2> PICK n : n = Len(plays[req.client])
    OBVIOUS
  <2>5. n \in Nat /\ Len(own) = n + 1
    BY <1>1, <2>2
  <2>6. ASSUME NEW c \in Installations PROVE Len(plays[c]) <= Len(plays'[c])
    <3>1. CASE c = req.client
      <4>1. plays'[c] = own /\ Len(plays[c]) = n
        BY <2>4, <3>1
      <4>2. Len(plays'[c]) = n + 1
        BY <2>5, <4>1
      <4> QED
        BY <2>5, <4>1, <4>2
    <3>2. CASE c # req.client
      BY <1>1, <2>4, <3>2
    <3> QED
      BY <3>1, <3>2
  <2> QED
    BY <2>6
<1>3. CASE Playback!OwnSession(req) /\ Playback!Beaten(req)
  <2> PICK own : own = plays[req.client]
    OBVIOUS
  <2> PICK row : row = [own[req.session] EXCEPT
                          !.lease = IF req.kind = "finish" THEN "ended" ELSE "active"]
    OBVIOUS
  <2> PICK new : new = [own EXCEPT ![req.session] = row]
    OBVIOUS
  <2>1. Len(new) = Len(own)
    <3>1. own \in Seq(PlayRow)
      BY <1>1
    <3>2. req.session \in 1 .. Len(own)
      BY <1>3, <3>1 DEF Playback!OwnSession
    <3>3. own[req.session] \in PlayRow
      BY <3>1, <3>2
    <3>4. row \in PlayRow
      BY <3>3 DEF PlayRow
    <3> QED
      BY <3>1, <3>2, <3>4
  <2>2. plays' = [plays EXCEPT ![req.client] = new]
    BY <1>3 DEF Playback!Beaten
  <2>3. \A c \in Installations : plays'[c] = IF c = req.client THEN new ELSE plays[c]
    BY <2>2 DEF PlayInv, PlayTypes
  <2> QED
    BY <1>1, <2>1, <2>3
<1>4. CASE UNCHANGED plays
  BY <1>1, <1>4
<1> QED
  BY <1>2, <1>3, <1>4 DEF Playback!Execute

LEMMA ExecutedProgress ==
  ASSUME progress \in ProgressType, NEW req, NEW outcome, NEW version,
         Playback!Execute(req, outcome, version)
  PROVE  progress' \in ProgressType
  BY UpdateTyped DEF Playback!Execute

\* Every step leaves the sessions there are, and the sessions a client and its
\* requests name are among them.
LEMMA NamesKept ==
  ASSUME PlayInv, Playback!SessionsExist, NEW c \in Installations,
         \A d \in Installations : Len(plays[d]) <= Len(plays'[d]),
         \A d \in Installations \ {c} : player'[d] = player[d] /\ request'[d] = request[d],
         player'[c].session \in {0, player[c].session, Len(plays[c])},
         request'[c].session \in {0, request[c].session, player[c].session},
         \A req \in late' : req \in late \/ (req = request[c] /\ request[c].at # "none"),
         \A d \in Installations : Len(plays'[d]) \in Nat
  PROVE  Playback!SessionsExist'
<1>0. \A d \in Installations : /\ Len(plays[d]) \in Nat /\ player[d].session \in Nat
                                /\ request[d].session \in Nat
  BY PlayRows DEF PlayerRow, Asked
<1>1. ASSUME NEW d \in Installations
      PROVE  player'[d].session <= Len(plays'[d]) /\ request'[d].session <= Len(plays'[d])
  <2>1. player[d].session <= Len(plays[d]) /\ request[d].session <= Len(plays[d])
    BY DEF Playback!SessionsExist
  <2>2. CASE d = c
    <3> PICK n \in Nat, m \in Nat : n = Len(plays[c]) /\ m = Len(plays'[c])
      BY <1>0
    <3>1. n <= m /\ player[c].session <= n /\ request[c].session <= n
      BY <2>1, <2>2
    <3>2. player'[c].session \in {0, player[c].session, n}
      OBVIOUS
    <3>3. player'[c].session <= m /\ request'[c].session <= m
      BY <1>0, <3>1, <3>2
    <3> QED
      BY <2>2, <3>3
  <2>3. CASE d # c
    BY <1>0, <2>1, <2>3
  <2> QED
    BY <2>2, <2>3
<1>2. ASSUME NEW req \in late'
      PROVE  req.client \in Installations /\ req.session <= Len(plays'[req.client])
  <2>1. req \in Asked /\ req.session \in Nat
    BY PlayRows DEF PlayInv, PlayTypes, Asked
  <2>2. req.client \in Installations /\ req.session <= Len(plays[req.client])
    <3>1. CASE req \in late
      BY <3>1 DEF Playback!SessionsExist
    <3>2. CASE req = request[c] /\ request[c].at # "none"
      BY <3>2, PlayRows DEF Playback!SessionsExist, PlayerInformed
    <3> QED
      BY <3>1, <3>2
  <2> QED
    BY <1>0, <2>1, <2>2
<1> QED
  BY <1>1, <1>2 DEF Playback!SessionsExist

LEMMA PlayTypedClient ==
  ASSUME PlayInv, PlayInv', PlayTyped, NEW c \in Installations,
         \/ Playback!Admit(c) \/ Playback!Serve(c) \/ Playback!Load(c) \/ Playback!Loaded(c)
         \/ Playback!LoadFails(c) \/ Playback!Answered(c) \/ Playback!GiveUp(c)
         \/ \E kind \in {"beat", "pause", "finish"} : Playback!Send(c, kind)
  PROVE  PlayTyped'
<1> USE DEF Playback!rows
<1>0. /\ player[c] \in PlayerRow /\ request[c] \in Asked /\ PlayerInformed(c)
      /\ player \in [Installations -> PlayerRow] /\ request \in [Installations -> Asked]
      /\ \A d \in Installations : Len(plays[d]) \in Nat /\ Len(plays'[d]) \in Nat
  <2>1. \A d \in Installations : plays'[d] \in Seq(PlayRow)
    BY DEF PlayInv, PlayTypes
  <2>2. \A d \in Installations : Len(plays'[d]) \in Nat
    BY <2>1
  <2> QED
    BY <2>2, PlayRows DEF PlayInv, PlayTypes
<1> DEFINE
      Players == /\ player'[c].session \in {0, player[c].session, Len(plays[c])}
                 /\ \A d \in Installations \ {c} : player'[d] = player[d]
      Requests1 == /\ request'[c].session \in {0, request[c].session, player[c].session}
                   /\ \A d \in Installations \ {c} : request'[d] = request[d]
      Lates == \A req \in late' : req \in late \/ (req = request[c] /\ request[c].at # "none")
      Grows == \A d \in Installations : Len(plays[d]) <= Len(plays'[d])
<1>1. ASSUME Players, Requests1, Lates, Grows, progress' \in ProgressType,
             giveUps' \in 0 .. MaxGiveUps
      PROVE  PlayTyped'
  <2>1. Playback!SessionsExist'
    BY <1>0, <1>1, NamesKept DEF PlayTyped
  <2> QED
    BY <1>1, <2>1 DEF PlayTyped
<1>2. ASSUME NEW at, NEW version, NEW epoch1,
             request' = [request EXCEPT ![c] =
               [request[c] EXCEPT !.at = at, !.version = version, !.epoch = epoch1]]
      PROVE  Requests1
  BY <1>0, <1>2 DEF Asked
<1>3. Playback!Closed.session = 0 /\ Playback!NoRequest.session = 0
  BY DEF Playback!Closed, Playback!NoRequest
<1>4. CASE Playback!Admit(c)
  BY <1>0, <1>1, <1>4 DEF Playback!Admit, PlayTyped, Asked
<1>5. CASE Playback!Serve(c)
  <2>1. PICK outcome \in {"accepted", "conflict", "error"}, version \in 0 .. MaxVersion :
          /\ Playback!Execute(request[c], outcome, version)
          /\ request' = [request EXCEPT ![c].at = outcome, ![c].version = version]
    BY <1>5 DEF Playback!Serve
  <2>2. request[c].client \in Installations
    BY <1>0, <1>5 DEF Playback!Serve, PlayerInformed
  <2>3. Grows
    BY <1>0, <2>1, <2>2, ExecutedGrows
  <2>4. progress' \in ProgressType
    BY <2>1, ExecutedProgress DEF PlayTyped
  <2>5. Requests1
    BY <1>0, <2>1 DEF Asked
  <2>6. Players /\ Lates /\ giveUps' \in 0 .. MaxGiveUps
    BY <1>5 DEF Playback!Serve, PlayTyped
  <2> QED
    BY <1>1, <2>3, <2>4, <2>5, <2>6
<1>6. ASSUME NEW kind, Playback!Sent(c, kind) PROVE Requests1
  <2> PICK row : row = [Playback!NoRequest EXCEPT !.kind = kind, !.client = c,
                          !.session = player[c].session, !.at = "sent",
                          !.expected = player[c].expected]
    OBVIOUS
  <2>1. row.session = player[c].session
    BY DEF Playback!NoRequest
  <2>2. request' = [request EXCEPT ![c] = row]
    BY <1>6 DEF Playback!Sent
  <2> QED
    BY <1>0, <2>1, <2>2
<1>7. ASSUME NEW version, Playback!Attached(c, version) PROVE Players
  <2>1. PICK opened \in {Playback!Closed, [at |-> "playing", session |-> Len(plays[c]),
                                           expected |-> version, manifest |-> 0]} :
          player' = [player EXCEPT ![c] = opened]
    BY <1>7 DEF Playback!Attached
  <2>2. opened.session \in {0, Len(plays[c])}
    BY <1>3, <2>1
  <2> QED
    BY <1>0, <2>1, <2>2
<1>8. ASSUME request' = [request EXCEPT ![c] = Playback!NoRequest] PROVE Requests1
  BY <1>0, <1>3, <1>8
<1>9. ASSUME NEW row, row.session = player[c].session, player' = [player EXCEPT ![c] = row]
      PROVE  Players
  BY <1>0, <1>9
<1>10. CASE Playback!Load(c)
  <2>1. Requests1
    BY <1>6, <1>10 DEF Playback!Load
  <2>2. Players
    BY <1>0, <1>10 DEF Playback!Load, PlayerRow
  <2> QED
    BY <1>0, <1>1, <1>10, <2>1, <2>2 DEF Playback!Load, PlayTyped
<1>11. CASE Playback!Loaded(c)
  <2>1. Requests1
    BY <1>6, <1>8, <1>11 DEF Playback!Loaded
  <2>2. Players
    <3>1. CASE player[c].session = 0
      BY <1>7, <1>11, <3>1 DEF Playback!Loaded
    <3>2. CASE player[c].session # 0
      BY <1>0, <1>11, <3>2 DEF Playback!Loaded, PlayerRow
    <3> QED
      BY <3>1, <3>2
  <2> QED
    BY <1>0, <1>1, <1>11, <2>1, <2>2 DEF Playback!Loaded, PlayTyped
<1>12. CASE Playback!LoadFails(c)
  <2>1. Requests1
    BY <1>8, <1>12 DEF Playback!LoadFails
  <2>2. Players
    BY <1>0, <1>12 DEF Playback!LoadFails, PlayerRow
  <2> QED
    BY <1>0, <1>1, <1>12, <2>1, <2>2 DEF Playback!LoadFails, PlayTyped
<1>13. CASE Playback!Answered(c)
  <2>1. Requests1
    BY <1>8, <1>13 DEF Playback!Answered
  <2>2. Players
    <3>1. Playback!Applied(c)
      BY <1>13 DEF Playback!Answered
    <3>2. CASE player[c].at = "finishing"
      BY <1>7, <3>1, <3>2 DEF Playback!Applied
    <3>3. CASE player[c].at = "ended"
      <4>1. player' = [player EXCEPT ![c] = Playback!Closed]
        BY <3>1, <3>3 DEF Playback!Applied
      <4> QED
        BY <1>0, <1>3, <4>1
    <3>4. CASE player[c].at \notin {"finishing", "ended"}
      <4>1. PICK new : player' = [player EXCEPT ![c].expected = new]
        BY <3>1, <3>4 DEF Playback!Applied
      <4> QED
        BY <1>0, <4>1 DEF PlayerRow
    <3> QED
      BY <3>2, <3>3, <3>4
  <2> QED
    BY <1>0, <1>1, <1>13, <2>1, <2>2 DEF Playback!Answered, PlayTyped
<1>14. CASE Playback!GiveUp(c)
  <2>1. Requests1
    BY <1>0, <1>14 DEF Playback!GiveUp, Asked
  <2>2. Lates
    BY <1>14 DEF Playback!GiveUp
  <2>3. giveUps' \in 0 .. MaxGiveUps
    BY <1>14, ServicesAssumption DEF Playback!GiveUp, PlayTyped
  <2> QED
    BY <1>0, <1>1, <1>14, <2>1, <2>2, <2>3 DEF Playback!GiveUp, PlayTyped
<1>15. ASSUME NEW kind \in {"beat", "pause", "finish"}, Playback!Send(c, kind) PROVE PlayTyped'
  <2>1. Requests1
    BY <1>6, <1>15 DEF Playback!Send
  <2>2. Players
    BY <1>0, <1>15 DEF Playback!Send, PlayerRow
  <2> QED
    BY <1>0, <1>1, <1>15, <2>1, <2>2 DEF Playback!Send, PlayTyped
<1> QED
  BY <1>4, <1>5, <1>10, <1>11, <1>12, <1>13, <1>14, <1>15

LEMMA PlayTypedInit == Playback!Init => PlayTyped
<1> SUFFICES ASSUME Playback!Init PROVE PlayTyped
  OBVIOUS
<1> USE DEF Playback!Init
<1>1. 0 \in 0 .. MaxVersion /\ 0 \in 0 .. MaxGiveUps
  BY ServicesAssumption
<1>2. progress \in ProgressType
  BY <1>1 DEF ProgressType
<1>3. Playback!SessionsExist
  BY DEF Playback!SessionsExist, Playback!Closed, Playback!NoRequest
<1> QED
  BY <1>1, <1>2, <1>3 DEF PlayTyped

LEMMA PlayTypedNext == PlayInv /\ PlayTyped /\ [Playback!Next]_(Playback!vars) => PlayTyped'
<1> SUFFICES ASSUME PlayInv, PlayTyped, [Playback!Next]_(Playback!vars) PROVE PlayTyped'
  OBVIOUS
<1>0. PlayInv'
  BY PlayNext
<1> USE DEF Playback!rows
<1>1. CASE Playback!Logout \/ UNCHANGED Playback!vars
  BY <1>1 DEF Playback!Logout, Playback!vars, PlayTyped, Playback!SessionsExist
<1>2. ASSUME NEW req \in late, Playback!ServeLate(req) PROVE PlayTyped'
  <2>1. req \in Asked /\ req.client \in Installations
    BY DEF PlayInv, PlayTypes, Informed
  <2>2. PICK outcome, version : Playback!Execute(req, outcome, version)
    BY <1>2 DEF Playback!ServeLate
  <2>3. \A d \in Installations : Len(plays[d]) <= Len(plays'[d])
    BY <2>1, <2>2, ExecutedGrows
  <2>4. progress' \in ProgressType
    BY <2>2, ExecutedProgress DEF PlayTyped
  <2>5. \A d \in Installations : Len(plays[d]) \in Nat /\ Len(plays'[d]) \in Nat
    <3>1. \A d \in Installations : plays'[d] \in Seq(PlayRow)
      BY <1>0 DEF PlayInv, PlayTypes
    <3> QED
      BY <3>1, PlayRows
  <2>6. /\ \A d \in Installations : player[d].session \in Nat /\ request[d].session \in Nat
        /\ \A old \in late : old.session \in Nat
    BY PlayRows DEF PlayerRow, Asked, PlayInv, PlayTypes
  <2>7. Playback!SessionsExist'
    <3>1. UNCHANGED <<player, request>> /\ late' \subseteq late
      BY <1>2 DEF Playback!ServeLate
    <3> QED
      BY <2>3, <2>5, <2>6, <3>1 DEF Playback!SessionsExist, PlayTyped
  <2> QED
    BY <1>2, <2>4, <2>7 DEF Playback!ServeLate, PlayTyped
<1> QED
  BY <1>0, <1>1, <1>2, PlayTypedClient DEF Playback!Next

LEMMA PlayTypesHold == PlayInv /\ PlayTyped => Playback!PlaybackTypeOK
<1> SUFFICES ASSUME PlayInv, PlayTyped PROVE Playback!PlaybackTypeOK
  OBVIOUS
<1>1. Versions = 0 .. MaxVersion
  BY ServicesAssumption DEF Versions
<1> QED
  BY <1>1 DEF PlayInv, PlayTypes, PlayTyped, Playback!PlaybackTypeOK, Playback!PlayRequests,
     PlayRow, PlayerRow, Asked, ProgressType
-----------------------------------------------------------------------------
(* The types of the sources.                                               *)

\* The row of a source: a movie there is, as its status asks for.
RowFits(row, exist) ==
  /\ row.movie \in exist \union {None}
  /\ row.status \in Sources!Attached => row.movie # None
  /\ row.status \in {"absent", "pending"} => row.movie = None
  /\ row.magnet <=> row.status \in Sources!Attached \union {"pending"}

JobType == [movie : Numbers \union {None}, consumer : {"none", "offline", "resolver"}]

JobFits(j, pins) ==
  j = Sources!NoJob \/ (j.movie \in pins /\ j.consumer \in {"offline", "resolver"})

\* The worker works on a post with a job.
WorkerFits ==
  \/ worker = Sources!Idle
  \/ /\ worker \in [post : Posts, step : {"call", "reject", "reread", "fail"}]
     /\ cacheJobs[worker.post] # Sources!NoJob

SourcesTyped ==
  /\ movies \subseteq Numbers /\ pinned \subseteq movies
  /\ stopped \in Posts \union {None}
  /\ \A p \in Posts : RowFits(sources[p], movies)
  /\ \A p \in Posts : sources[p].status = "rejected" => p \in rejections
  /\ cacheJobs \in [Posts -> JobType] /\ \A p \in Posts : JobFits(cacheJobs[p], pinned)
  /\ WorkerFits

LEMMA SourceRows ==
  ASSUME SourcesInv, NEW p \in Posts
  PROVE  sources[p] \in Source /\ sources = [q \in Posts |-> sources[q]]
  BY DEF SourcesInv, RowsTyped

LEMMA NoneIsNoNumber == None \notin Numbers
  BY ServicesAssumption

LEMMA JobShape ==
  /\ Sources!NoJob \in JobType /\ Sources!NoJob.movie = None
  /\ \A m \in Numbers : [movie |-> m, consumer |-> "offline"] \in JobType
  /\ \A j \in JobType : [j EXCEPT !.consumer = "resolver"] \in JobType
                        /\ [j EXCEPT !.consumer = "resolver"].movie = j.movie
  BY DEF JobType, Sources!NoJob

\* Steps that change rows and movies only.
LEMMA RowsMove ==
  ASSUME SourcesTyped, movies' \subseteq Numbers, pinned' \subseteq movies', pinned \subseteq pinned',
         UNCHANGED <<rejections, cacheJobs, worker, stopped>>,
         \A p \in Posts : RowFits(sources'[p], movies'),
         \A p \in Posts : sources'[p].status = "rejected" => sources[p].status = "rejected"
  PROVE  SourcesTyped'
  BY DEF SourcesTyped, JobFits, WorkerFits

LEMMA ImportTyped ==
  ASSUME SourcesInv, SourcesTyped, Sources!ImportCommit PROVE SourcesTyped'
<1>0. PICK keys \in SUBSET Posts : importing \in [keys -> Numbers \union {None}]
  BY DEF SourcesInv, RowsTyped
<1> PICK numbers : numbers = Sources!Range(importing)
  OBVIOUS
<1>1. DOMAIN importing = keys /\ \A p \in keys : importing[p] \in numbers
  BY <1>0 DEF Sources!Range
<1>2. movies' = movies \union (numbers \ {None}) /\ numbers \ {None} \subseteq Numbers
  BY <1>0 DEF Sources!ImportCommit, Sources!Range
<1>3. ASSUME NEW p \in Posts
      PROVE  RowFits(sources'[p], movies') /\ (sources'[p].status = "rejected" => sources[p].status = "rejected")
  <2>0. RowFits(sources[p], movies) /\ movies \subseteq movies'
    BY <1>2 DEF SourcesTyped
  <2>1. CASE p \in keys
    <3> PICK number : number = importing[p]
      OBVIOUS
    <3>1. number \in numbers
      BY <1>1, <2>1
    <3>2. sources'[p] = [status |-> IF Sources!ManualNow(p) THEN "manual"
                                    ELSE IF number = None THEN "pending" ELSE "identified",
                         movie  |-> IF Sources!ManualNow(p) THEN sources[p].movie ELSE number,
                         magnet |-> TRUE]
      BY <1>1, <2>1 DEF Sources!ImportCommit, Sources!Imported
    <3>3. CASE Sources!ManualNow(p)
      BY <2>0, <3>2, <3>3 DEF Sources!ManualNow, RowFits, Sources!Attached
    <3>4. CASE ~Sources!ManualNow(p)
      BY <1>2, <3>1, <3>2, <3>4 DEF RowFits, Sources!Attached
    <3> QED
      BY <3>3, <3>4
  <2>2. CASE p \notin keys
    <3>1. sources'[p] = sources[p]
      BY <1>1, <2>2 DEF Sources!ImportCommit
    <3> QED
      BY <2>0, <3>1 DEF RowFits
  <2> QED
    BY <2>1, <2>2
<1>4. pinned' = pinned /\ UNCHANGED <<rejections, cacheJobs, worker, stopped>>
  BY DEF Sources!ImportCommit
<1> QED
  BY <1>2, <1>3, <1>4, RowsMove DEF SourcesTyped

LEMMA AdministratorTyped ==
  ASSUME SourcesInv, SourcesTyped, NEW p \in Posts, NEW m \in Numbers,
         \/ Sources!Identify(p, m) \/ Sources!Split(p, m)
         \/ \E target \in Numbers : Sources!Merge(target, m)
         \/ Sources!Seed(m)
  PROVE  SourcesTyped'
<1>0. /\ m # None /\ movies \subseteq Numbers /\ pinned \subseteq movies
      /\ \A q \in Posts : sources[q] \in Source /\ RowFits(sources[q], movies)
  BY NoneIsNoNumber, SourceRows DEF SourcesTyped
<1>1. CASE Sources!Identify(p, m)
  <2> PICK row : row = [sources[p] EXCEPT !.movie = m, !.status = "manual"]
    OBVIOUS
  <2>1. /\ row.movie = m /\ row.status = "manual" /\ row.magnet = sources[p].magnet
        /\ sources[p].status = "pending"
    BY <1>0, <1>1 DEF Sources!Identify, Source
  <2>2. sources' = [sources EXCEPT ![p] = row]
    BY <1>0, <1>1 DEF Sources!Identify, Source
  <2>3. \A q \in Posts : sources'[q] = IF q = p THEN row ELSE sources[q]
    BY <2>2, SourceRows
  <2>4. RowFits(row, movies)
    BY <1>0, <1>1, <2>1 DEF Sources!Identify, RowFits, Sources!Attached
  <2>5. UNCHANGED <<movies, pinned, rejections, cacheJobs, worker, stopped>>
    BY <1>1 DEF Sources!Identify
  <2>6. \A q \in Posts : RowFits(sources'[q], movies')
    BY <1>0, <2>3, <2>4, <2>5
  <2>7. \A q \in Posts : sources'[q].status = "rejected" => sources[q].status = "rejected"
    BY <2>1, <2>3
  <2> QED
    BY <1>0, <2>5, <2>6, <2>7, RowsMove
<1>2. CASE Sources!Split(p, m)
  <2> PICK row : row = [sources[p] EXCEPT !.movie = m]
    OBVIOUS
  <2>1. /\ row.movie = m /\ row.status = sources[p].status /\ row.magnet = sources[p].magnet
        /\ sources[p].movie # None
    BY <1>0, <1>2 DEF Sources!Split, Source
  <2>2. \A q \in Posts : sources'[q] = IF q = p THEN row ELSE sources[q]
    BY <1>2, SourceRows DEF Sources!Split
  <2>3. movies' = movies \union {m} /\ UNCHANGED <<pinned, rejections, cacheJobs, worker, stopped>>
    BY <1>2 DEF Sources!Split
  <2>4. RowFits(row, movies')
    BY <1>0, <2>1, <2>3 DEF RowFits
  <2>5. \A q \in Posts : RowFits(sources[q], movies')
    BY <1>0, <2>3 DEF RowFits
  <2>6. \A q \in Posts : RowFits(sources'[q], movies')
    BY <2>2, <2>4, <2>5
  <2>7. \A q \in Posts : sources'[q].status = "rejected" => sources[q].status = "rejected"
    BY <2>1, <2>2
  <2> QED
    BY <1>0, <2>3, <2>6, <2>7, RowsMove
<1>3. ASSUME NEW target \in Numbers, Sources!Merge(target, m) PROVE SourcesTyped'
  <2>1. /\ movies' = movies \ {m} /\ target \in movies' /\ target # None
        /\ pinned \subseteq movies' /\ UNCHANGED <<pinned, rejections, cacheJobs, worker, stopped>>
    BY <1>0, <1>3, NoneIsNoNumber DEF Sources!Merge
  <2>2. ASSUME NEW q \in Posts
        PROVE  RowFits(sources'[q], movies') /\ (sources'[q].status = "rejected" => sources[q].status = "rejected")
    <3>1. CASE sources[q].movie = m
      <4>1. sources'[q] = [sources[q] EXCEPT !.movie = target]
        BY <1>3, <3>1 DEF Sources!Merge
      <4>2. /\ sources'[q].movie = target /\ sources'[q].status = sources[q].status
            /\ sources'[q].magnet = sources[q].magnet
        BY <1>0, <4>1 DEF Source
      <4> QED
        BY <1>0, <2>1, <3>1, <4>2 DEF RowFits
    <3>2. CASE sources[q].movie # m
      <4>1. sources'[q] = sources[q]
        BY <1>3, <3>2 DEF Sources!Merge
      <4> QED
        BY <1>0, <2>1, <3>2, <4>1 DEF RowFits
    <3> QED
      BY <3>1, <3>2
  <2> QED
    BY <1>0, <2>1, <2>2, RowsMove
<1>4. CASE Sources!Seed(m)
  <2>1. /\ movies' = movies /\ pinned' = pinned \union {m} /\ m \in movies /\ sources' = sources
        /\ UNCHANGED <<rejections, cacheJobs, worker, stopped>>
    BY <1>4 DEF Sources!Seed
  <2> QED
    BY <1>0, <2>1, RowsMove
<1> QED
  BY <1>1, <1>2, <1>3, <1>4

\* Steps that change jobs and the worker, and no row.
LEMMA JobsMove ==
  ASSUME SourcesTyped, UNCHANGED <<movies, sources, rejections>>,
         pinned' \subseteq movies, pinned \subseteq pinned', stopped' \in Posts \union {None},
         cacheJobs' \in [Posts -> JobType], \A p \in Posts : JobFits(cacheJobs'[p], pinned'),
         WorkerFits'
  PROVE  SourcesTyped'
  BY DEF SourcesTyped

LEMMA PlayTypedStep ==
  ASSUME SourcesInv, SourcesTyped, NEW p \in Posts, NEW m \in Numbers, Sources!Play(p, m)
  PROVE  SourcesTyped'
<1> PICK row : row = [movie |-> m, consumer |-> "offline"]
  OBVIOUS
<1>1. /\ row \in JobType /\ row.movie = m /\ row.consumer = "offline" /\ row # Sources!NoJob
  BY JobShape DEF Sources!NoJob
<1>2. m \in movies
  BY NoneIsNoNumber DEF Sources!Play, Sources!Playable, SourcesTyped, RowFits
<1>3. cacheJobs' = [cacheJobs EXCEPT ![p] = row] /\ pinned' = pinned \union {m}
  BY DEF Sources!Play
<1>4. \A q \in Posts : cacheJobs'[q] = IF q = p THEN row ELSE cacheJobs[q]
  BY <1>3 DEF SourcesTyped
<1>5. \A q \in Posts : JobFits(cacheJobs'[q], pinned')
  BY <1>1, <1>3, <1>4 DEF JobFits, SourcesTyped
<1>6. WorkerFits'
  BY <1>1, <1>4 DEF WorkerFits, Sources!Play, SourcesTyped
<1>7. cacheJobs' \in [Posts -> JobType]
  BY <1>1, <1>3 DEF SourcesTyped
<1> QED
  BY <1>2, <1>3, <1>5, <1>6, <1>7, JobsMove DEF Sources!Play, SourcesTyped

LEMMA ConsumerTyped ==
  ASSUME SourcesInv, SourcesTyped, NEW p \in Posts,
         \/ Sources!Begin(p) \/ Sources!Call(p) \/ Sources!Reject(p) \/ Sources!Reread(p)
         \/ Sources!Fail(p)
  PROVE  SourcesTyped'
<1>0. /\ cacheJobs \in [Posts -> JobType] /\ cacheJobs[p] \in JobType
      /\ \A q \in Posts : JobFits(cacheJobs[q], pinned)
      /\ pinned \subseteq movies /\ stopped \in Posts \union {None} /\ WorkerFits
      /\ Sources!NoJob \in JobType
  BY JobShape DEF SourcesTyped
<1>1. ASSUME UNCHANGED <<movies, sources, rejections, pinned>>, stopped' \in Posts \union {None},
             worker' = Sources!Idle, cacheJobs' = [cacheJobs EXCEPT ![p] = Sources!NoJob]
      PROVE  SourcesTyped'
  <2>1. \A q \in Posts : cacheJobs'[q] = cacheJobs[q] \/ cacheJobs'[q] = Sources!NoJob
    BY <1>0, <1>1
  <2>2. \A q \in Posts : JobFits(cacheJobs'[q], pinned')
    BY <1>0, <1>1, <2>1 DEF JobFits
  <2>3. cacheJobs' \in [Posts -> JobType]
    BY <1>0, <1>1
  <2>4. WorkerFits'
    BY <1>1 DEF WorkerFits
  <2> QED
    BY <1>0, <1>1, <2>2, <2>3, <2>4, JobsMove
<1>2. ASSUME UNCHANGED <<movies, sources, rejections, pinned, cacheJobs>>,
             stopped' \in Posts \union {None}, WorkerFits'
      PROVE  SourcesTyped'
  BY <1>0, <1>2, JobsMove
<1>3. ASSUME Sources!Unreadable(p) PROVE SourcesTyped'
  <2>1. CASE cacheJobs[p].consumer = "offline"
    BY <1>0, <1>1, <1>3, <2>1 DEF Sources!Unreadable, Sources!rows
  <2>2. CASE cacheJobs[p].consumer # "offline"
    <3>1. worker' = Sources!Idle /\ stopped' = p
      BY <1>3, <2>2 DEF Sources!Unreadable
    <3>2. WorkerFits'
      BY <3>1 DEF WorkerFits
    <3> QED
      BY <1>2, <1>3, <2>2, <3>1, <3>2 DEF Sources!Unreadable, Sources!rows
  <2> QED
    BY <2>1, <2>2
<1>4. ASSUME NEW step \in {"call", "reject", "reread", "fail"}, Sources!Go(p, step),
             cacheJobs' = cacheJobs, cacheJobs[p] # Sources!NoJob
      PROVE  WorkerFits'
  BY <1>4 DEF Sources!Go, WorkerFits
<1>5. ASSUME NEW step, Sources!At(p, step), step # "idle" PROVE cacheJobs[p] # Sources!NoJob
  BY <1>0, <1>5 DEF Sources!At, WorkerFits, Sources!Idle
<1>6. CASE Sources!Begin(p)
  <2>1. CASE ~Sources!Unreadable(p)
    <3>1. /\ WorkerFits' /\ cacheJobs' = cacheJobs /\ stopped' = stopped
      BY <1>4, <1>6, <2>1 DEF Sources!Begin
    <3> QED
      BY <1>0, <1>2, <1>6, <2>1, <3>1 DEF Sources!Begin, Sources!rows
  <2> QED
    BY <1>3, <2>1
<1>7. CASE Sources!Call(p)
  <2>0. cacheJobs[p] # Sources!NoJob
    BY <1>5, <1>7 DEF Sources!Call
  <2>1. CASE worker' = Sources!Idle /\ cacheJobs' = [cacheJobs EXCEPT ![p] = Sources!NoJob]
    BY <1>0, <1>1, <1>7, <2>1 DEF Sources!Call, Sources!rows
  <2>2. CASE worker' = Sources!Idle /\ cacheJobs' = [cacheJobs EXCEPT ![p].consumer = "resolver"]
    <3> PICK row : row = [cacheJobs[p] EXCEPT !.consumer = "resolver"]
      OBVIOUS
    <3>1. row \in JobType /\ row.movie = cacheJobs[p].movie /\ row.consumer = "resolver"
      BY <1>0, JobShape DEF JobType
    <3>2. cacheJobs' = [cacheJobs EXCEPT ![p] = row]
      BY <2>2
    <3>3. \A q \in Posts : cacheJobs'[q] = IF q = p THEN row ELSE cacheJobs[q]
      BY <1>0, <3>2
    <3>4. pinned' = pinned /\ UNCHANGED <<movies, sources, rejections, stopped>>
      BY <1>7 DEF Sources!Call, Sources!rows
    <3>5. \A q \in Posts : JobFits(cacheJobs'[q], pinned')
      BY <1>0, <2>0, <3>1, <3>3, <3>4 DEF JobFits
    <3>6. cacheJobs' \in [Posts -> JobType] /\ WorkerFits'
      BY <1>0, <2>2, <3>1, <3>2 DEF WorkerFits
    <3> QED
      BY <1>0, <3>4, <3>5, <3>6, JobsMove
  <2>3. CASE Sources!Go(p, "reject") /\ cacheJobs' = cacheJobs
    <3>1. WorkerFits'
      BY <1>4, <2>0, <2>3
    <3> QED
      BY <1>0, <1>2, <1>7, <2>3, <3>1 DEF Sources!Call, Sources!rows
  <2> QED
    BY <1>7, <2>1, <2>2, <2>3 DEF Sources!Call
<1>8. CASE Sources!Reject(p)
  <2>1. CASE ~Sources!Unreadable(p)
    <3> PICK row : row = [sources[p] EXCEPT !.status = "rejected", !.magnet = FALSE]
      OBVIOUS
    <3>1. sources[p] \in Source /\ RowFits(sources[p], movies)
      BY SourceRows DEF SourcesTyped
    <3>2. row.status = "rejected" /\ row.magnet = FALSE /\ row.movie = sources[p].movie
      BY <3>1 DEF Source
    <3>3. sources' = [sources EXCEPT ![p] = row]
      BY <1>8, <2>1 DEF Sources!Reject
    <3>4. \A q \in Posts : sources'[q] = IF q = p THEN row ELSE sources[q]
      BY <3>3, SourceRows
    <3>5. /\ UNCHANGED <<movies, pinned, cacheJobs, stopped>> /\ rejections' = rejections \union {p}
          /\ Sources!Go(p, "reread")
      BY <1>8, <2>1 DEF Sources!Reject
    <3>6. RowFits(row, movies)
      BY <3>1, <3>2 DEF RowFits, Sources!Attached
    <3>7. WorkerFits'
      BY <1>4, <1>5, <1>8, <3>5 DEF Sources!Reject
    <3>8. \A q \in Posts : RowFits(sources'[q], movies')
      BY <3>4, <3>5, <3>6 DEF SourcesTyped
    <3>9. \A q \in Posts : sources'[q].status = "rejected" => q \in rejections'
      BY <3>2, <3>4, <3>5 DEF SourcesTyped
    <3> QED
      BY <3>5, <3>7, <3>8, <3>9 DEF SourcesTyped
  <2> QED
    BY <1>3, <2>1
<1>9. CASE Sources!Reread(p)
  <2>1. CASE ~Sources!Unreadable(p)
    <3>1. WorkerFits' /\ cacheJobs' = cacheJobs /\ stopped' = stopped
      BY <1>4, <1>5, <1>9, <2>1 DEF Sources!Reread
    <3> QED
      BY <1>0, <1>2, <1>9, <2>1, <3>1 DEF Sources!Reread, Sources!rows
  <2> QED
    BY <1>3, <2>1
<1>10. CASE Sources!Fail(p)
  BY <1>0, <1>1, <1>10 DEF Sources!Fail, Sources!rows
<1> QED
  BY <1>6, <1>7, <1>8, <1>9, <1>10

LEMMA SourcesTypedInit == Sources!Init => SourcesTyped
<1> SUFFICES ASSUME Sources!Init PROVE SourcesTyped
  OBVIOUS
<1> USE DEF Sources!Init
<1>1. RowFits(Sources!NoSource, movies)
  BY DEF RowFits, Sources!NoSource, Sources!Attached
<1>2. Sources!NoSource.status # "rejected"
  BY DEF Sources!NoSource
<1>3. cacheJobs \in [Posts -> JobType] /\ \A p \in Posts : JobFits(cacheJobs[p], pinned)
  BY JobShape DEF JobFits
<1>4. \A p \in Posts : sources[p] = Sources!NoSource
  OBVIOUS
<1> QED
  BY <1>1, <1>2, <1>3, <1>4 DEF SourcesTyped, WorkerFits

LEMMA SourcesTypedNext ==
  SourcesInv /\ SourcesTyped /\ [Sources!Next]_(Sources!vars) => SourcesTyped'
<1> SUFFICES ASSUME SourcesInv, SourcesTyped, [Sources!Next]_(Sources!vars) PROVE SourcesTyped'
  OBVIOUS
<1>1. CASE Sources!ImportStart \/ Sources!ImportRollback \/ UNCHANGED Sources!vars
  BY <1>1 DEF Sources!ImportStart, Sources!ImportRollback, Sources!vars, Sources!rows,
     SourcesTyped, WorkerFits
<1>2. CASE Sources!Crash \/ Sources!Restart
  BY <1>2 DEF Sources!Crash, Sources!Restart, Sources!rows, SourcesTyped, WorkerFits
<1>3. ASSUME NEW m \in Numbers, \/ \E target \in Numbers : Sources!Merge(target, m)
                                \/ Sources!Seed(m)
      PROVE  SourcesTyped'
  <2>1. CASE Posts # {}
    BY <1>3, <2>1, AdministratorTyped
  <2>2. CASE Posts = {}
    BY <1>3, <2>2 DEF Sources!Merge, Sources!Seed, SourcesTyped, WorkerFits
  <2> QED
    BY <2>1, <2>2
<1> QED
  BY <1>1, <1>2, <1>3, ImportTyped, AdministratorTyped, PlayTypedStep, ConsumerTyped
     DEF Sources!Next

LEMMA SourcesTypesHold == SourcesInv /\ SourcesTyped => Sources!TypeOK
<1> SUFFICES ASSUME SourcesInv, SourcesTyped PROVE Sources!TypeOK
  OBVIOUS
<1>1. ASSUME NEW p \in Posts
      PROVE  /\ sources[p].status \in {"absent", "pending", "rejected"} \union Sources!Attached
             /\ (sources[p].status = "rejected") <=> (p \in rejections)
  BY SourceRows DEF Source, Sources!Attached, SourcesTyped, SourcesInv, RejectedRows
<1>2. ASSUME NEW p \in Posts
      PROVE  \/ cacheJobs[p] = Sources!NoJob
             \/ cacheJobs[p].movie \in pinned /\ cacheJobs[p].consumer \in {"offline", "resolver"}
  BY DEF SourcesTyped, JobFits
<1>3. /\ worker.step \in {"idle", "call", "reject", "reread", "fail"}
      /\ worker.post \in Posts \union {None}
  BY DEF SourcesTyped, WorkerFits, Sources!Idle
<1>4. DOMAIN importing \subseteq Posts /\ rejections \subseteq Posts
  BY DEF SourcesInv, RowsTyped
<1> QED
  BY <1>1, <1>2, <1>3, <1>4 DEF Sources!TypeOK, SourcesTyped, RowFits
-----------------------------------------------------------------------------
(* The types of the content: ContentInv has most of them.  The rows of the *)
(* image and of the translations are of few shapes.                        *)

ImageRow  == [url : Urls, file : Contents \cup {None}, status : {"retry_pending", "ready"}]
ImageFits == /\ image \in ImageRow \cup {Content!NoImage}
             /\ image.status = "ready" => image.file # None

RecordFits(r) == /\ (r.token # None) <=> (r.status \in {"reserved", "dispatched"})
                 /\ r.live => r.status = "reserved"

ContentTyped == /\ counts \in [jobs : 0 .. MaxJobs, claims : 0 .. MaxClaims]
                /\ ImageFits
                /\ \A t \in Texts : RecordFits(records[t])

LEMMA ContentTypedInit == Content!Init => ContentTyped
<1> SUFFICES ASSUME Content!Init PROVE ContentTyped
  OBVIOUS
<1>1. MaxJobs \in Nat /\ MaxClaims \in Nat
  BY ServicesAssumption
<1>2. counts \in [jobs : 0 .. MaxJobs, claims : 0 .. MaxClaims]
  BY <1>1 DEF Content!Init
<1>3. ImageFits
  BY DEF Content!Init, ImageFits, Content!NoImage
<1>4. \A t \in Texts : RecordFits(records[t])
  BY DEF Content!Init, RecordFits, Content!NoRecord
<1> QED
  BY <1>2, <1>3, <1>4 DEF ContentTyped

\* The counters of the model stay within their bounds.
LEMMA CountsTyped ==
  ASSUME ContentTyped, [Content!Next]_(Content!vars)
  PROVE  counts' \in [jobs : 0 .. MaxJobs, claims : 0 .. MaxClaims]
<1>1. MaxJobs \in Nat /\ MaxClaims \in Nat
  BY ServicesAssumption
<1>2. counts \in [jobs : 0 .. MaxJobs, claims : 0 .. MaxClaims]
  BY DEF ContentTyped
<1>3. CASE Content!NewJob
  <2>1. counts.jobs + 1 \in 0 .. MaxJobs /\ counts' = [counts EXCEPT !.jobs = counts.jobs + 1]
    BY <1>1, <1>2, <1>3 DEF Content!NewJob
  <2> QED
    BY <1>2, <2>1
<1>4. ASSUME NEW w \in Children, Content!Claim(w)
      PROVE  counts' \in [jobs : 0 .. MaxJobs, claims : 0 .. MaxClaims]
  <2>1. counts.claims + 1 \in 0 .. MaxClaims /\ counts' = [counts EXCEPT !.claims = counts.claims + 1]
    BY <1>1, <1>2, <1>4 DEF Content!Claim
  <2> QED
    BY <1>2, <2>1
<1>5. ASSUME NEW w \in Children, Content!Step(w), ~Content!Claim(w) PROVE counts' = counts
  BY <1>5 DEF Content!Step, Content!Kill, Content!Finish, Content!ImportCore, Content!CoreFails,
     Content!LoadImages, Content!Store, Content!CommitImage, Content!Discard, Content!LoadText,
     Content!Reserve, Content!Dispatch, Content!Call, Content!Conclude, Content!ApplyCached,
     Content!Refused
<1>6. CASE Content!Lapse \/ \E t \in Texts : Content!ReservationLapses(t)
  BY <1>2, <1>6 DEF Content!Lapse, Content!ReservationLapses
<1>7. CASE UNCHANGED Content!vars
  BY <1>2, <1>7 DEF Content!vars
<1> QED
  BY <1>2, <1>3, <1>4, <1>5, <1>6, <1>7 DEF Content!Next

\* Only the core import and a commit write the image.
LEMMA ImageTyped ==
  ASSUME ContentInv, ContentTyped, [Content!Next]_(Content!vars)
  PROVE  ImageFits'
<1>1. ImageFits /\ None \notin Contents
  BY ServicesAssumption DEF ContentTyped
<1>2. ASSUME NEW u \in Urls \cup {None}, image' = Content!Reconciled(u) PROVE ImageFits'
  <2>1. CASE image = Content!NoImage
    BY <1>2, <2>1 DEF Content!Reconciled, Content!NoImage, ImageFits, ImageRow
  <2>2. CASE image # Content!NoImage /\ u = None
    <3>1. image \in ImageRow
      BY <1>1, <2>2 DEF ImageFits
    <3>2. CASE image.file = None
      BY <1>2, <2>2, <3>2 DEF Content!Reconciled, Content!NoImage, ImageFits, ImageRow
    <3>3. CASE image.file # None
      <4>1. image' = [image EXCEPT !.status = "ready"]
        BY <1>2, <2>2, <3>3 DEF Content!Reconciled
      <4> QED
        BY <3>1, <3>3, <4>1 DEF ImageFits, ImageRow
    <3> QED
      BY <3>2, <3>3
  <2>3. CASE image # Content!NoImage /\ u \in Urls /\ u # None
    <3>1. image \in ImageRow
      BY <1>1, <2>3 DEF ImageFits
    <3>2. image' = image \/ image' = [image EXCEPT !.url = u, !.status = "retry_pending"]
      BY <1>2, <2>3 DEF Content!Reconciled
    <3> QED
      BY <1>1, <2>3, <3>1, <3>2 DEF ImageFits, ImageRow
  <2> QED
    BY <2>1, <2>2, <2>3
<1>3. ASSUME NEW w \in Children, Content!CommitImage(w) PROVE ImageFits'
  <2>1. CASE image' = image
    BY <1>1, <2>1 DEF ImageFits
  <2>2. CASE image' # image
    <3>1. /\ image.status = "retry_pending"
          /\ image' = [image EXCEPT !.file = child[w].file, !.status = "ready"]
      BY <1>3, <2>2 DEF Content!CommitImage, Content!At
    <3>2. child[w].file \in Contents
      BY <1>3 DEF Content!CommitImage, Content!At, ContentInv, FilesInv
    <3>3. image \in ImageRow
      BY <1>1, <3>1 DEF ImageFits, Content!NoImage
    <3> QED
      BY <1>1, <3>1, <3>2, <3>3 DEF ImageFits, ImageRow
  <2> QED
    BY <2>1, <2>2
<1>4. ASSUME NEW w \in Children, Content!ImportCore(w) PROVE ImageFits'
  <2>1. CASE image' = image
    BY <1>1, <2>1 DEF ImageFits
  <2>2. CASE image' # image
    <3>1. PICK u \in Urls \cup {None} : image' = Content!Reconciled(u)
      BY <1>4, <2>2 DEF Content!ImportCore, Content!Refused, Content!content
    <3> QED
      BY <1>2, <3>1
  <2> QED
    BY <2>1, <2>2
<1>5. ASSUME NEW w \in Children, Content!Step(w), ~Content!CommitImage(w), ~Content!ImportCore(w)
      PROVE  image' = image
  BY <1>5 DEF Content!Step, Content!Claim, Content!Kill, Content!Finish, Content!CoreFails,
     Content!LoadImages, Content!Store, Content!Discard, Content!LoadText, Content!Reserve,
     Content!Dispatch, Content!Call, Content!Conclude, Content!ApplyCached, Content!Refused,
     Content!content
<1>6. CASE image' = image
  BY <1>1, <1>6 DEF ImageFits
<1>7. CASE Content!NewJob \/ Content!Lapse \/ \E t \in Texts : Content!ReservationLapses(t)
  BY <1>6, <1>7 DEF Content!NewJob, Content!Lapse, Content!ReservationLapses, Content!content
<1>8. CASE UNCHANGED Content!vars
  BY <1>6, <1>8 DEF Content!vars, Content!content
<1> QED
  BY <1>3, <1>4, <1>5, <1>6, <1>7, <1>8 DEF Content!Next

\* Every step leaves the translations alone, or writes one of them.
Written == \/ records' = records
           \/ \E t \in Texts : \E r \in Record :
                RecordFits(r) /\ records' = [records EXCEPT ![t] = r]

LEMMA WrittenTyped ==
  ASSUME ContentInv, ContentTyped, Written
  PROVE  \A t \in Texts : RecordFits(records'[t])
<1>1. CASE records' = records
  BY <1>1 DEF ContentTyped
<1>2. ASSUME NEW t \in Texts, NEW r \in Record, RecordFits(r), records' = [records EXCEPT ![t] = r]
      PROVE  \A u \in Texts : RecordFits(records'[u])
  BY <1>2 DEF ContentInv, ContentTypes, ContentTyped
<1> QED
  BY <1>1, <1>2 DEF Written

LEMMA RecordWritten ==
  ASSUME ContentInv, ContentTyped, [Content!Next]_(Content!vars) PROVE Written
<1>1. records \in [Texts -> Record] /\ None \notin Children
  BY ServicesAssumption DEF ContentInv, ContentTypes
<1>2. \A w \in Children : child[w].step \in Translating => child[w].text \in Texts
  BY DEF ContentInv, ContentTypes, TitleThere, ChildRow
<1>3. ASSUME NEW w \in Children, Content!Reserve(w) PROVE Written
  <2> PICK r : r = [status |-> "reserved", token |-> w, live |-> TRUE]
    OBVIOUS
  <2>1. r \in Record /\ RecordFits(r)
    BY <1>1 DEF Record, RecordFits
  <2>2. child[w].text \in Texts
    BY <1>2, <1>3 DEF Content!Reserve, Content!At, Translating
  <2>3. records' = records \/ records' = [records EXCEPT ![child[w].text] = r]
    BY <1>3 DEF Content!Reserve
  <2> QED
    BY <2>1, <2>2, <2>3 DEF Written
<1>4. ASSUME NEW t \in Texts, Content!ReservationLapses(t) PROVE Written
  <2> PICK r : r = [records[t] EXCEPT !.live = FALSE]
    OBVIOUS
  <2>1. r \in Record /\ r.status = records[t].status /\ r.token = records[t].token /\ ~r.live
    BY <1>1 DEF Record
  <2>2. RecordFits(r)
    BY <2>1 DEF RecordFits, ContentTyped
  <2>3. records' = [records EXCEPT ![t] = r]
    BY <1>1, <1>4 DEF Content!ReservationLapses
  <2> QED
    BY <2>1, <2>2, <2>3 DEF Written
<1>5. ASSUME NEW w \in Children, Content!Dispatch(w) PROVE Written
  <2>1. CASE records' = records
    BY <2>1 DEF Written
  <2>2. CASE records' # records
    <3> PICK t : t = child[w].text
      OBVIOUS
    <3>1. /\ records[t].status = "reserved" /\ records[t].token = w
          /\ records' = [records EXCEPT ![t].status = "dispatched", ![t].live = FALSE]
      BY <1>5, <2>2 DEF Content!Dispatch, Content!Refused, Content!content
    <3>2. t \in Texts
      BY <1>2, <1>5 DEF Content!Dispatch, Content!At, Translating
    <3> PICK r : r = [records[t] EXCEPT !.status = "dispatched", !.live = FALSE]
      OBVIOUS
    <3>3. r \in Record /\ r.status = "dispatched" /\ r.token = w /\ ~r.live
      BY <1>1, <3>1, <3>2 DEF Record
    <3>4. RecordFits(r)
      BY <1>1, <3>3 DEF RecordFits
    <3>5. records' = [records EXCEPT ![t] = r]
      BY <1>1, <3>1, <3>2
    <3> QED
      BY <3>2, <3>3, <3>4, <3>5 DEF Written
  <2> QED
    BY <2>1, <2>2
<1>6. ASSUME NEW w \in Children, Content!Conclude(w) PROVE Written
  <2>1. CASE records' = records
    BY <2>1 DEF Written
  <2>2. CASE records' # records
    <3> PICK t : t = child[w].text
      OBVIOUS
    <3>1. \E status \in {"completed", "rejected", "unknown"} :
            records' = [records EXCEPT ![t] = [Content!NoRecord EXCEPT !.status = status]]
      BY <1>6, <2>2 DEF Content!Conclude, Content!Refused, Content!content
    <3> PICK status \in {"completed", "rejected", "unknown"} :
            records' = [records EXCEPT ![t] = [Content!NoRecord EXCEPT !.status = status]]
      BY <3>1
    <3>2. t \in Texts
      BY <1>2, <1>6 DEF Content!Conclude, Translating
    <3> PICK r : r = [Content!NoRecord EXCEPT !.status = status]
      OBVIOUS
    <3>3. r \in Record /\ RecordFits(r)
      BY DEF Record, RecordFits, Content!NoRecord
    <3> QED
      BY <3>2, <3>3 DEF Written
  <2> QED
    BY <2>1, <2>2
<1>7. ASSUME NEW w \in Children, Content!Step(w),
             ~Content!Reserve(w), ~Content!Dispatch(w), ~Content!Conclude(w)
      PROVE  records' = records
  BY <1>7 DEF Content!Step, Content!Claim, Content!Kill, Content!Finish, Content!ImportCore,
     Content!CoreFails, Content!LoadImages, Content!Store, Content!CommitImage, Content!Discard,
     Content!LoadText, Content!Call, Content!ApplyCached, Content!Refused, Content!content
<1>8. CASE records' = records
  BY <1>8 DEF Written
<1>9. CASE Content!NewJob \/ Content!Lapse \/ UNCHANGED Content!vars
  BY <1>8, <1>9 DEF Content!NewJob, Content!Lapse, Content!vars, Content!content
<1> QED
  BY <1>3, <1>4, <1>5, <1>6, <1>7, <1>8, <1>9 DEF Content!Next

LEMMA ContentTypedNext ==
  ContentInv /\ ContentTyped /\ [Content!Next]_(Content!vars) => ContentTyped'
<1> SUFFICES ASSUME ContentInv, ContentTyped, [Content!Next]_(Content!vars) PROVE ContentTyped'
  OBVIOUS
<1>1. counts' \in [jobs : 0 .. MaxJobs, claims : 0 .. MaxClaims]
  BY CountsTyped
<1>2. ImageFits'
  BY ImageTyped
<1>3. \A t \in Texts : RecordFits(records'[t])
  BY RecordWritten, WrittenTyped
<1>4. (\A t \in Texts : RecordFits(records[t]))' <=> \A t \in Texts : RecordFits(records'[t])
  BY DEF RecordFits
<1> QED
  BY <1>1, <1>2, <1>3, <1>4 DEF ContentTyped

LEMMA ContentTypesHold == ContentInv /\ ContentTyped => Content!TypeOK
<1> SUFFICES ASSUME ContentInv, ContentTyped PROVE Content!TypeOK
  OBVIOUS
<1>1. \A t \in Texts :
        /\ records[t].status \in {"absent", "reserved", "dispatched", "completed", "rejected", "unknown"}
        /\ (records[t].token # None) <=> (records[t].status \in {"reserved", "dispatched"})
        /\ records[t].live => records[t].status = "reserved"
        /\ paid[t] \in Nat
  BY DEF ContentInv, ContentTypes, Record, ContentTyped, RecordFits
<1>2. \A w \in Children : child[w].step \in Content!Steps
  BY DEF ContentInv, ContentTypes, ChildRow
<1>3. image \in ImageRow \cup {Content!NoImage} /\ (image.status = "ready" => image.file # None)
  BY DEF ContentTyped, ImageFits
<1> QED
  BY <1>1, <1>2, <1>3 DEF ContentInv, ContentTypes, ContentTyped, Content!TypeOK, ImageRow
-----------------------------------------------------------------------------
(* All the types.                                                          *)

LEMMA BindingTypesHold == QrInv /\ BoundInv => Binding!BindingTypeOK
  BY DEF QrInv, QrTypes, BoundInv, BoundTypes, QrRow, ScopeRow, Binding!BindingTypeOK

\* Every part keeps its types, from the invariants above.
LEMMA PartInvariants ==
  Spec => [](/\ IdentityTyped /\ (QrInv /\ BoundInv) /\ (PlayInv /\ PlayTyped)
             /\ (SourcesInv /\ SourcesTyped) /\ (ContentInv /\ ContentTyped))
<1>1. Spec => []IdentityTyped
  <2>1. Identity!Spec => []IdentityTyped
    BY IdentityTypesInit, IdentityTypesNext, PTL DEF Identity!Spec
  <2> QED
    BY <2>1, IdentityRuns, PTL
<1>2. Spec => [](PlayInv /\ PlayTyped)
  <2>1. Playback!Spec => [](PlayInv /\ PlayTyped)
    BY PlayInit, PlayNext, PlayTypedInit, PlayTypedNext, PTL DEF Playback!Spec
  <2> QED
    BY <2>1, PlaybackRuns, PTL
<1>3. Spec => [](SourcesInv /\ SourcesTyped)
  <2>1. Sources!Spec => [](SourcesInv /\ SourcesTyped)
    BY SourcesInit, SourcesNext, SourcesTypedInit, SourcesTypedNext, PTL DEF Sources!Spec
  <2> QED
    BY <2>1, SourcesRuns, PTL
<1>4. Spec => [](ContentInv /\ ContentTyped)
  <2>1. Content!Spec => [](ContentInv /\ ContentTyped)
    BY ContentInit, ContentNext, ContentTypedInit, ContentTypedNext, PTL DEF Content!Spec
  <2> QED
    BY <2>1, ContentRuns, PTL
<1> QED
  BY <1>1, <1>2, <1>3, <1>4, BindingInvariant, PTL

\* A behaviour is about one of the six parts.
LEMMA PartsAre ==
  Spec => [](part \in {"identity", "binding", "playback", "sources", "content", "metadata"})
<1> DEFINE Six == part \in {"identity", "binding", "playback", "sources", "content", "metadata"}
<1>1. Init => Six
  BY DEF Init
<1>2. Six /\ [Next]_vars => Six'
  BY DEF Next, vars
<1> QED
  BY <1>1, <1>2, PTL DEF Spec

\* The rows and the clients' states of every part keep the shape the code relies
\* on: sessions, tokens and calls of a client (identity), the binding and its QR
\* codes (cloud115), the leases and requests of playback, sources and the worker
\* that may reject them, image and translations of a movie, and the metadata queue.
THEOREM ServicesTypes == Spec => []TypeOK
<1>1. IdentityTyped => Identity!IdentityTypeOK
  BY IdentityTypesHold
<1>2. QrInv /\ BoundInv => Binding!BindingTypeOK
  BY BindingTypesHold
<1>3. PlayInv /\ PlayTyped => Playback!PlaybackTypeOK
  BY PlayTypesHold
<1>4. SourcesInv /\ SourcesTyped => Sources!TypeOK
  BY SourcesTypesHold
<1>5. ContentInv /\ ContentTyped => Content!TypeOK
  BY ContentTypesHold
<1>6. MP!MetadataInv => Metadata!TypeOK
  BY QueueConstants, MP!TypesHold, SameTypes
<1>7. part \in {"identity", "binding", "playback", "sources", "content", "metadata"}
      /\ Identity!IdentityTypeOK /\ Binding!BindingTypeOK /\ Playback!PlaybackTypeOK
      /\ Sources!TypeOK /\ Content!TypeOK /\ Metadata!TypeOK => TypeOK
  BY DEF TypeOK
<1> QED
  BY <1>1, <1>2, <1>3, <1>4, <1>5, <1>6, <1>7, PartInvariants, PartsAre, MetadataInvariant, PTL
=============================================================================
