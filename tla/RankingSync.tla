---------------------------- MODULE RankingSync -----------------------------
(***************************************************************************)
(* discovery/ranking_sync.py with its consumer worker/rankings.py and its  *)
(* scheduler job: a request for a board (and year) is claimed, the ranking *)
(* is fetched, and one transaction stores the snapshot, supersedes the     *)
(* current one and completes the request.                                  *)
(***************************************************************************)
EXTENDS LeasedRequests, Selection

VARIABLES snapshots,  \* per scope, the snapshots stored, the oldest first
          fetches     \* history: how many rankings were fetched

rankingVars == <<requests, taken, consumers, faults, snapshots, fetches>>

Pc == {"idle", "fetch", "prepare", "activate", "fail"}
Idle == [pc |-> "idle", request |-> 0, token |-> 0, fetched |-> 0]
Snapshot == [status : {"current", "superseded"}, fetched : Nat]

TypeOK ==
  /\ RequestsTypeOK /\ ClaimFieldsOK
  /\ consumers \in [Workers -> [pc : Pc, request : 0 .. MaxRequests,
                                token : Nat, fetched : Nat]]
  /\ snapshots \in [Scopes -> Seq(Snapshot)]
  /\ fetches \in Nat

Init ==
  /\ RequestsInit
  /\ consumers = [w \in Workers |-> Idle]
  /\ snapshots = [s \in Scopes |-> <<>>] /\ fetches = 0

Request(w) == consumers[w].request
Mine(w)    == Holds(Request(w), consumers[w].token)
Scope(w)   == requests[Request(w)].scope
Go(w, pc)  == consumers' = [consumers EXCEPT ![w].pc = pc]
Busy       == {w \in Workers : consumers[w].pc # "idle"}

\* Variant: a scope may have several active requests.
FreeAlways(scope) == TRUE

\* The partial unique index on the active request of a board and year.
Free(scope) ==
  \A i \in DOMAIN requests : requests[i].scope = scope => ~ActiveRequest(i)

\* One target of the daily job, or of the check at start-up.  Past years with
\* a snapshot are left out, as far as they were there when the job began.
EnqueueDueTarget(scope) ==
  /\ Free(scope)
  /\ Enqueue(scope)
  /\ UNCHANGED <<taken, consumers, faults, snapshots, fetches>>

Claim(w, i) ==
  /\ consumers[w] = Idle
  /\ ClaimNext(i)
  /\ consumers' = [consumers EXCEPT ![w] = [pc |-> "fetch", request |-> i,
                                            token |-> taken', fetched |-> 0]]
  /\ UNCHANGED <<faults, snapshots, fetches>>

Fetch(w) ==
  /\ consumers[w].pc = "fetch"
  /\ \/ /\ fetches' = fetches + 1
        /\ consumers' = [consumers EXCEPT ![w].pc = "prepare", ![w].fetched = fetches']
        /\ UNCHANGED faults
     \/ Fault /\ Go(w, "fail") /\ UNCHANGED fetches
  /\ UNCHANGED <<requests, taken, snapshots>>

\* before_activate stops the heartbeat and renews the claim once more.
Prepare(w) ==
  /\ consumers[w].pc = "prepare"
  /\ Go(w, IF Mine(w) THEN "activate" ELSE "fail")
  /\ UNCHANGED <<requests, taken, faults, snapshots, fetches>>

Superseded(rows) == [n \in DOMAIN rows |-> [rows[n] EXCEPT !.status = "superseded"]]

\* Variant: the snapshot that was current stays.
StoredBeside(rows, fetched) ==
  Append(rows, [status |-> "current", fetched |-> fetched])

Stored(rows, fetched) ==
  Append(Superseded(rows), [status |-> "current", fetched |-> fetched])

\* activate_snapshot: the snapshot, its predecessor and the request together.
Activate(w) ==
  /\ consumers[w].pc = "activate"
  /\ IF Mine(w)
     THEN /\ snapshots' = [snapshots EXCEPT ![Scope(w)] = Stored(@, consumers[w].fetched)]
          /\ Finish(Request(w), "completed")
          /\ consumers' = [consumers EXCEPT ![w] = Idle]
     ELSE Go(w, "fail") /\ UNCHANGED <<requests, snapshots>>
  /\ UNCHANGED <<taken, faults, fetches>>

\* The transaction fails and rolls back.
ActivateFails(w) ==
  /\ consumers[w].pc = "activate"
  /\ Fault /\ Go(w, "fail")
  /\ UNCHANGED <<requests, taken, snapshots, fetches>>

Fail(w) ==
  /\ consumers[w].pc = "fail"
  /\ FailRequest(Request(w), consumers[w].token)
  /\ consumers' = [consumers EXCEPT ![w] = Idle]
  /\ UNCHANGED <<taken, faults, snapshots, fetches>>

\* A heartbeat that failed once gives the request up without a word, although
\* its claim may still be held: the lease has to run out.
Abandon(w) ==
  /\ consumers[w].pc \in {"prepare", "fail"}
  /\ Fault
  /\ consumers' = [consumers EXCEPT ![w] = Idle]
  /\ UNCHANGED <<requests, taken, snapshots, fetches>>

\* The worker process is killed and started again.
Crash(w) ==
  /\ w \in Busy /\ Fault
  /\ consumers' = [consumers EXCEPT ![w] = Idle]
  /\ UNCHANGED <<requests, taken, snapshots, fetches>>

ClaimLapses(i) ==
  Lapse(i, Busy) /\ UNCHANGED <<taken, consumers, snapshots, fetches>>

Consume(w) ==
  \/ \E i \in DOMAIN requests : Claim(w, i)
  \/ Fetch(w) \/ Prepare(w) \/ Activate(w) \/ Fail(w)

Next ==
  \/ \E scope \in Scopes : EnqueueDueTarget(scope)
  \/ \E w \in Workers : Consume(w) \/ ActivateFails(w) \/ Abandon(w) \/ Crash(w)
  \/ \E i \in DOMAIN requests : ClaimLapses(i)

Spec == Init /\ [][Next]_rankingVars
-----------------------------------------------------------------------------
\* Each completed request stored exactly one snapshot, and of the snapshots
\* of a scope the last one stored, and only that, is current: a consumer that
\* lost its claim never adds one, and none replaces one fetched after it.
OneSnapshotPerRequest ==
  \A scope \in Scopes :
    LET rows == snapshots[scope]
    IN /\ Len(rows) = Cardinality({i \in DOMAIN requests :
                         requests[i].scope = scope /\ requests[i].status = "completed"})
       /\ \A n \in DOMAIN rows :
            /\ (rows[n].status = "current") = (n = Len(rows))
            /\ n > 1 => rows[n - 1].fetched < rows[n].fetched

\* The rows of a scope as the attempts of the abstract queue.
Attempts ==
  [scope \in Scopes |->
    LET mine == Selected(requests, {row \in RequestRow : row.scope = scope})
    IN [n \in DOMAIN mine |->
         [phase |-> CASE mine[n].status = "queued"    -> "queued"
                      [] mine[n].status = "claimed"   -> "held"
                      [] mine[n].status = "completed" -> "done"
                      [] mine[n].status = "failed"    -> "failed",
          holder |-> mine[n].token]]]

Abstract == INSTANCE WorkQueue WITH Keys <- Scopes, attempts <- Attempts

\* A scope has one open attempt at a time, ended once by whoever holds it.
ImplementsWorkQueue == Abstract!Spec
=============================================================================
