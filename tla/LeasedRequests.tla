--------------------------- MODULE LeasedRequests ---------------------------
(***************************************************************************)
(* The request queues of the AVdb synchronization, the rankings and the    *)
(* provider snapshots have one shape: the scheduler or an administrator    *)
(* inserts a row, a consumer claims it under a fresh token and a lease,    *)
(* a heartbeat thread renews the lease, and every write of the consumer    *)
(* carries the token and the lease.  Time is abstracted: the lease of a    *)
(* row may lapse, at the cost of a fault while its consumer is at work     *)
(* (late heartbeats) and freely when nobody renews it.                     *)
(***************************************************************************)
EXTENDS Naturals, Sequences, FiniteSets

CONSTANTS Workers,      \* the consumer threads of the worker processes
          Scopes,       \* what a request asks for: a mode, or a board and year
          MaxRequests,  \* bound of the model: how many requests are made
          MaxFaults     \* bound of the model: lapses, crashes, failed calls

VARIABLES requests,   \* the rows in the order of scheduled_for
          taken,      \* history: how many tokens were made
          consumers,  \* what each consumer thread is doing
          faults      \* how many faults happened

RequestStatus == {"queued", "claimed", "completed", "failed"}
RequestRow == [scope : Scopes, status : RequestStatus, token : Nat, live : BOOLEAN]
Tokens == 1 .. (MaxRequests + 2 * MaxFaults)

RequestsTypeOK ==
  /\ requests \in Seq(RequestRow) /\ Len(requests) <= MaxRequests
  /\ taken \in Nat /\ faults \in 0 .. MaxFaults

\* The CHECK constraints: a row has a token exactly while it is claimed.
ClaimFieldsOK ==
  \A i \in DOMAIN requests :
    /\ (requests[i].token # 0) = (requests[i].status = "claimed")
    /\ requests[i].live => requests[i].status = "claimed"

RequestsInit == requests = <<>> /\ taken = 0 /\ faults = 0

Fault == faults < MaxFaults /\ faults' = faults + 1

ActiveRequest(i) == requests[i].status \in {"queued", "claimed"}

\* A second request of the same slot joins the first and changes nothing.
Enqueue(scope) ==
  /\ Len(requests) < MaxRequests
  /\ requests' = Append(requests, [scope |-> scope, status |-> "queued",
                                   token |-> 0, live |-> FALSE])

\* Variant: an expired claim is never taken over.
ClaimableQueued(i) == requests[i].status = "queued"

Claimable(i) ==
  \/ requests[i].status = "queued"
  \/ requests[i].status = "claimed" /\ ~requests[i].live

\* Rows locked at the moment are skipped, so any claimable row may be taken.
ClaimNext(i) ==
  /\ Claimable(i)
  /\ taken' = taken + 1
  /\ requests' = [requests EXCEPT ![i].status = "claimed", ![i].token = taken + 1,
                                  ![i].live = TRUE]

\* The condition of renew, complete and fail.
Holds(i, token) ==
  requests[i].status = "claimed" /\ requests[i].token = token /\ requests[i].live

Finish(i, status) ==
  requests' = [requests EXCEPT ![i].status = status, ![i].token = 0, ![i].live = FALSE]

\* fail is refused without a claim, and the consumer goes on to the next row.
FailRequest(i, token) ==
  IF Holds(i, token) THEN Finish(i, "failed") ELSE UNCHANGED requests

\* Some consumer works under the row's token.
Served(i, busy) == \E w \in busy : consumers[w].request = i
                                   /\ consumers[w].token = requests[i].token

Lapse(i, busy) ==
  /\ requests[i].live
  /\ IF Served(i, busy) THEN Fault ELSE UNCHANGED faults
  /\ requests' = [requests EXCEPT ![i].live = FALSE]
=============================================================================
