---------------------------- MODULE EventOutbox -----------------------------
(***************************************************************************)
(* The domain events of the backend (events/outbox.py).  A transaction     *)
(* that changes what clients see appends an event for each change; the     *)
(* number comes from the row event_sequence, which is locked until the     *)
(* transaction ends.  Committed events are kept for 30 days.               *)
(*                                                                         *)
(* An event is its number: event[n] is the resource it is about, and the   *)
(* state of a resource is the number of the last event about it.           *)
(***************************************************************************)
EXTENDS Integers, FiniteSets

CONSTANTS
    CacheJobs,   \* resources that exist from their first event on
    Permanent,   \* resources that are always there (the 115 credential)
    Writers,     \* database sessions that append events
    None,        \* no resource, no writer
    MaxEvents    \* bound: numbers given out

Resources == CacheJobs \cup Permanent

ASSUME OutboxAssumption ==
    /\ MaxEvents \in Nat
    /\ None \notin Resources \cup Writers
    /\ CacheJobs \cap Permanent = {}

VARIABLES
    event,    \* number -> resource, committed or not
    owner,    \* number -> the transaction that has not ended yet
    expired   \* numbers of events past their 30 days

outbox == <<event, owner, expired>>

Numbers == 1..MaxEvents

OutboxTypeOK ==
    /\ event \in [Numbers -> Resources \cup {None}]
    /\ owner \in [Numbers -> Writers \cup {None}]
    /\ expired \subseteq Numbers

OutboxInit ==
    /\ event = [n \in Numbers |-> None]
    /\ owner = [n \in Numbers |-> None]
    /\ expired = {}

\* What a read of the table returns at READ COMMITTED.
Visible(n) == event[n] # None /\ owner[n] = None

\* The greatest of a set of numbers, 0 if there is none.
Greatest(S) ==
    IF S = {} THEN 0 ELSE CHOOSE n \in S : \A m \in S : m <= n

\* Variant: the row does not exist before the first event.
WatermarkUnset ==
    IF \A n \in Numbers : ~Visible(n) THEN None
    ELSE Greatest({n \in Numbers : Visible(n)})

\* EventSequence.current_value: as committed, and as a writer finds it.
Watermark == Greatest({n \in Numbers : Visible(n)})
Allocated == Greatest({n \in Numbers : event[n] # None})

\* The state of a resource that is committed.
Latest(r) == Greatest({n \in Numbers : Visible(n) /\ event[n] = r})

\* EventStreamVersion: the events of a resource are numbered without gaps.
StreamVersion(n) ==
    Cardinality({m \in Numbers : m <= n /\ event[m] = event[n]})

\* Variant: the numbers come from a database sequence, which locks nothing.
SequenceFreeIgnored(w) == TRUE

\* with_for_update: the row is free, or this transaction has locked it.
SequenceFree(w) == \A n \in Numbers : owner[n] \in {None, w}

\* DomainEventWriter.append, in the transaction that changes the resource.
AppendEvent(w, r) ==
    /\ SequenceFree(w)
    /\ Allocated < MaxEvents
    /\ event' = [event EXCEPT ![Allocated + 1] = r]
    /\ owner' = [owner EXCEPT ![Allocated + 1] = w]
    /\ UNCHANGED expired

Owns(w) == \E n \in Numbers : owner[n] = w

Commit(w) ==
    /\ Owns(w)
    /\ owner' = [n \in Numbers |-> IF owner[n] = w THEN None ELSE owner[n]]
    /\ UNCHANGED <<event, expired>>

\* The numbers of a transaction that is rolled back are given out again.
Rollback(w) ==
    /\ Owns(w)
    /\ event' = [n \in Numbers |-> IF owner[n] = w THEN None ELSE event[n]]
    /\ owner' = [n \in Numbers |-> IF owner[n] = w THEN None ELSE owner[n]]
    /\ UNCHANGED expired

OutboxNext ==
    \E w \in Writers :
        \/ \E r \in Resources : AppendEvent(w, r)
        \/ Commit(w) \/ Rollback(w)
=============================================================================
