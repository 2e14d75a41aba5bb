-------------------------- MODULE ProviderSnapshots --------------------------
(***************************************************************************)
(* catalog/provider_snapshots.py and worker/provider_snapshots.py: a       *)
(* weekly request refreshes the snapshot of every provider in turn; each   *)
(* is downloaded, stored as a file named by its digest and activated in a  *)
(* transaction that also rebuilds what is derived from it.  The request is *)
(* fenced by its claim, the activation is not.                             *)
(***************************************************************************)
EXTENDS LeasedRequests, SequencesExt

CONSTANTS Providers,  \* the order of the sources
          Digests     \* contents a download may have

VARIABLES rows,     \* per provider and digest: the status of its row
          derived,  \* per provider: the digest its rebuilt rows come from
          files     \* per provider: the digests stored as files

providerVars == <<requests, taken, consumers, faults, rows, derived, files>>
dataVars     == <<rows, derived, files>>

Names == Range(Providers)
None  == "none"

Pc == {"idle", "download", "store", "lock", "wait", "activate", "settle", "fail"}
Idle == [pc |-> "idle", request |-> 0, token |-> 0, todo |-> <<>>,
         digest |-> None, seen |-> {}, known |-> FALSE, failed |-> FALSE]

TypeOK ==
  /\ RequestsTypeOK /\ ClaimFieldsOK
  /\ \A w \in Workers :
       /\ consumers[w].pc \in Pc /\ consumers[w].request \in 0 .. MaxRequests
       /\ IsSuffix(consumers[w].todo, Providers)
       /\ consumers[w].digest \in Digests \cup {None}
  /\ rows \in [Names -> [Digests -> {"none", "current", "superseded"}]]
  /\ derived \in [Names -> Digests \cup {None}]
  /\ files \in [Names -> SUBSET Digests]

Init ==
  /\ RequestsInit
  /\ consumers = [w \in Workers |-> Idle]
  /\ rows = [p \in Names |-> [d \in Digests |-> "none"]]
  /\ derived = [p \in Names |-> None]
  /\ files = [p \in Names |-> {}]

Request(w)  == consumers[w].request
Mine(w)     == Holds(Request(w), consumers[w].token)
Provider(w) == Head(consumers[w].todo)
Digest(w)   == consumers[w].digest
At(w, pc)   == consumers[w].pc = pc
Busy        == {w \in Workers : consumers[w].pc # "idle"}
Current(p)  == {d \in Digests : rows[p][d] = "current"}

\* The next provider, or the end of refresh_all.
Continue(w, failed) ==
  consumers' = [consumers EXCEPT
    ![w].pc = IF Len(consumers[w].todo) = 1 THEN "settle" ELSE "download",
    ![w].todo = Tail(@), ![w].failed = @ \/ failed,
    ![w].digest = None, ![w].seen = {}, ![w].known = FALSE]

\* The cron job, in a slot of its own.
EnqueueRefresh(scope) ==
  /\ Enqueue(scope)
  /\ UNCHANGED <<taken, consumers, faults, dataVars>>

\* At start-up: only without any request, and unless every provider is there.
EnsureInitial(scope) ==
  /\ requests = <<>> /\ \E p \in Names : Current(p) = {}
  /\ EnqueueRefresh(scope)

Claim(w, i) ==
  /\ consumers[w] = Idle
  /\ ClaimNext(i)
  /\ consumers' = [consumers EXCEPT ![w].pc = "download", ![w].request = i,
                                    ![w].token = taken', ![w].todo = Providers]
  /\ UNCHANGED <<faults, dataVars>>

\* A download that fails counts against the request; the others go on.
Download(w) ==
  /\ At(w, "download")
  /\ \/ /\ \E d \in Digests :
             consumers' = [consumers EXCEPT ![w].pc = "store", ![w].digest = d]
        /\ UNCHANGED faults
     \/ Fault /\ Continue(w, TRUE)
  /\ UNCHANGED <<requests, taken, dataVars>>

\* The file is written aside and put in its place in one step.
StoreFile(w) ==
  /\ At(w, "store")
  /\ files' = [files EXCEPT ![Provider(w)] = @ \cup {Digest(w)}]
  /\ consumers' = [consumers EXCEPT ![w].pc = "lock"]
  /\ UNCHANGED <<requests, taken, faults, rows, derived>>

Activating(w) == {v \in Workers \ {w} : At(v, "activate") /\ Provider(v) = Provider(w)}

\* The statements of activate that select and lock the row of the digest,
\* if there is one, and the current row, as they are when they start ...
SelectRows(w) ==
  /\ At(w, "lock")
  /\ \A v \in Activating(w) : ~(Digest(v) = Digest(w) /\ consumers[v].known)
  /\ consumers' = [consumers EXCEPT
       ![w].pc = "wait", ![w].seen = Current(Provider(w)),
       ![w].known = rows[Provider(w)][Digest(w)] # "none"]
  /\ UNCHANGED <<requests, taken, faults, dataVars>>

\* ... and what is left of that once no other transaction holds the lock: a
\* row that is no longer current drops out, and its successor is not seen.
LockRows(w) ==
  /\ At(w, "wait")
  /\ \A v \in Activating(w) : consumers[v].seen = {}
  /\ consumers' = [consumers EXCEPT
       ![w].pc = "activate", ![w].seen = @ \cap Current(Provider(w))]
  /\ UNCHANGED <<requests, taken, faults, dataVars>>

\* Variant: the derived rows are rebuilt by a later transaction.
RebuiltLater(p, d) == derived

\* The rows derived from a snapshot are replaced by those of another.
Rebuilt(p, d) == [derived EXCEPT ![p] = d]

\* The row that was seen is superseded, that of the digest becomes current.
Activated(old, seen, d) ==
  [e \in Digests |-> IF e = d THEN "current"
                     ELSE IF e \in seen THEN "superseded" ELSE old[e]]

\* The unique indexes allow one current row and one row of a digest: an
\* activation that did not see the other one is refused and rolled back.
Activate(w) ==
  /\ At(w, "activate")
  /\ LET p == Provider(w)
         new == Activated(rows[p], consumers[w].seen, Digest(w))
     IN IF /\ Cardinality({d \in Digests : new[d] = "current"}) = 1
           /\ consumers[w].known = (rows[p][Digest(w)] # "none")
        THEN /\ rows' = [rows EXCEPT ![p] = new]
             /\ derived' = Rebuilt(p, Digest(w))
             /\ Continue(w, FALSE)
        ELSE /\ consumers' = [consumers EXCEPT ![w].pc = "fail", ![w].seen = {}]
             /\ UNCHANGED <<rows, derived>>
  /\ UNCHANGED <<requests, taken, faults, files>>

\* A rebuild that finds a conflict rolls the activation back.
ActivateFails(w) ==
  /\ At(w, "activate") /\ Fault
  /\ Continue(w, TRUE)
  /\ UNCHANGED <<requests, taken, dataVars>>

Outcome(w) == IF consumers[w].failed THEN "failed" ELSE "completed"

Settle(w) ==
  /\ At(w, "settle")
  /\ IF Mine(w) THEN Finish(Request(w), Outcome(w)) ELSE UNCHANGED requests
  /\ consumers' = [consumers EXCEPT ![w] = Idle]
  /\ UNCHANGED <<taken, faults, dataVars>>

Fail(w) ==
  /\ At(w, "fail")
  /\ FailRequest(Request(w), consumers[w].token)
  /\ consumers' = [consumers EXCEPT ![w] = Idle]
  /\ UNCHANGED <<taken, faults, dataVars>>

\* A heartbeat that failed once gives the request up without a word.
Abandon(w) ==
  /\ At(w, "settle") \/ At(w, "fail")
  /\ Fault
  /\ consumers' = [consumers EXCEPT ![w] = Idle]
  /\ UNCHANGED <<requests, taken, dataVars>>

Crash(w) ==
  /\ w \in Busy /\ Fault
  /\ consumers' = [consumers EXCEPT ![w] = Idle]
  /\ UNCHANGED <<requests, taken, dataVars>>

ClaimLapses(i) == Lapse(i, Busy) /\ UNCHANGED <<taken, consumers, dataVars>>

Consume(w) ==
  \/ \E i \in DOMAIN requests : Claim(w, i)
  \/ Download(w) \/ StoreFile(w) \/ SelectRows(w) \/ LockRows(w) \/ Activate(w)
  \/ Settle(w) \/ Fail(w)

Next ==
  \/ \E scope \in Scopes : EnqueueRefresh(scope) \/ EnsureInitial(scope)
  \/ \E w \in Workers : Consume(w) \/ ActivateFails(w) \/ Abandon(w) \/ Crash(w)
  \/ \E i \in DOMAIN requests : ClaimLapses(i)

Spec == Init /\ [][Next]_providerVars
-----------------------------------------------------------------------------
\* Whatever consumers overlap, a provider has at most one current snapshot,
\* its file is there, and the rows derived from it are of that snapshot; once
\* a refresh completed no provider is without one.
DerivedFollowsCurrent ==
  \A p \in Names :
    /\ Cardinality(Current(p)) <= 1
    /\ \A d \in Current(p) : d \in files[p] /\ derived[p] = d
    /\ derived[p] # None => Current(p) # {}
    /\ (\E i \in DOMAIN requests : requests[i].status = "completed") => Current(p) # {}
=============================================================================
