------------------------------ MODULE AvdbSync ------------------------------
(***************************************************************************)
(* resources/sync_service.py, avdb_worker.py and source_importer.py: a     *)
(* request for a mode is claimed, a release is fetched and decrypted, and  *)
(* its run imports the rows batch by batch.  The run has a claim and a     *)
(* lease of its own and remembers in its cursor how far it came; a batch   *)
(* is imported in one transaction and the cursor advanced in the next.     *)
(* Rows are numbered through the assets of a release; a batch is one row.  *)
(***************************************************************************)
EXTENDS LeasedRequests

CONSTANTS Releases,  \* the releases the repository may have, by mode
          Assets     \* for a release: the number of rows of each asset

VARIABLES runs,      \* the synchronization run of each release
          imported,  \* the rows of each release the sources hold
          plaintext  \* the requests' tokens that have a directory of plaintext

avdbVars == <<requests, taken, consumers, faults, runs, imported, plaintext>>

RunStatus == {"none", "running", "completed", "failed"}
Start == <<1, 0>>   \* the cursor before the first row of the first asset

NoRun == [status |-> "none", owner |-> 0, live |-> FALSE, cursor |-> Start,
          total |-> 0, done |-> {}]

Pc == {"idle", "claim", "fetch", "start", "asset", "batch", "advance",
       "failrun", "owned", "complete", "fail"}
Idle == [pc |-> "idle", request |-> 0, token |-> 0, release |-> <<>>,
         at |-> Start, total |-> 0]

AssetCount(r) == Len(Assets[r])
RowsOf(r)     == UNION {{a} \X (1 .. Assets[r][a]) : a \in 1 .. AssetCount(r)}

\* The rows of a release up to a cursor, which is Start or the last row read.
RowsUpTo(r, at) ==
  {row \in RowsOf(r) : row[1] < at[1] \/ (row[1] = at[1] /\ row[2] <= at[2])}

TypeOK ==
  /\ RequestsTypeOK /\ ClaimFieldsOK
  /\ \A w \in Workers : /\ consumers[w].pc \in Pc
                        /\ consumers[w].request \in 0 .. MaxRequests
                        /\ consumers[w].release \in Releases \cup {<<>>}
  /\ DOMAIN runs = Releases
  /\ \A r \in Releases :
       /\ runs[r].status \in RunStatus /\ runs[r].cursor \in RowsOf(r) \cup {Start}
       /\ (runs[r].owner # 0) = (runs[r].status = "running")
       /\ runs[r].live => runs[r].status = "running"
       /\ runs[r].done \subseteq 1 .. AssetCount(r)
       /\ imported[r] \subseteq RowsOf(r)
  /\ plaintext \subseteq 1 .. taken

Init ==
  /\ RequestsInit
  /\ consumers = [w \in Workers |-> Idle]
  /\ runs = [r \in Releases |-> NoRun]
  /\ imported = [r \in Releases |-> {}]
  /\ plaintext = {}

Request(w) == consumers[w].request
Mine(w)    == Holds(Request(w), consumers[w].token)
Release(w) == consumers[w].release
Run(w)     == runs[Release(w)]
At(w, pc)  == consumers[w].pc = pc
Go(w, pc)  == consumers' = [consumers EXCEPT ![w].pc = pc]
Busy       == {w \in Workers : consumers[w].pc \notin {"idle", "claim"}}

\* The condition of every write to a run.
RunMine(w) == /\ Run(w).status = "running" /\ Run(w).live
              /\ Run(w).owner = consumers[w].token

rowVars == <<runs, imported>>
-----------------------------------------------------------------------------
(* The queue.                                                              *)

\* The cron job (a slot of its own), or the initial full run.
EnqueueMode(mode) ==
  /\ Enqueue(mode)
  /\ UNCHANGED <<taken, consumers, faults, rowVars, plaintext>>

\* Variant: only the first pass sweeps.
KeptAfterStart == IF taken = 0 THEN {} ELSE plaintext

\* The plaintext that a live claim protects.
Kept == {t \in plaintext : \E i \in DOMAIN requests : Holds(i, t)}

\* run_once first removes what other passes, or a crash, left.
Sweep(w) ==
  /\ At(w, "idle")
  /\ plaintext' = Kept
  /\ Go(w, "claim")
  /\ UNCHANGED <<requests, taken, faults, rowVars>>

Claim(w) ==
  /\ At(w, "claim")
  /\ \/ \E i \in DOMAIN requests :
          /\ ClaimNext(i)
          /\ consumers' = [consumers EXCEPT ![w] =
               [Idle EXCEPT !.pc = "fetch", !.request = i, !.token = taken']]
     \/ /\ \A i \in DOMAIN requests : ~Claimable(i)
        /\ Go(w, "idle") /\ UNCHANGED <<requests, taken>>
  /\ UNCHANGED <<faults, rowVars, plaintext>>

\* The release is downloaded and decrypted into the claim's own directory.
Fetch(w) ==
  /\ At(w, "fetch")
  /\ plaintext' = plaintext \cup {consumers[w].token}
  /\ \/ /\ \E r \in Releases :
             /\ r[1] = requests[Request(w)].scope
             /\ consumers' = [consumers EXCEPT ![w].pc = "start", ![w].release = r]
        /\ UNCHANGED faults
     \/ Fault /\ Go(w, "fail")
  /\ UNCHANGED <<requests, taken, rowVars>>

\* The finally clause removes the directory whatever happened.
Leave(w) ==
  /\ plaintext' = plaintext \ {consumers[w].token}
  /\ consumers' = [consumers EXCEPT ![w] = Idle]

Fail(w) ==
  /\ At(w, "fail")
  /\ FailRequest(Request(w), consumers[w].token)
  /\ Leave(w)
  /\ UNCHANGED <<taken, faults, rowVars>>

\* The heartbeat stops and the claim is renewed once more.
CheckOwned(w) ==
  /\ At(w, "owned")
  /\ Go(w, IF Mine(w) THEN "complete" ELSE "fail")
  /\ UNCHANGED <<requests, taken, faults, rowVars, plaintext>>

CompleteRequest(w) ==
  /\ At(w, "complete")
  /\ IF Mine(w) THEN Finish(Request(w), "completed") /\ Leave(w)
                ELSE Go(w, "fail") /\ UNCHANGED <<requests, plaintext>>
  /\ UNCHANGED <<taken, faults, rowVars>>
-----------------------------------------------------------------------------
(* The run.                                                                *)

\* Variant: a run that failed starts again from its first row, its counts not.
ResumedFromStart(run, token) ==
  [run EXCEPT !.status = "running", !.owner = token, !.live = TRUE, !.cursor = Start]

Resumed(run, token) ==
  [run EXCEPT !.status = "running", !.owner = token, !.live = TRUE]

RunTaken(run) ==
  run.status = "completed" \/ (run.status = "running" /\ run.live)

\* _start_run inserts the run, takes it over with its cursor and counts, or
\* finds it done; while another claim works on it the request fails.
StartRun(w) ==
  /\ At(w, "start")
  /\ IF RunTaken(Run(w))
     THEN /\ Go(w, IF Run(w).status = "completed" THEN "owned" ELSE "fail")
          /\ UNCHANGED runs
     ELSE /\ runs' = [runs EXCEPT ![Release(w)] = Resumed(@, consumers[w].token)]
          /\ consumers' = [consumers EXCEPT ![w].pc = "asset", ![w].at = Start,
                                            ![w].total = Run(w).total]
  /\ UNCHANGED <<requests, taken, faults, imported, plaintext>>

\* _complete.
CompleteRun(w) ==
  /\ runs' = [runs EXCEPT ![Release(w)].status = "completed",
                          ![Release(w)].owner = 0, ![Release(w)].live = FALSE]
  /\ Go(w, "owned")

\* _record_or_resume_asset: an imported asset is skipped, and the asset of
\* the cursor continues after the rows it has; after the last asset the run
\* completes.
NextAsset(w) ==
  /\ At(w, "asset")
  /\ LET a == consumers[w].at[1]
         offset == IF Run(w).cursor[1] = a THEN Run(w).cursor[2] ELSE 0
     IN \/ ~RunMine(w) /\ Go(w, "fail") /\ UNCHANGED runs
        \/ RunMine(w) /\ a > AssetCount(Release(w)) /\ CompleteRun(w)
        \/ /\ RunMine(w) /\ a <= AssetCount(Release(w))
           /\ consumers' = IF a \in Run(w).done
                           THEN [consumers EXCEPT ![w].at = <<a + 1, 0>>]
                           ELSE [consumers EXCEPT ![w].pc = "batch", ![w].at = <<a, offset>>]
           /\ UNCHANGED runs
  /\ UNCHANGED <<requests, taken, faults, imported, plaintext>>

\* import_batch writes without looking at any claim.
ImportBatch(w) ==
  /\ At(w, "batch")
  /\ LET r == Release(w) row == <<consumers[w].at[1], consumers[w].at[2] + 1>>
     IN /\ row \in RowsOf(r)
        /\ imported' = [imported EXCEPT ![r] = @ \cup {row}]
        /\ consumers' = [consumers EXCEPT ![w].pc = "advance", ![w].at = row,
                                          ![w].total = @ + 1]
  /\ UNCHANGED <<requests, taken, faults, runs, plaintext>>

\* No row of the asset is left: it is imported.
AssetImported(w) ==
  /\ At(w, "batch")
  /\ <<consumers[w].at[1], consumers[w].at[2] + 1>> \notin RowsOf(Release(w))
  /\ IF RunMine(w)
     THEN /\ runs' = [runs EXCEPT ![Release(w)].done = @ \cup {consumers[w].at[1]}]
          /\ consumers' = [consumers EXCEPT ![w].pc = "asset",
                                            ![w].at = <<consumers[w].at[1] + 1, 0>>]
     ELSE Go(w, "fail") /\ UNCHANGED runs
  /\ UNCHANGED <<requests, taken, faults, imported, plaintext>>

\* _advance stores cursor and counts and renews the lease of the run.
Advance(w) ==
  /\ At(w, "advance")
  /\ IF RunMine(w)
     THEN /\ runs' = [runs EXCEPT ![Release(w)].cursor = consumers[w].at,
                                  ![Release(w)].total = consumers[w].total]
          /\ Go(w, "batch")
     ELSE Go(w, "fail") /\ UNCHANGED runs
  /\ UNCHANGED <<requests, taken, faults, imported, plaintext>>

\* The import or the stream raises: a fault, or the plaintext was swept away
\* after the lease of the request lapsed.
BatchFails(w) ==
  /\ At(w, "batch") \/ At(w, "asset")
  /\ \/ Fault
     \/ consumers[w].token \notin plaintext /\ UNCHANGED faults
  /\ Go(w, "failrun")
  /\ UNCHANGED <<requests, taken, rowVars, plaintext>>

\* The run fails; its cursor and its counts stay for the next attempt.
FailRun(w) ==
  /\ At(w, "failrun")
  /\ runs' = IF RunMine(w)
             THEN [runs EXCEPT ![Release(w)].status = "failed",
                               ![Release(w)].owner = 0, ![Release(w)].live = FALSE]
             ELSE runs
  /\ Go(w, "fail")
  /\ UNCHANGED <<requests, taken, faults, imported, plaintext>>
-----------------------------------------------------------------------------
\* The heartbeat failed once, though the claim may still be held.
HeartbeatFails(w) ==
  /\ At(w, "start") \/ At(w, "owned")
  /\ Fault /\ Go(w, "fail")
  /\ UNCHANGED <<requests, taken, rowVars, plaintext>>

\* The worker process is killed; its directory of plaintext stays.
Crash(w) ==
  /\ w \in Busy /\ Fault
  /\ consumers' = [consumers EXCEPT ![w] = Idle]
  /\ UNCHANGED <<requests, taken, rowVars, plaintext>>

ClaimLapses(i) ==
  Lapse(i, Busy) /\ UNCHANGED <<taken, consumers, rowVars, plaintext>>

RunServed(r) == \E w \in Busy : Release(w) = r /\ consumers[w].token = runs[r].owner

\* The lease of a run lapses when its batch takes too long or nobody works.
RunLapses(r) ==
  /\ runs[r].live
  /\ IF RunServed(r) THEN Fault ELSE UNCHANGED faults
  /\ runs' = [runs EXCEPT ![r].live = FALSE]
  /\ UNCHANGED <<requests, taken, consumers, imported, plaintext>>

UnservedLapse ==
  \/ \E i \in DOMAIN requests : ~Served(i, Busy) /\ ClaimLapses(i)
  \/ \E r \in Releases : ~RunServed(r) /\ RunLapses(r)

Consume(w) ==
  \/ Sweep(w) \/ Claim(w) \/ Fetch(w) \/ StartRun(w) \/ NextAsset(w)
  \/ ImportBatch(w) \/ AssetImported(w) \/ Advance(w) \/ FailRun(w)
  \/ CheckOwned(w) \/ CompleteRequest(w) \/ Fail(w)

Next ==
  \/ \E mode \in Scopes : EnqueueMode(mode)
  \/ \E w \in Workers : Consume(w) \/ BatchFails(w) \/ HeartbeatFails(w) \/ Crash(w)
  \/ \E i \in DOMAIN requests : ClaimLapses(i)
  \/ \E r \in Releases : RunLapses(r)

Spec == Init /\ [][Next]_avdbVars
-----------------------------------------------------------------------------
\* However often a run is interrupted, taken over and continued, its counts
\* are those of the rows up to its cursor and these rows are imported: no
\* batch is skipped and none is counted twice.  A completed run imported every
\* row, and a completed request has a completed run of its mode.
NothingIsSkipped ==
  /\ \A r \in Releases :
       /\ runs[r].total = Cardinality(RowsUpTo(r, runs[r].cursor))
       /\ RowsUpTo(r, runs[r].cursor) \subseteq imported[r]
       /\ runs[r].status = "completed" =>
            imported[r] = RowsOf(r) /\ runs[r].done = 1 .. AssetCount(r)
  /\ \A i \in DOMAIN requests : requests[i].status = "completed" =>
       \E r \in Releases : r[1] = requests[i].scope /\ runs[r].status = "completed"

\* Decrypted plaintext does not stay: when its consumer is gone the next
\* passes of the loop remove it, at the latest when the lease has run out.
PlaintextGoes == \A t \in Tokens : t \in plaintext ~> t \notin plaintext

\* A request ends, although consumers are killed and leases lapse.
RequestsEnd ==
  \A i \in 1 .. MaxRequests :
    i \in DOMAIN requests ~> i \in DOMAIN requests /\ ~ActiveRequest(i)
=============================================================================
