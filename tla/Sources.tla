------------------------------- MODULE Sources -------------------------------
(***************************************************************************)
(* AVdb posts, the movies they belong to and the cache jobs that use them: *)
(* the importer (resources/source_importer.py), the administrator's        *)
(* identification, merge and split (identification_api.py,                 *)
(* movie_source_service.py), the permanent rejection (rejection.py) and    *)
(* the worker, which reads the source of a job before and after its calls  *)
(* to 115 (source_rejection_client.py, source_submission.py).              *)
(* A movie is its normalized number, which is unique; a post is its        *)
(* (website, tid).                                                         *)
(***************************************************************************)
EXTENDS Functions

CONSTANTS Posts,    \* the posts of the releases
          Numbers,  \* normalized numbers
          None

VARIABLES movies,     \* the movies that exist
          pinned,     \* movies with metadata or cache jobs (RESTRICT keys)
          sources,    \* the resource_source row of a post, or NoSource
          rejections, \* posts with a source_rejection row
          importing,  \* the importer's transaction: its rows and what it read
          jobs,       \* the movie and the consumer of a post's live cache job
          worker,     \* the job the cache consumer works on, and its step
          stopped     \* the post whose job ended the worker process, or None

rows == <<movies, pinned, sources, rejections>>
vars == <<rows, importing, jobs, worker, stopped>>

NoSource == [status |-> "absent", movie |-> None, magnet |-> FALSE]
NoJob    == [movie |-> None, consumer |-> "none"]
Idle     == [post |-> None, step |-> "idle"]
NoImport == <<>>

Attached == {"identified", "manual"}

\* The CHECK constraints of resource_source and its key to movie; a job keeps
\* the movie it was created with.
TypeOK ==
  /\ movies \subseteq Numbers /\ pinned \subseteq movies
  /\ rejections \subseteq Posts
  /\ stopped \in Posts \cup {None}
  /\ \A p \in Posts :
       /\ sources[p].status \in {"absent", "pending", "rejected"} \cup Attached
       /\ sources[p].movie \in movies \cup {None}
       /\ sources[p].status \in Attached => sources[p].movie # None
       /\ sources[p].status \in {"absent", "pending"} => sources[p].movie = None
       /\ (sources[p].status = "rejected") <=> (p \in rejections)
       /\ sources[p].magnet <=> sources[p].status \in Attached \cup {"pending"}
       /\ jobs[p] = NoJob \/ (jobs[p].movie \in pinned /\ jobs[p].consumer \in {"offline", "resolver"})
  /\ DOMAIN importing \subseteq Posts
  /\ worker.step \in {"idle", "call", "reject", "reread", "fail"}
  /\ worker.post \in Posts \cup {None}

Init ==
  /\ movies = {} /\ pinned = {} /\ rejections = {}
  /\ sources = [p \in Posts |-> NoSource]
  /\ importing = NoImport
  /\ jobs = [p \in Posts |-> NoJob]
  /\ worker = Idle /\ stopped = None
-----------------------------------------------------------------------------
(* The importer. *)

\* Variant: the importer and a rejection do not exclude each other.
KeyFreeIgnored(p) == TRUE

\* lock_source_keys: the importer holds the advisory lock of each of its posts.
KeyFree(p) == p \notin DOMAIN importing

\* The rows of a batch whose post has no rejection.
Admitted(batch) == [p \in DOMAIN batch \ rejections |-> batch[p]]

\* A batch locks its keys and reads the rejections.
ImportStart ==
  /\ importing = NoImport
  /\ \E keys \in SUBSET Posts, number \in [Posts -> Numbers \cup {None}] :
       LET batch == Admitted([p \in keys |-> number[p]])
       IN /\ DOMAIN batch # {}
          /\ importing' = batch
  /\ UNCHANGED <<rows, jobs, worker, stopped>>

\* The upsert looks at the row as it is when it is locked.
ManualNow(p) == sources[p].status = "manual"

\* The row an import leaves behind; a manual identification keeps its movie.
Imported(p) ==
  LET number == importing[p]
  IN [status |-> IF ManualNow(p) THEN "manual"
                 ELSE IF number = None THEN "pending" ELSE "identified",
      movie  |-> IF ManualNow(p) THEN sources[p].movie ELSE number,
      magnet |-> TRUE]

\* The movies and then the sources are written, and the batch commits.
ImportCommit ==
  /\ importing # NoImport
  /\ movies' = movies \cup (Range(importing) \ {None})
  /\ sources' = [p \in Posts |-> IF p \in DOMAIN importing THEN Imported(p) ELSE sources[p]]
  /\ importing' = NoImport
  /\ UNCHANGED <<pinned, rejections, jobs, worker, stopped>>

ImportRollback ==
  /\ importing # NoImport /\ importing' = NoImport
  /\ UNCHANGED <<rows, jobs, worker, stopped>>
-----------------------------------------------------------------------------
(* The administrator. *)

\* identify: only a pending source, and once.
Identify(p, m) ==
  /\ sources[p].status = "pending" /\ m \in movies
  /\ sources' = [sources EXCEPT ![p].movie = m, ![p].status = "manual"]
  /\ UNCHANGED <<movies, pinned, rejections, importing, jobs, worker, stopped>>

\* merge moves every source and deletes the other movie, which fails when a
\* metadata job or a cache job refers to it.
Merge(target, m) ==
  /\ target \in movies /\ m \in movies \ ({target} \cup pinned)
  /\ sources' = [p \in Posts |-> IF sources[p].movie = m
                                 THEN [sources[p] EXCEPT !.movie = target] ELSE sources[p]]
  /\ movies' = movies \ {m}
  /\ UNCHANGED <<pinned, rejections, importing, jobs, worker, stopped>>

\* split gives a source a movie of its own, whatever its status is.
Split(p, m) ==
  /\ sources[p].movie # None /\ m \notin movies
  /\ movies' = movies \cup {m}
  /\ sources' = [sources EXCEPT ![p].movie = m]
  /\ UNCHANGED <<pinned, rejections, importing, jobs, worker, stopped>>

\* The seeder creates a metadata job for a movie with an attached source.
Seed(m) ==
  /\ m \in movies \ pinned
  /\ \E p \in Posts : sources[p].movie = m /\ sources[p].status \in Attached
  /\ pinned' = pinned \cup {m}
  /\ UNCHANGED <<movies, sources, rejections, importing, jobs, worker, stopped>>

\* The source is under the movie and its magnet can be sent.
Playable(p, m) ==
  sources[p].movie = m /\ sources[p].status \in Attached /\ sources[p].magnet

\* validate_for_play, in the transaction that creates the job.
Play(p, m) ==
  /\ jobs[p] = NoJob
  /\ Playable(p, m)
  /\ jobs' = [jobs EXCEPT ![p] = [movie |-> m, consumer |-> "offline"]]
  /\ pinned' = pinned \cup {m}
  /\ UNCHANGED <<movies, sources, rejections, importing, worker, stopped>>
-----------------------------------------------------------------------------
(* The cache consumer of the worker. *)

\* load_submission_ref finds the source of a job under the job's movie.
Readable(p) ==
  /\ sources[p].movie = jobs[p].movie
  /\ sources[p].status \in Attached \cup {"rejected"}

\* The offline worker fails the job of a source it cannot read; the resolver
\* does not catch the problem, which ends the process.
Unreadable(p) ==
  /\ ~Readable(p)
  /\ worker' = Idle
  /\ IF jobs[p].consumer = "offline"
     THEN jobs' = [jobs EXCEPT ![p] = NoJob] /\ UNCHANGED stopped
     ELSE stopped' = p /\ UNCHANGED jobs
  /\ UNCHANGED <<rows, importing>>

At(p, step) == worker = [post |-> p, step |-> step] /\ stopped = None
Go(p, step) == worker' = [post |-> p, step |-> step]

\* existing_failure, first thing under every claim.
Begin(p) ==
  /\ worker = Idle /\ stopped = None /\ jobs[p] # NoJob
  /\ \/ Unreadable(p)
     \/ /\ Readable(p)
        /\ Go(p, IF p \in rejections THEN "fail" ELSE "call")
        /\ UNCHANGED <<rows, importing, jobs, stopped>>

\* The calls to 115 end the job, hand it to the resolver, or show that the
\* source can never be played.
Call(p) ==
  /\ At(p, "call")
  /\ \/ worker' = Idle /\ jobs' = [jobs EXCEPT ![p] = NoJob]
     \/ worker' = Idle /\ jobs' = [jobs EXCEPT ![p].consumer = "resolver"]
     \/ Go(p, "reject") /\ UNCHANGED jobs
  /\ UNCHANGED <<rows, importing, stopped>>

\* reject reads the source, commits the rejection and reads it again.
Reject(p) ==
  /\ At(p, "reject")
  /\ \/ Unreadable(p)
     \/ /\ Readable(p) /\ KeyFree(p)
        /\ sources' = [sources EXCEPT ![p].status = "rejected", ![p].magnet = FALSE]
        /\ rejections' = rejections \cup {p}
        /\ Go(p, "reread")
        /\ UNCHANGED <<movies, pinned, importing, jobs, stopped>>

Reread(p) ==
  /\ At(p, "reread")
  /\ \/ Unreadable(p)
     \/ Readable(p) /\ Go(p, "fail") /\ UNCHANGED <<rows, importing, jobs, stopped>>

\* fail_rejected, in a transaction of its own.
Fail(p) ==
  /\ At(p, "fail")
  /\ jobs' = [jobs EXCEPT ![p] = NoJob] /\ worker' = Idle
  /\ UNCHANGED <<rows, importing, stopped>>

\* The process dies, and Docker starts it again (restart: unless-stopped).
Crash ==
  /\ worker # Idle /\ worker' = Idle
  /\ UNCHANGED <<rows, importing, jobs, stopped>>

Restart ==
  /\ stopped # None /\ stopped' = None
  /\ UNCHANGED <<rows, importing, jobs, worker>>

Next ==
  \/ ImportStart \/ ImportCommit \/ ImportRollback
  \/ \E p \in Posts, m \in Numbers : Identify(p, m) \/ Split(p, m) \/ Play(p, m)
  \/ \E target, m \in Numbers : Merge(target, m)
  \/ \E m \in Numbers : Seed(m)
  \/ \E p \in Posts : Begin(p) \/ Call(p) \/ Reject(p) \/ Reread(p) \/ Fail(p)
  \/ Crash \/ Restart

Spec == Init /\ [][Next]_vars
-----------------------------------------------------------------------------
(* Properties. *)

\* A rejected post stays rejected and never gets its magnet back, whatever a
\* batch that started before the rejection writes afterwards.
RejectedStays ==
  [][\A p \in rejections :
       /\ p \in rejections'
       /\ sources'[p].status = "rejected" /\ ~sources'[p].magnet]_vars

\* contracts/source-rejection-port.md:36-37: after a crash between the
\* rejection and the failure of the job, reading the identity of the source
\* lets the retry converge.
RetryConverges == stopped \notin rejections
=============================================================================
