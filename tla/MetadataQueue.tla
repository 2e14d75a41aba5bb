---------------------------- MODULE MetadataQueue ----------------------------
(***************************************************************************)
(* catalog/metadata_queue.py, metadata_seeder.py and metadata_api.py: the  *)
(* persistent queue of metadata jobs.  Each operator is one transaction;   *)
(* the movie row lock, the slot lock and the unique index on the active    *)
(* job of a number make it atomic.  A request that only reports an existing *)
(* job changes nothing and is not an action.                               *)
(***************************************************************************)
EXTENDS MetadataJob

CONSTANTS Movies,         \* the movies, one normalized number each
          MaxRunning,     \* MAX_RUNNING_JOBS and MAX_METADATA_CHILDREN
          InitialLimit,   \* INITIAL_LIMIT of the seeder
          MaxJobs,        \* bound of the model: jobs of all movies together
          Requests        \* bound of the model: the kinds of request per movie

RequestKinds == {"seed", "search", "ranking", "rescrape", "retry", "enrich", "pause"}

VARIABLES jobs,      \* the attempts at each movie, the oldest first
          catalog,   \* catalog_state of each movie
          paused,    \* the administrator stopped new claims
          seeding,   \* initial_completed_at is still empty
          seeded,    \* history: the movies queued with the initial batch
          claims     \* history: how many claim owners were made

queueVars == <<jobs, catalog, paused, seeding, seeded, claims>>

JobIds == Movies \X (1 .. MaxJobs)
CatalogState == {"raw_only", "metadata_queued", "metadata_running", "core_ready"}

QueueTypeOK ==
  /\ jobs \in [Movies -> Seq(JobRow)]
  /\ \A m \in Movies : /\ Len(jobs[m]) <= MaxJobs
                       /\ \A a \in 1 .. Len(jobs[m]) : RowWellFormed(jobs[m][a])
  /\ catalog \in [Movies -> CatalogState]
  /\ paused \in BOOLEAN /\ seeding \in BOOLEAN
  /\ seeded \subseteq Movies
  /\ claims \in Nat

QueueInit ==
  /\ jobs = [m \in Movies |-> <<>>]
  /\ catalog = [m \in Movies |-> "raw_only"]
  /\ paused = FALSE /\ seeding = TRUE
  /\ seeded = {} /\ claims = 0

Exists(m, a) == a \in 1 .. Len(jobs[m])
Latest(m)    == jobs[m][Len(jobs[m])]
NoActive(m) == \A a \in 1 .. Len(jobs[m]) : ~Active(jobs[m][a])

ActiveJobs  == {id \in JobIds : Exists(id[1], id[2]) /\ Active(jobs[id[1]][id[2]])}
RunningJobs == {id \in ActiveJobs : jobs[id[1]][id[2]].status = "running"}
LiveJobs    == {id \in RunningJobs : jobs[id[1]][id[2]].live}

SetJob(m, a, row) == jobs' = [jobs EXCEPT ![m][a] = row]

\* Variant: a later attempt hides the movie again.
CoreReadyOrNot(m, state) == [catalog EXCEPT ![m] = state]

CoreReadyOr(m, state) ==
  [catalog EXCEPT ![m] = IF @ = "core_ready" THEN @ ELSE state]

AddJob(m, reason, mode, requested, parent) ==
  /\ Cardinality({id \in JobIds : Exists(id[1], id[2])}) < MaxJobs
  /\ jobs' = [jobs EXCEPT ![m] = Append(@, NewJob(reason, mode, requested, parent))]
  /\ catalog' = CoreReadyOr(m, "metadata_queued")

Reprioritise(m, reason) ==
  /\ SetJob(m, Len(jobs[m]), [Latest(m) EXCEPT !.reason = reason])
  /\ UNCHANGED catalog

-----------------------------------------------------------------------------
(* Requests of users, of the administrator and of the seeder.              *)

Candidate(m) == jobs[m] = <<>> /\ catalog[m] = "raw_only"

\* The batch counts the jobs whose reason still is "initial".
InitialCount ==
  Cardinality({m \in Movies : \E a \in 1 .. Len(jobs[m]) : jobs[m][a].reason = "initial"})

\* One candidate of the first batch (SEED_BATCH_SIZE is 1 in the model).
SeedInitial(m) ==
  /\ seeding /\ InitialCount < InitialLimit
  /\ Candidate(m)
  /\ AddJob(m, "initial", "full", {}, 0)
  /\ seeded' = seeded \cup {m}
  /\ seeding' = (InitialCount + 1 < InitialLimit)
  /\ UNCHANGED <<paused, claims>>

\* No candidate or no quota is left: the first batch is complete.
MarkInitialComplete ==
  /\ seeding
  /\ InitialCount >= InitialLimit \/ \A m \in Movies : ~Candidate(m)
  /\ seeding' = FALSE
  /\ UNCHANGED <<jobs, catalog, paused, seeded, claims>>

SeedHistory(m) ==
  /\ ~seeding /\ Candidate(m)
  /\ AddJob(m, "history", "full", {}, 0)
  /\ UNCHANGED <<paused, seeding, seeded, claims>>

\* A search for the number puts its queued job before all others.
EnsureSearchPriority(m) ==
  /\ \/ jobs[m] = <<>> /\ AddJob(m, "manual_or_search", "full", {}, 0)
     \/ /\ jobs[m] # <<>> /\ catalog[m] # "core_ready"
        /\ Latest(m).status = "queued" /\ Latest(m).reason # "manual_or_search"
        /\ Reprioritise(m, "manual_or_search")
  /\ UNCHANGED <<paused, seeding, seeded, claims>>

\* A number of a ranking is raised to the ranking priority, never lowered.
EnsureRankingPriority(m) ==
  /\ catalog[m] # "core_ready"
  /\ \/ jobs[m] = <<>> /\ AddJob(m, "ranking", "full", {}, 0)
     \/ /\ jobs[m] # <<>> /\ Latest(m).status = "queued"
        /\ Priority(Latest(m)) > PRIORITY_BY_REASON["ranking"]
        /\ Reprioritise(m, "ranking")
  /\ UNCHANGED <<paused, seeding, seeded, claims>>

RescrapeMovie(m) ==
  /\ IF jobs[m] # <<>> /\ Active(Latest(m))
     THEN /\ Latest(m).mode = "full" /\ Latest(m).status = "queued"
          /\ Latest(m).reason # "manual_or_search"
          /\ Reprioritise(m, "manual_or_search")
     ELSE AddJob(m, "manual_or_search", "full", {}, Len(jobs[m]))
  /\ UNCHANGED <<paused, seeding, seeded, claims>>

ManualRetry(m, a) ==
  /\ Exists(m, a) /\ jobs[m][a].status = "failed" /\ NoActive(m)
  /\ AddJob(m, "manual_or_search", "full", {}, a)
  /\ UNCHANGED <<paused, seeding, seeded, claims>>

RetryEnrichment(m, a, requested) ==
  /\ Exists(m, a) /\ requested # {}
  /\ requested \subseteq RetryableStages(jobs[m], a, catalog[m])
  /\ NoActive(m)
  /\ AddJob(m, "manual_or_search", "missing_enrichment", requested, a)
  /\ UNCHANGED <<paused, seeding, seeded, claims>>

SetPaused ==
  /\ paused' = ~paused
  /\ UNCHANGED <<jobs, catalog, seeding, seeded, claims>>

Request ==
  \/ \E m \in Movies :
       \/ "seed" \in Requests[m] /\ (SeedInitial(m) \/ SeedHistory(m))
       \/ "search" \in Requests[m] /\ EnsureSearchPriority(m)
       \/ "ranking" \in Requests[m] /\ EnsureRankingPriority(m)
       \/ "rescrape" \in Requests[m] /\ RescrapeMovie(m)
       \/ \E a \in 1 .. Len(jobs[m]) :
            \/ "retry" \in Requests[m] /\ ManualRetry(m, a)
            \/ "enrich" \in Requests[m] /\ \E requested \in SUBSET Optional :
                                              RetryEnrichment(m, a, requested)
  \/ (\E m \in Movies : "seed" \in Requests[m]) /\ MarkInitialComplete
  \/ (\E m \in Movies : "pause" \in Requests[m]) /\ SetPaused

-----------------------------------------------------------------------------
(* Operations of a worker; the worker's own state is MetadataWorker's.     *)

\* Variant: one claim too many.
SlotFreeOffByOne == Cardinality(LiveJobs) <= MaxRunning

SlotFree == Cardinality(LiveJobs) < MaxRunning

\* The slot lock makes the count and the claim one step.
ClaimNext(m, a) ==
  /\ ~paused
  /\ SlotFree
  /\ Exists(m, a) /\ Claimable(jobs[m][a])
  /\ \A id \in ActiveJobs : Claimable(jobs[id[1]][id[2]]) =>
       Priority(jobs[m][a]) <= Priority(jobs[id[1]][id[2]])
  /\ claims' = claims + 1
  /\ SetJob(m, a, ClaimedJob(jobs[m][a], claims'))
  /\ catalog' = CoreReadyOr(m, "metadata_running")
  /\ UNCHANGED <<paused, seeding, seeded>>

FailJob(m, a) ==
  /\ SetJob(m, a, FailedJob(jobs[m][a]))
  /\ catalog' = CoreReadyOr(m, "raw_only")
  /\ UNCHANGED <<paused, seeding, seeded, claims>>

StartStage(m, a, token, stage) ==
  /\ HoldsClaim(jobs[m][a], token)
  /\ jobs[m][a].stages[stage] = "pending"
  /\ SetJob(m, a, [jobs[m][a] EXCEPT !.stages[stage] = "running"])
  /\ UNCHANGED <<catalog, paused, seeding, seeded, claims>>

FinishStage(m, a, token, stage, status) ==
  /\ HoldsClaim(jobs[m][a], token)
  /\ jobs[m][a].stages[stage] = "running"
  /\ SetJob(m, a, [jobs[m][a] EXCEPT !.stages[stage] = status])
  /\ UNCHANGED <<catalog, paused, seeding, seeded, claims>>

CanComplete(m, a, token, warnings) ==
  /\ HoldsClaim(jobs[m][a], token)
  /\ catalog[m] = "core_ready"
  /\ \A stage \in Stages : jobs[m][a].stages[stage] \notin {"pending", "running"}
  /\ warnings = HasWarnings(jobs[m][a])

Complete(m, a, token, warnings) ==
  /\ CanComplete(m, a, token, warnings)
  /\ SetJob(m, a, FinishedJob(jobs[m][a], IF warnings THEN "completed_with_warnings"
                                                      ELSE "completed"))
  /\ UNCHANGED <<catalog, paused, seeding, seeded, claims>>

\* CoreMetadataImporter.import_core: the fence of the write is the claim and
\* the stage it runs; the movie becomes core_ready with the import.
ImportCore(m, a, token) ==
  /\ HoldsClaim(jobs[m][a], token)
  /\ jobs[m][a].stages[Core] = "running"
  /\ catalog' = [catalog EXCEPT ![m] = "core_ready"]
  /\ UNCHANGED <<jobs, paused, seeding, seeded, claims>>
==============================================================================
