# TLA+ models of SakuraPlayer

SakuraPlayer is a private media library. A Python backend (API, worker and
scheduler processes over one PostgreSQL database) collects magnet sources and
movie metadata; a movie that somebody wants to watch is downloaded on demand
into the owner's 115 cloud account and streamed from there; a Windows client
(Flutter) and a Harmony client (ArkTS) show the library and follow the backend
by an event stream. This directory holds TLA+ specifications of the parts in
which processes, requests, faults and time meet, the TLC configurations that
check them on small instances, and TLAPS proofs of the properties that matter
most. Source paths below are relative to `backend/src/sakuraplayer` unless they
start with `backend/`, `windows/`, `harmony/` or `docs/`.

Contents: [1 the system](#1-the-system) - [2 the modules](#2-the-modules) -
[3 the runs](#3-the-runs) - [4 fairness](#4-fairness) - [5 the proofs](#5-the-proofs) -
[6 where code and documents differ](#6-where-code-and-documents-differ) -
[7 what is left out](#7-what-is-left-out) - [8 plan](#8-plan).

How to run everything:

    tlc -config cache_one_job.cfg MCCacheJob      (likewise the other .cfg files, section 3)
    tlapm CachePipelineProofs.tla                 (likewise the other *Proofs.tla, section 5)

## 1 The system

The processes share one database and nothing else. An API request is a
transaction or two; a worker process runs several consumer loops, each of which
claims a row, works on it outside of any transaction, and writes the results in
transactions that are fenced by the claim. Claims expire, processes are killed
and restarted, and every external service may be slow, wrong or gone. Clients
see REST answers and an event stream that carries the sequence number of each
change.

| Component | State it keeps | Operations | What is hard, and what makes it correct |
|---|---|---|---|
| Cloud cache: job state machine (`cloud_cache/domain`, `models.py`, `capacity.py`) | `cache_job` (status, capacity class, progress at 115), counts under an advisory lock | legal transitions, capacity admission | Writes that move jobs without the lock; a cancelling job has no class of its own. The limits hold, terminal jobs stay. |
| Cloud cache: play requests and job API (`play_request.py`, `cancellation.py`, `cache_api.py`, `media_selection.py`) | `cache_play_request` (idempotency keys) | request, cancel, manual cleanup, selection | Two clicks, a click or a cancellation in the middle of a worker's call. One live job per source; a cancelled job is not submitted. |
| Cloud cache: claim queue, offline worker (`cloud_cache/worker/claim.py`, `cloud_cache/worker/offline.py`) | claim token, owner, expiry on `cache_job` | claim, 11 fenced writes, calls to 115 | Lost answers, expired claims, restarts. The magnet is sent at most once; the slot is given back. |
| Cloud cache: resolver (`worker/resolution.py`, `media_*`) | media rows, candidates | inspect, complete, detach, reject the source | Rejection and failing the job are two transactions. |
| Cloud cache: cleanup worker and retention (`cleanup.py`, `ttl_lru.py`) | attempts, expiry, last access | claim, evict, delete, end | Busy retries, leases against evictions read in other snapshots, counts read by two statements. |
| Cloud cache: 115 binding (`binding_service.py`, `qr_service.py`) | account binding, credential version, QR attempts | bind, remove, open a scope, QR login | Scopes of an old credential that end late; removal against live jobs. |
| Events (`events/outbox.py`, `websocket.py`, `snapshot.py`) | `event_sequence`, outbox, per-connection cursor | append, poll, snapshot, prune | No event may become visible behind a cursor; a snapshot and the events after it must fit together. |
| Metadata queue and supervisor (`catalog/metadata_queue.py`, `metadata_state.py`, `worker/metadata_supervisor.py`, `metadata_child.py`) | metadata jobs, attempts, stages, three slots | claim, heartbeat, finish a stage, complete, fail, request, rescrape | Child processes killed at any point, late ticks, row locks in two orders. |
| Rankings, search, favorites (`discovery`) | ranking requests, runs, snapshots | request, claim, activate | One current snapshot per board. |
| AVdb synchronization (`resources/sync_service.py`, `resources/avdb_worker.py`) | requests, runs, cursor | claim, import a batch, advance, finish | Batches repeated after a crash. |
| Sources (`resources/source_importer.py`, `identification_api.py`, `movie_source_service.py`, `rejection.py`) | sources, movies, rejections | import, identify, merge, split, reject | An import that races a rejection; a source that is moved under a live job. A rejection is permanent. |
| Provider snapshots (`catalog/provider_snapshots.py`, `worker/provider_snapshots.py`, reconcilers) | requests, snapshot rows, files, derived rows | refresh, activate, rebuild | Activations are not fenced by the claim. What is derived follows the current snapshot. |
| Core import, images, translation (`catalog/core_import.py`, `image_store.py`, `translation/service.py`, `providers/runtime.py`) | movies, image rows and files, translation records | the stages of a metadata job | Files and paid calls are not transactional. No text is paid for twice; an image has its file. |
| Playback (`playback/session.py`, `lease.py`, `heartbeat.py`, `progress.py`, streams) | sessions, leases, progress versions | start, heartbeat, end, report progress, stream | Reports of several devices, late and out of order, and conflicts. No update is lost. |
| Identity (`identity/service.py`, `secrets.py`) | the one user, sessions, refresh tokens, epoch | bootstrap, login, refresh, logout, change settings | Rotation with lost answers, reuse, logout against refreshes. |
| Worker and scheduler processes (`worker/__main__.py`, `cloud_cache/worker`, `scheduler`) | control state | run the consumers, trigger requests | Restart at any point; one exception ends all consumers. |
| Windows client (`windows/lib`) | event store, tokens, player and progress | recover, apply, reconnect, refresh, report | Callbacks that run while a recovery, a refresh or the creation of a session is in flight. |
| Harmony client (`harmony`) | the same | the same | The same, with another store. |
| API, settings, diagnostics, configuration, migrations, queries, search, favorites | single rows, files | read-only or single-row operations | No protocol of their own. |

How they interact: the API creates cache jobs, metadata jobs, ranking and AVdb
requests as rows; the worker's consumers claim these rows; each state change
that clients see appends to the outbox in the same transaction; the websocket
polls the outbox; clients that miss a number read a snapshot. Playback leases
are rows that cleanup reads. A source rejected by the resolver or by the offline
worker is not offered again. All deletion at 115 is done by the cleanup worker.

The 115 account is external: it holds, per job, a directory and an offline
task; a call may take effect and be answered with an error; its owner, or 115
itself, may remove what is there.

The hazards of this code, each with its line and the properties that watch it,
are the list `hazards` of `PROJECT.json`.

## 2 The modules

| Module | Models | Code |
|---|---|---|
| `CacheJob` | Statuses, legal transitions, capacity classes. Constant-level only. | `cloud_cache/domain/cache_job.py`, `cancellation.py` |
| `CacheLedger` | Abstract specification: what clients are promised. Four variables: status, class, source, request. | the union of the above, without workers |
| `CacheRows` | The shared state, its types, and helpers on rows. | `models.py`, `capacity.py` |
| `CacheApi` | The API's transactions. | `play_request.py`, `cancellation.py`, `cleanup.py` (request), `media_selection.py`, `playback/lease.py` |
| `CacheClaimQueue` | Claims and the writes fenced by them. | `worker/claim.py` |
| `CacheOfflineWorker`, `CacheResolver` | The calls between two writes, and where each answer leads. | `worker/offline.py`, `worker/resolution.py`, `resources/rejection.py` |
| `CacheCleanup` | Attempts at deletion. | `cleanup.py` |
| `CachePipeline` | Composition: API, workers and crashes, time, the 115 account; `Spec`, `FairSpec`, all properties. | `worker/resolution.py` (`CacheWorkerPipeline`), and the above |
| `MCCache`, `MCCacheJob`, `CacheFindings` | Instances for TLC; statements of documents that do not hold. | |
| `CacheRetention` | The eviction transaction, statement by statement, against leases. | `cleanup.py` (`claim_next`), `ttl_lru.py`, `playback/lease.py`, `playback/heartbeat.py` |
| `Selection` | What a query selects from an ordered table, as a function that proofs can look into. | `cleanup.py` (the candidates of an eviction) |
| `EventOutbox` | Domain events: numbers given out under a row lock, commits, rollbacks, what a reader sees. | `events/outbox.py`, `events/models.py` |
| `EventSync` | Websocket, snapshot and the Windows client that follows them. | `events/websocket.py`, `events/snapshot.py`, `cloud_cache/snapshot.py`, `windows/lib/core/events` |
| `WorkQueue` | Abstract specification of a queue of leased work: one open attempt per key, fresh claims, each ended once (by whom is fenced, and checked, in the components: `End` names no worker). | the promise of the next ones |
| `LeasedRequests` | What the three request queues have in common: rows, claims, lapses, fenced ends. | `resources/sync_service.py`, `discovery/ranking_sync.py`, `catalog/provider_snapshots.py` (their queues) |
| `AvdbSync` | Requests and runs of the AVdb synchronization, the cursor, batches, plaintext directories. | `resources/sync_service.py`, `resources/avdb_worker.py` |
| `RankingSync` | Rankings: requests, claims, the current snapshot. Implements `WorkQueue`. | `discovery/ranking_sync.py`, `worker/rankings.py` |
| `ProviderSnapshots` | Weekly refresh of the providers' files and what is derived from them. | `catalog/provider_snapshots.py`, `worker/provider_snapshots.py` |
| `MetadataJob`, `MetadataQueue` | The row of a metadata job, its stages and transitions; the transactions of the queue. | `catalog/metadata_state.py`, `metadata_queue.py`, `metadata_seeder.py`, `metadata_api.py` |
| `MetadataWorker` | Supervisor, children, time. Implements `WorkQueue`. | `worker/metadata_supervisor.py`, `worker/metadata_child.py` |
| `MovieContent` | What the stages write about one movie: core, image files, translations. | `catalog/core_import.py`, `image_store.py`, `providers/runtime.py`, `translation/service.py` |
| `Sources` | Posts, movies, rejections; importer, administrator, and the worker's reads. | `resources/source_importer.py`, `movie_source_service.py`, `identification_api.py`, `rejection.py`, `source_submission.py` |
| `Cloud115Binding` | QR logins, the binding with its encrypted cookie, credential scopes. | `cloud_cache/qr_service.py`, `binding_service.py`, `identity/secrets.py` |
| `Identity` | Sessions, rotation, epoch; the Windows client's token store and single-flight refresh. | `identity/service.py`, `windows/lib/core/api`, `core/auth`, `features/auth` |
| `Playback` | Sessions, progress versions, heartbeats; the Windows player and progress controllers. | `playback/session.py`, `progress.py`, `heartbeat.py`, `windows/lib/features/playback` |
| `MCCatalog`, `MCServices`, `MCMetadata` | Instances for TLC of the modules above. | |
| `CacheLedgerProofs`, `CachePipelineProofs`, `CacheRetentionProofs`, `EventSyncProofs`, `CatalogProofs` (of `MCCatalog`), `ServicesProofs` (of `MCServices`) | Theorems. | |
| `SelectionProofs`, `MetadataProofs` | Lemmas about `Selected`; the metadata queue, whose results `CatalogProofs` and `ServicesProofs` instantiate. | |

### State of the pipeline

A database transaction that runs under row locks is one step. What a worker
does between two transactions (a call to 115, a read of another table) is a
step of its own, named after the function: `step[w]` is the next thing worker
`w` does, `at[w]` the job it has claimed, `stage[w]` the consumer whose turn it
is. So every interleaving of the API, other workers, expiries and crashes with
the points where the code holds no lock is explored.

| Variable | Code |
|---|---|
| `status`, `cap`, `source` | `cache_job.status`, `capacity_class`, `source_id` |
| `req` | `cache_play_request`: idempotency key to job |
| `cid`, `started`, `hash` | `task_dir_cid`, `submit_started_at`, `remote_info_hash` are set |
| `holder`, `lease` | `claim_token` belongs to this worker; `claim_expires_at` is empty, ahead or past |
| `pollDue`, `retrying` | `updated_at` is `OFFLINE_POLL_DELAY` old; `failure_code` was set by `defer` |
| `attempts` | number of `cache_cleanup_attempt` rows |
| `leased` | an unexpired playback lease exists |
| `rejected` | `source_rejection` rows |
| `dir`, `task`, `submits` | at 115: the task directory, the offline task, submissions received |

Each claim writes a fresh token, so `holder[j] = w` together with `at[w] = j`
stands for "the row carries the token this worker was given". A worker that is
killed forgets its token; the row keeps it until it expires. A job claimed again
by the same worker has a new token, and the old one is gone with the step that
used it.

Abstractions, all of which add behaviour or drop only what no property sees:

- Time is nondeterministic: claims expire, polls fall due and leases end
  whenever they may.
- The test for an existing failure, the opening of the 115 scope and the
  dispatch on the status happen right after the claim and write nothing, so
  they are part of it (`FirstSteps`).
- Failure codes, cleanup reasons, events, notifications and timestamps are left
  out where they do not decide anything.
- `FOR UPDATE SKIP LOCKED` is not modelled in the pipeline: a transaction is one
  step, so nothing is found locked. In `CacheRetention` it is.
- The pipeline evicts any materialized, unclaimed job at any time, leased or
  not. This is wider than the code; `CacheRetention` has the real condition.
- Kinds of faults can be switched off by the constant `Faults`, to keep an
  instance about one question small. `transient`, `permanent`: an error from 115
  or from opening a scope; `uncertain`: the answer of a submission is lost;
  `source`: 115 refuses the magnet, or the files are blocked; `busy`: 115 is
  busy with a deletion; `vanish`: things are removed at 115; `crash`: a worker is
  killed.

### Retention

`CacheRetention` looks at one transaction, `CleanupQueue.claim_next`, with a
finer grain. It runs at READ COMMITTED: the count of jobs being cleaned, the
count of ready jobs and the selection of a victim are statements with snapshots
of their own (`CountCleaning`, `CountReady`, `SelectVictims`), and the locking of
the victim (`Evict`) evaluates the condition again on the row's newest version,
but not on the leases of another table. Sessions take a lease in two steps
(`BeginLease`, `CommitLease`), because the row lock they hold in between is what
`SKIP LOCKED` skips. The capacity advisory lock excludes other claims, manual
requests and cancellations for the whole transaction, and nothing else.

### Events

In `EventOutbox` an event is its number: `event[n]` is the resource (an
aggregate of a stream) it is about, `owner[n]` the transaction that appended it
and has not ended, `expired` the numbers older than 30 days. A resource is known
to clients by the number of the last event about it, which stands for its
contents. The row lock on `event_sequence` is the guard `SequenceFree`; a
rollback returns its numbers.

`EventSync` adds one connection and one client.

| Variable | Code |
|---|---|
| `link`, `timer` | `EventClient._connection` and `_connecting`; `_reconnectTimer` is pending |
| `cursor`, `channel` | `events_websocket`'s cursor; what is sent and not yet received |
| `recovery` | `SnapshotController._recoveryInFlight`: request sent, being read, notifications being delivered |
| `waiters` | the callers suspended in `await recover()` that connect afterwards (start and foreground; the timer) |
| `answer`, `unread` | the snapshot under construction, and the resources not read yet |
| `version`, `rows`, `baseline` | `snapshotVersion`, the resources, `_resourceVersions` (an empty set is null) |

The Dart code runs on one thread but is suspended at each `await`. A message
that arrives during a recovery is handled at once (`IgnoreEvent`, `RecoverFrom`,
`ApplyEvent`), and the snapshot later replaces what it applied. The snapshot
service reads its watermark first and each class of resources by a later
statement, at READ COMMITTED (`ReadWatermark`, `ReadRows`), so that its rows may
be newer than its version.

Abstractions: cache jobs stand for everything that exists from its first event
on (metadata jobs and notifications, whose patches ask for no refresh: the
refresh is a choice), the credential for what is always there. A patch carries
the state of its event. Events expire in order, and not during a recovery, a
connection attempt or before they are sent: 30 days are longer than that. Left out are the limit of 100
items per class, `_seenEventIds` (the test of the sequence subsumes it),
malformed messages, reauthentication, disposal, and silent connections.
`FailRecovery` sets the timer only if the timer's callback is among the waiters:
the exceptions of a failed start or foreground are swallowed until the next
foreground.

### Queues of leased requests

The scheduler inserts a request, a consumer thread claims it under a fresh token
and a lease, a heartbeat thread renews the lease, and every later write carries the
token. `LeasedRequests` holds the rows and these steps; `taken` counts the tokens made.
A lease lapses (`Lapse`) freely once nobody works under it, and at the cost of a
fault while its consumer is at work: late heartbeats.

| Variable | Code |
|---|---|
| `requests`, `consumers` | the rows of the request table; what each consumer thread does (`pc`) and holds |
| `runs`, `imported`, `plaintext` | `AvdbSync`: `avdb_sync_run` with its own claim, the rows imported, the directories of decrypted files |
| `snapshots`, `fetches` | `RankingSync`: `ranking_snapshot` rows of a board, and the rankings fetched so far |
| `rows`, `derived`, `files` | `ProviderSnapshots`: status per digest, the digest that the rebuilt rows come from, files |

A batch of the AVdb import is one row, a release has two assets of which the
first has two rows. An activation of a provider snapshot is not fenced by the
claim; its SELECT ... FOR UPDATE statements are two steps (`SelectRows`, `LockRows`)
because a row another transaction superseded drops out when it is locked and its
successor is not seen; the unique indexes then refuse the transaction.

### The metadata queue

`jobs[m]` is the sequence of attempts of movie `m`. `MetadataQueue` has one operator
per transaction (`claim_next`, `start_stage`, `finish_stage`, `complete`, `fail`, the
requests); `MetadataWorker` adds the supervisor (`slot`: the claim it is about to
launch; `children`: its table) and the child processes (`procs`: their next step
and stages to do). A child that is killed stops anywhere; one whose worker died is
killed by its watchdog some time later, and writes until then as far as its claim
allows. A claim lapses when a tick is late, and the hard timeout passes at any
time of a running job.

### Movie content

`MovieContent` looks inside the stages for one movie: `job.holder` is the child with
the claim. Its transactions are fenced, but the file of an image is stored before
the transaction that refers to it, and a translation is reserved, marked as
dispatched, sent and concluded by separate transactions. `stray` holds the files that
children discarded after they had lost their claim, each until a commit finds it on
disk again; that an image may lose its file that way is a finding of section 6.

### Sources

A movie is its number and a post its (website, tid). An import holds the advisory
locks of its posts from the first read to its commit (`ImportStart`, `ImportCommit`);
a rejection takes the same lock (`KeyFree`). `worker` is the resolver or offline worker
at one job, between the reads of the source before and after its calls; `stopped`
names the post whose read raised an exception that nobody catches.

### Accounts and playback

In `Identity` a refresh token is a session and a rotation number. Requests of the client
are steps: sent, served, answered; memory and secure storage are written by separate
steps (`StoreRefresh`, `StoreAccess`), since the client may be killed in between.
`refresh` is the one refresh in flight, which refused requests join.

In `Cloud115Binding` a cookie is its login and how often 115 rotated it. A scope
(`probe`, `validate`, `operation`) is opened by two statements without a lock: `OpenScope` reads
the binding, `ReadCookie` the cookie, and a commit between them that changed the version turns
the reader away (`state_conflict`, for a cache operation `cloud115_protocol_error`). A scope that opened
writes a verdict and a possibly rotated cookie when it ends (`FinishScope`), however
late. A QR session is polled and confirmed under its lock, and confirmed again when the saving failed.

In `Playback` a request is admitted under the epoch and executed by a later
transaction; one whose client gave up is executed later or never (`late`). `seen` records
the versions a client was told; the property compares every update with it.

`MCCatalog` and `MCServices` put modules that share no row into one run: `part` says
which of them a behaviour is about, so that their state spaces add instead of multiply.

## 3 The runs

| Run | Module | Instance | Distinct states |
|---|---|---|---|
| `cache_one_job` | `MCCacheJob` | 1 job, 2 workers (fairness of the first), every fault | 134,901 |
| `cache_three_jobs` | `MCCache` | 3 jobs of 2 sources, 3 keys, 1 running and 1 queued slot | 657,793 |
| `cache_retention` | `CacheRetention` | 3 jobs, 1 worker, room for 1 ready job, fairness | 142,716 |
| `event_sync` | `EventSync` | 3 events, 2 writers, a cache job and the credential, fairness | 290,000 |
| `catalog` | `MCCatalog` | 2 consumers, 2 requests (rankings 3), 2 providers and digests, 1 movie with 2 metadata jobs, 1 fault, fairness | 342,000 |
| `services` | `MCServices` | 2 installations, QR codes, scopes, posts, numbers, children, texts, images; 2 movies with 2 metadata jobs between them, which have the core stage only; 1 fault | 1,006,779 |
| `event_gap` | `EventSync` | 2 events, 1 writer, no fault, fairness | stops at the violation |
| `cache_backoff`, `cache_cancel_rejected`, `cache_lease_race`, `source_moved`, `metadata_running` | `CacheFindings`, `CacheRetention`, `Sources`, `MCMetadata` | the smallest in which the statement fails | stops at the violation |

**cache_one_job.** One life of one job through everything that can happen to it. Two
workers take it from each other through expiries and through the two-second poll,
which takes over an unexpired claim. The properties named `Alone...` are stated of the behaviours in which the second worker never
runs, as the system is deployed.
`RowsWellFormed` collects what the domain object, the CHECK constraints and the
callers expect of a row. `AtMostOneSubmission`: 115 receives the magnet once.
`ClaimHolderCanWrite`: a worker that holds its claim is never refused for another
reason; the resolver and the cleanup worker do not catch that exception, and it
would end the process. `CancelledIsNeverSubmitted`:
a job whose cancellation was confirmed before its submission started is never
submitted, although `mark_submit_started` does not test the status; it is the
row returned by `save_task_directory` that tells the worker.
`AloneCleanedLeavesNothing`: when a job is reported cleaned, neither a directory nor a
running download of it is left at 115; this is the property for which
cancellation keeps the claim of a worker that may be creating the directory, and
it breaks when an expired claim is not counted as such. `AloneCancellationConverges`,
`AloneCleaningEnds` and `AloneSubmissionSettles`: no slot is held for ever. `AloneCleaningEnds` promises the end of a
deletion only if 115 stops being busy at some time (`BusyEnds`), as REQ-CHG-335 does; that the code also ends it at a
limit of attempts is not used, and is a finding of section 6.

**cache_three_jobs.** Three jobs compete for one running and one queued slot, and
a source may come back after its job ended. `CapacityRespected`,
`OneLiveJobPerSource`, `TerminalIsFinal`, and `LedgerSpec`: the pipeline
implements the abstract ledger.

**cache_retention.** `EvictionIsNeeded`: a job that has not expired is evicted
only while there really are too many, although the counts were read by earlier
statements. `LeaseBeatsExpiry`: a lease committed after the candidates were
selected still wins against an expiry. `RetentionConverges`: expired or
superfluous jobs that nobody plays do not stay.

**event_sync.** `NothingIsMissed`: what the client shows includes every event up to
its version. It relates the lock of the outbox, the order in which the
snapshot reads and the client's tests; with numbers from an unlocked
sequence the watermark passes an event that is committed later.
`ContinuationIsApplied`: an event that continues the sequence for a resource the
client holds is applied; were a snapshot's stream versions guessed as 0, a client that
starts late would throw it away.

`ReconnectCatchesUp`: what was committed while the
connection was closed is held some time after, although the reconnect may join a
recovery whose snapshot is older: the connection that follows sends all events that are kept.
The configuration has no failing start (`fail`), which the code leaves to the user's
next return to the foreground.

**catalog.** The queues that fill the catalog. `NothingIsSkipped`: however often a run of the
AVdb synchronization is interrupted and taken over, its counts are those of the rows up to its cursor and
these rows are imported; a resumed run whose cursor were reset while its counts stay breaks it.
`PlaintextGoes`: decrypted files are removed although the process that wrote them was killed;
it needs the sweep in each pass, since the first one spares files of a request that is still claimed.
`RequestsEnd`: requests of consumers that are gone are taken over.
`OneSnapshotPerRequest` and `RankingImplementsWorkQueue`: each completed request stored one ranking, the newest
is current, and the requests of a board implement the abstract queue. `DerivedFollowsCurrent`: whatever
consumers overlap, a provider has one current snapshot, its file and the rows derived
from it. `CatalogFollowsJobs`: the state the catalog shows for a movie is that of its youngest job, over kills,
late ticks, restarts and all requests. `ActiveJobsEnd`: a metadata job ends although its child hangs.

**services.** `ReuseMeansLoss`: a session is revoked for the reuse of a token only after an answer was lost or the client killed;
requests refused at the same time, logins and logouts never cause it (without the single flight they do).
`VersionsAgree`: binding and encrypted cookie are of one version and account, and a scope that opens has the account and
the cookie of its version although others commit between the two statements of its reader. `RescanWins`: a scope
of an old credential does not undo a newer one. `NoLostUpdate`: a progress update
replaces only a state its client was told of. `RejectedStays`: no import, identification or move
brings a rejected source back. `PaidOnce`: a text is sent to the translation service at most once,
whatever lapses. `OnlyStaleChildLosesFile`: an image loses its file only to a child that discards this very file without
having the claim any more; failed commits, kills, repeated downloads and equal contents never cost it. `SlotsRespected`, `ImplementsWorkQueue`: two movies compete for one slot, and
the metadata queue implements the abstract queue.

Bounds, and why they suffice:

- `MaxJobs`: no step reads or writes two jobs, except through counts and through
  "oldest first". One job shows every order of events of one life; three jobs are
  the smallest number with one running, one queued and one more request, or a
  finished job whose source comes back.
- `Keys`, `Sources`: three requests, two of which may share a source.
- `Workers`: two workers already give the stale writer and the new claimant; a
  third would be another stale writer, and stale writers never meet.
- `BusyMaxAttempts = 2`, `MaxAttempts = 3` (the code: 60): an attempt below, at and
  above the limit. `MaxAttempts` only caps the counter; its value beyond
  the limit is not read.
- `RunningCapacity = QueuedCapacity = 1` (the code: 2 and 10): the limits are reached
  and exceeded attempts happen. The theorems hold for all values.
- `MaxEvents = 3`: with three numbers one transaction can hold a number back while another is visible,
  a client can miss one and receive the next two, and a resource can have three stream versions.
- `catalog`: releases, assets and providers are fixed by `MCCatalog` (the theorems leave them open). Two consumers are a stale one and its successor. Two requests of a mode share a run; three of the
  rankings let a board have two snapshots and a failed request besides the other board's.
  Releases: an asset with two rows and another, so a run can be interrupted inside an asset and between two. `MaxFaults = 1` of each
  part: every property names a single crash or lapse as its danger, and each mutant is found with it;
  liveness is checked after the last fault.
- `services`: two of each kind is one that is stale and one that is new: two scopes, two QR logins, two children of
  one job, two installations, two numbers between which a source moves. One account, since another one is refused while there is a binding (`OtherAccount`); after a removal another account
  may be bound, which the theorem `BindingAgrees` covers (with two accounts the run passes too, in 2.1 million states). `MaxVersion = 2`: one
  update both devices have seen, and one that the other overwrites or is refused for; nothing is reported after the second. The
  optional stages of a metadata job are in `catalog`; here two movies compete for the slot.
- `ReadyCapacity = 1` (the code: 20) with three jobs: one too many, and two too many.

`AloneCleanedLeavesNothing`, the three liveness properties of `cache_one_job`, and `EvictionIsNeeded` are checked with one worker process,
which is how the system is deployed (`backend/docker-compose.yml:87`). `CleanedLeavesNothing` and `EvictionIsNeeded` fail with
two: a stale worker's calls to 115 are not fenced, and `complete_cancel` takes no
capacity lock. All other properties hold with any number of workers.

Deadlock is not checked: when every job has ended and every key, request or number is used, nothing is left
to do.

Each property is paired with a mutant (the definitions marked "Variant:"), a plausible
mistake in the code under which TLC finds the property violated.

## 4 Fairness

Workers are loops that never stop (`worker/__main__.py`), so each takes a step when it can:
`WF_vars(WorkerNext(w))` (in `cache_one_job` only the first: the second may stop at any time). Claims expire and polls fall due, because the clock runs. A lease of a job
that is not ready runs out, because a heartbeat needs a ready job.

What is not guaranteed is that no disturbance happens for ever: a worker that is killed in
each attempt, or a claim that always runs out during the call, makes no progress, and the code
promises none. `Undisturbed` names these disturbances (crashes, expiries in the middle of
work, transient errors), and the liveness properties are stated under `<>[][Undisturbed]_vars`:
some time after the last of them, things converge. 115 may go on refusing
magnets and losing directories for ever, and being busy too, except for `AloneCleaningEnds`, whose premise `BusyEnds` says that
from some moment on no attempt ends busy.
API requests carry no fairness: nobody has to click.

`CacheRetention` assumes the same of its workers; there a disturbance is also a refused lease, a
manual request, or an attempt that ends without result. That a job is released as busy only a bounded number of times is an
assumption there: 115 stops being busy, or the limit of the code (`AfterBusy`) is reached.

`EventSync`: the websocket's loop polls for as long as the connection lives, the backend answers
requests, the client's event loop handles messages and timers. No fairness is assumed for commits,
the user or the expiry of events, and the faults stop at some time (`<>[][~FaultNext]_vars`): a client whose
network never works is promised nothing.

`catalog`: consumer threads are scheduled and restarted (`Consume`), a lease that nobody renews runs out
(`UnservedLapse`), the supervisor ticks, the hard timeout passes and is noticed (`TimePasses`, `OverdueEnds`), and a worker that lost a
claim before the launch dies and is started again (`LateLaunchDies`). Children carry no fairness: a child may hang for ever.
`ActiveJobsEnd` assumes that claiming is not paused for good. Faults are bounded, so no assumption that they stop is needed.
`services` states safety and refinement only.

## 5 The proofs

| Theorem | Module | States |
|---|---|---|
| `LedgerSafe`, `LedgerFinal` | `CacheLedgerProofs` | The ledger keeps the limits and one live job per source; its terminal jobs stay. |
| `TypeCorrect`, `SubmittedOnce` | `CachePipelineProofs` | Types; the magnet is sent at most once. |
| `RowsStayWellFormed` | `CachePipelineProofs` | Shape of the rows. |
| `ImplementsLedger` | `CachePipelineProofs` | `Spec => LedgerSpec`. |
| `CapacityHolds`, `OneLiveJobHolds`, `TerminalStays` | `CachePipelineProofs` | The ledger's properties, transferred by the refinement. |
| `LeaseWins`, `EvictionsAreNeeded` | `CacheRetentionProofs` | The two action properties of retention; the second for one worker process. |
| `RetentionTypes` | `CacheRetentionProofs` | `TypeOK` of retention, with the order of the last uses and the locks of the leases. |
| `TypeCorrect`, `NothingMissed`, `ContinuationApplied` | `EventSyncProofs` | Types, and the two safety properties of `EventSync`. |
| `ClaimHoldersCanWrite`, `CancelledStaysUnsubmitted` | `CachePipelineProofs` | `ClaimHolderCanWrite` and `CancelledIsNeverSubmitted`. |
| `CleanedLeftNothing` | `CachePipelineProofs` | `AloneCleanedLeavesNothing`: nothing is left at 115 of a cleaned job, while one worker process runs. |
| `CatalogIsTruthful` | `CatalogProofs` | `CatalogFollowsJobs`: the catalog says of a movie what its youngest metadata job does. |
| `NoRowIsSkipped` | `CatalogProofs` | `NothingIsSkipped` of the AVdb synchronization. |
| `SnapshotsMatchRequests`, `DerivedIsCurrent` | `CatalogProofs` | The snapshots of rankings and of the providers. |
| `RankingsImplement` | `CatalogProofs` | `RankingImplementsWorkQueue`: the requests of the rankings implement `WorkQueue`. |
| `CatalogTypes` | `CatalogProofs` | `TypeOK` of the catalog composition: the shape of the rows, claims and consumers of its four queues. |
| `RejectionIsPermanent` | `ServicesProofs` | `RejectedStays` of the sources. |
| `TextsPaidOnce`, `FilesLostToStaleChildren` | `ServicesProofs` | `PaidOnce` and `OnlyStaleChildLosesFile` of the content of a movie. |
| `ProgressIsKept` | `ServicesProofs` | `NoLostUpdate` of playback. |
| `SlotsAreRespected`, `QueueImplements` | `ServicesProofs` | Slots and youngest jobs of the metadata queue; it implements `WorkQueue`. |
| `BindingAgrees`, `RescanIsKept` | `ServicesProofs` | The 115 binding: versions, accounts, scopes opened between two commits, and scopes of an older cookie. |
| `ReuseIsExplained` | `ServicesProofs` | `ReuseMeansLoss` of the sessions. |
| `ServicesTypes` | `ServicesProofs` | `TypeOK` of the services composition: the shape of the rows, clients and calls of its six parts. |

So every invariant and every action property of a passing run, and every refinement, is a theorem.
They hold for every number of the things the modules speak of (jobs, workers, sources, keys, events, writers, boards, providers,
releases and their assets, movies, children, texts, clients, logins, scopes), every capacity and every number or set of
faults. The assumptions are those of the modules: `RowsAssumption` (bounds are
natural numbers, `Nobody` is no worker, the busy limit lies below the counter's cap),
`RetentionAssumption` (finitely many jobs, distinct names for no worker and a lost one),
`OutboxAssumption` and `SyncAssumption` (a natural number of events, `None` is no resource or writer,
known kinds of faults), `CatalogAssumption` (natural bounds, a release is a sequence of assets with a natural number of rows
each, the optional stages are a sequence, there is a provider and each is a known one) and `ServicesAssumption` (finitely many QR codes, natural bounds, the optional
stages are a sequence, `None` is no child, text, content or number). TLC evaluates them on every run of their modules. The lemmas of `MetadataProofs`
assume `MetadataConstants`, which both compositions prove of their constants.

The arguments, from the bottom up:

- `TypeInv` adds to the types that a worker at a step has a job (`AtWork`); without it nothing is
  known about `status[at[w]]`.
- `SubmitInv`: a worker about to call `submit_offline` has stored the start of the
  submission, no submission of the job was received yet, and no other worker is about to submit the
  same job. It is inductive because `mark_submit_started` demands an unstarted job and
  a dispatch never leads directly to a submission. `AtMostOneSubmission` alone is not
  inductive: it says nothing about a worker that is about to call.
- `RowInv` strengthens `RowsWellFormed` by: a job that no worker was given yet has no claim and no
  progress; and a worker that looks for the task of a cancelled job looks for one that was
  started. Each write then needs only the row it finds and the guards of its own.
- Refinement: the variables of the ledger are variables of the pipeline, so the mapping is the
  identity and the content of the proof is that each of the pipeline's writes is one of
  the ledger's five steps, or none. It needs `RowInv` (the class of a row is that of its status)
  and the counts under the advisory lock. The limits are then proved on the ledger, which has no
  claims, workers or faults: `LedgerInv` relates the class counts to the statuses.
- Retention: `LeaseIsFresh` (a leased job is not expired) gives `LeaseWins`, since the row's columns are
  evaluated again when it is locked. `CountsAreCurrent` (the counts of the transaction equal the present
  ones) gives `EvictionsAreNeeded`; it is inductive with one worker only. `RetentionTypes` needs that the order of the last uses
  holds exactly the materialized jobs, each once (an eviction takes its job out of it, a lease moves it to the end), and that only a ready
  job is locked for a lease, so that committing the lease cannot bring back a job that has left the order meanwhile.
- Events: `Covered` says that numbers are given out without gaps and that those still uncommitted are the last ones
  (`LogInOrder`), so that what readers see is a prefix; that the snapshot has read, or will read, everything up to its watermark
  (`AnswerCovers`); and that a known stream version is the one of the event the row reflects (`BaselineFits`).
  `NothingIsMissed` alone is not inductive, since it says nothing about a snapshot in flight. `ContinuationContinues` counts: between the event a row
  reflects and the next number there is no event of the resource, so its stream version is the next one too.

- Sources: `RejectedStays` alone is not inductive, since a batch that has read the rejections could write a post that
  was rejected meanwhile. `LocksHold` says that it cannot: no post of a batch under way is rejected, because the batch holds the
  advisory lock of the post from the read to its commit and a rejection takes the same lock. `RejectedRows` carries the rest:
  identifying needs a pending row and moving a row keeps its status.

- Claims of the pipeline: `ClaimInv` says where a claim holder can be: the step of a worker with a valid claim fits the status, the
  directory and the start of the submission of its row (`StepFits`). Nobody else changes a claimed row, with one exception: a
  cancellation while the directory is being created, which keeps the claim, and the write after it accepts both statuses.
  `ClaimHolderCanWrite` is its consequence; `CancelledIsNeverSubmitted` is an action property, proved from the same
  invariant: no fenced write takes a cancelled row to a submission.
- Cleaned jobs: `LeftInv` follows what exists at 115. A download runs only in the statuses in which somebody will still look for it
  (`TaskFits`); a directory is remembered by the row, or by the worker that has just created it (`DirFits`); and the next call of
  the worker fits what is there, even if its claim was lost meanwhile (`WorkFits`). The last two need that there is one worker
  process: with two, the directory of a stale worker is remembered by nobody.
- Binding: `ScopesFresh` says that what a scope has read, first the account and version and then the cookie, is still stored, or that
  the stored cookie has a later version: then a reader between its two statements is turned away, and a scope that ends late writes
  nothing. `RowsAgree` is what binding and setting tell of each other. `QrInv` counts the logins: a QR code grants one at most, and only while its record
  is not consumed.
- Sessions: `NeverBehind`: a client that lost nothing holds no refresh token that was rotated out, except while the answer to its own
  refresh is about to replace it; this is followed through the store, the refresh in flight and an answered login.
- Content: `PaidInv`: nothing was paid for a record that was not dispatched, and a child about to call the service has the token of the
  dispatched record, for which nothing was paid yet. `FilesInv`: a child with the claim commits a file that is there and discards
  only a file that it created and that the image does not refer to, except for a file that a child without the claim discarded.
- Playback: `PlayInv`: the version a controller expects, or names in a request, late ones included, is one its client was told of.
- Metadata queue: `QueueInv` = types, `YoungestActive` (only the last job of a movie can be active) and `SlotsBounded` (the jobs running under
  a live claim). For the refinement, each step submits, takes, ends, or keeps the abstract queue.
- State of the catalog: `CatalogInv`: once the core of a movie was written its state is `core_ready` for good, all other states are written in
  one transaction with the row of the youngest job, and a child that is about to report the core stage has written it, whatever
  became of its claim (`ChildFits`).
- Rankings: one active request per board (`OneActive`), no two live claims with one token (`TokensDiffer`), and a fetch under way is younger than
  the current snapshot (`FetchedLater`), so that activating it supersedes the right one. For the refinement, the attempts of a board are the
  requests `Selected` for it: a request that is appended or replaced appends or replaces one attempt of one board and leaves the
  other boards alone. A board's open attempt must be its last one, hence `EarlierEnded`: the requests before the last of a board have ended.
- Selection: `Selected` is a recursive function over the length of the sequence. What is needed of it (its elements and their order, an
  element appended, an element replaced) is proved in `SelectionProofs` by the least number for which it would fail, which the
  well-founded order of the natural numbers gives without an induction over an operator.
- Providers: `Worked` follows a consumer from the claim to the rebuild, `CurrentRight` says what is current and stored while it activates
  (between the two statements of an activation a row can be superseded by others), and `AllAfterCompletion` that every
  provider has a current snapshot once a refresh was completed.
- Types: a type invariant is proved after the safety invariants of its part, because it needs them. That a consumer's request exists,
  that a player names only sessions that were created for it (`SessionsExist`) or that the cursor of a run is a row of its release is no
  matter of types alone. `QueueTyped` says of the three queues of leased requests what their constraints say (a token exactly while
  claimed) together with the bounds of requests and faults; `RowsMove` and `ConsumersMove` say once what any step does to
  a queue (a row added or written, a consumer that is idle, stays, or takes a request of the queue), and each action is shown to be
  one of these. `EndOf` says that what a provider fetch has still to do is an end of the list of providers; `RunFits` and the
  tokens of those who work give the owner of a run and the plaintext directories. Of the metadata queue, `RowShape` says that one
  stage at most runs, and only while the job does.
- The metadata queue is part of two compositions. `MetadataProofs` proves its invariant `MetadataInv` and its
  refinement once, over its own constants; `CatalogProofs` and `ServicesProofs` show that the instance of the composition and that of
  the proofs are one specification (`SameInit`, `SameNext`, `SameTypes`) and carry the results over.
- AVdb: `RunRight`: in every run that was started the assets done are a prefix, the cursor lies in the one after it, and the counts are those
  of the rows before the cursor; `Stands`: what the consumer that owns the run is about to do continues it. A consumer
  that lost the run may have read anything, which the owner's token refuses; `AvdbTokens` says that no two consumers work under one token.

Only model-checked: liveness (`AloneCancellationConverges`, `AloneCleaningEnds`, `AloneSubmissionSettles`, `RetentionConverges`,
`ReconnectCatchesUp`, `PlaintextGoes`, `RequestsEnd`, `ActiveJobsEnd`): fairness and ENABLED are beyond the prover.

## 6 Where code and documents differ

Each of these runs checks one sentence of a document, and TLC shows a behaviour of the code that
contradicts it. Paths are under `docs/specs/001-sakuraplayer-v1`.

- `cache_backoff`: a rate-limited poll is taken up after two seconds instead of after the delay 115 asked
  for: `claim_next` takes an offlining job by `updated_at`, whatever its claim
  (`worker/claim.py:104`; `changes/2026-08-03--task-226...:14`, `contracts/error-codes.md:110`).
- `cache_cancel_rejected`: a cancelled job with a task directory whose source is rejected meanwhile ends as
  failed and is never cleaned (`worker/offline.py:76`; `changes/2026-07-27--task-104...:56`).
- `cache_lease_race`: above the ready capacity, a job whose lease was committed between selection and lock
  is evicted while it is played (`cleanup.py:169`; AC-096).
- `event_gap`: an event out of sequence joins a recovery that may have read its snapshot before; no snapshot
  that includes the event is fetched (`windows/lib/core/events/snapshot_controller.dart:418`;
  `contracts/realtime-events.md:99`).
- `source_moved`: a source that was rejected and then moved to another movie, before its job was failed, makes the resolver's next read raise an
  exception that it does not catch; it ends the worker process, after each restart again
  (`cloud_cache/worker/resolution.py:54`; `contracts/source-rejection-port.md:36`).
- `metadata_running`: the control endpoint declares `running` to be at most 3 (`catalog/metadata_api.py:290`) and counts jobs whose claims
  lapsed, which `claim_next` does not; the answer is refused by its own validation
  (`catalog/metadata_queue.py:1106`).

Two more disagreements have no run of their own; the models have them as the code does, and the properties that hold say what is
left:

- A deletion that is answered as busy at the limit of 60 attempts ends as `cleanup_failed` (`cleanup.py:42`, `:484`; `AfterBusy`),
  and the attempts it counts are all attempts of the job, busy or not. REQ-CHG-335 and the error table say that a busy answer
  never leads there: the job stays in `cleaning`, is released and tried again in rotation
  (`changes/2026-08-07--cleanup-busy-release-retry.md:19`, `:35`; `contracts/error-codes.md:138`). The documents disagree among
  themselves: `tasks/TASK-329.md:33` and the comment in the code want the limit. `AloneCleaningEnds` promises only what all of them
  agree about, the end of a deletion once 115 is no longer busy. The property that only another error moves a job from `cleaning` to
  `cleanup_failed` is violated after 15 steps (`BusyMaxAttempts = 2`).
- A child whose claim lapsed during a download discards the file it created, although its successor found the same file on
  disk and commits it: the image is `ready`, its file is gone, and nothing downloads it again
  (`catalog/providers/runtime.py:182`, `catalog/image_store.py:75`). `tasks/TASK-008.md:27` says that a failure does not delete the most
  recent successful data, and `contracts/metadata-providers.md:81` that it cleans up
  temporary files and must not overwrite a ready one.
  `OnlyStaleChildLosesFile` holds and is proved; without its exception (`\cup stray`) it is violated after 13 steps, two children and one content.

## 7 What is left out

- Resolver: how files are grouped and scored (pure functions).
- Cleanup: a job without binding (`cleanup.py:196`); active jobs have one by a CHECK constraint. That a detached job
  gives up its ready capacity, against `changes/2026-07-28--task-107...:47`, is a single table entry
  (`domain/cache_job.py:53`), and is modelled as the code has it.
- Job API: listing and the disposition, both read-only.
- Metadata queue: row locks in two orders (`metadata_queue.py:276`; the database breaks such a wait by an error, which is a
  fault of the model); the initialisation timeout of a child; stages beyond the core and one optional stage, which
  go through the same transactions.
- AVdb: what a release contains, its download, signature and decryption; a batch of more than one row.
- Provider snapshots: what a rebuild computes; that old files are never deleted.
- Movie content: actors, tags, previews; the errors of the translation service that the code tells apart only by their code.
- Sources: merging deletes the other movie with its playback progress, and the next import of a moved source moves it back; both are
  what the code does in one statement.
- Binding: the root directory; the refusal of a removal while cache jobs are active (the removal of the model is free).
- Identity: the 30-day expiry, rate limits, password hashing, changing the server in the client. A refresh that fails
  late clears the tokens of a newer login (`windows/lib/core/api/api_client.dart:369`), which costs a login and nothing else.
- Playback: streams and subtitles, which check the session again at each request; a heartbeat that falls into the creation of
  another session.
- Everything listed `not_modelled` in `PROJECT.json`, with the reason; read-only queries,
  HTTP adapters, parsing, rendering and widgets have no protocol to check.

## 8 Plan

1. The Harmony client's store beside the Windows one, over the same `EventOutbox`: which of the properties of
   `EventSync` it keeps.
2. Pure functions: grouping of files into candidates, against a reference definition.
