------------------------------ MODULE MCCatalog ------------------------------
(***************************************************************************)
(* The consumers of the worker beside the cache, for TLC: the metadata     *)
(* queue with its supervisor and children, and the three consumers of      *)
(* leased requests.  They share no row, so one run explores each of them   *)
(* from initial states of its own; part says which one a behaviour is      *)
(* about.                                                                  *)
(***************************************************************************)
EXTENDS Naturals, Sequences, FiniteSets

CONSTANTS Workers, MaxRequests, MaxFaults,  \* LeasedRequests
          Modes, Releases, Assets,          \* AvdbSync
          Boards,                           \* RankingSync
          Providers, Digests,               \* ProviderSnapshots
          Movies, MaxJobs, OPTIONAL_STAGES, Requests, MaxRunning, InitialLimit  \* MetadataWorker

VARIABLES part,
          requests, taken, consumers, faults,  \* of a queue and its consumers
          runs, imported, plaintext,           \* AvdbSync
          snapshots, fetches,                  \* RankingSync
          rows, derived, files,                \* ProviderSnapshots
          jobs, catalog, paused, seeding, seeded, claims, children, slot, procs  \* MetadataWorker

queueData    == <<requests, taken, consumers>>
avdbData     == <<runs, imported, plaintext>>
rankingData  == <<snapshots, fetches>>
providerData == <<rows, derived, files>>
jobData      == <<jobs, catalog, paused, seeding, seeded, claims, children, slot, procs>>
vars == <<part, faults, queueData, avdbData, rankingData, providerData, jobData>>

\* A mode has one release of two assets, the first with a row more.
TheReleases == {<<mode, 1>> : mode \in Modes}
TheAssets   == [r \in TheReleases |-> <<2, 1>>]

Avdb == INSTANCE AvdbSync WITH Scopes <- Modes

Ranking == INSTANCE RankingSync WITH Scopes <- Boards, MaxRequests <- MaxRequests + 1

Weekly       == {"refresh"}
TheProviders == <<"jav321", "actors">>
Provider == INSTANCE ProviderSnapshots WITH Scopes <- Weekly

OneOptional == <<"images">>
\* The seeder takes part in MCServices, where movies compete.
EveryKind   == [m \in Movies |-> {"search", "ranking", "rescrape", "retry", "enrich", "pause"}]

Metadata == INSTANCE MetadataWorker

ASSUME CatalogAssumption ==
  /\ {MaxRequests, MaxFaults, MaxJobs, MaxRunning} \subseteq Nat
  /\ \A r \in Releases : Assets[r] \in Seq(Nat)
  /\ Providers \in Seq(Provider!Names) /\ Providers # <<>>
  /\ OPTIONAL_STAGES \in Seq(Metadata!Optional)

\* The state of the parts that do not run stays what it is initially.
NoQueue    == requests = <<>> /\ taken = 0 /\ consumers = [w \in Workers |-> "none"]
NoAvdb     == /\ runs = [r \in Releases |-> Avdb!NoRun]
              /\ imported = [r \in Releases |-> {}] /\ plaintext = {}
NoRanking  == snapshots = [b \in Boards |-> <<>>] /\ fetches = 0
NoProvider == rows = <<>> /\ derived = <<>> /\ files = <<>>
NoJobs     == /\ Metadata!QueueInit
              /\ children = {} /\ slot = Metadata!NoClaim /\ procs = <<>>

Init ==
  \/ part = "avdb"     /\ Avdb!Init     /\ NoRanking /\ NoProvider /\ NoJobs
  \/ part = "ranking"  /\ Ranking!Init  /\ NoAvdb /\ NoProvider /\ NoJobs
  \/ part = "provider" /\ Provider!Init /\ NoAvdb /\ NoRanking /\ NoJobs
  \/ part = "metadata" /\ Metadata!Init /\ NoQueue /\ NoAvdb /\ NoRanking /\ NoProvider

OnlyAvdb     == part = "avdb" /\ UNCHANGED <<part, rankingData, providerData, jobData>>
OnlyMetadata == part = "metadata" /\ UNCHANGED <<part, queueData, avdbData, rankingData, providerData>>

Next ==
  \/ OnlyAvdb /\ Avdb!Next
  \/ part = "ranking"  /\ Ranking!Next  /\ UNCHANGED <<part, avdbData, providerData, jobData>>
  \/ part = "provider" /\ Provider!Next /\ UNCHANGED <<part, avdbData, rankingData, jobData>>
  \/ OnlyMetadata /\ Metadata!Next

\* The consumer threads are scheduled and restarted, a lease that nobody renews
\* runs out; and MetadataWorker's Fairness.
Fairness ==
  /\ \A w \in Workers : WF_vars(OnlyAvdb /\ Avdb!Consume(w))
  /\ WF_vars(OnlyAvdb /\ Avdb!UnservedLapse)
  /\ WF_vars(OnlyMetadata /\ Metadata!Supervisor)
  /\ WF_vars(OnlyMetadata /\ Metadata!LateLaunchDies)
  /\ \A m \in Movies : /\ WF_vars(OnlyMetadata /\ Metadata!OrphanExpires(m))
                       /\ WF_vars(OnlyMetadata /\ Metadata!TimePasses(m))
                       /\ WF_vars(OnlyMetadata /\ Metadata!OverdueEnds(m))

Spec == Init /\ [][Next]_vars /\ Fairness
-----------------------------------------------------------------------------
\* The rows of the four queues keep their shape: a token while claimed, one
\* running stage at most and only of a running job.
TypeOK ==
  /\ part = "avdb" => Avdb!TypeOK
  /\ part = "ranking" => Ranking!TypeOK
  /\ part = "provider" => Provider!TypeOK
  /\ part = "metadata" => Metadata!TypeOK

\* AvdbSync: no row of a release is skipped or counted twice.
NothingIsSkipped == part = "avdb" => Avdb!NothingIsSkipped

\* RankingSync: one snapshot per completed request, the newest is current.
OneSnapshotPerRequest == part = "ranking" => Ranking!OneSnapshotPerRequest

\* ProviderSnapshots: what is derived is derived from the current snapshot.
DerivedFollowsCurrent == part = "provider" => Provider!DerivedFollowsCurrent

\* MetadataWorker: the catalog says of a movie what its youngest job does.
CatalogFollowsJobs == part = "metadata" => Metadata!CatalogFollowsJobs

Abstract == INSTANCE WorkQueue WITH
  Keys     <- Boards,
  attempts <- IF part = "ranking" THEN Ranking!Attempts ELSE [b \in Boards |-> <<>>],
  taken    <- IF part = "ranking" THEN taken ELSE 0

\* RankingSync implements WorkQueue (its ImplementsWorkQueue).
RankingImplementsWorkQueue == Abstract!Spec

\* AvdbSync: decrypted files do not stay, and requests end.
PlaintextGoes == part = "avdb" => Avdb!PlaintextGoes
RequestsEnd   == part = "avdb" => Avdb!RequestsEnd

\* MetadataWorker: an active job ends unless claiming is paused for good.
ActiveJobsEnd == part = "metadata" => Metadata!ActiveJobsEnd
==============================================================================
