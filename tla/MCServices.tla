------------------------------ MODULE MCServices ------------------------------
(***************************************************************************)
(* For TLC: the sessions of the administrator, the 115 account, playback,  *)
(* the sources, the content of a movie, and the metadata queue with two    *)
(* movies that compete for a slot.  They share no row, so one run explores *)
(* each of them; part says which one a behaviour is about, and the others  *)
(* stay as they are initially.                                             *)
(***************************************************************************)
EXTENDS Naturals, Sequences, FiniteSets, TLC

CONSTANTS Clients, Slots, MaxSessions, MaxRotations, MaxLosses,         \* Identity
          Accounts, Qrs, Scopes, Capacity,                              \* Cloud115Binding
          Installations, Positions, Duration, MaxVersion, MaxPlays, MaxGiveUps, \* Playback
          Posts, Numbers,                                               \* Sources
          Children, Texts, Urls, Contents, MaxJobs, MaxClaims,          \* MovieContent
          Movies, OPTIONAL_STAGES, Requests, MaxRunning, InitialLimit, MaxFaults, \* MetadataWorker
          None

VARIABLES part,
          admin, epoch, sessions, store, ui, user, refresh, calls, losses,
          binding, setting, scopes, qrs, creating, binder, logins,
          playEpoch, progress, plays, player, request, late, seen, giveUps,
          movies, pinned, sources, rejections, importing, cacheJobs, worker, stopped,
          job, counts, movie, image, disk, stray, records, paid, child,
          jobs, catalog, paused, seeding, seeded, claims, children, slot, procs, faults

identityVars == <<admin, epoch, sessions, store, ui, user, refresh, calls, losses>>
bindingVars  == <<binding, setting, scopes, qrs, creating, binder, logins>>
playbackVars == <<playEpoch, progress, plays, player, request, late, seen, giveUps>>
sourceVars   == <<movies, pinned, sources, rejections, importing, cacheJobs, worker, stopped>>
contentVars  == <<job, counts, movie, image, disk, stray, records, paid, child>>
metadataVars == <<jobs, catalog, paused, seeding, seeded, claims, children, slot, procs, faults>>
vars == <<part, identityVars, bindingVars, playbackVars, sourceVars, contentVars, metadataVars>>

Identity == INSTANCE Identity

Binding == INSTANCE Cloud115Binding

Playback == INSTANCE Playback WITH
  Clients <- Installations, MaxSessions <- MaxPlays, MaxFaults <- MaxGiveUps,
  epoch <- playEpoch, sessions <- plays, faults <- giveUps

Sources == INSTANCE Sources WITH jobs <- cacheJobs

Content == INSTANCE MovieContent

Metadata == INSTANCE MetadataWorker

ASSUME ServicesAssumption ==
  /\ IsFiniteSet(Qrs) /\ MaxRunning \in Nat
  /\ {MaxSessions, MaxRotations, MaxLosses, MaxVersion, MaxGiveUps,
      MaxJobs, MaxClaims, MaxFaults} \subseteq Nat
  /\ None \notin Children \cup Texts \cup Contents \cup Numbers
  /\ OPTIONAL_STAGES \in Seq(Metadata!Optional)

\* The optional stages are in MCCatalog.
NoStages == <<>>
Urgent   == [m \in Movies |-> {"seed", "rescrape"}]

Symmetry ==
  Permutations(Installations) \union Permutations(Scopes)

Init ==
  /\ part \in {"identity", "binding", "playback", "sources", "content", "metadata"}
  /\ Identity!Init /\ Binding!Init /\ Playback!Init
  /\ Sources!Init /\ Content!Init /\ Metadata!Init

Next ==
  /\ UNCHANGED part
  /\ \/ /\ part = "identity" /\ Identity!Next
        /\ UNCHANGED <<bindingVars, playbackVars, sourceVars, contentVars, metadataVars>>
     \/ /\ part = "binding" /\ Binding!Next
        /\ UNCHANGED <<identityVars, playbackVars, sourceVars, contentVars, metadataVars>>
     \/ /\ part = "playback" /\ Playback!Next
        /\ UNCHANGED <<identityVars, bindingVars, sourceVars, contentVars, metadataVars>>
     \/ /\ part = "sources" /\ Sources!Next
        /\ UNCHANGED <<identityVars, bindingVars, playbackVars, contentVars, metadataVars>>
     \/ /\ part = "content" /\ Content!Next
        /\ UNCHANGED <<identityVars, bindingVars, playbackVars, sourceVars, metadataVars>>
     \/ /\ part = "metadata" /\ Metadata!Next
        /\ UNCHANGED <<identityVars, bindingVars, playbackVars, sourceVars, contentVars>>

Spec == Init /\ [][Next]_vars
-----------------------------------------------------------------------------
\* The rows and the clients' states keep the shape the code relies on.
TypeOK ==
  CASE part = "identity" -> Identity!IdentityTypeOK
    [] part = "binding"  -> Binding!BindingTypeOK
    [] part = "playback" -> Playback!PlaybackTypeOK
    [] part = "sources"  -> Sources!TypeOK
    [] part = "content"  -> Content!TypeOK
    [] part = "metadata" -> Metadata!TypeOK

\* Identity: a session is revoked for reuse only after a loss.
ReuseMeansLoss == Identity!ReuseMeansLoss

\* Cloud115Binding: the binding, its cookie and every opened scope agree about
\* version and account, and an old scope does not undo a new scan.
VersionsAgree == Binding!VersionsAgree
RescanWins    == Binding!RescanWins

\* Playback: an update replaces only what its client was told of.
NoLostUpdate == Playback!NoLostUpdate

\* Sources: a rejection is permanent.
RejectedStays == Sources!RejectedStays

\* MovieContent: no text is paid for twice, and an image loses its file only to
\* a child without the claim.
PaidOnce                == Content!PaidOnce
OnlyStaleChildLosesFile == Content!OnlyStaleChildLosesFile

\* MetadataWorker: the slots are respected.
SlotsRespected == Metadata!SlotsRespected

Abstract == INSTANCE WorkQueue WITH
  Keys     <- Movies,
  taken    <- claims,
  attempts <- IF part = "metadata" THEN Metadata!Attempts ELSE [m \in Movies |-> <<>>]

\* MetadataWorker implements WorkQueue (its ImplementsWorkQueue).
ImplementsWorkQueue == Abstract!Spec
==============================================================================
