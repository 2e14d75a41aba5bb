------------------------------ MODULE CacheJob ------------------------------
(***************************************************************************)
(* The domain rules of one cache job: its statuses, the legal transitions  *)
(* between them and the capacity class each status is counted in           *)
(* (backend/src/sakuraplayer/cloud_cache/domain/cache_job.py).             *)
(***************************************************************************)

RunningStatuses == {"submitting", "offlining", "submit_uncertain", "resolving"}
ReadyStatuses   == {"awaiting_selection", "ready", "cleaning", "cleanup_failed"}
Terminal        == {"failed", "cleaned", "detached"}

Active   == {"queued", "cancelling"} \cup RunningStatuses \cup ReadyStatuses
Statuses == Active \cup Terminal

\* A row that play-request creation has not inserted yet.
Absent == "absent"

Capacities == {"queued", "running", "ready", "released"}

\* The class a status is counted in; a cancelling job has none of its own.
CapacityOf(s) ==
    CASE s = "queued"          -> "queued"
      [] s \in RunningStatuses -> "running"
      [] s \in ReadyStatuses   -> "ready"
      [] OTHER                 -> "released"

\* Variant: a cancellation gives the running slot up at once.
NextCapacityCancelReleases(c, target) == CapacityOf(target)

\* Variant: jobs being cancelled are counted in a class of their own.
NextCapacityCancelClass(c, target) ==
    IF target = "cancelling" THEN "cancelling" ELSE CapacityOf(target)

\* Cancelling keeps the class the job was counted in before.
NextCapacity(c, target) ==
    IF target = "cancelling" THEN c ELSE CapacityOf(target)

LegalTargets(s) ==
    CASE s = "queued"     -> {"submitting", "cancelling", "failed"}
      [] s = "submitting" -> {"offlining", "submit_uncertain", "cancelling",
                              "failed", "detached"}
      [] s = "offlining"  -> {"resolving", "cancelling", "failed", "detached"}
      [] s = "submit_uncertain" -> {"cancelling"}
      [] s = "resolving"  -> {"awaiting_selection", "ready", "cancelling",
                              "failed", "detached"}
      [] s = "awaiting_selection" -> {"ready", "cleaning", "failed", "detached"}
      [] s \in {"ready", "cancelling", "cleanup_failed"}
                          -> {"cleaning", "failed", "detached"}
      [] s = "cleaning"   -> {"cleaned", "cleanup_failed", "failed", "detached"}
      [] OTHER            -> {}

\* Variant: a failed job can be cancelled too.
CancellableFailed == {"queued", "submit_uncertain", "submitting", "offlining",
                      "resolving", "failed"}

\* The statuses a cancel request is accepted in (cancellation.py).
Cancellable == {"queued", "submit_uncertain", "submitting", "offlining",
                "resolving"}

\* The states a CacheJobState can be constructed in.
WellFormed(s, c) ==
    IF s = "cancelling" THEN c # "released" ELSE c = CapacityOf(s)
=============================================================================
