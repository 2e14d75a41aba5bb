--------------------------- MODULE CacheFindings ----------------------------
(***************************************************************************)
(* Statements of the repository's documents that the cache pipeline does   *)
(* not keep.  Paths are relative to docs/specs/001-sakuraplayer-v1.        *)
(***************************************************************************)
EXTENDS MCCache

TransientOnly == {"transient"}
SourceOnly == {"source"}

\* "The interval only affects observing the state, it does not change ... the
\* rate-limit backoff" (changes/2026-08-03--task-226, REQ-CHG-271): a job whose
\* retry delay still runs is not claimed.
BackoffRespected ==
    [][\A j \in Jobs : retrying[j] /\ lease[j] = "live" =>
         \A w \in Workers : at'[w] = j => at[w] = j]_vars

\* "With an existing task directory, or anything else that may exist at 115,"
\* a cancelled job "can only enter cleaning" (changes/2026-07-27--task-104).
CancelledIsCleaned ==
    [][\A j \in Jobs : status[j] = "cancelling" /\ cid[j] =>
         status'[j] \in {"cancelling", "cleaning"}]_vars
=============================================================================
