---------------------------- MODULE MovieContent ----------------------------
(***************************************************************************)
(* What the stages of a metadata job write about one movie                 *)
(* (catalog/providers/runtime.py): the core import (core_import.py), the   *)
(* permanent image files (image_store.py) and the paid translations        *)
(* (translation/service.py).  Every write is fenced by the claim of the    *)
(* job, but files, reservations and calls to the AI provider are not, and  *)
(* a child whose claim lapsed runs on until a fenced write refuses it.     *)
(* The claim itself is MetadataWorker's; here it has a holder or none.     *)
(***************************************************************************)
EXTENDS Naturals

CONSTANTS Children,   \* child processes
          Texts,      \* original titles
          Urls,       \* source URLs of the cover
          Contents,   \* image contents (their SHA-256)
          None,
          MaxJobs,    \* bound of the model: jobs of the movie
          MaxClaims   \* bound of the model: claims of these jobs

VARIABLES job,      \* its stage, the child that holds its claim
          counts,   \* jobs created and claims taken
          movie,    \* title_original and the text title_zh translates
          image,    \* the catalog_image row of the cover, or NoImage
          disk,     \* the files of the image store
          stray,    \* of the model: files that children without the claim discarded
          records,  \* the translation_record row of a text
          paid,     \* calls to the AI provider
          child     \* step and local variables of a child

files   == <<disk, stray>>
content == <<movie, image, files, records, paid>>
vars == <<job, counts, content, child>>

StageOrder == [core |-> "images", images |-> "translation", translation |-> "done"]
Stages  == DOMAIN StageOrder
NoImage == [url |-> None, file |-> None, status |-> "absent"]
NoRecord == [status |-> "absent", token |-> None, live |-> FALSE]
Gone    == [step |-> "gone", text |-> None, url |-> None, file |-> None, new |-> FALSE]
Steps   == {"gone", "core", "images", "store", "commit", "discard", "translation", "reserve",
            "dispatch", "call", "success", "rejected", "unknown", "cached", "finish"}

TypeOK ==
  /\ job \in [stage : Stages \cup {"done"}, holder : Children \cup {None}]
  /\ job.stage = "done" => job.holder = None
  /\ counts \in [jobs : 0 .. MaxJobs, claims : 0 .. MaxClaims]
  /\ movie \in [title : Texts \cup {None}, zh : Texts \cup {None}]
  /\ image \in [url : Urls, file : Contents \cup {None}, status : {"retry_pending", "ready"}] \cup {NoImage}
  /\ image.status = "ready" => image.file # None
  /\ disk \subseteq Contents /\ stray \subseteq Contents
  /\ \A t \in Texts :
       /\ records[t].status \in {"absent", "reserved", "dispatched", "completed", "rejected", "unknown"}
       /\ (records[t].token # None) <=> (records[t].status \in {"reserved", "dispatched"})
       /\ records[t].live => records[t].status = "reserved"
       /\ paid[t] \in Nat
  /\ \A w \in Children : child[w].step \in Steps

Init ==
  /\ job = [stage |-> "done", holder |-> None] /\ counts = [jobs |-> 0, claims |-> 0]
  /\ movie = [title |-> None, zh |-> None] /\ image = NoImage /\ disk = {} /\ stray = {}
  /\ records = [t \in Texts |-> NoRecord] /\ paid = [t \in Texts |-> 0]
  /\ child = [w \in Children |-> Gone]
-----------------------------------------------------------------------------
(* The job and its claim. *)

\* A search or rescrape starts with the core; a retry of missing enrichment
\* starts with an optional stage of a movie that has its core.
NewJob ==
  /\ job.stage = "done" /\ counts.jobs < MaxJobs
  /\ \E s \in IF movie.title = None THEN {"core"} ELSE Stages :
       job' = [stage |-> s, holder |-> None]
  /\ counts' = [counts EXCEPT !.jobs = @ + 1]
  /\ UNCHANGED <<content, child>>

\* A new child starts with the stage that has not ended.
Claim(w) ==
  /\ job.stage # "done" /\ job.holder = None /\ child[w] = Gone
  /\ counts.claims < MaxClaims
  /\ job' = [job EXCEPT !.holder = w]
  /\ counts' = [counts EXCEPT !.claims = @ + 1]
  /\ child' = [child EXCEPT ![w].step = job.stage]
  /\ UNCHANGED content

\* The claim lapses; its child does not know.
Lapse == job.holder # None /\ job' = [job EXCEPT !.holder = None] /\ UNCHANGED <<counts, content, child>>

\* The child is killed.
Kill(w) == child[w] # Gone /\ child' = [child EXCEPT ![w] = Gone] /\ UNCHANGED <<job, counts, content>>

\* require_active_metadata_claim, in the transaction of the write.
Holds(w) == job.holder = w

At(w, step) == child[w].step = step
Go(w, step) == child' = [child EXCEPT ![w].step = step]

\* A refused write ends the child: finish_stage is fenced as well.
Refused(w) == ~Holds(w) /\ child' = [child EXCEPT ![w] = Gone] /\ UNCHANGED <<job, counts, content>>

\* finish_stage, and the next stage or the end of the job.
Finish(w) ==
  /\ At(w, "finish")
  /\ \/ Refused(w)
     \/ /\ Holds(w)
        /\ LET next == StageOrder[job.stage]
           IN /\ job' = [stage |-> next, holder |-> IF next = "done" THEN None ELSE w]
              /\ child' = [child EXCEPT ![w] = IF next = "done" THEN Gone ELSE [Gone EXCEPT !.step = next]]
        /\ UNCHANGED <<counts, content>>
-----------------------------------------------------------------------------
(* The core import. *)

\* _reconcile_image_plans for the one image: its plan is gone, new, or the same.
Reconciled(url) ==
  IF image = NoImage THEN IF url = None THEN NoImage
                          ELSE [url |-> url, file |-> None, status |-> "retry_pending"]
  ELSE IF url = None THEN IF image.file = None THEN NoImage ELSE [image EXCEPT !.status = "ready"]
  ELSE IF url = image.url THEN image
  ELSE [image EXCEPT !.url = url, !.status = "retry_pending"]

\* import_core writes title and image plan together; title_zh is left alone.
ImportCore(w) ==
  /\ At(w, "core")
  /\ \/ Refused(w)
     \/ /\ Holds(w)
        /\ \E t \in Texts, u \in Urls \cup {None} :
             movie' = [movie EXCEPT !.title = t] /\ image' = Reconciled(u)
        /\ Go(w, "finish")
        /\ UNCHANGED <<job, counts, files, records, paid>>

\* The provider fails or has no such movie: the job fails.
CoreFails(w) ==
  /\ At(w, "core") /\ Holds(w)
  /\ job' = [stage |-> "done", holder |-> None] /\ child' = [child EXCEPT ![w] = Gone]
  /\ UNCHANGED <<counts, content>>
-----------------------------------------------------------------------------
(* Images. *)

\* _execute_images reads what is pending, without a lock.
LoadImages(w) ==
  /\ At(w, "images")
  /\ IF image.status = "retry_pending"
     THEN child' = [child EXCEPT ![w].step = "store", ![w].url = image.url]
     ELSE Go(w, "finish")
  /\ UNCHANGED <<job, counts, content>>

\* store downloads and renames; created_new tells whether the file is its own.
Store(w) ==
  /\ At(w, "store")
  /\ \/ Go(w, "finish") /\ UNCHANGED disk
     \/ \E c \in Contents :
          /\ child' = [child EXCEPT ![w].step = "commit", ![w].file = c, ![w].new = c \notin disk]
          /\ disk' = disk \cup {c}
  /\ UNCHANGED <<job, counts, movie, image, stray, records, paid>>

\* _commit_stored_image; any failure of the transaction leads to discard.
CommitImage(w) ==
  /\ At(w, "commit")
  /\ \/ /\ Holds(w) /\ image.status = "retry_pending" /\ image.url = child[w].url
        /\ image' = [image EXCEPT !.file = child[w].file, !.status = "ready"]
        /\ stray' = stray \ (disk \cap {child[w].file})
        /\ Go(w, "finish")
     \/ Go(w, "discard") /\ UNCHANGED <<image, stray>>
  /\ UNCHANGED <<job, counts, movie, disk, records, paid>>

\* Variant: created_new is not looked at.
DiscardedAlways(w) == {child[w].file}

\* discard removes only a file its own store created.
Discarded(w) == IF child[w].new THEN {child[w].file} ELSE {}

Discard(w) ==
  /\ At(w, "discard")
  /\ disk' = disk \ Discarded(w)
  /\ stray' = stray \cup (IF Holds(w) THEN {} ELSE disk \ disk')
  /\ Go(w, "finish")
  /\ UNCHANGED <<job, counts, movie, image, records, paid>>
-----------------------------------------------------------------------------
(* Translation. *)

LoadText(w) ==
  /\ At(w, "translation")
  /\ child' = [child EXCEPT ![w].step = "reserve", ![w].text = movie.title]
  /\ UNCHANGED <<job, counts, content>>

\* Variant: a call that never came back is made again.
TakeableDispatched(r) == r.status \in {"reserved", "dispatched"} /\ ~r.live

\* _claim_existing: only a reservation that ran out before its call.
Takeable(r) == r.status = "reserved" /\ ~r.live

\* _reserve, which the claim of the job does not fence.
Reserve(w) ==
  /\ At(w, "reserve")
  /\ LET r == records[child[w].text]
     IN IF r.status = "absent" \/ Takeable(r)
        THEN /\ records' = [records EXCEPT ![child[w].text] =
                              [status |-> "reserved", token |-> w, live |-> TRUE]]
             /\ Go(w, "dispatch")
        ELSE Go(w, IF r.status = "completed" THEN "cached" ELSE "finish") /\ UNCHANGED records
  /\ UNCHANGED <<job, counts, movie, image, files, paid>>

ReservationLapses(t) ==
  /\ records[t].live /\ records' = [records EXCEPT ![t].live = FALSE]
  /\ UNCHANGED <<job, counts, movie, image, files, paid, child>>

\* _mark_dispatched commits before the call.
Dispatch(w) ==
  /\ At(w, "dispatch")
  /\ LET r == records[child[w].text]
     IN \/ Refused(w)
        \/ /\ Holds(w)
           /\ IF r.status = "reserved" /\ r.token = w /\ r.live
              THEN /\ records' = [records EXCEPT ![child[w].text].status = "dispatched",
                                                 ![child[w].text].live = FALSE]
                   /\ Go(w, "call")
              ELSE Go(w, "finish") /\ UNCHANGED records
           /\ UNCHANGED <<job, counts, movie, image, files, paid>>

\* The call is paid for, whatever comes back, or whether anything does.
Call(w) ==
  /\ At(w, "call")
  /\ paid' = [paid EXCEPT ![child[w].text] = @ + 1]
  /\ \E result \in {"success", "rejected", "unknown"} : Go(w, result)
  /\ UNCHANGED <<job, counts, movie, image, files, records>>

\* _apply_translation: the title may have been replaced meanwhile.
Applied(t) == IF movie.title = t THEN [movie EXCEPT !.zh = t] ELSE movie

\* _finalize_success and _finalize_failure.
Conclude(w) ==
  /\ child[w].step \in {"success", "rejected", "unknown"}
  /\ LET t == child[w].text
         success == child[w].step = "success"
         status == IF success THEN "completed" ELSE child[w].step
     IN \/ Refused(w)
        \/ /\ Holds(w)
           /\ IF records[t].status = "dispatched" /\ records[t].token = w
              THEN /\ records' = [records EXCEPT ![t] = [NoRecord EXCEPT !.status = status]]
                   /\ movie' = IF success THEN Applied(t) ELSE movie
              ELSE UNCHANGED <<records, movie>>
           /\ Go(w, "finish")
           /\ UNCHANGED <<job, counts, image, files, paid>>

ApplyCached(w) ==
  /\ At(w, "cached")
  /\ \/ Refused(w)
     \/ Holds(w) /\ movie' = Applied(child[w].text) /\ Go(w, "finish")
        /\ UNCHANGED <<job, counts, image, files, records, paid>>

Step(w) ==
  \/ Claim(w) \/ Kill(w) \/ Finish(w)
  \/ ImportCore(w) \/ CoreFails(w)
  \/ LoadImages(w) \/ Store(w) \/ CommitImage(w) \/ Discard(w)
  \/ LoadText(w) \/ Reserve(w) \/ Dispatch(w) \/ Call(w) \/ Conclude(w) \/ ApplyCached(w)

Next ==
  \/ NewJob \/ Lapse
  \/ \E w \in Children : Step(w)
  \/ \E t \in Texts : ReservationLapses(t)

Spec == Init /\ [][Next]_vars
-----------------------------------------------------------------------------
(* Properties. *)

\* A text is sent to the paid provider at most once, whatever claims and
\* reservations lapse and whatever children run on or die (AC-122).
PaidOnce == \A t \in Texts : paid[t] <= 1

\* The file an image refers to exists: what is discarded after a failed commit
\* is not in use, although a changed URL may lead to the same content.  A file
\* that is gone was discarded by a child that no longer had the claim, and the
\* loss of one file excuses neither another one nor a loss after the next commit
\* of that file.  That the exception is needed is a flaw of the code: the child
\* does not look whether its successor has adopted the file (README, section 6).
OnlyStaleChildLosesFile == image.file # None => image.file \in disk \cup stray
=============================================================================
