------------------------------ MODULE MCMetadata ------------------------------
(***************************************************************************)
(* The metadata queue on its own for TLC: movies that compete for a slot.  *)
(***************************************************************************)
EXTENDS MetadataWorker

OneOptional == <<"images">>
Urgent      == [m \in Movies |-> {"seed", "search", "rescrape"}]
==============================================================================
