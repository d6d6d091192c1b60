--------------------------- MODULE MCJsonlJournal ---------------------------
(* Instances of JsonlJournal for TLC; the constants are in the cfg files.   *)
EXTENDS JsonlJournal
=============================================================================
