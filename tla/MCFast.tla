------------------------------- MODULE MCFast -------------------------------
(***************************************************************************)
(* The daemon for model checking.  The constants are in the .cfg files:    *)
(* queues of two or three messages, so that they overflow; directories of  *)
(* two files, so that they fill up.  The commands are chosen by the        *)
(* question of each run.                                                   *)
(***************************************************************************)
EXTENDS FastProperties
=============================================================================
