------------------------------ MODULE MCServer ------------------------------
(***************************************************************************)
(* The server for model checking: each run takes the kinds of connections  *)
(* and the bytes that its question needs.                                  *)
(***************************************************************************)
EXTENDS ServerProperties
=============================================================================
