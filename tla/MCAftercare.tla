---------------------------- MODULE MCAftercare ----------------------------
(***************************************************************************)
(* Aftercare over a handful of runs, with every failure.                   *)
(***************************************************************************)
EXTENDS Aftercare
=============================================================================
