---------------------------- MODULE MCArtifacts ----------------------------
(***************************************************************************)
(* Artifacts on small instances; the .cfg files choose the faults and      *)
(* bounds.                                                                 *)
(***************************************************************************)
EXTENDS Artifacts
=============================================================================
