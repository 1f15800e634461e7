------------------------------ MODULE MCWatch ------------------------------
(***************************************************************************)
(* Watch on small instances; the .cfg files choose the faults and bounds.  *)
(***************************************************************************)
EXTENDS Watch, TLC

\* Photos are interchangeable.
PhotoSymmetry == Permutations(Files)
=============================================================================
