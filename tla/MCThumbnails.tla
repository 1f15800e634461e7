---------------------------- MODULE MCThumbnails ----------------------------
(***************************************************************************)
(* Thumbnails on small instances: three photos, of which at most two get   *)
(* an image, and three rounds in the same directory.                       *)
(***************************************************************************)
EXTENDS Thumbnails
=============================================================================
