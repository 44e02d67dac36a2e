------------------------------ MODULE MCPmImages ------------------------------
(***************************************************************************)
(* The ring of images for TLC.  Three images and one freeze frame are the  *)
(* smallest ring with TotalImages >= FreezeFrames + 2, and four fills are  *)
(* enough for an image to be reused.                                       *)
(***************************************************************************)
EXTENDS PmImages
=============================================================================
