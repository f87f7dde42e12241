----------------------------- MODULE SegmentsMC -----------------------------
(***************************************************************************)
(* An instance of Segments in which the cameras, which are alike, are      *)
(* model values.                                                           *)
(***************************************************************************)
EXTENDS Segments, TLC

CameraSymmetry == Permutations(Cameras)
=============================================================================
