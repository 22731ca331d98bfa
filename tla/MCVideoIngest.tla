---------------------------- MODULE MCVideoIngest ----------------------------
(* Values for checking VideoIngest and the StreamBuffer it feeds: two       *)
(* packages that are alike.  Nothing checked here depends on the bytes cut  *)
(* off a frame (video_faults does), so neither ends in a size.              *)
EXTENDS VideoIngest, TLC

CONSTANTS first, second

MCPayload == {first, second}
MCSizeTail == {}
MCSymmetry == Permutations(MCPayload)
=============================================================================
