------------------------------ MODULE MC_Pointer ------------------------------
(* A seat too old for frames (and for release), one with frames and whole    *)
(* clicks, one with 120ths.  Eight parts to a pixel, so that a distance may  *)
(* be half a 120th; an int32 that two clicks exceed.                         *)
EXTENDS Pointer
MCVersions == {2, 5, 8}
MCPositions == {"here", "there"}
MCDistances == {-5, 2, 200}
MCClicks == {-1, 1}
MCNotches == {-100, 30}
MCSources == {0, 1}
=============================================================================
