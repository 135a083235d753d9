------------------------------ MODULE MC_Cursor ------------------------------
(* A static and an animated shape; the pointer is taken away and comes back  *)
(* twice, and the theme is loaded twice more after the first, each theme     *)
(* resolving any of the two names.                                           *)
EXTENDS Cursor

MCShapes == {"default", "busy"}
MCAnimated == {"busy"}
=============================================================================
