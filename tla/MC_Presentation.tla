--------------------------- MODULE MC_Presentation ---------------------------
(* Four frames for a pool of two: the pool saturates, answers come in the    *)
(* other order, and both slots are reused.                                   *)
EXTENDS Presentation
=============================================================================
