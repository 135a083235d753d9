---------------------------- MODULE MC_Roundtrip ----------------------------
(* Two units of timeout, two events before or after the marker, two signals. *)
EXTENDS Roundtrip
=============================================================================
