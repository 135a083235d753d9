----------------------------- MODULE MC_Keyboard -----------------------------
(* Two keys that may repeat and one that may not, two keymaps (one repeats   *)
(* key 2, the other does not), rates on and off.                             *)
EXTENDS Keyboard

MCKeys == {1, 2, 3}
MCKeymaps == {{1, 2}, {1}}
MCRates == {0, 25}
MCDelays == {0, 300}
=============================================================================
