---------------------------- MODULE MC_EventLoop ----------------------------
(* Three auxiliary sources, of which the last is beyond a limit of two; up   *)
(* to two events wait at a time.  The overloads with no source and with one  *)
(* are the behaviours in which the others never become readable.             *)
EXTENDS EventLoop
=============================================================================
