------------------------------- MODULE Feedback -------------------------------
(***************************************************************************)
(* What wl::PresentationManager promises the App: of the frames it armed,  *)
(* at most MaxInFlight are outstanding; each is reported once, or given up *)
(* for good when the manager is released.                                  *)
(***************************************************************************)
EXTENDS Integers, FiniteSets

CONSTANTS
  Frames,      \* the frames the App commits
  MaxInFlight  \* kMaxInFlight

VARIABLES
  outstanding, \* frames armed and not reported
  resolved     \* frames reported, as presented or as discarded

vars == <<outstanding, resolved>>

Init == outstanding = {} /\ resolved = {}

Arm(f) ==
  /\ f \notin outstanding \cup resolved
  /\ Cardinality(outstanding) < MaxInFlight
  /\ outstanding' = outstanding \cup {f}
  /\ UNCHANGED resolved

Resolve(f) ==
  /\ f \in outstanding
  /\ outstanding' = outstanding \ {f}
  /\ resolved' = resolved \cup {f}

GiveUp == outstanding' = {} /\ UNCHANGED resolved

Next == (\E f \in Frames : Arm(f) \/ Resolve(f)) \/ GiveUp

Spec == Init /\ [][Next]_vars
=============================================================================
