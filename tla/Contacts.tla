------------------------------- MODULE Contacts -------------------------------
(***************************************************************************)
(* What wl::TouchHandler::active() promises: a set of touch contacts, at   *)
(* most MaxPoints of them and no two with the same id.  A contact enters   *)
(* whole, with its position, or not at all; it stays, and only its         *)
(* position changes, until it is lifted or all of them are cancelled.      *)
(***************************************************************************)
EXTENDS Integers, FiniteSets

CONSTANTS
  Ids,       \* contact ids
  Positions, \* where a contact may be
  MaxPoints  \* kMaxPoints

VARIABLE active  \* the contacts, each with its id and position

TouchPoint == [id : Ids, pos : Positions]
IdsOf(S) == {p.id : p \in S}
Without(S, id) == {p \in S : p.id # id}

Init == active = {}

Enter(p) ==
  /\ p.id \notin IdsOf(active)
  /\ Cardinality(active) < MaxPoints
  /\ active' = active \cup {p}

Move(p) ==
  /\ p.id \in IdsOf(active)
  /\ active' = Without(active, p.id) \cup {p}

Lift(id) ==
  /\ id \in IdsOf(active)
  /\ active' = Without(active, id)

Cancel == active' = {}

Next ==
  \/ \E p \in TouchPoint : Enter(p) \/ Move(p)
  \/ \E id \in Ids : Lift(id)
  \/ Cancel

Spec == Init /\ [][Next]_active
=============================================================================
