-------------------------------- MODULE Touch --------------------------------
(***************************************************************************)
(* wl::TouchHandler (include/wl/touch.hpp): the table of active contacts,  *)
(* an array kept compact by moving the last contact into the place of the  *)
(* one that is lifted, with room for MaxPoints of them.                    *)
(*                                                                         *)
(* The handler outlives the wl_touch object: wl::SeatManager destroys the  *)
(* proxy when the seat loses its touch capability, and gives the same      *)
(* handler a new one when the capability returns.                          *)
(***************************************************************************)
EXTENDS Integers, FiniteSets

CONSTANTS
  Ids,            \* contact ids the compositor uses
  Positions,      \* where a contact may be
  MaxPoints,      \* kMaxPoints
  LiftBeforeLoss  \* the compositor ends every contact before it withdraws touch

ASSUME PointsAssumption == MaxPoints \in Nat \ {0} /\ Positions # {}
ASSUME LossAssumption == LiftBeforeLoss \in BOOLEAN

VARIABLES
  points,   \* points_
  count,    \* count_
  present,  \* touch_ is not null
  down,     \* compositor: the contacts on this client's surfaces
  crowded,  \* history: since the last time none was down there were more than MaxPoints
  told,     \* history: ids of OnTouchDown without an OnTouchUp or OnTouchCancel yet
  call      \* the hooks called in the last step, with the id they were given

touchVars == <<points, count, present, down, crowded, told, call>>

TouchPoint == [id : Ids, pos : Positions]
IdsOf(S) == {p.id : p \in S}
Without(S, id) == {p \in S : p.id # id}

(* active(): the first count_ points.                                        *)
Active == {points[i] : i \in 1..count}

TouchTypeOK ==
  /\ points \in [1..MaxPoints -> TouchPoint]
  /\ count \in 0..MaxPoints
  /\ present \in BOOLEAN /\ crowded \in BOOLEAN
  /\ down \subseteq TouchPoint
  /\ told \subseteq Ids
  /\ call \subseteq {"down", "up", "motion"} \X Ids

(* The places beyond count_ hold points nobody looks at.                     *)
TouchInit ==
  /\ \E p \in TouchPoint : points = [i \in 1..MaxPoints |-> p]
  /\ count = 0
  /\ present = FALSE
  /\ down = {} /\ crowded = FALSE /\ told = {} /\ call = {}
-----------------------------------------------------------------------------
(* The table.                                                                *)

(* Find: the contact's place, if it has one.                                 *)
Places(id) == {i \in 1..count : points[i].id = id}

(* The contact's new position goes where the contact is.                     *)
Refresh(p) ==
  points' = [i \in 1..MaxPoints |-> IF i \in Places(p.id) THEN p ELSE points[i]]

Add_NoCap(p) ==  \* mutant: a contact beyond the cap takes the last place
  IF Places(p.id) # {}
  THEN Refresh(p) /\ UNCHANGED count
  ELSE /\ count' = IF count < MaxPoints THEN count + 1 ELSE count
       /\ points' = [points EXCEPT ![count'] = p]

(* A contact that is there is refreshed in place; with no room left the      *)
(* table is unchanged.                                                       *)
Add(p) ==
  IF Places(p.id) # {}
  THEN Refresh(p) /\ UNCHANGED count
  ELSE IF count < MaxPoints
  THEN points' = [points EXCEPT ![count + 1] = p] /\ count' = count + 1
  ELSE UNCHANGED <<points, count>>

Remove_KeepsLast(i) ==  \* mutant: the gap is not filled with the last contact
  count' = count - 1 /\ UNCHANGED points

(* The last contact moves into the gap.                                      *)
Remove(i) ==
  /\ count' = count - 1
  /\ points' = [points EXCEPT ![i] = points[count]]
-----------------------------------------------------------------------------
(* The handlers.  The App is told of a contact only when the table has it.   *)

OnDown(p) ==
  /\ Add(p)
  /\ IF Places(p.id) # {} \/ count < MaxPoints
     THEN told' = told \cup {p.id} /\ call' = {<<"down", p.id>>}
     ELSE told' = told /\ call' = {}

OnUp(id) ==
  IF Places(id) # {}
  THEN /\ \E i \in Places(id) : Remove(i)
       /\ told' = told \ {id} /\ call' = {<<"up", id>>}
  ELSE UNCHANGED <<points, count, told>> /\ call' = {}

OnMotion_TellsAll(p) ==  \* mutant: the App is told although Find found nothing
  /\ Refresh(p)
  /\ call' = {<<"motion", p.id>>}
  /\ UNCHANGED <<count, told>>

OnMotion(p) ==
  IF Places(p.id) # {}
  THEN /\ Refresh(p)
       /\ call' = {<<"motion", p.id>>}
       /\ UNCHANGED <<count, told>>
  ELSE UNCHANGED <<points, count, told>> /\ call' = {}

OnCancel_KeepsPoints ==  \* mutant: the table is not emptied
  told' = {} /\ call' = {} /\ UNCHANGED <<points, count>>

OnCancel ==
  /\ count' = 0
  /\ told' = {} /\ call' = {}
  /\ UNCHANGED points
-----------------------------------------------------------------------------
(* The compositor and wl::SeatManager.                                       *)

GainTouch ==
  /\ ~present
  /\ present' = TRUE /\ call' = {}
  /\ UNCHANGED <<points, count, down, crowded, told>>

(* ReleaseTouch destroys the proxy and leaves the handler as it is.          *)
LoseTouch ==
  /\ present
  /\ LiftBeforeLoss => down = {}
  /\ present' = FALSE
  /\ down' = {} /\ crowded' = FALSE /\ call' = {}
  /\ UNCHANGED <<points, count, told>>

Down(p) ==
  /\ present /\ p.id \notin IdsOf(down)
  /\ down' = down \cup {p}
  /\ crowded' = (crowded \/ Cardinality(down) >= MaxPoints)
  /\ OnDown(p)
  /\ UNCHANGED present

Up(id) ==
  /\ present /\ id \in IdsOf(down)
  /\ down' = Without(down, id)
  /\ crowded' = (crowded /\ down' # {})
  /\ OnUp(id)
  /\ UNCHANGED present

Motion(p) ==
  /\ present /\ p.id \in IdsOf(down)
  /\ down' = Without(down, p.id) \cup {p}
  /\ OnMotion(p)
  /\ UNCHANGED <<present, crowded>>

Cancel ==
  /\ present
  /\ down' = {} /\ crowded' = FALSE
  /\ OnCancel
  /\ UNCHANGED present

TouchNext ==
  \/ GainTouch \/ LoseTouch \/ Cancel
  \/ \E p \in TouchPoint : Down(p) \/ Motion(p)
  \/ \E id \in Ids : Up(id)

TouchSpec == TouchInit /\ [][TouchNext]_touchVars
-----------------------------------------------------------------------------
(* No contact has two places in the table: a second one would stay behind    *)
(* when the contact is lifted, as Remove takes only the first.               *)
OnePlacePerContact ==
  \A i, j \in 1..count : points[i].id = points[j].id => i = j

(* The App sees a well-formed story of each contact: motion and up only      *)
(* after a down, and nothing of a contact beyond the cap ("never partially   *)
(* tracked", kMaxPoints).                                                    *)
AppSeesWholeContacts ==
  [][\A c \in call' : c[1] \in {"up", "motion"} => c[2] \in told]_touchVars

(* active() never holds a contact that nobody makes ("The current active     *)
(* contacts", active()).                                                     *)
NoPhantoms == Active \subseteq down

(* As long as the contacts that were down together fit the table, active()   *)
(* is exactly what is on the surface, positions included; so the table       *)
(* recovers from a crowd once every contact is lifted.                       *)
MirrorsSurface == ~crowded => Active = down

(* The table implements the abstract set of contacts.                        *)
C == INSTANCE Contacts WITH active <- Active
ImplementsContacts == C!Spec
=============================================================================
