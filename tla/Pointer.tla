------------------------------- MODULE Pointer -------------------------------
(***************************************************************************)
(* wl::PointerHandler (include/wl/pointer.hpp) under wl::SeatManager:      *)
(* scrolling is gathered per axis until the compositor ends the frame, and *)
(* told to the App in one measure whatever the version of the wl_pointer.  *)
(*                                                                         *)
(* The handler outlives the wl_pointer object: SeatManager destroys the    *)
(* proxy when the seat loses its pointer, and gives the same handler a new *)
(* one when a pointer returns.                                             *)
(***************************************************************************)
EXTENDS Integers, SequencesExt

CONSTANTS
  Versions,         \* of the seat, which its wl_pointer inherits
  Positions,        \* where the pointer may be
  Distances,        \* of an axis event, in parts of a logical pixel
  Clicks,           \* of an axis_discrete event
  Notches,          \* of an axis_value120 event
  Sources,          \* of scrolling
  Scale,            \* parts in a logical pixel (256 for wl_fixed_t)
  Max32,            \* the largest int32, Min32 being the smallest
  FrameLen,         \* bound: scroll events in one frame
  LeaveBeforeLoss   \* the compositor takes the pointer off the surface, or ends
                    \* the frame, before it withdraws the pointer

ASSUME VersionsAssumption == Versions \subseteq Nat /\ FrameLen \in Nat
ASSUME AmountsAssumption ==
  /\ Distances \subseteq Int /\ Clicks \subseteq Int /\ Notches \subseteq Int
  /\ Sources \subseteq Nat
  /\ Scale \in Nat \ {0} /\ Max32 \in Nat
ASSUME PointerLossAssumption == LeaveBeforeLoss \in BOOLEAN

VARIABLES
  version,   \* ver_ of SeatManager
  bound,     \* pointer_ is not null
  stray,     \* compositor: it serves a wl_pointer that nobody holds
  over,      \* compositor: the pointer is over a surface of this client
  where,     \* compositor: at which position
  at,        \* x_, y_
  axes,      \* axes_
  source,    \* source_
  frame,     \* history: the scroll events of the frame that is under way
  closed,    \* history: those of the frame that ended in the last step
  scrolled,  \* the events OnPointerAxis was given in the last step
  clicked    \* the positions OnPointerButton was given in the last step

seat == <<version, bound, stray>>
vars == <<seat, over, where, at, axes, source, frame, closed, scrolled, clicked>>

Axis == {0, 1}
Unknown == -1  \* kAxisSourceUnknown, which no source is
Min32 == -Max32 - 1

NoAxis ==
  [ active |-> FALSE, stop |-> FALSE, continuous |-> 0, discrete |-> 0, value120 |-> 0,
    has_discrete |-> FALSE, has_value120 |-> FALSE ]
NoAxes == [a \in Axis |-> NoAxis]

AxisState ==
  [ active : BOOLEAN, stop : BOOLEAN, continuous : Int, discrete : Int, value120 : Int,
    has_discrete : BOOLEAN, has_value120 : BOOLEAN ]

(* What the compositor sent: an event, the axis it is for, and how much (or *)
(* which source).                                                          *)
Event == [kind : {"axis", "source", "stop", "discrete", "value120"}, axis : 0..2, amount : Int]

Init ==
  /\ version \in Versions
  /\ bound = FALSE /\ stray = FALSE /\ over = FALSE
  /\ where \in Positions /\ at \in Positions
  /\ axes = NoAxes /\ source = Unknown
  /\ frame = << >> /\ closed = << >> /\ scrolled = {} /\ clicked = {}
-----------------------------------------------------------------------------
(* What is told to the App.                                                *)

ClampValue120_Wraps(v) ==  \* mutant: converted instead of clamped
  ((v + Max32 + 1) % (2 * Max32 + 2)) - (Max32 + 1)

ClampValue120(v) == IF v < Min32 THEN Min32 ELSE IF v > Max32 THEN Max32 ELSE v

(* continuous / 10 * 120, rounded to the nearest, halves away from zero.   *)
SynthesizeValue120(c) ==
  ClampValue120(IF c >= 0 THEN (24 * c + Scale) \div (2 * Scale)
                          ELSE -((Scale - 24 * c) \div (2 * Scale)))

(* The first measure that applies.                                         *)
Value120(x) ==
  IF version >= 8 /\ x.has_value120 THEN ClampValue120(x.value120)
  ELSE IF x.has_discrete THEN ClampValue120(x.discrete * 120)
  ELSE SynthesizeValue120(x.continuous)

AxisEvent(a, x) ==
  [ axis |-> a, value120 |-> Value120(x), continuous |-> x.continuous,
    source |-> source, stop |-> x.stop ]

(* Every axis that was touched, given what was gathered in now.            *)
Flush(now) ==
  /\ scrolled' = {AxisEvent(a, now[a]) : a \in {b \in Axis : now[b].active}}
  /\ axes' = NoAxes /\ source' = Unknown
-----------------------------------------------------------------------------
(* The handlers.                                                           *)

OnEnter_KeepsPosition(p) ==  \* mutant: the first motion is waited for
  UNCHANGED <<at, axes, source>> /\ scrolled' = {}

OnEnter(p) == at' = p /\ UNCHANGED <<axes, source>> /\ scrolled' = {}

OnLeave_KeepsAxes ==  \* mutant: ResetAxes is left out
  UNCHANGED <<at, axes, source>> /\ scrolled' = {}

OnLeave == axes' = NoAxes /\ source' = Unknown /\ UNCHANGED at /\ scrolled' = {}

OnMotion(p) == at' = p /\ UNCHANGED <<axes, source>> /\ scrolled' = {}

OnButton == clicked' = {at} /\ UNCHANGED <<at, axes, source>> /\ scrolled' = {}

(* An event for an axis that does not exist changes nothing.               *)
Gather(a, x) ==
  /\ scrolled' = {} /\ UNCHANGED source
  /\ axes' = IF a \in Axis THEN [axes EXCEPT ![a] = x] ELSE axes

(* Before version 5 every axis event is a frame of its own.                *)
Further(x, d) == [x EXCEPT !.active = TRUE, !.continuous = @ + d]

OnAxis(a, d) ==
  LET now == [axes EXCEPT ![a] = Further(axes[a], d)]
  IN  IF a \notin Axis THEN scrolled' = {} /\ UNCHANGED <<axes, source>>
      ELSE IF version < 5 THEN Flush(now)
      ELSE scrolled' = {} /\ axes' = now /\ UNCHANGED source

OnAxisSource(s) == source' = s /\ UNCHANGED axes /\ scrolled' = {}

OnAxisStop(a) == Gather(a, [axes[a] EXCEPT !.active = TRUE, !.stop = TRUE])

OnAxisDiscrete(a, n) ==
  Gather(a, [axes[a] EXCEPT !.active = TRUE, !.has_discrete = TRUE, !.discrete = @ + n])

OnAxisValue120(a, n) ==
  Gather(a, [axes[a] EXCEPT !.active = TRUE, !.has_value120 = TRUE, !.value120 = @ + n])

OnFrame == Flush(axes)
-----------------------------------------------------------------------------
(* The seat.  A wl_pointer is constructed when there is none, and that may *)
(* fail; it is released, from version 3 on, when the seat has no pointer.  *)

OnCapabilities_Again(has_ptr) ==  \* mutant: whether there is one is not asked
  IF has_ptr
  THEN \E made \in BOOLEAN : bound' = (bound \/ made) /\ stray' = (stray \/ (bound /\ made))
  ELSE bound' = FALSE /\ stray' = (stray \/ (bound /\ version < 3))

OnCapabilities(has_ptr) ==
  IF has_ptr /\ ~bound THEN bound' \in BOOLEAN /\ UNCHANGED stray
  ELSE IF ~has_ptr /\ bound THEN bound' = FALSE /\ stray' = (stray \/ version < 3)
  ELSE UNCHANGED <<bound, stray>>

(* Events in flight for a destroyed proxy are dropped by the library.      *)
Capabilities(has_ptr) ==
  /\ LeaveBeforeLoss /\ bound /\ ~has_ptr => ~over /\ frame = << >>
  /\ OnCapabilities(has_ptr)
  /\ IF bound /\ ~bound' THEN over' = FALSE /\ frame' = << >> ELSE UNCHANGED <<over, frame>>
  /\ closed' = << >> /\ scrolled' = {} /\ clicked' = {}
  /\ UNCHANGED <<version, where, at, axes, source>>

Enter(p) ==
  /\ bound /\ ~over
  /\ over' = TRUE /\ where' = p /\ OnEnter(p)
  /\ clicked' = {} /\ closed' = << >> /\ UNCHANGED <<seat, frame>>

(* What was scrolled before belongs to no frame any more.                  *)
Leave ==
  /\ bound /\ over
  /\ over' = FALSE /\ frame' = << >> /\ OnLeave
  /\ clicked' = {} /\ closed' = << >> /\ UNCHANGED <<seat, where>>

Motion(p) ==
  /\ bound /\ over
  /\ where' = p /\ OnMotion(p)
  /\ clicked' = {} /\ closed' = << >> /\ UNCHANGED <<seat, over, frame>>

Button ==
  /\ bound /\ over
  /\ OnButton
  /\ closed' = << >> /\ UNCHANGED <<seat, over, where, frame>>

(* A scroll event over the surface.  It joins the frame that is under way, *)
(* or is one, if the wl_pointer knows no frames.                           *)
Scroll(e) ==
  /\ bound /\ over /\ Len(frame) < FrameLen
  /\ IF version >= 5 THEN frame' = Append(frame, e) /\ closed' = << >>
                     ELSE frame' = << >> /\ closed' = << e >>
  /\ clicked' = {} /\ UNCHANGED <<seat, over, where, at>>

(* Each kind of event has the version it came with; an axis the client     *)
(* does not know may be named.                                             *)
Wire(k, a, n) == [kind |-> k, axis |-> a, amount |-> n]

ScrollAxis(a, d) == Scroll(Wire("axis", a, d)) /\ OnAxis(a, d)
ScrollSource(s) == version >= 5 /\ Scroll(Wire("source", 0, s)) /\ OnAxisSource(s)
ScrollStop(a) == version >= 5 /\ Scroll(Wire("stop", a, 0)) /\ OnAxisStop(a)
ScrollDiscrete(a, n) ==
  version >= 5 /\ Scroll(Wire("discrete", a, n)) /\ OnAxisDiscrete(a, n)
ScrollValue120(a, n) ==
  version >= 8 /\ Scroll(Wire("value120", a, n)) /\ OnAxisValue120(a, n)

Frame ==
  /\ bound /\ version >= 5
  /\ frame' = << >> /\ closed' = frame /\ OnFrame
  /\ clicked' = {} /\ UNCHANGED <<seat, over, where, at>>

Next ==
  \/ \E has_ptr \in BOOLEAN : Capabilities(has_ptr)
  \/ \E p \in Positions : Enter(p) \/ Motion(p)
  \/ Leave \/ Button \/ Frame
  \/ \E s \in Sources : ScrollSource(s)
  \/ \E a \in 0..2 :
       \/ ScrollStop(a)
       \/ \E d \in Distances : ScrollAxis(a, d)
       \/ \E n \in Clicks : ScrollDiscrete(a, n)
       \/ \E n \in Notches : ScrollValue120(a, n)

Spec == Init /\ [][Next]_vars
-----------------------------------------------------------------------------
TypeOK ==
  /\ version \in Versions /\ bound \in BOOLEAN /\ stray \in BOOLEAN /\ over \in BOOLEAN
  /\ where \in Positions /\ at \in Positions
  /\ axes \in [Axis -> AxisState]
  /\ source \in Sources \cup {Unknown}
  /\ frame \in Seq(Event) /\ clicked \subseteq Positions

(* The events of a kind for an axis in a frame, and their sum.             *)
Has(f, k, a) == \E i \in DOMAIN f : f[i].kind = k /\ f[i].axis = a
Amount(e, k, a) == IF e.kind = k /\ e.axis = a THEN e.amount ELSE 0

Total(f, k, a) ==
  LET sum[n \in 0..Len(f)] == IF n = 0 THEN 0 ELSE sum[n - 1] + Amount(f[n], k, a)
  IN  sum[Len(f)]

(* The source that was named last, if one was.                             *)
Names(f, s) ==
  \/ s = Unknown /\ \A i \in DOMAIN f : f[i].kind # "source"
  \/ \E i \in DOMAIN f : /\ f[i].kind = "source" /\ f[i].amount = s
                         /\ \A j \in DOMAIN f : f[j].kind = "source" => j <= i

(* As near to a distance (in parts of a 120th) as an int32 comes to it.    *)
Near(v, exact) ==
  LET off == 2 * (Scale * v - exact)
  IN  \/ -Scale <= off /\ off <= Scale
      \/ v = Max32 /\ off < 0
      \/ v = Min32 /\ off > 0

(* An event tells the whole of a frame about one axis: the distance, the   *)
(* source if one was named, the stop, and the notches by the best measure  *)
(* the frame has.                                                          *)
Tells(ev, f) ==
  /\ ev.continuous = Total(f, "axis", ev.axis)
  /\ ev.stop = Has(f, "stop", ev.axis)
  /\ Names(f, ev.source)
  /\ Near(ev.value120,
          IF Has(f, "value120", ev.axis) THEN Scale * Total(f, "value120", ev.axis)
          ELSE IF Has(f, "discrete", ev.axis) THEN Scale * (120 * Total(f, "discrete", ev.axis))
          ELSE 12 * Total(f, "axis", ev.axis))

(* "One PointerAxisEvent per scrolled axis per frame": nothing is lost,    *)
(* told twice, or carried over from an earlier frame, another surface or a *)
(* wl_pointer that is gone; and however far a frame scrolls, the direction *)
(* is right ("instead of flipping the scroll direction", ClampValue120).   *)
TellsEachFrame ==
  /\ \A ev \in scrolled : Tells(ev, closed)
  /\ {ev.axis : ev \in scrolled} = {closed[i].axis : i \in
        {j \in DOMAIN closed : closed[j].kind # "source"}} \cap Axis
  /\ \A ev1, ev2 \in scrolled : ev1.axis = ev2.axis => ev1 = ev2

(* A button event carries the position of the pointer, which wl_pointer    *)
(* does not send along: also right after an enter, and after a pointer was *)
(* unplugged elsewhere and plugged in here.                                *)
ClicksWhereItIs == clicked \subseteq {where}

(* However often the capabilities are announced, whatever construct does,  *)
(* the compositor serves no wl_pointer that nobody holds, unless the seat  *)
(* is older than the request that would release it.                        *)
NoStrayPointer == version >= 3 => ~stray

(* Nothing is gathered between frames: a frame starts from nothing, whatever *)
(* ended the one before it.                                                *)
NothingPending == frame = << >> => axes = NoAxes /\ source = Unknown
=============================================================================
