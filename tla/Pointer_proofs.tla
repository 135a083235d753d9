---------------------------- MODULE Pointer_proofs ----------------------------
(***************************************************************************)
(* For seats of every version, amounts of every size and frames of every   *)
(* length: a frame starts from nothing and is told whole, and no           *)
(* wl_pointer is served that nobody holds.                                 *)
(***************************************************************************)
EXTENDS Pointer, WellFoundedInduction, TLAPS

(* What is told is an int32, whatever was gathered ("Saturate an           *)
(* accumulated notch count into the event's int32").                       *)
LEMMA Saturated ==
  ASSUME NEW v \in Int
  PROVE  /\ ClampValue120(v) \in Min32..Max32
         /\ v \in Min32..Max32 => ClampValue120(v) = v
BY AmountsAssumption DEF ClampValue120, Min32

(* The direction survives the clamp ("merely huge instead of flipping the  *)
(* scroll direction").                                                     *)
THEOREM DirectionKept ==
  ASSUME NEW v \in Int
  PROVE  (v > 0 => ClampValue120(v) >= 0) /\ (v < 0 => ClampValue120(v) < 0)
BY AmountsAssumption DEF ClampValue120, Min32

(* No frame is under way on a wl_pointer that knows none.                  *)
NoFrameBefore5 == version < 5 => frame = << >>

(* What a lost pointer could leave behind is part of a frame, so a pointer *)
(* without frames leaves nothing, whatever the compositor does.            *)
Pending == LeaveBeforeLoss \/ version < 5 => NothingPending

IInv == TypeOK /\ Pending /\ NoStrayPointer /\ NoFrameBefore5

LEMMA NoAxisType == NoAxis \in AxisState
BY DEF NoAxis, AxisState

LEMMA NoAxesType == NoAxes \in [Axis -> AxisState]
BY NoAxisType DEF NoAxes

LEMMA EmptyFrame == << >> \in Seq(Event)
OBVIOUS

(* What an event adds to the state of its axis leaves it well-formed.      *)
LEMMA AddedType ==
  ASSUME NEW x \in AxisState, NEW n \in Int
  PROVE  /\ Further(x, n) \in AxisState
         /\ [x EXCEPT !.active = TRUE, !.has_discrete = TRUE, !.discrete = @ + n] \in AxisState
         /\ [x EXCEPT !.active = TRUE, !.has_value120 = TRUE, !.value120 = @ + n] \in AxisState
<1>1. x.continuous + n \in Int /\ x.discrete + n \in Int /\ x.value120 + n \in Int
  BY DEF AxisState
<1>2. ASSUME NEW v \in Int
      PROVE  /\ [x EXCEPT !.active = TRUE, !.continuous = v] \in AxisState
             /\ [x EXCEPT !.active = TRUE, !.has_discrete = TRUE, !.discrete = v] \in AxisState
             /\ [x EXCEPT !.active = TRUE, !.has_value120 = TRUE, !.value120 = v] \in AxisState
  BY DEF AxisState
<1>. QED  BY <1>1, <1>2 DEF Further

(* A flush leaves nothing.                                                 *)
LEMMA FlushResets ==
  ASSUME NEW now, Flush(now)
  PROVE  axes' \in [Axis -> AxisState] /\ axes' = NoAxes /\ source' = Unknown
BY NoAxesType DEF Flush

LEMMA InitIInv == Init => IInv
<1>. SUFFICES ASSUME Init PROVE IInv
  OBVIOUS
<1>1. axes \in [Axis -> AxisState] /\ frame \in Seq(Event)
  BY NoAxesType, EmptyFrame DEF Init
<1>2. Pending /\ NoStrayPointer /\ NoFrameBefore5
  BY DEF Init, Pending, NothingPending, NoStrayPointer, NoFrameBefore5
<1>. QED  BY <1>1, <1>2 DEF Init, IInv, TypeOK

(* What a scroll event that joins a frame leaves behind: not an empty one. *)
LEMMA Joined ==
  ASSUME TypeOK, NEW e \in Event, Scroll(e), version >= 5
  PROVE  frame' \in Seq(Event) /\ frame' # << >>
<1>1. frame' = Append(frame, e)
  BY DEF Scroll
<1>. QED  BY <1>1 DEF TypeOK

LEMMA JoinedStep ==
  ASSUME IInv, NEW e \in Event, Scroll(e), version >= 5,
         axes' \in [Axis -> AxisState], source' \in Sources \cup {Unknown}
  PROVE  IInv'
<1>1. frame' \in Seq(Event) /\ frame' # << >>
  BY Joined DEF IInv
<1>2. version \in Nat
  BY VersionsAssumption DEF IInv, TypeOK
<1>. QED
  BY <1>1, <1>2
  DEF IInv, TypeOK, Pending, NothingPending, NoStrayPointer, NoFrameBefore5, Scroll, seat

(* An event for one axis leaves the state of the axes well-formed.         *)
LEMMA GatherType ==
  ASSUME TypeOK, NEW a, NEW x, a \in Axis => x \in AxisState, Gather(a, x)
  PROVE  axes' \in [Axis -> AxisState] /\ source' = source
BY DEF Gather, TypeOK

LEMMA CapabilitiesStep ==
  ASSUME IInv, NEW has_ptr \in BOOLEAN, Capabilities(has_ptr)
  PROVE  IInv'
<1>. USE DEF IInv
<1>1. TypeOK'
  BY EmptyFrame DEF TypeOK, Capabilities, OnCapabilities
<1>2. Pending'
  BY DEF Pending, NothingPending, NoFrameBefore5, Capabilities, OnCapabilities, TypeOK
<1>3. NoStrayPointer'
  BY VersionsAssumption DEF NoStrayPointer, Capabilities, OnCapabilities, TypeOK
<1>4. NoFrameBefore5'
  BY DEF NoFrameBefore5, Capabilities
<1>. QED  BY <1>1, <1>2, <1>3, <1>4

(* The events that are no scrolling.                                       *)
LEMMA PointerStep ==
  ASSUME IInv, Leave \/ Button \/ Frame \/ \E p \in Positions : Enter(p) \/ Motion(p)
  PROVE  IInv'
<1>. USE DEF IInv, TypeOK, Pending, NothingPending, NoStrayPointer, NoFrameBefore5, seat
<1>1. ASSUME NEW p \in Positions, Enter(p) PROVE IInv'
  BY <1>1 DEF Enter, OnEnter
<1>2. ASSUME NEW p \in Positions, Motion(p) PROVE IInv'
  BY <1>2 DEF Motion, OnMotion
<1>3. CASE Leave
  BY <1>3, NoAxesType, EmptyFrame DEF Leave, OnLeave
<1>4. CASE Button
  BY <1>4 DEF Button, OnButton
<1>5. CASE Frame
  <2>1. axes' \in [Axis -> AxisState] /\ axes' = NoAxes /\ source' = Unknown
    BY <1>5, FlushResets DEF Frame, OnFrame
  <2>. QED  BY <1>5, <2>1, EmptyFrame DEF Frame
<1>. QED  BY <1>1, <1>2, <1>3, <1>4, <1>5

(* The events of scrolling.  Before version 5 each of them is flushed; from *)
(* then on they leave a frame that is not empty.                           *)
LEMMA ScrollAxisStep ==
  ASSUME IInv, NEW a \in 0..2, NEW d \in Distances, ScrollAxis(a, d)
  PROVE  IInv'
<1>. USE DEF IInv
<1>. DEFINE e == Wire("axis", a, d)
            now == [axes EXCEPT ![a] = Further(axes[a], d)]
<1>1. Scroll(e) /\ OnAxis(a, d) /\ e \in Event
  BY AmountsAssumption DEF ScrollAxis, Wire, Event
<1>2. a \in Axis => now \in [Axis -> AxisState]
  BY AmountsAssumption, AddedType DEF IInv, TypeOK
<1>3. version \in Nat
  BY VersionsAssumption DEF IInv, TypeOK
<1>4. CASE version >= 5
  <2>1. axes' \in [Axis -> AxisState] /\ source' = source
    BY <1>1, <1>2, <1>3, <1>4 DEF OnAxis, IInv, TypeOK
  <2>. QED  BY <1>1, <1>4, <2>1, JoinedStep DEF IInv, TypeOK
<1>5. CASE version < 5
  <2>1. axes' = NoAxes /\ source' = Unknown
    <3>1. CASE a \notin Axis
      BY <1>1, <1>5, <3>1 DEF OnAxis, IInv, Pending, NothingPending, NoFrameBefore5
    <3>2. CASE a \in Axis
      BY <1>1, <1>5, <3>2, FlushResets DEF OnAxis
    <3>. QED  BY <3>1, <3>2
  <2>2. frame' = << >> /\ frame' \in Seq(Event)
    <3>1. ~(version >= 5)
      BY <1>3, <1>5
    <3>. QED  BY <1>1, <3>1, EmptyFrame DEF Scroll
  <2>. QED
    BY <1>1, <2>1, <2>2, NoAxesType
    DEF IInv, TypeOK, Pending, NothingPending, NoStrayPointer, NoFrameBefore5, Scroll, seat
<1>. QED  BY <1>3, <1>4, <1>5

(* The other events of scrolling come with frames.                         *)
LEMMA ScrollSourceStep ==
  ASSUME IInv, NEW s \in Sources, ScrollSource(s)
  PROVE  IInv'
<1>1. Wire("source", 0, s) \in Event
  BY AmountsAssumption DEF Wire, Event
<1>2. axes' \in [Axis -> AxisState] /\ source' \in Sources
  BY DEF ScrollSource, OnAxisSource, IInv, TypeOK
<1>. QED  BY <1>1, <1>2, JoinedStep DEF IInv, TypeOK, ScrollSource

LEMMA ScrollStopStep ==
  ASSUME IInv, NEW a \in 0..2, ScrollStop(a)
  PROVE  IInv'
<1>1. Wire("stop", a, 0) \in Event
  BY DEF Wire, Event
<1>2. axes' \in [Axis -> AxisState] /\ source' = source
  <2>. DEFINE x == [axes[a] EXCEPT !.active = TRUE, !.stop = TRUE]
  <2>1. a \in Axis => x \in AxisState
    BY DEF IInv, TypeOK, AxisState
  <2>2. Gather(a, x)
    BY DEF ScrollStop, OnAxisStop
  <2>. HIDE DEF x
  <2>. QED  BY <2>1, <2>2, GatherType DEF IInv
<1>. QED  BY <1>1, <1>2, JoinedStep DEF IInv, TypeOK, ScrollStop

LEMMA ScrollDiscreteStep ==
  ASSUME IInv, NEW a \in 0..2, NEW n \in Clicks, ScrollDiscrete(a, n)
  PROVE  IInv'
<1>1. Wire("discrete", a, n) \in Event
  BY AmountsAssumption DEF Wire, Event
<1>2. axes' \in [Axis -> AxisState] /\ source' = source
  <2>. DEFINE x == [axes[a] EXCEPT !.active = TRUE, !.has_discrete = TRUE, !.discrete = @ + n]
  <2>1. a \in Axis => x \in AxisState
    BY AmountsAssumption, AddedType DEF IInv, TypeOK
  <2>2. Gather(a, x)
    BY DEF ScrollDiscrete, OnAxisDiscrete
  <2>. HIDE DEF x
  <2>. QED  BY <2>1, <2>2, GatherType DEF IInv
<1>. QED  BY <1>1, <1>2, JoinedStep DEF IInv, TypeOK, ScrollDiscrete

LEMMA ScrollValue120Step ==
  ASSUME IInv, NEW a \in 0..2, NEW n \in Notches, ScrollValue120(a, n)
  PROVE  IInv'
<1>1. Wire("value120", a, n) \in Event
  BY AmountsAssumption DEF Wire, Event
<1>2. axes' \in [Axis -> AxisState] /\ source' = source
  <2>. DEFINE x == [axes[a] EXCEPT !.active = TRUE, !.has_value120 = TRUE, !.value120 = @ + n]
  <2>1. a \in Axis => x \in AxisState
    BY AmountsAssumption, AddedType DEF IInv, TypeOK
  <2>2. Gather(a, x)
    BY DEF ScrollValue120, OnAxisValue120
  <2>. HIDE DEF x
  <2>. QED  BY <2>1, <2>2, GatherType DEF IInv
<1>3. version >= 5
  BY VersionsAssumption DEF ScrollValue120, IInv, TypeOK
<1>. QED  BY <1>1, <1>2, <1>3, JoinedStep DEF IInv, TypeOK, ScrollValue120
-----------------------------------------------------------------------------
LEMMA NextIInv ==
  ASSUME IInv, [Next]_vars
  PROVE  IInv'
<1>1. CASE UNCHANGED vars
  BY <1>1 DEF vars, seat, IInv, TypeOK, Pending, NothingPending, NoStrayPointer, NoFrameBefore5
<1>2. ASSUME NEW has_ptr \in BOOLEAN, Capabilities(has_ptr) PROVE IInv'
  BY <1>2, CapabilitiesStep
<1>3. CASE Leave \/ Button \/ Frame \/ \E p \in Positions : Enter(p) \/ Motion(p)
  BY <1>3, PointerStep
<1>4. ASSUME NEW s \in Sources, ScrollSource(s) PROVE IInv'
  BY <1>4, ScrollSourceStep
<1>5. ASSUME NEW a \in 0..2, ScrollStop(a) PROVE IInv'
  BY <1>5, ScrollStopStep
<1>6. ASSUME NEW a \in 0..2, NEW d \in Distances, ScrollAxis(a, d) PROVE IInv'
  BY <1>6, ScrollAxisStep
<1>7. ASSUME NEW a \in 0..2, NEW n \in Clicks, ScrollDiscrete(a, n) PROVE IInv'
  BY <1>7, ScrollDiscreteStep
<1>8. ASSUME NEW a \in 0..2, NEW n \in Notches, ScrollValue120(a, n) PROVE IInv'
  BY <1>8, ScrollValue120Step
<1>. QED
  BY <1>1, <1>2, <1>3, <1>4, <1>5, <1>6, <1>7, <1>8 DEF Next

LEMMA Invariant == Spec => []IInv
<1>1. IInv /\ [Next]_vars => IInv'
  BY NextIInv
<1>. QED  BY <1>1, InitIInv, PTL DEF Spec

(* The state is well-formed.                                               *)
THEOREM PointerTypeOK == Spec => []TypeOK
BY Invariant, PTL DEF IInv

(* A compositor that takes the pointer off the surface before it withdraws *)
(* it never has a scroll carried over into a later frame ("drop it rather  *)
(* than misattribute it to the next surface").                             *)
THEOREM FramesStartFromNothing == ASSUME LeaveBeforeLoss PROVE Spec => []NothingPending
<1>1. IInv => NothingPending
  BY DEF IInv, Pending
<1>. QED  BY <1>1, Invariant, PTL

(* Capabilities announced again, lost and regained, and constructs that    *)
(* fail leave no wl_pointer behind on the compositor's side.               *)
THEOREM NoPointerStrays == Spec => []NoStrayPointer
BY Invariant, PTL DEF IInv
-----------------------------------------------------------------------------
(* What the handler believes is where the pointer is, as long as it is on  *)
(* the surface: only then are there clicks.                                *)
Placed == over => at = where

LEMMA PlacedStep ==
  ASSUME Placed, ClicksWhereItIs, [Next]_vars
  PROVE  Placed' /\ ClicksWhereItIs'
<1>. USE DEF Placed, ClicksWhereItIs
<1>1. CASE UNCHANGED vars
  BY <1>1 DEF vars, seat
<1>2. ASSUME NEW has_ptr \in BOOLEAN, Capabilities(has_ptr)
      PROVE  Placed' /\ ClicksWhereItIs'
  BY <1>2 DEF Capabilities
<1>3. ASSUME NEW p \in Positions, Enter(p) \/ Motion(p)
      PROVE  Placed' /\ ClicksWhereItIs'
  BY <1>3 DEF Enter, Motion, OnEnter, OnMotion
<1>4. CASE Leave \/ Button \/ Frame
  BY <1>4 DEF Leave, Button, Frame, OnLeave, OnButton, OnFrame
<1>5. ASSUME NEW e, Scroll(e) PROVE Placed' /\ ClicksWhereItIs'
  BY <1>5 DEF Scroll
<1>6. ASSUME NEW s \in Sources, ScrollSource(s) PROVE Placed' /\ ClicksWhereItIs'
  BY <1>5, <1>6 DEF ScrollSource
<1>7. ASSUME NEW a \in 0..2, ScrollStop(a) PROVE Placed' /\ ClicksWhereItIs'
  BY <1>5, <1>7 DEF ScrollStop
<1>8. ASSUME NEW a \in 0..2, NEW d \in Distances, ScrollAxis(a, d)
      PROVE  Placed' /\ ClicksWhereItIs'
  BY <1>5, <1>8 DEF ScrollAxis
<1>9. ASSUME NEW a \in 0..2, NEW n \in Clicks, ScrollDiscrete(a, n)
      PROVE  Placed' /\ ClicksWhereItIs'
  BY <1>5, <1>9 DEF ScrollDiscrete
<1>10. ASSUME NEW a \in 0..2, NEW n \in Notches, ScrollValue120(a, n)
       PROVE  Placed' /\ ClicksWhereItIs'
  BY <1>5, <1>10 DEF ScrollValue120
<1>. QED  BY <1>1, <1>2, <1>3, <1>4, <1>6, <1>7, <1>8, <1>9, <1>10 DEF Next

(* A button event carries the position the compositor has the pointer at,  *)
(* also with a pointer that came back somewhere else and never moved.      *)
THEOREM ClicksArePlaced == Spec => []ClicksWhereItIs
<1>1. Init => Placed /\ ClicksWhereItIs
  BY DEF Init, Placed, ClicksWhereItIs
<1>2. (Placed /\ ClicksWhereItIs) /\ [Next]_vars => (Placed /\ ClicksWhereItIs)'
  BY PlacedStep
<1>. QED  BY <1>1, <1>2, PTL DEF Spec
-----------------------------------------------------------------------------
(* A frame may be of any length, so what it sums up to needs an induction: *)
(* that of the naturals, from their order being well-founded.              *)
LEMMA Least ==
  ASSUME NEW T \in SUBSET Nat, T # {}
  PROVE  \E n \in T : \A m \in T : n <= m
<1>. DEFINE R == OpToRel(<, Nat)
<1>1. \A x, y \in Nat : <<x, y>> \in R <=> x < y
  BY DEF OpToRel
<1>2. \E x \in T : \A y \in T : ~ (<<y, x>> \in R)
  <2>1. IsWellFoundedOn(OpToRel(<, Nat), Nat)
    BY NatLessThanWellFounded
  <2>. HIDE DEF R
  <2>2. IsWellFoundedOn(R, Nat)
    BY <2>1 DEF R
  <2>. QED  BY <2>2, WFMin
<1>. HIDE DEF R
<1>3. PICK x \in T : \A y \in T : ~ (<<y, x>> \in R)
  BY <1>2
<1>4. \A y \in T : ~ (y < x)
  BY <1>1, <1>3
<1>. QED  BY <1>4

(* A set of naturals with 0 and the successors of its members is all of    *)
(* them.                                                                   *)
LEMMA Induction ==
  ASSUME NEW T \in SUBSET Nat, 0 \in T, \A n \in T : n + 1 \in T
  PROVE  T = Nat
<1>. SUFFICES ASSUME Nat \ T # {} PROVE FALSE
  OBVIOUS
<1>1. PICK n \in Nat \ T : \A m \in Nat \ T : n <= m
  BY Least
<1>2. n - 1 \in T
  BY <1>1
<1>. QED  BY <1>2

(* g counts up what w has at 1..n.                                         *)
Counts(g, w, n) == g[0] = 0 /\ \A m \in 1..n : g[m] = g[m - 1] + w[m]

(* There is one way to count.                                              *)
LEMMA CountsOnce ==
  ASSUME NEW L \in Nat, NEW w, NEW g, NEW h, Counts(g, w, L), Counts(h, w, L)
  PROVE  \A n \in 0..L : g[n] = h[n]
<1>. DEFINE T == {n \in Nat : n <= L => g[n] = h[n]}
<1>1. 0 \in T
  BY DEF Counts
<1>2. ASSUME NEW n \in T PROVE n + 1 \in T
  <2>1. CASE n + 1 <= L
    <3>1. g[n] = h[n] /\ n + 1 \in 1..L /\ n + 1 - 1 = n
      BY <2>1
    <3>2. g[n + 1] = g[n] + w[n + 1] /\ h[n + 1] = h[n] + w[n + 1]
      BY <3>1 DEF Counts
    <3>. QED  BY <3>1, <3>2
  <2>. QED  BY <2>1
<1>3. T = Nat
  <2>. HIDE DEF T
  <2>1. T \in SUBSET Nat
    BY DEF T
  <2>. QED  BY <1>1, <1>2, <2>1, Induction
<1>. QED  BY <1>3

(* And there is a way to count any finite list of amounts.                 *)
LEMMA CountsExist ==
  ASSUME NEW L \in Nat, NEW w \in [1..L -> Int]
  PROVE  \E g \in [0..L -> Int] : Counts(g, w, L)
<1>. DEFINE T == {n \in Nat : n <= L => \E g \in [0..n -> Int] : Counts(g, w, n)}
<1>1. 0 \in T
  <2>. DEFINE g == [m \in 0..0 |-> 0]
  <2>1. g \in [0..0 -> Int] /\ Counts(g, w, 0)
    BY DEF Counts
  <2>. QED  BY <2>1
<1>2. ASSUME NEW n \in T PROVE n + 1 \in T
  <2>. SUFFICES ASSUME n + 1 <= L PROVE \E g \in [0..n+1 -> Int] : Counts(g, w, n + 1)
    OBVIOUS
  <2>1. PICK g \in [0..n -> Int] : Counts(g, w, n)
    OBVIOUS
  <2>. DEFINE h == [m \in 0..n+1 |-> IF m <= n THEN g[m] ELSE g[n] + w[n + 1]]
  <2>2. h \in [0..n+1 -> Int]
    OBVIOUS
  <2>3. h[0] = 0
    BY <2>1 DEF Counts
  <2>4. ASSUME NEW m \in 1..n+1 PROVE h[m] = h[m - 1] + w[m]
    <3>1. CASE m <= n
      BY <2>1, <3>1 DEF Counts
    <3>2. CASE m = n + 1
      BY <3>2
    <3>. QED  BY <3>1, <3>2
  <2>. HIDE DEF h
  <2>. QED  BY <2>2, <2>3, <2>4 DEF Counts
<1>3. T = Nat
  <2>. HIDE DEF T
  <2>1. T \in SUBSET Nat
    BY DEF T
  <2>. QED  BY <1>1, <1>2, <2>1, Induction
<1>. QED  BY <1>3

(* What each event of a frame contributes.                                 *)
Amounts(f, k, a) == [n \in 1..Len(f) |-> Amount(f[n], k, a)]

LEMMA AmountsType ==
  ASSUME NEW f \in Seq(Event), NEW k, NEW a
  PROVE  Amounts(f, k, a) \in [1..Len(f) -> Int]
<1>1. ASSUME NEW n \in 1..Len(f) PROVE Amount(f[n], k, a) \in Int
  <2>1. f[n] \in Event
    OBVIOUS
  <2>. QED  BY <2>1 DEF Amount, Event
<1>. QED  BY <1>1 DEF Amounts

(* So the recursive sum of the model is what its equation says.            *)
LEMMA TotalCounts ==
  ASSUME NEW f \in Seq(Event), NEW k, NEW a
  PROVE  \E g \in [0..Len(f) -> Int] : Counts(g, Amounts(f, k, a), Len(f)) /\ Total(f, k, a) = g[Len(f)]
<1>. DEFINE w == Amounts(f, k, a)
            L == Len(f)
            Eq(s) == s = [n \in 0..L |-> IF n = 0 THEN 0 ELSE s[n - 1] + Amount(f[n], k, a)]
<1>0. L \in Nat
  OBVIOUS
<1>1. PICK g \in [0..L -> Int] : Counts(g, w, L)
  BY AmountsType, CountsExist
<1>2. Eq(g)
  <2>1. ASSUME NEW n \in 0..L PROVE g[n] = IF n = 0 THEN 0 ELSE g[n - 1] + Amount(f[n], k, a)
    <3>1. CASE n = 0
      BY <1>1, <3>1 DEF Counts
    <3>2. CASE n # 0
      <4>1. n \in 1..L
        BY <3>2, <1>0
      <4>2. w[n] = Amount(f[n], k, a)
        BY <4>1 DEF Amounts
      <4>. QED  BY <1>1, <3>2, <4>1, <4>2 DEF Counts
    <3>. QED  BY <3>1, <3>2
  <2>. QED  BY <2>1, <1>0
<1>3. \A s : Eq(s) => s[L] = g[L]
  <2>. SUFFICES ASSUME NEW s, Eq(s) PROVE s[L] = g[L]
    OBVIOUS
  <2>1. Counts(s, w, L)
    <3>1. s[0] = 0
      BY <1>0
    <3>2. ASSUME NEW m \in 1..L PROVE s[m] = s[m - 1] + w[m]
      <4>1. w[m] = Amount(f[m], k, a)
        BY DEF Amounts
      <4>2. m \in 0..L /\ m # 0
        BY <1>0
      <4>3. s[m] = IF m = 0 THEN 0 ELSE s[m - 1] + Amount(f[m], k, a)
        BY <4>2
      <4>. QED  BY <4>1, <4>2, <4>3
    <3>. QED  BY <3>1, <3>2 DEF Counts
  <2>. QED  BY <1>0, <1>1, <2>1, CountsOnce
<1>4. Total(f, k, a) = (CHOOSE s : Eq(s))[L]
  BY DEF Total
<1>5. Eq(CHOOSE s : Eq(s))
  BY <1>2
<1>. QED  BY <1>1, <1>3, <1>4, <1>5

(* The sum over no event, and over one event more.                         *)
LEMMA TotalEmpty ==
  ASSUME NEW k, NEW a
  PROVE  Total(<< >>, k, a) = 0
<1>1. << >> \in Seq(Event) /\ Len(<< >>) = 0
  OBVIOUS
<1>2. PICK g : Counts(g, Amounts(<< >>, k, a), Len(<< >>)) /\ Total(<< >>, k, a) = g[Len(<< >>)]
  BY <1>1, TotalCounts
<1>. QED  BY <1>1, <1>2 DEF Counts

LEMMA TotalAppend ==
  ASSUME NEW f \in Seq(Event), NEW e \in Event, NEW k, NEW a
  PROVE  Total(Append(f, e), k, a) = Total(f, k, a) + Amount(e, k, a)
<1>. DEFINE F == Append(f, e)
            L == Len(f)
<1>1. F \in Seq(Event) /\ Len(F) = L + 1 /\ L \in Nat /\ F[L + 1] = e /\ \A n \in 1..L : F[n] = f[n]
  OBVIOUS
<1>2. PICK g : Counts(g, Amounts(f, k, a), L) /\ Total(f, k, a) = g[L]
  BY TotalCounts
<1>3. PICK h : Counts(h, Amounts(F, k, a), L + 1) /\ Total(F, k, a) = h[L + 1]
  BY <1>1, TotalCounts
<1>4. \A n \in 1..L : Amounts(F, k, a)[n] = Amounts(f, k, a)[n]
  BY <1>1 DEF Amounts
<1>5. Counts(h, Amounts(f, k, a), L)
  BY <1>1, <1>3, <1>4 DEF Counts
<1>6. h[L] = g[L]
  BY <1>1, <1>2, <1>5, CountsOnce
<1>7. h[L + 1] = h[L] + Amount(e, k, a)
  <2>1. L + 1 \in 1..L+1 /\ L + 1 - 1 = L
    BY <1>1
  <2>2. Amounts(F, k, a)[L + 1] = Amount(e, k, a)
    BY <1>1, <2>1 DEF Amounts
  <2>. QED  BY <1>3, <2>1, <2>2 DEF Counts
<1>. QED  BY <1>2, <1>3, <1>6, <1>7
-----------------------------------------------------------------------------
(* Rounding: SynthesizeValue120 comes within half a 120th of the distance, *)
(* and the clamp leaves what is beyond an int32 at its end.                *)
LEMMA Quotient ==
  ASSUME NEW x \in Nat, NEW k \in Nat \ {0}
  PROVE  /\ x \div k \in Nat
         /\ k * (x \div k) <= x /\ x < k * (x \div k) + k
<1>1. x \div k \in Int /\ x % k \in Int
  OBVIOUS
<1>2. x = k * (x \div k) + (x % k) /\ 0 <= x % k /\ x % k < k
  OBVIOUS
<1>3. x \div k >= 0
  OBVIOUS
<1>. QED  BY <1>1, <1>2, <1>3

(* A step of one 120th is Scale parts.                                     *)
LEMMA Grows ==
  ASSUME NEW m \in Int, NEW v \in Int, m < v
  PROVE  Scale * m \in Int /\ Scale * v \in Int /\ Scale * m + Scale <= Scale * v
<1>1. Scale * (v - m) >= Scale
  BY AmountsAssumption
<1>2. Scale * (v - m) = Scale * v - Scale * m
  BY AmountsAssumption
<1>. QED  BY <1>1, <1>2, AmountsAssumption

(* What is near before the clamp is near after it.                         *)
LEMMA NearClamped ==
  ASSUME NEW v \in Int, NEW exact \in Int,
         -Scale <= 2 * (Scale * v - exact), 2 * (Scale * v - exact) <= Scale
  PROVE  Near(ClampValue120(v), exact)
<1>0. Scale \in Nat \ {0} /\ Min32 \in Int /\ Max32 \in Int /\ Scale * v \in Int
  BY AmountsAssumption DEF Min32
<1>1. CASE v < Min32
  <2>1. ClampValue120(v) = Min32
    BY <1>1 DEF ClampValue120
  <2>2. Scale * Min32 \in Int /\ Scale * v + Scale <= Scale * Min32
    BY <1>0, <1>1, Grows
  <2>3. 2 * (Scale * Min32 - exact) > 0
    BY <1>0, <2>2
  <2>. QED  BY <2>1, <2>3 DEF Near
<1>2. CASE v > Max32
  <2>1. ClampValue120(v) = Max32
    BY <1>2, AmountsAssumption DEF ClampValue120, Min32
  <2>2. Scale * Max32 \in Int /\ Scale * Max32 + Scale <= Scale * v
    BY <1>0, <1>2, Grows
  <2>3. 2 * (Scale * Max32 - exact) < 0
    BY <1>0, <2>2
  <2>. QED  BY <2>1, <2>3 DEF Near
<1>3. CASE ~(v < Min32) /\ ~(v > Max32)
  BY <1>3 DEF ClampValue120, Near
<1>. QED  BY <1>1, <1>2, <1>3

(* Notches are told exactly, up to the clamp.                              *)
LEMMA NearExact ==
  ASSUME NEW v \in Int
  PROVE  Near(ClampValue120(v), Scale * v)
<1>1. Scale * v \in Int /\ Scale * v - Scale * v = 0 /\ Scale \in Nat
  BY AmountsAssumption
<1>. QED  BY <1>1, NearClamped

(* A distance is told to the nearest, up to the clamp.                     *)
LEMMA NearRounded ==
  ASSUME NEW c \in Int
  PROVE  Near(SynthesizeValue120(c), 12 * c)
<1>. DEFINE up == (24 * c + Scale) \div (2 * Scale)
            down == (Scale - 24 * c) \div (2 * Scale)
<1>0. Scale \in Nat \ {0} /\ 2 * Scale \in Nat \ {0} /\ 12 * c \in Int
  BY AmountsAssumption
<1>1. CASE c >= 0
  <2>1. 24 * c + Scale \in Nat
    BY <1>0, <1>1
  <2>2. up \in Nat /\ 2 * Scale * up <= 24 * c + Scale /\ 24 * c + Scale < 2 * Scale * up + 2 * Scale
    BY <1>0, <2>1, Quotient
  <2>. HIDE DEF up
  <2>3. 2 * Scale * up = 2 * (Scale * up) /\ Scale * up \in Int
    BY <1>0, <2>2
  <2>4. -Scale <= 2 * (Scale * up - 12 * c) /\ 2 * (Scale * up - 12 * c) <= Scale
    BY <1>0, <2>2, <2>3
  <2>5. SynthesizeValue120(c) = ClampValue120(up)
    BY <1>1 DEF SynthesizeValue120, up
  <2>. QED  BY <1>0, <2>2, <2>4, <2>5, NearClamped
<1>2. CASE c < 0
  <2>1. Scale - 24 * c \in Nat
    BY <1>0, <1>2
  <2>2. down \in Nat /\ 2 * Scale * down <= Scale - 24 * c /\ Scale - 24 * c < 2 * Scale * down + 2 * Scale
    BY <1>0, <2>1, Quotient
  <2>. HIDE DEF down
  <2>3. 2 * Scale * down = 2 * (Scale * down) /\ Scale * down \in Int /\ Scale * (-down) = -(Scale * down)
    BY <1>0, <2>2
  <2>4. -Scale <= 2 * (Scale * (-down) - 12 * c) /\ 2 * (Scale * (-down) - 12 * c) <= Scale
    BY <1>0, <2>2, <2>3
  <2>5. SynthesizeValue120(c) = ClampValue120(-down)
    BY <1>2 DEF SynthesizeValue120, down
  <2>. QED  BY <1>0, <2>2, <2>4, <2>5, NearClamped
<1>. QED  BY <1>1, <1>2
-----------------------------------------------------------------------------
(* An axis has an event in a frame.                                        *)
Touched(f, a) == \E i \in DOMAIN f : f[i].kind # "source" /\ f[i].axis = a

(* What the handler has in axes_ and source_ is what the frame came to so  *)
(* far.                                                                    *)
Gathered(f, now, s) ==
  /\ \A a \in Axis :
       /\ now[a].continuous = Total(f, "axis", a)
       /\ now[a].discrete = Total(f, "discrete", a)
       /\ now[a].value120 = Total(f, "value120", a)
       /\ now[a].stop <=> Has(f, "stop", a)
       /\ now[a].has_discrete <=> Has(f, "discrete", a)
       /\ now[a].has_value120 <=> Has(f, "value120", a)
       /\ now[a].active <=> Touched(f, a)
  /\ Names(f, s)

(* A frame with one event more.                                            *)
LEMMA AppendIndices ==
  ASSUME NEW f \in Seq(Event), NEW e \in Event
  PROVE  /\ Append(f, e) \in Seq(Event)
         /\ DOMAIN Append(f, e) = DOMAIN f \cup {Len(f) + 1}
         /\ DOMAIN f = 1..Len(f) /\ Len(f) \in Nat
         /\ \A i \in DOMAIN f : Append(f, e)[i] = f[i]
         /\ Append(f, e)[Len(f) + 1] = e
OBVIOUS

LEMMA HasAppend ==
  ASSUME NEW f \in Seq(Event), NEW e \in Event, NEW k, NEW a
  PROVE  /\ Has(Append(f, e), k, a) <=> Has(f, k, a) \/ (e.kind = k /\ e.axis = a)
         /\ Touched(Append(f, e), a) <=> Touched(f, a) \/ (e.kind # "source" /\ e.axis = a)
<1>. DEFINE F == Append(f, e)
<1>1. DOMAIN F = DOMAIN f \cup {Len(f) + 1} /\ F[Len(f) + 1] = e /\ \A i \in DOMAIN f : F[i] = f[i]
  BY AppendIndices
<1>. HIDE DEF F
<1>2. Has(F, k, a) <=> Has(f, k, a) \/ (e.kind = k /\ e.axis = a)
  BY <1>1 DEF Has
<1>3. Touched(F, a) <=> Touched(f, a) \/ (e.kind # "source" /\ e.axis = a)
  BY <1>1 DEF Touched
<1>. QED  BY <1>2, <1>3 DEF F

LEMMA NamesAppend ==
  ASSUME NEW f \in Seq(Event), NEW e \in Event, NEW s, NEW t,
         IF e.kind = "source" THEN t = e.amount ELSE Names(f, s) /\ t = s
  PROVE  Names(Append(f, e), t)
<1>. DEFINE F == Append(f, e)
            L == Len(f)
<1>1. /\ DOMAIN F = DOMAIN f \cup {L + 1} /\ DOMAIN f = 1..L /\ L \in Nat
      /\ F[L + 1] = e /\ \A i \in DOMAIN f : F[i] = f[i]
  BY AppendIndices
<1>. HIDE DEF F, L
<1>2. CASE e.kind = "source"
  <2>1. \A j \in DOMAIN F : j <= L + 1
    BY <1>1
  <2>. QED  BY <1>1, <1>2, <2>1 DEF Names, F
<1>3. CASE e.kind # "source"
  <2>1. CASE s = Unknown /\ \A i \in DOMAIN f : f[i].kind # "source"
    BY <1>1, <1>3, <2>1 DEF Names, F
  <2>2. CASE \E i \in DOMAIN f : /\ f[i].kind = "source" /\ f[i].amount = s
                                 /\ \A j \in DOMAIN f : f[j].kind = "source" => j <= i
    <3>1. PICK i \in DOMAIN f : /\ f[i].kind = "source" /\ f[i].amount = s
                                /\ \A j \in DOMAIN f : f[j].kind = "source" => j <= i
      BY <2>2
    <3>2. i \in DOMAIN F /\ F[i].kind = "source" /\ F[i].amount = t
      BY <1>1, <1>3, <3>1
    <3>3. \A j \in DOMAIN F : F[j].kind = "source" => j <= i
      BY <1>1, <1>3, <3>1
    <3>. QED  BY <3>2, <3>3 DEF Names, F
  <2>. QED  BY <1>3, <2>1, <2>2 DEF Names
<1>. QED  BY <1>2, <1>3

(* y is what the event e leaves of the state x of its axis.                *)
Adds(e, x, y) ==
  /\ y.continuous = x.continuous + Amount(e, "axis", e.axis)
  /\ y.discrete = x.discrete + Amount(e, "discrete", e.axis)
  /\ y.value120 = x.value120 + Amount(e, "value120", e.axis)
  /\ y.stop <=> x.stop \/ e.kind = "stop"
  /\ y.has_discrete <=> x.has_discrete \/ e.kind = "discrete"
  /\ y.has_value120 <=> x.has_value120 \/ e.kind = "value120"
  /\ y.active

(* An event for an axis, or for one that does not exist, keeps up with the *)
(* frame.                                                                  *)
LEMMA EventGathered ==
  ASSUME NEW f \in Seq(Event), NEW now \in [Axis -> AxisState], NEW s, Gathered(f, now, s),
         NEW e \in Event, e.kind # "source",
         NEW then, IF e.axis \in Axis
                   THEN \E y : Adds(e, now[e.axis], y) /\ then = [now EXCEPT ![e.axis] = y]
                   ELSE then = now
  PROVE  Gathered(Append(f, e), then, s)
<1>. DEFINE F == Append(f, e)
<1>1. Names(F, s)
  BY NamesAppend DEF Gathered
<1>2. ASSUME NEW a \in Axis
      PROVE  /\ then[a].continuous = Total(F, "axis", a)
             /\ then[a].discrete = Total(F, "discrete", a)
             /\ then[a].value120 = Total(F, "value120", a)
             /\ then[a].stop <=> Has(F, "stop", a)
             /\ then[a].has_discrete <=> Has(F, "discrete", a)
             /\ then[a].has_value120 <=> Has(F, "value120", a)
             /\ then[a].active <=> Touched(F, a)
  <2>1. \A k : Total(F, k, a) = Total(f, k, a) + Amount(e, k, a)
    BY TotalAppend
  <2>2. \A k : Has(F, k, a) <=> Has(f, k, a) \/ (e.kind = k /\ e.axis = a)
    BY HasAppend
  <2>3. Touched(F, a) <=> Touched(f, a) \/ e.axis = a
    BY HasAppend
  <2>4. /\ now[a].continuous = Total(f, "axis", a)
        /\ now[a].discrete = Total(f, "discrete", a)
        /\ now[a].value120 = Total(f, "value120", a)
        /\ now[a].stop <=> Has(f, "stop", a)
        /\ now[a].has_discrete <=> Has(f, "discrete", a)
        /\ now[a].has_value120 <=> Has(f, "value120", a)
        /\ now[a].active <=> Touched(f, a)
    BY DEF Gathered
  <2>. HIDE DEF F
  <2>5. CASE e.axis = a
    <3>1. PICK y : Adds(e, now[a], y) /\ then = [now EXCEPT ![a] = y]
      BY <2>5
    <3>2. then[a] = y
      BY <3>1
    <3>. QED  BY <2>1, <2>2, <2>3, <2>4, <2>5, <3>1, <3>2 DEF Adds
  <2>6. CASE e.axis # a
    <3>1. then[a] = now[a]
      BY <2>6
    <3>2. \A k : Amount(e, k, a) = 0
      BY <2>6 DEF Amount
    <3>3. now[a].continuous \in Int /\ now[a].discrete \in Int /\ now[a].value120 \in Int
      BY DEF AxisState
    <3>. QED  BY <2>1, <2>2, <2>3, <2>4, <2>6, <3>1, <3>2, <3>3
  <2>. QED  BY <2>5, <2>6
<1>. HIDE DEF F
<1>3. Gathered(F, then, s)
  BY <1>1, <1>2 DEF Gathered
<1>. QED  BY <1>3 DEF F

(* So does the name of a source.                                           *)
LEMMA SourceGathered ==
  ASSUME NEW f \in Seq(Event), NEW now \in [Axis -> AxisState], NEW s, Gathered(f, now, s),
         NEW e \in Event, e.kind = "source"
  PROVE  Gathered(Append(f, e), now, e.amount)
<1>. DEFINE F == Append(f, e)
<1>1. Names(F, e.amount)
  BY NamesAppend
<1>2. \A a \in Axis : /\ now[a].continuous \in Int /\ now[a].discrete \in Int /\ now[a].value120 \in Int
                      /\ Touched(F, a) <=> Touched(f, a)
  BY HasAppend DEF AxisState
<1>3. \A a \in Axis, k \in {"axis", "discrete", "value120", "stop"} :
        /\ Total(F, k, a) = Total(f, k, a) + 0
        /\ Has(F, k, a) <=> Has(f, k, a)
  BY HasAppend, TotalAppend DEF Amount
<1>. HIDE DEF F
<1>4. Gathered(F, now, e.amount)
  BY <1>1, <1>2, <1>3 DEF Gathered
<1>. QED  BY <1>4 DEF F

(* And a reset keeps up with a frame that has not begun.                   *)
LEMMA NothingGathered == Gathered(<< >>, NoAxes, Unknown)
<1>1. Names(<< >>, Unknown)
  BY DEF Names
<1>2. \A k, a : Total(<< >>, k, a) = 0
  BY TotalEmpty
<1>3. \A k, a : ~Has(<< >>, k, a) /\ ~Touched(<< >>, a)
  BY DEF Has, Touched
<1>. QED  BY <1>1, <1>2, <1>3 DEF Gathered, NoAxes, NoAxis

(* The event for one axis tells the frame, whichever measure it has. A     *)
(* seat before version 8 sends no 120ths.                                  *)
LEMMA AxisEventTells ==
  ASSUME NEW f \in Seq(Event), NEW now \in [Axis -> AxisState], Gathered(f, now, source),
         version < 8 => \A i \in DOMAIN f : f[i].kind # "value120",
         version \in Nat, NEW a \in Axis
  PROVE  Tells(AxisEvent(a, now[a]), f)
<1>. DEFINE x == now[a]
            ev == AxisEvent(a, x)
<1>1. /\ x.continuous = Total(f, "axis", a)
      /\ x.discrete = Total(f, "discrete", a)
      /\ x.value120 = Total(f, "value120", a)
      /\ x.stop <=> Has(f, "stop", a)
      /\ x.has_discrete <=> Has(f, "discrete", a)
      /\ x.has_value120 <=> Has(f, "value120", a)
      /\ Names(f, source)
  BY DEF Gathered
<1>2. /\ x.continuous \in Int /\ x.discrete \in Int /\ x.value120 \in Int
      /\ x.stop \in BOOLEAN /\ x.has_discrete \in BOOLEAN /\ x.has_value120 \in BOOLEAN
  BY DEF AxisState
<1>3. ev.axis = a /\ ev.value120 = Value120(x) /\ ev.continuous = x.continuous
      /\ ev.source = source /\ ev.stop = x.stop
  BY DEF AxisEvent
<1>4. version >= 8 \/ ~Has(f, "value120", a)
  BY DEF Has
<1>5. Near(Value120(x), IF Has(f, "value120", a) THEN Scale * Total(f, "value120", a)
                        ELSE IF Has(f, "discrete", a) THEN Scale * (120 * Total(f, "discrete", a))
                        ELSE 12 * Total(f, "axis", a))
  <2>. HIDE DEF x
  <2>1. CASE Has(f, "value120", a)
    <3>1. Value120(x) = ClampValue120(x.value120)
      BY <1>1, <1>4, <2>1 DEF Value120
    <3>. QED  BY <1>1, <1>2, <2>1, <3>1, NearExact
  <2>2. CASE ~Has(f, "value120", a) /\ Has(f, "discrete", a)
    <3>1. Value120(x) = ClampValue120(x.discrete * 120)
      BY <1>1, <2>2 DEF Value120
    <3>2. x.discrete * 120 = 120 * x.discrete /\ 120 * x.discrete \in Int
      BY <1>2
    <3>3. Near(ClampValue120(120 * x.discrete), Scale * (120 * x.discrete))
      BY <3>2, NearExact
    <3>. QED  BY <1>1, <2>2, <3>1, <3>2, <3>3
  <2>3. CASE ~Has(f, "value120", a) /\ ~Has(f, "discrete", a)
    <3>1. Value120(x) = SynthesizeValue120(x.continuous)
      BY <1>1, <2>3 DEF Value120
    <3>. QED  BY <1>1, <1>2, <2>3, <3>1, NearRounded
  <2>. QED  BY <2>1, <2>2, <2>3
<1>6. ev.stop = Has(f, "stop", a)
  <2>1. Has(f, "stop", a) \in BOOLEAN
    BY DEF Has
  <2>. QED  BY <1>1, <1>2, <1>3, <2>1
<1>. HIDE DEF x, ev
<1>7. Tells(ev, f)
  BY <1>1, <1>3, <1>5, <1>6 DEF Tells
<1>. QED  BY <1>7 DEF ev, x

(* A flush of what was gathered tells the frame: every axis it touched,    *)
(* each once, and no other.                                                *)
LEMMA FlushTells ==
  ASSUME NEW f \in Seq(Event), NEW now \in [Axis -> AxisState], Gathered(f, now, source),
         version < 8 => \A i \in DOMAIN f : f[i].kind # "value120",
         version \in Nat, Flush(now), closed' = f
  PROVE  TellsEachFrame'
<1>. DEFINE s == {AxisEvent(a, now[a]) : a \in {b \in Axis : now[b].active}}
            ev(a) == AxisEvent(a, now[a])
<1>0. scrolled' = s
  BY DEF Flush
<1>1. \A a : ev(a).axis = a
  BY DEF AxisEvent
<1>2. \A a \in Axis : Tells(ev(a), f)
  BY AxisEventTells
<1>3. \A a \in Axis : now[a].active <=> Touched(f, a)
  BY DEF Gathered
<1>4. \A e1 \in s : \E a \in Axis : now[a].active /\ e1 = ev(a)
  OBVIOUS
<1>5. \A a \in Axis : now[a].active => ev(a) \in s
  OBVIOUS
<1>. HIDE DEF s, ev
<1>6. \A e1 \in s : Tells(e1, f)
  BY <1>2, <1>4
<1>7. \A e1, e2 \in s : e1.axis = e2.axis => e1 = e2
  BY <1>1, <1>4
<1>8. {e1.axis : e1 \in s} = {a \in Axis : Touched(f, a)}
  BY <1>1, <1>3, <1>4, <1>5
<1>9. {a \in Axis : Touched(f, a)} = {f[i].axis : i \in {j \in DOMAIN f : f[j].kind # "source"}} \cap Axis
  BY DEF Touched
<1>. QED  BY <1>0, <1>6, <1>7, <1>8, <1>9 DEF TellsEachFrame

(* Between frames nothing is told.                                         *)
LEMMA NothingTold == ASSUME scrolled' = {}, closed' = << >> PROVE TellsEachFrame'
BY DEF TellsEachFrame
-----------------------------------------------------------------------------
(* A seat before version 8 has no 120ths in its frames, and the handler    *)
(* keeps up with the frame.                                                *)
Known == version < 8 => \A i \in DOMAIN frame : frame[i].kind # "value120"
FrameInv == Gathered(frame, axes, source) /\ Known

(* An event that joins the frame, on a wl_pointer with frames.             *)
LEMMA ScrolledStep ==
  ASSUME TypeOK, Known, NEW e \in Event, Scroll(e), version >= 5, scrolled' = {},
         e.kind = "value120" => version >= 8,
         Gathered(Append(frame, e), axes', source')
  PROVE  FrameInv' /\ TellsEachFrame'
<1>1. frame' = Append(frame, e) /\ closed' = << >> /\ version' = version
  BY DEF Scroll, seat
<1>2. Known'
  <2>1. frame \in Seq(Event) /\ version \in Nat
    BY VersionsAssumption DEF TypeOK
  <2>2. /\ DOMAIN frame' = DOMAIN frame \cup {Len(frame) + 1}
        /\ frame'[Len(frame) + 1] = e /\ \A i \in DOMAIN frame : frame'[i] = frame[i]
    BY <1>1, <2>1, AppendIndices
  <2>. QED  BY <1>1, <2>1, <2>2 DEF Known
<1>. QED  BY <1>1, <1>2, NothingTold DEF FrameInv

(* Such an event for an axis.                                              *)
LEMMA GatherStep ==
  ASSUME TypeOK, FrameInv, NEW a \in 0..2, NEW e \in Event, e.axis = a, Scroll(e), version >= 5,
         e.kind # "source", e.kind = "value120" => version >= 8,
         NEW y, a \in Axis => Adds(e, axes[a], y), Gather(a, y)
  PROVE  FrameInv' /\ TellsEachFrame'
<1>1. frame \in Seq(Event) /\ axes \in [Axis -> AxisState] /\ Gathered(frame, axes, source)
  BY DEF TypeOK, FrameInv
<1>2. scrolled' = {} /\ source' = source
  BY DEF Gather
<1>3. axes' = IF a \in Axis THEN [axes EXCEPT ![a] = y] ELSE axes
  BY DEF Gather
<1>4. IF e.axis \in Axis
      THEN \E z : Adds(e, axes[e.axis], z) /\ axes' = [axes EXCEPT ![e.axis] = z]
      ELSE axes' = axes
  BY <1>3
<1>5. Gathered(Append(frame, e), axes', source)
  BY <1>1, <1>4, EventGathered
<1>. QED  BY <1>2, <1>5, ScrolledStep DEF FrameInv

(* The end of a frame.                                                     *)
LEMMA FrameStep ==
  ASSUME IInv, FrameInv, Frame
  PROVE  FrameInv' /\ TellsEachFrame'
<1>1. frame \in Seq(Event) /\ axes \in [Axis -> AxisState] /\ version \in Nat
  BY VersionsAssumption DEF IInv, TypeOK
<1>2. closed' = frame /\ frame' = << >> /\ Flush(axes) /\ version' = version
  BY DEF Frame, OnFrame, seat
<1>3. TellsEachFrame'
  BY <1>1, <1>2, FlushTells DEF FrameInv, Known
<1>4. axes' = NoAxes /\ source' = Unknown
  BY <1>2 DEF Flush
<1>5. FrameInv'
  BY <1>2, <1>4, NothingGathered DEF FrameInv, Known
<1>. QED  BY <1>3, <1>5

(* What happens between scroll events leaves the frame or drops it.        *)
LEMMA QuietStep ==
  ASSUME LeaveBeforeLoss, IInv, FrameInv,
         \/ Leave \/ Button
         \/ \E p \in Positions : Enter(p) \/ Motion(p)
         \/ \E has_ptr \in BOOLEAN : Capabilities(has_ptr)
  PROVE  FrameInv' /\ TellsEachFrame'
<1>1. closed' = << >> /\ scrolled' = {}
  BY DEF Leave, Button, Enter, Motion, Capabilities, OnLeave, OnButton, OnEnter, OnMotion
<1>2. version' = version
  BY DEF Leave, Button, Enter, Motion, Capabilities, seat
<1>3. CASE Leave
  <2>1. frame' = << >> /\ axes' = NoAxes /\ source' = Unknown
    BY <1>3 DEF Leave, OnLeave
  <2>. QED  BY <1>1, <2>1, NothingGathered, NothingTold DEF FrameInv, Known
<1>4. CASE Button \/ \E p \in Positions : Enter(p) \/ Motion(p)
  <2>1. UNCHANGED <<frame, axes, source>>
    BY <1>4 DEF Button, Enter, Motion, OnButton, OnEnter, OnMotion
  <2>. QED  BY <1>1, <1>2, <2>1, NothingTold DEF FrameInv, Known
<1>5. ASSUME NEW has_ptr \in BOOLEAN, Capabilities(has_ptr)
      PROVE  FrameInv' /\ TellsEachFrame'
  <2>1. UNCHANGED <<frame, axes, source>>
    BY <1>5 DEF Capabilities, OnCapabilities, IInv, TypeOK
  <2>. QED  BY <1>1, <1>2, <2>1, NothingTold DEF FrameInv, Known
<1>. QED  BY <1>3, <1>4, <1>5

(* The steps of scrolling. Before version 5 an axis event is a frame of    *)
(* its own, told as soon as it is gathered.                                *)
LEMMA AxisStep ==
  ASSUME IInv, FrameInv, NEW a \in 0..2, NEW d \in Distances, ScrollAxis(a, d)
  PROVE  FrameInv' /\ TellsEachFrame'
<1>. DEFINE e == Wire("axis", a, d)
            y == Further(axes[a], d)
            now == [axes EXCEPT ![a] = y]
<1>1. /\ frame \in Seq(Event) /\ axes \in [Axis -> AxisState] /\ version \in Nat
      /\ Gathered(frame, axes, source) /\ d \in Int
  BY VersionsAssumption, AmountsAssumption DEF IInv, TypeOK, FrameInv
<1>2. e \in Event /\ e.kind = "axis" /\ e.axis = a /\ e.amount = d
  BY <1>1 DEF Wire, Event
<1>3. Scroll(e) /\ OnAxis(a, d)
  BY DEF ScrollAxis
<1>4. a \in Axis => Adds(e, axes[a], y)
  <2>. SUFFICES ASSUME a \in Axis PROVE Adds(e, axes[a], y)
    OBVIOUS
  <2>. DEFINE x == axes[a]
  <2>1. x \in AxisState
    BY <1>1
  <2>2. y = [x EXCEPT !.active = TRUE, !.continuous = @ + d]
    BY DEF Further
  <2>. HIDE DEF x, e
  <2>3. /\ Amount(e, "axis", a) = d
        /\ Amount(e, "discrete", a) = 0 /\ Amount(e, "value120", a) = 0
    BY <1>2 DEF Amount
  <2>. HIDE DEF y
  <2>4. /\ y.continuous = x.continuous + d /\ y.discrete = x.discrete + 0
        /\ y.value120 = x.value120 + 0
        /\ y.stop = x.stop /\ y.has_discrete = x.has_discrete
        /\ y.has_value120 = x.has_value120 /\ y.active
    BY <2>1, <2>2 DEF AxisState
  <2>5. Adds(e, x, y)
    BY <1>2, <2>3, <2>4 DEF Adds
  <2>. QED  BY <2>5 DEF x
<1>5. CASE version >= 5
  <2>1. ~(version < 5)
    BY <1>1, <1>5
  <2>2. Gather(a, y)
    BY <1>3, <2>1 DEF OnAxis, Gather
  <2>. HIDE DEF e, y
  <2>. QED  BY <1>2, <1>3, <1>4, <1>5, <2>2, GatherStep DEF IInv
<1>6. CASE version < 5
  <2>1. frame = << >> /\ frame' = << >> /\ closed' = << e >> /\ ~(version >= 5) /\ version' = version
    <3>1. ~(version >= 5)
      BY <1>1, <1>6
    <3>. QED  BY <1>3, <1>6, <3>1 DEF Scroll, IInv, NoFrameBefore5, seat
  <2>2. Known'
    BY <2>1 DEF Known
  <2>3. CASE a \notin Axis
    <3>1. scrolled' = {} /\ UNCHANGED <<axes, source>>
      BY <1>3, <2>3 DEF OnAxis
    <3>2. FrameInv'
      BY <1>1, <2>1, <2>2, <3>1 DEF FrameInv
    <3>3. {closed'[i].axis : i \in {j \in DOMAIN closed' : closed'[j].kind # "source"}} \cap Axis = {}
      <4>. HIDE DEF e
      <4>1. \A i \in DOMAIN closed' : closed'[i].axis = a
        BY <1>2, <2>1
      <4>. QED  BY <2>3, <4>1
    <3>4. TellsEachFrame'
      BY <3>1, <3>3 DEF TellsEachFrame
    <3>. QED  BY <3>2, <3>4
  <2>4. CASE a \in Axis
    <3>1. Flush(now)
      BY <1>3, <1>6, <2>4 DEF OnAxis
    <3>2. axes' = NoAxes /\ source' = Unknown
      BY <3>1 DEF Flush
    <3>3. FrameInv'
      BY <2>1, <2>2, <3>2, NothingGathered DEF FrameInv
    <3>4. Append(frame, e) = << e >> /\ << e >> \in Seq(Event)
      <4>. HIDE DEF e
      <4>. QED  BY <1>2, <2>1
    <3>5. now \in [Axis -> AxisState]
      BY <1>1, <2>4, AddedType
    <3>6. IF e.axis \in Axis
          THEN \E z : Adds(e, axes[e.axis], z) /\ now = [axes EXCEPT ![e.axis] = z]
          ELSE now = axes
      <4>. HIDE DEF e, y
      <4>. QED  BY <1>2, <1>4, <2>4
    <3>7. Gathered(<< e >>, now, source)
      <4>. HIDE DEF e, now
      <4>1. Gathered(Append(frame, e), now, source)
        BY <1>1, <1>2, <3>6, EventGathered
      <4>. QED  BY <3>4, <4>1
    <3>8. \A i \in DOMAIN << e >> : << e >>[i].kind # "value120"
      <4>. HIDE DEF e
      <4>. QED  BY <1>2
    <3>9. TellsEachFrame'
      <4>. HIDE DEF e, now
      <4>. QED  BY <1>1, <2>1, <3>1, <3>4, <3>5, <3>7, <3>8, FlushTells
    <3>. QED  BY <3>3, <3>9
  <2>. QED  BY <2>3, <2>4
<1>. QED  BY <1>1, <1>5, <1>6

LEMMA SourceStep ==
  ASSUME IInv, FrameInv, NEW s \in Sources, ScrollSource(s)
  PROVE  FrameInv' /\ TellsEachFrame'
<1>. DEFINE e == Wire("source", 0, s)
<1>1. e \in Event /\ e.kind = "source" /\ e.amount = s
  BY AmountsAssumption DEF Wire, Event
<1>2. Scroll(e) /\ version >= 5 /\ source' = s /\ axes' = axes /\ scrolled' = {}
  BY DEF ScrollSource, OnAxisSource
<1>. HIDE DEF e
<1>3. Gathered(Append(frame, e), axes', source')
  BY <1>1, <1>2, SourceGathered DEF IInv, TypeOK, FrameInv
<1>. QED  BY <1>1, <1>2, <1>3, ScrolledStep DEF IInv, FrameInv

LEMMA StopStep ==
  ASSUME IInv, FrameInv, NEW a \in 0..2, ScrollStop(a)
  PROVE  FrameInv' /\ TellsEachFrame'
<1>. DEFINE e == Wire("stop", a, 0)
            x == axes[a]
            y == [x EXCEPT !.active = TRUE, !.stop = TRUE]
<1>1. e \in Event /\ e.kind = "stop" /\ e.axis = a
  BY DEF Wire, Event
<1>2. Scroll(e) /\ version >= 5 /\ Gather(a, y)
  BY DEF ScrollStop, OnAxisStop
<1>3. a \in Axis => Adds(e, x, y)
  <2>1. a \in Axis => x \in AxisState
    BY DEF IInv, TypeOK
  <2>. HIDE DEF x, e
  <2>2. \A k : k # "stop" => Amount(e, k, a) = 0
    BY <1>1 DEF Amount
  <2>3. a \in Axis => /\ y.continuous = x.continuous + 0 /\ y.discrete = x.discrete + 0
                      /\ y.value120 = x.value120 + 0
                      /\ y.stop /\ y.has_discrete = x.has_discrete
                      /\ y.has_value120 = x.has_value120 /\ y.active
    BY <2>1 DEF AxisState
  <2>. HIDE DEF y
  <2>. QED  BY <1>1, <2>2, <2>3 DEF Adds
<1>. HIDE DEF e, y
<1>. QED  BY <1>1, <1>2, <1>3, GatherStep DEF IInv, x

LEMMA DiscreteStep ==
  ASSUME IInv, FrameInv, NEW a \in 0..2, NEW n \in Clicks, ScrollDiscrete(a, n)
  PROVE  FrameInv' /\ TellsEachFrame'
<1>. DEFINE e == Wire("discrete", a, n)
            x == axes[a]
            y == [x EXCEPT !.active = TRUE, !.has_discrete = TRUE, !.discrete = @ + n]
<1>1. e \in Event /\ e.kind = "discrete" /\ e.axis = a /\ e.amount = n /\ n \in Int
  BY AmountsAssumption DEF Wire, Event
<1>2. Scroll(e) /\ version >= 5 /\ Gather(a, y)
  BY DEF ScrollDiscrete, OnAxisDiscrete
<1>3. a \in Axis => Adds(e, x, y)
  <2>1. a \in Axis => x \in AxisState
    BY DEF IInv, TypeOK
  <2>. HIDE DEF x, e
  <2>2. Amount(e, "discrete", a) = n /\ \A k : k # "discrete" => Amount(e, k, a) = 0
    BY <1>1 DEF Amount
  <2>3. a \in Axis => /\ y.continuous = x.continuous + 0 /\ y.discrete = x.discrete + n
                      /\ y.value120 = x.value120 + 0
                      /\ y.stop = x.stop /\ y.has_discrete
                      /\ y.has_value120 = x.has_value120 /\ y.active
    BY <2>1 DEF AxisState
  <2>. HIDE DEF y
  <2>. QED  BY <1>1, <2>2, <2>3 DEF Adds
<1>. HIDE DEF e, y
<1>. QED  BY <1>1, <1>2, <1>3, GatherStep DEF IInv, x

LEMMA Value120Step ==
  ASSUME IInv, FrameInv, NEW a \in 0..2, NEW n \in Notches, ScrollValue120(a, n)
  PROVE  FrameInv' /\ TellsEachFrame'
<1>. DEFINE e == Wire("value120", a, n)
            x == axes[a]
            y == [x EXCEPT !.active = TRUE, !.has_value120 = TRUE, !.value120 = @ + n]
<1>1. e \in Event /\ e.kind = "value120" /\ e.axis = a /\ e.amount = n /\ n \in Int
  BY AmountsAssumption DEF Wire, Event
<1>2. Scroll(e) /\ version >= 8 /\ Gather(a, y)
  BY DEF ScrollValue120, OnAxisValue120
<1>3. a \in Axis => Adds(e, x, y)
  <2>1. a \in Axis => x \in AxisState
    BY DEF IInv, TypeOK
  <2>. HIDE DEF x, e
  <2>2. Amount(e, "value120", a) = n /\ \A k : k # "value120" => Amount(e, k, a) = 0
    BY <1>1 DEF Amount
  <2>3. a \in Axis => /\ y.continuous = x.continuous + 0 /\ y.discrete = x.discrete + 0
                      /\ y.value120 = x.value120 + n
                      /\ y.stop = x.stop /\ y.has_discrete = x.has_discrete
                      /\ y.has_value120 /\ y.active
    BY <2>1 DEF AxisState
  <2>. HIDE DEF y
  <2>. QED  BY <1>1, <2>2, <2>3 DEF Adds
<1>4. version >= 5
  BY <1>2, VersionsAssumption DEF IInv, TypeOK
<1>. HIDE DEF e, y
<1>. QED  BY <1>1, <1>2, <1>3, <1>4, GatherStep DEF IInv, x

(* No step of the system parts the handler from the frame.                 *)
LEMMA NextFrameInv ==
  ASSUME LeaveBeforeLoss, IInv, FrameInv, TellsEachFrame, [Next]_vars
  PROVE  FrameInv' /\ TellsEachFrame'
<1>1. CASE UNCHANGED vars
  BY <1>1 DEF vars, seat, FrameInv, Known, TellsEachFrame
<1>2. CASE Frame
  BY <1>2, FrameStep
<1>3. CASE \/ Leave \/ Button
           \/ \E p \in Positions : Enter(p) \/ Motion(p)
           \/ \E has_ptr \in BOOLEAN : Capabilities(has_ptr)
  BY <1>3, QuietStep
<1>4. ASSUME NEW s \in Sources, ScrollSource(s) PROVE FrameInv' /\ TellsEachFrame'
  BY <1>4, SourceStep
<1>5. ASSUME NEW a \in 0..2, ScrollStop(a) PROVE FrameInv' /\ TellsEachFrame'
  BY <1>5, StopStep
<1>6. ASSUME NEW a \in 0..2, NEW d \in Distances, ScrollAxis(a, d)
      PROVE  FrameInv' /\ TellsEachFrame'
  BY <1>6, AxisStep
<1>7. ASSUME NEW a \in 0..2, NEW n \in Clicks, ScrollDiscrete(a, n)
      PROVE  FrameInv' /\ TellsEachFrame'
  BY <1>7, DiscreteStep
<1>8. ASSUME NEW a \in 0..2, NEW n \in Notches, ScrollValue120(a, n)
      PROVE  FrameInv' /\ TellsEachFrame'
  BY <1>8, Value120Step
<1>. QED  BY <1>1, <1>2, <1>3, <1>4, <1>5, <1>6, <1>7, <1>8 DEF Next

(* "One PointerAxisEvent per scrolled axis per frame" with all of the      *)
(* frame and nothing but the frame, for frames of every length, amounts of *)
(* every size, seats of every version: the sums are exact, the 120ths the  *)
(* nearest an int32 has, the source the last one named. Assumed of the     *)
(* compositor is only that it takes the pointer off the surface, or ends   *)
(* the frame, before it withdraws the pointer.                             *)
THEOREM EachFrameTold == ASSUME LeaveBeforeLoss PROVE Spec => []TellsEachFrame
<1>1. Init => FrameInv /\ TellsEachFrame
  <2>. SUFFICES ASSUME Init PROVE FrameInv /\ TellsEachFrame
    OBVIOUS
  <2>1. TellsEachFrame
    BY DEF Init, TellsEachFrame
  <2>. QED  BY <2>1, NothingGathered DEF Init, FrameInv, Known
<1>2. IInv /\ (FrameInv /\ TellsEachFrame) /\ [Next]_vars => (FrameInv /\ TellsEachFrame)'
  BY NextFrameInv
<1>. QED  BY <1>1, <1>2, Invariant, PTL DEF Spec
=============================================================================
