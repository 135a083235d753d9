----------------------------- MODULE Slots_proofs -----------------------------
(***************************************************************************)
(* The ring of slots, for every schedule of the compositor: no slot is     *)
(* drawn while the compositor has it, every frame shows the scene, and the *)
(* compositor is told of every change.                                     *)
(***************************************************************************)
EXTENDS Slots, SequenceTheorems, TLAPS

-----------------------------------------------------------------------------
(* What the queues do.                                                     *)

LEMMA AppendFacts ==
  ASSUME NEW S, NEW q \in Seq(S), NEW e \in S
  PROVE  /\ Append(q, e) \in Seq(S)
         /\ DOMAIN Append(q, e) = 1..(Len(q) + 1)
         /\ \A i \in 1..Len(q) : Append(q, e)[i] = q[i]
         /\ Append(q, e)[Len(q) + 1] = e
         /\ Range(Append(q, e)) = Range(q) \cup {e}
<1>1. /\ Append(q, e) \in Seq(S) /\ DOMAIN Append(q, e) = 1..(Len(q) + 1)
      /\ \A i \in 1..Len(q) : Append(q, e)[i] = q[i]
      /\ Append(q, e)[Len(q) + 1] = e
  OBVIOUS
<1>2. Range(Append(q, e)) = Range(q) \cup {e}
  BY <1>1 DEF Range
<1>. QED  BY <1>1, <1>2

LEMMA TailFacts ==
  ASSUME NEW S, NEW q \in Seq(S), q # << >>
  PROVE  /\ Tail(q) \in Seq(S)
         /\ DOMAIN Tail(q) = 1..(Len(q) - 1)
         /\ \A i \in 1..(Len(q) - 1) : Tail(q)[i] = q[i + 1]
         /\ Head(q) = q[1] /\ 1 \in DOMAIN q
         /\ Range(Tail(q)) \subseteq Range(q)
<1>1. /\ Tail(q) \in Seq(S) /\ DOMAIN Tail(q) = 1..(Len(q) - 1)
      /\ \A i \in 1..(Len(q) - 1) : Tail(q)[i] = q[i + 1]
      /\ Head(q) = q[1] /\ 1 \in DOMAIN q
  OBVIOUS
<1>2. Range(Tail(q)) \subseteq Range(q)
  BY <1>1 DEF Range
<1>. QED  BY <1>1, <1>2

LEMMA RangeOfTail ==
  ASSUME NEW S, NEW q \in Seq(S), q # << >>
  PROVE  Range(q) \subseteq Range(Tail(q)) \cup {Head(q)}
<1>1. /\ DOMAIN Tail(q) = 1..(Len(q) - 1) /\ Len(q) \in Nat /\ DOMAIN q = 1..Len(q)
      /\ \A i \in 1..(Len(q) - 1) : Tail(q)[i] = q[i + 1]
      /\ Head(q) = q[1]
  BY TailFacts
<1>. SUFFICES ASSUME NEW i \in 1..Len(q), i # 1 PROVE q[i] \in Range(Tail(q))
  BY <1>1 DEF Range
<1>2. i - 1 \in 1..(Len(q) - 1) /\ Tail(q)[i - 1] = q[i]
  BY <1>1
<1>. QED  BY <1>1, <1>2 DEF Range

LEMMA RemoveFacts ==
  ASSUME NEW S, NEW q \in Seq(S), NEW i \in 1..Len(q)
  PROVE  /\ RemoveAt(q, i) \in Seq(S)
         /\ DOMAIN RemoveAt(q, i) = 1..(Len(q) - 1)
         /\ \A j \in 1..(Len(q) - 1) :
              RemoveAt(q, i)[j] = IF j < i THEN q[j] ELSE q[j + 1]
<1>. DEFINE before == SubSeq(q, 1, i - 1)
            after == SubSeq(q, i + 1, Len(q))
<1>1. /\ before \in Seq(S) /\ Len(before) = i - 1
      /\ \A j \in 1..(i - 1) : before[j] = q[j]
  OBVIOUS
<1>2. /\ after \in Seq(S) /\ Len(after) = Len(q) - i
      /\ \A j \in 1..(Len(q) - i) : after[j] = q[i + j]
  OBVIOUS
<1>5. RemoveAt(q, i) = before \o after
  BY DEF RemoveAt
<1>. HIDE DEF before, after
<1>3. /\ before \o after \in Seq(S)
      /\ Len(before \o after) = Len(before) + Len(after)
      /\ \A j \in 1..(Len(before) + Len(after)) :
           (before \o after)[j] =
             IF j <= Len(before) THEN before[j] ELSE after[j - Len(before)]
  BY <1>1, <1>2, ConcatProperties, ZenonT(30)
<1>4. Len(before) + Len(after) = Len(q) - 1 /\ Len(q) \in Nat
  BY <1>1, <1>2
<1>6. DOMAIN (before \o after) = 1..(Len(q) - 1)
  BY <1>3, <1>4
<1>7. ASSUME NEW j \in 1..(Len(q) - 1)
      PROVE  (before \o after)[j] = IF j < i THEN q[j] ELSE q[j + 1]
  <2>1. CASE j < i
    BY <2>1, <1>1, <1>3, <1>4
  <2>2. CASE i <= j
    <3>1. (before \o after)[j] = after[j - Len(before)]
      BY <2>2, <1>1, <1>3, <1>4
    <3>2. j - Len(before) \in 1..(Len(q) - i) /\ i + (j - Len(before)) = j + 1
      BY <2>2, <1>1
    <3>3. after[j - Len(before)] = q[i + (j - Len(before))]
      BY <3>2, <1>2
    <3>4. ~(j < i)
      BY <2>2
    <3>. QED  BY <3>1, <3>2, <3>3, <3>4, Zenon
  <2>3. j < i \/ i <= j
    OBVIOUS
  <2>. QED  BY <2>1, <2>2, <2>3, Zenon
<1>. QED  BY <1>3, <1>5, <1>6, <1>7

LEMMA RemovedOnce ==
  ASSUME NEW S, NEW q \in Seq(S), IsInjective(q), NEW i \in 1..Len(q)
  PROVE  /\ IsInjective(RemoveAt(q, i))
         /\ Range(RemoveAt(q, i)) \subseteq Range(q)
         /\ q[i] \notin Range(RemoveAt(q, i))
<1>. DEFINE r == RemoveAt(q, i)
<1>1. /\ DOMAIN r = 1..(Len(q) - 1)
      /\ \A j \in 1..(Len(q) - 1) : r[j] = IF j < i THEN q[j] ELSE q[j + 1]
  BY RemoveFacts
<1>. HIDE DEF r
<1>2. IsInjective(r)
  BY <1>1 DEF IsInjective
<1>3. Range(r) \subseteq Range(q)
  BY <1>1 DEF Range
<1>4. q[i] \notin Range(r)
  BY <1>1 DEF Range, IsInjective
<1>. QED  BY <1>2, <1>3, <1>4 DEF r

-----------------------------------------------------------------------------
(* A frame.                                                                *)

Path == [modifier : BOOLEAN, sync : BOOLEAN]

LEMMA RegionTypes ==
  ASSUME TypeOK
  PROVE  Changing \subseteq Regions /\ Damage \subseteq Regions
BY DEF TypeOK, Changing, Damage, HudDamage, Regions

LEMMA DrawnType ==
  ASSUME TypeOK, NEW slot \in SlotState, NEW p \in Path
  PROVE  /\ Drawn(slot, p) \in SlotState
         /\ ~Drawn(slot, p).released
         /\ p.sync => ~Drawn(slot, p).signalled
BY RegionTypes DEF Drawn, SlotState, Path

LEMMA NotDrawnType ==
  ASSUME TypeOK, NEW slot \in SlotState, NEW p \in Path
  PROVE  /\ NotDrawn(slot, p) \in SlotState
         /\ NotDrawn(slot, p).released = slot.released
         /\ NotDrawn(slot, p).signalled = slot.signalled
         /\ NotDrawn(slot, p).valid = slot.valid
         /\ NotDrawn(slot, p).stale = slot.stale \cup Changing
         /\ p.modifier => NotDrawn(slot, p).accum = slot.accum \cup Damage
<1>1. Changing \subseteq Regions /\ Damage \subseteq Regions
  BY RegionTypes
<1>2. slot.stale \cup Changing \in SUBSET Regions
  BY <1>1 DEF SlotState
<1>3. (IF p.modifier THEN slot.accum \cup Damage ELSE slot.accum) \in SUBSET Regions
  BY <1>1 DEF SlotState
<1>. QED  BY <1>2, <1>3 DEF NotDrawn, SlotState

LEMMA FreshType ==
  /\ Fresh \in [Slot -> SlotState]
  /\ \A s \in Slot : Fresh[s].released /\ Fresh[s].signalled /\ ~Fresh[s].valid
BY DEF Fresh, FreshSlot, SlotState

LEMMA DrawType ==
  ASSUME TypeOK, NEW sl \in [Slot -> SlotState], NEW b \in Slot, NEW p \in Path,
         NEW full \in BOOLEAN, Draw(sl, b, p, full)
  PROVE  /\ slots' \in [Slot -> SlotState] /\ back' \in Slot
         /\ full_damage' \in BOOLEAN /\ hud_frames' \in 0..NumSlots
         /\ dirty' \subseteq Regions /\ unseen' \subseteq Regions /\ last' \in Fault
<1>1. \A s \in Slot : slots'[s] \in SlotState
  BY DrawnType, NotDrawnType DEF Draw
<1>2. slots' \in [Slot -> SlotState]
  BY <1>1 DEF Draw
<1>3. back' \in Slot
  BY NumSlotsAssumption DEF Draw, Slot
<1>4. hud_frames' \in 0..NumSlots
  BY NumSlotsAssumption DEF Draw, TypeOK
<1>5. slots'[b].stale \subseteq Regions
  BY <1>1 DEF SlotState
<1>6. (IF full THEN {} ELSE (unseen \cup Changing) \ Damage) \subseteq Regions
  BY RegionTypes DEF TypeOK
<1>7. last' \in Fault
  BY <1>5, <1>6 DEF Draw, Fault
<1>. QED  BY <1>2, <1>3, <1>4, <1>7 DEF Draw

LEMMA PresentType ==
  ASSUME TypeOK, NEW sl \in [Slot -> SlotState], NEW b \in Slot, NEW p \in Path,
         NEW full \in BOOLEAN, NEW asked \in BOOLEAN, NEW holds \in Seq(Slot),
         Present(sl, b, p, full, asked, holds)
  PROVE  /\ slots' \in [Slot -> SlotState] /\ back' \in Slot
         /\ full_damage' \in BOOLEAN /\ hud_frames' \in 0..NumSlots
         /\ dirty' \subseteq Regions /\ unseen' \subseteq Regions /\ last' \in Fault
         /\ held' \in Seq(Slot) /\ callback' \in {"none", "requested", "committed", "sent"}
<1>1. CASE Free(sl[b], p)
  <2>1. Draw(sl, b, p, full) /\ held' = Append(holds, b)
    BY <1>1 DEF Present
  <2>2. held' \in Seq(Slot)
    BY <2>1
  <2>3. callback' \in {"none", "requested", "committed", "sent"}
    BY <1>1 DEF Present, TypeOK
  <2>. QED  BY <2>1, <2>2, <2>3, DrawType
<1>2. CASE ~Free(sl[b], p)
  BY <1>2 DEF Present, DropFrame, TypeOK
<1>. QED  BY <1>1, <1>2

LEMMA PathTypes ==
  ASSUME TypeOK, NEW p \in PathFor(use_sync)
  PROVE  p \in Path /\ (p.sync => bridge /\ p.modifier)
BY DEF TypeOK, PathFor, Paths, Path

LEMMA StillHeardType ==
  ASSUME NEW q
  PROVE  /\ StillHeard(q) \in Seq(Slot \cup {FrameDone})
         /\ \A i \in DOMAIN StillHeard(q) : StillHeard(q)[i] \notin Slot
<1>1. FrameDone \notin Slot
  BY NumSlotsAssumption DEF FrameDone, Slot
<1>2. CASE FrameDone \in Range(q)
  BY <1>1, <1>2 DEF StillHeard
<1>3. CASE FrameDone \notin Range(q)
  BY <1>3 DEF StillHeard
<1>. QED  BY <1>2, <1>3

LEMMA RenderType ==
  ASSUME TypeOK, NEW asked \in BOOLEAN, NEW queue \in Seq(Slot \cup {FrameDone}),
         RenderFrame(asked, queue), UNCHANGED <<mode, early>>, started' \in BOOLEAN
  PROVE  TypeOK'
<1>1. paced' = paced /\ bridge' = bridge /\ hud' = hud
  BY DEF RenderFrame, mode
<1>2. ASSUME Remade(asked, queue)
      PROVE  TypeOK'
  <2>1. PICK p \in PathFor(use_sync) :
          /\ use_modifier' = p.modifier /\ use_sync' = p.sync
          /\ Present(Fresh, 0, p, TRUE, asked, << >>)
    BY <1>2 DEF Remade
  <2>2. p \in Path /\ (p.sync => bridge /\ p.modifier)
    BY PathTypes
  <2>3. use_modifier' \in BOOLEAN /\ use_sync' \in BOOLEAN
    BY <2>1, <2>2 DEF Path
  <2>4. events' \in Seq(Slot \cup {FrameDone}) /\ running' = running
    BY <1>2, StillHeardType DEF Remade
  <2>5. 0 \in Slot /\ << >> \in Seq(Slot)
    BY NumSlotsAssumption DEF Slot
  <2>6. /\ slots' \in [Slot -> SlotState] /\ back' \in Slot
        /\ full_damage' \in BOOLEAN /\ hud_frames' \in 0..NumSlots
        /\ dirty' \subseteq Regions /\ unseen' \subseteq Regions /\ last' \in Fault
        /\ held' \in Seq(Slot) /\ callback' \in {"none", "requested", "committed", "sent"}
    BY <2>1, <2>2, <2>5, FreshType, PresentType
  <2>. QED  BY <1>1, <2>1, <2>2, <2>3, <2>4, <2>6 DEF TypeOK
<1>3. ASSUME NotRemade(asked, queue)
      PROVE  TypeOK'
  BY <1>1, <1>3 DEF TypeOK, NotRemade, ring
<1>4. ASSUME SameRing(asked, queue)
      PROVE  TypeOK'
  <2>1. [modifier |-> use_modifier, sync |-> use_sync] \in Path
    BY DEF TypeOK, Path
  <2>2. /\ slots \in [Slot -> SlotState] /\ back \in Slot
        /\ full_damage \in BOOLEAN /\ held \in Seq(Slot)
    BY DEF TypeOK
  <2>3. /\ slots' \in [Slot -> SlotState] /\ back' \in Slot
        /\ full_damage' \in BOOLEAN /\ hud_frames' \in 0..NumSlots
        /\ dirty' \subseteq Regions /\ unseen' \subseteq Regions /\ last' \in Fault
        /\ held' \in Seq(Slot) /\ callback' \in {"none", "requested", "committed", "sent"}
    BY <1>4, <2>1, <2>2, PresentType DEF SameRing
  <2>. QED  BY <1>1, <1>4, <2>3 DEF TypeOK, SameRing
<1>. QED  BY <1>2, <1>3, <1>4 DEF RenderFrame

LEMMA InitTypeOK == Init => TypeOK
<1>. SUFFICES ASSUME Init PROVE TypeOK
  OBVIOUS
<1>1. PICK p \in PathFor(bridge) : use_modifier = p.modifier /\ use_sync = p.sync
  BY DEF Init
<1>2. use_modifier \in BOOLEAN /\ use_sync \in BOOLEAN /\ (use_sync => bridge /\ use_modifier)
  BY <1>1 DEF PathFor, Paths, Init
<1>3. slots \in [Slot -> SlotState]
  BY DEF Init, FreshSlot, SlotState
<1>4. /\ 0 \in Slot /\ 0 \in 0..NumSlots
      /\ << >> \in Seq(Slot) /\ << >> \in Seq(Slot \cup {FrameDone})
  BY NumSlotsAssumption DEF Slot
<1>5. last \in Fault
  BY DEF Init, NoFault, Fault
<1>. QED  BY <1>2, <1>3, <1>4, <1>5 DEF Init, TypeOK

LEMMA ChangeType ==
  ASSUME TypeOK, NEW r \in Regions, Change(r)
  PROVE  slots' \in [Slot -> SlotState] /\ unseen' \subseteq Regions
<1>1. \A s \in Slot : [slots[s] EXCEPT !.stale = slots[s].stale \cup {r}] \in SlotState
  BY DEF TypeOK, SlotState
<1>2. slots' = [s \in Slot |-> [slots[s] EXCEPT !.stale = slots[s].stale \cup {r}]]
  BY DEF Change
<1>. QED  BY <1>1, <1>2 DEF Change, TypeOK

LEMMA NextTypeOK == TypeOK /\ [Next]_vars => TypeOK'
<1>. SUFFICES ASSUME TypeOK, [Next]_vars PROVE TypeOK'
  OBVIOUS
<1>1. CASE MainLoop
  <2>1. (paced = "callback") \in BOOLEAN /\ events \in Seq(Slot \cup {FrameDone})
    BY DEF TypeOK
  <2>. QED  BY <1>1, <2>1, RenderType DEF MainLoop
<1>2. CASE RunSelfPaced
  BY <1>2, RenderType DEF RunSelfPaced, TypeOK
<1>3. CASE OnFrameReady
  <2>1. Tail(events) \in Seq(Slot \cup {FrameDone})
    BY <1>3, TailFacts DEF OnFrameReady, TypeOK
  <2>. QED  BY <1>3, <2>1, RenderType DEF OnFrameReady, TypeOK
<1>4. CASE OnRelease
  <2>1. events' \in Seq(Slot \cup {FrameDone})
    BY <1>4, TailFacts DEF OnRelease, TypeOK
  <2>2. slots' \in [Slot -> SlotState]
    BY <1>4 DEF OnRelease, TypeOK, SlotState
  <2>. QED  BY <1>4, <2>1, <2>2 DEF OnRelease, TypeOK, mode, flags, scene
<1>5. CASE OnButton
  <2>1. slots' \in [Slot -> SlotState] /\ unseen' \subseteq Regions
    BY <1>5, ChangeType DEF OnButton, Regions
  <2>. QED  BY <1>5, <2>1 DEF OnButton, Change, TypeOK, mode, Regions
<1>6. CASE ToggleHud
  <2>1. slots' \in [Slot -> SlotState] /\ unseen' \subseteq Regions
    BY <1>6, ChangeType DEF ToggleHud, Regions
  <2>2. hud' \in BOOLEAN /\ hud_frames' \in 0..NumSlots
    BY <1>6, NumSlotsAssumption DEF ToggleHud, TypeOK
  <2>. QED  BY <1>6, <2>1, <2>2 DEF ToggleHud, Change, TypeOK, mode
<1>7. CASE OnToplevelConfigure
  <2>1. slots' \in [Slot -> SlotState] /\ unseen' \subseteq Regions
    BY <1>7, ChangeType DEF OnToplevelConfigure, Regions
  <2>. QED  BY <1>7, <2>1 DEF OnToplevelConfigure, Change, TypeOK, mode
<1>8. CASE OnDmabufFeedback
  BY <1>8 DEF OnDmabufFeedback, TypeOK, mode, ring, scene
<1>9. CASE Quit
  BY <1>9 DEF Quit, TypeOK, mode, ring, scene, flags
<1>10. CASE Done
  <2>1. events' \in Seq(Slot \cup {FrameDone})
    BY <1>10 DEF Done, TypeOK
  <2>. QED  BY <1>10, <2>1 DEF Done, TypeOK, mode, ring, scene, flags
<1>11. ASSUME NEW i \in DOMAIN held, Release(i)
       PROVE  TypeOK'
  <2>1. i \in 1..Len(held) /\ held[i] \in Slot /\ held \in Seq(Slot)
    BY <1>11 DEF TypeOK
  <2>2. held' \in Seq(Slot)
    BY <1>11, <2>1, RemoveFacts DEF Release
  <2>3. CASE use_sync
    <3>1. \A s \in Slot : [slots[s] EXCEPT !.signalled = TRUE] \in SlotState
      BY DEF TypeOK, SlotState
    <3>2. slots' \in [Slot -> SlotState] /\ events' = events
      BY <1>11, <2>3, <3>1 DEF Release, TypeOK
    <3>. QED  BY <1>11, <2>2, <3>2 DEF Release, TypeOK, mode, flags, scene
  <2>4. CASE ~use_sync
    <3>1. slots' = slots /\ events' = Append(events, held[i])
      BY <1>11, <2>4 DEF Release
    <3>2. held[i] \in Slot \cup {FrameDone} /\ events \in Seq(Slot \cup {FrameDone})
      BY <2>1 DEF TypeOK
    <3>3. events' \in Seq(Slot \cup {FrameDone})
      BY <3>1, <3>2, AppendFacts
    <3>. QED  BY <1>11, <2>2, <3>1, <3>3 DEF Release, TypeOK, mode, flags, scene
  <2>. QED  BY <2>3, <2>4
<1>12. CASE UNCHANGED vars
  BY <1>12 DEF vars, TypeOK, mode, ring, scene, flags
<1>. QED
  BY <1>1, <1>2, <1>3, <1>4, <1>5, <1>6, <1>7, <1>8, <1>9, <1>10, <1>11, <1>12 DEF Next

(* Every variable of the ring keeps its type, for any number of slots.     *)
THEOREM SlotsTypeOK == Spec => []TypeOK
BY InitTypeOK, NextTypeOK, PTL DEF Spec

-----------------------------------------------------------------------------
(* Who has a slot: with release events it is free, or held, or on its way  *)
(* back in one event; with points it is free or held.  A point also stands *)
(* for those before it, which does no harm while only two slots can be     *)
(* held at a time.                                                         *)
Once(q) == \A i, j \in DOMAIN q : q[i] = q[j] /\ q[i] \in Slot => i = j

InOnePlace(sl, sync, holds, queue) ==
  /\ IsInjective(holds)
  /\ \A s \in Range(holds) : ~(IF sync THEN sl[s].signalled ELSE sl[s].released)
  /\ ~sync => /\ Once(queue)
              /\ \A s \in Slot : s \in Range(queue) =>
                     ~sl[s].released /\ s \notin Range(holds)

FewSlots == NumSlots <= 2 \/ ~bridge

HeldInv == TypeOK /\ FewSlots /\ InOnePlace(slots, use_sync, held, events)

LEMMA PresentInOnePlace ==
  ASSUME TypeOK, NEW sl \in [Slot -> SlotState], NEW b \in Slot, NEW p \in Path,
         NEW full, NEW asked, NEW holds \in Seq(Slot),
         NEW queue \in Seq(Slot \cup {FrameDone}),
         Present(sl, b, p, full, asked, holds),
         InOnePlace(sl, p.sync, holds, queue)
  PROVE  InOnePlace(slots', p.sync, held', queue)
<1>1. CASE ~Free(sl[b], p)
  BY <1>1 DEF Present, DropFrame
<1>2. CASE Free(sl[b], p)
  <2>1. Draw(sl, b, p, full) /\ held' = Append(holds, b)
    BY <1>2 DEF Present
  <2>2. /\ DOMAIN held' = 1..(Len(holds) + 1) /\ Len(holds) \in Nat
        /\ DOMAIN holds = 1..Len(holds)
        /\ \A i \in 1..Len(holds) : held'[i] = holds[i]
        /\ held'[Len(holds) + 1] = b
        /\ Range(held') = Range(holds) \cup {b}
    BY <2>1, AppendFacts
  <2>3. b \notin Range(holds)
    BY <1>2 DEF Free, InOnePlace
  <2>4. IsInjective(held')
    <3>1. \A i \in 1..Len(holds) : holds[i] # b
      BY <2>2, <2>3 DEF Range
    <3>2. ASSUME NEW i \in 1..(Len(holds) + 1), NEW j \in 1..(Len(holds) + 1),
                 held'[i] = held'[j]
          PROVE  i = j
      <4>1. CASE i \in 1..Len(holds) /\ j \in 1..Len(holds)
        BY <2>2, <3>2, <4>1 DEF InOnePlace, IsInjective
      <4>2. CASE i = Len(holds) + 1 /\ j = Len(holds) + 1
        BY <4>2
      <4>3. CASE i \in 1..Len(holds) /\ j = Len(holds) + 1
        BY <2>2, <3>1, <3>2, <4>3
      <4>4. CASE i = Len(holds) + 1 /\ j \in 1..Len(holds)
        BY <2>2, <3>1, <3>2, <4>4
      <4>. QED  BY <2>2, <4>1, <4>2, <4>3, <4>4
    <3>. QED  BY <2>2, <3>2 DEF IsInjective
  <2>5. \A s \in Slot : s # b =>
          slots'[s].released = sl[s].released /\ slots'[s].signalled = sl[s].signalled
    BY <2>1, NotDrawnType DEF Draw
  <2>6. ~slots'[b].released /\ (p.sync => ~slots'[b].signalled)
    BY <2>1, DrawnType DEF Draw
  <2>7. Range(holds) \subseteq Slot
    BY DEF Range
  <2>8. \A s \in Range(held') :
          ~(IF p.sync THEN slots'[s].signalled ELSE slots'[s].released)
    BY <2>2, <2>5, <2>6, <2>7 DEF InOnePlace
  <2>9. ASSUME ~p.sync
        PROVE  /\ Once(queue)
               /\ \A s \in Slot : s \in Range(queue) =>
                    ~slots'[s].released /\ s \notin Range(held')
    <3>1. sl[b].released
      BY <1>2, <2>9 DEF Free
    <3>2. b \notin Range(queue)
      BY <2>9, <3>1 DEF InOnePlace
    <3>. QED  BY <2>2, <2>5, <2>9, <3>2 DEF InOnePlace
  <2>. QED  BY <2>4, <2>8, <2>9 DEF InOnePlace
<1>. QED  BY <1>1, <1>2

LEMMA TailInOnePlace ==
  ASSUME NEW sl, NEW sync, NEW holds, NEW queue \in Seq(Slot \cup {FrameDone}),
         queue # << >>, InOnePlace(sl, sync, holds, queue)
  PROVE  /\ InOnePlace(sl, sync, holds, Tail(queue))
         /\ ~sync /\ Head(queue) \in Slot => Head(queue) \notin Range(Tail(queue))
<1>1. /\ DOMAIN Tail(queue) = 1..(Len(queue) - 1) /\ Len(queue) \in Nat
      /\ DOMAIN queue = 1..Len(queue) /\ 1 \in DOMAIN queue
      /\ \A i \in 1..(Len(queue) - 1) : Tail(queue)[i] = queue[i + 1]
      /\ Head(queue) = queue[1]
      /\ Range(Tail(queue)) \subseteq Range(queue)
  BY TailFacts
<1>2. ASSUME Once(queue) PROVE Once(Tail(queue))
  BY <1>1, <1>2 DEF Once
<1>3. ASSUME Once(queue), Head(queue) \in Slot
      PROVE  Head(queue) \notin Range(Tail(queue))
  BY <1>1, <1>3 DEF Once, Range
<1>. QED  BY <1>1, <1>2, <1>3 DEF InOnePlace

LEMMA RenderHeld ==
  ASSUME HeldInv, NEW asked \in BOOLEAN, NEW queue \in Seq(Slot \cup {FrameDone}),
         InOnePlace(slots, use_sync, held, queue), RenderFrame(asked, queue)
  PROVE  InOnePlace(slots', use_sync', held', events')
<1>. USE DEF HeldInv
<1>1. ASSUME Remade(asked, queue)
      PROVE  InOnePlace(slots', use_sync', held', events')
  <2>1. PICK p \in PathFor(use_sync) :
          /\ use_modifier' = p.modifier /\ use_sync' = p.sync
          /\ Present(Fresh, 0, p, TRUE, asked, << >>)
    BY <1>1 DEF Remade
  <2>2. p \in Path /\ events' = StillHeard(queue)
    BY <1>1, PathTypes DEF Remade
  <2>3. 0 \in Slot /\ << >> \in Seq(Slot)
    BY NumSlotsAssumption DEF Slot
  <2>4. InOnePlace(Fresh, p.sync, << >>, StillHeard(queue))
    BY StillHeardType DEF InOnePlace, Once, Range, IsInjective
  <2>5. StillHeard(queue) \in Seq(Slot \cup {FrameDone})
    BY StillHeardType
  <2>6. InOnePlace(slots', p.sync, held', StillHeard(queue))
    BY <2>1, <2>2, <2>3, <2>4, <2>5, FreshType, PresentInOnePlace
  <2>. QED  BY <2>1, <2>2, <2>6
<1>2. ASSUME NotRemade(asked, queue)
      PROVE  InOnePlace(slots', use_sync', held', events')
  BY <1>2 DEF NotRemade, ring
<1>3. ASSUME SameRing(asked, queue)
      PROVE  InOnePlace(slots', use_sync', held', events')
  <2>. DEFINE p == [modifier |-> use_modifier, sync |-> use_sync]
  <2>1. p \in Path /\ p.sync = use_sync
    BY DEF TypeOK, Path
  <2>2. Present(slots, back, p, full_damage, asked, held)
    BY <1>3 DEF SameRing
  <2>3. use_sync' = use_sync /\ events' = queue
    BY <1>3 DEF SameRing
  <2>. HIDE DEF p
  <2>4. slots \in [Slot -> SlotState] /\ back \in Slot /\ held \in Seq(Slot)
    BY DEF TypeOK
  <2>5. InOnePlace(slots, p.sync, held, queue)
    BY <2>1
  <2>6. InOnePlace(slots', p.sync, held', queue)
    BY <2>1, <2>2, <2>4, <2>5, PresentInOnePlace
  <2>. QED  BY <2>1, <2>3, <2>6
<1>. QED  BY <1>1, <1>2, <1>3 DEF RenderFrame

(* The compositor lets go of one content, and with points of those before. *)
LEMMA ReleaseHeld ==
  ASSUME HeldInv, NEW i \in DOMAIN held, Release(i)
  PROVE  InOnePlace(slots', use_sync', held', events')
<1>. USE DEF HeldInv
<1>1. /\ i \in 1..(Len(held) - 1) /\ held' = RemoveAt(held, i) /\ use_sync' = use_sync
      /\ held \in Seq(Slot) /\ i \in 1..Len(held) /\ Len(held) \in Nat
      /\ held[i] \in Slot /\ held[i] \in Range(held)
  BY DEF Release, TypeOK, Range
<1>2. /\ IsInjective(held')
      /\ Range(held') \subseteq Range(held)
      /\ held[i] \notin Range(held')
  BY <1>1, RemovedOnce DEF InOnePlace
<1>3. CASE use_sync
  <2>1. NumSlots \in 1..2
    BY <1>3, NumSlotsAssumption DEF TypeOK, FewSlots
  <2>2. Slot \subseteq {0, 1}
    BY <2>1 DEF Slot
  <2>3. Len(held) <= 2
    <3>. SUFFICES ASSUME Len(held) > 2 PROVE FALSE
      BY <1>1
    <3>1. 1 \in DOMAIN held /\ 2 \in DOMAIN held /\ 3 \in DOMAIN held
      BY <1>1
    <3>4. \A j \in DOMAIN held : held[j] \in Slot
      BY <1>1
    <3>5. held[1] \in Slot /\ held[2] \in Slot /\ held[3] \in Slot
      BY <3>1, <3>4
    <3>2. held[1] \in {0, 1} /\ held[2] \in {0, 1} /\ held[3] \in {0, 1}
      BY <2>2, <3>5
    <3>3. held[1] # held[2] /\ held[2] # held[3] /\ held[1] # held[3]
      BY <3>1 DEF InOnePlace, IsInjective
    <3>. QED  BY <3>2, <3>3
  <2>4. i = 1
    BY <1>1, <2>3
  <2>5. \A s \in Slot : s # held[i] => slots'[s] = slots[s]
    BY <1>1, <1>3, <2>4 DEF Release, TypeOK
  <2>6. Range(held) \subseteq Slot
    BY <1>1 DEF Range
  <2>. QED  BY <1>1, <1>2, <1>3, <2>5, <2>6 DEF InOnePlace
<1>4. CASE ~use_sync
  <2>1. slots' = slots /\ events' = Append(events, held[i])
    BY <1>4 DEF Release
  <2>2. events \in Seq(Slot \cup {FrameDone}) /\ held[i] \in Slot \cup {FrameDone}
    BY <1>1 DEF TypeOK
  <2>3. /\ DOMAIN events' = 1..(Len(events) + 1) /\ Len(events) \in Nat
        /\ DOMAIN events = 1..Len(events)
        /\ \A j \in 1..Len(events) : events'[j] = events[j]
        /\ events'[Len(events) + 1] = held[i]
        /\ Range(events') = Range(events) \cup {held[i]}
    BY <2>1, <2>2, AppendFacts
  <2>4. held[i] \notin Range(events) /\ ~slots[held[i]].released
    BY <1>1, <1>4 DEF InOnePlace
  <2>5. Once(events')
    <3>1. \A j \in 1..Len(events) : events[j] # held[i]
      BY <2>3, <2>4 DEF Range
    <3>2. ASSUME NEW j \in 1..(Len(events) + 1), NEW k \in 1..(Len(events) + 1),
                 events'[j] = events'[k], events'[j] \in Slot
          PROVE  j = k
      <4>1. CASE j \in 1..Len(events) /\ k \in 1..Len(events)
        BY <1>4, <2>3, <3>2, <4>1 DEF InOnePlace, Once
      <4>2. CASE j = Len(events) + 1 /\ k = Len(events) + 1
        BY <4>2
      <4>3. CASE j \in 1..Len(events) /\ k = Len(events) + 1
        BY <2>3, <3>1, <3>2, <4>3
      <4>4. CASE j = Len(events) + 1 /\ k \in 1..Len(events)
        BY <2>3, <3>1, <3>2, <4>4
      <4>. QED  BY <2>3, <4>1, <4>2, <4>3, <4>4
    <3>. QED  BY <2>3, <3>2 DEF Once
  <2>6. \A s \in Slot : s \in Range(events') => ~slots'[s].released /\ s \notin Range(held')
    BY <1>2, <1>4, <2>1, <2>3, <2>4 DEF InOnePlace
  <2>7. \A s \in Range(held') : ~slots'[s].released
    BY <1>2, <1>4, <2>1 DEF InOnePlace
  <2>. QED  BY <1>1, <1>2, <1>4, <2>5, <2>6, <2>7 DEF InOnePlace
<1>. QED  BY <1>3, <1>4

LEMMA InitHeldInv == Init /\ FewSlots => HeldInv
<1>. SUFFICES ASSUME Init, FewSlots PROVE HeldInv
  OBVIOUS
<1>1. InOnePlace(slots, use_sync, held, events)
  BY DEF Init, InOnePlace, Once, Range, IsInjective
<1>. QED  BY <1>1, InitTypeOK DEF HeldInv

LEMMA NextHeldInv == HeldInv /\ [Next]_vars => HeldInv'
<1>. SUFFICES ASSUME HeldInv, [Next]_vars PROVE HeldInv'
  OBVIOUS
<1>. USE DEF HeldInv
<1>1. TypeOK'
  BY NextTypeOK
<1>2. FewSlots'
  <2>1. bridge' = bridge
    BY DEF Next, MainLoop, RunSelfPaced, OnFrameReady, OnRelease, OnButton, ToggleHud,
           OnToplevelConfigure, OnDmabufFeedback, Quit, Done, Release, Change, vars, mode
  <2>. QED  BY <2>1 DEF FewSlots
<1>3. events \in Seq(Slot \cup {FrameDone}) /\ slots \in [Slot -> SlotState]
  BY DEF TypeOK
<1>4. CASE MainLoop
  <2>1. (paced = "callback") \in BOOLEAN
    OBVIOUS
  <2>. QED  BY <1>1, <1>2, <1>3, <1>4, <2>1, RenderHeld DEF MainLoop
<1>5. CASE RunSelfPaced
  BY <1>1, <1>2, <1>3, <1>5, RenderHeld DEF RunSelfPaced
<1>6. CASE OnFrameReady
  <2>1. events # << >> /\ RenderFrame(TRUE, Tail(events))
    BY <1>6 DEF OnFrameReady
  <2>2. Tail(events) \in Seq(Slot \cup {FrameDone})
    BY <1>3, <2>1, TailFacts
  <2>3. InOnePlace(slots, use_sync, held, Tail(events))
    BY <1>3, <2>1, TailInOnePlace
  <2>. QED  BY <1>1, <1>2, <2>1, <2>2, <2>3, RenderHeld
<1>7. CASE OnRelease
  <2>. DEFINE s == Head(events)
  <2>1. /\ events # << >> /\ s \in Slot /\ events' = Tail(events)
        /\ slots' = [slots EXCEPT ![s].released = TRUE]
        /\ use_sync' = use_sync /\ held' = held
    BY <1>7 DEF OnRelease
  <2>2. s \in Range(events) /\ Range(Tail(events)) \subseteq Range(events)
    BY <1>3, <2>1, TailFacts DEF Range
  <2>3. /\ InOnePlace(slots, use_sync, held, Tail(events))
        /\ ~use_sync => s \notin Range(Tail(events))
    BY <1>3, <2>1, TailInOnePlace
  <2>4. ~use_sync => s \notin Range(held)
    BY <2>1, <2>2 DEF InOnePlace
  <2>. HIDE DEF s
  <2>5. /\ \A t \in Slot : t # s => slots'[t] = slots[t]
        /\ slots'[s].signalled = slots[s].signalled
    BY <1>3, <2>1 DEF SlotState
  <2>6. Range(held) \subseteq Slot
    BY DEF TypeOK, Range
  <2>7. InOnePlace(slots', use_sync', held', events')
    BY <2>1, <2>3, <2>4, <2>5, <2>6 DEF InOnePlace
  <2>. QED  BY <1>1, <1>2, <2>7
<1>8. ASSUME NEW r \in Regions, Change(r)
      PROVE  InOnePlace(slots', use_sync', held', events')
  <2>1. \A s \in Slot : /\ slots'[s].released = slots[s].released
                        /\ slots'[s].signalled = slots[s].signalled
    BY <1>3, <1>8 DEF Change, SlotState
  <2>2. use_sync' = use_sync /\ held' = held /\ events' = events
    BY <1>8 DEF Change
  <2>3. Range(held) \subseteq Slot
    BY DEF TypeOK, Range
  <2>. QED  BY <2>1, <2>2, <2>3 DEF InOnePlace
<1>9. CASE OnButton \/ ToggleHud \/ OnToplevelConfigure
  BY <1>1, <1>2, <1>8, <1>9 DEF OnButton, ToggleHud, OnToplevelConfigure, Regions
<1>10. CASE OnDmabufFeedback \/ Quit
  BY <1>1, <1>2, <1>10 DEF OnDmabufFeedback, Quit, ring
<1>11. CASE Done
  <2>1. /\ events' = Append(events, FrameDone)
        /\ slots' = slots /\ use_sync' = use_sync /\ held' = held
    BY <1>11 DEF Done, ring
  <2>2. FrameDone \notin Slot
    BY NumSlotsAssumption DEF FrameDone, Slot
  <2>3. /\ DOMAIN events' = 1..(Len(events) + 1) /\ Len(events) \in Nat
        /\ DOMAIN events = 1..Len(events)
        /\ \A j \in 1..Len(events) : events'[j] = events[j]
        /\ events'[Len(events) + 1] = FrameDone
        /\ Range(events') = Range(events) \cup {FrameDone}
    BY <1>3, <2>1, AppendFacts
  <2>4. Once(events) => Once(events')
    BY <2>2, <2>3 DEF Once
  <2>5. InOnePlace(slots', use_sync', held', events')
    BY <2>1, <2>2, <2>3, <2>4 DEF InOnePlace
  <2>. QED  BY <1>1, <1>2, <2>5
<1>12. ASSUME NEW i \in DOMAIN held, Release(i)
       PROVE  HeldInv'
  BY <1>1, <1>2, <1>12, ReleaseHeld
<1>13. CASE UNCHANGED vars
  BY <1>1, <1>2, <1>13 DEF vars, ring
<1>. QED
  BY <1>4, <1>5, <1>6, <1>7, <1>9, <1>10, <1>11, <1>12, <1>13 DEF Next

(* With two slots, as the program has, or with any number of them that are *)
(* given back by release events alone, no slot is drawn while the          *)
(* compositor still uses its content.                                      *)
THEOREM NoSlotHeldTwice == Spec /\ FewSlots => []HeldOnce
<1>1. HeldInv => HeldOnce
  BY DEF HeldInv, InOnePlace, HeldOnce
<1>. QED  BY <1>1, InitHeldInv, NextHeldInv, PTL DEF Spec

-----------------------------------------------------------------------------
(* What a slot misses is on record: in its own damage, or in what changed  *)
(* since the last commit; and that is what the next frame is drawn for,    *)
(* unless it draws everything.                                             *)
OnRecord(sl, modifier, full, u) ==
  /\ full => \A s \in Slot : ~sl[s].valid
  /\ \A s \in Slot : sl[s].valid => modifier /\ sl[s].stale \subseteq sl[s].accum \cup u

Pending == ~full_damage /\ ~needs_resize => unseen \subseteq Damage

SceneInv ==
  /\ TypeOK /\ ShowsScene /\ DamageCovers
  /\ ~started => running
  /\ running => OnRecord(slots, use_modifier, full_damage, unseen) /\ Pending

LEMMA PresentOnRecord ==
  ASSUME TypeOK, ShowsScene, DamageCovers,
         NEW sl \in [Slot -> SlotState], NEW b \in Slot, NEW p \in Path,
         NEW full \in BOOLEAN, NEW asked, NEW holds,
         Present(sl, b, p, full, asked, holds), UNCHANGED hud,
         OnRecord(sl, p.modifier, full, unseen), ~full => unseen \subseteq Damage
  PROVE  /\ OnRecord(slots', p.modifier, full_damage', unseen')
         /\ ~full_damage' => unseen' \subseteq Damage'
         /\ ShowsScene' /\ DamageCovers'
<1>1. CASE ~Free(sl[b], p)
  BY <1>1 DEF Present, DropFrame, Damage, HudDamage, ShowsScene, DamageCovers
<1>2. CASE Free(sl[b], p)
  <2>1. Draw(sl, b, p, full)
    BY <1>2 DEF Present
  <2>2. unseen' = {} /\ full_damage' = FALSE
    BY <2>1 DEF Draw
  <2>3. Changing \subseteq Damage
    BY DEF Changing, Damage, HudDamage
  <2>4. sl[b].stale \cup Changing \subseteq Regions
    BY RegionTypes DEF SlotState
  <2>5. sl[b].stale \cup Changing \subseteq Redraw(sl[b], p)
    BY <2>3, <2>4 DEF Redraw, OnRecord
  <2>6. slots'[b].stale = {} /\ slots'[b].valid = p.modifier
    BY <2>1, <2>5 DEF Draw, Drawn
  <2>7. ASSUME NEW s \in Slot, s # b, slots'[s].valid
        PROVE  p.modifier /\ slots'[s].stale \subseteq slots'[s].accum
    <3>1. slots'[s] = NotDrawn(sl[s], p)
      BY <2>1, <2>7 DEF Draw
    <3>2. sl[s].valid
      BY <2>7, <3>1, NotDrawnType
    <3>3. p.modifier /\ ~full /\ sl[s].stale \subseteq sl[s].accum \cup unseen
      BY <3>2 DEF OnRecord
    <3>4. /\ slots'[s].stale = sl[s].stale \cup Changing
          /\ slots'[s].accum = sl[s].accum \cup Damage
      BY <3>1, <3>3, NotDrawnType
    <3>. QED  BY <2>3, <3>3, <3>4
  <2>8. OnRecord(slots', p.modifier, full_damage', unseen')
    BY <2>2, <2>6, <2>7 DEF OnRecord
  <2>9. ShowsScene'
    BY <2>1, <2>6 DEF Draw, ShowsScene
  <2>10. DamageCovers'
    BY <2>1, <2>3 DEF Draw, DamageCovers
  <2>. QED  BY <2>2, <2>8, <2>9, <2>10
<1>. QED  BY <1>1, <1>2

LEMMA RenderScene ==
  ASSUME SceneInv, running, NEW asked \in BOOLEAN,
         NEW queue \in Seq(Slot \cup {FrameDone}), RenderFrame(asked, queue),
         UNCHANGED <<mode, early>>, started' = TRUE
  PROVE  SceneInv'
<1>. USE DEF SceneInv
<1>1. TypeOK' /\ hud' = hud /\ needs_resize' = FALSE
  BY RenderType DEF RenderFrame
<1>2. ASSUME Remade(asked, queue)
      PROVE  SceneInv'
  <2>1. PICK p \in PathFor(use_sync) :
          /\ use_modifier' = p.modifier
          /\ Present(Fresh, 0, p, TRUE, asked, << >>)
    BY <1>2 DEF Remade
  <2>2. p \in Path /\ 0 \in Slot
    BY PathTypes, NumSlotsAssumption DEF Slot
  <2>3. OnRecord(Fresh, p.modifier, TRUE, unseen)
    BY FreshType DEF OnRecord
  <2>4. /\ OnRecord(slots', p.modifier, full_damage', unseen')
        /\ ~full_damage' => unseen' \subseteq Damage'
        /\ ShowsScene' /\ DamageCovers'
    BY <1>1, <2>1, <2>2, <2>3, FreshType, PresentOnRecord
  <2>. QED  BY <1>1, <2>1, <2>4 DEF Pending
<1>3. ASSUME NotRemade(asked, queue)
      PROVE  SceneInv'
  BY <1>1, <1>3 DEF NotRemade, ring, ShowsScene, DamageCovers
<1>4. ASSUME SameRing(asked, queue), ~needs_resize
      PROVE  SceneInv'
  <2>. DEFINE p == [modifier |-> use_modifier, sync |-> use_sync]
  <2>1. p \in Path /\ p.modifier = use_modifier
    BY DEF TypeOK, Path
  <2>2. Present(slots, back, p, full_damage, asked, held) /\ use_modifier' = use_modifier
    BY <1>4 DEF SameRing
  <2>. HIDE DEF p
  <2>3. /\ slots \in [Slot -> SlotState] /\ back \in Slot /\ full_damage \in BOOLEAN
        /\ OnRecord(slots, p.modifier, full_damage, unseen)
        /\ ~full_damage => unseen \subseteq Damage
    BY <1>4, <2>1 DEF TypeOK, Pending
  <2>4. /\ OnRecord(slots', p.modifier, full_damage', unseen')
        /\ ~full_damage' => unseen' \subseteq Damage'
        /\ ShowsScene' /\ DamageCovers'
    BY <1>1, <2>1, <2>2, <2>3, PresentOnRecord
  <2>. QED  BY <1>1, <2>1, <2>2, <2>4 DEF Pending
<1>5. needs_resize => Remade(asked, queue) \/ NotRemade(asked, queue)
  BY DEF RenderFrame, Rebuilds
<1>6. Remade(asked, queue) \/ NotRemade(asked, queue) \/ SameRing(asked, queue)
  BY DEF RenderFrame
<1>. QED  BY <1>2, <1>3, <1>4, <1>5, <1>6

LEMMA ChangeOnRecord ==
  ASSUME TypeOK, NEW r \in Regions, Change(r),
         OnRecord(slots, use_modifier, full_damage, unseen)
  PROVE  OnRecord(slots', use_modifier', full_damage', unseen')
<1>1. \A s \in Slot : /\ slots'[s].valid = slots[s].valid
                      /\ slots'[s].accum = slots[s].accum
                      /\ slots'[s].stale = slots[s].stale \cup {r}
  BY DEF Change, TypeOK, SlotState
<1>2. use_modifier' = use_modifier /\ full_damage' = full_damage /\ unseen' = unseen \cup {r}
  BY DEF Change
<1>. QED  BY <1>1, <1>2 DEF OnRecord

LEMMA InitSceneInv == Init => SceneInv
<1>. SUFFICES ASSUME Init PROVE SceneInv
  OBVIOUS
<1>1. OnRecord(slots, use_modifier, full_damage, unseen)
  BY DEF Init, FreshSlot, OnRecord
<1>2. ShowsScene /\ DamageCovers
  BY DEF Init, ShowsScene, DamageCovers, NoFault
<1>. QED  BY <1>1, <1>2, InitTypeOK DEF Init, SceneInv, Pending

LEMMA NextSceneInv == SceneInv /\ [Next]_vars => SceneInv'
<1>. SUFFICES ASSUME SceneInv, [Next]_vars PROVE SceneInv'
  OBVIOUS
<1>. USE DEF SceneInv
<1>1. TypeOK'
  BY NextTypeOK
<1>2. CASE MainLoop
  <2>1. (paced = "callback") \in BOOLEAN /\ events \in Seq(Slot \cup {FrameDone}) /\ running
    BY <1>2 DEF MainLoop, TypeOK
  <2>. QED  BY <1>2, <2>1, RenderScene DEF MainLoop
<1>3. CASE RunSelfPaced
  <2>1. events \in Seq(Slot \cup {FrameDone})
    BY DEF TypeOK
  <2>. QED  BY <1>3, <2>1, RenderScene DEF RunSelfPaced
<1>4. CASE OnFrameReady
  <2>1. Tail(events) \in Seq(Slot \cup {FrameDone})
    BY <1>4, TailFacts DEF OnFrameReady, TypeOK
  <2>. QED  BY <1>4, <2>1, RenderScene DEF OnFrameReady
<1>5. ASSUME /\ \A s \in Slot : /\ slots'[s].valid = slots[s].valid
                                /\ slots'[s].accum = slots[s].accum
                                /\ slots'[s].stale = slots[s].stale,
             UNCHANGED <<started, use_modifier, full_damage, last, scene, needs_resize>>,
             running' => running
      PROVE  started /\ running => SceneInv'
  BY <1>1, <1>5 DEF scene, OnRecord, Pending, Damage, HudDamage, ShowsScene, DamageCovers
<1>6. CASE OnRelease
  <2>1. \A s \in Slot : /\ slots'[s].valid = slots[s].valid
                        /\ slots'[s].accum = slots[s].accum
                        /\ slots'[s].stale = slots[s].stale
    BY <1>6 DEF OnRelease, TypeOK, SlotState
  <2>. QED  BY <1>5, <1>6, <2>1 DEF OnRelease, flags
<1>7. CASE OnButton
  <2>1. OnRecord(slots', use_modifier', full_damage', unseen')
    BY <1>7, ChangeOnRecord DEF OnButton, Regions
  <2>2. Pending'
    BY <1>7 DEF OnButton, Change, Pending, Damage, HudDamage
  <2>. QED  BY <1>1, <1>7, <2>1, <2>2 DEF OnButton, Change, ShowsScene, DamageCovers
<1>8. CASE ToggleHud
  <2>1. OnRecord(slots', use_modifier', full_damage', unseen')
    BY <1>8, ChangeOnRecord DEF ToggleHud, Regions
  <2>2. Pending'
    BY <1>8, NumSlotsAssumption DEF ToggleHud, Change, Pending, Damage, HudDamage
  <2>. QED  BY <1>1, <1>8, <2>1, <2>2 DEF ToggleHud, Change, ShowsScene, DamageCovers
<1>9. CASE OnToplevelConfigure
  <2>1. OnRecord(slots', use_modifier', full_damage', unseen')
    BY <1>9, ChangeOnRecord DEF OnToplevelConfigure, Regions
  <2>2. Pending'
    BY <1>9 DEF OnToplevelConfigure, Pending
  <2>. QED
    BY <1>1, <1>9, <2>1, <2>2 DEF OnToplevelConfigure, Change, ShowsScene, DamageCovers
<1>10. CASE OnDmabufFeedback
  BY <1>5, <1>10 DEF OnDmabufFeedback, ring
<1>11. CASE Quit
  BY <1>5, <1>11 DEF Quit, ring, flags
<1>12. ASSUME UNCHANGED <<started, running, use_modifier, full_damage, last, scene, needs_resize>>,
              \A s \in Slot : /\ slots'[s].valid = slots[s].valid
                              /\ slots'[s].accum = slots[s].accum
                              /\ slots'[s].stale = slots[s].stale
       PROVE  SceneInv'
  BY <1>1, <1>12 DEF scene, OnRecord, Pending, Damage, HudDamage, ShowsScene, DamageCovers
<1>13. CASE Done
  BY <1>12, <1>13 DEF Done, ring, flags
<1>14. ASSUME NEW i \in DOMAIN held, Release(i)
       PROVE  SceneInv'
  <2>1. \A s \in Slot : /\ slots'[s].valid = slots[s].valid
                        /\ slots'[s].accum = slots[s].accum
                        /\ slots'[s].stale = slots[s].stale
    <3>1. CASE use_sync
      <4>1. \A s \in Slot : \/ slots'[s] = slots[s]
                           \/ slots'[s] = [slots[s] EXCEPT !.signalled = TRUE]
        BY <1>14, <3>1, Zenon DEF Release
      <4>2. \A s \in Slot : slots[s] \in SlotState
        BY DEF TypeOK
      <4>. QED  BY <4>1, <4>2 DEF SlotState
    <3>2. CASE ~use_sync
      BY <1>14, <3>2 DEF Release
    <3>. QED  BY <3>1, <3>2
  <2>. QED  BY <1>12, <1>14, <2>1 DEF Release, flags
<1>15. CASE UNCHANGED vars
  BY <1>12, <1>15 DEF vars, ring, flags
<1>. QED
  BY <1>2, <1>3, <1>4, <1>6, <1>7, <1>8, <1>9, <1>10, <1>11, <1>13, <1>14, <1>15 DEF Next

(* Every frame shows the scene, for any number of slots, although a slot   *)
(* is drawn only where the record says that it differs.                    *)
THEOREM EveryFrameShowsScene == Spec => []ShowsScene
<1>1. SceneInv => ShowsScene
  BY DEF SceneInv
<1>. QED  BY <1>1, InitSceneInv, NextSceneInv, PTL DEF Spec

(* And the compositor is told of everything that changed.                  *)
THEOREM EveryChangeIsTold == Spec => []DamageCovers
<1>1. SceneInv => DamageCovers
  BY DEF SceneInv
<1>. QED  BY <1>1, InitSceneInv, NextSceneInv, PTL DEF Spec
-----------------------------------------------------------------------------
(* Why a frame that is asked for is drawn, unless it is asked for early:   *)
(* the compositor asks when it has one content left, and tells of the      *)
(* others before.                                                          *)

(* Every slot is in somebody's hands: with the compositor, on its way back, *)
(* or free.                                                                *)
Accounted(sl, sync, holds, queue) ==
  \A s \in Slot : \/ s \in Range(holds)
                  \/ sync /\ sl[s].signalled
                  \/ ~sync /\ (sl[s].released \/ s \in Range(queue))

(* The next slot is the one after the last that was drawn.                 *)
AfterLast(holds, b) == holds # << >> => b = (holds[Len(holds)] + 1) % NumSlots

(* A frame callback is committed; or it was sent, once, and after all the  *)
(* compositor had to give back unless it came early; or the frame that     *)
(* came early was dropped.                                                 *)
Awaited(asked, queue) == asked = "committed" /\ FrameDone \notin Range(queue)
OneDone(queue) ==
  \E k \in DOMAIN queue : /\ queue[k] = FrameDone
                          /\ \A j \in DOMAIN queue : queue[j] = FrameDone => j = k
Sent(asked, holds, queue, hasty) ==
  /\ asked = "sent" /\ OneDone(queue)
  /\ ~hasty => Len(holds) <= 1 /\ queue[Len(queue)] = FrameDone
Dropped(asked, queue, hasty) ==
  hasty /\ asked = "requested" /\ FrameDone \notin Range(queue)

Coming(asked, holds, queue, hasty) ==
  \/ Awaited(asked, queue)
  \/ Sent(asked, holds, queue, hasty)
  \/ Dropped(asked, queue, hasty)

Unstarted ==
  slots = Fresh /\ back = 0 /\ held = << >> /\ events = << >> /\ callback = "none"

FrameInv ==
  /\ TypeOK
  /\ running /\ paced = "callback" =>
       IF started
       THEN /\ Accounted(slots, use_sync, held, events) /\ AfterLast(held, back)
            /\ Coming(callback, held, events, early)
       ELSE Unstarted

LEMMA OneLeft ==
  ASSUME NEW S, NEW q \in Seq(S), q # << >>, Len(q) <= 1 \/ Tail(q) = << >>
  PROVE  Len(q) = 1 /\ q[1] \in S /\ DOMAIN q = 1..1 /\ Head(q) = q[1]
<1>1. Len(q) \in Nat /\ Len(q) # 0 /\ DOMAIN q = 1..Len(q) /\ Head(q) = q[1]
  OBVIOUS
<1>2. CASE Len(q) <= 1
  BY <1>1, <1>2
<1>3. CASE Tail(q) = << >>
  <2>1. Len(Tail(q)) = Len(q) - 1
    OBVIOUS
  <2>2. \A n \in Nat : n - 1 = Len(<< >>) => n <= 1
    OBVIOUS
  <2>3. Len(q) - 1 = Len(<< >>)
    BY <1>3, <2>1, Zenon
  <2>4. Len(q) <= 1
    BY <1>1, <2>2, <2>3, Zenon
  <2>. QED  BY <1>2, <2>4
<1>. QED  BY <1>2, <1>3

LEMMA NextIsAnother ==
  ASSUME NumSlots > 1, NEW s \in Slot
  PROVE  (s + 1) % NumSlots # s
<1>1. NumSlots \in Nat /\ s \in 0..(NumSlots - 1)
  BY NumSlotsAssumption DEF Slot
<1>2. CASE s + 1 < NumSlots
  <2>1. (s + 1) % NumSlots = s + 1
    BY <1>1, <1>2
  <2>. QED  BY <1>1, <2>1
<1>3. CASE s + 1 = NumSlots
  <2>1. NumSlots % NumSlots = 0
    BY <1>1
  <2>. QED  BY <1>1, <1>3, <2>1
<1>. QED  BY <1>1, <1>2, <1>3

(* A frame that finds its slot free is drawn and committed, another one is *)
(* dropped.                                                                *)
LEMMA PresentInTurn ==
  ASSUME TypeOK, NEW sl \in [Slot -> SlotState], NEW b \in Slot, NEW p \in Path,
         NEW full \in BOOLEAN, NEW holds \in Seq(Slot), NEW queue,
         Present(sl, b, p, full, TRUE, holds),
         Accounted(sl, p.sync, holds, queue), AfterLast(holds, b)
  PROVE  /\ Accounted(slots', p.sync, held', queue)
         /\ AfterLast(held', back')
         /\ callback' = IF Free(sl[b], p) THEN "committed" ELSE "requested"
<1>1. CASE Free(sl[b], p)
  <2>1. Draw(sl, b, p, full) /\ held' = Append(holds, b) /\ callback' = "committed"
    BY <1>1 DEF Present
  <2>2. /\ Range(held') = Range(holds) \cup {b}
        /\ held'[Len(holds) + 1] = b /\ Len(held') = Len(holds) + 1
    BY <2>1, AppendFacts
  <2>3. \A s \in Slot : s # b =>
          slots'[s].released = sl[s].released /\ slots'[s].signalled = sl[s].signalled
    BY <2>1, NotDrawnType DEF Draw
  <2>4. Accounted(slots', p.sync, held', queue)
    BY <2>2, <2>3 DEF Accounted
  <2>5. AfterLast(held', back')
    BY <2>1, <2>2 DEF Draw, AfterLast
  <2>. QED  BY <1>1, <2>1, <2>4, <2>5
<1>2. CASE ~Free(sl[b], p)
  BY <1>2 DEF Present, DropFrame
<1>. QED  BY <1>1, <1>2

(* Once all that was given back is known, only the last content is held.   *)
LEMMA FreeInTurn ==
  ASSUME TypeOK, NumSlots > 1, Len(held) <= 1, AfterLast(held, back),
         Accounted(slots, use_sync, held, << >>)
  PROVE  Free(slots[back], [modifier |-> use_modifier, sync |-> use_sync])
<1>1. back \in Slot /\ held \in Seq(Slot)
  BY DEF TypeOK
<1>2. back \notin Range(held)
  <2>1. CASE held = << >>
    BY <2>1 DEF Range
  <2>2. CASE held # << >>
    <3>1. Len(held) = 1 /\ held[1] \in Slot
      BY <1>1, <2>2, OneLeft
    <3>2. back = (held[1] + 1) % NumSlots
      BY <2>2, <3>1 DEF AfterLast
    <3>3. back # held[1]
      BY <3>1, <3>2, NextIsAnother
    <3>. QED  BY <1>1, <3>1, <3>3 DEF Range
  <2>. QED  BY <2>1, <2>2
<1>. QED  BY <1>1, <1>2 DEF Accounted, Free, Range

LEMMA RenderInTurn ==
  ASSUME TypeOK, NEW queue, FrameDone \notin Range(queue),
         Accounted(slots, use_sync, held, queue), AfterLast(held, back),
         RenderFrame(TRUE, queue), running'
  PROVE  /\ Accounted(slots', use_sync', held', events') /\ AfterLast(held', back')
         /\ FrameDone \notin Range(events')
         /\ \/ callback' = "committed"
            \/ /\ callback' = "requested"
               /\ ~Free(slots[back], [modifier |-> use_modifier, sync |-> use_sync])
<1>1. ASSUME Remade(TRUE, queue)
      PROVE  /\ Accounted(slots', use_sync', held', events') /\ AfterLast(held', back')
             /\ FrameDone \notin Range(events') /\ callback' = "committed"
  <2>1. PICK p \in PathFor(use_sync) :
          /\ use_modifier' = p.modifier /\ use_sync' = p.sync
          /\ Present(Fresh, 0, p, TRUE, TRUE, << >>)
    BY <1>1 DEF Remade
  <2>2. p \in Path
    BY PathTypes
  <2>3. 0 \in Slot /\ << >> \in Seq(Slot)
    BY NumSlotsAssumption DEF Slot
  <2>4. Free(Fresh[0], p) /\ Accounted(Fresh, p.sync, << >>, << >>) /\ AfterLast(<< >>, 0)
    BY <2>2, <2>3, FreshType DEF Free, Accounted, Path, AfterLast
  <2>5. events' = << >>
    BY <1>1 DEF Remade, StillHeard
  <2>6. /\ Accounted(slots', p.sync, held', << >>) /\ AfterLast(held', back')
        /\ callback' = "committed"
    BY <2>1, <2>2, <2>3, <2>4, FreshType, PresentInTurn
  <2>. QED  BY <2>1, <2>5, <2>6 DEF Range
<1>2. ASSUME NotRemade(TRUE, queue)
      PROVE  FALSE
  BY <1>2 DEF NotRemade
<1>3. ASSUME SameRing(TRUE, queue)
      PROVE  /\ Accounted(slots', use_sync', held', events') /\ AfterLast(held', back')
             /\ FrameDone \notin Range(events')
             /\ callback' = IF Free(slots[back],
                                    [modifier |-> use_modifier, sync |-> use_sync])
                            THEN "committed" ELSE "requested"
  <2>. DEFINE p == [modifier |-> use_modifier, sync |-> use_sync]
  <2>1. p \in Path /\ p.sync = use_sync
    BY DEF TypeOK, Path
  <2>2. Present(slots, back, p, full_damage, TRUE, held)
    BY <1>3 DEF SameRing
  <2>3. use_sync' = use_sync /\ events' = queue
    BY <1>3 DEF SameRing
  <2>. SUFFICES /\ Accounted(slots', use_sync', held', events') /\ AfterLast(held', back')
                /\ FrameDone \notin Range(events')
                /\ callback' = IF Free(slots[back], p) THEN "committed" ELSE "requested"
    OBVIOUS
  <2>. HIDE DEF p
  <2>5. /\ slots \in [Slot -> SlotState] /\ back \in Slot /\ held \in Seq(Slot)
        /\ full_damage \in BOOLEAN
    BY DEF TypeOK
  <2>6. Accounted(slots, p.sync, held, queue)
    BY <2>1
  <2>7. /\ Accounted(slots', p.sync, held', queue) /\ AfterLast(held', back')
        /\ callback' = IF Free(slots[back], p) THEN "committed" ELSE "requested"
    BY <2>1, <2>2, <2>5, <2>6, PresentInTurn
  <2>. QED  BY <2>1, <2>3, <2>7
<1>. QED  BY <1>1, <1>2, <1>3 DEF RenderFrame

(* The compositor lets go of a content that is not the last.               *)
LEMMA ReleaseInTurn ==
  ASSUME TypeOK, NEW i \in DOMAIN held, Release(i),
         Accounted(slots, use_sync, held, events), AfterLast(held, back)
  PROVE  /\ Accounted(slots', use_sync', held', events') /\ AfterLast(held', back')
         /\ Len(held) > 1
         /\ FrameDone \notin Range(events) => FrameDone \notin Range(events')
         /\ OneDone(events) => OneDone(events')
<1>1. /\ i \in 1..(Len(held) - 1) /\ held' = RemoveAt(held, i) /\ use_sync' = use_sync
      /\ held \in Seq(Slot) /\ i \in 1..Len(held) /\ Len(held) \in Nat
      /\ held[i] \in Slot /\ back' = back
  BY DEF Release, TypeOK
<1>2. /\ held' \in Seq(Slot) /\ DOMAIN held' = 1..(Len(held) - 1)
      /\ \A j \in 1..(Len(held) - 1) : held'[j] = IF j < i THEN held[j] ELSE held[j + 1]
  BY <1>1, RemoveFacts
<1>3. Len(held') = Len(held) - 1
  BY <1>1, <1>2
<1>4. Range(held) \subseteq Range(held') \cup {held[i]}
  <2>. SUFFICES ASSUME NEW j \in 1..Len(held), j # i
                PROVE  held[j] \in Range(held')
    BY <1>1 DEF Range
  <2>1. CASE j < i
    <3>1. j \in 1..(Len(held) - 1) /\ held'[j] = held[j]
      BY <1>1, <1>2, <2>1
    <3>. QED  BY <1>2, <3>1 DEF Range
  <2>2. CASE j > i
    <3>2. j - 1 \in 1..(Len(held) - 1) /\ ~(j - 1 < i) /\ (j - 1) + 1 = j
      BY <1>1, <2>2
    <3>1. held'[j - 1] = held[j]
      BY <1>2, <3>2
    <3>. QED  BY <1>2, <3>1, <3>2 DEF Range
  <2>. QED  BY <1>1, <2>1, <2>2
<1>5. AfterLast(held', back')
  <2>1. Len(held) - 1 \in 1..(Len(held) - 1) /\ ~(Len(held) - 1 < i)
    BY <1>1
  <2>2. held'[Len(held) - 1] = held[Len(held)]
    BY <1>1, <1>2, <2>1
  <2>. QED  BY <1>1, <1>3, <2>2 DEF AfterLast
<1>6. Len(held) > 1
  BY <1>1
<1>7. CASE use_sync
  <2>1. /\ slots' = [s \in Slot |-> IF \E j \in 1..i : held[j] = s
                                    THEN [slots[s] EXCEPT !.signalled = TRUE] ELSE slots[s]]
        /\ events' = events
    BY <1>7 DEF Release
  <2>2. \A s \in Slot : slots[s].signalled => slots'[s].signalled
    BY <2>1 DEF TypeOK, SlotState
  <2>3. slots'[held[i]].signalled
    BY <1>1, <2>1 DEF TypeOK, SlotState
  <2>. QED  BY <1>1, <1>4, <1>5, <1>6, <1>7, <2>1, <2>2, <2>3 DEF Accounted
<1>8. CASE ~use_sync
  <2>1. slots' = slots /\ events' = Append(events, held[i])
    BY <1>8 DEF Release
  <2>2. events \in Seq(Slot \cup {FrameDone}) /\ held[i] \in Slot \cup {FrameDone}
    BY <1>1 DEF TypeOK
  <2>3. Range(events') = Range(events) \cup {held[i]}
    BY <2>1, <2>2, AppendFacts
  <2>4. FrameDone # held[i]
    BY <1>1, NumSlotsAssumption DEF FrameDone, Slot
  <2>5. ASSUME OneDone(events) PROVE OneDone(events')
    <3>1. PICK k \in DOMAIN events :
            /\ events[k] = FrameDone
            /\ \A j \in DOMAIN events : events[j] = FrameDone => j = k
      BY <2>5 DEF OneDone
    <3>2. /\ DOMAIN events' = 1..(Len(events) + 1) /\ Len(events) \in Nat
          /\ DOMAIN events = 1..Len(events)
          /\ \A j \in 1..Len(events) : events'[j] = events[j]
          /\ events'[Len(events) + 1] = held[i]
      BY <2>1, <2>2, AppendFacts
    <3>3. k \in DOMAIN events' /\ events'[k] = FrameDone
      BY <3>1, <3>2
    <3>4. ASSUME NEW j \in DOMAIN events', events'[j] = FrameDone PROVE j = k
      <4>1. j # Len(events) + 1
        BY <3>2, <3>4, <2>4
      <4>2. j \in DOMAIN events /\ events'[j] = events[j]
        BY <3>2, <4>1
      <4>. QED  BY <3>1, <3>4, <4>2
    <3>. QED  BY <3>3, <3>4 DEF OneDone
  <2>. QED  BY <1>1, <1>4, <1>5, <1>6, <1>8, <2>1, <2>3, <2>4, <2>5 DEF Accounted
<1>. QED  BY <1>7, <1>8

LEMMA InitFrameInv == Init => FrameInv
BY InitTypeOK DEF Init, FrameInv, Unstarted, Fresh

LEMMA NextFrameInv ==
  ASSUME FrameInv, NumSlots > 1, [Next]_vars
  PROVE  FrameInv'
<1>1. TypeOK /\ TypeOK'
  BY NextTypeOK DEF FrameInv
<1>2. paced' = paced
  BY DEF Next, MainLoop, RunSelfPaced, OnFrameReady, OnRelease, OnButton, ToggleHud,
         OnToplevelConfigure, OnDmabufFeedback, Quit, Done, Release, Change, vars, mode
<1>. DEFINE Goal == /\ Accounted(slots', use_sync', held', events')
                    /\ AfterLast(held', back')
                    /\ Coming(callback', held', events', early')
            Now == /\ Accounted(slots, use_sync, held, events)
                   /\ AfterLast(held, back)
                   /\ Coming(callback, held, events, early)
<1>. SUFFICES ASSUME running', paced = "callback"
              PROVE  IF started' THEN Goal ELSE Unstarted'
  BY <1>1, <1>2 DEF FrameInv
<1>3. running
  BY DEF Next, MainLoop, RunSelfPaced, OnFrameReady, OnRelease, OnButton, ToggleHud,
         OnToplevelConfigure, OnDmabufFeedback, Quit, Done, Release, Change, vars, RenderFrame,
         Remade, NotRemade, SameRing
<1>4. (started => Now) /\ (~started => Unstarted)
  BY <1>3 DEF FrameInv
<1>5. /\ events \in Seq(Slot \cup {FrameDone}) /\ slots \in [Slot -> SlotState]
      /\ held \in Seq(Slot) /\ back \in Slot
  BY <1>1 DEF TypeOK
<1>. HIDE DEF Goal, Now
<1>6. CASE MainLoop
  <2>1. Unstarted /\ started' /\ RenderFrame(TRUE, << >>)
    BY <1>4, <1>6 DEF MainLoop, Unstarted
  <2>2. /\ Free(slots[back], [modifier |-> use_modifier, sync |-> use_sync])
        /\ Accounted(slots, use_sync, held, << >>) /\ AfterLast(held, back)
    BY <1>1, <1>5, <2>1, FreshType DEF Unstarted, Free, Accounted, AfterLast, TypeOK
  <2>3. FrameDone \notin Range(<< >>)
    BY DEF Range
  <2>4. /\ Accounted(slots', use_sync', held', events') /\ AfterLast(held', back')
        /\ FrameDone \notin Range(events') /\ callback' = "committed"
    BY <1>1, <2>1, <2>2, <2>3, RenderInTurn
  <2>. QED  BY <2>1, <2>4 DEF Goal, Coming, Awaited
<1>7. CASE RunSelfPaced
  BY <1>7 DEF RunSelfPaced
<1>8. CASE OnFrameReady
  <2>1. /\ started /\ events # << >> /\ Head(events) = FrameDone
        /\ RenderFrame(TRUE, Tail(events)) /\ started' /\ early' = early
    BY <1>8 DEF OnFrameReady
  <2>2. FrameDone \in Range(events)
    BY <1>5, <2>1, TailFacts DEF Range
  <2>3. Sent(callback, held, events, early)
    BY <1>4, <2>1, <2>2 DEF Now, Coming, Awaited, Dropped
  <2>4. FrameDone \notin Range(Tail(events))
    <3>1. events[1] = FrameDone /\ 1 \in DOMAIN events
      BY <1>5, <2>1, TailFacts
    <3>2. \A j \in DOMAIN events : events[j] = FrameDone => j = 1
      BY <2>3, <3>1 DEF Sent, OneDone
    <3>3. /\ DOMAIN Tail(events) = 1..(Len(events) - 1) /\ Len(events) \in Nat
          /\ \A i \in 1..(Len(events) - 1) : Tail(events)[i] = events[i + 1]
      BY <1>5, <2>1, TailFacts
    <3>4. ASSUME NEW i \in 1..(Len(events) - 1) PROVE Tail(events)[i] # FrameDone
      <4>1. i + 1 \in DOMAIN events /\ i + 1 # 1
        BY <1>5, <3>3
      <4>. QED  BY <3>2, <3>3, <4>1
    <3>. QED  BY <3>3, <3>4 DEF Range
  <2>5. Accounted(slots, use_sync, held, Tail(events)) /\ AfterLast(held, back)
    <3>1. Range(events) \subseteq Range(Tail(events)) \cup {FrameDone}
      BY <1>5, <2>1, RangeOfTail
    <3>2. FrameDone \notin Slot
      BY NumSlotsAssumption DEF FrameDone, Slot
    <3>. QED  BY <1>4, <2>1, <3>1, <3>2 DEF Now, Accounted
  <2>6. /\ Accounted(slots', use_sync', held', events') /\ AfterLast(held', back')
        /\ FrameDone \notin Range(events')
        /\ \/ callback' = "committed"
           \/ /\ callback' = "requested"
              /\ ~Free(slots[back], [modifier |-> use_modifier, sync |-> use_sync])
    BY <1>1, <2>1, <2>4, <2>5, RenderInTurn
  <2>7. ASSUME ~early
        PROVE  Free(slots[back], [modifier |-> use_modifier, sync |-> use_sync])
    <3>1. Len(held) <= 1 /\ events[Len(events)] = FrameDone
      BY <2>3, <2>7 DEF Sent
    <3>2. Tail(events) = << >>
      <4>1. Len(events) \in Nat /\ Len(events) # 0
        BY <1>5, <2>1
      <4>2. /\ DOMAIN Tail(events) = 1..(Len(events) - 1) /\ Len(Tail(events)) = Len(events) - 1
            /\ \A i \in 1..(Len(events) - 1) : Tail(events)[i] = events[i + 1]
        BY <1>5, <2>1, TailFacts
      <4>3. CASE Len(events) = 1
        BY <1>5, <2>1, <4>2, <4>3
      <4>4. CASE Len(events) > 1
        <5>1. Len(events) - 1 \in 1..(Len(events) - 1) /\ (Len(events) - 1) + 1 = Len(events)
          BY <4>1, <4>4
        <5>2. Tail(events)[Len(events) - 1] = FrameDone
          BY <3>1, <4>2, <5>1
        <5>. QED  BY <2>4, <4>2, <5>1, <5>2 DEF Range
      <4>. QED  BY <4>1, <4>3, <4>4
    <3>3. Accounted(slots, use_sync, held, << >>)
      BY <2>5, <3>2
    <3>. QED  BY <1>1, <2>5, <3>1, <3>3, FreeInTurn
  <2>8. Coming(callback', held', events', early')
    BY <2>1, <2>6, <2>7 DEF Coming, Awaited, Dropped
  <2>. QED  BY <2>1, <2>6, <2>8 DEF Goal
<1>9. CASE OnRelease
  <2>1. /\ started /\ events # << >> /\ Head(events) \in Slot /\ events' = Tail(events)
        /\ slots' = [slots EXCEPT ![Head(events)].released = TRUE]
        /\ use_sync' = use_sync /\ held' = held /\ back' = back /\ callback' = callback
        /\ started' /\ early' = early
    BY <1>9 DEF OnRelease
  <2>2. /\ events[1] = Head(events) /\ Len(events) \in Nat /\ DOMAIN events = 1..Len(events)
        /\ DOMAIN events' = 1..(Len(events) - 1) /\ Len(events') = Len(events) - 1
        /\ \A i \in 1..(Len(events) - 1) : events'[i] = events[i + 1]
        /\ Range(events') \subseteq Range(events)
    BY <1>5, <2>1, TailFacts
  <2>3. FrameDone # Head(events)
    BY <2>1, NumSlotsAssumption DEF FrameDone, Slot
  <2>4. Accounted(slots', use_sync', held', events')
    <3>1. \A s \in Slot : s # Head(events) => slots'[s] = slots[s]
      BY <1>5, <2>1
    <3>2. /\ slots'[Head(events)].released
          /\ slots'[Head(events)].signalled = slots[Head(events)].signalled
      BY <1>5, <2>1 DEF SlotState
    <3>3. Range(events) \subseteq Range(events') \cup {Head(events)}
      BY <1>5, <2>1, RangeOfTail
    <3>4. Accounted(slots, use_sync, held, events)
      BY <1>4, <2>1 DEF Now
    <3>. QED  BY <2>1, <3>1, <3>2, <3>3, <3>4 DEF Accounted
  <2>5. ASSUME Sent(callback, held, events, early)
        PROVE  Sent(callback', held', events', early')
    <3>1. PICK k \in DOMAIN events :
            /\ events[k] = FrameDone
            /\ \A j \in DOMAIN events : events[j] = FrameDone => j = k
      BY <2>5 DEF Sent, OneDone
    <3>2. k - 1 \in DOMAIN events' /\ (k - 1) + 1 = k
      BY <2>2, <2>3, <3>1
    <3>3. events'[k - 1] = FrameDone
      BY <2>2, <3>1, <3>2
    <3>4. ASSUME NEW j \in DOMAIN events', events'[j] = FrameDone PROVE j = k - 1
      <4>1. j + 1 \in DOMAIN events /\ events[j + 1] = FrameDone /\ j \in Int
        BY <2>2, <3>4
      <4>. QED  BY <2>2, <3>1, <4>1
    <3>5. OneDone(events')
      BY <3>2, <3>3, <3>4 DEF OneDone
    <3>6. ASSUME ~early PROVE events'[Len(events')] = FrameDone
      <4>1. events[Len(events)] = FrameDone /\ Len(events) \in DOMAIN events
        BY <1>5, <2>1, <2>2, <2>5, <3>6 DEF Sent
      <4>2. k = Len(events)
        BY <3>1, <4>1
      <4>. QED  BY <2>2, <3>3, <4>2
    <3>. QED  BY <2>1, <2>5, <3>5, <3>6 DEF Sent
  <2>6. Coming(callback', held', events', early')
    BY <1>4, <2>1, <2>2, <2>5 DEF Coming, Awaited, Dropped, Now
  <2>. QED  BY <1>4, <2>1, <2>4, <2>6 DEF Now, Goal
<1>10. ASSUME NEW r \in Regions, Change(r), started
       PROVE  Goal /\ started'
  <2>1. \A s \in Slot : /\ slots'[s].released = slots[s].released
                        /\ slots'[s].signalled = slots[s].signalled
    BY <1>5, <1>10 DEF Change, SlotState
  <2>2. /\ use_sync' = use_sync /\ held' = held /\ events' = events /\ back' = back
        /\ callback' = callback /\ started' = started /\ early' = early
    BY <1>10 DEF Change
  <2>. QED  BY <1>4, <1>10, <2>1, <2>2 DEF Accounted, Goal, Now
<1>11. CASE OnButton \/ ToggleHud \/ OnToplevelConfigure
  BY <1>10, <1>11 DEF OnButton, ToggleHud, OnToplevelConfigure, Regions
<1>12. CASE OnDmabufFeedback
  BY <1>4, <1>12 DEF OnDmabufFeedback, ring, Now, Goal
<1>13. CASE Quit
  BY <1>13 DEF Quit
<1>14. CASE Done
  <2>1. /\ events' = Append(events, FrameDone) /\ callback' = "sent" /\ callback = "committed"
        /\ slots' = slots /\ use_sync' = use_sync /\ held' = held /\ back' = back
        /\ early' = (Len(held) > 1) /\ started' = started
    BY <1>14 DEF Done, ring
  <2>2. started
    BY <1>4, <2>1 DEF Unstarted
  <2>3. Accounted(slots, use_sync, held, events) /\ AfterLast(held, back)
    BY <1>4, <2>2 DEF Now
  <2>4. FrameDone \notin Range(events)
    BY <1>4, <2>1, <2>2 DEF Now, Coming, Awaited, Sent, Dropped
  <2>5. /\ Len(events') = Len(events) + 1 /\ Len(events) \in Nat
        /\ DOMAIN events' = 1..(Len(events) + 1) /\ DOMAIN events = 1..Len(events)
        /\ \A j \in 1..Len(events) : events'[j] = events[j]
        /\ events'[Len(events) + 1] = FrameDone
        /\ Range(events') = Range(events) \cup {FrameDone}
    BY <1>5, <2>1, AppendFacts
  <2>6. OneDone(events')
    <3>1. \A j \in 1..Len(events) : events'[j] # FrameDone
      BY <1>5, <2>4, <2>5 DEF Range
    <3>2. \A j \in DOMAIN events' : events'[j] = FrameDone => j = Len(events) + 1
      BY <2>5, <3>1
    <3>3. Len(events) + 1 \in DOMAIN events'
      BY <2>5
    <3>. QED  BY <2>5, <3>2, <3>3 DEF OneDone
  <2>7. ASSUME ~early' PROVE Len(held') <= 1 /\ events'[Len(events')] = FrameDone
    <3>1. ~(Len(held) > 1)
      BY <2>1, <2>7, Zenon
    <3>2. Len(held) \in Nat
      BY <1>5
    <3>3. Len(held) <= 1
      BY <3>1, <3>2
    <3>4. events'[Len(events')] = FrameDone
      BY <2>5
    <3>. QED  BY <2>1, <3>3, <3>4
  <2>8. Accounted(slots', use_sync', held', events') /\ AfterLast(held', back')
    BY <2>1, <2>3, <2>5 DEF Accounted
  <2>. QED  BY <2>1, <2>2, <2>6, <2>7, <2>8 DEF Goal, Coming, Sent
<1>15. ASSUME NEW i \in DOMAIN held, Release(i)
       PROVE  Goal /\ started'
  <2>1. started /\ started' /\ callback' = callback /\ early' = early
    BY <1>4, <1>5, <1>15 DEF Unstarted, Release
  <2>2. /\ Accounted(slots', use_sync', held', events') /\ AfterLast(held', back')
        /\ Len(held) > 1
        /\ FrameDone \notin Range(events) => FrameDone \notin Range(events')
        /\ OneDone(events) => OneDone(events')
    BY <1>1, <1>4, <1>15, <2>1, ReleaseInTurn DEF Now
  <2>3. Coming(callback, held, events, early) /\ Len(held) \in Nat
    BY <1>4, <1>5, <2>1 DEF Now
  <2>4. Coming(callback', held', events', early')
    BY <2>1, <2>2, <2>3 DEF Coming, Awaited, Sent, Dropped
  <2>. QED  BY <2>1, <2>2, <2>4 DEF Goal
<1>16. CASE UNCHANGED vars
  BY <1>4, <1>16 DEF vars, ring, Now, Goal, Unstarted
<1>. QED
  BY <1>6, <1>7, <1>8, <1>9, <1>10, <1>11, <1>12, <1>13, <1>14, <1>15, <1>16 DEF Next

(* With two slots or more, and whatever the compositor does, the program   *)
(* waits for a callback that was requested and not committed only when the *)
(* compositor asked for the frame early.                                   *)
THEOREM FrameComes ==
  ASSUME NumSlots > 1
  PROVE  Spec => []FrameOnItsWay
<1>1. FrameInv => FrameOnItsWay
  BY DEF FrameInv, FrameOnItsWay, Coming, Awaited, Sent, Dropped, OneDone, Range
<1>2. FrameInv /\ [Next]_vars => FrameInv'
  BY NextFrameInv
<1>. QED  BY <1>1, <1>2, InitFrameInv, PTL DEF Spec
=============================================================================
