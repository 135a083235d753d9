------------------------- MODULE Presentation_proofs -------------------------
(***************************************************************************)
(* The pool of presentation feedback implements the set of outstanding     *)
(* frames of Feedback, for any number of slots and of frames: an answer is *)
(* reported under the frame it was asked for, and only once, although the  *)
(* slots are reused while late answers are under way.                      *)
(***************************************************************************)
EXTENDS Presentation, SequenceTheorems, FiniteSetTheorems, WellFoundedInduction, TLAPS

EventSet == [object : Frames \cup {Null},
             kind : {"clock_id", "presented", "overflow", "discarded"}]

(* Slots that are not free and objects that are not destroyed correspond.  *)
Owned(pool, h) ==
  /\ \A i \in Slots :
       IF pool[i].state = "Free" THEN pool[i].proxy = Null
       ELSE pool[i].frame \in Frames /\ pool[i].proxy = pool[i].frame /\ h[pool[i].frame] = i
  /\ \A p \in Frames : h[p] # Null => pool[h[p]].state # "Free" /\ pool[h[p]].frame = p

(* The answers under way are to different frames that are not resolved.    *)
NotAnsweredTwice(q, waiting, answered) ==
  /\ \A i \in DOMAIN q : q[i].kind # "clock_id" => q[i].object \in Frames \ (waiting \cup answered)
  /\ \A i, j \in DOMAIN q :
       q[i].kind # "clock_id" /\ q[j].kind # "clock_id" /\ q[i].object = q[j].object => i = j
  /\ waiting \cap answered = {}

(* Nothing is known of a frame that is not committed yet.                  *)
NothingAhead(pool, q, waiting, answered, n) ==
  /\ waiting \cup answered \subseteq 1..n
  /\ \A i \in DOMAIN q : q[i].kind # "clock_id" => q[i].object \in 1..n
  /\ \A i \in Slots : pool[i].state # "Free" => pool[i].frame \in 1..n

(* A slot waits until its frame is resolved.                               *)
SlotsInStep(pool, answered) ==
  \A i \in Slots : /\ pool[i].state = "Live" => pool[i].frame \notin answered
                   /\ pool[i].state = "Done" => pool[i].frame \in answered

IInv ==
  /\ TypeOK
  /\ Owned(slots, handler)
  /\ NotAnsweredTwice(events, asked, resolved)
  /\ NothingAhead(slots, events, asked, resolved, frame)
  /\ SlotsInStep(slots, resolved)
  /\ DropsOnlyWhenFull
-----------------------------------------------------------------------------
LEMMA LeastExists ==
  ASSUME NEW n \in Nat, NEW T \in SUBSET (1..n), T # {}
  PROVE  \E x \in T : \A y \in T : x <= y
<1>. DEFINE Below(x) == {y \in 1..n : y <= x}
            U == {Below(x) : x \in T}
<1>1. IsWellFoundedOn(StrictSubsetOrdering(1..n), SUBSET (1..n))
  <2>1. IsFiniteSet(1..n)
    BY FS_Interval
  <2>2. FiniteSubsetsOf(1..n) = SUBSET (1..n)
    BY <2>1, FS_FiniteSubsetsOfFinite
  <2>. QED  BY <2>2, FS_StrictSubsetOrderingWellFounded
<1>2. U \subseteq SUBSET (1..n) /\ U # {}
  OBVIOUS
<1>3. PICK B \in U : \A C \in U : <<C, B>> \notin StrictSubsetOrdering(1..n)
  <2>. HIDE DEF U
  <2>. QED  BY <1>1, <1>2, WFMin
<1>4. PICK x \in T : B = Below(x)
  BY <1>3
<1>5. ASSUME NEW y \in T, y < x PROVE FALSE
  <2>1. Below(y) \subseteq Below(x) /\ x \in Below(x) /\ x \notin Below(y)
    BY <1>5
  <2>2. Below(y) \in U /\ Below(y) \subseteq 1..n /\ Below(x) \subseteq 1..n
    OBVIOUS
  <2>3. <<Below(y), Below(x)>> \in StrictSubsetOrdering(1..n)
    BY <2>1, <2>2 DEF StrictSubsetOrdering
  <2>. QED  BY <1>3, <1>4, <2>2, <2>3
<1>. QED  BY <1>5

(* The first free slot is found if there is one.                           *)
LEMMA FreeFound ==
  ASSUME NEW pool, FreeSlot(pool) = {}
  PROVE  \A i \in Slots : pool[i].state # "Free"
<1>. DEFINE T == {i \in Slots : pool[i].state = "Free"}
<1>. SUFFICES ASSUME T # {} PROVE FALSE
  OBVIOUS
<1>1. T \in SUBSET (1..MaxInFlight) /\ MaxInFlight \in Nat
  BY PoolAssumption DEF Slots
<1>. HIDE DEF T
<1>2. PICK x \in T : \A y \in T : x <= y
  BY <1>1, LeastExists
<1>3. x \in Slots /\ pool[x].state = "Free"
  BY DEF T
<1>4. \A j \in 1..(x - 1) : pool[j].state # "Free"
  BY <1>1, <1>2 DEF T, Slots
<1>. QED  BY <1>3, <1>4 DEF FreeSlot

(* The frames that a pool waits for; each has a slot of its own.           *)
LiveIn(pool) == {pool[i].frame : i \in {j \in Slots : pool[j].state = "Live"}}

LEMMA LiveCounted ==
  ASSUME NEW pool, NEW h, Owned(pool, h)
  PROVE  /\ IsFiniteSet(LiveIn(pool)) /\ Cardinality(LiveIn(pool)) \in Nat
         /\ (\E i \in Slots : pool[i].state # "Live") => Cardinality(LiveIn(pool)) < MaxInFlight
         /\ (\A i \in Slots : pool[i].state = "Live") => Cardinality(LiveIn(pool)) = MaxInFlight
<1>. DEFINE L == {j \in Slots : pool[j].state = "Live"}
            g == [i \in L |-> pool[i].frame]
<1>1. IsFiniteSet(Slots) /\ Cardinality(Slots) = MaxInFlight
  BY FS_Interval, PoolAssumption DEF Slots
<1>2. /\ IsFiniteSet(L) /\ Cardinality(L) \in Nat /\ Cardinality(L) <= MaxInFlight
      /\ L # Slots => Cardinality(L) < MaxInFlight
  <2>1. L \in SUBSET Slots
    OBVIOUS
  <2>. QED  BY <1>1, <2>1, FS_Subset, FS_CardinalityType, PoolAssumption
<1>3. ExistsBijection(L, LiveIn(pool))
  <2>1. \A i, j \in L : pool[i].frame = pool[j].frame => i = j
    BY DEF Owned
  <2>2. g \in [L -> LiveIn(pool)] /\ \A f \in LiveIn(pool) : \E i \in L : g[i] = f
    BY DEF LiveIn
  <2>3. \A i, j \in L : g[i] = g[j] => i = j
    BY <2>1
  <2>. HIDE DEF g, L
  <2>4. g \in Injection(L, LiveIn(pool))
    <3>1. DOMAIN g = L
      BY <2>2
    <3>. QED  BY <2>2, <2>3, <3>1 DEF Injection, IsInjective
  <2>5. g \in Surjection(L, LiveIn(pool))
    BY <2>2 DEF Surjection
  <2>. QED  BY <2>4, <2>5 DEF ExistsBijection, Bijection
<1>4. IsFiniteSet(LiveIn(pool)) /\ Cardinality(LiveIn(pool)) = Cardinality(L)
  BY <1>2, <1>3, FS_Bijection
<1>. QED  BY <1>1, <1>2, <1>4

(* Reap frees what is done, and destroys its objects only.                 *)
LEMMA Reaping ==
  ASSUME TypeOK, Owned(slots, handler)
  PROVE  /\ Reap \in [Slots -> SlotSet({"Free", "Live"})]
         /\ \A i \in Slots : /\ slots[i].state = "Live" => Reap[i] = slots[i]
                             /\ slots[i].state # "Live" => Reap[i].state = "Free"
         /\ Without(Reset(Reap)) \in [Frames -> Slots \cup {Null}]
         /\ Owned(Reap, Without(Reset(Reap)))
<1>. USE DEF SlotSet
<1>. DEFINE h == Without(Reset(Reap))
<1>1. ASSUME NEW i \in Slots
      PROVE  /\ Reap[i] \in SlotSet({"Free", "Live"})
             /\ slots[i].state = "Live" => Reap[i] = slots[i]
             /\ slots[i].state # "Live" => Reap[i].state = "Free" /\ Reap[i].proxy = Null
  <2>1. slots[i] \in SlotSet({"Free", "Live", "Done"})
    BY DEF TypeOK
  <2>2. Reap[i] = Reaped(slots[i])
    BY DEF Reap
  <2>3. slots[i].state = "Free" => slots[i].proxy = Null
    BY DEF Owned
  <2>. QED  BY <2>1, <2>2, <2>3 DEF Reaped, Null
<1>2. Reap \in [Slots -> SlotSet({"Free", "Live"})]
  BY <1>1 DEF Reap
<1>3. \A p \in Frames : h[p] = IF \E i \in Slots : slots[i].state # "Live" /\ slots[i].proxy = p
                               THEN Null ELSE handler[p]
  <2>. SUFFICES ASSUME NEW p \in Frames
                PROVE  p \in Reset(Reap)
                         <=> \E i \in Slots : slots[i].state # "Live" /\ slots[i].proxy = p
    BY DEF Without
  <2>1. \A i \in Slots : slots[i].state = "Live" => slots[i].proxy \in Frames
    BY DEF Owned, TypeOK
  <2>2. Null \notin Frames
    BY DEF Null, Frames
  <2>3. \A i \in Slots : Reap[i].proxy = Null <=> slots[i].state # "Live"
    BY <1>1, <2>1, <2>2
  <2>. QED  BY <2>3 DEF Reset
<1>4. h \in [Frames -> Slots \cup {Null}]
  BY DEF TypeOK, Without
<1>5. Owned(Reap, h)
  <2>1. ASSUME NEW i \in Slots
        PROVE  IF Reap[i].state = "Free" THEN Reap[i].proxy = Null
               ELSE /\ Reap[i].frame \in Frames /\ Reap[i].proxy = Reap[i].frame
                    /\ h[Reap[i].frame] = i
    <3>1. CASE slots[i].state # "Live"
      BY <1>1, <3>1
    <3>2. CASE slots[i].state = "Live"
      <4>1. Reap[i] = slots[i] /\ Reap[i].state # "Free"
        BY <1>1, <3>2
      <4>2. /\ slots[i].frame \in Frames /\ slots[i].proxy = slots[i].frame
            /\ handler[slots[i].frame] = i
        BY <3>2 DEF Owned
      <4>3. \A j \in Slots : slots[j].state # "Live" => slots[j].proxy # slots[i].frame
        BY <3>2, <4>2 DEF Owned, Null, Frames
      <4>. QED  BY <1>3, <4>1, <4>2, <4>3
    <3>. QED  BY <3>1, <3>2
  <2>2. ASSUME NEW p \in Frames, h[p] # Null
        PROVE  Reap[h[p]].state # "Free" /\ Reap[h[p]].frame = p
    <3>1. h[p] = handler[p] /\ handler[p] \in Slots
          /\ \A i \in Slots : slots[i].state # "Live" => slots[i].proxy # p
      BY <1>3, <2>2 DEF TypeOK
    <3>2. slots[h[p]].state # "Free" /\ slots[h[p]].frame = p /\ slots[h[p]].proxy = p
      BY <3>1, <2>2 DEF Owned
    <3>3. slots[h[p]].state = "Live"
      BY <3>1, <3>2
    <3>. QED  BY <1>1, <3>1, <3>2, <3>3
  <2>. QED  BY <2>1, <2>2 DEF Owned
<1>. QED  BY <1>1, <1>2, <1>4, <1>5

(* A slot of a pool that is not free for the next frame.                   *)
LEMMA Arming ==
  ASSUME NEW pool \in [Slots -> SlotSet({"Free", "Live"})],
         NEW h \in [Frames -> Slots \cup {Null}], Owned(pool, h),
         NEW i \in Slots, pool[i].state = "Free",
         NEW f \in Frames, h[f] = Null, NEW c \in Clocks
  PROVE  Owned([pool EXCEPT ![i] = Slot("Live", f, f, c)], [h EXCEPT ![f] = i])
<1>. USE DEF SlotSet
<1>. DEFINE pool2 == [pool EXCEPT ![i] = Slot("Live", f, f, c)]
            h2 == [h EXCEPT ![f] = i]
<1>1. /\ pool2[i] = Slot("Live", f, f, c) /\ h2[f] = i
      /\ \A j \in Slots \ {i} : pool2[j] = pool[j]
      /\ \A p \in Frames \ {f} : h2[p] = h[p]
  OBVIOUS
<1>2. Slot("Live", f, f, c).state # "Free" /\ Slot("Live", f, f, c).frame = f
      /\ Slot("Live", f, f, c).proxy = f
  BY DEF Slot
<1>. HIDE DEF pool2, h2
<1>3. ASSUME NEW j \in Slots
      PROVE  IF pool2[j].state = "Free" THEN pool2[j].proxy = Null
             ELSE pool2[j].frame \in Frames /\ pool2[j].proxy = pool2[j].frame
                  /\ h2[pool2[j].frame] = j
  <2>1. CASE j = i
    BY <1>1, <1>2, <2>1
  <2>2. CASE j # i
    <3>1. pool[j].state # "Free" => pool[j].frame # f
      BY DEF Owned, Null, Slots
    <3>. QED  BY <1>1, <2>2, <3>1 DEF Owned
  <2>. QED  BY <2>1, <2>2
<1>4. ASSUME NEW p \in Frames, h2[p] # Null
      PROVE  pool2[h2[p]].state # "Free" /\ pool2[h2[p]].frame = p
  <2>1. CASE p = f
    BY <1>1, <1>2, <2>1
  <2>2. CASE p # f
    <3>1. h2[p] = h[p] /\ h[p] \in Slots
      BY <1>1, <1>4, <2>2
    <3>2. pool[h[p]].state # "Free" /\ pool[h[p]].frame = p
      BY <1>4, <3>1 DEF Owned
    <3>. QED  BY <1>1, <3>1, <3>2
  <2>. QED  BY <2>1, <2>2
<1>. QED  BY <1>3, <1>4 DEF Owned, pool2, h2
-----------------------------------------------------------------------------
LEMMA InitIInv == Init => IInv
<1>. USE DEF SlotSet
<1>. SUFFICES ASSUME Init PROVE IInv
  OBVIOUS
<1>1. TypeOK
  <2>1. events \in Seq(EventSet)
    BY EmptySeq DEF Init
  <2>2. slots \in [Slots -> SlotSet({"Free", "Live", "Done"})]
    BY DEF Init, Slot, Clocks
  <2>3. handler \in [Frames -> Slots \cup {Null}]
    BY DEF Init
  <2>4. frame \in 0..MaxFrames /\ resolved \subseteq Frames /\ asked \subseteq Frames
    BY PoolAssumption DEF Init
  <2>5. report \subseteq [frame : Frames, kind : {"presented", "discarded"}, commit : Clocks]
    BY DEF Init
  <2>6. bound \in BOOLEAN /\ dropped \in BOOLEAN /\ clk \in Clocks /\ clock \in Clocks
        /\ hook \in Frames \cup {Null}
    BY DEF Init, Clocks
  <2>. QED  BY <2>1, <2>2, <2>3, <2>4, <2>5, <2>6 DEF TypeOK, EventSet
<1>2. Owned(slots, handler)
  BY DEF Init, Owned, Slot, Null
<1>3. NotAnsweredTwice(events, asked, resolved) /\ DropsOnlyWhenFull
  BY DEF Init, NotAnsweredTwice, DropsOnlyWhenFull
<1>4. NothingAhead(slots, events, asked, resolved, frame) /\ SlotsInStep(slots, resolved)
  BY DEF Init, NothingAhead, SlotsInStep, Slot
<1>. QED  BY <1>1, <1>2, <1>3, <1>4 DEF IInv

LEMMA SameCardinality == \A S : F!Cardinality(S) = Cardinality(S)
BY DEF F!Cardinality, Cardinality

(* Arm: what it does to the pool, and what Feedback makes of it.           *)
LEMMA ArmStep ==
  ASSUME IInv, Arm
  PROVE  IInv' /\ [F!Next]_(F!vars)
<1>. USE DEF SlotSet
<1>. DEFINE h == Without(Reset(Reap))
            f == frame + 1
<1>1. TypeOK /\ Owned(slots, handler)
  BY DEF IInv
<1>2. /\ Reap \in [Slots -> SlotSet({"Free", "Live"})]
      /\ \A i \in Slots : /\ slots[i].state = "Live" => Reap[i] = slots[i]
                          /\ slots[i].state # "Live" => Reap[i].state = "Free"
      /\ h \in [Frames -> Slots \cup {Null}]
      /\ Owned(Reap, h)
  BY <1>1, Reaping
<1>3. f \in Frames /\ f \notin 1..frame /\ frame \in Nat /\ 1..frame \subseteq 1..f
  BY PoolAssumption DEF Arm, TypeOK, IInv, Frames
<1>4. /\ frame' = f
      /\ UNCHANGED <<bound, clk, hook, report, resolved, clock, events>>
  BY DEF Arm
<1>5. Outstanding = LiveIn(slots) /\ Outstanding' = LiveIn(slots')
  BY DEF Outstanding, LiveIn
<1>6. LiveIn(Reap) = LiveIn(slots)
  <2>1. \A i \in Slots : /\ Reap[i].state = "Live" <=> slots[i].state = "Live"
                         /\ slots[i].state = "Live" => Reap[i].frame = slots[i].frame
    BY <1>2
  <2>. QED  BY <2>1 DEF LiveIn
<1>7. \A i \in Slots : \/ Reap[i].state = "Free"
                       \/ Reap[i].state = "Live" /\ slots[i].state = "Live" /\ Reap[i] = slots[i]
  BY <1>2
<1>. HIDE DEF f, h
<1>8. ASSUME slots' \in [Slots -> SlotSet({"Free", "Live", "Done"})],
             handler' \in [Frames -> Slots \cup {Null}], Owned(slots', handler'),
             asked' \in {asked, asked \cup {f}},
             \A i \in Slots : \/ slots'[i] = slots[i]
                              \/ slots'[i].state = "Free"
                              \/ slots'[i].state = "Live" /\ slots'[i].frame = f,
             dropped' \in BOOLEAN, DropsOnlyWhenFull'
      PROVE  IInv'
  <2>1. TypeOK'
    <3>1. asked' \subseteq Frames /\ frame' \in 0..MaxFrames
      BY <1>1, <1>3, <1>4, <1>8 DEF TypeOK, Frames
    <3>. QED  BY <1>1, <1>4, <1>8, <3>1 DEF TypeOK
  <2>2. /\ asked \cup resolved \subseteq 1..frame
        /\ \A i \in DOMAIN events : events[i].kind # "clock_id" => events[i].object \in 1..frame
        /\ \A i \in Slots : slots[i].state # "Free" => slots[i].frame \in 1..frame
    BY DEF IInv, NothingAhead
  <2>3. NotAnsweredTwice(events, asked', resolved)
    <3>1. NotAnsweredTwice(events, asked, resolved)
      BY DEF IInv
    <3>2. f \notin resolved /\ \A i \in DOMAIN events :
                                 events[i].kind # "clock_id" => events[i].object # f
      BY <1>3, <2>2
    <3>. QED  BY <1>8, <3>1, <3>2 DEF NotAnsweredTwice
  <2>4. NothingAhead(slots', events, asked', resolved, f)
    <3>1. f \in 1..f
      BY <1>3 DEF Frames
    <3>. QED  BY <1>3, <1>8, <2>2, <3>1 DEF NothingAhead
  <2>5. SlotsInStep(slots', resolved)
    BY <1>3, <1>8, <2>2 DEF IInv, SlotsInStep
  <2>. QED  BY <1>4, <1>8, <2>1, <2>3, <2>4, <2>5 DEF IInv
<1>9. CASE UNCHANGED <<slots, handler, asked>> /\ dropped' = FALSE
  <2>1. IInv'
    <3>1. slots' \in [Slots -> SlotSet({"Free", "Live", "Done"})]
          /\ handler' \in [Frames -> Slots \cup {Null}] /\ Owned(slots', handler')
      BY <1>1, <1>9 DEF TypeOK
    <3>2. dropped' \in BOOLEAN /\ DropsOnlyWhenFull'
      BY <1>9 DEF DropsOnlyWhenFull
    <3>3. asked' \in {asked, asked \cup {f}} /\ \A i \in Slots : slots'[i] = slots[i]
      BY <1>9
    <3>. QED  BY <1>8, <3>1, <3>2, <3>3, Zenon
  <2>2. UNCHANGED F!vars
    BY <1>4, <1>5, <1>9 DEF F!vars
  <2>. QED  BY <2>1, <2>2
<1>10. CASE /\ slots' = Reap /\ handler' = h /\ asked' = asked /\ dropped' \in BOOLEAN
            /\ dropped' => FreeSlot(Reap) = {}
  <2>1. DropsOnlyWhenFull'
    <3>. SUFFICES ASSUME FreeSlot(Reap) = {}
                  PROVE  Cardinality(LiveIn(Reap)) = MaxInFlight
      BY <1>5, <1>10 DEF DropsOnlyWhenFull
    <3>1. \A i \in Slots : Reap[i].state # "Free"
      BY FreeFound
    <3>2. \A i \in Slots : Reap[i].state = "Live"
      BY <1>7, <3>1
    <3>. QED  BY <1>2, <3>2, LiveCounted
  <2>2. IInv'
    <3>1. slots' \in [Slots -> SlotSet({"Free", "Live", "Done"})]
      BY <1>2, <1>10
    <3>2. /\ asked' \in {asked, asked \cup {f}} /\ dropped' \in BOOLEAN
          /\ handler' \in [Frames -> Slots \cup {Null}] /\ Owned(slots', handler')
      BY <1>2, <1>10
    <3>3. \A i \in Slots : slots'[i] = slots[i] \/ slots'[i].state = "Free"
      BY <1>7, <1>10
    <3>. QED  BY <1>8, <2>1, <3>1, <3>2, <3>3, Zenon
  <2>3. UNCHANGED F!vars
    BY <1>4, <1>5, <1>6, <1>10 DEF F!vars
  <2>. QED  BY <2>2, <2>3
<1>11. ASSUME NEW i \in FreeSlot(Reap), slots' = [Reap EXCEPT ![i] = Slot("Live", f, f, clk)],
              handler' = [h EXCEPT ![f] = i], asked' = asked \cup {f}, dropped' = FALSE
       PROVE  IInv' /\ [F!Next]_(F!vars)
  <2>1. i \in Slots /\ Reap[i].state = "Free" /\ clk \in Clocks
    BY <1>1 DEF FreeSlot, TypeOK
  <2>2. h[f] = Null
    <3>1. \A j \in Slots : Reap[j].state # "Free" => Reap[j].frame # f
      BY <1>3, <1>7 DEF IInv, NothingAhead
    <3>. QED  BY <1>2, <1>3, <3>1 DEF Owned
  <2>. DEFINE s == Slot("Live", f, f, clk)
  <2>3. /\ s.state = "Live" /\ s.frame = f
        /\ s \in SlotSet({"Free", "Live", "Done"})
    BY <1>3, <2>1 DEF Slot
  <2>4. Owned(slots', handler')
    BY <1>2, <1>3, <1>11, <2>1, <2>2, Arming
  <2>. HIDE DEF s
  <2>5. /\ slots'[i] = s /\ \A j \in Slots \ {i} : slots'[j] = Reap[j]
        /\ slots' \in [Slots -> SlotSet({"Free", "Live", "Done"})]
        /\ handler' \in [Frames -> Slots \cup {Null}]
    BY <1>2, <1>3, <1>11, <2>1, <2>3 DEF s
  <2>6. IInv'
    <3>1. DropsOnlyWhenFull'
      BY <1>11 DEF DropsOnlyWhenFull
    <3>2. \A j \in Slots : \/ slots'[j] = slots[j]
                           \/ slots'[j].state = "Free"
                           \/ slots'[j].state = "Live" /\ slots'[j].frame = f
      <4>1. \A j \in Slots \ {i} : slots'[j].state = "Free" \/ slots'[j] = slots[j]
        BY <1>7, <2>5
      <4>2. slots'[i].state = "Live" /\ slots'[i].frame = f
        BY <2>3, <2>5
      <4>. QED  BY <4>1, <4>2
    <3>3. asked' \in {asked, asked \cup {f}} /\ dropped' \in BOOLEAN
      BY <1>11
    <3>. QED  BY <1>8, <2>4, <2>5, <3>1, <3>2, <3>3, Zenon
  <2>7. F!Arm(f)
    <3>1. LiveIn(slots') = LiveIn(slots) \cup {f}
      <4>1. \A x : x \in LiveIn(slots') <=> x \in LiveIn(Reap) \/ x = f
        BY <2>1, <2>3, <2>5 DEF LiveIn
      <4>. QED  BY <1>6, <4>1
    <3>2. Cardinality(LiveIn(slots)) < MaxInFlight
      BY <1>2, <1>6, <2>1, LiveCounted
    <3>3. f \notin LiveIn(slots) \cup resolved
      <4>1. \A j \in Slots : slots[j].state = "Live" => slots[j].frame # f
        BY <1>3 DEF IInv, NothingAhead
      <4>2. f \notin resolved
        BY <1>3 DEF IInv, NothingAhead
      <4>. QED  BY <4>1, <4>2 DEF LiveIn
    <3>4. /\ f \notin Outstanding \cup resolved /\ Cardinality(Outstanding) < MaxInFlight
          /\ Outstanding' = Outstanding \cup {f} /\ resolved' = resolved
      BY <1>4, <1>5, <3>1, <3>2, <3>3
    <3>. QED  BY <3>4, SameCardinality, Zenon DEF F!Arm
  <2>. QED  BY <1>3, <2>6, <2>7 DEF F!Next
<1>. QED
  BY <1>4, <1>9, <1>10, <1>11 DEF Arm, f, h

(* An answer: the slot it reaches waits for it, and for this frame.        *)
LEMMA PresentedStep ==
  ASSUME IInv, Dispatch, Head(events).kind # "clock_id", Head(events).object \in Alive
  PROVE  /\ IInv' /\ F!Resolve(Head(events).object) /\ Head(events).object \in Frames
         /\ \A r \in report' : r.frame = hook' /\ r.frame \notin resolved
<1>. USE DEF SlotSet
<1>. DEFINE e == Head(events)
            p == e.object
            i == handler[p]
            q == Tail(events)
<1>1. TypeOK /\ Owned(slots, handler) /\ SlotsInStep(slots, resolved)
  BY DEF IInv
<1>2. /\ events # << >> /\ events \in Seq(EventSet)
      /\ events' = q /\ dropped' = FALSE /\ Presented(e)
      /\ UNCHANGED <<bound, frame, clock, asked>>
  BY <1>1 DEF Dispatch, TypeOK, EventSet
<1>3. /\ e = events[1] /\ 1 \in DOMAIN events /\ e \in EventSet
      /\ q \in Seq(EventSet)
      /\ \A k \in DOMAIN q : k + 1 \in DOMAIN events /\ k + 1 # 1 /\ q[k] = events[k + 1]
      /\ \A k, l \in DOMAIN q : k + 1 = l + 1 => k = l
  BY <1>2, HeadTailProperties
<1>4. p \in Frames \ (asked \cup resolved) /\ p \in 1..frame
  BY <1>3 DEF IInv, NotAnsweredTwice, NothingAhead
<1>5. /\ i \in Slots /\ slots[i].frame = p /\ slots[i].state = "Live"
      /\ slots[i] \in SlotSet({"Free", "Live", "Done"})
  <2>1. handler[p] # Null /\ handler[p] \in Slots
    BY <1>1, <1>4 DEF Alive, TypeOK
  <2>2. slots[i].state # "Free" /\ slots[i].frame = p
    BY <1>1, <1>4, <2>1 DEF Owned
  <2>3. slots[i] \in SlotSet({"Free", "Live", "Done"})
    BY <1>1, <2>1 DEF TypeOK
  <2>. QED  BY <1>1, <1>4, <2>1, <2>2, <2>3 DEF SlotsInStep
<1>. HIDE DEF e, i, q
<1>6. /\ slots' = [slots EXCEPT ![i].state = "Done"] /\ handler' = handler
      /\ hook' = p /\ resolved' = resolved \cup {p} /\ clk' = clk
      /\ report' = {Report(p, KindReported(e.kind), slots[i].commit)}
  BY <1>2, <1>5 DEF Presented, Answered, e, i
<1>. HIDE DEF p
<1>7. /\ \A j \in Slots \ {i} : slots'[j] = slots[j]
      /\ slots'[i].state = "Done" /\ slots'[i].frame = slots[i].frame
      /\ slots'[i].proxy = slots[i].proxy
      /\ slots'[i] \in SlotSet({"Free", "Live", "Done"})
      /\ slots' \in [Slots -> SlotSet({"Free", "Live", "Done"})]
  BY <1>1, <1>5, <1>6 DEF TypeOK
<1>8. \A j \in Slots \ {i} : slots[j].state # "Free" => slots[j].frame # p
  BY <1>1, <1>5 DEF Owned
<1>9. TypeOK'
  <2>1. report' \subseteq [frame : Frames, kind : {"presented", "discarded"}, commit : Clocks]
    BY <1>4, <1>5, <1>6 DEF Report, KindReported
  <2>2. resolved' \subseteq Frames /\ hook' \in Frames \cup {Null}
    BY <1>1, <1>4, <1>6 DEF TypeOK
  <2>. QED  BY <1>1, <1>2, <1>3, <1>6, <1>7, <2>1, <2>2 DEF TypeOK, EventSet
<1>10. Owned(slots', handler')
  <2>1. ASSUME NEW j \in Slots
        PROVE  IF slots'[j].state = "Free" THEN slots'[j].proxy = Null
               ELSE /\ slots'[j].frame \in Frames /\ slots'[j].proxy = slots'[j].frame
                    /\ handler[slots'[j].frame] = j
    <3>1. CASE j = i
      BY <1>1, <1>5, <1>7, <3>1 DEF Owned
    <3>2. CASE j # i
      BY <1>1, <1>7, <3>2 DEF Owned
    <3>. QED  BY <3>1, <3>2
  <2>2. ASSUME NEW x \in Frames, handler[x] # Null
        PROVE  slots'[handler[x]].state # "Free" /\ slots'[handler[x]].frame = x
    <3>1. handler[x] \in Slots /\ slots[handler[x]].state # "Free" /\ slots[handler[x]].frame = x
      BY <1>1, <2>2 DEF Owned, TypeOK
    <3>2. CASE handler[x] = i
      BY <1>7, <3>1, <3>2
    <3>3. CASE handler[x] # i
      BY <1>7, <3>1, <3>3
    <3>. QED  BY <3>2, <3>3
  <2>. QED  BY <1>6, <2>1, <2>2, Zenon DEF Owned
<1>11. NotAnsweredTwice(q, asked, resolved \cup {p})
  <2>1. NotAnsweredTwice(events, asked, resolved)
    BY DEF IInv
  <2>2. ASSUME NEW k \in DOMAIN q, q[k].kind # "clock_id"
        PROVE  q[k].object \in Frames \ (asked \cup (resolved \cup {p}))
    <3>1. /\ events[k + 1] = q[k] /\ k + 1 \in DOMAIN events /\ k + 1 # 1
          /\ events[1].kind # "clock_id" /\ events[1].object = p
      BY <1>2, <1>3, <2>2 DEF e, p
    <3>. QED  BY <1>3, <2>1, <2>2, <3>1 DEF NotAnsweredTwice
  <2>3. ASSUME NEW k \in DOMAIN q, NEW l \in DOMAIN q, q[k].kind # "clock_id",
               q[l].kind # "clock_id", q[k].object = q[l].object
        PROVE  k = l
    <3>1. k + 1 = l + 1
      BY <1>3, <2>1, <2>3 DEF NotAnsweredTwice
    <3>. QED  BY <1>3, <3>1
  <2>4. asked \cap (resolved \cup {p}) = {}
    BY <1>4, <2>1 DEF NotAnsweredTwice
  <2>. QED  BY <2>2, <2>3, <2>4 DEF NotAnsweredTwice
<1>12. NothingAhead(slots', q, asked, resolved \cup {p}, frame)
  <2>1. NothingAhead(slots, events, asked, resolved, frame)
    BY DEF IInv
  <2>2. \A j \in Slots : slots'[j].state # "Free" => slots'[j].frame \in 1..frame
    BY <1>4, <1>5, <1>7, <2>1 DEF NothingAhead
  <2>. QED  BY <1>3, <1>4, <2>1, <2>2 DEF NothingAhead
<1>13. SlotsInStep(slots', resolved \cup {p})
  <2>. SUFFICES ASSUME NEW j \in Slots
                PROVE  /\ slots'[j].state = "Live" => slots'[j].frame \notin resolved \cup {p}
                       /\ slots'[j].state = "Done" => slots'[j].frame \in resolved \cup {p}
    BY DEF SlotsInStep
  <2>1. CASE j = i
    BY <1>5, <1>7, <2>1
  <2>2. CASE j # i
    BY <1>1, <1>7, <1>8, <2>2 DEF SlotsInStep
  <2>. QED  BY <2>1, <2>2
<1>14. IInv'
  BY <1>2, <1>6, <1>9, <1>10, <1>11, <1>12, <1>13 DEF IInv, DropsOnlyWhenFull
<1>15. F!Resolve(p)
  <2>1. LiveIn(slots') = LiveIn(slots) \ {p}
    <3>1. \A x : x \in LiveIn(slots') <=> x \in LiveIn(slots) /\ x # p
      BY <1>5, <1>7, <1>8 DEF LiveIn
    <3>. QED  BY <3>1
  <2>2. p \in LiveIn(slots)
    BY <1>5 DEF LiveIn
  <2>3. Outstanding = LiveIn(slots) /\ Outstanding' = LiveIn(slots')
    BY DEF Outstanding, LiveIn
  <2>. QED  BY <1>6, <2>1, <2>2, <2>3, Zenon DEF F!Resolve
<1>. QED  BY <1>4, <1>6, <1>14, <1>15 DEF Report, e, p
-----------------------------------------------------------------------------
(* A step that leaves the pool and the answers alone.                      *)
LEMMA IdleStep ==
  ASSUME IInv, TypeOK', UNCHANGED <<slots, handler, resolved, asked, frame>>,
         events' = events, dropped' \in {dropped, FALSE}
  PROVE  IInv' /\ UNCHANGED F!vars
<1>1. DropsOnlyWhenFull'
  BY DEF IInv, DropsOnlyWhenFull, Outstanding
<1>2. UNCHANGED F!vars
  BY DEF F!vars, Outstanding
<1>. QED  BY <1>1, <1>2 DEF IInv

(* The compositor answers a frame; a clock_id or a dead answer is consumed. *)
LEMMA EventsStep ==
  ASSUME IInv, TypeOK', UNCHANGED <<slots, handler, resolved, frame>>, dropped' \in {dropped, FALSE},
         NotAnsweredTwice(events', asked', resolved),
         NothingAhead(slots, events', asked', resolved, frame)
  PROVE  IInv' /\ UNCHANGED F!vars
<1>1. DropsOnlyWhenFull'
  BY DEF IInv, DropsOnlyWhenFull, Outstanding
<1>2. UNCHANGED F!vars
  BY DEF F!vars, Outstanding
<1>. QED  BY <1>1, <1>2 DEF IInv

LEMMA AnswerStep ==
  ASSUME IInv, NEW p \in Frames, Answer(p)
  PROVE  IInv' /\ UNCHANGED F!vars
<1>1. /\ TypeOK /\ NotAnsweredTwice(events, asked, resolved)
      /\ NothingAhead(slots, events, asked, resolved, frame)
  BY DEF IInv
<1>2. PICK kind \in {"presented", "overflow", "discarded"} :
        events' = Append(events, [object |-> p, kind |-> kind])
  BY DEF Answer
<1>. DEFINE e == [object |-> p, kind |-> kind]
<1>3. p \in asked /\ asked' = asked \ {p} /\ p \notin resolved
  BY <1>1 DEF Answer, NotAnsweredTwice
<1>4. e \in EventSet /\ events \in Seq(EventSet) /\ e.object = p
  BY <1>1 DEF TypeOK, EventSet
<1>. HIDE DEF e
<1>5. /\ events' \in Seq(EventSet) /\ Len(events) \in Nat
      /\ DOMAIN events = 1..Len(events) /\ DOMAIN events' = 1..(Len(events) + 1)
      /\ events'[Len(events) + 1] = e
      /\ \A k \in 1..Len(events) : events'[k] = events[k]
  BY <1>2, <1>4, AppendProperties DEF e
<1>6. TypeOK'
  BY <1>1, <1>5 DEF TypeOK, Answer, EventSet
<1>7. \A k \in 1..Len(events) : events[k].kind # "clock_id" => events[k].object # p
  BY <1>1, <1>3, <1>5 DEF NotAnsweredTwice
<1>8. NotAnsweredTwice(events', asked', resolved)
  <2>1. \A k \in DOMAIN events' :
          events'[k].kind # "clock_id" => events'[k].object \in Frames \ (asked' \cup resolved)
    BY <1>1, <1>3, <1>4, <1>5 DEF NotAnsweredTwice
  <2>2. \A k, l \in DOMAIN events' :
          events'[k].kind # "clock_id" /\ events'[l].kind # "clock_id"
            /\ events'[k].object = events'[l].object => k = l
    <3>. SUFFICES ASSUME NEW k \in DOMAIN events', NEW l \in DOMAIN events',
                         events'[k].kind # "clock_id", events'[l].kind # "clock_id",
                         events'[k].object = events'[l].object
                  PROVE  k = l
      OBVIOUS
    <3>1. CASE k \in 1..Len(events) /\ l \in 1..Len(events)
      BY <1>1, <1>5, <3>1 DEF NotAnsweredTwice
    <3>2. CASE ~(k \in 1..Len(events) /\ l \in 1..Len(events))
      BY <1>4, <1>5, <1>7, <3>2
    <3>. QED  BY <3>1, <3>2
  <2>. QED  BY <1>1, <1>3, <2>1, <2>2 DEF NotAnsweredTwice
<1>9. NothingAhead(slots, events', asked', resolved, frame)
  BY <1>1, <1>3, <1>4, <1>5 DEF NothingAhead
<1>10. UNCHANGED <<slots, handler, resolved, frame, dropped>>
  BY DEF Answer
<1>. QED  BY <1>6, <1>8, <1>9, <1>10, EventsStep

LEMMA SkippedStep ==
  ASSUME IInv, Dispatch,
         Head(events).kind = "clock_id" \/ Head(events).object \notin Alive
  PROVE  IInv' /\ UNCHANGED F!vars /\ report' = {}
<1>. DEFINE q == Tail(events)
<1>1. /\ TypeOK /\ NotAnsweredTwice(events, asked, resolved)
      /\ NothingAhead(slots, events, asked, resolved, frame)
  BY DEF IInv
<1>2. /\ events # << >> /\ events \in Seq(EventSet) /\ events' = q /\ dropped' = FALSE
      /\ report' = {} /\ UNCHANGED <<slots, handler, hook, resolved>>
      /\ UNCHANGED <<bound, frame, clock, asked>> /\ clk' \in Clocks
  BY <1>1 DEF Dispatch, TypeOK, EventSet, OnClockId, Dropped
<1>3. /\ q \in Seq(EventSet)
      /\ \A k \in DOMAIN q : k + 1 \in DOMAIN events /\ q[k] = events[k + 1]
      /\ \A k, l \in DOMAIN q : k + 1 = l + 1 => k = l
  BY <1>2, HeadTailProperties
<1>. HIDE DEF q
<1>4. TypeOK'
  BY <1>1, <1>2, <1>3 DEF TypeOK, EventSet
<1>5. NotAnsweredTwice(q, asked, resolved)
  <2>1. ASSUME NEW k \in DOMAIN q, NEW l \in DOMAIN q, q[k].kind # "clock_id",
               q[l].kind # "clock_id", q[k].object = q[l].object
        PROVE  k = l
    <3>1. k + 1 = l + 1
      BY <1>1, <1>3, <2>1 DEF NotAnsweredTwice
    <3>. QED  BY <1>3, <3>1
  <2>. QED  BY <1>1, <1>3, <2>1 DEF NotAnsweredTwice
<1>6. NothingAhead(slots, q, asked, resolved, frame)
  BY <1>1, <1>3 DEF NothingAhead
<1>. QED  BY <1>2, <1>4, <1>5, <1>6, EventsStep

LEMMA ReleaseStep ==
  ASSUME IInv, Release
  PROVE  IInv' /\ F!GiveUp
<1>. USE DEF SlotSet
<1>1. TypeOK /\ Owned(slots, handler)
  BY DEF IInv
<1>2. UNCHANGED <<clk, frame, hook, resolved, clock, asked, events>> /\ bound' = FALSE
      /\ dropped' = FALSE /\ report' = {}
  BY DEF Release
<1>3. /\ \A i \in Slots : slots'[i].state = "Free" /\ slots'[i].proxy = Null
      /\ slots' \in [Slots -> SlotSet({"Free", "Live", "Done"})]
  BY <1>1 DEF Release, TypeOK
<1>4. handler' \in [Frames -> Slots \cup {Null}] /\ \A p \in Frames : handler'[p] = Null
  <2>1. handler' = Without({slots[i].proxy : i \in Slots})
    BY DEF Release
  <2>2. ASSUME NEW p \in Frames, handler[p] # Null
        PROVE  p \in {slots[i].proxy : i \in Slots}
    BY <1>1, <2>2 DEF Owned, TypeOK
  <2>. QED  BY <1>1, <2>1, <2>2 DEF TypeOK, Without
<1>5. TypeOK'
  BY <1>1, <1>2, <1>3, <1>4 DEF TypeOK
<1>6. Owned(slots', handler')
  BY <1>3, <1>4 DEF Owned
<1>7. NothingAhead(slots', events, asked, resolved, frame) /\ SlotsInStep(slots', resolved)
  BY <1>3 DEF IInv, NothingAhead, SlotsInStep
<1>8. Outstanding' = {}
  BY <1>3 DEF Outstanding
<1>. QED  BY <1>2, <1>5, <1>6, <1>7, <1>8 DEF IInv, DropsOnlyWhenFull, F!GiveUp

LEMMA BindStep ==
  ASSUME IInv, Bind
  PROVE  IInv' /\ UNCHANGED F!vars
<1>. DEFINE e == [object |-> Null, kind |-> "clock_id"]
<1>1. /\ events' = <<e>> /\ bound' = TRUE
      /\ UNCHANGED <<clk, slots, handler, frame, hook, report, dropped, resolved, clock, asked>>
  BY DEF Bind
<1>2. e \in EventSet /\ e.kind = "clock_id"
  BY DEF EventSet
<1>. HIDE DEF e
<1>3. <<e>> \in Seq(EventSet) /\ \A k \in DOMAIN <<e>> : <<e>>[k].kind = "clock_id"
  BY <1>2
<1>4. TypeOK'
  BY <1>1, <1>3 DEF IInv, TypeOK, EventSet
<1>5. NotAnsweredTwice(<<e>>, asked, resolved) /\ NothingAhead(slots, <<e>>, asked, resolved, frame)
  BY <1>3 DEF IInv, NotAnsweredTwice, NothingAhead
<1>. QED  BY <1>1, <1>4, <1>5, EventsStep

LEMMA NextStep ==
  ASSUME IInv, [Next]_vars
  PROVE  /\ IInv' /\ [F!Next]_(F!vars)
         /\ [report' # report => \A r \in report' : r.frame = hook' /\ r.frame \notin resolved]_vars
<1>1. TypeOK
  BY DEF IInv
<1>2. CASE UNCHANGED vars
  <2>1. TypeOK'
    BY <1>1, <1>2 DEF TypeOK, vars
  <2>. QED  BY <1>2, <2>1, IdleStep DEF vars
<1>3. CASE Bind
  BY <1>3, BindStep DEF Bind
<1>4. CASE Arm
  BY <1>4, ArmStep DEF Arm
<1>5. CASE Dispatch
  <2>1. CASE Head(events).kind # "clock_id" /\ Head(events).object \in Alive
    BY <1>5, <2>1, PresentedStep DEF F!Next
  <2>2. CASE Head(events).kind = "clock_id" \/ Head(events).object \notin Alive
    BY <1>5, <2>2, SkippedStep
  <2>. QED  BY <2>1, <2>2
<1>6. CASE HookReturns
  <2>1. TypeOK' /\ report' = {}
    BY <1>1, <1>6 DEF HookReturns, TypeOK
  <2>. QED  BY <1>6, <2>1, IdleStep DEF HookReturns
<1>7. CASE Release
  <2>1. report' = {}
    BY <1>7 DEF Release
  <2>. QED  BY <1>7, <2>1, ReleaseStep DEF F!Next
<1>8. ASSUME NEW p \in Frames, Answer(p)
      PROVE  /\ IInv' /\ UNCHANGED F!vars /\ report' = report
  BY <1>8, AnswerStep DEF Answer
<1>. QED  BY <1>2, <1>3, <1>4, <1>5, <1>6, <1>7, <1>8 DEF Next
-----------------------------------------------------------------------------
LEMMA Invariance == Spec => []IInv
<1>1. IInv /\ [Next]_vars => IInv'
  BY NextStep
<1>. QED  BY <1>1, InitIInv, PTL DEF Spec

(* Each variable keeps its type; the slot a proxy calls is one of the pool *)
(* (PresentationManager::Slot).                                            *)
THEOREM PresentationTypeOK == Spec => []TypeOK
<1>1. IInv => TypeOK
  BY DEF IInv
<1>. QED  BY <1>1, Invariance, PTL

(* Arm gives up the feedback of a frame only if every slot waits for an    *)
(* answer, for any size of the pool.                                       *)
THEOREM DroppedOnlyWhenFull == Spec => []DropsOnlyWhenFull
<1>1. IInv => DropsOnlyWhenFull
  BY DEF IInv
<1>. QED  BY <1>1, Invariance, PTL

(* No answer is reported under another frame, or twice, whatever slots are *)
(* reused while answers are under way (Presented, Discarded).              *)
THEOREM ReportedOnce == Spec => ReportsOnce
<1>1. IInv /\ [Next]_vars =>
        [report' # report => \A r \in report' : r.frame = hook' /\ r.frame \notin resolved]_vars
  BY NextStep
<1>. QED  BY <1>1, Invariance, PTL DEF Spec, ReportsOnce

(* The pool of slots with its proxies implements the set of outstanding    *)
(* frames of Feedback: each is reported once or given up at the release,   *)
(* and there are never more than MaxInFlight.                              *)
THEOREM PoolImplementsFeedback == Spec => ImplementsFeedback
<1>1. Init => F!Init
  BY DEF Init, F!Init, Outstanding, Slot
<1>2. IInv /\ [Next]_vars => [F!Next]_(F!vars)
  BY NextStep
<1>. QED  BY <1>1, <1>2, Invariance, PTL DEF Spec, ImplementsFeedback, F!Spec
=============================================================================
