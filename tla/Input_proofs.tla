----------------------------- MODULE Input_proofs -----------------------------
(***************************************************************************)
(* The keyboard and the touch handler of a seat.                           *)
(*                                                                         *)
(* Key repeat is safe for every set of keys, keymaps, rates and delays and *)
(* for histories of any length: type correctness, then the invariant that  *)
(* ties the kernel's timer to the keys that are down, and what follows     *)
(* from it for the events the App is handed.                               *)
(*                                                                         *)
(* The contact table is right for every number of contacts and every size  *)
(* of the table: it implements the abstract set of contacts, and mirrors   *)
(* the surface as long as the compositor ends every contact before it      *)
(* withdraws touch.                                                        *)
(***************************************************************************)
EXTENDS Keyboard, Touch, FiniteSetTheorems, TLAPS
-----------------------------------------------------------------------------
(* The keyboard.                                                             *)

(* The handler steps keep the types of what they assign.                     *)
LEMMA OnKeyType ==
  ASSUME TypeOK, NEW ser \in 0..MaxSerial, NEW k \in Keys,
         NEW st \in {"pressed", "released", "repeated"},
         OnKey(ser, k, st)
  PROVE  /\ keymap' \in Keymaps \cup {NoKeymap}
         /\ lastSerial' \in 0..MaxSerial
         /\ repeat' \in [rate : Rates \cup {0}, delay : Delays \cup {0},
                         key : Keys \cup {0}, valid : BOOLEAN]
         /\ timer' \in [armed : BOOLEAN, expired : BOOLEAN]
         /\ out' \in SUBSET KeyEvents
<1>1. lastSerial' \in 0..MaxSerial /\ keymap' \in Keymaps \cup {NoKeymap}
  BY DEF OnKey, TypeOK
<1>2. out' \in SUBSET KeyEvents
  <2>. DEFINE s == AppState(st)
              r == st = "repeated"
  <2>1. s \in {"pressed", "released"} /\ r \in BOOLEAN
    BY DEF AppState
  <2>2. out' = {KeyEvent(k, s, r, ser, "compositor")}
    BY DEF OnKey
  <2>. HIDE DEF s, r
  <2>3. KeyEvent(k, s, r, ser, "compositor") \in KeyEvents
    BY <2>1 DEF KeyEvent, KeyEvents
  <2>. QED  BY <2>2, <2>3
<1>3. CASE st = "pressed" /\ Repeats(k)
  <2>1. repeat' = [repeat EXCEPT !.key = k] /\ ArmRepeat
    BY <1>3 DEF OnKey
  <2>2. (repeat.delay > 0) \in BOOLEAN
    OBVIOUS
  <2>3. timer' \in [armed : BOOLEAN, expired : BOOLEAN]
    BY <2>1, <2>2 DEF ArmRepeat, TypeOK
  <2>. QED  BY <1>1, <1>2, <2>1, <2>3 DEF TypeOK
<1>4. CASE ~(st = "pressed" /\ Repeats(k))
  <2>1. repeat' = repeat /\ (StopRepeat \/ timer' = timer)
    BY <1>4 DEF OnKey
  <2>2. timer' \in [armed : BOOLEAN, expired : BOOLEAN]
    <3>1. CASE timer' = timer
      BY <3>1 DEF TypeOK
    <3>2. CASE timer' = [armed |-> FALSE, expired |-> FALSE]
      BY <3>2
    <3>. QED  BY <2>1, <3>1, <3>2 DEF StopRepeat, Idle
  <2>. QED  BY <1>1, <1>2, <2>1, <2>2 DEF TypeOK
<1>. QED  BY <1>3, <1>4

LEMMA TypeStep == TypeOK /\ [Next]_vars => TypeOK'
<1>. SUFFICES ASSUME TypeOK, [Next]_vars PROVE TypeOK'
  OBVIOUS
<1>. USE RepeatAssumption, BoundAssumption
<1>1. CASE DispatchRepeat
  <2>1. timer' \in [armed : BOOLEAN, expired : BOOLEAN]
    BY <1>1 DEF DispatchRepeat, TypeOK
  <2>2. KeyEvent(repeat.key, "pressed", TRUE, lastSerial, "timer") \in KeyEvents
    BY DEF KeyEvent, KeyEvents, TypeOK
  <2>3. out' \in SUBSET KeyEvents
    BY <1>1, <2>2 DEF DispatchRepeat
  <2>. QED  BY <1>1, <2>1, <2>3 DEF DispatchRepeat, handler, compositor, TypeOK
<1>2. CASE Expire
  BY <1>2 DEF Expire, handler, compositor, TypeOK
<1>3. CASE GainKeyboard
  BY <1>3 DEF GainKeyboard, handler, compositor, TypeOK
<1>4. CASE LoseKeyboard
  BY <1>4 DEF LoseKeyboard, handler, TypeOK
<1>5. CASE Enter
  BY <1>5 DEF Enter, handler, TypeOK
<1>6. CASE Leave
  BY <1>6 DEF Leave, OnLeave, StopRepeat, Idle, handler, TypeOK
<1>7. ASSUME NEW k \in Keys, Press(k) PROVE TypeOK'
  <2>1. serial' \in 0..MaxSerial /\ OnKey(serial', k, "pressed")
    BY <1>7 DEF Press, TypeOK
  <2>. QED  BY <1>7, <2>1, OnKeyType DEF Press, TypeOK
<1>8. ASSUME NEW k \in Keys, Release(k) PROVE TypeOK'
  <2>1. serial' \in 0..MaxSerial /\ OnKey(serial', k, "released")
    BY <1>8 DEF Release, TypeOK
  <2>. QED  BY <1>8, <2>1, OnKeyType DEF Release, TypeOK
<1>9. ASSUME NEW k \in Keys, Repeated(k) PROVE TypeOK'
  <2>1. serial' \in 0..MaxSerial /\ OnKey(serial', k, "repeated")
    BY <1>9 DEF Repeated, TypeOK
  <2>. QED  BY <1>9, <2>1, OnKeyType DEF Repeated, TypeOK
<1>10. ASSUME NEW km \in Keymaps, SendKeymap(km) PROVE TypeOK'
  BY <1>10 DEF SendKeymap, OnKeymap, compositor, TypeOK
<1>11. ASSUME NEW r \in Rates, NEW d \in Delays, SendRepeatInfo(r, d)
       PROVE  TypeOK'
  BY <1>11 DEF SendRepeatInfo, OnRepeatInfo, compositor, TypeOK
<1>12. CASE UNCHANGED vars
  BY <1>12 DEF vars, handler, compositor, TypeOK
<1>. QED
  BY <1>1, <1>2, <1>3, <1>4, <1>5, <1>6, <1>7, <1>8, <1>9, <1>10, <1>11, <1>12
  DEF Next

(* Every variable keeps its type, whatever the compositor sends.             *)
THEOREM TypeCorrect == Spec => []TypeOK
<1>1. Init => TypeOK
  <2>. SUFFICES ASSUME Init PROVE TypeOK
    OBVIOUS
  <2>1. repeat \in [rate : Rates \cup {0}, delay : Delays \cup {0},
                    key : Keys \cup {0}, valid : BOOLEAN]
    BY DEF Init
  <2>2. timer \in [armed : BOOLEAN, expired : BOOLEAN]
    BY DEF Init, Idle
  <2>3. 0 \in 0..MaxSerial
    BY BoundAssumption
  <2>. QED  BY <2>1, <2>2, <2>3 DEF Init, TypeOK
<1>. QED  BY <1>1, TypeStep, PTL DEF Spec
-----------------------------------------------------------------------------
(* The inductive invariant: a running timer, or an expiration not yet read,  *)
(* belongs to a key that is down; without a timerfd there is neither.        *)
Running == timer.armed \/ timer.expired

TimerExists == Running => repeat.valid

(* An event of the compositor leaves the timer running only for a key that   *)
(* is down afterwards: the key just pressed, or the key it already ran for.  *)
LEMMA OnKeyTimer ==
  ASSUME TypeOK, TimerExists, NEW ser, NEW k \in Keys, NEW st, OnKey(ser, k, st),
         Running'
  PROVE  /\ repeat'.valid = repeat.valid /\ repeat'.rate = repeat.rate
         /\ \/ /\ st = "pressed" /\ repeat'.key = k
               /\ repeat.rate > 0 /\ repeat.valid
            \/ Running /\ repeat' = repeat /\ ~StopsRepeat(k, st)
<1>1. CASE st = "pressed" /\ Repeats(k)
  <2>1. repeat' = [repeat EXCEPT !.key = k]
    BY <1>1 DEF OnKey
  <2>. QED  BY <1>1, <2>1 DEF Repeats, TypeOK
<1>2. CASE StopsRepeat(k, st) /\ ~(st = "pressed" /\ Repeats(k))
  <2>1. StopRepeat /\ repeat' = repeat
    BY <1>2 DEF OnKey
  <2>2. CASE repeat.valid
    BY <2>1, <2>2 DEF StopRepeat, Idle, Running
  <2>3. CASE ~repeat.valid
    BY <2>1, <2>3 DEF StopRepeat, Running, TimerExists
  <2>. QED  BY <2>2, <2>3
<1>3. CASE ~(st = "pressed" /\ Repeats(k)) /\ ~StopsRepeat(k, st)
  BY <1>3 DEF OnKey, Running
<1>. QED  BY <1>1, <1>2, <1>3

(* Without a timerfd nothing runs, whatever the compositor does.             *)
LEMMA TimerStep == TypeOK /\ TimerExists /\ [Next]_vars => TimerExists'
<1>. SUFFICES ASSUME TypeOK, TimerExists, [Next]_vars, Running'
              PROVE  repeat'.valid
  BY DEF TimerExists
<1>. USE DEF TimerExists, Running
<1>1. CASE DispatchRepeat \/ Expire \/ GainKeyboard \/ LoseKeyboard \/ Enter
  BY <1>1 DEF DispatchRepeat, Expire, GainKeyboard, LoseKeyboard, Enter, handler, TypeOK
<1>2. CASE Leave
  BY <1>2 DEF Leave, OnLeave, StopRepeat, Idle, handler
<1>3. ASSUME NEW k \in Keys, Press(k) \/ Release(k) \/ Repeated(k)
      PROVE  repeat'.valid
  <2>1. PICK st : OnKey(serial', k, st)
    BY <1>3 DEF Press, Release, Repeated
  <2>. QED  BY <2>1, OnKeyTimer
<1>4. ASSUME NEW km \in Keymaps, SendKeymap(km) PROVE repeat'.valid
  BY <1>4 DEF SendKeymap, OnKeymap
<1>5. ASSUME NEW r \in Rates, NEW d \in Delays, SendRepeatInfo(r, d)
      PROVE  repeat'.valid
  BY <1>5 DEF SendRepeatInfo, OnRepeatInfo, TypeOK
<1>6. CASE UNCHANGED vars
  BY <1>6 DEF vars, handler
<1>. QED  BY <1>1, <1>2, <1>3, <1>4, <1>5, <1>6 DEF Next

(* A repeat that runs stays with a key that is down.                         *)
LEMMA HeldStep ==
  ASSUME LeaveBeforeLoss
  PROVE  /\ TypeOK /\ TimerExists /\ RepeatOnlyWhileHeld /\ [Next]_vars
         => TimerExists' /\ RepeatOnlyWhileHeld'
<1>. SUFFICES ASSUME TypeOK, TimerExists, RepeatOnlyWhileHeld, [Next]_vars, Running'
              PROVE  repeat'.valid /\ bound' /\ focus' /\ repeat'.key \in held'
  BY DEF TimerExists, RepeatOnlyWhileHeld, Running
<1>. USE DEF TimerExists, RepeatOnlyWhileHeld, Running
<1>1. CASE DispatchRepeat
  BY <1>1 DEF DispatchRepeat, handler, compositor, TypeOK
<1>2. CASE Expire
  BY <1>2 DEF Expire, handler, compositor, TypeOK
<1>3. CASE GainKeyboard
  BY <1>3 DEF GainKeyboard, handler, compositor
<1>4. CASE LoseKeyboard
  BY <1>4 DEF LoseKeyboard, handler
<1>5. CASE Enter
  BY <1>5 DEF Enter, handler
<1>6. CASE Leave
  BY <1>6 DEF Leave, OnLeave, StopRepeat, Idle
<1>7. ASSUME NEW k \in Keys, Press(k)
      PROVE  repeat'.valid /\ bound' /\ focus' /\ repeat'.key \in held'
  <2>1. bound /\ focus /\ UNCHANGED <<bound, focus>> /\ held' = held \cup {k}
    BY <1>7 DEF Press
  <2>2. OnKey(serial', k, "pressed")
    BY <1>7 DEF Press
  <2>. QED  BY <2>1, <2>2, OnKeyTimer
<1>8. ASSUME NEW k \in Keys, Release(k)
      PROVE  repeat'.valid /\ bound' /\ focus' /\ repeat'.key \in held'
  <2>1. UNCHANGED <<bound, focus>> /\ held' = held \ {k}
    BY <1>8 DEF Release
  <2>2. OnKey(serial', k, "released")
    BY <1>8 DEF Release
  <2>3. Running /\ repeat' = repeat /\ repeat.key # k
    BY <2>2, OnKeyTimer DEF StopsRepeat
  <2>. QED  BY <2>1, <2>3
<1>9. ASSUME NEW k \in Keys, Repeated(k)
      PROVE  repeat'.valid /\ bound' /\ focus' /\ repeat'.key \in held'
  <2>1. UNCHANGED <<bound, focus, held>>
    BY <1>9 DEF Repeated
  <2>2. OnKey(serial', k, "repeated")
    BY <1>9 DEF Repeated
  <2>3. Running /\ repeat' = repeat
    BY <2>2, OnKeyTimer
  <2>. QED  BY <2>1, <2>3
<1>10. ASSUME NEW km \in Keymaps, SendKeymap(km)
       PROVE  repeat'.valid /\ bound' /\ focus' /\ repeat'.key \in held'
  BY <1>10 DEF SendKeymap, OnKeymap, compositor
<1>11. ASSUME NEW r \in Rates, NEW d \in Delays, SendRepeatInfo(r, d)
       PROVE  repeat'.valid /\ bound' /\ focus' /\ repeat'.key \in held'
  BY <1>11 DEF SendRepeatInfo, OnRepeatInfo, compositor, TypeOK
<1>12. CASE UNCHANGED vars
  BY <1>12 DEF vars, handler, compositor
<1>. QED
  BY <1>1, <1>2, <1>3, <1>4, <1>5, <1>6, <1>7, <1>8, <1>9, <1>10, <1>11, <1>12
  DEF Next

(* No release, leave or withdrawn capability leaves a repeat behind, as long *)
(* as the compositor sends leave before it takes the keyboard away.          *)
THEOREM HeldRepeat ==
  ASSUME LeaveBeforeLoss
  PROVE  Spec => []RepeatOnlyWhileHeld
<1>1. Init => TimerExists /\ RepeatOnlyWhileHeld
  BY DEF Init, Idle, TimerExists, Running, RepeatOnlyWhileHeld
<1>. QED  BY <1>1, HeldStep, TypeCorrect, PTL DEF Spec

(* A repeat is not lost by mistake: what stops it is the release of its own  *)
(* key, a leave, or a press that takes the timer over with a delay of zero.  *)
(* The key pressed is another one, since a key that repeats is down already. *)
THEOREM RepeatGoesOn ==
  ASSUME LeaveBeforeLoss
  PROVE  Spec => RepeatRunsWhileHeld
<1>. DEFINE Allowed == \/ repeat.key \notin held'
                       \/ repeat.key # repeat'.key /\ repeat'.delay = 0
<1>1. TypeOK /\ RepeatOnlyWhileHeld /\ [Next]_vars =>
        [timer.armed /\ ~timer'.armed => Allowed]_vars
  <2>. SUFFICES ASSUME TypeOK, RepeatOnlyWhileHeld, Next, timer.armed, ~timer'.armed
                PROVE  Allowed
    OBVIOUS
  <2>1. CASE DispatchRepeat \/ Expire \/ GainKeyboard \/ LoseKeyboard \/ Enter
    BY <2>1 DEF DispatchRepeat, Expire, GainKeyboard, LoseKeyboard, Enter, TypeOK
  <2>2. CASE Leave
    BY <2>2 DEF Leave
  <2>3. ASSUME NEW k \in Keys, Press(k) PROVE Allowed
    <3>1. OnKey(serial', k, "pressed") /\ k \notin held
      BY <2>3 DEF Press
    <3>2. ~StopsRepeat(k, "pressed")
      BY DEF StopsRepeat
    <3>3. repeat' = [repeat EXCEPT !.key = k] /\ ArmRepeat
      BY <3>1, <3>2 DEF OnKey
    <3>4. ~(repeat.delay > 0) /\ repeat.delay \in Nat
      BY <3>3, RepeatAssumption DEF ArmRepeat, TypeOK
    <3>5. repeat'.key = k /\ repeat'.delay = 0
      BY <3>3, <3>4 DEF TypeOK
    <3>. QED  BY <3>1, <3>5 DEF RepeatOnlyWhileHeld
  <2>4. ASSUME NEW k \in Keys, Release(k) PROVE Allowed
    BY <2>4 DEF Release, OnKey, StopsRepeat
  <2>5. ASSUME NEW k \in Keys, Repeated(k) PROVE Allowed
    BY <2>5 DEF Repeated, OnKey, StopsRepeat
  <2>6. ASSUME NEW km \in Keymaps, SendKeymap(km) PROVE Allowed
    BY <2>6 DEF SendKeymap, OnKeymap
  <2>7. ASSUME NEW r \in Rates, NEW d \in Delays, SendRepeatInfo(r, d) PROVE Allowed
    BY <2>7 DEF SendRepeatInfo, OnRepeatInfo
  <2>. QED  BY <2>1, <2>2, <2>3, <2>4, <2>5, <2>6, <2>7 DEF Next
<1>. QED  BY <1>1, TypeCorrect, HeldRepeat, PTL DEF Spec, RepeatRunsWhileHeld
-----------------------------------------------------------------------------
(* Only DispatchRepeat hands the App a tick, and only one that is owed.      *)
LEMMA TickIsDispatched ==
  ASSUME [Next]_vars, NEW e \in out', e.by = "timer"
  PROVE  \/ UNCHANGED <<repeat, held, out>>
         \/ /\ timer.expired /\ UNCHANGED <<repeat, held>>
            /\ e.key = repeat.key
<1>1. CASE DispatchRepeat
  BY <1>1 DEF DispatchRepeat, handler, compositor, KeyEvent
<1>2. CASE UNCHANGED vars
  BY <1>2 DEF vars, handler, compositor
<1>3. ASSUME NEW k \in Keys, NEW ser, NEW st, OnKey(ser, k, st) PROVE FALSE
  BY <1>3 DEF OnKey, KeyEvent
<1>4. ASSUME NEW k \in Keys, Press(k) \/ Release(k) \/ Repeated(k) PROVE FALSE
  BY <1>3, <1>4 DEF Press, Release, Repeated
<1>5. CASE Expire \/ GainKeyboard \/ LoseKeyboard \/ Enter \/ Leave
  BY <1>5 DEF Expire, GainKeyboard, LoseKeyboard, Enter, Leave, OnLeave
<1>6. ASSUME NEW km \in Keymaps, SendKeymap(km) PROVE FALSE
  BY <1>6 DEF SendKeymap, OnKeymap
<1>7. ASSUME NEW r \in Rates, NEW d \in Delays, SendRepeatInfo(r, d) PROVE FALSE
  BY <1>7 DEF SendRepeatInfo, OnRepeatInfo
<1>. QED  BY <1>1, <1>2, <1>4, <1>5, <1>6, <1>7 DEF Next

(* The App is only ever handed ticks of keys that are down.                  *)
THEOREM TicksAreHeld ==
  ASSUME LeaveBeforeLoss
  PROVE  Spec => []TickOnlyWhileHeld
<1>1. Init => TickOnlyWhileHeld
  BY DEF Init, TickOnlyWhileHeld
<1>2. RepeatOnlyWhileHeld /\ TickOnlyWhileHeld /\ [Next]_vars => TickOnlyWhileHeld'
  BY TickIsDispatched DEF TickOnlyWhileHeld, RepeatOnlyWhileHeld
<1>. QED  BY <1>1, <1>2, HeldRepeat, PTL DEF Spec

(* At rate zero no repeat begins or passes to another key, whenever the rate *)
(* changed and whatever is held: OnKey, the only caller that arms the timer, *)
(* looks at the rate first, and every other step leaves the key alone.       *)
THEOREM ZeroRateIsPassive == Spec => ZeroRateStartsNothing
<1>. DEFINE Kept == /\ timer.armed \/ timer.expired
                    /\ repeat'.key = repeat.key
<1>1. TypeOK /\ TimerExists /\ [Next]_vars =>
        [repeat'.rate = 0 /\ (timer'.armed \/ timer'.expired) => Kept]_vars
  <2>. SUFFICES ASSUME TypeOK, TimerExists, Next, repeat'.rate = 0, Running'
                PROVE  Kept
    BY DEF Running
  <2>. USE DEF Running
  <2>1. CASE DispatchRepeat \/ Expire \/ GainKeyboard \/ LoseKeyboard \/ Enter
    BY <2>1 DEF DispatchRepeat, Expire, GainKeyboard, LoseKeyboard, Enter, handler, TypeOK
  <2>2. CASE Leave
    <3>1. UNCHANGED repeat /\ StopRepeat
      BY <2>2 DEF Leave, OnLeave, handler
    <3>. QED  BY <3>1 DEF StopRepeat, Idle
  <2>3. ASSUME NEW k \in Keys, Press(k) \/ Release(k) \/ Repeated(k) PROVE Kept
    <3>1. PICK st : OnKey(serial', k, st)
      BY <2>3 DEF Press, Release, Repeated
    <3>. QED  BY <3>1, OnKeyTimer DEF TypeOK
  <2>4. ASSUME NEW km \in Keymaps, SendKeymap(km) PROVE Kept
    BY <2>4 DEF SendKeymap, OnKeymap
  <2>5. ASSUME NEW r \in Rates, NEW d \in Delays, SendRepeatInfo(r, d) PROVE Kept
    BY <2>5 DEF SendRepeatInfo, OnRepeatInfo, TypeOK
  <2>. QED  BY <2>1, <2>2, <2>3, <2>4, <2>5 DEF Next
<1>2. Init => TimerExists
  BY DEF Init, Idle, TimerExists, Running
<1>3. TypeOK /\ TimerExists /\ [Next]_vars => TimerExists'
  BY TimerStep
<1>. QED  BY <1>1, <1>2, <1>3, TypeCorrect, PTL DEF Spec, ZeroRateStartsNothing
-----------------------------------------------------------------------------
(* The contact table.                                                        *)

(* What the table operations do to the set of active contacts, as long as    *)
(* every contact has one place.                                              *)
LEMMA RefreshActive ==
  ASSUME TouchTypeOK, OnePlacePerContact, NEW p \in TouchPoint, Places(p.id) # {},
         Refresh(p), count' = count
  PROVE  /\ Active' = Without(Active, p.id) \cup {p}
         /\ points' \in [1..MaxPoints -> TouchPoint]
         /\ OnePlacePerContact'
         /\ p.id \in IdsOf(Active)
<1>. USE PointsAssumption DEF TouchTypeOK, Places
<1>1. points' \in [1..MaxPoints -> TouchPoint]
  BY DEF Refresh
<1>2. \A i \in 1..count : points'[i] = IF points[i].id = p.id THEN p ELSE points[i]
  BY DEF Refresh
<1>3. \A i \in 1..count : points'[i].id = points[i].id
  BY <1>2
<1>4. OnePlacePerContact'
  BY <1>3 DEF OnePlacePerContact
<1>5. PICK k \in 1..count : points[k].id = p.id
  OBVIOUS
<1>6. p.id \in IdsOf(Active)
  BY <1>5 DEF IdsOf, Active
<1>7. Active' = Without(Active, p.id) \cup {p}
  <2>1. ASSUME NEW q \in Active' PROVE q \in Without(Active, p.id) \cup {p}
    BY <1>2, <2>1 DEF Active, Without
  <2>2. ASSUME NEW q \in Active, q.id # p.id PROVE q \in Active'
    BY <1>2, <2>2 DEF Active
  <2>3. p \in Active'
    BY <1>2, <1>5 DEF Active
  <2>. QED  BY <2>1, <2>2, <2>3 DEF Without
<1>. QED  BY <1>1, <1>4, <1>6, <1>7

LEMMA AppendActive ==
  ASSUME TouchTypeOK, OnePlacePerContact, NEW p \in TouchPoint, Places(p.id) = {},
         count < MaxPoints, points' = [points EXCEPT ![count + 1] = p], count' = count + 1
  PROVE  /\ Active' = Active \cup {p}
         /\ points' \in [1..MaxPoints -> TouchPoint]
         /\ OnePlacePerContact'
         /\ p.id \notin IdsOf(Active)
<1>. USE PointsAssumption DEF TouchTypeOK, Places
<1>1. points' \in [1..MaxPoints -> TouchPoint]
  OBVIOUS
<1>2. \A i \in 1..count : points'[i] = points[i]
  OBVIOUS
<1>3. points'[count + 1] = p
  OBVIOUS
<1>4. 1..(count + 1) = (1..count) \cup {count + 1}
  OBVIOUS
<1>5. \A i \in 1..count : points[i].id # p.id
  OBVIOUS
<1>6. p.id \notin IdsOf(Active)
  BY <1>5 DEF IdsOf, Active
<1>7. OnePlacePerContact'
  BY <1>2, <1>3, <1>4, <1>5 DEF OnePlacePerContact
<1>8. Active' = Active \cup {p}
  BY <1>2, <1>3, <1>4 DEF Active
<1>. QED  BY <1>1, <1>6, <1>7, <1>8

LEMMA RemoveActive ==
  ASSUME TouchTypeOK, OnePlacePerContact, NEW i \in 1..count, Remove(i)
  PROVE  /\ Active' = Without(Active, points[i].id)
         /\ points' \in [1..MaxPoints -> TouchPoint] /\ count' \in 0..MaxPoints
         /\ OnePlacePerContact'
<1>. USE PointsAssumption DEF TouchTypeOK, Remove
<1>1. points' \in [1..MaxPoints -> TouchPoint] /\ count' \in 0..MaxPoints
  OBVIOUS
<1>2. \A j \in 1..(count - 1) : points'[j] = IF j = i THEN points[count] ELSE points[j]
  OBVIOUS
<1>3. OnePlacePerContact'
  BY <1>2 DEF OnePlacePerContact
<1>4. ASSUME NEW q \in Active' PROVE q \in Without(Active, points[i].id)
  <2>1. PICK j \in 1..(count - 1) : q = points'[j]
    BY <1>4 DEF Active
  <2>2. CASE j = i
    <3>1. q = points[count] /\ count # i
      BY <1>2, <2>1, <2>2
    <3>. QED  BY <3>1 DEF Active, Without, OnePlacePerContact
  <2>3. CASE j # i
    <3>1. q = points[j]
      BY <1>2, <2>1, <2>3
    <3>. QED  BY <3>1, <2>3 DEF Active, Without, OnePlacePerContact
  <2>. QED  BY <2>2, <2>3
<1>5. ASSUME NEW q \in Without(Active, points[i].id) PROVE q \in Active'
  <2>1. PICK j \in 1..count : q = points[j] /\ j # i
    BY <1>5 DEF Without, Active
  <2>2. CASE j = count
    <3>1. i \in 1..(count - 1) /\ points'[i] = q
      BY <1>2, <2>1, <2>2
    <3>. QED  BY <3>1 DEF Active
  <2>3. CASE j # count
    <3>1. j \in 1..(count - 1) /\ points'[j] = q
      BY <1>2, <2>1, <2>3
    <3>. QED  BY <3>1 DEF Active
  <2>. QED  BY <2>2, <2>3
<1>. QED  BY <1>1, <1>3, <1>4, <1>5

(* There are as many active contacts as places in use.                       *)
LEMMA ActiveSize ==
  ASSUME TouchTypeOK, OnePlacePerContact
  PROVE  IsFiniteSet(Active) /\ Cardinality(Active) = count
<1>. DEFINE f == [i \in 1..count |-> points[i]]
<1>1. f \in Surjection(1..count, Active)
  BY DEF Surjection, Active
<1>2. f \in Injection(1..count, Active)
  <2>1. f \in [1..count -> Active]
    BY DEF Active
  <2>2. ASSUME NEW i \in 1..count, NEW j \in 1..count, f[i] = f[j] PROVE i = j
    BY <2>2 DEF OnePlacePerContact
  <2>. QED  BY <2>1, <2>2 DEF Injection, IsInjective
<1>3. count \in Nat
  BY PointsAssumption DEF TouchTypeOK
<1>4. IsFiniteSet(1..count) /\ Cardinality(1..count) = count
  BY <1>3, FS_Interval
<1>. HIDE DEF f
<1>. QED  BY <1>1, <1>2, <1>4, FS_Surjection
-----------------------------------------------------------------------------
(* The handlers: what they do to the set of active contacts.                 *)
TableOK ==
  /\ points \in [1..MaxPoints -> TouchPoint] /\ count \in 0..MaxPoints
  /\ told \subseteq Ids /\ call \subseteq {"down", "up", "motion"} \X Ids
  /\ OnePlacePerContact

LEMMA Unchanged ==
  ASSUME TouchTypeOK, OnePlacePerContact, points' = points, count' = count
  PROVE  /\ Active' = Active /\ OnePlacePerContact'
         /\ points' \in [1..MaxPoints -> TouchPoint] /\ count' \in 0..MaxPoints
BY DEF Active, OnePlacePerContact, TouchTypeOK

(* A contact has a place exactly when it is active.                          *)
LEMMA PlacesOfActive ==
  ASSUME NEW id
  PROVE  Places(id) = {} <=> id \notin IdsOf(Active)
BY DEF Places, IdsOf, Active

LEMMA OnDownStep ==
  ASSUME TouchTypeOK, OnePlacePerContact, NEW p \in TouchPoint, OnDown(p)
  PROVE  /\ TableOK'
         /\ \/ p.id \in IdsOf(Active) /\ Active' = Without(Active, p.id) \cup {p}
            \/ p.id \notin IdsOf(Active) /\ count < MaxPoints /\ Active' = Active \cup {p}
            \/ p.id \notin IdsOf(Active) /\ count = MaxPoints /\ Active' = Active
<1>0. p.id \in Ids
  BY DEF TouchPoint
<1>1. told' \subseteq Ids /\ call' \subseteq {"down", "up", "motion"} \X Ids
  BY <1>0 DEF OnDown, TouchTypeOK
<1>2. CASE Places(p.id) # {}
  <2>1. Refresh(p) /\ count' = count
    BY <1>2 DEF OnDown, Add
  <2>. QED  BY <1>1, <1>2, <2>1, RefreshActive DEF TableOK, TouchTypeOK
<1>3. CASE Places(p.id) = {} /\ count < MaxPoints
  <2>1. points' = [points EXCEPT ![count + 1] = p] /\ count' = count + 1
    BY <1>3 DEF OnDown, Add
  <2>2. count' \in 0..MaxPoints
    BY <1>3, <2>1, PointsAssumption DEF TouchTypeOK
  <2>. QED  BY <1>1, <1>3, <2>1, <2>2, AppendActive DEF TableOK
<1>4. CASE Places(p.id) = {} /\ count >= MaxPoints
  <2>1. points' = points /\ count' = count /\ count = MaxPoints
    BY <1>4, PointsAssumption DEF OnDown, Add, TouchTypeOK
  <2>. QED  BY <1>1, <1>4, <2>1, Unchanged, PlacesOfActive DEF TableOK
<1>. QED  BY <1>2, <1>3, <1>4, PointsAssumption DEF TouchTypeOK

LEMMA OnUpStep ==
  ASSUME TouchTypeOK, OnePlacePerContact, NEW id \in Ids, OnUp(id)
  PROVE  /\ TableOK'
         /\ \/ id \in IdsOf(Active) /\ Active' = Without(Active, id)
            \/ id \notin IdsOf(Active) /\ Active' = Active
<1>1. told' \subseteq Ids /\ call' \subseteq {"down", "up", "motion"} \X Ids
  BY DEF OnUp, TouchTypeOK
<1>2. CASE Places(id) # {}
  <2>1. PICK i \in Places(id) : Remove(i)
    BY <1>2 DEF OnUp
  <2>2. i \in 1..count /\ points[i].id = id
    BY DEF Places
  <2>. QED  BY <1>1, <1>2, <2>1, <2>2, RemoveActive, PlacesOfActive DEF TableOK
<1>3. CASE Places(id) = {}
  BY <1>1, <1>3, Unchanged, PlacesOfActive DEF OnUp, TableOK
<1>. QED  BY <1>2, <1>3

LEMMA OnMotionStep ==
  ASSUME TouchTypeOK, OnePlacePerContact, NEW p \in TouchPoint, OnMotion(p)
  PROVE  /\ TableOK'
         /\ \/ p.id \in IdsOf(Active) /\ Active' = Without(Active, p.id) \cup {p}
            \/ p.id \notin IdsOf(Active) /\ Active' = Active
<1>0. p.id \in Ids
  BY DEF TouchPoint
<1>1. told' \subseteq Ids /\ call' \subseteq {"down", "up", "motion"} \X Ids
  BY <1>0 DEF OnMotion, TouchTypeOK
<1>2. CASE Places(p.id) # {}
  BY <1>1, <1>2, RefreshActive DEF OnMotion, TableOK, TouchTypeOK
<1>3. CASE Places(p.id) = {}
  BY <1>1, <1>3, Unchanged, PlacesOfActive DEF OnMotion, TableOK
<1>. QED  BY <1>2, <1>3

LEMMA OnCancelStep ==
  ASSUME TouchTypeOK, OnCancel
  PROVE  TableOK' /\ Active' = {}
<1>1. 1..0 = {}
  OBVIOUS
<1>. QED  BY <1>1, PointsAssumption DEF TouchTypeOK, OnCancel, TableOK, Active, OnePlacePerContact
-----------------------------------------------------------------------------
(* The table's part of the inductive invariant needs nothing of the          *)
(* compositor.                                                               *)
TableInv == TouchTypeOK /\ OnePlacePerContact

LEMMA TableStep == TableInv /\ [TouchNext]_touchVars => TableInv'
<1>. SUFFICES ASSUME TouchTypeOK, OnePlacePerContact, [TouchNext]_touchVars PROVE TableInv'
  BY DEF TableInv
<1>1. CASE GainTouch
  BY <1>1, Unchanged DEF GainTouch, TouchTypeOK, TableInv
<1>2. CASE LoseTouch
  BY <1>2, Unchanged DEF LoseTouch, TouchTypeOK, TableInv
<1>3. CASE Cancel
  BY <1>3, OnCancelStep DEF Cancel, TouchTypeOK, TableInv, TableOK
<1>4. ASSUME NEW p \in TouchPoint, Down(p) PROVE TableInv'
  BY <1>4, OnDownStep DEF Down, TouchTypeOK, TableInv, TableOK
<1>5. ASSUME NEW p \in TouchPoint, Motion(p) PROVE TableInv'
  BY <1>5, OnMotionStep DEF Motion, TouchTypeOK, TableInv, TableOK, Without
<1>6. ASSUME NEW id \in Ids, Up(id) PROVE TableInv'
  BY <1>6, OnUpStep DEF Up, TouchTypeOK, TableInv, TableOK, Without
<1>7. CASE UNCHANGED touchVars
  BY <1>7, Unchanged DEF touchVars, TouchTypeOK, TableInv
<1>. QED  BY <1>1, <1>2, <1>3, <1>4, <1>5, <1>6, <1>7 DEF TouchNext

LEMMA TableInit == TouchInit => TableInv /\ Active = {}
<1>. SUFFICES ASSUME TouchInit PROVE TableInv /\ Active = {}
  OBVIOUS
<1>1. 1..0 = {}
  OBVIOUS
<1>2. count \in 0..MaxPoints
  BY PointsAssumption DEF TouchInit
<1>. QED  BY <1>1, <1>2 DEF TouchInit, TableInv, TouchTypeOK, OnePlacePerContact, Active

LEMMA TableInvariant == TouchSpec => []TableInv
BY TableInit, TableStep, PTL DEF TouchSpec

(* Every variable keeps its type.                                            *)
THEOREM TouchTypeCorrect == TouchSpec => []TouchTypeOK
<1>1. TableInv => TouchTypeOK
  BY DEF TableInv
<1>. QED  BY <1>1, TableInvariant, PTL

(* No contact ever has two places, whatever the compositor does and however  *)
(* often touch comes and goes.                                               *)
THEOREM OnePlace == TouchSpec => []OnePlacePerContact
<1>1. TableInv => OnePlacePerContact
  BY DEF TableInv
<1>. QED  BY <1>1, TableInvariant, PTL

(* The array with swap-remove implements the abstract set of contacts.       *)
THEOREM Implementation == TouchSpec => ImplementsContacts
<1>1. TouchInit => C!Init
  BY TableInit DEF C!Init
<1>2. TableInv /\ [TouchNext]_touchVars => [C!Next]_Active
  <2>. SUFFICES ASSUME TouchTypeOK, OnePlacePerContact, [TouchNext]_touchVars PROVE [C!Next]_Active
    BY DEF TableInv
  <2>. USE DEF C!Next, C!Enter, C!Move, C!Lift, C!Cancel, C!TouchPoint, C!IdsOf,
               C!Without, TouchPoint, IdsOf, Without
  <2>1. CASE GainTouch
    BY <2>1, Unchanged DEF GainTouch
  <2>2. CASE LoseTouch
    BY <2>2, Unchanged DEF LoseTouch
  <2>3. CASE Cancel
    BY <2>3, OnCancelStep DEF Cancel
  <2>4. ASSUME NEW p \in TouchPoint, Down(p) PROVE [C!Next]_Active
    <3>1. CASE p.id \in IdsOf(Active) /\ Active' = Without(Active, p.id) \cup {p}
      <4>1. C!Move(p)
        BY <3>1
      <4>. QED  BY <4>1
    <3>2. CASE p.id \notin IdsOf(Active) /\ count < MaxPoints /\ Active' = Active \cup {p}
      <4>0. Cardinality(Active) < MaxPoints
        BY <3>2, ActiveSize
      <4>1. C!Enter(p)
        BY <3>2, <4>0 DEF C!Cardinality, Cardinality
      <4>. QED  BY <4>1
    <3>3. CASE Active' = Active
      BY <3>3
    <3>. QED  BY <2>4, <3>1, <3>2, <3>3, OnDownStep DEF Down
  <2>5. ASSUME NEW p \in TouchPoint, Motion(p) PROVE [C!Next]_Active
    BY <2>5, OnMotionStep DEF Motion
  <2>6. ASSUME NEW id \in Ids, Up(id) PROVE [C!Next]_Active
    BY <2>6, OnUpStep DEF Up
  <2>7. CASE UNCHANGED touchVars
    BY <2>7, Unchanged DEF touchVars
  <2>. QED  BY <2>1, <2>2, <2>3, <2>4, <2>5, <2>6, <2>7 DEF TouchNext
<1>. QED
  BY <1>1, <1>2, TableInvariant, PTL DEF TouchSpec, ImplementsContacts, C!Spec
-----------------------------------------------------------------------------
(* With a compositor that ends its contacts before it withdraws touch, the   *)
(* table never holds more than the surface, and holds all of it as long as   *)
(* the contacts fit.  Both are needed: once a crowd is gone, the table is    *)
(* empty because the surface is.                                             *)
MirrorInv == TableInv /\ NoPhantoms /\ MirrorsSurface

LEMMA MirrorStep ==
  ASSUME LiftBeforeLoss, MirrorInv, [TouchNext]_touchVars
  PROVE  NoPhantoms' /\ MirrorsSurface'
<1>. USE DEF NoPhantoms, MirrorsSurface
<1>0. TouchTypeOK /\ OnePlacePerContact /\ Active \subseteq down /\ (~crowded => Active = down)
  BY DEF MirrorInv, TableInv
<1>1. CASE GainTouch
  BY <1>0, <1>1, Unchanged DEF GainTouch
<1>2. CASE LoseTouch
  BY <1>0, <1>2, Unchanged DEF LoseTouch
<1>3. CASE Cancel
  BY <1>0, <1>3, OnCancelStep DEF Cancel
<1>4. ASSUME NEW p \in TouchPoint, Down(p) PROVE NoPhantoms' /\ MirrorsSurface'
  <2>1. p.id \notin IdsOf(Active) /\ down' = down \cup {p}
    BY <1>0, <1>4 DEF Down, IdsOf
  <2>2. CASE Active' = Active \cup {p}
    BY <1>0, <1>4, <2>1, <2>2 DEF Down
  <2>3. CASE Active' = Active /\ count = MaxPoints
    <3>1. ~crowded => Cardinality(down) = MaxPoints
      BY <1>0, <2>3, ActiveSize
    <3>2. ~crowded => Cardinality(down) >= MaxPoints
      BY <3>1, PointsAssumption
    <3>3. crowded' = (crowded \/ Cardinality(down) >= MaxPoints)
      BY <1>4 DEF Down
    <3>4. crowded'
      BY <3>2, <3>3
    <3>. QED  BY <1>0, <2>1, <2>3, <3>4
  <2>. QED  BY <1>0, <1>4, <2>1, <2>2, <2>3, OnDownStep DEF Down
<1>5. ASSUME NEW p \in TouchPoint, Motion(p) PROVE NoPhantoms' /\ MirrorsSurface'
  <2>1. /\ down' = Without(down, p.id) \cup {p} /\ p.id \in IdsOf(down)
        /\ crowded' = crowded
    BY <1>5 DEF Motion
  <2>2. CASE Active' = Without(Active, p.id) \cup {p}
    BY <1>0, <2>1, <2>2 DEF Without
  <2>3. CASE p.id \notin IdsOf(Active) /\ Active' = Active
    BY <1>0, <2>1, <2>3 DEF Without, IdsOf
  <2>. QED  BY <1>0, <1>5, <2>2, <2>3, OnMotionStep DEF Motion
<1>6. ASSUME NEW id \in Ids, Up(id) PROVE NoPhantoms' /\ MirrorsSurface'
  <2>1. down' = Without(down, id) /\ (~crowded' => ~crowded \/ down' = {})
    BY <1>6 DEF Up
  <2>2. Active' = Without(Active, id)
    BY <1>0, <1>6, OnUpStep DEF Up, Without, IdsOf
  <2>. QED  BY <1>0, <2>1, <2>2 DEF Without
<1>7. CASE UNCHANGED touchVars
  BY <1>0, <1>7, Unchanged DEF touchVars
<1>. QED  BY <1>1, <1>2, <1>3, <1>4, <1>5, <1>6, <1>7 DEF TouchNext

LEMMA MirrorInvariant ==
  ASSUME LiftBeforeLoss
  PROVE  TouchSpec => []MirrorInv
<1>1. TouchInit => MirrorInv
  BY TableInit DEF TouchInit, MirrorInv, NoPhantoms, MirrorsSurface
<1>2. MirrorInv /\ [TouchNext]_touchVars => MirrorInv'
  BY TableStep, MirrorStep DEF MirrorInv
<1>. QED  BY <1>1, <1>2, PTL DEF TouchSpec

(* Without a loss under contacts, active() holds no contact nobody makes.    *)
THEOREM Phantoms ==
  ASSUME LiftBeforeLoss
  PROVE  TouchSpec => []NoPhantoms
<1>1. MirrorInv => NoPhantoms
  BY DEF MirrorInv
<1>. QED  BY <1>1, MirrorInvariant, PTL

(* As long as the contacts fit, active() is what is on the surface.          *)
THEOREM Mirror ==
  ASSUME LiftBeforeLoss
  PROVE  TouchSpec => []MirrorsSurface
<1>1. MirrorInv => MirrorsSurface
  BY DEF MirrorInv
<1>. QED  BY <1>1, MirrorInvariant, PTL
-----------------------------------------------------------------------------
(* The App was told of every contact that the table has, and not since that *)
(* it ended.  The converse is false: a contact beyond the cap is untold.    *)
AllTold == IdsOf(Active) \subseteq told

LEMMA ToldStep ==
  ASSUME TableInv, AllTold, [TouchNext]_touchVars
  PROVE  /\ AllTold'
         /\ [\A c \in call' : c[1] \in {"up", "motion"} => c[2] \in told]_touchVars
<1>. DEFINE Whole == \A c \in call' : c[1] \in {"up", "motion"} => c[2] \in told
<1>0. TouchTypeOK /\ OnePlacePerContact
  BY DEF TableInv
<1>. USE DEF AllTold
<1>1. CASE GainTouch
  BY <1>0, <1>1, Unchanged DEF GainTouch
<1>2. CASE LoseTouch
  BY <1>0, <1>2, Unchanged DEF LoseTouch
<1>3. CASE Cancel
  BY <1>0, <1>3, OnCancelStep DEF Cancel, OnCancel, IdsOf
<1>4. ASSUME NEW p \in TouchPoint, Down(p) PROVE AllTold' /\ Whole
  <2>1. OnDown(p)
    BY <1>4 DEF Down
  <2>2. Whole
    BY <2>1 DEF OnDown
  <2>3. CASE p.id \in IdsOf(Active) \/ count < MaxPoints
    <3>1. told' = told \cup {p.id}
      BY <2>1, <2>3, PlacesOfActive DEF OnDown
    <3>2. Active' \subseteq Active \cup {p}
      BY <1>0, <2>1, OnDownStep DEF Without
    <3>. QED  BY <2>2, <3>1, <3>2 DEF IdsOf
  <2>4. CASE p.id \notin IdsOf(Active) /\ count = MaxPoints
    <3>1. Active' = Active
      BY <1>0, <2>1, <2>4, OnDownStep, PointsAssumption DEF TouchTypeOK
    <3>2. told \subseteq told'
      BY <2>1 DEF OnDown
    <3>. QED  BY <2>2, <3>1, <3>2
  <2>. QED  BY <1>0, <2>3, <2>4, PointsAssumption DEF TouchTypeOK
<1>5. ASSUME NEW p \in TouchPoint, Motion(p) PROVE AllTold' /\ Whole
  <2>1. OnMotion(p) /\ told' = told
    BY <1>5 DEF Motion, OnMotion
  <2>2. Whole
    BY <2>1, PlacesOfActive DEF OnMotion
  <2>3. IdsOf(Active') \subseteq IdsOf(Active)
    BY <1>0, <2>1, OnMotionStep DEF Without, IdsOf
  <2>. QED  BY <2>1, <2>2, <2>3 DEF IdsOf
<1>6. ASSUME NEW id \in Ids, Up(id) PROVE AllTold' /\ Whole
  <2>1. OnUp(id)
    BY <1>6 DEF Up
  <2>2. Whole
    BY <2>1, PlacesOfActive DEF OnUp
  <2>3. CASE id \in IdsOf(Active)
    <3>1. Active' = Without(Active, id) /\ told' = told \ {id}
      BY <1>0, <2>1, <2>3, OnUpStep, PlacesOfActive DEF OnUp
    <3>. QED  BY <2>2, <3>1 DEF Without, IdsOf
  <2>4. CASE id \notin IdsOf(Active)
    <3>1. Active' = Active /\ told' = told
      BY <1>0, <2>1, <2>4, OnUpStep, PlacesOfActive DEF OnUp
    <3>. QED  BY <2>2, <3>1
  <2>. QED  BY <2>3, <2>4
<1>7. CASE UNCHANGED touchVars
  BY <1>0, <1>7, Unchanged DEF touchVars
<1>. QED  BY <1>1, <1>2, <1>3, <1>4, <1>5, <1>6, <1>7 DEF TouchNext

(* The App is told of a motion or a lift only of a contact it was told of   *)
(* and that has not ended since, however many contacts there are and        *)
(* however often touch comes and goes.                                      *)
THEOREM WholeContacts == TouchSpec => AppSeesWholeContacts
<1>1. TouchInit => AllTold
  BY TableInit DEF TouchInit, AllTold, IdsOf
<1>2. (TableInv /\ AllTold) /\ [TouchNext]_touchVars => AllTold'
  BY ToldStep
<1>3. (TableInv /\ AllTold) /\ [TouchNext]_touchVars
        => [\A c \in call' : c[1] \in {"up", "motion"} => c[2] \in told]_touchVars
  BY ToldStep
<1>. QED  BY <1>1, <1>2, <1>3, TableInvariant, PTL DEF TouchSpec, AppSeesWholeContacts
=============================================================================
