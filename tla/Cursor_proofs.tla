---------------------------- MODULE Cursor_proofs ----------------------------
(***************************************************************************)
(* For any App of the examples, any shapes, any number of pointers, enters *)
(* and themes, any compositor and any events in flight: what the cursor    *)
(* manager holds, and that the pointer shows what the App asked for.       *)
(***************************************************************************)
EXTENDS Cursor, SequenceTheorems, TLAPS

EventAt(n) == [type : {"gain", "lose", "enter", "leave"}, serial : 0..n]

(* The pointer neither enters nor is lost with the events before the i-th. *)
Quiet(q, j, i) == \A k \in j..(i - 1) : q[k].type \notin {"enter", "lose"}

(* The last enter is told already, or is in flight, and after it comes     *)
(* neither another one nor the loss of the pointer.                        *)
Settled(told, q, last) ==
  \/ told /\ Quiet(q, 1, Len(q) + 1)
  \/ \E i \in DOMAIN q : /\ q[i].type = "enter" /\ q[i].serial = last
                         /\ Quiet(q, i + 1, Len(q) + 1)

LEMMA SettledDispatched ==
  ASSUME NEW S, NEW q \in Seq(S), q # << >>, NEW told \in BOOLEAN, NEW told2 \in BOOLEAN,
         NEW last, Settled(told, q, last),
         Head(q).type = "enter" /\ Head(q).serial = last => told2,
         Head(q).type \notin {"enter", "lose"} /\ told => told2
  PROVE  Settled(told2, Tail(q), last)
<1>. DEFINE r == Tail(q)
<1>1. /\ Len(q) \in Nat /\ Len(q) >= 1 /\ DOMAIN q = 1..Len(q) /\ Head(q) = q[1]
      /\ Len(r) = Len(q) - 1 /\ DOMAIN r = 1..(Len(q) - 1)
      /\ \A i \in 1..(Len(q) - 1) : r[i] = q[i + 1]
  BY HeadTailProperties
<1>. HIDE DEF r
<1>2. CASE told /\ Quiet(q, 1, Len(q) + 1)
  <2>1. q[1].type \notin {"enter", "lose"}
    BY <1>1, <1>2 DEF Quiet
  <2>2. Quiet(r, 1, Len(r) + 1)
    BY <1>1, <1>2 DEF Quiet
  <2>. QED  BY <1>1, <1>2, <2>1, <2>2 DEF Settled, r
<1>3. ASSUME NEW i \in DOMAIN q, q[i].type = "enter", q[i].serial = last,
             Quiet(q, i + 1, Len(q) + 1)
      PROVE  Settled(told2, r, last)
  <2>1. CASE i = 1
    <3>1. Quiet(r, 1, Len(r) + 1)
      BY <1>1, <1>3, <2>1 DEF Quiet
    <3>2. told2
      BY <1>1, <1>3, <2>1
    <3>. QED  BY <3>1, <3>2 DEF Settled
  <2>2. CASE i # 1
    <3>1. i - 1 \in DOMAIN r /\ r[i - 1] = q[i]
      BY <1>1, <2>2
    <3>2. Quiet(r, (i - 1) + 1, Len(r) + 1)
      BY <1>1, <1>3, <2>2 DEF Quiet
    <3>. QED  BY <1>3, <3>1, <3>2 DEF Settled
  <2>. QED  BY <2>1, <2>2
<1>. QED  BY <1>2, <1>3 DEF Settled, r

LEMMA SettledAppended ==
  ASSUME NEW S, NEW q \in Seq(S), NEW e \in S, NEW told \in BOOLEAN, NEW last
  PROVE  /\ Settled(told, q, last) /\ e.type \notin {"enter", "lose"} =>
              Settled(told, Append(q, e), last)
         /\ e.type = "enter" => Settled(told, Append(q, e), e.serial)
<1>. DEFINE r == Append(q, e)
<1>1. /\ Len(q) \in Nat /\ DOMAIN q = 1..Len(q)
      /\ DOMAIN r = 1..(Len(q) + 1) /\ Len(r) = Len(q) + 1
      /\ \A i \in 1..Len(q) : r[i] = q[i]
      /\ r[Len(q) + 1] = e
  BY AppendProperties
<1>. HIDE DEF r
<1>2. ASSUME e.type \notin {"enter", "lose"}, Settled(told, q, last)
      PROVE  Settled(told, r, last)
  <2>1. CASE told /\ Quiet(q, 1, Len(q) + 1)
    BY <1>1, <1>2, <2>1 DEF Settled, Quiet
  <2>2. ASSUME NEW i \in DOMAIN q, q[i].type = "enter", q[i].serial = last,
               Quiet(q, i + 1, Len(q) + 1)
        PROVE  Settled(told, r, last)
    <3>1. i \in DOMAIN r /\ r[i] = q[i] /\ Quiet(r, i + 1, Len(r) + 1)
      BY <1>1, <1>2, <2>2 DEF Quiet
    <3>. QED  BY <2>2, <3>1 DEF Settled
  <2>. QED  BY <1>2, <2>1, <2>2 DEF Settled
<1>3. ASSUME e.type = "enter"
      PROVE  Settled(told, r, e.serial)
  <2>1. Len(q) + 1 \in DOMAIN r /\ Quiet(r, (Len(q) + 1) + 1, Len(r) + 1)
    BY <1>1 DEF Quiet
  <2>. QED  BY <1>1, <1>3, <2>1 DEF Settled
<1>. QED  BY <1>2, <1>3 DEF r
-----------------------------------------------------------------------------
(* What the manager keeps is of the last enter that was told; its cursor   *)
(* is of the loaded theme, which resolves the name, while current_ is set. *)
HeldShape ==
  /\ current # Null => cursor = Of(current, theme) /\ current \in known
  /\ cursor # NoCursor =>
       /\ theme # 0 /\ surface /\ entered # 0
       /\ pointer = entered /\ serial = enter_serial
       /\ current = Null => cursor.theme # theme

(* What the App wants is that shape, or to hide the cursor.                *)
WantedShape ==
  wanted # Null => IF wanted = "hidden" THEN cursor = NoCursor ELSE wanted = current

(* The App knows of the last enter, and has the wl_pointer it came through.*)
Told == enter_serial = enters /\ entered = wlptr /\ wlptr # 0

(* Then the compositor shows what was sent.                                *)
OnScreen ==
  focus /\ Told /\ ~unsent =>
    /\ current # Null => shown = Of(current, theme)
    /\ wanted = "hidden" => shown = Hidden

IInv ==
  /\ TypeOK /\ HeldShape /\ WantedShape /\ OnScreen
  /\ focus => Settled(Told, events, enters)

LEMMA Bounds == MaxPointers \in Nat /\ MaxEnters \in Nat /\ MaxThemes \in Nat
BY BoundsAssumption

LEMMA InitIInv == Init => IInv
<1>. SUFFICES ASSUME Init PROVE IInv
  OBVIOUS
<1>1. TypeOK
  <2>1. events \in Seq([type : {"gain", "lose", "enter", "leave"}, serial : 0..enters])
    BY EmptySeq DEF Init
  <2>2. /\ wlptr \in 0..pointers /\ pointers \in 0..MaxPointers /\ pointer \in 0..pointers
        /\ enter_serial \in 0..enters /\ serial \in 0..enters /\ enters \in 0..MaxEnters
        /\ entered \in 0..pointers
    BY Bounds DEF Init
  <2>3. themes \in 0..MaxThemes /\ theme \in 0..themes
    BY Bounds DEF Init
  <2>4. /\ cursor \in [shape : Shapes, theme : 1..themes] \cup {NoCursor}
        /\ shown \in [shape : Shapes, theme : 1..themes] \cup {NoCursor, Hidden}
    BY DEF Init
  <2>. QED  BY <2>1, <2>2, <2>3, <2>4 DEF Init, TypeOK
<1>2. HeldShape /\ WantedShape /\ OnScreen
  BY DEF Init, HeldShape, WantedShape, OnScreen, NoCursor, Null
<1>. QED  BY <1>1, <1>2 DEF IInv, Init
-----------------------------------------------------------------------------
(* What Set stores has the type of the state.                              *)
LEMMA ApplyTyped ==
  ASSUME TypeOK, NEW p \in 0..pointers, NEW n \in 0..enters, NEW name \in Shapes,
         NEW t \in 1..themes', themes' \in themes..MaxThemes,
         Apply(p, n, name, t)
  PROVE  /\ pointer' \in 0..pointers /\ serial' \in 0..enters
         /\ current' \in Shapes \cup {Null} /\ unsent' \in BOOLEAN
         /\ cursor' \in [shape : Shapes, theme : 1..themes'] \cup {NoCursor}
         /\ shown' \in [shape : Shapes, theme : 1..themes'] \cup {NoCursor, Hidden}
         /\ timer' \in {"none", "off", "armed", "expired"}
<1>1. Of(name, t) \in [shape : Shapes, theme : 1..themes']
  BY DEF Of
<1>2. shown \in [shape : Shapes, theme : 1..themes'] \cup {NoCursor, Hidden}
  BY DEF TypeOK
<1>3. shown' \in {shown, Of(name, t)} /\ unsent' \in BOOLEAN
  BY DEF Apply, ApplyImage, SetCursor
<1>. QED  BY <1>1, <1>2, <1>3 DEF TypeOK, Apply, Timer

LEMMA SetTyped ==
  ASSUME TypeOK, NEW name \in Shapes, Set(name), UNCHANGED themes
  PROVE  /\ pointer' \in 0..pointers /\ serial' \in 0..enters
         /\ current' \in Shapes \cup {Null} /\ unsent' \in BOOLEAN
         /\ cursor' \in [shape : Shapes, theme : 1..themes] \cup {NoCursor}
         /\ shown' \in [shape : Shapes, theme : 1..themes] \cup {NoCursor, Hidden}
         /\ timer' \in {"none", "off", "armed", "expired"}
         /\ wanted' \in Shapes \cup {Null, "hidden"}
<1>. USE Bounds
<1>1. CASE Ready(wlptr, theme) /\ wanted' = name /\ Apply(wlptr, enter_serial, name, theme)
  <2>1. /\ wlptr \in 0..pointers /\ enter_serial \in 0..enters /\ theme \in 1..themes'
        /\ themes' \in themes..MaxThemes /\ themes' = themes
    BY <1>1 DEF TypeOK, Ready
  <2>. QED  BY <1>1, <2>1, ApplyTyped
<1>2. CASE wanted' \in {Null, wanted} /\ UNCHANGED <<shape, screen>>
  BY <1>2 DEF TypeOK, shape, held, screen
<1>3. CASE AlreadySet(name)
  BY <1>3 DEF TypeOK, AlreadySet, screen
<1>. QED  BY <1>1, <1>2, <1>3 DEF Set

LEMMA NextTypeOK == TypeOK /\ [Next]_vars => TypeOK'
<1>. SUFFICES ASSUME TypeOK, [Next]_vars PROVE TypeOK'
  OBVIOUS
<1>. USE Bounds
<1>1. CASE UNCHANGED vars
  BY <1>1 DEF TypeOK, vars, seat, app, loaded, shape, held, screen, server
<1>2. CASE Hide
  BY <1>2 DEF TypeOK, Hide, SetCursor, Reset, Timer, seat, loaded, server
<1>3. CASE InitManager \/ Release
  <2>1. /\ themes' \in 0..MaxThemes /\ theme' \in 0..themes' /\ surface' \in BOOLEAN
        /\ known' \in SUBSET Shapes /\ scale' \in {1, 2} /\ timer' \in {"none", "off", "armed", "expired"}
    <3>0. themes \in 0..MaxThemes /\ scale \in {1, 2}
      BY DEF TypeOK
    <3>1. CASE InitManager
      <4>0. /\ surface' \in BOOLEAN /\ known' \in SUBSET Shapes
            /\ \/ themes < MaxThemes /\ themes' = themes + 1 /\ theme' = themes'
               \/ themes' = themes /\ theme' = 0
        BY <3>1 DEF InitManager, NewTheme
      <4>1. /\ themes' \in 0..MaxThemes /\ theme' \in 0..themes' /\ surface' \in BOOLEAN
            /\ known' \in SUBSET Shapes
        BY <3>0, <4>0
      <4>2. timer' \in {"none", "off", "armed", "expired"} /\ scale' = 1
        BY <3>1 DEF InitManager
      <4>. QED  BY <4>1, <4>2
    <3>2. CASE Release
      <4>1. /\ themes' = themes /\ scale' = scale
            /\ theme' = 0 /\ known' = {} /\ surface' = FALSE /\ timer' = "none"
        BY <3>2 DEF Release
      <4>2. themes' \in 0..MaxThemes /\ theme' \in 0..themes'
        BY <3>0, <4>1
      <4>. QED  BY <3>0, <4>1, <4>2
    <3>. QED  BY <1>3, <3>1, <3>2
  <2>2. /\ current' = Null /\ cursor' = NoCursor /\ wanted' = Null
        /\ shown' \in {NoCursor, Hidden}
        /\ UNCHANGED <<polled, pointer, serial, unsent, seat, hover, enter_serial, entered, server, events>>
    BY <1>3 DEF InitManager, Release, Unload
  <2>. QED  BY <2>1, <2>2 DEF TypeOK, seat, server
<1>5. CASE Poll
  BY <1>5 DEF TypeOK, Poll, held, screen, loaded, app, seat, server
<1>6. CASE DispatchFrame
  <2>1. /\ shown' \in {shown, cursor} /\ unsent' \in {unsent, FALSE}
        /\ timer' \in {timer, "none", "armed"} /\ polled' = FALSE
        /\ UNCHANGED <<held, loaded, app, seat, server, events>>
    BY <1>6 DEF DispatchFrame, SetCursor, Timer, screen
  <2>2. /\ shown' \in [shape : Shapes, theme : 1..themes] \cup {NoCursor, Hidden}
        /\ timer' \in {"none", "off", "armed", "expired"} /\ polled' \in BOOLEAN
        /\ unsent' \in BOOLEAN
    BY <2>1 DEF TypeOK
  <2>. QED  BY <2>1, <2>2 DEF TypeOK, held, loaded, app, seat, server
<1>7. ASSUME NEW name \in Shapes, OnPointerMotion(name)
      PROVE  TypeOK'
  <2>1. Set(name) /\ UNCHANGED themes
    BY <1>7 DEF OnPointerMotion, loaded
  <2>. QED  BY <1>7, <2>1, SetTyped DEF TypeOK, OnPointerMotion, seat, loaded, server
<1>8. ASSUME NEW s \in {1, 2}, SetScale(s)
      PROVE  TypeOK'
  <2>1. themes' \in themes..MaxThemes /\ theme' \in 1..themes' /\ known' \in SUBSET Shapes
    BY <1>8 DEF TypeOK, SetScale, LoadTheme, NewTheme
  <2>2. CASE /\ current # Null /\ Apply(pointer, serial, current, theme')
             /\ UNCHANGED wanted
    <3>1. pointer \in 0..pointers /\ serial \in 0..enters /\ current \in Shapes
      BY <2>2 DEF TypeOK
    <3>. QED  BY <1>8, <2>1, <2>2, <3>1, ApplyTyped DEF TypeOK, SetScale, seat, server
  <2>3. CASE /\ current' = Null /\ wanted' \in {Null, wanted}
             /\ UNCHANGED <<cursor, pointer, serial, timer, screen>>
    BY <1>8, <2>1, <2>3 DEF TypeOK, SetScale, screen, seat, server
  <2>. QED  BY <1>8, <2>2, <2>3 DEF SetScale, Reapply
<1>9. CASE Dispatch
  <2>. DEFINE e == Head(events)
  <2>1. /\ e \in EventAt(enters) /\ enters' = enters
        /\ events' \in Seq(EventAt(enters))
    BY <1>9, HeadTailProperties DEF Dispatch, TypeOK, EventAt, server
  <2>. HIDE DEF e
  <2>2. CASE OnCapabilities(e)
    BY <1>9, <2>1, <2>2 DEF TypeOK, Dispatch, OnCapabilities, EventAt, seat, app, shape, held, screen, loaded, server
  <2>3. CASE OnPointerEnter(e)
    <3>1. e.serial \in 0..enters /\ wlptr \in 0..pointers
      BY <2>1 DEF EventAt, TypeOK
    <3>2. CASE wanted' = Null /\ Reset /\ UNCHANGED screen
      BY <1>9, <2>1, <2>3, <3>1, <3>2
         DEF TypeOK, Dispatch, OnPointerEnter, Reset, Timer, screen, EventAt, seat, loaded, server
    <3>3. ASSUME NEW name \in known, Ready(wlptr, theme), wanted' = name,
                 Apply(wlptr, e.serial, name, theme)
          PROVE  TypeOK'
      <4>1. /\ name \in Shapes /\ theme \in 1..themes' /\ themes' \in themes..MaxThemes
            /\ themes' = themes
        BY <1>9, <3>3 DEF TypeOK, Ready, Dispatch, loaded
      <4>2. /\ pointer' \in 0..pointers /\ serial' \in 0..enters
            /\ current' \in Shapes \cup {Null} /\ unsent' \in BOOLEAN
            /\ cursor' \in [shape : Shapes, theme : 1..themes'] \cup {NoCursor}
            /\ shown' \in [shape : Shapes, theme : 1..themes'] \cup {NoCursor, Hidden}
            /\ timer' \in {"none", "off", "armed", "expired"}
        BY <3>1, <3>3, <4>1, ApplyTyped
      <4>. QED  BY <1>9, <2>1, <2>3, <3>1, <3>3, <4>1, <4>2
                DEF TypeOK, Dispatch, OnPointerEnter, EventAt, seat, loaded, server
    <3>. QED  BY <2>3, <3>2, <3>3 DEF OnPointerEnter
  <2>4. CASE OnPointerLeave(e)
    <3>1. /\ hover' = FALSE /\ wanted' = Null
          /\ UNCHANGED <<polled, seat, enter_serial, entered, screen, loaded, server>>
          /\ pointer' = pointer /\ serial' = serial
      BY <1>9, <2>4 DEF Dispatch, OnPointerLeave, Reset, shape, held
    <3>2. /\ current' \in {current, Null} /\ cursor' \in {cursor, NoCursor}
          /\ timer' \in {timer, "none", "off"}
      BY <2>4 DEF OnPointerLeave, Reset, Timer, shape, held
    <3>3. /\ current' \in Shapes \cup {Null} /\ timer' \in {"none", "off", "armed", "expired"}
          /\ cursor' \in [shape : Shapes, theme : 1..themes] \cup {NoCursor}
      BY <3>2 DEF TypeOK
    <3>. QED  BY <2>1, <3>1, <3>3 DEF TypeOK, EventAt, screen, seat, loaded, server
  <2>. QED  BY <1>9, <2>2, <2>3, <2>4 DEF Dispatch, e
<1>10. CASE GainPointer \/ Leave \/ LosePointer
  <2>1. /\ Event("gain", 0) \in EventAt(enters) /\ Event("leave", 0) \in EventAt(enters)
        /\ Event("lose", 0) \in EventAt(enters)
    BY DEF TypeOK, Event, EventAt
  <2>2. events' \in Seq(EventAt(enters))
    <3>1. \A e \in EventAt(enters) : Append(events, e) \in Seq(EventAt(enters))
      BY AppendProperties DEF TypeOK, EventAt
    <3>. QED  BY <1>10, <2>1, <3>1 DEF GainPointer, Leave, LosePointer
  <2>3. /\ UNCHANGED <<polled, seat, app, loaded, shape, unsent, enters>>
        /\ has_pointer' \in {has_pointer, TRUE, FALSE} /\ focus' \in {focus, FALSE}
        /\ shown' \in {shown, NoCursor}
    BY <1>10 DEF GainPointer, Leave, LosePointer, screen
  <2>4. /\ has_pointer' \in BOOLEAN /\ focus' \in BOOLEAN
        /\ shown' \in [shape : Shapes, theme : 1..themes] \cup {NoCursor, Hidden}
    BY <2>3 DEF TypeOK
  <2>. QED  BY <2>2, <2>3, <2>4 DEF TypeOK, EventAt, seat, app, loaded, shape, held
<1>11. CASE Enter
  <2>1. enters' \in 1..MaxEnters /\ enters' = enters + 1
    BY <1>11 DEF TypeOK, Enter
  <2>2. EventAt(enters) \subseteq EventAt(enters') /\ Event("enter", enters') \in EventAt(enters')
    BY <2>1 DEF EventAt, Event, TypeOK
  <2>3. events \in Seq(EventAt(enters'))
    BY <2>2, SeqMonotonic DEF TypeOK, EventAt
  <2>4. events' \in Seq(EventAt(enters'))
    BY <1>11, <2>2, <2>3, AppendProperties DEF Enter
  <2>. QED  BY <1>11, <2>1, <2>4 DEF TypeOK, Enter, EventAt, seat, app, loaded, shape, held
<1>. QED
  BY <1>1, <1>2, <1>3, <1>5, <1>6, <1>7, <1>8, <1>9, <1>10, <1>11 DEF Next
-----------------------------------------------------------------------------
(* What is in flight, and what the App knows.                              *)
LEMMA NextQueue ==
  ASSUME IInv, [Next]_vars
  PROVE  focus' => Settled(Told', events', enters')
<1>1. /\ events \in Seq(EventAt(enters)) /\ Told \in BOOLEAN /\ Told' \in BOOLEAN
      /\ focus => Settled(Told, events, enters)
  BY DEF IInv, TypeOK, EventAt, Told
<1>2. ASSUME UNCHANGED <<events, focus, enter_serial, entered, wlptr, enters>>
      PROVE  focus' => Settled(Told', events', enters')
  <2>1. Told' = Told
    BY <1>2 DEF Told
  <2>. QED  BY <1>1, <1>2, <2>1
<1>3. CASE Dispatch
  <2>. DEFINE e == Head(events)
  <2>1. /\ events # << >> /\ events' = Tail(events)
        /\ UNCHANGED <<focus, enters>>
    BY <1>3 DEF Dispatch, server
  <2>2. e.type = "enter" /\ e.serial = enters => Told'
    BY <1>3, <2>1 DEF Dispatch, OnCapabilities, OnPointerEnter, OnPointerLeave, Told, seat
  <2>3. e.type \notin {"enter", "lose"} /\ Told => Told'
    BY <1>3, <2>1 DEF Dispatch, OnCapabilities, OnPointerEnter, OnPointerLeave, Told, seat, app
  <2>. HIDE DEF e
  <2>4. focus => Settled(Told', Tail(events), enters)
    BY <1>1, <2>1, <2>2, <2>3, SettledDispatched DEF e
  <2>. QED  BY <2>1, <2>4
<1>4. CASE GainPointer \/ Leave \/ LosePointer
  <2>1. CASE Leave \/ LosePointer
    BY <2>1 DEF Leave, LosePointer
  <2>2. CASE GainPointer
    <3>. DEFINE e == Event("gain", 0)
    <3>1. /\ events' = Append(events, e) /\ e \in EventAt(enters) /\ e.type = "gain"
          /\ UNCHANGED <<enter_serial, entered, wlptr, focus, enters>>
      BY <2>2 DEF GainPointer, Event, EventAt, IInv, TypeOK, app, seat
    <3>2. Told' = Told
      BY <3>1 DEF Told
    <3>. HIDE DEF e
    <3>3. Settled(Told, events, enters) => Settled(Told, Append(events, e), enters)
      BY <1>1, <3>1, SettledAppended
    <3>. QED  BY <1>1, <3>1, <3>2, <3>3
  <2>. QED  BY <1>4, <2>1, <2>2
<1>5. CASE Enter
  <2>. DEFINE e == Event("enter", enters')
  <2>1. events' = Append(events, e) /\ e.type = "enter" /\ e.serial = enters'
    BY <1>5 DEF Enter, Event
  <2>2. e \in EventAt(enters') /\ events \in Seq(EventAt(enters'))
    <3>1. enters' = enters + 1 /\ enters \in Nat
      BY <1>5, Bounds DEF Enter, IInv, TypeOK
    <3>2. EventAt(enters) \subseteq EventAt(enters') /\ e \in EventAt(enters')
      BY <3>1 DEF EventAt, Event
    <3>. QED  BY <1>1, <3>2, SeqMonotonic
  <2>. HIDE DEF e
  <2>3. Settled(Told', Append(events, e), enters')
    BY <1>1, <2>1, <2>2, SettledAppended
  <2>. QED  BY <2>1, <2>3
<1>6. CASE UNCHANGED vars
  BY <1>2, <1>6 DEF vars, app, seat, server
<1>7. CASE Hide \/ InitManager \/ Release \/ Poll \/ DispatchFrame
  BY <1>2, <1>7 DEF Hide, InitManager, Release, Unload, Poll, DispatchFrame, app, seat, server
<1>8. ASSUME NEW name \in Shapes, OnPointerMotion(name)
      PROVE  UNCHANGED <<events, focus, enter_serial, entered, wlptr, enters>>
  BY <1>8 DEF OnPointerMotion, server, seat
<1>9. ASSUME NEW s \in {1, 2}, SetScale(s)
      PROVE  UNCHANGED <<events, focus, enter_serial, entered, wlptr, enters>>
  BY <1>9 DEF SetScale, seat, server
<1>. QED
  BY <1>2, <1>3, <1>4, <1>5, <1>6, <1>7, <1>8, <1>9 DEF Next
-----------------------------------------------------------------------------
(* Applying a shape of the theme that is loaded makes the three hold.      *)
LEMMA Applied ==
  ASSUME NEW p, NEW n, NEW name \in Shapes, Apply(p, n, name, theme'),
         name \in known', theme' # 0, surface', p = entered', p # 0, n = enter_serial',
         wanted' \in {Null, name},
         UNCHANGED <<wlptr, focus, enters>>
  PROVE  HeldShape' /\ WantedShape' /\ OnScreen'
<1>. USE ShapesAssumption DEF Null
<1>1. /\ pointer' = p /\ serial' = n /\ current' = name /\ cursor' = Of(name, theme')
      /\ unsent' = FALSE => SetCursor(p, n, Of(name, theme'))
      /\ unsent' \in BOOLEAN
  BY DEF Apply, ApplyImage
<1>2. HeldShape'
  BY <1>1 DEF HeldShape
<1>3. WantedShape'
  BY <1>1 DEF WantedShape
<1>4. OnScreen'
  BY <1>1 DEF OnScreen, Told, SetCursor
<1>. QED  BY <1>2, <1>3, <1>4

(* So does forgetting it.                                                  *)
LEMMA Forgotten ==
  ASSUME current' = Null, cursor' = NoCursor, wanted' = Null
  PROVE  HeldShape' /\ WantedShape' /\ OnScreen'
BY DEF HeldShape, WantedShape, OnScreen, Null

(* And what changes none of it.                                            *)
LEMMA Undisturbed ==
  ASSUME HeldShape, WantedShape, OnScreen,
         UNCHANGED <<current, cursor, pointer, serial, theme, known, surface>>,
         UNCHANGED <<enter_serial, entered>>,
         wanted' \in {wanted, Null},
         focus' /\ Told' => focus /\ Told /\ UNCHANGED <<shown, unsent>>
  PROVE  HeldShape' /\ WantedShape' /\ OnScreen'
<1>1. HeldShape'
  BY DEF HeldShape, Of
<1>2. WantedShape'
  BY DEF WantedShape
<1>3. OnScreen'
  BY DEF OnScreen, Of, Null
<1>. QED  BY <1>1, <1>2, <1>3

LEMMA NextShape ==
  ASSUME IInv, [Next]_vars
  PROVE  HeldShape' /\ WantedShape' /\ OnScreen'
<1>. USE ShapesAssumption DEF Null
<1>1. TypeOK /\ HeldShape /\ WantedShape /\ OnScreen
  BY DEF IInv
<1>2. CASE UNCHANGED vars
  BY <1>1, <1>2, Undisturbed DEF Told, vars, seat, app, loaded, shape, held, screen, server
<1>3. CASE Hide
  <2>1. /\ current' = Null /\ cursor' = NoCursor /\ wanted' = "hidden"
        /\ SetCursor(wlptr, enter_serial, Hidden)
        /\ UNCHANGED <<wlptr, enter_serial, entered, focus, enters>>
    BY <1>3 DEF Hide, Reset, seat, server
  <2>. QED  BY <2>1 DEF HeldShape, WantedShape, OnScreen, Told, SetCursor
<1>4. CASE InitManager \/ Release
  BY <1>4, Forgotten DEF InitManager, Release, Unload
<1>5. CASE Poll
  BY <1>1, <1>5, Undisturbed DEF Poll, Told, held, screen, loaded, app, seat, server
<1>6. CASE DispatchFrame
  <2>1. UNCHANGED <<held, loaded, app, seat, server>>
    BY <1>6 DEF DispatchFrame
  <2>2. CASE UNCHANGED <<shown, unsent>>
    BY <1>1, <2>1, <2>2, Undisturbed DEF Told, held, loaded, app, seat, server
  <2>3. CASE cursor # NoCursor /\ SetCursor(pointer, serial, cursor)
    <3>1. HeldShape' /\ WantedShape'
      BY <1>1, <2>1 DEF HeldShape, WantedShape, Of, held, loaded, app
    <3>2. Told /\ focus => shown' = cursor
      BY <1>1, <2>3 DEF HeldShape, Told, SetCursor
    <3>3. OnScreen'
      BY <1>1, <2>1, <2>3, <3>2
         DEF HeldShape, WantedShape, OnScreen, Told, Of, held, loaded, app, seat, server
    <3>. QED  BY <3>1, <3>3
  <2>4. cursor.shape \in Animated => cursor # NoCursor
    BY DEF NoCursor
  <2>. QED  BY <1>6, <2>2, <2>3, <2>4 DEF DispatchFrame, screen
<1>7. ASSUME NEW name \in Shapes, OnPointerMotion(name)
      PROVE  HeldShape' /\ WantedShape' /\ OnScreen'
  <2>1. /\ Over /\ Set(name)
        /\ UNCHANGED <<wlptr, enter_serial, entered, loaded, focus, enters>>
    BY <1>7 DEF OnPointerMotion, seat, server
  <2>2. CASE wanted' \in {wanted, Null} /\ UNCHANGED <<shape, screen>>
    BY <1>1, <2>1, <2>2, Undisturbed DEF Told, loaded, shape, held, screen
  <2>3. CASE AlreadySet(name)
    <3>1. /\ current = name /\ wanted' = name /\ pointer' = wlptr /\ serial' = enter_serial
          /\ UNCHANGED <<current, cursor, shown, unsent>>
      BY <2>3 DEF AlreadySet, screen
    <3>2. /\ entered = wlptr /\ wlptr # 0
          /\ UNCHANGED <<wlptr, enter_serial, entered, theme, known, surface, focus, enters>>
      BY <2>1 DEF Over, loaded
    <3>3. HeldShape'
      BY <1>1, <3>1, <3>2 DEF HeldShape, Of
    <3>4. WantedShape' /\ OnScreen'
      BY <1>1, <3>1, <3>2 DEF WantedShape, OnScreen, Told, Of
    <3>. QED  BY <3>3, <3>4
  <2>4. CASE /\ Ready(wlptr, theme) /\ name \in known /\ wanted' = name
             /\ Apply(wlptr, enter_serial, name, theme)
    <3>1. /\ theme' # 0 /\ theme' = theme /\ surface' /\ name \in known'
          /\ wlptr = entered' /\ wlptr # 0 /\ enter_serial = enter_serial'
      BY <2>1, <2>4 DEF Over, Ready, loaded
    <3>. QED  BY <2>1, <2>4, <3>1, Applied
  <2>. QED  BY <2>1, <2>2, <2>3, <2>4 DEF Set
<1>8. ASSUME NEW s \in {1, 2}, SetScale(s)
      PROVE  HeldShape' /\ WantedShape' /\ OnScreen'
  <2>1. /\ theme # 0 /\ theme' # 0
        /\ UNCHANGED <<surface, wlptr, enter_serial, entered, focus, enters>>
        /\ \/ theme' = themes + 1 \/ (theme' = theme /\ known' = known)
    <3>1. /\ theme # 0
          /\ UNCHANGED <<surface, wlptr, enter_serial, entered, focus, enters>>
          /\ \/ theme' = themes + 1 \/ (theme' = theme /\ known' = known)
      BY <1>8 DEF SetScale, LoadTheme, NewTheme, seat, server
    <3>2. themes \in Nat
      BY <1>1, Bounds DEF TypeOK
    <3>. QED  BY <3>1, <3>2
  <2>2. CASE /\ current # Null /\ Ready(pointer, theme') /\ current \in known'
             /\ Apply(pointer, serial, current, theme') /\ UNCHANGED wanted
    <3>1. /\ current \in Shapes /\ cursor # NoCursor
      BY <1>1, <2>2 DEF TypeOK, HeldShape, Of, NoCursor
    <3>2. /\ pointer = entered' /\ pointer # 0 /\ serial = enter_serial' /\ surface'
      BY <1>1, <2>1, <3>1 DEF HeldShape
    <3>3. wanted' \in {Null, current} \/ wanted' = "hidden"
      BY <1>1, <2>2 DEF WantedShape
    <3>4. wanted' # "hidden"
      BY <1>1, <2>2, <3>1 DEF WantedShape
    <3>. QED  BY <2>1, <2>2, <3>1, <3>2, <3>3, <3>4, Applied
  <2>3. CASE /\ ~(current # Null /\ Ready(pointer, theme') /\ current \in known')
             /\ current' = Null /\ wanted' = IF wanted = current THEN Null ELSE wanted
             /\ UNCHANGED <<cursor, pointer, serial, timer, screen>>
    <3>1. current # Null => theme' = themes + 1
      <4>. SUFFICES ASSUME current # Null, theme' = theme, known' = known PROVE FALSE
        BY <2>1
      <4>1. cursor # NoCursor
        BY <1>1 DEF TypeOK, HeldShape, Of, NoCursor
      <4>. QED  BY <1>1, <2>1, <2>3, <4>1 DEF HeldShape, Ready
    <3>2. cursor # NoCursor => cursor.theme # theme'
      <4>. SUFFICES ASSUME cursor # NoCursor PROVE cursor.theme # theme'
        OBVIOUS
      <4>1. cursor.theme \in 1..themes /\ themes \in Nat
        BY <1>1, Bounds DEF TypeOK
      <4>. QED  BY <1>1, <2>1, <3>1, <4>1 DEF HeldShape
    <3>3. HeldShape'
      BY <1>1, <2>1, <2>3, <3>2 DEF HeldShape
    <3>4. wanted' \in {Null, "hidden"} /\ (wanted' = "hidden" => wanted = "hidden")
      BY <1>1, <2>3 DEF WantedShape
    <3>5. WantedShape' /\ OnScreen'
      BY <1>1, <2>1, <2>3, <3>4 DEF WantedShape, OnScreen, Told, screen
    <3>. QED  BY <3>3, <3>5
  <2>4. Reapply
    BY <1>8 DEF SetScale
  <2>. QED  BY <2>2, <2>3, <2>4 DEF Reapply
<1>9. CASE Dispatch
  <2>. DEFINE e == Head(events)
  <2>1. /\ UNCHANGED <<loaded, focus, enters>>
        /\ OnCapabilities(e) \/ OnPointerEnter(e) \/ OnPointerLeave(e)
    BY <1>9 DEF Dispatch, server
  <2>. HIDE DEF e
  <2>2. CASE OnCapabilities(e)
    <3>1. /\ UNCHANGED <<app, shape, screen>>
          /\ wlptr' = wlptr \/ wlptr' = 0 \/ wlptr' = pointers + 1
      BY <2>2 DEF OnCapabilities, seat
    <3>2. entered \in 0..pointers /\ pointers \in Nat
      BY <1>1, Bounds DEF TypeOK
    <3>3. Told' => Told
      BY <2>1, <3>1, <3>2 DEF Told, app
    <3>. QED  BY <1>1, <2>1, <3>1, <3>3, Undisturbed DEF app, shape, held, screen, loaded
  <2>3. CASE OnPointerEnter(e)
    <3>1. /\ wlptr # 0 /\ enter_serial' = e.serial /\ entered' = wlptr /\ wlptr' = wlptr
      BY <2>3 DEF OnPointerEnter, seat
    <3>2. CASE wanted' = Null /\ Reset
      BY <3>2, Forgotten DEF Reset
    <3>3. ASSUME NEW name \in known, Ready(wlptr, theme), wanted' = name,
                 Apply(wlptr, e.serial, name, theme)
          PROVE  HeldShape' /\ WantedShape' /\ OnScreen'
      <4>1. /\ name \in Shapes /\ theme' # 0 /\ theme' = theme /\ surface' /\ name \in known'
        BY <1>1, <2>1, <3>3 DEF TypeOK, Ready, loaded
      <4>. QED  BY <2>1, <3>1, <3>3, <4>1, Applied
    <3>. QED  BY <2>3, <3>2, <3>3 DEF OnPointerEnter
  <2>4. CASE OnPointerLeave(e)
    <3>1. CASE Reset
      BY <2>4, <3>1, Forgotten DEF OnPointerLeave, Reset
    <3>2. CASE UNCHANGED shape
      BY <1>1, <2>1, <2>4, <3>2, Undisturbed DEF OnPointerLeave, Told, shape, held, screen, loaded, seat
    <3>. QED  BY <2>4, <3>1, <3>2 DEF OnPointerLeave
  <2>. QED  BY <2>1, <2>2, <2>3, <2>4
<1>10. CASE GainPointer \/ Leave \/ LosePointer
  <2>1. /\ UNCHANGED <<seat, app, loaded, shape, enters>>
        /\ focus' => focus /\ shown' = shown /\ unsent' = unsent
    BY <1>10 DEF GainPointer, Leave, LosePointer, screen
  <2>. QED  BY <1>1, <2>1, Undisturbed DEF Told, seat, app, loaded, shape, held
<1>11. CASE Enter
  <2>1. UNCHANGED <<seat, app, loaded, shape>> /\ enters' = enters + 1
    BY <1>11 DEF Enter
  <2>2. ~Told'
    BY <1>1, <2>1, Bounds DEF TypeOK, Told, app
  <2>. QED  BY <1>1, <2>1, <2>2, Undisturbed DEF app, loaded, shape, held
<1>. QED
  BY <1>2, <1>3, <1>4, <1>5, <1>6, <1>7, <1>8, <1>9, <1>10, <1>11 DEF Next
-----------------------------------------------------------------------------
(* Each variable keeps its type; in particular a serial that was stored is *)
(* never one that the compositor has not sent, and a theme that is named   *)
(* was loaded (include/wl/cursor.hpp).                                     *)
THEOREM CursorTypeOK == Spec => []TypeOK
<1>1. Init => TypeOK
  BY InitIInv DEF IInv
<1>. QED  BY <1>1, NextTypeOK, PTL DEF Spec

LEMMA Invariance == Spec => []IInv
<1>1. IInv /\ [Next]_vars => IInv'
  BY NextTypeOK, NextQueue, NextShape DEF IInv
<1>. QED  BY <1>1, InitIInv, PTL DEF Spec

(* What may dangle, and what never does: pointer_ is the wl_pointer of the *)
(* last enter, whether or not that one lives on, and the shape is of the   *)
(* loaded theme as long as current_ names it, as Set and SetScale rely on. *)
THEOREM WhatIsHeld == Spec => []HoldsLiveObjects
<1>1. IInv => HoldsLiveObjects
  BY DEF IInv, HeldShape, HoldsLiveObjects
<1>. QED  BY <1>1, Invariance, PTL

(* The pointer shows what the App asked for, however its requests, the     *)
(* events, the frame timer, a change of the scale, the loading of themes   *)
(* and pointers that come and go, with or without a leave, interleave.     *)
THEOREM AskedIsShown == Spec => []ShapeShown
<1>1. IInv => ShapeShown
  <2>. SUFFICES ASSUME IInv, events = << >>, focus, wanted # Null, ~unsent
                PROVE  shown = IF wanted = "hidden" THEN Hidden ELSE Of(wanted, theme)
    BY DEF ShapeShown
  <2>1. Told
    BY DEF IInv, Settled
  <2>. QED  BY <2>1 DEF IInv, WantedShape, OnScreen
<1>. QED  BY <1>1, Invariance, PTL
=============================================================================
