------------------------------- MODULE Cursor -------------------------------
(***************************************************************************)
(* wl::CursorManager (include/wl/cursor.hpp) on the pointer of a           *)
(* wl::SeatManager (include/wl/seat.hpp), an App that sets shapes, and the *)
(* compositor.  The manager keeps a plain pointer to the wl_pointer it was *)
(* last given, and one into the theme; the seat destroys the wl_pointer    *)
(* when the capability is lost.                                            *)
(*                                                                         *)
(* wl_pointer objects and themes are numbered as they are created; the     *)
(* images of a theme are told apart by their shape.  Events travel in a    *)
(* channel; a set_cursor request is applied when it is sent, and ignored   *)
(* by the compositor unless it carries the serial of the last enter.  A    *)
(* theme may lack a cursor for a name, and an image may have no buffer.    *)
(*                                                                         *)
(* The App is any of the examples.  All of them forget the shape when the  *)
(* pointer enters and ask for one, there or later; the Dear ImGui back end *)
(* also forgets it when the pointer leaves.                                *)
(***************************************************************************)
EXTENDS Integers, Sequences

CONSTANTS
  Shapes,          \* shape names the App uses
  Animated,        \* those of them with more than one image
  MaxPointers,     \* bound: wl_pointer objects
  MaxEnters,       \* bound: enter events
  MaxThemes        \* bound: themes loaded

ASSUME ShapesAssumption == Animated \subseteq Shapes /\ {"null", "hidden"} \cap Shapes = {}
ASSUME BoundsAssumption == {MaxPointers, MaxEnters, MaxThemes} \subseteq Nat

VARIABLES
  wlptr,        \* the wl_pointer that SeatManager holds, 0 for none
  pointers,     \* wl_pointer objects created so far
  hover,        \* App: the pointer is over a surface of the App
  enter_serial, \* App: the serial of the last enter it was told of
  entered,      \* App: the wl_pointer which that enter came through
  wanted,       \* App: what it asked for last since that enter and the theme has, or Null
  theme,        \* theme_, 0 for null
  themes,       \* themes loaded so far
  known,        \* the names that wl_cursor_theme_get_cursor resolves in the theme
  surface,      \* surface_ is not null
  scale,        \* scale_
  current,      \* current_
  cursor,       \* cursor_: a shape of a theme, or Null
  pointer,      \* pointer_
  serial,       \* serial_
  unsent,       \* the image of the shape had no buffer, so that it was not sent
  timer,        \* the timer of frame_fd_: "none" without the descriptor
  polled,       \* the loop found the timer expired and is about to call DispatchFrame
  has_pointer,  \* compositor: the seat has the pointer capability
  focus,        \* compositor: the pointer is over a surface of the App
  enters,       \* compositor: serial of the last enter
  shown,        \* compositor: what the pointer shows since that enter
  events        \* events in flight

app == <<hover, enter_serial, entered, wanted>>
loaded == <<theme, themes, known, surface, scale>>
held == <<current, cursor, pointer, serial>>
shape == <<held, timer>>
screen == <<shown, unsent>>
seat == <<wlptr, pointers>>
server == <<has_pointer, focus, enters>>
vars == <<seat, app, loaded, shape, polled, server, screen, events>>

Null == "null"
NoCursor == [shape |-> Null, theme |-> 0]
Hidden == [shape |-> "hidden", theme |-> 0]
Event(type, n) == [type |-> type, serial |-> n]

TypeOK ==
  /\ wlptr \in 0..pointers /\ pointers \in 0..MaxPointers /\ pointer \in 0..pointers
  /\ hover \in BOOLEAN /\ enter_serial \in 0..enters /\ serial \in 0..enters
  /\ wanted \in Shapes \cup {Null, "hidden"} /\ entered \in 0..pointers
  /\ themes \in 0..MaxThemes /\ theme \in 0..themes
  /\ known \in SUBSET Shapes /\ unsent \in BOOLEAN
  /\ surface \in BOOLEAN /\ scale \in {1, 2}
  /\ current \in Shapes \cup {Null}
  /\ cursor \in [shape : Shapes, theme : 1..themes] \cup {NoCursor}
  /\ shown \in [shape : Shapes, theme : 1..themes] \cup {NoCursor, Hidden}
  /\ timer \in {"none", "off", "armed", "expired"} /\ polled \in BOOLEAN
  /\ has_pointer \in BOOLEAN /\ focus \in BOOLEAN /\ enters \in 0..MaxEnters
  /\ events \in Seq([type : {"gain", "lose", "enter", "leave"}, serial : 0..enters])

Init ==
  /\ wlptr = 0 /\ pointers = 0
  /\ hover = FALSE /\ enter_serial = 0 /\ entered = 0 /\ wanted = Null
  /\ theme = 0 /\ themes = 0 /\ known = {} /\ surface = FALSE /\ scale = 1
  /\ current = Null /\ cursor = NoCursor /\ pointer = 0 /\ serial = 0 /\ timer = "none"
  /\ polled = FALSE
  /\ has_pointer = FALSE /\ focus = FALSE /\ enters = 0 /\ shown = NoCursor /\ unsent = FALSE
  /\ events = <<>>
-----------------------------------------------------------------------------
(* wl_pointer.set_cursor on object p.                                        *)
SetCursor(p, n, image) ==
  shown' = IF p = wlptr /\ focus /\ n = enters THEN image ELSE shown

(* The cursor of a name in theme t.                                          *)
Of(name, t) == [shape |-> name, theme |-> t]

Timer(state) == IF timer = "none" THEN "none" ELSE state

(* ApplyImage sends nothing if the image has no buffer.                      *)
ApplyImage(p, n, image) ==
  \/ SetCursor(p, n, image) /\ unsent' = FALSE
  \/ UNCHANGED shown /\ unsent' = TRUE

(* Set, once the cursor is found in theme t.                                 *)
Apply(p, n, name, t) ==
  /\ pointer' = p /\ serial' = n /\ current' = name
  /\ cursor' = Of(name, t)
  /\ ApplyImage(p, n, Of(name, t))
  /\ timer' = Timer(IF name \in Animated THEN "armed" ELSE "off")

Reset_KeepsCursor ==  \* mutant: the animation goes on
  current' = Null /\ UNCHANGED <<cursor, pointer, serial, timer>>
Reset ==
  /\ current' = Null /\ cursor' = NoCursor /\ timer' = Timer("off")
  /\ UNCHANGED <<pointer, serial>>

Ready(p, t) == t # 0 /\ surface /\ p # 0

(* The pointer is over the App, which has the wl_pointer it entered through. *)
Over == hover /\ wlptr # 0 /\ entered = wlptr

(* OnPointerMotion, or a frame of the App: it asks for a shape.  Set does    *)
(* nothing for the shape that is current but to store the serial, and        *)
(* nothing at all for a name that the theme does not resolve.                *)
AlreadySet(name) ==
  /\ current = name
  /\ wanted' = name /\ pointer' = wlptr /\ serial' = enter_serial
  /\ UNCHANGED <<current, cursor, timer, screen>>

Set(name) ==
  \/ /\ ~Ready(wlptr, theme)
     /\ wanted' = Null /\ UNCHANGED <<shape, screen>>
  \/ Ready(wlptr, theme) /\ AlreadySet(name)
  \/ /\ Ready(wlptr, theme) /\ current # name /\ name \notin known
     /\ UNCHANGED <<wanted, shape, screen>>
  \/ /\ Ready(wlptr, theme) /\ current # name /\ name \in known
     /\ wanted' = name /\ Apply(wlptr, enter_serial, name, theme)

OnPointerMotion(name) ==
  /\ Over
  /\ Set(name)
  /\ UNCHANGED <<polled, seat, hover, enter_serial, entered, loaded, server, events>>

Hide ==
  /\ Over
  /\ wanted' = "hidden"
  /\ SetCursor(wlptr, enter_serial, Hidden) /\ unsent' = FALSE
  /\ Reset
  /\ UNCHANGED <<polled, seat, hover, enter_serial, entered, loaded, server, events>>

(* Init begins with Release; the theme or the surface may be missing.        *)
Unload ==
  /\ current' = Null /\ cursor' = NoCursor
  /\ shown' = IF shown \in {NoCursor, Hidden} THEN shown ELSE NoCursor
  /\ wanted' = Null
  /\ UNCHANGED <<polled, pointer, serial, unsent, seat, hover, enter_serial, entered, server, events>>

(* The theme that LoadTheme loads, with the names it resolves.               *)
NewTheme ==
  themes < MaxThemes /\ themes' = themes + 1 /\ theme' = themes' /\ known' \in SUBSET Shapes

InitManager ==
  /\ Unload
  /\ \/ NewTheme /\ surface' \in BOOLEAN
     \/ UNCHANGED themes /\ theme' = 0 /\ known' = {} /\ surface' = FALSE
  /\ scale' = 1
  /\ timer' \in IF surface' THEN {"off", "none"} ELSE {"none"}

Release ==
  /\ theme # 0
  /\ Unload
  /\ theme' = 0 /\ known' = {} /\ surface' = FALSE /\ timer' = "none"
  /\ UNCHANGED <<themes, scale>>

(* LoadTheme keeps the old theme if the new one cannot be loaded.            *)
LoadTheme == NewTheme \/ UNCHANGED <<theme, themes, known>>

(* SetScale applies the shape again: it forgets current_ only, and Set gives *)
(* up as usual if it is not ready or the theme does not resolve the name.    *)
Reapply_Current ==  \* mutant: current_ is not forgotten, and Set finds it set
  UNCHANGED <<held, timer, screen, wanted>>
Reapply ==
  LET found == current # Null /\ Ready(pointer, theme') /\ current \in known'
  IN  \/ /\ found
         /\ Apply(pointer, serial, current, theme') /\ UNCHANGED wanted
      \/ /\ ~found
         /\ current' = Null /\ wanted' = IF wanted = current THEN Null ELSE wanted
         /\ UNCHANGED <<cursor, pointer, serial, timer, screen>>

SetScale(s) ==
  /\ theme # 0 /\ s # scale
  /\ scale' = s
  /\ LoadTheme /\ Reapply
  /\ UNCHANGED <<polled, surface, seat, hover, enter_serial, entered, server, events>>

(* The timer of an animated cursor expires, and the loop calls DispatchFrame;*)
(* a callback in between may have changed the shape.                         *)
Poll ==
  /\ timer = "armed" /\ ~polled
  /\ timer' = "expired" /\ polled' = TRUE
  /\ UNCHANGED <<held, loaded, app, seat, server, screen, events>>

(* cursor_ may point into a theme that is destroyed: what it says then is    *)
(* whatever the memory holds.                                                *)
DispatchFrame ==
  /\ polled /\ polled' = FALSE
  /\ \/ /\ cursor.shape \in Animated \/ (cursor # NoCursor /\ cursor.theme # theme)
        /\ \/ SetCursor(pointer, serial, cursor) /\ unsent' = FALSE
           \/ UNCHANGED screen
        /\ timer' = Timer("armed")
     \/ /\ cursor.shape \notin Animated \/ cursor.theme # theme
        /\ UNCHANGED <<timer, screen>>
  /\ UNCHANGED <<held, loaded, app, seat, server, events>>
-----------------------------------------------------------------------------
(* OnCapabilities: the wl_pointer is created, which may fail, and destroyed; *)
(* the App is not told.                                                      *)
OnCapabilities(e) ==
  /\ \/ /\ e.type = "gain" /\ wlptr = 0
        /\ \/ pointers < MaxPointers /\ pointers' = pointers + 1 /\ wlptr' = pointers'
           \/ UNCHANGED seat
     \/ e.type = "gain" /\ wlptr # 0 /\ UNCHANGED seat
     \/ e.type = "lose" /\ wlptr' = 0 /\ UNCHANGED pointers
  /\ UNCHANGED <<app, shape, screen>>

(* The hooks of the App.  When the pointer enters it forgets the shape, and  *)
(* most Apps ask for one at once.                                            *)
OnPointerEnter(e) ==
  /\ e.type = "enter" /\ wlptr # 0
  /\ hover' = TRUE /\ enter_serial' = e.serial /\ entered' = wlptr
  /\ \/ wanted' = Null /\ Reset /\ UNCHANGED screen
     \/ \E name \in known :
          /\ Ready(wlptr, theme)
          /\ wanted' = name /\ Apply(wlptr, e.serial, name, theme)
  /\ UNCHANGED seat

OnPointerLeave(e) ==
  /\ e.type = "leave" /\ wlptr # 0
  /\ hover' = FALSE /\ wanted' = Null
  /\ Reset \/ UNCHANGED shape
  /\ UNCHANGED <<seat, enter_serial, entered, screen>>

Dispatch ==
  /\ events # <<>>
  /\ events' = Tail(events)
  /\ LET e == Head(events) IN OnCapabilities(e) \/ OnPointerEnter(e) \/ OnPointerLeave(e)
  /\ UNCHANGED <<polled, loaded, server>>
-----------------------------------------------------------------------------
(* The compositor.  The capabilities are sent again when another device      *)
(* comes or goes.  It sends enter only for a wl_pointer it knows of.         *)
GainPointer ==
  /\ events = <<>>
  /\ has_pointer' = TRUE /\ events' = Append(events, Event("gain", 0))
  /\ UNCHANGED <<polled, seat, app, loaded, shape, focus, enters, screen>>

Enter ==
  /\ has_pointer /\ ~focus /\ enters < MaxEnters
  /\ wlptr # 0 /\ \A i \in DOMAIN events : events[i].type # "lose"
  /\ focus' = TRUE /\ enters' = enters + 1 /\ shown' = NoCursor
  /\ events' = Append(events, Event("enter", enters'))
  /\ UNCHANGED <<polled, seat, app, loaded, shape, unsent, has_pointer>>

Leave ==
  /\ focus
  /\ focus' = FALSE /\ shown' = NoCursor
  /\ events' = Append(events, Event("leave", 0))
  /\ UNCHANGED <<polled, seat, app, loaded, shape, unsent, has_pointer, enters>>

LosePointer ==
  /\ has_pointer
  /\ has_pointer' = FALSE /\ focus' = FALSE /\ shown' = NoCursor
  /\ events' = Append(events, Event("lose", 0))
  /\ UNCHANGED <<polled, seat, app, loaded, shape, unsent, enters>>

Next ==
  \/ Dispatch \/ Hide \/ InitManager \/ Release \/ Poll \/ DispatchFrame
  \/ \E name \in Shapes : OnPointerMotion(name)
  \/ \E s \in {1, 2} : SetScale(s)
  \/ GainPointer \/ Enter \/ Leave \/ LosePointer

Spec == Init /\ [][Next]_vars
-----------------------------------------------------------------------------
(* What the manager keeps while it keeps a shape.  Its wl_pointer and serial *)
(* are those of the last enter the App was told of, so that pointer_ dangles *)
(* only from the loss of that very wl_pointer to the next enter              *)
(* (SeatManager::ReleasePointer does not tell the manager).  And its cursor  *)
(* is one of the loaded theme exactly when current_ names it: only a change  *)
(* of the scale whose look-up fails leaves cursor_, by which DispatchFrame   *)
(* goes, in the theme that LoadTheme destroyed.                              *)
HoldsLiveObjects ==
  /\ current # Null => cursor = Of(current, theme)
  /\ cursor # NoCursor =>
       /\ pointer = entered /\ serial = enter_serial
       /\ current = Null => cursor.theme # theme

(* What DispatchFrame and SetScale rely on: neither the wl_pointer nor the   *)
(* theme of the shape that is kept is destroyed.  Refuted, see README.md.    *)
NothingDangles ==
  cursor # NoCursor => pointer = wlptr /\ cursor.theme = theme

(* Once all is dispatched, the pointer over the App shows what the App last  *)
(* asked for since it entered, from the theme that is loaded, unless the     *)
(* theme does not resolve the name or the image has no buffer.               *)
ShapeShown ==
  events = <<>> /\ focus /\ wanted # Null /\ ~unsent =>
    shown = IF wanted = "hidden" THEN Hidden ELSE Of(wanted, theme)
=============================================================================
