-------------------------------- MODULE Slots --------------------------------
(***************************************************************************)
(* The ring of dma-buf slots that examples/skia-vulkan-dmabuf renders into *)
(* and presents: a slot is drawn again only when the compositor has let go *)
(* of it, told by wl_buffer.release or by a point on the release timeline  *)
(* of vk-common/explicit_sync, and on the direct path only where it        *)
(* differs from what is to be shown.  The ring is made anew for another    *)
(* size or another modifier.                                               *)
(*                                                                         *)
(* The window is cut into the regions that change together; what matters   *)
(* of a slot's pixels is where they differ from the scene.                 *)
(***************************************************************************)
EXTENDS Naturals, SequencesExt

CONSTANTS
  NumSlots,    \* kNumSlots
  Downgrades   \* the modifier in use may be withdrawn although the compositor
               \* offers explicit synchronisation

ASSUME NumSlotsAssumption == NumSlots \in Nat \ {0}
ASSUME CompositorAssumption == Downgrades \in BOOLEAN

VARIABLES
  paced,          \* by frame callbacks, or by itself (--benchmark, --frames)
  started, running,
  bridge,         \* es_ is not null
  use_modifier,   \* use_modifier_ (and use_partial_)
  use_sync,       \* use_explicit_sync_
  needs_resize, needs_rebuild, full_damage,
  slots,          \* slots_, slot_valid_, slot_accum_, and where each differs from the scene
  back,           \* back_
  dirty,          \* the views of view_tree_ that are marked
  hud,            \* the overlay is visible
  hud_frames,     \* hud_damage_frames_
  callback,       \* the frame callback: none, requested, committed with a frame, or sent
  held,           \* compositor: the slots whose content it uses, oldest first
  events,         \* sent by the compositor and not dispatched yet
  early,          \* history: the compositor asked for the frame that is due
                  \* while it still had an older content than the last
  unseen,         \* history: what changed since the last commit
  last            \* history: what was wrong with the last commit

mode == <<paced, bridge>>
scene == <<dirty, hud, hud_frames, unseen>>
ring == <<use_modifier, use_sync, slots, back, full_damage, held, last>>
flags == <<needs_resize, needs_rebuild>>
vars == <<mode, started, running, flags, ring, scene, callback, events, early>>

Regions == {"button", "spinner", "hud", "rest"}
Slot == 0..(NumSlots - 1)
FrameDone == NumSlots  \* among the events, where a slot stands for its release
Fault == [stale : SUBSET Regions, missed : SUBSET Regions]
NoFault == [stale |-> {}, missed |-> {}]

SlotState ==
  [ released : BOOLEAN, signalled : BOOLEAN, valid : BOOLEAN,
    accum : SUBSET Regions, stale : SUBSET Regions ]

TypeOK ==
  /\ paced \in {"callback", "self"}
  /\ callback \in {"none", "requested", "committed", "sent"}
  /\ bridge \in BOOLEAN /\ use_modifier \in BOOLEAN /\ use_sync \in BOOLEAN
  /\ use_sync => bridge /\ use_modifier
  /\ early \in BOOLEAN /\ started \in BOOLEAN /\ running \in BOOLEAN /\ full_damage \in BOOLEAN
  /\ slots \in [Slot -> SlotState]
  /\ back \in Slot /\ hud \in BOOLEAN /\ hud_frames \in 0..NumSlots
  /\ dirty \subseteq Regions /\ unseen \subseteq Regions
  /\ held \in Seq(Slot) /\ events \in Seq(Slot \cup {FrameDone}) /\ last \in Fault

(* A slot as CreateRenderResources makes it: free, and with no content.  A *)
(* release point of 0 counts as signalled.                                 *)
FreshSlot ==
  [released |-> TRUE, signalled |-> TRUE, valid |-> FALSE, accum |-> {}, stale |-> Regions]

(* With a bridge, a commit without points is an error that ends the        *)
(* connection: unless Downgrades, there is always a modifier then.         *)
Paths == {p \in [modifier : BOOLEAN, sync : BOOLEAN] : p.sync => p.modifier}
PathFor(was_sync) ==
  {p \in Paths : /\ p.sync = (was_sync /\ p.modifier)
                 /\ bridge /\ ~Downgrades => p.modifier}

Init ==
  /\ paced \in {"callback", "self"} /\ bridge \in BOOLEAN
  /\ started = FALSE /\ running = TRUE
  /\ \E p \in PathFor(bridge) : use_modifier = p.modifier /\ use_sync = p.sync
  /\ needs_resize = FALSE /\ needs_rebuild = FALSE /\ full_damage = TRUE
  /\ slots = [s \in Slot |-> FreshSlot] /\ back = 0
  /\ dirty = {} /\ hud \in BOOLEAN /\ hud_frames = 0
  /\ callback = "none" /\ early = FALSE /\ held = << >> /\ events = << >>
  /\ unseen = Regions /\ last = NoFault
-----------------------------------------------------------------------------
(* RenderFrame, in a ring that may just have been made: sl are its slots,  *)
(* b the one to draw, p its path, full its damage.                         *)

(* SlotReleased, or the flag that wl_buffer.release sets.                  *)
Free(slot, p) == IF p.sync THEN slot.signalled ELSE slot.released

Changing == {"spinner"} \cup (IF hud THEN {"hud"} ELSE {})

(* CollectDamage.                                                          *)
HudDamage == IF hud \/ hud_frames > 0 THEN {"hud"} ELSE {}
Damage == dirty \cup {"spinner"} \cup HudDamage

Redraw(slot, p) ==
  IF p.modifier /\ slot.valid THEN slot.accum \cup Damage ELSE Regions

Drawn_StaysFree(slot, p) ==  \* mutant: nothing notes that the compositor has it now
  [ released |-> TRUE, signalled |-> TRUE, valid |-> p.modifier, accum |-> {},
    stale |-> (slot.stale \cup Changing) \ Redraw(slot, p) ]

Drawn(slot, p) ==
  [ released |-> FALSE, signalled |-> IF p.sync THEN FALSE ELSE slot.signalled,
    valid |-> p.modifier, accum |-> {},
    stale |-> (slot.stale \cup Changing) \ Redraw(slot, p) ]

NotDrawn_Forgets(slot, p) ==  \* mutant: a slot misses what the others were drawn for
  [slot EXCEPT !.stale = @ \cup Changing]

(* The slots that are not drawn remember what they miss.                   *)
NotDrawn(slot, p) ==
  [slot EXCEPT !.accum = IF p.modifier THEN @ \cup Damage ELSE @,
               !.stale = @ \cup Changing]

Draw(sl, b, p, full) ==
  /\ slots' = [s \in Slot |-> IF s = b THEN Drawn(sl[s], p) ELSE NotDrawn(sl[s], p)]
  /\ back' = (b + 1) % NumSlots
  /\ last' = [ stale |-> slots'[b].stale,
               missed |-> IF full THEN {} ELSE (unseen \cup Changing) \ Damage ]
  /\ full_damage' = FALSE
  /\ dirty' = {} /\ unseen' = {}
  /\ hud_frames' = IF ~hud /\ hud_frames > 0 THEN hud_frames - 1 ELSE hud_frames

DropFrame_Cleans(sl, b, full) ==  \* mutant: the views are clean although nothing was sent
  /\ slots' = sl /\ back' = b /\ full_damage' = full /\ dirty' = {}
  /\ UNCHANGED <<last, hud_frames, unseen>>

(* No slot to draw: nothing is committed.                                  *)
DropFrame(sl, b, full) ==
  /\ slots' = sl /\ back' = b /\ full_damage' = full
  /\ UNCHANGED <<last, dirty, hud_frames, unseen>>

(* The rest of RenderFrame; asked says whether a callback was requested    *)
(* that has not been committed yet, and holds what the compositor has of   *)
(* the ring.                                                               *)
Present(sl, b, p, full, asked, holds) ==
  IF Free(sl[b], p)
  THEN /\ Draw(sl, b, p, full)
       /\ held' = Append(holds, b)
       /\ callback' = IF asked THEN "committed" ELSE callback
  ELSE /\ DropFrame(sl, b, full)
       /\ held' = holds
       /\ callback' = IF asked THEN "requested" ELSE callback

Fresh_KeepsFlag ==  \* mutant: released_ is left as it was
  [s \in Slot |-> [FreshSlot EXCEPT !.released = slots[s].released]]

(* CreateRenderResources: the proxies of the old buffers are destroyed, so *)
(* that their release events are not heard any more.                       *)
Fresh == [s \in Slot |-> FreshSlot]
StillHeard(queue) == IF FrameDone \in Range(queue) THEN << FrameDone >> ELSE << >>

(* A new size asks for a new ring, other feedback only if it names another *)
(* modifier for the path in use.                                           *)
Rebuilds == {r \in BOOLEAN : IF needs_resize THEN r ELSE r => needs_rebuild /\ use_modifier}

Remade(asked, queue) ==
  /\ \E p \in PathFor(use_sync) :
       /\ use_modifier' = p.modifier /\ use_sync' = p.sync
       /\ Present(Fresh, 0, p, TRUE, asked, << >>)
  /\ events' = StillHeard(queue) /\ UNCHANGED running

NotRemade(asked, queue) ==
  /\ running' = FALSE
  /\ events' = queue
  /\ callback' = IF asked THEN "requested" ELSE callback
  /\ UNCHANGED <<ring, dirty, hud_frames, unseen>>

SameRing(asked, queue) ==
  /\ Present(slots, back, [modifier |-> use_modifier, sync |-> use_sync],
             full_damage, asked, held)
  /\ events' = queue /\ UNCHANGED <<use_modifier, use_sync, running>>

RenderFrame(asked, queue) ==
  /\ needs_resize' = FALSE /\ needs_rebuild' = FALSE /\ UNCHANGED hud
  /\ \E rebuild \in Rebuilds :
       IF rebuild THEN Remade(asked, queue) \/ NotRemade(asked, queue)
       ELSE SameRing(asked, queue)
-----------------------------------------------------------------------------
(* The loops.                                                              *)
MainLoop ==
  /\ ~started
  /\ started' = TRUE
  /\ RenderFrame(paced = "callback", events)
  /\ UNCHANGED <<mode, early>>

RunSelfPaced ==
  /\ started /\ running /\ paced = "self"
  /\ RenderFrame(FALSE, events)
  /\ UNCHANGED <<mode, early, started>>

(* The next callback is requested before the frame is drawn.               *)
OnFrameReady ==
  /\ started /\ running /\ events # << >> /\ Head(events) = FrameDone
  /\ RenderFrame(TRUE, Tail(events))
  /\ UNCHANGED <<mode, early, started>>

OnRelease ==
  /\ started /\ running /\ events # << >> /\ Head(events) \in Slot
  /\ slots' = [slots EXCEPT ![Head(events)].released = TRUE]
  /\ events' = Tail(events)
  /\ UNCHANGED <<mode, early, started, running, flags, use_modifier, use_sync, back,
                 full_damage, held, last, scene, callback>>
-----------------------------------------------------------------------------
(* The handlers that only leave a note for the next frame.                 *)
Change(r) ==
  /\ slots' = [s \in Slot |-> [slots[s] EXCEPT !.stale = @ \cup {r}]]
  /\ unseen' = unseen \cup {r}
  /\ UNCHANGED <<mode, early, started, running, needs_rebuild, use_modifier, use_sync,
                 back, full_damage, held, last, callback, events>>

OnButton ==
  /\ started /\ running
  /\ dirty' = dirty \cup {"button"}
  /\ Change("button") /\ UNCHANGED <<needs_resize, hud, hud_frames>>

ToggleHud ==
  /\ started /\ running
  /\ hud' = ~hud /\ hud_frames' = NumSlots
  /\ Change("hud") /\ UNCHANGED <<needs_resize, dirty>>

(* Another size changes everything.                                        *)
OnToplevelConfigure ==
  /\ started /\ running
  /\ needs_resize' = TRUE
  /\ Change("rest") /\ UNCHANGED <<dirty, hud, hud_frames>>
OnDmabufFeedback ==
  /\ started /\ running
  /\ needs_rebuild' = TRUE
  /\ UNCHANGED <<mode, early, started, running, needs_resize, ring, scene, callback, events>>

(* The window is closed, or a submission to the GPU fails.                 *)
Quit ==
  /\ started /\ running
  /\ running' = FALSE
  /\ UNCHANGED <<mode, early, started, flags, ring, scene, callback, events>>
-----------------------------------------------------------------------------
(* The compositor.  It lets go of a content only when there is a newer     *)
(* one, and then of any: one that was never shown, too.  A point that is   *)
(* signalled stands for every point before it.                             *)
Release(i) ==
  /\ i \in 1..(Len(held) - 1)
  /\ held' = RemoveAt(held, i)
  /\ IF use_sync
     THEN /\ slots' = [s \in Slot |-> IF \E j \in 1..i : held[j] = s
                                      THEN [slots[s] EXCEPT !.signalled = TRUE] ELSE slots[s]]
          /\ UNCHANGED events
     ELSE /\ events' = Append(events, held[i])
          /\ UNCHANGED slots
  /\ UNCHANGED <<mode, early, started, running, flags, use_modifier, use_sync, back,
                 full_damage, last, scene, callback>>

Done ==
  /\ callback = "committed"
  /\ early' = (Len(held) > 1)
  /\ callback' = "sent" /\ events' = Append(events, FrameDone)
  /\ UNCHANGED <<mode, started, running, flags, ring, scene>>

Next ==
  \/ MainLoop \/ RunSelfPaced \/ OnFrameReady \/ OnRelease
  \/ OnButton \/ ToggleHud \/ OnToplevelConfigure \/ OnDmabufFeedback \/ Quit
  \/ Done \/ \E i \in DOMAIN held : Release(i)

Spec == Init /\ [][Next]_vars
-----------------------------------------------------------------------------
(* No slot is drawn while the compositor still uses its content ("so a     *)
(* slot is not re-rendered while the compositor is still scanning out of   *)
(* its dma-buf"): by either way of telling, also where one point on the    *)
(* timeline stands for the others.                                         *)
HeldOnce == IsInjective(held)

(* What is presented is the scene: a slot that is only drawn in part was   *)
(* right in the rest, whichever frames it missed or were dropped.          *)
ShowsScene == last.stale = {}

(* The compositor is told of everything that changed since the commit      *)
(* before, however many frames were dropped in between.                    *)
DamageCovers == last.missed = {}

(* A program that waits for its frame callback has one coming, committed   *)
(* and not just requested, with one exception: the compositor asked for    *)
(* the frame while it had more than the last content, so that the slot to  *)
(* draw could be busy and the frame was dropped with the next request      *)
(* (OnFrameReady requests before it draws, and no one asks again).  No     *)
(* other order of releases, points, new rings and changes stops it.        *)
FrameOnItsWay ==
  started /\ running /\ paced = "callback" =>
    \/ callback = "committed" \/ FrameDone \in Range(events)
    \/ early /\ callback = "requested"
=============================================================================
