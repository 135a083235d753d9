----------------------------- MODULE Presentation -----------------------------
(***************************************************************************)
(* wl::PresentationManager (include/wl/presentation.hpp): a fixed pool of  *)
(* slots, each with one wp_presentation_feedback object, that is armed     *)
(* before a commit and reaped after its answer.                            *)
(*                                                                         *)
(* A feedback object is named by the frame it was asked for, so that an    *)
(* answer that ends up with another frame is seen.  The compositor answers *)
(* in any order; the answers travel in a FIFO channel.  An App hook may    *)
(* commit, and so arm, the next frame (ArmInHook).  A time is modelled by  *)
(* the clock it was read from.                                             *)
(***************************************************************************)
EXTENDS Integers, Sequences, FiniteSets

CONSTANTS
  MaxInFlight,  \* kMaxInFlight
  MaxFrames,    \* bound: frames the App commits
  ArmInHook,    \* OnPresented and OnDiscarded may call Arm
  ClockFirst    \* the App arms only after clock_id was dispatched

ASSUME PoolAssumption == MaxInFlight \in Nat \ {0} /\ MaxFrames \in Nat
ASSUME AppAssumption == ArmInHook \in BOOLEAN /\ ClockFirst \in BOOLEAN

VARIABLES
  bound,     \* presentation_ is not null
  clk,       \* clk_
  slots,     \* slots_
  handler,   \* the slot whose handler a proxy calls; Null once it is destroyed
  frame,     \* frames committed so far
  hook,      \* the object whose event is being dispatched to the App, or Null
  report,    \* what the hook was given
  dropped,   \* Arm found the pool saturated in the last step
  resolved,  \* history: frames reported so far
  clock,     \* compositor: its presentation clock
  asked,     \* compositor: objects not answered yet
  events     \* events in flight

vars == <<bound, clk, slots, handler, frame, hook, report, dropped, resolved, clock, asked,
          events>>

Null == 0
Frames == 1..MaxFrames
Slots == 1..MaxInFlight
Clocks == {"monotonic", "raw"}
SlotSet(states) == [state : states, proxy : Frames \cup {Null},
                    frame : Frames \cup {Null}, commit : Clocks]
Slot(state, proxy, f, c) == [state |-> state, proxy |-> proxy, frame |-> f, commit |-> c]
Alive == {p \in Frames : handler[p] # Null}
Report(f, kind, commit) == [frame |-> f, kind |-> kind, commit |-> commit]

TypeOK ==
  /\ bound \in BOOLEAN /\ dropped \in BOOLEAN
  /\ clk \in Clocks /\ clock \in Clocks
  /\ slots \in [Slots -> SlotSet({"Free", "Live", "Done"})]
  /\ handler \in [Frames -> Slots \cup {Null}]
  /\ resolved \subseteq Frames /\ asked \subseteq Frames
  /\ frame \in 0..MaxFrames
  /\ hook \in Frames \cup {Null}
  /\ report \subseteq [frame : Frames, kind : {"presented", "discarded"}, commit : Clocks]
  /\ events \in Seq([object : Frames \cup {Null},
                     kind : {"clock_id", "presented", "overflow", "discarded"}])

Init ==
  /\ bound = FALSE /\ clk = "monotonic"
  /\ slots = [i \in Slots |-> Slot("Free", Null, Null, "monotonic")]
  /\ handler = [p \in Frames |-> Null] /\ frame = 0
  /\ hook = Null /\ report = {} /\ dropped = FALSE /\ resolved = {}
  /\ clock \in Clocks /\ asked = {} /\ events = <<>>
-----------------------------------------------------------------------------
(* Bind; the compositor answers with its clock.  The App binds at start-up,  *)
(* before its first commit.                                                  *)
Bind ==
  /\ ~bound /\ frame = 0 /\ events = <<>>
  /\ bound' = TRUE
  /\ events' = <<[object |-> Null, kind |-> "clock_id"]>>
  /\ UNCHANGED <<clk, slots, handler, frame, hook, report, dropped, resolved, clock, asked>>

(* Reap: the slots whose answer came are free again, their proxies gone.     *)
Reaped_Live(s) ==  \* mutant: slots that still wait are reaped too
  IF s.state # "Free" THEN [s EXCEPT !.state = "Free", !.proxy = Null] ELSE s
Reaped(s) == IF s.state = "Done" THEN [s EXCEPT !.state = "Free", !.proxy = Null] ELSE s

Reap_Never == slots  \* mutant: Arm does not reap
Reap == [i \in Slots |-> Reaped(slots[i])]
Reset(pool) == {slots[i].proxy : i \in {j \in Slots : pool[j].proxy = Null}}
Without(proxies) == [p \in Frames |-> IF p \in proxies THEN Null ELSE handler[p]]

(* FreeSlot: the first one.                                                  *)
FreeSlot_Steals(pool) ==  \* mutant: of a full pool, the first slot is taken
  {i \in Slots : \A j \in Slots : pool[j].state = "Free" => i <= j}
FreeSlot(pool) == {i \in Slots : /\ pool[i].state = "Free"
                                 /\ \A j \in 1..(i - 1) : pool[j].state # "Free"}

(* Arm, right before the commit of the next frame: with every slot taken the *)
(* feedback of the frame is dropped; the request may also fail.              *)
Arm ==
  /\ frame < MaxFrames
  /\ hook # Null => ArmInHook
  /\ bound /\ ClockFirst => \A i \in 1..Len(events) : events[i].kind # "clock_id"
  /\ frame' = frame + 1
  /\ \/ ~bound /\ UNCHANGED <<slots, handler, asked>> /\ dropped' = FALSE
     \/ /\ bound /\ FreeSlot(Reap) = {}
        /\ slots' = Reap /\ handler' = Without(Reset(Reap)) /\ dropped' = TRUE
        /\ UNCHANGED asked
     \/ /\ bound
        /\ \E i \in FreeSlot(Reap) :
             /\ slots' = [Reap EXCEPT ![i] = Slot("Live", frame', frame', clk)]
             /\ handler' = [Without(Reset(Reap)) EXCEPT ![frame'] = i]
        /\ asked' = asked \cup {frame'} /\ dropped' = FALSE
     \/ /\ bound /\ FreeSlot(Reap) # {}
        /\ slots' = Reap /\ handler' = Without(Reset(Reap)) /\ dropped' = FALSE
        /\ UNCHANGED asked
  /\ UNCHANGED <<bound, clk, hook, report, resolved, clock, events>>

(* Presented: a timestamp that overflows is reported as a discard.           *)
KindReported(kind) == IF kind = "presented" THEN "presented" ELSE "discarded"

(* Presented and Discarded: the slot is done, and the App's hook is called.  *)
Answered_StaysLive(i) ==  \* mutant: the slot is not marked as done
  UNCHANGED <<slots, handler>>
Answered_Destroys(i) ==  \* mutant: the proxy is destroyed in its own event
  /\ slots' = [slots EXCEPT ![i].state = "Free", ![i].proxy = Null]
  /\ handler' = Without({slots[i].proxy})
Answered(i) ==
  /\ slots' = [slots EXCEPT ![i].state = "Done"]
  /\ UNCHANGED handler

Presented(e) ==
  LET i == handler[e.object] IN
    /\ Answered(i)
    /\ hook' = e.object
    /\ report' = {Report(slots[i].frame, KindReported(e.kind), slots[i].commit)}
    /\ resolved' = resolved \cup {slots[i].frame}
    /\ UNCHANGED clk

(* OnClockId.                                                                *)
OnClockId_Ignored == clk' = clk  \* mutant: clk_ stays the default clock
OnClockId == clk' = IF bound THEN clock ELSE clk

(* An event for an object that was destroyed is dropped by libwayland.       *)
Dropped ==
  UNCHANGED <<clk, slots, handler, hook, resolved>> /\ report' = {}

Dispatch ==
  /\ hook = Null /\ events # <<>>
  /\ events' = Tail(events) /\ dropped' = FALSE
  /\ LET e == Head(events) IN
     \/ /\ e.kind = "clock_id" /\ OnClockId
        /\ report' = {} /\ UNCHANGED <<slots, handler, hook, resolved>>
     \/ e.kind # "clock_id" /\ e.object \in Alive /\ Presented(e)
     \/ e.kind # "clock_id" /\ e.object \notin Alive /\ Dropped
  /\ UNCHANGED <<bound, frame, clock, asked>>

HookReturns ==
  /\ hook # Null
  /\ hook' = Null /\ report' = {} /\ dropped' = FALSE
  /\ UNCHANGED <<bound, clk, slots, handler, frame, resolved, clock, asked, events>>

Release ==
  /\ bound /\ hook = Null
  /\ bound' = FALSE
  /\ slots' = [i \in Slots |-> [slots[i] EXCEPT !.state = "Free", !.proxy = Null]]
  /\ handler' = Without({slots[i].proxy : i \in Slots})
  /\ report' = {} /\ dropped' = FALSE
  /\ UNCHANGED <<clk, frame, hook, resolved, clock, asked, events>>
-----------------------------------------------------------------------------
(* The compositor answers every feedback once, in any order.                 *)
Answer(p) ==
  /\ p \in asked
  /\ asked' = asked \ {p}
  /\ \E kind \in {"presented", "overflow", "discarded"} :
       events' = Append(events, [object |-> p, kind |-> kind])
  /\ UNCHANGED <<bound, clk, slots, handler, frame, hook, report, dropped, resolved, clock>>

Next ==
  \/ Bind \/ Arm \/ Dispatch \/ HookReturns \/ Release
  \/ \E p \in Frames : Answer(p)

Spec == Init /\ [][Next]_vars

(* The loop dispatches what arrives, hooks return, and the compositor        *)
(* answers every feedback, as the protocol obliges it to.                    *)
FairSpec ==
  Spec /\ WF_vars(Dispatch) /\ WF_vars(HookReturns) /\ \A p \in Frames : WF_vars(Answer(p))
-----------------------------------------------------------------------------
Outstanding == {slots[i].frame : i \in {j \in Slots : slots[j].state = "Live"}}

(* A frame is reported under its own number, and only once: an answer that   *)
(* comes late never meets a slot that was reused.                            *)
ReportsOnce ==
  [][report' # report => \A r \in report' : r.frame = hook' /\ r.frame \notin resolved]_vars

(* Feedback is dropped only when MaxInFlight frames wait for an answer, not  *)
(* because answered slots were not reaped ("saturated", Arm).                *)
DropsOnlyWhenFull == dropped => Cardinality(Outstanding) = MaxInFlight

(* Destroying "keeps proxy teardown outside libwayland's dispatch" (Reap).   *)
TeardownOutsideDispatch == hook # Null => hook \in Alive

(* Latency is the difference of two times of one clock ("Commit time on the  *)
(* presentation clock (same domain as the reported timestamp)",              *)
(* DecodePresented).                                                         *)
LatencyOnOneClock == \A r \in report : r.kind = "presented" => r.commit = clock

(* Every frame armed is reported, unless the manager is released.            *)
EveryFrameResolves == \A f \in Frames : f \in Outstanding ~> (f \in resolved \/ ~bound)

(* The pool implements the abstract set of outstanding frames.               *)
F == INSTANCE Feedback WITH outstanding <- Outstanding
ImplementsFeedback == F!Spec
=============================================================================
