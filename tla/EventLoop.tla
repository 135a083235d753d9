------------------------------ MODULE EventLoop ------------------------------
(***************************************************************************)
(* wl::RunEventLoop (include/wl/display.hpp), in its general form: the     *)
(* Wayland descriptor and a list of auxiliary FdSources on one thread.     *)
(* Without sources it is the basic overload, with one it is the            *)
(* keyboard-repeat overload.                                               *)
(*                                                                         *)
(* Around the loop are the compositor, which sends events and drains the   *)
(* socket, the auxiliary descriptors, which become readable, and the       *)
(* client's own callbacks.  A callback may queue requests, may make        *)
(* should_stop() true, may drain other sources (stop a timer), and may     *)
(* call code that reads the Wayland socket on a queue of its own, as       *)
(* eglSwapBuffers does: events of the default queue then wait in that      *)
(* queue instead of in the socket.                                         *)
(***************************************************************************)
EXTENDS Integers, FiniteSets

CONSTANTS
  NumSources,  \* FdSources given to the loop
  MaxAux,      \* kMaxAux: sources beyond it are never polled
  MaxEvents    \* bound: events the socket, and the default queue, hold

ASSUME SourceAssumption == NumSources \in Nat /\ MaxAux \in Nat
ASSUME EventAssumption == MaxEvents \in Nat \ {0}

VARIABLES
  pc,        \* where the loop is
  revents,   \* what the last poll found readable
  next,      \* the auxiliary source to look at next
  after,     \* where to go when the default queue is drained
  stop,      \* should_stop() would return true
  unsent,    \* requests wait in the client's buffer
  writable,  \* the socket takes more requests
  socket,    \* events that wait in the socket
  queue,     \* events read from it, not dispatched
  readable,  \* auxiliary descriptors that are readable
  overtaken, \* history: callbacks of each source since events began to wait
             \* in the socket
  leftover,  \* history: the default queue was not empty when the last flush
             \* was done; another reader had filled it
  taken      \* history: another reader took from the socket since the last
             \* poll

client == <<stop, unsent, socket, queue>>
history == <<overtaken, leftover, taken>>
vars == <<pc, revents, next, after, client, writable, readable, history>>

Sources == 1..NumSources
MaxCount == 3  \* bound: overtaken counts no further
Wayland == 0
Polled == {s \in Sources : s <= MaxAux}

TypeOK ==
  /\ pc \in {"check", "flush", "pollout", "drain", "poll", "aux", "dispatch",
             "read", "done", "failed"}
  /\ revents \subseteq {s \in Sources : s <= MaxAux} \cup {Wayland}
  /\ next \in 1..(NumSources + 1)
  /\ after \in {"poll", "check"}
  /\ stop \in BOOLEAN /\ unsent \in BOOLEAN /\ writable \in BOOLEAN
  /\ socket \in 0..MaxEvents /\ queue \in 0..MaxEvents
  /\ readable \subseteq Sources
  /\ overtaken \in [Sources -> 0..MaxCount]
  /\ leftover \in BOOLEAN /\ taken \in BOOLEAN

(* The set-up before the loop leaves requests to send and, when something    *)
(* else has read the socket, events to dispatch.                             *)
Init ==
  /\ pc = "check"
  /\ revents = {} /\ next = 1 /\ after = "check"
  /\ stop = FALSE /\ unsent = TRUE /\ writable = TRUE
  /\ socket \in 0..1
  /\ queue \in 0..1
  /\ readable = {}
  /\ overtaken = [s \in Sources |-> 0]
  /\ leftover = FALSE /\ taken = FALSE
-----------------------------------------------------------------------------
(* A callback of the client: an event handler or an on_readable.  It may     *)
(* take back what made a descriptor readable (stop a timer).                 *)
Callback(q) ==
  /\ unsent' \in {unsent, TRUE}
  /\ stop' \in {stop, TRUE}
  /\ \/ UNCHANGED socket /\ queue' = q
     \/ /\ socket > 0
        /\ socket' = 0
        /\ queue' \in q..(IF q + socket > MaxEvents THEN MaxEvents ELSE q + socket)
  /\ readable' \in SUBSET readable

Goto(label) == pc' = label

(* while (!should_stop())                                                    *)
CheckStop_NoFlush ==  \* mutant: the write phase is left out
  /\ pc = "check"
  /\ Goto(IF stop THEN "done" ELSE "poll")
  /\ UNCHANGED <<revents, next, after, client, writable, readable, history>>

CheckStop ==
  /\ pc = "check"
  /\ Goto(IF stop THEN "done" ELSE "flush")
  /\ UNCHANGED <<revents, next, after, client, writable, readable, history>>

(* The write phase: wl_display_flush sends what there is, perhaps filling    *)
(* the socket; EAGAIN waits for POLLOUT and tries again, another error ends  *)
(* the loop.                                                                 *)
Flush ==
  /\ pc = "flush"
  /\ \/ /\ writable \/ ~unsent
        /\ unsent' = FALSE
        /\ writable' \in IF unsent THEN BOOLEAN ELSE {writable}
        /\ pc' = "drain" /\ after' = "poll" /\ leftover' = (queue > 0)
     \/ /\ ~writable /\ unsent
        /\ Goto("pollout")
        /\ UNCHANGED <<unsent, writable, after, leftover>>
     \/ Goto("failed") /\ UNCHANGED <<unsent, writable, after, leftover>>
  /\ UNCHANGED <<revents, next, stop, socket, queue, readable, overtaken, taken>>

(* poll(POLLOUT): writable, interrupted (EINTR retries), or failed.          *)
PollOut ==
  /\ pc = "pollout"
  /\ \/ writable /\ Goto("flush")
     \/ Goto("flush")
     \/ Goto("failed")
  /\ UNCHANGED <<revents, next, after, client, writable, readable, history>>

(* wl_display_dispatch_pending, and the end of wl_display_dispatch: handlers *)
(* run until the default queue is empty.  An error in a handler ends the     *)
(* loop.                                                                     *)
DrainOne ==
  /\ pc = "drain" /\ queue > 0
  /\ Callback(queue - 1)
  /\ pc' \in {"drain", "failed"}
  /\ overtaken' = IF socket' = 0 THEN [s \in Sources |-> 0] ELSE overtaken
  /\ UNCHANGED <<revents, next, after, writable, leftover, taken>>

DrainDone ==
  /\ pc = "drain" /\ queue = 0
  /\ Goto(after)
  /\ UNCHANGED <<revents, next, after, client, writable, readable, history>>

(* The wait: poll(-1) returns with every polled descriptor that is readable. *)
(* EINTR goes back to the top, another error ends the loop.                  *)
PollReady_Starving ==  \* mutant: sources are polled only when Wayland is quiet
  IF socket > 0 THEN {Wayland} ELSE {s \in Polled : s \in readable}
PollReady ==
  {s \in Polled : s \in readable} \cup (IF socket > 0 THEN {Wayland} ELSE {})

PollIn ==
  /\ pc = "poll"
  /\ PollReady # {}
  /\ revents' = PollReady
  /\ pc' = "aux" /\ next' = 1
  /\ leftover' = FALSE /\ taken' = FALSE
  /\ UNCHANGED <<after, client, writable, readable, overtaken>>

PollFails ==
  /\ pc = "poll"
  /\ pc' \in {"check", "failed"}
  /\ UNCHANGED <<revents, next, after, client, writable, readable, history>>

(* The auxiliary sources, in order and before the Wayland descriptor.  A     *)
(* callback drains its own descriptor, and may drain others; the verdict of  *)
(* the poll stands for those that come later.                                *)
Aux ==
  /\ pc = "aux" /\ next \in Polled
  /\ next' = next + 1
  /\ IF next \in revents
     THEN /\ Callback(queue)
          /\ next \notin readable'
          /\ overtaken' = IF socket' > 0
                          THEN [overtaken EXCEPT ![next] = IF @ < MaxCount THEN @ + 1 ELSE @]
                          ELSE [s \in Sources |-> 0]
          /\ taken' = (taken \/ socket' < socket)
     ELSE UNCHANGED <<client, readable, overtaken, taken>>
  /\ UNCHANGED <<pc, revents, after, writable, leftover>>

(* The last source was looked at: dispatch the Wayland descriptor when the   *)
(* poll found it readable.                                                   *)
AfterAux_NoReadyWayland ==  \* mutant: a source that ran takes the turn of Wayland
  IF revents \cap Sources = {} /\ Wayland \in revents THEN "dispatch" ELSE "check"
AfterAux_Always == "dispatch"  \* mutant: the poll's verdict is not looked at
AfterAux_Polls ==  \* mutant: back to the wait, not to the top of the loop
  IF Wayland \in revents THEN "dispatch" ELSE "poll"
AfterAux == IF Wayland \in revents THEN "dispatch" ELSE "check"

AuxDone ==
  /\ pc = "aux" /\ next \notin Polled
  /\ Goto(AfterAux)
  /\ UNCHANGED <<revents, next, after, client, writable, readable, history>>

(* wl_display_dispatch: with events in the default queue it only dispatches  *)
(* them; else it flushes, which waits for room, and then waits for the       *)
(* socket.                                                                   *)
Dispatch ==
  /\ pc = "dispatch"
  /\ after' = "check"
  /\ \/ queue > 0 /\ Goto("drain") /\ UNCHANGED <<unsent, writable>>
     \/ /\ queue = 0
        /\ writable \/ ~unsent
        /\ unsent' = FALSE
        /\ writable' \in IF unsent THEN BOOLEAN ELSE {writable}
        /\ Goto("read")
     \/ Goto("failed") /\ UNCHANGED <<unsent, writable>>
  /\ UNCHANGED <<revents, next, stop, socket, queue, readable, history>>

Read ==
  /\ pc = "read" /\ socket > 0
  /\ socket' = 0 /\ queue' = socket
  /\ overtaken' = [s \in Sources |-> 0]
  /\ pc' \in {"drain", "failed"}
  /\ UNCHANGED <<revents, next, after, stop, unsent, writable, readable, leftover, taken>>

Loop ==
  \/ CheckStop \/ Flush \/ PollOut \/ DrainOne \/ DrainDone \/ PollIn
  \/ Aux \/ AuxDone \/ Dispatch \/ Read
-----------------------------------------------------------------------------
(* The compositor and the descriptors.                                       *)

SendEvent ==
  /\ socket < MaxEvents
  /\ socket' = socket + 1
  /\ UNCHANGED <<pc, revents, next, after, stop, unsent, queue, writable, readable,
                 history>>

TakeRequests ==
  /\ ~writable
  /\ writable' = TRUE
  /\ UNCHANGED <<pc, revents, next, after, client, readable, history>>

BecomeReadable(s) ==
  /\ s \notin readable
  /\ readable' = readable \cup {s}
  /\ UNCHANGED <<pc, revents, next, after, client, writable, history>>

Next ==
  \/ Loop
  \/ PollFails
  \/ SendEvent
  \/ TakeRequests
  \/ \E s \in Sources : BecomeReadable(s)

Spec == Init /\ [][Next]_vars

(* The thread keeps running, the wait is not interrupted for ever, and the   *)
(* compositor keeps reading its socket.  Nothing makes a wait fail, or a     *)
(* descriptor readable.                                                      *)
Fairness ==
  /\ WF_vars(Loop)
  /\ SF_vars(PollIn)
  /\ WF_vars(TakeRequests)

FairSpec == Spec /\ Fairness
-----------------------------------------------------------------------------
Ended == pc \in {"done", "failed"}

(* The loop never waits for events while requests it was given are unsent:   *)
(* "Flush - send all queued outgoing requests" (RunEventLoop).  The          *)
(* compositor might be waiting for them.  The one exception: another reader  *)
(* had left events in the default queue, whose handlers run between the      *)
(* flush and the wait.                                                       *)
NothingUnsentWhileWaiting == pc = "poll" /\ unsent => leftover

(* The loop never waits for events once should_stop() would end it ("until   *)
(* should_stop() returns true"), with the same exception: a handler between  *)
(* should_stop() and the wait.                                               *)
NoWaitAfterStop == pc = "poll" /\ stop => leftover

(* wl_display_dispatch is called when there is something to read, so that it *)
(* does not block the auxiliary sources, whose callback "runs on the loop    *)
(* thread whenever the fd has POLLIN" (FdSource).  It blocks only where a    *)
(* callback of a source has emptied the socket since the poll.               *)
DispatchNeverBlocks == pc = "read" => socket > 0 \/ taken

(* A source that is always readable cannot keep Wayland events waiting in    *)
(* the socket: each callback runs at most twice before they are read (once   *)
(* for a poll that came too early to see them, once for the poll that saw    *)
(* them), whoever else reads it.  For the repeat timer: at most two ticks    *)
(* after the release was received.                                           *)
BoundedOvertaking == \A s \in Sources : overtaken[s] <= 2

(* What another reader can do to the loop: the dispatch waits for an event   *)
(* that was taken, or the drain does not come to its end because a handler   *)
(* has it filled again.                                                      *)
HeldUp == (pc = "read" /\ socket = 0 /\ taken) \/ pc = "drain"

(* The wait began after a handler had run that the flush and should_stop()   *)
(* came too early for, and nothing ends it.                                  *)
LateWait == pc = "poll" /\ PollReady = {} /\ leftover

(* Every polled source that becomes readable is served, however busy the     *)
(* Wayland socket is, unless another reader holds the loop up for ever.      *)
SourcesServed ==
  <>[]HeldUp \/ \A s \in Polled : s \in readable ~> (s \notin readable \/ Ended)

(* The loop ends once it is told to stop, unless another reader holds it up, *)
(* or leads it into a wait that nothing ends.                                *)
StopEnds == <>[](HeldUp \/ LateWait) \/ (stop ~> Ended)
=============================================================================
