---------------------------- MODULE Program_proofs ----------------------------
(***************************************************************************)
(* What a program can rely on while it waits, and what it must do itself.  *)
(*                                                                         *)
(* First, the event loop, for any number of sources and any limit on them, *)
(* and with other readers of the socket: where they may break the promises *)
(* of its phases, and that a source overtakes a waiting Wayland event at   *)
(* most twice whatever they do.                                            *)
(*                                                                         *)
(* Then the call that waits outside of the loop, for any timeout, events   *)
(* and signals (wl::RoundtripWithTimeout, Roundtrip): its local flag is    *)
(* not written once it has returned, and it takes at most one timeout for  *)
(* each poll that was woken and one more.                                  *)
(*                                                                         *)
(* Last, the program (Client): whatever its text, when that text passes    *)
(* the tests of Review, the program never uses what is not there, never    *)
(* overwrites a member, destroys children before their parents, and leaves *)
(* nothing behind when its connection closes.                              *)
(***************************************************************************)
EXTENDS EventLoop, Roundtrip, Review, SequenceTheorems, WellFoundedInduction, TLAPS

(* A callback leaves the client well-typed.                                  *)
LEMMA CallbackType ==
  ASSUME TypeOK, NEW q \in 0..MaxEvents, Callback(q)
  PROVE  /\ stop' \in BOOLEAN /\ unsent' \in BOOLEAN
         /\ socket' \in 0..MaxEvents /\ queue' \in 0..MaxEvents
         /\ readable' \subseteq Sources
<1>. USE EventAssumption
<1>1. socket' \in 0..MaxEvents /\ queue' \in 0..MaxEvents
  <2>1. CASE UNCHANGED socket /\ queue' = q
    BY <2>1 DEF TypeOK
  <2>2. CASE /\ socket' = 0
             /\ queue' \in q..(IF q + socket > MaxEvents THEN MaxEvents ELSE q + socket)
    BY <2>2 DEF TypeOK
  <2>. QED  BY <2>1, <2>2 DEF Callback
<1>. QED  BY <1>1 DEF Callback, TypeOK

LEMMA TypeStep == TypeOK /\ [Next]_vars => TypeOK'
<1>. SUFFICES ASSUME TypeOK, [Next]_vars PROVE TypeOK'
  OBVIOUS
<1>. USE SourceAssumption, EventAssumption DEF TypeOK, client, history
<1>1. CASE CheckStop
  BY <1>1 DEF CheckStop, Goto
<1>2. CASE Flush
  <2>1. /\ pc' \in {"drain", "pollout", "failed"} /\ after' \in {"poll", "check"}
        /\ unsent' \in BOOLEAN /\ writable' \in BOOLEAN
    BY <1>2 DEF Flush, Goto
  <2>3. leftover' \in BOOLEAN
    <3>1. leftover' = (queue > 0) \/ leftover' = leftover
      BY <1>2, Zenon DEF Flush
    <3>2. CASE leftover' = (queue > 0)
      <4>1. (queue > 0) \in BOOLEAN
        OBVIOUS
      <4>. QED  BY <3>2, <4>1, Zenon
    <3>3. CASE leftover' = leftover
      BY <3>3
    <3>. QED  BY <3>1, <3>2, <3>3, Zenon
  <2>2. UNCHANGED <<revents, next, stop, socket, queue, readable, overtaken, taken>>
    BY <1>2 DEF Flush
  <2>. QED  BY <2>1, <2>2, <2>3
<1>3. CASE PollOut
  BY <1>3 DEF PollOut, Goto
<1>4. CASE DrainOne
  <2>1. queue - 1 \in 0..MaxEvents
    BY <1>4 DEF DrainOne
  <2>2. overtaken' \in [Sources -> 0..MaxCount]
    BY <1>4 DEF DrainOne, MaxCount
  <2>. QED  BY <1>4, <2>1, <2>2, CallbackType DEF DrainOne
<1>5. CASE DrainDone
  BY <1>5 DEF DrainDone, Goto
<1>6. CASE PollIn
  <2>1. revents' \subseteq Polled \cup {Wayland}
    BY <1>6 DEF PollIn, PollReady
  <2>2. /\ pc' = "aux" /\ next' = 1 /\ leftover' = FALSE /\ taken' = FALSE
        /\ UNCHANGED <<after, client, writable, readable, overtaken>>
    BY <1>6 DEF PollIn
  <2>3. next' \in 1..(NumSources + 1)
    BY <2>2
  <2>5. taken' \in BOOLEAN /\ leftover' \in BOOLEAN
    BY <2>2, Zenon
  <2>4. revents' \subseteq {s \in Sources : s <= MaxAux} \cup {Wayland}
    BY <2>1 DEF Polled
  <2>. QED  BY <2>2, <2>3, <2>4, <2>5
<1>7. CASE PollFails
  BY <1>7 DEF PollFails
<1>8. CASE Aux
  <2>1. next \in 1..NumSources /\ next' \in 1..(NumSources + 1)
    BY <1>8 DEF Aux, Polled, Sources
  <2>2. /\ stop' \in BOOLEAN /\ unsent' \in BOOLEAN
        /\ socket' \in 0..MaxEvents /\ queue' \in 0..MaxEvents
        /\ readable' \subseteq Sources
    <3>1. CASE next \in revents
      BY <1>8, <3>1, CallbackType DEF Aux
    <3>2. CASE next \notin revents
      BY <1>8, <3>2 DEF Aux
    <3>. QED  BY <3>1, <3>2
  <2>3. overtaken' \in [Sources -> 0..MaxCount] /\ taken' \in BOOLEAN
    <3>0. [s \in Sources |-> 0] \in [Sources -> 0..MaxCount]
      BY DEF MaxCount
    <3>1. (IF overtaken[next] < MaxCount THEN overtaken[next] + 1 ELSE overtaken[next])
            \in 0..MaxCount
      BY <2>1 DEF MaxCount, Sources
    <3>. QED  BY <1>8, <3>0, <3>1 DEF Aux
  <2>. QED  BY <1>8, <2>1, <2>2, <2>3 DEF Aux
<1>9. CASE AuxDone
  BY <1>9 DEF AuxDone, AfterAux, Goto
<1>10. CASE Dispatch
  BY <1>10 DEF Dispatch, Goto
<1>11. CASE Read
  <2>1. overtaken' \in [Sources -> 0..MaxCount]
    BY <1>11 DEF Read, MaxCount
  <2>. QED  BY <1>11, <2>1 DEF Read
<1>12. CASE SendEvent
  BY <1>12 DEF SendEvent
<1>13. CASE TakeRequests
  BY <1>13 DEF TakeRequests
<1>14. ASSUME NEW s \in Sources, BecomeReadable(s) PROVE TypeOK'
  BY <1>14 DEF BecomeReadable
<1>15. CASE UNCHANGED vars
  BY <1>15 DEF vars
<1>. QED
  BY <1>1, <1>2, <1>3, <1>4, <1>5, <1>6, <1>7, <1>8, <1>9, <1>10, <1>11, <1>12,
     <1>13, <1>14, <1>15
  DEF Next, Loop

LEMMA TypeInit == Init => TypeOK
<1>. SUFFICES ASSUME Init PROVE TypeOK
  OBVIOUS
<1>1. overtaken \in [Sources -> 0..MaxCount]
  BY DEF Init, MaxCount
<1>2. next \in 1..(NumSources + 1)
  BY SourceAssumption DEF Init
<1>3. socket \in 0..MaxEvents /\ queue \in 0..MaxEvents
  <2>1. 0..1 \subseteq 0..MaxEvents
    BY EventAssumption
  <2>2. queue \in 0..1
    BY DEF Init
  <2>. QED  BY <2>1, <2>2 DEF Init
<1>. QED  BY <1>1, <1>2, <1>3 DEF Init, TypeOK

(* Every variable of the loop keeps its type, with other readers of the      *)
(* socket.                                                                   *)
THEOREM TypeCorrect == Spec => []TypeOK
BY TypeInit, TypeStep, PTL DEF Spec
-----------------------------------------------------------------------------
(* The inductive invariant.  Between the flush and the wait no callback runs *)
(* when the default queue is empty there: then nothing is unsent and stop is *)
(* not raised when the loop waits.  Events are found in the queue after the  *)
(* poll only when a callback of this pass has taken them from the socket.    *)
Waiting == pc = "poll" \/ (pc = "drain" /\ after = "poll")

QueueEmpty ==
  /\ Waiting /\ ~leftover => queue = 0
  /\ pc \in {"poll", "read"} => queue = 0
  /\ pc \in {"aux", "dispatch"} /\ queue > 0 => taken

SentBeforeWait == Waiting /\ ~leftover => ~unsent

StopSeen == (Waiting /\ ~leftover) \/ pc \in {"flush", "pollout"} => ~stop

(* A verdict of the poll on the Wayland descriptor stays true until it is    *)
(* acted upon, unless something is taken from the socket.                    *)
VerdictHolds ==
  (pc = "aux" /\ Wayland \in revents) \/ pc \in {"dispatch", "read"} => socket > 0 \/ taken

(* What the dispatch reads is drained at the end of the pass.                *)
ReadsLast == pc = "read" => after = "check"

(* Events that wait were overtaken at most once when the loop comes back to  *)
(* the poll, by a pass whose poll came before them; the pass whose poll saw  *)
(* them adds one more, and then dispatches them.  When the socket was        *)
(* emptied in this pass, what waits came after that.  n is the count of s.   *)
Overtaken(s, n) ==
  /\ n <= 2
  /\ socket = 0 => n = 0
  /\ pc \in {"check", "flush", "pollout", "poll", "drain", "done"} => n <= 1
  /\ pc = "aux" /\ Wayland \in revents /\ s >= next => n <= 1
  /\ pc = "aux" /\ (Wayland \notin revents \/ taken) => n <= (IF s < next THEN 1 ELSE 0)
  /\ pc = "dispatch" /\ taken => n <= 1

OvertakenSoFar == \A s \in Sources : Overtaken(s, overtaken[s])

Phases == QueueEmpty /\ SentBeforeWait /\ StopSeen /\ VerdictHolds /\ ReadsLast

IInv == TypeOK /\ Phases /\ OvertakenSoFar

(* A callback leaves the socket and the default queue alone, or empties the  *)
(* socket.                                                                   *)
LEMMA CallbackReads ==
  ASSUME TypeOK, NEW q, Callback(q)
  PROVE  \/ socket' = socket /\ queue' = q
         \/ socket' = 0 /\ socket' < socket
BY DEF Callback, TypeOK

LEMMA PhasesStep ==
  ASSUME TypeOK, Phases, [Next]_vars
  PROVE  Phases'
<1>. USE DEF Phases, QueueEmpty, SentBeforeWait, StopSeen, VerdictHolds, ReadsLast, Waiting,
             client, history
<1>1. CASE CheckStop
  BY <1>1 DEF CheckStop, Goto
<1>2. CASE Flush
  <2>1. CASE pc' = "drain"
    <3>2. leftover' = (queue > 0)
      BY <1>2, <2>1 DEF Flush, Goto
    <3>3. queue \in Nat /\ queue' = queue
      BY <1>2 DEF Flush, TypeOK
    <3>4. ~leftover' => ~(queue > 0)
      BY <3>2, Zenon
    <3>1. after' = "poll" /\ ~unsent' /\ (~leftover' => queue' = 0) /\ ~stop'
      BY <1>2, <2>1, <3>3, <3>4 DEF Flush, Goto
    <3>. QED  BY <2>1, <3>1
  <2>2. CASE pc' \in {"pollout", "failed"}
    <3>1. ~stop'
      BY <1>2 DEF Flush
    <3>. QED  BY <2>2, <3>1
  <2>3. pc' \in {"drain", "pollout", "failed"}
    BY <1>2 DEF Flush, Goto
  <2>. QED  BY <2>1, <2>2, <2>3
<1>3. CASE PollOut
  BY <1>3 DEF PollOut, Goto
<1>4. CASE DrainOne
  <2>1. after' = after /\ leftover' = leftover /\ (after = "poll" => leftover)
    BY <1>4 DEF DrainOne, TypeOK
  <2>. QED  BY <1>4, <2>1 DEF DrainOne, TypeOK
<1>5. CASE DrainDone
  BY <1>5 DEF DrainDone, Goto, TypeOK
<1>6. CASE PollIn
  <2>1. Wayland \in revents' => socket > 0
    BY <1>6 DEF PollIn, PollReady, Polled, Sources, Wayland
  <2>. QED  BY <1>6, <2>1 DEF PollIn, Polled
<1>7. CASE PollFails
  BY <1>7 DEF PollFails
<1>8. CASE Aux
  <2>1. \/ socket' = socket /\ queue' = queue /\ (taken => taken')
        \/ taken'
    <3>1. CASE next \in revents
      BY <1>8, <3>1, CallbackReads DEF Aux
    <3>2. CASE next \notin revents
      BY <1>8, <3>2 DEF Aux
    <3>. QED  BY <3>1, <3>2
  <2>2. pc = "aux" /\ pc' = "aux" /\ revents' = revents
    BY <1>8 DEF Aux
  <2>. QED  BY <2>1, <2>2
<1>9. CASE AuxDone
  BY <1>9 DEF AuxDone, AfterAux, Goto
<1>10. CASE Dispatch
  BY <1>10 DEF Dispatch, Goto
<1>11. CASE Read
  BY <1>11 DEF Read
<1>12. CASE SendEvent
  BY <1>12 DEF SendEvent, TypeOK
<1>13. CASE TakeRequests
  BY <1>13 DEF TakeRequests
<1>14. ASSUME NEW s \in Sources, BecomeReadable(s) PROVE Phases'
  BY <1>14 DEF BecomeReadable
<1>15. CASE UNCHANGED vars
  BY <1>15 DEF vars
<1>. QED
  BY <1>1, <1>2, <1>3, <1>4, <1>5, <1>6, <1>7, <1>8, <1>9, <1>10, <1>11, <1>12,
     <1>13, <1>14, <1>15
  DEF Next, Loop

(* A step that runs no source leaves the counts alone, and does not lower    *)
(* what they may be, as long as it goes on in the same pass or ends one.     *)
LEMMA OvertakingStep ==
  ASSUME TypeOK, Phases, OvertakenSoFar, [Next]_vars
  PROVE  OvertakenSoFar'
<1>. SUFFICES ASSUME NEW s \in Sources
             PROVE  Overtaken(s, overtaken[s])'
  BY DEF OvertakenSoFar
<1>0. /\ Overtaken(s, overtaken[s]) /\ overtaken[s] \in Nat
      /\ s \in Nat /\ s # Wayland /\ next \in Nat /\ socket \in Nat
  BY DEF OvertakenSoFar, TypeOK, MaxCount, Sources, Wayland
<1>. USE DEF Overtaken, client, history
<1>1. CASE CheckStop
  BY <1>0, <1>1 DEF CheckStop, Goto
<1>2. CASE Flush
  BY <1>0, <1>2 DEF Flush, Goto
<1>3. CASE PollOut
  BY <1>0, <1>3 DEF PollOut, Goto
<1>4. CASE DrainOne
  <2>1. /\ pc = "drain" /\ pc' \in {"drain", "failed"}
        /\ overtaken' = IF socket' = 0 THEN [r \in Sources |-> 0] ELSE overtaken
    BY <1>4 DEF DrainOne
  <2>2. overtaken'[s] = 0 \/ (socket' # 0 /\ overtaken'[s] = overtaken[s])
    BY <2>1
  <2>. QED  BY <1>0, <2>1, <2>2
<1>5. CASE DrainDone
  BY <1>0, <1>5 DEF DrainDone, Goto, TypeOK
<1>6. CASE PollIn
  <2>1. socket > 0 => Wayland \in revents'
    BY <1>6 DEF PollIn, PollReady
  <2>2. next' = 1 /\ s >= 1
    BY <1>6 DEF PollIn, Sources
  <2>. QED  BY <1>0, <1>6, <2>1, <2>2 DEF PollIn
<1>7. CASE PollFails
  BY <1>0, <1>7 DEF PollFails
<1>8. CASE Aux
  <2>1. next' = next + 1 /\ revents' = revents /\ pc' = pc /\ pc = "aux"
    BY <1>8 DEF Aux
  <2>2. CASE overtaken' = [r \in Sources |-> 0]
    <3>1. overtaken'[s] = 0
      BY <2>2
    <3>. QED  BY <1>0, <2>1, <3>1
  <2>3. CASE /\ next \in revents /\ socket' > 0
             /\ overtaken' = [overtaken EXCEPT ![next] =
                                IF overtaken[next] < MaxCount THEN overtaken[next] + 1
                                                              ELSE overtaken[next]]
    <3>0. socket' = socket
      BY <1>8, <2>3, CallbackReads DEF Aux
    <3>5. taken' = (taken \/ socket' < socket)
      BY <1>8, <2>3 DEF Aux
    <3>6. taken' => taken \/ socket' < socket
      BY <3>5, Zenon
    <3>1. socket' = socket /\ (taken' => taken)
      BY <1>0, <3>0, <3>6
    <3>2. \/ overtaken'[s] = overtaken[s] /\ s # next
          \/ s = next /\ overtaken'[s] \in {overtaken[s], overtaken[s] + 1}
      BY <1>0, <2>3 DEF TypeOK
    <3>3. CASE overtaken'[s] = overtaken[s] /\ s # next
      BY <1>0, <2>1, <3>1, <3>3
    <3>4. CASE s = next /\ overtaken'[s] \in {overtaken[s], overtaken[s] + 1}
      <4>1. overtaken[s] <= 1 /\ (taken \/ Wayland \notin revents => overtaken[s] = 0)
        BY <1>0, <2>1, <3>4
      <4>2. overtaken'[s] <= 2 /\ (taken \/ Wayland \notin revents => overtaken'[s] <= 1)
        BY <1>0, <3>4, <4>1
      <4>3. s < next' /\ socket' # 0
        BY <1>0, <2>1, <2>3, <3>4
      <4>. QED  BY <1>0, <2>1, <3>1, <4>2, <4>3
    <3>. QED  BY <3>2, <3>3, <3>4
  <2>4. CASE UNCHANGED <<client, readable, overtaken, taken>>
    BY <1>0, <2>1, <2>4
  <2>5. \/ overtaken' = [r \in Sources |-> 0]
        \/ /\ next \in revents /\ socket' > 0
           /\ overtaken' = [overtaken EXCEPT ![next] =
                              IF overtaken[next] < MaxCount THEN overtaken[next] + 1
                                                            ELSE overtaken[next]]
        \/ UNCHANGED <<client, readable, overtaken, taken>>
    BY <1>8 DEF Aux
  <2>. QED  BY <2>2, <2>3, <2>4, <2>5
<1>9. CASE AuxDone
  <2>1. Wayland \in revents => s < next \/ overtaken[s] <= 1
    BY <1>0, <1>9 DEF AuxDone
  <2>. QED  BY <1>0, <1>9, <2>1 DEF AuxDone, AfterAux, Goto
<1>10. CASE Dispatch
  <2>1. /\ pc = "dispatch" /\ (queue > 0 => taken)
        /\ (pc' = "drain" /\ queue > 0) \/ pc' \in {"read", "failed"}
        /\ socket' = socket /\ overtaken' = overtaken
    BY <1>10 DEF Dispatch, Phases, QueueEmpty, Goto
  <2>. QED  BY <1>0, <2>1
<1>11. CASE Read
  BY <1>0, <1>11 DEF Read
<1>12. CASE SendEvent
  <2>1. CASE socket = 0 /\ pc = "aux"
    BY <1>0, <1>12, <2>1 DEF SendEvent, Phases, VerdictHolds
  <2>2. CASE ~(socket = 0 /\ pc = "aux")
    BY <1>0, <1>12, <2>2 DEF SendEvent
  <2>. QED  BY <2>1, <2>2
<1>13. CASE TakeRequests
  BY <1>0, <1>13 DEF TakeRequests
<1>14. ASSUME NEW r \in Sources, BecomeReadable(r) PROVE Overtaken(s, overtaken[s])'
  BY <1>0, <1>14 DEF BecomeReadable
<1>15. CASE UNCHANGED vars
  BY <1>0, <1>15 DEF vars
<1>. QED
  BY <1>1, <1>2, <1>3, <1>4, <1>5, <1>6, <1>7, <1>8, <1>9, <1>10, <1>11, <1>12,
     <1>13, <1>14, <1>15
  DEF Next, Loop

LEMMA InvInit == Init => IInv
<1>. SUFFICES ASSUME Init PROVE IInv
  OBVIOUS
<1>1. Phases
  BY DEF Init, Phases, QueueEmpty, SentBeforeWait, StopSeen, VerdictHolds, ReadsLast, Waiting
<1>2. OvertakenSoFar
  BY DEF Init, OvertakenSoFar, Overtaken
<1>. QED  BY <1>1, <1>2, TypeInit DEF IInv

LEMMA Inductive == Spec => []IInv
<1>1. Init => IInv
  BY InvInit
<1>2. IInv /\ [Next]_vars => IInv'
  BY TypeStep, PhasesStep, OvertakingStep DEF IInv
<1>. QED  BY <1>1, <1>2, PTL DEF Spec

(* The loop waits with requests unsent only when another reader had left     *)
(* events in the default queue at the flush, for any number of sources.      *)
THEOREM SentBeforeEveryWait == Spec => []NothingUnsentWhileWaiting
<1>1. IInv => NothingUnsentWhileWaiting
  BY DEF IInv, Phases, SentBeforeWait, Waiting, NothingUnsentWhileWaiting
<1>. QED  BY <1>1, Inductive, PTL

(* The same of a loop that was told to stop.                                 *)
THEOREM StopBeforeEveryWait == Spec => []NoWaitAfterStop
<1>1. IInv => NoWaitAfterStop
  BY DEF IInv, Phases, StopSeen, Waiting, NoWaitAfterStop
<1>. QED  BY <1>1, Inductive, PTL

(* The dispatch after the poll finds something to read, unless a callback    *)
(* has taken from the socket since the poll.                                 *)
THEOREM NoBlockingDispatch == Spec => []DispatchNeverBlocks
<1>1. IInv => DispatchNeverBlocks
  BY DEF IInv, Phases, VerdictHolds, DispatchNeverBlocks
<1>. QED  BY <1>1, Inductive, PTL

(* However many sources there are, however often they are readable, and      *)
(* whoever else reads the socket, none overtakes an event that waits there   *)
(* more than twice.                                                          *)
THEOREM Overtaking == Spec => []BoundedOvertaking
<1>1. IInv => BoundedOvertaking
  <2>. SUFFICES ASSUME IInv, NEW s \in Sources PROVE overtaken[s] <= 2
    BY DEF BoundedOvertaking
  <2>. QED  BY DEF IInv, OvertakenSoFar, Overtaken
<1>. QED  BY <1>1, Inductive, PTL
-----------------------------------------------------------------------------
(* The call that waits outside of the loop: RoundtripWithTimeout.          *)

(* The time that so many polls may take.                                   *)
TimeOf(polls) == Timeout * polls

(* One poll more takes one timeout more.                                   *)
LEMMA OneMorePoll ==
  \A n \in Nat : TimeOf(n) \in Nat /\ TimeOf(n + 1) = TimeOf(n) + Timeout
BY TimeoutAssumption DEF TimeOf

(* The callback exists only within the call.                               *)
CallbackInCall == callPc \in {"start", "returned"} => ~callback

(* The polls that were woken, and the time in the current or the last one. *)
TimeSpent ==
  /\ callPc \in {"start", "flush", "dispatch"} => elapsed <= TimeOf(wakeups)
  /\ callPc \in {"pollout", "pollin"} => elapsed <= TimeOf(wakeups) + waited
  /\ callPc \in {"leave", "returned"} => elapsed <= TimeOf(wakeups) + Timeout

(* The inductive invariant of the call.                                    *)
CallIInv == CallTypeOK /\ callSocket <= sent /\ CallbackInCall /\ TimeSpent

(* It holds when the call begins,                                          *)
LEMMA CallInitIInv == CallInit => CallIInv
<1>. SUFFICES ASSUME CallInit PROVE CallIInv
  OBVIOUS
<1>1. CallTypeOK /\ callSocket <= sent
  <2>1. /\ callSocket \in 0..MaxOthers /\ sent \in 0..MaxOthers /\ signals \in 0..MaxSignals
        /\ waited \in 0..Timeout /\ elapsed \in Nat /\ wakeups \in Nat /\ callSocket <= sent
    BY TimeoutAssumption, BoundAssumption DEF CallInit
  <2>. QED  BY <2>1 DEF CallInit, CallTypeOK
<1>2. CallbackInCall /\ TimeSpent
  BY OneMorePoll, TimeoutAssumption DEF CallInit, CallbackInCall, TimeSpent
<1>. QED  BY <1>1, <1>2 DEF CallIInv

(* every step keeps the types,                                             *)
LEMMA CallNextTypeOK ==
  CallTypeOK /\ callSocket <= sent /\ [CallNext]_callVars =>
    CallTypeOK' /\ callSocket' <= sent'
<1>. USE TimeoutAssumption, BoundAssumption
<1>. SUFFICES ASSUME CallTypeOK, callSocket <= sent, [CallNext]_callVars
              PROVE  CallTypeOK' /\ callSocket' <= sent'
  OBVIOUS
<1>1. CASE Start
  BY <1>1 DEF CallTypeOK, Start, time
<1>2. CASE CallFlush
  <2>1. /\ callPc' \in {"pollin", "pollout", "leave"} /\ cause' \in {cause, "done"}
        /\ syncUnsent' \in BOOLEAN /\ waited' = 0
        /\ UNCHANGED <<callback, syncDone, result, callWritable, marker, callSocket, sent, signals,
                       elapsed, wakeups>>
    BY <1>2 DEF CallTypeOK, CallFlush, Break
  <2>. QED  BY <2>1 DEF CallTypeOK
<1>3. CASE CallPollOut \/ CallPollIn
  <2>1. /\ callPc' \in {"flush", "dispatch", "leave"} /\ cause' \in {cause, "timeout"}
        /\ wakeups' \in {wakeups, wakeups + 1}
        /\ UNCHANGED <<callback, syncDone, result, wire, signals, waited, elapsed>>
    BY <1>3 DEF CallPollOut, CallPollIn, TimedOut, Break
  <2>2. cause' \in {"none", "done", "timeout", "error", "signal"} /\ wakeups' \in Nat
    BY <2>1 DEF CallTypeOK
  <2>. QED  BY <2>1, <2>2 DEF CallTypeOK, wire
<1>4. CASE CallDispatch
  BY <1>4 DEF CallTypeOK, CallDispatch, Deliver, time
<1>5. CASE Leave
  BY <1>5 DEF CallTypeOK, Leave, wire, time
<1>6. CASE Signal
  BY <1>6 DEF CallTypeOK, Signal, Break, wire
<1>7. CASE IoError
  BY <1>7 DEF CallTypeOK, IoError, Break, wire, time
<1>8. CASE Tick
  BY <1>8 DEF CallTypeOK, Tick, MayWait, wire
<1>9. CASE SendMarker \/ MakeRoom
  BY <1>9 DEF CallTypeOK, SendMarker, MakeRoom, time
<1>12. CASE SendOther
  <2>1. callSocket' \in 0..MaxOthers /\ sent' \in 0..MaxOthers /\ callSocket' <= sent'
    BY <1>12 DEF CallTypeOK, SendOther
  <2>. QED  BY <1>12, <2>1 DEF CallTypeOK, SendOther, time
<1>10. CASE LateDispatch
  BY <1>10 DEF CallTypeOK, LateDispatch, Deliver, time
<1>11. CASE UNCHANGED callVars
  BY <1>11 DEF CallTypeOK, callVars, wire, time
<1>. QED
  BY <1>1, <1>2, <1>3, <1>4, <1>5, <1>6, <1>7, <1>8, <1>9, <1>10, <1>11, <1>12 DEF CallNext, Call

(* none leaves the callback behind,                                        *)
LEMMA NextCallbackInCall ==
  CallbackInCall /\ [CallNext]_callVars => CallbackInCall'
<1>. SUFFICES ASSUME CallbackInCall, [CallNext]_callVars PROVE CallbackInCall'
  OBVIOUS
<1>. USE DEF CallbackInCall
<1>1. CASE Call
  BY <1>1 DEF Call, Start, CallFlush, CallPollOut, CallPollIn, CallDispatch, Leave, TimedOut, Break
<1>2. CASE Signal \/ IoError \/ Tick
  BY <1>2 DEF Signal, IoError, Tick, Break
<1>3. CASE SendMarker \/ SendOther \/ MakeRoom \/ LateDispatch \/ UNCHANGED callVars
  BY <1>3 DEF SendMarker, SendOther, MakeRoom, LateDispatch, callVars
<1>. QED  BY <1>1, <1>2, <1>3 DEF CallNext

(* and the time passes only in a poll.                                     *)
LEMMA NextTimeSpent ==
  CallTypeOK /\ TimeSpent /\ [CallNext]_callVars => TimeSpent'
<1>. SUFFICES ASSUME CallTypeOK, TimeSpent, [CallNext]_callVars PROVE TimeSpent'
  OBVIOUS
<1>1. /\ TimeOf(wakeups) \in Nat /\ TimeOf(wakeups + 1) = TimeOf(wakeups) + Timeout
      /\ waited \in 0..Timeout /\ elapsed \in Nat /\ wakeups \in Nat /\ Timeout \in Nat
  BY OneMorePoll, TimeoutAssumption DEF CallTypeOK
<1>. USE DEF TimeSpent
<1>2. CASE Start
  BY <1>1, <1>2 DEF Start, time
<1>3. CASE CallFlush
  BY <1>1, <1>3 DEF CallFlush, Break
<1>4. CASE CallPollOut
  BY <1>1, <1>4 DEF CallPollOut, TimedOut, Break
<1>5. CASE CallPollIn
  BY <1>1, <1>5 DEF CallPollIn, TimedOut, Break
<1>6. CASE CallDispatch \/ Leave
  BY <1>1, <1>6 DEF CallDispatch, Leave, time
<1>7. CASE Signal
  BY <1>1, <1>7 DEF Signal, Break
<1>8. CASE IoError
  BY <1>1, <1>8 DEF IoError, Break, time
<1>9. CASE Tick
  BY <1>1, <1>9 DEF Tick
<1>10. CASE SendMarker \/ SendOther \/ MakeRoom \/ LateDispatch \/ UNCHANGED callVars
  BY <1>1, <1>10 DEF SendMarker, SendOther, MakeRoom, LateDispatch, callVars, time
<1>. QED
  BY <1>2, <1>3, <1>4, <1>5, <1>6, <1>7, <1>8, <1>9, <1>10 DEF CallNext, Call

(* So it holds always.                                                     *)
LEMMA CallInvariance == CallSpec => []CallIInv
<1>1. CallIInv /\ [CallNext]_callVars => CallIInv'
  BY CallNextTypeOK, NextCallbackInCall, NextTimeSpent DEF CallIInv
<1>. QED  BY <1>1, CallInitIInv, PTL DEF CallSpec

(* Each variable keeps its type; in particular no poll outlasts the timeout *)
(* it was given (RoundtripWithTimeout).                                    *)
THEOREM RoundtripTypeOK == CallSpec => []CallTypeOK
<1>1. CallIInv => CallTypeOK
  BY DEF CallIInv
<1>. QED  BY <1>1, CallInvariance, PTL

(* The call takes at most one timeout for every poll that something woke,  *)
(* and one more, for any timeout and any number of events and signals.     *)
THEOREM TimeIsBounded == CallSpec => []BoundedByWakeups
<1>1. CallIInv => BoundedByWakeups
  <2>. SUFFICES ASSUME CallIInv PROVE elapsed <= TimeOf(wakeups + 1)
    BY DEF BoundedByWakeups, TimeOf
  <2>1. /\ TimeOf(wakeups) \in Nat /\ TimeOf(wakeups + 1) = TimeOf(wakeups) + Timeout
        /\ waited \in 0..Timeout /\ elapsed \in Nat /\ Timeout \in Nat
    BY OneMorePoll, TimeoutAssumption DEF CallIInv, CallTypeOK
  <2>. QED  BY <2>1 DEF CallIInv, CallTypeOK, TimeSpent
<1>. QED  BY <1>1, CallInvariance, PTL

(* The flag is a local of the call: no step writes it after the return,    *)
(* however late the marker of the sync request is dispatched.              *)
THEOREM FlagNotWrittenLate == CallSpec => NoWriteAfterReturn
<1>1. CallIInv /\ [CallNext]_callVars => [callPc = "returned" => syncDone' = syncDone]_callVars
  <2>. SUFFICES ASSUME CallIInv, [CallNext]_callVars, callPc = "returned" PROVE syncDone' = syncDone
    OBVIOUS
  <2>1. ~callback /\ syncDone \in BOOLEAN
    BY DEF CallIInv, CallbackInCall, CallTypeOK
  <2>2. CASE Call \/ Signal \/ IoError \/ Tick
    BY <2>2 DEF Call, Start, CallFlush, CallPollOut, CallPollIn, CallDispatch, Leave, Signal, IoError, Tick
  <2>3. CASE SendMarker \/ SendOther \/ MakeRoom \/ UNCHANGED callVars
    BY <2>3 DEF SendMarker, SendOther, MakeRoom, callVars
  <2>4. CASE LateDispatch
    BY <2>1, <2>4 DEF LateDispatch, Deliver
  <2>. QED  BY <2>2, <2>3, <2>4 DEF CallNext
<1>. QED  BY <1>1, CallInvariance, PTL DEF CallSpec, NoWriteAfterReturn
-----------------------------------------------------------------------------
(* The programs.                                                           *)

(* Any set of naturals has a least one.                                    *)
LEMMA LeastOf ==
  ASSUME NEW T \in SUBSET Nat, T # {}
  PROVE  \E n \in T : \A m \in T : n <= m
<1>. DEFINE R == OpToRel(<, Nat)
<1>1. \A x, y \in Nat : <<x, y>> \in R <=> x < y
  BY DEF OpToRel
<1>2. \E x \in T : \A y \in T : ~ (<<y, x>> \in R)
  <2>1. IsWellFoundedOn(OpToRel(<, Nat), Nat)
    BY NatLessThanWellFounded
  <2>. HIDE DEF R
  <2>2. IsWellFoundedOn(R, Nat)
    BY <2>1 DEF R
  <2>. QED  BY <2>2, WFMin
<1>. HIDE DEF R
<1>3. PICK x \in T : \A y \in T : ~ (<<y, x>> \in R)
  BY <1>2
<1>4. \A y \in T : ~ (y < x)
  BY <1>1, <1>3
<1>. QED  BY <1>4

(* What is left of a routine at step k.                                    *)
Rest(L, k) == SubSeq(L, k, Len(L))

LEMMA RestFacts ==
  ASSUME NEW L \in Seq(Step), NEW k \in 1..(Len(L) + 1)
  PROVE  /\ Rest(L, k) \in Seq(Step) /\ Len(Rest(L, k)) = Len(L) - k + 1
         /\ \A i \in 1..(Len(L) - k + 1) : Rest(L, k)[i] = L[k + i - 1]
         /\ Rest(L, k) = << >> <=> k = Len(L) + 1
<1>1. \A i \in k..Len(L) : L[i] \in Step
  OBVIOUS
<1>2. /\ Rest(L, k) \in Seq(Step)
      /\ Len(Rest(L, k)) = IF k <= Len(L) THEN Len(L) - k + 1 ELSE 0
      /\ \A i \in 1..(Len(L) - k + 1) : Rest(L, k)[i] = L[k + i - 1]
  BY <1>1, SubSeqProperties DEF Rest
<1>3. \A s \in Seq(Step) : s = << >> <=> Len(s) = 0
  OBVIOUS
<1>. QED  BY <1>2, <1>3

LEMMA RestHead ==
  ASSUME NEW L \in Seq(Step), NEW k \in 1..(Len(L) + 1), Rest(L, k) # << >>
  PROVE  /\ k \in DOMAIN L /\ L[k] \in Step
         /\ Head(Rest(L, k)) = L[k] /\ Tail(Rest(L, k)) = Rest(L, k + 1)
<1>1. k \in 1..Len(L)
  BY RestFacts
<1>. QED  BY <1>1, HeadTailOfSubSeq DEF Rest

LEMMA RestOfRest ==
  ASSUME NEW L \in Seq(Step), NEW k \in 1..(Len(L) + 1), NEW i \in 1..(Len(L) - k + 1)
  PROVE  SubSeq(Rest(L, k), i, Len(Rest(L, k))) = Rest(L, k + i - 1)
<1>1. Len(Rest(L, k)) = Len(L) - k + 1 /\ k \in 1..Len(L)
  BY RestFacts
<1>2. SubSeq(SubSeq(L, k, Len(L)), i, Len(L) - k + 1) = SubSeq(L, k + i - 1, k + (Len(L) - k + 1) - 1)
  BY <1>1, SubSeqOfSubSeq
<1>. QED  BY <1>1, <1>2 DEF Rest

(* The steps that are passed over are those that are idle.                 *)
LEMMA FirstDue ==
  ASSUME NEW L \in Seq(Step), NEW k \in 1..(Len(L) + 1), NEW A
  PROVE  \E j \in k..(Len(L) + 1) :
           /\ FromFirstDue(Rest(L, k), A) = Rest(L, j)
           /\ \A i \in k..(j - 1) : Idle(L[i], A)
           /\ j \in DOMAIN L => ~Idle(L[j], A)
<1>. DEFINE R == Rest(L, k)
            due == { i \in DOMAIN R : ~Idle(R[i], A) }
<1>0. Len(L) \in Nat /\ k \in Nat /\ 1 <= k /\ k <= Len(L) + 1
  OBVIOUS
<1>1. /\ R \in Seq(Step) /\ Len(R) = Len(L) - k + 1 /\ DOMAIN R = 1..(Len(L) - k + 1)
      /\ \A i \in 1..(Len(L) - k + 1) : R[i] = L[k + i - 1]
      /\ Len(L) \in Nat
  BY RestFacts
<1>2. CASE due = {}
  <2>1. FromFirstDue(R, A) = Rest(L, Len(L) + 1)
    BY <1>1, <1>2, RestFacts DEF FromFirstDue
  <2>2. \A i \in k..Len(L) : Idle(L[i], A)
    <3>. SUFFICES ASSUME NEW i \in k..Len(L) PROVE Idle(L[i], A)
      OBVIOUS
    <3>0. i - k + 1 \in 1..(Len(L) - k + 1) /\ k + (i - k + 1) - 1 = i
      BY <1>0
    <3>1. i - k + 1 \in DOMAIN R /\ R[i - k + 1] = L[i]
      BY <1>1, <3>0
    <3>. QED  BY <1>2, <3>1
  <2>3. Len(L) + 1 \in k..(Len(L) + 1) /\ Len(L) + 1 - 1 = Len(L) /\ Len(L) + 1 \notin DOMAIN L
    BY <1>1
  <2>. QED  BY <2>1, <2>2, <2>3
<1>3. CASE due # {}
  <2>1. due \in SUBSET Nat
    BY <1>1
  <2>2. \E n \in due : \A l \in due : n <= l
    BY <1>3, <2>1, LeastOf
  <2>. DEFINE m == CHOOSE n \in due : \A l \in due : n <= l
  <2>3. m \in due /\ \A l \in due : m <= l
    BY <2>2
  <2>4. FromFirstDue(R, A) = SubSeq(R, m, Len(R))
    BY <1>3 DEF FromFirstDue
  <2>. HIDE DEF m
  <2>5. m \in 1..(Len(L) - k + 1) /\ ~Idle(R[m], A)
    BY <1>1, <2>3
  <2>bounds. Len(L) \in Nat /\ k \in Nat /\ m \in Nat /\ 1 <= m /\ m <= Len(L) - k + 1
    BY <1>0, <2>5
  <2>6. PICK j \in k..(Len(L) + 1) : j = k + m - 1
    <3>1. k + m - 1 \in k..(Len(L) + 1)
      BY <2>bounds
    <3>. QED  BY <3>1
  <2>7. FromFirstDue(R, A) = Rest(L, j)
    BY <1>1, <2>4, <2>5, <2>6, RestOfRest
  <2>8. \A i \in k..(j - 1) : Idle(L[i], A)
    <3>. SUFFICES ASSUME NEW i \in k..(j - 1), ~Idle(L[i], A) PROVE FALSE
      OBVIOUS
    <3>0. /\ i \in Nat /\ i - k + 1 \in 1..(Len(L) - k + 1)
          /\ k + (i - k + 1) - 1 = i /\ i - k + 1 < m
      BY <1>0, <2>6, <2>bounds
    <3>1. i - k + 1 \in DOMAIN R /\ R[i - k + 1] = L[i] /\ i - k + 1 < m
      BY <1>1, <3>0
    <3>2. i - k + 1 \in due
      BY <3>1
    <3>. QED  BY <2>3, <2>5, <3>1, <3>2
  <2>9. ~Idle(L[j], A)
    BY <1>1, <2>5, <2>6
  <2>. HIDE DEF due
  <2>. QED  BY <2>7, <2>8, <2>9
<1>. QED  BY <1>2, <1>3

(* What the steps from l on may have made, or dropped.                     *)
LEMMA InMadeIn ==
  ASSUME NEW L, NEW l \in Nat, NEW k \in Nat, NEW x
  PROVE  x \in MadeIn(L, l, k) <=> \E m \in l..(k - 1) : x \in Outs(L[m])
BY DEF MadeIn

LEMMA InDroppedIn ==
  ASSUME NEW L, NEW l \in Nat, NEW k \in Nat, NEW x
  PROVE  x \in DroppedIn(L, l, k) <=> \E m \in l..(k - 1) : x \in Gone(L[m])
BY DEF DroppedIn

LEMMA MoreMadeLater ==
  ASSUME NEW L, NEW l \in Nat, NEW k \in Nat, NEW j \in Nat, k <= j
  PROVE  /\ MadeIn(L, l, k) \subseteq MadeIn(L, l, j)
         /\ DroppedIn(L, l, k) \subseteq DroppedIn(L, l, j)
<1>1. \A m \in l..(k - 1) : m \in l..(j - 1)
  OBVIOUS
<1>. QED  BY <1>1, InMadeIn, InDroppedIn

-----------------------------------------------------------------------------
(* Why step l may not have run, as seen from place k: it failed, what it   *)
(* asked for was not there, or what it must not meet was.                  *)
Denied(L, l, k, A, made) ==
  \/ "skip" \in L[l].fails
  \/ \E x \in L[l].when : x \notin A \/ x \in MadeIn(L, l, k)
  \/ \E x \in L[l].unless \cap made : x \in A \/ x \in DroppedIn(L, l, k)

(* What the steps that are behind say about what is there at place k.      *)
DropsCame(L, k, A, made) ==
  \A l \in 1..(k - 1) : \A x \in (L[l].drops \ MadeIn(L, l, k)) \cap A : Denied(L, l, k, A, made)
MakesCame(L, k, A, made) ==
  \A l \in 1..(k - 1) : \A x \in L[l].makes \ (DroppedIn(L, l + 1, k) \cup A) : Denied(L, l, k, A, made)
Known(L, k, A, made, without, with) ==
  /\ DropsCame(L, k, A, made) /\ MakesCame(L, k, A, made)
  /\ A \cap without \subseteq MadeIn(L, 1, k)
  /\ with \ DroppedIn(L, 1, k) \subseteq A

LEMMA KnownStart ==
  ASSUME NEW L, NEW A, NEW made, NEW without, NEW with, A \cap without = {}, with \subseteq A
  PROVE  Known(L, 1, A, made, without, with)
BY DEF Known, DropsCame, MakesCame

(* What denied a step is not forgotten.                                    *)
LEMMA StillDenied ==
  ASSUME NEW L, NEW l \in Nat, NEW k \in Nat, NEW j \in Nat, k <= j,
         NEW A, NEW B, NEW made, Denied(L, l, k, A, made),
         B \subseteq A \cup MadeIn(L, l, j), A \ B \subseteq DroppedIn(L, l, j)
  PROVE  Denied(L, l, j, B, made)
<1>1. MadeIn(L, l, k) \subseteq MadeIn(L, l, j) /\ DroppedIn(L, l, k) \subseteq DroppedIn(L, l, j)
  BY MoreMadeLater
<1>2. CASE "skip" \in L[l].fails
  BY <1>2 DEF Denied
<1>3. CASE \E x \in L[l].when : x \notin A \/ x \in MadeIn(L, l, k)
  BY <1>1, <1>3 DEF Denied
<1>4. CASE \E x \in L[l].unless \cap made : x \in A \/ x \in DroppedIn(L, l, k)
  BY <1>1, <1>4 DEF Denied
<1>. QED  BY <1>2, <1>3, <1>4 DEF Denied

(* A step whose condition does not hold is denied there and then.          *)
LEMMA DeniedNow ==
  ASSUME NEW L, NEW l, NEW k, NEW A, NEW made, A \subseteq made, ~Applies(L[l], A)
  PROVE  Denied(L, l, k, A, made)
BY DEF Applies, Denied

(* Steps that are passed over leave what is known true.                    *)
LEMMA KnownIdle ==
  ASSUME NEW L \in Seq(Step), NEW k \in 1..(Len(L) + 1), NEW j \in k..(Len(L) + 1),
         NEW A, NEW made, NEW without, NEW with, A \subseteq made,
         Known(L, k, A, made, without, with), \A i \in k..(j - 1) : Idle(L[i], A)
  PROVE  Known(L, j, A, made, without, with)
<1>0. k \in Nat /\ j \in Nat /\ k <= j /\ Len(L) \in Nat
  OBVIOUS
<1>1. \A l \in Nat : MadeIn(L, l, k) \subseteq MadeIn(L, l, j) /\ DroppedIn(L, l, k) \subseteq DroppedIn(L, l, j)
  BY <1>0, MoreMadeLater
<1>2. \A l \in k..(j - 1) : l \in 1..Len(L) /\ L[l] \in Step
  BY <1>0
<1>3. DropsCame(L, j, A, made)
  <2>. SUFFICES ASSUME NEW l \in 1..(j - 1), NEW x \in (L[l].drops \ MadeIn(L, l, j)) \cap A
                PROVE  Denied(L, l, j, A, made)
    BY DEF DropsCame
  <2>1. CASE l < k
    <3>1. l \in 1..(k - 1) /\ l \in Nat
      BY <1>0, <2>1
    <3>2. Denied(L, l, k, A, made)
      BY <1>1, <3>1 DEF Known, DropsCame
    <3>. QED  BY <1>0, <3>1, <3>2, StillDenied
  <2>2. CASE l >= k
    <3>1. l \in k..(j - 1)
      BY <1>0, <2>2
    <3>2. ~Applies(L[l], A)
      BY <3>1 DEF Idle
    <3>. QED  BY <3>2, DeniedNow
  <2>. QED  BY <1>0, <2>1, <2>2
<1>4. MakesCame(L, j, A, made)
  <2>. SUFFICES ASSUME NEW l \in 1..(j - 1), NEW x \in L[l].makes \ (DroppedIn(L, l + 1, j) \cup A)
                PROVE  Denied(L, l, j, A, made)
    BY DEF MakesCame
  <2>1. CASE l < k
    <3>1. l \in 1..(k - 1) /\ l \in Nat /\ l + 1 \in Nat
      BY <1>0, <2>1
    <3>2. Denied(L, l, k, A, made)
      BY <1>1, <3>1 DEF Known, MakesCame
    <3>. QED  BY <1>0, <3>1, <3>2, StillDenied
  <2>2. CASE l >= k
    <3>1. l \in k..(j - 1)
      BY <1>0, <2>2
    <3>2. ~Applies(L[l], A)
      BY <3>1 DEF Idle
    <3>. QED  BY <3>2, DeniedNow
  <2>. QED  BY <1>0, <2>1, <2>2
<1>5. A \cap without \subseteq MadeIn(L, 1, j) /\ with \ DroppedIn(L, 1, j) \subseteq A
  BY <1>1 DEF Known
<1>. QED  BY <1>3, <1>4, <1>5 DEF Known

(* A step that runs, or is passed after it failed, adds to what is known.  *)
LEMMA KnownOn ==
  ASSUME NEW L \in Seq(Step), NEW k \in DOMAIN L, NEW A, NEW B,
         NEW made, NEW without, NEW with, A \subseteq made,
         Known(L, k, A, made, without, with),
         \/ /\ B = A /\ "skip" \in L[k].fails
         \/ \E got \in SUBSET L[k].may : B = (A \ L[k].drops) \cup L[k].makes \cup got
  PROVE  Known(L, k + 1, B, made, without, with)
<1>0. k \in Nat /\ k + 1 \in Nat /\ k <= k + 1 /\ k \in 1..Len(L) /\ Len(L) \in Nat /\ L[k] \in Step
  OBVIOUS
<1>1. \A l \in Nat : MadeIn(L, l, k) \subseteq MadeIn(L, l, k + 1)
                     /\ DroppedIn(L, l, k) \subseteq DroppedIn(L, l, k + 1)
  BY <1>0, MoreMadeLater
<1>2. B \subseteq A \cup Outs(L[k]) /\ A \ B \subseteq Gone(L[k])
  BY DEF Outs, Gone
<1>3. \A l \in Nat : l <= k => Outs(L[k]) \subseteq MadeIn(L, l, k + 1) /\ Gone(L[k]) \subseteq DroppedIn(L, l, k + 1)
  <2>1. \A l \in Nat : l <= k => k \in l..((k + 1) - 1)
    BY <1>0
  <2>. QED  BY <1>0, <2>1, InMadeIn, InDroppedIn
<1>4. DropsCame(L, k + 1, B, made)
  <2>. SUFFICES ASSUME NEW l \in 1..((k + 1) - 1), NEW x \in (L[l].drops \ MadeIn(L, l, k + 1)) \cap B
                PROVE  Denied(L, l, k + 1, B, made)
    BY DEF DropsCame
  <2>0. l \in Nat /\ l <= k
    BY <1>0
  <2>1. x \in A /\ x \notin MadeIn(L, l, k) /\ x \notin Outs(L[k])
    BY <1>1, <1>2, <1>3, <2>0
  <2>2. CASE l < k
    <3>1. l \in 1..(k - 1)
      BY <1>0, <2>2
    <3>2. Denied(L, l, k, A, made)
      BY <2>1, <3>1 DEF Known, DropsCame
    <3>. QED  BY <1>0, <1>2, <1>3, <2>0, <3>2, StillDenied
  <2>3. CASE l = k
    <3>1. "skip" \in L[k].fails
      BY <2>1, <2>3 DEF Outs
    <3>. QED  BY <2>3, <3>1 DEF Denied
  <2>. QED  BY <1>0, <2>0, <2>2, <2>3
<1>5. MakesCame(L, k + 1, B, made)
  <2>. SUFFICES ASSUME NEW l \in 1..((k + 1) - 1), NEW x \in L[l].makes \ (DroppedIn(L, l + 1, k + 1) \cup B)
                PROVE  Denied(L, l, k + 1, B, made)
    BY DEF MakesCame
  <2>0. l \in Nat /\ l <= k /\ l + 1 \in Nat
    BY <1>0
  <2>1. CASE l < k
    <3>1. l \in 1..(k - 1) /\ l + 1 <= k
      BY <1>0, <2>1
    <3>2. x \notin A /\ x \notin DroppedIn(L, l + 1, k)
      BY <1>1, <1>2, <1>3, <2>0, <3>1
    <3>3. Denied(L, l, k, A, made)
      BY <3>1, <3>2 DEF Known, MakesCame
    <3>. QED  BY <1>0, <1>2, <1>3, <2>0, <3>3, StillDenied
  <2>2. CASE l = k
    <3>1. "skip" \in L[k].fails
      BY <2>2
    <3>. QED  BY <2>2, <3>1 DEF Denied
  <2>. QED  BY <1>0, <2>0, <2>1, <2>2
<1>6. B \cap without \subseteq MadeIn(L, 1, k + 1) /\ with \ DroppedIn(L, 1, k + 1) \subseteq B
  <2>1. 1 \in Nat /\ 1 <= k
    BY <1>0
  <2>2. A \cap without \subseteq MadeIn(L, 1, k) /\ with \ DroppedIn(L, 1, k) \subseteq A
    BY DEF Known
  <2>. QED  BY <1>1, <1>2, <1>3, <2>1, <2>2
<1>. QED  BY <1>4, <1>5, <1>6 DEF Known

(* A step that k settles was not denied if k runs; nor was one that asks   *)
(* for nothing.                                                            *)
LEMMA SettledRan ==
  ASSUME NEW p, NEW L, NEW l, NEW k, NEW A, Settled(p, L, l, k), Applies(L[k], A)
  PROVE  ~Denied(L, l, k, A, MadeBy(p))
BY DEF Settled, Applies, Denied

LEMMA UnaskedRan ==
  ASSUME NEW p, NEW L, NEW l, NEW k, NEW A,
         "skip" \notin L[l].fails, L[l].when = {}, L[l].unless \cap MadeBy(p) = {}
  PROVE  ~Denied(L, l, k, A, MadeBy(p))
BY DEF Denied

(* What is known of routine r of program p at place k.                     *)
KnownAt(p, r, k, A) == Known(Code(p, r), k, A, MadeBy(p), Without(p, r), With(p, r))

LEMMA PresentIsThere ==
  ASSUME NEW p, NEW r, NEW k \in DOMAIN Code(p, r), Code(p, r) \in Seq(Step), NEW A, NEW x,
         KnownAt(p, r, k, A), Applies(Code(p, r)[k], A), Present(p, r, k, x)
  PROVE  x \in A
<1>. DEFINE L == Code(p, r)
<1>1. CASE x \in L[k].when
  BY <1>1 DEF Applies
<1>2. CASE x \in With(p, r) \ DroppedIn(L, 1, k)
  BY <1>2 DEF KnownAt, Known
<1>3. CASE \E l \in 1..(k - 1) :
             x \in L[l].makes /\ x \notin DroppedIn(L, l + 1, k) /\ Settled(p, L, l, k)
  <2>1. PICK l \in 1..(k - 1) :
          x \in L[l].makes /\ x \notin DroppedIn(L, l + 1, k) /\ Settled(p, L, l, k)
    BY <1>3
  <2>2. ~Denied(L, l, k, A, MadeBy(p))
    BY <2>1, SettledRan
  <2>3. MakesCame(L, k, A, MadeBy(p))
    BY DEF KnownAt, Known
  <2>. QED  BY <2>1, <2>2, <2>3 DEF MakesCame
<1>. QED  BY <1>1, <1>2, <1>3 DEF Present

LEMMA AbsentIsNotThere ==
  ASSUME NEW p, NEW r, NEW k \in DOMAIN Code(p, r), Code(p, r) \in Seq(Step), NEW A, NEW x,
         A \subseteq MadeBy(p),
         KnownAt(p, r, k, A), Applies(Code(p, r)[k], A), Absent(p, r, k, x)
  PROVE  x \notin A
<1>. DEFINE L == Code(p, r)
<1>1. CASE x \notin MadeBy(p) \/ x \in L[k].unless
  BY <1>1 DEF Applies
<1>2. CASE x \in Without(p, r) \ MadeIn(L, 1, k)
  BY <1>2 DEF KnownAt, Known
<1>3. CASE \E l \in 1..(k - 1) :
             x \in L[l].drops /\ x \notin MadeIn(L, l, k) /\ Settled(p, L, l, k)
  <2>1. PICK l \in 1..(k - 1) :
          x \in L[l].drops /\ x \notin MadeIn(L, l, k) /\ Settled(p, L, l, k)
    BY <1>3
  <2>2. ~Denied(L, l, k, A, MadeBy(p))
    BY <2>1, SettledRan
  <2>3. DropsCame(L, k, A, MadeBy(p))
    BY DEF KnownAt, Known
  <2>. QED  BY <2>1, <2>2, <2>3 DEF DropsCame
<1>. QED  BY <1>1, <1>2, <1>3 DEF Absent

LEMMA UpheldIsThere ==
  ASSUME NEW p, NEW r, NEW k \in 1..(Len(Code(p, r)) + 1), Code(p, r) \in Seq(Step),
         NEW A, NEW x, KnownAt(p, r, k, A), Upheld(p, r, k, x), r = "setup" \/ x \in With(p, r)
  PROVE  x \in A
<1>. DEFINE L == Code(p, r)
<1>1. CASE r # "setup" /\ x \notin DroppedIn(L, 1, k)
  BY <1>1 DEF KnownAt, Known
<1>2. CASE Ensured(p, L, k, x)
  <2>1. PICK l \in 1..(k - 1) :
          /\ x \in L[l].makes /\ x \notin DroppedIn(L, l + 1, k)
          /\ "skip" \notin L[l].fails /\ L[l].when = {} /\ L[l].unless \cap MadeBy(p) = {}
    BY <1>2 DEF Ensured
  <2>2. ~Denied(L, l, k, A, MadeBy(p))
    BY <2>1, UnaskedRan
  <2>3. MakesCame(L, k, A, MadeBy(p))
    BY DEF KnownAt, Known
  <2>. QED  BY <2>1, <2>2, <2>3 DEF MakesCame
<1>. QED  BY <1>1, <1>2 DEF Upheld

-----------------------------------------------------------------------------
(* Where a program is: in a routine, at one of its steps, with all that is *)
(* known there; or at the end of one.                                      *)
Program == Programs[app]
At(k) ==
  /\ todo = Rest(Code(Program, routine), k) /\ KnownAt(Program, routine, k, alive)
  /\ k \in DOMAIN Code(Program, routine) => ~Idle(Code(Program, routine)[k], alive)
Placed ==
  /\ alive \subseteq MadeBy(Program)
  /\ Busy => \E k \in 1..(Len(Code(Program, routine)) + 1) : At(k)
  /\ ~Busy => todo = << >> /\ alive \cap Locals = {}
  /\ routine = "loop" => Standing(Program) \subseteq alive
PlaceInv == ClientTypeOK /\ Placed

LEMMA CodeType ==
  ASSUME NEW a \in DOMAIN Programs, NEW r \in Names(Programs[a])
  PROVE  /\ Code(Programs[a], r) \in Seq(Step)
         /\ \A k \in DOMAIN Code(Programs[a], r) :
              Outs(Code(Programs[a], r)[k]) \subseteq MadeBy(Programs[a]) \cap STRING
<1>. DEFINE q == Programs[a]
            L == Code(q, r)
<1>1. L \in Seq(Step)
  BY ProgramsAssumption DEF IsProgram, Names, Code
<1>2. ASSUME NEW k \in DOMAIN L PROVE Outs(L[k]) \subseteq MadeBy(q) \cap STRING
  <2>1. L[k] \in Step /\ Len(L) \in Nat /\ k \in 1..((Len(L) + 1) - 1)
    BY <1>1
  <2>2. Outs(L[k]) \subseteq MadeIn(L, 1, Len(L) + 1)
    BY <2>1, InMadeIn
  <2>3. Outs(L[k]) \subseteq MadeBy(q)
    BY <2>2 DEF MadeBy
  <2>4. Outs(L[k]) \subseteq STRING
    BY <2>1 DEF Outs, Step
  <2>. QED  BY <2>3, <2>4
<1>. QED  BY <1>1, <1>2

LEMMA BusyName ==
  ASSUME ClientTypeOK, Busy
  PROVE  routine \in Names(Program) /\ routine \notin {"loop", "gone"} /\ app \in DOMAIN Programs
BY DEF ClientTypeOK, Busy, Names, Program

(* Entering a routine: what it starts with is what it is thought to.       *)
LEMMA Entered ==
  ASSUME NEW a \in DOMAIN Programs, NEW r \in Names(Programs[a]), NEW A,
         A \subseteq MadeBy(Programs[a]), A \cap Without(Programs[a], r) = {},
         With(Programs[a], r) \subseteq A
  PROVE  \E k \in 1..(Len(Code(Programs[a], r)) + 1) :
           /\ FromFirstDue(Code(Programs[a], r), A) = Rest(Code(Programs[a], r), k)
           /\ KnownAt(Programs[a], r, k, A)
           /\ k \in DOMAIN Code(Programs[a], r) => ~Idle(Code(Programs[a], r)[k], A)
<1>. DEFINE q == Programs[a]
            L == Code(q, r)
<1>1. L \in Seq(Step) /\ Len(L) \in Nat
  BY CodeType
<1>2. Rest(L, 1) = L
  BY <1>1 DEF Rest
<1>3. PICK j \in 1..(Len(L) + 1) :
        /\ FromFirstDue(Rest(L, 1), A) = Rest(L, j)
        /\ \A i \in 1..(j - 1) : Idle(L[i], A)
        /\ j \in DOMAIN L => ~Idle(L[j], A)
  BY <1>1, FirstDue
<1>4. Known(L, 1, A, MadeBy(q), Without(q, r), With(q, r))
  BY KnownStart
<1>5. Known(L, j, A, MadeBy(q), Without(q, r), With(q, r))
  BY <1>1, <1>3, <1>4, KnownIdle
<1>. QED  BY <1>2, <1>3, <1>5 DEF KnownAt

(* A program at work is at a step that runs.                               *)
LEMMA Here ==
  ASSUME PlaceInv, Pending
  PROVE  /\ Busy /\ app \in DOMAIN Programs /\ routine \in Names(Program)
         /\ \E k \in DOMAIN Code(Program, routine) :
              /\ Now = Code(Program, routine)[k] /\ Now \in Step
              /\ Tail(todo) = Rest(Code(Program, routine), k + 1)
              /\ KnownAt(Program, routine, k, alive) /\ Applies(Now, alive)
<1>1. Busy /\ app \in DOMAIN Programs /\ routine \in Names(Program)
  BY BusyName DEF PlaceInv, ClientTypeOK
<1>. DEFINE L == Code(Program, routine)
<1>2. L \in Seq(Step)
  BY <1>1, CodeType DEF Program
<1>3. PICK k \in 1..(Len(L) + 1) : At(k)
  BY <1>1 DEF PlaceInv, Placed
<1>4. Rest(L, k) # << >> /\ todo = Rest(L, k)
  BY <1>3 DEF At, Pending
<1>5. k \in DOMAIN L /\ L[k] \in Step /\ Now = L[k] /\ Tail(todo) = Rest(L, k + 1)
  BY <1>2, <1>4, RestHead DEF Now
<1>6. KnownAt(Program, routine, k, alive) /\ Applies(Now, alive)
  BY <1>3, <1>5 DEF At, Idle
<1>. QED  BY <1>1, <1>5, <1>6

(* A step that does what it says, or is passed after it failed.            *)
LEMMA WentOn ==
  ASSUME PlaceInv, Pending, Proceed,
         \/ alive' = alive /\ "skip" \in Now.fails
         \/ \E got \in SUBSET Now.may : alive' = (alive \ Now.drops) \cup Now.makes \cup got
  PROVE  PlaceInv'
<1>. DEFINE L == Code(Program, routine)
<1>1. /\ Busy /\ app \in DOMAIN Programs /\ routine \in Names(Program)
      /\ app' = app /\ routine' = routine /\ Program' = Program
  BY Here DEF Proceed, Program
<1>2. PICK k \in DOMAIN L :
        /\ Now = L[k] /\ Now \in Step /\ Tail(todo) = Rest(L, k + 1)
        /\ KnownAt(Program, routine, k, alive)
  BY Here
<1>3. L \in Seq(Step) /\ Len(L) \in Nat /\ Outs(L[k]) \subseteq MadeBy(Program) \cap STRING
  BY <1>1, CodeType DEF Program
<1>4. alive \subseteq MadeBy(Program) /\ alive \subseteq STRING
  BY DEF PlaceInv, Placed, ClientTypeOK
<1>5. alive' \subseteq MadeBy(Program) /\ alive' \subseteq STRING
  BY <1>2, <1>3, <1>4 DEF Outs
<1>6. Known(L, k + 1, alive', MadeBy(Program), Without(Program, routine), With(Program, routine))
  BY <1>2, <1>3, <1>4, KnownOn DEF KnownAt
<1>7. k + 1 \in 1..(Len(L) + 1)
  BY <1>3
<1>8. PICK j \in (k + 1)..(Len(L) + 1) :
        /\ FromFirstDue(Rest(L, k + 1), alive') = Rest(L, j)
        /\ \A i \in (k + 1)..(j - 1) : Idle(L[i], alive')
        /\ j \in DOMAIN L => ~Idle(L[j], alive')
  BY <1>3, <1>7, FirstDue
<1>9. Known(L, j, alive', MadeBy(Program), Without(Program, routine), With(Program, routine))
  BY <1>3, <1>5, <1>6, <1>7, <1>8, KnownIdle
<1>10. j \in 1..(Len(L) + 1)
  BY <1>3, <1>7
<1>11. todo' = Rest(L, j) /\ todo' \in Seq(Step)
  <2>1. todo' = FromFirstDue(Rest(L, k + 1), alive')
    BY <1>2 DEF Proceed
  <2>2. Rest(L, j) \in Seq(Step)
    BY <1>3, <1>10, RestFacts
  <2>. QED  BY <1>8, <2>1, <2>2
<1>12. At(j)'
  BY <1>1, <1>8, <1>9, <1>11 DEF At, KnownAt
<1>13. \E i \in 1..(Len(Code(Program', routine')) + 1) : At(i)'
  BY <1>1, <1>10, <1>12
<1>14. ClientTypeOK'
  BY <1>1, <1>5, <1>11 DEF ClientTypeOK, PlaceInv, Busy
<1>15. Busy' /\ (routine # "loop")'
  BY <1>1 DEF Busy
<1>16. Placed'
  BY <1>1, <1>5, <1>13, <1>15 DEF Placed
<1>. QED  BY <1>14, <1>16 DEF PlaceInv

(* A routine that begins, and the end of one.                              *)
LEMMA EnterRoutine ==
  ASSUME PlaceInv, app \in DOMAIN Programs, NEW r \in Names(Program) \ {"setup", "loop", "gone"},
         Enter(r, Code(Program, r)), With(Program, r) \subseteq alive'
  PROVE  PlaceInv'
<1>1. /\ app' = app /\ routine' = r /\ Program' = Program
      /\ alive' \subseteq alive \ Locals
      /\ todo' = FromFirstDue(Code(Program, r), alive')
  BY DEF Enter, Program
<1>2. alive' \subseteq MadeBy(Program) /\ alive' \subseteq STRING
  BY <1>1 DEF PlaceInv, Placed, ClientTypeOK
<1>3. alive' \cap Without(Program, r) = {}
  BY <1>1 DEF Without
<1>4. PICK k \in 1..(Len(Code(Program, r)) + 1) :
        /\ FromFirstDue(Code(Program, r), alive') = Rest(Code(Program, r), k)
        /\ KnownAt(Program, r, k, alive')
        /\ k \in DOMAIN Code(Program, r) => ~Idle(Code(Program, r)[k], alive')
  BY <1>2, <1>3, Entered DEF Program
<1>5. At(k)'
  BY <1>1, <1>4 DEF At
<1>6. todo' \in Seq(Step)
  BY <1>1, <1>4, CodeType, RestFacts DEF Program
<1>7. Busy' /\ (routine # "loop")'
  BY <1>1 DEF Busy
<1>8. ClientTypeOK'
  BY <1>1, <1>2, <1>6, <1>7 DEF ClientTypeOK, Names, Program
<1>9. \E i \in 1..(Len(Code(Program', routine')) + 1) : At(i)'
  BY <1>1, <1>4, <1>5
<1>10. Placed'
  BY <1>1, <1>2, <1>7, <1>9 DEF Placed
<1>. QED  BY <1>8, <1>10 DEF PlaceInv

LEMMA EnterIdle ==
  ASSUME PlaceInv, app \in DOMAIN Programs, NEW r \in {"loop", "gone"}, Enter(r, << >>),
         r = "loop" => Standing(Program) \subseteq alive
  PROVE  PlaceInv'
<1>1. /\ app' = app /\ routine' = r /\ Program' = Program
      /\ alive' = (alive \ Locals) \ (IF routine = "setup" THEN Flags \ Program.asks ELSE {})
      /\ todo' = FromFirstDue(<< >>, alive')
  BY DEF Enter, Program
<1>2. todo' = << >> /\ << >> \in Seq(Step)
  BY <1>1 DEF FromFirstDue
<1>3. alive' \subseteq MadeBy(Program) /\ alive' \subseteq STRING
  BY <1>1 DEF PlaceInv, Placed, ClientTypeOK
<1>4. r = "loop" => Standing(Program) \subseteq alive'
  BY <1>1 DEF Standing
<1>5. ~Busy' /\ ~Pending'
  BY <1>1, <1>2 DEF Busy, Pending
<1>6. ClientTypeOK'
  BY <1>1, <1>2, <1>3, <1>5 DEF ClientTypeOK
<1>7. alive' \cap Locals = {}
  BY <1>1
<1>8. Placed'
  BY <1>1, <1>2, <1>3, <1>4, <1>5, <1>7 DEF Placed
<1>. QED  BY <1>6, <1>8 DEF PlaceInv

(* Where the setup or a handler ends, what has to be there is.             *)
LEMMA LeftStanding ==
  ASSUME PlaceInv, Busy, routine # "teardown", NEW k \in 1..(Len(Code(Program, routine)) + 1),
         KnownAt(Program, routine, k, alive),
         \/ k = Len(Code(Program, routine)) + 1
         \/ k \in DOMAIN Code(Program, routine) /\ "return" \in Code(Program, routine)[k].fails
  PROVE  Standing(Program) \subseteq alive
<1>1. app \in DOMAIN Programs /\ routine \in Names(Program) \ {"teardown"}
  BY BusyName DEF PlaceInv
<1>2. Code(Program, routine) \in Seq(Step)
  BY <1>1, CodeType DEF Program
<1>3. ASSUME NEW x \in Standing(Program) PROVE x \in alive
  <2>1. Upheld(Program, routine, k, x)
    BY <1>1, <1>3 DEF Standing
  <2>2. routine = "setup" \/ x \in With(Program, routine)
    BY <1>1, <1>3 DEF With
  <2>. QED  BY <1>2, <2>1, <2>2, UpheldIsThere
<1>. QED  BY <1>3
-----------------------------------------------------------------------------
LEMMA PlaceInit == ClientInit => PlaceInv
<1>. SUFFICES ASSUME ClientInit PROVE PlaceInv
  OBVIOUS
<1>1. app \in DOMAIN Programs /\ routine = "setup" /\ alive = {} /\ "setup" \in Names(Program)
      /\ Code(Program, "setup") = Program.setup
  BY DEF ClientInit, Names, Code
<1>2. {} \subseteq MadeBy(Program) /\ {} \cap Without(Program, "setup") = {}
      /\ With(Program, "setup") \subseteq {}
  BY DEF With
<1>3. PICK k \in 1..(Len(Code(Program, "setup")) + 1) :
        /\ FromFirstDue(Code(Program, "setup"), {}) = Rest(Code(Program, "setup"), k)
        /\ KnownAt(Program, "setup", k, {})
        /\ k \in DOMAIN Code(Program, "setup") => ~Idle(Code(Program, "setup")[k], {})
  BY <1>1, <1>2, Entered DEF Program
<1>4. todo = Rest(Code(Program, routine), k)
  BY <1>1, <1>3 DEF ClientInit, Program
<1>5. At(k)
  BY <1>1, <1>3, <1>4 DEF At
<1>6. todo \in Seq(Step)
  BY <1>1, <1>4, CodeType, RestFacts DEF Program
<1>7. Busy
  BY <1>1 DEF Busy
<1>8. ClientTypeOK
  BY <1>1, <1>6, <1>7 DEF ClientTypeOK
<1>9. \E i \in 1..(Len(Code(Program, routine)) + 1) : At(i)
  BY <1>1, <1>5
<1>10. Placed
  BY <1>1, <1>7, <1>9 DEF Placed
<1>. QED  BY <1>8, <1>10 DEF PlaceInv

LEMMA GivesUp ==
  ASSUME PlaceInv, GiveUp
  PROVE  PlaceInv'
<1>1. app \in DOMAIN Programs
  BY DEF PlaceInv, ClientTypeOK
<1>2. "teardown" \in Names(Program) /\ Code(Program, "teardown") = Program.teardown
  BY DEF Names, Code
<1>3. With(Program, "teardown") = {}
  BY DEF With
<1>4. Enter("teardown", Code(Program, "teardown"))
  BY <1>2 DEF GiveUp, Program
<1>. QED  BY <1>1, <1>2, <1>3, <1>4, EnterRoutine

LEMMA ComesBack ==
  ASSUME PlaceInv, FailAndReturn \/ Return
  PROVE  PlaceInv'
<1>1. app \in DOMAIN Programs
  BY DEF PlaceInv, ClientTypeOK
<1>2. CASE FailAndReturn
  <2>1. PICK k \in DOMAIN Code(Program, routine) :
          Now = Code(Program, routine)[k] /\ KnownAt(Program, routine, k, alive)
    BY <1>2, Here DEF FailAndReturn
  <2>2. Busy /\ routine \in Names(Program) /\ Code(Program, routine) \in Seq(Step)
    BY <1>1, <1>2, Here, CodeType DEF FailAndReturn, Program
  <2>3. "return" \in Code(Program, routine)[k].fails
    BY <1>2, <2>1 DEF FailAndReturn
  <2>4. routine # "teardown"
    BY <1>1, <2>1, <2>3, ProgramsAssumption DEF IsProgram, Code, Program
  <2>5. k \in 1..(Len(Code(Program, routine)) + 1)
    BY <2>2
  <2>6. Standing(Program) \subseteq alive
    BY <2>1, <2>2, <2>3, <2>4, <2>5, LeftStanding
  <2>. QED  BY <1>1, <1>2, <2>6, EnterIdle DEF FailAndReturn
<1>3. CASE Return /\ routine = "teardown"
  BY <1>1, <1>3, EnterIdle DEF Return
<1>4. CASE Return /\ routine # "teardown"
  <2>1. Busy /\ todo = << >>
    BY <1>4 DEF Return, Pending
  <2>2. routine \in Names(Program) /\ Code(Program, routine) \in Seq(Step)
    BY <1>1, <2>1, BusyName, CodeType DEF PlaceInv, Program
  <2>3. PICK k \in 1..(Len(Code(Program, routine)) + 1) : At(k)
    BY <2>1 DEF PlaceInv, Placed
  <2>4. k = Len(Code(Program, routine)) + 1 /\ KnownAt(Program, routine, k, alive)
    BY <2>1, <2>2, <2>3, RestFacts DEF At
  <2>5. Standing(Program) \subseteq alive
    BY <1>4, <2>1, <2>3, <2>4, LeftStanding
  <2>6. Enter("loop", << >>)
    BY <1>4 DEF Return
  <2>. QED  BY <1>1, <2>5, <2>6, EnterIdle
<1>. QED  BY <1>2, <1>3, <1>4

LEMMA Handles ==
  ASSUME PlaceInv, HandleEvent
  PROVE  PlaceInv'
<1>1. app \in DOMAIN Programs /\ routine = "loop"
  BY DEF PlaceInv, ClientTypeOK, HandleEvent
<1>2. PICK e \in DOMAIN Program.on : Program.on[e].of \subseteq alive /\ Enter(e, Program.on[e].code)
  BY DEF HandleEvent, Program
<1>3. e \notin {"setup", "loop", "teardown", "gone"} /\ e \in Names(Program)
      /\ Code(Program, e) = Program.on[e].code
  BY <1>1, ProgramsAssumption DEF IsProgram, Names, Code, Program
<1>4. alive' = alive \ Locals
  BY <1>1, <1>2 DEF Enter
<1>5. Standing(Program) \subseteq alive /\ Standing(Program) \cap Locals = {}
  BY <1>1 DEF PlaceInv, Placed, Standing
<1>6. With(Program, e) \subseteq alive'
  BY <1>2, <1>3, <1>4, <1>5 DEF With
<1>. QED  BY <1>1, <1>2, <1>3, <1>6, EnterRoutine

LEMMA PlaceNext == PlaceInv /\ [ClientNext]_clientVars => PlaceInv'
<1>. SUFFICES ASSUME PlaceInv, [ClientNext]_clientVars PROVE PlaceInv'
  OBVIOUS
<1>1. CASE Do
  BY <1>1, WentOn DEF Do
<1>2. CASE FailAndGoOn
  BY <1>2, WentOn DEF FailAndGoOn
<1>3. CASE FailAndReturn \/ Return
  BY <1>3, ComesBack
<1>4. CASE FailAndQuit \/ Quit
  BY <1>4, GivesUp DEF FailAndQuit, Quit
<1>5. CASE HandleEvent
  BY <1>5, Handles
<1>6. CASE UNCHANGED clientVars
  BY <1>6 DEF clientVars, PlaceInv, ClientTypeOK, Placed, At, KnownAt, Busy, Pending, Program
<1>. QED  BY <1>1, <1>2, <1>3, <1>4, <1>5, <1>6 DEF ClientNext

THEOREM PlaceInvariant == ClientSpec => []PlaceInv
<1>1. ClientInit => PlaceInv
  BY PlaceInit
<1>2. PlaceInv /\ [ClientNext]_clientVars => PlaceInv'
  BY PlaceNext
<1>. QED  BY <1>1, <1>2, PTL DEF ClientSpec

(* The variables keep their types.                                         *)
THEOREM ClientTypeCorrect == ClientSpec => []ClientTypeOK
<1>1. PlaceInv => ClientTypeOK
  BY DEF PlaceInv
<1>. QED  BY <1>1, PlaceInvariant, PTL

-----------------------------------------------------------------------------
(* A program each of whose steps finds what it needs, as far as can be     *)
(* told from its routine, never uses what is not there: UsesExist holds of *)
(* it with no exception at all.                                            *)
THEOREM UsesWhatExists ==
  ClientSpec => [](NeedsNothingMore(Programs[app]) => Missing = {} /\ UsesExist)
<1>1. ASSUME PlaceInv, NeedsNothingMore(Program), Pending
      PROVE  Now.uses \subseteq alive
  <2>1. routine \in Names(Program) /\ Code(Program, routine) \in Seq(Step)
    BY <1>1, Here, CodeType DEF Program
  <2>2. PICK k \in DOMAIN Code(Program, routine) :
          /\ Now = Code(Program, routine)[k]
          /\ KnownAt(Program, routine, k, alive) /\ Applies(Now, alive)
    BY <1>1, Here
  <2>3. ASSUME NEW x \in Now.uses PROVE x \in alive
    <3>1. Present(Program, routine, k, x)
      BY <1>1, <2>1, <2>2, <2>3 DEF NeedsNothingMore
    <3>. QED  BY <2>1, <2>2, <3>1, PresentIsThere
  <2>. QED  BY <2>3
<1>2. PlaceInv => (NeedsNothingMore(Programs[app]) => Missing = {} /\ UsesExist)
  BY <1>1 DEF UsesExist, Missing, Program
<1>. QED  BY <1>2, PlaceInvariant, PTL

(* A program that creates only into members that are empty by then, as far *)
(* as can be told from its routine, never overwrites one that holds an     *)
(* object, again with no exception.                                        *)
THEOREM OverwritesNothing ==
  ClientSpec => [](CreatesAfresh(Programs[app]) => Overwritten = {} /\ NothingOverwritten)
<1>1. ASSUME PlaceInv, CreatesAfresh(Program), Pending
      PROVE  (Now.makes \cap alive) \ Now.drops \subseteq Flags
  <2>1. /\ routine \in Names(Program) /\ Code(Program, routine) \in Seq(Step)
        /\ alive \subseteq MadeBy(Program)
    BY <1>1, Here, CodeType DEF Program, PlaceInv, Placed
  <2>2. PICK k \in DOMAIN Code(Program, routine) :
          /\ Now = Code(Program, routine)[k]
          /\ KnownAt(Program, routine, k, alive) /\ Applies(Now, alive)
    BY <1>1, Here
  <2>3. ASSUME NEW x \in Now.makes \ (Now.drops \cup Flags) PROVE x \notin alive
    <3>1. Absent(Program, routine, k, x)
      BY <1>1, <2>1, <2>2, <2>3 DEF CreatesAfresh
    <3>. QED  BY <2>1, <2>2, <3>1, AbsentIsNotThere
  <2>. QED  BY <2>3
<1>2. PlaceInv => (CreatesAfresh(Programs[app]) => Overwritten = {} /\ NothingOverwritten)
  BY <1>1 DEF NothingOverwritten, Overwritten, Program
<1>. QED  BY <1>2, PlaceInvariant, PTL

(* If every program destroys its children first, as far as can be told     *)
(* from its routines, no parent is ever destroyed before its child.        *)
THEOREM DestroysChildrenFirst ==
  ASSUME \A a \in DOMAIN Programs : DestroysInOrder(Programs[a])
  PROVE  ClientSpec => ChildrenFirst
<1>. DEFINE Ordered == \A r \in Rules : r[2] \in alive \ alive' => r[1] \notin alive'
<1>1. ASSUME PlaceInv PROVE app \in DOMAIN Programs /\ DestroysInOrder(Program)
  BY <1>1 DEF PlaceInv, ClientTypeOK, Program
<1>2. ASSUME PlaceInv, Do PROVE Ordered
  <2>1. /\ routine \in Names(Program) /\ Code(Program, routine) \in Seq(Step)
        /\ alive \subseteq MadeBy(Program)
    BY <1>2, Here, CodeType DEF Program, PlaceInv, Placed, Do
  <2>2. PICK k \in DOMAIN Code(Program, routine) :
          /\ Now = Code(Program, routine)[k]
          /\ KnownAt(Program, routine, k, alive) /\ Applies(Now, alive)
    BY <1>2, Here DEF Do
  <2>3. PICK got \in SUBSET Now.may : alive' = (alive \ Now.drops) \cup Now.makes \cup got
    BY <1>2 DEF Do
  <2>4. ASSUME NEW rule \in Rules, rule[2] \in alive \ alive' PROVE rule[1] \notin alive'
    <3>1. rule[2] \in Gone(Now)
      BY <2>3, <2>4 DEF Gone
    <3>2. /\ rule[1] \notin Outs(Now)
          /\ rule[1] \in Now.drops \/ Absent(Program, routine, k, rule[1])
      BY <1>1, <1>2, <2>1, <2>2, <3>1 DEF DestroysInOrder
    <3>3. rule[1] \notin alive \ Now.drops
      BY <2>1, <2>2, <3>2, AbsentIsNotThere
    <3>. QED  BY <2>3, <3>2, <3>3 DEF Outs
  <2>. QED  BY <2>4
<1>3. ASSUME PlaceInv, NEW r, NEW steps, Enter(r, steps) PROVE Ordered
  <2>1. alive \ alive' \subseteq Locals \cup Flags
    BY <1>3 DEF Enter
  <2>2. \A rule \in Rules : rule[2] \notin Locals \cup Flags
    BY <1>1, <1>3 DEF DestroysInOrder
  <2>. QED  BY <2>1, <2>2
<1>4. ASSUME alive' = alive PROVE Ordered
  BY <1>4
<1>5. PlaceInv /\ [ClientNext]_clientVars => [Ordered]_clientVars
  <2>. SUFFICES ASSUME PlaceInv, ClientNext PROVE Ordered
    OBVIOUS
  <2>. HIDE DEF Ordered
  <2>1. CASE Do
    BY <1>2, <2>1
  <2>2. CASE FailAndGoOn
    BY <1>4, <2>2 DEF FailAndGoOn
  <2>3. CASE FailAndReturn
    BY <1>3, <2>3 DEF FailAndReturn
  <2>4. CASE FailAndQuit \/ Quit
    BY <1>3, <2>4 DEF FailAndQuit, Quit, GiveUp
  <2>5. CASE Return
    BY <1>3, <2>5 DEF Return
  <2>6. CASE HandleEvent
    <3>1. PICK e \in DOMAIN Programs[app].on : Enter(e, Programs[app].on[e].code)
      BY <2>6 DEF HandleEvent
    <3>. QED  BY <1>3, <3>1
  <2>. QED  BY <2>1, <2>2, <2>3, <2>4, <2>5, <2>6 DEF ClientNext
<1>6. ClientSpec => [][Ordered]_clientVars
  BY <1>5, PlaceInvariant, PTL DEF ClientSpec
<1>. QED  BY <1>6, PTL DEF ChildrenFirst
-----------------------------------------------------------------------------
(* Where a program has its connection, it keeps it until the teardown has  *)
(* destroyed the rest.                                                     *)
LEMMA DisplayStands ==
  ASSUME NEW a \in DOMAIN Programs, OpensFirst(Programs[a])
  PROVE  "display" \in Standing(Programs[a])
<1>. DEFINE q == Programs[a]
<1>1. PICK d \in DOMAIN q.setup :
        /\ "display" \in q.setup[d].makes /\ q.setup[d].fails \subseteq {"abort"}
        /\ q.setup[d].when = {} /\ q.setup[d].unless \cap MadeBy(q) = {}
        /\ \A l \in 1..d : "return" \notin q.setup[l].fails
  BY DEF OpensFirst
<1>2. "setup" \in Names(q) /\ Code(q, "setup") = q.setup /\ q.setup \in Seq(Step) /\ Len(q.setup) \in Nat
  BY ProgramsAssumption DEF Names, Code, IsProgram
<1>3. "display" \in MadeBy(q)
  BY <1>1, <1>2, CodeType DEF Outs
<1>4. ASSUME NEW r \in Names(q) \ {"teardown"}, NEW k \in 1..(Len(Code(q, r)) + 1),
             r = "setup" => d < k
      PROVE  Upheld(q, r, k, "display")
  <2>1. Code(q, r) \in Seq(Step) /\ Len(Code(q, r)) \in Nat
    BY CodeType
  <2>2. "display" \notin DroppedIn(Code(q, r), 1, Len(Code(q, r)) + 1)
    BY DEF OpensFirst
  <2>3. DroppedIn(Code(q, r), 1, k) \subseteq DroppedIn(Code(q, r), 1, Len(Code(q, r)) + 1)
    <3>1. k \in Nat /\ Len(Code(q, r)) + 1 \in Nat /\ k <= Len(Code(q, r)) + 1 /\ 1 \in Nat
      BY <2>1
    <3>. QED  BY <3>1, MoreMadeLater
  <2>4. CASE r # "setup"
    BY <2>2, <2>3, <2>4 DEF Upheld
  <2>5. CASE r = "setup"
    <3>1. "display" \notin DroppedIn(q.setup, d + 1, k)
      <4>1. \A m \in (d + 1)..(k - 1) : m \in 1..(k - 1)
        BY <1>2
      <4>2. k \in Nat /\ d + 1 \in Nat
        BY <1>2, <2>1
      <4>. QED  BY <1>2, <2>2, <2>3, <2>5, <4>1, <4>2, InDroppedIn
    <3>2. d \in 1..(k - 1)
      BY <1>2, <1>4, <2>1, <2>5
    <3>3. Ensured(q, q.setup, k, "display")
      BY <1>1, <3>1, <3>2 DEF Ensured
    <3>. QED  BY <1>2, <2>5, <3>3 DEF Upheld
  <2>. QED  BY <2>4, <2>5
<1>5. ASSUME NEW r \in Names(q) \ {"teardown"}
      PROVE  /\ Upheld(q, r, Len(Code(q, r)) + 1, "display")
             /\ \A k \in DOMAIN Code(q, r) :
                  "return" \in Code(q, r)[k].fails => Upheld(q, r, k, "display")
  <2>1. Code(q, r) \in Seq(Step) /\ Len(Code(q, r)) \in Nat
    BY CodeType
  <2>2. Upheld(q, r, Len(Code(q, r)) + 1, "display")
    <3>1. r = "setup" => d < Len(Code(q, r)) + 1
      BY <1>2
    <3>. QED  BY <1>4, <2>1, <3>1
  <2>3. ASSUME NEW k \in DOMAIN Code(q, r), "return" \in Code(q, r)[k].fails
        PROVE  Upheld(q, r, k, "display")
    <3>1. r = "setup" => d < k
      BY <1>1, <1>2, <2>1, <2>3
    <3>2. k \in 1..(Len(Code(q, r)) + 1)
      BY <2>1
    <3>. QED  BY <1>4, <3>1, <3>2
  <2>. QED  BY <2>2, <2>3
<1>6. "display" \notin Locals \cup (Flags \ q.asks)
  BY DEF OpensFirst
<1>. QED  BY <1>3, <1>5, <1>6 DEF Standing

(* What remains when the connection closes.                                *)
Closed(A) == "display" \in A \/ A \subseteq Flags

LEMMA ClosedEnter ==
  ASSUME NEW r, NEW steps, Enter(r, steps), OpensFirst(Program), Closed(alive)
  PROVE  Closed(alive')
BY DEF Enter, OpensFirst, Closed

(* While it sets up, and while it runs.                                    *)
LEMMA ClosedWhileOpen ==
  ASSUME PlaceInv, UndoesAll(Program), routine # "teardown", routine # "gone"
  PROVE  Closed(alive)
<1>1. app \in DOMAIN Programs /\ OpensFirst(Program)
  BY DEF PlaceInv, ClientTypeOK, UndoesAll
<1>2. "display" \in Standing(Program)
  BY <1>1, DisplayStands DEF Program
<1>3. CASE routine = "loop"
  BY <1>2, <1>3 DEF PlaceInv, Placed, Closed
<1>4. CASE routine # "loop"
  <2>. DEFINE L == Code(Program, routine)
  <2>1. routine \in Names(Program) \ {"teardown"} /\ Busy
    BY <1>4, BusyName DEF PlaceInv, Busy
  <2>2. L \in Seq(Step) /\ Len(L) \in Nat
    BY <1>1, <2>1, CodeType DEF Program
  <2>3. PICK k \in 1..(Len(L) + 1) : KnownAt(Program, routine, k, alive)
    BY <2>1 DEF PlaceInv, Placed, At
  <2>4. "display" \notin DroppedIn(L, 1, Len(L) + 1)
    BY <1>1, <2>1 DEF OpensFirst
  <2>5. "display" \notin DroppedIn(L, 1, k)
    BY <2>2, <2>4, MoreMadeLater
  <2>6. CASE routine # "setup"
    <3>1. "display" \in With(Program, routine)
      BY <1>2, <2>1, <2>6 DEF With
    <3>. QED  BY <2>3, <2>5, <3>1 DEF KnownAt, Known, Closed
  <2>7. CASE routine = "setup"
    <3>1. L = Program.setup
      BY <2>7 DEF Code
    <3>2. PICK d \in DOMAIN L :
            /\ "display" \in L[d].makes /\ L[d].fails \subseteq {"abort"}
            /\ L[d].when = {} /\ L[d].unless \cap MadeBy(Program) = {}
            /\ MadeIn(L, 1, d) \subseteq Flags
      BY <1>1, <3>1 DEF OpensFirst
    <3>3. CASE k <= d
      <4>1. alive \subseteq MadeIn(L, 1, k)
        BY <2>3, <2>7 DEF KnownAt, Known, Without, PlaceInv, Placed
      <4>2. MadeIn(L, 1, k) \subseteq MadeIn(L, 1, d)
        <5>1. k \in Nat /\ d \in Nat /\ 1 \in Nat
          BY <2>2
        <5>. QED  BY <3>3, <5>1, MoreMadeLater
      <4>. QED  BY <3>2, <4>1, <4>2 DEF Closed
    <3>4. CASE d < k
      <4>1. d \in 1..(k - 1) /\ k \in Nat /\ d + 1 \in Nat
        BY <2>2, <3>4
      <4>2. "display" \notin DroppedIn(L, d + 1, k)
        <5>1. \A m \in (d + 1)..(k - 1) : m \in 1..(k - 1)
          BY <4>1
        <5>. QED  BY <2>5, <4>1, <5>1, InDroppedIn
      <4>3. "skip" \notin L[d].fails
        BY <3>2
      <4>4. ~Denied(L, d, k, alive, MadeBy(Program))
        BY <3>2, <4>3, UnaskedRan
      <4>5. "display" \in alive
        BY <2>3, <3>2, <4>1, <4>2, <4>4 DEF KnownAt, Known, MakesCame
      <4>. QED  BY <4>5 DEF Closed
    <3>. QED  BY <2>2, <3>3, <3>4
  <2>. QED  BY <2>6, <2>7
<1>. QED  BY <1>3, <1>4

(* While it is undone: the step that closes the connection comes last.     *)
LEMMA ClosedByTeardown ==
  ASSUME PlaceInv, UndoesAll(Program), routine = "teardown", Do, Closed(alive)
  PROVE  Closed(alive')
<1>. DEFINE L == Program.teardown
            made == MadeBy(Program)
<1>1. app \in DOMAIN Programs /\ ClosesLast(Program) /\ Code(Program, routine) = L
  BY DEF PlaceInv, ClientTypeOK, UndoesAll, Code
<1>2. L \in Seq(Step) /\ Len(L) \in Nat /\ \A l \in DOMAIN L : L[l].fails = {}
  BY <1>1, ProgramsAssumption DEF IsProgram, Program
<1>3. PICK k \in DOMAIN L : Now = L[k] /\ Now \in Step /\ KnownAt(Program, routine, k, alive)
  BY <1>1, Here DEF Do
<1>4. PICK got \in SUBSET Now.may : alive' = (alive \ Now.drops) \cup Now.makes \cup got
  BY DEF Do
<1>5. alive \subseteq made /\ k \in 1..Len(L) /\ k + 1 \in Nat /\ k \in Nat
  BY <1>2 DEF PlaceInv, Placed
<1>6. Outs(L[k]) \subseteq Flags /\ Outs(L[k]) \subseteq made
  BY <1>1, <1>3, CodeType, BusyName DEF ClosesLast, PlaceInv, Program, Do, Busy
<1>7. \A l \in 1..(k + 1) : MadeIn(L, l, k + 1) \subseteq Flags
  <2>1. \A l \in 1..(k + 1) : \A m \in l..((k + 1) - 1) : m \in DOMAIN L
    BY <1>2, <1>5
  <2>. QED  BY <1>1, <1>5, <2>1, InMadeIn DEF ClosesLast
<1>8. Known(L, k + 1, alive', made, Without(Program, routine), With(Program, routine))
  BY <1>1, <1>2, <1>3, <1>4, <1>5, KnownOn DEF KnownAt
<1>9. CASE alive \subseteq Flags
  BY <1>3, <1>4, <1>6, <1>9 DEF Closed, Outs
<1>10. CASE "display" \in alive
  <2>. SUFFICES ASSUME "display" \notin alive', NEW x \in alive', x \notin Flags PROVE FALSE
    BY DEF Closed
  <2>1. "display" \in Gone(L[k])
    BY <1>3, <1>4, <1>10 DEF Gone
  <2>2. x \in made /\ x # "display"
    BY <1>3, <1>4, <1>5, <1>6 DEF Outs
  <2>3. CASE x \in Locals
    <3>1. Without(Program, routine) = Locals
      BY DEF Without
    <3>2. x \in MadeIn(L, 1, k + 1)
      BY <1>8, <2>3, <3>1 DEF Known
    <3>. QED  BY <1>5, <1>7, <3>2
  <2>4. CASE x \notin Locals
    <3>1. PICK l \in DOMAIN L :
            /\ x \in L[l].drops /\ "display" \notin DroppedIn(L, 1, l)
            /\ L[l].when = {} /\ L[l].unless \cap made = {}
      BY <1>1, <2>2, <2>4 DEF ClosesLast
    <3>2. l \in 1..k
      <4>1. l \in Nat /\ 1 \in Nat
        BY <1>2
      <4>2. k \in 1..(l - 1) => "display" \in DroppedIn(L, 1, l)
        <5>. HIDE DEF L
        <5>. QED  BY <2>1, <4>1, InDroppedIn
      <4>. QED  BY <1>2, <1>5, <3>1, <4>2
    <3>3. l \in 1..((k + 1) - 1) /\ l \in 1..(k + 1)
      BY <1>5, <3>2
    <3>4. x \notin MadeIn(L, l, k + 1)
      BY <1>7, <3>3
    <3>5. Denied(L, l, k + 1, alive', made)
      BY <1>8, <3>1, <3>3, <3>4 DEF Known, DropsCame
    <3>. QED  BY <1>2, <3>1, <3>5, UnaskedRan
  <2>. QED  BY <2>3, <2>4
<1>. QED  BY <1>9, <1>10 DEF Closed

(* A program whose text opens the connection first and closes it last,     *)
(* after it has destroyed all that any of its steps makes, leaves nothing  *)
(* behind, wherever it gave up, with no exception.                         *)
THEOREM LeavesNothingBehind ==
  ClientSpec => [](UndoesAll(Programs[app]) => Stranded = {} /\ NothingOutlivesDisplay)
<1>. DEFINE Left == UndoesAll(Program) => Closed(alive)
<1>1. ClientInit => Left
  BY DEF ClientInit, Closed
<1>2. PlaceInv /\ PlaceInv' /\ Left /\ [ClientNext]_clientVars => Left'
  <2>. SUFFICES ASSUME PlaceInv, PlaceInv', Left, [ClientNext]_clientVars,
                       UndoesAll(Program')
                PROVE  Closed(alive')
    OBVIOUS
  <2>1. Program' = Program
    BY DEF ClientNext, clientVars, Do, FailAndGoOn, FailAndReturn, FailAndQuit, Return,
           HandleEvent, Quit, GiveUp, Proceed, Enter, Program
  <2>2. UndoesAll(Program) /\ OpensFirst(Program) /\ Closed(alive)
    BY <2>1 DEF UndoesAll
  <2>3. CASE Do
    <3>1. CASE routine = "teardown"
      BY <2>2, <2>3, <3>1, ClosedByTeardown
    <3>2. CASE routine # "teardown"
      <4>1. (routine # "teardown" /\ routine # "gone")'
        BY <2>3, <3>2, Here DEF Do, Proceed, Busy
      <4>2. PlaceInv' /\ UndoesAll(Program)' /\ (routine # "teardown")' /\ (routine # "gone")'
            => Closed(alive)'
        BY ClosedWhileOpen, PTL
      <4>. QED  BY <2>1, <2>2, <4>1, <4>2
    <3>. QED  BY <3>1, <3>2
  <2>4. CASE alive' = alive
    BY <2>2, <2>4
  <2>5. CASE FailAndReturn \/ FailAndQuit \/ Quit \/ Return \/ HandleEvent
    <3>1. \E r, steps : Enter(r, steps)
      BY <2>5 DEF FailAndReturn, FailAndQuit, Quit, Return, HandleEvent, GiveUp
    <3>. QED  BY <2>2, <3>1, ClosedEnter
  <2>. QED  BY <2>3, <2>4, <2>5 DEF ClientNext, FailAndGoOn, clientVars
<1>3. Left => (UndoesAll(Programs[app]) => Stranded = {} /\ NothingOutlivesDisplay)
  BY DEF Closed, NothingOutlivesDisplay, Stranded, Program
<1>. HIDE DEF Left
<1>. QED  BY <1>1, <1>2, <1>3, PlaceInvariant, PTL DEF ClientSpec
=============================================================================
