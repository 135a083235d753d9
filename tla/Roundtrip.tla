------------------------------ MODULE Roundtrip ------------------------------
(***************************************************************************)
(* wl::RoundtripWithTimeout (include/wl/display.hpp): send a sync request  *)
(* and dispatch events until its callback fires, waiting in polls that     *)
(* each get the whole timeout.                                             *)
(*                                                                         *)
(* The flag the callback sets is a local of the call, so that the callback *)
(* must not outlive it: the marker may still arrive after a timeout, and   *)
(* is then dispatched by whatever dispatches next.                         *)
(*                                                                         *)
(* Names that EventLoop has too are prefixed with "call": EventLoop_proofs *)
(* is about both of the functions that wait for the compositor.            *)
(***************************************************************************)
EXTENDS Integers

CONSTANTS
  Timeout,    \* timeout_ms, in units of the model's clock
  MaxOthers,  \* bound: events other than the marker the compositor sends
  MaxSignals  \* bound: signals that interrupt a poll

ASSUME TimeoutAssumption == Timeout \in Nat
ASSUME BoundAssumption == MaxOthers \in Nat /\ MaxSignals \in Nat

VARIABLES
  callPc,        \* where the call is
  callback,      \* sync_cb exists
  syncDone,      \* sync_done
  result,        \* what the call returned
  cause,         \* why the loop ended: done, timeout, error, signal
  callWritable,  \* the socket takes requests
  syncUnsent,    \* the sync request waits in the client's buffer
  marker,        \* the sync event: none, sent (in the socket) or dispatched
  callSocket,    \* other events that wait in the socket
  sent,          \* other events sent so far
  signals,       \* signals delivered so far
  waited,        \* time spent in the current poll
  elapsed,       \* time spent in the call
  wakeups        \* polls that returned before their timeout

time == <<waited, elapsed, wakeups>>
wire == <<callWritable, syncUnsent, marker, callSocket, sent>>
callVars == <<callPc, callback, syncDone, result, cause, wire, signals, time>>

CallTypeOK ==
  /\ callPc \in {"start", "flush", "pollout", "pollin", "dispatch", "leave", "returned"}
  /\ callback \in BOOLEAN /\ syncDone \in BOOLEAN /\ callWritable \in BOOLEAN
  /\ syncUnsent \in BOOLEAN
  /\ result \in {"none", "true", "false"}
  /\ cause \in {"none", "done", "timeout", "error", "signal"}
  /\ marker \in {"none", "sent", "dispatched"}
  /\ callSocket \in 0..MaxOthers /\ sent \in 0..MaxOthers /\ signals \in 0..MaxSignals
  /\ waited \in 0..Timeout
  /\ elapsed \in Nat /\ wakeups \in Nat

CallInit ==
  /\ callPc = "start"
  /\ callback = FALSE /\ syncDone = FALSE
  /\ result = "none" /\ cause = "none"
  /\ callWritable \in BOOLEAN /\ syncUnsent = FALSE
  /\ marker = "none" /\ callSocket = 0 /\ sent = 0 /\ signals = 0
  /\ waited = 0 /\ elapsed = 0 /\ wakeups = 0
-----------------------------------------------------------------------------
Break(why) == callPc' = "leave" /\ cause' = why

(* wl_display_sync: without a callback the call is over.                     *)
Start ==
  /\ callPc = "start"
  /\ \/ /\ callPc' = "flush" /\ callback' = TRUE /\ syncUnsent' = TRUE
        /\ UNCHANGED <<result, cause>>
     \/ /\ callPc' = "returned" /\ result' = "false" /\ cause' = "error"
        /\ UNCHANGED <<callback, syncUnsent>>
  /\ UNCHANGED <<syncDone, callWritable, marker, callSocket, sent, signals, time>>

(* while (!sync_done && ok): flush, or wait for room.                        *)
CallFlush ==
  /\ callPc = "flush"
  /\ \/ syncDone /\ Break("done") /\ UNCHANGED syncUnsent
     \/ ~syncDone /\ (callWritable \/ ~syncUnsent)
        /\ syncUnsent' = FALSE /\ callPc' = "pollin" /\ UNCHANGED cause
     \/ ~syncDone /\ ~callWritable /\ syncUnsent /\ callPc' = "pollout"
        /\ UNCHANGED <<syncUnsent, cause>>
  /\ waited' = 0
  /\ UNCHANGED <<callback, syncDone, result, callWritable, marker, callSocket, sent,
                 signals, elapsed, wakeups>>

(* A poll that got nothing within the timeout ends the loop.                 *)
TimedOut_Retries == callPc' = "flush" /\ UNCHANGED cause  \* mutant: taken for EINTR
TimedOut == Break("timeout")

(* poll(POLLOUT): room, or the timeout.                                      *)
CallPollOut ==
  /\ callPc = "pollout"
  /\ \/ callWritable /\ callPc' = "flush" /\ wakeups' = wakeups + 1 /\ UNCHANGED cause
     \/ ~callWritable /\ waited >= Timeout /\ TimedOut /\ UNCHANGED wakeups
  /\ UNCHANGED <<callback, syncDone, result, wire, signals, waited, elapsed>>

Arrived == callSocket > 0 \/ marker = "sent"

(* poll(POLLIN): something arrived, or the timeout.                          *)
CallPollIn ==
  /\ callPc = "pollin"
  /\ \/ Arrived /\ callPc' = "dispatch" /\ wakeups' = wakeups + 1 /\ UNCHANGED cause
     \/ ~Arrived /\ waited >= Timeout /\ TimedOut /\ UNCHANGED wakeups
  /\ UNCHANGED <<callback, syncDone, result, wire, signals, waited, elapsed>>

(* EINTR: poll(POLLIN) starts the iteration again, poll(POLLOUT) ends the    *)
(* loop.                                                                     *)
Signal ==
  /\ callPc \in {"pollin", "pollout"} /\ signals < MaxSignals
  /\ signals' = signals + 1
  /\ \/ callPc = "pollin" /\ callPc' = "flush" /\ wakeups' = wakeups + 1 /\ UNCHANGED cause
     \/ callPc = "pollout" /\ Break("signal") /\ UNCHANGED wakeups
  /\ UNCHANGED <<callback, syncDone, result, wire, waited, elapsed>>

(* An error of the flush, of a poll or of the dispatch ends the loop.        *)
IoError ==
  /\ callPc \in {"flush", "pollin", "pollout", "dispatch"} /\ ~syncDone
  /\ Break("error")
  /\ UNCHANGED <<callback, syncDone, result, wire, signals, time>>

(* Time passes in a poll that has nothing to return for.                     *)
MayWait_Forever == TRUE  \* mutant: poll(-1)
MayWait == waited < Timeout

(* The bound of the clock: more than any number of wake-ups allows.          *)
MaxElapsed == Timeout * (MaxOthers + MaxSignals + 3) + 1

Tick ==
  /\ \/ callPc = "pollout" /\ ~callWritable
     \/ callPc = "pollin" /\ ~Arrived
  /\ MayWait
  /\ elapsed < MaxElapsed
  /\ waited' = waited + 1
  /\ elapsed' = elapsed + 1
  /\ UNCHANGED <<callPc, callback, syncDone, result, cause, wire, signals, wakeups>>

(* wl_display_dispatch: everything that arrived is dispatched; the marker's  *)
(* listener sets the flag as long as its callback exists.                    *)
Deliver ==
  /\ callSocket' = 0
  /\ marker' = IF marker = "sent" THEN "dispatched" ELSE marker
  /\ syncDone' = (syncDone \/ (marker = "sent" /\ callback))
  /\ UNCHANGED <<callWritable, syncUnsent, sent>>

CallDispatch ==
  /\ callPc = "dispatch"
  /\ Deliver /\ callPc' = "flush"
  /\ UNCHANGED <<callback, result, cause, signals, time>>

(* return ok && sync_done, after the guard destroyed the callback.           *)
Leave_KeepsCallback ==  \* mutant: no ScopeExit on the way out
  /\ callPc = "leave"
  /\ callPc' = "returned"
  /\ result' = IF syncDone THEN "true" ELSE "false"
  /\ UNCHANGED <<callback, syncDone, cause, wire, signals, time>>

Leave ==
  /\ callPc = "leave"
  /\ callPc' = "returned" /\ callback' = FALSE
  /\ result' = IF syncDone /\ cause = "done" THEN "true" ELSE "false"
  /\ UNCHANGED <<syncDone, cause, wire, signals, time>>

Call == Start \/ CallFlush \/ CallPollOut \/ CallPollIn \/ CallDispatch \/ Leave
-----------------------------------------------------------------------------
(* The compositor answers the sync request, sends other events before and    *)
(* after, and makes room in its socket.                                      *)
SendMarker ==
  /\ callback \/ callPc = "returned"
  /\ marker = "none" /\ ~syncUnsent /\ callPc # "start" /\ cause # "error"
  /\ marker' = "sent"
  /\ UNCHANGED <<callPc, callback, syncDone, result, cause, callWritable, syncUnsent,
                 callSocket, sent, signals, time>>

SendOther ==
  /\ sent < MaxOthers
  /\ sent' = sent + 1 /\ callSocket' = callSocket + 1
  /\ UNCHANGED <<callPc, callback, syncDone, result, cause, callWritable, syncUnsent,
                 marker, signals, time>>

MakeRoom ==
  /\ ~callWritable /\ callWritable' = TRUE
  /\ UNCHANGED <<callPc, callback, syncDone, result, cause, syncUnsent, marker,
                 callSocket, sent, signals, time>>

(* The next dispatch of the client, after the call.                          *)
LateDispatch ==
  /\ callPc = "returned" /\ Arrived
  /\ Deliver
  /\ UNCHANGED <<callPc, callback, result, cause, signals, time>>

CallNext ==
  \/ Call \/ Signal \/ IoError
  \/ Tick \/ SendMarker \/ SendOther \/ MakeRoom \/ LateDispatch

CallSpec == CallInit /\ [][CallNext]_callVars

(* The thread runs, and time passes while it waits; no signal, no error and  *)
(* no message is bound to come.                                              *)
CallFairSpec == CallSpec /\ WF_callVars(Call) /\ WF_callVars(Tick)
-----------------------------------------------------------------------------
(* The flag is a local variable of the call: nothing writes it once the call *)
(* has returned, even when the marker arrives late (ScopeExit guard).        *)
NoWriteAfterReturn == [][callPc = "returned" => syncDone' = syncDone]_callVars

(* The whole call takes at most one timeout per poll that was woken, and one *)
(* more.  This is what the code guarantees in place of BoundedByTimeout.     *)
BoundedByWakeups == elapsed <= Timeout * (wakeups + 1)

(* "Never blocks longer than timeout_ms" (RoundtripWithTimeout).             *)
BoundedByTimeout == elapsed <= Timeout

(* "false on timeout or I/O error" (RoundtripWithTimeout).                   *)
FailureHasCause == result = "false" => cause \in {"timeout", "error"}

(* The call returns, even when the marker never comes, as the other events   *)
(* the compositor sends and the signals come to an end.                      *)
Returns == <>(callPc = "returned")
=============================================================================
