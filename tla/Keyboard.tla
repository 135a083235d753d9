------------------------------ MODULE Keyboard ------------------------------
(***************************************************************************)
(* wl::KeyboardHandler<App> (include/wl/keyboard.hpp): one wl_keyboard     *)
(* with client-side key repeat driven by a timerfd, bound and released by  *)
(* wl::SeatManager (include/wl/seat.hpp).                                  *)
(*                                                                         *)
(* Three parties take steps: the compositor, which sends the events of     *)
(* wl_keyboard and grants or withdraws the keyboard capability; the        *)
(* kernel, in which the timer expires; and the client's event loop, which  *)
(* calls DispatchRepeat when it finds the timerfd readable.  An event is   *)
(* dispatched in one step: handlers run to completion on one thread.       *)
(*                                                                         *)
(* KeyboardHandler lives by value inside its WlPtr, so that releasing the  *)
(* keyboard destroys the proxy only: every field of the handler, and the   *)
(* timer, outlive it and are found again by the next keyboard.             *)
(***************************************************************************)
EXTENDS Integers

CONSTANTS
  Keys,            \* evdev key codes the keyboard has
  Keymaps,         \* keymaps that compile, each the set of keys it repeats
  NoKeymap,        \* xkb_keymap_ == nullptr
  Rates,           \* repeat rates the compositor advertises, 0: no repeat
  Delays,          \* repeat delays the compositor advertises
  MaxSerial,       \* bound: serials the compositor issues
  LeaveBeforeLoss, \* the compositor sends leave before it withdraws a keyboard
  ServerRepeat     \* the compositor repeats keys itself while the rate is 0 (v10)

(* 0 is KEY_RESERVED: no key event carries it, and RepeatState::key starts   *)
(* with it.                                                                  *)
ASSUME KeysAssumption == Keys \subseteq Nat \ {0}
ASSUME KeymapAssumption == Keymaps \subseteq SUBSET Keys /\ NoKeymap \notin Keymaps
ASSUME RepeatAssumption == Rates \subseteq Nat /\ Delays \subseteq Nat
ASSUME BoundAssumption == MaxSerial \in Nat
ASSUME PolicyAssumption ==
  LeaveBeforeLoss \in BOOLEAN /\ ServerRepeat \in BOOLEAN

VARIABLES
  bound,       \* SeatManager::keyboard_ holds a proxy
  keymap,      \* xkb_keymap_ and xkb_state_, which are swapped together
  lastSerial,  \* last_serial_
  repeat,      \* repeat_: rate, delay, key, and valid for !setup_failed
  timer,       \* the kernel's timerfd: armed, and expired since the last read
  out,         \* the KeyEvents (at most one) this step handed to App::OnKey
  serial,      \* compositor: the last serial issued
  focus,       \* compositor: the surface has keyboard focus
  held,        \* compositor: the keys that are down while focused
  pressSerial  \* compositor: serial of the last press of each key

handler == <<keymap, lastSerial, repeat>>
compositor == <<serial, focus, held, pressSerial>>
vars == <<bound, handler, timer, out, compositor>>

(* The KeyEvent structure; "by" tells a timer tick from a compositor event.  *)
KeyEvent(k, st, rep, ser, by) ==
  [key |-> k, state |-> st, repeat |-> rep, serial |-> ser, by |-> by]

KeyEvents ==
  [key : Keys \cup {0}, state : {"pressed", "released"}, repeat : BOOLEAN,
   serial : 0..MaxSerial, by : {"compositor", "timer"}]

TypeOK ==
  /\ bound \in BOOLEAN
  /\ keymap \in Keymaps \cup {NoKeymap}
  /\ lastSerial \in 0..MaxSerial
  /\ repeat \in [rate : Rates \cup {0}, delay : Delays \cup {0},
                 key : Keys \cup {0}, valid : BOOLEAN]
  /\ timer \in [armed : BOOLEAN, expired : BOOLEAN]
  /\ out \in SUBSET KeyEvents
  /\ serial \in 0..MaxSerial
  /\ focus \in BOOLEAN
  /\ held \in SUBSET Keys
  /\ pressSerial \in [Keys -> 0..MaxSerial]

Idle == [armed |-> FALSE, expired |-> FALSE]

(* KeyboardHandler(): the timerfd is created with the handler, or not at all. *)
Init ==
  /\ bound = FALSE
  /\ keymap = NoKeymap
  /\ lastSerial = 0
  /\ repeat \in {[rate |-> 0, delay |-> 0, key |-> 0, valid |-> v] : v \in BOOLEAN}
  /\ timer = Idle
  /\ out = {}
  /\ serial = 0
  /\ focus = FALSE
  /\ held = {}
  /\ pressSerial = [k \in Keys |-> 0]
-----------------------------------------------------------------------------
(* The timer helpers.  timerfd_settime discards an expiration that was not   *)
(* read yet, and disarms the timer when the first expiration is at zero.     *)

ArmRepeat ==
  timer' = IF ~repeat.valid \/ repeat.rate = 0
           THEN timer
           ELSE [armed |-> repeat.delay > 0, expired |-> FALSE]

StopRepeat == timer' = IF repeat.valid THEN Idle ELSE timer

(* A press arms the timer when the keymap repeats the key and the advertised *)
(* rate is not zero.                                                         *)
Repeats_AnyRate(k) ==  \* mutant: the rate is not looked at
  keymap # NoKeymap /\ k \in keymap /\ repeat.valid

Repeats(k) ==
  keymap # NoKeymap /\ k \in keymap /\ repeat.rate > 0 /\ repeat.valid

(* A release stops the repeat of its own key only.                           *)
StopsRepeat_AnyKey(k, st) == st = "released"  \* mutant: the key is not compared
StopsRepeat_Never(k, st) == FALSE             \* mutant: releases are ignored
StopsRepeat(k, st) == st = "released" /\ repeat.key = k

(* The App sees a compositor-driven repeat (wl_keyboard v10) as a press.     *)
AppState(st) == IF st = "repeated" THEN "pressed" ELSE st

(* OnKey: hand the event to the App first, then arm or disarm.  app_ is set  *)
(* when the proxy is, before any of its events can be dispatched.            *)
OnKey(ser, k, st) ==
  /\ lastSerial' = ser
  /\ out' = {KeyEvent(k, AppState(st), st = "repeated", ser, "compositor")}
  /\ IF st = "pressed" /\ Repeats(k)
     THEN repeat' = [repeat EXCEPT !.key = k] /\ ArmRepeat
     ELSE /\ UNCHANGED repeat
          /\ IF StopsRepeat(k, st)
             THEN StopRepeat
             ELSE UNCHANGED timer
  /\ UNCHANGED keymap

(* OnLeave: stop repeating.                                                  *)
OnLeave_KeepsRepeat ==  \* mutant: the repeat outlives the focus
  out' = {} /\ UNCHANGED <<handler, timer>>

OnLeave == StopRepeat /\ out' = {} /\ UNCHANGED handler

(* OnKeymap: the new keymap and its state replace the old ones only when     *)
(* both could be made; on any failure the old ones stay.                     *)
OnKeymap(km) ==
  /\ keymap' = km \/ UNCHANGED keymap
  /\ out' = {}
  /\ UNCHANGED <<lastSerial, repeat, timer>>

(* OnRepeatInfo: store the two numbers, and nothing else.                    *)
OnRepeatInfo(r, d) ==
  /\ repeat' = [repeat EXCEPT !.rate = r, !.delay = d]
  /\ out' = {}
  /\ UNCHANGED <<keymap, lastSerial, timer>>

(* SeatManager::GetRepeatFd: there is a descriptor to poll.                  *)
RepeatFdPolled == bound /\ repeat.valid

(* DispatchRepeat: read the expiration count, fire one event for however     *)
(* many expirations it stood for.                                            *)
DispatchRepeat ==
  /\ RepeatFdPolled
  /\ timer.expired
  /\ timer' = [timer EXCEPT !.expired = FALSE]
  /\ out' = {KeyEvent(repeat.key, "pressed", TRUE, lastSerial, "timer")}
  /\ UNCHANGED <<bound, handler, compositor>>
-----------------------------------------------------------------------------
(* The kernel: an armed timer expires, again and again.                      *)
Expire ==
  /\ timer.armed
  /\ timer' = [timer EXCEPT !.expired = TRUE]
  /\ out' = {}
  /\ UNCHANGED <<bound, handler, compositor>>

(* The compositor.  SeatManager::OnCapabilities creates the keyboard when    *)
(* the capability appears (the handler keeps what it had), and               *)
(* ReleaseKeyboard destroys its proxy when the capability goes.              *)

GainKeyboard ==
  /\ ~bound
  /\ bound' = TRUE
  /\ out' = {}
  /\ UNCHANGED <<handler, timer, compositor>>

LoseKeyboard ==
  /\ bound
  /\ LeaveBeforeLoss => ~focus
  /\ bound' = FALSE
  /\ focus' = FALSE
  /\ held' = {}
  /\ out' = {}
  /\ UNCHANGED <<handler, timer, serial, pressSerial>>

(* OnEnter does nothing with the keys that are already down.                 *)
Enter ==
  /\ bound /\ ~focus
  /\ focus' = TRUE
  /\ held' \in SUBSET Keys
  /\ out' = {}
  /\ UNCHANGED <<bound, handler, timer, serial, pressSerial>>

Leave ==
  /\ bound /\ focus
  /\ OnLeave
  /\ focus' = FALSE
  /\ held' = {}
  /\ UNCHANGED <<bound, serial, pressSerial>>

Press(k) ==
  /\ bound /\ focus /\ k \notin held /\ serial < MaxSerial
  /\ serial' = serial + 1
  /\ held' = held \cup {k}
  /\ pressSerial' = [pressSerial EXCEPT ![k] = serial']
  /\ OnKey(serial', k, "pressed")
  /\ UNCHANGED <<bound, focus>>

Release(k) ==
  /\ bound /\ focus /\ k \in held /\ serial < MaxSerial
  /\ serial' = serial + 1
  /\ held' = held \ {k}
  /\ OnKey(serial', k, "released")
  /\ UNCHANGED <<bound, focus, pressSerial>>

Repeated(k) ==
  /\ ServerRepeat /\ repeat.rate = 0
  /\ bound /\ focus /\ k \in held /\ serial < MaxSerial
  /\ serial' = serial + 1
  /\ OnKey(serial', k, "repeated")
  /\ UNCHANGED <<bound, focus, held, pressSerial>>

SendKeymap(km) == bound /\ OnKeymap(km) /\ UNCHANGED <<bound, compositor>>

SendRepeatInfo(r, d) ==
  /\ bound
  /\ OnRepeatInfo(r, d)
  /\ UNCHANGED <<bound, compositor>>

Next ==
  \/ DispatchRepeat
  \/ Expire
  \/ GainKeyboard
  \/ LoseKeyboard
  \/ Enter
  \/ Leave
  \/ \E k \in Keys : Press(k) \/ Release(k) \/ Repeated(k)
  \/ \E km \in Keymaps : SendKeymap(km)
  \/ \E r \in Rates, d \in Delays : SendRepeatInfo(r, d)

Spec == Init /\ [][Next]_vars
-----------------------------------------------------------------------------
(* While the timer runs, or an expiration waits to be read, the key that     *)
(* repeats is down, on the keyboard bound now and in the surface focused     *)
(* now: neither a release, nor a leave, nor the loss of the keyboard leaves  *)
(* a repeat behind (OnKey, OnLeave, StopRepeat, ReleaseKeyboard).            *)
RepeatOnlyWhileHeld ==
  timer.armed \/ timer.expired => bound /\ focus /\ repeat.key \in held

(* The App is never handed a tick for a key that is not down: KeyEvent is    *)
(* repeat "for the currently repeating key" (SeatManager::DispatchRepeat).   *)
TickOnlyWhileHeld ==
  \A e \in out : e.by = "timer" => e.key \in held

(* "A rate of zero disables repeat", as far as the code carries it out.      *)
(* OnRepeatInfo stores the rate and leaves the timer alone, so that a repeat *)
(* that runs when the rate becomes zero goes on.  But at rate zero no repeat *)
(* begins, and the one that runs never passes to another key: what still     *)
(* ticks was armed before, and ends with its own key (OnKey, ArmRepeat).     *)
ZeroRateStartsNothing ==
  [][repeat'.rate = 0 /\ (timer'.armed \/ timer'.expired) =>
       /\ timer.armed \/ timer.expired
       /\ repeat'.key = repeat.key]_vars

(* "The timerfd stays disarmed (rate 0), so the two never double up": no     *)
(* timer tick reaches the App while the rate is zero, when the compositor    *)
(* may be repeating the key itself.  Refuted by a rate that becomes zero     *)
(* while a key repeats.                                                      *)
NoTickAtZeroRate ==
  \A e \in out : e.by = "timer" => repeat.rate > 0

(* "For a client-side repeat tick it carries the serial of the originating   *)
(* press" (KeyEvent::serial).                                                *)
TickCarriesPressSerial ==
  \A e \in out : e.by = "timer" => e.serial = pressSerial[e.key]

(* "OnKey: on PRESSED, arms the timerfd if the key is repeatable and the     *)
(* rate is non-zero": after the press of such a key the timer runs.          *)
PressArms ==
  [][\A k \in Keys : Press(k) /\ Repeats(k) => timer'.armed]_vars

(* Once it runs, the repeat of a key stops only when that key goes up or     *)
(* stops being the client's to see (leave), or when another press takes the  *)
(* timer over with a delay of zero: other keys' releases, keymaps, repeat    *)
(* rates and ticks leave it running (OnKey's test repeat_.key == key).       *)
RepeatRunsWhileHeld ==
  [][timer.armed /\ ~timer'.armed =>
       \/ repeat.key \notin held'
       \/ repeat.key # repeat'.key /\ repeat'.delay = 0]_vars
=============================================================================
