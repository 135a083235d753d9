------------------------------- MODULE Script -------------------------------
(***************************************************************************)
(* The vocabulary in which the programs under examples/ are written down.  *)
(* Each of them is a class App: Run calls a pipeline of functions that     *)
(* connect, bind and create, each of which may end the program by          *)
(* returning false; then the event loop runs handlers until the program    *)
(* quits; ~App and the destructors of the members undo what was done, in   *)
(* the reverse order of declaration.                                       *)
(*                                                                         *)
(* A program is reduced to what it creates, uses and destroys, in order,   *)
(* and to where it may give up.  An object is named like the member that   *)
(* holds it.  A condition the code tests (configured_, a global that was   *)
(* announced, an option) is a name, too.                                   *)
(***************************************************************************)
EXTENDS Sequences, Naturals

(* One step: it runs if everything in when is there and nothing in unless, *)
(* needs what is in uses, destroys drops, creates makes and perhaps part   *)
(* of may.  fails lists what may happen instead: the program ends          *)
(* ("abort"), the handler returns ("return"), the step is passed ("skip"). *)
Nothing == [when |-> {}, unless |-> {}, uses |-> {}, makes |-> {}, may |-> {},
            drops |-> {}, fails |-> {}]

Step == [when : SUBSET STRING, unless : SUBSET STRING, uses : SUBSET STRING,
         makes : SUBSET STRING, may : SUBSET STRING, drops : SUBSET STRING,
         fails : SUBSET {"abort", "return", "skip"}]

Use(S) == [Nothing EXCEPT !.uses = S]
Sure(o, S) == [Use(S) EXCEPT !.makes = {o}]
MakeOr(consequence, o, S) == [Sure(o, S) EXCEPT !.fails = {consequence}]
Make(o, S) == MakeOr("abort", o, S)
Try(o, S) == MakeOr("skip", o, S)
MakeOrReturn(o, S) == MakeOr("return", o, S)
May(S) == [Nothing EXCEPT !.may = S]
Check == [Nothing EXCEPT !.fails = {"abort"}]
MayReturn == [Nothing EXCEPT !.fails = {"return"}]
Add(list, S) == [Use(S) EXCEPT !.may = {list}]
Take(list, o) == [Nothing EXCEPT !.drops = {list}, !.may = {list}, !.makes = {o}]
Drop(o) == [Nothing EXCEPT !.drops = {o}]
Move(from, to) == [Nothing EXCEPT !.drops = {from}, !.makes = {to}]

If(S, step) == [step EXCEPT !.when = @ \cup S]
Unless(S, step) == [step EXCEPT !.unless = @ \cup S]
AllIf(S, steps) == [i \in DOMAIN steps |-> If(S, steps[i])]
AllUnless(S, steps) == [i \in DOMAIN steps |-> Unless(S, steps[i])]

Destroyed_InOrder(members) ==  \* mutant: in the order of their declaration
  [i \in DOMAIN members |-> Drop(members[i])]

(* Members are destroyed in the reverse order of their declaration.        *)
Destroyed(members) ==
  [i \in DOMAIN members |-> Drop(members[Len(members) + 1 - i])]

(* What a program is: its setup, its handlers and its teardown; and what   *)
(* the handlers and the teardown ask about.                                *)
Asked(steps) ==
  UNION { steps[i].when \cup steps[i].unless \cup steps[i].uses : i \in DOMAIN steps }
App(setup, on, teardown) ==
  [ setup |-> setup, on |-> on, teardown |-> teardown,
    asks |-> Asked(teardown)
             \cup UNION { on[e].of \cup Asked(on[e].code) : e \in DOMAIN on } ]
-----------------------------------------------------------------------------
(* What the programs take from include/wl.                                 *)

(* RoundtripWithTimeout, where a timeout ends the program.                 *)
Roundtrip == Check

(* The registry, a roundtrip for the globals, and the test that those the  *)
(* program requires were announced.                                        *)
Scan(required, optional) ==
  << Make("registry", {"display"}), Roundtrip,
     [Check EXCEPT !.makes = required, !.may = optional] >>

(* Bind of a global that must be there, and of one that need not be; once  *)
(* bound, the announcement is of no more use.  A bind whose failure is     *)
(* tolerated leaves what an absent global leaves.                          *)
Bind(o, global) == [Make(o, {"registry", global}) EXCEPT !.drops = {global}]
BindIfSeen(o, global) == If({global}, Bind(o, global))
TryIfSeen(o, global) == [BindIfSeen(o, global) EXCEPT !.fails = {}]

(* SeatManager: Bind; the capabilities event, which makes the devices that *)
(* the seat has and releases those it has no more; Release.                *)
SeatBind == BindIfSeen("seat", "wl_seat")
Capabilities(devices) == If({"seat"}, May(devices))
OnCapabilities(devices) ==
  [ of |-> {"seat"}, code |-> << [May(devices) EXCEPT !.drops = devices] >> ]
SeatRelease_NoPointer ==  \* mutant: the pointer is forgotten
  << Drop("touch"), Drop("keyboard"), Drop("seat") >>

SeatRelease ==
  << Drop("touch"), Drop("pointer"), Drop("keyboard"), Drop("seat") >>

(* A pool of wl_shm buffers; the wl_shm_pool is a local.                   *)
ShmBuffers(memory, buffers) ==
  << Make(memory, {}), Make("pool", {"shm", memory}),
     Make(buffers, {"pool"}), Drop("pool") >>

(* The callback for the next frame, and the end of the one that fired: its *)
(* proxy is moved to a local and destroyed when the handler returns.       *)
FrameCallback(cb, surface) == Try(cb, {surface})
Spent(cb, steps) == << Move(cb, "spent") >> \o steps

(* What a function holds in a local is destroyed on every way out of it,   *)
(* and what it has found out is forgotten.                                 *)
Locals == {"pool", "new_pool", "spent", "region"}
          \cup {"all_busy", "resized", "create", "refresh"}

(* xdg_surface.configure, answered within a roundtrip or later.            *)
Configured ==
  << Roundtrip, May({"late_configure"}),
     Unless({"late_configure"}, Sure("configured", {})) >>
OnConfigure == [of |-> {"xdg_surface"}, code |-> << Sure("configured", {}) >>]

(* The order xdg-shell asks for: a role on a surface, then its window.     *)
XdgWindow ==
  << Make("surface", {"compositor"}),
     Make("xdg_surface", {"wm_base", "surface"}),
     Make("xdg_toplevel", {"xdg_surface"}) >>
=============================================================================
