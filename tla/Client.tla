------------------------------- MODULE Client -------------------------------
(***************************************************************************)
(* The life of a client program: set up, run, and be undone, from wherever *)
(* it got to.  The programs are data (ShmApps and its kin); this module    *)
(* runs them, with every outcome of every step.                            *)
(***************************************************************************)
EXTENDS Script, FiniteSets

CONSTANTS
  Programs,  \* name -> [setup, on, teardown]
  Flags,     \* names that are conditions, not objects
  Rules,     \* pairs <<a, b>>: a has to be destroyed before b
  Flaws      \* what programs are known to get wrong: in misses and remakes,
             \* <<program, routine, object>>; in leaves, <<program, object>>

(* Destructors do not fail.                                                *)
IsProgram(p) ==
  /\ p.setup \in Seq(Step) /\ p.teardown \in Seq(Step) /\ p.asks \subseteq STRING
  /\ \A e \in DOMAIN p.on : p.on[e].of \subseteq STRING /\ p.on[e].code \in Seq(Step)
  /\ DOMAIN p.on \cap {"setup", "loop", "teardown", "gone"} = {}
  /\ \A k \in DOMAIN p.teardown : p.teardown[k].fails = {}

ASSUME ProgramsAssumption == \A a \in DOMAIN Programs : IsProgram(Programs[a])

VARIABLES
  app,      \* which program
  routine,  \* "setup", a handler, "loop", "teardown" or "gone"
  todo,     \* the steps of the routine that are left
  alive     \* the objects that exist and the conditions that hold

clientVars == <<app, routine, todo, alive>>

Busy == routine \notin {"loop", "gone"}
Pending == todo # << >>
Now == Head(todo)

(* A step is passed over if its condition does not hold, or if all it does *)
(* is to destroy what is not there.                                        *)
Applies(step, there) == step.when \subseteq there /\ step.unless \cap there = {}
Idle(step, there) ==
  \/ ~Applies(step, there)
  \/ /\ step.drops \cap there = {}
     /\ step.uses \cup step.makes \cup step.may \cup step.fails = {}

FromFirstDue(steps, there) ==
  LET due == { k \in DOMAIN steps : ~Idle(steps[k], there) }
  IN  IF due = {} THEN << >>
      ELSE SubSeq(steps, CHOOSE k \in due : \A l \in due : k <= l, Len(steps))

ClientInit ==
  /\ app \in DOMAIN Programs
  /\ routine = "setup" /\ alive = {}
  /\ todo = FromFirstDue(Programs[app].setup, {})

Proceed ==
  /\ todo' = FromFirstDue(Tail(todo), alive')
  /\ UNCHANGED <<app, routine>>

(* What a routine held in locals is destroyed on every way out of it.      *)
Enter(r, steps) ==
  /\ routine' = r /\ UNCHANGED app
  /\ alive' = (alive \ Locals) \ (IF routine = "setup" THEN Flags \ Programs[app].asks ELSE {})
  /\ todo' = FromFirstDue(steps, alive')

GiveUp == Enter("teardown", Programs[app].teardown)

(* The step does what it says.                                             *)
Do ==
  /\ Pending
  /\ \E got \in SUBSET Now.may :
       alive' = (alive \ Now.drops) \cup Now.makes \cup got
  /\ Proceed

(* It fails, with one of three consequences.                               *)
FailAndGoOn ==
  /\ Pending /\ "skip" \in Now.fails
  /\ UNCHANGED alive /\ Proceed

FailAndReturn ==
  /\ Pending /\ "return" \in Now.fails
  /\ Enter("loop", << >>)

FailAndQuit == Pending /\ "abort" \in Now.fails /\ GiveUp

(* The end of a routine.                                                   *)
Return ==
  /\ Busy /\ ~Pending
  /\ Enter(IF routine = "teardown" THEN "gone" ELSE "loop", << >>)

(* The event loop: an event for an object that exists, or the end.         *)
HandleEvent ==
  /\ routine = "loop"
  /\ LET on == Programs[app].on
     IN  \E e \in DOMAIN on : on[e].of \subseteq alive /\ Enter(e, on[e].code)

Quit == routine = "loop" /\ GiveUp

ClientNext ==
  \/ Do \/ FailAndGoOn \/ FailAndReturn \/ FailAndQuit \/ Return
  \/ HandleEvent \/ Quit

ClientSpec == ClientInit /\ [][ClientNext]_clientVars
-----------------------------------------------------------------------------
ClientTypeOK ==
  /\ app \in DOMAIN Programs
  /\ routine \in {"setup", "loop", "teardown", "gone"} \cup DOMAIN Programs[app].on
  /\ todo \in Seq(Step) /\ (Pending => Busy)
  /\ alive \subseteq STRING

Missing == IF Pending THEN Now.uses \ alive ELSE {}
Overwritten == IF Pending THEN ((Now.makes \cap alive) \ Now.drops) \ Flags ELSE {}
Stranded == IF "display" \in alive THEN {} ELSE alive \ Flags

(* No step needs an object that was never created, whose creation failed   *)
(* or that is destroyed already, whichever of the optional parts the       *)
(* program found: except those steps that are known to.                    *)
UsesExist == \A o \in Missing : <<app, routine, o>> \in Flaws.misses

(* No object is created into a member that still holds one: nobody could   *)
(* destroy the old one any more, which may go on receiving events.  There  *)
(* are no exceptions but the known ones.                                   *)
NothingOverwritten == \A o \in Overwritten : <<app, routine, o>> \in Flaws.remakes

(* Wherever the program gave up, when the connection is closed no proxy is *)
(* left, except those known to be.                                         *)
NothingOutlivesDisplay == \A o \in Stranded : <<app, o>> \in Flaws.leaves

(* A parent is never destroyed while a child is there that has to go       *)
(* first: xdg_surface before wl_surface, EGL surface before its window.    *)
ChildrenFirst ==
  [][\A r \in Rules :
       r[2] \in alive \ alive' => r[1] \notin alive']_clientVars
=============================================================================
