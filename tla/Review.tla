------------------------------- MODULE Review -------------------------------
(***************************************************************************)
(* What can be seen of a program by reading it, step by step and routine   *)
(* by routine, without running it.  Program_proofs shows that a program    *)
(* that passes does behave.                                                *)
(***************************************************************************)
EXTENDS Client

Names(p) == {"setup", "teardown"} \cup DOMAIN p.on
Code(p, r) ==
  IF r = "setup" THEN p.setup ELSE IF r = "teardown" THEN p.teardown ELSE p.on[r].code

(* What a step may leave there that was not, and the other way round; and  *)
(* what the steps from l on, and before k, may.                            *)
Outs(step) == step.makes \cup step.may
Gone(step) == step.drops \ step.makes
MadeIn(L, l, k) == UNION { Outs(L[m]) : m \in l..(k - 1) }
DroppedIn(L, l, k) == UNION { Gone(L[m]) : m \in l..(k - 1) }
MadeBy(p) == UNION { MadeIn(Code(p, r), 1, Len(Code(p, r)) + 1) : r \in Names(p) }

(* If step k runs, step l before it did: its condition is part of that of  *)
(* k, and was the same then.                                               *)
Settled(p, L, l, k) ==
  /\ "skip" \notin L[l].fails
  /\ L[l].when \subseteq L[k].when \ MadeIn(L, l, k)
  /\ L[l].unless \cap MadeBy(p) \subseteq L[k].unless \ DroppedIn(L, l, k)

(* Something is there at place k of r if r makes it whatever happens.      *)
Ensured(p, L, k, x) ==
  \E l \in 1..(k - 1) :
    /\ x \in L[l].makes /\ x \notin DroppedIn(L, l + 1, k)
    /\ "skip" \notin L[l].fails /\ L[l].when = {} /\ L[l].unless \cap MadeBy(p) = {}

(* What the setup leaves there wherever it ends, and each handler, if it   *)
(* was there before it: it is there whenever an event is handled.          *)
Upheld(p, r, k, x) ==
  \/ r # "setup" /\ x \notin DroppedIn(Code(p, r), 1, k)
  \/ Ensured(p, Code(p, r), k, x)
Standing(p) ==
  { x \in MadeBy(p) \ (Locals \cup (Flags \ p.asks)) :
      \A r \in Names(p) \ {"teardown"} :
        /\ Upheld(p, r, Len(Code(p, r)) + 1, x)
        /\ \A k \in DOMAIN Code(p, r) : "return" \in Code(p, r)[k].fails => Upheld(p, r, k, x) }

(* What is there for certain when a routine starts, and what is not.       *)
With(p, r) ==
  IF r \in {"setup", "teardown"} THEN {} ELSE (p.on[r].of \ Locals) \cup Standing(p)
Without(p, r) == IF r = "setup" THEN MadeBy(p) ELSE Locals

Present(p, r, k, x) ==
  LET L == Code(p, r)
  IN  \/ x \in L[k].when
      \/ x \in With(p, r) \ DroppedIn(L, 1, k)
      \/ \E l \in 1..(k - 1) :
           x \in L[l].makes /\ x \notin DroppedIn(L, l + 1, k) /\ Settled(p, L, l, k)

Absent(p, r, k, x) ==
  LET L == Code(p, r)
  IN  \/ x \notin MadeBy(p) \/ x \in L[k].unless
      \/ x \in Without(p, r) \ MadeIn(L, 1, k)
      \/ \E l \in 1..(k - 1) :
           x \in L[l].drops /\ x \notin MadeIn(L, l, k) /\ Settled(p, L, l, k)
-----------------------------------------------------------------------------
(* Each step finds what it needs, as far as can be told from its routine.  *)
NeedsNothingMore(p) ==
  \A r \in Names(p) : \A k \in DOMAIN Code(p, r) :
    \A x \in Code(p, r)[k].uses : Present(p, r, k, x)

(* Each step creates into members that are empty by then.                  *)
CreatesAfresh(p) ==
  \A r \in Names(p) : \A k \in DOMAIN Code(p, r) :
    \A x \in Code(p, r)[k].makes \ (Code(p, r)[k].drops \cup Flags) : Absent(p, r, k, x)

(* Each step that destroys a parent destroys the child too, or comes where *)
(* the child is gone.                                                      *)
DestroysInOrder(p) ==
  \A rule \in Rules :
    /\ rule[2] \notin Locals \cup Flags
    /\ \A r \in Names(p) : \A k \in DOMAIN Code(p, r) :
         rule[2] \in Gone(Code(p, r)[k])
           => /\ rule[1] \notin Outs(Code(p, r)[k])
              /\ rule[1] \in Code(p, r)[k].drops \/ Absent(p, r, k, rule[1])

(* The connection comes first, and nobody but the teardown closes it; the  *)
(* teardown destroys, unasked and before that, all that any step makes.    *)
OpensFirst(p) ==
  /\ "display" \notin Locals \cup Flags
  /\ \A r \in Names(p) \ {"teardown"} :
       "display" \notin DroppedIn(Code(p, r), 1, Len(Code(p, r)) + 1)
  /\ \E d \in DOMAIN p.setup :
       /\ "display" \in p.setup[d].makes /\ p.setup[d].fails \subseteq {"abort"}
       /\ p.setup[d].when = {} /\ p.setup[d].unless \cap MadeBy(p) = {}
       /\ MadeIn(p.setup, 1, d) \subseteq Flags
       /\ \A l \in 1..d : "return" \notin p.setup[l].fails
ClosesLast(p) ==
  /\ \A k \in DOMAIN p.teardown : Outs(p.teardown[k]) \subseteq Flags
  /\ \A x \in MadeBy(p) \ (Flags \cup Locals \cup {"display"}) :
       \E k \in DOMAIN p.teardown :
         /\ x \in p.teardown[k].drops /\ "display" \notin DroppedIn(p.teardown, 1, k)
         /\ p.teardown[k].when = {} /\ p.teardown[k].unless \cap MadeBy(p) = {}
UndoesAll(p) == OpensFirst(p) /\ ClosesLast(p)
=============================================================================
