------------------------------ MODULE Snapshots ------------------------------
(***************************************************************************)
(* What wl::DmabufFeedback promises of Current(): the advertisements of    *)
(* the compositor appear one after the other, in the order it sent them,   *)
(* each as a whole and in place of the one before.  If the format table    *)
(* could not be read, an advertisement loses all its formats and nothing   *)
(* else.                                                                   *)
(***************************************************************************)
EXTENDS Integers, Sequences

CONSTANTS
  Snapshot,  \* the advertisements a compositor may send
  Empty      \* what Current() is before the first

VARIABLES
  sent,     \* the advertisements sent so far
  current,  \* current_
  commits,  \* commit_count_
  unread    \* the format table in use could not be read

vars == <<sent, current, commits, unread>>

WithoutFormats(s) ==
  [s EXCEPT !.tranches = [i \in DOMAIN s.tranches |-> [s.tranches[i] EXCEPT !.formats = <<>>]]]

Init == sent = <<>> /\ current = Empty /\ commits = 0 /\ unread \in BOOLEAN

Publish ==
  /\ sent' \in Seq(Snapshot)
  /\ Len(sent') = Len(sent) + 1 /\ SubSeq(sent', 1, Len(sent)) = sent
  /\ UNCHANGED <<current, commits, unread>>

Commit ==
  /\ commits < Len(sent)
  /\ commits' = commits + 1
  /\ current' = IF unread THEN WithoutFormats(sent[commits']) ELSE sent[commits']
  /\ UNCHANGED <<sent, unread>>

ReadTable ==
  /\ unread' \in BOOLEAN
  /\ UNCHANGED <<sent, current, commits>>

Next == Publish \/ Commit \/ ReadTable

Spec == Init /\ [][Next]_vars
=============================================================================
