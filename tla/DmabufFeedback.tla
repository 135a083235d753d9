--------------------------- MODULE DmabufFeedback ---------------------------
(***************************************************************************)
(* wl::DmabufFeedback (include/wl/dmabuf_feedback.hpp): the events of a    *)
(* zwp_linux_dmabuf_feedback_v1 object are gathered and become the current *)
(* snapshot at `done`; below version 4 the snapshot is made of the format  *)
(* events of the dmabuf global and committed by the App.                   *)
(*                                                                         *)
(* An entry of the format table stands for a format and its modifier.  The *)
(* compositor sends each advertisement in one go; the App dispatches its   *)
(* events one by one, so that every other step may fall in between.        *)
(***************************************************************************)
EXTENDS Integers, Sequences, SequencesExt

CONSTANTS
  Entries,    \* pairs of a format and a modifier
  Adverts,    \* advertisements as the compositor sends them
  Versions,   \* versions the compositor may advertise; 0 if it has no dmabuf global
  NumFormats, \* formats a compositor below version 4 has
  MaxAdverts, \* bound: advertisements sent
  StartOnce   \* the App calls only one of StartDefault and StartSurface, once

Devices == {0, 1}
Flags == {0, 1}

(* An advertisement: the table it brings, empty if it relies on the one      *)
(* before, and tranches that name their formats by batches of indices.       *)
RawTranche == [target_device : Devices, flags : Flags, indices : Seq(Seq(Nat))]
Advert == [table : Seq(Entries), main_device : Devices, tranches : Seq(RawTranche)]

ASSUME VersionsAssumption == Versions \subseteq Nat
ASSUME BoundAssumption == NumFormats \in Nat /\ MaxAdverts \in Nat /\ StartOnce \in BOOLEAN
ASSUME AdvertsAssumption == Adverts \subseteq Advert

VARIABLES
  phase,            \* what the App called: Bind, and then Release
  ver,              \* ver_
  feedback,         \* the object feedback_ holds, or Null
  alive,            \* objects whose events reach the handler
  table,            \* table_
  pending_main,     \* pending_main_
  pending_tranche,  \* pending_tranche_
  pending_tranches, \* pending_tranches_
  current,          \* current_
  commits,          \* commit_count_
  legacy_tranche,   \* legacy_tranche_
  server_table,     \* compositor: the table last sent for an object
  events,           \* events in flight
  sent              \* history: the snapshots that the compositor described

pending == <<pending_main, pending_tranche, pending_tranches>>
client == <<table, pending, current, commits, legacy_tranche>>
vars == <<phase, ver, feedback, alive, client, server_table, events, sent>>

Null == "null"
Objects == {"default", "surface"}
MaxVersion == 5
Tranche(dev, flags, formats) == [target_device |-> dev, flags |-> flags, formats |-> formats]
FeedbackTranche == Tranche(0, 0, <<>>)
FeedbackSnapshot(main, tranches) == [main_device |-> main, tranches |-> tranches]
Event(obj, type, arg) == [obj |-> obj, type |-> type, arg |-> arg]

TrancheSet == [target_device : Devices, flags : Flags, formats : Seq(Entries)]
SnapshotSet == [main_device : Devices, tranches : Seq(TrancheSet)]
Message ==
  [obj : {"dmabuf"}, type : {"format"}, arg : Entries]
    \cup [obj : Objects, type : {"table"}, arg : Seq(Entries)]
    \cup [obj : Objects, type : {"main", "target"}, arg : Devices]
    \cup [obj : Objects, type : {"flags"}, arg : Flags]
    \cup [obj : Objects, type : {"formats"}, arg : Seq(Nat)]
    \cup [obj : Objects, type : {"tranche_done", "done"}, arg : {0}]

TypeOK ==
  /\ phase \in {"null", "bound", "released"} /\ ver \in 0..MaxVersion
  /\ feedback \in Objects \cup {Null} /\ alive \subseteq Objects
  /\ table \in Seq(Entries) /\ server_table \in [Objects -> Seq(Entries)]
  /\ pending_main \in Devices
  /\ pending_tranche \in TrancheSet /\ legacy_tranche \in TrancheSet
  /\ pending_tranches \in Seq(TrancheSet)
  /\ current \in SnapshotSet /\ sent \in Seq(SnapshotSet)
  /\ commits \in Nat
  /\ events \in Seq(Message)

Init ==
  /\ phase = "null" /\ ver = 0 /\ feedback = Null /\ alive = {}
  /\ table = <<>> /\ server_table = [o \in Objects |-> <<>>]
  /\ pending_main = 0 /\ pending_tranche = FeedbackTranche /\ pending_tranches = <<>>
  /\ current = FeedbackSnapshot(0, <<>>) /\ commits = 0
  /\ legacy_tranche = FeedbackTranche
  /\ events = <<>> /\ sent = <<>>
-----------------------------------------------------------------------------
(* Bind.  Below version 4 the compositor sends its formats right away, one   *)
(* event for each; without the global, version 0, there are none.            *)
BoundVersion(adv) == IF adv < MaxVersion THEN adv ELSE MaxVersion

LegacyAdvert(formats) == FeedbackSnapshot(0, <<Tranche(0, 0, formats)>>)

Bind ==
  /\ phase = "null"
  /\ phase' = "bound"
  /\ \E adv \in Versions : ver' = BoundVersion(adv)
  /\ \/ ver' >= 4 /\ UNCHANGED <<events, sent>>
     \/ /\ ver' < 4
        /\ \E formats \in [1..IF ver' = 0 THEN 0 ELSE NumFormats -> Entries] :
             /\ events' = [i \in DOMAIN formats |-> Event("dmabuf", "format", formats[i])]
             /\ sent' = <<LegacyAdvert(formats)>>
  /\ UNCHANGED <<feedback, alive, client, server_table>>

(* StartDefault and StartSurface.  SetupHandler attaches the new object to   *)
(* the handler and does not destroy the one the handler held before.         *)
Start(o) ==
  /\ phase = "bound" /\ ver >= 4
  /\ o \notin alive /\ (StartOnce => alive = {})
  /\ feedback' = o /\ alive' = alive \cup {o}
  /\ UNCHANGED <<phase, ver, client, server_table, events, sent>>

(* CommitLegacy: "Call once after the roundtrip that drained" the events.    *)
CommitLegacy ==
  /\ phase = "bound" /\ ver < 4
  /\ events = <<>> /\ commits = 0
  /\ current' = FeedbackSnapshot(0, <<legacy_tranche>>)
  /\ legacy_tranche' = FeedbackTranche
  /\ commits' = commits + 1
  /\ UNCHANGED <<phase, ver, feedback, alive, table, pending, server_table, events, sent>>

Release ==
  /\ phase = "bound"
  /\ phase' = "released" /\ feedback' = Null /\ alive' = alive \ {feedback}
  /\ UNCHANGED <<ver, client, server_table, events, sent>>
-----------------------------------------------------------------------------
(* FormatTable: the table is replaced as a whole; if it cannot be mapped it  *)
(* is left empty.                                                            *)
FormatTable(entries) ==
  /\ table' \in {entries, <<>>}
  /\ UNCHANGED <<pending, current, commits, legacy_tranche>>

MainDevice(dev) ==
  /\ pending_main' = dev
  /\ UNCHANGED <<table, pending_tranche, pending_tranches, current, commits, legacy_tranche>>

(* The fields of a tranche; an index beyond the table is dropped.            *)
Resolved(tbl, indices) ==
  FlattenSeq([i \in DOMAIN indices |->
    IF indices[i] < Len(tbl) THEN <<tbl[indices[i] + 1]>> ELSE <<>>])

TrancheField(e) ==
  \/ /\ e.type = "formats"
     /\ pending_tranche' = [pending_tranche EXCEPT !.formats = @ \o Resolved(table, e.arg)]
  \/ e.type = "target" /\ pending_tranche' = [pending_tranche EXCEPT !.target_device = e.arg]
  \/ e.type = "flags" /\ pending_tranche' = [pending_tranche EXCEPT !.flags = e.arg]

TrancheDone_Keeps ==  \* mutant: the next tranche starts with the fields of this one
  pending_tranches' = Append(pending_tranches, pending_tranche) /\ UNCHANGED pending_tranche
TrancheDone ==
  /\ pending_tranches' = Append(pending_tranches, pending_tranche)
  /\ pending_tranche' = FeedbackTranche

(* Done: the snapshot is committed, and all but the table starts afresh.     *)
Done ==
  /\ current' = FeedbackSnapshot(pending_main, pending_tranches)
  /\ pending_main' = 0 /\ pending_tranche' = FeedbackTranche /\ pending_tranches' = <<>>
  /\ commits' = commits + 1
  /\ UNCHANGED <<table, legacy_tranche>>

LegacyFormat(entry) ==
  /\ legacy_tranche' = [legacy_tranche EXCEPT !.formats = Append(@, entry)]
  /\ UNCHANGED <<table, pending, current, commits>>

Handle(e) ==
  \/ e.type = "format" /\ LegacyFormat(e.arg)
  \/ e.type = "table" /\ FormatTable(e.arg)
  \/ e.type = "main" /\ MainDevice(e.arg)
  \/ /\ TrancheField(e)
     /\ UNCHANGED <<table, pending_main, pending_tranches, current, commits, legacy_tranche>>
  \/ /\ e.type = "tranche_done" /\ TrancheDone
     /\ UNCHANGED <<table, pending_main, current, commits, legacy_tranche>>
  \/ e.type = "done" /\ Done

Reaches(e) == e.obj \in alive \/ (e.obj = "dmabuf" /\ phase = "bound")

Dispatch ==
  /\ events # <<>>
  /\ events' = Tail(events)
  /\ \/ Reaches(Head(events)) /\ Handle(Head(events))
     \/ ~Reaches(Head(events)) /\ UNCHANGED client
  /\ UNCHANGED <<phase, ver, feedback, alive, server_table, sent>>
-----------------------------------------------------------------------------
(* The compositor.  An advertisement names its formats by their indices in   *)
(* the table it brings or, if it brings none, in the one before it.          *)
TableFor(o, a) == IF a.table # <<>> THEN a.table ELSE server_table[o]

TrancheEvents(o, t) ==
  (IF t.target_device = 0 THEN <<>> ELSE <<Event(o, "target", t.target_device)>>)
    \o <<Event(o, "flags", t.flags)>>
    \o [i \in DOMAIN t.indices |-> Event(o, "formats", t.indices[i])]
    \o <<Event(o, "tranche_done", 0)>>

Stream(o, a) ==
  (IF a.table = <<>> THEN <<>> ELSE <<Event(o, "table", a.table)>>)
    \o <<Event(o, "main", a.main_device)>>
    \o FlattenSeq([i \in DOMAIN a.tranches |-> TrancheEvents(o, a.tranches[i])])
    \o <<Event(o, "done", 0)>>

DescribedTranche(tbl, t) ==
  Tranche(t.target_device, t.flags,
          FlattenSeq([k \in DOMAIN t.indices |-> Resolved(tbl, t.indices[k])]))

Described(tbl, a) ==
  FeedbackSnapshot(a.main_device,
                   [i \in DOMAIN a.tranches |-> DescribedTranche(tbl, a.tranches[i])])

Advertise(o, a) ==
  /\ phase = "bound" /\ o \in alive /\ Len(sent) < MaxAdverts
  /\ TableFor(o, a) # <<>>
  /\ server_table' = [server_table EXCEPT ![o] = TableFor(o, a)]
  /\ events' = events \o Stream(o, a)
  /\ sent' = Append(sent, Described(TableFor(o, a), a))
  /\ UNCHANGED <<phase, ver, feedback, alive, client>>

Next ==
  \/ Bind \/ CommitLegacy \/ Release \/ Dispatch
  \/ \E o \in Objects : Start(o)
  \/ \E o \in Objects, a \in Adverts : Advertise(o, a)

Spec == Init /\ [][Next]_vars
-----------------------------------------------------------------------------
(* Current() is always one whole advertisement, the next one sent at every   *)
(* commit, each index resolved in the table it was meant for.                *)
S == INSTANCE Snapshots WITH
       Snapshot <- SnapshotSet, Empty <- FeedbackSnapshot(0, <<>>), unread <- (ver >= 4 /\ table = <<>>)
ImplementsSnapshots == S!Spec

(* "Attach an externally created proxy. Asserts the handle is currently      *)
(* null." (CProxy::Attach): a handler is not given a second object while it  *)
(* holds one, which nobody could destroy any more.                           *)
AttachesToNull == [][feedback' # feedback => feedback = Null \/ feedback' = Null]_vars
=============================================================================
