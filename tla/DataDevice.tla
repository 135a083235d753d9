------------------------------ MODULE DataDevice ------------------------------
(***************************************************************************)
(* wl::DataDevice (include/wl/data_device.hpp): the clipboard, read (offers *)
(* of the compositor, adopted through one pending slot) and owned (a data  *)
(* source of the App).  With HasPrimary it is the data-control family, in  *)
(* which one device announces and sets two selections.                     *)
(*                                                                         *)
(* Requests and events travel through FIFO channels, so that the client    *)
(* acts on selections that are already gone.  Events for a proxy that was  *)
(* destroyed are dropped by libwayland; an event for a proxy that is alive *)
(* runs the handler the proxy was set up with, whichever slot holds the    *)
(* proxy now (WlPtr::Swap moves the proxy, not the handler).               *)
(*                                                                         *)
(* Receive() only opens a pipe on the offer a slot holds, and changes      *)
(* nothing here.  A failing allocation of a proxy is left out.             *)
(***************************************************************************)
EXTENDS Integers, Sequences, SequencesExt, FiniteSets

CONSTANTS
  Mimes,       \* MIME types
  HasPrimary,  \* P::has_primary
  MaxOffers,   \* bound: offers the compositor introduces
  MaxSources,  \* bound: sources the App creates
  MaxQueue     \* bound: events in flight when another one is sent

ASSUME PrimaryAssumption == HasPrimary \in BOOLEAN
ASSUME MimesAssumption == IsFiniteSet(Mimes)
ASSUME BoundAssumption == MaxOffers \in Nat /\ MaxSources \in Nat /\ MaxQueue \in Nat

VARIABLES
  phase,     \* bound, started, released
  pending,   \* pending_: the offer it holds, or Null
  slot,      \* offer_ and primary_offer_
  mimes,     \* OfferHandler::mimes of pending_, which every offer's events reach
  source,    \* source_
  offers,    \* offer proxies that are not destroyed
  sources,   \* source proxies that are not destroyed
  told,      \* App: the MIME types of the last OnSelection or OnPrimarySelection
  believes,  \* App: the source it offers, until OnCancelled
  call,      \* source events that reached the App in the last step
  requests,  \* requests in flight
  events,    \* events in flight
  owner,     \* compositor: what holds the selection: ours, Other or nothing
  current,   \* compositor: the offer last announced for the selection
  offered,   \* compositor: the MIME types of each offer introduced so far
  created    \* sources created so far

client == <<phase, pending, slot, mimes, source, offers, sources, told, believes, created>>
server == <<owner, current, offered>>
vars == <<client, call, requests, events, server>>

Null == 0
Other == -1
Channels == IF HasPrimary THEN {"regular", "primary"} ELSE {"regular"}
Offers == 1..MaxOffers
Sources == 1..MaxSources
NoArg == ""

Event ==
  [type : {"data_offer", "enter"}, id : Offers, arg : {NoArg}]
    \cup [type : {"offer"}, id : Offers, arg : Mimes]
    \cup [type : {"selection"}, id : Offers \cup {Null}, arg : Channels]
    \cup [type : {"send", "cancelled"}, id : Sources, arg : {NoArg}]
Ev(type, id, arg) == [type |-> type, id |-> id, arg |-> arg]
Request ==
  [type : {"set"}, src : Sources, chan : Channels]
    \cup [type : {"destroy"}, src : Sources, chan : {NoArg}]
Req(type, src, chan) == [type |-> type, src |-> src, chan |-> chan]

TypeOK ==
  /\ phase \in {"bound", "started", "released"}
  /\ pending \in Offers \cup {Null}
  /\ slot \in [Channels -> Offers \cup {Null}]
  /\ mimes \subseteq Mimes
  /\ source \in Sources \cup {Null}
  /\ offers \subseteq Offers /\ sources \subseteq Sources
  /\ told \in [Channels -> SUBSET Mimes]
  /\ believes \in [Channels -> Sources \cup {Null}]
  /\ call \subseteq {"send", "cancelled"} \X Sources
  /\ requests \in Seq(Request) /\ events \in Seq(Event)
  /\ owner \in [Channels -> Sources \cup {Null, Other}]
  /\ current \in [Channels -> Offers \cup {Null}]
  /\ offered \in Seq(SUBSET Mimes) /\ Len(offered) <= MaxOffers
  /\ created \in 0..MaxSources

Init ==
  /\ phase = "bound"
  /\ pending = Null /\ slot = [c \in Channels |-> Null] /\ mimes = {}
  /\ source = Null /\ offers = {} /\ sources = {}
  /\ told = [c \in Channels |-> {}]
  /\ believes = [c \in Channels |-> Null]
  /\ call = {} /\ requests = <<>> /\ events = <<>>
  /\ owner = [c \in Channels |-> Null] /\ current = [c \in Channels |-> Null]
  /\ offered = <<>> /\ created = 0
-----------------------------------------------------------------------------
(* The client: calls of the App.                                             *)

(* Start: get_data_device.  A second call would leak the device.             *)
Start ==
  /\ phase = "bound"
  /\ phase' = "started" /\ call' = {}
  /\ UNCHANGED <<pending, slot, mimes, source, offers, sources, told, believes, created,
                 requests, events, server>>

(* source_.Reset(): the source proxies that are left, and the requests.      *)
ResetSource_Keeps ==  \* mutant: the previous source is overwritten, not destroyed
  [left |-> sources, requests |-> requests]
ResetSource ==
  [left |-> sources \ {source},
   requests |-> IF source = Null THEN requests
                ELSE Append(requests, Req("destroy", source, NoArg))]

(* Offer and OfferPrimary: CreateSource drops the one source there is, for   *)
(* either selection, and the new one is set as the selection.                *)
OfferSelection(c) ==
  /\ phase = "started" /\ created < MaxSources
  /\ created' = created + 1
  /\ source' = created'
  /\ sources' = ResetSource.left \cup {source'}
  /\ requests' = Append(ResetSource.requests, Req("set", source', c))
  /\ believes' = [believes EXCEPT ![c] = source']
  /\ call' = {}
  /\ UNCHANGED <<phase, pending, slot, mimes, offers, told, events, server>>

Release ==
  /\ phase = "started" /\ phase' = "released"
  /\ source' = Null /\ sources' = ResetSource.left /\ requests' = ResetSource.requests
  /\ offers' = offers \ ({pending} \cup {slot[c] : c \in Channels})
  /\ pending' = Null /\ slot' = [c \in Channels |-> Null]
  /\ believes' = [c \in Channels |-> Null] /\ call' = {}
  /\ UNCHANGED <<mimes, told, created, events, server>>
-----------------------------------------------------------------------------
(* The client: events.                                                       *)

(* data_offer: the pending slot takes the new proxy.  The handler, and the   *)
(* MIME types it has gathered, stay.                                         *)
IntroduceOffer_NoReset(id) ==  \* mutant: the previous pending offer is overwritten
  /\ offers' = offers \cup {id} /\ pending' = id
  /\ UNCHANGED <<slot, mimes, source, sources, told, believes, requests>>

IntroduceOffer(id) ==
  /\ offers' = (offers \ {pending}) \cup {id} /\ pending' = id
  /\ UNCHANGED <<slot, mimes, source, sources, told, believes, requests>>

(* offer: the handler of every offer proxy is the one in the pending slot.   *)
OnOffer(mime) ==
  /\ mimes' = mimes \cup {mime}
  /\ UNCHANGED <<pending, slot, source, offers, sources, told, believes, requests>>

(* selection and primary_selection: null clears the slot; the pending offer  *)
(* is delivered and moves into the slot; any other id is ignored.            *)
ClearSlot(c) ==
  /\ told' = [told EXCEPT ![c] = {}]
  /\ offers' = offers \ {slot[c]}
  /\ slot' = [slot EXCEPT ![c] = Null]
  /\ UNCHANGED <<pending, mimes, source, sources, believes, requests>>

AdoptPending_NoSwap(c) ==  \* mutant: delivered, but not moved into the slot
  /\ told' = [told EXCEPT ![c] = mimes]
  /\ offers' = offers \ {slot[c]}
  /\ slot' = [slot EXCEPT ![c] = Null]
  /\ UNCHANGED <<pending, mimes, source, sources, believes, requests>>

AdoptPending_Regular(c) ==  \* mutant: every offer goes to offer_
  /\ told' = [told EXCEPT ![c] = mimes]
  /\ offers' = offers \ {slot["regular"]}
  /\ slot' = [slot EXCEPT !["regular"] = pending] /\ pending' = Null
  /\ UNCHANGED <<mimes, source, sources, believes, requests>>

AdoptPending(c) ==
  /\ told' = [told EXCEPT ![c] = mimes]
  /\ offers' = offers \ {slot[c]}
  /\ slot' = [slot EXCEPT ![c] = pending] /\ pending' = Null
  /\ UNCHANGED <<mimes, source, sources, believes, requests>>

Ignore ==
  UNCHANGED <<pending, slot, mimes, source, offers, sources, told, believes, requests>>

CommitOffer(id, c) ==
  IF id = Null THEN ClearSlot(c) ELSE IF pending = id THEN AdoptPending(c) ELSE Ignore

SourceCancelled_Silent(id) ==  \* mutant: the App is not told
  /\ source' = Null
  /\ sources' = ResetSource.left /\ requests' = ResetSource.requests
  /\ UNCHANGED <<pending, slot, mimes, offers, told, believes>>

(* SourceCancelled: the source that is held is dropped, and the App is told. *)
SourceCancelled(id) ==
  /\ source' = Null
  /\ sources' = ResetSource.left /\ requests' = ResetSource.requests
  /\ believes' = [c \in Channels |-> IF believes[c] = id THEN Null ELSE believes[c]]
  /\ UNCHANGED <<pending, slot, mimes, offers, told>>

(* libwayland drops the events of proxies that are destroyed; enter and the  *)
(* other drag events have no handler.                                        *)
Dropped(e) ==
  \/ e.type = "enter"
  \/ e.type \in {"send", "cancelled"} /\ e.id \notin sources
  \/ e.type = "offer" /\ e.id \notin offers
  \/ e.type \in {"data_offer", "selection"} /\ phase # "started"

Handle(e) ==
  \/ Dropped(e) /\ Ignore
  \/ /\ ~Dropped(e)
     /\ \/ e.type = "data_offer" /\ IntroduceOffer(e.id)
        \/ e.type = "offer" /\ OnOffer(e.arg)
        \/ e.type = "selection" /\ CommitOffer(e.id, e.arg)
        \/ e.type = "send" /\ Ignore
        \/ e.type = "cancelled" /\ SourceCancelled(e.id)

Dispatch ==
  /\ events # <<>>
  /\ events' = Tail(events)
  /\ Handle(Head(events))
  /\ LET e == Head(events) IN
     call' = IF e.type \in {"send", "cancelled"} /\ ~Dropped(e)
             THEN {<<e.type, e.id>>} ELSE {}
  /\ UNCHANGED <<phase, created, server>>
-----------------------------------------------------------------------------
(* The compositor.                                                           *)

(* An offer is introduced, its types follow, and then what it is for.        *)
NewOffer == Len(offered) + 1
Introduction(M, last) ==
  <<Ev("data_offer", NewOffer, NoArg)>>
    \o [i \in 1..Cardinality(M) |-> Ev("offer", NewOffer, SetToSeq(M)[i])]
    \o <<last>>

(* The selection c is announced to this client, or not (without the focus).  *)
Announce(evs, c, M) ==
  \/ /\ Len(offered) < MaxOffers
     /\ events' = evs \o Introduction(M, Ev("selection", NewOffer, c))
     /\ offered' = Append(offered, M)
     /\ current' = [current EXCEPT ![c] = NewOffer]
  \/ events' = evs /\ UNCHANGED <<offered, current>>

CancelledTo(prev) ==
  IF prev \in Sources THEN Append(events, Ev("cancelled", prev, NoArg)) ELSE events

(* A source that is set takes the selection over; the one before is told.    *)
TakeSet(r) ==
  /\ r.type = "set"
  /\ owner' = [owner EXCEPT ![r.chan] = r.src]
  /\ Announce(CancelledTo(owner[r.chan]), r.chan, Mimes)

(* A source that is destroyed leaves its selection empty.                    *)
TakeDestroy(r) ==
  LET held == {c \in Channels : owner[c] = r.src}
  IN  /\ r.type = "destroy"
      /\ owner' = [c \in Channels |-> IF c \in held THEN Null ELSE owner[c]]
      /\ \/ UNCHANGED <<events, current>>
         \/ \E c \in held : /\ events' = Append(events, Ev("selection", Null, c))
                            /\ current' = [current EXCEPT ![c] = Null]
      /\ UNCHANGED offered

TakeRequest ==
  /\ requests # <<>>
  /\ requests' = Tail(requests)
  /\ TakeSet(Head(requests)) \/ TakeDestroy(Head(requests))
  /\ call' = {} /\ UNCHANGED client

Room == phase # "bound" /\ Len(events) < MaxQueue

OtherTakes(c, M) ==
  /\ Room
  /\ owner' = [owner EXCEPT ![c] = Other]
  /\ Announce(CancelledTo(owner[c]), c, M)
  /\ call' = {} /\ UNCHANGED <<client, requests>>

OtherClears(c) ==
  /\ Room /\ owner[c] = Other
  /\ owner' = [owner EXCEPT ![c] = Null]
  /\ events' = Append(events, Ev("selection", Null, c))
  /\ current' = [current EXCEPT ![c] = Null]
  /\ call' = {} /\ UNCHANGED <<client, requests, offered>>

(* A drag of another client enters: an offer that is no selection.           *)
DragEnters(M) ==
  /\ Room /\ ~HasPrimary /\ Len(offered) < MaxOffers
  /\ events' = events \o Introduction(M, Ev("enter", NewOffer, NoArg))
  /\ offered' = Append(offered, M)
  /\ call' = {} /\ UNCHANGED <<client, requests, owner, current>>

(* Another client pastes what the App offers.                                *)
Paste(c) ==
  /\ Room /\ owner[c] \in Sources
  /\ events' = Append(events, Ev("send", owner[c], NoArg))
  /\ call' = {} /\ UNCHANGED <<client, requests, server>>

Next ==
  \/ Start \/ Release \/ Dispatch \/ TakeRequest
  \/ \E c \in Channels : OfferSelection(c) \/ OtherClears(c) \/ Paste(c)
  \/ \E c \in Channels, M \in SUBSET Mimes : OtherTakes(c, M)
  \/ \E M \in SUBSET Mimes : DragEnters(M)

Spec == Init /\ [][Next]_vars
-----------------------------------------------------------------------------
(* Every proxy that is not destroyed is held in one place, so that Release   *)
(* ("destroy the proxies") leaves none behind.                               *)
NoProxyLost ==
  /\ offers = ({pending} \cup {slot[c] : c \in Channels}) \ {Null}
  /\ sources = {source} \ {Null}
  /\ \A c \in Channels : slot[c] # Null =>
       slot[c] # pending /\ \A d \in Channels \ {c} : slot[d] # slot[c]

(* When every event is dispatched, the slots hold the offers last announced, *)
(* whatever other offers (drags, offers that were replaced) came between.    *)
HoldsLastAnnounced ==
  phase = "started" /\ events = <<>> => slot = current

(* "The MIME types offered for the current clipboard selection" (MimeSet):   *)
(* the App is told exactly these.                                            *)
TypesOfSelection ==
  \A c \in Channels : slot[c] # Null => told[c] = offered[slot[c]]

(* The App hears only of sources it believes to offer: a send or cancelled   *)
(* that was on its way when it offered something else never reaches it, and  *)
(* cannot take the new source away.                                          *)
OnlyOwnSources == [][\A k \in call' : \E c \in Channels : believes[c] = k[2]]_vars

(* "The App ... is told via OnCancelled when the offer is superseded"        *)
(* (Offer): once nothing is in flight, what the App believes to offer is the *)
(* selection.                                                                *)
OwnerOrTold ==
  requests = <<>> /\ events = <<>> =>
    \A c \in Channels : believes[c] # Null => owner[c] = believes[c]
=============================================================================
