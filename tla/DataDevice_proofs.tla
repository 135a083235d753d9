--------------------------- MODULE DataDevice_proofs ---------------------------
(***************************************************************************)
(* What DataDevice keeps, for any number of offers, sources and types: its *)
(* slots follow the compositor, no proxy is lost, and the App knows what   *)
(* it owns.                                                                *)
(*                                                                         *)
(* The client decides on events that are old when it sees them.  So the    *)
(* invariant is about the channel: what each event in flight will find     *)
(* when its turn comes.  The ids of offers grow, an offer is announced     *)
(* right behind its introduction, and the last announcement in flight is   *)
(* what the compositor has now.                                            *)
(***************************************************************************)
EXTENDS DataDevice, FiniteSetTheorems, TLAPS

(* Channels: what is appended to one, taken from it, and put behind it.    *)
LEMMA AppendFacts ==
  ASSUME NEW S, NEW q \in Seq(S), NEW e \in S
  PROVE  /\ Append(q, e) \in Seq(S)
         /\ Len(Append(q, e)) = Len(q) + 1 /\ Len(q) \in Nat
         /\ DOMAIN q = 1..Len(q) /\ DOMAIN Append(q, e) = 1..Len(q) + 1
         /\ \A i \in 1..Len(q) : Append(q, e)[i] = q[i]
         /\ Append(q, e)[Len(q) + 1] = e
OBVIOUS

(* The head of a channel is its first element, and the rest moves up by    *)
(* one.                                                                    *)
LEMMA TailFacts ==
  ASSUME NEW S, NEW q \in Seq(S), q # << >>
  PROVE  /\ Tail(q) \in Seq(S)
         /\ Len(q) \in Nat \ {0} /\ Len(Tail(q)) = Len(q) - 1
         /\ DOMAIN q = 1..Len(q) /\ DOMAIN Tail(q) = 1..Len(q) - 1
         /\ \A i \in 1..Len(q) - 1 : Tail(q)[i] = q[i + 1]
         /\ Head(q) = q[1] /\ Head(q) \in S
<1>1. Len(q) \in Nat \ {0}
  OBVIOUS
<1>2. Tail(q) \in Seq(S) /\ Len(Tail(q)) = Len(q) - 1
  BY <1>1
<1>3. DOMAIN q = 1..Len(q) /\ DOMAIN Tail(q) = 1..Len(q) - 1
  BY <1>2
<1>4. \A i \in 1..Len(q) - 1 : Tail(q)[i] = q[i + 1]
  BY <1>1, <1>2
<1>5. Head(q) = q[1] /\ Head(q) \in S
  BY <1>1
<1>. QED  BY <1>1, <1>2, <1>3, <1>4, <1>5

(* Two lists, one behind the other.                                        *)
LEMMA ConcatFacts ==
  ASSUME NEW S, NEW q \in Seq(S), NEW r \in Seq(S)
  PROVE  /\ q \o r \in Seq(S)
         /\ Len(q) \in Nat /\ Len(r) \in Nat /\ Len(q \o r) = Len(q) + Len(r)
         /\ DOMAIN q = 1..Len(q) /\ DOMAIN (q \o r) = 1..Len(q) + Len(r)
         /\ \A i \in 1..Len(q) : (q \o r)[i] = q[i]
         /\ \A i \in 1..Len(r) : (q \o r)[Len(q) + i] = r[i]
<1>1. /\ q \o r \in Seq(S)
      /\ Len(q) \in Nat /\ Len(r) \in Nat /\ Len(q \o r) = Len(q) + Len(r)
  OBVIOUS
<1>2. DOMAIN q = 1..Len(q) /\ DOMAIN (q \o r) = 1..Len(q) + Len(r)
  BY <1>1
<1>3. \A i \in 1..Len(q) : (q \o r)[i] = q[i]
  BY <1>1
<1>4. \A i \in 1..Len(r) : (q \o r)[Len(q) + i] = r[i]
  BY <1>1
<1>. QED  BY <1>1, <1>2, <1>3, <1>4

(* The types of an offer are finitely many and are listed in some order.   *)
LEMMA ListOfTypes ==
  ASSUME NEW M \in SUBSET Mimes
  PROVE  Cardinality(M) \in Nat /\ SetToSeq(M) \in [1..Cardinality(M) -> M]
<1>1. IsFiniteSet(M)
  BY MimesAssumption, FS_Subset
<1>2. Cardinality(M) \in Nat /\ ExistsBijection(1..Cardinality(M), M)
  BY <1>1, FS_CardinalityType
<1>3. \E f \in [1..Cardinality(M) -> M] : IsInjective(f)
  BY <1>2 DEF ExistsBijection, Bijection, Injection
<1>. QED  BY <1>2, <1>3 DEF SetToSeq

(* The two events that concern the slots: an offer is introduced (it       *)
(* becomes the pending one), and an offer, or none, is announced as a      *)
(* selection.                                                              *)
Introduces(e) == e.type = "data_offer"
Announces(e) == e.type = "selection"

(* r is q and, behind it, an introduction of the offer n + 1, of which e   *)
(* is the last event.                                                      *)
Grown(q, r, n, e) ==
  /\ Len(q) \in Nat /\ Len(r) \in Nat /\ Len(r) >= Len(q) + 2
  /\ DOMAIN q = 1..Len(q) /\ DOMAIN r = 1..Len(r)
  /\ \A i \in 1..Len(q) : r[i] = q[i]
  /\ Introduces(r[Len(q) + 1]) /\ ~Announces(r[Len(q) + 1]) /\ r[Len(q) + 1].id = n + 1
  /\ \A i \in Len(q) + 2..Len(r) - 1 : ~Introduces(r[i]) /\ ~Announces(r[i])
  /\ r[Len(r)] = e

(* What the client is sent for a new offer grows the channel in this way,  *)
(* however many types the offer has.                                       *)
LEMMA Introduced ==
  ASSUME NEW q \in Seq(Event), NEW M \in SUBSET Mimes, NEW last \in Event,
         Len(offered) \in Nat, Len(offered) < MaxOffers
  PROVE  /\ q \o Introduction(M, last) \in Seq(Event)
         /\ Grown(q, q \o Introduction(M, last), Len(offered), last)
<1>. DEFINE n == Cardinality(M)
            first == << Ev("data_offer", NewOffer, NoArg) >>
            types == [i \in 1..n |-> Ev("offer", NewOffer, SetToSeq(M)[i])]
            L == Len(q)
            r == q \o Introduction(M, last)
<1>1. n \in Nat /\ \A i \in 1..n : SetToSeq(M)[i] \in Mimes
  BY ListOfTypes
<1>2. NewOffer \in Offers
  BY BoundAssumption DEF NewOffer, Offers
<1>3. Ev("data_offer", NewOffer, NoArg) \in Event
  BY <1>2 DEF Ev, Event
<1>4. first \in Seq(Event) /\ Len(first) = 1 /\ first[1] = Ev("data_offer", NewOffer, NoArg)
  BY <1>3
<1>5. \A i \in 1..n : types[i] \in Event /\ types[i].type = "offer"
  BY <1>1, <1>2 DEF Ev, Event
<1>6. types \in Seq(Event) /\ Len(types) = n
  BY <1>1, <1>5
<1>7. << last >> \in Seq(Event) /\ Len(<< last >>) = 1 /\ << last >>[1] = last
  OBVIOUS
<1>8. Introduction(M, last) = (first \o types) \o << last >>
  BY DEF Introduction
<1>. HIDE DEF first, types, n
<1>. DEFINE ft == first \o types
<1>9. /\ ft \in Seq(Event) /\ Len(ft) = 1 + n /\ ft[1] = first[1]
      /\ \A i \in 1..n : ft[1 + i] = types[i]
  <2>0. first \in Seq(Event) /\ types \in Seq(Event)
    BY <1>4, <1>6
  <2>1. /\ first \o types \in Seq(Event) /\ Len(first \o types) = Len(first) + Len(types)
        /\ \A i \in 1..Len(first) : (first \o types)[i] = first[i]
        /\ \A i \in 1..Len(types) : (first \o types)[Len(first) + i] = types[i]
    BY <2>0, ConcatFacts
  <2>. QED  BY <1>1, <1>4, <1>6, <2>1
<1>. HIDE DEF ft
<1>. DEFINE in == ft \o << last >>
<1>10. /\ in \in Seq(Event) /\ Len(in) = n + 2 /\ in[1] = first[1] /\ in[n + 2] = last
       /\ \A i \in 1..n : in[1 + i] = types[i]
  <2>1. /\ in \in Seq(Event) /\ Len(in) = (1 + n) + 1
        /\ \A i \in 1..1 + n : in[i] = ft[i]
        /\ in[(1 + n) + 1] = last
    BY <1>1, <1>7, <1>9, ConcatFacts
  <2>2. \A i \in 1..n : 1 + i \in 1..1 + n
    BY <1>1
  <2>. QED  BY <1>1, <1>9, <2>1, <2>2
<1>. HIDE DEF in
<1>11. r = q \o in
  BY <1>8 DEF in, ft
<1>. HIDE DEF r
<1>12. /\ r \in Seq(Event) /\ L \in Nat /\ Len(r) = L + (n + 2)
       /\ DOMAIN q = 1..L /\ DOMAIN r = 1..L + (n + 2)
       /\ \A i \in 1..L : r[i] = q[i]
       /\ \A i \in 1..n + 2 : r[L + i] = in[i]
  <2>0. in \in Seq(Event)
    BY <1>10
  <2>1. /\ q \o in \in Seq(Event) /\ Len(q) \in Nat /\ Len(q \o in) = Len(q) + Len(in)
        /\ DOMAIN q = 1..Len(q) /\ DOMAIN (q \o in) = 1..Len(q) + Len(in)
        /\ \A i \in 1..Len(q) : (q \o in)[i] = q[i]
        /\ \A i \in 1..Len(in) : (q \o in)[Len(q) + i] = in[i]
    BY <2>0, ConcatFacts
  <2>2. /\ r \in Seq(Event) /\ L \in Nat /\ Len(r) = L + Len(in)
        /\ DOMAIN q = 1..L /\ DOMAIN r = 1..L + Len(in)
        /\ \A i \in 1..L : r[i] = q[i]
        /\ \A i \in 1..Len(in) : r[L + i] = in[i]
    BY <1>11, <2>1
  <2>. QED  BY <1>10, <2>2
<1>13. r[L + 1] = first[1] /\ r[L + (n + 2)] = last
  BY <1>1, <1>10, <1>12
<1>14. ASSUME NEW i \in L + 2..Len(r) - 1 PROVE r[i].type = "offer"
  <2>1. i - (L + 1) \in 1..n /\ 1 + (i - (L + 1)) \in 1..n + 2 /\ i = L + (1 + (i - (L + 1)))
    BY <1>1, <1>12
  <2>2. r[i] = in[1 + (i - (L + 1))]
    BY <1>12, <2>1
  <2>3. r[i] = types[i - (L + 1)]
    BY <1>10, <2>1, <2>2
  <2>. QED  BY <1>5, <2>1, <2>3
<1>15. LET e == Ev("data_offer", NewOffer, NoArg)
       IN  Introduces(e) /\ ~Announces(e) /\ e.id = Len(offered) + 1
  BY DEF Ev, Introduces, Announces, NewOffer
<1>16. \A i \in L + 2..Len(r) - 1 : ~Introduces(r[i]) /\ ~Announces(r[i])
  BY <1>14 DEF Introduces, Announces
<1>17. Grown(q, r, Len(offered), last)
  BY <1>1, <1>4, <1>12, <1>13, <1>15, <1>16 DEF Grown
<1>. QED  BY <1>12, <1>17 DEF r
-----------------------------------------------------------------------------
(* The offers that q introduces are among the first n, younger than those  *)
(* in held, and in the order in which they were made.                      *)
Fresh(q, n, held) ==
  \A i \in DOMAIN q : Introduces(q[i]) =>
    /\ q[i].id \in 1..n
    /\ \A o \in held : o < q[i].id
    /\ \A j \in DOMAIN q : j < i /\ Introduces(q[j]) => q[j].id < q[i].id

(* When event i of q is dispatched, the offer that it names is the pending *)
(* one: it is pending now (p) and nothing before i replaces it, or it is   *)
(* the last that is introduced before i.                                   *)
Follows(q, p, i) ==
  \/ p = q[i].id /\ \A k \in DOMAIN q : k < i => ~Introduces(q[k])
  \/ \E j \in DOMAIN q : /\ j < i /\ Introduces(q[j]) /\ q[j].id = q[i].id
                         /\ \A k \in DOMAIN q : j < k /\ k < i => ~Introduces(q[k])

(* Every announcement in q finds its offer pending, and no offer is        *)
(* announced twice.                                                        *)
Adoptable(q, n, p) ==
  \A i \in DOMAIN q : Announces(q[i]) /\ q[i].id # Null =>
    /\ q[i].id \in 1..n
    /\ Follows(q, p, i)
    /\ \A j \in DOMAIN q : j < i /\ Announces(q[j]) => q[j].id # q[i].id

(* The last announcement in q for a selection is of what cur has for it;   *)
(* without one, sl has it already.                                         *)
Catches(q, sl, cur) ==
  \A c \in Channels :
    \/ sl[c] = cur[c] /\ \A i \in DOMAIN q : Announces(q[i]) => q[i].arg # c
    \/ \E i \in DOMAIN q : /\ Announces(q[i]) /\ q[i].arg = c /\ q[i].id = cur[c]
                           /\ \A j \in DOMAIN q : Announces(q[j]) /\ q[j].arg = c => j <= i

(* An event that introduces nothing leaves this so; an announcement of     *)
(* nothing (null) too.                                                     *)
LEMMA FreshAppend ==
  ASSUME NEW q \in Seq(Event), NEW e \in Event, NEW n, NEW held, Fresh(q, n, held), ~Introduces(e)
  PROVE  Fresh(Append(q, e), n, held)
<1>. DEFINE r == Append(q, e)
            L == Len(q)
<1>1. /\ L \in Nat /\ DOMAIN q = 1..L /\ DOMAIN r = 1..L + 1
      /\ r[L + 1] = e /\ \A i \in 1..L : r[i] = q[i]
  BY AppendFacts
<1>. HIDE DEF r, L
<1>2. Fresh(r, n, held)
  BY <1>1 DEF Fresh
<1>. QED  BY <1>2 DEF r

(* The same for the announcements.                                         *)
LEMMA AdoptableAppend ==
  ASSUME NEW q \in Seq(Event), NEW e \in Event, NEW n, NEW p, Adoptable(q, n, p),
         ~Introduces(e), Announces(e) => e.id = Null
  PROVE  Adoptable(Append(q, e), n, p)
<1>. DEFINE r == Append(q, e)
            L == Len(q)
<1>1. /\ L \in Nat /\ DOMAIN q = 1..L /\ DOMAIN r = 1..L + 1
      /\ r[L + 1] = e /\ \A i \in 1..L : r[i] = q[i]
  BY AppendFacts
<1>. HIDE DEF r, L
<1>2. ASSUME NEW i \in 1..L, Follows(q, p, i) PROVE Follows(r, p, i)
  BY <1>1, <1>2 DEF Follows
<1>3. Adoptable(r, n, p)
  BY <1>1, <1>2 DEF Adoptable
<1>. QED  BY <1>3 DEF r

(* One more announcement, of what the compositor has now.                  *)
LEMMA CatchesAppend ==
  ASSUME NEW q \in Seq(Event), NEW e \in Event, NEW sl,
         NEW cur, NEW then, Catches(q, sl, cur),
         \A c \in Channels : then[c] = IF Announces(e) /\ e.arg = c THEN e.id ELSE cur[c]
  PROVE  Catches(Append(q, e), sl, then)
<1>. DEFINE r == Append(q, e)
            L == Len(q)
<1>1. /\ L \in Nat /\ DOMAIN q = 1..L /\ DOMAIN r = 1..L + 1
      /\ r[L + 1] = e /\ \A i \in 1..L : r[i] = q[i]
  BY AppendFacts
<1>. HIDE DEF r, L
<1>2. ASSUME NEW c \in Channels
      PROVE  \/ sl[c] = then[c] /\ \A i \in DOMAIN r : Announces(r[i]) => r[i].arg # c
             \/ \E i \in DOMAIN r : /\ Announces(r[i]) /\ r[i].arg = c /\ r[i].id = then[c]
                                    /\ \A j \in DOMAIN r : Announces(r[j]) /\ r[j].arg = c => j <= i
  <2>1. CASE Announces(e) /\ e.arg = c
    <3>1. then[c] = e.id /\ L + 1 \in DOMAIN r /\ \A j \in DOMAIN r : j <= L + 1
      BY <1>1, <2>1
    <3>. QED  BY <1>1, <2>1, <3>1
  <2>2. CASE ~(Announces(e) /\ e.arg = c)
    <3>1. then[c] = cur[c]
      BY <2>2
    <3>2. CASE sl[c] = cur[c] /\ \A i \in DOMAIN q : Announces(q[i]) => q[i].arg # c
      BY <1>1, <2>2, <3>1, <3>2
    <3>3. CASE \E i \in DOMAIN q : /\ Announces(q[i]) /\ q[i].arg = c /\ q[i].id = cur[c]
                                   /\ \A j \in DOMAIN q : Announces(q[j]) /\ q[j].arg = c => j <= i
      <4>1. PICK i \in DOMAIN q : /\ Announces(q[i]) /\ q[i].arg = c /\ q[i].id = cur[c]
                                  /\ \A j \in DOMAIN q : Announces(q[j]) /\ q[j].arg = c => j <= i
        BY <3>3
      <4>2. i \in DOMAIN r /\ r[i] = q[i]
        BY <1>1
      <4>3. \A j \in DOMAIN r : Announces(r[j]) /\ r[j].arg = c => j <= i
        BY <1>1, <2>2, <4>1
      <4>. QED  BY <3>1, <4>1, <4>2, <4>3
    <3>. QED  BY <3>2, <3>3 DEF Catches
  <2>. QED  BY <2>1, <2>2
<1>3. Catches(r, sl, then)
  BY <1>2 DEF Catches
<1>. QED  BY <1>3 DEF r

(* A new offer is younger than all others.                                 *)
LEMMA FreshGrown ==
  ASSUME NEW q, NEW r, NEW n \in Nat, NEW e, Grown(q, r, n, e), ~Introduces(e),
         NEW held \in SUBSET 1..n, Fresh(q, n, held)
  PROVE  Fresh(r, n + 1, held)
<1>1. ASSUME NEW i \in DOMAIN r, Introduces(r[i])
      PROVE  i \in DOMAIN q \/ i = Len(q) + 1
  BY <1>1 DEF Grown
<1>2. ASSUME NEW i \in DOMAIN r, Introduces(r[i])
      PROVE  /\ r[i].id \in 1..n + 1
             /\ \A o \in held : o < r[i].id
             /\ \A j \in DOMAIN r : j < i /\ Introduces(r[j]) => r[j].id < r[i].id
  <2>1. CASE i \in DOMAIN q
    <3>1. r[i] = q[i] /\ \A j \in DOMAIN r : j < i => j \in DOMAIN q /\ r[j] = q[j]
      BY <2>1 DEF Grown
    <3>2. /\ q[i].id \in 1..n
          /\ \A o \in held : o < q[i].id
          /\ \A j \in DOMAIN q : j < i /\ Introduces(q[j]) => q[j].id < q[i].id
      BY <1>2, <2>1, <3>1 DEF Fresh
    <3>. QED  BY <3>1, <3>2
  <2>2. CASE i = Len(q) + 1
    <3>1. r[i].id = n + 1
      BY <2>2 DEF Grown
    <3>2. \A j \in DOMAIN r : j < i => j \in DOMAIN q /\ r[j] = q[j]
      BY <2>2 DEF Grown
    <3>3. \A j \in DOMAIN q : Introduces(q[j]) => q[j].id \in 1..n
      BY DEF Fresh
    <3>4. n + 1 \in 1..n + 1 /\ (\A o \in held : o < n + 1) /\ \A m \in 1..n : m < n + 1
      OBVIOUS
    <3>5. \A j \in DOMAIN r : j < i /\ Introduces(r[j]) => r[j].id < n + 1
      BY <3>2, <3>3, <3>4
    <3>. QED  BY <3>1, <3>4, <3>5
  <2>. QED  BY <1>1, <1>2, <2>1, <2>2
<1>. QED  BY <1>2 DEF Fresh

(* It is pending when it is announced, right behind its introduction.      *)
LEMMA AdoptableGrown ==
  ASSUME NEW q, NEW r, NEW n \in Nat, NEW e, Grown(q, r, n, e), ~Introduces(e),
         Announces(e) => e.id = n + 1,
         NEW p, Adoptable(q, n, p)
  PROVE  Adoptable(r, n + 1, p)
<1>1. ASSUME NEW i \in DOMAIN r, Announces(r[i])
      PROVE  i \in DOMAIN q \/ i = Len(r)
  BY <1>1 DEF Grown
<1>2. ASSUME NEW i \in DOMAIN r, Announces(r[i]), r[i].id # Null
      PROVE  /\ r[i].id \in 1..n + 1
             /\ Follows(r, p, i)
             /\ \A j \in DOMAIN r : j < i /\ Announces(r[j]) => r[j].id # r[i].id
  <2>1. CASE i \in DOMAIN q
    <3>1. r[i] = q[i] /\ \A j \in DOMAIN r : j < i => j \in DOMAIN q /\ r[j] = q[j]
      BY <2>1 DEF Grown
    <3>2. \A j \in DOMAIN q : j \in DOMAIN r /\ r[j] = q[j]
      BY DEF Grown
    <3>3. /\ q[i].id \in 1..n
          /\ Follows(q, p, i)
          /\ \A j \in DOMAIN q : j < i /\ Announces(q[j]) => q[j].id # q[i].id
      BY <1>2, <2>1, <3>1 DEF Adoptable
    <3>4. Follows(r, p, i)
      BY <3>1, <3>2, <3>3 DEF Follows
    <3>. QED  BY <3>1, <3>3, <3>4
  <2>2. CASE i = Len(r)
    <3>1. r[i].id = n + 1
      BY <1>2, <2>2 DEF Grown
    <3>2. Follows(r, p, i)
      <4>. DEFINE j == Len(q) + 1
      <4>1. j \in DOMAIN r /\ j < i /\ Introduces(r[j]) /\ r[j].id = r[i].id
        BY <2>2, <3>1 DEF Grown
      <4>2. \A k \in DOMAIN r : j < k /\ k < i => ~Introduces(r[k])
        BY <2>2 DEF Grown
      <4>. HIDE DEF j
      <4>. QED  BY <4>1, <4>2 DEF Follows
    <3>3. ASSUME NEW j \in DOMAIN r, j < i, Announces(r[j]) PROVE r[j].id # n + 1
      <4>1. j \in DOMAIN q /\ r[j] = q[j]
        BY <1>1, <2>2, <3>3 DEF Grown
      <4>2. q[j].id = Null \/ q[j].id \in 1..n
        BY <3>3, <4>1 DEF Adoptable
      <4>. QED  BY <4>1, <4>2 DEF Null
    <3>. QED  BY <3>1, <3>2, <3>3
  <2>. QED  BY <1>1, <1>2, <2>1, <2>2
<1>. QED  BY <1>2 DEF Adoptable

(* And when the offer is for a selection, it is what the selection has     *)
(* now.                                                                    *)
LEMMA CatchesGrown ==
  ASSUME NEW q, NEW r, NEW n \in Nat, NEW e, Grown(q, r, n, e),
         NEW sl, NEW cur, NEW then, Catches(q, sl, cur),
         \A c \in Channels : then[c] = IF Announces(e) /\ e.arg = c THEN e.id ELSE cur[c]
  PROVE  Catches(r, sl, then)
<1>1. ASSUME NEW i \in DOMAIN r, Announces(r[i])
      PROVE  (i \in DOMAIN q /\ r[i] = q[i]) \/ i = Len(r)
  BY <1>1 DEF Grown
<1>2. \A i \in DOMAIN q : i \in DOMAIN r /\ r[i] = q[i]
  BY DEF Grown
<1>3. ASSUME NEW c \in Channels
      PROVE  \/ sl[c] = then[c] /\ \A i \in DOMAIN r : Announces(r[i]) => r[i].arg # c
             \/ \E i \in DOMAIN r : /\ Announces(r[i]) /\ r[i].arg = c /\ r[i].id = then[c]
                                    /\ \A j \in DOMAIN r : Announces(r[j]) /\ r[j].arg = c => j <= i
  <2>1. CASE Announces(e) /\ e.arg = c
    <3>1. then[c] = e.id /\ Len(r) \in DOMAIN r /\ \A j \in DOMAIN r : j <= Len(r)
      BY <2>1 DEF Grown
    <3>2. r[Len(r)] = e
      BY DEF Grown
    <3>. QED  BY <2>1, <3>1, <3>2
  <2>2. CASE ~(Announces(e) /\ e.arg = c)
    <3>1. then[c] = cur[c] /\ r[Len(r)] = e
      BY <2>2 DEF Grown
    <3>2. CASE sl[c] = cur[c] /\ \A i \in DOMAIN q : Announces(q[i]) => q[i].arg # c
      BY <1>1, <2>2, <3>1, <3>2
    <3>3. CASE \E i \in DOMAIN q : /\ Announces(q[i]) /\ q[i].arg = c /\ q[i].id = cur[c]
                                   /\ \A j \in DOMAIN q : Announces(q[j]) /\ q[j].arg = c => j <= i
      <4>1. PICK i \in DOMAIN q : /\ Announces(q[i]) /\ q[i].arg = c /\ q[i].id = cur[c]
                                  /\ \A j \in DOMAIN q : Announces(q[j]) /\ q[j].arg = c => j <= i
        BY <3>3
      <4>2. \A j \in DOMAIN r : Announces(r[j]) /\ r[j].arg = c => j <= i
        BY <1>1, <2>2, <3>1, <4>1
      <4>. QED  BY <1>2, <3>1, <4>1, <4>2
    <3>. QED  BY <3>2, <3>3 DEF Catches
  <2>. QED  BY <2>1, <2>2
<1>. QED  BY <1>3 DEF Catches

(* An event is dispatched: an offer that is introduced joins those that    *)
(* are held, and what follows is younger.                                  *)
LEMMA FreshTail ==
  ASSUME NEW q \in Seq(Event), q # << >>, NEW n,
         NEW held, NEW left \in SUBSET held, Fresh(q, n, held)
  PROVE  /\ Fresh(Tail(q), n, left)
         /\ Introduces(Head(q)) => Fresh(Tail(q), n, left \cup {Head(q).id})
<1>. DEFINE r == Tail(q)
            L == Len(q)
<1>1. /\ L \in Nat \ {0} /\ DOMAIN q = 1..L /\ DOMAIN r = 1..L - 1 /\ Head(q) = q[1]
      /\ \A i \in 1..L - 1 : r[i] = q[i + 1]
  BY TailFacts
<1>. HIDE DEF r, L
<1>2. ASSUME NEW i \in DOMAIN r, Introduces(r[i])
      PROVE  /\ r[i].id \in 1..n
             /\ \A o \in left : o < r[i].id
             /\ Introduces(q[1]) => q[1].id < r[i].id
             /\ \A j \in DOMAIN r : j < i /\ Introduces(r[j]) => r[j].id < r[i].id
  <2>1. i + 1 \in DOMAIN q /\ r[i] = q[i + 1] /\ 1 \in DOMAIN q /\ 1 < i + 1
    BY <1>1
  <2>2. /\ q[i + 1].id \in 1..n
        /\ \A o \in held : o < q[i + 1].id
        /\ \A j \in DOMAIN q : j < i + 1 /\ Introduces(q[j]) => q[j].id < q[i + 1].id
    BY <1>2, <2>1 DEF Fresh
  <2>3. ASSUME NEW j \in DOMAIN r, j < i, Introduces(r[j]) PROVE r[j].id < r[i].id
    <3>1. j + 1 \in DOMAIN q /\ r[j] = q[j + 1] /\ j + 1 < i + 1
      BY <1>1, <2>3
    <3>. QED  BY <2>1, <2>2, <2>3, <3>1
  <2>. QED  BY <2>1, <2>2, <2>3
<1>3. Fresh(r, n, left)
  BY <1>2 DEF Fresh
<1>4. ASSUME Introduces(Head(q)) PROVE Fresh(r, n, left \cup {Head(q).id})
  BY <1>1, <1>2, <1>4 DEF Fresh
<1>. QED  BY <1>3, <1>4 DEF r

(* What an announcement finds pending is the same, seen from one event     *)
(* later.                                                                  *)
LEMMA FollowsTail ==
  ASSUME NEW q \in Seq(Event), q # << >>, NEW p, NEW i \in DOMAIN Tail(q), Follows(q, p, i + 1)
  PROVE  Follows(Tail(q), IF Introduces(Head(q)) THEN Head(q).id ELSE p, i)
<1>. DEFINE r == Tail(q)
            L == Len(q)
<1>1. /\ L \in Nat \ {0} /\ DOMAIN q = 1..L /\ DOMAIN r = 1..L - 1 /\ Head(q) = q[1]
      /\ \A k \in 1..L - 1 : r[k] = q[k + 1]
  BY TailFacts
<1>2. i \in DOMAIN r
  OBVIOUS
<1>. HIDE DEF r, L
<1>3. r[i] = q[i + 1] /\ 1 \in DOMAIN q /\ 1 < i + 1 /\ i \in Nat
  BY <1>1, <1>2
<1>4. CASE p = q[i + 1].id /\ \A k \in DOMAIN q : k < i + 1 => ~Introduces(q[k])
  <2>1. ~Introduces(q[1])
    BY <1>3, <1>4
  <2>2. ASSUME NEW k \in DOMAIN r, k < i PROVE ~Introduces(r[k])
    <3>1. k + 1 \in DOMAIN q /\ k + 1 < i + 1 /\ r[k] = q[k + 1]
      BY <1>1, <1>3, <2>2
    <3>. QED  BY <1>4, <3>1
  <2>. QED  BY <1>1, <1>3, <1>4, <2>1, <2>2 DEF Follows, r
<1>5. CASE \E j \in DOMAIN q : /\ j < i + 1 /\ Introduces(q[j]) /\ q[j].id = q[i + 1].id
                               /\ \A k \in DOMAIN q : j < k /\ k < i + 1 => ~Introduces(q[k])
  <2>1. PICK j \in DOMAIN q : /\ j < i + 1 /\ Introduces(q[j]) /\ q[j].id = q[i + 1].id
                              /\ \A k \in DOMAIN q : j < k /\ k < i + 1 => ~Introduces(q[k])
    BY <1>5
  <2>2. ASSUME NEW k \in DOMAIN r, j < k + 1, k < i PROVE ~Introduces(r[k])
    <3>1. k + 1 \in DOMAIN q /\ k + 1 < i + 1 /\ r[k] = q[k + 1]
      BY <1>1, <1>3, <2>2
    <3>. QED  BY <2>1, <2>2, <3>1
  <2>3. CASE j = 1
    <3>1. \A k \in DOMAIN r : k < i => ~Introduces(r[k])
      BY <1>1, <2>2, <2>3
    <3>. QED  BY <1>1, <1>3, <2>1, <2>3, <3>1 DEF Follows, r
  <2>4. CASE j # 1
    <3>1. j - 1 \in DOMAIN r /\ r[j - 1] = q[j] /\ j - 1 < i
      BY <1>1, <1>3, <2>1, <2>4
    <3>2. \A k \in DOMAIN r : j - 1 < k /\ k < i => ~Introduces(r[k])
      <4>. SUFFICES ASSUME NEW k \in DOMAIN r, j - 1 < k, k < i PROVE ~Introduces(r[k])
        OBVIOUS
      <4>1. j < k + 1
        BY <1>1, <2>1
      <4>. QED  BY <2>2, <4>1
    <3>3. \E m \in DOMAIN r : /\ m < i /\ Introduces(r[m]) /\ r[m].id = r[i].id
                              /\ \A k \in DOMAIN r : m < k /\ k < i => ~Introduces(r[k])
      BY <1>3, <2>1, <3>1, <3>2
    <3>. QED  BY <3>3 DEF Follows, r
  <2>. QED  BY <2>3, <2>4
<1>. QED  BY <1>4, <1>5 DEF Follows

(* Dispatching an announcement empties the pending slot at most of the     *)
(* offer that was announced, which no later event names.                   *)
LEMMA AdoptableTail ==
  ASSUME NEW q \in Seq(Event), q # << >>, NEW n, NEW p, Adoptable(q, n, p),
         NEW then,
         \/ then = p \/ Introduces(Head(q))
         \/ Announces(Head(q)) /\ p = Head(q).id /\ p # Null,
         Introduces(Head(q)) => then = Head(q).id
  PROVE  Adoptable(Tail(q), n, then)
<1>. DEFINE r == Tail(q)
            L == Len(q)
<1>1. /\ L \in Nat \ {0} /\ DOMAIN q = 1..L /\ DOMAIN r = 1..L - 1 /\ Head(q) = q[1]
      /\ \A k \in 1..L - 1 : r[k] = q[k + 1]
  BY TailFacts
<1>2. \A i \in DOMAIN r : Follows(q, p, i + 1) =>
        Follows(r, IF Introduces(Head(q)) THEN Head(q).id ELSE p, i)
  BY FollowsTail
<1>. HIDE DEF r, L
<1>3. ASSUME NEW i \in DOMAIN r, Announces(r[i]), r[i].id # Null
      PROVE  /\ r[i].id \in 1..n
             /\ Follows(r, then, i)
             /\ \A j \in DOMAIN r : j < i /\ Announces(r[j]) => r[j].id # r[i].id
  <2>1. i + 1 \in DOMAIN q /\ r[i] = q[i + 1] /\ 1 \in DOMAIN q /\ 1 < i + 1
    BY <1>1
  <2>2. /\ q[i + 1].id \in 1..n
        /\ Follows(q, p, i + 1)
        /\ \A j \in DOMAIN q : j < i + 1 /\ Announces(q[j]) => q[j].id # q[i + 1].id
    BY <1>3, <2>1 DEF Adoptable
  <2>3. ASSUME NEW j \in DOMAIN r, j < i, Announces(r[j]) PROVE r[j].id # r[i].id
    <3>1. j + 1 \in DOMAIN q /\ r[j] = q[j + 1] /\ j + 1 < i + 1
      BY <1>1, <2>3
    <3>. QED  BY <2>1, <2>2, <2>3, <3>1
  <2>4. Follows(r, IF Introduces(Head(q)) THEN Head(q).id ELSE p, i)
    BY <1>2, <2>2
  <2>5. Follows(r, then, i)
    <3>1. CASE Introduces(Head(q))
      BY <2>4, <3>1
    <3>2. CASE ~Introduces(Head(q)) /\ then = p
      BY <2>4, <3>2
    <3>3. CASE ~Introduces(Head(q)) /\ Announces(Head(q)) /\ p = Head(q).id
      <4>1. p # r[i].id
        BY <1>1, <2>1, <2>2, <3>3
      <4>. QED  BY <2>4, <3>3, <4>1 DEF Follows
    <3>. QED  BY <3>1, <3>2, <3>3
  <2>. QED  BY <2>1, <2>2, <2>3, <2>5
<1>4. Adoptable(r, n, then)
  BY <1>3 DEF Adoptable
<1>. QED  BY <1>4 DEF r

(* Dispatching an announcement moves it into the slot.                     *)
LEMMA CatchesTail ==
  ASSUME NEW q \in Seq(Event), q # << >>, NEW sl, NEW cur, NEW then, Catches(q, sl, cur),
         \A c \in Channels :
           then[c] = IF Announces(Head(q)) /\ Head(q).arg = c THEN Head(q).id ELSE sl[c]
  PROVE  Catches(Tail(q), then, cur)
<1>. DEFINE r == Tail(q)
            L == Len(q)
<1>1. /\ L \in Nat \ {0} /\ DOMAIN q = 1..L /\ DOMAIN r = 1..L - 1 /\ Head(q) = q[1]
      /\ \A k \in 1..L - 1 : r[k] = q[k + 1]
  BY TailFacts
<1>. HIDE DEF r, L
<1>2. \A k \in DOMAIN r : k + 1 \in DOMAIN q /\ r[k] = q[k + 1] /\ k \in Nat
  BY <1>1
<1>3. \A k \in DOMAIN q : k # 1 => k - 1 \in DOMAIN r /\ r[k - 1] = q[k]
  BY <1>1
<1>4. ASSUME NEW c \in Channels
      PROVE  \/ then[c] = cur[c] /\ \A i \in DOMAIN r : Announces(r[i]) => r[i].arg # c
             \/ \E i \in DOMAIN r : /\ Announces(r[i]) /\ r[i].arg = c /\ r[i].id = cur[c]
                                    /\ \A j \in DOMAIN r : Announces(r[j]) /\ r[j].arg = c => j <= i
  <2>1. CASE sl[c] = cur[c] /\ \A i \in DOMAIN q : Announces(q[i]) => q[i].arg # c
    <3>1. then[c] = sl[c]
      BY <1>1, <2>1
    <3>. QED  BY <1>2, <2>1, <3>1
  <2>2. CASE \E i \in DOMAIN q : /\ Announces(q[i]) /\ q[i].arg = c /\ q[i].id = cur[c]
                                 /\ \A j \in DOMAIN q : Announces(q[j]) /\ q[j].arg = c => j <= i
    <3>1. PICK i \in DOMAIN q : /\ Announces(q[i]) /\ q[i].arg = c /\ q[i].id = cur[c]
                                /\ \A j \in DOMAIN q : Announces(q[j]) /\ q[j].arg = c => j <= i
      BY <2>2
    <3>2. CASE i = 1
      <4>1. then[c] = cur[c]
        BY <1>1, <3>1, <3>2
      <4>2. ASSUME NEW k \in DOMAIN r, Announces(r[k]) PROVE r[k].arg # c
        <5>1. k + 1 \in DOMAIN q /\ r[k] = q[k + 1] /\ ~(k + 1 <= 1)
          BY <1>1
        <5>. QED  BY <3>1, <3>2, <4>2, <5>1
      <4>. QED  BY <4>1, <4>2
    <3>3. CASE i # 1
      <4>1. i - 1 \in DOMAIN r /\ r[i - 1] = q[i]
        BY <1>3, <3>3
      <4>2. ASSUME NEW k \in DOMAIN r, Announces(r[k]), r[k].arg = c PROVE k <= i - 1
        <5>1. k + 1 <= i
          BY <1>2, <3>1, <4>2
        <5>. QED  BY <1>1, <5>1
      <4>. QED  BY <3>1, <4>1, <4>2
    <3>. QED  BY <3>2, <3>3
  <2>. QED  BY <2>1, <2>2 DEF Catches
<1>5. Catches(r, then, cur)
  BY <1>4 DEF Catches
<1>. QED  BY <1>5 DEF r
-----------------------------------------------------------------------------
(* The client holds offers that were introduced, and its source is one of  *)
(* those created.                                                          *)
Known == offers \subseteq 1..Len(offered) /\ source <= created
(* Before Start nothing is in flight.                                      *)
Idle == phase = "bound" => requests = << >> /\ events = << >>
(* What the events in flight will do to the slots.                         *)
InFlight ==
  /\ Fresh(events, Len(offered), offers)
  /\ phase # "released" =>
       Adoptable(events, Len(offered), pending) /\ Catches(events, slot, current)

(* The inductive invariant of the clipboard: its types, one holder for     *)
(* each proxy, and what is in flight between client and compositor.        *)
QInv == TypeOK /\ NoProxyLost /\ Known /\ Idle /\ InFlight

(* What an event has, by its type.                                         *)
LEMMA EventFacts ==
  ASSUME NEW e \in Event
  PROVE  /\ e.type \in {"data_offer", "enter", "offer", "selection", "send", "cancelled"}
         /\ e.type = "data_offer" => e.id \in Offers
         /\ e.type = "offer" => e.arg \in Mimes
         /\ e.type = "selection" => e.id \in Offers \cup {Null} /\ e.arg \in Channels
         /\ e.type \in {"send", "cancelled"} => e.id \in Sources
BY DEF Event

(* What a request has, by its type.                                        *)
LEMMA RequestFacts ==
  ASSUME NEW r \in Request
  PROVE  /\ r.type \in {"set", "destroy"} /\ r.src \in Sources
         /\ r.type = "set" => r.chan \in Channels
BY DEF Request

(* The marks for nothing and for another client are no ids.                *)
LEMMA Ids == /\ Null \notin Offers /\ Null \notin Sources /\ Other \notin Sources /\ Other # Null
             /\ Offers \subseteq Nat /\ Sources \subseteq Nat /\ Null \in Int
BY BoundAssumption DEF Null, Other, Offers, Sources

(* Resetting the source destroys its proxy and sends one request at most.  *)
LEMMA ResetType ==
  ASSUME TypeOK
  PROVE  ResetSource.left = sources \ {source} /\ ResetSource.requests \in Seq(Request)
<1>1. CASE source = Null
  BY <1>1 DEF ResetSource, TypeOK
<1>2. CASE source # Null
  <2>1. Req("destroy", source, NoArg) \in Request
    BY <1>2 DEF TypeOK, Req, Request
  <2>2. ResetSource.requests = Append(requests, Req("destroy", source, NoArg))
    BY <1>2 DEF ResetSource
  <2>3. Append(requests, Req("destroy", source, NoArg)) \in Seq(Request)
    BY <2>1, AppendFacts DEF TypeOK
  <2>. QED  BY <2>2, <2>3 DEF ResetSource
<1>. QED  BY <1>1, <1>2

(* At first nothing is held and nothing is in flight.                      *)
LEMMA InitQInv == Init => QInv
<1>. SUFFICES ASSUME Init PROVE QInv
  OBVIOUS
<1>1. /\ << >> \in Seq(Event) /\ << >> \in Seq(Request) /\ << >> \in Seq(SUBSET Mimes)
      /\ Len(<< >>) = 0
  OBVIOUS
<1>2. TypeOK
  BY <1>1, BoundAssumption DEF Init, TypeOK
<1>3. NoProxyLost /\ Known /\ Idle
  BY DEF Init, NoProxyLost, Known, Idle, Null
<1>4. InFlight
  BY DEF Init, InFlight, Fresh, Adoptable, Catches
<1>. QED  BY <1>2, <1>3, <1>4 DEF QInv

(* The calls of the App: offering a selection,                             *)
LEMMA OfferSelectionStep ==
  ASSUME QInv, NEW c \in Channels, OfferSelection(c)
  PROVE  QInv'
<1>1. TypeOK /\ created + 1 \in Sources /\ created + 1 \in 0..MaxSources /\ source' = created + 1
  BY BoundAssumption DEF QInv, TypeOK, OfferSelection, Sources
<1>2. sources' = (sources \ {source}) \cup {source'}
  BY <1>1, ResetType DEF OfferSelection
<1>3. requests' \in Seq(Request)
  <2>1. Req("set", source', c) \in Request
    BY <1>1 DEF Req, Request
  <2>2. requests' = Append(ResetSource.requests, Req("set", source', c))
    BY DEF OfferSelection
  <2>3. ResetSource.requests \in Seq(Request)
    BY <1>1, ResetType
  <2>. QED  BY <2>1, <2>2, <2>3, AppendFacts
<1>4. TypeOK'
  BY <1>1, <1>2, <1>3 DEF TypeOK, OfferSelection, server
<1>5. NoProxyLost'
  BY <1>1, <1>2, Ids DEF QInv, NoProxyLost, OfferSelection
<1>6. Known' /\ Idle' /\ InFlight'
  BY <1>1 DEF QInv, TypeOK, Known, Idle, InFlight, OfferSelection, server
<1>. QED  BY <1>4, <1>5, <1>6 DEF QInv

(* releasing the device,                                                   *)
LEMMA ReleaseStep ==
  ASSUME QInv, Release
  PROVE  QInv'
<1>0. TypeOK
  BY DEF QInv
<1>1. sources' = {} /\ source' = Null /\ requests' \in Seq(Request)
  BY <1>0, ResetType DEF QInv, NoProxyLost, Release
<1>2. offers' = {} /\ pending' = Null /\ slot' = [d \in Channels |-> Null] /\ phase' = "released"
  BY DEF QInv, NoProxyLost, Release
<1>3. TypeOK'
  BY <1>0, <1>1, <1>2 DEF TypeOK, Release, server
<1>4. NoProxyLost'
  BY <1>1, <1>2 DEF NoProxyLost
<1>5. Known' /\ Idle'
  BY <1>0, <1>1, <1>2 DEF Known, Idle, Release, TypeOK, Null
<1>6. InFlight'
  BY <1>2 DEF QInv, InFlight, Fresh, Release, server
<1>. QED  BY <1>3, <1>4, <1>5, <1>6 DEF QInv

(* and starting it.                                                        *)
LEMMA StartStep ==
  ASSUME QInv, Start
  PROVE  QInv'
BY DEF QInv, TypeOK, NoProxyLost, Known, Idle, InFlight, Start, server
-----------------------------------------------------------------------------
(* The channel q is as InFlight wants it, when n offers were made and the  *)
(* compositor announced cur.                                               *)
Wire(q, n, cur) ==
  /\ q \in Seq(Event) /\ Fresh(q, n, offers)
  /\ phase # "released" => Adoptable(q, n, pending) /\ Catches(q, slot, cur)

(* Events that the compositor sends: one that concerns no slot,            *)
LEMMA WireQuiet ==
  ASSUME NEW q, NEW n, NEW cur, Wire(q, n, cur), NEW e \in Event, ~Introduces(e), ~Announces(e)
  PROVE  Wire(Append(q, e), n, cur)
<1>1. Append(q, e) \in Seq(Event)
  BY AppendFacts DEF Wire
<1>2. Fresh(Append(q, e), n, offers)
  BY FreshAppend DEF Wire
<1>3. phase # "released" => Adoptable(Append(q, e), n, pending)
  BY AdoptableAppend DEF Wire
<1>4. phase # "released" => Catches(Append(q, e), slot, cur)
  BY CatchesAppend DEF Wire
<1>. QED  BY <1>1, <1>2, <1>3, <1>4 DEF Wire

(* a selection that is empty,                                              *)
LEMMA WireCleared ==
  ASSUME NEW q, NEW n, NEW cur \in [Channels -> Offers \cup {Null}], Wire(q, n, cur),
         NEW c \in Channels
  PROVE  Wire(Append(q, Ev("selection", Null, c)), n, [cur EXCEPT ![c] = Null])
<1>. DEFINE e == Ev("selection", Null, c)
            then == [cur EXCEPT ![c] = Null]
<1>1. e \in Event /\ ~Introduces(e) /\ e.id = Null /\ e.arg = c /\ Announces(e)
  BY DEF Ev, Event, Introduces, Announces
<1>2. \A d \in Channels : then[d] = IF Announces(e) /\ e.arg = d THEN e.id ELSE cur[d]
  BY <1>1
<1>. HIDE DEF e, then
<1>3. Append(q, e) \in Seq(Event)
  BY <1>1, AppendFacts DEF Wire
<1>4. Fresh(Append(q, e), n, offers)
  BY <1>1, FreshAppend DEF Wire
<1>5. phase # "released" => Adoptable(Append(q, e), n, pending)
  BY <1>1, AdoptableAppend DEF Wire
<1>6. phase # "released" => Catches(Append(q, e), slot, then)
  BY <1>1, <1>2, CatchesAppend DEF Wire
<1>7. Wire(Append(q, e), n, then)
  BY <1>3, <1>4, <1>5, <1>6 DEF Wire
<1>. QED  BY <1>7 DEF e, then

(* and a new offer, for a selection or for a drag.                         *)
LEMMA WireGrown ==
  ASSUME NEW q, NEW cur, Wire(q, Len(offered), cur), NEW M \in SUBSET Mimes, NEW last \in Event,
         Len(offered) \in Nat, Len(offered) < MaxOffers, offers \subseteq 1..Len(offered),
         ~Introduces(last), Announces(last) => last.id = NewOffer,
         NEW then,
         \A c \in Channels : then[c] = IF Announces(last) /\ last.arg = c THEN last.id ELSE cur[c]
  PROVE  Wire(q \o Introduction(M, last), Len(offered) + 1, then)
<1>. DEFINE r == q \o Introduction(M, last)
            n == Len(offered)
<1>1. r \in Seq(Event) /\ Grown(q, r, n, last)
  BY Introduced DEF Wire
<1>2. n \in Nat /\ offers \in SUBSET 1..n /\ (Announces(last) => last.id = n + 1)
  BY DEF NewOffer
<1>. HIDE DEF r, n
<1>3. Fresh(r, n + 1, offers)
  BY <1>1, <1>2, FreshGrown DEF Wire, n
<1>4. phase # "released" => Adoptable(r, n + 1, pending)
  BY <1>1, <1>2, AdoptableGrown DEF Wire, n
<1>5. phase # "released" => Catches(r, slot, then)
  BY <1>1, <1>2, CatchesGrown DEF Wire
<1>6. Wire(r, n + 1, then)
  BY <1>1, <1>3, <1>4, <1>5 DEF Wire
<1>. QED  BY <1>6 DEF r, n

(* What the compositor does to its offers and to the channel in any of its *)
(* steps.                                                                  *)
Posted ==
  /\ offered' \in Seq(SUBSET Mimes) /\ Len(offered') <= MaxOffers /\ Len(offered) <= Len(offered')
  /\ current' \in [Channels -> Offers \cup {Null}]
  /\ Wire(events', Len(offered'), current')

(* That is all the invariant needs of such a step.                         *)
LEMMA PostedStep ==
  ASSUME QInv, Posted, UNCHANGED client, phase # "bound", call' = {},
         requests' \in Seq(Request), owner' \in [Channels -> Sources \cup {Null, Other}]
  PROVE  QInv'
<1>1. TypeOK'
  BY DEF QInv, TypeOK, Posted, Wire, client
<1>2. NoProxyLost'
  BY DEF QInv, NoProxyLost, client
<1>3. Known' /\ Idle'
  <2>1. Len(offered) \in Nat /\ Len(offered') \in Nat
    BY DEF QInv, TypeOK, Posted
  <2>. QED  BY <2>1 DEF QInv, Known, Idle, Posted, client
<1>4. InFlight'
  BY DEF InFlight, Posted, Wire, client
<1>. QED  BY <1>1, <1>2, <1>3, <1>4 DEF QInv

(* The channel as it is.                                                   *)
LEMMA WireNow ==
  ASSUME QInv
  PROVE  /\ Wire(events, Len(offered), current)
         /\ Len(offered) \in Nat /\ Len(offered) <= MaxOffers /\ offers \subseteq 1..Len(offered)
         /\ current \in [Channels -> Offers \cup {Null}] /\ offered \in Seq(SUBSET Mimes)
BY DEF QInv, TypeOK, InFlight, Wire, Known

(* The owner that loses the selection is told first,                       *)
LEMMA CancelledWire ==
  ASSUME QInv, NEW prev
  PROVE  Wire(CancelledTo(prev), Len(offered), current)
<1>1. CASE prev \in Sources
  <2>1. LET e == Ev("cancelled", prev, NoArg) IN e \in Event /\ ~Introduces(e) /\ ~Announces(e)
    BY <1>1 DEF Ev, Event, Introduces, Announces
  <2>. QED  BY <1>1, <2>1, WireNow, WireQuiet DEF CancelledTo
<1>2. CASE prev \notin Sources
  BY <1>2, WireNow DEF CancelledTo
<1>. QED  BY <1>1, <1>2

(* and the selection is then announced, or not.                            *)
LEMMA AnnouncePosted ==
  ASSUME QInv, NEW evs, Wire(evs, Len(offered), current), NEW c \in Channels,
         NEW M \in SUBSET Mimes, Announce(evs, c, M)
  PROVE  Posted
<1>1. CASE events' = evs /\ UNCHANGED <<offered, current>>
  BY <1>1, WireNow DEF Posted
<1>2. CASE /\ Len(offered) < MaxOffers
           /\ events' = evs \o Introduction(M, Ev("selection", NewOffer, c))
           /\ offered' = Append(offered, M)
           /\ current' = [current EXCEPT ![c] = NewOffer]
  <2>. DEFINE e == Ev("selection", NewOffer, c)
  <2>1. NewOffer \in Offers
    BY <1>2, WireNow, BoundAssumption DEF NewOffer, Offers
  <2>2. e \in Event /\ ~Introduces(e) /\ Announces(e) /\ e.id = NewOffer /\ e.arg = c
    BY <2>1 DEF Ev, Event, Introduces, Announces
  <2>3. \A d \in Channels : current'[d] = IF Announces(e) /\ e.arg = d THEN e.id ELSE current[d]
    BY <1>2, <2>2, WireNow
  <2>. HIDE DEF e
  <2>4. Wire(evs \o Introduction(M, e), Len(offered) + 1, current')
    BY <1>2, <2>2, <2>3, WireGrown, WireNow
  <2>5. offered' \in Seq(SUBSET Mimes) /\ Len(offered') = Len(offered) + 1 /\ Len(offered) \in Nat
    BY <1>2, WireNow, AppendFacts
  <2>6. current' \in [Channels -> Offers \cup {Null}]
    BY <1>2, <2>1, WireNow
  <2>. QED  BY <1>2, <2>4, <2>5, <2>6, BoundAssumption DEF Posted, e
<1>. QED  BY <1>1, <1>2 DEF Announce

(* The compositor takes a request.                                         *)
LEMMA TakeRequestStep ==
  ASSUME QInv, TakeRequest
  PROVE  QInv'
<1>. DEFINE r == Head(requests)
<1>1. requests \in Seq(Request) /\ requests # << >> /\ requests' = Tail(requests)
  BY DEF QInv, TypeOK, TakeRequest
<1>2. requests' \in Seq(Request) /\ r \in Request
  BY <1>1, TailFacts
<1>3. phase # "bound" /\ call' = {} /\ UNCHANGED client /\ (TakeSet(r) \/ TakeDestroy(r))
  BY DEF QInv, Idle, TakeRequest
<1>4. owner \in [Channels -> Sources \cup {Null, Other}]
  BY DEF QInv, TypeOK
<1>. HIDE DEF r
<1>5. CASE TakeSet(r)
  <2>1. r.type = "set" /\ r.chan \in Channels /\ r.src \in Sources
    BY <1>2, <1>5, RequestFacts DEF TakeSet
  <2>2. owner' \in [Channels -> Sources \cup {Null, Other}]
    BY <1>4, <1>5, <2>1 DEF TakeSet
  <2>3. Posted
    <3>1. Announce(CancelledTo(owner[r.chan]), r.chan, Mimes)
      BY <1>5 DEF TakeSet
    <3>2. Wire(CancelledTo(owner[r.chan]), Len(offered), current)
      BY CancelledWire
    <3>3. Mimes \in SUBSET Mimes
      OBVIOUS
    <3>. QED  BY <2>1, <3>1, <3>2, <3>3, AnnouncePosted
  <2>. QED  BY <1>2, <1>3, <2>2, <2>3, PostedStep
<1>6. CASE TakeDestroy(r)
  <2>1. owner' \in [Channels -> Sources \cup {Null, Other}]
    BY <1>4, <1>6 DEF TakeDestroy
  <2>2. Posted
    <3>1. CASE UNCHANGED <<events, current>>
      BY <1>6, <3>1, WireNow DEF TakeDestroy, Posted
    <3>2. CASE \E c \in Channels : /\ events' = Append(events, Ev("selection", Null, c))
                                   /\ current' = [current EXCEPT ![c] = Null]
      <4>1. PICK c \in Channels : /\ events' = Append(events, Ev("selection", Null, c))
                                  /\ current' = [current EXCEPT ![c] = Null]
        BY <3>2
      <4>2. Wire(events', Len(offered), current')
        BY <4>1, WireNow, WireCleared
      <4>3. offered' = offered
        BY <1>6 DEF TakeDestroy
      <4>4. current' \in [Channels -> Offers \cup {Null}]
        BY <4>1, WireNow
      <4>. QED  BY <4>2, <4>3, <4>4, WireNow DEF Posted
    <3>. QED  BY <1>6, <3>1, <3>2 DEF TakeDestroy
  <2>. QED  BY <1>2, <1>3, <2>1, <2>2, PostedStep
<1>. QED  BY <1>3, <1>5, <1>6

(* Other clients take the selection, clear it, paste from it or drag.      *)
LEMMA OtherStep ==
  ASSUME QInv,
         \/ \E c \in Channels : OtherClears(c) \/ Paste(c)
         \/ \E c \in Channels, M \in SUBSET Mimes : OtherTakes(c, M)
         \/ \E M \in SUBSET Mimes : DragEnters(M)
  PROVE  QInv'
<1>1. owner \in [Channels -> Sources \cup {Null, Other}] /\ requests \in Seq(Request)
  BY DEF QInv, TypeOK
<1>2. ASSUME NEW c \in Channels, OtherClears(c) PROVE QInv'
  <2>1. Wire(events', Len(offered), current') /\ offered' = offered
    BY <1>2, WireNow, WireCleared DEF OtherClears
  <2>2. Posted
    BY <1>2, <2>1, WireNow DEF OtherClears, Posted
  <2>. QED  BY <1>1, <1>2, <2>2, PostedStep DEF OtherClears, Room
<1>3. ASSUME NEW c \in Channels, Paste(c) PROVE QInv'
  <2>. DEFINE e == Ev("send", owner[c], NoArg)
  <2>1. e \in Event /\ ~Introduces(e) /\ ~Announces(e)
    BY <1>3 DEF Ev, Event, Introduces, Announces, Paste
  <2>2. events' = Append(events, e)
    BY <1>3 DEF Paste
  <2>. HIDE DEF e
  <2>3. Wire(events', Len(offered), current)
    BY <2>1, <2>2, WireNow, WireQuiet
  <2>4. Posted
    BY <1>3, <2>3, WireNow DEF Paste, Posted, server
  <2>. QED  BY <1>1, <1>3, <2>4, PostedStep DEF Paste, Room, server
<1>4. ASSUME NEW c \in Channels, NEW M \in SUBSET Mimes, OtherTakes(c, M) PROVE QInv'
  <2>1. Wire(CancelledTo(owner[c]), Len(offered), current)
    BY CancelledWire
  <2>2. Posted
    BY <1>4, <2>1, AnnouncePosted DEF OtherTakes
  <2>. QED  BY <1>1, <1>4, <2>2, PostedStep DEF OtherTakes, Room
<1>5. ASSUME NEW M \in SUBSET Mimes, DragEnters(M) PROVE QInv'
  <2>. DEFINE e == Ev("enter", NewOffer, NoArg)
  <2>1. NewOffer \in Offers
    BY <1>5, WireNow, BoundAssumption DEF NewOffer, Offers, DragEnters
  <2>2. e \in Event /\ ~Introduces(e) /\ ~Announces(e)
    BY <2>1 DEF Ev, Event, Introduces, Announces
  <2>3. events' = events \o Introduction(M, e) /\ offered' = Append(offered, M)
        /\ current' = current /\ Len(offered) < MaxOffers
    BY <1>5 DEF DragEnters
  <2>. HIDE DEF e
  <2>4. Wire(events \o Introduction(M, e), Len(offered) + 1, current)
    BY <2>2, <2>3, WireGrown, WireNow
  <2>5. offered' \in Seq(SUBSET Mimes) /\ Len(offered') = Len(offered) + 1 /\ Len(offered) \in Nat
    BY <2>3, WireNow, AppendFacts
  <2>6. Posted
    BY <2>3, <2>4, <2>5, WireNow, BoundAssumption DEF Posted
  <2>. QED  BY <1>1, <1>5, <2>6, PostedStep DEF DragEnters, Room
<1>. QED  BY <1>2, <1>3, <1>4, <1>5
-----------------------------------------------------------------------------
(* The client dispatches an event. An offer that arrives is younger than   *)
(* those held, so that its proxy is new; one that is announced is the      *)
(* pending one, so that no announcement is ignored.                        *)
LEMMA DispatchStep ==
  ASSUME QInv, Dispatch
  PROVE  QInv'
<1>. DEFINE e == Head(events)
            n == Len(offered)
<1>0. TypeOK /\ NoProxyLost /\ Known /\ InFlight /\ n \in Nat
  BY DEF QInv, TypeOK
<1>1. events \in Seq(Event) /\ events # << >> /\ events' = Tail(events) /\ Handle(e)
      /\ UNCHANGED <<phase, created, owner, current, offered>>
  BY DEF QInv, TypeOK, Dispatch, server
<1>2. events' \in Seq(Event) /\ e \in Event
  BY <1>1, TailFacts
<1>3. phase # "bound"
  BY <1>1 DEF QInv, Idle
<1>4. call' \subseteq {"send", "cancelled"} \X Sources
  <2>1. call' = IF e.type \in {"send", "cancelled"} /\ ~Dropped(e) THEN {<<e.type, e.id>>} ELSE {}
    BY DEF Dispatch
  <2>2. e.type \in {"send", "cancelled"} => e.id \in Sources
    BY <1>2, EventFacts
  <2>. HIDE DEF e
  <2>. QED  BY <2>1, <2>2
<1>5. Fresh(events, n, offers)
  BY <1>0 DEF InFlight
<1>6. phase # "released" => Adoptable(events, n, pending) /\ Catches(events, slot, current)
  BY <1>0 DEF InFlight
<1>. HIDE DEF e, n
(* Events that leave the offers alone. *)
<1>7. ASSUME UNCHANGED <<pending, slot, offers>>,
             ~Introduces(e) \/ phase = "released", ~Announces(e) \/ phase = "released"
      PROVE  InFlight'
  <2>1. Fresh(events', n, offers)
    BY <1>1, <1>5, FreshTail DEF e
  <2>2. phase # "released" => Adoptable(events', n, pending)
    BY <1>1, <1>6, <1>7, AdoptableTail DEF e
  <2>3. ASSUME phase # "released" PROVE Catches(events', slot, current)
    <3>1. \A c \in Channels : slot[c] = IF Announces(e) /\ e.arg = c THEN e.id ELSE slot[c]
      BY <1>7, <2>3
    <3>. QED  BY <1>1, <1>6, <2>3, <3>1, CatchesTail DEF e
  <2>. QED  BY <1>1, <1>7, <2>1, <2>2, <2>3 DEF InFlight, n
<1>8. CASE Ignore /\ (Dropped(e) \/ e.type = "send")
  <2>1. ~Introduces(e) \/ phase = "released"
    BY <1>3, <1>8, <1>0 DEF Introduces, Dropped, TypeOK
  <2>2. ~Announces(e) \/ phase = "released"
    BY <1>3, <1>8, <1>0 DEF Announces, Dropped, TypeOK
  <2>3. InFlight'
    BY <1>7, <1>8, <2>1, <2>2 DEF Ignore
  <2>. QED  BY <1>0, <1>1, <1>2, <1>3, <1>4, <1>8, <2>3
            DEF QInv, TypeOK, NoProxyLost, Known, Idle, Ignore
<1>9. CASE e.type = "data_offer" /\ IntroduceOffer(e.id)
  <2>1. /\ e.id \in Offers /\ e.id \in 1..n /\ Introduces(e) /\ ~Announces(e)
        /\ \A o \in offers : o < e.id
    <3>1. e.id \in Offers /\ Introduces(e) /\ ~Announces(e)
      BY <1>2, <1>9, EventFacts DEF Introduces, Announces
    <3>2. e = events[1] /\ 1 \in DOMAIN events
      BY <1>1, TailFacts DEF e
    <3>. QED  BY <1>5, <3>1, <3>2 DEF Fresh
  <2>2. offers' = (offers \ {pending}) \cup {e.id} /\ pending' = e.id
        /\ UNCHANGED <<slot, mimes, source, sources, told, believes, requests>>
    BY <1>9 DEF IntroduceOffer
  <2>3. TypeOK'
    BY <1>0, <1>1, <1>2, <1>4, <2>1, <2>2 DEF TypeOK
  <2>4. NoProxyLost'
    <3>1. offers \subseteq Int /\ e.id \in Int
      BY <1>0, <2>1, Ids DEF TypeOK
    <3>2. e.id \notin offers
      BY <2>1, <3>1
    <3>. QED  BY <1>0, <2>1, <2>2, <3>2, Ids DEF NoProxyLost
  <2>5. Known' /\ Idle'
    BY <1>0, <1>1, <1>3, <2>1, <2>2 DEF Known, Idle, n
  <2>6. InFlight'
    <3>1. Fresh(events', n, offers')
      BY <1>1, <1>5, <2>1, <2>2, FreshTail DEF e
    <3>2. phase # "released" => Adoptable(events', n, pending')
      BY <1>1, <1>6, <2>1, <2>2, AdoptableTail DEF e
    <3>3. ASSUME phase # "released" PROVE Catches(events', slot, current)
      BY <1>1, <1>6, <2>1, <3>3, CatchesTail DEF e
    <3>. QED  BY <1>1, <2>2, <3>1, <3>2, <3>3 DEF InFlight, n
  <2>. QED  BY <2>3, <2>4, <2>5, <2>6 DEF QInv
<1>10. CASE e.type = "offer" /\ OnOffer(e.arg)
  <2>1. InFlight'
    BY <1>7, <1>10 DEF OnOffer, Introduces, Announces
  <2>2. e.arg \in Mimes
    BY <1>2, <1>10, EventFacts
  <2>. QED  BY <1>0, <1>1, <1>2, <1>3, <1>4, <1>10, <2>1, <2>2
            DEF QInv, TypeOK, NoProxyLost, Known, Idle, OnOffer
<1>11. CASE e.type = "selection" /\ ~Dropped(e) /\ CommitOffer(e.id, e.arg)
  <2>. DEFINE c == e.arg
  <2>1. e.id \in Offers \cup {Null} /\ c \in Channels /\ Announces(e) /\ ~Introduces(e)
    BY <1>2, <1>11, EventFacts DEF Introduces, Announces
  <2>2. phase = "started"
    BY <1>11 DEF Dropped
  <2>3. e.id # Null => pending = e.id
    <3>1. e = events[1] /\ 1 \in DOMAIN events /\ DOMAIN events \subseteq Nat \ {0}
      BY <1>1, TailFacts DEF e
    <3>2. e.id # Null => Follows(events, pending, 1)
      BY <1>6, <2>1, <2>2, <3>1 DEF Adoptable
    <3>3. \A j \in DOMAIN events : ~(j < 1)
      BY <3>1
    <3>. QED  BY <3>1, <3>2, <3>3 DEF Follows
  <2>4. CASE e.id = Null
    <3>1. /\ told' = [told EXCEPT ![c] = {}] /\ offers' = offers \ {slot[c]}
          /\ slot' = [slot EXCEPT ![c] = Null]
          /\ UNCHANGED <<pending, mimes, source, sources, believes, requests>>
      BY <1>11, <2>4 DEF CommitOffer, ClearSlot
    <3>. HIDE DEF c
    <3>2. TypeOK'
      BY <1>0, <1>1, <1>2, <1>4, <2>1, <3>1 DEF TypeOK
    <3>3. NoProxyLost'
      BY <1>0, <2>1, <3>1 DEF NoProxyLost, TypeOK
    <3>4. Known' /\ Idle'
      BY <1>0, <1>1, <1>3, <3>1 DEF Known, Idle
    <3>5. InFlight'
      <4>1. Fresh(events', n, offers')
        BY <1>1, <1>5, <3>1, FreshTail
      <4>2. Adoptable(events', n, pending)
        BY <1>1, <1>6, <2>1, <2>2, AdoptableTail DEF e
      <4>3. \A d \in Channels : slot'[d] = IF Announces(e) /\ e.arg = d THEN e.id ELSE slot[d]
        BY <1>0, <2>1, <2>4, <3>1 DEF TypeOK, c
      <4>4. Catches(events', slot', current)
        BY <1>1, <1>6, <2>2, <4>3, CatchesTail DEF e
      <4>. QED  BY <1>1, <3>1, <4>1, <4>2, <4>4 DEF InFlight, n
    <3>. QED  BY <3>2, <3>3, <3>4, <3>5 DEF QInv
  <2>5. CASE e.id # Null
    <3>1. /\ told' = [told EXCEPT ![c] = mimes] /\ offers' = offers \ {slot[c]}
          /\ slot' = [slot EXCEPT ![c] = pending] /\ pending' = Null
          /\ UNCHANGED <<mimes, source, sources, believes, requests>>
      BY <1>11, <2>3, <2>5 DEF CommitOffer, AdoptPending
    <3>. HIDE DEF c
    <3>2. TypeOK'
      BY <1>0, <1>1, <1>2, <1>4, <2>1, <3>1 DEF TypeOK
    <3>3. NoProxyLost'
      BY <1>0, <2>1, <3>1 DEF NoProxyLost, TypeOK
    <3>4. Known' /\ Idle'
      BY <1>0, <1>1, <1>3, <3>1 DEF Known, Idle
    <3>5. InFlight'
      <4>1. Fresh(events', n, offers')
        BY <1>1, <1>5, <3>1, FreshTail
      <4>2. Adoptable(events', n, pending')
        BY <1>1, <1>6, <2>1, <2>2, <2>3, <2>5, AdoptableTail DEF e
      <4>3. \A d \in Channels : slot'[d] = IF Announces(e) /\ e.arg = d THEN e.id ELSE slot[d]
        BY <1>0, <2>1, <2>3, <2>5, <3>1 DEF TypeOK, c
      <4>4. Catches(events', slot', current)
        BY <1>1, <1>6, <2>2, <4>3, CatchesTail DEF e
      <4>. QED  BY <1>1, <3>1, <4>1, <4>2, <4>4 DEF InFlight, n
    <3>. QED  BY <3>2, <3>3, <3>4, <3>5 DEF QInv
  <2>. QED  BY <2>4, <2>5
<1>12. CASE e.type = "cancelled" /\ ~Dropped(e) /\ SourceCancelled(e.id)
  <2>1. InFlight'
    BY <1>7, <1>12 DEF SourceCancelled, Introduces, Announces
  <2>2. source' = Null /\ sources' = {} /\ requests' \in Seq(Request)
    BY <1>0, <1>12, ResetType DEF SourceCancelled, NoProxyLost
  <2>3. believes' \in [Channels -> Sources \cup {Null}]
    BY <1>0, <1>12 DEF SourceCancelled, TypeOK
  <2>4. UNCHANGED <<pending, slot, mimes, offers, told>>
    BY <1>12 DEF SourceCancelled
  <2>5. TypeOK'
    BY <1>0, <1>1, <1>2, <1>4, <2>2, <2>3, <2>4 DEF TypeOK
  <2>6. NoProxyLost'
    BY <1>0, <2>2, <2>4 DEF NoProxyLost
  <2>7. Known' /\ Idle'
    BY <1>0, <1>1, <1>3, <2>2, <2>4 DEF Known, Idle, TypeOK, Null
  <2>. QED  BY <2>1, <2>5, <2>6, <2>7 DEF QInv
<1>. QED  BY <1>1, <1>8, <1>9, <1>10, <1>11, <1>12 DEF Handle

(* Every step keeps the invariant.                                         *)
LEMMA NextQInv ==
  ASSUME QInv, [Next]_vars
  PROVE  QInv'
<1>1. CASE UNCHANGED vars
  BY <1>1 DEF vars, client, server, QInv, TypeOK, NoProxyLost, Known, Idle, InFlight
<1>2. CASE Start \/ Release \/ Dispatch \/ TakeRequest
  BY <1>2, StartStep, ReleaseStep, DispatchStep, TakeRequestStep
<1>3. ASSUME NEW c \in Channels, OfferSelection(c) PROVE QInv'
  BY <1>3, OfferSelectionStep
<1>4. CASE \/ \E c \in Channels : OtherClears(c) \/ Paste(c)
           \/ \E c \in Channels, M \in SUBSET Mimes : OtherTakes(c, M)
           \/ \E M \in SUBSET Mimes : DragEnters(M)
  BY <1>4, OtherStep
<1>. QED  BY <1>1, <1>2, <1>3, <1>4 DEF Next

(* So it holds always.                                                     *)
LEMMA QInvariant == Spec => []QInv
<1>1. QInv /\ [Next]_vars => QInv'
  BY NextQInv
<1>. QED  BY <1>1, InitQInv, PTL DEF Spec

(* Each variable keeps its type: in particular the channels carry well-    *)
(* formed requests and events, of offers and sources that were created.    *)
THEOREM DataDeviceTypeOK == Spec => []TypeOK
BY QInvariant, PTL DEF QInv

(* Every proxy that is not destroyed is held in exactly one place          *)
(* (pending_, offer_, primary_offer_ or source_), so that Release leaves   *)
(* none behind: for any number of offers, sources and types, with one      *)
(* selection or two.                                                       *)
THEOREM EveryProxyHeld == Spec => []NoProxyLost
BY QInvariant, PTL DEF QInv

(* When every event is dispatched, the slots hold the offers that were     *)
(* announced last, whatever drags and replaced offers went through the one *)
(* pending slot.                                                           *)
THEOREM LastAnnouncedHeld == Spec => []HoldsLastAnnounced
<1>1. QInv => HoldsLastAnnounced
  <2>. SUFFICES ASSUME QInv, phase = "started", events = << >> PROVE slot = current
    BY DEF HoldsLastAnnounced
  <2>1. Catches(events, slot, current) /\ DOMAIN events = {}
    BY DEF QInv, InFlight
  <2>2. \A c \in Channels : slot[c] = current[c]
    BY <2>1 DEF Catches
  <2>. QED  BY <2>2 DEF QInv, TypeOK
<1>. QED  BY <1>1, QInvariant, PTL
-----------------------------------------------------------------------------
(* The source that is held is one that the App believes to offer.          *)
Believed == source # Null => \E c \in Channels : believes[c] = source

(* It stays so: a new source is believed at once, and a belief in the      *)
(* source that is held ends only together with it.                         *)
LEMMA BelievedStep ==
  ASSUME QInv, Believed, [Next]_vars
  PROVE  Believed'
<1>. USE DEF Believed
<1>1. CASE UNCHANGED vars
  BY <1>1 DEF vars, client
<1>2. CASE Start
  BY <1>2 DEF Start
<1>3. CASE Release
  BY <1>3 DEF Release
<1>4. CASE Dispatch
  <2>1. CASE source' = Null
    BY <2>1
  <2>2. CASE UNCHANGED <<source, believes>>
    BY <2>2
  <2>. QED
    BY <1>4, <2>1, <2>2
    DEF Dispatch, Handle, Ignore, IntroduceOffer, OnOffer, CommitOffer, ClearSlot, AdoptPending,
        SourceCancelled
<1>5. CASE TakeRequest
  BY <1>5 DEF TakeRequest, client
<1>6. ASSUME NEW c \in Channels, OfferSelection(c) PROVE Believed'
  BY <1>6 DEF OfferSelection, QInv, TypeOK
<1>7. ASSUME NEW c \in Channels, OtherClears(c) \/ Paste(c) PROVE Believed'
  BY <1>7 DEF OtherClears, Paste, client
<1>8. ASSUME NEW c \in Channels, NEW M \in SUBSET Mimes, OtherTakes(c, M) PROVE Believed'
  BY <1>8 DEF OtherTakes, client
<1>9. ASSUME NEW M \in SUBSET Mimes, DragEnters(M) PROVE Believed'
  BY <1>9 DEF DragEnters, client
<1>. QED  BY <1>1, <1>2, <1>3, <1>4, <1>5, <1>6, <1>7, <1>8, <1>9 DEF Next

(* The App hears only of sources it believes to offer: a send or a         *)
(* cancelled that was on its way when the App offered something else never *)
(* reaches it.                                                             *)
THEOREM HearsOfOwnSources == Spec => OnlyOwnSources
<1>1. QInv /\ Believed /\ [Next]_vars =>
        [\A k \in call' : \E c \in Channels : believes[c] = k[2]]_vars
  <2>. SUFFICES ASSUME QInv, Believed, Next
                PROVE  \A k \in call' : \E c \in Channels : believes[c] = k[2]
    OBVIOUS
  <2>1. CASE Dispatch
    <3>. SUFFICES ASSUME NEW k \in call' PROVE \E c \in Channels : believes[c] = k[2]
      OBVIOUS
    <3>. DEFINE e == Head(events)
    <3>1. k = <<e.type, e.id>> /\ e.type \in {"send", "cancelled"} /\ ~Dropped(e)
      BY <2>1 DEF Dispatch
    <3>. HIDE DEF e
    <3>2. e.id \in sources
      BY <3>1 DEF Dropped
    <3>3. e.id = source /\ source # Null
      BY <3>2 DEF QInv, NoProxyLost
    <3>. QED  BY <3>1, <3>3 DEF Believed
  <2>2. CASE ~Dispatch
    <3>1. call' = {}
      BY <2>2 DEF Next, Start, Release, TakeRequest, OfferSelection, OtherClears, Paste, OtherTakes,
                  DragEnters
    <3>. QED  BY <3>1
  <2>. QED  BY <2>1, <2>2
<1>2. Init => Believed
  BY DEF Init, Believed
<1>3. QInv /\ Believed /\ [Next]_vars => Believed'
  BY BelievedStep
<1>. QED  BY <1>1, <1>2, <1>3, QInvariant, PTL DEF Spec, OnlyOwnSources
-----------------------------------------------------------------------------
(* Requests in flight are for sources that were created, and none destroys *)
(* the source that is held.                                                *)
Requested ==
  \A i \in DOMAIN requests :
    requests[i].src <= created /\ (requests[i].type = "destroy" => requests[i].src # source)

(* A request that sets s as the selection, and an event that takes it      *)
(* away.                                                                   *)
Claims(r, s) == r.type = "set" /\ r.src = s
Takes(e, s) == e.type = "cancelled" /\ e.id = s

(* The source s has the selection, or will have it, or is being told that  *)
(* it lost it.                                                             *)
Bid(s) ==
  \/ owner["regular"] = s
  \/ \E i \in DOMAIN requests : Claims(requests[i], s)
  \/ \E i \in DOMAIN events : Takes(events[i], s)

(* With one selection, the App believes to offer what source_ holds, and   *)
(* that has the selection or is on its way to it or to being told.         *)
Standing ==
  /\ believes["regular"] = source
  /\ source # Null => Bid(source)

(* Resetting the source: the request that destroys it is for none that is  *)
(* held afterwards.                                                        *)
LEMMA ResetRequests ==
  ASSUME TypeOK, Known, Requested
  PROVE  \A i \in DOMAIN ResetSource.requests : ResetSource.requests[i].src <= created
<1>1. CASE source = Null
  BY <1>1 DEF ResetSource, Requested
<1>2. CASE source # Null
  <2>. DEFINE r == Req("destroy", source, NoArg)
              q == Append(requests, r)
  <2>1. r \in Request /\ r.src = source
    BY <1>2 DEF TypeOK, Req, Request
  <2>2. /\ DOMAIN requests = 1..Len(requests) /\ DOMAIN q = 1..Len(requests) + 1
        /\ Len(requests) \in Nat
        /\ \A i \in 1..Len(requests) : q[i] = requests[i]
        /\ q[Len(requests) + 1] = r
    BY <2>1, AppendFacts DEF TypeOK
  <2>3. ResetSource.requests = q
    BY <1>2 DEF ResetSource
  <2>. HIDE DEF q, r
  <2>. QED  BY <2>1, <2>2, <2>3 DEF Requested, Known
<1>. QED  BY <1>1, <1>2

(* So it is when the source is dropped and none takes its place,           *)
LEMMA DroppedSource ==
  ASSUME TypeOK, Known, Requested, source' = Null, requests' = ResetSource.requests,
         created' = created
  PROVE  Requested'
<1>1. requests' \in Seq(Request)
  BY ResetType
<1>2. \A i \in DOMAIN requests' : requests'[i] \in Request
  BY <1>1
<1>3. \A i \in DOMAIN requests' : requests'[i].src # Null
  BY <1>2, RequestFacts, Ids
<1>. QED  BY <1>3, ResetRequests DEF Requested

(* and when a new one does, whose request for the selection is then on its *)
(* way.                                                                    *)
LEMMA NewSource ==
  ASSUME QInv, Requested, NEW c \in Channels, OfferSelection(c)
  PROVE  /\ Requested'
         /\ \E i \in DOMAIN requests' : Claims(requests'[i], source')
<1>. DEFINE q == ResetSource.requests
            r == Req("set", source', c)
            L == Len(q)
<1>1. source' = created + 1 /\ created' = created + 1 /\ created \in Nat /\ source' \in Sources
  BY BoundAssumption DEF OfferSelection, QInv, TypeOK, Sources
<1>2. r \in Request /\ r.src = source' /\ r.type = "set"
  BY <1>1 DEF Req, Request
<1>3. q \in Seq(Request) /\ \A i \in DOMAIN q : q[i] \in Request /\ q[i].src <= created
  BY ResetType, ResetRequests DEF QInv
<1>4. \A i \in DOMAIN q : q[i].src \in Nat
  BY <1>3, RequestFacts, Ids
<1>5. requests' = Append(q, r)
  BY DEF OfferSelection
<1>. HIDE DEF q, r, L
<1>6. /\ DOMAIN q = 1..L /\ DOMAIN requests' = 1..L + 1 /\ L \in Nat
      /\ \A i \in 1..L : requests'[i] = q[i]
      /\ requests'[L + 1] = r
  BY <1>2, <1>3, <1>5, AppendFacts DEF L
<1>7. Requested'
  BY <1>1, <1>2, <1>3, <1>4, <1>6 DEF Requested
<1>8. L + 1 \in DOMAIN requests' /\ Claims(requests'[L + 1], source')
  BY <1>2, <1>6 DEF Claims
<1>. QED  BY <1>7, <1>8

(* r has the elements of q at the same places.                             *)
Extends(r, q) == \A i \in DOMAIN q : i \in DOMAIN r /\ r[i] = q[i]

(* What the compositor sends is behind what it sent before: one event,     *)
LEMMA Appended ==
  ASSUME NEW q \in Seq(Event), NEW e \in Event
  PROVE  Extends(Append(q, e), q) /\ \E i \in DOMAIN Append(q, e) : Append(q, e)[i] = e
<1>1. /\ Len(q) \in Nat /\ DOMAIN q = 1..Len(q) /\ DOMAIN Append(q, e) = 1..Len(q) + 1
      /\ \A i \in 1..Len(q) : Append(q, e)[i] = q[i]
      /\ Append(q, e)[Len(q) + 1] = e
  BY AppendFacts
<1>2. Len(q) + 1 \in DOMAIN Append(q, e)
  BY <1>1
<1>. QED  BY <1>1, <1>2 DEF Extends

(* the event that tells an owner,                                          *)
LEMMA CancelledExtends ==
  ASSUME QInv, NEW prev
  PROVE  /\ CancelledTo(prev) \in Seq(Event) /\ Extends(CancelledTo(prev), events)
         /\ prev \in Sources =>
              \E i \in DOMAIN CancelledTo(prev) : Takes(CancelledTo(prev)[i], prev)
<1>0. CancelledTo(prev) \in Seq(Event) /\ events \in Seq(Event)
  BY CancelledWire DEF Wire, QInv, TypeOK
<1>1. CASE prev \in Sources
  <2>. DEFINE e == Ev("cancelled", prev, NoArg)
  <2>1. e \in Event /\ Takes(e, prev)
    BY <1>1 DEF Ev, Event, Takes
  <2>2. CancelledTo(prev) = Append(events, e)
    BY <1>1 DEF CancelledTo
  <2>. HIDE DEF e
  <2>. QED  BY <1>0, <2>1, <2>2, Appended
<1>2. CASE prev \notin Sources
  BY <1>0, <1>2 DEF CancelledTo, Extends
<1>. QED  BY <1>1, <1>2

(* and an announcement.                                                    *)
LEMMA AnnounceExtends ==
  ASSUME QInv, NEW evs \in Seq(Event), NEW c \in Channels, NEW M \in SUBSET Mimes,
         Announce(evs, c, M)
  PROVE  Extends(events', evs)
<1>1. CASE events' = evs
  BY <1>1 DEF Extends
<1>2. CASE /\ Len(offered) < MaxOffers
           /\ events' = evs \o Introduction(M, Ev("selection", NewOffer, c))
  <2>. DEFINE e == Ev("selection", NewOffer, c)
  <2>1. NewOffer \in Offers /\ Len(offered) \in Nat
    BY <1>2, WireNow, BoundAssumption DEF NewOffer, Offers
  <2>2. e \in Event
    BY <2>1 DEF Ev, Event
  <2>. HIDE DEF e
  <2>3. Grown(evs, evs \o Introduction(M, e), Len(offered), e)
    BY <1>2, <2>1, <2>2, Introduced
  <2>4. Grown(evs, events', Len(offered), e)
    BY <1>2, <2>3 DEF e
  <2>. QED  BY <2>4 DEF Grown, Extends
<1>. QED  BY <1>1, <1>2 DEF Announce

(* So a source of ours that loses the selection is being told.             *)
LEMMA OwnerTold ==
  ASSUME QInv, Channels = {"regular"},
         NEW c \in Channels, NEW M \in SUBSET Mimes, NEW s \in Sources,
         Announce(CancelledTo(owner[c]), c, M), Bid(s)
  PROVE  \/ \E i \in DOMAIN events' : Takes(events'[i], s)
         \/ \E i \in DOMAIN requests : Claims(requests[i], s)
<1>1. Extends(events', CancelledTo(owner[c]))
  BY CancelledExtends, AnnounceExtends
<1>2. Extends(CancelledTo(owner[c]), events)
  BY CancelledExtends
<1>3. CASE owner["regular"] = s
  <2>1. PICK i \in DOMAIN CancelledTo(owner[c]) : Takes(CancelledTo(owner[c])[i], s)
    BY <1>3, CancelledExtends
  <2>. QED  BY <1>1, <2>1 DEF Extends
<1>4. CASE \E i \in DOMAIN events : Takes(events[i], s)
  BY <1>1, <1>2, <1>4 DEF Extends
<1>. QED  BY <1>3, <1>4 DEF Bid

(* The compositor takes a request: it never destroys the source that is    *)
(* held, and if it was the one that claims the selection, that is its own. *)
LEMMA TakenRequest ==
  ASSUME QInv, Requested, TakeRequest
  PROVE  /\ Requested'
         /\ Head(requests) \in Request
         /\ Head(requests).type = "destroy" => Head(requests).src # source
         /\ \A s : (\E i \in DOMAIN requests : Claims(requests[i], s)) =>
                     Claims(Head(requests), s) \/ \E i \in DOMAIN requests' : Claims(requests'[i], s)
<1>. DEFINE L == Len(requests)
<1>1. requests \in Seq(Request) /\ requests # << >> /\ requests' = Tail(requests)
      /\ source' = source /\ created' = created
  BY DEF QInv, TypeOK, TakeRequest, client
<1>2. /\ L \in Nat \ {0} /\ DOMAIN requests = 1..L /\ DOMAIN requests' = 1..L - 1
      /\ \A i \in 1..L - 1 : requests'[i] = requests[i + 1]
      /\ Head(requests) = requests[1] /\ Head(requests) \in Request
  BY <1>1, TailFacts
<1>. HIDE DEF L
<1>3. \A i \in DOMAIN requests' : i + 1 \in DOMAIN requests /\ requests'[i] = requests[i + 1]
  BY <1>2
<1>4. Requested'
  BY <1>1, <1>3 DEF Requested
<1>5. 1 \in DOMAIN requests
  BY <1>2
<1>6. \A i \in DOMAIN requests : i # 1 => i - 1 \in DOMAIN requests' /\ requests'[i - 1] = requests[i]
  BY <1>2
<1>. QED  BY <1>2, <1>4, <1>5, <1>6 DEF Requested

(* Every step keeps the requests as they should be.                        *)
LEMMA RequestedStep ==
  ASSUME QInv, Requested, [Next]_vars
  PROVE  Requested'
<1>0. TypeOK /\ Known
  BY DEF QInv
<1>1. ASSUME UNCHANGED <<requests, source, created>> PROVE Requested'
  BY <1>1 DEF Requested
<1>2. CASE UNCHANGED vars
  BY <1>1, <1>2 DEF vars, client
<1>3. CASE Start
  BY <1>1, <1>3 DEF Start
<1>4. CASE Release
  BY <1>0, <1>4, DroppedSource DEF Release
<1>5. CASE Dispatch
  <2>1. CASE \E id : SourceCancelled(id)
    BY <1>0, <1>5, <2>1, DroppedSource DEF Dispatch, SourceCancelled
  <2>2. CASE UNCHANGED <<requests, source>>
    BY <1>1, <1>5, <2>2 DEF Dispatch
  <2>. QED
    BY <1>5, <2>1, <2>2
    DEF Dispatch, Handle, Ignore, IntroduceOffer, OnOffer, CommitOffer, ClearSlot, AdoptPending
<1>6. CASE TakeRequest
  BY <1>6, TakenRequest
<1>7. ASSUME NEW c \in Channels, OfferSelection(c) PROVE Requested'
  BY <1>7, NewSource
<1>8. ASSUME NEW c \in Channels, OtherClears(c) \/ Paste(c) PROVE Requested'
  BY <1>1, <1>8 DEF OtherClears, Paste, client
<1>9. ASSUME NEW c \in Channels, NEW M \in SUBSET Mimes, OtherTakes(c, M) PROVE Requested'
  BY <1>1, <1>9 DEF OtherTakes, client
<1>10. ASSUME NEW M \in SUBSET Mimes, DragEnters(M) PROVE Requested'
  BY <1>1, <1>10 DEF DragEnters, client
<1>. QED  BY <1>2, <1>3, <1>4, <1>5, <1>6, <1>7, <1>8, <1>9, <1>10 DEF Next

(* The steps of the compositor keep the standing of the source that is     *)
(* held: it is destroyed by no request, and told when it is superseded.    *)
LEMMA StandingServer ==
  ASSUME ~HasPrimary, QInv, Requested, Standing,
         \/ TakeRequest
         \/ \E c \in Channels : OtherClears(c) \/ Paste(c)
         \/ \E c \in Channels, M \in SUBSET Mimes : OtherTakes(c, M)
         \/ \E M \in SUBSET Mimes : DragEnters(M)
  PROVE  Standing'
<1>0. Channels = {"regular"} /\ owner \in [Channels -> Sources \cup {Null, Other}]
      /\ events \in Seq(Event) /\ Len(offered) \in Nat
  BY DEF Channels, QInv, TypeOK
<1>1. UNCHANGED <<source, believes>>
  BY DEF TakeRequest, OtherClears, Paste, OtherTakes, DragEnters, client
<1>2. SUFFICES ASSUME source # Null PROVE Bid(source)'
  BY <1>1 DEF Standing
<1>3. source \in Sources /\ Bid(source)
  BY <1>2 DEF QInv, TypeOK, Standing
<1>4. ASSUME Extends(events', events), requests' = requests, owner'["regular"] = owner["regular"]
      PROVE  Bid(source)'
  BY <1>1, <1>3, <1>4 DEF Bid, Extends
<1>5. CASE TakeRequest
  <2>. DEFINE r == Head(requests)
  <2>1. /\ r \in Request
        /\ r.type = "destroy" => r.src # source
        /\ (\E i \in DOMAIN requests : Claims(requests[i], source)) =>
             Claims(r, source) \/ \E i \in DOMAIN requests' : Claims(requests'[i], source)
    BY <1>5, TakenRequest
  <2>2. TakeSet(r) \/ TakeDestroy(r)
    BY <1>5 DEF TakeRequest
  <2>. HIDE DEF r
  <2>3. CASE TakeSet(r)
    <3>1. r.type = "set" /\ r.chan = "regular" /\ "regular" \in Channels /\ Mimes \in SUBSET Mimes
      BY <1>0, <2>1, <2>3, RequestFacts DEF TakeSet
    <3>2. owner'["regular"] = r.src
      BY <1>0, <2>3, <3>1 DEF TakeSet
    <3>3. Announce(CancelledTo(owner["regular"]), "regular", Mimes)
      BY <2>3, <3>1 DEF TakeSet
    <3>4. \/ \E i \in DOMAIN events' : Takes(events'[i], source)
          \/ \E i \in DOMAIN requests : Claims(requests[i], source)
      BY <1>0, <1>3, <3>1, <3>3, OwnerTold
    <3>. QED  BY <1>1, <2>1, <3>2, <3>4 DEF Bid, Claims
  <2>4. CASE TakeDestroy(r)
    <3>1. r.type = "destroy" /\ r.src # source
      BY <2>1, <2>4 DEF TakeDestroy
    <3>2. owner["regular"] = source => owner'["regular"] = source
      BY <1>0, <2>4, <3>1 DEF TakeDestroy
    <3>3. Extends(events', events)
      <4>1. CASE UNCHANGED events
        BY <4>1 DEF Extends
      <4>2. ASSUME NEW c \in Channels, events' = Append(events, Ev("selection", Null, c))
            PROVE  Extends(events', events)
        <5>1. Ev("selection", Null, c) \in Event
          BY DEF Ev, Event
        <5>. QED  BY <1>0, <4>2, <5>1, Appended
      <4>. QED  BY <2>4, <4>1, <4>2 DEF TakeDestroy
    <3>4. ~Claims(r, source)
      BY <3>1 DEF Claims
    <3>. QED  BY <1>1, <1>3, <2>1, <3>2, <3>3, <3>4 DEF Bid, Extends
  <2>. QED  BY <2>2, <2>3, <2>4
<1>6. ASSUME NEW c \in Channels, OtherClears(c) PROVE Bid(source)'
  <2>1. owner["regular"] = Other
    BY <1>0, <1>6 DEF OtherClears
  <2>2. source # Other
    BY <1>3, Ids
  <2>3. Ev("selection", Null, c) \in Event
    BY DEF Ev, Event
  <2>4. Extends(events', events) /\ requests' = requests
    BY <1>0, <1>6, <2>3, Appended DEF OtherClears
  <2>. QED  BY <1>1, <1>3, <2>1, <2>2, <2>4 DEF Bid, Extends
<1>7. ASSUME NEW c \in Channels, Paste(c) PROVE Bid(source)'
  <2>1. Ev("send", owner[c], NoArg) \in Event
    BY <1>7 DEF Ev, Event, Paste
  <2>2. Extends(events', events)
    BY <1>0, <1>7, <2>1, Appended DEF Paste
  <2>. QED  BY <1>4, <1>7, <2>2 DEF Paste, server
<1>8. ASSUME NEW c \in Channels, NEW M \in SUBSET Mimes, OtherTakes(c, M) PROVE Bid(source)'
  <2>1. Announce(CancelledTo(owner[c]), c, M) /\ requests' = requests
    BY <1>8 DEF OtherTakes
  <2>2. \/ \E i \in DOMAIN events' : Takes(events'[i], source)
        \/ \E i \in DOMAIN requests : Claims(requests[i], source)
    BY <1>0, <1>3, <2>1, OwnerTold
  <2>. QED  BY <1>1, <2>1, <2>2 DEF Bid
<1>9. ASSUME NEW M \in SUBSET Mimes, DragEnters(M) PROVE Bid(source)'
  <2>. DEFINE e == Ev("enter", NewOffer, NoArg)
  <2>1. Len(offered) < MaxOffers /\ events' = events \o Introduction(M, e)
    BY <1>9 DEF DragEnters
  <2>2. e \in Event
    <3>1. NewOffer \in Offers
      BY <1>0, <2>1, BoundAssumption DEF NewOffer, Offers
    <3>. QED  BY <3>1 DEF Ev, Event
  <2>. HIDE DEF e
  <2>3. Grown(events, events \o Introduction(M, e), Len(offered), e)
    BY <1>0, <2>1, <2>2, Introduced
  <2>4. Extends(events', events)
    BY <2>1, <2>3 DEF Grown, Extends
  <2>. QED  BY <1>4, <1>9, <2>4 DEF DragEnters
<1>. QED  BY <1>5, <1>6, <1>7, <1>8, <1>9

(* The event that tells it resets the source and the belief together.      *)
LEMMA StandingDispatch ==
  ASSUME ~HasPrimary, QInv, Standing, Dispatch
  PROVE  Standing'
<1>. DEFINE e == Head(events)
            L == Len(events)
<1>0. Channels = {"regular"} /\ believes \in [Channels -> Sources \cup {Null}]
  BY DEF Channels, QInv, TypeOK
<1>1. /\ L \in Nat \ {0} /\ DOMAIN events = 1..L /\ DOMAIN events' = 1..L - 1
      /\ e = events[1] /\ \A i \in 1..L - 1 : events'[i] = events[i + 1]
  BY TailFacts DEF Dispatch, QInv, TypeOK
<1>2. owner' = owner /\ Handle(e)
  BY DEF Dispatch, server
<1>. HIDE DEF e, L
<1>3. \A i \in DOMAIN events : i # 1 => i - 1 \in DOMAIN events' /\ events'[i - 1] = events[i]
  BY <1>1
<1>4. CASE ~Dropped(e) /\ e.type = "cancelled" /\ SourceCancelled(e.id)
  <2>1. e.id = source
    BY <1>4 DEF Dropped, QInv, NoProxyLost
  <2>2. source' = Null /\ believes' = [c \in Channels |-> IF believes[c] = e.id THEN Null ELSE believes[c]]
    BY <1>4 DEF SourceCancelled
  <2>3. believes'["regular"] = Null
    BY <1>0, <2>1, <2>2 DEF Standing
  <2>. QED  BY <2>2, <2>3 DEF Standing
<1>5. CASE /\ UNCHANGED <<source, believes, requests>>
           /\ Dropped(e) \/ e.type # "cancelled"
  <2>. SUFFICES ASSUME source # Null PROVE Bid(source)'
    BY <1>5 DEF Standing
  <2>1. ~Takes(e, source)
    BY <1>5 DEF Takes, Dropped, QInv, NoProxyLost
  <2>2. Bid(source)
    BY DEF Standing
  <2>. QED  BY <1>1, <1>2, <1>3, <1>5, <2>1, <2>2 DEF Bid
<1>. QED
  BY <1>2, <1>4, <1>5
  DEF Handle, Ignore, IntroduceOffer, OnOffer, CommitOffer, ClearSlot, AdoptPending

(* Every step keeps it.                                                    *)
LEMMA StandingStep ==
  ASSUME ~HasPrimary, QInv, Requested, Standing, [Next]_vars
  PROVE  Standing'
<1>0. Channels = {"regular"} /\ believes \in [Channels -> Sources \cup {Null}]
  BY DEF Channels, QInv, TypeOK
<1>1. CASE UNCHANGED vars
  BY <1>1 DEF vars, client, server, Standing, Bid
<1>2. CASE Start
  BY <1>2 DEF Start, Standing, Bid, server
<1>3. CASE Release
  BY <1>0, <1>3 DEF Release, Standing
<1>4. CASE Dispatch
  BY <1>4, StandingDispatch
<1>5. ASSUME NEW c \in Channels, OfferSelection(c) PROVE Standing'
  <2>1. \E i \in DOMAIN requests' : Claims(requests'[i], source')
    BY <1>5, NewSource
  <2>2. believes'["regular"] = source'
    BY <1>0, <1>5 DEF OfferSelection
  <2>. QED  BY <2>1, <2>2 DEF Standing, Bid
<1>6. CASE \/ TakeRequest
           \/ \E c \in Channels : OtherClears(c) \/ Paste(c)
           \/ \E c \in Channels, M \in SUBSET Mimes : OtherTakes(c, M)
           \/ \E M \in SUBSET Mimes : DragEnters(M)
  BY <1>6, StandingServer
<1>. QED  BY <1>1, <1>2, <1>3, <1>4, <1>5, <1>6 DEF Next

(* Once nothing is in flight, what the App believes to offer is the        *)
(* selection: it "is told via OnCancelled when the offer is superseded".   *)
(* This is so for a device with one selection; a device with two           *)
(* (HasPrimary) has one source for both, and offering one selection gives  *)
(* up the other in silence.                                                *)
THEOREM ToldWhenSuperseded == ASSUME ~HasPrimary PROVE Spec => []OwnerOrTold
<1>1. Init => Requested /\ Standing
  BY DEF Init, Requested, Standing, Channels
<1>2. QInv /\ (Requested /\ Standing) /\ [Next]_vars => (Requested /\ Standing)'
  BY RequestedStep, StandingStep
<1>3. Standing => OwnerOrTold
  <2>. SUFFICES ASSUME Standing, requests = << >>, events = << >>, NEW c \in Channels, believes[c] # Null
                PROVE  owner[c] = believes[c]
    BY DEF OwnerOrTold
  <2>1. c = "regular"
    BY DEF Channels
  <2>2. DOMAIN requests = {} /\ DOMAIN events = {}
    OBVIOUS
  <2>. QED  BY <2>1, <2>2 DEF Standing, Bid
<1>. QED  BY <1>1, <1>2, <1>3, QInvariant, PTL DEF Spec
=============================================================================
