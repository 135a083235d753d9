------------------------ MODULE DmabufFeedback_proofs ------------------------
(***************************************************************************)
(* The streamed feedback of DmabufFeedback implements the whole snapshots  *)
(* of Snapshots, for any formats, tables and advertisements.               *)
(*                                                                         *)
(* A handler sees one event and knows nothing of the advertisement it is   *)
(* part of.  So the invariant is about what is in flight: reading it to    *)
(* the end leads, commit by commit, through the snapshots the compositor   *)
(* described.                                                              *)
(***************************************************************************)
EXTENDS DmabufFeedback, WellFoundedInduction, TLAPS

(* Any set of naturals has a least one, and so one that has 0 and the      *)
(* successors of its members is all of them.                               *)
LEMMA Least ==
  ASSUME NEW T \in SUBSET Nat, T # {}
  PROVE  \E n \in T : \A m \in T : n <= m
<1>. DEFINE R == OpToRel(<, Nat)
<1>1. \A x, y \in Nat : <<x, y>> \in R <=> x < y
  BY DEF OpToRel
<1>2. \E x \in T : \A y \in T : ~ (<<y, x>> \in R)
  <2>1. IsWellFoundedOn(OpToRel(<, Nat), Nat)
    BY NatLessThanWellFounded
  <2>. HIDE DEF R
  <2>2. IsWellFoundedOn(R, Nat)
    BY <2>1 DEF R
  <2>. QED  BY <2>2, WFMin
<1>. HIDE DEF R
<1>3. PICK x \in T : \A y \in T : ~ (<<y, x>> \in R)
  BY <1>2
<1>4. \A y \in T : ~ (y < x)
  BY <1>1, <1>3
<1>. QED  BY <1>4

LEMMA Induction ==
  ASSUME NEW T \in SUBSET Nat, 0 \in T, \A n \in T : n + 1 \in T
  PROVE  T = Nat
<1>. SUFFICES ASSUME Nat \ T # {} PROVE FALSE
  OBVIOUS
<1>1. PICK n \in Nat \ T : \A m \in Nat \ T : n <= m
  BY Least
<1>2. n - 1 \in T
  BY <1>1
<1>. QED  BY <1>2

(* Lists, one behind the other.                                            *)
LEMMA ConcatFacts ==
  ASSUME NEW X, NEW q \in Seq(X), NEW r \in Seq(X)
  PROVE  /\ q \o r \in Seq(X)
         /\ Len(q) \in Nat /\ Len(r) \in Nat /\ Len(q \o r) = Len(q) + Len(r)
         /\ DOMAIN q = 1..Len(q) /\ DOMAIN (q \o r) = 1..Len(q) + Len(r)
         /\ \A i \in 1..Len(q) : (q \o r)[i] = q[i]
         /\ \A i \in 1..Len(r) : (q \o r)[Len(q) + i] = r[i]
<1>1. /\ q \o r \in Seq(X)
      /\ Len(q) \in Nat /\ Len(r) \in Nat /\ Len(q \o r) = Len(q) + Len(r)
  OBVIOUS
<1>2. DOMAIN q = 1..Len(q) /\ DOMAIN (q \o r) = 1..Len(q) + Len(r)
  BY <1>1
<1>3. \A i \in 1..Len(q) : (q \o r)[i] = q[i]
  BY <1>1
<1>4. \A i \in 1..Len(r) : (q \o r)[Len(q) + i] = r[i]
  BY <1>1
<1>. QED  BY <1>1, <1>2, <1>3, <1>4

(* The head of a list is its first element, and the rest moves up.         *)
LEMMA TailFacts ==
  ASSUME NEW X, NEW q \in Seq(X), q # << >>
  PROVE  /\ Tail(q) \in Seq(X)
         /\ Len(q) \in Nat \ {0} /\ Len(Tail(q)) = Len(q) - 1
         /\ \A i \in 1..Len(q) - 1 : Tail(q)[i] = q[i + 1]
         /\ Head(q) = q[1] /\ Head(q) \in X
<1>1. Len(q) \in Nat \ {0}
  OBVIOUS
<1>2. Tail(q) \in Seq(X) /\ Len(Tail(q)) = Len(q) - 1
  BY <1>1
<1>4. \A i \in 1..Len(q) - 1 : Tail(q)[i] = q[i + 1]
  BY <1>1, <1>2
<1>5. Head(q) = q[1] /\ Head(q) \in X
  BY <1>1
<1>. QED  BY <1>1, <1>2, <1>4, <1>5

(* A function on the first k numbers is a list.                            *)
LEMMA ListOf ==
  ASSUME NEW X, NEW k \in Nat, NEW f \in [1..k -> X]
  PROVE  f \in Seq(X) /\ Len(f) = k
OBVIOUS

(* f strings the lists of ss together, one after the other.                *)
Join(q, r) == q \o r
Strings(f, ss, n) == f[0] = << >> /\ \A i \in 1..n : f[i] = Join(f[i - 1], ss[i])

LEMMA JoinType ==
  ASSUME NEW X, NEW q \in Seq(X), NEW r \in Seq(X)
  PROVE  Join(q, r) \in Seq(X) /\ Join(<< >>, q) = q
<1>1. << >> \o q = q
  OBVIOUS
<1>. QED  BY <1>1, ConcatFacts DEF Join

(* There is one way to do so.                                              *)
LEMMA StringsOnce ==
  ASSUME NEW L \in Nat, NEW ss, NEW f, NEW g, Strings(f, ss, L), Strings(g, ss, L)
  PROVE  \A n \in 0..L : f[n] = g[n]
<1>. DEFINE T == {n \in Nat : n <= L => f[n] = g[n]}
<1>1. 0 \in T
  BY DEF Strings
<1>2. ASSUME NEW n \in T PROVE n + 1 \in T
  <2>1. CASE n + 1 <= L
    <3>1. f[n] = g[n] /\ n + 1 \in 1..L /\ n + 1 - 1 = n
      BY <2>1
    <3>2. f[n + 1] = Join(f[n], ss[n + 1]) /\ g[n + 1] = Join(g[n], ss[n + 1])
      BY <3>1 DEF Strings
    <3>. QED  BY <3>1, <3>2
  <2>. QED  BY <2>1
<1>3. T = Nat
  <2>. HIDE DEF T
  <2>1. T \in SUBSET Nat
    BY DEF T
  <2>. QED  BY <1>1, <1>2, <2>1, Induction
<1>. QED  BY <1>3

(* And there is a way.                                                     *)
LEMMA StringsExist ==
  ASSUME NEW X, NEW L \in Nat, NEW ss \in [1..L -> Seq(X)]
  PROVE  \E f \in [0..L -> Seq(X)] : Strings(f, ss, L)
<1>. DEFINE Y == Seq(X)
<1>0. \A q \in Y, r \in Y : Join(q, r) \in Y
  BY JoinType
<1>1. << >> \in Y /\ ss \in [1..L -> Y]
  OBVIOUS
<1>. HIDE DEF Y
<1>. DEFINE T == {n \in Nat : n <= L => \E f \in [0..n -> Y] : Strings(f, ss, n)}
<1>2. 0 \in T
  <2>. DEFINE f == [i \in 0..0 |-> << >>]
  <2>1. f \in [0..0 -> Y] /\ Strings(f, ss, 0)
    BY <1>1 DEF Strings
  <2>. QED  BY <2>1
<1>3. ASSUME NEW n \in T PROVE n + 1 \in T
  <2>. SUFFICES ASSUME n + 1 <= L PROVE \E f \in [0..n+1 -> Y] : Strings(f, ss, n + 1)
    OBVIOUS
  <2>1. PICK f \in [0..n -> Y] : Strings(f, ss, n)
    OBVIOUS
  <2>. DEFINE h == [i \in 0..n+1 |-> IF i <= n THEN f[i] ELSE Join(f[n], ss[n + 1])]
  <2>2. f[n] \in Y /\ ss[n + 1] \in Y
    BY <1>1
  <2>3. h \in [0..n+1 -> Y]
    BY <1>0, <2>2
  <2>4. h[0] = << >>
    BY <2>1 DEF Strings
  <2>5. ASSUME NEW i \in 1..n+1 PROVE h[i] = Join(h[i - 1], ss[i])
    <3>1. CASE i <= n
      <4>1. f[i] = Join(f[i - 1], ss[i]) /\ i - 1 \in 0..n
        BY <2>1, <3>1 DEF Strings
      <4>. QED  BY <3>1, <4>1
    <3>2. CASE i = n + 1
      <4>1. i - 1 = n
        BY <3>2
      <4>. QED  BY <3>2, <4>1
    <3>. QED  BY <3>1, <3>2
  <2>. HIDE DEF h
  <2>. QED  BY <2>3, <2>4, <2>5 DEF Strings
<1>4. T = Nat
  <2>. HIDE DEF T
  <2>1. T \in SUBSET Nat
    BY DEF T
  <2>. QED  BY <1>2, <1>3, <2>1, Induction
<1>. QED  BY <1>4 DEF Y

(* So FlattenSeq is what its equation says.                                *)
LEMMA Flattened ==
  ASSUME NEW X, NEW ss \in Seq(Seq(X))
  PROVE  \E f \in [0..Len(ss) -> Seq(X)] : Strings(f, ss, Len(ss)) /\ FlattenSeq(ss) = f[Len(ss)]
<1>. DEFINE L == Len(ss)
            Eq(g) == g = [i \in 1..L |-> IF i = 1 THEN ss[i] ELSE Join(g[i - 1], ss[i])]
<1>0. L \in Nat /\ ss \in [1..L -> Seq(X)]
  OBVIOUS
<1>1. PICK f \in [0..L -> Seq(X)] : Strings(f, ss, L)
  BY <1>0, StringsExist
<1>2. CASE L = 0
  <2>1. FlattenSeq(ss) = ss /\ ss = << >>
    BY <1>2 DEF FlattenSeq
  <2>. QED  BY <1>1, <1>2, <2>1 DEF Strings
<1>3. CASE L # 0
  <2>1. FlattenSeq(ss) = (CHOOSE g : Eq(g))[L]
    BY <1>3 DEF FlattenSeq, Join
  <2>. DEFINE h == [i \in 1..L |-> f[i]]
  <2>2. Join(<< >>, ss[1]) = ss[1]
    <3>1. ss[1] \in Seq(X)
      BY <1>0, <1>3
    <3>. QED  BY <3>1, JoinType
  <2>. HIDE DEF L
  <2>3. Eq(h)
    <3>1. ASSUME NEW i \in 1..L PROVE f[i] = IF i = 1 THEN ss[i] ELSE Join(h[i - 1], ss[i])
      <4>0. f[0] = << >> /\ f[i] = Join(f[i - 1], ss[i])
        BY <1>1 DEF Strings
      <4>1. CASE i = 1
        BY <2>2, <4>0, <4>1
      <4>2. CASE i # 1
        <5>1. i - 1 \in 1..L
          BY <1>0, <4>2
        <5>2. h[i - 1] = f[i - 1]
          BY <5>1
        <5>. QED  BY <4>0, <4>2, <5>2
      <4>. QED  BY <4>1, <4>2
    <3>. QED  BY <3>1
  <2>. HIDE DEF h
  <2>4. Eq(CHOOSE g : Eq(g))
    BY <2>3
  <2>5. ASSUME NEW g, Eq(g) PROVE g[L] = f[L]
    <3>. DEFINE k == [i \in 0..L |-> IF i = 0 THEN << >> ELSE g[i]]
    <3>1. Strings(k, ss, L)
      <4>1. k[0] = << >>
        BY <1>0
      <4>2. ASSUME NEW i \in 1..L PROVE k[i] = Join(k[i - 1], ss[i])
        <5>1. k[i] = g[i]
          BY <1>0
        <5>2. g[i] = IF i = 1 THEN ss[i] ELSE Join(g[i - 1], ss[i])
          BY <2>5
        <5>3. CASE i = 1
          BY <2>2, <4>1, <5>1, <5>2, <5>3
        <5>4. CASE i # 1
          <6>1. i - 1 \in 0..L /\ i - 1 # 0
            BY <1>0, <5>4
          <6>2. k[i - 1] = g[i - 1]
            BY <6>1
          <6>. QED  BY <5>1, <5>2, <5>4, <6>2
        <5>. QED  BY <5>3, <5>4
      <4>. HIDE DEF k
      <4>. QED  BY <4>1, <4>2 DEF Strings
    <3>2. L \in 0..L /\ k[L] = g[L]
      BY <1>0, <1>3 DEF L
    <3>. HIDE DEF k
    <3>. QED  BY <1>0, <1>1, <3>1, <3>2, StringsOnce
  <2>. QED  BY <1>1, <2>1, <2>4, <2>5 DEF L
<1>. QED  BY <1>2, <1>3

LEMMA FlattenType ==
  ASSUME NEW X, NEW ss \in Seq(Seq(X))
  PROVE  FlattenSeq(ss) \in Seq(X)
<1>1. Len(ss) \in 0..Len(ss)
  OBVIOUS
<1>. QED  BY <1>1, Flattened

LEMMA FlattenEmpty ==
  ASSUME NEW X, NEW ss \in Seq(Seq(X)), \A i \in 1..Len(ss) : ss[i] = << >>
  PROVE  FlattenSeq(ss) = << >>
<1>1. ss \in Seq(Seq({}))
  <2>1. << >> \in Seq({})
    OBVIOUS
  <2>. QED  BY <2>1
<1>2. FlattenSeq(ss) \in Seq({})
  BY <1>1, FlattenType
<1>3. \A q \in Seq({}) : q = << >>
  <2>. SUFFICES ASSUME NEW q \in Seq({}), q # << >> PROVE FALSE
    OBVIOUS
  <2>1. Len(q) \in Nat \ {0} /\ q[1] \in {}
    OBVIOUS
  <2>. QED  BY <2>1
<1>. QED  BY <1>2, <1>3
-----------------------------------------------------------------------------
(* What a batch of indices names; nothing, if there is no table.           *)
LEMMA ResolvedType ==
  ASSUME NEW tbl \in Seq(Entries), NEW ix \in Seq(Nat)
  PROVE  Resolved(tbl, ix) \in Seq(Entries) /\ Resolved(<< >>, ix) = << >>
<1>. DEFINE named(u) == [i \in DOMAIN ix |-> IF ix[i] < Len(u) THEN << u[ix[i] + 1] >> ELSE << >>]
<1>1. ASSUME NEW u \in Seq(Entries) PROVE named(u) \in Seq(Seq(Entries))
  <2>1. ASSUME NEW i \in 1..Len(ix) PROVE (IF ix[i] < Len(u) THEN << u[ix[i] + 1] >> ELSE << >>) \in Seq(Entries)
    <3>1. ix[i] \in Nat /\ Len(u) \in Nat /\ << >> \in Seq(Entries)
      OBVIOUS
    <3>2. CASE ix[i] < Len(u)
      <4>1. u[ix[i] + 1] \in Entries
        BY <3>1, <3>2
      <4>. QED  BY <3>2, <4>1
    <3>. QED  BY <3>1, <3>2
  <2>2. DOMAIN ix = 1..Len(ix) /\ Len(ix) \in Nat
    OBVIOUS
  <2>. QED  BY <2>1, <2>2
<1>2. Resolved(tbl, ix) \in Seq(Entries)
  <2>1. named(tbl) \in Seq(Seq(Entries))
    BY <1>1
  <2>. HIDE DEF named
  <2>2. FlattenSeq(named(tbl)) \in Seq(Entries)
    BY <2>1, FlattenType
  <2>. QED  BY <2>2 DEF Resolved, named
<1>3. Resolved(<< >>, ix) = << >>
  <2>1. << >> \in Seq(Entries) /\ Len(<< >>) = 0
    OBVIOUS
  <2>2. named(<< >>) \in Seq(Seq(Entries))
    BY <1>1, <2>1
  <2>3. \A i \in 1..Len(named(<< >>)) : named(<< >>)[i] = << >>
    <3>1. DOMAIN ix = 1..Len(ix) /\ \A i \in 1..Len(ix) : ix[i] \in Nat
      OBVIOUS
    <3>2. Len(named(<< >>)) = Len(ix)
      BY <3>1, <2>2
    <3>3. \A i \in 1..Len(ix) : ~ (ix[i] < 0)
      BY <3>1
    <3>. QED  BY <2>1, <3>1, <3>2, <3>3
  <2>. HIDE DEF named
  <2>4. FlattenSeq(named(<< >>)) = << >>
    BY <2>2, <2>3, FlattenEmpty
  <2>. QED  BY <2>4 DEF Resolved, named
<1>. QED  BY <1>2, <1>3

(* What all batches of a tranche name, and the snapshot they are part of.  *)
Batches(tbl, t) == [k \in DOMAIN t.indices |-> Resolved(tbl, t.indices[k])]

LEMMA DescribedType ==
  ASSUME NEW tbl \in Seq(Entries)
  PROVE  /\ \A t \in RawTranche : /\ Batches(tbl, t) \in Seq(Seq(Entries))
                                  /\ Len(Batches(tbl, t)) = Len(t.indices)
                                  /\ DescribedTranche(tbl, t) \in TrancheSet
         /\ \A a \in Advert : Described(tbl, a) \in SnapshotSet
<1>1. ASSUME NEW t \in RawTranche
      PROVE  /\ Batches(tbl, t) \in Seq(Seq(Entries)) /\ Len(Batches(tbl, t)) = Len(t.indices)
             /\ DescribedTranche(tbl, t) \in TrancheSet
  <2>1. t.indices \in Seq(Seq(Nat)) /\ t.target_device \in Devices /\ t.flags \in Flags
    BY DEF RawTranche
  <2>2. DOMAIN t.indices = 1..Len(t.indices) /\ Len(t.indices) \in Nat
    BY <2>1
  <2>3. \A k \in 1..Len(t.indices) : Resolved(tbl, t.indices[k]) \in Seq(Entries)
    <3>1. \A k \in 1..Len(t.indices) : t.indices[k] \in Seq(Nat)
      BY <2>1
    <3>. QED  BY <3>1, ResolvedType
  <2>4. Batches(tbl, t) \in Seq(Seq(Entries)) /\ Len(Batches(tbl, t)) = Len(t.indices)
    BY <2>2, <2>3 DEF Batches
  <2>5. FlattenSeq(Batches(tbl, t)) \in Seq(Entries)
    BY <2>4, FlattenType
  <2>. QED  BY <2>1, <2>4, <2>5 DEF DescribedTranche, Batches, Tranche, TrancheSet
<1>2. ASSUME NEW a \in Advert PROVE Described(tbl, a) \in SnapshotSet
  <2>1. a.tranches \in Seq(RawTranche) /\ a.main_device \in Devices
    BY DEF Advert
  <2>2. \A i \in 1..Len(a.tranches) : DescribedTranche(tbl, a.tranches[i]) \in TrancheSet
    <3>1. \A i \in 1..Len(a.tranches) : a.tranches[i] \in RawTranche
      BY <2>1
    <3>. QED  BY <1>1, <3>1
  <2>3. DOMAIN a.tranches = 1..Len(a.tranches) /\ Len(a.tranches) \in Nat
    BY <2>1
  <2>4. [i \in DOMAIN a.tranches |-> DescribedTranche(tbl, a.tranches[i])] \in Seq(TrancheSet)
    BY <2>2, <2>3
  <2>. QED  BY <2>1, <2>4 DEF Described, FeedbackSnapshot, SnapshotSet
<1>. QED  BY <1>1, <1>2

(* The events of a tranche, and of an advertisement, are of one object.    *)
MessageOf(o) == {e \in Message : e.obj = o}

LEMMA MessagesOf ==
  ASSUME NEW o
  PROVE  /\ \A q \in Seq(MessageOf(o)) : q \in Seq(Message) /\ \A i \in 1..Len(q) : q[i].obj = o
         /\ \A ss \in Seq(Seq(MessageOf(o))) : ss \in Seq(Seq(Message))
<1>1. ASSUME NEW q \in Seq(MessageOf(o))
      PROVE  q \in Seq(Message) /\ \A i \in 1..Len(q) : q[i].obj = o
  <2>1. q \in [1..Len(q) -> MessageOf(o)] /\ Len(q) \in Nat
    OBVIOUS
  <2>2. q \in [1..Len(q) -> Message] /\ \A i \in 1..Len(q) : q[i].obj = o
    BY <2>1 DEF MessageOf
  <2>. QED  BY <2>1, <2>2, ListOf
<1>2. ASSUME NEW ss \in Seq(Seq(MessageOf(o))) PROVE ss \in Seq(Seq(Message))
  <2>1. ss \in [1..Len(ss) -> Seq(MessageOf(o))] /\ Len(ss) \in Nat
    OBVIOUS
  <2>2. ss \in [1..Len(ss) -> Seq(Message)]
    BY <1>1, <2>1
  <2>. QED  BY <2>1, <2>2, ListOf
<1>. QED  BY <1>1, <1>2

LEMMA StreamOf ==
  ASSUME NEW o \in Objects, NEW a \in Advert
  PROVE  /\ \A t \in RawTranche : TrancheEvents(o, t) \in Seq(MessageOf(o))
         /\ [i \in DOMAIN a.tranches |-> TrancheEvents(o, a.tranches[i])] \in Seq(Seq(MessageOf(o)))
         /\ Stream(o, a) \in Seq(MessageOf(o))
<1>0. \A q \in Seq(MessageOf(o)), r \in Seq(MessageOf(o)) : q \o r \in Seq(MessageOf(o))
  BY ConcatFacts
<1>1. ASSUME NEW e \in MessageOf(o) PROVE << e >> \in Seq(MessageOf(o))
  OBVIOUS
<1>2. << >> \in Seq(MessageOf(o))
  OBVIOUS
<1>3. ASSUME NEW t \in RawTranche PROVE TrancheEvents(o, t) \in Seq(MessageOf(o))
  <2>1. t.indices \in Seq(Seq(Nat)) /\ t.target_device \in Devices /\ t.flags \in Flags
    BY DEF RawTranche
  <2>2. /\ Event(o, "target", t.target_device) \in MessageOf(o) /\ Event(o, "flags", t.flags) \in MessageOf(o)
        /\ Event(o, "tranche_done", 0) \in MessageOf(o)
    BY <2>1 DEF Event, Message, MessageOf
  <2>3. \A i \in 1..Len(t.indices) : Event(o, "formats", t.indices[i]) \in MessageOf(o)
    BY <2>1 DEF Event, Message, MessageOf
  <2>4. DOMAIN t.indices = 1..Len(t.indices) /\ Len(t.indices) \in Nat
    BY <2>1
  <2>5. [i \in DOMAIN t.indices |-> Event(o, "formats", t.indices[i])] \in Seq(MessageOf(o))
    <3>. DEFINE ev(i) == Event(o, "formats", t.indices[i])
    <3>. HIDE DEF ev
    <3>1. [i \in 1..Len(t.indices) |-> ev(i)] \in Seq(MessageOf(o))
      BY <2>3, <2>4 DEF ev
    <3>. QED  BY <2>4, <3>1 DEF ev
  <2>6. (IF t.target_device = 0 THEN <<>> ELSE <<Event(o, "target", t.target_device)>>) \in Seq(MessageOf(o))
    BY <1>1, <1>2, <2>2
  <2>7. <<Event(o, "flags", t.flags)>> \in Seq(MessageOf(o)) /\ <<Event(o, "tranche_done", 0)>> \in Seq(MessageOf(o))
    BY <1>1, <2>2
  <2>. QED  BY <1>0, <2>5, <2>6, <2>7 DEF TrancheEvents
<1>4. a.tranches \in Seq(RawTranche) /\ a.main_device \in Devices /\ a.table \in Seq(Entries)
  BY DEF Advert
<1>5. [i \in DOMAIN a.tranches |-> TrancheEvents(o, a.tranches[i])] \in Seq(Seq(MessageOf(o)))
  <2>1. \A i \in 1..Len(a.tranches) : TrancheEvents(o, a.tranches[i]) \in Seq(MessageOf(o))
    <3>1. \A i \in 1..Len(a.tranches) : a.tranches[i] \in RawTranche
      BY <1>4
    <3>. QED  BY <1>3, <3>1
  <2>2. DOMAIN a.tranches = 1..Len(a.tranches) /\ Len(a.tranches) \in Nat
    BY <1>4
  <2>. QED  BY <2>1, <2>2
<1>6. Stream(o, a) \in Seq(MessageOf(o))
  <2>1. /\ Event(o, "table", a.table) \in MessageOf(o) /\ Event(o, "main", a.main_device) \in MessageOf(o)
        /\ Event(o, "done", 0) \in MessageOf(o)
    BY <1>4 DEF Event, Message, MessageOf
  <2>2. FlattenSeq([i \in DOMAIN a.tranches |-> TrancheEvents(o, a.tranches[i])]) \in Seq(MessageOf(o))
    BY <1>5, FlattenType
  <2>3. (IF a.table = <<>> THEN <<>> ELSE <<Event(o, "table", a.table)>>) \in Seq(MessageOf(o))
    BY <1>1, <1>2, <2>1
  <2>4. <<Event(o, "main", a.main_device)>> \in Seq(MessageOf(o)) /\ <<Event(o, "done", 0)>> \in Seq(MessageOf(o))
    BY <1>1, <2>1
  <2>. QED  BY <1>0, <2>2, <2>3, <2>4 DEF Stream
<1>. QED  BY <1>3, <1>5, <1>6
LEMMA StreamType ==
  ASSUME NEW o \in Objects, NEW a \in Advert
  PROVE  /\ \A t \in RawTranche : TrancheEvents(o, t) \in Seq(Message)
         /\ [i \in DOMAIN a.tranches |-> TrancheEvents(o, a.tranches[i])] \in Seq(Seq(Message))
         /\ Stream(o, a) \in Seq(Message) /\ \A i \in 1..Len(Stream(o, a)) : Stream(o, a)[i].obj = o
BY StreamOf, MessagesOf

-----------------------------------------------------------------------------
(* How far a handler has read that can read every table: the members it    *)
(* gathers in, and how many snapshots it has committed.                    *)
Reading(tbl, main, tranche, tranches, n) ==
  [table |-> tbl, main |-> main, tranche |-> tranche, tranches |-> tranches, commits |-> n]
Readings ==
  [table : Seq(Entries), main : Devices, tranche : TrancheSet, tranches : Seq(TrancheSet), commits : Nat]
Fresh(tbl, n) == Reading(tbl, 0, FeedbackTranche, << >>, n)

(* One event takes it from r to s.  A table comes between advertisements,  *)
(* and at `done` the next snapshot of the log is what was gathered.        *)
Reads(r, e, s, log) ==
  \/ /\ e.type = "table"
     /\ r = Fresh(r.table, r.commits) /\ s = Fresh(e.arg, r.commits)
  \/ /\ e.type = "main"
     /\ s = Reading(r.table, e.arg, r.tranche, r.tranches, r.commits)
  \/ /\ e.type = "target"
     /\ s = Reading(r.table, r.main, Tranche(e.arg, r.tranche.flags, r.tranche.formats),
                    r.tranches, r.commits)
  \/ /\ e.type = "flags"
     /\ s = Reading(r.table, r.main, Tranche(r.tranche.target_device, e.arg, r.tranche.formats),
                    r.tranches, r.commits)
  \/ /\ e.type = "formats"
     /\ s = Reading(r.table, r.main,
                    Tranche(r.tranche.target_device, r.tranche.flags,
                            Join(r.tranche.formats, Resolved(r.table, e.arg))),
                    r.tranches, r.commits)
  \/ /\ e.type = "tranche_done"
     /\ s = Reading(r.table, r.main, FeedbackTranche, Append(r.tranches, r.tranche), r.commits)
  \/ /\ e.type = "done"
     /\ r.commits < Len(log) /\ log[r.commits + 1] = FeedbackSnapshot(r.main, r.tranches)
     /\ s = Fresh(r.table, r.commits + 1)

(* The events q take it from r to s.                                       *)
Leads(q, r, s, log) ==
  \E g \in [0..Len(q) -> Readings] :
    g[0] = r /\ g[Len(q)] = s /\ \A i \in 1..Len(q) : Reads(g[i - 1], q[i], g[i], log)

LEMMA LeadsNone ==
  ASSUME NEW r \in Readings, NEW log
  PROVE  Leads(<< >>, r, r, log)
<1>. DEFINE g == [i \in 0..0 |-> r]
<1>1. Len(<< >>) = 0
  OBVIOUS
<1>2. g \in [0..0 -> Readings] /\ g[0] = r
  OBVIOUS
<1>3. \A i \in 1..0 : FALSE
  OBVIOUS
<1>. HIDE DEF g
<1>. QED  BY <1>1, <1>2, <1>3 DEF Leads

LEMMA LeadsOne ==
  ASSUME NEW r \in Readings, NEW s \in Readings, NEW e \in Message, NEW log, Reads(r, e, s, log)
  PROVE  Leads(<< e >>, r, s, log)
<1>. DEFINE g == [i \in 0..1 |-> IF i = 0 THEN r ELSE s]
<1>1. Len(<< e >>) = 1 /\ << e >>[1] = e
  OBVIOUS
<1>2. g \in [0..1 -> Readings] /\ g[0] = r /\ g[1] = s
  OBVIOUS
<1>3. \A i \in 1..1 : Reads(g[i - 1], << e >>[i], g[i], log)
  <2>1. \A i \in 1..1 : i = 1 /\ i - 1 = 0
    OBVIOUS
  <2>. QED  BY <1>1, <1>2, <2>1
<1>. HIDE DEF g
<1>. QED  BY <1>1, <1>2, <1>3 DEF Leads

LEMMA LeadsOn ==
  ASSUME NEW q \in Seq(Message), NEW p \in Seq(Message), NEW r, NEW s, NEW t, NEW log,
         Leads(q, r, s, log), Leads(p, s, t, log)
  PROVE  Leads(q \o p, r, t, log)
<1>1. PICK g \in [0..Len(q) -> Readings] :
        g[0] = r /\ g[Len(q)] = s /\ \A i \in 1..Len(q) : Reads(g[i - 1], q[i], g[i], log)
  BY DEF Leads
<1>2. PICK h \in [0..Len(p) -> Readings] :
        h[0] = s /\ h[Len(p)] = t /\ \A i \in 1..Len(p) : Reads(h[i - 1], p[i], h[i], log)
  BY DEF Leads
<1>. DEFINE n == Len(q)
            m == Len(p)
            k == [i \in 0..n + m |-> IF i <= n THEN g[i] ELSE h[i - n]]
<1>3. /\ q \o p \in Seq(Message) /\ n \in Nat /\ m \in Nat /\ Len(q \o p) = n + m
      /\ \A i \in 1..n : (q \o p)[i] = q[i]
      /\ \A i \in 1..m : (q \o p)[n + i] = p[i]
  BY ConcatFacts
<1>. HIDE DEF n, m
<1>4. k \in [0..n + m -> Readings]
  <2>1. \A i \in 0..n + m : i <= n => g[i] \in Readings
    BY <1>3 DEF n
  <2>2. \A i \in 0..n + m : ~(i <= n) => h[i - n] \in Readings
    BY <1>3 DEF m
  <2>. QED  BY <2>1, <2>2
<1>5. k[0] = r
  BY <1>1, <1>3
<1>6. \A i \in 0..m : k[n + i] = h[i]
  <2>1. k[n + 0] = h[0]
    BY <1>1, <1>2, <1>3 DEF n
  <2>2. ASSUME NEW i \in 1..m PROVE k[n + i] = h[i]
    <3>. DEFINE j == n + i
    <3>1. j \in 0..n + m /\ ~(j <= n) /\ j - n = i
      BY <1>3
    <3>. HIDE DEF j
    <3>2. k[j] = h[j - n]
      BY <3>1
    <3>. QED  BY <3>1, <3>2 DEF j
  <2>3. \A i \in 0..m : i = 0 \/ i \in 1..m
    BY <1>3
  <2>. HIDE DEF k
  <2>. QED  BY <2>1, <2>2, <2>3
<1>7. k[n + m] = t
  BY <1>2, <1>3, <1>6 DEF m
<1>8. ASSUME NEW i \in 1..n + m PROVE Reads(k[i - 1], (q \o p)[i], k[i], log)
  <2>1. CASE i <= n
    <3>1. i \in 1..n /\ i - 1 \in 0..n + m /\ i - 1 <= n /\ i \in 0..n + m
      BY <1>3, <2>1
    <3>2. k[i] = g[i] /\ k[i - 1] = g[i - 1] /\ (q \o p)[i] = q[i]
      BY <1>3, <2>1, <3>1
    <3>3. Reads(g[i - 1], q[i], g[i], log)
      BY <1>1, <3>1 DEF n
    <3>. QED  BY <3>2, <3>3
  <2>2. CASE ~(i <= n)
    <3>. DEFINE j == i - n
    <3>1. j \in 1..m /\ j - 1 \in 0..m /\ j \in 0..m /\ n + j = i /\ n + (j - 1) = i - 1
      BY <1>3, <2>2
    <3>. HIDE DEF j
    <3>2. k[i] = h[j] /\ k[i - 1] = h[j - 1] /\ (q \o p)[i] = p[j]
      BY <1>3, <1>6, <3>1
    <3>3. Reads(h[j - 1], p[j], h[j], log)
      BY <1>2, <3>1 DEF m
    <3>. QED  BY <3>2, <3>3
  <2>. QED  BY <2>1, <2>2
<1>. HIDE DEF k
<1>. QED  BY <1>3, <1>4, <1>5, <1>7, <1>8 DEF Leads

LEMMA LeadsTail ==
  ASSUME NEW q \in Seq(Message), q # << >>, NEW r, NEW t, NEW log, Leads(q, r, t, log)
  PROVE  \E s \in Readings : Reads(r, Head(q), s, log) /\ Leads(Tail(q), s, t, log)
<1>1. PICK g \in [0..Len(q) -> Readings] :
        g[0] = r /\ g[Len(q)] = t /\ \A i \in 1..Len(q) : Reads(g[i - 1], q[i], g[i], log)
  BY DEF Leads
<1>. DEFINE n == Len(q) - 1
            h == [i \in 0..n |-> g[i + 1]]
<1>2. /\ n \in Nat /\ Len(q) = n + 1 /\ Len(Tail(q)) = n /\ Head(q) = q[1]
      /\ \A i \in 1..n : Tail(q)[i] = q[i + 1]
  BY TailFacts
<1>. HIDE DEF n
<1>3. h \in [0..n -> Readings]
  <2>1. \A i \in 0..n : g[i + 1] \in Readings
    BY <1>2
  <2>. QED  BY <2>1
<1>4. h[0] = g[1] /\ g[1] \in Readings /\ h[n] = t
  BY <1>1, <1>2
<1>5. Reads(r, Head(q), g[1], log)
  <2>1. 1 \in 1..Len(q) /\ 1 - 1 = 0
    BY <1>2
  <2>2. Reads(g[1 - 1], q[1], g[1], log)
    BY <1>1, <2>1
  <2>. QED  BY <1>1, <1>2, <2>1, <2>2
<1>6. ASSUME NEW i \in 1..n PROVE Reads(h[i - 1], Tail(q)[i], h[i], log)
  <2>1. i + 1 \in 1..Len(q) /\ (i + 1) - 1 = i /\ i \in 0..n /\ i - 1 \in 0..n /\ (i - 1) + 1 = i
    BY <1>2
  <2>2. Reads(g[(i + 1) - 1], q[i + 1], g[i + 1], log)
    BY <1>1, <2>1
  <2>3. h[i - 1] = g[i] /\ h[i] = g[i + 1] /\ Tail(q)[i] = q[i + 1]
    BY <1>2, <2>1
  <2>. QED  BY <2>1, <2>2, <2>3
<1>. HIDE DEF h
<1>7. Leads(Tail(q), g[1], t, log)
  BY <1>2, <1>3, <1>4, <1>6 DEF Leads
<1>. QED  BY <1>4, <1>5, <1>7

(* A log that grows keeps what was in it.                                  *)
LEMMA LeadsMore ==
  ASSUME NEW q \in Seq(Message), NEW r, NEW s, NEW log \in Seq(SnapshotSet), NEW x \in SnapshotSet,
         Leads(q, r, s, log)
  PROVE  Leads(q, r, s, Append(log, x))
<1>1. PICK g \in [0..Len(q) -> Readings] :
        g[0] = r /\ g[Len(q)] = s /\ \A i \in 1..Len(q) : Reads(g[i - 1], q[i], g[i], log)
  BY DEF Leads
<1>2. ASSUME NEW u \in Readings, NEW e, NEW v, Reads(u, e, v, log) PROVE Reads(u, e, v, Append(log, x))
  <2>1. u.commits \in Nat
    BY DEF Readings
  <2>2. u.commits < Len(log) => /\ u.commits < Len(Append(log, x))
                                /\ Append(log, x)[u.commits + 1] = log[u.commits + 1]
    BY <2>1
  <2>. QED  BY <1>2, <2>2 DEF Reads
<1>3. ASSUME NEW i \in 1..Len(q) PROVE Reads(g[i - 1], q[i], g[i], Append(log, x))
  <2>1. g[i - 1] \in Readings
    OBVIOUS
  <2>. QED  BY <1>1, <1>2, <2>1
<1>. QED  BY <1>1, <1>3 DEF Leads
-----------------------------------------------------------------------------
(* What the events of an advertisement do, part by part.                   *)
LEMMA DefaultType ==
  FeedbackTranche \in TrancheSet /\ << >> \in Seq(TrancheSet) /\ 0 \in Devices
<1>1. << >> \in Seq(Entries)
  OBVIOUS
<1>. QED  BY <1>1 DEF FeedbackTranche, Tranche, TrancheSet, Devices, Flags

LEMMA ReadingType ==
  ASSUME NEW tbl \in Seq(Entries), NEW m \in Devices, NEW t \in TrancheSet,
         NEW ts \in Seq(TrancheSet), NEW n \in Nat
  PROVE  /\ Reading(tbl, m, t, ts, n) \in Readings
         /\ Fresh(tbl, n) \in Readings
BY DefaultType DEF Reading, Readings, Fresh

(* The batches of a tranche: its formats grow by what each one names.      *)
LEMMA BatchesRead ==
  ASSUME NEW o \in Objects, NEW tbl \in Seq(Entries), NEW t \in RawTranche, NEW m \in Devices,
         NEW ts \in Seq(TrancheSet), NEW n \in Nat, NEW log
  PROVE  Leads([i \in DOMAIN t.indices |-> Event(o, "formats", t.indices[i])],
               Reading(tbl, m, Tranche(t.target_device, t.flags, << >>), ts, n),
               Reading(tbl, m, DescribedTranche(tbl, t), ts, n), log)
<1>. DEFINE ss == Batches(tbl, t)
            q == [i \in DOMAIN t.indices |-> Event(o, "formats", t.indices[i])]
            L == Len(t.indices)
            at(f) == Reading(tbl, m, Tranche(t.target_device, t.flags, f), ts, n)
<1>1. /\ t.indices \in Seq(Seq(Nat)) /\ t.target_device \in Devices /\ t.flags \in Flags
      /\ L \in Nat /\ DOMAIN t.indices = 1..L
  BY DEF RawTranche
<1>2. ss \in Seq(Seq(Entries)) /\ Len(ss) = L
  BY DescribedType
<1>3. PICK f \in [0..L -> Seq(Entries)] : Strings(f, ss, L) /\ FlattenSeq(ss) = f[L]
  BY <1>2, Flattened
<1>4. DescribedTranche(tbl, t) = Tranche(t.target_device, t.flags, f[L])
  BY <1>3 DEF DescribedTranche, Batches
<1>5. \A i \in 1..L : ss[i] = Resolved(tbl, t.indices[i])
  BY <1>1 DEF Batches
<1>6. Len(q) = L /\ \A i \in 1..L : q[i] = Event(o, "formats", t.indices[i])
  <2>1. q = [i \in 1..L |-> Event(o, "formats", t.indices[i])]
    BY <1>1
  <2>. HIDE DEF q
  <2>. QED  BY <1>1, <2>1
<1>. HIDE DEF ss, q
<1>. DEFINE g == [i \in 0..L |-> at(f[i])]
<1>7. g \in [0..L -> Readings]
  <2>1. ASSUME NEW i \in 0..L PROVE at(f[i]) \in Readings
    <3>1. f[i] \in Seq(Entries)
      BY <1>3
    <3>2. Tranche(t.target_device, t.flags, f[i]) \in TrancheSet
      BY <1>1, <3>1 DEF Tranche, TrancheSet
    <3>. QED  BY <3>2, ReadingType
  <2>. HIDE DEF at
  <2>. QED  BY <2>1
<1>8. g[0] = at(<< >>) /\ g[L] = at(f[L])
  BY <1>1, <1>3 DEF Strings
<1>9. ASSUME NEW i \in 1..L PROVE Reads(g[i - 1], q[i], g[i], log)
  <2>1. g[i] = at(f[i]) /\ g[i - 1] = at(f[i - 1])
    <3>1. i \in 0..L /\ i - 1 \in 0..L
      BY <1>1
    <3>. HIDE DEF at
    <3>. QED  BY <3>1
  <2>2. f[i] = Join(f[i - 1], Resolved(tbl, t.indices[i]))
    BY <1>3, <1>5 DEF Strings
  <2>3. q[i].type = "formats" /\ q[i].arg = t.indices[i]
    <3>1. q[i] = Event(o, "formats", t.indices[i])
      BY <1>6
    <3>. QED  BY <3>1 DEF Event
  <2>4. Reads(at(f[i - 1]), q[i], at(f[i]), log)
    BY <2>2, <2>3 DEF Reads, Reading, Tranche
  <2>. HIDE DEF at, g
  <2>. QED  BY <2>1, <2>4
<1>10. Leads(q, at(<< >>), at(f[L]), log)
  <2>. HIDE DEF at, g
  <2>. QED  BY <1>6, <1>7, <1>8, <1>9 DEF Leads
<1>. QED  BY <1>4, <1>10 DEF q

(* A tranche: from the default fields to one tranche more.                 *)
LEMMA TrancheRead ==
  ASSUME NEW o \in Objects, NEW tbl \in Seq(Entries), NEW t \in RawTranche, NEW m \in Devices,
         NEW ts \in Seq(TrancheSet), NEW n \in Nat, NEW log
  PROVE  Leads(TrancheEvents(o, t), Reading(tbl, m, FeedbackTranche, ts, n),
               Reading(tbl, m, FeedbackTranche, Append(ts, DescribedTranche(tbl, t)), n), log)
<1>. DEFINE at(tr) == Reading(tbl, m, tr, ts, n)
            end == Reading(tbl, m, FeedbackTranche, Append(ts, DescribedTranche(tbl, t)), n)
            qt == IF t.target_device = 0 THEN << >> ELSE << Event(o, "target", t.target_device) >>
            qf == << Event(o, "flags", t.flags) >>
            qb == [i \in DOMAIN t.indices |-> Event(o, "formats", t.indices[i])]
            qd == << Event(o, "tranche_done", 0) >>
            t1 == Tranche(t.target_device, 0, << >>)
            t2 == Tranche(t.target_device, t.flags, << >>)
            t3 == DescribedTranche(tbl, t)
<1>1. t.indices \in Seq(Seq(Nat)) /\ t.target_device \in Devices /\ t.flags \in Flags
  BY DEF RawTranche
<1>2. /\ Event(o, "target", t.target_device) \in Message /\ Event(o, "flags", t.flags) \in Message
      /\ Event(o, "tranche_done", 0) \in Message
  BY <1>1 DEF Event, Message
<1>3. t1 \in TrancheSet /\ t2 \in TrancheSet /\ t3 \in TrancheSet /\ FeedbackTranche \in TrancheSet
  <2>1. << >> \in Seq(Entries) /\ 0 \in Flags /\ 0 \in Devices
    BY DEF Flags, Devices
  <2>2. t3 \in TrancheSet
    BY DescribedType
  <2>. QED  BY <1>1, <2>1, <2>2 DEF Tranche, TrancheSet, FeedbackTranche
<1>4. at(FeedbackTranche) \in Readings /\ at(t1) \in Readings /\ at(t2) \in Readings /\ at(t3) \in Readings
  <2>. HIDE DEF t1, t2, t3
  <2>. QED  BY <1>3, ReadingType
<1>5. end \in Readings
  <2>1. Append(ts, t3) \in Seq(TrancheSet)
    <3>. HIDE DEF t3
    <3>. QED  BY <1>3
  <2>. QED  BY <1>3, <2>1, ReadingType
<1>6. Leads(qt, at(FeedbackTranche), at(t1), log)
  <2>1. CASE t.target_device = 0
    <3>1. t1 = FeedbackTranche /\ qt = << >>
      BY <2>1 DEF FeedbackTranche
    <3>. HIDE DEF t1, qt, at
    <3>. QED  BY <1>4, <3>1, LeadsNone
  <2>2. CASE t.target_device # 0
    <3>1. Reads(at(FeedbackTranche), Event(o, "target", t.target_device), at(t1), log)
      BY DEF Reads, Reading, Tranche, Event, FeedbackTranche
    <3>2. qt = << Event(o, "target", t.target_device) >>
      BY <2>2
    <3>. HIDE DEF t1, qt, at
    <3>. QED  BY <1>2, <1>4, <3>1, <3>2, LeadsOne
  <2>. QED  BY <2>1, <2>2
<1>7. Leads(qf, at(t1), at(t2), log)
  <2>1. Reads(at(t1), Event(o, "flags", t.flags), at(t2), log)
    BY DEF Reads, Reading, Tranche, Event
  <2>. HIDE DEF t1, t2, at
  <2>. QED  BY <1>2, <1>4, <2>1, LeadsOne
<1>8. Leads(qb, at(t2), at(t3), log)
  BY BatchesRead
<1>9. Leads(qd, at(t3), end, log)
  <2>1. Reads(at(t3), Event(o, "tranche_done", 0), end, log)
    BY DEF Reads, Reading, Event
  <2>. HIDE DEF t3, at, end
  <2>. QED  BY <1>2, <1>4, <1>5, <2>1, LeadsOne
<1>10. qt \in Seq(Message) /\ qf \in Seq(Message) /\ qd \in Seq(Message)
  BY <1>2
<1>11. qb \in Seq(Message)
  <2>1. \A i \in 1..Len(t.indices) : Event(o, "formats", t.indices[i]) \in Message
    BY <1>1 DEF Event, Message
  <2>2. DOMAIN t.indices = 1..Len(t.indices) /\ Len(t.indices) \in Nat
    BY <1>1
  <2>. DEFINE ev(i) == Event(o, "formats", t.indices[i])
  <2>. HIDE DEF ev
  <2>3. [i \in 1..Len(t.indices) |-> ev(i)] \in Seq(Message)
    BY <2>1, <2>2 DEF ev
  <2>. QED  BY <2>2, <2>3 DEF ev
<1>12. TrancheEvents(o, t) = ((qt \o qf) \o qb) \o qd
  BY DEF TrancheEvents
<1>. HIDE DEF at, end, qt, qf, qb, qd, t1, t2, t3
<1>13. Leads(qt \o qf, at(FeedbackTranche), at(t2), log) /\ qt \o qf \in Seq(Message)
  BY <1>6, <1>7, <1>10, LeadsOn, ConcatFacts
<1>14. Leads((qt \o qf) \o qb, at(FeedbackTranche), at(t3), log) /\ (qt \o qf) \o qb \in Seq(Message)
  BY <1>8, <1>11, <1>13, LeadsOn, ConcatFacts
<1>15. Leads(((qt \o qf) \o qb) \o qd, at(FeedbackTranche), end, log)
  BY <1>9, <1>10, <1>14, LeadsOn
<1>. QED  BY <1>12, <1>15 DEF at, end

(* All tranches, one after the other.                                      *)
LEMMA TranchesRead ==
  ASSUME NEW o \in Objects, NEW tbl \in Seq(Entries), NEW a \in Advert, NEW m \in Devices,
         NEW n \in Nat, NEW log
  PROVE  Leads(FlattenSeq([i \in DOMAIN a.tranches |-> TrancheEvents(o, a.tranches[i])]),
               Reading(tbl, m, FeedbackTranche, << >>, n),
               Reading(tbl, m, FeedbackTranche, Described(tbl, a).tranches, n), log)
<1>. DEFINE ss == [i \in DOMAIN a.tranches |-> TrancheEvents(o, a.tranches[i])]
            L == Len(a.tranches)
            D(i) == DescribedTranche(tbl, a.tranches[i])
            first(k) == [i \in 1..k |-> D(i)]
            at(ts) == Reading(tbl, m, FeedbackTranche, ts, n)
<1>1. a.tranches \in Seq(RawTranche) /\ L \in Nat /\ DOMAIN a.tranches = 1..L
  BY DEF Advert
<1>2. ss \in Seq(Seq(Message))
  BY StreamType
<1>3. Len(ss) = L /\ \A i \in 1..L : ss[i] = TrancheEvents(o, a.tranches[i])
  BY <1>1
<1>. HIDE DEF ss, L
<1>4. PICK f \in [0..L -> Seq(Message)] : Strings(f, ss, L) /\ FlattenSeq(ss) = f[L]
  BY <1>2, <1>3, Flattened
<1>5. \A i \in 1..L : a.tranches[i] \in RawTranche
  BY <1>1 DEF L
<1>6. \A i \in 1..L : D(i) \in TrancheSet
  BY <1>5, DescribedType
<1>. HIDE DEF D
<1>7. \A k \in 0..L : first(k) \in Seq(TrancheSet)
  <2>. SUFFICES ASSUME NEW k \in 0..L PROVE first(k) \in Seq(TrancheSet)
    OBVIOUS
  <2>1. k \in Nat /\ \A i \in 1..k : D(i) \in TrancheSet
    BY <1>1, <1>6
  <2>2. first(k) \in [1..k -> TrancheSet]
    BY <2>1
  <2>. HIDE DEF first
  <2>. QED  BY <2>1, <2>2, ListOf
<1>8. ASSUME NEW k \in 0..L, k + 1 \in 1..L PROVE first(k + 1) = Append(first(k), D(k + 1))
  <2>1. k \in Nat /\ k + 1 \in 0..L
    BY <1>1, <1>8
  <2>2. first(k) \in Seq(TrancheSet) /\ first(k + 1) \in Seq(TrancheSet)
    <3>. HIDE DEF first
    <3>. QED  BY <1>7, <2>1
  <2>3. Len(first(k)) = k /\ Len(first(k + 1)) = k + 1
    BY <2>1, <2>2
  <2>4. Append(first(k), D(k + 1)) \in Seq(TrancheSet) /\ Len(Append(first(k), D(k + 1))) = k + 1
    <3>. HIDE DEF first
    <3>. QED  BY <1>6, <1>8, <2>1, <2>2, <2>3
  <2>5. ASSUME NEW i \in 1..k+1 PROVE first(k + 1)[i] = Append(first(k), D(k + 1))[i]
    <3>1. first(k + 1)[i] = D(i) /\ (i \in 1..k => first(k)[i] = D(i))
      BY <2>1
    <3>. HIDE DEF first
    <3>2. i \in 1..k \/ i = k + 1
      BY <2>1
    <3>. QED  BY <2>1, <2>2, <2>3, <3>1, <3>2
  <2>. HIDE DEF first
  <2>. QED  BY <2>1, <2>2, <2>3, <2>4, <2>5
<1>. DEFINE T == {k \in Nat : k <= L => Leads(f[k], at(<< >>), at(first(k)), log)}
<1>9. 0 \in T
  <2>1. first(0) = << >>
    OBVIOUS
  <2>2. f[0] = << >>
    BY <1>4 DEF Strings
  <2>3. at(<< >>) \in Readings
    BY DefaultType, ReadingType
  <2>. HIDE DEF at, first
  <2>. QED  BY <2>1, <2>2, <2>3, LeadsNone
<1>10. ASSUME NEW k \in T PROVE k + 1 \in T
  <2>. SUFFICES ASSUME k + 1 <= L PROVE Leads(f[k + 1], at(<< >>), at(first(k + 1)), log)
    OBVIOUS
  <2>1. k \in 0..L /\ k + 1 \in 1..L /\ k + 1 - 1 = k
    BY <1>1
  <2>2. Leads(f[k], at(<< >>), at(first(k)), log)
    BY <2>1
  <2>3. f[k + 1] = Join(f[k], TrancheEvents(o, a.tranches[k + 1]))
    BY <1>3, <1>4, <2>1 DEF Strings
  <2>4. first(k) \in Seq(TrancheSet) /\ a.tranches[k + 1] \in RawTranche
    BY <1>5, <1>7, <2>1
  <2>. HIDE DEF first
  <2>5. Leads(TrancheEvents(o, a.tranches[k + 1]), at(first(k)), at(Append(first(k), D(k + 1))), log)
    BY <2>4, TrancheRead DEF D
  <2>6. first(k + 1) = Append(first(k), D(k + 1))
    BY <1>8, <2>1
  <2>7. f[k] \in Seq(Message) /\ TrancheEvents(o, a.tranches[k + 1]) \in Seq(Message)
    BY <2>1, <2>4, StreamType
  <2>. HIDE DEF at
  <2>8. Leads(TrancheEvents(o, a.tranches[k + 1]), at(first(k)), at(first(k + 1)), log)
    BY <2>5, <2>6
  <2>9. Leads(f[k] \o TrancheEvents(o, a.tranches[k + 1]), at(<< >>), at(first(k + 1)), log)
    BY <2>2, <2>7, <2>8, LeadsOn
  <2>. QED  BY <2>3, <2>9 DEF Join
<1>11. T = Nat
  <2>. HIDE DEF T
  <2>1. T \in SUBSET Nat
    BY DEF T
  <2>. QED  BY <1>9, <1>10, <2>1, Induction
<1>12. Leads(f[L], at(<< >>), at(first(L)), log)
  <2>1. L \in T /\ L <= L
    <3>. HIDE DEF T
    <3>. QED  BY <1>1, <1>11
  <2>. HIDE DEF at, first
  <2>. QED  BY <2>1
<1>13. first(L) = Described(tbl, a).tranches
  BY <1>1 DEF Described, FeedbackSnapshot, D
<1>. HIDE DEF first, at
<1>. QED  BY <1>4, <1>12, <1>13 DEF at, ss

(* The whole stream: from one advertisement to the next.                   *)
LEMMA StreamRead ==
  ASSUME NEW o \in Objects, NEW a \in Advert, NEW old \in Seq(Entries), NEW n \in Nat, NEW log,
         NEW tbl \in Seq(Entries), tbl = IF a.table # << >> THEN a.table ELSE old,
         n < Len(log), log[n + 1] = Described(tbl, a)
  PROVE  Leads(Stream(o, a), Fresh(old, n), Fresh(tbl, n + 1), log)
<1>. DEFINE m == a.main_device
            ts == Described(tbl, a).tranches
            s2 == Reading(tbl, m, FeedbackTranche, << >>, n)
            s3 == Reading(tbl, m, FeedbackTranche, ts, n)
            qt == IF a.table = << >> THEN << >> ELSE << Event(o, "table", a.table) >>
            qm == << Event(o, "main", m) >>
            qs == FlattenSeq([i \in DOMAIN a.tranches |-> TrancheEvents(o, a.tranches[i])])
            qd == << Event(o, "done", 0) >>
<1>1. a.tranches \in Seq(RawTranche) /\ m \in Devices /\ a.table \in Seq(Entries)
  BY DEF Advert
<1>2. /\ Event(o, "table", a.table) \in Message /\ Event(o, "main", m) \in Message
      /\ Event(o, "done", 0) \in Message
  BY <1>1 DEF Event, Message
<1>3. ts \in Seq(TrancheSet) /\ Described(tbl, a) = FeedbackSnapshot(m, ts)
  <2>1. Described(tbl, a) \in SnapshotSet
    BY DescribedType
  <2>. QED  BY <2>1 DEF Described, FeedbackSnapshot, SnapshotSet
<1>. HIDE DEF ts
<1>4. FeedbackTranche \in TrancheSet /\ << >> \in Seq(TrancheSet) /\ 0 \in Devices
  BY DefaultType
<1>5. /\ Fresh(old, n) \in Readings /\ Fresh(tbl, n) \in Readings /\ Fresh(tbl, n + 1) \in Readings
      /\ s2 \in Readings /\ s3 \in Readings
  <2>1. n + 1 \in Nat
    OBVIOUS
  <2>. QED  BY <1>1, <1>3, <1>4, <2>1, ReadingType
<1>6. Leads(qt, Fresh(old, n), Fresh(tbl, n), log)
  <2>1. CASE a.table = << >>
    <3>1. tbl = old /\ qt = << >>
      BY <2>1
    <3>. QED  BY <1>5, <3>1, LeadsNone
  <2>2. CASE a.table # << >>
    <3>1. tbl = a.table /\ qt = << Event(o, "table", a.table) >>
      BY <2>2
    <3>2. Reads(Fresh(old, n), Event(o, "table", a.table), Fresh(tbl, n), log)
      BY <3>1 DEF Reads, Fresh, Reading, Event
    <3>. QED  BY <1>2, <1>5, <3>1, <3>2, LeadsOne
  <2>. QED  BY <2>1, <2>2
<1>7. Leads(qm, Fresh(tbl, n), s2, log)
  <2>1. Reads(Fresh(tbl, n), Event(o, "main", m), s2, log)
    BY DEF Reads, Fresh, Reading, Event
  <2>. HIDE DEF s2
  <2>. QED  BY <1>2, <1>5, <2>1, LeadsOne
<1>8. Leads(qs, s2, s3, log)
  BY <1>1, TranchesRead DEF ts
<1>9. Leads(qd, s3, Fresh(tbl, n + 1), log)
  <2>1. Reads(s3, Event(o, "done", 0), Fresh(tbl, n + 1), log)
    BY <1>3 DEF Reads, Fresh, Reading, Event
  <2>. HIDE DEF s3
  <2>. QED  BY <1>2, <1>5, <2>1, LeadsOne
<1>10. qt \in Seq(Message) /\ qm \in Seq(Message) /\ qd \in Seq(Message)
  BY <1>2
<1>11. qs \in Seq(Message)
  BY StreamType, FlattenType
<1>12. Stream(o, a) = ((qt \o qm) \o qs) \o qd
  BY DEF Stream
<1>. HIDE DEF qt, qm, qs, qd, s2, s3
<1>13. Leads(qt \o qm, Fresh(old, n), s2, log) /\ qt \o qm \in Seq(Message)
  BY <1>6, <1>7, <1>10, LeadsOn, ConcatFacts
<1>14. Leads((qt \o qm) \o qs, Fresh(old, n), s3, log) /\ (qt \o qm) \o qs \in Seq(Message)
  BY <1>8, <1>11, <1>13, LeadsOn, ConcatFacts
<1>15. Leads(((qt \o qm) \o qs) \o qd, Fresh(old, n), Fresh(tbl, n + 1), log)
  BY <1>9, <1>10, <1>14, LeadsOn
<1>. QED  BY <1>12, <1>15
-----------------------------------------------------------------------------
(* Types.                                                                  *)
LEMMA EventType ==
  ASSUME NEW e \in Message
  PROVE  /\ e.type = "format" => e.arg \in Entries /\ e.obj = "dmabuf"
         /\ e.type # "format" => e.obj \in Objects
         /\ e.type = "table" => e.arg \in Seq(Entries)
         /\ e.type \in {"main", "target"} => e.arg \in Devices
         /\ e.type = "flags" => e.arg \in Flags
         /\ e.type = "formats" => e.arg \in Seq(Nat)
BY DEF Message

LEMMA DispatchType ==
  ASSUME TypeOK, Dispatch
  PROVE  TypeOK'
<1>1. events' \in Seq(Message) /\ Head(events) \in Message
  BY TailFacts DEF TypeOK, Dispatch
<1>2. CASE UNCHANGED client
  BY <1>1, <1>2 DEF TypeOK, Dispatch, client, pending
<1>3. CASE Handle(Head(events))
  <2>. DEFINE e == Head(events)
  <2>0. e \in Message
    BY <1>1
  <2>. HIDE DEF e
  <2>1. CASE e.type = "format" /\ LegacyFormat(e.arg)
    <3>1. e.arg \in Entries /\ legacy_tranche.formats \in Seq(Entries)
      BY <2>0, <2>1, EventType DEF TypeOK, TrancheSet
    <3>2. Append(legacy_tranche.formats, e.arg) \in Seq(Entries)
      BY <3>1
    <3>3. legacy_tranche' \in TrancheSet
      BY <2>1, <3>2 DEF LegacyFormat, TypeOK, TrancheSet
    <3>. QED  BY <1>1, <2>1, <3>3 DEF LegacyFormat, TypeOK, Dispatch, pending
  <2>2. CASE e.type = "table" /\ FormatTable(e.arg)
    <3>1. table' \in Seq(Entries)
      <4>1. << >> \in Seq(Entries)
        OBVIOUS
      <4>. QED  BY <2>0, <2>2, <4>1, EventType DEF FormatTable
    <3>. QED  BY <1>1, <2>2, <3>1 DEF FormatTable, TypeOK, Dispatch, pending
  <2>3. CASE e.type = "main" /\ MainDevice(e.arg)
    <3>1. e.arg \in Devices
      BY <2>0, <2>3, EventType
    <3>. QED  BY <1>1, <2>3, <3>1 DEF MainDevice, TypeOK, Dispatch
  <2>4. CASE TrancheField(e) /\ UNCHANGED <<table, pending_main, pending_tranches, current, commits, legacy_tranche>>
    <3>1. CASE e.type = "formats" /\ pending_tranche' = [pending_tranche EXCEPT !.formats = @ \o Resolved(table, e.arg)]
      <4>1. Resolved(table, e.arg) \in Seq(Entries) /\ pending_tranche.formats \in Seq(Entries)
        BY <2>0, <3>1, EventType, ResolvedType DEF TypeOK, TrancheSet
      <4>2. pending_tranche.formats \o Resolved(table, e.arg) \in Seq(Entries)
        BY <4>1
      <4>3. pending_tranche' \in TrancheSet
        BY <3>1, <4>2 DEF TypeOK, TrancheSet
      <4>. QED  BY <1>1, <2>4, <4>3 DEF TypeOK, Dispatch
    <3>2. CASE e.type = "target" /\ pending_tranche' = [pending_tranche EXCEPT !.target_device = e.arg]
      <4>1. e.arg \in Devices
        BY <2>0, <3>2, EventType
      <4>2. pending_tranche' \in TrancheSet
        BY <3>2, <4>1 DEF TypeOK, TrancheSet
      <4>. QED  BY <1>1, <2>4, <4>2 DEF TypeOK, Dispatch
    <3>3. CASE e.type = "flags" /\ pending_tranche' = [pending_tranche EXCEPT !.flags = e.arg]
      <4>1. e.arg \in Flags
        BY <2>0, <3>3, EventType
      <4>2. pending_tranche' \in TrancheSet
        BY <3>3, <4>1 DEF TypeOK, TrancheSet
      <4>. QED  BY <1>1, <2>4, <4>2 DEF TypeOK, Dispatch
    <3>. QED  BY <2>4, <3>1, <3>2, <3>3 DEF TrancheField
  <2>5. CASE /\ e.type = "tranche_done" /\ TrancheDone
             /\ UNCHANGED <<table, pending_main, current, commits, legacy_tranche>>
    <3>1. pending_tranches' \in Seq(TrancheSet)
      BY <2>5 DEF TrancheDone, TypeOK
    <3>. QED  BY <1>1, <2>5, <3>1, DefaultType DEF TrancheDone, TypeOK, Dispatch
  <2>6. CASE e.type = "done" /\ Done
    <3>1. current' \in SnapshotSet
      BY <2>6 DEF Done, TypeOK, FeedbackSnapshot, SnapshotSet
    <3>. QED  BY <1>1, <2>6, <3>1, DefaultType DEF Done, TypeOK, Dispatch
  <2>. QED  BY <1>3, <2>1, <2>2, <2>3, <2>4, <2>5, <2>6 DEF Handle, e
<1>. QED  BY <1>2, <1>3 DEF Dispatch

LEMMA LegacyType ==
  ASSUME NEW t \in TrancheSet
  PROVE  FeedbackSnapshot(0, << t >>) \in SnapshotSet
<1>1. << t >> \in Seq(TrancheSet)
  OBVIOUS
<1>. QED  BY <1>1, DefaultType DEF FeedbackSnapshot, SnapshotSet

LEMMA BindType ==
  ASSUME TypeOK, Bind
  PROVE  TypeOK'
<1>1. ver' \in 0..MaxVersion
  BY VersionsAssumption DEF Bind, BoundVersion, MaxVersion
<1>2. CASE UNCHANGED <<events, sent>>
  BY <1>1, <1>2 DEF Bind, TypeOK, client, pending
<1>3. ASSUME NEW formats \in Seq(Entries),
             events' = [i \in DOMAIN formats |-> Event("dmabuf", "format", formats[i])],
             sent' = << LegacyAdvert(formats) >>
      PROVE  TypeOK'
  <2>1. \A i \in 1..Len(formats) : Event("dmabuf", "format", formats[i]) \in Message
    BY DEF Event, Message
  <2>2. events' \in Seq(Message)
    <3>. DEFINE ev(i) == Event("dmabuf", "format", formats[i])
    <3>. HIDE DEF ev
    <3>1. Len(formats) \in Nat /\ DOMAIN formats = 1..Len(formats)
      OBVIOUS
    <3>2. [i \in 1..Len(formats) |-> ev(i)] \in Seq(Message)
      BY <2>1, <3>1 DEF ev
    <3>. QED  BY <1>3, <3>1, <3>2 DEF ev
  <2>3. Tranche(0, 0, formats) \in TrancheSet
    BY DEF Tranche, TrancheSet, Devices, Flags
  <2>4. LegacyAdvert(formats) \in SnapshotSet
    BY <2>3, LegacyType DEF LegacyAdvert
  <2>5. sent' \in Seq(SnapshotSet)
    BY <1>3, <2>4
  <2>. QED  BY <1>1, <2>2, <2>5 DEF Bind, TypeOK, client, pending
<1>4. ASSUME NEW n \in Nat, NEW formats \in [1..n -> Entries] PROVE formats \in Seq(Entries)
  OBVIOUS
<1>5. CASE ~ UNCHANGED <<events, sent>>
  <2>1. PICK formats \in [1..IF ver' = 0 THEN 0 ELSE NumFormats -> Entries] :
          /\ events' = [i \in DOMAIN formats |-> Event("dmabuf", "format", formats[i])]
          /\ sent' = << LegacyAdvert(formats) >>
    BY <1>5 DEF Bind
  <2>2. formats \in Seq(Entries)
    BY <1>4, BoundAssumption
  <2>. QED  BY <1>3, <2>1, <2>2
<1>. QED  BY <1>2, <1>5

LEMMA AdvertiseType ==
  ASSUME TypeOK, NEW o \in Objects, NEW a \in Adverts, Advertise(o, a)
  PROVE  /\ TypeOK' /\ a \in Advert /\ TableFor(o, a) \in Seq(Entries)
         /\ Described(TableFor(o, a), a) \in SnapshotSet
<1>1. a \in Advert
  BY AdvertsAssumption
<1>2. TableFor(o, a) \in Seq(Entries)
  BY <1>1 DEF TableFor, Advert, TypeOK
<1>3. Described(TableFor(o, a), a) \in SnapshotSet
  BY <1>1, <1>2, DescribedType
<1>4. Stream(o, a) \in Seq(Message)
  BY <1>1, StreamType
<1>5. events' \in Seq(Message) /\ sent' \in Seq(SnapshotSet)
  BY <1>3, <1>4, ConcatFacts DEF Advertise, TypeOK
<1>6. server_table' \in [Objects -> Seq(Entries)]
  BY <1>2 DEF Advertise, TypeOK
<1>. QED  BY <1>1, <1>2, <1>3, <1>5, <1>6 DEF Advertise, TypeOK, client, pending

LEMMA TypeStep == TypeOK /\ [Next]_vars => TypeOK'
<1>. SUFFICES ASSUME TypeOK, [Next]_vars PROVE TypeOK'
  OBVIOUS
<1>1. CASE Bind
  BY <1>1, BindType
<1>2. CASE CommitLegacy
  <2>1. current' \in SnapshotSet
    BY <1>2, LegacyType DEF CommitLegacy, TypeOK
  <2>. QED  BY <1>2, <2>1, DefaultType DEF CommitLegacy, TypeOK, pending
<1>3. CASE Release
  BY <1>3 DEF Release, TypeOK, client, pending, Null
<1>4. CASE Dispatch
  BY <1>4, DispatchType
<1>5. ASSUME NEW o \in Objects, Start(o) PROVE TypeOK'
  BY <1>5 DEF Start, TypeOK, client, pending
<1>6. ASSUME NEW o \in Objects, NEW a \in Adverts, Advertise(o, a) PROVE TypeOK'
  BY <1>6, AdvertiseType
<1>7. CASE UNCHANGED vars
  BY <1>7 DEF vars, client, pending, TypeOK
<1>. QED  BY <1>1, <1>2, <1>3, <1>4, <1>5, <1>6, <1>7 DEF Next

(* Each variable keeps its type: whole snapshots of well-formed tranches,  *)
(* and events that carry what their type says.                             *)
THEOREM FeedbackTypeOK == Spec => []TypeOK
<1>1. Init => TypeOK
  <2>1. << >> \in Seq(Entries) /\ << >> \in Seq(Message) /\ << >> \in Seq(SnapshotSet)
    OBVIOUS
  <2>. QED  BY <2>1, DefaultType DEF Init, TypeOK, MaxVersion, Objects, FeedbackSnapshot, SnapshotSet
<1>. QED  BY <1>1, TypeStep, PTL DEF Spec
-----------------------------------------------------------------------------
(* A handler that could not read its table has the same tranches as one    *)
(* that could, without their formats.                                      *)
Bare(t) == Tranche(t.target_device, t.flags, << >>)
BareAll(ts) == [i \in DOMAIN ts |-> Bare(ts[i])]

LEMMA WithFormats ==
  ASSUME NEW t \in TrancheSet, NEW f
  PROVE  [t EXCEPT !.formats = f] = Tranche(t.target_device, t.flags, f)
<1>1. t = [target_device |-> t.target_device, flags |-> t.flags, formats |-> t.formats]
  BY DEF TrancheSet
<1>. QED  BY <1>1 DEF Tranche

LEMMA BareFacts ==
  /\ Bare(FeedbackTranche) = FeedbackTranche /\ BareAll(<< >>) = << >>
  /\ \A ts \in Seq(TrancheSet), t \in TrancheSet :
       BareAll(Append(ts, t)) = Append(BareAll(ts), Bare(t))
  /\ \A ts \in Seq(TrancheSet), m \in Devices :
       S!WithoutFormats(FeedbackSnapshot(m, ts)) = FeedbackSnapshot(m, BareAll(ts))
<1>1. Bare(FeedbackTranche) = FeedbackTranche /\ BareAll(<< >>) = << >>
  BY DEF Bare, BareAll, FeedbackTranche, Tranche
<1>0. \A t \in TrancheSet : Bare(t) \in TrancheSet
  <2>1. << >> \in Seq(Entries)
    OBVIOUS
  <2>. QED  BY <2>1 DEF Bare, Tranche, TrancheSet
<1>2. ASSUME NEW ts \in Seq(TrancheSet), NEW t \in TrancheSet
      PROVE  BareAll(Append(ts, t)) = Append(BareAll(ts), Bare(t))
  <2>. DEFINE n == Len(ts)
              u == Append(ts, t)
              b == BareAll(ts)
  <2>1. n \in Nat /\ DOMAIN ts = 1..n /\ DOMAIN u = 1..n+1 /\ u[n + 1] = t
    OBVIOUS
  <2>2. \A i \in 1..n : u[i] = ts[i] /\ ts[i] \in TrancheSet
    OBVIOUS
  <2>. HIDE DEF n, u
  <2>3. b = [i \in 1..n |-> Bare(ts[i])] /\ BareAll(u) = [i \in 1..n+1 |-> Bare(u[i])]
    BY <2>1 DEF BareAll
  <2>4. b \in [1..n -> TrancheSet]
    BY <1>0, <2>2, <2>3
  <2>5. b \in Seq(TrancheSet) /\ Len(b) = n /\ Bare(t) \in TrancheSet
    <3>. HIDE DEF b
    <3>. QED  BY <1>0, <2>1, <2>4, ListOf
  <2>6. \A i \in 1..n : b[i] = Bare(ts[i])
    BY <2>3
  <2>. HIDE DEF b
  <2>7. /\ DOMAIN Append(b, Bare(t)) = 1..n+1 /\ Append(b, Bare(t))[n + 1] = Bare(t)
        /\ \A i \in 1..n : Append(b, Bare(t))[i] = b[i]
        /\ Append(b, Bare(t)) \in Seq(TrancheSet) /\ Len(Append(b, Bare(t))) = n + 1
    BY <2>1, <2>5
  <2>. DEFINE c == Append(b, Bare(t))
              d == BareAll(u)
  <2>. HIDE DEF c
  <2>8. d \in [1..n+1 -> TrancheSet]
    <3>1. \A i \in 1..n+1 : u[i] \in TrancheSet
      <4>1. \A i \in 1..n+1 : i \in 1..n \/ i = n + 1
        BY <2>1
      <4>. QED  BY <2>1, <2>2, <4>1
    <3>. QED  BY <1>0, <2>3, <3>1
  <2>9. ASSUME NEW i \in 1..n+1 PROVE c[i] = d[i]
    <3>1. i \in 1..n \/ i = n + 1
      BY <2>1
    <3>2. d[i] = Bare(u[i])
      BY <2>3
    <3>. QED  BY <2>1, <2>2, <2>6, <2>7, <3>1, <3>2 DEF c
  <2>10. c \in Seq(TrancheSet) /\ Len(c) = n + 1
    BY <2>7 DEF c
  <2>. HIDE DEF d
  <2>11. d \in Seq(TrancheSet) /\ Len(d) = n + 1
    <3>1. n + 1 \in Nat
      BY <2>1
    <3>. QED  BY <2>8, <3>1, ListOf
  <2>12. d = c
    BY <2>9, <2>10, <2>11
  <2>. QED  BY <2>12 DEF u, c, b, d
<1>3. ASSUME NEW ts \in Seq(TrancheSet), NEW m \in Devices
      PROVE  S!WithoutFormats(FeedbackSnapshot(m, ts)) = FeedbackSnapshot(m, BareAll(ts))
  <2>1. ASSUME NEW i \in DOMAIN ts PROVE [ts[i] EXCEPT !.formats = << >>] = Bare(ts[i])
    <3>1. ts[i] \in TrancheSet
      OBVIOUS
    <3>. QED  BY <3>1, WithFormats DEF Bare
  <2>2. [i \in DOMAIN ts |-> [ts[i] EXCEPT !.formats = << >>]] = BareAll(ts)
    BY <2>1 DEF BareAll
  <2>. DEFINE fs == [i \in DOMAIN ts |-> [ts[i] EXCEPT !.formats = << >>]]
              x == FeedbackSnapshot(m, ts)
  <2>3. x.tranches = ts
    BY DEF FeedbackSnapshot
  <2>4. S!WithoutFormats(x) = [x EXCEPT !.tranches = fs]
    BY <2>3 DEF S!WithoutFormats
  <2>. HIDE DEF fs
  <2>5. [x EXCEPT !.tranches = fs] = FeedbackSnapshot(m, fs)
    BY DEF FeedbackSnapshot
  <2>. QED  BY <2>2, <2>4, <2>5 DEF fs
<1>. QED  BY <1>1, <1>2, <1>3

(* What the handler gathered is what r did, as far as it could read.       *)
Gathered(r) ==
  /\ pending_main = r.main /\ commits = r.commits
  /\ \/ /\ table # << >> /\ table = r.table
        /\ pending_tranche = r.tranche /\ pending_tranches = r.tranches
     \/ /\ table = << >>
        /\ pending_tranche = Bare(r.tranche) /\ pending_tranches = BareAll(r.tranches)

(* Each event takes the handler where it takes r, and commits only what is *)
(* next in the log.                                                        *)
LEMMA HandleStep ==
  ASSUME TypeOK, ver >= 4, ver' = ver, sent' = sent, NEW e \in Message, e.type # "format", Handle(e),
         NEW r \in Readings, Gathered(r), NEW s \in Readings, Reads(r, e, s, sent)
  PROVE  Gathered(s)' /\ [S!Next]_(S!vars)
<1>0. /\ r.tranche \in TrancheSet /\ r.tranches \in Seq(TrancheSet) /\ r.main \in Devices
      /\ r.commits \in Nat /\ r.table \in Seq(Entries)
  BY DEF Readings
<1>1. CASE e.type = "table" /\ FormatTable(e.arg)
  <2>1. r = Fresh(r.table, r.commits) /\ s = Fresh(e.arg, r.commits)
    BY <1>1 DEF Reads
  <2>2. r.tranche = FeedbackTranche /\ r.tranches = << >> /\ r.main = 0
    BY <2>1 DEF Fresh, Reading
  <2>3. pending_tranche = FeedbackTranche /\ pending_tranches = << >> /\ pending_main = 0
    BY <2>2, BareFacts DEF Gathered
  <2>4. /\ s.tranche = FeedbackTranche /\ s.tranches = << >> /\ s.main = 0 /\ s.table = e.arg
        /\ s.commits = commits
    BY <2>1 DEF Fresh, Reading, Gathered
  <2>5. Gathered(s)'
    BY <1>1, <2>3, <2>4, BareFacts DEF Gathered, FormatTable, pending
  <2>6. [S!Next]_(S!vars)
    BY <1>1 DEF FormatTable, S!Next, S!ReadTable, S!vars
  <2>. QED  BY <2>5, <2>6
<1>2. CASE e.type = "main" /\ MainDevice(e.arg)
  <2>1. s = Reading(r.table, e.arg, r.tranche, r.tranches, r.commits)
    BY <1>2 DEF Reads
  <2>2. s.table = r.table /\ s.main = e.arg /\ s.tranche = r.tranche /\ s.tranches = r.tranches /\ s.commits = r.commits
    BY <2>1 DEF Reading
  <2>. QED  BY <1>2, <2>2 DEF Gathered, MainDevice, S!vars
<1>3. CASE TrancheField(e) /\ UNCHANGED <<table, pending_main, pending_tranches, current, commits, legacy_tranche>>
  <2>1. UNCHANGED S!vars
    BY <1>3 DEF S!vars
  <2>2. pending_tranche \in TrancheSet
    BY DEF TypeOK
  <2>3. CASE e.type = "formats"
    <3>. DEFINE more == Resolved(r.table, e.arg)
                t == Tranche(r.tranche.target_device, r.tranche.flags, Join(r.tranche.formats, more))
    <3>1. s = Reading(r.table, r.main, t, r.tranches, r.commits)
      BY <2>3 DEF Reads
    <3>2. s.table = r.table /\ s.main = r.main /\ s.tranche = t /\ s.tranches = r.tranches /\ s.commits = r.commits
      BY <3>1 DEF Reading
    <3>3. pending_tranche' = [pending_tranche EXCEPT !.formats = @ \o Resolved(table, e.arg)]
      BY <1>3, <2>3 DEF TrancheField
    <3>4. CASE table # << >>
      <4>1. table = r.table /\ pending_tranche = r.tranche /\ pending_tranches = r.tranches
        BY <3>4 DEF Gathered
      <4>2. pending_tranche' = t
        <5>. DEFINE f == Join(r.tranche.formats, more)
        <5>1. pending_tranche' = [r.tranche EXCEPT !.formats = f]
          BY <3>3, <4>1 DEF Join
        <5>. HIDE DEF f
        <5>2. [r.tranche EXCEPT !.formats = f] = Tranche(r.tranche.target_device, r.tranche.flags, f)
          BY <1>0, WithFormats
        <5>. QED  BY <5>1, <5>2 DEF f
      <4>. HIDE DEF t, more
      <4>. QED  BY <1>3, <2>1, <3>2, <3>4, <4>1, <4>2 DEF Gathered
    <3>5. CASE table = << >>
      <4>1. pending_tranche = Bare(r.tranche) /\ pending_tranches = BareAll(r.tranches)
        BY <3>5 DEF Gathered
      <4>2. Resolved(table, e.arg) = << >>
        BY <2>3, <3>5, EventType, ResolvedType, <1>0
      <4>3. pending_tranche.formats \o Resolved(table, e.arg) = << >>
        BY <4>1, <4>2 DEF Bare, Tranche
      <4>4. pending_tranche' = Bare(r.tranche)
        BY <3>3, <4>1, <4>3 DEF Bare, Tranche
      <4>5. Bare(t) = Bare(r.tranche)
        BY DEF Bare, Tranche
      <4>. HIDE DEF t, more
      <4>. QED  BY <1>3, <2>1, <3>2, <3>5, <4>1, <4>4, <4>5 DEF Gathered
    <3>. QED  BY <3>4, <3>5
  <2>4. CASE e.type = "target"
    <3>. DEFINE t == Tranche(e.arg, r.tranche.flags, r.tranche.formats)
    <3>1. s = Reading(r.table, r.main, t, r.tranches, r.commits)
      BY <2>4 DEF Reads
    <3>2. s.table = r.table /\ s.main = r.main /\ s.tranche = t /\ s.tranches = r.tranches /\ s.commits = r.commits
      BY <3>1 DEF Reading
    <3>3. pending_tranche' = [pending_tranche EXCEPT !.target_device = e.arg]
      BY <1>3, <2>4 DEF TrancheField
    <3>4. pending_tranche = r.tranche => pending_tranche' = t
      BY <1>0, <3>3 DEF TrancheSet, Tranche
    <3>5. pending_tranche = Bare(r.tranche) => pending_tranche' = Bare(t)
      BY <3>3 DEF Bare, Tranche
    <3>. HIDE DEF t
    <3>. QED  BY <1>3, <2>1, <3>2, <3>4, <3>5 DEF Gathered
  <2>5. CASE e.type = "flags"
    <3>. DEFINE t == Tranche(r.tranche.target_device, e.arg, r.tranche.formats)
    <3>1. s = Reading(r.table, r.main, t, r.tranches, r.commits)
      BY <2>5 DEF Reads
    <3>2. s.table = r.table /\ s.main = r.main /\ s.tranche = t /\ s.tranches = r.tranches /\ s.commits = r.commits
      BY <3>1 DEF Reading
    <3>3. pending_tranche' = [pending_tranche EXCEPT !.flags = e.arg]
      BY <1>3, <2>5 DEF TrancheField
    <3>4. pending_tranche = r.tranche => pending_tranche' = t
      BY <1>0, <3>3 DEF TrancheSet, Tranche
    <3>5. pending_tranche = Bare(r.tranche) => pending_tranche' = Bare(t)
      BY <3>3 DEF Bare, Tranche
    <3>. HIDE DEF t
    <3>. QED  BY <1>3, <2>1, <3>2, <3>4, <3>5 DEF Gathered
  <2>. QED  BY <1>3, <2>3, <2>4, <2>5 DEF TrancheField
<1>4. CASE /\ e.type = "tranche_done" /\ TrancheDone
           /\ UNCHANGED <<table, pending_main, current, commits, legacy_tranche>>
  <2>1. s = Reading(r.table, r.main, FeedbackTranche, Append(r.tranches, r.tranche), r.commits)
    BY <1>4 DEF Reads
  <2>2. /\ s.table = r.table /\ s.main = r.main /\ s.tranche = FeedbackTranche
        /\ s.tranches = Append(r.tranches, r.tranche) /\ s.commits = r.commits
    BY <2>1 DEF Reading
  <2>3. BareAll(Append(r.tranches, r.tranche)) = Append(BareAll(r.tranches), Bare(r.tranche))
    BY <1>0, BareFacts
  <2>4. UNCHANGED S!vars
    BY <1>4 DEF S!vars
  <2>. QED  BY <1>4, <2>2, <2>3, <2>4, BareFacts DEF Gathered, TrancheDone
<1>5. CASE e.type = "done" /\ Done
  <2>1. /\ r.commits < Len(sent) /\ sent[r.commits + 1] = FeedbackSnapshot(r.main, r.tranches)
        /\ s = Fresh(r.table, r.commits + 1)
    BY <1>5 DEF Reads
  <2>2. /\ s.table = r.table /\ s.main = 0 /\ s.tranche = FeedbackTranche /\ s.tranches = << >>
        /\ s.commits = r.commits + 1
    BY <2>1 DEF Fresh, Reading
  <2>3. Gathered(s)'
    BY <1>5, <2>2, BareFacts DEF Gathered, Done
  <2>4. current' = IF ver >= 4 /\ table = << >> THEN S!WithoutFormats(sent[commits']) ELSE sent[commits']
    <3>1. sent[commits'] = FeedbackSnapshot(r.main, r.tranches)
      BY <1>5, <2>1 DEF Done, Gathered
    <3>2. S!WithoutFormats(FeedbackSnapshot(r.main, r.tranches)) = FeedbackSnapshot(r.main, BareAll(r.tranches))
      BY <1>0, BareFacts
    <3>3. current' = FeedbackSnapshot(pending_main, pending_tranches)
      BY <1>5 DEF Done
    <3>. QED  BY <3>1, <3>2, <3>3 DEF Gathered
  <2>5. S!Commit
    BY <1>5, <2>1, <2>4 DEF S!Commit, Done, Gathered
  <2>. QED  BY <2>3, <2>5 DEF S!Next
<1>. QED  BY <1>1, <1>2, <1>3, <1>4, <1>5 DEF Handle
-----------------------------------------------------------------------------
(* The invariant.  With a feedback object, reading the events in flight to *)
(* the end commits what the compositor described and is left with its      *)
(* table; without one, nothing was ever sent or read.                      *)
Streamed(o) ==
  /\ \A i \in 1..Len(events) : events[i].obj = o
  /\ \E r \in Readings : Gathered(r) /\ Leads(events, r, Fresh(server_table[o], Len(sent)), sent)

Unstarted ==
  /\ events = << >> /\ sent = << >> /\ commits = 0
  /\ table = << >> /\ server_table = [o \in Objects |-> << >>]
  /\ pending_main = 0 /\ pending_tranche = FeedbackTranche /\ pending_tranches = << >>

(* Below version 4 the formats still in flight complete those of the       *)
(* legacy tranche to the advertised ones.                                  *)
Completes(formats) ==
  LET got == legacy_tranche.formats
  IN  /\ Len(formats) = Len(got) + Len(events)
      /\ \A i \in 1..Len(got) : formats[i] = got[i]
      /\ \A i \in 1..Len(events) : formats[Len(got) + i] = events[i].arg

Legacy ==
  /\ \A i \in 1..Len(events) : events[i].type = "format"
  /\ commits = 0 =>
       /\ legacy_tranche.target_device = 0 /\ legacy_tranche.flags = 0
       /\ \E formats \in Seq(Entries) : sent = << LegacyAdvert(formats) >> /\ Completes(formats)

FInv ==
  /\ TypeOK
  /\ alive = IF feedback = Null THEN {} ELSE {feedback}
  /\ phase = "null" => Unstarted /\ ver = 0 /\ alive = {} /\ legacy_tranche = FeedbackTranche
  /\ phase = "bound" /\ ver < 4 => alive = {} /\ Legacy
  /\ phase = "bound" /\ ver >= 4 /\ alive = {} => Unstarted
  /\ phase = "bound" /\ ver >= 4 => \A o \in alive : Streamed(o)
  /\ phase = "released" => alive = {}

LEMMA VersionType == FInv => ver \in Nat /\ (ver < 4 <=> ~(ver >= 4))
BY DEF FInv, TypeOK, MaxVersion

LEMMA InitFInv == Init => FInv /\ S!Init
<1>. SUFFICES ASSUME Init PROVE FInv /\ S!Init
  OBVIOUS
<1>1. TypeOK
  <2>1. << >> \in Seq(Entries) /\ << >> \in Seq(Message) /\ << >> \in Seq(SnapshotSet)
    OBVIOUS
  <2>. QED  BY <2>1, DefaultType DEF Init, TypeOK, MaxVersion, Objects, FeedbackSnapshot, SnapshotSet
<1>. QED  BY <1>1 DEF Init, FInv, Unstarted, S!Init

LEMMA BindStep ==
  ASSUME FInv, Bind
  PROVE  FInv' /\ [S!Next]_(S!vars)
<1>0. TypeOK'
  BY BindType DEF FInv
<1>1. /\ phase = "null" /\ Unstarted /\ alive = {} /\ legacy_tranche = FeedbackTranche
      /\ phase' = "bound" /\ alive' = {} /\ feedback' = feedback
      /\ UNCHANGED <<table, pending_main, pending_tranche, pending_tranches, current, commits,
                     legacy_tranche, server_table>>
  BY DEF FInv, Bind, client, pending
<1>2. CASE ver' >= 4 /\ UNCHANGED <<events, sent>>
  <2>1. Unstarted'
    BY <1>1, <1>2 DEF Unstarted
  <2>2. FInv'
    BY <1>0, <1>1, <1>2, <2>1 DEF FInv, TypeOK
  <2>3. S!ReadTable
    BY <1>1, <1>2 DEF S!ReadTable
  <2>. QED  BY <2>2, <2>3 DEF S!Next
<1>3. ASSUME ver' < 4, NEW n \in Nat, NEW formats \in [1..n -> Entries],
             events' = [i \in DOMAIN formats |-> Event("dmabuf", "format", formats[i])],
             sent' = << LegacyAdvert(formats) >>
      PROVE  FInv' /\ [S!Next]_(S!vars)
  <2>1. formats \in Seq(Entries) /\ Len(formats) = n /\ DOMAIN formats = 1..n
    BY ListOf
  <2>2. Len(events') = n /\ \A i \in 1..n : events'[i].type = "format" /\ events'[i].arg = formats[i]
    BY <1>3, <2>1 DEF Event
  <2>3. /\ legacy_tranche'.target_device = 0 /\ legacy_tranche'.flags = 0
        /\ legacy_tranche'.formats = << >>
    BY <1>1 DEF FeedbackTranche, Tranche
  <2>4. Completes(formats)'
    <3>1. Len(<< >>) = 0
      OBVIOUS
    <3>. QED  BY <2>1, <2>2, <2>3, <3>1 DEF Completes
  <2>5. Legacy'
    BY <1>3, <2>1, <2>2, <2>3, <2>4 DEF Legacy
  <2>6. FInv'
    BY <1>0, <1>1, <1>3, <2>5 DEF FInv, TypeOK
  <2>7. S!Publish
    <3>1. sent = << >> /\ Len(sent) = 0
      BY <1>1 DEF Unstarted
    <3>2. sent' \in Seq(SnapshotSet) /\ Len(sent') = 1 /\ SubSeq(sent', 1, 0) = << >>
      BY <1>0, <1>3 DEF TypeOK
    <3>3. ~ (ver >= 4 /\ table = << >>) /\ ~ (ver' >= 4 /\ table' = << >>)
      <4>1. ver = 0 /\ ver' \in Nat
        BY <1>0, <1>1 DEF FInv, TypeOK, MaxVersion
      <4>. QED  BY <1>3, <4>1
    <3>4. Len(sent') = Len(sent) + 1 /\ SubSeq(sent', 1, Len(sent)) = sent
      BY <3>1, <3>2
    <3>. QED  BY <1>1, <3>2, <3>3, <3>4 DEF S!Publish
  <2>. QED  BY <2>6, <2>7 DEF S!Next
<1>4. CASE ~ (ver' >= 4 /\ UNCHANGED <<events, sent>>)
  <2>1. ver' < 4 /\ \E formats \in [1..IF ver' = 0 THEN 0 ELSE NumFormats -> Entries] :
          /\ events' = [i \in DOMAIN formats |-> Event("dmabuf", "format", formats[i])]
          /\ sent' = << LegacyAdvert(formats) >>
    BY <1>4 DEF Bind
  <2>. QED  BY <1>3, <2>1, BoundAssumption
<1>. QED  BY <1>2, <1>4

LEMMA StartStep ==
  ASSUME StartOnce, FInv, NEW o \in Objects, Start(o)
  PROVE  FInv' /\ [S!Next]_(S!vars)
<1>1. /\ alive = {} /\ Unstarted /\ alive' = {o} /\ feedback' = o /\ phase' = "bound"
      /\ ver' = ver /\ ver >= 4
  BY DEF FInv, Start
<1>2. UNCHANGED <<table, pending_main, pending_tranche, pending_tranches, current, commits,
                  legacy_tranche, server_table, events, sent>>
  BY DEF Start, client, pending
<1>3. TypeOK'
  <2>1. [Next]_vars
    BY DEF Next
  <2>. QED  BY <2>1, TypeStep DEF FInv
<1>4. Streamed(o)'
  <2>. DEFINE r == Fresh(<< >>, 0)
  <2>1. r \in Readings
    <3>1. << >> \in Seq(Entries)
      OBVIOUS
    <3>. QED  BY <3>1, DefaultType DEF Fresh, Reading, Readings
  <2>2. Gathered(r)'
    BY <1>1, <1>2, BareFacts DEF Unstarted, Gathered, Fresh, Reading
  <2>3. Leads(<< >>, r, r, << >>)
    <3>. HIDE DEF r
    <3>. QED  BY <2>1, LeadsNone
  <2>4. events' = << >> /\ sent' = << >> /\ server_table'[o] = << >> /\ Len(sent') = 0
    BY <1>1, <1>2 DEF Unstarted
  <2>5. Leads(events', r, Fresh(server_table'[o], Len(sent')), sent')
    BY <2>3, <2>4
  <2>6. \A i \in 1..Len(events') : FALSE
    BY <2>4
  <2>. HIDE DEF r
  <2>. QED  BY <2>1, <2>2, <2>5, <2>6 DEF Streamed
<1>5. FInv'
  BY <1>1, <1>3, <1>4, VersionType DEF FInv, Objects, Null
<1>6. UNCHANGED S!vars
  BY <1>1, <1>2 DEF S!vars
<1>. QED  BY <1>5, <1>6

LEMMA CommitLegacyStep ==
  ASSUME FInv, CommitLegacy
  PROVE  FInv' /\ [S!Next]_(S!vars)
<1>1. /\ phase = "bound" /\ ver < 4 /\ events = << >> /\ commits = 0 /\ commits' = 1
      /\ current' = FeedbackSnapshot(0, << legacy_tranche >>)
      /\ UNCHANGED <<phase, ver, feedback, alive, sent, events>>
  BY DEF CommitLegacy
<1>2. TypeOK'
  <2>1. [Next]_vars
    BY DEF Next
  <2>. QED  BY <2>1, TypeStep DEF FInv
<1>3. Legacy
  BY <1>1 DEF FInv
<1>4. Legacy'
  BY <1>1, <1>3 DEF Legacy
<1>5. FInv'
  BY <1>1, <1>2, <1>4, VersionType DEF FInv
<1>6. PICK formats \in Seq(Entries) : sent = << LegacyAdvert(formats) >> /\ Completes(formats)
  BY <1>1, <1>3 DEF Legacy
<1>7. formats = legacy_tranche.formats
  <2>. DEFINE got == legacy_tranche.formats
  <2>1. got \in Seq(Entries) /\ legacy_tranche \in TrancheSet
    BY DEF FInv, TypeOK, TrancheSet
  <2>2. Len(formats) = Len(got) /\ \A i \in 1..Len(got) : formats[i] = got[i]
    <3>1. Len(events) = 0 /\ Len(got) \in Nat
      BY <1>1, <2>1
    <3>. QED  BY <1>6, <3>1 DEF Completes
  <2>. HIDE DEF got
  <2>3. formats = got
    BY <2>1, <2>2
  <2>. QED  BY <2>3 DEF got
<1>8. legacy_tranche = Tranche(0, 0, formats)
  <2>1. legacy_tranche \in TrancheSet /\ legacy_tranche.target_device = 0 /\ legacy_tranche.flags = 0
    BY <1>1, <1>3 DEF FInv, TypeOK, Legacy
  <2>. QED  BY <1>7, <2>1 DEF TrancheSet, Tranche
<1>9. current' = sent[1] /\ Len(sent) = 1
  BY <1>1, <1>6, <1>8 DEF LegacyAdvert
<1>10. S!Commit
  BY <1>1, <1>9, VersionType DEF S!Commit, CommitLegacy
<1>. QED  BY <1>5, <1>10 DEF S!Next

LEMMA ReleaseStep ==
  ASSUME FInv, Release
  PROVE  FInv' /\ [S!Next]_(S!vars)
<1>1. TypeOK'
  <2>1. [Next]_vars
    BY DEF Next
  <2>. QED  BY <2>1, TypeStep DEF FInv
<1>2. alive' = {} /\ feedback' = Null /\ phase' = "released"
  BY DEF FInv, Release
<1>3. FInv'
  BY <1>1, <1>2 DEF FInv
<1>4. UNCHANGED S!vars
  BY DEF Release, S!vars, client
<1>. QED  BY <1>3, <1>4

LEMMA DispatchStep ==
  ASSUME FInv, Dispatch
  PROVE  FInv' /\ [S!Next]_(S!vars)
<1>. DEFINE e == Head(events)
<1>0. TypeOK /\ TypeOK'
  BY DispatchType DEF FInv
<1>1. /\ events # << >> /\ events \in Seq(Message) /\ events' = Tail(events) /\ e \in Message
      /\ Len(events) \in Nat \ {0} /\ Len(events') = Len(events) - 1 /\ e = events[1]
      /\ \A i \in 1..Len(events) - 1 : events'[i] = events[i + 1]
  BY <1>0, TailFacts DEF TypeOK, Dispatch
<1>2. UNCHANGED <<phase, ver, feedback, alive, server_table, sent>>
  BY DEF Dispatch
<1>3. (Reaches(e) /\ Handle(e)) \/ (~ Reaches(e) /\ UNCHANGED client)
  BY DEF Dispatch
<1>4. phase # "null"
  BY <1>1 DEF FInv, Unstarted
<1>. HIDE DEF e
<1>5. CASE phase = "released"
  <2>1. ~ Reaches(e)
    BY <1>5 DEF Reaches, FInv
  <2>2. UNCHANGED S!vars
    BY <1>2, <1>3, <2>1 DEF client, S!vars
  <2>3. FInv'
    BY <1>0, <1>2, <1>5 DEF FInv
  <2>. QED  BY <2>2, <2>3
<1>6. CASE phase = "bound" /\ ver < 4
  <2>1. Legacy /\ alive = {}
    BY <1>6 DEF FInv
  <2>2. e.type = "format" /\ e.obj = "dmabuf" /\ e.arg \in Entries
    BY <1>1, <2>1, EventType DEF Legacy
  <2>3. LegacyFormat(e.arg)
    BY <1>3, <1>6, <2>2 DEF Reaches, Handle, TrancheField
  <2>4. UNCHANGED S!vars
    BY <1>2, <2>3 DEF LegacyFormat, S!vars
  <2>5. Legacy'
    <3>. DEFINE got == legacy_tranche.formats
                n == Len(events)
    <3>1. legacy_tranche \in TrancheSet /\ got \in Seq(Entries) /\ Len(got) \in Nat
      BY <1>0 DEF TypeOK, TrancheSet
    <3>2. legacy_tranche' = Tranche(legacy_tranche.target_device, legacy_tranche.flags, Append(got, e.arg))
      <4>. DEFINE f == Append(got, e.arg)
      <4>1. legacy_tranche' = [legacy_tranche EXCEPT !.formats = f]
        BY <2>3 DEF LegacyFormat
      <4>. HIDE DEF f
      <4>2. [legacy_tranche EXCEPT !.formats = f] = Tranche(legacy_tranche.target_device, legacy_tranche.flags, f)
        BY <3>1, WithFormats
      <4>. QED  BY <4>1, <4>2 DEF f
    <3>3. /\ legacy_tranche'.target_device = legacy_tranche.target_device
          /\ legacy_tranche'.flags = legacy_tranche.flags
          /\ legacy_tranche'.formats = Append(got, e.arg)
      BY <3>2 DEF Tranche
    <3>4. \A i \in 1..Len(events') : events'[i].type = "format"
      BY <1>1, <2>1 DEF Legacy
    <3>5. ASSUME NEW formats \in Seq(Entries), Completes(formats) PROVE Completes(formats)'
      <4>. HIDE DEF got
      <4>1. /\ Len(formats) = Len(got) + n /\ \A i \in 1..Len(got) : formats[i] = got[i]
            /\ \A i \in 1..n : formats[Len(got) + i] = events[i].arg
        BY <3>5 DEF Completes, got
      <4>. DEFINE g == Append(got, e.arg)
      <4>2. /\ Len(g) = Len(got) + 1 /\ g[Len(got) + 1] = e.arg
            /\ \A i \in 1..Len(got) : g[i] = got[i]
        BY <2>2, <3>1
      <4>. HIDE DEF g
      <4>3. Len(formats) = Len(g) + Len(events')
        BY <1>1, <3>1, <4>1, <4>2
      <4>4. formats[Len(got) + 1] = e.arg
        BY <1>1, <4>1
      <4>5. \A i \in 1..Len(g) : formats[i] = g[i]
        <5>1. \A i \in 1..Len(g) : i \in 1..Len(got) \/ i = Len(got) + 1
          BY <3>1, <4>2
        <5>. QED  BY <4>1, <4>2, <4>4, <5>1
      <4>6. ASSUME NEW i \in 1..Len(events') PROVE formats[Len(g) + i] = events'[i].arg
        <5>1. i + 1 \in 1..n /\ i \in 1..n-1 /\ Len(g) + i = Len(got) + (i + 1)
          BY <1>1, <3>1, <4>2
        <5>2. events'[i] = events[i + 1]
          BY <1>1, <5>1
        <5>3. formats[Len(got) + (i + 1)] = events[i + 1].arg
          BY <4>1, <5>1
        <5>. QED  BY <5>1, <5>2, <5>3
      <4>7. legacy_tranche'.formats = g
        BY <3>3 DEF g
      <4>. QED  BY <4>3, <4>5, <4>6, <4>7 DEF Completes
    <3>6. commits' = commits
      BY <2>3 DEF LegacyFormat
    <3>. QED  BY <1>2, <2>1, <3>3, <3>4, <3>5, <3>6 DEF Legacy
  <2>6. FInv'
    BY <1>0, <1>2, <1>6, <2>1, <2>5, VersionType DEF FInv
  <2>. QED  BY <2>4, <2>6
<1>7. CASE phase = "bound" /\ ver >= 4
  <2>1. PICK o \in alive : alive = {o} /\ o \in Objects /\ Streamed(o)
    BY <1>0, <1>1, <1>7 DEF FInv, Unstarted, TypeOK
  <2>2. \A i \in 1..Len(events) : events[i].obj = o
    BY <2>1 DEF Streamed
  <2>3. e.obj = o /\ e.type # "format"
    <3>1. e.obj = o
      BY <1>1, <2>2
    <3>2. o # "dmabuf"
      BY <2>1 DEF Objects
    <3>. QED  BY <1>1, <3>1, <3>2, EventType
  <2>4. Handle(e)
    BY <1>3, <2>1, <2>3 DEF Reaches
  <2>5. PICK r \in Readings : Gathered(r) /\ Leads(events, r, Fresh(server_table[o], Len(sent)), sent)
    BY <2>1 DEF Streamed
  <2>6. PICK s \in Readings : Reads(r, e, s, sent)
                              /\ Leads(events', s, Fresh(server_table[o], Len(sent)), sent)
    BY <1>1, <2>5, LeadsTail DEF e
  <2>7. Gathered(s)' /\ [S!Next]_(S!vars)
    BY <1>0, <1>1, <1>2, <1>7, <2>3, <2>4, <2>5, <2>6, HandleStep
  <2>8. \A i \in 1..Len(events') : events'[i].obj = o
    BY <1>1, <2>2
  <2>9. Leads(events', s, Fresh(server_table'[o], Len(sent')), sent')
    BY <1>2, <2>6
  <2>10. Streamed(o)'
    BY <2>7, <2>8, <2>9 DEF Streamed
  <2>11. FInv'
    BY <1>0, <1>2, <1>7, <2>1, <2>10, VersionType DEF FInv
  <2>. QED  BY <2>7, <2>11
<1>8. ver \in Nat /\ phase \in {"null", "bound", "released"}
  BY <1>0 DEF TypeOK, MaxVersion
<1>. QED  BY <1>4, <1>5, <1>6, <1>7, <1>8

LEMMA AdvertiseStep ==
  ASSUME FInv, NEW o \in Objects, NEW a \in Adverts, Advertise(o, a)
  PROVE  FInv' /\ [S!Next]_(S!vars)
<1>. DEFINE tbl == TableFor(o, a)
            old == server_table[o]
            x == Described(tbl, a)
            n == Len(sent)
            q == Stream(o, a)
<1>0. TypeOK /\ TypeOK' /\ a \in Advert /\ tbl \in Seq(Entries) /\ x \in SnapshotSet
  BY AdvertiseType DEF FInv
<1>1. /\ phase = "bound" /\ o \in alive /\ events' = events \o q /\ sent' = Append(sent, x)
      /\ server_table' = [server_table EXCEPT ![o] = tbl]
      /\ UNCHANGED <<phase, ver, feedback, alive, table, pending_main, pending_tranche,
                     pending_tranches, current, commits, legacy_tranche>>
  BY DEF Advertise, client, pending
<1>2. ver >= 4 /\ alive = {o} /\ Streamed(o)
  BY <1>0, <1>1 DEF FInv, TypeOK, MaxVersion
<1>3. q \in Seq(Message) /\ events \in Seq(Message) /\ old \in Seq(Entries)
  BY <1>0, StreamType DEF TypeOK
<1>4. /\ sent \in Seq(SnapshotSet) /\ n \in Nat /\ Len(sent') = n + 1
      /\ sent'[n + 1] = x /\ \A i \in 1..n : sent'[i] = sent[i]
  BY <1>0, <1>1 DEF TypeOK
<1>5. \A i \in 1..Len(q) : q[i].obj = o
  BY <1>0, StreamType
<1>6. server_table'[o] = tbl
  BY <1>0, <1>1 DEF TypeOK
<1>7. tbl = IF a.table # << >> THEN a.table ELSE old
  BY DEF TableFor
<1>. HIDE DEF tbl, old, x, n, q
<1>8. Leads(q, Fresh(old, n), Fresh(tbl, n + 1), sent')
  <2>1. n < Len(sent') /\ sent'[n + 1] = Described(tbl, a)
    BY <1>4 DEF x
  <2>2. Leads(Stream(o, a), Fresh(old, n), Fresh(tbl, n + 1), sent')
    BY <1>0, <1>3, <1>4, <1>7, <2>1, StreamRead
  <2>. QED  BY <2>2 DEF q
<1>9. PICK r \in Readings : Gathered(r) /\ Leads(events, r, Fresh(old, n), sent)
  BY <1>2 DEF Streamed, old, n
<1>10. Leads(events, r, Fresh(old, n), sent')
  BY <1>0, <1>1, <1>3, <1>4, <1>9, LeadsMore
<1>11. Leads(events', r, Fresh(tbl, n + 1), sent')
  BY <1>1, <1>3, <1>8, <1>10, LeadsOn
<1>12. Gathered(r)'
  BY <1>1, <1>9 DEF Gathered
<1>13. \A i \in 1..Len(events') : events'[i].obj = o
  <2>1. /\ Len(events) \in Nat /\ Len(q) \in Nat /\ Len(events') = Len(events) + Len(q)
        /\ \A i \in 1..Len(events) : events'[i] = events[i]
        /\ \A i \in 1..Len(q) : events'[Len(events) + i] = q[i]
    BY <1>1, <1>3, ConcatFacts
  <2>2. \A i \in 1..Len(events) : events[i].obj = o
    BY <1>2 DEF Streamed
  <2>. SUFFICES ASSUME NEW i \in 1..Len(events') PROVE events'[i].obj = o
    OBVIOUS
  <2>3. CASE i \in 1..Len(events)
    BY <2>1, <2>2, <2>3
  <2>4. CASE i \notin 1..Len(events)
    <3>1. i - Len(events) \in 1..Len(q) /\ Len(events) + (i - Len(events)) = i
      BY <2>1, <2>4
    <3>2. events'[Len(events) + (i - Len(events))] = q[i - Len(events)]
      BY <2>1, <3>1
    <3>. QED  BY <1>5, <3>1, <3>2
  <2>. QED  BY <2>3, <2>4
<1>14. Streamed(o)'
  BY <1>4, <1>6, <1>11, <1>12, <1>13 DEF Streamed
<1>15. FInv'
  BY <1>0, <1>1, <1>2, <1>14 DEF FInv
<1>16. S!Publish
  <2>1. SubSeq(sent', 1, Len(sent)) = sent
    BY <1>0, <1>1, <1>4
  <2>2. sent' \in Seq(SnapshotSet)
    BY <1>0 DEF TypeOK
  <2>. QED  BY <1>1, <1>4, <2>1, <2>2 DEF S!Publish, n
<1>. QED  BY <1>15, <1>16 DEF S!Next

LEMMA NextFInv ==
  ASSUME StartOnce
  PROVE  FInv /\ [Next]_vars => FInv' /\ [S!Next]_(S!vars)
<1>. SUFFICES ASSUME FInv, [Next]_vars PROVE FInv' /\ [S!Next]_(S!vars)
  OBVIOUS
<1>1. CASE UNCHANGED vars
  <2>1. UNCHANGED <<phase, ver, feedback, alive, table, pending_main, pending_tranche, pending_tranches,
                    current, commits, legacy_tranche, server_table, events, sent>>
    BY <1>1 DEF vars, client, pending
  <2>2. UNCHANGED S!vars
    BY <2>1 DEF S!vars
  <2>3. FInv'
    BY <2>1 DEF FInv, TypeOK, Unstarted, Legacy, Completes, Streamed, Gathered
  <2>. QED  BY <2>2, <2>3
<1>. QED  BY <1>1, BindStep, CommitLegacyStep, ReleaseStep, DispatchStep, StartStep, AdvertiseStep DEF Next

(* What the App reads is always one whole advertisement, the next one at   *)
(* every commit, with each index resolved in the table it was meant for;   *)
(* an unreadable table costs the formats and nothing else.  It holds for   *)
(* one feedback object: two would write one snapshot.                      *)
THEOREM WholeAdvertisements == ASSUME StartOnce PROVE Spec => ImplementsSnapshots
<1>1. Init => FInv /\ S!Init
  BY InitFInv
<1>2. FInv /\ [Next]_vars => FInv' /\ [S!Next]_(S!vars)
  BY NextFInv
<1>. QED  BY <1>1, <1>2, PTL DEF Spec, ImplementsSnapshots, S!Spec
=============================================================================
