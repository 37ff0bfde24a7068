--------------------------- MODULE EventRingProofs --------------------------
(***************************************************************************)
(* Theorems about EventRing, for every size of the ring and of its headers *)
(* and for events of any lengths that fit in it.                           *)
(*                                                                         *)
(* The chain of headers and the places of a batch are recursive functions. *)
(* What they compute is shown by the least or the greatest number at which *)
(* it fails: LeastExists rests on the library's WFMin.                     *)
(*                                                                         *)
(* A write replaces the headers between the cursor and the end of its pad, *)
(* both of them on the chain, by a chain of its own (ChainWritten).  So    *)
(* what is left are the newest events, and the new ones continue them:     *)
(* RingInv is inductive, and it gives ChainIntact and the steps of Journal.*)
(* IndexInv adds the index of dumps, which a write shifts and a scan turns *)
(* round: it gives IndexExact and ScanAgrees.                              *)
(***************************************************************************)
EXTENDS EventRing, FiniteSetTheorems, WellFoundedInduction, TLAPS

-----------------------------------------------------------------------------
(* Least and greatest numbers.                                             *)

\* Every number has finitely many below it.
LEMMA NatOrder ==
    \E R : /\ IsWellFoundedOn(R, Nat)
           /\ \A x, y \in Nat : x < y => <<x, y>> \in R
<1>1. \A x, y \in Nat : x < y => <<x, y>> \in OpToRel(<, Nat)
  BY DEF OpToRel
<1>2. QED
  BY <1>1, NatLessThanWellFounded, Zenon

LEMMA LeastExists ==
    ASSUME NEW T \in SUBSET Nat, T # {}
    PROVE  \E x \in T : \A y \in T : x <= y
<1>1. PICK R : /\ IsWellFoundedOn(R, Nat)
               /\ \A x, y \in Nat : x < y => <<x, y>> \in R
  BY NatOrder, Zenon
<1>2. T \subseteq Nat
  OBVIOUS
<1>3. \E x \in T : \A y \in T : ~ (<<y, x>> \in R)
  <2>1. IsWellFoundedOn(R, Nat)
    BY <1>1, Zenon
  <2>2. QED
    BY ONLY <2>1, <1>2, T # {}, WFMin
<1>4. PICK x \in T : \A y \in T : ~ (<<y, x>> \in R)
  BY <1>3
<1>5. ASSUME NEW y \in T PROVE x <= y
  <2>1. x \in Nat /\ y \in Nat /\ ~ (<<y, x>> \in R)
    BY <1>2, <1>4
  <2>2. ~(y < x)
    BY <2>1, <1>1
  <2>3. QED
    BY <2>1, <2>2
<1>6. QED
  BY <1>5

\* A set of offsets has a greatest member.
LEMMA GreatestExists ==
    ASSUME NEW n \in Nat, NEW T \in SUBSET (0..n), T # {}
    PROVE  \E x \in T : \A y \in T : y <= x
<1> DEFINE S == {n - x : x \in T}
<1>1. S \in SUBSET Nat /\ S # {}
  <2>1. \A x \in T : n - x \in Nat
    OBVIOUS
  <2>2. QED
    BY <2>1, T # {}
<1>2. PICK z \in S : \A y \in S : z <= y
  BY <1>1, LeastExists
<1>3. PICK x \in T : z = n - x
  BY <1>2
<1>4. ASSUME NEW y \in T PROVE y <= x
  <2>1. n - x <= n - y
    BY <1>2, <1>3
  <2>2. QED
    BY <2>1
<1>5. QED
  BY <1>4

-----------------------------------------------------------------------------
(* The chain of headers.                                                   *)

Places == Offsets \cup {Size}

Follower(disk, o) == o + HeaderAt(disk, o).length

\* Headers lead forward, and not beyond the end.
Sane(disk) ==
    \A o \in Offsets : IsHeader(disk, o) =>
        /\ Follower(disk, o) \in Places
        /\ o + HeaderSize <= Follower(disk, o)

Closed(disk, C) ==
    \A o \in C : IsHeader(disk, o) => Follower(disk, o) \in C

Reach(disk, o) ==
    {p \in Places : \A C \in SUBSET Places : o \in C /\ Closed(disk, C) => p \in C}

LEMMA ReachUnfolds ==
    ASSUME NEW disk, Sane(disk), NEW o \in Places
    PROVE  Reach(disk, o) = IF IsHeader(disk, o)
                            THEN {o} \cup Reach(disk, Follower(disk, o))
                            ELSE {o}
<1>1. CASE ~IsHeader(disk, o)
  <2>1. {o} \in SUBSET Places /\ Closed(disk, {o})
    BY <1>1 DEF Closed
  <2>2. QED
    BY <1>1, <2>1 DEF Reach
<1>2. CASE IsHeader(disk, o)
  <2> DEFINE n == Follower(disk, o)
             R == {o} \cup Reach(disk, n)
  <2>1. n \in Places
    BY <1>2 DEF Sane, IsHeader
  <2>2. R \subseteq Reach(disk, o)
    BY <1>2, <2>1 DEF Reach, Closed
  <2>3. R \in SUBSET Places /\ o \in R
    BY DEF Reach
  <2>4. Closed(disk, R)
    <3>1. n \in Reach(disk, n)
      BY <2>1 DEF Reach
    <3>2. ASSUME NEW x \in Reach(disk, n), IsHeader(disk, x)
          PROVE  Follower(disk, x) \in Reach(disk, n)
      <4>1. Follower(disk, x) \in Places
        BY <3>2 DEF Sane, IsHeader
      <4>2. QED
        BY <3>2, <4>1 DEF Reach, Closed
    <3>3. QED
      BY <3>1, <3>2 DEF Closed
  <2>5. Reach(disk, o) \subseteq R
    BY <2>3, <2>4 DEF Reach
  <2>6. QED
    BY <1>2, <2>2, <2>5
<1>3. QED
  BY <1>1, <1>2

LEMMA ChainUnfolds ==
    ASSUME NEW disk, Sane(disk), NEW o \in Places
    PROVE  Chain(disk, o) = IF IsHeader(disk, o)
                            THEN {o} \cup Chain(disk, Follower(disk, o))
                            ELSE {o}
<1> DEFINE D(f) == [p \in Offsets \cup {Size} |->
                      IF IsHeader(disk, p)
                      THEN {p} \cup f[p + HeaderAt(disk, p).length]
                      ELSE {p}]
           f == [p \in Places |-> Reach(disk, p)]
           met == CHOOSE g : g = D(g)
<1>1. f = D(f)
  <2>1. ASSUME NEW p \in Places
        PROVE  f[p] = IF IsHeader(disk, p)
                      THEN {p} \cup f[p + HeaderAt(disk, p).length]
                      ELSE {p}
    <3>1. CASE IsHeader(disk, p)
      <4>1. Follower(disk, p) \in Places
        BY <3>1 DEF Sane, IsHeader
      <4>2. QED
        BY <3>1, <4>1, ReachUnfolds DEF Follower
    <3>2. CASE ~IsHeader(disk, p)
      BY <3>2, ReachUnfolds
    <3>3. QED
      BY <3>1, <3>2
  <2>2. QED
    BY <2>1, Zenon DEF Places
<1>2. met = D(met)
  BY <1>1, Zenon
<1>3. \A p : Chain(disk, p) = met[p]
  BY Zenon DEF Chain
<1> HIDE DEF met
<1>4. met[o] = IF IsHeader(disk, o)
               THEN {o} \cup met[o + HeaderAt(disk, o).length] ELSE {o}
  BY <1>2, Zenon DEF Places
<1>5. /\ Chain(disk, o) = met[o]
      /\ Chain(disk, Follower(disk, o)) = met[o + HeaderAt(disk, o).length]
  BY <1>3, Zenon DEF Follower
<1>6. QED
  BY <1>4, <1>5, Zenon

\* What fails at an offset and then at a later one fails nowhere.
LEMMA NoneFails ==
    ASSUME NEW B \in SUBSET Places, \A o \in B : \E p \in B : o < p
    PROVE  B = {}
<1>1. Size \in Nat /\ Places \subseteq 0..Size
  BY EventRingAssumption DEF Places, Offsets
<1>2. SUFFICES ASSUME B # {} PROVE FALSE
  OBVIOUS
<1>3. B \in SUBSET (0..Size)
  BY <1>1
<1>4. PICK x \in B : \A y \in B : y <= x
  BY <1>1, <1>2, <1>3, GreatestExists
<1>5. PICK p \in B : x < p
  BY <1>4
<1>6. x \in Nat /\ p \in Nat /\ p <= x
  BY <1>3, <1>4
<1>7. QED
  BY <1>5, <1>6

LEMMA FollowerBehind ==
    ASSUME NEW disk, Sane(disk), NEW o \in Places, IsHeader(disk, o)
    PROVE  /\ Follower(disk, o) \in Places /\ o \in Nat
           /\ Follower(disk, o) \in Nat /\ o < Follower(disk, o)
<1>1. o \in Offsets
  BY DEF IsHeader
<1>2. /\ Follower(disk, o) \in Places
      /\ o + HeaderSize <= Follower(disk, o)
  BY <1>1 DEF Sane
<1>3. QED
  BY <1>1, <1>2, EventRingAssumption DEF Places, Offsets

\* A chain begins where it is said to and goes forward.
LEMMA ChainBounds ==
    ASSUME NEW disk, Sane(disk), NEW o \in Places
    PROVE  o \in Chain(disk, o) /\ Chain(disk, o) \subseteq {p \in Places : o <= p}
<1> DEFINE B == {x \in Places :
                   ~ (x \in Chain(disk, x)
                      /\ Chain(disk, x) \subseteq {p \in Places : x <= p})}
<1>1. ASSUME NEW x \in B PROVE \E p \in B : x < p
  <2>1. Places \subseteq Nat
    BY EventRingAssumption DEF Places, Offsets
  <2>2. x \in Chain(disk, x)
    BY ChainUnfolds
  <2>3. IsHeader(disk, x)
    BY ChainUnfolds, <2>1
  <2>4. PICK n : n = Follower(disk, x)
    OBVIOUS
  <2>5. n \in Places /\ x < n
    BY <2>3, <2>4, FollowerBehind
  <2>6. Chain(disk, x) = {x} \cup Chain(disk, n)
    BY <2>3, <2>4, ChainUnfolds
  <2>7. ASSUME n \notin B PROVE FALSE
    <3>1. Chain(disk, n) \subseteq {p \in Places : n <= p}
      BY <2>5, <2>7
    <3>2. ASSUME NEW p \in Chain(disk, x) PROVE p \in Places /\ x <= p
      <4>1. p = x \/ (p \in Places /\ n <= p)
        BY <2>6, <3>1
      <4>2. x \in Nat /\ n \in Nat /\ p \in Nat /\ x \in Places
        BY <2>1, <2>5, <4>1
      <4>3. QED
        BY ONLY <2>5, <4>1, <4>2
    <3>3. QED
      BY <2>2, <3>2
  <2>8. QED
    BY <2>5, <2>7
<1>2. B = {}
  BY <1>1, NoneFails
<1>3. QED
  BY <1>2

LEMMA ChainNested ==
    ASSUME NEW disk, Sane(disk), NEW o \in Places, NEW p \in Chain(disk, o)
    PROVE  Chain(disk, p) \subseteq Chain(disk, o)
<1> DEFINE B == {x \in Places : \E q \in Chain(disk, x) :
                    ~ (Chain(disk, q) \subseteq Chain(disk, x))}
<1>1. ASSUME NEW x \in B PROVE \E n \in B : x < n
  <2>1. PICK q \in Chain(disk, x) : ~ (Chain(disk, q) \subseteq Chain(disk, x))
    OBVIOUS
  <2>2. IsHeader(disk, x) /\ q # x
    BY <2>1, ChainUnfolds
  <2>3. PICK n : n = Follower(disk, x)
    OBVIOUS
  <2>4. n \in Places /\ x < n
    BY <2>2, <2>3, FollowerBehind
  <2>5. Chain(disk, x) = {x} \cup Chain(disk, n)
    BY <2>2, <2>3, ChainUnfolds
  <2>6. n \in B
    BY <2>1, <2>2, <2>4, <2>5
  <2>7. QED
    BY <2>4, <2>6
<1>2. B = {}
  BY <1>1, NoneFails
<1>3. QED
  BY <1>2

\* Of two offsets of a chain the later is met from the earlier, which has a
\* header that does not reach beyond.
LEMMA ChainOrdered ==
    ASSUME NEW disk, Sane(disk), NEW o \in Places,
           NEW p \in Chain(disk, o), NEW q \in Chain(disk, o), p <= q
    PROVE  /\ q \in Chain(disk, p)
           /\ p # q => /\ IsHeader(disk, p)
                       /\ Follower(disk, p) <= q
                       /\ Follower(disk, p) \in Chain(disk, o)
<1> DEFINE B == {x \in Places : \E r, s \in Chain(disk, x) :
                    r <= s /\ s \notin Chain(disk, r)}
<1>0. Places \subseteq Nat
  BY EventRingAssumption DEF Places, Offsets
<1>1. ASSUME NEW x \in B PROVE \E n \in B : x < n
  <2>1. PICK r \in Chain(disk, x), s \in Chain(disk, x) :
           r <= s /\ s \notin Chain(disk, r)
    OBVIOUS
  <2>2. IsHeader(disk, x) /\ r # x
    BY <2>1, ChainUnfolds
  <2>3. PICK n : n = Follower(disk, x)
    OBVIOUS
  <2>4. n \in Places /\ x < n
    BY <2>2, <2>3, FollowerBehind
  <2>5. Chain(disk, x) = {x} \cup Chain(disk, n)
    BY <2>2, <2>3, ChainUnfolds
  <2>6. Chain(disk, n) \subseteq {y \in Places : n <= y}
    BY <2>4, ChainBounds
  <2>7. r \in Chain(disk, n) /\ n <= r /\ r \in Places
    BY <2>1, <2>2, <2>5, <2>6
  <2>8. s \in Chain(disk, n)
    <3>1. s \in {x} \cup Chain(disk, n)
      BY <2>1, <2>5
    <3>2. s \in Places
      BY <3>1, <2>6
    <3>3. s # x
      BY <1>0, <2>1, <2>4, <2>7, <3>2
    <3>4. QED
      BY <3>1, <3>3
  <2>9. n \in B
    BY <2>1, <2>4, <2>7, <2>8
  <2>10. QED
    BY <2>4, <2>9
<1>2. B = {}
  BY <1>1, NoneFails
<1>3. q \in Chain(disk, p)
  BY <1>2
<1>4. p \in Places /\ q \in Places
  BY ChainBounds
<1>5. ASSUME p # q
      PROVE  IsHeader(disk, p) /\ Follower(disk, p) <= q
             /\ Follower(disk, p) \in Chain(disk, o)
  <2>1. IsHeader(disk, p) /\ q \in Chain(disk, Follower(disk, p))
    BY <1>3, <1>4, <1>5, ChainUnfolds
  <2>2. Follower(disk, p) \in Places
    BY <1>4, <2>1, FollowerBehind
  <2>3. Follower(disk, p) <= q
    BY <2>1, <2>2, ChainBounds
  <2>4. Follower(disk, p) \in Chain(disk, p)
    BY <1>4, <2>1, <2>2, ChainUnfolds, ChainBounds
  <2>5. QED
    BY <2>1, <2>3, <2>4, ChainNested
<1>6. QED
  BY <1>3, <1>5

\* Chains along which the headers are the same are the same.
LEMMA ChainSame ==
    ASSUME NEW d, Sane(d), NEW e, Sane(e), NEW o \in Places,
           \A p \in Chain(d, o) : HeaderAt(e, p) = HeaderAt(d, p)
    PROVE  Chain(e, o) = Chain(d, o)
<1> DEFINE B == {x \in Places : x \in Chain(d, o) /\ Chain(e, x) # Chain(d, x)}
<1>1. ASSUME NEW x \in B PROVE \E n \in B : x < n
  <2>1. /\ IsHeader(e, x) <=> IsHeader(d, x)
        /\ Follower(e, x) = Follower(d, x)
    BY DEF IsHeader, Follower
  <2>2. IsHeader(d, x)
    BY <2>1, ChainUnfolds
  <2>3. PICK n : n = Follower(d, x)
    OBVIOUS
  <2>4. n \in Places /\ x < n
    BY <2>2, <2>3, FollowerBehind
  <2>5. /\ Chain(d, x) = {x} \cup Chain(d, n)
        /\ Chain(e, x) = {x} \cup Chain(e, n)
    BY <2>1, <2>2, <2>3, ChainUnfolds
  <2>6. n \in Chain(d, o)
    BY <2>4, <2>5, ChainBounds, ChainNested
  <2>7. QED
    BY <2>4, <2>5, <2>6
<1>2. B = {}
  BY <1>1, NoneFails
<1>3. o \in Chain(d, o)
  BY ChainBounds
<1>4. QED
  BY <1>2, <1>3

\* If they are the same up to an offset of the chain, only what follows it
\* can differ.
LEMMA ChainUpTo ==
    ASSUME NEW d, Sane(d), NEW e, Sane(e), NEW o \in Places,
           NEW c \in Chain(d, o),
           \A p \in Chain(d, o) : p < c => HeaderAt(e, p) = HeaderAt(d, p)
    PROVE  Chain(e, o) = {p \in Chain(d, o) : p < c} \cup Chain(e, c)
<1> DEFINE R(x) == {p \in Chain(d, x) : p < c} \cup Chain(e, c)
           B == {x \in Places : x \in Chain(d, o) /\ x <= c /\ Chain(e, x) # R(x)}
<1>0. Places \subseteq Nat /\ c \in Places /\ o <= c
  BY EventRingAssumption, ChainBounds DEF Places, Offsets
<1>1. ASSUME NEW x \in B PROVE \E n \in B : x < n
  <2>1. x # c
    <3>1. ASSUME x = c PROVE {p \in Chain(d, x) : p < c} = {}
      <4>1. Chain(d, c) \subseteq {p \in Places : c <= p}
        BY <1>0, ChainBounds
      <4>2. ASSUME NEW p \in Chain(d, x), p < c PROVE FALSE
        <5>1. c \in Nat /\ p \in Nat /\ c <= p
          BY <1>0, <3>1, <4>1
        <5>2. QED
          BY ONLY <4>2, <5>1
      <4>3. QED
        BY <4>2
    <3>2. QED
      BY <3>1
  <2>2. /\ IsHeader(e, x) <=> IsHeader(d, x)
        /\ Follower(e, x) = Follower(d, x)
    BY <1>0, <2>1 DEF IsHeader, Follower
  <2>3. PICK n : n = Follower(d, x)
    OBVIOUS
  <2>4. IsHeader(d, x) /\ n <= c /\ n \in Chain(d, o)
    BY <2>1, <2>3, ChainOrdered
  <2>5. n \in Places /\ x < n
    BY <2>3, <2>4, FollowerBehind
  <2>6. /\ Chain(d, x) = {x} \cup Chain(d, n)
        /\ Chain(e, x) = {x} \cup Chain(e, n)
    BY <2>2, <2>3, <2>4, ChainUnfolds
  <2>7. x < c
    BY <1>0, <2>1
  <2>8. R(x) = {x} \cup R(n)
    BY <2>6, <2>7
  <2>9. n \in B
    BY <2>4, <2>5, <2>6, <2>8
  <2>10. QED
    BY <2>5, <2>9
<1>2. B = {}
  BY <1>1, NoneFails
<1>3. o \in Chain(d, o)
  BY ChainBounds
<1>4. QED
  BY <1>0, <1>2, <1>3

-----------------------------------------------------------------------------
(* Headers and the cells they are made of.                                 *)

HeaderSet ==
    [type : EventTypes \cup {"pad"}, record : Nat,
     length : HeaderSize..Size, previous : Offsets]

\* Pads have no record number, events are numbered from one.
HeaderOK(h) ==
    /\ h \in HeaderSet
    /\ h.type = "pad" <=> h.record = 0

CellOK(cell, x) ==
    \/ cell \in {Body, Blank}
    \/ \E h \in HeaderSet, i \in 0..(HeaderSize - 1) :
          /\ cell = <<h, i>> /\ HeaderOK(h)
          /\ i <= x /\ x - i + h.length <= Size

Cells(disk) == \A x \in Offsets : CellOK(disk[x], x)

LEMMA HeaderSame ==
    ASSUME NEW d, NEW e, NEW o \in Nat,
           \A x \in Offsets : o <= x /\ x < o + HeaderSize => e[x] = d[x]
    PROVE  HeaderAt(e, o) = HeaderAt(d, o)
<1>1. HeaderSize \in Nat /\ HeaderSize > 0 /\ Size \in Nat
  BY EventRingAssumption
<1>2. CASE o + HeaderSize <= Size
  <2>1. e[o] = d[o]
    BY <1>1, <1>2 DEF Offsets
  <2>2. \A i \in 0..(HeaderSize - 1) : e[o + i] = d[o + i]
    BY <1>1, <1>2 DEF Offsets
  <2>3. QED
    BY <2>1, <2>2 DEF HeaderAt
<1>3. CASE ~(o + HeaderSize <= Size)
  BY <1>3 DEF HeaderAt
<1>4. QED
  BY <1>2, <1>3

LEMMA HeaderKind ==
    ASSUME NEW disk, Cells(disk), NEW o, IsHeader(disk, o)
    PROVE  /\ HeaderOK(HeaderAt(disk, o))
           /\ o + HeaderSize <= Size
           /\ o + HeaderAt(disk, o).length <= Size
           /\ \A i \in 0..(HeaderSize - 1) : disk[o + i] = <<HeaderAt(disk, o), i>>
<1> DEFINE h == HeaderAt(disk, o)
<1>1. o \in Offsets /\ o \in Nat /\ h # NoHeader
  BY DEF IsHeader, Offsets
<1>2. /\ o + HeaderSize <= Size
      /\ h = disk[o][1]
      /\ \A i \in 0..(HeaderSize - 1) : disk[o + i] = <<disk[o][1], i>>
  BY <1>1 DEF HeaderAt
<1>3. disk[o] = <<h, 0>>
  <2>1. 0 \in 0..(HeaderSize - 1) /\ o + 0 = o
    BY <1>1, EventRingAssumption
  <2>2. QED
    BY <1>2, <2>1
<1>4. CellOK(disk[o], o)
  BY <1>1 DEF Cells
<1>5. disk[o] \notin {Body, Blank}
  BY <1>1, <1>3 DEF Body, Blank
<1>6. PICK g \in HeaderSet, i \in 0..(HeaderSize - 1) :
         disk[o] = <<g, i>> /\ HeaderOK(g) /\ o - i + g.length <= Size
  BY <1>4, <1>5 DEF CellOK
<1>7. g = h /\ i = 0
  BY <1>3, <1>6
<1>8. HeaderOK(h) /\ o + h.length <= Size
  BY <1>1, <1>6, <1>7
<1>9. QED
  BY <1>2, <1>8

LEMMA CellsSane ==
    ASSUME NEW disk, Cells(disk)
    PROVE  Sane(disk)
<1>1. ASSUME NEW o \in Offsets, IsHeader(disk, o)
      PROVE  /\ Follower(disk, o) \in Places
             /\ o + HeaderSize <= Follower(disk, o)
  <2>1. /\ HeaderAt(disk, o).length \in HeaderSize..Size
        /\ o + HeaderAt(disk, o).length <= Size
    BY <1>1, HeaderKind DEF HeaderOK, HeaderSet
  <2>2. QED
    BY <2>1, EventRingAssumption DEF Follower, Places, Offsets
<1>2. QED
  BY <1>1 DEF Sane

-----------------------------------------------------------------------------
(* The places of the events of one write.                                  *)

Queued ==
    [type : EventTypes, record : Nat \ {0},
     length : HeaderSize..(Size - HeaderSize)]

\* Places are counted up from the cursor.
LEMMA PlacedCounts ==
    ASSUME NEW q \in Seq(Queued)
    PROVE  /\ Placed(q)[1] = recordcursor
           /\ \A i \in 1..Len(q) : Placed(q)[i + 1] = Placed(q)[i] + q[i].length
<1> DEFINE D(f, k) == [i \in 1..(k + 1) |->
                         IF i = 1 THEN recordcursor
                         ELSE f[i - 1] + q[i - 1].length]
           T == {k \in 0..Len(q) : ~ \E f : f = D(f, k)}
<1>1. Len(q) \in Nat
  OBVIOUS
<1>2. ASSUME T # {} PROVE FALSE
  <2>1. T \in SUBSET Nat
    BY <1>1
  <2>2. PICK k \in T : \A j \in T : k <= j
    BY <1>2, <2>1, LeastExists
  <2>3. ~ \E f : f = D(f, k)
    BY <2>2
  <2>4. CASE k = 0
    <3> DEFINE f == [i \in 1..1 |-> recordcursor]
    <3>1. f = D(f, 0)
      OBVIOUS
    <3>2. QED
      BY <2>3, <2>4, <3>1
  <2>5. CASE k # 0
    <3>0. k \in 0..Len(q)
      BY <2>2
    <3>1. k \in Nat /\ k - 1 \in 0..Len(q) /\ k - 1 \notin T
      <4>1. k \in Nat /\ k - 1 \in 0..Len(q) /\ ~(k <= k - 1)
        BY <1>1, <2>5, <3>0
      <4>2. QED
        BY <2>2, <4>1
    <3>2. PICK f : f = D(f, k - 1)
      BY <3>1
    <3> DEFINE g == [i \in 1..(k + 1) |->
                       IF i <= k THEN f[i] ELSE f[k] + q[k].length]
    <3>3. ASSUME NEW i \in 1..(k + 1)
          PROVE  g[i] = IF i = 1 THEN recordcursor
                        ELSE g[i - 1] + q[i - 1].length
      <4>0. (k - 1) + 1 = k
        BY <3>1
      <4>1. \A j \in 1..k : f[j] = IF j = 1 THEN recordcursor
                                   ELSE f[j - 1] + q[j - 1].length
        BY <3>2, <4>0, Zenon
      <4>2. CASE i <= k
        BY <3>1, <4>1, <4>2
      <4>3. CASE i = k + 1
        BY <2>5, <3>1, <4>3
      <4>4. QED
        BY <3>1, <4>2, <4>3
    <3>4. g = D(g, k)
      BY <3>3, Zenon
    <3>5. QED
      BY <2>3, <3>4
  <2>6. QED
    BY <2>4, <2>5
<1>3. Len(q) \notin T
  BY <1>2
<1>4. \E f : f = D(f, Len(q))
  BY <1>1, <1>3
<1> DEFINE at == CHOOSE f : f = D(f, Len(q))
<1>5. at = D(at, Len(q))
  BY <1>4, Zenon
<1>6. Placed(q) = at
  BY Zenon DEF Placed
<1> HIDE DEF at
<1>7. \A i \in 1..(Len(q) + 1) :
         at[i] = IF i = 1 THEN recordcursor ELSE at[i - 1] + q[i - 1].length
  BY <1>5, Zenon
<1>8. at[1] = recordcursor
  <2>1. 1 \in 1..(Len(q) + 1)
    BY <1>1
  <2>2. QED
    BY <1>7, <2>1, Zenon
<1>9. ASSUME NEW i \in 1..Len(q) PROVE at[i + 1] = at[i] + q[i].length
  <2>1. i + 1 \in 1..(Len(q) + 1) /\ i + 1 # 1 /\ (i + 1) - 1 = i
    BY <1>1
  <2>2. QED
    BY <1>7, <2>1
<1>10. QED
  BY <1>6, <1>8, <1>9

\* Each event leaves room for its header before the next.
LEMMA PlacedGrows ==
    ASSUME NEW q \in Seq(Queued), recordcursor \in Nat,
           NEW i \in 1..(Len(q) + 1)
    PROVE  /\ Placed(q)[i] \in Nat
           /\ \A j \in 1..(Len(q) + 1) :
                 i < j => Placed(q)[i] + HeaderSize <= Placed(q)[j]
<1> DEFINE n == Len(q) + 1
<1>1. Len(q) \in Nat /\ n \in Nat
  OBVIOUS
<1>2. PICK at : at = Placed(q)
  OBVIOUS
<1>3. /\ at[1] = recordcursor
      /\ \A j \in 1..Len(q) : at[j + 1] = at[j] + q[j].length
  BY <1>2, PlacedCounts
<1>4. HeaderSize \in Nat /\ \A j \in 1..Len(q) : q[j].length \in Nat
                                                /\ q[j].length >= HeaderSize
  <2>1. \A j \in 1..Len(q) : q[j] \in Queued
    OBVIOUS
  <2>2. QED
    BY <2>1, EventRingAssumption DEF Queued
<1>5. \A j \in 1..n : at[j] \in Nat
  <2> DEFINE T == {j \in 1..n : at[j] \notin Nat}
  <2>1. ASSUME T # {} PROVE FALSE
    <3>1. T \in SUBSET Nat
      BY <1>1
    <3>2. PICK k \in T : \A j \in T : k <= j
      BY <2>1, <3>1, LeastExists
    <3>3. k # 1
      BY <1>3, <3>2
    <3>4. k \in 1..n /\ k - 1 \in 1..Len(q) /\ k - 1 \in 1..n /\ (k - 1) + 1 = k
      BY <1>1, <3>2, <3>3
    <3>5. at[k - 1] \in Nat
      BY <3>2, <3>4
    <3>6. at[k] = at[k - 1] + q[k - 1].length
      BY <1>3, <3>4
    <3>7. QED
      BY <1>4, <3>2, <3>4, <3>5, <3>6
  <2>2. QED
    BY <2>1
<1>6. \A j \in 1..n : i < j => at[i] + HeaderSize <= at[j]
  <2> DEFINE T == {j \in 1..n : i < j /\ ~(at[i] + HeaderSize <= at[j])}
  <2>1. ASSUME T # {} PROVE FALSE
    <3>1. T \in SUBSET Nat
      BY <1>1
    <3>2. PICK k \in T : \A j \in T : k <= j
      BY <2>1, <3>1, LeastExists
    <3>3. /\ k \in 1..n /\ i < k /\ ~(at[i] + HeaderSize <= at[k])
          /\ k - 1 \in 1..Len(q) /\ k - 1 \in 1..n /\ (k - 1) + 1 = k
      BY <1>1, <3>2
    <3>4. at[k] = at[k - 1] + q[k - 1].length
      BY <1>3, <3>3
    <3>5. /\ at[k - 1] \in Nat /\ at[i] \in Nat /\ at[k] \in Nat
          /\ q[k - 1].length \in Nat /\ q[k - 1].length >= HeaderSize
      BY <1>4, <1>5, <3>3
    <3>6. CASE k - 1 = i
      BY <1>4, <3>3, <3>4, <3>5, <3>6
    <3>7. CASE k - 1 # i
      <4>1. k - 1 \notin T /\ i < k - 1
        BY <3>2, <3>3, <3>7
      <4>2. at[i] + HeaderSize <= at[k - 1]
        BY <3>3, <4>1
      <4>3. QED
        BY <1>4, <3>3, <3>4, <3>5, <4>2
    <3>8. QED
      BY <3>6, <3>7
  <2>2. QED
    BY <2>1
<1>7. QED
  BY <1>2, <1>5, <1>6

\* The events that fit are the first ones of the queue.
LEMMA FittingFirst ==
    ASSUME NEW q \in Seq(Queued), recordcursor \in 0..(Size - HeaderSize)
    PROVE  /\ Fitting(q) \in 0..Len(q)
           /\ \A i \in 1..Len(q) :
                 Placed(q)[i + 1] + HeaderSize <= Size <=> i <= Fitting(q)
<1> DEFINE F == {i \in 1..Len(q) : Placed(q)[i + 1] + HeaderSize <= Size}
           T == (1..Len(q)) \ F
<1>1. Len(q) \in Nat /\ recordcursor \in Nat /\ HeaderSize \in Nat /\ Size \in Nat
  BY EventRingAssumption
<1>2. \E m \in 0..Len(q) : F = 1..m
  <2>1. CASE T = {}
    BY <1>1, <2>1
  <2>2. CASE T # {}
    <3>1. T \in SUBSET Nat
      BY <1>1
    <3>2. PICK k \in T : \A j \in T : k <= j
      BY <2>2, <3>1, LeastExists
    <3>3. k \in 1..Len(q) /\ k - 1 \in 0..Len(q) /\ k \notin F
      BY <1>1, <3>2
    <3>4. ASSUME NEW i \in 1..(k - 1) PROVE i \in F
      <4>1. i \in 1..Len(q) /\ ~(k <= i)
        BY <1>1, <3>3
      <4>2. QED
        BY <3>2, <4>1
    <3>5. ASSUME NEW i \in F PROVE i \in 1..(k - 1)
      <4>1. i \in 1..Len(q) /\ Placed(q)[i + 1] + HeaderSize <= Size
        OBVIOUS
      <4>2. i + 1 \in 1..(Len(q) + 1) /\ k + 1 \in 1..(Len(q) + 1)
        BY <1>1, <3>3
      <4>3. ~(Placed(q)[k + 1] + HeaderSize <= Size)
        BY <3>3
      <4>4. ASSUME i > k PROVE FALSE
        <5>1. /\ Placed(q)[k + 1] \in Nat /\ Placed(q)[i + 1] \in Nat
          BY <1>1, <4>2, PlacedGrows
        <5>2. k + 1 < i + 1
          BY <1>1, <3>3, <4>4
        <5>3. Placed(q)[k + 1] + HeaderSize <= Placed(q)[i + 1]
          BY <1>1, <4>2, <5>2, PlacedGrows
        <5>4. QED
          BY <1>1, <4>1, <4>3, <5>1, <5>3
      <4>5. i # k
        BY <3>3
      <4>6. QED
        BY <1>1, <3>3, <4>1, <4>4, <4>5
    <3>6. F = 1..(k - 1)
      BY <3>4, <3>5
    <3>7. QED
      BY <3>3, <3>6
  <2>3. QED
    BY <2>1, <2>2
<1>3. PICK m \in 0..Len(q) : F = 1..m
  BY <1>2
<1>4. Cardinality(F) = m
  <2>1. 1 \in Int /\ m \in Int /\ m >= 0
    BY <1>1
  <2>2. Cardinality(1..m) = IF 1 > m THEN 0 ELSE m - 1 + 1
    BY ONLY <2>1, FS_Interval
  <2>3. Cardinality(1..m) = m
    BY ONLY <2>1, <2>2
  <2>4. QED
    BY ONLY <1>3, <2>3
<1>5. Fitting(q) = m
  BY <1>4, Zenon DEF Fitting
<1>6. ASSUME NEW i \in 1..Len(q)
      PROVE  Placed(q)[i + 1] + HeaderSize <= Size <=> i <= m
  BY <1>1, <1>3
<1>7. QED
  BY <1>5, <1>6

\* There is room for the header of a pad behind them.
LEMMA FittingRoom ==
    ASSUME NEW q \in Seq(Queued), recordcursor \in 0..(Size - HeaderSize)
    PROVE  /\ Placed(q)[Fitting(q) + 1] \in recordcursor..(Size - HeaderSize)
           /\ \A i \in 1..Fitting(q) : Placed(q)[i] \in recordcursor..Size
<1>1. /\ Len(q) \in Nat /\ recordcursor \in Nat /\ HeaderSize \in Nat
      /\ Size \in Nat /\ recordcursor + HeaderSize <= Size
  BY EventRingAssumption
<1>2. PICK n : n = Fitting(q)
  OBVIOUS
<1>3. /\ n \in 0..Len(q)
      /\ \A i \in 1..Len(q) : Placed(q)[i + 1] + HeaderSize <= Size <=> i <= n
  BY <1>2, FittingFirst
<1>4. Placed(q)[1] = recordcursor
  BY PlacedCounts
<1>5. ASSUME NEW i \in 1..(n + 1)
      PROVE  Placed(q)[i] \in recordcursor..(Size - HeaderSize)
  <2>1. CASE i = 1
    BY <1>1, <1>4, <2>1
  <2>2. CASE i # 1
    <3>1. i - 1 \in 1..Len(q) /\ i - 1 <= n /\ (i - 1) + 1 = i
      BY <1>1, <1>3, <2>2
    <3>2. Placed(q)[i] + HeaderSize <= Size
      BY <1>3, <3>1
    <3>3. 1 \in 1..(Len(q) + 1) /\ i \in 1..(Len(q) + 1) /\ 1 < i
      BY <1>1, <1>3, <2>2
    <3>4. Placed(q)[1] + HeaderSize <= Placed(q)[i] /\ Placed(q)[i] \in Nat
      BY <1>1, <3>3, PlacedGrows
    <3>5. QED
      BY <1>1, <1>4, <3>2, <3>4
  <2>3. QED
    BY <2>1, <2>2
<1>6. QED
  BY <1>1, <1>2, <1>3, <1>5

-----------------------------------------------------------------------------
(* What a write leaves in the ring.                                        *)

QueueOK ==
    /\ write_q \in Seq(Queued)
    /\ recordcursor \in 0..(Size - HeaderSize)
    /\ lastrecord \in Offsets

\* The offset that the header of the i-th event, or of the pad, refers to.
Back(i) == IF i = 1 THEN lastrecord ELSE Placed(write_q)[i - 1]

LEMMA PlacedApart ==
    ASSUME QueueOK, NEW i \in 1..(Len(write_q) + 1),
           NEW j \in 1..(Len(write_q) + 1), NEW k \in 0..(HeaderSize - 1),
           (Placed(write_q)[j] + k) - Placed(write_q)[i] \in 0..(HeaderSize - 1)
    PROVE  i = j
<1>1. /\ Len(write_q) \in Nat /\ HeaderSize \in Nat /\ recordcursor \in Nat
      /\ i \in Nat /\ j \in Nat
  BY EventRingAssumption DEF QueueOK
<1>2. /\ Placed(write_q)[i] \in Nat
      /\ i < j => Placed(write_q)[i] + HeaderSize <= Placed(write_q)[j]
  BY <1>1, PlacedGrows DEF QueueOK
<1>3. /\ Placed(write_q)[j] \in Nat
      /\ j < i => Placed(write_q)[j] + HeaderSize <= Placed(write_q)[i]
  BY <1>1, PlacedGrows DEF QueueOK
<1>4. k \in Nat /\ k < HeaderSize
  BY <1>1
<1>5. /\ (Placed(write_q)[j] + k) - Placed(write_q)[i] >= 0
      /\ (Placed(write_q)[j] + k) - Placed(write_q)[i] < HeaderSize
  BY <1>1, <1>2, <1>3, <1>4
<1>6. ~(i < j) /\ ~(j < i)
  BY <1>1, <1>2, <1>3, <1>4, <1>5
<1>7. QED
  BY <1>1, <1>6

LEMMA HeadersWritten ==
    ASSUME QueueOK, NEW n \in 0..Len(write_q), NEW stop, NEW i \in 1..(n + 1)
    PROVE  /\ Placed(write_q)[i] \in DOMAIN Headers(n, stop)
           /\ Headers(n, stop)[Placed(write_q)[i]] =
                 IF i = n + 1
                 THEN Header("pad", 0, stop - Placed(write_q)[i], Back(i))
                 ELSE Header(write_q[i].type, write_q[i].record,
                             write_q[i].length, Back(i))
<1> DEFINE at == Placed(write_q)
           j == CHOOSE j \in 1..(n + 1) : at[j] = at[i]
<1>1. Len(write_q) \in Nat /\ n \in Nat /\ n <= Len(write_q) /\ HeaderSize \in Nat
      /\ HeaderSize > 0
  BY EventRingAssumption DEF QueueOK
<1>2. j \in 1..(n + 1) /\ at[j] = at[i]
  OBVIOUS
<1>3. j = i
  <2>1. at[i] \in Nat
    BY <1>1, PlacedGrows DEF QueueOK
  <2>2. (at[j] + 0) - at[i] \in 0..(HeaderSize - 1) /\ 0 \in 0..(HeaderSize - 1)
    BY <1>1, <1>2, <2>1
  <2>3. i \in 1..(Len(write_q) + 1) /\ j \in 1..(Len(write_q) + 1)
    BY <1>1, <1>2
  <2>4. QED
    BY <2>2, <2>3, PlacedApart
<1>4. at[i] \in {at[k] : k \in 1..(n + 1)}
  OBVIOUS
<1> HIDE DEF j
<1>5. Headers(n, stop)[at[i]] =
         IF j = n + 1
         THEN Header("pad", 0, stop - at[i],
                     IF j = 1 THEN lastrecord ELSE at[j - 1])
         ELSE Header(write_q[j].type, write_q[j].record, write_q[j].length,
                     IF j = 1 THEN lastrecord ELSE at[j - 1])
  BY <1>4, Zenon DEF Headers, j
<1>6. DOMAIN Headers(n, stop) = {at[k] : k \in 1..(n + 1)}
  BY DEF Headers
<1>7. QED
  BY <1>3, <1>4, <1>5, <1>6 DEF Back

\* The new headers are there in full.
LEMMA WrittenHeader ==
    ASSUME QueueOK, NEW n \in 0..Len(write_q), NEW stop,
           NEW upto \in Nat, NEW i \in 1..(n + 1),
           Placed(write_q)[i] + HeaderSize <= upto,
           Placed(write_q)[i] + HeaderSize <= Size
    PROVE  LET disk == Written(Headers(n, stop), upto)
           IN  HeaderAt(disk, Placed(write_q)[i])
                  = Headers(n, stop)[Placed(write_q)[i]]
<1> DEFINE at == Placed(write_q)
           H == Headers(n, stop)
           disk == Written(H, upto)
<1>1. /\ Len(write_q) \in Nat /\ n \in Nat /\ n <= Len(write_q)
      /\ HeaderSize \in Nat /\ HeaderSize > 0 /\ Size \in Nat
      /\ recordcursor \in Nat
  BY EventRingAssumption DEF QueueOK
<1>2. at[i] \in Nat /\ recordcursor <= at[i]
  <2>1. at[1] = recordcursor
    BY PlacedCounts DEF QueueOK
  <2>2. 1 \in 1..(Len(write_q) + 1) /\ i \in 1..(Len(write_q) + 1)
    BY <1>1
  <2>3. at[i] \in Nat
    BY <1>1, <2>2, PlacedGrows DEF QueueOK
  <2>4. 1 < i => at[1] + HeaderSize <= at[i]
    BY <1>1, <2>2, PlacedGrows DEF QueueOK
  <2>5. QED
    BY <1>1, <2>1, <2>2, <2>3, <2>4
<1>3. DOMAIN H = {at[j] : j \in 1..(n + 1)}
  BY DEF Headers
<1>4. ASSUME NEW k \in 0..(HeaderSize - 1)
      PROVE  disk[at[i] + k] = <<H[at[i]], k>>
  <2> DEFINE c == at[i] + k
             o == CHOOSE o \in DOMAIN H : c - o \in 0..(HeaderSize - 1)
  <2>1. c \in Offsets /\ ~(c < recordcursor) /\ ~(c >= upto) /\ c - at[i] = k
    BY <1>1, <1>2 DEF Offsets
  <2>2. at[i] \in DOMAIN H /\ c - at[i] \in 0..(HeaderSize - 1)
    BY <1>3, <2>1
  <2>3. o \in DOMAIN H /\ c - o \in 0..(HeaderSize - 1)
    BY <2>2
  <2>5. disk[c] = <<H[o], c - o>>
    BY <2>1, <2>2, Zenon DEF Written
  <2> HIDE DEF o
  <2>4. o = at[i]
    <3>1. PICK j \in 1..(n + 1) : o = at[j]
      BY <1>3, <2>3
    <3>2. i \in 1..(Len(write_q) + 1) /\ j \in 1..(Len(write_q) + 1)
      BY <1>1
    <3>3. (at[i] + k) - at[j] \in 0..(HeaderSize - 1)
      BY <2>3, <3>1, Zenon
    <3>4. QED
      BY <3>1, <3>2, <3>3, PlacedApart
  <2>6. QED
    BY <2>1, <2>4, <2>5
<1>5. at[i] \in Nat /\ at[i] + HeaderSize <= Size
  BY <1>2
<1> HIDE DEF disk, H, at
<1>6. HeaderAt(disk, at[i]) = H[at[i]]
  <2>1. 0 \in 0..(HeaderSize - 1) /\ at[i] + 0 = at[i]
    BY <1>1, <1>5
  <2>2. disk[at[i]] = <<H[at[i]], 0>>
    BY <1>4, <2>1
  <2>3. disk[at[i]][1] = H[at[i]]
    BY <2>2
  <2>4. QED
    BY <1>4, <1>5, <2>3 DEF HeaderAt
<1>7. QED
  BY <1>6, Zenon DEF disk, H, at

\* What the write does not reach stays.
LEMMA WrittenOutside ==
    ASSUME NEW headers, NEW upto, NEW x \in Offsets,
           x < recordcursor \/ x >= upto
    PROVE  Written(headers, upto)[x] = erb[x]
  BY DEF Written

\* A write that ends with its pad at stop.
Stops(n, stop) ==
    /\ n = Fitting(write_q)
    /\ stop \in Nat /\ stop <= Size
    /\ Placed(write_q)[n + 1] + HeaderSize <= stop

LEMMA WriteNumbers ==
    ASSUME QueueOK, NEW n, NEW stop, Stops(n, stop)
    PROVE  /\ Len(write_q) \in Nat /\ n \in 0..Len(write_q) /\ n \in Nat
           /\ HeaderSize \in Nat /\ HeaderSize > 0 /\ Size \in Nat
           /\ recordcursor \in Nat
           /\ \A i \in 1..(n + 1) :
                 /\ i \in 1..(Len(write_q) + 1)
                 /\ Placed(write_q)[i] \in Nat
                 /\ recordcursor <= Placed(write_q)[i]
                 /\ Placed(write_q)[i] <= Placed(write_q)[n + 1]
                 /\ Placed(write_q)[i] + HeaderSize <= Size
                 /\ Placed(write_q)[i] \in Offsets
<1>1. /\ Len(write_q) \in Nat /\ HeaderSize \in Nat /\ HeaderSize > 0
      /\ Size \in Nat /\ recordcursor \in Nat
  BY EventRingAssumption DEF QueueOK
<1>2. n \in 0..Len(write_q) /\ n \in Nat
  BY <1>1, FittingFirst DEF QueueOK, Stops
<1>3. Placed(write_q)[n + 1] \in recordcursor..(Size - HeaderSize)
  BY FittingRoom DEF QueueOK, Stops
<1>4. ASSUME NEW i \in 1..(n + 1)
      PROVE  /\ i \in 1..(Len(write_q) + 1)
             /\ Placed(write_q)[i] \in Nat
             /\ recordcursor <= Placed(write_q)[i]
             /\ Placed(write_q)[i] <= Placed(write_q)[n + 1]
             /\ Placed(write_q)[i] + HeaderSize <= Size
             /\ Placed(write_q)[i] \in Offsets
  <2>1. /\ i \in 1..(Len(write_q) + 1) /\ 1 \in 1..(Len(write_q) + 1)
        /\ n + 1 \in 1..(Len(write_q) + 1)
    BY <1>1, <1>2
  <2>2. /\ Placed(write_q)[i] \in Nat
        /\ i < n + 1 => Placed(write_q)[i] + HeaderSize <= Placed(write_q)[n + 1]
    BY <1>1, <2>1, PlacedGrows DEF QueueOK
  <2>3. /\ Placed(write_q)[1] = recordcursor
        /\ 1 < i => Placed(write_q)[1] + HeaderSize <= Placed(write_q)[i]
    BY <1>1, <2>1, PlacedGrows, PlacedCounts DEF QueueOK
  <2>4. Placed(write_q)[n + 1] \in Nat
    BY <1>1, <1>3
  <2>5. Placed(write_q)[i] <= Placed(write_q)[n + 1]
    <3>1. CASE i = n + 1
      BY <2>2, <3>1
    <3>2. CASE i # n + 1
      <4>1. i < n + 1
        BY <1>2, <3>2
      <4>2. QED
        BY <1>1, <2>2, <2>4, <4>1
    <3>3. QED
      BY <3>1, <3>2
  <2>6. recordcursor <= Placed(write_q)[i]
    <3>1. CASE i = 1
      BY <1>1, <2>3, <3>1
    <3>2. CASE i # 1
      BY <1>1, <1>2, <2>2, <2>3, <3>2
    <3>3. QED
      BY <3>1, <3>2
  <2>7. Placed(write_q)[i] + HeaderSize <= Size
    BY <1>1, <1>3, <2>2, <2>4, <2>5
  <2>8. QED
    BY <1>1, <2>1, <2>2, <2>5, <2>6, <2>7 DEF Offsets
<1>5. QED
  BY <1>1, <1>2, <1>4

\* Each new header is one, and leads to the next, that of the pad to its end.
LEMMA HeadersLead ==
    ASSUME QueueOK, NEW n, NEW stop, Stops(n, stop), NEW i \in 1..(n + 1)
    PROVE  LET o == Placed(write_q)[i]
               h == Headers(n, stop)[o]
           IN  /\ HeaderOK(h)
               /\ o + h.length = IF i = n + 1 THEN stop
                                 ELSE Placed(write_q)[i + 1]
               /\ o + h.length <= Size
               /\ h.type = IF i = n + 1 THEN "pad" ELSE write_q[i].type
               /\ h.record = IF i = n + 1 THEN 0 ELSE write_q[i].record
               /\ h.previous = Back(i)
<1>1. PICK o : o = Placed(write_q)[i]
  OBVIOUS
<1>2. PICK h : h = Headers(n, stop)[o]
  OBVIOUS
<1>3. /\ Len(write_q) \in Nat /\ n \in 0..Len(write_q) /\ n \in Nat
      /\ HeaderSize \in Nat /\ HeaderSize > 0 /\ Size \in Nat
      /\ o \in Nat /\ o <= Placed(write_q)[n + 1] /\ o \in Offsets
  BY <1>1, WriteNumbers
<1>4. Back(i) \in Offsets
  <2>1. CASE i = 1
    BY <2>1 DEF Back, QueueOK
  <2>2. CASE i # 1
    <3>1. i - 1 \in 1..(n + 1)
      BY <1>3, <2>2
    <3>2. Placed(write_q)[i - 1] \in Offsets
      BY <3>1, WriteNumbers
    <3>3. QED
      BY <2>2, <3>2 DEF Back
  <2>3. QED
    BY <2>1, <2>2
<1>5. CASE i = n + 1
  <2>1. h = Header("pad", 0, stop - o, Back(i))
    BY <1>1, <1>2, <1>3, <1>5, HeadersWritten
  <2>2. /\ h.type = "pad" /\ h.record = 0 /\ h.length = stop - o
        /\ h.previous = Back(i)
    BY <2>1 DEF Header
  <2>3. stop - o \in HeaderSize..Size /\ o + (stop - o) = stop
    BY <1>1, <1>3, <1>5 DEF Stops
  <2>4. HeaderOK(h)
    BY <1>4, <2>1, <2>3 DEF HeaderOK, HeaderSet, Header
  <2>5. o + h.length = stop /\ stop <= Size
    BY <2>2, <2>3 DEF Stops
  <2>6. QED
    BY <1>1, <1>2, <1>5, <2>2, <2>4, <2>5
<1>6. CASE i # n + 1
  <2>1. i \in 1..Len(write_q) /\ i + 1 \in 1..(n + 1)
    BY <1>3, <1>6
  <2>2. write_q[i] \in Queued
    BY <2>1 DEF QueueOK
  <2>3. h = Header(write_q[i].type, write_q[i].record, write_q[i].length, Back(i))
    BY <1>1, <1>2, <1>3, <1>6, HeadersWritten
  <2>4. /\ h.type = write_q[i].type /\ h.record = write_q[i].record
        /\ h.length = write_q[i].length /\ h.previous = Back(i)
    BY <2>3 DEF Header
  <2>5. Placed(write_q)[i + 1] = o + write_q[i].length
    BY <1>1, <2>1, PlacedCounts DEF QueueOK
  <2>6. Placed(write_q)[i + 1] <= Size
    <3>1. Placed(write_q)[i + 1] \in Nat
          /\ Placed(write_q)[i + 1] + HeaderSize <= Size
      BY <2>1, WriteNumbers
    <3>2. QED
      BY <1>3, <3>1
  <2>7. HeaderOK(h)
    <3>1. /\ write_q[i].type \in EventTypes /\ write_q[i].record \in Nat \ {0}
          /\ write_q[i].length \in HeaderSize..Size
      BY <1>3, <2>2 DEF Queued
    <3>2. write_q[i].type # "pad"
      BY <3>1 DEF EventTypes
    <3>3. QED
      BY <1>4, <2>3, <3>1, <3>2 DEF HeaderOK, HeaderSet, Header
  <2>8. QED
    BY <1>1, <1>2, <1>6, <2>4, <2>5, <2>6, <2>7
<1>7. QED
  BY <1>5, <1>6

LEMMA WrittenCells ==
    ASSUME QueueOK, Cells(erb), NEW n, NEW stop, Stops(n, stop), NEW upto
    PROVE  Cells(Written(Headers(n, stop), upto))
<1> DEFINE H == Headers(n, stop)
           disk == Written(H, upto)
<1>1. ASSUME NEW x \in Offsets PROVE CellOK(disk[x], x)
  <2>1. CASE x < recordcursor \/ x >= upto
    <3>1. disk[x] = erb[x]
      BY <2>1 DEF Written
    <3>2. QED
      BY <3>1 DEF Cells
  <2>2. CASE ~(x < recordcursor \/ x >= upto)
             /\ \E o \in DOMAIN H : x - o \in 0..(HeaderSize - 1)
    <3>1. PICK o \in DOMAIN H : /\ disk[x] = <<H[o], x - o>>
                                /\ x - o \in 0..(HeaderSize - 1)
      BY <2>2, Zenon DEF Written
    <3>2. PICK i \in 1..(n + 1) : o = Placed(write_q)[i]
      BY <3>1 DEF Headers
    <3>3. HeaderOK(H[o]) /\ o + H[o].length <= Size
      BY <3>2, HeadersLead
    <3>4. H[o] \in HeaderSet
      BY <3>3 DEF HeaderOK
    <3>5. o \in Nat /\ x \in Nat /\ HeaderSize \in Nat
      BY <3>2, WriteNumbers DEF Offsets
    <3>6. x - o <= x /\ x - (x - o) = o
      BY <3>5
    <3>7. QED
      BY <3>1, <3>3, <3>4, <3>6 DEF CellOK
  <2>3. CASE ~(x < recordcursor \/ x >= upto)
             /\ ~ \E o \in DOMAIN H : x - o \in 0..(HeaderSize - 1)
    <3>1. disk[x] = Body
      BY <2>3, Zenon DEF Written
    <3>2. QED
      BY <3>1 DEF CellOK
  <2>4. QED
    BY <2>1, <2>2, <2>3
<1>2. QED
  BY <1>1 DEF Cells

-----------------------------------------------------------------------------
(* The chain after a write.                                                *)

RingOK ==
    /\ QueueOK
    /\ Cells(erb)
    /\ Size \in Chain(erb, 0)
    /\ recordcursor \in Chain(erb, 0)

LEMMA RingNumbers ==
    /\ HeaderSize \in Nat /\ HeaderSize > 0 /\ Size \in Nat
    /\ 0 \in Places /\ Size \in Places
    /\ Places \subseteq Nat /\ Offsets \subseteq Places
    /\ \A x \in Places : x <= Size
  BY EventRingAssumption DEF Places, Offsets

\* The chain beyond one of its offsets.
LEMMA ChainFrom ==
    ASSUME NEW disk, Sane(disk), NEW o \in Chain(disk, 0)
    PROVE  Chain(disk, o) = {p \in Chain(disk, 0) : o <= p}
<1>1. 0 \in Places /\ o \in Places
  BY RingNumbers, ChainBounds
<1>2. Chain(disk, o) \subseteq {p \in Places : o <= p}
  BY <1>1, ChainBounds
<1>3. Chain(disk, o) \subseteq Chain(disk, 0)
  BY <1>1, ChainNested
<1>4. ASSUME NEW p \in Chain(disk, 0), o <= p PROVE p \in Chain(disk, o)
  BY <1>1, <1>4, ChainOrdered
<1>5. QED
  BY <1>2, <1>3, <1>4

\* _pad_write finds a header to end the pad at, and room for its own.
LEMMA PadStops ==
    ASSUME RingOK
    PROVE  LET n == Fitting(write_q)
               stop == EndOfPad(n, Placed(write_q)[n + 1])
           IN  Stops(n, stop) /\ stop \in Chain(erb, 0)
<1>1. PICK n : n = Fitting(write_q)
  OBVIOUS
<1>2. PICK end : end = Placed(write_q)[n + 1]
  OBVIOUS
<1>3. PICK c : c = recordcursor
  OBVIOUS
<1>4. Sane(erb)
  BY CellsSane DEF RingOK
<1>5. c \in Chain(erb, 0) /\ Size \in Chain(erb, 0) /\ c \in Places
  BY <1>3, <1>4, RingNumbers, ChainBounds DEF RingOK
<1>6. Chain(erb, c) = {p \in Chain(erb, 0) : c <= p}
  BY <1>4, <1>5, ChainFrom
<1>7. /\ end \in Nat /\ c <= end /\ end + HeaderSize <= Size /\ c \in Nat
  BY <1>1, <1>2, <1>3, FittingRoom, EventRingAssumption DEF RingOK, QueueOK
<1>8. Chain(erb, 0) \subseteq Places
  BY <1>4, RingNumbers, ChainBounds
<1>9. ASSUME NEW s \in Chain(erb, 0), end + HeaderSize <= s
      PROVE  Stops(n, s)
  BY <1>1, <1>2, <1>8, <1>9, RingNumbers DEF Stops
<1>10. CASE n < Len(write_q)
  <2>1. EndOfPad(n, end) = Size
    BY <1>10 DEF EndOfPad
  <2>2. QED
    BY <1>1, <1>2, <1>5, <1>7, <1>9, <2>1
<1>11. CASE ~(n < Len(write_q))
  <2> DEFINE beyond == {o \in Chain(erb, recordcursor) : o >= end}
             first == CHOOSE x \in beyond : \A y \in beyond : x <= y
  <2>0. beyond = {o \in Chain(erb, 0) : c <= o /\ o >= end}
    BY <1>3, <1>6
  <2>1. beyond \in SUBSET Nat /\ Size \in beyond
    <3>1. Chain(erb, 0) \subseteq Nat
      BY <1>8, RingNumbers
    <3>2. c <= Size /\ Size >= end
      BY <1>5, <1>7, RingNumbers
    <3>3. QED
      BY <1>5, <2>0, <3>1, <3>2
  <2>2. \E x \in beyond : \A y \in beyond : x <= y
    BY <2>1, LeastExists
  <2>3. first \in beyond
    BY <2>2, Zenon
  <2>4. EndOfPad(n, end) =
           IF beyond = {} THEN Size + 1
           ELSE IF first - end >= HeaderSize \/ first = Size THEN first
           ELSE IF IsHeader(erb, first) THEN first + HeaderAt(erb, first).length
           ELSE Size + 1
    BY <1>11, Zenon DEF EndOfPad, PadEnd, Least
  <2> HIDE DEF first
  <2>5. first \in Chain(erb, 0) /\ first \in Nat /\ end <= first
    BY <1>7, <2>0, <2>1, <2>3
  <2>6. CASE first - end >= HeaderSize \/ first = Size
    <3>1. EndOfPad(n, end) = first
      BY <2>1, <2>4, <2>6
    <3>2. end + HeaderSize <= first
      BY <1>7, <2>5, <2>6, RingNumbers
    <3>3. QED
      BY <1>1, <1>2, <1>9, <2>5, <3>1, <3>2
  <2>7. CASE ~(first - end >= HeaderSize \/ first = Size)
    <3>1. first <= Size /\ first # Size
      BY <1>8, <2>5, <2>7, RingNumbers
    <3>2. IsHeader(erb, first) /\ Follower(erb, first) \in Chain(erb, 0)
      BY <1>4, <1>5, <2>5, <3>1, RingNumbers, ChainOrdered
    <3>3. first + HeaderSize <= Follower(erb, first)
      BY <1>4, <3>2 DEF Sane, IsHeader
    <3>4. EndOfPad(n, end) = Follower(erb, first)
      BY <2>1, <2>4, <2>7, <3>2 DEF Follower
    <3>5. Follower(erb, first) \in Nat
      BY <1>8, <3>2, RingNumbers
    <3>6. end + HeaderSize <= Follower(erb, first)
      BY <1>7, <2>5, <3>3, <3>5, RingNumbers
    <3>7. QED
      BY <1>1, <1>2, <1>9, <3>2, <3>4, <3>6
  <2>8. QED
    BY <2>6, <2>7
<1>12. QED
  BY <1>10, <1>11

\* The old headers before the cursor and from the end of the pad on are
\* still there, and the new ones lie between them.
LEMMA ChainWritten ==
    ASSUME RingOK, NEW n, NEW stop, Stops(n, stop), stop \in Chain(erb, 0),
           NEW upto, upto = Placed(write_q)[n + 1] + HeaderSize
    PROVE  LET disk == Written(Headers(n, stop), upto)
               old  == {p \in Chain(erb, 0) : p < recordcursor \/ stop <= p}
           IN  /\ Chain(disk, 0) =
                     old \cup {Placed(write_q)[i] : i \in 1..(n + 1)}
               /\ \A p \in old : HeaderAt(disk, p) = HeaderAt(erb, p)
               /\ \A i \in 1..(n + 1) :
                     HeaderAt(disk, Placed(write_q)[i])
                        = Headers(n, stop)[Placed(write_q)[i]]
               /\ Cells(disk)
<1> DEFINE at == Placed(write_q)
           H == Headers(n, stop)
<1>0. QueueOK /\ Cells(erb)
  BY DEF RingOK
<1>1. PICK disk : disk = Written(H, upto)
  OBVIOUS
<1>2. PICK c : c = recordcursor
  OBVIOUS
<1>3. Sane(erb) /\ Sane(disk) /\ Cells(disk)
  BY <1>0, <1>1, CellsSane, WrittenCells
<1>4. /\ c \in Chain(erb, 0) /\ Size \in Chain(erb, 0)
      /\ Chain(erb, 0) \subseteq Places
  BY <1>2, <1>3, RingNumbers, ChainBounds DEF RingOK
<1>5. /\ c \in Nat /\ at[n + 1] \in Nat /\ c <= at[n + 1]
      /\ upto \in Nat /\ stop \in Nat /\ upto <= stop /\ c < stop
      /\ n \in Nat /\ n + 1 \in 1..(n + 1)
  BY <1>0, <1>2, WriteNumbers, RingNumbers DEF Stops
<1>6. ASSUME NEW p \in Chain(erb, 0), p < c \/ stop <= p
      PROVE  HeaderAt(disk, p) = HeaderAt(erb, p)
  <2>1. p \in Places /\ p \in Nat
    BY <1>4, RingNumbers
  <2>2. ASSUME NEW x \in Offsets, p <= x, x < p + HeaderSize
        PROVE  disk[x] = erb[x]
    <3>1. x \in Nat
      BY RingNumbers
    <3>2. CASE p < c
      <4>0. p <= c /\ p # c
        BY <1>5, <2>1, <3>2
      <4>1. IsHeader(erb, p) /\ Follower(erb, p) <= c /\ Follower(erb, p) \in Nat
        <5>1. /\ IsHeader(erb, p) /\ Follower(erb, p) <= c
              /\ Follower(erb, p) \in Chain(erb, 0)
          BY <1>3, <1>4, <4>0, RingNumbers, ChainOrdered
        <5>2. QED
          BY <1>4, <5>1, RingNumbers
      <4>2. p + HeaderSize <= Follower(erb, p)
        BY <1>3, <4>1 DEF Sane, IsHeader
      <4>3. x < c
        BY <1>5, <2>1, <2>2, <3>1, <4>1, <4>2, RingNumbers
      <4>4. QED
        BY <1>1, <1>2, <4>3, WrittenOutside
    <3>3. CASE stop <= p
      <4>1. x >= upto
        BY <1>5, <2>1, <2>2, <3>1, <3>3
      <4>2. QED
        BY <1>1, <4>1, WrittenOutside
    <3>4. QED
      BY <1>6, <3>2, <3>3
  <2>3. QED
    BY <2>1, <2>2, HeaderSame
<1>7. ASSUME NEW i \in 1..(n + 1)
      PROVE  HeaderAt(disk, at[i]) = H[at[i]]
  <2>0. /\ at[i] \in Nat /\ at[i] <= at[n + 1] /\ at[i] + HeaderSize <= Size
    BY <1>0, WriteNumbers
  <2>1. at[i] + HeaderSize <= upto /\ at[i] + HeaderSize <= Size
    BY <1>5, <2>0, RingNumbers
  <2>2. n \in 0..Len(write_q)
    BY <1>0, WriteNumbers
  <2>3. QED
    BY <1>0, <1>1, <1>5, <2>1, <2>2, WrittenHeader
<1>8. Chain(disk, 0) = {p \in Chain(erb, 0) : p < c} \cup Chain(disk, c)
  BY <1>3, <1>4, <1>6, RingNumbers, ChainUpTo
<1>9. Chain(disk, stop) = {p \in Chain(erb, 0) : stop <= p}
  <2>1. Chain(erb, stop) = {p \in Chain(erb, 0) : stop <= p}
    BY <1>3, ChainFrom
  <2>2. stop \in Places
    BY <1>4
  <2>3. \A p \in Chain(erb, stop) : HeaderAt(disk, p) = HeaderAt(erb, p)
    BY <1>6, <2>1
  <2>4. QED
    BY <1>3, <2>1, <2>2, <2>3, ChainSame
<1>10. ASSUME NEW i \in 1..(n + 1)
       PROVE  Chain(disk, at[i]) =
                 {at[i]} \cup Chain(disk, IF i = n + 1 THEN stop ELSE at[i + 1])
  <2>1. /\ at[i] \in Offsets /\ at[i] \in Places
    BY <1>0, WriteNumbers, RingNumbers
  <2>2. /\ HeaderOK(H[at[i]])
        /\ at[i] + H[at[i]].length = IF i = n + 1 THEN stop ELSE at[i + 1]
    BY <1>0, HeadersLead
  <2>3. H[at[i]] # NoHeader
    BY <2>2 DEF HeaderOK, HeaderSet, NoHeader, EventTypes
  <2>4. IsHeader(disk, at[i])
    BY <1>7, <2>1, <2>3 DEF IsHeader
  <2>5. Follower(disk, at[i]) = IF i = n + 1 THEN stop ELSE at[i + 1]
    BY <1>7, <2>2 DEF Follower
  <2>6. QED
    BY <1>3, <2>1, <2>4, <2>5, ChainUnfolds
<1>11. \A i \in 1..(n + 1) :
          Chain(disk, at[i]) = {at[j] : j \in i..(n + 1)} \cup Chain(disk, stop)
  <2> DEFINE T == {i \in 1..(n + 1) : Chain(disk, at[i]) #
                      {at[j] : j \in i..(n + 1)} \cup Chain(disk, stop)}
  <2>1. ASSUME T # {} PROVE FALSE
    <3>1. T \in SUBSET (0..(n + 1)) /\ n + 1 \in Nat
      BY <1>5
    <3>2. PICK i \in T : \A j \in T : j <= i
      BY <2>1, <3>1, GreatestExists
    <3>3. i \in 1..(n + 1)
      BY <3>2
    <3>4. CASE i = n + 1
      <4>1. i..(n + 1) = {n + 1}
        BY <1>5, <3>4
      <4>2. {at[j] : j \in i..(n + 1)} = {at[i]}
        BY <3>4, <4>1
      <4>3. QED
        BY <1>10, <3>2, <3>3, <3>4, <4>2
    <3>5. CASE i # n + 1
      <4>1. i + 1 \in 1..(n + 1) /\ ~(i + 1 <= i)
        BY <1>5, <3>3, <3>5
      <4>2. i + 1 \notin T
        BY <3>2, <4>1
      <4>3. Chain(disk, at[i + 1]) =
               {at[j] : j \in (i + 1)..(n + 1)} \cup Chain(disk, stop)
        BY <4>1, <4>2
      <4>4. i..(n + 1) = {i} \cup (i + 1)..(n + 1)
        BY <1>5, <3>3
      <4>5. {at[j] : j \in i..(n + 1)} =
               {at[i]} \cup {at[j] : j \in (i + 1)..(n + 1)}
        BY <4>4
      <4>6. Chain(disk, at[i]) = {at[i]} \cup Chain(disk, at[i + 1])
        BY <1>10, <3>3, <3>5
      <4>7. QED
        BY <3>2, <4>3, <4>5, <4>6
    <3>6. QED
      BY <3>4, <3>5
  <2>2. QED
    BY <2>1
<1>12. Chain(disk, c) = {at[i] : i \in 1..(n + 1)} \cup Chain(disk, stop)
  <2>1. at[1] = c /\ 1 \in 1..(n + 1)
    BY <1>0, <1>2, <1>5, PlacedCounts DEF QueueOK
  <2>2. QED
    BY <1>11, <2>1
<1>13. Chain(disk, 0) = {p \in Chain(erb, 0) : p < c \/ stop <= p}
                          \cup {at[i] : i \in 1..(n + 1)}
  BY <1>8, <1>9, <1>12
<1>14. QED
  BY <1>1, <1>2, <1>3, <1>6, <1>7, <1>13

-----------------------------------------------------------------------------
(* The events after a write.                                               *)

Rec(disk, o) == HeaderAt(disk, o).record

\* The events that a write with its pad up to stop leaves alone.
Survivors(stop) == {o \in Events(erb) : o < recordcursor \/ stop <= o}

LEMMA EventKind ==
    ASSUME NEW disk, Cells(disk), NEW o \in Events(disk)
    PROVE  /\ o \in Offsets /\ o \in Nat /\ o \in Chain(disk, 0)
           /\ IsHeader(disk, o)
           /\ Rec(disk, o) \in Nat /\ Rec(disk, o) > 0
           /\ Follower(disk, o) \in Nat /\ o < Follower(disk, o)
<1>1. o \in Chain(disk, 0) /\ IsHeader(disk, o)
      /\ HeaderAt(disk, o).type \in EventTypes
  BY DEF Events, Scanned
<1>2. o \in Offsets /\ o \in Nat /\ o \in Places
  BY <1>1, RingNumbers DEF IsHeader
<1>3. HeaderOK(HeaderAt(disk, o))
  BY <1>1, HeaderKind
<1>4. Rec(disk, o) \in Nat /\ Rec(disk, o) # 0
  BY <1>1, <1>3 DEF HeaderOK, HeaderSet, EventTypes, Rec
<1>5. Follower(disk, o) \in Nat /\ o < Follower(disk, o)
  BY <1>1, <1>2, CellsSane, FollowerBehind
<1>6. QED
  BY <1>1, <1>2, <1>4, <1>5

\* The write of n events and a pad up to stop.
Wrote(disk, n, stop) ==
    disk = Written(Headers(n, stop), Placed(write_q)[n + 1] + HeaderSize)

LEMMA EventsWritten ==
    ASSUME RingOK, NEW n, NEW stop, Stops(n, stop), stop \in Chain(erb, 0),
           NEW disk, Wrote(disk, n, stop)
    PROVE  /\ Events(disk) = Survivors(stop)
                               \cup {Placed(write_q)[i] : i \in 1..n}
           /\ \A o \in Survivors(stop) : HeaderAt(disk, o) = HeaderAt(erb, o)
           /\ \A i \in 1..n :
                 /\ Rec(disk, Placed(write_q)[i]) = write_q[i].record
                 /\ HeaderAt(disk, Placed(write_q)[i]).type = write_q[i].type
                 /\ HeaderAt(disk, Placed(write_q)[i]).previous = Back(i)
                 /\ Follower(disk, Placed(write_q)[i]) = Placed(write_q)[i + 1]
<1> DEFINE at == Placed(write_q)
           H == Headers(n, stop)
           old == {p \in Chain(erb, 0) : p < recordcursor \/ stop <= p}
<1>0. QueueOK
  BY DEF RingOK
<1>1. /\ Chain(disk, 0) = old \cup {at[i] : i \in 1..(n + 1)}
      /\ \A p \in old : HeaderAt(disk, p) = HeaderAt(erb, p)
      /\ \A i \in 1..(n + 1) : HeaderAt(disk, at[i]) = H[at[i]]
  BY ChainWritten DEF Wrote
<1>2. /\ n \in Nat /\ n \in 0..Len(write_q) /\ Len(write_q) \in Nat
      /\ \A i \in 1..n : i \in 1..(n + 1) /\ i # n + 1
      /\ n + 1 \in 1..(n + 1)
  BY <1>0, WriteNumbers
<1>3. ASSUME NEW i \in 1..n
      PROVE  /\ Rec(disk, at[i]) = write_q[i].record
             /\ HeaderAt(disk, at[i]).type = write_q[i].type
             /\ HeaderAt(disk, at[i]).previous = Back(i)
             /\ Follower(disk, at[i]) = at[i + 1]
             /\ at[i] \in Events(disk)
  <2>1. i \in 1..(n + 1) /\ i # n + 1 /\ i \in 1..Len(write_q)
    BY <1>2
  <2>2. PICK h : h = H[at[i]]
    OBVIOUS
  <2>3. /\ HeaderOK(h) /\ at[i] + h.length = at[i + 1]
        /\ h.type = write_q[i].type /\ h.record = write_q[i].record
        /\ h.previous = Back(i)
    BY <1>0, <2>1, <2>2, HeadersLead
  <2>4. HeaderAt(disk, at[i]) = h
    BY <1>1, <2>1, <2>2
  <2>5. write_q[i].type \in EventTypes
    <3>1. write_q[i] \in Queued
      BY <1>0, <2>1 DEF QueueOK
    <3>2. QED
      BY <3>1 DEF Queued
  <2>6. at[i] \in Offsets /\ at[i] \in Chain(disk, 0)
    BY <1>0, <1>1, <2>1, WriteNumbers
  <2>7. h # NoHeader
    BY <2>3 DEF HeaderOK, HeaderSet, NoHeader, EventTypes
  <2>8. at[i] \in Events(disk)
    BY <2>3, <2>4, <2>5, <2>6, <2>7 DEF Events, Scanned, IsHeader
  <2>9. QED
    BY <2>3, <2>4, <2>8 DEF Rec, Follower
<1>4. ASSUME NEW o \in old
      PROVE  o \in Events(disk) <=> o \in Survivors(stop)
  BY <1>1 DEF Events, Scanned, IsHeader, Survivors
<1>5. Survivors(stop) \subseteq old
  BY DEF Survivors, Events, Scanned
<1>6. at[n + 1] \notin Events(disk)
  <2>1. H[at[n + 1]].type = "pad"
    BY <1>0, <1>2, HeadersLead
  <2>2. HeaderAt(disk, at[n + 1]).type = "pad"
    BY <1>1, <1>2, <2>1
  <2>3. QED
    BY <2>2 DEF Events, EventTypes
<1>7. ASSUME NEW o \in Events(disk)
      PROVE  o \in Survivors(stop) \cup {at[i] : i \in 1..n}
  <2>1. o \in old \/ \E i \in 1..(n + 1) : o = at[i]
    BY <1>1 DEF Events, Scanned
  <2>2. ASSUME NEW i \in 1..(n + 1), o = at[i] PROVE i \in 1..n
    BY <1>2, <1>6, <2>2
  <2>3. QED
    BY <1>4, <2>1, <2>2
<1>8. Events(disk) = Survivors(stop) \cup {at[i] : i \in 1..n}
  BY <1>3, <1>4, <1>5, <1>7
<1>9. QED
  BY <1>1, <1>3, <1>5, <1>8

-----------------------------------------------------------------------------
(* The order of the events.                                                *)

\* From the cursor round to it, record numbers go up,
Rising(disk, cursor) ==
    \A o, p \in Events(disk) :
        Precedes(cursor, o, p) => Rec(disk, o) < Rec(disk, p)

\* without a gap,
Unbroken(disk) ==
    \A o, p \in Events(disk) : \A r \in Nat :
        Rec(disk, o) <= r /\ r <= Rec(disk, p) =>
            \E q \in Events(disk) : Rec(disk, q) = r

\* and every event but the first leads back to the one numbered before it.
Backward(disk) ==
    \A o, p \in Events(disk) :
        Rec(disk, p) = Rec(disk, o) + 1 => HeaderAt(disk, p).previous = o

Ring(disk, cursor) ==
    /\ ScanReachesEnd(disk)
    /\ cursor \in Scanned(disk)
    /\ Rising(disk, cursor)
    /\ Unbroken(disk)
    /\ Backward(disk)

\* The event at last is the newest, of that record number, a pad is behind it,
\* and the cursor is at that pad or at the start of the ring.
Newest(disk, cursor, last, top) ==
    Events(disk) # {} =>
        /\ last \in Events(disk)
        /\ Rec(disk, last) = top
        /\ \A o \in Events(disk) : Rec(disk, o) <= top
        /\ Follower(disk, last) \notin Events(disk)
        /\ cursor = 0 \/ Follower(disk, last) = cursor

LEMMA OrderWhole ==
    ASSUME NEW disk, Cells(disk), NEW cursor \in Nat, Rising(disk, cursor),
           NEW o \in Events(disk), NEW p \in Events(disk)
    PROVE  /\ Rec(disk, o) < Rec(disk, p) => Precedes(cursor, o, p)
           /\ Rec(disk, o) = Rec(disk, p) => o = p
<1>1. /\ o \in Nat /\ p \in Nat
      /\ Rec(disk, o) \in Nat /\ Rec(disk, p) \in Nat
  BY EventKind
<1>2. /\ Precedes(cursor, o, p) => Rec(disk, o) < Rec(disk, p)
      /\ Precedes(cursor, p, o) => Rec(disk, p) < Rec(disk, o)
  BY DEF Rising
<1>3. o = p \/ Precedes(cursor, o, p) \/ Precedes(cursor, p, o)
  BY <1>1 DEF Precedes
<1>4. QED
  BY <1>1, <1>2, <1>3

\* A write costs the ring its oldest events only.
LEMMA SurvivorsNewer ==
    ASSUME Cells(erb), recordcursor \in Nat, Rising(erb, recordcursor),
           NEW stop \in Nat, recordcursor <= stop,
           NEW o \in Survivors(stop), NEW p \in Events(erb),
           Rec(erb, o) <= Rec(erb, p)
    PROVE  p \in Survivors(stop)
<1>1. o \in Events(erb) /\ (o < recordcursor \/ stop <= o)
  BY DEF Survivors
<1>2. /\ o \in Nat /\ p \in Nat
      /\ Rec(erb, o) \in Nat /\ Rec(erb, p) \in Nat
  BY <1>1, EventKind
<1>3. CASE o = p
  BY <1>3
<1>4. CASE o # p
  <2>1. Rec(erb, o) # Rec(erb, p)
    BY <1>1, <1>4, OrderWhole
  <2>2. Rec(erb, o) < Rec(erb, p)
    BY <1>2, <2>1
  <2>3. Precedes(recordcursor, o, p)
    BY <1>1, <2>2, OrderWhole
  <2>4. p < recordcursor \/ stop <= p
    BY <1>1, <1>2, <2>3 DEF Precedes
  <2>5. QED
    BY <2>4 DEF Survivors
<1>5. QED
  BY <1>3, <1>4

-----------------------------------------------------------------------------
(* One write keeps the order.                                              *)

\* The record number of the newest event in the ring.
Top == (record - 1) - Len(write_q)

Numbered ==
    /\ record \in Nat \ {0}
    /\ \A i \in 1..Len(write_q) : write_q[i].record = Top + i
    /\ Events(erb) = {} => record - Len(write_q) = 1

Whole ==
    /\ QueueOK
    /\ Cells(erb)
    /\ Ring(erb, recordcursor)
    /\ Newest(erb, recordcursor, lastrecord, Top)
    /\ Numbered

\* One turn of the loop of empty_write_q.
Turned(n, stop, disk, cursor) ==
    /\ Whole
    /\ write_q # <<>>
    /\ n = Fitting(write_q)
    /\ stop = EndOfPad(n, Placed(write_q)[n + 1])
    /\ Wrote(disk, n, stop)
    /\ cursor = IF Wraps(n) THEN 0 ELSE Placed(write_q)[n + 1]

LEMMA WholeRing ==
    ASSUME Whole
    PROVE  RingOK /\ Top \in Nat
<1>1. RingOK
  BY DEF Whole, RingOK, Ring, ScanReachesEnd, Scanned
<1>2. Len(write_q) \in Nat /\ record \in Nat
  BY DEF Whole, QueueOK, Numbered
<1>3. CASE Events(erb) = {}
  <2>1. record - Len(write_q) = 1
    BY <1>3 DEF Whole, Numbered
  <2>2. Top = 0
    BY <1>2, <2>1 DEF Top
  <2>3. QED
    BY <1>1, <2>2
<1>4. CASE Events(erb) # {}
  <2>1. lastrecord \in Events(erb) /\ Rec(erb, lastrecord) = Top /\ Cells(erb)
    BY <1>4 DEF Whole, Newest
  <2>2. QED
    BY <1>1, <2>1, EventKind
<1>5. QED
  BY <1>3, <1>4

LEMMA TurnPlaces ==
    ASSUME NEW n, NEW stop, NEW disk, NEW cursor, Turned(n, stop, disk, cursor)
    PROVE  /\ Stops(n, stop) /\ stop \in Chain(erb, 0) /\ stop \in Nat
           /\ n \in Nat /\ n \in 0..Len(write_q) /\ Len(write_q) \in Nat
           /\ Len(write_q) > 0
           /\ cursor \in Nat /\ recordcursor \in Nat /\ recordcursor < stop
           /\ \/ Wraps(n) /\ n < Len(write_q) /\ cursor = 0 /\ stop = Size
              \/ /\ ~Wraps(n) /\ n = Len(write_q)
                 /\ cursor = Placed(write_q)[n + 1]
                 /\ recordcursor <= cursor /\ cursor < stop
           /\ \A i \in 1..(n + 1) :
                 /\ Placed(write_q)[i] \in Nat
                 /\ recordcursor <= Placed(write_q)[i]
                 /\ \A j \in 1..(n + 1) :
                       i < j => Placed(write_q)[i] < Placed(write_q)[j]
<1>1. RingOK /\ QueueOK
  BY WholeRing DEF Turned, Whole
<1>2. n = Fitting(write_q) /\ stop = EndOfPad(n, Placed(write_q)[n + 1])
  BY DEF Turned
<1>3. Stops(n, stop) /\ stop \in Chain(erb, 0)
  BY <1>1, <1>2, PadStops
<1>4. /\ Len(write_q) \in Nat /\ n \in 0..Len(write_q) /\ n \in Nat
      /\ HeaderSize \in Nat /\ HeaderSize > 0 /\ Size \in Nat
      /\ recordcursor \in Nat
      /\ \A i \in 1..(n + 1) :
            /\ i \in 1..(Len(write_q) + 1)
            /\ Placed(write_q)[i] \in Nat
            /\ recordcursor <= Placed(write_q)[i]
      /\ n + 1 \in 1..(n + 1)
  BY <1>1, <1>3, WriteNumbers
<1>5. stop \in Nat /\ Placed(write_q)[n + 1] + HeaderSize <= stop
  BY <1>3 DEF Stops
<1>6. /\ Placed(write_q)[n + 1] \in Nat
      /\ recordcursor <= Placed(write_q)[n + 1]
  BY <1>4
<1>7. recordcursor < stop /\ Placed(write_q)[n + 1] < stop
  BY <1>4, <1>5, <1>6
<1>8. Len(write_q) > 0
  <2>1. write_q # <<>> /\ write_q \in Seq(Queued)
    BY <1>1 DEF Turned, QueueOK
  <2>2. QED
    BY <2>1
<1>9. \/ Wraps(n) /\ n < Len(write_q) /\ cursor = 0 /\ stop = Size
      \/ /\ ~Wraps(n) /\ n = Len(write_q)
         /\ cursor = Placed(write_q)[n + 1]
         /\ recordcursor <= cursor /\ cursor < stop
  <2>1. CASE n < Len(write_q)
    BY <1>2, <2>1 DEF Turned, Wraps, EndOfPad
  <2>2. CASE ~(n < Len(write_q))
    BY <1>4, <1>6, <1>7, <2>2 DEF Turned, Wraps
  <2>3. QED
    BY <2>1, <2>2
<1>10. ASSUME NEW i \in 1..(n + 1), NEW j \in 1..(n + 1), i < j
       PROVE  Placed(write_q)[i] < Placed(write_q)[j]
  <2>1. i \in 1..(Len(write_q) + 1) /\ j \in 1..(Len(write_q) + 1)
    BY <1>4
  <2>2. Placed(write_q)[i] + HeaderSize <= Placed(write_q)[j]
    BY <1>1, <1>4, <1>10, <2>1, PlacedGrows DEF QueueOK
  <2>3. Placed(write_q)[i] \in Nat /\ Placed(write_q)[j] \in Nat
    BY <1>4
  <2>4. QED
    BY <1>4, <2>2, <2>3
<1>11. cursor \in Nat
  BY <1>6, <1>9
<1>12. QED
  BY <1>3, <1>4, <1>5, <1>7, <1>8, <1>9, <1>10, <1>11

\* What is in the ring after the turn: survivors, of the record numbers up to
\* Top, and the new events, of the following ones.
LEMMA TurnEvents ==
    ASSUME NEW n, NEW stop, NEW disk, NEW cursor, Turned(n, stop, disk, cursor)
    PROVE  /\ Events(disk) = Survivors(stop)
                               \cup {Placed(write_q)[i] : i \in 1..n}
           /\ \A o \in Survivors(stop) :
                 /\ o \in Events(erb) /\ o \in Nat
                 /\ o < recordcursor \/ stop <= o
                 /\ HeaderAt(disk, o) = HeaderAt(erb, o)
                 /\ Rec(disk, o) = Rec(erb, o) /\ Rec(erb, o) \in Nat
                 /\ Rec(erb, o) <= Top
           /\ \A i \in 1..n :
                 /\ i \in 1..(n + 1) /\ i \in 1..Len(write_q)
                 /\ i + 1 \in 1..(n + 1)
                 /\ Rec(disk, Placed(write_q)[i]) = Top + i
                 /\ HeaderAt(disk, Placed(write_q)[i]).type = write_q[i].type
                 /\ HeaderAt(disk, Placed(write_q)[i]).previous = Back(i)
                 /\ Follower(disk, Placed(write_q)[i]) = Placed(write_q)[i + 1]
<1>1. Whole /\ RingOK /\ Cells(erb)
  BY WholeRing DEF Turned, Whole
<1>2. /\ Stops(n, stop) /\ stop \in Chain(erb, 0)
      /\ n \in Nat /\ n \in 0..Len(write_q) /\ Len(write_q) \in Nat
  BY TurnPlaces
<1>3. Wrote(disk, n, stop)
  BY DEF Turned
<1>4. /\ Events(disk) = Survivors(stop)
                           \cup {Placed(write_q)[i] : i \in 1..n}
      /\ \A o \in Survivors(stop) : HeaderAt(disk, o) = HeaderAt(erb, o)
      /\ \A i \in 1..n :
            /\ Rec(disk, Placed(write_q)[i]) = write_q[i].record
            /\ HeaderAt(disk, Placed(write_q)[i]).type = write_q[i].type
            /\ HeaderAt(disk, Placed(write_q)[i]).previous = Back(i)
            /\ Follower(disk, Placed(write_q)[i]) = Placed(write_q)[i + 1]
  BY <1>1, <1>2, <1>3, EventsWritten
<1>5. ASSUME NEW o \in Survivors(stop)
      PROVE  /\ o \in Events(erb) /\ o \in Nat
             /\ o < recordcursor \/ stop <= o
             /\ Rec(disk, o) = Rec(erb, o) /\ Rec(erb, o) \in Nat
             /\ Rec(erb, o) <= Top
  <2>1. o \in Events(erb) /\ (o < recordcursor \/ stop <= o)
    BY DEF Survivors
  <2>2. Rec(erb, o) <= Top
    BY <1>1, <2>1 DEF Whole, Newest
  <2>3. QED
    BY <1>1, <1>4, <2>1, <2>2, EventKind DEF Rec
<1>6. ASSUME NEW i \in 1..n
      PROVE  /\ i \in 1..(n + 1) /\ i \in 1..Len(write_q)
             /\ i + 1 \in 1..(n + 1)
             /\ write_q[i].record = Top + i
  <2>1. /\ i \in 1..(n + 1) /\ i \in 1..Len(write_q) /\ i + 1 \in 1..(n + 1)
    BY <1>2
  <2>2. QED
    BY <1>1, <2>1 DEF Whole, Numbered
<1>7. QED
  BY <1>4, <1>5, <1>6

LEMMA TurnRises ==
    ASSUME NEW n, NEW stop, NEW disk, NEW cursor, Turned(n, stop, disk, cursor)
    PROVE  Rising(disk, cursor)
<1>1. /\ Whole /\ Cells(erb) /\ Rising(erb, recordcursor) /\ Top \in Nat
  BY WholeRing DEF Turned, Whole, Ring
<1> DEFINE K == Survivors(stop)
           N == {Placed(write_q)[i] : i \in 1..n}
<1>2. Events(disk) = K \cup N
  BY TurnEvents
<1>3. ASSUME NEW o \in K, NEW p \in K, Precedes(cursor, o, p)
      PROVE  Rec(disk, o) < Rec(disk, p)
  <2>1. /\ o \in Events(erb) /\ p \in Events(erb) /\ o \in Nat /\ p \in Nat
        /\ o < recordcursor \/ stop <= o
        /\ p < recordcursor \/ stop <= p
        /\ Rec(disk, o) = Rec(erb, o) /\ Rec(disk, p) = Rec(erb, p)
    BY TurnEvents
  <2>2. o < Size /\ p < Size /\ Size \in Nat
    BY <1>1, <2>1, EventKind, EventRingAssumption DEF Offsets
  <2>3. /\ cursor \in Nat /\ recordcursor \in Nat /\ stop \in Nat
        /\ \/ cursor = 0 /\ stop = Size
           \/ recordcursor <= cursor /\ cursor < stop
    BY TurnPlaces
  <2>4. Precedes(recordcursor, o, p)
    <3>1. CASE cursor = 0 /\ stop = Size
      BY <1>3, <2>1, <2>2, <2>3, <3>1 DEF Precedes
    <3>2. CASE recordcursor <= cursor /\ cursor < stop
      BY <1>3, <2>1, <2>2, <2>3, <3>2 DEF Precedes
    <3>3. QED
      BY <2>3, <3>1, <3>2
  <2>5. QED
    BY <1>1, <2>1, <2>4 DEF Rising
<1>4. ASSUME NEW o \in K, NEW p \in N PROVE Rec(disk, o) < Rec(disk, p)
  <2>1. PICK i \in 1..n : p = Placed(write_q)[i]
    OBVIOUS
  <2>2. /\ Rec(disk, o) \in Nat /\ Rec(disk, o) <= Top
        /\ Rec(disk, p) = Top + i /\ i \in Nat /\ i > 0
    BY <2>1, TurnEvents, TurnPlaces
  <2>3. QED
    BY <1>1, <2>2
<1>5. ASSUME NEW o \in N, NEW p \in K PROVE ~Precedes(cursor, o, p)
  <2>1. PICK i \in 1..n : o = Placed(write_q)[i]
    OBVIOUS
  <2>2. /\ i \in 1..(n + 1) /\ n + 1 \in 1..(n + 1) /\ i < n + 1
    BY TurnPlaces
  <2>3. /\ o \in Nat /\ recordcursor <= o /\ o < Placed(write_q)[n + 1]
    BY <2>1, <2>2, TurnPlaces
  <2>4. p \in Events(erb) /\ p \in Nat /\ (p < recordcursor \/ stop <= p)
    BY TurnEvents
  <2>5. p < Size /\ Size \in Nat
    BY <1>1, <2>4, EventKind, EventRingAssumption DEF Offsets
  <2>6. /\ cursor \in Nat /\ recordcursor \in Nat /\ stop \in Nat
        /\ \/ cursor = 0 /\ stop = Size
           \/ /\ cursor = Placed(write_q)[n + 1]
              /\ recordcursor <= cursor /\ cursor < stop
    BY TurnPlaces
  <2>7. CASE cursor = 0 /\ stop = Size
    BY <2>3, <2>4, <2>5, <2>6, <2>7 DEF Precedes
  <2>8. CASE /\ cursor = Placed(write_q)[n + 1]
             /\ recordcursor <= cursor /\ cursor < stop
    BY <2>3, <2>4, <2>5, <2>6, <2>8 DEF Precedes
  <2>9. QED
    BY <2>6, <2>7, <2>8
<1>6. ASSUME NEW o \in N, NEW p \in N, Precedes(cursor, o, p)
      PROVE  Rec(disk, o) < Rec(disk, p)
  <2>1. PICK i \in 1..n : o = Placed(write_q)[i]
    OBVIOUS
  <2>2. PICK j \in 1..n : p = Placed(write_q)[j]
    OBVIOUS
  <2>3. /\ i \in 1..(n + 1) /\ j \in 1..(n + 1) /\ n + 1 \in 1..(n + 1)
        /\ i < n + 1 /\ j < n + 1 /\ i \in Nat /\ j \in Nat
    BY TurnPlaces
  <2>4. /\ o \in Nat /\ o < Placed(write_q)[n + 1] /\ p \in Nat
        /\ p < Placed(write_q)[n + 1]
        /\ j < i => p < o
    BY <2>1, <2>2, <2>3, TurnPlaces
  <2>5. cursor \in Nat /\ (cursor = 0 \/ cursor = Placed(write_q)[n + 1])
    BY TurnPlaces
  <2>6. o < p
    BY <1>6, <2>4, <2>5 DEF Precedes
  <2>7. ~(j < i)
    BY <2>4, <2>6
  <2>8. i # j
    BY <2>1, <2>2, <2>4, <2>6
  <2>9. i < j
    BY <2>3, <2>7, <2>8
  <2>10. Rec(disk, o) = Top + i /\ Rec(disk, p) = Top + j
    BY <2>1, <2>2, TurnEvents
  <2>11. QED
    BY <1>1, <2>3, <2>9, <2>10
<1> HIDE DEF K, N
<1>7. QED
  BY <1>2, <1>3, <1>4, <1>5, <1>6 DEF Rising

LEMMA TurnUnbroken ==
    ASSUME NEW n, NEW stop, NEW disk, NEW cursor, Turned(n, stop, disk, cursor)
    PROVE  Unbroken(disk)
<1> DEFINE K == Survivors(stop)
           N == {Placed(write_q)[i] : i \in 1..n}
<1>1. /\ Whole /\ Cells(erb) /\ Rising(erb, recordcursor) /\ Top \in Nat
      /\ Unbroken(erb) /\ Newest(erb, recordcursor, lastrecord, Top)
  BY WholeRing DEF Turned, Whole, Ring
<1>2. Events(disk) = K \cup N
  BY TurnEvents
<1>3. n \in Nat /\ recordcursor \in Nat /\ stop \in Nat /\ recordcursor <= stop
  BY TurnPlaces
<1>4. ASSUME NEW o \in K, NEW p \in Events(erb), NEW r \in Nat,
             Rec(erb, o) <= r, r <= Rec(erb, p)
      PROVE  \E q \in K : Rec(disk, q) = r
  <2>1. o \in Events(erb) /\ Rec(erb, o) \in Nat
    BY TurnEvents
  <2>2. PICK q \in Events(erb) : Rec(erb, q) = r
    BY <1>1, <1>4, <2>1 DEF Unbroken
  <2>3. q \in K
    BY <1>1, <1>3, <1>4, <2>2, SurvivorsNewer
  <2>4. Rec(disk, q) = r
    BY <2>2, <2>3, TurnEvents
  <2>5. QED
    BY <2>3, <2>4
<1>5. ASSUME NEW r \in Nat, Top < r, r <= Top + n
      PROVE  \E q \in N : Rec(disk, q) = r
  <2>1. r - Top \in 1..n /\ Top + (r - Top) = r
    BY <1>1, <1>3, <1>5
  <2>2. Placed(write_q)[r - Top] \in N
    BY <2>1
  <2>3. Rec(disk, Placed(write_q)[r - Top]) = Top + (r - Top)
    BY <2>1, TurnEvents
  <2>4. QED
    BY <2>1, <2>2, <2>3
<1>6. ASSUME NEW p \in N PROVE Rec(disk, p) \in Nat /\ Rec(disk, p) > Top
                              /\ Rec(disk, p) <= Top + n
  <2>1. PICK i \in 1..n : p = Placed(write_q)[i]
    OBVIOUS
  <2>2. Rec(disk, p) = Top + i
    BY <2>1, TurnEvents
  <2>3. QED
    BY <1>1, <1>3, <2>2
<1>7. ASSUME NEW o \in K
      PROVE  /\ Rec(disk, o) = Rec(erb, o) /\ Rec(erb, o) \in Nat
             /\ Rec(erb, o) <= Top /\ o \in Events(erb)
  BY TurnEvents
<1>8. ASSUME NEW o \in Events(disk), NEW p \in Events(disk), NEW r \in Nat,
             Rec(disk, o) <= r, r <= Rec(disk, p)
      PROVE  \E q \in Events(disk) : Rec(disk, q) = r
  <2>1. CASE o \in K /\ r <= Top
    <3>1. lastrecord \in Events(erb) /\ Rec(erb, lastrecord) = Top
      BY <1>1, <1>7, <2>1 DEF Newest
    <3>2. Rec(erb, o) <= r /\ r <= Rec(erb, lastrecord)
      BY <1>7, <1>8, <2>1, <3>1
    <3>3. \E q \in K : Rec(disk, q) = r
      BY <1>4, <2>1, <3>1, <3>2
    <3>4. QED
      BY <1>2, <3>3
  <2>2. CASE Top < r
    <3>1. p \in N
      <4>1. ASSUME p \in K PROVE FALSE
        <5>1. Rec(disk, p) \in Nat /\ Rec(disk, p) <= Top
          BY <1>7, <4>1
        <5>2. QED
          BY ONLY <1>1, <1>8, <2>2, <5>1
      <4>2. QED
        BY <1>2, <4>1
    <3>2. r <= Top + n
      <4>1. Rec(disk, p) \in Nat /\ Rec(disk, p) <= Top + n
        BY <1>6, <3>1
      <4>2. QED
        BY <1>1, <1>3, <1>8, <4>1
    <3>3. QED
      BY <1>2, <1>5, <2>2, <3>2
  <2>3. CASE o \in N
    <3>1. Rec(disk, o) \in Nat /\ Rec(disk, o) > Top
      BY <1>6, <2>3
    <3>2. Top < r
      BY <1>1, <1>8, <3>1
    <3>3. QED
      BY <2>2, <3>2
  <2>4. QED
    BY <1>1, <1>2, <2>1, <2>2, <2>3
<1>9. QED
  BY <1>8 DEF Unbroken

LEMMA TurnBackward ==
    ASSUME NEW n, NEW stop, NEW disk, NEW cursor, Turned(n, stop, disk, cursor)
    PROVE  Backward(disk)
<1> DEFINE K == Survivors(stop)
           N == {Placed(write_q)[i] : i \in 1..n}
<1>1. /\ Whole /\ Cells(erb) /\ Rising(erb, recordcursor) /\ Top \in Nat
      /\ Backward(erb) /\ Newest(erb, recordcursor, lastrecord, Top)
  BY WholeRing DEF Turned, Whole, Ring
<1>2. Events(disk) = K \cup N
  BY TurnEvents
<1>3. n \in Nat /\ recordcursor \in Nat
  BY TurnPlaces
<1>4. ASSUME NEW o \in K
      PROVE  /\ Rec(disk, o) = Rec(erb, o) /\ Rec(erb, o) \in Nat
             /\ HeaderAt(disk, o) = HeaderAt(erb, o)
             /\ Rec(erb, o) <= Top /\ o \in Events(erb)
  BY TurnEvents
<1>5. ASSUME NEW o \in Events(disk), NEW p \in Events(disk),
             Rec(disk, p) = Rec(disk, o) + 1
      PROVE  HeaderAt(disk, p).previous = o
  <2>1. CASE p \in K
    <3>1. o \in K
      <4>1. ASSUME o \in N PROVE FALSE
        <5>1. PICK i \in 1..n : o = Placed(write_q)[i]
          BY <4>1
        <5>2. Rec(disk, o) = Top + i
          BY <5>1, TurnEvents
        <5>3. Rec(disk, p) \in Nat /\ Rec(disk, p) <= Top
          BY <1>4, <2>1
        <5>4. QED
          BY <1>1, <1>3, <1>5, <5>2, <5>3
      <4>2. QED
        BY <1>2, <4>1
    <3>2. Rec(erb, p) = Rec(erb, o) + 1
      BY <1>4, <1>5, <2>1, <3>1
    <3>3. HeaderAt(erb, p).previous = o
      BY <1>1, <1>4, <2>1, <3>1, <3>2 DEF Backward
    <3>4. QED
      BY <1>4, <2>1, <3>3
  <2>2. CASE p \in N
    <3>1. PICK i \in 1..n : p = Placed(write_q)[i]
      BY <2>2
    <3>2. Rec(disk, p) = Top + i /\ HeaderAt(disk, p).previous = Back(i)
      BY <3>1, TurnEvents
    <3>3. i \in Nat /\ i > 0
      BY <1>3
    <3>4. CASE o \in K
      <4>1. Rec(erb, o) \in Nat /\ Rec(erb, o) <= Top
            /\ Rec(erb, o) + 1 = Top + i /\ o \in Events(erb)
        BY <1>4, <1>5, <3>2, <3>4
      <4>2. i = 1 /\ Rec(erb, o) = Top
        BY <1>1, <3>3, <4>1
      <4>3. lastrecord \in Events(erb) /\ Rec(erb, lastrecord) = Top
        BY <1>1, <4>1 DEF Newest
      <4>4. o = lastrecord
        BY <1>1, <1>3, <4>1, <4>2, <4>3, OrderWhole
      <4>5. QED
        BY <3>2, <4>2, <4>4 DEF Back
    <3>5. CASE o \in N
      <4>1. PICK j \in 1..n : o = Placed(write_q)[j]
        BY <3>5
      <4>2. Rec(disk, o) = Top + j
        BY <4>1, TurnEvents
      <4>3. j \in Nat /\ j > 0
        BY <1>3
      <4>4. i = j + 1
        BY <1>1, <1>5, <3>2, <3>3, <4>2, <4>3
      <4>5. i # 1 /\ i - 1 = j
        BY <4>3, <4>4
      <4>6. QED
        BY <3>2, <4>1, <4>5 DEF Back
    <3>6. QED
      BY <1>2, <3>4, <3>5
  <2>3. QED
    BY <1>2, <2>1, <2>2
<1>6. QED
  BY <1>5 DEF Backward

\* From the start of the ring there is room for an event.
LEMMA TurnStarts ==
    ASSUME NEW n, NEW stop, NEW disk, NEW cursor, Turned(n, stop, disk, cursor),
           recordcursor = 0
    PROVE  n # 0
<1>1. QueueOK /\ n = Fitting(write_q)
  BY DEF Turned, Whole
<1>2. Len(write_q) \in Nat /\ Len(write_q) > 0
  BY TurnPlaces
<1>3. 1 \in 1..Len(write_q) /\ 1 + 1 = 2
  BY <1>2
<1>4. write_q[1] \in Queued
  BY <1>1, <1>3 DEF QueueOK
<1>5. /\ write_q[1].length \in Nat /\ Size \in Nat /\ HeaderSize \in Nat
      /\ write_q[1].length + HeaderSize <= Size
  BY <1>4, EventRingAssumption DEF Queued
<1>6. Placed(write_q)[1 + 1] = write_q[1].length
  BY <1>1, <1>3, <1>5, PlacedCounts DEF QueueOK
<1>7. 1 <= Fitting(write_q)
  BY <1>1, <1>3, <1>5, <1>6, FittingFirst DEF QueueOK
<1>8. QED
  BY <1>1, <1>7

\* The newest event is never overwritten.
LEMMA TurnKeepsNewest ==
    ASSUME NEW n, NEW stop, NEW disk, NEW cursor, Turned(n, stop, disk, cursor),
           n = 0, Events(erb) # {}
    PROVE  lastrecord \in Survivors(stop)
<1>1. /\ lastrecord \in Events(erb) /\ Cells(erb)
      /\ recordcursor = 0 \/ Follower(erb, lastrecord) = recordcursor
  BY DEF Turned, Whole, Newest
<1>2. Follower(erb, lastrecord) = recordcursor
  BY <1>1, TurnStarts
<1>3. lastrecord < recordcursor
  BY <1>1, <1>2, EventKind
<1>4. QED
  BY <1>1, <1>3 DEF Survivors

LEMMA TurnNewest ==
    ASSUME NEW n, NEW stop, NEW disk, NEW cursor, Turned(n, stop, disk, cursor)
    PROVE  Newest(disk, cursor,
                  IF n = 0 THEN lastrecord ELSE Placed(write_q)[n], Top + n)
<1> DEFINE K == Survivors(stop)
           N == {Placed(write_q)[i] : i \in 1..n}
           last == IF n = 0 THEN lastrecord ELSE Placed(write_q)[n]
<1>1. /\ Whole /\ Cells(erb) /\ Top \in Nat
      /\ Newest(erb, recordcursor, lastrecord, Top)
  BY WholeRing DEF Turned, Whole
<1>2. Events(disk) = K \cup N
  BY TurnEvents
<1>3. /\ n \in Nat
      /\ \/ Wraps(n) /\ n < Len(write_q) /\ cursor = 0
         \/ ~Wraps(n) /\ n = Len(write_q) /\ cursor = Placed(write_q)[n + 1]
      /\ Len(write_q) \in Nat /\ Len(write_q) > 0
  BY TurnPlaces
<1>4. ASSUME NEW o \in Events(disk) PROVE Rec(disk, o) <= Top + n
  <2>1. CASE o \in K
    <3>1. Rec(disk, o) \in Nat /\ Rec(disk, o) <= Top
      BY <2>1, TurnEvents
    <3>2. QED
      BY <1>1, <1>3, <3>1
  <2>2. CASE o \in N
    <3>1. PICK i \in 1..n : o = Placed(write_q)[i]
      BY <2>2
    <3>2. Rec(disk, o) = Top + i
      BY <3>1, TurnEvents
    <3>3. QED
      BY <1>1, <1>3, <3>2
  <2>3. QED
    BY <1>2, <2>1, <2>2
<1>5. ASSUME Events(disk) # {}
      PROVE  /\ last \in Events(disk) /\ Rec(disk, last) = Top + n
             /\ Follower(disk, last) \notin Events(disk)
             /\ cursor = 0 \/ Follower(disk, last) = cursor
  <2>0. Placed(write_q)[n + 1] \notin Events(disk)
    <3>1. /\ n + 1 \in 1..(n + 1)
          /\ Stops(n, stop) /\ stop \in Nat /\ recordcursor \in Nat
          /\ Placed(write_q)[n + 1] \in Nat
          /\ recordcursor <= Placed(write_q)[n + 1]
      BY <1>3, TurnPlaces
    <3>2. Placed(write_q)[n + 1] < stop
      BY <3>1, EventRingAssumption DEF Stops
    <3>3. Placed(write_q)[n + 1] \notin K
      <4>1. ASSUME Placed(write_q)[n + 1] \in K PROVE FALSE
        <5>1. \/ Placed(write_q)[n + 1] < recordcursor
              \/ stop <= Placed(write_q)[n + 1]
          BY <4>1, TurnEvents
        <5>2. QED
          BY <3>1, <3>2, <5>1
      <4>2. QED
        BY <4>1
    <3>4. ASSUME NEW i \in 1..n PROVE Placed(write_q)[i] # Placed(write_q)[n + 1]
      <4>1. i \in 1..(n + 1) /\ i < n + 1
        BY <1>3
      <4>2. /\ Placed(write_q)[i] < Placed(write_q)[n + 1]
            /\ Placed(write_q)[i] \in Nat
        BY <3>1, <4>1, TurnPlaces
      <4>3. QED
        BY <3>1, <4>2
    <3>5. QED
      BY <1>2, <3>3, <3>4
  <2>1. CASE n = 0
    <3>1. K # {} /\ cursor = 0
      BY <1>2, <1>3, <1>5, <2>1
    <3>2. Events(erb) # {}
      BY <3>1 DEF Survivors
    <3>3. lastrecord \in K
      BY <2>1, <3>2, TurnKeepsNewest
    <3>4. Rec(disk, lastrecord) = Rec(erb, lastrecord)
      BY <3>3, TurnEvents
    <3>5. Rec(erb, lastrecord) = Top + n
      BY <1>1, <2>1, <3>2 DEF Newest
    <3>6. Follower(disk, lastrecord) = Placed(write_q)[n + 1]
      <4>1. cursor = 0 /\ recordcursor # 0
        BY <2>1, <3>1, TurnStarts
      <4>2. Follower(erb, lastrecord) = recordcursor
        BY <1>1, <3>2, <4>1 DEF Newest
      <4>3. HeaderAt(disk, lastrecord) = HeaderAt(erb, lastrecord)
        BY <3>3, TurnEvents
      <4>4. Placed(write_q)[n + 1] = recordcursor
        <5>1. Placed(write_q)[1] = recordcursor
          BY <1>1, PlacedCounts DEF Whole, QueueOK
        <5>2. n + 1 = 1
          BY <2>1
        <5>3. QED
          BY <5>1, <5>2
      <4>5. QED
        BY <4>2, <4>3, <4>4 DEF Follower
    <3>7. QED
      BY <1>2, <2>0, <2>1, <3>1, <3>3, <3>4, <3>5, <3>6
  <2>2. CASE n # 0
    <3>1. n \in 1..n
      BY <1>3, <2>2
    <3>2. Placed(write_q)[n] \in N
      BY <3>1
    <3>3. /\ Rec(disk, Placed(write_q)[n]) = Top + n
          /\ Follower(disk, Placed(write_q)[n]) = Placed(write_q)[n + 1]
      BY <3>1, TurnEvents
    <3>4. QED
      BY <1>2, <1>3, <2>0, <2>2, <3>2, <3>3
  <2>3. QED
    BY <2>1, <2>2
<1>6. QED
  BY <1>4, <1>5 DEF Newest

\* Where the headers lead to the end of the ring, the scan passes every
\* offset of the chain.
LEMMA ScanPasses ==
    ASSUME NEW disk, Cells(disk), Size \in Chain(disk, 0),
           NEW o \in Chain(disk, 0), o # Size
    PROVE  /\ o \in Scanned(disk)
           /\ o \in 0..(Size - HeaderSize)
           /\ Follower(disk, o) \in Chain(disk, 0)
<1>1. Sane(disk) /\ 0 \in Places /\ Chain(disk, 0) \subseteq Places
  BY CellsSane, RingNumbers, ChainBounds
<1>2. o \in Nat /\ o <= Size
  BY <1>1, RingNumbers
<1>3. IsHeader(disk, o) /\ Follower(disk, o) \in Chain(disk, 0)
  BY <1>1, <1>2, ChainOrdered
<1>4. o + HeaderSize <= Size
  BY <1>3, HeaderKind
<1>5. QED
  BY <1>2, <1>3, <1>4, RingNumbers DEF Scanned

LEMMA TurnKeepsRing ==
    ASSUME NEW n, NEW stop, NEW disk, NEW cursor, Turned(n, stop, disk, cursor)
    PROVE  Cells(disk) /\ Ring(disk, cursor) /\ cursor \in 0..(Size - HeaderSize)
<1>1. RingOK
  BY WholeRing DEF Turned
<1>2. /\ Stops(n, stop) /\ stop \in Chain(erb, 0) /\ n \in Nat
      /\ stop \in Nat /\ recordcursor \in Nat /\ recordcursor < stop
      /\ cursor = 0 \/ cursor = Placed(write_q)[n + 1]
  BY TurnPlaces
<1>3. PICK upto : upto = Placed(write_q)[n + 1] + HeaderSize
  OBVIOUS
<1>4. disk = Written(Headers(n, stop), upto)
  BY <1>3 DEF Turned, Wrote
<1>5. /\ Chain(disk, 0) = {p \in Chain(erb, 0) : p < recordcursor \/ stop <= p}
                            \cup {Placed(write_q)[i] : i \in 1..(n + 1)}
      /\ Cells(disk)
  BY <1>1, <1>2, <1>3, <1>4, ChainWritten
<1>6. n + 1 \in 1..(n + 1)
  BY <1>2
<1>7. Placed(write_q)[n + 1] \in Chain(disk, 0)
  BY <1>5, <1>6
<1>8. Placed(write_q)[n + 1] \in Offsets
  BY <1>1, <1>2, <1>6, WriteNumbers DEF RingOK
<1>9. Size \in Chain(disk, 0)
  <2>1. stop <= Size /\ Size \in Chain(erb, 0)
    BY <1>1, <1>2 DEF Stops, RingOK
  <2>2. QED
    BY <1>5, <2>1
<1>10. 0 \in Chain(disk, 0)
  BY <1>5, CellsSane, RingNumbers, ChainBounds
<1>11. cursor \in Chain(disk, 0) /\ cursor # Size
  BY <1>2, <1>7, <1>8, <1>10, EventRingAssumption DEF Offsets
<1>12. cursor \in Scanned(disk) /\ cursor \in 0..(Size - HeaderSize)
  BY <1>5, <1>9, <1>11, ScanPasses
<1>13. QED
  BY <1>5, <1>9, <1>12, TurnRises, TurnUnbroken, TurnBackward
     DEF Ring, ScanReachesEnd

-----------------------------------------------------------------------------
(* The inductive invariant: unless a write has been cut short, the ring in  *)
(* the file is whole, and the thread, when it runs, knows its cursor, its   *)
(* newest event and the record numbers of what it has not written yet.      *)

RingInv ==
    ~torn =>
      /\ Cells(erb)
      /\ pc = "down" \/ Up
      /\ Up => Whole
      /\ pc = "down" =>
           /\ write_q = <<>>
           /\ \E cursor \in Nat, last \in Offsets :
                 /\ Ring(erb, cursor)
                 /\ Newest(erb, cursor, last, Rec(erb, last))

\* What is left in the queue keeps its numbers.
LEMMA QueueTurns ==
    ASSUME Whole, EmptyWriteQ
    PROVE  Whole'
<1> DEFINE n == Fitting(write_q)
           stop == EndOfPad(n, Placed(write_q)[n + 1])
           cursor == IF Wraps(n) THEN 0 ELSE Placed(write_q)[n + 1]
           last == IF n = 0 THEN lastrecord ELSE Placed(write_q)[n]
<1>1. /\ recordcursor' = cursor
      /\ lastrecord' = last
      /\ write_q' = SubSeq(write_q, n + 1, Len(write_q))
      /\ Wrote(erb', n, stop)
      /\ record' = record
      /\ write_q # <<>>
  BY DEF EmptyWriteQ, Advance, Writing, Wrote
<1>2. PICK disk : disk = erb'
  OBVIOUS
<1>3. Turned(n, stop, disk, cursor)
  BY <1>1, <1>2 DEF Turned, Wrote
<1>4. PICK m : m = n
  OBVIOUS
<1>5. /\ Stops(m, stop) /\ m \in Nat /\ m \in 0..Len(write_q)
      /\ Len(write_q) \in Nat /\ Len(write_q) > 0
  BY <1>3, <1>4, TurnPlaces
<1>6. Cells(disk) /\ Ring(disk, cursor) /\ cursor \in 0..(Size - HeaderSize)
  BY <1>3, TurnKeepsRing
<1>7. Newest(disk, cursor, last, Top + m)
  BY <1>3, <1>4, TurnNewest
<1>8. last \in Offsets
  <2>1. CASE m = 0
    BY <1>4, <2>1 DEF Whole, QueueOK
  <2>2. CASE m # 0
    <3>1. m \in 1..(m + 1)
      BY <1>5, <2>2
    <3>2. Placed(write_q)[m] \in Offsets
      BY <1>5, <3>1, WriteNumbers DEF Whole
    <3>3. QED
      BY <1>4, <2>2, <3>2
  <2>3. QED
    BY <2>1, <2>2
<1> HIDE DEF n, cursor, last, stop
<1>9. write_q \in Seq(Queued)
  BY DEF Whole, QueueOK
<1>10. /\ write_q' \in Seq(Queued)
       /\ Len(write_q') = Len(write_q) - m
       /\ \A i \in 1..Len(write_q') : write_q'[i] = write_q[m + i]
  BY <1>1, <1>4, <1>5, <1>9
<1>11. QueueOK'
  BY <1>1, <1>6, <1>8, <1>10 DEF QueueOK, Queued
<1>12. record \in Nat /\ Top \in Nat
  BY WholeRing DEF Whole, Numbered
<1>13. Top' = Top + m
  <2>1. (record - 1) - (Len(write_q) - m) = ((record - 1) - Len(write_q)) + m
    BY <1>5, <1>12
  <2>2. record' = record /\ Len(write_q') = Len(write_q) - m
    BY <1>1, <1>10
  <2>3. QED
    BY ONLY <2>1, <2>2 DEF Top
<1>14. Numbered'
  <2>1. ASSUME NEW i \in 1..Len(write_q') PROVE write_q'[i].record = Top' + i
    <3>1. m + i \in 1..Len(write_q)
      BY <1>5, <1>10
    <3>2. write_q[m + i].record = Top + (m + i)
      BY <3>1 DEF Whole, Numbered
    <3>3. QED
      BY <1>5, <1>10, <1>12, <1>13, <3>2
  <2>2. ASSUME Events(disk) = {} PROVE record - Len(write_q') = 1
    <3>1. m = 0
      <4>1. ASSUME m # 0 PROVE FALSE
        <5>1. m \in 1..m
          BY <1>5, <4>1
        <5>2. Placed(write_q)[m] \in Events(disk)
          BY <1>3, <1>4, <5>1, TurnEvents
        <5>3. QED
          BY <2>2, <5>2
      <4>2. QED
        BY <4>1
    <3>2. Events(erb) = {}
      <4>1. ASSUME Events(erb) # {} PROVE FALSE
        <5>1. lastrecord \in Survivors(stop)
          BY <1>3, <1>4, <3>1, <4>1, TurnKeepsNewest
        <5>2. lastrecord \in Events(disk)
          BY <1>3, <5>1, TurnEvents
        <5>3. QED
          BY <2>2, <5>2
      <4>2. QED
        BY <4>1
    <3>3. record - Len(write_q) = 1
      BY <3>2 DEF Whole, Numbered
    <3>4. QED
      BY <1>5, <1>10, <3>1, <3>3
  <2>3. QED
    BY <1>1, <1>2, <2>1, <2>2 DEF Whole, Numbered
<1>15. QED
  BY <1>1, <1>2, <1>6, <1>7, <1>11, <1>13, <1>14 DEF Whole

\* A scan finds the newest event, and from there a cursor.
LEMMA ScanFinds ==
    ASSUME NEW disk, Cells(disk), NEW cursor \in Nat, NEW l \in Offsets,
           Ring(disk, cursor), Newest(disk, cursor, l, Rec(disk, l))
    PROVE  LET scan == Scan(disk, Unscanned)
           IN  /\ scan.record \in Nat \ {0}
               /\ scan.last \in Offsets
               /\ scan.cursor \in 0..(Size - HeaderSize)
               /\ Ring(disk, scan.cursor)
               /\ Newest(disk, scan.cursor, scan.last, scan.record - 1)
               /\ Events(disk) = {} => scan.record = 1
               /\ Events(disk) # {} =>
                     /\ scan.last = l
                     /\ scan.record = Rec(disk, l) + 1
                     /\ scan.cursor = IF Follower(disk, l) = Size THEN 0
                                      ELSE Follower(disk, l)
<1> DEFINE met == Scanned(disk)
           recs == {-1} \cup {HeaderAt(disk, o).record : o \in met}
           top == CHOOSE x \in recs : \A y \in recs : x >= y
           tops == {o \in met : HeaderAt(disk, o).record = top}
           last == CHOOSE x \in tops : \A y \in tops : x <= y
           past == Follower(disk, last)
           found == IF past = Size THEN 0 ELSE past
           newest == IF Events(disk) = {} THEN 0 ELSE Rec(disk, l)
<1>1. Sane(disk) /\ Size \in Chain(disk, 0) /\ Chain(disk, 0) \subseteq Places
  BY CellsSane, RingNumbers, ChainBounds DEF Ring, ScanReachesEnd
<1>2. 0 \in met
  <2>1. 0 \in Chain(disk, 0) /\ 0 # Size
    BY <1>1, RingNumbers, ChainBounds, EventRingAssumption
  <2>2. QED
    BY <1>1, <2>1, ScanPasses
<1>3. ASSUME NEW o \in met
      PROVE  /\ o \in Chain(disk, 0) /\ o \in Offsets /\ o \in Nat /\ o # Size
             /\ HeaderAt(disk, o).record \in Nat
             /\ o \in Events(disk) \/ HeaderAt(disk, o).record = 0
  <2>1. o \in Chain(disk, 0) /\ IsHeader(disk, o)
    BY DEF Scanned
  <2>2. HeaderOK(HeaderAt(disk, o))
    BY <2>1, HeaderKind
  <2>3. o \in Offsets /\ o \in Nat /\ o # Size
    BY <2>1, RingNumbers DEF IsHeader, Offsets
  <2>4. QED
    BY <2>1, <2>2, <2>3 DEF HeaderOK, HeaderSet, Events
<1>4. /\ Events(disk) # {} =>
            /\ l \in Events(disk) /\ l \in met /\ l \in Nat
            /\ Rec(disk, l) \in Nat /\ Rec(disk, l) > 0
            /\ \A o \in Events(disk) : Rec(disk, o) <= Rec(disk, l)
            /\ Follower(disk, l) \notin Events(disk)
            /\ cursor = 0 \/ Follower(disk, l) = cursor
  <2>1. ASSUME Events(disk) # {}
        PROVE  /\ l \in Events(disk)
               /\ \A o \in Events(disk) : Rec(disk, o) <= Rec(disk, l)
               /\ Follower(disk, l) \notin Events(disk)
               /\ cursor = 0 \/ Follower(disk, l) = cursor
    BY <2>1 DEF Newest
  <2>2. QED
    BY <2>1, EventKind DEF Events
<1>5. newest \in Nat /\ newest \in recs
  <2>1. CASE Events(disk) = {}
    BY <1>2, <1>3, <2>1
  <2>2. CASE Events(disk) # {}
    BY <1>4, <2>2 DEF Rec
  <2>3. QED
    BY <2>1, <2>2
<1>6. ASSUME NEW y \in recs PROVE newest >= y
  <2>1. CASE y = -1
    BY <1>5, <2>1
  <2>2. CASE y # -1
    <3>1. PICK o \in met : y = HeaderAt(disk, o).record
      BY <2>2
    <3>2. CASE y = 0
      BY <1>5, <3>2
    <3>3. CASE y # 0
      <4>1. o \in Events(disk) /\ y = Rec(disk, o) /\ y \in Nat
        BY <1>3, <3>1, <3>3 DEF Rec
      <4>2. newest = Rec(disk, l) /\ y <= Rec(disk, l)
        BY <1>4, <4>1
      <4>3. QED
        BY <1>5, <4>1, <4>2
    <3>4. QED
      BY <3>2, <3>3
  <2>3. QED
    BY <2>1, <2>2
<1>7. top = newest
  <2>1. \E x \in recs : \A y \in recs : x >= y
    BY <1>5, <1>6
  <2>2. top \in recs /\ \A y \in recs : top >= y
    BY <2>1, Zenon
  <2>3. ASSUME NEW y \in recs PROVE y \in Int
    BY <1>3
  <2> HIDE DEF top, recs, newest
  <2>4. QED
    BY <1>5, <1>6, <2>2, <2>3
<1>8. \E o \in met : HeaderAt(disk, o).record = newest
  <2>1. newest # -1
    BY <1>5
  <2>2. QED
    BY <1>5, <2>1
<1>9. last \in met /\ HeaderAt(disk, last).record = newest
  <2>1. tops # {}
    BY <1>7, <1>8, Zenon
  <2>2. tops \in SUBSET Nat
    BY <1>3
  <2>3. \E x \in tops : \A y \in tops : x <= y
    BY <2>1, <2>2, LeastExists
  <2>4. last \in tops
    BY <2>3, Zenon
  <2>5. QED
    BY <1>7, <2>4, Zenon
<1>10. Scan(disk, Unscanned).record = newest + 1
       /\ Scan(disk, Unscanned).last = last
       /\ Scan(disk, Unscanned).cursor = found
  <2>1. met # {} /\ top >= -1
    <3>1. top \in Nat
      BY ONLY <1>5, <1>7
    <3>2. top >= -1
      BY ONLY <3>1
    <3>3. QED
      BY <1>2, <3>2
  <2>2. /\ Scan(disk, Unscanned).record = top + 1
        /\ Scan(disk, Unscanned).last = last
        /\ Scan(disk, Unscanned).cursor = found
    BY <2>1 DEF Scan, Unscanned, Most, Least, Follower
  <2>3. QED
    BY <1>7, <2>2, Zenon

<1> HIDE DEF last, top, newest
<1>11. last \in Offsets /\ last \in Nat /\ past \in Chain(disk, 0)
       /\ last < past /\ past \in Nat
  <2>1. last \in Chain(disk, 0) /\ last # Size /\ last \in Offsets /\ last \in Nat
    BY <1>3, <1>9
  <2>2. IsHeader(disk, last) /\ last \in Places
    BY <1>9, <2>1, RingNumbers DEF Scanned
  <2>3. QED
    BY <1>1, <2>1, <2>2, ScanPasses, FollowerBehind
<1>12. found \in met /\ found \in 0..(Size - HeaderSize)
  <2>1. found \in Chain(disk, 0) /\ found # Size
    BY <1>2, <1>3, <1>11
  <2>2. QED
    BY <1>1, <2>1, ScanPasses
<1>13. /\ Rising(disk, cursor) /\ Unbroken(disk) /\ Backward(disk)
       /\ ScanReachesEnd(disk)
  BY DEF Ring
<1>14. CASE Events(disk) = {}
  <2>1. newest = 0
    BY <1>14 DEF newest
  <2>2. Rising(disk, found) /\ Newest(disk, found, last, newest)
    BY <1>14 DEF Rising, Newest
  <2>3. (newest + 1) - 1 = newest /\ newest + 1 = 1 /\ newest + 1 \in Nat \ {0}
    BY <2>1
  <2>4. QED
    BY <1>10, <1>11, <1>12, <1>13, <1>14, <2>2, <2>3 DEF Ring
<1>15. CASE Events(disk) # {}
  <2>1. newest = Rec(disk, l) /\ newest \in Nat
    BY <1>5, <1>15 DEF newest
  <2>2. last = l
    <3>1. Rec(disk, last) = Rec(disk, l) /\ Rec(disk, l) > 0
      BY <1>4, <1>9, <1>15, <2>1 DEF Rec
    <3>2. last \in Events(disk)
      BY <1>3, <1>9, <3>1, <1>4, <1>15 DEF Rec
    <3>3. QED
      BY <1>4, <1>13, <1>15, <3>1, <3>2, OrderWhole
  <2>3. Rising(disk, found)
    <3>1. CASE found = cursor
      BY <1>13, <3>1
    <3>2. CASE found # cursor
      <4>1. cursor = 0 /\ found = past
        BY <1>3, <1>4, <1>12, <1>15, <2>2, <3>2 DEF Ring
      <4>2. ASSUME NEW o \in Events(disk) PROVE o \in Nat /\ o <= last
        <5>1. o \in Nat /\ Rec(disk, o) \in Nat /\ Rec(disk, l) \in Nat
          BY <1>4, EventKind
        <5>2. Rec(disk, o) <= Rec(disk, l)
          BY <1>4
        <5>3. ~Precedes(cursor, l, o)
          BY <1>4, <1>13, <5>1, <5>2 DEF Rising
        <5>4. QED
          BY <1>11, <2>2, <4>1, <5>1, <5>3 DEF Precedes
      <4>3. ASSUME NEW o \in Events(disk), NEW p \in Events(disk),
                   Precedes(past, o, p)
            PROVE  Precedes(0, o, p)
        <5>1. o \in Nat /\ p \in Nat /\ o < past /\ p < past
          BY <1>11, <4>2
        <5>2. QED
          BY <1>11, <4>3, <5>1 DEF Precedes
      <4>4. QED
        BY <1>13, <4>1, <4>3 DEF Rising
    <3>3. QED
      BY <3>1, <3>2
  <2>4. Newest(disk, found, last, newest)
    BY <1>4, <1>15, <2>1, <2>2 DEF Newest
  <2>5. (newest + 1) - 1 = newest /\ newest + 1 \in Nat \ {0}
    BY <2>1
  <2>6. /\ Scan(disk, Unscanned).last = l
        /\ Scan(disk, Unscanned).record = Rec(disk, l) + 1
        /\ Scan(disk, Unscanned).cursor = IF Follower(disk, l) = Size THEN 0
                                          ELSE Follower(disk, l)
    BY <1>10, <2>1, <2>2
  <2>7. QED
    BY <1>10, <1>11, <1>12, <1>13, <1>15, <2>2, <2>3, <2>4, <2>5, <2>6 DEF Ring
<1>16. QED
  BY <1>14, <1>15

LEMMA NewVolumeWhole ==
    Cells(NewVolume) /\ Ring(NewVolume, 0) /\ Events(NewVolume) = {}
<1>0. PICK pad : pad = Header("pad", 0, Size, 0)
  OBVIOUS
<1>1. PICK disk : disk = NewVolume
  OBVIOUS
<1>2. /\ HeaderSize \in Nat /\ HeaderSize > 0 /\ Size \in Nat
      /\ 2 * HeaderSize <= Size /\ 0 \in Offsets
  BY EventRingAssumption DEF Offsets
<1>3. ASSUME NEW x \in Offsets
      PROVE  /\ x < HeaderSize => disk[x] = <<pad, x>>
             /\ ~(x < HeaderSize) => disk[x] = Blank
  BY <1>0, <1>1, Zenon DEF NewVolume
<1>4. HeaderOK(pad)
  BY <1>0, <1>2 DEF HeaderOK, HeaderSet, Header, EventTypes
<1>5. ASSUME NEW x \in Offsets PROVE CellOK(disk[x], x)
  <2>1. CASE x < HeaderSize
    <3>0. disk[x] = <<pad, x>>
      BY <1>3, <2>1, Zenon
    <3>1. x \in 0..(HeaderSize - 1)
      BY <1>2, <2>1 DEF Offsets
    <3>2. x <= x /\ (x - x) + pad.length <= Size
      BY <1>0, <1>2 DEF Offsets, Header
    <3>3. pad \in HeaderSet
      BY <1>4 DEF HeaderOK
    <3>4. QED
      BY <1>4, <3>0, <3>1, <3>2, <3>3 DEF CellOK
  <2>2. CASE ~(x < HeaderSize)
    BY <1>3, <2>2 DEF CellOK
  <2>3. QED
    BY <2>1, <2>2
<1>6. HeaderAt(disk, 0) = pad
  <2>0. 0 < HeaderSize /\ 0 + HeaderSize <= Size
    BY <1>2
  <2>1. disk[0] = <<pad, 0>>
    BY <1>2, <1>3, <2>0, Zenon
  <2>2. ASSUME NEW i \in 0..(HeaderSize - 1)
        PROVE  disk[0 + i] = <<disk[0][1], i>>
    <3>1. 0 + i \in Offsets /\ 0 + i = i /\ i < HeaderSize
      BY <1>2 DEF Offsets
    <3>2. disk[0 + i] = <<pad, 0 + i>>
      BY <1>3, <3>1, Zenon
    <3>3. disk[0][1] = pad
      BY <2>1
    <3>4. QED
      BY <3>1, <3>2, <3>3
  <2>3. disk[0][1] = pad
    BY <2>1
  <2>4. QED
    BY <2>0, <2>2, <2>3 DEF HeaderAt
<1>7. Cells(disk) /\ Sane(disk)
  BY <1>5, CellsSane DEF Cells
<1>8. IsHeader(disk, 0) /\ Follower(disk, 0) = Size
  <2>1. pad # NoHeader /\ 0 + pad.length = Size
    BY <1>0, <1>2 DEF Header, NoHeader
  <2>2. QED
    BY <1>2, <1>6, <2>1 DEF IsHeader, Follower
<1>9. Chain(disk, 0) = {0, Size}
  <2>1. ~IsHeader(disk, Size)
    BY <1>2 DEF IsHeader, Offsets
  <2>2. Chain(disk, Size) = {Size}
    BY <1>7, <2>1, RingNumbers, ChainUnfolds
  <2>3. Chain(disk, 0) = {0} \cup Chain(disk, Size)
    BY <1>7, <1>8, RingNumbers, ChainUnfolds
  <2>4. QED
    BY <2>2, <2>3
<1>10. Scanned(disk) = {0}
  BY <1>2, <1>8, <1>9 DEF Scanned, IsHeader, Offsets
<1>11. Events(disk) = {}
  <2>1. HeaderAt(disk, 0).type \notin EventTypes
    BY <1>0, <1>6 DEF Header, EventTypes
  <2>2. QED
    BY <1>10, <2>1 DEF Events
<1>12. QED
  BY <1>1, <1>7, <1>9, <1>10, <1>11
     DEF Ring, ScanReachesEnd, Rising, Unbroken, Backward

LEMMA RingInvInit == Init => RingInv
<1>1. ASSUME Init PROVE RingInv
  <2>1. /\ Cells(erb) /\ Ring(erb, 0) /\ Events(erb) = {}
        /\ pc = "down" /\ write_q = <<>> /\ ~Up
    BY <1>1, NewVolumeWhole DEF Init, Up
  <2>2. 0 \in Nat /\ 0 \in Offsets
    BY EventRingAssumption DEF Offsets
  <2>3. Newest(erb, 0, 0, Rec(erb, 0))
    BY <2>1 DEF Newest
  <2>4. QED
    BY <2>1, <2>2, <2>3 DEF RingInv
<1>2. QED
  BY <1>1

\* A number is taken for the event that is accepted.
LEMMA QueueGrows ==
    ASSUME Whole, QueueWriteEvent
    PROVE  Whole'
<1>1. PICK type \in EventTypes,
           length \in HeaderSize..(Size - HeaderSize) :
         write_q' = Append(write_q, [type |-> type, record |-> record,
                                     length |-> length])
  <2>1. /\ SampleLengths \subseteq HeaderSize..(Size - HeaderSize)
        /\ DumpLengths \subseteq HeaderSize..(Size - HeaderSize)
    BY EventRingAssumption
  <2>2. QED
    BY <2>1 DEF QueueWriteEvent
<1>2. record' = record + 1 /\ UNCHANGED <<erb, lastrecord, recordcursor>>
  BY DEF QueueWriteEvent
<1>3. PICK event : event = [type |-> type, record |-> record, length |-> length]
  OBVIOUS
<1>4. /\ write_q \in Seq(Queued) /\ record \in Nat \ {0} /\ Len(write_q) \in Nat
  BY DEF Whole, QueueOK, Numbered
<1>5. event \in Queued
  BY <1>3, <1>4 DEF Queued
<1>6. /\ write_q' \in Seq(Queued) /\ Len(write_q') = Len(write_q) + 1
      /\ \A i \in 1..Len(write_q) : write_q'[i] = write_q[i]
      /\ write_q'[Len(write_q) + 1] = event
  BY <1>1, <1>3, <1>4, <1>5
<1>7. Top' = Top
  <2>1. ((record + 1) - 1) - (Len(write_q) + 1) = (record - 1) - Len(write_q)
    BY <1>4
  <2>2. QED
    BY ONLY <1>2, <1>6, <2>1 DEF Top
<1>8. ASSUME NEW i \in 1..Len(write_q') PROVE write_q'[i].record = Top' + i
  <2>1. CASE i \in 1..Len(write_q)
    BY <1>6, <1>7, <2>1 DEF Whole, Numbered
  <2>2. CASE i = Len(write_q) + 1
    <3>1. write_q'[i].record = record
      BY <1>3, <1>6, <2>2
    <3>2. ((record - 1) - Len(write_q)) + (Len(write_q) + 1) = record
      BY <1>4
    <3>3. Top + i = record
      BY ONLY <2>2, <3>2 DEF Top
    <3>4. QED
      BY <1>7, <3>1, <3>3
  <2>3. QED
    BY <1>4, <1>6, <2>1, <2>2
<1>9. Numbered'
  <2>1. record' \in Nat \ {0}
    BY <1>2, <1>4
  <2>2. record' - Len(write_q') = record - Len(write_q)
    BY <1>2, <1>4, <1>6
  <2>3. Events(erb') = {} => record - Len(write_q) = 1
    BY <1>2 DEF Whole, Numbered
  <2>4. QED
    BY <1>8, <2>1, <2>2, <2>3 DEF Numbered
<1>10. QueueOK'
  BY <1>2, <1>6 DEF Whole, QueueOK, Queued
<1>11. QED
  BY <1>2, <1>7, <1>9, <1>10 DEF Whole

\* The thread that opens a whole log knows it.
LEMMA OpensWhole ==
    ASSUME NEW cursor \in Nat, NEW last \in Offsets,
           Cells(erb), Ring(erb, cursor), Newest(erb, cursor, last, Rec(erb, last)),
           StartUp
    PROVE  Whole'
<1>1. PICK s : s = Scan(erb, Unscanned)
  OBVIOUS
<1>2. /\ s.record \in Nat \ {0} /\ s.last \in Offsets
      /\ s.cursor \in 0..(Size - HeaderSize)
      /\ Ring(erb, s.cursor)
      /\ Newest(erb, s.cursor, s.last, s.record - 1)
      /\ Events(erb) = {} => s.record = 1
  BY <1>1, ScanFinds
<1>3. /\ record' = s.record + 1 /\ lastrecord' = s.last
      /\ recordcursor' = s.cursor /\ erb' = erb
      /\ write_q' = <<[type |-> "dump", record |-> s.record,
                       length |-> HeaderSize]>>
  BY <1>1 DEF StartUp, Open
<1>4. Len(write_q') = 1 /\ write_q'[1].record = s.record /\ write_q' \in Seq(Queued)
  <2>1. HeaderSize \in HeaderSize..(Size - HeaderSize)
    BY EventRingAssumption
  <2>2. [type |-> "dump", record |-> s.record, length |-> HeaderSize] \in Queued
    BY <1>2, <2>1 DEF Queued, EventTypes
  <2>3. QED
    BY <1>3, <2>2
<1>5. Top' = s.record - 1
  <2>1. ((s.record + 1) - 1) - 1 = s.record - 1
    BY <1>2
  <2>2. QED
    BY ONLY <1>3, <1>4, <2>1 DEF Top
<1>6. Numbered'
  <2>1. ASSUME NEW i \in 1..Len(write_q') PROVE write_q'[i].record = Top' + i
    <3>1. i = 1
      BY <1>4
    <3>2. (s.record - 1) + 1 = s.record
      BY <1>2
    <3>3. QED
      BY <1>4, <1>5, <3>1, <3>2
  <2>2. Events(erb') = {} => record' - Len(write_q') = 1
    BY <1>2, <1>3, <1>4
  <2>3. record' \in Nat \ {0}
    BY <1>2, <1>3
  <2>4. QED
    BY <2>1, <2>2, <2>3 DEF Numbered
<1>7. QueueOK'
  BY <1>2, <1>3, <1>4 DEF QueueOK, Queued
<1>8. QED
  BY <1>2, <1>3, <1>5, <1>6, <1>7 DEF Whole

\* A write does not raise, and a whole ring is not made anew.
LEMMA WholeWrites ==
    ASSUME Whole
    PROVE  ~WriteRaises
<1>1. RingOK
  BY WholeRing
<1>2. PICK stop : stop = EndOfPad(Fitting(write_q),
                                  Placed(write_q)[Fitting(write_q) + 1])
  OBVIOUS
<1>3. stop \in Nat /\ stop <= Size /\ Size \in Nat
  BY <1>1, <1>2, PadStops, EventRingAssumption DEF Stops
<1>4. ~(stop > Size)
  BY <1>3
<1>5. QED
  BY <1>2, <1>4 DEF WriteRaises

LEMMA WholeScans ==
    ASSUME Cells(erb), NEW cursor, Ring(erb, cursor)
    PROVE  ~ScanMayRaise(erb)
<1>1. SUFFICES ASSUME NEW o \in Offsets \cap Chain(erb, 0), ~IsHeader(erb, o)
               PROVE  FALSE
  BY DEF ScanMayRaise
<1>2. o # Size
  BY EventRingAssumption DEF Offsets
<1>3. o \in Scanned(erb)
  BY <1>2, ScanPasses DEF Ring, ScanReachesEnd
<1>4. QED
  BY <1>1, <1>3 DEF Scanned

LEMMA RingInvNext == RingInv /\ [Next]_vars => RingInv'
<1> SUFFICES ASSUME RingInv, [Next]_vars, ~torn' PROVE RingInv'
  BY DEF RingInv
<1>1. ~torn
  BY DEF Next, vars, QueueWriteEvent, EmptyWriteQ, WriteRaises, Ends, EndsTorn,
         StartUp, StartUpAnew
<1>2. /\ Cells(erb)
      /\ pc = "down" \/ Up
      /\ Up => Whole
      /\ pc = "down" =>
           /\ write_q = <<>>
           /\ \E cursor \in Nat, last \in Offsets :
                 /\ Ring(erb, cursor)
                 /\ Newest(erb, cursor, last, Rec(erb, last))
  BY <1>1 DEF RingInv
<1>3. CASE QueueWriteEvent
  <2>1. Up /\ Up' /\ pc' # "down" /\ erb' = erb
    BY <1>3 DEF QueueWriteEvent, Up
  <2>2. Whole'
    BY <1>2, <1>3, <2>1, QueueGrows
  <2>3. QED
    BY <1>2, <2>1, <2>2 DEF RingInv
<1>4. CASE EmptyWriteQ
  <2>1. Up /\ Up' /\ pc' # "down"
    BY <1>4 DEF EmptyWriteQ, Advance, Writing, Up
  <2>2. Whole'
    BY <1>2, <1>4, <2>1, QueueTurns
  <2>3. QED
    BY <2>1, <2>2 DEF RingInv, Whole
<1>5. CASE WriteRaises
  <2>1. Up
    BY <1>5 DEF WriteRaises, Writing
  <2>2. QED
    BY <1>2, <1>5, <2>1, WholeWrites
<1>6. CASE Ends
  <2>1. Whole
    BY <1>2, <1>6 DEF Ends
  <2>2. recordcursor \in Nat /\ lastrecord \in Offsets
    BY <2>1, WholeRing, EventRingAssumption DEF Whole, QueueOK
  <2>3. Ring(erb, recordcursor)
        /\ Newest(erb, recordcursor, lastrecord, Rec(erb, lastrecord))
    BY <2>1 DEF Whole, Newest
  <2>4. erb' = erb /\ pc' = "down" /\ write_q' = <<>> /\ ~Up'
    BY <1>6 DEF Ends, Forget, Up
  <2>5. QED
    BY <1>2, <2>2, <2>3, <2>4 DEF RingInv
<1>7. CASE EndsTorn
  BY <1>7 DEF EndsTorn
<1>8. CASE StartUp
  <2>1. pc = "down" /\ erb' = erb /\ pc' = "starting"
    BY <1>8 DEF StartUp, Open
  <2>2. PICK cursor \in Nat, last \in Offsets :
           /\ Ring(erb, cursor)
           /\ Newest(erb, cursor, last, Rec(erb, last))
    BY <1>2, <2>1
  <2>3. Whole'
    BY <1>2, <1>8, <2>2, OpensWhole
  <2>4. QED
    BY <1>2, <2>1, <2>3 DEF RingInv, Up
<1>9. CASE StartUpAnew
  <2>1. pc = "down" /\ ScanMayRaise(erb)
    BY <1>9 DEF StartUpAnew
  <2>2. QED
    BY <1>2, <2>1, WholeScans
<1>10. CASE UNCHANGED vars
  BY <1>2, <1>10 DEF vars, RingInv, Up, Whole, QueueOK, Numbered, Top
<1>11. QED
  BY <1>3, <1>4, <1>5, <1>6, <1>7, <1>8, <1>9, <1>10 DEF Next

LEMMA RingInvariant == Spec => []RingInv
  BY RingInvInit, RingInvNext, PTL DEF Spec

-----------------------------------------------------------------------------
(* The ring.                                                               *)

\* In a ring whose records go up without a gap, the event just before another
\* is the one it leads back to.
LEMMA RingLinked ==
    ASSUME NEW disk, Cells(disk), NEW cursor \in Nat, Ring(disk, cursor)
    PROVE  Linked(disk, cursor)
<1>1. SUFFICES ASSUME NEW o \in Events(disk), NEW p \in Events(disk),
                      JustBefore(disk, cursor, o, p)
               PROVE  HeaderAt(disk, p).previous = o
  BY DEF Linked
<1>2. /\ Rising(disk, cursor) /\ Unbroken(disk) /\ Backward(disk)
  BY DEF Ring
<1>3. Rec(disk, o) < Rec(disk, p)
  BY <1>1, <1>2 DEF JustBefore, Rising
<1>4. Rec(disk, o) \in Nat /\ Rec(disk, p) \in Nat
  BY EventKind
<1>5. ASSUME Rec(disk, p) # Rec(disk, o) + 1 PROVE FALSE
  <2>1. /\ Rec(disk, o) + 1 \in Nat /\ Rec(disk, o) <= Rec(disk, o) + 1
        /\ Rec(disk, o) + 1 < Rec(disk, p) /\ Rec(disk, o) + 1 <= Rec(disk, p)
        /\ Rec(disk, o) < Rec(disk, o) + 1
    BY <1>3, <1>4, <1>5
  <2>2. PICK q \in Events(disk) : Rec(disk, q) = Rec(disk, o) + 1
    BY <1>2, <2>1 DEF Unbroken
  <2>3. Precedes(cursor, o, q) /\ Precedes(cursor, q, p)
    BY <1>2, <2>1, <2>2, OrderWhole
  <2>4. QED
    BY <1>1, <2>3 DEF JustBefore
<1>6. QED
  BY <1>2, <1>5 DEF Backward

\* The headers of the ring lead from its start to its end by way of the
\* cursor, every event but the oldest leads back to the one before it, and
\* no write finds itself without a header to end its pad at: for a ring of
\* any size and events of any lengths, however often it wraps and the process
\* ends, unless it ends within a write.
THEOREM ChainStaysIntact == Spec => []ChainIntact
<1>1. RingInv => ChainIntact
  <2> SUFFICES ASSUME RingInv, ~torn
               PROVE  /\ ScanReachesEnd(erb)
                      /\ pc # "dead"
                      /\ Up => /\ recordcursor \in Scanned(erb)
                               /\ Linked(erb, recordcursor)
    BY DEF ChainIntact
  <2>1. CASE Up
    <3>1. /\ Whole /\ Cells(erb) /\ Ring(erb, recordcursor)
      BY <2>1 DEF RingInv, Whole
    <3>2. recordcursor \in Nat
      BY <3>1, EventRingAssumption DEF Whole, QueueOK
    <3>3. QED
      BY <2>1, <3>1, <3>2, RingLinked DEF Ring, Up
  <2>2. CASE pc = "down"
    BY <2>2 DEF RingInv, Ring, Up
  <2>3. QED
    BY <2>1, <2>2 DEF RingInv
<1>2. QED
  BY <1>1, RingInvariant, PTL

-----------------------------------------------------------------------------
(* The ring implements the journal.                                        *)

Entry(disk, o) == [type |-> HeaderAt(disk, o).type, record |-> Rec(disk, o)]

KeptIn(disk) == {Entry(disk, o) : o \in Events(disk)}

Awaiting(q) ==
    [i \in 1..Len(q) |-> [type |-> q[i].type, record |-> q[i].record]]

LEMMA KeptEvents == Kept = KeptIn(erb) /\ Kept' = KeptIn(erb')
<1>1. Kept = KeptIn(erb)
  BY DEF Kept, KeptIn, Entry, Events, Rec
<1>2. Kept' = KeptIn(erb')
  BY DEF Kept, KeptIn, Entry, Events, Rec
<1>3. QED
  BY <1>1, <1>2

\* The record numbers that are taken.
LEMMA NumbersTaken ==
    ASSUME NEW top \in Nat, Cells(erb), write_q \in Seq(Queued),
           \A o \in Events(erb) : Rec(erb, o) <= top,
           top = 0 \/ \E o \in Events(erb) : Rec(erb, o) = top,
           \A i \in 1..Len(write_q) : write_q[i].record = top + i
    PROVE  /\ \A r \in J!Records : r < (top + Len(write_q)) + 1
           /\ top + Len(write_q) \in J!Records \cup {0}
<1> DEFINE wait == Awaiting(write_q)
<1>1. Len(write_q) \in Nat
  OBVIOUS
<1>2. /\ Len(wait) = Len(write_q)
      /\ \A i \in 1..Len(write_q) : wait[i].record = top + i
  BY <1>1 DEF Awaiting
<1>3. J!Records = {e.record : e \in KeptIn(erb)
                                  \cup {wait[i] : i \in 1..Len(wait)}}
  BY KeptEvents DEF J!Records, J!First, Awaiting
<1> HIDE DEF wait
<1>4. ASSUME NEW r \in J!Records PROVE r < (top + Len(write_q)) + 1
  <2>1. PICK e \in KeptIn(erb) \cup {wait[i] : i \in 1..Len(wait)} : r = e.record
    BY <1>3
  <2>2. CASE e \in KeptIn(erb)
    <3>1. PICK o \in Events(erb) : r = Rec(erb, o)
      BY <2>1, <2>2 DEF KeptIn, Entry
    <3>2. r \in Nat /\ r <= top
      BY <3>1, EventKind
    <3>3. QED
      BY <1>1, <3>2
  <2>3. CASE e \notin KeptIn(erb)
    <3>1. PICK i \in 1..Len(write_q) : e = wait[i]
      BY <1>2, <2>1, <2>3
    <3>2. r = top + i
      BY <1>2, <2>1, <3>1
    <3>3. QED
      BY <1>1, <3>2
  <2>4. QED
    BY <2>2, <2>3
<1>5. top + Len(write_q) \in J!Records \cup {0}
  <2>1. CASE Len(write_q) = 0
    <3>1. CASE top = 0
      BY <2>1, <3>1
    <3>2. CASE top # 0
      <4>1. PICK o \in Events(erb) : Rec(erb, o) = top
        BY <3>2
      <4>2. Entry(erb, o) \in KeptIn(erb) /\ Entry(erb, o).record = top
        BY <4>1 DEF KeptIn, Entry
      <4>3. top \in J!Records
        BY <1>3, <4>2
      <4>4. QED
        BY <2>1, <4>3
    <3>3. QED
      BY <3>1, <3>2
  <2>2. CASE Len(write_q) # 0
    <3>1. Len(write_q) \in 1..Len(write_q)
      BY <1>1, <2>2
    <3>2. wait[Len(write_q)].record = top + Len(write_q)
      BY <1>2, <3>1
    <3>3. QED
      BY <1>2, <1>3, <3>1, <3>2
  <2>3. QED
    BY <2>1, <2>2
<1>6. QED
  BY <1>4, <1>5

\* An event put into the queue of a whole ring is accepted by the journal.
LEMMA Accepts ==
    ASSUME NEW top \in Nat, NEW type \in EventTypes, NEW length,
           Cells(erb), write_q \in Seq(Queued),
           \A o \in Events(erb) : Rec(erb, o) <= top,
           top = 0 \/ \E o \in Events(erb) : Rec(erb, o) = top,
           \A i \in 1..Len(write_q) : write_q[i].record = top + i,
           erb' = erb,
           write_q' = Append(write_q,
                        [type |-> type, record |-> (top + Len(write_q)) + 1,
                         length |-> length])
    PROVE  J!Accept
<1>1. PICK number : number = (top + Len(write_q)) + 1
  OBVIOUS
<1>2. /\ \A r \in J!Records : r < number
      /\ top + Len(write_q) \in J!Records \cup {0}
  BY <1>1, NumbersTaken
<1>3. number \in {r + 1 : r \in J!Records \cup {0}}
  BY <1>1, <1>2
<1>4. Len(write_q) \in Nat
  OBVIOUS
<1>5. Awaiting(write_q') =
         Append(Awaiting(write_q), [type |-> type, record |-> number])
  <2>1. /\ Len(write_q') = Len(write_q) + 1
        /\ \A i \in 1..Len(write_q) : write_q'[i] = write_q[i]
        /\ write_q'[Len(write_q) + 1].type = type
        /\ write_q'[Len(write_q) + 1].record = number
    BY <1>1, <1>4
  <2>2. Len(Awaiting(write_q)) = Len(write_q)
    BY <1>4 DEF Awaiting
  <2>3. QED
    BY <1>4, <2>1, <2>2 DEF Awaiting
<1>6. Kept' = Kept
  BY KeptEvents
<1>7. QED
  BY <1>2, <1>3, <1>5, <1>6 DEF J!Accept, Awaiting

\* A write stores the events that fit, at the cost of the oldest.
LEMMA Stores ==
    ASSUME Whole, EmptyWriteQ
    PROVE  J!Store
<1> DEFINE cursor(n) == IF Wraps(n) THEN 0 ELSE Placed(write_q)[n + 1]
<1>1. PICK n : n = Fitting(write_q)
  OBVIOUS
<1>2. PICK stop : stop = EndOfPad(n, Placed(write_q)[n + 1])
  OBVIOUS
<1>3. PICK disk : disk = erb'
  OBVIOUS
<1>4. write_q' = SubSeq(write_q, n + 1, Len(write_q)) /\ Wrote(disk, n, stop)
  BY <1>1, <1>2, <1>3 DEF EmptyWriteQ, Advance, Writing, Wrote
<1>5. Turned(n, stop, disk, cursor(n))
  BY <1>1, <1>2, <1>4 DEF Turned, EmptyWriteQ, Writing
<1>6. /\ n \in Nat /\ n \in 0..Len(write_q) /\ Len(write_q) \in Nat
      /\ Len(write_q) > 0 /\ stop \in Nat /\ recordcursor \in Nat
      /\ recordcursor <= stop
  BY <1>5, TurnPlaces
<1>7. /\ Cells(erb) /\ write_q \in Seq(Queued) /\ Top \in Nat
      /\ Rising(erb, recordcursor)
      /\ \A o \in Events(erb) : Rec(erb, o) <= Top
      /\ \A i \in 1..Len(write_q) : write_q[i].record = Top + i
  BY WholeRing DEF Whole, QueueOK, Ring, Newest, Numbered
<1> DEFINE K == Survivors(stop)
           at == Placed(write_q)
           wait == Awaiting(write_q)
<1>8. Events(disk) = K \cup {at[i] : i \in 1..n}
  BY <1>5, TurnEvents
<1>9. ASSUME NEW o \in K
      PROVE  /\ o \in Events(erb) /\ Rec(erb, o) \in Nat
             /\ Entry(disk, o) = Entry(erb, o)
             /\ Entry(erb, o).record = Rec(erb, o)
  BY <1>5, TurnEvents DEF Entry
<1>10. ASSUME NEW i \in 1..n
       PROVE  /\ Entry(disk, at[i]) = wait[i] /\ i \in 1..Len(write_q)
  <2>1. /\ i \in 1..Len(write_q) /\ Rec(disk, at[i]) = Top + i
        /\ HeaderAt(disk, at[i]).type = write_q[i].type
    BY <1>5, TurnEvents
  <2>2. write_q[i].record = Top + i
    BY <1>7, <2>1
  <2>3. QED
    BY <2>1, <2>2 DEF Entry, Awaiting
<1>11. KeptIn(disk) = {Entry(erb, o) : o \in K} \cup {wait[i] : i \in 1..n}
  <2> HIDE DEF K, at, wait
  <2>1. ASSUME NEW e \in KeptIn(disk)
        PROVE  e \in {Entry(erb, o) : o \in K} \cup {wait[i] : i \in 1..n}
    <3>1. PICK o \in Events(disk) : e = Entry(disk, o)
      BY DEF KeptIn
    <3>2. QED
      BY <1>8, <1>9, <1>10, <3>1
  <2>2. ASSUME NEW o \in K PROVE Entry(erb, o) \in KeptIn(disk)
    BY <1>8, <1>9 DEF KeptIn
  <2>3. ASSUME NEW i \in 1..n PROVE wait[i] \in KeptIn(disk)
    BY <1>8, <1>10 DEF KeptIn
  <2>4. QED
    BY <2>1, <2>2, <2>3
<1>12. J!Records = {e.record : e \in KeptIn(erb)
                                   \cup {wait[i] : i \in 1..Len(wait)}}
  BY KeptEvents DEF J!Records, J!First, Awaiting
<1>13. Len(wait) = Len(write_q)
  BY <1>6 DEF Awaiting
<1>14. \E oldest \in J!Records :
          {e \in KeptIn(erb) : e.record >= oldest} = {Entry(erb, o) : o \in K}
  <2>1. CASE K = {}
    <3>1. Top + 1 \in J!Records
      <4>1. 1 \in 1..Len(write_q)
        BY <1>6
      <4>2. wait[1].record = Top + 1
        BY <1>7, <4>1 DEF Awaiting
      <4>3. QED
        BY <1>12, <1>13, <4>1, <4>2
    <3>2. ASSUME NEW e \in KeptIn(erb) PROVE ~(e.record >= Top + 1)
      <4>1. PICK o \in Events(erb) : e.record = Rec(erb, o)
        BY DEF KeptIn, Entry
      <4>2. Rec(erb, o) \in Nat /\ Rec(erb, o) <= Top
        BY <1>7, EventKind
      <4>3. QED
        BY <1>7, <4>1, <4>2
    <3>3. QED
      BY <2>1, <3>1, <3>2
  <2>2. CASE K # {}
    <3> DEFINE R == {Rec(erb, o) : o \in K}
    <3>1. R \in SUBSET Nat /\ R # {}
      BY <1>9, <2>2
    <3>2. PICK oldest \in R : \A r \in R : oldest <= r
      BY <3>1, LeastExists
    <3>3. PICK first \in K : oldest = Rec(erb, first)
      BY <3>2
    <3>4. oldest \in J!Records
      BY <1>9, <1>12, <3>3 DEF KeptIn
    <3>5. ASSUME NEW e \in KeptIn(erb), e.record >= oldest
          PROVE  e \in {Entry(erb, o) : o \in K}
      <4>1. PICK o \in Events(erb) : e = Entry(erb, o) /\ e.record = Rec(erb, o)
        BY DEF KeptIn, Entry
      <4>2. Rec(erb, o) \in Nat /\ Rec(erb, first) \in Nat
        BY <1>7, <1>9, EventKind
      <4>3. Rec(erb, first) <= Rec(erb, o)
        BY <3>3, <3>5, <4>1, <4>2
      <4>4. o \in K
        BY <1>6, <1>7, <4>3, SurvivorsNewer
      <4>5. QED
        BY <4>1, <4>4
    <3>6. ASSUME NEW o \in K
          PROVE  Entry(erb, o) \in KeptIn(erb) /\ Entry(erb, o).record >= oldest
      <4>1. oldest <= Rec(erb, o) /\ oldest \in Nat /\ Rec(erb, o) \in Nat
        BY <1>9, <3>1, <3>2
      <4>2. Entry(erb, o).record = Rec(erb, o) /\ o \in Events(erb)
        BY <1>9
      <4>3. QED
        BY <4>1, <4>2 DEF KeptIn
    <3> HIDE DEF K
    <3>7. QED
      BY <3>4, <3>5, <3>6
  <2>3. QED
    BY <2>1, <2>2
<1>15. ASSUME KeptIn(erb) # {} PROVE KeptIn(disk) # {}
  <2>1. Events(erb) # {}
    BY <1>15 DEF KeptIn
  <2>2. CASE n = 0
    BY <1>5, <1>11, <2>1, <2>2, TurnKeepsNewest
  <2>3. CASE n # 0
    <3>1. 1 \in 1..n
      BY <1>6, <2>3
    <3>2. QED
      BY <1>11, <3>1
  <2>4. QED
    BY <2>2, <2>3
<1>16. Awaiting(write_q') = SubSeq(wait, n + 1, Len(wait))
  <2>1. /\ Len(write_q') = Len(write_q) - n
        /\ \A i \in 1..Len(write_q') : write_q'[i] = write_q[n + i]
    BY <1>4, <1>6, <1>7
  <2>2. QED
    BY <1>6, <1>13, <2>1 DEF Awaiting
<1>17. /\ Kept = KeptIn(erb) /\ Kept' = KeptIn(disk)
       /\ n \in 0..Len(wait)
  BY <1>3, <1>6, <1>13, KeptEvents
<1>18. J!First(n) = {wait[i] : i \in 1..n}
  BY DEF J!First, Awaiting
<1>19. PICK oldest \in J!Records :
          {e \in Kept : e.record >= oldest} = {Entry(erb, o) : o \in K}
  BY <1>14, <1>17
<1>20. /\ Kept' = {e \in Kept : e.record >= oldest} \cup J!First(n)
       /\ Kept # {} => Kept' # {}
  BY <1>11, <1>15, <1>17, <1>18, <1>19
<1>21. QED
  BY <1>16, <1>17, <1>19, <1>20 DEF J!Store, Awaiting

LEMMA JournalStep ==
    ASSUME RingInv, [Next]_vars
    PROVE  [torn' \/ J!Next]_J!vars
<1>1. CASE torn'
  BY <1>1
<1>2. CASE ~torn'
  <2>1. ~torn
    BY <1>2 DEF Next, vars, QueueWriteEvent, EmptyWriteQ, WriteRaises, Ends,
                EndsTorn, StartUp, StartUpAnew
  <2>2. /\ Cells(erb)
        /\ Up => Whole
        /\ pc = "down" =>
             /\ write_q = <<>>
             /\ \E cursor \in Nat, last \in Offsets :
                   /\ Ring(erb, cursor)
                   /\ Newest(erb, cursor, last, Rec(erb, last))
    BY <2>1 DEF RingInv
  <2>3. CASE QueueWriteEvent
    <3>1. Whole
      BY <2>2, <2>3 DEF QueueWriteEvent, Up
    <3>2. PICK type \in EventTypes, length \in SampleLengths \cup DumpLengths :
             write_q' = Append(write_q, [type |-> type, record |-> record,
                                         length |-> length])
      BY <2>3 DEF QueueWriteEvent
    <3>3. record = (Top + Len(write_q)) + 1
      <4>1. record \in Nat /\ Len(write_q) \in Nat
        BY <3>1 DEF Whole, Numbered, QueueOK
      <4>2. record = (((record - 1) - Len(write_q)) + Len(write_q)) + 1
        BY <4>1
      <4>3. QED
        BY ONLY <4>2 DEF Top
    <3>4. Top = 0 \/ \E o \in Events(erb) : Rec(erb, o) = Top
      <4>1. CASE Events(erb) = {}
        <5>1. record - Len(write_q) = 1
          BY <3>1, <4>1 DEF Whole, Numbered
        <5>2. record \in Nat /\ Len(write_q) \in Nat
          BY <3>1 DEF Whole, Numbered, QueueOK
        <5>3. (record - 1) - Len(write_q) = 0
          BY <5>1, <5>2
        <5>4. QED
          BY ONLY <5>3 DEF Top
      <4>2. CASE Events(erb) # {}
        BY <3>1, <4>2 DEF Whole, Newest
      <4>3. QED
        BY <4>1, <4>2
    <3>5. /\ Top \in Nat /\ write_q \in Seq(Queued) /\ Cells(erb)
          /\ \A o \in Events(erb) : Rec(erb, o) <= Top
          /\ \A i \in 1..Len(write_q) : write_q[i].record = Top + i
          /\ erb' = erb
      BY <2>3, <3>1, WholeRing
         DEF Whole, QueueOK, Newest, Numbered, QueueWriteEvent
    <3>6. J!Accept
      BY <3>2, <3>3, <3>4, <3>5, Accepts
    <3>7. QED
      BY <3>6 DEF J!Next
  <2>4. CASE EmptyWriteQ
    <3>1. Whole
      BY <2>2, <2>4 DEF EmptyWriteQ, Writing
    <3>2. QED
      BY <2>4, <3>1, Stores DEF J!Next
  <2>5. CASE WriteRaises
    <3>1. Whole
      BY <2>2, <2>5 DEF WriteRaises, Writing
    <3>2. QED
      BY <2>5, <3>1, WholeWrites
  <2>6. CASE Ends
    <3>1. erb' = erb /\ write_q' = <<>>
      BY <2>6 DEF Ends, Forget
    <3>2. Kept' = Kept
      BY <3>1, KeptEvents
    <3>3. J!Lose
      BY <3>1, <3>2 DEF J!Lose
    <3>4. QED
      BY <3>3 DEF J!Next
  <2>7. CASE EndsTorn
    BY <1>2, <2>7 DEF EndsTorn
  <2>8. CASE StartUp
    <3>1. pc = "down" /\ erb' = erb
      BY <2>8 DEF StartUp
    <3>2. PICK cursor \in Nat, last \in Offsets :
             /\ Ring(erb, cursor)
             /\ Newest(erb, cursor, last, Rec(erb, last))
      BY <2>2, <3>1
    <3>3. PICK s : s = Scan(erb, Unscanned)
      OBVIOUS
    <3>4. /\ s.record \in Nat \ {0}
          /\ Newest(erb, s.cursor, s.last, s.record - 1)
          /\ Events(erb) = {} => s.record = 1
      BY <2>2, <3>2, <3>3, ScanFinds
    <3>5. write_q' = <<[type |-> "dump", record |-> s.record,
                        length |-> HeaderSize]>>
      BY <2>8, <3>3 DEF StartUp, Open
    <3>6. PICK top : top = s.record - 1
      OBVIOUS
    <3>7. write_q = <<>> /\ write_q \in Seq(Queued) /\ Len(write_q) = 0
      BY <2>2, <3>1
    <3>8. top \in Nat /\ (top + Len(write_q)) + 1 = s.record
      BY <3>4, <3>6, <3>7
    <3>9. write_q' = Append(write_q, [type |-> "dump",
                                      record |-> (top + Len(write_q)) + 1,
                                      length |-> HeaderSize])
      BY <3>5, <3>7, <3>8
    <3>10. /\ \A o \in Events(erb) : Rec(erb, o) <= top
           /\ top = 0 \/ \E o \in Events(erb) : Rec(erb, o) = top
      <4>1. CASE Events(erb) = {}
        BY <3>4, <3>6, <4>1
      <4>2. CASE Events(erb) # {}
        BY <3>4, <3>6, <4>2 DEF Newest
      <4>3. QED
        BY <4>1, <4>2
    <3>11. \A i \in 1..Len(write_q) : write_q[i].record = top + i
      BY <3>7
    <3>12. "dump" \in EventTypes
      BY DEF EventTypes
    <3>13. J!Accept
      BY <2>2, <3>1, <3>7, <3>8, <3>9, <3>10, <3>11, <3>12, Accepts
    <3>14. QED
      BY <3>13 DEF J!Next
  <2>9. CASE StartUpAnew
    <3>1. pc = "down" /\ ScanMayRaise(erb)
      BY <2>9 DEF StartUpAnew
    <3>2. QED
      BY <2>2, <3>1, WholeScans
  <2>10. CASE UNCHANGED vars
    <3>1. erb' = erb /\ write_q' = write_q
      BY <2>10 DEF vars
    <3>2. Kept' = Kept
      BY <3>1, KeptEvents
    <3>3. QED
      BY <3>1, <3>2 DEF J!vars
  <2>11. QED
    BY <2>3, <2>4, <2>5, <2>6, <2>7, <2>8, <2>9, <2>10 DEF Next
<1>3. QED
  BY <1>1, <1>2

\* The ring is a journal: events keep consecutive record numbers through
\* restarts, a write costs the oldest of those stored and never the newest,
\* and an event once accepted is lost only with the process's memory, until a
\* write has been cut short.
THEOREM RingImplementsJournal == Spec => JournalSpec
<1>1. Init => J!Init
  <2> SUFFICES ASSUME Init PROVE J!Init
    OBVIOUS
  <2>1. erb = NewVolume /\ write_q = <<>>
    BY DEF Init
  <2>2. Kept = {}
    BY <2>1, KeptEvents, NewVolumeWhole DEF KeptIn
  <2>3. QED
    BY <2>1, <2>2 DEF J!Init
<1>2. RingInv /\ [Next]_vars => [torn' \/ J!Next]_J!vars
  BY JournalStep
<1>3. QED
  BY <1>1, <1>2, RingInvariant, PTL DEF Spec, JournalSpec

-----------------------------------------------------------------------------
(* The index of dumps: sequences of offsets with their records.            *)

Entries == Offsets \X Nat

Sorted(index, cursor) ==
    \A i, j \in 1..Len(index) :
        i < j => Precedes(cursor, index[i][1], index[j][1])

Content(index) == {index[i] : i \in 1..Len(index)}

LEMMA EntryOffset ==
    ASSUME NEW index \in Seq(Entries), NEW i \in 1..Len(index)
    PROVE  index[i] \in Entries /\ index[i][1] \in Nat /\ index[i][1] \in Offsets
<1>1. index[i] \in Entries
  OBVIOUS
<1>2. QED
  BY <1>1 DEF Entries, Offsets

LEMMA PrecedesOnce ==
    ASSUME NEW cursor \in Nat, NEW o \in Nat, NEW p \in Nat,
           Precedes(cursor, o, p)
    PROVE  o # p /\ ~Precedes(cursor, p, o)
  BY DEF Precedes

\* There is one index of given entries.
LEMMA SortedOnce ==
    ASSUME NEW cursor \in Nat,
           NEW s \in Seq(Entries), Sorted(s, cursor),
           NEW t \in Seq(Entries), Sorted(t, cursor), Content(s) = Content(t)
    PROVE  s = t
<1>1. Len(s) \in Nat /\ Len(t) \in Nat
  OBVIOUS
<1>2. ASSUME NEW u \in Seq(Entries), Sorted(u, cursor),
             NEW v \in Seq(Entries), Sorted(v, cursor), Content(u) = Content(v),
             NEW k \in 1..Len(u),
             \A i \in 1..Len(u) : i < k => i <= Len(v) /\ u[i] = v[i]
      PROVE  \E j \in 1..Len(v) : k <= j /\ v[j] = u[k]
  <2>0. Len(u) \in Nat /\ Len(v) \in Nat
    OBVIOUS
  <2>1. u[k] \in Content(v)
    BY <1>2 DEF Content
  <2>2. PICK j \in 1..Len(v) : v[j] = u[k]
    BY <2>1 DEF Content
  <2>3. ASSUME j < k PROVE FALSE
    <3>1. j \in 1..Len(u) /\ u[j] = v[j]
      BY <1>2, <2>0, <2>3
    <3>2. Precedes(cursor, u[j][1], u[k][1])
      BY <1>2, <2>3, <3>1 DEF Sorted
    <3>3. u[j] = u[k] /\ u[j][1] \in Nat /\ u[k][1] \in Nat
      BY <1>2, <2>2, <3>1, EntryOffset
    <3>4. QED
      BY <3>2, <3>3, PrecedesOnce
  <2>4. QED
    BY <2>0, <2>2, <2>3
<1> DEFINE T == {k \in 1..Len(s) : ~(k <= Len(t) /\ s[k] = t[k])}
<1>3. ASSUME T # {} PROVE FALSE
  <2>1. T \in SUBSET Nat
    BY <1>1
  <2>2. PICK k \in T : \A i \in T : k <= i
    BY <1>3, <2>1, LeastExists
  <2>3. k \in 1..Len(s) /\ ~(k <= Len(t) /\ s[k] = t[k])
    BY <2>2
  <2>4. ASSUME NEW i \in 1..Len(s), i < k PROVE i <= Len(t) /\ s[i] = t[i]
    <3>1. ~(k <= i)
      BY <1>1, <2>3, <2>4
    <3>2. QED
      BY <2>2, <3>1
  <2>5. PICK j \in 1..Len(t) : k <= j /\ t[j] = s[k]
    BY <1>2, <2>3, <2>4
  <2>6. k \in 1..Len(t) /\ k < j
    BY <1>1, <2>3, <2>5
  <2>7. ASSUME NEW i \in 1..Len(t), i < k PROVE i <= Len(s) /\ t[i] = s[i]
    BY <1>1, <2>3, <2>4, <2>7
  <2>8. PICK m \in 1..Len(s) : k <= m /\ s[m] = t[k]
    BY <1>2, <2>6, <2>7
  <2>9. k < m
    BY <1>1, <2>3, <2>6, <2>8
  <2>10. /\ Precedes(cursor, s[k][1], s[m][1])
         /\ Precedes(cursor, t[k][1], t[j][1])
    BY <2>3, <2>6, <2>9 DEF Sorted
  <2>11. s[k][1] \in Nat /\ s[m][1] \in Nat
    BY <2>3, EntryOffset
  <2>12. Precedes(cursor, s[m][1], s[k][1])
    BY <2>5, <2>8, <2>10
  <2>13. QED
    BY <2>10, <2>11, <2>12, PrecedesOnce
<1>4. \A k \in 1..Len(s) : k <= Len(t) /\ s[k] = t[k]
  BY <1>3
<1>5. Len(s) = Len(t)
  <2>1. Len(s) <= Len(t)
    <3>1. CASE Len(s) = 0
      BY <1>1, <3>1
    <3>2. CASE Len(s) # 0
      <4>1. Len(s) \in 1..Len(s)
        BY <1>1, <3>2
      <4>2. QED
        BY <1>4, <4>1
    <3>3. QED
      BY <3>1, <3>2
  <2>2. ASSUME Len(s) < Len(t) PROVE FALSE
    <3>1. PICK k : k = Len(s) + 1
      OBVIOUS
    <3>2. k \in 1..Len(t)
      BY <1>1, <2>2, <3>1
    <3>3. ASSUME NEW i \in 1..Len(t), i < k PROVE i <= Len(s) /\ t[i] = s[i]
      BY <1>1, <1>4, <3>1, <3>3
    <3>4. PICK j \in 1..Len(s) : k <= j /\ s[j] = t[k]
      BY <1>2, <3>2, <3>3
    <3>5. QED
      BY <1>1, <3>1, <3>4
  <2>3. QED
    BY <1>1, <2>1, <2>2
<1>6. QED
  BY <1>4, <1>5

\* What _clear_cdorb leaves of an index that is in order from an offset on:
\* the entries that are not in the range that begins there, in order from the
\* end of the range on.
LEMMA ClearedShifts ==
    ASSUME NEW index \in Seq(Entries), NEW from \in Nat, NEW upto \in Nat,
           from <= upto, Sorted(index, from)
    PROVE  LET rest == Cleared(index, from, upto)
           IN  /\ rest \in Seq(Entries)
               /\ Sorted(rest, upto)
               /\ Content(rest) = {e \in Content(index) : e[1] < from \/ upto <= e[1]}
<1> DEFINE S == {i \in 0..Len(index) :
                   \/ i = Len(index)
                   \/ index[i + 1][1] \notin from..(upto - 1)}
           least == CHOOSE x \in S : \A y \in S : x <= y
<1>1. Len(index) \in Nat
  OBVIOUS
<1>2. \E x \in S : \A y \in S : x <= y
  <2>1. S \in SUBSET Nat /\ Len(index) \in S
    BY <1>1
  <2>2. QED
    BY <2>1, LeastExists
<1>3. least \in S /\ \A y \in S : least <= y
  BY <1>2, Zenon
<1>4. Cleared(index, from, upto) = SubSeq(index, least + 1, Len(index))
  BY Zenon DEF Cleared, Least
<1> HIDE DEF least
<1>5. PICK n : n = least
  OBVIOUS
<1>6. PICK rest : rest = Cleared(index, from, upto)
  OBVIOUS
<1>7. /\ n \in 0..Len(index) /\ n \in Nat
      /\ n = Len(index) \/ index[n + 1][1] \notin from..(upto - 1)
      /\ \A i \in 0..Len(index) : i < n => index[i + 1][1] \in from..(upto - 1)
  <2>1. n \in S /\ \A y \in S : n <= y
    BY <1>3, <1>5
  <2>2. ASSUME NEW i \in 0..Len(index), i < n
        PROVE  index[i + 1][1] \in from..(upto - 1)
    <3>1. ~(n <= i) /\ i # Len(index)
      BY <1>1, <2>1, <2>2
    <3>2. QED
      BY <2>1, <3>1
  <2>3. QED
    BY <1>1, <2>1, <2>2
<1>8. /\ rest \in Seq(Entries)
      /\ Len(rest) = Len(index) - n
      /\ \A i \in 1..Len(rest) : rest[i] = index[n + i]
  BY <1>1, <1>4, <1>5, <1>6, <1>7
<1>9. ASSUME NEW i \in 1..Len(index), n < i
      PROVE  index[i][1] < from \/ upto <= index[i][1]
  <2>1. /\ n + 1 \in 1..Len(index) /\ n # Len(index) /\ n + 1 <= i
    BY <1>1, <1>7, <1>9
  <2>2. index[n + 1][1] \in Nat /\ index[i][1] \in Nat
    BY <2>1, EntryOffset
  <2>3. index[n + 1][1] < from \/ upto <= index[n + 1][1]
    BY <1>7, <2>1, <2>2
  <2>4. CASE n + 1 = i
    BY <2>3, <2>4
  <2>5. CASE n + 1 # i
    <3>1. n + 1 < i
      BY <1>1, <1>7, <2>1, <2>5
    <3>2. Precedes(from, index[n + 1][1], index[i][1])
      BY <2>1, <3>1 DEF Sorted
    <3>3. QED
      BY <2>2, <2>3, <3>2 DEF Precedes
  <2>6. QED
    BY <2>4, <2>5
<1>10. Sorted(rest, upto)
  <2>1. ASSUME NEW i \in 1..Len(rest), NEW j \in 1..Len(rest), i < j
        PROVE  Precedes(upto, rest[i][1], rest[j][1])
    <3>1. /\ n + i \in 1..Len(index) /\ n + j \in 1..Len(index)
          /\ n + i < n + j /\ n < n + i /\ n < n + j
      BY <1>1, <1>7, <1>8, <2>1
    <3>2. PICK x : x = index[n + i][1]
      OBVIOUS
    <3>3. PICK y : y = index[n + j][1]
      OBVIOUS
    <3>4. x \in Nat /\ y \in Nat
      BY <3>1, <3>2, <3>3, EntryOffset
    <3>5. (x < from \/ upto <= x) /\ (y < from \/ upto <= y)
      BY <1>9, <3>1, <3>2, <3>3
    <3>6. Precedes(from, x, y)
      BY <3>1, <3>2, <3>3 DEF Sorted
    <3>7. Precedes(upto, x, y)
      BY <3>4, <3>5, <3>6 DEF Precedes
    <3>8. QED
      BY <1>8, <3>2, <3>3, <3>7
  <2>2. QED
    BY <2>1 DEF Sorted
<1>11. Content(rest) = {e \in Content(index) : e[1] < from \/ upto <= e[1]}
  <2>1. ASSUME NEW i \in 1..Len(rest)
        PROVE  rest[i] \in {e \in Content(index) : e[1] < from \/ upto <= e[1]}
    <3>1. n + i \in 1..Len(index) /\ n < n + i /\ rest[i] = index[n + i]
      BY <1>1, <1>7, <1>8
    <3>2. QED
      BY <1>9, <3>1 DEF Content
  <2>2. ASSUME NEW i \in 1..Len(index), index[i][1] < from \/ upto <= index[i][1]
        PROVE  index[i] \in Content(rest)
    <3>1. index[i][1] \in Nat
      BY EntryOffset
    <3>2. ASSUME i <= n PROVE FALSE
      <4>1. i - 1 \in 0..Len(index) /\ i - 1 < n /\ (i - 1) + 1 = i
        BY <1>1, <1>7, <3>2
      <4>2. index[i][1] \in from..(upto - 1)
        BY <1>7, <4>1
      <4>3. QED
        BY <2>2, <3>1, <4>2
    <3>3. i - n \in 1..Len(rest) /\ n + (i - n) = i
      BY <1>1, <1>7, <1>8, <3>2
    <3>4. rest[i - n] = index[i]
      BY <1>8, <3>3
    <3>5. QED
      BY <3>3, <3>4 DEF Content
  <2>3. QED
    BY <2>1, <2>2 DEF Content
<1>12. QED
  BY <1>6, <1>8, <1>10, <1>11

LEMMA AppendShifts ==
    ASSUME NEW index \in Seq(Entries), NEW cursor \in Nat, Sorted(index, cursor),
           NEW e \in Entries,
           \A x \in Content(index) : Precedes(cursor, x[1], e[1])
    PROVE  /\ Append(index, e) \in Seq(Entries)
           /\ Sorted(Append(index, e), cursor)
           /\ Content(Append(index, e)) = Content(index) \cup {e}
<1>1. PICK more : more = Append(index, e)
  OBVIOUS
<1>2. /\ Len(index) \in Nat /\ more \in Seq(Entries)
      /\ Len(more) = Len(index) + 1
      /\ \A i \in 1..Len(index) : more[i] = index[i]
      /\ more[Len(index) + 1] = e
  BY <1>1
<1>3. Sorted(more, cursor)
  <2>1. ASSUME NEW i \in 1..Len(more), NEW j \in 1..Len(more), i < j
        PROVE  Precedes(cursor, more[i][1], more[j][1])
    <3>1. i \in 1..Len(index)
      BY <1>2, <2>1
    <3>2. CASE j \in 1..Len(index)
      BY <1>2, <2>1, <3>1, <3>2 DEF Sorted
    <3>3. CASE j = Len(index) + 1
      <4>1. index[i] \in Content(index)
        BY <3>1 DEF Content
      <4>2. QED
        BY <1>2, <3>1, <3>3, <4>1
    <3>4. QED
      BY <1>2, <3>2, <3>3
  <2>2. QED
    BY <2>1 DEF Sorted
<1>4. Content(more) = Content(index) \cup {e}
  <2>1. 1..Len(more) = 1..Len(index) \cup {Len(index) + 1}
    BY <1>2
  <2>2. QED
    BY <1>2, <2>1 DEF Content
<1>5. QED
  BY <1>1, <1>2, <1>3, <1>4

\* The offset up to which the i-th event, or the pad, is written.
Limit(n, stop, i) == IF i = n + 1 THEN stop ELSE Placed(write_q)[i + 1]

\* The entries for the first k events of a write.
NewDumps(k) ==
    {<<Placed(write_q)[i], write_q[i].record>> :
        i \in {i \in 1..k : write_q[i].type = "dump"}}

\* The index goes event by event.
IndexStep(index, n, stop, i) ==
    LET rest == Cleared(index, Placed(write_q)[i], Limit(n, stop, i))
    IN  IF i <= n /\ write_q[i].type = "dump"
        THEN Append(rest, <<Placed(write_q)[i], write_q[i].record>>)
        ELSE rest

LEMMA IndexCounts ==
    ASSUME NEW n \in Nat, NEW stop
    PROVE  \E after :
              /\ after[0] = cdorb
              /\ \A i \in 1..(n + 1) :
                    after[i] = IndexStep(after[i - 1], n, stop, i)
              /\ after[n + 1] = Indexed(n, stop)
<1> DEFINE D(f, k) == [i \in 0..k |->
                         IF i = 0 THEN cdorb
                         ELSE LET rest == Cleared(f[i - 1], Placed(write_q)[i],
                                            IF i = n + 1 THEN stop
                                            ELSE Placed(write_q)[i + 1])
                              IN  IF i <= n /\ write_q[i].type = "dump"
                                  THEN Append(rest, <<Placed(write_q)[i],
                                                      write_q[i].record>>)
                                  ELSE rest]
<1>1. \A f, k : D(f, k) = [i \in 0..k |->
                             IF i = 0 THEN cdorb
                             ELSE IndexStep(f[i - 1], n, stop, i)]
  BY Zenon DEF IndexStep, Limit
<1> DEFINE T == {k \in Nat : ~ \E f : f = D(f, k)}
<1> HIDE DEF D
<1>2. ASSUME T # {} PROVE FALSE
  <2>1. T \in SUBSET Nat
    BY DEF T
  <2>2. PICK k \in T : \A j \in T : k <= j
    BY <1>2, <2>1, LeastExists
  <2>3. k \in Nat /\ ~ \E f : f = D(f, k)
    BY <2>2 DEF T
  <2>4. CASE k = 0
    <3> DEFINE f == [i \in 0..0 |-> cdorb]
    <3>1. f = [i \in 0..0 |-> IF i = 0 THEN cdorb
                              ELSE IndexStep(f[i - 1], n, stop, i)]
      OBVIOUS
    <3>2. f = D(f, 0)
      BY <1>1, <3>1, Zenon
    <3>3. QED
      BY <2>3, <2>4, <3>2
  <2>5. CASE k # 0
    <3>1. k - 1 \in Nat /\ k - 1 \notin T /\ (k - 1) + 1 = k
      <4>1. k - 1 \in Nat /\ ~(k <= k - 1)
        BY <2>3, <2>5
      <4>2. QED
        BY <2>2, <2>3, <4>1
    <3>2. PICK f : f = D(f, k - 1)
      BY <3>1 DEF T
    <3> DEFINE g == [i \in 0..k |-> IF i = k THEN IndexStep(f[k - 1], n, stop, k)
                                    ELSE f[i]]
    <3>3. \A i \in 0..(k - 1) : f[i] = IF i = 0 THEN cdorb
                                       ELSE IndexStep(f[i - 1], n, stop, i)
      BY <1>1, <3>2, Zenon
    <3>4. ASSUME NEW i \in 0..k
          PROVE  g[i] = IF i = 0 THEN cdorb
                        ELSE IndexStep(g[i - 1], n, stop, i)
      <4>1. CASE i = k
        <5>1. k - 1 \in 0..k /\ k - 1 # k /\ k # 0
          BY <2>3, <2>5
        <5>2. g[k - 1] = f[k - 1] /\ g[k] = IndexStep(f[k - 1], n, stop, k)
          BY <2>3, <5>1
        <5>3. QED
          BY <4>1, <5>1, <5>2
      <4>2. CASE i # k
        <5>1. i \in 0..(k - 1) /\ g[i] = f[i]
          BY <2>3, <4>2
        <5>2. i # 0 => i - 1 \in 0..k /\ i - 1 # k
          BY <2>3, <5>1
        <5>3. i # 0 => g[i - 1] = f[i - 1]
          BY <5>2
        <5>4. QED
          BY <3>3, <5>1, <5>3
      <4>3. QED
        BY <4>1, <4>2
    <3>5. g = [i \in 0..k |-> IF i = 0 THEN cdorb
                              ELSE IndexStep(g[i - 1], n, stop, i)]
      BY <3>4, Zenon
    <3>6. g = D(g, k)
      BY <1>1, <3>5, Zenon
    <3>7. QED
      BY <2>3, <3>6
  <2>6. QED
    BY <2>4, <2>5
<1>3. \E f : f = D(f, n + 1)
  <2>1. n + 1 \in Nat /\ n + 1 \notin T
    BY <1>2
  <2>2. QED
    BY <2>1 DEF T
<1> DEFINE after == CHOOSE f : f = D(f, n + 1)
<1>4. after = D(after, n + 1)
  BY <1>3, Zenon
<1>5. Indexed(n, stop) = after[n + 1]
  BY Zenon DEF Indexed, D
<1> HIDE DEF after
<1>6. \A i \in 0..(n + 1) : after[i] = IF i = 0 THEN cdorb
                                       ELSE IndexStep(after[i - 1], n, stop, i)
  BY <1>1, <1>4, Zenon
<1>7. after[0] = cdorb
  <2>1. 0 \in 0..(n + 1)
    OBVIOUS
  <2>2. QED
    BY <1>6, <2>1, Zenon
<1>8. ASSUME NEW i \in 1..(n + 1)
      PROVE  after[i] = IndexStep(after[i - 1], n, stop, i)
  <2>1. i \in 0..(n + 1) /\ i # 0
    OBVIOUS
  <2>2. QED
    BY <1>6, <2>1, Zenon
<1>9. QED
  BY <1>5, <1>7, <1>8, Zenon

\* After a write the index has the old entries that were not overwritten and
\* the new ones, in order from the end of the pad on.
LEMMA IndexTurns ==
    ASSUME NEW n, NEW stop, NEW disk, NEW cursor, Turned(n, stop, disk, cursor),
           cdorb \in Seq(Entries), Sorted(cdorb, recordcursor)
    PROVE  /\ Indexed(n, stop) \in Seq(Entries)
           /\ Sorted(Indexed(n, stop), stop)
           /\ Content(Indexed(n, stop)) =
                 {e \in Content(cdorb) : e[1] < recordcursor \/ stop <= e[1]}
                    \cup NewDumps(n)
<1> DEFINE at == Placed(write_q)
           to(i) == IF i = 0 THEN recordcursor ELSE Limit(n, stop, i)
           kept(i) == {e \in Content(cdorb) : e[1] < recordcursor \/ to(i) <= e[1]}
           news(i) == NewDumps(IF i <= n THEN i ELSE n)
<1>1. /\ n \in Nat /\ n \in 0..Len(write_q) /\ Len(write_q) \in Nat
      /\ recordcursor \in Nat /\ stop \in Nat
      /\ Stops(n, stop)
      /\ \A i \in 1..(n + 1) :
            /\ at[i] \in Nat /\ recordcursor <= at[i]
            /\ \A j \in 1..(n + 1) : i < j => at[i] < at[j]
  BY TurnPlaces
<1>2. /\ HeaderSize \in Nat /\ HeaderSize > 0 /\ QueueOK
      /\ \A i \in 1..n : write_q[i].record = Top + i
      /\ Top \in Nat
  <2>1. QueueOK /\ Top \in Nat
    BY WholeRing DEF Turned, Whole
  <2>2. ASSUME NEW i \in 1..n PROVE write_q[i].record = Top + i
    <3>1. i \in 1..Len(write_q)
      BY <1>1
    <3>2. QED
      BY <3>1 DEF Turned, Whole, Numbered
  <2>3. QED
    BY <2>1, <2>2, EventRingAssumption
<1>3. at[1] = recordcursor
  BY <1>2, PlacedCounts DEF QueueOK
<1>4. at[n + 1] < stop
  <2>1. at[n + 1] + HeaderSize <= stop /\ n + 1 \in 1..(n + 1)
    BY <1>1 DEF Stops
  <2>2. QED
    BY <1>1, <1>2, <2>1
<1>5. ASSUME NEW i \in 1..(n + 1)
      PROVE  /\ to(i) \in Nat /\ at[i] < to(i) /\ to(i - 1) = at[i]
             /\ i - 1 \in Nat /\ recordcursor <= at[i]
  <2>1. to(i) = IF i = n + 1 THEN stop ELSE at[i + 1]
    BY <1>1 DEF Limit
  <2>2. to(i) \in Nat /\ at[i] < to(i)
    <3>1. CASE i = n + 1
      BY <1>1, <1>4, <2>1, <3>1
    <3>2. CASE i # n + 1
      <4>1. i + 1 \in 1..(n + 1) /\ i < i + 1
        BY <1>1, <3>2
      <4>2. QED
        BY <1>1, <2>1, <3>2, <4>1
    <3>3. QED
      BY <3>1, <3>2
  <2>3. to(i - 1) = at[i]
    <3>1. CASE i = 1
      BY <1>3, <3>1
    <3>2. CASE i # 1
      <4>1. i - 1 # 0 /\ i - 1 # n + 1 /\ (i - 1) + 1 = i
        BY <1>1, <3>2
      <4>2. QED
        BY <4>1 DEF Limit
    <3>3. QED
      BY <3>1, <3>2
  <2>4. QED
    BY <1>1, <2>2, <2>3
<1>6. PICK after :
         /\ after[0] = cdorb
         /\ \A i \in 1..(n + 1) : after[i] = IndexStep(after[i - 1], n, stop, i)
         /\ after[n + 1] = Indexed(n, stop)
  BY <1>1, IndexCounts
<1> DEFINE Good(i) == /\ after[i] \in Seq(Entries)
                      /\ Sorted(after[i], to(i))
                      /\ Content(after[i]) = kept(i) \cup news(i)
<1>7. Good(0)
  <2>1. kept(0) = Content(cdorb)
    <3>1. ASSUME NEW e \in Content(cdorb)
          PROVE  e[1] < recordcursor \/ recordcursor <= e[1]
      <4>1. PICK i \in 1..Len(cdorb) : e = cdorb[i]
        BY DEF Content
      <4>2. e[1] \in Nat
        BY <4>1, EntryOffset
      <4>3. QED
        BY <1>1, <4>2
    <3>2. QED
      BY <3>1
  <2>2. news(0) = {}
    BY <1>1 DEF NewDumps
  <2>3. QED
    BY <1>6, <2>1, <2>2
<1>8. ASSUME NEW i \in 1..(n + 1), Good(i - 1) PROVE Good(i)
  <2> DEFINE old == after[i - 1]
             rest == Cleared(old, at[i], to(i))
  <2>1. /\ to(i) \in Nat /\ at[i] < to(i) /\ to(i - 1) = at[i]
        /\ at[i] \in Nat /\ i \in Nat /\ recordcursor <= at[i]
        /\ at[i] <= to(i)
    BY <1>1, <1>5
  <2>2. /\ rest \in Seq(Entries)
        /\ Sorted(rest, to(i))
        /\ Content(rest) = {e \in Content(old) : e[1] < at[i] \/ to(i) <= e[1]}
    <3>1. old \in Seq(Entries) /\ Sorted(old, at[i])
      BY <1>8, <2>1
    <3>2. QED
      BY <2>1, <3>1, ClearedShifts
  <2>3. after[i] = IF i <= n /\ write_q[i].type = "dump"
                   THEN Append(rest, <<at[i], write_q[i].record>>) ELSE rest
    <3>1. i # 0
      OBVIOUS
    <3>2. to(i) = Limit(n, stop, i)
      BY <3>1
    <3>3. after[i] = IndexStep(after[i - 1], n, stop, i)
      BY <1>6
    <3>4. QED
      BY <3>2, <3>3, Zenon DEF IndexStep
  <2> HIDE DEF rest
  <2>4. ASSUME NEW e \in Content(old) PROVE e[1] \in Nat
    <3>1. PICK j \in 1..Len(old) : e = old[j]
      BY DEF Content
    <3>2. QED
      BY <1>8, <3>1, EntryOffset
  <2>5. news(i - 1) = NewDumps(i - 1)
    BY <1>1
  <2>6. ASSUME NEW e \in news(i - 1) PROVE e[1] < at[i]
    <3>1. PICK j \in 1..(i - 1) : e = <<at[j], write_q[j].record>>
      BY <2>5 DEF NewDumps
    <3>2. j \in 1..(n + 1) /\ j < i
      BY <1>1
    <3>3. QED
      BY <1>1, <3>1, <3>2
  <2>7. Content(rest) = kept(i) \cup news(i - 1)
    <3>1. Content(old) = kept(i - 1) \cup news(i - 1)
      BY <1>8
    <3>2. ASSUME NEW e \in Content(rest) PROVE e \in kept(i) \cup news(i - 1)
      <4>1. e \in Content(old) /\ (e[1] < at[i] \/ to(i) <= e[1])
        BY <2>2
      <4>2. CASE e \in kept(i - 1)
        <5>1. e \in Content(cdorb) /\ (e[1] < recordcursor \/ at[i] <= e[1])
          BY <2>1, <4>2
        <5>2. e[1] < recordcursor \/ to(i) <= e[1]
          BY <1>1, <2>1, <2>4, <4>1, <5>1
        <5>3. QED
          BY <5>1, <5>2
      <4>3. QED
        BY <3>1, <4>1, <4>2
    <3>3. ASSUME NEW e \in kept(i) PROVE e \in Content(rest)
      <4>1. e \in Content(cdorb) /\ (e[1] < recordcursor \/ to(i) <= e[1])
        OBVIOUS
      <4>2. e[1] \in Nat
        <5>1. PICK j \in 1..Len(cdorb) : e = cdorb[j]
          BY <4>1 DEF Content
        <5>2. QED
          BY <5>1, EntryOffset
      <4>3. e[1] < recordcursor \/ at[i] <= e[1]
        BY <1>1, <2>1, <4>1, <4>2
      <4>4. e \in Content(old)
        BY <2>1, <3>1, <4>1, <4>3
      <4>5. e[1] < at[i] \/ to(i) <= e[1]
        BY <1>1, <2>1, <4>1, <4>2
      <4>6. QED
        BY <2>2, <4>4, <4>5
    <3>4. ASSUME NEW e \in news(i - 1) PROVE e \in Content(rest)
      BY <2>2, <2>6, <3>1, <3>4
    <3>5. QED
      BY <3>2, <3>3, <3>4
  <2>8. CASE i <= n /\ write_q[i].type = "dump"
    <3>1. PICK e : e = <<at[i], write_q[i].record>>
      OBVIOUS
    <3>2. e \in Entries
      <4>1. at[i] \in Offsets
        BY <1>1, <1>2, WriteNumbers
      <4>2. i \in 1..n /\ i \in Nat
        BY <1>1, <2>8
      <4>3. write_q[i].record \in Nat
        BY <1>2, <4>2
      <4>4. QED
        BY <3>1, <4>1, <4>3 DEF Entries
    <3>3. ASSUME NEW x \in Content(rest) PROVE Precedes(to(i), x[1], e[1])
      <4>1. x \in Content(old) /\ (x[1] < at[i] \/ to(i) <= x[1])
        BY <2>2
      <4>2. x[1] \in Nat /\ e[1] = at[i]
        BY <2>4, <3>1, <4>1
      <4>3. PICK y : y = x[1]
        OBVIOUS
      <4>4. PICK l : l = to(i)
        OBVIOUS
      <4>5. Precedes(l, y, at[i])
        BY <2>1, <4>1, <4>2, <4>3, <4>4 DEF Precedes
      <4>6. QED
        BY <4>2, <4>3, <4>4, <4>5
    <3>4. after[i] = Append(rest, e)
      BY <2>3, <2>8, <3>1
    <3>5. /\ after[i] \in Seq(Entries) /\ Sorted(after[i], to(i))
          /\ Content(after[i]) = Content(rest) \cup {e}
      BY <2>1, <2>2, <3>2, <3>3, <3>4, AppendShifts
    <3>6. news(i) = news(i - 1) \cup {e}
      <4>1. news(i) = NewDumps(i)
        BY <2>8
      <4>2. 1..i = 1..(i - 1) \cup {i} /\ i \in 1..i
        BY <2>1
      <4>3. NewDumps(i) = NewDumps(i - 1) \cup {e}
        BY <2>8, <3>1, <4>2 DEF NewDumps
      <4>4. QED
        BY <2>5, <4>1, <4>3
    <3>7. QED
      BY <2>7, <3>5, <3>6
  <2>9. CASE ~(i <= n /\ write_q[i].type = "dump")
    <3>1. after[i] = rest
      BY <2>3, <2>9
    <3>2. news(i) = news(i - 1)
      <4>1. CASE i = n + 1
        BY <1>1, <4>1
      <4>2. CASE i # n + 1
        <5>1. i <= n /\ write_q[i].type # "dump"
          BY <1>1, <2>9, <4>2
        <5>2. {j \in 1..i : write_q[j].type = "dump"}
                 = {j \in 1..(i - 1) : write_q[j].type = "dump"}
          BY <2>1, <5>1
        <5>3. QED
          BY <2>5, <5>1, <5>2 DEF NewDumps
      <4>3. QED
        BY <4>1, <4>2
    <3>3. QED
      BY <2>2, <2>7, <3>1, <3>2
  <2>10. QED
    BY <2>8, <2>9
<1> HIDE DEF Good
<1>9. \A i \in 0..(n + 1) : Good(i)
  <2> DEFINE T == {i \in 0..(n + 1) : ~Good(i)}
  <2>1. ASSUME T # {} PROVE FALSE
    <3>1. T \in SUBSET Nat
      BY <1>1
    <3>2. PICK i \in T : \A j \in T : i <= j
      BY <2>1, <3>1, LeastExists
    <3>3. i \in 1..(n + 1) /\ i - 1 \in 0..(n + 1) /\ ~(i <= i - 1)
      BY <1>1, <1>7, <3>2
    <3>4. Good(i - 1)
      BY <3>2, <3>3
    <3>5. QED
      BY <1>8, <3>2, <3>3, <3>4
  <2>2. QED
    BY <2>1
<1>10. n + 1 \in 0..(n + 1) /\ n + 1 # 0 /\ ~(n + 1 <= n)
  BY <1>1
<1>11. to(n + 1) = stop /\ news(n + 1) = NewDumps(n)
  BY <1>10 DEF Limit
<1>12. Good(n + 1)
  BY <1>9, <1>10
<1>13. QED
  BY <1>6, <1>11, <1>12 DEF Good

-----------------------------------------------------------------------------
(* The index after a write.                                                *)

DumpEntries(disk) == {<<o, Rec(disk, o)>> : o \in Dumps(disk)}

LEMMA ListsSorted ==
    ASSUME NEW index, NEW disk, NEW cursor
    PROVE  Lists(index, disk, cursor) <=>
               Sorted(index, cursor) /\ Content(index) = DumpEntries(disk)
BY DEF Lists, Sorted, Content, DumpEntries, Rec

LEMMA DumpKind ==
    ASSUME NEW disk, NEW o
    PROVE  o \in Dumps(disk) <=>
               o \in Events(disk) /\ HeaderAt(disk, o).type = "dump"
BY DEF Dumps, Events, EventTypes

\* The dumps in the ring after a write are those it left and those it wrote.
LEMMA TurnDumps ==
    ASSUME NEW n, NEW stop, NEW disk, NEW cursor, Turned(n, stop, disk, cursor)
    PROVE  DumpEntries(disk) =
               {e \in DumpEntries(erb) : e[1] < recordcursor \/ stop <= e[1]}
                  \cup NewDumps(n)
<1> DEFINE old == {e \in DumpEntries(erb) : e[1] < recordcursor \/ stop <= e[1]}
<1>1. ASSUME NEW i \in 1..n
      PROVE  /\ Placed(write_q)[i] \in Events(disk)
             /\ Rec(disk, Placed(write_q)[i]) = write_q[i].record
             /\ HeaderAt(disk, Placed(write_q)[i]).type = write_q[i].type
  <2>1. /\ i \in 1..Len(write_q)
        /\ Rec(disk, Placed(write_q)[i]) = Top + i
        /\ HeaderAt(disk, Placed(write_q)[i]).type = write_q[i].type
        /\ Placed(write_q)[i] \in Events(disk)
    BY TurnEvents
  <2>2. write_q[i].record = Top + i
    BY <2>1 DEF Turned, Whole, Numbered
  <2>3. QED
    BY <2>1, <2>2
<1>2. ASSUME NEW o \in Dumps(disk)
      PROVE  <<o, Rec(disk, o)>> \in old \cup NewDumps(n)
  <2>1. o \in Events(disk) /\ HeaderAt(disk, o).type = "dump"
    BY DumpKind
  <2>2. CASE o \in Survivors(stop)
    <3>1. /\ o \in Events(erb) /\ (o < recordcursor \/ stop <= o)
          /\ HeaderAt(disk, o) = HeaderAt(erb, o)
          /\ Rec(disk, o) = Rec(erb, o)
      BY <2>2, TurnEvents
    <3>2. o \in Dumps(erb)
      BY <2>1, <3>1, DumpKind
    <3>3. QED
      BY <3>1, <3>2 DEF DumpEntries
  <2>3. CASE o \notin Survivors(stop)
    <3>1. PICK i \in 1..n : o = Placed(write_q)[i]
      BY <2>1, <2>3, TurnEvents
    <3>2. Rec(disk, o) = write_q[i].record /\ write_q[i].type = "dump"
      BY <1>1, <2>1, <3>1
    <3>3. QED
      BY <3>1, <3>2 DEF NewDumps
  <2>4. QED
    BY <2>2, <2>3
<1>3. ASSUME NEW e \in old PROVE e \in DumpEntries(disk)
  <2>1. PICK o \in Dumps(erb) : e = <<o, Rec(erb, o)>>
    BY DEF DumpEntries
  <2>2. o \in Events(erb) /\ HeaderAt(erb, o).type = "dump"
    BY DumpKind
  <2>3. o \in Survivors(stop)
    BY <2>1, <2>2 DEF Survivors
  <2>4. /\ o \in Events(disk)
        /\ HeaderAt(disk, o) = HeaderAt(erb, o)
        /\ Rec(disk, o) = Rec(erb, o)
    BY <2>3, TurnEvents
  <2>5. o \in Dumps(disk)
    BY <2>2, <2>4, DumpKind
  <2>6. QED
    BY <2>1, <2>4, <2>5 DEF DumpEntries
<1>4. ASSUME NEW e \in NewDumps(n) PROVE e \in DumpEntries(disk)
  <2>1. PICK i \in 1..n : /\ write_q[i].type = "dump"
                          /\ e = <<Placed(write_q)[i], write_q[i].record>>
    BY DEF NewDumps
  <2>2. Placed(write_q)[i] \in Dumps(disk)
    BY <1>1, <2>1, DumpKind
  <2>3. QED
    BY <1>1, <2>1, <2>2 DEF DumpEntries
<1>5. QED
  BY <1>2, <1>3, <1>4 DEF DumpEntries

LEMMA IndexKept ==
    ASSUME NEW n, NEW stop, NEW disk, NEW cursor, Turned(n, stop, disk, cursor),
           cdorb \in Seq(Entries), Lists(cdorb, erb, recordcursor)
    PROVE  /\ Indexed(n, stop) \in Seq(Entries)
           /\ Lists(Indexed(n, stop), disk, cursor)
<1>1. Sorted(cdorb, recordcursor) /\ Content(cdorb) = DumpEntries(erb)
  BY ListsSorted
<1>2. PICK index : index = Indexed(n, stop)
  OBVIOUS
<1>3. /\ index \in Seq(Entries) /\ Sorted(index, stop)
      /\ Content(index) =
            {e \in DumpEntries(erb) : e[1] < recordcursor \/ stop <= e[1]}
               \cup NewDumps(n)
  BY <1>1, <1>2, IndexTurns
<1>4. Content(index) = DumpEntries(disk)
  BY <1>3, TurnDumps
<1>5. /\ n \in Nat /\ cursor \in Nat /\ recordcursor \in Nat /\ stop \in Nat
      /\ \/ cursor = 0 /\ stop = Size
         \/ /\ cursor = Placed(write_q)[n + 1]
            /\ recordcursor <= cursor /\ cursor < stop
  BY TurnPlaces
<1>6. ASSUME NEW i \in 1..Len(index)
      PROVE  /\ index[i][1] \in Nat
             /\ index[i][1] < Size
             /\ \/ cursor = 0 /\ stop = Size
                \/ index[i][1] < cursor \/ stop <= index[i][1]
  <2>1. index[i][1] \in Nat /\ index[i][1] \in Offsets
    BY <1>3, EntryOffset
  <2>2. index[i][1] < Size
    BY <2>1, EventRingAssumption DEF Offsets
  <2>3. index[i] \in Content(index)
    BY DEF Content
  <2>4. PICK e : e = index[i]
    OBVIOUS
  <2>5. CASE e \in NewDumps(n)
    <3>1. PICK j \in 1..n : e = <<Placed(write_q)[j], write_q[j].record>>
      BY <2>5 DEF NewDumps
    <3>2. j \in 1..(n + 1) /\ n + 1 \in 1..(n + 1) /\ j < n + 1
      BY <1>5
    <3>3. Placed(write_q)[j] < Placed(write_q)[n + 1]
      BY <3>2, TurnPlaces
    <3>4. e[1] = Placed(write_q)[j]
      BY <3>1
    <3>5. QED
      BY <1>5, <2>1, <2>2, <2>4, <3>3, <3>4
  <2>6. CASE e \notin NewDumps(n)
    <3>1. e[1] < recordcursor \/ stop <= e[1]
      BY <1>3, <2>3, <2>4, <2>6
    <3>2. e[1] \in Nat
      BY <2>1, <2>4
    <3>3. QED
      BY <1>5, <2>1, <2>2, <2>4, <3>1, <3>2
  <2>7. QED
    BY <2>5, <2>6
<1>7. Sorted(index, cursor)
  <2>1. ASSUME NEW i \in 1..Len(index), NEW j \in 1..Len(index), i < j
        PROVE  Precedes(cursor, index[i][1], index[j][1])
    <3>1. Precedes(stop, index[i][1], index[j][1])
      BY <1>3, <2>1 DEF Sorted
    <3>2. PICK x : x = index[i][1]
      OBVIOUS
    <3>3. PICK y : y = index[j][1]
      OBVIOUS
    <3>4. x \in Nat /\ x < Size /\ y \in Nat /\ y < Size /\ Size \in Nat
      BY <1>6, <3>2, <3>3, EventRingAssumption
    <3>5. CASE cursor = 0 /\ stop = Size
      BY <3>1, <3>2, <3>3, <3>4, <3>5 DEF Precedes
    <3>6. CASE cursor < stop /\ (x < cursor \/ stop <= x)
                            /\ (y < cursor \/ stop <= y)
      BY <1>5, <3>1, <3>2, <3>3, <3>4, <3>6 DEF Precedes
    <3>7. QED
      BY <1>5, <1>6, <3>2, <3>3, <3>5, <3>6
  <2>2. QED
    BY <2>1 DEF Sorted
<1>8. QED
  BY <1>2, <1>3, <1>4, <1>7, ListsSorted

-----------------------------------------------------------------------------
(* The index of a scan: the dumps are met in the order of their offsets.   *)

DumpsFrom(disk, o) ==
    {<<p, Rec(disk, p)>> :
        p \in {p \in Chain(disk, o) : /\ IsHeader(disk, p)
                                      /\ HeaderAt(disk, p).type = "dump"}}

EntryAt(disk, o) ==
    IF HeaderAt(disk, o).type = "dump"
    THEN << <<o, HeaderAt(disk, o).record>> >> ELSE <<>>

Listed(s, disk, o) ==
    s \in Seq(Entries) /\ Sorted(s, 0) /\ Content(s) = DumpsFrom(disk, o)

LEMMA NoEntries ==
    /\ <<>> \in Seq(Entries) /\ Content(<<>>) = {}
    /\ \A cursor : Sorted(<<>>, cursor)
    /\ \A s \in Seq(Entries) : Content(s) = {} => s = <<>>
<1>1. /\ <<>> \in Seq(Entries) /\ Content(<<>>) = {}
      /\ \A cursor : Sorted(<<>>, cursor)
  BY DEF Content, Sorted
<1>2. ASSUME NEW s \in Seq(Entries), Content(s) = {} PROVE s = <<>>
  <2>1. ASSUME Len(s) # 0 PROVE FALSE
    <3>1. 1 \in 1..Len(s)
      BY <2>1
    <3>2. s[1] \in Content(s)
      BY <3>1 DEF Content
    <3>3. QED
      BY <1>2, <3>2
  <2>2. QED
    BY <2>1
<1>3. QED
  BY <1>1, <1>2

LEMMA PrependSorts ==
    ASSUME NEW s \in Seq(Entries), Sorted(s, 0), NEW e \in Entries,
           \A x \in Content(s) : e[1] < x[1]
    PROVE  /\ <<e>> \o s \in Seq(Entries)
           /\ Sorted(<<e>> \o s, 0)
           /\ Content(<<e>> \o s) = Content(s) \cup {e}
<1>1. PICK t : t = <<e>> \o s
  OBVIOUS
<1>2. /\ t \in Seq(Entries) /\ Len(t) = Len(s) + 1 /\ Len(s) \in Nat
      /\ t[1] = e
      /\ \A i \in 1..Len(s) : t[i + 1] = s[i]
  BY <1>1
<1>3. ASSUME NEW i \in 1..Len(t), i # 1
      PROVE  i - 1 \in 1..Len(s) /\ t[i] = s[i - 1]
  <2>1. i - 1 \in 1..Len(s) /\ (i - 1) + 1 = i
    BY <1>2, <1>3
  <2>2. QED
    BY <1>2, <2>1
<1>4. ASSUME NEW i \in 1..Len(t), NEW j \in 1..Len(t), i < j
      PROVE  Precedes(0, t[i][1], t[j][1])
  <2>1. j # 1 /\ i \in Nat /\ j \in Nat
    BY <1>2, <1>4
  <2>2. j - 1 \in 1..Len(s) /\ t[j] = s[j - 1]
    BY <1>3, <2>1
  <2>3. t[j][1] \in Nat /\ t[i][1] \in Nat
    BY <1>2, EntryOffset
  <2>4. CASE i = 1
    <3>1. s[j - 1] \in Content(s)
      BY <2>2 DEF Content
    <3>2. t[i][1] < t[j][1]
      BY <1>2, <2>2, <2>4, <3>1
    <3>3. QED
      BY <2>3, <3>2 DEF Precedes
  <2>5. CASE i # 1
    <3>1. i - 1 \in 1..Len(s) /\ t[i] = s[i - 1] /\ i - 1 < j - 1
      BY <1>3, <1>4, <2>1, <2>5
    <3>2. QED
      BY <2>2, <3>1 DEF Sorted
  <2>6. QED
    BY <2>4, <2>5
<1>5. Content(t) = Content(s) \cup {e}
  <2>1. ASSUME NEW i \in 1..Len(t) PROVE t[i] \in Content(s) \cup {e}
    BY <1>2, <1>3 DEF Content
  <2>2. 1 \in 1..Len(t) /\ \A i \in 1..Len(s) : i + 1 \in 1..Len(t)
    BY <1>2
  <2>3. QED
    BY <1>2, <2>1, <2>2 DEF Content
<1>6. QED
  BY <1>1, <1>2, <1>4, <1>5 DEF Sorted

\* One header more.
LEMMA ListedUnfolds ==
    ASSUME NEW disk, Cells(disk), NEW o \in Places
    PROVE  /\ ~IsHeader(disk, o) => Listed(<<>>, disk, o)
           /\ IsHeader(disk, o) =>
                 /\ Follower(disk, o) \in Places /\ o < Follower(disk, o)
                 /\ \A s : Listed(s, disk, Follower(disk, o)) =>
                              Listed(EntryAt(disk, o) \o s, disk, o)
<1>1. Sane(disk)
  BY CellsSane
<1>2. CASE ~IsHeader(disk, o)
  <2>1. DumpsFrom(disk, o) = {}
    BY <1>1, <1>2, ChainUnfolds DEF DumpsFrom
  <2>2. QED
    BY <1>2, <2>1, NoEntries DEF Listed
<1>3. CASE IsHeader(disk, o)
  <2>1. PICK n : n = Follower(disk, o)
    OBVIOUS
  <2>2. n \in Places /\ o < n /\ o \in Nat /\ n \in Nat
    BY <1>1, <1>3, <2>1, FollowerBehind
  <2>3. Chain(disk, o) = {o} \cup Chain(disk, n)
    BY <1>1, <1>3, <2>1, ChainUnfolds
  <2>4. ASSUME NEW s, Listed(s, disk, n)
        PROVE  Listed(EntryAt(disk, o) \o s, disk, o)
    <3>1. s \in Seq(Entries) /\ Sorted(s, 0) /\ Content(s) = DumpsFrom(disk, n)
      BY <2>4 DEF Listed
    <3>2. CASE HeaderAt(disk, o).type # "dump"
      <4>1. EntryAt(disk, o) = <<>> /\ <<>> \o s = s
        BY <3>1, <3>2 DEF EntryAt
      <4>2. DumpsFrom(disk, o) = DumpsFrom(disk, n)
        BY <2>3, <3>2 DEF DumpsFrom
      <4>3. QED
        BY <3>1, <4>1, <4>2 DEF Listed
    <3>3. CASE HeaderAt(disk, o).type = "dump"
      <4>1. PICK e : e = <<o, Rec(disk, o)>>
        OBVIOUS
      <4>2. EntryAt(disk, o) = <<e>>
        BY <3>3, <4>1 DEF EntryAt, Rec
      <4>3. e \in Entries /\ e[1] = o
        <5>1. o \in Offsets
          BY <1>3 DEF IsHeader
        <5>2. Rec(disk, o) \in Nat
          BY <1>3, HeaderKind DEF HeaderOK, HeaderSet, Rec
        <5>3. QED
          BY <4>1, <5>1, <5>2 DEF Entries
      <4>4. DumpsFrom(disk, o) = DumpsFrom(disk, n) \cup {e}
        BY <1>3, <2>3, <3>3, <4>1 DEF DumpsFrom
      <4>5. ASSUME NEW x \in Content(s) PROVE e[1] < x[1]
        <5>1. PICK p \in Chain(disk, n) : x = <<p, Rec(disk, p)>>
          BY <3>1 DEF DumpsFrom
        <5>2. p \in Places /\ n <= p
          BY <1>1, <2>2, <5>1, ChainBounds
        <5>3. p \in Nat /\ x[1] = p
          BY <5>1, <5>2, RingNumbers
        <5>4. QED
          BY <2>2, <4>3, <5>2, <5>3
      <4>6. QED
        BY <3>1, <4>2, <4>3, <4>4, <4>5, PrependSorts DEF Listed
    <3>4. QED
      BY <3>2, <3>3
  <2>5. QED
    BY <1>3, <2>1, <2>2, <2>4
<1>4. QED
  BY <1>2, <1>3

LEMMA ListedExists ==
    ASSUME NEW disk, Cells(disk), NEW o \in Places
    PROVE  \E s : Listed(s, disk, o)
<1> DEFINE B == {x \in Places : ~ \E s : Listed(s, disk, x)}
<1>1. ASSUME NEW x \in B PROVE \E p \in B : x < p
  <2>1. IsHeader(disk, x)
    BY <1>1, ListedUnfolds
  <2>2. /\ Follower(disk, x) \in Places /\ x < Follower(disk, x)
        /\ \A s : Listed(s, disk, Follower(disk, x)) =>
                     Listed(EntryAt(disk, x) \o s, disk, x)
    BY <1>1, <2>1, ListedUnfolds
  <2>3. Follower(disk, x) \in B
    BY <1>1, <2>2
  <2>4. QED
    BY <2>2, <2>3
<1>2. B = {}
  BY <1>1, NoneFails
<1>3. QED
  BY <1>2

LEMMA MetListed ==
    ASSUME NEW disk, Cells(disk)
    PROVE  Listed(DumpsMet(disk), disk, 0)
<1> DEFINE entry(o) == IF HeaderAt(disk, o).type = "dump"
                       THEN << <<o, HeaderAt(disk, o).record>> >> ELSE <<>>
           D(f) == [o \in Offsets \cup {Size} |->
                      IF IsHeader(disk, o)
                      THEN entry(o) \o f[o + HeaderAt(disk, o).length] ELSE <<>>]
           pick(o) == CHOOSE s : Listed(s, disk, o)
           f == [o \in Places |-> pick(o)]
           met == CHOOSE g : g = D(g)
<1>1. ASSUME NEW o \in Places PROVE Listed(pick(o), disk, o)
  BY ListedExists, Zenon
<1>2. ASSUME NEW o \in Places, NEW s, Listed(s, disk, o) PROVE s = pick(o)
  <2>1. PICK t : t = pick(o)
    OBVIOUS
  <2>2. Listed(t, disk, o)
    BY <1>1, <2>1, Zenon
  <2>3. s = t
    BY <1>2, <2>2, SortedOnce DEF Listed
  <2>4. QED
    BY <2>1, <2>3, Zenon
<1>3. ASSUME NEW o \in Places
      PROVE  /\ IsHeader(disk, o) => f[o] = EntryAt(disk, o) \o f[Follower(disk, o)]
             /\ ~IsHeader(disk, o) => f[o] = <<>>
  <2> HIDE DEF pick
  <2>1. f[o] = pick(o)
    OBVIOUS
  <2>2. CASE ~IsHeader(disk, o)
    BY <1>2, <2>1, <2>2, ListedUnfolds
  <2>3. CASE IsHeader(disk, o)
    <3>1. Follower(disk, o) \in Places
      BY <2>3, ListedUnfolds
    <3>2. f[Follower(disk, o)] = pick(Follower(disk, o))
      BY <3>1
    <3>3. Listed(f[Follower(disk, o)], disk, Follower(disk, o))
      BY <1>1, <3>1, <3>2
    <3>4. Listed(EntryAt(disk, o) \o f[Follower(disk, o)], disk, o)
      BY <2>3, <3>3, ListedUnfolds
    <3>5. QED
      BY <1>2, <2>1, <2>3, <3>4
  <2>4. QED
    BY <2>2, <2>3
<1> HIDE DEF pick
<1>4. f = D(f)
  <2>1. ASSUME NEW o \in Places
        PROVE  f[o] = IF IsHeader(disk, o)
                      THEN entry(o) \o f[o + HeaderAt(disk, o).length] ELSE <<>>
    <3> HIDE DEF f
    <3>1. CASE IsHeader(disk, o)
      BY <1>3, <3>1, Zenon DEF EntryAt, Follower
    <3>2. CASE ~IsHeader(disk, o)
      BY <1>3, <3>2, Zenon
    <3>3. QED
      BY <3>1, <3>2
  <2>2. QED
    BY <2>1, Zenon DEF Places
<1>5. met = D(met)
  BY <1>4, Zenon
<1>6. DumpsMet(disk) = met[0]
  BY Zenon DEF DumpsMet
<1> HIDE DEF met
<1>7. ASSUME NEW o \in Places
      PROVE  /\ IsHeader(disk, o) => met[o] = EntryAt(disk, o) \o met[Follower(disk, o)]
             /\ ~IsHeader(disk, o) => met[o] = <<>>
  <2>1. met[o] = IF IsHeader(disk, o)
                 THEN entry(o) \o met[o + HeaderAt(disk, o).length] ELSE <<>>
    BY <1>5, Zenon DEF Places
  <2>2. QED
    BY <2>1, Zenon DEF EntryAt, Follower
<1> DEFINE B == {x \in Places : ~Listed(met[x], disk, x)}
<1>8. ASSUME NEW x \in B PROVE \E p \in B : x < p
  <2>1. IsHeader(disk, x)
    BY <1>7, <1>8, ListedUnfolds
  <2>2. Follower(disk, x) \in Places /\ x < Follower(disk, x)
    BY <1>8, <2>1, ListedUnfolds
  <2>3. Follower(disk, x) \in B
    BY <1>7, <1>8, <2>1, <2>2, ListedUnfolds
  <2>4. QED
    BY <2>2, <2>3
<1>9. B = {}
  BY <1>8, NoneFails
<1>10. 0 \in Places
  BY RingNumbers
<1>11. QED
  BY <1>6, <1>9, <1>10

\* The scan turns the index so that it begins with the oldest dump.
LEMMA RotatedShifts ==
    ASSUME NEW index \in Seq(Entries), Sorted(index, 0), NEW cursor \in Nat,
           \/ cursor = 0
           \/ \A e \in Content(index) : e[1] # cursor
    PROVE  /\ Rotated(index, cursor) \in Seq(Entries)
           /\ Sorted(Rotated(index, cursor), cursor)
           /\ Content(Rotated(index, cursor)) = Content(index)
<1> DEFINE L == Len(index)
<1>1. L \in Nat
  OBVIOUS
<1>2. ASSUME NEW i \in 1..L
      PROVE  index[i][1] \in Nat /\ index[i] \in Content(index)
             /\ \A j \in 1..L : i < j => index[i][1] < index[j][1]
  <2>1. ASSUME NEW j \in 1..L, i < j PROVE index[i][1] < index[j][1]
    <3>1. index[i][1] \in Nat /\ index[j][1] \in Nat
      BY EntryOffset
    <3>2. Precedes(0, index[i][1], index[j][1])
      BY <2>1 DEF Sorted
    <3>3. QED
      BY <3>1, <3>2 DEF Precedes
  <2>2. index[i][1] \in Nat
    BY EntryOffset
  <2>3. QED
    BY <2>1, <2>2 DEF Content
<1>3. CASE ~(index # <<>> /\ cursor < index[L][1])
  <2>1. Rotated(index, cursor) = index
    BY <1>3 DEF Rotated
  <2>2. ASSUME NEW i \in 1..L, NEW j \in 1..L, i < j
        PROVE  Precedes(cursor, index[i][1], index[j][1])
    <3>1. L \in 1..L /\ index # <<>>
      BY <1>1, <2>2
    <3>2. index[L][1] \in Nat /\ ~(cursor < index[L][1])
      BY <1>2, <1>3, <3>1
    <3>3. j # L => index[j][1] < index[L][1]
      BY <1>1, <1>2, <2>2, <3>1
    <3>4. /\ index[i][1] \in Nat /\ index[j][1] \in Nat
          /\ index[i][1] < index[j][1] /\ index[j] \in Content(index)
      BY <1>2, <2>2
    <3>5. index[j][1] <= cursor /\ cursor # 0
      BY <3>2, <3>3, <3>4
    <3>6. index[j][1] # cursor
      BY <3>4, <3>5
    <3>7. index[j][1] < cursor
      BY <3>4, <3>5, <3>6
    <3>8. QED
      BY <3>4, <3>7 DEF Precedes
  <2>3. QED
    BY <2>1, <2>2 DEF Sorted
<1>4. CASE index # <<>> /\ cursor < index[L][1]
  <2> DEFINE S == {i \in 1..L : index[i][1] >= cursor}
             least == CHOOSE x \in S : \A y \in S : x <= y
  <2>1. \E x \in S : \A y \in S : x <= y
    <3>1. L \in 1..L
      BY <1>1, <1>4
    <3>2. index[L][1] \in Nat /\ index[L][1] >= cursor
      BY <1>2, <1>4, <3>1
    <3>3. L \in S /\ S \in SUBSET Nat
      BY <1>1, <3>1, <3>2
    <3>4. QED
      BY <3>3, LeastExists
  <2>2. least \in S /\ \A y \in S : least <= y
    BY <2>1, Zenon
  <2>3. Rotated(index, cursor) =
           SubSeq(index, least, L) \o SubSeq(index, 1, least - 1)
    BY <1>4, Zenon DEF Rotated, Least
  <2> HIDE DEF least
  <2>4. PICK k : k = least
    OBVIOUS
  <2>5. /\ k \in 1..L /\ k \in Nat /\ index[k][1] >= cursor
        /\ \A i \in 1..L : i < k => index[i][1] < cursor
    <3>1. k \in S /\ \A y \in S : k <= y
      BY <2>2, <2>4
    <3>2. ASSUME NEW i \in 1..L, i < k PROVE index[i][1] < cursor
      <4>1. i \notin S /\ index[i][1] \in Nat
        BY <1>1, <1>2, <3>1, <3>2
      <4>2. QED
        BY <4>1
    <3>3. QED
      BY <3>1, <3>2
  <2>6. PICK m : m = L - (k - 1)
    OBVIOUS
  <2>7. PICK t : t = Rotated(index, cursor)
    OBVIOUS
  <2>8. PICK late : late = SubSeq(index, k, L)
    OBVIOUS
  <2>9. PICK early : early = SubSeq(index, 1, k - 1)
    OBVIOUS
  <2>10. /\ late \in Seq(Entries) /\ Len(late) = m
         /\ \A i \in 1..m : late[i] = index[(k - 1) + i]
    BY <1>1, <2>5, <2>6, <2>8
  <2>11. /\ early \in Seq(Entries) /\ Len(early) = k - 1
         /\ \A i \in 1..(k - 1) : early[i] = index[i]
    BY <1>1, <2>5, <2>9
  <2>12. t = late \o early
    <3>1. /\ Rotated(index, cursor) = SubSeq(index, k, L) \o SubSeq(index, 1, k - 1)
      BY <2>3, <2>4, Zenon
    <3>2. QED
      BY <2>7, <2>8, <2>9, <3>1, Zenon
  <2>13. m \in Nat /\ m + (k - 1) = L /\ (k - 1) + m = L
    <3>1. PICK l : l = L
      OBVIOUS
    <3>2. l \in Nat /\ k \in 1..l /\ m = l - (k - 1)
      BY <1>1, <2>5, <2>6, <3>1
    <3>3. m \in Nat /\ m + (k - 1) = l /\ (k - 1) + m = l
      BY ONLY <3>2
    <3>4. QED
      BY <3>1, <3>3
  <2>14. /\ t \in Seq(Entries) /\ Len(t) = L
         /\ \A i \in 1..m : t[i] = late[i]
         /\ \A i \in 1..(k - 1) : t[m + i] = early[i]
    BY <2>5, <2>10, <2>11, <2>12, <2>13
  <2>15. ASSUME NEW i \in 1..L
         PROVE  /\ i <= m => /\ (k - 1) + i \in 1..L /\ t[i] = index[(k - 1) + i]
                             /\ t[i][1] \in Nat /\ t[i][1] >= cursor
                /\ ~(i <= m) => /\ i - m \in 1..(k - 1) /\ i - m \in 1..L
                                /\ t[i] = index[i - m]
                                /\ t[i][1] \in Nat /\ t[i][1] < cursor
    <3>1. CASE i <= m
      <4>1. i \in 1..m /\ (k - 1) + i \in 1..L /\ k <= (k - 1) + i
        BY <1>1, <2>5, <2>13, <3>1
      <4>2. t[i] = index[(k - 1) + i]
        BY <2>10, <2>14, <4>1
      <4>3. PICK j : j = (k - 1) + i
        OBVIOUS
      <4>4. j \in 1..L /\ k <= j /\ t[i] = index[j]
        BY <4>1, <4>2, <4>3
      <4>5. index[j][1] \in Nat /\ index[k][1] \in Nat /\ (j # k => index[k][1] < index[j][1])
        BY <1>2, <2>5, <4>4
      <4>6. index[j][1] >= cursor
        BY <2>5, <4>5
      <4>7. QED
        BY <3>1, <4>1, <4>2, <4>4, <4>5, <4>6
    <3>2. CASE ~(i <= m)
      <4>1. i - m \in 1..(k - 1) /\ i - m \in 1..L /\ i - m < k /\ m + (i - m) = i
        BY <1>1, <2>5, <2>13, <3>2
      <4>2. t[i] = index[i - m]
        BY <2>11, <2>14, <4>1
      <4>3. index[i - m][1] \in Nat /\ index[i - m][1] < cursor
        BY <1>2, <2>5, <4>1
      <4>4. QED
        BY <3>2, <4>1, <4>2, <4>3
    <3>3. QED
      BY <3>1, <3>2
  <2>16. ASSUME NEW i \in 1..L, NEW j \in 1..L, i < j
         PROVE  Precedes(cursor, t[i][1], t[j][1])
    <3>1. CASE j <= m
      <4>1. i <= m /\ (k - 1) + i < (k - 1) + j
        BY <2>5, <2>13, <2>16, <3>1
      <4>2. index[(k - 1) + i][1] < index[(k - 1) + j][1]
        BY <1>2, <2>15, <3>1, <4>1
      <4>3. QED
        BY <2>15, <3>1, <4>1, <4>2 DEF Precedes
    <3>2. CASE ~(j <= m) /\ i <= m
      BY <2>15, <3>2 DEF Precedes
    <3>3. CASE ~(j <= m) /\ ~(i <= m)
      <4>1. i - m < j - m
        BY <2>13, <2>16
      <4>2. index[i - m][1] < index[j - m][1]
        BY <1>2, <2>15, <3>3, <4>1
      <4>3. QED
        BY <2>15, <3>3, <4>2 DEF Precedes
    <3>4. QED
      BY <3>1, <3>2, <3>3
  <2>17. ASSUME NEW i \in 1..L PROVE index[i] \in Content(t)
    <3>1. CASE i < k
      <4>1. i \in 1..(k - 1) /\ m + i \in 1..L
        BY <2>5, <2>13, <3>1
      <4>2. t[m + i] = index[i]
        BY <2>11, <2>14, <4>1
      <4>3. QED
        BY <2>14, <4>1, <4>2 DEF Content
    <3>2. CASE ~(i < k)
      <4>1. i - (k - 1) \in 1..m /\ (k - 1) + (i - (k - 1)) = i
            /\ i - (k - 1) \in 1..L
        BY <1>1, <2>5, <2>13, <3>2
      <4>2. t[i - (k - 1)] = index[i]
        BY <2>10, <2>14, <4>1
      <4>3. QED
        BY <2>14, <4>1, <4>2 DEF Content
    <3>3. QED
      BY <3>1, <3>2
  <2>18. ASSUME NEW i \in 1..L PROVE t[i] \in Content(index)
    BY <2>15 DEF Content
  <2>19. Content(t) = Content(index)
    BY <2>14, <2>17, <2>18 DEF Content
  <2>20. Sorted(t, cursor)
    BY <2>14, <2>16 DEF Sorted
  <2>21. QED
    BY <2>7, <2>14, <2>19, <2>20
<1>5. QED
  BY <1>3, <1>4

\* The index that a scan finds is that of the dumps in the ring.
LEMMA ScanLists ==
    ASSUME NEW disk, Cells(disk), NEW cursor \in Nat, NEW l \in Offsets,
           Ring(disk, cursor), Newest(disk, cursor, l, Rec(disk, l))
    PROVE  LET scan == Scan(disk, Unscanned)
           IN  /\ scan.cdorb \in Seq(Entries)
               /\ Lists(scan.cdorb, disk, scan.cursor)
<1>1. PICK s : s = Scan(disk, Unscanned)
  OBVIOUS
<1>2. PICK met : met = DumpsMet(disk)
  OBVIOUS
<1>3. met \in Seq(Entries) /\ Sorted(met, 0) /\ Content(met) = DumpEntries(disk)
  <2>1. Listed(met, disk, 0)
    BY <1>2, MetListed
  <2>2. DumpsFrom(disk, 0) = DumpEntries(disk)
    BY DEF DumpsFrom, DumpEntries, Dumps, Scanned
  <2>3. QED
    BY <2>1, <2>2 DEF Listed
<1>4. s.cdorb = Rotated(met, s.cursor)
  <2>1. Unscanned.cdorb = <<>> /\ <<>> \o met = met
    BY <1>3 DEF Unscanned
  <2>2. QED
    BY <1>1, <1>2, <2>1 DEF Scan
<1>5. s.cursor \in Nat /\ (s.cursor = 0 \/ s.cursor \notin Events(disk))
  <2>1. s.cursor \in 0..(Size - HeaderSize)
    BY <1>1, ScanFinds
  <2>2. CASE Events(disk) # {}
    <3>1. s.cursor = IF Follower(disk, l) = Size THEN 0 ELSE Follower(disk, l)
      BY <1>1, <2>2, ScanFinds
    <3>2. Follower(disk, l) \notin Events(disk)
      BY <2>2 DEF Newest
    <3>3. QED
      BY <2>1, <3>1, <3>2, EventRingAssumption
  <2>3. QED
    BY <2>1, <2>2, EventRingAssumption
<1>6. ASSUME NEW e \in Content(met) PROVE e[1] \in Events(disk)
  <2>1. PICK o \in Dumps(disk) : e = <<o, Rec(disk, o)>>
    BY <1>3 DEF DumpEntries
  <2>2. QED
    BY <2>1, DumpKind
<1>7. /\ s.cdorb \in Seq(Entries)
      /\ Sorted(s.cdorb, s.cursor)
      /\ Content(s.cdorb) = Content(met)
  BY <1>3, <1>4, <1>5, <1>6, RotatedShifts
<1>8. QED
  BY <1>1, <1>3, <1>7, ListsSorted

-----------------------------------------------------------------------------
(* The thread's index is that of the ring, and when it has written what was *)
(* queued its cursor is behind the newest event.                            *)

IndexInv ==
    ~torn /\ Up =>
      /\ cdorb \in Seq(Entries)
      /\ Lists(cdorb, erb, recordcursor)
      /\ write_q = <<>> =>
            Events(erb) # {} /\ Follower(erb, lastrecord) = recordcursor

LEMMA IndexWritten ==
    ASSUME Whole, IndexInv, ~torn, Up, EmptyWriteQ
    PROVE  IndexInv'
<1> DEFINE n == Fitting(write_q)
           stop == EndOfPad(n, Placed(write_q)[n + 1])
           cursor == IF Wraps(n) THEN 0 ELSE Placed(write_q)[n + 1]
           last == IF n = 0 THEN lastrecord ELSE Placed(write_q)[n]
<1>1. /\ recordcursor' = cursor
      /\ lastrecord' = last
      /\ write_q' = SubSeq(write_q, n + 1, Len(write_q))
      /\ Wrote(erb', n, stop)
      /\ cdorb' = Indexed(n, stop)
      /\ write_q # <<>>
  BY DEF EmptyWriteQ, Advance, Writing, Wrote
<1>2. PICK disk : disk = erb'
  OBVIOUS
<1>3. Turned(n, stop, disk, cursor)
  BY <1>1, <1>2 DEF Turned, Wrote
<1>4. cdorb' \in Seq(Entries) /\ Lists(cdorb', disk, cursor)
  <2>1. cdorb \in Seq(Entries) /\ Lists(cdorb, erb, recordcursor)
    BY DEF IndexInv
  <2>2. QED
    BY <1>1, <1>3, <2>1, IndexKept
<1>5. PICK m : m = n
  OBVIOUS
<1>6. /\ m \in Nat /\ m \in 0..Len(write_q)
      /\ Len(write_q) \in Nat /\ Len(write_q) > 0
      /\ \/ Wraps(m) /\ m < Len(write_q)
         \/ ~Wraps(m) /\ m = Len(write_q) /\ cursor = Placed(write_q)[m + 1]
  BY <1>3, <1>5, TurnPlaces
<1>7. ASSUME write_q' = <<>>
      PROVE  Events(disk) # {} /\ Follower(disk, last) = cursor
  <2>1. write_q \in Seq(Queued)
    BY DEF Whole, QueueOK
  <2>2. Len(write_q') = Len(write_q) - m
    BY <1>1, <1>5, <1>6, <2>1
  <2>3. m = Len(write_q) /\ m # 0 /\ m \in 1..m
    <3>1. Len(write_q') = 0
      BY <1>7
    <3>2. QED
      BY <1>6, <2>2, <3>1
  <2>4. cursor = Placed(write_q)[m + 1] /\ last = Placed(write_q)[m]
    BY <1>5, <1>6, <2>3
  <2>5. /\ Placed(write_q)[m] \in Events(disk)
        /\ Follower(disk, Placed(write_q)[m]) = Placed(write_q)[m + 1]
    BY <1>3, <1>5, <2>3, TurnEvents
  <2>6. QED
    BY <2>4, <2>5
<1>8. QED
  BY <1>1, <1>2, <1>4, <1>7 DEF IndexInv

LEMMA IndexOpened ==
    ASSUME RingInv, ~torn, StartUp
    PROVE  IndexInv'
<1>1. PICK cursor \in Nat, last \in Offsets :
         /\ Ring(erb, cursor)
         /\ Newest(erb, cursor, last, Rec(erb, last))
  BY DEF RingInv, StartUp
<1>2. PICK s : s = Scan(erb, Unscanned)
  OBVIOUS
<1>3. s.cdorb \in Seq(Entries) /\ Lists(s.cdorb, erb, s.cursor)
  BY <1>1, <1>2, ScanLists DEF RingInv
<1>4. /\ cdorb' = s.cdorb /\ recordcursor' = s.cursor /\ erb' = erb
      /\ write_q' = <<[type |-> "dump", record |-> s.record,
                       length |-> HeaderSize]>>
  BY <1>2 DEF StartUp, Open
<1>5. write_q' # <<>>
  BY <1>4
<1>6. QED
  BY <1>3, <1>4, <1>5 DEF IndexInv

LEMMA IndexInvNext == RingInv /\ IndexInv /\ [Next]_vars => IndexInv'
<1> SUFFICES ASSUME RingInv, IndexInv, [Next]_vars, ~torn', Up' PROVE IndexInv'
  BY DEF IndexInv
<1>1. ~torn
  BY DEF Next, vars, QueueWriteEvent, EmptyWriteQ, WriteRaises, Ends, EndsTorn,
         StartUp, StartUpAnew
<1>2. Up => Whole
  BY <1>1 DEF RingInv
<1>3. CASE QueueWriteEvent
  <2>1. /\ Up /\ erb' = erb /\ cdorb' = cdorb /\ recordcursor' = recordcursor
        /\ write_q' # <<>>
    BY <1>2, <1>3 DEF QueueWriteEvent, Up, Whole, QueueOK
  <2>2. QED
    BY <1>1, <2>1 DEF IndexInv
<1>4. CASE EmptyWriteQ
  <2>1. Up
    BY <1>4 DEF EmptyWriteQ, Writing
  <2>2. QED
    BY <1>1, <1>2, <1>4, <2>1, IndexWritten
<1>5. CASE WriteRaises
  <2>1. Up
    BY <1>5 DEF WriteRaises, Writing
  <2>2. QED
    BY <1>2, <1>5, <2>1, WholeWrites
<1>6. CASE Ends
  BY <1>6 DEF Ends, Forget, Up
<1>7. CASE EndsTorn
  BY <1>7 DEF EndsTorn
<1>8. CASE StartUp
  BY <1>1, <1>8, IndexOpened
<1>9. CASE StartUpAnew
  <2>1. pc = "down" /\ ScanMayRaise(erb)
    BY <1>9 DEF StartUpAnew
  <2>2. PICK cursor \in Nat : Cells(erb) /\ Ring(erb, cursor)
    BY <1>1, <2>1 DEF RingInv
  <2>3. QED
    BY <2>1, <2>2, WholeScans
<1>10. CASE UNCHANGED vars
  BY <1>1, <1>10 DEF vars, IndexInv, Up
<1>11. QED
  BY <1>3, <1>4, <1>5, <1>6, <1>7, <1>8, <1>9, <1>10 DEF Next

LEMMA IndexInvariant == Spec => [](RingInv /\ IndexInv)
<1>1. Init => IndexInv
  BY DEF Init, IndexInv, Up
<1>2. QED
  BY <1>1, IndexInvNext, RingInvariant, PTL DEF Spec

\* What the code's own account of cdorb says, file_logger_storage_manager.py
\* lines 83-90: the index that the thread keeps as it writes, or makes from a
\* scan, lists the dumps that are in the ring, every one and no other, oldest
\* first, whatever was overwritten.
THEOREM IndexStaysExact == Spec => []IndexExact
<1>1. IndexInv => IndexExact
  BY DEF IndexInv, IndexExact
<1>2. QED
  BY <1>1, IndexInvariant, PTL

\* A thread that has written what was queued could die: the scan that follows
\* finds the record number, the newest event, the cursor and the index that
\* it had.
THEOREM RestartFindsAll == Spec => []ScanAgrees
<1>1. RingInv /\ IndexInv => ScanAgrees
  <2> SUFFICES ASSUME RingInv, IndexInv, ~torn, Up, write_q = <<>>,
                      NEW s, s = Scan(erb, Unscanned)
               PROVE  /\ s.record = record
                      /\ s.last = lastrecord
                      /\ s.cdorb = cdorb
                      /\ s.cursor = recordcursor
    BY DEF ScanAgrees
  <2>1. Whole /\ Cells(erb) /\ Ring(erb, recordcursor)
    BY DEF RingInv, Whole
  <2>2. Events(erb) # {} /\ Follower(erb, lastrecord) = recordcursor
    BY DEF IndexInv
  <2>3. /\ lastrecord \in Offsets /\ recordcursor \in 0..(Size - HeaderSize)
        /\ recordcursor \in Nat /\ recordcursor # Size
    BY <2>1, EventRingAssumption DEF Whole, QueueOK
  <2>4. /\ Newest(erb, recordcursor, lastrecord, Rec(erb, lastrecord))
        /\ Rec(erb, lastrecord) = Top
    BY <2>1, <2>2 DEF Whole, Newest
  <2>5. /\ s.last = lastrecord
        /\ s.record = Rec(erb, lastrecord) + 1
        /\ s.cursor = recordcursor
    BY <2>1, <2>2, <2>3, <2>4, ScanFinds
  <2>6. Rec(erb, lastrecord) + 1 = record
    <3>1. Len(write_q) = 0 /\ record \in Nat
      BY <2>1 DEF Whole, Numbered
    <3>2. Top + 1 = record
      BY <3>1 DEF Top
    <3>3. QED
      BY <2>4, <3>2
  <2>7. s.cdorb = cdorb
    <3>1. s.cdorb \in Seq(Entries) /\ Lists(s.cdorb, erb, recordcursor)
      BY <2>1, <2>3, <2>4, <2>5, ScanLists
    <3>2. cdorb \in Seq(Entries) /\ Lists(cdorb, erb, recordcursor)
      BY DEF IndexInv
    <3>3. QED
      BY <2>3, <3>1, <3>2, ListsSorted, SortedOnce
  <2>8. QED
    BY <2>5, <2>6, <2>7
<1>2. QED
  BY <1>1, IndexInvariant, PTL
=============================================================================
