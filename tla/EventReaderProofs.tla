-------------------------- MODULE EventReaderProofs -------------------------
(***************************************************************************)
(* Theorems about EventReader, on top of those about the ring it reads.    *)
(*                                                                         *)
(* A reader goes from header to header, whether or not what it finds there *)
(* still belongs to the ring.  So these proofs are about traces: whatever  *)
(* reads as an event is one of the ring, or was left behind a pad and is   *)
(* older than all of those.  From a trace the next one, in either          *)
(* direction, has the record next to it, or reading ends.  A walk thus     *)
(* counts records: it is at the record it was to go to, or it has ended.   *)
(***************************************************************************)
EXTENDS EventReader, EventRingProofs

-----------------------------------------------------------------------------
(* What can be read of the ring.                                           *)

\* The offsets that read as an event, of the ring or left behind a pad.
Traces(disk) == {o \in Offsets : HeaderAt(disk, o).type \in EventTypes}

LEMMA TraceKind ==
    ASSUME NEW disk, Cells(disk), NEW o \in Traces(disk)
    PROVE  /\ o \in Offsets /\ o \in Nat /\ IsHeader(disk, o)
           /\ HeaderAt(disk, o) # NoHeader
           /\ HeaderAt(disk, o).type # "pad"
           /\ Rec(disk, o) \in Nat /\ Rec(disk, o) > 0
           /\ Follower(disk, o) \in Nat /\ o < Follower(disk, o)
           /\ HeaderAt(disk, o).previous \in Offsets
<1>1. /\ o \in Offsets /\ HeaderAt(disk, o).type \in EventTypes
      /\ HeaderAt(disk, o).type # "pad" /\ HeaderAt(disk, o) # NoHeader
  BY DEF Traces, EventTypes, NoHeader
<1>2. o \in Nat /\ o \in Places /\ IsHeader(disk, o)
  BY <1>1, RingNumbers DEF IsHeader
<1>3. HeaderOK(HeaderAt(disk, o))
  BY <1>2, HeaderKind
<1>4. /\ Rec(disk, o) \in Nat /\ Rec(disk, o) # 0
      /\ HeaderAt(disk, o).previous \in Offsets
  BY <1>1, <1>3 DEF HeaderOK, HeaderSet, Rec
<1>5. Follower(disk, o) \in Nat /\ o < Follower(disk, o)
  BY <1>2, CellsSane, FollowerBehind
<1>6. QED
  BY <1>1, <1>2, <1>4, <1>5

LEMMA EventsAreTraces ==
    ASSUME NEW disk
    PROVE  Events(disk) \subseteq Traces(disk)
  BY DEF Events, Scanned, IsHeader, Traces

\* What reads as an event after a write was written by it, or did before, and
\* the write ends before it or begins after it.
LEMMA TracesWritten ==
    ASSUME NEW n, NEW stop, NEW disk, NEW cursor, Turned(n, stop, disk, cursor),
           NEW x \in Traces(disk), \A i \in 1..n : x # Placed(write_q)[i]
    PROVE  /\ x \in Traces(erb)
           /\ HeaderAt(disk, x) = HeaderAt(erb, x)
           /\ \/ x < recordcursor
              \/ Placed(write_q)[n + 1] + HeaderSize <= x
<1>1. PICK upto : upto = Placed(write_q)[n + 1] + HeaderSize
  OBVIOUS
<1>2. PICK H : H = Headers(n, stop)
  OBVIOUS
<1>3. disk = Written(H, upto)
  BY <1>1, <1>2 DEF Turned, Wrote
<1>4. /\ QueueOK /\ Stops(n, stop) /\ n \in Nat /\ n \in 0..Len(write_q)
      /\ HeaderSize \in Nat /\ HeaderSize > 0 /\ Size \in Nat
      /\ recordcursor \in Nat /\ Cells(disk)
  BY TurnPlaces, TurnKeepsRing, EventRingAssumption DEF Turned, Whole
<1>5. /\ x \in Offsets /\ x \in Nat /\ IsHeader(disk, x)
      /\ HeaderAt(disk, x).type \in EventTypes
      /\ HeaderAt(disk, x).type # "pad" /\ HeaderAt(disk, x).type # "none"
  BY <1>4, TraceKind DEF Traces, EventTypes
<1>6. /\ x + HeaderSize <= Size
      /\ \A k \in 0..(HeaderSize - 1) : disk[x + k] = <<HeaderAt(disk, x), k>>
  BY <1>4, <1>5, HeaderKind
<1>7. disk[x] = <<HeaderAt(disk, x), 0>>
  <2>1. 0 \in 0..(HeaderSize - 1) /\ x + 0 = x
    BY <1>4, <1>5
  <2>2. QED
    BY <1>6, <2>1
<1>8. /\ 1 \in 1..(n + 1) /\ n + 1 \in 1..(n + 1)
      /\ Placed(write_q)[1] = recordcursor
      /\ Placed(write_q)[n + 1] \in Nat /\ upto \in Nat
      /\ recordcursor < upto
  <2>1. 1 \in 1..(n + 1) /\ n + 1 \in 1..(n + 1)
    BY <1>4
  <2>2. Placed(write_q)[1] = recordcursor
    BY <1>4, PlacedCounts DEF QueueOK
  <2>3. /\ Placed(write_q)[n + 1] \in Nat
        /\ recordcursor <= Placed(write_q)[n + 1]
    BY <2>1, TurnPlaces
  <2>4. QED
    BY <1>1, <1>4, <2>1, <2>2, <2>3
<1>9. ASSUME NEW i \in 1..(n + 1)
      PROVE  /\ Placed(write_q)[i] \in DOMAIN H
             /\ i = n + 1 => H[Placed(write_q)[i]].type = "pad"
             /\ HeaderAt(disk, Placed(write_q)[i]) = H[Placed(write_q)[i]]
             /\ H[Placed(write_q)[i]] # NoHeader
             /\ Placed(write_q)[i] \in Offsets
  <2>1. RingOK /\ stop \in Chain(erb, 0)
    BY TurnPlaces, WholeRing DEF Turned
  <2>2. HeaderAt(disk, Placed(write_q)[i]) = H[Placed(write_q)[i]]
    BY <1>1, <1>2, <1>3, <1>4, <2>1, ChainWritten
  <2>3. /\ HeaderOK(H[Placed(write_q)[i]])
        /\ i = n + 1 => H[Placed(write_q)[i]].type = "pad"
    BY <1>2, <1>4, HeadersLead
  <2>4. H[Placed(write_q)[i]] # NoHeader
    BY <2>3 DEF HeaderOK, HeaderSet, NoHeader, EventTypes
  <2>5. Placed(write_q)[i] \in DOMAIN H /\ Placed(write_q)[i] \in Offsets
    BY <1>2, <1>4, HeadersWritten, WriteNumbers
  <2>6. QED
    BY <2>2, <2>3, <2>4, <2>5
<1>10. DOMAIN H = {Placed(write_q)[i] : i \in 1..(n + 1)}
  BY <1>2 DEF Headers
<1>11. CASE x + HeaderSize <= recordcursor \/ upto <= x
  <2>1. ASSUME NEW c \in Offsets, x <= c, c < x + HeaderSize
        PROVE  disk[c] = erb[c]
    <3>1. c \in Nat
      BY RingNumbers
    <3>2. c < recordcursor \/ c >= upto
      BY <1>4, <1>5, <1>8, <1>11, <2>1, <3>1
    <3>3. QED
      BY <1>3, <3>2, WrittenOutside
  <2>2. HeaderAt(disk, x) = HeaderAt(erb, x)
    BY <1>5, <2>1, HeaderSame
  <2>3. x \in Traces(erb)
    BY <1>5, <2>2 DEF Traces
  <2>4. x < recordcursor \/ upto <= x
    BY <1>4, <1>5, <1>11
  <2>5. QED
    BY <1>1, <2>2, <2>3, <2>4
<1>12. CASE x < recordcursor /\ recordcursor < x + HeaderSize
  <2>1. PICK k : k = recordcursor - x
    OBVIOUS
  <2>2. k \in 0..(HeaderSize - 1) /\ k # 0 /\ x + k = recordcursor
    BY <1>4, <1>5, <1>12, <2>1
  <2>3. disk[recordcursor] = <<HeaderAt(disk, x), k>>
    BY <1>6, <2>2
  <2>4. IsHeader(disk, recordcursor)
    BY <1>8, <1>9 DEF IsHeader
  <2>5. disk[recordcursor] = <<HeaderAt(disk, recordcursor), 0>>
    <3>1. 0 \in 0..(HeaderSize - 1) /\ recordcursor + 0 = recordcursor
      BY <1>4
    <3>2. \A j \in 0..(HeaderSize - 1) :
             disk[recordcursor + j] = <<HeaderAt(disk, recordcursor), j>>
      BY <1>4, <2>4, HeaderKind
    <3>3. QED
      BY <3>1, <3>2
  <2>6. QED
    BY <2>2, <2>3, <2>5
<1>13. CASE recordcursor <= x /\ x < upto
  <2>1. disk[x] = IF \E o \in DOMAIN H : x - o \in 0..(HeaderSize - 1)
                  THEN LET o == CHOOSE o \in DOMAIN H :
                                   x - o \in 0..(HeaderSize - 1)
                       IN  <<H[o], x - o>>
                  ELSE Body
    BY <1>3, <1>4, <1>5, <1>8, <1>13 DEF Written
  <2>2. disk[x] # Body
    BY <1>5, <1>7 DEF Body, NoHeader
  <2>3. PICK o \in DOMAIN H : x - o \in 0..(HeaderSize - 1)
                              /\ disk[x] = <<H[o], x - o>>
    BY <2>1, <2>2
  <2>4. x - o = 0 /\ H[o] = HeaderAt(disk, x)
    BY <1>7, <2>3
  <2>5. PICK i \in 1..(n + 1) : o = Placed(write_q)[i]
    BY <1>10
  <2>6. o \in Nat
    BY <1>9, <2>5, RingNumbers
  <2>7. x = o
    BY <1>5, <2>4, <2>6
  <2>8. i # n + 1
    BY <1>5, <1>9, <2>4, <2>5
  <2>9. i \in 1..n
    BY <1>4, <2>8
  <2>10. QED
    BY <2>5, <2>7, <2>9
<1>14. QED
  BY <1>4, <1>5, <1>8, <1>11, <1>12, <1>13

-----------------------------------------------------------------------------
(* The traces of the events.                                               *)

\* Nothing is read in a ring without an event; events leave room for a pad.
Bare(disk) ==
    /\ Events(disk) = {} => Traces(disk) = {}
    /\ \A o \in Traces(disk) : Follower(disk, o) + HeaderSize <= Size

\* From one event to what follows it the record goes up by one, or not at all;
RunsUp(disk) ==
    \A o \in Traces(disk) : LET p == Follower(disk, o) IN
        p \in Traces(disk) =>
            Rec(disk, p) = Rec(disk, o) + 1 \/ Rec(disk, p) <= Rec(disk, o)

\* to what it refers back to, down by one or not at all.
RunsDown(disk) ==
    \A o \in Traces(disk) : LET p == HeaderAt(disk, o).previous IN
        p \in Traces(disk) =>
            Rec(disk, o) = Rec(disk, p) + 1 \/ Rec(disk, o) <= Rec(disk, p)

\* What is left behind a pad is behind the events of the ring and older.
LeftBehind(disk) ==
    \A o \in Events(disk), p \in Traces(disk) \ Events(disk) :
        Follower(disk, o) <= p /\ Rec(disk, p) < Rec(disk, o)

\* Between events there is a pad behind the newest only.
PadsLast(disk) ==
    \A o \in Events(disk) : LET p == Follower(disk, o) IN
        p \in Events(disk) \/ Follower(disk, p) = Size
          \/ \A q \in Events(disk) : Rec(disk, q) <= Rec(disk, o)

Traced(disk) ==
    /\ Bare(disk) /\ RunsUp(disk) /\ RunsDown(disk)
    /\ LeftBehind(disk) /\ PadsLast(disk)

\* The pad of a wrap goes to the end of the ring.
WrapPad(disk, cursor, last) ==
    cursor = 0 /\ Events(disk) # {} => Follower(disk, Follower(disk, last)) = Size

TraceInv ==
    ~torn => /\ Traced(erb)
             /\ Up => WrapPad(erb, recordcursor, lastrecord)

\* Before the cursor there are events of the ring only.
LEMMA BeforeCursor ==
    ASSUME Whole, Traced(erb), NEW o \in Traces(erb), o < recordcursor
    PROVE  o \in Events(erb) /\ Follower(erb, lastrecord) = recordcursor
           /\ lastrecord \in Events(erb)
<1>1. /\ Cells(erb) /\ recordcursor \in Nat
      /\ Newest(erb, recordcursor, lastrecord, Top)
  BY RingNumbers, EventRingAssumption DEF Whole, QueueOK
<1>2. o \in Nat
  BY <1>1, TraceKind
<1>3. Events(erb) # {}
  BY DEF Traced, Bare
<1>4. lastrecord \in Events(erb) /\ Follower(erb, lastrecord) = recordcursor
  BY <1>1, <1>2, <1>3 DEF Newest
<1>5. o \notin Events(erb) => recordcursor <= o
  BY <1>4 DEF Traced, LeftBehind
<1>6. QED
  BY <1>1, <1>2, <1>4, <1>5

\* No trace has a record number above the newest event.
LEMMA TracesOld ==
    ASSUME Whole, Traced(erb), NEW o \in Traces(erb)
    PROVE  Rec(erb, o) \in Nat /\ Rec(erb, o) <= Top /\ Top \in Nat
<1>1. /\ Cells(erb) /\ Newest(erb, recordcursor, lastrecord, Top)
      /\ Top \in Nat
  BY WholeRing DEF Whole
<1>2. Rec(erb, o) \in Nat
  BY <1>1, TraceKind
<1>3. Events(erb) # {}
  BY DEF Traced, Bare
<1>4. lastrecord \in Events(erb) /\ Rec(erb, lastrecord) = Top
  BY <1>1, <1>3 DEF Newest
<1>5. CASE o \in Events(erb)
  BY <1>1, <1>2, <1>3, <1>5 DEF Newest
<1>6. CASE o \notin Events(erb)
  BY <1>1, <1>2, <1>4, <1>6 DEF Traced, LeftBehind
<1>7. QED
  BY <1>5, <1>6

\* What is read after a write: the new events, and traces that did not
\* change.
LEMMA TracesAfter ==
    ASSUME NEW n, NEW stop, NEW disk, NEW cursor, Turned(n, stop, disk, cursor),
           Traced(erb), NEW x \in Traces(disk)
    PROVE  \/ \E i \in 1..n :
                 /\ x = Placed(write_q)[i] /\ x \in Events(disk)
                 /\ Rec(disk, x) = Top + i
                 /\ HeaderAt(disk, x).previous = Back(i)
                 /\ Follower(disk, x) = Placed(write_q)[i + 1]
           \/ /\ x \in Traces(erb)
              /\ HeaderAt(disk, x) = HeaderAt(erb, x)
              /\ Rec(disk, x) = Rec(erb, x)
              /\ Follower(disk, x) = Follower(erb, x)
              /\ Rec(disk, x) <= Top
              /\ \/ x < recordcursor
                 \/ Placed(write_q)[n + 1] + HeaderSize <= x
<1>1. CASE \E i \in 1..n : x = Placed(write_q)[i]
  <2>1. PICK i \in 1..n : x = Placed(write_q)[i]
    BY <1>1
  <2>2. /\ Rec(disk, x) = Top + i
        /\ HeaderAt(disk, x).previous = Back(i)
        /\ Follower(disk, x) = Placed(write_q)[i + 1]
        /\ x \in Events(disk)
    BY <2>1, TurnEvents
  <2>3. QED
    BY <2>1, <2>2
<1>2. CASE ~ \E i \in 1..n : x = Placed(write_q)[i]
  <2>1. /\ x \in Traces(erb) /\ HeaderAt(disk, x) = HeaderAt(erb, x)
        /\ x < recordcursor \/ Placed(write_q)[n + 1] + HeaderSize <= x
    BY <1>2, TracesWritten
  <2>2. Rec(erb, x) <= Top
    BY <2>1, TracesOld DEF Turned
  <2>3. QED
    BY <2>1, <2>2 DEF Rec, Follower
<1>3. QED
  BY <1>1, <1>2

LEMMA TurnBare ==
    ASSUME NEW n, NEW stop, NEW disk, NEW cursor, Turned(n, stop, disk, cursor),
           Traced(erb)
    PROVE  Bare(disk)
<1>1. Whole /\ n \in Nat /\ Stops(n, stop) /\ stop \in Nat
  BY TurnPlaces DEF Turned
<1>2. ASSUME Events(disk) = {}, NEW x \in Traces(disk) PROVE FALSE
  <2>1. x \in Traces(erb)
    BY <1>2, TracesAfter
  <2>2. Events(erb) # {}
    BY <2>1 DEF Traced, Bare
  <2>3. n = 0
    <3>1. ASSUME n # 0 PROVE FALSE
      <4>1. n \in 1..n
        BY <1>1, <3>1
      <4>2. QED
        BY <1>2, <4>1, TurnEvents
    <3>2. QED
      BY <3>1
  <2>4. lastrecord \in Survivors(stop)
    BY <2>2, <2>3, TurnKeepsNewest
  <2>5. QED
    BY <1>2, <2>4, TurnEvents
<1>3. ASSUME NEW x \in Traces(disk) PROVE Follower(disk, x) + HeaderSize <= Size
  <2>1. CASE \E i \in 1..n : Follower(disk, x) = Placed(write_q)[i + 1]
    <3>1. PICK i \in 1..n : Follower(disk, x) = Placed(write_q)[i + 1]
      BY <2>1
    <3>2. i + 1 \in 1..(n + 1) /\ i + 1 <= n + 1 /\ n + 1 \in 1..(n + 1)
      BY <1>1
    <3>3. /\ Placed(write_q)[i + 1] \in Nat /\ Placed(write_q)[n + 1] \in Nat
          /\ i + 1 < n + 1 =>
                Placed(write_q)[i + 1] < Placed(write_q)[n + 1]
      BY <3>2, TurnPlaces
    <3>4. /\ Placed(write_q)[n + 1] + HeaderSize <= stop /\ stop <= Size
          /\ HeaderSize \in Nat /\ Size \in Nat
      BY <1>1, EventRingAssumption DEF Stops
    <3>5. PICK m : m = i + 1
      OBVIOUS
    <3>6. Placed(write_q)[m] <= Placed(write_q)[n + 1]
      BY <3>2, <3>3, <3>5
    <3>7. QED
      BY <1>1, <3>1, <3>3, <3>4, <3>5, <3>6
  <2>2. CASE x \in Traces(erb) /\ Follower(disk, x) = Follower(erb, x)
    BY <2>2 DEF Traced, Bare
  <2>3. QED
    BY <2>1, <2>2, TracesAfter
<1>4. QED
  BY <1>2, <1>3 DEF Bare

LEMMA TurnRunsUp ==
    ASSUME NEW n, NEW stop, NEW disk, NEW cursor, Turned(n, stop, disk, cursor),
           Traced(erb)
    PROVE  RunsUp(disk)
<1>1. /\ Whole /\ RingOK /\ Top \in Nat /\ Cells(erb) /\ Cells(disk)
      /\ n \in Nat /\ recordcursor \in Nat
      /\ HeaderSize \in Nat /\ HeaderSize > 0
  BY WholeRing, TurnPlaces, TurnKeepsRing, EventRingAssumption
     DEF Turned, Whole
<1>2. SUFFICES ASSUME NEW o \in Traces(disk), NEW p \in Traces(disk),
                      p = Follower(disk, o)
               PROVE  \/ Rec(disk, p) = Rec(disk, o) + 1
                      \/ Rec(disk, p) <= Rec(disk, o)
  BY DEF RunsUp
<1>3. /\ o \in Nat /\ p \in Nat /\ o < p
      /\ Rec(disk, o) \in Nat /\ Rec(disk, p) \in Nat
  BY <1>1, <1>2, TraceKind
<1>4. CASE \E i \in 1..n : /\ o = Placed(write_q)[i] /\ Rec(disk, o) = Top + i
                          /\ Follower(disk, o) = Placed(write_q)[i + 1]
  <2>1. PICK i \in 1..n :
           /\ Rec(disk, o) = Top + i /\ p = Placed(write_q)[i + 1]
    BY <1>2, <1>4
  <2>2. i \in Nat /\ i > 0 /\ i + 1 \in 1..(n + 1)
    BY <1>1
  <2>3. CASE i + 1 \in 1..n
    <3>1. Rec(disk, p) = Top + (i + 1)
      BY <2>1, <2>3, TurnEvents
    <3>2. QED
      BY <1>1, <2>1, <2>2, <3>1
  <2>4. CASE i + 1 \notin 1..n
    <3>1. i + 1 = n + 1
      BY <1>1, <2>2, <2>4
    <3>2. p = Placed(write_q)[n + 1]
      BY <2>1, <3>1
    <3>3. CASE \E j \in 1..n : p = Placed(write_q)[j]
      <4>1. PICK j \in 1..n : p = Placed(write_q)[j]
        BY <3>3
      <4>2. j \in 1..(n + 1) /\ n + 1 \in 1..(n + 1) /\ j < n + 1
        BY <1>1
      <4>3. Placed(write_q)[j] < Placed(write_q)[n + 1]
        BY <4>2, TurnPlaces
      <4>4. QED
        BY <1>3, <3>2, <4>1, <4>3
    <3>4. CASE Rec(disk, p) <= Top
      BY <1>1, <1>3, <2>1, <2>2, <3>4
    <3>5. QED
      BY <3>3, <3>4, TracesAfter
  <2>5. QED
    BY <2>3, <2>4
<1>5. CASE /\ o \in Traces(erb) /\ Rec(disk, o) = Rec(erb, o)
           /\ Follower(disk, o) = Follower(erb, o)
           /\ o < recordcursor \/ Placed(write_q)[n + 1] + HeaderSize <= o
  <2>1. CASE \E i \in 1..n : p = Placed(write_q)[i] /\ Rec(disk, p) = Top + i
    <3>1. PICK i \in 1..n : p = Placed(write_q)[i] /\ Rec(disk, p) = Top + i
      BY <2>1
    <3>2. i \in 1..(n + 1) /\ n + 1 \in 1..(n + 1) /\ i < n + 1 /\ 1 \in 1..(n + 1)
      BY <1>1
    <3>3. /\ p < Placed(write_q)[n + 1] /\ Placed(write_q)[n + 1] \in Nat
          /\ recordcursor <= p
          /\ 1 < i => Placed(write_q)[1] < p
      BY <3>1, <3>2, TurnPlaces
    <3>4. o < recordcursor
      BY <1>1, <1>3, <1>5, <3>3
    <3>5. /\ o \in Events(erb) /\ lastrecord \in Events(erb)
          /\ Follower(erb, lastrecord) = recordcursor
      BY <1>1, <1>5, <3>4, BeforeCursor
    <3>6. o \in Chain(erb, 0) /\ lastrecord \in Chain(erb, 0)
          /\ recordcursor \in Chain(erb, 0) /\ Sane(erb) /\ 0 \in Places
          /\ o \in Nat /\ lastrecord \in Nat
          /\ o < Follower(erb, o) /\ lastrecord < recordcursor
      BY <1>1, <3>5, EventKind, CellsSane, RingNumbers DEF RingOK
    <3>7. Follower(erb, o) <= recordcursor
      BY <1>1, <3>4, <3>6, ChainOrdered
    <3>8. p = recordcursor
      BY <1>1, <1>2, <1>3, <1>5, <3>3, <3>7
    <3>9. Placed(write_q)[1] = recordcursor
      BY <1>1, PlacedCounts DEF RingOK, QueueOK
    <3>10. i = 1
      BY <1>1, <3>2, <3>3, <3>8, <3>9
    <3>11. o = lastrecord
      <4>1. o < lastrecord => Follower(erb, o) <= lastrecord
        BY <3>6, ChainOrdered
      <4>2. lastrecord < o => Follower(erb, lastrecord) <= o
        BY <3>6, ChainOrdered
      <4>3. Follower(erb, o) = recordcursor
        BY <1>2, <1>5, <3>8
      <4>4. QED
        BY <1>1, <3>4, <3>5, <3>6, <4>1, <4>2, <4>3
    <3>12. Rec(erb, o) = Top
      BY <1>1, <3>5, <3>11 DEF Whole, Newest
    <3>13. QED
      BY <1>1, <1>5, <3>1, <3>10, <3>12
  <2>2. CASE p \in Traces(erb) /\ Rec(disk, p) = Rec(erb, p)
    BY <1>2, <1>5, <2>2 DEF Traced, RunsUp
  <2>3. QED
    BY <2>1, <2>2, TracesAfter
<1>6. QED
  BY <1>4, <1>5, TracesAfter

LEMMA TurnRunsDown ==
    ASSUME NEW n, NEW stop, NEW disk, NEW cursor, Turned(n, stop, disk, cursor),
           Traced(erb)
    PROVE  RunsDown(disk)
<1>1. /\ Whole /\ Top \in Nat /\ Cells(erb) /\ Cells(disk) /\ n \in Nat
  BY WholeRing, TurnPlaces, TurnKeepsRing DEF Turned, Whole
<1>2. SUFFICES ASSUME NEW o \in Traces(disk), NEW p \in Traces(disk),
                      p = HeaderAt(disk, o).previous
               PROVE  \/ Rec(disk, o) = Rec(disk, p) + 1
                      \/ Rec(disk, o) <= Rec(disk, p)
  BY DEF RunsDown
<1>3. Rec(disk, o) \in Nat /\ Rec(disk, p) \in Nat
  BY <1>1, <1>2, TraceKind
<1>4. CASE \E i \in 1..n : Rec(disk, o) = Top + i /\ p = Back(i)
  <2>1. PICK i \in 1..n : Rec(disk, o) = Top + i /\ p = Back(i)
    BY <1>4
  <2>2. i \in Nat /\ i > 0
    BY <1>1
  <2>3. CASE i # 1
    <3>1. i - 1 \in 1..n /\ p = Placed(write_q)[i - 1]
      BY <1>1, <2>1, <2>2, <2>3 DEF Back
    <3>2. Rec(disk, p) = Top + (i - 1)
      BY <3>1, TurnEvents
    <3>3. QED
      BY <1>1, <2>1, <2>2, <3>2
  <2>4. CASE i = 1
    <3>1. p = lastrecord /\ Rec(disk, o) = Top + 1
      BY <2>1, <2>4 DEF Back
    <3>2. CASE \E j \in 1..n : Rec(disk, p) = Top + j
      BY <1>1, <3>1, <3>2
    <3>3. CASE p \in Traces(erb) /\ Rec(disk, p) = Rec(erb, p)
      <4>1. Events(erb) # {}
        BY <3>3 DEF Traced, Bare
      <4>2. Rec(erb, p) = Top
        BY <1>1, <3>1, <4>1 DEF Whole, Newest
      <4>3. QED
        BY <3>1, <3>3, <4>2
    <3>4. QED
      BY <3>2, <3>3, TracesAfter
  <2>5. QED
    BY <2>3, <2>4
<1>5. CASE /\ o \in Traces(erb) /\ Rec(disk, o) = Rec(erb, o)
           /\ HeaderAt(disk, o) = HeaderAt(erb, o) /\ Rec(disk, o) <= Top
  <2>1. CASE \E j \in 1..n : Rec(disk, p) = Top + j
    BY <1>1, <1>3, <1>5, <2>1
  <2>2. CASE p \in Traces(erb) /\ Rec(disk, p) = Rec(erb, p)
    BY <1>2, <1>5, <2>2 DEF Traced, RunsDown
  <2>3. QED
    BY <2>1, <2>2, TracesAfter
<1>6. QED
  BY <1>2, <1>4, <1>5, TracesAfter

\* A pad that does not go to the end of the ring is put over no header that
\* can still be read.
LEMMA PadHides ==
    ASSUME RingOK, NEW n, n = Fitting(write_q), ~(n < Len(write_q)),
           NEW p \in Chain(erb, 0), Placed(write_q)[n + 1] + HeaderSize <= p
    PROVE  EndOfPad(n, Placed(write_q)[n + 1]) <= p
<1>1. PICK end : end = Placed(write_q)[n + 1]
  OBVIOUS
<1>2. PICK c : c = recordcursor
  OBVIOUS
<1>3. Sane(erb)
  BY CellsSane DEF RingOK
<1>4. c \in Chain(erb, 0) /\ Size \in Chain(erb, 0) /\ c \in Places
  BY <1>2, <1>3, RingNumbers, ChainBounds DEF RingOK
<1>5. Chain(erb, c) = {x \in Chain(erb, 0) : c <= x}
  BY <1>3, <1>4, ChainFrom
<1>6. /\ end \in Nat /\ c <= end /\ end + HeaderSize <= Size /\ c \in Nat
  BY <1>1, <1>2, FittingRoom, EventRingAssumption DEF RingOK, QueueOK
<1>7. Chain(erb, 0) \subseteq Places
  BY <1>3, RingNumbers, ChainBounds
<1>8. p \in Nat /\ p <= Size /\ HeaderSize \in Nat /\ HeaderSize > 0
      /\ Size \in Nat
  BY <1>7, RingNumbers
<1> DEFINE beyond == {o \in Chain(erb, recordcursor) : o >= end}
           first == CHOOSE x \in beyond : \A y \in beyond : x <= y
<1>9. beyond = {o \in Chain(erb, 0) : c <= o /\ o >= end}
  BY <1>2, <1>5
<1>10. beyond \in SUBSET Nat /\ p \in beyond
  <2>1. Chain(erb, 0) \subseteq Nat
    BY <1>7, RingNumbers
  <2>2. c <= p /\ p >= end
    BY <1>1, <1>6, <1>8
  <2>3. QED
    BY <1>9, <2>1, <2>2
<1>11. \E x \in beyond : \A y \in beyond : x <= y
  BY <1>10, LeastExists
<1>12. first \in beyond /\ \A y \in beyond : first <= y
  BY <1>11, Zenon
<1>13. EndOfPad(n, end) =
          IF beyond = {} THEN Size + 1
          ELSE IF first - end >= HeaderSize \/ first = Size THEN first
          ELSE IF IsHeader(erb, first) THEN first + HeaderAt(erb, first).length
          ELSE Size + 1
  BY Zenon DEF EndOfPad, PadEnd, Least
<1> HIDE DEF first
<1>14. /\ first \in Chain(erb, 0) /\ first \in Nat /\ end <= first
       /\ first <= p
  BY <1>6, <1>9, <1>10, <1>12
<1>15. CASE first - end >= HeaderSize \/ first = Size
  BY <1>1, <1>10, <1>13, <1>14, <1>15
<1>16. CASE ~(first - end >= HeaderSize \/ first = Size)
  <2>1. first # p
    BY <1>1, <1>6, <1>8, <1>14, <1>16
  <2>2. IsHeader(erb, first) /\ Follower(erb, first) <= p
    BY <1>3, <1>14, <2>1, RingNumbers, ChainOrdered
  <2>3. EndOfPad(n, end) = Follower(erb, first)
    BY <1>10, <1>13, <1>16, <2>2 DEF Follower
  <2>4. QED
    BY <1>1, <2>2, <2>3
<1>17. QED
  BY <1>15, <1>16

LEMMA TurnLeftBehind ==
    ASSUME NEW n, NEW stop, NEW disk, NEW cursor, Turned(n, stop, disk, cursor),
           Traced(erb)
    PROVE  LeftBehind(disk)
<1> DEFINE at == Placed(write_q)
<1>1. /\ Whole /\ RingOK /\ Top \in Nat /\ Cells(erb) /\ Cells(disk)
      /\ n \in Nat /\ recordcursor \in Nat /\ stop \in Nat
      /\ Rising(erb, recordcursor) /\ recordcursor <= stop
      /\ HeaderSize \in Nat /\ HeaderSize > 0
  BY WholeRing, TurnPlaces, TurnKeepsRing, EventRingAssumption
     DEF Turned, Whole, Ring
<1>2. SUFFICES ASSUME NEW o \in Events(disk),
                      NEW p \in Traces(disk) \ Events(disk)
               PROVE  Follower(disk, o) <= p /\ Rec(disk, p) < Rec(disk, o)
  BY DEF LeftBehind
<1>3. /\ p \in Traces(erb) /\ Rec(disk, p) = Rec(erb, p)
      /\ Rec(erb, p) <= Top
      /\ p < recordcursor \/ at[n + 1] + HeaderSize <= p
      /\ p \notin Survivors(stop)
  BY <1>2, TracesAfter, TurnEvents
<1>4. /\ p \in Nat /\ o \in Nat /\ Rec(erb, p) \in Nat
      /\ Follower(disk, o) \in Nat
  BY <1>1, <1>2, <1>3, TraceKind, EventKind
<1>5. at[n + 1] + HeaderSize <= p /\ at[n + 1] \in Nat /\ recordcursor <= at[n + 1]
      /\ recordcursor <= p
  <2>1. n + 1 \in 1..(n + 1)
    BY <1>1
  <2>2. at[n + 1] \in Nat /\ recordcursor <= at[n + 1]
    BY <2>1, TurnPlaces
  <2>3. ASSUME p < recordcursor PROVE FALSE
    <3>1. p \in Events(erb)
      BY <1>1, <1>3, <2>3, BeforeCursor
    <3>2. p \in Survivors(stop)
      BY <2>3, <3>1 DEF Survivors
    <3>3. QED
      BY <1>3, <3>2
  <2>4. QED
    BY <1>1, <1>3, <1>4, <2>2, <2>3
<1>6. CASE \E i \in 1..n : o = at[i]
  <2>1. PICK i \in 1..n : o = at[i]
    BY <1>6
  <2>2. Rec(disk, o) = Top + i /\ Follower(disk, o) = at[i + 1]
    BY <2>1, TurnEvents
  <2>3. PICK m : m = i + 1
    OBVIOUS
  <2>4. m \in 1..(n + 1) /\ n + 1 \in 1..(n + 1) /\ m <= n + 1 /\ i \in Nat
        /\ i > 0 /\ m \in Nat
    BY <1>1, <2>3
  <2>5. at[m] \in Nat /\ (m < n + 1 => at[m] < at[n + 1])
    BY <2>4, TurnPlaces
  <2>6. m = n + 1 \/ m < n + 1
    BY <1>1, <2>4
  <2>7. at[m] <= at[n + 1]
    BY <1>5, <2>5, <2>6
  <2>8. Follower(disk, o) <= p
    BY <1>1, <1>4, <1>5, <2>2, <2>3, <2>5, <2>7
  <2>9. Rec(erb, p) < Top + i
    BY <1>1, <1>3, <1>4, <2>4
  <2>10. QED
    BY <1>3, <2>2, <2>8, <2>9
<1>7. CASE o \in Survivors(stop)
  <2>1. /\ o \in Events(erb)
        /\ o < recordcursor \/ stop <= o
        /\ Rec(disk, o) = Rec(erb, o) /\ Rec(erb, o) \in Nat
        /\ Follower(disk, o) = Follower(erb, o)
    BY <1>7, TurnEvents DEF Follower, Survivors
  <2>2. CASE p \notin Events(erb)
    BY <1>3, <2>1, <2>2 DEF Traced, LeftBehind
  <2>3. CASE p \in Events(erb)
    <3>1. Rec(erb, p) < Rec(erb, o)
      <4>1. ~(Rec(erb, o) <= Rec(erb, p))
        BY <1>1, <1>3, <1>7, <2>3, SurvivorsNewer
      <4>2. QED
        BY <1>4, <2>1, <4>1
    <3>2. p < stop /\ p \in Chain(erb, 0) /\ o \in Chain(erb, 0)
      BY <1>1, <1>3, <1>4, <2>1, <2>3, EventKind DEF Survivors
    <3>3. Wraps(n) /\ stop = Size
      <4>1. n < Len(write_q) \/ (~(n < Len(write_q)) /\ n = Fitting(write_q)
               /\ stop = EndOfPad(n, at[n + 1]))
        BY DEF Turned
      <4>2. CASE ~(n < Len(write_q)) /\ n = Fitting(write_q)
                 /\ stop = EndOfPad(n, at[n + 1])
        <5>1. stop <= p
          BY <1>1, <1>5, <3>2, <4>2, PadHides
        <5>2. QED
          BY <1>1, <1>4, <3>2, <5>1
      <4>3. CASE n < Len(write_q)
        BY <4>3, TurnPlaces DEF Wraps
      <4>4. QED
        BY <4>1, <4>2, <4>3
    <3>4. Sane(erb) /\ recordcursor \in Chain(erb, 0) /\ 0 \in Places
          /\ o \in Offsets
      BY <1>1, <2>1, EventKind, CellsSane, RingNumbers DEF RingOK
    <3>5. o < recordcursor
      BY <2>1, <3>3, <3>4, EventRingAssumption DEF Offsets
    <3>6. Follower(erb, o) <= recordcursor
      BY <1>1, <1>4, <3>2, <3>4, <3>5, ChainOrdered
    <3>7. QED
      BY <1>1, <1>3, <1>4, <1>5, <2>1, <3>1, <3>6
  <2>4. QED
    BY <2>2, <2>3
<1>8. QED
  BY <1>2, <1>6, <1>7, TurnEvents

\* The pad of a wrap leads from behind the new events to the end.
LEMMA TurnPad ==
    ASSUME NEW n, NEW stop, NEW disk, NEW cursor, Turned(n, stop, disk, cursor),
           Wraps(n)
    PROVE  Follower(disk, Placed(write_q)[n + 1]) = Size
<1>1. /\ RingOK /\ QueueOK /\ Stops(n, stop) /\ stop \in Chain(erb, 0)
      /\ n \in Nat /\ stop = Size
  BY WholeRing, TurnPlaces DEF Turned, Whole
<1>2. n + 1 \in 1..(n + 1)
  BY <1>1
<1>3. PICK x : x = Placed(write_q)[n + 1]
  OBVIOUS
<1>4. PICK h : h = Headers(n, stop)[x]
  OBVIOUS
<1>5. x + h.length = stop
  BY <1>1, <1>2, <1>3, <1>4, HeadersLead
<1>6. HeaderAt(disk, x) = h
  BY <1>1, <1>2, <1>3, <1>4, ChainWritten DEF Turned, Wrote
<1>7. QED
  BY <1>1, <1>3, <1>5, <1>6 DEF Follower

\* Where a write begins there is an event then, or the pad of a wrap.
LEMMA TurnBegins ==
    ASSUME NEW n, NEW stop, NEW disk, NEW cursor, Turned(n, stop, disk, cursor)
    PROVE  recordcursor \in Events(disk) \/ Follower(disk, recordcursor) = Size
<1>1. /\ QueueOK /\ n \in Nat /\ Len(write_q) \in Nat /\ Len(write_q) > 0
  BY TurnPlaces DEF Turned, Whole
<1>2. Placed(write_q)[1] = recordcursor
  BY <1>1, PlacedCounts DEF QueueOK
<1>3. CASE n = 0
  <2>1. Wraps(n) /\ n + 1 = 1
    BY <1>1, <1>3 DEF Wraps
  <2>2. QED
    BY <1>2, <2>1, TurnPad
<1>4. CASE n # 0
  <2>1. 1 \in 1..n
    BY <1>1, <1>4
  <2>2. QED
    BY <1>2, <2>1, TurnEvents
<1>5. QED
  BY <1>3, <1>4

LEMMA TurnPadsLast ==
    ASSUME NEW n, NEW stop, NEW disk, NEW cursor, Turned(n, stop, disk, cursor),
           Traced(erb), WrapPad(erb, recordcursor, lastrecord)
    PROVE  PadsLast(disk)
<1> DEFINE at == Placed(write_q)
<1>1. /\ Whole /\ RingOK /\ Top \in Nat /\ Cells(erb)
      /\ n \in Nat /\ recordcursor \in Nat /\ stop \in Nat
      /\ recordcursor < stop /\ Stops(n, stop) /\ stop \in Chain(erb, 0)
      /\ Rising(erb, recordcursor)
      /\ HeaderSize \in Nat /\ HeaderSize > 0 /\ Size \in Nat
      /\ Newest(erb, recordcursor, lastrecord, Top)
  BY WholeRing, TurnPlaces, EventRingAssumption DEF Turned, Whole, Ring
<1>2. SUFFICES ASSUME NEW o \in Events(disk), NEW p, p = Follower(disk, o)
               PROVE  \/ p \in Events(disk) \/ Follower(disk, p) = Size
                      \/ \A q \in Events(disk) : Rec(disk, q) <= Rec(disk, o)
  BY DEF PadsLast
<1>3. CASE \E i \in 1..n : o = at[i]
  <2>1. PICK i \in 1..n : o = at[i]
    BY <1>3
  <2>2. Rec(disk, o) = Top + i /\ p = at[i + 1]
    BY <1>2, <2>1, TurnEvents
  <2>3. CASE i + 1 \in 1..n
    BY <2>2, <2>3, TurnEvents
  <2>4. CASE i + 1 \notin 1..n
    <3>1. i = n
      BY <1>1, <2>4
    <3>2. \A q \in Events(disk) : Rec(disk, q) <= Top + n
      BY TurnNewest DEF Newest
    <3>3. QED
      BY <2>2, <3>1, <3>2
  <2>5. QED
    BY <2>3, <2>4
<1>4. CASE o \in Survivors(stop)
  <2>1. /\ o \in Events(erb) /\ p = Follower(erb, o)
        /\ o < recordcursor \/ stop <= o
    BY <1>2, <1>4, TurnEvents DEF Follower, Survivors
  <2>2. /\ o \in Nat /\ p \in Nat /\ o < p /\ o \in Offsets
        /\ o \in Chain(erb, 0) /\ Sane(erb) /\ 0 \in Places
        /\ Size \in Chain(erb, 0) /\ recordcursor \in Chain(erb, 0)
    BY <1>1, <2>1, EventKind, CellsSane, RingNumbers DEF RingOK
  <2>3. p + HeaderSize <= Size
    BY <2>1, EventsAreTraces DEF Traced, Bare
  <2>4. p \in Chain(erb, 0)
    <3>1. o <= Size /\ o # Size
      BY <1>1, <2>2, <2>3
    <3>2. QED
      BY <2>1, <2>2, <3>1, ChainOrdered
  <2>5. CASE p = recordcursor
    BY <2>5, TurnBegins
  <2>6. CASE p # recordcursor
    <3>1. p < recordcursor \/ stop <= p
      <4>1. o < recordcursor => p <= recordcursor
        BY <1>1, <2>1, <2>2, ChainOrdered
      <4>2. stop <= o => stop <= p
        BY <1>1, <2>2
      <4>3. QED
        BY <1>1, <2>1, <2>2, <2>6, <4>1, <4>2
    <3>2. HeaderAt(disk, p) = HeaderAt(erb, p)
      BY <1>1, <2>4, <3>1, ChainWritten DEF Turned, Wrote
    <3>3. CASE p \in Events(erb)
      <4>1. p \in Survivors(stop)
        BY <3>1, <3>3 DEF Survivors
      <4>2. QED
        BY <4>1, TurnEvents
    <3>4. CASE Follower(erb, p) = Size
      BY <3>2, <3>4 DEF Follower
    <3>5. CASE \A q \in Events(erb) : Rec(erb, q) <= Rec(erb, o)
      <4>1. /\ lastrecord \in Events(erb) /\ Rec(erb, lastrecord) = Top
            /\ recordcursor = 0 \/ Follower(erb, lastrecord) = recordcursor
            /\ Rec(erb, o) <= Top
        BY <1>1, <2>1 DEF Newest
      <4>2. Rec(erb, o) = Rec(erb, lastrecord)
        <5>1. Rec(erb, o) \in Nat /\ Top <= Rec(erb, o)
          BY <1>1, <2>1, <3>5, <4>1, EventKind
        <5>2. QED
          BY <1>1, <4>1, <5>1
      <4>3. o = lastrecord
        BY <1>1, <2>1, <4>1, <4>2, OrderWhole
      <4>4. recordcursor = 0
        BY <2>1, <2>6, <4>1, <4>3
      <4>5. Follower(erb, p) = Size
        BY <2>1, <4>3, <4>4 DEF WrapPad
      <4>6. QED
        BY <3>2, <4>5 DEF Follower
    <3>6. QED
      BY <2>1, <3>3, <3>4, <3>5 DEF Traced, PadsLast
  <2>7. QED
    BY <2>5, <2>6
<1>5. QED
  BY <1>3, <1>4, TurnEvents

LEMMA TurnWrapPad ==
    ASSUME NEW n, NEW stop, NEW disk, NEW cursor, Turned(n, stop, disk, cursor)
    PROVE  WrapPad(disk, cursor, IF n = 0 THEN lastrecord ELSE Placed(write_q)[n])
<1> DEFINE last == IF n = 0 THEN lastrecord ELSE Placed(write_q)[n]
<1>1. /\ Whole /\ n \in Nat /\ recordcursor \in Nat /\ QueueOK
      /\ Newest(erb, recordcursor, lastrecord, Top)
  BY TurnPlaces DEF Turned, Whole
<1>2. SUFFICES ASSUME cursor = 0, Events(disk) # {}
               PROVE  Follower(disk, Follower(disk, last)) = Size
  BY DEF WrapPad
<1>3. Placed(write_q)[1] = recordcursor
  BY <1>1, PlacedCounts DEF QueueOK
<1>4. Wraps(n)
  <2>1. ASSUME ~Wraps(n) PROVE FALSE
    <3>1. cursor = Placed(write_q)[n + 1] /\ n = Len(write_q) /\ Len(write_q) > 0
      BY <2>1, TurnPlaces
    <3>2. 1 \in 1..(n + 1) /\ n + 1 \in 1..(n + 1) /\ 1 < n + 1
      BY <1>1, <3>1
    <3>3. recordcursor < Placed(write_q)[n + 1] /\ Placed(write_q)[n + 1] \in Nat
      BY <1>3, <3>2, TurnPlaces
    <3>4. QED
      BY <1>1, <1>2, <3>1, <3>3
  <2>2. QED
    BY <2>1
<1>5. Follower(disk, last) = Placed(write_q)[n + 1]
  <2>1. CASE n = 0
    <3>1. Events(erb) # {}
      <4>1. PICK x : x \in Events(disk)
        BY <1>2
      <4>2. x \in Survivors(stop)
        BY <2>1, <4>1, TurnEvents
      <4>3. QED
        BY <4>2 DEF Survivors
    <3>2. lastrecord \in Survivors(stop)
      BY <2>1, <3>1, TurnKeepsNewest
    <3>3. HeaderAt(disk, lastrecord) = HeaderAt(erb, lastrecord)
      BY <3>2, TurnEvents
    <3>4. Follower(erb, lastrecord) = recordcursor
      BY <1>1, <2>1, <3>1, TurnStarts DEF Newest
    <3>5. n + 1 = 1
      BY <2>1
    <3>6. QED
      BY <1>3, <2>1, <3>3, <3>4, <3>5 DEF Follower
  <2>2. CASE n # 0
    <3>1. n \in 1..n
      BY <1>1, <2>2
    <3>2. QED
      BY <2>2, <3>1, TurnEvents
  <2>3. QED
    BY <2>1, <2>2
<1>6. QED
  BY <1>4, <1>5, TurnPad

LEMMA NewVolumeBare == Traced(NewVolume)
<1>1. Traces(NewVolume) = {}
  <2>1. SUFFICES ASSUME NEW o \in Offsets PROVE o \notin Traces(NewVolume)
    BY DEF Traces
  <2>2. \/ HeaderAt(NewVolume, o) = NoHeader
        \/ HeaderAt(NewVolume, o) = NewVolume[o][1]
    BY DEF HeaderAt
  <2>3. NewVolume[o] = Blank \/ NewVolume[o] = <<Header("pad", 0, Size, 0), o>>
    BY DEF NewVolume
  <2>4. HeaderAt(NewVolume, o).type \in {"none", "pad"}
    BY <2>2, <2>3 DEF Blank, NoHeader, Header
  <2>5. QED
    BY <2>4 DEF Traces, EventTypes
<1>2. Events(NewVolume) = {}
  BY <1>1, EventsAreTraces
<1>3. QED
  BY <1>1, <1>2 DEF Traced, Bare, RunsUp, RunsDown, LeftBehind, PadsLast

\* A scan ends behind the newest event, not at the end of the ring.
LEMMA OpensBehind ==
    ASSUME NEW cursor \in Nat, NEW last \in Offsets,
           Cells(erb), Ring(erb, cursor), Newest(erb, cursor, last, Rec(erb, last)),
           Traced(erb), StartUp
    PROVE  WrapPad(erb', recordcursor', lastrecord')
<1>1. PICK s : s = Scan(erb, Unscanned)
  OBVIOUS
<1>2. erb' = erb /\ recordcursor' = s.cursor
  BY <1>1 DEF StartUp, Open
<1>3. ASSUME Events(erb) # {} PROVE s.cursor # 0
  <2>1. s.cursor = IF Follower(erb, last) = Size THEN 0 ELSE Follower(erb, last)
    BY <1>1, <1>3, ScanFinds
  <2>2. last \in Events(erb) /\ last \in Traces(erb)
    BY <1>3, EventsAreTraces DEF Newest
  <2>3. /\ Follower(erb, last) + HeaderSize <= Size
        /\ Follower(erb, last) \in Nat /\ last < Follower(erb, last)
        /\ last \in Nat
    BY <2>2, TraceKind DEF Traced, Bare
  <2>4. QED
    BY <2>1, <2>3, EventRingAssumption
<1>4. QED
  BY <1>2, <1>3 DEF WrapPad

LEMMA TraceInvNext == RingInv /\ TraceInv /\ [Next]_vars => TraceInv'
<1> SUFFICES ASSUME RingInv, TraceInv, [Next]_vars, ~torn'
             PROVE  /\ Traced(erb')
                    /\ Up' => WrapPad(erb', recordcursor', lastrecord')
  BY DEF TraceInv
<1>1. ~torn
  BY DEF Next, vars, QueueWriteEvent, EmptyWriteQ, WriteRaises, Ends, EndsTorn,
         StartUp, StartUpAnew
<1>2. /\ Cells(erb) /\ Traced(erb)
      /\ Up => Whole /\ WrapPad(erb, recordcursor, lastrecord)
      /\ pc = "down" =>
           \E cursor \in Nat, last \in Offsets :
                 /\ Ring(erb, cursor)
                 /\ Newest(erb, cursor, last, Rec(erb, last))
  BY <1>1 DEF RingInv, TraceInv
<1>3. CASE QueueWriteEvent
  <2>1. Up /\ erb' = erb /\ recordcursor' = recordcursor
        /\ lastrecord' = lastrecord
    BY <1>3 DEF QueueWriteEvent, Up
  <2>2. QED
    BY <1>2, <2>1
<1>4. CASE EmptyWriteQ
  <2>1. PICK n : n = Fitting(write_q)
    OBVIOUS
  <2>2. PICK stop : stop = EndOfPad(n, Placed(write_q)[n + 1])
    OBVIOUS
  <2>3. PICK disk : disk = erb'
    OBVIOUS
  <2>4. PICK cursor : cursor = recordcursor'
    OBVIOUS
  <2>5. /\ Whole /\ WrapPad(erb, recordcursor, lastrecord)
        /\ cursor = IF Wraps(n) THEN 0 ELSE Placed(write_q)[n + 1]
        /\ lastrecord' = IF n = 0 THEN lastrecord ELSE Placed(write_q)[n]
        /\ Wrote(disk, n, stop)
        /\ write_q # <<>>
    <3>1. Up
      BY <1>4 DEF EmptyWriteQ, Writing
    <3>2. stop = EndOfPad(n, Placed(write_q)[n + 1])
      BY <2>2
    <3>3. recordcursor' = IF Wraps(n) THEN 0 ELSE Placed(write_q)[n + 1]
      <4>1. Wraps(n) => recordcursor' = 0
        BY <1>4, <2>1 DEF EmptyWriteQ, Advance
      <4>2. ~Wraps(n) => recordcursor' = Placed(write_q)[n + 1]
        BY <1>4, <2>1 DEF EmptyWriteQ, Advance
      <4>3. QED
        BY <4>1, <4>2
    <3>4. QED
      BY <1>2, <1>4, <2>1, <2>2, <2>3, <2>4, <3>1, <3>3
         DEF EmptyWriteQ, Advance, Writing, Wrote
  <2>6. Turned(n, stop, disk, cursor)
    BY <2>1, <2>2, <2>5 DEF Turned
  <2>7. Traced(disk)
    BY <1>2, <2>5, <2>6, TurnBare, TurnRunsUp, TurnRunsDown, TurnLeftBehind,
       TurnPadsLast DEF Traced
  <2>8. WrapPad(disk, cursor, lastrecord')
    BY <2>5, <2>6, TurnWrapPad
  <2>9. QED
    BY <2>3, <2>4, <2>7, <2>8
<1>5. CASE WriteRaises
  BY <1>2, <1>5, WholeWrites DEF WriteRaises, Writing
<1>6. CASE Ends
  BY <1>2, <1>6 DEF Ends, Forget, Up
<1>7. CASE EndsTorn
  BY <1>7 DEF EndsTorn
<1>8. CASE StartUp
  <2>1. pc = "down" /\ erb' = erb
    BY <1>8 DEF StartUp, Open
  <2>2. WrapPad(erb', recordcursor', lastrecord')
    BY <1>2, <1>8, <2>1, OpensBehind
  <2>3. QED
    BY <1>2, <2>1, <2>2
<1>9. CASE StartUpAnew
  BY <1>2, <1>9, WholeScans DEF StartUpAnew
<1>10. CASE UNCHANGED vars
  BY <1>2, <1>10 DEF vars, Up
<1>11. QED
  BY <1>3, <1>4, <1>5, <1>6, <1>7, <1>8, <1>9, <1>10 DEF Next

LEMMA TraceInvInit == Init => TraceInv
  BY NewVolumeBare DEF Init, TraceInv, Up

-----------------------------------------------------------------------------
(* Following the events.                                                   *)

\* Where a reader is that comes to an offset from an event of some record,
Meet(before, o, back) ==
    IF Halts(before, HeaderAt(erb, o), back) THEN None ELSE o

\* and where it goes from an event.
Leap(o, back) ==
    IF o = None THEN None
    ELSE Meet(HeaderAt(erb, o).record, Beyond(o, HeaderAt(erb, o), back), back)

LEMMA TrailUnfolds ==
    ASSUME NEW from, NEW back, NEW hops \in Nat
    PROVE  /\ Trail(from, back, hops)[0] = Meet(None, from, back)
           /\ \A i \in 1..hops : Trail(from, back, hops)[i] =
                                    Leap(Trail(from, back, hops)[i - 1], back)
<1> DEFINE D(f, k) == [i \in 0..k |->
                         IF i = 0 THEN Meet(None, from, back)
                         ELSE Leap(f[i - 1], back)]
           T == {k \in 0..hops : ~ \E f : f = D(f, k)}
<1>2. ASSUME T # {} PROVE FALSE
  <2>1. T \in SUBSET Nat
    OBVIOUS
  <2>2. PICK k \in T : \A j \in T : k <= j
    BY <1>2, <2>1, LeastExists
  <2>3. ~ \E f : f = D(f, k)
    BY <2>2
  <2>4. CASE k = 0
    <3> DEFINE f == [i \in 0..0 |-> Meet(None, from, back)]
    <3>1. f = D(f, 0)
      OBVIOUS
    <3>2. QED
      BY <2>3, <2>4, <3>1
  <2>5. CASE k # 0
    <3>0. k \in 0..hops
      BY <2>2
    <3>1. k \in Nat /\ k - 1 \in 0..hops /\ k - 1 \notin T
      <4>1. k \in Nat /\ k - 1 \in 0..hops /\ ~(k <= k - 1)
        BY <2>5, <3>0
      <4>2. QED
        BY <2>2, <4>1
    <3>2. PICK f : f = D(f, k - 1)
      BY <3>1
    <3> DEFINE g == [i \in 0..k |-> IF i < k THEN f[i] ELSE Leap(f[k - 1], back)]
    <3>3. ASSUME NEW i \in 0..k
          PROVE  g[i] = IF i = 0 THEN Meet(None, from, back)
                        ELSE Leap(g[i - 1], back)
      <4>1. \A j \in 0..(k - 1) : f[j] = IF j = 0 THEN Meet(None, from, back)
                                         ELSE Leap(f[j - 1], back)
        BY <3>2, Zenon
      <4>2. CASE i < k
        <5>1. i \in 0..(k - 1) /\ g[i] = f[i]
          BY <3>1, <4>2
        <5>2. i # 0 => i - 1 \in 0..k /\ i - 1 < k
          BY <3>1
        <5>3. i # 0 => g[i - 1] = f[i - 1]
          BY <5>2
        <5>4. f[i] = IF i = 0 THEN Meet(None, from, back)
                     ELSE Leap(f[i - 1], back)
          BY <4>1, <5>1, Zenon
        <5>5. QED
          BY <5>1, <5>3, <5>4, Zenon
      <4>3. CASE i = k
        <5>1. k - 1 \in 0..k /\ k - 1 < k /\ ~(k < k) /\ k \in 0..k
          BY <2>5, <3>1
        <5>2. g[k - 1] = f[k - 1] /\ g[k] = Leap(f[k - 1], back)
          BY <5>1
        <5>3. QED
          BY <2>5, <4>3, <5>2, Zenon
      <4>4. QED
        BY <3>1, <4>2, <4>3
    <3>4. g = D(g, k)
      BY <3>3, Zenon
    <3>5. QED
      BY <2>3, <3>4
  <2>6. QED
    BY <2>4, <2>5
<1>3. hops \notin T
  BY <1>2
<1>4. \E f : f = D(f, hops)
  BY <1>3
<1> DEFINE trail == CHOOSE f : f = D(f, hops)
<1>5. trail = D(trail, hops)
  BY <1>4, Zenon
<1>6. Trail(from, back, hops) = trail
  BY Zenon DEF Trail, Meet, Leap
<1> HIDE DEF trail
<1>7. \A i \in 0..hops : trail[i] = IF i = 0 THEN Meet(None, from, back)
                                    ELSE Leap(trail[i - 1], back)
  BY <1>5, Zenon
<1>8. trail[0] = Meet(None, from, back)
  <2>1. 0 \in 0..hops
    OBVIOUS
  <2>2. QED
    BY <1>7, <2>1, Zenon
<1>9. ASSUME NEW i \in 1..hops PROVE trail[i] = Leap(trail[i - 1], back)
  <2>1. i \in 0..hops /\ i # 0
    OBVIOUS
  <2>2. QED
    BY <1>7, <2>1, Zenon
<1>10. QED
  BY <1>6, <1>8, <1>9

\* A reader that does not halt is at an event.
LEMMA MeetsEvent ==
    ASSUME Cells(erb), NEW before, NEW o \in Offsets, NEW back,
           Meet(before, o, back) # None
    PROVE  /\ Meet(before, o, back) = o
           /\ o \in Traces(erb)
           /\ ~Finished(before, HeaderAt(erb, o), back)
<1>1. Meet(before, o, back) = o /\ ~Halts(before, HeaderAt(erb, o), back)
  BY DEF Meet
<1>2. /\ HeaderAt(erb, o) # NoHeader /\ HeaderAt(erb, o).type # "pad"
      /\ ~Finished(before, HeaderAt(erb, o), back)
  BY <1>1 DEF Halts, Finished
<1>3. HeaderOK(HeaderAt(erb, o))
  BY <1>2, HeaderKind DEF IsHeader
<1>4. HeaderAt(erb, o).type \in EventTypes
  BY <1>2, <1>3 DEF HeaderOK, HeaderSet
<1>5. QED
  BY <1>1, <1>2, <1>4 DEF Traces

\* From one event to the next the record goes up or down by one.
LEMMA LeapCounts ==
    ASSUME Cells(erb), Traced(erb), NEW back \in BOOLEAN,
           NEW o \in Traces(erb), Leap(o, back) # None
    PROVE  /\ Leap(o, back) \in Traces(erb)
           /\ Rec(erb, Leap(o, back)) =
                 Rec(erb, o) + (IF back THEN -1 ELSE 1)
<1>1. /\ o \in Nat /\ Rec(erb, o) \in Nat /\ Rec(erb, o) > 0
      /\ Follower(erb, o) \in Nat /\ HeaderAt(erb, o).previous \in Offsets
  BY TraceKind
<1>2. o # None /\ Rec(erb, o) # None
  BY <1>1 DEF None
<1>3. PICK p : p = Beyond(o, HeaderAt(erb, o), back)
  OBVIOUS
<1>4. /\ back => p = HeaderAt(erb, o).previous
      /\ ~back => p = Follower(erb, o)
  <2>1. Follower(erb, o) + HeaderSize <= Size
    BY DEF Traced, Bare
  <2>2. ~(Follower(erb, o) >= Size)
    BY <1>1, <2>1, EventRingAssumption
  <2>3. QED
    BY <1>3, <2>2 DEF Beyond, Follower
<1>5. p \in Offsets
  <2>1. Follower(erb, o) + HeaderSize <= Size
    BY DEF Traced, Bare
  <2>2. Follower(erb, o) \in Offsets
    BY <1>1, <2>1, EventRingAssumption DEF Offsets
  <2>3. QED
    BY <1>1, <1>4, <2>2
<1>6. Leap(o, back) = Meet(Rec(erb, o), p, back)
  BY <1>2, <1>3 DEF Leap, Rec
<1>7. /\ Leap(o, back) = p /\ p \in Traces(erb)
      /\ ~Finished(Rec(erb, o), HeaderAt(erb, p), back)
  BY <1>5, <1>6, MeetsEvent
<1>8. Rec(erb, p) \in Nat
  BY <1>7, TraceKind
<1>9. CASE back
  <2>1. ~(Rec(erb, o) <= Rec(erb, p))
    BY <1>2, <1>7, <1>9 DEF Finished, Rec
  <2>2. Rec(erb, o) = Rec(erb, p) + 1
    BY <1>4, <1>7, <1>9, <2>1 DEF Traced, RunsDown
  <2>3. QED
    BY <1>1, <1>7, <1>8, <1>9, <2>2
<1>10. CASE ~back
  <2>1. ~(Rec(erb, o) >= Rec(erb, p))
    BY <1>2, <1>7, <1>10 DEF Finished, Rec
  <2>2. Rec(erb, p) = Rec(erb, o) + 1
    BY <1>1, <1>4, <1>7, <1>8, <1>10, <2>1 DEF Traced, RunsUp
  <2>3. QED
    BY <1>7, <1>10, <2>2
<1>11. QED
  BY <1>9, <1>10

\* So the i-th event from one is i records from it, and every one before was
\* met too.
LEMMA TrailCounts ==
    ASSUME Cells(erb), Traced(erb), NEW from \in Offsets, NEW back \in BOOLEAN,
           NEW hops \in Nat, NEW i \in 0..hops,
           Trail(from, back, hops)[i] # None
    PROVE  /\ from \in Traces(erb)
           /\ Trail(from, back, hops)[0] = from
           /\ Trail(from, back, hops)[i] \in Traces(erb)
           /\ Rec(erb, Trail(from, back, hops)[i]) =
                 Rec(erb, from) + (IF back THEN -i ELSE i)
           /\ \A j \in 0..i : Trail(from, back, hops)[j] # None
<1>1. PICK t : t = Trail(from, back, hops)
  OBVIOUS
<1>2. /\ t[0] = Meet(None, from, back)
      /\ \A k \in 1..hops : t[k] = Leap(t[k - 1], back)
  BY <1>1, TrailUnfolds
<1> DEFINE Counted(k) ==
              /\ from \in Traces(erb) /\ t[0] = from
              /\ t[k] \in Traces(erb)
              /\ Rec(erb, t[k]) = Rec(erb, from) + (IF back THEN -k ELSE k)
              /\ \A j \in 0..k : t[j] # None
           T == {k \in 0..hops : t[k] # None /\ ~Counted(k)}
<1>3. ASSUME NEW k \in T, \A j \in T : k <= j PROVE FALSE
  <2>1. k \in 0..hops /\ t[k] # None /\ k \in Nat
    OBVIOUS
  <2>2. CASE k = 0
    <3>1. t[0] = from /\ from \in Traces(erb)
      BY <1>2, <2>1, <2>2, MeetsEvent
    <3>2. Rec(erb, from) \in Nat
      BY <3>1, TraceKind
    <3>3. \A j \in 0..k : t[j] # None
      BY <2>1, <2>2
    <3>4. Counted(k)
      BY <2>2, <3>1, <3>2, <3>3
    <3>5. QED
      BY <3>4
  <2>3. CASE k # 0
    <3>1. k \in 1..hops /\ k - 1 \in 0..hops /\ ~(k <= k - 1) /\ k - 1 \in Nat
      BY <2>1, <2>3
    <3>2. t[k] = Leap(t[k - 1], back)
      BY <1>2, <3>1
    <3>3. t[k - 1] # None
      BY <2>1, <3>2 DEF Leap
    <3>4. Counted(k - 1)
      BY <1>3, <3>1, <3>3
    <3>5. /\ t[k] \in Traces(erb)
          /\ Rec(erb, t[k]) = Rec(erb, t[k - 1]) + (IF back THEN -1 ELSE 1)
      BY <2>1, <3>2, <3>4, LeapCounts
    <3>6. Rec(erb, from) \in Nat
      BY <3>4, TraceKind
    <3>7. Rec(erb, t[k]) = Rec(erb, from) + (IF back THEN -k ELSE k)
      BY <2>1, <3>4, <3>5, <3>6
    <3>8. \A j \in 0..k : t[j] # None
      <4>1. ASSUME NEW j \in 0..k PROVE t[j] # None
        <5>1. j = k \/ j \in 0..(k - 1)
          BY <2>1
        <5>2. QED
          BY <2>1, <3>4, <5>1
      <4>2. QED
        BY <4>1
    <3>9. Counted(k)
      BY <3>4, <3>5, <3>7, <3>8
    <3>10. QED
      BY <3>9
  <2>4. QED
    BY <2>2, <2>3
<1>4. T \in SUBSET Nat
  OBVIOUS
<1>5. T = {}
  BY <1>3, <1>4, LeastExists
<1>6. Counted(i)
  BY <1>1, <1>5
<1>7. QED
  BY <1>1, <1>6

\* From an event of the ring to a newer one behind it in the file, reading
\* forward meets no pad.
LEMMA StepUp ==
    ASSUME Cells(erb), NEW cursor \in Nat, Ring(erb, cursor), Traced(erb),
           NEW p \in Events(erb), NEW o \in Events(erb),
           p < o, Rec(erb, p) < Rec(erb, o)
    PROVE  /\ Follower(erb, p) \in Events(erb)
           /\ Rec(erb, Follower(erb, p)) = Rec(erb, p) + 1
           /\ Follower(erb, p) <= o
<1>1. /\ p \in Nat /\ o \in Nat /\ Rec(erb, p) \in Nat /\ Rec(erb, o) \in Nat
      /\ p \in Chain(erb, 0) /\ o \in Chain(erb, 0)
      /\ Follower(erb, p) \in Nat /\ p < Follower(erb, p)
      /\ Sane(erb) /\ 0 \in Places /\ o \in Offsets
      /\ Rising(erb, cursor) /\ Unbroken(erb)
  BY EventKind, CellsSane, RingNumbers DEF Ring
<1>2. PICK x : x = Follower(erb, p)
  OBVIOUS
<1>3. x <= o /\ x \in Chain(erb, 0) /\ x \in Nat /\ p < x
  BY <1>1, <1>2, ChainOrdered
<1>4. PICK q \in Events(erb) : Rec(erb, q) = Rec(erb, p) + 1
  <2>1. /\ Rec(erb, p) + 1 \in Nat /\ Rec(erb, p) <= Rec(erb, p) + 1
        /\ Rec(erb, p) + 1 <= Rec(erb, o)
    BY <1>1
  <2>2. QED
    BY <1>1, <2>1 DEF Unbroken
<1>5. q \in Nat /\ q \in Chain(erb, 0) /\ q \in Offsets
  BY EventKind
<1>6. Precedes(cursor, p, o) /\ Precedes(cursor, p, q)
      /\ (o = q \/ Precedes(cursor, q, o))
  <2>1. Rec(erb, p) < Rec(erb, q)
    BY <1>1, <1>4
  <2>2. Rec(erb, q) < Rec(erb, o) \/ Rec(erb, q) = Rec(erb, o)
    BY <1>1, <1>4
  <2>3. QED
    BY <1>1, <2>1, <2>2, OrderWhole
<1>7. p < q /\ q <= o
  BY <1>1, <1>5, <1>6 DEF Precedes
<1>8. x <= q
  BY <1>1, <1>2, <1>5, <1>7, ChainOrdered
<1>9. x \in Events(erb)
  <2>1. CASE x \in Events(erb)
    BY <2>1
  <2>2. CASE Follower(erb, x) = Size
    <3>1. ASSUME x # q PROVE FALSE
      <4>1. Follower(erb, x) <= q
        BY <1>1, <1>3, <1>5, <1>8, <3>1, ChainOrdered
      <4>2. QED
        BY <1>5, <2>2, <4>1, EventRingAssumption DEF Offsets
    <3>2. QED
      BY <3>1
  <2>3. CASE \A r \in Events(erb) : Rec(erb, r) <= Rec(erb, p)
    BY <1>1, <2>3
  <2>4. QED
    BY <1>2, <2>1, <2>2, <2>3 DEF Traced, PadsLast
<1>10. Rec(erb, x) \in Nat
  BY <1>9, EventKind
<1>11. Precedes(cursor, p, x) /\ (x = q \/ Precedes(cursor, x, q))
  BY <1>1, <1>3, <1>5, <1>6, <1>7, <1>8 DEF Precedes
<1>12. /\ Rec(erb, p) < Rec(erb, x)
       /\ x = q \/ Rec(erb, x) < Rec(erb, q)
  BY <1>1, <1>9, <1>11 DEF Rising
<1>13. Rec(erb, x) = Rec(erb, p) + 1
  BY <1>1, <1>4, <1>10, <1>12
<1>14. QED
  BY <1>2, <1>3, <1>9, <1>13

\* From an event of the ring the events lead back to any older one.
LEMMA StepDown ==
    ASSUME Cells(erb), NEW cursor \in Nat, Ring(erb, cursor),
           NEW p \in Events(erb), NEW o \in Events(erb),
           Rec(erb, o) < Rec(erb, p)
    PROVE  /\ HeaderAt(erb, p).previous \in Events(erb)
           /\ Rec(erb, HeaderAt(erb, p).previous) = Rec(erb, p) - 1
<1>1. /\ Rec(erb, p) \in Nat /\ Rec(erb, o) \in Nat
      /\ Unbroken(erb) /\ Backward(erb)
  BY EventKind DEF Ring
<1>2. /\ Rec(erb, p) - 1 \in Nat /\ Rec(erb, o) <= Rec(erb, p) - 1
      /\ Rec(erb, p) - 1 <= Rec(erb, p)
      /\ Rec(erb, p) = (Rec(erb, p) - 1) + 1
  BY <1>1
<1>3. PICK q \in Events(erb) : Rec(erb, q) = Rec(erb, p) - 1
  BY <1>1, <1>2 DEF Unbroken
<1>4. HeaderAt(erb, p).previous = q
  BY <1>1, <1>2, <1>3 DEF Backward
<1>5. QED
  BY <1>3, <1>4

LEMMA LeapUp ==
    ASSUME Cells(erb), NEW cursor \in Nat, Ring(erb, cursor), Traced(erb),
           NEW p \in Events(erb), NEW o \in Events(erb),
           p < o, Rec(erb, p) < Rec(erb, o)
    PROVE  /\ Leap(p, FALSE) \in Events(erb)
           /\ Rec(erb, Leap(p, FALSE)) = Rec(erb, p) + 1
           /\ Leap(p, FALSE) <= o /\ Leap(p, FALSE) # None
<1>1. PICK x : x = Follower(erb, p)
  OBVIOUS
<1>2. x \in Events(erb) /\ Rec(erb, x) = Rec(erb, p) + 1 /\ x <= o
  BY <1>1, StepUp
<1>3. /\ p \in Nat /\ Rec(erb, p) \in Nat /\ x \in Nat
      /\ HeaderAt(erb, x) # NoHeader /\ HeaderAt(erb, x).type # "pad"
  BY <1>2, EventKind, EventsAreTraces, TraceKind
<1>4. Beyond(p, HeaderAt(erb, p), FALSE) = x
  <2>1. x + HeaderSize <= Size
    BY <1>1, EventsAreTraces DEF Traced, Bare
  <2>2. ~(x >= Size)
    BY <1>3, <2>1, EventRingAssumption
  <2>3. QED
    BY <1>1, <2>2 DEF Beyond, Follower
<1>5. ~(Rec(erb, p) >= Rec(erb, x))
  BY <1>2, <1>3
<1>6. ~Halts(Rec(erb, p), HeaderAt(erb, x), FALSE)
  BY <1>3, <1>5 DEF Halts, Finished, Rec
<1>7. Leap(p, FALSE) = x /\ x # None
  <2>1. p # None /\ x # None
    BY <1>3 DEF None
  <2>2. Meet(HeaderAt(erb, p).record, x, FALSE) = x
    BY <1>6 DEF Meet, Rec
  <2>3. QED
    BY <1>4, <2>1, <2>2 DEF Leap
<1>8. QED
  BY <1>2, <1>7

LEMMA LeapDown ==
    ASSUME Cells(erb), NEW cursor \in Nat, Ring(erb, cursor),
           NEW p \in Events(erb), NEW o \in Events(erb),
           Rec(erb, o) < Rec(erb, p)
    PROVE  /\ Leap(p, TRUE) \in Events(erb)
           /\ Rec(erb, Leap(p, TRUE)) = Rec(erb, p) - 1
           /\ Leap(p, TRUE) # None
<1>1. PICK x : x = HeaderAt(erb, p).previous
  OBVIOUS
<1>2. x \in Events(erb) /\ Rec(erb, x) = Rec(erb, p) - 1
  BY <1>1, StepDown
<1>3. /\ p \in Nat /\ Rec(erb, p) \in Nat /\ x \in Nat
      /\ HeaderAt(erb, x) # NoHeader /\ HeaderAt(erb, x).type # "pad"
  BY <1>2, EventKind, EventsAreTraces, TraceKind
<1>4. Beyond(p, HeaderAt(erb, p), TRUE) = x
  BY <1>1 DEF Beyond
<1>5. ~(Rec(erb, p) <= Rec(erb, x))
  BY <1>2, <1>3
<1>6. ~Halts(Rec(erb, p), HeaderAt(erb, x), TRUE)
  BY <1>3, <1>5 DEF Halts, Finished, Rec
<1>7. Leap(p, TRUE) = x /\ x # None
  <2>1. p # None /\ x # None
    BY <1>3 DEF None
  <2>2. Meet(HeaderAt(erb, p).record, x, TRUE) = x
    BY <1>6 DEF Meet, Rec
  <2>3. QED
    BY <1>4, <2>1, <2>2 DEF Leap
<1>8. QED
  BY <1>2, <1>7

\* Following the events begins at an event.
LEMMA TrailBegins ==
    ASSUME Cells(erb), NEW p \in Traces(erb), NEW back
    PROVE  Meet(None, p, back) = p /\ p # None
<1>1. /\ HeaderAt(erb, p) # NoHeader /\ HeaderAt(erb, p).type # "pad"
      /\ p \in Nat
  BY TraceKind
<1>2. QED
  BY <1>1 DEF Meet, Halts, Finished, None

\* Reading forward gets from an event to a newer one that is behind it in the
\* file, of the ring both.
LEMMA TrailUp ==
    ASSUME Cells(erb), NEW cursor \in Nat, Ring(erb, cursor), Traced(erb),
           NEW p \in Events(erb), NEW o \in Events(erb),
           p = o \/ (p < o /\ Rec(erb, p) < Rec(erb, o)),
           NEW hops \in Nat, NEW i \in 0..hops,
           Rec(erb, p) + i <= Rec(erb, o)
    PROVE  /\ Trail(p, FALSE, hops)[i] \in Events(erb)
           /\ Trail(p, FALSE, hops)[i] # None
           /\ Rec(erb, Trail(p, FALSE, hops)[i]) = Rec(erb, p) + i
<1>1. PICK t : t = Trail(p, FALSE, hops)
  OBVIOUS
<1>2. /\ t[0] = Meet(None, p, FALSE)
      /\ \A k \in 1..hops : t[k] = Leap(t[k - 1], FALSE)
  BY <1>1, TrailUnfolds
<1>3. /\ p \in Nat /\ o \in Nat /\ Rec(erb, p) \in Nat /\ Rec(erb, o) \in Nat
  BY EventKind
<1> DEFINE Good(k) == /\ t[k] \in Events(erb) /\ t[k] <= o /\ t[k] # None
                      /\ Rec(erb, t[k]) = Rec(erb, p) + k
           T == {k \in 0..i : ~Good(k)}
<1>4. ASSUME NEW k \in T, \A j \in T : k <= j PROVE FALSE
  <2>1. k \in 0..i /\ k \in Nat /\ i \in Nat
    OBVIOUS
  <2>2. CASE k = 0
    <3>1. t[0] = p /\ p # None
      BY <1>2, TrailBegins, EventsAreTraces
    <3>2. p <= o
      BY <1>3
    <3>3. QED
      BY <1>3, <2>2, <3>1, <3>2
  <2>3. CASE k # 0
    <3>1. k \in 1..hops /\ k - 1 \in 0..i /\ ~(k <= k - 1) /\ k - 1 \in Nat
      BY <2>1, <2>3
    <3>2. Good(k - 1)
      BY <1>4, <3>1
    <3>3. PICK x : x = t[k - 1]
      OBVIOUS
    <3>4. /\ x \in Events(erb) /\ x <= o /\ Rec(erb, x) = Rec(erb, p) + (k - 1)
          /\ x \in Nat
      BY <3>2, <3>3, EventKind
    <3>5. Rec(erb, x) < Rec(erb, o)
      BY <1>3, <2>1, <3>4
    <3>6. x < o
      BY <1>3, <3>4, <3>5
    <3>7. /\ Leap(x, FALSE) \in Events(erb) /\ Leap(x, FALSE) <= o
          /\ Leap(x, FALSE) # None
          /\ Rec(erb, Leap(x, FALSE)) = Rec(erb, x) + 1
      BY <3>4, <3>5, <3>6, LeapUp
    <3>8. t[k] = Leap(x, FALSE)
      BY <1>2, <3>1, <3>3
    <3>9. (Rec(erb, p) + (k - 1)) + 1 = Rec(erb, p) + k
      BY <1>3, <2>1
    <3>10. Good(k)
      BY <3>4, <3>7, <3>8, <3>9
    <3>11. QED
      BY <3>10
  <2>4. QED
    BY <2>2, <2>3
<1>5. T \in SUBSET Nat
  OBVIOUS
<1>6. T = {}
  BY <1>4, <1>5, LeastExists
<1>7. Good(i)
  <2>1. i \in 0..i
    OBVIOUS
  <2>2. QED
    BY <1>6, <2>1
<1>8. QED
  BY <1>1, <1>7

\* Reading back gets from an event to any older one of the ring.
LEMMA TrailDown ==
    ASSUME Cells(erb), NEW cursor \in Nat, Ring(erb, cursor),
           NEW p \in Events(erb), NEW o \in Events(erb),
           NEW hops \in Nat, NEW i \in 0..hops,
           Rec(erb, o) + i <= Rec(erb, p)
    PROVE  /\ Trail(p, TRUE, hops)[i] \in Events(erb)
           /\ Trail(p, TRUE, hops)[i] # None
           /\ Rec(erb, Trail(p, TRUE, hops)[i]) = Rec(erb, p) - i
<1>1. PICK t : t = Trail(p, TRUE, hops)
  OBVIOUS
<1>2. /\ t[0] = Meet(None, p, TRUE)
      /\ \A k \in 1..hops : t[k] = Leap(t[k - 1], TRUE)
  BY <1>1, TrailUnfolds
<1>3. Rec(erb, p) \in Nat /\ Rec(erb, o) \in Nat
  BY EventKind
<1> DEFINE Good(k) == /\ t[k] \in Events(erb) /\ t[k] # None
                      /\ Rec(erb, t[k]) = Rec(erb, p) - k
           T == {k \in 0..i : ~Good(k)}
<1>4. ASSUME NEW k \in T, \A j \in T : k <= j PROVE FALSE
  <2>1. k \in 0..i /\ k \in Nat /\ i \in Nat
    OBVIOUS
  <2>2. CASE k = 0
    <3>1. t[0] = p /\ p # None
      BY <1>2, TrailBegins, EventsAreTraces
    <3>2. QED
      BY <1>3, <2>2, <3>1
  <2>3. CASE k # 0
    <3>1. k \in 1..hops /\ k - 1 \in 0..i /\ ~(k <= k - 1) /\ k - 1 \in Nat
      BY <2>1, <2>3
    <3>2. Good(k - 1)
      BY <1>4, <3>1
    <3>3. PICK x : x = t[k - 1]
      OBVIOUS
    <3>4. x \in Events(erb) /\ Rec(erb, x) = Rec(erb, p) - (k - 1)
      BY <3>2, <3>3
    <3>5. Rec(erb, o) < Rec(erb, x)
      BY <1>3, <2>1, <3>4
    <3>6. /\ Leap(x, TRUE) \in Events(erb) /\ Leap(x, TRUE) # None
          /\ Rec(erb, Leap(x, TRUE)) = Rec(erb, x) - 1
      BY <3>4, <3>5, LeapDown
    <3>7. t[k] = Leap(x, TRUE)
      BY <1>2, <3>1, <3>3
    <3>8. (Rec(erb, p) - (k - 1)) - 1 = Rec(erb, p) - k
      BY <1>3, <2>1
    <3>9. Good(k)
      BY <3>4, <3>6, <3>7, <3>8
    <3>10. QED
      BY <3>9
  <2>4. QED
    BY <2>2, <2>3
<1>5. T \in SUBSET Nat
  OBVIOUS
<1>6. T = {}
  BY <1>4, <1>5, LeastExists
<1>7. Good(i)
  <2>1. i \in 0..i
    OBVIOUS
  <2>2. QED
    BY <1>6, <2>1
<1>8. QED
  BY <1>1, <1>7

\* There is a place for every event.
LEMMA EventsFit ==
    ASSUME Cells(erb), NEW cursor \in Nat, Ring(erb, cursor),
           NEW p \in Events(erb), NEW o \in Events(erb),
           Rec(erb, o) <= Rec(erb, p)
    PROVE  Rec(erb, p) - Rec(erb, o) \in 0..Hops
<1>1. /\ Rec(erb, p) \in Nat /\ Rec(erb, o) \in Nat /\ Size \in Nat
      /\ Unbroken(erb)
  BY EventKind, EventRingAssumption DEF Ring
<1> DEFINE I == Rec(erb, o)..Rec(erb, p)
           at(r) == CHOOSE e \in Events(erb) : Rec(erb, e) = r
           f == [r \in I |-> at(r)]
<1>2. ASSUME NEW r \in I
      PROVE  at(r) \in Events(erb) /\ Rec(erb, at(r)) = r
  <2>1. r \in Nat /\ Rec(erb, o) <= r /\ r <= Rec(erb, p)
    BY <1>1
  <2>2. \E e \in Events(erb) : Rec(erb, e) = r
    BY <1>1, <2>1 DEF Unbroken
  <2>3. QED
    BY <2>2, Zenon
<1> HIDE DEF at
<1>3. f \in [I -> Offsets]
  BY <1>2, EventKind
<1>4. ASSUME NEW a \in I, NEW b \in I, f[a] = f[b] PROVE a = b
  BY <1>2, <1>4
<1>5. f \in Injection(I, Offsets)
  BY <1>3, <1>4 DEF Injection, IsInjective
<1>6. IsFiniteSet(Offsets) /\ Cardinality(Offsets) <= Size
  <2>1. 0 \in Int /\ Size - 1 \in Int
    BY <1>1
  <2>2. /\ IsFiniteSet(0..(Size - 1))
        /\ Cardinality(0..(Size - 1)) =
              IF 0 > Size - 1 THEN 0 ELSE (Size - 1) - 0 + 1
    BY <2>1, FS_Interval
  <2>3. QED
    BY <1>1, <2>2 DEF Offsets
<1>7. Cardinality(I) <= Cardinality(Offsets)
  BY <1>5, <1>6, FS_Injection
<1>8. Cardinality(I) = Rec(erb, p) - Rec(erb, o) + 1
  <2>1. Rec(erb, o) \in Int /\ Rec(erb, p) \in Int
        /\ ~(Rec(erb, o) > Rec(erb, p))
    BY <1>1
  <2>2. QED
    BY <2>1, FS_Interval
<1>9. Cardinality(Offsets) \in Nat
  BY <1>6, FS_CardinalityType
<1>10. QED
  BY <1>1, <1>6, <1>7, <1>8, <1>9 DEF Hops

\* From an entry of the index the events lead to the last one that is met.
LEMMA FollowedTo ==
    ASSUME Cells(erb), Traced(erb), NEW back \in BOOLEAN, NEW entry,
           entry[1] \in Offsets, NEW k \in 0..Hops,
           Trail(entry[1], back, Hops)[k] # None,
           Leap(Trail(entry[1], back, Hops)[k], back) = None
    PROVE  Followed(entry, back) = Rec(erb, Trail(entry[1], back, Hops)[k])
<1> DEFINE t == Trail(entry[1], back, Hops)
           met == {i \in 0..Hops : t[i] # None}
<1>1. Hops \in Nat
  BY EventRingAssumption DEF Hops
<1>2. \A i \in 1..Hops : t[i] = Leap(t[i - 1], back)
  BY <1>1, TrailUnfolds
<1>3. ASSUME NEW i \in met, k < i PROVE FALSE
  <2>1. i \in 0..Hops /\ t[i] # None /\ k + 1 \in 0..i /\ k + 1 \in 1..Hops
        /\ (k + 1) - 1 = k
    BY <1>1, <1>3
  <2>2. t[k + 1] # None
    BY <1>1, <2>1, TrailCounts
  <2>3. t[k + 1] = Leap(t[k], back)
    BY <1>2, <2>1
  <2>4. QED
    BY <2>2, <2>3
<1>4. k \in met /\ \A i \in met : i <= k
  <2>1. ASSUME NEW i \in met PROVE i <= k
    BY <1>1, <1>3
  <2>2. QED
    BY <2>1
<1>5. Most(met) = k
  <2>1. PICK m : m = Most(met)
    OBVIOUS
  <2>2. \E x \in met : \A y \in met : x >= y
    BY <1>4
  <2>3. m \in met /\ \A y \in met : m >= y
    BY <2>1, <2>2, Zenon DEF Most
  <2>4. m \in Nat /\ m >= k /\ m <= k /\ k \in Nat
    BY <1>1, <1>4, <2>3
  <2>5. QED
    BY <2>1, <2>4
<1>6. met # {}
  BY <1>4
<1>7. Followed(entry, back) = HeaderAt(erb, t[Most(met)]).record
  BY <1>6, Zenon DEF Followed
<1>8. QED
  BY <1>5, <1>7 DEF Rec

\* Back to the oldest event, unless that leads back to another.
LEMMA FollowedDown ==
    ASSUME Cells(erb), NEW cursor \in Nat, Ring(erb, cursor), Traced(erb),
           NEW o \in Events(erb), \A q \in Events(erb) : Rec(erb, o) <= Rec(erb, q),
           Halts(Rec(erb, o), HeaderAt(erb, HeaderAt(erb, o).previous), TRUE),
           NEW entry, entry[1] \in Events(erb)
    PROVE  Followed(entry, TRUE) = Rec(erb, o)
<1>1. PICK p : p = entry[1]
  OBVIOUS
<1>2. /\ p \in Events(erb) /\ p \in Offsets /\ Rec(erb, o) <= Rec(erb, p)
      /\ Rec(erb, p) \in Nat /\ Rec(erb, o) \in Nat /\ o \in Nat
      /\ Rising(erb, cursor) /\ Hops \in Nat
  BY <1>1, EventKind, EventRingAssumption DEF Ring, Hops
<1>3. PICK k : k = Rec(erb, p) - Rec(erb, o)
  OBVIOUS
<1>4. k \in 0..Hops /\ Rec(erb, o) + k <= Rec(erb, p)
      /\ Rec(erb, p) - k = Rec(erb, o)
  BY <1>2, <1>3, EventsFit
<1>5. PICK x : x = Trail(p, TRUE, Hops)[k]
  OBVIOUS
<1>6. x \in Events(erb) /\ x # None /\ Rec(erb, x) = Rec(erb, o)
  BY <1>2, <1>4, <1>5, TrailDown
<1>7. x = o
  BY <1>2, <1>6, OrderWhole
<1>8. Leap(x, TRUE) = None
  BY <1>7 DEF Leap, Meet, Beyond, Rec
<1>9. QED
  BY <1>1, <1>2, <1>4, <1>5, <1>6, <1>8, FollowedTo

\* On to the newest event, unless that is before where it begins.
LEMMA FollowedUp ==
    ASSUME Cells(erb), NEW cursor \in Nat, Ring(erb, cursor), Traced(erb),
           NEW o \in Events(erb), \A q \in Events(erb) : Rec(erb, q) <= Rec(erb, o),
           NEW entry, entry[1] \in Events(erb),
           \/ entry[1] = o
           \/ (entry[1] < o /\ Rec(erb, entry[1]) < Rec(erb, o))
    PROVE  Followed(entry, FALSE) = Rec(erb, o)
<1>1. PICK p : p = entry[1]
  OBVIOUS
<1>2. /\ p \in Events(erb) /\ p \in Offsets /\ Rec(erb, p) <= Rec(erb, o)
      /\ Rec(erb, p) \in Nat /\ Rec(erb, o) \in Nat /\ o \in Nat
      /\ Rising(erb, cursor) /\ Hops \in Nat
  BY <1>1, EventKind, EventRingAssumption DEF Ring, Hops
<1>3. PICK k : k = Rec(erb, o) - Rec(erb, p)
  OBVIOUS
<1>4. k \in 0..Hops /\ Rec(erb, p) + k <= Rec(erb, o)
      /\ Rec(erb, p) + k = Rec(erb, o)
  BY <1>2, <1>3, EventsFit
<1>5. PICK x : x = Trail(p, FALSE, Hops)[k]
  OBVIOUS
<1>6. x \in Events(erb) /\ x # None /\ Rec(erb, x) = Rec(erb, o)
  BY <1>1, <1>2, <1>4, <1>5, TrailUp
<1>7. Leap(x, FALSE) = None
  <2>1. ASSUME Leap(x, FALSE) # None PROVE FALSE
    <3>1. PICK y : y = Leap(x, FALSE)
      OBVIOUS
    <3>2. y \in Traces(erb) /\ Rec(erb, y) = Rec(erb, o) + 1
      <4>1. x \in Traces(erb) /\ FALSE \in BOOLEAN
        BY <1>6, EventsAreTraces
      <4>2. /\ y \in Traces(erb)
            /\ Rec(erb, y) = Rec(erb, x) + (IF FALSE THEN -1 ELSE 1)
        BY <2>1, <3>1, <4>1, LeapCounts, Zenon
      <4>3. (IF FALSE THEN -1 ELSE 1) = 1
        OBVIOUS
      <4>4. Rec(erb, y) = Rec(erb, x) + 1
        BY <4>2, <4>3, Zenon
      <4>5. QED
        BY <1>6, <4>2, <4>4, Zenon
    <3>3. y \notin Events(erb)
      <4>1. ASSUME y \in Events(erb) PROVE FALSE
        <5>1. Rec(erb, y) <= Rec(erb, o)
          BY <4>1
        <5>2. PICK r \in Nat : r = Rec(erb, o)
          BY <1>2
        <5>3. Rec(erb, y) = r + 1
          BY <3>2, <5>2, Zenon
        <5>4. QED
          BY <5>1, <5>2, <5>3
      <4>2. QED
        BY <4>1
    <3>4. Rec(erb, y) < Rec(erb, o)
      BY <3>2, <3>3 DEF Traced, LeftBehind
    <3>5. QED
      BY <1>2, <3>2, <3>4
  <2>2. QED
    BY <2>1
<1>8. QED
  BY <1>1, <1>2, <1>4, <1>5, <1>6, <1>7, FollowedTo

-----------------------------------------------------------------------------
(* The readers.                                                            *)

Readers ==
    [ret : [off : {None} \cup Offsets, record : None..MaxRecord,
            way : {"none", "forward", "back"}],
     applied : None..MaxRecord]

\* The ring can be read, and its records are within the bound.
Legible ==
    /\ Whole /\ Traced(erb)
    /\ cdorb \in Seq(Entries) /\ Lists(cdorb, erb, recordcursor)
    /\ record <= MaxRecord + 1

\* The database has the state of the event that the cursor is at.
Level(reader) ==
    /\ reader.applied = reader.ret.record
    /\ reader.ret.record # None /\ reader.ret.off \in Traces(erb) =>
          Rec(erb, reader.ret.off) = reader.ret.record

LEMMA LegibleRing ==
    ASSUME Legible
    PROVE  /\ Cells(erb) /\ Traced(erb) /\ Ring(erb, recordcursor)
           /\ recordcursor \in Nat /\ recordcursor \in Offsets
           /\ Top \in Nat /\ MaxRecord \in Nat /\ Top <= MaxRecord
           /\ None \in Int /\ None < 0 /\ None \notin Offsets
           /\ \A o \in Traces(erb) :
                 /\ Rec(erb, o) \in Nat /\ Rec(erb, o) > 0
                 /\ Rec(erb, o) <= Top /\ Rec(erb, o) <= MaxRecord
                 /\ Rec(erb, o) \in None..MaxRecord
<1>1. /\ Whole /\ Cells(erb) /\ Traced(erb) /\ Ring(erb, recordcursor)
      /\ recordcursor \in 0..(Size - HeaderSize)
      /\ record \in Nat /\ Len(write_q) \in Nat /\ MaxRecord \in Nat
      /\ record <= MaxRecord + 1
  BY EventRingAssumption DEF Legible, Whole, QueueOK, Numbered
<1>2. Top \in Nat /\ Top <= MaxRecord
  <2>1. Top \in Nat
    BY <1>1, WholeRing
  <2>2. QED
    BY <1>1, <2>1 DEF Top
<1>3. recordcursor \in Nat /\ recordcursor \in Offsets
  BY <1>1, EventRingAssumption DEF Offsets
<1>4. None \in Int /\ None < 0 /\ None \notin Offsets
  BY EventRingAssumption DEF None, Offsets
<1>5. ASSUME NEW o \in Traces(erb)
      PROVE  /\ Rec(erb, o) \in Nat /\ Rec(erb, o) > 0
             /\ Rec(erb, o) <= Top /\ Rec(erb, o) <= MaxRecord
             /\ Rec(erb, o) \in None..MaxRecord
  <2>1. Rec(erb, o) \in Nat /\ Rec(erb, o) > 0 /\ Rec(erb, o) <= Top
    BY <1>1, TracesOld, TraceKind
  <2>2. QED
    BY <1>1, <1>2, <1>4, <2>1
<1>6. QED
  BY <1>1, <1>2, <1>3, <1>4, <1>5

\* A walk is as many records away as it has met events.
LEMMA WalkCounts ==
    ASSUME Legible, NEW off \in Offsets, NEW offset \in Int, NEW hops \in Nat,
           hops = IF offset < 0 THEN -offset ELSE offset, NEW n \in 0..hops,
           Trail(off, offset < 0, hops)[n] # None
    PROVE  /\ off \in Traces(erb)
           /\ Trail(off, offset < 0, hops)[0] = off
           /\ Trail(off, offset < 0, hops)[n] \in Traces(erb)
           /\ Rec(erb, Trail(off, offset < 0, hops)[n]) =
                 Rec(erb, off) + (IF offset < 0 THEN -n ELSE n)
           /\ \A j \in 0..n : Trail(off, offset < 0, hops)[j] # None
<1>1. PICK t : t = Trail(off, offset < 0, hops)
  OBVIOUS
<1>2. Cells(erb) /\ Traced(erb) /\ TRUE \in BOOLEAN /\ FALSE \in BOOLEAN
  BY LegibleRing
<1>3. CASE offset < 0
  <2>1. (offset < 0) = TRUE
    BY <1>3
  <2>2. t = Trail(off, TRUE, hops)
    BY <1>1, <2>1, Zenon
  <2>3. Trail(off, TRUE, hops)[n] # None
    BY <1>1, <2>2
  <2>4. /\ off \in Traces(erb) /\ t[0] = off /\ t[n] \in Traces(erb)
        /\ Rec(erb, t[n]) = Rec(erb, off) + (IF TRUE THEN -n ELSE n)
    BY <1>2, <2>2, <2>3, TrailCounts, Zenon
  <2>5. \A j \in 0..n : Trail(off, TRUE, hops)[j] # None
    BY <1>2, <2>3, TrailCounts, Zenon
  <2>6. \A j \in 0..n : t[j] # None
    BY <2>2, <2>5
  <2>7. QED
    BY <1>1, <1>3, <2>4, <2>6
<1>4. CASE ~(offset < 0)
  <2>1. (offset < 0) = FALSE
    BY <1>4
  <2>2. t = Trail(off, FALSE, hops)
    BY <1>1, <2>1, Zenon
  <2>3. Trail(off, FALSE, hops)[n] # None
    BY <1>1, <2>2
  <2>4. /\ off \in Traces(erb) /\ t[0] = off /\ t[n] \in Traces(erb)
        /\ Rec(erb, t[n]) = Rec(erb, off) + (IF FALSE THEN -n ELSE n)
    BY <1>2, <2>2, <2>3, TrailCounts, Zenon
  <2>5. \A j \in 0..n : Trail(off, FALSE, hops)[j] # None
    BY <1>2, <2>3, TrailCounts, Zenon
  <2>6. \A j \in 0..n : t[j] # None
    BY <2>2, <2>5
  <2>7. QED
    BY <1>1, <1>4, <2>4, <2>6
<1>5. QED
  BY <1>3, <1>4

\* What a walk comes to: some event on the way, and the database with it.
Arrives(reader, offset, w) ==
    /\ w.outcome \in {"done", "NoEvent", "raised"}
    /\ w.reader \in Readers
    /\ w.reader.ret.off # None
    /\ w.outcome = "done" =>
          /\ reader.ret.off \in Traces(erb)
          /\ w.reader.ret.record = Rec(erb, reader.ret.off) + offset
    /\ Level(reader) => Level(w.reader)

LEMMA Walks ==
    ASSUME Legible, NEW reader \in Readers, reader.ret.off # None,
           reader.ret.record # None, NEW offset \in Int, NEW sound \in Nat
    PROVE  Arrives(reader, offset, SeekOffsetFromCur(reader, offset, sound))
<1> DEFINE back      == offset < 0
           hops      == IF back THEN -offset ELSE offset
           trail     == Trail(reader.ret.off, back, hops)
           header(i) == HeaderAt(erb, trail[i])
           first     == IF reader.ret.way = Way(offset) THEN 1 ELSE 0
           raises(i) == i >= first + sound /\ header(i).type # "dump"
           bars      == {i \in 0..hops : trail[i] = None \/ raises(i)}
           n         == IF bars = {} THEN hops ELSE Least(bars) - 1
           moved     == [ret     |-> [reader.ret EXCEPT
                                        !.off = trail[n],
                                        !.record = header(n).record],
                         applied |-> IF n < first THEN reader.applied
                                     ELSE header(n).record]
           w == SeekOffsetFromCur(reader, offset, sound)
<1>1. w = [reader |-> IF n < 0 THEN reader ELSE moved,
           outcome |-> IF bars = {} THEN "done"
                       ELSE IF trail[n + 1] = None THEN "NoEvent"
                       ELSE "raised"]
  BY Zenon DEF SeekOffsetFromCur
<1>2. /\ back \in BOOLEAN /\ hops \in Nat /\ first \in {0, 1}
      /\ hops = IF back THEN -offset ELSE offset
      /\ reader.ret.off \in Offsets
  BY DEF Readers
<1>3. /\ bars \in SUBSET (0..hops)
      /\ \A i \in 0..hops : i \notin bars => trail[i] # None
      /\ \A i \in bars : trail[i] = None \/ raises(i)
  OBVIOUS
<1> HIDE DEF bars, first
<1>4. \/ n = -1 /\ bars # {}
      \/ n \in 0..hops /\ trail[n] # None /\ (bars = {} => n = hops)
  <2>1. CASE bars = {}
    <3>1. n = hops /\ n \in 0..hops
      BY <1>2, <2>1
    <3>2. n \notin bars
      BY <2>1
    <3>3. QED
      BY <1>3, <3>1, <3>2
  <2>2. CASE bars # {}
    <3>1. bars \in SUBSET Nat
      BY <1>2, <1>3
    <3>2. \E b \in bars : \A c \in bars : b <= c
      BY <2>2, <3>1, LeastExists
    <3>3. PICK b : b = Least(bars)
      OBVIOUS
    <3>4. b \in bars /\ \A c \in bars : b <= c
      BY <3>2, <3>3, Zenon DEF Least
    <3>5. n = b - 1 /\ b \in 0..hops /\ b \in Nat
      BY <1>2, <1>3, <2>2, <3>3, <3>4
    <3>6. b - 1 \notin bars
      BY <3>4, <3>5
    <3>7. b = 0 \/ b - 1 \in 0..hops
      BY <1>2, <3>5
    <3>8. n = -1 \/ (n \in 0..hops /\ n \notin bars)
      <4>1. b = 0 => n = -1
        BY <3>5
      <4>2. b - 1 \in 0..hops => n \in 0..hops /\ n \notin bars
        BY <3>5, <3>6, Zenon
      <4>3. QED
        BY <3>7, <4>1, <4>2, Zenon
    <3>9. QED
      BY <1>3, <2>2, <3>8
  <2>3. QED
    BY <2>1, <2>2
<1> HIDE DEF n
<1>5. ASSUME n \in 0..hops
      PROVE  /\ reader.ret.off \in Traces(erb)
             /\ trail[0] = reader.ret.off
             /\ trail[n] \in Traces(erb)
             /\ Rec(erb, trail[n]) =
                   Rec(erb, reader.ret.off) + (IF offset < 0 THEN -n ELSE n)
  <2>1. trail[n] # None
    BY <1>2, <1>4, <1>5
  <2>2. Trail(reader.ret.off, offset < 0, hops)[n] # None
    BY <2>1
  <2>3. QED
    BY <1>2, <1>5, <2>2, WalkCounts
<1> HIDE DEF trail
<1>6. CASE n = -1
  <2>1. w.reader = reader /\ w.outcome \in {"NoEvent", "raised"}
    BY <1>1, <1>4, <1>6
  <2>2. QED
    BY <2>1 DEF Arrives
<1> HIDE DEF moved, w
<1>7. CASE n \in 0..hops
  <2>1. ~(n < 0) /\ n \in Nat
    BY <1>2, <1>7
  <2>2. PICK x : x = trail[n]
    OBVIOUS
  <2>3. /\ x \in Traces(erb) /\ x \in Offsets /\ x # None
        /\ Rec(erb, x) = header(n).record
        /\ Rec(erb, x) \in None..MaxRecord /\ Rec(erb, x) # None
    BY <1>5, <1>7, <2>2, LegibleRing DEF Rec, Traces
  <2>4. w.reader = moved
    BY <1>1, <2>1
  <2>5. PICK a : a = IF n < first THEN reader.applied ELSE Rec(erb, x)
    OBVIOUS
  <2>6. w.reader = [ret     |-> [reader.ret EXCEPT !.off = x,
                                                   !.record = Rec(erb, x)],
                    applied |-> a]
    BY <2>2, <2>3, <2>4, <2>5, Zenon DEF moved
  <2>7. a \in None..MaxRecord
    BY <2>3, <2>5 DEF Readers
  <2>8. /\ w.reader.ret.off = x /\ w.reader.ret.record = Rec(erb, x)
        /\ w.reader.applied = a
        /\ w.reader \in Readers
    <3>1. x \in {None} \cup Offsets /\ Rec(erb, x) \in None..MaxRecord
      BY <2>3
    <3>2. PICK m : m = w.reader
      OBVIOUS
    <3>3. PICK r \in None..MaxRecord : r = Rec(erb, x)
      BY <3>1
    <3>4. m = [ret     |-> [reader.ret EXCEPT !.off = x, !.record = r],
               applied |-> a]
      BY <2>6, <3>2, <3>3, Zenon
    <3>5. /\ m.ret.off = x /\ m.ret.record = r
          /\ m.applied = a /\ m \in Readers
      BY <2>7, <3>1, <3>4 DEF Readers
    <3>6. QED
      BY <3>2, <3>3, <3>5, Zenon
  <2>9. /\ w.outcome \in {"done", "NoEvent", "raised"}
        /\ w.outcome = "done" => bars = {}
    BY <1>1
  <2>10. ASSUME w.outcome = "done"
        PROVE  /\ reader.ret.off \in Traces(erb)
               /\ w.reader.ret.record = Rec(erb, reader.ret.off) + offset
    <3>1. n = hops
      BY <1>2, <1>4, <2>1, <2>9, <2>10
    <3>2. (IF offset < 0 THEN -n ELSE n) = offset
      BY <1>2, <3>1
    <3>3. QED
      BY <1>5, <1>7, <2>2, <2>8, <3>2
  <2>11. ASSUME Level(reader) PROVE Level(w.reader)
    <3>1. CASE n < first
      <4>1. n = 0
        BY <1>2, <2>1, <3>1
      <4>2. x = reader.ret.off
        BY <1>5, <1>7, <2>2, <4>1
      <4>3. w.reader.applied = Rec(erb, x)
        BY <2>3, <2>5, <2>8, <2>11, <3>1, <4>2 DEF Level
      <4>4. QED
        BY <2>8, <4>3 DEF Level
    <3>2. CASE ~(n < first)
      BY <2>5, <2>8, <3>2 DEF Level
    <3>3. QED
      BY <3>1, <3>2
  <2>12. w.reader.ret.off # None
    BY <2>3, <2>8
  <2>13. Arrives(reader, offset, w)
    BY <2>8, <2>9, <2>10, <2>11, <2>12 DEF Arrives
  <2>14. QED
    BY <2>13 DEF w
<1>8. QED
  BY <1>4, <1>6, <1>7

\* A walk on which every event can be applied is done, unless it comes to
\* where the events end.
LEMMA WalksOut ==
    ASSUME Legible, NEW reader \in Readers, reader.ret.off # None,
           NEW offset \in Int, NEW hops \in Nat,
           hops = IF offset < 0 THEN -offset ELSE offset
    PROVE  /\ Trail(reader.ret.off, offset < 0, hops)[hops] # None =>
                 SeekOffsetFromCur(reader, offset, AllSound).outcome = "done"
           /\ Trail(reader.ret.off, offset < 0, hops)[hops] = None =>
                 SeekOffsetFromCur(reader, offset, AllSound).outcome = "NoEvent"
<1> DEFINE back      == offset < 0
           many      == IF back THEN -offset ELSE offset
           trail     == Trail(reader.ret.off, back, many)
           header(i) == HeaderAt(erb, trail[i])
           first     == IF reader.ret.way = Way(offset) THEN 1 ELSE 0
           raises(i) == i >= first + AllSound /\ header(i).type # "dump"
           bars      == {i \in 0..many : trail[i] = None \/ raises(i)}
           n         == IF bars = {} THEN many ELSE Least(bars) - 1
           moved     == [ret     |-> [reader.ret EXCEPT
                                        !.off = trail[n],
                                        !.record = header(n).record],
                         applied |-> IF n < first THEN reader.applied
                                     ELSE header(n).record]
           w == SeekOffsetFromCur(reader, offset, AllSound)
<1>1. w = [reader |-> IF n < 0 THEN reader ELSE moved,
           outcome |-> IF bars = {} THEN "done"
                       ELSE IF trail[n + 1] = None THEN "NoEvent"
                       ELSE "raised"]
  BY Zenon DEF SeekOffsetFromCur
<1> HIDE DEF moved, w
<1>2. /\ first \in {0, 1} /\ many = hops /\ reader.ret.off \in Offsets
      /\ AllSound \in Nat /\ AllSound = MaxRecord + 1 /\ MaxRecord \in Nat
  BY EventRingAssumption DEF Readers, AllSound
<1>3. PICK t : t = Trail(reader.ret.off, offset < 0, hops)
  OBVIOUS
<1>4. trail = t
  BY <1>2, <1>3, Zenon
<1>5. ASSUME NEW i \in 0..hops, t[i] # None
      PROVE  ~raises(i) /\ \A j \in 0..i : t[j] # None
  <2>1. Trail(reader.ret.off, offset < 0, hops)[i] # None
    BY <1>3, <1>5
  <2>2. /\ reader.ret.off \in Traces(erb) /\ t[i] \in Traces(erb)
        /\ Rec(erb, t[i]) =
              Rec(erb, reader.ret.off) + (IF offset < 0 THEN -i ELSE i)
        /\ \A j \in 0..i : t[j] # None
    BY <1>2, <1>3, <2>1, WalkCounts
  <2>3. /\ Rec(erb, t[i]) \in Nat /\ Rec(erb, t[i]) <= MaxRecord
        /\ Rec(erb, t[i]) > 0
        /\ Rec(erb, reader.ret.off) \in Nat
        /\ Rec(erb, reader.ret.off) <= MaxRecord
        /\ Rec(erb, reader.ret.off) > 0
    BY <2>2, LegibleRing
  <2>4. i < MaxRecord
    BY <1>2, <2>2, <2>3
  <2>5. ~(i >= first + AllSound)
    <3> HIDE DEF first
    <3>1. QED
      BY <1>2, <2>4
  <2>6. QED
    BY <2>2, <2>5
<1> HIDE DEF trail, raises, first
<1>6. /\ \A i \in bars : i \in 0..hops /\ t[i] = None
      /\ \A i \in 0..hops : t[i] = None => i \in bars
  BY <1>2, <1>4, <1>5
<1> HIDE DEF bars
<1>7. CASE t[hops] # None
  <2>1. \A j \in 0..hops : t[j] # None
    BY <1>5, <1>7
  <2>2. bars = {}
    BY <1>6, <2>1
  <2>3. w.outcome = "done"
    BY <1>1, <2>2
  <2>4. QED
    BY <1>3, <1>7, <2>3 DEF w
<1>8. CASE t[hops] = None
  <2>1. bars # {} /\ bars \in SUBSET Nat
    BY <1>6, <1>8
  <2>2. \E b \in bars : \A c \in bars : b <= c
    BY <2>1, LeastExists
  <2>3. PICK b : b = Least(bars)
    OBVIOUS
  <2>4. b \in bars
    BY <2>2, <2>3, Zenon DEF Least
  <2>5. n = b - 1 /\ b \in Nat
    BY <2>1, <2>3, <2>4
  <2>6. n + 1 = b
    BY <2>5
  <2>7. trail[n + 1] = None
    BY <1>4, <1>6, <2>4, <2>6
  <2>8. w.outcome = "NoEvent"
    BY <1>1, <2>1, <2>7
  <2>9. QED
    BY <1>3, <1>8, <2>8 DEF w
<1>9. QED
  BY <1>7, <1>8, <1>3

\* An entry of the index is the offset and the record of a dump.
LEMMA EntryDump ==
    ASSUME Legible, NEW i \in 1..Len(cdorb)
    PROVE  /\ cdorb[i][1] \in Events(erb) /\ cdorb[i][1] \in Offsets
           /\ cdorb[i][2] = Rec(erb, cdorb[i][1])
           /\ cdorb[i][2] \in Nat
           /\ HeaderAt(erb, cdorb[i][1]).type = "dump"
<1>1. /\ cdorb \in Seq(Entries) /\ Lists(cdorb, erb, recordcursor) /\ Cells(erb)
  BY LegibleRing DEF Legible
<1>2. PICK o \in Dumps(erb) : cdorb[i] = <<o, HeaderAt(erb, o).record>>
  BY <1>1 DEF Lists
<1>3. o \in Events(erb) /\ HeaderAt(erb, o).type = "dump"
  BY DumpKind
<1>4. o \in Offsets /\ Rec(erb, o) \in Nat
  BY <1>1, <1>3, EventKind
<1>5. cdorb[i][1] = o /\ cdorb[i][2] = Rec(erb, o)
  BY <1>2 DEF Rec
<1>6. QED
  BY <1>3, <1>4, <1>5

\* Every dump has an entry.
LEMMA DumpEntry ==
    ASSUME Legible, NEW o \in Events(erb), HeaderAt(erb, o).type = "dump"
    PROVE  \E i \in 1..Len(cdorb) : cdorb[i][1] = o
<1>1. o \in Dumps(erb) /\ Lists(cdorb, erb, recordcursor)
  BY DumpKind DEF Legible
<1>2. PICK i \in 1..Len(cdorb) : cdorb[i] = <<o, HeaderAt(erb, o).record>>
  BY <1>1 DEF Lists
<1>3. QED
  BY <1>2

\* The closest dump is one of the index; in a first attempt it is the newest
\* one up to the record, or there is none up to it.
LEMMA ClosestTaken ==
    ASSUME Legible, cdorb # <<>>, NEW rec \in Int, NEW again \in BOOLEAN
    PROVE  \E i \in 1..Len(cdorb) :
              /\ ClosestCdo(rec, again) = cdorb[i]
              /\ again
                 \/ rec < cdorb[i][2]
                 \/ /\ cdorb[i][2] <= rec
                    /\ \A j \in 1..Len(cdorb) :
                          cdorb[j][2] <= rec => cdorb[j][2] <= cdorb[i][2]
<1> DEFINE S == {i \in 1..Len(cdorb) :
                   IF again THEN cdorb[i][2] < rec ELSE cdorb[i][2] <= rec}
<1>1. /\ cdorb \in Seq(Entries) /\ Len(cdorb) \in Nat
      /\ Lists(cdorb, erb, recordcursor)
      /\ Cells(erb) /\ recordcursor \in Nat /\ Rising(erb, recordcursor)
  BY LegibleRing DEF Legible, Ring
<1>2. ClosestCdo(rec, again) = IF S = {} THEN Head(cdorb) ELSE cdorb[Most(S)]
  BY Zenon DEF ClosestCdo
<1>3. \A i \in 1..Len(cdorb) : cdorb[i][2] \in Nat
  BY EntryDump
<1>4. /\ S \in SUBSET (1..Len(cdorb))
      /\ ~again => \A i \in 1..Len(cdorb) : i \in S <=> cdorb[i][2] <= rec
  OBVIOUS
<1> HIDE DEF S
<1>5. CASE S = {}
  <2>1. 1 \in 1..Len(cdorb) /\ ClosestCdo(rec, again) = cdorb[1]
    BY <1>1, <1>2, <1>5
  <2>2. ~again => rec < cdorb[1][2]
    BY <1>3, <1>4, <1>5, <2>1
  <2>3. QED
    BY <2>1, <2>2
<1>6. CASE S # {}
  <2>1. \E m \in S : \A k \in S : m >= k
    <3>1. PICK l \in Nat : l = Len(cdorb)
      BY <1>1
    <3>2. S \in SUBSET (0..l) /\ S \in SUBSET Nat
      BY <1>1, <1>4, <3>1
    <3>3. PICK m \in S : \A k \in S : k <= m
      BY <1>6, <3>2, GreatestExists
    <3>4. \A k \in S : m >= k
      BY <3>2, <3>3
    <3>5. QED
      BY <3>4
  <2>2. PICK m : m = Most(S)
    OBVIOUS
  <2>3. m \in S /\ \A k \in S : m >= k
    BY <2>1, <2>2, Zenon DEF Most
  <2>4. m \in 1..Len(cdorb) /\ ClosestCdo(rec, again) = cdorb[m]
    BY <1>2, <1>4, <1>6, <2>2, <2>3
  <2>5. ASSUME ~again, NEW j \in 1..Len(cdorb), cdorb[j][2] <= rec
        PROVE  cdorb[j][2] <= cdorb[m][2]
    <3>1. j \in S /\ j <= m
      BY <1>4, <2>3, <2>5
    <3>2. CASE j = m
      BY <1>3, <3>2
    <3>3. CASE j # m
      <4>1. j < m
        BY <2>4, <3>1, <3>3
      <4>2. Precedes(recordcursor, cdorb[j][1], cdorb[m][1])
        BY <1>1, <2>4, <4>1 DEF Lists
      <4>3. Rec(erb, cdorb[j][1]) < Rec(erb, cdorb[m][1])
        BY <1>1, <2>4, <4>2, EntryDump DEF Rising
      <4>4. cdorb[j][2] < cdorb[m][2]
        BY <2>4, <4>3, EntryDump
      <4>5. QED
        BY <1>3, <2>4, <4>4
    <3>4. QED
      BY <3>2, <3>3
  <2>6. ~again => cdorb[m][2] <= rec
    BY <1>4, <2>3, <2>4
  <2>7. QED
    BY <2>4, <2>5, <2>6
<1>7. QED
  BY <1>5, <1>6

\* A reader at a dump.
LEMMA DumpReader ==
    ASSUME Legible, NEW i \in 1..Len(cdorb), NEW r, r = AtDump(cdorb[i])
    PROVE  /\ r \in Readers /\ Level(r)
           /\ r.ret.off = cdorb[i][1] /\ r.ret.off \in Offsets
           /\ r.ret.off # None
           /\ r.ret.record = cdorb[i][2] /\ r.ret.record # None
<1>1. PICK o, rec : o = cdorb[i][1] /\ rec = cdorb[i][2]
  OBVIOUS
<1>2. /\ o \in Events(erb) /\ o \in Offsets /\ o # None
      /\ rec = Rec(erb, o) /\ rec \in Nat
      /\ rec \in None..MaxRecord /\ rec # None
  BY <1>1, EntryDump, LegibleRing, EventsAreTraces
<1>3. r = [ret |-> [off |-> o, record |-> rec, way |-> "none"],
           applied |-> rec]
  BY <1>1, Zenon DEF AtDump
<1>4. /\ r.ret.off = o /\ r.ret.record = rec /\ r.applied = rec
      /\ r \in Readers
  BY <1>2, <1>3 DEF Readers
<1>5. QED
  BY <1>1, <1>2, <1>4 DEF Level

\* The events in memory are numbered on from the newest of the ring.
LEMMA QueueRecords ==
    ASSUME Legible, NEW i \in 1..Len(write_q)
    PROVE  /\ write_q[i].record = Top + i
           /\ write_q[i].record \in 1..MaxRecord
           /\ write_q # <<>> /\ Len(write_q) \in Nat /\ Len(write_q) <= MaxRecord
           /\ write_q[1].record = Top + 1
           /\ write_q[Len(write_q)].record = record - 1
           /\ write_q[Len(write_q)].record = Top + Len(write_q)
<1>1. /\ Whole /\ write_q \in Seq(Queued) /\ record \in Nat
      /\ record <= MaxRecord + 1
      /\ \A j \in 1..Len(write_q) : write_q[j].record = Top + j
  BY DEF Legible, Whole, QueueOK, Numbered
<1>2. PICK l \in Nat : l = Len(write_q)
  BY <1>1
<1>3. /\ Top \in Nat /\ MaxRecord \in Nat /\ Top = (record - 1) - l
      /\ i \in 1..l /\ 1 \in 1..l /\ l \in 1..l
  BY <1>2, LegibleRing DEF Top
<1>4. /\ write_q[i].record = Top + i /\ write_q[1].record = Top + 1
      /\ write_q[l].record = Top + l
  BY <1>1, <1>2, <1>3
<1>5. Top + l = record - 1 /\ l <= MaxRecord /\ Top + i \in 1..MaxRecord
  <2>1. PICK t \in Nat : t = Top
    BY <1>3
  <2>2. record \in Nat /\ record <= MaxRecord + 1
    BY <1>1
  <2>3. t = (record - 1) - l /\ l \in Nat /\ MaxRecord \in Nat
    BY <1>3, <2>1, <1>2
  <2>4. /\ t + l = record - 1 /\ l <= MaxRecord /\ t + i \in 1..MaxRecord
    BY <1>3, <2>2, <2>3
  <2>5. QED
    BY <2>1, <2>4
<1>6. write_q # <<>>
  BY <1>2, <1>3
<1>7. QED
  BY <1>2, <1>4, <1>5, <1>6

\* What a search of the memory comes to.
Sought(reader, target, s) ==
    /\ s.reader \in Readers
    /\ s.outcome \in {"done", "failed"}
    /\ s.outcome = "done" => s.reader.ret.record = target
    /\ Level(reader) => Level(s.reader)

LEMMA MemorySought ==
    ASSUME Legible, NEW reader \in Readers, NEW way \in {"forward", "back"},
           NEW target \in Int, InMemory(target), NEW sound \in Nat
    PROVE  /\ Sought(reader, target, WriteQSeek(reader, way, target, sound))
           /\ sound = AllSound =>
                 WriteQSeek(reader, way, target, sound).outcome = "done"
<1> DEFINE upto  == target - write_q[1].record + 1
           bad   == {i \in (sound + 1)..upto : write_q[i].type # "dump"}
           n     == IF bad = {} THEN upto ELSE Least(bad) - 1
           last  == write_q[n].record
           moved == IF n = 0 THEN [reader EXCEPT !.ret.off = None]
                    ELSE [ret     |-> [reader.ret EXCEPT !.off = None,
                                                         !.record = last],
                          applied |-> last]
           s     == WriteQSeek(reader, way, target, sound)
<1>1. s = IF bad = {}
          THEN [reader |-> [moved EXCEPT !.ret.way = way], outcome |-> "done"]
          ELSE [reader |-> moved, outcome |-> "failed"]
  BY Zenon DEF WriteQSeek
<1>2. PICK l \in Nat : l = Len(write_q)
  BY DEF Legible, Whole, QueueOK
<1>3. /\ l > 0 /\ l <= MaxRecord /\ Top \in Nat /\ MaxRecord \in Nat
      /\ write_q[1].record = Top + 1
      /\ target \in (Top + 1)..(Top + l)
      /\ \A i \in 1..l : /\ write_q[i].record = Top + i
                         /\ write_q[i].record \in 1..MaxRecord
  <2>1. write_q # <<>> /\ target \in write_q[1].record..write_q[Len(write_q)].record
    BY DEF InMemory
  <2>2. l > 0
    BY <1>2, <2>1 DEF Legible, Whole, QueueOK
  <2>3. 1 \in 1..Len(write_q)
    BY <1>2, <2>2
  <2>4. QED
    BY <1>2, <2>1, <2>2, <2>3, QueueRecords, LegibleRing
<1>4. upto = target - Top /\ upto \in 1..l /\ upto \in Nat
  BY <1>3
<1> HIDE DEF upto
<1>5. /\ bad \in SUBSET ((sound + 1)..upto) /\ bad \in SUBSET Nat
  BY <1>4
<1> HIDE DEF bad
<1>6. n \in 0..l /\ (bad = {} => n = upto)
  <2>1. CASE bad = {}
    BY <1>4, <2>1
  <2>2. CASE bad # {}
    <3>1. \E b \in bad : \A c \in bad : b <= c
      BY <1>5, <2>2, LeastExists
    <3>2. PICK b : b = Least(bad)
      OBVIOUS
    <3>3. b \in bad
      BY <3>1, <3>2, Zenon DEF Least
    <3>4. b \in (sound + 1)..upto
      BY <1>5, <3>3
    <3>5. n = b - 1
      BY <2>2, <3>2
    <3>6. QED
      BY <1>4, <2>2, <3>4, <3>5
  <2>3. QED
    BY <2>1, <2>2
<1> HIDE DEF n
<1>7. /\ moved \in Readers /\ moved.ret.off = None
      /\ Level(reader) => moved.applied = moved.ret.record
      /\ bad = {} => moved.ret.record = target
  <2>1. CASE n = 0
    <3>1. moved = [reader EXCEPT !.ret.off = None]
      BY <2>1
    <3> HIDE DEF moved
    <3>2. moved \in Readers /\ moved.ret.off = None
          /\ moved.applied = reader.applied
          /\ moved.ret.record = reader.ret.record
      BY <3>1 DEF Readers
    <3>3. bad # {}
      BY <1>4, <1>6, <2>1
    <3>4. QED
      BY <3>2, <3>3 DEF Level
  <2>2. CASE n # 0
    <3>1. n \in 1..l
      BY <1>6, <2>2
    <3>2. PICK r : r = last
      OBVIOUS
    <3>3. r = Top + n /\ r \in 1..MaxRecord /\ r \in None..MaxRecord
      BY <1>3, <3>1, <3>2, LegibleRing DEF None
    <3>4. moved = [ret     |-> [reader.ret EXCEPT !.off = None, !.record = r],
                   applied |-> r]
      BY <2>2, <3>2
    <3> HIDE DEF moved
    <3>5. /\ moved \in Readers /\ moved.ret.off = None
          /\ moved.applied = r /\ moved.ret.record = r
      BY <3>3, <3>4 DEF Readers
    <3>6. bad = {} => r = target
      BY <1>3, <1>4, <1>6, <3>3
    <3>7. QED
      BY <3>5, <3>6
  <2>3. QED
    BY <2>1, <2>2
<1> HIDE DEF moved, s
<1>8. None \notin Traces(erb)
  BY LegibleRing DEF Traces
<1>9. CASE bad = {}
  <2>1. s.reader = [moved EXCEPT !.ret.way = way] /\ s.outcome = "done"
    BY <1>1, <1>9
  <2>2. /\ s.reader \in Readers /\ s.reader.ret.off = moved.ret.off
        /\ s.reader.ret.record = moved.ret.record
        /\ s.reader.applied = moved.applied
    BY <1>7, <2>1 DEF Readers
  <2>3. Sought(reader, target, s)
    BY <1>7, <1>8, <1>9, <2>1, <2>2 DEF Sought, Level
  <2>4. QED
    BY <2>1, <2>3 DEF s
<1>10. CASE bad # {}
  <2>1. s.reader = moved /\ s.outcome = "failed"
    BY <1>1, <1>10
  <2>2. Sought(reader, target, s)
    BY <1>7, <1>8, <2>1 DEF Sought, Level
  <2>3. sound # AllSound
    <3>1. PICK b : b \in bad
      BY <1>10
    <3>2. b \in (sound + 1)..upto
      BY <1>5, <3>1
    <3>3. upto <= l /\ upto \in Nat
      BY <1>4
    <3>4. b \in Nat /\ sound + 1 <= b /\ b <= MaxRecord
      BY <1>3, <3>2, <3>3
    <3>5. QED
      BY <1>3, <3>4 DEF AllSound
  <2>4. QED
    BY <2>2, <2>3 DEF s
<1>11. QED
  BY <1>9, <1>10

\* Where an attempt begins to walk, and what comes of it.
From(reader, target, again) ==
    IF NeedsDump(reader, target, again) THEN AtDump(ClosestCdo(target, again))
    ELSE reader

Tried(reader, target, sound, a) ==
    /\ a.reader \in Readers
    /\ a.outcome \in {"done", "failed", "raised"}
    /\ sound = AllSound => a.outcome # "raised"
    /\ Level(reader) =>
          /\ Level(a.reader)
          /\ a.outcome = "done" => a.reader.ret.record = target

LEMMA FromKind ==
    ASSUME Legible, NEW reader \in Readers, NEW target \in Int,
           NEW again \in BOOLEAN,
           ~(NeedsDump(reader, target, again) /\ cdorb = <<>>)
    PROVE  /\ From(reader, target, again) \in Readers
           /\ From(reader, target, again).ret.off # None
           /\ From(reader, target, again).ret.off \in Offsets
           /\ From(reader, target, again).ret.record # None
           /\ From(reader, target, again).ret.record \in Int
           /\ Level(reader) => Level(From(reader, target, again))
<1>1. PICK r : r = From(reader, target, again)
  OBVIOUS
<1>2. /\ r \in Readers /\ r.ret.off # None /\ r.ret.record # None
      /\ Level(reader) => Level(r)
  <2>1. CASE NeedsDump(reader, target, again)
    <3>1. PICK i \in 1..Len(cdorb) : ClosestCdo(target, again) = cdorb[i]
      BY <2>1, ClosestTaken
    <3>2. r = AtDump(cdorb[i])
      BY <1>1, <2>1, <3>1 DEF From
    <3>3. QED
      BY <3>2, DumpReader
  <2>2. CASE ~NeedsDump(reader, target, again)
    <3>1. r = reader
      BY <1>1, <2>2 DEF From
    <3>2. QED
      BY <2>2, <3>1 DEF NeedsDump
  <2>3. QED
    BY <2>1, <2>2
<1>3. r.ret.off \in Offsets /\ r.ret.record \in Int
  BY <1>2, LegibleRing DEF Readers
<1>4. QED
  BY <1>1, <1>2, <1>3

\* An attempt by cases.
LEMMA AttemptCases ==
    ASSUME NEW reader, NEW whence, NEW offset, NEW target, NEW again, NEW sound,
           NEW from, from = From(reader, target, again),
           NEW walk,
           walk = SeekOffsetFromCur(from, target - from.ret.record, sound),
           NEW a, a = Attempt(reader, whence, offset, target, again, sound)
    PROVE  \/ /\ NeedsDump(reader, target, again) /\ cdorb = <<>>
              /\ a = [reader |-> reader, outcome |-> "failed"]
           \/ /\ ~(NeedsDump(reader, target, again) /\ cdorb = <<>>)
              /\ walk.outcome = "NoEvent" /\ whence # "SET" /\ InMemory(target)
              /\ a = WriteQSeek(walk.reader, Way(offset), target, sound)
           \/ /\ ~(NeedsDump(reader, target, again) /\ cdorb = <<>>)
              /\ walk.outcome = "done"
              /\ a = [reader  |-> [walk.reader EXCEPT !.ret.way = Way(offset)],
                      outcome |-> "done"]
           \/ /\ ~(NeedsDump(reader, target, again) /\ cdorb = <<>>)
              /\ walk.outcome # "done"
              /\ ~(/\ walk.outcome = "NoEvent" /\ whence # "SET"
                   /\ InMemory(target))
              /\ a = [reader |-> walk.reader, outcome |->
                        IF walk.outcome = "raised" THEN "raised" ELSE "failed"]
<1>1. a = IF NeedsDump(reader, target, again) /\ cdorb = <<>>
          THEN [reader |-> reader, outcome |-> "failed"]
          ELSE IF walk.outcome = "NoEvent" /\ whence # "SET" /\ InMemory(target)
          THEN WriteQSeek(walk.reader, Way(offset), target, sound)
          ELSE IF walk.outcome = "done"
          THEN [reader  |-> [walk.reader EXCEPT !.ret.way = Way(offset)],
                outcome |-> "done"]
          ELSE [reader |-> walk.reader, outcome |->
                  IF walk.outcome = "raised" THEN "raised" ELSE "failed"]
  BY Zenon DEF Attempt, AfterWalk, From
<1>2. QED
  BY <1>1, Zenon

LEMMA AttemptLands ==
    ASSUME Legible, NEW reader \in Readers, NEW whence, NEW offset \in Int,
           NEW target \in Int, NEW again \in BOOLEAN, NEW sound \in Nat
    PROVE  Tried(reader, target, sound,
                 Attempt(reader, whence, offset, target, again, sound))
<1>1. PICK from : from = From(reader, target, again)
  OBVIOUS
<1>2. PICK walk :
         walk = SeekOffsetFromCur(from, target - from.ret.record, sound)
  OBVIOUS
<1>3. PICK a : a = Attempt(reader, whence, offset, target, again, sound)
  OBVIOUS
<1> DEFINE none == NeedsDump(reader, target, again) /\ cdorb = <<>>
<1>4. Way(offset) \in {"forward", "back"}
  BY DEF Way
<1>5. ASSUME ~none
      PROVE  /\ Arrives(from, target - from.ret.record, walk)
             /\ Level(reader) => Level(from)
             /\ from.ret.record \in Int /\ from.ret.record # None
             /\ sound = AllSound => walk.outcome # "raised"
  <2>1. /\ from \in Readers /\ from.ret.off # None /\ from.ret.record # None
        /\ from.ret.record \in Int
        /\ Level(reader) => Level(from)
    BY <1>1, <1>5, FromKind
  <2>2. PICK d \in Int : d = target - from.ret.record
    BY <2>1
  <2>3. walk = SeekOffsetFromCur(from, d, sound)
    BY <1>2, <2>2
  <2>4. Arrives(from, d, walk)
    BY <2>1, <2>3, Walks
  <2>5. sound = AllSound => walk.outcome # "raised"
    <3>1. PICK h \in Nat : h = IF d < 0 THEN -d ELSE d
      OBVIOUS
    <3>2. SeekOffsetFromCur(from, d, AllSound).outcome \in {"done", "NoEvent"}
      BY <2>1, <3>1, WalksOut
    <3>3. QED
      BY <2>3, <3>2
  <2>6. Arrives(from, target - from.ret.record, walk)
    BY <2>2, <2>4, Zenon
  <2>7. QED
    BY <2>1, <2>5, <2>6
<1>6. CASE none /\ a = [reader |-> reader, outcome |-> "failed"]
  <2>1. a.reader = reader /\ a.outcome = "failed"
    BY <1>6
  <2>2. Tried(reader, target, sound, a)
    BY <2>1 DEF Tried
  <2>3. QED
    BY <1>3, <2>2
<1>7. CASE /\ ~none /\ InMemory(target)
           /\ a = WriteQSeek(walk.reader, Way(offset), target, sound)
  <2>1. /\ walk.reader \in Readers
        /\ Level(reader) => Level(walk.reader)
    BY <1>5, <1>7 DEF Arrives
  <2>2. Sought(walk.reader, target, a)
    BY <1>4, <1>7, <2>1, MemorySought
  <2>3. Tried(reader, target, sound, a)
    <3>1. sound = AllSound => a.outcome = "done"
      BY <1>4, <1>7, <2>1, MemorySought
    <3>2. QED
      BY <2>1, <2>2, <3>1 DEF Sought, Tried
  <2>4. QED
    BY <1>3, <2>3
<1>8. CASE /\ ~none /\ walk.outcome = "done"
           /\ a = [reader  |-> [walk.reader EXCEPT !.ret.way = Way(offset)],
                   outcome |-> "done"]
  <2>1. PICK r : r = walk.reader
    OBVIOUS
  <2>2. /\ r \in Readers
        /\ Level(reader) => Level(r)
    BY <1>5, <1>8, <2>1 DEF Arrives
  <2>3. /\ a.reader = [r EXCEPT !.ret.way = Way(offset)]
        /\ a.outcome = "done"
    BY <1>8, <2>1
  <2>4. /\ a.reader \in Readers /\ a.reader.ret.off = r.ret.off
        /\ a.reader.ret.record = r.ret.record
        /\ a.reader.applied = r.applied
    BY <1>4, <2>2, <2>3 DEF Readers
  <2>5. Level(reader) => Level(a.reader)
    BY <2>2, <2>4 DEF Level
  <2>6. Level(reader) => a.reader.ret.record = target
    <3>1. ASSUME Level(reader) PROVE r.ret.record = target
      <4>1. /\ from.ret.off \in Traces(erb)
            /\ r.ret.record =
                  Rec(erb, from.ret.off) + (target - from.ret.record)
        BY <1>5, <1>8, <2>1 DEF Arrives
      <4>2. Rec(erb, from.ret.off) = from.ret.record
        BY <1>5, <1>8, <3>1, <4>1 DEF Level
      <4>3. QED
        BY <1>5, <1>8, <4>1, <4>2
    <3>2. QED
      BY <2>4, <3>1
  <2>7. Tried(reader, target, sound, a)
    BY <2>3, <2>4, <2>5, <2>6 DEF Tried
  <2>8. QED
    BY <1>3, <2>7
<1>9. CASE /\ ~none /\ walk.outcome # "done"
           /\ a = [reader |-> walk.reader, outcome |->
                     IF walk.outcome = "raised" THEN "raised" ELSE "failed"]
  <2>1. a.reader = walk.reader /\ a.outcome \in {"failed", "raised"}
        /\ (a.outcome = "raised" <=> walk.outcome = "raised")
    BY <1>9
  <2>2. Tried(reader, target, sound, a)
    BY <1>5, <1>9, <2>1 DEF Tried, Arrives
  <2>3. QED
    BY <1>3, <2>2
<1>10. QED
  <2>1. \/ none /\ a = [reader |-> reader, outcome |-> "failed"]
        \/ /\ ~none /\ InMemory(target)
           /\ a = WriteQSeek(walk.reader, Way(offset), target, sound)
        \/ /\ ~none /\ walk.outcome = "done"
           /\ a = [reader  |-> [walk.reader EXCEPT !.ret.way = Way(offset)],
                   outcome |-> "done"]
        \/ /\ ~none /\ walk.outcome # "done"
           /\ a = [reader |-> walk.reader, outcome |->
                     IF walk.outcome = "raised" THEN "raised" ELSE "failed"]
    BY <1>1, <1>2, <1>3, AttemptCases
  <2>2. QED
    BY <1>6, <1>7, <1>8, <1>9, <2>1

-----------------------------------------------------------------------------
(* What a retrieval comes to.                                              *)

Whences == {"SET", "CUR", "END", "REC"}

LEMMA FollowedKind ==
    ASSUME Legible, NEW i \in 1..Len(cdorb), NEW back \in BOOLEAN
    PROVE  Followed(cdorb[i], back) \in Int
<1> DEFINE trail == Trail(cdorb[i][1], back, Hops)
           met   == {k \in 0..Hops : trail[k] # None}
<1>1. Followed(cdorb[i], back) =
         IF met = {} THEN cdorb[i][2] ELSE HeaderAt(erb, trail[Most(met)]).record
  BY Zenon DEF Followed
<1>2. /\ cdorb[i][1] \in Offsets /\ cdorb[i][2] \in Nat
      /\ Cells(erb) /\ Traced(erb) /\ Hops \in Nat
  BY EntryDump, LegibleRing, EventRingAssumption DEF Hops
<1>3. CASE met = {}
  <2>1. Followed(cdorb[i], back) = cdorb[i][2]
    BY <1>1, <1>3, Zenon
  <2>2. QED
    BY <1>2, <2>1
<1>4. CASE met # {}
  <2>1. PICK h \in Nat : h = Hops
    BY <1>2
  <2>2. met \in SUBSET (0..h) /\ met \in SUBSET Nat
    BY <1>2, <2>1
  <2>3. PICK g \in met : \A k \in met : k <= g
    BY <1>4, <2>1, <2>2, GreatestExists
  <2>4. \E x \in met : \A y \in met : x >= y
    BY <2>2, <2>3
  <2>5. PICK m : m = Most(met)
    OBVIOUS
  <2>6. m \in met
    BY <2>4, <2>5, Zenon DEF Most
  <2>7. m \in 0..Hops /\ Trail(cdorb[i][1], back, Hops)[m] # None
    BY <2>6
  <2>8. trail[m] \in Traces(erb)
    BY <1>2, <2>7, TrailCounts
  <2>9. Rec(erb, trail[m]) \in Nat
    BY <2>8, LegibleRing
  <2>10. Followed(cdorb[i], back) = HeaderAt(erb, trail[m]).record
    BY <1>1, <1>4, <2>5, Zenon
  <2>11. QED
    BY <2>9, <2>10 DEF Rec
<1>5. QED
  BY <1>3, <1>4

\* What can be asked for is a number.
LEMMA TargetKind ==
    ASSUME Legible, NEW reader \in Readers, NEW whence \in Whences,
           NEW offset \in Int, NEW rec \in Int,
           whence = "SET" => cdorb # <<>>,
           whence = "END" => write_q # <<>> \/ cdorb # <<>>
    PROVE  Target(reader, whence, offset, rec) \in Int
<1>1. /\ cdorb \in Seq(Entries) /\ Len(cdorb) \in Nat
      /\ write_q \in Seq(Queued) /\ Len(write_q) \in Nat
      /\ TRUE \in BOOLEAN /\ FALSE \in BOOLEAN
  BY DEF Legible, Whole, QueueOK
<1>2. cdorb # <<>> => SeekEarliestRec \in Int
  <2>1. ASSUME cdorb # <<>> PROVE SeekEarliestRec \in Int
    <3>1. 1 \in 1..Len(cdorb) /\ Head(cdorb) = cdorb[1]
      BY <1>1, <2>1
    <3>2. Followed(cdorb[1], TRUE) \in Int
      BY <1>1, <3>1, FollowedKind
    <3>3. QED
      BY <3>1, <3>2 DEF SeekEarliestRec
  <2>2. QED
    BY <2>1
<1>3. write_q # <<>> \/ cdorb # <<>> => SeekLatestRec \in Int
  <2>1. ASSUME write_q # <<>> PROVE SeekLatestRec \in Int
    <3>1. Len(write_q) \in 1..Len(write_q)
      BY <1>1, <2>1
    <3>2. write_q[Len(write_q)].record \in Int
      BY <3>1, QueueRecords
    <3>3. QED
      BY <2>1, <3>2 DEF SeekLatestRec
  <2>2. ASSUME write_q = <<>>, cdorb # <<>> PROVE SeekLatestRec \in Int
    <3>1. Len(cdorb) \in 1..Len(cdorb)
      BY <1>1, <2>2
    <3>2. Followed(cdorb[Len(cdorb)], FALSE) \in Int
      BY <1>1, <3>1, FollowedKind
    <3>3. QED
      BY <2>2, <3>2 DEF SeekLatestRec
  <2>3. QED
    BY <2>1, <2>2
<1>4. reader.ret.record \in Int
  BY LegibleRing DEF Readers
<1>5. CASE whence = "SET"
  BY <1>2, <1>5 DEF Target
<1>6. CASE whence = "CUR"
  BY <1>4, <1>6 DEF Target
<1>7. CASE whence = "END"
  BY <1>3, <1>7 DEF Target
<1>8. CASE whence = "REC"
  BY <1>8 DEF Target
<1>9. QED
  BY <1>5, <1>6, <1>7, <1>8 DEF Whences

\* The cursor and what is applied, as a reader.
Now == [ret |-> ret, applied |-> applied]

Sees(whence, offset, rec, sound, s) ==
    /\ s.reader \in Readers
    /\ s.outcome \in {"done", "failed", "raised"}
    /\ Level(Now) => s.reader.applied = s.reader.ret.record
    /\ Level(Now) /\ sound = Flawless /\ s.outcome = "done" =>
          /\ HasTarget(Now, whence, offset)
          /\ s.reader.ret.record = Target(Now, whence, offset, rec)

LEMMA SeekLands ==
    ASSUME Legible, Now \in Readers, NEW whence \in Whences,
           NEW offset \in Int, NEW rec \in Int, NEW sound \in Nat \X Nat
    PROVE  Sees(whence, offset, rec, sound, Seek(whence, offset, rec, sound))
<1> DEFINE target == Target(Now, whence, offset, rec)
           one    == Attempt(Now, whence, offset, target, FALSE, sound[1])
           again  == Target(one.reader, whence, offset, target)
           two    == Attempt(one.reader, whence, offset, again, TRUE, sound[2])
           last   == IF one.outcome = "raised" THEN two ELSE one
           s      == Seek(whence, offset, rec, sound)
<1>1. s = IF ~HasTarget(Now, whence, offset)
          THEN [reader |-> Now, outcome |-> "failed"] ELSE last
  BY Zenon DEF Seek, Again, Now
<1> HIDE DEF s
<1>2. CASE ~HasTarget(Now, whence, offset)
  <2>1. s.reader = Now /\ s.outcome = "failed"
    BY <1>1, <1>2
  <2>2. Sees(whence, offset, rec, sound, s)
    BY <2>1 DEF Sees, Level
  <2>3. QED
    BY <2>2 DEF s
<1>3. CASE HasTarget(Now, whence, offset)
  <2>1. s.reader = last.reader /\ s.outcome = last.outcome
    BY <1>1, <1>3
  <2>2. /\ whence = "SET" => cdorb # <<>>
        /\ whence = "END" => write_q # <<>> \/ cdorb # <<>>
    BY <1>3 DEF HasTarget
  <2>3. target \in Int /\ TRUE \in BOOLEAN /\ FALSE \in BOOLEAN
        /\ sound[1] \in Nat /\ sound[2] \in Nat
    BY <2>2, TargetKind
  <2> HIDE DEF target
  <2>4. Tried(Now, target, sound[1], one)
    BY <2>3, AttemptLands
  <2>5. one.reader \in Readers
    BY <2>4 DEF Tried
  <2> HIDE DEF one
  <2>6. again \in Int
    BY <2>2, <2>3, <2>5, TargetKind
  <2> HIDE DEF again
  <2>7. Tried(one.reader, again, sound[2], two)
    BY <2>3, <2>5, <2>6, AttemptLands
  <2> HIDE DEF two
  <2>8. last = IF one.outcome = "raised" THEN two ELSE one
    OBVIOUS
  <2> HIDE DEF last
  <2>9. CASE one.outcome = "raised"
    <3>1. last = two /\ sound # Flawless
      BY <2>4, <2>8, <2>9 DEF Tried, Flawless
    <3>2. Sees(whence, offset, rec, sound, s)
      BY <2>1, <2>4, <2>7, <3>1 DEF Tried, Sees, Level
    <3>3. QED
      BY <3>2 DEF s
  <2>10. CASE one.outcome # "raised"
    <3>1. last = one
      BY <2>8, <2>10
    <3>2. Sees(whence, offset, rec, sound, s)
      BY <1>3, <2>1, <2>4, <3>1 DEF Tried, Sees, Level, target, Flawless
    <3>3. QED
      BY <3>2 DEF s
  <2>11. QED
    BY <2>9, <2>10
<1>4. QED
  BY <1>2, <1>3

LEMMA Sights ==
    /\ Stored = Events(erb) /\ Readable = Traces(erb)
    /\ \A o : RecordAt(o) = Rec(erb, o)
  BY DEF Stored, Readable, IsEvent, RecordAt, Events, Traces, Rec

\* The cursor of a reader that was not overtaken is where it says.
LEMMA NowLevel ==
    ASSUME Legible, ~Overtaken
    PROVE  Level(Now)
<1>1. applied = ret.record
  BY DEF Overtaken
<1>2. ASSUME ret.record # None, ret.off \in Traces(erb)
      PROVE  Rec(erb, ret.off) = ret.record
  <2>1. ret.off # None
    BY <1>2, LegibleRing DEF Traces
  <2>2. QED
    BY <1>2, <2>1 DEF Overtaken, Rec
<1>3. Now.ret = ret /\ Now.applied = applied
  BY DEF Now
<1>4. QED
  BY <1>1, <1>2, <1>3 DEF Level

\* What is taken for the oldest event is, if its start is in sight.
LEMMA OldestFound ==
    ASSUME Legible, cdorb # <<>>, StartInSight
    PROVE  SeekEarliestRec = Oldest
<1>1. /\ Cells(erb) /\ Traced(erb) /\ Ring(erb, recordcursor)
      /\ recordcursor \in Nat
  BY LegibleRing
<1>2. 1 \in 1..Len(cdorb) /\ Head(cdorb) = cdorb[1]
  BY DEF Legible
<1>3. PICK e : e = cdorb[1]
  OBVIOUS
<1>4. e[1] \in Events(erb)
  BY <1>2, <1>3, EntryDump
<1> DEFINE R == {RecordAt(o) : o \in Stored}
<1>5. R \in SUBSET Nat /\ R # {}
  BY <1>1, <1>4, Sights, EventKind
<1>6. \E r \in R : \A q \in R : r <= q
  BY <1>5, LeastExists
<1>7. PICK l : l = Least(R)
  OBVIOUS
<1>8. l \in R /\ \A q \in R : l <= q
  BY <1>6, <1>7, Zenon DEF Least
<1>9. PICK o \in Events(erb) : Rec(erb, o) = l
  BY <1>8, Sights
<1>10. \A q \in Events(erb) : Rec(erb, o) <= Rec(erb, q)
  BY <1>8, <1>9, Sights
<1>11. Oldest = l
  BY <1>7 DEF Oldest
<1>12. Halts(Rec(erb, o), HeaderAt(erb, HeaderAt(erb, o).previous), TRUE)
  BY <1>9, <1>11, Sights DEF StartInSight
<1>13. Followed(e, TRUE) = Rec(erb, o)
  BY <1>1, <1>4, <1>10, <1>12, FollowedDown
<1>14. QED
  BY <1>2, <1>3, <1>9, <1>11, <1>13 DEF SeekEarliestRec

\* What is taken for the newest event is, if its end is in sight.
LEMMA NewestFound ==
    ASSUME Legible, write_q # <<>> \/ cdorb # <<>>, EndInSight
    PROVE  SeekLatestRec = record - 1
<1>1. /\ Cells(erb) /\ Traced(erb) /\ Ring(erb, recordcursor)
      /\ recordcursor \in Nat
      /\ write_q \in Seq(Queued) /\ record \in Nat
      /\ Newest(erb, recordcursor, lastrecord, Top)
  BY LegibleRing DEF Legible, Whole, QueueOK, Numbered
<1>2. CASE write_q # <<>>
  <2>1. Len(write_q) \in 1..Len(write_q)
    BY <1>1, <1>2
  <2>2. write_q[Len(write_q)].record = record - 1
    BY <2>1, QueueRecords
  <2>3. QED
    BY <1>2, <2>2 DEF SeekLatestRec
<1>3. CASE write_q = <<>>
  <2>1. cdorb # <<>> /\ Len(cdorb) \in 1..Len(cdorb)
    BY <1>3 DEF Legible
  <2>2. PICK e : e = cdorb[Len(cdorb)]
    OBVIOUS
  <2>3. e[1] \in Events(erb)
    BY <2>1, <2>2, EntryDump
  <2>4. /\ lastrecord \in Events(erb) /\ Rec(erb, lastrecord) = Top
        /\ \A q \in Events(erb) : Rec(erb, q) <= Rec(erb, lastrecord)
    BY <1>1, <2>3 DEF Newest
  <2>5. Top = record - 1
    BY <1>1, <1>3 DEF Top
  <2>6. /\ e[1] \in Nat /\ lastrecord \in Nat
        /\ Rec(erb, e[1]) \in Nat /\ Rec(erb, lastrecord) \in Nat
    BY <1>1, <2>3, <2>4, EventKind
  <2>7. e[1] \notin BeforeTheWrap(lastrecord)
    BY <1>3, <2>2 DEF EndInSight
  <2>8. ~(e[1] > lastrecord /\ Rec(erb, e[1]) < Rec(erb, lastrecord))
    BY <2>3, <2>7, Sights, EventsAreTraces DEF BeforeTheWrap
  <2>9. CASE e[1] = lastrecord
    BY <1>1, <1>3, <2>2, <2>3, <2>4, <2>5, <2>9, FollowedUp DEF SeekLatestRec
  <2>10. CASE e[1] # lastrecord
    <3>1. Rec(erb, e[1]) # Rec(erb, lastrecord)
      BY <1>1, <2>3, <2>4, <2>10, OrderWhole DEF Ring
    <3>2. Rec(erb, e[1]) < Rec(erb, lastrecord)
      BY <2>3, <2>4, <2>6, <3>1
    <3>3. e[1] < lastrecord
      BY <2>6, <2>8, <2>10, <3>2
    <3>4. Followed(e, FALSE) = Rec(erb, lastrecord)
      BY <1>1, <2>3, <2>4, <3>2, <3>3, FollowedUp
    <3>5. QED
      BY <1>3, <2>2, <2>4, <2>5, <3>4 DEF SeekLatestRec
  <2>11. QED
    BY <2>9, <2>10
<1>4. QED
  BY <1>2, <1>3

LEMMA SoundKind ==
    Sounds \subseteq Nat \X Nat /\ Flawless[1] = AllSound
  BY EventRingAssumption DEF Sounds, Flawless, AllSound

\* What can be asked.
LEMMA RequestKind ==
    ASSUME NEW q \in Requests, NEW sound \in Sounds
    PROVE  /\ q.whence \in Whences /\ q.offset \in Int /\ q.rec \in Int
           /\ q.whence = "REC" => q.offset = 0
           /\ sound \in Nat \X Nat
<1>1. sound \in Nat \X Nat
  BY SoundKind
<1>2. \/ q \in [whence : {"SET", "CUR", "END"}, offset : Steps, rec : {None}]
      \/ q \in [whence : {"REC"}, offset : {0}, rec : 0..MaxRecord]
  BY DEF Requests
<1>3. Steps \subseteq Int /\ None \in Int /\ 0..MaxRecord \subseteq Int
  BY EventReaderAssumption, EventRingAssumption DEF None
<1>4. CASE q \in [whence : {"SET", "CUR", "END"}, offset : Steps, rec : {None}]
  <2>1. /\ q.whence \in {"SET", "CUR", "END"} /\ q.offset \in Steps
        /\ q.rec = None
    BY <1>4
  <2>2. QED
    BY <1>1, <1>3, <2>1 DEF Whences
<1>5. CASE q \in [whence : {"REC"}, offset : {0}, rec : 0..MaxRecord]
  <2>1. q.whence = "REC" /\ q.offset = 0 /\ q.rec \in 0..MaxRecord
    BY <1>5
  <2>2. QED
    BY <1>1, <1>3, <2>1 DEF Whences
<1>6. QED
  BY <1>2, <1>4, <1>5

\* Every retrieval that is done lands where it was asked to.
LEMMA Landing ==
    ASSUME Legible, Now \in Readers
    PROVE  LandsWhereAsked
<1>1. SUFFICES ASSUME Reading, ~Overtaken, NEW q \in Requests,
                      NEW sound \in Sounds,
                      NEW s, s = Seek(q.whence, q.offset, q.rec, sound)
               PROVE  /\ s.reader.applied = s.reader.ret.record
                      /\ /\ s.outcome = "done"
                         /\ sound = Flawless
                         /\ q.whence = "SET" => StartInSight
                         /\ q.whence = "END" => EndInSight
                         => s.reader.ret.record = Meant(q)
  BY DEF LandsWhereAsked
<1>2. /\ q.whence \in Whences /\ q.offset \in Int /\ q.rec \in Int
      /\ q.whence = "REC" => q.offset = 0
      /\ sound \in Nat \X Nat
  BY RequestKind
<1>3. Level(Now)
  BY <1>1, NowLevel
<1>4. Sees(q.whence, q.offset, q.rec, sound, s)
  BY <1>1, <1>2, SeekLands
<1>5. s.reader.applied = s.reader.ret.record
  BY <1>3, <1>4 DEF Sees
<1>6. ASSUME s.outcome = "done", sound = Flawless,
             q.whence = "SET" => StartInSight,
             q.whence = "END" => EndInSight
      PROVE  s.reader.ret.record = Meant(q)
  <2>1. /\ HasTarget(Now, q.whence, q.offset)
        /\ s.reader.ret.record = Target(Now, q.whence, q.offset, q.rec)
    BY <1>3, <1>4, <1>6 DEF Sees
  <2>2. CASE q.whence = "SET"
    <3>1. cdorb # <<>>
      BY <2>1, <2>2 DEF HasTarget
    <3>2. SeekEarliestRec = Oldest
      BY <1>6, <2>2, <3>1, OldestFound
    <3>3. QED
      BY <2>1, <2>2, <3>2 DEF Target, Meant
  <2>3. CASE q.whence = "CUR"
    BY <2>1, <2>3 DEF Target, Meant, Now
  <2>4. CASE q.whence = "END"
    <3>1. write_q # <<>> \/ cdorb # <<>>
      BY <2>1, <2>4 DEF HasTarget
    <3>2. SeekLatestRec = record - 1
      BY <1>6, <2>4, <3>1, NewestFound
    <3>3. QED
      BY <2>1, <2>4, <3>2 DEF Target, Meant
  <2>5. CASE q.whence = "REC"
    BY <2>1, <2>5 DEF Target, Meant
  <2>6. QED
    BY <1>2, <2>2, <2>3, <2>4, <2>5 DEF Whences
<1>7. QED
  BY <1>5, <1>6

\* From what reads as an event, reading gets to any event of the ring that is
\* older, or that is not wrapped away from it.
LEMMA Reaches ==
    ASSUME Legible, NEW p \in Traces(erb), NEW o \in Events(erb),
           p \notin BeforeTheWrap(o),
           NEW d \in Int, d = Rec(erb, o) - Rec(erb, p),
           NEW hops \in Nat, hops = IF d < 0 THEN -d ELSE d
    PROVE  Trail(p, d < 0, hops)[hops] # None
<1>1. /\ Cells(erb) /\ Traced(erb) /\ Ring(erb, recordcursor)
      /\ recordcursor \in Nat /\ Rising(erb, recordcursor)
  BY LegibleRing DEF Ring
<1>2. /\ Rec(erb, p) \in Nat /\ Rec(erb, o) \in Nat /\ p \in Nat /\ o \in Nat
      /\ Follower(erb, o) \in Nat /\ o < Follower(erb, o)
  BY <1>1, TraceKind, EventKind
<1>3. p \notin Events(erb) => Follower(erb, o) <= p /\ Rec(erb, p) < Rec(erb, o)
  BY <1>1 DEF Traced, LeftBehind
<1>4. ~(p > o /\ Rec(erb, p) < Rec(erb, o))
  BY Sights DEF BeforeTheWrap
<1>5. p \in Events(erb)
  BY <1>2, <1>3, <1>4
<1>6. hops \in 0..hops
  OBVIOUS
<1>7. CASE d < 0
  <2>1. (d < 0) = TRUE
    BY <1>7
  <2>2. Rec(erb, o) + hops <= Rec(erb, p)
    BY <1>2, <1>7
  <2>3. Trail(p, TRUE, hops)[hops] # None
    <3>1. /\ Cells(erb) /\ recordcursor \in Nat /\ Ring(erb, recordcursor)
          /\ p \in Events(erb) /\ o \in Events(erb)
          /\ hops \in Nat /\ hops \in 0..hops
          /\ Rec(erb, o) + hops <= Rec(erb, p)
      BY <1>1, <1>5, <1>6, <2>2
    <3>2. QED
      BY ONLY <3>1, TrailDown, EventRingAssumption, EventReaderAssumption
  <2>4. QED
    BY <2>1, <2>3, Zenon
<1>8. CASE ~(d < 0)
  <2>1. (d < 0) = FALSE
    BY <1>8
  <2>2. /\ Rec(erb, p) + hops <= Rec(erb, o)
        /\ Rec(erb, p) = Rec(erb, o) \/ Rec(erb, p) < Rec(erb, o)
    BY <1>2, <1>8
  <2>3. p = o \/ (p < o /\ Rec(erb, p) < Rec(erb, o))
    <3>1. Rec(erb, p) = Rec(erb, o) => p = o
      BY <1>1, <1>5, OrderWhole
    <3>2. QED
      BY <1>2, <1>4, <2>2, <3>1
  <2>4. Trail(p, FALSE, hops)[hops] # None
    <3>1. /\ Cells(erb) /\ recordcursor \in Nat /\ Ring(erb, recordcursor)
          /\ Traced(erb) /\ p \in Events(erb) /\ o \in Events(erb)
          /\ p = o \/ (p < o /\ Rec(erb, p) < Rec(erb, o))
          /\ hops \in Nat /\ hops \in 0..hops
          /\ Rec(erb, p) + hops <= Rec(erb, o)
      BY <1>1, <1>5, <1>6, <2>2, <2>3
    <3>2. QED
      BY ONLY <3>1, TrailUp, EventRingAssumption, EventReaderAssumption
  <2>5. QED
    BY <2>1, <2>4, Zenon
<1>9. QED
  BY <1>7, <1>8

\* No walk reaches a record above the newest of the ring.
LEMMA Exceeds ==
    ASSUME Legible, NEW p \in Traces(erb), NEW d \in Int,
           Top < Rec(erb, p) + d
    PROVE  d \in Nat /\ Trail(p, d < 0, d)[d] = None
<1>1. /\ Rec(erb, p) \in Nat /\ Rec(erb, p) <= Top /\ Top \in Nat
      /\ p \in Offsets
  BY LegibleRing DEF Traces
<1>2. d \in Nat /\ ~(d < 0) /\ d \in 0..d
  BY <1>1
<1>3. ASSUME Trail(p, d < 0, d)[d] # None PROVE FALSE
  <2>1. /\ Trail(p, d < 0, d)[d] \in Traces(erb)
        /\ Rec(erb, Trail(p, d < 0, d)[d]) =
              Rec(erb, p) + (IF d < 0 THEN -d ELSE d)
    BY <1>1, <1>2, <1>3, WalkCounts
  <2>2. Rec(erb, Trail(p, d < 0, d)[d]) = Rec(erb, p) + d
    BY <1>2, <2>1
  <2>3. Rec(erb, Trail(p, d < 0, d)[d]) <= Top
    BY <2>1, LegibleRing
  <2>4. PICK m : m = Rec(erb, Trail(p, d < 0, d)[d])
    OBVIOUS
  <2>5. m = Rec(erb, p) + d /\ m <= Top
    BY <2>2, <2>3, <2>4, Zenon
  <2>6. QED
    BY <1>1, <1>2, <2>5
<1>4. QED
  BY <1>2, <1>3

\* A first attempt at a record of the ring, or of the memory.
LEMMA Found ==
    ASSUME Legible, Now \in Readers, Level(Now), cdorb # <<>>,
           ret.off # None /\ ret.record # None => ret.off \in Traces(erb),
           NEW r \in Int,
           \/ r \in {write_q[i].record : i \in 1..Len(write_q)}
           \/ \E o \in Events(erb) :
                 r = Rec(erb, o) /\ Beginnings(o) \cap BeforeTheWrap(o) = {}
    PROVE  Attempt(Now, "REC", 0, r, FALSE, AllSound).outcome = "done"
<1>1. PICK from : from = From(Now, r, FALSE)
  OBVIOUS
<1>2. /\ from \in Readers /\ from.ret.off # None /\ from.ret.off \in Offsets
      /\ from.ret.record # None /\ from.ret.record \in Int
      /\ Level(from)
  BY <1>1, FromKind
<1>3. PICK p : p = from.ret.off
  OBVIOUS
<1>4. /\ p \in Traces(erb)
      /\ \A o \in Events(erb) :
            r = Rec(erb, o) =>
               p \in Beginnings(o) \/ p \notin BeforeTheWrap(o)
  <2>1. CASE NeedsDump(Now, r, FALSE)
    <3>1. FALSE \in BOOLEAN
      OBVIOUS
    <3>2. PICK i \in 1..Len(cdorb) :
             /\ ClosestCdo(r, FALSE) = cdorb[i]
             /\ \/ r < cdorb[i][2]
                \/ /\ cdorb[i][2] <= r
                   /\ \A j \in 1..Len(cdorb) :
                         cdorb[j][2] <= r => cdorb[j][2] <= cdorb[i][2]
      BY <3>1, ClosestTaken
    <3>3. from = AtDump(cdorb[i])
      BY <1>1, <2>1, <3>2 DEF From
    <3>4. /\ p = cdorb[i][1] /\ p \in Events(erb) /\ p \in Traces(erb)
          /\ cdorb[i][2] = Rec(erb, p) /\ Rec(erb, p) \in Nat
          /\ HeaderAt(erb, p).type = "dump"
      BY <1>3, <3>3, DumpReader, EntryDump, EventsAreTraces
    <3>5. ASSUME NEW o \in Events(erb), r = Rec(erb, o)
          PROVE  p \in Beginnings(o) \/ p \notin BeforeTheWrap(o)
      <4>1. CASE r < cdorb[i][2]
        <5>1. ~(Rec(erb, p) < Rec(erb, o))
          BY <3>4, <3>5, <4>1
        <5>2. QED
          BY <5>1, Sights DEF BeforeTheWrap
      <4>2. CASE /\ cdorb[i][2] <= r
                 /\ \A j \in 1..Len(cdorb) :
                       cdorb[j][2] <= r => cdorb[j][2] <= cdorb[i][2]
        <5>1. Rec(erb, p) <= Rec(erb, o)
          BY <3>4, <3>5, <4>2
        <5>2. ASSUME NEW d \in Events(erb), HeaderAt(erb, d).type = "dump",
                     Rec(erb, d) <= Rec(erb, o)
              PROVE  Rec(erb, d) <= Rec(erb, p)
          <6>1. PICK j \in 1..Len(cdorb) : cdorb[j][1] = d
            BY <5>2, DumpEntry
          <6>2. cdorb[j][2] = Rec(erb, d)
            BY <6>1, EntryDump
          <6>3. QED
            BY <3>4, <3>5, <4>2, <5>2, <6>2
        <5>3. p \in Beginnings(o)
          BY <3>4, <5>1, <5>2, Sights DEF Beginnings
        <5>4. QED
          BY <5>3
      <4>3. QED
        BY <3>2, <4>1, <4>2
    <3>6. QED
      BY <3>4, <3>5
  <2>2. CASE ~NeedsDump(Now, r, FALSE)
    <3>1. from = Now /\ p = ret.off /\ ret.off # None /\ ret.record # None
      BY <1>1, <1>3, <2>2 DEF From, NeedsDump, Now
    <3>2. QED
      BY <3>1 DEF Beginnings
  <2>3. QED
    BY <2>1, <2>2
<1>5. /\ Rec(erb, p) = from.ret.record /\ Rec(erb, p) \in Nat
  BY <1>2, <1>3, <1>4, LegibleRing DEF Level
<1>6. PICK d \in Int : d = r - from.ret.record
  BY <1>2
<1>7. PICK walk : walk = SeekOffsetFromCur(from, r - from.ret.record, AllSound)
  OBVIOUS
<1>8. walk = SeekOffsetFromCur(from, d, AllSound)
  BY <1>6, <1>7
<1>9. PICK a : a = Attempt(Now, "REC", 0, r, FALSE, AllSound)
  OBVIOUS
<1>10. \/ /\ walk.outcome = "NoEvent" /\ InMemory(r)
          /\ a = WriteQSeek(walk.reader, Way(0), r, AllSound)
       \/ /\ walk.outcome = "done"
          /\ a = [reader  |-> [walk.reader EXCEPT !.ret.way = Way(0)],
                  outcome |-> "done"]
       \/ walk.outcome # "done" /\ ~(walk.outcome = "NoEvent" /\ InMemory(r))
  <2>1. a = IF NeedsDump(Now, r, FALSE) /\ cdorb = <<>>
            THEN [reader |-> Now, outcome |-> "failed"]
            ELSE IF /\ walk.outcome = "NoEvent" /\ "REC" # "SET"
                    /\ InMemory(r)
            THEN WriteQSeek(walk.reader, Way(0), r, AllSound)
            ELSE IF walk.outcome = "done"
            THEN [reader  |-> [walk.reader EXCEPT !.ret.way = Way(0)],
                  outcome |-> "done"]
            ELSE [reader |-> walk.reader, outcome |->
                    IF walk.outcome = "raised" THEN "raised" ELSE "failed"]
    BY <1>1, <1>7, <1>9, Zenon DEF Attempt, AfterWalk, From
  <2>2. "REC" # "SET"
    OBVIOUS
  <2>3. QED
    BY <2>1, <2>2, Zenon
<1>11. CASE r \in {write_q[i].record : i \in 1..Len(write_q)}
  <2>1. PICK i \in 1..Len(write_q) : r = write_q[i].record
    BY <1>11
  <2>2. /\ r = Top + i /\ Top \in Nat /\ Len(write_q) \in Nat
        /\ write_q # <<>> /\ write_q[1].record = Top + 1
        /\ write_q[Len(write_q)].record = Top + Len(write_q)
    BY <2>1, QueueRecords, LegibleRing
  <2>3. InMemory(r)
    <3>1. r \in (Top + 1)..(Top + Len(write_q))
      BY <2>2
    <3>2. QED
      BY <2>2, <3>1 DEF InMemory
  <2>4. Top < Rec(erb, p) + d
    BY <1>5, <1>6, <2>2
  <2>5. d \in Nat /\ Trail(p, d < 0, d)[d] = None
    BY <1>4, <2>4, Exceeds
  <2>6. walk.outcome = "NoEvent"
    <3>1. d = IF d < 0 THEN -d ELSE d
      BY <2>5
    <3>2. QED
      BY <1>2, <1>3, <1>8, <2>5, <3>1, WalksOut
  <2>7. a = WriteQSeek(walk.reader, Way(0), r, AllSound)
    BY <1>10, <2>3, <2>6
  <2>8. walk.reader \in Readers
    BY <1>2, <1>8, Walks, EventRingAssumption DEF Arrives, AllSound
  <2>9. Way(0) \in {"forward", "back"} /\ AllSound \in Nat
    BY EventRingAssumption DEF Way, AllSound
  <2>10. a.outcome = "done"
    BY <2>3, <2>7, <2>8, <2>9, MemorySought
  <2>11. QED
    BY <1>9, <2>10
<1>12. CASE \E o \in Events(erb) :
               r = Rec(erb, o) /\ Beginnings(o) \cap BeforeTheWrap(o) = {}
  <2>1. PICK o \in Events(erb) :
               r = Rec(erb, o) /\ Beginnings(o) \cap BeforeTheWrap(o) = {}
    BY <1>12
  <2>2. p \notin BeforeTheWrap(o)
    BY <1>4, <2>1
  <2>3. PICK hops \in Nat : hops = IF d < 0 THEN -d ELSE d
    OBVIOUS
  <2>4. d = Rec(erb, o) - Rec(erb, p)
    BY <1>5, <1>6, <2>1
  <2>5. Trail(p, d < 0, hops)[hops] # None
    BY <1>4, <2>2, <2>3, <2>4, Reaches
  <2>6. walk.outcome = "done"
    BY <1>2, <1>3, <1>8, <2>3, <2>5, WalksOut
  <2>7. a.outcome = "done"
    BY <1>10, <2>6
  <2>8. QED
    BY <1>9, <2>7
<1>13. QED
  BY <1>11, <1>12

\* Every record that is in reach is found.
LEMMA Finding ==
    ASSUME Legible, Now \in Readers
    PROVE  FoundUnlessWrapped
<1> DEFINE inReach(o) == Beginnings(o) \cap BeforeTheWrap(o) = {}
<1>1. SUFFICES ASSUME Reading, ~Overtaken, cdorb # <<>>,
                      NEW r \in {RecordAt(o) : o \in {o \in Stored : inReach(o)}}
                               \cup {write_q[i].record : i \in 1..Len(write_q)}
               PROVE  Seek("REC", 0, r, Flawless).outcome = "done"
  BY Zenon DEF FoundUnlessWrapped
<1>2. /\ r \in Int
      /\ \/ r \in {write_q[i].record : i \in 1..Len(write_q)}
         \/ \E o \in Events(erb) :
               r = Rec(erb, o) /\ Beginnings(o) \cap BeforeTheWrap(o) = {}
  <2>1. ASSUME NEW i \in 1..Len(write_q) PROVE write_q[i].record \in Int
    BY QueueRecords
  <2>2. ASSUME NEW o \in Events(erb) PROVE Rec(erb, o) \in Int
    BY LegibleRing, EventsAreTraces
  <2>3. QED
    BY <2>1, <2>2, Sights
<1>3. Level(Now)
  BY <1>1, NowLevel
<1>4. ret.off # None /\ ret.record # None => ret.off \in Traces(erb)
  <2>1. ret.off \in {None} \cup Offsets
    BY DEF Readers, Now
  <2>2. QED
    BY <1>1, <2>1 DEF Overtaken, IsEvent, Traces
<1>5. PICK one : one = Attempt(Now, "REC", 0, r, FALSE, AllSound)
  OBVIOUS
<1>6. one.outcome = "done"
  BY <1>1, <1>2, <1>3, <1>4, <1>5, Found
<1>7. HasTarget(Now, "REC", 0) /\ Target(Now, "REC", 0, r) = r
  BY <1>2 DEF HasTarget, Target
<1>8. PICK s : s = Seek("REC", 0, r, Flawless)
  OBVIOUS
<1>9. s = one
  BY <1>5, <1>6, <1>7, <1>8, SoundKind DEF Seek, Now
<1>10. QED
  BY <1>6, <1>8, <1>9

-----------------------------------------------------------------------------
(* The reader in every state.                                              *)

ReaderVars == <<vars, readerVars>>

\* What a write and a start keep within bounds.
Bounded ==
    /\ torn = FALSE
    /\ record <= MaxRecord + 1
    /\ Len(write_q) <= QueueDepth
    /\ pc = "down" => /\ record = 0 /\ lastrecord = 0 /\ recordcursor = 0
                      /\ cdorb = <<>> /\ write_q = <<>>

ReaderInv ==
    /\ RingInv /\ IndexInv /\ TraceInv /\ Bounded
    /\ ready \in BOOLEAN /\ Now \in Readers

LEMMA InvLegible ==
    ASSUME ReaderInv, Up
    PROVE  Legible
  BY DEF ReaderInv, RingInv, IndexInv, TraceInv, Bounded, Legible

LEMMA ReaderSteps ==
    [ReaderNext]_ReaderVars => [Next]_vars /\ torn' = torn
<1> SUFFICES ASSUME [ReaderNext]_ReaderVars
             PROVE  [Next]_vars /\ torn' = torn
  OBVIOUS
<1>1. CASE Write
  <2>1. QueueWriteEvent \/ EmptyWriteQ
    BY <1>1 DEF Write
  <2>2. Next
    BY <2>1 DEF Next
  <2>3. torn' = torn
    BY <2>1 DEF QueueWriteEvent, EmptyWriteQ
  <2>4. QED
    BY <2>2, <2>3
<1>2. CASE OpenLog
  BY <1>2 DEF OpenLog, Next, StartUp
<1>3. CASE DbiInitialize
  BY <1>3 DEF DbiInitialize, vars
<1>4. CASE Retrieve
  BY <1>4 DEF Retrieve, vars
<1>5. CASE Close
  BY <1>5 DEF Close, Next, Ends
<1>6. CASE UNCHANGED ReaderVars
  BY <1>6 DEF ReaderVars, vars
<1>7. QED
  BY <1>1, <1>2, <1>3, <1>4, <1>5, <1>6 DEF ReaderNext

\* What is left in the queue is no more than there was.
LEMMA QueueShrinks ==
    ASSUME Whole, EmptyWriteQ
    PROVE  Len(write_q') <= Len(write_q) /\ Up' /\ record' = record
<1> DEFINE n == Fitting(write_q)
           stop == EndOfPad(n, Placed(write_q)[n + 1])
           cursor == IF Wraps(n) THEN 0 ELSE Placed(write_q)[n + 1]
<1>1. /\ write_q' = SubSeq(write_q, n + 1, Len(write_q))
      /\ Wrote(erb', n, stop)
      /\ record' = record
      /\ write_q # <<>>
      /\ Up'
  BY DEF EmptyWriteQ, Advance, Writing, Wrote, Up
<1>2. PICK disk : disk = erb'
  OBVIOUS
<1>3. Turned(n, stop, disk, cursor)
  BY <1>1, <1>2 DEF Turned, Wrote
<1>4. PICK m : m = n
  OBVIOUS
<1>5. m \in Nat /\ m \in 0..Len(write_q) /\ Len(write_q) \in Nat
  BY <1>3, <1>4, TurnPlaces
<1>6. write_q \in Seq(Queued)
  BY DEF Whole, QueueOK
<1> HIDE DEF n
<1>7. Len(write_q') = Len(write_q) - m
  BY <1>1, <1>4, <1>5, <1>6
<1>8. Len(write_q) - m <= Len(write_q)
  BY <1>5
<1>9. Up' /\ record' = record
  BY <1>1
<1>10. QED
  BY <1>7, <1>8, <1>9, Zenon

LEMMA BoundedNext ==
    ASSUME RingInv, Bounded, ReaderNext
    PROVE  Bounded'
<1>1. /\ torn = FALSE /\ torn' = FALSE /\ QueueDepth \in Nat /\ 1 <= QueueDepth
      /\ MaxRecord \in Nat
      /\ Up => Whole
  BY ReaderSteps, EventRingAssumption DEF Bounded, RingInv
<1>2. CASE QueueWriteEvent
  <2>1. Up /\ Whole
    BY <1>1, <1>2 DEF QueueWriteEvent, Up
  <2>2. /\ write_q \in Seq(Queued) /\ record \in Nat
        /\ Len(write_q) \in Nat
    BY <2>1 DEF Whole, QueueOK, Numbered
  <2>3. PICK event : write_q' = Append(write_q, event)
    BY <1>2 DEF QueueWriteEvent
  <2>4. Len(write_q') = Len(write_q) + 1
    BY <2>2, <2>3
  <2>5. pc' = "idle" /\ record' = record + 1 /\ record <= MaxRecord
        /\ Len(write_q) < QueueDepth
    BY <1>2 DEF QueueWriteEvent
  <2>6. QED
    BY <1>1, <2>2, <2>4, <2>5 DEF Bounded
<1>3. CASE EmptyWriteQ
  <2>1. Whole
    BY <1>1, <1>3 DEF EmptyWriteQ, Writing
  <2>2. Len(write_q') <= Len(write_q) /\ Up' /\ record' = record
    BY <1>3, <2>1, QueueShrinks
  <2>3. Len(write_q) \in Nat /\ Len(write_q') \in Nat
    <3>1. Whole'
      BY <1>3, <2>1, QueueTurns
    <3>2. QED
      BY <2>1, <3>1 DEF Whole, QueueOK
  <2>4. pc' # "down"
    BY <2>2 DEF Up
  <2>5. QED
    BY <1>1, <2>2, <2>3, <2>4 DEF Bounded
<1>4. CASE StartUp
  <2>1. PICK s : s = Scan(erb, Unscanned)
    OBVIOUS
  <2>2. s.record \in Nat
    BY <1>1, <1>4, <2>1, ScanFinds DEF RingInv, StartUp
  <2>3. /\ s.record <= MaxRecord /\ record' = s.record + 1
        /\ pc' = "starting"
    BY <1>4, <2>1 DEF StartUp, Open
  <2>4. PICK event : write_q' = <<event>>
    BY <1>4 DEF StartUp, Open
  <2>5. Len(write_q') = 1
    BY <2>4
  <2>6. QED
    BY <1>1, <2>2, <2>3, <2>5 DEF Bounded
<1>5. CASE Ends
  BY <1>1, <1>5 DEF Ends, Forget, Bounded
<1>6. CASE UNCHANGED vars
  BY <1>1, <1>6 DEF vars, Bounded
<1>7. QED
  BY <1>2, <1>3, <1>4, <1>5, <1>6
     DEF ReaderNext, Write, OpenLog, DbiInitialize, Retrieve, Close

\* The reader stays one.
LEMMA ReaderStays ==
    ASSUME ReaderInv, ReaderNext
    PROVE  ready' \in BOOLEAN /\ Now' \in Readers
<1>1. /\ ready \in BOOLEAN /\ Now \in Readers
      /\ Now' = [ret |-> ret', applied |-> applied']
  BY DEF ReaderInv, Now
<1>2. CASE UNCHANGED readerVars
  BY <1>1, <1>2 DEF readerVars, Now
<1>3. CASE DbiInitialize
  <2>1. Legible
    BY <1>3, InvLegible DEF DbiInitialize, Up
  <2>2. PICK sound \in Sounds :
           LET s == Seek("SET", 0, None, sound) IN
             /\ ret' = IF s.outcome = "done" THEN s.reader.ret
                       ELSE [s.reader.ret EXCEPT !.off = recordcursor]
             /\ applied' = s.reader.applied
    BY <1>3 DEF DbiInitialize
  <2>3. PICK s : s = Seek("SET", 0, None, sound)
    OBVIOUS
  <2>4. /\ sound \in Nat \X Nat /\ "SET" \in Whences /\ 0 \in Int /\ None \in Int
        /\ recordcursor \in Offsets
    BY <2>1, <2>2, LegibleRing, SoundKind DEF Whences
  <2>5. Sees("SET", 0, None, sound, s)
    BY <1>1, <2>1, <2>3, <2>4, SeekLands
  <2>6. PICK r \in Readers : r = s.reader
    BY <2>5 DEF Sees
  <2>7. /\ ret' = r.ret \/ ret' = [r.ret EXCEPT !.off = recordcursor]
        /\ applied' = r.applied
    BY <2>2, <2>3, <2>6
  <2>8. Now' \in Readers
    BY <1>1, <2>4, <2>7 DEF Readers
  <2>9. ready' \in BOOLEAN
    BY <1>3 DEF DbiInitialize
  <2>10. QED
    BY <2>8, <2>9
<1>4. CASE Retrieve
  <2>1. Legible
    BY <1>4, InvLegible DEF Retrieve, Reading, Up
  <2>2. PICK q \in Requests, sound \in Sounds :
           LET s == Seek(q.whence, q.offset, q.rec, sound) IN
             /\ ret' = s.reader.ret
             /\ applied' = s.reader.applied
    BY <1>4 DEF Retrieve
  <2>3. PICK s : s = Seek(q.whence, q.offset, q.rec, sound)
    OBVIOUS
  <2>4. Sees(q.whence, q.offset, q.rec, sound, s)
    BY <1>1, <2>1, <2>3, RequestKind, SeekLands
  <2>5. PICK r \in Readers : r = s.reader
    BY <2>4 DEF Sees
  <2>6. ret' = r.ret /\ applied' = r.applied
    BY <2>2, <2>3, <2>5
  <2>7. Now' \in Readers
    BY <1>1, <2>6 DEF Readers
  <2>8. QED
    BY <1>1, <1>4, <2>7 DEF Retrieve
<1>5. CASE Close
  <2>1. ready' = FALSE /\ ret' = NotRead /\ applied' = None
    BY <1>5 DEF Close
  <2>2. None \in None..MaxRecord
    BY EventRingAssumption DEF None
  <2>3. Now' \in Readers
    BY <1>1, <2>1, <2>2 DEF Readers, NotRead
  <2>4. QED
    BY <2>1, <2>3
<1>6. QED
  BY <1>2, <1>3, <1>4, <1>5 DEF ReaderNext, Write, OpenLog

LEMMA ReaderInvNext == ReaderInv /\ [ReaderNext]_ReaderVars => ReaderInv'
<1> SUFFICES ASSUME ReaderInv, [ReaderNext]_ReaderVars PROVE ReaderInv'
  OBVIOUS
<1>1. RingInv' /\ IndexInv' /\ TraceInv'
  BY ReaderSteps, RingInvNext, IndexInvNext, TraceInvNext DEF ReaderInv
<1>2. CASE ReaderNext
  BY <1>1, <1>2, BoundedNext, ReaderStays DEF ReaderInv
<1>3. CASE UNCHANGED ReaderVars
  BY <1>1, <1>3 DEF ReaderVars, vars, readerVars, ReaderInv, Bounded, Now
<1>4. QED
  BY <1>2, <1>3

LEMMA ReaderInvInit == ReaderInit => ReaderInv
<1> SUFFICES ASSUME ReaderInit PROVE ReaderInv
  OBVIOUS
<1>1. RingInv /\ IndexInv /\ TraceInv
  BY RingInvInit, TraceInvInit DEF ReaderInit, Init, IndexInv, Up
<1>2. Bounded
  BY EventRingAssumption DEF ReaderInit, Init, Bounded
<1>3. ready \in BOOLEAN /\ Now \in Readers
  <2>1. None \in None..MaxRecord
    BY EventRingAssumption DEF None
  <2>2. ready = FALSE /\ Now = [ret |-> NotRead, applied |-> None]
    BY DEF ReaderInit, Now
  <2>3. QED
    BY <2>1, <2>2 DEF Readers, NotRead
<1>4. QED
  BY <1>1, <1>2, <1>3 DEF ReaderInv

LEMMA ReaderInvariant == ReaderSpec => []ReaderInv
  BY ReaderInvInit, ReaderInvNext, PTL DEF ReaderSpec, ReaderVars

LEMMA InvTyped == ReaderInv => ReaderTypeOK
<1> SUFFICES ASSUME ReaderInv PROVE ReaderTypeOK
  OBVIOUS
<1>1. /\ RingInv /\ IndexInv /\ Bounded /\ torn = FALSE /\ Cells(erb)
      /\ pc = "down" \/ Up
      /\ Up => Whole
      /\ Size \in Nat /\ HeaderSize \in Nat /\ 2 * HeaderSize <= Size
      /\ HeaderSize > 0 /\ MaxRecord \in Nat /\ QueueDepth \in Nat
  BY EventRingAssumption DEF ReaderInv, RingInv, Bounded
<1>2. ASSUME NEW c \in Offsets
      PROVE  erb[c] \in {Body, Blank} \/
                /\ erb[c][1].type \in EventTypes \cup {"pad"}
                /\ erb[c][1].length \in HeaderSize..Size
                /\ erb[c][1].previous \in Offsets
                /\ erb[c][2] \in 0..(HeaderSize - 1)
  <2>1. CellOK(erb[c], c)
    BY <1>1 DEF Cells
  <2>2. CASE erb[c] \in {Body, Blank}
    BY <2>2
  <2>3. CASE \E h \in HeaderSet, i \in 0..(HeaderSize - 1) :
               /\ erb[c] = <<h, i>> /\ HeaderOK(h)
               /\ i <= c /\ c - i + h.length <= Size
    <3>1. PICK h \in HeaderSet, i \in 0..(HeaderSize - 1) : erb[c] = <<h, i>>
      BY <2>3
    <3>2. erb[c][1] = h /\ erb[c][2] = i
      BY <3>1
    <3>3. /\ h.type \in EventTypes \cup {"pad"} /\ h.length \in HeaderSize..Size
          /\ h.previous \in Offsets
      BY DEF HeaderSet
    <3>4. QED
      BY <3>2, <3>3
  <2>4. QED
    BY <2>1, <2>2, <2>3 DEF CellOK
<1>3. /\ record \in 0..(MaxRecord + 1)
      /\ lastrecord \in Offsets
      /\ recordcursor \in 0..(Size - HeaderSize)
      /\ \A i \in 1..Len(cdorb) : cdorb[i] \in Offsets \X Int
      /\ Len(write_q) <= QueueDepth
  <2>1. CASE Up
    <3>1. record \in 0..(MaxRecord + 1)
      BY <1>1, <2>1 DEF Whole, Numbered, Bounded
    <3>2. lastrecord \in Offsets /\ recordcursor \in 0..(Size - HeaderSize)
      BY <1>1, <2>1 DEF Whole, QueueOK
    <3>3. cdorb \in Seq(Entries)
      BY <1>1, <2>1 DEF IndexInv
    <3>4. \A i \in 1..Len(cdorb) : cdorb[i] \in Offsets \X Int
      <4>1. ASSUME NEW i \in 1..Len(cdorb) PROVE cdorb[i] \in Offsets \X Int
        <5>1. cdorb[i] \in Offsets \X Nat
          BY <3>3 DEF Entries
        <5>2. QED
          BY <5>1
      <4>2. QED
        BY <4>1
    <3>5. QED
      BY <1>1, <3>1, <3>2, <3>4 DEF Bounded
  <2>2. CASE pc = "down"
    <3>1. /\ record = 0 /\ lastrecord = 0 /\ recordcursor = 0 /\ cdorb = <<>>
          /\ Len(write_q) <= QueueDepth
      BY <1>1, <2>2 DEF Bounded
    <3>2. Len(cdorb) = 0
      BY <3>1
    <3>3. QED
      BY <1>1, <3>1, <3>2 DEF Offsets
  <2>3. QED
    BY <1>1, <2>1, <2>2
<1>4. pc \in {"down", "starting", "idle", "emptying", "dead"}
  BY <1>1 DEF Up
<1>5. torn \in BOOLEAN /\ (torn => Torn)
  BY <1>1
<1>6. TypeOK
  BY <1>2, <1>3, <1>4, <1>5 DEF TypeOK
<1>7. /\ ready \in BOOLEAN
      /\ ret.off \in {None} \cup Offsets
      /\ {ret.record, applied} \subseteq None..MaxRecord
      /\ ret.way \in {"none", "forward", "back"}
  BY DEF ReaderInv, Now, Readers
<1>8. QED
  BY <1>6, <1>7 DEF ReaderTypeOK

\* Whatever is asked of the log, and whatever of it was overwritten, a
\* retrieval leaves the cursor at a place of the file or nowhere, and what it
\* has read and applied within the records that were given out; the ring, the
\* queue and the index keep to their ranges.
THEOREM ReaderKeepsTypes == ReaderSpec => []ReaderTypeOK
  BY ReaderInvariant, InvTyped, PTL

\* _seek, for every size of the ring, every length of the events and every
\* choice of the index's frequency: a retrieval that is done leaves the
\* cursor at the record that was asked for, and in every case the database
\* has the state of the event the cursor is at, but for the exceptions that
\* the property names.
THEOREM RetrievalsLand == ReaderSpec => []LandsWhereAsked
<1>1. ReaderInv => LandsWhereAsked
  <2>1. ASSUME ReaderInv, Reading PROVE LandsWhereAsked
    BY <2>1, InvLegible, Landing DEF Reading, Up, ReaderInv
  <2>2. ASSUME ReaderInv, ~Reading PROVE LandsWhereAsked
    BY <2>2 DEF LandsWhereAsked
  <2>3. QED
    BY <2>1, <2>2
<1>2. QED
  BY <1>1, ReaderInvariant, PTL

\* _seek, likewise: as long as a dump is left in the file, every record in
\* memory or in the file is found by its number, but for those that the
\* reader would have to wrap to.
THEOREM RecordsFound == ReaderSpec => []FoundUnlessWrapped
<1>1. ReaderInv => FoundUnlessWrapped
  <2>1. ASSUME ReaderInv, Reading PROVE FoundUnlessWrapped
    BY <2>1, InvLegible, Finding DEF Reading, Up, ReaderInv
  <2>2. ASSUME ReaderInv, ~Reading PROVE FoundUnlessWrapped
    BY <2>2 DEF FoundUnlessWrapped
  <2>3. QED
    BY <2>1, <2>2
<1>2. QED
  BY <1>1, ReaderInvariant, PTL
=============================================================================
