---------------------------- MODULE UploadProofs ----------------------------
(***************************************************************************)
(* Theorems about Upload, for any number of threads, samples and files.    *)
(*                                                                         *)
(* _sync_to_disk compares the count with the samples in memory to decide   *)
(* whether it may write the cache anew.  That is right as long as the      *)
(* count tells of all that memory and cache hold, which every step keeps   *)
(* but those that set the count to zero and leave the cache: the           *)
(* threshold, a restart, and an upload that cannot take the cache.         *)
(*                                                                         *)
(* As long as one uploader is at work at a time, a sample is in one place  *)
(* that will be sent, and in none once that was confirmed: a file that     *)
(* could not be removed is on no list.  And a walk of files_list leaves    *)
(* out no file whose samples were not sent.  So what was confirmed is not  *)
(* sent again, and nothing is lost but in the ways that excused records.   *)
(* Once two have met, what files_list says is of no use: a sample may be   *)
(* left in a forgotten file, and that is all that can happen to it.        *)
(***************************************************************************)
EXTENDS Upload, FiniteSetTheorems, TLAPS

Received ==
    /\ last \in Nat
    /\ count \in Nat
    /\ queue \subseteq 1..last
    /\ cache \subseteq 1..last

AllCounted ==
    uncounted \/ /\ queue \cap cache = {}
                 /\ Cardinality(queue) + Cardinality(cache) <= count

IInv == Received /\ AllCounted

-----------------------------------------------------------------------------
(* Sets of samples.                                                        *)

\* Sets of samples are finite, and disjoint ones add up.
LEMMA SampleSets ==
    ASSUME NEW n \in Nat, NEW S \in SUBSET (1..n)
    PROVE  IsFiniteSet(S) /\ Cardinality(S) \in Nat
<1>1. IsFiniteSet(1..n)
  BY FS_Interval
<1>2. IsFiniteSet(S)
  BY <1>1, FS_Subset
<1>3. QED
  BY <1>2, FS_CardinalityType

LEMMA DisjointSum ==
    ASSUME NEW n \in Nat, NEW S \in SUBSET (1..n), NEW T \in SUBSET (1..n),
           S \cap T = {}
    PROVE  Cardinality(S \cup T) = Cardinality(S) + Cardinality(T)
<1>1. IsFiniteSet(S) /\ IsFiniteSet(T)
  BY SampleSets
<1>2. Cardinality(S \cup T)
         = Cardinality(S) + Cardinality(T) - Cardinality(S \cap T)
  BY <1>1, FS_Union
<1>3. Cardinality(S) \in Nat /\ Cardinality(T) \in Nat
  BY SampleSets
<1>4. Cardinality(S \cap T) = 0
  BY FS_EmptySet
<1>5. QED
  BY <1>2, <1>3, <1>4

\* The sample that is received is one more.
LEMMA Held ==
    ASSUME Received
    PROVE  LET held == queue \cup {last + 1} IN
             /\ held \subseteq 1..(last + 1)
             /\ Cardinality(held) = Cardinality(queue) + 1
             /\ held \cap cache = queue \cap cache
<1>1. last + 1 \notin queue /\ last + 1 \notin cache
  BY DEF Received
<1>2. IsFiniteSet(queue)
  BY SampleSets DEF Received
<1>3. Cardinality(queue \cup {last + 1}) = Cardinality(queue) + 1
  BY <1>1, <1>2, FS_AddElement
<1>4. queue \cup {last + 1} \subseteq 1..(last + 1)
  BY DEF Received
<1>5. QED
  BY <1>1, <1>3, <1>4

-----------------------------------------------------------------------------
(* The invariant.                                                          *)

LEMMA InitInv == Init => IInv
<1>1. Cardinality({}) = 0
  BY FS_EmptySet
<1>2. QED
  BY <1>1 DEF Init, IInv, Received, AllCounted

LEMMA ReceiveInv ==
    ASSUME IInv, NEW r \in Receivers, Receive(r)
    PROVE  IInv'
<1> DEFINE held == queue \cup {last + 1}
<1>1. /\ last' = last + 1 /\ count' = count + 1 /\ uncounted' = uncounted
  BY DEF Receive
<1>2. /\ held \subseteq 1..(last + 1)
      /\ Cardinality(held) = Cardinality(queue) + 1
      /\ held \cap cache = queue \cap cache
  BY Held DEF IInv
<1>3. /\ Cardinality(queue) \in Nat /\ Cardinality(cache) \in Nat
      /\ Cardinality({}) = 0
  BY SampleSets, FS_EmptySet DEF IInv, Received
<1>4. cache \subseteq 1..(last + 1) /\ last + 1 \in Nat
  BY DEF IInv, Received
<1>5. \/ queue' = held /\ cache' = cache
      \/ /\ queue' = {}
         /\ \E part \in SUBSET held : cache' \in {cache \cup part, part}
  BY DEF Receive, Flush
<1>6. Received'
  <2>1. queue' \subseteq 1..(last + 1) /\ cache' \subseteq 1..(last + 1)
    BY <1>2, <1>4, <1>5
  <2>2. count + 1 \in Nat
    BY DEF IInv, Received
  <2>3. QED
    BY <1>1, <1>4, <2>1, <2>2 DEF Received
<1>7. AllCounted'
  <2>1. CASE uncounted
    BY <2>1, <1>1 DEF AllCounted
  <2>2. CASE ~uncounted
    <3>1. /\ queue \cap cache = {}
          /\ Cardinality(queue) + Cardinality(cache) <= count
          /\ count \in Nat
      BY <2>2 DEF IInv, AllCounted, Received
    <3>2. Cardinality(cache \cup held) = Cardinality(cache) + Cardinality(held)
      <4>1. cache \in SUBSET (1..(last + 1)) /\ held \in SUBSET (1..(last + 1))
        BY <1>2, <1>4
      <4>2. cache \cap held = {}
        BY <1>2, <3>1
      <4>3. QED
        BY <4>1, <4>2, <1>4, DisjointSum
    <3>3. CASE queue' = held /\ cache' = cache
      BY <3>1, <3>3, <1>1, <1>2, <1>3 DEF AllCounted
    <3>4. ASSUME NEW part \in SUBSET held, queue' = {},
                 cache' \in {cache \cup part, part}
          PROVE  AllCounted'
      <4>1. IsFiniteSet(cache \cup held) /\ cache' \subseteq cache \cup held
        BY <3>4, <1>2, <1>4, SampleSets
      <4>2. /\ Cardinality(cache') \in Nat
            /\ Cardinality(cache') <= Cardinality(cache \cup held)
        BY <4>1, FS_Subset, FS_CardinalityType
      <4>3. QED
        BY <3>1, <3>2, <3>4, <4>2, <1>1, <1>2, <1>3 DEF AllCounted
    <3>5. QED
      BY <3>3, <3>4, <1>5
  <2>3. QED
    BY <2>1, <2>2
<1>8. QED
  BY <1>6, <1>7 DEF IInv

\* The steps that leave memory, cache and count alone.
Untouched == UNCHANGED <<last, queue, count, cache, uncounted>>

LEMMA StepUntouched ==
    ASSUME \/ IntervalPasses \/ LaterSnapshot
           \/ \E u \in Uploaders : TakeSnapshot(u) \/ Step(u)
    PROVE  Untouched
<1>0. CASE IntervalPasses \/ LaterSnapshot
  BY <1>0 DEF IntervalPasses, LaterSnapshot, Untouched, memoryVars
<1> SUFFICES ASSUME NEW u \in Uploaders, TakeSnapshot(u) \/ Step(u)
             PROVE  Untouched
  BY <1>0
<1>1. CASE TakeSnapshot(u)
  BY <1>1 DEF TakeSnapshot, Untouched, memoryVars
<1>2. CASE ClearEvent(u)
  BY <1>2 DEF ClearEvent, Untouched, memoryVars
<1>3. CASE Format(u)
  BY <1>3 DEF Format, Untouched, memoryVars
<1>4. CASE FormatFails(u)
  BY <1>4 DEF FormatFails, Untouched, memoryVars
<1>5. CASE NextNumber(u)
  BY <1>5 DEF NextNumber, Untouched, memoryVars
<1>6. CASE Send(u)
  BY <1>6 DEF Send, Untouched, memoryVars
<1>7. CASE SendFails(u)
  BY <1>7 DEF SendFails, Untouched, memoryVars
<1>8. CASE SaveFile(u)
  BY <1>8 DEF SaveFile, Untouched, memoryVars
<1>9. CASE SaveFails(u)
  BY <1>9 DEF SaveFails, Untouched, memoryVars
<1>10. CASE SaveStats(u)
  BY <1>10 DEF SaveStats, Untouched, memoryVars
<1>11. CASE SkipFile(u)
  BY <1>11 DEF SkipFile, Untouched, memoryVars
<1>12. CASE SendFile(u)
  BY <1>12 DEF SendFile, Untouched, memoryVars
<1>13. CASE RemoveFile(u)
  BY <1>13 DEF RemoveFile, Untouched, memoryVars
<1>14. CASE KeepRest(u)
  BY <1>14 DEF KeepRest, Untouched, memoryVars
<1>15. QED
  BY <1>1, <1>2, <1>3, <1>4, <1>5, <1>6, <1>7, <1>8, <1>9, <1>10, <1>11,
     <1>12, <1>13, <1>14 DEF Step

LEMMA NextInv == IInv /\ [Next]_vars => IInv'
<1> SUFFICES ASSUME IInv, [Next]_vars PROVE IInv'
  OBVIOUS
<1>1. ASSUME NEW r \in Receivers, Receive(r) PROVE IInv'
  BY <1>1, ReceiveInv
<1>2. ASSUME NEW r \in Receivers, TestCount(r) \/ SetEvent(r) PROVE IInv'
  BY <1>2 DEF TestCount, SetEvent, memoryVars, IInv, Received, AllCounted
<1>3. ASSUME NEW r \in Receivers, ResetCount(r) PROVE IInv'
  BY <1>3 DEF ResetCount, IInv, Received, AllCounted
<1>4. ASSUME NEW u \in Uploaders, Take(u) PROVE IInv'
  <2>1. PICK rest \in SUBSET cache : cache' = rest /\ uncounted' = (rest # {})
    BY <1>4 DEF Take
  <2>2. queue' = {} /\ count' = 0 /\ last' = last
    BY <1>4 DEF Take
  <2>3. Received'
    BY <2>1, <2>2 DEF IInv, Received
  <2>4. Cardinality({}) = 0
    BY FS_EmptySet
  <2>5. CASE rest = {}
    BY <2>1, <2>2, <2>3, <2>4, <2>5 DEF IInv, AllCounted
  <2>6. CASE rest # {}
    BY <2>1, <2>3, <2>6 DEF IInv, AllCounted
  <2>7. QED
    BY <2>5, <2>6
<1>5. CASE \/ IntervalPasses \/ LaterSnapshot
           \/ \E u \in Uploaders : TakeSnapshot(u) \/ Step(u)
  BY <1>5, StepUntouched DEF Untouched, IInv, Received, AllCounted
<1>6. CASE PowerFails
  BY <1>6 DEF PowerFails, IInv, Received, AllCounted
<1>7. CASE UNCHANGED vars
  BY <1>7 DEF vars, memoryVars, IInv, Received, AllCounted
<1>8. QED
  BY <1>1, <1>2, <1>3, <1>4, <1>5, <1>6, <1>7 DEF Next

-----------------------------------------------------------------------------
\* The cache file is written anew over samples only after a threshold, a
\* restart or an upload that could not take it has set the count to zero.
THEOREM OverwrittenOnlyForCause == Spec => OverwrittenForCause
<1> DEFINE Kept == cache \subseteq cache' \/ count' = 0 \/ uncounted
<1>1. ASSUME IInv, [Next]_vars PROVE [Kept]_vars
  <2>1. ASSUME NEW r \in Receivers, Receive(r) PROVE Kept
    <3>1. SUFFICES ASSUME ~uncounted,
                          count + 1 = Cardinality(queue \cup {last + 1})
                   PROVE  cache = {}
      BY <2>1 DEF Receive, Flush
    <3>2. Cardinality(queue \cup {last + 1}) = Cardinality(queue) + 1
      BY Held, <1>1 DEF IInv
    <3>3. /\ IsFiniteSet(cache) /\ Cardinality(cache) \in Nat
          /\ Cardinality(queue) \in Nat /\ count \in Nat
      BY SampleSets, <1>1 DEF IInv, Received
    <3>4. Cardinality(queue) + Cardinality(cache) <= count
      BY <3>1, <1>1 DEF IInv, AllCounted
    <3>5. Cardinality(cache) = 0
      BY <3>1, <3>2, <3>3, <3>4
    <3>6. QED
      BY <3>3, <3>5, FS_EmptySet
  <2>2. ASSUME NEW r \in Receivers, TestCount(r) \/ SetEvent(r) PROVE Kept
    BY <2>2 DEF TestCount, SetEvent, memoryVars
  <2>3. ASSUME NEW r \in Receivers, ResetCount(r) PROVE Kept
    BY <2>3 DEF ResetCount
  <2>4. ASSUME NEW u \in Uploaders, Take(u) PROVE Kept
    BY <2>4 DEF Take
  <2>5. CASE \/ IntervalPasses \/ LaterSnapshot
             \/ \E u \in Uploaders : TakeSnapshot(u) \/ Step(u)
    BY <2>5, StepUntouched DEF Untouched
  <2>6. CASE PowerFails
    BY <2>6 DEF PowerFails
  <2>7. QED
    BY <2>1, <2>2, <2>3, <2>4, <2>5, <2>6, <1>1 DEF Next
<1>2. QED
  BY InitInv, NextInv, <1>1, PTL DEF Spec, OverwrittenForCause

-----------------------------------------------------------------------------
(* Lists of files.                                                         *)

\* A list of files names each of them once.
Listed(f) == f \in Seq(Names) /\ IsInjective(f)

LEMMA KeptListed ==
    ASSUME NEW f, Listed(f), NEW d \in 0..Len(f)
    PROVE  LET kept == SubSeq(f, d + 1, Len(f)) IN
             /\ Listed(kept)
             /\ Range(kept) \subseteq Range(f)
             /\ Range(f) = Range(kept) \cup {f[i] : i \in 1..d}
             /\ d = 0 => kept = f
<1> DEFINE kept == SubSeq(f, d + 1, Len(f))
<1>1. /\ f \in Seq(Names) /\ DOMAIN f = 1..Len(f) /\ Len(f) \in Nat
      /\ \A i \in 1..Len(f) : f[i] \in Names
  BY DEF Listed
<1>2. /\ kept \in Seq(Names) /\ DOMAIN kept = 1..(Len(f) - d)
      /\ \A i \in 1..(Len(f) - d) : kept[i] = f[d + i]
  BY <1>1
<1>3. Listed(kept)
  BY <1>1, <1>2 DEF Listed, IsInjective
<1>4. Range(kept) \subseteq Range(f)
  BY <1>1, <1>2 DEF Range
<1>5. Range(f) \subseteq Range(kept) \cup {f[i] : i \in 1..d}
  <2>1. SUFFICES ASSUME NEW i \in 1..Len(f), i \notin 1..d
                 PROVE  f[i] \in Range(kept)
    BY <1>1 DEF Range
  <2>2. i - d \in 1..(Len(f) - d) /\ d + (i - d) = i
    BY <1>1, <2>1
  <2>3. kept[i - d] = f[i] /\ i - d \in DOMAIN kept
    BY <1>2, <2>2
  <2>4. QED
    BY <2>3 DEF Range
<1>6. d = 0 => kept = f
  BY <1>1, <1>2
<1>7. \A i \in 1..d : f[i] \in Range(f)
  BY <1>1 DEF Range
<1>8. QED
  BY <1>3, <1>4, <1>5, <1>6, <1>7

LEMMA AddedListed ==
    ASSUME NEW f, Listed(f), NEW n \in Names
    PROVE  LET new == IF n \in Range(f) THEN <<>> ELSE <<n>> IN
             /\ Listed(f \o new)
             /\ Range(f \o new) = Range(f) \cup {n}
<1>1. /\ f \in Seq(Names) /\ DOMAIN f = 1..Len(f) /\ Len(f) \in Nat
      /\ \A i \in 1..Len(f) : f[i] \in Names
  BY DEF Listed
<1>2. CASE n \in Range(f)
  <2>1. f \o <<>> = f
    BY <1>1
  <2>2. QED
    BY <1>2, <2>1
<1>3. CASE n \notin Range(f)
  <2> DEFINE g == f \o <<n>>
  <2>1. /\ g \in Seq(Names) /\ DOMAIN g = 1..(Len(f) + 1)
        /\ \A i \in 1..Len(f) : g[i] = f[i]
        /\ g[Len(f) + 1] = n
    BY <1>1
  <2>2. \A i \in 1..Len(f) : f[i] # n
    BY <1>1, <1>3 DEF Range
  <2>3. Listed(g)
    BY <1>1, <2>1, <2>2 DEF Listed, IsInjective
  <2>4. Range(g) = Range(f) \cup {n}
    BY <1>1, <2>1 DEF Range
  <2>5. QED
    BY <1>3, <2>3, <2>4
<1>4. QED
  BY <1>2, <1>3

LEMMA RestListed ==
    ASSUME NEW f, Listed(f), f # <<>>
    PROVE  /\ Head(f) \in Names
           /\ Listed(Tail(f))
           /\ Range(f) = Range(Tail(f)) \cup {Head(f)}
           /\ Head(f) \notin Range(Tail(f))
<1>1. /\ f \in Seq(Names) /\ DOMAIN f = 1..Len(f) /\ Len(f) \in Nat
      /\ \A i \in 1..Len(f) : f[i] \in Names
      /\ Len(f) # 0
  BY DEF Listed
<1>2. /\ Tail(f) \in Seq(Names) /\ DOMAIN Tail(f) = 1..(Len(f) - 1)
      /\ \A i \in 1..(Len(f) - 1) : Tail(f)[i] = f[i + 1]
      /\ Head(f) = f[1]
  BY <1>1
<1>3. Listed(Tail(f))
  BY <1>1, <1>2 DEF Listed, IsInjective
<1>4. Range(f) \subseteq Range(Tail(f)) \cup {Head(f)}
  <2>1. SUFFICES ASSUME NEW i \in 1..Len(f), i # 1
                 PROVE  f[i] \in Range(Tail(f))
    BY <1>1, <1>2 DEF Range
  <2>2. i - 1 \in 1..(Len(f) - 1) /\ f[i] = Tail(f)[i - 1]
    BY <1>1, <1>2, <2>1
  <2>3. QED
    BY <1>2, <2>2 DEF Range
<1>5. Range(Tail(f)) \cup {Head(f)} \subseteq Range(f)
  <2>1. \A i \in 1..(Len(f) - 1) : i + 1 \in 1..Len(f)
    BY <1>1
  <2>2. 1 \in 1..Len(f)
    BY <1>1
  <2>3. QED
    BY <1>1, <1>2, <2>1, <2>2 DEF Range
<1>6. Head(f) \notin Range(Tail(f))
  <2>1. \A i \in 1..(Len(f) - 1) : i + 1 \in 1..Len(f) /\ i + 1 # 1
    BY <1>1
  <2>2. 1 \in 1..Len(f)
    BY <1>1
  <2>3. \A i \in 1..(Len(f) - 1) : f[i + 1] # f[1]
    BY <1>1, <2>1, <2>2 DEF Listed, IsInjective
  <2>4. QED
    BY <1>2, <2>3 DEF Range
<1>7. QED
  BY <1>1, <1>2, <1>3, <1>4, <1>5, <1>6

-----------------------------------------------------------------------------
(* Types.                                                                  *)

\* Nothing is anywhere that was not received.
Known ==
    /\ last \in 0..MaxSample /\ count \in 0..last
    /\ {queue, cache, sent, excused} \subseteq SUBSET (1..last)
    /\ batch \in [Uploaders -> SUBSET (1..last)]
    /\ disk \in [Names -> (SUBSET (1..last)) \cup {NoFile}]

Control ==
    /\ {threshold_event, missed, due} \subseteq BOOLEAN
    /\ {uncounted, twice, overlap} \subseteq BOOLEAN
    /\ rat \in [Receivers -> {"idle", "test", "reset", "set"}]
    /\ at \in [Uploaders -> {"idle", "clear", "format", "number", "send",
                             "save", "stored", "delivered", "recover",
                             "remove"}]
    /\ recovered \in [Uploaders -> 0..MaxRecover]
    /\ \A u \in Uploaders : at[u] = "remove" => recovered[u] < MaxRecover
    /\ snapshots \in 0..MaxSnapshots
    /\ faults \in 0..MaxFaults

Walking(u) == at[u] \in {"recover", "remove"}

\* Only who walks a list has one, and who shares one has all of it to do.
Lists ==
    /\ Listed(files_list) /\ file_number \in Names
    /\ Listed(stats[1]) /\ stats[2] \in Names
    /\ name \in [Uploaders -> Names]
    /\ sharing \in SUBSET Uploaders
    /\ todo \in [Uploaders -> Seq(Names)]
    /\ \A u \in Uploaders : Listed(todo[u])
    /\ \A u \in Uploaders : Walking(u) \/ (todo[u] = <<>> /\ u \notin sharing)
    /\ \A u \in sharing : todo[u] = files_list

Typed == Known /\ Control /\ Lists

LEMMA TypedIsTypeOK == Typed => TypeOK
<1> SUFFICES ASSUME Typed PROVE TypeOK
  OBVIOUS
<1>1. 1..last \subseteq Samples /\ 0..last \subseteq 0..MaxSample
  BY UploadAssumption DEF Typed, Known, Samples
<1>2. /\ {queue, cache, sent, excused} \subseteq SUBSET Samples
      /\ batch \in [Uploaders -> SUBSET Samples]
      /\ disk \in [Names -> (SUBSET Samples) \cup {NoFile}]
  BY <1>1 DEF Typed, Known
<1>3. \A files \in {files_list, stats[1]} \cup Range(todo) : Listed(files)
  BY DEF Typed, Lists, Range
<1>4. last \in 0..MaxSample /\ count \in 0..MaxSample
  BY <1>1 DEF Typed, Known
<1>5. QED
  BY <1>2, <1>3, <1>4 DEF Typed, Control, Lists, Listed, TypeOK

LEMMA TypedInit == Init => Typed
<1> SUFFICES ASSUME Init PROVE Typed
  OBVIOUS
<1>1. 0 \in Names /\ 0 \in 0..MaxSample /\ 0 \in 0..MaxRecover
      /\ 0 \in 0..MaxSnapshots /\ 0 \in 0..MaxFaults
  BY UploadAssumption DEF Names
<1>2. Listed(<<>>)
  BY DEF Listed, IsInjective
<1>3. Known
  BY <1>1 DEF Init, Known
<1>4. Control
  BY <1>1 DEF Init, Control
<1>5. Lists
  <2>1. /\ todo \in [Uploaders -> Seq(Names)]
        /\ \A u \in Uploaders : todo[u] = <<>>
    BY <1>2 DEF Init, Listed
  <2>2. stats[1] = <<>> /\ stats[2] = 0
    BY DEF Init
  <2>3. QED
    BY <1>1, <1>2, <2>1, <2>2 DEF Init, Lists
<1>6. QED
  BY <1>3, <1>4, <1>5 DEF Typed

LEMMA FaultCounted ==
    ASSUME Typed, Fault
    PROVE  faults' \in 0..MaxFaults
<1>1. MaxFaults \in Nat
  BY UploadAssumption
<1>2. QED
  BY <1>1 DEF Fault, Typed, Control

LEMMA ZeroName == 0 \in Names
  BY UploadAssumption DEF Names

\* The contents of a file.
LEMMA ContentKnown ==
    ASSUME Typed, NEW n \in Names
    PROVE  Content(n) \in SUBSET (1..last)
  BY DEF Typed, Known, Content

LEMMA DroppedKnown ==
    ASSUME Typed, NEW d \in 0..Len(files_list)
    PROVE  /\ Dropped(d) \subseteq Names
           /\ SamplesDropped(d) \in SUBSET (1..last)
<1>1. Dropped(d) \subseteq Names
  BY DEF Typed, Lists, Listed, Dropped
<1>2. QED
  BY <1>1, ContentKnown DEF SamplesDropped

\* What a call of receive does to the samples and the files, whether or not
\* it flushes the queue: d files are dropped.
Reception(d) ==
    /\ last' = last + 1 /\ count' = count + 1
    /\ files_list' = SubSeq(files_list, d + 1, Len(files_list))
    /\ \E gone \in SUBSET Dropped(d) : disk' = Without(gone)
    /\ sharing' = IF d > 0 THEN {} ELSE sharing
    /\ \/ queue' = queue \cup {last + 1} /\ cache' = cache
       \/ queue' = {} /\ cache' \subseteq cache \cup queue \cup {last + 1}
    /\ queue \cup cache \cup SamplesDropped(d) \cup {last + 1}
          \subseteq queue' \cup cache' \cup excused'
    /\ excused \subseteq excused'
    /\ excused' \subseteq excused \cup queue \cup cache \cup SamplesDropped(d)
                                  \cup {last + 1}
    /\ faults' \in 0..MaxFaults

LEMMA ReceiveEffect ==
    ASSUME Typed, NEW r \in Receivers, Receive(r)
    PROVE  \E d \in 0..Len(files_list) : Reception(d)
<1> DEFINE held == queue \cup {last + 1}
<1>1. /\ SubSeq(files_list, 0 + 1, Len(files_list)) = files_list
      /\ {} \in SUBSET Dropped(0) /\ SamplesDropped(0) = {}
      /\ disk = Without({})
      /\ 0 \in 0..Len(files_list) /\ faults \in 0..MaxFaults
  <2>1. SamplesDropped(0) = {}
    BY DEF Dropped, SamplesDropped
  <2>2. files_list \in Seq(Names)
    BY DEF Typed, Lists, Listed
  <2>3. SubSeq(files_list, 0 + 1, Len(files_list)) = files_list
    BY <2>2
  <2>4. disk = Without({})
    BY DEF Without, Typed, Known
  <2>5. QED
    BY <2>1, <2>2, <2>3, <2>4 DEF Typed, Control
<1>2. Fault => faults' \in 0..MaxFaults
  BY FaultCounted
<1>3. last' = last + 1 /\ count' = count + 1
  BY DEF Receive
<1>4. CASE /\ queue' = held
           /\ UNCHANGED <<files_list, disk, sharing, cache, excused, faults>>
  <2>1. Reception(0)
    BY <1>1, <1>3, <1>4 DEF Reception
  <2>2. QED
    BY <1>1, <2>1
<1>5. CASE Flush(held, count + 1) /\ queue' = {}
  <2> DEFINE anew == count + 1 = Cardinality(held)
  <2> DEFINE Flushed(d, gone, written) ==
           /\ DropFiles(d)
           /\ disk' = Without(gone)
           /\ IF d = 0 /\ written = held THEN UNCHANGED faults ELSE Fault
           /\ \/ /\ cache' = written \cup (IF anew THEN {} ELSE cache)
                 /\ excused' = excused \cup SamplesDropped(d)
                                   \cup (held \ written)
                                   \cup (IF anew THEN cache ELSE {})
              \/ /\ written = {}
                 /\ cache' = cache
                 /\ excused' = excused \cup SamplesDropped(d) \cup held
  <2>0. PICK d \in 0..Len(files_list) :
           \E gone \in SUBSET Dropped(d), written \in SUBSET held :
              Flushed(d, gone, written)
    BY <1>5 DEF Flush
  <2>1. PICK gone \in SUBSET Dropped(d), written \in SUBSET held :
           Flushed(d, gone, written)
    BY <2>0
  <2>2. faults' \in 0..MaxFaults
    BY <1>1, <1>2, <2>1
  <2>3. /\ held \cup cache \cup SamplesDropped(d)
              \subseteq cache' \cup excused'
        /\ excused \subseteq excused' /\ cache' \subseteq cache \cup held
        /\ excused' \subseteq excused \cup SamplesDropped(d) \cup held
                                      \cup cache
    <3>1. CASE anew
      BY <2>1, <3>1
    <3>2. CASE ~anew
      BY <2>1, <3>2
    <3>3. QED
      BY <3>1, <3>2
  <2>4. Reception(d)
    BY <1>3, <1>5, <2>1, <2>2, <2>3 DEF DropFiles, Reception
  <2>5. QED
    BY <2>4
<1>6. QED
  BY <1>4, <1>5 DEF Receive

LEMMA TypedReceive ==
    ASSUME Typed, NEW r \in Receivers, Receive(r)
    PROVE  Typed'
<1>1. PICK d \in 0..Len(files_list) : Reception(d)
  BY ReceiveEffect
<1>2. Known'
  <2>1. /\ last' = last + 1 /\ last' \in 0..MaxSample /\ count' \in 0..last'
        /\ \A S : S \in SUBSET (1..last) => S \in SUBSET (1..last')
        /\ last + 1 \in 1..last'
    <3>1. last' = last + 1 /\ count' = count + 1
      BY <1>1 DEF Reception
    <3>2. /\ last \in 0..MaxSample /\ count \in 0..last
          /\ MaxSample \in Nat /\ last < MaxSample
      BY UploadAssumption DEF Receive, Typed, Known
    <3>3. QED
      BY <3>1, <3>2
  <2>2. /\ {queue, cache, sent, excused, SamplesDropped(d)}
              \subseteq SUBSET (1..last')
        /\ batch \in [Uploaders -> SUBSET (1..last')]
        /\ disk \in [Names -> (SUBSET (1..last')) \cup {NoFile}]
    BY <2>1, DroppedKnown DEF Typed, Known
  <2>3. {queue', cache', excused'} \subseteq SUBSET (1..last')
    BY <1>1, <2>1, <2>2 DEF Reception
  <2>4. disk' \in [Names -> (SUBSET (1..last')) \cup {NoFile}]
    BY <1>1, <2>2 DEF Reception, Without
  <2>5. QED
    BY <2>1, <2>2, <2>3, <2>4 DEF Receive, uploadVars, sentVars, Known
<1>3. Control'
  BY <1>1 DEF Receive, Reception, eventVars, timeVars, sentVars, Typed, Control
<1>4. Lists'
  <2>1. /\ Listed(files_list')
        /\ d = 0 => files_list' = files_list /\ sharing' = sharing
        /\ d # 0 => sharing' = {}
    BY <1>1, KeptListed DEF Reception, Typed, Lists
  <2>2. UNCHANGED <<at, todo, name, stats, file_number>>
    BY DEF Receive, uploadVars
  <2>3. CASE d = 0
    BY <2>1, <2>2, <2>3 DEF Typed, Lists, Walking
  <2>4. CASE d # 0
    BY <2>1, <2>2, <2>4 DEF Typed, Lists, Walking
  <2>5. QED
    BY <2>3, <2>4
<1>5. QED
  BY <1>2, <1>3, <1>4 DEF Typed

\* What the saving of a file does to the files: d of them are dropped.
Saving(u, d) ==
    /\ Listed(files_list')
    /\ Range(files_list') \subseteq Range(files_list) \cup {name[u]}
    /\ Range(files_list) \subseteq Range(files_list') \cup Dropped(d)
    /\ name[u] \in Range(files_list')
    /\ sharing' \subseteq sharing
    /\ todo' \in [Uploaders -> Seq(Names)]
    /\ \A v \in Uploaders : Listed(todo'[v])
    /\ \A v \in Uploaders : Range(todo[v]) \subseteq Range(todo'[v])
    /\ \A v \in Uploaders : v \notin sharing => todo'[v] = todo[v]
    /\ \A v \in sharing' : todo'[v] = files_list'
    /\ \E gone \in SUBSET Dropped(d) :
          disk' = [Without(gone) EXCEPT ![name[u]] = batch[u]]
    /\ excused' = excused \cup SamplesDropped(d)
                          \cup (Content(name[u]) \ batch[u])
    /\ faults' \in 0..MaxFaults

LEMMA SaveEffect ==
    ASSUME Typed, NEW u \in Uploaders, SaveFile(u)
    PROVE  \E d \in 0..Len(files_list) : Saving(u, d)
<1> DEFINE kept(d) == SubSeq(files_list, d + 1, Len(files_list))
           new(d)  == IF name[u] \in Range(kept(d)) THEN <<>> ELSE <<name[u]>>
<1>1. PICK d \in 0..Len(files_list) :
         /\ IF d > 0 THEN Fault /\ sharing' = {}
                     ELSE UNCHANGED <<faults, sharing>>
         /\ files_list' = kept(d) \o new(d)
         /\ todo' = [v \in Uploaders |-> IF v \in sharing /\ d = 0
                                          THEN todo[v] \o new(d) ELSE todo[v]]
         /\ \E gone \in SUBSET Dropped(d) :
               disk' = [Without(gone) EXCEPT ![name[u]] = batch[u]]
         /\ excused' = excused \cup SamplesDropped(d)
                               \cup (Content(name[u]) \ batch[u])
  BY DEF SaveFile
<1>2. /\ Listed(files_list) /\ name[u] \in Names /\ d \in Nat
      /\ faults \in 0..MaxFaults
  BY DEF Typed, Lists, Listed, Control
<1>3. /\ Listed(kept(d)) /\ Range(kept(d)) \subseteq Range(files_list)
      /\ Range(files_list) = Range(kept(d)) \cup {files_list[i] : i \in 1..d}
      /\ d = 0 => kept(d) = files_list
  BY <1>2, KeptListed
<1>4. Listed(files_list') /\ Range(files_list') = Range(kept(d)) \cup {name[u]}
  BY <1>1, <1>2, <1>3, AddedListed
<1>5. \A v \in Uploaders : v \notin sharing \/ d # 0 => todo'[v] = todo[v]
  BY <1>1, <1>2
<1>6. ASSUME d = 0, NEW v \in sharing
      PROVE  todo'[v] = files_list' /\ Range(todo[v]) \subseteq Range(todo'[v])
  <2>1. todo[v] = files_list /\ v \in Uploaders
    BY <1>6 DEF Typed, Lists
  <2>2. todo'[v] = files_list'
    BY <1>1, <1>3, <1>6, <2>1
  <2>3. QED
    BY <1>3, <1>4, <1>6, <2>1, <2>2
<1>7. /\ \A v \in Uploaders : Range(todo[v]) \subseteq Range(todo'[v])
      /\ \A v \in Uploaders : Listed(todo'[v])
  BY <1>4, <1>5, <1>6 DEF Typed, Lists
<1>8. todo' \in [Uploaders -> Seq(Names)]
  BY <1>1, <1>7 DEF Listed
<1>9. /\ sharing' \subseteq sharing
      /\ \A v \in sharing' : todo'[v] = files_list'
  <2>1. CASE d = 0
    BY <1>1, <1>6, <2>1
  <2>2. CASE d # 0
    <3>1. d > 0
      BY <1>2, <2>2
    <3>2. sharing' = {}
      BY <1>1, <3>1
    <3>3. QED
      BY <3>2
  <2>3. QED
    BY <2>1, <2>2
<1>10. faults' \in 0..MaxFaults
  BY <1>1, <1>2, FaultCounted
<1>11. Range(files_list) \subseteq Range(files_list') \cup Dropped(d)
  BY <1>3, <1>4 DEF Dropped
<1>12. QED
  BY <1>1, <1>3, <1>4, <1>5, <1>7, <1>8, <1>9, <1>10, <1>11 DEF Saving

LEMMA TypedTake ==
    ASSUME Typed, NEW u \in Uploaders, Take(u)
    PROVE  Typed'
<1> USE DEF uploadVars, fileVars, recoverVars, sentVars
<1>1. Known'
  <2>1. /\ 0 \in 0..last /\ queue \in SUBSET (1..last)
        /\ \A S : S \in SUBSET cache => S \in SUBSET (1..last)
    BY DEF Typed, Known
  <2>2. /\ batch' \in [Uploaders -> SUBSET (1..last)]
        /\ {excused', cache'} \subseteq SUBSET (1..last)
    <3>1. PICK kept \in SUBSET cache, rest \in SUBSET cache :
             /\ batch' = [batch EXCEPT ![u] = queue \cup kept]
             /\ cache' = rest
             /\ excused' = excused \cup (cache \ (kept \cup rest))
      BY DEF Take
    <3>2. queue \cup kept \in SUBSET (1..last)
      BY <2>1
    <3>3. QED
      BY <3>1, <3>2 DEF Typed, Known
  <2>3. UNCHANGED <<last, disk, sent>> /\ queue' = {} /\ count' = 0
    BY DEF Take
  <2>4. QED
    BY <2>1, <2>2, <2>3 DEF Typed, Known
<1>2. Control'
  <2>1. faults' \in 0..MaxFaults
    BY UploadAssumption DEF Take, Merged, Fault, Typed, Control
  <2>2. {missed', due', uncounted'} \subseteq BOOLEAN
    BY DEF Take
  <2>3. QED
    BY <2>1, <2>2 DEF Take, Goto, Meets, timeVars, Typed, Control
<1>3. Lists'
  BY DEF Take, Goto, Typed, Control, Lists, Walking
<1>4. QED
  BY <1>1, <1>2, <1>3 DEF Typed

LEMMA TypedSave ==
    ASSUME Typed, NEW u \in Uploaders, SaveFile(u)
    PROVE  Typed'
<1>1. PICK d \in 0..Len(files_list) : Saving(u, d)
  BY SaveEffect
<1>2. /\ name[u] \in Names /\ batch[u] \in SUBSET (1..last)
      /\ Content(name[u]) \in SUBSET (1..last)
      /\ SamplesDropped(d) \in SUBSET (1..last)
  BY ContentKnown, DroppedKnown DEF Typed, Known, Lists
<1>3. /\ UNCHANGED <<last, rat, memoryVars, eventVars, timeVars, file_number,
                      recovered, stats, sentVars, overlap>>
      /\ at[u] = "save" /\ at' = [at EXCEPT ![u] = "stored"]
      /\ batch' = [batch EXCEPT ![u] = {}]
      /\ name' = [name EXCEPT ![u] = 0]
  BY DEF SaveFile, Goto
<1>4. Known'
  <2>1. excused' \in SUBSET (1..last)
    BY <1>1, <1>2 DEF Saving, Typed, Known
  <2>2. disk' \in [Names -> (SUBSET (1..last)) \cup {NoFile}]
    BY <1>1, <1>2 DEF Saving, Without, Typed, Known
  <2>3. QED
    BY <1>3, <2>1, <2>2 DEF memoryVars, sentVars, Typed, Known
<1>5. Control'
  BY <1>1, <1>3
     DEF memoryVars, eventVars, timeVars, sentVars, Saving, Typed, Control
<1>6. Lists'
  <2>1. ~Walking(u)
    BY <1>3 DEF Walking
  <2>2. \A v \in Uploaders :
           Walking(v)' \/ (todo'[v] = <<>> /\ v \notin sharing')
    BY <1>1, <1>3, <2>1 DEF Saving, Typed, Control, Lists, Walking
  <2>3. name' \in [Uploaders -> Names]
    BY <1>3, ZeroName DEF Typed, Lists
  <2>4. QED
    BY <1>1, <1>3, <2>2, <2>3 DEF Saving, Typed, Lists
<1>7. QED
  BY <1>4, <1>5, <1>6 DEF Typed

\* What a save that fails does to them: d of them are dropped, and the file
\* is as it was or holds some of the samples.
Spoiling(u, d) ==
    /\ files_list' = SubSeq(files_list, d + 1, Len(files_list))
    /\ sharing' = IF d > 0 THEN {} ELSE sharing
    /\ UNCHANGED todo
    /\ \E gone \in SUBSET Dropped(d) :
          \/ disk' = Without(gone)
          \/ /\ \E written \in SUBSET batch[u] :
                   disk' = [Without(gone) EXCEPT ![name[u]] = written]
             /\ Content(name[u]) \subseteq excused'
    /\ excused \cup SamplesDropped(d) \cup batch[u] \subseteq excused'
    /\ excused' \subseteq excused \cup SamplesDropped(d) \cup batch[u]
                               \cup Content(name[u])

LEMMA SpoilEffect ==
    ASSUME Typed, NEW u \in Uploaders, SaveFails(u)
    PROVE  \E d \in 0..Len(files_list) : Spoiling(u, d)
<1>1. PICK d \in 0..Len(files_list) :
         /\ DropFiles(d)
         /\ \E gone \in SUBSET Dropped(d), written \in SUBSET batch[u] :
               \/ /\ disk' = Without(gone)
                  /\ excused' = excused \cup SamplesDropped(d) \cup batch[u]
               \/ /\ disk' = [Without(gone) EXCEPT ![name[u]] = written]
                  /\ excused' = excused \cup SamplesDropped(d)
                                    \cup batch[u] \cup Content(name[u])
  BY DEF SaveFails
<1>2. UNCHANGED todo
  BY DEF SaveFails
<1>3. Spoiling(u, d)
  BY <1>1, <1>2 DEF DropFiles, Spoiling
<1>4. QED
  BY <1>3

LEMMA TypedSpoil ==
    ASSUME Typed, NEW u \in Uploaders, SaveFails(u)
    PROVE  Typed'
<1>1. PICK d \in 0..Len(files_list) : Spoiling(u, d)
  BY SpoilEffect
<1>2. /\ name[u] \in Names /\ batch[u] \in SUBSET (1..last)
      /\ Content(name[u]) \in SUBSET (1..last)
      /\ SamplesDropped(d) \in SUBSET (1..last)
  BY ContentKnown, DroppedKnown DEF Typed, Known, Lists
<1>3. /\ UNCHANGED <<last, rat, memoryVars, eventVars, timeVars, file_number,
                      recovered, stats, sentVars, overlap>>
      /\ at[u] = "save" /\ \E where \in {"stored", "idle"} :
                               at' = [at EXCEPT ![u] = where]
      /\ batch' = [batch EXCEPT ![u] = {}]
      /\ name' = [name EXCEPT ![u] = 0]
      /\ faults' \in 0..MaxFaults
  BY FaultCounted DEF SaveFails, Goto
<1>4. Known'
  <2>1. excused' \in SUBSET (1..last)
    BY <1>1, <1>2 DEF Spoiling, Typed, Known
  <2>2. disk' \in [Names -> (SUBSET (1..last)) \cup {NoFile}]
    BY <1>1, <1>2 DEF Spoiling, Without, Typed, Known
  <2>3. QED
    BY <1>3, <2>1, <2>2 DEF memoryVars, sentVars, Typed, Known
<1>5. Control'
  BY <1>3 DEF memoryVars, eventVars, timeVars, sentVars, Typed, Control
<1>6. Lists'
  <2>1. /\ Listed(files_list')
        /\ d = 0 => files_list' = files_list /\ sharing' = sharing
        /\ d # 0 => sharing' = {}
    BY <1>1, KeptListed DEF Spoiling, Typed, Lists
  <2>2. name' \in [Uploaders -> Names]
    BY <1>3, ZeroName DEF Typed, Lists
  <2>3. UNCHANGED <<todo, stats, file_number>> /\ sharing' \subseteq sharing
    BY <1>1, <1>3, <2>1 DEF Spoiling
  <2>4. \A v \in Uploaders : Walking(v) => Walking(v)'
    BY <1>3 DEF Walking, Typed, Control
  <2>5. CASE d = 0
    BY <2>1, <2>2, <2>3, <2>4, <2>5 DEF Typed, Lists
  <2>6. CASE d # 0
    BY <2>1, <2>2, <2>3, <2>4, <2>6 DEF Typed, Lists
  <2>7. QED
    BY <2>5, <2>6
<1>7. QED
  BY <1>4, <1>5, <1>6 DEF Typed

\* The steps of an uploader that leave the files alone.
LEMMA TypedPlain ==
    ASSUME Typed, NEW u \in Uploaders,
           TakeSnapshot(u) \/ ClearEvent(u) \/ Format(u) \/ FormatFails(u)
              \/ NextNumber(u) \/ Send(u) \/ SendFails(u)
    PROVE  Typed'
<1> USE ZeroName
    DEF memoryVars, eventVars, timeVars, uploadVars, fileVars, recoverVars,
        sentVars, Fault, Goto, TakeSnapshot, ClearEvent, Format, FormatFails,
        NextNumber, Send, SendFails
<1>1. Known'
  BY DEF Typed, Known
<1>2. Control'
  <2>1. faults' \in 0..MaxFaults /\ snapshots' \in 0..MaxSnapshots
    BY UploadAssumption DEF Typed, Control
  <2>2. {threshold_event', missed', due', uncounted', twice', overlap'}
           \subseteq BOOLEAN
    BY DEF Meets, Typed, Control
  <2>3. QED
    BY <2>1, <2>2 DEF Typed, Control
<1>3. file_number' \in Names
  <2>1. FileCount \in Nat \ {0} /\ file_number \in 0..(FileCount - 1)
    BY UploadAssumption DEF Typed, Lists, Names
  <2>2. (file_number + 1) % FileCount \in 0..(FileCount - 1)
    BY <2>1
  <2>3. QED
    BY <2>1, <2>2 DEF Names
<1>4. Lists'
  BY <1>3 DEF Typed, Control, Lists, Walking
<1>5. QED
  BY <1>1, <1>2, <1>4 DEF Typed

\* What is saved of the list, or was.
LEMMA SaveListed ==
    ASSUME Typed, NEW files, Listed(files), SaveOf(files)
    PROVE  Listed(stats'[1]) /\ stats'[2] \in Names
<1>1. Listed(<<>>)
  BY DEF Listed, IsInjective
<1>2. CASE stats' = <<files, file_number>>
  BY <1>2 DEF Typed, Lists
<1>3. CASE stats' = <<<<>>, 0>>
  BY <1>1, <1>3, ZeroName
<1>4. CASE stats' = stats
  BY <1>4 DEF Typed, Lists
<1>5. QED
  BY <1>2, <1>3, <1>4 DEF SaveOf

\* The end of an upload, and the start and the end of a walk.
LEMMA TypedWalk ==
    ASSUME Typed, NEW u \in Uploaders,
           SaveStats(u) \/ RemoveFile(u) \/ KeepRest(u)
    PROVE  Typed'
<1> USE ZeroName
    DEF memoryVars, eventVars, timeVars, uploadVars, fileVars, recoverVars,
        sentVars, Goto, SaveStats, RemoveFile, KeepRest
<1>1. Known'
  <2>1. CASE SaveStats(u) \/ KeepRest(u)
    BY <2>1 DEF Typed, Known
  <2>2. CASE RemoveFile(u)
    <3>1. Content(name[u]) \in SUBSET (1..last)
      BY ContentKnown DEF Typed, Lists
    <3>2. disk' \in [Names -> (SUBSET (1..last)) \cup {NoFile}]
      BY <2>2 DEF Typed, Known
    <3>3. QED
      BY <2>2, <3>1, <3>2 DEF Typed, Known
  <2>3. QED
    BY <2>1, <2>2
<1>2. Control'
  <2>1. /\ 0 \in 0..MaxRecover /\ faults' \in 0..MaxFaults
        /\ {twice', due'} \subseteq BOOLEAN
    <3>1. 0 \in 0..MaxRecover /\ faults \in 0..MaxFaults
      BY UploadAssumption DEF Typed, Control
    <3>2. faults' = faults \/ Fault
      BY DEF SaveOf
    <3>3. {twice', due'} \subseteq BOOLEAN
      <4>1. CASE SaveStats(u) \/ RemoveFile(u)
        BY <4>1 DEF Typed, Control
      <4>2. CASE KeepRest(u)
        BY <4>2 DEF Typed, Control
      <4>3. QED
        BY <4>1, <4>2
    <3>4. QED
      BY <3>1, <3>2, <3>3, FaultCounted
  <2>2. CASE SaveStats(u) \/ KeepRest(u)
    BY <2>1, <2>2 DEF Typed, Control
  <2>3. CASE RemoveFile(u)
    <3>1. recovered[u] + 1 \in 0..MaxRecover
      BY <2>3, UploadAssumption DEF Typed, Control
    <3>2. QED
      BY <2>1, <2>3, <3>1 DEF Typed, Control
  <2>4. QED
    BY <2>2, <2>3
<1>3. Lists'
  <2>1. Listed(<<>>) /\ <<>> \in Seq(Names)
    BY DEF Listed, IsInjective
  <2>2. CASE SaveStats(u)
    <3>1. Listed(stats'[1]) /\ stats'[2] \in Names
      BY <2>1, <2>2, SaveListed DEF Typed, Lists
    <3>2. Listed(files_list) /\ files_list \in Seq(Names)
      BY DEF Typed, Lists, Listed
    <3>3. CASE at[u] = "delivered" /\ files_list # <<>> /\ faults' = faults
      <4>1. \A v \in Uploaders : Listed(todo'[v])
        BY <2>2, <3>2, <3>3 DEF Typed, Lists
      <4>2. \A v \in sharing' : todo'[v] = files_list'
        BY <2>2, <3>3 DEF Typed, Lists
      <4>3. /\ todo' \in [Uploaders -> Seq(Names)]
            /\ sharing' \in SUBSET Uploaders
            /\ UNCHANGED <<files_list, file_number, name>>
        BY <2>2, <3>2, <3>3 DEF Typed, Lists
      <4>4. at' = [at EXCEPT ![u] = "recover"]
        BY <2>2, <3>3
      <4>5. \A v \in Uploaders :
               Walking(v)' \/ (todo'[v] = <<>> /\ v \notin sharing')
        BY <2>2, <3>3, <4>4 DEF Typed, Control, Lists, Walking
      <4>6. QED
        BY <3>1, <3>2, <4>1, <4>2, <4>3, <4>5 DEF Typed, Lists
    <3>4. CASE ~(at[u] = "delivered" /\ files_list # <<>> /\ faults' = faults)
      <4>1. at' = [at EXCEPT ![u] = "idle"] /\ UNCHANGED <<todo, sharing>>
        BY <2>2, <3>4
      <4>2. ~Walking(u)
        BY <2>2 DEF Walking
      <4>3. QED
        BY <2>2, <3>1, <3>2, <4>1, <4>2 DEF Typed, Control, Lists, Walking
    <3>5. QED
      BY <3>3, <3>4
  <2>3. CASE RemoveFile(u)
    BY <2>3 DEF Typed, Control, Lists, Walking
  <2>4. CASE KeepRest(u)
    <3>1. Listed(stats'[1]) /\ stats'[2] \in Names
      BY <2>4, SaveListed DEF Typed, Lists
    <3>2. \A v \in sharing' : v \in sharing /\ v # u /\ u \in sharing
      BY <2>4
    <3>3. \A v \in sharing' : todo'[v] = files_list'
      BY <2>4, <3>2 DEF Typed, Lists
    <3>4. \A v \in Uploaders :
             Walking(v)' \/ (todo'[v] = <<>> /\ v \notin sharing')
      BY <2>4, <3>2 DEF Typed, Control, Lists, Walking
    <3>5. QED
      BY <2>1, <2>4, <3>1, <3>3, <3>4 DEF Typed, Lists
  <2>5. QED
    BY <2>2, <2>3, <2>4
<1>4. QED
  BY <1>1, <1>2, <1>3 DEF Typed

LEMMA TypedFile ==
    ASSUME Typed, NEW u \in Uploaders, SkipFile(u) \/ SendFile(u)
    PROVE  Typed'
<1> USE DEF memoryVars, eventVars, timeVars, uploadVars, fileVars,
            recoverVars, sentVars
<1> DEFINE n == Head(todo[u])
<1>1. /\ at[u] = "recover" /\ recovered[u] < MaxRecover /\ todo[u] # <<>>
      /\ todo' = [todo EXCEPT ![u] = Tail(@)]
      /\ sharing' = sharing \ {u}
      /\ UNCHANGED <<last, snapshots, rat, queue, count, cache, uncounted,
                     eventVars, batch, files_list, file_number, recovered,
                     stats, overlap>>
  BY DEF SkipFile, SendFile, MoreToRecover, Advance
<1>2. n \in Names /\ Listed(Tail(todo[u]))
  BY <1>1, RestListed DEF Typed, Lists
<1>3. Content(n) \in SUBSET (1..last)
  BY <1>2, ContentKnown
<1>4. CASE SkipFile(u)
  <2>1. /\ UNCHANGED <<at, name, sent, twice>>
        /\ excused' \in {excused, excused \cup Content(n)}
        /\ disk' \in {disk, [disk EXCEPT ![n] = NoFile]}
        /\ faults' = faults \/ Fault
        /\ UNCHANGED due
    BY <1>4 DEF SkipFile
  <2>2. faults' \in 0..MaxFaults
    BY <2>1, UploadAssumption DEF Fault, Typed, Control
  <2>3. Known'
    <3>1. disk' \in [Names -> (SUBSET (1..last)) \cup {NoFile}]
      BY <2>1 DEF Typed, Known
    <3>2. excused' \in SUBSET (1..last)
      BY <1>3, <2>1 DEF Typed, Known
    <3>3. QED
      BY <1>1, <2>1, <3>1, <3>2 DEF Typed, Known
  <2>4. Control'
    BY <1>1, <2>1, <2>2 DEF Typed, Control
  <2>5. Lists'
    BY <1>1, <1>2, <2>1 DEF Typed, Lists, Listed, Walking
  <2>6. QED
    BY <2>3, <2>4, <2>5 DEF Typed
<1>5. CASE SendFile(u)
  <2>1. /\ UNCHANGED <<disk, excused, faults>> /\ due' = FALSE
        /\ sent' = sent \cup Content(n)
        /\ twice' = (twice \/ sent \cap Content(n) # {})
        /\ name' = [name EXCEPT ![u] = n]
        /\ at' = [at EXCEPT ![u] = "remove"]
    BY <1>5 DEF SendFile, Goto
  <2>2. Known'
    BY <1>1, <1>3, <2>1 DEF Typed, Known
  <2>3. Control'
    BY <1>1, <2>1 DEF Typed, Control
  <2>4. Lists'
    BY <1>1, <1>2, <2>1 DEF Typed, Control, Lists, Listed, Walking
  <2>5. QED
    BY <2>2, <2>3, <2>4 DEF Typed
<1>6. QED
  BY <1>4, <1>5

LEMMA TypedPower ==
    ASSUME Typed, PowerFails
    PROVE  Typed'
<1>1. PICK saved \in {stats, <<<<>>, 0>>} :
         files_list' = saved[1] /\ file_number' = saved[2] /\ stats' = saved
  BY DEF PowerFails
<1>2. Listed(<<>>) /\ <<>> \in Seq(Names) /\ 0 \in Names
  BY UploadAssumption DEF Listed, IsInjective, Names
<1>3. Listed(saved[1]) /\ saved[2] \in Names
  BY <1>1, <1>2 DEF Typed, Lists
<1>4. Lists'
  BY <1>1, <1>2, <1>3 DEF PowerFails, Lists
<1>5. Control'
  <2>1. 0 \in 0..MaxRecover /\ faults' \in 0..MaxFaults
    BY UploadAssumption DEF PowerFails, Fault, Typed, Control
  <2>2. {threshold_event', missed', due', uncounted', twice', overlap'}
           \subseteq BOOLEAN
    BY DEF PowerFails, sentVars, Typed, Control
  <2>3. QED
    BY <2>1, <2>2 DEF PowerFails, Typed, Control
<1>6. Known'
  <2>1. UNION Range(batch) \in SUBSET (1..last)
    BY DEF Range, Typed, Known
  <2>2. 0 \in 0..last
    BY DEF Typed, Known
  <2>3. QED
    BY <2>1, <2>2 DEF PowerFails, sentVars, Typed, Known
<1>7. QED
  BY <1>4, <1>5, <1>6 DEF Typed

LEMMA TypedNext == Typed /\ [Next]_vars => Typed'
<1> SUFFICES ASSUME Typed, [Next]_vars PROVE Typed'
  OBVIOUS
<1> USE DEF memoryVars, eventVars, timeVars, uploadVars, fileVars,
            recoverVars, sentVars
<1>1. CASE \/ IntervalPasses \/ LaterSnapshot
           \/ \E r \in Receivers : TestCount(r) \/ ResetCount(r) \/ SetEvent(r)
  <2> USE DEF IntervalPasses, LaterSnapshot, TestCount, ResetCount, SetEvent
  <2>1. Known'
    BY <1>1 DEF Typed, Known
  <2>2. Control'
    BY <1>1 DEF Typed, Control
  <2>3. Lists'
    BY <1>1 DEF Typed, Lists, Walking
  <2>4. QED
    BY <2>1, <2>2, <2>3 DEF Typed
<1>2. CASE UNCHANGED vars
  <2>1. Known'
    BY <1>2 DEF vars, Typed, Known
  <2>2. Control'
    BY <1>2 DEF vars, Typed, Control
  <2>3. Lists'
    BY <1>2 DEF vars, Typed, Lists, Walking
  <2>4. QED
    BY <2>1, <2>2, <2>3 DEF Typed
<1>3. QED
  BY <1>1, <1>2, TypedReceive, TypedTake, TypedPlain, TypedSave, TypedSpoil,
     TypedWalk, TypedFile, TypedPower DEF Next, Step

\* The memory, the files and the lists of files keep their types, and no list
\* names a file twice.
THEOREM TypeCorrect == Spec => []TypeOK
<1>1. Spec => []Typed
  BY TypedInit, TypedNext, PTL DEF Spec
<1>2. QED
  BY <1>1, TypedIsTypeOK, PTL

-----------------------------------------------------------------------------
(* What was confirmed is not sent again.                                   *)

\* Before an uploader meets another, one of them is at work.
Alone ==
    \/ overlap
    \/ \A u, v \in Uploaders : at[u] # "idle" /\ at[v] # "idle" => u = v

BatchHeld ==
    \A u \in Uploaders :
       batch[u] # {} => at[u] \in {"clear", "format", "number", "send", "save"}

\* The file will be sent: it is left of the walk, or on the list when there
\* is no walk.
Pending(n) ==
    \/ \E u \in Uploaders : n \in Range(todo[u])
    \/ n \in Range(files_list) /\ \A u \in Uploaders : ~Walking(u)

\* Until then every sample that will be sent is in one place, and what was
\* confirmed in none.
Apart ==
    /\ ~twice
    /\ queue \cap cache = {}
    /\ sent \cap (queue \cup cache) = {}
    /\ \A u \in Uploaders : batch[u] \cap (queue \cup cache \cup sent) = {}
    /\ \A n \in Names :
          Pending(n) => Content(n) \cap (queue \cup cache \cup sent) = {}
    /\ \A n \in Names, u \in Uploaders :
          Pending(n) => Content(n) \cap batch[u] = {}
    /\ \A m, n \in Names :
          Pending(m) /\ Pending(n) /\ m # n => Content(m) \cap Content(n) = {}

OnceInv == Typed /\ Alone /\ BatchHeld /\ (overlap \/ Apart)

LEMMA AloneNext == Typed /\ Alone /\ [Next]_vars => Alone'
<1> SUFFICES ASSUME Typed, Alone, [Next]_vars, ~overlap'
             PROVE  \A u, v \in Uploaders :
                       at'[u] # "idle" /\ at'[v] # "idle" => u = v
  BY DEF Alone
<1> USE DEF Goto, Typed, Control
<1>1. ASSUME NEW u \in Uploaders, Take(u) \/ TakeSnapshot(u)
      PROVE  \A v \in Uploaders : v # u => at'[v] = "idle"
  BY <1>1 DEF Take, TakeSnapshot, Meets
<1>2. CASE UNCHANGED <<at, overlap>>
  BY <1>2 DEF Alone
<1>3. ASSUME NEW u \in Uploaders, Step(u)
      PROVE  /\ UNCHANGED overlap /\ at[u] # "idle"
             /\ \A v \in Uploaders : v # u => at'[v] = at[v]
  BY <1>3
     DEF Step, ClearEvent, Format, FormatFails, NextNumber, Send, SendFails,
         SaveFile, SaveFails, SaveStats, SkipFile, SendFile, RemoveFile,
         KeepRest, MoreToRecover
<1>4. ASSUME \/ IntervalPasses \/ LaterSnapshot
             \/ \E r \in Receivers : Receive(r) \/ TestCount(r)
                                        \/ ResetCount(r) \/ SetEvent(r)
      PROVE  UNCHANGED <<at, overlap>>
  BY <1>4 DEF Receive, TestCount, ResetCount, SetEvent, IntervalPasses,
              LaterSnapshot
<1>5. CASE PowerFails
  BY <1>5 DEF PowerFails
<1>6. CASE UNCHANGED vars
  BY <1>2, <1>6 DEF vars
<1>7. QED
  BY <1>1, <1>2, <1>3, <1>4, <1>5, <1>6 DEF Next, Alone

LEMMA BatchHeldNext == Typed /\ BatchHeld /\ [Next]_vars => BatchHeld'
<1> SUFFICES ASSUME Typed, BatchHeld, [Next]_vars, NEW v \in Uploaders,
                    batch'[v] # {}
             PROVE  at'[v] \in {"clear", "format", "number", "send", "save"}
  BY DEF BatchHeld
<1> USE DEF Goto, Typed, Control, Known, BatchHeld, uploadVars
<1>1. ASSUME \/ IntervalPasses \/ LaterSnapshot
             \/ \E r \in Receivers : Receive(r) \/ TestCount(r)
                                        \/ ResetCount(r) \/ SetEvent(r)
      PROVE  UNCHANGED <<at, batch>>
  BY <1>1 DEF Receive, TestCount, ResetCount, SetEvent, IntervalPasses,
              LaterSnapshot
<1>2. ASSUME NEW u \in Uploaders, Take(u) \/ TakeSnapshot(u)
      PROVE  at'[v] \in {"clear", "format", "number", "send", "save"}
  BY <1>2 DEF Take, TakeSnapshot
<1>3. ASSUME NEW u \in Uploaders,
             \/ ClearEvent(u) \/ Format(u) \/ FormatFails(u) \/ NextNumber(u)
             \/ Send(u) \/ SendFails(u) \/ SaveFile(u) \/ SaveFails(u)
      PROVE  at'[v] \in {"clear", "format", "number", "send", "save"}
  BY <1>3 DEF ClearEvent, Format, FormatFails, NextNumber, Send, SendFails,
              SaveFile, SaveFails
<1>4. ASSUME NEW u \in Uploaders,
             \/ SaveStats(u) \/ SkipFile(u) \/ SendFile(u) \/ RemoveFile(u)
             \/ KeepRest(u)
      PROVE  at'[v] \in {"clear", "format", "number", "send", "save"}
  BY <1>4 DEF SaveStats, SkipFile, SendFile, RemoveFile, KeepRest,
              MoreToRecover
<1>5. CASE PowerFails \/ UNCHANGED vars
  BY <1>5 DEF PowerFails, vars
<1>6. QED
  BY <1>1, <1>2, <1>3, <1>4, <1>5 DEF Next, Step

\* A step after which every place holds no more than before.
LEMMA ApartShrinks ==
    ASSUME Apart, UNCHANGED sent, ~twice',
           queue' \subseteq queue, cache' \subseteq cache,
           \A u \in Uploaders : batch'[u] \subseteq batch[u],
           \A n \in Names : Content(n)' \subseteq Content(n),
           \A n \in Names : Pending(n)' => Pending(n)
    PROVE  Apart'
<1>1. /\ queue' \cap cache' = {}
      /\ sent' \cap (queue' \cup cache') = {}
      /\ \A u \in Uploaders :
            batch'[u] \cap (queue' \cup cache' \cup sent') = {}
  BY DEF Apart
<1>2. \A n \in Names :
         Pending(n)' => Content(n)' \cap (queue' \cup cache' \cup sent') = {}
  BY DEF Apart
<1>3. \A n \in Names, u \in Uploaders :
         Pending(n)' => Content(n)' \cap batch'[u] = {}
  BY DEF Apart
<1>4. \A m, n \in Names :
         Pending(m)' /\ Pending(n)' /\ m # n
            => Content(m)' \cap Content(n)' = {}
  BY DEF Apart
<1>5. QED
  BY <1>1, <1>2, <1>3, <1>4 DEF Apart

LEMMA ApartReceive ==
    ASSUME Typed, Apart, NEW r \in Receivers, Receive(r)
    PROVE  Apart'
<1>1. PICK d \in 0..Len(files_list) : Reception(d)
  BY ReceiveEffect
<1>2. UNCHANGED <<at, todo, batch, sent, twice>>
  BY DEF Receive, uploadVars, sentVars
<1> DEFINE s == last + 1
<1>3. /\ s \notin queue \cup cache \cup sent
      /\ \A u \in Uploaders : s \notin batch[u]
      /\ \A n \in Names : s \notin Content(n)
  <2>1. s \notin 1..last
    BY DEF Typed, Known
  <2>2. QED
    BY <2>1, ContentKnown DEF Typed, Known
<1>4. /\ queue' \cup cache' \subseteq queue \cup cache \cup {s}
      /\ queue' \cap cache' = {}
  BY <1>1, <1>3 DEF Reception, Apart
<1>5. \A n \in Names : Content(n)' \subseteq Content(n)
  BY <1>1 DEF Reception, Without, Content
<1>6. \A n \in Names : Pending(n)' => Pending(n)
  <2>1. Range(files_list') \subseteq Range(files_list)
    BY <1>1, KeptListed DEF Reception, Typed, Lists
  <2>2. QED
    BY <1>2, <2>1 DEF Pending, Walking
<1>7. /\ ~twice' /\ sent' \cap (queue' \cup cache') = {}
      /\ \A u \in Uploaders :
            batch'[u] \cap (queue' \cup cache' \cup sent') = {}
  BY <1>2, <1>3, <1>4 DEF Apart
<1>8. \A n \in Names :
         Pending(n)' => Content(n)' \cap (queue' \cup cache' \cup sent') = {}
  BY <1>2, <1>3, <1>4, <1>5, <1>6 DEF Apart
<1>9. \A n \in Names, u \in Uploaders :
         Pending(n)' => Content(n)' \cap batch'[u] = {}
  BY <1>2, <1>5, <1>6 DEF Apart
<1>10. \A m, n \in Names :
          Pending(m)' /\ Pending(n)' /\ m # n
             => Content(m)' \cap Content(n)' = {}
  BY <1>5, <1>6 DEF Apart
<1>11. QED
  BY <1>4, <1>7, <1>8, <1>9, <1>10 DEF Apart

LEMMA ApartTake ==
    ASSUME Typed, Apart, NEW u \in Uploaders, Take(u)
    PROVE  Apart'
<1>1. PICK kept \in SUBSET cache, rest \in SUBSET cache :
         /\ rest = {} \/ kept = {}
         /\ batch' = [batch EXCEPT ![u] = queue \cup kept]
         /\ cache' = rest
  BY DEF Take, Merged
<1>2. UNCHANGED <<disk, files_list, todo, sent, twice>> /\ queue' = {}
  BY DEF Take, fileVars, recoverVars, sentVars
<1>3. /\ batch'[u] = queue \cup kept
      /\ \A v \in Uploaders : v # u => batch'[v] = batch[v]
  BY <1>1 DEF Typed, Known
<1>4. batch'[u] \cap (queue' \cup cache' \cup sent') = {}
  BY <1>1, <1>2, <1>3 DEF Apart
<1>5. \A v \in Uploaders : batch'[v] \cap (queue' \cup cache' \cup sent') = {}
  BY <1>1, <1>2, <1>3, <1>4 DEF Apart
<1>6. \A n \in Names : Content(n)' = Content(n) /\ (Pending(n)' => Pending(n))
  BY <1>2 DEF Take, Goto, Content, Pending, Walking, Typed, Control
<1>7. \A n \in Names, v \in Uploaders :
         Pending(n)' => Content(n)' \cap batch'[v] = {}
  <2>1. \A n \in Names : Pending(n) => Content(n) \cap (queue \cup kept) = {}
    BY DEF Apart
  <2>2. QED
    BY <1>3, <1>6, <2>1 DEF Apart
<1>8. \A n \in Names :
         Pending(n)' => Content(n)' \cap (queue' \cup cache' \cup sent') = {}
  BY <1>1, <1>2, <1>6 DEF Apart
<1>9. /\ ~twice' /\ queue' \cap cache' = {}
      /\ sent' \cap (queue' \cup cache') = {}
      /\ \A m, n \in Names :
            Pending(m)' /\ Pending(n)' /\ m # n
               => Content(m)' \cap Content(n)' = {}
  BY <1>1, <1>2, <1>6 DEF Apart
<1>10. QED
  BY <1>5, <1>7, <1>8, <1>9 DEF Apart

\* What an uploader sends was not confirmed before.
LEMMA ApartSend ==
    ASSUME OnceInv, ~overlap, NEW u \in Uploaders, Send(u)
    PROVE  Apart'
<1> USE DEF OnceInv
<1>1. /\ sent' = sent \cup batch[u] /\ ~twice'
      /\ batch'[u] = {} /\ \A v \in Uploaders : v # u => batch'[v] = batch[v]
      /\ UNCHANGED <<queue, cache, disk, files_list, todo>>
  BY DEF Send, memoryVars, fileVars, recoverVars, Typed, Known, Apart
<1>2. \A n \in Names : Content(n)' = Content(n) /\ (Pending(n)' => Pending(n))
  BY <1>1 DEF Send, Goto, Content, Pending, Walking, Typed, Control
<1>3. \A v \in Uploaders : v # u => batch[v] = {}
  BY DEF Send, Alone, BatchHeld
<1>4. /\ \A v \in Uploaders : batch'[v] = {}
      /\ sent' \cap (queue' \cup cache') = {} /\ queue' \cap cache' = {}
  BY <1>1, <1>3 DEF Apart
<1>5. \A n \in Names :
         Pending(n)' => Content(n)' \cap (queue' \cup cache' \cup sent') = {}
  <2>1. \A n \in Names : Pending(n) => Content(n) \cap batch[u] = {}
    BY DEF Apart
  <2>2. QED
    BY <1>1, <1>2, <2>1 DEF Apart
<1>6. \A m, n \in Names :
         Pending(m)' /\ Pending(n)' /\ m # n
            => Content(m)' \cap Content(n)' = {}
  BY <1>2 DEF Apart
<1>7. QED
  BY <1>1, <1>4, <1>5, <1>6 DEF Apart

\* What was not sent is in one file, if it is saved: in one that is pending
\* nothing is added but in that of the uploader.
LEMMA ApartStore ==
    ASSUME OnceInv, ~overlap, NEW u \in Uploaders, at[u] = "save",
           UNCHANGED <<queue, cache, sent, twice>>,
           batch' = [batch EXCEPT ![u] = {}],
           \A n \in Names : Pending(n)' =>
              \/ Pending(n) /\ Content(n)' \subseteq Content(n)
              \/ n = name[u] /\ Content(n)' \subseteq batch[u]
    PROVE  Apart'
<1> USE DEF OnceInv
<1>1. \A v \in Uploaders : batch'[v] = {}
  BY DEF Alone, BatchHeld, Typed, Known
<1>2. \A n \in Names :
         Pending(n)' => Content(n)' \cap (queue' \cup cache' \cup sent') = {}
  <2>1. batch[u] \cap (queue \cup cache \cup sent) = {}
    BY DEF Apart
  <2>2. QED
    BY <2>1 DEF Apart
<1>3. \A m, n \in Names :
         Pending(m)' /\ Pending(n)' /\ m # n
            => Content(m)' \cap Content(n)' = {}
  <2>1. \A n \in Names : Pending(n) => Content(n) \cap batch[u] = {}
    BY DEF Apart
  <2>2. QED
    BY <2>1 DEF Apart
<1>4. QED
  BY <1>1, <1>2, <1>3 DEF Apart

\* Who saves is at work alone, so no list is walked.
LEMMA NoWalk ==
    ASSUME OnceInv, ~overlap, NEW u \in Uploaders, at[u] = "save"
    PROVE  \A v \in Uploaders :
              ~Walking(v) /\ todo[v] = <<>> /\ v \notin sharing
<1>1. \A v \in Uploaders : ~Walking(v)
  BY DEF OnceInv, Alone, Walking
<1>2. QED
  BY <1>1 DEF OnceInv, Typed, Lists

LEMMA ApartSave ==
    ASSUME OnceInv, ~overlap, NEW u \in Uploaders, SaveFile(u)
    PROVE  Apart'
<1>1. PICK d \in 0..Len(files_list) : Saving(u, d)
  BY SaveEffect DEF OnceInv
<1>2. /\ at[u] = "save" /\ batch' = [batch EXCEPT ![u] = {}]
      /\ UNCHANGED <<queue, cache, sent, twice>>
  BY DEF SaveFile, memoryVars, sentVars
<1>3. \A n \in Names :
         Content(n)' \subseteq IF n = name[u] THEN batch[u] ELSE Content(n)
  BY <1>1 DEF Saving, Without, Content
<1>4. \A v \in Uploaders : ~Walking(v) /\ todo'[v] = todo[v]
  BY <1>1, <1>2, NoWalk DEF Saving
<1>5. \A n \in Names : Pending(n)' => Pending(n) \/ n = name[u]
  BY <1>1, <1>4 DEF Saving, Pending
<1>6. QED
  BY <1>2, <1>3, <1>5, ApartStore

LEMMA ApartSpoil ==
    ASSUME OnceInv, ~overlap, NEW u \in Uploaders, SaveFails(u)
    PROVE  Apart'
<1>1. PICK d \in 0..Len(files_list) : Spoiling(u, d)
  BY SpoilEffect DEF OnceInv
<1>2. /\ at[u] = "save" /\ batch' = [batch EXCEPT ![u] = {}]
      /\ UNCHANGED <<queue, cache, sent, twice>>
  BY DEF SaveFails, memoryVars, sentVars
<1>3. \A n \in Names : \/ Content(n)' \subseteq Content(n)
                       \/ n = name[u] /\ Content(n)' \subseteq batch[u]
  BY <1>1 DEF Spoiling, Without, Content
<1>4. Range(files_list') \subseteq Range(files_list)
  BY <1>1, KeptListed DEF Spoiling, OnceInv, Typed, Lists
<1>5. \A n \in Names : Pending(n)' => Pending(n)
  BY <1>1, <1>2, <1>4, NoWalk DEF Spoiling, Pending
<1>6. QED
  BY <1>2, <1>3, <1>5, ApartStore

\* A file that is sent is left out of the walk, whether or not it is removed.
LEMMA ApartSendFile ==
    ASSUME OnceInv, ~overlap, NEW u \in Uploaders, SendFile(u)
    PROVE  Apart'
<1> USE DEF OnceInv
<1>1. /\ at[u] = "recover" /\ todo[u] # <<>>
      /\ todo' = [todo EXCEPT ![u] = Tail(@)]
      /\ UNCHANGED <<queue, cache, batch, files_list, disk>>
  BY DEF SendFile, MoreToRecover, Advance, memoryVars, fileVars
<1>2. PICK k \in Names : k = Head(todo[u])
  BY <1>1, RestListed DEF Typed, Lists
<1>3. /\ Range(todo[u]) = Range(todo'[u]) \cup {k}
      /\ k \notin Range(todo'[u])
      /\ \A v \in Uploaders : v # u => todo'[v] = todo[v]
  BY <1>1, <1>2, RestListed DEF Typed, Lists
<1>4. Pending(k)
  BY <1>3 DEF Pending
<1>5. /\ sent' = sent \cup Content(k)
      /\ twice' = (twice \/ sent \cap Content(k) # {})
  BY <1>2 DEF SendFile
<1>6. ~twice'
  BY <1>4, <1>5 DEF Apart
<1>7. \A n \in Names : Content(n)' = Content(n)
  BY <1>1 DEF Content
<1>8. \A n \in Names : Pending(n)' => Pending(n) /\ n # k
  <2>1. Walking(u)'
    BY <1>1 DEF SendFile, Goto, Walking, Typed, Control
  <2>2. \A v \in Uploaders : v # u => ~Walking(v)
    BY <1>1 DEF Alone, Walking
  <2>3. \A v \in Uploaders : v # u => Range(todo'[v]) = {}
    BY <1>3, <2>2 DEF Typed, Lists, Range
  <2>4. QED
    BY <1>3, <2>1, <2>3 DEF Pending
<1>9. /\ sent' \cap (queue' \cup cache') = {} /\ queue' \cap cache' = {}
      /\ \A v \in Uploaders :
            batch'[v] \cap (queue' \cup cache' \cup sent') = {}
  BY <1>1, <1>4, <1>5 DEF Apart
<1>10. \A n \in Names :
          Pending(n)' => Content(n)' \cap (queue' \cup cache' \cup sent') = {}
  <2>1. \A n \in Names :
           Pending(n) /\ n # k => Content(n) \cap Content(k) = {}
    BY <1>4 DEF Apart
  <2>2. QED
    BY <1>1, <1>5, <1>7, <1>8, <2>1 DEF Apart
<1>11. /\ \A n \in Names, v \in Uploaders :
             Pending(n)' => Content(n)' \cap batch'[v] = {}
       /\ \A m, n \in Names :
             Pending(m)' /\ Pending(n)' /\ m # n
                => Content(m)' \cap Content(n)' = {}
  BY <1>1, <1>7, <1>8 DEF Apart
<1>12. QED
  BY <1>6, <1>9, <1>10, <1>11 DEF Apart

\* The other steps of a walk make nothing pending that was not.
LEMMA PendingInWalk ==
    ASSUME OnceInv, ~overlap, NEW u \in Uploaders,
           SaveStats(u) \/ SkipFile(u) \/ RemoveFile(u) \/ KeepRest(u)
    PROVE  \A n \in Names : Pending(n)' => Pending(n)
<1> USE DEF OnceInv, recoverVars, fileVars, Goto
<1>1. \A v \in Uploaders : v # u => ~Walking(v) /\ todo[v] = <<>>
  BY DEF SaveStats, SkipFile, RemoveFile, KeepRest, MoreToRecover, Alone,
         Walking, Typed, Lists
<1>2. \A v \in Uploaders : v # u => ~Walking(v)' /\ todo'[v] = <<>>
  BY <1>1 DEF SaveStats, SkipFile, RemoveFile, KeepRest, Advance, Walking,
              Typed, Control, Lists
<1>3. \A v \in Uploaders : v # u => Range(todo'[v]) = {}
  BY <1>2 DEF Range
<1>4. CASE SaveStats(u)
  <2>1. ~Walking(u) /\ files_list' = files_list
    BY <1>4 DEF SaveStats, Walking
  <2>2. todo'[u] = <<>> \/ todo'[u] = files_list
    BY <1>4, <2>1 DEF SaveStats, Typed, Lists
  <2>3. Range(todo'[u]) \subseteq Range(files_list)
    BY <2>2 DEF Range
  <2>4. QED
    BY <1>1, <1>3, <2>1, <2>3 DEF Pending
<1>5. CASE SkipFile(u)
  <2>1. /\ at[u] = "recover" /\ at' = at /\ todo[u] # <<>>
        /\ todo'[u] = Tail(todo[u])
    BY <1>5 DEF SkipFile, MoreToRecover, Advance, Typed, Lists
  <2>2. Walking(u)' /\ Range(todo'[u]) \subseteq Range(todo[u])
    BY <2>1, RestListed DEF Walking, Typed, Lists
  <2>3. QED
    BY <1>3, <2>2 DEF Pending
<1>6. CASE RemoveFile(u)
  <2>1. Walking(u)' /\ todo' = todo
    BY <1>6 DEF RemoveFile, Walking, Typed, Control
  <2>2. QED
    BY <2>1 DEF Pending
<1>7. CASE KeepRest(u)
  <2>1. files_list' = todo[u] /\ todo'[u] = <<>>
    BY <1>7 DEF KeepRest, Typed, Lists
  <2>2. Range(todo'[u]) = {}
    BY <2>1 DEF Range
  <2>3. QED
    BY <1>3, <2>1, <2>2 DEF Pending
<1>8. QED
  BY <1>4, <1>5, <1>6, <1>7

LEMMA ApartWalk ==
    ASSUME OnceInv, ~overlap, NEW u \in Uploaders,
           SaveStats(u) \/ SkipFile(u) \/ RemoveFile(u) \/ KeepRest(u)
    PROVE  Apart'
<1> USE DEF OnceInv, memoryVars, uploadVars, fileVars, sentVars
<1>1. UNCHANGED <<queue, cache, batch, sent>>
  BY DEF SaveStats, SkipFile, RemoveFile, KeepRest
<1>2. \A n \in Names : Content(n)' \subseteq Content(n)
  <2>1. CASE SaveStats(u) \/ KeepRest(u)
    BY <2>1 DEF SaveStats, KeepRest, Content
  <2>2. CASE SkipFile(u)
    BY <2>2 DEF SkipFile, Content, Typed, Known
  <2>3. CASE RemoveFile(u)
    BY <2>3 DEF RemoveFile, Content, Typed, Known
  <2>4. QED
    BY <2>1, <2>2, <2>3
<1>3. ~twice'
  <2>1. CASE SaveStats(u) \/ SkipFile(u) \/ RemoveFile(u)
    BY <2>1 DEF SaveStats, SkipFile, RemoveFile, Apart
  <2>2. CASE KeepRest(u) /\ MoreToRecover(u)
    <3>1. /\ todo[u] # <<>>
          /\ twice' = (twice \/ sent \cap Content(Head(todo[u])) # {})
      BY <2>2 DEF KeepRest, MoreToRecover
    <3>2. Head(todo[u]) \in Names /\ Pending(Head(todo[u]))
      BY <3>1, RestListed DEF Pending, Typed, Lists
    <3>3. QED
      BY <3>1, <3>2 DEF Apart
  <2>3. CASE KeepRest(u) /\ ~MoreToRecover(u)
    BY <2>3 DEF KeepRest, Apart
  <2>4. QED
    BY <2>1, <2>2, <2>3
<1>4. QED
  BY <1>1, <1>2, <1>3, PendingInWalk, ApartShrinks

\* The other steps.
LEMMA ApartQuiet ==
    ASSUME OnceInv, ~overlap, NEW u \in Uploaders,
           \/ TakeSnapshot(u) \/ ClearEvent(u) \/ Format(u) \/ FormatFails(u)
           \/ NextNumber(u) \/ SendFails(u)
    PROVE  Apart'
<1> USE DEF OnceInv, memoryVars, uploadVars, fileVars, recoverVars, sentVars
<1>1. /\ UNCHANGED <<queue, cache, sent, disk, files_list, todo>>
      /\ \A v \in Uploaders : batch'[v] \subseteq batch[v]
  BY DEF TakeSnapshot, ClearEvent, Format, FormatFails, NextNumber, SendFails,
         Typed, Known
<1>2. ~twice'
  BY DEF TakeSnapshot, ClearEvent, Format, FormatFails, NextNumber, SendFails,
         Apart
<1>3. ~Walking(u)
  BY DEF TakeSnapshot, ClearEvent, Format, FormatFails, NextNumber, SendFails,
         Walking
<1>4. \A v \in Uploaders : v # u => at'[v] = at[v]
  BY DEF TakeSnapshot, ClearEvent, Format, FormatFails, NextNumber, SendFails,
         Goto, Typed, Control
<1>5. \A n \in Names : Content(n)' = Content(n) /\ (Pending(n)' => Pending(n))
  BY <1>1, <1>3, <1>4 DEF Content, Pending, Walking
<1>6. QED
  BY <1>1, <1>2, <1>5, ApartShrinks

LEMMA OnceNext == OnceInv /\ [Next]_vars => OnceInv'
<1> SUFFICES ASSUME OnceInv, [Next]_vars PROVE overlap' \/ Apart'
  BY TypedNext, AloneNext, BatchHeldNext DEF OnceInv
<1>1. CASE overlap
  BY <1>1 DEF Next, Step, vars, Receive, TestCount, ResetCount, SetEvent,
              IntervalPasses, LaterSnapshot, Take, TakeSnapshot, Meets,
              ClearEvent, Format, FormatFails, NextNumber, Send, SendFails,
              SaveFile, SaveFails, SaveStats, SkipFile, SendFile, RemoveFile,
              KeepRest, PowerFails
<1>2. CASE ~overlap
  <2> USE DEF OnceInv
  <2>1. Typed /\ Apart
    BY <1>2
  <2>2. CASE \/ UNCHANGED vars \/ IntervalPasses \/ LaterSnapshot
             \/ \E r \in Receivers :
                   TestCount(r) \/ ResetCount(r) \/ SetEvent(r)
    <3>1. UNCHANGED <<queue, cache, batch, sent, twice, disk, at, files_list,
                      todo>>
      BY <2>2 DEF TestCount, ResetCount, SetEvent, IntervalPasses,
                  LaterSnapshot, vars, memoryVars, uploadVars, fileVars,
                  recoverVars, sentVars
    <3>2. QED
      BY <2>1, <3>1 DEF Apart, Content, Pending, Walking
  <2>3. CASE PowerFails
    BY <2>3 DEF PowerFails
  <2>4. QED
    BY <1>2, <2>1, <2>2, <2>3, ApartReceive, ApartTake, ApartSend, ApartSave,
       ApartSpoil, ApartSendFile, ApartWalk, ApartQuiet DEF Next, Step
<1>3. QED
  BY <1>1, <1>2

LEMMA OnceInit == Init => OnceInv
<1>1. Init => Alone /\ BatchHeld
  BY DEF Init, Alone, BatchHeld
<1>2. Init => Apart
  <2>1. SUFFICES ASSUME Init PROVE Apart
    OBVIOUS
  <2>2. \A n \in Names : Content(n) = {}
    BY <2>1 DEF Init, Content
  <2>3. QED
    BY <2>1, <2>2 DEF Init, Apart
<1>3. QED
  BY <1>1, <1>2, TypedInit DEF OnceInv

\* As long as no two uploaders meet and the power stays on, nothing that
\* Device Cloud has confirmed is sent again: from the queue, the cache or a
\* file, whatever fails, and though a file that was sent may not be removed.
THEOREM ConfirmedNotSentAgain == Spec => []ConfirmedOnce
<1>1. OnceInv => ConfirmedOnce
  BY DEF OnceInv, Apart, ConfirmedOnce
<1>2. QED
  BY <1>1, OnceInit, OnceNext, PTL DEF Spec

-----------------------------------------------------------------------------
(* No sample is lost unless for a cause.                                   *)

\* A walk leaves out no file that is listed, but what was sent or lost.
Walked(u) ==
    /\ Walking(u) => \A n \in Range(files_list) :
                        \/ n \in Range(todo[u])
                        \/ Content(n) \subseteq sent \cup excused
    /\ at[u] = "remove" => Content(name[u]) \subseteq sent

\* A sample that is in no file.
Loose(s) == \/ s \in queue \cup cache \cup sent \cup excused
            \/ \E u \in Uploaders : s \in batch[u]

InFile(s) == \E n \in Names : s \in Content(n)

InListed(s) ==
    \/ \E n \in Range(files_list) : s \in Content(n)
    \/ \E u \in Uploaders : \E n \in Range(todo[u]) : s \in Content(n)

Somewhere(s) == Loose(s) \/ IF overlap THEN InFile(s) ELSE InListed(s)

KeptInv ==
    /\ Typed /\ Alone /\ BatchHeld
    /\ overlap \/ \A u \in Uploaders : Walked(u)
    /\ \A s \in 1..last : Somewhere(s)

LEMMA ListedIsInFile ==
    ASSUME Typed, NEW s, InListed(s)
    PROVE  InFile(s)
<1>1. /\ Range(files_list) \subseteq Names
      /\ \A u \in Uploaders : Range(todo[u]) \subseteq Names
  BY DEF Typed, Lists, Listed, Range
<1>2. QED
  BY <1>1 DEF InListed, InFile

LEMMA KeptInit == Init => KeptInv
<1> SUFFICES ASSUME Init PROVE KeptInv
  OBVIOUS
<1>1. Alone /\ BatchHeld /\ \A u \in Uploaders : Walked(u)
  BY DEF Init, Alone, BatchHeld, Walked, Walking
<1>2. 1..last = {}
  BY DEF Init
<1>3. QED
  BY <1>1, <1>2, TypedInit DEF KeptInv

\* Where the samples of a step are that neither lists nor removes a file.
LEMMA SomewhereStill ==
    ASSUME NEW s, Somewhere(s), Loose(s) => Loose(s)',
           \A n \in Names : s \in Content(n) => s \in Content(n)' \/ Loose(s)',
           UNCHANGED <<files_list, todo>>, overlap => overlap', Typed
    PROVE  Somewhere(s)'
<1>1. /\ Range(files_list) \subseteq Names
      /\ \A u \in Uploaders : Range(todo[u]) \subseteq Names
  BY DEF Typed, Lists, Listed, Range
<1>2. InFile(s) => InFile(s)' \/ Loose(s)'
  BY DEF InFile
<1>3. InListed(s) => InListed(s)' \/ Loose(s)'
  BY <1>1 DEF InListed
<1>4. QED
  BY <1>2, <1>3, ListedIsInFile DEF Somewhere

LEMMA SomewhereReceive ==
    ASSUME Typed, NEW r \in Receivers, Receive(r), NEW s \in 1..last',
           s \in 1..last => Somewhere(s)
    PROVE  Somewhere(s)'
<1>1. PICK d \in 0..Len(files_list) : Reception(d)
  BY ReceiveEffect
<1>2. UNCHANGED <<at, name, batch, sent, todo, overlap>>
  BY DEF Receive, uploadVars, sentVars
<1>3. \/ Loose(s) \/ s = last + 1 \/ s \in SamplesDropped(d) => Loose(s)'
  BY <1>1, <1>2 DEF Reception, Loose
<1>4. s \in 1..last \/ s = last + 1
  BY <1>1 DEF Reception, Typed, Known
<1>5. ASSUME NEW n \in Names, s \in Content(n)
      PROVE  \/ s \in Content(n)' /\ n \notin Dropped(d)
             \/ Loose(s)'
  <2>1. n \in Dropped(d) => s \in SamplesDropped(d)
    BY <1>5 DEF SamplesDropped
  <2>2. n \notin Dropped(d) => Content(n)' = Content(n)
    BY <1>1 DEF Reception, Without, Content
  <2>3. QED
    BY <1>3, <1>5, <2>1, <2>2
<1>6. \A n \in Range(files_list) : n \in Dropped(d) \/ n \in Range(files_list')
  BY <1>1, KeptListed DEF Reception, Dropped, Typed, Lists
<1>7. /\ Range(files_list) \subseteq Names
      /\ \A u \in Uploaders : Range(todo[u]) \subseteq Names
  BY DEF Typed, Lists, Listed, Range
<1>8. InFile(s) => InFile(s)' \/ Loose(s)'
  BY <1>5 DEF InFile
<1>9. InListed(s) => InListed(s)' \/ Loose(s)'
  BY <1>2, <1>5, <1>6, <1>7 DEF InListed
<1>10. QED
  BY <1>2, <1>3, <1>4, <1>8, <1>9 DEF Somewhere

LEMMA SomewhereSave ==
    ASSUME Typed, NEW u \in Uploaders, SaveFile(u), NEW s, Somewhere(s)
    PROVE  Somewhere(s)'
<1>1. PICK d \in 0..Len(files_list) : Saving(u, d)
  BY SaveEffect
<1>2. PICK k \in Names : k = name[u]
  BY DEF Typed, Lists
<1>3. /\ UNCHANGED <<queue, cache, sent, overlap>>
      /\ \A v \in Uploaders : v # u => batch'[v] = batch[v]
  BY DEF SaveFile, memoryVars, sentVars, Typed, Known
<1>4. excused' = excused \cup SamplesDropped(d) \cup (Content(k) \ batch[u])
  BY <1>1, <1>2 DEF Saving
<1>5. batch[u] # NoFile
  BY UploadAssumption DEF Typed, Known
<1>6. /\ Content(k)' = batch[u]
      /\ \A n \in Names :
            n # k /\ n \notin Dropped(d) => Content(n)' = Content(n)
  BY <1>1, <1>2, <1>5 DEF Saving, Without, Content, Typed, Known
<1>7. ASSUME NEW n \in Names, s \in Content(n)
      PROVE  \/ s \in Content(n)' /\ (n = k \/ n \notin Dropped(d))
             \/ Loose(s)'
  BY <1>4, <1>6, <1>7 DEF SamplesDropped, Loose
<1>8. /\ Range(files_list) \subseteq Range(files_list') \cup Dropped(d)
      /\ k \in Range(files_list')
      /\ \A v \in Uploaders : Range(todo[v]) \subseteq Range(todo'[v])
  BY <1>1, <1>2 DEF Saving
<1>9. Loose(s) => Loose(s)' \/ s \in Content(k)'
  BY <1>3, <1>4, <1>6 DEF Loose
<1>10. /\ Range(files_list) \subseteq Names
       /\ \A v \in Uploaders : Range(todo[v]) \subseteq Names
  BY DEF Typed, Lists, Listed, Range
<1>11. s \in Content(k)' => InFile(s)' /\ InListed(s)'
  BY <1>8 DEF InFile, InListed
<1>12. InFile(s) => InFile(s)' \/ Loose(s)'
  BY <1>7 DEF InFile
<1>13. InListed(s) => InListed(s)' \/ Loose(s)'
  BY <1>7, <1>8, <1>10 DEF InListed
<1>14. QED
  BY <1>3, <1>9, <1>11, <1>12, <1>13 DEF Somewhere

LEMMA SomewhereSpoil ==
    ASSUME Typed, NEW u \in Uploaders, SaveFails(u), NEW s, Somewhere(s)
    PROVE  Somewhere(s)'
<1>1. PICK d \in 0..Len(files_list) : Spoiling(u, d)
  BY SpoilEffect
<1>2. PICK k \in Names : k = name[u]
  BY DEF Typed, Lists
<1>3. /\ UNCHANGED <<queue, cache, sent, todo, overlap>>
      /\ \A v \in Uploaders : v # u => batch'[v] = batch[v]
  BY DEF SaveFails, memoryVars, sentVars, Typed, Known
<1>4. /\ excused \cup SamplesDropped(d) \cup batch[u] \subseteq excused'
      /\ Content(k)' = Content(k) \/ k \in Dropped(d)
            \/ Content(k) \subseteq excused'
  BY <1>1, <1>2 DEF Spoiling, Without, Content
<1>5. \A n \in Names : n # k /\ n \notin Dropped(d) => Content(n)' = Content(n)
  BY <1>1, <1>2 DEF Spoiling, Without, Content, Typed, Known
<1>6. Loose(s) => Loose(s)'
  BY <1>3, <1>4 DEF Loose
<1>7. ASSUME NEW n \in Names, s \in Content(n)
      PROVE  \/ s \in Content(n)' /\ n \notin Dropped(d)
             \/ Loose(s)'
  <2>1. n \in Dropped(d) => s \in SamplesDropped(d)
    BY <1>7 DEF SamplesDropped
  <2>2. QED
    BY <1>4, <1>5, <1>7, <2>1 DEF Loose
<1>8. Range(files_list) \subseteq Range(files_list') \cup Dropped(d)
  BY <1>1, KeptListed DEF Spoiling, Dropped, Typed, Lists
<1>9. /\ Range(files_list) \subseteq Names
      /\ \A v \in Uploaders : Range(todo[v]) \subseteq Names
  BY DEF Typed, Lists, Listed, Range
<1>10. InFile(s) => InFile(s)' \/ Loose(s)'
  BY <1>7 DEF InFile
<1>11. InListed(s) => InListed(s)' \/ Loose(s)'
  BY <1>3, <1>7, <1>8, <1>9 DEF InListed
<1>12. QED
  BY <1>3, <1>6, <1>10, <1>11 DEF Somewhere

LEMMA SomewhereTake ==
    ASSUME KeptInv, NEW u \in Uploaders, Take(u), NEW s \in 1..last
    PROVE  Somewhere(s)'
<1> USE DEF fileVars, recoverVars, sentVars
<1>1. /\ UNCHANGED <<files_list, disk, todo, sent>>
      /\ overlap => overlap'
      /\ \A v \in Uploaders : v # u => batch'[v] = batch[v]
      /\ queue \cup cache \subseteq batch'[u] \cup cache' \cup excused'
      /\ excused \subseteq excused'
  BY DEF KeptInv, Take, Meets, Typed, Known
<1>2. batch[u] = {}
  BY DEF KeptInv, Take, BatchHeld
<1>3. Loose(s) => Loose(s)'
  BY <1>1, <1>2 DEF Loose
<1>4. \A n \in Names : Content(n)' = Content(n)
  BY <1>1 DEF Content
<1>5. QED
  BY <1>1, <1>3, <1>4, SomewhereStill DEF KeptInv

\* The steps that take nothing off a list.
LEMMA SomewhereQuiet ==
    ASSUME Typed, NEW u \in Uploaders,
           \/ TakeSnapshot(u) \/ ClearEvent(u) \/ Format(u) \/ FormatFails(u)
           \/ NextNumber(u) \/ Send(u) \/ SendFails(u),
           NEW s, Somewhere(s)
    PROVE  Somewhere(s)'
<1> USE DEF memoryVars, uploadVars, fileVars, recoverVars, sentVars
<1>1. /\ UNCHANGED <<files_list, disk, todo, queue, cache>>
      /\ overlap => overlap'
  <2>1. CASE TakeSnapshot(u)
    BY <2>1 DEF TakeSnapshot, Meets
  <2>2. CASE ~TakeSnapshot(u)
    BY <2>2 DEF ClearEvent, Format, FormatFails, NextNumber, Send, SendFails
  <2>3. QED
    BY <2>1, <2>2
<1>2. /\ sent \subseteq sent' /\ excused \subseteq excused'
      /\ batch[u] \subseteq batch'[u] \cup excused' \cup sent'
      /\ \A v \in Uploaders : v # u => batch'[v] = batch[v]
  BY DEF TakeSnapshot, ClearEvent, Format, FormatFails, NextNumber, Send,
         SendFails, Typed, Known
<1>3. Loose(s) => Loose(s)'
  BY <1>1, <1>2 DEF Loose
<1>4. \A n \in Names : Content(n)' = Content(n)
  BY <1>1 DEF Content
<1>5. QED
  BY <1>1, <1>3, <1>4, SomewhereStill

LEMMA SomewhereRemove ==
    ASSUME KeptInv, NEW u \in Uploaders, RemoveFile(u), NEW s \in 1..last
    PROVE  Somewhere(s)'
<1> USE DEF KeptInv, memoryVars, uploadVars, sentVars
<1>1. PICK k \in Names : k = name[u]
  BY DEF Typed, Lists
<1>2. /\ UNCHANGED <<files_list, todo, queue, cache, batch, sent, overlap>>
      /\ \/ disk' = disk
         \/ /\ disk' = [disk EXCEPT ![k] = NoFile]
            /\ overlap => Content(k) \subseteq sent \cup excused'
      /\ excused \subseteq excused'
  BY <1>1 DEF RemoveFile
<1>3. ~overlap => Content(k) \subseteq sent
  BY <1>1 DEF RemoveFile, Walked
<1>4. Loose(s) => Loose(s)'
  BY <1>2 DEF Loose
<1>5. \A n \in Names : s \in Content(n) => s \in Content(n)' \/ Loose(s)'
  <2>1. \A n \in Names : n # k => Content(n)' = Content(n)
    BY <1>2 DEF Content, Typed, Known
  <2>2. s \in Content(k) => s \in Content(k)' \/ Loose(s)'
    BY <1>2, <1>3 DEF Content, Loose
  <2>3. QED
    BY <2>1, <2>2
<1>6. QED
  BY <1>2, <1>4, <1>5, SomewhereStill

\* The start of a walk: whoever starts one had none.
LEMMA SomewhereStats ==
    ASSUME Typed, NEW u \in Uploaders, SaveStats(u), NEW s, Somewhere(s)
    PROVE  Somewhere(s)'
<1> USE DEF memoryVars, uploadVars, fileVars, recoverVars, sentVars
<1>1. UNCHANGED <<files_list, disk, queue, cache, batch, sent, excused,
                  overlap>>
  BY DEF SaveStats
<1>2. todo[u] = <<>>
  BY DEF SaveStats, Typed, Lists, Walking
<1>3. \A v \in Uploaders : v # u => todo'[v] = todo[v]
  BY DEF SaveStats, Typed, Lists
<1>4. (Loose(s)' <=> Loose(s)) /\ \A n : Content(n)' = Content(n)
  BY <1>1 DEF Loose, Content
<1>5. InFile(s) => InFile(s)'
  BY <1>4 DEF InFile
<1>6. InListed(s) => InListed(s)'
  <2>1. Range(todo[u]) = {}
    BY <1>2 DEF Range
  <2>2. QED
    BY <1>1, <1>3, <1>4, <2>1 DEF InListed
<1>7. QED
  BY <1>1, <1>4, <1>5, <1>6 DEF Somewhere

LEMMA SomewhereFile ==
    ASSUME Typed, NEW u \in Uploaders, SkipFile(u) \/ SendFile(u),
           NEW s, Somewhere(s)
    PROVE  Somewhere(s)'
<1> USE DEF memoryVars, uploadVars, fileVars, recoverVars, sentVars
<1>1. /\ at[u] = "recover" /\ todo[u] # <<>>
      /\ todo' = [todo EXCEPT ![u] = Tail(@)]
      /\ UNCHANGED <<queue, cache, batch, files_list, overlap>>
  BY DEF SkipFile, SendFile, MoreToRecover, Advance
<1>2. PICK k \in Names : k = Head(todo[u])
  BY <1>1, RestListed DEF Typed, Lists
<1>3. Range(todo[u]) = Range(todo'[u]) \cup {k}
  BY <1>1, <1>2, RestListed DEF Typed, Lists
<1>4. /\ sent \subseteq sent' /\ excused \subseteq excused'
      /\ Content(k) \subseteq sent' \cup excused'
      /\ \A n \in Names : n # k => Content(n)' = Content(n)
      /\ Content(k)' = Content(k) \/ Content(k)' = {}
  BY <1>2 DEF SkipFile, SendFile, Content, Typed, Known
<1>5. (Loose(s) => Loose(s)') /\ (s \in Content(k) => Loose(s)')
  BY <1>1, <1>4 DEF Loose
<1>6. \A n \in Names : s \in Content(n) =>
         \/ s \in Content(n)' /\ n # k
         \/ Loose(s)'
  BY <1>4, <1>5
<1>7. /\ Range(files_list) \subseteq Names
      /\ \A v \in Uploaders : Range(todo[v]) \subseteq Names
  BY DEF Typed, Lists, Listed, Range
<1>8. InFile(s) => InFile(s)' \/ Loose(s)'
  BY <1>6 DEF InFile
<1>9. InListed(s) => InListed(s)' \/ Loose(s)'
  <2>1. \A v \in Uploaders : v # u => todo'[v] = todo[v]
    BY <1>1 DEF Typed, Lists
  <2>2. QED
    BY <1>1, <1>3, <1>6, <1>7, <2>1 DEF InListed
<1>10. QED
  BY <1>1, <1>5, <1>8, <1>9 DEF Somewhere

\* The end of a walk: what becomes the list was left to do, and the rest of
\* the list was sent or lost.
LEMMA SomewhereKeep ==
    ASSUME KeptInv, NEW u \in Uploaders, KeepRest(u), NEW s \in 1..last
    PROVE  Somewhere(s)'
<1> USE DEF KeptInv, memoryVars, uploadVars, fileVars, recoverVars, sentVars
<1>1. /\ UNCHANGED <<queue, cache, batch, disk, sent, excused, overlap>>
      /\ files_list' = todo[u]
      /\ \A v \in Uploaders : v # u => todo'[v] = todo[v]
  BY DEF KeepRest, Typed, Lists
<1>2. (Loose(s)' <=> Loose(s)) /\ \A n : Content(n)' = Content(n)
  BY <1>1 DEF Loose, Content
<1>3. InFile(s) => InFile(s)'
  BY <1>2 DEF InFile
<1>4. CASE overlap
  BY <1>1, <1>2, <1>3, <1>4 DEF Somewhere
<1>5. CASE ~overlap
  <2>1. \A n \in Range(files_list) :
           n \in Range(files_list') \/ Content(n) \subseteq sent \cup excused
    BY <1>1, <1>5 DEF Walked, Walking, KeepRest
  <2>2. InListed(s) => InListed(s)' \/ Loose(s)
    BY <1>1, <1>2, <2>1 DEF InListed, Loose
  <2>3. QED
    BY <1>1, <1>2, <1>5, <2>2 DEF Somewhere
<1>6. QED
  BY <1>4, <1>5

LEMMA SomewherePower ==
    ASSUME Typed, PowerFails, NEW s, Somewhere(s)
    PROVE  Somewhere(s)'
<1>1. /\ overlap' /\ UNCHANGED <<cache, disk, sent>>
      /\ queue \cup excused \subseteq excused'
      /\ \A u \in Uploaders : batch[u] \subseteq excused'
  BY DEF PowerFails, sentVars, Range, Typed, Known
<1>2. Loose(s) => Loose(s)'
  BY <1>1 DEF Loose
<1>3. InFile(s) => InFile(s)'
  BY <1>1 DEF InFile, Content
<1>4. QED
  BY <1>1, <1>2, <1>3, ListedIsInFile DEF Somewhere

\* A walk is alone, up to a meeting: only its own steps matter to it.
LEMMA WalkedNext ==
    ASSUME KeptInv, [Next]_vars, ~overlap', NEW u \in Uploaders
    PROVE  Walked(u)'
<1> USE DEF memoryVars, uploadVars, fileVars, recoverVars, sentVars
<1>1. /\ Typed /\ Alone /\ Alone' /\ ~overlap /\ Walked(u)
  <2>1. ~overlap
    BY DEF Next, Step, vars, Receive, TestCount, ResetCount, SetEvent,
           IntervalPasses, LaterSnapshot, Take, TakeSnapshot, Meets,
           ClearEvent, Format, FormatFails, NextNumber, Send, SendFails,
           SaveFile, SaveFails, SaveStats, SkipFile, SendFile, RemoveFile,
           KeepRest, PowerFails
  <2>2. QED
    BY <2>1, AloneNext DEF KeptInv
<1>2. SUFFICES ASSUME Walking(u)' PROVE Walked(u)'
  BY DEF Walked, Walking
<1>3. \A v \in Uploaders : v # u => at'[v] = "idle"
  BY <1>1, <1>2 DEF Alone, Walking
<1>4. ASSUME NEW r \in Receivers, Receive(r) PROVE Walked(u)'
  <2>1. PICK d \in 0..Len(files_list) : Reception(d)
    BY <1>1, <1>4, ReceiveEffect
  <2>2. UNCHANGED <<at, name, sent, todo>> /\ excused \subseteq excused'
    BY <1>4, <2>1 DEF Receive, Reception
  <2>3. Range(files_list') \subseteq Range(files_list)
    BY <1>1, <2>1, KeptListed DEF Reception, Typed, Lists
  <2>4. \A n \in Names : Content(n)' \subseteq Content(n)
    BY <2>1 DEF Reception, Without, Content
  <2>5. Range(files_list) \subseteq Names /\ name[u] \in Names
    BY <1>1 DEF Typed, Lists, Listed, Range
  <2>6. Content(name[u])' \subseteq Content(name[u])
    BY <2>2, <2>4, <2>5
  <2>7. QED
    BY <1>1, <2>2, <2>3, <2>4, <2>5, <2>6 DEF Walked, Walking
<1>5. CASE \/ UNCHANGED vars \/ IntervalPasses \/ LaterSnapshot
           \/ \E r \in Receivers : TestCount(r) \/ ResetCount(r) \/ SetEvent(r)
  <2>1. UNCHANGED <<at, name, sent, excused, todo, files_list, disk>>
    BY <1>5 DEF TestCount, ResetCount, SetEvent, IntervalPasses,
                LaterSnapshot, vars
  <2>2. QED
    BY <1>1, <2>1 DEF Walked, Walking, Content
<1>6. ASSUME NEW v \in Uploaders, v # u,
             Take(v) \/ TakeSnapshot(v) \/ Step(v)
      PROVE  FALSE
  <2>1. at[u] = at'[u]
    BY <1>1, <1>6
       DEF Typed, Control, Take, TakeSnapshot, Step, ClearEvent, Format,
           FormatFails, NextNumber, Send, SendFails, SaveFile, SaveFails,
           SaveStats, SkipFile, SendFile, RemoveFile, KeepRest, Goto
  <2>2. at[v] = "idle"
    BY <1>1, <1>2, <1>6, <2>1 DEF Alone, Walking
  <2>3. Take(v) \/ TakeSnapshot(v)
    BY <1>6, <2>2 DEF Step, ClearEvent, Format, FormatFails, NextNumber, Send,
                      SendFails, SaveFile, SaveFails, SaveStats, SkipFile,
                      SendFile, RemoveFile, KeepRest, MoreToRecover
  <2>4. QED
    BY <1>1, <1>3, <1>6, <2>3 DEF Take, TakeSnapshot, Goto, Typed, Control
<1>7. ASSUME Take(u) \/ TakeSnapshot(u) \/ ClearEvent(u) \/ Format(u)
                \/ FormatFails(u) \/ NextNumber(u) \/ Send(u) \/ SendFails(u)
                \/ SaveFile(u) \/ SaveFails(u) \/ KeepRest(u)
      PROVE  FALSE
  BY <1>1, <1>2, <1>7
     DEF Typed, Control, Walking, Take, TakeSnapshot, ClearEvent, Format,
         FormatFails, NextNumber, Send, SendFails, SaveFile, SaveFails,
         KeepRest, Goto
<1>8. CASE SaveStats(u)
  <2>1. todo'[u] = files_list /\ files_list' = files_list /\ at'[u] # "remove"
    BY <1>1, <1>2, <1>8 DEF SaveStats, Goto, Typed, Control, Lists, Walking
  <2>2. QED
    BY <2>1 DEF Walked
<1>9. CASE SkipFile(u) \/ SendFile(u)
  <2>1. /\ at[u] = "recover" /\ todo[u] # <<>>
        /\ todo'[u] = Tail(todo[u]) /\ files_list' = files_list
    BY <1>1, <1>9 DEF SkipFile, SendFile, MoreToRecover, Advance, Typed, Lists
  <2>2. PICK k \in Names : k = Head(todo[u])
    BY <1>1, <2>1, RestListed DEF Typed, Lists
  <2>3. Range(todo[u]) = Range(todo'[u]) \cup {k}
    BY <1>1, <2>1, <2>2, RestListed DEF Typed, Lists
  <2>4. Range(files_list) \subseteq Names
    BY <1>1 DEF Typed, Lists, Listed, Range
  <2>5. /\ sent \subseteq sent' /\ excused \subseteq excused'
        /\ Content(k)' \subseteq sent' \cup excused'
        /\ SendFile(u) => Content(k)' \subseteq sent'
        /\ \A n \in Names : Content(n)' \subseteq Content(n)
    BY <1>1, <1>9, <2>2 DEF SkipFile, SendFile, Content, Typed, Known
  <2>6. at'[u] = "remove" => name'[u] = k /\ SendFile(u)
    BY <1>1, <1>9, <2>1, <2>2 DEF SkipFile, SendFile, Typed, Lists
  <2>7. at'[u] = "remove" => Content(name[u])' \subseteq sent'
    BY <2>5, <2>6
  <2>8. \A n \in Range(files_list') :
           \/ n \in Range(todo'[u])
           \/ Content(n)' \subseteq sent' \cup excused'
    BY <1>1, <2>1, <2>3, <2>4, <2>5 DEF Walked, Walking
  <2>9. QED
    BY <2>7, <2>8 DEF Walked
<1>10. CASE RemoveFile(u)
  <2>1. /\ UNCHANGED <<files_list, todo, sent>> /\ at[u] = "remove"
        /\ at'[u] = "recover" /\ excused \subseteq excused'
    BY <1>1, <1>10 DEF RemoveFile, Goto, Typed, Control
  <2>2. \A n \in Names : Content(n)' \subseteq Content(n)
    BY <1>1, <1>10 DEF RemoveFile, Content, Typed, Known
  <2>3. Range(files_list) \subseteq Names
    BY <1>1 DEF Typed, Lists, Listed, Range
  <2>4. QED
    BY <1>1, <2>1, <2>2, <2>3 DEF Walked, Walking
<1>11. CASE PowerFails
  BY <1>11 DEF PowerFails
<1>12. QED
  BY <1>4, <1>5, <1>6, <1>7, <1>8, <1>9, <1>10, <1>11 DEF Next, Step

LEMMA KeptNext == KeptInv /\ [Next]_vars => KeptInv'
<1> SUFFICES ASSUME KeptInv, [Next]_vars PROVE KeptInv'
  OBVIOUS
<1> USE DEF memoryVars, uploadVars, fileVars, recoverVars, sentVars
<1>1. Typed' /\ Alone' /\ BatchHeld'
  BY TypedNext, AloneNext, BatchHeldNext DEF KeptInv
<1>2. overlap' \/ \A u \in Uploaders : Walked(u)'
  BY WalkedNext
<1>3. Typed /\ \A s \in 1..last : Somewhere(s)
  BY DEF KeptInv
<1>4. ASSUME NEW s \in 1..last' PROVE Somewhere(s)'
  <2>1. ASSUME NEW r \in Receivers, Receive(r) PROVE Somewhere(s)'
    BY <1>3, <2>1, SomewhereReceive
  <2>2. CASE ~\E r \in Receivers : Receive(r)
    <3>1. last' = last
      BY <2>2
         DEF Next, Step, vars, TestCount, ResetCount, SetEvent,
             IntervalPasses, LaterSnapshot, Take, TakeSnapshot, ClearEvent,
             Format, FormatFails, NextNumber, Send, SendFails, SaveFile,
             SaveFails, SaveStats, SkipFile, SendFile, RemoveFile, KeepRest,
             PowerFails
    <3>2. s \in 1..last /\ Somewhere(s)
      BY <1>3, <3>1
    <3>3. CASE \/ UNCHANGED vars \/ IntervalPasses \/ LaterSnapshot
               \/ \E r \in Receivers :
                     TestCount(r) \/ ResetCount(r) \/ SetEvent(r)
      <4>1. UNCHANGED <<queue, cache, sent, excused, batch, disk, files_list,
                        todo, overlap>>
        BY <3>3 DEF TestCount, ResetCount, SetEvent, IntervalPasses,
                    LaterSnapshot, vars
      <4>2. QED
        BY <3>2, <4>1 DEF Somewhere, Loose, InFile, InListed, Content
    <3>4. QED
      BY <1>3, <2>2, <3>2, <3>3, SomewhereTake, SomewhereQuiet,
         SomewhereRemove, SomewhereSave, SomewhereSpoil, SomewhereStats,
         SomewhereFile, SomewhereKeep, SomewherePower DEF Next, Step
  <2>3. QED
    BY <2>1, <2>2
<1>5. QED
  BY <1>1, <1>2, <1>4 DEF KeptInv

\* Every sample that was received is held by something that will send it, was
\* confirmed, or was lost in one of the ways the history variable tells, with
\* any call of the disk failing: files dropped though no room was made, a file
\* emptied and not written, one that could not be removed.
THEOREM NoSampleLost == Spec => []NoSampleAstray
<1>1. KeptInv => NoSampleAstray
  <2> SUFFICES ASSUME KeptInv, NEW s \in 1..last
               PROVE  \/ s \in queue \cup cache \cup sent \cup excused
                      \/ s \in UNION Range(batch)
                      \/ s \in InList(files_list)
                      \/ s \in UNION {InList(f) : f \in Range(todo)}
                      \/ overlap /\ s \in UNION {Content(n) : n \in Names}
    BY DEF NoSampleAstray
  <2>1. /\ DOMAIN batch = Uploaders /\ DOMAIN todo = Uploaders
        /\ Somewhere(s)
    BY DEF KeptInv, Typed, Known, Lists
  <2>2. Loose(s) => \/ s \in queue \cup cache \cup sent \cup excused
                    \/ s \in UNION Range(batch)
    BY <2>1 DEF Loose, Range
  <2>3. InFile(s) => s \in UNION {Content(n) : n \in Names}
    BY DEF InFile
  <2>4. InListed(s) => \/ s \in InList(files_list)
                       \/ s \in UNION {InList(f) : f \in Range(todo)}
    <3>1. \A u \in Uploaders : todo[u] \in Range(todo)
      BY <2>1 DEF Range
    <3>2. QED
      BY <3>1 DEF InListed, InList
  <2>5. QED
    BY <2>1, <2>2, <2>3, <2>4 DEF Somewhere
<1>2. QED
  BY <1>1, KeptInit, KeptNext, PTL DEF Spec
=============================================================================
