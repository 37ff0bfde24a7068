----------------------------- MODULE EventRing -----------------------------
(***************************************************************************)
(* The event ring buffer (ERB) of a file logger's log file, as             *)
(* FileLoggerStorageManager keeps it: file_logger_storage_manager.py.      *)
(*                                                                         *)
(* The ERB is a row of cells.  A header takes HeaderSize cells and says    *)
(* how far it is to the next header; a pad is written as its header only,  *)
(* so that old cells stay behind it.  Cells that were never a header, or   *)
(* of which a part was overwritten, are what a reader must not take for    *)
(* one.  A write of the whole buffer is one step unless Torn, in which     *)
(* case the process may die with any part of it written.                   *)
(* A header of which only a part was written may read as no event or as a  *)
(* bad one; that it may read as another valid header is left out, and no   *)
(* property but StartsAnew is claimed once a write has been cut short.     *)
(*                                                                         *)
(* One thread writes; events come to it one at a time, and it writes when  *)
(* it has none to take.                                                    *)
(***************************************************************************)
EXTENDS Integers, Sequences, FiniteSets

CONSTANTS HeaderSize,     \* EVENT_HEADER_SIZE, in cells
          Size,           \* the event volume size, in cells
          SampleLengths,  \* the lengths of events that hold one sample
          DumpLengths,    \* the lengths of channel dumps
          QueueDepth,     \* FILE_WRITE_Q_DEPTH
          MaxRecord,      \* bound on the record numbers
          Torn            \* a write may be cut short by the death of the process

ASSUME EventRingAssumption ==
    /\ HeaderSize \in Nat \ {0}
    /\ Size \in Nat
    /\ SampleLengths \cup DumpLengths \subseteq HeaderSize..(Size - HeaderSize)
    /\ 2 * HeaderSize <= Size
    /\ QueueDepth \in Nat \ {0}
    /\ MaxRecord \in Nat
    /\ Torn \in BOOLEAN

VARIABLES
    erb,           \* the file between erb_off and nameDB_off
    record,        \* the next record number
    lastrecord,    \* the offset of the last event written
    recordcursor,  \* the offset at which the next write begins
    cdorb,         \* the offsets and records of the channel dumps
    write_q,       \* the events accepted and not yet written
    pc,            \* where the thread is
    torn           \* history: a write has been cut short

vars == <<erb, record, lastrecord, recordcursor, cdorb, write_q, pc, torn>>

Offsets    == 0..(Size - 1)
EventTypes == {"sample", "dump"}
NoHeader   == [type |-> "none", record |-> 0, length |-> 0, previous |-> 0]

Header(type, rec, length, previous) ==
    [type |-> type, record |-> rec, length |-> length, previous |-> previous]

\* A cell is a part of a header, or else holds no part of any: data of an
\* event, or what the volume was filled with.
Body  == <<NoHeader, 0>>
Blank == <<NoHeader, 1>>

TypeOK ==
    /\ \A c \in Offsets : erb[c] \in {Body, Blank} \/
          /\ erb[c][1].type \in EventTypes \cup {"pad"}
          /\ erb[c][1].length \in HeaderSize..Size
          /\ erb[c][1].previous \in Offsets
          /\ erb[c][2] \in 0..(HeaderSize - 1)
    /\ record \in 0..(MaxRecord + 1)
    /\ lastrecord \in Offsets
    /\ recordcursor \in 0..(Size - HeaderSize)
    /\ \A i \in 1..Len(cdorb) : cdorb[i] \in Offsets \X Int
    /\ Len(write_q) <= QueueDepth
    /\ pc \in {"down", "starting", "idle", "emptying", "dead"}
    /\ torn \in BOOLEAN /\ (torn => Torn)

-----------------------------------------------------------------------------
(* Reading the ring.                                                       *)

\* What read_event_hdr finds at an offset: a header that is there in full.
HeaderAt(disk, o) ==
    IF o + HeaderSize <= Size /\
       \A i \in 0..(HeaderSize - 1) : disk[o + i] = <<disk[o][1], i>>
    THEN disk[o][1]
    ELSE NoHeader

IsHeader(disk, o) == o \in Offsets /\ HeaderAt(disk, o) # NoHeader

\* The offsets met by following the headers from one offset, to the end or
\* to the first offset that has none.
Chain(disk, from) ==
    LET met[o \in Offsets \cup {Size}] ==
          IF IsHeader(disk, o) THEN {o} \cup met[o + HeaderAt(disk, o).length]
                               ELSE {o}
    IN  met[from]

Least(S) == CHOOSE x \in S : \A y \in S : x <= y
Most(S)  == CHOOSE x \in S : \A y \in S : x >= y

\* One big pad, as _create_logfile writes it.
NewVolume ==
    [c \in Offsets |->
        IF c < HeaderSize THEN <<Header("pad", 0, Size, 0), c>> ELSE Blank]

-----------------------------------------------------------------------------
(* The scan of the ring when the log is opened.                            *)

\* The scan reads headers until the end or until there is none.
Scanned(disk) == {o \in Chain(disk, 0) : IsHeader(disk, o)}

ScanReachesEnd(disk) == Size \in Chain(disk, 0)

\* Data where a header should be may read as a bad event, what the volume
\* was filled with reads as no event.
ScanMayRaise(disk) ==
    \E o \in Offsets \cap Chain(disk, 0) : ~IsHeader(disk, o) /\ disk[o] # Blank

\* The dumps it meets are appended to the index as it goes.
DumpsMet(disk) ==
    LET entry(o) == IF HeaderAt(disk, o).type = "dump"
                    THEN << <<o, HeaderAt(disk, o).record>> >> ELSE <<>>
        met[o \in Offsets \cup {Size}] ==
          IF IsHeader(disk, o)
          THEN entry(o) \o met[o + HeaderAt(disk, o).length] ELSE <<>>
    IN  met[0]

\* Mutant: the index is left in the order of offsets.
Rotated_Never(index, cursor) == index

\* The index is rotated until its head is past the cursor, unless its last
\* entry is before the cursor.
Rotated(index, cursor) ==
    IF index # <<>> /\ cursor < index[Len(index)][1]
    THEN LET k == Least({i \in 1..Len(index) : index[i][1] >= cursor})
         IN  SubSeq(index, k, Len(index)) \o SubSeq(index, 1, k - 1)
    ELSE index

\* The highest record met, if not below the one the scan began with, gives
\* the next record, the last event and the cursor.
Scan(disk, before) ==
    LET met  == Scanned(disk)
        top  == Most({-1} \cup {HeaderAt(disk, o).record : o \in met})
        last == Least({o \in met : HeaderAt(disk, o).record = top})
        past == last + HeaderAt(disk, last).length
        newer == met # {} /\ top >= before.record
        cursor == IF ~newer THEN before.cursor
                  ELSE IF past = Size THEN 0 ELSE past
    IN  [record |-> IF newer THEN top + 1 ELSE before.record,
         last   |-> IF newer THEN last ELSE before.last,
         cursor |-> cursor,
         cdorb  |-> Rotated(before.cdorb \o DumpsMet(disk), cursor)]

\* Where the thread starts from.
Unscanned == [record |-> -1, last |-> 0, cursor |-> 0, cdorb |-> <<>>]

-----------------------------------------------------------------------------
(* One write: one turn of the outer loop of empty_write_q.                 *)

\* Where the queued events would be placed, and the offset after each.
Placed(q) ==
    LET at[i \in 1..(Len(q) + 1)] ==
          IF i = 1 THEN recordcursor ELSE at[i - 1] + q[i - 1].length
    IN  at

\* Mutant: the room for the header of the pad is forgotten.
Fitting_NoPadRoom(q) ==
    Cardinality({i \in 1..Len(q) : Placed(q)[i + 1] <= Size})

\* How many of them fit before the end, with room for the header of a pad.
Fitting(q) ==
    Cardinality({i \in 1..Len(q) : Placed(q)[i + 1] + HeaderSize <= Size})

\* _pad_write: the old headers are followed to the first one at or after the
\* end of the new events, and to the one after it if the pad would be too
\* short.  The pad ends there; Size + 1 stands for an exception.
PadEnd(end) ==
    LET beyond == {o \in Chain(erb, recordcursor) : o >= end}
        first  == Least(beyond)
    IN  IF beyond = {} THEN Size + 1
        ELSE IF first - end >= HeaderSize \/ first = Size THEN first
        ELSE IF IsHeader(erb, first) THEN first + HeaderAt(erb, first).length
        ELSE Size + 1

\* Mutant: the range is one short, as with < for <= at its end.
Cleared_NotFirst(index, from, upto) ==
    LET n == Least({i \in 0..Len(index) :
                      \/ i = Len(index)
                      \/ index[i + 1][1] \notin (from + 1)..(upto - 1)})
    IN  SubSeq(index, n + 1, Len(index))

\* _clear_cdorb: entries are dropped from the head while in the range.
Cleared(index, from, upto) ==
    LET n == Least({i \in 0..Len(index) :
                      \/ i = Len(index)
                      \/ index[i + 1][1] \notin from..(upto - 1)})
    IN  SubSeq(index, n + 1, Len(index))

\* The index after n events and the pad behind them, which ends at end.
Indexed(n, end) ==
    LET at == Placed(write_q)
        after[i \in 0..(n + 1)] ==
          IF i = 0 THEN cdorb
          ELSE LET rest == Cleared(after[i - 1], at[i],
                                   IF i = n + 1 THEN end ELSE at[i + 1])
               IN  IF i <= n /\ write_q[i].type = "dump"
                   THEN Append(rest, <<at[i], write_q[i].record>>)
                   ELSE rest
    IN  after[n + 1]

\* The headers of n events and of the pad, by offset.
Headers(n, end) ==
    LET at == Placed(write_q)
        lastOf(i) == IF i = 1 THEN lastrecord ELSE at[i - 1]
    IN  [o \in {at[i] : i \in 1..(n + 1)} |->
            LET i == CHOOSE j \in 1..(n + 1) : at[j] = o
            IN  IF i = n + 1
                THEN Header("pad", 0, end - o, lastOf(i))
                ELSE Header(write_q[i].type, write_q[i].record,
                            write_q[i].length, lastOf(i))]

\* The ring after the cells before upto have been written.
Written(headers, upto) ==
    [c \in Offsets |->
        IF c < recordcursor \/ c >= upto THEN erb[c]
        ELSE IF \E o \in DOMAIN headers : c - o \in 0..(HeaderSize - 1)
        THEN LET o == CHOOSE o \in DOMAIN headers : c - o \in 0..(HeaderSize - 1)
             IN  <<headers[o], c - o>>
        ELSE Body]

\* The pad goes to the end of the ring when events are left over.
EndOfPad(n, end) == IF n < Len(write_q) THEN Size ELSE PadEnd(end)

\* And the next write then begins at the start of the ring.
Wraps(n) == n < Len(write_q)

\* do_volume_init, the run loop and a flush write what is queued.
Up == pc \in {"starting", "idle", "emptying"}

Writing == Up /\ write_q # <<>>

-----------------------------------------------------------------------------
Init ==
    /\ erb = NewVolume
    /\ record = 0
    /\ lastrecord = 0
    /\ recordcursor = 0
    /\ cdorb = <<>>
    /\ write_q = <<>>
    /\ pc = "down"
    /\ torn = FALSE

\* Mutant: an event that is dropped takes a record number too.
QueueWriteEvent_NumbersFirst ==
    /\ pc = "idle"
    /\ record <= MaxRecord
    /\ \E type \in EventTypes :
          \E length \in (IF type = "dump" THEN DumpLengths ELSE SampleLengths) :
             write_q' = IF Len(write_q) < QueueDepth
                        THEN Append(write_q, [type |-> type, record |-> record,
                                              length |-> length])
                        ELSE write_q
    /\ record' = record + 1
    /\ UNCHANGED <<erb, lastrecord, recordcursor, cdorb, pc, torn>>

\* queue_write_event.  Dropped when the queue is full, without a number.
\* Bound: record numbers stop at MaxRecord.
QueueWriteEvent ==
    /\ pc = "idle"
    /\ Len(write_q) < QueueDepth
    /\ record <= MaxRecord
    /\ \E type \in EventTypes :
          \E length \in (IF type = "dump" THEN DumpLengths ELSE SampleLengths) :
             write_q' = Append(write_q, [type |-> type, record |-> record,
                                         length |-> length])
    /\ record' = record + 1
    /\ UNCHANGED <<erb, lastrecord, recordcursor, cdorb, pc, torn>>

\* Mutant: after a wrap the last event is taken to be at the start.
Advance_LostLast(n, end) ==
    /\ recordcursor' = IF Wraps(n) THEN 0 ELSE end
    /\ lastrecord' = IF Wraps(n) THEN 0
                     ELSE IF n = 0 THEN lastrecord ELSE Placed(write_q)[n]
    /\ write_q' = SubSeq(write_q, n + 1, Len(write_q))
    /\ pc' = IF ~Wraps(n) THEN "idle" ELSE IF pc = "idle" THEN "emptying" ELSE pc

\* Mutant: the cursor stays where the pad begins when the ring wraps.
Advance_NoWrap(n, end) ==
    /\ recordcursor' = end
    /\ lastrecord' = IF n = 0 THEN lastrecord ELSE Placed(write_q)[n]
    /\ write_q' = SubSeq(write_q, n + 1, Len(write_q))
    /\ pc' = IF ~Wraps(n) THEN "idle" ELSE IF pc = "idle" THEN "emptying" ELSE pc

\* The loop goes on with the events left over before another is taken.
Advance(n, end) ==
    /\ recordcursor' = IF Wraps(n) THEN 0 ELSE end
    /\ lastrecord' = IF n = 0 THEN lastrecord ELSE Placed(write_q)[n]
    /\ write_q' = SubSeq(write_q, n + 1, Len(write_q))
    /\ pc' = IF ~Wraps(n) THEN "idle" ELSE IF pc = "idle" THEN "emptying" ELSE pc

EmptyWriteQ ==
    LET n    == Fitting(write_q)
        end  == Placed(write_q)[n + 1]
        stop == EndOfPad(n, end)
    IN  /\ Writing
        /\ stop <= Size
        /\ Advance(n, end)
        /\ erb' = Written(Headers(n, stop), end + HeaderSize)
        /\ cdorb' = Indexed(n, stop)
        /\ UNCHANGED <<record, torn>>

Forget ==
    /\ pc' = "down"
    /\ record' = 0
    /\ lastrecord' = 0
    /\ recordcursor' = 0
    /\ cdorb' = <<>>
    /\ write_q' = <<>>

\* No header where _pad_write looks for one.  The events have left the queue
\* and are in the index; the exception ends the thread, unless it was a
\* flush that asked for the write.
WriteRaises ==
    LET n   == Fitting(write_q)
        end == Placed(write_q)[n + 1]
    IN  /\ Writing
        /\ EndOfPad(n, end) > Size
        /\ cdorb' = Indexed(n, end)
        /\ write_q' = <<>>
        /\ pc' \in {"dead"} \cup (IF pc = "starting" THEN {} ELSE {"idle"})
        /\ UNCHANGED <<erb, record, lastrecord, recordcursor, torn>>

\* The process ends: stopped, killed, or with the device.
Ends == pc # "down" /\ Forget /\ UNCHANGED <<erb, torn>>

\* Or it ends with a part of a write in the file.  A write that raises in the
\* middle of a batch, or an event of it that cannot be generated, leaves the
\* file so too; that the thread is gone while the process goes on until it is
\* started again is not modelled.
EndsTorn ==
    LET n    == Fitting(write_q)
        end  == Placed(write_q)[n + 1]
        stop == EndOfPad(n, end)
    IN  /\ Torn
        /\ Writing
        /\ stop <= Size
        /\ \E upto \in recordcursor..(end + HeaderSize - 1) :
              erb' = Written(Headers(n, stop), upto)
        /\ torn' = TRUE
        /\ Forget

\* do_volume_init with what a scan found: a dump of no channels is queued.
Open(scan) ==
    /\ record' = scan.record + 1
    /\ lastrecord' = scan.last
    /\ recordcursor' = scan.cursor
    /\ cdorb' = scan.cdorb
    /\ write_q' = <<[type |-> "dump", record |-> scan.record,
                     length |-> HeaderSize]>>
    /\ pc' = "starting"

\* The scan reaches the end, or cells that read as "no event".
StartUp ==
    /\ pc = "down"
    /\ Scan(erb, Unscanned).record <= MaxRecord
    /\ Open(Scan(erb, Unscanned))
    /\ UNCHANGED <<erb, torn>>

\* The scan meets cells that read as a bad event: the file is made anew and
\* scanned again, on top of what the first scan left in the fields.
StartUpAnew ==
    /\ pc = "down"
    /\ ScanMayRaise(erb)
    /\ Scan(erb, Unscanned).record <= MaxRecord
    /\ erb' = NewVolume
    /\ Open(Scan(NewVolume, Scan(erb, Unscanned)))
    /\ UNCHANGED torn

Next ==
    \/ QueueWriteEvent \/ EmptyWriteQ \/ WriteRaises
    \/ Ends \/ EndsTorn
    \/ StartUp \/ StartUpAnew

Spec == Init /\ [][Next]_vars

Busy == pc \in {"starting", "emptying"}

Turn ==
    LET n == Fitting(write_q)
    IN  Busy /\ Writing /\ Advance(n, Placed(write_q)[n + 1])

\* The thread goes on with a write it has begun, or fails in it; nothing makes
\* it begin one.  (Turn names the control of EmptyWriteQ; the rest follows.)
FairSpec == Spec /\ WF_<<recordcursor, lastrecord, write_q, pc>>(Turn)
-----------------------------------------------------------------------------
(* Properties.                                                             *)

Events(disk) == {o \in Scanned(disk) : HeaderAt(disk, o).type \in EventTypes}

\* From the cursor round to it, an offset comes before another.
Precedes(cursor, o, p) ==
    IF p < cursor THEN o >= cursor \/ o < p ELSE o >= cursor /\ o < p

\* And no event comes between them.
JustBefore(disk, cursor, o, p) ==
    /\ Precedes(cursor, o, p)
    /\ ~\E q \in Events(disk) : /\ Precedes(cursor, o, q)
                               /\ Precedes(cursor, q, p)

\* Every event but the oldest leads back to the one before it.
Linked(disk, cursor) ==
    \A o, p \in Events(disk) :
        JustBefore(disk, cursor, o, p) => HeaderAt(disk, p).previous = o

Dumps(disk) == {o \in Scanned(disk) : HeaderAt(disk, o).type = "dump"}

\* An index has the dumps and their records, in the order of the ring.
Lists(index, disk, cursor) ==
    /\ \A i, j \in 1..Len(index) :
          i < j => Precedes(cursor, index[i][1], index[j][1])
    /\ {index[i] : i \in 1..Len(index)} =
          {<<o, HeaderAt(disk, o).record>> : o \in Dumps(disk)}

\* The headers lead from the start of the ring to its end, by way of the
\* cursor, and every event but the oldest leads back to the one before it:
\* a scan, a reader or the next pad never meets anything else, whatever was
\* overwritten, across wraps, pads and restarts, wherever the process ended.
ChainIntact ==
    ~torn => /\ ScanReachesEnd(erb)
             /\ pc # "dead"
             /\ Up => recordcursor \in Scanned(erb) /\ Linked(erb, recordcursor)

\* file_logger_storage_manager.py:83-90: the index holds every channel dump
\* that is in the ring, and none that a write has invalidated, oldest first.
IndexExact == ~torn /\ Up => Lists(cdorb, erb, recordcursor)

\* The scan of a restart finds what the thread knew: the next record, the
\* last event, the index, and the cursor (or the pad at the end of the ring
\* that the thread has left behind).
ScanAgrees ==
    LET scan == Scan(erb, Unscanned)
    IN  ~torn /\ Up /\ write_q = <<>> =>
          /\ scan.record = record
          /\ scan.last = lastrecord
          /\ scan.cdorb = cdorb
          /\ scan.cursor = recordcursor

\* The ring implements a journal of the events that a scan would meet.
Kept ==
    LET headers == {HeaderAt(erb, o) : o \in Scanned(erb)}
    IN  {[type |-> h.type, record |-> h.record] :
            h \in {h \in headers : h.type \in EventTypes}}

J == INSTANCE Journal WITH
        kept <- Kept,
        pending <- [i \in 1..Len(write_q) |->
                      [type |-> write_q[i].type, record |-> write_q[i].record]]

\* Events keep consecutive records, are lost only from the old end or from
\* memory, and the last one stored is never lost.
JournalSpec == J!Init /\ [][torn' \/ J!Next]_J!vars

\* A write that is begun ends with an empty queue: the loop does not go round
\* the ring for ever.
WriteEnds == (~torn /\ Busy) ~> ~Busy

\* file_logger_storage_manager.py:886-888: a log that cannot be scanned is
\* deleted and started anew: no logger dies on the log it has just made.
StartsAnew == ~(pc = "dead" /\ erb = NewVolume)
=============================================================================
