---------------------------- MODULE EventReader ----------------------------
(***************************************************************************)
(* Reading a file logger's log: the retrievals of FileLoggerStorageManager *)
(* (file_logger_storage_manager.py) on the ring of EventRing.              *)
(*                                                                         *)
(* Consoles, RCI and XML-RPC call log_next(), log_prev(), log_rewind() and *)
(* log_seek().  All of them move one cursor, between the writes that the   *)
(* same thread does, which may overwrite the event the cursor is at.  An   *)
(* event that is read is applied to the channels of the logger's database; *)
(* an event other than a dump may raise there (a sample of a channel that  *)
(* the database does not have): how many can be applied is left open.      *)
(*                                                                         *)
(* No write is cut short (Torn is FALSE).                                  *)
(***************************************************************************)
EXTENDS EventRing

CONSTANTS HalfIndex,  \* sample_index_frequency // 2
          Steps       \* bound: the offsets that are asked for

ASSUME EventReaderAssumption ==
    /\ ~Torn
    /\ HalfIndex \in Nat
    /\ Steps \subseteq Int

VARIABLES
    ready,    \* do_volume_init has returned
    ret,      \* __ret_off, __ret_record and __ret_last_prev
    applied   \* the record of the event last applied to the database

readerVars == <<ready, ret, applied>>

None == -1

NotRead == [off |-> None, record |-> None, way |-> "none"]

ReaderTypeOK ==
    /\ TypeOK
    /\ ready \in BOOLEAN
    /\ ret.off \in {None} \cup Offsets
    /\ {ret.record, applied} \subseteq None..MaxRecord
    /\ ret.way \in {"none", "forward", "back"}

-----------------------------------------------------------------------------
(* Following the events.                                                   *)

\* Mutant: an event before is looked for where the ring leads to.
Beyond_Forward(o, header, back) ==
    IF o + header.length >= Size THEN 0 ELSE o + header.length

\* __next_offset and __prev_offset
Beyond(o, header, back) ==
    IF back THEN header.previous
    ELSE IF o + header.length >= Size THEN 0
    ELSE o + header.length

\* __finished_chk_forward and __finished_chk_reverse: a pad ends it, and so
\* does a record on the wrong side of the one before.
Finished(before, header, back) ==
    \/ header.type = "pad"
    \/ /\ before # None
       /\ IF back THEN before <= header.record ELSE before >= header.record

Halts(before, header, back) ==
    header = NoHeader \/ Finished(before, header, back)

\* The offsets of the events that are met from an offset on, itself the 0-th;
\* None once there is no further one.
Trail(from, back, hops) ==
    LET met(before, o) ==
          IF Halts(before, HeaderAt(erb, o), back) THEN None ELSE o
        trail[i \in 0..hops] ==
          IF i = 0 THEN met(None, from)
          ELSE LET o == trail[i - 1] IN
               IF o = None THEN None
               ELSE LET header == HeaderAt(erb, o)
                    IN  met(header.record, Beyond(o, header, back))
    IN  trail

\* Following the events stops at the latest when each was met.
Hops == Size

\* The record to which the events lead from an entry of the index.
Followed(entry, back) ==
    LET trail == Trail(entry[1], back, Hops)
        met   == {i \in 0..Hops : trail[i] # None}
    IN  IF met = {} THEN entry[2] ELSE HeaderAt(erb, trail[Most(met)]).record

SeekEarliestRec == Followed(Head(cdorb), TRUE)

SeekLatestRec == IF write_q # <<>> THEN write_q[Len(write_q)].record
                                   ELSE Followed(cdorb[Len(cdorb)], FALSE)

\* Mutant: the dump before the closest one is taken, off by one.
ClosestCdo_OneBack(rec, again) ==
    LET S == {i \in 1..Len(cdorb) : cdorb[i][2] < rec}
    IN  IF S = {} THEN Head(cdorb) ELSE cdorb[Most(S)]

\* __closest_cdo_to: the last dump up to the record, or the first of all; in
\* a second attempt the last one before the record.
ClosestCdo(rec, again) ==
    LET S == {i \in 1..Len(cdorb) :
                 IF again THEN cdorb[i][2] < rec ELSE cdorb[i][2] <= rec}
    IN  IF S = {} THEN Head(cdorb) ELSE cdorb[Most(S)]

Way(offset) == IF offset < 0 THEN "back" ELSE "forward"

\* A reader is where it reads and what it has applied.  __seek_offset_from_cur
\* takes it some events further; "sound" is how many events can be applied
\* before one raises.  The first event is passed over if it was applied when
\* the reader came to it, in the same direction.
SeekOffsetFromCur(reader, offset, sound) ==
    LET back      == offset < 0
        hops      == IF back THEN -offset ELSE offset
        trail     == Trail(reader.ret.off, back, hops)
        header(i) == HeaderAt(erb, trail[i])
        first     == IF reader.ret.way = Way(offset) THEN 1 ELSE 0
        raises(i) == i >= first + sound /\ header(i).type # "dump"
        bars      == {i \in 0..hops : trail[i] = None \/ raises(i)}
        n         == IF bars = {} THEN hops ELSE Least(bars) - 1
    IN  [reader  |-> IF n < 0 THEN reader
                     ELSE [ret     |-> [reader.ret EXCEPT
                                          !.off = trail[n],
                                          !.record = header(n).record],
                           applied |-> IF n < first THEN reader.applied
                                       ELSE header(n).record],
         outcome |-> IF bars = {} THEN "done"
                     ELSE IF trail[n + 1] = None THEN "NoEvent"
                     ELSE "raised"]

-----------------------------------------------------------------------------
(* _seek.                                                                  *)

\* Step 1: the record that is asked for, unless that raises.
HasTarget(reader, whence, offset) ==
    CASE whence = "SET" -> offset >= 0 /\ cdorb # <<>>
      [] whence = "CUR" -> reader.ret.record # None
      [] whence = "END" -> offset <= 0 /\ (write_q # <<>> \/ cdorb # <<>>)
      [] whence = "REC" -> TRUE

Target(reader, whence, offset, rec) ==
    offset + CASE whence = "SET" -> SeekEarliestRec
               [] whence = "CUR" -> reader.ret.record
               [] whence = "END" -> SeekLatestRec
               [] whence = "REC" -> rec

\* Step 2: a dump is needed if the record is far away.
Distance(m, n) == IF m < n THEN n - m ELSE m - n

NeedsDump(reader, target, again) ==
    \/ None \in {reader.ret.off, reader.ret.record}
    \/ Distance(target, reader.ret.record) > HalfIndex
    \/ again

\* Step 3: the dump is applied.
AtDump(cdo) ==
    [ret |-> [off |-> cdo[1], record |-> cdo[2], way |-> "none"],
     applied |-> cdo[2]]

InMemory(target) ==
    /\ write_q # <<>>
    /\ target \in write_q[1].record..write_q[Len(write_q)].record

\* __write_q_seek: the events in memory are applied up to the record; the
\* cursor is no longer in the file.
WriteQSeek(reader, way, target, sound) ==
    LET upto  == target - write_q[1].record + 1
        bad   == {i \in (sound + 1)..upto : write_q[i].type # "dump"}
        n     == IF bad = {} THEN upto ELSE Least(bad) - 1
        last  == write_q[n].record
        moved == IF n = 0 THEN [reader EXCEPT !.ret.off = None]
                 ELSE [ret     |-> [reader.ret EXCEPT !.off = None,
                                                      !.record = last],
                       applied |-> last]
    IN  IF bad = {}
        THEN [reader |-> [moved EXCEPT !.ret.way = way], outcome |-> "done"]
        ELSE [reader |-> moved, outcome |-> "failed"]

\* Step 5: a record that is not found in the file is looked for in memory.
AfterWalk(walk, whence, offset, target, sound) ==
    IF walk.outcome = "NoEvent" /\ whence # "SET" /\ InMemory(target)
    THEN WriteQSeek(walk.reader, Way(offset), target, sound)
    ELSE IF walk.outcome = "done"
    THEN [reader  |-> [walk.reader EXCEPT !.ret.way = Way(offset)],
          outcome |-> "done"]
    ELSE [reader |-> walk.reader, outcome |->
            IF walk.outcome = "raised" THEN "raised" ELSE "failed"]

\* Steps 2 to 5, once the record that is asked for is known.
Attempt(reader, whence, offset, target, again, sound) ==
    LET needs == NeedsDump(reader, target, again)
        from  == IF needs THEN AtDump(ClosestCdo(target, again)) ELSE reader
    IN  IF needs /\ cdorb = <<>>
        THEN [reader |-> reader, outcome |-> "failed"]
        ELSE AfterWalk(
               SeekOffsetFromCur(from, target - from.ret.record, sound),
               whence, offset, target, sound)

\* Every event can be applied, in one attempt and in both.
AllSound == MaxRecord + 1
Flawless == <<AllSound, AllSound>>

\* An event that cannot be applied is tried once more, from an earlier dump;
\* "sound" has how many events can be applied in each attempt.
Again(reader, whence, offset, target, sound) ==
    Attempt(reader, whence, offset, Target(reader, whence, offset, target),
            TRUE, sound)

Seek(whence, offset, rec, sound) ==
    LET reader == [ret |-> ret, applied |-> applied]
        target == Target(reader, whence, offset, rec)
        one    == Attempt(reader, whence, offset, target, FALSE, sound[1])
    IN  IF ~HasTarget(reader, whence, offset)
        THEN [reader |-> reader, outcome |-> "failed"]
        ELSE IF one.outcome = "raised"
        THEN Again(one.reader, whence, offset, target, sound[2])
        ELSE one

-----------------------------------------------------------------------------
\* Each attempt may fail at its first event or at a later one.
Sounds == {Flawless, <<0, AllSound>>, <<1, AllSound>>, <<0, 1>>}

ReaderInit ==
    /\ Init
    /\ ready = FALSE
    /\ ret = NotRead
    /\ applied = None

\* The thread takes an event or writes, between two retrievals.
Write ==
    /\ pc = "idle" => ready
    /\ QueueWriteEvent \/ EmptyWriteQ
    /\ UNCHANGED readerVars

OpenLog == StartUp /\ UNCHANGED readerVars

\* _dbi_initialize, the end of do_volume_init: the database is set to the
\* earliest event, or the cursor to where the next write begins.
DbiInitialize ==
    /\ pc = "idle"
    /\ ~ready
    /\ ready' = TRUE
    /\ \E sound \in Sounds :
          LET s == Seek("SET", 0, None, sound) IN
             /\ ret' = IF s.outcome = "done" THEN s.reader.ret
                       ELSE [s.reader.ret EXCEPT !.off = recordcursor]
             /\ applied' = s.reader.applied
    /\ UNCHANGED vars

Reading == pc = "idle" /\ ready

\* What log_next (CUR 1), log_prev (CUR -1), log_rewind (SET 0) and log_seek
\* may ask for.
Requests ==
    [whence : {"SET", "CUR", "END"}, offset : Steps, rec : {None}]
    \cup [whence : {"REC"}, offset : {0}, rec : 0..MaxRecord]

\* do_retrieve_next, do_retrieve_prev and do_retrieve_seek.
Retrieve ==
    /\ Reading
    /\ \E q \in Requests, sound \in Sounds :
          LET s == Seek(q.whence, q.offset, q.rec, sound) IN
             /\ ret' = s.reader.ret
             /\ applied' = s.reader.applied
    /\ UNCHANGED <<ready, vars>>

Close ==
    /\ Ends
    /\ ready' = FALSE
    /\ ret' = NotRead
    /\ applied' = None

ReaderNext == Write \/ OpenLog \/ DbiInitialize \/ Retrieve \/ Close

ReaderSpec == ReaderInit /\ [][ReaderNext]_<<vars, readerVars>>
-----------------------------------------------------------------------------
(* Properties.                                                             *)

IsEvent(o) == HeaderAt(erb, o).type \in EventTypes

\* The writer has come round and taken the place of the event that the
\* cursor was at; or it had, and the next retrieval moved the cursor without
\* the database.
Overtaken ==
    \/ applied # ret.record
    \/ /\ None \notin {ret.off, ret.record}
       /\ ~(IsEvent(ret.off) /\ HeaderAt(erb, ret.off).record = ret.record)

\* The events of the ring, and the offsets of all that read as one: an event
\* that a pad was put over stays there to be read until it is overwritten.
Stored   == {o \in Scanned(erb) : IsEvent(o)}
Readable == {o \in Offsets : IsEvent(o)}

RecordAt(o) == HeaderAt(erb, o).record

\* The events that have a later one before them in the file: the ring has
\* begun again between the two.
BeforeTheWrap(o) == {p \in Readable : p > o /\ RecordAt(p) < RecordAt(o)}

Oldest == Least({RecordAt(o) : o \in Stored})

\* The record a request means: counted from the oldest event of the ring,
\* from the cursor, or from the newest event.
Meant(q) ==
    q.offset + CASE q.whence = "SET" -> Oldest
                 [] q.whence = "CUR" -> ret.record
                 [] q.whence = "END" -> record - 1
                 [] q.whence = "REC" -> q.rec

\* The oldest event is looked for as far as events lead back to another.
\* Between the pad of a wrap and the first write at the start of the ring the
\* oldest one leads back to an event behind that pad; if the process ends
\* there, it does until the ring wraps again.
StartInSight ==
    \A o \in Stored : RecordAt(o) = Oldest =>
        Halts(Oldest, HeaderAt(erb, HeaderAt(erb, o).previous), TRUE)

\* The newest event is looked for from the last dump on, and not beyond the
\* end of the ring.
EndInSight ==
    write_q # <<>> \/ cdorb[Len(cdorb)][1] \notin BeforeTheWrap(lastrecord)

\* _seek: a retrieval that succeeds leaves the cursor at the record that was
\* asked for, wherever the cursor was (in the file, in memory, nowhere) and
\* whatever was written, wrapped or restarted meanwhile; and one that fails
\* or is tried again leaves it at the event whose state the database holds.
\* The exceptions: the writer has overtaken the cursor; an event could not
\* be applied at first (the second attempt counts from where the first one
\* stopped); the end of the log is behind the end of the ring, or its start in
\* front of it.
LandsWhereAsked ==
    Reading /\ ~Overtaken =>
        \A q \in Requests, sound \in Sounds :
            LET s == Seek(q.whence, q.offset, q.rec, sound)
            IN  /\ s.reader.applied = s.reader.ret.record
                /\ /\ s.outcome = "done"
                   /\ sound = Flawless
                   /\ q.whence = "SET" => StartInSight
                   /\ q.whence = "END" => EndInSight
                   => s.reader.ret.record = Meant(q)

\* Where reading towards a record may begin: the cursor, or the last dump
\* up to the record.
Beginnings(o) ==
    LET dumps == {p \in Stored : /\ HeaderAt(erb, p).type = "dump"
                                 /\ RecordAt(p) <= RecordAt(o)}
    IN  {ret.off} \cup {p \in dumps :
                           \A d \in dumps : RecordAt(d) <= RecordAt(p)}

\* _seek by LOG_SEEK_REC finds every record that is in memory or in the
\* file, from every cursor that was not overtaken, as long as a dump is left
\* in the file.  The exception: reading forward ends at the pad where the
\* ring begins again, so a record behind it is out of reach from before it.
FoundUnlessWrapped ==
    Reading /\ ~Overtaken /\ cdorb # <<>> =>
        LET inReach(o) == Beginnings(o) \cap BeforeTheWrap(o) = {}
        IN  \A r \in {RecordAt(o) : o \in {o \in Stored : inReach(o)}}
                     \cup {write_q[i].record : i \in 1..Len(write_q)} :
                Seek("REC", 0, r, Flawless).outcome = "done"
=============================================================================
