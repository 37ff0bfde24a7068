------------------------------- MODULE Upload -------------------------------
(***************************************************************************)
(* How samples get to Device Cloud: devices/edp_upload.py.                 *)
(*                                                                         *)
(* Threads that set channels call receive(), which queues the sample in    *)
(* memory and now and then moves the queue to a cache file.  Uploaders,    *)
(* the device's own thread and those that set upload_samples or trigger a  *)
(* snapshot, take queue and cache and send them; what cannot be sent       *)
(* becomes a file, and files are sent after a later success.  One lock     *)
(* guards the queue, the count and the cache; nothing guards the rest.     *)
(*                                                                         *)
(* Uploading is enabled throughout.  A sample is a number, all of them of  *)
(* the same length.  Any call of the disk may fail, and a write that fails *)
(* leaves some of the samples written; a send fails when no good answer    *)
(* comes back, whether or not Device Cloud got the samples.                *)
(***************************************************************************)
EXTENDS Naturals, Sequences, FiniteSets, SequencesExt

CONSTANTS Receivers,   \* the threads that set channels
          Uploader,    \* the device's own thread
          Others,      \* the other threads that upload
          MaxSample,   \* bound: how many samples there are
          Threshold,   \* the setting sample_threshold
          MemoryLimit, \* how many samples MAX_SIZE stands for
          UploadLimit, \* how many samples MAX_UPLOAD_SIZE stands for
          FileCount,   \* the setting file_count
          MaxRecover,  \* MAX_RECOVER
          MaxSnapshots, \* bound: how many snapshots are followed
          MaxFaults,   \* bound: failures of the disk, the format, the power
          NoFile       \* in place of a file that does not exist

ASSUME UploadAssumption ==
    /\ Uploader \notin Others
    /\ MaxSample \in Nat \ {0}
    /\ {Threshold, MaxSnapshots, MaxFaults} \subseteq Nat
    /\ {MemoryLimit, UploadLimit, FileCount, MaxRecover} \subseteq Nat \ {0}
    /\ MemoryLimit <= UploadLimit
    /\ \A samples \in SUBSET (1..MaxSample) : samples # NoFile

Samples   == 1..MaxSample
Names     == 0..(FileCount - 1)
Uploaders == Others \cup {Uploader}

VARIABLES
    last,        \* the last sample that was received
    rat,         \* where each receiver is
    queue,       \* __upload_queue
    count,       \* __sample_count
    threshold_event,
    due,         \* there is an interval, and it has passed without an upload
    snapshots,   \* how many snapshots were followed so far
    cache,       \* the samples in the cache file
    at,          \* where each uploader is in __upload_data
    batch,       \* the samples each uploader is about to send
    name,        \* the file name each of them uses, 0 when it has none
    files_list,  \* the names of the files that are still to be sent
    file_number,
    todo,        \* what each uploader has yet to do of files_list
    sharing,     \* the uploaders whose todo is files_list, not a copy of it
    recovered,   \* how many files each has sent of its todo
    disk,        \* the samples in each file
    stats,       \* files_list and file_number as they were last saved
    sent,        \* the samples that Device Cloud has confirmed
    faults,      \* failures so far
    excused,     \* history: samples lost with a message, by the power, or
                 \* with the cache file (see OverwrittenForCause)
    uncounted,   \* history: the count does not tell of all the cache holds
    missed,      \* history: the event was cleared, though a threshold was
                 \* reached since the queue was taken, or lost with the power
    twice,       \* history: a sample was sent again once confirmed
    overlap      \* history: two uploaders met, or the power failed

memoryVars  == <<queue, count, cache, uncounted>>
eventVars   == <<threshold_event, missed>>
timeVars    == <<due, snapshots>>
uploadVars  == <<batch, name>>
fileVars    == <<files_list, file_number, disk>>
recoverVars == <<todo, sharing, recovered>>
sentVars    == <<sent, twice>>
vars == <<last, rat, memoryVars, eventVars, timeVars, at, uploadVars, fileVars,
          recoverVars, stats, sentVars, faults, excused, overlap>>

TypeOK ==
    /\ last \in 0..MaxSample
    /\ rat \in [Receivers -> {"idle", "test", "reset", "set"}]
    /\ {queue, cache, sent, excused} \subseteq SUBSET Samples
    /\ count \in 0..MaxSample
    /\ {threshold_event, missed, due} \subseteq BOOLEAN
    /\ {uncounted, twice, overlap} \subseteq BOOLEAN
    /\ at \in [Uploaders -> {"idle", "clear", "format", "number", "send",
                             "save", "stored", "delivered", "recover",
                             "remove"}]
    /\ batch \in [Uploaders -> SUBSET Samples]
    /\ name \in [Uploaders -> Names]
    /\ file_number \in Names
    /\ \A files \in {files_list, stats[1]} \cup Range(todo) :
          files \in Seq(Names) /\ IsInjective(files)
    /\ sharing \in SUBSET Uploaders
    /\ recovered \in [Uploaders -> 0..MaxRecover]
    /\ disk \in [Names -> (SUBSET Samples) \cup {NoFile}]
    /\ snapshots \in 0..MaxSnapshots
    /\ faults \in 0..MaxFaults

\* The cache file and the saved statistics of an earlier process are not in
\* the first state; PowerFails makes them.
Init ==
    /\ last = 0
    /\ rat = [r \in Receivers |-> "idle"]
    /\ queue = {} /\ count = 0 /\ cache = {}
    /\ threshold_event = FALSE /\ missed = FALSE
    /\ due = FALSE /\ snapshots = 0
    /\ at = [u \in Uploaders |-> "idle"]
    /\ batch = [u \in Uploaders |-> {}]
    /\ name = [u \in Uploaders |-> 0]
    /\ files_list = <<>> /\ file_number = 0
    /\ todo = [u \in Uploaders |-> <<>>]
    /\ sharing = {}
    /\ recovered = [u \in Uploaders |-> 0]
    /\ disk = [n \in Names |-> NoFile]
    /\ stats = <<<<>>, 0>>
    /\ sent = {} /\ faults = 0
    /\ excused = {} /\ twice = FALSE
    /\ uncounted = FALSE /\ overlap = FALSE

-----------------------------------------------------------------------------
(* Files.                                                                  *)

Content(n) == IF disk[n] = NoFile THEN {} ELSE disk[n]

Fault == faults < MaxFaults /\ faults' = faults + 1

\* _save_failed_data: while the disk is full the oldest of the files that
\* wait are taken off the list, "dropped" of them, and removed, those of
\* "gone" successfully; more than none of it is a fault.
Dropped(dropped) == {files_list[i] : i \in 1..dropped}

DropFiles(dropped) ==
    /\ files_list' = SubSeq(files_list, dropped + 1, Len(files_list))
    /\ sharing' = IF dropped > 0 THEN {} ELSE sharing

Without(gone) == [n \in Names |-> IF n \in gone THEN NoFile ELSE disk[n]]

SamplesDropped(dropped) == UNION {Content(n) : n \in Dropped(dropped)}

-----------------------------------------------------------------------------
(* The threads that set channels.                                          *)

\* Mutant: the cache is written anew whatever is in it.
Flush_Anew(held, counted) ==
    \E dropped \in 0..Len(files_list) :
       /\ DropFiles(dropped)
       /\ disk' = Without(Dropped(dropped))
       /\ IF dropped = 0 THEN UNCHANGED faults ELSE Fault
       /\ cache' = held
       /\ excused' = excused \cup SamplesDropped(dropped) \cup cache

\* _sync_to_disk: the file is appended to, unless the queue is all that was
\* counted.  A failure loses what is not written: before the file is opened
\* (the text cannot be put together, there is no room), or after it.
Flush(held, counted) ==
    LET anew == counted = Cardinality(held) IN
    \E dropped \in 0..Len(files_list) :
    \E gone \in SUBSET Dropped(dropped), written \in SUBSET held :
       /\ DropFiles(dropped)
       /\ disk' = Without(gone)
       /\ IF dropped = 0 /\ written = held THEN UNCHANGED faults ELSE Fault
       /\ \/ /\ cache' = written \cup (IF anew THEN {} ELSE cache)
             /\ excused' = excused \cup SamplesDropped(dropped)
                               \cup (held \ written)
                               \cup (IF anew THEN cache ELSE {})
          \/ /\ written = {}
             /\ cache' = cache
             /\ excused' = excused \cup SamplesDropped(dropped) \cup held

\* receive, under the lock: the sample is queued, and the queue flushed when
\* it is full or has not been for some time.
Receive(r) ==
    LET held == queue \cup {last + 1} IN
    /\ rat[r] = "idle"
    /\ last < MaxSample
    /\ last' = last + 1
    /\ count' = count + 1
    /\ rat' = [rat EXCEPT ![r] = IF Threshold > 0 THEN "test" ELSE "idle"]
    /\ \/ /\ Cardinality(held) <= MemoryLimit
          /\ queue' = held
          /\ UNCHANGED <<files_list, disk, sharing, cache, excused, faults>>
       \/ /\ Flush(held, count + 1)
          /\ queue' = {}
    /\ UNCHANGED <<uncounted, eventVars, timeVars, at, uploadVars, file_number,
                   todo, recovered, stats, sentVars, overlap>>

\* receive, after the lock.
TestCount(r) ==
    /\ rat[r] = "test"
    /\ rat' = [rat EXCEPT ![r] = IF count >= Threshold THEN "reset"
                                                       ELSE "idle"]
    /\ UNCHANGED <<last, memoryVars, eventVars, timeVars, at, uploadVars,
                   fileVars, recoverVars, stats, sentVars, faults, excused,
                   overlap>>

ResetCount(r) ==
    /\ rat[r] = "reset"
    /\ count' = 0
    /\ uncounted' = TRUE
    /\ rat' = [rat EXCEPT ![r] = "set"]
    /\ UNCHANGED <<last, queue, cache, eventVars, timeVars, at, uploadVars,
                   fileVars, recoverVars, stats, sentVars, faults, excused,
                   overlap>>

SetEvent(r) ==
    /\ rat[r] = "set"
    /\ threshold_event' = TRUE
    /\ rat' = [rat EXCEPT ![r] = "idle"]
    /\ UNCHANGED <<last, memoryVars, missed, timeVars, at, uploadVars,
                   fileVars, recoverVars, stats, sentVars, faults, excused,
                   overlap>>

-----------------------------------------------------------------------------
(* __upload_data.                                                          *)

\* run: no upload has succeeded or failed for an interval.  This need not
\* happen: by default there is no interval.
IntervalPasses ==
    /\ ~due
    /\ due' = TRUE
    /\ UNCHANGED <<last, rat, memoryVars, eventVars, snapshots, at, uploadVars,
                   fileVars, recoverVars, stats, sentVars, faults, excused,
                   overlap>>

Goto(u, where) == at' = [at EXCEPT ![u] = where]

Meets(u) == overlap' = (overlap \/ \E v \in Uploaders \ {u} : at[v] # "idle")

\* _merge_cache: the samples "kept" are merged, "rest" stays in the file.  Of
\* a large cache the last samples only are merged.  If the file cannot be
\* opened, the cleanup raises as well and the file stays; if it cannot be
\* read or removed, nothing is merged and the file is removed or stays.
Merged(kept, rest) ==
    \/ /\ Cardinality(kept) + Cardinality(queue) <= UploadLimit
       /\ kept = cache \/ Cardinality(kept) + Cardinality(queue) = UploadLimit
       /\ rest = {}
       /\ UNCHANGED faults
    \/ /\ cache # {}
       /\ kept = {} /\ rest \in {{}, cache}
       /\ Fault

\* The queue and the cache are taken under the lock: by the device's thread
\* after an interval or when the threshold is reached (MAX_SLEEP passes), by
\* another when it sets upload_samples.
Take(u) ==
    /\ at[u] = "idle"
    /\ due \/ threshold_event \/ u \in Others
    /\ \E kept \in SUBSET cache, rest \in SUBSET cache :
          /\ Merged(kept, rest)
          /\ batch' = [batch EXCEPT ![u] = queue \cup kept]
          /\ cache' = rest
          /\ uncounted' = (rest # {})
          /\ excused' = excused \cup (cache \ (kept \cup rest))
    /\ queue' = {}
    /\ count' = 0
    /\ missed' = FALSE
    /\ due' = (due /\ u # Uploader)
    /\ Goto(u, "clear")
    /\ Meets(u)
    /\ UNCHANGED <<last, rat, threshold_event, snapshots, name, fileVars,
                   recoverVars, stats, sentVars>>

\* A snapshot has samples of its own, which are not counted here.
TakeSnapshot(u) ==
    /\ at[u] = "idle"
    /\ snapshots < MaxSnapshots
    /\ snapshots' = snapshots + 1
    /\ Goto(u, "format")
    /\ Meets(u)
    /\ UNCHANGED <<last, rat, memoryVars, eventVars, due, uploadVars,
                   fileVars, recoverVars, stats, sentVars, faults, excused>>

\* There is no end of snapshots.  Those beyond the bound are not followed:
\* they start the interval anew, which is all they do to the samples here.
LaterSnapshot ==
    /\ snapshots = MaxSnapshots
    /\ due
    /\ due' = FALSE
    /\ UNCHANGED <<last, rat, memoryVars, eventVars, snapshots, at,
                   uploadVars, fileVars, recoverVars, stats, sentVars, faults,
                   excused, overlap>>

\* Mutant: whoever finds nothing to send waits for something.
ClearEvent_Waits(u) ==
    /\ at[u] = "clear"
    /\ batch[u] # {}
    /\ threshold_event' = FALSE
    /\ missed' = (missed \/ (threshold_event /\ uncounted))
    /\ Goto(u, "format")
    /\ UNCHANGED <<last, rat, memoryVars, timeVars, uploadVars, fileVars,
                   recoverVars, stats, sentVars, faults, excused, overlap>>

\* The event is cleared after the lock was released, and is missed if a
\* threshold was reached meanwhile or the cache could not be taken.
ClearEvent(u) ==
    /\ at[u] = "clear"
    /\ threshold_event' = FALSE
    /\ missed' = (missed \/ (threshold_event /\ uncounted))
    /\ Goto(u, IF batch[u] = {} THEN "idle" ELSE "format")
    /\ UNCHANGED <<last, rat, memoryVars, timeVars, uploadVars, fileVars,
                   recoverVars, stats, sentVars, faults, excused, overlap>>

\* The text is put together and _get_current_filename called, or an
\* exception leaves with the samples.
Format(u) ==
    /\ at[u] = "format"
    /\ name' = [name EXCEPT ![u] = file_number]
    /\ Goto(u, "number")
    /\ UNCHANGED <<last, rat, memoryVars, eventVars, timeVars, batch, fileVars,
                   recoverVars, stats, sentVars, faults, excused, overlap>>

FormatFails(u) ==
    /\ at[u] = "format"
    /\ Fault
    /\ excused' = excused \cup batch[u]
    /\ batch' = [batch EXCEPT ![u] = {}]
    /\ Goto(u, "idle")
    /\ UNCHANGED <<last, rat, memoryVars, eventVars, timeVars, name, fileVars,
                   recoverVars, stats, sentVars, overlap>>

\* Mutant: the number of the next file goes on for ever.
NextNumber_Unbounded(u) ==
    /\ at[u] = "number"
    /\ file_number' = file_number + 1
    /\ Goto(u, "send")
    /\ UNCHANGED <<last, rat, memoryVars, eventVars, timeVars, uploadVars,
                   files_list, disk, recoverVars, stats, sentVars, faults,
                   excused, overlap>>

NextNumber(u) ==
    /\ at[u] = "number"
    /\ file_number' = (file_number + 1) % FileCount
    /\ Goto(u, "send")
    /\ UNCHANGED <<last, rat, memoryVars, eventVars, timeVars, uploadVars,
                   files_list, disk, recoverVars, stats, sentVars, faults,
                   excused, overlap>>

\* __send_to_idigi says that the samples were sent, or that they were not:
\* the send raised or had no good answer, and Device Cloud may have them all
\* the same.  Either starts the interval anew.
Send(u) ==
    /\ at[u] = "send"
    /\ sent' = sent \cup batch[u]
    /\ twice' = (twice \/ sent \cap batch[u] # {})
    /\ batch' = [batch EXCEPT ![u] = {}]
    /\ name' = [name EXCEPT ![u] = 0]
    /\ due' = FALSE
    /\ Goto(u, "delivered")
    /\ UNCHANGED <<last, rat, memoryVars, eventVars, snapshots, fileVars,
                   recoverVars, stats, faults, excused, overlap>>

SendFails(u) ==
    /\ at[u] = "send"
    /\ twice' = (twice \/ sent \cap batch[u] # {})
    /\ due' = FALSE
    /\ Goto(u, "save")
    /\ UNCHANGED <<last, rat, memoryVars, eventVars, snapshots, uploadVars,
                   fileVars, recoverVars, stats, sent, faults, excused,
                   overlap>>

\* _save_failed_data: room is made, the file written in place of an older
\* one of that name, and listed, on the list that others may be walking.
SaveFile(u) ==
    /\ at[u] = "save"
    /\ \E dropped \in 0..Len(files_list) :
       \E gone \in SUBSET Dropped(dropped) :
       LET kept == SubSeq(files_list, dropped + 1, Len(files_list))
           new  == IF name[u] \in Range(kept) THEN <<>> ELSE <<name[u]>> IN
          /\ IF dropped > 0 THEN Fault /\ sharing' = {}
                            ELSE UNCHANGED <<faults, sharing>>
          /\ files_list' = kept \o new
          /\ todo' = [v \in Uploaders |-> IF v \in sharing /\ dropped = 0
                                          THEN todo[v] \o new ELSE todo[v]]
          /\ disk' = [Without(gone) EXCEPT ![name[u]] = batch[u]]
          /\ excused' = excused \cup SamplesDropped(dropped)
                                \cup (Content(name[u]) \ batch[u])
    /\ batch' = [batch EXCEPT ![u] = {}]
    /\ name' = [name EXCEPT ![u] = 0]
    /\ Goto(u, "stored")
    /\ UNCHANGED <<last, rat, memoryVars, eventVars, timeVars,
                   file_number, recovered, stats, sentVars, overlap>>

\* Or the data is gone for ever, with what was dropped: no room was made or
\* the file not opened, which may raise; or it was opened, which empties an
\* older one of the name, and not all of it written.
SaveFails(u) ==
    /\ at[u] = "save"
    /\ Fault
    /\ \E dropped \in 0..Len(files_list) :
       \E gone \in SUBSET Dropped(dropped), written \in SUBSET batch[u] :
          /\ DropFiles(dropped)
          /\ \/ /\ written = {}
                /\ disk' = Without(gone)
                /\ excused' = excused \cup SamplesDropped(dropped)
                                      \cup batch[u]
                /\ Goto(u, "stored") \/ Goto(u, "idle")
             \/ /\ disk' = [Without(gone) EXCEPT ![name[u]] = written]
                /\ excused' = excused \cup SamplesDropped(dropped)
                                      \cup batch[u] \cup Content(name[u])
                /\ Goto(u, "stored")
    /\ batch' = [batch EXCEPT ![u] = {}]
    /\ name' = [name EXCEPT ![u] = 0]
    /\ UNCHANGED <<last, rat, memoryVars, eventVars, timeVars,
                   file_number, todo, recovered, stats, sentVars, overlap>>

\* StatsFile.save: the file is written anew, or left as it was or empty.
SaveOf(files) ==
    \/ stats' = <<files, file_number>> /\ UNCHANGED faults
    \/ stats' \in {stats, <<<<>>, 0>>} /\ Fault

\* The statistics are saved; after a success old files are sent, unless the
\* save raised.
SaveStats(u) ==
    /\ at[u] \in {"stored", "delivered"}
    /\ SaveOf(files_list)
    /\ IF at[u] = "delivered" /\ files_list # <<>> /\ faults' = faults
       THEN /\ todo' = [todo EXCEPT ![u] = files_list]
            /\ sharing' = sharing \cup {u}
            /\ Goto(u, "recover")
       ELSE Goto(u, "idle") /\ UNCHANGED <<todo, sharing>>
    /\ UNCHANGED <<last, recovered, rat, memoryVars, eventVars, timeVars,
                   uploadVars,
                   fileVars, sentVars, excused, overlap>>

-----------------------------------------------------------------------------
(* _upload_old_data.                                                       *)

MoreToRecover(u) ==
    at[u] = "recover" /\ recovered[u] < MaxRecover /\ todo[u] # <<>>

\* todo = todo[1:] makes a copy.
Advance(u) ==
    /\ todo' = [todo EXCEPT ![u] = Tail(@)]
    /\ sharing' = sharing \ {u}

\* A file that is not there is passed over; so is one that cannot be read,
\* which is removed if it can be.
SkipFile(u) ==
    /\ MoreToRecover(u)
    /\ LET n == Head(todo[u]) IN
          \/ disk[n] = NoFile /\ UNCHANGED <<disk, excused, faults>>
          \/ /\ disk[n] # NoFile
             /\ Fault
             /\ disk' \in {disk, [disk EXCEPT ![n] = NoFile]}
             /\ excused' = excused \cup Content(n)
    /\ Advance(u)
    /\ UNCHANGED <<last, rat, memoryVars, eventVars, timeVars, at, uploadVars,
                   files_list, file_number, recovered, stats, sentVars,
                   overlap>>

SendFile(u) ==
    /\ MoreToRecover(u)
    /\ LET n == Head(todo[u]) IN
          /\ disk[n] # NoFile
          /\ sent' = sent \cup Content(n)
          /\ twice' = (twice \/ sent \cap Content(n) # {})
          /\ name' = [name EXCEPT ![u] = n]
    /\ due' = FALSE
    /\ Advance(u)
    /\ Goto(u, "remove")
    /\ UNCHANGED <<last, rat, memoryVars, eventVars, snapshots, batch,
                   fileVars, recovered, stats, faults, excused, overlap>>

\* Mutant: the file stays where it is, and on the list.
RemoveFile_Kept(u) ==
    /\ at[u] = "remove"
    /\ recovered' = [recovered EXCEPT ![u] = @ + 1]
    /\ name' = [name EXCEPT ![u] = 0]
    /\ todo' = [todo EXCEPT ![u] = <<name[u]>> \o @]
    /\ Goto(u, "recover")
    /\ UNCHANGED <<last, rat, memoryVars, eventVars, timeVars, batch,
                   fileVars, sharing, stats, sentVars, faults, excused,
                   overlap>>

\* A file that was sent is removed, or stays, on no list.
RemoveFile(u) ==
    /\ at[u] = "remove"
    /\ \/ /\ disk' = [disk EXCEPT ![name[u]] = NoFile]
          /\ excused' = IF overlap THEN excused \cup (Content(name[u]) \ sent)
                                   ELSE excused
          /\ UNCHANGED faults
       \/ Fault /\ UNCHANGED <<disk, excused>>
    /\ recovered' = [recovered EXCEPT ![u] = @ + 1]
    /\ name' = [name EXCEPT ![u] = 0]
    /\ Goto(u, "recover")
    /\ UNCHANGED <<last, rat, memoryVars, eventVars, timeVars, batch,
                   files_list, file_number, todo, sharing, stats, sentVars,
                   overlap>>

\* Mutant: a file that could not be sent is passed over.
KeepRest_Skips(u) ==
    /\ at[u] = "recover"
    /\ LET rest == IF todo[u] = <<>> THEN <<>> ELSE Tail(todo[u]) IN
          files_list' = rest /\ stats' = <<rest, file_number>>
    /\ sharing' = {}
    /\ todo' = [todo EXCEPT ![u] = <<>>]
    /\ recovered' = [recovered EXCEPT ![u] = 0]
    /\ Goto(u, "idle")
    /\ UNCHANGED <<last, rat, memoryVars, eventVars, timeVars, uploadVars,
                   file_number, disk, sentVars, faults, excused,
                   overlap>>

\* All is done, or enough, or a file could not be sent: what is left becomes
\* the list, whatever was listed meanwhile, and is saved.
KeepRest(u) ==
    /\ at[u] = "recover"
    /\ IF MoreToRecover(u)
       THEN LET n == Head(todo[u]) IN
            /\ disk[n] # NoFile
            /\ twice' = (twice \/ sent \cap Content(n) # {})
            /\ due' = FALSE
       ELSE UNCHANGED <<twice, due>>
    /\ files_list' = todo[u]
    /\ sharing' = IF u \in sharing THEN sharing \ {u} ELSE {}
    /\ SaveOf(todo[u])
    /\ todo' = [todo EXCEPT ![u] = <<>>]
    /\ recovered' = [recovered EXCEPT ![u] = 0]
    /\ Goto(u, "idle")
    /\ UNCHANGED <<last, rat, memoryVars, eventVars, snapshots, uploadVars,
                   file_number, disk, sent, excused, overlap>>

-----------------------------------------------------------------------------
\* The power fails and Dia starts again.  The statistics are written anew at
\* every save, and read as if they were new when the save was cut short.
PowerFails ==
    /\ Fault
    /\ \E saved \in {stats, <<<<>>, 0>>} :
          /\ \/ saved = stats
             \/ \E u \in Uploaders :
                   at[u] \in {"stored", "delivered", "recover"}
          /\ files_list' = saved[1] /\ file_number' = saved[2]
          /\ stats' = saved
    /\ excused' = excused \cup queue \cup UNION Range(batch)
    /\ queue' = {} /\ count' = 0 /\ uncounted' = TRUE
    /\ threshold_event' = FALSE /\ missed' = TRUE /\ due' = FALSE
    /\ rat' = [r \in Receivers |-> "idle"]
    /\ at' = [u \in Uploaders |-> "idle"]
    /\ batch' = [u \in Uploaders |-> {}]
    /\ name' = [u \in Uploaders |-> 0]
    /\ todo' = [u \in Uploaders |-> <<>>]
    /\ sharing' = {}
    /\ recovered' = [u \in Uploaders |-> 0]
    /\ overlap' = TRUE
    /\ UNCHANGED <<last, snapshots, cache, disk, sentVars>>

Step(u) ==
    \/ ClearEvent(u) \/ Format(u) \/ FormatFails(u)
    \/ NextNumber(u) \/ Send(u) \/ SendFails(u)
    \/ SaveFile(u) \/ SaveFails(u) \/ SaveStats(u)
    \/ SkipFile(u) \/ SendFile(u) \/ RemoveFile(u) \/ KeepRest(u)

Next ==
    \/ \E r \in Receivers : \/ Receive(r) \/ TestCount(r)
                            \/ ResetCount(r) \/ SetEvent(r)
    \/ IntervalPasses \/ LaterSnapshot
    \/ \E u \in Uploaders : Take(u) \/ TakeSnapshot(u) \/ Step(u)
    \/ PowerFails

Spec == Init /\ [][Next]_vars

\* A thread that is inside receive or __upload_data goes on: calls of the
\* cloud and of the disk return.  In its loop the device's thread finds that
\* the interval is over or the event set, as long as it is so.
FairSpec ==
    /\ Spec
    /\ WF_vars(Take(Uploader))
    /\ \A r \in Receivers : WF_vars(ResetCount(r) \/ SetEvent(r))
    /\ \A u \in Uploaders : WF_vars(Step(u))

-----------------------------------------------------------------------------
(* Properties.                                                             *)

InList(files) == UNION {Content(n) : n \in Range(files)}

\* Every sample that was received is in memory, in the cache, in the hands of
\* an uploader, in a file that is listed or was sent, unless it was lost in
\* one of the ways the code knows of: a failure of the disk, of the format or
\* of the power, a cache that is too large or overwritten (see below), a file
\* number that comes round.  Files may be forgotten once two uploaders have
\* met, or the power has failed.
NoSampleAstray ==
    1..last \subseteq
        queue \cup cache \cup (UNION Range(batch)) \cup sent \cup excused
        \cup InList(files_list) \cup (UNION {InList(f) : f \in Range(todo)})
        \cup (IF overlap THEN UNION {Content(n) : n \in Names} ELSE {})

\* The cache file is overwritten only after a threshold was reached, or after
\* a restart, or after an upload that could not take it, and before the next
\* upload (edp_upload.py:697 has it that to set the count to zero "really
\* doesn't matter").
OverwrittenForCause ==
    [][cache \subseteq cache' \/ count' = 0 \/ uncounted]_vars

\* What Device Cloud has confirmed is not sent again, unless two uploaders
\* have met or the power has failed: not from a file that could not be
\* removed either.  (What it has not confirmed is saved and sent again,
\* whether or not it got there.)
ConfirmedOnce == twice => overlap

Memory == queue \cup cache

\* No sample stays in memory and cache for ever: it leaves them if an interval
\* passes again and again, whatever thresholds are missed, unless snapshots
\* are uploaded again and again, as any upload starts the interval anew
\* (edp_upload.py:760).  And without an interval a threshold that is reached
\* is answered, unless the event is cleared by an upload that took the queue
\* before.
MemoryLeaves ==
    /\ \/ <>[]~due
       \/ []<><<LaterSnapshot>>_vars
       \/ Memory # {} ~> Memory = {}
    /\ \A r \in Receivers : rat[r] = "reset" ~> (Memory = {} \/ missed)
=============================================================================
