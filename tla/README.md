# A TLA+ verification of the Dia gateway

Dia (`src/dia.py`) is a Python 2 program for Digi gateways. Device drivers read
sensors and publish *samples* on named *channels*; presentations, uploads,
filters and loggers consume them. It is one process with many threads, a
scheduler thread, a log on flash, and a lock that keeps a second process out.

This directory holds TLA+ models of the parts whose correctness depends on the
order in which threads, callbacks, crashes and restarts happen, the TLC
configurations that check them, and theorems that TLAPS proves about them.

## 1. Inventory

| Part | Code | State it keeps | Operations | Hard because | Module |
|---|---|---|---|---|---|
| Scheduler | `src/src/common/sched_async.py`, `src/lib/digi_sched.py`, `src/src/core/scheduler.py` | heap of events, condition variable, semaphore, stop flag | schedule_after, cancel, stop, the run loop | three synchronisation objects, actions run without the lock, actions schedule further events | **Scheduler** |
| Channels | `src/src/channels/channel_database.py`, `channel_publisher.py`, `channel.py`, `channel_database_interface.py` | name → channel, name → callbacks, callbacks for new channels, sample of a channel | channel_add, channel_remove, channel_get, set, subscribe, unsubscribe, subscribe_to_new_channels | callbacks are copied under a lock and called outside it; several unlocked tests | **Channels** |
| Logging manager | `src/src/channels/logging/logging_manager.py`, `logging_events.py` | loggers | dispatch of new / sample / remove events | order of a channel's events | Channels |
| Channel consumers | `src/src/common/utils.py`, `simple` and cloud uploads, filters, short messaging | which channels they follow | follow, wild_subscribe, wild_unsubscribe | channels come and go while the list is walked | Channels, without the filters |
| Process lock | `src/src/common/file_locking.py`, `src/dia.py` | socket, library lock or lock file | lock, unlock | races over files, failed attempts, killed processes, reboots | **InstanceLock** |
| File logger storage | `src/src/channels/logging/file_logger/file_logger_storage_manager.py` | event ring on disk, record numbers, write queue, index of channel dumps | queue, write, pad, rotate, scan | wrap-around arithmetic, restarts, writes cut short | **EventRing**, **Journal** |
| File logger threads and reader | `file_logger.py`, `file_logger_channel_dbi.py`, same storage manager | one shared cursor, operation queues, semaphore | next, prev, seek, rewind, flush | the writer laps a reader; events in memory and on disk; requests wait for a callback | **EventReader**; queues not modelled |
| Core and managers | `src/src/core/core_services.py`, `src/src/common/abstract_service_manager.py` and its subclasses | instance maps, instance lists, registered services | epoch, apply settings, instance_new/start/stop/remove, shutdown | main thread, presentations and the auto enumeration change the maps together | **Lifecycle** |
| XBee auto enumeration | `src/src/devices/xbee/xbee_devices/xbee_autoenum.py` | nodes heard of, purgatory | add a discovered device, clean up after a failure | tests and entries are far apart | Lifecycle |
| Settings registry | `src/src/settings/settings_base.py` | running and pending registry, bindings, global lock | merge, verify, accept, apply, globally_apply | a lock held over foreign code | walk and lock in Lifecycle, rest planned |
| Watchdog | `src/src/services/watchdog_service.py` | next check, restart counter | check, stop | stop during a check | planned |
| Device base, properties, filters | `src/src/devices/device_base.py`, `src/src/channels/channel_source_device_property.py`, `src/src/devices/filter_channels` | sample, callbacks, alarm counters | property_set, consumer_set, `_receive` | a lock held while the device is called | adding and setting in Channels and Lifecycle, rest planned |
| XBee device manager | `src/src/devices/xbee/xbee_device_manager` | state of each node, configurations on the scheduler | start, configure, prepare, defer, retry, frames heard, unregister, stop | a configuration cancelled while it runs; workers, frames and timers act on one node | **XBeeManager** |
| Uploads | `src/src/devices/edp_upload.py`, `src/src/presentations/idigi_db` | sample queue, cache on disk, threshold | receive, flush, upload, snapshot, recover, retry | samples taken out of the queue before they are sent; several uploaders share the files | **Upload**, discovery of channels in Channels |
| Presentations, short messaging, single-product drivers, helpers, tools, vendored code | see `PROJECT.json` | | | | as the threads that call the modelled parts, or not at all |

How they interact. `dia.py` takes the process lock, makes `CoreServices`, whose
`epoch` starts the scheduler and then one manager after another; a manager
makes an instance for every entry of its settings and starts it. Devices add
channels through the channel manager's database, which tells the publisher,
which tells the loggers and whoever subscribed to new channels. A set of a
channel goes to its source, then through the publisher to the loggers and then
to the subscribers. Presentations set channels and apply settings from threads
of their own. `_shutdown` asks every manager's instances to stop, then the
scheduler, and waits until only the main thread is left; `dia.py` then unlocks.

What makes each part correct:

* *Scheduler*: an event that was entered runs exactly once, at or after its
  time and in order of time, or is cancelled; the thread never sleeps over a
  queued event; stop ends it.
* *Channels*: a sample that is set while a callback is subscribed reaches it; a
  consumer gets to know every channel; loggers hear of a channel before its
  samples; a channel that was added is published.
* *Process lock*: one instance runs; a start is refused only for a cause; the
  lock comes free again, unless its file could not be removed.
* *File logger*: the ring is a journal that loses only its oldest events, across
  wraps, restarts and index updates; every write ends; a retrieval lands on the
  record it means, and finds what is there.
* *XBee manager*: a node that was started always has somebody to go on with it,
  and in the end runs; two workers do not configure one node; a cancel reaches
  the one event of a node; a stop ends the workers.
* *Uploads*: a sample is in memory, in the cache, in a file, on its way or sent,
  unless its loss has a cause; what was confirmed is not sent again; samples leave
  the memory.
* *Lifecycle*: every configured instance is made; the shutdown asks every thread
  to stop and ends; a device has one instance.

`PROJECT.json` lists every component with its files and status, and the hazards
of the code, each at its line with the properties that cover it.

## 2. Modules

Every module has one action per critical section or per call into other code:
where the code holds a lock, the model takes one step; where it releases the
lock, or never had one, other threads may step in between. History variables
record what a property has to speak of (`fate`, `owed`, `early`, `cut`, `deaf`,
`journal`, `refused`, `unclean`, `leftover`, `robbed`, `torn`, `excused`,
`uncounted`, `missed`, `twice`, `overlap`). They decide nothing,
but that `fate` and `MaxRecord` keep an event and a log from going on for ever.

**Scheduler.** `queue` is the heap with `due` times, `notified` and `wake` the
condition variable and its timed wait, `semaphore` and `stop_flag` those of
`SchedAsync`, `pc` the scheduler thread's place in `run`. `NewEvent`, `EnterAbs`
and `ReleaseSemaphore` are the three steps of a `schedule_after` or `stop` (test
of the flag, entry, release of a token), which an action of an event may also
take on the scheduler thread itself. `DoStop`, `CopyQueue`, `StopCancels` are
the stop event's action, which cancels the events one by one. An action may
raise (`ActionEscapes`), which leaves the loop with its token spent.
The order of the heap is by time and priority; equal entries are ordered by
address in the code and in any order in the model.

**Agenda** is what the scheduler promises its users, who see an event as free,
pending or running: what starts was pending, nothing starts while something
runs, and a cancel that succeeds prevents the start. Scheduler implements it
(ImplementsAgenda), with `AgendaFate` as the refinement mapping; XBeeManager
uses the scheduler as Agenda describes it.

**Channels.** `database` maps names to objects, `attached` says which objects
the publisher listens to, `known` and `listeners` are the keys and the sets of
the subscription dictionary, `pc`, `obj`, `name`, `todo` say where each thread
is in `channel_add`, `channel_remove` or a set, and which callbacks of its copy
it has yet to call. Consumers are of three kinds: `Plain` subscribers of names,
`Followers`, the uploads, that subscribe to new channels and then list the existing
ones, and `Wild` ones that do it the other way round (`wild_subscribe`, of which no
property says that it misses nothing). `Faulty` ones may raise. The filters
(`filter_channel_base.py`) are not among them: their callback may fail to make and
subscribe the filter's channel, tries again every 30 seconds and gives up after the
third time. The loggers are the same all along, so that the list and look-up of
them outside the `try` of `logging_manager.py:84-85` do not raise.
`OnNewSample` begins the dispatch after a sample has been stored; a
sample set before the publisher has attached itself is `OnNewSampleUnheard`.

**InstanceLock.** `kind` is the way the platform locks: a bound socket, a lock of
the Saros library, a file made with `O_EXCL`, or a file tested with `stat` and
then opened. `pc` is the place of each process between its launch and its end;
`lockfile` holds the file's maker and whether it was written. Kills and reboots
may happen at any place, faults at each system call that the code guards, the
removal of the file among them: `unlock()` and the cleanup of a failed attempt go on
as if it had succeeded, and leave a file that refuses every later start
(`leftover`).

**Journal** and **EventRing.** `Journal` is what the storage promises: events get
consecutive record numbers, are kept from some oldest one onwards, and go from
the queue to the disk in order. `EventRing` is the code: `erb` is the file, cell
by cell, with event headers as records; `QueueWriteEvent`, `EmptyWriteQ` (which
places as many events as fit, pads, and may wrap), `StartUp` (the scan of an
existing file) and the ways to end: at any moment, with the last write torn, or
by an exception. A cell is a unit of length; a header takes `HeaderSize` cells.

**EventReader** extends EventRing by the reader: `ret` is the cursor (offset,
record and the direction of the last retrieval), `applied` the event whose state
the logger's database holds. `Seek` is `_seek`: the record that is asked for, the
dump to start from if it is far away or the cursor unknown, the walk over the
events (`SeekOffsetFromCur`), the events in memory (`WriteQSeek`), and the second
attempt after an event that could not be applied. `Retrieve` takes any request
between any two writes; how many events can be applied in each attempt is left
open. `Trail` is the way from header to header, which all of these follow.

**Lifecycle.** `main` and `up` follow `epoch` and `_shutdown`; `at`, `manager`,
`done`, `name`, `copy` follow each thread's walk of a manager's list and the
constructor it is in; `instance[n]` is the copy in the manager's map, `thread`
the state of each copy's thread, `asked` those whose `stop()` was called.
Settings are applied by threads of presentations (`Appliers`) under the global
lock, devices are discovered by `Enum`. A constructor may wait for the settings
lock, be refused its settings, or find that its channels exist; `start()` and
`stop()` may raise; a listing of a map that changes meanwhile may raise.

**XBeeManager.** `state[n]` is the state of a node, `handle[n]` the event it
remembers, `at[t]` the place of each thread that configures a node: a starter for
every node, and the scheduler thread, which starts the events of the nodes
(`fate`) as Agenda lets it. `workers` and `semaphore` are the configurator's list
and its tokens; `queue`, `task` and `wat` say what each worker has and where it is.
`Register` and `Configure` are what a device calls; `Attempt`, `BeginPrepare`,
`GiveWay`, `Elect` and `PrepareSucceeds` the heuristic that prepares the network
for a sleeping node; `Claim`, `Grab`, `Assign` and `Defer` the way to a worker or
back to the scheduler; `Receive` is a frame of a node; `TakeTask` to `Quit` are
the loop of a worker, with the blocks of a configuration applied in order.

**Upload.** `rat[r]` is the place of a thread in `receive`, which counts a sample,
may move the queue to the cache (`Flush`) and may reach the threshold; `at[u]` that
of a thread that uploads, from the taking of queue and cache (`Take`,
`TakeSnapshot`) through `ClearEvent`, `Format`, `Send` and `SaveFile` to the walk
over the files that wait (`SkipFile`, `SendFile`, `RemoveFile`, `KeepRest`).
`files_list` and `file_number` are the list of files, which uploaders share or copy
(`sharing`, `todo`), `disk` is what the files hold and `stats` what was last saved of
the list. Any call of the disk may fail (`MaxFaults`): files are dropped for room
that is not made, a file is emptied and only partly written or stays though it was
to be removed, a cache cannot be read or opened, and the save of the list raises. The
format and the power may fail too; after `PowerFails` the saved list and the cache
are found again. A send that fails (`SendFails`, at no cost of a fault) may have
arrived: the samples are saved and sent again, as the code does. `IntervalPasses`
makes an upload `due`, and every upload ends that, also a snapshot that is not
followed further (`LaterSnapshot`).

The `MC` modules extend these modules for TLC and hold the symmetries, the
definitions that stand for tables of settings, and nothing else. The `Proofs`
modules hold the theorems; `EventReaderProofs` builds on the invariant of
`EventRingProofs`, as EventReader does on EventRing.

## 3. Runs

Ten of the runs pass, and two show a disagreement between the code and what its
comments promise.

| Run | Checks | Bounds | What it shows |
|---|---|---|---|
| sched | TypeOK, NoStrandedEvent, NeverOversleeps, ImplementsAgenda, EventuallyServed, StopEndsThread | two client threads, two events, one stop, delays 0 and 2, two ticks | no event is stranded or run twice, and the thread sleeps past none that is entered while it waits for a later one; one that is queued before a stop is served; a stop ends the thread; every step is a step of Agenda |
| chan_safety | TypeOK, NoLostSample, FollowersMissNothing, NewBeforeSamples, PublishedOnceAdded | two threads, one name with two objects, a plain subscriber, a follower that may raise, a logger | no sample or channel is lost in the windows between critical sections |
| chan_liveness | SampleEventuallyHanded | two threads, one name, two objects, a wild subscriber that may raise, a channel that is not logged | calls come to their end, whatever callbacks do |
| lock | TypeOK, SingleUnlessRobbed, RefusedForCause, LockComesFree | three processes, every kind of lock, all faults, kills, reboots | two instances only after one removed or cut the other's file; no start refused without cause; the lock comes free again unless a process died with it or its file could not be removed |
| ring | ChainIntact, IndexExact, ScanAgrees, JournalSpec, WriteEnds | 12 cells, headers of 2, events of 3 and 4, queue of 3, 7 records | the arithmetic of the ring is right across wraps, pads, rotations and restarts; it implements Journal; writes end |
| reader | ReaderTypeOK, LandsWhereAsked, FoundUnlessWrapped | 10 cells, headers of 2, samples of 2, dumps of 2 and 8, queue of 2, 6 records, steps of -1, 0 and 1 | a retrieval lands on the record it means, finds every record that is not behind the end of the ring, and leaves cursor and database together |
| life | TypeOK, StrayForCause, ConfiguredStays, ShutdownEnds | a logger, an auto enumeration, a device, a discovered device, a presentation thread that applies settings; two copies of a name, lists up to 3 | only threads with a cause are not asked to stop; configured instances are made; the shutdown ends, but for a thread that was not asked to stop and for the two ways in which `_shutdown` raises, after which `dia.py` does not unlock |
| xbee_one | NodeNotForgotten, HandleIsCurrent, ConfiguredInFull, EventuallyRunning, StopEndsWorkers | one node that sleeps and may leave, one worker, two events, two blocks, a stop | a node always has an event, a thread or a worker that goes on with it, and in the end runs with all its blocks |
| xbee_two | WorkersAvailable, SteadyNodeOneWorker | three nodes (one in the skip list), two workers | the pool of workers, a list and a semaphore without a lock, does not run dry; one worker for a node that does not sleep |
| upload | TypeOK, NoSampleAstray, ConfirmedOnce, OverwrittenForCause, MemoryLeaves | a thread that sets channels, two that upload, two samples, two files, a threshold of 2, one fault, sends that fail at will, one snapshot that is followed | samples are lost, sent again once confirmed, or kept in memory only for the causes the properties name |
| ring_torn | StartsAnew is violated | 4 records | the new log that replaces a broken one kills its writer (`file_logger_storage_manager.py:899`) |
| xbee_double | OneWorkerPerNode is violated | one sleeping node, two workers | a deferral takes a node back that a worker already has, and a second worker gets it (`xbee_device_manager.py:1504`) |

Each finding in `PROJECT.json` quotes the line of the code that promises what the
run refutes. Every property of a passing run has a *mutant*, a definition changed
as a plausible slip in that code would change it (its name is that of the
definition and a suffix, as in `RunPop_Kept`), under which TLC finds the
property violated.

### Bounds, and why they are enough

* *Scheduler*: the races are between entering an event, popping one and stopping;
  each needs two callers and the scheduler thread. Two events suffice for an
  order, and an action that schedules takes one of them; with delays of 0 and 2 and
  two ticks an event falls due before, at and after the end of a wait for another.
* *Channels*: names are independent of one another but for the list of channels,
  so that one name and two objects (one replaces the other) show the races of
  two adds, of add and remove, and of add and set. Threads and objects are
  interchangeable, which the symmetry of chan_safety uses; the liveness run has no
  symmetry. Two objects bound how often a name is added between the times when
  nobody refers to the old one: an object is reused once it is unreferenced.
* *InstanceLock*: the third process is needed for a file that one made, a second
  removed and a third made again.
* *EventRing*: 12 cells hold up to three events and the pad behind them, so
  that a wrap overwrites one or two of them, gaps of every length below and
  above a header occur, and 7 records take
  the cursor round the ring more than once. `EventRingAssumption` asks that any
  event fits in the ring; the code does not test that (a hazard).
* *EventReader*: 10 cells hold four short events and the pad, or one long dump and
  the pad, so that up to four dumps are in the ring, the long one overwrites all
  of it, events stay to be read behind a pad, the writer overtakes the cursor, and
  the log is opened again at every such moment, also while its start is in front
  of the end of the ring.
  `HalfIndex` 1 makes both starts of a search, the cursor and a dump, happen.
* *XBeeManager*: the races are between a starter, the scheduler thread, a frame
  and a worker over one node, hence one sleeping node with one and with two
  workers; the pool needs more nodes than workers. Two event names are enough:
  HandleIsCurrent, which is proved, says that a node has one pending event, and
  the other may be running. The attempts of the code are counted as none or
  some.
* *Upload*: two samples make a threshold and one below it, two uploaders the
  races over list and files, one fault each partial failure by itself; sends fail
  as often as they like. One snapshot is followed, to show what it does to the files;
  any number of later ones only start the interval anew.
* *Lifecycle*: two copies of a name are never all in use, so that `MaxCopies` does
  not bind; `MaxList` bounds how often a device is discovered, and one duplicate
  in the list is enough to make a later walk raise.

Deadlock is checked where the program goes on for ever. It is not in the
scheduler and the lifecycle, whose threads end, nor in the XBee manager, whose
workers end, nor in the ring and the uploads, where records and samples run out.

### Fairness

Only what the code schedules is fair, and weakly. A thread that is inside a call
goes on (operating system threads, locks held for a few statements, callbacks
that return or raise); time passes; a running instance is in the end shut down.
Nobody has to call schedule_after, cancel, stop, add, set, subscribe, launch,
write, apply settings or discover a device. In EventRing the thread must go on
with a write it has begun. In Lifecycle a thread that was asked to stop ends
(`ThreadEnds`); one that was not asked need never end, which is why ShutdownEnds
names the strays. Its two other exceptions are not about fairness: `_shutdown` raises
if `epoch` failed before there was a logging manager (`core_services.py:422`), or if
a list of instances is taken while another thread changes it
(`abstract_service_manager.py:249`), and `dia.py` then skips `unlock()`.
In XBeeManager the scheduler starts every
event that stays pending, which EventuallyServed shows of Scheduler; a block or a
preparation that is tried again and again is applied once (strong fairness: the
radio answers now and then, for if it never does no node can run); and two nodes
do not give way to each other for ever, since each is expected only for a time.
Nobody has to start, hear, unregister or stop. In Upload the device's thread takes
the queue as long as its interval is over or the event set, the loop looking at both
every few seconds; calls of the cloud and the disk return. No interval need ever
pass, as there is none by default, and nobody has to set upload_samples or trigger a
snapshot. MemoryLeaves therefore has two parts: samples leave the memory if an
interval passes again and again and snapshots do not start it anew for ever, whatever
else happens; and without an interval they leave it once a threshold is reached,
unless the event is cleared by an upload that took the queue before (`missed`).

## 4. Proofs

TLAPS proves these for every value of the constants that the modules' assumptions
allow (finite sets of callers and events, disjoint kinds of consumers, values
that stand for "none" outside their sets); TLC evaluates the assumptions. Two of
them are there for a proof alone: that `NoFile` is no set of samples (Upload), and
that `Boot` lists managers and the auto enumeration is a device (Lifecycle), as
`CoreServices.epoch` and the settings have it.

* `SchedulerProofs`: **TypeCorrect**, and **NothingStranded**, that the thread
  does not block with an event queued and no token there or coming.
  NoStrandedEvent is not inductive: it says nothing of a thread in its loop. The
  invariant is `TypeOK /\ Control /\ TokenAccounting`: every queued event and the
  one that runs are paid for by a token, a release to come, or the token the
  loop took. `Control` ties `current` to the place of the thread. The step is one
  case per action, with cardinalities from lemmas on adding and taking an event.
  **SchedulerImplementsAgenda** is the step simulation of the refinement, one
  case per action, over the type invariant and `Control`. **SleepsNoLonger**
  (NeverOversleeps): while the thread is in its timed wait and not notified, the end
  of the wait is no later than any queued event.
* `ChannelsProofs`: **TypeCorrect**, **NoSampleLost**, **LoggersHearInOrder**,
  **ConnectedOnceAdded** (PublishedOnceAdded) and **FollowersHaveAll**
  (FollowersMissNothing, of the uploads).
  `Frames` says what each thread refers to and iterates
  over; `Owing` strengthens NoLostSample: for an owed pair that is not excused
  some thread has yet to copy the listeners or has the callback in its copy, *and*
  the callback is still subscribed, so that a later copy will contain it.
  `Journals` says at which places the loggers have been told, and that every
  attached channel was introduced. The last two theorems speak of a moment when
  no `channel_add` of a name is under way, so neither is inductive. `Connected`
  says that a channel that exists is attached or in the hand of a thread that is
  about to announce or attach it;
  `Following` says of every channel and follower that the follower has it, still
  has to walk to it, is in the copy some thread has yet to call, or will be in one.
* `InstanceLockProofs`: **TypeCorrect**, **OneInstance** (SingleUnlessRobbed) and
  **OneInstanceOnSafePlatforms**: with a socket, a library lock, or an `O_EXCL` file
  whose creation fails only because it exists, at most one process is past
  `lock()` (MutualExclusion); elsewhere a cleanup or a race may rob the owner of
  its file. The invariant says
  that each process is `Protected` (the lock or file it relies on is its own)
  until one is robbed, and on the safe platforms none is. **RefusedOnlyForCause**
  (RefusedForCause, of the steps) needs another: a lock file is one that a process
  has open, or was left by one that died or could not remove it (`Accounted`).
* `XBeeManagerProofs`: **TypeCorrect** (with it the run need not check TypeOK),
  **HandleCurrent** and **NoNodeForgotten**. NodeNotForgotten speaks of a waiting
  or an active node; the invariant adds what each place of a starter or of the
  scheduler thread means for the node it has in hand, that a queue and a task
  belong to a worker at the right place, and that pending events of a node are
  the one it remembers. For any number of nodes, workers and event names.
  On top of it come **WorkerForEveryToken** (WorkersAvailable) from
  `PoolInv`: tokens, those taken and those still to be given back together are no
  more than the list has workers, and a worker of the list has an empty queue;
  **RunningInFull** (ConfiguredInFull) from `BlocksInv`: who is about to promote
  a node has all its blocks; **SteadyOneWorker** (SteadyNodeOneWorker) from
  `SteadyInv`: a node that does not sleep is in one pair of hands, a thread's, a
  queue's or a worker's, and while it is, its state and its events keep others
  off. With a node that sleeps the deferral breaks this (run xbee_double).
* `UploadProofs`: **OverwrittenOnlyForCause** (OverwrittenForCause): a flush writes
  the cache anew over samples only after a threshold, a restart or an upload that
  could not take the cache has set the count to zero. The invariant relates the count
  to the samples in memory and in the cache, also of a flush that writes a part of
  them. **TypeCorrect** includes that no list names a file twice.
  **ConfirmedNotSentAgain** (ConfirmedOnce) from `OnceInv`: until two uploaders meet,
  the samples in the queue, in the cache, in the hands of uploaders and in the files
  that are `Pending` are apart, and none of them was confirmed. Pending are the files
  left of a walk, or those listed when there is none; a file that was sent and could
  not be removed, or was dropped and is still there, is not.
  **NoSampleLost** (NoSampleAstray) from `KeptInv`: what is left of a walk has every
  file that is listed, but those whose samples were sent or lost with a message; once
  two uploaders have met, the list is of no use, and a sample is still in some file.
  `Reception`, `Saving` and `Spoiling` sum up what a call of `receive`, a save and a
  save that fails do to the samples and the files.
* `LifecycleProofs`: **TypeCorrect**, **StrayOnlyForCause** (StrayForCause) and
  **ConfiguredInstancesStay** (ConfiguredStays), for any managers, lists and
  number of threads that apply settings. `Accounted` and `Listing` follow an
  instance from the map of its manager to the list `_shutdown` makes of it and to
  its `stop()`; `Booted` follows `epoch`, manager by manager and entry by entry,
  while discoveries append to the list that is walked. `Origins` is needed
  because an instance of a manager that is not yet registered would be missed.
  A step of a caller is summed up once (`Moves`, `Carries`, `Settles`).

* `EventRingProofs`: **ChainStaysIntact** (ChainIntact) and
  **RingImplementsJournal** (JournalSpec), for rings, headers and events of any
  size, until a write is cut short. The chain of headers and the places of a batch
  are recursive functions, and what they compute is known by induction only. The
  theorems of the library for that take an operator, so a proof by the least (or
  greatest) number at which a claim fails takes their place (`LeastExists`,
  `GreatestExists`, `NoneFails`). `ChainWritten` is the heart: the cursor and the
  end of the pad are both on the old chain, so that a write replaces what lies
  between them by a chain of its own. Neither property is inductive. `RingInv`
  adds that record numbers go up without a gap from the cursor round to it, that
  an event leads back to the one numbered before it, that the newest ends at the
  cursor or the cursor is at the start, and what numbers are queued; of a log
  that is closed, that there is such a cursor, which the scan finds
  (`ScanFinds`).
  **IndexStaysExact** (IndexExact) and **RestartFindsAll** (ScanAgrees) rest on
  `IndexInv` beside it: an index in the order of the ring that has the ring's
  dumps is unique (`SortedOnce`), clearing a range of it or turning it changes
  where its order begins and what it has in the way the write does
  (`ClearedShifts`, `IndexTurns`, `RotatedShifts`), and the scan meets the dumps in
  the order of their offsets (`MetListed`). That the scan turns the index rightly
  needs a pad behind the newest event: at a cursor where a dump begins it would
  not.
* `EventReaderProofs`: **RetrievalsLand** (LandsWhereAsked), **RecordsFound**
  (FoundUnlessWrapped) and **ReaderKeepsTypes** (ReaderTypeOK), for rings and events
  of any size, any frequency of the index and any offsets, where no write is cut
  short (`Torn` is FALSE, which EventReader assumes). Neither of the first
  two is about a step: each says what every possible retrieval would do, and
  follows from `ReaderInv`, which is `RingInv`, `IndexInv`, the ranges of the
  cursor, and `TraceInv`. The latter is what the ring's own invariant does not
  say: what reads as an event but is none of the ring's any more. A pad covers
  the beginning of what is to be overwritten; behind it whole events stay. They
  are older than all events of the ring and lie behind all of them (`LeftBehind`),
  so that from header to header the record goes up (or down) by one or reading
  ends (`RunsUp`, `RunsDown`), and a walk counts records (`TrailCounts`). What it
  can reach is the converse (`TrailUp`, `TrailDown`): events that follow each
  other in the ring, up to the pad where it begins again. The rest is the choice
  of the dump (`ClosestTaken`) and the records of the queue, which go on where the
  file ends (`MemorySought`).

Only model-checked:

* Liveness, whose rules need ENABLED and fairness, in every module.
* The two disagreements, which are counterexamples.

## 5. What is left out

* Data: the value of a sample, the text of messages, the format of files and of
  settings. A channel's sample is the question whom it must still reach.
* In modelled parts: the priority of scheduler events beyond its effect on order,
  `dump` and the iteration over channels for display, serializers and saving of
  settings, the wait for the network in `epoch`, Ctrl-C while Dia starts, which
  shuts down and leaves the main thread waiting, the `nospin.txt` slow-down, the
  name database and the operation queues of the file logger; in XBeeManager the
  radio callbacks of drivers, single-parameter requests and their semaphore,
  `update_skiplist`, the branch of a heuristic that is not ready, and the clock of
  `last_heard_from`, whose every outcome is allowed instead; in Upload the format
  and the size limits of messages, `upload_control`, a cache file that is none, and
  the `compatibility` format in whose text `_read_last_bytes` finds no sample, so that
  what was cached is dropped (`edp_upload.py:219`); in Channels the filters and
  loggers that are added or removed while Dia runs; in EventRing an exception in the
  middle of a batch other than a write cut short, which ends the thread with part of
  the batch written; in Lifecycle a second interrupt while `_shutdown` runs.
* Behaviour that the models contain and no property judges, as nothing in the code
  promises otherwise: samples that Device Cloud gets twice because a send that arrived
  was taken for a failed one (`edp_upload.py:1174-1190`), callbacks called after
  unsubscribe, samples of removed
  channels, channels added while wild_unsubscribe walks its list, an instance
  whose start() raised and is never started again, a flush that swallows the
  exception of a torn log, a reader that the writer has overtaken and that goes
  on from what is there now, `log_next` that ends at the pad where the ring
  begins again although the log goes on, `log_rewind` that goes to an event left
  behind that pad, until the start of the ring is written again.
* Disagreements between code and comments that need no run to be seen: an event
  entered while the scheduler is stopped runs after it (`sched_async.py:92`
  against 117); a sample set before the publisher attached itself reaches nobody
  (`channel_publisher.py:300`); a second add of a name may replace the first without
  the exception that `channel_database_interface.py:30` announces; wild_subscribe
  lists before it subscribes (`utils.py:198`); the cleanup of a failed `os.open`
  removes the lock of the
  running instance (`file_locking.py:380` against 495); a configured device heard
  of before its instance is made gets a second one (`xbee_autoenum.py:561`); with
  a snapshot_interval below the interval, which `edp_upload.py:394` calls the
  maximum, samples are never sent (`edp_upload.py:760`). The models contain all of
  these; the properties name them as causes.
* Whole parts: see the components with status `not_modelled`, each with its reason.

## 6. Plan

Done: Scheduler with Agenda, Channels, InstanceLock, EventRing with Journal and
EventReader, Lifecycle, XBeeManager, Upload, from the innermost part outwards.
Next:

1. `Propagation` (locks of linked properties), `Settings` (registries and merge),
   `Watchdog` over Agenda, and the alarm with hysteresis as a pure function
   against its definition by runs of readings.
2. The operation queues of the file logger: a request is answered unless the
   thread has stopped, and then by nobody.
