---------------------------- MODULE XBeeManager ----------------------------
(***************************************************************************)
(* How the XBee device manager configures its nodes:                       *)
(* devices/xbee/xbee_device_manager/xbee_device_manager.py with            *)
(* xbee_device_manager_configurator.py and xbee_device_state.py.           *)
(*                                                                         *)
(* The threads are: for each node the thread that starts its device (the   *)
(* main thread, or the one of the auto enumeration); the core scheduler's  *)
(* thread, which runs the configurations that were scheduled; the workers  *)
(* of the configurator, which talk to the nodes; and the manager's own     *)
(* thread, which receives frames.                                          *)
(*                                                                         *)
(* A section of the code under the manager's lock is one step.  A node     *)
(* here is one XBeeDeviceState: a device that registers again has a new    *)
(* one, hence is another node.                                             *)
(***************************************************************************)
EXTENDS Naturals, FiniteSets

CONSTANTS Nodes,       \* the devices' state objects, and their starters
          Sleepy,      \* the nodes with a sleep period to configure
          SkipList,    \* the nodes in the skip_config_addr_list setting
          Workers,     \* the worker threads of the configurator
          Scheduler,   \* the thread of the core scheduler
          Slots,       \* names for the events of a node
          Blocks,      \* how many configuration blocks a node has
          MayLeave,    \* bound: the nodes that may be unregistered
          MayStop,     \* bound: whether the manager may be stopped
          None         \* "nothing"

\* An event of the scheduler: its node, what it calls, and a name.
Calls   == {"heuristic", "configure"}
Entries == Nodes \X Calls \X Slots

ASSUME XBeeAssumption ==
    /\ Sleepy \subseteq Nodes
    /\ SkipList \subseteq Nodes
    /\ Scheduler \notin Nodes
    /\ None \notin Nodes \cup Entries
    /\ IsFiniteSet(Workers) /\ Workers # {}
    /\ Blocks \in Nat \ {0}
    /\ MayLeave \subseteq Nodes
    /\ MayStop \in BOOLEAN

Threads == Nodes \cup {Scheduler}

VARIABLES
    ready,       \* __state is STATE_READY
    stopped,     \* stop() was called on the manager
    registered,  \* the nodes in __xbee_device_states
    state,       \* the state of each node
    attempts,    \* __config_attempts, as far as it is looked at: 0, or more
    handle,      \* __config_sched_handle
    complete,    \* the configuration blocks of each node that are complete
    at,          \* where each thread is in the configuration of a node
    fate,        \* the events of the scheduler, see Agenda
    semaphore,   \* __worker_semaphore
    workers,     \* the list __workers of free workers
    queue,       \* the queue of each worker, of length 1
    wat,         \* where each worker is
    task         \* the node each worker works on

nodeVars   == <<registered, state, attempts, handle, complete>>
poolVars   == <<semaphore, workers, queue>>
workerVars == <<wat, task>>
vars == <<ready, stopped, nodeVars, at, fate, poolVars, workerVars>>

Agenda == INSTANCE Agenda

TypeOK ==
    /\ ready \in BOOLEAN
    /\ stopped \in BOOLEAN
    /\ registered \in SUBSET Nodes
    /\ state \in [Nodes -> {"initializing", "scheduled", "immediate",
                            "active", "running"}]
    /\ attempts \in [Nodes -> 0..1]
    /\ handle \in [Nodes -> Entries \cup {None}]
    /\ complete \in [Nodes -> SUBSET (1..Blocks)]
    /\ at \in [Threads -> {"idle", "created", "heuristic", "prepare", "defer",
                           "configure", "grab", "pop", "return", "returned"}]
    /\ Agenda!TypeOK
    /\ semaphore \in Nat
    /\ workers \in SUBSET Workers
    /\ queue \in [Workers -> Nodes \cup {None}]
    /\ wat \in [Workers -> {"get", "apply", "append", "release", "check",
                            "defer", "promote", "ended"}]
    /\ task \in [Workers -> Nodes \cup {None}]

Init ==
    /\ ready = FALSE
    /\ stopped = FALSE
    /\ registered = {}
    /\ state = [n \in Nodes |-> "initializing"]
    /\ attempts = [n \in Nodes |-> 0]
    /\ handle = [n \in Nodes |-> None]
    /\ complete = [n \in Nodes |-> {}]
    /\ at = [t \in Threads |-> "idle"]
    /\ Agenda!Init
    /\ semaphore = Cardinality(Workers)
    /\ workers = Workers
    /\ queue = [w \in Workers |-> None]
    /\ wat = [w \in Workers |-> "get"]
    /\ task = [w \in Workers |-> None]

-----------------------------------------------------------------------------
(* Helpers.                                                                *)

EventsOf(n) == {n} \X Calls \X Slots

\* Thread t is in the configuration of node n: its starter, or the scheduler
\* thread while it runs an event of n.
On(t, n) ==
    IF t = Scheduler THEN \E e \in EventsOf(n) : fate[e] = "running"
                     ELSE t = n

\* Mutant: the previous event is not cancelled.
Reschedule_NoCancel(n, what) ==
    \E e \in {n} \X {what} \X Slots :
        /\ Agenda!Enter(e)
        /\ handle' = [handle EXCEPT ![n] = e]

\* The event the node remembers is cancelled, whatever comes of that, and
\* another is entered and remembered in its place.
Reschedule(n, what) ==
    \E e \in {n} \X {what} \X Slots :
        /\ Agenda!Replace(handle[n], e)
        /\ handle' = [handle EXCEPT ![n] = e]

\* _xbee_device_configuration_defer, under the lock.
Defer(n) ==
    /\ state' = [state EXCEPT ![n] = "scheduled"]
    /\ Reschedule(n, "heuristic")
    /\ UNCHANGED <<registered, attempts, complete>>

\* goto_running; the drivers' callbacks are not modelled.
GotoRunning(n) ==
    /\ state' = [state EXCEPT ![n] = "running"]
    /\ attempts' = [attempts EXCEPT ![n] = 0]
    /\ UNCHANGED <<registered, handle, complete>>

Goto(t, where) == at' = [at EXCEPT ![t] = where]

\* The call is over: the starter returns to its device, the scheduler thread
\* finishes its event.
Return(t, n) ==
    IF t = Scheduler
    THEN Goto(t, "idle") /\ \E e \in EventsOf(n) : Agenda!Finish(e)
    ELSE Goto(t, "returned") /\ UNCHANGED fate

-----------------------------------------------------------------------------
(* The devices' starters.                                                  *)

\* xbee_device_register waits until the manager is ready.
Register(n) ==
    /\ at[n] = "idle"
    /\ ready
    /\ registered' = registered \cup {n}
    /\ Goto(n, "created")
    /\ UNCHANGED <<ready, stopped, state, attempts, handle, complete,
                   fate, poolVars, workerVars>>

\* xbee_device_configure of a node that is in the skip list.
SkipConfigure(n) ==
    /\ at[n] = "created"
    /\ n \in SkipList
    /\ GotoRunning(n)
    /\ Goto(n, "returned")
    /\ UNCHANGED <<ready, stopped, fate, poolVars, workerVars>>

\* xbee_device_configure of another node: its starter goes on, with no lock,
\* into the heuristic.
Configure(n) ==
    /\ at[n] = "created"
    /\ n \notin SkipList
    /\ state' = [state EXCEPT ![n] = "scheduled"]
    /\ Goto(n, "heuristic")
    /\ UNCHANGED <<ready, stopped, registered, attempts, handle,
                   complete, fate, poolVars, workerVars>>

\* xbee_device_unregister forgets the node, and leaves alone its event, the
\* thread that runs it, and the worker that has the node.
Unregister(n) ==
    /\ n \in MayLeave
    /\ at[n] = "returned"
    /\ n \in registered
    /\ registered' = registered \ {n}
    /\ UNCHANGED <<ready, stopped, state, attempts, handle, complete,
                   at, fate, poolVars, workerVars>>

-----------------------------------------------------------------------------
(* The configuration of node n on thread t.                                *)

\* The scheduler takes an event of n.  The node goes on remembering it, but
\* to cancel it fails from now on and changes nothing: that is the same as to
\* remember none.
StartEvent(n) ==
    /\ \E what \in Calls, s \in Slots :
          /\ Agenda!Start(<<n, what, s>>)
          /\ Goto(Scheduler, what)
          /\ handle' = [handle EXCEPT ![n] = IF @ = <<n, what, s>>
                                             THEN None ELSE @]
    /\ UNCHANGED <<ready, stopped, registered, state, attempts, complete,
                   poolVars, workerVars>>

\* _xbee_device_configuration_heuristic counts an attempt and then: a node
\* that does not sleep is configured at once;
Attempt(t, n) ==
    /\ at[t] = "heuristic" /\ On(t, n)
    /\ n \notin Sleepy
    /\ attempts' = [attempts EXCEPT ![n] = 1]
    /\ Goto(t, "configure")
    /\ UNCHANGED <<ready, stopped, registered, state, handle, complete,
                   fate, poolVars, workerVars>>

\* the first time, the network is prepared for the node's sleep;
BeginPrepare(t, n) ==
    /\ at[t] = "heuristic" /\ On(t, n)
    /\ n \in Sleepy
    /\ attempts[n] = 0
    /\ attempts' = [attempts EXCEPT ![n] = 1]
    /\ Goto(t, "prepare")
    /\ UNCHANGED <<ready, stopped, registered, state, handle, complete,
                   fate, poolVars, workerVars>>

\* later, the node gives way to a scheduled node, itself perhaps, that is
\* expected soon (when it was heard last is not modelled),
GiveWay(t, n) ==
    /\ at[t] = "heuristic" /\ On(t, n)
    /\ n \in Sleepy
    /\ attempts[n] > 0
    /\ \E m \in registered : state[m] = "scheduled"
    /\ attempts' = [attempts EXCEPT ![n] = 1]
    /\ Goto(t, "defer")
    /\ UNCHANGED <<ready, stopped, registered, state, handle, complete,
                   fate, poolVars, workerVars>>

\* or is configured all the same.
Elect(t, n) ==
    /\ at[t] = "heuristic" /\ On(t, n)
    /\ n \in Sleepy
    /\ attempts[n] > 0
    /\ attempts' = [attempts EXCEPT ![n] = 1]
    /\ Goto(t, "configure")
    /\ UNCHANGED <<ready, stopped, registered, state, handle, complete,
                   fate, poolVars, workerVars>>

\* Mutant: the attempts are set back whatever became of the preparation.
PrepareSucceeds_Resets(t) ==
    /\ at[t] = "prepare"
    /\ attempts' = [n \in Nodes |-> IF On(t, n) THEN 0 ELSE attempts[n]]
    /\ Goto(t, "defer")
    /\ UNCHANGED <<ready, stopped, registered, state, handle, complete, fate,
                   poolVars, workerVars>>

\* The preparation talks to the network and takes its time.  When it fails it
\* is to be done again.
PrepareSucceeds(t) ==
    /\ at[t] = "prepare"
    /\ Goto(t, "defer")
    /\ UNCHANGED <<ready, stopped, nodeVars, fate, poolVars, workerVars>>

PrepareFails(t, n) ==
    /\ at[t] = "prepare" /\ On(t, n)
    /\ attempts' = [attempts EXCEPT ![n] = 0]
    /\ Goto(t, "defer")
    /\ UNCHANGED <<ready, stopped, registered, state, handle, complete,
                   fate, poolVars, workerVars>>

DeferConfiguration(t, n) ==
    /\ at[t] = "defer" /\ On(t, n)
    /\ Defer(n)
    /\ Goto(t, IF t = Scheduler THEN "return" ELSE "returned")
    /\ UNCHANGED <<ready, stopped, poolVars, workerVars>>

\* Mutant: the node is not marked active while a worker is sought.
Claim_Unmarked(t, n) ==
    /\ at[t] = "configure" /\ On(t, n)
    /\ attempts' = [attempts EXCEPT ![n] = 1]
    /\ IF state[n] = "active"
       THEN Return(t, n)
       ELSE Goto(t, "grab") /\ UNCHANGED fate
    /\ UNCHANGED <<ready, stopped, registered, state, handle, complete,
                   poolVars, workerVars>>

\* The first half of XBeeDeviceManagerConfigurator.configure, under the lock.
Claim(t, n) ==
    /\ at[t] = "configure" /\ On(t, n)
    /\ attempts' = [attempts EXCEPT ![n] = 1]
    /\ IF state[n] = "active"
       THEN Return(t, n) /\ UNCHANGED state
       ELSE /\ Goto(t, "grab")
            /\ state' = [state EXCEPT ![n] = "active"]
            /\ UNCHANGED fate
    /\ UNCHANGED <<ready, stopped, registered, handle, complete, poolVars,
                   workerVars>>

\* The second half: a token of the semaphore if there is one, else the node
\* is deferred.
Grab(t) ==
    /\ at[t] = "grab"
    /\ IF semaphore > 0
       THEN semaphore' = semaphore - 1 /\ Goto(t, "pop")
       ELSE Goto(t, "defer") /\ UNCHANGED semaphore
    /\ UNCHANGED <<ready, stopped, nodeVars, fate, workers, queue,
                   workerVars>>

\* Mutant: the worker is looked up in the list and stays there.
Assign_Peek(t, n) ==
    /\ at[t] = "pop" /\ On(t, n)
    /\ \E w \in workers : /\ queue[w] = None
                          /\ queue' = [queue EXCEPT ![w] = n]
    /\ Return(t, n)
    /\ UNCHANGED <<ready, stopped, nodeVars, semaphore, workers, workerVars>>

\* A free worker, the last of the list, is handed the node; the put blocks if
\* the worker's queue is full.
Assign(t, n) ==
    /\ at[t] = "pop" /\ On(t, n)
    /\ \E w \in workers : /\ queue[w] = None
                          /\ workers' = workers \ {w}
                          /\ queue' = [queue EXCEPT ![w] = n]
    /\ Return(t, n)
    /\ UNCHANGED <<ready, stopped, nodeVars, semaphore, workerVars>>

\* The scheduler thread returns from a call that deferred its node.
ReturnDeferred(n) ==
    /\ at[Scheduler] = "return" /\ On(Scheduler, n)
    /\ Return(Scheduler, n)
    /\ UNCHANGED <<ready, stopped, nodeVars, poolVars, workerVars>>

-----------------------------------------------------------------------------
(* The manager's thread.                                                   *)

\* run() got through its preliminaries.
BecomeReady ==
    /\ ~ready
    /\ ready' = TRUE
    /\ UNCHANGED <<stopped, nodeVars, at, fate, poolVars, workerVars>>

\* A frame of a node whose configuration is scheduled has it configured as
\* soon as the scheduler can (__select_config_now_chk).
Receive(n) ==
    /\ ready /\ ~stopped
    /\ n \in registered
    /\ state[n] = "scheduled"
    /\ state' = [state EXCEPT ![n] = "immediate"]
    /\ Reschedule(n, "configure")
    /\ UNCHANGED <<ready, stopped, registered, attempts, complete, at,
                   poolVars, workerVars>>

\* stop(): frames are no longer read, the workers are told to end.
Stop ==
    /\ MayStop
    /\ ready /\ ~stopped
    /\ stopped' = TRUE
    /\ UNCHANGED <<ready, nodeVars, at, fate, poolVars, workerVars>>

-----------------------------------------------------------------------------
(* The workers.                                                            *)

TakeTask(w) ==
    /\ wat[w] = "get"
    /\ queue[w] # None
    /\ task' = [task EXCEPT ![w] = queue[w]]
    /\ queue' = [queue EXCEPT ![w] = None]
    /\ wat' = [wat EXCEPT ![w] = "apply"]
    /\ UNCHANGED <<ready, stopped, nodeVars, at, fate, semaphore,
                   workers>>

\* Mutant: a block that fails does not end the round.
IsNext_Skips(n, b) == b \notin complete[n]

\* The blocks are applied in order; complete ones are passed over.
IsNext(n, b) == b \notin complete[n] /\ \A c \in 1..(b - 1) : c \in complete[n]

\* do_configure: a block of the node is applied,
ApplySucceeds(w) ==
    /\ wat[w] = "apply"
    /\ \E b \in 1..Blocks :
          /\ IsNext(task[w], b)
          /\ complete' = [complete EXCEPT ![task[w]] = @ \cup {b}]
    /\ UNCHANGED <<ready, stopped, registered, state, attempts, handle,
                   at, fate, poolVars, workerVars>>

\* or fails, or raises; a failure or the end of the list ends the round.
ApplyEnds(w) ==
    /\ wat[w] = "apply"
    /\ wat' = [wat EXCEPT ![w] = "append"]
    /\ UNCHANGED <<ready, stopped, nodeVars, at, fate, poolVars, task>>

\* _configuration_done of the configurator: the worker is free again, its own
\* thread still has to report to the manager.
AppendWorker(w) ==
    /\ wat[w] = "append"
    /\ workers' = workers \cup {w}
    /\ wat' = [wat EXCEPT ![w] = "release"]
    /\ UNCHANGED <<ready, stopped, nodeVars, at, fate, queue, semaphore,
                   task>>

ReleaseSemaphore(w) ==
    /\ wat[w] = "release"
    /\ semaphore' = semaphore + 1
    /\ wat' = [wat EXCEPT ![w] = "check"]
    /\ UNCHANGED <<ready, stopped, nodeVars, at, fate, queue, workers,
                   task>>

\* Mutant: a node that is not complete is dropped.
CheckDone_Drops(w) ==
    /\ wat[w] = "check"
    /\ wat' = [wat EXCEPT ![w] =
                  IF state[task[w]] # "active" THEN "get"
                  ELSE IF complete[task[w]] = 1..Blocks THEN "promote"
                  ELSE "get"]
    /\ task' = [task EXCEPT ![w] = IF wat'[w] = "get" THEN None ELSE @]
    /\ UNCHANGED <<ready, stopped, nodeVars, at, fate, poolVars>>

\* _xbee_device_configuration_done of the manager, up to the lock: what the
\* unlocked look at the node's state and blocks decides.
CheckDone(w) ==
    /\ wat[w] = "check"
    /\ \/ /\ state[task[w]] # "active"
          /\ wat' = [wat EXCEPT ![w] = "get"]
          /\ task' = [task EXCEPT ![w] = None]
       \/ /\ state[task[w]] = "active"
          /\ wat' = [wat EXCEPT ![w] = IF complete[task[w]] = 1..Blocks
                                       THEN "promote" ELSE "defer"]
          /\ UNCHANGED task
    /\ UNCHANGED <<ready, stopped, nodeVars, at, fate, poolVars>>

WorkerDefers(w) ==
    /\ wat[w] = "defer"
    /\ Defer(task[w])
    /\ wat' = [wat EXCEPT ![w] = "get"]
    /\ task' = [task EXCEPT ![w] = None]
    /\ UNCHANGED <<ready, stopped, at, poolVars>>

Promote(w) ==
    /\ wat[w] = "promote"
    /\ GotoRunning(task[w])
    /\ wat' = [wat EXCEPT ![w] = "get"]
    /\ task' = [task EXCEPT ![w] = None]
    /\ UNCHANGED <<ready, stopped, at, fate, poolVars>>

\* Mutant: the worker waits for a task with no limit of time.
Quit_NoTimeout(w) ==
    /\ wat[w] = "get"
    /\ queue[w] # None
    /\ stopped
    /\ wat' = [wat EXCEPT ![w] = "ended"]
    /\ UNCHANGED <<ready, stopped, nodeVars, at, fate, poolVars, task>>

\* The stop event is looked at between two tasks only.
Quit(w) ==
    /\ wat[w] = "get"
    /\ stopped
    /\ wat' = [wat EXCEPT ![w] = "ended"]
    /\ UNCHANGED <<ready, stopped, nodeVars, at, fate, poolVars, task>>

-----------------------------------------------------------------------------
Starter(n) == Register(n) \/ SkipConfigure(n) \/ Configure(n)

ThreadStep(t, n) ==
    \/ Attempt(t, n) \/ BeginPrepare(t, n) \/ GiveWay(t, n) \/ Elect(t, n)
    \/ PrepareSucceeds(t) \/ PrepareFails(t, n)
    \/ DeferConfiguration(t, n) \/ Claim(t, n) \/ Grab(t) \/ Assign(t, n)
    \/ t = Scheduler /\ ReturnDeferred(n)

WorkerStep(w) ==
    \/ TakeTask(w) \/ ApplySucceeds(w) \/ ApplyEnds(w)
    \/ AppendWorker(w) \/ ReleaseSemaphore(w) \/ CheckDone(w)
    \/ WorkerDefers(w) \/ Promote(w) \/ Quit(w)

Next ==
    \/ BecomeReady \/ Stop
    \/ \E n \in Nodes : Starter(n) \/ Unregister(n) \/ StartEvent(n)
                           \/ Receive(n)
    \/ \E t \in Threads, n \in Nodes : ThreadStep(t, n)
    \/ \E w \in Workers : WorkerStep(w)

Spec == Init /\ [][Next]_vars

\* The threads run.  The scheduler starts every event that stays pending
\* (Scheduler, EventuallyServed).  The radio answers now and then: a block
\* that is tried again and again is applied, and so is a preparation.  Two
\* nodes do not give way to each other for ever, since each is expected only
\* for a time after it was heard.
Fairness ==
    /\ WF_vars(BecomeReady)
    /\ \A n \in Nodes : WF_vars(Starter(n)) /\ SF_vars(StartEvent(n))
    /\ \A t \in Threads :
          /\ WF_vars(\E n \in Nodes : ThreadStep(t, n))
          /\ SF_vars(PrepareSucceeds(t))
          /\ SF_vars(\E n \in Nodes : Elect(t, n))
    /\ \A w \in Workers : WF_vars(WorkerStep(w)) /\ SF_vars(ApplySucceeds(w))

FairSpec == Spec /\ Fairness

-----------------------------------------------------------------------------
(* Properties.                                                             *)

\* A worker has the node, in its queue or in its hands.
WithWorker(n) == \E w \in Workers : queue[w] = n \/ task[w] = n

\* A thread is about to find a worker for the node, or to defer it.
InCall(n) == \E t \in Threads :
                /\ On(t, n)
                /\ at[t] \in {"heuristic", "prepare", "defer", "configure"}

Seeking(n) == \E t \in Threads : On(t, n) /\ at[t] \in {"grab", "pop", "defer"}

Pending(n) == \E e \in EventsOf(n) : fate[e] = "pending"

\* A node that waits for its configuration always has an event that will look
\* at it again, or a thread that does so now; one whose configuration is
\* under way is with a worker, or a thread is about to find it one.  Whatever
\* the starter, the scheduler thread, the workers and the arriving frames do
\* to it, no node is left with nobody to go on with it.
NodeNotForgotten ==
    \A n \in Nodes :
        /\ state[n] \in {"scheduled", "immediate"} => Pending(n) \/ InCall(n)
        /\ state[n] = "active" => WithWorker(n) \/ Seeking(n)

\* The events of a node are one at a time: what is pending is the event that
\* the node remembers, so that a cancel reaches it.
HandleIsCurrent ==
    \A n \in Nodes : \A e \in EventsOf(n) :
        fate[e] = "pending" => handle[n] = e

Popping == {t \in Threads : at[t] = "pop"}

\* Whoever holds a token of the semaphore finds a free worker in the list,
\* with room in its queue, though list and semaphore are changed by different
\* threads with no lock (pop of an empty list would kill the starter and
\* leave the node active for ever).
WorkersAvailable ==
    /\ semaphore + Cardinality(Popping) <= Cardinality(workers)
    /\ \A w \in workers : queue[w] = None

\* A node that the manager configured itself has been given all its blocks,
\* and the final write, which makes them permanent, came last.
ConfiguredInFull ==
    \A n \in Nodes \ SkipList :
        /\ state[n] = "running" => complete[n] = 1..Blocks
        /\ Blocks \in complete[n] => complete[n] = 1..Blocks

Holders(n) == {w \in Workers : queue[w] = n \/ (task[w] = n /\ wat[w] = "apply")}

\* Two workers never work on the same node, if it does not sleep.
SteadyNodeOneWorker ==
    \A n \in Nodes \ Sleepy : Cardinality(Holders(n)) <= 1

\* A device that was started ends up running, if the manager is not stopped.
EventuallyRunning ==
    \A n \in Nodes : at[n] = "created" ~> state[n] = "running" \/ stopped

\* Once stop() was called every worker thread ends.
StopEndsWorkers == stopped ~> \A w \in Workers : wat[w] = "ended"

\* xbee_device_manager_configurator.py:255-257: when some other worker is
\* already working on a node, it is not entered for configuration again.
OneWorkerPerNode ==
    \A n \in Nodes : Cardinality(Holders(n)) <= 1
=============================================================================
