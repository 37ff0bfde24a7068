----------------------------- MODULE Scheduler -----------------------------
(***************************************************************************)
(* The core scheduler: common/sched_async.py (SchedAsync, a thread) on top *)
(* of lib/digi_sched.py (a heap guarded by a condition variable).          *)
(*                                                                         *)
(* Clients are the threads that call schedule_after, cancel and stop.  The *)
(* scheduler thread, Worker, is a caller too: the action of an event may   *)
(* schedule a further event while it runs.                                 *)
(*                                                                         *)
(* An event is an identity with a due time.  The heap is the set of queued *)
(* events; its head is an event least by (time, priority).  What the tuple *)
(* comparison does with equal times and priorities depends on addresses,   *)
(* so any least event may be the head.                                     *)
(***************************************************************************)
EXTENDS Naturals, FiniteSets

CONSTANTS Clients,   \* the threads that use the scheduler
          Worker,    \* the scheduler's own thread
          Timers,    \* events scheduled by schedule_after
          Stops,     \* events whose action is __do_stop, entered by stop
          Delays,    \* the delays the callers pass, in clock ticks
          MaxTime,   \* bound on the clock
          NoEvent    \* "no event"

ASSUME SchedulerAssumption ==
    /\ Worker \notin Clients
    /\ Timers \cap Stops = {}
    /\ NoEvent \notin Timers \cup Stops
    /\ IsFiniteSet(Clients)
    /\ IsFiniteSet(Timers \cup Stops)
    /\ Delays \subseteq Nat
    /\ MaxTime \in Nat

Callers == Clients \cup {Worker}
Events  == Timers \cup Stops

PRIORITY_HIGH   == 16
PRIORITY_NORMAL == 8

Priority(e) == IF e \in Stops THEN PRIORITY_HIGH ELSE PRIORITY_NORMAL

VARIABLES
    now,         \* time.time()
    queue,       \* scheduler.queue
    due,         \* the time in the tuple of an event that has been entered
    notified,    \* the condition was notified since the thread began to wait
    wake,        \* when the timed wait of the scheduler thread expires
    semaphore,   \* SchedAsync.__semaphore
    stop_flag,   \* SchedAsync.__stop_flag
    pc,          \* where the scheduler thread is
    current,     \* the event it has popped and whose action it runs
    to_cancel,   \* what is left of the copy of the queue that __do_stop walks
    call,        \* where each caller is inside __new_event
    subject,     \* the event each caller is entering
    shutdown,    \* core.request_shutdown() has been called
    fate         \* history: what became of each event

threadVars == <<notified, wake, pc, current, to_cancel>>
vars == <<now, queue, due, notified, wake, semaphore, stop_flag, pc, current,
          to_cancel, call, subject, shutdown, fate>>

TypeOK ==
    /\ now \in 0..MaxTime
    /\ queue \in SUBSET Events
    /\ due \in [Events -> Nat]
    /\ notified \in BOOLEAN
    /\ wake \in Nat
    /\ semaphore \in Nat
    /\ stop_flag \in BOOLEAN
    /\ pc \in {"test", "acquire", "loop", "waiting", "acting", "copy",
               "cancelling", "ended"}
    /\ current \in Events \cup {NoEvent}
    /\ to_cancel \in SUBSET Events
    /\ call \in [Callers -> {"idle", "enter", "release"}]
    /\ subject \in [Callers -> Events \cup {NoEvent}]
    /\ shutdown \in BOOLEAN
    /\ fate \in [Events -> {"unborn", "refused", "entering", "queued",
                            "running", "done", "cancelled"}]

Init ==
    /\ now = 0
    /\ queue = {}
    /\ due = [e \in Events |-> 0]
    /\ notified = FALSE
    /\ wake = 0
    /\ semaphore = 0
    /\ stop_flag = FALSE
    /\ pc = "test"
    /\ current = NoEvent
    /\ to_cancel = {}
    /\ call = [c \in Callers |-> "idle"]
    /\ subject = [c \in Callers |-> NoEvent]
    /\ shutdown = FALSE
    /\ fate = [e \in Events |-> "unborn"]

-----------------------------------------------------------------------------
(* The callers.                                                            *)

\* A client may call at any time; the scheduler thread only from an action.
MayCall(c) ==
    /\ call[c] = "idle"
    /\ c = Worker => pc = "acting" /\ current \in Timers

\* The first half of __new_event, up to the time that enter() computes: the
\* unlocked test of the stop flag, which refuses the event, and the clock.
\* Bound: nothing is scheduled to fall due after MaxTime.
NewEvent(c, e, delay) ==
    /\ MayCall(c)
    /\ fate[e] = "unborn"
    /\ now + delay <= MaxTime
    /\ IF stop_flag
       THEN /\ fate' = [fate EXCEPT ![e] = "refused"]
            /\ UNCHANGED <<due, call, subject>>
       ELSE /\ fate' = [fate EXCEPT ![e] = "entering"]
            /\ due' = [due EXCEPT ![e] = now + delay]
            /\ call' = [call EXCEPT ![c] = "enter"]
            /\ subject' = [subject EXCEPT ![c] = e]
    /\ UNCHANGED <<now, queue, semaphore, stop_flag, shutdown, threadVars>>

ScheduleAfter(c) == \E e \in Timers, delay \in Delays : NewEvent(c, e, delay)

Stop(c) == \E e \in Stops : NewEvent(c, e, 0)

\* Mutant: the push without the notification.
EnterAbs_Silent(c) ==
    /\ call[c] = "enter"
    /\ queue' = queue \cup {subject[c]}
    /\ fate' = [fate EXCEPT ![subject[c]] = "queued"]
    /\ call' = [call EXCEPT ![c] = "release"]
    /\ UNCHANGED <<now, due, notified, wake, semaphore, stop_flag, pc, current,
                   to_cancel, subject, shutdown>>

\* enterabs: the push and the notification, under the condition's lock.
EnterAbs(c) ==
    /\ call[c] = "enter"
    /\ queue' = queue \cup {subject[c]}
    /\ fate' = [fate EXCEPT ![subject[c]] = "queued"]
    /\ notified' = TRUE
    /\ call' = [call EXCEPT ![c] = "release"]
    /\ UNCHANGED <<now, due, wake, semaphore, stop_flag, pc, current,
                   to_cancel, subject, shutdown>>

\* Mutant: the event is entered but the thread is not told.
ReleaseSemaphore_Lost(c) ==
    /\ call[c] = "release"
    /\ call' = [call EXCEPT ![c] = "idle"]
    /\ subject' = [subject EXCEPT ![c] = NoEvent]
    /\ UNCHANGED <<now, queue, due, semaphore, stop_flag, shutdown, fate,
                   threadVars>>

\* The release of the semaphore that ends __new_event.
ReleaseSemaphore(c) ==
    /\ call[c] = "release"
    /\ semaphore' = semaphore + 1
    /\ call' = [call EXCEPT ![c] = "idle"]
    /\ subject' = [subject EXCEPT ![c] = NoEvent]
    /\ UNCHANGED <<now, queue, due, stop_flag, shutdown, fate, threadVars>>

\* cancel: the removal and the notification, under the lock.  An event that
\* is not in the queue raises ValueError, which the caller swallows.
RemoveEvent(e) ==
    /\ e \in queue
    /\ queue' = queue \ {e}
    /\ fate' = [fate EXCEPT ![e] = "cancelled"]
    /\ notified' = TRUE

Cancel(c) ==
    /\ MayCall(c)
    /\ \E e \in Timers : RemoveEvent(e)
    /\ UNCHANGED <<now, due, wake, semaphore, stop_flag, pc, current,
                   to_cancel, call, subject, shutdown>>

-----------------------------------------------------------------------------
(* The scheduler thread.                                                   *)

\* The test of the outer loop of SchedAsync.run.
TestStopFlag ==
    /\ pc = "test"
    /\ pc' = IF stop_flag THEN "ended" ELSE "acquire"
    /\ UNCHANGED <<now, queue, due, notified, wake, semaphore, stop_flag,
                   current, to_cancel, call, subject, shutdown, fate>>

\* Mutant: the semaphore does not block.
AcquireSemaphore_NoBlock ==
    /\ pc = "acquire"
    /\ semaphore' = semaphore - 1
    /\ pc' = "loop"
    /\ UNCHANGED <<now, queue, due, notified, wake, stop_flag, current,
                   to_cancel, call, subject, shutdown, fate>>

AcquireSemaphore ==
    /\ pc = "acquire"
    /\ semaphore > 0
    /\ semaphore' = semaphore - 1
    /\ pc' = "loop"
    /\ UNCHANGED <<now, queue, due, notified, wake, stop_flag, current,
                   to_cancel, call, subject, shutdown, fate>>

\* Tuple comparison on (time, priority).
Before(e, f) ==
    \/ due[e] < due[f]
    \/ due[e] = due[f] /\ Priority(e) < Priority(f)

IsHead(e) == e \in queue /\ \A f \in queue : ~Before(f, e)

\* scheduler.run finds the queue empty and returns.
RunDrained ==
    /\ pc = "loop"
    /\ queue = {}
    /\ pc' = "test"
    /\ UNCHANGED <<now, queue, due, notified, wake, semaphore, stop_flag,
                   current, to_cancel, call, subject, shutdown, fate>>

\* The head is not due: a timed wait on the condition, which frees the lock.
RunWait ==
    /\ pc = "loop"
    /\ \E e \in Events : /\ IsHead(e)
                         /\ now < due[e]
                         /\ wake' = due[e]
    /\ notified' = FALSE
    /\ pc' = "waiting"
    /\ UNCHANGED <<now, queue, due, semaphore, stop_flag, current, to_cancel,
                   call, subject, shutdown, fate>>

\* The wait ends, notified or timed out, and the loop looks again.
RunAwake ==
    /\ pc = "waiting"
    /\ notified \/ now >= wake
    /\ pc' = "loop"
    /\ UNCHANGED <<now, queue, due, notified, wake, semaphore, stop_flag,
                   current, to_cancel, call, subject, shutdown, fate>>

\* Mutant: the head is looked at and run, and stays in the queue.
RunPop_Kept ==
    /\ pc = "loop"
    /\ \E e \in Events : /\ IsHead(e)
                         /\ due[e] <= now
                         /\ current' = e
                         /\ fate' = [fate EXCEPT ![e] = "running"]
    /\ pc' = "acting"
    /\ UNCHANGED <<now, queue, due, notified, wake, semaphore, stop_flag,
                   to_cancel, call, subject, shutdown>>

\* The head is due: it is popped under the lock and the lock is released.
RunPop ==
    /\ pc = "loop"
    /\ \E e \in Events : /\ IsHead(e)
                         /\ due[e] <= now
                         /\ queue' = queue \ {e}
                         /\ current' = e
                         /\ fate' = [fate EXCEPT ![e] = "running"]
    /\ pc' = "acting"
    /\ UNCHANGED <<now, due, notified, wake, semaphore, stop_flag, to_cancel,
                   call, subject, shutdown>>

EndAction(next) ==
    /\ pc' = next
    /\ current' = NoEvent
    /\ fate' = [fate EXCEPT ![current] = "done"]
    /\ UNCHANGED <<now, queue, due, notified, wake, semaphore, stop_flag,
                   call, subject>>

\* The action returns, or raises an Exception that run() logs.
ActionReturns ==
    /\ pc = "acting"
    /\ current \in Timers
    /\ call[Worker] = "idle"
    /\ EndAction("loop")
    /\ UNCHANGED <<to_cancel, shutdown>>

\* The action raises something that is not an Exception (SystemExit): the
\* finally clause releases a lock that is not held, that error reaches
\* SchedAsync.run, which asks for a shutdown and goes round its outer loop.
ActionEscapes ==
    /\ pc = "acting"
    /\ current \in Timers
    /\ call[Worker] = "idle"
    /\ EndAction("test")
    /\ shutdown' = TRUE
    /\ UNCHANGED to_cancel

\* Mutant: __do_stop forgets the flag.
DoStop_NoFlag ==
    /\ pc = "acting"
    /\ current \in Stops
    /\ pc' = "copy"
    /\ UNCHANGED <<now, queue, due, notified, wake, semaphore, stop_flag,
                   current, to_cancel, call, subject, shutdown, fate>>

\* __do_stop sets the flag, copies the queue without the lock, and cancels
\* what it copied one event at a time.
DoStop ==
    /\ pc = "acting"
    /\ current \in Stops
    /\ stop_flag' = TRUE
    /\ pc' = "copy"
    /\ UNCHANGED <<now, queue, due, notified, wake, semaphore, current,
                   to_cancel, call, subject, shutdown, fate>>

CopyQueue ==
    /\ pc = "copy"
    /\ to_cancel' = queue
    /\ pc' = "cancelling"
    /\ UNCHANGED <<now, queue, due, notified, wake, semaphore, stop_flag,
                   current, call, subject, shutdown, fate>>

StopCancels ==
    /\ pc = "cancelling"
    /\ \E e \in to_cancel :
          /\ to_cancel' = to_cancel \ {e}
          /\ \/ RemoveEvent(e)
             \/ e \notin queue /\ UNCHANGED <<queue, fate, notified>>
    /\ UNCHANGED <<now, due, wake, semaphore, stop_flag, pc, current, call,
                   subject, shutdown>>

StopReturns ==
    /\ pc = "cancelling"
    /\ to_cancel = {}
    /\ EndAction("loop")
    /\ UNCHANGED <<to_cancel, shutdown>>

-----------------------------------------------------------------------------
\* The clock, bounded by MaxTime.
Tick ==
    /\ now < MaxTime
    /\ now' = now + 1
    /\ UNCHANGED <<queue, due, semaphore, stop_flag, call, subject, shutdown,
                   fate, threadVars>>

CallerStep(c) == EnterAbs(c) \/ ReleaseSemaphore(c)

ThreadStep ==
    \/ TestStopFlag \/ AcquireSemaphore
    \/ RunDrained \/ RunWait \/ RunAwake \/ RunPop
    \/ ActionReturns \/ ActionEscapes
    \/ DoStop \/ CopyQueue \/ StopCancels \/ StopReturns

Next ==
    \/ \E c \in Callers : \/ ScheduleAfter(c) \/ Stop(c) \/ Cancel(c)
                          \/ CallerStep(c)
    \/ ThreadStep
    \/ Tick

Spec == Init /\ [][Next]_vars

\* Threads run, time passes, and an action that is called returns; nobody is
\* obliged to call schedule_after, cancel or stop.
Fairness ==
    /\ WF_vars(Tick)
    /\ WF_vars(ThreadStep)
    /\ \A c \in Callers : WF_vars(CallerStep(c))

FairSpec == Spec /\ Fairness
-----------------------------------------------------------------------------
(* Properties.                                                             *)

InRun == pc \in {"loop", "waiting", "acting", "copy", "cancelling"}

Releasing == {c \in Callers : call[c] = "release"}

\* When the thread blocks on its semaphore (sched_async.py, run) and events
\* are queued, a token is there or a caller is about to release one: no event
\* is left behind, even after an action that escaped from the run loop.
NoStrandedEvent ==
    pc = "acquire" /\ queue # {} => semaphore > 0 \/ Releasing # {}

\* Why (an invariant that the proofs use): every queued event, and the one
\* whose action is running, is paid for by a token of the semaphore, a
\* release still to come, or the token that the run loop took when it began.
TokenAccounting ==
    Cardinality(queue) + (IF current = NoEvent THEN 0 ELSE 1)
        <= semaphore + Cardinality(Releasing) + (IF InRun THEN 1 ELSE 0)

\* digi_sched.py, run: the thread waits until the head that it looked at falls
\* due, while others enter and cancel events.  It never sleeps past one that
\* falls due before: then it has been notified, and will look again.
NeverOversleeps ==
    pc = "waiting" /\ ~notified => \A e \in queue : wake <= due[e]

\* An event queued before the scheduler was stopped runs or is cancelled.
EventuallyServed ==
    \A e \in Events : (fate[e] = "queued" /\ ~stop_flag)
                          ~> fate[e] \in {"done", "cancelled"}

\* Once stop() has entered its event the thread ends, so that the wait for
\* other threads in CoreServices._shutdown is not held up by the scheduler.
StopEndsThread ==
    (\E s \in Stops : fate[s] = "queued") ~> pc = "ended"

-----------------------------------------------------------------------------
(* The promise the scheduler makes to its users.                           *)

\* What a user can tell of an event: it can be cancelled while it is queued,
\* it runs once, and all else it was or will be is the same to the user.
AgendaFate ==
    [e \in Events |-> IF fate[e] = "queued" THEN "pending"
                      ELSE IF fate[e] = "running" THEN "running"
                      ELSE "free"]

Promise == INSTANCE Agenda WITH Entries <- Events, fate <- AgendaFate

\* sched_async and digi_sched implement Agenda: whatever the threads do, an
\* event starts only while it is queued and nothing else runs, and a cancel
\* that succeeds prevents the start.
ImplementsAgenda == Promise!Spec
=============================================================================
