------------------------- MODULE XBeeManagerProofs -------------------------
(***************************************************************************)
(* Theorems about XBeeManager, for every set of nodes, workers and event   *)
(* names, whichever nodes sleep and however many blocks they have.         *)
(*                                                                         *)
(* That no node is forgotten is inductive once three things are known: the *)
(* scheduler thread runs one event at a time, so that its steps are of one *)
(* node; a node remembers none but its own events, and the one that is     *)
(* pending if any is, so that to reschedule a node leaves exactly one; and *)
(* a worker that is not idle has a node.                                   *)
(***************************************************************************)
EXTENDS XBeeManager, FiniteSetTheorems, TLAPS

OneRunning ==
    \A e, f \in Entries : fate[e] = "running" /\ fate[f] = "running" => e = f

HandlesOwn == \A n \in Nodes : handle[n] \in EventsOf(n) \cup {None}

TaskKnown ==
    \A w \in Workers : IF wat[w] \in {"get", "ended"} THEN task[w] = None
                                                     ELSE task[w] \in Nodes

Control == OneRunning /\ HandlesOwn /\ TaskKnown /\ HandleIsCurrent

IInv == TypeOK /\ Control /\ NodeNotForgotten

Where == {"idle", "created", "heuristic", "prepare", "defer", "configure",
          "grab", "pop", "return", "returned"}

-----------------------------------------------------------------------------
(* Events.                                                                 *)

LEMMA EventsOfNode ==
    /\ \A n \in Nodes : EventsOf(n) \subseteq Entries
    /\ \A n, m \in Nodes : \A e :
          e \in EventsOf(n) /\ e \in EventsOf(m) => n = m
    /\ \A n \in Nodes, c \in Calls, s \in Slots : <<n, c, s>> \in EventsOf(n)
  BY DEF EventsOf, Entries

LEMMA CallNames == Calls \subseteq Where /\ Calls = {"heuristic", "configure"}
  BY DEF Calls, Where

\* What rescheduling a node does, in terms of its events.
LEMMA RescheduleEffect ==
    ASSUME TypeOK, Control, NEW n \in Nodes, NEW what \in Calls,
           Reschedule(n, what)
    PROVE  \E e \in EventsOf(n) :
              /\ handle' = [handle EXCEPT ![n] = e]
              /\ fate' \in [Entries -> {"free", "pending", "running"}]
              /\ fate'[e] = "pending"
              /\ \A f \in EventsOf(n) : f # e => fate'[f] # "pending"
              /\ \A f \in Entries : f \notin EventsOf(n) => fate'[f] = fate[f]
              /\ \A f \in Entries : fate'[f] = "running" <=> fate[f] = "running"
<1>1. PICK e \in {n} \X {what} \X Slots :
             /\ Agenda!Replace(handle[n], e)
             /\ handle' = [handle EXCEPT ![n] = e]
  BY DEF Reschedule
<1>2. e \in EventsOf(n) /\ EventsOf(n) \subseteq Entries
  BY EventsOfNode DEF EventsOf
<1>3. /\ fate[e] = "free" \/ fate[e] = "pending"
      /\ fate' = [f \in Entries |->
                    IF f = e THEN "pending"
                    ELSE IF f = handle[n] /\ fate[f] = "pending" THEN "free"
                    ELSE fate[f]]
  BY <1>1 DEF Agenda!Replace
<1>4. fate \in [Entries -> {"free", "pending", "running"}]
  BY DEF TypeOK, Agenda!TypeOK
<1>5. \A f \in EventsOf(n) : fate[f] = "pending" => f = handle[n]
  BY DEF Control, HandleIsCurrent
<1>6. \A f \in Entries : f \notin EventsOf(n) => fate'[f] = fate[f]
  <2> TAKE f \in Entries
  <2> HAVE f \notin EventsOf(n)
  <2>1. f # e
    BY <1>2
  <2>2. CASE f = handle[n]
    <3>1. f = None
      BY <2>2 DEF Control, HandlesOwn
    <3>2. QED
      BY <3>1, XBeeAssumption
  <2>3. QED
    BY <1>3, <2>1, <2>2
<1>7. handle' = [handle EXCEPT ![n] = e]
  BY <1>1
<1>8. QED
  BY <1>2, <1>3, <1>4, <1>5, <1>6, <1>7
-----------------------------------------------------------------------------
(* Types.                                                                  *)

\* Return moves its thread and, on the scheduler thread, ends the event.
LEMMA ReturnEffect ==
    ASSUME TypeOK, NEW t \in Threads, NEW n \in Nodes, Return(t, n)
    PROVE  /\ at' \in [Threads -> Where]
           /\ at'[t] \in {"idle", "returned"}
           /\ \A u \in Threads : u # t => at'[u] = at[u]
           /\ fate' \in [Entries -> {"free", "pending", "running"}]
           /\ \A e \in Entries : fate'[e] = "pending" <=> fate[e] = "pending"
           /\ \A e \in Entries : fate'[e] = "running" => fate[e] = "running"
           /\ t # Scheduler => fate' = fate
  BY EventsOfNode
     DEF Return, Goto, TypeOK, Agenda!TypeOK, Agenda!Finish, Threads, Where

\* StartEvent moves a pending event of the node to the scheduler thread.
LEMMA StartEffect ==
    ASSUME TypeOK, Control, NEW n \in Nodes, StartEvent(n)
    PROVE  \E e \in EventsOf(n) :
              /\ fate[e] = "pending"
              /\ fate' = [fate EXCEPT ![e] = "running"]
              /\ \A f \in Entries : fate[f] # "running"
              /\ at' = [at EXCEPT ![Scheduler] = at'[Scheduler]]
              /\ at'[Scheduler] \in Calls
              /\ handle' = [handle EXCEPT ![n] = None]
<1>1. PICK what \in Calls, s \in Slots :
             /\ Agenda!Start(<<n, what, s>>)
             /\ Goto(Scheduler, what)
             /\ handle' = [handle EXCEPT ![n] = IF @ = <<n, what, s>>
                                                THEN None ELSE @]
  BY DEF StartEvent
<1> DEFINE e == <<n, what, s>>
<1>2. e \in EventsOf(n) /\ e \in Entries
  BY EventsOfNode
<1>3. /\ fate[e] = "pending" /\ fate' = [fate EXCEPT ![e] = "running"]
      /\ \A f \in Entries : fate[f] # "running"
  BY <1>1 DEF Agenda!Start, Agenda!Running
<1>4. handle[n] = e
  BY <1>2, <1>3 DEF Control, HandleIsCurrent
<1>5. at' = [at EXCEPT ![Scheduler] = what] /\ Scheduler \in DOMAIN at
  BY <1>1 DEF Goto, TypeOK, Threads
<1>6. at'[Scheduler] = what
  BY <1>5
<1>7. handle' = [handle EXCEPT ![n] = None]
  BY <1>1, <1>4
<1>8. QED
  BY <1>2, <1>3, <1>5, <1>6, <1>7

LEMMA TypeStep == TypeOK /\ Control /\ [Next]_vars => TypeOK'
<1> SUFFICES ASSUME TypeOK, Control, [Next]_vars PROVE TypeOK'
  OBVIOUS
<1> USE XBeeAssumption DEF nodeVars, poolVars, workerVars
<1>a. /\ fate \in [Entries -> {"free", "pending", "running"}]
      /\ Threads = Nodes \cup {Scheduler}
  BY DEF TypeOK, Agenda!TypeOK, Threads
<1>1. CASE BecomeReady \/ Stop
  BY <1>1 DEF BecomeReady, Stop, TypeOK, Agenda!TypeOK
<1>2. ASSUME NEW n \in Nodes, Starter(n) \/ Unregister(n)
      PROVE  TypeOK'
  BY <1>2, <1>a
     DEF Starter, Register, SkipConfigure, Configure, Unregister, GotoRunning,
         Goto, TypeOK, Agenda!TypeOK
<1>3. ASSUME NEW n \in Nodes, StartEvent(n) PROVE TypeOK'
  <2>1. PICK e \in EventsOf(n) :
              /\ fate' = [fate EXCEPT ![e] = "running"]
              /\ at' = [at EXCEPT ![Scheduler] = at'[Scheduler]]
              /\ at'[Scheduler] \in Calls
              /\ handle' = [handle EXCEPT ![n] = None]
    BY <1>3, StartEffect
  <2>2. fate' \in [Entries -> {"free", "pending", "running"}]
    BY <2>1, <1>a
  <2>4. at' \in [Threads -> Where]
    <3>1. at \in [Threads -> Where] /\ at'[Scheduler] \in Where
      BY <2>1, CallNames DEF TypeOK, Where
    <3>2. QED
      BY <2>1, <3>1
  <2>3. handle' \in [Nodes -> Entries \cup {None}]
    BY <2>1 DEF TypeOK
  <2>5. QED
    BY <1>3, <2>2, <2>3, <2>4 DEF StartEvent, TypeOK, Agenda!TypeOK, Where
<1>4. ASSUME NEW n \in Nodes, Receive(n) PROVE TypeOK'
  <2>1. PICK e \in EventsOf(n) :
              /\ handle' = [handle EXCEPT ![n] = e]
              /\ fate' \in [Entries -> {"free", "pending", "running"}]
    BY <1>4, RescheduleEffect, CallNames DEF Receive
  <2>2. handle' \in [Nodes -> Entries \cup {None}]
    BY <2>1, EventsOfNode DEF TypeOK
  <2>3. QED
    BY <1>4, <2>1, <2>2 DEF Receive, TypeOK, Agenda!TypeOK
<1>5. ASSUME NEW t \in Threads, NEW n \in Nodes,
             Attempt(t, n) \/ BeginPrepare(t, n) \/ GiveWay(t, n)
                \/ Elect(t, n) \/ PrepareSucceeds(t) \/ PrepareFails(t, n)
      PROVE  TypeOK'
  BY <1>5 DEF Attempt, BeginPrepare, GiveWay, Elect, PrepareSucceeds,
              PrepareFails, Goto, TypeOK, Agenda!TypeOK
<1>6. ASSUME NEW n \in Nodes, Defer(n)
      PROVE  /\ state' = [state EXCEPT ![n] = "scheduled"]
             /\ handle' \in [Nodes -> Entries \cup {None}]
             /\ fate' \in [Entries -> {"free", "pending", "running"}]
             /\ UNCHANGED <<registered, attempts, complete>>
  <2>1. PICK e \in EventsOf(n) :
              /\ handle' = [handle EXCEPT ![n] = e]
              /\ fate' \in [Entries -> {"free", "pending", "running"}]
    BY <1>6, RescheduleEffect, CallNames DEF Defer
  <2>2. handle' \in [Nodes -> Entries \cup {None}]
    BY <2>1, EventsOfNode DEF TypeOK
  <2>3. QED
    BY <1>6, <2>1, <2>2 DEF Defer
<1>7. ASSUME NEW t \in Threads, NEW n \in Nodes, DeferConfiguration(t, n)
      PROVE  TypeOK'
  BY <1>6, <1>7 DEF DeferConfiguration, Goto, TypeOK, Agenda!TypeOK
<1>8. ASSUME NEW t \in Threads, NEW n \in Nodes, Claim(t, n)
      PROVE  TypeOK'
  <2>1. CASE Return(t, n)
    BY <1>8, <2>1, ReturnEffect DEF Claim, TypeOK, Agenda!TypeOK, Where
  <2>2. CASE Goto(t, "grab") /\ UNCHANGED fate
    BY <1>8, <2>2 DEF Claim, Goto, TypeOK, Agenda!TypeOK
  <2>3. QED
    BY <1>8, <2>1, <2>2 DEF Claim
<1>9. ASSUME NEW t \in Threads, Grab(t) PROVE TypeOK'
  BY <1>9 DEF Grab, Goto, TypeOK, Agenda!TypeOK
<1>10. ASSUME NEW t \in Threads, NEW n \in Nodes, Assign(t, n)
       PROVE  TypeOK'
  BY <1>10, ReturnEffect DEF Assign, TypeOK, Agenda!TypeOK, Where
<1>11. ASSUME NEW n \in Nodes, ReturnDeferred(n) PROVE TypeOK'
  BY <1>11, <1>a, ReturnEffect DEF ReturnDeferred, TypeOK, Agenda!TypeOK, Where
<1>12. ASSUME NEW t \in Threads, NEW n \in Nodes, ThreadStep(t, n)
       PROVE  TypeOK'
  BY <1>5, <1>7, <1>8, <1>9, <1>10, <1>11, <1>12 DEF ThreadStep
<1>13. ASSUME NEW w \in Workers, TakeTask(w) PROVE TypeOK'
  BY <1>13 DEF TakeTask, TypeOK, Agenda!TypeOK
<1>14. ASSUME NEW w \in Workers, ApplySucceeds(w) PROVE TypeOK'
  <2>1. PICK b \in 1..Blocks :
              complete' = [complete EXCEPT ![task[w]] = @ \cup {b}]
    BY <1>14 DEF ApplySucceeds
  <2>2. complete' \in [Nodes -> SUBSET (1..Blocks)]
    BY <2>1 DEF TypeOK
  <2>3. QED
    BY <1>14, <2>2 DEF ApplySucceeds, TypeOK, Agenda!TypeOK
<1>15. ASSUME NEW w \in Workers,
              ApplyEnds(w) \/ AppendWorker(w) \/ ReleaseSemaphore(w)
                 \/ CheckDone(w) \/ Quit(w)
       PROVE  TypeOK'
  BY <1>15 DEF ApplyEnds, AppendWorker, ReleaseSemaphore, CheckDone, Quit,
               TypeOK, Agenda!TypeOK
<1>16. ASSUME NEW w \in Workers, WorkerDefers(w) PROVE TypeOK'
  <2>1. task[w] \in Nodes
    BY <1>16 DEF WorkerDefers, Control, TaskKnown
  <2>2. QED
    BY <1>6, <1>16, <2>1 DEF WorkerDefers, TypeOK, Agenda!TypeOK
<1>17. ASSUME NEW w \in Workers, Promote(w) PROVE TypeOK'
  <2>1. /\ state' = [state EXCEPT ![task[w]] = "running"]
        /\ attempts' = [attempts EXCEPT ![task[w]] = 0]
    BY <1>17 DEF Promote, GotoRunning
  <2>2. state' \in [Nodes -> {"initializing", "scheduled", "immediate",
                              "active", "running"}]
    BY <2>1 DEF TypeOK
  <2>3. attempts' \in [Nodes -> 0..1]
    <3>1. attempts \in [Nodes -> 0..1] /\ 0 \in 0..1
      BY DEF TypeOK
    <3>2. QED
      BY <2>1, <3>1
  <2>4. QED
    BY <1>17, <2>2, <2>3 DEF Promote, GotoRunning, TypeOK, Agenda!TypeOK
<1>18. CASE UNCHANGED vars
  BY <1>18 DEF vars, TypeOK, Agenda!TypeOK
<1>19. QED
  BY <1>1, <1>2, <1>3, <1>4, <1>12, <1>13, <1>14, <1>15, <1>16, <1>17, <1>18
     DEF Next, WorkerStep
-----------------------------------------------------------------------------
(* Control.                                                                *)

\* What keeps the events in order: a step that starts none and enters none.
LEMMA NoNewEvent ==
    ASSUME TypeOK, Control, UNCHANGED handle,
           \A e \in Entries : fate'[e] = "pending" => fate[e] = "pending",
           \A e \in Entries : fate'[e] = "running" => fate[e] = "running"
    PROVE  OneRunning' /\ HandlesOwn' /\ HandleIsCurrent'
  BY EventsOfNode DEF Control, OneRunning, HandlesOwn, HandleIsCurrent, TypeOK

LEMMA RescheduledControl ==
    ASSUME TypeOK, Control, NEW n \in Nodes, NEW what \in Calls,
           Reschedule(n, what)
    PROVE  OneRunning' /\ HandlesOwn' /\ HandleIsCurrent'
<1>1. PICK e \in EventsOf(n) :
              /\ handle' = [handle EXCEPT ![n] = e]
              /\ fate'[e] = "pending"
              /\ \A f \in EventsOf(n) : f # e => fate'[f] # "pending"
              /\ \A f \in Entries : f \notin EventsOf(n) => fate'[f] = fate[f]
              /\ \A f \in Entries : fate'[f] = "running" <=> fate[f] = "running"
  BY RescheduleEffect
<1>2. OneRunning'
  BY <1>1 DEF Control, OneRunning
<1>3. handle'[n] = e /\ \A m \in Nodes : m # n => handle'[m] = handle[m]
  BY <1>1 DEF TypeOK
<1>4. HandlesOwn'
  BY <1>3 DEF Control, HandlesOwn, EventsOf
<1>5. HandleIsCurrent'
  <2> SUFFICES ASSUME NEW m \in Nodes, NEW f \in EventsOf(m),
                      fate'[f] = "pending"
               PROVE  handle'[m] = f
    BY DEF HandleIsCurrent, EventsOf
  <2>1. CASE m = n
    BY <1>1, <1>3, <2>1
  <2>2. CASE m # n
    <3>1. f \notin EventsOf(n) /\ f \in Entries
      BY <2>2, EventsOfNode
    <3>2. fate[f] = "pending"
      BY <1>1, <3>1
    <3>3. QED
      BY <1>3, <2>2, <3>2 DEF Control, HandleIsCurrent
  <2>3. QED
    BY <2>1, <2>2
<1>6. QED
  BY <1>2, <1>4, <1>5

LEMMA StartedControl ==
    ASSUME TypeOK, Control, NEW n \in Nodes, StartEvent(n)
    PROVE  OneRunning' /\ HandlesOwn' /\ HandleIsCurrent'
<1>1. PICK e \in EventsOf(n) :
              /\ fate[e] = "pending"
              /\ fate' = [fate EXCEPT ![e] = "running"]
              /\ \A f \in Entries : fate[f] # "running"
              /\ handle' = [handle EXCEPT ![n] = None]
  BY StartEffect
<1>2. /\ e \in Entries /\ fate \in [Entries -> {"free", "pending", "running"}]
  BY <1>1, EventsOfNode DEF TypeOK, Agenda!TypeOK
<1>3. /\ fate'[e] = "running"
      /\ \A f \in Entries : f # e => fate'[f] = fate[f]
  BY <1>1, <1>2
<1>4. OneRunning'
  BY <1>1, <1>3 DEF OneRunning
<1>5. handle'[n] = None /\ \A m \in Nodes : m # n => handle'[m] = handle[m]
  BY <1>1 DEF TypeOK
<1>6. HandlesOwn'
  BY <1>5 DEF Control, HandlesOwn, EventsOf
<1>7. HandleIsCurrent'
  <2> SUFFICES ASSUME NEW m \in Nodes, NEW f \in EventsOf(m),
                      fate'[f] = "pending"
               PROVE  handle'[m] = f
    BY DEF HandleIsCurrent, EventsOf
  <2>1. f \in Entries /\ f # e /\ fate[f] = "pending"
    BY <1>3, EventsOfNode
  <2>2. handle[m] = f
    BY <2>1 DEF Control, HandleIsCurrent
  <2>3. handle[n] = e
    BY <1>1 DEF Control, HandleIsCurrent
  <2>4. QED
    BY <1>5, <2>1, <2>2, <2>3
<1>8. QED
  BY <1>4, <1>6, <1>7

LEMMA ControlStep == TypeOK /\ Control /\ [Next]_vars => Control'
<1> SUFFICES ASSUME TypeOK, Control, [Next]_vars PROVE Control'
  OBVIOUS
<1> USE DEF nodeVars, poolVars, workerVars
<1>a. ASSUME UNCHANGED <<wat, task>> PROVE TaskKnown'
  BY <1>a DEF Control, TaskKnown
<1>b. ASSUME UNCHANGED <<fate, handle>>
      PROVE  OneRunning' /\ HandlesOwn' /\ HandleIsCurrent'
  BY <1>b, NoNewEvent
<1>1. CASE BecomeReady \/ Stop
  BY <1>1, <1>a, <1>b DEF BecomeReady, Stop, Control
<1>2. ASSUME NEW n \in Nodes, Starter(n) \/ Unregister(n)
      PROVE  Control'
  BY <1>2, <1>a, <1>b
     DEF Starter, Register, SkipConfigure, Configure, Unregister, GotoRunning,
         Control
<1>3. ASSUME NEW n \in Nodes, StartEvent(n) PROVE Control'
  BY <1>3, <1>a, StartedControl DEF StartEvent, Control
<1>4. ASSUME NEW n \in Nodes, Receive(n) PROVE Control'
  BY <1>4, <1>a, RescheduledControl, CallNames DEF Receive, Control
<1>5. ASSUME NEW t \in Threads, NEW n \in Nodes,
             Attempt(t, n) \/ BeginPrepare(t, n) \/ GiveWay(t, n)
                \/ Elect(t, n) \/ PrepareSucceeds(t) \/ PrepareFails(t, n)
                \/ Grab(t)
      PROVE  Control'
  BY <1>5, <1>a, <1>b
     DEF Attempt, BeginPrepare, GiveWay, Elect, PrepareSucceeds, PrepareFails,
         Grab, Control
<1>6. ASSUME NEW t \in Threads, NEW n \in Nodes, DeferConfiguration(t, n)
      PROVE  Control'
  BY <1>6, <1>a, RescheduledControl, CallNames
     DEF DeferConfiguration, Defer, Control
<1>7. ASSUME NEW t \in Threads, NEW n \in Nodes, Return(t, n),
             UNCHANGED <<handle, wat, task>>
      PROVE  Control'
  BY <1>7, <1>a, ReturnEffect, NoNewEvent DEF Control
<1>8. ASSUME NEW t \in Threads, NEW n \in Nodes,
             Claim(t, n) \/ Assign(t, n)
      PROVE  Control'
  BY <1>7, <1>8, <1>a, <1>b DEF Claim, Assign, Control
<1>9. ASSUME NEW n \in Nodes, ReturnDeferred(n) PROVE Control'
  BY <1>7, <1>9 DEF ReturnDeferred, Threads
<1>10. ASSUME NEW t \in Threads, NEW n \in Nodes, ThreadStep(t, n)
       PROVE  Control'
  BY <1>5, <1>6, <1>8, <1>9, <1>10 DEF ThreadStep
<1>11. ASSUME NEW w \in Workers,
              TakeTask(w) \/ ApplySucceeds(w) \/ ApplyEnds(w)
                 \/ AppendWorker(w) \/ ReleaseSemaphore(w) \/ CheckDone(w)
                 \/ Promote(w) \/ Quit(w)
       PROVE  Control'
  <2>1. UNCHANGED <<fate, handle>>
    BY <1>11 DEF TakeTask, ApplySucceeds, ApplyEnds, AppendWorker,
                 ReleaseSemaphore, CheckDone, Promote, Quit, GotoRunning
  <2>2. TaskKnown'
    BY <1>11 DEF TakeTask, ApplySucceeds, ApplyEnds, AppendWorker,
                 ReleaseSemaphore, CheckDone, Promote, Quit, Control,
                 TaskKnown, TypeOK
  <2>3. QED
    BY <1>b, <2>1, <2>2 DEF Control
<1>12. ASSUME NEW w \in Workers, WorkerDefers(w) PROVE Control'
  <2>1. task[w] \in Nodes
    BY <1>12 DEF WorkerDefers, Control, TaskKnown
  <2>2. OneRunning' /\ HandlesOwn' /\ HandleIsCurrent'
    BY <1>12, <2>1, RescheduledControl, CallNames DEF WorkerDefers, Defer
  <2>3. TaskKnown'
    BY <1>12 DEF WorkerDefers, Control, TaskKnown, TypeOK
  <2>4. QED
    BY <2>2, <2>3 DEF Control
<1>13. CASE UNCHANGED vars
  BY <1>13, <1>a, <1>b DEF vars, Control
<1>14. QED
  BY <1>1, <1>2, <1>3, <1>4, <1>10, <1>11, <1>12, <1>13 DEF Next, WorkerStep
-----------------------------------------------------------------------------
(* No node is forgotten.                                                   *)

Cared(n) ==
    /\ state[n] \in {"scheduled", "immediate"} => Pending(n) \/ InCall(n)
    /\ state[n] = "active" => WithWorker(n) \/ Seeking(n)

\* What a step has to leave alone for a node to be cared for as before.
LEMMA CaredKept ==
    ASSUME NEW m \in Nodes, Cared(m), state'[m] = state[m],
           Pending(m) => Pending(m)', WithWorker(m) => WithWorker(m)',
           \A u \in Threads : On(u, m) => On(u, m)' /\ at'[u] = at[u]
    PROVE  Cared(m)'
<1>1. InCall(m) => InCall(m)'
  BY DEF InCall
<1>2. Seeking(m) => Seeking(m)'
  BY DEF Seeking
<1>3. QED
  BY <1>1, <1>2 DEF Cared

\* A thread is in the configuration of one node at a time.
LEMMA OneNodeOn ==
    ASSUME Control, NEW t \in Threads, NEW n \in Nodes, NEW m \in Nodes,
           On(t, n), On(t, m)
    PROVE  n = m
<1>1. CASE t = Scheduler
  <2>1. PICK e \in EventsOf(n) : fate[e] = "running"
    BY <1>1 DEF On
  <2>2. PICK f \in EventsOf(m) : fate[f] = "running"
    BY <1>1 DEF On
  <2>3. e = f
    BY <2>1, <2>2, EventsOfNode DEF Control, OneRunning
  <2>4. QED
    BY <2>3, EventsOfNode
<1>2. CASE t # Scheduler
  BY <1>2 DEF On
<1>3. QED
  BY <1>1, <1>2

\* A step of a thread in the configuration of n leaves the other nodes alone.
LEMMA OthersCared ==
    ASSUME TypeOK, Control, NodeNotForgotten,
           NEW t \in Threads, NEW n \in Nodes, On(t, n),
           \A u \in Threads : u # t => at'[u] = at[u],
           \A m \in Nodes : m # n => state'[m] = state[m],
           \A m \in Nodes : m # n /\ WithWorker(m) => WithWorker(m)',
           \A e \in Entries : e \notin EventsOf(n) => fate'[e] = fate[e]
    PROVE  \A m \in Nodes : m # n => Cared(m)'
<1> SUFFICES ASSUME NEW m \in Nodes, m # n PROVE Cared(m)'
  OBVIOUS
<1>1. \A e \in EventsOf(m) : fate'[e] = fate[e]
  BY EventsOfNode
<1>2. Pending(m) => Pending(m)'
  BY <1>1 DEF Pending, EventsOf
<1>3. \A u \in Threads : On(u, m) => On(u, m)'
  BY <1>1 DEF On, EventsOf
<1>4. \A u \in Threads : On(u, m) => at'[u] = at[u]
  BY OneNodeOn
<1>5. Cared(m)
  BY DEF NodeNotForgotten, Cared
<1>6. QED
  BY <1>2, <1>3, <1>4, <1>5, CaredKept

\* A node whose event was replaced is cared for, and so are the others.
LEMMA DeferredCared ==
    ASSUME TypeOK, Control, NodeNotForgotten, NEW n \in Nodes,
           NEW what \in Calls, Reschedule(n, what),
           NEW v \in {"scheduled", "immediate"},
           state' = [state EXCEPT ![n] = v],
           \A m \in Nodes, u \in Threads :
              m # n /\ On(u, m) => at'[u] = at[u],
           \A m \in Nodes : m # n /\ WithWorker(m) => WithWorker(m)'
    PROVE  NodeNotForgotten'
<1>1. PICK e \in EventsOf(n) :
              /\ fate'[e] = "pending"
              /\ \A f \in Entries : f \notin EventsOf(n) => fate'[f] = fate[f]
  BY RescheduleEffect
<1>2. Cared(n)'
  BY <1>1 DEF Cared, Pending, EventsOf, TypeOK
<1>3. ASSUME NEW m \in Nodes, m # n PROVE Cared(m)'
  <2>1. \A f \in EventsOf(m) : fate'[f] = fate[f]
    BY <1>1, <1>3, EventsOfNode
  <2>2. Pending(m) => Pending(m)'
    BY <2>1 DEF Pending, EventsOf
  <2>3. \A u \in Threads : On(u, m) => On(u, m)'
    BY <2>1 DEF On, EventsOf
  <2>4. Cared(m) /\ state'[m] = state[m]
    BY <1>3 DEF NodeNotForgotten, Cared, TypeOK
  <2>5. QED
    BY <1>3, <2>2, <2>3, <2>4, CaredKept
<1>4. QED
  BY <1>2, <1>3 DEF NodeNotForgotten, Cared

\* What a thread that stays in its call does for its node, when it does not
\* touch the events or the workers.
LEMMA StayingCared ==
    ASSUME TypeOK, Control, NodeNotForgotten,
           NEW t \in Threads, NEW n \in Nodes, On(t, n),
           NEW where, Goto(t, where), UNCHANGED <<fate, queue, task>>,
           \A m \in Nodes : m # n => state'[m] = state[m],
           \/ /\ at[t] \in {"heuristic", "prepare"}
              /\ where \in {"prepare", "configure", "defer"}
              /\ UNCHANGED state
           \/ /\ at[t] = "configure" /\ where = "grab"
              /\ state'[n] = "active"
           \/ /\ at[t] = "grab" /\ where \in {"pop", "defer"}
              /\ UNCHANGED state
    PROVE  NodeNotForgotten'
<1>1. at'[t] = where /\ \A u \in Threads : u # t => at'[u] = at[u]
  BY DEF Goto, TypeOK
<1>2. \A m \in Nodes : WithWorker(m) <=> WithWorker(m)'
  BY DEF WithWorker
<1>3. \A m \in Nodes : Pending(m) <=> Pending(m)'
  BY DEF Pending, EventsOf
<1>4. \A m \in Nodes, u \in Threads : On(u, m) <=> On(u, m)'
  BY DEF On, EventsOf
<1>5. \A m \in Nodes : m # n => Cared(m)'
  BY <1>1, <1>2, OthersCared
<1>6. Cared(n)
  BY DEF NodeNotForgotten, Cared
<1>7. Cared(n)'
  <2>1. CASE /\ at[t] \in {"heuristic", "prepare"}
             /\ where \in {"prepare", "configure", "defer"}
             /\ UNCHANGED state
    <3>1. InCall(n)'
      BY <1>1, <1>4, <2>1 DEF InCall
    <3>2. Seeking(n) => Seeking(n)'
      BY <1>1, <1>4, <2>1 DEF Seeking
    <3>3. QED
      BY <1>2, <1>6, <2>1, <3>1, <3>2 DEF Cared
  <2>2. CASE at[t] = "configure" /\ where = "grab" /\ state'[n] = "active"
    <3>1. Seeking(n)'
      BY <1>1, <1>4, <2>2 DEF Seeking
    <3>2. QED
      BY <2>2, <3>1 DEF Cared
  <2>3. CASE /\ at[t] = "grab" /\ where \in {"pop", "defer"}
             /\ UNCHANGED state
    <3>1. Seeking(n)'
      BY <1>1, <1>4, <2>3 DEF Seeking
    <3>2. InCall(n) => InCall(n)'
      BY <1>1, <1>4, <2>3 DEF InCall
    <3>3. QED
      BY <1>3, <1>6, <2>3, <3>1, <3>2 DEF Cared
  <2>4. QED
    BY <2>1, <2>2, <2>3
<1>8. QED
  BY <1>5, <1>7 DEF NodeNotForgotten, Cared

\* The end of a call leaves its node with a worker, or with whatever cared
\* for it before.
LEMMA ReturnCared ==
    ASSUME TypeOK, Control, NodeNotForgotten,
           NEW t \in Threads, NEW n \in Nodes, On(t, n), Return(t, n),
           UNCHANGED <<state, task>>,
           \A m \in Nodes : WithWorker(m) => WithWorker(m)',
           \/ at[t] = "configure" /\ state[n] = "active"
           \/ at[t] = "pop" /\ WithWorker(n)'
           \/ at[t] = "return"
    PROVE  NodeNotForgotten'
<1>1. /\ \A u \in Threads : u # t => at'[u] = at[u]
      /\ \A e \in Entries : fate'[e] = "pending" <=> fate[e] = "pending"
      /\ \A e \in Entries : e \notin EventsOf(n) => fate'[e] = fate[e]
      /\ t # Scheduler => fate' = fate
  <2>1. /\ \A u \in Threads : u # t => at'[u] = at[u]
        /\ \A e \in Entries : fate'[e] = "pending" <=> fate[e] = "pending"
        /\ t # Scheduler => fate' = fate
    BY ReturnEffect
  <2>2. \A e \in Entries : e \notin EventsOf(n) => fate'[e] = fate[e]
    BY EventsOfNode DEF Return, Agenda!Finish, TypeOK, Agenda!TypeOK
  <2>3. QED
    BY <2>1, <2>2
<1>2. \A m \in Nodes : m # n => Cared(m)'
  BY <1>1, OthersCared
<1>3. Cared(n)
  BY DEF NodeNotForgotten, Cared
<1>4. \A u \in Threads : u # t /\ On(u, n) => On(u, n)' /\ at'[u] = at[u]
  BY <1>1 DEF On, EventsOf
<1>5. Pending(n) => Pending(n)'
  BY <1>1, EventsOfNode DEF Pending, EventsOf
<1>6. Cared(n)'
  <2>1. CASE at[t] = "configure" /\ state[n] = "active"
    <3>1. Seeking(n) => Seeking(n)'
      BY <1>4, <2>1 DEF Seeking
    <3>2. QED
      BY <1>3, <2>1, <3>1 DEF Cared
  <2>2. CASE at[t] = "pop" /\ WithWorker(n)'
    <3>1. InCall(n) => InCall(n)'
      BY <1>4, <2>2 DEF InCall
    <3>2. QED
      BY <1>3, <1>5, <2>2, <3>1 DEF Cared
  <2>3. CASE at[t] = "return"
    <3>1. InCall(n) => InCall(n)'
      BY <1>4, <2>3 DEF InCall
    <3>2. Seeking(n) => Seeking(n)'
      BY <1>4, <2>3 DEF Seeking
    <3>3. QED
      BY <1>3, <1>5, <3>1, <3>2 DEF Cared
  <2>4. QED
    BY <2>1, <2>2, <2>3
<1>7. QED
  BY <1>2, <1>6 DEF NodeNotForgotten, Cared

\* A worker's step that leaves the threads and events alone, and either the
\* nodes' states or a node it is done with.
LEMMA WorkerCared ==
    ASSUME TypeOK, Control, NodeNotForgotten, UNCHANGED <<at, fate>>,
           \A m \in Nodes :
              \/ state'[m] = "running"
              \/ /\ state'[m] = state[m]
                 /\ state[m] # "active" \/ (WithWorker(m) => WithWorker(m)')
    PROVE  NodeNotForgotten'
<1> SUFFICES ASSUME NEW m \in Nodes PROVE Cared(m)'
  BY DEF NodeNotForgotten, Cared
<1>1. /\ Pending(m) <=> Pending(m)'
      /\ InCall(m) <=> InCall(m)'
      /\ Seeking(m) <=> Seeking(m)'
  BY DEF Pending, InCall, Seeking, On, EventsOf
<1>2. Cared(m)
  BY DEF NodeNotForgotten, Cared
<1>3. QED
  BY <1>1, <1>2 DEF Cared

LEMMA ForgottenStep ==
    TypeOK /\ Control /\ NodeNotForgotten /\ [Next]_vars => NodeNotForgotten'
<1> SUFFICES ASSUME TypeOK, Control, NodeNotForgotten, [Next]_vars
             PROVE  NodeNotForgotten'
  OBVIOUS
<1> USE DEF nodeVars, poolVars, workerVars
<1>a. \A m \in Nodes : UNCHANGED <<queue, task>> =>
                          (WithWorker(m) <=> WithWorker(m)')
  BY DEF WithWorker
<1>b. ASSUME UNCHANGED <<state, at, fate, queue, task>>
      PROVE  NodeNotForgotten'
  BY <1>b, <1>a, WorkerCared
<1>1. CASE BecomeReady \/ Stop
  BY <1>1, <1>b DEF BecomeReady, Stop
<1>2. ASSUME NEW n \in Nodes, Starter(n) PROVE NodeNotForgotten'
  <2>1. /\ n \in Threads /\ On(n, n)
        /\ \A u \in Threads : u # n => at'[u] = at[u]
        /\ \A m \in Nodes : m # n => state'[m] = state[m]
        /\ UNCHANGED <<fate, queue, task>>
        /\ at[n] \in {"idle", "created"}
    BY <1>2, XBeeAssumption
       DEF Starter, Register, SkipConfigure, Configure, GotoRunning, Goto,
           TypeOK, Threads, On
  <2>2. \A m \in Nodes : m # n => Cared(m)'
    BY <1>a, <2>1, OthersCared
  <2>3. Cared(n)'
    <3>1. CASE Register(n)
      <4>1. UNCHANGED state
        BY <3>1 DEF Register
      <4>2. InCall(n) => InCall(n)'
        BY <2>1 DEF InCall, On, EventsOf
      <4>3. Seeking(n) => Seeking(n)'
        BY <2>1 DEF Seeking, On, EventsOf
      <4>4. Pending(n) => Pending(n)'
        BY <2>1 DEF Pending, EventsOf
      <4>5. QED
        BY <1>a, <2>1, <4>1, <4>2, <4>3, <4>4 DEF NodeNotForgotten, Cared
    <3>2. CASE SkipConfigure(n)
      BY <3>2 DEF SkipConfigure, GotoRunning, TypeOK, Cared
    <3>3. CASE Configure(n)
      <4>1. /\ state'[n] = "scheduled" /\ at'[n] = "heuristic"
        BY <2>1, <3>3 DEF Configure, Goto, TypeOK
      <4>2. On(n, n)'
        BY <2>1 DEF On, EventsOf
      <4>3. InCall(n)'
        BY <2>1, <4>1, <4>2 DEF InCall
      <4>4. QED
        BY <4>1, <4>3 DEF Cared
    <3>4. QED
      BY <1>2, <3>1, <3>2, <3>3 DEF Starter
  <2>4. QED
    BY <2>2, <2>3 DEF NodeNotForgotten, Cared
<1>3. ASSUME NEW n \in Nodes, Unregister(n) PROVE NodeNotForgotten'
  BY <1>3, <1>b DEF Unregister
<1>4. ASSUME NEW n \in Nodes, StartEvent(n) PROVE NodeNotForgotten'
  <2>1. PICK e \in EventsOf(n) :
              /\ fate[e] = "pending"
              /\ fate' = [fate EXCEPT ![e] = "running"]
              /\ \A f \in Entries : fate[f] # "running"
              /\ at' = [at EXCEPT ![Scheduler] = at'[Scheduler]]
              /\ at'[Scheduler] \in Calls
    BY <1>4, StartEffect
  <2>2. /\ e \in Entries /\ Scheduler \in Threads
        /\ fate \in [Entries -> {"free", "pending", "running"}]
        /\ at \in [Threads -> Where]
    BY <2>1, EventsOfNode DEF Threads, TypeOK, Agenda!TypeOK, Where
  <2>3. /\ fate'[e] = "running"
        /\ \A f \in Entries : f # e => fate'[f] = fate[f]
        /\ \A u \in Threads : u # Scheduler => at'[u] = at[u]
        /\ UNCHANGED <<state, queue, task>>
    BY <1>4, <2>1, <2>2 DEF StartEvent
  <2>4. \A m \in Nodes : ~On(Scheduler, m)
    BY <2>1, EventsOfNode DEF On
  <2>5. ASSUME NEW m \in Nodes, NEW u \in Threads, On(u, m)
        PROVE  On(u, m)' /\ at'[u] = at[u]
    <3>1. u # Scheduler
      BY <2>4, <2>5
    <3>2. QED
      BY <2>3, <2>5, <3>1 DEF On
  <2>6. ASSUME NEW m \in Nodes, m # n PROVE Cared(m)'
    <3>1. Pending(m) => Pending(m)'
      BY <2>1, <2>3, <2>6, EventsOfNode DEF Pending, EventsOf
    <3>2. Cared(m)
      BY DEF NodeNotForgotten, Cared
    <3>3. QED
      BY <1>a, <2>3, <2>5, <3>1, <3>2, CaredKept
  <2>7. Cared(n)'
    <3>1. On(Scheduler, n)'
      BY <2>1, <2>3 DEF On, EventsOf
    <3>2. InCall(n)'
      BY <2>1, <2>2, <3>1 DEF InCall, Calls
    <3>3. Seeking(n) => Seeking(n)'
      BY <2>5 DEF Seeking
    <3>4. QED
      BY <1>a, <2>3, <3>2, <3>3 DEF NodeNotForgotten, Cared
  <2>8. QED
    BY <2>6, <2>7 DEF NodeNotForgotten, Cared
<1>5. ASSUME NEW n \in Nodes, Receive(n) PROVE NodeNotForgotten'
  BY <1>5, <1>a, DeferredCared, CallNames DEF Receive
<1>6. ASSUME NEW t \in Threads, NEW n \in Nodes,
             Attempt(t, n) \/ BeginPrepare(t, n) \/ GiveWay(t, n)
                \/ Elect(t, n) \/ PrepareFails(t, n)
      PROVE  NodeNotForgotten'
  BY <1>6, StayingCared
     DEF Attempt, BeginPrepare, GiveWay, Elect, PrepareFails
<1>7. ASSUME NEW t \in Threads, PrepareSucceeds(t) \/ Grab(t)
      PROVE  NodeNotForgotten'
  <2>1. CASE \E n \in Nodes : On(t, n)
    BY <1>7, <2>1, StayingCared DEF PrepareSucceeds, Grab
  <2>2. CASE \A n \in Nodes : ~On(t, n)
    <3>1. /\ \A u \in Threads : u # t => at'[u] = at[u]
          /\ UNCHANGED <<state, fate, queue, task>>
      BY <1>7 DEF PrepareSucceeds, Grab, Goto, TypeOK
    <3>2. ASSUME NEW m \in Nodes PROVE Cared(m)'
      <4>1. \A u \in Threads : On(u, m) => On(u, m)' /\ at'[u] = at[u]
        BY <2>2, <3>1 DEF On, EventsOf
      <4>2. Cared(m) /\ (Pending(m) => Pending(m)')
        BY <3>1 DEF NodeNotForgotten, Cared, Pending, EventsOf
      <4>3. QED
        BY <1>a, <3>1, <4>1, <4>2, CaredKept
    <3>3. QED
      BY <3>2 DEF NodeNotForgotten, Cared
  <2>3. QED
    BY <2>1, <2>2
<1>8. ASSUME NEW t \in Threads, NEW n \in Nodes, DeferConfiguration(t, n)
      PROVE  NodeNotForgotten'
  <2>1. /\ On(t, n) /\ Reschedule(n, "heuristic")
        /\ state' = [state EXCEPT ![n] = "scheduled"]
        /\ UNCHANGED <<queue, task>>
        /\ \A u \in Threads : u # t => at'[u] = at[u]
    BY <1>8 DEF DeferConfiguration, Defer, Goto, TypeOK
  <2>2. \A m \in Nodes, u \in Threads : m # n /\ On(u, m) => at'[u] = at[u]
    BY <2>1, OneNodeOn
  <2>3. QED
    BY <1>a, <2>1, <2>2, DeferredCared, CallNames
<1>9. ASSUME NEW t \in Threads, NEW n \in Nodes, Claim(t, n)
      PROVE  NodeNotForgotten'
  <2>1. CASE state[n] = "active"
    BY <1>9, <1>a, <2>1, ReturnCared DEF Claim
  <2>2. CASE state[n] # "active"
    BY <1>9, <2>2, StayingCared DEF Claim, TypeOK
  <2>3. QED
    BY <2>1, <2>2
<1>10. ASSUME NEW t \in Threads, NEW n \in Nodes, Assign(t, n)
       PROVE  NodeNotForgotten'
  <2>1. PICK w \in workers : /\ queue[w] = None
                             /\ queue' = [queue EXCEPT ![w] = n]
    BY <1>10 DEF Assign
  <2>2. w \in Workers /\ queue'[w] = n /\ UNCHANGED <<state, task>>
    BY <1>10, <2>1 DEF Assign, TypeOK
  <2>3. \A m \in Nodes : WithWorker(m) => WithWorker(m)'
    BY <2>1, <2>2, XBeeAssumption DEF WithWorker, TypeOK
  <2>4. WithWorker(n)'
    BY <2>2 DEF WithWorker
  <2>5. QED
    BY <1>10, <2>2, <2>3, <2>4, ReturnCared DEF Assign
<1>11. ASSUME NEW n \in Nodes, ReturnDeferred(n) PROVE NodeNotForgotten'
  BY <1>11, <1>a, ReturnCared DEF ReturnDeferred, Threads
<1>12. ASSUME NEW t \in Threads, NEW n \in Nodes, ThreadStep(t, n)
       PROVE  NodeNotForgotten'
  BY <1>6, <1>7, <1>8, <1>9, <1>10, <1>11, <1>12 DEF ThreadStep
<1>13. ASSUME NEW w \in Workers, TakeTask(w) PROVE NodeNotForgotten'
  <2>1. UNCHANGED <<state, at, fate>>
    BY <1>13 DEF TakeTask
  <2>2. \A m \in Nodes : WithWorker(m) => WithWorker(m)'
    BY <1>13, XBeeAssumption
       DEF TakeTask, WithWorker, Control, TaskKnown, TypeOK
  <2>3. QED
    BY <2>1, <2>2, WorkerCared
<1>14. ASSUME NEW w \in Workers,
              ApplySucceeds(w) \/ ApplyEnds(w) \/ AppendWorker(w)
                 \/ ReleaseSemaphore(w) \/ Quit(w)
       PROVE  NodeNotForgotten'
  BY <1>14, <1>b
     DEF ApplySucceeds, ApplyEnds, AppendWorker, ReleaseSemaphore, Quit
<1>15. ASSUME NEW w \in Workers, CheckDone(w) PROVE NodeNotForgotten'
  <2>1. UNCHANGED <<state, at, fate, queue>>
    BY <1>15 DEF CheckDone
  <2>2. \A m \in Nodes : state[m] = "active" /\ WithWorker(m) => WithWorker(m)'
    BY <1>15 DEF CheckDone, WithWorker, TypeOK
  <2>3. QED
    BY <2>1, <2>2, WorkerCared
<1>16. ASSUME NEW w \in Workers, WorkerDefers(w) PROVE NodeNotForgotten'
  <2>1. /\ task[w] \in Nodes
        /\ Reschedule(task[w], "heuristic")
        /\ state' = [state EXCEPT ![task[w]] = "scheduled"]
        /\ task' = [task EXCEPT ![w] = None]
        /\ UNCHANGED <<at, queue>>
    BY <1>16 DEF WorkerDefers, Defer, Control, TaskKnown
  <2>2. \A m \in Nodes : m # task[w] /\ WithWorker(m) => WithWorker(m)'
    BY <2>1 DEF WithWorker, TypeOK
  <2>3. QED
    BY <2>1, <2>2, DeferredCared, CallNames
<1>17. ASSUME NEW w \in Workers, Promote(w) PROVE NodeNotForgotten'
  <2>1. /\ task[w] \in Nodes
        /\ state' = [state EXCEPT ![task[w]] = "running"]
        /\ task' = [task EXCEPT ![w] = None]
        /\ UNCHANGED <<at, fate, queue>>
    BY <1>17 DEF Promote, GotoRunning, Control, TaskKnown
  <2>2. \A m \in Nodes : m # task[w] /\ WithWorker(m) => WithWorker(m)'
    BY <2>1 DEF WithWorker, TypeOK
  <2>3. \A m \in Nodes : \/ state'[m] = "running"
                         \/ state'[m] = state[m] /\ m # task[w]
    BY <2>1 DEF TypeOK
  <2>4. QED
    BY <2>1, <2>2, <2>3, WorkerCared
<1>18. CASE UNCHANGED vars
  BY <1>18, <1>b DEF vars
<1>19. QED
  BY <1>1, <1>2, <1>3, <1>4, <1>5, <1>12, <1>13, <1>14, <1>15, <1>16, <1>17,
     <1>18 DEF Next, WorkerStep
-----------------------------------------------------------------------------
(* The theorems.                                                           *)

LEMMA InitInv == Init => IInv
<1> SUFFICES ASSUME Init PROVE IInv
  OBVIOUS
<1>1. TypeOK
  <2>1. semaphore \in Nat
    BY XBeeAssumption, FS_CardinalityType DEF Init
  <2>2. 0 \in 0..1
    OBVIOUS
  <2>3. QED
    BY <2>1, <2>2 DEF Init, Agenda!Init, TypeOK, Agenda!TypeOK
<1>2. Control
  BY DEF Init, Agenda!Init, Control, OneRunning, HandlesOwn, TaskKnown,
         HandleIsCurrent, EventsOf, Entries
<1>3. NodeNotForgotten
  BY DEF Init, NodeNotForgotten
<1>4. QED
  BY <1>1, <1>2, <1>3 DEF IInv

LEMMA Invariance == Spec => []IInv
<1>1. IInv /\ [Next]_vars => IInv'
  BY TypeStep, ControlStep, ForgottenStep DEF IInv
<1>2. QED
  BY InitInv, <1>1, PTL DEF Spec

\* Type correctness of the manager's model.
THEOREM TypeCorrect == Spec => []TypeOK
<1>1. IInv => TypeOK
  BY DEF IInv
<1>2. QED
  BY Invariance, <1>1, PTL

\* The pending event of a node is the one that __config_sched_handle of the
\* node refers to, so that the next call to cancel it does.
THEOREM HandleCurrent == Spec => []HandleIsCurrent
<1>1. IInv => HandleIsCurrent
  BY DEF IInv, Control
<1>2. QED
  BY Invariance, <1>1, PTL

\* No interleaving of the starters, the scheduler thread, the workers and the
\* frames received leaves a node that waits for its configuration without an
\* event, a thread or a worker that goes on with it.
THEOREM NoNodeForgotten == Spec => []NodeNotForgotten
<1>1. IInv => NodeNotForgotten
  BY DEF IInv
<1>2. QED
  BY Invariance, <1>1, PTL

-----------------------------------------------------------------------------
(***************************************************************************)
(* What the pool of workers relies on.                                     *)
(*                                                                         *)
(* The list of free workers and the semaphore that counts them are changed *)
(* one after the other, by different threads and without a lock.  Three    *)
(* things make that right.  A worker enters the list before its token is   *)
(* released and leaves it after its token was taken; a worker in the list  *)
(* has an empty queue; and a node that does not sleep is in one pair of    *)
(* hands at a time, a thread's, a queue's or a worker's, since its state   *)
(* says so for as long as it is.                                           *)
(***************************************************************************)

(* The list of workers and the semaphore.                                  *)

Releasing == {w \in Workers : wat[w] = "release"}

\* Every token, taken, on its way back or there, is for a worker of the list.
Tokens ==
    /\ IsFiniteSet(Popping)
    /\ semaphore + Cardinality(Popping) + Cardinality(Releasing)
          <= Cardinality(workers)

\* A worker at work is not in the list, and no worker has two tasks unless it
\* has all but done with the first.
Placing ==
    /\ \A w \in workers : queue[w] = None
    /\ \A w \in Workers : wat[w] \in {"apply", "append"}
                             => w \notin workers /\ queue[w] = None

PoolInv == Tokens /\ Placing

LEMMA FiniteWorkers ==
    ASSUME TypeOK
    PROVE  /\ IsFiniteSet(workers) /\ Cardinality(workers) \in Nat
           /\ IsFiniteSet(Releasing) /\ Cardinality(Releasing) \in Nat
<1>1. workers \subseteq Workers /\ Releasing \subseteq Workers
  BY DEF TypeOK, Releasing
<1>2. QED
  BY <1>1, XBeeAssumption, FS_Subset, FS_CardinalityType

\* A thread that neither comes to the list nor leaves it.
LEMMA PoppingKept ==
    ASSUME TypeOK, NEW t \in Threads, at[t] # "pop", at'[t] # "pop",
           \A u \in Threads : u # t => at'[u] = at[u]
    PROVE  Popping' = Popping
  BY DEF Popping

\* What is left of the accounting when a step moves no token.
LEMMA PoolKept ==
    ASSUME PoolInv, UNCHANGED poolVars, UNCHANGED wat, Popping' = Popping
    PROVE  PoolInv'
<1>1. Releasing' = Releasing
  BY DEF Releasing
<1>2. QED
  BY <1>1 DEF PoolInv, Tokens, Placing, poolVars

LEMMA PoolGrab ==
    ASSUME TypeOK, PoolInv, NEW t \in Threads, Grab(t)
    PROVE  PoolInv'
<1>1. at[t] = "grab" /\ UNCHANGED <<workers, queue, wat>>
  BY DEF Grab, workerVars
<1>2. Placing' /\ Releasing' = Releasing
  BY <1>1 DEF PoolInv, Placing, Releasing
<1>3. CASE semaphore > 0
  <2>1. semaphore' = semaphore - 1 /\ Popping' = Popping \cup {t}
    BY <1>3 DEF Grab, Goto, TypeOK, Popping
  <2>2. t \notin Popping
    BY <1>1 DEF Popping
  <2>3. /\ IsFiniteSet(Popping')
        /\ Cardinality(Popping') = Cardinality(Popping) + 1
        /\ Cardinality(Popping) \in Nat
    BY <2>1, <2>2, FS_AddElement, FS_CardinalityType DEF PoolInv, Tokens
  <2>4. QED
    BY <1>1, <1>2, <2>1, <2>3, FiniteWorkers DEF PoolInv, Tokens, TypeOK
<1>4. CASE ~(semaphore > 0)
  <2>1. Popping' = Popping /\ UNCHANGED semaphore
    BY <1>4 DEF Grab, Goto, TypeOK, Popping
  <2>2. QED
    BY <1>1, <1>2, <2>1 DEF PoolInv, Tokens
<1>5. QED
  BY <1>3, <1>4

LEMMA PoolAssign ==
    ASSUME TypeOK, PoolInv, NEW t \in Threads, NEW n \in Nodes, Assign(t, n)
    PROVE  PoolInv'
<1>1. PICK w \in workers : /\ workers' = workers \ {w}
                           /\ queue' = [queue EXCEPT ![w] = n]
  BY DEF Assign
<1>2. /\ at[t] = "pop" /\ at'[t] # "pop"
      /\ \A u \in Threads : u # t => at'[u] = at[u]
      /\ UNCHANGED <<semaphore, wat>>
  BY ReturnEffect DEF Assign, workerVars
<1>3. Popping' = Popping \ {t} /\ t \in Popping
  BY <1>2 DEF Popping
<1>4. /\ IsFiniteSet(Popping')
      /\ Cardinality(Popping') = Cardinality(Popping) - 1
      /\ Cardinality(Popping) \in Nat
  BY <1>3, FS_RemoveElement, FS_CardinalityType DEF PoolInv, Tokens
<1>5. Cardinality(workers') = Cardinality(workers) - 1
  BY <1>1, FiniteWorkers, FS_RemoveElement
<1>6. Releasing' = Releasing
  BY <1>2 DEF Releasing
<1>7. Tokens'
  BY <1>2, <1>4, <1>5, <1>6, FiniteWorkers DEF PoolInv, Tokens, TypeOK
<1>8. Placing'
  BY <1>1, <1>2 DEF PoolInv, Placing, TypeOK
<1>9. QED
  BY <1>7, <1>8 DEF PoolInv

LEMMA PoolWorker ==
    ASSUME TypeOK, PoolInv, NEW w \in Workers, WorkerStep(w)
    PROVE  PoolInv'
<1> USE DEF poolVars, workerVars, nodeVars
<1>a. Popping' = Popping
  BY DEF WorkerStep, TakeTask, ApplySucceeds, ApplyEnds, AppendWorker,
         ReleaseSemaphore, CheckDone, WorkerDefers, Promote, Quit, Popping
<1>1. CASE TakeTask(w)
  <2>1. Releasing' = Releasing
    BY <1>1 DEF TakeTask, Releasing, TypeOK
  <2>2. w \notin workers
    BY <1>1 DEF TakeTask, PoolInv, Placing
  <2>3. Placing'
    BY <1>1, <2>2 DEF TakeTask, PoolInv, Placing, TypeOK
  <2>4. QED
    BY <1>1, <1>a, <2>1, <2>3 DEF TakeTask, PoolInv, Tokens
<1>2. CASE ApplySucceeds(w)
  BY <1>2, <1>a, PoolKept DEF ApplySucceeds
<1>3. CASE ApplyEnds(w)
  <2>1. Releasing' = Releasing
    BY <1>3 DEF ApplyEnds, Releasing, TypeOK
  <2>2. Placing'
    BY <1>3 DEF ApplyEnds, PoolInv, Placing, TypeOK
  <2>3. QED
    BY <1>3, <1>a, <2>1, <2>2 DEF ApplyEnds, PoolInv, Tokens
<1>4. CASE AppendWorker(w)
  <2>1. w \notin workers /\ queue[w] = None /\ w \notin Releasing
    BY <1>4 DEF AppendWorker, PoolInv, Placing, Releasing
  <2>2. workers' = workers \cup {w} /\ Releasing' = Releasing \cup {w}
    BY <1>4 DEF AppendWorker, Releasing, TypeOK
  <2>3. /\ Cardinality(workers') = Cardinality(workers) + 1
        /\ Cardinality(Releasing') = Cardinality(Releasing) + 1
    BY <2>1, <2>2, FiniteWorkers, FS_AddElement
  <2>4. Cardinality(Popping) \in Nat
    BY FS_CardinalityType DEF PoolInv, Tokens
  <2>5. Tokens'
    BY <1>4, <1>a, <2>3, <2>4, FiniteWorkers
       DEF AppendWorker, PoolInv, Tokens, TypeOK
  <2>6. Placing'
    BY <1>4, <2>1 DEF AppendWorker, PoolInv, Placing, TypeOK
  <2>7. QED
    BY <2>5, <2>6 DEF PoolInv
<1>5. CASE ReleaseSemaphore(w)
  <2>1. w \in Releasing /\ Releasing' = Releasing \ {w}
    BY <1>5 DEF ReleaseSemaphore, Releasing, TypeOK
  <2>2. Cardinality(Releasing') = Cardinality(Releasing) - 1
    BY <2>1, FiniteWorkers, FS_RemoveElement
  <2>3. Cardinality(Popping) \in Nat
    BY FS_CardinalityType DEF PoolInv, Tokens
  <2>4. Tokens'
    BY <1>5, <1>a, <2>2, <2>3, FiniteWorkers
       DEF ReleaseSemaphore, PoolInv, Tokens, TypeOK
  <2>5. Placing'
    BY <1>5 DEF ReleaseSemaphore, PoolInv, Placing, TypeOK
  <2>6. QED
    BY <2>4, <2>5 DEF PoolInv
<1>6. CASE CheckDone(w) \/ WorkerDefers(w) \/ Promote(w) \/ Quit(w)
  <2>1. /\ UNCHANGED <<semaphore, workers, queue>>
        /\ wat[w] \in {"check", "defer", "promote", "get"}
        /\ \A v \in Workers : v # w => wat'[v] = wat[v]
        /\ wat'[w] \in {"get", "promote", "defer", "ended"}
    BY <1>6 DEF CheckDone, WorkerDefers, Promote, Quit, TypeOK
  <2>2. Releasing' = Releasing
    BY <2>1 DEF Releasing
  <2>3. Placing'
    BY <2>1 DEF PoolInv, Placing
  <2>4. QED
    BY <1>a, <2>1, <2>2, <2>3 DEF PoolInv, Tokens
<1>7. QED
  BY <1>1, <1>2, <1>3, <1>4, <1>5, <1>6 DEF WorkerStep

LEMMA PoolStep == TypeOK /\ Control /\ PoolInv /\ [Next]_vars => PoolInv'
<1> SUFFICES ASSUME TypeOK, Control, PoolInv, [Next]_vars PROVE PoolInv'
  OBVIOUS
<1> USE DEF nodeVars, workerVars
<1>1. CASE BecomeReady \/ Stop \/ UNCHANGED vars
  BY <1>1, PoolKept DEF BecomeReady, Stop, vars, Popping
<1>2. ASSUME NEW n \in Nodes, Starter(n) \/ Unregister(n) \/ Receive(n)
      PROVE  PoolInv'
  <2>1. UNCHANGED poolVars /\ UNCHANGED wat
    BY <1>2 DEF Starter, Register, SkipConfigure, Configure, Unregister,
                Receive
  <2>2. n \in Threads
    BY DEF Threads
  <2>3. \/ /\ at[n] # "pop" /\ at'[n] # "pop"
           /\ \A u \in Threads : u # n => at'[u] = at[u]
        \/ UNCHANGED at
    BY <1>2, <2>2 DEF Starter, Register, SkipConfigure, Configure, Unregister,
                      Receive, Goto, TypeOK
  <2>4. Popping' = Popping
    BY <2>2, <2>3, PoppingKept DEF Popping
  <2>5. QED
    BY <2>1, <2>4, PoolKept
<1>3. ASSUME NEW n \in Nodes, StartEvent(n) PROVE PoolInv'
  <2>1. UNCHANGED poolVars /\ UNCHANGED wat
    BY <1>3 DEF StartEvent
  <2>2. at'[Scheduler] \in Calls
    BY <1>3, StartEffect
  <2>3. \A u \in Threads : u # Scheduler => at'[u] = at[u]
    BY <1>3 DEF StartEvent, Goto, TypeOK
  <2>4. Scheduler \in Threads /\ at'[Scheduler] # "pop"
    BY <2>2 DEF Calls, Threads
  <2>5. Scheduler \notin Popping'
    BY <2>4 DEF Popping
  <2>6. Popping' = Popping \ {Scheduler}
    BY <2>3, <2>5 DEF Popping
  <2>7. /\ IsFiniteSet(Popping') /\ Cardinality(Popping') \in Nat
        /\ Cardinality(Popping) \in Nat
        /\ Cardinality(Popping') <= Cardinality(Popping)
    BY <2>6, FS_Subset, FS_CardinalityType DEF PoolInv, Tokens
  <2>8. Releasing' = Releasing
    BY <2>1 DEF Releasing
  <2>9. QED
    BY <2>1, <2>7, <2>8, FiniteWorkers
       DEF PoolInv, Tokens, Placing, poolVars, TypeOK
<1>4. ASSUME NEW t \in Threads, NEW n \in Nodes,
             Attempt(t, n) \/ BeginPrepare(t, n) \/ GiveWay(t, n)
                \/ Elect(t, n) \/ PrepareSucceeds(t) \/ PrepareFails(t, n)
                \/ DeferConfiguration(t, n)
      PROVE  PoolInv'
  <2>1. UNCHANGED poolVars /\ UNCHANGED wat
    BY <1>4 DEF Attempt, BeginPrepare, GiveWay, Elect, PrepareSucceeds,
                PrepareFails, DeferConfiguration
  <2>2. /\ at[t] # "pop" /\ at'[t] # "pop"
        /\ \A u \in Threads : u # t => at'[u] = at[u]
    BY <1>4 DEF Attempt, BeginPrepare, GiveWay, Elect, PrepareSucceeds,
                PrepareFails, DeferConfiguration, Goto, TypeOK
  <2>3. QED
    BY <2>1, <2>2, PoppingKept, PoolKept
<1>5. ASSUME NEW t \in Threads, NEW n \in Nodes, Claim(t, n)
      PROVE  PoolInv'
  <2>1. UNCHANGED poolVars /\ UNCHANGED wat /\ at[t] = "configure"
    BY <1>5 DEF Claim
  <2>2. at'[t] # "pop" /\ \A u \in Threads : u # t => at'[u] = at[u]
    BY <1>5, ReturnEffect DEF Claim, Goto, TypeOK
  <2>3. QED
    BY <2>1, <2>2, PoppingKept, PoolKept
<1>6. ASSUME NEW n \in Nodes, ReturnDeferred(n) PROVE PoolInv'
  <2>1. /\ UNCHANGED poolVars /\ UNCHANGED wat /\ at[Scheduler] = "return"
        /\ Scheduler \in Threads
    BY <1>6 DEF ReturnDeferred, Threads
  <2>2. /\ at'[Scheduler] # "pop"
        /\ \A u \in Threads : u # Scheduler => at'[u] = at[u]
    BY <1>6, <2>1, ReturnEffect DEF ReturnDeferred
  <2>3. QED
    BY <2>1, <2>2, PoppingKept, PoolKept
<1>7. ASSUME NEW t \in Threads, NEW n \in Nodes, ThreadStep(t, n)
      PROVE  PoolInv'
  BY <1>4, <1>5, <1>6, <1>7, PoolGrab, PoolAssign DEF ThreadStep
<1>8. QED
  BY <1>1, <1>2, <1>3, <1>7, PoolWorker DEF Next

LEMMA PoolInit == Init => PoolInv
<1> SUFFICES ASSUME Init PROVE PoolInv
  OBVIOUS
<1>1. Popping = {} /\ Releasing = {}
  BY DEF Init, Popping, Releasing
<1>2. Cardinality(Workers) \in Nat
  BY XBeeAssumption, FS_CardinalityType
<1>3. QED
  BY <1>1, <1>2, FS_EmptySet DEF Init, PoolInv, Tokens, Placing

\* Whoever took a token of __worker_semaphore finds a free worker in the list
\* __workers, with room in its queue, for any number of workers and callers.
THEOREM WorkerForEveryToken == Spec => []WorkersAvailable
<1>1. IInv /\ PoolInv => WorkersAvailable
  <2> SUFFICES ASSUME IInv, PoolInv PROVE WorkersAvailable
    OBVIOUS
  <2>1. /\ Cardinality(workers) \in Nat /\ Cardinality(Releasing) \in Nat
        /\ Cardinality(Popping) \in Nat /\ semaphore \in Nat
    BY FiniteWorkers, FS_CardinalityType DEF IInv, TypeOK, PoolInv, Tokens
  <2>2. semaphore + Cardinality(Popping) <= Cardinality(workers)
    BY <2>1 DEF PoolInv, Tokens
  <2>3. QED
    BY <2>2 DEF WorkersAvailable, PoolInv, Placing
<1>2. IInv /\ PoolInv /\ [Next]_vars => PoolInv'
  BY PoolStep DEF IInv
<1>3. QED
  BY PoolInit, <1>1, <1>2, Invariance, PTL DEF Spec

-----------------------------------------------------------------------------
(* The blocks of a node.                                                   *)

\* A worker that is about to promote its node has seen it complete.
PromotesComplete ==
    \A w \in Workers : wat[w] = "promote" => complete[task[w]] = 1..Blocks

BlocksInv == PromotesComplete /\ ConfiguredInFull

\* Blocks are added in order, so that the last one ends the set.
LEMMA ApplyInOrder ==
    ASSUME IInv, BlocksInv, NEW w \in Workers, ApplySucceeds(w)
    PROVE  /\ \A n \in Nodes : complete[n] = 1..Blocks
                                  => complete'[n] = 1..Blocks
           /\ \A n \in Nodes \ SkipList :
                 Blocks \in complete'[n] => complete'[n] = 1..Blocks
<1>1. task[w] \in Nodes
  BY DEF ApplySucceeds, IInv, Control, TaskKnown
<1>2. PICK b \in 1..Blocks :
            /\ b \notin complete[task[w]]
            /\ \A c \in 1..(b - 1) : c \in complete[task[w]]
            /\ complete' = [complete EXCEPT ![task[w]] = @ \cup {b}]
  BY DEF ApplySucceeds, IsNext
<1>3. complete \in [Nodes -> SUBSET (1..Blocks)] /\ Blocks \in Nat \ {0}
  BY XBeeAssumption DEF IInv, TypeOK
<1>4. /\ complete'[task[w]] = complete[task[w]] \cup {b}
      /\ \A n \in Nodes : n # task[w] => complete'[n] = complete[n]
  BY <1>1, <1>2, <1>3
<1>5. b = Blocks => complete'[task[w]] = 1..Blocks
  <2>1. ASSUME b = Blocks, NEW i \in 1..Blocks
        PROVE  i \in complete[task[w]] \cup {b}
    BY <1>2, <1>3, <2>1
  <2>2. complete[task[w]] \cup {b} \subseteq 1..Blocks
    BY <1>1, <1>3
  <2>3. QED
    BY <1>4, <2>1, <2>2
<1>6. \A n \in Nodes : complete[n] = 1..Blocks => complete'[n] = 1..Blocks
  BY <1>2, <1>4
<1>7. ASSUME NEW n \in Nodes \ SkipList, Blocks \in complete'[n]
      PROVE  complete'[n] = 1..Blocks
  <2>1. CASE b = Blocks /\ n = task[w]
    BY <1>5, <2>1
  <2>2. CASE ~(b = Blocks /\ n = task[w])
    <3>1. Blocks \in complete[n]
      BY <1>4, <1>7, <2>2
    <3>2. complete[n] = 1..Blocks
      BY <3>1 DEF BlocksInv, ConfiguredInFull
    <3>3. QED
      BY <1>6, <3>2
  <2>3. QED
    BY <2>1, <2>2
<1>8. QED
  BY <1>6, <1>7

LEMMA BlocksKept ==
    ASSUME IInv, BlocksInv, UNCHANGED <<complete, wat, task>>,
           \A n \in Nodes \ SkipList :
              state'[n] = state[n] \/ state'[n] # "running"
    PROVE  BlocksInv'
  BY DEF BlocksInv, PromotesComplete, ConfiguredInFull

LEMMA BlocksWorker ==
    ASSUME IInv, BlocksInv, NEW w \in Workers, WorkerStep(w)
    PROVE  BlocksInv'
<1> USE DEF poolVars, nodeVars
<1>a. /\ wat \in [Workers -> {"get", "apply", "append", "release", "check",
                              "defer", "promote", "ended"}]
      /\ task \in [Workers -> Nodes \cup {None}]
      /\ state \in [Nodes -> {"initializing", "scheduled", "immediate",
                              "active", "running"}]
  BY DEF IInv, TypeOK
<1>1. CASE ApplySucceeds(w)
  <2>1. UNCHANGED <<wat, task, state>>
    BY <1>1 DEF ApplySucceeds, workerVars
  <2>2. \A v \in Workers : wat[v] = "promote" => task[v] \in Nodes
    BY DEF IInv, Control, TaskKnown
  <2>3. PromotesComplete'
    BY <1>1, <2>1, <2>2, ApplyInOrder DEF BlocksInv, PromotesComplete
  <2>4. ConfiguredInFull'
    BY <1>1, <2>1, ApplyInOrder DEF BlocksInv, ConfiguredInFull
  <2>5. QED
    BY <2>3, <2>4 DEF BlocksInv
<1>2. CASE TakeTask(w)
  <2>1. PromotesComplete'
    BY <1>2, <1>a DEF TakeTask, BlocksInv, PromotesComplete
  <2>2. QED
    BY <1>2, <2>1 DEF TakeTask, BlocksInv, ConfiguredInFull
<1>3. CASE ApplyEnds(w) \/ AppendWorker(w) \/ ReleaseSemaphore(w) \/ Quit(w)
  <2>1. UNCHANGED <<complete, state, task>>
    BY <1>3 DEF ApplyEnds, AppendWorker, ReleaseSemaphore, Quit
  <2>2. \A v \in Workers : wat'[v] = "promote" => wat[v] = "promote"
    BY <1>3, <1>a DEF ApplyEnds, AppendWorker, ReleaseSemaphore, Quit
  <2>3. QED
    BY <2>1, <2>2 DEF BlocksInv, PromotesComplete, ConfiguredInFull
<1>4. CASE CheckDone(w)
  <2>1. UNCHANGED <<complete, state>>
    BY <1>4 DEF CheckDone
  <2>2. PromotesComplete'
    BY <1>4, <1>a, <2>1 DEF CheckDone, BlocksInv, PromotesComplete
  <2>3. QED
    BY <2>1, <2>2 DEF BlocksInv, ConfiguredInFull
<1>5. CASE WorkerDefers(w)
  <2>1. PromotesComplete'
    BY <1>5, <1>a DEF WorkerDefers, Defer, BlocksInv, PromotesComplete
  <2>2. ConfiguredInFull'
    BY <1>5, <1>a DEF WorkerDefers, Defer, BlocksInv, ConfiguredInFull
  <2>3. QED
    BY <2>1, <2>2 DEF BlocksInv
<1>6. CASE Promote(w)
  <2>1. complete[task[w]] = 1..Blocks
    BY <1>6 DEF Promote, BlocksInv, PromotesComplete
  <2>2. PromotesComplete'
    BY <1>6, <1>a DEF Promote, GotoRunning, BlocksInv, PromotesComplete
  <2>3. ConfiguredInFull'
    BY <1>6, <1>a, <2>1
       DEF Promote, GotoRunning, BlocksInv, ConfiguredInFull
  <2>4. QED
    BY <2>2, <2>3 DEF BlocksInv
<1>7. QED
  BY <1>1, <1>2, <1>3, <1>4, <1>5, <1>6 DEF WorkerStep

LEMMA BlocksStep == IInv /\ BlocksInv /\ [Next]_vars => BlocksInv'
<1> SUFFICES ASSUME IInv, BlocksInv, [Next]_vars PROVE BlocksInv'
  OBVIOUS
<1> USE DEF nodeVars, workerVars
<1>a. state \in [Nodes -> {"initializing", "scheduled", "immediate",
                           "active", "running"}]
  BY DEF IInv, TypeOK
<1>1. CASE BecomeReady \/ Stop \/ UNCHANGED vars
  BY <1>1, BlocksKept DEF BecomeReady, Stop, vars
<1>2. ASSUME NEW n \in Nodes,
             Starter(n) \/ Unregister(n) \/ StartEvent(n) \/ Receive(n)
      PROVE  BlocksInv'
  BY <1>2, <1>a, BlocksKept
     DEF Starter, Register, SkipConfigure, Configure, GotoRunning, Unregister,
         StartEvent, Receive
<1>3. ASSUME NEW t \in Threads, NEW n \in Nodes, ThreadStep(t, n)
      PROVE  BlocksInv'
  <2>1. UNCHANGED <<complete, wat, task>>
    BY <1>3 DEF ThreadStep, Attempt, BeginPrepare, GiveWay, Elect,
                PrepareSucceeds, PrepareFails, DeferConfiguration, Defer,
                Claim, Grab, Assign, ReturnDeferred
  <2>2. \A m \in Nodes : state'[m] = state[m] \/ state'[m] # "running"
    BY <1>3, <1>a DEF ThreadStep, Attempt, BeginPrepare, GiveWay, Elect,
                PrepareSucceeds, PrepareFails, DeferConfiguration, Defer,
                Claim, Grab, Assign, ReturnDeferred
  <2>3. QED
    BY <2>1, <2>2, BlocksKept
<1>4. QED
  BY <1>1, <1>2, <1>3, BlocksWorker DEF Next

\* A node that the manager configured itself has all its blocks, the final
\* write came last, and no thread promotes a node that has not.
THEOREM RunningInFull == Spec => []ConfiguredInFull
<1>1. Init => BlocksInv
  BY XBeeAssumption
     DEF Init, BlocksInv, PromotesComplete, ConfiguredInFull
<1>2. BlocksInv => ConfiguredInFull
  BY DEF BlocksInv
<1>3. QED
  BY <1>1, <1>2, BlocksStep, Invariance, PTL DEF Spec

-----------------------------------------------------------------------------
(* Nodes that do not sleep.                                                *)

\* A thread has a node in hand from the moment it has marked it active until
\* it has given it to a worker or taken it back.
InHand(t, n) == On(t, n) /\ at[t] \in {"grab", "pop", "defer"}

\* All the hands a node is in.
Hands(n) == ({"thread"} \X {t \in Threads : InHand(t, n)})
       \cup ({"queue"} \X {w \in Workers : queue[w] = n})
       \cup ({"task"} \X {w \in Workers : task[w] = n})

Steady(n) ==
    /\ \A x, y \in Hands(n) : x = y
    /\ Hands(n) # {} => state[n] = "active"
    /\ at[n] \in {"idle", "created"} => state[n] = "initializing"
    /\ state[n] = "initializing" => \A e \in EventsOf(n) : fate[e] = "free"
    /\ \A t \in Threads : On(t, n) => at[t] # "prepare"

SteadyInv == \A n \in Nodes \ Sleepy : Steady(n)

LEMMA HandsOf ==
    ASSUME NEW n \in Nodes
    PROVE  /\ \A t : <<"thread", t>> \in Hands(n)
                        <=> t \in Threads /\ InHand(t, n)
           /\ \A w : <<"queue", w>> \in Hands(n)
                        <=> w \in Workers /\ queue[w] = n
           /\ \A w : <<"task", w>> \in Hands(n)
                        <=> w \in Workers /\ task[w] = n
           /\ \A x \in Hands(n) : \/ \E t \in Threads : x = <<"thread", t>>
                                  \/ \E w \in Workers : x = <<"queue", w>>
                                  \/ \E w \in Workers : x = <<"task", w>>
  BY DEF Hands

LEMMA HandsOfNext ==
    ASSUME NEW n \in Nodes
    PROVE  /\ \A t : <<"thread", t>> \in Hands(n)'
                        <=> t \in Threads /\ InHand(t, n)'
           /\ \A w : <<"queue", w>> \in Hands(n)'
                        <=> w \in Workers /\ queue'[w] = n
           /\ \A w : <<"task", w>> \in Hands(n)'
                        <=> w \in Workers /\ task'[w] = n
           /\ \A x \in Hands(n)' : \/ \E t \in Threads : x = <<"thread", t>>
                                   \/ \E w \in Workers : x = <<"queue", w>>
                                   \/ \E w \in Workers : x = <<"task", w>>
  BY DEF Hands

\* A step gives a node into no new hands, if it gives it to no thread, no
\* queue and no worker.
LEMMA NoNewHand ==
    ASSUME NEW n \in Nodes,
           \A t \in Threads : InHand(t, n)' => InHand(t, n),
           \A w \in Workers : queue'[w] = n => queue[w] = n,
           \A w \in Workers : task'[w] = n => task[w] = n
    PROVE  Hands(n)' \subseteq Hands(n)
  BY HandsOf, HandsOfNext

\* What keeps a node steady whose state stays as it is.
LEMMA SteadyKept ==
    ASSUME NEW n \in Nodes, Steady(n), state'[n] = state[n],
           Hands(n)' \subseteq Hands(n),
           \A e \in EventsOf(n) : fate[e] = "free" => fate'[e] = "free",
           at'[n] \in {"idle", "created"} => at[n] \in {"idle", "created"},
           \A t \in Threads : On(t, n)' /\ at'[t] = "prepare"
                                 => On(t, n) /\ at[t] = "prepare"
    PROVE  Steady(n)'
<1>1. \A x, y \in Hands(n)' : x = y
  BY DEF Steady
<1>2. Hands(n)' # {} => state'[n] = "active"
  BY DEF Steady
<1>3. at'[n] \in {"idle", "created"} => state'[n] = "initializing"
  BY DEF Steady
<1>4. state'[n] = "initializing" => \A e \in EventsOf(n) : fate'[e] = "free"
  BY DEF Steady
<1>5. \A t \in Threads : On(t, n)' => at'[t] # "prepare"
  BY DEF Steady
<1>6. EventsOf(n)' = EventsOf(n)
  BY DEF EventsOf
<1>7. QED
  BY <1>1, <1>2, <1>3, <1>4, <1>5, <1>6 DEF Steady

\* And what makes it steady in a state other than the first.
LEMMA SteadyAgain ==
    ASSUME NEW n \in Nodes, state'[n] # "initializing",
           \A x, y \in Hands(n)' : x = y,
           Hands(n)' # {} => state'[n] = "active",
           at'[n] \notin {"idle", "created"},
           \A t \in Threads : On(t, n)' => at'[t] # "prepare"
    PROVE  Steady(n)'
  BY DEF Steady

\* The threads that are on a node, when a step leaves its events alone.
LEMMA OnKept ==
    ASSUME NEW n \in Nodes, \A e \in EventsOf(n) : fate'[e] = fate[e]
    PROVE  \A t \in Threads : On(t, n)' <=> On(t, n)
  BY DEF On, EventsOf

\* A step of a thread for its node, or of a worker for its task, leaves the
\* other nodes as steady as they are.
LEMMA OtherSteady ==
    ASSUME IInv, SteadyInv, NEW n \in Nodes, NEW m \in Nodes \ Sleepy, m # n,
           state'[m] = state[m],
           \A e \in Entries : e \notin EventsOf(n) => fate'[e] = fate[e],
           \A t \in Threads : On(t, n) \/ at'[t] = at[t],
           \A w \in Workers : queue'[w] = m => queue[w] = m,
           \A w \in Workers : task'[w] = m => task[w] = m
    PROVE  Steady(m)'
<1>1. \A e \in EventsOf(m) : fate'[e] = fate[e]
  BY EventsOfNode
<1>2. \A t \in Threads : On(t, m)' <=> On(t, m)
  BY <1>1, OnKept
<1>3. \A t \in Threads : On(t, m) => at'[t] = at[t]
  BY OneNodeOn DEF IInv
<1>4. m \in Threads /\ On(m, m)
  BY XBeeAssumption DEF Threads, On
<1>5. Hands(m)' \subseteq Hands(m)
  BY <1>2, <1>3, NoNewHand DEF InHand
<1>6. QED
  BY <1>1, <1>2, <1>3, <1>4, <1>5, SteadyKept DEF SteadyInv

\* Nobody has a node in hand that is not active, and a node at its start is
\* on no thread but its starter's.
LEMMA SteadyFacts ==
    ASSUME IInv, SteadyInv, NEW n \in Nodes \ Sleepy
    PROVE  /\ Steady(n)
           /\ state[n] # "active" => Hands(n) = {}
           /\ at[n] \in {"idle", "created"} => ~On(Scheduler, n)
           /\ n \in Threads /\ n # Scheduler /\ On(n, n)
<1>1. Steady(n)
  BY DEF SteadyInv
<1>2. n \in Threads /\ n # Scheduler /\ On(n, n)
  BY XBeeAssumption DEF Threads, On
<1>3. at[n] \in {"idle", "created"} => ~On(Scheduler, n)
  BY <1>1 DEF Steady, On
<1>4. QED
  BY <1>1, <1>2, <1>3 DEF Steady

\* A node that is in a hand is in that one only, and is being configured.
LEMMA SoleHand ==
    ASSUME IInv, SteadyInv, NEW n \in Nodes \ Sleepy, NEW h \in Hands(n)
    PROVE  /\ \A x \in Hands(n) : x = h
           /\ state[n] = "active" /\ at[n] \notin {"idle", "created"}
  BY SteadyFacts DEF Steady

\* A step that moves no thread, no event and no task of the pool.
LEMMA SteadyIdle ==
    ASSUME IInv, SteadyInv, UNCHANGED <<state, at, fate>>,
           NEW n \in Nodes \ Sleepy, Hands(n)' \subseteq Hands(n)
    PROVE  Steady(n)'
<1>1. \A t \in Threads : On(t, n)' <=> On(t, n)
  BY OnKept
<1>2. QED
  BY <1>1, SteadyKept, SteadyFacts

LEMMA SteadyStarter ==
    ASSUME IInv, SteadyInv, NEW n \in Nodes, Starter(n),
           NEW m \in Nodes \ Sleepy
    PROVE  Steady(m)'
<1> USE DEF nodeVars, workerVars, poolVars
<1>1. /\ n \in Threads /\ On(n, n) /\ at[n] \in {"idle", "created"}
      /\ \A u \in Threads : u # n => at'[u] = at[u]
      /\ \A k \in Nodes : k # n => state'[k] = state[k]
      /\ UNCHANGED <<fate, queue, task>>
  BY XBeeAssumption
     DEF Starter, Register, SkipConfigure, Configure, GotoRunning, Goto, IInv,
         TypeOK, Threads, On
<1>2. CASE m # n
  BY <1>1, <1>2, OtherSteady
<1>3. CASE m = n
  <2>1. /\ at'[n] \in {"created", "heuristic", "returned"}
        /\ \/ at[n] = "created" /\ at'[n] # "created"
           \/ at[n] = "idle"
    BY <1>1, <1>3 DEF Starter, Register, SkipConfigure, Configure, Goto,
                      IInv, TypeOK
  <2>2. \A t \in Threads : On(t, n)' <=> On(t, n)
    BY <1>1, OnKept
  <2>3. Hands(n)' \subseteq Hands(n)
    BY <1>1, <2>1, <2>2, NoNewHand DEF InHand
  <2>4. \A t \in Threads : On(t, n)' => at'[t] # "prepare"
    BY <1>1, <1>3, <2>1, <2>2, SteadyFacts DEF Steady
  <2>5. CASE Register(n)
    BY <1>1, <1>3, <2>1, <2>2, <2>3, <2>4, <2>5, SteadyFacts, SteadyKept
       DEF Register
  <2>6. CASE SkipConfigure(n) \/ Configure(n)
    <3>1. state'[n] \in {"running", "scheduled"} /\ at[n] = "created"
      BY <2>6 DEF SkipConfigure, Configure, GotoRunning, IInv, TypeOK
    <3>2. Hands(n)' = {}
      BY <1>3, <2>3, <3>1, SteadyFacts DEF Steady
    <3>3. at'[n] \notin {"idle", "created"}
      BY <2>1, <3>1
    <3>4. QED
      BY <1>3, <2>4, <3>1, <3>2, <3>3, SteadyAgain
  <2>7. QED
    BY <2>5, <2>6 DEF Starter
<1>4. QED
  BY <1>2, <1>3

LEMMA SteadyStart ==
    ASSUME IInv, SteadyInv, NEW n \in Nodes, StartEvent(n),
           NEW m \in Nodes \ Sleepy
    PROVE  Steady(m)'
<1>1. PICK e \in EventsOf(n) :
              /\ fate[e] = "pending"
              /\ fate' = [fate EXCEPT ![e] = "running"]
              /\ \A f \in Entries : fate[f] # "running"
              /\ at' = [at EXCEPT ![Scheduler] = at'[Scheduler]]
              /\ at'[Scheduler] \in Calls
  BY StartEffect DEF IInv
<1>2. /\ e \in Entries
      /\ fate \in [Entries -> {"free", "pending", "running"}]
      /\ at \in [Threads -> Where]
  BY <1>1, EventsOfNode DEF IInv, TypeOK, Agenda!TypeOK, Where
<1>3. /\ \A u \in Threads : u # Scheduler => at'[u] = at[u]
      /\ at'[Scheduler] \in {"heuristic", "configure"}
      /\ \A f \in Entries : f # e => fate'[f] = fate[f]
      /\ UNCHANGED <<state, queue, task>>
  BY <1>1, <1>2 DEF StartEvent, nodeVars, poolVars, workerVars, Calls
<1>4. \A t \in Threads : t # Scheduler => (On(t, m)' <=> On(t, m))
  BY DEF On
<1>5. Hands(m)' \subseteq Hands(m)
  BY <1>3, <1>4, NoNewHand DEF InHand
<1>6. m \in Threads /\ m # Scheduler
  BY SteadyFacts
<1>7. \A f \in EventsOf(m) : fate[f] = "free" => fate'[f] = "free"
  BY <1>1, <1>3, EventsOfNode
<1>8. QED
  BY <1>3, <1>4, <1>5, <1>6, <1>7, SteadyFacts, SteadyKept

LEMMA SteadyReceive ==
    ASSUME IInv, SteadyInv, NEW n \in Nodes, Receive(n),
           NEW m \in Nodes \ Sleepy
    PROVE  Steady(m)'
<1>1. PICK e \in EventsOf(n) :
              /\ \A f \in Entries : f \notin EventsOf(n) => fate'[f] = fate[f]
              /\ \A f \in Entries : fate'[f] = "running" <=> fate[f] = "running"
  BY RescheduleEffect, CallNames DEF Receive, IInv
<1>2. /\ state[n] = "scheduled"
      /\ state' = [state EXCEPT ![n] = "immediate"]
      /\ UNCHANGED <<at, queue, task>>
  BY DEF Receive, poolVars, workerVars
<1>3. state'[n] = "immediate" /\ \A k \in Nodes : k # n => state'[k] = state[k]
  BY <1>2 DEF IInv, TypeOK
<1>4. CASE m # n
  BY <1>1, <1>2, <1>3, <1>4, OtherSteady
<1>5. CASE m = n
  <2>1. \A t \in Threads : On(t, n)' <=> On(t, n)
    BY <1>1, EventsOfNode DEF On, EventsOf
  <2>2. Hands(n)' \subseteq Hands(n)
    BY <1>2, <2>1, NoNewHand DEF InHand
  <2>3. Hands(n) = {} /\ at[n] \notin {"idle", "created"}
    BY <1>2, <1>5, SteadyFacts DEF Steady
  <2>4. \A t \in Threads : On(t, n)' => at'[t] # "prepare"
    BY <1>2, <1>5, <2>1, SteadyFacts DEF Steady
  <2>5. QED
    BY <1>2, <1>3, <1>5, <2>2, <2>3, <2>4, SteadyAgain
<1>6. QED
  BY <1>4, <1>5

\* The steps of a thread up to the claim of its node, and a search.
LEMMA SteadyCall ==
    ASSUME IInv, SteadyInv, NEW t \in Threads, NEW n \in Nodes,
           Attempt(t, n) \/ BeginPrepare(t, n) \/ GiveWay(t, n)
              \/ Elect(t, n) \/ PrepareSucceeds(t) \/ PrepareFails(t, n)
              \/ Grab(t),
           NEW m \in Nodes \ Sleepy
    PROVE  Steady(m)'
<1>1. /\ UNCHANGED <<state, fate, queue, task>>
      /\ \A u \in Threads : u # t => at'[u] = at[u]
      /\ at[t] \notin {"idle", "created"} /\ at'[t] \notin {"idle", "created"}
  BY DEF Attempt, BeginPrepare, GiveWay, Elect, PrepareSucceeds,
         PrepareFails, Grab, Goto, IInv, TypeOK, nodeVars, poolVars, workerVars
<1>2. \A u \in Threads : On(u, m)' <=> On(u, m)
  BY <1>1, OnKept
<1>3. ASSUME On(t, m) PROVE Attempt(t, n) \/ Grab(t)
  <2>1. at[t] # "prepare"
    BY <1>3, SteadyFacts DEF Steady
  <2>2. ASSUME On(t, n) PROVE n \notin Sleepy
    BY <1>3, <2>2, OneNodeOn DEF IInv
  <2>3. QED
    BY <2>1, <2>2 DEF BeginPrepare, GiveWay, Elect, PrepareSucceeds,
                      PrepareFails
<1>4. ASSUME On(t, m)
      PROVE  at'[t] # "prepare" /\ (InHand(t, m)' => InHand(t, m))
  <2>1. CASE Attempt(t, n)
    BY <2>1, <1>4 DEF Attempt, Goto, InHand, IInv, TypeOK
  <2>2. CASE Grab(t)
    BY <2>2, <1>4 DEF Grab, Goto, InHand, IInv, TypeOK
  <2>3. QED
    BY <1>3, <1>4, <2>1, <2>2
<1>5. Hands(m)' \subseteq Hands(m)
  BY <1>1, <1>2, <1>4, NoNewHand DEF InHand
<1>6. at'[m] \in {"idle", "created"} => at[m] \in {"idle", "created"}
  BY <1>1, SteadyFacts
<1>7. \A u \in Threads : On(u, m)' /\ at'[u] = "prepare"
                             => On(u, m) /\ at[u] = "prepare"
  BY <1>1, <1>2, <1>4
<1>8. QED
  BY <1>1, <1>5, <1>6, <1>7, SteadyFacts, SteadyKept

\* What the deferral of a node does to it, by the thread or the worker that
\* has it in hand.
LEMMA SteadyDeferred ==
    ASSUME IInv, SteadyInv, NEW n \in Nodes, Defer(n),
           NEW h \in Hands(n), h \notin Hands(n)',
           \A t \in Threads :
              \/ at'[t] = at[t]
              \/ On(t, n) /\ at'[t] \in {"return", "returned"},
           \A w \in Workers : queue'[w] # None => queue'[w] = queue[w],
           \A w \in Workers : task'[w] # None => task'[w] = task[w],
           NEW m \in Nodes \ Sleepy
    PROVE  Steady(m)'
<1>1. PICK e \in EventsOf(n) :
              /\ \A f \in Entries : f \notin EventsOf(n) => fate'[f] = fate[f]
              /\ \A f \in Entries : fate'[f] = "running" <=> fate[f] = "running"
  BY RescheduleEffect, CallNames DEF Defer, IInv
<1>2. /\ state'[n] = "scheduled"
      /\ \A k \in Nodes : k # n => state'[k] = state[k]
  BY DEF Defer, IInv, TypeOK
<1>3. CASE m # n
  BY <1>1, <1>2, <1>3, XBeeAssumption, OtherSteady
<1>4. CASE m = n
  <2>1. \A t \in Threads : On(t, n)' <=> On(t, n)
    BY <1>1, EventsOfNode DEF On, EventsOf
  <2>2. \A t \in Threads : InHand(t, n)' => InHand(t, n)
    BY <2>1 DEF InHand
  <2>3. Hands(n)' \subseteq Hands(n)
    BY <2>2, NoNewHand, XBeeAssumption
  <2>4. Hands(n)' = {}
    BY <1>4, <2>3, SteadyFacts DEF Steady
  <2>5. state[n] = "active" /\ at[n] \notin {"idle", "created"}
    BY <1>4, SteadyFacts DEF Steady
  <2>6. at'[n] \notin {"idle", "created"}
    BY <1>4, <2>5, SteadyFacts
  <2>7. \A t \in Threads : On(t, n)' => at'[t] # "prepare"
    BY <1>4, <2>1, SteadyFacts DEF Steady
  <2>8. QED
    BY <1>2, <1>4, <2>4, <2>6, <2>7, SteadyAgain
<1>5. QED
  BY <1>3, <1>4

LEMMA SteadyDefer ==
    ASSUME IInv, SteadyInv, NEW t \in Threads, NEW n \in Nodes,
           DeferConfiguration(t, n), NEW m \in Nodes \ Sleepy
    PROVE  Steady(m)'
<1> DEFINE h == <<"thread", t>>
<1>1. /\ Defer(n) /\ On(t, n) /\ at[t] = "defer"
      /\ at'[t] \in {"return", "returned"}
      /\ \A u \in Threads : u # t => at'[u] = at[u]
      /\ UNCHANGED <<queue, task>>
  BY DEF DeferConfiguration, Goto, IInv, TypeOK, poolVars, workerVars
<1>2. h \in Hands(n)
  BY <1>1, HandsOf DEF InHand
<1>3. h \notin Hands(n)'
  BY <1>1, HandsOfNext DEF InHand
<1>4. QED
  BY <1>1, <1>2, <1>3, SteadyDeferred

\* The end of a call, with the node in one hand less, or in another.
LEMMA SteadyReturned ==
    ASSUME IInv, SteadyInv, NEW t \in Threads, NEW n \in Nodes \ Sleepy,
           On(t, n), at[t] \notin {"idle", "created"}, Return(t, n),
           state'[n] = state[n],
           \A x, y \in Hands(n)' : x = y,
           Hands(n)' # {} => Hands(n) # {}
    PROVE  Steady(n)'
<1>1. /\ at'[t] \in {"idle", "returned"}
      /\ \A u \in Threads : u # t => at'[u] = at[u]
      /\ \A e \in Entries : fate'[e] = "pending" <=> fate[e] = "pending"
      /\ \A e \in Entries : fate'[e] = "running" => fate[e] = "running"
      /\ fate' \in [Entries -> {"free", "pending", "running"}]
      /\ fate \in [Entries -> {"free", "pending", "running"}]
  BY ReturnEffect DEF IInv, TypeOK, Agenda!TypeOK
<1>2. \A e \in EventsOf(n) : fate[e] = "free" => fate'[e] = "free"
  BY <1>1, EventsOfNode
<1>3. at'[n] \in {"idle", "created"} => at[n] \in {"idle", "created"}
  <2>1. CASE t = n
    <3>1. at'[n] = "returned"
      BY <2>1, SteadyFacts DEF Return, Goto, IInv, TypeOK
    <3>2. QED
      BY <3>1
  <2>2. CASE t # n
    BY <1>1, <2>2, SteadyFacts
  <2>3. QED
    BY <2>1, <2>2
<1>4. \A u \in Threads : On(u, n)' => On(u, n)
  BY <1>1, EventsOfNode DEF On, EventsOf
<1>5. \A u \in Threads : On(u, n)' => at'[u] # "prepare"
  BY <1>1, <1>4, SteadyFacts DEF Steady
<1>6. Hands(n)' # {} => state'[n] = "active"
  BY SteadyFacts DEF Steady
<1>7. at'[n] \in {"idle", "created"} => state'[n] = "initializing"
  BY <1>3, SteadyFacts DEF Steady
<1>8. state'[n] = "initializing" => \A e \in EventsOf(n) : fate'[e] = "free"
  BY <1>2, SteadyFacts DEF Steady
<1>9. EventsOf(n)' = EventsOf(n)
  BY DEF EventsOf
<1>10. QED
  BY <1>5, <1>6, <1>7, <1>8, <1>9 DEF Steady

\* The end of a call leaves the other nodes alone.
LEMMA ReturnOther ==
    ASSUME IInv, SteadyInv, NEW t \in Threads, NEW n \in Nodes, On(t, n),
           Return(t, n), NEW m \in Nodes \ Sleepy, m # n, state'[m] = state[m],
           \A w \in Workers : queue'[w] = m => queue[w] = m,
           UNCHANGED task
    PROVE  Steady(m)'
<1>1. \A u \in Threads : u # t => at'[u] = at[u]
  BY ReturnEffect DEF IInv
<1>2. \A e \in Entries : e \notin EventsOf(n) => fate'[e] = fate[e]
  BY EventsOfNode
     DEF Return, Agenda!Finish, IInv, TypeOK, Agenda!TypeOK
<1>3. QED
  BY <1>1, <1>2, OtherSteady

LEMMA SteadyClaim ==
    ASSUME IInv, SteadyInv, NEW t \in Threads, NEW n \in Nodes, Claim(t, n),
           NEW m \in Nodes \ Sleepy
    PROVE  Steady(m)'
<1> USE DEF poolVars, workerVars
<1>1. at[t] = "configure" /\ On(t, n) /\ UNCHANGED <<queue, task>>
  BY DEF Claim
<1>2. CASE state[n] = "active"
  <2>1. Return(t, n) /\ UNCHANGED state
    BY <1>2 DEF Claim
  <2>2. CASE m # n
    BY <1>1, <2>1, <2>2, ReturnOther
  <2>3. CASE m = n
    <3>1. \A u \in Threads : u # t => at'[u] = at[u]
      BY <2>1, ReturnEffect DEF IInv
    <3>2. \A u \in Threads : On(u, n)' => On(u, n)
      BY <2>1, ReturnEffect, EventsOfNode DEF On, EventsOf, IInv
    <3>3. at'[t] \in {"idle", "returned"}
      BY <2>1, ReturnEffect DEF IInv
    <3>4. Hands(n)' \subseteq Hands(n)
      BY <1>1, <3>1, <3>2, <3>3, NoNewHand DEF InHand
    <3>5. QED
      BY <1>1, <2>1, <2>3, <3>4, SteadyFacts, SteadyReturned DEF Steady
  <2>4. QED
    BY <2>2, <2>3
<1>3. CASE state[n] # "active"
  <2>1. /\ at'[t] = "grab" /\ UNCHANGED fate
        /\ \A u \in Threads : u # t => at'[u] = at[u]
        /\ state'[n] = "active"
        /\ \A k \in Nodes : k # n => state'[k] = state[k]
    BY <1>3 DEF Claim, Goto, IInv, TypeOK
  <2>2. CASE m # n
    BY <1>1, <2>1, <2>2, OtherSteady
  <2>3. CASE m = n
    <3>1. \A u \in Threads : On(u, n)' <=> On(u, n)
      BY <2>1, OnKept
    <3>2. Hands(n) = {}
      BY <1>3, <2>3, SteadyFacts
    <3>3. \A x \in Hands(n)' : x = <<"thread", t>>
      <4>1. \A u \in Threads : InHand(u, n)' => u = t
        BY <2>1, <3>1, <3>2, HandsOf DEF InHand
      <4>2. \A w \in Workers : queue'[w] # n /\ task'[w] # n
        BY <1>1, <3>2, HandsOf
      <4>3. QED
        BY <4>1, <4>2, HandsOfNext
    <3>4. at[n] \notin {"idle", "created"}
      <4>1. CASE t = n
        BY <1>1, <4>1
      <4>2. CASE t # n
        BY <1>1, <2>3, <4>2, SteadyFacts DEF On
      <4>3. QED
        BY <4>1, <4>2
    <3>5. at'[n] \notin {"idle", "created"}
      BY <2>1, <2>3, <3>4, SteadyFacts
    <3>6. \A u \in Threads : On(u, n)' => at'[u] # "prepare"
      BY <2>1, <2>3, <3>1, SteadyFacts DEF Steady
    <3>7. QED
      BY <2>1, <2>3, <3>3, <3>5, <3>6, SteadyAgain
  <2>4. QED
    BY <2>2, <2>3
<1>4. QED
  BY <1>2, <1>3

LEMMA SteadyAssign ==
    ASSUME IInv, SteadyInv, NEW t \in Threads, NEW n \in Nodes, Assign(t, n),
           NEW m \in Nodes \ Sleepy
    PROVE  Steady(m)'
<1>1. PICK w \in workers : queue' = [queue EXCEPT ![w] = n]
  BY DEF Assign
<1>2. /\ w \in Workers /\ queue'[w] = n
      /\ \A v \in Workers : v # w => queue'[v] = queue[v]
      /\ UNCHANGED <<state, task>>
      /\ at[t] = "pop" /\ On(t, n) /\ Return(t, n)
  BY <1>1 DEF Assign, IInv, TypeOK, nodeVars, workerVars
<1>3. CASE m # n
  BY <1>2, <1>3, ReturnOther
<1>4. CASE m = n
  <2>1. /\ at'[t] \in {"idle", "returned"}
        /\ \A u \in Threads : u # t => at'[u] = at[u]
    BY <1>2, ReturnEffect DEF IInv
  <2>2. \A u \in Threads : On(u, n)' => On(u, n)
    BY <1>2, ReturnEffect, EventsOfNode DEF On, EventsOf, IInv
  <2>3. <<"thread", t>> \in Hands(n) /\ \A x \in Hands(n) : x = <<"thread", t>>
    BY <1>2, <1>4, HandsOf, SteadyFacts DEF InHand, Steady
  <2>4. \A x \in Hands(n)' : x = <<"queue", w>>
    <3>1. \A u \in Threads : ~InHand(u, n)'
      BY <2>1, <2>2, <2>3, HandsOf DEF InHand
    <3>2. \A v \in Workers : task'[v] # n /\ (queue'[v] = n => v = w)
      BY <1>2, <2>3, HandsOf
    <3>3. QED
      BY <3>1, <3>2, HandsOfNext
  <2>5. QED
    BY <1>2, <1>4, <2>3, <2>4, SteadyReturned
<1>5. QED
  BY <1>3, <1>4

LEMMA SteadyReturnDeferred ==
    ASSUME IInv, SteadyInv, NEW n \in Nodes, ReturnDeferred(n),
           NEW m \in Nodes \ Sleepy
    PROVE  Steady(m)'
<1>1. /\ Scheduler \in Threads /\ On(Scheduler, n) /\ Return(Scheduler, n)
      /\ at[Scheduler] = "return" /\ UNCHANGED <<state, queue, task>>
  BY DEF ReturnDeferred, Threads, nodeVars, poolVars, workerVars
<1>2. CASE m # n
  BY <1>1, <1>2, ReturnOther
<1>3. CASE m = n
  <2>1. /\ at'[Scheduler] \in {"idle", "returned"}
        /\ \A u \in Threads : u # Scheduler => at'[u] = at[u]
    BY <1>1, ReturnEffect DEF IInv
  <2>2. \A u \in Threads : On(u, n)' => On(u, n)
    BY <1>1, ReturnEffect, EventsOfNode DEF On, EventsOf, IInv
  <2>3. Hands(n)' \subseteq Hands(n)
    BY <1>1, <2>1, <2>2, NoNewHand DEF InHand
  <2>4. QED
    BY <1>1, <1>3, <2>3, SteadyFacts, SteadyReturned DEF Steady
<1>4. QED
  BY <1>2, <1>3

\* A worker takes its node out of the queue, and lets go of it in the end.
LEMMA SteadyWorker ==
    ASSUME IInv, SteadyInv, NEW w \in Workers, WorkerStep(w),
           NEW m \in Nodes \ Sleepy
    PROVE  Steady(m)'
<1> USE DEF nodeVars, poolVars
<1>a. /\ queue \in [Workers -> Nodes \cup {None}]
      /\ task \in [Workers -> Nodes \cup {None}]
      /\ m # None
  BY XBeeAssumption DEF IInv, TypeOK
<1>b. ASSUME UNCHANGED <<at, fate>>
      PROVE  \A t \in Threads : InHand(t, m)' <=> InHand(t, m)
  <2>1. \A t \in Threads : On(t, m)' <=> On(t, m)
    BY <1>b, OnKept
  <2>2. QED
    BY <1>b, <2>1 DEF InHand
<1>1. CASE TakeTask(w)
  <2>1. /\ task' = [task EXCEPT ![w] = queue[w]]
        /\ queue' = [queue EXCEPT ![w] = None]
        /\ UNCHANGED <<state, at, fate>>
    BY <1>1 DEF TakeTask
  <2>2. CASE queue[w] # m
    <3>1. Hands(m)' \subseteq Hands(m)
      BY <1>a, <1>b, <2>1, <2>2, NoNewHand
    <3>2. QED
      BY <2>1, <3>1, SteadyIdle
  <2>3. CASE queue[w] = m
    <3>0. <<"queue", w>> \in Hands(m)
      BY <2>3, HandsOf
    <3>1. \A x \in Hands(m) : x = <<"queue", w>>
      BY <3>0, SoleHand
    <3>2. \A x \in Hands(m)' : x = <<"task", w>>
      <4>1. \A t \in Threads : ~InHand(t, m)'
        BY <1>b, <2>1, <3>1, HandsOf
      <4>2. \A v \in Workers : /\ v # w => queue[v] # m
                               /\ task[v] # m
        BY <3>1, HandsOf
      <4>3. \A v \in Workers : queue'[v] # m /\ (task'[v] = m => v = w)
        BY <1>a, <2>1, <4>2
      <4>4. QED
        BY <4>1, <4>3, HandsOfNext
    <3>3. state'[m] = "active" /\ at'[m] \notin {"idle", "created"}
      BY <2>1, <3>0, SoleHand
    <3>5. \A t \in Threads : On(t, m)' => at'[t] # "prepare"
      BY <2>1, OnKept, SteadyFacts DEF Steady
    <3>6. QED
      BY <3>2, <3>3, <3>5, SteadyAgain
  <2>4. QED
    BY <2>2, <2>3
<1>2. CASE ApplySucceeds(w) \/ ApplyEnds(w) \/ AppendWorker(w)
              \/ ReleaseSemaphore(w) \/ CheckDone(w) \/ Quit(w)
  <2>1. /\ UNCHANGED <<state, at, fate, queue>>
        /\ \A v \in Workers : task'[v] = m => task[v] = m
    BY <1>2, <1>a DEF ApplySucceeds, ApplyEnds, AppendWorker,
                      ReleaseSemaphore, CheckDone, Quit, workerVars
  <2>2. Hands(m)' \subseteq Hands(m)
    BY <1>b, <2>1, NoNewHand
  <2>3. QED
    BY <2>1, <2>2, SteadyIdle
<1>3. CASE WorkerDefers(w)
  <2>1. /\ task[w] \in Nodes /\ Defer(task[w])
        /\ task' = [task EXCEPT ![w] = None]
        /\ UNCHANGED <<at, queue>>
    BY <1>3 DEF WorkerDefers, IInv, Control, TaskKnown
  <2>2. /\ task'[w] = None /\ task[w] # None
        /\ \A v \in Workers : task'[v] # None => task'[v] = task[v]
    BY <1>a, <2>1, XBeeAssumption
  <2>3. PICK k \in Nodes : k = task[w]
    BY <2>1
  <2>4. <<"task", w>> \in Hands(k) /\ <<"task", w>> \notin Hands(k)'
    BY <2>2, <2>3, HandsOf, HandsOfNext
  <2>5. QED
    BY <2>1, <2>2, <2>3, <2>4, SteadyDeferred
<1>4. CASE Promote(w)
  <2>1. /\ task[w] \in Nodes
        /\ state' = [state EXCEPT ![task[w]] = "running"]
        /\ task' = [task EXCEPT ![w] = None]
        /\ UNCHANGED <<at, fate, queue>>
    BY <1>4 DEF Promote, GotoRunning, IInv, Control, TaskKnown
  <2>2. \A v \in Workers : task'[v] = m => task[v] = m /\ v # w
    BY <1>a, <2>1
  <2>3. Hands(m)' \subseteq Hands(m)
    BY <1>b, <2>1, <2>2, NoNewHand
  <2>4. CASE task[w] # m
    <3>1. state'[m] = state[m]
      BY <2>1, <2>4 DEF IInv, TypeOK
    <3>2. \A t \in Threads : On(t, m)' <=> On(t, m)
      BY <2>1, OnKept
    <3>3. QED
      BY <2>1, <2>3, <3>1, <3>2, SteadyFacts, SteadyKept
  <2>5. CASE task[w] = m
    <3>0. <<"task", w>> \in Hands(m)
      BY <2>5, HandsOf
    <3>1. state'[m] = "running" /\ at'[m] \notin {"idle", "created"}
      BY <2>1, <2>5, <3>0, SoleHand DEF IInv, TypeOK
    <3>2. Hands(m)' = {}
      <4>1. \A x \in Hands(m) : x = <<"task", w>>
        BY <3>0, SoleHand
      <4>2. <<"task", w>> \notin Hands(m)'
        BY <2>2, HandsOfNext
      <4>3. QED
        BY <2>3, <4>1, <4>2
    <3>3. \A t \in Threads : On(t, m)' => at'[t] # "prepare"
      BY <2>1, OnKept, SteadyFacts DEF Steady
    <3>4. QED
      BY <3>1, <3>2, <3>3, SteadyAgain
  <2>6. QED
    BY <2>4, <2>5
<1>5. QED
  BY <1>1, <1>2, <1>3, <1>4 DEF WorkerStep

LEMMA SteadyStep == IInv /\ SteadyInv /\ [Next]_vars => SteadyInv'
<1> SUFFICES ASSUME IInv, SteadyInv, [Next]_vars, NEW m \in Nodes \ Sleepy
             PROVE  Steady(m)'
  BY DEF SteadyInv
<1> USE DEF nodeVars, poolVars, workerVars
<1>1. ASSUME UNCHANGED <<state, at, fate, queue, task>> PROVE Steady(m)'
  <2>1. Hands(m)' = Hands(m)
    BY <1>1 DEF Hands, InHand, On, EventsOf
  <2>2. QED
    BY <1>1, <2>1, SteadyIdle
<1>2. CASE BecomeReady \/ Stop \/ UNCHANGED vars
              \/ \E n \in Nodes : Unregister(n)
  BY <1>1, <1>2 DEF BecomeReady, Stop, vars, Unregister
<1>3. ASSUME NEW t \in Threads, NEW n \in Nodes, ThreadStep(t, n)
      PROVE  Steady(m)'
  BY <1>3, SteadyCall, SteadyDefer, SteadyClaim, SteadyAssign,
     SteadyReturnDeferred DEF ThreadStep
<1>4. QED
  BY <1>2, <1>3, SteadyStarter, SteadyStart, SteadyReceive, SteadyWorker
     DEF Next

LEMMA SteadyInit == Init => SteadyInv
<1> SUFFICES ASSUME Init, NEW n \in Nodes PROVE Steady(n)
  BY DEF SteadyInv
<1>1. Hands(n) = {}
  BY XBeeAssumption DEF Init, Hands, InHand, Threads
<1>2. \A e \in EventsOf(n) : fate[e] = "free"
  BY EventsOfNode DEF Init, Agenda!Init
<1>3. QED
  BY <1>1, <1>2 DEF Init, Steady, Threads

\* The test of the node's state in XBeeDeviceManagerConfigurator.configure is
\* enough for nodes that do not sleep: no two workers have one of them.
THEOREM SteadyOneWorker == Spec => []SteadyNodeOneWorker
<1>1. ASSUME SteadyInv, NEW n \in Nodes \ Sleepy
      PROVE  Cardinality(Holders(n)) <= 1
  <2>1. ASSUME NEW v \in Holders(n), NEW w \in Holders(n) PROVE v = w
    <3>1. \A u \in Holders(n) : \/ <<"queue", u>> \in Hands(n)
                                \/ <<"task", u>> \in Hands(n)
      BY HandsOf DEF Holders
    <3>2. \A x, y \in Hands(n) : x = y
      BY <1>1 DEF SteadyInv, Steady
    <3>3. QED
      BY <3>1, <3>2
  <2>2. CASE Holders(n) = {}
    BY <2>2, FS_EmptySet
  <2>3. CASE Holders(n) # {}
    <3>1. PICK w : w \in Holders(n)
      BY <2>3
    <3>2. Holders(n) = {w}
      BY <2>1, <3>1
    <3>3. Cardinality({w}) = 1
      BY FS_Singleton
    <3>4. QED
      BY <3>2, <3>3
  <2>4. QED
    BY <2>2, <2>3
<1>2. SteadyInv => SteadyNodeOneWorker
  BY <1>1 DEF SteadyNodeOneWorker
<1>3. QED
  BY <1>2, SteadyInit, SteadyStep, Invariance, PTL DEF Spec
=============================================================================
