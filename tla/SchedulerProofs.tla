-------------------------- MODULE SchedulerProofs --------------------------
(***************************************************************************)
(* Theorems about Scheduler, for every set of client threads, events and   *)
(* delays.  The invariant that makes the induction go through is           *)
(* TokenAccounting: every queued event, and the one that runs, is paid for *)
(* by a token of the semaphore, a release to come, or the run in progress. *)
(***************************************************************************)
EXTENDS Scheduler, FiniteSetTheorems, TLAPS

InAction == pc \in {"acting", "copy", "cancelling"}

\* What the accounting needs to know of the two program counters.
Control ==
    /\ current = NoEvent <=> ~InAction
    /\ \A c \in Callers : call[c] # "idle" => subject[c] \in Events

IInv == TypeOK /\ Control /\ TokenAccounting

-----------------------------------------------------------------------------
LEMMA FiniteCallers == IsFiniteSet(Callers)
  BY SchedulerAssumption, FS_AddElement DEF Callers

\* A set of events or of callers has a cardinality.
LEMMA FiniteParts ==
    ASSUME TypeOK
    PROVE  /\ IsFiniteSet(queue) /\ Cardinality(queue) \in Nat
           /\ IsFiniteSet(Releasing) /\ Cardinality(Releasing) \in Nat
<1>1. queue \subseteq Events /\ Releasing \subseteq Callers
  BY DEF TypeOK, Releasing
<1>2. IsFiniteSet(Events)
  BY SchedulerAssumption DEF Events
<1>3. QED
  BY <1>1, <1>2, FiniteCallers, FS_Subset, FS_CardinalityType

\* Entering an event adds at most one to the size of the queue.
LEMMA AddToQueue ==
    ASSUME NEW S, IsFiniteSet(S), NEW e
    PROVE  /\ Cardinality(S \cup {e}) \in Nat
           /\ Cardinality(S \cup {e}) <= Cardinality(S) + 1
<1>1. /\ IsFiniteSet(S \cup {e})
      /\ Cardinality(S \cup {e}) = IF e \in S THEN Cardinality(S)
                                             ELSE Cardinality(S) + 1
  BY FS_AddElement
<1>2. Cardinality(S) \in Nat
  BY FS_CardinalityType
<1>3. QED
  BY <1>1, <1>2

\* Taking an event that is there removes exactly one.
LEMMA TakeFromQueue ==
    ASSUME NEW S, IsFiniteSet(S), NEW e \in S
    PROVE  /\ Cardinality(S \ {e}) \in Nat
           /\ Cardinality(S \ {e}) + 1 = Cardinality(S)
<1>1. /\ IsFiniteSet(S \ {e})
      /\ Cardinality(S \ {e}) = Cardinality(S) - 1
  BY FS_RemoveElement
<1>2. Cardinality(S) \in Nat /\ Cardinality(S \ {e}) \in Nat
  BY <1>1, FS_CardinalityType
<1>3. QED
  BY <1>1, <1>2

-----------------------------------------------------------------------------
\* The state types hold at the start and are kept by every step.
LEMMA InitIInv == Init => IInv
<1> SUFFICES ASSUME Init PROVE IInv
  OBVIOUS
<1>1. TypeOK
  <2>1. /\ now \in 0..MaxTime /\ queue \in SUBSET Events
        /\ due \in [Events -> Nat] /\ to_cancel \in SUBSET Events
    BY SchedulerAssumption DEF Init
  <2>2. /\ call \in [Callers -> {"idle", "enter", "release"}]
        /\ subject \in [Callers -> Events \cup {NoEvent}]
    BY DEF Init
  <2>3. fate \in [Events -> {"unborn", "refused", "entering", "queued",
                            "running", "done", "cancelled"}]
    BY DEF Init
  <2>4. QED
    BY <2>1, <2>2, <2>3 DEF Init, TypeOK
<1>2. Control
  BY DEF Init, Control, InAction
<1>3. Releasing = {}
  BY DEF Init, Releasing
<1>4. TokenAccounting
  BY <1>3, FS_EmptySet DEF Init, TokenAccounting, InRun
<1>5. QED
  BY <1>1, <1>2, <1>4 DEF IInv

LEMMA TypeStep == TypeOK /\ Control /\ [Next]_vars => TypeOK'
<1> SUFFICES ASSUME TypeOK, Control, [Next]_vars PROVE TypeOK'
  OBVIOUS
<1> USE SchedulerAssumption DEF TypeOK, threadVars
<1>1. ASSUME NEW c \in Callers, NEW e \in Events, NEW d \in Nat,
             NewEvent(c, e, d)
      PROVE  TypeOK'
  BY <1>1 DEF NewEvent
<1>2. ASSUME NEW c \in Callers, ScheduleAfter(c) \/ Stop(c) PROVE TypeOK'
  BY <1>1, <1>2 DEF ScheduleAfter, Stop, Events
<1>3. ASSUME NEW c \in Callers, Cancel(c) PROVE TypeOK'
  BY <1>3 DEF Cancel, RemoveEvent
<1>4. ASSUME NEW c \in Callers, EnterAbs(c) PROVE TypeOK'
  BY <1>4 DEF EnterAbs, Control
<1>5. ASSUME NEW c \in Callers, ReleaseSemaphore(c) PROVE TypeOK'
  BY <1>5 DEF ReleaseSemaphore
<1>6. CASE TestStopFlag
  BY <1>6 DEF TestStopFlag
<1>7. CASE AcquireSemaphore
  BY <1>7 DEF AcquireSemaphore
<1>8. CASE RunDrained
  BY <1>8 DEF RunDrained
<1>9. CASE RunWait
  BY <1>9 DEF RunWait, IsHead
<1>10. CASE RunAwake
  BY <1>10 DEF RunAwake
<1>11. CASE RunPop
  BY <1>11 DEF RunPop, IsHead
<1>12. CASE ActionReturns \/ ActionEscapes \/ StopReturns
  BY <1>12 DEF ActionReturns, ActionEscapes, StopReturns, EndAction
<1>13. CASE DoStop
  BY <1>13 DEF DoStop
<1>14. CASE CopyQueue
  BY <1>14 DEF CopyQueue
<1>15. CASE StopCancels
  BY <1>15 DEF StopCancels, RemoveEvent
<1>16. CASE Tick
  BY <1>16 DEF Tick
<1>17. CASE UNCHANGED vars
  BY <1>17 DEF vars
<1>18. QED
  BY <1>2, <1>3, <1>4, <1>5, <1>6, <1>7, <1>8, <1>9, <1>10, <1>11, <1>12,
     <1>13, <1>14, <1>15, <1>16, <1>17 DEF Next, CallerStep, ThreadStep

LEMMA ControlStep == TypeOK /\ Control /\ [Next]_vars => Control'
<1> SUFFICES ASSUME TypeOK, Control, [Next]_vars PROVE Control'
  OBVIOUS
<1> USE SchedulerAssumption DEF TypeOK, Control, InAction, threadVars
<1>1. ASSUME NEW c \in Callers, NEW e \in Events, NEW d \in Nat,
             NewEvent(c, e, d)
      PROVE  Control'
  BY <1>1 DEF NewEvent
<1>2. ASSUME NEW c \in Callers, ScheduleAfter(c) \/ Stop(c) PROVE Control'
  BY <1>1, <1>2 DEF ScheduleAfter, Stop, Events
<1>3. ASSUME NEW c \in Callers, Cancel(c) PROVE Control'
  BY <1>3 DEF Cancel
<1>4. ASSUME NEW c \in Callers, EnterAbs(c) PROVE Control'
  BY <1>4 DEF EnterAbs
<1>5. ASSUME NEW c \in Callers, ReleaseSemaphore(c) PROVE Control'
  BY <1>5 DEF ReleaseSemaphore
<1>6. CASE TestStopFlag
  BY <1>6 DEF TestStopFlag
<1>7. CASE AcquireSemaphore
  BY <1>7 DEF AcquireSemaphore
<1>8. CASE RunDrained
  BY <1>8 DEF RunDrained
<1>9. CASE RunWait
  BY <1>9 DEF RunWait
<1>10. CASE RunAwake
  BY <1>10 DEF RunAwake
<1>11. CASE RunPop
  BY <1>11 DEF RunPop, IsHead, Events
<1>12. CASE ActionReturns \/ ActionEscapes \/ StopReturns
  BY <1>12 DEF ActionReturns, ActionEscapes, StopReturns, EndAction
<1>13. CASE DoStop
  BY <1>13 DEF DoStop
<1>14. CASE CopyQueue
  BY <1>14 DEF CopyQueue
<1>15. CASE StopCancels
  BY <1>15 DEF StopCancels
<1>16. CASE Tick
  BY <1>16 DEF Tick
<1>17. CASE UNCHANGED vars
  BY <1>17 DEF vars
<1>18. QED
  BY <1>2, <1>3, <1>4, <1>5, <1>6, <1>7, <1>8, <1>9, <1>10, <1>11, <1>12,
     <1>13, <1>14, <1>15, <1>16, <1>17 DEF Next, CallerStep, ThreadStep
-----------------------------------------------------------------------------
\* The accounting, action by action.  Lowering the left side or raising the
\* right side keeps it; the five actions that do otherwise move one unit from
\* one term to another.
LEMMA TokenStep == IInv /\ TypeOK' /\ Control' /\ [Next]_vars => TokenAccounting'
<1> SUFFICES ASSUME TypeOK, Control, TokenAccounting, TypeOK', Control',
                    [Next]_vars
             PROVE  TokenAccounting'
  BY DEF IInv
<1> DEFINE queued == Cardinality(queue)
           pending == Cardinality(Releasing)
<1>a. /\ queued \in Nat /\ pending \in Nat /\ IsFiniteSet(queue)
      /\ IsFiniteSet(Releasing) /\ semaphore \in Nat
  BY FiniteParts DEF TypeOK
<1>b. semaphore' \in Nat /\ queued' \in Nat /\ pending' \in Nat
  <2>1. queue' \subseteq Events /\ Releasing' \subseteq Callers
    BY DEF TypeOK, Releasing
  <2>2. IsFiniteSet(queue') /\ IsFiniteSet(Releasing')
    BY <2>1, FiniteCallers, FS_Subset, SchedulerAssumption DEF Events
  <2>3. Cardinality(queue') \in Nat /\ Cardinality(Releasing') \in Nat
    BY <2>2, FS_CardinalityType
  <2>4. QED
    BY <2>3 DEF TypeOK
<1>c. ASSUME UNCHANGED <<semaphore, call, pc, current>>,
             queue' = queue \/ \E e \in queue : queue' = queue \ {e}
      PROVE  TokenAccounting'
  <2>1. queued' <= queued
    BY <1>c, <1>a, TakeFromQueue
  <2>2. UNCHANGED <<Releasing, InRun>>
    BY <1>c DEF Releasing, InRun
  <2>3. pending' = pending
    BY <2>2
  <2>4. QED
    BY <1>a, <1>b, <1>c, <2>1, <2>2, <2>3 DEF TokenAccounting
<1>d. ASSUME UNCHANGED call
      PROVE  Releasing' = Releasing /\ pending' = pending
  BY <1>d DEF Releasing
<1>1. ASSUME NEW c \in Callers, NEW e \in Events, NEW d, NewEvent(c, e, d)
      PROVE  TokenAccounting'
  <2>1. Releasing' = Releasing /\ UNCHANGED <<queue, semaphore, pc, current>>
    BY <1>1 DEF NewEvent, MayCall, TypeOK, Releasing, threadVars
  <2>2. QED
    BY <2>1 DEF TokenAccounting, InRun
<1>2. ASSUME NEW c \in Callers, ScheduleAfter(c) \/ Stop(c)
      PROVE  TokenAccounting'
  BY <1>1, <1>2 DEF ScheduleAfter, Stop, Events
<1>3. ASSUME NEW c \in Callers, Cancel(c) PROVE TokenAccounting'
  BY <1>3, <1>c DEF Cancel, RemoveEvent
<1>4. ASSUME NEW c \in Callers, EnterAbs(c) PROVE TokenAccounting'
  <2>1. queued' <= queued + 1
    BY <1>4, <1>a, AddToQueue DEF EnterAbs
  <2>2. Releasing' = Releasing \cup {c} /\ c \notin Releasing
    BY <1>4 DEF EnterAbs, Releasing, TypeOK
  <2>3. pending' = pending + 1
    BY <2>2, <1>a, FS_AddElement
  <2>4. QED
    BY <1>4, <1>a, <1>b, <2>1, <2>3 DEF TokenAccounting, EnterAbs, InRun
<1>5. ASSUME NEW c \in Callers, ReleaseSemaphore(c) PROVE TokenAccounting'
  <2>1. Releasing' = Releasing \ {c} /\ c \in Releasing
    BY <1>5 DEF ReleaseSemaphore, Releasing, TypeOK
  <2>2. pending' + 1 = pending
    BY <2>1, <1>a, TakeFromQueue
  <2>3. QED
    BY <1>5, <1>a, <1>b, <2>2
       DEF TokenAccounting, ReleaseSemaphore, InRun, threadVars
<1>6. CASE TestStopFlag
  BY <1>6, <1>a, <1>d DEF TestStopFlag, TokenAccounting, InRun
<1>7. CASE AcquireSemaphore
  BY <1>7, <1>a, <1>d DEF AcquireSemaphore, TokenAccounting, InRun
<1>8. CASE RunDrained
  <2>1. queued' = 0
    BY <1>8, FS_EmptySet DEF RunDrained
  <2>2. current' = NoEvent
    BY <1>8 DEF RunDrained, Control, InAction
  <2>3. QED
    BY <1>b, <2>1, <2>2 DEF TokenAccounting
<1>9. CASE RunWait \/ RunAwake
  BY <1>9, <1>a, <1>d DEF RunWait, RunAwake, TokenAccounting, InRun
<1>10. CASE RunPop
  <2>1. queued' + 1 = queued
    BY <1>10, <1>a, TakeFromQueue DEF RunPop, IsHead
  <2>2. current = NoEvent /\ InRun /\ InRun'
    BY <1>10 DEF RunPop, Control, InAction, InRun
  <2>3. QED
    BY <1>10, <1>a, <1>b, <1>d, <2>1, <2>2 DEF TokenAccounting, RunPop
<1>11. CASE ActionReturns \/ ActionEscapes \/ StopReturns
  <2>1. current # NoEvent /\ current' = NoEvent /\ InRun
    BY <1>11 DEF ActionReturns, ActionEscapes, StopReturns, EndAction, Control,
                 InAction, InRun
  <2>2. UNCHANGED <<queue, semaphore, call>>
    BY <1>11 DEF ActionReturns, ActionEscapes, StopReturns, EndAction
  <2>3. QED
    BY <1>a, <1>d, <2>1, <2>2 DEF TokenAccounting
<1>12. CASE DoStop \/ CopyQueue
  BY <1>12, <1>a, <1>d DEF DoStop, CopyQueue, TokenAccounting, InRun
<1>13. CASE StopCancels
  BY <1>13, <1>c DEF StopCancels, RemoveEvent
<1>14. CASE Tick \/ UNCHANGED vars
  BY <1>14, <1>c DEF Tick, vars, threadVars
<1>15. QED
  BY <1>2, <1>3, <1>4, <1>5, <1>6, <1>7, <1>8, <1>9, <1>10, <1>11, <1>12,
     <1>13, <1>14 DEF Next, CallerStep, ThreadStep

LEMMA Inductive == Spec => []IInv
<1>1. IInv /\ [Next]_vars => IInv'
  BY TypeStep, ControlStep, TokenStep DEF IInv
<1>2. QED
  BY InitIInv, <1>1, PTL DEF Spec

\* The state of the scheduler keeps its types, for every number of threads
\* and events (SchedAsync and digi_sched.scheduler).
THEOREM TypeCorrect == Spec => []TypeOK
<1>1. IInv => TypeOK
  BY DEF IInv
<1>2. QED
  BY Inductive, <1>1, PTL

\* The run loop of SchedAsync never blocks on its semaphore with an event
\* queued and no token there or coming, whatever actions escape from it.
THEOREM NothingStranded == Spec => []NoStrandedEvent
<1>1. ASSUME IInv, pc = "acquire", queue # {}
      PROVE  semaphore > 0 \/ Releasing # {}
  <2>1. /\ IsFiniteSet(queue) /\ Cardinality(queue) \in Nat
        /\ semaphore \in Nat
    BY <1>1, FiniteParts DEF IInv, TypeOK
  <2>2. Cardinality(queue) # 0
    BY <1>1, <2>1, FS_EmptySet
  <2>3. current = NoEvent /\ ~InRun
    BY <1>1 DEF IInv, Control, InAction, InRun
  <2>4. Cardinality(queue) <= semaphore + Cardinality(Releasing) + 0
    BY <1>1, <2>1, <2>3 DEF IInv, TokenAccounting
  <2>5. CASE Releasing = {}
    BY <2>1, <2>2, <2>4, <2>5, FS_EmptySet
  <2>6. QED
    BY <2>5
<1>2. IInv => NoStrandedEvent
  BY <1>1 DEF NoStrandedEvent
<1>3. QED
  BY Inductive, <1>2, PTL
-----------------------------------------------------------------------------
(* The scheduler implements Agenda.  What the refinement needs to know is  *)
(* where an event of each fate is: the queued ones in the queue, the       *)
(* running one with the thread, and an entering one with one caller only.  *)

Whereabouts ==
    /\ \A e \in Events : fate[e] = "queued" <=> e \in queue
    /\ \A e \in Events : fate[e] = "running" <=> e = current
    /\ \A c \in Callers : call[c] = "enter" => fate[subject[c]] = "entering"
    /\ \A c, d \in Callers :
          call[c] = "enter" /\ call[d] = "enter" /\ subject[c] = subject[d]
              => c = d

RInv == TypeOK /\ Control /\ Whereabouts

LEMMA WhereaboutsStep == RInv /\ [Next]_vars => Whereabouts'
<1> SUFFICES ASSUME TypeOK, Control, Whereabouts, [Next]_vars
             PROVE  Whereabouts'
  BY DEF RInv
<1> USE SchedulerAssumption DEF TypeOK, Control, Whereabouts, InAction,
                                threadVars
<1>1. ASSUME NEW c \in Callers, NEW e \in Events, NEW d \in Nat,
             NewEvent(c, e, d)
      PROVE  Whereabouts'
  BY <1>1 DEF NewEvent
<1>2. ASSUME NEW c \in Callers, ScheduleAfter(c) \/ Stop(c)
      PROVE  Whereabouts'
  BY <1>1, <1>2 DEF ScheduleAfter, Stop, Events
<1>3. ASSUME NEW c \in Callers, Cancel(c) PROVE Whereabouts'
  BY <1>3 DEF Cancel, RemoveEvent, Events
<1>4. ASSUME NEW c \in Callers, EnterAbs(c) PROVE Whereabouts'
  BY <1>4 DEF EnterAbs
<1>5. ASSUME NEW c \in Callers, ReleaseSemaphore(c) PROVE Whereabouts'
  BY <1>5 DEF ReleaseSemaphore
<1>6. CASE TestStopFlag
  BY <1>6 DEF TestStopFlag
<1>7. CASE AcquireSemaphore
  BY <1>7 DEF AcquireSemaphore
<1>8. CASE RunDrained
  BY <1>8 DEF RunDrained
<1>9. CASE RunWait \/ RunAwake
  BY <1>9 DEF RunWait, RunAwake
<1>10. CASE RunPop
  BY <1>10 DEF RunPop, IsHead, Events
<1>11. CASE ActionReturns \/ ActionEscapes \/ StopReturns
  BY <1>11 DEF ActionReturns, ActionEscapes, StopReturns, EndAction, Events
<1>12. CASE DoStop \/ CopyQueue
  BY <1>12 DEF DoStop, CopyQueue
<1>13. CASE StopCancels
  BY <1>13 DEF StopCancels, RemoveEvent, Events
<1>14. CASE Tick \/ UNCHANGED vars
  BY <1>14 DEF Tick, vars
<1>15. QED
  BY <1>2, <1>3, <1>4, <1>5, <1>6, <1>7, <1>8, <1>9, <1>10, <1>11, <1>12,
     <1>13, <1>14 DEF Next, CallerStep, ThreadStep

LEMMA RInvInductive == Spec => []RInv
<1>1. Init => RInv
  BY InitIInv, SchedulerAssumption
     DEF Init, IInv, RInv, Whereabouts, Events, Callers
<1>2. RInv /\ [Next]_vars => RInv'
  BY TypeStep, ControlStep, WhereaboutsStep DEF RInv
<1>3. QED
  BY <1>1, <1>2, PTL DEF Spec

\* A step that moves no event's fate is a stutter of the agenda.
LEMMA AgendaStutter ==
    ASSUME UNCHANGED fate
    PROVE  UNCHANGED AgendaFate
  BY DEF AgendaFate

\* Every step of the scheduler is a step of the agenda or a stutter.
LEMMA AgendaStep == RInv /\ [Next]_vars => [Promise!Next]_AgendaFate
<1> SUFFICES ASSUME TypeOK, Control, Whereabouts, [Next]_vars
             PROVE  Promise!Next \/ UNCHANGED AgendaFate
  BY DEF RInv
<1>t. fate \in [Events -> {"unborn", "refused", "entering", "queued",
                            "running", "done", "cancelled"}]
  BY DEF TypeOK
<1>1. ASSUME NEW c \in Callers, NEW e \in Events, NEW d,
             NewEvent(c, e, d)
      PROVE  UNCHANGED AgendaFate
  BY <1>1, <1>t DEF NewEvent, AgendaFate
<1>2. ASSUME NEW c \in Callers, ScheduleAfter(c) \/ Stop(c)
      PROVE  UNCHANGED AgendaFate
  BY <1>1, <1>2 DEF ScheduleAfter, Stop, Events
<1>3. ASSUME NEW e \in Events, RemoveEvent(e)
      PROVE  Promise!Cancel(e)
  BY <1>3, <1>t DEF RemoveEvent, Whereabouts, AgendaFate, Promise!Cancel
<1>4. ASSUME NEW c \in Callers, EnterAbs(c) PROVE Promise!Enter(subject[c])
  BY <1>4, <1>t DEF EnterAbs, Control, Whereabouts, AgendaFate, Promise!Enter
<1>5. CASE RunPop
  <2>1. PICK e \in Events : /\ e \in queue
                            /\ fate' = [fate EXCEPT ![e] = "running"]
    BY <1>5 DEF RunPop, IsHead
  <2>2. Promise!Running = {}
    BY <1>5, <1>t, SchedulerAssumption
       DEF RunPop, Control, InAction, Whereabouts, AgendaFate,
           Promise!Running, Events
  <2>3. Promise!Start(e)
    BY <2>1, <2>2, <1>t DEF Whereabouts, AgendaFate, Promise!Start
  <2>4. QED
    BY <2>3 DEF Promise!Next
<1>6. CASE ActionReturns \/ ActionEscapes \/ StopReturns
  <2>1. current \in Events /\ fate' = [fate EXCEPT ![current] = "done"]
    BY <1>6 DEF ActionReturns, ActionEscapes, StopReturns, EndAction, Control,
                InAction, TypeOK
  <2>2. Promise!Finish(current)
    BY <2>1, <1>t DEF Whereabouts, AgendaFate, Promise!Finish
  <2>3. QED
    BY <2>1, <2>2 DEF Promise!Next
<1>7. CASE \E c \in Callers : Cancel(c)
  BY <1>3, <1>7 DEF Cancel, Promise!Next, Events
<1>8. CASE \E c \in Callers : EnterAbs(c)
  BY <1>4, <1>8 DEF EnterAbs, Control, Promise!Next
<1>9. CASE StopCancels
  <2>1. to_cancel \subseteq Events
    BY DEF TypeOK
  <2>2. QED
    BY <1>3, <1>9, <2>1, AgendaStutter DEF StopCancels, Promise!Next
<1>10. CASE \/ \E c \in Callers : ReleaseSemaphore(c)
            \/ TestStopFlag \/ AcquireSemaphore \/ RunDrained \/ RunWait
            \/ RunAwake \/ DoStop \/ CopyQueue \/ Tick \/ UNCHANGED vars
  BY <1>10, AgendaStutter
     DEF ReleaseSemaphore, TestStopFlag, AcquireSemaphore, RunDrained, RunWait,
         RunAwake, DoStop, CopyQueue, Tick, vars
<1>11. QED
  BY <1>2, <1>5, <1>6, <1>7, <1>8, <1>9, <1>10
     DEF Next, CallerStep, ThreadStep

\* SchedAsync and digi_sched.scheduler, step by step, do what Agenda says:
\* no event starts unless it is pending and no other runs, none starts after
\* a cancel that succeeded, for every number of threads and events.
THEOREM SchedulerImplementsAgenda == Spec => ImplementsAgenda
<1>1. Init => Promise!Init
  BY DEF Init, Promise!Init, AgendaFate
<1>2. QED
  BY <1>1, AgendaStep, RInvInductive, PTL
     DEF Spec, ImplementsAgenda, Promise!Spec
-----------------------------------------------------------------------------
(* The timed wait.  That an event in the queue keeps its time takes the     *)
(* whereabouts of events: only one that was never entered gets a time.     *)

LEMMA OversleepStep ==
    RInv /\ NeverOversleeps /\ [Next]_vars => NeverOversleeps'
<1> SUFFICES ASSUME TypeOK, Control, Whereabouts, NeverOversleeps,
                    [Next]_vars
             PROVE  NeverOversleeps'
  BY DEF RInv
<1> USE DEF NeverOversleeps
<1>1. ASSUME NEW c \in Callers, NEW e \in Events, NEW d \in Delays,
             NewEvent(c, e, d)
      PROVE  NeverOversleeps'
  <2>1. e \notin queue
    BY <1>1 DEF NewEvent, Whereabouts
  <2>2. \A f \in queue : due'[f] = due[f]
    BY <1>1, <2>1 DEF NewEvent, TypeOK
  <2>3. QED
    BY <1>1, <2>2 DEF NewEvent, threadVars
<1>2. ASSUME NEW c \in Callers, ScheduleAfter(c) PROVE NeverOversleeps'
  BY <1>1, <1>2 DEF ScheduleAfter, Events
<1>3. ASSUME NEW c \in Callers, Stop(c) PROVE NeverOversleeps'
  <2>1. PICK e \in Stops : NewEvent(c, e, 0)
    BY <1>3 DEF Stop
  <2>2. e \in Events /\ e \notin queue
    BY <2>1 DEF NewEvent, Whereabouts, Events
  <2>3. \A f \in queue : due'[f] = due[f]
    BY <2>1, <2>2 DEF NewEvent, TypeOK
  <2>4. QED
    BY <2>1, <2>3 DEF NewEvent, threadVars
<1>4. ASSUME NEW c \in Callers, Cancel(c) \/ CallerStep(c)
      PROVE  NeverOversleeps'
  BY <1>4 DEF Cancel, RemoveEvent, CallerStep, EnterAbs, ReleaseSemaphore,
              threadVars
<1>5. CASE RunWait
  <2>1. PICK e \in Events : IsHead(e) /\ wake' = due[e]
    BY <1>5 DEF RunWait
  <2>2. due \in [Events -> Nat] /\ queue \subseteq Events
    BY DEF TypeOK
  <2>3. \A f \in queue : due[e] <= due[f]
    BY <2>1, <2>2 DEF IsHead, Before
  <2>4. QED
    BY <1>5, <2>1, <2>3 DEF RunWait
<1>6. CASE ThreadStep /\ ~RunWait
  BY <1>6 DEF ThreadStep, TestStopFlag, AcquireSemaphore, RunDrained,
     RunAwake, RunPop, ActionReturns, ActionEscapes, EndAction, DoStop,
     CopyQueue, StopCancels, StopReturns
<1>7. CASE Tick \/ UNCHANGED vars
  BY <1>7 DEF Tick, threadVars, vars
<1>8. QED
  BY <1>2, <1>3, <1>4, <1>5, <1>6, <1>7 DEF Next

\* In its timed wait the scheduler thread never sleeps past the time of an
\* event in the queue without having been notified, however many threads
\* enter, cancel and stop meanwhile (digi_sched.py, run, enterabs, cancel).
THEOREM SleepsNoLonger == Spec => []NeverOversleeps
<1>1. Init => NeverOversleeps
  BY DEF Init, NeverOversleeps
<1>2. QED
  BY <1>1, OversleepStep, RInvInductive, PTL DEF Spec
=============================================================================
