----------------------------- MODULE Lifecycle -----------------------------
(***************************************************************************)
(* The start and the shutdown of everything Dia runs: core/core_services   *)
(* (epoch, _shutdown), the managers of common/abstract_service_manager,    *)
(* the settings that list their instances, and the two ways in which       *)
(* instances come to be while Dia runs: a presentation that applies        *)
(* changed settings, and the XBee auto enumeration device, which adds the  *)
(* devices it discovers from a thread of its own.                          *)
(*                                                                         *)
(* An object is a name and a number, so that two objects may have been     *)
(* made for one name; the number 0 is "no object".  Each has one thread,   *)
(* which ends some time after stop() was called.                           *)
(***************************************************************************)
EXTENDS Naturals, Sequences, FiniteSets, SequencesExt

CONSTANTS Main,          \* the main thread
          Appliers,      \* threads of presentations that apply settings
          Enum,          \* the thread of the auto enumeration device
          Boot,          \* the managers in the order epoch starts them
          LoggingManager, DeviceManager, PresentationManager,
          Listed,        \* the names each manager's settings list at the start
          ManagerOf,     \* the manager of each name
          Autoenum,      \* the name of the auto enumeration device
          Address,       \* the XBee address of each name, or NoAddress
          Sources,       \* the names whose constructor adds channels
          Stubborn,      \* the names whose stop() may raise
          NoAddress, Nobody,
          MaxCopies,     \* bound on the objects there are of one name
          MaxList        \* bound on the length of an instance list

Managers == Range(Boot)
Names    == DOMAIN Address
Objects  == Names \X (1..MaxCopies)
Walkers  == {Main} \cup Appliers
Callers  == Walkers \cup {Enum}

ASSUME LifecycleAssumption ==
    /\ Main \notin Appliers /\ Enum \notin Walkers /\ Nobody \notin Callers
    /\ Boot \in Seq(Managers)
    /\ {LoggingManager, DeviceManager, PresentationManager} \subseteq Managers
    /\ Listed \in [Managers -> Seq(Names)]
    /\ ManagerOf \in [Names -> Managers]
    /\ \A m \in Managers, n \in Names :
          n \in Range(Listed[m]) => ManagerOf[n] = m
    /\ \A n \in Names : Address[n] # NoAddress => ManagerOf[n] = DeviceManager
    /\ Autoenum \in Names /\ Address[Autoenum] = NoAddress
    /\ ManagerOf[Autoenum] = DeviceManager
    /\ Sources \subseteq Names /\ Stubborn \subseteq Names
    /\ MaxCopies \in Nat \ {0} /\ MaxList \in Nat

VARIABLES
    main,       \* where the main thread is
    up,         \* how many managers of Boot have been constructed
    requested,  \* __shutdown_event
    listed,     \* the instance_list of each manager in the pending registry
    instance,   \* _name_instance_map of every manager
    thread,     \* the thread of each object
    asked,      \* objects whose stop event is set
    channels,   \* the names whose channels are in the channel database
    lock,       \* who applies settings and so holds _settings_global_lock
    at,         \* where each caller is in _reenumerate_services, instance_new
                \* or __add_new_device
    manager,    \* the manager whose list it walks
    done,       \* how many entries it has passed
    name,       \* the name it is at
    copy,       \* the object it has constructed
    to_visit,   \* managers whose instances _shutdown has not listed
    logging,    \* _shutdown has listed the loggers a second time
    snapshot,   \* what is left of instance_list() of the manager it is at
    purgatory,  \* the addresses the auto enumeration has given up
    late        \* history: objects entered after their manager was listed

mainVars == <<main, up, to_visit, logging, snapshot>>
callVars == <<at, manager, done, name, copy>>
vars == <<mainVars, callVars, requested, listed, instance, thread, asked,
          channels, lock, purgatory, late>>

Stopping == {"stopping", "joining", "ended"}

TypeOK ==
    /\ main \in Stopping \cup {"booting", "spinning", "escaped"}
    /\ up \in 0..Len(Boot)
    /\ requested \in BOOLEAN
    /\ listed \in [Managers -> Seq(Names)]
    /\ instance \in [Names -> 0..MaxCopies]
    /\ thread \in [Objects -> {"none", "running", "ended"}]
    /\ asked \in SUBSET Objects
    /\ channels \in SUBSET Sources
    /\ lock \in Appliers \cup {Nobody}
    /\ \A w \in Appliers : at[w] # "idle" <=> lock = w
    /\ at \in [Callers -> {"idle", "walking", "looking", "checking",
                 "building", "opening", "adding", "storing", "starting",
                 "failed", "removing"}]
    /\ manager \in [Walkers -> Managers]
    /\ done \in [Walkers -> Nat]
    /\ \A w \in Walkers : done[w] <= Len(listed[manager[w]])
    /\ name \in [Callers -> Names]
    /\ copy \in [Callers -> 0..MaxCopies]
    /\ to_visit \in SUBSET Managers
    /\ logging \in BOOLEAN
    /\ snapshot \in SUBSET Names
    /\ purgatory \in SUBSET Range(Address)
    /\ late \in SUBSET Objects

Init ==
    /\ main = "booting"
    /\ up = 0
    /\ requested = FALSE
    /\ listed = Listed
    /\ instance = [n \in Names |-> 0]
    /\ thread = [o \in Objects |-> "none"]
    /\ asked = {}
    /\ channels = {}
    /\ lock = Nobody
    /\ at = [c \in Callers |-> "idle"]
    /\ manager = [w \in Walkers |-> Boot[1]]
    /\ done = [w \in Walkers |-> 0]
    /\ name = [c \in Callers |-> Autoenum]
    /\ copy = [c \in Callers |-> 0]
    /\ to_visit = {}
    /\ logging = FALSE
    /\ snapshot = {}
    /\ purgatory = {}
    /\ late = {}

-----------------------------------------------------------------------------
(* Walking an instance list: _reenumerate_services, called by the          *)
(* constructor of a manager and when its settings are applied.             *)

Begin(w, m) ==
    /\ at[w] = "idle"
    /\ at' = [at EXCEPT ![w] = "walking"]
    /\ manager' = [manager EXCEPT ![w] = m]
    /\ done' = [done EXCEPT ![w] = 0]
    /\ UNCHANGED <<mainVars, name, copy, requested, listed, instance, thread,
                   asked, channels, purgatory, late>>

\* epoch constructs the next manager, which applies the settings loaded
\* before it was there.  No lock is held meanwhile.
StartManager ==
    /\ main = "booting"
    /\ Begin(Main, Boot[up + 1])
    /\ UNCHANGED lock

\* A presentation applies changed settings: globally_apply_settings holds
\* the global lock throughout.  One changed binding at a time.
ApplySettings(w) ==
    /\ w \in Appliers
    /\ lock = Nobody
    /\ \E o \in Objects : /\ ManagerOf[o[1]] = PresentationManager
                          /\ thread[o] = "running" /\ o \notin asked
    /\ \E i \in 1..Len(Boot) : i <= up + 1 /\ Begin(w, Boot[i])
    /\ lock' = w

\* A caller is done; what it leaves in its variables is of no use.
Rests(c) ==
    /\ at' = [at EXCEPT ![c] = "idle"]
    /\ name' = [name EXCEPT ![c] = Autoenum]
    /\ copy' = [copy EXCEPT ![c] = 0]
    /\ IF c = Enum
       THEN UNCHANGED <<manager, done>>
       ELSE /\ manager' = [manager EXCEPT ![c] = Boot[1]]
            /\ done' = [done EXCEPT ![c] = 0]

\* Mutant: the lock is not released.
Returned_KeepsLock(w) == Rests(w) /\ UNCHANGED lock

\* What the walk returns to: epoch, which goes on with the next manager, or
\* globally_apply_settings, which releases the lock.
Returned(w) ==
    /\ Rests(w)
    /\ IF w = Main THEN UNCHANGED lock ELSE lock' = Nobody

\* Mutant: epoch goes on with the next manager.
Raised_EpochGoesOn(c, banish) ==
    /\ IF c = Enum
       THEN /\ at' = [at EXCEPT ![c] = "failed"]
            /\ copy' = [copy EXCEPT ![c] = 0]
            /\ UNCHANGED <<manager, done, name, lock, purgatory>>
       ELSE Returned(c) /\ UNCHANGED purgatory
    /\ IF c = Main
       THEN /\ up' = up + 1
            /\ main' = IF up' = Len(Boot) THEN "spinning" ELSE main
       ELSE UNCHANGED <<main, up>>
    /\ UNCHANGED <<requested, to_visit, logging, snapshot, listed, instance,
                   asked, late>>

\* What an exception returns to.  In epoch it is fatal, and asks for a
\* shutdown; globally_apply_settings and the auto enumeration catch it.
Raised(c, banish) ==
    /\ IF c = Enum
       THEN /\ at' = [at EXCEPT ![c] = "failed"]
            /\ copy' = [copy EXCEPT ![c] = 0]
            /\ purgatory' = IF banish THEN purgatory \cup {Address[name[c]]}
                                      ELSE purgatory
            /\ UNCHANGED <<manager, done, name, lock>>
       ELSE Returned(c) /\ UNCHANGED purgatory
    /\ IF c = Main
       THEN main' = "spinning" /\ requested' = TRUE
       ELSE UNCHANGED <<main, requested>>
    /\ UNCHANGED <<up, to_visit, logging, snapshot, listed, instance, asked,
                   late>>

Entry(w)  == listed[manager[w]][done[w] + 1]
Passed(w) == Range(SubSeq(listed[manager[w]], 1, done[w]))

WalkEnds(w) ==
    /\ at[w] = "walking"
    /\ done[w] = Len(listed[manager[w]])
    /\ Returned(w)
    /\ IF w = Main
       THEN /\ up' = up + 1
            /\ main' = IF up' = Len(Boot) THEN "spinning" ELSE main
       ELSE UNCHANGED <<main, up>>
    /\ UNCHANGED <<to_visit, logging, snapshot, requested, listed, instance,
                   thread, asked, channels, purgatory, late>>

InWalk(w) == at[w] = "walking" /\ done[w] < Len(listed[manager[w]])

WalkDuplicate(w) ==
    /\ InWalk(w)
    /\ Entry(w) \in Passed(w)
    /\ Raised(w, FALSE)
    /\ UNCHANGED <<thread, channels>>

\* An instance that exists is passed over, whether it was started or not.
WalkSkip(w) ==
    /\ InWalk(w)
    /\ Entry(w) \notin Passed(w)
    /\ instance[Entry(w)] # 0
    /\ done' = [done EXCEPT ![w] = @ + 1]
    /\ UNCHANGED <<mainVars, at, manager, name, copy, requested, listed,
                   instance, thread, asked, channels, lock, purgatory, late>>

WalkNew(w) ==
    /\ InWalk(w)
    /\ Entry(w) \notin Passed(w)
    /\ instance[Entry(w)] = 0
    /\ name' = [name EXCEPT ![w] = Entry(w)]
    /\ at' = [at EXCEPT ![w] = "checking"]
    /\ UNCHANGED <<mainVars, manager, done, copy, requested, listed, instance,
                   thread, asked, channels, lock, purgatory, late>>
-----------------------------------------------------------------------------
(* instance_new and instance_start.                                        *)

Go(c, from, to) == at[c] = from /\ at' = [at EXCEPT ![c] = to]

\* instance_new refuses a name that exists.
Check(c) ==
    /\ instance[name[c]] = 0
    /\ Go(c, "checking", "building")
    /\ UNCHANGED <<mainVars, manager, done, name, copy, requested, listed,
                   instance, thread, asked, channels, lock, purgatory, late>>

CheckRaises(c) ==
    /\ at[c] = "checking"
    /\ instance[name[c]] # 0
    /\ Raised(c, FALSE)
    /\ UNCHANGED <<thread, channels>>

\* The constructor merges and commits settings under the global lock, so it
\* waits for a presentation that applies settings.
MayLock(c) == lock \in {c, Nobody}

InUse(o) ==
    \/ thread[o] = "running"
    \/ instance[o[1]] = o[2]
    \/ \E c \in Callers : name[c] = o[1] /\ copy[c] = o[2]

\* Bound: no more than MaxCopies objects of a name at a time.
Build(c) ==
    /\ MayLock(c)
    /\ Go(c, "building", "opening")
    /\ \E k \in 1..MaxCopies :
          LET o == <<name[c], k>> IN
          /\ ~InUse(o)
          /\ \A j \in 1..(k - 1) : InUse(<<name[c], j>>)
          /\ copy' = [copy EXCEPT ![c] = k]
          /\ thread' = [thread EXCEPT ![o] = "none"]
          /\ asked' = asked \ {o}
          /\ late' = late \ {o}
    /\ UNCHANGED <<mainVars, manager, done, name, requested, listed, instance,
                   channels, lock, purgatory>>

\* Settings that are rejected or missing, which banish a discovered device
\* for good, or a module that cannot be loaded, which does not.
BuildRaises(c) ==
    /\ at[c] = "building"
    /\ MayLock(c)
    /\ \E banish \in BOOLEAN : Raised(c, banish)
    /\ UNCHANGED <<thread, channels>>

\* add_property: channel_add refuses a channel that exists, as do those of an
\* instance that was removed, and adds it in a second step.
TestChannels(c) ==
    /\ name[c] \notin channels
    /\ Go(c, "opening", "adding")
    /\ UNCHANGED <<mainVars, manager, done, name, copy, requested, listed,
                   instance, thread, asked, channels, lock, purgatory, late>>

AddRaises(c) ==
    /\ at[c] = "opening"
    /\ name[c] \in channels
    /\ Raised(c, FALSE)
    /\ UNCHANGED <<thread, channels>>

AddChannels(c) ==
    /\ Go(c, "adding", "storing")
    /\ channels' = channels \cup ({name[c]} \cap Sources)
    /\ UNCHANGED <<mainVars, manager, done, name, copy, requested, listed,
                   instance, thread, asked, lock, purgatory, late>>

\* _shutdown has listed the instances of this manager already.
Visited(m) == main \in Stopping /\ m \notin to_visit

\* The new instance enters the map, whatever is there by now.
Store(c) ==
    /\ Go(c, "storing", "starting")
    /\ instance' = [instance EXCEPT ![name[c]] = copy[c]]
    /\ late' = IF Visited(ManagerOf[name[c]])
               THEN late \cup {<<name[c], copy[c]>>} ELSE late
    /\ copy' = [copy EXCEPT ![c] = 0]
    /\ UNCHANGED <<mainVars, manager, done, name, requested, listed, thread,
                   asked, channels, lock, purgatory>>

\* instance_start looks the name up again and starts what it finds.
Start(c) ==
    LET o == <<name[c], instance[name[c]]>> IN
    /\ at[c] = "starting"
    /\ o \in Objects
    /\ thread[o] = "none"
    /\ thread' = [thread EXCEPT ![o] = "running"]
    /\ IF c = Enum
       THEN Rests(c)
       ELSE /\ at' = [at EXCEPT ![c] = "walking"]
            /\ done' = [done EXCEPT ![c] = @ + 1]
            /\ name' = [name EXCEPT ![c] = Autoenum]
            /\ UNCHANGED <<manager, copy>>
    /\ UNCHANGED <<mainVars, requested, listed, instance,
                   asked, channels, lock, purgatory, late>>

\* The name is gone, or the thread was started before, or start() raises.
StartRaises(c) ==
    /\ at[c] = "starting"
    /\ \E banish \in BOOLEAN :
          /\ banish => /\ instance[name[c]] # 0
                       /\ thread[<<name[c], instance[name[c]]>>] = "none"
          /\ Raised(c, banish)
    /\ UNCHANGED <<thread, channels>>
-----------------------------------------------------------------------------
(* The thread of the auto enumeration device.                              *)

Enumerating == \E k \in 1..MaxCopies : thread[<<Autoenum, k>>] = "running"
EnumStopped == \A k \in 1..MaxCopies :
                  thread[<<Autoenum, k>>] = "running"
                      => <<Autoenum, k>> \in asked

\* __add_new_device: an address that no instance has and that is not in
\* purgatory gets a name and is appended to the pending instance list.
\* Bound: MaxList.
AddNewDevice ==
    /\ at[Enum] = "idle"
    /\ Enumerating /\ ~EnumStopped
    /\ Len(listed[DeviceManager]) < MaxList
    /\ \E n \in Names :
          /\ Address[n] \notin purgatory \cup {NoAddress}
          /\ \A i \in Names : instance[i] # 0 => Address[i] # Address[n]
          /\ name' = [name EXCEPT ![Enum] = n]
          /\ listed' = [listed EXCEPT ![DeviceManager] = Append(@, n)]
    /\ at' = [at EXCEPT ![Enum] = "looking"]
    /\ UNCHANGED <<mainVars, manager, done, copy, requested, instance, thread,
                   asked, channels, lock, purgatory, late>>

\* "if instance_settings['name'] not in dm.instance_list()"
LookForName ==
    /\ at[Enum] = "looking"
    /\ IF instance[name[Enum]] # 0
       THEN Rests(Enum)
       ELSE /\ at' = [at EXCEPT ![Enum] = "checking"]
            /\ UNCHANGED <<manager, done, name, copy>>
    /\ UNCHANGED <<mainVars, requested, listed, instance, thread, asked,
                   channels, lock, purgatory, late>>

\* The except clause calls instance_remove, which stops the instance of the
\* name, whoever made it, and deletes it if stop() returns True.
StopFailed ==
    LET o == <<name[Enum], instance[name[Enum]]>> IN
    /\ at[Enum] = "failed"
    /\ \/ /\ o \in Objects
          /\ asked' = asked \cup {o}
          /\ at' = [at EXCEPT ![Enum] = "removing"]
          /\ UNCHANGED <<manager, done, name, copy>>
       \/ Rests(Enum) /\ UNCHANGED asked
    /\ UNCHANGED <<mainVars, requested, listed, instance, thread, channels,
                   lock, purgatory, late>>

RemoveFailed ==
    /\ at[Enum] = "removing"
    /\ Rests(Enum)
    /\ instance' = [instance EXCEPT ![name[Enum]] = 0]
    /\ UNCHANGED <<mainVars, requested, listed,
                   thread, asked, channels, lock, purgatory, late>>
-----------------------------------------------------------------------------
(* Shutdown.                                                               *)

\* request_shutdown, from any thread; an interrupt has the same effect.  A
\* request made while epoch runs is seen when it has come through.
RequestShutdown ==
    /\ main = "spinning" /\ ~requested
    /\ requested' = TRUE
    /\ UNCHANGED <<mainVars, callVars, listed, instance, thread, asked,
                   channels, lock, purgatory, late>>

Registered == {Boot[i] : i \in {j \in 1..Len(Boot) : j <= up + 1}}

HasLoggers == \E i \in 1..up : Boot[i] = LoggingManager

\* spin_forever leaves its loop and calls _shutdown, which cannot do without
\* a channel manager that has a logging manager.  What _shutdown raises ends
\* the process without unlock().
Shutdown ==
    /\ main = "spinning"
    /\ requested
    /\ IF HasLoggers
       THEN main' = "stopping" /\ to_visit' = Registered
       ELSE main' = "escaped" /\ UNCHANGED to_visit
    /\ UNCHANGED <<up, logging, snapshot, callVars, requested, listed,
                   instance, thread, asked, channels, lock, purgatory, late>>

InstancesOf(m) == {n \in Names : ManagerOf[n] = m /\ instance[n] # 0}

\* The managers in the order of a dictionary, then the loggers again.
ToVisit(m) == IF to_visit # {} THEN m \in to_visit
                               ELSE m = LoggingManager /\ ~logging

\* Mutant: the loggers are appended to the list that is being walked.
ListInstances_Again ==
    /\ main = "stopping"
    /\ snapshot = {}
    /\ \E m \in Managers : /\ ToVisit(m)
                           /\ snapshot' = InstancesOf(m)
                           /\ to_visit' = to_visit \ {m}
    /\ UNCHANGED <<main, up, logging, callVars, requested, listed, instance,
                   thread, asked, channels, lock, purgatory, late>>

ListInstances ==
    /\ main = "stopping"
    /\ snapshot = {}
    /\ \E m \in Managers : /\ ToVisit(m)
                           /\ snapshot' = InstancesOf(m)
                           /\ to_visit' = to_visit \ {m}
                           /\ logging' = (to_visit = {})
    /\ UNCHANGED <<main, up, callVars, requested, listed, instance, thread,
                   asked, channels, lock, purgatory, late>>

\* Another thread is about to change the size of the manager's dictionary.
Resizing(m) ==
    \E c \in Callers : /\ ManagerOf[name[c]] = m
                       /\ \/ at[c] = "storing" /\ instance[name[c]] = 0
                          \/ at[c] = "removing"

\* instance_list iterates over the dictionary meanwhile, and nothing catches
\* the exception.
ListRaises ==
    /\ main = "stopping"
    /\ snapshot = {}
    /\ \E m \in Managers : ToVisit(m) /\ Resizing(m)
    /\ main' = "escaped"
    /\ UNCHANGED <<up, to_visit, logging, snapshot, callVars, requested,
                   listed, instance, thread, asked, channels, lock, purgatory,
                   late>>

\* Mutant: the try statement is around the loop.
StopInstance_Abandons ==
    /\ main = "stopping"
    /\ \E n \in snapshot :
          LET o == <<n, instance[n]>> IN
          \/ /\ o \in Objects
             /\ asked' = asked \cup {o}
             /\ snapshot' = snapshot \ {n}
          \/ /\ o \in Objects => n \in Stubborn
             /\ snapshot' = {}
             /\ UNCHANGED asked
    /\ UNCHANGED <<main, up, to_visit, logging, callVars, requested, listed,
                   instance, thread, channels, lock, purgatory, late>>

\* instance_stop of one instance.  One that is gone raises, and stop() may
\* raise: either way the loop goes on.
StopInstance ==
    /\ main = "stopping"
    /\ \E n \in snapshot :
          LET o == <<n, instance[n]>> IN
          /\ snapshot' = snapshot \ {n}
          /\ IF o \in Objects
             THEN \/ asked' = asked \cup {o}
                  \/ n \in Stubborn /\ UNCHANGED asked
             ELSE UNCHANGED asked
    /\ UNCHANGED <<main, up, to_visit, logging, callVars, requested, listed,
                   instance, thread, channels, lock, purgatory, late>>

\* The scheduler and the tracing manager are stopped, and _shutdown waits
\* for the other threads.
StopCore ==
    /\ main = "stopping"
    /\ snapshot = {} /\ to_visit = {} /\ logging
    /\ main' = "joining"
    /\ UNCHANGED <<up, to_visit, logging, snapshot, callVars, requested,
                   listed, instance, thread, asked, channels, lock, purgatory,
                   late>>

AllThreadsStopped ==
    /\ main = "joining"
    /\ \A o \in Objects : thread[o] # "running"
    /\ main' = "ended"
    /\ UNCHANGED <<up, to_visit, logging, snapshot, callVars, requested,
                   listed, instance, thread, asked, channels, lock, purgatory,
                   late>>

\* A thread sees its stop event and ends, once it is done with what it does.
ThreadEnds(o) ==
    /\ thread[o] = "running"
    /\ o \in asked
    /\ o[1] = Autoenum => at[Enum] = "idle"
    /\ ManagerOf[o[1]] = PresentationManager
          => \A w \in Appliers : at[w] = "idle"
    /\ thread' = [thread EXCEPT ![o] = "ended"]
    /\ UNCHANGED <<mainVars, callVars, requested, listed, instance, asked,
                   channels, lock, purgatory, late>>
-----------------------------------------------------------------------------
NewStep(c) ==
    \/ Check(c) \/ CheckRaises(c) \/ Build(c) \/ BuildRaises(c)
    \/ TestChannels(c) \/ AddRaises(c) \/ AddChannels(c)
    \/ Store(c) \/ Start(c) \/ StartRaises(c)

WalkStep(w) ==
    WalkEnds(w) \/ WalkDuplicate(w) \/ WalkSkip(w) \/ WalkNew(w) \/ NewStep(w)

EnumStep == LookForName \/ StopFailed \/ RemoveFailed \/ NewStep(Enum)

ShutdownStep ==
    \/ Shutdown \/ ListInstances \/ ListRaises \/ StopInstance
    \/ StopCore \/ AllThreadsStopped

Next ==
    \/ StartManager \/ ShutdownStep \/ RequestShutdown
    \/ \E w \in Walkers : ApplySettings(w) \/ WalkStep(w)
    \/ AddNewDevice \/ EnumStep
    \/ \E o \in Objects : ThreadEnds(o)

Spec == Init /\ [][Next]_vars

\* Every thread goes on with what it has begun; nobody has to apply settings
\* and nothing has to be discovered.
Fairness ==
    /\ WF_vars(StartManager \/ WalkStep(Main))
    /\ WF_vars(ShutdownStep)
    /\ \A w \in Appliers : WF_vars(WalkStep(w))
    /\ WF_vars(EnumStep)
    /\ WF_vars(\E o \in Objects : ThreadEnds(o))

FairSpec == Spec /\ Fairness
-----------------------------------------------------------------------------
(* Properties.                                                             *)

\* Threads that nobody has asked to stop while _shutdown waits for them
\* (core_services.py, _shutdown).
Strays == {o \in Objects : /\ main = "joining"
                           /\ thread[o] = "running"
                           /\ o \notin asked}

\* Such a thread is there for one of three reasons: its instance entered the
\* map after _shutdown listed the manager, its stop() raised, or the map holds
\* it no longer: another object took its place, and may since have been
\* removed by the cleanup after a failed start.
StrayForCause ==
    \A o \in Strays : \/ o \in late \/ o[1] \in Stubborn
                      \/ instance[o[1]] # o[2]

\* Once epoch has come through, every instance of the settings file is in its
\* manager's map, unless the auto enumeration came upon a device of that very
\* name: no walk of a list that grows meanwhile leaves one out.
ConfiguredStays ==
    up = Len(Boot) =>
        \A m \in Managers : \A n \in Range(Listed[m]) :
            instance[n] = 0 =>
                \E i \in (Len(Listed[m]) + 1)..Len(listed[m]) :
                    listed[m][i] = n

\* A shutdown that was asked for comes to its end, after which dia.py unlocks,
\* with three exceptions.  There is a thread that was not asked to stop; or
\* _shutdown raised, so that unlock() is skipped: because epoch had failed
\* before there was a logging manager, or because the list of a manager's
\* instances was taken while another thread was changing it.
ShutdownEnds ==
    main = "spinning" /\ requested ~>
        \/ main = "ended"
        \/ Strays # {}
        \/ main = "escaped" /\ ~HasLoggers
        \/ main = "escaped" /\ \E m \in Managers : ToVisit(m) /\ Resizing(m)
=============================================================================
