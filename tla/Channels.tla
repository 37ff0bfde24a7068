------------------------------ MODULE Channels ------------------------------
(***************************************************************************)
(* The channel database, the publisher and the logging manager:            *)
(* channels/channel_database.py, channel.py, channel_publisher.py and      *)
(* logging/logging_manager.py, with the threads that use them.             *)
(*                                                                         *)
(* Threads add and remove channels and set samples.  A channel object is   *)
(* an identity, and a name may come to denote another object.  A callback  *)
(* reads the channel's current sample when it is called, so what matters   *)
(* of a sample is which callbacks still have to be called since it was     *)
(* stored: the pairs in "owed".                                            *)
(*                                                                         *)
(* Three kinds of consumers hold callbacks.  Plain ones subscribe to names *)
(* they are given, or to all.  Followers are the uploads (edp_upload.py):  *)
(* they subscribe to new channels and then walk the list of those that     *)
(* exist; Names are channels their settings ask for.  Wild ones do it      *)
(* through wild_subscribe (common/utils.py), in the other order.  The      *)
(* filters (filter_channel_base.py) are neither: their callback may return *)
(* without a subscription, and what it then does is not modelled.          *)
(***************************************************************************)
EXTENDS Naturals, FiniteSets

CONSTANTS Threads,     \* threads that add, remove and set channels
          Names,       \* channel names
          Objects,     \* identities of Channel objects
          Plain,       \* consumers that subscribe by name
          Followers,   \* consumers that follow all channels
          Wild,        \* consumers that use wild_subscribe
          Faulty,      \* consumers whose callbacks may raise
          Loggers,     \* instances under the logging manager
          Unlogged,    \* names of the channels that have OPT_DONOTLOG
          NoObject,    \* "no object"
          NoName       \* "no name"

Callbacks == Plain \cup Followers \cup Wild

ASSUME ChannelsAssumption ==
    /\ NoObject \notin Objects
    /\ NoName \notin Names
    /\ Plain \cap (Followers \cup Wild) = {}
    /\ Followers \cap Wild = {}
    /\ Faulty \subseteq Callbacks
    /\ Unlogged \subseteq Names

VARIABLES
    database,       \* ChannelDatabase.__channels
    nameOf,         \* Channel.__name
    attached,       \* objects whose __new_sample_cbs hold the publisher's
    known,          \* keys of ChannelPublisher.__channel_listeners
    listeners,      \* its values, {} where there is no key
    new_listeners,  \* ChannelPublisher.__new_channel_listeners
    pc,             \* where each thread is
    obj,            \* the channel object it works on
    name,           \* the channel name it works on
    todo,           \* what is left of the collection it iterates over
    stage,          \* how far each follower or wild consumer has come
    walk,           \* what is left of the channel list it walks
    owed,           \* history: <<cb, o>> that a stored sample has to reach
    early,          \* history: owed pairs stored before o was attached
    cut,            \* history: owed pairs skipped because a callback raised
    deaf,           \* history: <<cb, n>> not told of n, likewise
    journal         \* history: the kinds of event each logger got of o

publisherVars == <<known, listeners, new_listeners>>
consumerVars  == <<stage, walk>>
historyVars   == <<owed, early, cut, deaf, journal>>
vars == <<database, nameOf, attached, publisherVars, pc, obj, name, todo,
          consumerVars, historyVars>>

AddStages    == {"insert", "announce", "new calls", "new log", "attach"}
SetStages    == {"store", "dispatch", "log", "copy dict", "copy set", "calls"}
RemoveStages == {"remove log", "delete"}

TypeOK ==
    /\ database \in [Names -> Objects \cup {NoObject}]
    /\ nameOf \in [Objects -> Names \cup {NoName}]
    /\ attached \in SUBSET Objects
    /\ known \in SUBSET Names
    /\ listeners \in [Names -> SUBSET Callbacks]
    /\ new_listeners \in SUBSET (Followers \cup Wild)
    /\ pc \in [Threads -> {"idle"} \cup AddStages \cup SetStages
                            \cup RemoveStages]
    /\ obj \in [Threads -> Objects \cup {NoObject}]
    /\ name \in [Threads -> Names \cup {NoName}]
    /\ todo \in [Threads -> SUBSET (Callbacks \cup Loggers)]
    /\ stage \in [Followers \cup Wild
                    -> {"off", "list", "walk", "on", "walk off"}]
    /\ walk \in [Followers \cup Wild -> SUBSET Names]
    /\ owed \in SUBSET (Callbacks \X Objects)
    /\ early \in SUBSET (Callbacks \X Objects)
    /\ cut \in SUBSET (Callbacks \X Objects)
    /\ deaf \in SUBSET (Callbacks \X Names)
    /\ journal \in [Loggers \X Objects -> SUBSET {"new", "sample", "remove"}]

Init ==
    /\ database = [n \in Names |-> NoObject]
    /\ nameOf = [o \in Objects |-> NoName]
    /\ attached = {}
    /\ known = {}
    /\ listeners = [n \in Names |-> {}]
    /\ new_listeners = {}
    /\ pc = [t \in Threads |-> "idle"]
    /\ obj = [t \in Threads |-> NoObject]
    /\ name = [t \in Threads |-> NoName]
    /\ todo = [t \in Threads |-> {}]
    /\ stage = [c \in Followers \cup Wild |-> "off"]
    /\ walk = [c \in Followers \cup Wild |-> {}]
    /\ owed = {}
    /\ early = {}
    /\ cut = {}
    /\ deaf = {}
    /\ journal = [p \in Loggers \X Objects |-> {}]

Exists(n) == database[n] # NoObject

\* An object nobody refers to any longer may serve as a new one.
Unreferenced(o) ==
    /\ \A n \in Names : database[n] # o
    /\ \A t \in Threads : obj[t] # o

GoTo(t, where) == pc' = [pc EXCEPT ![t] = where]

Return(t) ==
    /\ pc' = [pc EXCEPT ![t] = "idle"]
    /\ obj' = [obj EXCEPT ![t] = NoObject]
    /\ name' = [name EXCEPT ![t] = NoName]
    /\ todo' = [todo EXCEPT ![t] = {}]

\* __dispatch_logging_event drops the events of channels not to be logged.
LoggersOf(n) == IF n \in Unlogged THEN {} ELSE Loggers

\* One call of log_event; the manager swallows what it raises.  The loggers
\* are the same all along, so that the list of them and the look-up by name,
\* which stand outside the try statement, do not raise.
LogEvent(t, kind) ==
    \E g \in todo[t] :
        /\ todo' = [todo EXCEPT ![t] = @ \ {g}]
        /\ journal' = [journal EXCEPT ![<<g, obj[t]>>] = @ \cup {kind}]

-----------------------------------------------------------------------------
(* channel_add.                                                            *)

\* The test that the name is free; nothing is locked from here to Insert.
AddChannel(t, n) ==
    /\ pc[t] = "idle"
    /\ ~Exists(n)
    /\ GoTo(t, "insert")
    /\ name' = [name EXCEPT ![t] = n]
    /\ UNCHANGED <<database, nameOf, attached, publisherVars, obj, todo,
                   consumerVars, historyVars>>

\* Mutant: the publisher's callback is there from the beginning.
Insert_Attached(t) ==
    /\ pc[t] = "insert"
    /\ \E o \in Objects :
          /\ Unreferenced(o)
          /\ database' = [database EXCEPT ![name[t]] = o]
          /\ nameOf' = [nameOf EXCEPT ![o] = name[t]]
          /\ attached' = attached \cup {o}
          /\ obj' = [obj EXCEPT ![t] = o]
          /\ owed' = {p \in owed : p[2] # o}
          /\ early' = {p \in early : p[2] # o}
          /\ cut' = {p \in cut : p[2] # o}
          /\ journal' = [p \in Loggers \X Objects |->
                            IF p[2] = o THEN {} ELSE journal[p]]
    /\ GoTo(t, "announce")
    /\ UNCHANGED <<publisherVars, name, todo, consumerVars, deaf>>

\* The Channel object is made and entered under its name, whatever object
\* may have been entered there since the test.
Insert(t) ==
    /\ pc[t] = "insert"
    /\ \E o \in Objects :
          /\ Unreferenced(o)
          /\ database' = [database EXCEPT ![name[t]] = o]
          /\ nameOf' = [nameOf EXCEPT ![o] = name[t]]
          /\ attached' = attached \ {o}
          /\ obj' = [obj EXCEPT ![t] = o]
          /\ owed' = {p \in owed : p[2] # o}
          /\ early' = {p \in early : p[2] # o}
          /\ cut' = {p \in cut : p[2] # o}
          /\ journal' = [p \in Loggers \X Objects |->
                            IF p[2] = o THEN {} ELSE journal[p]]
    /\ GoTo(t, "announce")
    /\ UNCHANGED <<publisherVars, name, todo, consumerVars, deaf>>

\* __notify_new_channel: the copy of the listeners, under the lock.
CopyNewListeners(t) ==
    /\ pc[t] = "announce"
    /\ todo' = [todo EXCEPT ![t] = new_listeners]
    /\ GoTo(t, "new calls")
    /\ UNCHANGED <<database, nameOf, attached, publisherVars, obj, name,
                   consumerVars, historyVars>>

\* Mutant: every call of subscribe starts a new set.
AddListener_Replaces(cb, n) ==
    /\ known' = known \cup {n}
    /\ listeners' = [listeners EXCEPT ![n] = {cb}]

\* Mutant: the call that makes the set for a name does not add to it.
AddListener_MakesSet(cb, n) ==
    /\ known' = known \cup {n}
    /\ listeners' = IF n \in known THEN [listeners EXCEPT ![n] = @ \cup {cb}]
                                   ELSE listeners

\* The body of subscribe, under the lock.
AddListener(cb, n) ==
    /\ known' = known \cup {n}
    /\ listeners' = [listeners EXCEPT ![n] = @ \cup {cb}]

\* The callback of a follower subscribes to the new channel.
CallNewListener(t) ==
    /\ pc[t] = "new calls"
    /\ \E c \in todo[t] :
          /\ AddListener(c, name[t])
          /\ todo' = [todo EXCEPT ![t] = @ \ {c}]
    /\ UNCHANGED <<database, nameOf, attached, new_listeners, pc, obj, name,
                   consumerVars, historyVars>>

\* Mutant: the error escapes from new_channel.
NewListenerRaises_Escapes(t) ==
    /\ pc[t] = "new calls"
    /\ \E c \in todo[t] \cap Faulty :
          deaf' = deaf \cup (todo[t] \X {name[t]})
    /\ Return(t)
    /\ UNCHANGED <<database, nameOf, attached, publisherVars, consumerVars,
                   owed, early, cut, journal>>

\* It raises: the try statement is around the loop, which ends.
NewListenerRaises(t) ==
    /\ pc[t] = "new calls"
    /\ \E c \in todo[t] \cap Faulty :
          deaf' = deaf \cup (todo[t] \X {name[t]})
    /\ todo' = [todo EXCEPT ![t] = {}]
    /\ UNCHANGED <<database, nameOf, attached, publisherVars, pc, obj, name,
                   consumerVars, owed, early, cut, journal>>

NewCallsEnd(t) ==
    /\ pc[t] = "new calls"
    /\ todo[t] = {}
    /\ todo' = [todo EXCEPT ![t] = LoggersOf(name[t])]
    /\ GoTo(t, "new log")
    /\ UNCHANGED <<database, nameOf, attached, publisherVars, obj, name,
                   consumerVars, historyVars>>

LogNewChannel(t) ==
    /\ pc[t] = "new log"
    /\ LogEvent(t, "new")
    /\ UNCHANGED <<database, nameOf, attached, publisherVars, pc, obj, name,
                   consumerVars, owed, early, cut, deaf>>

NewLogEnds(t) ==
    /\ pc[t] = "new log"
    /\ todo[t] = {}
    /\ GoTo(t, "attach")
    /\ UNCHANGED <<database, nameOf, attached, publisherVars, obj, name, todo,
                   consumerVars, historyVars>>

\* Mutant: the reference is dropped before its callback is added.
Attach_Dropped(t) ==
    /\ pc[t] = "attach"
    /\ Return(t)
    /\ attached' = attached \cup {obj'[t]}
    /\ UNCHANGED <<database, nameOf, publisherVars, consumerVars, historyVars>>

\* add_new_sample_cb, the last thing that new_channel does.
Attach(t) ==
    /\ pc[t] = "attach"
    /\ attached' = attached \cup {obj[t]}
    /\ Return(t)
    /\ UNCHANGED <<database, nameOf, publisherVars, consumerVars, historyVars>>

-----------------------------------------------------------------------------
(* channel_remove.  A name is removed by the one device that owns it.      *)

RemoveChannel(t, n) ==
    /\ pc[t] = "idle"
    /\ Exists(n)
    /\ \A u \in Threads : pc[u] \in RemoveStages => name[u] # n
    /\ obj' = [obj EXCEPT ![t] = database[n]]
    /\ name' = [name EXCEPT ![t] = n]
    /\ todo' = [todo EXCEPT ![t] = LoggersOf(n)]
    /\ GoTo(t, "remove log")
    /\ UNCHANGED <<database, nameOf, attached, publisherVars, consumerVars,
                   historyVars>>

LogRemoveChannel(t) ==
    /\ pc[t] = "remove log"
    /\ LogEvent(t, "remove")
    /\ UNCHANGED <<database, nameOf, attached, publisherVars, pc, obj, name,
                   consumerVars, owed, early, cut, deaf>>

RemoveLogEnds(t) ==
    /\ pc[t] = "remove log"
    /\ todo[t] = {}
    /\ GoTo(t, "delete")
    /\ UNCHANGED <<database, nameOf, attached, publisherVars, obj, name, todo,
                   consumerVars, historyVars>>

\* The entry goes; the object keeps its callbacks and the publisher the
\* listeners of the name.
Delete(t) ==
    /\ pc[t] = "delete"
    /\ database' = [database EXCEPT ![name[t]] = NoObject]
    /\ Return(t)
    /\ UNCHANGED <<nameOf, attached, publisherVars, consumerVars, historyVars>>

-----------------------------------------------------------------------------
(* channel_get and then Channel.producer_set (a driver's property_set), or *)
(* a consumer_set that no device callback intercepts.                      *)

GetChannel(t, n) ==
    /\ pc[t] = "idle"
    /\ Exists(n)
    /\ obj' = [obj EXCEPT ![t] = database[n]]
    /\ name' = [name EXCEPT ![t] = n]
    /\ GoTo(t, "store")
    /\ UNCHANGED <<database, nameOf, attached, publisherVars, todo,
                   consumerVars, historyVars>>

\* The source refuses the sample: its type or a permission is wrong.
RefuseSample(t) ==
    /\ pc[t] = "store"
    /\ Return(t)
    /\ UNCHANGED <<database, nameOf, attached, publisherVars, consumerVars,
                   historyVars>>

\* The source stores the sample: from now on it is owed to the listeners.
StoreSample(t) ==
    /\ pc[t] = "store"
    /\ owed' = owed \cup (listeners[name[t]] \X {obj[t]})
    /\ GoTo(t, "dispatch")
    /\ UNCHANGED <<database, nameOf, attached, publisherVars, obj, name, todo,
                   consumerVars, early, cut, deaf, journal>>

\* __on_new_sample finds the publisher's callback in the object's list.
OnNewSample(t) ==
    /\ pc[t] = "dispatch"
    /\ obj[t] \in attached
    /\ todo' = [todo EXCEPT ![t] = LoggersOf(name[t])]
    /\ GoTo(t, "log")
    /\ UNCHANGED <<database, nameOf, attached, publisherVars, obj, name,
                   consumerVars, historyVars>>

\* It finds none: new_channel has not come that far.
OnNewSampleUnheard(t) ==
    /\ pc[t] = "dispatch"
    /\ obj[t] \notin attached
    /\ early' = early \cup {p \in owed : p[2] = obj[t]}
    /\ Return(t)
    /\ UNCHANGED <<database, nameOf, attached, publisherVars, consumerVars,
                   owed, cut, deaf, journal>>

LogNewSample(t) ==
    /\ pc[t] = "log"
    /\ LogEvent(t, "sample")
    /\ UNCHANGED <<database, nameOf, attached, publisherVars, pc, obj, name,
                   consumerVars, owed, early, cut, deaf>>

LogEnds(t) ==
    /\ pc[t] = "log"
    /\ todo[t] = {}
    /\ GoTo(t, "copy dict")
    /\ UNCHANGED <<database, nameOf, attached, publisherVars, obj, name, todo,
                   consumerVars, historyVars>>

\* Mutant: the lock is tried, and the notification given up if it is taken.
CopyDict_TryLock(t) ==
    /\ pc[t] = "copy dict"
    /\ \/ /\ name[t] \in known
          /\ GoTo(t, "copy set")
          /\ UNCHANGED <<obj, name, todo>>
       \/ Return(t)
    /\ UNCHANGED <<database, nameOf, attached, publisherVars, consumerVars,
                   historyVars>>

\* __notify: the shallow copy under the lock, in which the name may be absent.
CopyDict(t) ==
    /\ pc[t] = "copy dict"
    /\ \/ /\ name[t] \in known
          /\ GoTo(t, "copy set")
          /\ UNCHANGED <<obj, name, todo>>
       \/ /\ name[t] \notin known
          /\ Return(t)
    /\ UNCHANGED <<database, nameOf, attached, publisherVars, consumerVars,
                   historyVars>>

\* The copy of the set that the dictionary shares, without the lock.
CopySet(t) ==
    /\ pc[t] = "copy set"
    /\ todo' = [todo EXCEPT ![t] = listeners[name[t]]]
    /\ GoTo(t, "calls")
    /\ UNCHANGED <<database, nameOf, attached, publisherVars, obj, name,
                   consumerVars, historyVars>>

\* A callback that is called reads what the channel holds by then.
Called(cb, o) ==
    /\ owed' = owed \ {<<cb, o>>}
    /\ early' = early \ {<<cb, o>>}

CallListener(t) ==
    /\ pc[t] = "calls"
    /\ \E cb \in todo[t] :
          /\ Called(cb, obj[t])
          /\ cut' = cut \ {<<cb, obj[t]>>}
          /\ todo' = [todo EXCEPT ![t] = @ \ {cb}]
    /\ UNCHANGED <<database, nameOf, attached, publisherVars, pc, obj, name,
                   consumerVars, deaf, journal>>

\* The callback raises: the try statement is around the loop, which ends.
ListenerRaises(t) ==
    /\ pc[t] = "calls"
    /\ \E cb \in todo[t] \cap Faulty :
          /\ Called(cb, obj[t])
          /\ cut' = (cut \cup ((todo[t] \X {obj[t]}) \cap owed))
                       \ {<<cb, obj[t]>>}
    /\ todo' = [todo EXCEPT ![t] = {}]
    /\ UNCHANGED <<database, nameOf, attached, publisherVars, pc, obj, name,
                   consumerVars, deaf, journal>>

CallsEnd(t) ==
    /\ pc[t] = "calls"
    /\ todo[t] = {}
    /\ Return(t)
    /\ UNCHANGED <<database, nameOf, attached, publisherVars, consumerVars,
                   historyVars>>

-----------------------------------------------------------------------------
(* The publisher's interface, each call one critical section.              *)

threadVars == <<pc, obj, name, todo>>

Subscribe(cb, n) ==
    /\ AddListener(cb, n)
    /\ UNCHANGED <<database, nameOf, attached, new_listeners, threadVars,
                   consumerVars, historyVars>>

\* Nothing is owed to a callback that is no longer subscribed to the name.
Forget(cb, ns) ==
    LET gone(p) == p[1] = cb /\ nameOf[p[2]] \in ns
    IN  /\ owed' = {p \in owed : ~gone(p)}
        /\ early' = {p \in early : ~gone(p)}
        /\ cut' = {p \in cut : ~gone(p)}

RemoveListener(cb, n) ==
    /\ cb \in listeners[n]
    /\ listeners' = [listeners EXCEPT ![n] = @ \ {cb}]
    /\ Forget(cb, {n})

Unsubscribe(cb, n) ==
    /\ RemoveListener(cb, n)
    /\ UNCHANGED <<database, nameOf, attached, known, new_listeners,
                   threadVars, consumerVars, deaf, journal>>

SubscribeToAll(cb) ==
    LET ns == {n \in Names : Exists(n)}
    IN  /\ known' = known \cup ns
        /\ listeners' = [n \in Names |-> IF n \in ns
                                         THEN listeners[n] \cup {cb}
                                         ELSE listeners[n]]
        /\ UNCHANGED <<database, nameOf, attached, new_listeners, threadVars,
                       consumerVars, historyVars>>

UnsubscribeFromAll(cb) ==
    /\ listeners' = [n \in Names |-> listeners[n] \ {cb}]
    /\ Forget(cb, Names)
    /\ UNCHANGED <<database, nameOf, attached, known, new_listeners,
                   threadVars, consumerVars, deaf, journal>>

-----------------------------------------------------------------------------
(* Consumers that follow every channel.                                    *)

sharedVars == <<database, nameOf, attached, threadVars>>

\* start() of an upload: subscribe_new_channels comes first.  Nothing obliges
\* the walk to end: an exception in it leaves the upload where it is.
Follow(f) ==
    /\ stage[f] = "off"
    /\ new_listeners' = new_listeners \cup {f}
    /\ stage' = [stage EXCEPT ![f] = "list"]
    /\ UNCHANGED <<sharedVars, known, listeners, walk, historyVars>>

\* wild_subscribe begins with the list.
WildSubscribe(w) ==
    /\ stage[w] = "off"
    /\ stage' = [stage EXCEPT ![w] = "list"]
    /\ UNCHANGED <<sharedVars, publisherVars, walk, historyVars>>

\* channel_list().
ListChannels(c) ==
    /\ stage[c] = "list"
    /\ walk' = [walk EXCEPT ![c] = {n \in Names : Exists(n)}]
    /\ stage' = [stage EXCEPT ![c] = "walk"]
    /\ UNCHANGED <<sharedVars, publisherVars, historyVars>>

WalkSubscribe(c) ==
    /\ stage[c] = "walk"
    /\ \E n \in walk[c] : /\ AddListener(c, n)
                          /\ walk' = [walk EXCEPT ![c] = @ \ {n}]
    /\ UNCHANGED <<sharedVars, new_listeners, stage, historyVars>>

FollowEnds(f) ==
    /\ stage[f] = "walk"
    /\ walk[f] = {}
    /\ stage' = [stage EXCEPT ![f] = "on"]
    /\ UNCHANGED <<sharedVars, publisherVars, walk, historyVars>>

\* wild_subscribe ends with subscribe_new_channels.
WildSubscribeEnds(w) ==
    /\ stage[w] = "walk"
    /\ walk[w] = {}
    /\ new_listeners' = new_listeners \cup {w}
    /\ stage' = [stage EXCEPT ![w] = "on"]
    /\ UNCHANGED <<sharedVars, known, listeners, walk, historyVars>>

\* wild_unsubscribe walks the channels that exist, and swallows the error of
\* a channel it is not subscribed to ...
WildUnsubscribe(w) ==
    /\ stage[w] = "on"
    /\ walk' = [walk EXCEPT ![w] = {n \in Names : Exists(n)}]
    /\ stage' = [stage EXCEPT ![w] = "walk off"]
    /\ UNCHANGED <<sharedVars, publisherVars, historyVars>>

WalkUnsubscribe(w) ==
    /\ stage[w] = "walk off"
    /\ \E n \in walk[w] :
          /\ walk' = [walk EXCEPT ![w] = @ \ {n}]
          /\ \/ RemoveListener(w, n)
             \/ w \notin listeners[n] /\ UNCHANGED <<listeners, owed, early, cut>>
    /\ UNCHANGED <<sharedVars, known, new_listeners, stage, deaf, journal>>

\* ... and then unsubscribes from new channels.
WildUnsubscribeEnds(w) ==
    /\ stage[w] = "walk off"
    /\ walk[w] = {}
    /\ new_listeners' = new_listeners \ {w}
    /\ stage' = [stage EXCEPT ![w] = "off"]
    /\ UNCHANGED <<sharedVars, known, listeners, walk, historyVars>>

-----------------------------------------------------------------------------
AddStep(t) ==
    \/ Insert(t) \/ CopyNewListeners(t)
    \/ CallNewListener(t) \/ NewListenerRaises(t) \/ NewCallsEnd(t)
    \/ LogNewChannel(t) \/ NewLogEnds(t) \/ Attach(t)

RemoveStep(t) == LogRemoveChannel(t) \/ RemoveLogEnds(t) \/ Delete(t)

SetStep(t) ==
    \/ RefuseSample(t) \/ StoreSample(t)
    \/ OnNewSample(t) \/ OnNewSampleUnheard(t) \/ LogNewSample(t) \/ LogEnds(t)
    \/ CopyDict(t) \/ CopySet(t)
    \/ CallListener(t) \/ ListenerRaises(t) \/ CallsEnd(t)

ThreadStep(t) == AddStep(t) \/ RemoveStep(t) \/ SetStep(t)

FollowStep(f) == ListChannels(f) \/ WalkSubscribe(f) \/ FollowEnds(f)

WildStep(w) ==
    \/ ListChannels(w) \/ WalkSubscribe(w) \/ WildSubscribeEnds(w)
    \/ WalkUnsubscribe(w) \/ WildUnsubscribeEnds(w)

PlainStep(p) ==
    \/ \E n \in Names : Subscribe(p, n) \/ Unsubscribe(p, n)
    \/ SubscribeToAll(p)
    \/ UnsubscribeFromAll(p)

Next ==
    \/ \E t \in Threads, n \in Names :
          AddChannel(t, n) \/ RemoveChannel(t, n) \/ GetChannel(t, n)
    \/ \E t \in Threads : ThreadStep(t)
    \/ \E p \in Plain : PlainStep(p)
    \/ \E f \in Followers : Follow(f) \/ FollowStep(f)
    \/ \E w \in Wild : WildSubscribe(w) \/ WildUnsubscribe(w) \/ WildStep(w)

Spec == Init /\ [][Next]_vars

\* A thread that is inside a call goes on, and callbacks return.
Fairness == \A t \in Threads : WF_vars(ThreadStep(t))

FairSpec == Spec /\ Fairness

-----------------------------------------------------------------------------
(* Properties.                                                             *)

\* A thread between the storing of a sample of o and the last callback.
Notifying(o) ==
    \E t \in Threads : obj[t] = o /\ pc[t] \in SetStages \ {"store"}

\* channel_publisher.py, __notify: a sample stored while a callback is
\* subscribed reaches it, in every interleaving with the other threads and
\* with subscribe and unsubscribe, except in the two cases that "early" and
\* "cut" record: some thread is always still on its way to call it.
NoLostSample ==
    \A p \in owed \ (early \cup cut) : Notifying(p[2])

\* edp_upload.py, start: an upload subscribes to new channels before it walks
\* the list; once it is through, it has every channel that has been announced,
\* unless a callback told of the channel, its own included, raised.
FollowersMissNothing ==
    \A f \in Followers, n \in Names :
        /\ stage[f] = "on"
        /\ Exists(n)
        /\ \A t \in Threads : name[t] = n => pc[t] \notin AddStages
        /\ <<f, n>> \notin deaf
        => f \in listeners[n]

\* A logger is told of a channel before it is given a sample of it: file
\* loggers index what they store by the event of the new channel.
NewBeforeSamples ==
    \A g \in Loggers, o \in Objects :
        "sample" \in journal[<<g, o>>] => "new" \in journal[<<g, o>>]

\* When channel_add has returned, the channel that the database holds is
\* connected to the publisher, also if two threads added it at once and
\* whatever the callbacks told of it did.
PublishedOnceAdded ==
    \A n \in Names :
        Exists(n) /\ (\A t \in Threads : name[t] = n => pc[t] \notin AddStages)
            => database[n] \in attached

\* A callback owed a sample is called, or unsubscribed, or passed over in one
\* of the two recorded cases.
SampleEventuallyHanded ==
    \A cb \in Callbacks, o \in Objects :
        <<cb, o>> \in owed ~> <<cb, o>> \notin owed \ (early \cup cut)
=============================================================================
