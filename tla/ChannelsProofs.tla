--------------------------- MODULE ChannelsProofs ---------------------------
(***************************************************************************)
(* Theorems about Channels, for every set of threads, names, objects,      *)
(* consumers and loggers.                                                  *)
(*                                                                         *)
(* NoLostSample follows from Owing: a pair that is owed and not excused    *)
(* has a thread that has yet to copy the listeners, or has the callback    *)
(* in what is left of its copy; and an owed pair is still subscribed, so   *)
(* that a copy made later contains it.                                     *)
(*                                                                         *)
(* The second half follows a channel from channel_add to the publisher     *)
(* (Connected) and to the consumers that follow every channel (Following): *)
(* a channel that exists is one they have, one they still have to walk to, *)
(* or one that a thread is about to tell them of.                          *)
(***************************************************************************)
EXTENDS Channels, TLAPS

\* What a thread refers to and what it iterates over.
Frame(t) ==
    /\ pc[t] \in {"idle", "insert"} => obj[t] = NoObject
    /\ pc[t] # "idle" => name[t] \in Names
    /\ pc[t] \notin {"idle", "insert"} =>
          obj[t] \in Objects /\ nameOf[obj[t]] = name[t]
    /\ pc[t] = "new calls" => todo[t] \subseteq Followers \cup Wild
    /\ pc[t] = "calls" => todo[t] \subseteq Callbacks
    /\ pc[t] \in {"new log", "log", "remove log"} => todo[t] \subseteq Loggers

NamesMatch ==
    \A n \in Names : database[n] # NoObject => nameOf[database[n]] = n

Keyed == \A n \in Names : listeners[n] # {} => n \in known

Frames == (\A t \in Threads : Frame(t)) /\ NamesMatch /\ Keyed

WillCall(t, cb, o) ==
    /\ obj[t] = o
    /\ \/ pc[t] \in {"dispatch", "log", "copy dict", "copy set"}
       \/ pc[t] = "calls" /\ cb \in todo[t]

StillSubscribed(cb, o) == nameOf[o] \in Names /\ cb \in listeners[nameOf[o]]

Excused == early \cup cut

Pair(cb, o) ==
    <<cb, o>> \in owed =>
        /\ StillSubscribed(cb, o)
        /\ <<cb, o>> \in Excused \/ \E t \in Threads : WillCall(t, cb, o)

Owing == \A cb \in Callbacks, o \in Objects : Pair(cb, o)

\* What the loggers have been told when a thread is past telling them.
Told(g, o) == nameOf[o] \in Unlogged \/ "new" \in journal[<<g, o>>]

HasTold(t) ==
    /\ pc[t] = "new log" => \A g \in Loggers : g \in todo[t] \/ Told(g, obj[t])
    /\ pc[t] = "attach" => \A g \in Loggers : Told(g, obj[t])
    /\ pc[t] = "log" => /\ obj[t] \in attached
                        /\ todo[t] \subseteq LoggersOf(name[t])

Introduced == \A o \in attached, g \in Loggers : Told(g, o)

Journals == (\A t \in Threads : HasTold(t)) /\ Introduced /\ NewBeforeSamples

IInv == TypeOK /\ Frames /\ Owing /\ Journals

-----------------------------------------------------------------------------
\* The invariant holds at the start.
LEMMA InitIInv == Init => IInv
<1> SUFFICES ASSUME Init PROVE IInv
  OBVIOUS
<1>1. TypeOK
  <2>1. /\ database \in [Names -> Objects \cup {NoObject}]
        /\ nameOf \in [Objects -> Names \cup {NoName}]
        /\ listeners \in [Names -> SUBSET Callbacks]
    BY DEF Init
  <2>2. /\ pc \in [Threads -> {"idle"} \cup AddStages \cup SetStages
                                \cup RemoveStages]
        /\ obj \in [Threads -> Objects \cup {NoObject}]
        /\ name \in [Threads -> Names \cup {NoName}]
        /\ todo \in [Threads -> SUBSET (Callbacks \cup Loggers)]
    BY DEF Init
  <2>3. /\ stage \in [Followers \cup Wild
                    -> {"off", "list", "walk", "on", "walk off"}]
        /\ walk \in [Followers \cup Wild -> SUBSET Names]
        /\ journal \in [Loggers \X Objects
                            -> SUBSET {"new", "sample", "remove"}]
    BY DEF Init
  <2>4. QED
    BY <2>1, <2>2, <2>3 DEF Init, TypeOK
<1>2. Frames
  BY DEF Init, Frames, Frame, NamesMatch, Keyed
<1>3. Owing
  BY DEF Init, Owing, Pair
<1>4. Journals
  BY DEF Init, Journals, HasTold, Introduced, NewBeforeSamples
<1>5. QED
  BY <1>1, <1>2, <1>3, <1>4 DEF IInv

\* Every step keeps the types.
LEMMA TypeStep == IInv /\ [Next]_vars => TypeOK'
<1> SUFFICES ASSUME TypeOK, Frames, [Next]_vars PROVE TypeOK'
  BY DEF IInv
<1> USE ChannelsAssumption DEF Callbacks, AddStages, SetStages, RemoveStages
<1>a. ASSUME NEW cb \in Callbacks, NEW n \in Names, AddListener(cb, n)
      PROVE  known' \in SUBSET Names /\ listeners' \in [Names -> SUBSET Callbacks]
  BY <1>a DEF AddListener, TypeOK
<1>b. ASSUME NEW t \in Threads, NEW x, todo' = [todo EXCEPT ![t] = @ \ {x}]
      PROVE  todo' \in [Threads -> SUBSET (Callbacks \cup Loggers)]
  BY <1>b DEF TypeOK
<1>c. ASSUME NEW t \in Threads, NEW kind \in {"new", "sample", "remove"},
             obj[t] \in Objects, todo[t] \subseteq Loggers, LogEvent(t, kind)
      PROVE  /\ todo' \in [Threads -> SUBSET (Callbacks \cup Loggers)]
             /\ journal' \in [Loggers \X Objects
                                -> SUBSET {"new", "sample", "remove"}]
  <2>1. PICK g \in todo[t] :
           /\ todo' = [todo EXCEPT ![t] = @ \ {g}]
           /\ journal' = [journal EXCEPT ![<<g, obj[t]>>] = @ \cup {kind}]
    BY <1>c DEF LogEvent
  <2>2. <<g, obj[t]>> \in Loggers \X Objects
    BY <1>c
  <2>3. QED
    BY <1>b, <2>1, <2>2 DEF TypeOK
<1>d. ASSUME NEW c \in Followers \cup Wild, NEW n,
             walk' = [walk EXCEPT ![c] = @ \ {n}]
      PROVE  walk' \in [Followers \cup Wild -> SUBSET Names]
  BY <1>d DEF TypeOK
<1>1. ASSUME NEW t \in Threads, NEW n \in Names, AddChannel(t, n) PROVE TypeOK'
  BY <1>1 DEF AddChannel, GoTo, Exists, publisherVars, consumerVars,
        historyVars, TypeOK
<1>2. ASSUME NEW t \in Threads, NEW n \in Names, RemoveChannel(t, n) PROVE TypeOK'
  BY <1>2 DEF RemoveChannel, GoTo, LoggersOf, Exists, publisherVars,
        consumerVars, historyVars, TypeOK
<1>3. ASSUME NEW t \in Threads, NEW n \in Names, GetChannel(t, n) PROVE TypeOK'
  BY <1>3 DEF GetChannel, GoTo, Exists, publisherVars, consumerVars,
        historyVars, TypeOK
<1>4. ASSUME NEW t \in Threads, Insert(t) PROVE TypeOK'
  <2>1. name[t] \in Names
    BY <1>4 DEF Insert, Frames, Frame
  <2>2. PICK o \in Objects :
           /\ database' = [database EXCEPT ![name[t]] = o]
           /\ nameOf' = [nameOf EXCEPT ![o] = name[t]]
           /\ attached' = attached \ {o}
           /\ obj' = [obj EXCEPT ![t] = o]
           /\ owed' = {p \in owed : p[2] # o}
           /\ early' = {p \in early : p[2] # o}
           /\ cut' = {p \in cut : p[2] # o}
           /\ journal' = [p \in Loggers \X Objects |->
                             IF p[2] = o THEN {} ELSE journal[p]]
    BY <1>4 DEF Insert
  <2>3. /\ database' \in [Names -> Objects \cup {NoObject}]
        /\ nameOf' \in [Objects -> Names \cup {NoName}]
        /\ obj' \in [Threads -> Objects \cup {NoObject}]
    BY <2>1, <2>2 DEF TypeOK
  <2>4. journal' \in [Loggers \X Objects -> SUBSET {"new", "sample", "remove"}]
    BY <2>2 DEF TypeOK
  <2>5. /\ owed' \subseteq owed /\ early' \subseteq early /\ cut' \subseteq cut
        /\ attached' \subseteq attached
    BY <2>2
  <2>6. QED
    BY <1>4, <2>3, <2>4, <2>5
    DEF Insert, GoTo, publisherVars, consumerVars, TypeOK
<1>5. ASSUME NEW t \in Threads, CopyNewListeners(t) PROVE TypeOK'
  BY <1>5 DEF CopyNewListeners, GoTo, publisherVars, consumerVars,
        historyVars, TypeOK
<1>6. ASSUME NEW t \in Threads, CallNewListener(t) PROVE TypeOK'
  <2>1. name[t] \in Names /\ todo[t] \subseteq Callbacks
    BY <1>6 DEF CallNewListener, Frames, Frame
  <2>2. PICK c \in todo[t] : /\ AddListener(c, name[t])
                            /\ todo' = [todo EXCEPT ![t] = @ \ {c}]
    BY <1>6 DEF CallNewListener
  <2>3. /\ known' \in SUBSET Names /\ listeners' \in [Names -> SUBSET Callbacks]
        /\ todo' \in [Threads -> SUBSET (Callbacks \cup Loggers)]
    BY <1>a, <1>b, <2>1, <2>2
  <2>4. QED
    BY <1>6, <2>3 DEF CallNewListener, consumerVars, historyVars, TypeOK
<1>7. ASSUME NEW t \in Threads, NewListenerRaises(t) PROVE TypeOK'
  <2>1. name[t] \in Names /\ todo[t] \subseteq Followers \cup Wild
    BY <1>7 DEF NewListenerRaises, Frames, Frame
  <2>2. QED
    BY <1>7, <2>1 DEF NewListenerRaises, publisherVars, consumerVars,
          historyVars, TypeOK
<1>8. ASSUME NEW t \in Threads, NewCallsEnd(t) PROVE TypeOK'
  BY <1>8 DEF NewCallsEnd, GoTo, LoggersOf, publisherVars, consumerVars,
        historyVars, TypeOK
<1>9. ASSUME NEW t \in Threads, LogNewChannel(t) PROVE TypeOK'
  <2>1. obj[t] \in Objects /\ todo[t] \subseteq Loggers
    BY <1>9 DEF LogNewChannel, Frames, Frame
  <2>2. QED
    BY <1>9, <2>1, <1>c DEF LogNewChannel, publisherVars, consumerVars,
          historyVars, TypeOK
<1>10. ASSUME NEW t \in Threads, NewLogEnds(t) PROVE TypeOK'
  BY <1>10 DEF NewLogEnds, GoTo, publisherVars, consumerVars, historyVars,
        TypeOK
<1>11. ASSUME NEW t \in Threads, Attach(t) PROVE TypeOK'
  <2>1. obj[t] \in Objects
    BY <1>11 DEF Attach, Frames, Frame
  <2>2. QED
    BY <1>11, <2>1 DEF Attach, Return, publisherVars, consumerVars,
          historyVars, TypeOK
<1>12. ASSUME NEW t \in Threads, LogRemoveChannel(t) PROVE TypeOK'
  <2>1. obj[t] \in Objects /\ todo[t] \subseteq Loggers
    BY <1>12 DEF LogRemoveChannel, Frames, Frame
  <2>2. QED
    BY <1>12, <2>1, <1>c DEF LogRemoveChannel, publisherVars, consumerVars,
          historyVars, TypeOK
<1>13. ASSUME NEW t \in Threads, RemoveLogEnds(t) PROVE TypeOK'
  BY <1>13 DEF RemoveLogEnds, GoTo, publisherVars, consumerVars, historyVars,
        TypeOK
<1>14. ASSUME NEW t \in Threads, Delete(t) PROVE TypeOK'
  BY <1>14 DEF Delete, Return, publisherVars, consumerVars, historyVars,
        TypeOK
<1>15. ASSUME NEW t \in Threads, RefuseSample(t) PROVE TypeOK'
  BY <1>15 DEF RefuseSample, Return, publisherVars, consumerVars, historyVars,
        TypeOK
<1>16. ASSUME NEW t \in Threads, StoreSample(t) PROVE TypeOK'
  <2>1. obj[t] \in Objects /\ name[t] \in Names
    BY <1>16 DEF StoreSample, Frames, Frame
  <2>2. QED
    BY <1>16, <2>1 DEF StoreSample, GoTo, publisherVars, consumerVars,
          historyVars, TypeOK
<1>17. ASSUME NEW t \in Threads, OnNewSample(t) PROVE TypeOK'
  BY <1>17 DEF OnNewSample, GoTo, LoggersOf, publisherVars, consumerVars,
        historyVars, TypeOK
<1>18. ASSUME NEW t \in Threads, OnNewSampleUnheard(t) PROVE TypeOK'
  BY <1>18 DEF OnNewSampleUnheard, Return, publisherVars, consumerVars,
        historyVars, TypeOK
<1>19. ASSUME NEW t \in Threads, LogNewSample(t) PROVE TypeOK'
  <2>1. obj[t] \in Objects /\ todo[t] \subseteq Loggers
    BY <1>19 DEF LogNewSample, Frames, Frame
  <2>2. QED
    BY <1>19, <2>1, <1>c DEF LogNewSample, publisherVars, consumerVars,
          historyVars, TypeOK
<1>20. ASSUME NEW t \in Threads, LogEnds(t) PROVE TypeOK'
  BY <1>20 DEF LogEnds, GoTo, publisherVars, consumerVars, historyVars, TypeOK
<1>21. ASSUME NEW t \in Threads, CopyDict(t) PROVE TypeOK'
  <2>1. CASE name[t] \in known /\ GoTo(t, "copy set") /\ UNCHANGED <<obj, name, todo>>
    BY <1>21, <2>1 DEF CopyDict, GoTo, publisherVars, consumerVars, historyVars, TypeOK
  <2>2. CASE Return(t)
    BY <1>21, <2>2 DEF CopyDict, Return, publisherVars, consumerVars, historyVars, TypeOK
  <2>3. QED
    BY <1>21, <2>1, <2>2 DEF CopyDict
<1>22. ASSUME NEW t \in Threads, CopySet(t) PROVE TypeOK'
  <2>1. name[t] \in Names
    BY <1>22 DEF CopySet, Frames, Frame
  <2>2. QED
    BY <1>22, <2>1 DEF CopySet, GoTo, publisherVars, consumerVars,
          historyVars, TypeOK
<1>23. ASSUME NEW t \in Threads, CallListener(t) PROVE TypeOK'
  <2>1. PICK cb \in todo[t] :
           /\ Called(cb, obj[t])
           /\ cut' = cut \ {<<cb, obj[t]>>}
           /\ todo' = [todo EXCEPT ![t] = @ \ {cb}]
    BY <1>23 DEF CallListener
  <2>2. todo' \in [Threads -> SUBSET (Callbacks \cup Loggers)]
    BY <1>b, <2>1
  <2>3. QED
    BY <1>23, <2>1, <2>2
    DEF CallListener, Called, publisherVars, consumerVars, TypeOK
<1>24. ASSUME NEW t \in Threads, ListenerRaises(t) PROVE TypeOK'
  <2>1. obj[t] \in Objects /\ todo[t] \subseteq Callbacks
    BY <1>24 DEF ListenerRaises, Frames, Frame
  <2>2. QED
    BY <1>24, <2>1 DEF ListenerRaises, Called, publisherVars, consumerVars,
          historyVars, TypeOK
<1>25. ASSUME NEW t \in Threads, CallsEnd(t) PROVE TypeOK'
  BY <1>25 DEF CallsEnd, Return, publisherVars, consumerVars, historyVars,
        TypeOK
<1>26. ASSUME NEW p \in Plain, NEW n \in Names, Subscribe(p, n) PROVE TypeOK'
  BY <1>26 DEF Subscribe, AddListener, consumerVars, historyVars, threadVars,
        TypeOK
<1>27. ASSUME NEW p \in Plain, NEW n \in Names, Unsubscribe(p, n) PROVE TypeOK'
  BY <1>27 DEF Unsubscribe, RemoveListener, Forget, consumerVars, threadVars,
        TypeOK
<1>28. ASSUME NEW p \in Plain, SubscribeToAll(p) PROVE TypeOK'
  BY <1>28 DEF SubscribeToAll, Exists, consumerVars, historyVars, threadVars,
        TypeOK
<1>29. ASSUME NEW p \in Plain, UnsubscribeFromAll(p) PROVE TypeOK'
  BY <1>29 DEF UnsubscribeFromAll, Forget, consumerVars, threadVars, TypeOK
<1>30. ASSUME NEW c \in Followers \cup Wild, Follow(c) PROVE TypeOK'
  BY <1>30 DEF Follow, historyVars, threadVars, sharedVars, TypeOK
<1>31. ASSUME NEW c \in Followers \cup Wild, WildSubscribe(c) PROVE TypeOK'
  BY <1>31 DEF WildSubscribe, publisherVars, consumerVars, historyVars,
        threadVars, sharedVars, TypeOK
<1>32. ASSUME NEW c \in Followers \cup Wild, ListChannels(c) PROVE TypeOK'
  BY <1>32 DEF ListChannels, Exists, publisherVars, consumerVars, historyVars,
        threadVars, sharedVars, TypeOK
<1>33. ASSUME NEW c \in Followers \cup Wild, WalkSubscribe(c) PROVE TypeOK'
  <2>1. walk[c] \subseteq Names
    BY DEF TypeOK
  <2>2. PICK n \in walk[c] : /\ AddListener(c, n)
                            /\ walk' = [walk EXCEPT ![c] = @ \ {n}]
    BY <1>33 DEF WalkSubscribe
  <2>3. /\ known' \in SUBSET Names /\ listeners' \in [Names -> SUBSET Callbacks]
        /\ walk' \in [Followers \cup Wild -> SUBSET Names]
    BY <1>a, <1>d, <2>1, <2>2
  <2>4. QED
    BY <1>33, <2>3 DEF WalkSubscribe, sharedVars, threadVars, historyVars, TypeOK
<1>34. ASSUME NEW c \in Followers \cup Wild, FollowEnds(c) PROVE TypeOK'
  BY <1>34 DEF FollowEnds, publisherVars, consumerVars, historyVars,
        threadVars, sharedVars, TypeOK
<1>35. ASSUME NEW c \in Followers \cup Wild, WildSubscribeEnds(c) PROVE TypeOK'
  BY <1>35 DEF WildSubscribeEnds, historyVars, threadVars, sharedVars, TypeOK
<1>36. ASSUME NEW c \in Followers \cup Wild, WildUnsubscribe(c) PROVE TypeOK'
  BY <1>36 DEF WildUnsubscribe, Exists, publisherVars, consumerVars,
        historyVars, threadVars, sharedVars, TypeOK
<1>37. ASSUME NEW c \in Followers \cup Wild, WalkUnsubscribe(c) PROVE TypeOK'
  <2>1. PICK n \in walk[c] :
           /\ walk' = [walk EXCEPT ![c] = @ \ {n}]
           /\ \/ RemoveListener(c, n)
              \/ UNCHANGED <<listeners, owed, early, cut>>
    BY <1>37 DEF WalkUnsubscribe
  <2>2. walk' \in [Followers \cup Wild -> SUBSET Names]
    BY <1>d, <2>1
  <2>3. listeners' \in [Names -> SUBSET Callbacks]
    <3>1. n \in Names
      BY DEF TypeOK
    <3>2. CASE RemoveListener(c, n)
      BY <3>1, <3>2 DEF RemoveListener, TypeOK
    <3>3. QED
      BY <2>1, <3>2 DEF TypeOK
  <2>4. /\ owed' \subseteq owed /\ early' \subseteq early /\ cut' \subseteq cut
    BY <2>1 DEF RemoveListener, Forget
  <2>5. QED
    BY <1>37, <2>2, <2>3, <2>4 DEF WalkUnsubscribe, sharedVars, threadVars, TypeOK
<1>38. ASSUME NEW c \in Followers \cup Wild, WildUnsubscribeEnds(c) PROVE TypeOK'
  BY <1>38 DEF WildUnsubscribeEnds, historyVars, threadVars, sharedVars,
        TypeOK
<1>39. CASE UNCHANGED vars
  BY <1>39 DEF vars, publisherVars, consumerVars, historyVars, TypeOK
<1>40. QED
  BY <1>1, <1>2, <1>3, <1>4, <1>5, <1>6, <1>7, <1>8, <1>9, <1>10, <1>11,
        <1>12, <1>13, <1>14, <1>15, <1>16, <1>17, <1>18, <1>19, <1>20, <1>21,
        <1>22, <1>23, <1>24, <1>25, <1>26, <1>27, <1>28, <1>29, <1>30, <1>31,
        <1>32, <1>33, <1>34, <1>35, <1>36, <1>37, <1>38, <1>39
     DEF Next, ThreadStep, AddStep, RemoveStep, SetStep, PlainStep,
           FollowStep, WildStep

\* Every step keeps what the threads refer to in agreement with the tables.
LEMMA FrameStep == IInv /\ [Next]_vars => Frames'
<1> SUFFICES ASSUME TypeOK, Frames, [Next]_vars PROVE Frames'
  BY DEF IInv
<1> USE ChannelsAssumption DEF AddStages, SetStages, RemoveStages
<1>a. ASSUME NEW cb, NEW n \in Names, AddListener(cb, n) PROVE Keyed'
  <2>1. \A m \in Names \ {n} : listeners'[m] = listeners[m] /\ known \subseteq known'
    BY <1>a DEF AddListener, TypeOK
  <2>2. n \in known'
    BY <1>a DEF AddListener
  <2>3. QED
    BY <2>1, <2>2 DEF Keyed, Frames
<1>1. ASSUME NEW t \in Threads, NEW n \in Names, AddChannel(t, n) PROVE Frames'
  BY <1>1 DEF AddChannel, GoTo, Exists, publisherVars, consumerVars,
        historyVars, TypeOK, Frames, Frame, NamesMatch, Keyed
<1>2. ASSUME NEW t \in Threads, NEW n \in Names, RemoveChannel(t, n) PROVE Frames'
  <2>1. Frame(t)'
    BY <1>2 DEF RemoveChannel, GoTo, LoggersOf, Exists, publisherVars,
          consumerVars, historyVars, Frame, Frames, NamesMatch, TypeOK
  <2>2. \A u \in Threads \ {t} : Frame(u)'
    BY <1>2 DEF RemoveChannel, GoTo, LoggersOf, Exists, publisherVars,
          consumerVars, historyVars, Frame, Frames, TypeOK
  <2>3. NamesMatch' /\ Keyed'
    BY <1>2 DEF RemoveChannel, GoTo, LoggersOf, Exists, publisherVars,
          consumerVars, historyVars, Frame, Frames, NamesMatch, Keyed, TypeOK
  <2>4. QED
    BY <2>1, <2>2, <2>3 DEF Frames
<1>3. ASSUME NEW t \in Threads, NEW n \in Names, GetChannel(t, n) PROVE Frames'
  <2>1. Frame(t)'
    BY <1>3 DEF GetChannel, GoTo, Exists, publisherVars, consumerVars,
          historyVars, Frame, Frames, NamesMatch, TypeOK
  <2>2. \A u \in Threads \ {t} : Frame(u)'
    BY <1>3 DEF GetChannel, GoTo, Exists, publisherVars, consumerVars,
          historyVars, Frame, Frames, TypeOK
  <2>3. NamesMatch' /\ Keyed'
    BY <1>3 DEF GetChannel, GoTo, Exists, publisherVars, consumerVars,
          historyVars, Frame, Frames, NamesMatch, Keyed, TypeOK
  <2>4. QED
    BY <2>1, <2>2, <2>3 DEF Frames
<1>4. ASSUME NEW t \in Threads, Insert(t) PROVE Frames'
  <2>1. PICK o \in Objects :
           /\ Unreferenced(o)
           /\ database' = [database EXCEPT ![name[t]] = o]
           /\ nameOf' = [nameOf EXCEPT ![o] = name[t]]
           /\ obj' = [obj EXCEPT ![t] = o]
    BY <1>4 DEF Insert
  <2>2. /\ pc[t] = "insert" /\ pc' = [pc EXCEPT ![t] = "announce"]
        /\ UNCHANGED <<name, todo, known, listeners>>
    BY <1>4 DEF Insert, GoTo, publisherVars
  <2>3. Frame(t)'
    BY <2>1, <2>2 DEF Frame, Frames, TypeOK
  <2>4. \A u \in Threads \ {t} : Frame(u)'
    BY <2>1, <2>2 DEF Frame, Frames, Unreferenced, TypeOK
  <2>5. NamesMatch'
    <3>1. \A m \in Names \ {name[t]} : database'[m] = database[m] /\ database[m] # o
      BY <2>1 DEF Unreferenced, TypeOK
    <3>2. name[t] \in Names
      BY <2>2 DEF Frames, Frame
    <3>3. database'[name[t]] = o /\ nameOf'[o] = name[t]
      BY <2>1, <3>2 DEF TypeOK
    <3>4. \A q \in Objects \ {o} : nameOf'[q] = nameOf[q]
      BY <2>1 DEF TypeOK
    <3>5. \A m \in Names : database[m] # NoObject =>
             database[m] \in Objects /\ nameOf[database[m]] = m
      BY DEF NamesMatch, Frames, TypeOK
    <3>6. QED
      BY <3>1, <3>3, <3>4, <3>5 DEF NamesMatch
  <2>6. Keyed'
    BY <2>2 DEF Keyed, Frames
  <2>7. QED
    BY <2>3, <2>4, <2>5, <2>6 DEF Frames
<1>5. ASSUME NEW t \in Threads, CopyNewListeners(t) PROVE Frames'
  BY <1>5 DEF CopyNewListeners, GoTo, publisherVars, consumerVars,
        historyVars, TypeOK, Frames, Frame, NamesMatch, Keyed
<1>6. ASSUME NEW t \in Threads, CallNewListener(t) PROVE Frames'
  <2>1. PICK c \in todo[t] : /\ AddListener(c, name[t])
                            /\ todo' = [todo EXCEPT ![t] = @ \ {c}]
    BY <1>6 DEF CallNewListener
  <2>2. /\ pc[t] = "new calls" /\ UNCHANGED <<pc, obj, name, database, nameOf>>
    BY <1>6 DEF CallNewListener
  <2>3. name[t] \in Names
    BY <2>2 DEF Frames, Frame
  <2>4. Keyed'
    BY <1>a, <2>1, <2>3
  <2>5. \A u \in Threads : Frame(u)'
    BY <2>1, <2>2 DEF Frame, Frames, TypeOK
  <2>6. QED
    BY <2>2, <2>4, <2>5 DEF Frames, NamesMatch
<1>7. ASSUME NEW t \in Threads, NewListenerRaises(t) PROVE Frames'
  BY <1>7 DEF NewListenerRaises, publisherVars, consumerVars, historyVars,
        TypeOK, Frames, Frame, NamesMatch, Keyed
<1>8. ASSUME NEW t \in Threads, NewCallsEnd(t) PROVE Frames'
  BY <1>8 DEF NewCallsEnd, GoTo, LoggersOf, publisherVars, consumerVars,
        historyVars, TypeOK, Frames, Frame, NamesMatch, Keyed
<1>9. ASSUME NEW t \in Threads, LogNewChannel(t) PROVE Frames'
  <2>1. PICK g \in todo[t] : todo' = [todo EXCEPT ![t] = @ \ {g}]
    BY <1>9 DEF LogNewChannel, LogEvent
  <2>2. Frame(t)'
    BY <1>9, <2>1 DEF LogNewChannel, publisherVars, consumerVars, historyVars,
          Frame, Frames, NamesMatch, TypeOK
  <2>3. \A u \in Threads \ {t} : Frame(u)'
    BY <1>9, <2>1 DEF LogNewChannel, publisherVars, consumerVars, historyVars,
          Frame, Frames, TypeOK
  <2>4. NamesMatch' /\ Keyed'
    BY <1>9, <2>1 DEF LogNewChannel, publisherVars, consumerVars, historyVars,
          Frame, Frames, NamesMatch, Keyed, TypeOK
  <2>5. QED
    BY <2>2, <2>3, <2>4 DEF Frames
<1>10. ASSUME NEW t \in Threads, NewLogEnds(t) PROVE Frames'
  BY <1>10 DEF NewLogEnds, GoTo, publisherVars, consumerVars, historyVars,
        TypeOK, Frames, Frame, NamesMatch, Keyed
<1>11. ASSUME NEW t \in Threads, Attach(t) PROVE Frames'
  BY <1>11 DEF Attach, Return, publisherVars, consumerVars, historyVars,
        TypeOK, Frames, Frame, NamesMatch, Keyed
<1>12. ASSUME NEW t \in Threads, LogRemoveChannel(t) PROVE Frames'
  <2>1. PICK g \in todo[t] : todo' = [todo EXCEPT ![t] = @ \ {g}]
    BY <1>12 DEF LogRemoveChannel, LogEvent
  <2>2. Frame(t)'
    BY <1>12, <2>1 DEF LogRemoveChannel, publisherVars, consumerVars,
          historyVars, Frame, Frames, NamesMatch, TypeOK
  <2>3. \A u \in Threads \ {t} : Frame(u)'
    BY <1>12, <2>1 DEF LogRemoveChannel, publisherVars, consumerVars,
          historyVars, Frame, Frames, TypeOK
  <2>4. NamesMatch' /\ Keyed'
    BY <1>12, <2>1 DEF LogRemoveChannel, publisherVars, consumerVars,
          historyVars, Frame, Frames, NamesMatch, Keyed, TypeOK
  <2>5. QED
    BY <2>2, <2>3, <2>4 DEF Frames
<1>13. ASSUME NEW t \in Threads, RemoveLogEnds(t) PROVE Frames'
  BY <1>13 DEF RemoveLogEnds, GoTo, publisherVars, consumerVars, historyVars,
        TypeOK, Frames, Frame, NamesMatch, Keyed
<1>14. ASSUME NEW t \in Threads, Delete(t) PROVE Frames'
  BY <1>14 DEF Delete, Return, publisherVars, consumerVars, historyVars,
        TypeOK, Frames, Frame, NamesMatch, Keyed
<1>15. ASSUME NEW t \in Threads, RefuseSample(t) PROVE Frames'
  BY <1>15 DEF RefuseSample, Return, publisherVars, consumerVars, historyVars,
        TypeOK, Frames, Frame, NamesMatch, Keyed
<1>16. ASSUME NEW t \in Threads, StoreSample(t) PROVE Frames'
  BY <1>16 DEF StoreSample, GoTo, publisherVars, consumerVars, historyVars,
        TypeOK, Frames, Frame, NamesMatch, Keyed
<1>17. ASSUME NEW t \in Threads, OnNewSample(t) PROVE Frames'
  BY <1>17 DEF OnNewSample, GoTo, LoggersOf, publisherVars, consumerVars,
        historyVars, TypeOK, Frames, Frame, NamesMatch, Keyed
<1>18. ASSUME NEW t \in Threads, OnNewSampleUnheard(t) PROVE Frames'
  BY <1>18 DEF OnNewSampleUnheard, Return, publisherVars, consumerVars,
        historyVars, TypeOK, Frames, Frame, NamesMatch, Keyed
<1>19. ASSUME NEW t \in Threads, LogNewSample(t) PROVE Frames'
  <2>1. PICK g \in todo[t] : todo' = [todo EXCEPT ![t] = @ \ {g}]
    BY <1>19 DEF LogNewSample, LogEvent
  <2>2. Frame(t)'
    BY <1>19, <2>1 DEF LogNewSample, publisherVars, consumerVars, historyVars,
          Frame, Frames, NamesMatch, TypeOK
  <2>3. \A u \in Threads \ {t} : Frame(u)'
    BY <1>19, <2>1 DEF LogNewSample, publisherVars, consumerVars, historyVars,
          Frame, Frames, TypeOK
  <2>4. NamesMatch' /\ Keyed'
    BY <1>19, <2>1 DEF LogNewSample, publisherVars, consumerVars, historyVars,
          Frame, Frames, NamesMatch, Keyed, TypeOK
  <2>5. QED
    BY <2>2, <2>3, <2>4 DEF Frames
<1>20. ASSUME NEW t \in Threads, LogEnds(t) PROVE Frames'
  BY <1>20 DEF LogEnds, GoTo, publisherVars, consumerVars, historyVars,
        TypeOK, Frames, Frame, NamesMatch, Keyed
<1>21. ASSUME NEW t \in Threads, CopyDict(t) PROVE Frames'
  <2>1. CASE name[t] \in known /\ GoTo(t, "copy set") /\ UNCHANGED <<obj, name, todo>>
    BY <1>21, <2>1
    DEF CopyDict, GoTo, publisherVars, TypeOK, Frames, Frame, NamesMatch, Keyed
  <2>2. CASE Return(t)
    <3>1. /\ \A u \in Threads \ {t} : /\ pc'[u] = pc[u] /\ obj'[u] = obj[u]
                                      /\ name'[u] = name[u] /\ todo'[u] = todo[u]
          /\ pc'[t] = "idle" /\ obj'[t] = NoObject
      BY <2>2 DEF Return, TypeOK
    <3>2. UNCHANGED <<nameOf, database, known, listeners>>
      BY <1>21 DEF CopyDict, publisherVars
    <3>3. QED
      BY <3>1, <3>2 DEF Frames, Frame, NamesMatch, Keyed
  <2>3. QED
    BY <1>21, <2>1, <2>2 DEF CopyDict
<1>22. ASSUME NEW t \in Threads, CopySet(t) PROVE Frames'
  BY <1>22 DEF CopySet, GoTo, publisherVars, consumerVars, historyVars,
        TypeOK, Frames, Frame, NamesMatch, Keyed
<1>23. ASSUME NEW t \in Threads, CallListener(t) PROVE Frames'
  <2>1. PICK cb \in todo[t] : todo' = [todo EXCEPT ![t] = @ \ {cb}]
    BY <1>23 DEF CallListener
  <2>2. Frame(t)'
    BY <1>23, <2>1 DEF CallListener, Called, publisherVars, consumerVars,
          historyVars, Frame, Frames, NamesMatch, TypeOK
  <2>3. \A u \in Threads \ {t} : Frame(u)'
    BY <1>23, <2>1 DEF CallListener, Called, publisherVars, consumerVars,
          historyVars, Frame, Frames, TypeOK
  <2>4. NamesMatch' /\ Keyed'
    BY <1>23, <2>1 DEF CallListener, Called, publisherVars, consumerVars,
          historyVars, Frame, Frames, NamesMatch, Keyed, TypeOK
  <2>5. QED
    BY <2>2, <2>3, <2>4 DEF Frames
<1>24. ASSUME NEW t \in Threads, ListenerRaises(t) PROVE Frames'
  BY <1>24 DEF ListenerRaises, Called, publisherVars, consumerVars,
        historyVars, TypeOK, Frames, Frame, NamesMatch, Keyed
<1>25. ASSUME NEW t \in Threads, CallsEnd(t) PROVE Frames'
  BY <1>25 DEF CallsEnd, Return, publisherVars, consumerVars, historyVars,
        TypeOK, Frames, Frame, NamesMatch, Keyed
<1>26. ASSUME NEW p \in Plain, NEW n \in Names, Subscribe(p, n) PROVE Frames'
  BY <1>26, <1>a
  DEF Subscribe, threadVars, Frames, Frame, NamesMatch
<1>27. ASSUME NEW p \in Plain, NEW n \in Names, Unsubscribe(p, n) PROVE Frames'
  <2>1. \A t \in Threads : Frame(t)'
    BY <1>27 DEF Unsubscribe, threadVars, Frame, Frames
  <2>2. NamesMatch' /\ Keyed'
    BY <1>27 DEF Unsubscribe, RemoveListener, NamesMatch, Keyed, Frames, TypeOK
  <2>3. QED
    BY <2>1, <2>2 DEF Frames
<1>28. ASSUME NEW p \in Plain, SubscribeToAll(p) PROVE Frames'
  BY <1>28 DEF SubscribeToAll, Exists, consumerVars, historyVars, threadVars,
        TypeOK, Frames, Frame, NamesMatch, Keyed
<1>29. ASSUME NEW p \in Plain, UnsubscribeFromAll(p) PROVE Frames'
  BY <1>29 DEF UnsubscribeFromAll, Forget, consumerVars, threadVars, TypeOK,
        Frames, Frame, NamesMatch, Keyed
<1>30. ASSUME NEW c \in Followers \cup Wild, Follow(c) PROVE Frames'
  BY <1>30 DEF Follow, historyVars, threadVars, sharedVars, TypeOK, Frames,
        Frame, NamesMatch, Keyed
<1>31. ASSUME NEW c \in Followers \cup Wild, WildSubscribe(c) PROVE Frames'
  BY <1>31 DEF WildSubscribe, publisherVars, consumerVars, historyVars,
        threadVars, sharedVars, TypeOK, Frames, Frame, NamesMatch, Keyed
<1>32. ASSUME NEW c \in Followers \cup Wild, ListChannels(c) PROVE Frames'
  BY <1>32 DEF ListChannels, Exists, publisherVars, consumerVars, historyVars,
        threadVars, sharedVars, TypeOK, Frames, Frame, NamesMatch, Keyed
<1>33. ASSUME NEW c \in Followers \cup Wild, WalkSubscribe(c) PROVE Frames'
  <2>1. \A t \in Threads : Frame(t)'
    BY <1>33 DEF WalkSubscribe, sharedVars, threadVars, Frame, Frames
  <2>2. PICK n \in walk[c] : AddListener(c, n)
    BY <1>33 DEF WalkSubscribe
  <2>3. n \in Names
    BY DEF TypeOK
  <2>4. Keyed'
    BY <1>a, <2>2, <2>3
  <2>5. NamesMatch'
    BY <1>33 DEF WalkSubscribe, sharedVars, NamesMatch, Frames
  <2>6. QED
    BY <2>1, <2>4, <2>5 DEF Frames
<1>34. ASSUME NEW c \in Followers \cup Wild, FollowEnds(c) PROVE Frames'
  BY <1>34 DEF FollowEnds, publisherVars, consumerVars, historyVars,
        threadVars, sharedVars, TypeOK, Frames, Frame, NamesMatch, Keyed
<1>35. ASSUME NEW c \in Followers \cup Wild, WildSubscribeEnds(c) PROVE Frames'
  BY <1>35 DEF WildSubscribeEnds, historyVars, threadVars, sharedVars, TypeOK,
        Frames, Frame, NamesMatch, Keyed
<1>36. ASSUME NEW c \in Followers \cup Wild, WildUnsubscribe(c) PROVE Frames'
  BY <1>36 DEF WildUnsubscribe, Exists, publisherVars, consumerVars,
        historyVars, threadVars, sharedVars, TypeOK, Frames, Frame,
        NamesMatch, Keyed
<1>37. ASSUME NEW c \in Followers \cup Wild, WalkUnsubscribe(c) PROVE Frames'
  <2>1. \A t \in Threads : Frame(t)'
    BY <1>37 DEF WalkUnsubscribe, sharedVars, threadVars, Frame, Frames
  <2>2. PICK n \in walk[c] : RemoveListener(c, n)
                           \/ UNCHANGED listeners
    BY <1>37 DEF WalkUnsubscribe
  <2>3. n \in Names
    BY DEF TypeOK
  <2>4. Keyed'
    BY <1>37, <2>2, <2>3 DEF WalkUnsubscribe, RemoveListener, Keyed, Frames, TypeOK
  <2>5. NamesMatch'
    BY <1>37 DEF WalkUnsubscribe, sharedVars, NamesMatch, Frames
  <2>6. QED
    BY <2>1, <2>4, <2>5 DEF Frames
<1>38. ASSUME NEW c \in Followers \cup Wild, WildUnsubscribeEnds(c) PROVE Frames'
  BY <1>38 DEF WildUnsubscribeEnds, historyVars, threadVars, sharedVars,
        TypeOK, Frames, Frame, NamesMatch, Keyed
<1>39. CASE UNCHANGED vars
  BY <1>39 DEF vars, publisherVars, consumerVars, historyVars, TypeOK, Frames,
        Frame, NamesMatch, Keyed
<1>40. QED
  BY <1>1, <1>2, <1>3, <1>4, <1>5, <1>6, <1>7, <1>8, <1>9, <1>10, <1>11,
        <1>12, <1>13, <1>14, <1>15, <1>16, <1>17, <1>18, <1>19, <1>20, <1>21,
        <1>22, <1>23, <1>24, <1>25, <1>26, <1>27, <1>28, <1>29, <1>30, <1>31,
        <1>32, <1>33, <1>34, <1>35, <1>36, <1>37, <1>38, <1>39
     DEF Next, ThreadStep, AddStep, RemoveStep, SetStep, PlainStep,
           FollowStep, WildStep

\* Every step keeps a thread on its way to every callback that is owed a
\* sample: the heart of NoSampleLost.
LEMMA OwingStep == IInv /\ [Next]_vars => Owing'
<1> SUFFICES ASSUME TypeOK, Frames, Owing, [Next]_vars,
                    NEW cb \in Callbacks, NEW o \in Objects
             PROVE  Pair(cb, o)'
  BY DEF IInv, Owing
<1> USE DEF AddStages, SetStages, RemoveStages
<1>p. Pair(cb, o)
  BY DEF Owing
<1>a. ASSUME NEW c, NEW n, AddListener(c, n)
      PROVE  \A m \in Names : listeners[m] \subseteq listeners'[m]
  BY <1>a DEF AddListener, TypeOK
\* A pair keeps its place when nothing is taken from the tables or threads.
<1>s. ASSUME UNCHANGED nameOf, owed' \subseteq owed, Excused \subseteq Excused',
             \A m \in Names : listeners[m] \subseteq listeners'[m],
             \A u \in Threads : WillCall(u, cb, o) => WillCall(u, cb, o)'
      PROVE  Pair(cb, o)'
  BY <1>p, <1>s DEF Pair, StillSubscribed
<1>1. ASSUME NEW t \in Threads, NEW n \in Names, AddChannel(t, n) PROVE Pair(cb, o)'
  BY <1>1, <1>p DEF AddChannel, GoTo, Exists, publisherVars, consumerVars,
        historyVars, TypeOK, Frames, Frame, Pair, StillSubscribed, Excused,
        WillCall
<1>2. ASSUME NEW t \in Threads, NEW n \in Names, RemoveChannel(t, n) PROVE Pair(cb, o)'
  BY <1>2, <1>p DEF RemoveChannel, GoTo, LoggersOf, Exists, publisherVars,
        consumerVars, historyVars, TypeOK, Frames, Frame, Pair,
        StillSubscribed, Excused, WillCall
<1>3. ASSUME NEW t \in Threads, NEW n \in Names, GetChannel(t, n) PROVE Pair(cb, o)'
  BY <1>3, <1>p DEF GetChannel, GoTo, Exists, publisherVars, consumerVars,
        historyVars, TypeOK, Frames, Frame, Pair, StillSubscribed, Excused,
        WillCall
<1>4. ASSUME NEW t \in Threads, Insert(t) PROVE Pair(cb, o)'
  <2>1. PICK q \in Objects :
           /\ Unreferenced(q)
           /\ nameOf' = [nameOf EXCEPT ![q] = name[t]]
           /\ obj' = [obj EXCEPT ![t] = q]
           /\ owed' = {p \in owed : p[2] # q}
           /\ early' = {p \in early : p[2] # q}
           /\ cut' = {p \in cut : p[2] # q}
    BY <1>4 DEF Insert
  <2>2. /\ pc[t] = "insert" /\ pc' = [pc EXCEPT ![t] = "announce"]
        /\ UNCHANGED <<todo, listeners>>
    BY <1>4 DEF Insert, GoTo, publisherVars
  <2>3. CASE q = o
    BY <2>1, <2>3 DEF Pair
  <2>4. CASE q # o
    <3>1. nameOf'[o] = nameOf[o]
      BY <2>1, <2>4 DEF TypeOK
    <3>2. \A u \in Threads : WillCall(u, cb, o) => WillCall(u, cb, o)'
      BY <2>1, <2>2 DEF WillCall, TypeOK
    <3>3. <<cb, o>> \in Excused => <<cb, o>> \in Excused'
      BY <2>1, <2>4 DEF Excused
    <3>4. QED
      BY <1>p, <2>1, <2>2, <3>1, <3>2, <3>3 DEF Pair, StillSubscribed
  <2>5. QED
    BY <2>3, <2>4
<1>5. ASSUME NEW t \in Threads, CopyNewListeners(t) PROVE Pair(cb, o)'
  BY <1>5, <1>p DEF CopyNewListeners, GoTo, publisherVars, consumerVars,
        historyVars, TypeOK, Frames, Frame, Pair, StillSubscribed, Excused,
        WillCall
<1>6. ASSUME NEW t \in Threads, CallNewListener(t) PROVE Pair(cb, o)'
  <2>1. PICK c \in todo[t] : /\ AddListener(c, name[t])
                            /\ todo' = [todo EXCEPT ![t] = @ \ {c}]
    BY <1>6 DEF CallNewListener
  <2>2. pc[t] = "new calls" /\ UNCHANGED <<pc, obj, nameOf, owed, early, cut>>
    BY <1>6 DEF CallNewListener, historyVars
  <2>3. \A u \in Threads : WillCall(u, cb, o) => WillCall(u, cb, o)'
    BY <2>1, <2>2 DEF WillCall, TypeOK
  <2>4. QED
    BY <1>a, <1>s, <2>1, <2>2, <2>3 DEF Excused
<1>7. ASSUME NEW t \in Threads, NewListenerRaises(t) PROVE Pair(cb, o)'
  BY <1>7, <1>p DEF NewListenerRaises, publisherVars, consumerVars,
        historyVars, TypeOK, Frames, Frame, Pair, StillSubscribed, Excused,
        WillCall
<1>8. ASSUME NEW t \in Threads, NewCallsEnd(t) PROVE Pair(cb, o)'
  BY <1>8, <1>p DEF NewCallsEnd, GoTo, LoggersOf, publisherVars, consumerVars,
        historyVars, TypeOK, Frames, Frame, Pair, StillSubscribed, Excused,
        WillCall
<1>9. ASSUME NEW t \in Threads, LogNewChannel(t) PROVE Pair(cb, o)'
  BY <1>9, <1>p DEF LogNewChannel, LogEvent, publisherVars, consumerVars,
        historyVars, TypeOK, Frames, Frame, Pair, StillSubscribed, Excused,
        WillCall
<1>10. ASSUME NEW t \in Threads, NewLogEnds(t) PROVE Pair(cb, o)'
  BY <1>10, <1>p DEF NewLogEnds, GoTo, publisherVars, consumerVars,
        historyVars, TypeOK, Frames, Frame, Pair, StillSubscribed, Excused,
        WillCall
<1>11. ASSUME NEW t \in Threads, Attach(t) PROVE Pair(cb, o)'
  BY <1>11, <1>p DEF Attach, Return, publisherVars, consumerVars, historyVars,
        TypeOK, Frames, Frame, Pair, StillSubscribed, Excused, WillCall
<1>12. ASSUME NEW t \in Threads, LogRemoveChannel(t) PROVE Pair(cb, o)'
  BY <1>12, <1>p DEF LogRemoveChannel, LogEvent, publisherVars, consumerVars,
        historyVars, TypeOK, Frames, Frame, Pair, StillSubscribed, Excused,
        WillCall
<1>13. ASSUME NEW t \in Threads, RemoveLogEnds(t) PROVE Pair(cb, o)'
  BY <1>13, <1>p DEF RemoveLogEnds, GoTo, publisherVars, consumerVars,
        historyVars, TypeOK, Frames, Frame, Pair, StillSubscribed, Excused,
        WillCall
<1>14. ASSUME NEW t \in Threads, Delete(t) PROVE Pair(cb, o)'
  BY <1>14, <1>p DEF Delete, Return, publisherVars, consumerVars, historyVars,
        TypeOK, Frames, Frame, Pair, StillSubscribed, Excused, WillCall
<1>15. ASSUME NEW t \in Threads, RefuseSample(t) PROVE Pair(cb, o)'
  BY <1>15, <1>p DEF RefuseSample, Return, publisherVars, consumerVars,
        historyVars, TypeOK, Frames, Frame, Pair, StillSubscribed, Excused,
        WillCall
<1>16. ASSUME NEW t \in Threads, StoreSample(t) PROVE Pair(cb, o)'
  BY <1>16, <1>p DEF StoreSample, GoTo, publisherVars, consumerVars,
        historyVars, TypeOK, Frames, Frame, Pair, StillSubscribed, Excused,
        WillCall
<1>17. ASSUME NEW t \in Threads, OnNewSample(t) PROVE Pair(cb, o)'
  BY <1>17, <1>p DEF OnNewSample, GoTo, LoggersOf, publisherVars,
        consumerVars, historyVars, TypeOK, Frames, Frame, Pair,
        StillSubscribed, Excused, WillCall
<1>18. ASSUME NEW t \in Threads, OnNewSampleUnheard(t) PROVE Pair(cb, o)'
  BY <1>18, <1>p DEF OnNewSampleUnheard, Return, publisherVars, consumerVars,
        historyVars, TypeOK, Frames, Frame, Pair, StillSubscribed, Excused,
        WillCall
<1>19. ASSUME NEW t \in Threads, LogNewSample(t) PROVE Pair(cb, o)'
  BY <1>19, <1>p DEF LogNewSample, LogEvent, publisherVars, consumerVars,
        historyVars, TypeOK, Frames, Frame, Pair, StillSubscribed, Excused,
        WillCall
<1>20. ASSUME NEW t \in Threads, LogEnds(t) PROVE Pair(cb, o)'
  BY <1>20, <1>p DEF LogEnds, GoTo, publisherVars, consumerVars, historyVars,
        TypeOK, Frames, Frame, Pair, StillSubscribed, Excused, WillCall
<1>21. ASSUME NEW t \in Threads, CopyDict(t) PROVE Pair(cb, o)'
  <2>1. UNCHANGED <<nameOf, listeners, owed, early, cut>> /\ pc[t] = "copy dict"
    BY <1>21 DEF CopyDict, publisherVars, historyVars
  <2>2. CASE name[t] \in known /\ GoTo(t, "copy set") /\ UNCHANGED <<obj, name, todo>>
    <3>1. \A u \in Threads : WillCall(u, cb, o) => WillCall(u, cb, o)'
      BY <2>1, <2>2 DEF GoTo, WillCall, TypeOK
    <3>2. QED
      BY <1>s, <2>1, <3>1 DEF Excused
  <2>3. CASE name[t] \notin known /\ Return(t)
    <3>1. \A u \in Threads \ {t} : WillCall(u, cb, o) => WillCall(u, cb, o)'
      BY <2>3 DEF Return, WillCall, TypeOK
    <3>2. obj[t] = o => nameOf[o] \notin known
      BY <2>1, <2>3 DEF Frames, Frame
    <3>3. <<cb, o>> \in owed => ~ WillCall(t, cb, o)
      BY <1>p, <3>2 DEF Pair, StillSubscribed, WillCall, Frames, Keyed
    <3>4. QED
      BY <1>p, <2>1, <3>1, <3>3 DEF Pair, StillSubscribed, Excused
  <2>4. QED
    BY <1>21, <2>2, <2>3 DEF CopyDict
<1>22. ASSUME NEW t \in Threads, CopySet(t) PROVE Pair(cb, o)'
  BY <1>22, <1>p DEF CopySet, GoTo, publisherVars, consumerVars, historyVars,
        TypeOK, Frames, Frame, Pair, StillSubscribed, Excused, WillCall
<1>23. ASSUME NEW t \in Threads, CallListener(t) PROVE Pair(cb, o)'
  <2>1. PICK x \in todo[t] :
           /\ Called(x, obj[t])
           /\ cut' = cut \ {<<x, obj[t]>>}
           /\ todo' = [todo EXCEPT ![t] = @ \ {x}]
    BY <1>23 DEF CallListener
  <2>2. pc[t] = "calls" /\ UNCHANGED <<pc, obj, nameOf, listeners>>
    BY <1>23 DEF CallListener, publisherVars
  <2>3. CASE x = cb /\ obj[t] = o
    BY <2>1, <2>3 DEF Called, Pair
  <2>4. CASE ~(x = cb /\ obj[t] = o)
    <3>1. <<cb, o>> # <<x, obj[t]>>
      BY <2>4
    <3>2. /\ <<cb, o>> \in owed' => <<cb, o>> \in owed
          /\ <<cb, o>> \in Excused => <<cb, o>> \in Excused'
      BY <2>1, <3>1 DEF Called, Excused
    <3>3. \A u \in Threads : WillCall(u, cb, o) => WillCall(u, cb, o)'
      BY <2>1, <2>2, <2>4 DEF WillCall, TypeOK
    <3>4. QED
      BY <1>p, <2>2, <3>2, <3>3 DEF Pair, StillSubscribed
  <2>5. QED
    BY <2>3, <2>4
<1>24. ASSUME NEW t \in Threads, ListenerRaises(t) PROVE Pair(cb, o)'
  <2>1. PICK x \in todo[t] :
           /\ Called(x, obj[t])
           /\ cut' = (cut \cup ((todo[t] \X {obj[t]}) \cap owed))
                        \ {<<x, obj[t]>>}
    BY <1>24 DEF ListenerRaises
  <2>2. /\ pc[t] = "calls" /\ UNCHANGED <<pc, obj, nameOf, listeners>>
        /\ todo' = [todo EXCEPT ![t] = {}]
    BY <1>24 DEF ListenerRaises, publisherVars
  <2>3. CASE x = cb /\ obj[t] = o
    BY <2>1, <2>3 DEF Called, Pair
  <2>4. CASE ~(x = cb /\ obj[t] = o)
    <3>1. <<cb, o>> # <<x, obj[t]>>
      BY <2>4
    <3>2. /\ <<cb, o>> \in owed' => <<cb, o>> \in owed
          /\ <<cb, o>> \in Excused => <<cb, o>> \in Excused'
      BY <2>1, <3>1 DEF Called, Excused
    <3>3. \A u \in Threads \ {t} : WillCall(u, cb, o) => WillCall(u, cb, o)'
      BY <2>2 DEF WillCall, TypeOK
    <3>4. WillCall(t, cb, o) /\ <<cb, o>> \in owed => <<cb, o>> \in Excused'
      BY <2>1, <2>2, <3>1 DEF WillCall, Excused
    <3>5. QED
      BY <1>p, <2>2, <3>2, <3>3, <3>4 DEF Pair, StillSubscribed
  <2>5. QED
    BY <2>3, <2>4
<1>25. ASSUME NEW t \in Threads, CallsEnd(t) PROVE Pair(cb, o)'
  BY <1>25, <1>p DEF CallsEnd, Return, publisherVars, consumerVars,
        historyVars, TypeOK, Frames, Frame, Pair, StillSubscribed, Excused,
        WillCall
<1>26. ASSUME NEW p \in Plain, NEW n \in Names, Subscribe(p, n) PROVE Pair(cb, o)'
  BY <1>26, <1>p DEF Subscribe, AddListener, consumerVars, historyVars,
        threadVars, TypeOK, Frames, Frame, Pair, StillSubscribed, Excused,
        WillCall
<1>27. ASSUME NEW p \in Plain, NEW n \in Names, Unsubscribe(p, n) PROVE Pair(cb, o)'
  BY <1>27, <1>p DEF Unsubscribe, RemoveListener, Forget, consumerVars,
        threadVars, TypeOK, Frames, Frame, Pair, StillSubscribed, Excused,
        WillCall
<1>28. ASSUME NEW p \in Plain, SubscribeToAll(p) PROVE Pair(cb, o)'
  BY <1>28, <1>p DEF SubscribeToAll, Exists, consumerVars, historyVars,
        threadVars, TypeOK, Frames, Frame, Pair, StillSubscribed, Excused,
        WillCall
<1>29. ASSUME NEW p \in Plain, UnsubscribeFromAll(p) PROVE Pair(cb, o)'
  BY <1>29, <1>p DEF UnsubscribeFromAll, Forget, consumerVars, threadVars,
        TypeOK, Frames, Frame, Pair, StillSubscribed, Excused, WillCall
<1>30. ASSUME NEW c \in Followers \cup Wild, Follow(c) PROVE Pair(cb, o)'
  BY <1>30, <1>p DEF Follow, historyVars, threadVars, sharedVars, TypeOK,
        Frames, Frame, Pair, StillSubscribed, Excused, WillCall
<1>31. ASSUME NEW c \in Followers \cup Wild, WildSubscribe(c) PROVE Pair(cb, o)'
  BY <1>31, <1>p DEF WildSubscribe, publisherVars, consumerVars, historyVars,
        threadVars, sharedVars, TypeOK, Frames, Frame, Pair, StillSubscribed,
        Excused, WillCall
<1>32. ASSUME NEW c \in Followers \cup Wild, ListChannels(c) PROVE Pair(cb, o)'
  BY <1>32, <1>p DEF ListChannels, Exists, publisherVars, consumerVars,
        historyVars, threadVars, sharedVars, TypeOK, Frames, Frame, Pair,
        StillSubscribed, Excused, WillCall
<1>33. ASSUME NEW c \in Followers \cup Wild, WalkSubscribe(c) PROVE Pair(cb, o)'
  <2>1. PICK n \in walk[c] : AddListener(c, n)
    BY <1>33 DEF WalkSubscribe
  <2>2. UNCHANGED <<pc, obj, todo, nameOf, owed, early, cut>>
    BY <1>33 DEF WalkSubscribe, sharedVars, threadVars, historyVars
  <2>3. \A u \in Threads : WillCall(u, cb, o) => WillCall(u, cb, o)'
    BY <2>2 DEF WillCall
  <2>4. QED
    BY <1>a, <1>s, <2>1, <2>2, <2>3 DEF Excused
<1>34. ASSUME NEW c \in Followers \cup Wild, FollowEnds(c) PROVE Pair(cb, o)'
  BY <1>34, <1>p DEF FollowEnds, publisherVars, consumerVars, historyVars,
        threadVars, sharedVars, TypeOK, Frames, Frame, Pair, StillSubscribed,
        Excused, WillCall
<1>35. ASSUME NEW c \in Followers \cup Wild, WildSubscribeEnds(c) PROVE Pair(cb, o)'
  BY <1>35, <1>p DEF WildSubscribeEnds, historyVars, threadVars, sharedVars,
        TypeOK, Frames, Frame, Pair, StillSubscribed, Excused, WillCall
<1>36. ASSUME NEW c \in Followers \cup Wild, WildUnsubscribe(c) PROVE Pair(cb, o)'
  BY <1>36, <1>p DEF WildUnsubscribe, Exists, publisherVars, consumerVars,
        historyVars, threadVars, sharedVars, TypeOK, Frames, Frame, Pair,
        StillSubscribed, Excused, WillCall
<1>37. ASSUME NEW c \in Followers \cup Wild, WalkUnsubscribe(c) PROVE Pair(cb, o)'
  <2>1. PICK n \in walk[c] : \/ RemoveListener(c, n)
                             \/ UNCHANGED <<listeners, owed, early, cut>>
    BY <1>37 DEF WalkUnsubscribe
  <2>2. UNCHANGED <<pc, obj, todo, nameOf>>
    BY <1>37 DEF WalkUnsubscribe, sharedVars, threadVars
  <2>3. \A u \in Threads : WillCall(u, cb, o) => WillCall(u, cb, o)'
    BY <2>2 DEF WillCall
  <2>4. CASE RemoveListener(c, n)
    BY <1>p, <2>2, <2>3, <2>4
    DEF RemoveListener, Forget, Pair, StillSubscribed, Excused, TypeOK
  <2>5. CASE UNCHANGED <<listeners, owed, early, cut>>
    BY <1>s, <2>2, <2>3, <2>5 DEF Excused
  <2>6. QED
    BY <2>1, <2>4, <2>5
<1>38. ASSUME NEW c \in Followers \cup Wild, WildUnsubscribeEnds(c) PROVE Pair(cb, o)'
  BY <1>38, <1>p DEF WildUnsubscribeEnds, historyVars, threadVars, sharedVars,
        TypeOK, Frames, Frame, Pair, StillSubscribed, Excused, WillCall
<1>39. CASE UNCHANGED vars
  BY <1>p, <1>39 DEF vars, publisherVars, consumerVars, historyVars, Pair,
        StillSubscribed, Excused, WillCall
<1>40. QED
  BY <1>1, <1>2, <1>3, <1>4, <1>5, <1>6, <1>7, <1>8, <1>9, <1>10, <1>11,
        <1>12, <1>13, <1>14, <1>15, <1>16, <1>17, <1>18, <1>19, <1>20, <1>21,
        <1>22, <1>23, <1>24, <1>25, <1>26, <1>27, <1>28, <1>29, <1>30, <1>31,
        <1>32, <1>33, <1>34, <1>35, <1>36, <1>37, <1>38, <1>39
     DEF Next, ThreadStep, AddStep, RemoveStep, SetStep, PlainStep,
           FollowStep, WildStep

\* Every step keeps the loggers told of what they are given samples of.
LEMMA JournalsStep == IInv /\ [Next]_vars => Journals'
<1> SUFFICES ASSUME TypeOK, Frames, Journals, [Next]_vars PROVE Journals'
  BY DEF IInv
<1> USE DEF AddStages, SetStages, RemoveStages
<1>1. ASSUME NEW t \in Threads, NEW n \in Names, AddChannel(t, n) PROVE Journals'
  BY <1>1 DEF AddChannel, GoTo, Exists, publisherVars, consumerVars,
        historyVars, TypeOK, Frames, Frame, Journals, HasTold, Introduced,
        Told, NewBeforeSamples, LoggersOf
<1>2. ASSUME NEW t \in Threads, NEW n \in Names, RemoveChannel(t, n) PROVE Journals'
  BY <1>2 DEF RemoveChannel, GoTo, LoggersOf, Exists, publisherVars,
        consumerVars, historyVars, TypeOK, Frames, Frame, Journals, HasTold,
        Introduced, Told, NewBeforeSamples
<1>3. ASSUME NEW t \in Threads, NEW n \in Names, GetChannel(t, n) PROVE Journals'
  BY <1>3 DEF GetChannel, GoTo, Exists, publisherVars, consumerVars,
        historyVars, TypeOK, Frames, Frame, Journals, HasTold, Introduced,
        Told, NewBeforeSamples, LoggersOf
<1>4. ASSUME NEW t \in Threads, Insert(t) PROVE Journals'
  <2>1. PICK q \in Objects :
           /\ Unreferenced(q)
           /\ nameOf' = [nameOf EXCEPT ![q] = name[t]]
           /\ attached' = attached \ {q}
           /\ obj' = [obj EXCEPT ![t] = q]
           /\ journal' = [p \in Loggers \X Objects |->
                             IF p[2] = q THEN {} ELSE journal[p]]
    BY <1>4 DEF Insert
  <2>2. /\ pc[t] = "insert" /\ pc' = [pc EXCEPT ![t] = "announce"]
        /\ UNCHANGED <<todo, name>>
    BY <1>4 DEF Insert, GoTo
  <2>3. \A g \in Loggers, o \in Objects \ {q} :
           /\ journal'[<<g, o>>] = journal[<<g, o>>]
           /\ nameOf'[o] = nameOf[o]
    BY <2>1 DEF TypeOK
  <2>4. \A g \in Loggers : journal'[<<g, q>>] = {}
    BY <2>1
  <2>5. \A u \in Threads \ {t} :
           /\ pc'[u] = pc[u] /\ obj'[u] = obj[u] /\ obj[u] # q
    BY <2>1, <2>2 DEF Unreferenced, TypeOK
  <2>6. \A u \in Threads : HasTold(u)'
    <3>1. HasTold(t)'
      BY <2>2 DEF HasTold, TypeOK
    <3>2. \A u \in Threads \ {t} : pc[u] \in {"new log", "attach", "log"}
             => obj[u] \in Objects
      BY DEF Frames, Frame
    <3>3. ASSUME NEW u \in Threads \ {t} PROVE HasTold(u)'
      <4>1. /\ pc'[u] = pc[u] /\ obj'[u] = obj[u] /\ obj[u] # q
            /\ name'[u] = name[u] /\ todo'[u] = todo[u]
        BY <2>2, <2>5
      <4>2. ASSUME obj[u] \in Objects, NEW g \in Loggers, Told(g, obj[u])
            PROVE  Told(g, obj[u])'
        BY <2>3, <4>1, <4>2 DEF Told
      <4>3. HasTold(u)
        BY DEF Journals
      <4>4. obj[u] \in attached => obj'[u] \in attached'
        BY <2>1, <4>1
      <4>5. QED
        BY <3>2, <4>1, <4>2, <4>3, <4>4 DEF HasTold, LoggersOf, Told
    <3>4. QED
      BY <3>1, <3>3
  <2>7. Introduced'
    BY <2>1, <2>3 DEF Journals, Introduced, Told, TypeOK
  <2>8. NewBeforeSamples'
    BY <2>3, <2>4 DEF Journals, NewBeforeSamples
  <2>9. QED
    BY <2>6, <2>7, <2>8 DEF Journals
<1>5. ASSUME NEW t \in Threads, CopyNewListeners(t) PROVE Journals'
  BY <1>5 DEF CopyNewListeners, GoTo, publisherVars, consumerVars,
        historyVars, TypeOK, Frames, Frame, Journals, HasTold, Introduced,
        Told, NewBeforeSamples, LoggersOf
<1>6. ASSUME NEW t \in Threads, CallNewListener(t) PROVE Journals'
  <2>1. /\ pc[t] = "new calls"
        /\ UNCHANGED <<pc, obj, name, nameOf, attached, journal>>
        /\ \A u \in Threads \ {t} : todo'[u] = todo[u]
    BY <1>6 DEF CallNewListener, historyVars, TypeOK
  <2>2. \A u \in Threads : HasTold(u)'
    BY <2>1 DEF Journals, HasTold, Told, LoggersOf
  <2>3. QED
    BY <2>1, <2>2 DEF Journals, Introduced, Told, NewBeforeSamples
<1>7. ASSUME NEW t \in Threads, NewListenerRaises(t) PROVE Journals'
  BY <1>7 DEF NewListenerRaises, publisherVars, consumerVars, historyVars,
        TypeOK, Frames, Frame, Journals, HasTold, Introduced, Told,
        NewBeforeSamples, LoggersOf
<1>8. ASSUME NEW t \in Threads, NewCallsEnd(t) PROVE Journals'
  BY <1>8 DEF NewCallsEnd, GoTo, LoggersOf, publisherVars, consumerVars,
        historyVars, TypeOK, Frames, Frame, Journals, HasTold, Introduced,
        Told, NewBeforeSamples
<1>9. ASSUME NEW t \in Threads, LogNewChannel(t) PROVE Journals'
  <2>1. PICK g \in todo[t] :
           /\ todo' = [todo EXCEPT ![t] = @ \ {g}]
           /\ journal' = [journal EXCEPT ![<<g, obj[t]>>] = @ \cup {"new"}]
    BY <1>9 DEF LogNewChannel, LogEvent
  <2>2. /\ pc[t] = "new log" /\ UNCHANGED <<pc, obj, name, nameOf, attached>>
    BY <1>9 DEF LogNewChannel
  <2>3. g \in Loggers /\ obj[t] \in Objects
    BY <2>1, <2>2 DEF Frames, Frame
  <2>4. \A h \in Loggers, o \in Objects :
           journal'[<<h, o>>] = IF <<h, o>> = <<g, obj[t]>>
                                THEN journal[<<h, o>>] \cup {"new"}
                                ELSE journal[<<h, o>>]
    BY <2>1, <2>3 DEF TypeOK
  <2>6. \A h \in Loggers, o \in Objects : Told(h, o) => Told(h, o)'
    BY <2>2, <2>4 DEF Told
  <2>7. \A u \in Threads : pc[u] \in {"new log", "attach", "log"}
                              => obj[u] \in Objects
    BY DEF Frames, Frame
  <2>8. \A u \in Threads \ {t} : HasTold(u)'
    BY <2>1, <2>2, <2>6, <2>7 DEF Journals, HasTold, LoggersOf, TypeOK
  <2>9. HasTold(t)'
    <3>1. Told(g, obj[t])'
      BY <2>2, <2>3, <2>4 DEF Told
    <3>2. \A h \in Loggers : h \in todo[t] \/ Told(h, obj[t])
      BY <2>2 DEF Journals, HasTold
    <3>3. todo'[t] = todo[t] \ {g}
      BY <2>1 DEF TypeOK
    <3>4. QED
      BY <2>2, <2>3, <2>6, <3>1, <3>2, <3>3 DEF HasTold
  <2>10. Introduced'
    BY <2>2, <2>6 DEF Journals, Introduced, TypeOK
  <2>11. NewBeforeSamples'
    <3>1. ASSUME NEW h \in Loggers, NEW o \in Objects,
                 "sample" \in journal'[<<h, o>>]
          PROVE  "new" \in journal'[<<h, o>>]
      <4>1. \/ journal'[<<h, o>>] = journal[<<h, o>>]
            \/ journal'[<<h, o>>] = journal[<<h, o>>] \cup {"new"}
        BY <2>4
      <4>2. "sample" \in journal[<<h, o>>]
        BY <3>1, <4>1
      <4>3. "new" \in journal[<<h, o>>]
        BY <4>2 DEF Journals, NewBeforeSamples
      <4>4. QED
        BY <4>1, <4>3
    <3>2. QED
      BY <3>1 DEF NewBeforeSamples
  <2>12. QED
    BY <2>8, <2>9, <2>10, <2>11 DEF Journals
<1>10. ASSUME NEW t \in Threads, NewLogEnds(t) PROVE Journals'
  BY <1>10 DEF NewLogEnds, GoTo, publisherVars, consumerVars, historyVars,
        TypeOK, Frames, Frame, Journals, HasTold, Introduced, Told,
        NewBeforeSamples, LoggersOf
<1>11. ASSUME NEW t \in Threads, Attach(t) PROVE Journals'
  BY <1>11 DEF Attach, Return, publisherVars, consumerVars, historyVars,
        TypeOK, Frames, Frame, Journals, HasTold, Introduced, Told,
        NewBeforeSamples, LoggersOf
<1>12. ASSUME NEW t \in Threads, LogRemoveChannel(t) PROVE Journals'
  <2>1. PICK g \in todo[t] :
           /\ todo' = [todo EXCEPT ![t] = @ \ {g}]
           /\ journal' = [journal EXCEPT ![<<g, obj[t]>>] = @ \cup {"remove"}]
    BY <1>12 DEF LogRemoveChannel, LogEvent
  <2>2. /\ pc[t] = "remove log" /\ UNCHANGED <<pc, obj, name, nameOf, attached>>
    BY <1>12 DEF LogRemoveChannel
  <2>3. g \in Loggers /\ obj[t] \in Objects
    BY <2>1, <2>2 DEF Frames, Frame
  <2>4. \A h \in Loggers, o \in Objects :
           journal'[<<h, o>>] = IF <<h, o>> = <<g, obj[t]>>
                                THEN journal[<<h, o>>] \cup {"remove"}
                                ELSE journal[<<h, o>>]
    BY <2>1, <2>3 DEF TypeOK
  <2>6. \A h \in Loggers, o \in Objects : Told(h, o) => Told(h, o)'
    BY <2>2, <2>4 DEF Told
  <2>7. \A u \in Threads : pc[u] \in {"new log", "attach", "log"}
                              => obj[u] \in Objects
    BY DEF Frames, Frame
  <2>8. \A u \in Threads \ {t} : HasTold(u)'
    BY <2>1, <2>2, <2>6, <2>7 DEF Journals, HasTold, LoggersOf, TypeOK
  <2>9. HasTold(t)'
    BY <2>2 DEF HasTold
  <2>10. Introduced'
    BY <2>2, <2>6 DEF Journals, Introduced, TypeOK
  <2>11. NewBeforeSamples'
    <3>1. ASSUME NEW h \in Loggers, NEW o \in Objects,
                 "sample" \in journal'[<<h, o>>]
          PROVE  "new" \in journal'[<<h, o>>]
      <4>1. \/ journal'[<<h, o>>] = journal[<<h, o>>]
            \/ journal'[<<h, o>>] = journal[<<h, o>>] \cup {"remove"}
        BY <2>4
      <4>2. "sample" \in journal[<<h, o>>]
        BY <3>1, <4>1
      <4>3. "new" \in journal[<<h, o>>]
        BY <4>2 DEF Journals, NewBeforeSamples
      <4>4. QED
        BY <4>1, <4>3
    <3>2. QED
      BY <3>1 DEF NewBeforeSamples
  <2>12. QED
    BY <2>8, <2>9, <2>10, <2>11 DEF Journals
<1>13. ASSUME NEW t \in Threads, RemoveLogEnds(t) PROVE Journals'
  BY <1>13 DEF RemoveLogEnds, GoTo, publisherVars, consumerVars, historyVars,
        TypeOK, Frames, Frame, Journals, HasTold, Introduced, Told,
        NewBeforeSamples, LoggersOf
<1>14. ASSUME NEW t \in Threads, Delete(t) PROVE Journals'
  BY <1>14 DEF Delete, Return, publisherVars, consumerVars, historyVars,
        TypeOK, Frames, Frame, Journals, HasTold, Introduced, Told,
        NewBeforeSamples, LoggersOf
<1>15. ASSUME NEW t \in Threads, RefuseSample(t) PROVE Journals'
  BY <1>15 DEF RefuseSample, Return, publisherVars, consumerVars, historyVars,
        TypeOK, Frames, Frame, Journals, HasTold, Introduced, Told,
        NewBeforeSamples, LoggersOf
<1>16. ASSUME NEW t \in Threads, StoreSample(t) PROVE Journals'
  BY <1>16 DEF StoreSample, GoTo, publisherVars, consumerVars, historyVars,
        TypeOK, Frames, Frame, Journals, HasTold, Introduced, Told,
        NewBeforeSamples, LoggersOf
<1>17. ASSUME NEW t \in Threads, OnNewSample(t) PROVE Journals'
  BY <1>17 DEF OnNewSample, GoTo, LoggersOf, publisherVars, consumerVars,
        historyVars, TypeOK, Frames, Frame, Journals, HasTold, Introduced,
        Told, NewBeforeSamples
<1>18. ASSUME NEW t \in Threads, OnNewSampleUnheard(t) PROVE Journals'
  BY <1>18 DEF OnNewSampleUnheard, Return, publisherVars, consumerVars,
        historyVars, TypeOK, Frames, Frame, Journals, HasTold, Introduced,
        Told, NewBeforeSamples, LoggersOf
<1>19. ASSUME NEW t \in Threads, LogNewSample(t) PROVE Journals'
  <2>1. PICK g \in todo[t] :
           /\ todo' = [todo EXCEPT ![t] = @ \ {g}]
           /\ journal' = [journal EXCEPT ![<<g, obj[t]>>] = @ \cup {"sample"}]
    BY <1>19 DEF LogNewSample, LogEvent
  <2>2. /\ pc[t] = "log" /\ UNCHANGED <<pc, obj, name, nameOf, attached>>
    BY <1>19 DEF LogNewSample
  <2>3. g \in Loggers /\ obj[t] \in Objects
    BY <2>1, <2>2 DEF Frames, Frame
  <2>4. \A h \in Loggers, o \in Objects :
           journal'[<<h, o>>] = IF <<h, o>> = <<g, obj[t]>>
                                THEN journal[<<h, o>>] \cup {"sample"}
                                ELSE journal[<<h, o>>]
    BY <2>1, <2>3 DEF TypeOK
  <2>5. nameOf[obj[t]] \notin Unlogged /\ "new" \in journal[<<g, obj[t]>>]
    BY <2>1, <2>2 DEF Journals, HasTold, Introduced, Told, LoggersOf, Frames, Frame
  <2>6. \A h \in Loggers, o \in Objects : Told(h, o) => Told(h, o)'
    BY <2>2, <2>4 DEF Told
  <2>7. \A u \in Threads : pc[u] \in {"new log", "attach", "log"}
                              => obj[u] \in Objects
    BY DEF Frames, Frame
  <2>8. \A u \in Threads \ {t} : HasTold(u)'
    BY <2>1, <2>2, <2>6, <2>7 DEF Journals, HasTold, LoggersOf, TypeOK
  <2>9. HasTold(t)'
    <3>1. todo'[t] = todo[t] \ {g}
      BY <2>1 DEF TypeOK
    <3>2. QED
      BY <2>2, <3>1 DEF Journals, HasTold, LoggersOf
  <2>10. Introduced'
    BY <2>2, <2>6 DEF Journals, Introduced, TypeOK
  <2>11. NewBeforeSamples'
    BY <2>1, <2>2, <2>4, <2>5 DEF Journals, NewBeforeSamples
  <2>12. QED
    BY <2>8, <2>9, <2>10, <2>11 DEF Journals
<1>20. ASSUME NEW t \in Threads, LogEnds(t) PROVE Journals'
  BY <1>20 DEF LogEnds, GoTo, publisherVars, consumerVars, historyVars,
        TypeOK, Frames, Frame, Journals, HasTold, Introduced, Told,
        NewBeforeSamples, LoggersOf
<1>21. ASSUME NEW t \in Threads, CopyDict(t) PROVE Journals'
  <2>1. /\ pc[t] = "copy dict" /\ pc'[t] \in {"copy set", "idle"}
        /\ UNCHANGED <<nameOf, attached, journal>>
    BY <1>21 DEF CopyDict, GoTo, Return, historyVars, TypeOK
  <2>2. \A u \in Threads \ {t} : /\ pc'[u] = pc[u] /\ obj'[u] = obj[u]
                                  /\ name'[u] = name[u] /\ todo'[u] = todo[u]
    BY <1>21 DEF CopyDict, GoTo, Return, TypeOK
  <2>3. \A u \in Threads : HasTold(u)'
    BY <2>1, <2>2 DEF Journals, HasTold, Told, LoggersOf
  <2>4. QED
    BY <2>1, <2>3 DEF Journals, Introduced, Told, NewBeforeSamples
<1>22. ASSUME NEW t \in Threads, CopySet(t) PROVE Journals'
  BY <1>22 DEF CopySet, GoTo, publisherVars, consumerVars, historyVars,
        TypeOK, Frames, Frame, Journals, HasTold, Introduced, Told,
        NewBeforeSamples, LoggersOf
<1>23. ASSUME NEW t \in Threads, CallListener(t) PROVE Journals'
  <2>1. /\ pc[t] = "calls"
        /\ UNCHANGED <<pc, obj, name, nameOf, attached, journal>>
        /\ \A u \in Threads \ {t} : todo'[u] = todo[u]
    BY <1>23 DEF CallListener, historyVars, TypeOK
  <2>2. \A u \in Threads : HasTold(u)'
    BY <2>1 DEF Journals, HasTold, Told, LoggersOf
  <2>3. QED
    BY <2>1, <2>2 DEF Journals, Introduced, Told, NewBeforeSamples
<1>24. ASSUME NEW t \in Threads, ListenerRaises(t) PROVE Journals'
  BY <1>24 DEF ListenerRaises, Called, publisherVars, consumerVars,
        historyVars, TypeOK, Frames, Frame, Journals, HasTold, Introduced,
        Told, NewBeforeSamples, LoggersOf
<1>25. ASSUME NEW t \in Threads, CallsEnd(t) PROVE Journals'
  BY <1>25 DEF CallsEnd, Return, publisherVars, consumerVars, historyVars,
        TypeOK, Frames, Frame, Journals, HasTold, Introduced, Told,
        NewBeforeSamples, LoggersOf
<1>26. ASSUME NEW p \in Plain, NEW n \in Names, Subscribe(p, n) PROVE Journals'
  BY <1>26 DEF Subscribe, AddListener, consumerVars, historyVars, threadVars,
        TypeOK, Frames, Frame, Journals, HasTold, Introduced, Told,
        NewBeforeSamples, LoggersOf
<1>27. ASSUME NEW p \in Plain, NEW n \in Names, Unsubscribe(p, n) PROVE Journals'
  BY <1>27 DEF Unsubscribe, RemoveListener, Forget, consumerVars, threadVars,
        TypeOK, Frames, Frame, Journals, HasTold, Introduced, Told,
        NewBeforeSamples, LoggersOf
<1>28. ASSUME NEW p \in Plain, SubscribeToAll(p) PROVE Journals'
  BY <1>28 DEF SubscribeToAll, Exists, consumerVars, historyVars, threadVars,
        TypeOK, Frames, Frame, Journals, HasTold, Introduced, Told,
        NewBeforeSamples, LoggersOf
<1>29. ASSUME NEW p \in Plain, UnsubscribeFromAll(p) PROVE Journals'
  BY <1>29 DEF UnsubscribeFromAll, Forget, consumerVars, threadVars, TypeOK,
        Frames, Frame, Journals, HasTold, Introduced, Told, NewBeforeSamples,
        LoggersOf
<1>30. ASSUME NEW c \in Followers \cup Wild, Follow(c) PROVE Journals'
  BY <1>30 DEF Follow, historyVars, threadVars, sharedVars, TypeOK, Frames,
        Frame, Journals, HasTold, Introduced, Told, NewBeforeSamples,
        LoggersOf
<1>31. ASSUME NEW c \in Followers \cup Wild, WildSubscribe(c) PROVE Journals'
  BY <1>31 DEF WildSubscribe, publisherVars, consumerVars, historyVars,
        threadVars, sharedVars, TypeOK, Frames, Frame, Journals, HasTold,
        Introduced, Told, NewBeforeSamples, LoggersOf
<1>32. ASSUME NEW c \in Followers \cup Wild, ListChannels(c) PROVE Journals'
  BY <1>32 DEF ListChannels, Exists, publisherVars, consumerVars, historyVars,
        threadVars, sharedVars, TypeOK, Frames, Frame, Journals, HasTold,
        Introduced, Told, NewBeforeSamples, LoggersOf
<1>33. ASSUME NEW c \in Followers \cup Wild, WalkSubscribe(c) PROVE Journals'
  BY <1>33 DEF WalkSubscribe, AddListener, historyVars, threadVars,
        sharedVars, TypeOK, Frames, Frame, Journals, HasTold, Introduced,
        Told, NewBeforeSamples, LoggersOf
<1>34. ASSUME NEW c \in Followers \cup Wild, FollowEnds(c) PROVE Journals'
  BY <1>34 DEF FollowEnds, publisherVars, consumerVars, historyVars,
        threadVars, sharedVars, TypeOK, Frames, Frame, Journals, HasTold,
        Introduced, Told, NewBeforeSamples, LoggersOf
<1>35. ASSUME NEW c \in Followers \cup Wild, WildSubscribeEnds(c) PROVE Journals'
  BY <1>35 DEF WildSubscribeEnds, historyVars, threadVars, sharedVars, TypeOK,
        Frames, Frame, Journals, HasTold, Introduced, Told, NewBeforeSamples,
        LoggersOf
<1>36. ASSUME NEW c \in Followers \cup Wild, WildUnsubscribe(c) PROVE Journals'
  BY <1>36 DEF WildUnsubscribe, Exists, publisherVars, consumerVars,
        historyVars, threadVars, sharedVars, TypeOK, Frames, Frame, Journals,
        HasTold, Introduced, Told, NewBeforeSamples, LoggersOf
<1>37. ASSUME NEW c \in Followers \cup Wild, WalkUnsubscribe(c) PROVE Journals'
  BY <1>37 DEF WalkUnsubscribe, RemoveListener, Forget, threadVars,
        sharedVars, TypeOK, Frames, Frame, Journals, HasTold, Introduced,
        Told, NewBeforeSamples, LoggersOf
<1>38. ASSUME NEW c \in Followers \cup Wild, WildUnsubscribeEnds(c) PROVE Journals'
  BY <1>38 DEF WildUnsubscribeEnds, historyVars, threadVars, sharedVars,
        TypeOK, Frames, Frame, Journals, HasTold, Introduced, Told,
        NewBeforeSamples, LoggersOf
<1>39. CASE UNCHANGED vars
  BY <1>39 DEF vars, publisherVars, consumerVars, historyVars, TypeOK, Frames,
        Frame, Journals, HasTold, Introduced, Told, NewBeforeSamples,
        LoggersOf
<1>40. QED
  BY <1>1, <1>2, <1>3, <1>4, <1>5, <1>6, <1>7, <1>8, <1>9, <1>10, <1>11,
        <1>12, <1>13, <1>14, <1>15, <1>16, <1>17, <1>18, <1>19, <1>20, <1>21,
        <1>22, <1>23, <1>24, <1>25, <1>26, <1>27, <1>28, <1>29, <1>30, <1>31,
        <1>32, <1>33, <1>34, <1>35, <1>36, <1>37, <1>38, <1>39
     DEF Next, ThreadStep, AddStep, RemoveStep, SetStep, PlainStep,
           FollowStep, WildStep

-----------------------------------------------------------------------------
\* IInv is an inductive invariant.
LEMMA Inductive == Spec => []IInv
<1>1. IInv /\ [Next]_vars => IInv'
  BY TypeStep, FrameStep, OwingStep, JournalsStep DEF IInv
<1>2. QED
  BY InitIInv, <1>1, PTL DEF Spec

\* The variables keep their types, for every set of threads, channel names,
\* objects, consumers and loggers.
THEOREM TypeCorrect == Spec => []TypeOK
<1>1. IInv => TypeOK
  BY DEF IInv
<1>2. QED
  BY Inductive, <1>1, PTL

\* A callback owed a sample, and neither too early nor cut off, has a thread
\* on its way to call it (channel_publisher.py, __notify).
THEOREM NoSampleLost == Spec => []NoLostSample
<1>1. IInv => NoLostSample
  <2> SUFFICES ASSUME TypeOK, Owing, NEW p \in owed \ (early \cup cut)
               PROVE  Notifying(p[2])
    BY DEF IInv, NoLostSample
  <2>1. PICK cb \in Callbacks, o \in Objects : p = <<cb, o>>
    <3>1. p \in Callbacks \X Objects
      BY DEF TypeOK
    <3>2. QED
      BY <3>1
  <2>2. PICK t \in Threads : WillCall(t, cb, o)
    BY <2>1 DEF Owing, Pair, Excused
  <2>3. QED
    BY <2>1, <2>2 DEF WillCall, Notifying, SetStages
<1>2. QED
  BY Inductive, <1>1, PTL

\* No logger is given a sample of a channel before it was told of the channel
\* (channel_publisher.py, new_channel).
THEOREM LoggersHearInOrder == Spec => []NewBeforeSamples
<1>1. IInv => NewBeforeSamples
  BY DEF IInv, Journals
<1>2. QED
  BY Inductive, <1>1, PTL

-----------------------------------------------------------------------------
(* What a thread's step does to the others, and the consumers' to threads. *)

Begins(t) ==
    \E n \in Names : AddChannel(t, n) \/ RemoveChannel(t, n) \/ GetChannel(t, n)

Consumes ==
    \/ \E p \in Plain : PlainStep(p)
    \/ \E f \in Followers : Follow(f) \/ FollowStep(f)
    \/ \E w \in Wild : WildSubscribe(w) \/ WildUnsubscribe(w) \/ WildStep(w)

LEMMA NextIs ==
    Next <=> (\E t \in Threads : Begins(t) \/ ThreadStep(t)) \/ Consumes
  BY DEF Next, Begins, Consumes

\* A step that leaves the others where they are.
Alone(t) ==
    \A u \in Threads : u # t => /\ pc'[u] = pc[u] /\ obj'[u] = obj[u]
                                /\ name'[u] = name[u] /\ todo'[u] = todo[u]

LEMMA GoToAlone ==
    ASSUME TypeOK, NEW t \in Threads, NEW where,
           GoTo(t, where) \/ UNCHANGED pc,
           \/ UNCHANGED obj
           \/ \E o : obj' = [obj EXCEPT ![t] = o],
           \/ UNCHANGED name
           \/ \E n : name' = [name EXCEPT ![t] = n],
           \/ UNCHANGED todo
           \/ \E s : todo' = [todo EXCEPT ![t] = s]
    PROVE  Alone(t)
  BY DEF Alone, GoTo, TypeOK

LEMMA ReturnAlone ==
    ASSUME TypeOK, NEW t \in Threads, Return(t)
    PROVE  Alone(t)
  BY DEF Alone, Return, TypeOK

LEMMA ThreadAlone ==
    ASSUME TypeOK, NEW t \in Threads, Begins(t) \/ ThreadStep(t)
    PROVE  Alone(t)
<1>1. CASE Begins(t)
  BY <1>1, GoToAlone DEF Begins, AddChannel, RemoveChannel, GetChannel
<1>2. CASE \/ Insert(t) \/ CopyNewListeners(t) \/ NewCallsEnd(t)
           \/ NewLogEnds(t) \/ RemoveLogEnds(t) \/ StoreSample(t)
           \/ OnNewSample(t) \/ LogEnds(t) \/ CopySet(t)
  BY <1>2, GoToAlone DEF Insert, CopyNewListeners, NewCallsEnd, NewLogEnds,
     RemoveLogEnds, StoreSample, OnNewSample, LogEnds, CopySet
<1>3. CASE \/ Attach(t) \/ Delete(t) \/ RefuseSample(t)
           \/ OnNewSampleUnheard(t) \/ CallsEnd(t)
  BY <1>3, ReturnAlone DEF Attach, Delete, RefuseSample, OnNewSampleUnheard,
     CallsEnd
<1>4. CASE \/ CallNewListener(t) \/ NewListenerRaises(t) \/ CallListener(t)
           \/ ListenerRaises(t)
  BY <1>4, GoToAlone DEF CallNewListener, NewListenerRaises, CallListener,
     ListenerRaises
<1>5. CASE LogNewChannel(t) \/ LogRemoveChannel(t) \/ LogNewSample(t)
  BY <1>5, GoToAlone DEF LogNewChannel, LogRemoveChannel, LogNewSample,
     LogEvent
<1>6. CASE CopyDict(t)
  BY <1>6, GoToAlone, ReturnAlone DEF CopyDict
<1>7. QED
  BY <1>1, <1>2, <1>3, <1>4, <1>5, <1>6
  DEF ThreadStep, AddStep, RemoveStep, SetStep

LEMMA ConsumersAlone ==
    ASSUME Consumes
    PROVE  UNCHANGED <<database, nameOf, attached, threadVars>>
<1>1. ASSUME NEW p \in Plain, PlainStep(p)
      PROVE  UNCHANGED <<database, nameOf, attached, threadVars>>
  BY <1>1 DEF PlainStep, Subscribe, Unsubscribe, SubscribeToAll,
     UnsubscribeFromAll
<1>2. ASSUME NEW f, Follow(f) \/ FollowStep(f)
      PROVE  UNCHANGED <<database, nameOf, attached, threadVars>>
  BY <1>2 DEF Follow, FollowStep, ListChannels, WalkSubscribe, FollowEnds,
     sharedVars
<1>3. ASSUME NEW w, WildSubscribe(w) \/ WildUnsubscribe(w) \/ WildStep(w)
      PROVE  UNCHANGED <<database, nameOf, attached, threadVars>>
  BY <1>3 DEF WildSubscribe, WildUnsubscribe, WildStep, ListChannels,
     WalkSubscribe, WildSubscribeEnds, WalkUnsubscribe, WildUnsubscribeEnds,
     sharedVars
<1>4. QED
  BY <1>1, <1>2, <1>3 DEF Consumes

\* The database and the attached objects, whatever a thread does that does
\* not insert a channel.
LEMMA DatabaseKept ==
    ASSUME TypeOK, NEW t \in Threads, Begins(t) \/ ThreadStep(t), ~Insert(t)
    PROVE  /\ attached \subseteq attached'
           /\ \A n \in Names : \/ database'[n] = database[n]
                               \/ database'[n] = NoObject
<1>1. CASE Begins(t)
  BY <1>1 DEF Begins, AddChannel, RemoveChannel, GetChannel
<1>2. CASE AddStep(t)
  BY <1>2 DEF AddStep, CopyNewListeners, CallNewListener, NewListenerRaises,
     NewCallsEnd, LogNewChannel, NewLogEnds, Attach
<1>3. CASE RemoveStep(t)
  BY <1>3 DEF RemoveStep, LogRemoveChannel, RemoveLogEnds, Delete, TypeOK
<1>4. CASE SetStep(t)
  BY <1>4 DEF SetStep, RefuseSample, StoreSample, OnNewSample,
     OnNewSampleUnheard, LogNewSample, LogEnds, CopyDict, CopySet,
     CallListener, ListenerRaises, CallsEnd
<1>5. QED
  BY <1>1, <1>2, <1>3, <1>4 DEF ThreadStep

-----------------------------------------------------------------------------
(* Every channel in the database is connected, or about to be.             *)

Announcing(t) == pc[t] \in AddStages \ {"insert"}

Connected ==
    \A n \in Names : Exists(n) =>
       \/ database[n] \in attached
       \/ \E t \in Threads : /\ Announcing(t)
                             /\ name[t] = n /\ obj[t] = database[n]

LEMMA AnnouncingKept ==
    ASSUME TypeOK, NEW t \in Threads, Begins(t) \/ ThreadStep(t),
           Announcing(t)
    PROVE  \/ Announcing(t)' /\ obj'[t] = obj[t] /\ name'[t] = name[t]
           \/ obj[t] \in attached'
<1>1. pc[t] \in {"announce", "new calls", "new log", "attach"}
  BY DEF Announcing, AddStages
<1>2. ~Begins(t)
  BY <1>1 DEF Begins, AddChannel, RemoveChannel, GetChannel
<1>3. ~RemoveStep(t)
  BY <1>1 DEF RemoveStep, LogRemoveChannel, RemoveLogEnds, Delete
<1>4. ~SetStep(t)
  BY <1>1 DEF SetStep, RefuseSample, StoreSample, OnNewSample,
     OnNewSampleUnheard, LogNewSample, LogEnds, CopyDict, CopySet,
     CallListener, ListenerRaises, CallsEnd
<1>5. AddStep(t) /\ ~Insert(t)
  BY <1>1, <1>2, <1>3, <1>4 DEF ThreadStep, Insert
<1>6. CASE Attach(t)
  BY <1>6 DEF Attach
<1>7. CASE CopyNewListeners(t) \/ NewCallsEnd(t) \/ NewLogEnds(t)
  BY <1>7 DEF CopyNewListeners, NewCallsEnd, NewLogEnds, GoTo, Announcing,
     AddStages, TypeOK
<1>8. CASE CallNewListener(t) \/ NewListenerRaises(t) \/ LogNewChannel(t)
  BY <1>1, <1>8 DEF CallNewListener, NewListenerRaises, LogNewChannel,
     Announcing, AddStages
<1>9. QED
  BY <1>5, <1>6, <1>7, <1>8 DEF AddStep

LEMMA ConnectedStep == IInv /\ Connected /\ [Next]_vars => Connected'
<1> SUFFICES ASSUME TypeOK, Connected, [Next]_vars PROVE Connected'
  BY DEF IInv
<1>1. CASE Consumes \/ UNCHANGED vars
  <2>1. UNCHANGED <<database, attached, pc, obj, name>>
    BY <1>1, ConsumersAlone DEF threadVars, vars
  <2>2. QED
    BY <2>1 DEF Connected, Exists, Announcing
<1>2. ASSUME NEW t \in Threads, Begins(t) \/ ThreadStep(t), ~Insert(t)
      PROVE  Connected'
  <2>1. Alone(t)
    BY <1>2, ThreadAlone
  <2>2. attached \subseteq attached'
    BY <1>2, DatabaseKept
  <2>3. ASSUME NEW n \in Names, Exists(n)'
        PROVE  \/ database'[n] \in attached'
               \/ \E u \in Threads : /\ Announcing(u)'
                                     /\ name'[u] = n /\ obj'[u] = database'[n]
    <3>1. Exists(n) /\ database'[n] = database[n]
      BY <1>2, <2>3, DatabaseKept DEF Exists
    <3>2. CASE database[n] \in attached
      BY <2>2, <3>1, <3>2
    <3>3. ASSUME NEW u \in Threads, Announcing(u), name[u] = n,
                 obj[u] = database[n]
          PROVE  \/ database'[n] \in attached'
                 \/ /\ Announcing(u)'
                    /\ name'[u] = n /\ obj'[u] = database'[n]
      <4>1. CASE u = t
        BY <1>2, <3>1, <3>3, <4>1, AnnouncingKept
      <4>2. CASE u # t
        BY <2>1, <3>1, <3>3, <4>2 DEF Alone, Announcing
      <4>3. QED
        BY <4>1, <4>2
    <3>4. QED
      BY <3>1, <3>2, <3>3 DEF Connected
  <2>4. QED
    BY <2>3 DEF Connected
<1>3. ASSUME NEW t \in Threads, Insert(t)
      PROVE  Connected'
  <2>1. PICK o \in Objects :
           /\ Unreferenced(o)
           /\ database' = [database EXCEPT ![name[t]] = o]
           /\ attached' = attached \ {o}
           /\ obj' = [obj EXCEPT ![t] = o]
    BY <1>3 DEF Insert
  <2>2. /\ pc[t] = "insert" /\ pc'[t] = "announce" /\ name' = name
        /\ Alone(t)
    BY <1>3, ThreadAlone DEF Insert, GoTo, TypeOK, ThreadStep, AddStep
  <2>3. ASSUME NEW n \in Names, Exists(n)'
        PROVE  \/ database'[n] \in attached'
               \/ \E u \in Threads : /\ Announcing(u)'
                                     /\ name'[u] = n /\ obj'[u] = database'[n]
    <3>1. CASE n = name[t]
      <4>1. database'[n] = o /\ obj'[t] = o
        BY <2>1, <3>1 DEF TypeOK
      <4>2. QED
        BY <2>2, <3>1, <4>1 DEF Announcing, AddStages
    <3>2. CASE n # name[t]
      <4>1. database'[n] = database[n] /\ database[n] # o /\ Exists(n)
        BY <2>1, <2>3, <3>2 DEF TypeOK, Unreferenced, Exists
      <4>2. CASE database[n] \in attached
        BY <2>1, <4>1, <4>2
      <4>3. ASSUME NEW u \in Threads, Announcing(u), name[u] = n,
                   obj[u] = database[n]
            PROVE  /\ Announcing(u)'
                   /\ name'[u] = n /\ obj'[u] = database'[n]
        BY <2>2, <4>1, <4>3 DEF Alone, Announcing, AddStages
      <4>4. QED
        BY <4>1, <4>2, <4>3 DEF Connected
    <3>3. QED
      BY <3>1, <3>2
  <2>4. QED
    BY <2>3 DEF Connected
<1>4. QED
  BY <1>1, <1>2, <1>3, NextIs

-----------------------------------------------------------------------------
(* What a follower has, or is about to be told of.                         *)

WillTell(t, f, n) ==
    /\ name[t] = n
    /\ \/ pc[t] = "announce"
       \/ pc[t] = "new calls" /\ f \in todo[t]

Covered(f, n) ==
    \/ f \in listeners[n]
    \/ <<f, n>> \in deaf
    \/ n \in walk[f]
    \/ \E t \in Threads : WillTell(t, f, n)

Following ==
    \A f \in Followers :
       /\ stage[f] # "off" => f \in new_listeners
       /\ stage[f] = "on" => walk[f] = {}
       /\ stage[f] # "walk off"
       /\ stage[f] \in {"walk", "on"} =>
             \A n \in Names : Exists(n) => Covered(f, n)

\* A follower keeps what it has.
Keeps(f) ==
    /\ deaf \subseteq deaf'
    /\ f \in new_listeners => f \in new_listeners'
    /\ \A n \in Names : f \in listeners[n] => f \in listeners'[n]

LEMMA AddedKept ==
    ASSUME TypeOK, NEW cb, NEW m \in Names, AddListener(cb, m)
    PROVE  /\ cb \in listeners'[m]
           /\ \A n \in Names : listeners[n] \subseteq listeners'[n]
  BY DEF AddListener, TypeOK

LEMMA FollowerKeeps ==
    ASSUME TypeOK, Frames, [Next]_vars, NEW f \in Followers
    PROVE  Keeps(f)
<1>1. ASSUME NEW t \in Threads, Begins(t) \/ RemoveStep(t)
      PROVE  Keeps(f)
  BY <1>1 DEF Begins, AddChannel, RemoveChannel, GetChannel, RemoveStep,
     LogRemoveChannel, RemoveLogEnds, Delete, Keeps, publisherVars,
     historyVars
<1>2. ASSUME NEW t \in Threads, SetStep(t)
      PROVE  Keeps(f)
  BY <1>2 DEF SetStep, RefuseSample, StoreSample, OnNewSample,
     OnNewSampleUnheard, LogNewSample, LogEnds, CopyDict, CopySet,
     CallListener, ListenerRaises, CallsEnd, Keeps, publisherVars, historyVars
<1>3. ASSUME NEW t \in Threads, CallNewListener(t)
      PROVE  Keeps(f)
  <2>1. /\ \E c \in todo[t] : AddListener(c, name[t])
        /\ UNCHANGED <<deaf, new_listeners>>
    BY <1>3 DEF CallNewListener, historyVars
  <2>2. name[t] \in Names
    BY <1>3 DEF CallNewListener, Frames, Frame
  <2>3. QED
    BY <2>1, <2>2, AddedKept DEF Keeps
<1>4. ASSUME NEW t \in Threads, AddStep(t), ~CallNewListener(t)
      PROVE  Keeps(f)
  BY <1>4 DEF AddStep, Insert, CopyNewListeners, NewListenerRaises,
     NewCallsEnd, LogNewChannel, NewLogEnds, Attach, Keeps, publisherVars,
     historyVars
<1>5. ASSUME NEW p \in Plain, PlainStep(p)
      PROVE  Keeps(f)
  <2>1. p # f /\ UNCHANGED <<deaf, new_listeners>>
    BY <1>5, ChannelsAssumption DEF PlainStep, Subscribe, Unsubscribe,
       SubscribeToAll, UnsubscribeFromAll, historyVars
  <2>2. ASSUME NEW n \in Names, Subscribe(p, n)
        PROVE  Keeps(f)
    BY <2>1, <2>2, AddedKept DEF Subscribe, Keeps
  <2>3. ASSUME NEW n \in Names, Unsubscribe(p, n)
        PROVE  Keeps(f)
    BY <2>1, <2>3 DEF Unsubscribe, RemoveListener, Keeps, TypeOK
  <2>4. CASE SubscribeToAll(p) \/ UnsubscribeFromAll(p)
    <3>1. ASSUME NEW n \in Names
          PROVE  listeners[n] \ {p} \subseteq listeners'[n]
      <4>1. CASE SubscribeToAll(p)
        BY <4>1 DEF SubscribeToAll
      <4>2. CASE UnsubscribeFromAll(p)
        BY <4>2 DEF UnsubscribeFromAll
      <4>3. QED
        BY <2>4, <4>1, <4>2
    <3>2. QED
      BY <2>1, <3>1 DEF Keeps
  <2>5. QED
    BY <1>5, <2>2, <2>3, <2>4 DEF PlainStep
<1>6. ASSUME NEW c, WalkSubscribe(c)
      PROVE  Keeps(f)
  <2>1. /\ \E n \in walk[c] : AddListener(c, n)
        /\ UNCHANGED <<deaf, new_listeners>>
    BY <1>6 DEF WalkSubscribe, historyVars
  <2>2. \/ c \in Followers \cup Wild
        \/ c \notin Followers \cup Wild
    OBVIOUS
  <2>3. PICK n \in walk[c] : AddListener(c, n)
    BY <2>1
  <2>4. \A i \in Names : listeners[i] \subseteq listeners'[i]
    BY <2>3 DEF AddListener, TypeOK
  <2>5. QED
    BY <2>1, <2>4 DEF Keeps
<1>7. ASSUME NEW g \in Followers, Follow(g) \/ ListChannels(g) \/ FollowEnds(g)
      PROVE  Keeps(f)
  BY <1>7 DEF Follow, ListChannels, FollowEnds, Keeps, publisherVars,
     historyVars
<1>8. ASSUME NEW w \in Wild,
             \/ WildSubscribe(w) \/ WildUnsubscribe(w) \/ ListChannels(w)
             \/ WildSubscribeEnds(w) \/ WildUnsubscribeEnds(w)
      PROVE  Keeps(f)
  <2>1. w # f
    BY ChannelsAssumption
  <2>2. QED
    BY <1>8, <2>1 DEF WildSubscribe, WildUnsubscribe, ListChannels,
       WildSubscribeEnds, WildUnsubscribeEnds, Keeps, publisherVars,
       historyVars
<1>9. ASSUME NEW w \in Wild, WalkUnsubscribe(w)
      PROVE  Keeps(f)
  <2>1. w # f /\ UNCHANGED <<deaf, new_listeners>>
    BY <1>9, ChannelsAssumption DEF WalkUnsubscribe
  <2>2. \E n : \/ listeners' = [listeners EXCEPT ![n] = @ \ {w}]
               \/ UNCHANGED listeners
    BY <1>9 DEF WalkUnsubscribe, RemoveListener
  <2>3. \A i \in Names : listeners[i] \ {w} \subseteq listeners'[i]
    BY <2>2 DEF TypeOK
  <2>4. QED
    BY <2>1, <2>3 DEF Keeps
<1>10. CASE UNCHANGED vars
  BY <1>10 DEF vars, publisherVars, historyVars, Keeps
<1>11. CASE Consumes
  BY <1>11, <1>5, <1>6, <1>7, <1>8, <1>9
  DEF Consumes, FollowStep, WildStep
<1>12. QED
  BY <1>1, <1>2, <1>3, <1>4, <1>10, <1>11, NextIs DEF ThreadStep

LEMMA WillTellKept ==
    ASSUME TypeOK, Frames, NEW t \in Threads, Begins(t) \/ ThreadStep(t),
           NEW f \in Followers, f \in new_listeners, NEW n \in Names,
           WillTell(t, f, n)
    PROVE  \/ WillTell(t, f, n)'
           \/ f \in listeners'[n]
           \/ <<f, n>> \in deaf'
<1>1. pc[t] \in {"announce", "new calls"} /\ name[t] = n
  BY DEF WillTell
<1>2. ~Begins(t) /\ ~RemoveStep(t)
  BY <1>1 DEF Begins, AddChannel, RemoveChannel, GetChannel, RemoveStep,
     LogRemoveChannel, RemoveLogEnds, Delete
<1>3. ~SetStep(t)
  BY <1>1 DEF SetStep, RefuseSample, StoreSample, OnNewSample,
     OnNewSampleUnheard, LogNewSample, LogEnds, CopyDict, CopySet,
     CallListener, ListenerRaises, CallsEnd
<1>4. \/ CopyNewListeners(t) \/ CallNewListener(t) \/ NewListenerRaises(t)
      \/ NewCallsEnd(t)
  BY <1>1, <1>2, <1>3 DEF ThreadStep, AddStep, Insert, LogNewChannel,
     NewLogEnds, Attach
<1>5. CASE CopyNewListeners(t)
  BY <1>1, <1>5 DEF CopyNewListeners, GoTo, WillTell, TypeOK
<1>6. CASE CallNewListener(t)
  <2>1. PICK c \in todo[t] : /\ AddListener(c, n)
                             /\ todo' = [todo EXCEPT ![t] = @ \ {c}]
    BY <1>1, <1>6 DEF CallNewListener
  <2>2. UNCHANGED <<pc, name>> /\ f \in todo[t] /\ pc[t] = "new calls"
    BY <1>6 DEF CallNewListener, WillTell
  <2>3. CASE c = f
    BY <2>1, <2>3, AddedKept
  <2>4. CASE c # f
    BY <1>1, <2>1, <2>2, <2>4 DEF WillTell, TypeOK
  <2>5. QED
    BY <2>3, <2>4
<1>7. CASE NewListenerRaises(t)
  BY <1>1, <1>7 DEF NewListenerRaises, WillTell
<1>8. CASE NewCallsEnd(t)
  BY <1>8 DEF NewCallsEnd, WillTell
<1>9. QED
  BY <1>4, <1>5, <1>6, <1>7, <1>8

LEMMA ThreadsLeaveWalks ==
    ASSUME NEW t \in Threads, Begins(t) \/ ThreadStep(t)
    PROVE  UNCHANGED consumerVars
<1>1. CASE Begins(t) \/ RemoveStep(t)
  BY <1>1 DEF Begins, AddChannel, RemoveChannel, GetChannel, RemoveStep,
     LogRemoveChannel, RemoveLogEnds, Delete
<1>2. CASE SetStep(t)
  BY <1>2 DEF SetStep, RefuseSample, StoreSample, OnNewSample,
     OnNewSampleUnheard, LogNewSample, LogEnds, CopyDict, CopySet,
     CallListener, ListenerRaises, CallsEnd
<1>3. CASE AddStep(t)
  BY <1>3 DEF AddStep, Insert, CopyNewListeners, CallNewListener,
     NewListenerRaises, NewCallsEnd, LogNewChannel, NewLogEnds, Attach
<1>4. QED
  BY <1>1, <1>2, <1>3 DEF ThreadStep

\* A consumer's step moves no follower but itself.
LEMMA OtherWalks ==
    ASSUME TypeOK, Consumes, NEW f \in Followers,
           ~(Follow(f) \/ FollowStep(f))
    PROVE  stage'[f] = stage[f] /\ walk'[f] = walk[f]
<1>1. ASSUME NEW p \in Plain, PlainStep(p)
      PROVE  stage' = stage /\ walk' = walk
  BY <1>1 DEF PlainStep, Subscribe, Unsubscribe, SubscribeToAll,
     UnsubscribeFromAll, consumerVars
<1>2. ASSUME NEW g \in Followers, g # f, Follow(g) \/ FollowStep(g)
      PROVE  stage'[f] = stage[f] /\ walk'[f] = walk[f]
  BY <1>2 DEF Follow, FollowStep, ListChannels, WalkSubscribe, FollowEnds,
     TypeOK
<1>3. ASSUME NEW w \in Wild,
             WildSubscribe(w) \/ WildUnsubscribe(w) \/ WildStep(w)
      PROVE  stage'[f] = stage[f] /\ walk'[f] = walk[f]
  <2>1. w # f
    BY ChannelsAssumption
  <2>2. QED
    BY <1>3, <2>1 DEF WildSubscribe, WildUnsubscribe, WildStep, ListChannels,
       WalkSubscribe, WildSubscribeEnds, WalkUnsubscribe,
       WildUnsubscribeEnds, TypeOK
<1>4. QED
  BY <1>1, <1>2, <1>3 DEF Consumes

LEMMA CoveredKept ==
    ASSUME TypeOK, Frames, Next, NEW f \in Followers, f \in new_listeners,
           walk'[f] = walk[f], NEW n \in Names, Covered(f, n)
    PROVE  Covered(f, n)'
<1>1. Keeps(f)
  BY FollowerKeeps
<1>2. ASSUME NEW u \in Threads, WillTell(u, f, n)
      PROVE  Covered(f, n)'
  <2>1. CASE Consumes
    <3>1. UNCHANGED <<pc, name, todo>>
      BY <2>1, ConsumersAlone DEF threadVars
    <3>2. QED
      BY <1>2, <3>1 DEF WillTell, Covered
  <2>2. ASSUME NEW t \in Threads, Begins(t) \/ ThreadStep(t)
        PROVE  Covered(f, n)'
    <3>1. CASE u = t
      BY <1>2, <2>2, <3>1, WillTellKept DEF Covered
    <3>2. CASE u # t
      BY <1>2, <2>2, <3>2, ThreadAlone DEF Alone, WillTell, Covered
    <3>3. QED
      BY <3>1, <3>2
  <2>3. QED
    BY <2>1, <2>2, NextIs
<1>3. QED
  BY <1>1, <1>2 DEF Covered, Keeps

\* A follower that does not move stays covered.
LEMMA FollowingOthers ==
    ASSUME TypeOK, Frames, Following, Next, NEW f \in Followers,
           stage'[f] = stage[f], walk'[f] = walk[f]
    PROVE  /\ stage'[f] # "off" => f \in new_listeners'
           /\ stage'[f] = "on" => walk'[f] = {}
           /\ stage'[f] # "walk off"
           /\ stage'[f] \in {"walk", "on"} =>
                 \A n \in Names : Exists(n)' => Covered(f, n)'
<1>1. Keeps(f)
  BY FollowerKeeps
<1>2. ASSUME stage[f] \in {"walk", "on"}, NEW n \in Names, Exists(n)'
      PROVE  Covered(f, n)'
  <2>1. f \in new_listeners
    BY <1>2 DEF Following
  <2>2. CASE Exists(n)
    BY <1>2, <2>1, <2>2, CoveredKept DEF Following
  <2>3. CASE ~Exists(n)
    <3>1. ~Consumes
      BY <1>2, <2>3, ConsumersAlone DEF Exists
    <3>2. PICK t \in Threads : Begins(t) \/ ThreadStep(t)
      BY <3>1, NextIs
    <3>3. Insert(t)
      BY <1>2, <2>3, <3>2, DatabaseKept DEF Exists
    <3>4. n = name[t]
      BY <1>2, <2>3, <3>3 DEF Insert, Exists, TypeOK
    <3>5. WillTell(t, f, n)'
      BY <3>3, <3>4 DEF Insert, GoTo, WillTell, TypeOK
    <3>6. QED
      BY <3>5 DEF Covered
  <2>4. QED
    BY <2>2, <2>3
<1>3. QED
  BY <1>1, <1>2 DEF Following, Keeps

LEMMA FollowingStep == IInv /\ Following /\ [Next]_vars => Following'
<1> SUFFICES ASSUME TypeOK, Frames, Following, [Next]_vars
             PROVE  Following'
  BY DEF IInv
<1>1. CASE UNCHANGED vars
  <2>1. UNCHANGED <<database, listeners, new_listeners, pc, name, todo, stage,
                    walk, deaf>>
    BY <1>1 DEF vars, publisherVars, consumerVars, historyVars
  <2>2. \A f \in Followers, n \in Names : Covered(f, n)' <=> Covered(f, n)
    BY <2>1 DEF Covered, WillTell
  <2>3. QED
    BY <2>1, <2>2 DEF Following, Exists
<1>2. ASSUME Next, NEW f \in Followers
      PROVE  /\ stage'[f] # "off" => f \in new_listeners'
             /\ stage'[f] = "on" => walk'[f] = {}
             /\ stage'[f] # "walk off"
             /\ stage'[f] \in {"walk", "on"} =>
                   \A n \in Names : Exists(n)' => Covered(f, n)'
  <2>1. CASE Follow(f)
    BY <2>1 DEF Follow, TypeOK
  <2>2. CASE ListChannels(f)
    <3>1. /\ stage[f] = "list" /\ stage'[f] = "walk"
          /\ walk'[f] = {n \in Names : Exists(n)}
          /\ UNCHANGED <<database, new_listeners>>
      BY <2>2 DEF ListChannels, sharedVars, publisherVars, TypeOK
    <3>2. QED
      BY <3>1 DEF Following, Covered, Exists
  <2>3. CASE WalkSubscribe(f)
    <3>1. /\ stage[f] = "walk" /\ stage' = stage
          /\ UNCHANGED <<database, deaf, new_listeners, threadVars>>
      BY <2>3 DEF WalkSubscribe, sharedVars, historyVars
    <3>2. PICK m \in walk[f] : /\ AddListener(f, m)
                               /\ walk' = [walk EXCEPT ![f] = @ \ {m}]
      BY <2>3 DEF WalkSubscribe
    <3>3. walk[f] \subseteq Names /\ walk'[f] = walk[f] \ {m}
      BY <3>2 DEF TypeOK
    <3>4. /\ f \in listeners'[m]
          /\ \A n \in Names : listeners[n] \subseteq listeners'[n]
      BY <3>2, <3>3, AddedKept
    <3>5. ASSUME NEW n \in Names, Exists(n)
          PROVE  Covered(f, n)'
      <4>1. Covered(f, n)
        BY <3>1, <3>5 DEF Following
      <4>2. \A t \in Threads : WillTell(t, f, n) => WillTell(t, f, n)'
        BY <3>1 DEF WillTell, threadVars
      <4>3. QED
        BY <3>1, <3>3, <3>4, <4>1, <4>2 DEF Covered
    <3>6. QED
      BY <3>1, <3>5 DEF Following, Exists
  <2>4. CASE FollowEnds(f)
    <3>1. /\ stage[f] = "walk" /\ stage'[f] = "on" /\ walk' = walk
          /\ walk[f] = {} /\ UNCHANGED <<database, new_listeners>>
      BY <2>4 DEF FollowEnds, sharedVars, publisherVars, TypeOK
    <3>2. \A n \in Names : Exists(n)' => Covered(f, n)'
      <4>1. ASSUME NEW n \in Names, Exists(n)'
            PROVE  Covered(f, n)'
        <5>1. Exists(n) /\ f \in new_listeners
          BY <3>1, <4>1 DEF Exists, Following
        <5>2. Covered(f, n)
          BY <3>1, <5>1 DEF Following
        <5>3. QED
          BY <1>2, <3>1, <5>1, <5>2, CoveredKept
      <4>2. QED
        BY <4>1
    <3>3. QED
      BY <3>1, <3>2 DEF Following
  <2>5. CASE ~(Follow(f) \/ FollowStep(f))
    <3>1. stage'[f] = stage[f] /\ walk'[f] = walk[f]
      BY <1>2, <2>5, ThreadsLeaveWalks, OtherWalks, NextIs DEF consumerVars
    <3>2. QED
      BY <1>2, <3>1, FollowingOthers
  <2>6. QED
    BY <2>1, <2>2, <2>3, <2>4, <2>5 DEF FollowStep
<1>3. QED
  BY <1>1, <1>2 DEF Following

LEMMA ConnectedAtFirst == Init => Connected /\ Following
  BY DEF Init, Connected, Following, Exists

\* Connected and Following are invariants.
LEMMA Reaching == Spec => [](Connected /\ Following)
<1>1. /\ IInv /\ Connected /\ Following /\ [Next]_vars
      => Connected' /\ Following'
  BY ConnectedStep, FollowingStep
<1>2. QED
  BY ConnectedAtFirst, <1>1, Inductive, PTL DEF Spec

\* When no call of channel_add is under way for a name, the channel in the
\* database is connected to the publisher, also if several threads added it
\* at once and whatever the callbacks told of it did
\* (channel_publisher.py, new_channel; channel_database.py, channel_add).
THEOREM ConnectedOnceAdded == Spec => []PublishedOnceAdded
<1>1. Connected => PublishedOnceAdded
  BY DEF Connected, PublishedOnceAdded, Announcing, Exists
<1>2. QED
  BY Reaching, <1>1, PTL

\* An upload, which subscribes to new channels before it walks the list of
\* those that exist, has every channel that has been announced, unless its
\* callback or one before it raised (edp_upload.py, start and _subscribe;
\* channel_publisher.py, __notify_new_channel).
THEOREM FollowersHaveAll == Spec => []FollowersMissNothing
<1>1. Following => FollowersMissNothing
  <2> SUFFICES ASSUME Following, NEW f \in Followers, NEW n \in Names,
                      stage[f] = "on", Exists(n), <<f, n>> \notin deaf,
                      \A t \in Threads :
                         name[t] = n => pc[t] \notin AddStages
               PROVE  f \in listeners[n]
    BY DEF FollowersMissNothing
  <2>1. Covered(f, n) /\ walk[f] = {}
    BY DEF Following
  <2>2. \A t \in Threads : ~WillTell(t, f, n)
    BY DEF WillTell, AddStages
  <2>3. QED
    BY <2>1, <2>2 DEF Covered
<1>2. QED
  BY Reaching, <1>1, PTL
=============================================================================
