--------------------------- MODULE LifecycleProofs --------------------------
(***************************************************************************)
(* Theorems about Lifecycle, for any managers, any lists of instances, any *)
(* number of presentations that apply settings and any devices there are   *)
(* to discover.                                                            *)
(*                                                                         *)
(* IInv is the types, where each thread can be, and that what a walk is    *)
(* creating is the entry of the list it is at.  Origins says where names   *)
(* come from: nothing is there for a manager that is not registered, lists *)
(* only grow, and what the auto enumeration creates it has appended to a   *)
(* list.  On these stand the two results: Accounted and Listing follow an  *)
(* instance through _shutdown, Booted follows the walk of epoch.           *)
(*                                                                         *)
(* A step of a caller is summed up once (Moves, Carries: what it does to   *)
(* the calls, the map and the threads; Settles: what it does to the        *)
(* objects to be stopped), so that no invariant is proved of each action.  *)
(***************************************************************************)
EXTENDS Lifecycle, TLAPS

\* The steps of instance_new that have an object in hand, and all of them.
InHand   == {"opening", "adding", "storing"}
Creating == {"checking", "building", "starting"} \cup InHand

Where == {"idle", "walking", "looking", "failed", "removing"} \cup Creating

\* The calls of _reenumerate_services, instance_new and __add_new_device.
CallKinds ==
    /\ at \in [Callers -> Where]
    /\ manager \in [Walkers -> Managers]
    /\ done \in [Walkers -> Nat]
    /\ name \in [Callers -> Names]
    /\ copy \in [Callers -> 0..MaxCopies]

MapKinds ==
    /\ listed \in [Managers -> Seq(Names)]
    /\ instance \in [Names -> 0..MaxCopies]
    /\ thread \in [Objects -> {"none", "running", "ended"}]
    /\ asked \in SUBSET Objects
    /\ channels \in SUBSET Sources
    /\ lock \in Appliers \cup {Nobody}
    /\ purgatory \in SUBSET Range(Address)
    /\ late \in SUBSET Objects

MainKinds ==
    /\ main \in Stopping \cup {"booting", "spinning", "escaped"}
    /\ up \in 0..Len(Boot)
    /\ requested \in BOOLEAN
    /\ to_visit \in SUBSET Managers
    /\ logging \in BOOLEAN
    /\ snapshot \in SUBSET Names

\* Where the threads can be.
Places ==
    /\ main = "booting" => up < Len(Boot)
    /\ at[Main] # "idle" => main = "booting" /\ manager[Main] = Boot[up + 1]
    /\ \A w \in Walkers : at[w] \in {"idle", "walking"} \cup Creating
    /\ at[Enum] # "walking"
    /\ \A c \in Callers : at[c] \in InHand <=> copy[c] # 0
    /\ \A w \in Appliers : at[w] # "idle" <=> lock = w

\* How far they are in the lists they walk.
Walks ==
    \A w \in Walkers :
       /\ done[w] <= Len(listed[manager[w]])
       /\ at[w] \in Creating => /\ done[w] < Len(listed[manager[w]])
                                /\ name[w] = Entry(w)

IInv == CallKinds /\ MapKinds /\ MainKinds /\ Places /\ Walks

LEMMA Threads ==
    /\ Main \in Walkers /\ Main \in Callers /\ Main \notin Appliers
    /\ Enum \in Callers /\ Enum \notin Walkers /\ Main # Enum
    /\ \A w \in Appliers : w \in Walkers /\ w # Main /\ w # Nobody
    /\ \A c \in Callers : c \in Walkers \/ c = Enum
    /\ \A w \in Walkers : w \in Callers /\ (w = Main \/ w \in Appliers)
  BY LifecycleAssumption DEF Walkers, Callers

LEMMA BootOrder ==
    /\ Len(Boot) \in Nat \ {0}
    /\ \A i \in 1..Len(Boot) : Boot[i] \in Managers
    /\ 1 \in 1..Len(Boot)
<1>1. Boot \in Seq(Managers) /\ LoggingManager \in Managers
  BY LifecycleAssumption
<1>2. PICK i \in DOMAIN Boot : Boot[i] = LoggingManager
  BY <1>1 DEF Managers, Range
<1>3. QED
  BY <1>1, <1>2

LEMMA ManyObjects ==
    /\ 0 \in 0..MaxCopies /\ Autoenum \in Names
    /\ \A n \in Names, k \in 0..MaxCopies : k # 0 => <<n, k>> \in Objects
    /\ \A n, k : <<n, k>> \in Objects => k \in 0..MaxCopies /\ k # 0
    /\ \A n \in Names : Address[n] \in Range(Address)
<1>1. MaxCopies \in Nat \ {0} /\ Autoenum \in Names
  BY LifecycleAssumption
<1>2. \A n \in Names : Address[n] \in Range(Address)
  BY DEF Range, Names
<1>3. QED
  BY <1>1, <1>2 DEF Objects

LEMMA InvIsTypeOK == IInv => TypeOK
  BY DEF IInv, CallKinds, MapKinds, MainKinds, Places, Walks, TypeOK, Where,
         Creating, InHand

-----------------------------------------------------------------------------
(* What a step of a caller does to the other calls: nothing.               *)

Moves(c) ==
    /\ CallKinds'
    /\ \A d \in Callers : d # c => /\ at'[d] = at[d] /\ name'[d] = name[d]
                                   /\ copy'[d] = copy[d]
    /\ \A w \in Walkers : w # c => /\ manager'[w] = manager[w]
                                   /\ done'[w] = done[w]

LEMMA RestsMoves ==
    ASSUME CallKinds, NEW c \in Callers, Rests(c)
    PROVE  /\ Moves(c)
           /\ at'[c] = "idle" /\ copy'[c] = 0 /\ name'[c] = Autoenum
           /\ c \in Walkers => manager'[c] = Boot[1] /\ done'[c] = 0
<1>1. /\ at' \in [Callers -> Where] /\ at'[c] = "idle"
      /\ name' \in [Callers -> Names] /\ name'[c] = Autoenum
      /\ copy' \in [Callers -> 0..MaxCopies] /\ copy'[c] = 0
      /\ \A d \in Callers : d # c => /\ at'[d] = at[d] /\ name'[d] = name[d]
                                     /\ copy'[d] = copy[d]
  BY ManyObjects DEF Rests, CallKinds, Where
<1>2. /\ manager' \in [Walkers -> Managers] /\ done' \in [Walkers -> Nat]
      /\ \A w \in Walkers : w # c => /\ manager'[w] = manager[w]
                                     /\ done'[w] = done[w]
      /\ c \in Walkers => manager'[c] = Boot[1] /\ done'[c] = 0
  <2>1. Boot[1] \in Managers
    BY BootOrder
  <2>2. CASE c = Enum
    BY <2>2, Threads DEF Rests, CallKinds
  <2>3. CASE c # Enum
    BY <2>1, <2>3 DEF Rests, CallKinds
  <2>4. QED
    BY <2>2, <2>3
<1>3. QED
  BY <1>1, <1>2 DEF Moves, CallKinds

\* What an exception does.
Raise(c) ==
    /\ Moves(c)
    /\ copy'[c] = 0
    /\ at'[c] = IF c = Enum THEN "failed" ELSE "idle"
    /\ c = Enum => name'[c] = name[c]
    /\ c \in Walkers => manager'[c] = Boot[1] /\ done'[c] = 0
    /\ lock' = IF c \in Appliers THEN Nobody ELSE lock
    /\ main' = IF c = Main THEN "spinning" ELSE main
    /\ requested' \in BOOLEAN /\ purgatory' \in SUBSET Range(Address)
    /\ UNCHANGED <<up, to_visit, logging, snapshot, listed, instance, asked,
                   late>>

LEMMA RaisedEffect ==
    ASSUME IInv, NEW c \in Callers, NEW banish, Raised(c, banish)
    PROVE  Raise(c)
<1>1. /\ UNCHANGED <<up, to_visit, logging, snapshot, listed, instance, asked,
                     late>>
      /\ main' = IF c = Main THEN "spinning" ELSE main
      /\ requested' \in BOOLEAN
  BY DEF Raised, IInv, MainKinds
<1>2. CASE c = Enum
  <2>1. purgatory' \in SUBSET Range(Address)
    <3>1. Address[name[c]] \in Range(Address)
      BY ManyObjects DEF IInv, CallKinds
    <3>2. purgatory' \in {purgatory, purgatory \cup {Address[name[c]]}}
      BY <1>2 DEF Raised
    <3>3. QED
      BY <3>1, <3>2 DEF IInv, MapKinds
  <2>2. at' = [at EXCEPT ![c] = "failed"] /\ copy' = [copy EXCEPT ![c] = 0]
        /\ UNCHANGED <<manager, done, name, lock>>
    BY <1>2 DEF Raised
  <2>3. Moves(c) /\ at'[c] = "failed" /\ copy'[c] = 0
    BY <2>2, ManyObjects DEF IInv, CallKinds, Moves, Where
  <2>4. QED
    BY <1>1, <1>2, <2>1, <2>2, <2>3, Threads DEF Raise
<1>3. CASE c # Enum
  <2>1. Rests(c) /\ UNCHANGED purgatory /\ c \in Walkers
        /\ lock' = IF c \in Appliers THEN Nobody ELSE lock
    BY <1>3, Threads DEF Raised, Returned
  <2>2. QED
    BY <1>1, <1>3, <2>1, RestsMoves DEF Raise, IInv, MapKinds
<1>4. QED
  BY <1>2, <1>3

\* The places and the walks of the others stay as they are.
Placed(c) ==
    /\ c \in Walkers => at[c] \in {"idle", "walking"} \cup Creating
    /\ c = Enum => at[c] # "walking"
    /\ at[c] \in InHand <=> copy[c] # 0
    /\ c \in Walkers => /\ done[c] <= Len(listed[manager[c]])
                        /\ at[c] \in Creating
                              => /\ done[c] < Len(listed[manager[c]])
                                 /\ name[c] = Entry(c)

LEMMA OthersPlaced ==
    ASSUME IInv, NEW c \in Callers, Moves(c), UNCHANGED listed, Placed(c)',
           UNCHANGED <<main, up>>,
           c = Main /\ at'[Main] # "idle" => /\ main = "booting"
                                             /\ manager'[Main] = Boot[up + 1],
           \A w \in Appliers : at'[w] # "idle" <=> lock' = w
    PROVE  Places' /\ Walks'
<1>1. \A w \in Walkers : w # c => UNCHANGED <<at[w], manager[w], done[w], name[w]>>
  BY Threads DEF Moves
<1>2. Walks'
  <2>1. ASSUME NEW w \in Walkers, w # c
        PROVE  /\ done'[w] <= Len(listed'[manager'[w]])
               /\ at'[w] \in Creating
                     => /\ done'[w] < Len(listed'[manager'[w]])
                        /\ name'[w] = Entry(w)'
    BY <1>1, <2>1 DEF IInv, Walks, Entry
  <2>2. QED
    BY <2>1 DEF Walks, Placed
<1>3. Places'
  <2>1. \A d \in Callers : at'[d] \in InHand <=> copy'[d] # 0
    BY DEF IInv, Places, Moves, Placed
  <2>2. \A w \in Walkers : at'[w] \in {"idle", "walking"} \cup Creating
    BY <1>1 DEF IInv, Places, Placed
  <2>3. at'[Enum] # "walking"
    BY Threads DEF IInv, Places, Moves, Placed
  <2>4. at'[Main] # "idle" => main' = "booting" /\ manager'[Main] = Boot[up' + 1]
    BY <1>1, Threads DEF IInv, Places
  <2>5. QED
    BY <2>1, <2>2, <2>3, <2>4 DEF IInv, Places
<1>4. QED
  BY <1>2, <1>3

LEMMA InvRaised ==
    ASSUME IInv, NEW c \in Callers, at[c] # "idle", Raise(c),
           UNCHANGED <<thread, channels>>
    PROVE  IInv'
<1>1. CallKinds' /\ MapKinds' /\ MainKinds'
  BY DEF Raise, Moves, IInv, MapKinds, MainKinds
<1>2. Placed(c)'
  <2>1. c \in Walkers => 0 <= Len(listed[Boot[1]])
    BY BootOrder DEF IInv, MapKinds
  <2>2. QED
    BY <2>1, Threads DEF Raise, Placed, InHand, Creating
<1>3. \A w \in Appliers : at'[w] # "idle" <=> lock' = w
  <2>1. CASE c \in Appliers
    BY <2>1, Threads DEF Raise, Moves, IInv, Places
  <2>2. CASE c \notin Appliers
    BY <2>2, Threads DEF Raise, Moves, IInv, Places
  <2>3. QED
    BY <2>1, <2>2
<1>4. CASE c # Main
  BY <1>1, <1>2, <1>3, <1>4, OthersPlaced DEF Raise, IInv
<1>5. CASE c = Main
  <2>1. /\ \A d \in Callers : at'[d] \in InHand <=> copy'[d] # 0
        /\ \A w \in Walkers : at'[w] \in {"idle", "walking"} \cup Creating
        /\ at'[Enum] # "walking" /\ at'[Main] = "idle" /\ main' = "spinning"
    BY <1>2, <1>5, Threads DEF Raise, Moves, IInv, Places, Placed
  <2>2. Places'
    BY <1>3, <2>1 DEF Places
  <2>3. ASSUME NEW w \in Walkers, w # c
        PROVE  /\ done'[w] <= Len(listed'[manager'[w]])
               /\ at'[w] \in Creating
                     => /\ done'[w] < Len(listed'[manager'[w]])
                        /\ name'[w] = Entry(w)'
    BY <2>3, Threads DEF Raise, Moves, IInv, Walks, Entry
  <2>4. Walks'
    BY <1>2, <2>3 DEF Walks, Placed
  <2>5. QED
    BY <1>1, <2>2, <2>4 DEF IInv
<1>6. QED
  BY <1>4, <1>5

\* The steps of a walk.
LEMMA InvBegin ==
    ASSUME IInv, NEW w \in Walkers, NEW i \in 1..Len(Boot), Begin(w, Boot[i]),
           w = Main => main = "booting" /\ i = up + 1 /\ UNCHANGED lock,
           w # Main => lock = Nobody /\ lock' = w
    PROVE  IInv'
<1>1. Boot[i] \in Managers /\ w \in Callers
  BY BootOrder, Threads
<1>2. /\ Moves(w)
      /\ at[w] = "idle" /\ at'[w] = "walking" /\ manager'[w] = Boot[i]
      /\ done'[w] = 0 /\ UNCHANGED <<name, copy>>
  BY <1>1 DEF Begin, IInv, CallKinds, Moves, Where
<1>3. UNCHANGED <<mainVars, requested, listed, instance, thread, asked,
                  channels, purgatory, late>>
  BY DEF Begin
<1>4. lock' \in Appliers \cup {Nobody}
  BY Threads DEF IInv, MapKinds
<1>5. CallKinds' /\ MapKinds' /\ MainKinds'
  BY <1>2, <1>3, <1>4 DEF mainVars, Moves, IInv, MapKinds, MainKinds
<1>6. Placed(w)'
  <2>1. 0 <= Len(listed'[Boot[i]])
    BY <1>1, <1>3 DEF IInv, MapKinds
  <2>2. copy'[w] = 0
    BY <1>1, <1>2 DEF IInv, Places, InHand
  <2>3. QED
    BY <1>2, <2>1, <2>2, Threads DEF Placed, InHand, Creating
<1>7. \A v \in Appliers : at'[v] # "idle" <=> lock' = v
  <2>1. CASE w = Main
    BY <1>2, <2>1, Threads DEF Moves, IInv, Places
  <2>2. CASE w # Main
    BY <1>2, <2>2, Threads DEF Moves, IInv, Places
  <2>3. QED
    BY <2>1, <2>2
<1>8. Places' /\ Walks'
  BY <1>1, <1>2, <1>3, <1>6, <1>7, OthersPlaced DEF mainVars
<1>9. QED
  BY <1>5, <1>8 DEF IInv

\* A caller that goes on, with what it has in hand.
MapKept == UNCHANGED <<mainVars, requested, listed, lock, purgatory>>

Stores ==
    /\ instance \in [Names -> 0..MaxCopies]
    /\ thread \in [Objects -> {"none", "running", "ended"}]
    /\ asked \in SUBSET Objects
    /\ channels \in SUBSET Sources
    /\ late \in SUBSET Objects

LEMMA InvOnward ==
    ASSUME IInv, NEW c \in Callers, Moves(c), at[c] # "idle",
           at'[c] # "idle", c \in Walkers => manager'[c] = manager[c],
           MapKept, Stores', Placed(c)'
    PROVE  IInv'
<1>1. CallKinds' /\ MapKinds' /\ MainKinds'
  BY DEF Moves, MapKept, Stores, mainVars, IInv, MapKinds, MainKinds
<1>2. UNCHANGED <<listed, main, up, lock>>
  BY DEF MapKept, mainVars
<1>3. c = Main => /\ main = "booting"
                  /\ manager'[Main] = Boot[up + 1]
  BY Threads DEF IInv, Places
<1>4. \A w \in Appliers : at'[w] # "idle" <=> lock' = w
  BY <1>2, Threads DEF Moves, IInv, Places
<1>5. Places' /\ Walks'
  BY <1>2, <1>3, <1>4, OthersPlaced
<1>6. QED
  BY <1>1, <1>5 DEF IInv

LEMMA InvEnumRests ==
    ASSUME IInv, Rests(Enum), MapKept, Stores'
    PROVE  IInv'
<1>1. /\ Moves(Enum) /\ Enum \in Callers /\ Enum \notin Walkers
      /\ at'[Enum] = "idle" /\ copy'[Enum] = 0 /\ Enum # Main
      /\ Enum \notin Appliers
  BY RestsMoves, Threads DEF IInv
<1>2. CallKinds' /\ MapKinds' /\ MainKinds'
  BY <1>1 DEF Moves, MapKept, Stores, mainVars, IInv, MapKinds, MainKinds
<1>3. UNCHANGED <<listed, main, up, lock>>
  BY DEF MapKept, mainVars
<1>4. Placed(Enum)'
  BY <1>1 DEF Placed, InHand
<1>5. \A w \in Appliers : at'[w] # "idle" <=> lock' = w
  BY <1>1, <1>3, Threads DEF Moves, IInv, Places
<1>6. Places' /\ Walks'
  BY <1>1, <1>3, <1>4, <1>5, OthersPlaced
<1>7. QED
  BY <1>2, <1>6 DEF IInv

LEMMA GoMoves ==
    ASSUME IInv, NEW c \in Callers, NEW from, NEW to \in Where, Go(c, from, to),
           UNCHANGED <<manager, done, name>>,
           NEW k \in 0..MaxCopies, copy' = [copy EXCEPT ![c] = k]
    PROVE  /\ Moves(c) /\ at[c] = from /\ at'[c] = to /\ copy'[c] = k
           /\ UNCHANGED <<manager, done, name>>
  BY DEF Go, IInv, CallKinds, Moves

LEMMA SameCopy ==
    ASSUME IInv, NEW c \in Callers, UNCHANGED copy
    PROVE  /\ copy[c] \in 0..MaxCopies
           /\ copy' = [copy EXCEPT ![c] = copy[c]]
  BY DEF IInv, CallKinds

\* A caller in instance_new stays at its entry of the list.
LEMMA InvCreating ==
    ASSUME IInv, NEW c \in Callers, Moves(c),
           at[c] \in Creating, at'[c] \in Creating,
           at'[c] \in InHand <=> copy'[c] # 0,
           UNCHANGED <<manager, done, name>>, MapKept, Stores'
    PROVE  IInv'
<1>1. /\ c \in Walkers => at'[c] \in {"idle", "walking"} \cup Creating
      /\ c = Enum => at'[c] # "walking"
      /\ at[c] # "idle" /\ at'[c] # "idle"
  BY DEF Creating, InHand
<1>2. c \in Walkers => /\ done'[c] <= Len(listed'[manager'[c]])
                       /\ done'[c] < Len(listed'[manager'[c]])
                       /\ name'[c] = Entry(c)'
  BY DEF IInv, Walks, Entry, MapKept
<1>3. Placed(c)'
  BY <1>1, <1>2 DEF Placed
<1>4. QED
  BY <1>1, <1>3, InvOnward

-----------------------------------------------------------------------------
(* instance_new and instance_start.                                        *)

LEMMA StoresKept == IInv => Stores
  BY DEF IInv, MapKinds, Stores

LEMMA InvCheck ==
    ASSUME IInv, NEW c \in Callers, Check(c)
    PROVE  IInv'
<1>1. /\ MapKept /\ Go(c, "checking", "building")
      /\ UNCHANGED <<manager, done, name, copy, instance, thread, asked,
                     channels, late>>
  BY DEF Check, MapKept
<1>2. "building" \in Where
  BY DEF Where, Creating
<1>3. Moves(c) /\ at[c] = "checking" /\ at'[c] = "building"
      /\ copy'[c] = copy[c]
  BY <1>1, <1>2, SameCopy, GoMoves
<1>4. copy[c] = 0
  BY <1>3 DEF IInv, Places, InHand
<1>5. Stores'
  BY <1>1, StoresKept DEF Stores
<1>6. QED
  BY <1>1, <1>3, <1>4, <1>5, InvCreating DEF Creating, InHand

LEMMA InvBuild ==
    ASSUME IInv, NEW c \in Callers, Build(c)
    PROVE  IInv'
<1>1. /\ MapKept /\ Go(c, "building", "opening")
      /\ UNCHANGED <<manager, done, name, instance, channels>>
  BY DEF Build, MapKept
<1>2. PICK k \in 1..MaxCopies :
         /\ copy' = [copy EXCEPT ![c] = k]
         /\ thread' = [thread EXCEPT ![<<name[c], k>>] = "none"]
         /\ asked' = asked \ {<<name[c], k>>}
         /\ late' = late \ {<<name[c], k>>}
  BY DEF Build
<1>3. "opening" \in Where /\ k \in 0..MaxCopies /\ k # 0
  BY LifecycleAssumption DEF Where, Creating, InHand
<1>4. Moves(c) /\ at[c] = "building" /\ at'[c] = "opening" /\ copy'[c] = k
  BY <1>1, <1>2, <1>3, GoMoves
<1>5. Stores'
  BY <1>1, <1>2 DEF IInv, MapKinds, Stores
<1>6. QED
  BY <1>1, <1>3, <1>4, <1>5, InvCreating DEF Creating, InHand

LEMMA InvTestChannels ==
    ASSUME IInv, NEW c \in Callers, TestChannels(c)
    PROVE  IInv'
<1>1. /\ MapKept /\ Go(c, "opening", "adding")
      /\ UNCHANGED <<manager, done, name, copy, instance, thread, asked,
                     channels, late>>
  BY DEF TestChannels, MapKept
<1>2. "adding" \in Where
  BY DEF Where, Creating, InHand
<1>3. Moves(c) /\ at[c] = "opening" /\ at'[c] = "adding"
      /\ copy'[c] = copy[c]
  BY <1>1, <1>2, SameCopy, GoMoves
<1>4. copy[c] # 0
  BY <1>3 DEF IInv, Places, InHand
<1>5. Stores'
  BY <1>1, StoresKept DEF Stores
<1>6. QED
  BY <1>1, <1>3, <1>4, <1>5, InvCreating DEF Creating, InHand

LEMMA InvAddChannels ==
    ASSUME IInv, NEW c \in Callers, AddChannels(c)
    PROVE  IInv'
<1>1. /\ MapKept /\ Go(c, "adding", "storing")
      /\ UNCHANGED <<manager, done, name, copy, instance, thread, asked,
                     late>>
      /\ channels' = channels \cup ({name[c]} \cap Sources)
  BY DEF AddChannels, MapKept
<1>2. "storing" \in Where
  BY DEF Where, Creating, InHand
<1>3. Moves(c) /\ at[c] = "adding" /\ at'[c] = "storing"
      /\ copy'[c] = copy[c]
  BY <1>1, <1>2, SameCopy, GoMoves
<1>4. copy[c] # 0
  BY <1>3 DEF IInv, Places, InHand
<1>5. Stores'
  BY <1>1, StoresKept DEF Stores
<1>6. QED
  BY <1>1, <1>3, <1>4, <1>5, InvCreating DEF Creating, InHand

LEMMA InvStore ==
    ASSUME IInv, NEW c \in Callers, Store(c)
    PROVE  IInv'
<1>1. /\ MapKept /\ Go(c, "storing", "starting")
      /\ UNCHANGED <<manager, done, name, thread, asked, channels>>
      /\ copy' = [copy EXCEPT ![c] = 0]
      /\ instance' = [instance EXCEPT ![name[c]] = copy[c]]
      /\ late' \in {late, late \cup {<<name[c], copy[c]>>}}
  BY DEF Store, MapKept
<1>2. "starting" \in Where
  BY DEF Where, Creating
<1>3. Moves(c) /\ at[c] = "storing" /\ at'[c] = "starting" /\ copy'[c] = 0
  BY <1>1, <1>2, ManyObjects, GoMoves
<1>4. /\ copy[c] # 0 /\ copy[c] \in 0..MaxCopies /\ name[c] \in Names
      /\ <<name[c], copy[c]>> \in Objects
  BY <1>3, ManyObjects DEF IInv, Places, CallKinds, InHand
<1>5. Stores'
  BY <1>1, <1>4 DEF IInv, MapKinds, Stores
<1>6. QED
  BY <1>1, <1>3, <1>5, InvCreating DEF Creating, InHand

LEMMA InvStart ==
    ASSUME IInv, NEW c \in Callers, Start(c)
    PROVE  IInv'
<1>1. /\ MapKept /\ at[c] = "starting"
      /\ UNCHANGED <<instance, asked, channels, late>>
      /\ thread' = [thread EXCEPT ![<<name[c], instance[name[c]]>>]
                                     = "running"]
  BY DEF Start, MapKept
<1>2. Stores'
  BY <1>1 DEF IInv, MapKinds, Stores
<1>3. CASE c = Enum
  BY <1>1, <1>2, <1>3, InvEnumRests DEF Start
<1>4. CASE c # Enum
  <2>1. /\ at' = [at EXCEPT ![c] = "walking"]
        /\ done' = [done EXCEPT ![c] = @ + 1]
        /\ name' = [name EXCEPT ![c] = Autoenum]
        /\ UNCHANGED <<manager, copy>>
    BY <1>4 DEF Start
  <2>2. c \in Walkers /\ "walking" \in Where /\ Autoenum \in Names
    BY <1>4, Threads, ManyObjects DEF Where
  <2>3. Moves(c) /\ at'[c] = "walking" /\ copy'[c] = copy[c]
        /\ done'[c] = done[c] + 1 /\ manager'[c] = manager[c]
    BY <2>1, <2>2 DEF IInv, CallKinds, Moves
  <2>4. copy[c] = 0 /\ at[c] \in Creating
    BY <1>1 DEF IInv, Places, InHand, Creating
  <2>5. done'[c] <= Len(listed'[manager'[c]])
    <3>1. /\ done[c] \in Nat /\ Len(listed[manager[c]]) \in Nat
          /\ done[c] < Len(listed[manager[c]])
      BY <2>2, <2>4 DEF IInv, CallKinds, MapKinds, Walks
    <3>2. QED
      BY <3>1, <2>3, <1>1 DEF MapKept
  <2>6. Placed(c)'
    BY <2>2, <2>3, <2>4, <2>5, <1>4 DEF Placed, InHand, Creating
  <2>7. QED
    BY <1>1, <1>2, <2>3, <2>6, InvOnward
<1>5. QED
  BY <1>3, <1>4

LEMMA InvNewRaises ==
    ASSUME IInv, NEW c \in Callers,
           CheckRaises(c) \/ BuildRaises(c) \/ AddRaises(c) \/ StartRaises(c)
    PROVE  IInv'
<1>1. /\ at[c] # "idle" /\ UNCHANGED <<thread, channels>>
      /\ \E banish \in BOOLEAN : Raised(c, banish)
  BY DEF CheckRaises, BuildRaises, AddRaises, StartRaises
<1>2. QED
  BY <1>1, RaisedEffect, InvRaised

LEMMA InvNewStep ==
    ASSUME IInv, NEW c \in Callers, NewStep(c)
    PROVE  IInv'
  BY InvCheck, InvBuild, InvTestChannels, InvAddChannels, InvStore, InvStart,
     InvNewRaises DEF NewStep

-----------------------------------------------------------------------------
(* The other steps of a walk, and of the auto enumeration.                 *)

LEMMA InvWalkEnds ==
    ASSUME IInv, NEW w \in Walkers, WalkEnds(w)
    PROVE  IInv'
<1>1. /\ at[w] = "walking" /\ Rests(w) /\ w \in Callers /\ w # Enum
      /\ UNCHANGED <<to_visit, logging, snapshot, requested, listed,
                     instance, thread, asked, channels, purgatory, late>>
      /\ lock' = IF w = Main THEN lock ELSE Nobody
  BY Threads DEF WalkEnds, Returned
<1>2. /\ Moves(w) /\ at'[w] = "idle" /\ copy'[w] = 0
      /\ manager'[w] = Boot[1] /\ done'[w] = 0
  BY <1>1, RestsMoves DEF IInv
<1>3. Placed(w)'
  <2>1. 0 <= Len(listed'[Boot[1]])
    BY <1>1, BootOrder DEF IInv, MapKinds
  <2>2. QED
    BY <1>1, <1>2, <2>1 DEF Placed, InHand, Creating
<1>4. \A v \in Appliers : at'[v] # "idle" <=> lock' = v
  BY <1>1, <1>2, Threads DEF Moves, IInv, Places
<1>5. CASE w # Main
  <2>1. UNCHANGED <<main, up>>
    BY <1>5 DEF WalkEnds
  <2>2. CallKinds' /\ MapKinds' /\ MainKinds'
    BY <1>1, <1>2, <1>5, <2>1 DEF Moves, IInv, MapKinds, MainKinds
  <2>3. Places' /\ Walks'
    BY <1>1, <1>2, <1>3, <1>4, <1>5, <2>1, OthersPlaced
  <2>4. QED
    BY <2>2, <2>3 DEF IInv
<1>6. CASE w = Main
  <2>1. /\ up' = up + 1
        /\ main' = IF up' = Len(Boot) THEN "spinning" ELSE main
        /\ main = "booting" /\ up < Len(Boot) /\ up \in 0..Len(Boot)
        /\ Len(Boot) \in Nat
    BY <1>1, <1>6, BootOrder DEF WalkEnds, IInv, Places, MainKinds
  <2>2. up' \in 0..Len(Boot) /\ (main' = "booting" => up' < Len(Boot))
        /\ main' \in {"booting", "spinning"}
    BY <2>1
  <2>3. CallKinds' /\ MapKinds' /\ MainKinds'
    BY <1>1, <1>2, <1>6, <2>2 DEF Moves, IInv, MapKinds, MainKinds
  <2>4. /\ \A d \in Callers : at'[d] \in InHand <=> copy'[d] # 0
        /\ \A v \in Walkers : at'[v] \in {"idle", "walking"} \cup Creating
        /\ at'[Enum] # "walking" /\ at'[Main] = "idle"
    BY <1>2, <1>3, <1>6, Threads DEF Moves, IInv, Places, Placed
  <2>5. Places'
    BY <1>4, <2>2, <2>4 DEF Places
  <2>6. ASSUME NEW v \in Walkers, v # w
        PROVE  /\ done'[v] <= Len(listed'[manager'[v]])
               /\ at'[v] \in Creating
                     => /\ done'[v] < Len(listed'[manager'[v]])
                        /\ name'[v] = Entry(v)'
    BY <1>1, <1>2, <2>6, Threads DEF Moves, IInv, Walks, Entry
  <2>7. Walks'
    BY <1>3, <2>6 DEF Walks, Placed
  <2>8. QED
    BY <2>3, <2>5, <2>7 DEF IInv
<1>7. QED
  BY <1>5, <1>6

LEMMA InvWalkSkip ==
    ASSUME IInv, NEW w \in Walkers, WalkSkip(w)
    PROVE  IInv'
<1>1. /\ MapKept /\ at[w] = "walking" /\ w \in Callers /\ w # Enum
      /\ done[w] < Len(listed[manager[w]])
      /\ done' = [done EXCEPT ![w] = @ + 1]
      /\ UNCHANGED <<at, manager, name, copy, instance, thread, asked,
                     channels, late>>
  BY Threads DEF WalkSkip, InWalk, MapKept
<1>2. Moves(w) /\ done'[w] = done[w] + 1 /\ manager'[w] = manager[w]
  BY <1>1 DEF IInv, CallKinds, Moves
<1>3. copy[w] = 0
  BY <1>1 DEF IInv, Places, InHand
<1>4. done'[w] <= Len(listed'[manager'[w]])
  <2>1. done[w] \in Nat /\ Len(listed[manager[w]]) \in Nat
    BY DEF IInv, CallKinds, MapKinds
  <2>2. QED
    BY <1>1, <1>2, <2>1 DEF MapKept
<1>5. Placed(w)'
  BY <1>1, <1>3, <1>4 DEF Placed, InHand, Creating
<1>6. Stores'
  BY <1>1, StoresKept DEF Stores
<1>7. QED
  BY <1>1, <1>2, <1>5, <1>6, InvOnward

LEMMA InvWalkNew ==
    ASSUME IInv, NEW w \in Walkers, WalkNew(w)
    PROVE  IInv'
<1>1. /\ MapKept /\ at[w] = "walking" /\ w \in Callers /\ w # Enum
      /\ done[w] < Len(listed[manager[w]])
      /\ name' = [name EXCEPT ![w] = Entry(w)]
      /\ at' = [at EXCEPT ![w] = "checking"]
      /\ UNCHANGED <<manager, done, copy, instance, thread, asked,
                     channels, late>>
  BY Threads DEF WalkNew, InWalk, MapKept
<1>2. Entry(w) \in Names
  <2>1. done[w] \in Nat /\ listed[manager[w]] \in Seq(Names)
    BY DEF IInv, CallKinds, MapKinds
  <2>2. QED
    BY <1>1, <2>1 DEF Entry
<1>3. /\ Moves(w) /\ at'[w] = "checking" /\ name'[w] = Entry(w)
  BY <1>1, <1>2 DEF IInv, CallKinds, Moves, Where, Creating
<1>4. copy[w] = 0
  BY <1>1 DEF IInv, Places, InHand
<1>5. /\ done'[w] <= Len(listed'[manager'[w]])
      /\ done'[w] < Len(listed'[manager'[w]])
      /\ name'[w] = Entry(w)'
  BY <1>1, <1>3 DEF Entry, MapKept, IInv, Walks
<1>6. Placed(w)'
  BY <1>1, <1>3, <1>4, <1>5 DEF Placed, InHand, Creating
<1>7. Stores'
  BY <1>1, StoresKept DEF Stores
<1>8. QED
  BY <1>1, <1>3, <1>6, <1>7, InvOnward

LEMMA InvWalkStep ==
    ASSUME IInv, NEW w \in Walkers, ApplySettings(w) \/ WalkStep(w)
    PROVE  IInv'
<1>1. CASE ApplySettings(w)
  <2>1. PICK i \in 1..Len(Boot) : Begin(w, Boot[i])
    BY <1>1 DEF ApplySettings
  <2>2. w # Main /\ lock = Nobody /\ lock' = w
    BY <1>1, Threads DEF ApplySettings
  <2>3. QED
    BY <2>1, <2>2, InvBegin
<1>2. CASE WalkDuplicate(w)
  <2>1. at[w] # "idle" /\ Raised(w, FALSE) /\ UNCHANGED <<thread, channels>>
    BY <1>2 DEF WalkDuplicate, InWalk
  <2>2. QED
    BY <2>1, RaisedEffect, InvRaised, Threads
<1>3. QED
  BY <1>1, <1>2, InvWalkEnds, InvWalkSkip, InvWalkNew, InvNewStep, Threads
  DEF WalkStep

LEMMA InvStartManager ==
    ASSUME IInv, StartManager
    PROVE  IInv'
<1>1. main = "booting" /\ Begin(Main, Boot[up + 1]) /\ UNCHANGED lock
  BY DEF StartManager
<1>2. up + 1 \in 1..Len(Boot)
  <2>1. up \in Nat /\ up < Len(Boot) /\ Len(Boot) \in Nat
    BY <1>1, BootOrder DEF IInv, Places, MainKinds
  <2>2. QED
    BY <2>1
<1>3. QED
  BY <1>1, <1>2, InvBegin, Threads

LEMMA InvLookForName ==
    ASSUME IInv, LookForName
    PROVE  IInv'
<1>1. /\ MapKept /\ at[Enum] = "looking"
      /\ UNCHANGED <<instance, thread, asked, channels, late>>
  BY DEF LookForName, MapKept
<1>2. Stores'
  BY <1>1, StoresKept DEF Stores
<1>3. CASE Rests(Enum)
  BY <1>1, <1>2, <1>3, InvEnumRests
<1>4. CASE /\ at' = [at EXCEPT ![Enum] = "checking"]
           /\ UNCHANGED <<manager, done, name, copy>>
  <2>1. Moves(Enum) /\ at'[Enum] = "checking"
    BY <1>4, Threads DEF IInv, CallKinds, Moves, Where, Creating
  <2>2. copy'[Enum] = 0
    BY <1>1, <1>4, Threads DEF IInv, Places, InHand
  <2>3. Placed(Enum)'
    BY <2>1, <2>2, Threads DEF Placed, InHand
  <2>4. QED
    BY <1>1, <1>2, <2>1, <2>3, InvOnward, Threads
<1>5. QED
  BY <1>3, <1>4 DEF LookForName

LEMMA InvStopFailed ==
    ASSUME IInv, StopFailed
    PROVE  IInv'
<1>1. /\ MapKept /\ at[Enum] = "failed"
      /\ UNCHANGED <<instance, thread, channels, late>>
  BY DEF StopFailed, MapKept
<1>2. CASE Rests(Enum) /\ UNCHANGED asked
  <2>1. Stores'
    BY <1>1, <1>2, StoresKept DEF Stores
  <2>2. QED
    BY <1>1, <1>2, <2>1, InvEnumRests
<1>3. CASE /\ <<name[Enum], instance[name[Enum]]>> \in Objects
           /\ asked' = asked \cup {<<name[Enum], instance[name[Enum]]>>}
           /\ at' = [at EXCEPT ![Enum] = "removing"]
           /\ UNCHANGED <<manager, done, name, copy>>
  <2>1. Moves(Enum) /\ at'[Enum] = "removing"
    BY <1>3, Threads DEF IInv, CallKinds, Moves, Where
  <2>2. copy'[Enum] = 0
    BY <1>1, <1>3, Threads DEF IInv, Places, InHand
  <2>3. Placed(Enum)'
    BY <2>1, <2>2, Threads DEF Placed, InHand
  <2>4. Stores'
    BY <1>1, <1>3 DEF Stores, IInv, MapKinds
  <2>5. QED
    BY <1>1, <2>1, <2>3, <2>4, InvOnward, Threads
<1>4. QED
  BY <1>2, <1>3 DEF StopFailed

LEMMA InvRemoveFailed ==
    ASSUME IInv, RemoveFailed
    PROVE  IInv'
<1>1. /\ MapKept /\ Rests(Enum)
      /\ instance' = [instance EXCEPT ![name[Enum]] = 0]
      /\ UNCHANGED <<thread, asked, channels, late>>
  BY DEF RemoveFailed, MapKept
<1>2. Stores'
  BY <1>1, ManyObjects DEF IInv, MapKinds, Stores
<1>3. QED
  BY <1>1, <1>2, InvEnumRests

LEMMA DeviceListGrows ==
    ASSUME IInv, AddNewDevice
    PROVE  /\ at[Enum] = "idle" /\ at' = [at EXCEPT ![Enum] = "looking"]
           /\ listed' \in [Managers -> Seq(Names)]
           /\ \A m \in Managers :
                /\ Len(listed[m]) \in Nat /\ Len(listed'[m]) \in Nat
                /\ Len(listed[m]) <= Len(listed'[m])
                /\ \A i \in 1..Len(listed[m]) : listed'[m][i] = listed[m][i]
           /\ \E n \in Names :
                /\ Address[n] # NoAddress
                /\ name' = [name EXCEPT ![Enum] = n]
                /\ listed'[DeviceManager] = Append(listed[DeviceManager], n)
                /\ \A m \in Managers :
                      m # DeviceManager => listed'[m] = listed[m]
           /\ UNCHANGED <<mainVars, manager, done, copy, requested, instance,
                          thread, asked, channels, lock, purgatory, late>>
<1>1. /\ at[Enum] = "idle" /\ at' = [at EXCEPT ![Enum] = "looking"]
      /\ UNCHANGED <<mainVars, manager, done, copy, requested, instance,
                     thread, asked, channels, lock, purgatory, late>>
  BY DEF AddNewDevice
<1>2. PICK n \in Names :
         /\ Address[n] # NoAddress
         /\ name' = [name EXCEPT ![Enum] = n]
         /\ listed' = [listed EXCEPT ![DeviceManager] = Append(@, n)]
  BY DEF AddNewDevice
<1>3. DeviceManager \in Managers /\ listed \in [Managers -> Seq(Names)]
  BY LifecycleAssumption DEF IInv, MapKinds
<1>4. /\ listed'[DeviceManager] = Append(listed[DeviceManager], n)
      /\ \A m \in Managers : m # DeviceManager => listed'[m] = listed[m]
  BY <1>2, <1>3
<1>5. listed' \in [Managers -> Seq(Names)]
  <2>1. Append(listed[DeviceManager], n) \in Seq(Names)
    BY <1>3
  <2>2. QED
    BY <1>2, <1>3, <2>1
<1>6. ASSUME NEW m \in Managers
      PROVE  /\ Len(listed[m]) \in Nat /\ Len(listed'[m]) \in Nat
             /\ Len(listed[m]) <= Len(listed'[m])
             /\ \A i \in 1..Len(listed[m]) : listed'[m][i] = listed[m][i]
  <2>1. CASE m = DeviceManager
    <3>1. listed[m] \in Seq(Names) /\ listed'[m] = Append(listed[m], n)
      BY <1>3, <1>4, <2>1
    <3>2. QED
      BY <3>1
  <2>2. CASE m # DeviceManager
    BY <1>3, <1>4, <2>2
  <2>3. QED
    BY <2>1, <2>2
<1>7. QED
  BY <1>1, <1>2, <1>4, <1>5, <1>6

LEMMA InvAddNewDevice ==
    ASSUME IInv, AddNewDevice
    PROVE  IInv'
<1>1. PICK n \in Names : name' = [name EXCEPT ![Enum] = n]
  BY DeviceListGrows
<1>2. /\ at[Enum] = "idle" /\ at' = [at EXCEPT ![Enum] = "looking"]
      /\ UNCHANGED <<mainVars, manager, done, copy, requested, instance,
                     thread, asked, channels, lock, purgatory, late>>
      /\ listed' \in [Managers -> Seq(Names)]
  BY DeviceListGrows
<1>3. Moves(Enum) /\ at'[Enum] = "looking" /\ UNCHANGED <<manager, done>>
  BY <1>1, <1>2, Threads DEF IInv, CallKinds, Moves, Where
<1>4. CallKinds' /\ MapKinds' /\ MainKinds'
  BY <1>2, <1>3 DEF Moves, mainVars, IInv, MapKinds, MainKinds
<1>5. \A w \in Walkers : at'[w] = at[w] /\ name'[w] = name[w]
  BY <1>3, Threads DEF Moves
<1>6. Places'
  <2>1. UNCHANGED <<main, up>>
    BY <1>2 DEF mainVars
  <2>2. copy'[Enum] = 0
    BY <1>2, Threads DEF IInv, Places, InHand
  <2>3. \A c \in Callers : at'[c] \in InHand <=> copy'[c] # 0
    BY <1>3, <2>2 DEF Moves, IInv, Places, InHand
  <2>4. QED
    BY <1>2, <1>3, <1>5, <2>1, <2>3, Threads DEF IInv, Places
<1>7. Walks'
  <2>1. ASSUME NEW w \in Walkers
        PROVE  /\ done'[w] <= Len(listed'[manager'[w]])
               /\ at'[w] \in Creating
                     => /\ done'[w] < Len(listed'[manager'[w]])
                        /\ name'[w] = Entry(w)'
    <3>1. PICK m \in Managers : m = manager[w]
      BY DEF IInv, CallKinds
    <3>2. PICK d \in Nat : d = done[w]
      BY DEF IInv, CallKinds
    <3>3. /\ manager'[w] = m /\ done'[w] = d /\ d <= Len(listed[m])
          /\ Entry(w) = listed[m][d + 1] /\ Entry(w)' = listed'[m][d + 1]
      BY <1>2, <3>1, <3>2 DEF IInv, Walks, Entry
    <3>4. /\ Len(listed[m]) \in Nat /\ Len(listed'[m]) \in Nat
          /\ Len(listed[m]) <= Len(listed'[m])
          /\ \A i \in 1..Len(listed[m]) : listed'[m][i] = listed[m][i]
      BY DeviceListGrows
    <3>5. at[w] \in Creating => d < Len(listed[m]) /\ name[w] = Entry(w)
      BY <3>1, <3>2 DEF IInv, Walks
    <3>6. d < Len(listed[m]) => d < Len(listed'[m])
                                /\ listed'[m][d + 1] = listed[m][d + 1]
      BY <3>4
    <3>7. QED
      BY <1>5, <3>3, <3>4, <3>5, <3>6
  <2>2. QED
    BY <2>1 DEF Walks
<1>8. QED
  BY <1>4, <1>6, <1>7 DEF IInv

-----------------------------------------------------------------------------
(* The shutdown.                                                           *)

LEMMA InvShutdown ==
    ASSUME IInv,
           ShutdownStep \/ RequestShutdown \/ \E o \in Objects : ThreadEnds(o)
    PROVE  IInv'
<1>1. /\ UNCHANGED <<up, callVars, listed, instance, channels, lock,
                     purgatory, late>>
      /\ main = "booting" <=> main' = "booting"
      /\ main' \in Stopping \cup {"booting", "spinning", "escaped"}
      /\ requested' \in BOOLEAN /\ logging' \in BOOLEAN
  BY DEF ShutdownStep, RequestShutdown, ThreadEnds, Shutdown, ListInstances,
         ListRaises, StopInstance, StopCore, AllThreadsStopped, mainVars,
         IInv, MainKinds, Stopping
<1>2. to_visit' \in SUBSET Managers
  <2>1. Registered \subseteq Managers
    BY BootOrder DEF Registered
  <2>2. to_visit' \subseteq to_visit \cup Registered
    BY DEF ShutdownStep, RequestShutdown, ThreadEnds, Shutdown,
       ListInstances, ListRaises, StopInstance, StopCore, AllThreadsStopped,
       mainVars
  <2>3. QED
    BY <2>1, <2>2 DEF IInv, MainKinds
<1>3. snapshot' \in SUBSET Names
  <2>1. \/ snapshot' = snapshot
        \/ \E m \in Managers : snapshot' = InstancesOf(m)
        \/ \E n \in snapshot : snapshot' = snapshot \ {n}
    BY DEF ShutdownStep, RequestShutdown, ThreadEnds, Shutdown,
       ListInstances, ListRaises, StopInstance, StopCore, AllThreadsStopped,
       mainVars
  <2>2. QED
    BY <2>1 DEF InstancesOf, IInv, MainKinds
<1>4. asked' \in SUBSET Objects
  <2>1. \/ asked' = asked
        \/ \E n \in snapshot : /\ <<n, instance[n]>> \in Objects
                               /\ asked' = asked \cup {<<n, instance[n]>>}
    BY DEF ShutdownStep, RequestShutdown, ThreadEnds, Shutdown,
       ListInstances, ListRaises, StopInstance, StopCore, AllThreadsStopped
  <2>2. QED
    BY <2>1 DEF IInv, MapKinds
<1>5. thread' \in [Objects -> {"none", "running", "ended"}]
  <2>1. \/ thread' = thread
        \/ \E o \in Objects : thread' = [thread EXCEPT ![o] = "ended"]
    BY DEF ShutdownStep, RequestShutdown, ThreadEnds, Shutdown,
       ListInstances, ListRaises, StopInstance, StopCore, AllThreadsStopped
  <2>2. QED
    BY <2>1 DEF IInv, MapKinds
<1>6. UNCHANGED <<at, manager, done, name, copy>>
  BY <1>1 DEF callVars
<1>7. CallKinds' /\ MapKinds' /\ MainKinds'
  BY <1>1, <1>2, <1>3, <1>4, <1>5, <1>6
  DEF IInv, CallKinds, MapKinds, MainKinds
<1>8. Places'
  BY <1>1, <1>6, Threads DEF IInv, Places
<1>9. Walks'
  BY <1>1, <1>6 DEF IInv, Walks, Entry
<1>10. QED
  BY <1>7, <1>8, <1>9 DEF IInv

LEMMA InvInit == Init => IInv
<1> SUFFICES ASSUME Init PROVE IInv
  OBVIOUS
<1>1. /\ Boot[1] \in Managers /\ Len(Boot) \in Nat \ {0}
      /\ Autoenum \in Names /\ 0 \in 0..MaxCopies
      /\ Listed \in [Managers -> Seq(Names)]
  BY BootOrder, ManyObjects, LifecycleAssumption
<1>2. CallKinds
  BY <1>1 DEF Init, CallKinds, Where
<1>3. MapKinds
  BY <1>1 DEF Init, MapKinds
<1>4. MainKinds
  <2>1. 0 \in 0..Len(Boot)
    BY <1>1
  <2>2. QED
    BY <2>1 DEF Init, MainKinds
<1>5. Places
  <2>1. 0 < Len(Boot) /\ up = 0
    BY <1>1 DEF Init
  <2>2. \A c \in Callers : at[c] = "idle" /\ copy[c] = 0
    BY DEF Init
  <2>3. lock = Nobody
    BY DEF Init
  <2>4. \A c \in Callers : at[c] \in InHand <=> copy[c] # 0
    BY <2>2 DEF InHand
  <2>5. \A w \in Walkers : at[w] = "idle"
    BY <2>2, Threads
  <2>6. at[Main] = "idle" /\ at[Enum] = "idle"
    BY <2>2, Threads
  <2>7. \A w \in Appliers : at[w] # "idle" <=> lock = w
    BY <2>3, <2>5, Threads
  <2>8. QED
    BY <2>1, <2>4, <2>5, <2>6, <2>7 DEF Places
<1>6. Walks
  <2>1. \A w \in Walkers : /\ at[w] = "idle" /\ done[w] = 0
                           /\ manager[w] = Boot[1]
    BY Threads DEF Init
  <2>2. 0 <= Len(listed[Boot[1]])
    BY <1>1 DEF Init
  <2>3. QED
    BY <2>1, <2>2 DEF Walks, Creating, InHand
<1>7. QED
  BY <1>2, <1>3, <1>4, <1>5, <1>6 DEF IInv

LEMMA InvNext == IInv /\ [Next]_vars => IInv'
<1> SUFFICES ASSUME IInv, [Next]_vars PROVE IInv'
  OBVIOUS
<1>1. CASE UNCHANGED vars
  BY <1>1 DEF vars, mainVars, callVars, IInv, CallKinds, MapKinds,
     MainKinds, Places, Walks, Entry
<1>2. CASE EnumStep
  BY <1>2, InvLookForName, InvStopFailed, InvRemoveFailed, InvNewStep, Threads
  DEF EnumStep
<1>3. CASE Next
  BY <1>2, <1>3, InvStartManager, InvShutdown, InvWalkStep, InvAddNewDevice
  DEF Next
<1>4. QED
  BY <1>1, <1>3

LEMMA InvAlways == Spec => []IInv
  BY InvInit, InvNext, PTL DEF Spec

\* The types of everything, that the lock of the settings is held by exactly
\* the presentation that applies some, and that no walk passes the end of the
\* list it walks (common/abstract_service_manager.py, settings_base.py).
THEOREM TypeCorrect == Spec => []TypeOK
  BY InvAlways, InvIsTypeOK, PTL

-----------------------------------------------------------------------------
(* Where instances, threads and names come from.                           *)

\* Whatever is there, or is on its way, is of a manager that is registered.
Born ==
    /\ \A n \in Names : instance[n] # 0 => ManagerOf[n] \in Registered
    /\ \A o \in Objects :
          thread[o] = "running" => ManagerOf[o[1]] \in Registered
    /\ \A c \in Callers : at[c] \notin {"idle", "walking"}
                             => ManagerOf[name[c]] \in Registered
    /\ \A w \in Walkers : manager[w] \in Registered

\* The lists only grow, each by names of its manager.
Grown ==
    \A m \in Managers :
       /\ Len(Listed[m]) <= Len(listed[m])
       /\ \A i \in 1..Len(Listed[m]) : listed[m][i] = Listed[m][i]
       /\ \A i \in 1..Len(listed[m]) : ManagerOf[listed[m][i]] = m

\* The auto enumeration has added this name to the list of its manager.
Appended(n) ==
    \E i \in (Len(Listed[ManagerOf[n]]) + 1)..Len(listed[ManagerOf[n]]) :
       listed[ManagerOf[n]][i] = n

Discovered == at[Enum] # "idle" => Appended(name[Enum])

Origins == Born /\ Grown /\ Discovered

\* What a step of a caller does to all this.
Carries(c) ==
    /\ Moves(c)
    /\ UNCHANGED listed
    /\ up' = up \/ (c = Main /\ up' = up + 1)
    /\ \/ at'[c] \in {"idle", "walking"}
       \/ at[c] \notin {"idle", "walking"} /\ name'[c] = name[c]
       \/ c \in Walkers /\ ManagerOf[name'[c]] \in Registered
    /\ c = Enum => \/ at'[c] = "idle"
                   \/ at[c] # "idle" /\ name'[c] = name[c]
    /\ c \in Walkers => \/ manager'[c] = manager[c]
                        \/ manager'[c] \in Registered
    /\ \A n \in Names : instance'[n] # 0 =>
          \/ instance[n] # 0
          \/ at[c] = "storing" /\ n = name[c]
    /\ \A n \in Names : instance[n] # 0 =>
          \/ instance'[n] # 0
          \/ c = Enum /\ at[c] = "removing" /\ n = name[c]
    /\ \A o \in Objects : thread'[o] = "running" =>
          \/ thread[o] = "running"
          \/ at[c] = "starting" /\ o[1] = name[c]

LEMMA RegisteredGrows ==
    ASSUME IInv, up' = up \/ up' = up + 1
    PROVE  Registered \subseteq Registered'
<1>1. up \in Nat /\ Len(Boot) \in Nat
  BY BootOrder DEF IInv, MainKinds
<1>2. \A j \in 1..Len(Boot) : j <= up + 1 => j <= up' + 1
  <2>1. CASE up' = up
    BY <2>1
  <2>2. CASE up' = up + 1
    BY <1>1, <2>2
  <2>3. QED
    BY <2>1, <2>2
<1>3. QED
  BY <1>2 DEF Registered

LEMMA AppendedStays ==
    ASSUME UNCHANGED listed, NEW n
    PROVE  Appended(n) <=> Appended(n)'
  BY DEF Appended

LEMMA OriginsCarried ==
    ASSUME IInv, Origins, NEW c \in Callers, Carries(c)
    PROVE  Origins'
<1>1. Registered \subseteq Registered'
  BY RegisteredGrows DEF Carries
<1>2. Born'
  <2>1. \A n \in Names : instance'[n] # 0 => ManagerOf[n] \in Registered'
    BY <1>1 DEF Carries, Origins, Born
  <2>2. ASSUME NEW o \in Objects, thread'[o] = "running"
        PROVE  ManagerOf[o[1]] \in Registered'
    BY <1>1, <2>2 DEF Carries, Origins, Born
  <2>3. ASSUME NEW d \in Callers, at'[d] \notin {"idle", "walking"}
        PROVE  ManagerOf[name'[d]] \in Registered'
    <3>1. CASE d = c
      BY <1>1, <2>3, <3>1 DEF Carries, Origins, Born
    <3>2. CASE d # c
      BY <1>1, <2>3, <3>2 DEF Carries, Moves, Origins, Born
    <3>3. QED
      BY <3>1, <3>2
  <2>4. ASSUME NEW w \in Walkers
        PROVE  manager'[w] \in Registered'
    BY <1>1 DEF Carries, Moves, Origins, Born
  <2>5. QED
    BY <2>1, <2>2, <2>3, <2>4 DEF Born
<1>3. Grown'
  BY DEF Carries, Origins, Grown
<1>4. Discovered'
  <2>1. at'[Enum] # "idle" => at[Enum] # "idle" /\ name'[Enum] = name[Enum]
    BY Threads DEF Carries, Moves
  <2>2. at'[Enum] # "idle" => Appended(name[Enum])'
    <3>1. PICK n : n = name[Enum]
      OBVIOUS
    <3>2. at'[Enum] # "idle" => Appended(n)
      BY <2>1, <3>1 DEF Origins, Discovered
    <3>3. Appended(n) => Appended(n)'
      BY AppendedStays DEF Carries
    <3>4. at'[Enum] # "idle" => n = name'[Enum]
      BY <2>1, <3>1
    <3>5. QED
      BY <3>2, <3>3, <3>4
  <2>3. QED
    BY <2>2 DEF Discovered
<1>5. QED
  BY <1>2, <1>3, <1>4 DEF Origins

LEMMA FirstRegistered ==
    ASSUME IInv
    PROVE  Boot[1] \in Registered
<1>1. up \in Nat /\ 1 <= up + 1
  BY BootOrder DEF IInv, MainKinds
<1>2. QED
  BY <1>1, BootOrder DEF Registered

\* What a step does to the objects that were entered and asked to stop.
Settles ==
    /\ UNCHANGED <<to_visit, snapshot>>
    /\ main' = main \/ main' = "spinning"
    /\ \A n \in Names :
          \/ instance'[n] = 0
          \/ /\ instance'[n] = instance[n]
             /\ <<n, instance[n]>> \in asked \cup late
                   => <<n, instance[n]>> \in asked' \cup late'
          \/ <<n, instance'[n]>> \in late'
          \/ main \notin Stopping
          \/ ManagerOf[n] \in to_visit

LEMMA SettlesKept ==
    ASSUME MapKept, UNCHANGED <<instance, asked, late>>
    PROVE  Settles
  BY DEF MapKept, mainVars, Settles

LEMMA RaisedCarries ==
    ASSUME IInv, NEW c \in Callers, Raise(c), UNCHANGED thread,
           at[c] # "idle"
    PROVE  Carries(c) /\ Settles
<1>1. /\ Moves(c) /\ up' = up
      /\ UNCHANGED <<listed, instance, asked, late, to_visit, snapshot>>
      /\ main' = main \/ main' = "spinning"
  BY DEF Raise
<1>2. CASE c = Enum
  <2>1. at[c] \notin {"idle", "walking"} /\ name'[c] = name[c]
    BY <1>2 DEF IInv, Places, Raise
  <2>2. QED
    BY <1>1, <1>2, <2>1, Threads DEF Carries, Settles
<1>3. CASE c # Enum
  <2>1. at'[c] = "idle" /\ manager'[c] = Boot[1] /\ Boot[1] \in Registered
    BY <1>3, FirstRegistered, Threads DEF Raise
  <2>2. QED
    BY <1>1, <1>3, <2>1 DEF Carries, Settles
<1>4. QED
  BY <1>2, <1>3

LEMMA RestsCarries ==
    ASSUME IInv, Rests(Enum), MapKept, UNCHANGED instance,
           \A o \in Objects : thread'[o] = "running" =>
              \/ thread[o] = "running"
              \/ at[Enum] = "starting" /\ o[1] = name[Enum]
    PROVE  Carries(Enum)
<1>1. Moves(Enum) /\ at'[Enum] = "idle" /\ Enum \in Callers
      /\ Enum \notin Walkers
  BY RestsMoves, Threads DEF IInv
<1>2. QED
  BY <1>1 DEF MapKept, mainVars, Carries

\* A caller that goes from one step of instance_new to the next.
LEMMA GoesCarries ==
    ASSUME IInv, NEW c \in Callers, Moves(c), at[c] \notin {"idle", "walking"},
           UNCHANGED <<manager, name, instance>>, MapKept,
           \A o \in Objects : thread'[o] = "running" => thread[o] = "running"
    PROVE  Carries(c)
  BY DEF MapKept, mainVars, Carries

LEMMA CheckCarries ==
    ASSUME IInv, NEW c \in Callers,
           Check(c) \/ TestChannels(c) \/ AddChannels(c)
    PROVE  Carries(c) /\ Settles
<1>1. PICK from \in {"checking", "opening", "adding"},
           to \in {"building", "adding", "storing"} : Go(c, from, to)
  BY DEF Check, TestChannels, AddChannels
<1>2. /\ MapKept
      /\ UNCHANGED <<manager, done, name, copy, instance, thread, asked, late>>
  BY DEF Check, TestChannels, AddChannels, MapKept
<1>3. to \in Where
  BY DEF Where, Creating, InHand
<1>4. Moves(c) /\ at[c] = from
  BY <1>1, <1>2, <1>3, SameCopy, GoMoves
<1>5. Carries(c)
  BY <1>2, <1>4, GoesCarries
<1>6. QED
  BY <1>2, <1>5, SettlesKept

LEMMA BuildCarries ==
    ASSUME IInv, NEW c \in Callers, Build(c)
    PROVE  Carries(c) /\ Settles
<1>1. /\ MapKept /\ Go(c, "building", "opening")
      /\ UNCHANGED <<manager, done, name, instance>>
  BY DEF Build, MapKept
<1>2. PICK k \in 1..MaxCopies :
         /\ ~InUse(<<name[c], k>>)
         /\ copy' = [copy EXCEPT ![c] = k]
         /\ thread' = [thread EXCEPT ![<<name[c], k>>] = "none"]
         /\ asked' = asked \ {<<name[c], k>>}
         /\ late' = late \ {<<name[c], k>>}
  BY DEF Build
<1>3. "opening" \in Where /\ k \in 0..MaxCopies
  BY LifecycleAssumption DEF Where, Creating, InHand
<1>4. Moves(c) /\ at[c] = "building"
  BY <1>1, <1>2, <1>3, GoMoves
<1>5. \A o \in Objects : thread'[o] = "running" => thread[o] = "running"
  BY <1>2 DEF IInv, MapKinds
<1>6. Carries(c)
  BY <1>1, <1>4, <1>5, GoesCarries
<1>7. Settles
  <2>1. instance[name[c]] # k
    BY <1>2 DEF InUse
  <2>2. \A n \in Names : <<n, instance[n]>> # <<name[c], k>>
    BY <2>1
  <2>3. QED
    BY <1>1, <1>2, <2>2 DEF MapKept, mainVars, Settles
<1>8. QED
  BY <1>6, <1>7

LEMMA StoreCarries ==
    ASSUME IInv, NEW c \in Callers, Store(c)
    PROVE  Carries(c) /\ Settles
<1>1. /\ MapKept /\ Go(c, "storing", "starting")
      /\ UNCHANGED <<manager, done, name, thread, asked>>
      /\ copy' = [copy EXCEPT ![c] = 0]
      /\ instance' = [instance EXCEPT ![name[c]] = copy[c]]
      /\ late' = IF Visited(ManagerOf[name[c]])
                 THEN late \cup {<<name[c], copy[c]>>} ELSE late
  BY DEF Store, MapKept
<1>2. "starting" \in Where
  BY DEF Where, Creating
<1>3. Moves(c) /\ at[c] = "storing" /\ at'[c] = "starting"
  BY <1>1, <1>2, ManyObjects, GoMoves
<1>4. copy[c] # 0 /\ name[c] \in Names
  BY <1>3 DEF IInv, Places, CallKinds, InHand
<1>5. \A n \in Names : IF n = name[c] THEN instance'[n] = copy[c]
                                      ELSE instance'[n] = instance[n]
  BY <1>1 DEF IInv, MapKinds
<1>6. Carries(c)
  BY <1>1, <1>3, <1>4, <1>5 DEF Carries, MapKept, mainVars
<1>7. Settles
  <2>1. ASSUME NEW n \in Names
        PROVE  \/ /\ instance'[n] = instance[n]
                  /\ <<n, instance[n]>> \in asked \cup late
                        => <<n, instance[n]>> \in asked' \cup late'
               \/ <<n, instance'[n]>> \in late'
               \/ main \notin Stopping
               \/ ManagerOf[n] \in to_visit
    <3>1. CASE n = name[c]
      BY <1>1, <1>5, <3>1 DEF Visited
    <3>2. CASE n # name[c]
      BY <1>1, <1>5, <3>2
    <3>3. QED
      BY <3>1, <3>2
  <2>2. QED
    BY <1>1, <2>1 DEF MapKept, mainVars, Settles
<1>8. QED
  BY <1>6, <1>7

LEMMA StartCarries ==
    ASSUME IInv, NEW c \in Callers, Start(c)
    PROVE  Carries(c) /\ Settles
<1>1. /\ MapKept /\ at[c] = "starting"
      /\ UNCHANGED <<instance, asked, late>>
      /\ thread' = [thread EXCEPT ![<<name[c], instance[name[c]]>>]
                                     = "running"]
  BY DEF Start, MapKept
<1>2. ASSUME NEW o \in Objects, thread'[o] = "running"
      PROVE  thread[o] = "running" \/ o[1] = name[c]
  BY <1>1, <1>2 DEF IInv, MapKinds
<1>3. Settles
  BY <1>1, SettlesKept
<1>4. CASE c = Enum
  BY <1>1, <1>2, <1>3, <1>4, RestsCarries DEF Start
<1>5. CASE c # Enum
  <2>1. /\ at' = [at EXCEPT ![c] = "walking"]
        /\ done' = [done EXCEPT ![c] = @ + 1]
        /\ name' = [name EXCEPT ![c] = Autoenum]
        /\ UNCHANGED <<manager, copy>>
    BY <1>5 DEF Start
  <2>2. Moves(c) /\ at'[c] = "walking" /\ manager'[c] = manager[c]
    BY <1>5, <2>1, Threads, ManyObjects DEF IInv, CallKinds, Moves, Where
  <2>3. QED
    BY <1>1, <1>2, <1>3, <1>5, <2>2 DEF Carries, MapKept, mainVars
<1>6. QED
  BY <1>4, <1>5

LEMMA NewStepCarries ==
    ASSUME IInv, NEW c \in Callers, NewStep(c)
    PROVE  Carries(c) /\ Settles
<1>1. CASE CheckRaises(c) \/ BuildRaises(c) \/ AddRaises(c) \/ StartRaises(c)
  <2>1. /\ at[c] # "idle" /\ UNCHANGED <<thread, channels>>
        /\ \E banish \in BOOLEAN : Raised(c, banish)
    BY <1>1 DEF CheckRaises, BuildRaises, AddRaises, StartRaises
  <2>2. QED
    BY <2>1, RaisedEffect, RaisedCarries
<1>2. QED
  BY <1>1, CheckCarries, BuildCarries, StoreCarries, StartCarries DEF NewStep

LEMMA WalkStepCarries ==
    ASSUME IInv, Origins, NEW w \in Walkers,
           (StartManager /\ w = Main) \/ ApplySettings(w) \/ WalkStep(w)
    PROVE  Carries(w) /\ Settles
<1>1. w \in Callers /\ w # Enum
  BY Threads
<1>2. ASSUME NEW i \in 1..Len(Boot), i <= up + 1, Begin(w, Boot[i])
      PROVE  Carries(w) /\ Settles
  <2>1. Boot[i] \in Managers /\ Boot[i] \in Registered
    BY <1>2, BootOrder DEF Registered
  <2>2. Moves(w) /\ at'[w] = "walking" /\ manager'[w] = Boot[i]
    BY <1>1, <1>2, <2>1 DEF Begin, IInv, CallKinds, Moves, Where
  <2>3. UNCHANGED <<mainVars, listed, instance, thread, asked, late>>
    BY <1>2 DEF Begin
  <2>4. QED
    BY <1>1, <2>1, <2>2, <2>3 DEF Carries, Settles, mainVars
<1>3. CASE StartManager /\ w = Main
  <2>1. main = "booting" /\ Begin(Main, Boot[up + 1])
    BY <1>3 DEF StartManager
  <2>2. up + 1 \in 1..Len(Boot) /\ up + 1 <= up + 1
    <3>1. up \in Nat /\ up < Len(Boot) /\ Len(Boot) \in Nat
      BY <2>1, BootOrder DEF IInv, Places, MainKinds
    <3>2. QED
      BY <3>1
  <2>3. QED
    BY <1>2, <1>3, <2>1, <2>2
<1>4. CASE ApplySettings(w)
  BY <1>2, <1>4 DEF ApplySettings
<1>5. CASE WalkEnds(w)
  <2>1. /\ Rests(w)
        /\ UNCHANGED <<to_visit, snapshot, listed, instance, thread, asked,
                       late>>
        /\ up' = up \/ (w = Main /\ up' = up + 1)
        /\ main' = main \/ main' = "spinning"
    BY <1>5 DEF WalkEnds, Returned
  <2>2. Moves(w) /\ at'[w] = "idle" /\ manager'[w] = Boot[1]
        /\ Boot[1] \in Registered
    BY <1>1, <2>1, RestsMoves, FirstRegistered DEF IInv
  <2>3. QED
    BY <1>1, <2>1, <2>2 DEF Carries, Settles
<1>6. CASE WalkDuplicate(w)
  <2>1. at[w] # "idle" /\ Raised(w, FALSE) /\ UNCHANGED thread
    BY <1>6 DEF WalkDuplicate, InWalk
  <2>2. QED
    BY <1>1, <2>1, RaisedEffect, RaisedCarries
<1>7. CASE WalkSkip(w)
  <2>1. /\ MapKept /\ at[w] = "walking" /\ done' = [done EXCEPT ![w] = @ + 1]
        /\ UNCHANGED <<at, manager, name, copy, instance, thread, asked, late>>
    BY <1>7 DEF WalkSkip, InWalk, MapKept
  <2>2. Moves(w) /\ at'[w] = "walking"
    BY <1>1, <2>1 DEF IInv, CallKinds, Moves
  <2>3. QED
    BY <1>1, <2>1, <2>2, SettlesKept DEF Carries, MapKept, mainVars
<1>8. CASE WalkNew(w)
  <2>1. /\ MapKept /\ at[w] = "walking"
        /\ done[w] < Len(listed[manager[w]])
        /\ name' = [name EXCEPT ![w] = Entry(w)]
        /\ at' = [at EXCEPT ![w] = "checking"]
        /\ UNCHANGED <<manager, done, copy, instance, thread, asked, late>>
    BY <1>8 DEF WalkNew, InWalk, MapKept
  <2>2. Entry(w) \in Names /\ ManagerOf[Entry(w)] = manager[w]
    <3>1. PICK m \in Managers : m = manager[w]
      BY DEF IInv, CallKinds
    <3>2. done[w] \in Nat /\ listed[m] \in Seq(Names)
      BY DEF IInv, CallKinds, MapKinds
    <3>3. done[w] + 1 \in 1..Len(listed[m])
      BY <2>1, <3>1, <3>2
    <3>4. QED
      BY <3>1, <3>2, <3>3 DEF Origins, Grown, Entry
  <2>3. ManagerOf[Entry(w)] \in Registered
    BY <2>2 DEF Origins, Born
  <2>4. Moves(w) /\ name'[w] = Entry(w)
    BY <1>1, <2>1, <2>2 DEF IInv, CallKinds, Moves, Where, Creating
  <2>5. QED
    BY <1>1, <2>1, <2>3, <2>4, SettlesKept DEF Carries, MapKept, mainVars
<1>9. QED
  BY <1>1, <1>3, <1>4, <1>5, <1>6, <1>7, <1>8, NewStepCarries DEF WalkStep

LEMMA EnumStepCarries ==
    ASSUME IInv, EnumStep
    PROVE  Carries(Enum) /\ Settles
<1>1. Enum \in Callers /\ Enum \notin Walkers
  BY Threads
<1>2. CASE LookForName
  <2>1. /\ MapKept /\ at[Enum] = "looking"
        /\ UNCHANGED <<instance, thread, asked, late>>
    BY <1>2 DEF LookForName, MapKept
  <2>2. CASE Rests(Enum)
    BY <2>1, <2>2, RestsCarries, SettlesKept
  <2>3. CASE /\ at' = [at EXCEPT ![Enum] = "checking"]
             /\ UNCHANGED <<manager, done, name, copy>>
    <3>1. Moves(Enum)
      BY <1>1, <2>3 DEF IInv, CallKinds, Moves, Where, Creating
    <3>2. QED
      BY <1>1, <2>1, <2>3, <3>1, GoesCarries, SettlesKept
  <2>4. QED
    BY <1>2, <2>2, <2>3 DEF LookForName
<1>3. CASE StopFailed
  <2>1. /\ MapKept /\ at[Enum] = "failed"
        /\ UNCHANGED <<instance, thread, late>>
        /\ \/ asked' = asked
           \/ asked' = asked \cup {<<name[Enum], instance[name[Enum]]>>}
    BY <1>3 DEF StopFailed, MapKept
  <2>2. Settles
    BY <2>1 DEF MapKept, mainVars, Settles
  <2>3. CASE Rests(Enum)
    BY <2>1, <2>2, <2>3, RestsCarries
  <2>4. CASE /\ at' = [at EXCEPT ![Enum] = "removing"]
             /\ UNCHANGED <<manager, done, name, copy>>
    <3>1. Moves(Enum)
      BY <1>1, <2>4 DEF IInv, CallKinds, Moves, Where
    <3>2. QED
      BY <1>1, <2>1, <2>2, <2>4, <3>1, GoesCarries
  <2>5. QED
    BY <1>3, <2>3, <2>4 DEF StopFailed
<1>4. CASE RemoveFailed
  <2>1. /\ MapKept /\ at[Enum] = "removing" /\ Rests(Enum)
        /\ instance' = [instance EXCEPT ![name[Enum]] = 0]
        /\ UNCHANGED <<thread, asked, late>>
    BY <1>4 DEF RemoveFailed, MapKept
  <2>2. Moves(Enum) /\ at'[Enum] = "idle"
    BY <1>1, <2>1, RestsMoves DEF IInv
  <2>3. \A n \in Names : IF n = name[Enum] THEN instance'[n] = 0
                                           ELSE instance'[n] = instance[n]
    BY <2>1 DEF IInv, MapKinds
  <2>4. Carries(Enum)
    BY <1>1, <2>1, <2>2, <2>3 DEF Carries, MapKept, mainVars
  <2>5. Settles
    BY <2>1, <2>3 DEF Settles, MapKept, mainVars
  <2>6. QED
    BY <2>4, <2>5
<1>5. QED
  BY <1>1, <1>2, <1>3, <1>4, NewStepCarries DEF EnumStep

LEMMA AddSettles ==
    ASSUME IInv, AddNewDevice
    PROVE  Settles
<1>1. UNCHANGED <<mainVars, instance, asked, late>>
  BY DeviceListGrows
<1>2. QED
  BY <1>1 DEF mainVars, Settles

LEMMA AddOrigins ==
    ASSUME IInv, Origins, AddNewDevice
    PROVE  Origins'
<1>1. PICK n \in Names :
         /\ Address[n] # NoAddress
         /\ name' = [name EXCEPT ![Enum] = n]
         /\ listed'[DeviceManager] = Append(listed[DeviceManager], n)
         /\ \A m \in Managers : m # DeviceManager => listed'[m] = listed[m]
  BY DeviceListGrows
<1>2. /\ at' = [at EXCEPT ![Enum] = "looking"]
      /\ UNCHANGED <<mainVars, manager, instance, thread>>
      /\ \A m \in Managers :
            /\ Len(listed[m]) \in Nat /\ Len(listed'[m]) \in Nat
            /\ Len(listed[m]) <= Len(listed'[m])
            /\ \A i \in 1..Len(listed[m]) : listed'[m][i] = listed[m][i]
  BY DeviceListGrows
<1>3. ManagerOf[n] = DeviceManager /\ DeviceManager \in Managers
  BY <1>1, LifecycleAssumption
<1>4. /\ listed[DeviceManager] \in Seq(Names)
      /\ Len(listed'[DeviceManager]) = Len(listed[DeviceManager]) + 1
      /\ listed'[DeviceManager][Len(listed[DeviceManager]) + 1] = n
  BY <1>1, <1>3 DEF IInv, MapKinds
<1>5. Registered' = Registered
  BY <1>2 DEF mainVars, Registered
<1>6. DeviceManager \in Registered
  <2>1. PICK k \in 1..MaxCopies : thread[<<Autoenum, k>>] = "running"
    BY DEF AddNewDevice, Enumerating
  <2>2. <<Autoenum, k>> \in Objects /\ ManagerOf[Autoenum] = DeviceManager
    BY LifecycleAssumption DEF Objects
  <2>3. QED
    BY <2>1, <2>2 DEF Origins, Born
<1>7. Born'
  <2>1. ASSUME NEW c \in Callers, at'[c] \notin {"idle", "walking"}
        PROVE  ManagerOf[name'[c]] \in Registered'
    <3>1. CASE c = Enum
      BY <1>1, <1>3, <1>5, <1>6, <3>1, Threads DEF IInv, CallKinds
    <3>2. CASE c # Enum
      BY <1>1, <1>2, <1>5, <2>1, <3>2 DEF IInv, CallKinds, Origins, Born
    <3>3. QED
      BY <3>1, <3>2
  <2>2. QED
    BY <1>2, <1>5, <2>1 DEF Origins, Born
<1>8. Grown'
  <2>1. ASSUME NEW m \in Managers
        PROVE  /\ Len(Listed[m]) <= Len(listed'[m])
               /\ \A i \in 1..Len(Listed[m]) : listed'[m][i] = Listed[m][i]
               /\ \A i \in 1..Len(listed'[m]) : ManagerOf[listed'[m][i]] = m
    <3>1. /\ Len(listed[m]) \in Nat /\ Len(listed'[m]) \in Nat
          /\ Len(listed[m]) <= Len(listed'[m])
          /\ \A i \in 1..Len(listed[m]) : listed'[m][i] = listed[m][i]
      BY <1>2
    <3>2. Len(Listed[m]) \in Nat
      BY LifecycleAssumption
    <3>3. /\ Len(Listed[m]) <= Len(listed[m])
          /\ \A i \in 1..Len(Listed[m]) : listed[m][i] = Listed[m][i]
          /\ \A i \in 1..Len(listed[m]) : ManagerOf[listed[m][i]] = m
      BY DEF Origins, Grown
    <3>4. /\ Len(Listed[m]) <= Len(listed'[m])
          /\ \A i \in 1..Len(Listed[m]) : listed'[m][i] = Listed[m][i]
      BY <3>1, <3>2, <3>3
    <3>5. ASSUME NEW i \in 1..Len(listed'[m])
          PROVE  ManagerOf[listed'[m][i]] = m
      <4>1. CASE i \in 1..Len(listed[m])
        BY <3>1, <3>3, <4>1
      <4>2. CASE i \notin 1..Len(listed[m])
        <5>1. m = DeviceManager
          BY <1>1, <3>1, <4>2
        <5>2. i = Len(listed[m]) + 1
          BY <1>4, <3>1, <4>2, <5>1
        <5>3. QED
          BY <1>3, <1>4, <5>1, <5>2
      <4>3. QED
        BY <4>1, <4>2
    <3>6. QED
      BY <3>4, <3>5
  <2>2. QED
    BY <2>1 DEF Grown
<1>9. Discovered'
  <2>1. name'[Enum] = n
    BY <1>1, Threads DEF IInv, CallKinds
  <2>2. /\ Len(Listed[DeviceManager]) \in Nat
        /\ Len(listed[DeviceManager]) \in Nat
        /\ Len(Listed[DeviceManager]) <= Len(listed[DeviceManager])
    BY <1>2, <1>3, LifecycleAssumption DEF Origins, Grown
  <2>3. Len(listed[DeviceManager]) + 1 \in
           (Len(Listed[DeviceManager]) + 1)..Len(listed'[DeviceManager])
    BY <1>4, <2>2
  <2>4. Appended(n)'
    BY <1>3, <1>4, <2>3 DEF Appended
  <2>5. QED
    BY <2>1, <2>4 DEF Discovered
<1>10. QED
  BY <1>7, <1>8, <1>9 DEF Origins

LEMMA ShutdownOrigins ==
    ASSUME IInv, Origins,
           ShutdownStep \/ RequestShutdown \/ \E o \in Objects : ThreadEnds(o)
    PROVE  Origins'
<1>1. UNCHANGED <<up, callVars, listed, instance>>
  BY DEF ShutdownStep, RequestShutdown, ThreadEnds, Shutdown, ListInstances,
         ListRaises, StopInstance, StopCore, AllThreadsStopped, mainVars
<1>2. UNCHANGED <<up, at, manager, name, listed, instance>>
  BY <1>1 DEF callVars
<1>3. \A o \in Objects : thread'[o] = "running" => thread[o] = "running"
  <2>1. \/ thread' = thread
        \/ \E o \in Objects : thread' = [thread EXCEPT ![o] = "ended"]
    BY DEF ShutdownStep, RequestShutdown, ThreadEnds, Shutdown,
       ListInstances, ListRaises, StopInstance, StopCore, AllThreadsStopped
  <2>2. QED
    BY <2>1 DEF IInv, MapKinds
<1>4. Registered' = Registered
  BY <1>2 DEF Registered
<1>5. Born'
  BY <1>2, <1>3, <1>4 DEF Origins, Born
<1>6. Grown' /\ Discovered'
  BY <1>2 DEF Origins, Grown, Discovered, Appended
<1>7. QED
  BY <1>5, <1>6 DEF Origins

-----------------------------------------------------------------------------
(* The shutdown misses nothing but what enters the maps behind its back.   *)

\* Once the shutdown has begun, an instance was asked to stop, entered too
\* late, may refuse, is on the list _shutdown has in hand, or is of a manager
\* that is still to be listed.
Accounted ==
    main \in {"stopping", "joining"} =>
        \A n \in Names :
           \/ instance[n] = 0
           \/ <<n, instance[n]>> \in asked \cup late
           \/ n \in Stubborn \cup snapshot
           \/ ManagerOf[n] \in to_visit

Listing == main = "joining" => snapshot = {} /\ to_visit = {}

LEMMA SettlesAccounts ==
    ASSUME Accounted, Listing, Settles
    PROVE  Accounted' /\ Listing'
<1>1. ASSUME main' \in {"stopping", "joining"}, NEW n \in Names
      PROVE  \/ instance'[n] = 0
             \/ <<n, instance'[n]>> \in asked' \cup late'
             \/ n \in Stubborn \cup snapshot'
             \/ ManagerOf[n] \in to_visit'
  <2>1. /\ main = main' /\ main \in {"stopping", "joining"}
        /\ main \in Stopping
        /\ UNCHANGED <<to_visit, snapshot>>
    BY <1>1 DEF Settles, Stopping
  <2>2. \/ instance[n] = 0
        \/ <<n, instance[n]>> \in asked \cup late
        \/ n \in Stubborn \cup snapshot
        \/ ManagerOf[n] \in to_visit
    BY <2>1 DEF Accounted
  <2>3. \/ instance'[n] = 0
        \/ /\ instance'[n] = instance[n]
           /\ <<n, instance[n]>> \in asked \cup late
                 => <<n, instance[n]>> \in asked' \cup late'
        \/ <<n, instance'[n]>> \in late'
        \/ ManagerOf[n] \in to_visit
    BY <2>1 DEF Settles
  <2>4. QED
    BY <2>1, <2>2, <2>3
<1>2. Listing'
  BY DEF Settles, Listing
<1>3. QED
  BY <1>1, <1>2 DEF Accounted

LEMMA ShutdownAccounts ==
    ASSUME IInv, Origins, Accounted, Listing,
           ShutdownStep \/ RequestShutdown \/ \E o \in Objects : ThreadEnds(o)
    PROVE  Accounted' /\ Listing'
<1>1. UNCHANGED <<instance, late>>
  BY DEF ShutdownStep, RequestShutdown, ThreadEnds, Shutdown, ListInstances,
         ListRaises, StopInstance, StopCore, AllThreadsStopped, mainVars
<1>2. CASE Shutdown
  <2>1. \/ main' = "escaped"
        \/ main' = "stopping" /\ to_visit' = Registered
    BY <1>2 DEF Shutdown
  <2>2. \A n \in Names : instance'[n] = 0 \/ ManagerOf[n] \in Registered
    BY <1>1 DEF Origins, Born
  <2>3. QED
    BY <2>1, <2>2 DEF Accounted, Listing
<1>3. CASE ListInstances
  <2>1. PICK m \in Managers : /\ snapshot' = InstancesOf(m)
                              /\ to_visit' = to_visit \ {m}
    BY <1>3 DEF ListInstances
  <2>2. main = "stopping" /\ main' = main /\ snapshot = {} /\ asked' = asked
    BY <1>3 DEF ListInstances
  <2>3. ASSUME NEW n \in Names
        PROVE  \/ instance'[n] = 0
               \/ <<n, instance'[n]>> \in asked' \cup late'
               \/ n \in Stubborn \cup snapshot'
               \/ ManagerOf[n] \in to_visit'
    <3>1. \/ instance[n] = 0
          \/ <<n, instance[n]>> \in asked \cup late
          \/ n \in Stubborn
          \/ ManagerOf[n] \in to_visit
      BY <2>2 DEF Accounted
    <3>2. ManagerOf[n] = m /\ instance[n] # 0 => n \in snapshot'
      BY <2>1 DEF InstancesOf
    <3>3. QED
      BY <1>1, <2>1, <2>2, <3>1, <3>2
  <2>4. QED
    BY <2>2, <2>3 DEF Accounted, Listing
<1>4. CASE StopInstance
  <2>1. PICK n \in snapshot :
          /\ snapshot' = snapshot \ {n}
          /\ \/ asked' = asked \cup {<<n, instance[n]>>}
             \/ /\ <<n, instance[n]>> \in Objects => n \in Stubborn
                /\ asked' = asked
    BY <1>4 DEF StopInstance
  <2>2. main = "stopping" /\ main' = main /\ to_visit' = to_visit
    BY <1>4 DEF StopInstance
  <2>3. <<n, instance[n]>> \notin Objects => instance[n] = 0
    <3>1. n \in Names /\ instance[n] \in 0..MaxCopies
      BY DEF IInv, MapKinds, MainKinds
    <3>2. QED
      BY <3>1, ManyObjects
  <2>4. ASSUME NEW i \in Names
        PROVE  \/ instance'[i] = 0
               \/ <<i, instance'[i]>> \in asked' \cup late'
               \/ i \in Stubborn \cup snapshot'
               \/ ManagerOf[i] \in to_visit'
    <3>1. \/ instance[i] = 0
          \/ <<i, instance[i]>> \in asked \cup late
          \/ i \in Stubborn \cup snapshot
          \/ ManagerOf[i] \in to_visit
      BY <2>2 DEF Accounted
    <3>2. CASE i # n
      BY <1>1, <2>1, <2>2, <3>1, <3>2
    <3>3. CASE i = n
      BY <1>1, <2>1, <2>2, <2>3, <3>3
    <3>4. QED
      BY <3>2, <3>3
  <2>5. QED
    BY <2>2, <2>4 DEF Accounted, Listing
<1>5. CASE StopCore
  <2>1. /\ main = "stopping" /\ snapshot = {} /\ to_visit = {}
        /\ main' = "joining" /\ UNCHANGED <<asked, to_visit, snapshot>>
    BY <1>5 DEF StopCore
  <2>2. QED
    BY <1>1, <2>1 DEF Accounted, Listing
<1>6. CASE \/ ListRaises \/ AllThreadsStopped \/ RequestShutdown
           \/ \E o \in Objects : ThreadEnds(o)
  <2>1. /\ main' = main \/ main' \in {"escaped", "ended"}
        /\ UNCHANGED <<asked, to_visit, snapshot>>
    BY <1>6 DEF ListRaises, AllThreadsStopped, RequestShutdown, ThreadEnds,
                mainVars
  <2>2. QED
    BY <1>1, <2>1 DEF Accounted, Listing
<1>7. QED
  BY <1>2, <1>3, <1>4, <1>5, <1>6 DEF ShutdownStep

-----------------------------------------------------------------------------
(* What the settings file lists is there once epoch has come through.      *)

Present(n) == instance[n] # 0 \/ Appended(n)

\* Of the managers epoch has done with, of the entries it has passed, and of
\* the name it has just entered.
Booted ==
    /\ \A i \in 1..up : \A n \in Range(Listed[Boot[i]]) : Present(n)
    /\ at[Main] # "idle" =>
          /\ \A i \in 1..done[Main] : Present(listed[manager[Main]][i])
          /\ at[Main] = "starting" => Present(name[Main])

LEMMA AppendedKept ==
    ASSUME IInv, Origins, AddNewDevice, NEW n \in Names, Appended(n)
    PROVE  Appended(n)'
<1>1. PICK m \in Managers : m = ManagerOf[n]
  BY LifecycleAssumption
<1>2. /\ Len(listed[m]) \in Nat /\ Len(listed'[m]) \in Nat
      /\ Len(listed[m]) <= Len(listed'[m])
      /\ \A i \in 1..Len(listed[m]) : listed'[m][i] = listed[m][i]
  BY DeviceListGrows
<1>3. Len(Listed[m]) \in Nat
  BY LifecycleAssumption
<1>4. PICK i \in (Len(Listed[m]) + 1)..Len(listed[m]) : listed[m][i] = n
  BY <1>1 DEF Appended
<1>5. /\ i \in (Len(Listed[m]) + 1)..Len(listed'[m])
      /\ listed'[m][i] = n
  BY <1>2, <1>3, <1>4
<1>6. QED
  BY <1>1, <1>5 DEF Appended

LEMMA PresentKept ==
    ASSUME IInv, Origins, NEW n \in Names, Present(n),
           \/ \E c \in Callers : Carries(c)
           \/ AddNewDevice
           \/ UNCHANGED <<instance, listed>>
    PROVE  Present(n)'
<1>1. CASE AddNewDevice
  <2>1. instance' = instance
    BY <1>1, DeviceListGrows
  <2>2. QED
    BY <1>1, <2>1, AppendedKept DEF Present
<1>2. ASSUME NEW c \in Callers, Carries(c)
      PROVE  Present(n)'
  <2>1. Appended(n) => Appended(n)'
    BY <1>2, AppendedStays DEF Carries
  <2>2. CASE instance[n] # 0 /\ instance'[n] = 0
    <3>1. at[Enum] = "removing" /\ n = name[Enum]
      BY <1>2, <2>2 DEF Carries
    <3>2. Appended(n)
      BY <3>1 DEF Origins, Discovered
    <3>3. QED
      BY <2>1, <3>2 DEF Present
  <2>3. QED
    BY <2>1, <2>2 DEF Present
<1>3. CASE UNCHANGED <<instance, listed>>
  BY <1>3, AppendedStays DEF Present
<1>4. QED
  BY <1>1, <1>2, <1>3

LEMMA ListedNames ==
    ASSUME NEW i \in 1..Len(Boot), NEW n \in Range(Listed[Boot[i]])
    PROVE  n \in Names
<1>1. Listed[Boot[i]] \in Seq(Names)
  BY BootOrder, LifecycleAssumption
<1>2. QED
  BY <1>1 DEF Range

LEMMA WalkedEntry ==
    ASSUME IInv, NEW i \in 1..done[Main]
    PROVE  /\ manager[Main] \in Managers
           /\ i \in 1..Len(listed[manager[Main]])
           /\ listed[manager[Main]][i] \in Names
<1>1. PICK m \in Managers : m = manager[Main]
  BY Threads DEF IInv, CallKinds
<1>2. PICK d \in Nat : d = done[Main]
  BY Threads DEF IInv, CallKinds
<1>3. d <= Len(listed[m]) /\ listed[m] \in Seq(Names)
  BY <1>1, <1>2, Threads DEF IInv, Walks, MapKinds
<1>4. i \in 1..Len(listed[m])
  BY <1>2, <1>3
<1>5. QED
  BY <1>1, <1>3, <1>4

\* A step that is not the main thread's.
LEMMA BootedElsewhere ==
    ASSUME IInv, Booted, UNCHANGED up,
           UNCHANGED <<at[Main], manager[Main], done[Main], name[Main]>>,
           \A n \in Names : Present(n) => Present(n)',
           \A m \in Managers : \A i \in 1..Len(listed[m]) :
              listed'[m][i] = listed[m][i]
    PROVE  Booted'
<1>1. ASSUME NEW i \in 1..up, NEW n \in Range(Listed[Boot[i]])
      PROVE  Present(n)'
  <2>1. i \in 1..Len(Boot)
    BY BootOrder DEF IInv, MainKinds
  <2>2. n \in Names
    BY <2>1, ListedNames
  <2>3. QED
    BY <2>2 DEF Booted
<1>2. ASSUME at[Main] # "idle", NEW i \in 1..done[Main]
      PROVE  Present(listed[manager[Main]][i])'
  <2>1. PICK m \in Managers : m = manager[Main]
    BY WalkedEntry
  <2>2. PICK n \in Names : n = listed[m][i]
    BY <2>1, WalkedEntry
  <2>3. n = listed'[manager'[Main]][i]
    BY <2>1, <2>2, WalkedEntry
  <2>4. Present(n)
    BY <1>2, <2>1, <2>2 DEF Booted
  <2>5. Present(n)'
    BY <2>4
  <2>6. QED
    BY <2>3, <2>5
<1>3. ASSUME at[Main] = "starting"
      PROVE  Present(name[Main])'
  <2>1. PICK n \in Names : n = name[Main]
    BY Threads DEF IInv, CallKinds
  <2>2. Present(n)
    BY <1>3, <2>1 DEF Booted
  <2>3. Present(n)' /\ n = name'[Main]
    BY <2>1, <2>2
  <2>4. QED
    BY <2>3
<1>4. QED
  BY <1>1, <1>2, <1>3 DEF Booted

LEMMA BootedBefore ==
    ASSUME IInv, Booted, NEW i \in 1..up, NEW n \in Range(Listed[Boot[i]]),
           \A m \in Names : Present(m) => Present(m)'
    PROVE  Present(n)'
<1>1. i \in 1..Len(Boot)
  BY BootOrder DEF IInv, MainKinds
<1>2. n \in Names
  BY <1>1, ListedNames
<1>3. QED
  BY <1>2 DEF Booted

\* The main thread goes on in a list: what it has passed stays there.
LEMMA BootedFurther ==
    ASSUME IInv, Booted, UNCHANGED <<up, listed>>, at[Main] # "idle",
           manager'[Main] = manager[Main],
           \A n \in Names : Present(n) => Present(n)',
           NEW e, e = Entry(Main),
           \/ done'[Main] = done[Main]
           \/ done'[Main] = done[Main] + 1 /\ Present(e)',
           at'[Main] = "starting" => Present(name[Main])'
    PROVE  Booted'
<1>1. \A i \in 1..up : \A n \in Range(Listed[Boot[i]]) : Present(n)'
  BY BootedBefore
<1>2. PICK m \in Managers : m = manager[Main]
  BY Threads DEF IInv, CallKinds
<1>3. PICK d \in Nat : d = done[Main]
  BY Threads DEF IInv, CallKinds
<1>4. ASSUME NEW i \in 1..done'[Main]
      PROVE  Present(listed[manager[Main]][i])'
  <2>1. CASE i \in 1..d
    <3>1. PICK n \in Names : n = listed[m][i]
      BY <1>2, <1>3, <2>1, WalkedEntry
    <3>2. Present(n)
      BY <1>2, <1>3, <2>1, <3>1 DEF Booted
    <3>3. Present(n)' /\ n = listed'[manager'[Main]][i]
      BY <1>2, <3>1, <3>2
    <3>4. QED
      BY <3>3
  <2>2. CASE i \notin 1..d
    <3>1. i = d + 1 /\ done'[Main] = done[Main] + 1
      BY <1>3, <1>4, <2>2
    <3>2. Present(e)'
      BY <1>3, <3>1
    <3>3. e = listed'[manager'[Main]][i]
      BY <1>3, <3>1 DEF Entry
    <3>4. QED
      BY <3>2, <3>3
  <2>3. QED
    BY <2>1, <2>2
<1>5. QED
  BY <1>1, <1>4 DEF Booted

LEMMA BootedIdle ==
    ASSUME IInv, Booted, UNCHANGED up, at'[Main] = "idle",
           \A n \in Names : Present(n) => Present(n)'
    PROVE  Booted'
  BY BootedBefore DEF Booted

LEMMA BootedMain ==
    ASSUME IInv, Origins, Booted, StartManager \/ WalkStep(Main)
    PROVE  Booted'
<1>1. Main \in Callers /\ Main \in Walkers /\ Main # Enum /\ Carries(Main)
  BY WalkStepCarries, Threads
<1>2. \A n \in Names : Present(n) => Present(n)'
  BY <1>1, PresentKept
<1>3. UNCHANGED listed
  BY <1>1 DEF Carries
<1>4. /\ done \in [Walkers -> Nat] /\ at \in [Callers -> Where]
      /\ manager \in [Walkers -> Managers] /\ name \in [Callers -> Names]
      /\ instance \in [Names -> 0..MaxCopies]
  BY DEF IInv, CallKinds, MapKinds
<1>5. PICK e : e = Entry(Main)
  OBVIOUS
<1>6. CASE StartManager
  <2>1. /\ Begin(Main, Boot[up + 1]) /\ UNCHANGED up
    BY <1>6 DEF StartManager, Begin, mainVars
  <2>2. at'[Main] = "walking" /\ done'[Main] = 0
    BY <1>1, <1>4, <2>1 DEF Begin
  <2>3. \A i \in 1..up : \A n \in Range(Listed[Boot[i]]) : Present(n)'
    BY <1>2, BootedBefore
  <2>4. QED
    BY <2>1, <2>2, <2>3 DEF Booted
<1>7. CASE WalkEnds(Main)
  <2>1. /\ at[Main] = "walking" /\ up' = up + 1 /\ at'[Main] = "idle"
        /\ done[Main] = Len(listed[manager[Main]])
    BY <1>1, <1>4, <1>7 DEF WalkEnds, Returned, Rests
  <2>2. PICK m \in Managers : m = manager[Main] /\ m = Boot[up + 1]
    BY <1>1, <1>4, <2>1 DEF IInv, Places
  <2>3. ASSUME NEW i \in 1..up', NEW n \in Range(Listed[Boot[i]])
        PROVE  Present(n)'
    <3>1. CASE i \in 1..up
      BY <1>2, <3>1, BootedBefore
    <3>2. CASE i \notin 1..up
      <4>1. i = up + 1 /\ Boot[i] = m
        <5>1. up \in Nat
          BY BootOrder DEF IInv, MainKinds
        <5>2. QED
          BY <2>1, <2>2, <3>2, <5>1
      <4>2. /\ Listed[m] \in Seq(Names) /\ listed[m] \in Seq(Names)
            /\ Len(Listed[m]) <= Len(listed[m])
            /\ \A j \in 1..Len(Listed[m]) : listed[m][j] = Listed[m][j]
        BY LifecycleAssumption DEF IInv, MapKinds, Origins, Grown
      <4>3. PICK j \in 1..Len(Listed[m]) : n = Listed[m][j]
        BY <4>1, <4>2 DEF Range
      <4>4. j \in 1..done[Main] /\ n = listed[m][j] /\ n \in Names
        BY <2>1, <2>2, <4>2, <4>3
      <4>5. Present(n)
        BY <2>1, <2>2, <4>4 DEF Booted
      <4>6. QED
        BY <1>2, <4>4, <4>5
    <3>3. QED
      BY <3>1, <3>2
  <2>4. QED
    BY <2>1, <2>3 DEF Booted
<1>8. CASE WalkSkip(Main)
  <2>1. /\ UNCHANGED <<up, at, manager, name, instance>>
        /\ at[Main] = "walking" /\ done'[Main] = done[Main] + 1
        /\ instance[Entry(Main)] # 0
    BY <1>1, <1>4, <1>8 DEF WalkSkip, InWalk, mainVars
  <2>2. Present(e)'
    BY <1>5, <2>1 DEF Present
  <2>3. QED
    BY <1>2, <1>3, <1>5, <2>1, <2>2, BootedFurther
<1>9. CASE WalkNew(Main)
  <2>1. /\ UNCHANGED <<up, manager, done>>
        /\ at[Main] = "walking" /\ at'[Main] = "checking"
    BY <1>1, <1>4, <1>9 DEF WalkNew, InWalk, mainVars
  <2>2. QED
    BY <1>2, <1>3, <1>5, <2>1, BootedFurther
<1>10. ASSUME NEW banish, Raised(Main, banish), at[Main] # "idle"
       PROVE  Booted'
  <2>1. Raise(Main)
    BY <1>1, <1>10, RaisedEffect
  <2>2. at'[Main] = "idle" /\ UNCHANGED up
    BY <1>1, <2>1 DEF Raise
  <2>3. QED
    BY <1>2, <2>2, BootedIdle
<1>11. CASE \/ Check(Main) \/ TestChannels(Main) \/ AddChannels(Main)
            \/ Build(Main)
  <2>1. /\ UNCHANGED <<up, manager, done>>
        /\ \E from \in {"checking", "opening", "adding", "building"},
              to \in {"building", "adding", "storing", "opening"} :
              Go(Main, from, to)
    BY <1>11 DEF Check, TestChannels, AddChannels, Build, mainVars
  <2>2. at[Main] # "idle" /\ at'[Main] # "starting"
    BY <1>1, <1>4, <2>1 DEF Go
  <2>3. QED
    BY <1>2, <1>3, <1>5, <2>1, <2>2, BootedFurther
<1>12. CASE Store(Main)
  <2>1. /\ UNCHANGED <<up, manager, done, name>>
        /\ at[Main] = "storing"
        /\ instance' = [instance EXCEPT ![name[Main]] = copy[Main]]
    BY <1>12 DEF Store, Go, mainVars
  <2>2. copy[Main] # 0
    BY <1>1, <2>1 DEF IInv, Places, InHand
  <2>3. PICK n \in Names : n = name[Main]
    BY <1>1, <1>4
  <2>4. Present(n)' /\ n = name'[Main]
    BY <1>4, <2>1, <2>2, <2>3 DEF Present
  <2>5. QED
    BY <1>2, <1>3, <1>5, <2>1, <2>4, BootedFurther
<1>13. CASE Start(Main)
  <2>1. /\ UNCHANGED <<up, manager>>
        /\ at[Main] = "starting" /\ at'[Main] = "walking"
        /\ done'[Main] = done[Main] + 1
    BY <1>1, <1>4, <1>13 DEF Start, mainVars
  <2>2. e = name[Main] /\ e \in Names
    BY <1>1, <1>4, <1>5, <2>1 DEF IInv, Walks, Creating
  <2>3. Present(name[Main])
    BY <2>1 DEF Booted
  <2>4. Present(e)'
    <3>1. Present(e)
      BY <2>2, <2>3
    <3>2. QED
      BY <1>2, <2>2, <3>1
  <2>5. QED
    BY <1>2, <1>3, <1>5, <2>1, <2>4, BootedFurther
<1>14. CASE \/ WalkDuplicate(Main) \/ CheckRaises(Main) \/ BuildRaises(Main)
            \/ AddRaises(Main) \/ StartRaises(Main)
  <2>1. at[Main] # "idle" /\ \E banish \in BOOLEAN : Raised(Main, banish)
    BY <1>14 DEF WalkDuplicate, InWalk, CheckRaises, BuildRaises, AddRaises,
                 StartRaises
  <2>2. QED
    BY <1>10, <2>1
<1>15. QED
  BY <1>6, <1>7, <1>8, <1>9, <1>11, <1>12, <1>13, <1>14
  DEF WalkStep, NewStep

-----------------------------------------------------------------------------
Whole == IInv /\ Origins /\ Accounted /\ Listing /\ Booted

LEMMA WholeCaller ==
    ASSUME Whole, NEW c \in Callers, Carries(c), Settles,
           c = Main => Booted'
    PROVE  Origins' /\ Accounted' /\ Listing' /\ Booted'
<1>1. Origins' /\ Accounted' /\ Listing'
  BY OriginsCarried, SettlesAccounts DEF Whole
<1>2. CASE c # Main
  <2>1. \A n \in Names : Present(n) => Present(n)'
    BY PresentKept DEF Whole
  <2>2. /\ UNCHANGED <<up, listed>>
        /\ UNCHANGED <<at[Main], manager[Main], done[Main], name[Main]>>
    BY <1>2, Threads DEF Carries, Moves
  <2>3. QED
    BY <1>1, <2>1, <2>2, BootedElsewhere DEF Whole
<1>3. QED
  BY <1>1, <1>2

LEMMA WholeNext == Whole /\ [Next]_vars => Whole'
<1> SUFFICES ASSUME Whole, [Next]_vars PROVE Whole'
  OBVIOUS
<1>1. IInv'
  BY InvNext DEF Whole
<1>2. CASE StartManager \/ WalkStep(Main)
  BY <1>1, <1>2, WalkStepCarries, BootedMain, WholeCaller, Threads DEF Whole
<1>3. ASSUME NEW w \in Walkers, w # Main, ApplySettings(w) \/ WalkStep(w)
      PROVE  Whole'
  BY <1>1, <1>3, WalkStepCarries, WholeCaller, Threads DEF Whole
<1>4. CASE EnumStep
  BY <1>1, <1>4, EnumStepCarries, WholeCaller, Threads DEF Whole
<1>5. CASE AddNewDevice
  <2>1. Origins' /\ Accounted' /\ Listing'
    BY <1>5, AddOrigins, AddSettles, SettlesAccounts DEF Whole
  <2>2. \A n \in Names : Present(n) => Present(n)'
    BY <1>5, PresentKept DEF Whole
  <2>3. /\ UNCHANGED up
        /\ UNCHANGED <<at[Main], manager[Main], done[Main], name[Main]>>
        /\ \A m \in Managers : \A i \in 1..Len(listed[m]) :
              listed'[m][i] = listed[m][i]
    <3>1. /\ UNCHANGED <<mainVars, manager, done>>
          /\ at' = [at EXCEPT ![Enum] = "looking"]
          /\ \E n \in Names : name' = [name EXCEPT ![Enum] = n]
      BY <1>5, DeviceListGrows DEF Whole
    <3>2. \A m \in Managers : \A i \in 1..Len(listed[m]) :
             listed'[m][i] = listed[m][i]
      BY <1>5, DeviceListGrows DEF Whole
    <3>3. QED
      BY <3>1, <3>2, Threads DEF Whole, IInv, CallKinds, mainVars
  <2>4. Booted'
    BY <2>2, <2>3, BootedElsewhere DEF Whole
  <2>5. QED
    BY <1>1, <2>1, <2>4 DEF Whole
<1>6. CASE \/ ShutdownStep \/ RequestShutdown
           \/ \E o \in Objects : ThreadEnds(o)
  <2>1. Origins' /\ Accounted' /\ Listing'
    BY <1>6, ShutdownOrigins, ShutdownAccounts DEF Whole
  <2>2. UNCHANGED <<up, callVars, listed, instance>>
    BY <1>6 DEF ShutdownStep, RequestShutdown, ThreadEnds, Shutdown,
       ListInstances, ListRaises, StopInstance, StopCore, AllThreadsStopped,
       mainVars
  <2>3. \A n \in Names : Present(n) => Present(n)'
    BY <2>2, PresentKept DEF Whole
  <2>4. Booted'
    BY <2>2, <2>3, BootedElsewhere DEF Whole, callVars
  <2>5. QED
    BY <1>1, <2>1, <2>4 DEF Whole
<1>7. CASE UNCHANGED vars
  <2>1. UNCHANGED <<main, up, to_visit, snapshot, at, manager, done, name,
                    listed, instance, thread, asked, late>>
    BY <1>7 DEF vars, mainVars, callVars
  <2>2. Origins' /\ Accounted' /\ Listing'
    BY <2>1 DEF Whole, Origins, Born, Grown, Discovered, Appended, Registered,
                Accounted, Listing
  <2>3. \A n \in Names : Present(n) => Present(n)'
    BY <2>1, PresentKept DEF Whole
  <2>4. Booted'
    BY <2>1, <2>3, BootedElsewhere DEF Whole
  <2>5. QED
    BY <1>1, <2>2, <2>4 DEF Whole
<1>8. ASSUME NEW w \in Walkers, ApplySettings(w) \/ WalkStep(w)
      PROVE  Whole'
  <2>1. CASE w = Main
    BY <1>2, <1>8, <2>1, Threads DEF ApplySettings
  <2>2. CASE w # Main
    BY <1>3, <1>8, <2>2
  <2>3. QED
    BY <2>1, <2>2
<1>9. QED
  BY <1>2, <1>4, <1>5, <1>6, <1>7, <1>8 DEF Next

LEMMA WholeInit == Init => Whole
<1> SUFFICES ASSUME Init PROVE Whole
  OBVIOUS
<1>1. IInv
  BY InvInit
<1>2. /\ main = "booting" /\ up = 0 /\ listed = Listed
      /\ \A n \in Names : instance[n] = 0
      /\ \A o \in Objects : thread[o] = "none"
      /\ \A c \in Callers : at[c] = "idle"
      /\ \A w \in Walkers : manager[w] = Boot[1]
  BY Threads DEF Init
<1>3. Born
  BY <1>1, <1>2, FirstRegistered DEF Born
<1>4. Grown
  <2>1. ASSUME NEW m \in Managers
        PROVE  /\ Len(Listed[m]) <= Len(Listed[m])
               /\ \A i \in 1..Len(Listed[m]) : ManagerOf[Listed[m][i]] = m
    <3>1. Listed[m] \in Seq(Names)
      BY LifecycleAssumption
    <3>2. \A i \in 1..Len(Listed[m]) : /\ Listed[m][i] \in Range(Listed[m])
                                       /\ Listed[m][i] \in Names
      BY <3>1 DEF Range
    <3>3. QED
      BY <3>1, <3>2, LifecycleAssumption
  <2>2. QED
    BY <1>2, <2>1 DEF Grown
<1>5. Discovered
  BY <1>2, Threads DEF Discovered
<1>6. Accounted /\ Listing
  BY <1>2 DEF Accounted, Listing
<1>7. Booted
  <2>1. \A i \in 1..up : FALSE
    BY <1>2
  <2>2. QED
    BY <1>2, <2>1, Threads DEF Booted
<1>8. QED
  BY <1>1, <1>3, <1>4, <1>5, <1>6, <1>7 DEF Whole, Origins

LEMMA WholeAlways == Spec => []Whole
  BY WholeInit, WholeNext, PTL DEF Spec

LEMMA WholeStray == Whole => StrayForCause
<1> SUFFICES ASSUME Whole, NEW o \in Strays, instance[o[1]] = o[2]
             PROVE  o \in late \/ o[1] \in Stubborn
  BY DEF StrayForCause
<1>1. o \in Objects /\ main = "joining" /\ o \notin asked
  BY DEF Strays
<1>2. PICK n \in Names, k \in 1..MaxCopies : o = <<n, k>>
  BY <1>1 DEF Objects
<1>3. instance[n] = k /\ k # 0
  BY <1>2, LifecycleAssumption
<1>4. snapshot = {} /\ to_visit = {}
  BY <1>1 DEF Whole, Listing
<1>5. <<n, k>> \in asked \cup late \/ n \in Stubborn
  BY <1>1, <1>3, <1>4 DEF Whole, Accounted
<1>6. QED
  BY <1>1, <1>2, <1>5

LEMMA WholeConfigured == Whole => ConfiguredStays
<1> SUFFICES ASSUME Whole, up = Len(Boot), NEW m \in Managers,
                    NEW n \in Range(Listed[m]), instance[n] = 0
             PROVE  \E i \in (Len(Listed[m]) + 1)..Len(listed[m]) :
                       listed[m][i] = n
  BY DEF ConfiguredStays
<1>1. PICK i \in 1..Len(Boot) : Boot[i] = m
  BY LifecycleAssumption DEF Managers, Range
<1>2. Present(n)
  BY <1>1 DEF Whole, Booted
<1>3. n \in Names
  BY <1>1, ListedNames
<1>4. ManagerOf[n] = m
  BY <1>3, LifecycleAssumption
<1>5. QED
  BY <1>2, <1>4 DEF Present, Appended

\* A thread _shutdown waits for without having asked it to stop is one whose
\* instance entered its manager's map after _shutdown listed that manager,
\* whose stop() raised, or whose place in the map another object has taken
\* (core/core_services.py, _shutdown; abstract_service_manager.py,
\* instance_new).
THEOREM StrayOnlyForCause == Spec => []StrayForCause
  BY WholeAlways, WholeStray, PTL

\* Once epoch has come through, every instance the settings file lists is in
\* its manager's map, however the auto enumeration made the list grow while
\* it was walked, unless a device of that very name was discovered and the
\* attempt to add it failed (abstract_service_manager.py,
\* _reenumerate_services; xbee_autoenum.py, __add_new_device).
THEOREM ConfiguredInstancesStay == Spec => []ConfiguredStays
  BY WholeAlways, WholeConfigured, PTL
=============================================================================
