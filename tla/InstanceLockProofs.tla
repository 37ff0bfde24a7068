------------------------ MODULE InstanceLockProofs ------------------------
(***************************************************************************)
(* Theorems about InstanceLock, for every set of processes.                *)
(*                                                                         *)
(* Until a process robs another of its lock file, every process is         *)
(* Protected: past lock(), the socket or the library's lock is its own,    *)
(* and past the creation of the file, the file is the one it made.  Two    *)
(* protected processes cannot both be past lock().  Where file locks are   *)
(* made with O_EXCL and os.open() fails for no other reason than EEXIST,   *)
(* the file a process removes is its own, so that none is ever robbed.     *)
(*                                                                         *)
(* The second half looks at what refuses a start: a lock file is one that  *)
(* some process has open, was left by a process that died, or could not be *)
(* removed (Accounted).                                                    *)
(***************************************************************************)
EXTENDS InstanceLock, TLAPS

\* The platforms on which no process can be robbed.
SafeKinds ==
    /\ "stat" \notin Kinds
    /\ "exclusive" \in Kinds => ~OpenFaults

FileKind == kind \in {"exclusive", "stat"}

\* The places at which a process has made the lock file.
HasFile ==
    Owning \cup {"writing", "verifying"}
           \cup (IF OpenFaults THEN {} ELSE {"cleanup"})

Protected(p) ==
    /\ FileKind /\ pc[p] \in HasFile => lockfile # Missing /\ lockfile.maker = p
    /\ ~FileKind /\ pc[p] \in Owning => holder = p

\* Which places a process can be at, by the kind of lock.
Placed(p) ==
    /\ ~FileKind => /\ opened[p] = Nobody
                    /\ pc[p] \in Owning \cup {"off", "locking"}
    /\ pc[p] = "opening" => kind = "stat"

Guarded == robbed \/ \A p \in Processes : Protected(p)

IInv ==
    /\ TypeOK
    /\ \A p \in Processes : Placed(p)
    /\ Guarded
    /\ SafeKinds => ~robbed

-----------------------------------------------------------------------------
\* What Protected says of two processes.
LEMMA ProtectedExcludes == Guarded => SingleUnlessRobbed
<1> SUFFICES ASSUME \A r \in Processes : Protected(r),
                    NEW p \in Processes, NEW q \in Processes, Owns(p), Owns(q)
             PROVE  p = q
  BY DEF Guarded, SingleUnlessRobbed, MutualExclusion
<1>1. Protected(p) /\ Protected(q)
  OBVIOUS
<1>2. QED
  BY <1>1 DEF Protected, Owns, HasFile

LEMMA InitIInv == Init => IInv
  BY InstanceLockAssumption
     DEF Init, IInv, TypeOK, Placed, Guarded, Protected, HasFile, Owning, File

\* A file that is made, or written, is a file.
LEMMA Files ==
    /\ \A p \in Processes, w \in BOOLEAN :
          /\ [maker |-> p, written |-> w] \in File
          /\ [maker |-> p, written |-> w] # Missing
    /\ \A f \in File : /\ f.maker \in Processes
                       /\ [f EXCEPT !.written = TRUE] \in File
                       /\ [f EXCEPT !.written = TRUE] # Missing
                       /\ [f EXCEPT !.written = TRUE].maker = f.maker
<1>1. \A f \in File : f # Missing
  BY InstanceLockAssumption DEF File
<1>2. \A p \in Processes, w \in BOOLEAN : [maker |-> p, written |-> w] \in File
  BY DEF File
<1>3. \A f \in File : /\ f.maker \in Processes
                      /\ [f EXCEPT !.written = TRUE] \in File
                      /\ [f EXCEPT !.written = TRUE].maker = f.maker
  BY DEF File
<1>4. QED
  BY <1>1, <1>2, <1>3

-----------------------------------------------------------------------------
(* What the parts of the actions do to the types and the places.           *)

Sound == TypeOK /\ \A r \in Processes : Placed(r)

LEMMA EndIsSound ==
    ASSUME Sound, NEW p \in Processes, Ends(p),
           lockfile' \in File \cup {Missing}, refused' \subseteq Processes,
           unclean' \in BOOLEAN, leftover' \in BOOLEAN, robbed' \in BOOLEAN
    PROVE  Sound'
  BY InstanceLockAssumption
     DEF Sound, TypeOK, Placed, FileKind, Ends, Goto, Owning

LEMMA MoveIsSound ==
    ASSUME Sound, NEW p \in Processes, NEW place, Goto(p, place),
           FileKind,
           pc[p] \in Owning => place \in Owning,
           place \in Owning \cup {"opening", "verifying", "cleanup"},
           opened[p] # Nobody => place # "opening",
           place = "opening" => kind = "stat",
           lockfile' \in File \cup {Missing},
           UNCHANGED <<kind, holder, opened, history>>
    PROVE  Sound'
  BY InstanceLockAssumption
     DEF Sound, TypeOK, Placed, FileKind, Goto, Owning, history

LEMMA OpenIsSound ==
    ASSUME Sound, NEW p \in Processes, OpenFile(p), FileKind,
           pc[p] \in {"locking", "opening"}
    PROVE  Sound'
<1>1. /\ lockfile' \in File
      /\ lockfile'.maker \in Processes
  BY Files DEF OpenFile, Sound, TypeOK
<1>2. robbed' \in BOOLEAN
  BY DEF OpenFile, Sound, TypeOK
<1>3. QED
  BY <1>1, <1>2, InstanceLockAssumption
     DEF Sound, TypeOK, Placed, FileKind, OpenFile, Goto, Owning

LEMMA SoundStep == Sound /\ [Next]_vars => Sound'
<1> SUFFICES ASSUME Sound, [Next]_vars PROVE Sound'
  OBVIOUS
<1>0. /\ TypeOK
      /\ \A p \in Processes : Placed(p)
  BY DEF Sound
<1>1. ASSUME NEW p \in Processes, Launch(p) PROVE Sound'
  BY <1>0, <1>1, InstanceLockAssumption
     DEF Launch, Goto, Sound, TypeOK, Placed, FileKind, Owning
<1>2. ASSUME NEW p \in Processes, EndsUnclean(p) PROVE Sound'
  <2>1. unclean' \in BOOLEAN
    BY <1>2 DEF EndsUnclean
  <2>2. QED
    BY <1>0, <1>2, <2>1, EndIsSound DEF EndsUnclean, TypeOK
<1>3. ASSUME NEW p \in Processes, Refuse(p) PROVE Sound'
  BY <1>0, <1>3, EndIsSound DEF Refuse, TypeOK
<1>4. ASSUME NEW p \in Processes, CleansUp(p), pc[p] \notin Owning, FileKind
      PROVE  Sound'
  <2>1. QED
    BY <1>0, <1>4, MoveIsSound DEF CleansUp, TypeOK, history, Owning
<1>5. ASSUME NEW p \in Processes, RemoveFile(p), Ends(p),
             UNCHANGED <<refused, unclean>>
      PROVE  Sound'
  <2>1. robbed' \in BOOLEAN /\ leftover' \in BOOLEAN
    BY <1>0, <1>5 DEF RemoveFile, TypeOK
  <2>2. QED
    BY <1>0, <1>5, <2>1, EndIsSound DEF RemoveFile, TypeOK
<1>6. ASSUME NEW p \in Processes, Locking(p) PROVE Sound'
  <2>1. ASSUME pc[p] = "locking", holder = Nobody, holder' = p, ~FileKind,
               Goto(p, "configuring"), UNCHANGED <<kind, lockfile, opened, history>>
        PROVE  Sound'
    BY <1>0, <2>1, InstanceLockAssumption
       DEF Sound, TypeOK, Placed, FileKind, Goto, Owning, history
  <2>2. CASE MakeSocketLock(p)
    BY <1>2, <1>3, <2>1, <2>2 DEF MakeSocketLock, FileKind
  <2>3. CASE MakeSarosLock(p)
    BY <1>3, <2>1, <2>3 DEF MakeSarosLock, FileKind
  <2>4. CASE MakeFileLockAtomic(p)
    BY <1>3, <1>4, <2>4, OpenIsSound DEF MakeFileLockAtomic, FileKind, Owning
  <2>5. CASE StatLockFile(p)
    <3>1. CASE Refuse(p)
      BY <1>3, <3>1
    <3>2. CASE /\ Goto(p, "opening")
               /\ UNCHANGED <<kind, holder, lockfile, opened, history>>
      BY <1>0, <2>5, <3>2, MoveIsSound
         DEF StatLockFile, FileKind, TypeOK, Owning
    <3>3. QED
      BY <2>5, <3>1, <3>2 DEF StatLockFile
  <2>6. CASE MakeFileLockNonatomic(p)
    <3>1. FileKind /\ pc[p] = "opening"
      BY <1>0, <2>6 DEF MakeFileLockNonatomic, Placed, FileKind
    <3>2. QED
      BY <1>4, <2>6, <3>1, OpenIsSound DEF MakeFileLockNonatomic, Owning
  <2>7. CASE WriteForVerification(p)
    <3>1. FileKind /\ pc[p] = "writing"
      BY <1>0, <2>7 DEF WriteForVerification, Placed, Owning
    <3>2. CASE CleansUp(p)
      BY <1>4, <3>1, <3>2 DEF Owning
    <3>3. CASE /\ lockfile' = IF lockfile # Missing /\ lockfile.maker = opened[p]
                              THEN [lockfile EXCEPT !.written = TRUE]
                              ELSE lockfile
               /\ Goto(p, "verifying")
               /\ UNCHANGED <<kind, holder, opened, history>>
      <4>1. lockfile' \in File \cup {Missing}
        BY <1>0, <3>3, Files DEF TypeOK
      <4>2. QED
        BY <3>1, <3>3, <4>1, MoveIsSound DEF Owning
    <3>4. QED
      BY <2>7, <3>2, <3>3 DEF WriteForVerification
  <2>8. CASE VerifyFileWritten(p)
    <3>1. FileKind /\ pc[p] = "verifying"
      BY <1>0, <2>8 DEF VerifyFileWritten, Placed, Owning
    <3>2. CASE CleansUp(p)
      BY <1>4, <3>1, <3>2 DEF Owning
    <3>3. CASE /\ Goto(p, "configuring")
               /\ UNCHANGED <<kind, holder, lockfile, opened, history>>
      BY <1>0, <3>1, <3>3, MoveIsSound DEF Owning, TypeOK
    <3>4. QED
      BY <2>8, <3>2, <3>3 DEF VerifyFileWritten
  <2>9. CASE EmergencyCleanup(p)
    BY <1>5, <2>9 DEF EmergencyCleanup
  <2>10. QED
    BY <1>6, <2>2, <2>3, <2>4, <2>5, <2>6, <2>7, <2>8, <2>9 DEF Locking
<1>7. ASSUME NEW p \in Processes, Owned(p) PROVE Sound'
  <2>1. ASSUME NEW place \in Owning, pc[p] \in Owning, Goto(p, place),
               UNCHANGED <<kind, holder, lockfile, opened, history>>
        PROVE  Sound'
    BY <1>0, <2>1, InstanceLockAssumption
       DEF Sound, TypeOK, Placed, FileKind, Goto, Owning, history
  <2>2. CASE Configure(p) \/ ShutDown(p) \/ CoreStopped(p)
    BY <2>1, <2>2 DEF Configure, ShutDown, CoreStopped, Owning
  <2>3. CASE ConfigureFails(p) \/ CoreStopFails(p)
    BY <1>2, <2>3 DEF ConfigureFails, CoreStopFails
  <2>4. CASE Unlock(p)
    BY <1>0, <1>5, <2>4, EndIsSound DEF Unlock, TypeOK
  <2>5. QED
    BY <1>7, <2>2, <2>3, <2>4 DEF Owned
<1>8. ASSUME NEW p \in Processes, Kill(p) PROVE Sound'
  BY <1>2, <1>8 DEF Kill
<1>9. CASE Reboot
  <2>1. unclean' \in BOOLEAN /\ leftover' \in BOOLEAN
    BY <1>0, <1>9 DEF Reboot, TypeOK
  <2>2. QED
    BY <1>0, <1>9, <2>1, InstanceLockAssumption
       DEF Reboot, Sound, TypeOK, Placed, FileKind, Owning
<1>10. CASE UNCHANGED vars
  BY <1>0, <1>10 DEF vars, history, Sound, TypeOK, Placed, FileKind
<1>11. QED
  BY <1>1, <1>6, <1>7, <1>8, <1>9, <1>10 DEF Next

-----------------------------------------------------------------------------
(* What they do to the protection of every process.                        *)

Safe == Guarded /\ (SafeKinds => ~robbed)

\* A process that ends takes nothing from another but its own lock.
LEMMA EndIsSafe ==
    ASSUME Sound, Safe, NEW p \in Processes, Ends(p),
           UNCHANGED <<lockfile, robbed>>
    PROVE  Safe'
<1>1. ASSUME NEW q \in Processes, Protected(q) PROVE Protected(q)'
  BY <1>1 DEF Sound, TypeOK, Protected, FileKind, Ends, Goto, HasFile, Owning
<1>2. QED
  BY <1>1 DEF Safe, Guarded

\* Nor does one that stays where it has the file, or that has none.
LEMMA MoveIsSafe ==
    ASSUME Sound, Safe, NEW p \in Processes, NEW place, Goto(p, place),
           place \in HasFile => pc[p] \in HasFile,
           place \in Owning => pc[p] \in Owning \/ FileKind,
           UNCHANGED <<kind, holder, robbed>>,
           \/ lockfile' = lockfile
           \/ /\ lockfile # Missing /\ lockfile' # Missing
              /\ lockfile'.maker = lockfile.maker
    PROVE  Safe'
<1>1. ASSUME NEW q \in Processes, Protected(q) PROVE Protected(q)'
  BY <1>1 DEF Sound, TypeOK, Protected, FileKind, Goto, HasFile, Owning
<1>2. QED
  BY <1>1 DEF Safe, Guarded

\* A file that is there is cut only where stat() locks are used.
LEMMA OpenIsSafe ==
    ASSUME Sound, Safe, NEW p \in Processes, OpenFile(p), FileKind,
           kind = "exclusive" => lockfile = Missing
    PROVE  Safe'
<1>1. CASE lockfile # Missing
  <2>1. "stat" \in Kinds
    BY <1>1 DEF Sound, TypeOK, FileKind
  <2>2. QED
    BY <1>1, <2>1 DEF OpenFile, Safe, Guarded, SafeKinds
<1>2. CASE lockfile = Missing
  <2>1. /\ lockfile' # Missing /\ lockfile'.maker = p
        /\ pc' = [pc EXCEPT ![p] = "writing"]
        /\ robbed' = robbed
        /\ kind' = kind
    BY <1>2, Files DEF OpenFile, Goto, Sound, TypeOK
  <2>2. ASSUME NEW q \in Processes, Protected(q) PROVE Protected(q)'
    BY <1>2, <2>1, <2>2 DEF Sound, TypeOK, Protected, FileKind, HasFile, Owning
  <2>3. QED
    BY <2>1, <2>2 DEF Safe, Guarded
<1>3. QED
  BY <1>1, <1>2

\* The file a process removes is its own, or another is robbed, which takes
\* a stat() lock or a failed open.
LEMMA RemoveIsSafe ==
    ASSUME Sound, Safe, NEW p \in Processes, RemoveFile(p), Ends(p), FileKind,
           pc[p] \in HasFile \/ OpenFaults
    PROVE  Safe'
<1>0. CASE UNCHANGED <<lockfile, robbed>>
  BY <1>0, EndIsSafe
<1>1. CASE robbed' /\ ~robbed
  <2>1. lockfile # Missing /\ lockfile.maker # p
    BY <1>1 DEF RemoveFile
  <2>2. Protected(p)
    BY <1>1 DEF Safe, Guarded
  <2>3. pc[p] \notin HasFile
    BY <2>1, <2>2 DEF Protected
  <2>4. ~SafeKinds
    BY <2>3 DEF Sound, TypeOK, FileKind, SafeKinds
  <2>5. QED
    BY <1>1, <2>4 DEF Safe, Guarded, SafeKinds
<1>2. CASE lockfile' = Missing /\ ~robbed' /\ ~robbed
  <2>1. lockfile = Missing \/ lockfile.maker = p
    BY <1>2 DEF RemoveFile
  <2>2. ASSUME NEW q \in Processes, Protected(q) PROVE Protected(q)'
    BY <2>1, <2>2
       DEF Sound, TypeOK, Protected, FileKind, Ends, Goto, HasFile, Owning
  <2>3. QED
    BY <1>2, <2>2 DEF Safe, Guarded
<1>3. CASE robbed
  BY <1>3 DEF RemoveFile, Safe, Guarded, SafeKinds
<1>4. QED
  BY <1>0, <1>1, <1>2, <1>3 DEF RemoveFile, Sound, TypeOK

LEMMA SafeStep == Sound /\ Safe /\ [Next]_vars => Safe'
<1> SUFFICES ASSUME Sound, Safe, [Next]_vars PROVE Safe'
  OBVIOUS
<1>0. /\ TypeOK
      /\ \A p \in Processes : Placed(p)
  BY DEF Sound
<1>1. ASSUME NEW p \in Processes, Launch(p) PROVE Safe'
  BY <1>1, MoveIsSafe DEF Launch, HasFile, Owning
<1>2. ASSUME NEW p \in Processes, EndsUnclean(p) PROVE Safe'
  BY <1>2, EndIsSafe DEF EndsUnclean
<1>3. ASSUME NEW p \in Processes, Refuse(p) PROVE Safe'
  BY <1>3, EndIsSafe DEF Refuse
<1>4. ASSUME NEW p \in Processes, CleansUp(p), pc[p] \in HasFile \/ OpenFaults
      PROVE  Safe'
  BY <1>4, MoveIsSafe DEF CleansUp, HasFile, Owning, history
<1>5. ASSUME NEW p \in Processes, Locking(p) PROVE Safe'
  <2>1. ASSUME holder = Nobody, holder' = p, ~FileKind,
               Goto(p, "configuring"), UNCHANGED <<kind, lockfile, opened, history>>
        PROVE  Safe'
    <3>1. ASSUME NEW q \in Processes, Protected(q) PROVE Protected(q)'
      BY <1>0, <2>1, <3>1, InstanceLockAssumption
         DEF TypeOK, Protected, FileKind, Goto, Owning
    <3>2. QED
      BY <2>1, <3>1 DEF Safe, Guarded, history
  <2>2. CASE MakeSocketLock(p)
    BY <1>2, <1>3, <2>1, <2>2 DEF MakeSocketLock, FileKind
  <2>3. CASE MakeSarosLock(p)
    BY <1>3, <2>1, <2>3 DEF MakeSarosLock, FileKind
  <2>4. CASE MakeFileLockAtomic(p)
    BY <1>3, <1>4, <2>4, OpenIsSafe DEF MakeFileLockAtomic, FileKind
  <2>5. CASE StatLockFile(p)
    BY <1>3, <2>5, MoveIsSafe DEF StatLockFile, HasFile, Owning, history
  <2>6. CASE MakeFileLockNonatomic(p)
    <3>1. kind = "stat"
      BY <1>0, <2>6 DEF MakeFileLockNonatomic, Placed
    <3>2. QED
      BY <1>4, <2>6, <3>1, OpenIsSafe DEF MakeFileLockNonatomic, FileKind
  <2>7. CASE WriteForVerification(p)
    <3>1. CASE CleansUp(p)
      BY <1>4, <2>7, <3>1 DEF WriteForVerification, HasFile
    <3>2. CASE /\ lockfile' = IF lockfile # Missing /\ lockfile.maker = opened[p]
                              THEN [lockfile EXCEPT !.written = TRUE]
                              ELSE lockfile
               /\ Goto(p, "verifying")
               /\ UNCHANGED <<kind, holder, opened, history>>
      <4>1. \/ lockfile' = lockfile
            \/ /\ lockfile # Missing /\ lockfile' # Missing
               /\ lockfile'.maker = lockfile.maker
        BY <1>0, <3>2, Files DEF TypeOK
      <4>2. QED
        BY <2>7, <3>2, <4>1, MoveIsSafe
           DEF WriteForVerification, HasFile, Owning, history
    <3>3. QED
      BY <2>7, <3>1, <3>2 DEF WriteForVerification
  <2>8. CASE VerifyFileWritten(p)
    <3>1. FileKind /\ pc[p] = "verifying"
      BY <1>0, <2>8 DEF VerifyFileWritten, Placed, Owning
    <3>2. CASE CleansUp(p)
      BY <1>4, <3>1, <3>2 DEF HasFile
    <3>3. CASE /\ Goto(p, "configuring")
               /\ UNCHANGED <<kind, holder, lockfile, opened, history>>
      BY <3>1, <3>3, MoveIsSafe DEF HasFile, Owning, history
    <3>4. QED
      BY <2>8, <3>2, <3>3 DEF VerifyFileWritten
  <2>9. CASE EmergencyCleanup(p)
    <3>1. FileKind
      BY <1>0, <2>9 DEF EmergencyCleanup, Placed, Owning
    <3>2. QED
      BY <2>9, <3>1, RemoveIsSafe DEF EmergencyCleanup, HasFile
  <2>10. QED
    BY <1>5, <2>2, <2>3, <2>4, <2>5, <2>6, <2>7, <2>8, <2>9 DEF Locking
<1>6. ASSUME NEW p \in Processes, Owned(p) PROVE Safe'
  <2>1. CASE Configure(p) \/ ShutDown(p) \/ CoreStopped(p)
    BY <2>1, MoveIsSafe
       DEF Configure, ShutDown, CoreStopped, HasFile, Owning, history
  <2>2. CASE ConfigureFails(p) \/ CoreStopFails(p)
    BY <1>2, <2>2 DEF ConfigureFails, CoreStopFails
  <2>3. CASE Unlock(p) /\ opened[p] = Nobody
    BY <2>3, EndIsSafe DEF Unlock
  <2>4. CASE Unlock(p) /\ opened[p] # Nobody
    <3>1. FileKind /\ pc[p] \in HasFile
      BY <1>0, <2>4 DEF Unlock, Placed, HasFile, Owning
    <3>2. QED
      BY <2>4, <3>1, RemoveIsSafe DEF Unlock
  <2>5. QED
    BY <1>6, <2>1, <2>2, <2>3, <2>4 DEF Owned
<1>7. ASSUME NEW p \in Processes, Kill(p) PROVE Safe'
  BY <1>2, <1>7 DEF Kill
<1>8. CASE Reboot
  <2>1. \A q \in Processes : Protected(q)'
    BY <1>8 DEF Reboot, Protected, HasFile, Owning
  <2>2. QED
    BY <1>8, <2>1 DEF Reboot, Safe, Guarded
<1>9. CASE UNCHANGED vars
  BY <1>9 DEF vars, history, Safe, Guarded, Protected, FileKind
<1>10. QED
  BY <1>1, <1>5, <1>6, <1>7, <1>8, <1>9 DEF Next

-----------------------------------------------------------------------------
LEMMA Inductive == Spec => []IInv
<1>1. IInv /\ [Next]_vars => IInv'
  BY SoundStep, SafeStep DEF IInv, Sound, Safe
<1>2. QED
  BY <1>1, InitIInv, PTL DEF Spec

\* The lock keeps its types, is held only by a process past lock(), and a
\* lock file is open only in one past its creation.
THEOREM TypeCorrect == Spec => []TypeOK
<1>1. IInv => TypeOK
  BY DEF IInv
<1>2. QED
  BY <1>1, Inductive, PTL

\* However many processes are started, killed or fail, two are past lock()
\* only after one has cut or removed another's lock file.
THEOREM OneInstance == Spec => []SingleUnlessRobbed
<1>1. IInv => SingleUnlessRobbed
  BY ProtectedExcludes DEF IInv
<1>2. QED
  BY <1>1, Inductive, PTL

\* With a socket, the library's lock, or an O_EXCL file whose creation fails
\* only because it exists, at most one process is past lock().
THEOREM OneInstanceOnSafePlatforms == SafeKinds => (Spec => []MutualExclusion)
<1> SUFFICES ASSUME SafeKinds PROVE Spec => []MutualExclusion
  OBVIOUS
<1>1. IInv => MutualExclusion
  BY ProtectedExcludes DEF IInv, SingleUnlessRobbed
<1>2. QED
  BY <1>1, Inductive, PTL

-----------------------------------------------------------------------------
(* Why a start is refused.                                                 *)

\* A lock file is one that a process has open, was left by one that died, or
\* could not be removed.
Accounted ==
    \/ lockfile = Missing
    \/ unclean \/ leftover
    \/ \E q \in Processes : opened[q] # Nobody

LEMMA EndsAccounted ==
    ASSUME TypeOK, Accounted, NEW p \in Processes, Ends(p),
           UNCHANGED <<lockfile, leftover>>,
           (opened[p] = Nobody /\ unclean' = unclean) \/ EndsUnclean(p)
    PROVE  Accounted'
<1>1. \A q \in Processes : q # p => opened'[q] = opened[q]
  BY DEF Ends, TypeOK
<1>2. unclean' = (unclean \/ opened[p] # Nobody)
  BY DEF EndsUnclean, TypeOK
<1>3. QED
  BY <1>1, <1>2 DEF Accounted

LEMMA AccountedStep == IInv /\ Accounted /\ [Next]_vars => Accounted'
<1> SUFFICES ASSUME TypeOK, Accounted, [Next]_vars PROVE Accounted'
  BY DEF IInv
<1>1. ASSUME NEW p \in Processes, EndsUnclean(p)
      PROVE  Accounted'
  BY <1>1, EndsAccounted DEF EndsUnclean
<1>2. ASSUME NEW p \in Processes, Refuse(p), opened[p] = Nobody
      PROVE  Accounted'
  BY <1>2, EndsAccounted DEF Refuse
<1>3. ASSUME UNCHANGED <<lockfile, opened, unclean, leftover>>
      PROVE  Accounted'
  BY <1>3 DEF Accounted
<1>4. ASSUME NEW p \in Processes, OpenFile(p)
      PROVE  Accounted'
  <2>1. lockfile'.maker \in Processes
    BY <1>4, Files DEF OpenFile, TypeOK
  <2>2. opened'[p] = lockfile'.maker
    BY <1>4 DEF OpenFile, TypeOK
  <2>3. QED
    BY <2>1, <2>2, InstanceLockAssumption DEF Accounted
<1>5. ASSUME NEW p \in Processes, RemoveFile(p)
      PROVE  Accounted'
  BY <1>5 DEF RemoveFile, Accounted
<1>6. ASSUME NEW p \in Processes, Launch(p) \/ Owned(p) \/ Kill(p)
      PROVE  Accounted'
  <2>1. CASE Unlock(p)
    <3>1. CASE RemoveFile(p)
      BY <1>5, <3>1
    <3>2. CASE opened[p] = Nobody /\ UNCHANGED <<lockfile, leftover, robbed>>
      BY <2>1, <3>2, EndsAccounted DEF Unlock
    <3>3. QED
      BY <2>1, <3>1, <3>2 DEF Unlock
  <2>2. CASE ConfigureFails(p) \/ CoreStopFails(p) \/ Kill(p)
    BY <1>1, <2>2 DEF ConfigureFails, CoreStopFails, Kill
  <2>3. CASE Launch(p) \/ Configure(p) \/ ShutDown(p) \/ CoreStopped(p)
    BY <1>3, <2>3 DEF Launch, Configure, ShutDown, CoreStopped, history
  <2>4. QED
    BY <1>6, <2>1, <2>2, <2>3 DEF Owned
<1>7. ASSUME NEW p \in Processes, Locking(p)
      PROVE  Accounted'
  <2>1. CASE pc[p] = "locking" /\ Refuse(p)
    BY <1>2, <2>1 DEF TypeOK, Owning
  <2>2. CASE EmergencyCleanup(p)
    BY <1>5, <2>2 DEF EmergencyCleanup
  <2>3. CASE OpenFile(p) \/ EndsUnclean(p)
    BY <1>1, <1>4, <2>3
  <2>4. CASE CleansUp(p) \/ UNCHANGED <<lockfile, opened, unclean, leftover>>
    BY <1>3, <2>4 DEF CleansUp, history
  <2>5. CASE WriteForVerification(p)
    <3>1. CASE CleansUp(p)
      BY <2>4, <3>1
    <3>2. CASE /\ UNCHANGED <<opened, unclean, leftover>>
               /\ lockfile = Missing => lockfile' = Missing
      BY <3>2 DEF Accounted
    <3>3. QED
      BY <2>5, <3>1, <3>2 DEF WriteForVerification, history
  <2>6. CASE MakeSocketLock(p) \/ MakeSarosLock(p)
    BY <2>1, <2>3, <2>4, <2>6 DEF MakeSocketLock, MakeSarosLock, history
  <2>7. CASE \/ MakeFileLockAtomic(p) \/ StatLockFile(p)
             \/ MakeFileLockNonatomic(p) \/ VerifyFileWritten(p)
    BY <2>1, <2>3, <2>4, <2>7 DEF MakeFileLockAtomic, StatLockFile,
       MakeFileLockNonatomic, VerifyFileWritten, history
  <2>8. QED
    BY <1>7, <2>2, <2>5, <2>6, <2>7 DEF Locking
<1>8. CASE Reboot
  <2>1. CASE Volatile
    BY <1>8, <2>1 DEF Reboot, Accounted
  <2>2. CASE ~Volatile
    <3>1. /\ lockfile' = lockfile
          /\ unclean' = (unclean \/ \E q \in Processes : opened[q] # Nobody)
      BY <1>8, <2>2 DEF Reboot
    <3>2. leftover => leftover'
      BY <1>8, <2>2 DEF Reboot
    <3>3. QED
      BY <3>1, <3>2 DEF Accounted
  <2>3. QED
    BY <2>1, <2>2
<1>9. CASE UNCHANGED vars
  BY <1>3, <1>9 DEF vars, history
<1>10. QED
  BY <1>6, <1>7, <1>8, <1>9 DEF Next

\* lock() returns False only because another process is past its first step,
\* because one ended without unlock() since the last reboot that clears the
\* file, because the removal of that file failed in unlock() or in the cleanup
\* of a failed attempt, or because the library's lock failed: nothing else
\* leaves a lock behind (common/file_locking.py, lock, unlock,
\* _emergency_cleanup).
THEOREM RefusedOnlyForCause == Spec => RefusedForCause
<1> DEFINE Cause ==
      \A p \in refused' \ refused :
          \/ unclean \/ leftover
          \/ \E q \in Processes \ {p} : pc[q] \notin {"off", "locking"}
          \/ kind = "library" /\ OpenFaults
<1>1. ASSUME IInv, Accounted, [Next]_vars PROVE [Cause]_vars
  <2>1. ASSUME NEW p \in refused' \ refused, Next
        PROVE  \/ unclean \/ leftover
               \/ \E q \in Processes \ {p} : pc[q] \notin {"off", "locking"}
               \/ kind = "library" /\ OpenFaults
    <3>1. PICK r \in Processes : Locking(r) /\ Refuse(r)
      <4>1. refused' = refused \/ refused' \subseteq refused
              \/ \E r \in Processes : Locking(r) /\ Refuse(r)
        <5>1. ASSUME NEW r \in Processes, Launch(r) \/ Owned(r) \/ Kill(r)
              PROVE  refused' \subseteq refused
          BY <5>1 DEF Launch, Owned, Configure, ConfigureFails, ShutDown,
             CoreStopped, CoreStopFails, Unlock, Kill, EndsUnclean, history
        <5>2. ASSUME NEW r \in Processes, Locking(r)
              PROVE  refused' = refused \/ Refuse(r)
          BY <5>2 DEF Locking, MakeSocketLock, MakeSarosLock,
             MakeFileLockAtomic, StatLockFile, MakeFileLockNonatomic,
             WriteForVerification, VerifyFileWritten, EmergencyCleanup,
             OpenFile, CleansUp, EndsUnclean, history
        <5>3. CASE Reboot
          BY <5>3 DEF Reboot
        <5>4. QED
          BY <2>1, <5>1, <5>2, <5>3 DEF Next
      <4>2. QED
        BY <2>1, <4>1
    <3>2. p = r
      BY <2>1, <3>1 DEF Refuse
    <3>3. /\ pc[p] = "locking"
          /\ \/ holder # Nobody \/ lockfile # Missing
             \/ kind = "library" /\ OpenFaults
      <4>1. p \notin refused /\ p \in refused'
        BY <2>1
      <4>2. CASE MakeSocketLock(r) \/ MakeSarosLock(r)
        BY <3>2, <4>1, <4>2 DEF MakeSocketLock, MakeSarosLock, EndsUnclean,
           history
      <4>3. CASE MakeFileLockAtomic(r) \/ StatLockFile(r)
        BY <3>2, <4>1, <4>3 DEF MakeFileLockAtomic, StatLockFile, OpenFile,
           CleansUp, history
      <4>4. CASE \/ MakeFileLockNonatomic(r) \/ WriteForVerification(r)
                 \/ VerifyFileWritten(r) \/ EmergencyCleanup(r)
        BY <3>2, <4>1, <4>4 DEF MakeFileLockNonatomic, WriteForVerification,
           VerifyFileWritten, EmergencyCleanup, OpenFile, CleansUp, history
      <4>5. QED
        BY <3>1, <4>2, <4>3, <4>4 DEF Locking
    <3>4. CASE holder # Nobody
      <4>1. holder \in Processes /\ pc[holder] \in Owning
        BY <1>1, <3>4 DEF IInv, TypeOK
      <4>2. holder # p /\ pc[holder] \notin {"off", "locking"}
        BY <3>3, <4>1 DEF Owning
      <4>3. QED
        BY <4>1, <4>2
    <3>5. CASE lockfile # Missing /\ ~unclean /\ ~leftover
      <4>1. PICK q \in Processes : opened[q] # Nobody
        BY <1>1, <3>5 DEF Accounted
      <4>2. pc[q] \notin {"off", "locking"}
        BY <1>1, <4>1 DEF IInv, TypeOK, Owning
      <4>3. QED
        BY <3>3, <4>2
    <3>6. QED
      BY <3>3, <3>4, <3>5
  <2>2. QED
    BY <1>1, <2>1
<1>2. Init => Accounted
  BY DEF Init, Accounted
<1>3. Spec => [](IInv /\ Accounted)
  BY Inductive, AccountedStep, <1>2, PTL DEF Spec
<1>4. QED
  BY <1>1, <1>3, PTL DEF Spec, RefusedForCause
=============================================================================
