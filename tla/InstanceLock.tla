---------------------------- MODULE InstanceLock ----------------------------
(***************************************************************************)
(* One instance of Dia on a device: the start and the exit of dia.py, and  *)
(* the lock of common/file_locking.py that a process takes in between.     *)
(*                                                                         *)
(* The platform fixes the kind of lock: a bound socket or a lock of the    *)
(* SarOS library (both exclusive and freed by the death of the process), a *)
(* file made with O_EXCL, or a file made after a stat() that missed it.    *)
(* A file is known by the process that made it, so that a process may hold *)
(* open a file that another has removed.                                   *)
(***************************************************************************)
EXTENDS Naturals

CONSTANTS Processes,   \* the processes that may be started as dia.py
          Kinds,       \* the kinds of lock the platforms considered use
          Volatile,    \* the lock file is in RAM and does not survive a reboot
          OpenFaults,  \* a bind or an open may fail for a reason of its own
          WriteFaults, \* writing or reading back the lock file may fail
          RemoveFaults, \* removing the lock file may fail
          Kills,       \* processes may be killed and the device rebooted
          Nobody,      \* no process
          Missing      \* no lock file

ASSUME InstanceLockAssumption ==
    /\ Kinds \subseteq {"socket", "library", "exclusive", "stat"}
    /\ Nobody \notin Processes
    /\ Missing \notin [maker : Processes, written : BOOLEAN]
    /\ {Volatile, OpenFaults, WriteFaults, RemoveFaults, Kills} \subseteq BOOLEAN

VARIABLES
    kind,      \* the kind of lock of this platform
    holder,    \* who has the socket bound, or the library's lock
    lockfile,  \* the file of the name lock_file_name
    pc,        \* where each process is in main() and lock()
    opened,    \* self.lock_file: the maker of the file it opened
    refused,   \* history: those whose last lock() returned False
    unclean,   \* history: since the last reboot that cleared the file, a
               \* process ended without removing the file it had opened
    leftover,  \* history: the lock file is one that a process which unlocked,
               \* or cleaned up, tried to remove and could not
    robbed     \* history: a process cut or removed a file another had made

vars ==
    <<kind, holder, lockfile, pc, opened, refused, unclean, leftover, robbed>>
history == <<refused, unclean, leftover, robbed>>

File == [maker : Processes, written : BOOLEAN]

Owning == {"configuring", "running", "stopping", "unlocking"}

TypeOK ==
    /\ kind \in Kinds
    /\ holder \in Processes \cup {Nobody}
    /\ lockfile \in File \cup {Missing}
    /\ pc \in [Processes -> Owning \cup {"off", "locking", "opening",
                                         "writing", "verifying", "cleanup"}]
    /\ opened \in [Processes -> Processes \cup {Nobody}]
    /\ refused \in SUBSET Processes
    /\ unclean \in BOOLEAN
    /\ leftover \in BOOLEAN
    /\ robbed \in BOOLEAN
    /\ holder # Nobody => pc[holder] \in Owning
    /\ \A p \in Processes : opened[p] # Nobody =>
          pc[p] \in Owning \cup {"writing", "verifying", "cleanup"}

Init ==
    /\ kind \in Kinds
    /\ holder = Nobody
    /\ lockfile = Missing
    /\ pc = [p \in Processes |-> "off"]
    /\ opened = [p \in Processes |-> Nobody]
    /\ refused = {}
    /\ unclean = FALSE
    /\ leftover = FALSE
    /\ robbed = FALSE

-----------------------------------------------------------------------------
Goto(p, place) == pc' = [pc EXCEPT ![p] = place]

\* The process ends: the operating system closes its sockets and files.
Ends(p) ==
    /\ Goto(p, "off")
    /\ opened' = [opened EXCEPT ![p] = Nobody]
    /\ holder' = IF holder = p THEN Nobody ELSE holder
    /\ UNCHANGED kind

\* It ends without unlock(): a lock file it opened stays behind.
EndsUnclean(p) ==
    /\ Ends(p)
    /\ unclean' = (unclean \/ opened[p] # Nobody)
    /\ UNCHANGED <<lockfile, refused, leftover, robbed>>

\* lock() returned False: dia.py says so and exits.
Refuse(p) ==
    /\ Ends(p)
    /\ refused' = refused \cup {p}
    /\ UNCHANGED <<lockfile, unclean, leftover, robbed>>

Launch(p) ==
    /\ pc[p] = "off"
    /\ Goto(p, "locking")
    /\ refused' = refused \ {p}
    /\ UNCHANGED <<kind, holder, lockfile, opened, unclean, leftover, robbed>>

\* Mutant: an address in use is not told from a success.
MakeSocketLock_InUse(p) ==
    /\ pc[p] = "locking"
    /\ kind = "socket"
    /\ holder' = p
    /\ Goto(p, "configuring")
    /\ UNCHANGED <<kind, lockfile, opened, history>>

\* bind() succeeds, finds the address in use, or fails otherwise and raises
\* LockingFailure through main().
MakeSocketLock(p) ==
    /\ pc[p] = "locking"
    /\ kind = "socket"
    /\ \/ /\ holder = Nobody
          /\ holder' = p
          /\ Goto(p, "configuring")
          /\ UNCHANGED <<kind, lockfile, opened, history>>
       \/ holder # Nobody /\ Refuse(p)
       \/ OpenFaults /\ EndsUnclean(p)

\* Mutant: a lock that was taken is reported as a failure that is tried again.
MakeSarosLock_Retries(p) ==
    /\ pc[p] = "locking"
    /\ kind = "library"
    /\ \/ /\ holder = Nobody
          /\ holder' = p
          /\ UNCHANGED <<kind, lockfile, pc, opened, history>>
       \/ holder # Nobody /\ Refuse(p)

\* Every failure of the library's lock counts as another instance.
MakeSarosLock(p) ==
    /\ pc[p] = "locking"
    /\ kind = "library"
    /\ \/ /\ holder = Nobody
          /\ holder' = p
          /\ Goto(p, "configuring")
          /\ UNCHANGED <<kind, lockfile, opened, history>>
       \/ (holder # Nobody \/ OpenFaults) /\ Refuse(p)

\* A file is made, or one that is there is opened and cut to nothing.
OpenFile(p) ==
    /\ lockfile' = [maker |-> IF lockfile = Missing THEN p ELSE lockfile.maker,
                    written |-> FALSE]
    /\ opened' = [opened EXCEPT ![p] = lockfile'.maker]
    /\ Goto(p, "writing")
    /\ robbed' = (robbed \/ lockfile # Missing)
    /\ UNCHANGED <<kind, holder, refused, unclean, leftover>>

\* The file of that name is removed, whoever made it; or os.remove() fails,
\* which is passed over, and the file stays.
RemoveFile(p) ==
    \/ /\ lockfile' = Missing
       /\ leftover' = FALSE
       /\ robbed' = (robbed \/ (lockfile # Missing /\ lockfile.maker # p))
    \/ /\ RemoveFaults
       /\ lockfile # Missing
       /\ leftover' = TRUE
       /\ UNCHANGED <<lockfile, robbed>>

CleansUp(p) ==
    /\ Goto(p, "cleanup")
    /\ UNCHANGED <<kind, holder, lockfile, opened, history>>

\* Mutant: os.open without O_EXCL.
MakeFileLockAtomic_NoExcl(p) ==
    /\ pc[p] = "locking"
    /\ kind = "exclusive"
    /\ OpenFile(p)

MakeFileLockAtomic(p) ==
    /\ pc[p] = "locking"
    /\ kind = "exclusive"
    /\ \/ lockfile = Missing /\ OpenFile(p)
       \/ lockfile # Missing /\ Refuse(p)
       \/ OpenFaults /\ CleansUp(p)

\* The check and the creation of the lock without O_EXCL are two steps.
StatLockFile(p) ==
    /\ pc[p] = "locking"
    /\ kind = "stat"
    /\ \/ lockfile # Missing /\ Refuse(p)
       \/ /\ lockfile = Missing
          /\ Goto(p, "opening")
          /\ UNCHANGED <<kind, holder, lockfile, opened, history>>

MakeFileLockNonatomic(p) ==
    /\ pc[p] = "opening"
    /\ OpenFile(p) \/ (OpenFaults /\ CleansUp(p))

\* The text reaches the file that was opened, which need not be there still.
WriteForVerification(p) ==
    /\ pc[p] = "writing"
    /\ \/ /\ lockfile' = IF lockfile # Missing /\ lockfile.maker = opened[p]
                         THEN [lockfile EXCEPT !.written = TRUE]
                         ELSE lockfile
          /\ Goto(p, "verifying")
          /\ UNCHANGED <<kind, holder, opened, history>>
       \/ WriteFaults /\ CleansUp(p)

\* The file of that name is read back, whoever wrote it.
VerifyFileWritten(p) ==
    /\ pc[p] = "verifying"
    /\ \/ /\ lockfile # Missing
          /\ lockfile.written
          /\ Goto(p, "configuring")
          /\ UNCHANGED <<kind, holder, lockfile, opened, history>>
       \/ /\ (lockfile # Missing => ~lockfile.written) \/ WriteFaults
          /\ CleansUp(p)

\* Mutant: the cleanup leaves the file.
EmergencyCleanup_Keeps(p) ==
    /\ pc[p] = "cleanup"
    /\ Ends(p)
    /\ UNCHANGED <<lockfile, history>>

\* The exception goes on through main().
EmergencyCleanup(p) ==
    /\ pc[p] = "cleanup"
    /\ RemoveFile(p)
    /\ Ends(p)
    /\ UNCHANGED <<refused, unclean>>

-----------------------------------------------------------------------------
\* Versions match, the settings are found and CoreServices is built.
Configure(p) ==
    /\ pc[p] = "configuring"
    /\ Goto(p, "running")
    /\ UNCHANGED <<kind, holder, lockfile, opened, history>>

\* Or main() ends by an exception or by the sys.exit of CoreServices.
ConfigureFails(p) ==
    /\ pc[p] = "configuring"
    /\ EndsUnclean(p)

\* spin_forever leaves its loop.
ShutDown(p) ==
    /\ pc[p] = "running"
    /\ Goto(p, "stopping")
    /\ UNCHANGED <<kind, holder, lockfile, opened, history>>

\* core._shutdown() returns.
CoreStopped(p) ==
    /\ pc[p] = "stopping"
    /\ Goto(p, "unlocking")
    /\ UNCHANGED <<kind, holder, lockfile, opened, history>>

\* It raises: the finally clause of spin_forever is cut short.
CoreStopFails(p) ==
    /\ pc[p] = "stopping"
    /\ EndsUnclean(p)

\* Mutant: unlock() does not remove the file.
Unlock_Keeps(p) ==
    /\ pc[p] = "unlocking"
    /\ Ends(p)
    /\ UNCHANGED <<lockfile, history>>

Unlock(p) ==
    /\ pc[p] = "unlocking"
    /\ \/ opened[p] # Nobody /\ RemoveFile(p)
       \/ opened[p] = Nobody /\ UNCHANGED <<lockfile, leftover, robbed>>
    /\ Ends(p)
    /\ UNCHANGED <<refused, unclean>>

Kill(p) ==
    /\ Kills
    /\ pc[p] # "off"
    /\ EndsUnclean(p)

Reboot ==
    /\ Kills
    /\ pc' = [p \in Processes |-> "off"]
    /\ opened' = [p \in Processes |-> Nobody]
    /\ holder' = Nobody
    /\ lockfile' = IF Volatile THEN Missing ELSE lockfile
    /\ unclean' = (~Volatile /\ (unclean \/ \E p \in Processes :
                                                opened[p] # Nobody))
    /\ leftover' = (~Volatile /\ leftover)
    /\ UNCHANGED <<kind, refused, robbed>>

Locking(p) ==
    \/ MakeSocketLock(p) \/ MakeSarosLock(p)
    \/ MakeFileLockAtomic(p) \/ StatLockFile(p) \/ MakeFileLockNonatomic(p)
    \/ WriteForVerification(p) \/ VerifyFileWritten(p) \/ EmergencyCleanup(p)

Owned(p) ==
    \/ Configure(p) \/ ConfigureFails(p)
    \/ ShutDown(p) \/ CoreStopped(p) \/ CoreStopFails(p) \/ Unlock(p)

Next ==
    \/ \E p \in Processes : Launch(p) \/ Locking(p) \/ Owned(p) \/ Kill(p)
    \/ Reboot

Spec == Init /\ [][Next]_vars

\* A process goes on with what it does, and one that runs is in the end shut
\* down; nobody is obliged to start one.
FairSpec == Spec /\ \A p \in Processes : /\ WF_vars(Locking(p))
                                         /\ WF_vars(Owned(p))
-----------------------------------------------------------------------------
(* Properties.                                                             *)

Owns(p) == pc[p] \in Owning

\* file_locking.py:70-72: only one instance is ever past lock(), from there
\* to the end of unlock().
MutualExclusion == \A p, q \in Processes : Owns(p) /\ Owns(q) => p = q

\* Two instances run only after a process has cut or removed a lock file that
\* another had made, however processes are started, killed and fail: never
\* with a socket or the library's lock, nor by any other way through lock().
SingleUnlessRobbed == robbed \/ MutualExclusion

\* lock() returns False only because another process is past its first step,
\* because one ended without unlock() since the last reboot (of a device whose
\* lock file is in RAM), because the file is one whose removal by unlock() or
\* by the cleanup failed, or because the library's lock failed: no failed
\* attempt, race or orderly exit refuses a start in any other way.
RefusedForCause ==
    [][\A p \in refused' \ refused :
          \/ unclean \/ leftover
          \/ \E q \in Processes \ {p} : pc[q] \notin {"off", "locking"}
          \/ kind = "library" /\ OpenFaults]_vars

\* Unless a process ended without unlock(), or the removal of the lock file
\* failed (which nothing repeats), the lock is free again and again: failed
\* attempts, and two that race over a file, leave none behind for good.
LockComesFree ==
    []<>((lockfile = Missing /\ holder = Nobody) \/ unclean \/ leftover)

=============================================================================
