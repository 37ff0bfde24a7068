------------------------------- MODULE Agenda -------------------------------
(***************************************************************************)
(* What the core scheduler promises the components that use it: an event   *)
(* that was entered is pending until it is cancelled or its action starts; *)
(* actions run on the scheduler's one thread, so one at a time; an event   *)
(* whose action has started can no longer be cancelled, and the attempt to *)
(* do so fails and changes nothing.                                        *)
(*                                                                         *)
(* Scheduler implements this module.  XBeeManager is built on it.          *)
(***************************************************************************)
CONSTANT Entries   \* the events that may be entered

VARIABLE fate      \* what has become of each event

TypeOK == fate \in [Entries -> {"free", "pending", "running"}]

Init == fate = [e \in Entries |-> "free"]

Running == {e \in Entries : fate[e] = "running"}

\* schedule_after returns the handle of a new event.
Enter(e) ==
    /\ fate[e] = "free"
    /\ fate' = [fate EXCEPT ![e] = "pending"]

\* cancel finds the event in the queue.
Cancel(e) ==
    /\ fate[e] = "pending"
    /\ fate' = [fate EXCEPT ![e] = "free"]

\* The thread is idle and takes the event; when is the scheduler's affair.
Start(e) ==
    /\ Running = {}
    /\ fate[e] = "pending"
    /\ fate' = [fate EXCEPT ![e] = "running"]

Finish(e) ==
    /\ fate[e] = "running"
    /\ fate' = [fate EXCEPT ![e] = "free"]

Next == \E e \in Entries : Enter(e) \/ Cancel(e) \/ Start(e) \/ Finish(e)

Spec == Init /\ [][Next]_fate

-----------------------------------------------------------------------------
\* A caller that, under a lock of its own, drops the event `old' it remembers
\* (if that is still pending) and enters `new' in its place.  The two calls
\* make one step: the thread can take no event between them that it could
\* not have taken before or after.
Replace(old, new) ==
    /\ fate[new] = "free" \/ (new = old /\ fate[old] = "pending")
    /\ fate' = [e \in Entries |->
                   IF e = new THEN "pending"
                   ELSE IF e = old /\ fate[e] = "pending" THEN "free"
                   ELSE fate[e]]
=============================================================================
