------------------------------- MODULE Journal -------------------------------
(***************************************************************************)
(* What the file logger promises of its log, whatever happens to the       *)
(* process between two writes: a journal that keeps the newest events,     *)
(* under consecutive record numbers.                                       *)
(*                                                                         *)
(* An event is accepted into memory, stored later, and lost if the process *)
(* ends in between.  Storing events may cost the oldest ones their place,  *)
(* never those just stored; and what is once begun is never empty again.   *)
(***************************************************************************)
EXTENDS Naturals, Sequences

CONSTANT EventTypes

VARIABLES kept,     \* the set of events that a restart would find
          pending   \* the events accepted and not yet stored, in order

vars == <<kept, pending>>

Init == kept = {} /\ pending = <<>>

First(n) == {pending[i] : i \in 1..n}

Records == {e.record : e \in kept \cup First(Len(pending))}

\* An event is accepted under the record number after the last one's.
Accept ==
    \E type \in EventTypes, record \in {r + 1 : r \in Records \cup {0}} :
       /\ \A r \in Records : r < record
       /\ pending' = Append(pending, [type |-> type, record |-> record])
       /\ UNCHANGED kept

\* The first n pending events are stored, at the cost of the oldest.
Store ==
    \E n \in 0..Len(pending), oldest \in Records :
       /\ kept' = {e \in kept : e.record >= oldest} \cup First(n)
       /\ kept # {} => kept' # {}
       /\ pending' = SubSeq(pending, n + 1, Len(pending))

\* The process ends; what was pending is gone.
Lose == pending' = <<>> /\ UNCHANGED kept

Next == Accept \/ Store \/ Lose

Spec == Init /\ [][Next]_vars
=============================================================================
