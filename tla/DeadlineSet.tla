---------------------------- MODULE DeadlineSet ----------------------------
(***************************************************************************)
(* What a deadline heap promises the event loop: a set of entries, any of  *)
(* which can be removed, whose front, once an operation has ended, is an   *)
(* entry with the least deadline.  IoService works with this set; the      *)
(* array of DeadlineHeap is shown to implement it.                         *)
(***************************************************************************)
EXTENDS Integers

CONSTANTS Events, Deadlines, NoEvent

VARIABLES entries,  \* entries[e]: the deadline of e's entry, for the e that have one
          front     \* the front, or NoEvent: none, or an operation is going on

dsVars == <<entries, front>>

Init == entries = << >> /\ front = NoEvent

Insert(e, d) ==
    /\ e \notin DOMAIN entries
    /\ entries' = [x \in DOMAIN entries \cup {e} |-> IF x = e THEN d ELSE entries[x]]
    /\ front' = NoEvent

Remove(e) ==
    /\ e \in DOMAIN entries
    /\ entries' = [x \in DOMAIN entries \ {e} |-> entries[x]]
    /\ front' = NoEvent

Clear == entries' = << >> /\ front' = NoEvent

\* The operation ends.
Settle ==
    /\ front = NoEvent
    /\ front' \in {e \in DOMAIN entries : \A x \in DOMAIN entries : entries[e] <= entries[x]}
    /\ UNCHANGED entries

Next == \/ \E e \in Events : Remove(e) \/ \E d \in Deadlines : Insert(e, d)
        \/ Clear \/ Settle

Spec == Init /\ [][Next]_dsVars
=============================================================================
