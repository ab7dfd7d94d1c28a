------------------------- MODULE CountingSemaphore --------------------------
(***************************************************************************)
(* What an io_semaphore promises: units are signalled, a handler that      *)
(* waits takes one, or waits while there is none; no unit is left lying    *)
(* while a handler waits.  Deleting the semaphore releases all who wait.   *)
(***************************************************************************)
EXTENDS Integers, FiniteSets

CONSTANTS Handlers, InitVals

VARIABLES units,    \* the initial value and the signals: may start below 0
          waiters,  \* the handlers that wait
          granted,  \* the handlers that took a unit
          deleted   \* the semaphore is being deleted: who waits is released

csVars == <<units, waiters, granted, deleted>>

Init == /\ units \in InitVals
        /\ waiters = {} /\ granted = {}
        /\ deleted = FALSE

Available(u) == Cardinality(granted) < u

Wait(h) ==
    /\ ~deleted
    /\ h \notin waiters \cup granted
    /\ IF Available(units) THEN granted' = granted \cup {h} /\ UNCHANGED waiters
                           ELSE waiters' = waiters \cup {h} /\ UNCHANGED granted
    /\ UNCHANGED <<units, deleted>>

Signal ==
    /\ ~deleted
    /\ units' = units + 1
    /\ IF waiters # {} /\ Available(units + 1)
       THEN \E h \in waiters : /\ waiters' = waiters \ {h}
                               /\ granted' = granted \cup {h}
       ELSE UNCHANGED <<waiters, granted>>
    /\ UNCHANGED deleted

Delete == ~deleted /\ deleted' = TRUE /\ UNCHANGED <<units, waiters, granted>>

Release(h) == /\ deleted
              /\ h \in waiters
              /\ waiters' = waiters \ {h}
              /\ UNCHANGED <<units, granted, deleted>>

Next == Signal \/ Delete \/ \E h \in Handlers : Wait(h) \/ Release(h)

Spec == Init /\ [][Next]_csVars
=============================================================================
