---------------------------- MODULE HandlerQueue ----------------------------
(***************************************************************************)
(* What the posted handlers of a service are: a queue, whose head is the   *)
(* handler that is being called until it returns.                          *)
(***************************************************************************)
EXTENDS Naturals, Sequences

CONSTANT Handlers

VARIABLES queue,   \* the handlers, in the order they were posted
          calling  \* the head is being called

hqVars == <<queue, calling>>

Init == queue = << >> /\ calling = FALSE

Post(h) == queue' = Append(queue, h) /\ UNCHANGED calling

Call    == /\ ~calling /\ queue # << >>
           /\ calling' = TRUE
           /\ UNCHANGED queue

Return  == /\ calling
           /\ calling' = FALSE
           /\ queue' = Tail(queue)

Next == Call \/ Return \/ \E h \in Handlers : Post(h)

Spec == Init /\ [][Next]_hqVars
=============================================================================
