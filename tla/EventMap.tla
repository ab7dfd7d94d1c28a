------------------------------ MODULE EventMap ------------------------------
(***************************************************************************)
(* What one descriptor's node promises to the rest of the service: the     *)
(* three event types of a descriptor are independent, each holds at most   *)
(* one handler, a handler is only ever removed by delivering it (alone, or *)
(* with all others when the service stops), and the poll interest is       *)
(* exactly the set of event types that hold a handler.                     *)
(* FdNode, which packs the three events into one inline and two shared     *)
(* allocations, is shown to implement this.                                *)
(***************************************************************************)
CONSTANTS Types, Handlers, NoHandler

VARIABLES slot,      \* slot[ty]: the handler scheduled for event type ty
          interest   \* the event types poll() is asked to watch

emVars == <<slot, interest>>

Init == /\ slot = [ty \in Types |-> NoHandler]
        /\ interest = {}

Schedule(ty, h) ==
    /\ slot[ty] = NoHandler
    /\ slot' = [slot EXCEPT ![ty] = h]
    /\ interest' = interest \cup {ty}

Deliver(ty) ==
    /\ slot[ty] # NoHandler
    /\ slot' = [slot EXCEPT ![ty] = NoHandler]
    /\ interest' = interest \ {ty}

DeliverAll ==
    /\ slot' = [ty \in Types |-> NoHandler]
    /\ interest' = {}

Next == \/ DeliverAll
        \/ \E ty \in Types : Deliver(ty) \/ \E h \in Handlers : Schedule(ty, h)

Spec == Init /\ [][Next]_emVars
=============================================================================
