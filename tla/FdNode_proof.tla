---------------------------- MODULE FdNode_proof ----------------------------
(***************************************************************************)
(* Proofs about FdNode for any set of handlers: the inductive invariant of *)
(* a descriptor's node, and that the node implements EventMap.             *)
(***************************************************************************)
EXTENDS FdNode, TLAPS

-----------------------------------------------------------------------------
(* Type correctness.                                                       *)

\* Every field of a node keeps its C type whatever is scheduled, delivered or
\* freed (rbnode.h:16-43).
THEOREM TypeCorrect == Spec => []TypeOK
<1>1. Init => TypeOK
  BY DEF Init, TypeOK, Flags
<1>2. TypeOK /\ [Next]_vars => TypeOK'
  <2> SUFFICES ASSUME TypeOK, [Next]_vars PROVE TypeOK'
    OBVIOUS
  <2> USE DEF TypeOK
  <2>1. ASSUME NEW ty \in WaitTypes, NEW h \in Handlers, iosvc_enqueue(ty, h)
        PROVE  TypeOK'
    <3>1. SchedMask(ty) \subseteq Flags
      BY DEF WaitTypes, SchedMask, DequeueMask, Flags
    <3>2. CASE ReserveException(h)
      BY <2>1, <3>1, <3>2 DEF iosvc_enqueue, ReserveException
    <3>3. CASE ReserveInline(ty, h)
      BY <2>1, <3>1, <3>3 DEF iosvc_enqueue, ReserveInline, Stored
    <3>4. CASE ReserveAux(ty, h)
      BY <2>1, <3>1, <3>4 DEF iosvc_enqueue, ReserveAux
    <3> QED BY <2>1, <3>2, <3>3, <3>4 DEF iosvc_enqueue
  <2>2. ASSUME NEW ty \in WaitTypes, iosvc_dequeue(ty)
        PROVE  TypeOK'
    BY <2>2 DEF iosvc_dequeue, Vacate, Unmask
  <2>3. CASE ioevt_cleanup_evt
    BY <2>3 DEF ioevt_cleanup_evt, Free
  <2>4. CASE stop_async_ops
    BY <2>4 DEF stop_async_ops, Free
  <2>5. CASE UNCHANGED vars
    BY <2>5 DEF vars
  <2> QED BY <2>1, <2>2, <2>3, <2>4, <2>5 DEF Next
<1> QED BY <1>1, <1>2, PTL DEF Spec

-----------------------------------------------------------------------------
(* The inductive invariant.  InterestExact is not inductive alone: a       *)
(* handler left in aux under an EMPTY main_ev_type would reappear as a     *)
(* scheduled event with the next read or write; NoOrphanHandler excludes   *)
(* it.                                                                     *)

\* A type's bits are cleared by iosvc_dequeue and no other type's are.
LEMMA UnmaskExact ==
  ASSUME NEW ty \in WaitTypes, NEW mask \in SUBSET Flags,
         ("ERR" \in mask) <=> (mask \cap {"IN", "OUT"} # {})
  PROVE  /\ Unmask(ty, mask) \in SUBSET Flags
         /\ Unmask(ty, mask) \ {"ERR"} = mask \ (DequeueMask(ty) \cup {"ERR"})
         /\ ("ERR" \in Unmask(ty, mask))
              <=> (Unmask(ty, mask) \cap {"IN", "OUT"} # {})
<1>1. CASE ty = "WAIT_READ"
  BY <1>1 DEF Unmask, DequeueMask, Flags
<1>2. CASE ty = "WAIT_WRITE"
  BY <1>2 DEF Unmask, DequeueMask, Flags
<1>3. CASE ty = "WAIT_EXCEPTION"
  BY <1>3 DEF Unmask, DequeueMask, Flags
<1> QED BY <1>1, <1>2, <1>3 DEF WaitTypes

\* Scheduling stores the handler where its own type finds it and leaves the
\* handlers of the other types where they are found, stolen storage included
\* (iosvc_sched.c:46-124).
LEMMA EnqueueStores ==
  ASSUME NodeInv, NEW ty \in WaitTypes, NEW h \in Handlers,
         iosvc_enqueue(ty, h)
  PROVE  /\ NoOrphanHandler'
         /\ Cell(ty)' = h
         /\ \A other \in WaitTypes \ {ty} : Cell(other)' = Cell(other)
<1> USE FdNodeAssumption DEF NodeInv, TypeOK, NoOrphanHandler, InUse, Cell,
        is_scheduled, get_evt_data, Stored, WaitTypes
<1>1. CASE ty = "WAIT_EXCEPTION"
  BY <1>1 DEF iosvc_enqueue, ReserveException
<1>2. CASE ty # "WAIT_EXCEPTION" /\ ReserveInline(ty, h)
  BY <1>2 DEF iosvc_enqueue, ReserveInline
<1>3. CASE ty # "WAIT_EXCEPTION" /\ ReserveAux(ty, h)
  BY <1>3 DEF iosvc_enqueue, ReserveAux
<1> QED BY <1>1, <1>2, <1>3 DEF iosvc_enqueue

\* Delivering an event empties its own cell and no other (iosvc_dequeue.c:40-48).
LEMMA DequeueVacates ==
  ASSUME NodeInv, NEW ty \in WaitTypes, iosvc_dequeue(ty)
  PROVE  /\ NoOrphanHandler'
         /\ Cell(ty)' = NULL
         /\ \A other \in WaitTypes \ {ty} : Cell(other)' = Cell(other)
<1> USE FdNodeAssumption DEF NodeInv, TypeOK, NoOrphanHandler, InUse, Cell,
        is_scheduled, get_evt_data, Stored, WaitTypes
<1>1. CASE ty = "WAIT_EXCEPTION"
  BY <1>1 DEF iosvc_dequeue, Vacate
<1>2. CASE ty = "WAIT_READ"
  BY <1>2 DEF iosvc_dequeue, Vacate
<1>3. CASE ty = "WAIT_WRITE"
  BY <1>3 DEF iosvc_dequeue, Vacate
<1> QED BY <1>1, <1>2, <1>3

\* Poll interest stays exact over a scheduled event (iosvc_sched.c:191).
LEMMA EnqueueInterest ==
  ASSUME NodeInv, TypeOK', NEW ty \in WaitTypes, NEW h \in Handlers,
         iosvc_enqueue(ty, h)
  PROVE  InterestExact'
<1>1. \A t \in WaitTypes : is_scheduled(t) <=> Cell(t) # NULL
  BY FdNodeAssumption DEF is_scheduled, Cell, InUse
<1>2. \A t \in WaitTypes : is_scheduled(t)' <=> Cell(t)' # NULL
  BY FdNodeAssumption DEF is_scheduled, Cell, InUse
<1>3. /\ is_scheduled(ty)'
      /\ \A t \in WaitTypes \ {ty} : is_scheduled(t)' <=> is_scheduled(t)
  BY <1>1, <1>2, EnqueueStores, FdNodeAssumption
<1>4. events' = events \cup SchedMask(ty) /\ exists' = TRUE
  BY DEF iosvc_enqueue
<1> HIDE DEF is_scheduled
<1>5. CASE ty = "WAIT_READ"
  BY <1>3, <1>4, <1>5
     DEF NodeInv, InterestExact, SchedMask, DequeueMask, WaitTypes
<1>6. CASE ty = "WAIT_WRITE"
  BY <1>3, <1>4, <1>6
     DEF NodeInv, InterestExact, SchedMask, DequeueMask, WaitTypes
<1>7. CASE ty = "WAIT_EXCEPTION"
  BY <1>3, <1>4, <1>7
     DEF NodeInv, InterestExact, SchedMask, DequeueMask, WaitTypes
<1> QED BY <1>5, <1>6, <1>7 DEF WaitTypes

\* Poll interest stays exact over a delivered one (iosvc_dequeue.c:50-63).
LEMMA DequeueInterest ==
  ASSUME NodeInv, NEW ty \in WaitTypes, iosvc_dequeue(ty)
  PROVE  InterestExact'
<1>1. \A t \in WaitTypes : is_scheduled(t) <=> Cell(t) # NULL
  BY FdNodeAssumption DEF is_scheduled, Cell, InUse
<1>2. \A t \in WaitTypes : is_scheduled(t)' <=> Cell(t)' # NULL
  BY FdNodeAssumption DEF is_scheduled, Cell, InUse
<1>3. /\ ~is_scheduled(ty)'
      /\ \A t \in WaitTypes \ {ty} : is_scheduled(t)' <=> is_scheduled(t)
  BY <1>1, <1>2, DequeueVacates
<1>4. /\ events' \in SUBSET Flags
      /\ events' \ {"ERR"} = events \ (DequeueMask(ty) \cup {"ERR"})
      /\ ("ERR" \in events') <=> (events' \cap {"IN", "OUT"} # {})
  BY UnmaskExact DEF iosvc_dequeue, NodeInv, TypeOK, InterestExact
<1>5. exists' = exists
  BY DEF iosvc_dequeue
<1>6. ~exists' => events' = {}
  BY <1>4, <1>5 DEF NodeInv, InterestExact
<1>7. CASE ty = "WAIT_READ"
  BY <1>3, <1>4, <1>6, <1>7
     DEF NodeInv, InterestExact, DequeueMask, WaitTypes
<1>8. CASE ty = "WAIT_WRITE"
  BY <1>3, <1>4, <1>6, <1>8
     DEF NodeInv, InterestExact, DequeueMask, WaitTypes
<1>9. CASE ty = "WAIT_EXCEPTION"
  BY <1>3, <1>4, <1>6, <1>9
     DEF NodeInv, InterestExact, DequeueMask, WaitTypes
<1> QED BY <1>7, <1>8, <1>9 DEF WaitTypes

\* A freed node holds nothing, and nothing is asked of poll for it.
LEMMA FreedIsEmpty ==
  ASSUME Free, events' = {}
  PROVE  NodeInv' /\ \A ty \in WaitTypes : Cell(ty)' = NULL
<1> USE FdNodeAssumption DEF Free, InUse, is_scheduled, get_evt_data
<1>1. TypeOK'
  BY DEF TypeOK
<1>2. NoOrphanHandler'
  BY DEF NoOrphanHandler
<1>3. InterestExact'
  BY DEF InterestExact, Stored
<1>4. \A ty \in WaitTypes : Cell(ty)' = NULL
  BY DEF Cell, WaitTypes
<1> QED BY <1>1, <1>2, <1>3, <1>4 DEF NodeInv

\* Of every reachable state of a node: the handlers stored are exactly those
\* get_evt_data finds, and poll is asked for exactly their types.
THEOREM NodeInvariant == Spec => []NodeInv
<1>1. Init => NodeInv
  BY FdNodeAssumption
     DEF Init, NodeInv, TypeOK, NoOrphanHandler, InterestExact, InUse,
         is_scheduled, get_evt_data
<1>2. NodeInv /\ TypeOK' /\ [Next]_vars => NodeInv'
  <2> SUFFICES ASSUME NodeInv, TypeOK', [Next]_vars PROVE NodeInv'
    OBVIOUS
  <2>1. ASSUME NEW ty \in WaitTypes, NEW h \in Handlers, iosvc_enqueue(ty, h)
        PROVE  NodeInv'
    BY <2>1, EnqueueStores, EnqueueInterest DEF NodeInv
  <2>2. ASSUME NEW ty \in WaitTypes, iosvc_dequeue(ty)
        PROVE  NodeInv'
    BY <2>2, DequeueVacates, DequeueInterest DEF NodeInv
  <2>3. CASE ioevt_cleanup_evt
    BY <2>3, FreedIsEmpty DEF ioevt_cleanup_evt
  <2>4. CASE stop_async_ops
    BY <2>4, FreedIsEmpty DEF stop_async_ops
  <2>5. CASE UNCHANGED vars
    BY <2>5 DEF vars, NodeInv, TypeOK, NoOrphanHandler, InterestExact, InUse,
            is_scheduled, get_evt_data
  <2> QED BY <2>1, <2>2, <2>3, <2>4, <2>5 DEF Next
<1> QED BY <1>1, <1>2, TypeCorrect, PTL DEF Spec

\* poll() is asked for exactly the event types that have a handler.
THEOREM InterestIsExact == Spec => []InterestExact
<1>1. NodeInv => InterestExact
  BY DEF NodeInv
<1> QED BY <1>1, NodeInvariant, PTL

\* No read or write handler is stored where it cannot be found.
THEOREM NoHandlerOrphaned == Spec => []NoOrphanHandler
<1>1. NodeInv => NoOrphanHandler
  BY DEF NodeInv
<1> QED BY <1>1, NodeInvariant, PTL

\* An event just delivered can be scheduled again without a call of malloc, so
\* the wait that continues a partial transfer is not refused for want of memory
\* (async_rdwr.c:54, iosvc_sched.c:46-107).
THEOREM RewaitsWithoutMemory == Spec => RewaitNeedsNoMemory
<1>1. ASSUME NodeInv, NEW ty \in WaitTypes, iosvc_dequeue(ty)
      PROVE  ~NeedsMalloc(ty)'
  <2> USE FdNodeAssumption DEF InUse, is_scheduled, get_evt_data, Stored
  <2>1. exists' = TRUE
    <3>1. DequeueMask(ty) \subseteq events
      BY <1>1 DEF iosvc_dequeue, NodeInv, InterestExact, DequeueMask, WaitTypes
    <3>2. events # {}
      BY <3>1 DEF DequeueMask
    <3> QED BY <1>1, <3>2 DEF iosvc_dequeue, NodeInv, TypeOK, InterestExact
  <2>2. CASE ty = "WAIT_EXCEPTION"
    BY <1>1, <2>1, <2>2 DEF iosvc_dequeue, Vacate, NeedsMalloc
  <2>3. CASE ty \in {"WAIT_READ", "WAIT_WRITE"}
    BY <1>1, <2>1, <2>3 DEF iosvc_dequeue, Vacate, NeedsMalloc
  <2> QED BY <2>2, <2>3 DEF WaitTypes
<1>2. NodeInv /\ [Next]_vars
        => [\A ty \in WaitTypes : iosvc_dequeue(ty) => ~NeedsMalloc(ty)']_vars
  BY <1>1
<1> QED BY <1>2, NodeInvariant, PTL DEF Spec, RewaitNeedsNoMemory

-----------------------------------------------------------------------------
(* Refinement.                                                             *)

\* Whatever is scheduled, delivered, stolen and freed, in any order, a node
\* behaves as three independent cells, one for each event type.
THEOREM NodeImplementsEventMap == Spec => ImplementsEventMap
<1> USE DEF Abstract!Init, Abstract!Next, Abstract!Spec, Abstract!emVars,
            Abstract!Schedule, Abstract!Deliver, Abstract!DeliverAll
<1>1. Init => Abstract!Init
  BY FdNodeAssumption
     DEF Init, Cell, is_scheduled, get_evt_data, InUse, DequeueMask, WaitTypes
<1>2. NodeInv /\ NodeInv' /\ [Next]_vars => [Abstract!Next]_(Abstract!emVars)
  <2> SUFFICES ASSUME NodeInv, NodeInv', [Next]_vars
               PROVE  [Abstract!Next]_(Abstract!emVars)
    OBVIOUS
  <2> DEFINE slots   == [ty \in WaitTypes |-> Cell(ty)]
             watched == {ty \in WaitTypes : DequeueMask(ty) \subseteq events}
  <2>1. ASSUME NEW ty \in WaitTypes, NEW h \in Handlers, iosvc_enqueue(ty, h)
        PROVE  Abstract!Schedule(ty, h)
    <3>1. slots[ty] = NULL
      BY <2>1 DEF iosvc_enqueue, Cell
    <3>2. slots' = [slots EXCEPT ![ty] = h]
      BY <2>1, EnqueueStores
    <3>3. watched' = watched \cup {ty}
      BY <2>1 DEF iosvc_enqueue, SchedMask, DequeueMask, WaitTypes
    <3> QED BY <3>1, <3>2, <3>3
  <2>2. ASSUME NEW ty \in WaitTypes, iosvc_dequeue(ty)
        PROVE  Abstract!Deliver(ty)
    <3>1. slots[ty] # NULL
      BY <2>2 DEF iosvc_dequeue, Cell, is_scheduled, InUse
    <3>2. slots' = [slots EXCEPT ![ty] = NULL]
      BY <2>2, DequeueVacates
    <3>3. events' \ {"ERR"} = events \ (DequeueMask(ty) \cup {"ERR"})
      BY <2>2, UnmaskExact DEF iosvc_dequeue, NodeInv, TypeOK, InterestExact
    <3>4. watched' = watched \ {ty}
      BY <3>3 DEF DequeueMask, WaitTypes
    <3> QED BY <3>1, <3>2, <3>4
  <2>3. CASE ioevt_cleanup_evt \/ stop_async_ops
    <3>1. Free /\ events' = {}
      BY <2>3 DEF ioevt_cleanup_evt, stop_async_ops
    <3>2. slots' = [ty \in WaitTypes |-> NULL]
      BY <3>1, FreedIsEmpty
    <3>3. watched' = {}
      BY <3>1 DEF DequeueMask, WaitTypes
    <3> QED BY <3>2, <3>3
  <2>4. CASE UNCHANGED vars
    BY <2>4 DEF vars, Cell, is_scheduled, get_evt_data, InUse
  <2> QED BY <2>1, <2>2, <2>3, <2>4 DEF Next
<1> QED BY <1>1, <1>2, NodeInvariant, PTL DEF Spec, ImplementsEventMap
=============================================================================
