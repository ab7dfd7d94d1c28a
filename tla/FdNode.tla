------------------------------- MODULE FdNode -------------------------------
(***************************************************************************)
(* The node an io_service keeps for one file descriptor: rb_node of        *)
(* src/rbnode.h with the code that fills it (iosvc_enqueue and its helpers *)
(* in src/iosvc_sched.c) and empties it (iosvc_dequeue in                  *)
(* src/iosvc_dequeue.c), and the descriptor's struct pollfd interest mask. *)
(*                                                                         *)
(* The first read or write event lives inline (main_event); the opposite   *)
(* one is allocated (aux_event), as is the exception event (ex_event).     *)
(* Vacated allocations are kept, and either of aux and ex steals the       *)
(* other's vacated one instead of calling malloc.                          *)
(*                                                                         *)
(* A storage cell holds a handler, or NULL for a vacated one               *)
(* (handler.callback == NULL), or NoMem for a pointer never allocated.     *)
(* The mask is kept as a set of flags: "IN" stands for the group           *)
(* POLLIN|POLLHUP|POLLRDNORM|POLLRDBAND and "OUT" for                      *)
(* POLLOUT|POLLWRNORM|POLLWRBAND, whose bits are always set and cleared    *)
(* together; POLLERR, shared by reads and writes, is a flag of its own.    *)
(***************************************************************************)
CONSTANTS Handlers,   \* non-NULL completion handlers
          NULL,       \* vacated storage
          NoMem       \* no storage allocated

ASSUME FdNodeAssumption ==
    /\ NULL \notin Handlers
    /\ NoMem \notin Handlers
    /\ NULL # NoMem

WaitTypes == {"WAIT_READ", "WAIT_WRITE", "WAIT_EXCEPTION"}
Flags     == {"IN", "OUT", "PRI", "ERR"}

VARIABLES exists,        \* the descriptor has a node in the tree
          main_ev_type,  \* EMPTY, READ or WRITE
          main,          \* main_event.handler (inline storage)
          aux,           \* *aux_event
          ex,            \* *ex_event
          events         \* pollfd.events

vars == <<exists, main_ev_type, main, aux, ex, events>>

-----------------------------------------------------------------------------
(* The helpers of iosvc_sched.c and rbnode.h.                              *)

InUse(cell) == cell \notin {NULL, NoMem}

\* The main_ev_type under which a read or write event is stored inline.
Stored(ty) == IF ty = "WAIT_READ" THEN "READ" ELSE "WRITE"

\* get_evt_data: the cell that an event type's data is looked up in.
\* NoMem stands for a NULL event_data pointer.
get_evt_data(ty) ==
    IF ty = "WAIT_EXCEPTION" THEN ex
    ELSE IF main_ev_type = "EMPTY" THEN NoMem
    ELSE IF main_ev_type = Stored(ty) THEN main
    ELSE aux

is_scheduled(ty) == InUse(get_evt_data(ty))

\* evt_masks of iosvc_dequeue ...
DequeueMask(ty) == IF ty = "WAIT_READ" THEN {"IN"}
                   ELSE IF ty = "WAIT_WRITE" THEN {"OUT"} ELSE {"PRI"}

\* ... and of iosvc_enqueue, with POLLERR in the read and write masks.
SchedMask(ty) == DequeueMask(ty) \cup
                 (IF ty = "WAIT_EXCEPTION" THEN {} ELSE {"ERR"})

-----------------------------------------------------------------------------
(* reserve_rd_wr and reserve_evt_mem, each with the assignment of the      *)
(* handler to the reserved cell that iosvc_enqueue makes next.             *)

ReserveInline(ty, h) ==
    /\ main_ev_type \in {"EMPTY", Stored(ty)}
    /\ main_ev_type' = Stored(ty)
    /\ main' = h
    /\ UNCHANGED <<aux, ex>>

\* A mutant of ReserveAux: the exception's memory is stolen while in use.
ReserveAuxBlindly(ty, h) ==
    /\ main_ev_type \notin {"EMPTY", Stored(ty)}
    /\ aux' = h
    /\ ex' = IF aux = NoMem THEN NoMem ELSE ex
    /\ UNCHANGED <<main_ev_type, main>>

ReserveAux(ty, h) ==
    /\ main_ev_type \notin {"EMPTY", Stored(ty)}
    /\ aux' = h
    /\ ex' = IF aux = NoMem /\ ex = NULL THEN NoMem ELSE ex
    /\ UNCHANGED <<main_ev_type, main>>

ReserveException(h) ==
    /\ ex' = h
    /\ aux' = IF ex = NoMem /\ aux = NULL THEN NoMem ELSE aux
    /\ UNCHANGED <<main_ev_type, main>>

\* Scheduling an event of type ty would call malloc: for the node, or for a
\* cell that is neither inline nor kept nor to be stolen.
NeedsMalloc(ty) ==
    \/ ~exists
    \/ ty = "WAIT_EXCEPTION" /\ ex = NoMem /\ aux # NULL
    \/ /\ ty # "WAIT_EXCEPTION"
       /\ main_ev_type \notin {"EMPTY", Stored(ty)}
       /\ aux = NoMem /\ ex # NULL

\* iosvc_enqueue: refused while the event is scheduled (EIO_INPROGRESS).
\* Allocations succeed; one that fails for a node already in the tree leaves
\* it as it was, so it would be a stuttering step.  A descriptor without a
\* node gets a zeroed one, whose fields exists = FALSE already describes.
iosvc_enqueue(ty, h) ==
    /\ ~is_scheduled(ty)
    /\ \/ /\ ty = "WAIT_EXCEPTION"
          /\ ReserveException(h)
       \/ /\ ty # "WAIT_EXCEPTION"
          /\ ReserveInline(ty, h) \/ ReserveAux(ty, h)
    /\ exists' = TRUE
    /\ events' = events \cup SchedMask(ty)

\* Mutants of Vacate: the cell is given up instead of vacated; main_ev_type is
\* reset while the other of the two cells is in use.
VacateAndFree(ty) ==
    /\ ex' = IF ty = "WAIT_EXCEPTION" THEN NoMem ELSE ex
    /\ main' = IF main_ev_type = Stored(ty) /\ ty # "WAIT_EXCEPTION" THEN NoMem ELSE main
    /\ aux' = IF main_ev_type # Stored(ty) /\ ty # "WAIT_EXCEPTION" THEN NoMem ELSE aux
    /\ main_ev_type' = IF InUse(main') \/ InUse(aux') THEN main_ev_type ELSE "EMPTY"

VacateIgnoresAux(ty) ==
    /\ ex' = IF ty = "WAIT_EXCEPTION" THEN NULL ELSE ex
    /\ main' = IF main_ev_type = Stored(ty) /\ ty # "WAIT_EXCEPTION" THEN NULL ELSE main
    /\ aux' = IF main_ev_type # Stored(ty) /\ ty # "WAIT_EXCEPTION" THEN NULL ELSE aux
    /\ main_ev_type' = IF InUse(main') THEN main_ev_type ELSE "EMPTY"

\* The effect of iosvc_dequeue on the node's cells.
Vacate(ty) ==
    /\ ex' = IF ty = "WAIT_EXCEPTION" THEN NULL ELSE ex
    /\ main' = IF main_ev_type = Stored(ty) /\ ty # "WAIT_EXCEPTION"
               THEN NULL ELSE main
    /\ aux' = IF main_ev_type # Stored(ty) /\ ty # "WAIT_EXCEPTION"
              THEN NULL ELSE aux
    /\ main_ev_type' = IF InUse(main') \/ InUse(aux')
                       THEN main_ev_type ELSE "EMPTY"

\* A mutant of Unmask: POLLERR goes with the first of read and write.
UnmaskError(ty, mask) == mask \ SchedMask(ty)

\* The effect of iosvc_dequeue on the interest mask: POLLERR goes when
\* neither a read nor a write is left.
Unmask(ty, mask) ==
    LET rest == mask \ DequeueMask(ty)
    IN  IF rest \cap {"IN", "OUT"} = {} THEN rest \ {"ERR"} ELSE rest

iosvc_dequeue(ty) ==
    /\ is_scheduled(ty)
    /\ Vacate(ty)
    /\ events' = Unmask(ty, events)
    /\ UNCHANGED exists

Free == /\ exists' = FALSE
        /\ main_ev_type' = "EMPTY"
        /\ main' = NULL
        /\ aux' = NoMem
        /\ ex' = NoMem

\* ioevt_cleanup_evt: node and allocations are freed once nothing is awaited.
ioevt_cleanup_evt ==
    /\ exists
    /\ events = {}
    /\ Free
    /\ UNCHANGED events

\* stop_async_ops: every stored handler is called (none of them can change the
\* node any more, the service being STOPPING) and the node is freed;
\* iosvc_prep_stop then drops the pollfd.
stop_async_ops ==
    /\ exists
    /\ Free
    /\ events' = {}

-----------------------------------------------------------------------------
Init == /\ exists = FALSE
        /\ main_ev_type = "EMPTY"
        /\ main = NULL
        /\ aux = NoMem
        /\ ex = NoMem
        /\ events = {}

Next == \/ \E ty \in WaitTypes, h \in Handlers : iosvc_enqueue(ty, h)
        \/ \E ty \in WaitTypes : iosvc_dequeue(ty)
        \/ ioevt_cleanup_evt
        \/ stop_async_ops

Spec == Init /\ [][Next]_vars

-----------------------------------------------------------------------------
\* Every cell holds what its C type allows; inline storage always exists.
TypeOK ==
    /\ exists \in BOOLEAN
    /\ main_ev_type \in {"EMPTY", "READ", "WRITE"}
    /\ main \in Handlers \cup {NULL}
    /\ aux \in Handlers \cup {NULL, NoMem}
    /\ ex \in Handlers \cup {NULL, NoMem}
    /\ events \in SUBSET Flags

\* No read or write handler is stored where get_evt_data cannot find it:
\* main_ev_type is EMPTY exactly when neither cell holds one
\* (iosvc_dequeue.c:46, rbnode.h:60).
NoOrphanHandler == (main_ev_type = "EMPTY") <=> ~(InUse(main) \/ InUse(aux))

\* poll() is asked for exactly the event types whose handlers are stored, and
\* for POLLERR exactly while a read or a write is; a descriptor without a node
\* is asked for nothing (iosvc_sched.c:191, iosvc_dequeue.c:60-63).
InterestExact ==
    /\ ("IN" \in events) <=> is_scheduled("WAIT_READ")
    /\ ("OUT" \in events) <=> is_scheduled("WAIT_WRITE")
    /\ ("PRI" \in events) <=> is_scheduled("WAIT_EXCEPTION")
    /\ ("ERR" \in events) <=> (events \cap {"IN", "OUT"} # {})
    /\ ~exists => events = {}

\* The inductive invariant: the three parts together.
NodeInv == TypeOK /\ NoOrphanHandler /\ InterestExact

\* The refinement mapping: what the cells mean.
Cell(ty) == IF is_scheduled(ty) THEN get_evt_data(ty) ELSE NULL

Abstract == INSTANCE EventMap WITH
    Types     <- WaitTypes,
    NoHandler <- NULL,
    slot      <- [ty \in WaitTypes |-> Cell(ty)],
    interest  <- {ty \in WaitTypes : DequeueMask(ty) \subseteq events}

\* Stealing and reusing storage never loses, overwrites or misroutes a
\* handler: the node behaves as three independent cells (reserve_rd_wr,
\* reserve_evt_mem, iosvc_dequeue).
ImplementsEventMap == Abstract!Spec

\* An event that was just delivered can be scheduled again without memory:
\* iosvc_dequeue vacates a cell and never frees it, and the node outlives the
\* handler (iosvc_dequeue.c:40-48).  So the wait that rw_impl makes again after a
\* partial transfer is never refused with EIO_NOMEM, which neither async_rdwr.h
\* nor async_net.h has among the codes a handler is called with
\* (async_rdwr.c:54, iosvc_sched.c:46-107).
RewaitNeedsNoMemory ==
    [][\A ty \in WaitTypes : iosvc_dequeue(ty) => ~NeedsMalloc(ty)']_vars
=============================================================================
