------------------------------ MODULE CBuffer -------------------------------
(***************************************************************************)
(* The circular buffer of src/cbuffer.c as the service uses it: iosvc_post *)
(* pushes handlers, and run_sync_handlers calls the front one, which may   *)
(* post, and so make the buffer grow and move, before it is popped.        *)
(* Pointers are offsets from data, in objects; data is NULL while the      *)
(* capacity is 0.                                                          *)
(***************************************************************************)
EXTENDS Naturals

CONSTANTS Handlers,  \* what is stored
          Junk,      \* the contents of memory that malloc returned
          MaxElems   \* bound: the number of handlers in the buffer

ASSUME CBufferAssumption == Junk \notin Handlers /\ MaxElems \in Nat

VARIABLES data,     \* data[k]: the memory, for k in 0..(cap - 1)
          cap,      \* data_limit - data
          begin, end, nelems,
          current   \* the handler that run_sync_handlers is calling, or Junk

vars == <<data, cap, begin, end, nelems, current>>

\* A mutant of Following: the limit is taken for the last place.
FollowingPast(p, limit) == IF p = limit THEN 0 ELSE p + 1

\* The pointer after p.
Following(p, limit) == IF p + 1 = limit THEN 0 ELSE p + 1

\* A mutant of Full: begin and end meet only when the buffer is full.
FullIfMeeting == cap = 0 \/ begin = end

Full == cap = 0 \/ (begin = end /\ nelems # 0)

NewCapacity == IF 2 * cap > 1 THEN 2 * cap ELSE 1

\* A mutant of Unwrapped: the memory is copied as it lies.
Copied == [k \in 0..(NewCapacity - 1) |-> IF k < cap THEN data[k] ELSE Junk]

\* The two copies of a full buffer into new memory: from begin to the limit, and
\* from the start to end.
Unwrapped ==
    [k \in 0..(NewCapacity - 1) |->
        IF k < cap - begin THEN data[begin + k]
        ELSE IF k < cap - begin + end THEN data[k - (cap - begin)]
        ELSE Junk]

\* cbuf_push, and the store of the handler into the place it returns.  When the
\* new memory cannot be allocated nothing changes: no step.
Store(mem, limit, b, e, h) ==
    /\ data' = [mem EXCEPT ![e] = h]
    /\ cap' = limit
    /\ begin' = b
    /\ end' = Following(e, limit)
    /\ nelems' = nelems + 1

iosvc_post(h) ==
    /\ nelems < MaxElems
    /\ IF Full THEN Store(Unwrapped, NewCapacity, 0, cap - begin + end, h)
               ELSE Store(data, cap, begin, end, h)
    /\ UNCHANGED current

\* run_sync_handlers: cbuf_front and the call of the handler there ...
call_front ==
    /\ current = Junk
    /\ nelems # 0
    /\ current' = data[begin]
    /\ UNCHANGED <<data, cap, begin, end, nelems>>

\* ... and cbuf_pop, when it returns.
cbuf_pop ==
    /\ current # Junk
    /\ nelems' = nelems - 1
    /\ begin' = Following(begin, cap)
    /\ current' = Junk
    /\ UNCHANGED <<data, cap, end>>

Init ==
    /\ data = << >> /\ cap = 0
    /\ begin = 0 /\ end = 0 /\ nelems = 0
    /\ current = Junk

Next == call_front \/ cbuf_pop \/ \E h \in Handlers : iosvc_post(h)

Spec == Init /\ [][Next]_vars

-----------------------------------------------------------------------------
\* The position of the k-th handler from begin, counting from 0.
Slot(k) == IF begin + k < cap THEN begin + k ELSE begin + k - cap

TypeOK ==
    /\ cap \in Nat
    /\ data \in [0..(cap - 1) -> Handlers \cup {Junk}]
    /\ nelems \in 0..cap
    /\ IF cap = 0 THEN begin = 0 /\ end = 0 ELSE {begin, end} \subseteq 0..(cap - 1)
    /\ current \in Handlers \cup {Junk}

\* The handler that is being called is still the one that cbuf_pop will remove,
\* although the posts it made have moved the buffer (io_service.c:42-46).
FrontIsCurrent == current # Junk => nelems > 0 /\ data[begin] = current

\* begin, end and the count agree whether the buffer is empty, full or wrapped:
\* end is the place behind the last of nelems handlers from begin, and none of
\* them lies in memory that was never written (cbuffer.c:26-58, cbuffer.h:33-38).
PlacesAgree ==
    /\ cap > 0 => end = Slot(nelems)
    /\ \A k \in 0..(nelems - 1) : data[Slot(k)] \in Handlers

\* The invariant of the proofs.
BufferInv == TypeOK /\ PlacesAgree /\ FrontIsCurrent

Abstract == INSTANCE HandlerQueue WITH
    queue   <- [k \in 1..nelems |-> data[Slot(k - 1)]],
    calling <- current # Junk

\* The buffer is a queue: whether it is empty, full (begin and end meet in both
\* cases) or wraps round, a push goes behind the last handler, and growth at any
\* offset of begin keeps every handler and the order (cbuffer.c:23-57,
\* cbuffer.h:33-38).  IoService uses a sequence for that reason.
ImplementsQueue == Abstract!Spec
=============================================================================
