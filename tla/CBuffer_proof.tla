---------------------------- MODULE CBuffer_proof ---------------------------
(***************************************************************************)
(* Proofs about CBuffer for any handlers and any number of them: begin,    *)
(* end and the count agree, the handler being called stays in front, and   *)
(* the buffer implements a queue.                                          *)
(***************************************************************************)
EXTENDS CBuffer, Sequences, TLAPS

-----------------------------------------------------------------------------
(* Growth: the two copies put the handlers of a full buffer in order at    *)
(* the start of the new memory.                                            *)

\* A full buffer that grows has the same handlers in the same order (cbuffer.c:26-58).
LEMMA GrowthUnwraps ==
  ASSUME BufferInv, Full
  PROVE  /\ NewCapacity \in Nat /\ NewCapacity > cap
         /\ nelems = cap
         /\ cap - begin + end = cap
         /\ Unwrapped \in [0..(NewCapacity - 1) -> Handlers \cup {Junk}]
         /\ \A k \in 0..(nelems - 1) : Unwrapped[k] = data[Slot(k)]
<1> USE DEF BufferInv, TypeOK, PlacesAgree, Full, Slot
<1>1. NewCapacity \in Nat /\ NewCapacity > cap
  BY DEF NewCapacity
<1>2. nelems = cap /\ cap - begin + end = cap
  OBVIOUS
<1>3. Unwrapped \in [0..(NewCapacity - 1) -> Handlers \cup {Junk}]
  BY <1>1, <1>2 DEF Unwrapped
<1>4. \A k \in 0..(nelems - 1) : Unwrapped[k] = data[Slot(k)]
  BY <1>1, <1>2 DEF Unwrapped
<1> QED BY <1>1, <1>2, <1>3, <1>4

\* A post leaves the handlers where they are, counted from begin, and puts its
\* own behind them: with room in the buffer, and when it grows
\* (cbuffer.c:23-58).
LEMMA PostAppends ==
  ASSUME BufferInv, NEW h \in Handlers, iosvc_post(h)
  PROVE  /\ TypeOK'
         /\ cap' > 0 /\ end' = Slot(nelems)'
         /\ nelems' = nelems + 1
         /\ current' = current
         /\ \A k \in 0..(nelems - 1) : data'[Slot(k)'] = data[Slot(k)]
         /\ data'[Slot(nelems - 1)'] = h
<1>1. CASE Full
  <2> DEFINE mem == Unwrapped  limit == NewCapacity
  <2>1. /\ limit \in Nat /\ limit > cap
        /\ nelems = cap
        /\ cap - begin + end = cap
        /\ mem \in [0..(limit - 1) -> Handlers \cup {Junk}]
        /\ \A k \in 0..(nelems - 1) : mem[k] = data[Slot(k)]
    BY <1>1, GrowthUnwraps
  <2>2. Store(mem, limit, 0, cap, h) /\ current' = current
    BY <1>1, <2>1 DEF iosvc_post
  <2> HIDE DEF mem, limit
  <2>3. \A k \in 0..cap : Slot(k)' = k
    BY <2>1, <2>2 DEF Store, Slot, BufferInv, TypeOK
  <2>4. cap \in Nat /\ current \in Handlers \cup {Junk}
    BY DEF BufferInv, TypeOK
  <2>5. TypeOK' /\ cap' > 0 /\ nelems' = nelems + 1
    BY <2>1, <2>2, <2>4 DEF Store, Following, TypeOK
  <2>6. end' = Slot(nelems)'
    BY <2>1, <2>2, <2>4 DEF Store, Following, Slot
  <2>7. \A k \in 0..(nelems - 1) : data'[Slot(k)'] = data[Slot(k)]
    <3> SUFFICES ASSUME NEW k \in 0..(nelems - 1)
                 PROVE  data'[Slot(k)'] = data[Slot(k)]
      OBVIOUS
    <3>1. Slot(k)' = k /\ k # cap /\ k \in 0..(limit - 1)
      BY <2>1, <2>3, <2>4
    <3>2. data' = [mem EXCEPT ![cap] = h]
      BY <2>2 DEF Store
    <3> QED BY <2>1, <3>1, <3>2
  <2>8. data'[Slot(nelems - 1)'] = h
    BY <2>1, <2>2, <2>3, <2>4 DEF Store
  <2> QED BY <2>2, <2>5, <2>6, <2>7, <2>8
<1>2. CASE ~Full
  <2>1. Store(data, cap, begin, end, h) /\ current' = current
    BY <1>2 DEF iosvc_post
  <2>2. nelems < cap /\ cap > 0
    BY <1>2 DEF Full, BufferInv, TypeOK, PlacesAgree, Slot
  <2>3. \A k : Slot(k)' = Slot(k)
    BY <2>1 DEF Store, Slot
  <2>4. end = Slot(nelems)
    BY <2>2 DEF BufferInv, PlacesAgree
  <2>5. TypeOK' /\ cap' > 0 /\ nelems' = nelems + 1
    BY <2>1, <2>2 DEF Store, Following, BufferInv, TypeOK
  <2>6. end' = Slot(nelems)'
    BY <2>1, <2>2, <2>4, <2>5 DEF Store, Following, Slot, BufferInv, TypeOK
  <2>7. \A k \in 0..(nelems - 1) : data'[Slot(k)'] = data[Slot(k)]
    <3>1. \A k \in 0..(nelems - 1) : Slot(k) \in 0..(cap - 1) /\ Slot(k) # end
      BY <2>2, <2>4 DEF Slot, BufferInv, TypeOK
    <3> QED BY <2>1, <2>3, <3>1 DEF Store, BufferInv, TypeOK
  <2>8. data'[Slot(nelems - 1)'] = h
    BY <2>1, <2>2, <2>3, <2>4, <2>5 DEF Store, BufferInv, TypeOK
  <2> QED BY <2>1, <2>5, <2>6, <2>7, <2>8
<1> QED BY <1>1, <1>2

\* cbuf_pop moves every handler one place nearer to the front.
LEMMA PopShifts ==
  ASSUME BufferInv, cbuf_pop
  PROVE  /\ TypeOK'
         /\ nelems > 0 /\ nelems' = nelems - 1
         /\ end' = end /\ cap' = cap /\ cap > 0
         /\ \A k \in 0..nelems' : Slot(k)' = Slot(k + 1)
<1>1. nelems \in 1..cap /\ cap \in Nat
  BY DEF BufferInv, TypeOK, FrontIsCurrent, cbuf_pop
<1>2. TypeOK'
  BY <1>1 DEF BufferInv, TypeOK, cbuf_pop, Following
<1>3. \A k \in 0..(nelems - 1) : Slot(k)' = Slot(k + 1)
  BY <1>1 DEF cbuf_pop, BufferInv, TypeOK, Slot, Following
<1> QED BY <1>1, <1>2, <1>3 DEF cbuf_pop

-----------------------------------------------------------------------------
(* The inductive invariant.  No part is inductive alone: that a push does  *)
(* not overwrite the front needs begin, end and the count to agree, and    *)
(* that cbuf_pop is not called on an empty buffer is FrontIsCurrent.       *)

\* Of every reachable state of the buffer.
THEOREM BufferInvariant == Spec => []BufferInv
<1>1. Init => BufferInv
  BY CBufferAssumption
     DEF Init, BufferInv, TypeOK, PlacesAgree, FrontIsCurrent
<1>2. BufferInv /\ [Next]_vars => BufferInv'
  <2> SUFFICES ASSUME BufferInv, [Next]_vars PROVE BufferInv'
    OBVIOUS
  <2>1. ASSUME NEW h \in Handlers, iosvc_post(h) PROVE BufferInv'
    <3>1. PlacesAgree'
      BY <2>1, PostAppends DEF BufferInv, TypeOK, PlacesAgree
    <3>2. FrontIsCurrent'
      <4>1. (Slot(0) = begin /\ Slot(0)' = begin') \/ nelems = 0
        BY <2>1, PostAppends, SMTT(30) DEF BufferInv, TypeOK, Slot
      <4> QED BY <2>1, <4>1, PostAppends DEF BufferInv, TypeOK, FrontIsCurrent
    <3> QED BY <2>1, <3>1, <3>2, PostAppends DEF BufferInv
  <2>2. CASE call_front
    <3>1. Slot(0) = begin
      BY <2>2 DEF call_front, BufferInv, TypeOK, Slot
    <3>2. data[begin] \in Handlers
      BY <2>2, <3>1 DEF call_front, BufferInv, TypeOK, PlacesAgree
    <3>3. TypeOK' /\ FrontIsCurrent'
      BY <2>2, <3>2 DEF call_front, BufferInv, TypeOK, FrontIsCurrent
    <3>4. PlacesAgree'
      BY <2>2 DEF call_front, BufferInv, PlacesAgree, Slot
    <3> QED BY <3>3, <3>4 DEF BufferInv
  <2>3. CASE cbuf_pop
    <3>1. /\ TypeOK'
          /\ nelems > 0 /\ nelems' = nelems - 1
          /\ end' = end /\ cap' = cap /\ cap > 0
          /\ \A k \in 0..nelems' : Slot(k)' = Slot(k + 1)
      BY <2>3, PopShifts
    <3>2. nelems \in Nat /\ data' = data /\ current' = Junk
      BY <2>3 DEF cbuf_pop, BufferInv, TypeOK
    <3>3. FrontIsCurrent'
      BY <3>2 DEF FrontIsCurrent
    <3>4. end' = Slot(nelems)'
      BY <3>1, <3>2 DEF BufferInv, PlacesAgree
    <3>5. \A k \in 0..(nelems' - 1) : data'[Slot(k)'] \in Handlers
      BY <3>1, <3>2 DEF BufferInv, PlacesAgree
    <3> QED BY <3>1, <3>3, <3>4, <3>5 DEF BufferInv, PlacesAgree
  <2>4. CASE UNCHANGED vars
    BY <2>4 DEF vars, BufferInv, TypeOK, PlacesAgree, FrontIsCurrent, Slot
  <2> QED BY <2>1, <2>2, <2>3, <2>4 DEF Next
<1> QED BY <1>1, <1>2, PTL DEF Spec

\* Every field of the buffer keeps its type; the count stays within the capacity,
\* the pointers within the memory (cbuffer.c:23-58).
THEOREM TypeCorrect == Spec => []TypeOK
<1>1. BufferInv => TypeOK
  BY DEF BufferInv
<1> QED BY <1>1, BufferInvariant, PTL

\* The two pointers and the count never disagree.
THEOREM PlacesAlwaysAgree == Spec => []PlacesAgree
<1>1. BufferInv => PlacesAgree
  BY DEF BufferInv
<1> QED BY <1>1, BufferInvariant, PTL

\* The handler that run_sync_handlers is calling is the one that it pops.
THEOREM FrontStaysCurrent == Spec => []FrontIsCurrent
<1>1. BufferInv => FrontIsCurrent
  BY DEF BufferInv
<1> QED BY <1>1, BufferInvariant, PTL

-----------------------------------------------------------------------------
(* Refinement.                                                             *)

\* The handlers from begin on, as HandlerQueue sees them.
Contents == [k \in 1..nelems |-> data[Slot(k - 1)]]

\* What the buffer stands for is a sequence of handlers.
LEMMA ContentsIsSequence ==
  ASSUME BufferInv
  PROVE  Contents \in Seq(Handlers) /\ Len(Contents) = nelems
BY DEF Contents, BufferInv, TypeOK, PlacesAgree

\* Whatever is posted, called and popped, in any order, and however often the
\* buffer grows, it behaves as a queue.
THEOREM BufferImplementsQueue == Spec => ImplementsQueue
<1>1. Init => Abstract!Init
  BY DEF Init, Abstract!Init
<1>2. BufferInv /\ BufferInv' /\ [Next]_vars => [Abstract!Next]_(Abstract!hqVars)
  <2> SUFFICES ASSUME BufferInv, BufferInv', [Next]_vars
               PROVE  [Abstract!Next]_(Abstract!hqVars)
    OBVIOUS
  <2> USE ContentsIsSequence
  <2>n. nelems \in Nat
    BY DEF BufferInv, TypeOK
  <2>1. ASSUME NEW h \in Handlers, iosvc_post(h)
        PROVE  Abstract!Post(h)
    <3>1. Contents' = Append(Contents, h)
      BY <2>1, <2>n, PostAppends DEF Contents
    <3>2. current' = current
      BY <2>1, PostAppends
    <3> QED BY <3>1, <3>2 DEF Contents, Abstract!Post
  <2>2. CASE call_front
    <3>1. Slot(0) = begin /\ nelems > 0
      BY <2>2 DEF call_front, BufferInv, TypeOK, Slot
    <3>2. current = Junk /\ current' # Junk
      BY <2>2, <2>n, <3>1, CBufferAssumption DEF call_front, BufferInv, PlacesAgree
    <3>3. Contents # << >> /\ Contents' = Contents
      BY <2>2, <2>n, <3>1 DEF call_front, Contents, Slot
    <3> QED BY <3>2, <3>3, Zenon DEF Contents, Abstract!Call, Abstract!Next
  <2>3. CASE cbuf_pop
    <3>1. Contents' = Tail(Contents)
      <4>1. /\ nelems > 0 /\ nelems' = nelems - 1 /\ data' = data
            /\ \A k \in 0..nelems' : Slot(k)' = Slot(k + 1)
        BY <2>3, PopShifts DEF cbuf_pop
      <4>2. \A k \in 1..nelems' : Contents'[k] = Contents[k + 1]
        BY <2>n, <4>1 DEF Contents
      <4> QED BY <2>n, <4>1, <4>2 DEF Contents
    <3>2. current # Junk /\ current' = Junk
      BY <2>3 DEF cbuf_pop
    <3> QED BY <3>1, <3>2, Zenon DEF Contents, Abstract!Return, Abstract!Next
  <2>4. CASE UNCHANGED vars
    BY <2>4 DEF vars, Slot, Abstract!hqVars
  <2> QED BY <2>1, <2>2, <2>3, <2>4 DEF Next, Abstract!Next
<1> QED BY <1>1, <1>2, BufferInvariant, PTL DEF Spec, ImplementsQueue, Abstract!Spec
=============================================================================
