------------------------- MODULE AsyncProgram_proof --------------------------
(***************************************************************************)
(* Proofs about AsyncProgram for any operations, groups and awaits: the    *)
(* types, what a transfer reports, which statuses there are, and when      *)
(* contexts are freed.  AsyncGroups_proof goes on from here.               *)
(***************************************************************************)
EXTENDS AsyncProgram, FiniteSetTheorems, TLAPS

-----------------------------------------------------------------------------
(* Types.                                                                  *)

OpFns    == Impls \cup {"free_ctx"}
GroupFns == {"task_group_callback", "free_group", "await"}
Fns      == OpFns \cup GroupFns \cup {"coro", "after", "NULL"}
FrameSet == [fn : Fns, on : Ops \cup Groups \cup {0}, step : Nat]

\* The statuses, NONE before there is one.
Codes == {"NONE", "EIO_OK", "EIO_INVARG", "EIO_CANCELLED", "EIO_STOPPED",
          "EIO_SYSERR", "EIO_EOF", "EIO_INPROGRESS"}

\* The records of operations and groups.
OpRec == [kind : OpKinds, mem : {"none", "live", "leaked", "freed"},
          hnd : FrameSet, left : Nat, moved : Nat, at : Nat, errc : Codes, waits : Nat]

GroupRec == [mem : {"none", "live", "freed"}, remaining : Nat, hnd : FrameSet]

\* A handler stored in an operation is NULL or a group's.
IsGroupHandler(h) == h = NullHandler \/ \E g \in Groups : h = Frame("task_group_callback", g)

\* The operations that a function can be working on.
Serves(fn, kind) == \/ fn = "rw_impl" /\ kind = "rw"
                    \/ fn = "rw_some_impl" /\ kind = "rw_some"
                    \/ fn = "accept_impl" /\ kind = "accept"
                    \/ fn = "connect_impl" /\ kind = "connect"
                    \/ fn = "free_ctx" /\ kind # "post"

\* A function of an operation works on one that it serves, one of a group on a group.
FrameOK(f) == /\ f \in FrameSet
              /\ f.fn \in OpFns => f.on \in Ops /\ Serves(f.fn, op[f.on].kind)
              /\ f.fn \in GroupFns => f.on \in Groups

\* Below the running frame are only frames with something left to do.
Below == {"free_ctx", "free_group", "await"}

StackOK == /\ stack \in Seq(FrameSet)
           /\ \A k \in 1..Len(stack) : FrameOK(stack[k])
           /\ \A k \in 2..Len(stack) : stack[k].fn \in Below

\* An operation's record: a transfer's counters stay within its buffer.
RecOK(o, x) ==
    /\ x \in OpRec /\ x.kind = op[o].kind
    /\ x.left <= Nbytes[o] /\ x.moved <= Nbytes[o] /\ x.at <= Nbytes[o]
    /\ x.kind = "rw" => x.moved + x.left <= Nbytes[o] /\ x.at = x.moved
    /\ IsGroupHandler(x.hnd)

\* The operations, the groups, the service and the coroutine.
OpsOK == /\ op \in [Ops -> OpRec]
         /\ \A o \in Ops : op[o].kind \in Kinds[o] /\ RecOK(o, op[o])

GroupsOK == /\ group \in [Groups -> GroupRec]
            /\ \A g \in Groups : /\ group[g].remaining <= SizeMax
                                 /\ group[g].hnd \in {NullHandler, CoHandler}

ServiceOK == /\ status \in {"READY", "RUNNING", "STOPPING", "DONE"}
             /\ waiting \subseteq Waits \cup {Start} /\ called \subseteq Waits \cup {Start}

CoOK == co \in [state : {DONE} \cup 0..NumAwaits, mem : {"live", "freed"}, nested : BOOLEAN]

\* The types, with what they depend on.
TypeInv == ServiceOK /\ OpsOK /\ GroupsOK /\ CoOK /\ StackOK

-----------------------------------------------------------------------------
(* The stack.                                                              *)

\* The frames that a step leaves on the stack keep their type.
SameKinds == \A o \in Ops : op'[o].kind = op[o].kind

\* The stack after the running function has returned.
LEMMA ReturnsTo ==
  ASSUME StackOK, stack # << >>, Returns
  PROVE  /\ stack' \in Seq(FrameSet) /\ Len(stack) \in Nat \ {0}
         /\ Len(stack') = Len(stack) - 1
         /\ \A k \in 1..Len(stack') : stack'[k] = stack[k + 1]
BY DEF StackOK, Returns, Becomes

\* The stack after the running frame has gone on to another.
LEMMA BecomesOne ==
  ASSUME StackOK, stack # << >>, NEW f \in FrameSet, Becomes(<<f>>)
  PROVE  /\ stack' \in Seq(FrameSet) /\ Len(stack) \in Nat \ {0}
         /\ Len(stack') = Len(stack)
         /\ stack'[1] = f
         /\ \A k \in 2..Len(stack') : stack'[k] = stack[k]
BY DEF StackOK, Becomes

\* The stack after the running function has called a handler, ctx->hnd.callback(...),
\* with something left to do (async_rdwr.c:68-69, task_group.c:14-15).
LEMMA CallsOne ==
  ASSUME StackOK, stack # << >>, NEW h \in FrameSet, NEW f \in FrameSet, CallsThen(h, f)
  PROVE  /\ stack' \in Seq(FrameSet) /\ Len(stack) \in Nat \ {0}
         /\ Len(stack') = Len(stack) + 1
         /\ stack'[1] = h /\ stack'[2] = f
         /\ \A k \in 3..Len(stack') : stack'[k] = stack[k - 1]
BY DEF StackOK, CallsThen, Becomes

\* The stack after a handler was called by the service, from the loop or from an await.
LEMMA IsCalled ==
  ASSUME StackOK, NEW f \in FrameSet, stack' = <<f>> \o stack
  PROVE  /\ stack' \in Seq(FrameSet) /\ Len(stack) \in Nat
         /\ Len(stack') = Len(stack) + 1
         /\ stack'[1] = f
         /\ \A k \in 2..Len(stack') : stack'[k] = stack[k - 1]
BY DEF StackOK

\* The frames keep their types when the running function returns,
LEMMA ReturnsOK ==
  ASSUME StackOK, stack # << >>, Returns, SameKinds
  PROVE  StackOK'
<1>1. /\ stack' \in Seq(FrameSet) /\ Len(stack) \in Nat \ {0}
      /\ Len(stack') = Len(stack) - 1
      /\ \A k \in 1..Len(stack') : stack'[k] = stack[k + 1]
  BY ReturnsTo
<1>2. \A k \in 1..Len(stack') : FrameOK(stack'[k]) /\ stack'[k].fn \in Below
  BY <1>1, SMTT(30) DEF StackOK
<1>3. \A k \in 1..Len(stack') : FrameOK(stack[k])'
  BY <1>2 DEF FrameOK, SameKinds
<1> QED BY <1>1, <1>2, <1>3 DEF StackOK

\* ... when it goes on,
LEMMA BecomesOK ==
  ASSUME StackOK, stack # << >>, NEW f, FrameOK(f), Becomes(<<f>>), SameKinds
  PROVE  StackOK'
<1>1. f \in FrameSet
  BY DEF FrameOK
<1>2. /\ stack' \in Seq(FrameSet) /\ Len(stack) \in Nat \ {0}
      /\ Len(stack') = Len(stack)
      /\ stack'[1] = f
      /\ \A k \in 2..Len(stack') : stack'[k] = stack[k]
  BY <1>1, BecomesOne
<1>3. \A k \in 1..Len(stack') : FrameOK(stack'[k])
  BY <1>2 DEF StackOK
<1>4. \A k \in 2..Len(stack') : stack'[k].fn \in Below
  BY <1>2 DEF StackOK
<1>5. \A k \in 1..Len(stack') : FrameOK(stack[k])'
  BY <1>3 DEF FrameOK, SameKinds
<1> QED BY <1>2, <1>4, <1>5 DEF StackOK

\* ... when it calls a handler,
LEMMA CallsOK ==
  ASSUME StackOK, stack # << >>, NEW h, NEW f, FrameOK(h), FrameOK(f), f.fn \in Below,
         CallsThen(h, f), SameKinds
  PROVE  StackOK'
<1>1. f \in FrameSet /\ h \in FrameSet
  BY DEF FrameOK
<1>2. /\ stack' \in Seq(FrameSet) /\ Len(stack) \in Nat \ {0}
      /\ Len(stack') = Len(stack) + 1
      /\ stack'[1] = h /\ stack'[2] = f
      /\ \A k \in 3..Len(stack') : stack'[k] = stack[k - 1]
  BY <1>1, CallsOne
<1>3. \A k \in 1..Len(stack') : FrameOK(stack'[k])
  <2> TAKE k \in 1..Len(stack')
  <2>1. CASE k <= 2
    BY <1>2, <2>1
  <2>2. CASE k > 2
    BY <1>2, <2>2 DEF StackOK
  <2> QED BY <1>2, <2>1, <2>2
<1>4. \A k \in 2..Len(stack') : stack'[k].fn \in Below
  <2> TAKE k \in 2..Len(stack')
  <2>1. CASE k = 2
    BY <1>2, <2>1
  <2>2. CASE k > 2
    <3>1. k - 1 \in 2..Len(stack) /\ stack'[k] = stack[k - 1]
      BY <1>2, <2>2
    <3> QED BY <3>1 DEF StackOK
  <2> QED BY <1>2, <2>1, <2>2
<1>5. \A k \in 1..Len(stack') : FrameOK(stack[k])'
  BY <1>3 DEF FrameOK, SameKinds
<1> QED BY <1>2, <1>4, <1>5 DEF StackOK

\* ... and when the service calls one.
LEMMA IsCalledOK ==
  ASSUME StackOK, stack = << >> \/ Running("await"), NEW f, FrameOK(f),
         stack' = <<f>> \o stack, SameKinds
  PROVE  StackOK'
<1>1. f \in FrameSet
  BY DEF FrameOK
<1>2. /\ stack' \in Seq(FrameSet) /\ Len(stack) \in Nat
      /\ Len(stack') = Len(stack) + 1
      /\ stack'[1] = f
      /\ \A k \in 2..Len(stack') : stack'[k] = stack[k - 1]
  BY <1>1, IsCalled
<1>3. \A k \in 1..Len(stack') : FrameOK(stack'[k])
  <2> TAKE k \in 1..Len(stack')
  <2>1. CASE k = 1
    BY <1>2, <2>1
  <2>2. CASE k > 1
    BY <1>2, <2>2 DEF StackOK
  <2> QED BY <1>2, <2>1, <2>2
<1>4. \A k \in 1..Len(stack) : stack[k].fn \in Below
  BY <1>2 DEF StackOK, Running, Below
<1>5. \A k \in 2..Len(stack') : stack'[k].fn \in Below
  BY <1>2, <1>4
<1>6. \A k \in 1..Len(stack') : FrameOK(stack[k])'
  BY <1>3 DEF FrameOK, SameKinds
<1> QED BY <1>2, <1>5, <1>6 DEF StackOK
-----------------------------------------------------------------------------
(* The handlers of the operations.                                         *)

\* What the record of operation o can be when its handler is called.
Outcome(o, x) ==
    /\ RecOK(o, x)
    /\ x.mem = op[o].mem /\ x.hnd = op[o].hnd /\ x.waits = op[o].waits
    /\ x.errc \in {op[o].errc, "EIO_SYSERR", "EIO_EOF"} \cup Refusals(o)
    /\ x.errc = "EIO_EOF" => x.kind = "rw" \/ x.errc = op[o].errc
    /\ x.kind = "rw" => /\ x.moved + x.left = op[o].moved + op[o].left
                        /\ x.errc = "EIO_OK" => x.left = 0
    /\ x.kind = "rw_some" /\ x.errc # "EIO_OK" => x.moved = op[o].moved

\* The record of operation o after r bytes more, when it waits for the rest.
Again(o, r) == [Transferred(op[o], r) EXCEPT !.waits = @ + 1]

\* An operation that waits for its event again.
WaitsAgain(o) ==
    \E r \in 1..op[o].left :
        /\ op[o].left - r # 0
        /\ Accepted(o, op[o].waits + 1)
        /\ op' = [op EXCEPT ![o] = Again(o, r)]
        /\ Returns

\* A status stored in an operation changes nothing else of it (async_rdwr.c:26, 46).
LEMMA RecordKept ==
  ASSUME OpsOK, NEW o \in Ops, NEW c \in Codes
  PROVE  /\ RecOK(o, op[o])
         /\ RecOK(o, With(o, c))
         /\ With(o, c).kind = op[o].kind
         /\ With(o, c).mem = op[o].mem /\ With(o, c).hnd = op[o].hnd
         /\ With(o, c).waits = op[o].waits /\ With(o, c).errc = c
         /\ With(o, c).moved = op[o].moved /\ With(o, c).left = op[o].left
BY DEF OpsOK, RecOK, With, OpRec

\* A part of a transfer moves what it takes from the rest (async_rdwr.c:48-50).
LEMMA RecordMoves ==
  ASSUME OpsOK, AsyncOpsAssumption, NEW o \in Ops, NEW r \in Nat, NEW x,
         op[o].kind = "rw", r <= op[o].left, x = Transferred(op[o], r)
  PROVE  /\ RecOK(o, x)
         /\ x.mem = op[o].mem /\ x.hnd = op[o].hnd
         /\ x.waits = op[o].waits /\ x.errc = op[o].errc
         /\ x.moved + x.left = op[o].moved + op[o].left
         /\ x.left = op[o].left - r
<1>1. /\ op[o] \in OpRec /\ RecOK(o, op[o]) /\ Nbytes[o] \in Nat
  BY DEF OpsOK, AsyncOpsAssumption
<1>2. x = [op[o] EXCEPT !.moved = op[o].moved + r, !.left = op[o].left - r,
                        !.at = op[o].at + r]
  BY DEF Transferred
<1>3. /\ op[o].moved \in Nat /\ op[o].left \in Nat /\ op[o].at \in Nat
  BY <1>1 DEF OpRec
<1>4. x \in OpRec /\ x.kind = op[o].kind /\ x.mem = op[o].mem /\ x.hnd = op[o].hnd
      /\ x.waits = op[o].waits /\ x.errc = op[o].errc
      /\ x.moved = op[o].moved + r /\ x.left = op[o].left - r /\ x.at = op[o].at + r
  <2>1. op[o].moved + r \in Nat /\ op[o].left - r \in Nat /\ op[o].at + r \in Nat
    BY <1>3
  <2> QED BY <1>1, <1>2, <2>1 DEF OpRec
<1> QED BY <1>1, <1>3, <1>4 DEF RecOK

\* The running frame and the operation it works on.
LEMMA RunningOp ==
  ASSUME TypeInv, stack # << >>, Head(stack).fn \in OpFns
  PROVE  /\ This \in Ops /\ Serves(Head(stack).fn, op[This].kind)
         /\ op[This] \in OpRec
         /\ Head(stack) = stack[1] /\ 1 \in 1..Len(stack)
<1>1. Head(stack) = stack[1] /\ 1 \in 1..Len(stack)
  BY DEF TypeInv, StackOK
<1> QED BY <1>1 DEF TypeInv, StackOK, FrameOK, This, OpsOK

\* Every way through async_rw_impl, async_rw_some_impl, async_accept_impl and
\* async_connect_impl calls the client's handler or waits again.
LEMMA OpRuns ==
  ASSUME TypeInv, AsyncOpsAssumption, OpSteps
  PROVE  /\ stack # << >> /\ Head(stack).fn \in OpFns
         /\ \/ /\ Head(stack).fn \in Impls
               /\ \E x : Outcome(This, x) /\ Completes(This, x)
            \/ Head(stack).fn = "rw_impl" /\ WaitsAgain(This)
            \/ free_ctx
<1> DEFINE o == This
<1>1. stack # << >> /\ Head(stack).fn \in OpFns
  BY DEF OpSteps, rw_some_impl, rw_impl, net_impl, free_ctx, Running, OpFns, Impls
<1>2. o \in Ops /\ Serves(Head(stack).fn, op[o].kind) /\ op[o] \in OpRec /\ OpsOK
  BY <1>1, RunningOp DEF TypeInv
<1>3. Nbytes[o] \in Nat /\ op[o].left \in Nat
  BY <1>2 DEF AsyncOpsAssumption, OpRec
<1>4. Told(o) = op[o].errc
  BY DEF Told
<1> HIDE DEF o
<1>5. op[o].kind # "rw" \/ op[o].errc # "EIO_OK" => Outcome(o, op[o])
  BY <1>2, RecordKept DEF Outcome, Codes
<1>6. ASSUME NEW c \in {"EIO_SYSERR", "EIO_EOF"}, c = "EIO_EOF" => op[o].kind = "rw"
      PROVE  Outcome(o, With(o, c))
  <2>1. c \in Codes /\ c # "EIO_OK"
    BY DEF Codes
  <2> QED BY <1>2, <1>6, <2>1, RecordKept DEF Outcome
<1>7. CASE rw_some_impl
  <2>1. Head(stack).fn = "rw_some_impl" /\ op[o].kind = "rw_some"
    BY <1>2, <1>7 DEF rw_some_impl, Running, Serves
  <2>2. CASE Completes(o, op[o])
    BY <1>1, <1>5, <2>1, <2>2 DEF Impls, o
  <2>3. CASE Completes(o, With(o, "EIO_SYSERR"))
    BY <1>1, <1>6, <2>1, <2>3 DEF Impls, o
  <2>4. ASSUME Told(o) = "EIO_OK",
               NEW r \in 0..Nbytes[o], Completes(o, [op[o] EXCEPT !.moved = r])
        PROVE  \E x : Outcome(o, x) /\ Completes(o, x)
    <3> DEFINE x == [op[o] EXCEPT !.moved = r]
    <3>1. r \in Nat /\ r <= Nbytes[o]
      BY <1>3
    <3>2. /\ x \in OpRec /\ x.kind = op[o].kind /\ x.mem = op[o].mem /\ x.hnd = op[o].hnd
          /\ x.waits = op[o].waits /\ x.errc = op[o].errc /\ x.moved = r
          /\ x.left = op[o].left /\ x.at = op[o].at
      BY <1>2, <3>1 DEF OpRec
    <3>3. RecOK(o, op[o])
      BY <1>2 DEF OpsOK
    <3>4. Outcome(o, x)
      BY <1>4, <2>1, <2>4, <3>1, <3>2, <3>3 DEF Outcome, RecOK
    <3> QED BY <2>4, <3>4
  <2> QED BY <1>1, <1>7, <2>1, <2>2, <2>3, <2>4 DEF rw_some_impl, Impls, o
<1>8. CASE rw_impl
  <2>1. Head(stack).fn = "rw_impl" /\ op[o].kind = "rw"
    BY <1>2, <1>8 DEF rw_impl, Running, Serves
  <2>2. CASE Told(o) # "EIO_OK" /\ Completes(o, op[o])
    BY <1>1, <1>4, <1>5, <2>1, <2>2 DEF Impls, o
  <2>3. CASE Completes(o, With(o, "EIO_SYSERR")) \/ Completes(o, With(o, "EIO_EOF"))
    BY <1>1, <1>6, <2>1, <2>3 DEF Impls, o
  <2>4. ASSUME Told(o) = "EIO_OK", NEW r \in 1..op[o].left, NEW x,
               x = Transferred(op[o], r),
               IF x.left = 0 THEN Completes(o, x)
               ELSE \/ /\ Accepted(o, x.waits + 1)
                       /\ op' = [op EXCEPT ![o] = [x EXCEPT !.waits = @ + 1]]
                       /\ Returns
                    \/ \E code \in Refusals(o) : Completes(o, [x EXCEPT !.errc = code])
        PROVE  WaitsAgain(o) \/ \E y : Outcome(o, y) /\ Completes(o, y)
    <3>1. /\ RecOK(o, x) /\ x.kind = "rw"
          /\ x.mem = op[o].mem /\ x.hnd = op[o].hnd
          /\ x.waits = op[o].waits /\ x.errc = op[o].errc
          /\ x.moved + x.left = op[o].moved + op[o].left
          /\ x.left = op[o].left - r
      <4>1. r \in Nat /\ r <= op[o].left
        BY <1>3
      <4>2. RecOK(o, x) => x.kind = op[o].kind
        BY DEF RecOK
      <4> QED BY <1>2, <2>1, <2>4, <4>1, <4>2, RecordMoves
    <3>2. CASE x.left = 0
      <4>1. Outcome(o, x)
        BY <3>1, <3>2 DEF Outcome
      <4> QED BY <2>4, <3>2, <4>1
    <3>3. CASE x.left # 0 /\ Accepted(o, x.waits + 1)
                          /\ op' = [op EXCEPT ![o] = [x EXCEPT !.waits = @ + 1]]
                          /\ Returns
      <4>1. op[o].left - r # 0 /\ Accepted(o, op[o].waits + 1)
        BY <3>1, <3>3
      <4>2. op' = [op EXCEPT ![o] = Again(o, r)]
        BY <2>4, <3>3 DEF Again
      <4> QED BY <3>3, <4>1, <4>2 DEF WaitsAgain
    <3>4. ASSUME x.left # 0, NEW code \in Refusals(o), Completes(o, [x EXCEPT !.errc = code])
          PROVE  \E y : Outcome(o, y) /\ Completes(o, y)
      <4> DEFINE y == [x EXCEPT !.errc = code]
      <4>1. code \in {"EIO_STOPPED", "EIO_INPROGRESS"}
        BY <3>4 DEF Refusals
      <4>2. x \in OpRec
        BY <3>1 DEF RecOK
      <4>3. /\ y \in OpRec /\ y.kind = x.kind /\ y.mem = x.mem /\ y.hnd = x.hnd
            /\ y.waits = x.waits /\ y.errc = code /\ y.moved = x.moved
            /\ y.left = x.left /\ y.at = x.at
        BY <4>1, <4>2 DEF OpRec, Codes
      <4>4. Outcome(o, y)
        BY <3>1, <3>4, <4>1, <4>3 DEF Outcome, RecOK
      <4> QED BY <3>4, <4>4
    <3> QED BY <2>4, <3>2, <3>3, <3>4
  <2> QED BY <1>1, <1>8, <2>1, <2>2, <2>3, <2>4 DEF rw_impl, Impls, o
<1>9. CASE net_impl
  <2>1. Head(stack).fn \in {"accept_impl", "connect_impl"} /\ op[o].kind # "rw"
    BY <1>2, <1>9 DEF net_impl, Running, Serves
  <2> QED BY <1>1, <1>5, <1>6, <1>9, <2>1 DEF net_impl, Impls, o
<1> QED BY <1>1, <1>7, <1>8, <1>9 DEF OpSteps, o

\* A change of one operation's record keeps the others.
LEMMA OpChanges ==
  ASSUME OpsOK, NEW o \in Ops, NEW x, RecOK(o, x), op' = [op EXCEPT ![o] = x]
  PROVE  /\ OpsOK' /\ SameKinds
         /\ op'[o] = x /\ \A p \in Ops \ {o} : op'[p] = op[p]
<1>1. op'[o] = x /\ \A p \in Ops \ {o} : op'[p] = op[p]
  BY DEF OpsOK
<1>2. x \in OpRec /\ x.kind = op[o].kind
  BY DEF RecOK
<1>3. op' \in [Ops -> OpRec]
  BY <1>2 DEF OpsOK
<1>4. SameKinds
  BY <1>1, <1>2 DEF SameKinds
<1>5. ASSUME NEW p \in Ops PROVE op'[p].kind \in Kinds[p] /\ RecOK(p, op[p])'
  BY <1>1, <1>2 DEF OpsOK, RecOK
<1> QED BY <1>1, <1>3, <1>4, <1>5 DEF OpsOK

\* The records that the calls that begin an operation write.
FreshWaiting(o, h) == [Fresh(o, h) EXCEPT !.waits = 1]
FreshLeaked(o, h)  == [Fresh(o, h) EXCEPT !.mem = "leaked"]
Posted(o, h)       == [op[o] EXCEPT !.waits = 1, !.hnd = h]

\* The context of an operation whose first wait is accepted (async_rdwr.c:76-96).
LEMMA AcceptedRecord ==
  ASSUME OpsOK, AsyncOpsAssumption, NEW o \in Ops, NEW h \in FrameSet, IsGroupHandler(h),
         NEW x, x = FreshWaiting(o, h)
  PROVE  /\ RecOK(o, x) /\ x.hnd = h /\ x.mem = "live" /\ x.waits = 1
         /\ x.moved = 0 /\ x.left = Nbytes[o] /\ x.at = 0 /\ x.errc = op[o].errc
<1>1. op[o] \in OpRec /\ Nbytes[o] \in Nat
  BY DEF OpsOK, AsyncOpsAssumption
<1>2. /\ x \in OpRec /\ x.kind = op[o].kind
      /\ x.hnd = h /\ x.mem = "live" /\ x.waits = 1
      /\ x.moved = 0 /\ x.left = Nbytes[o] /\ x.at = 0 /\ x.errc = op[o].errc
  BY <1>1 DEF Fresh, FreshWaiting, FreshLeaked, OpRec
<1> QED BY <1>1, <1>2 DEF RecOK

\* The context that is left behind when it is refused (async_rdwr.c:93-96).
LEMMA LeakedRecord ==
  ASSUME OpsOK, AsyncOpsAssumption, NEW o \in Ops, NEW h \in FrameSet, IsGroupHandler(h),
         NEW x, x = FreshLeaked(o, h)
  PROVE  /\ RecOK(o, x) /\ x.hnd = h /\ x.mem = "leaked" /\ x.waits = op[o].waits
         /\ x.moved = 0 /\ x.left = Nbytes[o] /\ x.at = 0 /\ x.errc = op[o].errc
<1>1. op[o] \in OpRec /\ Nbytes[o] \in Nat
  BY DEF OpsOK, AsyncOpsAssumption
<1>2. /\ x \in OpRec /\ x.kind = op[o].kind
      /\ x.hnd = h /\ x.mem = "leaked" /\ x.waits = op[o].waits
      /\ x.moved = 0 /\ x.left = Nbytes[o] /\ x.at = 0 /\ x.errc = op[o].errc
  BY <1>1 DEF Fresh, FreshWaiting, FreshLeaked, OpRec
<1> QED BY <1>1, <1>2 DEF RecOK

\* A posted handler has no context.
LEMMA PostedRecord ==
  ASSUME OpsOK, NEW o \in Ops, NEW h \in FrameSet, IsGroupHandler(h), NEW x, x = Posted(o, h)
  PROVE  /\ RecOK(o, x) /\ x.mem = op[o].mem /\ x.waits = 1 /\ x.hnd = h
         /\ x.moved = op[o].moved /\ x.left = op[o].left /\ x.errc = op[o].errc
<1>1. op[o] \in OpRec /\ RecOK(o, op[o])
  BY DEF OpsOK
<1>2. /\ x \in OpRec /\ x.kind = op[o].kind
      /\ x.mem = op[o].mem /\ x.waits = 1 /\ x.hnd = h
      /\ x.moved = op[o].moved /\ x.left = op[o].left /\ x.at = op[o].at
      /\ x.errc = op[o].errc
  BY <1>1 DEF Posted, OpRec
<1> QED BY <1>1, <1>2 DEF RecOK

\* What a call that begins an operation does: a record for an accepted wait, a
\* record left behind, or nothing.
BeginsWith(o, h, x) ==
    /\ RecOK(o, x) /\ x.hnd = h /\ x.errc = op[o].errc
    /\ op' = [op EXCEPT ![o] = x]
    /\ \/ /\ x.waits = 1 /\ Svc!Accept(<<o, 1>>)
          /\ \/ /\ x.kind = "post" /\ h # NullHandler /\ x.mem = op[o].mem
                /\ x.moved = op[o].moved
             \/ /\ x.kind # "post" /\ x.mem = "live" /\ ~Busy(o)
                /\ x.moved = 0 /\ x.left = Nbytes[o]
       \/ /\ x.kind # "post" /\ x.mem = "leaked" /\ x.waits = op[o].waits
          /\ UNCHANGED svcVars

\* A call that begins an operation leaves one of these records, or nothing at all.
LEMMA OpBegins ==
  ASSUME OpsOK, AsyncOpsAssumption, NEW o \in Ops, NEW h \in FrameSet, IsGroupHandler(h),
         Begin(o, h)
  PROVE  \/ UNCHANGED <<op, svcVars>>
         \/ \E x : BeginsWith(o, h, x)
<1>1. ASSUME op[o].kind # "post", Accepted(o, 1),
             NEW x, x = FreshWaiting(o, h), op' = [op EXCEPT ![o] = x]
      PROVE  BeginsWith(o, h, x)
  <2>1. /\ RecOK(o, x) /\ x.mem = "live" /\ x.waits = 1 /\ x.hnd = h
        /\ x.moved = 0 /\ x.left = Nbytes[o] /\ x.errc = op[o].errc
    BY <1>1, AcceptedRecord
  <2>2. x.kind = op[o].kind
    BY <2>1 DEF RecOK
  <2> QED BY <1>1, <2>1, <2>2 DEF BeginsWith, Accepted
<1>2. ASSUME op[o].kind # "post", UNCHANGED svcVars,
             NEW x, x = FreshLeaked(o, h), op' = [op EXCEPT ![o] = x]
      PROVE  BeginsWith(o, h, x)
  <2>1. /\ RecOK(o, x) /\ x.mem = "leaked" /\ x.waits = op[o].waits /\ x.hnd = h
        /\ x.errc = op[o].errc
    BY <1>2, LeakedRecord
  <2>2. x.kind = op[o].kind
    BY <2>1 DEF RecOK
  <2> QED BY <1>2, <2>1, <2>2 DEF BeginsWith
<1>3. ASSUME op[o].kind = "post", h # NullHandler, Svc!Accept(<<o, 1>>),
             NEW x, x = Posted(o, h), op' = [op EXCEPT ![o] = x]
      PROVE  BeginsWith(o, h, x)
  <2>1. /\ RecOK(o, x) /\ x.mem = op[o].mem /\ x.waits = 1 /\ x.hnd = h
        /\ x.moved = op[o].moved /\ x.errc = op[o].errc
    BY <1>3, PostedRecord
  <2>2. x.kind = op[o].kind
    BY <2>1 DEF RecOK
  <2> QED BY <1>3, <2>1, <2>2 DEF BeginsWith
<1>4. CASE begin_async(o, h)
  BY <1>1, <1>2, <1>4, Zenon DEF begin_async, FreshWaiting, FreshLeaked
<1>5. CASE begin_fails(o)
  BY <1>5 DEF begin_fails
<1>6. CASE begin_post(o, h)
  <2>1. [op EXCEPT ![o].waits = 1, ![o].hnd = h] = [op EXCEPT ![o] = Posted(o, h)]
    BY DEF OpsOK, Posted
  <2> QED BY <1>3, <1>6, <2>1, Zenon DEF begin_post
<1> QED BY <1>4, <1>5, <1>6 DEF Begin

\* The call of an operation stores the status, unless it is a posted handler.
CalledWith(o, code, x) ==
    /\ RecOK(o, x) /\ x.mem = op[o].mem /\ x.hnd = op[o].hnd /\ x.waits = op[o].waits
    /\ x.moved = op[o].moved /\ x.left = op[o].left
    /\ x.errc = IF op[o].kind = "post" THEN op[o].errc ELSE code
    /\ op' = [op EXCEPT ![o] = x]

\* So does the service when it calls an operation.
LEMMA OpCalled ==
  ASSUME OpsOK, NEW o \in Ops, NEW code \in Codes, call_op(o, code)
  PROVE  \E x : CalledWith(o, code, x)
<1>1. op[o] \in OpRec /\ op[o].errc \in Codes
  BY DEF OpsOK, OpRec
<1> DEFINE c == IF op[o].kind = "post" THEN op[o].errc ELSE code
<1>2. c \in Codes
  BY <1>1
<1>3. op' = [op EXCEPT ![o].errc = c]
  BY DEF call_op
<1> HIDE DEF c
<1>4. op' = [op EXCEPT ![o] = With(o, c)]
  BY <1>3 DEF With, OpsOK
<1>5. CalledWith(o, code, With(o, c))
  BY <1>2, <1>4, RecordKept DEF CalledWith, c
<1> QED BY <1>5

\* The frame that calls an operation, and what it is for.
LEMMA EntryFrame ==
  ASSUME TypeInv, NEW o \in Ops
  PROVE  /\ FrameOK(Entry(o))
         /\ op[o].kind = "post" => Entry(o) = op[o].hnd
         /\ op[o].kind # "post" => Entry(o).fn \in Impls /\ Entry(o).on = o
<1>1. op[o] \in OpRec /\ IsGroupHandler(op[o].hnd)
  BY DEF TypeInv, OpsOK, RecOK
<1>2. op[o].kind \in OpKinds /\ op[o].hnd \in FrameSet
  BY <1>1 DEF OpRec
<1>3. CASE op[o].kind = "post"
  <2>1. Entry(o) = op[o].hnd
    BY <1>3 DEF Entry
  <2>2. op[o].hnd.fn \in {"NULL", "task_group_callback"}
        /\ (op[o].hnd.fn = "task_group_callback" => op[o].hnd.on \in Groups)
    <3>1. CASE op[o].hnd = NullHandler
      BY <3>1 DEF NullHandler, Frame, FrameAt
    <3>2. ASSUME NEW g \in Groups, op[o].hnd = Frame("task_group_callback", g)
          PROVE  op[o].hnd.fn = "task_group_callback" /\ op[o].hnd.on = g
      BY <3>2 DEF Frame, FrameAt
    <3> QED BY <1>1, <3>1, <3>2 DEF IsGroupHandler
  <2> QED BY <1>2, <1>3, <2>1, <2>2 DEF FrameOK, OpFns, Impls, GroupFns
<1>4. CASE op[o].kind # "post"
  <2>1. \E fn \in Impls : Entry(o) = Frame(fn, o) /\ Serves(fn, op[o].kind)
    BY <1>2, <1>4 DEF Entry, OpKinds, Impls, Serves
  <2>2. PICK fn \in Impls : Entry(o) = Frame(fn, o) /\ Serves(fn, op[o].kind)
    BY <2>1
  <2>3. Entry(o).fn = fn /\ Entry(o).on = o /\ Entry(o) \in FrameSet
    BY <2>2 DEF Frame, FrameAt, FrameSet, Fns, OpFns
  <2> QED BY <1>4, <2>2, <2>3 DEF FrameOK, GroupFns, Impls
<1> QED BY <1>3, <1>4

\* The record of an operation that waits again.
LEMMA AgainRecord ==
  ASSUME OpsOK, AsyncOpsAssumption, NEW o \in Ops, op[o].kind = "rw",
         NEW r \in 1..op[o].left, op[o].left - r # 0, NEW x, x = Again(o, r)
  PROVE  /\ RecOK(o, x) /\ x.mem = op[o].mem /\ x.hnd = op[o].hnd
         /\ x.waits = op[o].waits + 1 /\ x.errc = op[o].errc
         /\ x.moved + x.left = op[o].moved + op[o].left
<1> DEFINE y == Transferred(op[o], r)
<1>1. op[o] \in OpRec /\ op[o].left \in Nat /\ op[o].waits \in Nat
  BY DEF OpsOK, OpRec
<1>2. r \in Nat /\ r <= op[o].left
  BY <1>1
<1>3. /\ RecOK(o, y)
      /\ y.mem = op[o].mem /\ y.hnd = op[o].hnd
      /\ y.waits = op[o].waits /\ y.errc = op[o].errc
      /\ y.moved + y.left = op[o].moved + op[o].left
  BY <1>2, RecordMoves
<1>4. x = [y EXCEPT !.waits = @ + 1]
  BY DEF Again
<1> HIDE DEF y
<1>5. y \in OpRec /\ y.waits + 1 \in Nat
  BY <1>1, <1>3 DEF RecOK
<1>6. /\ x \in OpRec /\ x.kind = y.kind /\ x.mem = y.mem /\ x.hnd = y.hnd
      /\ x.waits = y.waits + 1 /\ x.errc = y.errc
      /\ x.moved = y.moved /\ x.left = y.left /\ x.at = y.at
  BY <1>4, <1>5 DEF OpRec
<1> QED BY <1>3, <1>6 DEF RecOK

\* free(ctx) keeps what was reported (async_rdwr.c:34, 69, async_net.c:35, 49).
LEMMA FreedRecord ==
  ASSUME OpsOK, NEW o \in Ops, op' = [op EXCEPT ![o].mem = "freed"]
  PROVE  \E x : /\ RecOK(o, x) /\ x.mem = "freed" /\ x.hnd = op[o].hnd
                /\ x.waits = op[o].waits /\ x.errc = op[o].errc
                /\ x.moved = op[o].moved /\ x.left = op[o].left
                /\ op' = [op EXCEPT ![o] = x]
<1> DEFINE x == [op[o] EXCEPT !.mem = "freed"]
<1>1. op[o] \in OpRec /\ RecOK(o, op[o])
  BY DEF OpsOK
<1>2. /\ x \in OpRec /\ x.kind = op[o].kind /\ x.mem = "freed" /\ x.hnd = op[o].hnd
      /\ x.waits = op[o].waits /\ x.errc = op[o].errc
      /\ x.moved = op[o].moved /\ x.left = op[o].left /\ x.at = op[o].at
  BY <1>1 DEF OpRec
<1>3. op' = [op EXCEPT ![o] = x]
  BY DEF OpsOK
<1> HIDE DEF x
<1>4. RecOK(o, x)
  BY <1>1, <1>2 DEF RecOK
<1> QED BY <1>2, <1>3, <1>4
-----------------------------------------------------------------------------
(* Every step keeps the types.                                             *)

USE AsyncOpsAssumption

\* The frames of the coroutine and of a group's end.
LEMMA CoFrames ==
  /\ FrameOK(CoHandler) /\ FrameOK(Frame("after", 0))
  /\ \A g \in Groups, k \in Nat : FrameOK(FrameAt("await", g, k))
  /\ \A g \in Groups : FrameOK(Frame("free_group", g))
  /\ CoHandler.fn = "coro" /\ Frame("after", 0).fn = "after"
  /\ \A g, k : FrameAt("await", g, k).fn = "await" /\ FrameAt("await", g, k).on = g
  /\ \A g : Frame("free_group", g).fn = "free_group" /\ Frame("free_group", g).on = g
BY DEF FrameOK, CoHandler, Frame, FrameAt, FrameSet, Fns, OpFns, Impls, GroupFns

\* A function of a group, and an await, work on a group.
LEMMA RunningGroup ==
  ASSUME TypeInv, stack # << >>, Head(stack).fn \in GroupFns
  PROVE  This \in Groups /\ Head(stack).step \in Nat
<1>1. Head(stack) = stack[1] /\ 1 \in 1..Len(stack) /\ FrameOK(stack[1])
  BY DEF TypeInv, StackOK
<1> QED BY <1>1 DEF FrameOK, This, FrameSet

\* What make_task_group returns is NULL or the handler of the group (task_group.c:22-28).
LEMMA GroupHandlerOK ==
  ASSUME NEW g \in Groups
  PROVE  IsGroupHandler(GroupHandler(g)) /\ GroupHandler(g) \in FrameSet
BY DEF IsGroupHandler, GroupHandler, NullHandler, Frame, FrameAt, FrameSet, Fns, GroupFns

\* The steps of the coroutine outside its awaits keep the types.
LEMMA CoroutineTypes ==
  ASSUME TypeInv, AsyncProgramAssumption, co_resumes \/ await_ends \/ co_returns
  PROVE  TypeInv'
<1>1. ServiceOK' /\ OpsOK' /\ GroupsOK' /\ SameKinds
  BY DEF TypeInv, co_resumes, await_ends, co_returns, ServiceOK, OpsOK, GroupsOK, svcVars,
         SameKinds, RecOK
<1>2. StackOK /\ CoOK
  BY DEF TypeInv
<1>3. CASE CoAwaits
  <2>1. stack # << >> /\ co.state \in 0..NumAwaits /\ co.state + 1 \in Groups
        /\ co.state + 1 \in 0..NumAwaits
    BY <1>2, <1>3 DEF CoAwaits, Running, CoOK, AsyncProgramAssumption
  <2>2. CoOK'
    <3> DEFINE b == co.nested \/ FramesOf({"await"}) # {}
    <3>1. b \in BOOLEAN
      OBVIOUS
    <3>2. co' = [co EXCEPT !.state = co.state + 1, !.nested = b]
      BY <1>3 DEF CoAwaits
    <3> HIDE DEF b
    <3> QED BY <1>2, <2>1, <3>1, <3>2 DEF CoOK
  <2>3. FrameOK(Frame("await", co.state + 1))
    BY <2>1, CoFrames DEF Frame
  <2>4. StackOK'
    BY <1>1, <1>2, <1>3, <2>1, <2>3, BecomesOK DEF CoAwaits
  <2> QED BY <1>1, <2>2, <2>4 DEF TypeInv
<1>4. CASE CoEnds \/ await_ends
  <2>1. stack # << >> /\ Becomes(<<Frame("after", 0)>>)
    BY <1>4 DEF CoEnds, await_ends, CoSuspends, Running
  <2>2. CoOK'
    BY <1>2, <1>4 DEF CoOK, CoEnds, await_ends, CoSuspends, StateAfterAwait
  <2>3. StackOK'
    BY <1>1, <1>2, <2>1, CoFrames, BecomesOK
  <2> QED BY <1>1, <2>2, <2>3 DEF TypeInv
<1>5. CASE co_returns
  <2>1. stack # << >> /\ Returns
    BY <1>5 DEF co_returns, CoAfter, Running
  <2>2. CoOK'
    BY <1>2, <1>5 DEF CoOK, co_returns, CoAfter
  <2>3. StackOK'
    BY <1>1, <1>2, <2>1, ReturnsOK
  <2> QED BY <1>1, <2>2, <2>3 DEF TypeInv
<1> QED BY <1>3, <1>4, <1>5 DEF co_resumes

\* The steps inside an await keep the types.
LEMMA AwaitTypes ==
  ASSUME TypeInv, AsyncProgramAssumption, await_begins \/ await_task
  PROVE  TypeInv'
<1>1. /\ stack # << >> /\ Head(stack).fn = "await" /\ StackOK /\ OpsOK /\ GroupsOK /\ CoOK
      /\ ServiceOK
  BY DEF await_begins, await_task, Running, TypeInv
<1>2. This \in Groups /\ Step \in Nat
  BY <1>1, RunningGroup DEF GroupFns, Step
<1>3. FrameOK(FrameAt("await", This, 1)) /\ FrameOK(FrameAt("await", This, Step + 1))
  BY <1>2, CoFrames
<1>4. CASE await_begins
  <2>1. OpsOK' /\ CoOK' /\ ServiceOK' /\ SameKinds
    BY <1>1, <1>4 DEF await_begins, OpsOK, RecOK, CoOK, ServiceOK, svcVars, SameKinds
  <2>2. Len(TasksNow) \in Nat /\ Len(TasksNow) <= SizeMax /\ CoHandler \in FrameSet
    BY <1>2, CoFrames DEF AsyncProgramAssumption, TasksNow, FrameOK
  <2>3. GroupsOK'
    <3> DEFINE x == [mem |-> "live", remaining |-> Len(TasksNow), hnd |-> CoHandler]
    <3>1. x \in GroupRec /\ x.remaining <= SizeMax /\ x.hnd = CoHandler
      BY <2>2 DEF GroupRec
    <3>2. group' = group \/ group' = [group EXCEPT ![This] = x]
      BY <1>4 DEF await_begins, make_task_group
    <3> HIDE DEF x
    <3>3. CASE group' = [group EXCEPT ![This] = x]
      <4>1. group' \in [Groups -> GroupRec] /\ group'[This] = x
            /\ \A g \in Groups \ {This} : group'[g] = group[g]
        BY <1>1, <1>2, <3>1, <3>3 DEF GroupsOK
      <4> QED BY <1>1, <3>1, <4>1 DEF GroupsOK
    <3>4. CASE group' = group
      BY <1>1, <3>4 DEF GroupsOK
    <3> QED BY <3>2, <3>3, <3>4
  <2>4. StackOK'
    BY <1>1, <1>3, <1>4, <2>1, BecomesOK DEF await_begins
  <2> QED BY <2>1, <2>3, <2>4 DEF TypeInv
<1>5. CASE await_task
  <2> DEFINE o == TasksNow[Step]
  <2>1. o \in Ops
    BY <1>2, <1>5 DEF await_task, TasksNow, AsyncProgramAssumption
  <2>2. GroupsOK' /\ CoOK'
    BY <1>1, <1>5 DEF await_task, GroupsOK, CoOK
  <2>3. Begin(o, GroupHandler(This)) /\ Becomes(<<FrameAt("await", This, Step + 1)>>)
    BY <1>5 DEF await_task
  <2> HIDE DEF o
  <2>4. OpsOK' /\ ServiceOK' /\ SameKinds
    <3>1. CASE UNCHANGED <<op, svcVars>>
      BY <1>1, <3>1 DEF OpsOK, RecOK, ServiceOK, SameKinds, svcVars
    <3>2. ASSUME NEW x, BeginsWith(o, GroupHandler(This), x)
          PROVE  OpsOK' /\ ServiceOK' /\ SameKinds
      <4>1. OpsOK' /\ SameKinds
        BY <1>1, <2>1, <3>2, OpChanges DEF BeginsWith
      <4>2. ServiceOK'
        BY <1>1, <2>1, <3>2 DEF BeginsWith, ServiceOK, Svc!Accept, svcVars, Waits
      <4> QED BY <4>1, <4>2
    <3> QED BY <1>1, <1>2, <2>1, <2>3, <3>1, <3>2, OpBegins, GroupHandlerOK
  <2>5. StackOK'
    BY <1>1, <1>3, <2>3, <2>4, BecomesOK
  <2> QED BY <2>2, <2>4, <2>5 DEF TypeInv
<1> QED BY <1>4, <1>5

\* The function that a stored handler calls.
LEMMA HandlerFrame ==
  ASSUME NEW h \in FrameSet, IsGroupHandler(h)
  PROVE  /\ FrameOK(h)
         /\ h = NullHandler => h.fn = "NULL"
         /\ h # NullHandler => /\ h.fn = "task_group_callback" /\ h.on \in Groups
                               /\ h = Frame("task_group_callback", h.on)
<1>1. CASE h = NullHandler
  BY <1>1 DEF NullHandler, Frame, FrameAt, FrameOK, OpFns, Impls, GroupFns
<1>2. ASSUME NEW g \in Groups, h = Frame("task_group_callback", g), h # NullHandler
      PROVE  /\ FrameOK(h) /\ h.fn = "task_group_callback" /\ h.on \in Groups
             /\ h = Frame("task_group_callback", h.on)
  BY <1>2 DEF Frame, FrameAt, FrameOK, OpFns, Impls, GroupFns
<1> QED BY <1>1, <1>2 DEF IsGroupHandler

\* The functions of the operations keep the types.
LEMMA OpTypes ==
  ASSUME TypeInv, op_runs
  PROVE  TypeInv'
<1> DEFINE o == This
<1>1. StackOK /\ OpsOK /\ ServiceOK /\ GroupsOK' /\ CoOK'
  BY DEF TypeInv, op_runs, GroupsOK, CoOK
<1>2. /\ stack # << >> /\ Head(stack).fn \in OpFns
      /\ \/ /\ Head(stack).fn \in Impls
            /\ \E x : Outcome(o, x) /\ Completes(o, x)
         \/ Head(stack).fn = "rw_impl" /\ WaitsAgain(o)
         \/ free_ctx
  BY OpRuns DEF op_runs
<1>3. o \in Ops /\ Serves(Head(stack).fn, op[o].kind) /\ op[o] \in OpRec
  BY <1>2, RunningOp
<1>4. free_ctx => op' = [op EXCEPT ![o].mem = "freed"] /\ Returns /\ UNCHANGED svcVars
  BY DEF free_ctx
<1> HIDE DEF o
<1>5. ASSUME NEW x, Outcome(o, x), Completes(o, x), Head(stack).fn \in Impls PROVE TypeInv'
  <2>1. RecOK(o, x) /\ x.hnd \in FrameSet /\ IsGroupHandler(x.hnd)
    BY <1>5 DEF Outcome, RecOK, OpRec
  <2>2. OpsOK' /\ SameKinds
    BY <1>1, <1>3, <1>5, <2>1, OpChanges DEF Completes
  <2>3. ServiceOK'
    BY <1>1, <1>5 DEF Completes, ServiceOK, svcVars
  <2>4. FrameOK(x.hnd)
    BY <2>1, HandlerFrame
  <2>5. FrameOK(Frame("free_ctx", o)) /\ Frame("free_ctx", o).fn \in Below
    BY <1>3, <1>5 DEF FrameOK, Frame, FrameAt, FrameSet, Fns, OpFns, Impls, GroupFns, Below,
                      Serves
  <2>6. StackOK'
    BY <1>1, <1>2, <1>5, <2>2, <2>4, <2>5, CallsOK DEF Completes
  <2> QED BY <1>1, <2>2, <2>3, <2>6 DEF TypeInv
<1>6. CASE Head(stack).fn = "rw_impl" /\ WaitsAgain(o)
  <2>1. op[o].kind = "rw"
    BY <1>3, <1>6 DEF Serves
  <2>2. PICK r \in 1..op[o].left : /\ op[o].left - r # 0
                                   /\ Accepted(o, op[o].waits + 1)
                                   /\ op' = [op EXCEPT ![o] = Again(o, r)]
                                   /\ Returns
    BY <1>6 DEF WaitsAgain
  <2>3. RecOK(o, Again(o, r))
    BY <1>1, <1>3, <2>1, <2>2, AgainRecord
  <2>4. OpsOK' /\ SameKinds
    BY <1>1, <1>3, <2>2, <2>3, OpChanges
  <2>5. op[o].waits + 1 \in Nat
    BY <1>3 DEF OpRec
  <2>6. ServiceOK'
    BY <1>1, <1>3, <2>2, <2>5 DEF Accepted, ServiceOK, Svc!Accept, Waits
  <2>7. StackOK'
    BY <1>1, <1>2, <2>2, <2>4, ReturnsOK
  <2> QED BY <1>1, <2>4, <2>6, <2>7 DEF TypeInv
<1>7. CASE free_ctx
  <2>1. PICK x : RecOK(o, x) /\ op' = [op EXCEPT ![o] = x]
    BY <1>1, <1>3, <1>4, <1>7, FreedRecord
  <2>2. OpsOK' /\ SameKinds
    BY <1>1, <1>3, <2>1, OpChanges
  <2>3. ServiceOK'
    BY <1>1, <1>4, <1>7 DEF ServiceOK, svcVars
  <2>4. StackOK'
    BY <1>1, <1>2, <1>4, <1>7, <2>2, ReturnsOK
  <2> QED BY <1>1, <2>2, <2>3, <2>4 DEF TypeInv
<1> QED BY <1>2, <1>5, <1>6, <1>7

\* What a group's callback and the release of a group change.
LEMMA GroupChanges ==
  ASSUME GroupsOK, AsyncProgramAssumption, NEW g \in Groups,
         \/ group' = [group EXCEPT ![g].remaining = Decremented(group[g].remaining)]
         \/ group' = [group EXCEPT ![g].mem = "freed"]
  PROVE  /\ GroupsOK'
         /\ \A h \in Groups \ {g} : group'[h] = group[h]
         /\ group'[g].hnd = group[g].hnd
         /\ group' = [group EXCEPT ![g].remaining = Decremented(group[g].remaining)] =>
               /\ group'[g].mem = group[g].mem
               /\ group'[g].remaining = Decremented(group[g].remaining)
         /\ group' = [group EXCEPT ![g].mem = "freed"] =>
               /\ group'[g].mem = "freed"
               /\ group'[g].remaining = group[g].remaining
<1> DEFINE d == Decremented(group[g].remaining)
<1>1. group \in [Groups -> GroupRec] /\ group[g] \in GroupRec
      /\ group[g].remaining \in Nat /\ group[g].remaining <= SizeMax /\ SizeMax \in Nat
  BY DEF GroupsOK, GroupRec, AsyncProgramAssumption
<1>2. d \in Nat /\ d <= SizeMax
  BY <1>1 DEF Decremented
<1> HIDE DEF d
<1>3. CASE group' = [group EXCEPT ![g].remaining = d]
  <2>1. /\ group'[g] \in GroupRec /\ group'[g].remaining = d
        /\ group'[g].mem = group[g].mem /\ group'[g].hnd = group[g].hnd
        /\ \A h \in Groups \ {g} : group'[h] = group[h]
        /\ group' \in [Groups -> GroupRec]
    BY <1>1, <1>2, <1>3 DEF GroupRec
  <2>2. GroupsOK'
    BY <1>2, <2>1 DEF GroupsOK
  <2>3. group' # [group EXCEPT ![g].mem = "freed"] \/ group[g].mem = "freed"
    BY <1>1, <2>1 DEF GroupRec
  <2>4. group' = [group EXCEPT ![g].mem = "freed"] => group'[g].remaining = group[g].remaining
    BY <1>1, <2>1 DEF GroupRec
  <2> QED BY <2>1, <2>2, <2>3, <2>4 DEF d
<1>4. CASE group' = [group EXCEPT ![g].mem = "freed"]
  <2>1. /\ group'[g] \in GroupRec /\ group'[g].remaining = group[g].remaining
        /\ group'[g].mem = "freed" /\ group'[g].hnd = group[g].hnd
        /\ \A h \in Groups \ {g} : group'[h] = group[h]
        /\ group' \in [Groups -> GroupRec]
    BY <1>1, <1>4 DEF GroupRec
  <2>2. GroupsOK'
    BY <1>1, <1>4, <2>1 DEF GroupsOK
  <2>3. group' = [group EXCEPT ![g].remaining = d] =>
          group'[g].mem = group[g].mem /\ group'[g].remaining = d
    BY <1>1, <1>2, <2>1 DEF GroupRec
  <2> QED BY <2>1, <2>2, <2>3 DEF d
<1> QED BY <1>3, <1>4 DEF d

\* The functions of a group keep the types: the counter stays within its size_t
\* (task_group.c:13).
LEMMA GroupTypes ==
  ASSUME TypeInv, AsyncProgramAssumption, group_runs
  PROVE  TypeInv'
<1> DEFINE g == This
<1>1. /\ ServiceOK' /\ OpsOK' /\ CoOK' /\ SameKinds /\ StackOK /\ GroupsOK
      /\ stack # << >> /\ Head(stack).fn \in GroupFns
  BY DEF TypeInv, group_runs, GroupSteps, task_group_callback, free_group, Running, GroupFns,
         ServiceOK, OpsOK, RecOK, CoOK, svcVars, SameKinds
<1>2. g \in Groups
  BY <1>1, RunningGroup
<1>3. /\ \/ group' = [group EXCEPT ![g].remaining = Decremented(group[g].remaining)]
         \/ group' = [group EXCEPT ![g].mem = "freed"]
      /\ Returns \/ CallsThen(group[g].hnd, Frame("free_group", g))
  BY DEF group_runs, GroupSteps, task_group_callback, free_group
<1> HIDE DEF g
<1>4. GroupsOK'
  BY <1>1, <1>2, <1>3, GroupChanges
<1>5. FrameOK(group[g].hnd) /\ FrameOK(Frame("free_group", g)) /\ Frame("free_group", g).fn \in Below
  <2>1. FrameOK(NullHandler)
    BY DEF NullHandler, Frame, FrameAt, FrameOK, FrameSet, Fns, OpFns, Impls, GroupFns
  <2> QED BY <1>1, <1>2, <2>1, CoFrames DEF GroupsOK, Below
<1>6. StackOK'
  BY <1>1, <1>3, <1>5, ReturnsOK, CallsOK
<1> QED BY <1>1, <1>4, <1>6 DEF TypeInv

\* The calls from the loop, and those from a cancellation in an await.
LEMMA CallTypes ==
  ASSUME TypeInv, AsyncProgramAssumption, NEW o \in Ops, NEW code \in Codes,
         call_op(o, code), stack = << >> \/ Running("await"), UNCHANGED <<group, co>>
  PROVE  TypeInv'
<1>1. ServiceOK /\ OpsOK /\ CoOK' /\ StackOK /\ GroupsOK'
  BY DEF TypeInv, CoOK, GroupsOK
<1>2. PICK x : RecOK(o, x) /\ op' = [op EXCEPT ![o] = x]
  BY <1>1, OpCalled DEF CalledWith
<1>3. OpsOK' /\ SameKinds
  BY <1>1, <1>2, OpChanges
<1>4. ServiceOK'
  BY <1>1 DEF call_op, Svc!Call, ServiceOK
<1>5. FrameOK(Entry(o))
  BY EntryFrame
<1>6. StackOK'
  BY <1>1, <1>3, <1>5, IsCalledOK DEF call_op
<1> QED BY <1>1, <1>3, <1>4, <1>6 DEF TypeInv

\* What the service calls with is a status.
LEMMA StatusCodes == Statuses \subseteq Codes /\ "EIO_CANCELLED" \in Codes
BY DEF Statuses, Codes

\* Running and stopping the service, and the first call of the coroutine, keep the types.
LEMMA OtherTypes ==
  ASSUME TypeInv, call_start \/ iosvc_run \/ iosvc_stop \/ run_returns
  PROVE  TypeInv'
<1>1. OpsOK' /\ GroupsOK' /\ CoOK' /\ SameKinds /\ StackOK
  BY DEF TypeInv, OpsOK, RecOK, GroupsOK, CoOK, SameKinds,
         call_start, iosvc_run, iosvc_stop, run_returns
<1>2. ServiceOK'
  BY DEF TypeInv, ServiceOK, call_start, iosvc_run, iosvc_stop, run_returns,
         Svc!Call, Svc!Run, Svc!Stop, Svc!Finish
<1>3. CASE call_start
  <2>1. stack' = <<CoHandler>> \o stack /\ stack = << >>
    BY <1>3 DEF call_start, InLoop
  <2>2. StackOK'
    BY <1>1, <2>1, CoFrames, IsCalledOK
  <2> QED BY <1>1, <1>2, <2>2 DEF TypeInv
<1>4. CASE iosvc_run \/ iosvc_stop \/ run_returns
  <2>1. StackOK'
    BY <1>1, <1>4 DEF StackOK, FrameOK, iosvc_run, iosvc_stop, run_returns
  <2> QED BY <1>1, <1>2, <2>1 DEF TypeInv
<1> QED BY <1>3, <1>4

\* The types hold at first.
LEMMA InitTypes ==
  ASSUME Init, AsyncProgramAssumption
  PROVE  TypeInv
<1>1. ServiceOK
  BY DEF Init, ServiceOK
<1>2. OpsOK
  <2>1. PICK k \in [Ops -> OpKinds] :
          /\ \A o \in Ops : k[o] \in Kinds[o]
          /\ op = [o \in Ops |-> [kind |-> k[o], mem |-> "none", hnd |-> NullHandler,
                                  left |-> 0, moved |-> 0, at |-> 0,
                                  errc |-> "NONE", waits |-> 0]]
    BY DEF Init, OpsInit
  <2>2. NullHandler \in FrameSet /\ IsGroupHandler(NullHandler) /\ "NONE" \in Codes
    BY DEF NullHandler, Frame, FrameAt, FrameSet, Fns, IsGroupHandler, Codes
  <2>3. ASSUME NEW o \in Ops PROVE op[o] \in OpRec /\ op[o].kind \in Kinds[o] /\ RecOK(o, op[o])
    <3>1. /\ op[o].kind = k[o] /\ op[o].left = 0 /\ op[o].moved = 0 /\ op[o].at = 0
          /\ op[o].hnd = NullHandler /\ op[o] \in OpRec /\ Nbytes[o] \in Nat
      BY <2>1, <2>2 DEF OpRec
    <3> QED BY <2>1, <2>2, <3>1 DEF RecOK
  <2>4. op = [o \in Ops |-> op[o]]
    BY <2>1
  <2> QED BY <2>3, <2>4 DEF OpsOK
<1>3. GroupsOK
  <2>1. NullHandler \in FrameSet
    BY DEF NullHandler, Frame, FrameAt, FrameSet, Fns
  <2> QED BY <2>1 DEF Init, GroupsInit, GroupsOK, GroupRec, AsyncProgramAssumption
<1>4. CoOK
  BY DEF Init, CoInit, CoOK, AsyncProgramAssumption
<1>5. StackOK
  BY DEF Init, StackOK
<1> QED BY <1>1, <1>2, <1>3, <1>4, <1>5 DEF TypeInv

\* Every step keeps the types: an operation's counters stay within its buffer, and
\* a function that runs works on an operation it serves.
LEMMA StepTypes ==
  ASSUME TypeInv, AsyncProgramAssumption, [Next]_vars
  PROVE  TypeInv'
<1>1. CASE HandlerSteps
  BY <1>1, CoroutineTypes, AwaitTypes, OpTypes, GroupTypes DEF HandlerSteps
<1>2. ASSUME NEW o \in Ops, loop_calls(o) \/ await_cancels(o) PROVE TypeInv'
  BY <1>2, CallTypes, StatusCodes DEF loop_calls, await_cancels, InLoop
<1>3. CASE call_start \/ iosvc_run \/ iosvc_stop \/ run_returns
  BY <1>3, OtherTypes
<1>4. CASE UNCHANGED vars
  BY <1>4 DEF vars, svcVars, TypeInv, ServiceOK, OpsOK, RecOK, GroupsOK, CoOK, StackOK, FrameOK
<1> QED BY <1>1, <1>2, <1>3, <1>4 DEF Next
-----------------------------------------------------------------------------
(* The frames of a set C of functions, and the objects they are about.     *)

\* No two frames of C are about the same object.
ApartIn(C) == \A j, k \in 1..Len(stack) :
                 /\ stack[j].fn \in C /\ stack[k].fn \in C
                 /\ stack[j].on = stack[k].on
                 => j = k

\* A frame of C below the running one is about x.
Rest(x, C) == \E k \in 2..Len(stack) : stack[k].fn \in C /\ stack[k].on = x

\* Frame f is about x and of C.
Is(f, x, C) == f.fn \in C /\ f.on = x

\* InProgress, by the places of the stack;
LEMMA InProgressIs ==
  ASSUME StackOK, NEW C, NEW x
  PROVE  x \in InProgress(C) <=> \E k \in 1..Len(stack) : Is(stack[k], x, C)
BY DEF StackOK, InProgress, FramesOf, Is

\* ... and after a step.
LEMMA InProgressNext ==
  ASSUME StackOK', NEW C, NEW x
  PROVE  x \in InProgress(C)' <=> \E k \in 1..Len(stack') : Is(stack'[k], x, C)
BY DEF StackOK, InProgress, FramesOf, Is

\* What is in progress is in the running frame or below it.
LEMMA HeadOrRest ==
  ASSUME StackOK, stack # << >>, NEW C
  PROVE  /\ Head(stack) = stack[1] /\ Len(stack) \in Nat \ {0}
         /\ \A x : x \in InProgress(C) <=> Is(Head(stack), x, C) \/ Rest(x, C)
         /\ ApartIn(C) /\ Head(stack).fn \in C => ~Rest(This, C)
<1>1. Head(stack) = stack[1] /\ Len(stack) \in Nat \ {0}
  BY DEF StackOK
<1>2. \A x : (\E k \in 1..Len(stack) : Is(stack[k], x, C)) <=> Is(stack[1], x, C) \/ Rest(x, C)
  BY <1>1 DEF Rest, Is
<1>3. ApartIn(C) /\ Head(stack).fn \in C => ~Rest(This, C)
  BY <1>1 DEF ApartIn, Rest, This
<1> QED BY <1>1, <1>2, <1>3, InProgressIs

\* What is in progress after the running function has returned,
LEMMA ReturnsView ==
  ASSUME StackOK, StackOK', stack # << >>, Returns, NEW C
  PROVE  /\ \A x : x \in InProgress(C)' <=> Rest(x, C)
         /\ ApartIn(C) => ApartIn(C)'
<1>1. /\ Len(stack) \in Nat \ {0}
      /\ Len(stack') = Len(stack) - 1
      /\ \A k \in 1..Len(stack') : stack'[k] = stack[k + 1]
  BY ReturnsTo
<1>2. ASSUME NEW x PROVE x \in InProgress(C)' <=> Rest(x, C)
  <2>1. x \in InProgress(C)' <=> \E k \in 1..Len(stack') : Is(stack'[k], x, C)
    BY InProgressNext
  <2>2. ASSUME NEW k \in 1..Len(stack'), Is(stack'[k], x, C) PROVE Rest(x, C)
    <3>1. k + 1 \in 2..Len(stack) /\ stack'[k] = stack[k + 1]
      BY <1>1
    <3> QED BY <2>2, <3>1 DEF Rest, Is
  <2>3. ASSUME NEW k \in 2..Len(stack), Is(stack[k], x, C)
        PROVE  \E j \in 1..Len(stack') : Is(stack'[j], x, C)
    <3>1. k - 1 \in 1..Len(stack') /\ stack'[k - 1] = stack[k]
      BY <1>1
    <3> QED BY <2>3, <3>1
  <2> QED BY <2>1, <2>2, <2>3 DEF Rest, Is
<1>3. ASSUME ApartIn(C) PROVE ApartIn(C)'
  <2>1. ASSUME NEW j \in 1..Len(stack'), NEW k \in 1..Len(stack'),
               stack'[j].fn \in C, stack'[k].fn \in C, stack'[j].on = stack'[k].on
        PROVE  j = k
    <3>1. /\ j + 1 \in 1..Len(stack) /\ stack'[j] = stack[j + 1]
          /\ k + 1 \in 1..Len(stack) /\ stack'[k] = stack[k + 1]
      BY <1>1
    <3>2. j + 1 = k + 1
      BY <1>3, <2>1, <3>1 DEF ApartIn
    <3> QED BY <1>1, <3>2
  <2> QED BY <2>1 DEF ApartIn
<1> QED BY <1>2, <1>3

\* ... after it has gone on to f,
LEMMA BecomesView ==
  ASSUME StackOK, StackOK', stack # << >>, NEW f \in FrameSet, Becomes(<<f>>), NEW C
  PROVE  /\ \A x : x \in InProgress(C)' <=> Is(f, x, C) \/ Rest(x, C)
         /\ ApartIn(C) /\ (f.fn \in C => ~Rest(f.on, C)) => ApartIn(C)'
<1>1. /\ Len(stack) \in Nat \ {0}
      /\ Len(stack') = Len(stack)
      /\ stack'[1] = f
      /\ \A k \in 2..Len(stack') : stack'[k] = stack[k]
  BY BecomesOne
<1>2. ASSUME NEW x PROVE x \in InProgress(C)' <=> Is(f, x, C) \/ Rest(x, C)
  <2>1. x \in InProgress(C)' <=> \E k \in 1..Len(stack') : Is(stack'[k], x, C)
    BY InProgressNext
  <2> QED BY <1>1, <2>1 DEF Rest, Is
<1>3. ASSUME ApartIn(C), f.fn \in C => ~Rest(f.on, C) PROVE ApartIn(C)'
  <2>1. ASSUME NEW j \in 1..Len(stack'), NEW k \in 1..Len(stack'),
               stack'[j].fn \in C, stack'[k].fn \in C, stack'[j].on = stack'[k].on
        PROVE  j = k
    <3>1. CASE j = 1 /\ k # 1
      BY <1>1, <1>3, <2>1, <3>1 DEF Rest
    <3>2. CASE j # 1 /\ k = 1
      BY <1>1, <1>3, <2>1, <3>2 DEF Rest
    <3>3. CASE j # 1 /\ k # 1
      BY <1>1, <1>3, <2>1, <3>3 DEF ApartIn
    <3> QED BY <3>1, <3>2, <3>3
  <2> QED BY <2>1 DEF ApartIn
<1> QED BY <1>2, <1>3

\* ... after it has called h, with f left to do,
LEMMA CallsView ==
  ASSUME StackOK, StackOK', stack # << >>, NEW h \in FrameSet, NEW f \in FrameSet,
         CallsThen(h, f), NEW C
  PROVE  /\ \A x : x \in InProgress(C)' <=> Is(h, x, C) \/ Is(f, x, C) \/ Rest(x, C)
         /\ ApartIn(C) /\ h.fn \notin C /\ (f.fn \in C => ~Rest(f.on, C)) => ApartIn(C)'
<1>1. /\ Len(stack) \in Nat \ {0}
      /\ Len(stack') = Len(stack) + 1
      /\ stack'[1] = h /\ stack'[2] = f
      /\ \A k \in 3..Len(stack') : stack'[k] = stack[k - 1]
  BY CallsOne
<1>2. ASSUME NEW x PROVE x \in InProgress(C)' <=> Is(h, x, C) \/ Is(f, x, C) \/ Rest(x, C)
  <2>1. x \in InProgress(C)' <=> \E k \in 1..Len(stack') : Is(stack'[k], x, C)
    BY InProgressNext
  <2>2. ASSUME NEW k \in 1..Len(stack'), Is(stack'[k], x, C)
        PROVE  Is(h, x, C) \/ Is(f, x, C) \/ Rest(x, C)
    <3>1. CASE k <= 2
      BY <1>1, <2>2, <3>1
    <3>2. CASE k > 2
      <4>1. k - 1 \in 2..Len(stack) /\ stack'[k] = stack[k - 1]
        BY <1>1, <3>2
      <4> QED BY <2>2, <4>1 DEF Rest, Is
    <3> QED BY <1>1, <3>1, <3>2
  <2>3. ASSUME NEW k \in 2..Len(stack), Is(stack[k], x, C)
        PROVE  \E j \in 1..Len(stack') : Is(stack'[j], x, C)
    <3>1. k + 1 \in 3..Len(stack') /\ k + 1 \in 1..Len(stack') /\ (k + 1) - 1 = k
      BY <1>1
    <3>2. stack'[k + 1] = stack[k]
      BY <1>1, <3>1
    <3> QED BY <2>3, <3>1, <3>2
  <2>4. 1 \in 1..Len(stack') /\ 2 \in 1..Len(stack')
    BY <1>1
  <2> QED BY <1>1, <2>1, <2>2, <2>3, <2>4 DEF Rest, Is
<1>3. ASSUME ApartIn(C), h.fn \notin C, f.fn \in C => ~Rest(f.on, C) PROVE ApartIn(C)'
  <2>0. \A k \in 3..Len(stack') : k - 1 \in 2..Len(stack) /\ stack'[k] = stack[k - 1]
    BY <1>1
  <2>1. ASSUME NEW j \in 1..Len(stack'), NEW k \in 1..Len(stack'),
               stack'[j].fn \in C, stack'[k].fn \in C, stack'[j].on = stack'[k].on
        PROVE  j = k
    <3>0. j # 1 /\ k # 1
      BY <1>1, <1>3, <2>1
    <3>1. CASE j = 2 /\ k # 2
      <4>1. k \in 3..Len(stack')
        BY <1>1, <3>0, <3>1
      <4> QED BY <1>1, <1>3, <2>0, <2>1, <3>1, <4>1 DEF Rest
    <3>2. CASE j # 2 /\ k = 2
      <4>1. j \in 3..Len(stack')
        BY <1>1, <3>0, <3>2
      <4> QED BY <1>1, <1>3, <2>0, <2>1, <3>2, <4>1 DEF Rest
    <3>3. CASE j # 2 /\ k # 2
      <4>1. j \in 3..Len(stack') /\ k \in 3..Len(stack')
        BY <1>1, <3>0, <3>3
      <4>2. j - 1 = k - 1
        BY <1>1, <1>3, <2>0, <2>1, <4>1 DEF ApartIn
      <4> QED BY <1>1, <4>2
    <3> QED BY <3>1, <3>2, <3>3
  <2> QED BY <2>1 DEF ApartIn
<1> QED BY <1>2, <1>3

\* ... and after f was called on top of it.
LEMMA CalledView ==
  ASSUME StackOK, StackOK', NEW f \in FrameSet, stack' = <<f>> \o stack, NEW C
  PROVE  /\ \A x : x \in InProgress(C)' <=> Is(f, x, C) \/ x \in InProgress(C)
         /\ ApartIn(C) /\ (f.fn \in C => f.on \notin InProgress(C)) => ApartIn(C)'
<1>1. /\ Len(stack) \in Nat
      /\ Len(stack') = Len(stack) + 1
      /\ stack'[1] = f
      /\ \A k \in 2..Len(stack') : stack'[k] = stack[k - 1]
  BY IsCalled
<1>2. \A k \in 2..Len(stack') : k - 1 \in 1..Len(stack) /\ stack'[k] = stack[k - 1]
  BY <1>1
<1>3. \A k \in 1..Len(stack) : k + 1 \in 1..Len(stack') /\ stack'[k + 1] = stack[k]
  <2> TAKE k \in 1..Len(stack)
  <2>1. k + 1 \in 2..Len(stack') /\ (k + 1) - 1 = k
    BY <1>1
  <2> QED BY <1>1, <2>1
<1>4. ASSUME NEW x PROVE x \in InProgress(C)' <=> Is(f, x, C) \/ x \in InProgress(C)
  <2>1. x \in InProgress(C)' <=> \E k \in 1..Len(stack') : Is(stack'[k], x, C)
    BY InProgressNext
  <2>2. x \in InProgress(C) <=> \E k \in 1..Len(stack) : Is(stack[k], x, C)
    BY InProgressIs
  <2>3. ASSUME NEW k \in 1..Len(stack'), Is(stack'[k], x, C)
        PROVE  Is(f, x, C) \/ \E j \in 1..Len(stack) : Is(stack[j], x, C)
    <3>1. CASE k = 1
      BY <1>1, <2>3, <3>1
    <3>2. CASE k # 1
      <4>1. k \in 2..Len(stack')
        BY <1>1, <3>2
      <4> QED BY <1>2, <2>3, <4>1
    <3> QED BY <3>1, <3>2
  <2>4. 1 \in 1..Len(stack')
    BY <1>1
  <2> QED BY <1>1, <1>3, <2>1, <2>2, <2>3, <2>4
<1>5. ASSUME ApartIn(C), f.fn \in C => f.on \notin InProgress(C) PROVE ApartIn(C)'
  <2>0. f.fn \in C => \A k \in 1..Len(stack) : ~Is(stack[k], f.on, C)
    BY <1>5, InProgressIs
  <2>1. ASSUME NEW j \in 1..Len(stack'), NEW k \in 1..Len(stack'),
               stack'[j].fn \in C, stack'[k].fn \in C, stack'[j].on = stack'[k].on
        PROVE  j = k
    <3>1. CASE j = 1 /\ k # 1
      BY <1>1, <1>2, <2>0, <2>1, <3>1 DEF Is
    <3>2. CASE j # 1 /\ k = 1
      BY <1>1, <1>2, <2>0, <2>1, <3>2 DEF Is
    <3>3. CASE j # 1 /\ k # 1
      <4>1. j \in 2..Len(stack') /\ k \in 2..Len(stack')
        BY <1>1, <3>3
      <4>2. j - 1 = k - 1
        BY <1>2, <1>5, <2>1, <4>1 DEF ApartIn
      <4> QED BY <1>1, <4>2
    <3> QED BY <3>1, <3>2, <3>3
  <2> QED BY <2>1 DEF ApartIn
<1> QED BY <1>4, <1>5

\* The frames on the stack, and those below the running one.
OnStack(e) == \E k \in 1..Len(stack) : stack[k] = e
Under(e)   == \E k \in 2..Len(stack) : stack[k] = e

\* Frames on the stack have their types, and those below the running one are of functions
\* that have something left to do.
LEMMA OnStackIs ==
  ASSUME StackOK
  PROVE  /\ \A e : OnStack(e) => e \in FrameSet /\ FrameOK(e)
         /\ \A e : Under(e) => OnStack(e) /\ e.fn \in Below
         /\ stack = << >> => \A e : ~OnStack(e)
         /\ stack # << >> => OnStack(Head(stack))
         /\ stack # << >> => \A e : OnStack(e) => e = Head(stack) \/ Under(e)
         /\ \A x, C : x \in InProgress(C) <=> \E e \in FrameSet : OnStack(e) /\ Is(e, x, C)
<1>1. Len(stack) \in Nat /\ \A k \in 1..Len(stack) : stack[k] \in FrameSet
  BY DEF StackOK
<1>2. ASSUME NEW x, NEW C
      PROVE  x \in InProgress(C) <=> \E e \in FrameSet : OnStack(e) /\ Is(e, x, C)
  BY <1>1, InProgressIs DEF OnStack
<1> QED BY <1>1, <1>2 DEF StackOK, OnStack, Under, FrameOK

\* What is on the stack after a step was there, below the running frame, or is new.
LEMMA FramesAfter ==
  ASSUME StackOK, NEW h \in FrameSet, NEW f \in FrameSet
  PROVE  /\ stack # << >> /\ Returns => \A e : OnStack(e)' => Under(e)
         /\ stack # << >> /\ Becomes(<<f>>) => \A e : OnStack(e)' => e = f \/ Under(e)
         /\ stack # << >> /\ CallsThen(h, f) =>
               \A e : OnStack(e)' => e = h \/ e = f \/ Under(e)
         /\ stack' = <<f>> \o stack => \A e : OnStack(e)' => e = f \/ OnStack(e)
<1>1. ASSUME stack # << >>, Returns, NEW k \in 1..Len(stack')
      PROVE  \E j \in 2..Len(stack) : stack'[k] = stack[j]
  <2>1. k + 1 \in 2..Len(stack) /\ stack'[k] = stack[k + 1]
    BY <1>1, ReturnsTo
  <2> QED BY <2>1
<1>2. ASSUME stack # << >>, Becomes(<<f>>), NEW k \in 1..Len(stack')
      PROVE  stack'[k] = f \/ \E j \in 2..Len(stack) : stack'[k] = stack[j]
  <2>1. /\ Len(stack) \in Nat \ {0} /\ Len(stack') = Len(stack) /\ stack'[1] = f
        /\ \A i \in 2..Len(stack') : stack'[i] = stack[i]
    BY <1>2, BecomesOne
  <2> QED BY <2>1
<1>3. ASSUME stack # << >>, CallsThen(h, f), NEW k \in 1..Len(stack')
      PROVE  stack'[k] = h \/ stack'[k] = f \/ \E j \in 2..Len(stack) : stack'[k] = stack[j]
  <2>1. /\ Len(stack) \in Nat \ {0} /\ Len(stack') = Len(stack) + 1
        /\ stack'[1] = h /\ stack'[2] = f
        /\ \A i \in 3..Len(stack') : stack'[i] = stack[i - 1]
    BY <1>3, CallsOne
  <2>2. CASE k > 2
    <3>1. k - 1 \in 2..Len(stack) /\ stack'[k] = stack[k - 1]
      BY <2>1, <2>2
    <3> QED BY <3>1
  <2>3. CASE ~(k > 2)
    <3>1. k = 1 \/ k = 2
      BY <2>1, <2>3
    <3> QED BY <2>1, <3>1
  <2> QED BY <2>2, <2>3
<1>4. ASSUME stack' = <<f>> \o stack, NEW k \in 1..Len(stack')
      PROVE  stack'[k] = f \/ \E j \in 1..Len(stack) : stack'[k] = stack[j]
  <2>1. /\ Len(stack) \in Nat /\ Len(stack') = Len(stack) + 1 /\ stack'[1] = f
        /\ \A i \in 2..Len(stack') : stack'[i] = stack[i - 1]
    BY <1>4, IsCalled
  <2>2. CASE k > 1
    <3>1. k - 1 \in 1..Len(stack) /\ stack'[k] = stack[k - 1]
      BY <2>1, <2>2
    <3> QED BY <3>1
  <2>3. CASE ~(k > 1)
    <3>1. k = 1
      BY <2>1, <2>3
    <3> QED BY <2>1, <3>1
  <2> QED BY <2>2, <2>3
<1> QED BY <1>1, <1>2, <1>3, <1>4, ZenonT(60) DEF OnStack, Under

\* The running frame returns, gives way to f, calls h and is f then, or calls f.
StackStep(h, f) ==
    \/ stack # << >> /\ (Returns \/ Becomes(<<f>>) \/ CallsThen(h, f))
    \/ stack' = <<f>> \o stack

\* The frames of C are kept by a step that adds none.
LEMMA NoneNew ==
  ASSUME StackOK, StackOK', NEW h \in FrameSet, NEW f \in FrameSet, StackStep(h, f),
         NEW C, h.fn \notin C, f.fn \notin C
  PROVE  /\ ApartIn(C) => ApartIn(C)'
         /\ \A x : x \in InProgress(C)' => x \in InProgress(C)
         /\ \A e \in FrameSet : OnStack(e)' /\ e.fn \in C => OnStack(e)
         /\ stack' = <<f>> \o stack \/ Head(stack).fn \notin C =>
               \A x : x \in InProgress(C)' <=> x \in InProgress(C)
<1>1. \A e \in FrameSet : OnStack(e)' /\ e.fn \in C => OnStack(e)
  BY OnStackIs, FramesAfter DEF StackStep
<1>2. ASSUME stack # << >>, Returns \/ Becomes(<<f>>) \/ CallsThen(h, f)
      PROVE  /\ ApartIn(C) => ApartIn(C)'
             /\ \A x : x \in InProgress(C)' <=> Rest(x, C)
             /\ \A x : x \in InProgress(C) <=> Is(Head(stack), x, C) \/ Rest(x, C)
  <2>1. \A x : ~Is(h, x, C) /\ ~Is(f, x, C)
    BY DEF Is
  <2>2. \A x : x \in InProgress(C) <=> Is(Head(stack), x, C) \/ Rest(x, C)
    BY <1>2, HeadOrRest
  <2>3. CASE Returns
    BY <1>2, <2>2, <2>3, ReturnsView
  <2>4. CASE Becomes(<<f>>)
    BY <1>2, <2>1, <2>2, <2>4, BecomesView
  <2>5. CASE CallsThen(h, f)
    BY <1>2, <2>1, <2>2, <2>5, CallsView
  <2> QED BY <1>2, <2>3, <2>4, <2>5
<1>3. ASSUME stack' = <<f>> \o stack
      PROVE  (ApartIn(C) => ApartIn(C)') /\ \A x : x \in InProgress(C)' <=> x \in InProgress(C)
  <2>1. \A x : ~Is(f, x, C)
    BY DEF Is
  <2> QED BY <1>3, <2>1, CalledView
<1>4. \A x : Head(stack).fn \notin C => ~Is(Head(stack), x, C)
  BY DEF Is
<1> QED BY <1>1, <1>2, <1>3, <1>4 DEF StackStep

-----------------------------------------------------------------------------
(* The order in which the operations are begun.                            *)

\* A call that begins operation o was made and left a trace.
Begun(o) == op[o].waits > 0 \/ op[o].mem # "none"

\* In an await, only the tasks before the present one were begun.
AwaitOK(f) == f.fn = "await" =>
                 \A j \in DOMAIN Tasks[f.on] : Begun(Tasks[f.on][j]) => j < f.step

\* Nothing was done yet in the await of group g.
Unreached(g) == /\ g \notin InProgress({"await"})
                /\ \A j \in DOMAIN Tasks[g] : ~Begun(Tasks[g][j])

\* Awaits are of different groups, what is worked on was begun, waits are numbered from 1,
\* and the groups after the coroutine's state were not reached.
OrderInv ==
    /\ ApartIn({"await"})
    /\ \A o \in InProgress(OpFns) : Begun(o)
    /\ \A o \in Ops, k \in Nat : <<o, k>> \in waiting => k > 0
    /\ \A f \in FrameSet : OnStack(f) => AwaitOK(f)
    /\ \A g \in Groups : co.state # DONE /\ g > co.state => Unreached(g)

\* A task is an operation.
LEMMA TaskIsOp ==
  ASSUME AsyncProgramAssumption, NEW g \in Groups, NEW j \in DOMAIN Tasks[g]
  PROVE  Tasks[g][j] \in Ops /\ g \in Nat /\ j \in Nat /\ j > 0 /\ Len(Tasks[g]) \in Nat
         /\ DOMAIN Tasks[g] = 1..Len(Tasks[g]) /\ j <= Len(Tasks[g])
BY DEF AsyncProgramAssumption

\* Different tasks are different operations.
LEMMA TasksApart ==
  ASSUME AsyncProgramAssumption
  PROVE  \A g, h \in Groups : \A j \in DOMAIN Tasks[g], k \in DOMAIN Tasks[h] :
            Tasks[g][j] = Tasks[h][k] => g = h /\ j = k
<1>1. Groups = DOMAIN Tasks
  BY DEF AsyncProgramAssumption
<1>2. \A a, b \in DOMAIN Tasks : \A c \in DOMAIN Tasks[a], d \in DOMAIN Tasks[b] :
         Tasks[a][c] = Tasks[b][d] => a = b /\ c = d
  BY DEF AsyncProgramAssumption
<1> QED BY <1>1, <1>2

\* In the await that runs, the tasks that were begun are before the present one.
LEMMA TasksBefore ==
  ASSUME StackOK, OrderInv, Running("await"), NEW j \in DOMAIN Tasks[This], Begun(Tasks[This][j])
  PROVE  j < Step
<1>1. AwaitOK(Head(stack)) /\ Head(stack).fn = "await"
  BY OnStackIs DEF OrderInv, Running
<1> QED BY <1>1 DEF AwaitOK, This, Step

\* A step that begins nothing and leaves the coroutine where it is, with new
\* frames that are not awaits.
LEMMA OrderKept ==
  ASSUME TypeInv, AsyncProgramAssumption, OrderInv,
         \A o \in Ops : Begun(o)' <=> Begun(o),
         \A o \in Ops, k \in Nat : <<o, k>> \in waiting' => <<o, k>> \in waiting \/ k > 0,
         ApartIn({"await"})',
         \A x : x \in InProgress({"await"})' => x \in InProgress({"await"}),
         \A o \in Ops : o \in InProgress(OpFns)' => o \in InProgress(OpFns) \/ Begun(o),
         \A x : x \in InProgress(OpFns)' => x \in Ops,
         \A f \in FrameSet : OnStack(f)' /\ f.fn = "await" => OnStack(f),
         co'.state = co.state \/ co'.state = DONE
  PROVE  OrderInv'
<1>1. ASSUME NEW f \in FrameSet, OnStack(f)' PROVE AwaitOK(f)'
  <2> SUFFICES ASSUME f.fn = "await", NEW j \in DOMAIN Tasks[f.on], Begun(Tasks[f.on][j])'
               PROVE  j < f.step
    BY DEF AwaitOK
  <2>1. OnStack(f) /\ f.on \in Groups
    BY <1>1, OnStackIs DEF TypeInv, FrameOK, GroupFns
  <2>2. Begun(Tasks[f.on][j])
    BY <2>1, TaskIsOp
  <2> QED BY <2>1, <2>2 DEF OrderInv, AwaitOK
<1>2. \A g \in Groups : (co.state # DONE /\ g > co.state => Unreached(g))'
  BY TaskIsOp DEF OrderInv, Unreached
<1>3. \A o \in InProgress(OpFns)' : Begun(o)'
  BY DEF OrderInv
<1>4. \A o \in Ops, k \in Nat : <<o, k>> \in waiting' => k > 0
  BY DEF OrderInv
<1> QED BY <1>1, <1>2, <1>3, <1>4 DEF OrderInv

\* The functions of operations work on operations.
LEMMA OpFramesAreOps ==
  ASSUME NEW x
  PROVE  /\ StackOK /\ x \in InProgress(OpFns) => x \in Ops
         /\ StackOK' /\ x \in InProgress(OpFns)' => x \in Ops
<1>1. StackOK /\ x \in InProgress(OpFns) => x \in Ops
  BY DEF StackOK, InProgress, FramesOf, FrameOK
<1>2. StackOK' /\ x \in InProgress(OpFns)' => x \in Ops
  BY DEF StackOK, InProgress, FramesOf, FrameOK
<1> QED BY <1>1, <1>2

\* The handlers of the operations begin nothing.
LEMMA OpRunsView ==
  ASSUME TypeInv, OrderInv, op_runs
  PROVE  /\ This \in Ops /\ stack # << >> /\ Head(stack).fn \in OpFns
         /\ \A o \in Ops : Begun(o)' <=> Begun(o)
         /\ \A o \in Ops, k \in Nat : <<o, k>> \in waiting' => <<o, k>> \in waiting \/ k > 0
         /\ UNCHANGED <<group, co>>
         /\ \E h \in FrameSet :
               /\ IsGroupHandler(h) /\ h = op[This].hnd
               /\ Returns \/ CallsThen(h, Frame("free_ctx", This))
<1> DEFINE o == This
<1>1. StackOK /\ OpsOK /\ UNCHANGED <<group, co>>
  BY DEF TypeInv, op_runs
<1>2. /\ stack # << >> /\ Head(stack).fn \in OpFns
      /\ \/ /\ Head(stack).fn \in Impls
            /\ \E x : Outcome(o, x) /\ Completes(o, x)
         \/ Head(stack).fn = "rw_impl" /\ WaitsAgain(o)
         \/ free_ctx
  BY OpRuns DEF op_runs
<1>3. o \in Ops /\ Serves(Head(stack).fn, op[o].kind) /\ op[o] \in OpRec /\ op[o].waits \in Nat
      /\ op[o].hnd \in FrameSet /\ IsGroupHandler(op[o].hnd)
  BY <1>1, <1>2, RunningOp DEF OpRec, OpsOK, RecOK
<1>4. Begun(o)
  <2>1. o \in InProgress(OpFns)
    BY <1>1, <1>2, HeadOrRest DEF Is, This
  <2> QED BY <2>1 DEF OrderInv
<1>5. free_ctx => op' = [op EXCEPT ![o].mem = "freed"] /\ Returns /\ UNCHANGED svcVars
  BY DEF free_ctx
<1> HIDE DEF o
<1>6. ASSUME NEW x, Outcome(o, x), Completes(o, x)
      PROVE  /\ \A p \in Ops : Begun(p)' <=> Begun(p)
             /\ waiting' = waiting /\ CallsThen(op[o].hnd, Frame("free_ctx", o))
  <2>1. RecOK(o, x) /\ x.mem = op[o].mem /\ x.waits = op[o].waits /\ x.hnd = op[o].hnd
    BY <1>6 DEF Outcome
  <2>2. op'[o] = x /\ \A p \in Ops \ {o} : op'[p] = op[p]
    BY <1>1, <1>3, <1>6, <2>1, OpChanges DEF Completes
  <2> QED BY <1>6, <2>1, <2>2 DEF Completes, Begun, svcVars
<1>7. CASE Head(stack).fn = "rw_impl" /\ WaitsAgain(o)
  <2>1. op[o].kind = "rw"
    BY <1>3, <1>7 DEF Serves
  <2>2. PICK r \in 1..op[o].left : /\ op[o].left - r # 0
                                   /\ Accepted(o, op[o].waits + 1)
                                   /\ op' = [op EXCEPT ![o] = Again(o, r)]
                                   /\ Returns
    BY <1>7 DEF WaitsAgain
  <2>3. RecOK(o, Again(o, r)) /\ Again(o, r).waits = op[o].waits + 1
    BY <1>1, <1>3, <2>1, <2>2, AgainRecord
  <2>4. op'[o] = Again(o, r) /\ \A p \in Ops \ {o} : op'[p] = op[p]
    BY <1>1, <1>3, <2>2, <2>3, OpChanges
  <2>5. \A p \in Ops : Begun(p)' <=> Begun(p)
    BY <1>3, <1>4, <2>3, <2>4 DEF Begun
  <2>6. waiting' = waiting \cup {<<o, op[o].waits + 1>>}
    BY <2>2 DEF Accepted, Svc!Accept
  <2> QED BY <1>1, <1>2, <1>3, <2>2, <2>5, <2>6 DEF o
<1>8. CASE free_ctx
  <2>1. PICK x : /\ RecOK(o, x) /\ x.mem = "freed" /\ x.waits = op[o].waits
                 /\ op' = [op EXCEPT ![o] = x]
    BY <1>1, <1>3, <1>5, <1>8, FreedRecord
  <2>2. op'[o] = x /\ \A p \in Ops \ {o} : op'[p] = op[p]
    BY <1>1, <1>3, <2>1, OpChanges
  <2>3. \A p \in Ops : Begun(p)' <=> Begun(p)
    BY <1>4, <2>1, <2>2 DEF Begun
  <2> QED BY <1>1, <1>2, <1>3, <1>5, <1>8, <2>3 DEF o, svcVars
<1> QED BY <1>1, <1>2, <1>3, <1>6, <1>7, <1>8 DEF o

\* The functions of the operations keep the order in which operations are begun.
LEMMA OpOrder ==
  ASSUME TypeInv, TypeInv', AsyncProgramAssumption, OrderInv, op_runs
  PROVE  OrderInv'
<1>1. /\ This \in Ops /\ stack # << >> /\ Head(stack).fn \in OpFns
      /\ \A o \in Ops : Begun(o)' <=> Begun(o)
      /\ \A o \in Ops, k \in Nat : <<o, k>> \in waiting' => <<o, k>> \in waiting \/ k > 0
      /\ UNCHANGED <<group, co>>
  BY OpRunsView
<1> DEFINE f == Frame("free_ctx", This)
<1>2. PICK h \in FrameSet : IsGroupHandler(h) /\ (Returns \/ CallsThen(h, f))
  BY OpRunsView
<1>3. /\ StackOK /\ StackOK' /\ f \in FrameSet /\ f.fn = "free_ctx" /\ f.on = This
      /\ h.fn \in {"NULL", "task_group_callback"}
  BY <1>1, <1>2, HandlerFrame DEF TypeInv, Frame, FrameAt, FrameSet, Fns, OpFns
<1> HIDE DEF f
<1>4. StackStep(h, f)
  BY <1>1, <1>2 DEF StackStep
<1>5. /\ ApartIn({"await"})'
      /\ \A x : x \in InProgress({"await"})' => x \in InProgress({"await"})
      /\ \A e \in FrameSet : OnStack(e)' /\ e.fn \in {"await"} => OnStack(e)
  <2>1. h.fn \notin {"await"} /\ f.fn \notin {"await"} /\ ApartIn({"await"})
    BY <1>3 DEF OrderInv
  <2> QED BY <1>2, <1>3, <1>4, <2>1, NoneNew
<1>6. \A x : x \in InProgress(OpFns)' => x \in InProgress(OpFns)
  <2>1. \A x : ~Is(h, x, OpFns)
    BY <1>3 DEF Is, OpFns, Impls
  <2>2. \A x : Is(f, x, OpFns) => Is(Head(stack), x, OpFns)
    BY <1>1, <1>3 DEF Is, This
  <2>3. \A x : x \in InProgress(OpFns) <=> Is(Head(stack), x, OpFns) \/ Rest(x, OpFns)
    BY <1>1, <1>3, HeadOrRest
  <2>4. CASE Returns
    BY <1>1, <1>3, <2>3, <2>4, ReturnsView
  <2>5. CASE CallsThen(h, f)
    BY <1>1, <1>3, <2>1, <2>2, <2>3, <2>5, CallsView
  <2> QED BY <1>2, <2>4, <2>5
<1>7. \A x : x \in InProgress(OpFns)' => x \in Ops
  BY <1>3, OpFramesAreOps
<1> QED BY <1>1, <1>5, <1>6, <1>7, OrderKept

\* A step of the group, or of the coroutine to the end of its block.
LEMMA FrameOrder ==
  ASSUME TypeInv, TypeInv', AsyncProgramAssumption, OrderInv, op' = op,
         waiting' \subseteq waiting,
         NEW h \in FrameSet, NEW f \in FrameSet, StackStep(h, f),
         h.fn \notin OpFns \cup {"await"}, f.fn \notin OpFns \cup {"await"},
         co'.state = co.state \/ co'.state = DONE
  PROVE  OrderInv'
<1>1. \A o \in Ops : Begun(o)' <=> Begun(o)
  BY DEF Begun
<1>2. StackOK /\ StackOK' /\ ApartIn({"await"}) /\ h.fn \notin {"await"} /\ f.fn \notin {"await"}
      /\ h.fn \notin OpFns /\ f.fn \notin OpFns
  BY DEF TypeInv, OrderInv
<1>3. /\ ApartIn({"await"})'
      /\ \A x : x \in InProgress({"await"})' => x \in InProgress({"await"})
      /\ \A e \in FrameSet : OnStack(e)' /\ e.fn \in {"await"} => OnStack(e)
  BY <1>2, NoneNew, ZenonT(60)
<1>4. \A x : x \in InProgress(OpFns)' => x \in InProgress(OpFns)
  BY <1>2, NoneNew
<1>5. \A x : x \in InProgress(OpFns)' => x \in Ops
  BY <1>2, OpFramesAreOps
<1> QED BY <1>1, <1>3, <1>4, <1>5, OrderKept

\* The steps of the groups, of the coroutine out of an await, and its first call.
LEMMA LeavesOrder ==
  ASSUME TypeInv, TypeInv', AsyncProgramAssumption, OrderInv,
         \/ group_runs \/ (co_resumes /\ CoEnds)
         \/ await_ends \/ co_returns \/ call_start
  PROVE  OrderInv'
<1> DEFINE N == {"coro", "NULL", "after", "free_group"}
<1>1. \E h \in FrameSet, f \in FrameSet : StackStep(h, f) /\ h.fn \in N /\ f.fn \in N
  <2>1. /\ CoHandler \in FrameSet /\ CoHandler.fn \in N
        /\ Frame("after", 0) \in FrameSet /\ Frame("after", 0).fn \in N
        /\ NullHandler \in FrameSet /\ NullHandler.fn \in N
    BY DEF CoHandler, NullHandler, Frame, FrameAt, FrameSet, Fns
  <2>2. CASE group_runs
    <3>1. stack # << >> /\ Head(stack).fn \in GroupFns
      BY <2>2 DEF group_runs, GroupSteps, task_group_callback, free_group, Running, GroupFns
    <3>2. This \in Groups
      BY <3>1, RunningGroup
    <3>3. Returns \/ CallsThen(group[This].hnd, Frame("free_group", This))
      BY <2>2 DEF group_runs, GroupSteps, task_group_callback, free_group
    <3>4. group[This].hnd \in FrameSet /\ group[This].hnd.fn \in N
      BY <2>1, <3>2 DEF TypeInv, GroupsOK
    <3>5. Frame("free_group", This) \in FrameSet /\ Frame("free_group", This).fn \in N
      BY <3>2, CoFrames DEF FrameOK
    <3> QED BY <3>1, <3>3, <3>4, <3>5 DEF StackStep
  <2>3. CASE CoEnds \/ await_ends
    <3>1. stack # << >> /\ Becomes(<<Frame("after", 0)>>)
      BY <2>3 DEF CoEnds, await_ends, CoSuspends, Running
    <3> QED BY <2>1, <3>1 DEF StackStep
  <2>4. CASE co_returns
    <3>1. stack # << >> /\ Returns
      BY <2>4 DEF co_returns, CoAfter, Running
    <3> QED BY <2>1, <3>1 DEF StackStep
  <2>5. CASE call_start
    <3>1. stack' = <<CoHandler>> \o stack
      BY <2>5 DEF call_start, InLoop
    <3> QED BY <2>1, <3>1 DEF StackStep
  <2> QED BY <2>2, <2>3, <2>4, <2>5
<1>2. PICK h \in FrameSet, f \in FrameSet : StackStep(h, f) /\ h.fn \in N /\ f.fn \in N
  BY <1>1
<1>3. h.fn \notin OpFns \cup {"await"} /\ f.fn \notin OpFns \cup {"await"}
  BY <1>2 DEF OpFns, Impls
<1>4. op' = op /\ waiting' \subseteq waiting
  BY DEF group_runs, co_resumes, await_ends, co_returns, call_start, svcVars, Svc!Call
<1>5. co'.state = co.state \/ co'.state = DONE
  BY DEF TypeInv, CoOK, group_runs, CoEnds, await_ends, CoSuspends, StateAfterAwait,
         co_returns, CoAfter, call_start
<1> QED BY <1>2, <1>3, <1>4, <1>5, FrameOrder

\* The coroutine runs to its next await.
LEMMA AwaitsOrder ==
  ASSUME TypeInv, TypeInv', AsyncProgramAssumption, OrderInv,
         co_resumes, CoAwaits
  PROVE  OrderInv'
<1> DEFINE g == co.state + 1
           f == Frame("await", g)
<1>1. /\ stack # << >> /\ co.state # DONE /\ co.state \in 0..NumAwaits /\ g \in Groups
      /\ Becomes(<<f>>) /\ Head(stack).fn = "coro" /\ co'.state = g
  BY DEF CoAwaits, Running, TypeInv, CoOK, AsyncProgramAssumption
<1>2. /\ StackOK /\ StackOK' /\ f \in FrameSet /\ f.fn = "await" /\ f.on = g /\ f.step = 0
      /\ op' = op /\ waiting' = waiting
  BY <1>1 DEF co_resumes, TypeInv, Frame, FrameAt, FrameSet, Fns, GroupFns, svcVars
<1>3. g > co.state /\ g \in Nat /\ co.state \in Nat
  BY <1>1 DEF AsyncProgramAssumption
<1>4. g # DONE
  BY <1>3 DEF DONE
<1> HIDE DEF f, g
<1>5. Unreached(g)
  BY <1>1, <1>3 DEF OrderInv
<1>6. \A o \in Ops : Begun(o)' <=> Begun(o)
  BY <1>2 DEF Begun
<1>7. /\ ApartIn({"await"})'
      /\ \A x : x \in InProgress({"await"})' <=> x = g \/ x \in InProgress({"await"})
  <2>1. \A x : Is(f, x, {"await"}) <=> x = g
    BY <1>2 DEF Is
  <2>2. \A x : x \in InProgress({"await"}) <=> Rest(x, {"await"})
    BY <1>1, <1>2, HeadOrRest DEF Is
  <2>3. ~Rest(f.on, {"await"})
    BY <1>2, <1>5, <2>2 DEF Unreached
  <2> QED BY <1>1, <1>2, <2>1, <2>2, <2>3, BecomesView DEF OrderInv
<1>8. \A x : x \in InProgress(OpFns)' => x \in InProgress(OpFns)
  <2>1. f.fn \notin OpFns /\ StackStep(f, f)
    BY <1>1, <1>2 DEF OpFns, Impls, StackStep
  <2> QED BY <1>2, <2>1, NoneNew
<1>9. \A o \in InProgress(OpFns)' : Begun(o)'
  BY <1>2, <1>6, <1>8, OpFramesAreOps DEF OrderInv
<1>10. ASSUME NEW e \in FrameSet, OnStack(e)' PROVE AwaitOK(e)'
  <2>1. AwaitOK(e)
    <3>1. CASE e = f
      BY <1>2, <1>5, <3>1 DEF AwaitOK, Unreached
    <3>2. CASE e # f
      <4>1. OnStack(e)
        BY <1>1, <1>2, <1>10, <3>2, FramesAfter, OnStackIs
      <4> QED BY <4>1 DEF OrderInv
    <3> QED BY <3>1, <3>2
  <2> QED BY <1>2, <2>1 DEF AwaitOK, Begun
<1>11. ASSUME NEW k \in Groups, k > co'.state PROVE Unreached(k)'
  <2>1. k > co.state /\ k # g
    BY <1>1, <1>3, <1>11 DEF AsyncProgramAssumption, g
  <2>2. Unreached(k)
    BY <1>1, <2>1 DEF OrderInv
  <2> QED BY <1>2, <1>7, <2>1, <2>2 DEF Unreached, Begun
<1>12. \A o \in Ops, k \in Nat : <<o, k>> \in waiting' => k > 0
  BY <1>2 DEF OrderInv
<1> QED BY <1>7, <1>9, <1>10, <1>11, <1>12 DEF OrderInv

\* An await goes on to its next call: the frames stay those they were.
LEMMA AwaitFrames ==
  ASSUME TypeInv, TypeInv', Running("await"), NEW s \in Nat,
         Becomes(<<FrameAt("await", This, s)>>), NEW C
  PROVE  /\ This \in Groups /\ Step \in Nat /\ stack # << >>
         /\ FrameAt("await", This, s) \in FrameSet
         /\ ApartIn(C) => ApartIn(C)'
         /\ \A x : x \in InProgress(C)' <=> x \in InProgress(C)
         /\ \A e \in FrameSet : OnStack(e)' => e = FrameAt("await", This, s) \/ Under(e)
<1> DEFINE f == FrameAt("await", This, s)
<1>1. stack # << >> /\ Head(stack).fn = "await" /\ StackOK /\ StackOK'
  BY DEF Running, TypeInv
<1>2. This \in Groups /\ Step \in Nat
  BY <1>1, RunningGroup DEF GroupFns, Step
<1>3. f \in FrameSet /\ f.fn = "await" /\ f.on = This
  BY <1>2 DEF FrameAt, FrameSet, Fns, GroupFns
<1> HIDE DEF f
<1>4. \A x : Is(f, x, C) <=> Is(Head(stack), x, C)
  BY <1>1, <1>3 DEF Is, This
<1>5. \A x : x \in InProgress(C) <=> Is(Head(stack), x, C) \/ Rest(x, C)
  BY <1>1, HeadOrRest
<1>6. ApartIn(C) => (f.fn \in C => ~Rest(f.on, C))
  BY <1>1, <1>3, HeadOrRest
<1>7. /\ \A x : x \in InProgress(C)' <=> Is(f, x, C) \/ Rest(x, C)
      /\ ApartIn(C) /\ (f.fn \in C => ~Rest(f.on, C)) => ApartIn(C)'
  BY <1>1, <1>3, BecomesView DEF f
<1>8. \A e \in FrameSet : OnStack(e)' => e = f \/ Under(e)
  BY <1>1, <1>3, FramesAfter DEF f
<1> QED BY <1>1, <1>2, <1>3, <1>4, <1>5, <1>6, <1>7, <1>8 DEF f

\* Making the group keeps the order.
LEMMA AwaitBeginsOrder ==
  ASSUME TypeInv, TypeInv', AsyncProgramAssumption, OrderInv, await_begins
  PROVE  OrderInv'
<1> DEFINE f == FrameAt("await", This, 1)
<1>1. /\ Running("await") /\ Becomes(<<f>>) /\ Step = 0
      /\ op' = op /\ waiting' = waiting /\ co' = co /\ StackOK /\ StackOK'
  BY DEF await_begins, svcVars, TypeInv
<1>2. \A C : /\ ApartIn(C) => ApartIn(C)'
             /\ \A x : x \in InProgress(C)' <=> x \in InProgress(C)
  BY <1>1, AwaitFrames
<1>3. /\ stack # << >> /\ This \in Groups
      /\ \A e \in FrameSet : OnStack(e)' => e = f \/ Under(e)
  BY <1>1, AwaitFrames
<1>4. f.fn = "await" /\ f.on = This /\ f.step = 1
  BY DEF FrameAt
<1> HIDE DEF f
<1>5. \A o : Begun(o)' <=> Begun(o)
  BY <1>1 DEF Begun
<1>6. AwaitOK(f)
  <2>2. \A j \in DOMAIN Tasks[This] : ~Begun(Tasks[This][j])
    BY <1>1, <1>3, TaskIsOp, TasksBefore
  <2> QED BY <1>4, <2>2 DEF AwaitOK
<1>7. ASSUME NEW e \in FrameSet, OnStack(e)' PROVE AwaitOK(e)'
  <2>1. AwaitOK(e)
    BY <1>1, <1>3, <1>6, <1>7, OnStackIs DEF OrderInv
  <2> QED BY <1>1, <2>1 DEF AwaitOK, Begun
<1>8. \A g \in Groups : (co.state # DONE /\ g > co.state => Unreached(g))'
  BY <1>1, <1>2, <1>5 DEF OrderInv, Unreached
<1> QED BY <1>1, <1>2, <1>5, <1>7, <1>8 DEF OrderInv

\* The operation that an await begins was not begun before.
LEMMA TaskNow ==
  ASSUME TypeInv, AsyncProgramAssumption, OrderInv, await_task
  PROVE  /\ This \in Groups /\ Step \in DOMAIN Tasks[This]
         /\ Tasks[This][Step] \in Ops /\ ~Begun(Tasks[This][Step])
         /\ Begin(Tasks[This][Step], GroupHandler(This))
         /\ co.state # DONE => This <= co.state
         /\ co.state # DONE => co.state \in Nat
<1>1. /\ stack # << >> /\ Head(stack).fn = "await" /\ Step \in 1..Len(TasksNow)
      /\ Begin(TasksNow[Step], GroupHandler(This)) /\ StackOK
  BY DEF await_task, Running, TypeInv
<1>2. This \in Groups /\ Step \in Nat
  BY <1>1, RunningGroup DEF GroupFns, Step
<1>3. Step \in DOMAIN Tasks[This]
  BY <1>1, <1>2 DEF TasksNow, AsyncProgramAssumption
<1>4. Running("await")
  BY <1>1 DEF Running
<1>5. ~Begun(Tasks[This][Step])
  <2>1. Begun(Tasks[This][Step]) => Step < Step
    BY <1>1, <1>3, <1>4, TasksBefore
  <2> QED BY <1>2, <2>1
<1>6. This \in InProgress({"await"})
  BY <1>1, HeadOrRest DEF Is, This
<1>7. ASSUME co.state # DONE PROVE This <= co.state /\ co.state \in Nat
  <2>1. ~(This > co.state)
    BY <1>2, <1>6, <1>7 DEF OrderInv, Unreached
  <2>2. co.state \in 0..NumAwaits /\ NumAwaits \in Nat /\ This \in Nat
    BY <1>2, <1>7 DEF TypeInv, CoOK, AsyncProgramAssumption
  <2> QED BY <2>1, <2>2
<1> QED BY <1>1, <1>2, <1>3, <1>5, <1>7, TaskIsOp DEF TasksNow

\* Beginning the next task keeps the order: it is the first call for that operation.
LEMMA AwaitTaskOrder ==
  ASSUME TypeInv, TypeInv', AsyncProgramAssumption, OrderInv, await_task
  PROVE  OrderInv'
<1> DEFINE g == This
           s == Step
           o == Tasks[g][s]
           f == FrameAt("await", g, s + 1)
<1>1. /\ g \in Groups /\ s \in DOMAIN Tasks[g] /\ o \in Ops /\ ~Begun(o)
      /\ Begin(o, GroupHandler(g)) /\ (co.state # DONE => g <= co.state)
      /\ (co.state # DONE => co.state \in Nat)
  BY TaskNow
<1>2. /\ Running("await") /\ Becomes(<<f>>) /\ co' = co /\ StackOK /\ StackOK' /\ OpsOK
  BY DEF await_task, TypeInv
<1>3. s \in Nat /\ s > 0 /\ s + 1 \in Nat /\ g \in Nat
  BY <1>1, TaskIsOp
<1>4. \A C : /\ ApartIn(C) => ApartIn(C)'
             /\ \A x : x \in InProgress(C)' <=> x \in InProgress(C)
  BY <1>2, <1>3, AwaitFrames
<1>5. /\ stack # << >> /\ \A e \in FrameSet : OnStack(e)' => e = f \/ Under(e)
  BY <1>2, <1>3, AwaitFrames
<1>6. f.fn = "await" /\ f.on = g /\ f.step = s + 1
  BY DEF FrameAt
<1>7. Head(stack).fn = "await" /\ Head(stack).on = g /\ Head(stack).step = s
      /\ AwaitOK(Head(stack))
  BY <1>2, <1>5, OnStackIs DEF OrderInv, Running, This, Step
<1>8. ~Rest(g, {"await"})
  BY <1>2, <1>5, <1>7, HeadOrRest DEF OrderInv
<1> HIDE DEF f, g, s, o
<1>9. /\ \A p \in Ops \ {o} : Begun(p)' <=> Begun(p)
      /\ \A p \in Ops, k \in Nat : <<p, k>> \in waiting' => <<p, k>> \in waiting \/ k > 0
  <2>1. CASE UNCHANGED <<op, svcVars>>
    BY <2>1 DEF Begun, svcVars
  <2>2. ASSUME NEW x, BeginsWith(o, GroupHandler(g), x)
        PROVE  /\ \A p \in Ops \ {o} : Begun(p)' <=> Begun(p)
               /\ \A p \in Ops, k \in Nat : <<p, k>> \in waiting' => <<p, k>> \in waiting \/ k > 0
    <3>1. \A p \in Ops \ {o} : op'[p] = op[p]
      BY <1>1, <1>2, <2>2, OpChanges DEF BeginsWith
    <3>2. waiting' = waiting \/ waiting' = waiting \cup {<<o, 1>>}
      BY <2>2 DEF BeginsWith, Svc!Accept, svcVars
    <3> QED BY <3>1, <3>2 DEF Begun
  <2> QED BY <1>1, <1>2, <2>1, <2>2, OpBegins, GroupHandlerOK, SMTT(30)
<1>10. \A x \in InProgress(OpFns)' : Begun(x)'
  <2>1. \A x \in InProgress(OpFns) : x \in Ops /\ Begun(x)
    BY <1>2, OpFramesAreOps DEF OrderInv
  <2> QED BY <1>1, <1>4, <1>9, <2>1
<1>11. \A p \in Ops, k \in Nat : <<p, k>> \in waiting' => k > 0
  BY <1>9 DEF OrderInv
\* The tasks of the other awaits, and the earlier ones of this one.
<1>12. ASSUME NEW h \in Groups, NEW j \in DOMAIN Tasks[h]
       PROVE  /\ Tasks[h][j] \in Ops /\ h \in Nat /\ j \in Nat
              /\ Tasks[h][j] = o => h = g /\ j = s
  <2>1. Tasks[h][j] \in Ops /\ h \in Nat /\ j \in Nat
    BY TaskIsOp
  <2>2. ASSUME Tasks[h][j] = Tasks[g][s] PROVE h = g /\ j = s
    <3>1. g \in Groups /\ s \in DOMAIN Tasks[g]
      BY <1>1
    <3>2. \A a, b \in Groups : \A c \in DOMAIN Tasks[a], d \in DOMAIN Tasks[b] :
             Tasks[a][c] = Tasks[b][d] => a = b /\ c = d
      BY TasksApart
    <3> QED BY <2>2, <3>1, <3>2
  <2> QED BY <2>1, <2>2 DEF o
<1>13. ASSUME NEW e \in FrameSet, OnStack(e)' PROVE AwaitOK(e)'
  <2> SUFFICES ASSUME e.fn = "await", NEW j \in DOMAIN Tasks[e.on], Begun(Tasks[e.on][j])'
               PROVE  j < e.step
    BY DEF AwaitOK
  <2>1. CASE e = f
    <3>1. j \in Nat /\ (Tasks[g][j] = o => j = s)
      BY <1>1, <1>6, <1>12, <2>1
    <3>2. CASE Tasks[g][j] = o
      BY <1>3, <1>6, <2>1, <3>1, <3>2
    <3>3. CASE Tasks[g][j] # o
      <4>1. Begun(Tasks[g][j])
        BY <1>1, <1>6, <1>9, <1>12, <2>1, <3>3
      <4>2. j < s
        BY <1>1, <1>6, <1>7, <2>1, <4>1 DEF AwaitOK
      <4> QED BY <1>3, <1>6, <2>1, <3>1, <4>2
    <3> QED BY <3>2, <3>3
  <2>2. CASE e # f
    <3>1. Under(e)
      BY <1>5, <1>13, <2>2
    <3>2. OnStack(e) /\ AwaitOK(e) /\ e.on \in Groups
      BY <1>2, <3>1, OnStackIs DEF OrderInv, FrameOK, GroupFns
    <3>3. e.on # g
      BY <1>8, <3>1 DEF Under, Rest
    <3>4. Begun(Tasks[e.on][j])
      BY <1>9, <1>12, <3>2, <3>3
    <3> QED BY <3>2, <3>4 DEF AwaitOK
  <2> QED BY <2>1, <2>2
<1>14. ASSUME NEW h \in Groups, co.state # DONE, h > co.state PROVE Unreached(h)'
  <2>1. Unreached(h) /\ h # g
    BY <1>1, <1>3, <1>14 DEF OrderInv, AsyncProgramAssumption
  <2> QED BY <1>4, <1>9, <1>12, <2>1 DEF Unreached
<1> QED BY <1>2, <1>4, <1>10, <1>11, <1>13, <1>14 DEF OrderInv

\* A call of an operation by the loop, or by a cancellation in an await.
LEMMA CallOrder ==
  ASSUME TypeInv, TypeInv', AsyncProgramAssumption, OrderInv,
         NEW o \in Ops, NEW code \in Codes, call_op(o, code), UNCHANGED <<group, co>>
  PROVE  OrderInv'
<1> DEFINE f == Entry(o)
<1>1. StackOK /\ StackOK' /\ OpsOK /\ stack' = <<f>> \o stack /\ Wait(o) \in waiting
      /\ waiting' \subseteq waiting
  BY DEF TypeInv, call_op, Svc!Call
<1>2. FrameOK(f) /\ f \in FrameSet /\ f.fn # "await" /\ (f.fn \in OpFns => f.on = o)
  <2>1. /\ FrameOK(f) /\ (op[o].kind = "post" => f = op[o].hnd)
        /\ (op[o].kind # "post" => f.fn \in Impls /\ f.on = o)
    BY EntryFrame
  <2>2. f \in FrameSet
    BY <2>1 DEF FrameOK
  <2>3. IsGroupHandler(op[o].hnd)
    BY <1>1 DEF OpsOK, RecOK
  <2>4. op[o].kind = "post" => f.fn \in {"NULL", "task_group_callback"}
    BY <2>1, <2>2, <2>3, HandlerFrame
  <2> QED BY <2>1, <2>2, <2>4 DEF Impls, OpFns
<1> HIDE DEF f
<1>3. PICK x : CalledWith(o, code, x)
  BY <1>1, OpCalled
<1>4. op'[o] = x /\ \A p \in Ops \ {o} : op'[p] = op[p]
  BY <1>1, <1>3, OpChanges DEF CalledWith
<1>5. \A p \in Ops : Begun(p)' <=> Begun(p)
  BY <1>3, <1>4 DEF CalledWith, Begun
<1>6. Begun(o)
  <2>1. op[o].waits \in Nat
    BY <1>1 DEF OpsOK, OpRec
  <2> QED BY <1>1, <2>1 DEF OrderInv, Wait, Begun
<1>7. /\ ApartIn({"await"})'
      /\ \A y : y \in InProgress({"await"})' => y \in InProgress({"await"})
      /\ \A e \in FrameSet : OnStack(e)' /\ e.fn \in {"await"} => OnStack(e)
  <2>1. StackStep(f, f) /\ f.fn \notin {"await"}
    BY <1>1, <1>2 DEF StackStep
  <2> QED BY <1>1, <1>2, <2>1, NoneNew DEF OrderInv
<1>8. \A y : y \in InProgress(OpFns)' => y = o \/ y \in InProgress(OpFns)
  BY <1>1, <1>2, CalledView DEF Is
<1>9. \A y : y \in InProgress(OpFns)' => y \in Ops
  BY <1>1, OpFramesAreOps
<1> QED BY <1>1, <1>5, <1>6, <1>7, <1>8, <1>9, OrderKept

\* The order holds at first.
LEMMA InitOrder ==
  ASSUME Init, TypeInv, AsyncProgramAssumption
  PROVE  OrderInv
<1>1. stack = << >> /\ waiting = {Start} /\ StackOK
  BY DEF Init, TypeInv
<1>2. \A o \in Ops : op[o].waits = 0 /\ op[o].mem = "none"
  BY DEF Init, OpsInit
<1>3. Len(stack) = 0 /\ (\A e : ~OnStack(e)) /\ \A C, x : x \notin InProgress(C)
  BY <1>1 DEF OnStack, InProgress, FramesOf
<1>4. \A o \in Ops, k \in Nat : <<o, k>> \notin waiting
  BY <1>1 DEF Start, AsyncProgramAssumption
<1>5. ApartIn({"await"})
  BY <1>3 DEF ApartIn
<1>6. \A g \in Groups : Unreached(g)
  BY <1>2, <1>3, TaskIsOp DEF Unreached, Begun
<1> QED BY <1>3, <1>4, <1>5, <1>6 DEF OrderInv

\* An operation is begun at most once, and in the order of the text.
LEMMA StepOrder ==
  ASSUME TypeInv, TypeInv', AsyncProgramAssumption, OrderInv, [Next]_vars
  PROVE  OrderInv'
<1>1. CASE HandlerSteps \/ call_start
  <2>1. CASE co_resumes
    <3>1. CoAwaits \/ CoEnds
      BY <2>1 DEF co_resumes
    <3> QED BY <2>1, <3>1, LeavesOrder, AwaitsOrder
  <2>2. CASE group_runs \/ await_ends \/ co_returns \/ call_start
    BY <2>2, LeavesOrder
  <2>3. CASE await_begins \/ await_task \/ op_runs
    BY <2>3, AwaitBeginsOrder, AwaitTaskOrder, OpOrder
  <2> QED BY <1>1, <2>1, <2>2, <2>3 DEF HandlerSteps
<1>2. ASSUME NEW o \in Ops, loop_calls(o) \/ await_cancels(o) PROVE OrderInv'
  BY <1>2, CallOrder, StatusCodes DEF loop_calls, await_cancels
<1>3. CASE iosvc_run \/ iosvc_stop \/ run_returns \/ UNCHANGED vars
  <2>1. op' = op /\ waiting' = waiting /\ stack' = stack /\ co' = co
    BY <1>3 DEF iosvc_run, iosvc_stop, run_returns, vars, svcVars, Svc!Run, Svc!Stop, Svc!Finish
  <2> QED BY <2>1 DEF OrderInv, ApartIn, InProgress, FramesOf, Begun, OnStack, AwaitOK, Unreached
<1> QED BY <1>1, <1>2, <1>3 DEF Next
-----------------------------------------------------------------------------
(* The life of an operation: what a step is to the operations.             *)

\* The operations whose function runs, and those whose client's handler does.
Handled == InProgress(Impls)
Freeing == InProgress({"free_ctx"})

\* An operation that a frame is about is handled, or its client's handler runs; not both.
LEMMA HandledOrFreeing ==
  ASSUME StackOK
  PROVE  /\ \A x : x \in InProgress(OpFns) <=> x \in Handled \/ x \in Freeing
         /\ Handled \cup Freeing \subseteq Ops
         /\ ApartIn(OpFns) => Handled \cap Freeing = {}
<1>1. \A x : x \in InProgress(OpFns) <=> x \in Handled \/ x \in Freeing
  BY InProgressIs DEF Handled, Freeing, OpFns, Is
<1>2. Handled \cup Freeing \subseteq Ops
  BY <1>1, OpFramesAreOps
<1>3. ASSUME ApartIn(OpFns), NEW x, x \in Handled, x \in Freeing PROVE FALSE
  <2>1. PICK j \in 1..Len(stack) : Is(stack[j], x, Impls)
    BY <1>3, InProgressIs DEF Handled
  <2>2. PICK k \in 1..Len(stack) : Is(stack[k], x, {"free_ctx"})
    BY <1>3, InProgressIs DEF Freeing
  <2>3. j = k
    BY <1>3, <2>1, <2>2 DEF Is, ApartIn, OpFns
  <2> QED BY <2>1, <2>2, <2>3 DEF Is, Impls
<1> QED BY <1>1, <1>2, <1>3

\* What the service calls an operation with.
CallCodes == {"EIO_OK", "EIO_INVARG", "EIO_CANCELLED", "EIO_STOPPED"}

\* What a step is to the operations: nothing; the first call of the coroutine;
SeesNothing == UNCHANGED <<op, waiting, called, Handled, Freeing>>

SeesStart == /\ waiting' = waiting \ {Start} /\ called' = called \cup {Start}
             /\ UNCHANGED <<op, Handled, Freeing>>

\* ... the service calls o with a status;
SeesCall(o, code, x) ==
    /\ o \in Ops /\ code \in CallCodes
    /\ Wait(o) \in waiting
    /\ waiting' = waiting \ {Wait(o)} /\ called' = called \cup {Wait(o)}
    /\ CalledWith(o, code, x)
    /\ Freeing' = Freeing
    /\ Handled' = IF op[o].kind = "post" THEN Handled ELSE Handled \cup {o}

\* ... the call that begins o, with handler h;
SeesBegin(o, h, x) ==
    /\ o \in Ops /\ ~Begun(o) /\ IsGroupHandler(h) /\ Handled = {}
    /\ BeginsWith(o, h, x)
    /\ UNCHANGED <<Handled, Freeing>>

\* ... the client's handler of o is called;
SeesEnd(o, x) ==
    /\ o \in Ops /\ o \in Handled /\ o \notin Freeing
    /\ Outcome(o, x) /\ op' = [op EXCEPT ![o] = x]
    /\ Handled' = Handled \ {o} /\ Freeing' = Freeing \cup {o}
    /\ UNCHANGED <<status, waiting, called>>

\* ... o has moved r bytes and waits for its event again;
SeesAgain(o, r) ==
    /\ o \in Ops /\ o \in Handled /\ o \notin Freeing /\ op[o].kind = "rw"
    /\ r \in 1..op[o].left /\ op[o].left - r # 0
    /\ Accepted(o, op[o].waits + 1)
    /\ op' = [op EXCEPT ![o] = Again(o, r)]
    /\ Handled' = Handled \ {o} /\ Freeing' = Freeing

\* ... the context of o is freed.
SeesFree(o, x) ==
    /\ o \in Ops /\ o \in Freeing /\ o \notin Handled
    /\ RecOK(o, x) /\ x.mem = "freed" /\ x.hnd = op[o].hnd /\ x.waits = op[o].waits
    /\ x.errc = op[o].errc /\ x.moved = op[o].moved /\ x.left = op[o].left
    /\ op' = [op EXCEPT ![o] = x]
    /\ Handled' = Handled /\ Freeing' = Freeing \ {o}
    /\ UNCHANGED <<status, waiting, called>>

\* A step is one of these to the operations.
OpView == \/ SeesNothing \/ SeesStart
          \/ \E o, code, x : SeesCall(o, code, x)
          \/ \E o, h, x : SeesBegin(o, h, x)
          \/ \E o, x : SeesEnd(o, x)
          \/ \E o, r : SeesAgain(o, r)
          \/ \E o, x : SeesFree(o, x)

\* A step that neither adds nor takes away a frame of an operation.
LEMMA OpsUnseen ==
  ASSUME StackOK, StackOK', NEW h \in FrameSet, NEW f \in FrameSet, StackStep(h, f),
         h.fn \notin OpFns, f.fn \notin OpFns, ApartIn(OpFns),
         stack' = <<f>> \o stack \/ Head(stack).fn \notin OpFns
  PROVE  UNCHANGED <<Handled, Freeing>> /\ ApartIn(OpFns)'
<1>1. ASSUME NEW C, C \subseteq OpFns PROVE InProgress(C)' = InProgress(C)
  <2>1. h.fn \notin C /\ f.fn \notin C /\ (stack' = <<f>> \o stack \/ Head(stack).fn \notin C)
    BY <1>1
  <2>2. \A x : x \in InProgress(C)' <=> x \in InProgress(C)
    BY <2>1, NoneNew
  <2> QED BY <2>2
<1>2. ApartIn(OpFns)'
  BY NoneNew
<1>3. Impls \subseteq OpFns /\ {"free_ctx"} \subseteq OpFns
  BY DEF OpFns
<1> QED BY <1>1, <1>2, <1>3 DEF Handled, Freeing

\* Only the running frame can be that of an operation's function.
LEMMA OneHandled ==
  ASSUME StackOK
  PROVE  /\ \A x, y \in Handled : x = y
         /\ Running("await") => Handled = {}
<1>1. \A k \in 1..Len(stack) : stack[k].fn \in Impls => k = 1
  BY DEF StackOK, Below, Impls
<1>2. \A x \in Handled : stack # << >> /\ Head(stack) = stack[1] /\ Is(stack[1], x, Impls)
  BY <1>1, InProgressIs DEF Handled, Is, StackOK
<1> QED BY <1>2 DEF Is, Running, Impls

\* The step of a group or of the coroutine.
LEMMA LeavesView ==
  ASSUME TypeInv, TypeInv', ApartIn(OpFns),
         group_runs \/ co_resumes \/ await_ends \/ co_returns
  PROVE  SeesNothing /\ ApartIn(OpFns)'
<1>1. op' = op /\ waiting' = waiting /\ called' = called /\ StackOK /\ StackOK'
  BY DEF group_runs, co_resumes, await_ends, co_returns, svcVars, TypeInv
<1>2. stack # << >> /\ Head(stack).fn \notin OpFns
  BY DEF group_runs, GroupSteps, task_group_callback, free_group, co_resumes, CoAwaits, CoEnds,
         await_ends, CoSuspends, co_returns, CoAfter, Running, OpFns, Impls
<1>3. \E h \in FrameSet, f \in FrameSet :
         StackStep(h, f) /\ h.fn \notin OpFns /\ f.fn \notin OpFns
  <2>2. CASE group_runs
    <3>1. This \in Groups
      <4>1. Head(stack).fn \in GroupFns
        BY <2>2 DEF group_runs, GroupSteps, task_group_callback, free_group, Running, GroupFns
      <4> QED BY <1>2, <4>1, RunningGroup
    <3>2. Returns \/ CallsThen(group[This].hnd, Frame("free_group", This))
      BY <2>2 DEF group_runs, GroupSteps, task_group_callback, free_group
    <3>3. group[This].hnd \in FrameSet /\ group[This].hnd.fn \notin OpFns
      <4>1. NullHandler \in FrameSet /\ NullHandler.fn = "NULL"
        BY DEF NullHandler, Frame, FrameAt, FrameSet, Fns
      <4>2. CoHandler \in FrameSet /\ CoHandler.fn = "coro"
        BY DEF CoHandler, Frame, FrameAt, FrameSet, Fns
      <4> QED BY <3>1, <4>1, <4>2 DEF TypeInv, GroupsOK, OpFns, Impls
    <3>4. Frame("free_group", This) \in FrameSet /\ Frame("free_group", This).fn \notin OpFns
      BY <3>1, CoFrames DEF FrameOK, OpFns, Impls
    <3> QED BY <1>2, <3>2, <3>3, <3>4 DEF StackStep
  <2>3. CASE co_resumes \/ await_ends \/ co_returns
    <3>1. \E f : FrameOK(f) /\ f.fn \notin OpFns /\ (Becomes(<<f>>) \/ Returns)
      <4>1. CASE co_resumes /\ CoAwaits
        <5>1. stack'[1] = Frame("await", co.state + 1) /\ Len(stack') > 0
          BY <1>1, <1>2, <4>1 DEF CoAwaits, Becomes, StackOK
        <5>2. FrameOK(Frame("await", co.state + 1))
          BY <1>1, <5>1, SMTT(30) DEF StackOK, FrameOK
        <5> QED BY <4>1, <5>2 DEF CoAwaits, Frame, FrameAt, OpFns, Impls
      <4>2. CASE CoEnds \/ await_ends
        BY <4>2, CoFrames DEF CoEnds, await_ends, CoSuspends, OpFns, Impls
      <4>3. CASE co_returns
        BY <4>3, CoFrames DEF co_returns, CoAfter, OpFns, Impls
      <4> QED BY <2>3, <4>1, <4>2, <4>3 DEF co_resumes
    <3> QED BY <1>2, <3>1 DEF StackStep, FrameOK
  <2> QED BY <2>2, <2>3
<1> QED BY <1>1, <1>2, <1>3, OpsUnseen DEF SeesNothing

\* What the steps of an await are to the operations: nothing, or the call that begins one.
LEMMA AwaitView ==
  ASSUME TypeInv, TypeInv', AsyncProgramAssumption, OrderInv, ApartIn(OpFns),
         await_begins \/ await_task
  PROVE  /\ ApartIn(OpFns)'
         /\ await_begins => SeesNothing
         /\ await_task => \/ SeesNothing
                          \/ \E x : SeesBegin(Tasks[This][Step], GroupHandler(This), x)
<1>1. Running("await") /\ \E s \in Nat : Becomes(<<FrameAt("await", This, s)>>)
  <2>1. Running("await")
    BY DEF await_begins, await_task
  <2>2. Step \in Nat
    BY <2>1, RunningGroup DEF Running, GroupFns, Step
  <2> QED BY <2>1, <2>2 DEF await_begins, await_task
<1>2. \A C : /\ ApartIn(C) => ApartIn(C)'
             /\ \A x : x \in InProgress(C)' <=> x \in InProgress(C)
  BY <1>1, AwaitFrames
<1>3. UNCHANGED <<Handled, Freeing>>
  <2>1. ASSUME NEW C PROVE InProgress(C)' = InProgress(C)
    <3>1. \A x : x \in InProgress(C)' <=> x \in InProgress(C)
      BY <1>2
    <3> QED BY <3>1
  <2> QED BY <2>1 DEF Handled, Freeing
<1>4. await_begins => SeesNothing
  BY <1>3 DEF await_begins, SeesNothing, svcVars
<1>5. ASSUME await_task
      PROVE  SeesNothing \/ \E x : SeesBegin(Tasks[This][Step], GroupHandler(This), x)
  <2> DEFINE o == Tasks[This][Step]
             h == GroupHandler(This)
  <2>1. This \in Groups /\ o \in Ops /\ ~Begun(o) /\ Begin(o, h)
    BY <1>5, TaskNow
  <2>2. IsGroupHandler(h) /\ h \in FrameSet /\ OpsOK
    BY <2>1, GroupHandlerOK DEF TypeInv
  <2> HIDE DEF o, h
  <2>3. UNCHANGED <<op, svcVars>> => SeesNothing
    BY <1>3 DEF SeesNothing, svcVars
  <2>4. ASSUME NEW x, BeginsWith(o, h, x) PROVE SeesBegin(o, h, x)
    BY <1>1, <1>3, <2>1, <2>2, <2>4, OneHandled DEF SeesBegin, TypeInv
  <2>5. SeesNothing \/ \E x : SeesBegin(o, h, x)
    BY <2>1, <2>2, <2>3, <2>4, OpBegins
  <2> QED BY <2>5 DEF o, h
<1> QED BY <1>2, <1>4, <1>5

\* What a function of an operation is to it: the end of it, another wait, or the end of
\* its context.
LEMMA OpRunsSeen ==
  ASSUME TypeInv, TypeInv', ApartIn(OpFns), op_runs
  PROVE  /\ ApartIn(OpFns)' /\ stack # << >> /\ Head(stack).fn \in OpFns
         /\ \/ /\ \E x : SeesEnd(This, x)
               /\ CallsThen(op[This].hnd, Frame("free_ctx", This))
            \/ (\E r : SeesAgain(This, r)) /\ Returns
            \/ (\E x : SeesFree(This, x)) /\ Returns
<1> DEFINE o == This
           f == Frame("free_ctx", o)
<1>1. StackOK /\ StackOK' /\ OpsOK
  BY DEF TypeInv
<1>2. /\ stack # << >> /\ Head(stack).fn \in OpFns
      /\ \/ /\ Head(stack).fn \in Impls
            /\ \E x : Outcome(o, x) /\ Completes(o, x)
         \/ Head(stack).fn = "rw_impl" /\ WaitsAgain(o)
         \/ free_ctx
  BY OpRuns DEF op_runs
<1>3. o \in Ops /\ Serves(Head(stack).fn, op[o].kind) /\ op[o] \in OpRec
  BY <1>2, RunningOp
<1>4. free_ctx => /\ op' = [op EXCEPT ![o].mem = "freed"] /\ Returns /\ UNCHANGED svcVars
                  /\ Head(stack).fn = "free_ctx"
  BY DEF free_ctx, Running
<1>5. f \in FrameSet /\ f.fn = "free_ctx" /\ f.on = o
  BY <1>3 DEF Frame, FrameAt, FrameSet, Fns, OpFns
<1>6. Head(stack).on = o
  BY DEF This
<1>7. ~Rest(o, OpFns)
  BY <1>1, <1>2, HeadOrRest
<1>8. ~Rest(o, Impls) /\ ~Rest(o, {"free_ctx"})
  BY <1>7 DEF Rest, OpFns
<1> HIDE DEF o, f
<1>9. /\ \A x : x \in Handled <=> (Head(stack).fn \in Impls /\ o = x) \/ Rest(x, Impls)
      /\ \A x : x \in Freeing <=> (Head(stack).fn = "free_ctx" /\ o = x) \/ Rest(x, {"free_ctx"})
  BY <1>1, <1>2, <1>6, HeadOrRest DEF Handled, Freeing, Is
<1>10. "free_ctx" \notin Impls /\ "free_ctx" \in OpFns /\ "rw_impl" \in Impls
  BY DEF Impls, OpFns
<1>11. Returns => /\ \A x : x \in Handled' <=> Rest(x, Impls)
                  /\ \A x : x \in Freeing' <=> Rest(x, {"free_ctx"})
                  /\ ApartIn(OpFns)'
  BY <1>1, <1>2, ReturnsView DEF Handled, Freeing
<1>12. ASSUME NEW x, Outcome(o, x), Completes(o, x), Head(stack).fn \in Impls
       PROVE  SeesEnd(o, x) /\ ApartIn(OpFns)' /\ CallsThen(op[o].hnd, f)
  <2> DEFINE h == x.hnd
  <2>1. RecOK(o, x) /\ h \in FrameSet /\ IsGroupHandler(h)
    BY <1>12 DEF Outcome, RecOK, OpRec
  <2>2. h.fn \notin OpFns
    BY <2>1, HandlerFrame DEF OpFns, Impls
  <2>3. /\ CallsThen(h, f) /\ op' = [op EXCEPT ![o] = x] /\ UNCHANGED <<status, waiting, called>>
        /\ h = op[o].hnd
    BY <1>12 DEF Completes, f, svcVars, Outcome
  <2> HIDE DEF h
  <2>4. /\ \A y : ~Is(h, y, Impls) /\ ~Is(h, y, {"free_ctx"})
        /\ \A y : ~Is(f, y, Impls) /\ (Is(f, y, {"free_ctx"}) <=> y = o)
    BY <1>5, <1>10, <2>2 DEF Is, OpFns
  <2>5. /\ \A y : y \in Handled' <=> Rest(y, Impls)
        /\ \A y : y \in Freeing' <=> y = o \/ Rest(y, {"free_ctx"})
    BY <1>1, <1>2, <1>5, <2>1, <2>3, <2>4, CallsView DEF Handled, Freeing
  <2>6. ApartIn(OpFns)'
    BY <1>1, <1>2, <1>5, <1>7, <2>1, <2>2, <2>3, CallsView
  <2>7. Handled' = Handled \ {o} /\ Freeing' = Freeing \cup {o}
    BY <1>8, <1>9, <1>10, <1>12, <2>5
  <2>8. o \in Handled /\ o \notin Freeing
    BY <1>8, <1>9, <1>10, <1>12
  <2> QED BY <1>3, <1>12, <2>3, <2>6, <2>7, <2>8 DEF SeesEnd
<1>13. CASE Head(stack).fn = "rw_impl" /\ WaitsAgain(o)
  <2>1. op[o].kind = "rw"
    BY <1>3, <1>13 DEF Serves
  <2>2. PICK r \in 1..op[o].left : /\ op[o].left - r # 0
                                   /\ Accepted(o, op[o].waits + 1)
                                   /\ op' = [op EXCEPT ![o] = Again(o, r)]
                                   /\ Returns
    BY <1>13 DEF WaitsAgain
  <2>3. Handled' = Handled \ {o} /\ Freeing' = Freeing /\ o \in Handled /\ o \notin Freeing
    BY <1>8, <1>9, <1>10, <1>11, <1>13, <2>2
  <2>4. SeesAgain(o, r)
    BY <1>3, <2>1, <2>2, <2>3 DEF SeesAgain
  <2> QED BY <1>2, <1>11, <2>2, <2>4 DEF o
<1>14. CASE free_ctx
  <2>1. PICK x : /\ RecOK(o, x) /\ x.mem = "freed" /\ x.hnd = op[o].hnd
                 /\ x.waits = op[o].waits /\ x.errc = op[o].errc
                 /\ x.moved = op[o].moved /\ x.left = op[o].left
                 /\ op' = [op EXCEPT ![o] = x]
    BY <1>1, <1>3, <1>4, <1>14, FreedRecord
  <2>2. Handled' = Handled /\ Freeing' = Freeing \ {o} /\ o \in Freeing /\ o \notin Handled
    BY <1>4, <1>8, <1>9, <1>10, <1>11, <1>14
  <2>3. SeesFree(o, x)
    BY <1>3, <1>4, <1>14, <2>1, <2>2 DEF SeesFree, svcVars
  <2> QED BY <1>2, <1>4, <1>11, <1>14, <2>3 DEF o
<1> QED BY <1>2, <1>12, <1>13, <1>14 DEF o, f

\* An operation that waits is not being handled.
WaitersIdle == \A o \in Ops : Wait(o) \in waiting => o \notin Handled \cup Freeing

\* What a call by the service is to the operation.
LEMMA CallSeen ==
  ASSUME TypeInv, TypeInv', ApartIn(OpFns), WaitersIdle,
         NEW o \in Ops, NEW code \in CallCodes, call_op(o, code)
  PROVE  (\E x : SeesCall(o, code, x)) /\ ApartIn(OpFns)'
<1> DEFINE f == Entry(o)
<1>1. /\ StackOK /\ StackOK' /\ OpsOK /\ stack' = <<f>> \o stack /\ Wait(o) \in waiting
      /\ waiting' = waiting \ {Wait(o)} /\ called' = called \cup {Wait(o)}
      /\ code \in Codes
  BY DEF TypeInv, call_op, Svc!Call, CallCodes, Codes
<1>2. /\ f \in FrameSet
      /\ op[o].kind = "post" => f.fn \notin OpFns
      /\ op[o].kind # "post" => f.fn \in Impls /\ f.on = o
  <2>1. /\ FrameOK(f) /\ (op[o].kind = "post" => f = op[o].hnd)
        /\ (op[o].kind # "post" => f.fn \in Impls /\ f.on = o)
    BY EntryFrame
  <2>2. f \in FrameSet
    BY <2>1 DEF FrameOK
  <2>3. IsGroupHandler(op[o].hnd)
    BY <1>1 DEF OpsOK, RecOK
  <2>4. op[o].kind = "post" => f.fn \in {"NULL", "task_group_callback"}
    BY <2>1, <2>2, <2>3, HandlerFrame
  <2> QED BY <2>1, <2>2, <2>4 DEF Impls, OpFns
<1> HIDE DEF f
<1>3. PICK x : CalledWith(o, code, x)
  BY <1>1, OpCalled
<1>4. o \notin InProgress(OpFns)
  BY <1>1, HandledOrFreeing DEF WaitersIdle
<1>5. ApartIn(OpFns)'
  <2>1. f.fn \in OpFns => f.on \notin InProgress(OpFns)
    BY <1>2, <1>4
  <2> QED BY <1>1, <1>2, <2>1, CalledView
<1>6. /\ \A y : y \in Handled' <=> Is(f, y, Impls) \/ y \in Handled
      /\ \A y : y \in Freeing' <=> Is(f, y, {"free_ctx"}) \/ y \in Freeing
  BY <1>1, <1>2, CalledView DEF Handled, Freeing
<1>7. /\ \A y : Is(f, y, Impls) <=> op[o].kind # "post" /\ y = o
      /\ \A y : ~Is(f, y, {"free_ctx"})
  BY <1>2 DEF Is, OpFns, Impls
<1>8. Freeing' = Freeing /\ Handled' = IF op[o].kind = "post" THEN Handled ELSE Handled \cup {o}
  BY <1>6, <1>7
<1>9. SeesCall(o, code, x)
  BY <1>1, <1>3, <1>8 DEF SeesCall
<1> QED BY <1>5, <1>9

\* Every step is one of these to the operations.
LEMMA StepSeen ==
  ASSUME TypeInv, TypeInv', AsyncProgramAssumption, OrderInv, ApartIn(OpFns), WaitersIdle,
         [Next]_vars
  PROVE  OpView /\ ApartIn(OpFns)'
<1>1. CASE HandlerSteps
  <2>1. CASE group_runs \/ co_resumes \/ await_ends \/ co_returns
    BY <2>1, LeavesView DEF OpView
  <2>2. CASE await_begins \/ await_task
    BY <2>2, AwaitView DEF OpView
  <2>3. CASE op_runs
    BY <2>3, OpRunsSeen DEF OpView
  <2> QED BY <1>1, <2>1, <2>2, <2>3 DEF HandlerSteps
<1>2. CASE call_start
  <2>1. /\ stack' = <<CoHandler>> \o stack /\ op' = op /\ StackOK /\ StackOK'
        /\ waiting' = waiting \ {Start} /\ called' = called \cup {Start}
    BY <1>2 DEF call_start, InLoop, Svc!Call, TypeInv
  <2>2. CoHandler \in FrameSet /\ CoHandler.fn \notin OpFns
    BY CoFrames DEF FrameOK, OpFns, Impls
  <2>3. StackStep(CoHandler, CoHandler)
    BY <2>1 DEF StackStep
  <2>4. UNCHANGED <<Handled, Freeing>> /\ ApartIn(OpFns)'
    BY <2>1, <2>2, <2>3, OpsUnseen
  <2>5. SeesStart
    BY <2>1, <2>4 DEF SeesStart
  <2> QED BY <2>4, <2>5 DEF OpView
<1>3. ASSUME NEW o \in Ops, loop_calls(o) \/ await_cancels(o) PROVE OpView /\ ApartIn(OpFns)'
  <2>1. \E code \in CallCodes : call_op(o, code)
    BY <1>3 DEF loop_calls, await_cancels, Statuses, CallCodes
  <2> QED BY <2>1, CallSeen DEF OpView
<1>4. CASE iosvc_run \/ iosvc_stop \/ run_returns \/ UNCHANGED vars
  <2>1. op' = op /\ waiting' = waiting /\ called' = called /\ stack' = stack
    BY <1>4 DEF iosvc_run, iosvc_stop, run_returns, vars, svcVars, Svc!Run, Svc!Stop, Svc!Finish
  <2>2. SeesNothing
    BY <2>1 DEF SeesNothing, Handled, Freeing, InProgress, FramesOf
  <2> QED BY <2>1, <2>2 DEF OpView, ApartIn
<1> QED BY <1>1, <1>2, <1>3, <1>4 DEF Next
-----------------------------------------------------------------------------
(* An operation waits, is handled, or is over.                             *)

\* Only the last wait of o can be pending, and none with a later number was called.
Numbered(o) == \A k \in Nat : /\ <<o, k>> \in waiting => k = op[o].waits /\ k > 0
                              /\ <<o, k>> \in called => k > 0 /\ k <= op[o].waits

\* A wait is pending or was called; a context is in memory while the operation waits or is
\* worked on; an operation without an accepted wait has no context, or one left behind.
Life(o) ==
    /\ op[o].waits > 0 => Wait(o) \in waiting \/ Wait(o) \in called
    /\ o \in Handled \/ o \in Freeing =>
          Wait(o) \in called /\ op[o].waits > 0 /\ op[o].kind # "post"
    /\ op[o].kind = "post" => op[o].mem = "none"
    /\ op[o].kind # "post" =>
          /\ op[o].mem = "live" <=> Wait(o) \in waiting \/ o \in Handled \/ o \in Freeing
          /\ op[o].waits = 0 <=> op[o].mem \in {"none", "leaked"}

\* This of all operations.
OpLife == /\ waiting \cap called = {}
          /\ \A o \in Ops : Numbered(o) /\ Life(o)

\* No operation is worked on twice.
LifeInv == ApartIn(OpFns) /\ OpLife

\* An operation that waits is not being handled.
LEMMA LifeIdle ==
  ASSUME OpLife
  PROVE  WaitersIdle
BY DEF OpLife, Life, WaitersIdle

\* What an operation's life depends on.
LEMMA LifeSame ==
  ASSUME NEW o \in Ops, OpsOK, Numbered(o), Life(o),
         op'[o].waits = op[o].waits, op'[o].mem = op[o].mem, op'[o].kind = op[o].kind,
         \A k \in Nat : <<o, k>> \in waiting' <=> <<o, k>> \in waiting,
         \A k \in Nat : <<o, k>> \in called' <=> <<o, k>> \in called,
         o \in Handled' <=> o \in Handled, o \in Freeing' <=> o \in Freeing
  PROVE  Numbered(o)' /\ Life(o)'
<1>1. op[o].waits \in Nat
  BY DEF OpsOK, OpRec
<1>2. Wait(o)' = Wait(o) /\ Wait(o) = <<o, op[o].waits>>
  BY DEF Wait
<1>3. (Wait(o) \in waiting' <=> Wait(o) \in waiting) /\ (Wait(o) \in called' <=> Wait(o) \in called)
  BY <1>1, <1>2
<1> QED BY <1>2, <1>3 DEF Numbered, Life

\* Whatever a step is to an operation keeps its life in order.
LEMMA LifeKept ==
  ASSUME TypeInv, TypeInv', AsyncProgramAssumption, OpLife, Handled \cap Freeing = {}, OpView
  PROVE  OpLife'
<1>1. OpsOK /\ 0 \notin Ops
  BY DEF TypeInv, AsyncProgramAssumption
<1>2. \A o \in Ops : op[o].waits \in Nat /\ op[o].kind \in OpKinds
  BY <1>1 DEF OpsOK, OpRec
<1>3. \A o \in Ops, k \in Nat : <<o, k>> # Start
  BY <1>1 DEF Start
<1>4. \A o \in Ops : Numbered(o) /\ Life(o)
  BY DEF OpLife
<1>5. CASE SeesNothing \/ SeesStart
  <2>1. ASSUME NEW o \in Ops PROVE Numbered(o)' /\ Life(o)'
    <3>1. \A k \in Nat : /\ <<o, k>> \in waiting' <=> <<o, k>> \in waiting
                         /\ <<o, k>> \in called' <=> <<o, k>> \in called
      BY <1>3, <1>5 DEF SeesNothing, SeesStart
    <3> QED BY <1>1, <1>4, <1>5, <3>1, LifeSame DEF SeesNothing, SeesStart
  <2>2. waiting' \cap called' = {}
    BY <1>5 DEF OpLife, SeesNothing, SeesStart
  <2> QED BY <2>1, <2>2 DEF OpLife
<1>6. ASSUME NEW o, NEW code, NEW x, SeesCall(o, code, x) PROVE OpLife'
  <2>1. /\ o \in Ops /\ Wait(o) \in waiting /\ waiting' = waiting \ {Wait(o)}
        /\ called' = called \cup {Wait(o)} /\ Freeing' = Freeing
        /\ Handled' = IF op[o].kind = "post" THEN Handled ELSE Handled \cup {o}
        /\ CalledWith(o, code, x) /\ Wait(o) = <<o, op[o].waits>>
    BY <1>6 DEF SeesCall, Wait
  <2>2. /\ op'[o] = x /\ \A p \in Ops \ {o} : op'[p] = op[p]
        /\ x.waits = op[o].waits /\ x.mem = op[o].mem /\ x.kind = op[o].kind
    BY <1>1, <2>1, OpChanges DEF CalledWith, RecOK
  <2>3. ASSUME NEW p \in Ops PROVE Numbered(p)' /\ Life(p)'
    <3>1. CASE p # o
      <4>1. \A k \in Nat : /\ <<p, k>> \in waiting' <=> <<p, k>> \in waiting
                           /\ <<p, k>> \in called' <=> <<p, k>> \in called
        BY <2>1, <3>1
      <4>2. (p \in Handled' <=> p \in Handled) /\ (p \in Freeing' <=> p \in Freeing)
        BY <2>1, <3>1
      <4> QED BY <1>1, <1>4, <2>2, <3>1, <4>1, <4>2, LifeSame
    <3>2. CASE p = o
      <4>1. Wait(o)' = Wait(o) /\ Wait(o) \in called' /\ Wait(o) \notin waiting'
        BY <2>1, <2>2 DEF Wait
      <4>2. op[o].waits > 0 /\ op[o].waits \in Nat
        BY <1>2, <1>4, <2>1 DEF Numbered
      <4>3. Numbered(o)'
        BY <1>4, <2>1, <2>2, <4>2 DEF Numbered
      <4>4. Life(o)'
        BY <1>4, <2>1, <2>2, <4>1, <4>2 DEF Life
      <4> QED BY <3>2, <4>3, <4>4
    <3> QED BY <3>1, <3>2
  <2>4. waiting' \cap called' = {}
    BY <2>1 DEF OpLife
  <2> QED BY <2>3, <2>4 DEF OpLife
<1>7. ASSUME NEW o, NEW h, NEW x, SeesBegin(o, h, x) PROVE OpLife'
  <2>1. /\ o \in Ops /\ op[o].waits = 0 /\ op[o].mem = "none"
        /\ BeginsWith(o, h, x) /\ UNCHANGED <<Handled, Freeing>>
    BY <1>2, <1>7 DEF SeesBegin, Begun
  <2>2. /\ op'[o] = x /\ (\A p \in Ops \ {o} : op'[p] = op[p]) /\ x.kind = op[o].kind
    BY <1>1, <2>1, OpChanges DEF BeginsWith, RecOK
  <2>3. o \notin Handled /\ o \notin Freeing
    BY <1>4, <2>1 DEF Life
  <2>4. \A k \in Nat : <<o, k>> \notin waiting /\ <<o, k>> \notin called
    BY <1>4, <2>1 DEF Numbered
  <2>5. CASE x.waits = 1 /\ Svc!Accept(<<o, 1>>)
    <3>1. waiting' = waiting \cup {<<o, 1>>} /\ called' = called /\ <<o, 1>> \notin called
      BY <2>5 DEF Svc!Accept
    <3>2. ASSUME NEW p \in Ops PROVE Numbered(p)' /\ Life(p)'
      <4>1. CASE p # o
        BY <1>1, <1>4, <2>1, <2>2, <3>1, <4>1, LifeSame
      <4>2. CASE p = o
        <5>1. Wait(o)' = <<o, 1>> /\ op'[o].waits = 1
          BY <2>2, <2>5 DEF Wait
        <5>2. Numbered(o)'
          BY <2>4, <3>1, <5>1 DEF Numbered
        <5>3. (x.kind = "post" => x.mem = "none") /\ (x.kind # "post" => x.mem = "live")
          BY <2>1, <2>5 DEF BeginsWith
        <5>4. Life(o)'
          BY <2>1, <2>2, <2>3, <2>4, <3>1, <5>1, <5>3 DEF Life
        <5> QED BY <4>2, <5>2, <5>4
      <4> QED BY <4>1, <4>2
    <3> QED BY <3>1, <3>2 DEF OpLife
  <2>6. CASE /\ x.kind # "post" /\ x.mem = "leaked" /\ x.waits = op[o].waits
             /\ UNCHANGED svcVars
    <3>1. waiting' = waiting /\ called' = called
      BY <2>6 DEF svcVars
    <3>2. ASSUME NEW p \in Ops PROVE Numbered(p)' /\ Life(p)'
      <4>1. CASE p # o
        BY <1>1, <1>4, <2>1, <2>2, <3>1, <4>1, LifeSame
      <4>2. CASE p = o
        <5>1. Wait(o)' = <<o, 0>> /\ op'[o].waits = 0
          BY <2>1, <2>2, <2>6 DEF Wait
        <5> QED BY <2>1, <2>2, <2>3, <2>4, <2>6, <3>1, <4>2, <5>1 DEF Life, Numbered
      <4> QED BY <4>1, <4>2
    <3> QED BY <3>1, <3>2 DEF OpLife
  <2> QED BY <2>1, <2>5, <2>6 DEF BeginsWith
<1>8. ASSUME NEW o, NEW x, SeesEnd(o, x) PROVE OpLife'
  <2>1. /\ o \in Ops /\ o \in Handled /\ Outcome(o, x) /\ op' = [op EXCEPT ![o] = x]
        /\ Handled' = Handled \ {o} /\ Freeing' = Freeing \cup {o}
        /\ waiting' = waiting /\ called' = called
    BY <1>8 DEF SeesEnd
  <2>2. /\ op'[o] = x /\ \A p \in Ops \ {o} : op'[p] = op[p]
        /\ x.waits = op[o].waits /\ x.mem = op[o].mem /\ x.kind = op[o].kind
    BY <1>1, <2>1, OpChanges DEF Outcome, RecOK
  <2>3. ASSUME NEW p \in Ops PROVE Numbered(p)' /\ Life(p)'
    <3>1. CASE p # o
      BY <1>1, <1>4, <2>1, <2>2, <3>1, LifeSame
    <3>2. CASE p = o
      <4>1. Wait(o)' = Wait(o)
        BY <2>2 DEF Wait
      <4> QED BY <1>4, <2>1, <2>2, <3>2, <4>1 DEF Life, Numbered
    <3> QED BY <3>1, <3>2
  <2> QED BY <2>1, <2>3 DEF OpLife
<1>9. ASSUME NEW o, NEW r, SeesAgain(o, r) PROVE OpLife'
  <2> DEFINE x == Again(o, r)
             w == op[o].waits + 1
  <2>1. /\ o \in Ops /\ o \in Handled /\ o \notin Freeing /\ op[o].kind = "rw"
        /\ r \in 1..op[o].left /\ op[o].left - r # 0 /\ op' = [op EXCEPT ![o] = x]
        /\ Handled' = Handled \ {o} /\ Freeing' = Freeing
        /\ waiting' = waiting \cup {<<o, w>>} /\ called' = called
        /\ <<o, w>> \notin called
    BY <1>9 DEF SeesAgain, Accepted, Svc!Accept
  <2>2. RecOK(o, x) /\ x.waits = w /\ x.mem = op[o].mem /\ x.kind = op[o].kind
    BY <1>1, <2>1, AgainRecord DEF RecOK
  <2>3. op'[o] = x /\ \A p \in Ops \ {o} : op'[p] = op[p]
    BY <1>1, <2>1, <2>2, OpChanges
  <2>4. w \in Nat /\ w = op[o].waits + 1 /\ op[o].waits \in Nat
    BY <1>2, <2>1
  <2> HIDE DEF x, w
  <2>5. ASSUME NEW p \in Ops PROVE Numbered(p)' /\ Life(p)'
    <3>1. CASE p # o
      BY <1>1, <1>4, <2>1, <2>3, <3>1, LifeSame
    <3>2. CASE p = o
      <4>1. Wait(o)' = <<o, w>> /\ op'[o].waits = w
        BY <2>2, <2>3 DEF Wait
      <4>2. op[o].mem = "live" /\ op[o].waits > 0 /\ Wait(o) \in called
        BY <1>4, <2>1 DEF Life
      <4>3. \A k \in Nat : <<o, k>> \notin waiting
        <5>1. Wait(o) \notin waiting /\ Wait(o) = <<o, op[o].waits>>
          BY <4>2 DEF OpLife, Wait
        <5>2. ASSUME NEW k \in Nat, <<o, k>> \in waiting PROVE FALSE
          <6>1. k = op[o].waits
            BY <1>4, <2>1, <5>2 DEF Numbered
          <6> QED BY <5>1, <5>2, <6>1
        <5> QED BY <5>2
      <4>4. Numbered(o)'
        BY <1>4, <2>1, <2>4, <4>1, <4>3 DEF Numbered
      <4>5. Life(o)'
        BY <2>1, <2>2, <2>3, <2>4, <4>1, <4>2 DEF Life
      <4> QED BY <3>2, <4>4, <4>5
    <3> QED BY <3>1, <3>2
  <2> QED BY <2>1, <2>5, ZenonT(60) DEF OpLife
<1>10. ASSUME NEW o, NEW x, SeesFree(o, x) PROVE OpLife'
  <2>1. /\ o \in Ops /\ o \in Freeing /\ o \notin Handled /\ RecOK(o, x) /\ x.mem = "freed"
        /\ x.waits = op[o].waits /\ op' = [op EXCEPT ![o] = x]
        /\ Handled' = Handled /\ Freeing' = Freeing \ {o}
        /\ waiting' = waiting /\ called' = called
    BY <1>10 DEF SeesFree
  <2>2. /\ op'[o] = x /\ (\A p \in Ops \ {o} : op'[p] = op[p]) /\ x.kind = op[o].kind
    BY <1>1, <2>1, OpChanges DEF RecOK
  <2>3. ASSUME NEW p \in Ops PROVE Numbered(p)' /\ Life(p)'
    <3>1. CASE p # o
      BY <1>1, <1>4, <2>1, <2>2, <3>1, LifeSame
    <3>2. CASE p = o
      <4>1. Wait(o)' = Wait(o) /\ Wait(o) \in called /\ Wait(o) \notin waiting /\ op[o].waits > 0
        BY <1>4, <2>1, <2>2 DEF Wait, Life, OpLife
      <4> QED BY <1>4, <2>1, <2>2, <3>2, <4>1 DEF Life, Numbered
    <3> QED BY <3>1, <3>2
  <2> QED BY <2>1, <2>3 DEF OpLife
<1> QED BY <1>5, <1>6, <1>7, <1>8, <1>9, <1>10 DEF OpView

\* Nothing was begun at first.
LEMMA InitLife ==
  ASSUME Init, TypeInv, AsyncProgramAssumption
  PROVE  LifeInv
<1>1. stack = << >> /\ waiting = {Start} /\ called = {}
  BY DEF Init
<1>2. \A o \in Ops : op[o].waits = 0 /\ op[o].mem = "none"
  BY DEF Init, OpsInit
<1>3. Len(stack) = 0 /\ Handled = {} /\ Freeing = {}
  BY <1>1 DEF Handled, Freeing, InProgress, FramesOf
<1>4. \A o \in Ops, k \in Nat : <<o, k>> \notin waiting
  BY <1>1 DEF Start, AsyncProgramAssumption
<1>5. \A o \in Ops : Wait(o) \notin waiting
  BY <1>2, <1>4 DEF Wait
<1>6. ASSUME NEW o \in Ops PROVE Numbered(o) /\ Life(o)
  BY <1>1, <1>2, <1>3, <1>4, <1>5 DEF Numbered, Life
<1> QED BY <1>1, <1>3, <1>6 DEF LifeInv, OpLife, ApartIn

\* Every step keeps an operation in one of its three phases.
LEMMA StepLife ==
  ASSUME TypeInv, TypeInv', AsyncProgramAssumption, OrderInv, LifeInv, [Next]_vars
  PROVE  OpView /\ LifeInv'
<1>1. OpView /\ ApartIn(OpFns)'
  BY StepSeen, LifeIdle DEF LifeInv
<1>2. Handled \cap Freeing = {}
  BY HandledOrFreeing DEF TypeInv, LifeInv
<1> QED BY <1>1, <1>2, LifeKept DEF LifeInv
-----------------------------------------------------------------------------
(* Events.                                                                 *)

\* The operation has its event in the service.
Owns(o) == op[o].kind # "post" /\ Wait(o) \in waiting

\* No operation has the event of one that waits, or of one that is handled and may
\* wait for it again.
EventInv == \A o, p \in Ops :
               o # p /\ Event[o] = Event[p] /\ Owns(p) => ~Owns(o) /\ o \notin Handled

\* No event is taken by a step that gives none away.
LEMMA EventKept ==
  ASSUME EventInv, \A p \in Ops : Owns(p)' => Owns(p),
         \A p \in Ops : p \in Handled' => p \in Handled \/ Owns(p)
  PROVE  EventInv'
BY DEF EventInv

\* An event is taken by the one operation that the service accepts for it.
LEMMA EventTaken ==
  ASSUME EventInv, NEW o \in Ops, ~Busy(o), \A p \in Ops \ {o} : Owns(p)' => Owns(p),
         \A p \in Ops : p \notin Handled'
  PROVE  EventInv'
<1>1. \A p \in Ops \ {o} : Event[p] = Event[o] => ~Owns(p)
  BY DEF Busy, Owns
<1> QED BY <1>1 DEF EventInv

\* An operation whose wait is as it was.
LEMMA OwnsSame ==
  ASSUME NEW p \in Ops, OpsOK, op'[p].waits = op[p].waits, op'[p].kind = op[p].kind,
         \A k \in Nat : <<p, k>> \in waiting' => <<p, k>> \in waiting
  PROVE  Owns(p)' => Owns(p)
<1>1. op[p].waits \in Nat
  BY DEF OpsOK, OpRec
<1> QED BY <1>1 DEF Owns, Wait

\* No step gives an event to two operations: the service refuses the second, and a
\* transfer that waits again was the last to have it (async_rdwr.c:54-58).
LEMMA StepEvents ==
  ASSUME TypeInv, TypeInv', AsyncProgramAssumption, OpView, EventInv
  PROVE  EventInv'
<1>1. OpsOK /\ StackOK /\ 0 \notin Ops
  BY DEF TypeInv, AsyncProgramAssumption
<1>2. CASE SeesNothing \/ SeesStart
  <2>1. \A p \in Ops : Owns(p)' => Owns(p)
    BY <1>1, <1>2, OwnsSame DEF SeesNothing, SeesStart
  <2> QED BY <1>2, <2>1, EventKept DEF SeesNothing, SeesStart
<1>3. ASSUME NEW o, NEW code, NEW x, SeesCall(o, code, x) PROVE EventInv'
  <2>1. /\ o \in Ops /\ Wait(o) \in waiting /\ waiting' = waiting \ {Wait(o)}
        /\ Handled' = IF op[o].kind = "post" THEN Handled ELSE Handled \cup {o}
        /\ CalledWith(o, code, x)
    BY <1>3 DEF SeesCall
  <2>2. /\ op'[o] = x /\ (\A p \in Ops \ {o} : op'[p] = op[p])
        /\ x.kind = op[o].kind /\ x.waits = op[o].waits
    BY <1>1, <2>1, OpChanges DEF CalledWith, RecOK
  <2>3. \A p \in Ops : Owns(p)' => Owns(p)
    BY <1>1, <2>1, <2>2, OwnsSame
  <2>4. \A p \in Ops : p \in Handled' => p \in Handled \/ Owns(p)
    BY <2>1 DEF Owns
  <2> QED BY <2>3, <2>4, EventKept
<1>4. ASSUME NEW o, NEW h, NEW x, SeesBegin(o, h, x) PROVE EventInv'
  <2>1. o \in Ops /\ BeginsWith(o, h, x) /\ Handled' = {} /\ RecOK(o, x)
    BY <1>4 DEF SeesBegin, BeginsWith
  <2>2. /\ op'[o] = x /\ (\A p \in Ops \ {o} : op'[p] = op[p]) /\ x.kind = op[o].kind
    BY <1>1, <2>1, OpChanges DEF BeginsWith, RecOK
  <2>3. CASE x.waits = 1 /\ Svc!Accept(<<o, 1>>)
    <3>1. \A p \in Ops \ {o} : Owns(p)' => Owns(p)
      BY <1>1, <2>2, <2>3, OwnsSame DEF Svc!Accept
    <3>2. CASE x.kind = "post"
      <4>1. ~Owns(o)'
        BY <2>2, <3>2 DEF Owns
      <4> QED BY <2>1, <3>1, <4>1, EventKept
    <3>3. CASE x.kind # "post"
      <4>1. ~Busy(o)
        BY <2>1, <2>3, <3>3 DEF BeginsWith, Svc!Accept, svcVars
      <4> QED BY <2>1, <3>1, <4>1, EventTaken
    <3> QED BY <3>2, <3>3
  <2>4. CASE x.waits = op[o].waits /\ UNCHANGED svcVars
    <3>1. \A p \in Ops : Owns(p)' => Owns(p)
      BY <1>1, <2>2, <2>4, OwnsSame DEF svcVars
    <3> QED BY <2>1, <3>1, EventKept
  <2> QED BY <2>1, <2>3, <2>4 DEF BeginsWith
<1>5. ASSUME NEW o, NEW x, SeesEnd(o, x) \/ SeesFree(o, x) PROVE EventInv'
  <2>1. /\ o \in Ops /\ RecOK(o, x) /\ op' = [op EXCEPT ![o] = x] /\ x.waits = op[o].waits
        /\ waiting' = waiting /\ \A p : p \in Handled' => p \in Handled
    BY <1>5 DEF SeesEnd, SeesFree, Outcome
  <2>2. op'[o] = x /\ (\A p \in Ops \ {o} : op'[p] = op[p]) /\ x.kind = op[o].kind
    BY <1>1, <2>1, OpChanges DEF RecOK
  <2>3. \A p \in Ops : Owns(p)' => Owns(p)
    BY <1>1, <2>1, <2>2, OwnsSame
  <2> QED BY <2>1, <2>3, EventKept
<1>6. ASSUME NEW o, NEW r, SeesAgain(o, r) PROVE EventInv'
  <2> DEFINE x == Again(o, r)
  <2>1. /\ o \in Ops /\ o \in Handled /\ op[o].kind = "rw" /\ ~Busy(o)
        /\ r \in 1..op[o].left /\ op[o].left - r # 0 /\ op' = [op EXCEPT ![o] = x]
        /\ Handled' = Handled \ {o}
        /\ waiting' = waiting \cup {<<o, op[o].waits + 1>>}
    BY <1>6 DEF SeesAgain, Accepted, Svc!Accept
  <2>2. RecOK(o, x)
    BY <1>1, <2>1, AgainRecord
  <2> HIDE DEF x
  <2>3. \A p \in Ops \ {o} : op'[p] = op[p]
    BY <1>1, <2>1, <2>2, OpChanges
  <2>4. \A p \in Ops \ {o} : Owns(p)' => Owns(p)
    BY <1>1, <2>1, <2>3, OwnsSame
  <2>5. \A p \in Ops : p \notin Handled'
    BY <1>1, <2>1, OneHandled
  <2> QED BY <2>1, <2>4, <2>5, EventTaken
<1> QED BY <1>2, <1>3, <1>4, <1>5, <1>6 DEF OpView
-----------------------------------------------------------------------------
(* What an operation reports.                                              *)

\* The status an operation is called with or reports is documented; the bytes of a
\* transfer are moved or left, none is left when it reports EIO_OK, and an operation
\* for some bytes has moved none unless it reports EIO_OK.
Report(o) ==
    /\ o \in Handled \/ (op[o].kind # "post" /\ Over(o)) => op[o].errc \in Documented(op[o].kind)
    /\ op[o].waits > 0 /\ op[o].kind = "rw" =>
          /\ op[o].moved + op[o].left = Nbytes[o]
          /\ Over(o) /\ op[o].errc = "EIO_OK" => op[o].moved = Nbytes[o]
    /\ op[o].waits > 0 /\ op[o].kind = "rw_some" /\ ~(Over(o) /\ op[o].errc = "EIO_OK")
          => op[o].moved = 0

\* This of all operations.
ReportInv == \A o \in Ops : Report(o)

\* An operation is over when its context is freed, or is when the client's handler returns.
LEMMA OverIs ==
  /\ \A o : Over(o) <=> op[o].mem = "freed" \/ o \in Freeing
  /\ \A o : Over(o)' <=> op'[o].mem = "freed" \/ o \in Freeing'
BY DEF Over, Freeing

\* An operation that a step does not concern reports what it did.
LEMMA ReportSame ==
  ASSUME NEW p \in Ops, Report(p), op'[p] = op[p],
         p \in Handled' <=> p \in Handled, p \in Freeing' <=> p \in Freeing
  PROVE  Report(p)'
<1>1. Over(p)' <=> Over(p)
  BY OverIs
<1> QED BY <1>1 DEF Report

\* An operation in the service or in its function is not over.
LEMMA NotOver ==
  ASSUME OpLife, Handled \cap Freeing = {}, NEW o \in Ops, op[o].kind # "post",
         Wait(o) \in waiting \/ o \in Handled
  PROVE  op[o].mem = "live" /\ o \notin Freeing /\ ~Over(o)
<1>1. op[o].mem = "live" /\ o \notin Freeing
  BY DEF OpLife, Life
<1> QED BY <1>1, OverIs

\* No step spoils what an operation reports.
LEMMA StepReports ==
  ASSUME TypeInv, TypeInv', OpLife, Handled \cap Freeing = {}, EventInv, ReportInv, OpView
  PROVE  ReportInv'
<1>1. OpsOK /\ \A o \in Ops : Report(o) /\ Life(o)
  BY DEF TypeInv, ReportInv, OpLife
<1>2. \A o \in Ops : /\ op[o].waits \in Nat /\ op[o].moved \in Nat /\ op[o].left \in Nat
                     /\ Nbytes[o] \in Nat
  BY <1>1 DEF OpsOK, OpRec, AsyncOpsAssumption
<1>3. CASE SeesNothing \/ SeesStart
  BY <1>1, <1>3, ReportSame DEF ReportInv, SeesNothing, SeesStart
<1>4. ASSUME NEW o, NEW code, NEW x, SeesCall(o, code, x) PROVE ReportInv'
  <2>1. /\ o \in Ops /\ Wait(o) \in waiting /\ code \in CallCodes
        /\ Handled' = IF op[o].kind = "post" THEN Handled ELSE Handled \cup {o}
        /\ Freeing' = Freeing /\ CalledWith(o, code, x)
    BY <1>4 DEF SeesCall
  <2>2. /\ op'[o] = x /\ (\A p \in Ops \ {o} : op'[p] = op[p])
        /\ x.kind = op[o].kind /\ x.waits = op[o].waits /\ x.mem = op[o].mem
        /\ x.moved = op[o].moved /\ x.left = op[o].left
        /\ op[o].kind # "post" => x.errc = code
    BY <1>1, <2>1, OpChanges DEF CalledWith, RecOK
  <2>3. Report(o)'
    <3>1. CASE op[o].kind = "post"
      <4>1. o \notin Handled'
        BY <1>1, <2>1, <3>1 DEF Life
      <4> QED BY <2>2, <3>1, <4>1 DEF Report
    <3>2. CASE op[o].kind # "post"
      <4>1. op[o].mem = "live" /\ o \notin Freeing /\ ~Over(o)
        BY <2>1, <3>2, NotOver
      <4>2. ~Over(o)'
        BY <2>1, <2>2, <4>1, OverIs
      <4>3. x.errc \in Documented(x.kind)
        BY <2>1, <2>2, <3>2 DEF CallCodes, Documented
      <4> QED BY <1>1, <2>1, <2>2, <4>1, <4>2, <4>3 DEF Report
    <3> QED BY <3>1, <3>2
  <2>4. ASSUME NEW p \in Ops \ {o} PROVE Report(p)'
    BY <1>1, <2>1, <2>2, ReportSame
  <2> QED BY <2>3, <2>4 DEF ReportInv
<1>5. ASSUME NEW o, NEW h, NEW x, SeesBegin(o, h, x) PROVE ReportInv'
  <2>1. /\ o \in Ops /\ op[o].waits = 0 /\ op[o].mem = "none" /\ BeginsWith(o, h, x)
        /\ Handled' = Handled /\ Freeing' = Freeing
    BY <1>2, <1>5 DEF SeesBegin, Begun
  <2>2. /\ op'[o] = x /\ (\A p \in Ops \ {o} : op'[p] = op[p]) /\ x.kind = op[o].kind
    BY <1>1, <2>1, OpChanges DEF BeginsWith, RecOK
  <2>3. o \notin Handled /\ o \notin Freeing
    BY <1>1, <2>1 DEF Life
  <2>4. \/ x.waits = 1 /\ x.kind = "post" /\ x.mem = "none"
        \/ x.waits = 1 /\ x.mem = "live" /\ x.moved = 0 /\ x.left = Nbytes[o]
        \/ x.waits = 0 /\ x.mem = "leaked"
    BY <2>1 DEF BeginsWith
  <2>5. ~Over(o)' /\ o \notin Handled'
    BY <2>1, <2>2, <2>3, <2>4, OverIs
  <2>6. Report(o)'
    BY <1>2, <2>1, <2>2, <2>4, <2>5 DEF Report
  <2>7. ASSUME NEW p \in Ops \ {o} PROVE Report(p)'
    BY <1>1, <2>1, <2>2, ReportSame
  <2> QED BY <2>6, <2>7 DEF ReportInv
<1>6. ASSUME NEW o, NEW x, SeesEnd(o, x) PROVE ReportInv'
  <2>1. /\ o \in Ops /\ o \in Handled /\ Outcome(o, x) /\ op' = [op EXCEPT ![o] = x]
        /\ Handled' = Handled \ {o} /\ Freeing' = Freeing \cup {o}
    BY <1>6 DEF SeesEnd
  <2>2. /\ op'[o] = x /\ (\A p \in Ops \ {o} : op'[p] = op[p])
        /\ x.waits = op[o].waits /\ x.kind = op[o].kind /\ x.moved \in Nat /\ x.left \in Nat
    BY <1>1, <2>1, OpChanges DEF Outcome, RecOK, OpRec
  <2>3. op[o].kind # "post" /\ op[o].waits > 0
    BY <1>1, <2>1 DEF Life
  <2>4. op[o].mem = "live" /\ o \notin Freeing /\ ~Over(o)
    BY <2>1, <2>3, NotOver
  <2>5. op[o].errc \in Documented(op[o].kind)
    BY <1>1, <2>1 DEF Report
  <2>6. x.errc \in Documented(x.kind)
    <3>1. ~Busy(o)
      BY <2>1 DEF Busy, EventInv, Owns
    <3>2. Refusals(o) \subseteq Documented(x.kind)
      BY <3>1 DEF Refusals, Documented
    <3>3. /\ x.errc \in {op[o].errc, "EIO_SYSERR", "EIO_EOF"} \cup Refusals(o)
          /\ x.errc = "EIO_EOF" => x.kind = "rw" \/ x.errc = op[o].errc
      BY <2>1 DEF Outcome
    <3> QED BY <2>2, <2>5, <3>2, <3>3 DEF Documented
  <2>7. /\ x.kind = "rw" => /\ x.moved + x.left = Nbytes[o]
                            /\ x.errc = "EIO_OK" => x.moved = Nbytes[o]
        /\ x.kind = "rw_some" /\ x.errc # "EIO_OK" => x.moved = 0
    <3>1. /\ op[o].kind = "rw" => op[o].moved + op[o].left = Nbytes[o]
          /\ op[o].kind = "rw_some" => op[o].moved = 0
      BY <1>1, <2>1, <2>3, <2>4 DEF Report
    <3>2. /\ x.kind = "rw" => /\ x.moved + x.left = op[o].moved + op[o].left
                              /\ x.errc = "EIO_OK" => x.left = 0
          /\ x.kind = "rw_some" /\ x.errc # "EIO_OK" => x.moved = op[o].moved
      BY <2>1 DEF Outcome
    <3>3. x.left = 0 => x.moved + x.left = x.moved
      BY <2>2
    <3> QED BY <2>2, <3>1, <3>2, <3>3
  <2>8. Report(o)'
    <3>1. Over(o)'
      BY <2>1, OverIs
    <3> QED BY <2>2, <2>6, <2>7, <3>1 DEF Report
  <2>9. ASSUME NEW p \in Ops \ {o} PROVE Report(p)'
    BY <1>1, <2>1, <2>2, ReportSame
  <2> QED BY <2>8, <2>9 DEF ReportInv
<1>7. ASSUME NEW o, NEW r, SeesAgain(o, r) PROVE ReportInv'
  <2> DEFINE x == Again(o, r)
  <2>1. /\ o \in Ops /\ o \in Handled /\ op[o].kind = "rw"
        /\ r \in 1..op[o].left /\ op[o].left - r # 0 /\ op' = [op EXCEPT ![o] = x]
        /\ Handled' = Handled \ {o} /\ Freeing' = Freeing
    BY <1>7 DEF SeesAgain
  <2>2. /\ RecOK(o, x) /\ x.mem = op[o].mem /\ x.moved + x.left = op[o].moved + op[o].left
    BY <1>1, <2>1, AgainRecord
  <2> HIDE DEF x
  <2>3. op'[o] = x /\ (\A p \in Ops \ {o} : op'[p] = op[p]) /\ x.kind = "rw"
    BY <1>1, <2>1, <2>2, OpChanges DEF RecOK
  <2>4. op[o].mem = "live" /\ o \notin Freeing /\ op[o].waits > 0
    BY <1>1, <2>1, NotOver DEF Life
  <2>5. ~Over(o)' /\ o \notin Handled'
    BY <2>1, <2>2, <2>3, <2>4, OverIs
  <2>6. Report(o)'
    BY <1>1, <2>1, <2>2, <2>3, <2>4, <2>5 DEF Report
  <2>7. ASSUME NEW p \in Ops \ {o} PROVE Report(p)'
    BY <1>1, <2>1, <2>3, ReportSame
  <2> QED BY <2>6, <2>7 DEF ReportInv
<1>8. ASSUME NEW o, NEW x, SeesFree(o, x) PROVE ReportInv'
  <2>1. /\ o \in Ops /\ o \in Freeing /\ o \notin Handled /\ RecOK(o, x)
        /\ x.waits = op[o].waits /\ x.mem = "freed" /\ x.errc = op[o].errc
        /\ x.moved = op[o].moved /\ x.left = op[o].left /\ op' = [op EXCEPT ![o] = x]
        /\ Handled' = Handled /\ Freeing' = Freeing \ {o}
    BY <1>8 DEF SeesFree
  <2>2. op'[o] = x /\ (\A p \in Ops \ {o} : op'[p] = op[p]) /\ x.kind = op[o].kind
    BY <1>1, <2>1, OpChanges DEF RecOK
  <2>3. Over(o) /\ Over(o)'
    BY <2>1, <2>2, OverIs
  <2>4. Report(o)'
    BY <1>1, <2>1, <2>2, <2>3 DEF Report
  <2>5. ASSUME NEW p \in Ops \ {o} PROVE Report(p)'
    BY <1>1, <2>1, <2>2, ReportSame
  <2> QED BY <2>4, <2>5 DEF ReportInv
<1> QED BY <1>3, <1>4, <1>5, <1>6, <1>7, <1>8 DEF OpView
-----------------------------------------------------------------------------
(* The theorems about operations.                                          *)

\* The inductive invariant.
IInv == TypeInv /\ OrderInv /\ LifeInv /\ EventInv /\ ReportInv

\* The invariant holds at first and is kept by every step.
LEMMA Inductive ==
  ASSUME AsyncProgramAssumption
  PROVE  /\ Init => IInv
         /\ IInv /\ [Next]_vars => IInv'
<1>1. ASSUME Init PROVE IInv
  <2>1. TypeInv /\ OrderInv /\ LifeInv
    BY <1>1, InitTypes, InitOrder, InitLife
  <2>2. \A o \in Ops : op[o].waits = 0 /\ op[o].mem = "none"
    BY <1>1 DEF Init, OpsInit
  <2>3. Handled = {} /\ Freeing = {}
    BY <1>1 DEF Init, Handled, Freeing, InProgress, FramesOf
  <2>4. \A o \in Ops : ~Owns(o)
    BY <2>1, <2>2 DEF LifeInv, OpLife, Numbered, Owns, Wait
  <2>5. EventInv
    BY <2>4 DEF EventInv
  <2>6. ReportInv
    BY <2>2, <2>3, OverIs DEF ReportInv, Report
  <2> QED BY <2>1, <2>5, <2>6 DEF IInv
<1>2. ASSUME IInv, [Next]_vars PROVE IInv'
  <2>1. TypeInv'
    BY <1>2, StepTypes DEF IInv
  <2>2. OrderInv'
    BY <1>2, <2>1, StepOrder DEF IInv
  <2>3. OpView /\ LifeInv'
    BY <1>2, <2>1, StepLife DEF IInv
  <2>4. EventInv'
    BY <1>2, <2>1, <2>3, StepEvents DEF IInv
  <2>5. ReportInv'
    <3>1. OpLife /\ Handled \cap Freeing = {}
      BY <1>2, HandledOrFreeing DEF IInv, TypeInv, LifeInv
    <3> QED BY <1>2, <2>1, <2>3, <3>1, StepReports DEF IInv
  <2> QED BY <2>1, <2>2, <2>3, <2>4, <2>5 DEF IInv
<1> QED BY <1>1, <1>2

\* Every reachable state satisfies the invariant.
LEMMA Invariance == Spec => []IInv
<1>1. Init => IInv
  BY Inductive, AsyncProgramAssumption
<1>2. IInv /\ [Next]_vars => IInv'
  BY Inductive, AsyncProgramAssumption
<1> QED BY <1>1, <1>2, PTL DEF Spec

\* The variables of the operations, the groups, the coroutine and the service keep
\* their types; in particular the counters of an operation stay within its buffer
\* (async_rdwr.c:45-50) and that of a group within its size_t (task_group.c:13).
THEOREM TypeCorrect == Spec => []TypeOK
<1>1. IInv => TypeOK
  <2> SUFFICES ASSUME IInv PROVE TypeOK
    OBVIOUS
  <2>1. TypeInv
    BY DEF IInv
  <2>2. \A o \in Ops : /\ op[o].kind \in Kinds[o]
                       /\ op[o].mem \in {"none", "live", "leaked", "freed"}
                       /\ {op[o].left, op[o].moved, op[o].at} \subseteq 0..Nbytes[o]
    BY <2>1 DEF TypeInv, OpsOK, OpRec, RecOK, AsyncOpsAssumption
  <2>3. \A g \in Groups : /\ group[g].mem \in {"none", "live", "freed"}
                          /\ group[g].remaining \in 0..SizeMax
    <3>1. SizeMax \in Nat
      BY AsyncProgramAssumption DEF AsyncProgramAssumption
    <3>2. \A g \in Groups : group[g] \in GroupRec /\ group[g].remaining <= SizeMax
      BY <2>1 DEF TypeInv, GroupsOK
    <3> QED BY <3>1, <3>2 DEF GroupRec
  <2> QED BY <2>1, <2>2, <2>3 DEF TypeOK, TypeInv, ServiceOK, CoOK
<1> QED BY <1>1, Invariance, PTL

\* Across partial transfers, cancellations and stops the bytes that a transfer
\* reports are the bytes it moved, and EIO_OK means all of them
\* (async_rdwr.c:20-31, 40-66).
THEOREM TransfersAlwaysExact == Spec => []TransferExact
<1>1. IInv => TransferExact
  <2> SUFFICES ASSUME IInv, NEW o \in Ops, op[o].waits > 0
               PROVE  /\ op[o].kind = "rw" =>
                            /\ op[o].moved + op[o].left = Nbytes[o]
                            /\ op[o].at = op[o].moved
                            /\ Over(o) /\ op[o].errc = "EIO_OK" => op[o].moved = Nbytes[o]
                      /\ op[o].kind = "rw_some" /\ Over(o) /\ op[o].errc # "EIO_OK" => op[o].moved = 0
    BY DEF TransferExact
  <2>1. Report(o) /\ RecOK(o, op[o])
    BY DEF IInv, ReportInv, TypeInv, OpsOK
  <2> QED BY <2>1 DEF Report, RecOK
<1> QED BY <1>1, Invariance, PTL

\* A completed operation reports a status documented for its kind; in particular a
\* transfer is never refused its own event between two partial transfers, which would be
\* EIO_INPROGRESS (async_rdwr.c:54-61).
THEOREM StatusAlwaysDocumented == Spec => []StatusDocumented
<1>1. IInv => StatusDocumented
  BY DEF IInv, ReportInv, Report, StatusDocumented
<1> QED BY <1>1, Invariance, PTL

\* A context is in memory exactly as long as the service or a running handler will
\* use it, and is freed once (async_rdwr.c:33-34, 53-69, async_net.c:34-35, 48-49).
THEOREM ContextsAlwaysExact == Spec => []ContextsExact
<1>1. IInv => ContextsExact
  <2> SUFFICES ASSUME IInv, NEW o \in Ops, op[o].kind # "post"
               PROVE  op[o].mem = "live" <=>
                         Wait(o) \in waiting \/ o \in InProgress(Impls \cup {"free_ctx"})
    BY DEF ContextsExact
  <2>1. o \in InProgress(Impls \cup {"free_ctx"}) <=> o \in Handled \/ o \in Freeing
    BY HandledOrFreeing DEF IInv, TypeInv, OpFns
  <2>2. Life(o)
    BY DEF IInv, LifeInv, OpLife
  <2> QED BY <2>1, <2>2 DEF Life
<1> QED BY <1>1, Invariance, PTL
=============================================================================
