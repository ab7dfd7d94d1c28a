------------------------------ MODULE AsyncOps ------------------------------
(***************************************************************************)
(* src/async_rdwr.c and src/async_net.c: an operation is a context on the  *)
(* heap that waits for an event, does what it can when called, and waits   *)
(* again or calls the client's handler and is freed.  The service is its   *)
(* contract: each wait of an operation is a handler of ServiceContract.    *)
(*                                                                         *)
(* Reads and writes differ only in the system call and the event.  What is *)
(* transferred is counted in bytes.  A plain iosvc_post of the client's    *)
(* handler is an operation too, without a context.                         *)
(***************************************************************************)
EXTENDS CallStack

CONSTANTS Ops,     \* the operations
          Kinds,   \* Kinds[o]: what o may be, of OpKinds
          Event,   \* Event[o]: the descriptor and type that o waits for
          Nbytes   \* Nbytes[o]: the length of its buffer

OpKinds == {"rw", "rw_some", "accept", "connect", "post"}

ASSUME AsyncOpsAssumption ==
    /\ Kinds \in [Ops -> SUBSET OpKinds]
    /\ Nbytes \in [Ops -> Nat]

VARIABLES status, waiting, called,  \* the service: see ServiceContract
          op                        \* op[o]: the operation's context

svcVars == <<status, waiting, called>>

\* The wait that o is, or was last, in: each has a number.
Wait(o) == <<o, op[o].waits>>

Waits == Ops \X Nat

Svc == INSTANCE ServiceContract WITH Handlers <- Waits

-----------------------------------------------------------------------------
(* The service, as an operation sees it.                                   *)

\* A mutant of Busy: an event is taken until its operation is over.
BusyTillFreed(o) == \E p \in Ops : Event[p] = Event[o] /\ op[p].mem = "live"

Busy(o) == \E p \in Ops \ {o} : /\ Event[p] = Event[o] /\ op[p].kind # "post"
                                /\ Wait(p) \in waiting

Accepting == status \in {"READY", "RUNNING"}

\* iosvc_sched accepts the wait number k of o ...
Accepted(o, k) == Svc!Accept(<<o, k>>) /\ ~Busy(o)

\* ... or, when o was called just now and waits again, returns one of these.  It
\* is not EIO_NOMEM: the node and the cell that o was dequeued from are still
\* there (FdNode, RewaitNeedsNoMemory).
Refusals(o) == IF ~Accepting THEN {"EIO_STOPPED"}
               ELSE IF Busy(o) THEN {"EIO_INPROGRESS"} ELSE {}

\* The service calls o with a status, from the loop or from iosvc_cancel.  A stop
\* in the middle of a round of the loop lets the rest of the round be called with
\* EIO_OK.
Statuses == {"EIO_OK", "EIO_INVARG"} \cup
            (IF status = "RUNNING" THEN {"EIO_CANCELLED"} ELSE {"EIO_STOPPED"})

Entry(o) == CASE op[o].kind = "rw"      -> Frame("rw_impl", o)
              [] op[o].kind = "rw_some" -> Frame("rw_some_impl", o)
              [] op[o].kind = "accept"  -> Frame("accept_impl", o)
              [] op[o].kind = "connect" -> Frame("connect_impl", o)
              [] op[o].kind = "post"    -> op[o].hnd

call_op(o, code) ==
    /\ Svc!Call(Wait(o))
    /\ op' = [op EXCEPT ![o].errc = IF op[o].kind = "post" THEN @ ELSE code]
    /\ stack' = <<Entry(o)>> \o stack

-----------------------------------------------------------------------------
(* Beginning an operation.                                                 *)

Fresh(o, hnd) == [op[o] EXCEPT !.mem = "live", !.hnd = hnd, !.left = Nbytes[o],
                               !.moved = 0, !.at = 0]

\* async_rw_sched, async_accept and async_connect make a context and wait; when
\* the wait is refused the context is left behind.
begin_async(o, hnd) ==
    /\ op[o].kind # "post"
    /\ \/ /\ Accepted(o, 1)
          /\ op' = [op EXCEPT ![o] = [Fresh(o, hnd) EXCEPT !.waits = 1]]
       \/ /\ op' = [op EXCEPT ![o] = [Fresh(o, hnd) EXCEPT !.mem = "leaked"]]
          /\ UNCHANGED svcVars

\* There is no memory for the context, or connect fails at once and it is freed.
begin_fails(o) ==
    /\ op[o].kind # "post"
    /\ UNCHANGED <<op, svcVars>>

\* iosvc_post of a handler, which it refuses if its callback is NULL.
begin_post(o, hnd) ==
    /\ op[o].kind = "post"
    /\ \/ /\ hnd # NullHandler
          /\ Svc!Accept(<<o, 1>>)
          /\ op' = [op EXCEPT ![o].waits = 1, ![o].hnd = hnd]
       \/ UNCHANGED <<op, svcVars>>

Begin(o, hnd) == begin_async(o, hnd) \/ begin_fails(o) \/ begin_post(o, hnd)

-----------------------------------------------------------------------------
(* The handlers of the operations.                                         *)

\* A mutant of Completes: the context is not freed.
CompletesOnly(o, x) ==
    /\ op' = [op EXCEPT ![o] = x]
    /\ Becomes(<<x.hnd>>)
    /\ UNCHANGED svcVars

\* ctx->hnd.callback(ctx->hnd.ctx); free(ctx);
Completes(o, x) ==
    /\ op' = [op EXCEPT ![o] = x]
    /\ CallsThen(x.hnd, Frame("free_ctx", o))
    /\ UNCHANGED svcVars

With(o, code) == [op[o] EXCEPT !.errc = code]
Told(o)       == op[o].errc

\* What read, write, accept or getsockopt made of the operation: external.
rw_some_impl ==
    /\ Running("rw_some_impl")
    /\ \/ Told(This) # "EIO_OK" /\ Completes(This, op[This])
       \/ Told(This) = "EIO_OK" /\ Completes(This, With(This, "EIO_SYSERR"))
       \/ /\ Told(This) = "EIO_OK"
          /\ \E r \in 0..Nbytes[This] : Completes(This, [op[This] EXCEPT !.moved = r])

\* A mutant of Transferred: the buffer is not advanced.
TransferredInPlace(x, r) == [x EXCEPT !.moved = @ + r, !.left = @ - r]

\* A mutant of Transferred: what is left is not counted down.
TransferredAgain(x, r) == [x EXCEPT !.moved = @ + r, !.at = @ + r]

Transferred(x, r) == [x EXCEPT !.moved = @ + r, !.left = @ - r, !.at = @ + r]

\* After a partial transfer, the operation waits for its event again.
rw_impl ==
    /\ Running("rw_impl")
    /\ \/ Told(This) # "EIO_OK" /\ Completes(This, op[This])
       \/ Told(This) = "EIO_OK" /\ Completes(This, With(This, "EIO_SYSERR"))
       \/ Told(This) = "EIO_OK" /\ Completes(This, With(This, "EIO_EOF"))
       \/ /\ Told(This) = "EIO_OK"
          /\ \E r \in 1..op[This].left :
                LET x == Transferred(op[This], r)
                IN  IF x.left = 0 THEN Completes(This, x)
                    ELSE \/ /\ Accepted(This, x.waits + 1)
                            /\ op' = [op EXCEPT ![This] = [x EXCEPT !.waits = @ + 1]]
                            /\ Returns
                         \/ \E code \in Refusals(This) :
                                Completes(This, [x EXCEPT !.errc = code])

\* accept_impl and connect_impl.
net_impl ==
    /\ Running("accept_impl") \/ Running("connect_impl")
    /\ \/ Completes(This, op[This])
       \/ Told(This) = "EIO_OK" /\ Completes(This, With(This, "EIO_SYSERR"))

free_ctx ==
    /\ Running("free_ctx")
    /\ op' = [op EXCEPT ![This].mem = "freed"]
    /\ Returns
    /\ UNCHANGED svcVars

OpSteps == rw_some_impl \/ rw_impl \/ net_impl \/ free_ctx

OpsInit ==
    /\ \E k \in [Ops -> OpKinds] :
          /\ \A o \in Ops : k[o] \in Kinds[o]
          /\ op = [o \in Ops |-> [kind |-> k[o], mem |-> "none", hnd |-> NullHandler,
                                  left |-> 0, moved |-> 0, at |-> 0,
                                  errc |-> "NONE", waits |-> 0]]
=============================================================================
