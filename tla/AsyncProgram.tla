---------------------------- MODULE AsyncProgram ----------------------------
(***************************************************************************)
(* The upper layers together, as task_group.h and test/testsem.c use them: *)
(* a coroutine that in each of its awaits makes a task group of several    *)
(* operations and is resumed when the last of them completes, on a service *)
(* that keeps its contract, may be stopped at any time, and is short of    *)
(* memory at any time.  In an await block the coroutine may also cancel an *)
(* operation, whose handler is then called before the block is left.       *)
(***************************************************************************)
EXTENDS AsyncOps, TaskGroup, Coroutine, FiniteSets

CONSTANT Tasks   \* Tasks[k]: the operations of the k-th await, a sequence

\* An operation is what one call begins, and so a task of one await.  num_tasks is
\* a size_t.
ASSUME AsyncProgramAssumption ==
    /\ Tasks \in Seq(Seq(Ops))
    /\ \A g, h \in DOMAIN Tasks : \A j \in DOMAIN Tasks[g], k \in DOMAIN Tasks[h] :
          Tasks[g][j] = Tasks[h][k] => g = h /\ j = k
    /\ 0 \notin Ops
    /\ NumAwaits = Len(Tasks)
    /\ Groups = 1..NumAwaits
    /\ SizeMax \in Nat /\ \A g \in Groups : Len(Tasks[g]) <= SizeMax

vars == <<svcVars, op, group, co, stack>>

\* The loop of iosvc_run, between two handlers.
InLoop == stack = << >>

\* The coroutine is posted before the service runs; its first call.
Start == <<0, 1>>

call_start ==
    /\ InLoop
    /\ Svc!Call(Start)
    /\ stack' = <<CoHandler>>
    /\ UNCHANGED <<op, group, co>>

\* The loop calls an operation, or another handler cancels it.
loop_calls(o) ==
    /\ InLoop
    /\ \E code \in Statuses : call_op(o, code)
    /\ UNCHANGED <<group, co>>

co_resumes == (CoAwaits \/ CoEnds) /\ UNCHANGED <<svcVars, op, group>>

\* The body of the k-th await: the group is made, and then each operation begun.
\* What those calls return is not looked at.
Step     == Head(stack).step
TasksNow == Tasks[This]

await_begins ==
    /\ Running("await") /\ Usable
    /\ Step = 0
    /\ make_task_group(This, Len(TasksNow), CoHandler)
    /\ Becomes(<<FrameAt("await", This, 1)>>)
    /\ UNCHANGED <<svcVars, op, co>>

await_task ==
    /\ Running("await") /\ Usable
    /\ Step \in 1..Len(TasksNow)
    /\ Begin(TasksNow[Step], GroupHandler(This))
    /\ Becomes(<<FrameAt("await", This, Step + 1)>>)
    /\ UNCHANGED <<group, co>>

await_cancels(o) ==
    /\ Running("await") /\ Usable
    /\ status = "RUNNING"
    /\ op[o].kind # "post"
    /\ call_op(o, "EIO_CANCELLED")
    /\ UNCHANGED <<group, co>>

await_ends ==
    /\ Running("await")
    /\ Step > Len(TasksNow)
    /\ CoSuspends
    /\ UNCHANGED <<svcVars, op, group>>

op_runs    == OpSteps /\ UNCHANGED <<group, co>>
group_runs == GroupSteps /\ UNCHANGED <<svcVars, op, co>>
co_returns == CoAfter /\ UNCHANGED <<svcVars, op, group>>

\* main, and iosvc_stop by the coroutine or by any other handler.
iosvc_run   == Svc!Run /\ UNCHANGED <<op, group, co, stack>>
iosvc_stop  == /\ InLoop \/ Running("await")
               /\ Svc!Stop
               /\ UNCHANGED <<op, group, co, stack>>
run_returns == InLoop /\ Svc!Finish /\ UNCHANGED <<op, group, co, stack>>

Init == /\ OpsInit /\ GroupsInit /\ CoInit
        /\ status = "READY" /\ waiting = {Start} /\ called = {}
        /\ stack = << >>

HandlerSteps == co_resumes \/ await_begins \/ await_task \/ await_ends
                \/ op_runs \/ group_runs \/ co_returns

Next == \/ HandlerSteps
        \/ call_start \/ \E o \in Ops : loop_calls(o) \/ await_cancels(o)
        \/ iosvc_run \/ iosvc_stop \/ run_returns

Spec == Init /\ [][Next]_vars

\* Handlers return, and a service that stops calls what waits.  Nothing is
\* assumed about readiness, nor that the service is ever stopped.
FairSpec == /\ Spec
            /\ WF_vars(HandlerSteps)
            /\ WF_vars(status = "STOPPING" /\ \E o \in Ops : loop_calls(o))

-----------------------------------------------------------------------------
Impls == {"rw_impl", "rw_some_impl", "accept_impl", "connect_impl"}

TypeOK ==
    /\ status \in {"READY", "RUNNING", "STOPPING", "DONE"}
    /\ waiting \cup called \subseteq Waits \cup {Start}
    /\ \A o \in Ops : /\ op[o].kind \in Kinds[o]
                      /\ op[o].mem \in {"none", "live", "leaked", "freed"}
                      /\ {op[o].left, op[o].moved, op[o].at} \subseteq 0..Nbytes[o]
    /\ \A g \in Groups : /\ group[g].mem \in {"none", "live", "freed"}
                         /\ group[g].remaining \in 0..SizeMax
    /\ co.state \in {DONE} \cup 0..NumAwaits
    /\ co.mem \in {"live", "freed"}

\* The operation's handler was, or is being, called.
Over(o) == op[o].mem = "freed" \/ o \in InProgress({"free_ctx"})

\* Across partial transfers, and whatever ends them, the bytes reported are the
\* bytes moved, each to its own place in the buffer, and EIO_OK means all of them
\* ("exactly `nbytes`", async_rdwr.h:88-91); an operation for some bytes reports
\* none with an error (async_rdwr.c:20-31, 40-66).
TransferExact ==
    \A o \in Ops : op[o].waits > 0 =>
        /\ op[o].kind = "rw" =>
              /\ op[o].moved + op[o].left = Nbytes[o]
              /\ op[o].at = op[o].moved
              /\ Over(o) /\ op[o].errc = "EIO_OK" => op[o].moved = Nbytes[o]
        /\ op[o].kind = "rw_some" /\ Over(o) /\ op[o].errc # "EIO_OK" => op[o].moved = 0

\* The statuses documented for each kind of operation (async_rdwr.h:30-41,
\* 112-125, 155-168, async_net.h:31-42, 70-82).
Documented(kind) ==
    {"EIO_OK", "EIO_INVARG", "EIO_CANCELLED", "EIO_STOPPED", "EIO_SYSERR"}
        \cup (IF kind = "rw" THEN {"EIO_EOF"} ELSE {})

\* The status of a completed operation is one of those documented for it.  In
\* particular a transfer never loses its event to another one between two partial
\* transfers: iosvc_sched's EIO_INPROGRESS would become its status
\* (async_rdwr.c:54-61).
StatusDocumented ==
    \A o \in Ops : op[o].kind # "post" /\ Over(o) => op[o].errc \in Documented(op[o].kind)

\* An operation's context is in memory exactly as long as the service or a running
\* handler will use it: it is freed once, after its handler has returned, never
\* used afterwards, and never left behind by an operation whose first wait was
\* accepted (async_rdwr.c:33-34, 53-69, async_net.c:34-35, 48-49).
ContextsExact ==
    \A o \in Ops : op[o].kind # "post" =>
        (op[o].mem = "live" <=>
            Wait(o) \in waiting \/ o \in InProgress(Impls \cup {"free_ctx"}))

\* The tasks of group g that have called it.
Reported(o) == /\ op[o].waits > 0
               /\ Wait(o) \in called
               /\ o \notin InProgress(Impls)
ReportedTo(g) == {k \in DOMAIN Tasks[g] : Reported(Tasks[g][k])}
CallsOf(g)    == {k \in FramesOf({"task_group_callback"}) : stack[k].on = g}

\* A group's counter is the number of its tasks that have yet to call it, those
\* that were refused included; the group is there for each of those calls, and
\* its handler is called at 0 only (task_group.c:10-17).
GroupCountsTasks ==
    \A g \in Groups :
        /\ group[g].mem = "live" =>
              group[g].remaining = Len(Tasks[g]) - Cardinality(ReportedTo(g))
                                                 + Cardinality(CallsOf(g))
        /\ CallsOf(g) # {} => group[g].mem = "live"
        /\ g \in InProgress({"free_group"}) =>
              group[g].mem = "live" /\ group[g].remaining = 0

\* "`EIO_INVARG` The supplied handler's callback function is `NULL`"
\* (async_rdwr.h:24, async_net.h:24): an operation whose first wait was accepted
\* has a handler.  It does not hold: the handler that iosvc_sched looks at is the
\* operation's own, and the NULL one that make_task_group returns without memory
\* is stored and called (task_group.c:22-23, async_rdwr.c:84, 93-96).
NullHandlersRefused == \A o \in Ops : op[o].waits > 0 => op[o].hnd # NullHandler

\* A NULL callback is called only if a group could not be allocated, and by a task
\* of that group (task_group.c:22-23).
NullCallsExplained ==
    Running("NULL") => \E g \in Groups : group[g].mem = "none" /\ ReportedTo(g) # {}

\* Unless the coroutine was entered again inside one of its own awaits, by a
\* cancellation there, its context is used by nothing once it was cleaned up, and
\* so it is cleaned up once (coroutine.h:36-37, 93-96).
CleanedUpOnce ==
    ~co.nested /\ FramesOf({"coro", "await", "after"}) # {} => co.mem = "live"

\* A coroutine gets past an await only when each operation of its group has
\* completed, be it by partial transfers, by cancellation inside the await, or by
\* a stop (coroutine.h:83-98, task_group.c:13-14).
ResumesAfterAll ==
    [][co.state \in 1..NumAwaits /\ co'.state # co.state =>
          ReportedTo(co.state) = DOMAIN Tasks[co.state]]_vars

\* A coroutine that is suspended with all its operations accepted is resumed by a
\* stop of the service (io_service.h:62-63).  One whose operations were refused in
\* part stays suspended for ever.
Accepteds(g) == {k \in DOMAIN Tasks[g] : op[Tasks[g][k]].waits > 0}

StopResumes ==
    \A g \in Groups :
        /\ status = "STOPPING" /\ co.state = g
        /\ group[g].mem = "live" /\ Accepteds(g) = DOMAIN Tasks[g]
        ~> co.state # g
=============================================================================
