----------------------------- MODULE Coroutine ------------------------------
(***************************************************************************)
(* A function whose body is an async block of include/coroutine.h, written *)
(* as its documentation shows:                                             *)
(*    async (ctx->state) { ... await {...} ... await {...} ... }           *)
(*    if (coro_is_done(ctx->state)) do_cleanup();                          *)
(* with co_return anywhere between two awaits.  The labels of the awaits   *)
(* are 1 to NumAwaits, in the order of the text.                           *)
(***************************************************************************)
EXTENDS CallStack

CONSTANT NumAwaits

VARIABLE co   \* the coroutine's context

DONE == -1    \* coro_is_done

CoHandler == Frame("coro", 0)

\* The context is not freed: nothing is said of a coroutine after that.
Usable == co.mem = "live"

\* The block is entered at the label in state, and runs to the next await: state
\* becomes its label, and the statement after await is executed.
CoAwaits ==
    /\ Running("coro") /\ Usable
    /\ co.state # DONE /\ co.state < NumAwaits
    /\ co' = [co EXCEPT !.state = @ + 1,
                        !.nested = @ \/ FramesOf({"await"}) # {}]
    /\ Becomes(<<Frame("await", co.state + 1)>>)

\* ... or to its end, or to a co_return.  A coroutine that is done does nothing.
CoEnds ==
    /\ Running("coro") /\ Usable
    /\ co' = [co EXCEPT !.state = DONE,
                        !.nested = @ \/ FramesOf({"await"}) # {}]
    /\ Becomes(<<Frame("after", 0)>>)

\* A mutant of StateAfterAwait: the end of an await ends the block as a loop.
StateDone == DONE

\* The statement after await has been executed, and perhaps the coroutine entered
\* again in the course of it: the block is left with the state as it is.
StateAfterAwait == co.state

CoSuspends ==
    /\ Running("await") /\ Usable
    /\ co' = [co EXCEPT !.state = StateAfterAwait]
    /\ Becomes(<<Frame("after", 0)>>)

\* What follows the block.
CoAfter ==
    /\ Running("after") /\ Usable
    /\ co' = IF co.state = DONE THEN [co EXCEPT !.mem = "freed"] ELSE co
    /\ Returns

CoInit == co = [state |-> 0, mem |-> "live", nested |-> FALSE]
=============================================================================
