----------------------------- MODULE CallStack ------------------------------
(***************************************************************************)
(* The calls in progress above the event loop.  Operations, task groups    *)
(* and coroutines call one another as handlers, and each has something to  *)
(* do when the handler it called returns; a frame is what is left to do.   *)
(***************************************************************************)
EXTENDS Integers, Sequences

VARIABLE stack  \* the frames, the running one first

\* An io_handler is the frame that calling it pushes; a NULL callback is a frame
\* that nothing can execute.
FrameAt(fn, on, step) == [fn |-> fn, on |-> on, step |-> step]
Frame(fn, on)         == FrameAt(fn, on, 0)
NullHandler           == Frame("NULL", 0)

Running(fn) == stack # << >> /\ Head(stack).fn = fn
This        == Head(stack).on

\* The frames of some functions, and what they work on.
FramesOf(fns)   == {k \in DOMAIN stack : stack[k].fn \in fns}
InProgress(fns) == {stack[k].on : k \in FramesOf(fns)}

\* The running frame is replaced by the frames fs; it returns; it calls handler h
\* and is f when that returns.
Becomes(fs)     == stack' = fs \o Tail(stack)
Returns         == Becomes(<< >>)
CallsThen(h, f) == Becomes(<<h, f>>)
=============================================================================
