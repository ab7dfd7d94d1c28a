----------------------------- MODULE IoService ------------------------------
(***************************************************************************)
(* The event loop of src/io_service.c with everything the handlers it      *)
(* calls may do to the service: iosvc_post, iosvc_post_delay, iosvc_sched, *)
(* iosvc_sched_timeout, iosvc_cancel, iosvc_stop, iosvc_reset, iosvc_run.  *)
(*                                                                         *)
(* The library has no threads; what interleaves are the steps of the loop  *)
(* and the calls made by the handlers it is in the middle of calling.  The *)
(* locals that the loop and iosvc_cancel hold across a callback (a place   *)
(* in the tree, a node, an index into pollfds, a pointer to the deadline   *)
(* heap) are therefore part of the state.                                  *)
(*                                                                         *)
(* Abstractions.  A node's storage is the three cells of EventMap, which   *)
(* FdNode implements, and a pollfd's events the set of types it holds. A   *)
(* deadline heap is the set of its entries and its front any entry with    *)
(* the least deadline, which DeadlineHeap implements; posted handlers are  *)
(* a sequence, which CBuffer implements.  Nodes and events can always be   *)
(* allocated.  Time is in ticks.                                           *)
(***************************************************************************)
EXTENDS RBTree, Sequences

CONSTANTS Types,        \* the io_wait_types used, a subset of WaitTypes
          Delays,       \* the milliseconds passed to the timed functions
          Faults,       \* the conditions poll may report unasked
          QuietErrors,  \* poll may report POLLERR and no other condition
          MayCall,      \* MayCall[c]: the functions called in context c
          MaxHandlers,  \* bound: handlers accepted in a behaviour
          MaxTime       \* bound: the clock and every deadline

WaitTypes == {"WAIT_READ", "WAIT_WRITE", "WAIT_EXCEPTION"}

\* Where client code runs: outside iosvc_run, or in a handler called because it
\* was posted, its delay passed, its event occurred, it timed out, it was
\* cancelled, or the service stops.
Contexts == {"main", "sync", "delay", "event", "timeout", "cancelled", "stopped"}
Calls    == {"post", "post_delay", "sched", "sched_timeout", "cancel", "stop",
             "reset", "run"}

ASSUME IoServiceAssumption ==
    /\ Types \subseteq WaitTypes
    /\ Delays \subseteq Nat
    /\ Faults \subseteq {"ERR", "HUP", "NVAL"}
    /\ "HUP" \in Faults => "WAIT_READ" \in Types    \* it is taken for a read
    /\ QuietErrors \in BOOLEAN
    /\ MayCall \in [Contexts -> SUBSET Calls]
    /\ MaxHandlers \in Nat /\ MaxTime \in Nat

NULL     == 0                    \* no handler
Handlers == 1..MaxHandlers
Slots    == 0..(Cardinality(Fds) - 1)
NoEvents == [ty \in Types |-> NULL]
NoPollfd == [fd |-> Nil, events |-> {}, revents |-> {}]
Dangling == [at |-> -2, dir |-> LEFT]     \* a place in freed memory

VARIABLES svc,      \* struct io_service
          now,      \* CLOCK_MONOTONIC
          pc,       \* the point that iosvc_run has reached
          loc,      \* the locals of iosvc_run and of the functions it calls
          cancels,  \* the places held by the calls of iosvc_cancel in progress
          nh,       \* how many handlers were accepted
          calls,    \* calls[h]: how often handler h was called
          told      \* what the handler being called was told

vars == <<svc, now, pc, loc, cancels, nh, calls, told>>

max0(n) == IF n > 0 THEN n ELSE 0

-----------------------------------------------------------------------------
(* Changes to the service that several functions make.                     *)

Scheduled(s, fd, ty) == s.evts[fd][ty] # NULL

\* iosvc_enqueue and reserve_evt_mem for an event that is not scheduled.  A new
\* node is put into *place a second time after rb_insert.
Enqueue(s, fd, ty, h) ==
    LET place == rb_probe(s.tree, RootPlace, fd)
        isNew == At(s.tree, place) = Nil
        slot  == IF isNew THEN s.npoll ELSE s.idx[fd]
        entry == IF isNew THEN [NoPollfd EXCEPT !.fd = fd] ELSE s.pvec[slot]
    IN  [s EXCEPT !.tree = IF isNew THEN Put(rb_insert(@, place, fd), place, fd)
                                    ELSE @,
                  !.evts[fd][ty] = h,
                  !.idx[fd]      = slot,
                  !.npoll        = IF isNew THEN @ + 1 ELSE @,
                  !.pvec[slot]   = [entry EXCEPT !.events = @ \cup {ty}]]

TimerOf(s, fd, ty) == {x \in s.timers : x.fd = fd /\ x.ty = ty}

\* A mutant of Dequeue: the heap entry is not popped.
DequeueKeepsTimer(s, fd, ty) ==
    [s EXCEPT !.evts[fd][ty] = NULL,
              !.pvec[s.idx[fd]].events = @ \ {ty}]

\* iosvc_dequeue.
Dequeue(s, fd, ty) ==
    [s EXCEPT !.evts[fd][ty] = NULL,
              !.timers = @ \ TimerOf(s, fd, ty),
              !.pvec[s.idx[fd]].events = @ \ {ty}]

\* Mutants of Cleanup: the vector is not shortened; the node of the pollfd that
\* moved keeps its index.
CleanupKeepsLength(s, place) ==
    LET n == At(s.tree, place)
    IN  [s EXCEPT !.tree    = rb_extract(@, place),
                  !.evts[n] = NoEvents,
                  !.pvec[s.idx[n]] = s.pvec[s.npoll - 1]]

CleanupKeepsIndex(s, place) ==
    LET n == At(s.tree, place)
    IN  [s EXCEPT !.tree    = rb_extract(@, place),
                  !.evts[n] = NoEvents,
                  !.pvec[s.idx[n]] = s.pvec[s.npoll - 1],
                  !.npoll   = @ - 1]

\* ioevt_cleanup_evt: the node at place is freed, and the last pollfd takes the
\* slot of the node's own.
Cleanup(s, place) ==
    LET n    == At(s.tree, place)
        slot == s.idx[n]
        last == s.npoll - 1
    IN  [s EXCEPT !.tree       = rb_extract(@, place),
                  !.evts[n]    = NoEvents,
                  !.pvec[slot] = s.pvec[last],
                  !.npoll      = last,
                  !.idx        = [@ EXCEPT ![n] = 0,
                                           ![s.pvec[last].fd] =
                                               IF slot < last THEN slot ELSE 0]]

\* What becomes of a place when node n is freed.
Freed(place, n) == IF place.at = n THEN Dangling ELSE place

\* pollfds[...].events == 0 for the node at a place.
NothingAwaited(s, n) == s.pvec[s.idx[n]].events = {}

\* What a handler finds in its status and remaining time.
NotCalled == [code |-> "NONE", left |-> 0, ms |-> 0, due |-> 0]

\* A mutant of Tell: the deadline in place of the time left.
TellDeadline(s, fd, ty, t, code) ==
    IF TimerOf(s, fd, ty) = {} THEN [NotCalled EXCEPT !.code = code]
    ELSE LET x == CHOOSE x \in TimerOf(s, fd, ty) : TRUE
         IN  [code |-> code, left |-> x.at, ms |-> x.ms, due |-> x.at]

Tell(s, fd, ty, t, code) ==
    IF TimerOf(s, fd, ty) = {} THEN [NotCalled EXCEPT !.code = code]
    ELSE LET x == CHOOSE x \in TimerOf(s, fd, ty) : TRUE
         IN  [code |-> code, left |-> max0(x.at - t), ms |-> x.ms, due |-> x.at]

Count(h) == calls' = [calls EXCEPT ![h] = IF @ = 2 THEN 2 ELSE @ + 1]

\* A NULL or freed pointer is dereferenced, or a search of the tree never ends.
Crash == pc' = "crashed" /\ UNCHANGED <<svc, now, loc, cancels, nh, calls, told>>

\* The search of fd's node does not end, the tree having a cycle.
SearchHangs(s, fd) == At(s.tree, rb_probe(s.tree, RootPlace, fd)) \notin {Nil, fd}

\* ioevt_cleanup_evt finds no node for the pollfd that it moved.
MovedIsLost(s, place) ==
    LET s2   == Cleanup(s, place)
        slot == s.idx[At(s.tree, place)]
        fd   == s2.pvec[slot].fd
    IN  slot < s2.npoll /\ At(s2.tree, rb_probe(s2.tree, RootPlace, fd)) # fd

\* The pointer at a place can be followed to a node.
Valid(place) == place # Dangling /\ At(svc.tree, place) # Nil

-----------------------------------------------------------------------------
(* Client code: outside iosvc_run, and in the handlers it calls.  A call   *)
(* that the service refuses and that changes nothing is no step.           *)

ClientPoints == {"main", "sync", "delay", "event", "timeout",
                 "stop_delay", "stop_event"}

Context == IF cancels # <<>> THEN "cancelled"
           ELSE IF pc \in {"stop_delay", "stop_event"} THEN "stopped" ELSE pc

May(call) == pc \in ClientPoints /\ call \in MayCall[Context]

\* A mutant of Accepts: a service that stops still accepts.
AcceptsUntilDone == svc.status # "DONE"

Accepts == svc.status \in {"READY", "RUNNING"}

\* The next handler is accepted and stored in the service s.
Accepted(s) == /\ nh < MaxHandlers
               /\ nh' = nh + 1
               /\ svc' = s
               /\ UNCHANGED <<now, pc, loc, cancels, calls, told>>

iosvc_post == /\ May("post")
              /\ Accepts
              /\ Accepted([svc EXCEPT !.sync = Append(@, nh + 1)])

iosvc_post_delay(ms) ==
    /\ May("post_delay")
    /\ Accepts
    /\ now + ms <= MaxTime
    /\ Accepted([svc EXCEPT !.delays = @ \cup {[h |-> nh + 1, at |-> now + ms]}])

iosvc_sched(fd, ty) ==
    /\ May("sched")
    /\ Accepts
    /\ ~Scheduled(svc, fd, ty)
    /\ IF SearchHangs(svc, fd) THEN Crash
       ELSE Accepted(Enqueue(svc, fd, ty, nh + 1))

\* dynarr_emplace_back on timed_events_heap, which may move the heap.
HeapFull   == Cardinality(svc.timers) = svc.cap
Emplace(s) == IF HeapFull THEN [s EXCEPT !.cap = IF @ = 0 THEN 1 ELSE 2 * @] ELSE s

iosvc_sched_timeout(fd, ty, ms) ==
    /\ May("sched_timeout")
    /\ Accepts
    /\ ~Scheduled(svc, fd, ty)
    /\ now + ms <= MaxTime
    /\ IF SearchHangs(svc, fd) THEN Crash
       ELSE Accepted([Enqueue(Emplace(svc), fd, ty, nh + 1) EXCEPT
                !.timers = @ \cup {[fd |-> fd, ty |-> ty, at |-> now + ms, ms |-> ms]}])

\* iosvc_sched_timeout makes room in the heap before iosvc_enqueue refuses, for
\* the status, the event being taken or lack of memory: the heap that
\* stop_async_ops is reading may move under it.
sched_timeout_refused ==
    /\ May("sched_timeout")
    /\ HeapFull
    /\ svc' = Emplace(svc)
    /\ \E moved \in BOOLEAN :
          loc' = [loc EXCEPT !.hp = @ /\ ~(moved /\ pc = "stop_event")]
    /\ UNCHANGED <<now, pc, cancels, nh, calls, told>>

\* iosvc_cancel up to the call of the handler; the time it passes on is 0.
iosvc_cancel(fd, ty) ==
    /\ May("cancel")
    /\ svc.status = "RUNNING"
    /\ Scheduled(svc, fd, ty)
    /\ At(svc.tree, rb_probe(svc.tree, RootPlace, fd)) # Nil
    /\ IF SearchHangs(svc, fd) THEN Crash
       ELSE /\ svc' = Dequeue(svc, fd, ty)
            /\ Count(svc.evts[fd][ty])
            /\ told' = Tell(svc, fd, ty, 0, "EIO_CANCELLED")
            /\ cancels' = <<rb_probe(svc.tree, RootPlace, fd)>> \o cancels
            /\ UNCHANGED <<now, pc, loc, nh>>

\* The rest of iosvc_cancel, when the cancelled handler returns.
cancel_return ==
    /\ pc \in ClientPoints
    /\ cancels # <<>>
    /\ LET place == Head(cancels)
           n     == At(svc.tree, place)
       IN  IF ~Valid(place) THEN Crash
           ELSE IF ~NothingAwaited(svc, n)
           THEN /\ cancels' = Tail(cancels)
                /\ told' = NotCalled
                /\ UNCHANGED <<svc, now, pc, loc, nh, calls>>
           ELSE IF MovedIsLost(svc, place) THEN Crash
           ELSE /\ svc' = Cleanup(svc, place)
                /\ cancels' = [k \in 1..(Len(cancels) - 1) |-> Freed(cancels[k + 1], n)]
                /\ loc' = [loc EXCEPT !.place = Freed(@, n),
                                      !.node = IF @ = n THEN Dangling.at ELSE @]
                /\ told' = NotCalled
                /\ UNCHANGED <<now, pc, nh, calls>>

SetStatus(call, from, to) ==
    /\ May(call)
    /\ svc.status = from
    /\ svc' = [svc EXCEPT !.status = to]
    /\ UNCHANGED <<now, loc, cancels, nh, calls, told>>

iosvc_stop  == SetStatus("stop", "RUNNING", "STOPPING") /\ UNCHANGED pc
iosvc_reset == SetStatus("reset", "DONE", "READY") /\ UNCHANGED pc
iosvc_run   == SetStatus("run", "READY", "RUNNING") /\ pc' = "loop"

\* Client code takes time.
Tick == /\ pc \in ClientPoints
        /\ now < MaxTime
        /\ now' = now + 1
        /\ UNCHANGED <<svc, pc, loc, cancels, nh, calls, told>>

Client == \/ iosvc_post
          \/ \E ms \in Delays : iosvc_post_delay(ms)
          \/ \E fd \in Fds, ty \in Types : iosvc_sched(fd, ty)
          \/ \E fd \in Fds, ty \in Types, ms \in Delays : iosvc_sched_timeout(fd, ty, ms)
          \/ sched_timeout_refused
          \/ \E fd \in Fds, ty \in Types : iosvc_cancel(fd, ty)
          \/ iosvc_stop
          \/ iosvc_reset
          \/ iosvc_run
          \/ Tick

-----------------------------------------------------------------------------
(* iosvc_run: the head of the loop.                                        *)

NoLocals == [i |-> 0, place |-> RootPlace, node |-> Nil, todo |-> <<>>,
             nval |-> FALSE, after |-> "loop", ct |-> 0,
             cur |-> [h |-> NULL, at |-> 0], walk |-> <<>>, hp |-> TRUE]

Idle == svc.npoll = 0 /\ svc.delays = {}

\* run_sync_handlers: the handler at the front is popped when it has returned.
call_sync ==
    /\ pc = "loop"
    /\ svc.sync # <<>>
    /\ pc' = "sync"
    /\ Count(Head(svc.sync))
    /\ UNCHANGED <<svc, now, loc, cancels, nh, told>>

sync_return ==
    /\ pc = "sync"
    /\ cancels = <<>>
    /\ pc' = "loop"
    /\ svc' = [svc EXCEPT !.sync = Tail(@)]
    /\ UNCHANGED <<now, loc, cancels, nh, calls, told>>

\* iosvc_run returns.
finish ==
    /\ pc = "loop"
    /\ svc.sync = <<>>
    /\ Idle
    /\ pc' = "main"
    /\ svc' = [svc EXCEPT !.status = "DONE"]
    /\ UNCHANGED <<now, loc, cancels, nh, calls, told>>

-----------------------------------------------------------------------------
(* iosvc_prep_stop.                                                        *)

prep_stop ==
    /\ pc = "loop"
    /\ svc.sync = <<>>
    /\ ~Idle
    /\ svc.status = "STOPPING"
    /\ pc' = "stop_delays"
    /\ UNCHANGED <<svc, now, loc, cancels, nh, calls, told>>

\* The delayed handlers, in the order of the heap array.  The array is cleared
\* after the last; nothing reads it before, so each is taken out when called.
stop_next_delay ==
    /\ pc = "stop_delays"
    /\ \E e \in svc.delays :
          /\ svc' = [svc EXCEPT !.delays = @ \ {e}]
          /\ Count(e.h)
          /\ told' = [NotCalled EXCEPT !.code = "EIO_STOPPED"]
    /\ pc' = "stop_delay"
    /\ UNCHANGED <<now, loc, cancels, nh>>

Visit(n) == IF n = Nil THEN <<>>
            ELSE <<[n |-> n, todo |-> {ty \in Types : Scheduled(svc, n, ty)},
                    free |-> FALSE]>>

\* The call of stop_async_ops: time and heap pointer are passed to it.
start_walk ==
    /\ pc = "stop_delays"
    /\ svc.delays = {}
    /\ pc' = "walk"
    /\ loc' = [NoLocals EXCEPT !.ct = now, !.walk = Visit(svc.tree.root)]
    /\ UNCHANGED <<svc, now, cancels, nh, calls, told>>

\* stop_handler for the next event of a node: inline and allocated storage may
\* hold a read and a write either way round, the exception comes last.
stop_next_event ==
    /\ pc = "walk"
    /\ loc.walk # <<>>
    /\ LET top == Head(loc.walk)
       IN  \E ty \in top.todo :
             /\ ty = "WAIT_EXCEPTION" => top.todo = {ty}
             /\ IF TimerOf(svc, top.n, ty) # {} /\ ~loc.hp THEN Crash
                ELSE /\ Count(svc.evts[top.n][ty])
                     /\ told' = Tell(svc, top.n, ty, loc.ct, "EIO_STOPPED")
                     /\ loc' = [loc EXCEPT !.walk[1].todo = @ \ {ty}]
                     /\ pc' = "stop_event"
                     /\ UNCHANGED <<svc, now, cancels, nh>>

\* stop_async_ops goes on to the children, and to free(node) after them.  A child
\* that was freed already (every node of the tree has an event) is a cycle.
walk_children ==
    /\ pc = "walk"
    /\ loc.walk # <<>>
    /\ LET top  == Head(loc.walk)
           kids == svc.tree.kid[top.n]
       IN  /\ ~top.free
           /\ top.todo = {}
           /\ IF \E d \in {LEFT, RIGHT} : kids[d] # Nil /\ svc.evts[kids[d]] = NoEvents
              THEN Crash
              ELSE /\ loc' = [loc EXCEPT !.walk = Visit(kids[LEFT]) \o Visit(kids[RIGHT]) \o
                                                  <<[top EXCEPT !.free = TRUE]>> \o Tail(@)]
                   /\ UNCHANGED <<svc, now, pc, cancels, nh, calls, told>>

walk_free ==
    /\ pc = "walk"
    /\ loc.walk # <<>>
    /\ Head(loc.walk).free
    /\ svc' = [svc EXCEPT !.evts[Head(loc.walk).n] = NoEvents]
    /\ loc' = [loc EXCEPT !.walk = Tail(@)]
    /\ UNCHANGED <<now, pc, cancels, nh, calls, told>>

end_walk ==
    /\ pc = "walk"
    /\ loc.walk = <<>>
    /\ svc' = [svc EXCEPT !.timers = {}, !.npoll = 0, !.tree = EmptyTree,
                          !.idx = [fd \in Fds |-> 0]]
    /\ loc' = NoLocals
    /\ pc' = "loop"
    /\ UNCHANGED <<now, cancels, nh, calls, told>>

\* A handler called by iosvc_prep_stop returns.
stop_return ==
    /\ pc \in {"stop_delay", "stop_event"}
    /\ cancels = <<>>
    /\ pc' = IF pc = "stop_delay" THEN "stop_delays" ELSE "walk"
    /\ told' = NotCalled
    /\ UNCHANGED <<svc, now, loc, cancels, nh, calls>>

Stopping == \/ prep_stop \/ stop_next_delay \/ start_walk \/ stop_next_event
            \/ walk_children \/ walk_free \/ end_walk \/ stop_return

-----------------------------------------------------------------------------
(* poll and what follows from it.                                          *)

\* What dynarr_front may give: any entry with the least deadline.  That the front of
\* the array is one is what DeadlineHeap is about.
Fronts(heap) == {x \in heap : \A y \in heap : x.at <= y.at}
Least(heap)  == (CHOOSE x \in Fronts(heap) : TRUE).at

\* A mutant of IsEvent: timed waits go ahead of delayed handlers.
EventsFirst == svc.timers # {}

\* next_deadline, with -1 for none, and its is_event.
IsEvent  == svc.timers # {} /\ (svc.delays = {} \/ Least(svc.timers) < Least(svc.delays))
Deadline == IF IsEvent THEN Least(svc.timers)
            ELSE IF svc.delays # {} THEN Least(svc.delays) ELSE -1

Polls == pc = "loop" /\ svc.sync = <<>> /\ ~Idle /\ svc.status # "STOPPING"

Flag(ty) == CASE ty = "WAIT_READ"      -> "IN"
              [] ty = "WAIT_WRITE"     -> "OUT"
              [] ty = "WAIT_EXCEPTION" -> "PRI"

\* poll: the conditions asked for and the ones reported unasked.  An invalid
\* descriptor has no other condition, a hung up one is not writable, and an
\* error makes it readable and writable too unless QuietErrors.
Reports(events) ==
    {r \in SUBSET ({Flag(ty) : ty \in events} \cup Faults) :
        /\ "NVAL" \in r => r = {"NVAL"}
        /\ "HUP" \in r => "OUT" \notin r
        /\ "ERR" \in r /\ ~QuietErrors =>
              {Flag(ty) : ty \in events \ {"WAIT_EXCEPTION"}} \subseteq r}

Polled(r) == [svc EXCEPT !.pvec = [k \in Slots |->
                 IF k < svc.npoll THEN [svc.pvec[k] EXCEPT !.revents = r[k]]
                                  ELSE svc.pvec[k]]]

\* timeout_first for the timed event x, up to the call of its handler.
TimeoutEvent(s, x, t, after) ==
    /\ svc' = Dequeue(s, x.fd, x.ty)
    /\ Count(s.evts[x.fd][x.ty])
    /\ told' = [Tell(s, x.fd, x.ty, t, "EIO_TIMEOUT") EXCEPT !.left = 0]
    /\ loc' = [NoLocals EXCEPT !.node = x.fd, !.after = after, !.ct = t]
    /\ pc' = "timeout"

\* timeout_first for the delayed handler e, which stays in the heap meanwhile.
TimeoutDelay(s, e, t, after) ==
    /\ svc' = s
    /\ Count(e.h)
    /\ told' = [NotCalled EXCEPT !.code = "EIO_OK", !.due = e.at]
    /\ loc' = [NoLocals EXCEPT !.cur = e, !.after = after, !.ct = t]
    /\ pc' = "delay"

Dispatch(s, t) ==
    /\ svc' = s
    /\ loc' = [NoLocals EXCEPT !.ct = t]
    /\ pc' = "scan"
    /\ UNCHANGED <<calls, told>>

\* is_top_event_ready, for the front x of the heap.
ReadyMask(ty) == {Flag(ty)} \cup (IF ty = "WAIT_EXCEPTION" THEN {} ELSE {"ERR"})
                            \cup (IF ty = "WAIT_READ" THEN {"HUP"} ELSE {})
TopReady(s, x) == s.pvec[s.idx[x.fd]].revents \cap ReadyMask(x.ty) # {}

\* poll fails: the service stops at the next round.
poll_fails ==
    /\ Polls
    /\ svc' = [svc EXCEPT !.status = "STOPPING"]
    /\ UNCHANGED <<now, pc, loc, cancels, nh, calls, told>>

\* poll returns 0 at time t.
poll_expires(t) ==
    /\ Polls
    /\ Deadline # -1
    /\ t >= Deadline /\ t >= now
    /\ now' = t
    /\ LET s == Polled([k \in Slots |-> {}])
       IN  IF IsEvent THEN \E x \in Fronts(s.timers) : TimeoutEvent(s, x, t, "loop")
                      ELSE \E e \in Fronts(s.delays) : TimeoutDelay(s, e, t, "loop")
    /\ UNCHANGED <<cancels, nh>>

\* poll returns at time t with the reports r, or is interrupted (EINTR) and then
\* reports nothing: the code makes no difference.
poll_returns(t) ==
    /\ Polls
    /\ t >= now
    /\ now' = t
    /\ \E r \in [Slots -> UNION {Reports(svc.pvec[k].events) : k \in Slots}] :
          /\ \A k \in Slots : IF k < svc.npoll THEN r[k] \in Reports(svc.pvec[k].events)
                                               ELSE r[k] = {}
          /\ LET s == Polled(r)
             IN  IF Deadline = -1 \/ t < Deadline THEN Dispatch(s, t)
                 ELSE IF ~IsEvent
                 THEN \E e \in Fronts(s.delays) : TimeoutDelay(s, e, t, "scan")
                 ELSE \E x \in Fronts(s.timers) :
                        IF TopReady(s, x) THEN Dispatch(s, t)
                        ELSE TimeoutEvent(s, x, t, "scan")
    /\ UNCHANGED <<cancels, nh>>

\* The rest of timeout_first, when the handler of a timed event returns.
timeout_return ==
    /\ pc = "timeout"
    /\ cancels = <<>>
    /\ LET place == rb_ref_to_this(svc.tree, loc.node)
       IN  IF loc.node = Dangling.at THEN Crash
           ELSE IF NothingAwaited(svc, loc.node) /\ MovedIsLost(svc, place) THEN Crash
           ELSE /\ svc' = IF NothingAwaited(svc, loc.node) THEN Cleanup(svc, place) ELSE svc
                /\ loc' = [NoLocals EXCEPT !.ct = loc.ct]
                /\ pc' = loc.after
                /\ told' = NotCalled
                /\ UNCHANGED <<now, cancels, nh, calls>>

\* A mutant of TopDelay: the last entry is popped and not moved to the front.
LastDelay == IF Cardinality(svc.delays) = 1 THEN svc.delays ELSE svc.delays \ {loc.cur}

\* What is at the front of the heap of delayed handlers after the callback: the
\* handler called, unless another has a smaller deadline now.
TopDelay == IF loc.cur \in Fronts(svc.delays) THEN {loc.cur} ELSE Fronts(svc.delays)

\* ... and when a delayed handler returns: the front of the heap is removed.
delay_return ==
    /\ pc = "delay"
    /\ cancels = <<>>
    /\ \E e \in TopDelay : svc' = [svc EXCEPT !.delays = @ \ {e}]
    /\ loc' = [NoLocals EXCEPT !.ct = loc.ct]
    /\ pc' = loc.after
    /\ told' = NotCalled
    /\ UNCHANGED <<now, cancels, nh, calls>>

-----------------------------------------------------------------------------
(* dispatch_ready_events.                                                  *)

Entry == svc.pvec[loc.i]

\* The flags in pollfd.events, of which POLLERR is one while a read or a write
\* is awaited.
EventFlags(events) ==
    {Flag(ty) : ty \in events} \cup
    (IF events \cap {"WAIT_READ", "WAIT_WRITE"} # {} THEN {"ERR"} ELSE {})

\* A mutant of Ready: an error counts as readable.
ReadyOnError(e) ==
    (IF "PRI" \in e.revents THEN <<"WAIT_EXCEPTION">> ELSE <<>>) \o
    (IF e.revents \cap {"IN", "HUP", "ERR"} # {} THEN <<"WAIT_READ">> ELSE <<>>) \o
    (IF "OUT" \in e.revents THEN <<"WAIT_WRITE">> ELSE <<>>)

\* The types whose handlers are to be called for an entry of pollfds.  (The code
\* reads events for loneError after the exception's handler; it makes no
\* difference, since POLLERR is never the only flag: FdNode!InterestExact.)
Ready(e) ==
    LET hasRead   == e.revents \cap {"IN", "HUP"} # {}
        hasWrite  == "OUT" \in e.revents
        loneError == /\ ~hasRead /\ ~hasWrite /\ "ERR" \in e.revents
                     /\ EventFlags(e.events) \ {"PRI"} = {"ERR"}
    IN  (IF "PRI" \in e.revents THEN <<"WAIT_EXCEPTION">> ELSE <<>>) \o
        (IF loneError \/ hasRead THEN <<"WAIT_READ">> ELSE <<>>) \o
        (IF hasWrite THEN <<"WAIT_WRITE">> ELSE <<>>)

scan_end ==
    /\ pc = "scan"
    /\ loc.i >= svc.npoll
    /\ loc' = NoLocals
    /\ pc' = "loop"
    /\ UNCHANGED <<svc, now, cancels, nh, calls, told>>

scan_entry ==
    /\ pc = "scan"
    /\ loc.i < svc.npoll
    /\ IF SearchHangs(svc, Entry.fd) THEN Crash
       ELSE /\ loc' = [loc EXCEPT
                 !.place = rb_probe(svc.tree, RootPlace, Entry.fd),
                 !.nval  = "NVAL" \in Entry.revents,
                 !.todo  = IF "NVAL" \in Entry.revents
                           THEN SelectSeq(<<"WAIT_READ", "WAIT_WRITE", "WAIT_EXCEPTION">>,
                                          LAMBDA ty : ty \in Types)
                           ELSE Ready(Entry)]
            /\ pc' = "entry"
            /\ UNCHANGED <<svc, now, cancels, nh, calls, told>>

\* iosvc_dequeue(*place, ...) and the call of the handler it returns.  For an
\* invalid descriptor the types still awaited are looked up before each call.
call_event ==
    /\ pc = "entry"
    /\ loc.todo # <<>>
    /\ loc.nval => Head(loc.todo) \in Entry.events
    /\ LET n  == At(svc.tree, loc.place)
           ty == Head(loc.todo)
       IN  IF ~Valid(loc.place) THEN Crash
           ELSE IF ~Scheduled(svc, n, ty) THEN Crash
           ELSE /\ svc' = Dequeue(svc, n, ty)
                /\ Count(svc.evts[n][ty])
                /\ told' = Tell(svc, n, ty, loc.ct,
                                IF loc.nval THEN "EIO_INVARG" ELSE "EIO_OK")
                /\ loc' = [loc EXCEPT !.todo = Tail(@)]
                /\ pc' = "event"
                /\ UNCHANGED <<now, cancels, nh>>

skip_event ==
    /\ pc = "entry"
    /\ loc.todo # <<>>
    /\ loc.nval /\ Head(loc.todo) \notin Entry.events
    /\ loc' = [loc EXCEPT !.todo = Tail(@)]
    /\ UNCHANGED <<svc, now, pc, cancels, nh, calls, told>>

event_return ==
    /\ pc = "event"
    /\ cancels = <<>>
    /\ pc' = "entry"
    /\ told' = NotCalled
    /\ UNCHANGED <<svc, now, loc, cancels, nh, calls>>

\* A mutant of StillAwaited: the node of an invalid descriptor always goes.
AwaitedIfValid == Entry.events # {} /\ ~loc.nval

\* The handlers of the entry left, or added, events to wait for.
StillAwaited == Entry.events # {}

\* A mutant of NextIndex: the loop does not advance.
SameIndex == loc.i

\* An invalid descriptor's entry is looked at again.
NextIndex == IF loc.nval THEN loc.i ELSE loc.i + 1

\* The end of a round of the loop over pollfds: an entry that is removed leaves
\* its index to the one that moves there.
entry_done ==
    /\ pc = "entry"
    /\ loc.todo = <<>>
    /\ LET s    == IF loc.nval THEN [svc EXCEPT !.pvec[loc.i].revents = {}] ELSE svc
           done == [NoLocals EXCEPT !.ct = loc.ct, !.i = loc.i]
       IN  IF StillAwaited
           THEN /\ svc' = s
                /\ loc' = [done EXCEPT !.i = NextIndex]
                /\ pc' = "scan"
                /\ UNCHANGED <<now, cancels, nh, calls, told>>
           ELSE IF ~Valid(loc.place) THEN Crash
           ELSE IF MovedIsLost(s, loc.place) THEN Crash
           ELSE /\ svc' = Cleanup(s, loc.place)
                /\ loc' = done
                /\ pc' = "scan"
                /\ UNCHANGED <<now, cancels, nh, calls, told>>

-----------------------------------------------------------------------------
Init ==
    /\ svc = [status |-> "READY", sync |-> <<>>, delays |-> {}, timers |-> {},
              cap |-> 0, tree |-> EmptyTree,
              evts |-> [fd \in Fds |-> NoEvents], idx |-> [fd \in Fds |-> 0],
              pvec |-> [k \in Slots |-> NoPollfd], npoll |-> 0]
    /\ now = 0
    /\ pc = "main"
    /\ loc = NoLocals
    /\ cancels = <<>>
    /\ nh = 0
    /\ calls = [h \in Handlers |-> 0]
    /\ told = NotCalled

Poll == \/ poll_fails
        \/ \E t \in 0..MaxTime : poll_expires(t)
        \/ \E t \in 0..MaxTime : poll_returns(t)

Returns == cancel_return \/ sync_return \/ timeout_return \/ delay_return \/ event_return

Dispatching == call_sync \/ finish \/ scan_end \/ scan_entry \/ call_event \/ skip_event
               \/ entry_done

\* The client does nothing more, or the process has crashed.
Done == pc \in {"main", "crashed"} /\ UNCHANGED vars

Next == Client \/ Returns \/ Dispatching \/ Stopping \/ Poll \/ Done

Spec == Init /\ [][Next]_vars

\* Handlers return, the loop goes on, and the clock does not stand still: a poll
\* that is given a deadline is not interrupted before it for ever.
PollAfterDeadline ==
    \E t \in 0..MaxTime : t >= Deadline /\ (poll_expires(t) \/ poll_returns(t))

FairSpec == /\ Spec
            /\ WF_vars(Returns \/ Dispatching \/ Stopping)
            /\ SF_vars(Polls /\ Deadline # -1 /\ PollAfterDeadline)

-----------------------------------------------------------------------------
TypeOK ==
    /\ svc.status \in {"READY", "RUNNING", "STOPPING", "DONE"}
    /\ svc.sync \in Seq(Handlers)
    /\ svc.delays \subseteq [h : Handlers, at : 0..MaxTime]
    /\ svc.timers \subseteq [fd : Fds, ty : Types, at : 0..MaxTime, ms : Delays]
    /\ svc.evts \in [Fds -> [Types -> Handlers \cup {NULL}]]
    /\ svc.npoll \in 0..Cardinality(Fds)
    /\ svc.idx \in [Fds -> Slots]
    /\ now \in 0..MaxTime
    /\ nh \in 0..MaxHandlers
    /\ calls \in [Handlers -> 0..2]

\* The loop and iosvc_cancel never follow a NULL or freed pointer, never call a
\* handler that is not there, and every search of the tree ends: what was looked
\* up before a callback is still good after it (io_service.c:210-219, 245-295,
\* iosvc_cancel.c:23-32).
NoCrash == pc # "crashed"

\* The same of a client that cancels only where nothing is held, with the one
\* exception that poll makes: a hang-up, which it reports unasked, of a descriptor
\* on which no read is scheduled (io_service.c:273, 284).
OnlyHangupsCrash ==
    pc = "crashed" => /\ loc.todo # <<>> /\ Head(loc.todo) = "WAIT_READ"
                      /\ "HUP" \in Entry.revents
                      /\ ~Scheduled(svc, Entry.fd, "WAIT_READ")

\* No accepted handler is called a second time: not by the front of the delay
\* heap being called before it is removed (io_service.c:226-232), nor by the
\* walk over the tree that stops all events (io_service.c:80-100).
CalledAtMostOnce == \A h \in Handlers : calls[h] <= 1

\* Whenever poll is called, the vector it gets and the tree describe the same
\* set of descriptors: each with exactly one pollfd, at the index its node
\* holds, asking for exactly the types with a handler (iosvc_sched.c:170-191,
\* iosvc_dequeue.c:50-63, 71-88).
PollSetExact ==
    Polls => \A fd \in Fds :
        LET awaited == {ty \in Types : Scheduled(svc, fd, ty)}
            slots   == {k \in Slots : k < svc.npoll /\ svc.pvec[k].fd = fd}
            found   == At(svc.tree, rb_probe(svc.tree, RootPlace, fd))
        IN  IF awaited = {} THEN slots = {} /\ found = Nil
            ELSE /\ slots = {svc.idx[fd]}
                 /\ found = fd
                 /\ svc.pvec[svc.idx[fd]].events = awaited

\* An entry of the deadline heap refers to a handler that still waits, and no
\* handler has two, until stop_async_ops frees the nodes ahead of clearing the
\* heap (iosvc_sched.c:225-236, iosvc_dequeue.c:16-38).
TimersLive ==
    pc \notin {"walk", "stop_event"} =>
    /\ \A x \in svc.timers : Scheduled(svc, x.fd, x.ty)
    /\ \A x, y \in svc.timers : x.fd = y.fd /\ x.ty = y.ty => x = y

\* Timed handlers are called in the order of their deadlines and none before its
\* own, although handlers and waits have a heap each and the handler called may
\* add to both (next_deadline, io_service.c:147-169, 343-346).
EarliestFirst ==
    pc \in {"timeout", "delay"} /\ cancels = <<>> =>
        /\ told.due <= now
        /\ \A x \in svc.timers \cup svc.delays : told.due <= x.at

\* The remaining time that a handler is given was really left when poll last
\* returned (or the service began to stop): never more than was asked for, and
\* nothing only once the deadline has passed (io_service.c:65-66, 206-209,
\* iosvc_dequeue.c:22-25).  Two kinds of handlers are apart: cancelled ones, and
\* those of an invalid descriptor, which may be called in the very round of the
\* loop they were scheduled in, with the time before that.
RemainingTime ==
    told.code \notin {"EIO_CANCELLED", "EIO_INVARG"} =>
        /\ told.left <= told.ms
        /\ told.left = 0 => told.due <= now

\* Every wait has a deadline.
AllTimed == \A fd \in Fds, ty \in Types :
                Scheduled(svc, fd, ty) => TimerOf(svc, fd, ty) # {}

\* As long as every wait has a deadline, iosvc_run is on its way back to its caller
\* (README.md:39: "returns when all pending handlers have been called").
RunReturns == (pc = "loop") ~> (pc = "main" \/ ~AllTimed)

-----------------------------------------------------------------------------
(* The contract with the client.                                           *)

Called == {h \in Handlers : calls[h] > 0}
Stored == {svc.sync[k] : k \in DOMAIN svc.sync} \cup {e.h : e \in svc.delays} \cup
          ({svc.evts[fd][ty] : fd \in Fds, ty \in Types} \ {NULL})

Contract == INSTANCE ServiceContract WITH
    status  <- svc.status,
    waiting <- Stored \ Called,
    called  <- Called

\* The event loop keeps the contract: no handler is dropped without being called
\* (by freeing its node, by a heap losing it, by stopping), none is accepted
\* while the service stops, and iosvc_run returns only when none is left.
KeepsContract == Contract!Spec
=============================================================================
