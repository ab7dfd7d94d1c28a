# A TLA+ model of IO-Engine

IO-Engine is a single-threaded event loop in C over `poll(2)`. Client code
schedules completion handlers on an `io_service`; `iosvc_run` calls each of them
once, when it is posted, its delay passes, its descriptor becomes ready, it times
out, it is cancelled, or the service stops. Handlers call back into the service
while the loop is in the middle of calling them. That re-entrance is what makes
the code hard: there are no threads, but every local variable that is kept across a
callback can be out of date after it.

## Inventory

| component | state | operations | what makes it correct |
|---|---|---|---|
| event loop, `io_service.c` | `status`, the five containers below; locals of `iosvc_run` and its helpers | `iosvc_run`, `iosvc_stop`, `iosvc_reset`, internally `run_sync_handlers`, `next_deadline`, `timeout_first`, `dispatch_ready_events`, `iosvc_prep_stop` | each accepted handler is called exactly once; nothing is followed that a callback freed; the run returns only when nothing is left, and does return |
| scheduling, `iosvc_sched.c`, `iosvc_post.c` | - | `iosvc_sched`, `iosvc_sched_timeout`, `iosvc_post`, `iosvc_post_delay` | refused without effect when stopping or when the event is taken |
| cancellation, `iosvc_cancel.c` | its `place`, across the callback | `iosvc_cancel` | the handler is called once, told the time left, and the node goes with its last event |
| dequeueing, `iosvc_dequeue.c` | - | `iosvc_dequeue`, `ioevt_cleanup_evt` | tree, pollfd vector and deadline heap stay in step |
| node storage, `rbnode.h`, `iosvc_sched.c` | `main_event`, `aux_event`, `ex_event`, `main_ev_type`, `pollfd.events` | reserve, vacate, steal | three independent cells; the mask is exactly what they hold |
| red-black tree, `rbtree.c` | parent/colour word, children | `rb_probe`, `rb_insert`, `rb_extract`, `rb_ref_to_this` | searchable, exact parent pointers, balanced |
| deadline heaps, `heaputils.c`, `*_heap_entry.c` | arrays, and for waits the index kept in `event_data` | sift up, sift down, swap | front is least; index and entry are inverse |
| circular buffer `cbuffer.c`, dynamic array `dynarray.c` | begin, end, capacity | push, pop, growth | a queue; a vector |
| semaphore, task group | count and list of handlers; counter | wait, signal, delete; callback | no handler lost, one wake-up per signal; handler after the last task |
| `async_rdwr.c`, `async_net.c` | a heap-allocated context per operation | read, write, accept, connect | completes once, transfers all or says why not, frees its context |
| `coroutine.h` | a resumption label | `async`, `await`, `co_return` | resumes after the await that suspended |

Interaction is by direct calls and callbacks: the higher layers (semaphore, task
groups, asynchronous operations, coroutines) only ever call the public functions of
the service, and the service calls their handlers.

Hard behaviour: (1) state read before a callback and used after it; (2) vectors and
trees that are changed while something iterates over them; (3) several containers
that describe the same wait (tree node, pollfd, deadline entry) and must change
together; (4) deadlines that pass in the same poll that reports readiness; (5) what
`poll` reports unasked (`POLLERR`, `POLLHUP`, `POLLNVAL`), and a `poll` that fails;
(6) stopping with everything pending. `PROJECT.json` lists the hazards by line.

## Modules

* `EventMap`: what one descriptor's node promises: three independent cells and a
  poll interest that is exactly the set of cells in use.
* `FdNode`: the node as it is stored. One action per operation: `iosvc_enqueue`
  (with `reserve_rd_wr` and `reserve_evt_mem`), `iosvc_dequeue`,
  `ioevt_cleanup_evt`, `stop_async_ops`. Cells hold a handler, `NULL` (vacated) or
  `NoMem` (never allocated); the flags of the mask are kept in the groups that the
  code sets and clears together. Implements `EventMap`.
* `RBTree`: `rbtree.c` as operators on a tree value. Pointers are descriptors, an
  `rb_place` is the name of the pointer it points to (node and side, or the root).
  A loop is a recursive function with enough rounds to end; a loop of the code that does not end
  is seen as a search whose result is neither the key nor NULL.
* `RBTreeLib`: any sequence of insertions and extractions.
* `ServiceContract`: what an `io_service` promises its client.
* `IoService`: the event loop with all client calls. Implements `ServiceContract`.
* `MCIoService`: the clients (`MayCall`: which functions are called in which kind of
  handler) of the instances below.
* `DeadlineSet`: what a deadline heap promises: a set of entries with a least one in
  front. `DeadlineHeap`: both heaps of the service as arrays, `kind` telling which;
  an operation is one action up to the sifting, one per round of `heap_sift_up_idx`
  or `heap_sift_down_idx`, and one for the pop in between. `idx` is `ddl_heap_idx`.
  Implements `DeadlineSet`, which is what `IoService` uses. `MCDeadlineHeap` adds
  the symmetry of events.
* `HandlerQueue`: a queue whose head is being called. `CBuffer`: `sync_handlers` as
  memory with `begin`, `end` and a count; pointers are offsets in objects. Implements
  `HandlerQueue`; `IoService` uses a sequence.
* `CountingSemaphore`, `IoSemaphore`, `MCIoSemaphore`: a counting semaphore, and
  `io_semaphore.c` on a service that is `ServiceContract`: `iosvc_post` is the
  contract's `Accept`, or is refused (stopped, NULL callback, no memory at any time).
  `dropped` records whom a refusal concerned; the code forgets them.
* `CallStack`: the upper layers call one another as handlers and go on when the
  handler returns; a frame is what a function has left to do, and an `io_handler` is
  the frame that calling it pushes.
* `AsyncOps`: `async_rdwr.c` and `async_net.c`. `op[o]` is the context of an
  operation: in memory or not, what is left of `nbytes`, `*transferred`, how far `buf`
  was advanced, `*errc`. Each `iosvc_sched` of it is one handler of the contract. What
  `read`, `write`, `accept`, `connect` and `getsockopt` return is any possible result.
* `TaskGroup`: `task_group.c`. `Coroutine`: an `async` block, with the labels of its
  awaits numbered; `co_return` may be anywhere.
* `AsyncProgram`, `MCAsyncProgram`: these together, in the way `task_group.h` shows:
  a coroutine that in each await makes a group of operations.
* `FdNode_proof`, `CBuffer_proof`, `DeadlineHeap_proof`, `IoSemaphore_proof`: the proofs
  about these modules. `AsyncProgram_proof`: those about the operations;
  `AsyncGroups_proof` goes on with task groups and the coroutine. `IoService_proof`: those
  about the event loop; `IoServiceCalls_proof` goes on with handlers and the contract.

How they fit: `IoService` implements `ServiceContract`, on which the semaphore and the
operations stand; `FdNode`, `DeadlineHeap` and `CBuffer` implement what `IoService`
uses in place of a node's storage, a heap and the buffer; `RBTree` it uses as it is.

### State of IoService and the code

`svc` is `struct io_service`: `sync` (`sync_handlers`, a sequence), `delays`
(`timed_handlers_heap`) and `timers` (`timed_events_heap`) as sets of entries,
`tree` (`async_handlers`), `evts` (the cells of each node, as in `EventMap`), `idx`
(`pollfd_idx`), `pvec` and `npoll` (`pollfds`; a slot past the end keeps its old
contents, as memory does), `cap` (the capacity of `timed_events_heap`) and `status`.
`pc` is where `iosvc_run` is, `loc` holds the locals that survive a callback
(`place`, `node`, the index `i`, the handlers still to be called, `completion_time`,
the recursion of `stop_async_ops`, whether its heap pointer is good) and `cancels`
the places held by the calls of `iosvc_cancel` that are in progress. `calls` and
`told` record what handlers observe: how often they were called, and the status and
remaining time they were given.

Every function is split where it calls a handler, and only there; all client calls
may happen at such a point, including nested cancellations. A NULL or freed pointer
that is followed leads to `pc = "crashed"`.

`poll` is modelled from its use: any subset of the conditions asked for and of
`Faults`, an invalid descriptor reporting nothing else, a hang-up excluding
writability, an error coming with readability and writability unless `QuietErrors`.
It may fail, be interrupted (reported as no condition, which the code treats like a
return) or expire. Time is a tick counter that client code and `poll` advance.

Left out of `IoService`: allocations of nodes and events that fail (a refusal changes
nothing but the capacity of a heap, except where noted under "Not modelled"); NULL
callbacks and out-of-range event types (refused at once); `iosvc_delete`; the 32-bit
cut of times.

## Runs

Passing:

| run | instance | what it shows |
|---|---|---|
| `fdnode` | 3 handlers | `TypeOK`, `NoOrphanHandler`, `InterestExact`, that the node implements `EventMap`, and that an event just delivered can be scheduled again without memory (`RewaitNeedsNoMemory`). A node has three cells, so three handlers tell all of them apart. |
| `rbtree` | 10 descriptors, 23 239 states | No pointer to a freed node, every key found, exact parent pointers, both red-black rules, up to the extraction of a shape that `rb_extract` gets wrong ("Met on the way"). It is about `rbtree.c` alone; what the service writes around it is in `IoService`. Ten keys are the fewest for which every branch of `fix_insert` and `fix_delete` is taken, the climb of `fix_delete` past a black node below the root included. |
| `dispatch` | 2 descriptors, 3 event types, `ERR`, `HUP` and `NVAL`, 3 handlers, no time | `OnlyHangupsCrash`, `PollSetExact`, `KeepsContract`. Two descriptors are enough for the last pollfd to move into the slot of a removed one in the middle of an iteration; three handlers for one to be added to, or left on, a descriptor whose others are being called. |
| `deadlines` | 2 descriptors, read and write, delays 0 and 1, clock 0..1, 3 handlers, 473 380 states | `CalledAtMostOnce`, `TimersLive`, `EarliestFirst`, `RemainingTime`, `KeepsContract`, and `RunReturns` under `FairSpec`. Two ticks give deadlines before, at and after the clock, equal ones included. The client waits without a timeout from handlers that timed out only (`MostlyTimedClient`), so that timed and untimed waits meet and most behaviours must return. |
| `heap` | 6 events, 3 deadlines, 42 762 states up to symmetry | `IndexExact`, `OutOfOrderOnlyAtIndex`, `FrontYieldsToEarlier`, `ImplementsDeadlineSet`. Six entries make three levels, with a node that has one child only, and let a removal move the last entry into another subtree; three deadlines give less, equal and greater. |
| `cbuffer` | 2 handlers, at most 5 in the buffer | `FrontIsCurrent`, `ImplementsQueue`. Five handlers need capacities 1, 2, 4 and 8: growth from nothing, and at each offset of a wrapped buffer. |
| `semaphore` | 4 handlers, one of them NULL, initial values -1 to 1, units up to 3 | `InOnePlace`, `UnitsConserved`, `ImplementsSemaphore`, and `ReleasedAreCalled` under `FairSpec`. The value passes through negative, zero and positive, with several handlers on the list. |
| `async_program` | 2 awaits of 2 operations, 251 112 states | `TransferExact`, `StatusDocumented`, `ContextsExact`, `GroupCountsTasks`, `CleanedUpOnce`, `ResumesAfterAll`, `StopResumes`. Of the operations, three wait for the same event; buffers of 0, 1 and 2 bytes give an empty, a whole and a partial transfer. `StatusDocumented` has for each kind of operation the statuses that its header lists (`Documented`): `EIO_EOF` for transfers of an exact size only, and `EIO_NOMEM` for none. The run may stop for good: `iosvc_run` returns, a NULL handler is called, or a coroutine is entered whose context was freed. |

The clients of the `IoService` runs that pass schedule and post from every handler,
stop from every handler, and cancel from posted handlers only, where the loop holds
neither a place in the tree nor a report of `poll` (`CarefulClient`; `MostlyTimedClient`
makes a part of its calls); while the service stops they make every call but
`iosvc_sched_timeout`, whose refusal may move the heap that is being read. With two
descriptors no insertion rotates the tree. These restrictions are there because of the
runs below, and because of what "Met on the way" says.

Violations, each a finding in `PROJECT.json`:

| run | property | what happens |
|---|---|---|
| `quiet_error` | `RunReturns` | `POLLERR` alone calls no handler and suppresses the timeout: the loop spins. |
| `cancel_in_callback` | `NoCrash` | A timed-out handler cancels its descriptor's other wait; the node is freed under `timeout_first`. |
| `insert_rotation` | `CalledAtMostOnce` | Descriptors 3, 7, 5: `*place` is written again after the double rotation and the tree has a cycle. |
| `null_handler` | `NullHandlersRefused` | The operations accept the NULL handler that `make_task_group` returns without memory, where `async_rdwr.h:24` and `async_net.h:24, 62` document `EIO_INVARG`, and call it when they complete. |

Met on the way, without a run of their own:

* `POLLHUP` with only a write awaited: `dispatch_ready_events` dequeues a read that is
  not there (`io_service.c:273, 284`). `OnlyHangupsCrash` says that with two descriptors
  this is the only bad pointer that a careful client's loop follows.
* `timeout_first` runs before the reports of the same `poll` are dispatched: a delayed
  handler that cancels a wait `poll` has reported leaves a report without a handler,
  and one that waits for it again inherits the old report.
* A cancelled wait is told its absolute deadline as remaining time: `iosvc_cancel.c:24`
  passes 0 for the current time (`io_service.h:200-201` promises the time left).
  `RemainingTime` leaves cancelled handlers out.
* `rb_extract`: `rb_probe` resets the parent that was just set when the predecessor is
  the left child (`rbtree.c:239`). If the predecessor is black the repair goes on with a
  NULL parent: the tree loses its balance, and a son of the predecessor that moves up is
  left under the new node with a NULL parent. `rb_ref_to_this` takes that son for
  the root, so that a timeout on its descriptor extracts the root in its stead. Four
  descriptors and no rotation are enough: insert 5, 3, 7, 1 and extract 5. The run
  `rbtree` takes no step after such an extraction (`intact`) and says nothing of the
  trees that follow; the event loop is checked and proved with two descriptors, where
  it cannot happen.
* A handler called by `dispatch_ready_events` that schedules a third descriptor may
  rotate the tree under the `place` its caller holds.
* A wait scheduled by a timeout handler on a descriptor with a pending report is
  dispatched in the same round, with the clock from before it was scheduled
  (`RemainingTime` leaves invalid descriptors out for that reason).
* `iosvc_stop` returns `EIO_NOENTRY` where the header says `EIO_INVARG`.
* `iosvc_dequeue` marks an entry with the deadline -1 to move it to the top, and
  `iosvc_sched_timeout` accepts negative timeouts: deadlines are taken to be natural
  numbers (`DeadlineHeapAssumption`).
* `iosem_wait` on a semaphore without units puts a handler on the list whatever its
  callback and the service's status, where `io_semaphore.h:35-38` documents refusals;
  a wait or a signal that is refused later has used up its unit; `iosem_delete` after
  the service has stopped drops the handlers (the order in `test/testsem.c:70-71`).
* The context of an operation is lost when its first wait is refused (`async_rdwr.c:93`,
  `async_net.c:68, 101`); `ContextsExact` leaves such a context out.
* `EIO_NOMEM`, which `async_rdwr.h` does not have among the statuses, is not one that a
  transfer can end with, although `rw_impl` reports whatever its next
  `iosvc_sched` returns (`async_rdwr.c:54-61`): the descriptor's node is there until
  its handler returns, and the event's own cell, just vacated, takes the handler without
  `malloc`. `RewaitNeedsNoMemory` says so of every state of a node.
* A task that is refused never calls its group: the coroutine stays suspended, and a
  stop does not resume it (`StopResumes` is about groups accepted in full).
* A coroutine that cancels inside its own await an operation that completes its group
  is entered again there; the outer run then goes on with the state of the inner one,
  whose context may be freed (`CleanedUpOnce` leaves that out, `co.nested`; without
  it TLC finds the case).
* A transfer of 0 bytes that `async_read` or `async_write` begins ends with `EIO_EOF`.

### Bounds

`MaxHandlers` bounds the handlers accepted in a behaviour, `MaxTime` the clock and
every deadline, `MaxElems` the handlers in the buffer, `MaxSignals` the units of a
semaphore; all are in the guards. `calls` is counted up to 2. Without a bound on
handlers, a handler that posts itself again keeps `run_sync_handlers` going for ever,
and `RunReturns` does not hold. `deadlines` has no faults, for its size: with `NVAL` among them,
where the entry of an invalid descriptor is looked at again without advancing,
`RunReturns` holds too (704 796 states). `SizeMax` stands for `SIZE_MAX` where the counter
of a group would wrap.

### Fairness

`FairSpec` has weak fairness on the steps of the loop and on the return of handlers
(a single thread runs them; that handlers return is an assumption on the client),
and strong fairness on a poll that ends at or after the deadline it was given: the
clock advances, and polls are not interrupted before the deadline for ever. Nothing
is assumed about readiness, and none of the client's calls is fair. `RunReturns` says
that a run in progress returns, or comes to hold a wait without a timeout, which nothing
has to end.

The semaphore's `FairSpec`: the loop of `iosem_delete` goes on, a client runs a service
that is ready and has handlers, and a running service calls them (they are posted, so
nothing has to become ready). The program's: handlers return, and a service that stops
calls what waits (`iosvc_prep_stop`). Whether an operation becomes ready, or the
service is ever stopped, is left open.

## Proofs

TLAPS checks these for every value of the constants that satisfies the assumptions,
which are stated in the modules and evaluated by TLC in the runs. The inductive
invariants `NodeInv`, `BufferInv`, `HeapInv`, `SemaphoreInv` and `GroupInv` were checked
with TLC on the instances of the runs before they were proved; `Inv` and `CallsInv` of
the event loop on instances like those of `dispatch` and `deadlines`, with a client that
makes every call that `Careful` allows (448 524 and 930 722 states).

### Node storage: `FdNode_proof`

For every set of handlers:

* `TypeCorrect`, `NoHandlerOrphaned`, `InterestIsExact`: `Spec => []TypeOK`,
  `[]NoOrphanHandler`, `[]InterestExact`;
* `RewaitsWithoutMemory`: `Spec => RewaitNeedsNoMemory`, an action property;
* `NodeInvariant`: `Spec => []NodeInv`, on which they rest;
* `NodeImplementsEventMap`: `Spec => Abstract!Spec`.

The only assumption is that `NULL`, `NoMem` and handlers are different
(`FdNodeAssumption`). `InterestExact` is not inductive by itself: whether dequeueing
one event leaves the others visible depends on `main_ev_type` being `EMPTY` only
when neither read nor write is stored, which is `NoOrphanHandler`; and stealing a
cell is harmless only if what is stolen is vacated, which needs the types. Their
conjunction `NodeInv` is inductive. The lemmas `EnqueueStores` and `DequeueVacates`
say what an operation does to every cell of the mapping, `EnqueueInterest` and
`DequeueInterest` what it does to the mask; the refinement theorem combines them.

With that theorem `IoService` may use three independent cells for a node's storage.

### The buffer: `CBuffer_proof`

`TypeCorrect`, `PlacesAlwaysAgree`, `FrontStaysCurrent`, and `BufferImplementsQueue`:
`Spec => Abstract!Spec`, for any handlers and any bound on their number, and so every
capacity. Assumed: memory that was never written differs from a handler.

That the front is the handler being called survives growth only if growth copies every
handler, and a push only if the place it writes is not an occupied one. Both need
`PlacesAgree`: `end` is the place `nelems` behind `begin`, modulo the capacity, and the
places between hold handlers. `BufferInv` adds it. `GrowthUnwraps` says what the two
`memcpy`s leave at each place, `PostAppends` and `PopShifts` what a push and a pop do
to the contents as a sequence; these are the steps of the queue.

### The heaps: `DeadlineHeap_proof`

For any events and deadlines that are natural numbers (`iosvc_dequeue` marks with -1):
`TypeCorrect`, `IndexAlwaysExact`, `AlwaysOneEntryEach`, `OrderKept`
(`OutOfOrderOnlyAtIndex`), the action property `FrontKeeps`, and
`HeapImplementsDeadlineSet`: `Spec => Abstract!Spec`.

`HeapInv` is inductive: in the middle of a loop only the entry at its index may be out
of order, *and* the children of that entry are not before its parent
(`BelowParentOf`), without which one swap would spoil the subtree it leaves. That the
removal of an event drops this event's entry needs `OneEntryEach`: the marker -1 is
held by the entry to be removed and by no other, so it rises to the root. A removal
swaps first and last, and the sift down begins with a root that has no parent to
compare with. `RiseKeepsOrder` and `SinkKeepsOrder` say what one round does to an array
of numbers; `RootIsLeast`, that the front of an ordered array is least, is proved by
the least counterexample (`LeastNatural`, from the library's `WFMin`), which avoids an
induction over levels. `SwapExchanges` is what makes `idx` follow each swap.

### The semaphore: `IoSemaphore_proof`

For any handlers, initial values (negative too) and number of signals:
`AlwaysInOnePlace`, `UnitsAlwaysConserved`, `TypeCorrect`, and
`SemaphoreImplementsCounting`: `Spec => Abstract!Spec`. `SemaphoreInv` adds to the
properties that finitely many handlers have asked for a unit: the units given are
counted by a cardinality. `InOnePlace` keeps that count from changing when a handler
moves from the list to the service. `PushOne` and `TakeOne` are what a push and a pop
do to the set of a list without repetitions.

### Operations, groups and the coroutine: `AsyncProgram_proof`, `AsyncGroups_proof`

For any operations, of any kinds and buffer sizes, any number of awaits and of tasks
in each: all invariants of the run and its action property, and `NullCallsExplained`: a
NULL handler is called only for a group that had no memory.

* `AsyncProgram_proof`: `TypeCorrect`, `TransfersAlwaysExact`,
  `StatusAlwaysDocumented`, `ContextsAlwaysExact`.
* `AsyncGroups_proof`: `GroupsAlwaysCount`, `NullCallsAlwaysExplained`,
  `AlwaysCleanedUpOnce`, `AlwaysResumesAfterAll`.

Assumed (`AsyncProgramAssumption`): an operation is a task of one await only, once, as
the client's code has one status and buffer for each; `num_tasks` is a `size_t`
(`Len(Tasks[g]) <= SizeMax`); no operation is called 0, which stands for the coroutine.

The invariant is built in layers, each proved with those before it:

1. `TypeInv`: types, and that a frame on the stack works on an operation that its
   function serves.
2. `OrderInv`: each operation is begun once, in the order of the awaits. The groups
   behind the coroutine's state were not reached, and awaits in progress are of
   different groups: a cancellation inside an await may enter the coroutine again, so
   that several can be in progress.
3. `LifeInv`: an operation is unbegun, refused, waiting, handled, or over; it has at
   most one frame; and only its last wait can be waiting. `ContextsExact` is read off
   this.
4. `EventInv`: nobody waits for the event of an operation that waits, or that is
   *handled and may wait again*. The second half makes it inductive, and is why a
   partial transfer is never refused with `EIO_INPROGRESS`: between the end of one wait
   and the next the handler calls nobody. `StatusDocumented` follows, with the exact set
   of each kind.
5. `ReportInv`: the bytes moved and left, and the status, in each of these stages;
   `TransferExact` follows.
6. `GroupInv`: a counter and the tasks that reported agree, but for the call in
   progress (`Counted`); a group is freed, or its handler runs, only when all have
   reported; groups before the coroutine's state are finished and those behind it
   untouched (`PlaceOK`); and whenever the coroutine is entered its await is finished
   (`TopOK`), from which `ResumesAfterAll` and `CleanedUpOnce` follow.

The stack is handled by a few lemmas about what pushing and returning do to the set of
frames in progress (`InProgress`), so that no step speaks of positions on the stack.

### The event loop: `IoService_proof`, `IoServiceCalls_proof`

All invariants of the runs `dispatch` and `deadlines`, and the refinement, in two steps.

The first is for any descriptors, event types, faults of `poll`, delays and bounds on
handlers and time, of a `Careful` client, and of the behaviours of `SoundSpec`, which is
`Spec` with two hypotheses on the tree:

* `Careful`: the client cancels in no handler but a posted one, and does not call
  `iosvc_sched_timeout` while the service stops. The run `cancel_in_callback` shows what
  happens otherwise. Everything else is allowed everywhere; this is more than the clients
  of the runs do.
* `TreeSound`, a state predicate: a search of the tree finds the descriptors of the
  pollfds and no others, a walk from the root meets each of them once,
  `rb_ref_to_this` leads to its node, and extracting a node leaves a tree that can be
  searched for the rest.
* `PlacesStay`, an action property: an insertion leaves the pointers into the tree that
  `dispatch_ready_events` and `iosvc_cancel` hold leading to the same nodes.

Under them: `InvHolds`, `TypesHold`, `PollsExact`, `TimersAreLive`, `DeadlinesInOrder`
(`EarliestFirst`) and, without hang-ups, `TimeReallyLeft` (`RemainingTime`) in
`IoService_proof`, and `CallsInvHolds` in `IoServiceCalls_proof`. They say what the loop
does as long as the tree does its part. With enough descriptors it does not: an insertion
that rotates is followed by a second write of `*place` (`iosvc_sched.c:113-122`, run
`insert_rotation`, three descriptors) and moves nodes under a place that is held, and an
extraction can break `TreeSound` without any rotation (`rbtree.c:239`, four descriptors).
Of what the loop does from there on the theorems say nothing. Once the tree has lost a
node, even properties that do not mention it fail: a descriptor can then be scheduled
twice, and its deadline entry is there twice. What `rb_probe` and `rb_extract` do to a
tree of any size is an induction over data, so for more descriptors the two remain
hypotheses, even for a repaired `rbtree.c`.

The second step is about the code as it stands, for a `Careful` client with at most two
descriptors, with no hypothesis on the tree (`IoServiceCalls_proof`, last part):

* `TwoAreSound`: `Spec => SoundSpec`, so that each of the theorems above holds of `Spec`;
* `HangupsOnly` (`OnlyHangupsCrash`), and `NeverCrashes` (`NoCrash`) without hang-ups:
  nothing that a callback moved or freed is followed. The hypothesis `PlacesStay` alone
  would nearly say that, so they are stated here, where it is proved;
* `CalledOnce` (`CalledAtMostOnce`) and `ContractKept` (`KeepsContract`: the loop
  implements `ServiceContract`).

`SmallInv`, with `Inv`, is the invariant behind `TwoAreSound`: the tree is one of three
shapes (no node, a black root, a black root with a red child on the proper side), and its
nodes are those of the pollfds. `ProbeSettles` and `FixDeleteSettles` unfold the loops of
`rb_probe` and `fix_delete` as far as these shapes need; `InsertFirst`, `InsertSecond`,
`ExtractLast`, `ExtractRoot` and `ExtractChild` compute `rb_insert` and `rb_extract`, with
the second write of `*place`, on each. An insertion puts a node where there was NULL, and
the held places lead to nodes.

The semaphore, the operations, the groups and the coroutine are proved on
`ServiceContract`, whose client may cancel anywhere. `ContractKept` is for clients that
cancel in posted handlers only: a program of the upper layers that cancels inside an await
entered from an event handler is covered by the proofs about those layers, and not by the
one that the loop keeps the contract.

`IoServiceAssumption` gives the rest: the kinds of events and faults, and that reads are
among the types when hang-ups are among the faults, which the code takes for reads.

`Inv` is a conjunction with a part for each thing that the loop holds:

1. `TypeInv`, `StatusInv`, `CancelInv`: types; which status goes with which point of the
   loop; at most one `iosvc_cancel` is in progress, called by a posted handler, and the
   place it holds leads to a node.
2. `VecInv`: the pollfd in each slot in use is that of the node with this index, and asks
   for what is awaited; a node without handlers is about to be cleaned up by a function in
   progress. When the last pollfd moves into the slot of a removed one, the
   search for its node must find it (`MovedIsFound`), for which `TreeSound` looks at the
   tree after the extraction.
3. `TimerInv`: deadlines belong to waits, one each, and were set in the past; what is
   called because its time has come is due before everything in both heaps, and no
   handler can add anything that is due earlier.
4. `ScanInv`: while `dispatch_ready_events` is at slot `i`, a report still ahead is about
   a wait that is still scheduled, whatever the handlers called so far added: they can
   add events to a node, and pollfds behind all others, but remove none, and
   `timeout_first` leaves alone what `poll` has reported. This is where cancelling in a
   handler would break the induction.
5. `WalkInv`: each node is on the stack of `stop_async_ops` once, the children of the
   nodes whose handlers it has called are on the stack or done, and those of the others
   were not reached (`ChildrenUnreached`). When the stack is empty, the nodes done contain
   the root and their own children, and by `TreeSound` they are all.

What happens to the vector, the cells and the heap in one enqueueing, dequeueing and
cleanup is stated once each (`Enqueued`, `Dequeued`, `CleanedUp` and the lemmas about
them), and the proof that `Next` keeps `Inv` has a lemma for each action.

`CallsInv` says that no handler is stored twice and that `Stored \cap Called = InCall`:
the handlers that were called and are still stored are the front of the buffer while it
runs, the front of the delay heap while it runs, and those that the walk has stopped on
nodes it has not freed. Every step that touches handlers accepts one (`Accept`), calls one
that is stored and not in `InCall` (`Call`), or removes some that were called, which the
contract does not see. That `iosvc_run` returns only with nothing stored comes from
`WalkInv`.

### Only model-checked

* The tree with more than two nodes: what `rb_probe` finds and the lengths of paths are
  inductions over the tree (`ProbeFindsKeys`, `ParentsExact`, `BalanceKept`).
* All liveness: `RunReturns`, `ReleasedAreCalled`, `StopResumes`. Fairness and `ENABLED`
  are beyond this version of the prover.

## Not modelled

* `iosvc_delete` (`iosvc_cdtor.c`): frees everything without calling handlers, and
  ends the life of the service.
* The exception event of a new node that cannot be allocated (`iosvc_sched.c:118-122`):
  the freed node stays in the tree, and every later search may read it.
* `ioec_strerr`: a table of strings. `cbuf_clear`, `heap_sift_down`: nothing calls them.
* The programs under `test/`: read for how the library is used.

## Plan

1. Done: node storage, tree, event loop; proofs about node storage.
2. Done: heaps, buffer, semaphore, task groups, operations, coroutines.
3. Done: proofs about buffer, heaps, semaphore, operations, groups and coroutine, with
   the refinements of `HandlerQueue`, `DeadlineSet` and `CountingSemaphore`.
4. Done: proofs about the event loop and, for two descriptors, its refinement of
   `ServiceContract` without hypotheses on the tree.
5. Left: theorems about trees of any size, with a prover that has induction over data.
   For more than two descriptors `TreeSound` and `PlacesStay` can become facts only after
   `iosvc_sched.c:113-122`, `rbtree.c:239` and the places held by the loop are repaired.
