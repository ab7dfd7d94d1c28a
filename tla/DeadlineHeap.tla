---------------------------- MODULE DeadlineHeap ----------------------------
(***************************************************************************)
(* The two binary heaps of an io_service (src/heaputils.c): the deadlines  *)
(* of timed waits (timed_events_heap), where each event_data keeps the     *)
(* index of its entry, and the delayed handlers (timed_handlers_heap),     *)
(* which keep none.  An operation is split at each round of its loop.      *)
(***************************************************************************)
EXTENDS Integers

CONSTANTS Events,     \* the event_data, or handlers, that may have an entry
          Deadlines,  \* the times they may be given
          NoEvent     \* no event

\* iosvc_dequeue relies on deadlines being greater than -1.  iosvc_post_delay
\* refuses a negative delay; iosvc_sched_timeout does not, and a wait given one
\* longer than the system has been up would have a negative deadline.
ASSUME DeadlineHeapAssumption == Deadlines \subseteq Nat /\ NoEvent \notin Events

VARIABLES kind,  \* which heap this is: "waits" or "delays"
          heap,  \* heap[i]: entry i of the array, from 0
          n,     \* nelems
          idx,   \* idx[e]: event_data.ddl_heap_idx
          used,  \* the events with a handler
          pc,    \* the loop that is running, or "idle"
          i,     \* its index
          gone   \* the event that iosvc_dequeue removes, or NoEvent

vars == <<kind, heap, n, idx, used, pc, i, gone>>

\* A mutant of lt: an equal entry goes first.
le(x, y) == x.deadline <= y.deadline

\* async_hp_ent_lt, delay_hp_ent_lt.
lt(x, y) == x.deadline < y.deadline

up(k)   == (k - 1) \div 2
left(k) == 2 * k + 1

-----------------------------------------------------------------------------
(* Changes of the array.                                                   *)

Swapped(h, a, b) == [h EXCEPT ![a] = h[b], ![b] = h[a]]

\* A mutant of SwappedIdx: the indices stay with the places.
UnswappedIdx(a, b) == idx

\* async_hp_ent_swp swaps the indices of the two events with the entries.
SwappedIdx(a, b) ==
    IF kind = "delays" THEN idx
    ELSE [idx EXCEPT ![heap[a].e] = idx[heap[b].e], ![heap[b].e] = idx[heap[a].e]]

\* dynarr_emplace_back and the initialisation of the new entry.
Emplaced(e, d) ==
    [k \in 0..n |-> IF k = n THEN [deadline |-> d, e |-> e] ELSE heap[k]]

\* A mutant of Popped: the array is not shortened.
Unpopped(h) == h

\* dynarr_pop_back.
Popped(h) == [k \in 0..(n - 2) |-> h[k]]

-----------------------------------------------------------------------------
(* Operations.                                                             *)

\* iosvc_sched, as far as the heap is concerned: the event has no entry.
iosvc_sched(e) ==
    /\ pc = "idle" /\ kind = "waits"
    /\ e \notin used
    /\ used' = used \cup {e}
    /\ idx' = [idx EXCEPT ![e] = -1]
    /\ UNCHANGED <<kind, heap, n, pc, i, gone>>

\* iosvc_sched_timeout and iosvc_post_delay, up to heap_sift_up.
Insert(e, d) ==
    /\ pc = "idle"
    /\ e \notin used
    /\ used' = used \cup {e}
    /\ heap' = Emplaced(e, d)
    /\ n' = n + 1
    /\ idx' = IF kind = "waits" THEN [idx EXCEPT ![e] = n] ELSE idx
    /\ pc' = "up" /\ i' = n
    /\ UNCHANGED <<kind, gone>>

\* iosvc_dequeue of an event: without an entry nothing is done to the heap,
\* with one it becomes less than all entries, to move to the top.
iosvc_dequeue(e) ==
    /\ pc = "idle" /\ kind = "waits"
    /\ e \in used
    /\ IF idx[e] >= 0
       THEN /\ heap' = [heap EXCEPT ![idx[e]].deadline = -1]
            /\ pc' = "up" /\ i' = idx[e]
            /\ gone' = e
            /\ UNCHANGED used
       ELSE used' = used \ {e} /\ UNCHANGED <<heap, pc, i, gone>>
    /\ UNCHANGED <<kind, n, idx>>

\* A mutant of Rises: the entry stops below the root.
RisesBelowRoot == i > 2 /\ lt(heap[i], heap[up(i)])

\* One round of heap_sift_up_idx.
Rises == i # 0 /\ lt(heap[i], heap[up(i)])

sift_up ==
    /\ pc = "up"
    /\ Rises
    /\ heap' = Swapped(heap, i, up(i))
    /\ idx' = SwappedIdx(i, up(i))
    /\ i' = up(i)
    /\ UNCHANGED <<kind, n, used, pc, gone>>

sift_up_ends ==
    /\ pc = "up"
    /\ ~Rises
    /\ pc' = IF gone = NoEvent THEN "idle" ELSE "pop"
    /\ UNCHANGED <<kind, heap, n, idx, used, i, gone>>

\* The rest of iosvc_dequeue: the front is swapped to the back and dropped.
pop ==
    /\ pc = "pop"
    /\ heap' = Popped(Swapped(heap, 0, n - 1))
    /\ idx' = SwappedIdx(0, n - 1)
    /\ n' = n - 1
    /\ used' = used \ {gone}
    /\ gone' = NoEvent
    /\ pc' = IF n = 1 THEN "idle" ELSE "down"
    /\ i' = 0
    /\ UNCHANGED kind

\* timeout_first of a delayed handler: the last entry overwrites the front.
pop_front ==
    /\ pc = "idle" /\ kind = "delays"
    /\ n > 0
    /\ used' = used \ {heap[0].e}
    /\ heap' = Popped([heap EXCEPT ![0] = heap[n - 1]])
    /\ n' = n - 1
    /\ pc' = IF n = 1 THEN "idle" ELSE "down"
    /\ i' = 0
    /\ UNCHANGED <<kind, idx, gone>>

\* A mutant of MinIdx: the right child is not looked at.
MinIdxLeft == IF left(i) < n /\ lt(heap[left(i)], heap[i]) THEN left(i) ELSE i

\* One round of heap_sift_down_idx: the least of an entry and its children.
MinOf(a, b) == IF b < n /\ lt(heap[b], heap[a]) THEN b ELSE a
MinIdx      == MinOf(MinOf(i, left(i)), left(i) + 1)

sift_down ==
    /\ pc = "down"
    /\ MinIdx # i
    /\ heap' = Swapped(heap, MinIdx, i)
    /\ idx' = SwappedIdx(MinIdx, i)
    /\ i' = MinIdx
    /\ UNCHANGED <<kind, n, used, pc, gone>>

sift_down_ends ==
    /\ pc = "down"
    /\ MinIdx = i
    /\ pc' = "idle"
    /\ UNCHANGED <<kind, heap, n, idx, used, i, gone>>

\* iosvc_prep_stop: dynarr_clear, once every handler was called.
dynarr_clear ==
    /\ pc = "idle"
    /\ heap' = << >> /\ n' = 0 /\ used' = {}
    /\ UNCHANGED <<kind, idx, pc, i, gone>>

-----------------------------------------------------------------------------
Init ==
    /\ kind \in {"waits", "delays"}
    /\ heap = << >> /\ n = 0
    /\ idx = [e \in Events |-> -1]
    /\ used = {}
    /\ pc = "idle" /\ i = 0
    /\ gone = NoEvent

Next == \/ \E e \in Events : \/ iosvc_sched(e)
                             \/ iosvc_dequeue(e)
                             \/ \E d \in Deadlines : Insert(e, d)
        \/ sift_up \/ sift_up_ends
        \/ pop \/ pop_front
        \/ sift_down \/ sift_down_ends
        \/ dynarr_clear

Spec == Init /\ [][Next]_vars

-----------------------------------------------------------------------------
TypeOK ==
    /\ kind \in {"waits", "delays"}
    /\ n \in Nat
    /\ heap \in [0..(n - 1) -> [deadline : Deadlines \cup {-1}, e : Events]]
    /\ idx \in [Events -> Nat \cup {-1}]
    /\ used \subseteq Events
    /\ pc \in {"idle", "up", "pop", "down"}
    /\ i \in Nat
    /\ gone \in Events \cup {NoEvent}

\* The index an event keeps and the event an entry names are inverse to each
\* other in every round of a loop, also for events that were scheduled without a
\* timeout after they had one: iosvc_dequeue removes by that index, and
\* stop_handler reads by it (async_heap_entry.c:8-22, iosvc_sched.c:160-165,
\* 232-236, iosvc_dequeue.c:16-21).
IndexExact ==
    kind = "waits" =>
    /\ \A k \in 0..(n - 1) : heap[k].e \in used /\ idx[heap[k].e] = k
    /\ \A e \in used : idx[e] >= 0 => idx[e] < n /\ heap[idx[e]].e = e

\* No event has two entries, and the deadline -1 is that of the entry which
\* iosvc_dequeue moves to the top and of no other: the entry that reaches the top
\* is the one to remove (iosvc_dequeue.c:29-37).
OneEntryEach ==
    /\ \A j, k \in 0..(n - 1) : heap[j].e = heap[k].e => j = k
    /\ \A k \in 0..(n - 1) : heap[k].e \in used
    /\ \A k \in 0..(n - 1) : heap[k].deadline = -1 <=> heap[k].e = gone
    /\ gone # NoEvent => /\ kind = "waits" /\ pc \in {"up", "pop"}
                         /\ pc = "up" => heap[i].e = gone
    /\ pc = "pop" => gone # NoEvent

Due(k)           == heap[k].deadline
InOrder(k)       == Due(up(k)) <= Due(k)
BelowParentOf(k) == k # 0 => \A c \in 1..(n - 1) : up(c) = k => Due(up(k)) <= Due(c)

\* The array is a heap whenever no operation is going on, and in the middle of
\* one only the entry that rises or sinks is out of order; what iosvc_dequeue
\* drops is the event's own entry (heaputils.c:13-71, iosvc_dequeue.c:29-37).
OutOfOrderOnlyAtIndex ==
    /\ pc \in {"idle", "pop"} => \A k \in 1..(n - 1) : InOrder(k)
    /\ pc = "pop" => n > 0 /\ heap[0].e = gone
    /\ pc = "up" =>
          /\ i < n
          /\ \A k \in 1..(n - 1) : k # i => InOrder(k)
          /\ BelowParentOf(i)
    /\ pc = "down" =>
          /\ i < n
          /\ \A k \in 1..(n - 1) : up(k) # i => InOrder(k)
          /\ BelowParentOf(i)

\* The invariant of the proofs.
HeapInv == TypeOK /\ IndexExact /\ OneEntryEach /\ OutOfOrderOnlyAtIndex

\* An insertion takes the front from an entry only if it is due earlier, not at
\* the same time.  A delayed handler is the front while it runs, and is taken for
\* the front when it returns, whatever it posted (io_service.c:221-232).
FrontYieldsToEarlier ==
    [][pc = "up" /\ gone = NoEvent /\ heap'[0].e # heap[0].e
           => heap'[0].deadline < heap[0].deadline]_vars

Abstract == INSTANCE DeadlineSet WITH
    entries <- [e \in {heap[k].e : k \in 0..(n - 1)} \ {gone} |->
                   heap[CHOOSE k \in 0..(n - 1) : heap[k].e = e].deadline],
    front   <- IF pc = "idle" /\ n > 0 THEN heap[0].e ELSE NoEvent

\* The heap is a set of deadlines with a least one in front: no operation loses,
\* duplicates or exchanges entries, a removal in the middle included.
ImplementsDeadlineSet == Abstract!Spec
=============================================================================
