-------------------------- MODULE IoService_proof ---------------------------
(***************************************************************************)
(* Proofs about IoService: a client whose handlers may call nearly         *)
(* everything never makes the loop follow what has become of the places,   *)
(* nodes, indices and reports it holds across their calls.                 *)
(*                                                                         *)
(* The hypotheses are on the client (Careful) and on the tree: TreeSound,  *)
(* an invariant, and PlacesStay, an action property.  They are what the    *)
(* loop needs of rbtree.c and iosvc_sched.c, and with enough descriptors   *)
(* the code does not provide it: an insertion that rotates breaks both,    *)
(* and an extraction of a node with two children can break TreeSound.      *)
(* With two descriptors it does: IoServiceCalls_proof proves SoundSpec of  *)
(* the specification, and the results that would be empty without it.      *)
(*                                                                         *)
(* Inv has a part for each thing held: the place of iosvc_cancel, the      *)
(* vector, the deadlines, the entry that is dispatched and the reports     *)
(* ahead of it, and the stack of the walk that stops everything.           *)
(***************************************************************************)
EXTENDS IoService, FiniteSetTheorems, NaturalsInduction, WellFoundedInduction, TLAPS

-----------------------------------------------------------------------------
(* The hypotheses.                                                         *)

\* The slots in use, and the descriptors with a node: those in pollfds.
InUse(s)   == 0..(s.npoll - 1)
NodesOf(s) == {s.pvec[k].fd : k \in InUse(s)}

\* The sides of a node, and the pointers of a tree: the root and two in each
\* node.
Dirs   == {LEFT, RIGHT}
Places == [at : Fds \cup {Nil}, dir : Dirs]

\* A search of tree t finds the keys and no others.
Searchable(t, keys) ==
    \A fd \in Fds : /\ rb_probe(t, RootPlace, fd) \in Places
                    /\ At(t, rb_probe(t, RootPlace, fd)) = IF fd \in keys THEN fd ELSE Nil

\* A walk from the root of t meets each key once and nothing else.
Shaped(t, keys) ==
    /\ t.root \in keys \cup {Nil}
    /\ \A n \in keys, d \in Dirs : t.kid[n][d] \in keys \cup {Nil}
    /\ \A n \in keys, d \in Dirs : t.kid[n][d] # Nil => t.kid[n][d] # t.root
    /\ \A m, n \in keys, c, d \in Dirs :
          t.kid[m][c] = t.kid[n][d] /\ t.kid[m][c] # Nil => m = n /\ c = d
    /\ \A X \in SUBSET keys :
          /\ t.root \in X \cup {Nil}
          /\ \A n \in X, d \in Dirs : t.kid[n][d] \in X \cup {Nil}
          => X = keys

\* What the proofs assume of the tree: searches find the nodes of the pollfds
\* and no others, a walk meets each of them once, rb_ref_to_this gives a pointer
\* to its node, and a tree that rb_extract has taken a node out of can be
\* searched for the rest.  Two pieces of code break it.  reserve_evt_mem writes
\* *place again after rb_insert, which is wrong when the insertion rotated the
\* tree (iosvc_sched.c:113-122; three descriptors).  rb_extract gives the son of
\* the predecessor it moved the NULL parent of the node extracted
\* (rbtree.c:239; four: 5, 3, 7, 1 inserted and 5 extracted leave 1 under 3 with
\* no parent, so rb_ref_to_this(1) is the root's place).
TreeSound ==
    /\ Searchable(svc.tree, NodesOf(svc))
    /\ Shaped(svc.tree, NodesOf(svc))
    /\ \A n \in NodesOf(svc) : /\ rb_ref_to_this(svc.tree, n) \in Places
                               /\ At(svc.tree, rb_ref_to_this(svc.tree, n)) = n
    /\ \A p \in Places : At(svc.tree, p) \in NodesOf(svc) =>
          Searchable(rb_extract(svc.tree, p), NodesOf(svc) \ {At(svc.tree, p)})

\* The pointers into the tree that dispatch_ready_events and iosvc_cancel hold
\* while a handler runs (io_service.c:246-295, iosvc_cancel.c:23-32).
HeldPlaces == (IF pc = "event" THEN {loc.place} ELSE {}) \cup
              {cancels[k] : k \in DOMAIN cancels}

\* What the proofs assume of an insertion that a handler causes: a pointer held
\* still leads to the same node.  An insertion that rotates the tree may break
\* it.
InsertKeepsPlaces == nh' # nh => \A p \in HeldPlaces : At(svc'.tree, p) = At(svc.tree, p)
PlacesStay == [][InsertKeepsPlaces]_vars

\* A client that cancels in no handler but a posted one (in the others the loop
\* holds a place, a node or reports of poll), and that does not make the heap
\* grow while the service stops, when stop_async_ops reads it.
Careful ==
    /\ \A c \in {"delay", "event", "timeout", "cancelled"} : "cancel" \notin MayCall[c]
    /\ "sched_timeout" \notin MayCall["stopped"]

-----------------------------------------------------------------------------
(* Types.                                                                  *)

\* The types of what a service holds.
Statuses     == {"READY", "RUNNING", "STOPPING", "DONE"}
DelayEntries == [h : Handlers, at : 0..MaxTime]
TimerEntries == [fd : Fds, ty : Types, at : 0..MaxTime, ms : Delays]
Conditions   == {"IN", "OUT", "PRI"} \cup Faults
Pollfds      == [fd : Fds \cup {Nil}, events : SUBSET Types, revents : SUBSET Conditions]

\* The fields of a service have their types; the tree is left to TreeSound.
SvcOK(s) ==
    s \in [status : Statuses, sync : Seq(Handlers), delays : SUBSET DelayEntries,
           timers : SUBSET TimerEntries, cap : Nat, tree : {s.tree},
           evts : [Fds -> [Types -> Handlers \cup {NULL}]], idx : [Fds -> Slots],
           pvec : [Slots -> Pollfds], npoll : 0..Cardinality(Fds)]

\* The types that handlers wait for on fd.
AwaitedIn(s, fd) == {ty \in Types : Scheduled(s, fd, ty)}

\* Each pollfd in use belongs to the node that has its index, and a descriptor
\* without one has no handlers.
VecOK(s) ==
    /\ \A k \in InUse(s) : s.pvec[k].fd \in Fds /\ s.idx[s.pvec[k].fd] = k
    /\ \A fd \in Fds : fd \notin NodesOf(s) => s.evts[fd] = NoEvents

\* A pollfd asks for the types that handlers wait for.
EventsOK(s) == \A k \in InUse(s) : s.pvec[k].events = AwaitedIn(s, s.pvec[k].fd)

-----------------------------------------------------------------------------
(* The pollfd vector.                                                      *)

\* Cardinality(Fds) is a number.
LEMMA FdsCount == Cardinality(Fds) \in Nat
BY FdsAssumption, FS_CardinalityType

\* The index that a node holds is that of its own pollfd.
LEMMA NodeSlot ==
  ASSUME NEW s, SvcOK(s), VecOK(s), NEW fd \in NodesOf(s)
  PROVE  /\ fd \in Fds
         /\ s.idx[fd] \in InUse(s) /\ s.idx[fd] \in Slots
         /\ s.pvec[s.idx[fd]].fd = fd
BY FdsCount DEF NodesOf, VecOK, SvcOK, InUse, Slots

\* The descriptors with a node are descriptors.
LEMMA NodesInFds ==
  ASSUME NEW s, SvcOK(s), VecOK(s)
  PROVE  NodesOf(s) \subseteq Fds /\ \A k \in InUse(s) : s.pvec[k].fd \in NodesOf(s)
BY DEF NodesOf, VecOK

\* While a descriptor has no node, the vector is not at its limit: each slot in
\* use has a descriptor of its own.
LEMMA RoomLeft ==
  ASSUME NEW s, SvcOK(s), VecOK(s), NEW fd \in Fds, fd \notin NodesOf(s)
  PROVE  s.npoll \in Slots
<1> DEFINE n == s.npoll
           f == [k \in 1..n |-> s.pvec[k - 1].fd]
<1>1. n \in Nat /\ n <= Cardinality(Fds)
  BY FdsCount DEF SvcOK
<1>2. f \in Injection(1..n, Fds) /\ f \notin Surjection(1..n, Fds)
  <2>1. f \in [1..n -> Fds]
    BY <1>1 DEF VecOK, InUse
  <2>2. \A a, b \in 1..n : f[a] = f[b] => a = b
    BY <1>1 DEF VecOK, InUse
  <2>3. \A a \in 1..n : f[a] # fd
    BY <1>1 DEF NodesOf, InUse
  <2> QED BY <2>1, <2>2, <2>3 DEF Injection, Surjection, IsInjective
<1>3. Cardinality(1..n) = n
  BY <1>1, FS_Interval
<1> HIDE DEF n, f
<1>4. IsFiniteSet(Fds)
  BY FdsAssumption
<1>5. Cardinality(1..n) # Cardinality(Fds)
  BY <1>2, <1>4, FS_Injection
<1> QED BY <1>1, <1>3, <1>5, FdsCount DEF Slots, n

-----------------------------------------------------------------------------
(* What iosvc_enqueue, iosvc_dequeue and ioevt_cleanup_evt change.         *)

\* Service s2 is s with handler h scheduled for type ty of fd.
Enqueued(s, s2, fd, ty, h) ==
    /\ s2.status = s.status /\ s2.sync = s.sync /\ s2.delays = s.delays
    /\ s2.evts = [s.evts EXCEPT ![fd] = [@ EXCEPT ![ty] = h]]
    /\ NodesOf(s2) = NodesOf(s) \cup {fd}
    /\ s.npoll <= s2.npoll
    /\ \A k \in InUse(s) : /\ s2.pvec[k].fd = s.pvec[k].fd
                           /\ s2.pvec[k].revents = s.pvec[k].revents
                           /\ s.pvec[k].fd # fd => s2.pvec[k].events = s.pvec[k].events
                           /\ s.pvec[k].fd = fd =>
                                 s2.pvec[k].events = s.pvec[k].events \cup {ty}
    /\ \A k \in InUse(s2) : k \notin InUse(s) => /\ s2.pvec[k].fd = fd
                                                 /\ s2.pvec[k].events = {ty}
                                                 /\ s2.pvec[k].revents = {}

\* The node is there already.
LEMMA EnqueueOld ==
  ASSUME NEW s, SvcOK(s), VecOK(s), Searchable(s.tree, NodesOf(s)),
         NEW fd \in NodesOf(s), NEW ty \in Types, NEW h \in Handlers
  PROVE  LET s2 == Enqueue(s, fd, ty, h)
         IN  /\ SvcOK(s2) /\ VecOK(s2) /\ Enqueued(s, s2, fd, ty, h)
             /\ s2.timers = s.timers /\ s2.cap = s.cap
<1> DEFINE place == rb_probe(s.tree, RootPlace, fd)
           s2 == Enqueue(s, fd, ty, h)
           k0 == s.idx[fd]
<1>1. fd \in Fds /\ k0 \in InUse(s) /\ k0 \in Slots /\ s.pvec[k0].fd = fd
  BY NodeSlot
<1>2. At(s.tree, place) = fd /\ fd # Nil
  BY <1>1, FdsAssumption DEF Searchable, Nil
<1>3. s2 = [s EXCEPT !.evts[fd][ty] = h, !.idx[fd] = k0,
                     !.pvec[k0] = [s.pvec[k0] EXCEPT !.events = @ \cup {ty}]]
  BY <1>2 DEF Enqueue, SvcOK
<1> HIDE DEF s2, place
<1>4. /\ s2.status = s.status /\ s2.sync = s.sync /\ s2.delays = s.delays
      /\ s2.timers = s.timers /\ s2.cap = s.cap /\ s2.npoll = s.npoll /\ s2.tree = s.tree
      /\ s2.evts = [s.evts EXCEPT ![fd] = [@ EXCEPT ![ty] = h]]
      /\ s2.idx = s.idx
      /\ s2.pvec = [s.pvec EXCEPT ![k0] = [s.pvec[k0] EXCEPT !.events = @ \cup {ty}]]
  BY <1>1, <1>3 DEF SvcOK
<1>5. s2.pvec \in [Slots -> Pollfds] /\ \A k \in Slots : s2.pvec[k].fd = s.pvec[k].fd
  <2> DEFINE e2 == [s.pvec[k0] EXCEPT !.events = @ \cup {ty}]
  <2>1. s.pvec \in [Slots -> Pollfds] /\ s.pvec[k0] \in Pollfds
    BY <1>1 DEF SvcOK
  <2>2. e2 \in Pollfds /\ e2.fd = s.pvec[k0].fd
    BY <2>1 DEF Pollfds
  <2>3. s2.pvec = [s.pvec EXCEPT ![k0] = e2]
    BY <1>4
  <2> HIDE DEF e2
  <2> QED BY <1>1, <2>1, <2>2, <2>3
<1>6. s2.evts \in [Fds -> [Types -> Handlers \cup {NULL}]]
  BY <1>1, <1>4 DEF SvcOK
<1>7. SvcOK(s2)
  BY <1>3, <1>4, <1>5, <1>6 DEF SvcOK
<1>8. InUse(s2) = InUse(s) /\ InUse(s) \subseteq Slots
  BY <1>4, FdsCount DEF InUse, SvcOK, Slots
<1>9. NodesOf(s2) = NodesOf(s)
  BY <1>5, <1>8 DEF NodesOf
<1>10. VecOK(s2)
  BY <1>1, <1>4, <1>5, <1>8, <1>9 DEF VecOK, SvcOK
<1>11. \A k \in InUse(s) : s.pvec[k].fd = fd <=> k = k0
  BY <1>1 DEF VecOK
<1>12. \A k \in InUse(s) :
          /\ s2.pvec[k].fd = s.pvec[k].fd
          /\ s2.pvec[k].revents = s.pvec[k].revents
          /\ s.pvec[k].fd # fd => s2.pvec[k].events = s.pvec[k].events
          /\ s.pvec[k].fd = fd => s2.pvec[k].events = s.pvec[k].events \cup {ty}
  BY <1>1, <1>4, <1>8, <1>11 DEF SvcOK, Pollfds
<1>13. Enqueued(s, s2, fd, ty, h)
  <2>1. NodesOf(s) = NodesOf(s) \cup {fd}
    OBVIOUS
  <2>2. s.npoll <= s2.npoll
    BY <1>4 DEF SvcOK
  <2> QED BY <1>4, <1>8, <1>9, <1>12, <2>1, <2>2 DEF Enqueued
<1> QED BY <1>4, <1>7, <1>10, <1>13 DEF s2

\* The pollfd of a new node.
LEMMA NewPollfd ==
  ASSUME NEW fd, NEW ty
  PROVE  [[NoPollfd EXCEPT !.fd = fd] EXCEPT !.events = @ \cup {ty}] =
            [fd |-> fd, events |-> {ty}, revents |-> {}]
<1> DEFINE a == [fd |-> fd, events |-> {}, revents |-> {}]
<1>1. [NoPollfd EXCEPT !.fd = fd] = a
  BY DEF NoPollfd
<1>2. a.events \cup {ty} = {ty}
  OBVIOUS
<1>3. [a EXCEPT !.events = {ty}] = [fd |-> fd, events |-> {ty}, revents |-> {}]
  OBVIOUS
<1> HIDE DEF a
<1> QED BY <1>1, <1>2, <1>3

\* The node is new, and gets the next slot of pollfds.
LEMMA EnqueueNew ==
  ASSUME NEW s, SvcOK(s), VecOK(s), Searchable(s.tree, NodesOf(s)),
         NEW fd \in Fds, fd \notin NodesOf(s), NEW ty \in Types, NEW h \in Handlers
  PROVE  LET s2 == Enqueue(s, fd, ty, h)
         IN  /\ SvcOK(s2) /\ VecOK(s2) /\ Enqueued(s, s2, fd, ty, h)
             /\ s2.timers = s.timers /\ s2.cap = s.cap
<1> DEFINE place == rb_probe(s.tree, RootPlace, fd)
           s2 == Enqueue(s, fd, ty, h)
           k0 == s.npoll
           new == [fd |-> fd, events |-> {ty}, revents |-> {}]
<1>1. k0 \in Slots
  BY RoomLeft
<1>2. At(s.tree, place) = Nil
  BY DEF Searchable
<1>3. s2 = [s EXCEPT !.tree = Put(rb_insert(@, place, fd), place, fd),
                     !.evts[fd][ty] = h, !.idx[fd] = k0, !.npoll = @ + 1,
                     !.pvec[k0] = new]
  <2>1. [[NoPollfd EXCEPT !.fd = fd] EXCEPT !.events = @ \cup {ty}] = new
    BY NewPollfd
  <2> HIDE DEF new
  <2> QED BY <1>2, <2>1 DEF Enqueue, SvcOK
<1> HIDE DEF s2, place
<1>4. /\ s2.status = s.status /\ s2.sync = s.sync /\ s2.delays = s.delays
      /\ s2.timers = s.timers /\ s2.cap = s.cap /\ s2.npoll = s.npoll + 1
      /\ s2.evts = [s.evts EXCEPT ![fd] = [@ EXCEPT ![ty] = h]]
      /\ s2.idx = [s.idx EXCEPT ![fd] = k0]
      /\ s2.pvec = [s.pvec EXCEPT ![k0] = new]
  BY <1>1, <1>3 DEF SvcOK
<1>5. new \in Pollfds
  BY DEF Pollfds
<1>6. s2.pvec \in [Slots -> Pollfds] /\ s2.idx \in [Fds -> Slots]
  <2> HIDE DEF new
  <2> QED BY <1>1, <1>4, <1>5 DEF SvcOK
<1>7. s2.evts \in [Fds -> [Types -> Handlers \cup {NULL}]]
  BY <1>4 DEF SvcOK
<1>8. s2.npoll \in 0..Cardinality(Fds)
  BY <1>1, <1>4, FdsCount DEF SvcOK, Slots
<1>9. SvcOK(s2)
  BY <1>3, <1>4, <1>6, <1>7, <1>8 DEF SvcOK
<1>10. InUse(s2) = InUse(s) \cup {k0} /\ InUse(s) \subseteq Slots /\ k0 \notin InUse(s)
  BY <1>1, <1>4, FdsCount DEF InUse, SvcOK, Slots
<1>11. s2.pvec[k0] = new /\ \A k \in InUse(s) : s2.pvec[k] = s.pvec[k]
  BY <1>1, <1>4, <1>10 DEF SvcOK
<1>12. NodesOf(s2) = NodesOf(s) \cup {fd}
  <2>1. \A k \in InUse(s2) : s2.pvec[k].fd \in NodesOf(s) \cup {fd}
    BY <1>10, <1>11 DEF NodesOf
  <2>2. fd \in NodesOf(s2)
    BY <1>10, <1>11 DEF NodesOf
  <2>3. \A k \in InUse(s) : s.pvec[k].fd \in NodesOf(s2)
    BY <1>10, <1>11 DEF NodesOf
  <2> QED BY <2>1, <2>2, <2>3 DEF NodesOf
<1>13. VecOK(s2)
  <2>1. \A k \in InUse(s) : s.pvec[k].fd # fd /\ s.pvec[k].fd \in Fds
                            /\ s.idx[s.pvec[k].fd] = k
    BY DEF NodesOf, VecOK
  <2>2. \A k \in InUse(s2) : s2.pvec[k].fd \in Fds /\ s2.idx[s2.pvec[k].fd] = k
    BY <1>4, <1>10, <1>11, <2>1 DEF SvcOK
  <2>3. \A f \in Fds : f \notin NodesOf(s2) => s2.evts[f] = NoEvents
    BY <1>4, <1>12 DEF VecOK, SvcOK
  <2> QED BY <2>2, <2>3 DEF VecOK
<1>14. Enqueued(s, s2, fd, ty, h)
  <2>1. \A k \in InUse(s) : s.pvec[k].fd # fd
    BY DEF NodesOf
  <2> QED BY <1>1, <1>4, <1>10, <1>11, <1>12, <2>1, FdsCount DEF Enqueued, SvcOK
<1> QED BY <1>4, <1>9, <1>13, <1>14 DEF s2

\* iosvc_enqueue schedules the one handler, in the node there is or in a new one
\* with the next slot of pollfds (iosvc_sched.c:82-194).
LEMMA EnqueueChanges ==
  ASSUME NEW s, SvcOK(s), VecOK(s), Searchable(s.tree, NodesOf(s)),
         NEW fd \in Fds, NEW ty \in Types, NEW h \in Handlers
  PROVE  LET s2 == Enqueue(s, fd, ty, h)
         IN  /\ SvcOK(s2) /\ VecOK(s2) /\ Enqueued(s, s2, fd, ty, h)
             /\ s2.timers = s.timers /\ s2.cap = s.cap
BY EnqueueOld, EnqueueNew

\* Service s2 is s with the handler for type ty of fd taken out.
Dequeued(s, s2, fd, ty) ==
    /\ s2.status = s.status /\ s2.sync = s.sync /\ s2.delays = s.delays
    /\ s2.tree = s.tree /\ s2.npoll = s.npoll /\ s2.idx = s.idx
    /\ s2.timers = s.timers \ TimerOf(s, fd, ty)
    /\ s2.evts = [s.evts EXCEPT ![fd] = [@ EXCEPT ![ty] = NULL]]
    /\ NodesOf(s2) = NodesOf(s)
    /\ \A k \in InUse(s) : /\ s2.pvec[k].fd = s.pvec[k].fd
                           /\ s2.pvec[k].revents = s.pvec[k].revents
                           /\ s.pvec[k].fd # fd => s2.pvec[k].events = s.pvec[k].events
                           /\ s.pvec[k].fd = fd =>
                                 s2.pvec[k].events = s.pvec[k].events \ {ty}

\* iosvc_dequeue takes out the one handler with its deadline
\* (iosvc_dequeue.c:7-66).
LEMMA DequeueChanges ==
  ASSUME NEW s, SvcOK(s), VecOK(s), NEW fd \in NodesOf(s), NEW ty \in Types
  PROVE  LET s2 == Dequeue(s, fd, ty)
         IN  SvcOK(s2) /\ VecOK(s2) /\ Dequeued(s, s2, fd, ty)
<1> DEFINE s2 == Dequeue(s, fd, ty)
           k0 == s.idx[fd]
           e2 == [s.pvec[k0] EXCEPT !.events = @ \ {ty}]
<1>1. fd \in Fds /\ k0 \in InUse(s) /\ k0 \in Slots /\ s.pvec[k0].fd = fd
  BY NodeSlot
<1>2. s2 = [s EXCEPT !.evts[fd][ty] = NULL, !.timers = @ \ TimerOf(s, fd, ty),
                     !.pvec[k0] = e2]
  BY DEF Dequeue, SvcOK
<1>3. s.pvec \in [Slots -> Pollfds] /\ s.pvec[k0] \in Pollfds
  BY <1>1 DEF SvcOK
<1>4. /\ e2 \in Pollfds /\ e2.fd = fd /\ e2.revents = s.pvec[k0].revents
      /\ e2.events = s.pvec[k0].events \ {ty}
  BY <1>1, <1>3 DEF Pollfds
<1> HIDE DEF s2, e2
<1>5. /\ s2.status = s.status /\ s2.sync = s.sync /\ s2.delays = s.delays
      /\ s2.cap = s.cap /\ s2.npoll = s.npoll /\ s2.tree = s.tree /\ s2.idx = s.idx
      /\ s2.timers = s.timers \ TimerOf(s, fd, ty)
      /\ s2.evts = [s.evts EXCEPT ![fd] = [@ EXCEPT ![ty] = NULL]]
      /\ s2.pvec = [s.pvec EXCEPT ![k0] = e2]
  BY <1>1, <1>2 DEF SvcOK
<1>6. s2.pvec \in [Slots -> Pollfds]
  BY <1>1, <1>3, <1>4, <1>5
<1>7. s2.evts \in [Fds -> [Types -> Handlers \cup {NULL}]]
  BY <1>1, <1>5 DEF SvcOK
<1>8. s2.timers \in SUBSET TimerEntries
  BY <1>5 DEF SvcOK
<1>9. SvcOK(s2)
  BY <1>2, <1>5, <1>6, <1>7, <1>8 DEF SvcOK
<1>10. InUse(s2) = InUse(s) /\ InUse(s) \subseteq Slots
  BY <1>5, FdsCount DEF InUse, SvcOK, Slots
<1>11. \A k \in InUse(s) : s.pvec[k].fd = fd <=> k = k0
  BY <1>1 DEF VecOK
<1>12. \A k \in InUse(s) :
          /\ s2.pvec[k].fd = s.pvec[k].fd
          /\ s2.pvec[k].revents = s.pvec[k].revents
          /\ s.pvec[k].fd # fd => s2.pvec[k].events = s.pvec[k].events
          /\ s.pvec[k].fd = fd => s2.pvec[k].events = s.pvec[k].events \ {ty}
  BY <1>1, <1>3, <1>4, <1>5, <1>10, <1>11
<1>13. NodesOf(s2) = NodesOf(s)
  BY <1>10, <1>12 DEF NodesOf
<1>14. VecOK(s2)
  BY <1>1, <1>5, <1>10, <1>12, <1>13 DEF VecOK, SvcOK
<1>15. Dequeued(s, s2, fd, ty)
  BY <1>5, <1>12, <1>13 DEF Dequeued
<1> QED BY <1>9, <1>14, <1>15 DEF s2

\* Service s2 is s without node n: the last pollfd has taken its slot.
CleanedUp(s, s2, n) ==
    /\ s2.status = s.status /\ s2.sync = s.sync /\ s2.delays = s.delays
    /\ s2.timers = s.timers
    /\ s2.evts = [s.evts EXCEPT ![n] = NoEvents]
    /\ NodesOf(s2) = NodesOf(s) \ {n}
    /\ s2.npoll = s.npoll - 1 /\ s2.npoll \in InUse(s)
    /\ \A k \in InUse(s2) :
          s2.pvec[k] = IF k = s.idx[n] THEN s.pvec[s2.npoll] ELSE s.pvec[k]

\* ioevt_cleanup_evt removes the node and its pollfd, and the node whose pollfd
\* moved gets its new index (iosvc_dequeue.c:68-89).
LEMMA CleanupChanges ==
  ASSUME NEW s, SvcOK(s), VecOK(s), NEW place, At(s.tree, place) \in NodesOf(s)
  PROVE  LET s2 == Cleanup(s, place)
         IN  /\ SvcOK(s2) /\ VecOK(s2) /\ CleanedUp(s, s2, At(s.tree, place))
             /\ s2.tree = rb_extract(s.tree, place)
<1> DEFINE s2 == Cleanup(s, place)
           n == At(s.tree, place)
           slot == s.idx[n]
           last == s.npoll - 1
           moved == s.pvec[last].fd
           back == IF slot < last THEN slot ELSE 0
<1>1. n \in Fds /\ slot \in InUse(s) /\ slot \in Slots /\ s.pvec[slot].fd = n
  BY NodeSlot
<1>2. last \in InUse(s) /\ InUse(s) \subseteq Slots /\ 0 \in Slots /\ slot <= last
  BY <1>1, FdsCount DEF InUse, SvcOK, Slots
<1>3. moved \in Fds /\ s.idx[moved] = last /\ back \in Slots
  BY <1>1, <1>2 DEF VecOK
<1>4. s2 = [s EXCEPT !.tree = rb_extract(@, place), !.evts[n] = NoEvents,
                     !.pvec[slot] = s.pvec[last], !.npoll = last,
                     !.idx = [@ EXCEPT ![n] = 0, ![moved] = back]]
  BY DEF Cleanup, SvcOK
<1> HIDE DEF s2, n, moved, back
<1>5. /\ s2.status = s.status /\ s2.sync = s.sync /\ s2.delays = s.delays
      /\ s2.cap = s.cap /\ s2.npoll = last /\ s2.timers = s.timers
      /\ s2.tree = rb_extract(s.tree, place)
      /\ s2.evts = [s.evts EXCEPT ![n] = NoEvents]
      /\ s2.pvec = [s.pvec EXCEPT ![slot] = s.pvec[last]]
      /\ s2.idx = [s.idx EXCEPT ![n] = 0, ![moved] = back]
  BY <1>4 DEF SvcOK
<1>6. s2.pvec \in [Slots -> Pollfds]
  BY <1>1, <1>2, <1>5 DEF SvcOK
<1>7. s2.idx \in [Fds -> Slots]
  BY <1>1, <1>2, <1>3, <1>5 DEF SvcOK
<1>8. s2.evts \in [Fds -> [Types -> Handlers \cup {NULL}]]
  BY <1>1, <1>5 DEF SvcOK, NoEvents
<1>9. s2.npoll \in 0..Cardinality(Fds)
  BY <1>2, <1>5, FdsCount DEF SvcOK, InUse
<1>10. SvcOK(s2)
  BY <1>4, <1>5, <1>6, <1>7, <1>8, <1>9 DEF SvcOK
<1>11. InUse(s2) = InUse(s) \ {last}
  BY <1>2, <1>5, FdsCount DEF InUse, SvcOK
<1>12. \A k \in InUse(s2) : s2.pvec[k] = IF k = slot THEN s.pvec[last] ELSE s.pvec[k]
  BY <1>1, <1>2, <1>5, <1>11 DEF SvcOK
<1>13. NodesOf(s2) = NodesOf(s) \ {n}
  <2>1. \A k \in InUse(s2) : s2.pvec[k].fd \in NodesOf(s) \ {n}
    <3> TAKE k \in InUse(s2)
    <3>1. CASE k = slot
      <4>1. s2.pvec[k].fd = moved /\ last # slot
        BY <1>11, <1>12, <3>1 DEF moved
      <4>2. moved \in NodesOf(s)
        BY <1>2 DEF NodesOf, moved
      <4>3. moved # n
        BY <1>1, <1>2, <1>3, <4>1 DEF VecOK
      <4> QED BY <4>1, <4>2, <4>3
    <3>2. CASE k # slot
      <4>1. s2.pvec[k] = s.pvec[k] /\ k \in InUse(s)
        BY <1>11, <1>12, <3>2
      <4> QED BY <1>1, <3>2, <4>1 DEF VecOK, NodesOf
    <3> QED BY <3>1, <3>2
  <2>2. \A fd \in NodesOf(s) : fd # n => fd \in NodesOf(s2)
    <3> SUFFICES ASSUME NEW fd \in NodesOf(s), fd # n PROVE fd \in NodesOf(s2)
      OBVIOUS
    <3>1. PICK k \in InUse(s) : s.pvec[k].fd = fd
      BY DEF NodesOf
    <3>2. k # slot
      BY <1>1, <3>1
    <3>3. CASE k = last
      <4>1. slot \in InUse(s2) /\ s2.pvec[slot] = s.pvec[last]
        BY <1>1, <1>11, <1>12, <3>2, <3>3
      <4> QED BY <3>1, <3>3, <4>1 DEF NodesOf
    <3>4. CASE k # last
      <4>1. k \in InUse(s2) /\ s2.pvec[k] = s.pvec[k]
        BY <1>11, <1>12, <3>2, <3>4
      <4> QED BY <3>1, <4>1 DEF NodesOf
    <3> QED BY <3>3, <3>4
  <2> QED BY <2>1, <2>2 DEF NodesOf
<1>14. VecOK(s2)
  <2>1. \A k \in InUse(s2) : s2.pvec[k].fd \in Fds /\ s2.idx[s2.pvec[k].fd] = k
    <3> TAKE k \in InUse(s2)
    <3>0. k \in InUse(s) /\ k # last /\ s2.pvec[k].fd # n
      BY <1>11, <1>13 DEF NodesOf
    <3>1. CASE k = slot
      <4>1. slot < last /\ s2.pvec[k].fd = moved
        BY <1>2, <1>12, <3>0, <3>1 DEF moved, InUse, SvcOK
      <4> QED BY <1>1, <1>3, <1>5, <3>1, <4>1 DEF back, SvcOK
    <3>2. CASE k # slot
      <4>1. s2.pvec[k] = s.pvec[k] /\ s.pvec[k].fd \in Fds /\ s.idx[s.pvec[k].fd] = k
        BY <1>12, <3>0, <3>2 DEF VecOK
      <4>2. s.pvec[k].fd # moved
        BY <1>3, <3>0, <4>1
      <4> QED BY <1>1, <1>3, <1>5, <3>0, <4>1, <4>2 DEF SvcOK
    <3> QED BY <3>1, <3>2
  <2>2. \A fd \in Fds : fd \notin NodesOf(s2) => s2.evts[fd] = NoEvents
    BY <1>1, <1>5, <1>13 DEF VecOK, SvcOK
  <2> QED BY <2>1, <2>2 DEF VecOK
<1>15. CleanedUp(s, s2, n)
  BY <1>2, <1>5, <1>12, <1>13 DEF CleanedUp
<1> QED BY <1>5, <1>10, <1>14, <1>15 DEF s2, n

\* The node whose pollfd moves is found, for the tree without n is searchable.
LEMMA MovedIsFound ==
  ASSUME NEW s, SvcOK(s), VecOK(s), NEW place, At(s.tree, place) \in NodesOf(s),
         Searchable(rb_extract(s.tree, place), NodesOf(s) \ {At(s.tree, place)})
  PROVE  ~MovedIsLost(s, place)
<1> DEFINE s2 == Cleanup(s, place)
           n == At(s.tree, place)
           slot == s.idx[n]
           fd == s2.pvec[slot].fd
<1>1. /\ SvcOK(s2) /\ VecOK(s2) /\ s2.tree = rb_extract(s.tree, place)
      /\ NodesOf(s2) = NodesOf(s) \ {n}
  BY CleanupChanges, ZenonT(60) DEF CleanedUp
<1>2. slot \in InUse(s)
  BY NodeSlot
<1>3. SUFFICES ASSUME slot < s2.npoll
               PROVE  At(s2.tree, rb_probe(s2.tree, RootPlace, fd)) = fd
  BY DEF MovedIsLost
<1> HIDE DEF s2, n, slot
<1>4. fd \in NodesOf(s2)
  BY <1>1, <1>2, <1>3 DEF NodesOf, InUse, SvcOK
<1>5. fd \in Fds
  BY <1>1, <1>4, NodesInFds
<1> HIDE DEF fd
<1> QED BY <1>1, <1>4, <1>5 DEF Searchable, n

\* Service s2 is s with the reports r in the pollfds.
Reported(s, s2, r) ==
    /\ s2.status = s.status /\ s2.sync = s.sync /\ s2.delays = s.delays
    /\ s2.tree = s.tree /\ s2.npoll = s.npoll /\ s2.idx = s.idx
    /\ s2.timers = s.timers /\ s2.evts = s.evts /\ NodesOf(s2) = NodesOf(s)
    /\ \A k \in InUse(s) : /\ s2.pvec[k].fd = s.pvec[k].fd
                           /\ s2.pvec[k].events = s.pvec[k].events
                           /\ s2.pvec[k].revents = r[k]

\* poll changes nothing but the reports.
LEMMA PolledChanges ==
  ASSUME SvcOK(svc), VecOK(svc), NEW r, \A k \in Slots : r[k] \in SUBSET Conditions
  PROVE  LET s2 == Polled(r)
         IN  SvcOK(s2) /\ VecOK(s2) /\ Reported(svc, s2, r)
<1> DEFINE s2 == Polled(r)
           e(k) == [svc.pvec[k] EXCEPT !.revents = r[k]]
           pv == [k \in Slots |-> IF k < svc.npoll THEN e(k) ELSE svc.pvec[k]]
<1>1. s2 = [svc EXCEPT !.pvec = pv]
  BY DEF Polled
<1>2. \A k \in Slots : /\ e(k) \in Pollfds /\ e(k).fd = svc.pvec[k].fd
                       /\ e(k).events = svc.pvec[k].events /\ e(k).revents = r[k]
  <2> TAKE k \in Slots
  <2>1. svc.pvec[k] \in Pollfds
    BY DEF SvcOK
  <2> QED BY <2>1 DEF Pollfds
<1> HIDE DEF s2, e
<1>3. pv \in [Slots -> Pollfds]
  BY <1>2 DEF SvcOK
<1>4. /\ s2.status = svc.status /\ s2.sync = svc.sync /\ s2.delays = svc.delays
      /\ s2.cap = svc.cap /\ s2.npoll = svc.npoll /\ s2.tree = svc.tree
      /\ s2.idx = svc.idx /\ s2.timers = svc.timers /\ s2.evts = svc.evts
      /\ s2.pvec = pv
  BY <1>1 DEF SvcOK
<1>5. InUse(s2) = InUse(svc) /\ \A k \in InUse(svc) : k \in Slots /\ pv[k] = e(k)
  BY <1>4, FdsCount DEF InUse, SvcOK, Slots
<1> HIDE DEF pv
<1>6. SvcOK(s2)
  BY <1>1, <1>3, <1>4 DEF SvcOK
<1>7. NodesOf(s2) = NodesOf(svc)
  BY <1>2, <1>4, <1>5 DEF NodesOf
<1>8. VecOK(s2)
  BY <1>2, <1>4, <1>5, <1>7 DEF VecOK
<1>9. Reported(svc, s2, r)
  BY <1>2, <1>4, <1>5, <1>7 DEF Reported
<1> QED BY <1>6, <1>8, <1>9 DEF s2

-----------------------------------------------------------------------------
(* The invariant.                                                          *)

\* The points of the loop; those of the walk of stop_async_ops; those in the
\* middle of an entry of pollfds.
Pcs == {"main", "loop", "sync", "stop_delays", "stop_delay", "walk", "stop_event",
        "timeout", "delay", "scan", "entry", "event", "crashed"}
Walking == pc \in {"walk", "stop_event"}
InEntry == pc \in {"entry", "event"}

\* The codes that a handler may be given.
Codes == {"NONE", "EIO_OK", "EIO_CANCELLED", "EIO_TIMEOUT", "EIO_STOPPED", "EIO_INVARG"}

\* The types of the locals, those that are plain values.
LocOK == loc \in [i : Nat, place : {loc.place}, node : {loc.node}, todo : {loc.todo},
                  nval : BOOLEAN, after : {"loop", "scan"}, ct : 0..MaxTime,
                  cur : {loc.cur}, walk : {loc.walk}, hp : BOOLEAN]

\* Every variable has its type.
TypeInv == /\ SvcOK(svc) /\ LocOK
           /\ now \in 0..MaxTime /\ nh \in 0..MaxHandlers
           /\ calls \in [Handlers -> 0..2]
           /\ told \in [code : Codes, left : Nat, ms : Nat, due : Nat]
           /\ pc \in Pcs

\* The status fits the point that the loop has reached, and the posted handler
\* being called is still in the buffer.
StatusInv ==
    /\ pc = "main" => svc.status \in {"READY", "DONE"}
    /\ pc \notin {"main", "crashed"} => svc.status \in {"RUNNING", "STOPPING"}
    /\ pc \in {"stop_delays", "stop_delay", "walk", "stop_event"} => svc.status = "STOPPING"
    /\ pc = "sync" => svc.sync # <<>>

\* At most one call of iosvc_cancel is in progress, made by a posted handler, and
\* the place that it holds is that of a node.
CancelInv ==
    cancels # <<>> => /\ pc \in {"sync", "crashed"}
                      /\ \E p \in Places : /\ cancels = <<p>>
                                           /\ At(svc.tree, p) \in NodesOf(svc)

\* A node without handlers is one that a function in progress will clean up.
Pending(fd) == \/ pc = "timeout" /\ loc.node = fd
               \/ InEntry /\ Entry.fd = fd
               \/ cancels # <<>> /\ At(svc.tree, Head(cancels)) = fd

\* The pollfds and the nodes agree; until stop_async_ops frees nodes, the
\* pollfds also ask for the right events, and no node is left without handlers.
VecInv ==
    /\ VecOK(svc)
    /\ ~Walking => EventsOK(svc)
    /\ ~Walking /\ pc # "crashed" =>
          \A fd \in NodesOf(svc) : AwaitedIn(svc, fd) = {} => Pending(fd)

\* The deadlines: each is of a handler that waits, was set in the past, and a
\* handler that is called because of one is due first of all.
TimerInv ==
    /\ TimersLive
    /\ \A x \in svc.timers : x.at - x.ms <= now
    /\ loc.ct <= now
    /\ Walking => \A x \in svc.timers : x.at - x.ms <= loc.ct
    /\ pc = "delay" => loc.cur \in svc.delays /\ loc.cur.at = told.due
    /\ EarliestFirst
    /\ "HUP" \notin Faults => RemainingTime

\* What poll reported of slot k still holds: an event reported is still awaited,
\* and was so when poll returned, at time t.
ReportOK(s, k, t) ==
    \A ty \in WaitTypes : Flag(ty) \in s.pvec[k].revents =>
        /\ ty \in s.pvec[k].events
        /\ \A x \in TimerOf(s, s.pvec[k].fd, ty) : x.at - x.ms <= t

\* The reports of poll are still to be read, for slots that the scan has not
\* reached.
HoldsReports == \/ pc \in {"scan", "entry", "event"}
                \/ pc \in {"timeout", "delay"} /\ loc.after = "scan"

Unscanned(k) == (pc = "scan" => k >= loc.i) /\ (InEntry => k > loc.i)

\* Every report still to be read is one that holds.
ReportsOK == HoldsReports => \A k \in InUse(svc) : Unscanned(k) => ReportOK(svc, k, loc.ct)

\* In the middle of an entry, the place held is that of the entry's node.
EntryOK == InEntry => /\ loc.i \in InUse(svc) /\ loc.place \in Places
                      /\ At(svc.tree, loc.place) = Entry.fd

\* An event still to be dispatched is awaited and was when poll returned, or is
\* a read that a hang-up stands for.
TodoOK(ty) ==
    \/ /\ ty \in Entry.events
       /\ \A x \in TimerOf(svc, Entry.fd, ty) : x.at - x.ms <= loc.ct
    \/ ty = "WAIT_READ" /\ "HUP" \in Entry.revents

\* No element occurs twice.
Distinct(q) == \A j, k \in DOMAIN q : q[j] = q[k] => j = k

\* The events still to be dispatched for a valid descriptor.
TodosOK == InEntry /\ ~loc.nval => /\ loc.todo \in Seq(WaitTypes) /\ Distinct(loc.todo)
                                   /\ \A k \in DOMAIN loc.todo : TodoOK(loc.todo[k])

\* The loop over pollfds: its reports, its place and its events still hold after
\* the handlers it has called, and it crashes on hang-ups at most.
ScanInv == /\ ReportsOK /\ EntryOK /\ TodosOK
           /\ pc = "timeout" => loc.node \in NodesOf(svc)
           /\ pc = "crashed" => loc.i \in InUse(svc)
           /\ OnlyHangupsCrash

\* The walk of stop_async_ops: the nodes on its stack, the ones it is done with or
\* has only to free, and the ones it has reached.
Frames   == [n : Fds, todo : SUBSET Types, free : BOOLEAN]
StackOf(q, free) == {q[k].n : k \in {k \in DOMAIN q : q[k].free = free}}
OnStack(free) == StackOf(loc.walk, free)
Emptied  == {n \in NodesOf(svc) : AwaitedIn(svc, n) = {}}
Visited  == Emptied \cup OnStack(TRUE)
Reached  == Visited \cup OnStack(FALSE)

\* A frame of the walk is for a node that has handlers; those still to be called
\* are among them.
FrameOK(s, w) == /\ w.n \in NodesOf(s) /\ AwaitedIn(s, w.n) # {}
                 /\ w.todo \subseteq AwaitedIn(s, w.n)
                 /\ w.free => w.todo = {}

\* No node has two frames.
DistinctNodes(q) == \A j, k \in DOMAIN q : q[j].n = q[k].n => j = k

\* The walk: what it has reached is closed under children, except for the
\* children of nodes it is still at, and those it has not reached before.
WalkInv == Walking =>
    /\ loc.hp
    /\ loc.walk \in Seq(Frames) /\ DistinctNodes(loc.walk)
    /\ \A k \in DOMAIN loc.walk : FrameOK(svc, loc.walk[k])
    /\ svc.tree.root \in Reached \cup {Nil}
    /\ \A n \in Visited, d \in Dirs : svc.tree.kid[n][d] \in Reached \cup {Nil}
    /\ \A n \in NodesOf(svc), d \in Dirs : n \notin Visited => svc.tree.kid[n][d] \notin Reached

\* The inductive invariant.
Inv == TypeInv /\ StatusInv /\ CancelInv /\ VecInv /\ TimerInv /\ ScanInv /\ WalkInv

-----------------------------------------------------------------------------
(* Steps that leave the tree, the pollfds and the waits alone.             *)

\* Service s2 has the nodes, pollfds, waits and deadlines of s.
SameWaits(s, s2) == /\ s2.tree = s.tree /\ s2.pvec = s.pvec /\ s2.npoll = s.npoll
                    /\ s2.idx = s.idx /\ s2.evts = s.evts /\ s2.timers = s.timers

\* What was said of these holds on.
LEMMA SameWaitsKeep ==
  ASSUME NEW s, NEW s2, SameWaits(s, s2)
  PROVE  /\ InUse(s2) = InUse(s) /\ NodesOf(s2) = NodesOf(s)
         /\ VecOK(s) => VecOK(s2)
         /\ EventsOK(s) => EventsOK(s2)
         /\ \A fd : AwaitedIn(s2, fd) = AwaitedIn(s, fd)
         /\ \A fd, ty : TimerOf(s2, fd, ty) = TimerOf(s, fd, ty)
         /\ \A k, t : ReportOK(s, k, t) => ReportOK(s2, k, t)
<1>1. InUse(s2) = InUse(s)
  BY DEF SameWaits, InUse
<1>2. NodesOf(s2) = NodesOf(s)
  BY <1>1 DEF SameWaits, NodesOf
<1>3. \A fd : AwaitedIn(s2, fd) = AwaitedIn(s, fd)
  BY DEF SameWaits, AwaitedIn, Scheduled
<1>4. \A fd, ty : TimerOf(s2, fd, ty) = TimerOf(s, fd, ty)
  BY DEF SameWaits, TimerOf
<1>5. VecOK(s) => VecOK(s2)
  BY <1>1, <1>2 DEF SameWaits, VecOK
<1>6. EventsOK(s) => EventsOK(s2)
  BY <1>1, <1>3 DEF SameWaits, EventsOK
<1>7. \A k, t : ReportOK(s, k, t) => ReportOK(s2, k, t)
  BY <1>4 DEF SameWaits, ReportOK
<1> QED BY <1>1, <1>2, <1>3, <1>4, <1>5, <1>6, <1>7

\* The walk of stop_async_ops is where it was.
LEMMA SameWalk ==
  ASSUME WalkInv, SameWaits(svc, svc'), loc'.walk = loc.walk, loc'.hp = loc.hp,
         Walking' => Walking
  PROVE  WalkInv'
<1>1. NodesOf(svc') = NodesOf(svc) /\ \A fd : AwaitedIn(svc', fd) = AwaitedIn(svc, fd)
  BY SameWaitsKeep
<1>2. Emptied' = Emptied
  BY <1>1 DEF Emptied
<1>3. OnStack(TRUE)' = OnStack(TRUE) /\ OnStack(FALSE)' = OnStack(FALSE)
  BY DEF OnStack
<1>4. Visited' = Visited /\ Reached' = Reached
  BY <1>2, <1>3 DEF Visited, Reached
<1>5. \A w : FrameOK(svc, w) => FrameOK(svc', w)
  BY <1>1 DEF FrameOK
<1> QED BY <1>1, <1>4, <1>5 DEF WalkInv, SameWaits

\* The locals are the same too and the place of the program is the same, or
\* another of the same kind.
LEMMA QuietKeeps ==
  ASSUME Inv, SvcOK(svc'), SameWaits(svc, svc'), loc' = loc, cancels' = cancels,
         told' = told, now' = now, pc' = pc,
         nh' \in 0..MaxHandlers, calls' \in [Handlers -> 0..2],
         StatusInv',
         \A e \in svc'.delays : e \in svc.delays \/ e.at >= now,
         pc = "delay" => svc.delays \subseteq svc'.delays
  PROVE  Inv'
<1> USE DEF Inv
<1>0. /\ InUse(svc') = InUse(svc) /\ NodesOf(svc') = NodesOf(svc)
      /\ VecOK(svc) => VecOK(svc')
      /\ EventsOK(svc) => EventsOK(svc')
      /\ \A fd : AwaitedIn(svc', fd) = AwaitedIn(svc, fd)
      /\ \A fd, ty : TimerOf(svc', fd, ty) = TimerOf(svc, fd, ty)
      /\ \A k, t : ReportOK(svc, k, t) => ReportOK(svc', k, t)
  BY SameWaitsKeep
<1>1. TypeInv'
  BY DEF TypeInv, LocOK
<1>3. CancelInv'
  BY <1>0 DEF CancelInv, SameWaits
<1>4. VecInv'
  BY <1>0 DEF VecInv, Pending, Walking, InEntry, Entry, SameWaits
<1>5. TimerInv'
  <2>1. EarliestFirst'
    <3>1. \A e \in svc'.delays : e.at \in Int
      BY DEF SvcOK, DelayEntries
    <3> QED BY <3>1, IoServiceAssumption DEF TimerInv, EarliestFirst, SameWaits, TypeInv
  <2>2. TimersLive'
    BY DEF TimerInv, TimersLive, Scheduled, SameWaits
  <2>3. "HUP" \notin Faults => RemainingTime'
    BY DEF TimerInv, RemainingTime
  <2> QED BY <2>1, <2>2, <2>3 DEF TimerInv, Walking, SameWaits
<1>6. ScanInv'
  BY <1>0 DEF ScanInv, ReportsOK, EntryOK, TodosOK, TodoOK, HoldsReports, Unscanned, InEntry,
       Entry, OnlyHangupsCrash, Scheduled, SameWaits
<1>7. WalkInv'
  BY SameWalk DEF Walking
<1> QED BY <1>1, <1>3, <1>4, <1>5, <1>6, <1>7

-----------------------------------------------------------------------------
(* Points where nothing is left to be cleaned up.                          *)

\* Each deadline is that of a handler that waits, and of one only.
TimersOK(s) == /\ \A x \in s.timers : Scheduled(s, x.fd, x.ty)
               /\ \A x, y \in s.timers : x.fd = y.fd /\ x.ty = y.ty => x = y

\* Every node has handlers, its pollfd asks for their events, and the deadlines
\* are theirs.
Settled(s) == /\ VecOK(s) /\ EventsOK(s) /\ TimersOK(s)
              /\ \A fd \in NodesOf(s) : AwaitedIn(s, fd) # {}

\* Every deadline was set at time t or before.
Asked(s, t) == \A x \in s.timers : x.at - x.ms <= t

\* ... and nothing is left to be cleaned up in s2 if nothing was in s.
LEMMA SameWaitsSettled ==
  ASSUME NEW s, NEW s2, SameWaits(s, s2), Settled(s)
  PROVE  Settled(s2)
BY SameWaitsKeep DEF Settled, TimersOK, SameWaits, Scheduled

\* At the head of the loop, and wherever no function is about to clean up a
\* node, nothing is left to be.
LEMMA AtRest ==
  ASSUME Inv, cancels = <<>>, pc \notin {"walk", "stop_event", "crashed", "timeout", "entry", "event"}
  PROVE  Settled(svc)
BY DEF Inv, VecInv, TimerInv, TimersLive, Settled, TimersOK, Pending, InEntry, Walking

\* A step to such a point outside the loop over pollfds needs no more than this.
LEMMA RestKeeps ==
  ASSUME TypeInv', StatusInv', cancels' = <<>>, Settled(svc'), Asked(svc', now'),
         pc' \in {"main", "loop", "sync", "stop_delays", "stop_delay"},
         loc'.ct <= now', "HUP" \notin Faults => RemainingTime'
  PROVE  Inv'
<1>1. CancelInv' /\ WalkInv'
  BY DEF CancelInv, WalkInv, Walking
<1>2. VecInv'
  BY DEF VecInv, Walking, Settled
<1>3. TimerInv'
  BY DEF TimerInv, TimersLive, TimersOK, EarliestFirst, Walking, Settled, Asked
<1>4. ScanInv'
  BY DEF ScanInv, ReportsOK, EntryOK, TodosOK, HoldsReports, InEntry, OnlyHangupsCrash
<1> QED BY <1>1, <1>2, <1>3, <1>4 DEF Inv

\* ... and one to the head of that loop also that the reports ahead hold.
LEMMA ScanKeeps ==
  ASSUME TypeInv', StatusInv', cancels' = <<>>, Settled(svc'), Asked(svc', now'),
         pc' = "scan", loc'.ct <= now', "HUP" \notin Faults => RemainingTime',
         \A k \in InUse(svc') : k >= loc'.i => ReportOK(svc', k, loc'.ct)
  PROVE  Inv'
<1>1. CancelInv' /\ WalkInv'
  BY DEF CancelInv, WalkInv, Walking
<1>2. VecInv'
  BY DEF VecInv, Walking, Settled
<1>3. TimerInv'
  BY DEF TimerInv, TimersLive, TimersOK, EarliestFirst, Walking, Settled, Asked
<1>4. ScanInv'
  BY DEF ScanInv, ReportsOK, EntryOK, TodosOK, HoldsReports, InEntry, OnlyHangupsCrash, Unscanned
<1> QED BY <1>1, <1>2, <1>3, <1>4 DEF Inv

-----------------------------------------------------------------------------
(* Calls that only store a handler, or change the status.                  *)

\* The next handler is one of the bounded number.
LEMMA HandlersAccepted ==
  ASSUME Inv, nh < MaxHandlers
  PROVE  nh + 1 \in Handlers /\ nh + 1 \in 0..MaxHandlers
BY IoServiceAssumption DEF Inv, TypeInv, Handlers

\* iosvc_post.
LEMMA PostKeeps ==
  ASSUME Inv, iosvc_post
  PROVE  Inv'
<1>1. nh < MaxHandlers /\ nh' = nh + 1
      /\ UNCHANGED <<now, pc, loc, cancels, calls, told>>
      /\ svc' = [svc EXCEPT !.sync = Append(@, nh + 1)]
  BY DEF iosvc_post, Accepted
<1>2. SvcOK(svc)
  BY DEF Inv, TypeInv
<1>3. /\ SameWaits(svc, svc') /\ svc'.delays = svc.delays /\ svc'.status = svc.status
      /\ svc'.sync \in Seq(Handlers) /\ svc'.sync # <<>>
  BY <1>1, <1>2, HandlersAccepted DEF SameWaits, SvcOK
<1>4. SvcOK(svc')
  BY <1>1, <1>2, <1>3 DEF SvcOK
<1>5. StatusInv' /\ nh' \in 0..MaxHandlers /\ calls' \in [Handlers -> 0..2]
  BY <1>1, <1>3, HandlersAccepted DEF Inv, StatusInv, TypeInv
<1> QED BY <1>1, <1>3, <1>4, <1>5, QuietKeeps

\* iosvc_post_delay: what is added while a delayed handler runs is due later.
LEMMA PostDelayKeeps ==
  ASSUME Inv, NEW ms \in Delays, iosvc_post_delay(ms)
  PROVE  Inv'
<1> DEFINE e == [h |-> nh + 1, at |-> now + ms]
<1>1. nh < MaxHandlers /\ nh' = nh + 1 /\ now + ms <= MaxTime
      /\ UNCHANGED <<now, pc, loc, cancels, calls, told>>
      /\ svc' = [svc EXCEPT !.delays = @ \cup {e}]
  BY DEF iosvc_post_delay, Accepted
<1>2. SvcOK(svc)
  BY DEF Inv, TypeInv
<1>3. e \in DelayEntries /\ e.at >= now
  BY <1>1, HandlersAccepted, IoServiceAssumption DEF Inv, TypeInv, DelayEntries
<1> HIDE DEF e
<1>4. /\ SameWaits(svc, svc') /\ svc'.delays = svc.delays \cup {e}
      /\ svc'.status = svc.status /\ svc'.sync = svc.sync
  BY <1>1, <1>2 DEF SameWaits, SvcOK
<1>5. SvcOK(svc')
  BY <1>1, <1>2, <1>3, <1>4 DEF SvcOK
<1>6. StatusInv' /\ nh' \in 0..MaxHandlers /\ calls' \in [Handlers -> 0..2]
  BY <1>1, <1>4, HandlersAccepted DEF Inv, StatusInv, TypeInv
<1> QED BY <1>1, <1>3, <1>4, <1>5, <1>6, QuietKeeps

\* A change of the status changes nothing else.
LEMMA StatusChange ==
  ASSUME SvcOK(svc), NEW st \in Statuses, svc' = [svc EXCEPT !.status = st]
  PROVE  /\ SvcOK(svc') /\ SameWaits(svc, svc') /\ svc'.delays = svc.delays
         /\ svc'.status = st /\ svc'.sync = svc.sync
BY DEF SvcOK, SameWaits

\* iosvc_stop.
LEMMA StopKeeps ==
  ASSUME Inv, iosvc_stop
  PROVE  Inv'
<1>1. /\ UNCHANGED <<now, pc, loc, cancels, nh, calls, told>> /\ svc.status = "RUNNING"
      /\ svc' = [svc EXCEPT !.status = "STOPPING"]
  BY DEF iosvc_stop, SetStatus
<1>2. /\ SvcOK(svc') /\ SameWaits(svc, svc') /\ svc'.delays = svc.delays
      /\ svc'.status = "STOPPING" /\ svc'.sync = svc.sync
  BY <1>1, StatusChange DEF Inv, TypeInv, Statuses
<1>3. StatusInv' /\ nh' \in 0..MaxHandlers /\ calls' \in [Handlers -> 0..2]
  BY <1>1, <1>2 DEF Inv, StatusInv, TypeInv
<1> QED BY <1>1, <1>2, <1>3, QuietKeeps

\* iosvc_reset.
LEMMA ResetKeeps ==
  ASSUME Inv, iosvc_reset
  PROVE  Inv'
<1>1. /\ UNCHANGED <<now, pc, loc, cancels, nh, calls, told>> /\ svc.status = "DONE"
      /\ svc' = [svc EXCEPT !.status = "READY"] /\ pc \in ClientPoints
  BY DEF iosvc_reset, SetStatus, May
<1>2. /\ SvcOK(svc') /\ SameWaits(svc, svc') /\ svc'.delays = svc.delays
      /\ svc'.status = "READY" /\ svc'.sync = svc.sync
  BY <1>1, StatusChange DEF Inv, TypeInv, Statuses
<1>3. StatusInv' /\ nh' \in 0..MaxHandlers /\ calls' \in [Handlers -> 0..2]
  BY <1>1, <1>2 DEF Inv, StatusInv, TypeInv, ClientPoints
<1> QED BY <1>1, <1>2, <1>3, QuietKeeps

\* poll fails.
LEMMA PollFailsKeeps ==
  ASSUME Inv, poll_fails
  PROVE  Inv'
<1>1. /\ UNCHANGED <<now, pc, loc, cancels, nh, calls, told>> /\ pc = "loop"
      /\ svc' = [svc EXCEPT !.status = "STOPPING"]
  BY DEF poll_fails, Polls
<1>2. /\ SvcOK(svc') /\ SameWaits(svc, svc') /\ svc'.delays = svc.delays
      /\ svc'.status = "STOPPING" /\ svc'.sync = svc.sync
  BY <1>1, StatusChange DEF Inv, TypeInv, Statuses
<1>3. StatusInv' /\ nh' \in 0..MaxHandlers /\ calls' \in [Handlers -> 0..2]
  BY <1>1, <1>2 DEF Inv, StatusInv, TypeInv
<1> QED BY <1>1, <1>2, <1>3, QuietKeeps

\* A context other than main is one where iosvc_run is in progress.
LEMMA RunKeeps ==
  ASSUME Inv, iosvc_run
  PROVE  Inv'
<1>1. /\ UNCHANGED <<now, loc, cancels, nh, calls, told>> /\ svc.status = "READY"
      /\ svc' = [svc EXCEPT !.status = "RUNNING"] /\ pc \in ClientPoints /\ pc' = "loop"
  BY DEF iosvc_run, SetStatus, May
<1>2. /\ SvcOK(svc') /\ SameWaits(svc, svc') /\ svc'.status = "RUNNING"
  BY <1>1, StatusChange DEF Inv, TypeInv, Statuses
<1>3. pc = "main" /\ cancels = <<>>
  BY <1>1 DEF Inv, StatusInv, CancelInv, ClientPoints
<1>4. Settled(svc')
  BY <1>2, <1>3, AtRest, SameWaitsSettled
<1>5. StatusInv' /\ TypeInv'
  BY <1>1, <1>2 DEF Inv, StatusInv, TypeInv, LocOK, Pcs
<1>6. Asked(svc', now') /\ loc'.ct <= now' /\ ("HUP" \notin Faults => RemainingTime')
  BY <1>1, <1>2 DEF Inv, TimerInv, Asked, RemainingTime, SameWaits
<1> QED BY <1>1, <1>3, <1>4, <1>5, <1>6, RestKeeps

\* Time passes.
LEMMA TickKeeps ==
  ASSUME Inv, Tick
  PROVE  Inv'
<1>1. /\ UNCHANGED <<svc, pc, loc, cancels, nh, calls, told>>
      /\ now' = now + 1 /\ now' \in 0..MaxTime /\ now \in 0..MaxTime
  BY IoServiceAssumption DEF Tick, Inv, TypeInv
<1>2. SameWaits(svc, svc')
  BY <1>1 DEF SameWaits
<1>3. TypeInv' /\ StatusInv'
  BY <1>1 DEF Inv, TypeInv, StatusInv, LocOK
<1>4. CancelInv' /\ VecInv' /\ ScanInv'
  BY <1>1 DEF Inv, CancelInv, VecInv, Pending, Walking, InEntry, Entry, ScanInv,
       ReportsOK, EntryOK, TodosOK, TodoOK, HoldsReports, Unscanned, OnlyHangupsCrash
<1>5. TimerInv'
  <2>1. \A x \in svc.timers : x.at - x.ms <= now + 1
    <3>1. \A x \in svc.timers : x.at - x.ms \in Int
      BY IoServiceAssumption DEF Inv, TypeInv, SvcOK, TimerEntries
    <3> QED BY <1>1, <3>1 DEF Inv, TimerInv
  <2>2. loc.ct <= now + 1 /\ loc.ct \in Int /\ told.due \in Int
    BY <1>1 DEF Inv, TimerInv, TypeInv, LocOK
  <2>3. EarliestFirst'
    BY <1>1, <2>2 DEF Inv, TimerInv, EarliestFirst
  <2>4. TimersLive' /\ ("HUP" \notin Faults => RemainingTime')
    BY <1>1, <2>2 DEF Inv, TimerInv, RemainingTime, TimersLive
  <2> QED BY <1>1, <2>1, <2>2, <2>3, <2>4 DEF Inv, TimerInv, Walking
<1>6. WalkInv'
  BY <1>1, <1>2, SameWalk DEF Inv, Walking
<1> QED BY <1>3, <1>4, <1>5, <1>6 DEF Inv

\* Room is made in the heap: nothing else changes.
LEMMA EmplaceChanges ==
  ASSUME SvcOK(svc)
  PROVE  /\ SvcOK(Emplace(svc)) /\ SameWaits(svc, Emplace(svc))
         /\ Emplace(svc).delays = svc.delays /\ Emplace(svc).status = svc.status
         /\ Emplace(svc).sync = svc.sync
<1>1. CASE HeapFull
  <2> DEFINE c2 == IF svc.cap = 0 THEN 1 ELSE 2 * svc.cap
  <2>1. Emplace(svc) = [svc EXCEPT !.cap = c2]
    BY <1>1 DEF Emplace
  <2>2. c2 \in Nat
    BY DEF SvcOK
  <2> HIDE DEF c2
  <2> QED BY <2>1, <2>2 DEF SvcOK, SameWaits
<1>2. CASE ~HeapFull
  BY <1>2 DEF Emplace, SameWaits
<1> QED BY <1>1, <1>2

\* iosvc_sched_timeout is refused after the heap has grown: a careful client
\* does not let it happen while stop_async_ops reads the heap.
LEMMA RefusedKeeps ==
  ASSUME Inv, Careful, sched_timeout_refused
  PROVE  Inv'
<1>1. /\ May("sched_timeout") /\ svc' = Emplace(svc)
      /\ \E moved \in BOOLEAN :
            loc' = [loc EXCEPT !.hp = @ /\ ~(moved /\ pc = "stop_event")]
      /\ UNCHANGED <<now, pc, cancels, nh, calls, told>>
  BY DEF sched_timeout_refused
<1>2. pc # "stop_event"
  BY <1>1 DEF Careful, May, Context, Inv, CancelInv
<1>3. SvcOK(svc) /\ LocOK
  BY DEF Inv, TypeInv
<1>4. loc' = loc
  BY <1>1, <1>2, <1>3 DEF LocOK
<1>5. /\ SameWaits(svc, svc') /\ svc'.delays = svc.delays /\ svc'.status = svc.status
      /\ SvcOK(svc') /\ svc'.sync = svc.sync
  BY <1>1, <1>3, EmplaceChanges
<1>6. StatusInv' /\ nh' \in 0..MaxHandlers /\ calls' \in [Handlers -> 0..2]
  BY <1>1, <1>5 DEF Inv, StatusInv, TypeInv
<1> QED BY <1>1, <1>4, <1>5, <1>6, QuietKeeps

\* A count of calls has its type.
LEMMA CountType ==
  ASSUME calls \in [Handlers -> 0..2], NEW h, Count(h)
  PROVE  calls' \in [Handlers -> 0..2]
<1> DEFINE c == IF calls[h] = 2 THEN 2 ELSE calls[h] + 1
<1>1. calls' = [calls EXCEPT ![h] = c]
  BY DEF Count
<1>2. h \in Handlers => c \in 0..2
  OBVIOUS
<1> HIDE DEF c
<1> QED BY <1>1, <1>2

\* run_sync_handlers calls the handler at the front.
LEMMA CallSyncKeeps ==
  ASSUME Inv, call_sync
  PROVE  Inv'
<1>1. /\ UNCHANGED <<svc, now, loc, cancels, nh, told>> /\ pc = "loop" /\ pc' = "sync"
      /\ Count(Head(svc.sync)) /\ svc.sync # <<>>
  BY DEF call_sync
<1>2. cancels = <<>>
  BY <1>1 DEF Inv, CancelInv
<1>3. Settled(svc')
  BY <1>1, <1>2, AtRest
<1>4. StatusInv' /\ TypeInv'
  BY <1>1, CountType DEF Inv, StatusInv, TypeInv, LocOK, Pcs
<1>5. Asked(svc', now') /\ loc'.ct <= now' /\ ("HUP" \notin Faults => RemainingTime')
  BY <1>1 DEF Inv, TimerInv, Asked, RemainingTime
<1> QED BY <1>1, <1>2, <1>3, <1>4, <1>5, RestKeeps

\* ... and pops it.
LEMMA SyncReturnKeeps ==
  ASSUME Inv, sync_return
  PROVE  Inv'
<1>1. /\ UNCHANGED <<now, loc, cancels, nh, calls, told>> /\ pc = "sync" /\ pc' = "loop"
      /\ cancels = <<>> /\ svc' = [svc EXCEPT !.sync = Tail(@)]
  BY DEF sync_return
<1>2. SvcOK(svc) /\ svc.sync \in Seq(Handlers) /\ svc.sync # <<>>
  BY <1>1 DEF Inv, TypeInv, StatusInv, SvcOK
<1>3. Tail(svc.sync) \in Seq(Handlers)
  BY <1>2
<1>4. SvcOK(svc') /\ SameWaits(svc, svc') /\ svc'.status = svc.status
  BY <1>1, <1>2, <1>3 DEF SvcOK, SameWaits
<1>5. Settled(svc')
  BY <1>1, <1>4, AtRest, SameWaitsSettled
<1>6. StatusInv' /\ TypeInv'
  BY <1>1, <1>4 DEF Inv, StatusInv, TypeInv, LocOK, Pcs
<1>7. Asked(svc', now') /\ loc'.ct <= now' /\ ("HUP" \notin Faults => RemainingTime')
  BY <1>1, <1>4 DEF Inv, TimerInv, Asked, RemainingTime, SameWaits
<1> QED BY <1>1, <1>5, <1>6, <1>7, RestKeeps

\* iosvc_run returns.
LEMMA FinishKeeps ==
  ASSUME Inv, finish
  PROVE  Inv'
<1>1. /\ UNCHANGED <<now, loc, cancels, nh, calls, told>> /\ pc = "loop" /\ pc' = "main"
      /\ svc' = [svc EXCEPT !.status = "DONE"]
  BY DEF finish
<1>2. cancels = <<>>
  BY <1>1 DEF Inv, CancelInv
<1>3. /\ SvcOK(svc') /\ SameWaits(svc, svc') /\ svc'.status = "DONE"
  BY <1>1, StatusChange DEF Inv, TypeInv, Statuses
<1>4. Settled(svc')
  BY <1>1, <1>2, <1>3, AtRest, SameWaitsSettled
<1>5. StatusInv' /\ TypeInv'
  BY <1>1, <1>3 DEF Inv, StatusInv, TypeInv, LocOK, Pcs
<1>6. Asked(svc', now') /\ loc'.ct <= now' /\ ("HUP" \notin Faults => RemainingTime')
  BY <1>1, <1>3 DEF Inv, TimerInv, Asked, RemainingTime, SameWaits
<1> QED BY <1>1, <1>2, <1>4, <1>5, <1>6, RestKeeps

\* iosvc_prep_stop is called.
LEMMA PrepStopKeeps ==
  ASSUME Inv, prep_stop
  PROVE  Inv'
<1>1. /\ UNCHANGED <<svc, now, loc, cancels, nh, calls, told>> /\ pc = "loop"
      /\ pc' = "stop_delays" /\ svc.status = "STOPPING"
  BY DEF prep_stop
<1>2. cancels = <<>>
  BY <1>1 DEF Inv, CancelInv
<1>3. Settled(svc')
  BY <1>1, <1>2, AtRest
<1>4. StatusInv' /\ TypeInv'
  BY <1>1 DEF Inv, StatusInv, TypeInv, LocOK, Pcs
<1>5. Asked(svc', now') /\ loc'.ct <= now' /\ ("HUP" \notin Faults => RemainingTime')
  BY <1>1 DEF Inv, TimerInv, Asked, RemainingTime
<1> QED BY <1>1, <1>2, <1>3, <1>4, <1>5, RestKeeps

\* What a handler is told when there is nothing to tell but a code.
LEMMA PlainlyTold ==
  ASSUME NEW c \in Codes
  PROVE  /\ [NotCalled EXCEPT !.code = c] = [code |-> c, left |-> 0, ms |-> 0, due |-> 0]
         /\ [NotCalled EXCEPT !.code = c] \in [code : Codes, left : Nat, ms : Nat, due : Nat]
BY DEF NotCalled, Codes

\* iosvc_prep_stop calls a delayed handler.
LEMMA StopNextDelayKeeps ==
  ASSUME Inv, stop_next_delay
  PROVE  Inv'
<1>1. PICK e \in svc.delays :
         /\ svc' = [svc EXCEPT !.delays = @ \ {e}] /\ Count(e.h)
         /\ told' = [NotCalled EXCEPT !.code = "EIO_STOPPED"]
         /\ pc = "stop_delays" /\ pc' = "stop_delay" /\ UNCHANGED <<now, loc, cancels, nh>>
  BY DEF stop_next_delay
<1>2. cancels = <<>> /\ SvcOK(svc)
  BY <1>1 DEF Inv, CancelInv, TypeInv
<1>3. SvcOK(svc') /\ SameWaits(svc, svc') /\ svc'.status = svc.status
  BY <1>1, <1>2 DEF SvcOK, SameWaits
<1>4. Settled(svc')
  BY <1>1, <1>2, <1>3, AtRest, SameWaitsSettled
<1>5. /\ told' \in [code : Codes, left : Nat, ms : Nat, due : Nat]
      /\ told'.left = 0 /\ told'.ms = 0 /\ told'.due = 0
  BY <1>1, PlainlyTold DEF Codes
<1>6. StatusInv' /\ TypeInv'
  BY <1>1, <1>3, <1>5, CountType DEF Inv, StatusInv, TypeInv, LocOK, Pcs
<1>7. Asked(svc', now') /\ loc'.ct <= now' /\ RemainingTime'
  BY <1>1, <1>3, <1>5 DEF Inv, TypeInv, TimerInv, Asked, RemainingTime, SameWaits
<1> QED BY <1>1, <1>2, <1>4, <1>6, <1>7, RestKeeps

\* A handler called by iosvc_prep_stop returns.
LEMMA StopReturnKeeps ==
  ASSUME Inv, stop_return
  PROVE  Inv'
<1>1. /\ UNCHANGED <<svc, now, loc, cancels, nh, calls>> /\ cancels = <<>>
      /\ pc \in {"stop_delay", "stop_event"}
      /\ pc' = IF pc = "stop_delay" THEN "stop_delays" ELSE "walk"
      /\ told' = NotCalled
  BY DEF stop_return
<1>2. StatusInv' /\ TypeInv'
  BY <1>1 DEF Inv, StatusInv, TypeInv, LocOK, Pcs, NotCalled, Codes
<1>3. Asked(svc', now') /\ loc'.ct <= now' /\ RemainingTime'
  BY <1>1 DEF Inv, TypeInv, TimerInv, Asked, RemainingTime, NotCalled
<1>4. CASE pc = "stop_delay"
  <2>1. Settled(svc')
    BY <1>1, <1>4, AtRest
  <2> QED BY <1>1, <1>2, <1>3, <1>4, <2>1, RestKeeps
<1>5. CASE pc = "stop_event"
  <2>1. CancelInv' /\ VecInv' /\ ScanInv'
    BY <1>1, <1>5 DEF Inv, CancelInv, VecInv, Walking, ScanInv, ReportsOK, EntryOK,
         TodosOK, HoldsReports, InEntry, OnlyHangupsCrash
  <2>2. TimerInv'
    BY <1>1, <1>3, <1>5 DEF Inv, TimerInv, TimersLive, EarliestFirst, Walking
  <2>3. WalkInv'
    BY <1>1, <1>5, SameWalk DEF Inv, Walking, SameWaits
  <2> QED BY <1>2, <2>1, <2>2, <2>3 DEF Inv
<1> QED BY <1>1, <1>4, <1>5

\* dispatch_ready_events returns.
LEMMA ScanEndKeeps ==
  ASSUME Inv, scan_end
  PROVE  Inv'
<1>1. /\ UNCHANGED <<svc, now, cancels, nh, calls, told>> /\ pc = "scan" /\ pc' = "loop"
      /\ loc' = NoLocals
  BY DEF scan_end
<1>2. cancels = <<>> /\ now \in Nat /\ 0 \in 0..MaxTime
  BY <1>1, IoServiceAssumption DEF Inv, CancelInv, TypeInv
<1>3. Settled(svc')
  BY <1>1, <1>2, AtRest
<1>4. LocOK' /\ loc'.ct <= now'
  BY <1>1, <1>2 DEF LocOK, NoLocals
<1>5. StatusInv' /\ TypeInv'
  BY <1>1, <1>4 DEF Inv, StatusInv, TypeInv, Pcs
<1>6. Asked(svc', now') /\ ("HUP" \notin Faults => RemainingTime')
  BY <1>1 DEF Inv, TimerInv, Asked, RemainingTime
<1> QED BY <1>1, <1>2, <1>3, <1>4, <1>5, <1>6, RestKeeps

\* The handler of an event returns to dispatch_ready_events.
LEMMA EventReturnKeeps ==
  ASSUME Inv, event_return
  PROVE  Inv'
<1>1. /\ UNCHANGED <<svc, now, loc, cancels, nh, calls>> /\ cancels = <<>>
      /\ pc = "event" /\ pc' = "entry" /\ told' = NotCalled
  BY DEF event_return
<1>2. StatusInv' /\ TypeInv' /\ CancelInv' /\ WalkInv'
  BY <1>1 DEF Inv, StatusInv, TypeInv, LocOK, Pcs, NotCalled, Codes, CancelInv, WalkInv,
       Walking
<1>3. VecInv'
  BY <1>1 DEF Inv, VecInv, Pending, Walking, InEntry, Entry
<1>4. RemainingTime' /\ EarliestFirst'
  BY <1>1 DEF Inv, TypeInv, RemainingTime, EarliestFirst, NotCalled
<1>5. TimerInv'
  BY <1>1, <1>4 DEF Inv, TimerInv, TimersLive, Walking
<1>6. ScanInv'
  BY <1>1 DEF Inv, ScanInv, ReportsOK, EntryOK, TodosOK, TodoOK, HoldsReports, Unscanned,
       InEntry, Entry, OnlyHangupsCrash
<1> QED BY <1>2, <1>3, <1>5, <1>6 DEF Inv

\* An event of an invalid descriptor is not awaited.
LEMMA SkipEventKeeps ==
  ASSUME Inv, skip_event
  PROVE  Inv'
<1>1. /\ UNCHANGED <<svc, now, pc, cancels, nh, calls, told>>
      /\ pc = "entry" /\ loc.nval /\ loc' = [loc EXCEPT !.todo = Tail(@)]
  BY DEF skip_event
<1>2. /\ LocOK' /\ loc'.i = loc.i /\ loc'.place = loc.place /\ loc'.nval = loc.nval
      /\ loc'.ct = loc.ct
  BY <1>1 DEF Inv, TypeInv, LocOK
<1>3. StatusInv' /\ TypeInv' /\ CancelInv' /\ WalkInv'
  BY <1>1, <1>2 DEF Inv, StatusInv, TypeInv, CancelInv, WalkInv, Walking
<1>4. VecInv'
  BY <1>1, <1>2 DEF Inv, VecInv, Pending, Walking, InEntry, Entry
<1>5. TimerInv'
  BY <1>1, <1>2 DEF Inv, TimerInv, TimersLive, Walking, RemainingTime, EarliestFirst
<1>6. ScanInv'
  BY <1>1, <1>2 DEF Inv, ScanInv, ReportsOK, EntryOK, TodosOK, HoldsReports, Unscanned,
       InEntry, Entry, OnlyHangupsCrash
<1> QED BY <1>3, <1>4, <1>5, <1>6 DEF Inv

\* A delayed handler returns to timeout_first.
LEMMA DelayReturnKeeps ==
  ASSUME Inv, delay_return
  PROVE  Inv'
<1>1. /\ UNCHANGED <<now, cancels, nh, calls>> /\ cancels = <<>>
      /\ pc = "delay" /\ pc' = loc.after /\ told' = NotCalled
      /\ \E e : svc' = [svc EXCEPT !.delays = @ \ {e}]
      /\ loc' = [NoLocals EXCEPT !.ct = loc.ct]
  BY DEF delay_return
<1>2. /\ SvcOK(svc) /\ loc.ct \in 0..MaxTime /\ loc.after \in {"loop", "scan"}
      /\ loc.ct <= now
  BY DEF Inv, TypeInv, LocOK, TimerInv
<1>3. SvcOK(svc') /\ SameWaits(svc, svc') /\ svc'.status = svc.status
  BY <1>1, <1>2 DEF SvcOK, SameWaits
<1>4. LocOK' /\ loc'.ct = loc.ct /\ loc'.i = 0
  BY <1>1, <1>2 DEF LocOK, NoLocals
<1>5. Settled(svc')
  BY <1>1, <1>3, AtRest, SameWaitsSettled
<1>6. StatusInv' /\ TypeInv'
  BY <1>1, <1>2, <1>3, <1>4 DEF Inv, StatusInv, TypeInv, Pcs, NotCalled, Codes
<1>7. Asked(svc', now') /\ loc'.ct <= now' /\ RemainingTime'
  BY <1>1, <1>2, <1>3, <1>4 DEF Inv, TypeInv, TimerInv, Asked, RemainingTime, SameWaits, NotCalled
<1>8. CASE loc.after = "loop"
  BY <1>1, <1>5, <1>6, <1>7, <1>8, RestKeeps
<1>9. CASE loc.after = "scan"
  <2>1. \A k \in InUse(svc) : ReportOK(svc, k, loc.ct)
    BY <1>1, <1>9 DEF Inv, ScanInv, ReportsOK, HoldsReports, Unscanned, InEntry
  <2>2. \A k \in InUse(svc') : ReportOK(svc', k, loc'.ct)
    BY <1>3, <1>4, <2>1, SameWaitsKeep
  <2> QED BY <1>1, <1>5, <1>6, <1>7, <1>9, <2>2, ScanKeeps
<1> QED BY <1>2, <1>8, <1>9

-----------------------------------------------------------------------------
(* iosvc_sched and iosvc_sched_timeout.                                    *)

\* The pollfds ask for the event that was scheduled too.
LEMMA EnqueuedAwaits ==
  ASSUME NEW s, NEW s2, SvcOK(s), VecOK(s), SvcOK(s2), VecOK(s2), EventsOK(s),
         NEW fd \in Fds, NEW ty \in Types, NEW h \in Handlers, Enqueued(s, s2, fd, ty, h)
  PROVE  /\ InUse(s) \subseteq InUse(s2)
         /\ AwaitedIn(s2, fd) = AwaitedIn(s, fd) \cup {ty}
         /\ \A g \in Fds : g # fd => AwaitedIn(s2, g) = AwaitedIn(s, g)
         /\ EventsOK(s2)
<1>1. InUse(s) \subseteq InUse(s2)
  BY DEF Enqueued, InUse, SvcOK
<1>2. h # NULL
  BY DEF Handlers, NULL
<1>3. AwaitedIn(s2, fd) = AwaitedIn(s, fd) \cup {ty}
  BY <1>2 DEF AwaitedIn, Scheduled, Enqueued, SvcOK
<1>4. \A g \in Fds : g # fd => AwaitedIn(s2, g) = AwaitedIn(s, g)
  BY DEF AwaitedIn, Scheduled, Enqueued, SvcOK
<1>5. EventsOK(s2)
  <2> SUFFICES ASSUME NEW k \in InUse(s2)
               PROVE  s2.pvec[k].events = AwaitedIn(s2, s2.pvec[k].fd)
    BY DEF EventsOK
  <2>1. CASE k \in InUse(s)
    <3>1. s.pvec[k].fd \in Fds /\ s.pvec[k].events = AwaitedIn(s, s.pvec[k].fd)
      BY <2>1 DEF VecOK, EventsOK
    <3> QED BY <1>3, <1>4, <2>1, <3>1, ZenonT(60) DEF Enqueued
  <2>2. CASE k \notin InUse(s)
    <3>1. s2.pvec[k].fd = fd /\ s2.pvec[k].events = {ty}
      BY <2>2 DEF Enqueued
    <3>2. fd \notin NodesOf(s)
      <4> SUFFICES ASSUME NEW j \in InUse(s), s.pvec[j].fd = fd PROVE FALSE
        BY DEF NodesOf
      <4>1. s2.pvec[j].fd = fd /\ j \in InUse(s2)
        BY <1>1 DEF Enqueued
      <4> QED BY <2>2, <3>1, <4>1 DEF VecOK
    <3>3. AwaitedIn(s, fd) = {}
      BY <3>2 DEF VecOK, AwaitedIn, Scheduled, NoEvents
    <3> QED BY <1>3, <3>1, <3>3
  <2> QED BY <2>1, <2>2
<1> QED BY <1>1, <1>3, <1>4, <1>5

\* A handler is scheduled, with deadline or without, wherever the loop is.  A
\* report or a deadline held there stays right, for the event is one that was
\* not awaited.
LEMMA SchedKeeps ==
  ASSUME Inv, InsertKeepsPlaces, pc \in ClientPoints, Accepts,
         NEW fd \in Fds, NEW ty \in Types, ~Scheduled(svc, fd, ty), nh < MaxHandlers,
         SvcOK(svc'), VecOK(svc'), Enqueued(svc, svc', fd, ty, nh + 1),
         NEW T, svc'.timers = svc.timers \cup T, \A x, y \in T : x = y,
         \A x \in T : x.fd = fd /\ x.ty = ty /\ x.at >= now /\ x.at - x.ms <= now,
         nh' = nh + 1, UNCHANGED <<now, pc, loc, cancels, calls, told>>
  PROVE  Inv'
<1> USE DEF Inv
<1>1. nh + 1 \in Handlers /\ nh' \in 0..MaxHandlers /\ nh' # nh
  BY HandlersAccepted DEF TypeInv
<1>2. pc \in {"main", "sync", "delay", "event", "timeout"} /\ ~Walking /\ pc # "crashed"
  BY DEF StatusInv, Accepts, ClientPoints, Walking
<1>3. SvcOK(svc) /\ VecOK(svc) /\ EventsOK(svc)
  BY <1>2 DEF TypeInv, VecInv
<1>4. /\ InUse(svc) \subseteq InUse(svc')
      /\ AwaitedIn(svc', fd) = AwaitedIn(svc, fd) \cup {ty}
      /\ \A g \in Fds : g # fd => AwaitedIn(svc', g) = AwaitedIn(svc, g)
      /\ EventsOK(svc')
  BY <1>1, <1>3, EnqueuedAwaits
<1>5. \A p \in HeldPlaces : At(svc'.tree, p) = At(svc.tree, p)
  BY <1>1 DEF InsertKeepsPlaces
<1>6. TypeInv' /\ StatusInv'
  BY <1>1 DEF TypeInv, LocOK, StatusInv, Enqueued
<1>7. cancels # <<>> => At(svc'.tree, Head(cancels)) = At(svc.tree, Head(cancels))
  <2> SUFFICES ASSUME cancels # <<>> PROVE At(svc'.tree, Head(cancels)) = At(svc.tree, Head(cancels))
    OBVIOUS
  <2>1. PICK p : cancels = <<p>>
    BY DEF CancelInv
  <2>2. 1 \in DOMAIN cancels /\ cancels[1] = p /\ Head(cancels) = p
    BY <2>1
  <2> QED BY <1>5, <2>2 DEF HeldPlaces
<1>8. CancelInv'
  <2> SUFFICES ASSUME cancels # <<>> PROVE CancelInv'
    BY DEF CancelInv
  <2>1. PICK p \in Places : cancels = <<p>> /\ At(svc.tree, p) \in NodesOf(svc)
    BY DEF CancelInv
  <2>2. At(svc'.tree, p) \in NodesOf(svc')
    BY <1>7, <2>1 DEF Enqueued
  <2> QED BY <2>1, <2>2 DEF CancelInv
<1>9. InEntry => /\ pc = "event" /\ loc.i \in InUse(svc) /\ loc.i \in InUse(svc')
                 /\ Entry'.fd = Entry.fd /\ Entry'.revents = Entry.revents
                 /\ Entry.events \subseteq Entry'.events
                 /\ At(svc'.tree, loc.place) = At(svc.tree, loc.place)
  <2> SUFFICES ASSUME InEntry
               PROVE  /\ pc = "event" /\ loc.i \in InUse(svc) /\ loc.i \in InUse(svc')
                      /\ Entry'.fd = Entry.fd /\ Entry'.revents = Entry.revents
                      /\ Entry.events \subseteq Entry'.events
                      /\ At(svc'.tree, loc.place) = At(svc.tree, loc.place)
    OBVIOUS
  <2>1. pc = "event" /\ loc.i \in InUse(svc)
    BY <1>2 DEF InEntry, ScanInv, EntryOK
  <2>2. Entry = svc.pvec[loc.i] /\ Entry' = svc'.pvec[loc.i]
    BY DEF Entry
  <2>3. /\ Entry'.fd = Entry.fd /\ Entry'.revents = Entry.revents
        /\ Entry.events \subseteq Entry'.events
    BY <2>1, <2>2 DEF Enqueued
  <2>4. At(svc'.tree, loc.place) = At(svc.tree, loc.place)
    BY <1>5, <2>1 DEF HeldPlaces
  <2> QED BY <1>4, <2>1, <2>3, <2>4
<1>10. VecInv'
  <2>1. \A g \in NodesOf(svc') : AwaitedIn(svc', g) = {} => Pending(g)'
    <3> SUFFICES ASSUME NEW g \in NodesOf(svc'), AwaitedIn(svc', g) = {} PROVE Pending(g)'
      OBVIOUS
    <3>1. g # fd
      BY <1>4
    <3>2. g \in NodesOf(svc)
      BY <3>1 DEF Enqueued
    <3>3. Pending(g)
      BY <1>2, <1>3, <1>4, <3>1, <3>2, NodesInFds DEF VecInv
    <3> QED BY <1>7, <1>9, <3>3 DEF Pending, InEntry
  <2> QED BY <1>4, <2>1 DEF VecInv
<1>11. \A x \in svc.timers : Scheduled(svc, x.fd, x.ty) /\ ~(x.fd = fd /\ x.ty = ty)
  BY <1>2 DEF TimerInv, TimersLive, Walking
<1>12. \A f \in Fds, t \in Types : Scheduled(svc, f, t) => Scheduled(svc', f, t)
  BY <1>1, <1>3 DEF Scheduled, Enqueued, SvcOK, Handlers, NULL
<1>13. TimersLive'
  <2>1. Scheduled(svc', fd, ty)
    BY <1>1, <1>3 DEF Scheduled, Enqueued, SvcOK, Handlers, NULL
  <2>2. \A x \in svc.timers : x.fd \in Fds /\ x.ty \in Types
    BY <1>3 DEF SvcOK, TimerEntries
  <2>3. \A x \in svc'.timers : Scheduled(svc', x.fd, x.ty)
    BY <1>11, <1>12, <2>1, <2>2
  <2>4. \A x, y \in svc'.timers : x.fd = y.fd /\ x.ty = y.ty => x = y
    BY <1>2, <1>11 DEF TimerInv, TimersLive, Walking
  <2> QED BY <2>3, <2>4 DEF TimersLive
<1>14. TimerInv'
  <2>1. now \in Int /\ told.due \in Int /\ \A x \in svc'.timers : x.at \in Int
    BY DEF TypeInv, SvcOK, TimerEntries
  <2>2. EarliestFirst'
    BY <2>1 DEF TimerInv, EarliestFirst, Enqueued
  <2> QED BY <1>2, <1>13, <2>2 DEF TimerInv, RemainingTime, Walking, Enqueued
<1>15. \A f, t : Scheduled(svc, f, t) => TimerOf(svc', f, t) = TimerOf(svc, f, t)
  BY DEF TimerOf
<1>16. ReportsOK'
  <2> SUFFICES ASSUME HoldsReports', NEW k \in InUse(svc'), Unscanned(k)'
               PROVE  ReportOK(svc', k, loc'.ct)
    BY DEF ReportsOK
  <2>1. CASE k \notin InUse(svc)
    BY <2>1 DEF ReportOK, Enqueued
  <2>2. CASE k \in InUse(svc)
    <3>1. ReportOK(svc, k, loc.ct)
      BY <2>2 DEF ScanInv, ReportsOK, HoldsReports, Unscanned, InEntry
    <3> SUFFICES ASSUME NEW t \in WaitTypes, Flag(t) \in svc'.pvec[k].revents
                 PROVE  /\ t \in svc'.pvec[k].events
                        /\ \A x \in TimerOf(svc', svc'.pvec[k].fd, t) : x.at - x.ms <= loc.ct
      BY DEF ReportOK
    <3>2. /\ t \in svc.pvec[k].events
          /\ \A x \in TimerOf(svc, svc.pvec[k].fd, t) : x.at - x.ms <= loc.ct
      BY <2>2, <3>1 DEF ReportOK, Enqueued
    <3>3. Scheduled(svc, svc.pvec[k].fd, t)
      BY <1>3, <2>2, <3>2 DEF EventsOK, AwaitedIn
    <3>4. t \in svc'.pvec[k].events /\ svc'.pvec[k].fd = svc.pvec[k].fd
      BY <2>2, <3>2 DEF Enqueued
    <3> QED BY <1>15, <3>2, <3>3, <3>4
  <2> QED BY <2>1, <2>2
<1>17. EntryOK'
  BY <1>9 DEF ScanInv, EntryOK, InEntry
<1>18. TodosOK'
  <2> SUFFICES ASSUME InEntry, ~loc.nval PROVE TodosOK'
    BY DEF TodosOK, InEntry
  <2>1. \A t : TodoOK(t) => TodoOK(t)'
    <3> SUFFICES ASSUME NEW t, TodoOK(t), ~(t = "WAIT_READ" /\ "HUP" \in Entry.revents)
                 PROVE  TodoOK(t)'
      BY <1>9 DEF TodoOK
    <3>1. t \in Entry.events
      BY DEF TodoOK
    <3>2. Scheduled(svc, Entry.fd, t)
      BY <1>3, <1>9, <3>1 DEF EventsOK, AwaitedIn, Entry
    <3> QED BY <1>9, <1>15, <3>1, <3>2 DEF TodoOK
  <2> QED BY <2>1 DEF ScanInv, TodosOK, InEntry
<1>19. ScanInv'
  BY <1>2, <1>16, <1>17, <1>18 DEF ScanInv, Enqueued, OnlyHangupsCrash
<1>20. WalkInv'
  BY <1>2 DEF WalkInv, Walking
<1> QED BY <1>6, <1>8, <1>10, <1>14, <1>19, <1>20

\* The search of a node ends.
LEMMA SearchEnds ==
  ASSUME TreeSound, NEW fd \in Fds
  PROVE  ~SearchHangs(svc, fd)
BY DEF TreeSound, Searchable, SearchHangs

\* iosvc_sched.
LEMMA SchedActionKeeps ==
  ASSUME Inv, TreeSound, InsertKeepsPlaces, NEW fd \in Fds, NEW ty \in Types,
         iosvc_sched(fd, ty)
  PROVE  Inv'
<1>1. /\ pc \in ClientPoints /\ Accepts /\ ~Scheduled(svc, fd, ty)
      /\ nh < MaxHandlers /\ nh' = nh + 1 /\ svc' = Enqueue(svc, fd, ty, nh + 1)
      /\ UNCHANGED <<now, pc, loc, cancels, calls, told>>
  BY SearchEnds DEF iosvc_sched, May, Accepted
<1>2. SvcOK(svc) /\ VecOK(svc) /\ Searchable(svc.tree, NodesOf(svc)) /\ nh + 1 \in Handlers
  BY <1>1, HandlersAccepted DEF Inv, TypeInv, VecInv, TreeSound
<1>3. /\ SvcOK(svc') /\ VecOK(svc') /\ Enqueued(svc, svc', fd, ty, nh + 1)
      /\ svc'.timers = svc.timers \cup {}
  BY <1>1, <1>2, EnqueueChanges
<1>4. PICK T : T = {}
  OBVIOUS
<1>5. /\ svc'.timers = svc.timers \cup T /\ \A x, y \in T : x = y
      /\ \A x \in T : x.fd = fd /\ x.ty = ty /\ x.at >= now /\ x.at - x.ms <= now
  BY <1>3, <1>4
<1> QED BY <1>1, <1>3, <1>5, SchedKeeps

\* iosvc_sched_timeout.
LEMMA SchedTimeoutKeeps ==
  ASSUME Inv, TreeSound, InsertKeepsPlaces, NEW fd \in Fds, NEW ty \in Types,
         NEW ms \in Delays, iosvc_sched_timeout(fd, ty, ms)
  PROVE  Inv'
<1> DEFINE x0 == [fd |-> fd, ty |-> ty, at |-> now + ms, ms |-> ms]
           s1 == Emplace(svc)
           s2 == Enqueue(s1, fd, ty, nh + 1)
<1>1. /\ pc \in ClientPoints /\ Accepts /\ ~Scheduled(svc, fd, ty)
      /\ nh < MaxHandlers /\ nh' = nh + 1 /\ now + ms <= MaxTime
      /\ svc' = [s2 EXCEPT !.timers = @ \cup {x0}]
      /\ UNCHANGED <<now, pc, loc, cancels, calls, told>>
  BY SearchEnds DEF iosvc_sched_timeout, May, Accepted
<1>2. /\ x0 \in TimerEntries /\ x0.fd = fd /\ x0.ty = ty /\ x0.at >= now
      /\ x0.at - x0.ms <= now
  BY <1>1, IoServiceAssumption DEF Inv, TypeInv, TimerEntries
<1>3. SvcOK(svc) /\ VecOK(svc) /\ Searchable(svc.tree, NodesOf(svc)) /\ nh + 1 \in Handlers
  BY <1>1, HandlersAccepted DEF Inv, TypeInv, VecInv, TreeSound
<1>4. /\ SvcOK(s1) /\ SameWaits(svc, s1)
      /\ s1.delays = svc.delays /\ s1.status = svc.status /\ s1.sync = svc.sync
  BY <1>3, EmplaceChanges
<1> HIDE DEF s1, x0
<1>5. /\ VecOK(s1) /\ InUse(s1) = InUse(svc) /\ NodesOf(s1) = NodesOf(svc)
      /\ Searchable(s1.tree, NodesOf(s1))
  BY <1>3, <1>4, SameWaitsKeep DEF SameWaits
<1>6. /\ SvcOK(s2) /\ VecOK(s2) /\ Enqueued(s1, s2, fd, ty, nh + 1)
      /\ s2.timers = s1.timers
  BY <1>3, <1>4, <1>5, EnqueueChanges
<1> HIDE DEF s2
<1>7. /\ svc'.timers = s2.timers \cup {x0}
      /\ svc'.status = s2.status /\ svc'.sync = s2.sync /\ svc'.delays = s2.delays
      /\ svc'.tree = s2.tree /\ svc'.pvec = s2.pvec /\ svc'.npoll = s2.npoll
      /\ svc'.idx = s2.idx /\ svc'.evts = s2.evts
  BY <1>1, <1>6 DEF SvcOK
<1>8. SvcOK(svc')
  BY <1>1, <1>2, <1>6, <1>7 DEF SvcOK
<1>9. InUse(svc') = InUse(s2) /\ NodesOf(svc') = NodesOf(s2)
  BY <1>7 DEF InUse, NodesOf
<1>10. VecOK(svc')
  BY <1>6, <1>7, <1>9 DEF VecOK
<1>11. Enqueued(svc, svc', fd, ty, nh + 1)
  BY <1>4, <1>5, <1>6, <1>7, <1>9 DEF Enqueued, SameWaits
<1>12. svc'.timers = svc.timers \cup {x0}
  BY <1>4, <1>6, <1>7 DEF SameWaits
<1> QED BY <1>1, <1>2, <1>8, <1>10, <1>11, <1>12, SchedKeeps

-----------------------------------------------------------------------------
(* Steps that take a handler out and call it.                              *)

\* The pollfds no longer ask for the event that was taken out.
LEMMA DequeuedAwaits ==
  ASSUME NEW s, NEW s2, SvcOK(s), VecOK(s), EventsOK(s), SvcOK(s2), VecOK(s2),
         NEW fd \in Fds, NEW ty \in Types, Dequeued(s, s2, fd, ty)
  PROVE  /\ InUse(s2) = InUse(s)
         /\ AwaitedIn(s2, fd) = AwaitedIn(s, fd) \ {ty}
         /\ \A g \in Fds : g # fd => AwaitedIn(s2, g) = AwaitedIn(s, g)
         /\ EventsOK(s2)
         /\ TimersOK(s) => TimersOK(s2)
         /\ \A g, t : TimerOf(s2, g, t) \subseteq TimerOf(s, g, t)
<1>1. InUse(s2) = InUse(s)
  BY DEF Dequeued, InUse
<1>2. AwaitedIn(s2, fd) = AwaitedIn(s, fd) \ {ty}
  BY DEF AwaitedIn, Scheduled, Dequeued, SvcOK
<1>3. \A g \in Fds : g # fd => AwaitedIn(s2, g) = AwaitedIn(s, g)
  BY DEF AwaitedIn, Scheduled, Dequeued, SvcOK
<1>4. EventsOK(s2)
  <2> SUFFICES ASSUME NEW k \in InUse(s)
               PROVE  s2.pvec[k].events = AwaitedIn(s2, s2.pvec[k].fd)
    BY <1>1 DEF EventsOK
  <2>1. s.pvec[k].fd \in Fds /\ s.pvec[k].events = AwaitedIn(s, s.pvec[k].fd)
    BY DEF VecOK, EventsOK
  <2> QED BY <1>2, <1>3, <2>1 DEF Dequeued
<1>5. TimersOK(s) => TimersOK(s2)
  <2> SUFFICES ASSUME TimersOK(s), NEW x \in s2.timers PROVE Scheduled(s2, x.fd, x.ty)
    BY DEF TimersOK, Dequeued
  <2>1. x \in s.timers /\ ~(x.fd = fd /\ x.ty = ty) /\ x.fd \in Fds /\ x.ty \in Types
    BY DEF Dequeued, TimerOf, SvcOK, TimerEntries
  <2>2. Scheduled(s, x.fd, x.ty)
    BY <2>1 DEF TimersOK
  <2> QED BY <2>1, <2>2 DEF Scheduled, Dequeued, SvcOK
<1>6. \A g, t : TimerOf(s2, g, t) \subseteq TimerOf(s, g, t)
  BY DEF TimerOf, Dequeued
<1> QED BY <1>1, <1>2, <1>3, <1>4, <1>5, <1>6

\* What m tells of a handler called with code c at time t.
ToldOf(m, s, fd, ty, t, c) ==
    /\ m \in [code : Codes, left : Nat, ms : Nat, due : Nat]
    /\ m.code = c
    /\ TimerOf(s, fd, ty) = {} => m.left = 0 /\ m.due = 0
    /\ TimerOf(s, fd, ty) # {} =>
          \E x \in TimerOf(s, fd, ty) : m.left = max0(x.at - t) /\ m.ms = x.ms /\ m.due = x.at

\* What Tell gives: the time left of the one deadline there is.
LEMMA TellFacts ==
  ASSUME NEW s, SvcOK(s), NEW fd, NEW ty, NEW t \in 0..MaxTime, NEW c \in Codes
  PROVE  ToldOf(Tell(s, fd, ty, t, c), s, fd, ty, t, c)
<1> USE DEF ToldOf
<1>1. CASE TimerOf(s, fd, ty) = {}
  <2>1. Tell(s, fd, ty, t, c) = [code |-> c, left |-> 0, ms |-> 0, due |-> 0]
    BY <1>1, PlainlyTold DEF Tell
  <2> QED BY <1>1, <2>1
<1>2. CASE TimerOf(s, fd, ty) # {}
  <2> DEFINE x == CHOOSE x \in TimerOf(s, fd, ty) : TRUE
  <2>1. x \in TimerOf(s, fd, ty)
    BY <1>2
  <2>2. Tell(s, fd, ty, t, c) = [code |-> c, left |-> max0(x.at - t), ms |-> x.ms, due |-> x.at]
    BY <1>2 DEF Tell
  <2> HIDE DEF x
  <2>3. x.at \in 0..MaxTime /\ x.ms \in Nat
    BY <2>1, IoServiceAssumption DEF TimerOf, SvcOK, TimerEntries
  <2>4. max0(x.at - t) \in Nat
    BY <2>3 DEF max0
  <2> QED BY <1>2, <2>1, <2>2, <2>3, <2>4
<1> QED BY <1>1, <1>2

\* A step that crashes leaves everything as it was.
LEMMA CrashKeeps ==
  ASSUME Inv, Crash, ~Walking, loc.i \in InUse(svc), OnlyHangupsCrash'
  PROVE  Inv'
<1>1. pc' = "crashed" /\ UNCHANGED <<svc, now, loc, cancels, nh, calls, told>>
  BY DEF Crash
<1>2. TypeInv' /\ StatusInv' /\ CancelInv'
  BY <1>1 DEF Inv, TypeInv, LocOK, Pcs, StatusInv, CancelInv
<1>3. VecInv' /\ WalkInv'
  BY <1>1 DEF Inv, VecInv, Walking, WalkInv
<1>4. TimerInv'
  BY <1>1 DEF Inv, TimerInv, TimersLive, EarliestFirst, RemainingTime, Walking
<1>5. ScanInv'
  BY <1>1 DEF ScanInv, ReportsOK, EntryOK, TodosOK, HoldsReports, InEntry
<1> QED BY <1>2, <1>3, <1>4, <1>5 DEF Inv

\* A careful client cancels in posted handlers only, and not from a cancelled one.
LEMMA CancelsWhenPosted ==
  ASSUME Inv, Careful, May("cancel"), svc.status = "RUNNING"
  PROVE  pc = "sync" /\ cancels = <<>>
BY DEF Inv, Careful, May, Context, ClientPoints, StatusInv

\* iosvc_cancel up to the call of the handler.
LEMMA CancelKeeps ==
  ASSUME Inv, Careful, TreeSound, NEW fd \in Fds, NEW ty \in Types, iosvc_cancel(fd, ty)
  PROVE  Inv'
<1> DEFINE p == rb_probe(svc.tree, RootPlace, fd)
<1>1. /\ May("cancel") /\ svc.status = "RUNNING" /\ Scheduled(svc, fd, ty)
      /\ At(svc.tree, p) # Nil /\ svc' = Dequeue(svc, fd, ty)
      /\ Count(svc.evts[fd][ty]) /\ told' = Tell(svc, fd, ty, 0, "EIO_CANCELLED")
      /\ cancels' = <<p>> \o cancels /\ UNCHANGED <<now, pc, loc, nh>>
  BY SearchEnds DEF iosvc_cancel
<1>2. pc = "sync" /\ cancels = <<>>
  BY <1>1, CancelsWhenPosted
<1>3. fd \in NodesOf(svc) /\ p \in Places /\ At(svc.tree, p) = fd
  BY <1>1 DEF TreeSound, Searchable
<1> HIDE DEF p
<1>4. SvcOK(svc) /\ Settled(svc) /\ 0 \in 0..MaxTime
  BY <1>2, AtRest, IoServiceAssumption DEF Inv, TypeInv
<1>5. SvcOK(svc') /\ VecOK(svc') /\ Dequeued(svc, svc', fd, ty)
  BY <1>1, <1>3, <1>4, DequeueChanges DEF Settled
<1>6. /\ \A g \in Fds : g # fd => AwaitedIn(svc', g) = AwaitedIn(svc, g)
      /\ EventsOK(svc') /\ TimersOK(svc')
  BY <1>4, <1>5, DequeuedAwaits DEF Settled
<1>7. /\ told' \in [code : Codes, left : Nat, ms : Nat, due : Nat]
      /\ told'.code = "EIO_CANCELLED"
  <2>1. "EIO_CANCELLED" \in Codes
    BY DEF Codes
  <2>2. ToldOf(told', svc, fd, ty, 0, "EIO_CANCELLED")
    BY <1>1, <1>4, <2>1, TellFacts
  <2> QED BY <2>2 DEF ToldOf
<1>8. TypeInv' /\ StatusInv'
  BY <1>1, <1>2, <1>5, <1>7, CountType DEF Inv, TypeInv, StatusInv, LocOK, Dequeued
<1>9. cancels' = <<p>> /\ Head(cancels') = p /\ cancels' # <<>>
  BY <1>1, <1>2
<1>10. CancelInv'
  BY <1>1, <1>2, <1>3, <1>5, <1>9 DEF CancelInv, Dequeued
<1>11. VecInv'
  <2> SUFFICES ASSUME NEW g \in NodesOf(svc'), AwaitedIn(svc', g) = {} PROVE Pending(g)'
    BY <1>5, <1>6 DEF VecInv
  <2>1. g \in NodesOf(svc) /\ g \in Fds
    BY <1>4, <1>5, NodesInFds DEF Dequeued, Settled
  <2>2. g = fd
    BY <1>4, <1>6, <2>1 DEF Settled
  <2> QED BY <1>3, <1>5, <1>9, <2>2 DEF Pending, Dequeued
<1>12. TimerInv'
  <2>1. RemainingTime' /\ EarliestFirst' /\ TimersLive' /\ ~Walking'
    BY <1>1, <1>2, <1>6, <1>7 DEF TimersLive, TimersOK, EarliestFirst, RemainingTime, Walking
  <2>2. \A x \in svc'.timers : x.at - x.ms <= now
    BY <1>5 DEF Inv, TimerInv, Dequeued
  <2> QED BY <1>1, <1>2, <2>1, <2>2 DEF Inv, TimerInv
<1>13. ScanInv' /\ WalkInv'
  BY <1>1, <1>2 DEF ScanInv, ReportsOK, EntryOK, TodosOK, HoldsReports, InEntry,
       OnlyHangupsCrash, WalkInv, Walking
<1> QED BY <1>8, <1>10, <1>11, <1>12, <1>13 DEF Inv

\* The types awaited are among those in use, and a place of a node is no place in
\* freed memory.
LEMMA PlaceIsValid ==
  ASSUME NEW p \in Places, At(svc.tree, p) \in Fds
  PROVE  Valid(p)
BY FdsAssumption DEF Valid, Places, Dangling, Nil

\* The first of the events still to be dispatched, and the others.
LEMMA HeadOfTodo ==
  ASSUME NEW q \in Seq(WaitTypes), q # <<>>, Distinct(q)
  PROVE  /\ Tail(q) \in Seq(WaitTypes) /\ Distinct(Tail(q)) /\ 1 \in DOMAIN q
         /\ Head(q) = q[1] /\ Head(q) \in WaitTypes
         /\ \A k \in DOMAIN Tail(q) : /\ k + 1 \in DOMAIN q /\ Tail(q)[k] = q[k + 1]
                                      /\ Tail(q)[k] # Head(q)
<1>1. 1 \in DOMAIN q /\ Head(q) = q[1] /\ Head(q) \in WaitTypes /\ Tail(q) \in Seq(WaitTypes)
  OBVIOUS
<1>2. \A k \in DOMAIN Tail(q) : k \in Nat /\ k >= 1 /\ k + 1 \in DOMAIN q /\ Tail(q)[k] = q[k + 1]
  OBVIOUS
<1>3. \A k \in DOMAIN Tail(q) : Tail(q)[k] # Head(q)
  BY <1>1, <1>2 DEF Distinct
<1>4. Distinct(Tail(q))
  <2> SUFFICES ASSUME NEW j \in DOMAIN Tail(q), NEW k \in DOMAIN Tail(q),
                      Tail(q)[j] = Tail(q)[k]
               PROVE  j = k
    BY DEF Distinct
  <2>1. j + 1 = k + 1
    BY <1>2 DEF Distinct
  <2> QED BY <1>2, <2>1
<1> QED BY <1>1, <1>2, <1>3, <1>4

\* dispatch_ready_events calls a handler.  It finds none only after a hang-up.
LEMMA CallEventKeeps ==
  ASSUME Inv, call_event
  PROVE  Inv'
<1> USE DEF Inv
<1> DEFINE n == At(svc.tree, loc.place)
           ty == Head(loc.todo)
<1>1. pc = "entry" /\ loc.todo # <<>> /\ (loc.nval => ty \in Entry.events)
  BY DEF call_event
<1>2. InEntry /\ ~Walking /\ cancels = <<>>
  BY <1>1 DEF InEntry, Walking, CancelInv
<1>3. SvcOK(svc) /\ VecOK(svc) /\ EventsOK(svc) /\ TimersOK(svc) /\ LocOK
  BY <1>2 DEF TypeInv, VecInv, TimerInv, TimersLive, TimersOK, Walking
<1>4. loc.i \in InUse(svc) /\ loc.place \in Places /\ n = Entry.fd /\ Entry = svc.pvec[loc.i]
  BY <1>2 DEF ScanInv, EntryOK, Entry
<1>5. n \in NodesOf(svc) /\ n \in Fds /\ Entry.events = AwaitedIn(svc, n)
  BY <1>3, <1>4, NodesInFds DEF EventsOK
<1>6. Valid(loc.place)
  BY <1>4, <1>5, PlaceIsValid
<1>7. ~loc.nval => /\ loc.todo \in Seq(WaitTypes) /\ Distinct(loc.todo)
                   /\ \A k \in DOMAIN loc.todo : TodoOK(loc.todo[k])
                   /\ TodoOK(ty)
  BY <1>1, <1>2, HeadOfTodo DEF ScanInv, TodosOK
<1>8. ty \in Entry.events \/ (ty = "WAIT_READ" /\ "HUP" \in Entry.revents)
  BY <1>1, <1>7, <1>3 DEF TodoOK, LocOK
<1>9. "HUP" \in Entry.revents => "HUP" \in Faults /\ "WAIT_READ" \in Types
  <2>1. Entry \in Pollfds
    BY <1>3, <1>4, FdsCount DEF SvcOK, InUse, Slots
  <2> QED BY <2>1, IoServiceAssumption DEF Pollfds, Conditions
<1>10. ty \in Types
  BY <1>5, <1>8, <1>9 DEF AwaitedIn
<1>11. CASE ~Scheduled(svc, n, ty)
  <2>1. ty = "WAIT_READ" /\ "HUP" \in Entry.revents
    BY <1>5, <1>8, <1>11 DEF AwaitedIn
  <2>2. Crash
    BY <1>6, <1>11 DEF call_event
  <2>3. OnlyHangupsCrash'
    BY <1>1, <1>4, <1>11, <2>1, <2>2 DEF Crash, OnlyHangupsCrash, Entry, Scheduled
  <2> QED BY <1>2, <1>4, <2>2, <2>3, CrashKeeps
<1>12. CASE Scheduled(svc, n, ty)
  <2> DEFINE c == IF loc.nval THEN "EIO_INVARG" ELSE "EIO_OK"
  <2>1. /\ svc' = Dequeue(svc, n, ty) /\ Count(svc.evts[n][ty])
        /\ told' = Tell(svc, n, ty, loc.ct, c) /\ loc' = [loc EXCEPT !.todo = Tail(@)]
        /\ pc' = "event" /\ UNCHANGED <<now, cancels, nh>>
    BY <1>6, <1>12 DEF call_event
  <2>2. c \in Codes /\ loc.ct \in 0..MaxTime
    BY <1>3 DEF Codes, LocOK
  <2> HIDE DEF n, ty
  <2>3. SvcOK(svc') /\ VecOK(svc') /\ Dequeued(svc, svc', n, ty)
    BY <1>3, <1>5, <1>10, <2>1, DequeueChanges
  <2>4. /\ InUse(svc') = InUse(svc) /\ EventsOK(svc') /\ TimersOK(svc')
        /\ \A g \in Fds : g # n => AwaitedIn(svc', g) = AwaitedIn(svc, g)
        /\ \A g, t : TimerOf(svc', g, t) \subseteq TimerOf(svc, g, t)
    BY <1>3, <1>5, <1>10, <2>3, DequeuedAwaits
  <2>5. /\ LocOK' /\ loc'.i = loc.i /\ loc'.place = loc.place /\ loc'.nval = loc.nval
        /\ loc'.ct = loc.ct /\ loc'.todo = Tail(loc.todo)
    BY <1>3, <2>1 DEF LocOK
  <2>6. /\ Entry'.fd = n /\ Entry'.events = Entry.events \ {ty}
        /\ Entry'.revents = Entry.revents
    BY <1>4, <2>3, <2>5 DEF Entry, Dequeued
  <2>7. /\ told' \in [code : Codes, left : Nat, ms : Nat, due : Nat] /\ told'.code = c
        /\ TimerOf(svc, n, ty) = {} => told'.left = 0 /\ told'.due = 0
        /\ TimerOf(svc, n, ty) # {} =>
             \E x \in TimerOf(svc, n, ty) :
                told'.left = max0(x.at - loc.ct) /\ told'.ms = x.ms /\ told'.due = x.at
    <3> HIDE DEF c
    <3>1. ToldOf(told', svc, n, ty, loc.ct, c)
      BY <1>3, <2>1, <2>2, TellFacts
    <3> QED BY <3>1 DEF ToldOf
  <2>8. TypeInv' /\ StatusInv' /\ CancelInv' /\ WalkInv'
    BY <1>1, <1>2, <1>3, <2>1, <2>3, <2>5, <2>7, CountType
       DEF TypeInv, StatusInv, CancelInv, WalkInv, Walking, Pcs, Dequeued
  <2>9. VecInv'
    <3> SUFFICES ASSUME NEW g \in NodesOf(svc'), AwaitedIn(svc', g) = {} PROVE Pending(g)'
      BY <2>3, <2>4 DEF VecInv
    <3>1. g \in NodesOf(svc) /\ g \in Fds
      BY <1>3, <2>3, NodesInFds DEF Dequeued
    <3>2. CASE g = n
      BY <2>1, <2>6, <3>2 DEF Pending, InEntry
    <3>3. CASE g # n
      <4>1. AwaitedIn(svc, g) = {}
        BY <2>4, <3>1, <3>3
      <4>2. Pending(g)
        BY <1>1, <1>2, <3>1, <4>1 DEF VecInv
      <4> QED BY <1>1, <1>2, <1>4, <3>3, <4>2 DEF Pending
    <3> QED BY <3>2, <3>3
  <2>10. "HUP" \notin Faults => RemainingTime'
    <3> SUFFICES ASSUME "HUP" \notin Faults, ~loc.nval
                 PROVE  told'.left <= told'.ms /\ (told'.left = 0 => told'.due <= now)
      BY <2>1, <2>7 DEF RemainingTime, LocOK
    <3>1. \A x \in TimerOf(svc, n, ty) : x.at - x.ms <= loc.ct
      BY <1>4, <1>7, <1>9 DEF TodoOK
    <3>2. \A x \in TimerOf(svc, n, ty) : x.at \in Int /\ x.ms \in Nat
      BY <1>3, IoServiceAssumption DEF TimerOf, SvcOK, TimerEntries
    <3>3. loc.ct <= now /\ loc.ct \in Int /\ now \in Nat
      BY <2>2 DEF TimerInv, TypeInv
    <3>4. CASE TimerOf(svc, n, ty) = {}
      BY <2>7, <3>3, <3>4
    <3>5. CASE TimerOf(svc, n, ty) # {}
      <4>1. PICK x \in TimerOf(svc, n, ty) :
               told'.left = max0(x.at - loc.ct) /\ told'.ms = x.ms /\ told'.due = x.at
        BY <2>7, <3>5
      <4> QED BY <3>1, <3>2, <3>3, <4>1 DEF max0
    <3> QED BY <3>4, <3>5
  <2>11. TimerInv'
    <3>1. EarliestFirst' /\ TimersLive' /\ ~Walking'
      BY <2>1, <2>4 DEF TimersLive, TimersOK, EarliestFirst, Walking
    <3>2. \A x \in svc'.timers : x.at - x.ms <= now
      BY <2>3 DEF TimerInv, Dequeued
    <3> QED BY <2>1, <2>5, <2>10, <3>1, <3>2 DEF TimerInv
  <2>12. ReportsOK'
    <3> SUFFICES ASSUME NEW k \in InUse(svc), k > loc.i PROVE ReportOK(svc', k, loc.ct)
      BY <2>1, <2>4, <2>5 DEF ReportsOK, Unscanned, InEntry
    <3>1. ReportOK(svc, k, loc.ct)
      BY <1>1 DEF ScanInv, ReportsOK, HoldsReports, Unscanned, InEntry
    <3>2. svc.pvec[k].fd # n
      BY <1>3, <1>4 DEF VecOK, InUse, SvcOK
    <3>3. svc'.pvec[k].events = svc.pvec[k].events /\ svc'.pvec[k].fd = svc.pvec[k].fd
          /\ svc'.pvec[k].revents = svc.pvec[k].revents
      BY <2>3, <3>2 DEF Dequeued
    <3> QED BY <2>4, <3>1, <3>3 DEF ReportOK
  <2>13. EntryOK'
    BY <1>4, <2>3, <2>4, <2>5, <2>6 DEF EntryOK, Dequeued, n
  <2>14. TodosOK'
    <3> SUFFICES ASSUME ~loc.nval PROVE TodosOK'
      BY <2>5 DEF TodosOK
    <3>1. /\ Tail(loc.todo) \in Seq(WaitTypes) /\ Distinct(Tail(loc.todo))
          /\ \A k \in DOMAIN Tail(loc.todo) :
                /\ k + 1 \in DOMAIN loc.todo /\ Tail(loc.todo)[k] = loc.todo[k + 1]
                /\ Tail(loc.todo)[k] # ty
      BY <1>1, <1>7, HeadOfTodo DEF ty
    <3>2. \A t : t # ty /\ TodoOK(t) => TodoOK(t)'
      BY <1>4, <2>4, <2>5, <2>6 DEF TodoOK
    <3> QED BY <1>7, <2>5, <3>1, <3>2 DEF TodosOK
  <2>15. ScanInv'
    BY <2>1, <2>12, <2>13, <2>14 DEF ScanInv, OnlyHangupsCrash
  <2> QED BY <2>8, <2>9, <2>11, <2>15
<1> QED BY <1>11, <1>12

-----------------------------------------------------------------------------
(* Steps that clean up a node without handlers.                            *)

\* After the one node without handlers is freed nothing is left to be cleaned
\* up, and the report that moved with the last pollfd still holds.
LEMMA CleanedUpSettled ==
  ASSUME NEW s, NEW s2, SvcOK(s), VecOK(s), EventsOK(s), TimersOK(s), SvcOK(s2), VecOK(s2),
         NEW n \in NodesOf(s), AwaitedIn(s, n) = {}, CleanedUp(s, s2, n),
         \A g \in NodesOf(s) : g # n => AwaitedIn(s, g) # {}
  PROVE  /\ Settled(s2)
         /\ \A k \in InUse(s2) : \A t :
               ReportOK(s, IF k = s.idx[n] THEN s2.npoll ELSE k, t) => ReportOK(s2, k, t)
<1>0. n \in Fds /\ NodesOf(s) \subseteq Fds /\ NodesOf(s2) = NodesOf(s) \ {n}
  BY NodesInFds DEF CleanedUp
<1>1. \A g \in Fds : g # n => AwaitedIn(s2, g) = AwaitedIn(s, g)
  BY <1>0 DEF AwaitedIn, Scheduled, CleanedUp, SvcOK
<1>2. \A g \in NodesOf(s2) : AwaitedIn(s2, g) # {}
  BY <1>0, <1>1
<1>3. \A k \in InUse(s2) : LET j == IF k = s.idx[n] THEN s2.npoll ELSE k
                           IN  j \in InUse(s) /\ s2.pvec[k] = s.pvec[j] /\ s.pvec[j].fd # n
  <2> SUFFICES ASSUME NEW k \in InUse(s2), NEW j, j = IF k = s.idx[n] THEN s2.npoll ELSE k
               PROVE  j \in InUse(s) /\ s2.pvec[k] = s.pvec[j] /\ s.pvec[j].fd # n
    OBVIOUS
  <2>1. j \in InUse(s) /\ s2.pvec[k] = s.pvec[j]
    BY DEF CleanedUp, InUse, SvcOK
  <2>2. s2.pvec[k].fd # n
    BY <1>0 DEF NodesOf
  <2> QED BY <2>1, <2>2
<1>4. EventsOK(s2)
  <2> SUFFICES ASSUME NEW k \in InUse(s2)
               PROVE  s2.pvec[k].events = AwaitedIn(s2, s2.pvec[k].fd)
    BY DEF EventsOK
  <2>1. PICK j \in InUse(s) : s2.pvec[k] = s.pvec[j] /\ s.pvec[j].fd # n
    BY <1>3
  <2>2. s.pvec[j].events = AwaitedIn(s, s.pvec[j].fd) /\ s.pvec[j].fd \in Fds
    BY DEF EventsOK, VecOK
  <2> QED BY <1>1, <2>1, <2>2
<1>5. TimersOK(s2)
  <2>1. \A x \in s.timers : x.fd # n /\ x.fd \in Fds
    BY DEF TimersOK, AwaitedIn, SvcOK, TimerEntries
  <2> QED BY <1>0, <2>1 DEF TimersOK, Scheduled, CleanedUp, SvcOK
<1>6. \A k \in InUse(s2) : \A t :
         ReportOK(s, IF k = s.idx[n] THEN s2.npoll ELSE k, t) => ReportOK(s2, k, t)
  BY <1>3 DEF ReportOK, TimerOf, CleanedUp
<1> QED BY <1>2, <1>4, <1>5, <1>6 DEF Settled

\* The test of the code is whether handlers are left.
LEMMA NothingAwaitedIs ==
  ASSUME NEW s, SvcOK(s), VecOK(s), EventsOK(s), NEW n \in NodesOf(s)
  PROVE  NothingAwaited(s, n) <=> AwaitedIn(s, n) = {}
BY NodeSlot DEF NothingAwaited, EventsOK

\* The cancelled handler returns to iosvc_cancel.
LEMMA CancelReturnKeeps ==
  ASSUME Inv, TreeSound, cancel_return
  PROVE  Inv'
<1> USE DEF Inv
<1>1. pc \in ClientPoints /\ cancels # <<>>
  BY DEF cancel_return
<1>2. PICK p \in Places : cancels = <<p>> /\ At(svc.tree, p) \in NodesOf(svc)
  BY <1>1 DEF CancelInv
<1> DEFINE n == At(svc.tree, p)
<1>3. pc = "sync" /\ Head(cancels) = p /\ Len(cancels) = 1 /\ Tail(cancels) = <<>>
  BY <1>1, <1>2 DEF CancelInv, ClientPoints
<1>4. SvcOK(svc) /\ VecOK(svc) /\ EventsOK(svc) /\ TimersOK(svc) /\ LocOK
  BY <1>3 DEF TypeInv, VecInv, TimerInv, TimersLive, TimersOK, Walking
<1>5. Valid(p)
  BY <1>2, <1>4, NodesInFds, PlaceIsValid
<1>6. ~MovedIsLost(svc, p)
  BY <1>2, <1>4, MovedIsFound DEF TreeSound
<1>7. \A g \in NodesOf(svc) : g # n => AwaitedIn(svc, g) # {}
  BY <1>3 DEF VecInv, Pending, Walking, InEntry
<1>8. NothingAwaited(svc, n) <=> AwaitedIn(svc, n) = {}
  BY <1>2, <1>4, NothingAwaitedIs
<1>9. now \in Nat /\ loc.ct <= now /\ Asked(svc, now)
  BY DEF TypeInv, TimerInv, Asked
<1>10. CASE ~NothingAwaited(svc, n)
  <2>1. cancels' = <<>> /\ told' = NotCalled /\ UNCHANGED <<svc, now, pc, loc, nh, calls>>
    BY <1>3, <1>5, <1>10 DEF cancel_return
  <2>2. Settled(svc')
    BY <1>4, <1>7, <1>8, <1>10, <2>1 DEF Settled
  <2>3. TypeInv' /\ StatusInv'
    BY <2>1 DEF TypeInv, StatusInv, LocOK, NotCalled, Codes
  <2>4. Asked(svc', now') /\ loc'.ct <= now' /\ RemainingTime'
    BY <1>9, <2>1 DEF RemainingTime, NotCalled
  <2> QED BY <1>3, <2>1, <2>2, <2>3, <2>4, RestKeeps
<1>11. CASE NothingAwaited(svc, n)
  <2>1. /\ svc' = Cleanup(svc, p) /\ told' = NotCalled /\ UNCHANGED <<now, pc, nh, calls>>
        /\ cancels' = [k \in 1..(Len(cancels) - 1) |-> Freed(cancels[k + 1], n)]
        /\ loc' = [loc EXCEPT !.place = Freed(@, n),
                              !.node = IF @ = n THEN Dangling.at ELSE @]
    BY <1>3, <1>5, <1>6, <1>11 DEF cancel_return
  <2>2. cancels' = <<>>
    BY <1>3, <2>1
  <2>3. SvcOK(svc') /\ VecOK(svc') /\ CleanedUp(svc, svc', n)
    BY <1>2, <1>4, <2>1, CleanupChanges
  <2>4. Settled(svc')
    BY <1>2, <1>4, <1>7, <1>8, <1>11, <2>3, CleanedUpSettled
  <2>5. LocOK' /\ loc'.ct = loc.ct
    BY <1>4, <2>1 DEF LocOK
  <2>6. TypeInv' /\ StatusInv'
    BY <2>1, <2>3, <2>5 DEF TypeInv, StatusInv, NotCalled, Codes, CleanedUp
  <2>7. Asked(svc', now') /\ loc'.ct <= now' /\ RemainingTime'
    BY <1>9, <2>1, <2>3, <2>5 DEF RemainingTime, NotCalled, Asked, CleanedUp
  <2> QED BY <1>3, <2>1, <2>2, <2>4, <2>6, <2>7, RestKeeps
<1> QED BY <1>10, <1>11

\* The handler of a timed event returns to timeout_first.
LEMMA TimeoutReturnKeeps ==
  ASSUME Inv, TreeSound, timeout_return
  PROVE  Inv'
<1> USE DEF Inv
<1> DEFINE n == loc.node
           p == rb_ref_to_this(svc.tree, n)
<1>1. pc = "timeout" /\ cancels = <<>>
  BY DEF timeout_return
<1>2. SvcOK(svc) /\ VecOK(svc) /\ EventsOK(svc) /\ TimersOK(svc) /\ LocOK
  BY <1>1 DEF TypeInv, VecInv, TimerInv, TimersLive, TimersOK, Walking
<1>3. n \in NodesOf(svc) /\ n # Dangling.at /\ p \in Places /\ At(svc.tree, p) = n
  <2>1. n \in NodesOf(svc) /\ n \in Fds
    BY <1>1, <1>2, NodesInFds DEF ScanInv
  <2> QED BY <2>1, FdsAssumption DEF TreeSound, Dangling
<1>4. ~MovedIsLost(svc, p)
  BY <1>2, <1>3, MovedIsFound DEF TreeSound
<1>5. /\ svc' = IF NothingAwaited(svc, n) THEN Cleanup(svc, p) ELSE svc
      /\ loc' = [NoLocals EXCEPT !.ct = loc.ct] /\ pc' = loc.after /\ told' = NotCalled
      /\ UNCHANGED <<now, cancels, nh, calls>>
  BY <1>3, <1>4 DEF timeout_return
<1> HIDE DEF n, p
<1>6. \A g \in NodesOf(svc) : g # n => AwaitedIn(svc, g) # {}
  BY <1>1 DEF VecInv, Pending, Walking, InEntry, n
<1>7. NothingAwaited(svc, n) <=> AwaitedIn(svc, n) = {}
  BY <1>2, <1>3, NothingAwaitedIs
<1>8. /\ SvcOK(svc') /\ Settled(svc') /\ svc'.status = svc.status
      /\ svc'.timers = svc.timers
      /\ (\A k \in InUse(svc) : ReportOK(svc, k, loc.ct)) =>
            \A k \in InUse(svc') : ReportOK(svc', k, loc.ct)
  <2>1. CASE ~NothingAwaited(svc, n)
    BY <1>2, <1>5, <1>6, <1>7, <2>1 DEF Settled
  <2>2. CASE NothingAwaited(svc, n)
    <3>1. SvcOK(svc') /\ VecOK(svc') /\ CleanedUp(svc, svc', n)
      BY <1>2, <1>3, <1>5, <2>2, CleanupChanges
    <3>2. /\ Settled(svc')
          /\ \A k \in InUse(svc') : \A t :
               ReportOK(svc, IF k = svc.idx[n] THEN svc'.npoll ELSE k, t) => ReportOK(svc', k, t)
      BY <1>2, <1>3, <1>6, <1>7, <2>2, <3>1, CleanedUpSettled
    <3>3. svc'.npoll \in InUse(svc) /\ InUse(svc') \subseteq InUse(svc)
      BY <1>2, <3>1 DEF CleanedUp, InUse, SvcOK
    <3> QED BY <3>1, <3>2, <3>3 DEF CleanedUp
  <2> QED BY <2>1, <2>2
<1>9. /\ loc.ct \in 0..MaxTime /\ loc.after \in {"loop", "scan"} /\ loc.ct <= now
      /\ now \in Nat /\ Asked(svc, now)
  BY <1>2 DEF TypeInv, LocOK, TimerInv, Asked
<1>10. LocOK' /\ loc'.ct = loc.ct /\ loc'.i = 0
  BY <1>5, <1>9 DEF LocOK, NoLocals
<1>11. StatusInv' /\ TypeInv'
  BY <1>1, <1>5, <1>8, <1>9, <1>10 DEF StatusInv, TypeInv, Pcs, NotCalled, Codes
<1>12. Asked(svc', now') /\ loc'.ct <= now' /\ RemainingTime'
  BY <1>5, <1>8, <1>9, <1>10 DEF Asked, RemainingTime, NotCalled
<1>13. CASE loc.after = "loop"
  BY <1>1, <1>5, <1>8, <1>11, <1>12, <1>13, RestKeeps
<1>14. CASE loc.after = "scan"
  <2>1. \A k \in InUse(svc) : ReportOK(svc, k, loc.ct)
    BY <1>1, <1>14 DEF ScanInv, ReportsOK, HoldsReports, Unscanned, InEntry
  <2> QED BY <1>1, <1>5, <1>8, <1>10, <1>11, <1>12, <1>14, <2>1, ScanKeeps
<1> QED BY <1>9, <1>13, <1>14

\* New reports change nothing else.
LEMMA ReportedKeeps ==
  ASSUME NEW s, NEW s2, NEW r, Reported(s, s2, r)
  PROVE  /\ InUse(s2) = InUse(s)
         /\ EventsOK(s) => EventsOK(s2)
         /\ TimersOK(s) => TimersOK(s2)
         /\ \A g : AwaitedIn(s2, g) = AwaitedIn(s, g)
         /\ \A g, t : TimerOf(s2, g, t) = TimerOf(s, g, t)
         /\ Settled(s) /\ VecOK(s2) => Settled(s2)
<1>1. InUse(s2) = InUse(s)
  BY DEF Reported, InUse
<1>2. \A g : AwaitedIn(s2, g) = AwaitedIn(s, g)
  BY DEF Reported, AwaitedIn, Scheduled
<1>3. \A g, t : TimerOf(s2, g, t) = TimerOf(s, g, t)
  BY DEF Reported, TimerOf
<1>4. EventsOK(s) => EventsOK(s2)
  BY <1>1, <1>2 DEF Reported, EventsOK
<1>5. TimersOK(s) => TimersOK(s2)
  BY DEF Reported, TimersOK, Scheduled
<1>6. Settled(s) /\ VecOK(s2) => Settled(s2)
  BY <1>2, <1>4, <1>5 DEF Reported, Settled
<1> QED BY <1>1, <1>2, <1>3, <1>4, <1>5, <1>6

\* The reports of an invalid descriptor are cleared.
LEMMA ClearedChanges ==
  ASSUME SvcOK(svc), VecOK(svc), NEW i \in InUse(svc)
  PROVE  LET s2 == [svc EXCEPT !.pvec[i].revents = {}]
         IN  /\ SvcOK(s2) /\ VecOK(s2)
             /\ Reported(svc, s2, [k \in Slots |-> IF k = i THEN {} ELSE svc.pvec[k].revents])
<1> DEFINE s2 == [svc EXCEPT !.pvec[i].revents = {}]
           r == [k \in Slots |-> IF k = i THEN {} ELSE svc.pvec[k].revents]
           e2 == [svc.pvec[i] EXCEPT !.revents = {}]
<1>1. s2 = [svc EXCEPT !.pvec[i] = e2]
  BY DEF SvcOK
<1>2. InUse(svc) \subseteq Slots /\ svc.pvec \in [Slots -> Pollfds] /\ svc.pvec[i] \in Pollfds
  BY FdsCount DEF SvcOK, InUse, Slots
<1>3. /\ e2 \in Pollfds /\ e2.fd = svc.pvec[i].fd /\ e2.events = svc.pvec[i].events
      /\ e2.revents = {}
  BY <1>2 DEF Pollfds
<1> HIDE DEF s2, e2
<1>4. /\ s2.status = svc.status /\ s2.sync = svc.sync /\ s2.delays = svc.delays
      /\ s2.cap = svc.cap /\ s2.npoll = svc.npoll /\ s2.tree = svc.tree
      /\ s2.idx = svc.idx /\ s2.timers = svc.timers /\ s2.evts = svc.evts
      /\ s2.pvec = [svc.pvec EXCEPT ![i] = e2]
  BY <1>1 DEF SvcOK
<1>5. s2.pvec \in [Slots -> Pollfds]
  BY <1>2, <1>3, <1>4
<1>6. SvcOK(s2)
  BY <1>1, <1>4, <1>5 DEF SvcOK
<1>7. InUse(s2) = InUse(svc)
  BY <1>4 DEF InUse
<1>8. \A k \in InUse(svc) : /\ s2.pvec[k].fd = svc.pvec[k].fd
                            /\ s2.pvec[k].events = svc.pvec[k].events
                            /\ s2.pvec[k].revents = r[k]
  BY <1>2, <1>3, <1>4
<1> HIDE DEF r
<1>9. NodesOf(s2) = NodesOf(svc)
  BY <1>7, <1>8 DEF NodesOf
<1>10. VecOK(s2)
  BY <1>4, <1>7, <1>8, <1>9 DEF VecOK
<1>11. Reported(svc, s2, r)
  BY <1>4, <1>8, <1>9 DEF Reported
<1> QED BY <1>6, <1>10, <1>11 DEF s2, r

\* dispatch_ready_events is done with an entry.  If the last pollfd takes its
\* slot, that one is looked at next.
LEMMA EntryDoneKeeps ==
  ASSUME Inv, TreeSound, entry_done
  PROVE  Inv'
<1> USE DEF Inv
<1> DEFINE s == IF loc.nval THEN [svc EXCEPT !.pvec[loc.i].revents = {}] ELSE svc
           done == [NoLocals EXCEPT !.ct = loc.ct, !.i = loc.i]
           n == Entry.fd
<1>1. pc = "entry" /\ InEntry /\ ~Walking /\ cancels = <<>>
  BY DEF entry_done, InEntry, Walking, CancelInv
<1>2. SvcOK(svc) /\ VecOK(svc) /\ EventsOK(svc) /\ TimersOK(svc) /\ LocOK
  BY <1>1 DEF TypeInv, VecInv, TimerInv, TimersLive, TimersOK, Walking
<1>3. /\ loc.i \in InUse(svc) /\ loc.place \in Places /\ At(svc.tree, loc.place) = n
      /\ Entry = svc.pvec[loc.i]
  BY <1>1 DEF ScanInv, EntryOK, Entry
<1>4. n \in NodesOf(svc) /\ n \in Fds /\ Entry.events = AwaitedIn(svc, n) /\ svc.idx[n] = loc.i
  BY <1>2, <1>3, NodesInFds DEF EventsOK, VecOK
<1>5. \A g \in NodesOf(svc) : g # n => AwaitedIn(svc, g) # {}
  BY <1>1 DEF VecInv, Pending
<1>6. \A k \in InUse(svc) : k > loc.i => ReportOK(svc, k, loc.ct)
  BY <1>1 DEF ScanInv, ReportsOK, HoldsReports, Unscanned
<1>7. PICK r : SvcOK(s) /\ VecOK(s) /\ Reported(svc, s, r)
  <2>1. CASE loc.nval
    BY <1>2, <1>3, <2>1, ClearedChanges
  <2>2. CASE ~loc.nval
    <3>1. Reported(svc, svc, [k \in InUse(svc) |-> svc.pvec[k].revents])
      BY DEF Reported
    <3> QED BY <1>2, <2>2, <3>1
  <2> QED BY <2>1, <2>2
<1>8. /\ \A k \in InUse(svc) : k # loc.i => s.pvec[k].revents = svc.pvec[k].revents
      /\ loc.nval => s.pvec[loc.i].revents = {}
  <2>1. CASE loc.nval
    <3>1. InUse(svc) \subseteq Slots
      BY <1>2, FdsCount DEF SvcOK, InUse, Slots
    <3>2. Reported(svc, s, [k \in Slots |-> IF k = loc.i THEN {} ELSE svc.pvec[k].revents])
      BY <1>2, <1>3, <2>1, ClearedChanges
    <3> HIDE DEF s
    <3> QED BY <1>3, <3>1, <3>2 DEF Reported
  <2>2. CASE ~loc.nval
    BY <2>2
  <2> QED BY <2>1, <2>2
<1>9. /\ InUse(s) = InUse(svc) /\ NodesOf(s) = NodesOf(svc) /\ s.idx = svc.idx
      /\ s.tree = svc.tree /\ s.timers = svc.timers /\ s.status = svc.status
      /\ s.npoll = svc.npoll
      /\ EventsOK(s) /\ TimersOK(s) /\ \A g : AwaitedIn(s, g) = AwaitedIn(svc, g)
      /\ \A g, t : TimerOf(s, g, t) = TimerOf(svc, g, t)
      /\ \A k \in InUse(svc) : s.pvec[k].fd = svc.pvec[k].fd
                               /\ s.pvec[k].events = svc.pvec[k].events
  <2> HIDE DEF s
  <2> QED BY <1>2, <1>7, ReportedKeeps DEF Reported
<1>10. \A k \in InUse(svc) : k > loc.i \/ (k = loc.i /\ loc.nval) => ReportOK(s, k, loc.ct)
  <2> HIDE DEF s
  <2>1. \A k \in InUse(svc) : k > loc.i => k # loc.i
    BY <1>2 DEF InUse, SvcOK, LocOK
  <2> QED BY <1>6, <1>8, <1>9, <2>1 DEF ReportOK
<1>11. /\ loc.ct \in 0..MaxTime /\ loc.i \in Nat /\ loc.ct <= now /\ now \in Nat
       /\ Asked(svc, now) /\ ("HUP" \notin Faults => RemainingTime)
  BY <1>2 DEF TypeInv, LocOK, TimerInv, Asked
<1>12. CASE StillAwaited
  <2>1. /\ svc' = s /\ pc' = "scan" /\ loc' = [done EXCEPT !.i = NextIndex]
        /\ UNCHANGED <<now, cancels, nh, calls, told>>
    BY <1>12 DEF entry_done
  <2>2. NextIndex \in Nat /\ NextIndex = IF loc.nval THEN loc.i ELSE loc.i + 1
    BY <1>11 DEF NextIndex
  <2>3. LocOK' /\ loc'.ct = loc.ct /\ loc'.i = NextIndex
    BY <1>11, <2>1, <2>2 DEF LocOK, NoLocals
  <2> HIDE DEF s
  <2>4. Settled(svc')
    BY <1>4, <1>5, <1>7, <1>9, <1>12, <2>1 DEF Settled, StillAwaited
  <2>5. TypeInv' /\ StatusInv'
    BY <1>1, <1>7, <1>9, <2>1, <2>3 DEF TypeInv, StatusInv, Pcs
  <2>6. Asked(svc', now') /\ loc'.ct <= now' /\ ("HUP" \notin Faults => RemainingTime')
    BY <1>9, <1>11, <2>1, <2>3 DEF Asked, RemainingTime
  <2>7. \A k \in InUse(svc') : k >= loc'.i => ReportOK(svc', k, loc'.ct)
    <3>1. \A k \in InUse(svc) : k \in Int
      BY <1>2 DEF InUse, SvcOK
    <3> QED BY <1>9, <1>10, <1>11, <2>1, <2>2, <2>3, <3>1
  <2> QED BY <1>1, <2>1, <2>4, <2>5, <2>6, <2>7, ScanKeeps
<1>13. CASE ~StillAwaited
  <2>1. Valid(loc.place)
    BY <1>3, <1>4, PlaceIsValid
  <2>2. ~MovedIsLost(s, loc.place)
    <3> HIDE DEF s
    <3> QED BY <1>3, <1>4, <1>7, <1>9, MovedIsFound DEF TreeSound
  <2>3. /\ svc' = Cleanup(s, loc.place) /\ pc' = "scan" /\ loc' = done
        /\ UNCHANGED <<now, cancels, nh, calls, told>>
    BY <1>13, <2>1, <2>2 DEF entry_done
  <2>4. LocOK' /\ loc'.ct = loc.ct /\ loc'.i = loc.i
    BY <1>11, <2>3 DEF LocOK, NoLocals
  <2> HIDE DEF s, n
  <2>5. SvcOK(svc') /\ VecOK(svc') /\ CleanedUp(s, svc', n)
    BY <1>3, <1>4, <1>7, <1>9, <2>3, CleanupChanges
  <2>6. /\ Settled(svc')
        /\ \A k \in InUse(svc') : \A t :
             ReportOK(s, IF k = s.idx[n] THEN svc'.npoll ELSE k, t) => ReportOK(svc', k, t)
    BY <1>4, <1>5, <1>7, <1>9, <1>13, <2>5, CleanedUpSettled DEF StillAwaited
  <2>7. TypeInv' /\ StatusInv'
    BY <1>1, <1>9, <2>3, <2>4, <2>5 DEF TypeInv, StatusInv, Pcs, CleanedUp
  <2>8. Asked(svc', now') /\ loc'.ct <= now' /\ ("HUP" \notin Faults => RemainingTime')
    BY <1>9, <1>11, <2>3, <2>4, <2>5 DEF Asked, RemainingTime, CleanedUp
  <2>9. \A k \in InUse(svc') : k >= loc'.i => ReportOK(svc', k, loc'.ct)
    <3> SUFFICES ASSUME NEW k \in InUse(svc'), k >= loc.i
                 PROVE  ReportOK(s, IF k = loc.i THEN svc'.npoll ELSE k, loc.ct)
      BY <1>4, <1>9, <2>4, <2>6
    <3>1. /\ svc'.npoll \in InUse(svc) /\ k < svc'.npoll /\ k \in InUse(svc)
          /\ k \in Int /\ svc'.npoll \in Int
      BY <1>2, <1>9, <2>5 DEF CleanedUp, InUse, SvcOK
    <3> QED BY <1>10, <1>11, <3>1
  <2> QED BY <1>1, <2>3, <2>6, <2>7, <2>8, <2>9, ScanKeeps
<1> QED BY <1>12, <1>13

-----------------------------------------------------------------------------
(* Sequences of distinct elements.                                         *)

\* An element of two sequences put together is one of the first or of the second.
LEMMA Joined ==
  ASSUME NEW S, NEW s \in Seq(S), NEW t \in Seq(S)
  PROVE  /\ s \o t \in Seq(S) /\ Len(s) \in Nat
         /\ \A k \in DOMAIN (s \o t) :
               \/ k \in DOMAIN s /\ (s \o t)[k] = s[k]
               \/ k - Len(s) \in DOMAIN t /\ (s \o t)[k] = t[k - Len(s)] /\ k \in Nat
         /\ \A k \in DOMAIN s : k \in DOMAIN (s \o t) /\ (s \o t)[k] = s[k]
         /\ \A k \in DOMAIN t : k + Len(s) \in DOMAIN (s \o t) /\ (s \o t)[k + Len(s)] = t[k]
<1>1. s \o t \in Seq(S) /\ Len(s) \in Nat /\ Len(t) \in Nat /\ Len(s \o t) = Len(s) + Len(t)
  OBVIOUS
<1>2. DOMAIN s = 1..Len(s) /\ DOMAIN t = 1..Len(t) /\ DOMAIN (s \o t) = 1..(Len(s) + Len(t))
  BY <1>1
<1>3. \A k \in 1..Len(s) : (s \o t)[k] = s[k]
  OBVIOUS
<1>4. \A k \in 1..(Len(s) + Len(t)) : k > Len(s) => (s \o t)[k] = t[k - Len(s)]
  BY <1>1
<1>5. \A k \in 1..(Len(s) + Len(t)) : k \in 1..Len(s) \/ (k > Len(s) /\ k - Len(s) \in 1..Len(t))
  BY <1>1
<1>6. \A k \in 1..Len(t) : k + Len(s) \in 1..(Len(s) + Len(t)) /\ k + Len(s) > Len(s)
                           /\ (k + Len(s)) - Len(s) = k
  BY <1>1
<1>7. \A k \in DOMAIN s : k \in DOMAIN (s \o t) /\ (s \o t)[k] = s[k]
  BY <1>1, <1>2, <1>3
<1>8. \A k \in DOMAIN t : k + Len(s) \in DOMAIN (s \o t) /\ (s \o t)[k + Len(s)] = t[k]
  BY <1>2, <1>4, <1>6
<1>9. \A k \in DOMAIN (s \o t) :
         \/ k \in DOMAIN s /\ (s \o t)[k] = s[k]
         \/ k - Len(s) \in DOMAIN t /\ (s \o t)[k] = t[k - Len(s)] /\ k \in Nat
  <2> TAKE k \in DOMAIN (s \o t)
  <2>1. k \in 1..(Len(s) + Len(t)) /\ k \in Nat
    BY <1>1, <1>2
  <2> QED BY <1>2, <1>3, <1>4, <1>5, <2>1
<1> QED BY <1>1, <1>7, <1>8, <1>9

\* Two sequences of distinct elements that share none make another.
LEMMA JoinedDistinct ==
  ASSUME NEW S, NEW s \in Seq(S), NEW t \in Seq(S), Distinct(s), Distinct(t),
         \A j \in DOMAIN s, k \in DOMAIN t : s[j] # t[k]
  PROVE  Distinct(s \o t)
<1> SUFFICES ASSUME NEW j \in DOMAIN (s \o t), NEW k \in DOMAIN (s \o t),
                    (s \o t)[j] = (s \o t)[k]
             PROVE  j = k
  BY DEF Distinct
<1> DEFINE q == s \o t
           n == Len(s)
<1>1. n \in Nat /\ \A i \in DOMAIN q :
         \/ i \in DOMAIN s /\ q[i] = s[i]
         \/ i - n \in DOMAIN t /\ q[i] = t[i - n] /\ i \in Nat
  BY Joined
<1> HIDE DEF q, n
<1>2. j \in DOMAIN q /\ k \in DOMAIN q /\ q[j] = q[k]
  BY DEF q
<1>3. CASE j \in DOMAIN s /\ q[j] = s[j]
  BY <1>1, <1>2, <1>3 DEF Distinct
<1>4. CASE j - n \in DOMAIN t /\ q[j] = t[j - n] /\ j \in Nat
  <2>1. k - n \in DOMAIN t /\ q[k] = t[k - n] /\ k \in Nat
    BY <1>1, <1>2, <1>4
  <2>2. j - n = k - n
    BY <1>2, <1>4, <2>1 DEF Distinct
  <2> QED BY <1>1, <1>4, <2>1, <2>2
<1> QED BY <1>1, <1>2, <1>3, <1>4

\* The same for nodes in place of elements.
LEMMA JoinedNodes ==
  ASSUME NEW S, NEW s \in Seq(S), NEW t \in Seq(S), DistinctNodes(s), DistinctNodes(t),
         \A j \in DOMAIN s, k \in DOMAIN t : s[j].n # t[k].n
  PROVE  DistinctNodes(s \o t)
<1> SUFFICES ASSUME NEW j \in DOMAIN (s \o t), NEW k \in DOMAIN (s \o t),
                    (s \o t)[j].n = (s \o t)[k].n
             PROVE  j = k
  BY DEF DistinctNodes
<1> DEFINE q == s \o t
           n == Len(s)
<1>1. n \in Nat /\ \A i \in DOMAIN q :
         \/ i \in DOMAIN s /\ q[i] = s[i]
         \/ i - n \in DOMAIN t /\ q[i] = t[i - n] /\ i \in Nat
  BY Joined
<1> HIDE DEF q, n
<1>2. j \in DOMAIN q /\ k \in DOMAIN q /\ q[j].n = q[k].n
  BY DEF q
<1>3. CASE j \in DOMAIN s /\ q[j] = s[j]
  BY <1>1, <1>2, <1>3 DEF DistinctNodes
<1>4. CASE j - n \in DOMAIN t /\ q[j] = t[j - n] /\ j \in Nat
  <2>1. k - n \in DOMAIN t /\ q[k] = t[k - n] /\ k \in Nat
    BY <1>1, <1>2, <1>4
  <2>2. j - n = k - n
    BY <1>2, <1>4, <2>1 DEF DistinctNodes
  <2> QED BY <1>1, <1>4, <2>1, <2>2
<1> QED BY <1>1, <1>2, <1>3, <1>4

\* A sequence of one element or none.
LEMMA AtMostOne ==
  ASSUME NEW S, NEW x \in S
  PROVE  /\ <<x>> \in Seq(S) /\ Distinct(<<x>>) /\ DistinctNodes(<<x>>)
         /\ DOMAIN <<x>> = {1} /\ <<x>>[1] = x
         /\ <<>> \in Seq(S) /\ Distinct(<<>>) /\ DistinctNodes(<<>>) /\ DOMAIN <<>> = {}
BY DEF Distinct, DistinctNodes

-----------------------------------------------------------------------------
(* The look-up of an entry of pollfds.                                     *)

\* The condition for each type.
LEMMA Flags ==
  /\ Flag("WAIT_READ") = "IN" /\ Flag("WAIT_WRITE") = "OUT" /\ Flag("WAIT_EXCEPTION") = "PRI"
BY DEF Flag

\* POLLERR is never the only flag asked for.
LEMMA NoLoneError ==
  ASSUME NEW events, events \subseteq WaitTypes
  PROVE  EventFlags(events) \ {"PRI"} # {"ERR"}
<1> SUFFICES ASSUME EventFlags(events) \ {"PRI"} = {"ERR"} PROVE FALSE
  OBVIOUS
<1>1. "ERR" \in EventFlags(events) /\ "IN" \notin EventFlags(events)
      /\ "OUT" \notin EventFlags(events)
  OBVIOUS
<1>2. "WAIT_READ" \notin events /\ "WAIT_WRITE" \notin events
  BY <1>1, Flags DEF EventFlags
<1>3. events \cap {"WAIT_READ", "WAIT_WRITE"} = {}
  BY <1>2
<1>4. \E ty \in events : Flag(ty) = "ERR"
  BY <1>1, <1>3 DEF EventFlags
<1> QED BY <1>2, <1>4, Flags DEF WaitTypes

\* Each type that Ready lists has a condition that poll reported.
LEMMA ReadyIs ==
  ASSUME NEW e \in Pollfds
  PROVE  /\ Ready(e) \in Seq(WaitTypes) /\ Distinct(Ready(e))
         /\ \A k \in DOMAIN Ready(e) :
               \/ Flag(Ready(e)[k]) \in e.revents
               \/ Ready(e)[k] = "WAIT_READ" /\ "HUP" \in e.revents
<1> DEFINE hasRead  == e.revents \cap {"IN", "HUP"} # {}
           hasWrite == "OUT" \in e.revents
           a == IF "PRI" \in e.revents THEN <<"WAIT_EXCEPTION">> ELSE <<>>
           b == IF hasRead THEN <<"WAIT_READ">> ELSE <<>>
           c == IF hasWrite THEN <<"WAIT_WRITE">> ELSE <<>>
<1>1. EventFlags(e.events) \ {"PRI"} # {"ERR"}
  <2>1. e.events \subseteq WaitTypes
    BY IoServiceAssumption DEF Pollfds
  <2> QED BY <2>1, NoLoneError
<1>2. Ready(e) = (a \o b) \o c
  BY <1>1 DEF Ready
<1>3. /\ a \in Seq(WaitTypes) /\ Distinct(a)
      /\ \A k \in DOMAIN a : a[k] = "WAIT_EXCEPTION" /\ "PRI" \in e.revents
  <2>1. "WAIT_EXCEPTION" \in WaitTypes
    BY DEF WaitTypes
  <2> QED BY <2>1, AtMostOne
<1>4. /\ b \in Seq(WaitTypes) /\ Distinct(b)
      /\ \A k \in DOMAIN b : b[k] = "WAIT_READ" /\ hasRead
  <2>1. "WAIT_READ" \in WaitTypes
    BY DEF WaitTypes
  <2> HIDE DEF hasRead
  <2> QED BY <2>1, AtMostOne
<1>5. /\ c \in Seq(WaitTypes) /\ Distinct(c)
      /\ \A k \in DOMAIN c : c[k] = "WAIT_WRITE" /\ hasWrite
  <2>1. "WAIT_WRITE" \in WaitTypes
    BY DEF WaitTypes
  <2> HIDE DEF hasWrite
  <2> QED BY <2>1, AtMostOne
<1>6. hasRead => "IN" \in e.revents \/ "HUP" \in e.revents
  OBVIOUS
<1> HIDE DEF a, b, c, hasRead
<1>7. a \o b \in Seq(WaitTypes) /\ Distinct(a \o b)
      /\ \A k \in DOMAIN (a \o b) : \/ (a \o b)[k] = "WAIT_EXCEPTION" /\ "PRI" \in e.revents
                                    \/ (a \o b)[k] = "WAIT_READ" /\ hasRead
  <2>1. Distinct(a \o b)
    BY <1>3, <1>4, JoinedDistinct
  <2>2. a \o b \in Seq(WaitTypes)
    BY <1>3, <1>4, Joined
  <2>3. \A k \in DOMAIN (a \o b) : \/ k \in DOMAIN a /\ (a \o b)[k] = a[k]
                                   \/ k - Len(a) \in DOMAIN b /\ (a \o b)[k] = b[k - Len(a)]
    BY <1>3, <1>4, Joined
  <2> QED BY <1>3, <1>4, <2>1, <2>2, <2>3
<1> DEFINE d == a \o b
           q == d \o c
<1>8. Ready(e) = q /\ d \in Seq(WaitTypes) /\ Distinct(d)
      /\ \A k \in DOMAIN d : \/ d[k] = "WAIT_EXCEPTION" /\ "PRI" \in e.revents
                             \/ d[k] = "WAIT_READ" /\ hasRead
  BY <1>2, <1>7
<1> HIDE DEF d
<1>9. q \in Seq(WaitTypes) /\ Distinct(q)
  <2>1. Distinct(q)
    BY <1>5, <1>8, JoinedDistinct
  <2> QED BY <1>5, <1>8, <2>1, Joined
<1>10. \A k \in DOMAIN q : \/ k \in DOMAIN d /\ q[k] = d[k]
                           \/ k - Len(d) \in DOMAIN c /\ q[k] = c[k - Len(d)]
  BY <1>5, <1>8, Joined
<1> HIDE DEF q
<1>11. \A k \in DOMAIN q : \/ q[k] = "WAIT_EXCEPTION" /\ "PRI" \in e.revents
                           \/ q[k] = "WAIT_READ" /\ hasRead
                           \/ q[k] = "WAIT_WRITE" /\ "OUT" \in e.revents
  BY <1>5, <1>8, <1>10
<1> QED BY <1>6, <1>8, <1>9, <1>11, Flags

\* dispatch_ready_events looks up the node of an entry.
LEMMA ScanEntryKeeps ==
  ASSUME Inv, TreeSound, scan_entry
  PROVE  Inv'
<1> USE DEF Inv
<1>1. pc = "scan" /\ loc.i < svc.npoll /\ ~Walking /\ cancels = <<>>
  BY DEF scan_entry, Walking, CancelInv
<1>2. SvcOK(svc) /\ VecOK(svc) /\ EventsOK(svc) /\ LocOK /\ Settled(svc)
  BY <1>1, AtRest DEF TypeInv, VecInv
<1>3. loc.i \in InUse(svc) /\ Entry = svc.pvec[loc.i] /\ Entry \in Pollfds
  BY <1>1, <1>2, FdsCount DEF InUse, SvcOK, LocOK, Entry, Slots
<1>4. Entry.fd \in NodesOf(svc) /\ Entry.fd \in Fds
  BY <1>2, <1>3, NodesInFds
<1> DEFINE p == rb_probe(svc.tree, RootPlace, Entry.fd)
           v == "NVAL" \in Entry.revents
<1>5. p \in Places /\ At(svc.tree, p) = Entry.fd
  BY <1>4 DEF TreeSound, Searchable
<1>6. PICK td : /\ loc' = [loc EXCEPT !.place = p, !.nval = v, !.todo = td]
                /\ "NVAL" \notin Entry.revents => td = Ready(Entry)
                /\ pc' = "entry" /\ UNCHANGED <<svc, now, cancels, nh, calls, told>>
  BY <1>4, SearchEnds DEF scan_entry
<1>6a. v \in BOOLEAN
  OBVIOUS
<1> HIDE DEF p, v
<1>7. /\ LocOK' /\ loc'.i = loc.i /\ loc'.place = p /\ loc'.todo = td /\ loc'.ct = loc.ct
      /\ loc'.nval = v
  BY <1>2, <1>6, <1>6a DEF LocOK
<1>8. Entry' = Entry /\ InEntry'
  BY <1>6, <1>7 DEF Entry, InEntry
<1>9. TypeInv' /\ StatusInv' /\ CancelInv' /\ WalkInv'
  BY <1>1, <1>6, <1>7 DEF TypeInv, Pcs, StatusInv, CancelInv, WalkInv, Walking
<1>10. VecInv'
  BY <1>2, <1>6 DEF VecInv, Settled, Walking
<1>11. TimerInv'
  BY <1>1, <1>6, <1>7 DEF TimerInv, TimersLive, EarliestFirst, RemainingTime, Walking
<1>12. \A k \in InUse(svc) : k >= loc.i => ReportOK(svc, k, loc.ct)
  BY <1>1 DEF ScanInv, ReportsOK, HoldsReports, Unscanned, InEntry
<1>13. ReportsOK' /\ EntryOK'
  <2>1. \A k \in InUse(svc) : k > loc.i => k >= loc.i
    BY <1>2 DEF InUse, SvcOK, LocOK
  <2>2. ReportsOK'
    BY <1>6, <1>7, <1>8, <1>12, <2>1 DEF ReportsOK, Unscanned
  <2> QED BY <1>3, <1>5, <1>6, <1>7, <1>8, <2>2 DEF EntryOK
<1>14. TodosOK'
  <2> SUFFICES ASSUME "NVAL" \notin Entry.revents PROVE TodosOK'
    BY <1>7 DEF TodosOK, v
  <2>1. /\ td \in Seq(WaitTypes) /\ Distinct(td)
        /\ \A k \in DOMAIN td : \/ Flag(td[k]) \in Entry.revents
                                \/ td[k] = "WAIT_READ" /\ "HUP" \in Entry.revents
    BY <1>3, <1>6, ReadyIs
  <2>2. ReportOK(svc, loc.i, loc.ct)
    BY <1>2, <1>3, <1>12 DEF LocOK
  <2>3. \A ty \in WaitTypes : Flag(ty) \in Entry.revents => TodoOK(ty)'
    BY <1>3, <1>6, <1>7, <1>8, <2>2 DEF ReportOK, TodoOK, TimerOf
  <2>4. \A k \in DOMAIN td : td[k] \in WaitTypes
    BY <2>1
  <2>5. \A k \in DOMAIN td : TodoOK(td[k])'
    BY <1>8, <2>1, <2>3, <2>4 DEF TodoOK
  <2> QED BY <1>7, <2>1, <2>5 DEF TodosOK
<1>15. ScanInv'
  BY <1>6, <1>13, <1>14 DEF ScanInv, OnlyHangupsCrash
<1> QED BY <1>9, <1>10, <1>11, <1>15

-----------------------------------------------------------------------------
(* poll and the deadlines.                                                 *)

\* A set of numbers has a least one.
LEMMA LeastNumber ==
  ASSUME NEW T, T \subseteq Nat, T # {}
  PROVE  \E x \in T : \A y \in T : x <= y
<1> DEFINE R == OpToRel(<, Nat)
<1>1. \A x, y \in Nat : y < x => <<y, x>> \in R
  BY DEF OpToRel
<1>2. IsWellFoundedOn(R, Nat)
  BY NatLessThanWellFounded
<1> HIDE DEF R
<1>3. PICK x \in T : \A y \in T : ~ (<<y, x>> \in R)
  BY <1>2, WFMin
<1>4. \A y \in T : x <= y
  <2> TAKE y \in T
  <2>1. x \in Nat /\ y \in Nat /\ ~(y < x)
    BY <1>1, <1>3, Zenon
  <2> QED BY <2>1
<1> QED BY <1>4

\* A heap that is not empty has a front, and its deadline is the least.
LEMMA FrontIsLeast ==
  ASSUME NEW H, \A x \in H : x.at \in Nat, H # {}
  PROVE  /\ Least(H) \in Nat
         /\ \A y \in H : Least(H) <= y.at
         /\ \A x \in Fronts(H) : x \in H /\ x.at = Least(H)
<1> DEFINE T == {x.at : x \in H}
<1>1. PICK m \in T : \A y \in T : m <= y
  <2>1. T \subseteq Nat /\ T # {}
    OBVIOUS
  <2> HIDE DEF T
  <2> QED BY <2>1, LeastNumber
<1>2. PICK z \in H : z.at = m
  OBVIOUS
<1>3. z \in Fronts(H)
  BY <1>1, <1>2 DEF Fronts
<1> DEFINE f == CHOOSE x \in Fronts(H) : TRUE
<1>4. f \in Fronts(H) /\ Least(H) = f.at
  BY <1>3 DEF Least
<1> HIDE DEF f
<1>5. \A x, y \in Fronts(H) : x.at = y.at
  BY DEF Fronts
<1>6. f \in H /\ \A y \in H : f.at <= y.at
  BY <1>4 DEF Fronts
<1> QED BY <1>4, <1>5, <1>6 DEF Fronts

\* Entry x of a heap is one that next_deadline may give for time t.
NextDue(x, t) == /\ x.at \in Nat /\ x.at <= t
                 /\ \A y \in svc.timers \cup svc.delays : x.at <= y.at

\* The entry that timeout_first takes is due first of both heaps.
LEMMA NextDeadline ==
  ASSUME SvcOK(svc), NEW t \in Nat, t >= Deadline
  PROVE  /\ IsEvent => \A x \in Fronts(svc.timers) : x \in svc.timers /\ NextDue(x, t)
         /\ ~IsEvent /\ Deadline # -1 =>
               \A e \in Fronts(svc.delays) : e \in svc.delays /\ NextDue(e, t)
<1>1. /\ \A x \in svc.timers : x.at \in Nat
      /\ \A e \in svc.delays : e.at \in Nat
  BY DEF SvcOK, TimerEntries, DelayEntries
<1>2. svc.timers # {} => /\ Least(svc.timers) \in Nat
                         /\ \A y \in svc.timers : Least(svc.timers) <= y.at
                         /\ \A x \in Fronts(svc.timers) : x \in svc.timers /\ x.at = Least(svc.timers)
  BY <1>1, FrontIsLeast
<1>3. svc.delays # {} => /\ Least(svc.delays) \in Nat
                         /\ \A y \in svc.delays : Least(svc.delays) <= y.at
                         /\ \A x \in Fronts(svc.delays) : x \in svc.delays /\ x.at = Least(svc.delays)
  BY <1>1, FrontIsLeast
<1>4. CASE IsEvent
  <2>1. Deadline = Least(svc.timers) /\ svc.timers # {}
        /\ (svc.delays = {} \/ Least(svc.timers) < Least(svc.delays))
    BY <1>4 DEF Deadline, IsEvent
  <2>2. \A y \in svc.delays : Least(svc.timers) <= y.at
    BY <1>1, <1>2, <1>3, <2>1
  <2> QED BY <1>2, <1>4, <2>1, <2>2 DEF NextDue
<1>5. CASE ~IsEvent /\ Deadline # -1
  <2>1. Deadline = Least(svc.delays) /\ svc.delays # {}
        /\ (svc.timers = {} \/ ~(Least(svc.timers) < Least(svc.delays)))
    BY <1>5 DEF Deadline, IsEvent
  <2>2. \A y \in svc.timers : Least(svc.delays) <= y.at
    BY <1>1, <1>2, <1>3, <2>1
  <2> QED BY <1>3, <1>5, <2>1, <2>2 DEF NextDue
<1> QED BY <1>4, <1>5

\* A condition asked for is reported only if its event is awaited.
LEMMA ReportsAsked ==
  ASSUME NEW events \in SUBSET Types, NEW r \in Reports(events)
  PROVE  /\ r \in SUBSET Conditions
         /\ \A ty \in WaitTypes : Flag(ty) \in r => ty \in events
<1>1. events \subseteq WaitTypes /\ Faults \subseteq {"ERR", "HUP", "NVAL"}
  BY IoServiceAssumption
<1>2. \A ty \in WaitTypes : Flag(ty) \in {"IN", "OUT", "PRI"}
  BY Flags DEF WaitTypes
<1>3. \A f \in r : f \in Faults \/ \E ty \in events : f = Flag(ty)
  BY DEF Reports
<1>4. r \subseteq Conditions
  BY <1>1, <1>2, <1>3 DEF Conditions
<1>5. \A ty, tz \in WaitTypes : Flag(ty) = Flag(tz) => ty = tz
  BY Flags DEF WaitTypes
<1>6. ASSUME NEW ty \in WaitTypes, Flag(ty) \in r PROVE ty \in events
  <2>1. Flag(ty) \notin Faults
    BY <1>1, <1>2
  <2>2. PICK tz \in events : Flag(ty) = Flag(tz)
    BY <1>3, <1>6, <2>1
  <2> QED BY <1>1, <1>5, <2>2
<1> QED BY <1>4, <1>6

\* What is the same whatever poll returns: s is the service with the reports r.
PollReturned(s, r, t) ==
    /\ pc = "loop" /\ cancels = <<>> /\ Settled(svc) /\ SvcOK(svc)
    /\ SvcOK(s) /\ VecOK(s) /\ Reported(svc, s, r)
    /\ t \in 0..MaxTime /\ t >= now /\ now' = t /\ UNCHANGED <<cancels, nh>>

\* ... and what follows from it.
LEMMA PollReturnedFacts ==
  ASSUME Inv, NEW s, NEW r, NEW t, PollReturned(s, r, t)
  PROVE  /\ Settled(s) /\ Asked(s, t) /\ InUse(s) = InUse(svc) /\ t \in Nat
         /\ s.timers = svc.timers /\ s.delays = svc.delays
         /\ s.status = svc.status /\ s.status \in {"RUNNING", "STOPPING"}
         /\ NodesOf(s) = NodesOf(svc)
<1>1. Settled(s) /\ InUse(s) = InUse(svc)
  BY ReportedKeeps DEF PollReturned
<1>2. /\ s.timers = svc.timers /\ s.delays = svc.delays /\ s.status = svc.status
      /\ NodesOf(s) = NodesOf(svc)
  BY DEF PollReturned, Reported
<1>3. svc.status \in {"RUNNING", "STOPPING"}
  BY DEF PollReturned, Inv, StatusInv
<1>4. t \in Nat /\ now \in Nat /\ t >= now
  BY DEF PollReturned, Inv, TypeInv
<1>5. \A x \in svc.timers : x.at - x.ms \in Int /\ x.at - x.ms <= now
  BY IoServiceAssumption DEF Inv, TypeInv, TimerInv, SvcOK, TimerEntries
<1>6. Asked(s, t)
  BY <1>2, <1>4, <1>5 DEF Asked
<1> QED BY <1>1, <1>2, <1>3, <1>4, <1>6

\* dispatch_ready_events is called.
LEMMA DispatchKeeps ==
  ASSUME Inv, NEW s, NEW r, NEW t, PollReturned(s, r, t), Dispatch(s, t),
         \A k \in InUse(s) : ReportOK(s, k, t)
  PROVE  Inv'
<1>1. /\ Settled(s) /\ Asked(s, t) /\ t \in Nat
      /\ s.status \in {"RUNNING", "STOPPING"}
  BY PollReturnedFacts
<1>2. /\ svc' = s /\ pc' = "scan" /\ loc' = [NoLocals EXCEPT !.ct = t]
      /\ UNCHANGED <<calls, told, cancels, nh>> /\ now' = t /\ t \in 0..MaxTime /\ SvcOK(s)
      /\ cancels = <<>> /\ t >= now
  BY DEF Dispatch, PollReturned
<1>3. LocOK' /\ loc'.ct = t /\ loc'.i = 0
  BY <1>2 DEF LocOK, NoLocals
<1>4. TypeInv' /\ StatusInv'
  BY <1>1, <1>2, <1>3 DEF Inv, TypeInv, StatusInv, Pcs
<1>5. "HUP" \notin Faults => RemainingTime'
  <2>1. told.due \in Nat /\ now \in Nat
    BY DEF Inv, TypeInv
  <2> QED BY <1>1, <1>2, <2>1 DEF Inv, TimerInv, RemainingTime
<1> QED BY <1>1, <1>2, <1>3, <1>4, <1>5, ScanKeeps

\* timeout_first calls a delayed handler.
LEMMA TimeoutDelayKeeps ==
  ASSUME Inv, NEW s, NEW r, NEW t, PollReturned(s, r, t), NEW after \in {"loop", "scan"},
         NEW e \in svc.delays, NextDue(e, t), TimeoutDelay(s, e, t, after),
         after = "scan" => \A k \in InUse(s) : ReportOK(s, k, t)
  PROVE  Inv'
<1>1. /\ Settled(s) /\ Asked(s, t) /\ t \in Nat /\ s.status \in {"RUNNING", "STOPPING"}
      /\ s.timers = svc.timers /\ s.delays = svc.delays
  BY PollReturnedFacts
<1>2. /\ svc' = s /\ pc' = "delay" /\ Count(e.h)
      /\ told' = [NotCalled EXCEPT !.code = "EIO_OK", !.due = e.at]
      /\ loc' = [NoLocals EXCEPT !.cur = e, !.after = after, !.ct = t]
      /\ UNCHANGED <<cancels, nh>> /\ now' = t /\ t \in 0..MaxTime /\ SvcOK(s) /\ cancels = <<>>
  BY DEF TimeoutDelay, PollReturned
<1>3. LocOK' /\ loc'.ct = t /\ loc'.cur = e /\ loc'.after = after
  BY <1>2 DEF LocOK, NoLocals
<1>4. /\ told' \in [code : Codes, left : Nat, ms : Nat, due : Nat]
      /\ told'.due = e.at /\ told'.left = 0 /\ told'.ms = 0
  BY <1>2 DEF NotCalled, Codes, NextDue
<1>5. TypeInv' /\ StatusInv' /\ CancelInv' /\ WalkInv'
  BY <1>1, <1>2, <1>3, <1>4, CountType DEF Inv, TypeInv, StatusInv, Pcs, CancelInv, WalkInv, Walking
<1>6. VecInv'
  BY <1>1, <1>2 DEF VecInv, Settled, Walking
<1>7. TimerInv'
  <2>1. TimersLive'
    BY <1>1, <1>2 DEF TimersLive, Settled, TimersOK
  <2>2. EarliestFirst' /\ RemainingTime'
    BY <1>1, <1>2, <1>4 DEF EarliestFirst, RemainingTime, NextDue
  <2> QED BY <1>1, <1>2, <1>3, <1>4, <2>1, <2>2 DEF TimerInv, Asked, Walking
<1>8. ScanInv'
  BY <1>2, <1>3 DEF ScanInv, ReportsOK, EntryOK, TodosOK, HoldsReports, InEntry, OnlyHangupsCrash
<1> QED BY <1>5, <1>6, <1>7, <1>8 DEF Inv

\* timeout_first calls the handler of a timed event, whose node stays.  If poll
\* reported other events, none of them is the one that is taken out.
LEMMA TimeoutEventKeeps ==
  ASSUME Inv, NEW s, NEW r, NEW t, PollReturned(s, r, t), NEW after \in {"loop", "scan"},
         NEW x \in svc.timers, NextDue(x, t), TimeoutEvent(s, x, t, after),
         after = "scan" => ~TopReady(s, x) /\ \A k \in InUse(s) : ReportOK(s, k, t)
  PROVE  Inv'
<1> DEFINE fd == x.fd
           ty == x.ty
<1>1. /\ Settled(s) /\ Asked(s, t) /\ t \in Nat /\ s.status \in {"RUNNING", "STOPPING"}
      /\ s.timers = svc.timers /\ s.delays = svc.delays
  BY PollReturnedFacts
<1>2. /\ svc' = Dequeue(s, fd, ty) /\ pc' = "timeout" /\ Count(s.evts[fd][ty])
      /\ told' = [Tell(s, fd, ty, t, "EIO_TIMEOUT") EXCEPT !.left = 0]
      /\ loc' = [NoLocals EXCEPT !.node = fd, !.after = after, !.ct = t]
      /\ UNCHANGED <<cancels, nh>> /\ now' = t /\ t \in 0..MaxTime /\ SvcOK(s) /\ cancels = <<>>
  BY DEF TimeoutEvent, PollReturned
<1>3. fd \in Fds /\ ty \in Types /\ ty \in WaitTypes /\ Scheduled(s, fd, ty)
  BY <1>1, <1>2, IoServiceAssumption DEF SvcOK, TimerEntries, Settled, TimersOK
<1>4. fd \in NodesOf(s)
  BY <1>1, <1>3 DEF Settled, VecOK, Scheduled, NoEvents
<1> HIDE DEF fd, ty
<1>5. SvcOK(svc') /\ VecOK(svc') /\ Dequeued(s, svc', fd, ty)
  BY <1>1, <1>2, <1>3, <1>4, DequeueChanges DEF Settled
<1>6. /\ InUse(svc') = InUse(s) /\ EventsOK(svc') /\ TimersOK(svc')
      /\ \A g \in Fds : g # fd => AwaitedIn(svc', g) = AwaitedIn(s, g)
      /\ \A g, u : TimerOf(svc', g, u) \subseteq TimerOf(s, g, u)
  BY <1>1, <1>2, <1>3, <1>5, DequeuedAwaits DEF Settled
<1>7. LocOK' /\ loc'.ct = t /\ loc'.node = fd /\ loc'.after = after
  BY <1>2 DEF LocOK, NoLocals
<1>8. /\ told' \in [code : Codes, left : Nat, ms : Nat, due : Nat]
      /\ told'.due = x.at /\ told'.left = 0
  <2> DEFINE m == Tell(s, fd, ty, t, "EIO_TIMEOUT")
  <2>1. ToldOf(m, s, fd, ty, t, "EIO_TIMEOUT")
    <3>1. "EIO_TIMEOUT" \in Codes
      BY DEF Codes
    <3> QED BY <1>2, <3>1, TellFacts
  <2>2. told' = [m EXCEPT !.left = 0]
    BY <1>2
  <2> HIDE DEF m
  <2>3. x \in TimerOf(s, fd, ty) /\ \A y \in TimerOf(s, fd, ty) : y = x
    BY <1>1 DEF TimerOf, Settled, TimersOK, fd, ty
  <2>4. m \in [code : Codes, left : Nat, ms : Nat, due : Nat] /\ m.due = x.at
    BY <2>1, <2>3 DEF ToldOf
  <2> QED BY <2>2, <2>4
<1>9. TypeInv' /\ StatusInv' /\ CancelInv' /\ WalkInv'
  BY <1>1, <1>2, <1>5, <1>7, <1>8, CountType
     DEF Inv, TypeInv, StatusInv, Pcs, CancelInv, WalkInv, Walking, Dequeued
<1>10. VecInv'
  <2> SUFFICES ASSUME NEW g \in NodesOf(svc'), AwaitedIn(svc', g) = {} PROVE Pending(g)'
    BY <1>5, <1>6 DEF VecInv
  <2>1. g \in NodesOf(s) /\ g \in Fds
    BY <1>1, <1>2, <1>5, NodesInFds DEF Dequeued, Settled
  <2>2. g = fd
    BY <1>1, <1>6, <2>1 DEF Settled
  <2> QED BY <1>2, <1>7, <2>2 DEF Pending
<1>11. TimerInv'
  <2>1. TimersLive'
    BY <1>2, <1>6 DEF TimersLive, TimersOK
  <2>2. svc'.timers \subseteq svc.timers /\ svc'.delays = svc.delays
    BY <1>1, <1>5 DEF Dequeued
  <2>3. EarliestFirst' /\ RemainingTime'
    BY <1>1, <1>2, <1>8, <2>2 DEF EarliestFirst, RemainingTime, NextDue
  <2> QED BY <1>1, <1>2, <1>7, <2>1, <2>2, <2>3 DEF TimerInv, Asked, Walking
<1>12. ReportsOK'
  <2> SUFFICES ASSUME after = "scan", NEW k \in InUse(s) PROVE ReportOK(svc', k, t)
    BY <1>2, <1>6, <1>7 DEF ReportsOK, HoldsReports
  <2>1. ReportOK(s, k, t) /\ s.pvec[s.idx[fd]].revents \cap ReadyMask(ty) = {}
    BY DEF TopReady, fd, ty
  <2>2. s.pvec[k].fd = fd => Flag(ty) \notin s.pvec[k].revents
    <3>1. s.pvec[k].fd = fd => k = s.idx[fd]
      BY <1>1 DEF Settled, VecOK
    <3> QED BY <2>1, <3>1 DEF ReadyMask
  <2>3. /\ svc'.pvec[k].fd = s.pvec[k].fd /\ svc'.pvec[k].revents = s.pvec[k].revents
        /\ s.pvec[k].fd # fd => svc'.pvec[k].events = s.pvec[k].events
        /\ s.pvec[k].fd = fd => svc'.pvec[k].events = s.pvec[k].events \ {ty}
    BY <1>5 DEF Dequeued
  <2> QED BY <1>6, <2>1, <2>2, <2>3 DEF ReportOK
<1>13. ScanInv'
  <2>1. fd \in NodesOf(svc')
    BY <1>4, <1>5 DEF Dequeued
  <2> QED BY <1>2, <1>7, <1>12, <2>1 DEF ScanInv, EntryOK, TodosOK, InEntry, OnlyHangupsCrash
<1> QED BY <1>9, <1>10, <1>11, <1>13 DEF Inv

\* poll returns 0.
LEMMA PollExpiresKeeps ==
  ASSUME Inv, NEW t \in 0..MaxTime, poll_expires(t)
  PROVE  Inv'
<1> DEFINE r == [k \in Slots |-> {}]
           s == Polled(r)
<1>1. /\ pc = "loop" /\ Deadline # -1 /\ t >= Deadline /\ t >= now /\ now' = t
      /\ UNCHANGED <<cancels, nh>>
      /\ IsEvent => \E x \in Fronts(s.timers) : TimeoutEvent(s, x, t, "loop")
      /\ ~IsEvent => \E e \in Fronts(s.delays) : TimeoutDelay(s, e, t, "loop")
  BY DEF poll_expires, Polls
<1>2. cancels = <<>> /\ SvcOK(svc) /\ VecOK(svc) /\ t \in Nat
  BY <1>1 DEF Inv, CancelInv, TypeInv, VecInv
<1>3. Settled(svc)
  BY <1>1, <1>2, AtRest
<1>4. SvcOK(s) /\ VecOK(s) /\ Reported(svc, s, r)
  <2>1. \A k \in Slots : r[k] \in SUBSET Conditions
    OBVIOUS
  <2> HIDE DEF r
  <2> QED BY <1>2, <2>1, PolledChanges
<1> HIDE DEF r, s
<1>5. PollReturned(s, r, t)
  BY <1>1, <1>2, <1>3, <1>4 DEF PollReturned
<1>6. s.timers = svc.timers /\ s.delays = svc.delays
  BY <1>4 DEF Reported
<1>7. CASE IsEvent
  <2>1. PICK x \in Fronts(svc.timers) : TimeoutEvent(s, x, t, "loop")
    BY <1>1, <1>6, <1>7
  <2>2. x \in svc.timers /\ NextDue(x, t)
    BY <1>1, <1>2, <1>7, NextDeadline
  <2> QED BY <1>5, <2>1, <2>2, TimeoutEventKeeps
<1>8. CASE ~IsEvent
  <2>1. PICK e \in Fronts(svc.delays) : TimeoutDelay(s, e, t, "loop")
    BY <1>1, <1>6, <1>8
  <2>2. e \in svc.delays /\ NextDue(e, t)
    BY <1>1, <1>2, <1>8, NextDeadline
  <2> QED BY <1>5, <2>1, <2>2, TimeoutDelayKeeps
<1> QED BY <1>7, <1>8

\* poll returns with reports, or is interrupted.
LEMMA PollReturnsKeeps ==
  ASSUME Inv, NEW t \in 0..MaxTime, poll_returns(t)
  PROVE  Inv'
<1>1. PICK r :
         /\ pc = "loop" /\ t >= now /\ now' = t /\ UNCHANGED <<cancels, nh>>
         /\ \A k \in Slots : IF k < svc.npoll THEN r[k] \in Reports(svc.pvec[k].events)
                                              ELSE r[k] = {}
         /\ LET s == Polled(r)
            IN  IF Deadline = -1 \/ t < Deadline THEN Dispatch(s, t)
                ELSE IF ~IsEvent
                THEN \E e \in Fronts(s.delays) : TimeoutDelay(s, e, t, "scan")
                ELSE \E x \in Fronts(s.timers) :
                       IF TopReady(s, x) THEN Dispatch(s, t)
                       ELSE TimeoutEvent(s, x, t, "scan")
  BY DEF poll_returns, Polls
<1> DEFINE s == Polled(r)
<1>2. cancels = <<>> /\ SvcOK(svc) /\ VecOK(svc) /\ t \in Nat
  BY <1>1 DEF Inv, CancelInv, TypeInv, VecInv
<1>3. Settled(svc)
  BY <1>1, <1>2, AtRest
<1>4. \A k \in Slots : r[k] \in SUBSET Conditions
  <2> TAKE k \in Slots
  <2>1. svc.pvec[k].events \in SUBSET Types
    BY <1>2 DEF SvcOK, Pollfds
  <2> QED BY <1>1, <2>1, ReportsAsked
<1>5. SvcOK(s) /\ VecOK(s) /\ Reported(svc, s, r)
  BY <1>2, <1>4, PolledChanges
<1>6. /\ Deadline = -1 \/ t < Deadline => Dispatch(s, t)
      /\ ~(Deadline = -1 \/ t < Deadline) /\ ~IsEvent =>
            \E e \in Fronts(s.delays) : TimeoutDelay(s, e, t, "scan")
      /\ ~(Deadline = -1 \/ t < Deadline) /\ IsEvent =>
            \E x \in Fronts(s.timers) : IF TopReady(s, x) THEN Dispatch(s, t)
                                        ELSE TimeoutEvent(s, x, t, "scan")
  BY <1>1
<1> HIDE DEF s
<1>7. PollReturned(s, r, t)
  BY <1>1, <1>2, <1>3, <1>5 DEF PollReturned
<1>8. s.timers = svc.timers /\ s.delays = svc.delays /\ Asked(s, t) /\ InUse(s) = InUse(svc)
  BY <1>7, PollReturnedFacts
<1>9. \A k \in InUse(s) : ReportOK(s, k, t)
  <2> SUFFICES ASSUME NEW k \in InUse(svc) PROVE ReportOK(s, k, t)
    BY <1>8
  <2>1. k \in Slots /\ k < svc.npoll
    BY <1>2, FdsCount DEF InUse, SvcOK, Slots
  <2>2. svc.pvec[k].events \in SUBSET Types /\ r[k] \in Reports(svc.pvec[k].events)
    BY <1>1, <1>2, <2>1 DEF SvcOK, Pollfds
  <2>3. s.pvec[k].events = svc.pvec[k].events /\ s.pvec[k].revents = r[k]
    BY <1>5 DEF Reported
  <2>4. \A ty \in WaitTypes : Flag(ty) \in s.pvec[k].revents => ty \in s.pvec[k].events
    BY <2>2, <2>3, ReportsAsked
  <2> QED BY <1>8, <2>4 DEF ReportOK, TimerOf, Asked
<1>10. CASE Deadline = -1 \/ t < Deadline
  BY <1>6, <1>7, <1>9, <1>10, DispatchKeeps
<1>11. CASE ~(Deadline = -1 \/ t < Deadline)
  <2>0. t >= Deadline /\ Deadline # -1
    <3>1. Deadline \in Int
      <4>1. /\ \A x \in svc.timers : x.at \in Nat
            /\ \A e \in svc.delays : e.at \in Nat
        BY <1>2 DEF SvcOK, TimerEntries, DelayEntries
      <4>2. svc.timers # {} => Least(svc.timers) \in Nat
        BY <4>1, FrontIsLeast
      <4>3. svc.delays # {} => Least(svc.delays) \in Nat
        BY <4>1, FrontIsLeast
      <4> QED BY <4>2, <4>3 DEF Deadline, IsEvent
    <3> QED BY <1>2, <1>11, <3>1
  <2>1. CASE ~IsEvent
    <3>1. PICK e \in Fronts(svc.delays) : TimeoutDelay(s, e, t, "scan")
      BY <1>6, <1>8, <1>11, <2>1
    <3>2. e \in svc.delays /\ NextDue(e, t)
      BY <1>2, <2>0, <2>1, NextDeadline
    <3> QED BY <1>7, <1>9, <3>1, <3>2, TimeoutDelayKeeps
  <2>2. CASE IsEvent
    <3>1. PICK x \in Fronts(svc.timers) : IF TopReady(s, x) THEN Dispatch(s, t)
                                          ELSE TimeoutEvent(s, x, t, "scan")
      BY <1>6, <1>8, <1>11, <2>2
    <3>2. x \in svc.timers /\ NextDue(x, t)
      BY <1>2, <2>0, <2>2, NextDeadline
    <3>3. CASE TopReady(s, x)
      BY <1>7, <1>9, <3>1, <3>3, DispatchKeeps
    <3>4. CASE ~TopReady(s, x)
      BY <1>7, <1>9, <3>1, <3>2, <3>4, TimeoutEventKeeps
    <3> QED BY <3>3, <3>4
  <2> QED BY <2>1, <2>2
<1> QED BY <1>10, <1>11

-----------------------------------------------------------------------------
(* The walk of stop_async_ops.                                             *)

\* The nodes of two stacks put together.
LEMMA StackJoined ==
  ASSUME NEW S, NEW q \in Seq(S), NEW u \in Seq(S), NEW f
  PROVE  StackOf(q \o u, f) = StackOf(q, f) \cup StackOf(u, f)
<1> DEFINE w == q \o u
           m == Len(q)
<1>1. /\ \A k \in DOMAIN w : \/ k \in DOMAIN q /\ w[k] = q[k]
                             \/ k - m \in DOMAIN u /\ w[k] = u[k - m]
      /\ \A k \in DOMAIN q : k \in DOMAIN w /\ w[k] = q[k]
      /\ \A k \in DOMAIN u : k + m \in DOMAIN w /\ w[k + m] = u[k]
  BY Joined
<1> HIDE DEF w, m
<1>2. StackOf(w, f) \subseteq StackOf(q, f) \cup StackOf(u, f)
  BY <1>1 DEF StackOf
<1>3. StackOf(q, f) \subseteq StackOf(w, f)
  BY <1>1 DEF StackOf
<1>4. StackOf(u, f) \subseteq StackOf(w, f)
  BY <1>1 DEF StackOf
<1> QED BY <1>2, <1>3, <1>4 DEF w

\* ... and of a stack of one frame, or none.
LEMMA StackOfOne ==
  ASSUME NEW w, NEW f
  PROVE  /\ w.free = f => StackOf(<<w>>, f) = {w.n}
         /\ w.free # f => StackOf(<<w>>, f) = {}
         /\ StackOf(<<>>, f) = {}
<1>1. DOMAIN <<w>> = {1} /\ <<w>>[1] = w
  OBVIOUS
<1> DEFINE q == <<w>>
<1>2. DOMAIN q = {1} /\ q[1] = w
  BY <1>1
<1>3. StackOf(<<>>, f) = {}
  BY DEF StackOf
<1> HIDE DEF q
<1>4. /\ w.free = f => StackOf(q, f) = {w.n}
      /\ w.free # f => StackOf(q, f) = {}
  BY <1>2 DEF StackOf
<1> QED BY <1>3, <1>4 DEF q

\* The top of the stack, and the frames under it.
LEMMA TopFrame ==
  ASSUME NEW q \in Seq(Frames), q # <<>>, DistinctNodes(q)
  PROVE  /\ 1 \in DOMAIN q /\ Head(q) = q[1] /\ Head(q) \in Frames
         /\ Tail(q) \in Seq(Frames) /\ DistinctNodes(Tail(q))
         /\ \A k \in DOMAIN Tail(q) : /\ k + 1 \in DOMAIN q /\ Tail(q)[k] = q[k + 1]
                                      /\ Tail(q)[k].n # Head(q).n
         /\ \A f : StackOf(q, f) = StackOf(<<Head(q)>>, f) \cup StackOf(Tail(q), f)
         /\ \A f : Head(q).n \notin StackOf(Tail(q), f)
<1>1. 1 \in DOMAIN q /\ Head(q) = q[1] /\ Head(q) \in Frames /\ Tail(q) \in Seq(Frames)
  OBVIOUS
<1>2. \A k \in DOMAIN Tail(q) : k \in Nat /\ k >= 1 /\ k + 1 \in DOMAIN q /\ Tail(q)[k] = q[k + 1]
  OBVIOUS
<1>3. \A k \in DOMAIN Tail(q) : Tail(q)[k].n # Head(q).n
  BY <1>1, <1>2 DEF DistinctNodes
<1>4. DistinctNodes(Tail(q))
  <2> SUFFICES ASSUME NEW j \in DOMAIN Tail(q), NEW k \in DOMAIN Tail(q),
                      Tail(q)[j].n = Tail(q)[k].n
               PROVE  j = k
    BY DEF DistinctNodes
  <2>1. j + 1 = k + 1
    BY <1>2 DEF DistinctNodes
  <2> QED BY <1>2, <2>1
<1>5. <<Head(q)>> \in Seq(Frames) /\ q = <<Head(q)>> \o Tail(q)
  OBVIOUS
<1>6. \A f : StackOf(q, f) = StackOf(<<Head(q)>>, f) \cup StackOf(Tail(q), f)
  <2> TAKE f
  <2> DEFINE h == <<Head(q)>>
             u == Tail(q)
  <2>1. h \in Seq(Frames) /\ u \in Seq(Frames) /\ q = h \o u
    BY <1>1, <1>5
  <2> HIDE DEF h, u
  <2>2. StackOf(h \o u, f) = StackOf(h, f) \cup StackOf(u, f)
    BY <2>1, StackJoined
  <2> QED BY <2>1, <2>2 DEF h, u
<1>7. \A f : Head(q).n \notin StackOf(Tail(q), f)
  BY <1>3 DEF StackOf
<1> QED BY <1>1, <1>2, <1>3, <1>4, <1>6, <1>7

\* The frame for a node that the walk comes to.
LEMMA VisitIs ==
  ASSUME SvcOK(svc), VecOK(svc), NEW n \in NodesOf(svc) \cup {Nil}
  PROVE  /\ Visit(n) \in Seq(Frames) /\ DistinctNodes(Visit(n))
         /\ \A k \in DOMAIN Visit(n) : /\ n # Nil /\ Visit(n)[k].n = n
                                       /\ Visit(n)[k].todo = AwaitedIn(svc, n)
                                       /\ Visit(n)[k].free = FALSE
         /\ StackOf(Visit(n), FALSE) = {n} \ {Nil}
         /\ StackOf(Visit(n), TRUE) = {}
<1>1. CASE n = Nil
  <2>1. Visit(n) = <<>>
    BY <1>1 DEF Visit
  <2>2. <<>> \in Seq(Frames) /\ DistinctNodes(<<>>) /\ DOMAIN <<>> = {}
    BY DEF DistinctNodes
  <2> QED BY <1>1, <2>1, <2>2, StackOfOne
<1>2. CASE n # Nil
  <2> DEFINE w == [n |-> n, todo |-> AwaitedIn(svc, n), free |-> FALSE]
  <2>1. Visit(n) = <<w>>
    BY <1>2 DEF Visit, AwaitedIn
  <2>2. n \in Fds
    BY <1>2, NodesInFds
  <2>3. w \in Frames /\ w.n = n /\ w.todo = AwaitedIn(svc, n) /\ w.free = FALSE
    BY <2>2 DEF Frames, AwaitedIn
  <2> HIDE DEF w
  <2>4. /\ <<w>> \in Seq(Frames) /\ DistinctNodes(<<w>>)
        /\ DOMAIN <<w>> = {1} /\ <<w>>[1] = w
    BY <2>3, AtMostOne
  <2>5. StackOf(<<w>>, FALSE) = {n} /\ StackOf(<<w>>, TRUE) = {}
    BY <2>3, StackOfOne
  <2> QED BY <1>2, <2>1, <2>3, <2>4, <2>5
<1> QED BY <1>1, <1>2

\* A step of the walk needs no more than this.
LEMMA WalkKeeps ==
  ASSUME TypeInv', StatusInv', cancels' = <<>>, VecOK(svc'), pc' \in {"walk", "stop_event"},
         Asked(svc', now'), Asked(svc', loc'.ct), loc'.ct <= now',
         "HUP" \notin Faults => RemainingTime', WalkInv'
  PROVE  Inv'
<1>1. CancelInv' /\ VecInv'
  BY DEF CancelInv, VecInv, Walking
<1>2. TimerInv'
  BY DEF TimerInv, TimersLive, EarliestFirst, Walking, Asked
<1>3. ScanInv'
  BY DEF ScanInv, ReportsOK, EntryOK, TodosOK, HoldsReports, InEntry, OnlyHangupsCrash
<1> QED BY <1>1, <1>2, <1>3 DEF Inv

\* stop_async_ops is called for the root.
LEMMA StartWalkKeeps ==
  ASSUME Inv, TreeSound, start_walk
  PROVE  Inv'
<1> DEFINE root == svc.tree.root
<1>1. /\ pc = "stop_delays" /\ pc' = "walk" /\ UNCHANGED <<svc, now, cancels, nh, calls, told>>
      /\ loc' = [NoLocals EXCEPT !.ct = now, !.walk = Visit(root)]
  BY DEF start_walk
<1>2. SvcOK(svc) /\ cancels = <<>> /\ now \in 0..MaxTime /\ now \in Nat
  BY <1>1 DEF Inv, TypeInv, CancelInv
<1>3. Settled(svc) /\ VecOK(svc)
  BY <1>1, <1>2, AtRest DEF Settled
<1>4. LocOK' /\ loc'.ct = now /\ loc'.walk = Visit(root) /\ loc'.hp
  BY <1>1, <1>2 DEF LocOK, NoLocals
<1>5. TypeInv' /\ StatusInv'
  BY <1>1, <1>4 DEF Inv, TypeInv, StatusInv, Pcs
<1>6. /\ Asked(svc', now') /\ Asked(svc', loc'.ct) /\ loc'.ct <= now'
      /\ ("HUP" \notin Faults => RemainingTime')
  BY <1>1, <1>2, <1>4 DEF Inv, TimerInv, Asked, RemainingTime
<1>7. WalkInv'
  <2>1. root \in NodesOf(svc) \cup {Nil}
    BY DEF TreeSound, Shaped
  <2>2. /\ Visit(root) \in Seq(Frames) /\ DistinctNodes(Visit(root))
        /\ \A k \in DOMAIN Visit(root) : /\ root # Nil /\ Visit(root)[k].n = root
                                         /\ Visit(root)[k].todo = AwaitedIn(svc, root)
                                         /\ Visit(root)[k].free = FALSE
        /\ StackOf(Visit(root), FALSE) = {root} \ {Nil}
        /\ StackOf(Visit(root), TRUE) = {}
    BY <1>2, <1>3, <2>1, VisitIs
  <2> HIDE DEF root
  <2>3. Emptied' = {}
    BY <1>1, <1>3 DEF Emptied, Settled
  <2>4. Visited' = {} /\ Reached' = {root} \ {Nil}
    BY <1>4, <2>2, <2>3 DEF Visited, Reached, OnStack
  <2>5. \A k \in DOMAIN Visit(root) : FrameOK(svc', Visit(root)[k])
    BY <1>1, <1>3, <2>1, <2>2 DEF FrameOK, Settled
  <2>6. \A n \in NodesOf(svc'), d \in Dirs : svc'.tree.kid[n][d] \notin Reached'
    BY <1>1, <2>4 DEF TreeSound, Shaped, root
  <2> QED BY <1>1, <1>4, <2>2, <2>4, <2>5, <2>6 DEF WalkInv, root
<1> QED BY <1>1, <1>2, <1>3, <1>5, <1>6, <1>7, WalkKeeps

\* What a step of the walk can use.
LEMMA WalkFacts ==
  ASSUME Inv, Walking
  PROVE  /\ SvcOK(svc) /\ VecOK(svc) /\ LocOK /\ cancels = <<>> /\ loc.hp
         /\ now \in Nat /\ loc.ct \in 0..MaxTime /\ loc.ct <= now
         /\ Asked(svc, now) /\ Asked(svc, loc.ct)
         /\ svc.status = "STOPPING"
         /\ loc.walk \in Seq(Frames) /\ DistinctNodes(loc.walk)
         /\ \A k \in DOMAIN loc.walk : FrameOK(svc, loc.walk[k])
         /\ NodesOf(svc) \subseteq Fds
<1>1. SvcOK(svc) /\ VecOK(svc) /\ LocOK /\ now \in Nat
  BY DEF Inv, TypeInv, VecInv
<1>2. cancels = <<>> /\ svc.status = "STOPPING"
  BY DEF Inv, CancelInv, StatusInv, Walking
<1>3. loc.ct \in 0..MaxTime
  BY <1>1 DEF LocOK
<1>4. Asked(svc, now) /\ Asked(svc, loc.ct) /\ loc.ct <= now
  BY DEF Inv, TimerInv, Asked
<1>5. /\ loc.walk \in Seq(Frames) /\ DistinctNodes(loc.walk) /\ loc.hp
      /\ \A k \in DOMAIN loc.walk : FrameOK(svc, loc.walk[k])
  BY DEF Inv, WalkInv
<1> QED BY <1>1, <1>2, <1>3, <1>4, <1>5, NodesInFds

\* stop_handler calls a handler of the node.
LEMMA StopNextEventKeeps ==
  ASSUME Inv, stop_next_event
  PROVE  Inv'
<1> DEFINE top == Head(loc.walk)
<1>1. pc = "walk" /\ Walking /\ loc.walk # <<>>
  BY DEF stop_next_event, Walking
<1>2. /\ SvcOK(svc) /\ VecOK(svc) /\ LocOK /\ cancels = <<>> /\ loc.hp
      /\ now \in Nat /\ loc.ct \in 0..MaxTime /\ loc.ct <= now
      /\ Asked(svc, now) /\ Asked(svc, loc.ct)
      /\ loc.walk \in Seq(Frames) /\ DistinctNodes(loc.walk)
      /\ \A k \in DOMAIN loc.walk : FrameOK(svc, loc.walk[k])
  BY <1>1, WalkFacts
<1>3. 1 \in DOMAIN loc.walk /\ top = loc.walk[1] /\ top \in Frames
  BY <1>1, <1>2, TopFrame
<1>4. PICK ty \in top.todo :
         /\ Count(svc.evts[top.n][ty])
         /\ told' = Tell(svc, top.n, ty, loc.ct, "EIO_STOPPED")
         /\ loc' = [loc EXCEPT !.walk[1].todo = @ \ {ty}]
         /\ pc' = "stop_event"
         /\ UNCHANGED <<svc, now, cancels, nh>>
  BY <1>2 DEF stop_next_event
<1> DEFINE w2 == [top EXCEPT !.todo = @ \ {ty}]
           q2 == [loc.walk EXCEPT ![1] = w2]
<1>5. loc' = [loc EXCEPT !.walk = q2]
  BY <1>2, <1>3, <1>4 DEF LocOK
<1>6. /\ w2 \in Frames /\ w2.n = top.n /\ w2.free = top.free /\ w2.todo = top.todo \ {ty}
  BY <1>3 DEF Frames
<1> HIDE DEF w2
<1>7. /\ q2 \in Seq(Frames) /\ DOMAIN q2 = DOMAIN loc.walk /\ q2[1] = w2
      /\ \A k \in DOMAIN loc.walk : k # 1 => q2[k] = loc.walk[k]
  BY <1>2, <1>3, <1>6
<1> HIDE DEF q2, top
<1>8. LocOK' /\ loc'.walk = q2 /\ loc'.hp /\ loc'.ct = loc.ct
  BY <1>2, <1>5 DEF LocOK
<1>9. \A k \in DOMAIN loc.walk : q2[k].n = loc.walk[k].n /\ q2[k].free = loc.walk[k].free
                                 /\ q2[k].todo \subseteq loc.walk[k].todo
  BY <1>3, <1>6, <1>7
<1>10. DistinctNodes(q2) /\ \A f : StackOf(q2, f) = StackOf(loc.walk, f)
  BY <1>2, <1>7, <1>9 DEF DistinctNodes, StackOf
<1>11. \A k \in DOMAIN q2 : FrameOK(svc', q2[k])
  <2> TAKE k \in DOMAIN q2
  <2>1. FrameOK(svc, loc.walk[k]) /\ svc' = svc
    BY <1>2, <1>4, <1>7
  <2> QED BY <1>7, <1>9, <2>1 DEF FrameOK
<1>12. Emptied' = Emptied /\ Visited' = Visited /\ Reached' = Reached
  BY <1>4, <1>8, <1>10 DEF Emptied, Visited, Reached, OnStack
<1>13. WalkInv'
  BY <1>1, <1>4, <1>7, <1>8, <1>10, <1>11, <1>12 DEF Inv, WalkInv
<1>14. ToldOf(told', svc, top.n, ty, loc.ct, "EIO_STOPPED")
  <2>1. "EIO_STOPPED" \in Codes
    BY DEF Codes
  <2> QED BY <1>2, <1>4, <2>1, TellFacts
<1>15. RemainingTime'
  <2> DEFINE X == TimerOf(svc, top.n, ty)
  <2>1. \A x \in X : x.at - x.ms <= loc.ct /\ x.at \in Int /\ x.ms \in Nat
    BY <1>2, IoServiceAssumption DEF TimerOf, SvcOK, TimerEntries, Asked
  <2>2. told'.left <= told'.ms /\ (told'.left = 0 => told'.due <= now)
    <3>1. CASE X = {}
      BY <1>2, <1>14, <3>1 DEF ToldOf
    <3>2. CASE X # {}
      <4>1. PICK x \in X : told'.left = max0(x.at - loc.ct) /\ told'.ms = x.ms /\ told'.due = x.at
        BY <1>14, <3>2 DEF ToldOf
      <4> QED BY <1>2, <2>1, <4>1 DEF max0
    <3> QED BY <3>1, <3>2
  <2> QED BY <1>4, <2>2 DEF RemainingTime
<1>16. TypeInv' /\ StatusInv'
  <2>1. told' \in [code : Codes, left : Nat, ms : Nat, due : Nat]
    BY <1>14 DEF ToldOf
  <2> QED BY <1>1, <1>4, <1>8, <2>1, CountType DEF Inv, TypeInv, StatusInv, Pcs
<1> QED BY <1>2, <1>4, <1>8, <1>13, <1>15, <1>16, WalkKeeps

\* The walk goes on to children that it has not reached before: none of them was
\* freed.
LEMMA ChildrenUnreached ==
  ASSUME Inv, TreeSound, walk_children
  PROVE  LET top == Head(loc.walk)
             rest == Tail(loc.walk)
             kids == svc.tree.kid[top.n]
         IN  /\ OnStack(TRUE) = StackOf(rest, TRUE)
             /\ OnStack(FALSE) = {top.n} \cup StackOf(rest, FALSE)
             /\ top.n \in NodesOf(svc) /\ AwaitedIn(svc, top.n) # {} /\ top.n \notin Visited
             /\ \A d \in Dirs : kids[d] \in NodesOf(svc) \cup {Nil} /\ kids[d] \notin Reached
             /\ \A c \in NodesOf(svc) : c \notin Reached => AwaitedIn(svc, c) # {}
             /\ loc' = [loc EXCEPT !.walk = ((Visit(kids[LEFT]) \o Visit(kids[RIGHT])) \o
                                             <<[top EXCEPT !.free = TRUE]>>) \o rest]
             /\ UNCHANGED <<svc, now, pc, cancels, nh, calls, told>>
<1> DEFINE top == Head(loc.walk)
           rest == Tail(loc.walk)
           kids == svc.tree.kid[top.n]
           keys == NodesOf(svc)
<1>1. pc = "walk" /\ Walking /\ loc.walk # <<>> /\ ~top.free /\ top.todo = {}
  BY DEF walk_children, Walking
<1>2. /\ SvcOK(svc) /\ VecOK(svc) /\ LocOK /\ cancels = <<>> /\ loc.hp
      /\ loc.ct <= now /\ Asked(svc, now) /\ Asked(svc, loc.ct)
      /\ loc.walk \in Seq(Frames) /\ DistinctNodes(loc.walk)
      /\ \A k \in DOMAIN loc.walk : FrameOK(svc, loc.walk[k])
  BY <1>1, WalkFacts
<1>3. /\ 1 \in DOMAIN loc.walk /\ top = loc.walk[1] /\ top \in Frames
      /\ rest \in Seq(Frames) /\ DistinctNodes(rest)
      /\ \A k \in DOMAIN rest : /\ k + 1 \in DOMAIN loc.walk /\ rest[k] = loc.walk[k + 1]
                                /\ rest[k].n # top.n
      /\ \A f : StackOf(loc.walk, f) = StackOf(<<top>>, f) \cup StackOf(rest, f)
      /\ \A f : top.n \notin StackOf(rest, f)
  BY <1>1, <1>2, TopFrame
<1> HIDE DEF rest, top
<1>4. top.free = FALSE
  BY <1>1, <1>3 DEF Frames
<1>5. OnStack(TRUE) = StackOf(rest, TRUE) /\ OnStack(FALSE) = {top.n} \cup StackOf(rest, FALSE)
  <2>1. StackOf(<<top>>, TRUE) = {} /\ StackOf(<<top>>, FALSE) = {top.n}
    BY <1>4, StackOfOne
  <2>2. /\ StackOf(loc.walk, TRUE) = StackOf(<<top>>, TRUE) \cup StackOf(rest, TRUE)
        /\ StackOf(loc.walk, FALSE) = StackOf(<<top>>, FALSE) \cup StackOf(rest, FALSE)
    BY <1>3, Zenon
  <2> QED BY <2>1, <2>2 DEF OnStack
<1>6. top.n \in keys /\ AwaitedIn(svc, top.n) # {} /\ top.n \notin Visited
  BY <1>2, <1>3, <1>5 DEF FrameOK, Visited, Emptied
<1>7. \A d \in Dirs : kids[d] \in keys \cup {Nil} /\ kids[d] \notin Reached
  <2>1. \A d \in Dirs : kids[d] \in keys \cup {Nil}
    BY <1>6 DEF TreeSound, Shaped
  <2>2. \A d \in Dirs : kids[d] \notin Reached
    BY <1>1, <1>6 DEF Inv, WalkInv
  <2> QED BY <2>1, <2>2
<1>8. \A c \in keys : c \notin Reached => AwaitedIn(svc, c) # {}
  BY DEF Reached, Visited, Emptied
<1>9. ~ \E d \in {LEFT, RIGHT} : kids[d] # Nil /\ svc.evts[kids[d]] = NoEvents
  BY <1>7, <1>8 DEF Dirs, AwaitedIn, Scheduled, NoEvents
<1>10. /\ loc' = [loc EXCEPT !.walk = ((Visit(kids[LEFT]) \o Visit(kids[RIGHT])) \o
                                       <<[top EXCEPT !.free = TRUE]>>) \o rest]
       /\ UNCHANGED <<svc, now, pc, cancels, nh, calls, told>>
  BY <1>9 DEF walk_children, top, rest
<1> QED BY <1>5, <1>6, <1>7, <1>8, <1>10 DEF top, rest

\* stop_async_ops goes on to the children.
LEMMA WalkChildrenKeeps ==
  ASSUME Inv, TreeSound, walk_children
  PROVE  Inv'
<1> DEFINE top == Head(loc.walk)
           rest == Tail(loc.walk)
           L == svc.tree.kid[top.n][LEFT]
           R == svc.tree.kid[top.n][RIGHT]
           done == [top EXCEPT !.free = TRUE]
           keys == NodesOf(svc)
<1>1. pc = "walk" /\ Walking /\ loc.walk # <<>> /\ ~top.free /\ top.todo = {}
  BY DEF walk_children, Walking
<1>2. /\ SvcOK(svc) /\ VecOK(svc) /\ LocOK /\ cancels = <<>> /\ loc.hp
      /\ loc.ct <= now /\ Asked(svc, now) /\ Asked(svc, loc.ct)
      /\ loc.walk \in Seq(Frames) /\ DistinctNodes(loc.walk)
      /\ \A k \in DOMAIN loc.walk : FrameOK(svc, loc.walk[k])
  BY <1>1, WalkFacts
<1>3. /\ 1 \in DOMAIN loc.walk /\ top = loc.walk[1] /\ top \in Frames
      /\ rest \in Seq(Frames) /\ DistinctNodes(rest)
      /\ \A k \in DOMAIN rest : /\ k + 1 \in DOMAIN loc.walk /\ rest[k] = loc.walk[k + 1]
                                /\ rest[k].n # top.n
      /\ \A f : StackOf(loc.walk, f) = StackOf(<<top>>, f) \cup StackOf(rest, f)
      /\ \A f : top.n \notin StackOf(rest, f)
  BY <1>1, <1>2, TopFrame
<1> HIDE DEF rest, top
<1>4. LEFT \in Dirs /\ RIGHT \in Dirs
  BY DEF Dirs
<1>5. OnStack(TRUE) = StackOf(rest, TRUE) /\ OnStack(FALSE) = {top.n} \cup StackOf(rest, FALSE)
  BY ChildrenUnreached DEF top, rest
<1>6. top.n \in keys /\ AwaitedIn(svc, top.n) # {} /\ top.n \notin Visited
  BY ChildrenUnreached DEF top
<1>7. L \in keys \cup {Nil} /\ R \in keys \cup {Nil} /\ L \notin Reached /\ R \notin Reached
  BY <1>4, ChildrenUnreached DEF top
<1>8. L # Nil => L # R
  BY <1>6 DEF TreeSound, Shaped, Dirs, LEFT, RIGHT
<1>9. \A c \in keys : c \notin Reached => AwaitedIn(svc, c) # {}
  BY ChildrenUnreached
<1> DEFINE a == Visit(L)
           b == Visit(R)
           c == <<done>>
           q2 == ((a \o b) \o c) \o rest
<1>11. /\ loc' = [loc EXCEPT !.walk = q2]
       /\ UNCHANGED <<svc, now, pc, cancels, nh, calls, told>>
  BY ChildrenUnreached DEF top, rest
<1>12. done \in Frames /\ done.n = top.n /\ done.todo = {} /\ done.free = TRUE
  BY <1>1, <1>3 DEF Frames
<1> HIDE DEF done, L, R, keys
<1>13. /\ a \in Seq(Frames) /\ DistinctNodes(a)
       /\ \A k \in DOMAIN a : /\ L # Nil /\ a[k].n = L /\ a[k].todo = AwaitedIn(svc, L)
                              /\ a[k].free = FALSE
       /\ StackOf(a, FALSE) = {L} \ {Nil} /\ StackOf(a, TRUE) = {}
  BY <1>2, <1>7, VisitIs, ZenonT(60) DEF keys
<1>14. /\ b \in Seq(Frames) /\ DistinctNodes(b)
       /\ \A k \in DOMAIN b : /\ R # Nil /\ b[k].n = R /\ b[k].todo = AwaitedIn(svc, R)
                              /\ b[k].free = FALSE
       /\ StackOf(b, FALSE) = {R} \ {Nil} /\ StackOf(b, TRUE) = {}
  BY <1>2, <1>7, VisitIs, ZenonT(60) DEF keys
<1>15. /\ c \in Seq(Frames) /\ DistinctNodes(c) /\ \A k \in DOMAIN c : c[k] = done
       /\ StackOf(c, TRUE) = {top.n} /\ StackOf(c, FALSE) = {}
  <2>1. <<done>> \in Seq(Frames) /\ DistinctNodes(<<done>>) /\ DOMAIN <<done>> = {1}
        /\ <<done>>[1] = done
    BY <1>12, AtMostOne
  <2> QED BY <1>12, <2>1, StackOfOne
<1> HIDE DEF a, b, c
<1>16. \A k \in DOMAIN rest : FrameOK(svc, rest[k]) /\ rest[k].n \in Reached /\ rest[k].n # top.n
  <2> TAKE k \in DOMAIN rest
  <2>1. FrameOK(svc, rest[k]) /\ rest[k].n # top.n
    BY <1>2, <1>3
  <2>2. rest[k].free \in BOOLEAN
    <3>1. rest[k] \in Frames
      BY <1>3
    <3> QED BY <3>1 DEF Frames
  <2>3. rest[k].n \in StackOf(rest, TRUE) \cup StackOf(rest, FALSE)
    BY <2>2 DEF StackOf
  <2> QED BY <1>5, <2>1, <2>3 DEF Reached, Visited
<1>17. top.n \in Reached
  BY <1>5 DEF Reached
<1> DEFINE u == a \o b
           v == u \o c
<1>18. /\ u \in Seq(Frames) /\ DistinctNodes(u)
       /\ \A k \in DOMAIN u : u[k].n \notin Reached /\ FrameOK(svc, u[k])
       /\ StackOf(u, FALSE) = {L, R} \ {Nil} /\ StackOf(u, TRUE) = {}
  <2>1. \A j \in DOMAIN a, k \in DOMAIN b : a[j].n # b[k].n
    BY <1>8, <1>13, <1>14
  <2>2. DistinctNodes(u)
    BY <1>13, <1>14, <2>1, JoinedNodes
  <2>3. u \in Seq(Frames) /\ \A k \in DOMAIN u : \/ k \in DOMAIN a /\ u[k] = a[k]
                                                 \/ k - Len(a) \in DOMAIN b /\ u[k] = b[k - Len(a)]
    BY <1>13, <1>14, Joined
  <2>4. \A k \in DOMAIN a : a[k].n \notin Reached /\ FrameOK(svc, a[k])
    BY <1>7, <1>9, <1>13 DEF FrameOK, keys
  <2>5. \A k \in DOMAIN b : b[k].n \notin Reached /\ FrameOK(svc, b[k])
    BY <1>7, <1>9, <1>14 DEF FrameOK, keys
  <2>6. \A f : StackOf(u, f) = StackOf(a, f) \cup StackOf(b, f)
    BY <1>13, <1>14, StackJoined
  <2> HIDE DEF u
  <2>7. \A k \in DOMAIN u : u[k].n \notin Reached /\ FrameOK(svc, u[k])
    BY <2>3, <2>4, <2>5
  <2>8. StackOf(u, FALSE) = {L, R} \ {Nil} /\ StackOf(u, TRUE) = {}
    BY <1>13, <1>14, <2>6, ZenonT(60)
  <2> QED BY <2>2, <2>3, <2>7, <2>8
<1> HIDE DEF u
<1>19. /\ v \in Seq(Frames) /\ DistinctNodes(v)
       /\ \A k \in DOMAIN v : (v[k].n \notin Reached \/ v[k].n = top.n) /\ FrameOK(svc, v[k])
       /\ StackOf(v, FALSE) = {L, R} \ {Nil} /\ StackOf(v, TRUE) = {top.n}
  <2>1. \A j \in DOMAIN u, k \in DOMAIN c : u[j].n # c[k].n
    BY <1>12, <1>15, <1>17, <1>18
  <2>2. DistinctNodes(v)
    BY <1>15, <1>18, <2>1, JoinedNodes
  <2>3. v \in Seq(Frames) /\ \A k \in DOMAIN v : \/ k \in DOMAIN u /\ v[k] = u[k]
                                                 \/ k - Len(u) \in DOMAIN c /\ v[k] = c[k - Len(u)]
    BY <1>15, <1>18, Joined
  <2>4. \A k \in DOMAIN c : c[k].n = top.n /\ FrameOK(svc, c[k])
    BY <1>6, <1>12, <1>15 DEF FrameOK, keys
  <2>5. \A f : StackOf(v, f) = StackOf(u, f) \cup StackOf(c, f)
    BY <1>15, <1>18, StackJoined
  <2> HIDE DEF v
  <2>6. \A k \in DOMAIN v : (v[k].n \notin Reached \/ v[k].n = top.n) /\ FrameOK(svc, v[k])
    BY <1>18, <2>3, <2>4
  <2>7. StackOf(v, FALSE) = {L, R} \ {Nil} /\ StackOf(v, TRUE) = {top.n}
    BY <1>15, <1>18, <2>5
  <2> QED BY <2>2, <2>3, <2>6, <2>7
<1>20. q2 = v \o rest
  BY DEF u
<1> HIDE DEF v, q2
<1>21. /\ q2 \in Seq(Frames) /\ DistinctNodes(q2)
       /\ \A k \in DOMAIN q2 : FrameOK(svc, q2[k])
       /\ StackOf(q2, FALSE) = ({L, R} \ {Nil}) \cup StackOf(rest, FALSE)
       /\ StackOf(q2, TRUE) = {top.n} \cup StackOf(rest, TRUE)
  <2>1. \A j \in DOMAIN v, k \in DOMAIN rest : v[j].n # rest[k].n
    BY <1>16, <1>19
  <2>2. DistinctNodes(q2)
    BY <1>3, <1>19, <1>20, <2>1, JoinedNodes
  <2>3. q2 \in Seq(Frames)
        /\ \A k \in DOMAIN q2 : \/ k \in DOMAIN v /\ q2[k] = v[k]
                                \/ k - Len(v) \in DOMAIN rest /\ q2[k] = rest[k - Len(v)]
    <3>1. rest \in Seq(Frames) /\ v \in Seq(Frames)
      BY <1>3, <1>19
    <3> QED BY <1>20, <3>1, Joined
  <2>4. \A f : StackOf(q2, f) = StackOf(v, f) \cup StackOf(rest, f)
    BY <1>3, <1>19, <1>20, StackJoined
  <2>5. \A k \in DOMAIN q2 : FrameOK(svc, q2[k])
    BY <1>16, <1>19, <2>3
  <2> QED BY <1>19, <2>2, <2>3, <2>4, <2>5
<1>22. LocOK' /\ loc'.walk = q2 /\ loc'.hp /\ loc'.ct = loc.ct
  BY <1>2, <1>11 DEF LocOK
<1>23. Emptied' = Emptied
  BY <1>11 DEF Emptied
<1>24. Visited' = Visited \cup {top.n} /\ Reached' = Reached \cup ({L, R} \ {Nil})
  <2>1. OnStack(TRUE)' = {top.n} \cup OnStack(TRUE)
    BY <1>5, <1>21, <1>22 DEF OnStack
  <2>2. OnStack(FALSE)' = ({L, R} \ {Nil}) \cup StackOf(rest, FALSE)
    BY <1>21, <1>22 DEF OnStack
  <2>3. Visited' = Visited \cup {top.n}
    BY <1>23, <2>1 DEF Visited
  <2>4. Reached' = Reached \cup ({L, R} \ {Nil})
    BY <1>5, <2>2, <2>3 DEF Reached
  <2> QED BY <2>3, <2>4
<1>25. WalkInv'
  <2>1. svc'.tree = svc.tree /\ NodesOf(svc') = keys
    BY <1>11 DEF keys
  <2>2. svc.tree.root \in Reached' \cup {Nil}
    BY <1>1, <1>24 DEF Inv, WalkInv
  <2>3. \A n \in Visited', d \in Dirs : svc.tree.kid[n][d] \in Reached' \cup {Nil}
    BY <1>1, <1>24 DEF Inv, WalkInv, Dirs, L, R
  <2>4. \A n \in keys, d \in Dirs : n \notin Visited' => svc.tree.kid[n][d] \notin Reached'
    <3> SUFFICES ASSUME NEW n \in keys, NEW d \in Dirs, n \notin Visited, n # top.n
                 PROVE  svc.tree.kid[n][d] \notin Reached'
      BY <1>24
    <3>1. svc.tree.kid[n][d] \notin Reached
      BY <1>1 DEF Inv, WalkInv, keys
    <3>2. svc.tree.kid[n][d] # Nil => svc.tree.kid[n][d] # L /\ svc.tree.kid[n][d] # R
      BY <1>6 DEF TreeSound, Shaped, Dirs, L, R, keys
    <3> QED BY <1>24, <3>1, <3>2
  <2>5. \A k \in DOMAIN q2 : FrameOK(svc', q2[k])
    BY <1>11, <1>21
  <2> QED BY <1>21, <1>22, <2>1, <2>2, <2>3, <2>4, <2>5 DEF WalkInv
<1>26. TypeInv' /\ StatusInv'
  BY <1>11, <1>22 DEF Inv, TypeInv, StatusInv
<1>27. Asked(svc', now') /\ Asked(svc', loc'.ct) /\ loc'.ct <= now' /\ VecOK(svc')
       /\ ("HUP" \notin Faults => RemainingTime')
  BY <1>2, <1>11, <1>22 DEF Inv, TimerInv, RemainingTime
<1> QED BY <1>1, <1>2, <1>11, <1>25, <1>26, <1>27, WalkKeeps

\* stop_async_ops frees a node: its children are done with.
LEMMA WalkFreeKeeps ==
  ASSUME Inv, walk_free
  PROVE  Inv'
<1> DEFINE top == Head(loc.walk)
           rest == Tail(loc.walk)
           n == top.n
<1>1. /\ pc = "walk" /\ Walking /\ loc.walk # <<>> /\ top.free
      /\ svc' = [svc EXCEPT !.evts[n] = NoEvents] /\ loc' = [loc EXCEPT !.walk = rest]
      /\ UNCHANGED <<now, pc, cancels, nh, calls, told>>
  BY DEF walk_free, Walking
<1>2. /\ SvcOK(svc) /\ VecOK(svc) /\ LocOK /\ cancels = <<>> /\ loc.hp
      /\ loc.ct <= now /\ Asked(svc, now) /\ Asked(svc, loc.ct)
      /\ loc.walk \in Seq(Frames) /\ DistinctNodes(loc.walk)
      /\ \A k \in DOMAIN loc.walk : FrameOK(svc, loc.walk[k])
      /\ NodesOf(svc) \subseteq Fds
  BY <1>1, WalkFacts
<1>3. /\ 1 \in DOMAIN loc.walk /\ top = loc.walk[1] /\ top \in Frames
      /\ rest \in Seq(Frames) /\ DistinctNodes(rest)
      /\ \A k \in DOMAIN rest : /\ k + 1 \in DOMAIN loc.walk /\ rest[k] = loc.walk[k + 1]
                                /\ rest[k].n # n
  BY <1>1, <1>2, TopFrame
<1>4. /\ StackOf(loc.walk, TRUE) = StackOf(<<top>>, TRUE) \cup StackOf(rest, TRUE)
      /\ StackOf(loc.walk, FALSE) = StackOf(<<top>>, FALSE) \cup StackOf(rest, FALSE)
  BY <1>1, <1>2, TopFrame
<1> HIDE DEF rest, top
<1>5. top.free = TRUE
  BY <1>1, <1>3 DEF Frames
<1>6. OnStack(TRUE) = {n} \cup StackOf(rest, TRUE) /\ OnStack(FALSE) = StackOf(rest, FALSE)
  <2>1. StackOf(<<top>>, TRUE) = {n} /\ StackOf(<<top>>, FALSE) = {}
    BY <1>5, StackOfOne
  <2> QED BY <1>4, <2>1 DEF OnStack
<1>7. n \in NodesOf(svc) /\ n \in Fds
  BY <1>2, <1>3 DEF FrameOK
<1> HIDE DEF n
<1>8. /\ svc'.status = svc.status /\ svc'.sync = svc.sync /\ svc'.delays = svc.delays
      /\ svc'.timers = svc.timers /\ svc'.tree = svc.tree /\ svc'.npoll = svc.npoll
      /\ svc'.pvec = svc.pvec /\ svc'.idx = svc.idx
      /\ svc'.evts = [svc.evts EXCEPT ![n] = NoEvents]
  BY <1>1, <1>2 DEF SvcOK
<1>9. SvcOK(svc')
  <2>1. svc'.evts \in [Fds -> [Types -> Handlers \cup {NULL}]]
    BY <1>2, <1>7, <1>8 DEF SvcOK, NoEvents
  <2> QED BY <1>1, <1>2, <1>8, <2>1 DEF SvcOK
<1>10. NodesOf(svc') = NodesOf(svc) /\ InUse(svc') = InUse(svc)
  BY <1>8 DEF NodesOf, InUse
<1>11. VecOK(svc')
  BY <1>2, <1>7, <1>8, <1>10 DEF VecOK, SvcOK
<1>12. /\ AwaitedIn(svc', n) = {}
       /\ \A m \in Fds : m # n => AwaitedIn(svc', m) = AwaitedIn(svc, m)
  BY <1>2, <1>7, <1>8 DEF AwaitedIn, Scheduled, NoEvents, SvcOK
<1>13. LocOK' /\ loc'.walk = rest /\ loc'.hp /\ loc'.ct = loc.ct
  BY <1>1, <1>2 DEF LocOK
<1>14. Emptied' = Emptied \cup {n}
  BY <1>2, <1>7, <1>10, <1>12 DEF Emptied
<1>15. Visited' = Visited /\ Reached' = Reached
  <2>1. OnStack(TRUE)' = StackOf(rest, TRUE) /\ OnStack(FALSE)' = StackOf(rest, FALSE)
    BY <1>13 DEF OnStack
  <2>2. Visited' = Visited
    BY <1>6, <1>14, <2>1 DEF Visited
  <2> QED BY <1>6, <2>1, <2>2 DEF Reached
<1>16. \A k \in DOMAIN rest : FrameOK(svc', rest[k])
  <2> TAKE k \in DOMAIN rest
  <2>1. FrameOK(svc, rest[k]) /\ rest[k].n # n
    BY <1>2, <1>3 DEF n
  <2>2. AwaitedIn(svc', rest[k].n) = AwaitedIn(svc, rest[k].n)
    BY <1>2, <1>12, <2>1 DEF FrameOK
  <2> QED BY <1>10, <2>1, <2>2 DEF FrameOK
<1>17. WalkInv'
  <2>1. /\ svc.tree.root \in Reached \cup {Nil}
        /\ \A m \in Visited, d \in Dirs : svc.tree.kid[m][d] \in Reached \cup {Nil}
        /\ \A m \in NodesOf(svc), d \in Dirs :
              m \notin Visited => svc.tree.kid[m][d] \notin Reached
    BY <1>1 DEF Inv, WalkInv
  <2>2. loc'.walk \in Seq(Frames) /\ DistinctNodes(loc'.walk)
        /\ \A k \in DOMAIN loc'.walk : FrameOK(svc', loc'.walk[k])
    BY <1>3, <1>13, <1>16
  <2> QED BY <1>8, <1>10, <1>13, <1>15, <2>1, <2>2 DEF WalkInv
<1>18. TypeInv' /\ StatusInv'
  BY <1>1, <1>8, <1>9, <1>13 DEF Inv, TypeInv, StatusInv
<1>19. Asked(svc', now') /\ Asked(svc', loc'.ct) /\ loc'.ct <= now'
       /\ ("HUP" \notin Faults => RemainingTime')
  BY <1>1, <1>2, <1>8, <1>13 DEF Inv, TimerInv, RemainingTime, Asked
<1> QED BY <1>1, <1>2, <1>11, <1>17, <1>18, <1>19, WalkKeeps

\* stop_async_ops has returned.  It has reached every node, so none keeps its
\* handlers.
LEMMA EndWalkKeeps ==
  ASSUME Inv, TreeSound, end_walk
  PROVE  Inv'
<1>1. /\ pc = "walk" /\ Walking /\ loc.walk = <<>> /\ pc' = "loop"
      /\ svc' = [svc EXCEPT !.timers = {}, !.npoll = 0, !.tree = EmptyTree,
                            !.idx = [fd \in Fds |-> 0]]
      /\ loc' = NoLocals
      /\ UNCHANGED <<now, cancels, nh, calls, told>>
  BY DEF end_walk, Walking
<1>2. /\ SvcOK(svc) /\ VecOK(svc) /\ cancels = <<>> /\ now \in Nat /\ svc.status = "STOPPING"
      /\ 0 \in 0..MaxTime
  BY <1>1, WalkFacts, IoServiceAssumption
<1>3. Emptied = NodesOf(svc)
  <2>1. OnStack(TRUE) = {} /\ OnStack(FALSE) = {}
    BY <1>1, StackOfOne DEF OnStack
  <2>2. Visited = Emptied /\ Reached = Emptied
    BY <2>1 DEF Visited, Reached
  <2>3. /\ Emptied \in SUBSET NodesOf(svc) /\ svc.tree.root \in Emptied \cup {Nil}
        /\ \A n \in Emptied, d \in Dirs : svc.tree.kid[n][d] \in Emptied \cup {Nil}
    BY <1>1, <2>2 DEF Inv, WalkInv, Emptied
  <2> QED BY <2>3 DEF TreeSound, Shaped
<1>4. \A fd \in Fds : svc.evts[fd] = NoEvents
  <2> TAKE fd \in Fds
  <2>1. CASE fd \notin NodesOf(svc)
    BY <1>2, <2>1 DEF VecOK
  <2>2. CASE fd \in NodesOf(svc)
    <3>1. \A ty \in Types : svc.evts[fd][ty] = NULL
      BY <1>3, <2>2 DEF Emptied, AwaitedIn, Scheduled
    <3>2. svc.evts[fd] \in [Types -> Handlers \cup {NULL}]
      BY <1>2 DEF SvcOK
    <3> QED BY <3>1, <3>2 DEF NoEvents
  <2> QED BY <2>1, <2>2
<1> DEFINE zero == [fd \in Fds |-> 0]
<1>5. zero \in [Fds -> Slots]
  <2>1. \A fd \in Fds : 0 \in Slots
    <3> TAKE fd \in Fds
    <3>1. svc.idx[fd] \in Slots
      BY <1>2 DEF SvcOK
    <3> QED BY <3>1, FdsCount DEF Slots
  <2> QED BY <2>1
<1>6. svc' = [svc EXCEPT !.timers = {}, !.npoll = 0, !.tree = EmptyTree, !.idx = zero]
  BY <1>1
<1> HIDE DEF zero
<1>7. /\ svc'.status = svc.status /\ svc'.evts = svc.evts /\ svc'.timers = {}
      /\ svc'.npoll = 0 /\ svc'.sync = svc.sync
  BY <1>2, <1>6 DEF SvcOK
<1>8. SvcOK(svc')
  <2>1. 0 \in 0..Cardinality(Fds)
    BY FdsCount
  <2> HIDE DEF EmptyTree
  <2> QED BY <1>2, <1>5, <1>6, <2>1 DEF SvcOK
<1>9. InUse(svc') = {} /\ NodesOf(svc') = {}
  BY <1>7 DEF InUse, NodesOf
<1>10. Settled(svc') /\ Asked(svc', now')
  BY <1>4, <1>7, <1>9 DEF Settled, VecOK, EventsOK, TimersOK, Asked
<1>11. LocOK' /\ loc'.ct = 0
  BY <1>1, <1>2 DEF LocOK, NoLocals
<1>12. TypeInv' /\ StatusInv'
  BY <1>1, <1>2, <1>7, <1>8, <1>11 DEF Inv, TypeInv, StatusInv, Pcs
<1>13. loc'.ct <= now' /\ ("HUP" \notin Faults => RemainingTime')
  BY <1>1, <1>2, <1>11 DEF Inv, TimerInv, RemainingTime
<1> QED BY <1>1, <1>2, <1>10, <1>12, <1>13, RestKeeps

-----------------------------------------------------------------------------
(* All steps.                                                              *)

\* Nothing changes.
LEMMA StutterKeeps ==
  ASSUME Inv, UNCHANGED vars
  PROVE  Inv'
<1>1. svc' = svc /\ now' = now /\ pc' = pc /\ loc' = loc /\ cancels' = cancels /\ nh' = nh
      /\ calls' = calls /\ told' = told
  BY DEF vars
<1>2. SameWaits(svc, svc') /\ SvcOK(svc') /\ StatusInv'
      /\ nh' \in 0..MaxHandlers /\ calls' \in [Handlers -> 0..2]
  BY <1>1 DEF SameWaits, Inv, TypeInv, StatusInv
<1> QED BY <1>1, <1>2, QuietKeeps

\* Every call of a careful client.
LEMMA ClientKeeps ==
  ASSUME Inv, TreeSound, Careful, InsertKeepsPlaces, Client
  PROVE  Inv'
<1>1. CASE iosvc_post
  BY <1>1, PostKeeps
<1>2. CASE \E ms \in Delays : iosvc_post_delay(ms)
  BY <1>2, PostDelayKeeps
<1>3. CASE \E fd \in Fds, ty \in Types : iosvc_sched(fd, ty)
  BY <1>3, SchedActionKeeps
<1>4. CASE \E fd \in Fds, ty \in Types, ms \in Delays : iosvc_sched_timeout(fd, ty, ms)
  BY <1>4, SchedTimeoutKeeps
<1>5. CASE \E fd \in Fds, ty \in Types : iosvc_cancel(fd, ty)
  BY <1>5, CancelKeeps
<1>6. CASE sched_timeout_refused
  BY <1>6, RefusedKeeps
<1>7. CASE iosvc_stop \/ iosvc_reset \/ iosvc_run \/ Tick
  BY <1>7, StopKeeps, ResetKeeps, RunKeeps, TickKeeps
<1> QED BY <1>1, <1>2, <1>3, <1>4, <1>5, <1>6, <1>7 DEF Client

\* Every step.
LEMMA NextKeeps ==
  ASSUME Inv, TreeSound, Careful, [InsertKeepsPlaces]_vars, [Next]_vars
  PROVE  Inv'
<1>1. CASE UNCHANGED vars
  BY <1>1, StutterKeeps
<1>2. CASE ~UNCHANGED vars
  <2>1. InsertKeepsPlaces /\ Next
    BY <1>2
  <2>2. CASE Client
    BY <2>1, <2>2, ClientKeeps
  <2>3. CASE Returns
    BY <2>3, CancelReturnKeeps, SyncReturnKeeps, TimeoutReturnKeeps, DelayReturnKeeps,
       EventReturnKeeps DEF Returns
  <2>4. CASE Dispatching
    BY <2>4, CallSyncKeeps, FinishKeeps, ScanEndKeeps, ScanEntryKeeps, CallEventKeeps,
       SkipEventKeeps, EntryDoneKeeps DEF Dispatching
  <2>5. CASE Stopping
    BY <2>5, PrepStopKeeps, StopNextDelayKeeps, StartWalkKeeps, StopNextEventKeeps,
       WalkChildrenKeeps, WalkFreeKeeps, EndWalkKeeps, StopReturnKeeps DEF Stopping
  <2>6. CASE Poll
    BY <2>6, PollFailsKeeps, PollExpiresKeeps, PollReturnsKeeps DEF Poll
  <2>7. CASE Done
    BY <2>7, StutterKeeps DEF Done
  <2> QED BY <2>1, <2>2, <2>3, <2>4, <2>5, <2>6, <2>7 DEF Next
<1> QED BY <1>1, <1>2

\* iosvc_create.
LEMMA InitInv ==
  ASSUME Init
  PROVE  Inv
<1>1. /\ svc.status = "READY" /\ svc.sync = <<>> /\ svc.delays = {} /\ svc.timers = {}
      /\ svc.cap = 0 /\ svc.evts = [fd \in Fds |-> NoEvents] /\ svc.idx = [fd \in Fds |-> 0]
      /\ svc.pvec = [k \in Slots |-> NoPollfd] /\ svc.npoll = 0
      /\ pc = "main" /\ cancels = <<>> /\ told = NotCalled /\ now = 0 /\ nh = 0
      /\ calls = [h \in Handlers |-> 0] /\ loc = NoLocals
  BY DEF Init
<1>2. InUse(svc) = {} /\ NodesOf(svc) = {}
  BY <1>1 DEF InUse, NodesOf
<1>3. SvcOK(svc)
  <2> DEFINE zero == [fd \in Fds |-> 0]
             none == [fd \in Fds |-> NoEvents]
             pv == [k \in Slots |-> NoPollfd]
  <2>1. zero \in [Fds -> Slots]
    <3>1. \A fd \in Fds : 0 \in Slots
      <4> TAKE fd \in Fds
      <4>1. Cardinality(Fds) # 0
        BY FdsAssumption, FS_EmptySet
      <4> QED BY <4>1, FdsCount DEF Slots
    <3> QED BY <3>1
  <2>2. none \in [Fds -> [Types -> Handlers \cup {NULL}]]
    BY DEF NoEvents
  <2>3. pv \in [Slots -> Pollfds]
    BY DEF NoPollfd, Pollfds
  <2>4. 0 \in 0..Cardinality(Fds)
    BY FdsCount
  <2>5. svc = [status |-> "READY", sync |-> <<>>, delays |-> {}, timers |-> {},
               cap |-> 0, tree |-> EmptyTree, evts |-> none, idx |-> zero, pvec |-> pv,
               npoll |-> 0]
    BY DEF Init
  <2> HIDE DEF zero, none, pv, EmptyTree
  <2>6. <<>> \in Seq(Handlers)
    OBVIOUS
  <2> QED BY <2>1, <2>2, <2>3, <2>4, <2>5, <2>6 DEF SvcOK, Statuses
<1>4. TypeInv
  <2>1. LocOK
    BY <1>1, IoServiceAssumption DEF LocOK, NoLocals
  <2>2. calls \in [Handlers -> 0..2] /\ now \in 0..MaxTime /\ nh \in 0..MaxHandlers
    BY <1>1, IoServiceAssumption
  <2>3. told \in [code : Codes, left : Nat, ms : Nat, due : Nat]
    BY <1>1 DEF NotCalled, Codes
  <2> QED BY <1>1, <1>3, <2>1, <2>2, <2>3 DEF TypeInv, Pcs
<1>5. StatusInv /\ CancelInv
  BY <1>1 DEF StatusInv, CancelInv
<1>6. VecInv
  BY <1>1, <1>2 DEF VecInv, VecOK, EventsOK
<1>7. TimerInv
  BY <1>1 DEF TimerInv, TimersLive, EarliestFirst, RemainingTime, NoLocals, NotCalled, Walking
<1>8. ScanInv /\ WalkInv
  BY <1>1 DEF ScanInv, ReportsOK, EntryOK, TodosOK, HoldsReports, InEntry, OnlyHangupsCrash,
       WalkInv, Walking
<1> QED BY <1>4, <1>5, <1>6, <1>7, <1>8 DEF Inv

-----------------------------------------------------------------------------
(* The theorems.                                                           *)

\* The behaviours in which the tree and the places in it stay sound.
SoundSpec == Spec /\ []TreeSound /\ PlacesStay

\* The parts of the invariant that the theorems state.
LEMMA InvTypes ==
  ASSUME Inv
  PROVE  TypeOK
BY DEF Inv, TypeInv, SvcOK, TypeOK, Statuses, DelayEntries, TimerEntries

\* When poll is called, nothing is left to be cleaned up, and the tree is the
\* vector's.
LEMMA InvPolls ==
  ASSUME Inv, TreeSound
  PROVE  PollSetExact
<1> SUFFICES ASSUME Polls, NEW fd \in Fds
             PROVE  LET awaited == {ty \in Types : Scheduled(svc, fd, ty)}
                        slots   == {k \in Slots : k < svc.npoll /\ svc.pvec[k].fd = fd}
                        found   == At(svc.tree, rb_probe(svc.tree, RootPlace, fd))
                    IN  IF awaited = {} THEN slots = {} /\ found = Nil
                        ELSE /\ slots = {svc.idx[fd]}
                             /\ found = fd
                             /\ svc.pvec[svc.idx[fd]].events = awaited
  BY DEF PollSetExact
<1>1. pc = "loop" /\ cancels = <<>> /\ SvcOK(svc)
  BY DEF Polls, Inv, CancelInv, TypeInv
<1>2. Settled(svc) /\ VecOK(svc) /\ EventsOK(svc)
  BY <1>1, AtRest DEF Settled
<1> DEFINE slots == {k \in Slots : k < svc.npoll /\ svc.pvec[k].fd = fd}
           found == At(svc.tree, rb_probe(svc.tree, RootPlace, fd))
<1>3. found = IF fd \in NodesOf(svc) THEN fd ELSE Nil
  BY DEF TreeSound, Searchable
<1>4. \A k \in Slots : k < svc.npoll <=> k \in InUse(svc)
  BY <1>1, FdsCount DEF InUse, SvcOK, Slots
<1>5. CASE fd \in NodesOf(svc)
  <2>1. svc.idx[fd] \in InUse(svc) /\ svc.idx[fd] \in Slots /\ svc.pvec[svc.idx[fd]].fd = fd
    BY <1>1, <1>2, <1>5, NodeSlot
  <2>2. svc.pvec[svc.idx[fd]].events = AwaitedIn(svc, fd) /\ AwaitedIn(svc, fd) # {}
    BY <1>2, <1>5, <2>1 DEF EventsOK, Settled
  <2>3. slots = {svc.idx[fd]}
    BY <1>2, <1>4, <2>1 DEF VecOK
  <2> QED BY <1>3, <1>5, <2>2, <2>3 DEF AwaitedIn
<1>6. CASE fd \notin NodesOf(svc)
  <2>1. AwaitedIn(svc, fd) = {}
    BY <1>2, <1>6 DEF VecOK, AwaitedIn, Scheduled, NoEvents
  <2>2. slots = {}
    BY <1>4, <1>6 DEF NodesOf
  <2> QED BY <1>3, <1>6, <2>1, <2>2 DEF AwaitedIn
<1> QED BY <1>5, <1>6

\* Without hang-ups the one crash that is left does not happen.
LEMMA InvNoCrash ==
  ASSUME Inv, "HUP" \notin Faults
  PROVE  NoCrash
<1> SUFFICES ASSUME pc = "crashed" PROVE FALSE
  BY DEF NoCrash
<1>1. "HUP" \in Entry.revents /\ loc.i \in InUse(svc)
  BY DEF Inv, ScanInv, OnlyHangupsCrash
<1>2. Entry \in Pollfds
  BY <1>1, FdsCount DEF Inv, TypeInv, SvcOK, InUse, Slots, Entry
<1>3. Entry.revents \subseteq {"IN", "OUT", "PRI"} \cup Faults
  BY <1>2 DEF Pollfds, Conditions
<1> QED BY <1>1, <1>3

\* The invariant holds of every behaviour of a careful client in which the tree
\* and the places held in it stay sound.
THEOREM InvHolds ==
  ASSUME Careful
  PROVE  SoundSpec => []Inv
<1>1. Init => Inv
  BY InitInv
<1>2. Inv /\ TreeSound /\ [InsertKeepsPlaces]_vars /\ [Next]_vars => Inv'
  BY NextKeeps
<1> QED BY <1>1, <1>2, PTL DEF SoundSpec, Spec, PlacesStay

\* Every field of the service keeps its type: no index leaves pollfds, which
\* never has more entries than there are descriptors (iosvc_sched.c:170-191).
THEOREM TypesHold ==
  ASSUME Careful
  PROVE  SoundSpec => []TypeOK
<1>1. Inv => TypeOK
  BY InvTypes
<1> QED BY <1>1, InvHolds, PTL

\* Whenever poll is called, the vector it gets and the tree describe the same
\* set of descriptors, each with exactly one pollfd, at the index its node
\* holds, asking for exactly the types with a handler (iosvc_sched.c:170-191,
\* iosvc_dequeue.c:50-88).
THEOREM PollsExact ==
  ASSUME Careful
  PROVE  SoundSpec => []PollSetExact
<1>1. Inv /\ TreeSound => PollSetExact
  BY InvPolls
<1> QED BY <1>1, InvHolds, PTL DEF SoundSpec

\* Each entry of the heap of timed events refers to a handler that still waits,
\* and no handler has two, until stop_async_ops frees the nodes
\* (iosvc_sched.c:225-236, iosvc_dequeue.c:16-38).
THEOREM TimersAreLive ==
  ASSUME Careful
  PROVE  SoundSpec => []TimersLive
<1>1. Inv => TimersLive
  BY DEF Inv, TimerInv
<1> QED BY <1>1, InvHolds, PTL

\* Timed handlers are called in the order of their deadlines and none before its
\* own, although there are two heaps and the handler called may add to both
\* (io_service.c:147-169, 343-346).
THEOREM DeadlinesInOrder ==
  ASSUME Careful
  PROVE  SoundSpec => []EarliestFirst
<1>1. Inv => EarliestFirst
  BY DEF Inv, TimerInv
<1> QED BY <1>1, InvHolds, PTL

\* The remaining time that a handler is given was really left when poll last
\* returned: never more than was asked for, and nothing only once the deadline
\* has passed (io_service.c:65-66, 206-209, iosvc_dequeue.c:22-25).
THEOREM TimeReallyLeft ==
  ASSUME Careful, "HUP" \notin Faults
  PROVE  SoundSpec => []RemainingTime
<1>1. Inv => RemainingTime
  BY DEF Inv, TimerInv
<1> QED BY <1>1, InvHolds, PTL
=============================================================================
