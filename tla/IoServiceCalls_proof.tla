------------------------ MODULE IoServiceCalls_proof ------------------------
(***************************************************************************)
(* Proofs about the handlers of IoService, on top of the invariant of      *)
(* IoService_proof: that none is called twice, and that the event loop     *)
(* implements ServiceContract.  The inductive part is under the same       *)
(* hypotheses, SoundSpec; the last part proves SoundSpec of a client with  *)
(* two descriptors, and states the results of that client.                 *)
(*                                                                         *)
(* Every step is of one of three kinds: a handler is accepted, a handler   *)
(* is called, or handlers that were called before are taken out of the     *)
(* service.  What takes an argument is that a handler is not called a      *)
(* second time while the service still stores it: the posted handler at    *)
(* the front of the buffer, the delayed one at the front of its heap, and  *)
(* the ones that the walk of stop_async_ops has stopped.                   *)
(***************************************************************************)
EXTENDS IoService_proof

-----------------------------------------------------------------------------
(* The invariant.                                                          *)

\* The handlers that were posted, are delayed, and wait for events.
Posted(s)   == {s.sync[k] : k \in DOMAIN s.sync}
Delayed(s)  == {e.h : e \in s.delays}
Awaiting(s) == {s.evts[fd][ty] : fd \in Fds, ty \in Types} \ {NULL}

\* Each handler is one of the first n accepted, and is stored in one place.
HandlersOK(s, n) ==
    /\ Distinct(s.sync)
    /\ \A d, e \in s.delays : d.h = e.h => d = e
    /\ \A fd, fe \in Fds, ty, te \in Types :
          Scheduled(s, fd, ty) /\ s.evts[fd][ty] = s.evts[fe][te] => fd = fe /\ ty = te
    /\ Posted(s) \cap Delayed(s) = {}
    /\ Posted(s) \cap Awaiting(s) = {}
    /\ Delayed(s) \cap Awaiting(s) = {}
    /\ Posted(s) \cup Delayed(s) \cup Awaiting(s) \subseteq 1..n

\* The walk whose stack is q has called the handler for type ty of fd, and has
\* not freed its node.
StoppedIn(q, fd, ty) == \E k \in DOMAIN q : q[k].n = fd /\ ty \notin q[k].todo
Stopped(fd, ty) == Walking /\ Scheduled(svc, fd, ty) /\ StoppedIn(loc.walk, fd, ty)

\* The handlers that have been called and are still stored: the service removes
\* them when they have returned, or with their node.
InCall == (IF pc = "sync" THEN {Head(svc.sync)} ELSE {}) \cup
          (IF pc = "delay" THEN {loc.cur.h} ELSE {}) \cup
          {h \in Handlers : \E fd \in Fds, ty \in Types :
                                Stopped(fd, ty) /\ h = svc.evts[fd][ty]}

\* The inductive invariant: what is stored and was called is what is being
\* called.
CallsInv == /\ HandlersOK(svc, nh)
            /\ Called \subseteq 1..nh
            /\ \A h \in Handlers : calls[h] <= 1
            /\ Stored \cap Called = InCall

-----------------------------------------------------------------------------
(* Kinds of steps.                                                         *)

\* A step that ServiceContract allows.
ContractStep == [Contract!Next]_(Contract!scVars)

\* Nothing that is in the service is being called at the other points.
LEMMA NoneInCall ==
  /\ pc \notin {"sync", "delay", "walk", "stop_event"} => InCall = {}
  /\ pc' \notin {"sync", "delay", "walk", "stop_event"} => InCall' = {}
BY DEF InCall, Stopped, Walking

\* What is stored is what was posted, is delayed or waits.
LEMMA StoredIs ==
  /\ Stored = Posted(svc) \cup Delayed(svc) \cup Awaiting(svc)
  /\ Stored' = Posted(svc') \cup Delayed(svc') \cup Awaiting(svc')
BY DEF Stored, Posted, Delayed, Awaiting

\* The same handlers are stored in the same places.
SameHandlers(s, s2) == s2.sync = s.sync /\ s2.delays = s.delays /\ s2.evts = s.evts

\* ... and what was said of them holds on.
LEMMA SameHandlersKeep ==
  ASSUME NEW s, NEW s2, NEW n, SameHandlers(s, s2)
  PROVE  /\ Posted(s2) = Posted(s) /\ Delayed(s2) = Delayed(s) /\ Awaiting(s2) = Awaiting(s)
         /\ HandlersOK(s, n) => HandlersOK(s2, n)
<1>1. /\ Posted(s2) = Posted(s) /\ Delayed(s2) = Delayed(s) /\ Awaiting(s2) = Awaiting(s)
  BY DEF SameHandlers, Posted, Delayed, Awaiting
<1>2. HandlersOK(s, n) => HandlersOK(s2, n)
  BY <1>1 DEF SameHandlers, HandlersOK, Scheduled
<1> QED BY <1>1, <1>2

\* A step that neither accepts nor calls a handler, and drops none.
LEMMA QuietCalls ==
  ASSUME CallsInv, SameHandlers(svc, svc'), calls' = calls, nh' = nh, InCall' = InCall
  PROVE  /\ CallsInv' /\ Stored' = Stored /\ Called' = Called
         /\ svc'.status = svc.status => ContractStep
<1>1. Stored' = Stored /\ HandlersOK(svc', nh)
  BY StoredIs, SameHandlersKeep DEF CallsInv
<1>2. Called' = Called
  BY DEF Called
<1>3. CallsInv'
  BY <1>1, <1>2 DEF CallsInv
<1>4. svc'.status = svc.status => UNCHANGED Contract!scVars
  BY <1>1, <1>2 DEF Contract!scVars
<1> QED BY <1>1, <1>2, <1>3, <1>4 DEF ContractStep

\* The next handler is accepted.
LEMMA AcceptCalls ==
  ASSUME Inv, CallsInv, Accepts, nh < MaxHandlers, nh' = nh + 1, calls' = calls,
         HandlersOK(svc', nh + 1), Stored' = Stored \cup {nh + 1}, InCall' = InCall,
         svc'.status = svc.status
  PROVE  CallsInv' /\ ContractStep
<1> DEFINE h == nh + 1
<1>1. h \in Handlers /\ nh \in Nat
  BY HandlersAccepted DEF Inv, TypeInv
<1>2. Stored \subseteq 1..nh /\ Called \subseteq 1..nh
  BY StoredIs DEF CallsInv, HandlersOK
<1>3. h \notin Stored /\ h \notin Called /\ 1..nh \subseteq 1..h
  BY <1>1, <1>2
<1>4. Called' = Called
  BY DEF Called
<1> HIDE DEF h
<1>5. CallsInv'
  BY <1>2, <1>3, <1>4 DEF CallsInv, h
<1>6. Contract!Accept(h)
  BY <1>3, <1>4 DEF Contract!Accept, Accepts, h
<1> QED BY <1>1, <1>5, <1>6 DEF ContractStep, Contract!Next

\* A handler that was not called before is called: it stays in the service until
\* it has returned, or was taken out of it.
LEMMA CountedIs ==
  ASSUME calls \in [Handlers -> 0..2], NEW h \in Handlers, h \notin Called, Count(h)
  PROVE  /\ Called' = Called \cup {h}
         /\ (\A g \in Handlers : calls[g] <= 1) => \A g \in Handlers : calls'[g] <= 1
<1>1. calls[h] = 0
  BY DEF Called
<1>2. calls'[h] = 1 /\ \A g \in Handlers : g # h => calls'[g] = calls[g]
  BY <1>1 DEF Count
<1> QED BY <1>1, <1>2 DEF Called

\* A handler that is stored and not being called is called.
LEMMA CallCalls ==
  ASSUME Inv, CallsInv, NEW h \in Stored, h \notin InCall, Count(h), nh' = nh,
         HandlersOK(svc', nh), svc.status \in {"RUNNING", "STOPPING"},
         svc'.status = svc.status,
         \/ Stored' = Stored /\ InCall' = InCall \cup {h}
         \/ Stored' = Stored \ {h} /\ InCall' = InCall
  PROVE  CallsInv' /\ ContractStep
<1>1. h \notin Called /\ h \in 1..nh /\ h \in Handlers
  <2>1. h \in 1..nh
    BY StoredIs DEF CallsInv, HandlersOK
  <2>2. nh \in 0..MaxHandlers
    BY DEF Inv, TypeInv
  <2>3. h \in Handlers
    BY <2>1, <2>2, IoServiceAssumption DEF Handlers
  <2>4. h \notin Called
    BY DEF CallsInv
  <2> QED BY <2>1, <2>3, <2>4
<1>2. Called' = Called \cup {h} /\ \A g \in Handlers : calls'[g] <= 1
  BY <1>1, CountedIs DEF CallsInv, Inv, TypeInv
<1>3. Stored' \cap Called' = InCall'
  BY <1>1, <1>2 DEF CallsInv
<1>4. CallsInv'
  BY <1>1, <1>2, <1>3 DEF CallsInv
<1>5. Contract!Call(h)
  BY <1>1, <1>2 DEF Contract!Call
<1> QED BY <1>1, <1>4, <1>5 DEF ContractStep, Contract!Next

\* Handlers that were called before are taken out.
LEMMA RemoveCalls ==
  ASSUME CallsInv, calls' = calls, nh' = nh, HandlersOK(svc', nh), Stored' \subseteq Stored,
         Stored \ Stored' \subseteq InCall, InCall' = InCall \cap Stored',
         svc'.status = svc.status
  PROVE  CallsInv' /\ ContractStep
<1>1. Called' = Called
  BY DEF Called
<1>2. CallsInv'
  BY <1>1 DEF CallsInv
<1>3. (Stored \ Called)' = Stored \ Called
  BY <1>1 DEF CallsInv
<1> QED BY <1>1, <1>2, <1>3 DEF ContractStep, Contract!scVars

-----------------------------------------------------------------------------
(* What storing and taking out a handler does.                             *)

\* Each place holds what it held, or nothing.
LEMMA FewerHandlers ==
  ASSUME NEW s, NEW s2, NEW n, HandlersOK(s, n), Distinct(s2.sync), Posted(s2) \subseteq Posted(s),
         s2.delays \subseteq s.delays,
         \A fd \in Fds, ty \in Types : s2.evts[fd][ty] = s.evts[fd][ty] \/ s2.evts[fd][ty] = NULL
  PROVE  HandlersOK(s2, n) /\ Delayed(s2) \subseteq Delayed(s) /\ Awaiting(s2) \subseteq Awaiting(s)
<1>1. Delayed(s2) \subseteq Delayed(s) /\ Awaiting(s2) \subseteq Awaiting(s)
  BY DEF Delayed, Awaiting
<1>2. \A d, e \in s2.delays : d.h = e.h => d = e
  BY DEF HandlersOK
<1>3. \A fd, fe \in Fds, ty, te \in Types :
         Scheduled(s2, fd, ty) /\ s2.evts[fd][ty] = s2.evts[fe][te] => fd = fe /\ ty = te
  BY DEF HandlersOK, Scheduled
<1> QED BY <1>1, <1>2, <1>3 DEF HandlersOK

\* Service s2 is s without the handler for type ty of fd.
LEMMA DequeuedHandlers ==
  ASSUME NEW s, NEW s2, NEW n, SvcOK(s), HandlersOK(s, n), NEW fd \in Fds, NEW ty \in Types,
         Scheduled(s, fd, ty), Dequeued(s, s2, fd, ty)
  PROVE  /\ HandlersOK(s2, n) /\ Posted(s2) = Posted(s) /\ Delayed(s2) = Delayed(s)
         /\ Awaiting(s2) = Awaiting(s) \ {s.evts[fd][ty]}
         /\ s.evts[fd][ty] \in Awaiting(s)
         /\ s.evts[fd][ty] \notin Posted(s) \cup Delayed(s)
<1> DEFINE h == s.evts[fd][ty]
<1>0. /\ s2.sync = s.sync /\ s2.delays = s.delays
      /\ s2.evts = [s.evts EXCEPT ![fd] = [@ EXCEPT ![ty] = NULL]]
  BY DEF Dequeued
<1>1. Posted(s2) = Posted(s) /\ Delayed(s2) = Delayed(s)
  BY <1>0 DEF Posted, Delayed
<1>2. s.evts \in [Fds -> [Types -> Handlers \cup {NULL}]]
  BY DEF SvcOK
<1>3. /\ s2.evts[fd][ty] = NULL
      /\ \A fe \in Fds, te \in Types :
            fe # fd \/ te # ty => s2.evts[fe][te] = s.evts[fe][te]
  BY <1>0, <1>2
<1>4. h \in Awaiting(s) /\ h \notin Posted(s) \cup Delayed(s)
  BY DEF Awaiting, Scheduled, HandlersOK
<1>5. \A fe \in Fds, te \in Types : s.evts[fe][te] = h => fe = fd /\ te = ty
  BY DEF HandlersOK, Scheduled
<1>6. Awaiting(s2) = Awaiting(s) \ {h}
  <2>1. Awaiting(s2) \subseteq Awaiting(s) \ {h}
    BY <1>3, <1>5 DEF Awaiting
  <2>2. Awaiting(s) \ {h} \subseteq Awaiting(s2)
    <3> SUFFICES ASSUME NEW fe \in Fds, NEW te \in Types,
                        s.evts[fe][te] # h, s.evts[fe][te] # NULL
                 PROVE  s.evts[fe][te] \in Awaiting(s2)
      BY DEF Awaiting
    <3>1. s2.evts[fe][te] = s.evts[fe][te]
      BY <1>3
    <3> QED BY <3>1 DEF Awaiting
  <2> QED BY <2>1, <2>2
<1>7. HandlersOK(s2, n)
  <2>1. Distinct(s2.sync) /\ s2.delays \subseteq s.delays
    BY <1>0 DEF HandlersOK
  <2>2. \A fe \in Fds, te \in Types : s2.evts[fe][te] = s.evts[fe][te] \/ s2.evts[fe][te] = NULL
    BY <1>3
  <2> QED BY <1>1, <2>1, <2>2, FewerHandlers
<1> QED BY <1>1, <1>4, <1>6, <1>7

\* Service s2 is s with one handler more, for type ty of fd.
LEMMA EnqueuedHandlers ==
  ASSUME NEW s, NEW s2, NEW n \in Nat, SvcOK(s), HandlersOK(s, n),
         NEW fd \in Fds, NEW ty \in Types,
         ~Scheduled(s, fd, ty), s2.sync = s.sync, s2.delays = s.delays,
         s2.evts = [s.evts EXCEPT ![fd] = [@ EXCEPT ![ty] = n + 1]]
  PROVE  /\ HandlersOK(s2, n + 1) /\ Posted(s2) = Posted(s) /\ Delayed(s2) = Delayed(s)
         /\ Awaiting(s2) = Awaiting(s) \cup {n + 1}
<1> DEFINE h == n + 1
<1>1. Posted(s2) = Posted(s) /\ Delayed(s2) = Delayed(s)
  BY DEF Posted, Delayed
<1>2. s.evts \in [Fds -> [Types -> Handlers \cup {NULL}]] /\ h # NULL /\ s.evts[fd][ty] = NULL
  BY DEF SvcOK, NULL, Scheduled
<1>3. /\ s2.evts[fd][ty] = h
      /\ \A fe \in Fds, te \in Types :
            fe # fd \/ te # ty => s2.evts[fe][te] = s.evts[fe][te]
  BY <1>2
<1>4. Posted(s) \cup Delayed(s) \cup Awaiting(s) \subseteq 1..n /\ h \notin 1..n
      /\ 1..n \subseteq 1..h /\ h \in 1..h
  BY DEF HandlersOK
<1> HIDE DEF h
<1>5. Awaiting(s2) = Awaiting(s) \cup {h}
  <2>1. Awaiting(s2) \subseteq Awaiting(s) \cup {h}
    BY <1>3 DEF Awaiting
  <2>2. h \in Awaiting(s2)
    BY <1>2, <1>3 DEF Awaiting
  <2>3. Awaiting(s) \subseteq Awaiting(s2)
    <3> SUFFICES ASSUME NEW fe \in Fds, NEW te \in Types, s.evts[fe][te] # NULL
                 PROVE  s.evts[fe][te] \in Awaiting(s2)
      BY DEF Awaiting
    <3>1. s2.evts[fe][te] = s.evts[fe][te]
      BY <1>2, <1>3
    <3> QED BY <3>1 DEF Awaiting
  <2> QED BY <2>1, <2>2, <2>3
<1>6. \A fe \in Fds, te \in Types : s.evts[fe][te] # h
  BY <1>2, <1>4 DEF Awaiting
<1>7. \A fe, ff \in Fds, te, tf \in Types :
         Scheduled(s2, fe, te) /\ s2.evts[fe][te] = s2.evts[ff][tf] => fe = ff /\ te = tf
  <2> SUFFICES ASSUME NEW fe \in Fds, NEW ff \in Fds, NEW te \in Types, NEW tf \in Types,
                      s2.evts[fe][te] # NULL, s2.evts[fe][te] = s2.evts[ff][tf]
               PROVE  fe = ff /\ te = tf
    BY DEF Scheduled
  <2>1. CASE fe = fd /\ te = ty
    BY <1>3, <1>6, <2>1
  <2>2. CASE ff = fd /\ tf = ty
    BY <1>3, <1>6, <2>2
  <2>3. CASE ~(fe = fd /\ te = ty) /\ ~(ff = fd /\ tf = ty)
    BY <1>3, <2>3 DEF HandlersOK, Scheduled
  <2> QED BY <2>1, <2>2, <2>3
<1>8. Distinct(s2.sync) /\ \A d, e \in s2.delays : d.h = e.h => d = e
  BY DEF HandlersOK
<1>9. /\ Posted(s2) \cap Delayed(s2) = {} /\ Posted(s2) \cap Awaiting(s2) = {}
      /\ Delayed(s2) \cap Awaiting(s2) = {}
      /\ Posted(s2) \cup Delayed(s2) \cup Awaiting(s2) \subseteq 1..h
  BY <1>1, <1>4, <1>5 DEF HandlersOK
<1> QED BY <1>1, <1>5, <1>7, <1>8, <1>9 DEF HandlersOK, h

\* A delayed handler is taken out.
LEMMA DelayTaken ==
  ASSUME NEW s, NEW s2, NEW n, HandlersOK(s, n), NEW e \in s.delays,
         s2.sync = s.sync, s2.delays = s.delays \ {e}, s2.evts = s.evts
  PROVE  /\ HandlersOK(s2, n) /\ Posted(s2) = Posted(s) /\ Awaiting(s2) = Awaiting(s)
         /\ Delayed(s2) = Delayed(s) \ {e.h} /\ e.h \in Delayed(s)
         /\ e.h \notin Posted(s) \cup Awaiting(s)
<1>1. Posted(s2) = Posted(s) /\ Awaiting(s2) = Awaiting(s)
  BY DEF Posted, Awaiting
<1>2. e.h \in Delayed(s) /\ e.h \notin Posted(s) \cup Awaiting(s)
  BY DEF Delayed, HandlersOK
<1>3. Delayed(s2) = Delayed(s) \ {e.h}
  <2>1. \A d \in s.delays : d # e => d.h # e.h
    BY DEF HandlersOK
  <2> QED BY <2>1 DEF Delayed
<1>4. Distinct(s2.sync)
  BY DEF HandlersOK
<1>5. HandlersOK(s2, n)
  BY <1>1, <1>4, FewerHandlers
<1> QED BY <1>1, <1>2, <1>3, <1>5

\* A handler is posted.
LEMMA PostedMore ==
  ASSUME NEW s, NEW s2, NEW n \in Nat, HandlersOK(s, n), s.sync \in Seq(Handlers),
         s2.sync = Append(s.sync, n + 1), s2.delays = s.delays, s2.evts = s.evts
  PROVE  /\ HandlersOK(s2, n + 1) /\ Delayed(s2) = Delayed(s) /\ Awaiting(s2) = Awaiting(s)
         /\ Posted(s2) = Posted(s) \cup {n + 1}
         /\ s.sync # <<>> => Head(s2.sync) = Head(s.sync)
<1> DEFINE h == n + 1
           q == s.sync
<1>1. Delayed(s2) = Delayed(s) /\ Awaiting(s2) = Awaiting(s)
  BY DEF Delayed, Awaiting
<1>2. Posted(s) \cup Delayed(s) \cup Awaiting(s) \subseteq 1..n /\ h \notin 1..n
      /\ 1..n \subseteq 1..h /\ h \in 1..h
  BY DEF HandlersOK
<1>3. /\ DOMAIN q = 1..Len(q) /\ Len(q) \in Nat /\ DOMAIN s2.sync = 1..(Len(q) + 1)
      /\ \A k \in DOMAIN q : s2.sync[k] = q[k] /\ q[k] \in Posted(s)
      /\ s2.sync[Len(q) + 1] = h
  BY DEF Posted
<1> HIDE DEF h, q
<1>4. Posted(s2) = Posted(s) \cup {h}
  <2>1. Posted(s2) \subseteq Posted(s) \cup {h}
    BY <1>3 DEF Posted
  <2>2. Posted(s) \subseteq Posted(s2)
    BY <1>3 DEF Posted, q
  <2>3. h \in Posted(s2)
    BY <1>3 DEF Posted
  <2> QED BY <2>1, <2>2, <2>3
<1>5. Distinct(s2.sync)
  <2>1. \A j, k \in 1..Len(q) : q[j] = q[k] => j = k
    BY <1>3 DEF HandlersOK, Distinct, q
  <2>2. \A k \in 1..Len(q) : s2.sync[k] # h
    BY <1>2, <1>3
  <2>3. \A k \in DOMAIN s2.sync : k \in 1..Len(q) \/ k = Len(q) + 1
    BY <1>3
  <2> QED BY <1>3, <2>1, <2>2, <2>3 DEF Distinct
<1>6. s.sync # <<>> => Head(s2.sync) = Head(s.sync)
  BY DEF q
<1>7. /\ \A d, e \in s2.delays : d.h = e.h => d = e
      /\ \A fd, fe \in Fds, ty, te \in Types :
            Scheduled(s2, fd, ty) /\ s2.evts[fd][ty] = s2.evts[fe][te] => fd = fe /\ ty = te
  BY DEF HandlersOK, Scheduled
<1>8. /\ Posted(s2) \cap Delayed(s2) = {} /\ Posted(s2) \cap Awaiting(s2) = {}
      /\ Delayed(s2) \cap Awaiting(s2) = {}
      /\ Posted(s2) \cup Delayed(s2) \cup Awaiting(s2) \subseteq 1..h
  BY <1>1, <1>2, <1>4 DEF HandlersOK
<1> QED BY <1>1, <1>4, <1>5, <1>6, <1>7, <1>8 DEF HandlersOK, h

\* A handler is delayed.
LEMMA DelayedMore ==
  ASSUME NEW s, NEW s2, NEW n \in Nat, HandlersOK(s, n), NEW e, e.h = n + 1,
         s2.sync = s.sync, s2.delays = s.delays \cup {e}, s2.evts = s.evts
  PROVE  /\ HandlersOK(s2, n + 1) /\ Posted(s2) = Posted(s) /\ Awaiting(s2) = Awaiting(s)
         /\ Delayed(s2) = Delayed(s) \cup {n + 1}
<1> DEFINE h == n + 1
<1>1. Posted(s2) = Posted(s) /\ Awaiting(s2) = Awaiting(s)
  BY DEF Posted, Awaiting
<1>2. Posted(s) \cup Delayed(s) \cup Awaiting(s) \subseteq 1..n /\ h \notin 1..n
      /\ 1..n \subseteq 1..h /\ h \in 1..h
  BY DEF HandlersOK
<1> HIDE DEF h
<1>3. e.h = h
  BY DEF h
<1>4. Delayed(s2) = Delayed(s) \cup {h}
  BY <1>3 DEF Delayed
<1>5. \A d \in s.delays : d.h # h
  BY <1>2 DEF Delayed
<1>6. \A d, f \in s2.delays : d.h = f.h => d = f
  BY <1>3, <1>5 DEF HandlersOK
<1>7. /\ Distinct(s2.sync)
      /\ \A fd, fe \in Fds, ty, te \in Types :
            Scheduled(s2, fd, ty) /\ s2.evts[fd][ty] = s2.evts[fe][te] => fd = fe /\ ty = te
  BY DEF HandlersOK, Scheduled
<1>8. /\ Posted(s2) \cap Delayed(s2) = {} /\ Posted(s2) \cap Awaiting(s2) = {}
      /\ Delayed(s2) \cap Awaiting(s2) = {}
      /\ Posted(s2) \cup Delayed(s2) \cup Awaiting(s2) \subseteq 1..h
  BY <1>1, <1>2, <1>4 DEF HandlersOK
<1> QED BY <1>1, <1>4, <1>6, <1>7, <1>8 DEF HandlersOK, h

\* The posted handler at the front.
LEMMA FrontPosted ==
  ASSUME NEW s, NEW n, HandlersOK(s, n), s.sync \in Seq(Handlers), s.sync # <<>>
  PROVE  Head(s.sync) \in Posted(s) /\ Head(s.sync) \notin Delayed(s) \cup Awaiting(s)
<1>1. Head(s.sync) = s.sync[1] /\ 1 \in DOMAIN s.sync
  OBVIOUS
<1>2. Head(s.sync) \in Posted(s)
  BY <1>1 DEF Posted
<1> QED BY <1>2 DEF HandlersOK

\* ... is taken out.
LEMMA FrontTaken ==
  ASSUME NEW s, NEW s2, NEW n, HandlersOK(s, n), s.sync \in Seq(Handlers), s.sync # <<>>,
         s2.sync = Tail(s.sync), s2.delays = s.delays, s2.evts = s.evts
  PROVE  /\ HandlersOK(s2, n) /\ Delayed(s2) = Delayed(s) /\ Awaiting(s2) = Awaiting(s)
         /\ Posted(s2) = Posted(s) \ {Head(s.sync)}
<1> DEFINE q == s.sync
           h == Head(q)
<1>1. Delayed(s2) = Delayed(s) /\ Awaiting(s2) = Awaiting(s)
  BY DEF Delayed, Awaiting
<1>2. /\ DOMAIN q = 1..Len(q) /\ Len(q) \in Nat /\ Len(q) > 0 /\ h = q[1]
      /\ DOMAIN s2.sync = 1..(Len(q) - 1)
      /\ \A k \in DOMAIN s2.sync : s2.sync[k] = q[k + 1]
  OBVIOUS
<1>3. \A j, k \in DOMAIN q : q[j] = q[k] => j = k
  BY DEF HandlersOK, Distinct
<1>4. Posted(s) = {q[k] : k \in DOMAIN q}
  BY DEF Posted
<1> HIDE DEF q, h
<1>5. Distinct(s2.sync)
  BY <1>2, <1>3, SMTT(30) DEF Distinct
<1>6. Posted(s2) = Posted(s) \ {h}
  <2>1. Posted(s2) \subseteq Posted(s) \ {h}
    <3> SUFFICES ASSUME NEW k \in DOMAIN s2.sync
                 PROVE  s2.sync[k] \in Posted(s) /\ s2.sync[k] # h
      BY DEF Posted
    <3>1. k + 1 \in DOMAIN q /\ 1 \in DOMAIN q /\ k + 1 # 1 /\ s2.sync[k] = q[k + 1]
      BY <1>2
    <3> QED BY <1>2, <1>3, <1>4, <3>1
  <2>2. Posted(s) \ {h} \subseteq Posted(s2)
    <3> SUFFICES ASSUME NEW k \in DOMAIN q, q[k] # h
                 PROVE  q[k] \in Posted(s2)
      BY <1>4
    <3>1. k - 1 \in DOMAIN s2.sync /\ k = (k - 1) + 1
      BY <1>2
    <3>2. s2.sync[k - 1] = q[k]
      BY <1>2, <3>1
    <3> QED BY <3>1, <3>2 DEF Posted
  <2> QED BY <2>1, <2>2
<1>7. HandlersOK(s2, n)
  <2>1. \A fd \in Fds, ty \in Types : s2.evts[fd][ty] = s.evts[fd][ty]
    OBVIOUS
  <2> QED BY <1>5, <1>6, <2>1, FewerHandlers
<1> QED BY <1>1, <1>6, <1>7 DEF h, q

-----------------------------------------------------------------------------
(* Calls of the client.                                                    *)

\* A step that leaves the loop where it is leaves the handlers being called alone.
LEMMA SameInCall ==
  ASSUME pc' = pc, loc'.cur = loc.cur, loc'.walk = loc.walk,
         pc = "sync" => Head(svc'.sync) = Head(svc.sync),
         Walking => svc'.evts = svc.evts
  PROVE  InCall' = InCall
<1>1. \A fd, ty : Stopped(fd, ty)' <=> Stopped(fd, ty)
  BY DEF Stopped, Walking, Scheduled, StoppedIn
<1>2. Walking' = Walking
  BY DEF Walking
<1>3. \A fd, ty : Stopped(fd, ty) => svc'.evts = svc.evts
  BY DEF Stopped
<1>4. {h \in Handlers : \E fd \in Fds, ty \in Types : Stopped(fd, ty) /\ h = svc.evts[fd][ty]}' =
      {h \in Handlers : \E fd \in Fds, ty \in Types : Stopped(fd, ty) /\ h = svc.evts[fd][ty]}
  BY <1>1, <1>3
<1> QED BY <1>4 DEF InCall

\* A service that accepts handlers is not in the walk.
LEMMA AcceptsMeansNoWalk ==
  ASSUME Inv, Accepts
  PROVE  ~Walking
BY DEF Inv, StatusInv, Accepts, Walking

\* iosvc_post.
LEMMA PostCalls ==
  ASSUME Inv, CallsInv, iosvc_post
  PROVE  CallsInv' /\ ContractStep
<1>1. Accepts /\ nh < MaxHandlers /\ nh' = nh + 1 /\ calls' = calls /\ pc' = pc /\ loc' = loc
      /\ svc' = [svc EXCEPT !.sync = Append(@, nh + 1)]
  BY DEF iosvc_post, Accepted
<1>2. /\ svc'.sync = Append(svc.sync, nh + 1) /\ svc'.delays = svc.delays
      /\ svc'.evts = svc.evts /\ svc'.status = svc.status
      /\ svc.sync \in Seq(Handlers) /\ nh \in Nat
  BY <1>1 DEF Inv, TypeInv, SvcOK
<1>3. /\ HandlersOK(svc', nh + 1) /\ Delayed(svc') = Delayed(svc) /\ Awaiting(svc') = Awaiting(svc)
      /\ Posted(svc') = Posted(svc) \cup {nh + 1}
      /\ svc.sync # <<>> => Head(svc'.sync) = Head(svc.sync)
  <2>1. HandlersOK(svc, nh)
    BY DEF CallsInv
  <2> QED BY <1>2, <2>1, PostedMore
<1>4. Stored' = Stored \cup {nh + 1}
  BY <1>3, StoredIs
<1>5. InCall' = InCall
  <2>1. pc = "sync" => svc.sync # <<>>
    BY DEF Inv, StatusInv
  <2> QED BY <1>1, <1>2, <1>3, <2>1, SameInCall
<1> QED BY <1>1, <1>2, <1>3, <1>4, <1>5, AcceptCalls

\* iosvc_post_delay.
LEMMA PostDelayCalls ==
  ASSUME Inv, CallsInv, NEW ms \in Delays, iosvc_post_delay(ms)
  PROVE  CallsInv' /\ ContractStep
<1> DEFINE e == [h |-> nh + 1, at |-> now + ms]
<1>1. Accepts /\ nh < MaxHandlers /\ nh' = nh + 1 /\ calls' = calls /\ pc' = pc /\ loc' = loc
      /\ svc' = [svc EXCEPT !.delays = @ \cup {e}]
  BY DEF iosvc_post_delay, Accepted
<1>2. e.h = nh + 1
  OBVIOUS
<1> HIDE DEF e
<1>3. /\ svc'.sync = svc.sync /\ svc'.delays = svc.delays \cup {e}
      /\ svc'.evts = svc.evts /\ svc'.status = svc.status /\ nh \in Nat
  BY <1>1 DEF Inv, TypeInv, SvcOK
<1>4. /\ HandlersOK(svc', nh + 1) /\ Posted(svc') = Posted(svc) /\ Awaiting(svc') = Awaiting(svc)
      /\ Delayed(svc') = Delayed(svc) \cup {nh + 1}
  <2>1. HandlersOK(svc, nh)
    BY DEF CallsInv
  <2> QED BY <1>2, <1>3, <2>1, DelayedMore
<1>5. Stored' = Stored \cup {nh + 1}
  BY <1>4, StoredIs
<1>6. InCall' = InCall
  BY <1>1, <1>3, SameInCall
<1> QED BY <1>1, <1>3, <1>4, <1>5, <1>6, AcceptCalls

\* iosvc_sched and iosvc_sched_timeout store a handler for type ty of fd.
LEMMA EnqueueCalls ==
  ASSUME Inv, CallsInv, Accepts, nh < MaxHandlers, nh' = nh + 1, calls' = calls,
         pc' = pc, loc' = loc, NEW fd \in Fds, NEW ty \in Types, ~Scheduled(svc, fd, ty),
         svc'.sync = svc.sync, svc'.delays = svc.delays, svc'.status = svc.status,
         svc'.evts = [svc.evts EXCEPT ![fd] = [@ EXCEPT ![ty] = nh + 1]]
  PROVE  CallsInv' /\ ContractStep
<1>1. SvcOK(svc) /\ nh \in Nat /\ HandlersOK(svc, nh)
  BY DEF Inv, TypeInv, CallsInv
<1>2. /\ HandlersOK(svc', nh + 1) /\ Posted(svc') = Posted(svc) /\ Delayed(svc') = Delayed(svc)
      /\ Awaiting(svc') = Awaiting(svc) \cup {nh + 1}
  BY <1>1, EnqueuedHandlers
<1>3. Stored' = Stored \cup {nh + 1}
  BY <1>2, StoredIs
<1>4. InCall' = InCall
  BY SameInCall, AcceptsMeansNoWalk
<1> QED BY <1>2, <1>3, <1>4, AcceptCalls

\* iosvc_sched.
LEMMA SchedCalls ==
  ASSUME Inv, TreeSound, CallsInv, NEW fd \in Fds, NEW ty \in Types, iosvc_sched(fd, ty)
  PROVE  CallsInv' /\ ContractStep
<1> DEFINE s2 == Enqueue(svc, fd, ty, nh + 1)
<1>1. /\ Accepts /\ nh < MaxHandlers /\ nh' = nh + 1 /\ calls' = calls /\ pc' = pc /\ loc' = loc
      /\ ~Scheduled(svc, fd, ty) /\ svc' = s2
  BY SearchEnds DEF iosvc_sched, Accepted
<1>2. nh + 1 \in Handlers
  BY <1>1, HandlersAccepted
<1>3. Enqueued(svc, s2, fd, ty, nh + 1)
  BY <1>2, EnqueueChanges DEF Inv, TypeInv, VecInv, TreeSound
<1> HIDE DEF s2
<1>4. /\ svc'.sync = svc.sync /\ svc'.delays = svc.delays /\ svc'.status = svc.status
      /\ svc'.evts = [svc.evts EXCEPT ![fd] = [@ EXCEPT ![ty] = nh + 1]]
  BY <1>1, <1>3 DEF Enqueued
<1> QED BY <1>1, <1>4, EnqueueCalls

\* iosvc_sched_timeout.
LEMMA SchedTimeoutCalls ==
  ASSUME Inv, TreeSound, CallsInv, NEW fd \in Fds, NEW ty \in Types, NEW ms \in Delays,
         iosvc_sched_timeout(fd, ty, ms)
  PROVE  CallsInv' /\ ContractStep
<1> DEFINE s1 == Emplace(svc)
           s2 == Enqueue(s1, fd, ty, nh + 1)
           x == [fd |-> fd, ty |-> ty, at |-> now + ms, ms |-> ms]
<1>1. /\ Accepts /\ nh < MaxHandlers /\ nh' = nh + 1 /\ calls' = calls /\ pc' = pc /\ loc' = loc
      /\ ~Scheduled(svc, fd, ty) /\ svc' = [s2 EXCEPT !.timers = @ \cup {x}]
  BY SearchEnds DEF iosvc_sched_timeout, Accepted
<1>2. nh + 1 \in Handlers
  BY <1>1, HandlersAccepted
<1>3. /\ SvcOK(s1) /\ SameWaits(svc, s1) /\ s1.delays = svc.delays /\ s1.status = svc.status
      /\ s1.sync = svc.sync
  BY EmplaceChanges DEF Inv, TypeInv
<1> HIDE DEF s1
<1>4. VecOK(s1) /\ Searchable(s1.tree, NodesOf(s1)) /\ s1.evts = svc.evts
  BY <1>3, SameWaitsKeep DEF Inv, VecInv, TreeSound, SameWaits
<1>5. SvcOK(s2) /\ Enqueued(s1, s2, fd, ty, nh + 1)
  BY <1>2, <1>3, <1>4, EnqueueChanges
<1> HIDE DEF s2, x
<1>6. /\ svc'.sync = s2.sync /\ svc'.delays = s2.delays /\ svc'.status = s2.status
      /\ svc'.evts = s2.evts
  BY <1>1, <1>5 DEF SvcOK
<1>7. /\ svc'.sync = svc.sync /\ svc'.delays = svc.delays /\ svc'.status = svc.status
      /\ svc'.evts = [svc.evts EXCEPT ![fd] = [@ EXCEPT ![ty] = nh + 1]]
  BY <1>3, <1>4, <1>5, <1>6 DEF Enqueued
<1> QED BY <1>1, <1>7, EnqueueCalls

\* iosvc_sched_timeout is refused.
LEMMA RefusedCalls ==
  ASSUME Inv, CallsInv, sched_timeout_refused
  PROVE  CallsInv' /\ ContractStep
<1>1. svc' = Emplace(svc) /\ pc' = pc /\ calls' = calls /\ nh' = nh
  BY DEF sched_timeout_refused
<1>2. PICK b \in BOOLEAN : loc' = [loc EXCEPT !.hp = @ /\ ~(b /\ pc = "stop_event")]
  BY DEF sched_timeout_refused
<1>3. loc'.cur = loc.cur /\ loc'.walk = loc.walk
  BY <1>2 DEF Inv, TypeInv, LocOK
<1>4. SameHandlers(svc, svc') /\ svc'.status = svc.status
  BY <1>1, EmplaceChanges DEF Inv, TypeInv, SameHandlers, SameWaits
<1>5. InCall' = InCall
  BY <1>1, <1>3, <1>4, SameInCall DEF SameHandlers
<1> QED BY <1>1, <1>4, <1>5, QuietCalls

\* iosvc_cancel, in a posted handler that itself stays in the buffer.
LEMMA CancelCalls ==
  ASSUME Inv, Careful, TreeSound, CallsInv, NEW fd \in Fds, NEW ty \in Types,
         iosvc_cancel(fd, ty)
  PROVE  CallsInv' /\ ContractStep
<1> DEFINE h == svc.evts[fd][ty]
<1>1. pc = "sync" /\ svc.status = "RUNNING" /\ Scheduled(svc, fd, ty)
  BY CancelsWhenPosted DEF iosvc_cancel
<1>2. /\ svc' = Dequeue(svc, fd, ty) /\ Count(h) /\ pc' = pc /\ loc' = loc /\ nh' = nh
  BY SearchEnds DEF iosvc_cancel
<1>3. SvcOK(svc) /\ VecOK(svc) /\ HandlersOK(svc, nh) /\ svc.sync # <<>>
      /\ svc.sync \in Seq(Handlers)
  BY <1>1 DEF Inv, TypeInv, VecInv, StatusInv, CallsInv, SvcOK
<1>4. fd \in NodesOf(svc)
  BY <1>1, <1>3 DEF VecOK, Scheduled, NoEvents
<1>5. Dequeued(svc, svc', fd, ty)
  BY <1>2, <1>3, <1>4, DequeueChanges
<1>6. /\ HandlersOK(svc', nh) /\ Posted(svc') = Posted(svc) /\ Delayed(svc') = Delayed(svc)
      /\ Awaiting(svc') = Awaiting(svc) \ {h} /\ h \in Awaiting(svc)
      /\ h \notin Posted(svc) \cup Delayed(svc)
  BY <1>1, <1>3, <1>5, DequeuedHandlers
<1> HIDE DEF h
<1>7. Stored' = Stored \ {h} /\ h \in Stored
  BY <1>6, StoredIs
<1>8. ~Walking /\ svc'.sync = svc.sync /\ svc'.status = svc.status
  BY <1>1, <1>5 DEF Walking, Dequeued
<1>9. InCall' = InCall
  BY <1>2, <1>8, SameInCall
<1>10. h \notin InCall
  <2>1. InCall = {Head(svc.sync)}
    BY <1>1, <1>8 DEF InCall, Stopped
  <2>2. Head(svc.sync) \in Posted(svc)
    BY <1>3, FrontPosted
  <2> QED BY <1>6, <2>1, <2>2
<1> QED BY <1>1, <1>2, <1>6, <1>7, <1>8, <1>9, <1>10, CallCalls

\* iosvc_stop, iosvc_reset and iosvc_run.
LEMMA StatusCalls ==
  ASSUME Inv, CallsInv, iosvc_stop \/ iosvc_reset \/ iosvc_run
  PROVE  CallsInv' /\ ContractStep
<1>1. PICK st \in Statuses : svc' = [svc EXCEPT !.status = st] /\ calls' = calls /\ nh' = nh
                             /\ loc' = loc
  BY DEF iosvc_stop, iosvc_reset, iosvc_run, SetStatus, Statuses
<1>2. SameHandlers(svc, svc') /\ svc'.status = st
  BY <1>1, StatusChange DEF Inv, TypeInv, SameHandlers, SameWaits
<1>3. InCall' = InCall
  <2>1. CASE pc' = pc
    BY <1>1, <1>2, <2>1, SameInCall DEF SameHandlers
  <2>2. CASE pc' # pc
    <3>1. svc.status = "READY" /\ pc' = "loop" /\ pc \in ClientPoints
      BY <2>2 DEF iosvc_stop, iosvc_reset, iosvc_run, SetStatus, May
    <3>2. pc = "main"
      BY <3>1 DEF Inv, StatusInv, ClientPoints
    <3> QED BY <3>1, <3>2, NoneInCall
  <2> QED BY <2>1, <2>2
<1>4. CallsInv' /\ Stored' = Stored /\ Called' = Called
  BY <1>1, <1>2, <1>3, QuietCalls
<1>5. Contract!Stop \/ Contract!Reset \/ Contract!Run
  <2>1. \/ svc.status = "RUNNING" /\ svc'.status = "STOPPING"
        \/ svc.status = "DONE" /\ svc'.status = "READY"
        \/ svc.status = "READY" /\ svc'.status = "RUNNING"
    BY StatusChange DEF iosvc_stop, iosvc_reset, iosvc_run, SetStatus, Inv, TypeInv, Statuses
  <2> QED BY <1>4, <2>1 DEF Contract!Stop, Contract!Reset, Contract!Run
<1> QED BY <1>4, <1>5 DEF ContractStep, Contract!Next

\* poll fails: the service is told to stop.
LEMMA PollFailsCalls ==
  ASSUME Inv, CallsInv, poll_fails
  PROVE  CallsInv' /\ ContractStep
<1>1. /\ Polls /\ svc' = [svc EXCEPT !.status = "STOPPING"] /\ pc' = pc /\ loc' = loc
      /\ calls' = calls /\ nh' = nh
  BY DEF poll_fails
<1>2. SameHandlers(svc, svc') /\ svc'.status = "STOPPING"
  <2>1. "STOPPING" \in Statuses
    BY DEF Statuses
  <2> QED BY <1>1, <2>1, StatusChange DEF Inv, TypeInv, SameHandlers, SameWaits
<1>3. svc.status = "RUNNING"
  BY <1>1 DEF Polls, Inv, StatusInv
<1>4. InCall' = InCall
  BY <1>1, <1>2, SameInCall DEF SameHandlers
<1>5. CallsInv' /\ Stored' = Stored /\ Called' = Called
  BY <1>1, <1>2, <1>4, QuietCalls
<1>6. Contract!Stop
  BY <1>2, <1>3, <1>5 DEF Contract!Stop
<1> QED BY <1>5, <1>6 DEF ContractStep, Contract!Next

\* Time passes.
LEMMA TickCalls ==
  ASSUME CallsInv, Tick
  PROVE  CallsInv' /\ ContractStep
<1>1. svc' = svc /\ pc' = pc /\ loc' = loc /\ calls' = calls /\ nh' = nh
  BY DEF Tick
<1>2. InCall' = InCall
  BY <1>1, SameInCall
<1> QED BY <1>1, <1>2, QuietCalls DEF SameHandlers

\* Every call of a careful client.
LEMMA ClientCalls ==
  ASSUME Inv, TreeSound, Careful, CallsInv, Client
  PROVE  CallsInv' /\ ContractStep
<1>1. CASE iosvc_post
  BY <1>1, PostCalls
<1>2. CASE \E ms \in Delays : iosvc_post_delay(ms)
  BY <1>2, PostDelayCalls
<1>3. CASE \E fd \in Fds, ty \in Types : iosvc_sched(fd, ty)
  BY <1>3, SchedCalls
<1>4. CASE \E fd \in Fds, ty \in Types, ms \in Delays : iosvc_sched_timeout(fd, ty, ms)
  BY <1>4, SchedTimeoutCalls
<1>5. CASE sched_timeout_refused
  BY <1>5, RefusedCalls
<1>6. CASE \E fd \in Fds, ty \in Types : iosvc_cancel(fd, ty)
  BY <1>6, CancelCalls
<1>7. CASE iosvc_stop \/ iosvc_reset \/ iosvc_run
  BY <1>7, StatusCalls
<1>8. CASE Tick
  BY <1>8, TickCalls
<1> QED BY <1>1, <1>2, <1>3, <1>4, <1>5, <1>6, <1>7, <1>8 DEF Client

-----------------------------------------------------------------------------
(* Steps of the loop that call no handler and take none out.               *)

\* Whatever happens at points where nothing stored is being called.
LEMMA RestCalls ==
  ASSUME CallsInv, SameHandlers(svc, svc'), calls' = calls, nh' = nh,
         svc'.status = svc.status,
         pc \notin {"sync", "delay", "walk", "stop_event"},
         pc' \notin {"sync", "delay", "walk", "stop_event"}
  PROVE  CallsInv' /\ ContractStep
BY NoneInCall, QuietCalls

\* A node that is freed has no handlers.
LEMMA CleanedUpHandlers ==
  ASSUME NEW s, NEW s2, SvcOK(s), NEW n \in Fds, AwaitedIn(s, n) = {}, CleanedUp(s, s2, n)
  PROVE  SameHandlers(s, s2) /\ s2.status = s.status
<1>1. s.evts \in [Fds -> [Types -> Handlers \cup {NULL}]]
  BY DEF SvcOK
<1>2. \A ty \in Types : s.evts[n][ty] = NULL
  BY DEF AwaitedIn, Scheduled
<1>3. s.evts[n] = NoEvents
  BY <1>1, <1>2 DEF NoEvents
<1>4. [s.evts EXCEPT ![n] = NoEvents] = s.evts
  BY <1>1, <1>3
<1> QED BY <1>4 DEF CleanedUp, SameHandlers

\* The cancelled handler returns: a node that goes takes no handler with it.
LEMMA CancelReturnCalls ==
  ASSUME Inv, TreeSound, CallsInv, cancel_return
  PROVE  CallsInv' /\ ContractStep
<1>1. pc \in ClientPoints /\ cancels # <<>>
  BY DEF cancel_return
<1>2. PICK p \in Places : cancels = <<p>> /\ At(svc.tree, p) \in NodesOf(svc)
  BY <1>1 DEF Inv, CancelInv
<1>3. pc = "sync" /\ ~Walking
  BY <1>1 DEF Inv, CancelInv, ClientPoints, Walking
<1> DEFINE n == At(svc.tree, p)
<1>4. SvcOK(svc) /\ VecOK(svc) /\ EventsOK(svc) /\ n \in Fds
  BY <1>2, <1>3, NodesInFds DEF Inv, TypeInv, VecInv
<1>5. Valid(p) /\ Head(cancels) = p
  BY <1>2, <1>4, PlaceIsValid
<1>6. ~MovedIsLost(svc, p)
  BY <1>2, <1>4, MovedIsFound DEF TreeSound
<1>7. pc' = pc /\ calls' = calls /\ nh' = nh
  BY <1>5, <1>6 DEF cancel_return
<1>8. loc'.cur = loc.cur /\ loc'.walk = loc.walk
  BY <1>5, <1>6 DEF cancel_return, Inv, TypeInv, LocOK
<1>9. SameHandlers(svc, svc') /\ svc'.status = svc.status
  <2>1. CASE ~NothingAwaited(svc, n)
    BY <1>5, <2>1 DEF cancel_return, SameHandlers
  <2>2. CASE NothingAwaited(svc, n)
    <3>1. svc' = Cleanup(svc, p)
      BY <1>5, <1>6, <2>2 DEF cancel_return
    <3>2. AwaitedIn(svc, n) = {}
      BY <1>2, <1>4, <2>2, NothingAwaitedIs
    <3>3. CleanedUp(svc, svc', n)
      BY <1>2, <1>4, <3>1, CleanupChanges
    <3> QED BY <1>4, <3>2, <3>3, CleanedUpHandlers
  <2> QED BY <2>1, <2>2
<1>10. InCall' = InCall
  BY <1>3, <1>7, <1>8, <1>9, SameInCall DEF SameHandlers
<1> QED BY <1>7, <1>9, <1>10, QuietCalls

\* The handler of a timed event returns: neither does this one.
LEMMA TimeoutReturnCalls ==
  ASSUME Inv, TreeSound, CallsInv, timeout_return
  PROVE  CallsInv' /\ ContractStep
<1> DEFINE n == loc.node
           p == rb_ref_to_this(svc.tree, n)
<1>1. pc = "timeout"
  BY DEF timeout_return
<1>2. SvcOK(svc) /\ VecOK(svc) /\ EventsOK(svc) /\ n \in NodesOf(svc) /\ n \in Fds
      /\ loc.after \in {"loop", "scan"}
  BY <1>1, NodesInFds DEF Inv, TypeInv, VecInv, ScanInv, Walking, LocOK
<1>3. At(svc.tree, p) = n /\ p \in Places
  BY <1>2 DEF TreeSound
<1>4. n # Dangling.at
  BY <1>2, FdsAssumption DEF Dangling
<1>5. ~MovedIsLost(svc, p)
  BY <1>2, <1>3, MovedIsFound DEF TreeSound
<1>6. /\ svc' = IF NothingAwaited(svc, n) THEN Cleanup(svc, p) ELSE svc
      /\ pc' = loc.after /\ nh' = nh /\ calls' = calls
  BY <1>4, <1>5 DEF timeout_return
<1>7. SameHandlers(svc, svc') /\ svc'.status = svc.status
  <2>1. CASE ~NothingAwaited(svc, n)
    BY <1>6, <2>1 DEF SameHandlers
  <2>2. CASE NothingAwaited(svc, n)
    <3>1. AwaitedIn(svc, n) = {}
      BY <1>2, <2>2, NothingAwaitedIs
    <3>2. CleanedUp(svc, svc', n)
      BY <1>2, <1>3, <1>6, <2>2, CleanupChanges
    <3> QED BY <1>2, <3>1, <3>2, CleanedUpHandlers
  <2> QED BY <2>1, <2>2
<1> QED BY <1>1, <1>2, <1>6, <1>7, RestCalls

\* ... nor that of an entry that dispatch_ready_events is done with.
LEMMA EntryDoneCalls ==
  ASSUME Inv, TreeSound, CallsInv, entry_done
  PROVE  CallsInv' /\ ContractStep
<1> DEFINE s == IF loc.nval THEN [svc EXCEPT !.pvec[loc.i].revents = {}] ELSE svc
           p == loc.place
           n == Entry.fd
<1>1. pc = "entry" /\ InEntry /\ ~Walking
  BY DEF entry_done, InEntry, Walking
<1>2. SvcOK(svc) /\ VecOK(svc) /\ EventsOK(svc)
  BY <1>1 DEF Inv, TypeInv, VecInv
<1>3. /\ loc.i \in InUse(svc) /\ p \in Places /\ At(svc.tree, p) = n /\ Entry = svc.pvec[loc.i]
  BY <1>1 DEF Inv, ScanInv, EntryOK, Entry
<1>4. n \in NodesOf(svc) /\ n \in Fds /\ Entry.events = AwaitedIn(svc, n)
  BY <1>2, <1>3, NodesInFds DEF EventsOK, VecOK
<1>5. PICK r : SvcOK(s) /\ VecOK(s) /\ Reported(svc, s, r)
  <2>1. CASE loc.nval
    BY <1>2, <1>3, <2>1, ClearedChanges
  <2>2. CASE ~loc.nval
    <3>1. Reported(svc, svc, [k \in InUse(svc) |-> svc.pvec[k].revents])
      BY DEF Reported
    <3> QED BY <1>2, <2>2, <3>1
  <2> QED BY <2>1, <2>2
<1>6. /\ StillAwaited => svc' = s
      /\ ~StillAwaited => Crash \/ (svc' = Cleanup(s, p) /\ pc' = "scan")
      /\ Crash \/ pc' = "scan"
      /\ nh' = nh /\ calls' = calls
  BY DEF entry_done, Crash
<1> HIDE DEF s, n, p
<1>7. SameHandlers(svc, s) /\ s.status = svc.status /\ AwaitedIn(s, n) = AwaitedIn(svc, n)
      /\ At(s.tree, p) = n /\ n \in NodesOf(s)
  BY <1>3, <1>4, <1>5 DEF SameHandlers, Reported, AwaitedIn, Scheduled
<1>8. SameHandlers(svc, svc') /\ svc'.status = svc.status
  <2>1. CASE Crash
    BY <2>1 DEF Crash, SameHandlers
  <2>2. CASE StillAwaited
    BY <1>6, <1>7, <2>2
  <2>3. CASE ~Crash /\ ~StillAwaited
    <3>1. svc' = Cleanup(s, p) /\ AwaitedIn(s, n) = {}
      BY <1>4, <1>6, <1>7, <2>3 DEF StillAwaited
    <3>2. CleanedUp(s, svc', n)
      BY <1>5, <1>7, <3>1, CleanupChanges
    <3>3. SameHandlers(s, svc') /\ svc'.status = s.status
      BY <1>4, <1>5, <3>1, <3>2, CleanedUpHandlers
    <3> QED BY <1>7, <3>3 DEF SameHandlers
  <2> QED BY <2>1, <2>2, <2>3
<1>9. pc' \in {"scan", "crashed"}
  BY <1>6 DEF Crash
<1> QED BY <1>1, <1>6, <1>8, <1>9, RestCalls

\* The steps that change nothing but the locals of the loop.
LEMMA LoopCalls ==
  ASSUME CallsInv, scan_end \/ scan_entry \/ skip_event \/ event_return \/ prep_stop
  PROVE  CallsInv' /\ ContractStep
<1>1. svc' = svc /\ calls' = calls /\ nh' = nh
  BY DEF scan_end, scan_entry, skip_event, event_return, prep_stop, Crash
<1>2. /\ pc \notin {"sync", "delay", "walk", "stop_event"}
      /\ pc' \notin {"sync", "delay", "walk", "stop_event"}
  BY DEF scan_end, scan_entry, skip_event, event_return, prep_stop, Crash
<1> QED BY <1>1, <1>2, RestCalls DEF SameHandlers

\* A handler called by iosvc_prep_stop returns, and the walk goes on where it was.
LEMMA StopReturnCalls ==
  ASSUME CallsInv, stop_return
  PROVE  CallsInv' /\ ContractStep
<1>1. svc' = svc /\ calls' = calls /\ nh' = nh /\ loc' = loc
      /\ pc \in {"stop_delay", "stop_event"}
      /\ pc' = IF pc = "stop_delay" THEN "stop_delays" ELSE "walk"
  BY DEF stop_return
<1>2. InCall' = InCall
  BY <1>1 DEF InCall, Stopped, Walking
<1> QED BY <1>1, <1>2, QuietCalls DEF SameHandlers

\* iosvc_run returns: without pollfds nothing waits.
LEMMA FinishCalls ==
  ASSUME Inv, CallsInv, finish
  PROVE  CallsInv' /\ ContractStep
<1>1. /\ pc = "loop" /\ pc' = "main" /\ svc.sync = <<>> /\ svc.delays = {} /\ svc.npoll = 0
      /\ svc' = [svc EXCEPT !.status = "DONE"] /\ calls' = calls /\ nh' = nh
  BY DEF finish, Idle
<1>2. SameHandlers(svc, svc') /\ svc'.status = "DONE"
  <2>1. "DONE" \in Statuses
    BY DEF Statuses
  <2> QED BY <1>1, <2>1, StatusChange DEF Inv, TypeInv, SameHandlers, SameWaits
<1>3. svc.status \in {"RUNNING", "STOPPING"}
  BY <1>1 DEF Inv, StatusInv
<1>4. InCall' = InCall
  BY <1>1, NoneInCall
<1>5. CallsInv' /\ Stored' = Stored /\ Called' = Called
  BY <1>1, <1>2, <1>4, QuietCalls
<1>6. Stored = {}
  <2>1. NodesOf(svc) = {}
    BY <1>1 DEF NodesOf, InUse
  <2>2. \A fd \in Fds, ty \in Types : svc.evts[fd][ty] = NULL
    BY <2>1 DEF Inv, VecInv, VecOK, NoEvents
  <2>3. Awaiting(svc) = {} /\ Delayed(svc) = {} /\ Posted(svc) = {}
    BY <1>1, <2>2 DEF Awaiting, Delayed, Posted
  <2> QED BY <2>3, StoredIs
<1>7. Contract!Finish
  BY <1>2, <1>3, <1>5, <1>6 DEF Contract!Finish
<1> QED BY <1>5, <1>7 DEF ContractStep, Contract!Next

-----------------------------------------------------------------------------
(* Steps of the loop that call a handler or take one out.                  *)

\* run_sync_handlers calls the handler at the front.
LEMMA CallSyncCalls ==
  ASSUME Inv, CallsInv, call_sync
  PROVE  CallsInv' /\ ContractStep
<1> DEFINE h == Head(svc.sync)
<1>1. pc = "loop" /\ svc.sync # <<>> /\ pc' = "sync" /\ Count(h) /\ svc' = svc /\ nh' = nh
  BY DEF call_sync
<1>2. svc.sync \in Seq(Handlers) /\ HandlersOK(svc, nh) /\ svc.status \in {"RUNNING", "STOPPING"}
  BY <1>1 DEF Inv, TypeInv, SvcOK, CallsInv, StatusInv
<1>3. h \in Posted(svc)
  BY <1>1, <1>2, FrontPosted
<1>4. InCall = {} /\ InCall' = {h}
  <2>1. InCall = {}
    BY <1>1, NoneInCall
  <2>2. InCall' = {h}
    BY <1>1 DEF InCall, Stopped, Walking
  <2> QED BY <2>1, <2>2
<1>5. Stored' = Stored /\ h \in Stored
  BY <1>1, <1>3, StoredIs
<1> HIDE DEF h
<1> QED BY <1>1, <1>2, <1>4, <1>5, CallCalls

\* ... and pops it when it has returned.
LEMMA SyncReturnCalls ==
  ASSUME Inv, CallsInv, sync_return
  PROVE  CallsInv' /\ ContractStep
<1> DEFINE h == Head(svc.sync)
<1>1. pc = "sync" /\ pc' = "loop" /\ svc' = [svc EXCEPT !.sync = Tail(@)] /\ nh' = nh
      /\ calls' = calls
  BY DEF sync_return
<1>2. svc.sync \in Seq(Handlers) /\ HandlersOK(svc, nh) /\ svc.sync # <<>>
  BY <1>1 DEF Inv, TypeInv, SvcOK, CallsInv, StatusInv
<1>3. /\ svc'.sync = Tail(svc.sync) /\ svc'.delays = svc.delays /\ svc'.evts = svc.evts
      /\ svc'.status = svc.status
  BY <1>1 DEF Inv, TypeInv, SvcOK
<1>4. /\ HandlersOK(svc', nh) /\ Delayed(svc') = Delayed(svc) /\ Awaiting(svc') = Awaiting(svc)
      /\ Posted(svc') = Posted(svc) \ {h}
  BY <1>2, <1>3, FrontTaken
<1>5. h \in Posted(svc) /\ h \notin Delayed(svc) \cup Awaiting(svc)
  BY <1>2, FrontPosted
<1>6. InCall = {h} /\ InCall' = {}
  <2>1. InCall = {h}
    BY <1>1 DEF InCall, Stopped, Walking
  <2>2. InCall' = {}
    BY <1>1, NoneInCall
  <2> QED BY <2>1, <2>2
<1> HIDE DEF h
<1>7. Stored' = Stored \ {h}
  BY <1>4, <1>5, StoredIs
<1> QED BY <1>1, <1>3, <1>4, <1>6, <1>7, RemoveCalls

\* A delayed handler returns: it is still the front of its heap, for what was
\* added meanwhile is due later.
LEMMA DelayReturnCalls ==
  ASSUME Inv, CallsInv, delay_return
  PROVE  CallsInv' /\ ContractStep
<1> DEFINE e == loc.cur
<1>1. /\ pc = "delay" /\ cancels = <<>> /\ pc' = loc.after /\ nh' = nh /\ calls' = calls
      /\ \E f \in TopDelay : svc' = [svc EXCEPT !.delays = @ \ {f}]
  BY DEF delay_return
<1>2. e \in svc.delays /\ e.at = told.due
  BY <1>1 DEF Inv, TimerInv
<1>3. \A f \in svc.delays : e.at <= f.at
  BY <1>1, <1>2 DEF Inv, TimerInv, EarliestFirst
<1>4. TopDelay = {e}
  BY <1>2, <1>3 DEF TopDelay, Fronts
<1>5. svc' = [svc EXCEPT !.delays = @ \ {e}]
  BY <1>1, <1>4
<1>6. /\ svc'.sync = svc.sync /\ svc'.delays = svc.delays \ {e} /\ svc'.evts = svc.evts
      /\ svc'.status = svc.status
  BY <1>5 DEF Inv, TypeInv, SvcOK
<1>7. pc' \in {"loop", "scan"}
  BY <1>1 DEF Inv, TypeInv, LocOK
<1>8. InCall = {e.h} /\ InCall' = {}
  <2>1. InCall = {e.h}
    BY <1>1 DEF InCall, Stopped, Walking
  <2>2. InCall' = {}
    BY <1>7, NoneInCall
  <2> QED BY <2>1, <2>2
<1> HIDE DEF e
<1>9. /\ HandlersOK(svc', nh) /\ Posted(svc') = Posted(svc) /\ Awaiting(svc') = Awaiting(svc)
      /\ Delayed(svc') = Delayed(svc) \ {e.h} /\ e.h \notin Posted(svc) \cup Awaiting(svc)
  <2>1. HandlersOK(svc, nh)
    BY DEF CallsInv
  <2> QED BY <1>2, <1>6, <2>1, DelayTaken
<1>10. Stored' = Stored \ {e.h}
  BY <1>9, StoredIs
<1> QED BY <1>1, <1>6, <1>8, <1>9, <1>10, RemoveCalls

\* An event's handler is taken out and called.
LEMMA DequeueCalls ==
  ASSUME Inv, CallsInv, NEW s, SvcOK(s), SameHandlers(svc, s), s.status = svc.status,
         NEW fd \in Fds, NEW ty \in Types, Scheduled(s, fd, ty), Dequeued(s, svc', fd, ty),
         Count(s.evts[fd][ty]), nh' = nh, svc.status \in {"RUNNING", "STOPPING"},
         pc \notin {"sync", "delay", "walk", "stop_event"},
         pc' \notin {"sync", "delay", "walk", "stop_event"}
  PROVE  CallsInv' /\ ContractStep
<1> DEFINE h == s.evts[fd][ty]
<1>1. /\ Posted(s) = Posted(svc) /\ Delayed(s) = Delayed(svc) /\ Awaiting(s) = Awaiting(svc)
      /\ HandlersOK(s, nh)
  BY SameHandlersKeep DEF CallsInv
<1>2. /\ HandlersOK(svc', nh) /\ Posted(svc') = Posted(s) /\ Delayed(svc') = Delayed(s)
      /\ Awaiting(svc') = Awaiting(s) \ {h} /\ h \in Awaiting(s)
      /\ h \notin Posted(s) \cup Delayed(s)
  BY <1>1, DequeuedHandlers
<1> HIDE DEF h
<1>3. Stored' = Stored \ {h} /\ h \in Stored
  BY <1>1, <1>2, StoredIs
<1>4. InCall = {} /\ InCall' = {}
  BY NoneInCall
<1>5. svc'.status = svc.status
  BY DEF Dequeued
<1> QED BY <1>2, <1>3, <1>4, <1>5, CallCalls DEF h

\* dispatch_ready_events calls a handler, or crashes.
LEMMA CallEventCalls ==
  ASSUME Inv, CallsInv, call_event
  PROVE  CallsInv' /\ ContractStep
<1> DEFINE n == At(svc.tree, loc.place)
           ty == Head(loc.todo)
<1>1. pc = "entry" /\ InEntry
  BY DEF call_event, InEntry
<1>2. CASE Crash
  <2>1. svc' = svc /\ calls' = calls /\ nh' = nh /\ pc' = "crashed"
    BY <1>2 DEF Crash
  <2> QED BY <1>1, <2>1, RestCalls DEF SameHandlers
<1>3. CASE ~Crash
  <2>1. /\ Scheduled(svc, n, ty) /\ svc' = Dequeue(svc, n, ty) /\ Count(svc.evts[n][ty])
        /\ pc' = "event" /\ nh' = nh
    BY <1>3 DEF call_event
  <2>2. SvcOK(svc) /\ VecOK(svc) /\ svc.status \in {"RUNNING", "STOPPING"}
    BY <1>1 DEF Inv, TypeInv, VecInv, StatusInv
  <2>3. n \in NodesOf(svc) /\ n \in Fds
    BY <1>1, <2>2, NodesInFds DEF Inv, ScanInv, EntryOK, Entry
  <2>4. ty \in Types
    <3>1. loc.nval => ty \in Entry.events
      BY DEF call_event
    <3>2. loc.i \in InUse(svc) /\ Entry = svc.pvec[loc.i]
      BY <1>1 DEF Inv, ScanInv, EntryOK, Entry
    <3>3. Entry \in Pollfds
      BY <2>2, <3>2, FdsCount DEF SvcOK, InUse, Slots
    <3>4. Entry.events \subseteq Types /\ Entry.revents \subseteq {"IN", "OUT", "PRI"} \cup Faults
      BY <3>3 DEF Pollfds, Conditions
    <3>5. ~loc.nval => ty \in Entry.events \/ (ty = "WAIT_READ" /\ "HUP" \in Entry.revents)
      BY <1>1, HeadOfTodo DEF call_event, Inv, ScanInv, TodosOK, TodoOK
    <3>6. "HUP" \in Entry.revents => "WAIT_READ" \in Types
      BY <3>4, IoServiceAssumption
    <3> HIDE DEF ty
    <3> QED BY <3>1, <3>4, <3>5, <3>6
  <2>5. Dequeued(svc, svc', n, ty)
    BY <2>1, <2>2, <2>3, <2>4, DequeueChanges
  <2>6. SameHandlers(svc, svc)
    BY DEF SameHandlers
  <2> HIDE DEF n, ty
  <2> QED BY <1>1, <2>1, <2>2, <2>3, <2>4, <2>5, <2>6, DequeueCalls
<1> QED BY <1>2, <1>3

\* iosvc_prep_stop calls a delayed handler.
LEMMA StopNextDelayCalls ==
  ASSUME Inv, CallsInv, stop_next_delay
  PROVE  CallsInv' /\ ContractStep
<1>1. PICK e \in svc.delays : svc' = [svc EXCEPT !.delays = @ \ {e}] /\ Count(e.h)
  BY DEF stop_next_delay
<1>2. pc = "stop_delays" /\ pc' = "stop_delay" /\ nh' = nh
  BY DEF stop_next_delay
<1>3. /\ svc'.sync = svc.sync /\ svc'.delays = svc.delays \ {e} /\ svc'.evts = svc.evts
      /\ svc'.status = svc.status
  BY <1>1 DEF Inv, TypeInv, SvcOK
<1>4. HandlersOK(svc, nh) /\ svc.status \in {"RUNNING", "STOPPING"}
  BY <1>2 DEF CallsInv, Inv, StatusInv
<1>5. /\ HandlersOK(svc', nh) /\ Posted(svc') = Posted(svc) /\ Awaiting(svc') = Awaiting(svc)
      /\ Delayed(svc') = Delayed(svc) \ {e.h} /\ e.h \in Delayed(svc)
      /\ e.h \notin Posted(svc) \cup Awaiting(svc)
  BY <1>3, <1>4, DelayTaken
<1>6. Stored' = Stored \ {e.h} /\ e.h \in Stored
  BY <1>5, StoredIs
<1>7. InCall = {} /\ InCall' = {}
  BY <1>2, NoneInCall
<1> QED BY <1>1, <1>2, <1>3, <1>4, <1>5, <1>6, <1>7, CallCalls

-----------------------------------------------------------------------------
(* What follows poll.                                                      *)

\* dispatch_ready_events is called.
LEMMA DispatchCalls ==
  ASSUME Inv, CallsInv, NEW s, NEW r, NEW t, PollReturned(s, r, t), Dispatch(s, t)
  PROVE  CallsInv' /\ ContractStep
<1>1. SameHandlers(svc, svc') /\ svc'.status = svc.status
  BY DEF PollReturned, Reported, Dispatch, SameHandlers
<1>2. calls' = calls /\ nh' = nh /\ pc = "loop" /\ pc' = "scan"
  BY DEF PollReturned, Dispatch
<1> QED BY <1>1, <1>2, RestCalls

\* timeout_first calls the handler at the front of the heap, which keeps it there.
LEMMA TimeoutDelayCalls ==
  ASSUME Inv, CallsInv, NEW s, NEW r, NEW t, PollReturned(s, r, t), NEW after,
         NEW e \in svc.delays, TimeoutDelay(s, e, t, after)
  PROVE  CallsInv' /\ ContractStep
<1>1. SameHandlers(svc, svc') /\ svc'.status = svc.status
  BY DEF PollReturned, Reported, TimeoutDelay, SameHandlers
<1>2. /\ Count(e.h) /\ nh' = nh /\ pc = "loop" /\ pc' = "delay" /\ loc'.cur = e
      /\ svc.status \in {"RUNNING", "STOPPING"}
  BY DEF PollReturned, TimeoutDelay, NoLocals, Inv, StatusInv
<1>3. Stored' = Stored /\ HandlersOK(svc', nh)
  BY <1>1, StoredIs, SameHandlersKeep DEF CallsInv
<1>4. e.h \in Stored
  BY StoredIs DEF Delayed
<1>5. InCall = {} /\ InCall' = {e.h}
  <2>1. InCall = {}
    BY <1>2, NoneInCall
  <2>2. InCall' = {e.h}
    BY <1>2 DEF InCall, Stopped, Walking
  <2> QED BY <2>1, <2>2
<1> QED BY <1>1, <1>2, <1>3, <1>4, <1>5, CallCalls

\* timeout_first calls the handler of a timed event.
LEMMA TimeoutEventCalls ==
  ASSUME Inv, CallsInv, NEW s, NEW r, NEW t, PollReturned(s, r, t), NEW after,
         NEW x \in svc.timers, TimeoutEvent(s, x, t, after)
  PROVE  CallsInv' /\ ContractStep
<1>1. SameHandlers(svc, s) /\ s.status = svc.status /\ SvcOK(s) /\ VecOK(s)
      /\ NodesOf(s) = NodesOf(svc)
  BY DEF PollReturned, Reported, SameHandlers
<1>2. /\ svc' = Dequeue(s, x.fd, x.ty) /\ Count(s.evts[x.fd][x.ty]) /\ pc' = "timeout"
      /\ pc = "loop" /\ nh' = nh /\ svc.status \in {"RUNNING", "STOPPING"}
  BY DEF TimeoutEvent, PollReturned, Inv, StatusInv
<1>3. x.fd \in Fds /\ x.ty \in Types /\ Scheduled(svc, x.fd, x.ty)
  BY DEF PollReturned, Settled, TimersOK, SvcOK, TimerEntries
<1>4. Scheduled(s, x.fd, x.ty)
  BY <1>1, <1>3 DEF Scheduled, SameHandlers
<1>5. x.fd \in NodesOf(s)
  BY <1>1, <1>3, <1>4 DEF VecOK, Scheduled, NoEvents
<1>6. Dequeued(s, svc', x.fd, x.ty)
  BY <1>1, <1>2, <1>3, <1>5, DequeueChanges
<1> QED BY <1>1, <1>2, <1>3, <1>4, <1>6, DequeueCalls

\* poll returns 0.
LEMMA PollExpiresCalls ==
  ASSUME Inv, CallsInv, NEW t \in 0..MaxTime, poll_expires(t)
  PROVE  CallsInv' /\ ContractStep
<1> DEFINE r == [k \in Slots |-> {}]
           s == Polled(r)
<1>1. /\ pc = "loop" /\ t >= now /\ now' = t /\ UNCHANGED <<cancels, nh>>
      /\ \/ \E x \in Fronts(s.timers) : TimeoutEvent(s, x, t, "loop")
         \/ \E e \in Fronts(s.delays) : TimeoutDelay(s, e, t, "loop")
  BY DEF poll_expires, Polls
<1>2. cancels = <<>> /\ SvcOK(svc) /\ VecOK(svc)
  BY <1>1 DEF Inv, CancelInv, TypeInv, VecInv
<1>3. Settled(svc)
  BY <1>1, <1>2, AtRest
<1>4. SvcOK(s) /\ VecOK(s) /\ Reported(svc, s, r)
  <2>1. \A k \in Slots : r[k] \in SUBSET Conditions
    OBVIOUS
  <2> HIDE DEF r
  <2> QED BY <1>2, <2>1, PolledChanges
<1> HIDE DEF r, s
<1>5. PollReturned(s, r, t)
  BY <1>1, <1>2, <1>3, <1>4 DEF PollReturned
<1>6. s.timers = svc.timers /\ s.delays = svc.delays
  BY <1>4 DEF Reported
<1>7. CASE \E x \in Fronts(s.timers) : TimeoutEvent(s, x, t, "loop")
  <2>1. PICK x \in svc.timers : TimeoutEvent(s, x, t, "loop")
    BY <1>6, <1>7 DEF Fronts
  <2> QED BY <1>5, <2>1, TimeoutEventCalls
<1>8. CASE \E e \in Fronts(s.delays) : TimeoutDelay(s, e, t, "loop")
  <2>1. PICK e \in svc.delays : TimeoutDelay(s, e, t, "loop")
    BY <1>6, <1>8 DEF Fronts
  <2> QED BY <1>5, <2>1, TimeoutDelayCalls
<1> QED BY <1>1, <1>7, <1>8

\* poll returns with reports, or is interrupted.
LEMMA PollReturnsCalls ==
  ASSUME Inv, CallsInv, NEW t \in 0..MaxTime, poll_returns(t)
  PROVE  CallsInv' /\ ContractStep
<1>1. PICK r :
         /\ pc = "loop" /\ t >= now /\ now' = t /\ UNCHANGED <<cancels, nh>>
         /\ \A k \in Slots : IF k < svc.npoll THEN r[k] \in Reports(svc.pvec[k].events)
                                              ELSE r[k] = {}
         /\ LET s == Polled(r)
            IN  \/ Dispatch(s, t)
                \/ \E e \in Fronts(s.delays) : TimeoutDelay(s, e, t, "scan")
                \/ \E x \in Fronts(s.timers) : TimeoutEvent(s, x, t, "scan")
  BY DEF poll_returns, Polls
<1> DEFINE s == Polled(r)
<1>2. cancels = <<>> /\ SvcOK(svc) /\ VecOK(svc)
  BY <1>1 DEF Inv, CancelInv, TypeInv, VecInv
<1>3. Settled(svc)
  BY <1>1, <1>2, AtRest
<1>4. \A k \in Slots : r[k] \in SUBSET Conditions
  <2> TAKE k \in Slots
  <2>1. svc.pvec[k].events \in SUBSET Types
    BY <1>2 DEF SvcOK, Pollfds
  <2> QED BY <1>1, <2>1, ReportsAsked
<1>5. SvcOK(s) /\ VecOK(s) /\ Reported(svc, s, r)
  BY <1>2, <1>4, PolledChanges
<1>6. \/ Dispatch(s, t)
      \/ \E e \in Fronts(s.delays) : TimeoutDelay(s, e, t, "scan")
      \/ \E x \in Fronts(s.timers) : TimeoutEvent(s, x, t, "scan")
  BY <1>1
<1> HIDE DEF s
<1>7. PollReturned(s, r, t)
  BY <1>1, <1>2, <1>3, <1>5 DEF PollReturned
<1>8. s.timers = svc.timers /\ s.delays = svc.delays
  BY <1>5 DEF Reported
<1>9. CASE Dispatch(s, t)
  BY <1>7, <1>9, DispatchCalls
<1>10. CASE \E e \in Fronts(s.delays) : TimeoutDelay(s, e, t, "scan")
  <2>1. PICK e \in svc.delays : TimeoutDelay(s, e, t, "scan")
    BY <1>8, <1>10 DEF Fronts
  <2> QED BY <1>7, <2>1, TimeoutDelayCalls
<1>11. CASE \E x \in Fronts(s.timers) : TimeoutEvent(s, x, t, "scan")
  <2>1. PICK x \in svc.timers : TimeoutEvent(s, x, t, "scan")
    BY <1>8, <1>11 DEF Fronts
  <2> QED BY <1>7, <2>1, TimeoutEventCalls
<1> QED BY <1>6, <1>9, <1>10, <1>11

-----------------------------------------------------------------------------
(* The walk of stop_async_ops.                                             *)

\* The handlers that the walk has stopped.
StopCalls == {h \in Handlers : \E fd \in Fds, ty \in Types :
                                  Stopped(fd, ty) /\ h = svc.evts[fd][ty]}

\* They are the ones being called while the walk goes on.
LEMMA WalkInCall ==
  /\ Walking => InCall = StopCalls
  /\ Walking' => InCall' = StopCalls'
BY DEF InCall, StopCalls, Walking

\* The frames of two stacks put together.
LEMMA StoppedJoined ==
  ASSUME NEW S, NEW q \in Seq(S), NEW u \in Seq(S), NEW fd, NEW ty
  PROVE  StoppedIn(q \o u, fd, ty) <=> StoppedIn(q, fd, ty) \/ StoppedIn(u, fd, ty)
<1>1. StoppedIn(q \o u, fd, ty) => StoppedIn(q, fd, ty) \/ StoppedIn(u, fd, ty)
  BY Joined DEF StoppedIn
<1>2. StoppedIn(q, fd, ty) => StoppedIn(q \o u, fd, ty)
  BY Joined DEF StoppedIn
<1>3. StoppedIn(u, fd, ty) => StoppedIn(q \o u, fd, ty)
  <2> SUFFICES ASSUME NEW k \in DOMAIN u, u[k].n = fd, ty \notin u[k].todo
               PROVE  StoppedIn(q \o u, fd, ty)
    BY DEF StoppedIn
  <2>1. k + Len(q) \in DOMAIN (q \o u) /\ (q \o u)[k + Len(q)] = u[k]
    BY Joined
  <2> QED BY <2>1 DEF StoppedIn
<1> QED BY <1>1, <1>2, <1>3

\* Nothing is stopped yet in the frame for a node that the walk comes to.
LEMMA VisitStopsNone ==
  ASSUME SvcOK(svc), VecOK(svc), NEW n \in NodesOf(svc) \cup {Nil}, NEW fd, NEW ty \in Types,
         Scheduled(svc, fd, ty)
  PROVE  ~StoppedIn(Visit(n), fd, ty)
<1>1. \A k \in DOMAIN Visit(n) : Visit(n)[k].n = n /\ Visit(n)[k].todo = AwaitedIn(svc, n)
  BY VisitIs
<1> QED BY <1>1 DEF StoppedIn, AwaitedIn

\* The top of the stack and the rest of it.
LEMMA StoppedTop ==
  ASSUME NEW q \in Seq(Frames), q # <<>>, DistinctNodes(q), NEW fd, NEW ty
  PROVE  StoppedIn(q, fd, ty) <=> \/ Head(q).n = fd /\ ty \notin Head(q).todo
                                  \/ StoppedIn(Tail(q), fd, ty)
<1>1. /\ 1 \in DOMAIN q /\ Head(q) = q[1]
      /\ \A k \in DOMAIN Tail(q) : k + 1 \in DOMAIN q /\ Tail(q)[k] = q[k + 1]
  BY TopFrame
<1>2. \A k \in DOMAIN q : k # 1 => k - 1 \in DOMAIN Tail(q) /\ (k - 1) + 1 = k
  OBVIOUS
<1>3. \A k \in DOMAIN q : k # 1 => k - 1 \in DOMAIN Tail(q) /\ q[k] = Tail(q)[k - 1]
  BY <1>1, <1>2
<1> QED BY <1>1, <1>3 DEF StoppedIn

\* stop_async_ops is called for the root: nothing is stopped yet.
LEMMA StartWalkCalls ==
  ASSUME Inv, TreeSound, CallsInv, start_walk
  PROVE  CallsInv' /\ ContractStep
<1>1. /\ pc = "stop_delays" /\ pc' = "walk" /\ UNCHANGED <<svc, cancels, nh, calls>>
      /\ loc'.walk = Visit(svc.tree.root)
  BY DEF start_walk, NoLocals
<1>2. SvcOK(svc) /\ VecOK(svc)
  BY DEF Inv, TypeInv, VecInv
<1>3. svc.tree.root \in NodesOf(svc) \cup {Nil}
  BY DEF TreeSound, Shaped
<1>4. \A fd \in Fds, ty \in Types : ~Stopped(fd, ty)'
  BY <1>1, <1>2, <1>3, VisitStopsNone DEF Stopped
<1>5. InCall = {} /\ InCall' = {}
  <2>1. StopCalls' = {}
    BY <1>4 DEF StopCalls
  <2>2. Walking'
    BY <1>1 DEF Walking
  <2> QED BY <1>1, <2>1, <2>2, NoneInCall, WalkInCall
<1> QED BY <1>1, <1>5, QuietCalls DEF SameHandlers

\* stop_async_ops goes on to the children, whose handlers were not called.
LEMMA WalkChildrenCalls ==
  ASSUME Inv, TreeSound, CallsInv, walk_children
  PROVE  CallsInv' /\ ContractStep
<1> DEFINE top == Head(loc.walk)
           rest == Tail(loc.walk)
           L == svc.tree.kid[top.n][LEFT]
           R == svc.tree.kid[top.n][RIGHT]
           done == [top EXCEPT !.free = TRUE]
           a == Visit(L)
           b == Visit(R)
           c == <<done>>
           q2 == ((a \o b) \o c) \o rest
<1>1. pc = "walk" /\ Walking /\ loc.walk # <<>> /\ top.todo = {}
  BY DEF walk_children, Walking
<1>2. /\ SvcOK(svc) /\ VecOK(svc) /\ LocOK /\ loc.walk \in Seq(Frames) /\ DistinctNodes(loc.walk)
  BY <1>1, WalkFacts
<1>3. top \in Frames /\ rest \in Seq(Frames)
  BY <1>1, <1>2, TopFrame
<1>4. L \in NodesOf(svc) \cup {Nil} /\ R \in NodesOf(svc) \cup {Nil}
  <2>1. LEFT \in Dirs /\ RIGHT \in Dirs
    BY DEF Dirs
  <2> QED BY <2>1, ChildrenUnreached
<1>5. loc' = [loc EXCEPT !.walk = q2] /\ UNCHANGED <<svc, now, pc, cancels, nh, calls, told>>
  BY ChildrenUnreached
<1>6. \A fd, ty : StoppedIn(loc.walk, fd, ty) <=> \/ top.n = fd /\ ty \notin top.todo
                                                  \/ StoppedIn(rest, fd, ty)
  BY <1>1, <1>2, StoppedTop
<1>7. done \in Frames /\ done.n = top.n /\ done.todo = top.todo
  BY <1>1, <1>3 DEF Frames
<1> HIDE DEF done, L, R, top, rest
<1>8. a \in Seq(Frames) /\ b \in Seq(Frames)
  BY <1>2, <1>4, VisitIs
<1>9. c \in Seq(Frames) /\ \A fd, ty : StoppedIn(c, fd, ty) <=> top.n = fd /\ ty \notin top.todo
  <2>1. c \in Seq(Frames) /\ DOMAIN c = {1} /\ c[1] = done
    BY <1>7, AtMostOne
  <2> HIDE DEF c
  <2> QED BY <1>7, <2>1 DEF StoppedIn
<1>10. \A fd \in Fds, ty \in Types : Scheduled(svc, fd, ty) =>
          ~StoppedIn(a, fd, ty) /\ ~StoppedIn(b, fd, ty)
  BY <1>2, <1>4, VisitStopsNone
<1> HIDE DEF a, b, c
<1> DEFINE u == a \o b
           v == u \o c
<1>11. u \in Seq(Frames) /\ \A fd, ty : StoppedIn(u, fd, ty) <=>
          StoppedIn(a, fd, ty) \/ StoppedIn(b, fd, ty)
  BY <1>8, StoppedJoined
<1>12. v \in Seq(Frames) /\ \A fd, ty : StoppedIn(v, fd, ty) <=>
          StoppedIn(u, fd, ty) \/ StoppedIn(c, fd, ty)
  <2> HIDE DEF u
  <2> QED BY <1>9, <1>11, StoppedJoined
<1> HIDE DEF u, v
<1>13. \A fd, ty : StoppedIn(q2, fd, ty) <=> StoppedIn(v, fd, ty) \/ StoppedIn(rest, fd, ty)
  <2>1. q2 = v \o rest
    BY DEF u, v
  <2> HIDE DEF q2
  <2> QED BY <1>3, <1>12, <2>1, StoppedJoined
<1> HIDE DEF q2
<1>14. \A fd \in Fds, ty \in Types : Scheduled(svc, fd, ty) =>
          (StoppedIn(q2, fd, ty) <=> StoppedIn(loc.walk, fd, ty))
  BY <1>6, <1>9, <1>10, <1>11, <1>12, <1>13
<1>15. loc'.walk = q2
  BY <1>2, <1>5 DEF LocOK
<1>16. Walking' /\ \A fd \in Fds, ty \in Types : Stopped(fd, ty)' <=> Stopped(fd, ty)
  BY <1>1, <1>5, <1>14, <1>15 DEF Stopped, Walking
<1>17. StopCalls' = StopCalls
  BY <1>5, <1>16 DEF StopCalls
<1>18. InCall' = InCall
  BY <1>1, <1>16, <1>17, WalkInCall
<1> QED BY <1>5, <1>18, QuietCalls DEF SameHandlers

\* The handlers of a node that is freed have all been called.
LEMMA WalkFreeCalls ==
  ASSUME Inv, CallsInv, walk_free
  PROVE  CallsInv' /\ ContractStep
<1> DEFINE top == Head(loc.walk)
           rest == Tail(loc.walk)
           n == top.n
<1>1. /\ pc = "walk" /\ Walking /\ loc.walk # <<>> /\ top.free
      /\ svc' = [svc EXCEPT !.evts[n] = NoEvents] /\ loc' = [loc EXCEPT !.walk = rest]
      /\ UNCHANGED <<now, pc, cancels, nh, calls, told>>
  BY DEF walk_free, Walking
<1>2. /\ SvcOK(svc) /\ VecOK(svc) /\ LocOK /\ loc.walk \in Seq(Frames) /\ DistinctNodes(loc.walk)
      /\ \A k \in DOMAIN loc.walk : FrameOK(svc, loc.walk[k])
      /\ NodesOf(svc) \subseteq Fds
  BY <1>1, WalkFacts
<1>3. top \in Frames /\ 1 \in DOMAIN loc.walk /\ top = loc.walk[1]
  BY <1>1, <1>2, TopFrame
<1>4. n \in Fds /\ top.todo = {}
  BY <1>1, <1>2, <1>3 DEF FrameOK
<1>5. \A fd, ty : StoppedIn(loc.walk, fd, ty) <=> n = fd \/ StoppedIn(rest, fd, ty)
  BY <1>1, <1>2, <1>4, StoppedTop
<1> HIDE DEF top, rest, n
<1>6. /\ svc'.sync = svc.sync /\ svc'.delays = svc.delays /\ svc'.status = svc.status
      /\ svc'.evts = [svc.evts EXCEPT ![n] = NoEvents] /\ loc'.walk = rest
      /\ svc.evts \in [Fds -> [Types -> Handlers \cup {NULL}]]
  BY <1>1, <1>2 DEF SvcOK, LocOK
<1>7. \A fd \in Fds, ty \in Types :
         svc'.evts[fd][ty] = IF fd = n THEN NULL ELSE svc.evts[fd][ty]
  BY <1>4, <1>6 DEF NoEvents
<1>8. HandlersOK(svc, nh) /\ NULL \notin Handlers
  BY DEF CallsInv, NULL, Handlers
<1>9. Posted(svc') = Posted(svc) /\ Delayed(svc') = Delayed(svc)
  BY <1>6 DEF Posted, Delayed
<1>10. HandlersOK(svc', nh) /\ Awaiting(svc') \subseteq Awaiting(svc)
  <2>1. Distinct(svc'.sync) /\ svc'.delays \subseteq svc.delays
    BY <1>6, <1>8 DEF HandlersOK
  <2>2. \A fd \in Fds, ty \in Types :
           svc'.evts[fd][ty] = svc.evts[fd][ty] \/ svc'.evts[fd][ty] = NULL
    BY <1>7
  <2>3. Posted(svc') \subseteq Posted(svc)
    BY <1>9
  <2> QED BY <1>8, <2>1, <2>2, <2>3, FewerHandlers
<1>11. \A fd \in Fds, ty \in Types : Stopped(fd, ty)' <=> Stopped(fd, ty) /\ fd # n
  BY <1>1, <1>5, <1>6, <1>7 DEF Stopped, Walking, Scheduled
<1>12. InCall = StopCalls /\ InCall' = StopCalls'
  BY <1>1, WalkInCall DEF Walking
<1>13. Stored' \subseteq Stored
  BY <1>9, <1>10, StoredIs
<1>14. Stored \ Stored' \subseteq InCall
  <2> SUFFICES ASSUME NEW h \in Stored, h \notin Stored'
               PROVE  h \in StopCalls
    BY <1>12
  <2>1. h \in Awaiting(svc) /\ h \notin Awaiting(svc')
    BY <1>9, StoredIs
  <2>2. PICK fd \in Fds, ty \in Types : h = svc.evts[fd][ty] /\ h # NULL
    BY <2>1 DEF Awaiting
  <2>3. fd = n
    BY <1>7, <2>1, <2>2 DEF Awaiting
  <2>4. Stopped(fd, ty) /\ h \in Handlers
    BY <1>1, <1>5, <1>6, <2>2, <2>3 DEF Stopped, Scheduled
  <2> QED BY <2>2, <2>4 DEF StopCalls
<1>15. StopCalls' \subseteq StopCalls \cap Stored'
  <2> SUFFICES ASSUME NEW h \in Handlers, NEW fd \in Fds, NEW ty \in Types,
                      Stopped(fd, ty)', h = svc'.evts[fd][ty]
               PROVE  h \in StopCalls /\ h \in Stored'
    BY DEF StopCalls
  <2>1. Stopped(fd, ty) /\ fd # n /\ h = svc.evts[fd][ty]
    BY <1>7, <1>11
  <2>2. h \in Awaiting(svc')
    BY <1>8 DEF Awaiting
  <2> QED BY <2>1, <2>2, StoredIs DEF StopCalls
<1>16. StopCalls \cap Stored' \subseteq StopCalls'
  <2> SUFFICES ASSUME NEW h \in Handlers, NEW fd \in Fds, NEW ty \in Types,
                      Stopped(fd, ty), h = svc.evts[fd][ty], h \in Stored'
               PROVE  h \in StopCalls'
    BY DEF StopCalls
  <2>1. h \in Awaiting(svc)
    BY <1>8 DEF Awaiting
  <2>2. h \in Awaiting(svc')
    BY <1>8, <1>9, <2>1, StoredIs DEF HandlersOK
  <2>3. PICK fe \in Fds, te \in Types : h = svc'.evts[fe][te]
    BY <2>2 DEF Awaiting
  <2>4. fe # n /\ svc.evts[fe][te] = h
    BY <1>7, <1>8, <2>3
  <2>5. fe = fd /\ te = ty
    BY <1>8, <2>4 DEF HandlersOK, Scheduled
  <2>6. Stopped(fd, ty)' /\ h = svc'.evts[fd][ty]
    BY <1>11, <2>3, <2>4, <2>5
  <2> QED BY <2>6 DEF StopCalls
<1>17. InCall' = InCall \cap Stored'
  BY <1>12, <1>15, <1>16
<1> QED BY <1>1, <1>6, <1>10, <1>13, <1>14, <1>17, RemoveCalls

\* stop_async_ops has returned.
LEMMA EndWalkCalls ==
  ASSUME Inv, CallsInv, end_walk
  PROVE  CallsInv' /\ ContractStep
<1>1. /\ pc = "walk" /\ Walking /\ loc.walk = <<>> /\ pc' = "loop" /\ nh' = nh /\ calls' = calls
      /\ svc' = [svc EXCEPT !.timers = {}, !.npoll = 0, !.tree = EmptyTree,
                            !.idx = [fd \in Fds |-> 0]]
  BY DEF end_walk, Walking
<1>2. SameHandlers(svc, svc') /\ svc'.status = svc.status
  BY <1>1 DEF Inv, TypeInv, SvcOK, SameHandlers
<1>3. StopCalls = {}
  BY <1>1 DEF StopCalls, Stopped, StoppedIn
<1>4. InCall' = InCall
  BY <1>1, <1>3, NoneInCall, WalkInCall
<1> QED BY <1>1, <1>2, <1>4, QuietCalls

\* stop_handler calls a handler of the node at the top, which keeps it.
LEMMA StopNextEventCalls ==
  ASSUME Inv, CallsInv, stop_next_event
  PROVE  CallsInv' /\ ContractStep
<1> DEFINE top == Head(loc.walk)
<1>1. pc = "walk" /\ Walking /\ loc.walk # <<>>
  BY DEF stop_next_event, Walking
<1>2. /\ SvcOK(svc) /\ VecOK(svc) /\ LocOK /\ loc.hp /\ svc.status = "STOPPING"
      /\ loc.walk \in Seq(Frames) /\ DistinctNodes(loc.walk)
      /\ \A k \in DOMAIN loc.walk : FrameOK(svc, loc.walk[k])
      /\ NodesOf(svc) \subseteq Fds
  BY <1>1, WalkFacts
<1>3. 1 \in DOMAIN loc.walk /\ top = loc.walk[1] /\ top \in Frames
  BY <1>1, <1>2, TopFrame
<1>4. PICK ty \in top.todo :
         /\ Count(svc.evts[top.n][ty]) /\ loc' = [loc EXCEPT !.walk[1].todo = @ \ {ty}]
         /\ pc' = "stop_event" /\ UNCHANGED <<svc, now, cancels, nh>>
  BY <1>2 DEF stop_next_event
<1> DEFINE n == top.n
           h == svc.evts[n][ty]
           w2 == [top EXCEPT !.todo = @ \ {ty}]
           q2 == [loc.walk EXCEPT ![1] = w2]
<1>5. loc' = [loc EXCEPT !.walk = q2]
  BY <1>2, <1>3, <1>4 DEF LocOK
<1>6. w2 \in Frames /\ w2.n = n /\ w2.todo = top.todo \ {ty}
  BY <1>3 DEF Frames
<1> HIDE DEF w2
<1>7. /\ DOMAIN q2 = DOMAIN loc.walk /\ q2[1] = w2
      /\ \A k \in DOMAIN loc.walk : k # 1 => q2[k] = loc.walk[k]
  BY <1>2, <1>3, <1>6
<1> HIDE DEF q2, top
<1>8. loc'.walk = q2
  BY <1>2, <1>5 DEF LocOK
<1>9. n \in Fds /\ ty \in Types /\ Scheduled(svc, n, ty)
  BY <1>2, <1>3 DEF FrameOK, AwaitedIn
<1>10. h \in Handlers /\ h # NULL /\ h \in Awaiting(svc)
  BY <1>2, <1>9 DEF SvcOK, Scheduled, Awaiting
<1>11. \A fd, te : StoppedIn(q2, fd, te) <=> StoppedIn(loc.walk, fd, te) \/ (fd = n /\ te = ty)
  <2> TAKE fd, te
  <2>1. StoppedIn(q2, fd, te) => StoppedIn(loc.walk, fd, te) \/ (fd = n /\ te = ty)
    BY <1>3, <1>6, <1>7 DEF StoppedIn
  <2>2. StoppedIn(loc.walk, fd, te) => StoppedIn(q2, fd, te)
    BY <1>3, <1>6, <1>7 DEF StoppedIn
  <2>3. StoppedIn(q2, n, ty)
    BY <1>3, <1>6, <1>7 DEF StoppedIn
  <2> QED BY <2>1, <2>2, <2>3
<1>12. ~StoppedIn(loc.walk, n, ty)
  BY <1>2, <1>3 DEF StoppedIn, DistinctNodes
<1> HIDE DEF n
<1>13. Walking' /\ \A fd \in Fds, te \in Types :
          Stopped(fd, te)' <=> Stopped(fd, te) \/ (fd = n /\ te = ty)
  BY <1>1, <1>4, <1>8, <1>9, <1>11 DEF Stopped, Walking
<1>14. InCall = StopCalls /\ InCall' = StopCalls'
  BY <1>1, <1>13, WalkInCall
<1>15. StopCalls' = StopCalls \cup {h}
  BY <1>4, <1>9, <1>10, <1>13 DEF StopCalls
<1>16. h \notin StopCalls
  <2> SUFFICES ASSUME NEW fd \in Fds, NEW te \in Types, Stopped(fd, te), h = svc.evts[fd][te]
               PROVE  FALSE
    BY DEF StopCalls
  <2>1. fd = n /\ te = ty
    BY <1>9 DEF CallsInv, HandlersOK
  <2> QED BY <1>12, <2>1 DEF Stopped
<1> HIDE DEF h
<1>17. Stored' = Stored /\ h \in Stored /\ HandlersOK(svc', nh)
  BY <1>4, <1>10, StoredIs DEF CallsInv
<1>18. Count(h) /\ nh' = nh /\ svc'.status = svc.status
  BY <1>4 DEF h, n
<1> QED BY <1>2, <1>14, <1>15, <1>16, <1>17, <1>18, CallCalls

-----------------------------------------------------------------------------
(* The theorems.                                                           *)

\* Every step.
LEMMA NextCalls ==
  ASSUME Inv, TreeSound, Careful, CallsInv, [Next]_vars
  PROVE  CallsInv' /\ ContractStep
<1>1. CASE UNCHANGED vars
  <2>1. svc' = svc /\ pc' = pc /\ loc' = loc /\ calls' = calls /\ nh' = nh
    BY <1>1 DEF vars
  <2>2. InCall' = InCall
    BY <2>1, SameInCall
  <2> QED BY <2>1, <2>2, QuietCalls DEF SameHandlers
<1>2. CASE Client
  BY <1>2, ClientCalls
<1>3. CASE Returns
  BY <1>3, CancelReturnCalls, SyncReturnCalls, TimeoutReturnCalls, DelayReturnCalls,
     LoopCalls DEF Returns
<1>4. CASE Dispatching
  BY <1>4, CallSyncCalls, FinishCalls, LoopCalls, CallEventCalls, EntryDoneCalls DEF Dispatching
<1>5. CASE Stopping
  BY <1>5, LoopCalls, StopNextDelayCalls, StartWalkCalls, StopNextEventCalls,
     WalkChildrenCalls, WalkFreeCalls, EndWalkCalls, StopReturnCalls DEF Stopping
<1>6. CASE Poll
  BY <1>6, PollFailsCalls, PollExpiresCalls, PollReturnsCalls DEF Poll
<1> QED BY <1>1, <1>2, <1>3, <1>4, <1>5, <1>6 DEF Next, Done

\* iosvc_create.
LEMMA InitCalls ==
  ASSUME Init
  PROVE  CallsInv /\ Contract!Init
<1>1. /\ svc.status = "READY" /\ svc.sync = <<>> /\ svc.delays = {}
      /\ svc.evts = [fd \in Fds |-> NoEvents] /\ pc = "main" /\ nh = 0
      /\ calls = [h \in Handlers |-> 0]
  BY DEF Init
<1>2. \A fd \in Fds, ty \in Types : svc.evts[fd][ty] = NULL
  BY <1>1 DEF NoEvents
<1>3. Posted(svc) = {} /\ Delayed(svc) = {} /\ Awaiting(svc) = {}
  BY <1>1, <1>2 DEF Posted, Delayed, Awaiting
<1>4. Stored = {} /\ Called = {}
  BY <1>1, <1>3, StoredIs DEF Called
<1>5. HandlersOK(svc, nh)
  <2>1. Distinct(svc.sync)
    BY <1>1 DEF Distinct
  <2> QED BY <1>1, <1>2, <1>3, <2>1 DEF HandlersOK, Scheduled
<1>6. InCall = {}
  BY <1>1, NoneInCall
<1>7. CallsInv
  BY <1>1, <1>4, <1>5, <1>6 DEF CallsInv
<1>8. Contract!Init
  BY <1>1, <1>4 DEF Contract!Init
<1> QED BY <1>7, <1>8

\* The invariant holds of the behaviours that InvHolds is about.
THEOREM CallsInvHolds ==
  ASSUME Careful
  PROVE  SoundSpec => []CallsInv
<1>1. Init => CallsInv
  BY InitCalls
<1>2. Inv /\ TreeSound /\ CallsInv /\ [Next]_vars => CallsInv'
  BY NextCalls
<1> QED BY <1>1, <1>2, InvHolds, PTL DEF SoundSpec, Spec

(***************************************************************************)
(* Two descriptors.  A search tree of at most two nodes is never rotated   *)
(* and never loses a parent pointer, so SoundSpec, which is the hypothesis *)
(* of the lemmas above, is what the code does.  The tree operations are    *)
(* recursive functions; of two nodes they settle after a step or two.      *)
(***************************************************************************)

\* Trees over the descriptors, whatever their shape.
Trees == [root : Fds \cup {Nil}, kid : [Fds -> [Dirs -> Fds \cup {Nil}]],
          par : [Fds -> Fds \cup {Nil}], red : [Fds -> BOOLEAN]]

\* The side of node n that fd belongs to.
Side(fd, n) == IF fd > n THEN RIGHT ELSE LEFT

\* A tree without a node, with the node r, with the red child c of r.
NoNode(t)  == t.root = Nil /\ \A n \in Fds, d \in Dirs : t.kid[n][d] = Nil
OneNode(t, r) == /\ t.root = r /\ t.par[r] = Nil /\ ~t.red[r]
                 /\ \A n \in Fds, d \in Dirs : t.kid[n][d] = Nil
TwoNodes(t, r, c) == /\ r # c
                     /\ t.root = r /\ t.par[r] = Nil /\ ~t.red[r]
                     /\ t.par[c] = r /\ t.red[c]
                     /\ t.kid[r][Side(c, r)] = c
                     /\ \A n \in Fds, d \in Dirs :
                           n # r \/ d # Side(c, r) => t.kid[n][d] = Nil

\* Tree t is one of them, of the nodes keys.
SmallTree(t, keys) ==
    /\ t \in Trees
    /\ \/ NoNode(t) /\ keys = {}
       \/ \E r \in Fds : OneNode(t, r) /\ keys = {r}
       \/ \E r, c \in Fds : TwoNodes(t, r, c) /\ keys = {r, c}

\* Of three descriptors out of two, two are the same.
LEMMA FewFds ==
  ASSUME Cardinality(Fds) <= 2, NEW a \in Fds, NEW b \in Fds, NEW c \in Fds
  PROVE  a = b \/ b = c \/ a = c
<1> SUFFICES ASSUME a # b, b # c, a # c PROVE FALSE
  OBVIOUS
<1>1. IsFiniteSet({a, b, c}) /\ Cardinality({a, b, c}) <= Cardinality(Fds)
  BY FdsAssumption, FS_Subset
<1>2. IsFiniteSet({a}) /\ Cardinality({a}) = 1
  BY FS_Singleton
<1>3. IsFiniteSet({a, b}) /\ Cardinality({a, b}) = 2
  <2>1. {a, b} = {a} \cup {b} /\ b \notin {a}
    OBVIOUS
  <2>2. IsFiniteSet({a} \cup {b}) /\ Cardinality({a} \cup {b}) = Cardinality({a}) + 1
    BY <1>2, <2>1, FS_AddElement, Zenon
  <2>3. Cardinality({a} \cup {b}) = 2
    BY <1>2, <2>2
  <2> QED BY <2>1, <2>2, <2>3
<1>4. Cardinality({a, b, c}) = 3
  <2>1. {a, b, c} = {a, b} \cup {c} /\ c \notin {a, b}
    OBVIOUS
  <2>2. Cardinality({a, b} \cup {c}) = Cardinality({a, b}) + 1
    BY <1>3, <2>1, FS_AddElement, Zenon
  <2> QED BY <1>3, <2>1, <2>2
<1>5. ~(3 <= Cardinality(Fds))
  BY FdsCount
<1> QED BY <1>1, <1>4, <1>5

\* A set of rounds that holds none at the start and gains none in a round is empty
\* (induction on the rounds, as an argument about the least one).
LEMMA NoneLeft ==
  ASSUME NEW N \in Nat, NEW S \in SUBSET (0..N), 0 \notin S, 
         \A k \in 1..N : k - 1 \notin S => k \notin S
  PROVE  S = {}
<1> SUFFICES ASSUME S # {} PROVE FALSE
  OBVIOUS
<1>1. S \subseteq Nat
  OBVIOUS
<1>2. PICK k \in S : \A m \in S : k <= m
  BY <1>1, LeastNumber
<1>3. k \in 1..N /\ k - 1 \in Nat /\ ~(k <= k - 1)
  OBVIOUS
<1> QED BY <1>2, <1>3

\* rb_probe's descent (rbtree.c:76-88) ends where its first step goes when the second
\* step goes nowhere.
LEMMA ProbeSettles ==
  ASSUME NEW t, NEW p, NEW fd, NEW q,
         ProbeStep(t, p, fd) = q, ProbeStep(t, q, fd) = q
  PROVE  rb_probe(t, p, fd) = q
<1> DEFINE N == Cardinality(Fds) + 1
           Round(y) == CHOOSE r \in {ProbeStep(t, x, fd) : x \in {y}} : TRUE
           Good(r) == r = [k \in 0..N |-> IF k = 0 THEN p ELSE Round(r[k - 1])]
           f == [k \in 0..N |-> IF k = 0 THEN p ELSE q]
<1>1. N \in Nat /\ N >= 1
  BY FdsCount
<1>2. rb_probe(t, p, fd) = (CHOOSE r : Good(r))[N]
  BY DEF rb_probe, Loop
<1>3. Round(p) = q /\ Round(q) = q
  <2>1. \A y : Round(y) = ProbeStep(t, y, fd)
    BY Zenon
  <2> QED BY <2>1
<1> HIDE DEF N, Round
<1>4. Good(f)
  <2>1. \A k \in 0..N : f[k] = IF k = 0 THEN p ELSE Round(f[k - 1])
    <3> SUFFICES ASSUME NEW k \in 0..N, k # 0 PROVE q = Round(f[k - 1])
      OBVIOUS
    <3>1. k - 1 \in 0..N
      BY <1>1
    <3>2. f[k - 1] = IF k - 1 = 0 THEN p ELSE q
      BY <3>1
    <3> QED BY <1>3, <3>2
  <2> QED BY <2>1
<1>5. \A r : Good(r) => r[N] = q
  <2> SUFFICES ASSUME NEW r, Good(r) PROVE r[N] = q
    OBVIOUS
  <2> DEFINE S == {k \in 1..N : r[k] # q}
  <2>1. \A k \in 0..N : r[k] = IF k = 0 THEN p ELSE Round(r[k - 1])
    OBVIOUS
  <2> HIDE DEF Good
  <2>2. \A k \in 1..N : k - 1 \notin S => k \notin S
    <3> SUFFICES ASSUME NEW k \in 1..N, k - 1 \notin S PROVE r[k] = q
      OBVIOUS
    <3>1. k - 1 \in 0..N /\ r[k] = Round(r[k - 1])
      BY <1>1, <2>1
    <3>2. CASE k = 1
      BY <1>1, <1>3, <2>1, <3>1, <3>2
    <3>3. CASE k # 1
      BY <1>1, <1>3, <3>1, <3>3
    <3> QED BY <3>2, <3>3
  <2>3. S \in SUBSET (0..N) /\ 0 \notin S
    BY <1>1
  <2> HIDE DEF S
  <2>4. S = {}
    BY <1>1, <2>2, <2>3, NoneLeft
  <2> USE DEF S
  <2> QED BY <1>1, <2>4
<1> HIDE DEF Good, f
<1>6. Good(CHOOSE r : Good(r))
  BY <1>4
<1> QED BY <1>2, <1>5, <1>6

\* At the root fix_delete (rbtree.c:139-186) only paints the node black.
LEMMA FixDeleteSettles ==
  ASSUME NEW t, NEW db
  PROVE  fix_delete(t, db, Nil) = IF db = Nil THEN t ELSE Paint(t, db, FALSE)
<1> DEFINE s == [t |-> t, db |-> db, parent |-> Nil, done |-> FALSE]
           N == Cardinality(Fds) + 1
           Round(y) == CHOOSE r \in {FixDeleteStep(x) : x \in {y}} : TRUE
           Good(r) == r = [k \in 0..N |-> IF k = 0 THEN s ELSE Round(r[k - 1])]
           f == [k \in 0..N |-> s]
           End(x) == IF x.done \/ x.db = Nil THEN x.t ELSE Paint(x.t, x.db, FALSE)
<1>1. N \in Nat
  BY FdsCount
<1>2. fix_delete(t, db, Nil) = End((CHOOSE r : Good(r))[N])
  BY DEF fix_delete, Loop
<1>3. Round(s) = s
  <2>1. FixDeleteStep(s) = s
    BY DEF FixDeleteStep
  <2>2. Round(s) = FixDeleteStep(s)
    BY Zenon
  <2> QED BY <2>1, <2>2
<1>4. End(s) = IF db = Nil THEN t ELSE Paint(t, db, FALSE)
  OBVIOUS
<1> HIDE DEF N, Round, s, End
<1>5. Good(f)
  <2>1. \A k \in 0..N : f[k] = IF k = 0 THEN s ELSE Round(f[k - 1])
    BY <1>1, <1>3
  <2> QED BY <2>1
<1>6. \A r : Good(r) => r[N] = s
  <2> SUFFICES ASSUME NEW r, Good(r) PROVE r[N] = s
    OBVIOUS
  <2> DEFINE S == {k \in 0..N : r[k] # s}
  <2>1. \A k \in 0..N : r[k] = IF k = 0 THEN s ELSE Round(r[k - 1])
    OBVIOUS
  <2> HIDE DEF Good
  <2>2. \A k \in 1..N : k - 1 \notin S => k \notin S
    BY <1>1, <1>3, <2>1
  <2>3. S \in SUBSET (0..N) /\ 0 \notin S
    BY <1>1, <2>1
  <2> HIDE DEF S
  <2>4. S = {}
    BY <1>1, <2>2, <2>3, NoneLeft
  <2> USE DEF S
  <2> QED BY <1>1, <2>4
<1> HIDE DEF Good, f
<1>7. Good(CHOOSE r : Good(r))
  BY <1>5
<1> QED BY <1>2, <1>4, <1>6, <1>7

\* rb_probe in an empty tree stays at the root's place.
LEMMA ProbeNoNode ==
  ASSUME NEW t \in Trees, NoNode(t), NEW fd \in Fds
  PROVE  rb_probe(t, RootPlace, fd) = RootPlace
<1>1. ProbeStep(t, RootPlace, fd) = RootPlace
  BY DEF ProbeStep, At, RootPlace, NoNode
<1> QED BY <1>1, ProbeSettles

\* rb_probe in a tree of one node ends at the root or at the side fd belongs to.
LEMMA ProbeOneNode ==
  ASSUME NEW t \in Trees, NEW r \in Fds, OneNode(t, r), NEW fd \in Fds
  PROVE  rb_probe(t, RootPlace, fd) =
             IF fd = r THEN RootPlace ELSE [at |-> r, dir |-> Side(fd, r)]
<1> DEFINE q == IF fd = r THEN RootPlace ELSE [at |-> r, dir |-> Side(fd, r)]
<1>1. r # Nil
  BY FdsAssumption DEF Nil
<1>2. ProbeStep(t, RootPlace, fd) = q
  BY <1>1 DEF ProbeStep, At, RootPlace, OneNode, Side
<1>3. ProbeStep(t, q, fd) = q
  BY <1>1, <1>2 DEF ProbeStep, At, RootPlace, OneNode, Side, Dirs
<1> QED BY <1>2, <1>3, ProbeSettles

\* rb_probe in a tree of two nodes ends at the one or at the other: there is no third
\* descriptor.
LEMMA ProbeTwoNodes ==
  ASSUME Cardinality(Fds) <= 2, NEW t \in Trees, NEW r \in Fds, NEW c \in Fds,
         TwoNodes(t, r, c), NEW fd \in Fds
  PROVE  rb_probe(t, RootPlace, fd) =
             IF fd = r THEN RootPlace ELSE [at |-> r, dir |-> Side(c, r)]
<1> DEFINE q == IF fd = r THEN RootPlace ELSE [at |-> r, dir |-> Side(c, r)]
<1>1. r # Nil /\ (fd = r \/ fd = c)
  BY FewFds, FdsAssumption DEF Nil, TwoNodes
<1>2. ProbeStep(t, RootPlace, fd) = q
  BY <1>1 DEF ProbeStep, At, RootPlace, TwoNodes, Side
<1>3. ProbeStep(t, q, fd) = q
  BY <1>1, <1>2 DEF ProbeStep, At, RootPlace, TwoNodes, Side, Dirs
<1> QED BY <1>2, <1>3, ProbeSettles

\* Tree w is t with the pointer at p set to n; with the parent of n set to p; with
\* node n painted; with n made a node; without what node n held.
WithPut(w, t, p, n) ==
    /\ w \in Trees /\ w.par = t.par /\ w.red = t.red
    /\ w.root = IF p.at = Nil THEN n ELSE t.root
    /\ \A m \in Fds, d \in Dirs :
          w.kid[m][d] = IF m = p.at /\ d = p.dir THEN n ELSE t.kid[m][d]
WithParent(w, t, n, p) ==
    /\ w \in Trees /\ w.root = t.root /\ w.kid = t.kid /\ w.red = t.red
    /\ w.par = [t.par EXCEPT ![n] = p]
WithPaint(w, t, n, b) ==
    /\ w \in Trees /\ w.root = t.root /\ w.kid = t.kid /\ w.par = t.par
    /\ w.red = [t.red EXCEPT ![n] = b]
WithLeaf(w, t, n, b) ==
    /\ w \in Trees /\ w.root = t.root
    /\ w.red = [t.red EXCEPT ![n] = b]
    /\ w.par \in {t.par, [t.par EXCEPT ![n] = Nil]}
    /\ \A m \in Fds, d \in Dirs : w.kid[m][d] = IF m = n THEN Nil ELSE t.kid[m][d]

\* What the assignments the tree operations are made of change: `*place = n`.
LEMMA PutIs ==
  ASSUME NEW t \in Trees, NEW p \in Places, NEW n \in Fds \cup {Nil}
  PROVE  WithPut(Put(t, p, n), t, p, n)
<1>1. p.at = Nil => p.at \notin Fds
  BY FdsAssumption DEF Nil
<1> QED BY <1>1 DEF Put, Trees, Places, WithPut

\* set_parent.
LEMMA ParentIs ==
  ASSUME NEW t \in Trees, NEW n \in Fds, NEW p \in Fds \cup {Nil}
  PROVE  WithParent(set_parent(t, n, p), t, n, p)
<1>1. n # Nil
  BY FdsAssumption DEF Nil
<1> QED BY <1>1 DEF set_parent, Trees, WithParent

\* set_red and set_black.
LEMMA PaintIs ==
  ASSUME NEW t \in Trees, NEW n \in Fds, NEW b \in BOOLEAN
  PROVE  WithPaint(Paint(t, n, b), t, n, b)
BY DEF Paint, Trees, WithPaint

\* make_rbnode.
LEMMA MadeIs ==
  ASSUME NEW t \in Trees, NEW n \in Fds
  PROVE  WithLeaf(make_rbnode(t, n), t, n, TRUE)
BY DEF make_rbnode, Trees, Dirs, WithLeaf

\* free of a node.
LEMMA ForgetIs ==
  ASSUME NEW t \in Trees, NEW n \in Fds
  PROVE  WithLeaf(Forget(t, n), t, n, FALSE)
<1> DEFINE u == [t EXCEPT !.kid[n] = EmptyTree.kid[n]]
           v == [u EXCEPT !.par[n] = Nil]
<1>1. EmptyTree.kid[n] = [d \in Dirs |-> Nil]
  BY DEF EmptyTree, Dirs
<1>2. /\ u \in Trees /\ u.root = t.root /\ u.par = t.par /\ u.red = t.red
      /\ \A m \in Fds, d \in Dirs : u.kid[m][d] = IF m = n THEN Nil ELSE t.kid[m][d]
  BY <1>1 DEF Trees
<1> HIDE DEF u
<1>3. /\ v \in Trees /\ v.root = u.root /\ v.kid = u.kid /\ v.red = u.red
      /\ v.par = [t.par EXCEPT ![n] = Nil]
  BY <1>2 DEF Trees
<1> HIDE DEF v
<1>4. Forget(t, n) = Paint(v, n, FALSE)
  BY DEF Forget, Paint, u, v
<1>5. WithPaint(Forget(t, n), v, n, FALSE)
  BY <1>3, <1>4, PaintIs
<1> QED BY <1>2, <1>3, <1>5 DEF WithPaint, WithLeaf

\* rb_insert of the first node, with iosvc_sched's second assignment to *place
\* (iosvc_sched.c:113-122): no parent, so no fixing up and no rotation.
LEMMA InsertFirst ==
  ASSUME NEW t \in Trees, NoNode(t), NEW fd \in Fds
  PROVE  /\ Put(rb_insert(t, RootPlace, fd), RootPlace, fd) \in Trees
         /\ OneNode(Put(rb_insert(t, RootPlace, fd), RootPlace, fd), fd)
<1> DEFINE m == make_rbnode(t, fd)
           v == Put(m, RootPlace, fd)
           u == set_parent(v, fd, Nil)
           x == Paint(u, fd, FALSE)
           w == Put(x, RootPlace, fd)
<1>1. fd # Nil /\ RootPlace \in Places /\ RootPlace.at = Nil /\ Nil \notin Fds
  BY FdsAssumption DEF Nil, RootPlace, Places, Dirs
<1>2. m \in Trees /\ WithLeaf(m, t, fd, TRUE)
  BY MadeIs DEF WithLeaf
<1>3. v \in Trees /\ WithPut(v, m, RootPlace, fd)
  <2> HIDE DEF m
  <2>1. WithPut(Put(m, RootPlace, fd), m, RootPlace, fd)
    BY <1>1, <1>2, PutIs
  <2> QED BY <2>1 DEF WithPut
<1>4. u \in Trees /\ WithParent(u, v, fd, Nil)
  <2> HIDE DEF v
  <2>1. WithParent(set_parent(v, fd, Nil), v, fd, Nil)
    BY <1>3, ParentIs
  <2> QED BY <2>1 DEF WithParent
<1>5. x \in Trees /\ WithPaint(x, u, fd, FALSE)
  <2> HIDE DEF u
  <2>1. WithPaint(Paint(u, fd, FALSE), u, fd, FALSE)
    BY <1>4, PaintIs
  <2> QED BY <2>1 DEF WithPaint
<1>7. rb_insert(t, RootPlace, fd) = x
  <2>1. u.root = fd
    BY <1>1, <1>3, <1>4 DEF WithPut, WithParent
  <2> QED BY <1>1, <2>1 DEF rb_insert, is_red, SetRootBlack
<1> HIDE DEF m, v, u, x
<1>6. w \in Trees /\ WithPut(w, x, RootPlace, fd)
  BY <1>1, <1>5, PutIs DEF WithPut
<1> HIDE DEF w
<1>8. \A n \in Fds, d \in Dirs : w.kid[n][d] = Nil
  BY <1>1, <1>2, <1>3, <1>4, <1>5, <1>6 DEF WithLeaf, WithPut, WithParent, WithPaint, NoNode
<1>9. w.root = fd /\ w.par[fd] = Nil /\ w.red[fd] = FALSE
  BY <1>1, <1>3, <1>4, <1>5, <1>6 DEF WithPut, WithParent, WithPaint, Trees
<1>10. OneNode(w, fd)
  BY <1>8, <1>9 DEF OneNode
<1> QED BY <1>6, <1>7, <1>10 DEF w

\* rb_insert of the second node: its parent is the black root, so there is no rotation
\* and the second assignment writes what is there.
LEMMA InsertSecond ==
  ASSUME NEW t \in Trees, NEW r \in Fds, OneNode(t, r), NEW fd \in Fds, fd # r,
         NEW p, p = [at |-> r, dir |-> Side(fd, r)]
  PROVE  /\ Put(rb_insert(t, p, fd), p, fd) \in Trees
         /\ TwoNodes(Put(rb_insert(t, p, fd), p, fd), r, fd)
<1> DEFINE m == make_rbnode(t, fd)
           v == Put(m, p, fd)
           u == set_parent(v, fd, r)
           x == Paint(u, r, FALSE)
           w == Put(x, p, fd)
<1>1. /\ r # Nil /\ Side(fd, r) \in Dirs /\ p \in Places
      /\ p.at = r /\ p.dir = Side(fd, r)
  BY FdsAssumption DEF Nil, Side, Dirs, Places
<1>2. m \in Trees /\ WithLeaf(m, t, fd, TRUE)
  BY MadeIs DEF WithLeaf
<1>3. v \in Trees /\ WithPut(v, m, p, fd)
  <2> HIDE DEF m
  <2>1. WithPut(Put(m, p, fd), m, p, fd)
    BY <1>1, <1>2, PutIs
  <2> QED BY <2>1 DEF WithPut
<1>4. u \in Trees /\ WithParent(u, v, fd, r)
  <2> HIDE DEF v
  <2>1. WithParent(set_parent(v, fd, r), v, fd, r)
    BY <1>3, ParentIs
  <2> QED BY <2>1 DEF WithParent
<1>5. x \in Trees /\ WithPaint(x, u, r, FALSE)
  <2> HIDE DEF u
  <2>1. WithPaint(Paint(u, r, FALSE), u, r, FALSE)
    BY <1>4, PaintIs
  <2> QED BY <2>1 DEF WithPaint
<1>7. rb_insert(t, p, fd) = x
  <2>1. u.root = r
    BY <1>1, <1>2, <1>3, <1>4 DEF WithPut, WithParent, WithLeaf, OneNode
  <2>2. ~is_red(t, r)
    BY DEF is_red, OneNode
  <2> QED BY <1>1, <2>1, <2>2 DEF rb_insert, SetRootBlack
<1> HIDE DEF m, v, u, x
<1>6. w \in Trees /\ WithPut(w, x, p, fd)
  BY <1>1, <1>5, PutIs DEF WithPut
<1> HIDE DEF w
<1>8. \A n \in Fds, d \in Dirs :
         w.kid[n][d] = IF n = r /\ d = Side(fd, r) THEN fd ELSE Nil
  BY <1>1, <1>2, <1>3, <1>4, <1>5, <1>6 DEF WithLeaf, WithPut, WithParent, WithPaint, OneNode
<1>9. w.root = r /\ w.par[r] = Nil /\ w.par[fd] = r
  BY <1>1, <1>2, <1>3, <1>4, <1>5, <1>6
     DEF WithLeaf, WithPut, WithParent, WithPaint, Trees, OneNode
<1>10. w.red[r] = FALSE /\ w.red[fd] = TRUE
  BY <1>2, <1>3, <1>4, <1>5, <1>6 DEF WithLeaf, WithPut, WithParent, WithPaint, Trees
<1>11. TwoNodes(w, r, fd)
  BY <1>1, <1>8, <1>9, <1>10 DEF TwoNodes
<1> QED BY <1>6, <1>7, <1>11 DEF w

\* rb_extract of the only node (rbtree.c:188-252).
LEMMA ExtractLast ==
  ASSUME NEW t \in Trees, NEW r \in Fds, OneNode(t, r), NEW p \in Places, At(t, p) = r
  PROVE  rb_extract(t, p) \in Trees /\ NoNode(rb_extract(t, p))
<1> DEFINE v == Put(t, p, Nil)
           w == Forget(v, r)
<1>1. p.at = Nil /\ r # Nil /\ t.kid[r][LEFT] = Nil /\ t.kid[r][RIGHT] = Nil
      /\ Nil \notin Fds
  <2>1. r # Nil /\ Nil \notin Fds /\ LEFT \in Dirs /\ RIGHT \in Dirs
    BY FdsAssumption DEF Nil, Dirs
  <2>2. \A n \in Fds, d \in Dirs : t.kid[n][d] = Nil
    BY DEF OneNode
  <2>3. p.at \in Fds \cup {Nil} /\ p.dir \in Dirs
    BY DEF Places
  <2> QED BY <2>1, <2>2, <2>3 DEF At
<1>2. v \in Trees /\ WithPut(v, t, p, Nil)
  BY PutIs DEF WithPut
<1>3. rb_extract(t, p) = w
  <2>1. OnlyChild(t, r) = Nil
    BY <1>1 DEF OnlyChild
  <2>2. ExtractAt(t, p, r) = Unlink(t, p, Nil, r, Nil)
    BY <1>1, <2>1 DEF ExtractAt
  <2>3. Unlink(t, p, Nil, r, Nil) = fix_delete(v, Nil, Nil)
    BY DEF Unlink, set_parent, is_red, OneNode
  <2>4. fix_delete(v, Nil, Nil) = v
    BY FixDeleteSettles
  <2> QED BY <2>2, <2>3, <2>4 DEF rb_extract
<1> HIDE DEF v
<1>4. w \in Trees /\ WithLeaf(w, v, r, FALSE)
  BY <1>2, ForgetIs DEF WithLeaf
<1> HIDE DEF w
<1>5. NoNode(w)
  BY <1>1, <1>2, <1>4 DEF WithPut, WithLeaf, NoNode, OneNode
<1> QED BY <1>3, <1>4, <1>5

\* rb_extract of the root with one child: the child takes its place and turns black.
LEMMA ExtractRoot ==
  ASSUME NEW t \in Trees, NEW r \in Fds, NEW c \in Fds, TwoNodes(t, r, c),
         NEW p \in Places, At(t, p) = r
  PROVE  rb_extract(t, p) \in Trees /\ OneNode(rb_extract(t, p), c)
<1> DEFINE v == Put(t, p, c)
           u == set_parent(v, c, Nil)
           x == Paint(u, c, FALSE)
           w == Forget(x, r)
<1>1. /\ p.at = Nil /\ r # Nil /\ c # Nil /\ Nil \notin Fds /\ r # c
      /\ Side(c, r) \in Dirs /\ LEFT \in Dirs /\ RIGHT \in Dirs /\ LEFT # RIGHT
  <2>1. /\ r # Nil /\ c # Nil /\ Nil \notin Fds /\ r # c
        /\ Side(c, r) \in Dirs /\ LEFT \in Dirs /\ RIGHT \in Dirs /\ LEFT # RIGHT
    BY FdsAssumption DEF Nil, TwoNodes, Dirs, Side, LEFT, RIGHT
  <2>2. \A n \in Fds, d \in Dirs : t.kid[n][d] # r
    BY <2>1 DEF TwoNodes
  <2>3. p.at \in Fds \cup {Nil} /\ p.dir \in Dirs
    BY DEF Places
  <2> QED BY <2>1, <2>2, <2>3 DEF At
<1>2. v \in Trees /\ WithPut(v, t, p, c)
  BY PutIs DEF WithPut
<1>3. u \in Trees /\ WithParent(u, v, c, Nil)
  <2> HIDE DEF v
  <2>1. WithParent(set_parent(v, c, Nil), v, c, Nil)
    BY <1>2, ParentIs
  <2> QED BY <2>1 DEF WithParent
<1>4. x \in Trees /\ WithPaint(x, u, c, FALSE)
  <2> HIDE DEF u
  <2>1. WithPaint(Paint(u, c, FALSE), u, c, FALSE)
    BY <1>3, PaintIs
  <2> QED BY <2>1 DEF WithPaint
<1>5. rb_extract(t, p) = w
  <2>1. /\ \/ t.kid[r][LEFT] = c /\ t.kid[r][RIGHT] = Nil
           \/ t.kid[r][LEFT] = Nil /\ t.kid[r][RIGHT] = c
        /\ OnlyChild(t, r) = c
    BY <1>1 DEF OnlyChild, TwoNodes, Side
  <2>2. ExtractAt(t, p, r) = Unlink(t, p, Nil, r, c)
    BY <1>1, <2>1 DEF ExtractAt
  <2>3. Unlink(t, p, Nil, r, c) = fix_delete(u, c, Nil)
    BY DEF Unlink, is_red, TwoNodes
  <2>4. fix_delete(u, c, Nil) = x
    BY <1>1, FixDeleteSettles
  <2> QED BY <2>2, <2>3, <2>4 DEF rb_extract
<1> HIDE DEF v, u, x
<1>6. w \in Trees /\ WithLeaf(w, x, r, FALSE)
  BY <1>4, ForgetIs DEF WithLeaf
<1> HIDE DEF w
<1>7. \A n \in Fds, d \in Dirs : w.kid[n][d] = Nil
  BY <1>1, <1>2, <1>3, <1>4, <1>6 DEF WithPut, WithParent, WithPaint, WithLeaf, TwoNodes
<1>8. w.root = c /\ w.par[c] = Nil /\ w.red[c] = FALSE
  BY <1>1, <1>2, <1>3, <1>4, <1>6 DEF WithPut, WithParent, WithPaint, WithLeaf, Trees
<1> QED BY <1>5, <1>6, <1>7, <1>8 DEF OneNode

\* rb_extract of the child, a red leaf.
LEMMA ExtractChild ==
  ASSUME NEW t \in Trees, NEW r \in Fds, NEW c \in Fds, TwoNodes(t, r, c),
         NEW p \in Places, At(t, p) = c
  PROVE  rb_extract(t, p) \in Trees /\ OneNode(rb_extract(t, p), r)
<1> DEFINE v == Put(t, p, Nil)
           w == Forget(v, c)
<1>1. /\ r # Nil /\ c # Nil /\ Nil \notin Fds /\ r # c
      /\ Side(c, r) \in Dirs /\ LEFT \in Dirs /\ RIGHT \in Dirs
  BY FdsAssumption DEF Nil, TwoNodes, Dirs, Side
<1>2. p.at = r /\ p.dir = Side(c, r)
  BY <1>1 DEF TwoNodes, At, Places
<1>3. v \in Trees /\ WithPut(v, t, p, Nil)
  BY PutIs DEF WithPut
<1>4. rb_extract(t, p) = w
  <2>1. t.kid[c][LEFT] = Nil /\ t.kid[c][RIGHT] = Nil
    BY <1>1 DEF TwoNodes
  <2>2. OnlyChild(t, c) = Nil
    BY <2>1 DEF OnlyChild
  <2>3. ExtractAt(t, p, c) = Unlink(t, p, r, c, Nil)
    BY <1>2, <2>1, <2>2 DEF ExtractAt
  <2>4. Unlink(t, p, r, c, Nil) = v
    BY <1>1 DEF Unlink, set_parent, is_red, TwoNodes
  <2> QED BY <2>3, <2>4 DEF rb_extract
<1> HIDE DEF v
<1>5. w \in Trees /\ WithLeaf(w, v, c, FALSE)
  BY <1>3, ForgetIs DEF WithLeaf
<1> HIDE DEF w
<1>6. \A n \in Fds, d \in Dirs : w.kid[n][d] = Nil
  BY <1>1, <1>2, <1>3, <1>5 DEF WithPut, WithLeaf, TwoNodes
<1>7. w.root = r /\ w.par[r] = Nil /\ w.red[r] = FALSE
  BY <1>1, <1>2, <1>3, <1>5 DEF WithPut, WithLeaf, TwoNodes, Trees
<1> QED BY <1>4, <1>5, <1>6, <1>7 DEF OneNode

\* Every small tree can be searched for every descriptor.
LEMMA SmallSearch ==
  ASSUME Cardinality(Fds) <= 2, NEW t, NEW keys, SmallTree(t, keys)
  PROVE  Searchable(t, keys)
<1> SUFFICES ASSUME NEW fd \in Fds
             PROVE  /\ rb_probe(t, RootPlace, fd) \in Places
                    /\ At(t, rb_probe(t, RootPlace, fd)) = IF fd \in keys THEN fd ELSE Nil
  BY DEF Searchable
<1>1. t \in Trees /\ RootPlace \in Places /\ RootPlace.at = Nil /\ Nil \notin Fds
  BY FdsAssumption DEF SmallTree, RootPlace, Places, Dirs, Nil
<1>2. CASE NoNode(t) /\ keys = {}
  BY <1>1, <1>2, ProbeNoNode DEF At, NoNode
<1>3. ASSUME NEW r \in Fds, OneNode(t, r), keys = {r}
      PROVE  /\ rb_probe(t, RootPlace, fd) \in Places
             /\ At(t, rb_probe(t, RootPlace, fd)) = IF fd \in keys THEN fd ELSE Nil
  <2>1. rb_probe(t, RootPlace, fd) =
            IF fd = r THEN RootPlace ELSE [at |-> r, dir |-> Side(fd, r)]
    BY <1>1, <1>3, ProbeOneNode
  <2>2. Side(fd, r) \in Dirs /\ r # Nil
    BY <1>1 DEF Side, Dirs
  <2> QED BY <1>1, <1>3, <2>1, <2>2 DEF At, OneNode, Places
<1>4. ASSUME NEW r \in Fds, NEW c \in Fds, TwoNodes(t, r, c), keys = {r, c}
      PROVE  /\ rb_probe(t, RootPlace, fd) \in Places
             /\ At(t, rb_probe(t, RootPlace, fd)) = IF fd \in keys THEN fd ELSE Nil
  <2>1. rb_probe(t, RootPlace, fd) =
            IF fd = r THEN RootPlace ELSE [at |-> r, dir |-> Side(c, r)]
    BY <1>1, <1>4, ProbeTwoNodes
  <2>2. Side(c, r) \in Dirs /\ r # Nil
    BY <1>1 DEF Side, Dirs
  <2>3. fd = r \/ fd = c
    BY <1>4, FewFds DEF TwoNodes
  <2> QED BY <1>1, <1>4, <2>1, <2>2, <2>3 DEF At, TwoNodes, Places
<1> QED BY <1>2, <1>3, <1>4 DEF SmallTree

\* The tree of an initialised service is a small one.
LEMMA NoNodes == SmallTree(EmptyTree, {})
BY DEF SmallTree, Trees, EmptyTree, NoNode, Dirs

\* Extraction keeps a tree small.
LEMMA SmallExtract ==
  ASSUME NEW t, NEW keys, SmallTree(t, keys), NEW p \in Places, At(t, p) \in keys
  PROVE  SmallTree(rb_extract(t, p), keys \ {At(t, p)})
<1>1. t \in Trees
  BY DEF SmallTree
<1>2. ASSUME NEW r \in Fds, OneNode(t, r), keys = {r}
      PROVE  SmallTree(rb_extract(t, p), keys \ {At(t, p)})
  <2>1. At(t, p) = r /\ keys \ {At(t, p)} = {}
    BY <1>2
  <2> QED BY <1>1, <1>2, <2>1, ExtractLast DEF SmallTree
<1>3. ASSUME NEW r \in Fds, NEW c \in Fds, TwoNodes(t, r, c), keys = {r, c}
      PROVE  SmallTree(rb_extract(t, p), keys \ {At(t, p)})
  <2>1. CASE At(t, p) = r
    <3>1. keys \ {At(t, p)} = {c}
      BY <1>3, <2>1 DEF TwoNodes
    <3> QED BY <1>1, <1>3, <2>1, <3>1, ExtractRoot DEF SmallTree
  <2>2. CASE At(t, p) = c
    <3>1. keys \ {At(t, p)} = {r}
      BY <1>3, <2>2 DEF TwoNodes
    <3> QED BY <1>1, <1>3, <2>2, <3>1, ExtractChild DEF SmallTree
  <2> QED BY <1>3, <2>1, <2>2
<1> QED BY <1>2, <1>3 DEF SmallTree

\* Insertion keeps a tree small, and every pointer to a node where it is.
LEMMA SmallInsert ==
  ASSUME Cardinality(Fds) <= 2, NEW t, NEW keys, SmallTree(t, keys),
         NEW fd \in Fds, fd \notin keys, NEW p, p = rb_probe(t, RootPlace, fd),
         NEW w, w = Put(rb_insert(t, p, fd), p, fd)
  PROVE  /\ SmallTree(w, keys \cup {fd})
         /\ \A q \in Places : At(t, q) \in keys => At(w, q) = At(t, q)
<1>1. t \in Trees /\ Nil \notin Fds
  BY FdsAssumption DEF SmallTree, Nil
<1>2. CASE NoNode(t) /\ keys = {}
  <2>1. p = RootPlace
    BY <1>1, <1>2, ProbeNoNode
  <2>2. w \in Trees /\ OneNode(w, fd)
    BY <1>1, <1>2, <2>1, InsertFirst
  <2> QED BY <1>2, <2>2 DEF SmallTree
<1>3. ASSUME NEW r \in Fds, OneNode(t, r), keys = {r}
      PROVE  /\ SmallTree(w, keys \cup {fd})
             /\ \A q \in Places : At(t, q) \in keys => At(w, q) = At(t, q)
  <2>1. p = [at |-> r, dir |-> Side(fd, r)] /\ fd # r
    BY <1>1, <1>3, ProbeOneNode
  <2>2. w \in Trees /\ TwoNodes(w, r, fd) /\ keys \cup {fd} = {r, fd}
    BY <1>1, <1>3, <2>1, InsertSecond
  <2>3. SmallTree(w, keys \cup {fd})
    BY <2>2 DEF SmallTree
  <2>4. ASSUME NEW q \in Places, At(t, q) \in keys PROVE At(w, q) = At(t, q)
    <3>1. q.at = Nil
      BY <1>1, <1>3, <2>4 DEF At, OneNode, Places
    <3> QED BY <1>3, <2>2, <3>1 DEF At, OneNode, TwoNodes
  <2> QED BY <2>3, <2>4
<1>4. ASSUME NEW r \in Fds, NEW c \in Fds, TwoNodes(t, r, c), keys = {r, c}
      PROVE  FALSE
  BY <1>4, FewFds DEF TwoNodes
<1> QED BY <1>2, <1>3, <1>4 DEF SmallTree

\* A small tree has the shape the walk relies on, and rb_ref_to_this (rbtree.c:62-74)
\* finds the pointer to each of its nodes.
LEMMA SmallShaped ==
  ASSUME NEW t, NEW keys, SmallTree(t, keys)
  PROVE  /\ Shaped(t, keys)
         /\ \A n \in keys : /\ rb_ref_to_this(t, n) \in Places
                             /\ At(t, rb_ref_to_this(t, n)) = n
<1>1. /\ t \in Trees /\ Nil \notin Fds /\ LEFT \in Dirs /\ RIGHT \in Dirs
      /\ RootPlace \in Places /\ RootPlace.at = Nil
  BY FdsAssumption DEF SmallTree, Nil, Dirs, RootPlace, Places
<1>2. CASE NoNode(t) /\ keys = {}
  BY <1>2 DEF NoNode, Shaped
<1>3. ASSUME NEW r \in Fds, OneNode(t, r), keys = {r}
      PROVE  /\ Shaped(t, keys)
             /\ \A n \in keys : /\ rb_ref_to_this(t, n) \in Places
                                 /\ At(t, rb_ref_to_this(t, n)) = n
  <2>1. t.root = r /\ t.par[r] = Nil /\ r # Nil
        /\ \A n \in Fds, d \in Dirs : t.kid[n][d] = Nil
    BY <1>1, <1>3 DEF OneNode
  <2>2. Shaped(t, keys)
    BY <1>3, <2>1 DEF Shaped
  <2>3. rb_ref_to_this(t, r) = RootPlace
    BY <2>1 DEF rb_ref_to_this
  <2> QED BY <1>1, <1>3, <2>1, <2>2, <2>3 DEF At
<1>4. ASSUME NEW r \in Fds, NEW c \in Fds, TwoNodes(t, r, c), keys = {r, c}
      PROVE  /\ Shaped(t, keys)
             /\ \A n \in keys : /\ rb_ref_to_this(t, n) \in Places
                                 /\ At(t, rb_ref_to_this(t, n)) = n
  <2> DEFINE e == Side(c, r)
  <2>1. /\ t.root = r /\ t.par[r] = Nil /\ t.par[c] = r /\ r # Nil /\ c # Nil /\ r # c
        /\ e \in Dirs /\ t.kid[r][e] = c
        /\ \A n \in Fds, d \in Dirs : n # r \/ d # e => t.kid[n][d] = Nil
    BY <1>1, <1>4 DEF TwoNodes, Side
  <2>2. e = RIGHT <=> t.kid[r][RIGHT] = c
    BY <1>1, <2>1
  <2>3. e = RIGHT \/ e = LEFT
    BY DEF Side
  <2> HIDE DEF e
  <2>4. Shaped(t, keys)
    <3>1. t.root \in keys \cup {Nil} /\ \A n \in keys, d \in Dirs : t.kid[n][d] \in {c, Nil}
      BY <1>4, <2>1
    <3>2. \A m, n \in keys, b, d \in Dirs :
             t.kid[m][b] = t.kid[n][d] /\ t.kid[m][b] # Nil => m = n /\ b = d
      BY <1>4, <2>1
    <3>3. ASSUME NEW X \in SUBSET keys, t.root \in X \cup {Nil},
                 \A n \in X, d \in Dirs : t.kid[n][d] \in X \cup {Nil}
          PROVE  X = keys
      <4>1. r \in X
        BY <2>1, <3>3
      <4>2. c \in X
        BY <2>1, <3>3, <4>1
      <4> QED BY <1>4, <4>1, <4>2
    <3> QED BY <1>4, <2>1, <3>1, <3>2, <3>3 DEF Shaped
  <2>5. rb_ref_to_this(t, r) = RootPlace
    BY <2>1 DEF rb_ref_to_this
  <2>6. rb_ref_to_this(t, c) = [at |-> r, dir |-> e]
    BY <2>1, <2>2, <2>3 DEF rb_ref_to_this
  <2>7. [at |-> r, dir |-> e] \in Places /\ At(t, [at |-> r, dir |-> e]) = c
    BY <2>1 DEF At, Places
  <2> QED BY <1>1, <1>4, <2>1, <2>4, <2>5, <2>6, <2>7 DEF At
<1> QED BY <1>2, <1>3, <1>4 DEF SmallTree

\* A small tree is sound.
LEMMA SmallSound ==
  ASSUME Cardinality(Fds) <= 2, SmallTree(svc.tree, NodesOf(svc))
  PROVE  TreeSound
<1>1. Searchable(svc.tree, NodesOf(svc))
  BY SmallSearch
<1>2. /\ Shaped(svc.tree, NodesOf(svc))
      /\ \A n \in NodesOf(svc) : /\ rb_ref_to_this(svc.tree, n) \in Places
                                  /\ At(svc.tree, rb_ref_to_this(svc.tree, n)) = n
  BY SmallShaped
<1>3. ASSUME NEW p \in Places, At(svc.tree, p) \in NodesOf(svc)
      PROVE  Searchable(rb_extract(svc.tree, p), NodesOf(svc) \ {At(svc.tree, p)})
  <2>1. SmallTree(rb_extract(svc.tree, p), NodesOf(svc) \ {At(svc.tree, p)})
    BY <1>3, SmallExtract
  <2> QED BY <2>1, SmallSearch
<1> QED BY <1>1, <1>2, <1>3 DEF TreeSound

\* The invariant of two descriptors.
SmallInv == SmallTree(svc.tree, NodesOf(svc))

\* A step that keeps the tree with its nodes.
KeepsNodes == svc'.tree = svc.tree /\ NodesOf(svc') = NodesOf(svc)

\* The places held across a handler lead to nodes, as long as the invariant holds.
LEMMA HeldLeadToNodes ==
  ASSUME Inv, NEW p \in HeldPlaces
  PROVE  p \in Places /\ At(svc.tree, p) \in NodesOf(svc)
<1>1. CASE pc = "event" /\ p = loc.place
  <2>1. loc.i \in InUse(svc) /\ p \in Places /\ At(svc.tree, p) = svc.pvec[loc.i].fd
    BY <1>1 DEF Inv, ScanInv, EntryOK, InEntry, Entry
  <2> QED BY <2>1 DEF NodesOf
<1>2. CASE \E k \in DOMAIN cancels : p = cancels[k]
  <2>1. cancels # <<>>
    BY <1>2
  <2>2. PICK q \in Places : cancels = <<q>> /\ At(svc.tree, q) \in NodesOf(svc)
    BY <2>1 DEF Inv, CancelInv
  <2> QED BY <1>2, <2>2
<1> QED BY <1>1, <1>2 DEF HeldPlaces

\* A step that leaves the tree and its nodes alone keeps it small and moves no place.
LEMMA SmallQuiet ==
  ASSUME SmallInv, KeepsNodes
  PROVE  SmallInv' /\ InsertKeepsPlaces
<1>1. SmallInv'
  BY DEF SmallInv, KeepsNodes
<1> QED BY <1>1 DEF KeepsNodes, InsertKeepsPlaces

\* iosvc_sched's storing of a handler, with a new node or in an old one.
LEMMA SmallEnqueue ==
  ASSUME Cardinality(Fds) <= 2, NEW s, SvcOK(s), VecOK(s), SmallTree(s.tree, NodesOf(s)),
         NEW fd \in Fds, NEW ty \in Types, NEW h \in Handlers,
         NEW s2, s2 = Enqueue(s, fd, ty, h)
  PROVE  /\ SmallTree(s2.tree, NodesOf(s2))
         /\ \A q \in Places : At(s.tree, q) \in NodesOf(s) => At(s2.tree, q) = At(s.tree, q)
<1> DEFINE p == rb_probe(s.tree, RootPlace, fd)
<1>1. Searchable(s.tree, NodesOf(s)) /\ fd # Nil
  BY SmallSearch, FdsAssumption DEF Nil
<1>2. NodesOf(s2) = NodesOf(s) \cup {fd}
  <2>1. Enqueued(s, s2, fd, ty, h)
    BY <1>1, EnqueueChanges
  <2> QED BY <2>1 DEF Enqueued
<1>3. s2.tree = IF At(s.tree, p) = Nil THEN Put(rb_insert(s.tree, p, fd), p, fd) ELSE s.tree
  BY DEF Enqueue, SvcOK
<1>4. At(s.tree, p) = IF fd \in NodesOf(s) THEN fd ELSE Nil
  BY <1>1 DEF Searchable
<1> HIDE DEF p
<1>5. CASE fd \in NodesOf(s)
  <2>1. s2.tree = s.tree /\ NodesOf(s2) = NodesOf(s)
    BY <1>1, <1>2, <1>3, <1>4, <1>5
  <2> QED BY <2>1
<1>6. CASE fd \notin NodesOf(s)
  <2>1. s2.tree = Put(rb_insert(s.tree, p, fd), p, fd)
    BY <1>3, <1>4, <1>6
  <2> QED BY <1>2, <1>6, <2>1, SmallInsert DEF p
<1> QED BY <1>5, <1>6

\* iosvc_cleanup_node.
LEMMA SmallCleanup ==
  ASSUME NEW s, SvcOK(s), VecOK(s), SmallTree(s.tree, NodesOf(s)),
         NEW p \in Places, At(s.tree, p) \in NodesOf(s), NEW s2, s2 = Cleanup(s, p)
  PROVE  SmallTree(s2.tree, NodesOf(s2))
<1>1. s2.tree = rb_extract(s.tree, p) /\ CleanedUp(s, s2, At(s.tree, p))
  BY CleanupChanges
<1>2. NodesOf(s2) = NodesOf(s) \ {At(s.tree, p)}
  BY <1>1 DEF CleanedUp
<1> QED BY <1>1, <1>2, SmallExtract

\* poll and what follows it in the same step leave the nodes as they are: a timed-out
\* handler's node is freed only when the handler has returned.
LEMMA PollNodes ==
  ASSUME Inv, NEW t \in 0..MaxTime, poll_expires(t) \/ poll_returns(t)
  PROVE  KeepsNodes
<1>1. pc = "loop" /\ cancels = <<>> /\ SvcOK(svc) /\ VecOK(svc)
  BY DEF poll_expires, poll_returns, Polls, Inv, CancelInv, TypeInv, VecInv
<1>2. Settled(svc)
  BY <1>1, AtRest
<1>3. PICK r : /\ \A k \in Slots : r[k] \in SUBSET Conditions
               /\ LET s == Polled(r)
                  IN  \/ svc' = s
                      \/ \E x \in Fronts(s.timers) : svc' = Dequeue(s, x.fd, x.ty)
  <2>1. CASE poll_expires(t)
    <3> DEFINE r == [k \in Slots |-> {}]
    <3>1. \A k \in Slots : r[k] \in SUBSET Conditions
      OBVIOUS
    <3> HIDE DEF r
    <3> QED BY <2>1, <3>1 DEF poll_expires, TimeoutEvent, TimeoutDelay, r
  <2>2. CASE poll_returns(t)
    <3>1. PICK r :
             /\ \A k \in Slots : IF k < svc.npoll THEN r[k] \in Reports(svc.pvec[k].events)
                                                  ELSE r[k] = {}
             /\ LET s == Polled(r)
                IN  \/ svc' = s
                    \/ \E x \in Fronts(s.timers) : svc' = Dequeue(s, x.fd, x.ty)
      BY <2>2 DEF poll_returns, Dispatch, TimeoutEvent, TimeoutDelay
    <3>2. \A k \in Slots : r[k] \in SUBSET Conditions
      <4> TAKE k \in Slots
      <4>1. svc.pvec[k].events \in SUBSET Types
        BY <1>1 DEF SvcOK, Pollfds
      <4> QED BY <3>1, <4>1, ReportsAsked
    <3> QED BY <3>1, <3>2
  <2> QED BY <2>1, <2>2
<1> DEFINE s == Polled(r)
<1>4. SvcOK(s) /\ VecOK(s) /\ Reported(svc, s, r)
  BY <1>1, <1>3, PolledChanges
<1>5. \/ svc' = s
      \/ \E x \in Fronts(s.timers) : svc' = Dequeue(s, x.fd, x.ty)
  BY <1>3
<1> HIDE DEF s
<1>6. s.tree = svc.tree /\ NodesOf(s) = NodesOf(svc) /\ Settled(s)
  BY <1>2, <1>4, ReportedKeeps DEF Reported
<1>7. CASE \E x \in Fronts(s.timers) : svc' = Dequeue(s, x.fd, x.ty)
  <2>1. PICK x \in s.timers : svc' = Dequeue(s, x.fd, x.ty)
    BY <1>7 DEF Fronts
  <2>2. x.fd \in Fds /\ x.ty \in Types /\ Scheduled(s, x.fd, x.ty)
    BY <1>4, <1>6 DEF SvcOK, TimerEntries, Settled, TimersOK
  <2>3. x.fd \in NodesOf(s)
    BY <1>6, <2>2 DEF Settled, VecOK, Scheduled, NoEvents
  <2>4. Dequeued(s, svc', x.fd, x.ty)
    BY <1>4, <2>1, <2>2, <2>3, DequeueChanges
  <2> QED BY <1>6, <2>4 DEF Dequeued, KeepsNodes
<1> QED BY <1>5, <1>6, <1>7 DEF KeepsNodes

\* The same tree and pollfd vector means the same nodes.
LEMMA SameVector ==
  ASSUME svc'.tree = svc.tree, svc'.pvec = svc.pvec, svc'.npoll = svc.npoll
  PROVE  KeepsNodes
BY DEF KeepsNodes, NodesOf, InUse

\* The client's calls.
LEMMA SmallClient ==
  ASSUME Cardinality(Fds) <= 2, Inv, Careful, SmallInv, Client
  PROVE  SmallInv' /\ InsertKeepsPlaces
<1>1. SvcOK(svc) /\ VecOK(svc) /\ TreeSound
  BY SmallSound DEF Inv, TypeInv, VecInv, SmallInv
<1>2. ASSUME NEW fd \in Fds, NEW ty \in Types, iosvc_sched(fd, ty)
      PROVE  SmallInv' /\ InsertKeepsPlaces
  <2>1. nh + 1 \in Handlers /\ svc' = Enqueue(svc, fd, ty, nh + 1)
    <3>1. nh < MaxHandlers /\ svc' = Enqueue(svc, fd, ty, nh + 1)
      BY <1>1, <1>2, SearchEnds DEF iosvc_sched, Accepted
    <3> QED BY <3>1, HandlersAccepted DEF Inv, TypeInv
  <2> QED BY <1>1, <2>1, SmallEnqueue, HeldLeadToNodes DEF SmallInv, InsertKeepsPlaces
<1>3. ASSUME NEW fd \in Fds, NEW ty \in Types, NEW ms \in Delays,
             iosvc_sched_timeout(fd, ty, ms)
      PROVE  SmallInv' /\ InsertKeepsPlaces
  <2> DEFINE s1 == Emplace(svc)
             s2 == Enqueue(s1, fd, ty, nh + 1)
  <2>1. nh + 1 \in Handlers /\ \E T : svc' = [s2 EXCEPT !.timers = T]
    <3>1. nh < MaxHandlers /\ \E T : svc' = [s2 EXCEPT !.timers = T]
      BY <1>1, <1>3, SearchEnds DEF iosvc_sched_timeout, Accepted
    <3> QED BY <3>1, HandlersAccepted DEF Inv, TypeInv
  <2>2. SvcOK(s1) /\ SameWaits(svc, s1)
    BY <1>1, EmplaceChanges
  <2> HIDE DEF s1
  <2>3. VecOK(s1) /\ NodesOf(s1) = NodesOf(svc) /\ s1.tree = svc.tree
    BY <1>1, <2>2, SameWaitsKeep DEF SameWaits
  <2>4. /\ SvcOK(s2)
        /\ SmallTree(s2.tree, NodesOf(s2))
        /\ \A q \in Places : At(svc.tree, q) \in NodesOf(svc) => At(s2.tree, q) = At(svc.tree, q)
    <3>1. SmallTree(s1.tree, NodesOf(s1))
      BY <2>3 DEF SmallInv
    <3>2. Searchable(s1.tree, NodesOf(s1))
      BY <3>1, SmallSearch
    <3>3. SvcOK(s2)
      BY <2>1, <2>2, <2>3, <3>2, EnqueueChanges
    <3> QED BY <2>1, <2>2, <2>3, <3>1, <3>3, SmallEnqueue
  <2> HIDE DEF s2
  <2>5. svc'.tree = s2.tree /\ NodesOf(svc') = NodesOf(s2)
    BY <2>1, <2>4 DEF SvcOK, NodesOf, InUse
  <2> QED BY <2>4, <2>5, HeldLeadToNodes DEF SmallInv, InsertKeepsPlaces
<1>4. ASSUME NEW fd \in Fds, NEW ty \in Types, iosvc_cancel(fd, ty)
      PROVE  SmallInv' /\ InsertKeepsPlaces
  <2>1. svc' = Dequeue(svc, fd, ty) /\ Scheduled(svc, fd, ty)
    BY <1>1, <1>4, SearchEnds DEF iosvc_cancel
  <2>2. fd \in NodesOf(svc)
    BY <1>1, <2>1 DEF VecOK, Scheduled, NoEvents
  <2>3. Dequeued(svc, svc', fd, ty)
    BY <1>1, <2>1, <2>2, DequeueChanges
  <2> QED BY <2>3, SmallQuiet DEF Dequeued, KeepsNodes
<1>5. CASE iosvc_post \/ (\E ms \in Delays : iosvc_post_delay(ms))
            \/ iosvc_stop \/ iosvc_reset \/ iosvc_run \/ Tick
  <2>1. svc'.tree = svc.tree /\ svc'.pvec = svc.pvec /\ svc'.npoll = svc.npoll
    BY <1>1, <1>5 DEF iosvc_post, iosvc_post_delay, Accepted, iosvc_stop, iosvc_reset,
         iosvc_run, SetStatus, Tick, SvcOK
  <2> QED BY <2>1, SameVector, SmallQuiet
<1>6. CASE sched_timeout_refused
  <2>1. SameWaits(svc, svc')
    BY <1>1, <1>6, EmplaceChanges DEF sched_timeout_refused
  <2> QED BY <2>1, SameVector, SmallQuiet DEF SameWaits
<1> QED BY <1>2, <1>3, <1>4, <1>5, <1>6 DEF Client

\* The returns of handlers, with the freeing of nodes that follows them.
LEMMA SmallReturns ==
  ASSUME Cardinality(Fds) <= 2, Inv, SmallInv, Returns
  PROVE  SmallInv' /\ InsertKeepsPlaces
<1>1. SvcOK(svc) /\ VecOK(svc) /\ TreeSound
  BY SmallSound DEF Inv, TypeInv, VecInv, SmallInv
<1>2. CASE cancel_return
  <2>1. cancels # <<>> /\ nh' = nh
    BY <1>2 DEF cancel_return, Crash
  <2>2. PICK p \in Places : cancels = <<p>> /\ At(svc.tree, p) \in NodesOf(svc)
    BY <2>1 DEF Inv, CancelInv
  <2>3. svc' = svc \/ svc' = Cleanup(svc, p)
    <3>1. Head(cancels) = p
      BY <2>2
    <3> QED BY <1>2, <3>1 DEF cancel_return, Crash
  <2>4. SmallInv'
    BY <1>1, <2>2, <2>3, SmallCleanup DEF SmallInv
  <2> QED BY <2>1, <2>4 DEF InsertKeepsPlaces
<1>3. CASE timeout_return
  <2> DEFINE p == rb_ref_to_this(svc.tree, loc.node)
  <2>1. pc = "timeout" /\ nh' = nh /\ (svc' = svc \/ svc' = Cleanup(svc, p))
    BY <1>3 DEF timeout_return, Crash
  <2>2. p \in Places /\ At(svc.tree, p) \in NodesOf(svc)
    BY <1>1, <2>1 DEF Inv, ScanInv, TreeSound
  <2> HIDE DEF p
  <2>3. SmallInv'
    BY <1>1, <2>1, <2>2, SmallCleanup DEF SmallInv
  <2> QED BY <2>1, <2>3 DEF InsertKeepsPlaces
<1>4. CASE sync_return \/ delay_return \/ event_return
  <2>1. svc'.tree = svc.tree /\ svc'.pvec = svc.pvec /\ svc'.npoll = svc.npoll
    BY <1>1, <1>4 DEF sync_return, delay_return, event_return, SvcOK
  <2> QED BY <2>1, SameVector, SmallQuiet
<1> QED BY <1>2, <1>3, <1>4 DEF Returns

\* dispatch_ready_events.
LEMMA SmallDispatching ==
  ASSUME Cardinality(Fds) <= 2, Inv, SmallInv, Dispatching
  PROVE  SmallInv' /\ InsertKeepsPlaces
<1>1. SvcOK(svc) /\ VecOK(svc) /\ TreeSound
  BY SmallSound DEF Inv, TypeInv, VecInv, SmallInv
<1>2. CASE call_event
  <2> DEFINE n == At(svc.tree, loc.place)
             ty == Head(loc.todo)
  <2>1. /\ pc = "entry"
        /\ svc' = svc \/ (svc' = Dequeue(svc, n, ty) /\ Scheduled(svc, n, ty))
    BY <1>2 DEF call_event, Crash
  <2>2. n \in NodesOf(svc) /\ n \in Fds
    BY <1>1, <2>1, NodesInFds DEF Inv, ScanInv, EntryOK, InEntry, Entry
  <2> HIDE DEF n, ty
  <2>3. svc'.tree = svc.tree /\ svc'.npoll = svc.npoll
        /\ \A k \in InUse(svc) : svc'.pvec[k].fd = svc.pvec[k].fd
    <3>1. CASE svc' = svc
      BY <3>1
    <3>2. CASE svc' = Dequeue(svc, n, ty)
      <4> DEFINE k0 == svc.idx[n]
                 e2 == [svc.pvec[k0] EXCEPT !.events = @ \ {ty}]
      <4>1. k0 \in InUse(svc) /\ k0 \in Slots
        BY <1>1, <2>2, NodeSlot
      <4>2. svc.pvec \in [Slots -> Pollfds] /\ svc.pvec[k0] \in Pollfds
        BY <1>1, <4>1 DEF SvcOK
      <4>3. e2.fd = svc.pvec[k0].fd
        BY <4>2 DEF Pollfds
      <4>4. svc' = [svc EXCEPT !.evts[n][ty] = NULL, !.timers = @ \ TimerOf(svc, n, ty),
                               !.pvec[k0] = e2]
        BY <1>1, <3>2 DEF Dequeue, SvcOK
      <4> HIDE DEF k0, e2
      <4>5. /\ svc'.tree = svc.tree /\ svc'.npoll = svc.npoll
            /\ svc'.pvec = [svc.pvec EXCEPT ![k0] = e2]
        BY <1>1, <4>4 DEF SvcOK
      <4>6. InUse(svc) \subseteq Slots
        BY <1>1, FdsCount DEF InUse, SvcOK, Slots
      <4> QED BY <4>1, <4>2, <4>3, <4>5, <4>6
    <3> QED BY <2>1, <3>1, <3>2
  <2>4. NodesOf(svc') = NodesOf(svc)
    BY <2>3 DEF NodesOf, InUse
  <2> QED BY <2>3, <2>4, SmallQuiet DEF KeepsNodes
<1>3. CASE entry_done
  <2> DEFINE s == IF loc.nval THEN [svc EXCEPT !.pvec[loc.i].revents = {}] ELSE svc
  <2>1. /\ pc = "entry" /\ nh' = nh
        /\ svc' = svc \/ svc' = s \/ svc' = Cleanup(s, loc.place)
    BY <1>3 DEF entry_done, Crash
  <2>2. loc.i \in InUse(svc) /\ loc.place \in Places /\ At(svc.tree, loc.place) = svc.pvec[loc.i].fd
    BY <2>1 DEF Inv, ScanInv, EntryOK, InEntry, Entry
  <2>3. At(svc.tree, loc.place) \in NodesOf(svc)
    BY <2>2 DEF NodesOf
  <2>4. SvcOK(s) /\ VecOK(s) /\ s.tree = svc.tree /\ NodesOf(s) = NodesOf(svc)
    <3>1. CASE loc.nval
      BY <1>1, <2>2, <3>1, ClearedChanges DEF Reported
    <3> QED BY <1>1, <3>1
  <2> HIDE DEF s
  <2>5. SmallInv'
    BY <1>1, <2>1, <2>2, <2>3, <2>4, SmallCleanup DEF SmallInv
  <2> QED BY <2>1, <2>5 DEF InsertKeepsPlaces
<1>4. CASE call_sync \/ finish \/ scan_end \/ scan_entry \/ skip_event
  <2>1. svc'.tree = svc.tree /\ svc'.pvec = svc.pvec /\ svc'.npoll = svc.npoll
    BY <1>1, <1>4 DEF call_sync, finish, scan_end, scan_entry, skip_event, Crash, SvcOK
  <2> QED BY <2>1, SameVector, SmallQuiet
<1> QED BY <1>2, <1>3, <1>4 DEF Dispatching

\* The shutdown.
LEMMA SmallStopping ==
  ASSUME Inv, SmallInv, Stopping
  PROVE  SmallInv' /\ InsertKeepsPlaces
<1>1. SvcOK(svc)
  BY DEF Inv, TypeInv
<1>2. CASE end_walk
  <2>1. svc'.tree = EmptyTree /\ svc'.npoll = 0 /\ nh' = nh
    BY <1>1, <1>2 DEF end_walk, SvcOK
  <2>2. NodesOf(svc') = {}
    BY <2>1 DEF NodesOf, InUse
  <2> QED BY <2>1, <2>2, NoNodes DEF SmallInv, InsertKeepsPlaces
<1>3. CASE \/ prep_stop \/ stop_next_delay \/ start_walk \/ stop_next_event
           \/ walk_children \/ walk_free \/ stop_return
  <2>1. svc'.tree = svc.tree /\ svc'.pvec = svc.pvec /\ svc'.npoll = svc.npoll
    BY <1>1, <1>3 DEF prep_stop, stop_next_delay, start_walk, stop_next_event,
         walk_children, walk_free, stop_return, Crash, SvcOK
  <2> QED BY <2>1, SameVector, SmallQuiet
<1> QED BY <1>2, <1>3 DEF Stopping

\* Every step.
LEMMA SmallNext ==
  ASSUME Cardinality(Fds) <= 2, Inv, Careful, SmallInv, [Next]_vars
  PROVE  SmallInv' /\ InsertKeepsPlaces
<1>1. SvcOK(svc)
  BY DEF Inv, TypeInv
<1>2. CASE UNCHANGED vars \/ Done \/ poll_fails
  <2>1. svc'.tree = svc.tree /\ svc'.pvec = svc.pvec /\ svc'.npoll = svc.npoll
    BY <1>1, <1>2 DEF vars, Done, poll_fails, SvcOK
  <2> QED BY <2>1, SameVector, SmallQuiet
<1>3. CASE \E t \in 0..MaxTime : poll_expires(t) \/ poll_returns(t)
  BY <1>3, PollNodes, SmallQuiet
<1> QED BY <1>2, <1>3, SmallClient, SmallReturns, SmallDispatching, SmallStopping DEF Next, Poll

-----------------------------------------------------------------------------
(* The results.                                                            *)

\* With two descriptors every search of the tree finds what was scheduled, each
\* walk meets each node once, and no insertion moves a pointer that the loop or
\* iosvc_cancel holds across a handler: neither the second write of *place
\* (iosvc_sched.c:113-122) nor rb_extract's case of two children
\* (rbtree.c:192-240) can happen.
THEOREM TwoAreSound ==
  ASSUME Careful, Cardinality(Fds) <= 2
  PROVE  Spec => SoundSpec
<1>1. Init => Inv /\ SmallInv
  <2> SUFFICES ASSUME Init PROVE SmallInv
    BY InitInv
  <2>1. svc.tree = EmptyTree /\ svc.npoll = 0
    BY DEF Init
  <2>2. NodesOf(svc) = {}
    BY <2>1 DEF NodesOf, InUse
  <2> QED BY <2>1, <2>2, NoNodes DEF SmallInv
<1>2. Inv /\ SmallInv /\ [Next]_vars =>
        Inv' /\ SmallInv' /\ TreeSound /\ [InsertKeepsPlaces]_vars
  <2> SUFFICES ASSUME Inv, SmallInv, [Next]_vars
               PROVE  Inv' /\ SmallInv' /\ TreeSound /\ [InsertKeepsPlaces]_vars
    OBVIOUS
  <2>1. SmallInv' /\ InsertKeepsPlaces
    BY SmallNext
  <2>2. TreeSound
    BY SmallSound DEF SmallInv
  <2> QED BY <2>1, <2>2, NextKeeps
<1>3. SmallInv => TreeSound
  BY SmallSound DEF SmallInv
<1> QED BY <1>1, <1>2, <1>3, PTL DEF Spec, SoundSpec, PlacesStay

\* With two descriptors, what the loop and iosvc_cancel looked up before a
\* callback is still good after it, whatever the handlers of a careful client
\* schedule and post; the one exception is a hang-up, reported unasked, of a
\* descriptor on which no read is scheduled (io_service.c:210-219, 245-295,
\* iosvc_cancel.c:23-32).
THEOREM HangupsOnly ==
  ASSUME Careful, Cardinality(Fds) <= 2
  PROVE  Spec => []OnlyHangupsCrash
<1>1. Inv => OnlyHangupsCrash
  BY DEF Inv, ScanInv
<1> QED BY <1>1, TwoAreSound, InvHolds, PTL

\* ... so with two descriptors and no hang-ups a careful client never makes the
\* loop follow a NULL or freed pointer or call a handler that is not there, and
\* every search of the tree ends.
THEOREM NeverCrashes ==
  ASSUME Careful, Cardinality(Fds) <= 2, "HUP" \notin Faults
  PROVE  Spec => []NoCrash
<1>1. Inv => NoCrash
  BY InvNoCrash
<1> QED BY <1>1, TwoAreSound, InvHolds, PTL

\* With two descriptors no accepted handler of a careful client is called a
\* second time: not the posted one at the front of the buffer and not the
\* delayed one at the front of its heap, which are called before they are
\* removed, and not one that stop_async_ops has called and whose node it has
\* not freed (io_service.c:80-100, 226-232).
THEOREM CalledOnce ==
  ASSUME Careful, Cardinality(Fds) <= 2
  PROVE  Spec => []CalledAtMostOnce
<1>1. CallsInv => CalledAtMostOnce
  BY DEF CallsInv, CalledAtMostOnce
<1> QED BY <1>1, TwoAreSound, CallsInvHolds, PTL

\* With two descriptors the event loop implements the contract with a careful
\* client: every step of it is a step of ServiceContract or changes nothing that
\* the client sees.  No handler is lost with its node or its heap entry, and
\* iosvc_run returns only when none is left (io_service.c:308-354).
THEOREM ContractKept ==
  ASSUME Careful, Cardinality(Fds) <= 2
  PROVE  Spec => KeepsContract
<1>1. Init => Contract!Init
  BY InitCalls
<1>2. Inv /\ TreeSound /\ CallsInv /\ [Next]_vars => [Contract!Next]_(Contract!scVars)
  BY NextCalls DEF ContractStep
<1> QED BY <1>1, <1>2, TwoAreSound, InvHolds, CallsInvHolds, PTL
           DEF SoundSpec, Spec, KeepsContract, Contract!Spec
=============================================================================
