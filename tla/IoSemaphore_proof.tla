-------------------------- MODULE IoSemaphore_proof --------------------------
(***************************************************************************)
(* Proofs about IoSemaphore for any set of handlers, any initial values    *)
(* and any number of signals: every handler is in one place, no unit is    *)
(* invented or lost, and the list with its count implements a counting     *)
(* semaphore.                                                              *)
(***************************************************************************)
EXTENDS IoSemaphore, FiniteSetTheorems, TLAPS

-----------------------------------------------------------------------------
(* The list.                                                               *)

\* What is on a list; a list without repetitions.
Elements(s)  == {s[k] : k \in DOMAIN s}
NoRepeats(s) == \A j, k \in DOMAIN s : s[j] = s[k] => j = k

\* A node put before a list of others.
LEMMA PushOne ==
  ASSUME NEW S, NEW s \in Seq(S), NEW h \in S, h \notin Elements(s), NoRepeats(s)
  PROVE  /\ <<h>> \o s \in Seq(S)
         /\ NoRepeats(<<h>> \o s)
         /\ Elements(<<h>> \o s) = Elements(s) \cup {h}
<1> DEFINE t == <<h>> \o s
<1>1. t \in Seq(S) /\ Len(t) = Len(s) + 1 /\ DOMAIN t = 1..(Len(s) + 1)
  OBVIOUS
<1>2. t[1] = h /\ \A k \in 1..Len(s) : t[k + 1] = s[k]
  OBVIOUS
<1>3. \A k \in 2..(Len(s) + 1) : t[k] = s[k - 1] /\ k - 1 \in DOMAIN s
  BY <1>2
<1> HIDE DEF t
<1>4. NoRepeats(t)
  BY <1>1, <1>2, <1>3, SMTT(30) DEF NoRepeats, Elements
<1>5. Elements(t) = Elements(s) \cup {h}
  <2>1. ASSUME NEW k \in DOMAIN t PROVE t[k] \in Elements(s) \cup {h}
    <3>1. CASE k = 1
      BY <1>2, <3>1
    <3>2. CASE k \in 2..(Len(s) + 1)
      BY <1>3, <3>2 DEF Elements
    <3> QED BY <1>1, <3>1, <3>2
  <2>2. h \in Elements(t)
    BY <1>1, <1>2 DEF Elements
  <2>3. ASSUME NEW k \in DOMAIN s PROVE s[k] \in Elements(t)
    <3>1. k \in 1..Len(s) /\ k + 1 \in DOMAIN t
      BY <1>1
    <3> QED BY <1>2, <3>1 DEF Elements
  <2> QED BY <2>1, <2>2, <2>3 DEF Elements
<1> QED BY <1>1, <1>4, <1>5 DEF t

\* The first node taken off a list.
LEMMA TakeOne ==
  ASSUME NEW S, NEW s \in Seq(S), s # << >>, NoRepeats(s)
  PROVE  /\ Tail(s) \in Seq(S)
         /\ Head(s) \in S
         /\ Head(s) \in Elements(s)
         /\ NoRepeats(Tail(s))
         /\ Elements(Tail(s)) = Elements(s) \ {Head(s)}
<1> DEFINE t == Tail(s)
<1>1. /\ t \in Seq(S) /\ Len(t) = Len(s) - 1 /\ DOMAIN t = 1..(Len(s) - 1)
      /\ Len(s) \in Nat /\ Len(s) > 0 /\ DOMAIN s = 1..Len(s)
  OBVIOUS
<1>2. Head(s) = s[1] /\ s[1] \in S
  BY <1>1
<1>3. \A k \in DOMAIN t : t[k] = s[k + 1] /\ k + 1 \in DOMAIN s
  BY <1>1
<1> HIDE DEF t
<1>4. NoRepeats(t)
  BY <1>1, <1>3 DEF NoRepeats
<1>5. Elements(t) = Elements(s) \ {s[1]}
  <2>1. ASSUME NEW k \in DOMAIN t PROVE t[k] \in Elements(s) \ {s[1]}
    <3>1. t[k] = s[k + 1] /\ k + 1 \in DOMAIN s /\ 1 \in DOMAIN s /\ k + 1 # 1
      BY <1>1, <1>3
    <3> QED BY <3>1 DEF Elements, NoRepeats
  <2>2. ASSUME NEW k \in DOMAIN s, s[k] # s[1] PROVE s[k] \in Elements(t)
    <3>1. k # 1 /\ k - 1 \in DOMAIN t
      BY <1>1, <2>2
    <3>2. t[k - 1] = s[(k - 1) + 1]
      BY <1>3, <3>1
    <3>3. t[k - 1] = s[k]
      BY <1>1, <3>2
    <3> QED BY <3>1, <3>3 DEF Elements
  <2> QED BY <2>1, <2>2 DEF Elements
<1>6. s[1] \in Elements(s)
  BY <1>1 DEF Elements
<1> QED BY <1>1, <1>2, <1>4, <1>5, <1>6 DEF t

-----------------------------------------------------------------------------
(* Counting.                                                               *)

\* What UnitsConserved says of the handlers that were given a unit, and of those
\* on the list: no more are given than there are units, and while a handler is on
\* the list no fewer.
LEMMA GivenBounds ==
  ASSUME NEW given, NEW list, NEW u \in Int,
         IsFiniteSet(given \cup list), given \cap list = {}
  PROVE  LET due == IF u > 0 THEN u ELSE 0
         IN  /\ IsFiniteSet(given) /\ Cardinality(given) \in Nat
             /\ Cardinality(given) = Lesser(due, Cardinality(given \cup list))
                  <=> /\ Cardinality(given) <= due
                      /\ list # {} => Cardinality(given) = due
<1>1. IsFiniteSet(given) /\ IsFiniteSet(list)
  BY FS_Subset
<1>2. Cardinality(given) \in Nat /\ Cardinality(list) \in Nat
  BY <1>1, FS_CardinalityType
<1>3. Cardinality(given \cap list) = 0
  BY FS_EmptySet
<1>4. Cardinality(given \cup list) = Cardinality(given) + Cardinality(list)
  BY <1>1, <1>2, <1>3, FS_Union
<1>5. Cardinality(list) = 0 <=> list = {}
  BY <1>1, FS_EmptySet
<1> QED BY <1>1, <1>2, <1>4, <1>5 DEF Lesser

\* The units that waiting handlers can be given; the handlers that were given one.
Due  == IF units > 0 THEN units ELSE 0
Held == waiting \cup called \cup dropped

\* The same of a state of the semaphore.
LEMMA UnitsBounded ==
  ASSUME SemaphoreInv
  PROVE  /\ IsFiniteSet(Given) /\ Cardinality(Given) \in Nat
         /\ Given \cap InList = {}
         /\ sem_val = units - Cardinality(Given)
         /\ life = "live" => /\ Given = Held
                             /\ Cardinality(Given) <= Due
                             /\ InList # {} => Cardinality(Given) = Due
<1>1. Given \cap InList = {} /\ units \in Int
  BY DEF SemaphoreInv, InOnePlace, TypeOK, Given
<1>2. IsFiniteSet(Given \cup InList) /\ IsFiniteSet(Given)
  BY FS_Subset DEF SemaphoreInv, Asked
<1>3. Cardinality(Given) \in Nat
  BY <1>2, FS_CardinalityType
<1>4. ASSUME life = "live"
      PROVE  /\ Given = Held
             /\ Cardinality(Given) <= Due
             /\ InList # {} => Cardinality(Given) = Due
  <2>1. released = {}
    BY <1>4 DEF SemaphoreInv, TypeOK
  <2>2. Given = Held /\ Asked = Given \cup InList
    BY <2>1 DEF Given, Held, Asked
  <2>3. Cardinality(Given) = Lesser(Due, Cardinality(Given \cup InList))
    BY <1>4, <2>2 DEF SemaphoreInv, UnitsConserved, Due
  <2> QED BY <1>1, <1>2, <2>2, <2>3, GivenBounds DEF Due
<1> QED BY <1>1, <1>2, <1>3, <1>4 DEF SemaphoreInv, UnitsConserved

\* The converse, for the state after a step.
LEMMA UnitsConservedAfter ==
  ASSUME TypeOK', InOnePlace', IsFiniteSet(Asked)',
         sem_val' = units' - Cardinality(Given)',
         life' = "live" => /\ Cardinality(Given)' <= Due'
                           /\ InList' # {} => Cardinality(Given)' = Due'
  PROVE  SemaphoreInv'
<1>1. Given' \cap InList' = {} /\ units' \in Int
  BY DEF InOnePlace, TypeOK, Given
<1>2. IsFiniteSet(Given' \cup InList')
  BY FS_Subset DEF Asked
<1>3. ASSUME life' = "live"
      PROVE  Cardinality(Given)' = Lesser(Due', Cardinality(Asked)')
  <2>1. Asked' = Given' \cup InList'
    BY <1>3 DEF Given, Asked, TypeOK
  <2>2. Cardinality(Given') = Lesser(Due', Cardinality(Given' \cup InList'))
    BY <1>1, <1>2, <1>3, GivenBounds DEF Due
  <2> QED BY <2>1, <2>2
<1> QED BY <1>3 DEF SemaphoreInv, UnitsConserved, Lesser, Due

-----------------------------------------------------------------------------
(* Posting.                                                                *)

\* A handler that is posted is taken by the service or dropped, never both.
LEMMA PostTakes ==
  ASSUME SemaphoreInv, NEW h \in Handlers, h \notin Held, Post(h)
  PROVE  /\ Held' = Held \cup {h}
         /\ status' = status
         /\ dropped' \cap (waiting' \cup called') = {}
         /\ NullHandlers \cap (waiting' \cup called') = {}
<1> USE DEF SemaphoreInv, InOnePlace, Held
<1>1. CASE h \notin NullHandlers /\ Svc!Accept(h) /\ UNCHANGED dropped
  BY <1>1 DEF Svc!Accept
<1>2. CASE dropped' = dropped \cup {h} /\ UNCHANGED svcVars
  BY <1>2 DEF svcVars
<1> QED BY <1>1, <1>2 DEF Post

-----------------------------------------------------------------------------
(* What each step does to the handlers given a unit and to those waiting.  *)

\* The handlers on the list.
LEMMA ListIsElements ==
  InList = Elements(handler_list) /\ InList' = Elements(handler_list')
BY DEF InList, Elements

\* iosem_wait with a unit there (io_semaphore.c:42-45).
LEMMA WaitTakesUnit ==
  ASSUME SemaphoreInv, NEW h \in Handlers, iosem_wait(h), HasUnit
  PROVE  /\ SemaphoreInv'
         /\ Cardinality(Given) < units
         /\ h \notin Given \cup InList
         /\ Given' = Given \cup {h}
         /\ InList' = InList
<1>1. /\ life = "live" /\ life' = "live"
      /\ h \notin InList /\ h \notin Held
      /\ sem_val > 0 /\ sem_val' = sem_val - 1
      /\ handler_list' = handler_list /\ released' = released /\ units' = units
      /\ Post(h)
  BY DEF iosem_wait, HasUnit, Held
<1>2. /\ Held' = Held \cup {h}
      /\ status' = status
      /\ dropped' \cap (waiting' \cup called') = {}
      /\ NullHandlers \cap (waiting' \cup called') = {}
  BY <1>1, PostTakes
<1>3. /\ released = {} /\ InList' = InList
      /\ Given = Held /\ Given' = Held' /\ Asked' = Asked \cup {h}
  BY <1>1, <1>2 DEF SemaphoreInv, TypeOK, InList, Given, Held, Asked
<1>4. TypeOK'
  BY <1>1, <1>2 DEF SemaphoreInv, TypeOK, Held
<1>5. InOnePlace'
  BY <1>1, <1>2, <1>3 DEF SemaphoreInv, InOnePlace, Held
<1>6. /\ IsFiniteSet(Given)
      /\ Cardinality(Given) \in Nat /\ Cardinality(Given) <= Due
      /\ InList # {} => Cardinality(Given) = Due
      /\ sem_val = units - Cardinality(Given)
      /\ units \in Int
  BY <1>1, UnitsBounded DEF SemaphoreInv, TypeOK
<1>7. Cardinality(Given') = Cardinality(Given) + 1
  BY <1>1, <1>2, <1>3, <1>6, FS_AddElement
<1>8. IsFiniteSet(Asked')
  BY <1>3, FS_AddElement DEF SemaphoreInv
<1>9. SemaphoreInv'
  BY <1>1, <1>3, <1>4, <1>5, <1>6, <1>7, <1>8, UnitsConservedAfter DEF Due
<1> QED BY <1>1, <1>2, <1>3, <1>6, <1>9

\* iosem_wait without one (io_semaphore.c:47-57).
LEMMA WaitIsListed ==
  ASSUME SemaphoreInv, NEW h \in Handlers, iosem_wait(h), ~HasUnit
  PROVE  /\ SemaphoreInv'
         /\ ~(Cardinality(Given) < units)
         /\ h \notin Given \cup InList
         /\ Given' = Given
         /\ InList' = InList \cup {h}
<1>1. /\ life = "live" /\ life' = "live"
      /\ h \notin InList /\ h \notin Held
      /\ ~(sem_val > 0) /\ sem_val' = sem_val
      /\ handler_list' = <<h>> \o handler_list
      /\ released' = released /\ units' = units
      /\ status' = status /\ waiting' = waiting /\ called' = called
      /\ dropped' = dropped
  BY DEF iosem_wait, HasUnit, Held, Pushed, svcVars
<1>2. /\ handler_list' \in Seq(Handlers)
      /\ NoRepeats(handler_list')
      /\ InList' = InList \cup {h}
  BY <1>1, ListIsElements, PushOne
     DEF SemaphoreInv, TypeOK, InOnePlace, NoRepeats
<1>3. Given' = Given /\ Given \subseteq Held /\ Asked' = Asked \cup {h}
  BY <1>1, <1>2 DEF Given, Held, Asked
<1>4. TypeOK'
  BY <1>1, <1>2 DEF SemaphoreInv, TypeOK
<1>5. InOnePlace'
  BY <1>1, <1>2 DEF SemaphoreInv, InOnePlace, NoRepeats, Held
<1>6. /\ Cardinality(Given) \in Nat /\ Cardinality(Given) <= Due
      /\ sem_val = units - Cardinality(Given)
      /\ units \in Int
  BY <1>1, UnitsBounded DEF SemaphoreInv, TypeOK
<1>7. IsFiniteSet(Asked')
  BY <1>3, FS_AddElement DEF SemaphoreInv
<1>8. SemaphoreInv'
  BY <1>1, <1>3, <1>4, <1>5, <1>6, <1>7, UnitsConservedAfter DEF Due
<1> QED BY <1>1, <1>2, <1>3, <1>6, <1>8

\* iosem_signal that keeps the unit (io_semaphore.c:61-64).
LEMMA SignalKeepsUnit ==
  ASSUME SemaphoreInv, iosem_signal, KeepsUnit
  PROVE  /\ SemaphoreInv'
         /\ ~(InList # {} /\ Cardinality(Given) < units + 1)
         /\ Given' = Given
         /\ InList' = InList
<1>1. /\ life = "live" /\ life' = "live"
      /\ sem_val < 0 \/ handler_list = << >>
      /\ sem_val' = sem_val + 1 /\ units' = units + 1
      /\ handler_list' = handler_list /\ released' = released
      /\ status' = status /\ waiting' = waiting /\ called' = called
      /\ dropped' = dropped
  BY DEF iosem_signal, KeepsUnit, svcVars
<1>2. Given' = Given /\ InList' = InList /\ Asked' = Asked
  BY <1>1 DEF Given, InList, Asked
<1>3. handler_list = << >> => InList = {}
  BY DEF InList
<1>4. TypeOK'
  BY <1>1 DEF SemaphoreInv, TypeOK
<1>5. InOnePlace'
  BY <1>1, <1>2 DEF SemaphoreInv, InOnePlace
<1>6. /\ Cardinality(Given) \in Nat /\ Cardinality(Given) <= Due
      /\ InList # {} => Cardinality(Given) = Due
      /\ sem_val = units - Cardinality(Given)
      /\ units \in Int
  BY <1>1, UnitsBounded DEF SemaphoreInv, TypeOK
<1>7. SemaphoreInv'
  BY <1>1, <1>2, <1>3, <1>4, <1>5, <1>6, UnitsConservedAfter DEF Due, SemaphoreInv
<1> QED BY <1>1, <1>2, <1>3, <1>6, <1>7

\* The first node is unlinked and its handler posted: iosem_signal and the loop of
\* iosem_delete (io_semaphore.c:31-36, 66-70).
LEMMA UnlinkPosts ==
  ASSUME SemaphoreInv, handler_list # << >>,
         handler_list' = Unlinked, Post(Head(handler_list))
  PROVE  /\ Head(handler_list) \in Handlers /\ Head(handler_list) \in InList
         /\ Head(handler_list) \notin Held
         /\ handler_list' \in Seq(Handlers) /\ NoRepeats(handler_list')
         /\ InList' = InList \ {Head(handler_list)}
         /\ Held' = Held \cup {Head(handler_list)}
         /\ InList' \cap Held' = {}
         /\ status' = status
         /\ dropped' \cap (waiting' \cup called') = {}
         /\ NullHandlers \cap (waiting' \cup called') = {}
<1> DEFINE h == Head(handler_list)
<1>1. /\ h \in Handlers /\ h \in InList
      /\ handler_list' \in Seq(Handlers) /\ NoRepeats(handler_list')
      /\ InList' = InList \ {h}
  BY ListIsElements, TakeOne
     DEF SemaphoreInv, TypeOK, InOnePlace, NoRepeats, Unlinked
<1>2. h \notin Held /\ InList \cap Held = {}
  BY <1>1 DEF SemaphoreInv, InOnePlace, Held
<1>3. /\ Held' = Held \cup {h}
      /\ status' = status
      /\ dropped' \cap (waiting' \cup called') = {}
      /\ NullHandlers \cap (waiting' \cup called') = {}
  BY <1>1, <1>2, PostTakes
<1> QED BY <1>1, <1>2, <1>3

\* iosem_signal that gives the unit to the first of the list.
LEMMA SignalWakesFirst ==
  ASSUME SemaphoreInv, iosem_signal, ~KeepsUnit
  PROVE  /\ SemaphoreInv'
         /\ Cardinality(Given) < units + 1
         /\ Head(handler_list) \in InList
         /\ Given' = Given \cup {Head(handler_list)}
         /\ InList' = InList \ {Head(handler_list)}
<1> DEFINE h == Head(handler_list)
<1>1. /\ life = "live" /\ life' = "live"
      /\ ~(sem_val < 0) /\ handler_list # << >>
      /\ sem_val' = sem_val /\ units' = units + 1 /\ released' = released
      /\ handler_list' = Unlinked /\ Post(h)
  BY DEF iosem_signal, KeepsUnit
<1>2. /\ h \in Handlers /\ h \in InList /\ h \notin Held
      /\ handler_list' \in Seq(Handlers) /\ NoRepeats(handler_list')
      /\ InList' = InList \ {h}
      /\ Held' = Held \cup {h} /\ InList' \cap Held' = {}
      /\ status' = status
      /\ dropped' \cap (waiting' \cup called') = {}
      /\ NullHandlers \cap (waiting' \cup called') = {}
  BY <1>1, UnlinkPosts
<1> HIDE DEF h
<1>3. released = {} /\ Given = Held /\ Given' = Held' /\ Asked' = Asked
  BY <1>1, <1>2 DEF SemaphoreInv, TypeOK, Given, Held, Asked
<1>4. TypeOK'
  BY <1>1, <1>2 DEF SemaphoreInv, TypeOK, Held
<1>5. InOnePlace'
  BY <1>1, <1>2, <1>3 DEF SemaphoreInv, InOnePlace, NoRepeats, Held
<1>6. /\ IsFiniteSet(Given)
      /\ Cardinality(Given) \in Nat /\ Cardinality(Given) = Due
      /\ sem_val = units - Cardinality(Given)
      /\ units \in Int
  BY <1>1, <1>2, UnitsBounded DEF SemaphoreInv, TypeOK
<1>7. Cardinality(Given') = Cardinality(Given) + 1
  BY <1>2, <1>3, <1>6, FS_AddElement
<1>8. SemaphoreInv'
  BY <1>1, <1>3, <1>4, <1>5, <1>6, <1>7, UnitsConservedAfter DEF Due, SemaphoreInv
<1> QED BY <1>1, <1>2, <1>3, <1>6, <1>8 DEF h, Due

\* A round of the loop of iosem_delete gives no unit away.
LEMMA DeleteReleasesFirst ==
  ASSUME SemaphoreInv, delete_step, Remains
  PROVE  /\ SemaphoreInv'
         /\ Head(handler_list) \in InList
         /\ Given' = Given
         /\ InList' = InList \ {Head(handler_list)}
<1> DEFINE h == Head(handler_list)
<1>1. /\ life = "deleting" /\ life' = "deleting"
      /\ handler_list # << >>
      /\ sem_val' = sem_val /\ units' = units /\ released' = released \cup {h}
      /\ handler_list' = Unlinked /\ Post(h)
  BY DEF delete_step, Remains
<1>2. /\ h \in Handlers /\ h \in InList /\ h \notin Held
      /\ handler_list' \in Seq(Handlers) /\ NoRepeats(handler_list')
      /\ InList' = InList \ {h}
      /\ Held' = Held \cup {h} /\ InList' \cap Held' = {}
      /\ status' = status
      /\ dropped' \cap (waiting' \cup called') = {}
      /\ NullHandlers \cap (waiting' \cup called') = {}
  BY <1>1, UnlinkPosts
<1> HIDE DEF h
<1>3. Given' = Given /\ Asked' = Asked
  BY <1>1, <1>2 DEF Given, Held, Asked
<1>4. TypeOK'
  BY <1>1, <1>2 DEF SemaphoreInv, TypeOK, Held
<1>5. InOnePlace'
  BY <1>1, <1>2 DEF SemaphoreInv, InOnePlace, NoRepeats, Held
<1>6. SemaphoreInv'
  BY <1>1, <1>3, <1>4, <1>5, UnitsConservedAfter DEF SemaphoreInv, UnitsConserved
<1> QED BY <1>2, <1>3, <1>6 DEF h

\* The other steps: nothing of it changes but the semaphore's life, or who was
\* called among those with the service.
LEMMA OtherSteps ==
  ASSUME SemaphoreInv,
         \/ iosem_delete
         \/ delete_step /\ ~Remains
         \/ \E h \in Handlers : call_handler(h)
         \/ iosvc_run \/ iosvc_stop \/ iosvc_reset \/ run_returns
         \/ UNCHANGED vars
  PROVE  SemaphoreInv' /\ Given' = Given /\ InList' = InList /\ units' = units
<1>1. /\ handler_list' = handler_list /\ sem_val' = sem_val
      /\ released' = released /\ dropped' = dropped /\ units' = units
  BY DEF iosem_delete, delete_step, Service, call_handler, iosvc_run, iosvc_stop,
         iosvc_reset, run_returns, semVars, vars
<1>2. /\ status' \in {"READY", "RUNNING", "STOPPING", "DONE"}
      /\ waiting' \cup called' = waiting \cup called
  <2> USE DEF SemaphoreInv, TypeOK
  <2>1. CASE iosem_delete \/ (delete_step /\ ~Remains) \/ UNCHANGED vars
    BY <2>1 DEF iosem_delete, delete_step, vars, svcVars
  <2>2. CASE \E h \in Handlers : call_handler(h)
    BY <2>2 DEF call_handler, Service, Svc!Call
  <2>3. CASE iosvc_run \/ iosvc_stop \/ iosvc_reset \/ run_returns
    BY <2>3 DEF iosvc_run, iosvc_stop, iosvc_reset, run_returns, Service,
            Svc!Run, Svc!Stop, Svc!Reset, Svc!Finish
  <2> QED BY <2>1, <2>2, <2>3, Zenon
<1>3. /\ life' \in {"live", "deleting", "deleted"}
      /\ life' = "live" => life = "live"
      /\ life' = "deleted" => handler_list = << >>
  BY DEF iosem_delete, delete_step, Remains, Service, call_handler, iosvc_run,
         iosvc_stop, iosvc_reset, run_returns, semVars, vars, SemaphoreInv, TypeOK
<1>4. Given' = Given /\ InList' = InList /\ Asked' = Asked
  BY <1>1, <1>2 DEF Given, InList, Asked
<1>5. TypeOK'
  BY <1>1, <1>2, <1>3 DEF SemaphoreInv, TypeOK
<1>6. InOnePlace'
  BY <1>1, <1>2, <1>4 DEF SemaphoreInv, InOnePlace
<1>7. UnitsConserved'
  BY <1>1, <1>3, <1>4 DEF SemaphoreInv, UnitsConserved, Lesser
<1> QED BY <1>1, <1>4, <1>5, <1>6, <1>7 DEF SemaphoreInv

-----------------------------------------------------------------------------
(* The inductive invariant.  UnitsConserved needs InOnePlace: a handler in *)
(* two places would be counted once and hold two units.                    *)

\* Of every reachable state of the semaphore and its service.
THEOREM SemaphoreInvariant == Spec => []SemaphoreInv
<1>1. Init => SemaphoreInv
  <2> SUFFICES ASSUME Init PROVE SemaphoreInv
    OBVIOUS
  <2>1. /\ status = "READY" /\ waiting = {} /\ called = {}
        /\ sem_val \in Int /\ units = sem_val /\ handler_list = << >>
        /\ life = "live" /\ dropped = {} /\ released = {}
    BY IoSemaphoreAssumption DEF Init, Svc!Init
  <2>2. Given = {} /\ InList = {} /\ Asked = {}
    BY <2>1 DEF Given, InList, Asked
  <2>3. IsFiniteSet({}) /\ Cardinality({}) = 0
    BY FS_EmptySet
  <2>4. TypeOK /\ InOnePlace
    BY <2>1, <2>2 DEF TypeOK, InOnePlace
  <2> QED BY <2>1, <2>2, <2>3, <2>4 DEF SemaphoreInv, UnitsConserved, Lesser
<1>2. SemaphoreInv /\ [Next]_vars => SemaphoreInv'
  BY WaitTakesUnit, WaitIsListed, SignalKeepsUnit, SignalWakesFirst,
     DeleteReleasesFirst, OtherSteps DEF Next
<1> QED BY <1>1, <1>2, PTL DEF Spec

\* Every variable of the semaphore and its service keeps its type.
THEOREM TypeCorrect == Spec => []TypeOK
<1>1. SemaphoreInv => TypeOK
  BY DEF SemaphoreInv
<1> QED BY <1>1, SemaphoreInvariant, PTL

\* No handler is in two places at once, whatever is refused and whenever the
\* semaphore is deleted.
THEOREM AlwaysInOnePlace == Spec => []InOnePlace
<1>1. SemaphoreInv => InOnePlace
  BY DEF SemaphoreInv
<1> QED BY <1>1, SemaphoreInvariant, PTL

\* As many handlers were given a unit as there are units, or as asked for one.
THEOREM UnitsAlwaysConserved == Spec => []UnitsConserved
<1>1. SemaphoreInv => UnitsConserved
  BY DEF SemaphoreInv
<1> QED BY <1>1, SemaphoreInvariant, PTL

-----------------------------------------------------------------------------
(* Refinement.                                                             *)

\* The instance counts as this module does.
LEMMA SameCardinality == \A S : Abstract!Cardinality(S) = Cardinality(S)
BY Zenon DEF Abstract!Cardinality, Cardinality, Abstract!IsFiniteSet, IsFiniteSet

\* The list and the signed count are a counting semaphore.
THEOREM SemaphoreImplementsCounting == Spec => ImplementsSemaphore
<1>1. Init => Abstract!Init
  BY DEF Init, Svc!Init, Abstract!Init, InList, Given
<1>2. SemaphoreInv /\ [Next]_vars => [Abstract!Next]_(Abstract!csVars)
  <2> SUFFICES ASSUME SemaphoreInv, [Next]_vars
               PROVE  [Abstract!Next]_(Abstract!csVars)
    OBVIOUS
  <2>1. ASSUME NEW h \in Handlers, iosem_wait(h) PROVE Abstract!Wait(h)
    <3>1. life = "live" /\ life' = life /\ units' = units
      BY <2>1 DEF iosem_wait
    <3>2. CASE HasUnit
      BY <2>1, <3>1, <3>2, WaitTakesUnit, SameCardinality
         DEF Abstract!Wait, Abstract!Available
    <3>3. CASE ~HasUnit
      BY <2>1, <3>1, <3>3, WaitIsListed, SameCardinality
         DEF Abstract!Wait, Abstract!Available
    <3> QED BY <3>2, <3>3
  <2>2. CASE iosem_signal
    <3>1. life = "live" /\ life' = life /\ units' = units + 1
      BY <2>2 DEF iosem_signal
    <3>2. CASE KeepsUnit
      BY <2>2, <3>1, <3>2, SignalKeepsUnit, SameCardinality
         DEF Abstract!Signal, Abstract!Available, Abstract!Next
    <3>3. CASE ~KeepsUnit
      BY <2>2, <3>1, <3>3, SignalWakesFirst, SameCardinality
         DEF Abstract!Signal, Abstract!Available, Abstract!Next
    <3> QED BY <3>2, <3>3
  <2>3. CASE iosem_delete
    BY <2>3, OtherSteps DEF iosem_delete, Abstract!Delete, Abstract!Next
  <2>4. CASE delete_step /\ Remains
    <3>1. Head(handler_list) \in Handlers
      BY <2>4, DeleteReleasesFirst, ListIsElements
         DEF SemaphoreInv, TypeOK, Elements
    <3>2. Abstract!Release(Head(handler_list))
      BY <2>4, DeleteReleasesFirst DEF delete_step, Abstract!Release
    <3> QED BY <3>1, <3>2 DEF Abstract!Next
  <2>5. CASE \/ delete_step /\ ~Remains
             \/ \E h \in Handlers : call_handler(h)
             \/ iosvc_run \/ iosvc_stop \/ iosvc_reset \/ run_returns
             \/ UNCHANGED vars
    <3>1. (life # "live")' = (life # "live")
      BY <2>5 DEF delete_step, call_handler, iosvc_run, iosvc_stop, iosvc_reset,
              run_returns, Service, semVars, vars
    <3> QED BY <2>5, <3>1, OtherSteps DEF Abstract!csVars
  <2> QED BY <2>1, <2>2, <2>3, <2>4, <2>5 DEF Next, Abstract!Next
<1> QED BY <1>1, <1>2, SemaphoreInvariant, PTL
        DEF Spec, ImplementsSemaphore, Abstract!Spec
=============================================================================
