---------------------------- MODULE IoSemaphore -----------------------------
(***************************************************************************)
(* src/io_semaphore.c together with the service it posts handlers to: the  *)
(* service is its contract, ServiceContract, and a post is that contract's *)
(* Accept, or is refused.  The semaphore does not look at what its posts   *)
(* return, or has freed the handler's node by then: a refused handler is   *)
(* dropped.                                                                *)
(***************************************************************************)
EXTENDS Integers, Sequences, FiniteSets

CONSTANTS Handlers,     \* the handlers, each passed to iosem_wait once
          NullHandlers, \* those whose callback is NULL
          InitVals,     \* the values of iosem_create
          MaxSignals    \* bound: calls of iosem_signal

ASSUME IoSemaphoreAssumption ==
    /\ NullHandlers \subseteq Handlers
    /\ InitVals \subseteq Int
    /\ MaxSignals \in Nat

VARIABLES status, waiting, called,  \* the service: see ServiceContract
          sem_val, handler_list,    \* struct _io_sem_t; the list's first is first
          life,                     \* "live", "deleting" or "deleted"
          dropped,                  \* the handlers whose post was refused
          released,                 \* the handlers that iosem_delete took off the list
          units                     \* the initial value and the signals so far

svcVars == <<status, waiting, called>>
semVars == <<sem_val, handler_list, life, dropped, released, units>>
vars    == <<svcVars, semVars>>

Svc == INSTANCE ServiceContract

InList == {handler_list[k] : k \in DOMAIN handler_list}

-----------------------------------------------------------------------------
\* iosvc_post accepts a handler, or returns EIO_STOPPED, EIO_INVARG or, at any
\* time, EIO_NOMEM.
Post(h) ==
    \/ h \notin NullHandlers /\ Svc!Accept(h) /\ UNCHANGED dropped
    \/ dropped' = dropped \cup {h} /\ UNCHANGED svcVars

\* A mutant of HasUnit: a unit is taken at 0.
HasUnitAtZero == sem_val >= 0

HasUnit == sem_val > 0

\* A mutant of Pushed: the new node is not linked to the list.
PushedAlone(h) == <<h>>

Pushed(h) == <<h>> \o handler_list

\* iosem_wait takes a unit before it knows whether the post is refused, or puts
\* the handler on the list, whatever the service's status and its callback.  (If
\* there is no memory for that, nothing changes: no step.)
iosem_wait(h) ==
    /\ life = "live"
    /\ h \notin InList \cup waiting \cup called \cup dropped
    /\ IF HasUnit
       THEN /\ sem_val' = sem_val - 1
            /\ Post(h)
            /\ UNCHANGED handler_list
       ELSE /\ handler_list' = Pushed(h)
            /\ UNCHANGED <<sem_val, dropped, svcVars>>
    /\ UNCHANGED <<life, released, units>>

\* A mutant of Unlinked: the first node stays on the list.
StillLinked == handler_list

Unlinked == Tail(handler_list)

\* A mutant of KeepsUnit: a signal at a negative value wakes a handler.
KeepsUnitIfNoneWaits == handler_list = << >>

KeepsUnit == sem_val < 0 \/ handler_list = << >>

\* iosem_signal keeps the unit, or gives it to the first handler of the list.
iosem_signal ==
    /\ life = "live"
    /\ units < MaxSignals
    /\ units' = units + 1
    /\ IF KeepsUnit
       THEN sem_val' = sem_val + 1 /\ UNCHANGED <<handler_list, dropped, svcVars>>
       ELSE /\ handler_list' = Unlinked
            /\ Post(Head(handler_list))
            /\ UNCHANGED sem_val
    /\ UNCHANGED <<life, released>>

iosem_delete ==
    /\ life = "live"
    /\ life' = "deleting"
    /\ UNCHANGED <<svcVars, sem_val, handler_list, dropped, released, units>>

\* A mutant of Remains: the loop stops at the last node.
RemainsAnother == Len(handler_list) > 1

\* The loop of iosem_delete; nothing else runs until it ends.
Remains == handler_list # << >>

delete_step ==
    /\ life = "deleting"
    /\ IF Remains
       THEN /\ handler_list' = Unlinked
            /\ released' = released \cup {Head(handler_list)}
            /\ Post(Head(handler_list))
            /\ UNCHANGED life
       ELSE life' = "deleted" /\ UNCHANGED <<handler_list, dropped, released, svcVars>>
    /\ UNCHANGED <<sem_val, units>>

\* The service goes on by itself, as its contract allows.
Service(A) == life # "deleting" /\ A /\ UNCHANGED semVars

call_handler(h) == Service(Svc!Call(h))
iosvc_run       == Service(Svc!Run)
iosvc_stop      == Service(Svc!Stop)
iosvc_reset     == Service(Svc!Reset)
run_returns     == Service(Svc!Finish)

Init ==
    /\ Svc!Init
    /\ sem_val \in InitVals
    /\ units = sem_val
    /\ handler_list = << >>
    /\ life = "live"
    /\ dropped = {} /\ released = {}

Next == \/ \E h \in Handlers : iosem_wait(h) \/ call_handler(h)
        \/ iosem_signal \/ iosem_delete \/ delete_step
        \/ iosvc_run \/ iosvc_stop \/ iosvc_reset \/ run_returns

Spec == Init /\ [][Next]_vars

\* iosem_delete goes on, a client runs a service that has handlers, and a running
\* service calls them.
FairSpec == /\ Spec
            /\ WF_vars(delete_step)
            /\ WF_vars(waiting # {} /\ iosvc_run)
            /\ WF_vars(\E h \in Handlers : call_handler(h))

-----------------------------------------------------------------------------
TypeOK ==
    /\ status \in {"READY", "RUNNING", "STOPPING", "DONE"}
    /\ sem_val \in Int /\ units \in Int
    /\ handler_list \in Seq(Handlers)
    /\ life \in {"live", "deleting", "deleted"}
    /\ life = "deleted" => handler_list = << >>
    /\ life = "live" => released = {}
    /\ waiting \cup called \cup dropped \cup released \subseteq Handlers

\* Every handler passed to iosem_wait is in one place only: on the list, with the
\* service, called, or dropped because its post was refused.  No refusal makes a
\* handler run that was reported, or dropped, as refused, and iosem_delete takes
\* none off the list without posting it (io_semaphore.c:29-39, 44, 69-70).
InOnePlace ==
    /\ \A j, k \in DOMAIN handler_list : handler_list[j] = handler_list[k] => j = k
    /\ InList \cap (waiting \cup called \cup dropped) = {}
    /\ dropped \cap (waiting \cup called) = {}
    /\ NullHandlers \cap (waiting \cup called) = {}
    /\ released \subseteq waiting \cup called \cup dropped

\* Units are neither invented nor lost: as many handlers were given one as there
\* are units, or as asked for one, if fewer.  A refused handler keeps the unit it
\* was given (io_semaphore.c:41-73).
Lesser(a, b) == IF a < b THEN a ELSE b
Given        == (waiting \cup called \cup dropped) \ released
Asked        == Given \cup released \cup InList

UnitsConserved ==
    /\ life = "live" =>
          Cardinality(Given) = Lesser(IF units > 0 THEN units ELSE 0, Cardinality(Asked))
    /\ sem_val = units - Cardinality(Given)

\* The invariant of the proofs.
SemaphoreInv == TypeOK /\ InOnePlace /\ UnitsConserved /\ IsFiniteSet(Asked)

Abstract == INSTANCE CountingSemaphore WITH
    waiters <- InList,
    granted <- Given,
    deleted <- life # "live"

\* The list and the count are a counting semaphore.
ImplementsSemaphore == Abstract!Spec

\* A handler that waits when the semaphore is deleted ("schedules all handles
\* waiting on it", io_semaphore.h:18) is called, if its post is not refused.
ReleasedAreCalled ==
    \A h \in Handlers : (life = "deleting" /\ h \in InList) ~> (h \in called \cup dropped)
=============================================================================
