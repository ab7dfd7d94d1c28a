---------------------------- MODULE MCIoService -----------------------------
(***************************************************************************)
(* Instances of IoService for TLC.  What tells them apart is what client   *)
(* code does where (MayCall) and what poll reports (Faults, QuietErrors).  *)
(***************************************************************************)
EXTENDS IoService

Scheduling == {"post", "post_delay", "sched", "sched_timeout"}

\* A client that cancels only from posted handlers, where the loop holds neither a
\* place in the tree nor a report of poll, and schedules nothing with a timeout
\* while the service stops.
CarefulClient ==
    [c \in Contexts |->
        CASE c = "main"      -> Scheduling \cup {"run", "reset"}
          [] c = "sync"      -> Scheduling \cup {"cancel", "stop"}
          [] c = "cancelled" -> Scheduling \cup {"stop"}
          [] c = "stopped"   -> Calls \ {"sched_timeout"}
          [] OTHER           -> Scheduling \cup {"stop"}]

\* The same client, giving every wait a timeout.
TimedClient == [c \in Contexts |-> CarefulClient[c] \ {"sched"}]

\* ... and one that waits without a timeout only from a handler that timed out.
MostlyTimedClient ==
    [c \in Contexts |-> IF c = "timeout" THEN CarefulClient[c] ELSE TimedClient[c]]

\* A client that only waits for events, all of them scheduled ahead of the run.
SchedulingClient == [c \in Contexts |-> IF c = "main" THEN {"sched", "run"} ELSE {}]

\* A client that calls anything anywhere.
AnyClient == [c \in Contexts |-> Calls]
=============================================================================
