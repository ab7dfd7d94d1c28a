-------------------------- MODULE ServiceContract --------------------------
(***************************************************************************)
(* What an io_service promises its client, whatever the handlers wait for: *)
(* a handler accepted by the service is called exactly once, handlers are  *)
(* accepted only while the service is ready or running, and iosvc_run      *)
(* returns only when no accepted handler is still waiting.                 *)
(* IoService, the event loop in full, is shown to implement this.          *)
(***************************************************************************)
CONSTANT Handlers

VARIABLES status,    \* READY, RUNNING, STOPPING or DONE
          waiting,   \* handlers accepted and not called yet
          called     \* handlers called

scVars == <<status, waiting, called>>

Init == /\ status = "READY"
        /\ waiting = {}
        /\ called = {}

Accept(h) ==
    /\ status \in {"READY", "RUNNING"}
    /\ h \notin waiting \cup called
    /\ waiting' = waiting \cup {h}
    /\ UNCHANGED <<status, called>>

Call(h) ==
    /\ status \in {"RUNNING", "STOPPING"}
    /\ h \in waiting
    /\ waiting' = waiting \ {h}
    /\ called' = called \cup {h}
    /\ UNCHANGED status

Run    == status = "READY" /\ status' = "RUNNING" /\ UNCHANGED <<waiting, called>>
Stop   == status = "RUNNING" /\ status' = "STOPPING" /\ UNCHANGED <<waiting, called>>
Reset  == status = "DONE" /\ status' = "READY" /\ UNCHANGED <<waiting, called>>
Finish == /\ status \in {"RUNNING", "STOPPING"}
          /\ waiting = {}
          /\ status' = "DONE"
          /\ UNCHANGED <<waiting, called>>

Next == \/ \E h \in Handlers : Accept(h) \/ Call(h)
        \/ Run \/ Stop \/ Reset \/ Finish

Spec == Init /\ [][Next]_scVars
=============================================================================
