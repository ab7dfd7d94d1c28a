--------------------------- MODULE MCAsyncProgram ---------------------------
(***************************************************************************)
(* An instance of AsyncProgram for TLC: two awaits of two operations, of   *)
(* which the kinds vary.  All but 2 wait for the same event.               *)
(***************************************************************************)
EXTENDS AsyncProgram

MCTasks  == <<<<1, 2>>, <<3, 4>>>>
MCOps    == {1, 2, 3, 4}
MCKinds  == [o \in MCOps |-> CASE o = 1 -> {"rw"}
                               [] o = 2 -> {"rw_some", "connect"}
                               [] o = 3 -> {"rw", "post"}
                               [] o = 4 -> {"rw", "accept"}]
MCEvent  == [o \in MCOps |-> IF o = 2 THEN "write" ELSE "read"]
MCNbytes == [o \in MCOps |-> CASE o = 1 -> 2 [] o = 4 -> 0 [] OTHER -> 1]
MCGroups == 1..2
=============================================================================
