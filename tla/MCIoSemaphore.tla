--------------------------- MODULE MCIoSemaphore ----------------------------
(***************************************************************************)
(* Instances of IoSemaphore for TLC.                                       *)
(***************************************************************************)
EXTENDS IoSemaphore

MCInitVals == -1..1
=============================================================================
