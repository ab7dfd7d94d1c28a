--------------------------- MODULE MCDeadlineHeap ---------------------------
(***************************************************************************)
(* Instances of DeadlineHeap for TLC.                                      *)
(***************************************************************************)
EXTENDS DeadlineHeap, TLC

\* Events are told apart only by their entries.
EventSymmetry == Permutations(Events)
=============================================================================
