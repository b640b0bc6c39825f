--------------------------- MODULE MCCoordinator ---------------------------
(***************************************************************************)
(* Instances of Coordinator for TLC.  Requests are interchangeable, and so *)
(* are URLs where none is singled out.                                     *)
(***************************************************************************)
EXTENDS Coordinator, TLC

Symmetry == Permutations(Requests) \cup Permutations(Urls)
============================================================================
