---------------------------- MODULE MCSynthesis ----------------------------
(***************************************************************************)
(* Instances of Synthesis for TLC.  Workers and contents are               *)
(* interchangeable; URLs are too, except for the poisoned ones.            *)
(***************************************************************************)
EXTENDS Synthesis, TLC

Symmetry ==
  Permutations(CliWorkers) \cup Permutations(HttpWorkers) \cup
  Permutations(Contents) \cup Permutations(Urls) \cup Permutations(Tenants)
==============================================================================
