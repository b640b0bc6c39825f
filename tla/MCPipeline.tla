------------------------------ MODULE MCPipeline ------------------------------
(***************************************************************************)
(* Instances of Pipeline for TLC, with runs configured as the command does *)
(* it, as its tests do, and with neither notifier nor run log.  Processes  *)
(* and sources are interchangeable.                                        *)
(***************************************************************************)
EXTENDS Pipeline, TLC

Command == [failFast |-> TRUE, hasNotifier |-> TRUE, hasRunLog |-> TRUE]

BestEffort == [failFast |-> FALSE, hasNotifier |-> TRUE, hasRunLog |-> TRUE]

Quiet == [failFast |-> FALSE, hasNotifier |-> FALSE, hasRunLog |-> FALSE]

ThreeConfigs == {Command, BestEffort, Quiet}

Symmetry == Permutations(Processes) \cup Permutations(Sources)
==============================================================================
