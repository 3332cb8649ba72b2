-------------------------- MODULE MCExecutionEngine ---------------------------
(* Instances of the scheduler for TLC. *)
EXTENDS EngineRefinement

(* Two acquisitions, 1 declared retry safe; 3 needs 1; 4 aggregates what is left. *)
DiamondDeps == [t \in 1..4 |-> CASE t = 3 -> {1} [] t = 4 -> {2, 3} [] OTHER -> {}]
DiamondAttempts == [t \in 1..4 |-> IF t = 1 THEN 2 ELSE 1]

(* The dependent has the smaller identifier. *)
ReversedDeps == [t \in 1..3 |-> CASE t = 1 -> {3} [] t = 2 -> {1} [] OTHER -> {}]
ReversedAttempts == [t \in 1..3 |-> 1]
===============================================================================
