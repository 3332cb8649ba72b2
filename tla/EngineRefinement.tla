---------------------------- MODULE EngineRefinement ----------------------------
(* The scheduler implements PlanExecution. *)
EXTENDS ExecutionEngineProps

(* Tasks with a live coroutine of an execution that is over. *)
Strays == {t \in Task : \E r \in Runs :
             future[r][t] \in Live /\ (r # run \/ phase = "idle")}

Succeeded == {t \in Task : results[t] = "succeeded"}

Abstract == INSTANCE PlanExecution WITH
  executing <- phase # "idle", runs <- invoked, secured <- checkpoint, done <- Succeeded,
  strays <- Strays, Strict <- StrictPlan

(* To its callers the scheduler, with its journal, its nested finish() calls,  *)
(* its coroutines and its cancellation epilogue, is one PlanExecution: across  *)
(* crashes and resumptions it runs nothing twice that it must not, keeps every *)
(* checkpoint, and - unless it restored checkpoints that are not closed under  *)
(* dependencies - returns SUCCEEDED exactly when every task succeeded and      *)
(* leaves nothing running.                                                     *)
ImplementsPlanExecution == Abstract!Spec
================================================================================
