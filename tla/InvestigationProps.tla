--------------------------- MODULE InvestigationProps ---------------------------
(* What the lifecycle of an investigation promises. *)
EXTENDS InvestigationLifecycle

(* The lifecycle follows the execution: while one is in progress the          *)
(* investigation is running, for exactly one request, whose token a           *)
(* cancellation will find; nothing closes it underneath.                      *)
ExecutionIsOwned ==
  executing =>
    /\ status = "running"
    /\ \E r \in Request : step[r] = "executing" /\ active = {r}

(* What a closed investigation says is backed by a durable result: COMPLETED   *)
(* or PARTIAL has one, listed and findable, whichever of its executions wrote  *)
(* it; that of a PARTIAL one lists a success, that of a COMPLETED one every    *)
(* task - unless checkpoints were restored that are not closed under           *)
(* dependencies - and every task it lists was really run.                      *)
CompletedIsBacked ==
  /\ status \in {"completed", "partial"} => result /\ indexed
  /\ result => indexed
  /\ status = "completed" /\ closed => reported = Task
  /\ status = "partial" => reported # {}
  /\ \A t \in reported : runs[t] > 0

(* COMPLETED is final, whatever requests come later: the investigation is not *)
(* reopened or executed again, and its result and checkpoints stay.           *)
CompletedIsFinal ==
  [][status = "completed" =>
       status' = "completed" /\ UNCHANGED <<result, reported, secured, executing>>]_vars

(* A request that ends leaves no running investigation without an owner,      *)
(* unless its process died or its caller was cancelled twice.                 *)
NoOrphan ==
  \/ status # "running" \/ active # {} \/ cancelled
  \/ \E r \in Request : step[r] = "dead"

(* An accepted cancellation ends the execution, and an admitted request ends. *)
RequestsEnd == \A r \in Request : (r \in active) ~> (r \notin active /\ step[r] \in Over)

--------------------------------------------------------------------------------
(* A statement of the repository that the code does not satisfy. *)

(* _recover_monitoring_trigger_chains: "Resume trigger-created investigations *)
(* left nonterminal by a restart."  A RUNNING investigation that no process   *)
(* executes can be resumed.                                                   *)
LeftRunningCanResume == status = "running" /\ active = {} => begun
================================================================================
