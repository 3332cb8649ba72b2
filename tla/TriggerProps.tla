------------------------------ MODULE TriggerProps ------------------------------
(* What the trigger policies promise. *)
EXTENDS MonitoringTriggers

(* A tick spends its budget once, over the chains it recovers and the         *)
(* follow-ups it starts, the one in hand included.                            *)
BudgetHeld ==
  recovered + launched + (IF step = "next" THEN 0 ELSE 1) <= Budget

(* Two matches of one policy are further apart than its cooldown, whatever    *)
(* restarts lie between, and although a pass stamps all its matches with the  *)
(* instant at which it began.                                                 *)
CooldownRespected ==
  Cooldown > 0 => \A e, f \in Evaluation :
    e # f /\ PolicyOf[e] = PolicyOf[f] /\ matched[e] # NoEvent /\ matched[f] # NoEvent
      => matched[e] + Cooldown < matched[f] \/ matched[f] + Cooldown < matched[e]

(* The lineage that reports follow is complete after a crash at any commit: a *)
(* terminal event has its created event, and that its match and its           *)
(* investigation.                                                             *)
LineageIsComplete ==
  /\ \A e \in Evaluation : terminal[e] # "none" => e \in created
  /\ \A e \in created : matched[e] # NoEvent /\ status[e] # "none"

(* A chain that has its terminal event is not executed again by a later pass, *)
(* even if a client has resumed the investigation and left it running.        *)
EndedChainsRest ==
  [][\A e \in Evaluation :
       step' = "opened" /\ First(e) /\ step # "opened" => terminal[e] = "none"]_vars

(* A chain is not closed under a request that is executing its follow-up: a   *)
(* pass that meets one raises, records the failure and leaves the end of the  *)
(* chain to a later pass - unless its failed attempts are used up.            *)
NotClosedUnderfoot ==
  [][\A e \in Evaluation :
       terminal'[e] # terminal[e] => e \notin others \/ RetriesExhausted(e)]_vars

(* The process died between the commit of RUNNING and the journal's. *)
Wedged(e) == status[e] = "running" /\ ~begun[e]

(* "Resume trigger-created investigations left nonterminal by a restart": a   *)
(* chain gets its terminal event, after crashes, interrupted passes and       *)
(* executions by clients, or it is wedged.                                    *)
ChainsSettle ==
  \A e \in Evaluation : (e \in created) ~> (terminal[e] # "none" \/ Wedged(e))
================================================================================
