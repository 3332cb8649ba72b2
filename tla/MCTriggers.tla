------------------------------- MODULE MCTriggers -------------------------------
(* An instance of MonitoringTriggers for TLC: two diagnostics of one policy. *)
EXTENDS TriggerProps, TLC

CONSTANTS d1, d2, p

InOrder  == (d1 :> 1) @@ (d2 :> 2)
OnePolicy == (d1 :> p) @@ (d2 :> p)
================================================================================
