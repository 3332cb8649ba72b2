----------------------------- MODULE MCInvestigation ----------------------------
(* Instances of InvestigationLifecycle for TLC: the configurations give every *)
(* constant its value.                                                        *)
EXTENDS InvestigationProps
================================================================================
