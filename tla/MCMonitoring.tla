------------------------------ MODULE MCMonitoring ------------------------------
(* Instances of MonitoringScheduler for TLC. *)
EXTENDS MonitoringProps, TLC

CONSTANTS a, b,        \* schedules
          w1, w2,      \* processes
          c1, c2       \* run_due calls

OneEach   == (c1 :> w1) @@ (c2 :> w2)
BothOfOne == (c1 :> w1) @@ (c2 :> w1)
AFirst    == [s \in Schedule |-> IF s = a THEN 1 ELSE 0]
AtStart   == [s \in Schedule |-> 0]
================================================================================
