----------------------------- MODULE PlanExecution -----------------------------
(***************************************************************************)
(* What ExecutionEngine.execute promises to its callers about one plan,    *)
(* without its scheduler: executions that begin, run tasks, secure their   *)
(* outputs and end with an honest outcome, any of them cut short by a      *)
(* crash.  A task may succeed without a checkpoint (its output cannot be   *)
(* encoded), and a plan may accept partial dependencies, in which case a   *)
(* resumption runs checkpointed tasks again.  ExecutionEngine implements   *)
(* it for every plan (EngineRefinement); InvestigationLifecycle is built   *)
(* on it.                                                                  *)
(***************************************************************************)
EXTENDS Naturals

CONSTANTS
  Task,        \* identifiers of the plan's tasks
  RetrySafe,   \* tasks that may be run again
  Strict       \* TRUE: no task accepts partial dependencies, every output can be
               \* checkpointed or makes the execution raise

VARIABLES
  begun,      \* the journal knows the plan
  executing,  \* an execution is in progress
  runs,       \* runs[t]: times task t was run
  secured,    \* tasks with a checkpoint
  done,       \* tasks that succeeded for the latest execution, the restored included
  closed,     \* no task it restored depends on one that it did not
  cancelled,  \* the token of the latest execution is set
  outcome,    \* of the latest execution
  strays      \* tasks that an execution left running when it ended

vars == <<begun, executing, runs, secured, done, closed, cancelled, outcome, strays>>
latest == <<done, closed, cancelled, outcome>>

Returned == {"succeeded", "partial", "failed", "cancelled"}

TypeOK ==
  /\ begun \in BOOLEAN /\ executing \in BOOLEAN
  /\ closed \in BOOLEAN /\ cancelled \in BOOLEAN
  /\ runs \in [Task -> Nat]
  /\ secured \subseteq Task /\ done \subseteq Task /\ strays \subseteq Task
  /\ outcome \in Returned \cup {"none", "refused", "raised"}

Init ==
  /\ begun = FALSE /\ executing = FALSE /\ cancelled = FALSE
  /\ runs = [t \in Task |-> 0]
  /\ secured = {} /\ done = {} /\ strays = {}
  /\ closed = TRUE
  /\ outcome = "none"

(* An execution restores every checkpoint. *)
StartExecution ==
  /\ ~executing
  /\ executing' = TRUE /\ cancelled' = FALSE /\ outcome' = "none"
  /\ done' = secured
  /\ UNCHANGED <<runs, secured, strays>>

Begin ==
  /\ ~begun /\ begun' = TRUE
  /\ closed' = TRUE
  /\ StartExecution

(* Nothing that is not retry safe may have been run in vain. *)
Replayable == \A t \in Task \ secured : runs[t] > 0 => t \in RetrySafe

Continue ==
  /\ begun /\ Replayable
  /\ closed' \in BOOLEAN /\ (Strict => closed')
  /\ UNCHANGED begun
  /\ StartExecution

Refuse ==
  /\ begun /\ ~executing
  /\ outcome' = "refused"
  /\ UNCHANGED <<begun, executing, runs, secured, done, closed, cancelled, strays>>

(* A task is run by the execution in progress, or again by what a former one   *)
(* left running.  In a strict plan a task with a checkpoint is left alone, and *)
(* one that is not retry safe runs once in all.                                *)
Run(t) ==
  /\ begun
  /\ executing \/ t \in strays
  /\ Strict => /\ t \notin secured \/ t \in strays
               /\ runs[t] > 0 => t \in RetrySafe
  /\ runs' = [runs EXCEPT ![t] = @ + 1]
  /\ UNCHANGED <<begun, executing, secured, latest, strays>>

StrayEnds(t) ==
  /\ t \in strays
  /\ strays' = strays \ {t}
  /\ UNCHANGED <<begun, executing, runs, secured, latest>>

Secure(t) ==
  /\ executing
  /\ runs[t] > 0
  /\ secured' = secured \cup {t}
  /\ UNCHANGED <<begun, executing, runs, latest, strays>>

(* A task succeeds; outside strict plans its output may stay uncheckpointed. *)
Succeed(t) ==
  /\ executing
  /\ runs[t] > 0
  /\ Strict => t \in secured
  /\ done' = done \cup {t}
  /\ UNCHANGED <<begun, executing, runs, secured, closed, cancelled, outcome, strays>>

(* A restarted task loses the success that the execution restored. *)
Forfeit(t) ==
  /\ executing /\ ~Strict
  /\ done' = done \ {t}
  /\ UNCHANGED <<begun, executing, runs, secured, closed, cancelled, outcome, strays>>

Cancel ==
  /\ executing
  /\ cancelled' = TRUE
  /\ UNCHANGED <<begun, executing, runs, secured, done, closed, outcome, strays>>

(* The execution ends; some of the tasks in S go on without it. *)
Stop(o, S) ==
  /\ executing
  /\ executing' = FALSE /\ outcome' = o
  /\ \E left \in SUBSET S : strays' = strays \cup left
  /\ UNCHANGED <<begun, runs, secured, done, closed, cancelled>>

(* execute() returns an ExecutionResult. *)
Return(o) ==
  /\ done = Task => o = "succeeded"
  /\ closed /\ o = "succeeded" => done = Task
  /\ o = "partial" => done # {}
  /\ o = "failed" => done = {}
  /\ o = "cancelled" => cancelled
  /\ Stop(o, IF closed THEN {} ELSE Task)

(* An exception leaves execute(). *)
Raise == Stop("raised", IF Strict THEN Task \ secured ELSE Task)

Crash ==
  /\ executing' = FALSE /\ outcome' = "none" /\ cancelled' = FALSE
  /\ done' = {} /\ strays' = {}
  /\ UNCHANGED <<begun, runs, secured, closed>>

Next ==
  \/ Begin \/ Continue \/ Refuse \/ Cancel \/ Raise \/ Crash
  \/ \E t \in Task : Run(t) \/ Secure(t) \/ Succeed(t) \/ Forfeit(t) \/ StrayEnds(t)
  \/ \E o \in Returned : Return(o)

Spec == Init /\ [][Next]_vars
================================================================================
