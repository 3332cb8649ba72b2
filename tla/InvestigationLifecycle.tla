------------------------ MODULE InvestigationLifecycle ------------------------
(***************************************************************************)
(* One investigation: its durable lifecycle (InvestigationService in       *)
(* satquery/platform/investigations.py) and the runtime that executes,     *)
(* resumes and cancels it (PlatformRuntime.execute_investigation and       *)
(* cancel_investigation in satquery/platform/runtime.py), composed with    *)
(* the engine's contract, PlanExecution.                                   *)
(*                                                                         *)
(* A request is one call of execute_investigation (an API request, a       *)
(* monitoring dispatch, a trigger, an agent tool).  All run on the event   *)
(* loop of one process and yield only inside ExecutionEngine.execute;      *)
(* between its yields a request commits several times, and may raise or    *)
(* die with the process at each.                                           *)
(***************************************************************************)
EXTENDS Naturals

CONSTANTS
  Task, RetrySafe,  \* the compiled plan
  Strict,           \* FALSE: it accepts partial dependencies or uncheckpointed outputs
  Request,          \* calls of execute_investigation, numbered as they arrive
  MayCrash,         \* TRUE: the process may die
  MaxRuns           \* bound: runs of a task

ASSUME PlanAssumption == Task # {} /\ RetrySafe \subseteq Task
ASSUME RequestAssumption ==
  Request \subseteq Nat /\ MayCrash \in BOOLEAN /\ Strict \in BOOLEAN /\ MaxRuns \in Nat

VARIABLES
  (* durable *)
  status,    \* Investigation.status
  result,    \* plan_id is in Investigation.result_ids
  indexed,   \* the execution result is in Earth Memory
  reported,  \* tasks that the indexed result lists as succeeded
  begun, runs, secured,          \* PlanExecution: the journal, the world
  (* memory of the process *)
  executing, done, closed, cancelled, outcome, \* PlanExecution: the latest execution,
  strays,    \* and what executions left running
  active,    \* requests registered in _active_execution_cancellations
  step,      \* step[r]: where the call is
  resume     \* resume[r]: its argument, of an admitted call

Engine == INSTANCE PlanExecution

durable == <<status, result, indexed, reported>>
engine  == <<begun, executing, runs, secured, done, closed, cancelled, outcome, strays>>
request == <<active, step, resume>>
vars == <<durable, request, engine>>

Statuses == {"pending", "running", "completed", "partial", "failed", "cancelled"}
(* A request that is between two yields. *)
Atomic   == {"admitted", "opened", "returned", "indexed", "added", "handling"}
Over     == {"done", "rejected", "dead"}

TypeOK ==
  /\ Engine!TypeOK
  /\ status \in Statuses
  /\ result \in BOOLEAN /\ indexed \in BOOLEAN
  /\ reported \subseteq Task
  /\ active \subseteq Request
  /\ step \in [Request -> {"new", "executing"} \cup Atomic \cup Over]
  /\ resume \in [Request -> BOOLEAN]

LoopIsFree == \A r \in Request : step[r] \notin Atomic

Goto(r, there) == step' = [step EXCEPT ![r] = there]

--------------------------------------------------------------------------------
(* execute_investigation, up to the execution *)

(* Mutant: the check for an active execution is missing. *)
AdmissibleWhileActive(again) == again => begun

(* A resumption needs a durable execution, and no other may be active. *)
Admissible(again) == (again => begun) /\ active = {}

Admit(r, again) ==
  /\ LoopIsFree /\ step[r] = "new"
  /\ Admissible(again)
  /\ active' = active \cup {r}
  /\ resume' = [resume EXCEPT ![r] = again]
  /\ Goto(r, "admitted")
  /\ UNCHANGED <<durable, engine>>

Reject(r) ==
  /\ LoopIsFree /\ step[r] = "new"
  /\ \E again \in BOOLEAN : ~Admissible(again)
  /\ Goto(r, "rejected")
  /\ UNCHANGED <<durable, active, resume, engine>>

(* Mutant: resume_start accepts a completed investigation. *)
OpenableWhenCompleted(r) == IF resume[r] THEN status # "pending" ELSE status = "pending"

(* InvestigationService.start and resume_start *)
Openable(r) ==
  IF resume[r] THEN status \in {"running", "partial", "failed", "cancelled"}
               ELSE status = "pending"

Open(r) ==
  /\ step[r] = "admitted"
  /\ IF Openable(r)
       THEN status' = "running" /\ Goto(r, "opened")
       ELSE Goto(r, "handling") /\ UNCHANGED status
  /\ UNCHANGED <<result, indexed, reported, active, resume, engine>>

(* journal.begin and the check of uncertain tasks *)
StartEngine(r) ==
  /\ step[r] = "opened"
  /\ IF resume[r] THEN Engine!Continue ELSE Engine!Begin
  /\ Goto(r, "executing")
  /\ UNCHANGED <<durable, active, resume>>

RefuseToReplay(r) ==
  /\ step[r] = "opened" /\ resume[r]
  /\ Engine!Refuse
  /\ Goto(r, "handling")
  /\ UNCHANGED <<durable, active, resume>>

(* The lifecycle store, indexing the started investigation or the result, and *)
(* the journal may raise.                                                      *)
Fail(r) ==
  /\ step[r] \in {"admitted", "opened", "returned", "indexed", "added"}
  /\ Goto(r, "handling")
  /\ UNCHANGED <<durable, active, resume, engine>>

--------------------------------------------------------------------------------
(* The execution *)

RunTask(t) ==
  /\ runs[t] < MaxRuns
  /\ LoopIsFree /\ Engine!Run(t)
  /\ UNCHANGED <<durable, request>>

SecureTask(t) ==
  /\ LoopIsFree /\ t \notin secured /\ Engine!Secure(t)
  /\ UNCHANGED <<durable, request>>

SucceedTask(t) ==
  /\ LoopIsFree /\ t \notin done /\ Engine!Succeed(t)
  /\ UNCHANGED <<durable, request>>

ForfeitTask(t) ==
  /\ LoopIsFree /\ t \in done /\ Engine!Forfeit(t)
  /\ UNCHANGED <<durable, request>>

EndStray(t) ==
  /\ LoopIsFree /\ Engine!StrayEnds(t)
  /\ UNCHANGED <<durable, request>>

(* cancel_investigation finds the token of the active request ... *)
RequestCancellation ==
  /\ LoopIsFree /\ active # {} /\ ~cancelled
  /\ Engine!Cancel
  /\ UNCHANGED <<durable, request>>

(* ... or cancels a pending investigation itself. *)
CancelPending ==
  /\ LoopIsFree /\ active = {} /\ status = "pending"
  /\ status' = "cancelled"
  /\ UNCHANGED <<result, indexed, reported, request, engine>>

EngineReturns(r) ==
  /\ LoopIsFree /\ step[r] = "executing"
  /\ \E o \in Engine!Returned : Engine!Return(o)
  /\ Goto(r, "returned")
  /\ UNCHANGED <<durable, active, resume>>

EngineRaises(r) ==
  /\ LoopIsFree /\ step[r] = "executing"
  /\ Engine!Raise
  /\ Goto(r, "handling")
  /\ UNCHANGED <<durable, active, resume>>

(* The caller is cancelled while the engine drains a cancelled execution: the *)
(* CancelledError is not an Exception and passes the handler.                 *)
Interrupt(r) ==
  /\ LoopIsFree /\ step[r] = "executing" /\ cancelled
  /\ Engine!Raise
  /\ active' = active \ {r}
  /\ Goto(r, "done")
  /\ UNCHANGED <<durable, resume>>

--------------------------------------------------------------------------------
(* execute_investigation, after the execution *)

(* record_execution_result *)
IndexResult(r) ==
  /\ step[r] = "returned"
  /\ indexed' = TRUE /\ reported' = done
  /\ Goto(r, "indexed")
  /\ UNCHANGED <<status, result, active, resume, engine>>

(* add_result, unless a former execution of the plan added it *)
AddResult(r) ==
  /\ step[r] = "indexed"
  /\ \/ result /\ UNCHANGED result /\ Goto(r, "added")
     \/ ~result /\ status = "running" /\ result' = TRUE /\ Goto(r, "added")
     \/ ~result /\ status # "running" /\ UNCHANGED result /\ Goto(r, "handling")
  /\ UNCHANGED <<status, indexed, reported, active, resume, engine>>

(* Mutant: a partial success completes. *)
ClosingStatusOptimistic ==
  IF outcome \in {"succeeded", "partial"} THEN "completed" ELSE outcome

ClosingStatus == IF outcome = "succeeded" THEN "completed" ELSE outcome

(* complete, complete_partial, cancel or fail *)
Close(r) ==
  /\ step[r] = "added"
  /\ IF status = "running" \/ (outcome = "cancelled" /\ status = "pending")
       THEN /\ status' = ClosingStatus
            /\ active' = active \ {r}
            /\ Goto(r, "done")
       ELSE Goto(r, "handling") /\ UNCHANGED <<status, active>>
  /\ UNCHANGED <<result, indexed, reported, resume, engine>>

(* Mutants: the except branch does not fail the investigation; finally is missing. *)
HandleSilently(r) ==
  /\ step[r] = "handling"
  /\ active' = active \ {r}
  /\ Goto(r, "done")
  /\ UNCHANGED <<durable, resume, engine>>
HandleWithoutFinally(r) ==
  /\ step[r] = "handling"
  /\ status' = IF status = "running" THEN "failed" ELSE status
  /\ Goto(r, "done")
  /\ UNCHANGED <<result, indexed, reported, active, resume, engine>>

(* The except branch fails a running investigation; finally unregisters. *)
Handle(r) ==
  /\ step[r] = "handling"
  /\ status' = IF status = "running" THEN "failed" ELSE status
  /\ active' = active \ {r}
  /\ Goto(r, "done")
  /\ UNCHANGED <<result, indexed, reported, resume, engine>>

(* The process dies, and another is started over its databases. *)
Crash ==
  /\ MayCrash /\ active # {}
  /\ active' = {}
  /\ step' = [r \in Request |-> IF r \in active THEN "dead" ELSE step[r]]
  /\ Engine!Crash
  /\ UNCHANGED <<durable, resume>>

--------------------------------------------------------------------------------
Init ==
  /\ Engine!Init
  /\ status = "pending" /\ result = FALSE /\ indexed = FALSE /\ reported = {}
  /\ active = {}
  /\ step = [r \in Request |-> "new"]
  /\ resume = [r \in Request |-> FALSE]

Submit(r) ==
  /\ \A q \in Request : q < r => step[q] # "new"
  /\ Reject(r) \/ \E again \in BOOLEAN : Admit(r, again)

(* What the request does by itself until it yields or ends. *)
Proceed(r) ==
  \/ Open(r) \/ StartEngine(r) \/ RefuseToReplay(r) \/ Fail(r)
  \/ IndexResult(r) \/ AddResult(r) \/ Close(r) \/ Handle(r)

EngineEnds(r) == EngineReturns(r) \/ EngineRaises(r) \/ Interrupt(r)

Next ==
  \/ \E r \in Request : Submit(r) \/ Proceed(r) \/ EngineEnds(r)
  \/ \E t \in Task : RunTask(t) \/ SecureTask(t) \/ SucceedTask(t) \/ ForfeitTask(t) \/ EndStray(t)
  \/ RequestCancellation \/ CancelPending \/ Crash

(* The event loop keeps running, and executions end (ExecutionEnds of the engine). *)
Fairness == \A r \in Request : WF_vars(Proceed(r)) /\ WF_vars(EngineEnds(r))

Spec == Init /\ [][Next]_vars
FairSpec == Spec /\ Fairness
================================================================================
