---------------------------- MODULE ExecutionEngine ----------------------------
(***************************************************************************)
(* The Engine's DAG scheduler (satquery/platform/execution.py) together    *)
(* with the durable journal it resumes from                                *)
(* (satquery/platform/execution_journal.py).                               *)
(*                                                                         *)
(* One ExecutionPlan is executed, possibly several times: a first          *)
(* execute(resume=False), then executions with resume=True after a crash,  *)
(* a cancellation, a failure or an exception.  The scheduler is one asyncio *)
(* coroutine; every started task is another (_run_task).  A coroutine that *)
(* execute() leaves behind when it raises goes on running, so futures are  *)
(* kept per execution.                                                     *)
(*                                                                         *)
(* Task identifiers are natural numbers: the code orders tasks by sorting  *)
(* their identifiers.  Outputs are abstracted to "is there a codec for it";*)
(* the two journal writes of finish (outcome event, progress event) have   *)
(* the same type and task and are one write here.                          *)
(***************************************************************************)
EXTENDS Naturals, FiniteSets, Sequences

CONSTANTS
  Task,           \* identifiers of the plan's tasks
  Deps,           \* Deps[t]: Task.depends_on
  RetrySafe,      \* tasks with retry_safe=True
  AcceptPartial,  \* tasks with accept_partial_dependencies=True
  MaxAttempts,    \* MaxAttempts[t]: Task.max_attempts
  AsyncHandler,   \* tasks whose handler is a coroutine and may swallow a cancellation
  Concurrency,    \* plan.max_concurrency or the engine's
  EncodeOutcomes, \* what encoding an output for its checkpoint can do
  MaxRuns         \* bound: executions of the plan, the first included

Encodings == {"encoded", "encoding_error", "no_codec"}

(* Task, ExecutionPlan: validators of contracts.py. *)
ASSUME TaskAssumption ==
  /\ Task \subseteq Nat
  /\ IsFiniteSet(Task)
  /\ RetrySafe \subseteq Task
  /\ AcceptPartial \subseteq Task
  /\ AsyncHandler \subseteq Task
ASSUME DepsAssumption ==
  /\ Deps \in [Task -> SUBSET Task]
  /\ \E rank \in [Task -> 0..Cardinality(Task)] :
        \A t \in Task : \A d \in Deps[t] : rank[d] < rank[t]
ASSUME AttemptsAssumption ==
  /\ MaxAttempts \in [Task -> Nat \ {0}]
  /\ \A t \in Task : MaxAttempts[t] > 1 => t \in RetrySafe
ASSUME BoundsAssumption ==
  /\ Concurrency \in Nat \ {0}
  /\ MaxRuns \in Nat
  /\ EncodeOutcomes \subseteq Encodings

VARIABLES
  (* the journal: survives a crash *)
  begun,      \* the plan has a row in satquery_execution_runs
  logged,     \* <<event, task>> for every task event of the plan
  checkpoint, \* tasks with a stored successful output
  (* locals of execute() *)
  run,        \* number of the latest execution
  phase,      \* where the latest execution is
  results, pending, rejected, ready, remaining, completed,
  running,    \* tasks whose future is in the running dictionary
  batch,      \* completed_futures not popped yet
  sweep,      \* rest of sorted(remaining) in the cancellation epilogue
  finishing,  \* the finish() call that has not recorded its outcome yet, if any
  stack,      \* finish() calls iterating over dependents, innermost last
  kids,       \* kids[t]: dependents that the call for t has not visited yet
  (* futures and the cancellation token *)
  future,     \* future[r][t]: the _run_task coroutine of t in execution r
  attempt,    \* attempt[r][t]: its attempt number
  cancelled,  \* the token is set
  cancelling, \* futures that were sent cancel() and have not reacted
  outcome,    \* what the latest execute() returned or raised
  (* history *)
  invoked,    \* invoked[t]: times the handler of t was called
  inputs,     \* inputs[t]: dependencies whose output its last start received
  closed      \* the checkpoints that the latest execution restored are closed
              \* under dependencies: no restored task depends on one to be run

journal == <<begun, logged, checkpoint>>
graph   == <<results, pending, rejected, ready, remaining, completed>>
calls   == <<finishing, stack, kids>>
loops   == <<running, batch, sweep>>
workers == <<future, attempt, cancelling>>
history == <<invoked, inputs, closed>>
vars == <<journal, run, phase, graph, loops, calls, workers, cancelled, outcome,
          history>>

--------------------------------------------------------------------------------
(* Vocabulary *)

Runs        == 1..MaxRuns
Terminal    == {"succeeded", "failed", "skipped", "cancelled"}
TaskEvents  == Terminal \cup {"running"}
Phases      == {"idle", "loop", "drain", "capture", "sweep", "close"}
Live        == {"reported", "invoking", "sleeping"}
Done        == {"ok", "failed", "cancelled"}
Outcomes    == {"none", "succeeded", "partial", "failed", "cancelled",
                "refused", "raised"}
Calls       == [task : Task, status : Terminal, saved : BOOLEAN]
Call(t, s)  == [task |-> t, status |-> s, saved |-> FALSE]

IsFirst(t, S) == t \in S /\ \A u \in S : t <= u
Dependents(t) == {c \in Task : t \in Deps[c]}
ClosedUnderDeps(S) == \A t \in S : Deps[t] \subseteq S
Top           == stack[Len(stack)]
Idle          == finishing = {} /\ stack = <<>>   \* no finish() in progress

NoFutures  == [t \in Task |-> "none"]
NoAttempts == [t \in Task |-> 0]
(* What execute() leaves running when it ends. *)
OnlyLive(futures) == [t \in Task |-> IF futures[t] \in Live THEN futures[t] ELSE "none"]

(* Mutant: a task that was running when the process died is not uncertain. *)
UncertainIfEnded ==
  {t \in Task : \E e \in {"failed", "cancelled"} : <<e, t>> \in logged} \ checkpoint

(* Tasks of a prior execution whose effect is not known: they ran, failed or *)
(* were cancelled and left no checkpoint.                                    *)
Uncertain ==
  {t \in Task : \E e \in {"running", "failed", "cancelled"} : <<e, t>> \in logged}
    \ checkpoint

TypeOK ==
  /\ begun \in BOOLEAN
  /\ logged \subseteq TaskEvents \X Task
  /\ checkpoint \subseteq Task
  /\ run \in 0..MaxRuns
  /\ phase \in Phases
  /\ phase # "idle" => run \in Runs
  /\ results \in [Task -> Terminal \cup {"none"}]
  /\ pending \in [Task -> SUBSET Task]
  /\ rejected \subseteq Task
  /\ ready \subseteq Task
  /\ remaining \subseteq Task
  /\ completed \in Nat
  /\ running \subseteq Task
  /\ batch \subseteq Task
  /\ sweep \subseteq Task
  /\ finishing \subseteq Calls
  /\ stack \in Seq(Task)
  /\ kids \in [Task -> SUBSET Task]
  /\ future \in [Runs -> [Task -> Live \cup Done \cup {"none"}]]
  /\ attempt \in [Runs -> [Task -> Nat]]
  /\ cancelled \in BOOLEAN
  /\ cancelling \subseteq Task
  /\ outcome \in Outcomes
  /\ invoked \in [Task -> Nat]
  /\ inputs \in [Task -> SUBSET Task]
  /\ closed \in BOOLEAN

--------------------------------------------------------------------------------
(* Starting an execution *)

(* Mutants: every task is ready; a restored task is ready again; none is.     *)
GraphOf(done, readyTasks) ==
  /\ results' = [t \in Task |-> IF t \in done THEN "succeeded" ELSE "none"]
  /\ pending' = [t \in Task |-> Deps[t] \ done]
  /\ rejected' = {} /\ ready' = readyTasks
  /\ remaining' = Task \ done /\ completed' = Cardinality(done)
InitialGraphUnordered(done) == GraphOf(done, Task \ done)
InitialGraphForgetful(done) ==
  GraphOf(done, {t \in Task : Deps[t] \subseteq done})
InitialGraphStalled(done) == GraphOf(done, {})

(* The locals of execute() when the checkpoints done are restored. *)
InitialGraph(done) ==
  /\ results' = [t \in Task |-> IF t \in done THEN "succeeded" ELSE "none"]
  /\ pending' = [t \in Task |-> Deps[t] \ done]
  /\ rejected' = {}
  /\ ready' = {t \in Task \ done : Deps[t] \subseteq done}
  /\ remaining' = Task \ done
  /\ completed' = Cardinality(done)

StartRun(done) ==
  /\ run' = run + 1
  /\ phase' = "loop"
  /\ InitialGraph(done)
  /\ cancelled' = FALSE
  /\ outcome' = "none"
  /\ inputs' = [t \in Task |-> IF t \in done THEN inputs[t] ELSE {}]
  /\ closed' = ClosedUnderDeps(done)
  /\ UNCHANGED <<logged, checkpoint, loops, calls, workers, invoked>>

(* execute(plan): journal.begin refuses a plan it already holds. *)
Execute ==
  /\ phase = "idle" /\ run < MaxRuns
  /\ ~begun
  /\ begun' = TRUE
  /\ StartRun({})

(* execute(plan, resume=True) when no uncertain task forbids it. *)
Resume ==
  /\ phase = "idle" /\ run < MaxRuns
  /\ begun
  /\ Uncertain \subseteq RetrySafe
  /\ UNCHANGED begun
  /\ StartRun(checkpoint)

(* ... and when one does: ExecutionError, nothing is started. *)
RefuseResume ==
  /\ phase = "idle"
  /\ begun
  /\ ~ (Uncertain \subseteq RetrySafe)
  /\ outcome' = "refused"
  /\ UNCHANGED <<journal, run, phase, graph, loops, calls, workers, cancelled, history>>

--------------------------------------------------------------------------------
(* The scheduling loop *)

(* Pop the first ready task, create its future and hand it the outputs of its *)
(* successful dependencies.  asyncio.wait suspends the scheduler until every  *)
(* created coroutine has taken its first step, which records task.running, so *)
(* creation and that record are one step.  A restarted dependency may push a  *)
(* task that is running: its second future waits here for the end of the first.*)
StartTask(t) ==
  /\ phase = "loop" /\ Idle /\ batch = {} /\ ~cancelled
  /\ IsFirst(t, ready) /\ t \notin running
  /\ Cardinality(running) < Concurrency
  /\ ready' = ready \ {t}
  /\ running' = running \cup {t}
  /\ logged' = logged \cup {<<"running", t>>}
  /\ future' = [future EXCEPT ![run][t] = "reported"]
  /\ attempt' = [attempt EXCEPT ![run][t] = 0]
  /\ inputs' = [inputs EXCEPT ![t] = {d \in Deps[t] : results[d] = "succeeded"}]
  /\ UNCHANGED <<begun, checkpoint, run, phase, results, pending, rejected, remaining,
                 completed, batch, sweep, calls, cancelling, cancelled, outcome, invoked,
                 closed>>

(* The scheduler awaits asyncio.wait(running and the token's waiter). *)
AtWait ==
  /\ phase = "loop" /\ Idle /\ batch = {}
  /\ running # {}
  /\ \/ ready = {} \/ Cardinality(running) >= Concurrency \/ cancelled
     \/ \E t \in running : IsFirst(t, ready)

(* It returns every future done by then; they are finished before the loop *)
(* looks at the token.                                                     *)
Collect ==
  /\ AtWait
  /\ batch' = {t \in running : future[run][t] \in Done}
  /\ batch' # {}
  /\ UNCHANGED <<journal, run, phase, graph, running, sweep, calls, workers, cancelled,
                 outcome, history>>

StatusOf(state) ==
  CASE state = "ok"     -> "succeeded"
    [] state = "failed" -> "failed"
    [] OTHER            -> "cancelled"

(* The next completed future, in task order, is popped and finished. *)
FinishCompleted(t) ==
  /\ phase = "loop" /\ Idle
  /\ IsFirst(t, batch)
  /\ batch' = batch \ {t}
  /\ running' = running \ {t}
  /\ finishing' = {Call(t, StatusOf(future[run][t]))}
  /\ UNCHANGED <<journal, run, phase, graph, sweep, stack, kids, workers, cancelled,
                 outcome, history>>

(* Leaving the loop: nothing is left to run, or the token is set.  The running *)
(* futures are cancelled only if some task is unresolved.                       *)
LeaveLoop ==
  /\ phase = "loop" /\ Idle /\ batch = {}
  /\ cancelled \/ (ready = {} /\ running = {})
  /\ IF remaining = {}
       THEN phase' = "close" /\ UNCHANGED cancelling
       ELSE phase' = "drain" /\ cancelling' = {t \in running : future[run][t] \in Live}
  /\ UNCHANGED <<journal, run, graph, loops, calls, future, attempt, cancelled, outcome,
                 history>>

(* The caller cancels the coroutine that awaits execute().  The CancelledError *)
(* arrives at asyncio.wait or at the progress callback awaited inside finish,  *)
(* in which case the finish() calls in progress are abandoned.                 *)
CallerCancels ==
  /\ \/ AtWait
     \/ phase = "loop" /\ finishing = {} /\ stack # <<>> /\ kids[Top] = Dependents(Top)
  /\ cancelled' = TRUE
  /\ batch' = {} /\ stack' = <<>>
  /\ kids' = [t \in Task |-> {}]
  /\ IF remaining = {}
       THEN phase' = "close" /\ UNCHANGED cancelling
       ELSE phase' = "drain" /\ cancelling' = {t \in running : future[run][t] \in Live}
  /\ UNCHANGED <<journal, run, graph, running, sweep, finishing, future, attempt, outcome,
                 history>>

(* ExecutionCancellationToken.cancel() *)
Cancel ==
  /\ phase # "idle" /\ ~cancelled
  /\ cancelled' = TRUE
  /\ UNCHANGED <<journal, run, phase, graph, loops, calls, workers, outcome, history>>

--------------------------------------------------------------------------------
(* finish(task, outcome) *)

(* Encoding the output of a successful outcome and storing its checkpoint, or  *)
(* recording task.checkpoint_unavailable when the codec cannot encode it.      *)
SaveCheckpoint ==
  /\ \E f \in finishing : \E e \in EncodeOutcomes :
       /\ f.status = "succeeded" /\ ~f.saved
       /\ \/ e = "encoding_error" /\ UNCHANGED checkpoint
          \/ e = "encoded" /\ f.task \notin checkpoint
               /\ checkpoint' = checkpoint \cup {f.task}
       /\ finishing' = {[f EXCEPT !.saved = TRUE]}
  /\ UNCHANGED <<begun, logged, run, phase, graph, loops, stack, kids, workers, cancelled,
                 outcome, history>>

(* The plain TypeError for a type without a codec, and the ValidationError for a *)
(* checkpoint that exists with other content (its record holds the attempt's     *)
(* times, so a second success never equals the first), are not caught:           *)
(* execute() raises and its other futures go on running.                         *)
RaiseFromFinish ==
  /\ \E f \in finishing :
       /\ f.status = "succeeded" /\ ~f.saved
       /\ \/ "no_codec" \in EncodeOutcomes
          \/ "encoded" \in EncodeOutcomes /\ f.task \in checkpoint
  /\ phase' = "idle" /\ outcome' = "raised"
  /\ running' = {} /\ batch' = {} /\ sweep' = {}
  /\ finishing' = {} /\ stack' = <<>> /\ kids' = [t \in Task |-> {}]
  /\ future' = [future EXCEPT ![run] = OnlyLive(@)]
  /\ UNCHANGED <<journal, run, graph, attempt, cancelling, cancelled, history>>

(* The outcome is journalled, stored and counted; the loop over dependents begins. *)
RecordOutcome ==
  /\ \E f \in finishing :
       /\ f.status = "succeeded" => f.saved
       /\ logged' = logged \cup {<<f.status, f.task>>}
       /\ results' = [results EXCEPT ![f.task] = f.status]
       /\ remaining' = remaining \ {f.task}
       /\ stack' = Append(stack, f.task)
       /\ kids' = [kids EXCEPT ![f.task] = Dependents(f.task)]
  /\ completed' = completed + 1
  /\ finishing' = {}
  /\ UNCHANGED <<begun, checkpoint, run, phase, pending, rejected, ready, loops, workers,
                 cancelled, outcome, history>>

(* Mutant: only a cancelled dependency rejects. *)
RejectsCancelled(status, c) == status = "cancelled"

(* Does outcome status of a dependency reject the dependent c? *)
Rejects(status, c) ==
  \/ status = "cancelled"
  \/ status \in {"failed", "skipped"} /\ c \notin AcceptPartial

(* The innermost finish() visits its next dependent, which waits on, is skipped *)
(* (a nested finish) or becomes ready.                                          *)
VisitDependent(c) ==
  /\ finishing = {} /\ stack # <<>>
  /\ IsFirst(c, kids[Top])
  /\ kids' = [kids EXCEPT ![Top] = @ \ {c}]
  /\ rejected' = IF Rejects(results[Top], c) THEN rejected \cup {c} ELSE rejected
  /\ pending' = [pending EXCEPT ![c] = @ \ {Top}]
  /\ \/ /\ pending'[c] # {}
        /\ UNCHANGED <<finishing, ready>>
     \/ /\ pending'[c] = {} /\ c \in rejected'
        /\ finishing' = {Call(c, "skipped")}
        /\ UNCHANGED ready
     \/ /\ pending'[c] = {} /\ c \notin rejected'
        /\ ready' = ready \cup {c}
        /\ UNCHANGED finishing
  /\ UNCHANGED <<journal, run, phase, results, remaining, completed, loops, stack, workers,
                 cancelled, outcome, history>>

ReturnFromFinish ==
  /\ finishing = {} /\ stack # <<>>
  /\ kids[Top] = {}
  /\ stack' = SubSeq(stack, 1, Len(stack) - 1)
  /\ UNCHANGED <<journal, run, phase, graph, loops, finishing, kids, workers, cancelled,
                 outcome, history>>

--------------------------------------------------------------------------------
(* _run_task: the coroutine of task t started by execution r *)

SetFuture(r, t, state) == future' = [future EXCEPT ![r][t] = state]

Untouched == UNCHANGED <<journal, run, phase, graph, loops, calls, cancelled, outcome>>

(* The coroutine may go on: no cancel() is waiting for it. *)
MayStep(r, t) == ~ (r = run /\ t \in cancelling)

(* Attempt 1, or the next one after the retry delay: the handler is called. *)
Invoke(r, t) ==
  /\ MayStep(r, t)
  /\ future[r][t] \in {"reported", "sleeping"}
  /\ SetFuture(r, t, "invoking")
  /\ attempt' = [attempt EXCEPT ![r][t] = @ + 1]
  /\ invoked' = [invoked EXCEPT ![t] = @ + 1]
  /\ UNCHANGED <<cancelling, inputs, closed>> /\ Untouched

HandlerReturns(r, t) ==
  /\ MayStep(r, t)
  /\ future[r][t] = "invoking"
  /\ SetFuture(r, t, "ok")
  /\ UNCHANGED <<attempt, cancelling, history>> /\ Untouched

(* A timeout or a recoverable SatQueryError, retried if the contract allows. *)
HandlerRetries(r, t) ==
  /\ MayStep(r, t)
  /\ future[r][t] = "invoking"
  /\ t \in RetrySafe /\ attempt[r][t] < MaxAttempts[t]
  /\ SetFuture(r, t, "sleeping")
  /\ UNCHANGED <<attempt, cancelling, history>> /\ Untouched

(* Any other exception, or no attempt left. *)
HandlerFails(r, t) ==
  /\ MayStep(r, t)
  /\ future[r][t] = "invoking"
  /\ SetFuture(r, t, "failed")
  /\ UNCHANGED <<attempt, cancelling, history>> /\ Untouched

(* future.cancel() reaches the coroutine at its await. *)
FutureCancelled(t) ==
  /\ t \in cancelling
  /\ cancelling' = cancelling \ {t}
  /\ SetFuture(run, t, "cancelled")
  /\ UNCHANGED <<attempt, history>> /\ Untouched

(* A coroutine handler catches the CancelledError and goes on. *)
CancelSwallowed(t) ==
  /\ t \in cancelling \cap AsyncHandler
  /\ future[run][t] = "invoking"
  /\ cancelling' = cancelling \ {t}
  /\ UNCHANGED <<future, attempt, history>> /\ Untouched

--------------------------------------------------------------------------------
(* The epilogue of a cancelled execution *)

(* Mutant: the drain waits for futures that were never cancelled to succeed. *)
DrainedIfOk ==
  /\ phase = "drain"
  /\ \A t \in running : future[run][t] = "ok"
  /\ phase' = "capture"
  /\ UNCHANGED <<journal, run, graph, loops, calls, workers, cancelled, outcome, history>>

(* asyncio.gather(running) *)
Drained ==
  /\ phase = "drain"
  /\ \A t \in running : future[run][t] \in Done
  /\ phase' = "capture"
  /\ UNCHANGED <<journal, run, graph, loops, calls, workers, cancelled, outcome, history>>

(* A future that completed concurrently with the cancellation keeps its outcome. *)
(* (The code follows the order in which the futures were created.)              *)
Capture(t) ==
  /\ phase = "capture" /\ Idle
  /\ t \in running /\ future[run][t] \in {"ok", "failed"}
  /\ running' = running \ {t}
  /\ finishing' = {Call(t, StatusOf(future[run][t]))}
  /\ UNCHANGED <<journal, run, phase, graph, batch, sweep, stack, kids, workers,
                 cancelled, outcome, history>>

(* for task_id in sorted(remaining): the set is sorted once, before the loop. *)
BeginSweep ==
  /\ phase = "capture" /\ Idle
  /\ \A t \in running : future[run][t] = "cancelled"
  /\ phase' = "sweep"
  /\ running' = {}
  /\ sweep' = remaining
  /\ UNCHANGED <<journal, run, graph, batch, calls, workers, cancelled, outcome, history>>

SweepTask(t) ==
  /\ phase = "sweep" /\ Idle
  /\ IsFirst(t, sweep)
  /\ sweep' = sweep \ {t}
  /\ finishing' = {Call(t, "cancelled")}
  /\ UNCHANGED <<journal, run, phase, graph, running, batch, stack, kids, workers,
                 cancelled, outcome, history>>

EndSweep ==
  /\ phase = "sweep" /\ Idle /\ sweep = {}
  /\ phase' = "close"
  /\ UNCHANGED <<journal, run, graph, loops, calls, workers, cancelled, outcome, history>>

(* Mutant: one success makes the execution a success. *)
ResultStatusOptimistic ==
  LET statuses == {results[t] : t \in Task} IN
    IF "cancelled" \in statuses THEN "cancelled"
    ELSE IF "succeeded" \in statuses THEN "succeeded" ELSE "failed"

(* The status of the ExecutionResult. *)
ResultStatus ==
  LET statuses == {results[t] : t \in Task} IN
    IF "cancelled" \in statuses THEN "cancelled"
    ELSE IF "failed" \in statuses
      THEN IF "succeeded" \in statuses THEN "partial" ELSE "failed"
    ELSE "succeeded"

(* A future is left running when every task was resolved: one that a restarted *)
(* dependency started again.                                                   *)
Return ==
  /\ phase = "close"
  /\ phase' = "idle"
  /\ outcome' = ResultStatus
  /\ future' = [future EXCEPT ![run] = OnlyLive(@)]
  /\ attempt' = [attempt EXCEPT ![run] =
                   [t \in Task |-> IF future[run][t] \in Live THEN @[t] ELSE 0]]
  /\ running' = {}
  /\ UNCHANGED <<journal, run, graph, batch, sweep, calls, cancelling, cancelled, history>>

(* The process dies: only the journal remains. *)
Crash ==
  /\ phase # "idle" \/ \E r \in Runs : \E t \in Task : future[r][t] \in Live
  /\ phase' = "idle" /\ outcome' = "none"
  /\ results' = [t \in Task |-> "none"]
  /\ pending' = [t \in Task |-> {}]
  /\ rejected' = {} /\ ready' = {} /\ remaining' = {} /\ completed' = 0
  /\ running' = {} /\ batch' = {} /\ sweep' = {}
  /\ finishing' = {} /\ stack' = <<>> /\ kids' = [t \in Task |-> {}]
  /\ future' = [r \in Runs |-> NoFutures]
  /\ attempt' = [r \in Runs |-> NoAttempts]
  /\ cancelling' = {} /\ cancelled' = FALSE
  /\ UNCHANGED <<journal, run, history>>

--------------------------------------------------------------------------------
(* Specification *)

Init ==
  /\ begun = FALSE /\ logged = {} /\ checkpoint = {}
  /\ run = 0 /\ phase = "idle" /\ outcome = "none"
  /\ results = [t \in Task |-> "none"]
  /\ pending = [t \in Task |-> {}]
  /\ rejected = {} /\ ready = {} /\ remaining = {} /\ completed = 0
  /\ running = {} /\ batch = {} /\ sweep = {}
  /\ finishing = {} /\ stack = <<>> /\ kids = [t \in Task |-> {}]
  /\ future = [r \in Runs |-> NoFutures]
  /\ attempt = [r \in Runs |-> NoAttempts]
  /\ cancelled = FALSE /\ cancelling = {}
  /\ invoked = [t \in Task |-> 0]
  /\ inputs = [t \in Task |-> {}]
  /\ closed = TRUE

Finish == SaveCheckpoint \/ RaiseFromFinish \/ RecordOutcome \/ ReturnFromFinish
            \/ \E c \in Task : VisitDependent(c)

Scheduler ==
  \/ Collect \/ LeaveLoop \/ Drained \/ BeginSweep \/ EndSweep \/ Return
  \/ \E t \in Task : StartTask(t) \/ FinishCompleted(t) \/ Capture(t) \/ SweepTask(t)

Coroutine(r, t) ==
  Invoke(r, t) \/ HandlerReturns(r, t) \/ HandlerRetries(r, t) \/ HandlerFails(r, t)

CancelReaches(t) == FutureCancelled(t) \/ CancelSwallowed(t)

Next ==
  \/ Execute \/ Resume \/ RefuseResume
  \/ Scheduler \/ Finish
  \/ \E r \in Runs : \E t \in Task : Coroutine(r, t)
  \/ \E t \in Task : CancelReaches(t)
  \/ Cancel \/ CallerCancels \/ Crash

(* The event loop keeps running what is runnable and handlers end; nobody is *)
(* obliged to start, resume, cancel or kill an execution.                    *)
Fairness ==
  /\ WF_vars(Scheduler) /\ WF_vars(Finish)
  /\ \A r \in Runs : \A t \in Task : WF_vars(Coroutine(r, t))
  /\ \A t \in Task : WF_vars(CancelReaches(t))

Spec == Init /\ [][Next]_vars
FairSpec == Spec /\ Fairness
================================================================================
