-------------------------- MODULE ExecutionEngineProps -------------------------
(* What the scheduler and its journal promise together. *)
EXTENDS ExecutionEngine

Unsafe == Task \ RetrySafe

(* Whatever happens - failures, cancellations, crashes, exceptions and any   *)
(* number of resumptions - the handler of a task that is not declared retry  *)
(* safe is called at most once (the guard of execute on resume, with the     *)
(* order "journal task.running, then call the handler" of _run_task).        *)
UnsafeAtMostOnce == \A t \in Unsafe : invoked[t] <= 1

(* In the loop a task is started only after all its dependencies are         *)
(* resolved; none was cancelled, and only a task that accepts partial        *)
(* dependencies starts after a failed or skipped one.  Not in an execution   *)
(* that restored a task without a dependency of it: that one runs again      *)
(* beside the dependents of the restored task.                               *)
StartedAfterDependencies ==
  closed => \A t \in running : \A d \in Deps[t] :
    \/ results[d] = "succeeded"
    \/ results[d] \in {"failed", "skipped"} /\ t \in AcceptPartial

(* A strict task that succeeded consumed the output of every dependency, in  *)
(* whichever execution it ran.                                               *)
StrictSawAllInputs ==
  \A t \in Task \ AcceptPartial : results[t] = "succeeded" => inputs[t] = Deps[t]

(* "Execution stalled with unresolved tasks" cannot be raised: while the     *)
(* loop has nothing ready, running or in a finish() call, nothing is         *)
(* unresolved.                                                               *)
NeverStalls ==
  (phase = "loop" /\ Idle /\ batch = {} /\ ready = {} /\ running = {}) => remaining = {}

(* Every execution ends, whatever its handlers return. *)
ExecutionEnds == (phase # "idle") ~> (phase = "idle")

--------------------------------------------------------------------------------
(* The inductive invariant behind UnsafeAtMostOnce.  It needs checkpoints to *)
(* be closed under dependencies, which holds when no task accepts partial    *)
(* dependencies and every successful output is checkpointed or raises.       *)

StrictPlan == AcceptPartial = {} /\ "encoding_error" \notin EncodeOutcomes

WasRun(t) == <<"running", t>> \in logged

(* The journal entry precedes every future and every call of a handler. *)
JournalledFirst ==
  /\ \A r \in Runs : \A t \in Task : future[r][t] # "none" => WasRun(t)
  /\ \A t \in Task : invoked[t] > 0 => WasRun(t)
  /\ cancelling \subseteq {t \in Task : WasRun(t)}
  /\ ~begun => logged = {} /\ phase = "idle" /\ finishing = {} /\ stack = <<>>

(* One coroutine at most is about to call the handler of an unsafe task, and *)
(* only when nobody has.                                                      *)
OneCaller ==
  \A t \in Unsafe : \A r \in Runs :
    /\ future[r][t] # "sleeping"
    /\ future[r][t] = "reported" =>
         invoked[t] = 0 /\ \A q \in Runs \ {r} : future[q][t] # "reported"

(* Until the sweep, the results that execute() has are those of finish() calls. *)
Resolving == phase \in {"loop", "drain", "capture"}

(* What an unresolved task looks like. *)
UnresolvedGraph ==
  Resolving =>
    /\ \A t \in Task : results[t] = "none" => \A c \in Dependents(t) : t \in pending[c]
    /\ \A t \in Task : \A c \in kids[t] : t \in pending[c] /\ results[t] # "none"
    /\ \A t \in Task : pending[t] # {} =>
         results[t] = "none" /\ t \notin ready \cup running
    /\ \A t \in ready \cup running : results[t] = "none"
    /\ ready \cap running = {}
    /\ batch \subseteq running
    /\ \A f \in finishing :
         /\ results[f.task] = "none" /\ pending[f.task] = {}
         /\ f.task \notin ready \cup running

(* A task the loop has not started has not been started before, unless it may be. *)
LoopFresh ==
  phase = "loop" =>
    \A t \in Unsafe : t \in ready \/ pending[t] # {} => ~WasRun(t)

(* Checkpoints are closed under dependencies, and so is everything that leads *)
(* to one.                                                                    *)
CheckpointsClosed ==
  /\ \A t \in checkpoint : Deps[t] \subseteq checkpoint
  /\ \A t \in running : Deps[t] \subseteq checkpoint
  /\ \A f \in finishing : f.status = "succeeded" =>
       Deps[f.task] \subseteq checkpoint /\ (f.saved => f.task \in checkpoint)
  /\ phase = "loop" =>
       /\ \A t \in ready : Deps[t] \subseteq checkpoint
       /\ \A t \in Task : results[t] = "succeeded" => t \in checkpoint
       /\ \A c \in Task \ rejected : Deps[c] \ pending[c] \subseteq checkpoint

(* finish() calls and completed futures do not outlive the part of execute() *)
(* that handles them, and every dependent left to visit belongs to a call.    *)
CallsNest ==
  /\ phase # "loop" => batch = {}
  /\ phase \in {"idle", "drain", "close"} => Idle
  /\ phase = "idle" => running = {}
  /\ \A t \in Task : kids[t] # {} => \E i \in 1..Len(stack) : stack[i] = t

SafetyInv ==
  /\ UnsafeAtMostOnce /\ CallsNest
  /\ JournalledFirst /\ OneCaller /\ UnresolvedGraph /\ LoopFresh /\ CheckpointsClosed

--------------------------------------------------------------------------------
(* The inductive invariants behind the other properties and the refinement.  *)
(* The first holds for every plan; the second for plans whose checkpoints are *)
(* closed under dependencies when they are resumed, which those of a plan are *)
(* that is strict, or executed once; the third for strict plans.              *)

FirstOrStrict == StrictPlan \/ MaxRuns <= 1

(* A topological order of the plan. *)
Order == CHOOSE rank \in [Task -> 0..Cardinality(Task)] :
          \A t \in Task : \A d \in Deps[t] : rank[d] < rank[t]

(* What remains is what has no result, until a finish() call records one; the *)
(* sweep leaves nothing behind.                                               *)
OneFinish ==
  /\ \A f, g \in finishing : f = g
  /\ \A f \in finishing : f.saved => f.status = "succeeded"
  /\ phase # "idle" => remaining = {t \in Task : results[t] = "none"}
  /\ phase = "sweep" => remaining \subseteq sweep \cup {f.task : f \in finishing}
  /\ phase = "close" => remaining = {}

(* The loop loses no task: one that waits for nothing is ready, running or in *)
(* finish(), and one that waits is a dependent left to visit, or waits for an *)
(* unresolved task.                                                           *)
NothingLost ==
  phase = "loop" =>
    /\ \A t \in remaining : pending[t] = {} =>
         t \in ready \cup running \cup {f.task : f \in finishing}
    /\ \A c \in Task : \A d \in pending[c] :
         d \in Deps[c] /\ (d \in remaining \/ c \in kids[d])

(* The futures of the latest execution are in its dictionary while they live, *)
(* and only those are cancelled; the handler of a task that has an outcome of *)
(* its own was called.                                                        *)
FuturesHeld ==
  /\ \A r \in Runs : r > run => future[r] = NoFutures
  /\ phase # "idle" => \A t \in Task : future[run][t] \in Live => t \in running
  /\ \A t \in batch : future[run][t] \in Done
  /\ phase = "capture" => \A t \in running : future[run][t] \in Done
  /\ phase # "drain" => cancelling = {}
  /\ \A t \in cancelling : t \in running /\ future[run][t] \in Live
  /\ \A r \in Runs : \A t \in Task :
       future[r][t] \in {"invoking", "sleeping", "ok", "failed"} => invoked[t] > 0
  /\ \A f \in finishing : f.status = "succeeded" => invoked[f.task] > 0

(* Nothing is cancelled unless the token is set. *)
TokenSet ==
  phase # "idle" /\ ~cancelled =>
    /\ phase \in {"loop", "close"}
    /\ \A t \in Task : results[t] # "cancelled" /\ future[run][t] # "cancelled"
    /\ \A f \in finishing : f.status # "cancelled"

(* The calls that a swept task's finish() makes are for tasks behind it in the *)
(* order, so that they leave its outcome alone.                                *)
SweepNests ==
  /\ \A t \in Task : kids[t] \subseteq Dependents(t)
  /\ phase = "sweep" =>
       /\ stack = <<>> => \A f \in finishing : f.status = "cancelled"
       /\ stack # <<>> =>
            /\ results[stack[1]] = "cancelled"
            /\ \A i \in 2..Len(stack) : Order[stack[1]] < Order[stack[i]]
            /\ \A f \in finishing : Order[stack[1]] < Order[f.task] /\ f.status = "skipped"

SchedulerInv ==
  CallsNest /\ OneFinish /\ NothingLost /\ FuturesHeld /\ TokenSet /\ SweepNests

(* The outcome of dependency d lets c start. *)
Accepted(d, c) ==
  \/ results[d] = "succeeded"
  \/ results[d] \in {"failed", "skipped"} /\ c \in AcceptPartial

(* A dependency that a task no longer waits for has an outcome it accepts. *)
ReadyAccepts ==
  /\ Resolving =>
       /\ \A c \in Task \ rejected : \A d \in Deps[c] \ pending[c] : Accepted(d, c)
       /\ rejected \cap (ready \cup running) = {}
  /\ phase \in {"sweep", "close"} => running = {}

(* A strict task holds the outputs of all its dependencies from its start on. *)
InputsKept ==
  /\ \A t \in Task \ AcceptPartial :
       t \in running \cup checkpoint \/ results[t] = "succeeded" => inputs[t] = Deps[t]
  /\ \A f \in finishing :
       f.status = "succeeded" /\ f.task \notin AcceptPartial => inputs[f.task] = Deps[f.task]

(* Nothing is skipped unless something failed or was cancelled. *)
HonestSkips ==
  phase # "idle" /\ (\A t \in Task : results[t] \notin {"failed", "cancelled"}) =>
    /\ rejected = {}
    /\ \A t \in Task : results[t] # "skipped"
    /\ \A f \in finishing : f.status # "skipped"

GraphInv == UnresolvedGraph /\ ReadyAccepts /\ InputsKept /\ HonestSkips

(* Of a strict plan, what succeeded is what is checkpointed: the sweep never   *)
(* takes a success back.                                                       *)
SucceededIsSecured ==
  phase # "idle" =>
    /\ \A t \in checkpoint :
         results[t] = "succeeded" \/ \E f \in finishing : f.task = t /\ f.saved
    /\ \A t \in Task : results[t] = "succeeded" => t \in checkpoint
    /\ phase = "sweep" =>
         /\ sweep \cap checkpoint = {}
         /\ \A f \in finishing : f.status # "succeeded" /\ f.task \notin checkpoint
         /\ \A t \in Task : kids[t] # {} => results[t] # "succeeded"

--------------------------------------------------------------------------------
(* A statement of the repository that the code does not satisfy. *)

(* execution.py, before the epilogue: "recording the remaining nodes as      *)
(* cancelled".  A node that is not remaining any more - skipped because the  *)
(* sweep cancelled its dependency - is not recorded as cancelled.            *)
OnlyRemainingCancelled ==
  \A f \in finishing : phase = "sweep" => results[f.task] = "none"
================================================================================
