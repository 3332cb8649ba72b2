-------------------------- MODULE MonitoringTriggers --------------------------
(***************************************************************************)
(* Trigger policies of a monitoring schedule: how run_due_monitoring       *)
(* recovers the follow-up investigations it started before, then evaluates *)
(* the policies and starts new ones (PlatformRuntime in                    *)
(* satquery/platform/runtime.py).                                          *)
(*                                                                         *)
(* An evaluation is a policy and a diagnostic (the identity digest); its   *)
(* follow-up is one investigation with a deterministic identifier.  Every  *)
(* event is appended and every status committed on its own, so that the    *)
(* process may die between any two; the pass yields to the event loop only *)
(* while a follow-up executes.  One process, in which                      *)
(* _monitoring_trigger_lock admits one pass at a time; one schedule.       *)
(***************************************************************************)
EXTENDS Naturals

CONSTANTS
  Evaluation,
  Rank,             \* the order of events and of diagnostics
  Policy, PolicyOf,
  Matching,         \* evaluations whose diagnostic satisfies the policy
  Cooldown,         \* cooldown_seconds
  MaxAttempts,      \* max_attempts
  Budget,           \* max_triggered_investigations_per_tick
  MayCrash,         \* TRUE: the process may die
  MaxTime,          \* bound: the clock
  MaxDisturbances   \* bound: crashes, cancelled passes, other executions

ASSUME EvaluationAssumption ==
  /\ Rank \in [Evaluation -> Nat]
  /\ \A e, f \in Evaluation : Rank[e] = Rank[f] => e = f
  /\ PolicyOf \in [Evaluation -> Policy]
  /\ Matching \subseteq Evaluation
ASSUME LimitAssumption ==
  /\ Cooldown \in Nat /\ MaxTime \in Nat /\ MaxDisturbances \in Nat
  /\ MaxAttempts \in Nat \ {0} /\ Budget \in Nat \ {0}
  /\ MayCrash \in BOOLEAN

VARIABLES
  now, disturbances,
  (* the event log *)
  matched,     \* occurred_at of the trigger_matched event, or NoEvent
  suppressed,  \* trigger_suppressed_cooldown was recorded
  created,     \* trigger_investigation_created was recorded
  failures,    \* trigger_investigation_failed events, up to MaxAttempts
  terminal,    \* the investigation-terminal event
  (* investigations *)
  status,      \* of the follow-up, "none" before it exists
  begun,       \* its plan is in the execution journal
  (* memory of the process *)
  others,      \* follow-ups that requests outside the pass execute
  phase,       \* what the pass is in
  step,        \* where it is with the first evaluation of todo
  todo,        \* the evaluations it has not handled yet
  instant,     \* the clock it has read
  recovered, launched  \* what it has used of the budget

events  == <<matched, suppressed, created, failures, terminal>>
store   == <<status, begun>>
counts  == <<recovered, launched>>
pass    == <<phase, step, todo, instant, counts>>
vars    == <<now, disturbances, events, store, others, pass>>

NoEvent == MaxTime + 1

Unfinished == {"pending", "running"}
Successful == {"completed", "partial"}
Ended      == Successful \cup {"failed", "cancelled"}

TypeOK ==
  /\ now \in 0..MaxTime /\ disturbances \in 0..MaxDisturbances
  /\ matched \in [Evaluation -> 0..NoEvent]
  /\ suppressed \subseteq Evaluation /\ created \subseteq Evaluation
  /\ failures \in [Evaluation -> 0..MaxAttempts]
  /\ terminal \in [Evaluation -> {"none", "completed", "failed"}]
  /\ status \in [Evaluation -> {"none"} \cup Unfinished \cup Ended]
  /\ begun \in [Evaluation -> BOOLEAN]
  /\ others \subseteq Evaluation
  /\ phase \in {"idle", "recovering", "evaluating"}
  /\ step \in {"next", "matched", "found", "announced", "opened", "executing",
               "ended", "raised", "recorded"}
  /\ todo \subseteq Evaluation
  /\ instant \in 0..MaxTime
  /\ recovered \in Nat /\ launched \in Nat

--------------------------------------------------------------------------------
(* The pass *)

First(e) == e \in todo /\ \A f \in todo : Rank[e] <= Rank[f]

At(p, s, e) == phase = p /\ step = s /\ First(e)

(* The pass goes on with the next evaluation. *)
Advance(e) == todo' = todo \ {e} /\ step' = "next"

Reset ==
  /\ phase' = "idle" /\ step' = "next" /\ todo' = {}
  /\ instant' = 0 /\ recovered' = 0 /\ launched' = 0

(* Mutant: chains that have ended are recovered again. *)
ChainsEver == created
(* Follow-ups that were announced and have no terminal event. *)
Chains == {e \in created : terminal[e] = "none"}

(* run_due_monitoring takes the lock; the recovery lists its chains. *)
BeginPass ==
  /\ phase = "idle"
  /\ phase' = "recovering" /\ todo' = Chains
  /\ UNCHANGED <<now, disturbances, events, store, others, step, instant, counts>>

Outcome(e) == IF status[e] \in Successful THEN "completed" ELSE "failed"

(* The identifier of the terminal event is inserted once. *)
RecordTerminal(e) ==
  terminal' = [terminal EXCEPT ![e] = IF @ = "none" THEN Outcome(e) ELSE @]

--------------------------------------------------------------------------------
(* execute_investigation, as InvestigationLifecycle has it *)

(* Mutant: a follow-up that another request executes is executed again. *)
RefusedIfLost(e) == status[e] # "pending" /\ ~begun[e]

(* Another request executes it, or there is no durable execution to resume. *)
Refused(e) == e \in others \/ (status[e] # "pending" /\ ~begun[e])

Open(e) ==
  IF Refused(e)
    THEN step' = "raised" /\ UNCHANGED status
    ELSE step' = "opened" /\ status' = [status EXCEPT ![e] = "running"]

BeginExecution(e) ==
  /\ step = "opened" /\ First(e)
  /\ begun' = [begun EXCEPT ![e] = TRUE]
  /\ step' = "executing"
  /\ UNCHANGED <<now, disturbances, events, status, others, phase, todo, instant, counts>>

EndExecution(e) ==
  /\ step = "executing" /\ First(e)
  /\ \E s \in Ended : status' = [status EXCEPT ![e] = s]
  /\ step' = "ended"
  /\ UNCHANGED <<now, disturbances, events, begun, others, phase, todo, instant, counts>>

(* It raises, and fails the investigation first. *)
FailExecution(e) ==
  /\ step \in {"opened", "executing"} /\ First(e)
  /\ status' = [status EXCEPT ![e] = "failed"]
  /\ step' = "raised"
  /\ UNCHANGED <<now, disturbances, events, begun, others, phase, todo, instant, counts>>

--------------------------------------------------------------------------------
(* _recover_monitoring_trigger_chains *)

RetriesExhausted(e) == failures[e] >= MaxAttempts

Resumable(e) ==
  status[e] \in Unfinished /\ ~RetriesExhausted(e) /\ recovered < Budget

Resume(e) ==
  /\ At("recovering", "next", e)
  /\ Resumable(e)
  /\ Open(e)
  /\ UNCHANGED <<now, disturbances, events, begun, others, phase, todo, instant, counts>>

(* Mutant: only success ends a chain. *)
SettleIfSuccessful(e) ==
  IF status[e] \in Successful THEN RecordTerminal(e) ELSE UNCHANGED terminal

(* The status is read again; an unfinished follow-up ends with its retries. *)
Settle(e) ==
  IF status[e] \notin Unfinished \/ RetriesExhausted(e)
    THEN RecordTerminal(e)
    ELSE UNCHANGED terminal

PassOver(e) ==
  /\ At("recovering", "next", e)
  /\ ~Resumable(e)
  /\ Settle(e)
  /\ Advance(e)
  /\ UNCHANGED <<now, disturbances, matched, suppressed, created, failures, store, others,
                 phase, instant, counts>>

Recovered(e) ==
  /\ \E s \in {"ended", "raised"} : At("recovering", s, e)
  /\ Settle(e)
  /\ Advance(e)
  /\ recovered' = recovered + 1
  /\ UNCHANGED <<now, disturbances, matched, suppressed, created, failures, store, others,
                 phase, instant, launched>>

--------------------------------------------------------------------------------
(* _run_monitoring_trigger_policies *)

(* The diagnostics and policies at hand are any: both come and go, schedules are *)
(* disabled, and a comparison needs two runs.                                    *)
BeginPolicies ==
  /\ phase = "recovering" /\ todo = {}
  /\ phase' = "evaluating"
  /\ todo' \in SUBSET Evaluation
  /\ instant' = now
  /\ UNCHANGED <<now, disturbances, events, store, others, step, counts>>

(* Mutant: what the recovery used of the budget is not subtracted. *)
LimitAfresh == Budget
Limit == Budget - recovered

EndPass ==
  /\ phase = "evaluating" /\ step = "next"
  /\ todo = {} \/ launched >= Limit
  /\ Reset
  /\ UNCHANGED <<now, disturbances, events, store, others>>

Considers(e) == At("evaluating", "next", e) /\ launched < Limit

(* Mutant: the bound is exclusive. *)
InCooldownBriefly(e) ==
  Cooldown > 0 /\ \E f \in Evaluation \ {e} :
    PolicyOf[f] = PolicyOf[e] /\ matched[f] # NoEvent /\ matched[f] + Cooldown > instant

(* _monitoring_trigger_in_cooldown *)
InCooldown(e) ==
  Cooldown > 0 /\ \E f \in Evaluation \ {e} :
    PolicyOf[f] = PolicyOf[e] /\ matched[f] # NoEvent /\ matched[f] + Cooldown >= instant

Closed(e) == e \notin Matching \/ e \in suppressed \/ terminal[e] # "none"

Ignore(e) ==
  /\ Considers(e) /\ Closed(e)
  /\ Advance(e)
  /\ UNCHANGED <<now, disturbances, events, store, others, phase, instant, counts>>

Suppress(e) ==
  /\ Considers(e) /\ ~Closed(e) /\ InCooldown(e)
  /\ suppressed' = suppressed \cup {e}
  /\ Advance(e)
  /\ UNCHANGED <<now, disturbances, matched, created, failures, terminal, store, others,
                 phase, instant, counts>>

Match(e) ==
  /\ Considers(e) /\ ~Closed(e) /\ ~InCooldown(e)
  /\ matched' = [matched EXCEPT ![e] = IF @ = NoEvent THEN instant ELSE @]
  /\ step' = "matched"
  /\ UNCHANGED <<now, disturbances, suppressed, created, failures, terminal, store, others,
                 phase, todo, instant, counts>>

(* The investigation is looked up by its identifier, and created once. *)
Create(e) ==
  /\ At("evaluating", "matched", e)
  /\ status' = [status EXCEPT ![e] = IF @ = "none" THEN "pending" ELSE @]
  /\ step' = "found"
  /\ UNCHANGED <<now, disturbances, events, begun, others, phase, todo, instant, counts>>

(* The mission is not active any more. *)
CreateFails(e) ==
  /\ At("evaluating", "matched", e) /\ status[e] = "none"
  /\ step' = "raised"
  /\ UNCHANGED <<now, disturbances, events, store, others, phase, todo, instant, counts>>

(* Mutant: the follow-up is announced before it is created. *)
AnnounceEarly(e) ==
  /\ \E s \in {"matched", "found"} : At("evaluating", s, e)
  /\ created' = created \cup {e}
  /\ step' = IF step = "matched" THEN "matched" ELSE "announced"
  /\ UNCHANGED <<now, disturbances, matched, suppressed, failures, terminal, store, others,
                 phase, todo, instant, counts>>

Announce(e) ==
  /\ At("evaluating", "found", e)
  /\ created' = created \cup {e}
  /\ step' = "announced"
  /\ UNCHANGED <<now, disturbances, matched, suppressed, failures, terminal, store, others,
                 phase, todo, instant, counts>>

(* It is started, or resumed, unless it has succeeded already. *)
Launch(e) ==
  /\ At("evaluating", "announced", e)
  /\ IF status[e] \in Successful
       THEN step' = "ended" /\ UNCHANGED status
       ELSE Open(e)
  /\ UNCHANGED <<now, disturbances, events, begun, others, phase, todo, instant, counts>>

(* A follow-up that ended badly has the failed event 1, one that raised has one *)
(* more than before.                                                            *)
RecordFailure(e) ==
  /\ \E s \in {"ended", "raised"} : At("evaluating", s, e)
  /\ failures' = [failures EXCEPT ![e] =
       IF step = "raised" THEN IF @ < MaxAttempts THEN @ + 1 ELSE @
       ELSE IF status[e] \notin Successful /\ @ = 0 THEN 1 ELSE @]
  /\ step' = "recorded"
  /\ UNCHANGED <<now, disturbances, matched, suppressed, created, terminal, store, others,
                 phase, todo, instant, counts>>

Finish(e) ==
  /\ At("evaluating", "recorded", e)
  /\ IF status[e] \in Ended THEN RecordTerminal(e) ELSE UNCHANGED terminal
  /\ Advance(e)
  /\ launched' = launched + 1
  /\ UNCHANGED <<now, disturbances, matched, suppressed, created, failures, store, others,
                 phase, instant, recovered>>

--------------------------------------------------------------------------------
(* The environment: what the event loop runs while the pass awaits, and crashes *)

LoopIsFree == phase = "idle" \/ step = "executing"

Disturb == disturbances < MaxDisturbances /\ disturbances' = disturbances + 1

(* The pass does not own the follow-up it is not executing. *)
Elsewhere(e) == ~(step = "executing" /\ First(e))

(* A client starts or resumes the follow-up ... *)
OtherExecutes(e) ==
  /\ LoopIsFree /\ Disturb
  /\ e \notin others /\ Elsewhere(e)
  /\ \/ status[e] = "pending"
     \/ begun[e] /\ status[e] \in {"running", "partial", "failed", "cancelled"}
  /\ status' = [status EXCEPT ![e] = "running"]
  /\ begun' = [begun EXCEPT ![e] = TRUE]
  /\ others' = others \cup {e}
  /\ UNCHANGED <<now, events, pass>>

OtherEnds(e) ==
  /\ LoopIsFree
  /\ e \in others
  /\ \E s \in Ended : status' = [status EXCEPT ![e] = s]
  /\ others' = others \ {e}
  /\ UNCHANGED <<now, disturbances, events, begun, pass>>

(* ... or cancels it while it is pending. *)
CancelPending(e) ==
  /\ LoopIsFree
  /\ status[e] = "pending"
  /\ status' = [status EXCEPT ![e] = "cancelled"]
  /\ UNCHANGED <<now, disturbances, events, begun, others, pass>>

(* The task of the pass is cancelled for good: a CancelledError passes every *)
(* except branch, and the lock is released.                                  *)
InterruptPass ==
  /\ step = "executing" /\ Disturb
  /\ Reset
  /\ UNCHANGED <<now, events, store, others>>

Crash ==
  /\ MayCrash /\ Disturb
  /\ Reset /\ others' = {}
  /\ UNCHANGED <<now, events, store>>

Clock ==
  /\ LoopIsFree /\ now < MaxTime
  /\ now' = now + 1
  /\ UNCHANGED <<disturbances, events, store, others, pass>>

--------------------------------------------------------------------------------
Init ==
  /\ now = 0 /\ disturbances = 0
  /\ matched = [e \in Evaluation |-> NoEvent]
  /\ suppressed = {} /\ created = {}
  /\ failures = [e \in Evaluation |-> 0]
  /\ terminal = [e \in Evaluation |-> "none"]
  /\ status = [e \in Evaluation |-> "none"]
  /\ begun = [e \in Evaluation |-> FALSE]
  /\ others = {}
  /\ phase = "idle" /\ step = "next" /\ todo = {}
  /\ instant = 0 /\ recovered = 0 /\ launched = 0

Recovery(e) == Resume(e) \/ PassOver(e) \/ Recovered(e)

Policies(e) ==
  \/ Ignore(e) \/ Suppress(e) \/ Match(e) \/ Create(e) \/ CreateFails(e)
  \/ Announce(e) \/ Launch(e) \/ RecordFailure(e) \/ Finish(e)

Execution(e) == BeginExecution(e) \/ EndExecution(e) \/ FailExecution(e)

Pass ==
  \/ BeginPass \/ BeginPolicies \/ EndPass
  \/ \E e \in Evaluation : Recovery(e) \/ Policies(e) \/ Execution(e)

Environment ==
  \/ InterruptPass \/ Crash \/ Clock
  \/ \E e \in Evaluation : OtherExecutes(e) \/ OtherEnds(e) \/ CancelPending(e)

Next == Pass \/ Environment

(* The poller begins a pass again and again, and executions end; those of other *)
(* requests share the event loop with the passes, which yield to it.            *)
Fairness == WF_vars(Pass) /\ \A e \in Evaluation : SF_vars(OtherEnds(e))

Spec == Init /\ [][Next]_vars
FairSpec == Spec /\ Fairness
================================================================================
