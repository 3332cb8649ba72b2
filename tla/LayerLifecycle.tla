---------------------------- MODULE LayerLifecycle ----------------------------
(* One data layer of the Earth view, as LayerLifecycle (lifecycle.js) manages  *)
(* it: absolute visibility requests with a monotonic epoch, the promise chain  *)
(* that runs one turn at a time, the abort of the turn at work by any newer    *)
(* request, compensation and adoption, the update loop, Clear All and          *)
(* destroyLayer(). Layers share nothing but the visibility guards.             *)
(*                                                                             *)
(* A step runs from one await to the next. Listeners and the layer's own       *)
(* setLifecyclePresentation() run inside a step and may make requests: where   *)
(* the code of the step depends on it, that request is part of the step, and   *)
(* elsewhere it is the next step. A toggle is the request for the opposite of  *)
(* the effective visibility.                                                   *)
EXTENDS Naturals, Sequences, FiniteSets

CONSTANTS MaxEpoch,        \* bound: requests and destructions
          MaxWithdrawals   \* bound: requests whose caller aborts its signal

ASSUME LayerAssumption == MaxEpoch \in Nat /\ MaxWithdrawals \in Nat

VARIABLES
  entry,      \* the entry of the layer in the manager's map
  module,     \* "on": the layer's module polls or renders; "revoked": it was
              \* turned off by a call of disable() that no turn awaits
  withdrawn,  \* epochs whose caller has aborted
  clearing,   \* the call of clearSelectedLayers(), when this layer is a target
  teardown    \* the call of destroyLayer()

vars == <<entry, module, withdrawn, clearing, teardown>>

Epoch     == 1..MaxEpoch
Enabling  == {"init", "enable", "update"}
Phase     == Enabling \cup {"idle", "adopt", "guard", "cleanup", "failed",
                            "disable", "reenable", "redisable"}
Turn      == [epoch : 0..MaxEpoch, phase : Phase, target : BOOLEAN,
              aborted : BOOLEAN, compensation : BOOLEAN, awaited : BOOLEAN]
Queued    == [epoch : 0..MaxEpoch, want : BOOLEAN]
Record    == [want : BOOLEAN, answer : {"none", "pending", "granted", "refused"}]
Entry     == [registered : BOOLEAN, destroying : BOOLEAN,
              enabled : BOOLEAN, initialized : BOOLEAN, uncertain : BOOLEAN,
              lifecycle : {"enabled", "enabling", "disabled", "disabling"},
              interval : BOOLEAN, timers : Nat, refreshing : BOOLEAN, updating : BOOLEAN,
              strays : Nat, epoch : 0..MaxEpoch, want : BOOLEAN, queued : Queued,
              adopt : 0..MaxEpoch, reserved : 0..MaxEpoch,
              records : [Epoch -> Record], chain : Seq(Epoch), turn : Turn]

NoTurn   == [epoch |-> 0, phase |-> "idle", target |-> FALSE, aborted |-> FALSE,
             compensation |-> FALSE, awaited |-> FALSE]
NoQueued == [epoch |-> 0, want |-> FALSE]
NoClear  == [phase |-> "idle", epoch |-> 0]

TypeOK ==
  /\ entry \in Entry
  /\ module \in {"on", "off", "revoked"}
  /\ withdrawn \subseteq Epoch
  /\ clearing \in [phase : {"idle", "reserved", "waiting"}, epoch : 0..MaxEpoch]
  /\ teardown \in {"idle", "drain", "disable", "destroy", "rejected", "gone"}

(* _registerLayer()                                                            *)
Init ==
  /\ entry = [registered |-> TRUE, destroying |-> FALSE,
              enabled |-> FALSE, initialized |-> FALSE, uncertain |-> FALSE,
              lifecycle |-> "disabled",
              interval |-> FALSE, timers |-> 0, refreshing |-> FALSE, updating |-> FALSE,
              strays |-> 0, epoch |-> 0, want |-> FALSE, queued |-> NoQueued,
              adopt |-> 0, reserved |-> 0,
              records |-> [k \in Epoch |-> [want |-> FALSE, answer |-> "none"]],
              chain |-> <<>>, turn |-> NoTurn]
  /\ module = "off"
  /\ withdrawn = {}
  /\ clearing = NoClear
  /\ teardown = "idle"

--------------------------------------------------------------------------------
(* The update loop.                                                            *)

ClearTimer(e) == IF e.interval
                 THEN [e EXCEPT !.interval = FALSE, !.timers = @ - 1]
                 ELSE e

ArmUpdateLoop(e) == [e EXCEPT !.interval = TRUE, !.timers = @ + 1]

(* An update that is in flight is disowned: its epoch is no longer current.    *)
InvalidateRefresh(e) == [e EXCEPT !.refreshing = FALSE, !.updating = FALSE]

--------------------------------------------------------------------------------
(* Requests.                                                                   *)

Superseded(e) == e.turn.epoch # e.epoch

Active(e) == e.turn.phase \notin {"idle", "adopt"}

(* The abort of the turn at work. While it enables, its listener cancelEnable  *)
(* calls disable() at once; the effect of that call is subsumed in that of the *)
(* disable() which the same turn awaits before it settles. A turn that failed  *)
(* to enable keeps the listener while it cleans up, and does not await it.     *)
AbortTurn(e) ==
  IF ~Active(e) \/ e.turn.aborted THEN e
  ELSE IF e.turn.phase \in Enabling
       THEN [ClearTimer(e) EXCEPT !.turn.aborted = TRUE, !.turn.awaited = TRUE]
  ELSE IF e.turn.phase = "failed"
       THEN [e EXCEPT !.turn.aborted = TRUE, !.strays = @ + 1]
       ELSE [e EXCEPT !.turn.aborted = TRUE]

Reserve(e, want) ==
  LET k == e.epoch + 1
  IN [e EXCEPT !.epoch = k, !.want = want,
               !.queued = [epoch |-> k, want |-> want],
               !.records[k] = [want |-> want, answer |-> "pending"]]

Enqueue(e, k) == [e EXCEPT !.chain = Append(@, k)]

Request(e, want) == Enqueue(AbortTurn(Reserve(e, want)), e.epoch + 1)

Accepts(e, n) == e.registered /\ ~e.destroying /\ e.epoch + n <= MaxEpoch

(* A synchronous callback makes no request, or one.                            *)
Reentries(e) == {e} \cup {Request(e, want) : want \in {b \in BOOLEAN : Accepts(e, 1)}}

(* The listeners of a request make a newer one before this one is enqueued.    *)
Overtaken(e, want, newer) == Enqueue(Request(Reserve(e, want), newer), e.epoch + 1)

EffectiveEnabled(e) ==
  IF e.reserved # 0 /\ e.reserved = e.epoch THEN FALSE
  ELSE IF e.queued.epoch # 0 THEN e.queued.want
  ELSE IF e.lifecycle \in {"enabling", "disabling"} THEN e.lifecycle = "enabling"
  ELSE e.enabled

--------------------------------------------------------------------------------
(* Settlement and the end of a turn.                                           *)

Settled(e) == [e EXCEPT !.lifecycle = IF e.enabled THEN "enabled" ELSE "disabled"]
Moving(e)  == [e EXCEPT !.lifecycle = IF e.want THEN "enabling" ELSE "disabling"]

(* The latest request shall adopt or reconcile what an obsolete turn leaves.   *)
Deferred(e) == [Moving(e) EXCEPT !.adopt = e.epoch]

(* settleLifecycle() of _doToggle()                                            *)
Settlements(e) ==
  IF Superseded(e) THEN {Deferred(e)}
  ELSE {IF Superseded(r) THEN Deferred(r) ELSE r :
          r \in Reentries(Settled([e EXCEPT !.adopt = 0]))}

(* Mutant: a turn that ends releases the queued request of whomever.           *)
ReleaseAnyQueued(e) == [e EXCEPT !.queued = NoQueued]

ReleaseQueued(e) ==
  IF e.queued.epoch = e.turn.epoch THEN [e EXCEPT !.queued = NoQueued] ELSE e

(* A compensation leaves the request it is made for unfulfilled.               *)
Finished(e, answer) ==
  [ReleaseQueued(e) EXCEPT
     !.records[e.turn.epoch].answer = IF e.turn.compensation THEN "refused" ELSE answer,
     !.turn = NoTurn]

Ends(e, answer) == {Finished(s, answer) : s \in Settlements(e)}

Known(e, enabled)   == [e EXCEPT !.enabled = enabled, !.uncertain = FALSE]
Unknown(e)          == [e EXCEPT !.enabled = TRUE, !.uncertain = TRUE]
Await(e, phase)     == [e EXCEPT !.turn.phase = phase]

(* finishCancelledEnable() up to the disable() that it awaits, after the call  *)
(* of cancelEnable, whose listener it removes; and finishFailedEnable().       *)
CleanUp(e) == Await(ClearTimer(e), "cleanup")
Fail(e)    == Await(ClearTimer(e), "failed")

(* A rejection is an AbortError of the module's own, or a failure; after an    *)
(* abort it is taken as the former.                                            *)
Rejected(e) == {CleanUp(e)} \cup {Fail(f) : f \in {g \in {e} : ~g.turn.aborted}}

(* The module's answer to a call that turns it on or off: a call it rejects    *)
(* may have had its effect.                                                    *)
Answered(ok, effect) == module' \in IF ok THEN {effect} ELSE {effect, module}

--------------------------------------------------------------------------------
(* Callers.                                                                    *)

Alone == UNCHANGED <<module, withdrawn, clearing, teardown>>

SetEnabled(want) ==
  /\ Accepts(entry, 1)
  /\ entry' = Request(entry, want)
  /\ Alone

SetEnabledOvertaken(want, newer) ==
  /\ Accepts(entry, 2)
  /\ entry' = Overtaken(entry, want, newer)
  /\ Alone

(* The caller's signal is forwarded to the turn that works for it.             *)
Withdraw(k) ==
  /\ entry.records[k].answer = "pending"
  /\ k \notin withdrawn /\ Cardinality(withdrawn) < MaxWithdrawals
  /\ withdrawn' = withdrawn \cup {k}
  /\ entry' = IF entry.turn.epoch = k /\ ~entry.turn.compensation
              THEN AbortTurn(entry) ELSE entry
  /\ UNCHANGED <<module, clearing, teardown>>

(* clearSelectedLayers() reserves the whole batch, and comes to this layer     *)
(* when those registered after it are off.                                     *)
ClearReserve ==
  /\ clearing.phase = "idle" /\ entry.registered /\ EffectiveEnabled(entry)
  /\ entry' = [entry EXCEPT !.reserved = entry.epoch]
  /\ clearing' = [phase |-> "reserved", epoch |-> entry.epoch]
  /\ UNCHANGED <<module, withdrawn, teardown>>

ClearRequest ==
  /\ clearing.phase = "reserved" /\ clearing.epoch = entry.epoch /\ Accepts(entry, 1)
  /\ entry' = Request(entry, FALSE)
  /\ clearing' = [phase |-> "waiting", epoch |-> entry'.epoch]
  /\ UNCHANGED <<module, withdrawn, teardown>>

ClearRelease ==
  /\ \/ clearing.phase = "reserved" /\ (clearing.epoch # entry.epoch \/ ~Accepts(entry, 1))
     \/ clearing.phase = "waiting" /\ entry.records[clearing.epoch].answer # "pending"
  /\ entry' = [entry EXCEPT !.reserved = 0]
  /\ clearing' = NoClear
  /\ UNCHANGED <<module, withdrawn, teardown>>

--------------------------------------------------------------------------------
(* A request's turn, up to its first await: runIntentTurn().                   *)

Turns(e) == e.turn.phase = "idle" /\ e.chain # <<>>
Taken(e) == [e EXCEPT !.chain = Tail(@), !.turn.epoch = Head(e.chain),
                      !.turn.target = e.records[Head(e.chain)].want]

Holds(e) == e.enabled = e.turn.target /\ ~e.uncertain

(* Mutant: the turn of a superseded request ends without an answer.            *)
SilentSupersededTurn ==
  /\ Turns(entry) /\ Superseded(Taken(entry))
  /\ entry' = [ReleaseQueued(Taken(entry)) EXCEPT !.turn = NoTurn]
  /\ Alone

SupersededTurn ==
  /\ Turns(entry) /\ Superseded(Taken(entry))
  /\ entry' = Finished(Taken(entry), "refused")
  /\ Alone

WithdrawnTurn ==
  /\ Turns(entry) /\ ~Superseded(Taken(entry)) /\ entry.epoch \in withdrawn
  /\ LET t == Taken(entry)
     IN entry' = Finished(IF t.adopt = t.epoch THEN Settled([t EXCEPT !.adopt = 0]) ELSE t,
                          "refused")
  /\ Alone

Newest == Turns(entry) /\ ~Superseded(Taken(entry)) /\ entry.epoch \notin withdrawn

AdoptionTurn ==
  /\ Newest /\ Holds(Taken(entry)) /\ entry.adopt = entry.epoch
  /\ entry' = Await(Taken(entry), "adopt")
  /\ Alone

(* Nothing to do but to end a transition that an aborted turn left presented;  *)
(* the success is published even when a callback has made a newer request.     *)
IdempotentTurn ==
  /\ Newest /\ Holds(Taken(entry)) /\ entry.adopt # entry.epoch
  /\ LET t == Taken(entry)
     IN \E r \in IF t.lifecycle \in {"enabling", "disabling"}
                 THEN Reentries(Settled(t)) ELSE {t} :
          entry' = Finished(r, "granted")
  /\ Alone

ToggleTurn ==
  /\ Newest /\ ~Holds(Taken(entry))
  /\ entry' = Await([Taken(entry) EXCEPT !.adopt = 0], "guard")
  /\ Alone

--------------------------------------------------------------------------------
(* The adoption of what a superseded turn left, after the visibility guards.   *)

AdoptionOvertaken ==
  /\ entry.turn.phase = "adopt" /\ Superseded(entry)
  /\ entry' = Finished(Moving([entry EXCEPT !.adopt = entry.epoch]), "refused")
  /\ Alone

AdoptionWithdrawn ==
  /\ entry.turn.phase = "adopt" /\ ~Superseded(entry) /\ entry.epoch \in withdrawn
  /\ entry' = Finished(Settled([entry EXCEPT !.adopt = 0]), "refused")
  /\ Alone

Adoptable == entry.turn.phase = "adopt" /\ ~Superseded(entry) /\ entry.epoch \notin withdrawn

(* The guards refuse the state that was left: compensate, towards the opposite,*)
(* unless a listener of the refusal has made a newer request.                  *)
AdoptionBlocked ==
  /\ Adoptable
  /\ LET opposite == ~entry.turn.target
         e == [entry EXCEPT !.adopt = 0,
                            !.queued = [epoch |-> entry.epoch, want |-> opposite],
                            !.turn.target = opposite, !.turn.compensation = TRUE,
                            !.turn.phase = "guard"]
     IN \E r \in Reentries(e) :
          entry' = IF Superseded(r) THEN Finished(Deferred(r), "refused") ELSE r
  /\ Alone

Adopted ==
  /\ Adoptable
  /\ \E s \in Settlements(entry) :
       entry' = Finished(s, IF Superseded(s) THEN "refused" ELSE "granted")
  /\ Alone

--------------------------------------------------------------------------------
(* _doToggle(): the guards.                                                    *)

(* A guard refuses, or the request was aborted while the guards deliberated.   *)
GuardRefuses ==
  /\ entry.turn.phase = "guard"
  /\ entry' = Finished(entry, "refused")
  /\ Alone

(* Parameters of a restored layer are applied after init() and before enable() *)
(* and may be rejected, or superseded by newer parameters.                     *)
EnableCalls(e) ==
  IF e.turn.aborted THEN {CleanUp(e)}
  ELSE Rejected(e) \cup {Await([e EXCEPT !.uncertain = FALSE], "enable")}

Transitions(e) ==
  IF ~e.turn.target THEN {Await(InvalidateRefresh(e), "disable")}
  ELSE IF ~e.initialized THEN {Await(e, "init")}
  ELSE EnableCalls(e)

GuardPasses ==
  /\ entry.turn.phase = "guard" /\ ~entry.turn.aborted
  /\ \E r \in Reentries([entry EXCEPT !.lifecycle =
                            IF entry.turn.target THEN "enabling" ELSE "disabling"]) :
       entry' \in Transitions(r)
  /\ Alone

--------------------------------------------------------------------------------
(* _doToggle(): the calls of the module that enable it. A call answers "ok",   *)
(* or it is rejected, which ends the turn in a clean-up however it happens.    *)

Undisturbed == UNCHANGED <<withdrawn, clearing, teardown>>

Initialised(ok) ==
  /\ entry.turn.phase = "init"
  /\ entry' \in IF ok THEN EnableCalls([entry EXCEPT !.initialized = TRUE])
               ELSE Rejected(entry)
  /\ Alone

Enabled(ok) ==
  /\ entry.turn.phase = "enable"
  /\ Answered(ok, "on")
  /\ entry' \in IF ok /\ ~entry.turn.aborted THEN {Await(entry, "update")} ELSE Rejected(entry)
  /\ Undisturbed

(* Mutant: the loop is armed over a stale one.                                 *)
LoopingAgain(e) == ArmUpdateLoop(e)

Looping(e) == ArmUpdateLoop(ClearTimer(e))

(* Mutant: the epoch and the signal are not read again after the callback.     *)
TrustingFirstUpdated(ok) ==
  /\ entry.turn.phase = "update"
  /\ IF ok /\ ~entry.turn.aborted
     THEN \E s \in Settlements(Known(entry, TRUE)) : entry' = Finished(Looping(s), "granted")
     ELSE entry' \in Rejected(entry)
  /\ Alone

FirstUpdated(ok) ==
  /\ entry.turn.phase = "update"
  /\ IF ok /\ ~entry.turn.aborted
     THEN \E s \in Settlements(Known(entry, TRUE)) :
            entry' = IF Superseded(s) \/ s.turn.aborted THEN CleanUp(s)
                     ELSE Finished(Looping(s), "granted")
     ELSE entry' \in Rejected(entry)
  /\ Alone

(* The promise of the disable() that cancelEnable called.                      *)
AbortCleanupSettles ==
  /\ entry.turn.awaited
  /\ entry' = [entry EXCEPT !.turn.awaited = FALSE]
  /\ Alone

CleanedUp(ok) ==
  /\ entry.turn.phase = "cleanup" /\ ~entry.turn.awaited
  /\ Answered(ok, "off")
  /\ entry' \in Ends(IF ok THEN Known(entry, FALSE) ELSE Unknown(entry), "refused")
  /\ Undisturbed

(* The listeners are told of the failure before cancelEnable is removed.       *)
FailureCleanedUp(ok) ==
  /\ entry.turn.phase = "failed"
  /\ Answered(ok, "off")
  /\ \E s \in Settlements(IF ok THEN Known(entry, FALSE) ELSE Unknown(entry)) :
       \E r \in IF s.turn.aborted THEN {s} ELSE Reentries(s) :
         entry' = Finished(r, "refused")
  /\ Undisturbed

(* A disable() that nobody awaits ends, whatever has become of the layer.      *)
StrayDisabled ==
  /\ entry.strays > 0
  /\ entry' = [entry EXCEPT !.strays = @ - 1]
  /\ module' \in IF module = "on" THEN {"on", "revoked"} ELSE {module}
  /\ Undisturbed

--------------------------------------------------------------------------------
(* _doToggle(): the calls that disable it.                                     *)

DisabledRejected(aborts) ==
  /\ entry.turn.phase = "disable"
  /\ Answered(FALSE, "off")
  /\ IF aborts \/ entry.turn.aborted
     THEN entry' = Await(entry, "reenable")
     ELSE entry' \in Ends(Unknown(entry), "refused")
  /\ Undisturbed

Disabled ==
  /\ entry.turn.phase = "disable"
  /\ Answered(TRUE, "off")
  /\ IF entry.turn.aborted
     THEN entry' = Await(entry, "reenable")
     ELSE \E s \in Settlements(Known(ClearTimer(entry), FALSE)) :
            entry' = IF Superseded(s) \/ s.turn.aborted THEN Await(s, "reenable")
                     ELSE Finished(s, "granted")
  /\ Undisturbed

(* Mutant: the layer is taken as OFF when the compensation is rejected.        *)
RashReenabled(ok) ==
  /\ entry.turn.phase = "reenable"
  /\ Answered(ok, "on")
  /\ entry' \in Ends(Known(IF ok THEN entry ELSE ClearTimer(entry), ok), "refused")
  /\ Undisturbed

(* finishCancelledDisable(): ON again if enable() succeeds, OFF if it fails    *)
(* and disable() succeeds, and otherwise unknown.                              *)
Reenabled(ok) ==
  /\ entry.turn.phase = "reenable"
  /\ Answered(ok, "on")
  /\ entry' \in IF ok THEN Ends(Known(entry, TRUE), "refused")
               ELSE {Await(entry, "redisable")}
  /\ Undisturbed

Redisabled(ok) ==
  /\ entry.turn.phase = "redisable"
  /\ Answered(ok, "off")
  /\ entry' \in Ends(IF ok THEN Known(ClearTimer(entry), FALSE) ELSE Unknown(entry), "refused")
  /\ Undisturbed

--------------------------------------------------------------------------------
(* _runPeriodicUpdate(), from the loop's timer or from refreshLayer().         *)

Refresh ==
  /\ entry.registered /\ entry.enabled /\ entry.lifecycle = "enabled"
  /\ ~entry.destroying /\ ~entry.refreshing
  /\ entry' = [entry EXCEPT !.refreshing = TRUE, !.updating = TRUE]
  /\ Alone

(* Only the update whose epoch is current may report, and only for a layer     *)
(* that is on.                                                                 *)
Refreshed ==
  /\ entry.updating
  /\ entry' = [entry EXCEPT !.updating = FALSE,
                            !.refreshing = entry.refreshing /\ ~entry.enabled]
  /\ Alone

--------------------------------------------------------------------------------
(* destroyLayer()                                                              *)

(* Teardown takes an epoch that no request has, and aborts the turn at work.   *)
Condemned(e) ==
  LET k == e.epoch + 1
  IN AbortTurn([InvalidateRefresh(e) EXCEPT
                  !.destroying = TRUE, !.epoch = k, !.want = FALSE,
                  !.queued = [epoch |-> k, want |-> FALSE], !.reserved = 0])

DestroyLayer ==
  /\ Accepts(entry, 1)
  /\ entry' = Condemned(entry)
  /\ teardown' = "drain"
  /\ UNCHANGED <<module, withdrawn, clearing>>

(* Mutant: the turns that are queued or at work are not awaited.               *)
ImpatientDrained ==
  /\ teardown = "drain"
  /\ entry' = [entry EXCEPT !.queued = NoQueued]
  /\ teardown' = IF entry.enabled THEN "disable" ELSE "destroy"
  /\ UNCHANGED <<module, withdrawn, clearing>>

(* The chain and the before-destroy listeners are awaited; what the listeners  *)
(* request of a layer being destroyed is answered at once.                     *)
Drained ==
  /\ teardown = "drain" /\ entry.turn.phase = "idle" /\ entry.chain = <<>>
  /\ entry' = [entry EXCEPT !.queued = NoQueued]
  /\ teardown' = IF entry.enabled THEN "disable" ELSE "destroy"
  /\ UNCHANGED <<module, withdrawn, clearing>>

Retained(e) == Settled([e EXCEPT !.destroying = FALSE, !.want = e.enabled])

DestroyDisabled(ok) ==
  /\ teardown = "disable"
  /\ Answered(ok, "off")
  /\ entry' = IF ok THEN [ClearTimer(entry) EXCEPT !.enabled = FALSE] ELSE Retained(entry)
  /\ teardown' = IF ok THEN "destroy" ELSE "rejected"
  /\ UNCHANGED <<withdrawn, clearing>>

Destroyed(ok) ==
  /\ teardown = "destroy"
  /\ entry' = IF ok THEN [entry EXCEPT !.registered = FALSE] ELSE Retained(entry)
  /\ teardown' = IF ok THEN "gone" ELSE "idle"
  /\ UNCHANGED <<module, withdrawn, clearing>>

--------------------------------------------------------------------------------

Callers ==
  \/ \E want \in BOOLEAN : SetEnabled(want)
  \/ \E want, newer \in BOOLEAN : SetEnabledOvertaken(want, newer)
  \/ \E k \in Epoch : Withdraw(k)
  \/ ClearReserve \/ ClearRequest \/ ClearRelease
  \/ DestroyLayer
  \/ Refresh

(* The steps of the event loop, and the answers of the guards and the module.  *)
Work ==
  \/ SupersededTurn \/ WithdrawnTurn \/ AdoptionTurn \/ IdempotentTurn \/ ToggleTurn
  \/ AdoptionOvertaken \/ AdoptionWithdrawn \/ AdoptionBlocked \/ Adopted
  \/ GuardRefuses \/ GuardPasses
  \/ \E ok \in BOOLEAN : Initialised(ok) \/ Enabled(ok) \/ FirstUpdated(ok)
  \/ AbortCleanupSettles
  \/ \E ok \in BOOLEAN : CleanedUp(ok) \/ FailureCleanedUp(ok)
  \/ \E aborts \in BOOLEAN : DisabledRejected(aborts)
  \/ Disabled
  \/ \E ok \in BOOLEAN : Reenabled(ok) \/ Redisabled(ok)
  \/ Drained
  \/ \E ok \in BOOLEAN : DestroyDisabled(ok) \/ Destroyed(ok)

Next == Callers \/ Work \/ Refreshed \/ StrayDisabled

Spec == Init /\ [][Next]_vars

(* The calls of a module and the guards end in the end.                        *)
FairSpec == Spec /\ WF_vars(Work)

================================================================================
