------------------------------ MODULE LayerProps ------------------------------
(* What the manager of a data layer promises to those who ask for the layer,   *)
(* to those who look at it, and to the module that it drives.                  *)
EXTENDS LayerLifecycle

Answer(k) == entry.records[k].answer

AtRest == entry.turn.phase = "idle" /\ entry.chain = <<>> /\ ~entry.destroying

(* Whatever calls the module rejected and whoever aborted what: when no work   *)
(* is left, a layer that is certainly OFF has a module that is off ("only      *)
(* record OFF when a subsequent disable positively confirms cleanup"), and one *)
(* that is certainly ON has a module that was turned on and that no turn has   *)
(* turned off since: it is on, or was revoked by the disable() that an abort   *)
(* started while a failed enable was cleaned up and that nobody awaits         *)
(* (finishCancelledEnable(), finishFailedEnable(), finishCancelledDisable()).  *)
(* destroyLayer() does not mark it when disable() is rejected, so a layer      *)
(* retained that way is excepted.                                              *)
SettledIsTrue ==
  AtRest /\ ~entry.uncertain /\ teardown # "rejected"
    => module \in IF entry.enabled THEN {"on", "revoked"} ELSE {"off"}

(* The effective visibility, which Clear All, a toggle and the capture of a    *)
(* Context read, is that of the newest request from the moment it is made to   *)
(* its answer, however many older turns settle or clean up in between; the     *)
(* compensation of a refused adoption shows what it works towards              *)
(* (_effectiveEnabled(), releaseQueuedIntent()).                               *)
EffectiveIsNewest ==
  LET k == entry.epoch
  IN ~entry.destroying /\ k # 0 /\ Answer(k) = "pending" /\ entry.reserved # k
       => EffectiveEnabled(entry) =
            (entry.records[k].want # (entry.turn.epoch = k /\ entry.turn.compensation))

(* One loop polls, whatever failed, was aborted or was enabled again, and none *)
(* once the layer is settled off (_doToggle(), "end up double-polling").       *)
OneLoop ==
  /\ entry.timers = IF entry.interval THEN 1 ELSE 0
  /\ AtRest /\ ~entry.enabled => ~entry.interval

(* Nothing of a destroyed layer is left at work: no module that polls, no      *)
(* timer, no turn that could still enable it (destroyLayer()).                 *)
GoneIsQuiet ==
  ~entry.registered => /\ module = "off" /\ entry.timers = 0
                       /\ entry.turn = NoTurn /\ entry.chain = <<>>

(* A request is granted only when the layer is certainly as it asked, and one  *)
(* that had to wait only while it is the newest: no turn that was superseded   *)
(* behind its back, and none at work when the layer is destroyed, publishes a  *)
(* settled visibility (settleLifecycle() and runIntentTurn(), the checks after *)
(* each await and after the presentation callback).                            *)
GrantedToTheNewest ==
  [][\A k \in Epoch :
       Answer(k) = "pending" /\ Answer(k)' = "granted"
         => /\ entry'.enabled = entry.records[k].want
            /\ ~entry'.uncertain
            /\ entry.turn.epoch = k => entry'.epoch = k ]_vars

(* Every request is answered and every destruction ends: no turn waits for     *)
(* itself, for a promise nobody settles or for a turn behind it                *)
(* (_enqueueToggle(), destroyLayer()).                                         *)
RequestsEnd ==
  []<>(/\ entry.turn.phase = "idle" /\ \A k \in Epoch : Answer(k) # "pending"
       /\ entry.destroying => teardown = "gone")

(* A layer at rest does not present a transition ("rather than orphaning       *)
(* ENABLING/DISABLING forever", runIntentTurn()). The code does not satisfy    *)
(* it: a guard that refuses the newest request, after an older turn was        *)
(* aborted and deferred its settlement, leaves the presentation as it is.      *)
PresentationSettles ==
  AtRest => entry.lifecycle = IF entry.enabled THEN "enabled" ELSE "disabled"

================================================================================
