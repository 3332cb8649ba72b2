----------------------------- MODULE AisFeedProps -----------------------------
(* What the live vessel feed promises to its upstream, which allows one        *)
(* connection per key, and to its reader, who sees the status.                 *)
EXTENDS AisFeed

Live(g) == wire[g] \in {"connecting", "open"}

(* AISStream allows one connection per key: whatever events are late, lost or  *)
(* answered twice, and across restarts, no second socket is ever left open     *)
(* behind the one the watchdog owns (aisStreamAdapter.js, ownership rules).    *)
OneConnection == \A g \in Gen : Live(g) => g = feed.owned

(* A verdict that reaches the watchdog is about the key it works with: the     *)
(* socket it owns has subscribed with that key or not at all - although the    *)
(* subscription takes the key of the moment at which the socket opens - unless *)
(* the next ensure will close it, or the operator changed the key back before  *)
(* an ensure saw the change (configure(), "belongs to the OLD key").           *)
OwnedUnderItsKey ==
  feed.owned # 0 =>
    sent \in {Unsent, feed.fingerprint} \/ key # feed.fingerprint \/ restored

(* What /api/ais-live reports: "live" only while AIS records arrived on the    *)
(* owned socket within the stale budget; a handshake, an old socket's frames   *)
(* and a restart do not make it live (tick(), onMessage(), onOpen()).          *)
LiveIsHonest ==
  feed.status = "live" =>
    /\ feed.owned # 0
    /\ driven /\ feed.armed => quiet < Stale

(* A refused key costs one attempt per authProbeMs and a rate limit the pause  *)
(* the server asked for, whatever becomes of the probes: no close, error,      *)
(* silence or later rate limit returns the feed to the fast ladder             *)
(* (scheduleRetry(), tick()).                                                  *)
BarredKeyIsSpared ==
  [][ /\ feed'.generation # feed.generation
      /\ feed'.fingerprint = feed.fingerprint
      /\ feed.status # "missing-key"
      => barred = 0 ]_vars

(* A socket that delivers nothing does not hold the only connection: it is     *)
(* recycled, or its probe expires, unless the operator switched the watch off  *)
(* (tick()).                                                                   *)
SilentLosesTheSlot ==
  \A g \in Gen :
    (feed.owned = g /\ (feed.armed \/ feed.status = "auth-failed"))
      ~> (feed.owned # g \/ feed.silent = 0)

(* No failure is final: a feed without a socket tries again, in whatever state *)
(* it is, until the operator takes the key away (tick(), scheduleRetry()).     *)
AlwaysTriesAgain ==
  feed.owned = 0
    ~> (feed.owned # 0 \/ key = NoKey \/ feed.generation = MaxGen)

================================================================================
