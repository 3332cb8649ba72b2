-------------------------------- MODULE AisFeed --------------------------------
(* The live vessel feed of the Earth view's server: the watchdog of            *)
(* aisWatchdog.js, which owns policy and no socket, the transport adapter of   *)
(* aisStreamAdapter.js, which owns sockets and no policy, and the code of      *)
(* ais-live.js that drives and disposes of both. AISStream allows a key one    *)
(* connection, may accept it and deliver nothing, and may refuse the key.      *)
(*                                                                             *)
(* The clock is kept as what is compared: the silence so far and the wait that *)
(* is left. Handlers of a socket may be called at any time, however long ago   *)
(* the adapter gave that socket up. The transport module is taken as present,  *)
(* so the status "unsupported" is never entered.                               *)
EXTENDS Naturals, Sequences

CONSTANTS Key,             \* API keys the operator may set
          NoKey,           \* no key is set
          Stale,           \* staleMs
          Recycle,         \* recycleAfterMs
          Backoff,         \* backoffMs
          DownRetry,       \* downRetryMs
          AuthProbe,       \* authProbeMs
          RetryAfters,     \* Retry-After values a server may send; 0: none
          MaxGen,          \* bound: sockets ever commissioned
          MaxEdits,        \* bound: edits of the key
          MaxDisposals     \* bound: restarts of the dev server

Rungs   == Len(Backoff)
Longest == IF Recycle > AuthProbe THEN Recycle ELSE AuthProbe

ASSUME FeedAssumption ==
  /\ NoKey \notin Key
  /\ Stale \in Nat \ {0} /\ Recycle \in Nat /\ Recycle >= Stale
  /\ Backoff \in Seq(Nat \ {0}) /\ Rungs > 0
  /\ DownRetry \in Nat \ {0} /\ AuthProbe \in Nat \ {0}
  /\ RetryAfters \subseteq Nat /\ 0 \in RetryAfters
  /\ MaxGen \in Nat /\ MaxEdits \in Nat /\ MaxDisposals \in Nat

VARIABLES
  feed,          \* the watchdog's state
  sockets,       \* generations in the adapter's map
  wire,          \* the socket of each generation, as the upstream sees it
  frames,        \* generations with a frame whose decoding is awaited
  key,           \* process.env.AISSTREAM_API_KEY
  silenceWatch,  \* aisWatchdogPolicy().silenceWatch
  edits, disposals,
  \* history:
  sent,          \* the key with which the last socket subscribed, or Unsent
  restored,      \* since it was commissioned, the key was changed back to the
                 \* one that the watchdog knows
  refused,       \* a socket was refused, and none had data since, under the key
                 \* that the watchdog knows
  barred,        \* how long the upstream wants to be spared that key
  quiet,         \* time since an AIS record arrived on the owned socket
  driven         \* no time has passed since the watchdog was driven

world == <<key, silenceWatch, edits, disposals>>
login == <<sent, restored>>
vars  == <<feed, sockets, wire, frames, world, login, refused, barred, quiet, driven>>

Unsent  == "unsent"
Gen     == 1..MaxGen
Kind    == {"transport", "auth", "rate-limit"}
Status  == {"idle", "missing-key", "unsupported", "connecting", "live", "stale",
            "reconnecting", "down", "auth-failed"}
QuietTerminal == {"down", "auth-failed"}
Feed    == [status : Status, owned : 0..MaxGen, generation : 0..MaxGen,
            silent : 0..Longest, wait : Nat, attempt : 0..(Rungs + 1),
            armed : BOOLEAN, fingerprint : Key \cup {NoKey}]

TypeOK ==
  /\ feed \in Feed
  /\ sockets \subseteq Gen
  /\ wire \in [Gen -> {"unborn", "connecting", "open", "dead"}]
  /\ frames \subseteq Gen
  /\ key \in Key \cup {NoKey}
  /\ silenceWatch \in BOOLEAN
  /\ edits \in 0..MaxEdits /\ disposals \in 0..MaxDisposals
  /\ sent \in Key \cup {NoKey, Unsent} /\ restored \in BOOLEAN
  /\ refused \in BOOLEAN
  /\ barred \in Nat
  /\ quiet \in 0..Stale
  /\ driven \in BOOLEAN

Init ==
  /\ feed = [status |-> "idle", owned |-> 0, generation |-> 0, silent |-> 0,
             wait |-> 0, attempt |-> 0, armed |-> TRUE, fingerprint |-> NoKey]
  /\ sockets = {}
  /\ wire = [g \in Gen |-> "unborn"]
  /\ frames = {}
  /\ key \in Key \cup {NoKey}
  /\ silenceWatch \in BOOLEAN
  /\ edits = 0 /\ disposals = 0
  /\ sent = Unsent /\ restored = FALSE
  /\ refused = FALSE
  /\ barred = 0
  /\ quiet = Stale
  /\ driven = FALSE

--------------------------------------------------------------------------------
(* The watchdog.                                                               *)

(* Failed sessions are counted no further than one past the ladder.            *)
Counted(n) == IF n > Rungs THEN Rungs + 1 ELSE n

(* Mutant: a probe of a refused key that merely closes walks the ladder.       *)
LaunderedFailure(f, kind) == kind

(* While the key is refused, every failure of a probe counts as a refusal.     *)
Effective(f, kind) == IF f.status = "auth-failed" THEN "auth" ELSE kind

Verdict(f, attempt, status, wait) ==
  [f EXCEPT !.attempt = attempt, !.status = status, !.wait = wait]

Refused(f) == Verdict(f, Counted(f.attempt + 1), "auth-failed", AuthProbe)

(* Never the fast rungs again after being told to slow down.                   *)
RateLimited(f, after) ==
  LET n       == f.attempt + 1
      attempt == Counted(IF n < Rungs THEN Rungs ELSE n)
      pause   == IF after > 0 THEN after ELSE Backoff[Rungs]
  IN IF attempt > Rungs
     THEN Verdict(f, attempt, "down", IF pause < DownRetry THEN DownRetry ELSE pause)
     ELSE Verdict(f, attempt, "reconnecting", pause)

Dropped(f) ==
  LET attempt == Counted(f.attempt + 1)
  IN IF attempt > Rungs
     THEN Verdict(f, attempt, "down", DownRetry)
     ELSE Verdict(f, attempt, "reconnecting", Backoff[attempt])

(* scheduleRetry(): the next attempt, by the class of the failure.             *)
ScheduleRetry(f, kind, after) ==
  CASE Effective(f, kind) = "auth"       -> Refused(f)
    [] Effective(f, kind) = "rate-limit" -> RateLimited(f, after)
    [] OTHER                             -> Dropped(f)

(* Without a socket there is no silence to measure.                            *)
Released(f) == [f EXCEPT !.owned = 0, !.silent = 0]

Credential(f, status, wait, fingerprint) ==
  [f EXCEPT !.status = status, !.attempt = 0, !.wait = wait,
            !.fingerprint = fingerprint]

(* Mutant: a changed key leaves the socket of the old one in place.            *)
KeptConfigured(f) ==
  LET g == [f EXCEPT !.armed = silenceWatch] IN
  IF key = NoKey THEN Credential(Released(g), "missing-key", f.wait, NoKey)
  ELSE IF \/ f.fingerprint \notin {NoKey, key}
          \/ f.status = "missing-key" THEN Credential(g, "idle", 0, key)
  ELSE [g EXCEPT !.fingerprint = key]

(* configure(): a key that is gone or changed takes its socket with it.        *)
Configured(f) ==
  LET g == [f EXCEPT !.armed = silenceWatch] IN
  IF key = NoKey THEN Credential(Released(g), "missing-key", f.wait, NoKey)
  ELSE IF f.fingerprint \notin {NoKey, key} THEN Credential(Released(g), "idle", 0, key)
  ELSE IF f.status = "missing-key" THEN Credential(g, "idle", 0, key)
  ELSE [g EXCEPT !.fingerprint = key]

(* Mutant: a probe of a refused key may stay silent for ever.                  *)
PatientProbed(f) == f

(* tick() with a socket: the probe of a refused key has the hour that          *)
(* separates probes, any other socket is first reported and later recycled.    *)
Probed(f) == IF f.silent >= AuthProbe THEN Refused(Released(f)) ELSE f

Watched(f) ==
  IF f.silent >= Recycle THEN ScheduleRetry(Released(f), "transport", 0)
  ELSE IF f.silent >= Stale THEN [f EXCEPT !.status = "stale"]
  ELSE f

Connecting(f, status) ==
  [f EXCEPT !.generation = f.generation + 1, !.owned = f.generation + 1,
            !.silent = 0, !.status = status]

(* Mutant: a terminal status is not retried.                                   *)
FinalCommissioned(f) ==
  IF f.wait > 0 \/ f.generation = MaxGen \/ f.status = "down" THEN f
  ELSE Connecting(f, IF f.status \in QuietTerminal THEN f.status ELSE "connecting")

(* tick() without one. MaxGen bounds the attempts.                             *)
Commissioned(f) ==
  IF f.wait > 0 \/ f.generation = MaxGen THEN f
  ELSE Connecting(f, IF f.status \in QuietTerminal THEN f.status ELSE "connecting")

Ticked(f) ==
  IF f.status \in {"missing-key", "unsupported"} THEN f
  ELSE IF f.owned = 0 THEN Commissioned(f)
  ELSE IF f.status = "auth-failed" THEN Probed(f)
  ELSE IF f.armed THEN Watched(f)
  ELSE f

(* onFailure() and onClose() of the socket that is owned.                      *)
Failed(f, kind, after) == ScheduleRetry(Released(f), kind, after)

(* onMessage().                                                                *)
Credited(f) == [f EXCEPT !.silent = 0, !.attempt = 0, !.status = "live"]

(* Mutant: a handshake counts as life.                                         *)
HopefulOpened(f) == [f EXCEPT !.status = "live"]

(* onOpen(): a handshake is no data.                                           *)
Opened(f) ==
  IF f.status \in QuietTerminal \cup {"stale"} THEN f
  ELSE [f EXCEPT !.status = "connecting"]

(* dispose(): everything but the generation.                                   *)
Disposed(f) == Credential(Released(f), "idle", 0, NoKey)

--------------------------------------------------------------------------------
(* The adapter. The watchdog's actions and the socket calls are one step: the  *)
(* code between two events of the event loop does not suspend.                 *)

(* Mutant: close() instead of terminate(); an open socket waits for a peer     *)
(* that says nothing.                                                          *)
Closing(w, gone) ==
  [g \in Gen |-> IF g \in gone /\ w[g] = "connecting" THEN "dead" ELSE w[g]]

(* terminate(): the TCP connection is destroyed, whatever its state.           *)
Aborted(w, gone) ==
  [g \in Gen |-> IF g \in gone /\ w[g] \in {"connecting", "open"} THEN "dead" ELSE w[g]]

(* What is left of the history when the credential in use changes.             *)
Pardon == refused' = FALSE /\ barred' = 0

(* failGeneration(): the watchdog hears of a failure only if it owns g.        *)
FailGeneration(g, kind, after) ==
  /\ feed' = IF feed.owned = g THEN Failed(feed, kind, after) ELSE feed
  /\ refused' = (refused \/ (feed.owned = g /\ kind = "auth"))
  /\ barred' = IF feed.owned # g THEN barred
               ELSE IF refused \/ kind = "auth" THEN AuthProbe
               ELSE IF kind = "rate-limit" THEN after ELSE 0

(* ensure(): configure, then tick, then connect or terminate. The factory may  *)
(* fail, which is a failure of the new generation.                             *)
Ensure ==
  LET known == Configured(feed)
      next  == Ticked(known)
      given == feed.owned # 0 /\ next.owned # feed.owned
      g     == next.owned
      fresh == next.generation > feed.generation
      again == /\ feed.fingerprint = next.fingerprint
               /\ next.status # "missing-key"
      shut  == IF given THEN {feed.owned} ELSE {}
  IN /\ \/ /\ fresh
           /\ \/ /\ feed' = next
                 /\ sockets' = (sockets \ shut) \cup {g}
                 /\ wire' = [Aborted(wire, shut) EXCEPT ![g] = "connecting"]
              \/ /\ feed' = Failed(next, "transport", 0)
                 /\ sockets' = sockets \ shut
                 /\ wire' = Aborted(wire, shut)
           /\ sent' = Unsent /\ restored' = FALSE
        \/ /\ ~fresh
           /\ feed' = next
           /\ sockets' = sockets \ shut
           /\ wire' = Aborted(wire, shut)
           /\ UNCHANGED login
     /\ refused' = (refused /\ again)
     /\ barred' = IF again THEN (IF fresh /\ refused THEN AuthProbe ELSE barred) ELSE 0
     /\ driven' = TRUE
     /\ UNCHANGED <<frames, world, quiet>>

(* The handshake completes. An orphan is hung up. The subscription names the   *)
(* key of that moment, not that of the commission; sending it may fail.        *)
Open(g) ==
  /\ wire[g] = "connecting"
  /\ \/ /\ g \in sockets /\ feed.owned = g
        /\ \/ /\ feed' = Opened(feed)
              /\ wire' = [wire EXCEPT ![g] = "open"]
              /\ sent' = key
              /\ UNCHANGED <<sockets, refused, barred>>
           \/ /\ FailGeneration(g, "transport", 0)
              /\ sockets' = sockets \ {g}
              /\ wire' = Aborted(wire, {g})
              /\ UNCHANGED sent
     \/ /\ ~(g \in sockets /\ feed.owned = g)
        /\ sockets' = sockets \ {g}
        /\ wire' = Aborted(wire, {g})
        /\ UNCHANGED <<feed, sent, refused, barred>>
  /\ UNCHANGED <<frames, world, restored, quiet, driven>>

(* handleDecodedMessage(): an AIS record is the only proof of life, an error   *)
(* envelope is a failure, anything else changes nothing and is left out.       *)
HandleDecoded(g, content) ==
  IF g \notin sockets
  THEN /\ wire' = Aborted(wire, {g})
       /\ UNCHANGED <<feed, sockets, refused, barred, quiet>>
  ELSE IF content = "data"
  THEN /\ feed' = IF feed.owned = g THEN Credited(feed) ELSE feed
       /\ sockets' = IF feed.owned = g THEN sockets ELSE sockets \ {g}
       /\ wire' = IF feed.owned = g THEN wire ELSE Aborted(wire, {g})
       /\ IF feed.owned = g THEN Pardon /\ quiet' = 0
                            ELSE UNCHANGED <<refused, barred, quiet>>
  ELSE /\ FailGeneration(g, content, 0)
       /\ sockets' = IF feed.owned = g THEN sockets \ {g} ELSE sockets
       /\ wire' = IF feed.owned = g THEN Aborted(wire, {g}) ELSE wire
       /\ UNCHANGED quiet

(* A frame that ws delivers whole is handled before any other event.           *)
Message(g, content) ==
  /\ wire[g] = "open"
  /\ HandleDecoded(g, content)
  /\ UNCHANGED <<frames, world, login, driven>>

(* A Blob must be awaited; its socket may be given up meanwhile. One such      *)
(* frame at a time is the bound of the model.                                  *)
Defer(g) ==
  /\ wire[g] = "open" /\ g \in sockets /\ frames = {}
  /\ frames' = {g}
  /\ UNCHANGED <<feed, sockets, wire, world, login, refused, barred, quiet, driven>>

Decode(g, content) ==
  /\ g \in frames
  /\ frames' = frames \ {g}
  /\ HandleDecoded(g, content)
  /\ UNCHANGED <<world, login, driven>>

(* The upgrade is answered with an HTTP status.                                *)
UnexpectedResponse(g, kind, after) ==
  /\ wire[g] \in {"connecting", "dead"}
  /\ kind = "rate-limit" \/ after = 0
  /\ FailGeneration(g, kind, after)
  /\ sockets' = sockets \ {g}
  /\ wire' = Aborted(wire, {g})
  /\ UNCHANGED <<frames, world, login, quiet, driven>>

ErrorEvent(g, kind) ==
  /\ wire[g] \in {"connecting", "open", "dead"}
  /\ IF g \in sockets
     THEN /\ FailGeneration(g, kind, 0)
          /\ sockets' = IF feed.owned = g THEN sockets \ {g} ELSE sockets
          /\ wire' = IF feed.owned = g THEN Aborted(wire, {g}) ELSE wire
     ELSE /\ wire' = Aborted(wire, {g})
          /\ UNCHANGED <<feed, sockets, refused, barred>>
  /\ UNCHANGED <<frames, world, login, quiet, driven>>

Close(g) ==
  /\ wire[g] \in {"connecting", "open", "dead"}
  /\ FailGeneration(g, "transport", 0)
  /\ sockets' = sockets \ {g}
  /\ wire' = [wire EXCEPT ![g] = "dead"]
  /\ UNCHANGED <<frames, world, login, quiet, driven>>

--------------------------------------------------------------------------------
(* The operator and time.                                                      *)

(* The key setup endpoint writes or clears the key of the running server.      *)
SetKey(k) ==
  /\ edits < MaxEdits
  /\ k # key
  /\ key' = k
  /\ edits' = edits + 1
  /\ restored' = (restored \/ (feed.owned # 0 /\ k = feed.fingerprint))
  /\ UNCHANGED <<feed, sockets, wire, frames, silenceWatch, disposals, sent,
                 refused, barred, quiet, driven>>

(* disposeAisStream(): the server restarts within this process, with an .env   *)
(* that may arm the silence watch differently.                                 *)
Dispose ==
  /\ disposals < MaxDisposals
  /\ feed' = Disposed(feed)
  /\ sockets' = {}
  /\ wire' = Aborted(wire, sockets)
  /\ silenceWatch' \in BOOLEAN
  /\ disposals' = disposals + 1
  /\ Pardon
  /\ driven' = FALSE
  /\ UNCHANGED <<frames, key, edits, login, quiet>>

(* One unit of time. Counters stop where nothing compares them any more.       *)
Elapse ==
  /\ feed' = [feed EXCEPT !.silent = IF feed.owned # 0 /\ @ < Longest THEN @ + 1 ELSE @,
                          !.wait = IF @ > 0 THEN @ - 1 ELSE 0]
  /\ barred' = IF barred > 0 THEN barred - 1 ELSE 0
  /\ quiet' = IF quiet < Stale THEN quiet + 1 ELSE quiet
  /\ driven' = FALSE
  /\ UNCHANGED <<sockets, wire, frames, world, login, refused>>

SocketEvent(g) ==
  \/ Open(g)
  \/ \E content \in Kind \cup {"data"} : Message(g, content) \/ Decode(g, content)
  \/ Defer(g)
  \/ \E kind \in Kind, after \in RetryAfters : UnexpectedResponse(g, kind, after)
  \/ \E kind \in Kind : ErrorEvent(g, kind)
  \/ Close(g)

Next ==
  \/ Ensure
  \/ \E g \in Gen : SocketEvent(g)
  \/ \E k \in Key \cup {NoKey} : SetKey(k)
  \/ Dispose
  \/ Elapse

Spec == Init /\ [][Next]_vars

(* Time passes, and the background interval drives the watchdog; the upstream  *)
(* owes nothing.                                                               *)
FairSpec == Spec /\ WF_vars(Ensure) /\ WF_vars(Elapse)

================================================================================
