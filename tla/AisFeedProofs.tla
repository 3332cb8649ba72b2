---------------------------- MODULE AisFeedProofs ----------------------------
(* Proofs about the live vessel feed, for every ladder, budget and number of   *)
(* sockets.                                                                    *)
EXTENDS AisFeedProps, TLAPS

USE DEF login

(* What the assumption says of each constant.                                  *)
LEMMA Constants ==
  /\ Rungs \in Nat /\ Rungs > 0 /\ \A i \in 1..Rungs : Backoff[i] \in Nat
  /\ Stale \in Nat /\ Recycle \in Nat /\ DownRetry \in Nat /\ AuthProbe \in Nat
  /\ Stale > 0 /\ Recycle >= Stale
  /\ Longest \in Nat /\ Longest >= Recycle /\ Longest >= AuthProbe
  /\ RetryAfters \subseteq Nat /\ 0 \in RetryAfters
  /\ MaxGen \in Nat /\ MaxEdits \in Nat /\ MaxDisposals \in Nat
  /\ NoKey \notin Key
BY FeedAssumption DEF FeedAssumption, Rungs, Longest

(* The four ways in which the watchdog's state is rewritten.                   *)
LEMMA VerdictLemma ==
  ASSUME NEW f \in Feed, NEW attempt \in 0..(Rungs + 1), NEW status \in Status,
         NEW wait \in Nat
  PROVE  LET r == Verdict(f, attempt, status, wait)
         IN /\ r \in Feed
            /\ r.owned = f.owned /\ r.generation = f.generation
            /\ r.fingerprint = f.fingerprint /\ r.armed = f.armed
            /\ r.silent = f.silent /\ r.status = status /\ r.wait = wait
BY DEF Verdict, Feed

LEMMA CredentialLemma ==
  ASSUME NEW f \in Feed, NEW status \in Status, NEW wait \in Nat,
         NEW fingerprint \in Key \cup {NoKey}
  PROVE  LET r == Credential(f, status, wait, fingerprint)
         IN /\ r \in Feed
            /\ r.owned = f.owned /\ r.generation = f.generation
            /\ r.fingerprint = fingerprint /\ r.armed = f.armed
            /\ r.silent = f.silent /\ r.status = status /\ r.wait = wait
<1>1. 0 \in 0..(Rungs + 1)
  BY Constants
<1> QED
  BY <1>1 DEF Credential, Feed

LEMMA ConnectingLemma ==
  ASSUME NEW f \in Feed, NEW status \in Status, f.generation # MaxGen
  PROVE  LET r == Connecting(f, status)
         IN /\ r \in Feed
            /\ r.owned = f.generation + 1 /\ r.generation = f.generation + 1
            /\ r.fingerprint = f.fingerprint /\ r.armed = f.armed
            /\ r.silent = 0 /\ r.status = status /\ r.wait = f.wait
<1>1. f.generation + 1 \in 0..MaxGen /\ 0 \in 0..Longest
  BY Constants DEF Feed
<1> QED
  BY <1>1 DEF Connecting, Feed

LEMMA ReleasedLemma ==
  ASSUME NEW f \in Feed
  PROVE  /\ Released(f) \in Feed
         /\ Released(f).owned = 0 /\ Released(f).silent = 0
         /\ Released(f).generation = f.generation
         /\ Released(f).fingerprint = f.fingerprint /\ Released(f).armed = f.armed
         /\ Released(f).status = f.status /\ Released(f).wait = f.wait
<1>1. 0 \in 0..MaxGen /\ 0 \in 0..Longest
  BY Constants
<1> QED
  BY <1>1 DEF Released, Feed

LEMMA CountedLemma ==
  ASSUME NEW f \in Feed
  PROVE  /\ Counted(f.attempt + 1) \in 1..(Rungs + 1)
         /\ Counted(f.attempt + 1) \in 0..(Rungs + 1)
BY Constants DEF Counted, Feed

(* What a failure of any class leaves of the watchdog's state.                 *)
LEMMA RetryLemma ==
  ASSUME NEW f \in Feed, NEW kind \in Kind, NEW after \in Nat
  PROVE  LET r == ScheduleRetry(f, kind, after)
         IN /\ r \in Feed
            /\ r.owned = f.owned /\ r.generation = f.generation
            /\ r.fingerprint = f.fingerprint /\ r.armed = f.armed
            /\ r.silent = f.silent
            /\ r.status \in {"auth-failed", "down", "reconnecting"}
            /\ f.status = "auth-failed" \/ kind = "auth" =>
                 r.status = "auth-failed" /\ r.wait = AuthProbe
            /\ r.status = "auth-failed" => f.status = "auth-failed" \/ kind = "auth"
            /\ f.status # "auth-failed" /\ kind = "rate-limit" => r.wait >= after
<1> DEFINE r == ScheduleRetry(f, kind, after)
<1>1. /\ "auth-failed" \in Status /\ "down" \in Status /\ "reconnecting" \in Status
      /\ AuthProbe \in Nat
  BY Constants DEF Status
<1>2. CASE Effective(f, kind) = "auth"
  <2> DEFINE attempt == Counted(f.attempt + 1)
  <2>1. r = Verdict(f, attempt, "auth-failed", AuthProbe)
    BY <1>2 DEF ScheduleRetry, Refused
  <2>2. f.status = "auth-failed" \/ kind = "auth"
    BY <1>2 DEF Effective
  <2>3. attempt \in 0..(Rungs + 1)
    BY CountedLemma
  <2> HIDE DEF attempt
  <2>4. f.status # "auth-failed" => kind # "rate-limit"
    BY <2>2
  <2>5. /\ r \in Feed /\ r.owned = f.owned /\ r.generation = f.generation
        /\ r.fingerprint = f.fingerprint /\ r.armed = f.armed
        /\ r.silent = f.silent /\ r.status = "auth-failed" /\ r.wait = AuthProbe
    BY <1>1, <2>1, <2>3, VerdictLemma
  <2> QED
    BY <2>2, <2>4, <2>5
<1>3. CASE Effective(f, kind) = "rate-limit"
  <2> DEFINE n       == f.attempt + 1
             attempt == Counted(IF n < Rungs THEN Rungs ELSE n)
             pause   == IF after > 0 THEN after ELSE Backoff[Rungs]
             wait    == IF pause < DownRetry THEN DownRetry ELSE pause
  <2>1. r = IF attempt > Rungs THEN Verdict(f, attempt, "down", wait)
                               ELSE Verdict(f, attempt, "reconnecting", pause)
    BY <1>3 DEF ScheduleRetry, RateLimited
  <2>2. attempt \in 0..(Rungs + 1)
    BY Constants DEF Feed, Counted
  <2>3. pause \in Nat /\ (after > 0 => pause = after)
    BY Constants
  <2>4. wait \in Nat /\ wait >= pause
    BY Constants, <2>3
  <2>5. kind = "rate-limit" /\ f.status # "auth-failed"
    BY <1>3 DEF Effective
  <2> HIDE DEF attempt, pause, wait
  <2>6. CASE attempt > Rungs
    <3>1. /\ r \in Feed /\ r.owned = f.owned /\ r.generation = f.generation
          /\ r.fingerprint = f.fingerprint /\ r.armed = f.armed
          /\ r.silent = f.silent /\ r.status = "down" /\ r.wait = wait
      BY <1>1, <2>1, <2>2, <2>4, <2>6, VerdictLemma
    <3>2. wait >= after
      BY <2>3, <2>4
    <3> QED
      BY <2>5, <3>1, <3>2
  <2>7. CASE ~(attempt > Rungs)
    <3>1. /\ r \in Feed /\ r.owned = f.owned /\ r.generation = f.generation
          /\ r.fingerprint = f.fingerprint /\ r.armed = f.armed
          /\ r.silent = f.silent /\ r.status = "reconnecting" /\ r.wait = pause
      BY <1>1, <2>1, <2>2, <2>3, <2>7, VerdictLemma
    <3>2. pause >= after
      BY <2>3
    <3> QED
      BY <2>5, <3>1, <3>2
  <2> QED
    BY <2>6, <2>7
<1>4. CASE Effective(f, kind) \notin {"auth", "rate-limit"}
  <2> DEFINE attempt == Counted(f.attempt + 1)
  <2>1. r = IF attempt > Rungs THEN Verdict(f, attempt, "down", DownRetry)
                               ELSE Verdict(f, attempt, "reconnecting", Backoff[attempt])
    BY <1>4 DEF ScheduleRetry, Dropped
  <2>2. attempt \in 1..(Rungs + 1) /\ attempt \in 0..(Rungs + 1)
    BY CountedLemma
  <2>3. kind = "transport" /\ f.status # "auth-failed"
    BY <1>4 DEF Effective, Kind
  <2> HIDE DEF attempt
  <2>4. CASE attempt > Rungs
    <3>1. DownRetry \in Nat
      BY Constants
    <3>2. /\ r \in Feed /\ r.owned = f.owned /\ r.generation = f.generation
          /\ r.fingerprint = f.fingerprint /\ r.armed = f.armed
          /\ r.silent = f.silent /\ r.status = "down" /\ r.wait = DownRetry
      BY <1>1, <2>1, <2>2, <2>4, <3>1, VerdictLemma
    <3> QED
      BY <2>3, <3>2
  <2>5. CASE ~(attempt > Rungs)
    <3> DEFINE wait == Backoff[attempt]
    <3>1. wait \in Nat
      BY <2>2, <2>5, Constants
    <3>2. r = Verdict(f, attempt, "reconnecting", wait)
      BY <2>1, <2>5
    <3> HIDE DEF wait
    <3>3. /\ r \in Feed /\ r.owned = f.owned /\ r.generation = f.generation
          /\ r.fingerprint = f.fingerprint /\ r.armed = f.armed
          /\ r.silent = f.silent /\ r.status = "reconnecting" /\ r.wait = wait
      BY <1>1, <2>2, <3>1, <3>2, VerdictLemma
    <3> QED
      BY <2>3, <3>3
  <2> QED
    BY <2>4, <2>5
<1> QED
  BY <1>2, <1>3, <1>4

(* configure(): it keeps the socket and the credential's history, or neither.  *)
LEMMA ConfigureLemma ==
  ASSUME NEW f \in Feed, key \in Key \cup {NoKey}, silenceWatch \in BOOLEAN
  PROVE  /\ Configured(f) \in Feed
         /\ Configured(f).generation = f.generation
         /\ Configured(f).owned \in {0, f.owned}
         /\ Configured(f).armed = silenceWatch
         /\ Configured(f).fingerprint = key
         /\ Configured(f).status = "missing-key" <=> key = NoKey
         /\ Configured(f).owned # 0 => Configured(f).silent = f.silent
         /\ key # NoKey /\ f.fingerprint \notin {NoKey, key} => Configured(f).owned = 0
         /\ f.fingerprint = key /\ key # NoKey /\ f.status # "missing-key" =>
              Configured(f) = [f EXCEPT !.armed = silenceWatch]
         /\ key = NoKey => Configured(f).owned = 0
         /\ Configured(f).status = "live" =>
              f.status = "live" /\ Configured(f).owned = f.owned
         /\ Configured(f).status = "auth-failed" =>
              f.status = "auth-failed" /\ f.fingerprint \in {NoKey, key}
<1> DEFINE g == [f EXCEPT !.armed = silenceWatch]
<1>1. /\ g \in Feed /\ g.armed = silenceWatch /\ g.owned = f.owned
      /\ g.generation = f.generation /\ g.fingerprint = f.fingerprint
      /\ g.status = f.status /\ g.silent = f.silent /\ g.wait = f.wait
  BY DEF Feed
<1>2. /\ "missing-key" \in Status /\ "idle" \in Status
      /\ f.wait \in Nat /\ 0 \in Nat /\ key \in Key \cup {NoKey}
  BY DEF Status, Feed
<1>3. CASE key = NoKey
  <2> DEFINE r == Released(g)
  <2>1. Configured(f) = Credential(r, "missing-key", f.wait, key)
    BY <1>3 DEF Configured
  <2>2. /\ r \in Feed /\ r.owned = 0 /\ r.generation = f.generation
        /\ r.armed = silenceWatch
    BY <1>1, ReleasedLemma
  <2> HIDE DEF g, r
  <2> QED
    BY <1>2, <1>3, <2>1, <2>2, CredentialLemma
<1>4. CASE key # NoKey /\ f.fingerprint \notin {NoKey, key}
  <2> DEFINE r == Released(g)
  <2>1. Configured(f) = Credential(r, "idle", 0, key)
    BY <1>4 DEF Configured
  <2>2. /\ r \in Feed /\ r.owned = 0 /\ r.generation = f.generation
        /\ r.armed = silenceWatch
    BY <1>1, ReleasedLemma
  <2> HIDE DEF g, r
  <2>3. /\ Configured(f) \in Feed /\ Configured(f).owned = 0
        /\ Configured(f).generation = f.generation
        /\ Configured(f).fingerprint = key /\ Configured(f).armed = silenceWatch
        /\ Configured(f).status = "idle"
    BY <1>2, <2>1, <2>2, CredentialLemma
  <2> QED
    BY <1>2, <1>4, <2>3
<1>5. CASE /\ key # NoKey /\ f.fingerprint \in {NoKey, key}
           /\ f.status = "missing-key"
  <2>1. Configured(f) = Credential(g, "idle", 0, key)
    BY <1>5 DEF Configured
  <2> HIDE DEF g
  <2>2. /\ Configured(f) \in Feed /\ Configured(f).owned = f.owned
        /\ Configured(f).generation = f.generation
        /\ Configured(f).fingerprint = key /\ Configured(f).armed = silenceWatch
        /\ Configured(f).silent = f.silent /\ Configured(f).status = "idle"
    BY <1>1, <1>2, <2>1, CredentialLemma
  <2> QED
    BY <1>2, <1>5, <2>2
<1>6. CASE /\ key # NoKey /\ f.fingerprint \in {NoKey, key}
           /\ f.status # "missing-key"
  <2>1. Configured(f) = [g EXCEPT !.fingerprint = key]
    BY <1>6 DEF Configured
  <2>2. f.fingerprint = key => [g EXCEPT !.fingerprint = key] = g
    BY <1>1 DEF Feed
  <2>3. /\ Configured(f) \in Feed /\ Configured(f).fingerprint = key
        /\ Configured(f).armed = silenceWatch /\ Configured(f).owned = f.owned
        /\ Configured(f).generation = f.generation
        /\ Configured(f).status = f.status /\ Configured(f).silent = f.silent
    BY <1>1, <2>1 DEF Feed
  <2> QED
    BY <1>6, <2>1, <2>2, <2>3
<1> QED
  BY <1>3, <1>4, <1>5, <1>6

(* tick(): it gives a socket up, or opens one, or leaves all as it is.         *)
LEMMA TickLemma ==
  ASSUME NEW f \in Feed, f.owned <= f.generation
  PROVE  /\ Ticked(f) \in Feed
         /\ Ticked(f).fingerprint = f.fingerprint /\ Ticked(f).armed = f.armed
         /\ Ticked(f).status = "missing-key" <=> f.status = "missing-key"
         /\ Ticked(f).status = "auth-failed" <=> f.status = "auth-failed"
         /\ f.status = "missing-key" => Ticked(f) = f
         /\ f.owned # 0 =>
              /\ Ticked(f).generation = f.generation
              /\ Ticked(f).owned \in {0, f.owned}
              /\ f.status = "auth-failed" =>
                   /\ Ticked(f).status = "auth-failed"
                   /\ Ticked(f).owned = 0 => Ticked(f).wait = AuthProbe
              /\ Ticked(f).owned # 0 => Ticked(f).silent = f.silent
         /\ f.owned = 0 =>
              \/ Ticked(f) = f
              \/ /\ Ticked(f).generation = f.generation + 1
                 /\ Ticked(f).owned = Ticked(f).generation
                 /\ f.wait = 0 /\ Ticked(f).wait = 0
                 /\ Ticked(f).silent = 0
                 /\ Ticked(f).status = IF f.status \in QuietTerminal THEN f.status
                                       ELSE "connecting"
         /\ Ticked(f).status = "live" =>
              /\ f.status = "live" /\ Ticked(f).owned = f.owned
              /\ f.owned # 0 /\ f.armed => f.silent < Stale
<1>1. CASE Ticked(f) = f /\ (f.status = "live" /\ f.owned # 0 /\ f.armed => f.silent < Stale)
  BY <1>1 DEF Feed
<1>2. CASE f.status \in {"missing-key", "unsupported"}
  BY <1>1, <1>2 DEF Ticked
<1>3. CASE f.status \notin {"missing-key", "unsupported"} /\ f.owned = 0
  <2>1. Ticked(f) = Commissioned(f)
    BY <1>3 DEF Ticked
  <2>2. CASE f.wait > 0 \/ f.generation = MaxGen
    BY <1>1, <1>3, <2>1, <2>2 DEF Commissioned
  <2>3. CASE ~(f.wait > 0 \/ f.generation = MaxGen)
    <3> DEFINE status == IF f.status \in QuietTerminal THEN f.status ELSE "connecting"
    <3>1. Ticked(f) = Connecting(f, status)
      BY <2>1, <2>3 DEF Commissioned
    <3>2. /\ status \in Status /\ status # "live"
          /\ status = "missing-key" <=> f.status = "missing-key"
          /\ status = "auth-failed" <=> f.status = "auth-failed"
      BY <1>3 DEF Status, QuietTerminal, Feed
    <3>3. f.wait = 0 /\ f.generation # MaxGen
      BY <2>3 DEF Feed
    <3> HIDE DEF status
    <3>4. /\ Ticked(f) \in Feed
          /\ Ticked(f).generation = f.generation + 1
          /\ Ticked(f).owned = f.generation + 1
          /\ Ticked(f).silent = 0 /\ Ticked(f).status = status
          /\ Ticked(f).wait = f.wait /\ Ticked(f).armed = f.armed
          /\ Ticked(f).fingerprint = f.fingerprint
      BY <3>1, <3>2, <3>3, ConnectingLemma
    <3>5. f.generation \in Nat
      BY DEF Feed
    <3> USE DEF status
    <3> QED
      BY <1>3, <3>2, <3>3, <3>4, <3>5
  <2> QED
    BY <2>2, <2>3
<1>4. CASE /\ f.status \notin {"missing-key", "unsupported"} /\ f.owned # 0
           /\ f.status = "auth-failed"
  <2>1. Ticked(f) = Probed(f)
    BY <1>4 DEF Ticked
  <2>2. CASE f.silent >= AuthProbe
    <3> DEFINE r == Released(f)
    <3>1. Ticked(f) = Verdict(r, Counted(r.attempt + 1), "auth-failed", AuthProbe)
      BY <2>1, <2>2 DEF Probed, Refused
    <3>2. r \in Feed /\ r.owned = 0 /\ r.generation = f.generation
          /\ r.fingerprint = f.fingerprint /\ r.armed = f.armed
      BY ReleasedLemma
    <3>3. "auth-failed" \in Status /\ AuthProbe \in Nat
      BY Constants DEF Status
    <3> HIDE DEF r
    <3>4. Counted(r.attempt + 1) \in 0..(Rungs + 1)
      BY <3>2, CountedLemma
    <3>5. /\ Ticked(f) \in Feed /\ Ticked(f).owned = 0
          /\ Ticked(f).generation = f.generation
          /\ Ticked(f).fingerprint = f.fingerprint /\ Ticked(f).armed = f.armed
          /\ Ticked(f).status = "auth-failed" /\ Ticked(f).wait = AuthProbe
      BY <3>1, <3>2, <3>3, <3>4, VerdictLemma
    <3> QED
      BY <1>4, <3>5
  <2>3. CASE ~(f.silent >= AuthProbe)
    BY <1>1, <1>4, <2>1, <2>3 DEF Probed
  <2> QED
    BY <2>2, <2>3
<1>5. CASE /\ f.status \notin {"missing-key", "unsupported"} /\ f.owned # 0
           /\ f.status # "auth-failed" /\ f.armed
  <2>1. Ticked(f) = Watched(f)
    BY <1>5 DEF Ticked
  <2>2. CASE f.silent >= Recycle
    <3> DEFINE r == Released(f)
               result == ScheduleRetry(r, "transport", 0)
    <3>1. Ticked(f) = result
      BY <2>1, <2>2 DEF Watched
    <3>2. r \in Feed /\ r.owned = 0 /\ r.generation = f.generation
          /\ r.fingerprint = f.fingerprint /\ r.armed = f.armed
          /\ r.status = f.status
      BY ReleasedLemma
    <3>3. "transport" \in Kind /\ 0 \in Nat
      BY DEF Kind
    <3> HIDE DEF r
    <3>4. /\ result \in Feed /\ result.owned = 0
          /\ result.generation = f.generation
          /\ result.fingerprint = f.fingerprint /\ result.armed = f.armed
          /\ result.status \in {"auth-failed", "down", "reconnecting"}
          /\ result.status = "auth-failed" => r.status = "auth-failed"
      BY <3>2, <3>3, RetryLemma
    <3> HIDE DEF result
    <3> QED
      BY <1>5, <3>1, <3>2, <3>4
  <2>3. CASE ~(f.silent >= Recycle) /\ f.silent >= Stale
    <3>1. Ticked(f) = [f EXCEPT !.status = "stale"]
      BY <2>1, <2>3 DEF Watched
    <3>2. /\ Ticked(f) \in Feed /\ Ticked(f).status = "stale"
          /\ Ticked(f).owned = f.owned /\ Ticked(f).generation = f.generation
          /\ Ticked(f).fingerprint = f.fingerprint /\ Ticked(f).armed = f.armed
          /\ Ticked(f).silent = f.silent
      BY <3>1 DEF Feed, Status
    <3> QED
      BY <1>5, <3>2
  <2>4. CASE ~(f.silent >= Recycle) /\ ~(f.silent >= Stale)
    <3>1. f.silent < Stale
      BY <2>4, Constants DEF Feed
    <3> QED
      BY <1>1, <2>1, <2>4, <3>1 DEF Watched
  <2> QED
    BY <2>2, <2>3, <2>4
<1>6. CASE /\ f.status \notin {"missing-key", "unsupported"} /\ f.owned # 0
           /\ f.status # "auth-failed" /\ ~f.armed
  BY <1>1, <1>6 DEF Ticked
<1> QED
  BY <1>2, <1>3, <1>4, <1>5, <1>6

LEMMA FailedLemma ==
  ASSUME NEW f \in Feed, NEW kind \in Kind, NEW after \in Nat
  PROVE  LET r == Failed(f, kind, after)
         IN /\ r \in Feed
            /\ r.owned = 0 /\ r.generation = f.generation
            /\ r.fingerprint = f.fingerprint /\ r.armed = f.armed
            /\ r.status \in {"auth-failed", "down", "reconnecting"}
            /\ f.status = "auth-failed" \/ kind = "auth" =>
                 r.status = "auth-failed" /\ r.wait = AuthProbe
            /\ r.status = "auth-failed" => f.status = "auth-failed" \/ kind = "auth"
            /\ f.status # "auth-failed" /\ kind = "rate-limit" => r.wait >= after
<1> DEFINE g == Released(f)
           r == ScheduleRetry(g, kind, after)
<1>1. Failed(f, kind, after) = r
  BY DEF Failed
<1>2. /\ g \in Feed /\ g.owned = 0 /\ g.generation = f.generation
      /\ g.fingerprint = f.fingerprint /\ g.armed = f.armed /\ g.status = f.status
  BY ReleasedLemma
<1> HIDE DEF g
<1>3. /\ r \in Feed /\ r.owned = g.owned /\ r.generation = g.generation
      /\ r.fingerprint = g.fingerprint /\ r.armed = g.armed
      /\ r.status \in {"auth-failed", "down", "reconnecting"}
      /\ g.status = "auth-failed" \/ kind = "auth" =>
           r.status = "auth-failed" /\ r.wait = AuthProbe
      /\ r.status = "auth-failed" => g.status = "auth-failed" \/ kind = "auth"
      /\ g.status # "auth-failed" /\ kind = "rate-limit" => r.wait >= after
  BY <1>2, RetryLemma
<1> QED
  BY <1>1, <1>2, <1>3

LEMMA EventLemma ==
  ASSUME NEW f \in Feed
  PROVE  /\ Credited(f) \in Feed
         /\ Credited(f).owned = f.owned /\ Credited(f).generation = f.generation
         /\ Credited(f).fingerprint = f.fingerprint /\ Credited(f).armed = f.armed
         /\ Credited(f).status = "live" /\ Credited(f).silent = 0
         /\ Opened(f) \in Feed
         /\ Opened(f).owned = f.owned /\ Opened(f).generation = f.generation
         /\ Opened(f).fingerprint = f.fingerprint /\ Opened(f).armed = f.armed
         /\ Opened(f).silent = f.silent /\ Opened(f).wait = f.wait
         /\ Opened(f).status # "live"
         /\ Opened(f).status = "auth-failed" <=> f.status = "auth-failed"
         /\ Opened(f).status \notin {"idle", "missing-key"}
         /\ Disposed(f) \in Feed
         /\ Disposed(f).owned = 0 /\ Disposed(f).generation = f.generation
         /\ Disposed(f).fingerprint = NoKey /\ Disposed(f).status = "idle"
<1>1. /\ 0 \in 0..Longest /\ 0 \in 0..(Rungs + 1) /\ 0 \in Nat
      /\ "idle" \in Status /\ NoKey \in Key \cup {NoKey}
  BY Constants DEF Status
<1>2. /\ Credited(f) \in Feed
      /\ Credited(f).owned = f.owned /\ Credited(f).generation = f.generation
      /\ Credited(f).fingerprint = f.fingerprint /\ Credited(f).armed = f.armed
      /\ Credited(f).status = "live" /\ Credited(f).silent = 0
  BY <1>1 DEF Credited, Feed, Status
<1>3. /\ Opened(f) \in Feed
      /\ Opened(f).owned = f.owned /\ Opened(f).generation = f.generation
      /\ Opened(f).fingerprint = f.fingerprint /\ Opened(f).armed = f.armed
      /\ Opened(f).silent = f.silent /\ Opened(f).wait = f.wait
      /\ Opened(f).status # "live"
      /\ Opened(f).status = "auth-failed" <=> f.status = "auth-failed"
      /\ Opened(f).status \notin {"idle", "missing-key"}
  BY DEF Opened, Feed, Status, QuietTerminal
<1>4. /\ Disposed(f) \in Feed
      /\ Disposed(f).owned = 0 /\ Disposed(f).generation = f.generation
      /\ Disposed(f).fingerprint = NoKey /\ Disposed(f).status = "idle"
  <2> DEFINE g == Released(f)
  <2>1. g \in Feed /\ g.owned = 0 /\ g.generation = f.generation
    BY ReleasedLemma
  <2> HIDE DEF g
  <2>2. Disposed(f) = Credential(g, "idle", 0, NoKey)
    BY DEF Disposed, g
  <2> QED
    BY <1>1, <2>1, <2>2, CredentialLemma
<1> QED
  BY <1>2, <1>3, <1>4

--------------------------------------------------------------------------------
(* The inductive invariant.                                                    *)

(* The adapter holds at most the owned socket, and no other one is connected.  *)
SocketsInv ==
  /\ feed.owned <= feed.generation
  /\ \A g \in sockets : g = feed.owned
  /\ \A g \in Gen : Live(g) => g \in sockets

(* The socket speaks for the key that is known.                                *)
KeyInv ==
  /\ OwnedUnderItsKey
  /\ feed.fingerprint = NoKey =>
       feed.owned = 0 /\ feed.status \in {"idle", "missing-key"}
  /\ feed.status = "missing-key" => feed.fingerprint = NoKey

(* A live feed has had a record since its socket last fell silent.             *)
LiveInv ==
  feed.status = "live" =>
    /\ feed.owned # 0 /\ quiet <= feed.silent
    /\ driven /\ feed.armed => feed.silent < Stale

(* The time a key is barred is waited for, or its only attempt is under way.   *)
BarInv ==
  /\ refused <=> feed.status = "auth-failed"
  /\ barred > 0 => IF feed.owned = 0 THEN feed.wait >= barred
                   ELSE refused /\ barred <= AuthProbe

FeedInv == TypeOK /\ SocketsInv /\ KeyInv /\ LiveInv /\ BarInv

LEMMA InitFeedInv == Init => FeedInv
<1> SUFFICES ASSUME Init PROVE FeedInv
  OBVIOUS
<1>1. TypeOK
  <2>1. /\ 0 \in 0..Longest /\ 0 \in 0..(Rungs + 1) /\ 0 \in 0..MaxGen
        /\ 0 \in 0..MaxEdits /\ 0 \in 0..MaxDisposals /\ Stale \in 0..Stale
    BY Constants
  <2>2. feed \in Feed
    BY <2>1 DEF Init, Feed, Status
  <2> QED
    BY <2>1, <2>2 DEF Init, TypeOK
<1> QED
  BY <1>1, Constants DEF Init, FeedInv, SocketsInv, KeyInv, OwnedUnderItsKey, LiveInv,
                         BarInv, Live

(* failGeneration() of the owned socket, with what the adapter does to it.     *)
LEMMA FailPreserves ==
  ASSUME FeedInv, NEW g \in Gen, NEW kind \in Kind, NEW after \in Nat,
         FailGeneration(g, kind, after),
         \A h \in sockets' : h \in sockets /\ (feed.owned = g => h # g),
         wire' \in [Gen -> {"unborn", "connecting", "open", "dead"}],
         \A h \in Gen : Live(h)' => Live(h) /\ h \in sockets',
         frames' \subseteq Gen,
         UNCHANGED <<world, login, quiet, driven>>
  PROVE  FeedInv'
<1> USE DEF FeedInv
<1>1. CASE feed.owned = g
  <2> DEFINE r == Failed(feed, kind, after)
  <2>1. feed' = r
    BY <1>1 DEF FailGeneration
  <2>2. feed \in Feed
    BY DEF TypeOK
  <2>3. /\ r \in Feed /\ r.owned = 0 /\ r.generation = feed.generation
        /\ r.fingerprint = feed.fingerprint
        /\ r.status \in {"auth-failed", "down", "reconnecting"}
        /\ feed.status = "auth-failed" \/ kind = "auth" =>
             r.status = "auth-failed" /\ r.wait = AuthProbe
        /\ r.status = "auth-failed" => feed.status = "auth-failed" \/ kind = "auth"
        /\ feed.status # "auth-failed" /\ kind = "rate-limit" => r.wait >= after
    BY <2>2, FailedLemma
  <2> HIDE DEF r
  <2>4. /\ refused' = (refused \/ kind = "auth")
        /\ barred' = IF refused \/ kind = "auth" THEN AuthProbe
                     ELSE IF kind = "rate-limit" THEN after ELSE 0
    BY <1>1 DEF FailGeneration
  <2>5. TypeOK'
    BY <2>1, <2>3, <2>4, Constants DEF TypeOK, world
  <2>6. SocketsInv'
    <3>1. sockets' = {}
      BY <1>1 DEF SocketsInv
    <3>2. r.owned <= r.generation
      BY <2>2, <2>3 DEF Feed
    <3> QED
      BY <2>1, <3>1, <3>2 DEF SocketsInv
  <2>7. KeyInv'
    BY <1>1, <2>1, <2>3 DEF KeyInv, OwnedUnderItsKey, Gen
  <2>8. LiveInv'
    BY <2>1, <2>3 DEF LiveInv
  <2>9. BarInv'
    <3>1. refused' <=> refused \/ kind = "auth"
      BY <2>4
    <3>2. refused' <=> r.status = "auth-failed"
      BY <2>3, <3>1 DEF BarInv
    <3>3. CASE refused \/ kind = "auth"
      BY <2>1, <2>3, <2>4, <3>1, <3>2, <3>3, Constants DEF BarInv
    <3>4. CASE ~(refused \/ kind = "auth")
      <4>1. barred' > 0 => kind = "rate-limit" /\ barred' = after
        BY <2>4, <3>4
      <4>2. barred' > 0 => r.wait >= barred'
        BY <2>3, <3>4, <4>1 DEF BarInv
      <4> QED
        BY <2>1, <2>3, <3>2, <4>2 DEF BarInv
    <3> QED
      BY <3>3, <3>4
  <2> QED
    BY <2>5, <2>6, <2>7, <2>8, <2>9
<1>2. CASE feed.owned # g
  <2>1. UNCHANGED <<feed, refused, barred>>
    BY <1>2 DEF FailGeneration, TypeOK
  <2>2. TypeOK'
    BY <2>1 DEF TypeOK, world
  <2>3. SocketsInv'
    BY <2>1 DEF SocketsInv
  <2> QED
    BY <2>1, <2>2, <2>3 DEF KeyInv, OwnedUnderItsKey, world, LiveInv, BarInv
<1> QED
  BY <1>1, <1>2

(* ensure(): every path of configure() and tick().                             *)
LEMMA EnsurePreserves ==
  ASSUME FeedInv, Ensure
  PROVE  /\ FeedInv'
         /\ /\ feed'.generation # feed.generation
            /\ feed'.fingerprint = feed.fingerprint
            /\ feed.status # "missing-key"
            => barred = 0
<1> USE DEF FeedInv
<1> DEFINE known == Configured(feed)
           next  == Ticked(known)
           fresh == next.generation > feed.generation
           shut  == IF feed.owned # 0 /\ next.owned # feed.owned THEN {feed.owned} ELSE {}
           again == feed.fingerprint = next.fingerprint /\ next.status # "missing-key"
           failed == Failed(next, "transport", 0)
<1>1. /\ feed \in Feed /\ key \in Key \cup {NoKey} /\ silenceWatch \in BOOLEAN
      /\ feed.owned \in Nat /\ feed.generation \in Nat /\ feed.silent \in Nat
      /\ feed.wait \in Nat /\ feed.owned <= feed.generation
  BY DEF TypeOK, Feed, SocketsInv
<1>2. /\ known \in Feed /\ known.generation = feed.generation
      /\ known.owned \in {0, feed.owned} /\ known.armed = silenceWatch
      /\ known.fingerprint = key
      /\ known.status = "missing-key" <=> key = NoKey
      /\ known.owned # 0 => known.silent = feed.silent
      /\ key # NoKey /\ feed.fingerprint \notin {NoKey, key} => known.owned = 0
      /\ key = NoKey => known.owned = 0
      /\ known.status = "live" => feed.status = "live" /\ known.owned = feed.owned
      /\ known.status = "auth-failed" =>
           feed.status = "auth-failed" /\ feed.fingerprint \in {NoKey, key}
  BY <1>1, ConfigureLemma
<1>3. /\ next \in Feed
      /\ next.fingerprint = key /\ next.armed = silenceWatch
      /\ next.status = "missing-key" <=> key = NoKey
      /\ next.status = "auth-failed" <=> known.status = "auth-failed"
      /\ known.owned # 0 =>
           /\ next.generation = feed.generation
           /\ next.owned \in {0, known.owned}
           /\ known.status = "auth-failed" => (next.owned = 0 => next.wait = AuthProbe)
           /\ next.owned # 0 => next.silent = known.silent
      /\ known.owned = 0 =>
           \/ next = known
           \/ /\ next.generation = feed.generation + 1
              /\ next.owned = next.generation
              /\ known.wait = 0 /\ next.wait = 0 /\ next.status # "live"
      /\ next.status = "live" =>
           /\ known.status = "live" /\ next.owned = known.owned
           /\ known.owned # 0 /\ silenceWatch => known.silent < Stale
  <2>1. known.owned <= known.generation
    BY <1>1, <1>2
  <2> HIDE DEF known
  <2>2. QuietTerminal = {"down", "auth-failed"}
    BY DEF QuietTerminal
  <2> QED
    BY <1>2, <2>1, <2>2, TickLemma
<1>4. again => /\ feed.fingerprint = key /\ key # NoKey
               /\ known.owned = feed.owned /\ known.wait = feed.wait
               /\ known.status = feed.status
  <2> SUFFICES ASSUME again PROVE /\ feed.fingerprint = key /\ key # NoKey
                                  /\ known.owned = feed.owned /\ known.wait = feed.wait
                                  /\ known.status = feed.status
    OBVIOUS
  <2>1. feed.fingerprint = key /\ key # NoKey
    BY <1>3
  <2>2. feed.status # "missing-key"
    BY <2>1 DEF KeyInv
  <2>3. known = [feed EXCEPT !.armed = silenceWatch]
    BY <1>1, <2>1, <2>2, ConfigureLemma
  <2> QED
    BY <1>1, <2>1, <2>3 DEF Feed
<1>5. ~again => next.status # "auth-failed"
  BY <1>2, <1>3 DEF KeyInv
<1>6. fresh => /\ known.owned = 0 /\ next.owned = feed.generation + 1
               /\ next.generation = next.owned /\ next.wait = 0 /\ known.wait = 0
               /\ next.status # "live" /\ next.owned \in Gen /\ key # NoKey
               /\ next.owned # feed.owned
               /\ \A h \in sockets : h \in shut
  <2> SUFFICES ASSUME fresh
               PROVE  /\ known.owned = 0 /\ next.owned = feed.generation + 1
                      /\ next.generation = next.owned /\ next.wait = 0 /\ known.wait = 0
                      /\ next.status # "live" /\ next.owned \in Gen /\ key # NoKey
                      /\ next.owned # feed.owned
                      /\ \A h \in sockets : h \in shut
    OBVIOUS
  <2>1. /\ known.owned = 0 /\ next.owned = feed.generation + 1
        /\ next.generation = next.owned /\ next.wait = 0 /\ known.wait = 0
        /\ next.status # "live"
    BY <1>1, <1>2, <1>3
  <2>2. next.owned \in Gen
    BY <1>1, <1>3, <2>1 DEF Feed, Gen
  <2>3. key # NoKey
    <3>1. known.status = "missing-key" => next = known
      <4> HIDE DEF known
      <4> QED BY <1>1, <1>2, <2>1, TickLemma DEF Feed
    <3> QED
      BY <1>1, <1>2, <2>1, <3>1
  <2>4. next.owned # feed.owned
    BY <1>1, <2>1
  <2>5. \A h \in sockets : h = feed.owned /\ h # 0
    BY DEF SocketsInv, TypeOK, Gen
  <2> QED
    BY <2>1, <2>2, <2>3, <2>4, <2>5
<1>7. /\ refused' = (refused /\ again)
      /\ barred' = IF again THEN (IF fresh /\ refused THEN AuthProbe ELSE barred) ELSE 0
      /\ driven' = TRUE
      /\ UNCHANGED <<frames, world, quiet>>
      /\ \/ /\ fresh /\ feed' = next /\ sent' = Unsent /\ restored' = FALSE
            /\ sockets' = (sockets \ shut) \cup {next.owned}
            /\ wire' = [Aborted(wire, shut) EXCEPT ![next.owned] = "connecting"]
         \/ /\ fresh /\ feed' = failed /\ sent' = Unsent /\ restored' = FALSE
            /\ sockets' = sockets \ shut
            /\ wire' = Aborted(wire, shut)
         \/ /\ ~fresh /\ feed' = next /\ UNCHANGED <<sent, restored>>
            /\ sockets' = sockets \ shut
            /\ wire' = Aborted(wire, shut)
  BY <1>3 DEF Ensure
<1>8. /\ failed \in Feed /\ failed.owned = 0 /\ failed.generation = next.generation
      /\ failed.fingerprint = key
      /\ failed.status \in {"auth-failed", "down", "reconnecting"}
      /\ next.status = "auth-failed" => failed.wait = AuthProbe
      /\ failed.status = "auth-failed" <=> next.status = "auth-failed"
  <2>1. "transport" \in Kind /\ "transport" # "auth" /\ 0 \in Nat
    BY DEF Kind
  <2> HIDE DEF next
  <2> QED
    BY <1>3, <2>1, FailedLemma
<1>9. /\ Aborted(wire, shut) \in [Gen -> {"unborn", "connecting", "open", "dead"}]
      /\ \A h \in Gen : Aborted(wire, shut)[h] \in {"connecting", "open"} =>
           Live(h) /\ h \notin shut
  BY DEF Aborted, TypeOK, Live
<1> HIDE DEF known, next, fresh, shut, again, failed
<1>10. TypeOK'
  <2>1. feed' \in Feed
    BY <1>3, <1>7, <1>8
  <2>2. sockets' \subseteq Gen
    BY <1>6, <1>7 DEF TypeOK
  <2>3. wire' \in [Gen -> {"unborn", "connecting", "open", "dead"}]
    BY <1>7, <1>9
  <2>4. sent' \in Key \cup {NoKey, Unsent} /\ restored' \in BOOLEAN /\ refused' \in BOOLEAN
    BY <1>1, <1>7 DEF TypeOK
  <2>5. barred' \in Nat
    BY <1>7, Constants DEF TypeOK
  <2> QED
    BY <1>7, <2>1, <2>2, <2>3, <2>4, <2>5 DEF TypeOK, world
<1>11. SocketsInv'
  <2>1. feed'.owned <= feed'.generation
    <3>1. feed' \in Feed
      BY <1>10 DEF TypeOK
    <3>2. CASE feed' = failed
      BY <1>3, <1>8, <3>2 DEF Feed
    <3>3. CASE feed' = next
      <4>1. next.owned = next.generation \/ next.owned \in {0, feed.owned}
        BY <1>2, <1>3
      <4>2. next.generation = feed.generation \/ next.generation = feed.generation + 1
        BY <1>2, <1>3
      <4> QED
        BY <1>1, <3>1, <3>3, <4>1, <4>2 DEF Feed
    <3> QED
      BY <1>7, <3>2, <3>3
  <2>2. \A h \in sockets : h = feed.owned /\ h # 0
    BY DEF SocketsInv, TypeOK, Gen
  <2>3. \A h \in Gen : Live(h) => h \in sockets
    BY DEF SocketsInv
  <2>4. CASE fresh /\ feed' = next /\ sockets' = (sockets \ shut) \cup {next.owned}
             /\ wire' = [Aborted(wire, shut) EXCEPT ![next.owned] = "connecting"]
    <3>1. sockets' = {next.owned}
      BY <1>6, <2>4
    <3>2. \A h \in Gen : Live(h)' => h = next.owned
      BY <1>6, <1>9, <2>3, <2>4 DEF Live
    <3> QED
      BY <2>1, <2>4, <3>1, <3>2 DEF SocketsInv
  <2>5. CASE fresh /\ feed' = failed /\ sockets' = sockets \ shut
             /\ wire' = Aborted(wire, shut)
    <3>1. sockets' = {}
      BY <1>6, <2>5
    <3>2. \A h \in Gen : ~Live(h)'
      BY <1>6, <1>9, <2>3, <2>5 DEF Live
    <3> QED
      BY <2>1, <3>1, <3>2 DEF SocketsInv
  <2>6. CASE ~fresh /\ feed' = next /\ sockets' = sockets \ shut
             /\ wire' = Aborted(wire, shut)
    <3>1. \A h \in sockets' : h = next.owned
      BY <2>2, <2>6 DEF shut
    <3>2. \A h \in Gen : Live(h)' => h \in sockets'
      BY <1>9, <2>3, <2>6 DEF Live
    <3> QED
      BY <2>1, <2>6, <3>1, <3>2 DEF SocketsInv
  <2> QED
    BY <1>7, <2>4, <2>5, <2>6
<1>12. KeyInv'
  <2>1. feed'.fingerprint = key
    BY <1>3, <1>7, <1>8
  <2>2. OwnedUnderItsKey'
    <3>1. CASE sent' = Unsent
      BY <3>1 DEF OwnedUnderItsKey
    <3>2. CASE ~fresh /\ feed' = next /\ UNCHANGED <<sent, restored>> /\ feed'.owned # 0
      <4>1. known.owned # 0
        <5>1. ~(next.generation > feed.generation)
          BY <3>2 DEF fresh
        <5>2. next.generation # feed.generation + 1
          BY <1>1, <5>1
        <5> QED
          BY <1>3, <3>2, <5>2
      <4>2. known.owned = feed.owned /\ feed.owned # 0
        BY <1>2, <4>1
      <4>3. feed.fingerprint = key
        BY <1>2, <4>1, <4>2 DEF KeyInv
      <4> QED
        BY <2>1, <3>2, <4>2, <4>3 DEF KeyInv, OwnedUnderItsKey
    <3> QED
      BY <1>7, <3>1, <3>2 DEF OwnedUnderItsKey
  <2>3. key = NoKey => feed' = next /\ next.owned = 0 /\ next.status = "missing-key"
    <3>1. key = NoKey => ~fresh
      BY <1>6
    <3>2. known.owned = 0 => next.owned = 0 \/ next.generation = feed.generation + 1
      BY <1>3
    <3>3. ~fresh => next.generation # feed.generation + 1
      BY <1>1 DEF fresh
    <3> QED
      BY <1>2, <1>3, <1>7, <3>1, <3>2, <3>3
  <2>4. feed'.status = "missing-key" => key = NoKey
    BY <1>3, <1>7, <1>8
  <2> QED
    BY <2>1, <2>2, <2>3, <2>4 DEF KeyInv
<1>13. LiveInv'
  <2> SUFFICES ASSUME feed'.status = "live" PROVE LiveInv'
    BY DEF LiveInv
  <2>1. feed' = next /\ ~fresh
    BY <1>6, <1>7, <1>8
  <2>2. known.status = "live" /\ next.owned = known.owned
    BY <1>3, <2>1
  <2>3. feed.status = "live" /\ known.owned = feed.owned /\ feed.owned # 0
    BY <1>2, <2>2 DEF LiveInv
  <2>4. next.silent = feed.silent
    BY <1>2, <1>3, <2>2, <2>3
  <2>5. silenceWatch => next.silent < Stale
    BY <1>2, <1>3, <2>1, <2>3, <2>4
  <2> QED
    BY <1>3, <1>7, <2>1, <2>2, <2>3, <2>4, <2>5 DEF LiveInv
<1>14. BarInv'
  <2>1. CASE ~again
    <3>1. barred' = 0 /\ ~refused'
      BY <1>7, <2>1
    <3>2. feed'.status # "auth-failed"
      BY <1>5, <1>7, <1>8, <2>1
    <3> QED
      BY <3>1, <3>2 DEF BarInv
  <2>2. CASE again
    <3>1. refused' <=> refused
      BY <1>7, <2>2
    <3>2. feed'.status = "auth-failed" <=> refused
      BY <1>3, <1>4, <1>7, <1>8, <2>2 DEF BarInv
    <3>3. CASE fresh
      <4>1. barred = 0
        <5>1. feed.owned = 0 /\ feed.wait = 0
          BY <1>4, <1>6, <2>2, <3>3
        <5> QED
          BY <5>1 DEF BarInv, TypeOK
      <4>2. barred' = IF refused THEN AuthProbe ELSE 0
        BY <1>7, <2>2, <3>3, <4>1
      <4>3. feed'.owned = 0 /\ refused => feed'.wait = AuthProbe
        BY <1>1, <1>6, <1>7, <1>8, <3>2, <3>3
      <4> QED
        BY <3>1, <3>2, <4>2, <4>3, Constants DEF BarInv
    <3>4. CASE ~fresh
      <4>1. barred' = barred /\ feed' = next
        BY <1>7, <2>2, <3>4
      <4>2. next.generation # feed.generation + 1
        BY <1>1, <3>4 DEF fresh
      <4>3. CASE feed.owned = 0
        <5>1. next = known
          BY <1>3, <1>4, <2>2, <4>2, <4>3
        <5> QED
          BY <1>4, <2>2, <3>1, <3>2, <4>1, <4>3, <5>1 DEF BarInv
      <4>4. CASE feed.owned # 0
        <5>1. barred > 0 => refused /\ barred <= AuthProbe
          BY <4>4 DEF BarInv
        <5>2. refused /\ next.owned = 0 => next.wait = AuthProbe
          BY <1>3, <1>4, <2>2, <4>4 DEF BarInv
        <5> QED
          BY <3>1, <3>2, <4>1, <5>1, <5>2, Constants DEF BarInv, TypeOK
      <4> QED
        BY <4>3, <4>4
    <3> QED
      BY <3>3, <3>4
  <2> QED
    BY <2>1, <2>2
<1>15. /\ feed'.generation # feed.generation
       /\ feed'.fingerprint = feed.fingerprint
       /\ feed.status # "missing-key"
       => barred = 0
  <2> SUFFICES ASSUME feed'.generation # feed.generation,
                      feed'.fingerprint = feed.fingerprint
               PROVE  barred = 0
    OBVIOUS
  <2>1. fresh
    <3>1. feed'.generation = next.generation
      BY <1>7, <1>8
    <3>2. next.generation = feed.generation \/ next.generation = feed.generation + 1
      BY <1>2, <1>3
    <3> QED
      BY <1>1, <3>1, <3>2 DEF fresh
  <2>2. feed'.fingerprint = key
    BY <1>3, <1>7, <1>8
  <2>3. again
    BY <1>3, <1>6, <2>1, <2>2 DEF again
  <2>4. feed.owned = 0 /\ feed.wait = 0
    BY <1>4, <1>6, <2>1, <2>3
  <2> QED
    BY <2>4 DEF BarInv, TypeOK
<1> QED
  BY <1>10, <1>11, <1>12, <1>13, <1>14, <1>15

(* A socket that is given up is no longer connected.                           *)
LEMMA AbortedLemma ==
  ASSUME FeedInv, NEW gone
  PROVE  /\ Aborted(wire, gone) \in [Gen -> {"unborn", "connecting", "open", "dead"}]
         /\ \A h \in Gen : Aborted(wire, gone)[h] \in {"connecting", "open"} =>
              Live(h) /\ h \notin gone /\ h \in sockets
BY DEF Aborted, FeedInv, TypeOK, SocketsInv, Live

LEMMA OpenPreserves ==
  ASSUME FeedInv, NEW g \in Gen, Open(g)
  PROVE  FeedInv'
<1> USE DEF FeedInv
<1>1. feed \in Feed
  BY DEF TypeOK
<1>2. CASE /\ g \in sockets /\ feed.owned = g
           /\ feed' = Opened(feed) /\ wire' = [wire EXCEPT ![g] = "open"]
           /\ sent' = key /\ UNCHANGED <<sockets, refused, barred>>
  <2> DEFINE r == Opened(feed)
  <2>1. /\ r \in Feed /\ r.owned = feed.owned /\ r.generation = feed.generation
        /\ r.fingerprint = feed.fingerprint /\ r.armed = feed.armed
        /\ r.silent = feed.silent /\ r.wait = feed.wait /\ r.status # "live"
        /\ r.status = "auth-failed" <=> feed.status = "auth-failed"
        /\ r.status \notin {"idle", "missing-key"}
    BY <1>1, EventLemma
  <2> HIDE DEF r
  <2>2. feed' = r /\ g # 0
    BY <1>2 DEF Gen, r
  <2>3. UNCHANGED <<frames, world, restored, quiet, driven>>
    BY DEF Open
  <2>4. TypeOK'
    BY <1>2, <2>1, <2>2, <2>3 DEF TypeOK, world
  <2>5. SocketsInv'
    BY <1>2, <2>1, <2>2 DEF SocketsInv, Live, TypeOK
  <2>6. KeyInv'
    BY <1>2, <2>1, <2>2, <2>3 DEF KeyInv, OwnedUnderItsKey, world
  <2>7. LiveInv'
    BY <2>1, <2>2 DEF LiveInv
  <2>8. BarInv'
    BY <1>2, <2>1, <2>2 DEF BarInv
  <2> QED
    BY <2>4, <2>5, <2>6, <2>7, <2>8
<1>3. CASE /\ g \in sockets /\ feed.owned = g
           /\ FailGeneration(g, "transport", 0)
           /\ sockets' = sockets \ {g} /\ wire' = Aborted(wire, {g})
           /\ UNCHANGED sent
  <2>1. wire' \in [Gen -> {"unborn", "connecting", "open", "dead"}]
    BY <1>3, AbortedLemma
  <2>2. \A h \in Gen : Live(h)' => Live(h) /\ h \in sockets'
    BY <1>3, AbortedLemma DEF Live
  <2>3. "transport" \in Kind /\ 0 \in Nat /\ frames' \subseteq Gen
    BY DEF Kind, Open, TypeOK
  <2>4. UNCHANGED <<world, login, quiet, driven>>
    BY <1>3 DEF Open
  <2>5. \A h \in sockets' : h \in sockets /\ (feed.owned = g => h # g)
    BY <1>3
  <2> QED
    BY <1>3, <2>1, <2>2, <2>3, <2>4, <2>5, FailPreserves
<1>4. CASE /\ ~(g \in sockets /\ feed.owned = g)
           /\ sockets' = sockets \ {g} /\ wire' = Aborted(wire, {g})
           /\ UNCHANGED <<feed, sent, refused, barred>>
  <2>1. wire' \in [Gen -> {"unborn", "connecting", "open", "dead"}]
    BY <1>4, AbortedLemma
  <2>2. \A h \in Gen : Live(h)' => h \in sockets'
    BY <1>4, AbortedLemma DEF Live
  <2>3. UNCHANGED <<frames, world, login, quiet, driven>>
    BY <1>4 DEF Open
  <2>4. TypeOK'
    BY <1>4, <2>1, <2>3 DEF TypeOK, world
  <2>5. SocketsInv'
    BY <1>4, <2>2 DEF SocketsInv
  <2> QED
    BY <1>4, <2>3, <2>4, <2>5 DEF KeyInv, OwnedUnderItsKey, world, LiveInv, BarInv
<1> QED
  BY <1>2, <1>3, <1>4 DEF Open

(* A frame, whether decoded at once or after an await.                         *)
LEMMA DecodedPreserves ==
  ASSUME FeedInv, NEW g \in Gen, NEW content \in Kind \cup {"data"},
         HandleDecoded(g, content), frames' \subseteq Gen,
         UNCHANGED <<world, login, driven>>
  PROVE  FeedInv'
<1> USE DEF FeedInv
<1>1. feed \in Feed
  BY DEF TypeOK
<1>2. Aborted(wire, {g}) \in [Gen -> {"unborn", "connecting", "open", "dead"}]
  BY AbortedLemma
<1>3. \A h \in Gen : Aborted(wire, {g})[h] \in {"connecting", "open"} =>
        Live(h) /\ h # g /\ h \in sockets
  BY AbortedLemma
<1>4. \A h \in sockets : h = feed.owned
  BY DEF SocketsInv
<1>5. CASE g \notin sockets
  <2>1. /\ wire' = Aborted(wire, {g})
        /\ UNCHANGED <<feed, sockets, refused, barred, quiet>>
    BY <1>5 DEF HandleDecoded
  <2>2. TypeOK'
    BY <1>2, <2>1 DEF TypeOK, world
  <2>3. SocketsInv'
    BY <1>3, <2>1 DEF SocketsInv, Live
  <2> QED
    BY <2>1, <2>2, <2>3 DEF KeyInv, OwnedUnderItsKey, world, LiveInv, BarInv
<1>6. CASE g \in sockets /\ content = "data"
  <2> DEFINE r == Credited(feed)
  <2>1. /\ r \in Feed /\ r.owned = feed.owned /\ r.generation = feed.generation
        /\ r.fingerprint = feed.fingerprint /\ r.status = "live" /\ r.silent = 0
    BY <1>1, EventLemma
  <2>2. feed.owned = g /\ g # 0
    BY <1>4, <1>6 DEF Gen
  <2>3. /\ feed' = r /\ UNCHANGED <<sockets, wire>>
        /\ refused' = FALSE /\ barred' = 0 /\ quiet' = 0
    BY <1>6, <2>2 DEF HandleDecoded, Pardon
  <2> HIDE DEF r
  <2>4. TypeOK'
    <3>1. 0 \in 0..Stale /\ 0 \in Nat /\ FALSE \in BOOLEAN
      BY Constants
    <3> QED
      BY <2>1, <2>3, <3>1 DEF TypeOK, world
  <2>5. SocketsInv'
    BY <2>1, <2>3 DEF SocketsInv, Live
  <2>6. KeyInv'
    BY <2>1, <2>2, <2>3 DEF KeyInv, OwnedUnderItsKey, world
  <2>7. LiveInv'
    BY <2>1, <2>2, <2>3, Constants DEF LiveInv
  <2>8. BarInv'
    BY <2>1, <2>3 DEF BarInv
  <2> QED
    BY <2>4, <2>5, <2>6, <2>7, <2>8
<1>7. CASE g \in sockets /\ content # "data"
  <2>1. feed.owned = g
    BY <1>4, <1>7
  <2>2. /\ FailGeneration(g, content, 0) /\ quiet' = quiet
        /\ sockets' = sockets \ {g} /\ wire' = Aborted(wire, {g})
    BY <1>7, <2>1 DEF HandleDecoded
  <2>3. content \in Kind /\ 0 \in Nat
    BY <1>7
  <2>4. \A h \in Gen : Live(h)' => Live(h) /\ h \in sockets'
    BY <1>3, <2>2 DEF Live
  <2>5. wire' \in [Gen -> {"unborn", "connecting", "open", "dead"}]
    BY <1>2, <2>2
  <2>6. \A h \in sockets' : h \in sockets /\ (feed.owned = g => h # g)
    BY <2>2
  <2>7. UNCHANGED <<world, login, quiet, driven>>
    BY <2>2
  <2> QED
    BY <2>2, <2>3, <2>4, <2>5, <2>6, <2>7, FailPreserves
<1> QED
  BY <1>5, <1>6, <1>7

(* The other events of a socket.                                               *)
LEMMA EventPreserves ==
  ASSUME FeedInv, NEW g \in Gen, SocketEvent(g)
  PROVE  FeedInv'
<1>1. frames \subseteq Gen
  BY DEF FeedInv, TypeOK
<1>2. CASE Open(g)
  BY <1>2, OpenPreserves
<1>3. ASSUME NEW content \in Kind \cup {"data"}, Message(g, content) PROVE FeedInv'
  <2>1. /\ HandleDecoded(g, content) /\ frames' \subseteq Gen
        /\ UNCHANGED <<world, login, driven>>
    BY <1>1, <1>3 DEF Message
  <2> QED
    BY <2>1, DecodedPreserves
<1>4. ASSUME NEW content \in Kind \cup {"data"}, Decode(g, content) PROVE FeedInv'
  <2>1. /\ HandleDecoded(g, content) /\ frames' \subseteq Gen
        /\ UNCHANGED <<world, login, driven>>
    BY <1>1, <1>4 DEF Decode
  <2> QED
    BY <2>1, DecodedPreserves
<1>5. CASE Defer(g)
  BY <1>5 DEF Defer, FeedInv, TypeOK, world, SocketsInv, Live, KeyInv, OwnedUnderItsKey,
              LiveInv, BarInv
<1>6. ASSUME NEW kind \in Kind, NEW after \in RetryAfters,
             UnexpectedResponse(g, kind, after)
      PROVE  FeedInv'
  <2>1. /\ FailGeneration(g, kind, after) /\ sockets' = sockets \ {g}
        /\ wire' = Aborted(wire, {g}) /\ frames' \subseteq Gen
        /\ UNCHANGED <<world, login, quiet, driven>>
    BY <1>1, <1>6 DEF UnexpectedResponse
  <2>2. wire' \in [Gen -> {"unborn", "connecting", "open", "dead"}]
    BY <2>1, AbortedLemma
  <2>3. \A h \in Gen : Live(h)' => Live(h) /\ h \in sockets'
    BY <2>1, AbortedLemma DEF Live
  <2>4. after \in Nat
    BY Constants
  <2>5. \A h \in sockets' : h \in sockets /\ (feed.owned = g => h # g)
    BY <2>1
  <2> QED
    BY <2>1, <2>2, <2>3, <2>4, <2>5, FailPreserves
<1>7. ASSUME NEW kind \in Kind, ErrorEvent(g, kind) PROVE FeedInv'
  <2>1. frames' \subseteq Gen /\ UNCHANGED <<world, login, quiet, driven>>
    BY <1>1, <1>7 DEF ErrorEvent
  <2>2. CASE g \in sockets
    <3>1. feed.owned = g
      BY <2>2 DEF FeedInv, SocketsInv
    <3>2. /\ FailGeneration(g, kind, 0) /\ sockets' = sockets \ {g}
          /\ wire' = Aborted(wire, {g})
      BY <1>7, <2>2, <3>1 DEF ErrorEvent
    <3>3. wire' \in [Gen -> {"unborn", "connecting", "open", "dead"}]
      BY <3>2, AbortedLemma
    <3>4. \A h \in Gen : Live(h)' => Live(h) /\ h \in sockets'
      BY <3>2, AbortedLemma DEF Live
    <3>5. \A h \in sockets' : h \in sockets /\ (feed.owned = g => h # g)
      BY <3>2
    <3>6. 0 \in Nat
      OBVIOUS
    <3> QED
      BY <2>1, <3>2, <3>3, <3>4, <3>5, <3>6, FailPreserves
  <2>3. CASE g \notin sockets
    <3>1. wire' = Aborted(wire, {g}) /\ UNCHANGED <<feed, sockets, refused, barred>>
      BY <1>7, <2>3 DEF ErrorEvent
    <3>2. wire' \in [Gen -> {"unborn", "connecting", "open", "dead"}]
      BY <3>1, AbortedLemma
    <3>3. \A h \in Gen : Live(h)' => h \in sockets'
      BY <3>1, AbortedLemma DEF Live
    <3>4. TypeOK'
      BY <2>1, <3>1, <3>2 DEF FeedInv, TypeOK, world
    <3>5. SocketsInv'
      BY <3>1, <3>3 DEF FeedInv, SocketsInv
    <3> QED
      BY <2>1, <3>1, <3>4, <3>5 DEF FeedInv, KeyInv, OwnedUnderItsKey, world, LiveInv, BarInv
  <2> QED
    BY <2>2, <2>3
<1>8. CASE Close(g)
  <2>1. /\ FailGeneration(g, "transport", 0) /\ sockets' = sockets \ {g}
        /\ wire' = [wire EXCEPT ![g] = "dead"] /\ frames' \subseteq Gen
        /\ UNCHANGED <<world, login, quiet, driven>>
    BY <1>1, <1>8 DEF Close
  <2>2. wire' \in [Gen -> {"unborn", "connecting", "open", "dead"}]
    BY <2>1 DEF FeedInv, TypeOK
  <2>3. \A h \in Gen : Live(h)' => Live(h) /\ h \in sockets'
    BY <2>1 DEF FeedInv, TypeOK, SocketsInv, Live
  <2>4. "transport" \in Kind /\ 0 \in Nat
    BY DEF Kind
  <2>5. \A h \in sockets' : h \in sockets /\ (feed.owned = g => h # g)
    BY <2>1
  <2> QED
    BY <2>1, <2>2, <2>3, <2>4, <2>5, FailPreserves
<1> QED
  BY <1>2, <1>3, <1>4, <1>5, <1>6, <1>7, <1>8 DEF SocketEvent

(* The operator and the clock.                                                 *)
LEMMA WorldPreserves ==
  ASSUME FeedInv, Dispose \/ Elapse \/ \E k \in Key \cup {NoKey} : SetKey(k)
  PROVE  FeedInv'
<1> USE DEF FeedInv
<1>1. feed \in Feed
  BY DEF TypeOK
<1>2. ASSUME NEW k \in Key \cup {NoKey}, SetKey(k) PROVE FeedInv'
  <2>1. TypeOK'
    BY <1>2, Constants DEF SetKey, TypeOK
  <2> QED
    BY <1>2, <2>1 DEF SetKey, SocketsInv, Live, KeyInv, OwnedUnderItsKey, LiveInv, BarInv
<1>3. CASE Dispose
  <2> DEFINE r == Disposed(feed)
  <2>1. /\ r \in Feed /\ r.owned = 0 /\ r.generation = feed.generation
        /\ r.fingerprint = NoKey /\ r.status = "idle"
    BY <1>1, EventLemma
  <2>2. /\ feed' = r /\ sockets' = {} /\ wire' = Aborted(wire, sockets)
        /\ silenceWatch' \in BOOLEAN /\ disposals < MaxDisposals
        /\ disposals' = disposals + 1
        /\ refused' = FALSE /\ barred' = 0 /\ driven' = FALSE
        /\ UNCHANGED <<frames, key, edits, login, quiet>>
    BY <1>3 DEF Dispose, Pardon
  <2> HIDE DEF r
  <2>3. wire' \in [Gen -> {"unborn", "connecting", "open", "dead"}]
    BY <2>2, AbortedLemma
  <2>4. \A h \in Gen : ~Live(h)'
    BY <2>2, AbortedLemma DEF Live
  <2>5. TypeOK'
    <3>1. disposals' \in 0..MaxDisposals
      BY <2>2, Constants DEF TypeOK
    <3>2. sockets' \subseteq Gen /\ barred' \in Nat /\ refused' \in BOOLEAN
      BY <2>2
    <3> QED
      BY <2>1, <2>2, <2>3, <3>1, <3>2 DEF TypeOK
  <2>6. SocketsInv'
    BY <2>1, <2>2, <2>4 DEF SocketsInv, Feed
  <2> QED
    BY <2>1, <2>2, <2>5, <2>6 DEF KeyInv, OwnedUnderItsKey, LiveInv, BarInv
<1>4. CASE Elapse
  <2> DEFINE s == IF feed.owned # 0 /\ feed.silent < Longest THEN feed.silent + 1
                  ELSE feed.silent
             w == IF feed.wait > 0 THEN feed.wait - 1 ELSE 0
  <2>1. feed' = [feed EXCEPT !.silent = s, !.wait = w]
    BY <1>4 DEF Elapse
  <2>2. /\ barred' = IF barred > 0 THEN barred - 1 ELSE 0
        /\ quiet' = IF quiet < Stale THEN quiet + 1 ELSE quiet
        /\ driven' = FALSE
        /\ UNCHANGED <<sockets, wire, frames, world, login, refused>>
    BY <1>4 DEF Elapse
  <2>3. s \in 0..Longest /\ w \in Nat
    BY <1>1, Constants DEF Feed
  <2>4. /\ feed' \in Feed /\ feed'.owned = feed.owned
        /\ feed'.generation = feed.generation /\ feed'.status = feed.status
        /\ feed'.fingerprint = feed.fingerprint
        /\ feed'.silent = s /\ feed'.wait = w
    <3> HIDE DEF s, w
    <3> QED
      BY <1>1, <2>1, <2>3 DEF Feed
  <2>5. TypeOK'
    <3>1. barred' \in Nat /\ quiet' \in 0..Stale
      BY <2>2, Constants DEF TypeOK
    <3> QED
      BY <2>2, <2>4, <3>1 DEF TypeOK, world
  <2>6. SocketsInv'
    BY <2>2, <2>4 DEF SocketsInv, Live
  <2>7. KeyInv'
    BY <2>2, <2>4 DEF KeyInv, OwnedUnderItsKey, world
  <2>8. LiveInv'
    BY <1>1, <2>2, <2>4, Constants DEF LiveInv, TypeOK, Feed
  <2>9. BarInv'
    BY <1>1, <2>2, <2>4, Constants DEF BarInv, TypeOK, Feed
  <2> QED
    BY <2>5, <2>6, <2>7, <2>8, <2>9
<1> QED
  BY <1>2, <1>3, <1>4

LEMMA StepPreserves ==
  ASSUME FeedInv, [Next]_vars
  PROVE  FeedInv'
<1>1. CASE UNCHANGED vars
  BY <1>1 DEF vars, world, FeedInv, TypeOK, SocketsInv, Live, KeyInv, OwnedUnderItsKey,
              LiveInv, BarInv
<1>2. CASE Ensure
  BY <1>2, EnsurePreserves
<1>3. ASSUME NEW g \in Gen, SocketEvent(g) PROVE FeedInv'
  BY <1>3, EventPreserves
<1>4. CASE Dispose \/ Elapse \/ \E k \in Key \cup {NoKey} : SetKey(k)
  BY <1>4, WorldPreserves
<1> QED
  BY <1>1, <1>2, <1>3, <1>4 DEF Next

--------------------------------------------------------------------------------
(* The theorems.                                                               *)

LEMMA Invariance == Spec => []FeedInv
<1>1. FeedInv /\ [Next]_vars => FeedInv'
  BY StepPreserves
<1> QED
  BY InitFeedInv, <1>1, PTL DEF Spec

(* The feed's state stays well typed, for every ladder and budget.             *)
THEOREM TypeCorrect == Spec => []TypeOK
<1>1. FeedInv => TypeOK
  BY DEF FeedInv
<1> QED
  BY Invariance, <1>1, PTL

(* One connection per key, through late events, factory failures, rotations    *)
(* and restarts (the ownership rules of aisStreamAdapter.js).                  *)
THEOREM AtMostOneConnection == Spec => []OneConnection
<1>1. FeedInv => OneConnection
  BY DEF FeedInv, SocketsInv, OneConnection
<1> QED
  BY Invariance, <1>1, PTL

(* The owned socket has subscribed with the known key or not at all, unless    *)
(* the next ensure closes it or the key was changed back unseen (configure()). *)
THEOREM VerdictIsAboutTheKey == Spec => []OwnedUnderItsKey
<1>1. FeedInv => OwnedUnderItsKey
  BY DEF FeedInv, KeyInv
<1> QED
  BY Invariance, <1>1, PTL

(* A reported "live" is backed by a recent record (tick(), onMessage()).       *)
THEOREM LiveIsBacked == Spec => []LiveIsHonest
<1>1. FeedInv => LiveIsHonest
  <2> SUFFICES ASSUME FeedInv, feed.status = "live"
               PROVE  /\ feed.owned # 0
                      /\ driven /\ feed.armed => quiet < Stale
    BY DEF LiveIsHonest
  <2>1. quiet \in Nat /\ feed.silent \in Nat
    BY Constants DEF FeedInv, TypeOK, Feed
  <2> QED
    BY <2>1, Constants DEF FeedInv, LiveInv
<1> QED
  BY Invariance, <1>1, PTL

(* A refused or limited key is spared for the time the upstream wants          *)
(* (scheduleRetry()).                                                          *)
THEOREM RefusedKeysAreSpared == Spec => BarredKeyIsSpared
<1>1. ASSUME FeedInv, [Next]_vars,
             feed'.generation # feed.generation,
             feed'.fingerprint = feed.fingerprint, feed.status # "missing-key"
      PROVE  barred = 0
  <2>1. CASE Ensure
    BY <1>1, <2>1, EnsurePreserves
  <2>2. ~Ensure => feed'.generation = feed.generation
    <3> SUFFICES ASSUME ~Ensure PROVE feed'.generation = feed.generation
      OBVIOUS
    <3>1. feed \in Feed
      BY <1>1 DEF FeedInv, TypeOK
    <3>2. ASSUME NEW kind \in Kind, NEW after \in Nat
          PROVE  Failed(feed, kind, after).generation = feed.generation
      BY <3>1, FailedLemma
    <3>3. ASSUME NEW g \in Gen, NEW kind \in Kind, NEW after \in Nat,
                 FailGeneration(g, kind, after)
          PROVE  feed'.generation = feed.generation
      BY <3>2, <3>3 DEF FailGeneration
    <3>4. "transport" \in Kind /\ 0 \in Nat /\ RetryAfters \subseteq Nat
      BY Constants DEF Kind
    <3>5. /\ Opened(feed).generation = feed.generation
          /\ Credited(feed).generation = feed.generation
          /\ Disposed(feed).generation = feed.generation
      BY <3>1, EventLemma
    <3>6. ASSUME NEW g \in Gen, NEW content \in Kind \cup {"data"},
                 HandleDecoded(g, content)
          PROVE  feed'.generation = feed.generation
      BY <3>3, <3>4, <3>5, <3>6 DEF HandleDecoded
    <3>7. ASSUME NEW g \in Gen, SocketEvent(g) PROVE feed'.generation = feed.generation
      BY <3>3, <3>4, <3>5, <3>6, <3>7
         DEF SocketEvent, Open, Message, Decode, Defer, UnexpectedResponse, ErrorEvent,
             Close
    <3>8. CASE \E k \in Key \cup {NoKey} : SetKey(k)
      BY <3>8 DEF SetKey
    <3>9. CASE Dispose
      BY <3>5, <3>9 DEF Dispose
    <3>10. CASE Elapse
      BY <3>1, <3>10 DEF Elapse, Feed
    <3>11. CASE UNCHANGED vars
      BY <3>11 DEF vars
    <3> QED
      BY <1>1, <3>7, <3>8, <3>9, <3>10, <3>11 DEF Next
  <2> QED
    BY <1>1, <2>1, <2>2
<1>2. FeedInv /\ [Next]_vars =>
        [ /\ feed'.generation # feed.generation
          /\ feed'.fingerprint = feed.fingerprint
          /\ feed.status # "missing-key"
          => barred = 0 ]_vars
  BY <1>1
<1> QED
  BY Invariance, <1>2, PTL DEF Spec, BarredKeyIsSpared

==============================================================================
