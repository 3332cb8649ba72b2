------------------------------ MODULE LayerProofs ------------------------------
(* Proofs about one data layer, for every number of requests, withdrawals and  *)
(* destructions.                                                               *)
EXTENDS LayerProps, TLAPS

(* What holds of an entry within a step as well as between steps.              *)
Sound(e) ==
  /\ e \in Entry
  /\ e.timers = IF e.interval THEN 1 ELSE 0
  /\ ~e.enabled => ~e.interval
  /\ \A i \in 1..Len(e.chain) : e.chain[i] <= e.epoch
  /\ e.turn.epoch <= e.epoch

(* What a turn is about.                                                       *)
OfTurn(e) ==
  /\ e.turn.phase = "idle" => e.turn = NoTurn
  /\ e.turn.phase # "idle" =>
       /\ e.turn.epoch \in Epoch
       /\ ~e.turn.compensation => e.turn.target = e.records[e.turn.epoch].want
  /\ e.turn.phase \in Enabling => e.turn.target
  /\ e.turn.phase = "disable" => ~e.turn.target
  /\ e.turn.phase = "adopt" => ~e.turn.compensation /\ e.enabled = e.turn.target /\ ~e.uncertain
  /\ e.turn.phase \in {"cleanup", "failed"} => ~e.interval

(* What requests, aborts and the presentation of a transition leave alone.     *)
Like(e, f) ==
  /\ f.registered = e.registered /\ f.destroying = e.destroying
  /\ f.enabled = e.enabled /\ f.uncertain = e.uncertain
  /\ f.interval => e.interval
  /\ f.turn.phase = e.turn.phase /\ f.turn.epoch = e.turn.epoch
  /\ f.turn.target = e.turn.target /\ f.turn.compensation = e.turn.compensation
  /\ e.turn.phase = "idle" => f.turn = e.turn
  /\ e.turn.epoch \in Epoch => f.records[e.turn.epoch].want = e.records[e.turn.epoch].want
  /\ \A k \in Epoch : f.records[k].answer = "granted" => e.records[k].answer = "granted"

(* No work turns the layer on or off, or the module has answered.              *)
Still == {"idle", "adopt", "guard"}

(* The entry, the module and the destruction of the layer.                     *)
Agrees(e, m, t) ==
  /\ e.turn.phase \in Still /\ ~e.enabled => m = "off"
  /\ e.turn.phase \in Still /\ e.enabled /\ ~e.uncertain /\ t = "idle" => m # "off"
  /\ e.turn.phase = "update" => m # "off"
  /\ e.destroying <=> t \notin {"idle", "rejected"}
  /\ t \in {"disable", "destroy", "gone"} => e.turn.phase = "idle" /\ e.chain = <<>>
  /\ t \in {"destroy", "gone"} => ~e.enabled
  /\ ~e.registered <=> t = "gone"

(* An answer of TRUE is about the newest request, and true.                    *)
Grants(e, f) ==
  \A k \in Epoch :
    e.records[k].answer # "granted" /\ f.records[k].answer = "granted"
      => /\ f.enabled = e.records[k].want
         /\ ~f.uncertain
         /\ e.turn.epoch = k => f.epoch = k

Good(e, m, t) == Sound(e) /\ OfTurn(e) /\ Agrees(e, m, t)

LayerInv == TypeOK /\ Good(entry, module, teardown)

--------------------------------------------------------------------------------
(* The operators on entries.                                                   *)

LEMMA LikeLemma ==
  ASSUME NEW e, NEW f, NEW g, Like(e, f), Like(f, g)
  PROVE  Like(e, g)
BY DEF Like

LEMMA TimerLemma ==
  ASSUME NEW e \in Entry, e.timers = IF e.interval THEN 1 ELSE 0
  PROVE  LET c == ClearTimer(e)
         IN /\ c \in Entry /\ ~c.interval /\ c.timers = 0
            /\ c.registered = e.registered /\ c.destroying = e.destroying
            /\ c.enabled = e.enabled /\ c.uncertain = e.uncertain
            /\ c.chain = e.chain /\ c.turn = e.turn /\ c.epoch = e.epoch
            /\ c.records = e.records
<1>1. CASE e.interval
  <2>1. e.timers - 1 \in Nat
    BY <1>1
  <2>2. ClearTimer(e) = [e EXCEPT !.interval = FALSE, !.timers = @ - 1]
    BY <1>1 DEF ClearTimer
  <2>3. ClearTimer(e) \in Entry
    BY <2>1, <2>2 DEF Entry
  <2> QED
    BY <1>1, <2>2, <2>3 DEF Entry
<1>2. CASE ~e.interval
  BY <1>2 DEF ClearTimer
<1> QED
  BY <1>1, <1>2 DEF Entry

LEMMA ClearLemma ==
  ASSUME NEW e, Sound(e)
  PROVE  /\ Sound(ClearTimer(e)) /\ Like(e, ClearTimer(e))
         /\ ~ClearTimer(e).interval
         /\ ClearTimer(e).epoch = e.epoch /\ ClearTimer(e).turn = e.turn
         /\ ClearTimer(e).chain = e.chain /\ ClearTimer(e).records = e.records
<1>1. e \in Entry /\ e.timers = IF e.interval THEN 1 ELSE 0
  BY DEF Sound
<1> DEFINE c == ClearTimer(e)
<1>2. /\ c \in Entry /\ ~c.interval /\ c.timers = 0
      /\ c.registered = e.registered /\ c.destroying = e.destroying
      /\ c.enabled = e.enabled /\ c.uncertain = e.uncertain
      /\ c.chain = e.chain /\ c.turn = e.turn /\ c.epoch = e.epoch
      /\ c.records = e.records
  BY <1>1, TimerLemma
<1> HIDE DEF c
<1>3. Sound(c)
  BY <1>2 DEF Sound
<1>4. Like(e, c)
  BY <1>2 DEF Like
<1> QED
  BY <1>2, <1>3, <1>4 DEF c

(* An abort outside the calls that enable starts at most a stray disable().    *)
LEMMA AbortedLemma ==
  ASSUME NEW e \in Entry, ~(~Active(e) \/ e.turn.aborted), e.turn.phase \notin Enabling
  PROVE  \E n \in Nat : AbortTurn(e) = [e EXCEPT !.turn.aborted = TRUE, !.strays = n]
<1>1. CASE e.turn.phase = "failed"
  <2>1. AbortTurn(e) = [e EXCEPT !.turn.aborted = TRUE, !.strays = e.strays + 1]
    BY <1>1 DEF AbortTurn, Entry
  <2>2. e.strays + 1 \in Nat
    BY DEF Entry
  <2> QED
    BY <2>1, <2>2
<1>2. CASE e.turn.phase # "failed"
  <2>1. AbortTurn(e) = [e EXCEPT !.turn.aborted = TRUE]
    BY <1>2 DEF AbortTurn
  <2>2. /\ [e EXCEPT !.turn.aborted = TRUE] = [e EXCEPT !.turn.aborted = TRUE, !.strays = e.strays]
        /\ e.strays \in Nat
    BY DEF Entry
  <2> QED
    BY <2>1, <2>2
<1> QED
  BY <1>1, <1>2

LEMMA AbortLemma ==
  ASSUME NEW e, Sound(e)
  PROVE  /\ Sound(AbortTurn(e)) /\ Like(e, AbortTurn(e))
         /\ AbortTurn(e).epoch = e.epoch /\ AbortTurn(e).chain = e.chain
         /\ AbortTurn(e).records = e.records
         /\ e.turn.phase = "idle" => AbortTurn(e) = e
<1> DEFINE c == ClearTimer(e)
<1>1. /\ Sound(c) /\ Like(e, c) /\ c.epoch = e.epoch /\ c.chain = e.chain
      /\ c.records = e.records /\ c.turn = e.turn
  BY ClearLemma
<1>2. c \in Entry /\ e \in Entry
  BY <1>1 DEF Sound
<1> HIDE DEF c
<1>3. CASE ~Active(e) \/ e.turn.aborted
  <2>1. AbortTurn(e) = e
    BY <1>3 DEF AbortTurn
  <2> QED
    BY <2>1 DEF Like
<1>4. CASE ~(~Active(e) \/ e.turn.aborted) /\ e.turn.phase \in Enabling
  <2> DEFINE f == [c EXCEPT !.turn.aborted = TRUE, !.turn.awaited = TRUE]
  <2>1. AbortTurn(e) = f
    BY <1>4 DEF AbortTurn, c
  <2>2. f \in Entry
    BY <1>2 DEF Entry, Turn
  <2>3. /\ f.registered = c.registered /\ f.destroying = c.destroying
        /\ f.enabled = c.enabled /\ f.uncertain = c.uncertain
        /\ f.interval = c.interval /\ f.timers = c.timers
        /\ f.chain = c.chain /\ f.epoch = c.epoch /\ f.records = c.records
    BY <1>2 DEF Entry
  <2>4. /\ f.turn.phase = c.turn.phase /\ f.turn.epoch = c.turn.epoch
        /\ f.turn.target = c.turn.target /\ f.turn.compensation = c.turn.compensation
    BY <1>2 DEF Entry, Turn
  <2> HIDE DEF f
  <2>5. Sound(f)
    BY <1>1, <2>2, <2>3, <2>4 DEF Sound
  <2>7. e.turn.phase # "idle"
    BY <1>4 DEF Active
  <2>6. Like(c, f)
    BY <1>1, <2>3, <2>4, <2>7 DEF Like
  <2> QED
    BY <1>1, <2>1, <2>3, <2>5, <2>6, <2>7, LikeLemma
<1>5. CASE ~(~Active(e) \/ e.turn.aborted) /\ e.turn.phase \notin Enabling
  <2>8. PICK n \in Nat : AbortTurn(e) = [e EXCEPT !.turn.aborted = TRUE, !.strays = n]
    BY <1>2, <1>5, AbortedLemma
  <2> DEFINE f == [e EXCEPT !.turn.aborted = TRUE, !.strays = n]
  <2>1. AbortTurn(e) = f
    BY <2>8
  <2>2. f \in Entry
    BY <1>2 DEF Entry, Turn
  <2>3. /\ f.registered = e.registered /\ f.destroying = e.destroying
        /\ f.enabled = e.enabled /\ f.uncertain = e.uncertain
        /\ f.interval = e.interval /\ f.timers = e.timers
        /\ f.chain = e.chain /\ f.epoch = e.epoch /\ f.records = e.records
    BY <1>2 DEF Entry
  <2>4. /\ f.turn.phase = e.turn.phase /\ f.turn.epoch = e.turn.epoch
        /\ f.turn.target = e.turn.target /\ f.turn.compensation = e.turn.compensation
    BY <1>2 DEF Entry, Turn
  <2> HIDE DEF f
  <2>5. Sound(f)
    BY <2>2, <2>3, <2>4 DEF Sound
  <2>7. e.turn.phase # "idle"
    BY <1>5 DEF Active
  <2>6. Like(e, f)
    BY <2>3, <2>4, <2>7 DEF Like
  <2> QED
    BY <2>1, <2>3, <2>5, <2>6, <2>7
<1> QED
  BY <1>3, <1>4, <1>5

LEMMA ReserveLemma ==
  ASSUME NEW e, Sound(e), NEW want \in BOOLEAN, e.epoch + 1 <= MaxEpoch
  PROVE  LET f == Reserve(e, want)
         IN Sound(f) /\ Like(e, f) /\ f.epoch = e.epoch + 1 /\ f.turn = e.turn
<1> DEFINE k  == e.epoch + 1
           q  == [epoch |-> k, want |-> want]
           r  == [want |-> want, answer |-> "pending"]
           rs == [e.records EXCEPT ![k] = r]
           f  == Reserve(e, want)
<1>1. e \in Entry /\ e.epoch \in Nat /\ MaxEpoch \in Nat
  BY LayerAssumption DEF Sound, Entry, LayerAssumption
<1>2. k \in 0..MaxEpoch /\ k \in Epoch
  BY <1>1 DEF Epoch
<1>3. q \in Queued
  BY <1>2 DEF Queued
<1>4. r \in Record
  BY DEF Record
<1>5. rs \in [Epoch -> Record]
  BY <1>1, <1>4 DEF Entry
<1>6. f = [e EXCEPT !.epoch = k, !.want = want, !.queued = q, !.records = rs]
  BY <1>1 DEF Reserve, Entry
<1>7. /\ \A j \in Epoch : rs[j].answer = "granted" => e.records[j].answer = "granted"
      /\ \A j \in Epoch : j # k => rs[j].want = e.records[j].want
  BY <1>1, <1>2 DEF Entry
<1>8. e.turn.epoch # k /\ \A i \in 1..Len(e.chain) : e.chain[i] <= k
  <2>1. e.turn.epoch \in Nat /\ e.chain \in Seq(Epoch)
    BY <1>1 DEF Entry, Turn
  <2>2. \A i \in 1..Len(e.chain) : e.chain[i] \in Epoch
    BY <2>1
  <2>3. \A i \in 1..Len(e.chain) : e.chain[i] \in Nat
    BY <2>2 DEF Epoch
  <2> QED
    BY <1>1, <2>1, <2>3 DEF Sound
<1> HIDE DEF q, r, rs, f
<1>9. f \in Entry
  <2> HIDE DEF k
  <2> QED
    BY <1>1, <1>2, <1>3, <1>5, <1>6 DEF Entry
<1>10. /\ f.registered = e.registered /\ f.destroying = e.destroying
       /\ f.enabled = e.enabled /\ f.uncertain = e.uncertain
       /\ f.interval = e.interval /\ f.timers = e.timers
       /\ f.chain = e.chain /\ f.epoch = k /\ f.records = rs /\ f.turn = e.turn
  <2> HIDE DEF k
  <2> QED
    BY <1>1, <1>6 DEF Entry
<1>11. e.turn.epoch <= k
  BY <1>1 DEF Sound, Entry, Turn
<1>12. Sound(f)
  BY <1>8, <1>9, <1>10, <1>11 DEF Sound
<1>13. Like(e, f)
  BY <1>7, <1>8, <1>10 DEF Like
<1> QED
  BY <1>10, <1>12, <1>13 DEF f

LEMMA EnqueueLemma ==
  ASSUME NEW e, Sound(e), NEW k \in Epoch, k <= e.epoch
  PROVE  LET f == Enqueue(e, k)
         IN Sound(f) /\ Like(e, f) /\ f.epoch = e.epoch /\ f.turn = e.turn
<1> DEFINE f == Enqueue(e, k)
           c == Append(e.chain, k)
<1>1. e \in Entry /\ e.chain \in Seq(Epoch)
  BY DEF Sound, Entry
<1>2. c \in Seq(Epoch)
  BY <1>1
<1>3. \A i \in 1..Len(c) : c[i] <= e.epoch
  BY <1>1 DEF Sound
<1>4. f = [e EXCEPT !.chain = c]
  BY DEF Enqueue
<1> HIDE DEF c
<1>5. f \in Entry
  BY <1>1, <1>2, <1>4 DEF Entry
<1>6. /\ f.registered = e.registered /\ f.destroying = e.destroying
      /\ f.enabled = e.enabled /\ f.uncertain = e.uncertain
      /\ f.interval = e.interval /\ f.timers = e.timers
      /\ f.chain = c /\ f.epoch = e.epoch /\ f.records = e.records /\ f.turn = e.turn
  BY <1>1, <1>4 DEF Entry
<1> HIDE DEF f
<1>7. Sound(f)
  BY <1>3, <1>5, <1>6 DEF Sound
<1>8. Like(e, f)
  BY <1>6 DEF Like
<1> QED
  BY <1>6, <1>7, <1>8 DEF f

LEMMA RequestLemma ==
  ASSUME NEW e, Sound(e), NEW want \in BOOLEAN, e.epoch + 1 <= MaxEpoch
  PROVE  LET f == Request(e, want)
         IN Sound(f) /\ Like(e, f) /\ f.epoch = e.epoch + 1
<1> DEFINE r == Reserve(e, want)
           a == AbortTurn(r)
<1>1. Sound(r) /\ Like(e, r) /\ r.epoch = e.epoch + 1
  BY ReserveLemma
<1>2. Sound(a) /\ Like(r, a) /\ a.epoch = e.epoch + 1
  BY <1>1, AbortLemma
<1>3. e.epoch + 1 \in Epoch
  BY LayerAssumption DEF Sound, Entry, Epoch, LayerAssumption
<1>4. e.epoch + 1 <= a.epoch
  BY <1>2, <1>3 DEF Epoch
<1> DEFINE f == Enqueue(a, e.epoch + 1)
<1>5. Sound(f) /\ Like(a, f) /\ f.epoch = a.epoch
  BY <1>2, <1>3, <1>4, EnqueueLemma
<1>6. f = Request(e, want)
  BY DEF Request
<1> HIDE DEF r, a, f
<1>7. Like(e, f)
  BY <1>1, <1>2, <1>5, LikeLemma
<1> QED
  BY <1>2, <1>5, <1>6, <1>7

LEMMA OvertakenLemma ==
  ASSUME NEW e, Sound(e), NEW want \in BOOLEAN, NEW newer \in BOOLEAN, Accepts(e, 2)
  PROVE  Sound(Overtaken(e, want, newer)) /\ Like(e, Overtaken(e, want, newer))
<1> DEFINE r == Reserve(e, want)
           q == Request(r, newer)
           f == Enqueue(q, e.epoch + 1)
<1>1. /\ e.epoch \in Nat /\ MaxEpoch \in Nat
      /\ e.epoch + 1 <= MaxEpoch /\ e.epoch + 1 + 1 <= MaxEpoch
  BY LayerAssumption DEF Sound, Entry, LayerAssumption, Accepts
<1>2. Sound(r) /\ Like(e, r) /\ r.epoch = e.epoch + 1
  BY <1>1, ReserveLemma
<1> HIDE DEF r
<1>3. Sound(q) /\ Like(r, q) /\ q.epoch = e.epoch + 1 + 1
  BY <1>1, <1>2, RequestLemma
<1> HIDE DEF q
<1>4. e.epoch + 1 \in Epoch /\ e.epoch + 1 <= q.epoch
  BY <1>1, <1>3 DEF Epoch
<1>5. Sound(f) /\ Like(q, f)
  BY <1>3, <1>4, EnqueueLemma
<1>6. f = Overtaken(e, want, newer)
  BY DEF Overtaken, q, r
<1> HIDE DEF f
<1>7. Like(e, f)
  BY <1>2, <1>3, <1>5, LikeLemma
<1> QED
  BY <1>5, <1>6, <1>7

LEMMA ReentryLemma ==
  ASSUME NEW e, Sound(e), NEW r \in Reentries(e)
  PROVE  Sound(r) /\ Like(e, r)
<1>1. CASE r = e
  BY <1>1 DEF Like
<1>2. CASE r # e
  <2>1. PICK want \in BOOLEAN : Accepts(e, 1) /\ r = Request(e, want)
    BY <1>2 DEF Reentries
  <2>2. e.epoch + 1 <= MaxEpoch
    BY <2>1 DEF Accepts
  <2> QED
    BY <2>1, <2>2, RequestLemma
<1> QED
  BY <1>1, <1>2

(* A step that presents another transition, or another adoption.               *)
LEMMA PresentedLemma ==
  ASSUME NEW e, Sound(e), NEW adopt \in 0..MaxEpoch,
         NEW lifecycle \in {"enabled", "enabling", "disabled", "disabling"}
  PROVE  LET f == [e EXCEPT !.adopt = adopt]
             g == [e EXCEPT !.lifecycle = lifecycle]
         IN /\ Sound(f) /\ Like(e, f) /\ f.epoch = e.epoch /\ f.turn = e.turn /\ f.chain = e.chain
            /\ Sound(g) /\ Like(e, g) /\ g.epoch = e.epoch /\ g.turn = e.turn /\ g.chain = e.chain
<1> DEFINE f == [e EXCEPT !.adopt = adopt]
           g == [e EXCEPT !.lifecycle = lifecycle]
<1>1. e \in Entry
  BY DEF Sound
<1>2. f \in Entry /\ g \in Entry
  BY <1>1 DEF Entry
<1>3. /\ f.registered = e.registered /\ f.destroying = e.destroying
      /\ f.enabled = e.enabled /\ f.uncertain = e.uncertain
      /\ f.interval = e.interval /\ f.timers = e.timers
      /\ f.chain = e.chain /\ f.epoch = e.epoch /\ f.records = e.records /\ f.turn = e.turn
  BY <1>1 DEF Entry
<1>4. /\ g.registered = e.registered /\ g.destroying = e.destroying
      /\ g.enabled = e.enabled /\ g.uncertain = e.uncertain
      /\ g.interval = e.interval /\ g.timers = e.timers
      /\ g.chain = e.chain /\ g.epoch = e.epoch /\ g.records = e.records /\ g.turn = e.turn
  BY <1>1 DEF Entry
<1> HIDE DEF f, g
<1>5. Sound(f) /\ Sound(g)
  BY <1>2, <1>3, <1>4 DEF Sound
<1>6. Like(e, f) /\ Like(e, g)
  BY <1>3, <1>4 DEF Like
<1> QED
  BY <1>3, <1>4, <1>5, <1>6 DEF f, g

LEMMA SettledLemma ==
  ASSUME NEW e, Sound(e)
  PROVE  /\ Sound(Settled(e)) /\ Like(e, Settled(e)) /\ Settled(e).turn = e.turn
         /\ Settled(e).epoch = e.epoch /\ Settled(e).chain = e.chain
<1>1. PICK lifecycle \in {"enabled", "enabling", "disabled", "disabling"} :
        Settled(e) = [e EXCEPT !.lifecycle = lifecycle]
  BY DEF Settled
<1>2. 0 \in 0..MaxEpoch
  BY LayerAssumption DEF LayerAssumption
<1> DEFINE g == [e EXCEPT !.lifecycle = lifecycle]
<1>3. /\ Sound(g) /\ Like(e, g) /\ g.epoch = e.epoch /\ g.turn = e.turn
      /\ g.chain = e.chain
  BY <1>2, PresentedLemma
<1> QED
  BY <1>1, <1>3

LEMMA MovingLemma ==
  ASSUME NEW e, Sound(e)
  PROVE  /\ Sound(Moving(e)) /\ Like(e, Moving(e)) /\ Moving(e).turn = e.turn
         /\ Moving(e).epoch = e.epoch /\ Moving(e).chain = e.chain
<1>1. PICK lifecycle \in {"enabled", "enabling", "disabled", "disabling"} :
        Moving(e) = [e EXCEPT !.lifecycle = lifecycle]
  BY DEF Moving
<1>2. 0 \in 0..MaxEpoch
  BY LayerAssumption DEF LayerAssumption
<1> DEFINE g == [e EXCEPT !.lifecycle = lifecycle]
<1>3. /\ Sound(g) /\ Like(e, g) /\ g.epoch = e.epoch /\ g.turn = e.turn
      /\ g.chain = e.chain
  BY <1>2, PresentedLemma
<1> QED
  BY <1>1, <1>3

LEMMA DeferredLemma ==
  ASSUME NEW e, Sound(e)
  PROVE  Sound(Deferred(e)) /\ Like(e, Deferred(e)) /\ Deferred(e).epoch = e.epoch
<1> DEFINE m == Moving(e)
<1>1. Sound(m) /\ Like(e, m) /\ m.epoch = e.epoch
  BY MovingLemma
<1> HIDE DEF m
<1>2. e.epoch \in 0..MaxEpoch /\ "enabled" \in {"enabled", "enabling", "disabled", "disabling"}
  BY DEF Sound, Entry
<1>3. /\ Sound([m EXCEPT !.adopt = e.epoch]) /\ Like(m, [m EXCEPT !.adopt = e.epoch])
      /\ [m EXCEPT !.adopt = e.epoch].epoch = m.epoch
  BY <1>1, <1>2, PresentedLemma
<1>4. Deferred(e) = [m EXCEPT !.adopt = e.epoch]
  BY DEF Deferred, m
<1>5. Like(e, Deferred(e))
  BY <1>1, <1>3, <1>4, LikeLemma
<1> QED
  BY <1>1, <1>3, <1>4, <1>5

LEMMA SettlementLemma ==
  ASSUME NEW e, Sound(e), NEW s \in Settlements(e)
  PROVE  Sound(s) /\ Like(e, s)
<1>1. CASE Superseded(e)
  BY <1>1, DeferredLemma DEF Settlements
<1>2. CASE ~Superseded(e)
  <2> DEFINE z == [e EXCEPT !.adopt = 0]
             t == Settled(z)
  <2>1. 0 \in 0..MaxEpoch /\ "enabled" \in {"enabled", "enabling", "disabled", "disabling"}
    BY LayerAssumption DEF LayerAssumption
  <2>2. Sound(z) /\ Like(e, z)
    BY <2>1, PresentedLemma
  <2> HIDE DEF z
  <2>3. Sound(t) /\ Like(z, t)
    BY <2>2, SettledLemma
  <2>4. PICK r \in Reentries(t) : s = IF Superseded(r) THEN Deferred(r) ELSE r
    BY <1>2 DEF Settlements, z
  <2> HIDE DEF t
  <2>5. Sound(r) /\ Like(t, r)
    BY <2>3, ReentryLemma
  <2>6. Sound(s) /\ (s = r \/ Like(r, s))
    BY <2>4, <2>5, DeferredLemma
  <2>7. Like(e, r)
    BY <2>2, <2>3, <2>5, LikeLemma
  <2> QED
    BY <2>6, <2>7, LikeLemma
<1> QED
  BY <1>1, <1>2

(* The end of a turn: its request is answered and the entry rests.             *)
Ended(e, f, answer) ==
  /\ f.registered = e.registered /\ f.destroying = e.destroying
  /\ f.enabled = e.enabled /\ f.uncertain = e.uncertain
  /\ f.interval = e.interval /\ f.epoch = e.epoch /\ f.chain = e.chain
  /\ f.turn = NoTurn
  /\ \A k \in Epoch :
       f.records[k].answer = "granted" =>
         \/ e.records[k].answer = "granted"
         \/ k = e.turn.epoch /\ answer = "granted" /\ ~e.turn.compensation

LEMMA FinishedLemma ==
  ASSUME NEW e, Sound(e), e.turn.epoch \in Epoch, NEW answer \in {"granted", "refused"}
  PROVE  Sound(Finished(e, answer)) /\ Ended(e, Finished(e, answer), answer)
<1> DEFINE q == ReleaseQueued(e)
           a == IF e.turn.compensation THEN "refused" ELSE answer
           rs == [e.records EXCEPT ![e.turn.epoch].answer = a]
           f == Finished(e, answer)
<1>1. e \in Entry /\ 0 \in 0..MaxEpoch /\ MaxEpoch \in Nat
  BY LayerAssumption DEF Sound, LayerAssumption
<1>2. PICK queued \in Queued : q = [e EXCEPT !.queued = queued]
  <2>1. CASE e.queued.epoch = e.turn.epoch
    <3>1. NoQueued \in Queued
      BY <1>1 DEF NoQueued, Queued
    <3> QED
      BY <2>1, <3>1 DEF ReleaseQueued
  <2>2. CASE e.queued.epoch # e.turn.epoch
    <3>1. e.queued \in Queued /\ e = [e EXCEPT !.queued = e.queued]
      BY <1>1 DEF Entry
    <3> QED
      BY <2>2, <3>1 DEF ReleaseQueued
  <2> QED
    BY <2>1, <2>2
<1>3. q.records = e.records /\ q.turn = e.turn
  BY <1>1, <1>2 DEF Entry
<1>4. rs \in [Epoch -> Record]
  BY <1>1 DEF Entry, Record
<1>5. f = [q EXCEPT !.records = rs, !.turn = NoTurn]
  BY <1>3 DEF Finished
<1>6. \A k \in Epoch : rs[k].answer = "granted" =>
         \/ e.records[k].answer = "granted"
         \/ k = e.turn.epoch /\ answer = "granted" /\ ~e.turn.compensation
  BY <1>1 DEF Entry, Record
<1>7. NoTurn \in Turn /\ NoTurn.epoch = 0
  BY <1>1 DEF NoTurn, Turn, Phase
<1> HIDE DEF rs, a, q, f
<1>8. f \in Entry
  BY <1>1, <1>2, <1>4, <1>5, <1>7 DEF Entry
<1>9. /\ f.registered = e.registered /\ f.destroying = e.destroying
      /\ f.enabled = e.enabled /\ f.uncertain = e.uncertain
      /\ f.interval = e.interval /\ f.timers = e.timers
      /\ f.chain = e.chain /\ f.epoch = e.epoch /\ f.records = rs /\ f.turn = NoTurn
  BY <1>1, <1>2, <1>5 DEF Entry
<1>10. Sound(f)
  <2>1. 0 <= e.epoch
    BY <1>1 DEF Entry
  <2> QED
    BY <1>7, <1>8, <1>9, <2>1 DEF Sound
<1>11. Ended(e, f, answer)
  BY <1>6, <1>9 DEF Ended
<1> QED
  BY <1>10, <1>11 DEF f

LEMMA EndLemma ==
  ASSUME NEW s, Sound(s), s.turn.epoch \in Epoch, NEW answer \in {"granted", "refused"},
         NEW m, NEW t, t \notin {"disable", "destroy", "gone"},
         s.registered, s.destroying <=> t \notin {"idle", "rejected"},
         ~s.enabled => m = "off",
         s.enabled /\ ~s.uncertain /\ t = "idle" => m # "off"
  PROVE  LET f == Finished(s, answer)
         IN Sound(f) /\ OfTurn(f) /\ Agrees(f, m, t) /\ Ended(s, f, answer)
<1> DEFINE f == Finished(s, answer)
<1>1. Sound(f) /\ Ended(s, f, answer)
  BY FinishedLemma
<1>2. NoTurn.phase = "idle"
  BY DEF NoTurn
<1> HIDE DEF f
<1>3. OfTurn(f)
  BY <1>1, <1>2 DEF OfTurn, Ended, Enabling
<1>4. Agrees(f, m, t)
  BY <1>1, <1>2 DEF Agrees, Ended
<1> QED
  BY <1>1, <1>3, <1>4 DEF f

LEMMA AwaitLemma ==
  ASSUME NEW e, Sound(e), NEW phase \in Phase
  PROVE  LET f == Await(e, phase)
         IN /\ Sound(f)
            /\ f.registered = e.registered /\ f.destroying = e.destroying
            /\ f.enabled = e.enabled /\ f.uncertain = e.uncertain
            /\ f.interval = e.interval /\ f.epoch = e.epoch
            /\ f.chain = e.chain /\ f.records = e.records
            /\ f.turn.phase = phase /\ f.turn.epoch = e.turn.epoch
            /\ f.turn.target = e.turn.target /\ f.turn.compensation = e.turn.compensation
<1> DEFINE f == Await(e, phase)
<1>1. e \in Entry
  BY DEF Sound
<1>2. f \in Entry
  BY <1>1 DEF Await, Entry, Turn
<1>3. /\ f.registered = e.registered /\ f.destroying = e.destroying
      /\ f.enabled = e.enabled /\ f.uncertain = e.uncertain
      /\ f.interval = e.interval /\ f.timers = e.timers
      /\ f.chain = e.chain /\ f.epoch = e.epoch /\ f.records = e.records
  BY <1>1 DEF Await, Entry
<1>4. /\ f.turn.phase = phase /\ f.turn.epoch = e.turn.epoch
      /\ f.turn.target = e.turn.target /\ f.turn.compensation = e.turn.compensation
  BY <1>1 DEF Await, Entry, Turn
<1> HIDE DEF f
<1>5. Sound(f)
  BY <1>2, <1>3, <1>4 DEF Sound
<1> QED
  BY <1>3, <1>4, <1>5 DEF f

LEMMA KnownLemma ==
  ASSUME NEW e, Sound(e), NEW b \in BOOLEAN, b \/ ~e.interval
  PROVE  LET f == Known(e, b)
         IN /\ Sound(f) /\ f.enabled = b /\ ~f.uncertain
            /\ f.registered = e.registered /\ f.destroying = e.destroying
            /\ f.interval = e.interval /\ f.epoch = e.epoch
            /\ f.chain = e.chain /\ f.records = e.records /\ f.turn = e.turn
<1> DEFINE f == Known(e, b)
<1>1. e \in Entry
  BY DEF Sound
<1>2. f \in Entry
  BY <1>1 DEF Known, Entry
<1>3. /\ f.enabled = b /\ ~f.uncertain
      /\ f.registered = e.registered /\ f.destroying = e.destroying
      /\ f.interval = e.interval /\ f.timers = e.timers
      /\ f.chain = e.chain /\ f.epoch = e.epoch /\ f.records = e.records /\ f.turn = e.turn
  BY <1>1 DEF Known, Entry
<1> HIDE DEF f
<1>4. Sound(f)
  BY <1>2, <1>3 DEF Sound
<1> QED
  BY <1>3, <1>4 DEF f

LEMMA UnknownLemma ==
  ASSUME NEW e, Sound(e)
  PROVE  LET f == Unknown(e)
         IN /\ Sound(f) /\ f.enabled /\ f.uncertain
            /\ f.registered = e.registered /\ f.destroying = e.destroying
            /\ f.interval = e.interval /\ f.epoch = e.epoch
            /\ f.chain = e.chain /\ f.records = e.records /\ f.turn = e.turn
<1> DEFINE f == Unknown(e)
<1>1. e \in Entry
  BY DEF Sound
<1>2. f \in Entry
  BY <1>1 DEF Unknown, Entry
<1>3. /\ f.enabled /\ f.uncertain
      /\ f.registered = e.registered /\ f.destroying = e.destroying
      /\ f.interval = e.interval /\ f.timers = e.timers
      /\ f.chain = e.chain /\ f.epoch = e.epoch /\ f.records = e.records /\ f.turn = e.turn
  BY <1>1 DEF Unknown, Entry
<1> HIDE DEF f
<1>4. Sound(f)
  BY <1>2, <1>3 DEF Sound
<1> QED
  BY <1>3, <1>4 DEF f

LEMMA CleanUpLemma ==
  ASSUME NEW e, Sound(e), NEW f \in {CleanUp(e), Fail(e)}
  PROVE  /\ Sound(f) /\ ~f.interval
         /\ f.registered = e.registered /\ f.destroying = e.destroying
         /\ f.enabled = e.enabled /\ f.uncertain = e.uncertain
         /\ f.epoch = e.epoch /\ f.chain = e.chain /\ f.records = e.records
         /\ f.turn.phase \in {"cleanup", "failed"} /\ f.turn.epoch = e.turn.epoch
         /\ f.turn.target = e.turn.target /\ f.turn.compensation = e.turn.compensation
<1> DEFINE c == ClearTimer(e)
<1>1. /\ Sound(c) /\ ~c.interval
      /\ c.registered = e.registered /\ c.destroying = e.destroying
      /\ c.enabled = e.enabled /\ c.uncertain = e.uncertain
      /\ c.epoch = e.epoch /\ c.chain = e.chain /\ c.records = e.records /\ c.turn = e.turn
  BY ClearLemma DEF Like
<1>2. PICK phase \in {"cleanup", "failed"} : f = Await(c, phase)
  BY DEF CleanUp, Fail
<1> HIDE DEF c
<1>3. phase \in Phase
  BY DEF Phase
<1>4. /\ Sound(f)
      /\ f.registered = c.registered /\ f.destroying = c.destroying
      /\ f.enabled = c.enabled /\ f.uncertain = c.uncertain
      /\ f.interval = c.interval /\ f.epoch = c.epoch
      /\ f.chain = c.chain /\ f.records = c.records
      /\ f.turn.phase = phase /\ f.turn.epoch = c.turn.epoch
      /\ f.turn.target = c.turn.target /\ f.turn.compensation = c.turn.compensation
  BY <1>1, <1>2, <1>3, AwaitLemma
<1> QED
  BY <1>1, <1>4

(* A turn whose call is rejected cleans up.                                    *)
LEMMA RejectedLemma ==
  ASSUME NEW e, NEW f \in Rejected(e)
  PROVE  f \in {CleanUp(e), Fail(e)}
BY DEF Rejected

LEMMA LoopingLemma ==
  ASSUME NEW e, Sound(e), e.enabled
  PROVE  LET f == Looping(e)
         IN /\ Sound(f)
            /\ f.registered = e.registered /\ f.destroying = e.destroying
            /\ f.enabled = e.enabled /\ f.uncertain = e.uncertain
            /\ f.epoch = e.epoch /\ f.chain = e.chain /\ f.records = e.records
            /\ f.turn = e.turn
<1> DEFINE c == ClearTimer(e)
           f == ArmUpdateLoop(c)
<1>1. e \in Entry /\ e.timers = IF e.interval THEN 1 ELSE 0
  BY DEF Sound
<1>2. /\ c \in Entry /\ c.timers = 0
      /\ c.registered = e.registered /\ c.destroying = e.destroying
      /\ c.enabled = e.enabled /\ c.uncertain = e.uncertain
      /\ c.chain = e.chain /\ c.turn = e.turn /\ c.epoch = e.epoch
      /\ c.records = e.records
  BY <1>1, TimerLemma
<1> HIDE DEF c
<1>3. f = [c EXCEPT !.interval = TRUE, !.timers = 1]
  BY <1>2 DEF ArmUpdateLoop
<1> HIDE DEF f
<1>4. f \in Entry
  BY <1>2, <1>3 DEF Entry
<1>5. /\ f.interval = TRUE /\ f.timers = 1
      /\ f.registered = c.registered /\ f.destroying = c.destroying
      /\ f.enabled = c.enabled /\ f.uncertain = c.uncertain
      /\ f.chain = c.chain /\ f.turn = c.turn /\ f.epoch = c.epoch
      /\ f.records = c.records
  BY <1>2, <1>3 DEF Entry
<1>6. f = Looping(e)
  BY DEF Looping, c, f
<1>7. Sound(f)
  BY <1>2, <1>4, <1>5 DEF Sound
<1> QED
  BY <1>2, <1>5, <1>6, <1>7

LEMMA TakenLemma ==
  ASSUME NEW e, Sound(e), OfTurn(e), Turns(e)
  PROVE  LET t == Taken(e)
         IN /\ Sound(t)
            /\ t.registered = e.registered /\ t.destroying = e.destroying
            /\ t.enabled = e.enabled /\ t.uncertain = e.uncertain
            /\ t.interval = e.interval /\ t.epoch = e.epoch /\ t.records = e.records
            /\ t.turn.phase = "idle" /\ ~t.turn.compensation
            /\ t.turn.epoch \in Epoch /\ t.turn.target = e.records[t.turn.epoch].want
<1> DEFINE k == Head(e.chain)
           w == e.records[k].want
           c == Tail(e.chain)
           n == [e.turn EXCEPT !.epoch = k, !.target = w]
           t == Taken(e)
<1>1. /\ e \in Entry /\ e.turn = NoTurn /\ e.chain \in Seq(Epoch) /\ e.chain # <<>>
      /\ e.turn \in Turn
  BY DEF Sound, OfTurn, Turns, Entry
<1>2. /\ k \in Epoch /\ c \in Seq(Epoch) /\ k = e.chain[1] /\ 1 \in 1..Len(e.chain)
      /\ Len(c) = Len(e.chain) - 1 /\ \A i \in 1..Len(c) : c[i] = e.chain[i + 1]
  BY <1>1
<1>3. k <= e.epoch /\ \A i \in 1..Len(c) : c[i] <= e.epoch
  <2>1. k <= e.epoch
    BY <1>2 DEF Sound
  <2>2. ASSUME NEW i \in 1..Len(c) PROVE c[i] <= e.epoch
    <3>1. i + 1 \in 1..Len(e.chain)
      BY <1>1, <1>2
    <3>2. e.chain[i + 1] <= e.epoch
      BY <3>1 DEF Sound
    <3> QED
      BY <1>2, <3>2
  <2> QED
    BY <2>1, <2>2
<1>4. w \in BOOLEAN
  BY <1>1, <1>2 DEF Entry, Record
<1>5. k \in 0..MaxEpoch
  BY <1>2, LayerAssumption DEF Epoch, LayerAssumption
<1> HIDE DEF k, w, c
<1>6. n \in Turn
  BY <1>1, <1>4, <1>5 DEF Turn
<1>7. /\ n.phase = "idle" /\ ~n.compensation /\ n.epoch = k /\ n.target = w
  BY <1>1 DEF NoTurn, Turn
<1>8. t = [e EXCEPT !.chain = c, !.turn = n]
  BY <1>1 DEF Taken, k, w, c, Entry, Turn
<1> HIDE DEF n, t
<1>9. t \in Entry
  BY <1>1, <1>2, <1>6, <1>8 DEF Entry
<1>10. /\ t.registered = e.registered /\ t.destroying = e.destroying
       /\ t.enabled = e.enabled /\ t.uncertain = e.uncertain
       /\ t.interval = e.interval /\ t.timers = e.timers
       /\ t.epoch = e.epoch /\ t.records = e.records /\ t.chain = c /\ t.turn = n
  BY <1>1, <1>8 DEF Entry
<1>11. Sound(t)
  BY <1>3, <1>7, <1>9, <1>10 DEF Sound
<1> QED
  BY <1>2, <1>7, <1>10, <1>11 DEF t, w

--------------------------------------------------------------------------------
(* Steps that leave what the layer is alone.                                   *)

LEMMA LikeInv ==
  ASSUME NEW e, NEW f, NEW m, NEW t, Good(e, m, t), Sound(f), Like(e, f),
         f.chain = e.chain \/ t \notin {"disable", "destroy", "gone"}
  PROVE  Good(f, m, t) /\ Grants(e, f)
<1>1. OfTurn(f)
  BY DEF Good, OfTurn, Like
<1>2. Agrees(f, m, t)
  BY DEF Good, Agrees, Like
<1>3. Grants(e, f)
  BY DEF Like, Grants
<1> QED
  BY <1>1, <1>2, <1>3 DEF Good

(* Fields that none of the facts is about.                                     *)
LEMMA MinorLemma ==
  ASSUME NEW e, Sound(e), NEW f \in Entry,
         f.registered = e.registered, f.destroying = e.destroying,
         f.enabled = e.enabled, f.uncertain = e.uncertain,
         f.interval = e.interval, f.timers = e.timers, f.chain = e.chain,
         f.epoch = e.epoch, f.records = e.records, f.turn = e.turn
  PROVE  Sound(f) /\ Like(e, f)
BY DEF Sound, Like

LEMMA RequestStep ==
  ASSUME LayerInv, NEW want \in BOOLEAN, Accepts(entry, 1), entry' = Request(entry, want),
         module' = module, teardown' = teardown
  PROVE  Good(entry, module, teardown)' /\ Grants(entry, entry')
<1>1. Good(entry, module, teardown) /\ Sound(entry) /\ entry.epoch + 1 <= MaxEpoch
  BY DEF LayerInv, Good, Accepts
<1>2. Sound(entry') /\ Like(entry, entry')
  BY <1>1, RequestLemma
<1>3. teardown \notin {"disable", "destroy", "gone"}
  BY <1>1 DEF Good, Agrees, Accepts
<1>4. Good(entry', module, teardown) /\ Grants(entry, entry')
  BY <1>1, <1>2, <1>3, LikeInv
<1> QED
  BY <1>4

LEMMA OvertakenStep ==
  ASSUME LayerInv, NEW want \in BOOLEAN, NEW newer \in BOOLEAN,
         SetEnabledOvertaken(want, newer)
  PROVE  Good(entry, module, teardown)' /\ Grants(entry, entry')
<1>1. /\ Good(entry, module, teardown) /\ Sound(entry) /\ Accepts(entry, 2)
      /\ entry' = Overtaken(entry, want, newer) /\ module' = module /\ teardown' = teardown
  BY DEF LayerInv, Good, SetEnabledOvertaken, Alone
<1>2. Sound(entry') /\ Like(entry, entry')
  BY <1>1, OvertakenLemma
<1>3. teardown \notin {"disable", "destroy", "gone"}
  BY <1>1 DEF Good, Agrees, Accepts
<1>4. Good(entry', module, teardown) /\ Grants(entry, entry')
  BY <1>1, <1>2, <1>3, LikeInv
<1> QED
  BY <1>1, <1>4

LEMMA WithdrawStep ==
  ASSUME LayerInv, NEW k \in Epoch, Withdraw(k)
  PROVE  Good(entry, module, teardown)' /\ Grants(entry, entry')
<1>1. /\ Good(entry, module, teardown) /\ Sound(entry)
      /\ entry' = entry \/ entry' = AbortTurn(entry)
      /\ module' = module /\ teardown' = teardown
  BY DEF LayerInv, Good, Withdraw
<1>2. Sound(entry') /\ Like(entry, entry') /\ entry'.chain = entry.chain
  <2>1. CASE entry' = entry
    BY <1>1, <2>1 DEF Like
  <2>2. CASE entry' = AbortTurn(entry)
    BY <1>1, <2>2, AbortLemma
  <2> QED
    BY <1>1, <2>1, <2>2
<1>3. Good(entry', module, teardown) /\ Grants(entry, entry')
  BY <1>1, <1>2, LikeInv
<1> QED
  BY <1>1, <1>3

(* Clear All, the updates of the loop, and the promise of cancelEnable.        *)
LEMMA MinorStep ==
  ASSUME LayerInv, ClearReserve \/ ClearRelease \/ Refresh \/ Refreshed \/ AbortCleanupSettles
  PROVE  Good(entry, module, teardown)' /\ Grants(entry, entry')
<1>1. /\ Good(entry, module, teardown) /\ Sound(entry) /\ entry \in Entry
      /\ module' = module /\ teardown' = teardown
  BY DEF LayerInv, Good, Sound, ClearReserve, ClearRelease, Refresh, Refreshed,
         AbortCleanupSettles, Alone
<1>2. SUFFICES Sound(entry') /\ Like(entry, entry') /\ entry'.chain = entry.chain
  <2>1. ASSUME Sound(entry'), Like(entry, entry'), entry'.chain = entry.chain
        PROVE  Good(entry', module, teardown) /\ Grants(entry, entry')
    BY <1>1, <2>1, LikeInv
  <2> QED
    BY <1>1, <2>1
<1> DEFINE f == entry'
<1>3. CASE ClearReserve \/ ClearRelease
  <2>1. PICK r \in 0..MaxEpoch : f = [entry EXCEPT !.reserved = r]
    <3>1. entry.epoch \in 0..MaxEpoch /\ 0 \in 0..MaxEpoch
      BY <1>1, LayerAssumption DEF Entry, LayerAssumption
    <3> QED
      BY <1>3, <3>1 DEF ClearReserve, ClearRelease
  <2> HIDE DEF f
  <2>2. f \in Entry
    BY <1>1, <2>1 DEF Entry
  <2>3. /\ f.registered = entry.registered /\ f.destroying = entry.destroying
        /\ f.enabled = entry.enabled /\ f.uncertain = entry.uncertain
        /\ f.interval = entry.interval /\ f.timers = entry.timers /\ f.chain = entry.chain
        /\ f.epoch = entry.epoch /\ f.records = entry.records /\ f.turn = entry.turn
    BY <1>1, <2>1 DEF Entry
  <2> QED
    BY <1>1, <2>2, <2>3, MinorLemma DEF f
<1>4. CASE Refresh \/ Refreshed
  <2>1. PICK r \in BOOLEAN, u \in BOOLEAN : f = [entry EXCEPT !.refreshing = r, !.updating = u]
    <3>1. CASE Refresh
      BY <3>1 DEF Refresh
    <3>2. CASE Refreshed
      <4>1. f = [entry EXCEPT !.refreshing = entry.refreshing /\ ~entry.enabled,
                              !.updating = FALSE]
        BY <1>1, <3>2 DEF Refreshed, Entry
      <4>2. (entry.refreshing /\ ~entry.enabled) \in BOOLEAN
        OBVIOUS
      <4> QED
        BY <4>1, <4>2
    <3> QED
      BY <1>4, <3>1, <3>2
  <2> HIDE DEF f
  <2>2. f \in Entry
    BY <1>1, <2>1 DEF Entry
  <2>3. /\ f.registered = entry.registered /\ f.destroying = entry.destroying
        /\ f.enabled = entry.enabled /\ f.uncertain = entry.uncertain
        /\ f.interval = entry.interval /\ f.timers = entry.timers /\ f.chain = entry.chain
        /\ f.epoch = entry.epoch /\ f.records = entry.records /\ f.turn = entry.turn
    BY <1>1, <2>1 DEF Entry
  <2> QED
    BY <1>1, <2>2, <2>3, MinorLemma DEF f
<1>5. CASE AbortCleanupSettles
  <2>1. f = [entry EXCEPT !.turn.awaited = FALSE] /\ entry.turn.awaited
    BY <1>5 DEF AbortCleanupSettles
  <2>2. entry.turn.phase # "idle"
    BY <1>1, <2>1 DEF Good, OfTurn, NoTurn
  <2> HIDE DEF f
  <2>3. f \in Entry
    BY <1>1, <2>1 DEF Entry, Turn
  <2>4. /\ f.registered = entry.registered /\ f.destroying = entry.destroying
        /\ f.enabled = entry.enabled /\ f.uncertain = entry.uncertain
        /\ f.interval = entry.interval /\ f.timers = entry.timers /\ f.chain = entry.chain
        /\ f.epoch = entry.epoch /\ f.records = entry.records
    BY <1>1, <2>1 DEF Entry
  <2>5. /\ f.turn.phase = entry.turn.phase /\ f.turn.epoch = entry.turn.epoch
        /\ f.turn.target = entry.turn.target
        /\ f.turn.compensation = entry.turn.compensation
    BY <1>1, <2>1 DEF Entry, Turn
  <2>6. Sound(f)
    BY <1>1, <2>3, <2>4, <2>5 DEF Sound
  <2>7. Like(entry, f)
    BY <2>2, <2>4, <2>5 DEF Like
  <2> QED
    BY <2>4, <2>6, <2>7 DEF f
<1> QED
  BY <1>3, <1>4, <1>5

--------------------------------------------------------------------------------
(* Destruction.                                                                *)

(* An entry that is condemned, before its turn is aborted.                     *)
LEMMA CondemnedLemma ==
  ASSUME NEW e, Sound(e), e.epoch + 1 <= MaxEpoch
  PROVE  LET k == e.epoch + 1
             d == [InvalidateRefresh(e) EXCEPT
                     !.destroying = TRUE, !.epoch = k, !.want = FALSE,
                     !.queued = [epoch |-> k, want |-> FALSE], !.reserved = 0]
         IN /\ Sound(d) /\ d.destroying /\ d.epoch = k
            /\ d.registered = e.registered /\ d.enabled = e.enabled
            /\ d.uncertain = e.uncertain /\ d.chain = e.chain /\ d.interval = e.interval
            /\ d.records = e.records /\ d.turn = e.turn
<1> DEFINE k == e.epoch + 1
           q == [epoch |-> k, want |-> FALSE]
           d == [InvalidateRefresh(e) EXCEPT
                   !.destroying = TRUE, !.epoch = k, !.want = FALSE,
                   !.queued = q, !.reserved = 0]
<1>1. e \in Entry /\ k <= MaxEpoch
  BY DEF Sound
<1>2. k \in 0..MaxEpoch /\ 0 \in 0..MaxEpoch /\ e.epoch \in Nat
  BY <1>1, LayerAssumption DEF Entry, LayerAssumption
<1>3. q \in Queued
  BY <1>2 DEF Queued
<1>4. d = [e EXCEPT !.refreshing = FALSE, !.updating = FALSE,
                    !.destroying = TRUE, !.epoch = k, !.want = FALSE,
                    !.queued = q, !.reserved = 0]
  BY <1>1 DEF InvalidateRefresh
<1> HIDE DEF q, d
<1>5. d \in Entry
  <2> HIDE DEF k
  <2> QED
    BY <1>1, <1>2, <1>3, <1>4 DEF Entry
<1>6. /\ d.registered = e.registered /\ d.destroying = TRUE
      /\ d.enabled = e.enabled /\ d.uncertain = e.uncertain
      /\ d.interval = e.interval /\ d.timers = e.timers /\ d.chain = e.chain
      /\ d.epoch = k /\ d.records = e.records /\ d.turn = e.turn
  <2> HIDE DEF k
  <2> QED
    BY <1>1, <1>4 DEF Entry
<1>7. Sound(d)
  <2>1. e.turn.epoch \in Nat /\ e.chain \in Seq(Epoch)
    BY <1>1 DEF Entry, Turn
  <2>2. \A i \in 1..Len(e.chain) : e.chain[i] \in Epoch
    BY <2>1
  <2>3. \A i \in 1..Len(e.chain) : e.chain[i] \in Nat
    BY <2>2 DEF Epoch
  <2>4. e.turn.epoch <= k /\ \A i \in 1..Len(e.chain) : e.chain[i] <= k
    BY <1>1, <1>2, <2>1, <2>3 DEF Sound
  <2> QED
    BY <1>1, <1>5, <1>6, <2>4 DEF Sound
<1> QED
  BY <1>6, <1>7 DEF d, q

LEMMA DestroyStep ==
  ASSUME LayerInv, DestroyLayer
  PROVE  Good(entry, module, teardown)' /\ Grants(entry, entry')
<1> DEFINE k == entry.epoch + 1
           d == [InvalidateRefresh(entry) EXCEPT
                   !.destroying = TRUE, !.epoch = k, !.want = FALSE,
                   !.queued = [epoch |-> k, want |-> FALSE], !.reserved = 0]
           f == AbortTurn(d)
<1>1. /\ Sound(entry) /\ OfTurn(entry) /\ Agrees(entry, module, teardown)
      /\ entry' = f /\ module' = module /\ teardown' = "drain"
      /\ entry.registered /\ ~entry.destroying /\ k <= MaxEpoch
  BY DEF LayerInv, Good, DestroyLayer, Accepts, Condemned
<1>2. /\ Sound(d) /\ d.destroying
      /\ d.registered = entry.registered /\ d.enabled = entry.enabled
      /\ d.uncertain = entry.uncertain /\ d.chain = entry.chain
      /\ d.interval = entry.interval
      /\ d.records = entry.records /\ d.turn = entry.turn
  BY <1>1, CondemnedLemma
<1> HIDE DEF k, d, f
<1>3. Sound(f) /\ Like(d, f) /\ f.chain = d.chain /\ f.records = d.records
  BY <1>2, AbortLemma DEF f
<1>4. OfTurn(f)
  BY <1>1, <1>2, <1>3 DEF OfTurn, Like
<1>5. Agrees(f, module, "drain")
  BY <1>1, <1>2, <1>3 DEF Agrees, Like
<1>6. Grants(entry, f)
  BY <1>2, <1>3 DEF Grants
<1> QED
  BY <1>1, <1>3, <1>4, <1>5, <1>6 DEF Good

LEMMA DrainedStep ==
  ASSUME LayerInv, Drained
  PROVE  Good(entry, module, teardown)' /\ Grants(entry, entry')
<1> DEFINE f == entry'
<1>1. /\ Sound(entry) /\ OfTurn(entry) /\ Agrees(entry, module, teardown) /\ entry \in Entry
      /\ f = [entry EXCEPT !.queued = NoQueued] /\ module' = module
      /\ teardown = "drain" /\ entry.turn.phase = "idle" /\ entry.chain = <<>>
      /\ teardown' = IF entry.enabled THEN "disable" ELSE "destroy"
  BY DEF LayerInv, Good, Sound, Drained
<1>2. NoQueued \in Queued
  BY LayerAssumption DEF NoQueued, Queued, LayerAssumption
<1> HIDE DEF f
<1>3. f \in Entry
  BY <1>1, <1>2 DEF Entry
<1>4. /\ f.registered = entry.registered /\ f.destroying = entry.destroying
      /\ f.enabled = entry.enabled /\ f.uncertain = entry.uncertain
      /\ f.interval = entry.interval /\ f.timers = entry.timers /\ f.chain = entry.chain
      /\ f.epoch = entry.epoch /\ f.records = entry.records /\ f.turn = entry.turn
  BY <1>1 DEF Entry
<1>5. Sound(f) /\ Like(entry, f)
  BY <1>1, <1>3, <1>4, MinorLemma
<1>6. OfTurn(f)
  BY <1>1, <1>4 DEF OfTurn
<1>7. Agrees(f, module, teardown')
  BY <1>1, <1>4 DEF Agrees
<1>8. Grants(entry, f)
  BY <1>4 DEF Grants
<1> QED
  BY <1>1, <1>5, <1>6, <1>7, <1>8 DEF f, Good

(* A layer whose destruction failed is kept.                                   *)
LEMMA RetainedLemma ==
  ASSUME NEW e, Sound(e)
  PROVE  LET f == Retained(e)
         IN /\ Sound(f) /\ ~f.destroying
            /\ f.registered = e.registered /\ f.enabled = e.enabled
            /\ f.uncertain = e.uncertain /\ f.chain = e.chain
            /\ f.records = e.records /\ f.turn = e.turn
<1> DEFINE d == [e EXCEPT !.destroying = FALSE, !.want = e.enabled]
           f == Settled(d)
<1>1. e \in Entry /\ e.enabled \in BOOLEAN
  BY DEF Sound, Entry
<1>2. d \in Entry
  BY <1>1 DEF Entry
<1>3. /\ d.registered = e.registered /\ d.destroying = FALSE
      /\ d.enabled = e.enabled /\ d.uncertain = e.uncertain
      /\ d.interval = e.interval /\ d.timers = e.timers /\ d.chain = e.chain
      /\ d.epoch = e.epoch /\ d.records = e.records /\ d.turn = e.turn
  BY <1>1 DEF Entry
<1> HIDE DEF d
<1>4. Sound(d)
  BY <1>2, <1>3 DEF Sound
<1>5. PICK l \in {"enabled", "disabled"} : f = [d EXCEPT !.lifecycle = l]
  BY DEF Settled
<1> HIDE DEF f
<1>6. f \in Entry
  BY <1>2, <1>5 DEF Entry
<1>7. /\ f.registered = d.registered /\ f.destroying = d.destroying
      /\ f.enabled = d.enabled /\ f.uncertain = d.uncertain
      /\ f.interval = d.interval /\ f.timers = d.timers /\ f.chain = d.chain
      /\ f.epoch = d.epoch /\ f.records = d.records /\ f.turn = d.turn
  BY <1>2, <1>5 DEF Entry
<1>8. Sound(f)
  BY <1>4, <1>6, <1>7, MinorLemma
<1> QED
  BY <1>3, <1>7, <1>8 DEF Retained, f, d

LEMMA DestroyDisabledStep ==
  ASSUME LayerInv, NEW ok \in BOOLEAN, DestroyDisabled(ok)
  PROVE  Good(entry, module, teardown)' /\ Grants(entry, entry')
<1>1. /\ Sound(entry) /\ OfTurn(entry) /\ Agrees(entry, module, teardown)
      /\ entry.turn.phase = "idle" /\ entry.chain = <<>> /\ entry.registered
      /\ entry.destroying /\ entry.turn = NoTurn
  BY DEF LayerInv, Good, DestroyDisabled, Agrees, OfTurn
<1>2. CASE ok
  <2> DEFINE c == ClearTimer(entry)
             f == [c EXCEPT !.enabled = FALSE]
  <2>1. entry' = f /\ module' = "off" /\ teardown' = "destroy"
    BY <1>2 DEF DestroyDisabled, Answered
  <2>2. /\ Sound(c) /\ Like(entry, c) /\ ~c.interval /\ c.turn = entry.turn
        /\ c.chain = entry.chain /\ c.records = entry.records
    BY <1>1, ClearLemma
  <2>3. c \in Entry
    BY <2>2 DEF Sound
  <2> HIDE DEF c
  <2>4. f \in Entry
    BY <2>3 DEF Entry
  <2>5. /\ f.registered = c.registered /\ f.destroying = c.destroying
        /\ ~f.enabled /\ f.uncertain = c.uncertain
        /\ f.interval = c.interval /\ f.timers = c.timers /\ f.chain = c.chain
        /\ f.epoch = c.epoch /\ f.records = c.records /\ f.turn = c.turn
    BY <2>3 DEF Entry
  <2> HIDE DEF f
  <2>6. Sound(f)
    BY <2>2, <2>4, <2>5 DEF Sound
  <2>7. OfTurn(f)
    BY <1>1, <2>2, <2>5 DEF OfTurn, NoTurn, Enabling
  <2>8. Agrees(f, "off", "destroy")
    BY <1>1, <2>2, <2>5 DEF Agrees, Like
  <2>9. Grants(entry, f)
    BY <2>2, <2>5 DEF Grants
  <2> QED
    BY <2>1, <2>6, <2>7, <2>8, <2>9 DEF Good
<1>3. CASE ~ok
  <2> DEFINE f == Retained(entry)
  <2>1. entry' = f /\ teardown' = "rejected"
    BY <1>3 DEF DestroyDisabled
  <2>2. /\ Sound(f) /\ ~f.destroying
        /\ f.registered = entry.registered /\ f.enabled = entry.enabled
        /\ f.uncertain = entry.uncertain /\ f.chain = entry.chain
        /\ f.records = entry.records /\ f.turn = entry.turn
    BY <1>1, RetainedLemma
  <2>3. module' = "off" \/ module' = module
    BY <1>3 DEF DestroyDisabled, Answered
  <2> HIDE DEF f
  <2>4. OfTurn(f)
    BY <1>1, <2>2 DEF OfTurn, NoTurn, Enabling
  <2>5. Agrees(f, module', "rejected")
    BY <1>1, <2>2, <2>3 DEF Agrees, Still
  <2>6. Grants(entry, f)
    BY <2>2 DEF Grants
  <2> QED
    BY <2>1, <2>2, <2>4, <2>5, <2>6 DEF Good
<1> QED
  BY <1>2, <1>3

LEMMA DestroyedStep ==
  ASSUME LayerInv, NEW ok \in BOOLEAN, Destroyed(ok)
  PROVE  Good(entry, module, teardown)' /\ Grants(entry, entry')
<1>1. /\ Sound(entry) /\ OfTurn(entry) /\ Agrees(entry, module, teardown)
      /\ entry.turn.phase = "idle" /\ entry.chain = <<>> /\ entry.registered
      /\ entry.destroying /\ ~entry.enabled /\ entry.turn = NoTurn
      /\ module' = module /\ entry \in Entry
  BY DEF LayerInv, Good, Destroyed, Agrees, OfTurn, Sound
<1>2. CASE ok
  <2> DEFINE f == [entry EXCEPT !.registered = FALSE]
  <2>1. entry' = f /\ teardown' = "gone"
    BY <1>2 DEF Destroyed
  <2>2. f \in Entry
    BY <1>1 DEF Entry
  <2>3. /\ ~f.registered /\ f.destroying = entry.destroying
        /\ f.enabled = entry.enabled /\ f.uncertain = entry.uncertain
        /\ f.interval = entry.interval /\ f.timers = entry.timers /\ f.chain = entry.chain
        /\ f.epoch = entry.epoch /\ f.records = entry.records /\ f.turn = entry.turn
    BY <1>1 DEF Entry
  <2> HIDE DEF f
  <2>4. Sound(f)
    BY <1>1, <2>2, <2>3 DEF Sound
  <2>5. OfTurn(f)
    BY <1>1, <2>3 DEF OfTurn, NoTurn, Enabling
  <2>6. Agrees(f, module, "gone")
    BY <1>1, <2>3 DEF Agrees
  <2>7. Grants(entry, f)
    BY <2>3 DEF Grants
  <2> QED
    BY <1>1, <2>1, <2>4, <2>5, <2>6, <2>7 DEF Good
<1>3. CASE ~ok
  <2> DEFINE f == Retained(entry)
  <2>1. entry' = f /\ teardown' = "idle"
    BY <1>3 DEF Destroyed
  <2>2. /\ Sound(f) /\ ~f.destroying
        /\ f.registered = entry.registered /\ f.enabled = entry.enabled
        /\ f.uncertain = entry.uncertain /\ f.chain = entry.chain
        /\ f.records = entry.records /\ f.turn = entry.turn
    BY <1>1, RetainedLemma
  <2> HIDE DEF f
  <2>3. OfTurn(f)
    BY <1>1, <2>2 DEF OfTurn, NoTurn, Enabling
  <2>4. Agrees(f, module, "idle")
    BY <1>1, <2>2 DEF Agrees
  <2>5. Grants(entry, f)
    BY <2>2 DEF Grants
  <2> QED
    BY <1>1, <2>1, <2>2, <2>3, <2>4, <2>5 DEF Good
<1> QED
  BY <1>2, <1>3

--------------------------------------------------------------------------------
(* Turns.                                                                      *)

LEMMA AtWork ==
  ASSUME LayerInv, Turns(entry) \/ entry.turn.phase # "idle"
  PROVE  /\ Sound(entry) /\ OfTurn(entry) /\ Agrees(entry, module, teardown)
         /\ entry \in Entry /\ teardown \notin {"disable", "destroy", "gone"}
         /\ entry.registered /\ (entry.destroying <=> teardown \notin {"idle", "rejected"})
         /\ entry.turn.phase # "idle" => entry.turn.epoch \in Epoch
BY DEF LayerInv, Good, Sound, Agrees, Turns, OfTurn

LEMMA EndsLemma ==
  ASSUME NEW e, Sound(e), e.turn.epoch \in Epoch,
         NEW m, NEW t, t \notin {"disable", "destroy", "gone"},
         e.registered, e.destroying <=> t \notin {"idle", "rejected"},
         ~e.enabled => m = "off",
         e.enabled /\ ~e.uncertain /\ t = "idle" => m # "off",
         NEW f \in Ends(e, "refused")
  PROVE  /\ Good(f, m, t)
         /\ \A k \in Epoch : f.records[k].answer = "granted" => e.records[k].answer = "granted"
<1>1. PICK s \in Settlements(e) : f = Finished(s, "refused")
  BY DEF Ends
<1>2. Sound(s) /\ Like(e, s)
  BY SettlementLemma
<1>3. /\ s.turn.epoch \in Epoch /\ s.registered
      /\ (s.destroying <=> t \notin {"idle", "rejected"})
      /\ (~s.enabled => m = "off")
      /\ (s.enabled /\ ~s.uncertain /\ t = "idle" => m # "off")
  BY <1>2 DEF Like
<1>4. Sound(f) /\ OfTurn(f) /\ Agrees(f, m, t) /\ Ended(s, f, "refused")
  BY <1>1, <1>2, <1>3, EndLemma
<1>5. \A k \in Epoch : f.records[k].answer = "granted" => s.records[k].answer = "granted"
  BY <1>4 DEF Ended
<1> QED
  BY <1>2, <1>4, <1>5 DEF Good, Like

LEMMA EpochIsPositive == 0 \notin Epoch
BY DEF Epoch

LEMMA SupersededStep ==
  ASSUME LayerInv, SupersededTurn
  PROVE  Good(entry, module, teardown)' /\ Grants(entry, entry')
<1> DEFINE t == Taken(entry)
<1>1. /\ Turns(entry) /\ entry' = Finished(t, "refused")
      /\ module' = module /\ teardown' = teardown
  BY DEF SupersededTurn, Alone
<1>2. /\ Sound(entry) /\ OfTurn(entry) /\ Agrees(entry, module, teardown)
      /\ teardown \notin {"disable", "destroy", "gone"} /\ entry.registered
      /\ (entry.destroying <=> teardown \notin {"idle", "rejected"})
  BY <1>1, AtWork
<1>3. /\ Sound(t) /\ t.registered = entry.registered /\ t.destroying = entry.destroying
      /\ t.enabled = entry.enabled /\ t.uncertain = entry.uncertain
      /\ t.records = entry.records /\ t.turn.epoch \in Epoch
  BY <1>1, <1>2, TakenLemma
<1>4. /\ (~entry.enabled => module = "off")
      /\ (entry.enabled /\ ~entry.uncertain /\ teardown = "idle" => module # "off")
  BY <1>1, <1>2 DEF Agrees, Turns, Still
<1> HIDE DEF t
<1> DEFINE f == Finished(t, "refused")
<1>5. Sound(f) /\ OfTurn(f) /\ Agrees(f, module, teardown) /\ Ended(t, f, "refused")
  BY <1>2, <1>3, <1>4, EndLemma
<1>6. f = entry'
  BY <1>1
<1> HIDE DEF f
<1>7. Grants(entry, f)
  BY <1>3, <1>5 DEF Grants, Ended
<1> QED
  BY <1>1, <1>5, <1>6, <1>7 DEF Good

LEMMA WithdrawnStep ==
  ASSUME LayerInv, WithdrawnTurn
  PROVE  Good(entry, module, teardown)' /\ Grants(entry, entry')
<1> DEFINE t == Taken(entry)
           z == [t EXCEPT !.adopt = 0]
<1>1. /\ Turns(entry) /\ module' = module /\ teardown' = teardown
      /\ \/ entry' = Finished(t, "refused")
         \/ entry' = Finished(Settled(z), "refused")
  BY DEF WithdrawnTurn, Alone
<1>2. /\ Sound(entry) /\ OfTurn(entry) /\ Agrees(entry, module, teardown)
      /\ teardown \notin {"disable", "destroy", "gone"} /\ entry.registered
      /\ (entry.destroying <=> teardown \notin {"idle", "rejected"})
  BY <1>1, AtWork
<1>3. /\ Sound(t) /\ t.registered = entry.registered /\ t.destroying = entry.destroying
      /\ t.enabled = entry.enabled /\ t.uncertain = entry.uncertain
      /\ t.records = entry.records /\ t.turn.epoch \in Epoch
  BY <1>1, <1>2, TakenLemma
<1>4. /\ (~entry.enabled => module = "off")
      /\ (entry.enabled /\ ~entry.uncertain /\ teardown = "idle" => module # "off")
  BY <1>1, <1>2 DEF Agrees, Turns, Still
<1> HIDE DEF t
<1>5. 0 \in 0..MaxEpoch /\ "enabled" \in {"enabled", "enabling", "disabled", "disabling"}
  BY LayerAssumption DEF LayerAssumption
<1>6. Sound(z) /\ Like(t, z)
  BY <1>3, <1>5, PresentedLemma
<1> HIDE DEF z
<1>7. Sound(Settled(z)) /\ Like(z, Settled(z))
  BY <1>6, SettledLemma
<1>8. PICK s : s \in {t, Settled(z)} /\ entry' = Finished(s, "refused")
  BY <1>1
<1>9. Sound(s) /\ Like(t, s)
  <2>1. Like(t, t)
    BY DEF Like
  <2>2. Like(t, Settled(z))
    BY <1>6, <1>7, LikeLemma
  <2> QED
    BY <1>3, <1>7, <1>8, <2>1, <2>2
<1>10. /\ s.turn.epoch \in Epoch /\ s.registered
       /\ (s.destroying <=> teardown \notin {"idle", "rejected"})
       /\ (~s.enabled => module = "off")
       /\ (s.enabled /\ ~s.uncertain /\ teardown = "idle" => module # "off")
  BY <1>2, <1>3, <1>4, <1>9 DEF Like
<1> DEFINE f == Finished(s, "refused")
<1>11. Sound(f) /\ OfTurn(f) /\ Agrees(f, module, teardown) /\ Ended(s, f, "refused")
  BY <1>2, <1>9, <1>10, EndLemma
<1>12. f = entry'
  BY <1>8
<1> HIDE DEF f
<1>13. Grants(entry, f)
  BY <1>3, <1>9, <1>11 DEF Grants, Ended, Like
<1> QED
  BY <1>1, <1>11, <1>12, <1>13 DEF Good

LEMMA IdempotentStep ==
  ASSUME LayerInv, IdempotentTurn
  PROVE  Good(entry, module, teardown)' /\ Grants(entry, entry')
<1> DEFINE t == Taken(entry)
<1>1. /\ Turns(entry) /\ Holds(t) /\ module' = module /\ teardown' = teardown
      /\ \E r \in {t} \cup Reentries(Settled(t)) : entry' = Finished(r, "granted")
  <2>1. PICK r \in IF t.lifecycle \in {"enabling", "disabling"}
                  THEN Reentries(Settled(t)) ELSE {t} : entry' = Finished(r, "granted")
    BY DEF IdempotentTurn
  <2>2. r \in {t} \cup Reentries(Settled(t))
    OBVIOUS
  <2> QED
    BY <2>1, <2>2 DEF IdempotentTurn, Newest, Alone
<1>2. /\ Sound(entry) /\ OfTurn(entry) /\ Agrees(entry, module, teardown)
      /\ teardown \notin {"disable", "destroy", "gone"} /\ entry.registered
      /\ (entry.destroying <=> teardown \notin {"idle", "rejected"})
  BY <1>1, AtWork
<1>3. /\ Sound(t) /\ t.registered = entry.registered /\ t.destroying = entry.destroying
      /\ t.enabled = entry.enabled /\ t.uncertain = entry.uncertain
      /\ t.records = entry.records /\ t.turn.epoch \in Epoch
      /\ t.turn.target = entry.records[t.turn.epoch].want
  BY <1>1, <1>2, TakenLemma
<1>4. /\ (~entry.enabled => module = "off")
      /\ (entry.enabled /\ ~entry.uncertain /\ teardown = "idle" => module # "off")
      /\ entry.turn = NoTurn
  BY <1>1, <1>2 DEF Agrees, Turns, Still, OfTurn
<1>5. t.enabled = t.turn.target /\ ~t.uncertain
  BY <1>1 DEF Holds
<1> HIDE DEF t
<1>6. Sound(Settled(t)) /\ Like(t, Settled(t))
  BY <1>3, SettledLemma
<1>7. PICK s \in {t} \cup Reentries(Settled(t)) : entry' = Finished(s, "granted")
  BY <1>1
<1>8. Sound(s) /\ Like(t, s)
  <2>1. CASE s = t
    BY <1>3, <2>1 DEF Like
  <2>2. CASE s \in Reentries(Settled(t))
    <3>1. Sound(s) /\ Like(Settled(t), s)
      BY <1>6, <2>2, ReentryLemma
    <3> QED
      BY <1>6, <3>1, LikeLemma
  <2> QED
    BY <1>7, <2>1, <2>2
<1>9. /\ s.turn.epoch \in Epoch /\ s.registered
      /\ (s.destroying <=> teardown \notin {"idle", "rejected"})
      /\ (~s.enabled => module = "off")
      /\ (s.enabled /\ ~s.uncertain /\ teardown = "idle" => module # "off")
  BY <1>2, <1>3, <1>4, <1>8 DEF Like
<1> DEFINE f == Finished(s, "granted")
<1>10. Sound(f) /\ OfTurn(f) /\ Agrees(f, module, teardown) /\ Ended(s, f, "granted")
  BY <1>2, <1>8, <1>9, EndLemma
<1>11. f = entry'
  BY <1>7
<1> HIDE DEF f
<1>12. Grants(entry, f)
  <2>1. SUFFICES ASSUME NEW k \in Epoch, entry.records[k].answer # "granted",
                        f.records[k].answer = "granted"
                 PROVE  /\ f.enabled = entry.records[k].want /\ ~f.uncertain
                        /\ entry.turn.epoch # k
    BY DEF Grants
  <2>2. k = s.turn.epoch
    BY <1>3, <1>8, <1>10, <2>1 DEF Ended, Like
  <2>3. k = t.turn.epoch
    BY <1>8, <2>2 DEF Like
  <2>4. f.enabled = t.enabled /\ f.uncertain = t.uncertain
    BY <1>8, <1>10 DEF Ended, Like
  <2>5. entry.turn.epoch # k
    BY <1>4, EpochIsPositive DEF NoTurn
  <2> QED
    BY <1>3, <1>5, <2>3, <2>4, <2>5
<1> QED
  BY <1>1, <1>10, <1>11, <1>12 DEF Good

(* A turn that begins to adopt, or to toggle.                                  *)
LEMMA BeginStep ==
  ASSUME LayerInv, AdoptionTurn \/ ToggleTurn
  PROVE  Good(entry, module, teardown)' /\ Grants(entry, entry')
<1> DEFINE t == Taken(entry)
           z == [t EXCEPT !.adopt = 0]
<1>1. /\ Turns(entry) /\ module' = module /\ teardown' = teardown
      /\ \/ entry' = Await(t, "adopt") /\ Holds(t)
         \/ entry' = Await(z, "guard")
  BY DEF AdoptionTurn, ToggleTurn, Newest, Alone
<1>2. /\ Sound(entry) /\ OfTurn(entry) /\ Agrees(entry, module, teardown)
      /\ teardown \notin {"disable", "destroy", "gone"} /\ entry.registered
      /\ (entry.destroying <=> teardown \notin {"idle", "rejected"})
  BY <1>1, AtWork
<1>3. /\ Sound(t) /\ t.registered = entry.registered /\ t.destroying = entry.destroying
      /\ t.enabled = entry.enabled /\ t.uncertain = entry.uncertain
      /\ t.records = entry.records /\ t.turn.epoch \in Epoch
      /\ t.turn.target = entry.records[t.turn.epoch].want /\ ~t.turn.compensation
  BY <1>1, <1>2, TakenLemma
<1>4. /\ (~entry.enabled => module = "off")
      /\ (entry.enabled /\ ~entry.uncertain /\ teardown = "idle" => module # "off")
  BY <1>1, <1>2 DEF Agrees, Turns, Still
<1>5. Holds(t) => t.enabled = t.turn.target /\ ~t.uncertain
  BY DEF Holds
<1> HIDE DEF t
<1>6. 0 \in 0..MaxEpoch /\ "enabled" \in {"enabled", "enabling", "disabled", "disabling"}
  BY LayerAssumption DEF LayerAssumption
<1>7. Sound(z) /\ Like(t, z)
  BY <1>3, <1>6, PresentedLemma
<1> HIDE DEF z
<1>8. PICK s, phase : /\ entry' = Await(s, phase) /\ Sound(s) /\ Like(t, s)
                      /\ \/ phase = "adopt" /\ Holds(t)
                         \/ phase = "guard"
  <2>1. Like(t, t)
    BY DEF Like
  <2> QED
    BY <1>1, <1>3, <1>7, <2>1
<1>9. phase \in Phase
  BY <1>8 DEF Phase
<1> DEFINE f == Await(s, phase)
<1>10. /\ Sound(f)
       /\ f.registered = s.registered /\ f.destroying = s.destroying
       /\ f.enabled = s.enabled /\ f.uncertain = s.uncertain
       /\ f.records = s.records
       /\ f.turn.phase = phase /\ f.turn.epoch = s.turn.epoch
       /\ f.turn.target = s.turn.target /\ f.turn.compensation = s.turn.compensation
  BY <1>8, <1>9, AwaitLemma
<1>11. f = entry'
  BY <1>8
<1> HIDE DEF f
<1>12. OfTurn(f)
  BY <1>3, <1>5, <1>8, <1>10 DEF OfTurn, Like, Enabling
<1>13. Agrees(f, module, teardown)
  BY <1>2, <1>3, <1>4, <1>8, <1>10 DEF Agrees, Like, Still
<1>14. Grants(entry, f)
  BY <1>3, <1>8, <1>10 DEF Grants, Like
<1> QED
  BY <1>1, <1>10, <1>11, <1>12, <1>13, <1>14 DEF Good

--------------------------------------------------------------------------------
(* The turn at work.                                                           *)

(* A step after which the module is called, or called again.                   *)
LEMMA CallLemma ==
  ASSUME LayerInv, entry.turn.phase # "idle",
         NEW f, Sound(f), NEW m,
         f.registered = entry.registered, f.destroying = entry.destroying,
         f.turn.epoch = entry.turn.epoch, f.turn.target = entry.turn.target,
         f.turn.compensation = entry.turn.compensation,
         f.records[entry.turn.epoch].want = entry.records[entry.turn.epoch].want,
         \A k \in Epoch : f.records[k].answer = "granted" => entry.records[k].answer = "granted",
         f.turn.phase \in Phase \ Still,
         f.turn.phase \in Enabling => entry.turn.target,
         f.turn.phase = "disable" => ~entry.turn.target,
         f.turn.phase \in {"cleanup", "failed"} => ~f.interval,
         f.turn.phase = "update" => m # "off"
  PROVE  Good(f, m, teardown) /\ Grants(entry, f)
<1>1. /\ Sound(entry) /\ OfTurn(entry) /\ Agrees(entry, module, teardown)
      /\ teardown \notin {"disable", "destroy", "gone"} /\ entry.registered
      /\ (entry.destroying <=> teardown \notin {"idle", "rejected"})
      /\ entry.turn.epoch \in Epoch
  BY AtWork
<1>2. f.turn.phase \notin {"idle", "adopt", "guard"}
  BY DEF Still
<1>3. OfTurn(f)
  BY <1>1, <1>2 DEF OfTurn
<1>4. Agrees(f, m, teardown)
  BY <1>1, <1>2 DEF Agrees, Still
<1>5. Grants(entry, f)
  BY DEF Grants
<1> QED
  BY <1>3, <1>4, <1>5 DEF Good

(* A step that ends the turn.                                                  *)
LEMMA FinishLemma ==
  ASSUME LayerInv, entry.turn.phase # "idle",
         NEW s, Sound(s), NEW m, NEW answer \in {"granted", "refused"},
         s.registered = entry.registered, s.destroying = entry.destroying,
         s.turn.epoch = entry.turn.epoch,
         \A k \in Epoch : s.records[k].answer = "granted" => entry.records[k].answer = "granted",
         ~s.enabled => m = "off",
         s.enabled /\ ~s.uncertain /\ teardown = "idle" => m # "off",
         answer = "granted" /\ ~s.turn.compensation =>
           /\ s.enabled = entry.records[entry.turn.epoch].want /\ ~s.uncertain
           /\ s.epoch = entry.turn.epoch
  PROVE  Good(Finished(s, answer), m, teardown) /\ Grants(entry, Finished(s, answer))
<1>1. /\ teardown \notin {"disable", "destroy", "gone"} /\ entry.registered
      /\ (entry.destroying <=> teardown \notin {"idle", "rejected"})
      /\ entry.turn.epoch \in Epoch
  BY AtWork
<1> DEFINE f == Finished(s, answer)
<1>2. Sound(f) /\ OfTurn(f) /\ Agrees(f, m, teardown) /\ Ended(s, f, answer)
  BY <1>1, EndLemma
<1> HIDE DEF f
<1>3. Grants(entry, f)
  BY <1>2 DEF Grants, Ended
<1> QED
  BY <1>2, <1>3 DEF Good, f

(* A step that settles the layer and refuses the request.                      *)
LEMMA RefuseLemma ==
  ASSUME LayerInv, entry.turn.phase # "idle",
         NEW e, Sound(e), NEW m,
         e.registered = entry.registered, e.destroying = entry.destroying,
         e.turn.epoch = entry.turn.epoch,
         \A k \in Epoch : e.records[k].answer = "granted" => entry.records[k].answer = "granted",
         ~e.enabled => m = "off",
         e.enabled /\ ~e.uncertain /\ teardown = "idle" => m # "off",
         NEW f \in Ends(e, "refused")
  PROVE  Good(f, m, teardown) /\ Grants(entry, f)
<1>1. /\ teardown \notin {"disable", "destroy", "gone"} /\ entry.registered
      /\ (entry.destroying <=> teardown \notin {"idle", "rejected"})
      /\ entry.turn.epoch \in Epoch
  BY AtWork
<1>2. /\ Good(f, m, teardown)
      /\ \A k \in Epoch : f.records[k].answer = "granted" => e.records[k].answer = "granted"
  <2> DEFINE t == teardown
  <2>1. /\ e.turn.epoch \in Epoch /\ e.registered
        /\ t \notin {"disable", "destroy", "gone"}
        /\ (e.destroying <=> t \notin {"idle", "rejected"})
        /\ (~e.enabled => m = "off") /\ (e.enabled /\ ~e.uncertain /\ t = "idle" => m # "off")
    BY <1>1
  <2> HIDE DEF t
  <2>2. /\ Good(f, m, t)
        /\ \A k \in Epoch : f.records[k].answer = "granted" => e.records[k].answer = "granted"
    BY <2>1, EndsLemma, ZenonT(60)
  <2> QED
    BY <2>2 DEF t
<1>3. Grants(entry, f)
  BY <1>2 DEF Grants
<1> QED
  BY <1>2, <1>3

LEMMA AdoptionEndedStep ==
  ASSUME LayerInv, AdoptionOvertaken \/ AdoptionWithdrawn
  PROVE  Good(entry, module, teardown)' /\ Grants(entry, entry')
<1>1. /\ Sound(entry) /\ Agrees(entry, module, teardown) /\ entry.turn.phase = "adopt"
      /\ module' = module /\ teardown' = teardown
      /\ (~entry.enabled => module = "off")
      /\ (entry.enabled /\ ~entry.uncertain /\ teardown = "idle" => module # "off")
  BY DEF LayerInv, Good, AdoptionOvertaken, AdoptionWithdrawn, Alone, Agrees, Still
<1>2. PICK a \in 0..MaxEpoch :
        \/ entry' = Finished(Moving([entry EXCEPT !.adopt = a]), "refused")
        \/ entry' = Finished(Settled([entry EXCEPT !.adopt = a]), "refused")
  <2>1. entry.epoch \in 0..MaxEpoch /\ 0 \in 0..MaxEpoch
    BY <1>1, LayerAssumption DEF Sound, Entry, LayerAssumption
  <2> QED
    BY <2>1 DEF AdoptionOvertaken, AdoptionWithdrawn
<1> DEFINE z == [entry EXCEPT !.adopt = a]
<1>3. Sound(z) /\ Like(entry, z)
  <2>1. "enabled" \in {"enabled", "enabling", "disabled", "disabling"}
    OBVIOUS
  <2> QED
    BY <1>1, <2>1, PresentedLemma
<1>4. PICK s : s \in {Moving(z), Settled(z)} /\ entry' = Finished(s, "refused")
  BY <1>2
<1> HIDE DEF z
<1>5. Sound(s) /\ Like(entry, s)
  <2>1. Sound(s) /\ Like(z, s)
    BY <1>3, <1>4, MovingLemma, SettledLemma
  <2> QED
    BY <1>3, <2>1, LikeLemma
<1>6. Good(Finished(s, "refused"), module, teardown) /\ Grants(entry, Finished(s, "refused"))
  <2>1. /\ s.registered = entry.registered /\ s.destroying = entry.destroying
        /\ s.turn.epoch = entry.turn.epoch
        /\ s.enabled = entry.enabled /\ s.uncertain = entry.uncertain
        /\ \A k \in Epoch : s.records[k].answer = "granted" => entry.records[k].answer = "granted"
    BY <1>5 DEF Like
  <2> QED
    BY <1>1, <1>5, <2>1, FinishLemma
<1> QED
  BY <1>1, <1>4, <1>6

LEMMA AdoptionBlockedStep ==
  ASSUME LayerInv, AdoptionBlocked
  PROVE  Good(entry, module, teardown)' /\ Grants(entry, entry')
<1> DEFINE n == [entry.turn EXCEPT !.target = ~entry.turn.target, !.compensation = TRUE,
                                   !.phase = "guard"]
           q == [epoch |-> entry.epoch, want |-> ~entry.turn.target]
           e == [entry EXCEPT !.adopt = 0, !.queued = q, !.turn = n]
<1>1. /\ Sound(entry) /\ OfTurn(entry) /\ Agrees(entry, module, teardown)
      /\ entry.turn.phase = "adopt" /\ entry \in Entry /\ entry.turn \in Turn
      /\ module' = module /\ teardown' = teardown
      /\ (~entry.enabled => module = "off")
      /\ (entry.enabled /\ ~entry.uncertain /\ teardown = "idle" => module # "off")
      /\ teardown \notin {"disable", "destroy", "gone"}
      /\ entry.registered /\ (entry.destroying <=> teardown \notin {"idle", "rejected"})
      /\ entry.turn.epoch \in Epoch
  BY AtWork DEF AdoptionBlocked, Adoptable, Alone, Agrees, Still, Entry
<1>2. PICK r \in Reentries(e) :
        entry' = IF Superseded(r) THEN Finished(Deferred(r), "refused") ELSE r
  <2>1. e = [entry EXCEPT !.adopt = 0,
                          !.queued = [epoch |-> entry.epoch, want |-> ~entry.turn.target],
                          !.turn.target = ~entry.turn.target, !.turn.compensation = TRUE,
                          !.turn.phase = "guard"]
    BY <1>1 DEF Entry, Turn
  <2> HIDE DEF e
  <2> QED
    BY <2>1 DEF AdoptionBlocked
<1>3. n \in Turn /\ n.phase = "guard" /\ n.compensation /\ n.epoch = entry.turn.epoch
  BY <1>1 DEF Turn, Phase
<1>4. q \in Queued /\ 0 \in 0..MaxEpoch
  BY <1>1, LayerAssumption DEF Queued, Entry, Turn, LayerAssumption
<1> HIDE DEF n, q
<1>5. e \in Entry
  BY <1>1, <1>3, <1>4 DEF Entry
<1>6. /\ e.registered = entry.registered /\ e.destroying = entry.destroying
      /\ e.enabled = entry.enabled /\ e.uncertain = entry.uncertain
      /\ e.interval = entry.interval /\ e.timers = entry.timers /\ e.chain = entry.chain
      /\ e.epoch = entry.epoch /\ e.records = entry.records /\ e.turn = n
  BY <1>1 DEF Entry
<1> HIDE DEF e
<1>7. Sound(e)
  BY <1>1, <1>3, <1>5, <1>6 DEF Sound
<1>8. Sound(r) /\ Like(e, r)
  BY <1>2, <1>7, ReentryLemma
<1>9. /\ r.registered = entry.registered /\ r.destroying = entry.destroying
      /\ r.enabled = entry.enabled /\ r.uncertain = entry.uncertain
      /\ r.turn.phase = "guard" /\ r.turn.compensation /\ r.turn.epoch = entry.turn.epoch
      /\ \A k \in Epoch : r.records[k].answer = "granted" => entry.records[k].answer = "granted"
  BY <1>3, <1>6, <1>8 DEF Like
<1>10. CASE Superseded(r)
  <2> DEFINE s == Deferred(r)
  <2>1. Sound(s) /\ Like(r, s)
    BY <1>8, DeferredLemma
  <2>2. entry' = Finished(s, "refused")
    BY <1>2, <1>10
  <2> HIDE DEF s
  <2>3. /\ s.registered = entry.registered /\ s.destroying = entry.destroying
        /\ s.turn.epoch = entry.turn.epoch
        /\ s.enabled = entry.enabled /\ s.uncertain = entry.uncertain
        /\ \A k \in Epoch : s.records[k].answer = "granted" => entry.records[k].answer = "granted"
    BY <1>9, <2>1 DEF Like
  <2>4. Good(Finished(s, "refused"), module, teardown) /\ Grants(entry, Finished(s, "refused"))
    BY <1>1, <2>1, <2>3, FinishLemma
  <2> QED
    BY <1>1, <2>2, <2>4
<1>11. CASE ~Superseded(r)
  <2>1. OfTurn(r)
    BY <1>1, <1>9 DEF OfTurn, Enabling
  <2>2. Agrees(r, module, teardown)
    BY <1>1, <1>9 DEF Agrees
  <2>3. Grants(entry, r)
    BY <1>9 DEF Grants
  <2> QED
    BY <1>1, <1>2, <1>8, <1>11, <2>1, <2>2, <2>3 DEF Good
<1> QED
  BY <1>10, <1>11

LEMMA AdoptedStep ==
  ASSUME LayerInv, Adopted
  PROVE  Good(entry, module, teardown)' /\ Grants(entry, entry')
<1>1. /\ Sound(entry) /\ OfTurn(entry) /\ Agrees(entry, module, teardown)
      /\ entry.turn.phase = "adopt" /\ module' = module /\ teardown' = teardown
      /\ (~entry.enabled => module = "off")
      /\ (entry.enabled /\ ~entry.uncertain /\ teardown = "idle" => module # "off")
  BY DEF LayerInv, Good, Adopted, Adoptable, Alone, Agrees, Still
<1>2. /\ entry.turn.epoch \in Epoch /\ ~entry.uncertain
      /\ entry.enabled = entry.records[entry.turn.epoch].want
  BY <1>1 DEF OfTurn
<1>3. PICK s \in Settlements(entry) :
        entry' = Finished(s, IF Superseded(s) THEN "refused" ELSE "granted")
  BY DEF Adopted
<1>4. Sound(s) /\ Like(entry, s)
  BY <1>1, <1>3, SettlementLemma
<1> DEFINE answer == IF Superseded(s) THEN "refused" ELSE "granted"
<1>5. /\ answer \in {"granted", "refused"}
      /\ answer = "granted" => s.epoch = s.turn.epoch
  BY DEF Superseded
<1>6. entry' = Finished(s, answer)
  BY <1>3
<1> HIDE DEF answer
<1>7. Good(Finished(s, answer), module, teardown) /\ Grants(entry, Finished(s, answer))
  <2>1. /\ s.registered = entry.registered /\ s.destroying = entry.destroying
        /\ s.turn.epoch = entry.turn.epoch
        /\ s.enabled = entry.enabled /\ s.uncertain = entry.uncertain
        /\ \A k \in Epoch : s.records[k].answer = "granted" => entry.records[k].answer = "granted"
    BY <1>4 DEF Like
  <2> QED
    BY <1>1, <1>2, <1>4, <1>5, <2>1, FinishLemma
<1> QED
  BY <1>1, <1>6, <1>7

LEMMA GuardRefusesStep ==
  ASSUME LayerInv, GuardRefuses
  PROVE  Good(entry, module, teardown)' /\ Grants(entry, entry')
<1>1. /\ Sound(entry) /\ entry.turn.phase = "guard"
      /\ module' = module /\ teardown' = teardown /\ entry' = Finished(entry, "refused")
      /\ (~entry.enabled => module = "off")
      /\ (entry.enabled /\ ~entry.uncertain /\ teardown = "idle" => module # "off")
  BY DEF LayerInv, Good, GuardRefuses, Alone, Agrees, Still
<1>2. Good(Finished(entry, "refused"), module, teardown)
      /\ Grants(entry, Finished(entry, "refused"))
  BY <1>1, FinishLemma
<1> QED
  BY <1>1, <1>2

LEMMA EnableCallsLemma ==
  ASSUME LayerInv, entry.turn.phase # "idle", entry.turn.target,
         NEW e, Sound(e), Like(entry, e), NEW f \in EnableCalls(e), NEW m
  PROVE  Good(f, m, teardown) /\ Grants(entry, f)
<1>1. entry.turn.epoch \in Epoch
  BY AtWork
<1>2. /\ e.registered = entry.registered /\ e.destroying = entry.destroying
      /\ e.turn.epoch = entry.turn.epoch /\ e.turn.target = entry.turn.target
      /\ e.turn.compensation = entry.turn.compensation
      /\ e.records[entry.turn.epoch].want = entry.records[entry.turn.epoch].want
      /\ \A k \in Epoch : e.records[k].answer = "granted" => entry.records[k].answer = "granted"
  BY <1>1 DEF Like
<1>3. /\ \A p \in {"cleanup", "failed"} : p \in Phase \ Still /\ p \notin Enabling /\ p # "disable" /\ p # "update"
      /\ "enable" \in Phase \ Still /\ "enable" \in Phase
  BY DEF Phase, Still, Enabling
<1>4. CASE f \in {CleanUp(e), Fail(e)}
  <2>1. /\ Sound(f) /\ ~f.interval
        /\ f.registered = e.registered /\ f.destroying = e.destroying
        /\ f.records = e.records
        /\ f.turn.phase \in {"cleanup", "failed"} /\ f.turn.epoch = e.turn.epoch
        /\ f.turn.target = e.turn.target /\ f.turn.compensation = e.turn.compensation
    BY <1>4, CleanUpLemma
  <2> QED
    BY <1>2, <1>3, <2>1, CallLemma
<1>5. CASE f \notin {CleanUp(e), Fail(e)}
  <2> DEFINE z == [e EXCEPT !.uncertain = FALSE]
  <2>1. f = Await(z, "enable") /\ e \in Entry
    BY <1>5, RejectedLemma DEF EnableCalls, Sound
  <2>2. z \in Entry
    BY <2>1 DEF Entry
  <2>3. /\ z.registered = e.registered /\ z.destroying = e.destroying
        /\ z.enabled = e.enabled /\ z.interval = e.interval /\ z.timers = e.timers
        /\ z.chain = e.chain /\ z.epoch = e.epoch /\ z.records = e.records /\ z.turn = e.turn
    BY <2>1 DEF Entry
  <2> HIDE DEF z
  <2>4. Sound(z)
    BY <2>2, <2>3 DEF Sound
  <2>5. /\ Sound(f) /\ f.registered = z.registered /\ f.destroying = z.destroying
        /\ f.records = z.records
        /\ f.turn.phase = "enable" /\ f.turn.epoch = z.turn.epoch
        /\ f.turn.target = z.turn.target /\ f.turn.compensation = z.turn.compensation
    <3> DEFINE w == Await(z, "enable")
    <3>1. /\ Sound(w) /\ w.registered = z.registered /\ w.destroying = z.destroying
          /\ w.records = z.records
          /\ w.turn.phase = "enable" /\ w.turn.epoch = z.turn.epoch
          /\ w.turn.target = z.turn.target /\ w.turn.compensation = z.turn.compensation
      BY <1>3, <2>4, AwaitLemma
    <3>2. f = w
      BY <2>1
    <3> HIDE DEF w
    <3> QED
      BY <3>1, <3>2
  <2> QED
    BY <1>2, <1>3, <2>3, <2>5, CallLemma
<1> QED
  BY <1>4, <1>5

LEMMA GuardPassesStep ==
  ASSUME LayerInv, GuardPasses
  PROVE  Good(entry, module, teardown)' /\ Grants(entry, entry')
<1>1. /\ Sound(entry) /\ entry.turn.phase = "guard"
      /\ module' = module /\ teardown' = teardown /\ entry.turn.epoch \in Epoch
  BY AtWork DEF LayerInv, Good, GuardPasses, Alone
<1>2. PICK lifecycle \in {"enabled", "enabling", "disabled", "disabling"} :
        \E r \in Reentries([entry EXCEPT !.lifecycle = lifecycle]) : entry' \in Transitions(r)
  BY DEF GuardPasses
<1> DEFINE z == [entry EXCEPT !.lifecycle = lifecycle]
<1>3. PICK r \in Reentries(z) : entry' \in Transitions(r)
  BY <1>2
<1>4. Sound(z) /\ Like(entry, z)
  <2>1. 0 \in 0..MaxEpoch
    BY LayerAssumption DEF LayerAssumption
  <2> QED
    BY <1>1, <2>1, PresentedLemma
<1> HIDE DEF z
<1>5. Sound(r) /\ Like(entry, r)
  <2>1. Sound(r) /\ Like(z, r)
    BY <1>3, <1>4, ReentryLemma
  <2> QED
    BY <1>4, <2>1, LikeLemma
<1>6. /\ r.registered = entry.registered /\ r.destroying = entry.destroying
      /\ r.turn.epoch = entry.turn.epoch /\ r.turn.target = entry.turn.target
      /\ r.turn.compensation = entry.turn.compensation
      /\ r.records[entry.turn.epoch].want = entry.records[entry.turn.epoch].want
      /\ \A k \in Epoch : r.records[k].answer = "granted" => entry.records[k].answer = "granted"
  BY <1>1, <1>5 DEF Like
<1>7. /\ "disable" \in Phase \ Still /\ "disable" \in Phase /\ "disable" \notin Enabling
      /\ "init" \in Phase \ Still /\ "init" \in Phase
  BY DEF Phase, Still, Enabling
<1>8. CASE ~entry.turn.target
  <2> DEFINE i == InvalidateRefresh(r)
  <2>1. entry' = Await(i, "disable") /\ r \in Entry
    BY <1>3, <1>5, <1>6, <1>8 DEF Transitions, Sound
  <2>2. i \in Entry
    BY <2>1 DEF InvalidateRefresh, Entry
  <2>3. /\ i.registered = r.registered /\ i.destroying = r.destroying
        /\ i.enabled = r.enabled /\ i.uncertain = r.uncertain
        /\ i.interval = r.interval /\ i.timers = r.timers /\ i.chain = r.chain
        /\ i.epoch = r.epoch /\ i.records = r.records /\ i.turn = r.turn
    BY <2>1 DEF InvalidateRefresh, Entry
  <2> HIDE DEF i
  <2>4. Sound(i)
    BY <1>5, <2>2, <2>3, MinorLemma
  <2> DEFINE f == Await(i, "disable")
  <2>5. /\ Sound(f) /\ f.registered = i.registered /\ f.destroying = i.destroying
        /\ f.records = i.records
        /\ f.turn.phase = "disable" /\ f.turn.epoch = i.turn.epoch
        /\ f.turn.target = i.turn.target /\ f.turn.compensation = i.turn.compensation
    BY <1>7, <2>4, AwaitLemma
  <2>6. f = entry'
    BY <2>1
  <2> HIDE DEF f
  <2>7. Good(f, module, teardown) /\ Grants(entry, f)
    BY <1>1, <1>6, <1>7, <1>8, <2>3, <2>5, CallLemma
  <2> QED
    BY <1>1, <2>6, <2>7
<1>9. CASE entry.turn.target /\ ~r.initialized
  <2> DEFINE f == Await(r, "init")
  <2>1. f = entry'
    BY <1>3, <1>6, <1>9 DEF Transitions
  <2>2. /\ Sound(f) /\ f.registered = r.registered /\ f.destroying = r.destroying
        /\ f.records = r.records
        /\ f.turn.phase = "init" /\ f.turn.epoch = r.turn.epoch
        /\ f.turn.target = r.turn.target /\ f.turn.compensation = r.turn.compensation
    BY <1>5, <1>7, AwaitLemma
  <2> HIDE DEF f
  <2>3. Good(f, module, teardown) /\ Grants(entry, f)
    BY <1>1, <1>6, <1>7, <1>9, <2>2, CallLemma
  <2> QED
    BY <1>1, <2>1, <2>3
<1>10. CASE entry.turn.target /\ r.initialized
  <2>1. entry' \in EnableCalls(r)
    BY <1>3, <1>6, <1>10 DEF Transitions
  <2>2. Good(entry', module, teardown) /\ Grants(entry, entry')
    BY <1>1, <1>5, <1>10, <2>1, EnableCallsLemma
  <2> QED
    BY <1>1, <2>2
<1> QED
  BY <1>8, <1>9, <1>10

(* A call that ends in the clean-up of the turn.                               *)
LEMMA CleanUpStep ==
  ASSUME LayerInv, entry.turn.phase # "idle",
         NEW e, Sound(e), Like(entry, e), NEW m, NEW f \in {CleanUp(e), Fail(e)}
  PROVE  Good(f, m, teardown) /\ Grants(entry, f)
<1>1. Sound(entry) /\ entry.turn.epoch \in Epoch
  BY AtWork
<1>2. /\ e.registered = entry.registered /\ e.destroying = entry.destroying
      /\ e.turn.epoch = entry.turn.epoch /\ e.turn.target = entry.turn.target
      /\ e.turn.compensation = entry.turn.compensation
      /\ e.records[entry.turn.epoch].want = entry.records[entry.turn.epoch].want
      /\ \A k \in Epoch : e.records[k].answer = "granted" => entry.records[k].answer = "granted"
  BY <1>1 DEF Like
<1>3. \A p \in {"cleanup", "failed"} : p \in Phase \ Still /\ p \notin Enabling /\ p # "disable" /\ p # "update"
  BY DEF Phase, Still, Enabling
<1>4. /\ Sound(f) /\ ~f.interval
      /\ f.registered = e.registered /\ f.destroying = e.destroying
      /\ f.records = e.records
      /\ f.turn.phase \in {"cleanup", "failed"} /\ f.turn.epoch = e.turn.epoch
      /\ f.turn.target = e.turn.target /\ f.turn.compensation = e.turn.compensation
  BY CleanUpLemma
<1> QED
  BY <1>2, <1>3, <1>4, CallLemma

(* A call that ends in another call.                                           *)
LEMMA AwaitStep ==
  ASSUME LayerInv, entry.turn.phase # "idle", NEW m,
         NEW phase \in {"update", "reenable", "redisable"},
         phase = "update" => entry.turn.target /\ m # "off"
  PROVE  Good(Await(entry, phase), m, teardown) /\ Grants(entry, Await(entry, phase))
<1>1. Sound(entry) /\ entry.turn.epoch \in Epoch
  BY AtWork
<1>2. /\ phase \in Phase \ Still /\ phase \in Phase
      /\ (phase \in Enabling => entry.turn.target)
      /\ phase # "disable" /\ phase \notin {"cleanup", "failed"}
  BY DEF Phase, Still, Enabling
<1> DEFINE f == Await(entry, phase)
<1>3. /\ Sound(f) /\ f.registered = entry.registered /\ f.destroying = entry.destroying
      /\ f.records = entry.records
      /\ f.turn.phase = phase /\ f.turn.epoch = entry.turn.epoch
      /\ f.turn.target = entry.turn.target /\ f.turn.compensation = entry.turn.compensation
  BY <1>1, <1>2, AwaitLemma
<1> HIDE DEF f
<1>4. Good(f, m, teardown) /\ Grants(entry, f)
  BY <1>2, <1>3, CallLemma
<1> QED
  BY <1>4 DEF f

LEMMA InitialisedStep ==
  ASSUME LayerInv, NEW ok \in BOOLEAN, Initialised(ok)
  PROVE  Good(entry, module, teardown)' /\ Grants(entry, entry')
<1>1. /\ Sound(entry) /\ entry \in Entry /\ entry.turn.phase = "init"
      /\ module' = module /\ teardown' = teardown /\ entry.turn.target
  BY DEF LayerInv, Good, Sound, OfTurn, Enabling, Initialised, Alone
<1>2. CASE ok
  <2> DEFINE i == [entry EXCEPT !.initialized = TRUE]
  <2>1. entry' \in EnableCalls(i)
    BY <1>2 DEF Initialised
  <2>2. i \in Entry
    BY <1>1 DEF Entry
  <2>3. /\ i.registered = entry.registered /\ i.destroying = entry.destroying
        /\ i.enabled = entry.enabled /\ i.uncertain = entry.uncertain
        /\ i.interval = entry.interval /\ i.timers = entry.timers /\ i.chain = entry.chain
        /\ i.epoch = entry.epoch /\ i.records = entry.records /\ i.turn = entry.turn
    BY <1>1 DEF Entry
  <2> HIDE DEF i
  <2>4. Sound(i) /\ Like(entry, i)
    BY <1>1, <2>2, <2>3, MinorLemma
  <2>5. Good(entry', module, teardown) /\ Grants(entry, entry')
    BY <1>1, <2>1, <2>4, EnableCallsLemma
  <2> QED
    BY <1>1, <2>5
<1>3. CASE ~ok
  <2>1. entry' \in {CleanUp(entry), Fail(entry)} /\ Like(entry, entry)
    BY <1>3, RejectedLemma DEF Initialised, Like
  <2>2. Good(entry', module, teardown) /\ Grants(entry, entry')
    BY <1>1, <2>1, CleanUpStep
  <2> QED
    BY <1>1, <2>1, <2>2
<1> QED
  BY <1>2, <1>3

LEMMA EnabledStep ==
  ASSUME LayerInv, NEW ok \in BOOLEAN, Enabled(ok)
  PROVE  Good(entry, module, teardown)' /\ Grants(entry, entry')
<1>1. /\ Sound(entry) /\ entry.turn.phase = "enable" /\ entry.turn.target
      /\ teardown' = teardown /\ Like(entry, entry)
  BY DEF LayerInv, Good, OfTurn, Enabling, Enabled, Undisturbed, Like
<1>2. CASE ok /\ ~entry.turn.aborted
  <2>1. module' = "on" /\ entry' = Await(entry, "update")
    BY <1>2 DEF Enabled, Answered
  <2>2. Good(Await(entry, "update"), "on", teardown) /\ Grants(entry, Await(entry, "update"))
    BY <1>1, AwaitStep
  <2> QED
    BY <1>1, <2>1, <2>2
<1>3. CASE ~(ok /\ ~entry.turn.aborted)
  <2>1. entry' \in {CleanUp(entry), Fail(entry)}
    BY <1>3, RejectedLemma DEF Enabled
  <2>2. Good(entry', module', teardown) /\ Grants(entry, entry')
    BY <1>1, <2>1, CleanUpStep
  <2> QED
    BY <1>1, <2>1, <2>2
<1> QED
  BY <1>2, <1>3

LEMMA FirstUpdatedStep ==
  ASSUME LayerInv, NEW ok \in BOOLEAN, FirstUpdated(ok)
  PROVE  Good(entry, module, teardown)' /\ Grants(entry, entry')
<1>1. /\ Sound(entry) /\ OfTurn(entry) /\ entry \in Entry /\ entry.turn.phase = "update"
      /\ entry.turn.target /\ entry.turn.epoch \in Epoch
      /\ teardown' = teardown /\ module' = module /\ module # "off" /\ Like(entry, entry)
  BY AtWork DEF LayerInv, Good, Agrees, OfTurn, Enabling, FirstUpdated, Alone, Like
<1>2. CASE ok /\ ~entry.turn.aborted
  <2> DEFINE e == Known(entry, TRUE)
  <2>1. PICK s \in Settlements(e) :
          entry' = IF Superseded(s) \/ s.turn.aborted THEN CleanUp(s)
                   ELSE Finished(Looping(s), "granted")
    BY <1>2 DEF FirstUpdated
  <2>2. /\ Sound(e) /\ e.enabled = TRUE /\ ~e.uncertain
        /\ e.registered = entry.registered /\ e.destroying = entry.destroying
        /\ e.records = entry.records /\ e.turn = entry.turn
    BY <1>1, KnownLemma
  <2> HIDE DEF e
  <2>3. Sound(s) /\ Like(e, s)
    BY <2>1, <2>2, SettlementLemma
  <2>4. /\ s.registered = entry.registered /\ s.destroying = entry.destroying
        /\ s.enabled = TRUE /\ ~s.uncertain
        /\ s.turn.epoch = entry.turn.epoch /\ s.turn.target = entry.turn.target
        /\ s.turn.compensation = entry.turn.compensation
        /\ s.records[entry.turn.epoch].want = entry.records[entry.turn.epoch].want
        /\ \A k \in Epoch : s.records[k].answer = "granted" => entry.records[k].answer = "granted"
    BY <1>1, <2>2, <2>3 DEF Like
  <2>5. CASE Superseded(s) \/ s.turn.aborted
    <3> DEFINE f == CleanUp(s)
    <3>1. /\ Sound(f) /\ ~f.interval
          /\ f.registered = s.registered /\ f.destroying = s.destroying
          /\ f.records = s.records
          /\ f.turn.phase \in {"cleanup", "failed"} /\ f.turn.epoch = s.turn.epoch
          /\ f.turn.target = s.turn.target /\ f.turn.compensation = s.turn.compensation
      BY <2>3, CleanUpLemma
    <3>2. f = entry'
      BY <2>1, <2>5
    <3>3. \A p \in {"cleanup", "failed"} : p \in Phase \ Still /\ p \notin Enabling
                                       /\ p # "disable" /\ p # "update"
      BY DEF Phase, Still, Enabling
    <3> HIDE DEF f
    <3>4. Good(f, module, teardown) /\ Grants(entry, f)
      BY <1>1, <2>4, <3>1, <3>3, CallLemma
    <3> QED
      BY <1>1, <3>2, <3>4
  <2>6. CASE ~(Superseded(s) \/ s.turn.aborted)
    <3> DEFINE l == Looping(s)
    <3>1. entry' = Finished(l, "granted") /\ s.epoch = s.turn.epoch
      BY <2>1, <2>6 DEF Superseded
    <3>2. /\ Sound(l) /\ l.registered = s.registered /\ l.destroying = s.destroying
          /\ l.enabled = s.enabled /\ l.uncertain = s.uncertain /\ l.epoch = s.epoch
          /\ l.records = s.records /\ l.turn = s.turn
      BY <2>3, <2>4, LoopingLemma
    <3>3. ~entry.turn.compensation => entry.records[entry.turn.epoch].want = TRUE
      <4>1. entry.turn.target \in BOOLEAN
        BY <1>1 DEF Entry, Turn
      <4> QED
        BY <1>1, <4>1 DEF OfTurn
    <3> HIDE DEF l
    <3>4. Good(Finished(l, "granted"), module, teardown) /\ Grants(entry, Finished(l, "granted"))
      BY <1>1, <2>4, <3>1, <3>2, <3>3, FinishLemma
    <3> QED
      BY <1>1, <3>1, <3>4
  <2> QED
    BY <2>5, <2>6
<1>3. CASE ~(ok /\ ~entry.turn.aborted)
  <2>1. entry' \in {CleanUp(entry), Fail(entry)}
    BY <1>3, RejectedLemma DEF FirstUpdated
  <2>2. Good(entry', module, teardown) /\ Grants(entry, entry')
    BY <1>1, <2>1, CleanUpStep
  <2> QED
    BY <1>1, <2>1, <2>2
<1> QED
  BY <1>2, <1>3

(* The turn ends in what the module confirmed, or in doubt.                    *)
LEMMA ConfirmedStep ==
  ASSUME LayerInv, entry.turn.phase # "idle", NEW b \in BOOLEAN, NEW m,
         m = IF b THEN "on" ELSE "off",
         NEW e, Sound(e), Like(entry, e), b \/ ~e.interval,
         NEW f \in Ends(Known(e, b), "refused")
  PROVE  Good(f, m, teardown) /\ Grants(entry, f)
<1> DEFINE n == Known(e, b)
<1>1. /\ Sound(n) /\ n.enabled = b
      /\ n.registered = e.registered /\ n.destroying = e.destroying
      /\ n.records = e.records /\ n.turn = e.turn
  BY KnownLemma
<1>2. f \in Ends(n, "refused")
  OBVIOUS
<1> HIDE DEF n
<1>3. /\ n.registered = entry.registered /\ n.destroying = entry.destroying
      /\ n.turn.epoch = entry.turn.epoch
      /\ \A k \in Epoch : n.records[k].answer = "granted" => entry.records[k].answer = "granted"
      /\ (~n.enabled => m = "off") /\ (n.enabled /\ ~n.uncertain /\ teardown = "idle" => m # "off")
  BY <1>1 DEF Like
<1> QED
  BY <1>1, <1>2, <1>3, RefuseLemma

LEMMA DoubtStep ==
  ASSUME LayerInv, entry.turn.phase # "idle", NEW m, NEW f \in Ends(Unknown(entry), "refused")
  PROVE  Good(f, m, teardown) /\ Grants(entry, f)
<1> DEFINE n == Unknown(entry)
<1>1. Sound(entry)
  BY AtWork
<1>2. /\ Sound(n) /\ n.enabled /\ n.uncertain
      /\ n.registered = entry.registered /\ n.destroying = entry.destroying
      /\ n.records = entry.records /\ n.turn = entry.turn
  BY <1>1, UnknownLemma
<1>3. f \in Ends(n, "refused")
  OBVIOUS
<1> HIDE DEF n
<1>4. /\ n.turn.epoch = entry.turn.epoch
      /\ \A k \in Epoch : n.records[k].answer = "granted" => entry.records[k].answer = "granted"
      /\ (~n.enabled => m = "off") /\ (n.enabled /\ ~n.uncertain /\ teardown = "idle" => m # "off")
  BY <1>2
<1> QED
  BY <1>2, <1>3, <1>4, RefuseLemma

LEMMA CleanedUpStep ==
  ASSUME LayerInv, NEW ok \in BOOLEAN, CleanedUp(ok)
  PROVE  Good(entry, module, teardown)' /\ Grants(entry, entry')
<1>1. /\ Sound(entry) /\ entry.turn.phase = "cleanup" /\ ~entry.interval
      /\ teardown' = teardown /\ Like(entry, entry)
  BY DEF LayerInv, Good, OfTurn, CleanedUp, Undisturbed, Like
<1>2. CASE ok
  <2>1. module' = "off" /\ entry' \in Ends(Known(entry, FALSE), "refused")
    BY <1>2 DEF CleanedUp, Answered
  <2>2. Good(entry', "off", teardown) /\ Grants(entry, entry')
    BY <1>1, <2>1, ConfirmedStep
  <2> QED
    BY <1>1, <2>1, <2>2
<1>3. CASE ~ok
  <2>1. entry' \in Ends(Unknown(entry), "refused")
    BY <1>3 DEF CleanedUp
  <2>2. Good(entry', module', teardown) /\ Grants(entry, entry')
    BY <1>1, <2>1, DoubtStep
  <2> QED
    BY <1>1, <2>2
<1> QED
  BY <1>2, <1>3

LEMMA FailureCleanedUpStep ==
  ASSUME LayerInv, NEW ok \in BOOLEAN, FailureCleanedUp(ok)
  PROVE  Good(entry, module, teardown)' /\ Grants(entry, entry')
<1>1. /\ Sound(entry) /\ entry.turn.phase = "failed" /\ ~entry.interval
      /\ teardown' = teardown /\ (ok => module' = "off")
  BY DEF LayerInv, Good, OfTurn, FailureCleanedUp, Answered, Undisturbed
<1> DEFINE e == IF ok THEN Known(entry, FALSE) ELSE Unknown(entry)
<1>2. /\ Sound(e) /\ (~e.enabled => module' = "off") /\ (e.enabled => e.uncertain)
      /\ e.registered = entry.registered /\ e.destroying = entry.destroying
      /\ e.records = entry.records /\ e.turn = entry.turn
  <2>1. CASE ok
    BY <1>1, <2>1, KnownLemma
  <2>2. CASE ~ok
    BY <1>1, <2>2, UnknownLemma
  <2> QED
    BY <2>1, <2>2
<1>8. PICK s \in Settlements(e) :
        \E r \in Reentries(s) \cup {s} : entry' = Finished(r, "refused")
  BY DEF FailureCleanedUp
<1>3. PICK r \in Reentries(s) \cup {s} : entry' = Finished(r, "refused")
  BY <1>8
<1> HIDE DEF e
<1>4. Sound(s) /\ Like(e, s)
  BY <1>2, <1>8, SettlementLemma
<1>5. Sound(r) /\ Like(s, r)
  <2>1. CASE r = s
    BY <1>4, <2>1 DEF Like
  <2>2. CASE r \in Reentries(s)
    BY <1>4, <2>2, ReentryLemma
  <2> QED
    BY <1>3, <2>1, <2>2
<1>6. /\ r.registered = entry.registered /\ r.destroying = entry.destroying
      /\ r.turn.epoch = entry.turn.epoch
      /\ \A k \in Epoch : r.records[k].answer = "granted" => entry.records[k].answer = "granted"
      /\ (~r.enabled => module' = "off") /\ (r.enabled => r.uncertain)
  BY <1>2, <1>4, <1>5 DEF Like
<1>7. /\ Good(Finished(r, "refused"), module', teardown)
      /\ Grants(entry, Finished(r, "refused"))
  BY <1>1, <1>5, <1>6, FinishLemma
<1> QED
  BY <1>1, <1>3, <1>7

LEMMA StrayDisabledStep ==
  ASSUME LayerInv, StrayDisabled
  PROVE  Good(entry, module, teardown)' /\ Grants(entry, entry')
<1>1. /\ Good(entry, module, teardown) /\ Sound(entry) /\ entry \in Entry
      /\ entry' = [entry EXCEPT !.strays = entry.strays - 1] /\ entry.strays - 1 \in Nat
      /\ teardown' = teardown
  BY DEF LayerInv, Good, Sound, StrayDisabled, Undisturbed, Entry
<1>2. module = "off" <=> module' = "off"
  BY DEF StrayDisabled
<1> DEFINE f == [entry EXCEPT !.strays = entry.strays - 1]
<1>3. f \in Entry
  BY <1>1 DEF Entry
<1>4. /\ f.registered = entry.registered /\ f.destroying = entry.destroying
      /\ f.enabled = entry.enabled /\ f.uncertain = entry.uncertain
      /\ f.interval = entry.interval /\ f.timers = entry.timers /\ f.chain = entry.chain
      /\ f.epoch = entry.epoch /\ f.records = entry.records /\ f.turn = entry.turn
  BY <1>1 DEF Entry
<1> HIDE DEF f
<1>5. Sound(f) /\ Like(entry, f)
  BY <1>1, <1>3, <1>4, MinorLemma
<1>6. Good(entry, module', teardown)
  BY <1>1, <1>2 DEF Good, Agrees
<1>7. Good(f, module', teardown) /\ Grants(entry, f)
  BY <1>4, <1>5, <1>6, LikeInv
<1> QED
  BY <1>1, <1>7 DEF f

LEMMA DisabledRejectedStep ==
  ASSUME LayerInv, NEW aborts \in BOOLEAN, DisabledRejected(aborts)
  PROVE  Good(entry, module, teardown)' /\ Grants(entry, entry')
<1>1. entry.turn.phase = "disable" /\ teardown' = teardown
  BY DEF DisabledRejected, Undisturbed
<1>2. CASE aborts \/ entry.turn.aborted
  <2>1. entry' = Await(entry, "reenable")
    BY <1>2 DEF DisabledRejected
  <2>2. Good(Await(entry, "reenable"), module', teardown)
        /\ Grants(entry, Await(entry, "reenable"))
    BY <1>1, AwaitStep
  <2> QED
    BY <1>1, <2>1, <2>2
<1>3. CASE ~(aborts \/ entry.turn.aborted)
  <2>1. entry' \in Ends(Unknown(entry), "refused")
    BY <1>3 DEF DisabledRejected
  <2>2. Good(entry', module', teardown) /\ Grants(entry, entry')
    BY <1>1, <2>1, DoubtStep
  <2> QED
    BY <1>1, <2>2
<1> QED
  BY <1>2, <1>3

LEMMA DisabledStep ==
  ASSUME LayerInv, Disabled
  PROVE  Good(entry, module, teardown)' /\ Grants(entry, entry')
<1>1. /\ Sound(entry) /\ OfTurn(entry) /\ entry \in Entry /\ entry.turn.phase = "disable"
      /\ ~entry.turn.target /\ entry.turn.epoch \in Epoch
      /\ teardown' = teardown /\ module' = "off"
  BY AtWork DEF LayerInv, Good, OfTurn, Disabled, Answered, Undisturbed
<1>2. CASE entry.turn.aborted
  <2>1. entry' = Await(entry, "reenable")
    BY <1>2 DEF Disabled
  <2>2. Good(Await(entry, "reenable"), module', teardown)
        /\ Grants(entry, Await(entry, "reenable"))
    BY <1>1, AwaitStep
  <2> QED
    BY <1>1, <2>1, <2>2
<1>3. CASE ~entry.turn.aborted
  <2> DEFINE c == ClearTimer(entry)
             e == Known(c, FALSE)
  <2>1. PICK s \in Settlements(e) :
          entry' = IF Superseded(s) \/ s.turn.aborted THEN Await(s, "reenable")
                   ELSE Finished(s, "granted")
    BY <1>3 DEF Disabled
  <2>2. /\ Sound(c) /\ ~c.interval /\ Like(entry, c) /\ c.turn = entry.turn
        /\ c.records = entry.records
    BY <1>1, ClearLemma
  <2> HIDE DEF c
  <2>3. /\ Sound(e) /\ e.enabled = FALSE /\ ~e.uncertain
        /\ e.registered = c.registered /\ e.destroying = c.destroying
        /\ e.records = c.records /\ e.turn = c.turn
    BY <2>2, KnownLemma
  <2> HIDE DEF e
  <2>4. Sound(s) /\ Like(e, s)
    BY <2>1, <2>3, SettlementLemma
  <2>5. /\ s.registered = entry.registered /\ s.destroying = entry.destroying
        /\ s.enabled = FALSE /\ ~s.uncertain
        /\ s.turn.epoch = entry.turn.epoch /\ s.turn.target = entry.turn.target
        /\ s.turn.compensation = entry.turn.compensation
        /\ s.records[entry.turn.epoch].want = entry.records[entry.turn.epoch].want
        /\ \A k \in Epoch : s.records[k].answer = "granted" => entry.records[k].answer = "granted"
    BY <1>1, <2>2, <2>3, <2>4 DEF Like
  <2>6. CASE Superseded(s) \/ s.turn.aborted
    <3> DEFINE f == Await(s, "reenable")
    <3>1. "reenable" \in Phase /\ "reenable" \in Phase \ Still /\ "reenable" \notin Enabling
      BY DEF Phase, Still, Enabling
    <3>2. /\ Sound(f) /\ f.registered = s.registered /\ f.destroying = s.destroying
          /\ f.records = s.records
          /\ f.turn.phase = "reenable" /\ f.turn.epoch = s.turn.epoch
          /\ f.turn.target = s.turn.target /\ f.turn.compensation = s.turn.compensation
      BY <2>4, <3>1, AwaitLemma
    <3>3. f = entry'
      BY <2>1, <2>6
    <3> HIDE DEF f
    <3>4. Good(f, "off", teardown) /\ Grants(entry, f)
      BY <1>1, <2>5, <3>1, <3>2, CallLemma
    <3> QED
      BY <1>1, <3>3, <3>4
  <2>7. CASE ~(Superseded(s) \/ s.turn.aborted)
    <3>1. entry' = Finished(s, "granted") /\ s.epoch = s.turn.epoch
      BY <2>1, <2>7 DEF Superseded
    <3>2. ~entry.turn.compensation => entry.records[entry.turn.epoch].want = FALSE
      <4>1. entry.turn.target \in BOOLEAN
        BY <1>1 DEF Entry, Turn
      <4> QED
        BY <1>1, <4>1 DEF OfTurn
    <3>3. Good(Finished(s, "granted"), "off", teardown) /\ Grants(entry, Finished(s, "granted"))
      BY <1>1, <2>4, <2>5, <3>1, <3>2, FinishLemma
    <3> QED
      BY <1>1, <3>1, <3>3
  <2> QED
    BY <2>6, <2>7
<1> QED
  BY <1>2, <1>3

LEMMA ReenabledStep ==
  ASSUME LayerInv, NEW ok \in BOOLEAN, Reenabled(ok)
  PROVE  Good(entry, module, teardown)' /\ Grants(entry, entry')
<1>1. /\ Sound(entry) /\ entry.turn.phase = "reenable" /\ teardown' = teardown
      /\ Like(entry, entry)
  BY DEF LayerInv, Good, Reenabled, Undisturbed, Like
<1>2. CASE ok
  <2>1. module' = "on" /\ entry' \in Ends(Known(entry, TRUE), "refused")
    BY <1>2 DEF Reenabled, Answered
  <2>2. Good(entry', "on", teardown) /\ Grants(entry, entry')
    BY <1>1, <2>1, ConfirmedStep
  <2> QED
    BY <1>1, <2>1, <2>2
<1>3. CASE ~ok
  <2>1. entry' = Await(entry, "redisable")
    BY <1>3 DEF Reenabled
  <2>2. Good(Await(entry, "redisable"), module', teardown)
        /\ Grants(entry, Await(entry, "redisable"))
    BY <1>1, AwaitStep
  <2> QED
    BY <1>1, <2>1, <2>2
<1> QED
  BY <1>2, <1>3

LEMMA RedisabledStep ==
  ASSUME LayerInv, NEW ok \in BOOLEAN, Redisabled(ok)
  PROVE  Good(entry, module, teardown)' /\ Grants(entry, entry')
<1>1. Sound(entry) /\ entry.turn.phase = "redisable" /\ teardown' = teardown
  BY DEF LayerInv, Good, Redisabled, Undisturbed
<1>2. CASE ok
  <2> DEFINE c == ClearTimer(entry)
  <2>1. module' = "off" /\ entry' \in Ends(Known(c, FALSE), "refused")
    BY <1>2 DEF Redisabled, Answered
  <2>2. Sound(c) /\ Like(entry, c) /\ ~c.interval
    BY <1>1, ClearLemma
  <2> HIDE DEF c
  <2>3. Good(entry', "off", teardown) /\ Grants(entry, entry')
    BY <1>1, <2>1, <2>2, ConfirmedStep
  <2> QED
    BY <1>1, <2>1, <2>3
<1>3. CASE ~ok
  <2>1. entry' \in Ends(Unknown(entry), "refused")
    BY <1>3 DEF Redisabled
  <2>2. Good(entry', module', teardown) /\ Grants(entry, entry')
    BY <1>1, <2>1, DoubtStep
  <2> QED
    BY <1>1, <2>2
<1> QED
  BY <1>2, <1>3

--------------------------------------------------------------------------------
(* The inductive invariant.                                                    *)

LEMMA InitHolds == Init => LayerInv
<1> SUFFICES ASSUME Init PROVE LayerInv
  OBVIOUS
<1> USE LayerAssumption DEF LayerAssumption
<1> DEFINE rs == [k \in Epoch |-> [want |-> FALSE, answer |-> "none"]]
<1>1. entry = [registered |-> TRUE, destroying |-> FALSE,
               enabled |-> FALSE, initialized |-> FALSE, uncertain |-> FALSE,
               lifecycle |-> "disabled",
               interval |-> FALSE, timers |-> 0, refreshing |-> FALSE, updating |-> FALSE,
               strays |-> 0, epoch |-> 0, want |-> FALSE, queued |-> NoQueued,
               adopt |-> 0, reserved |-> 0,
               records |-> rs, chain |-> <<>>, turn |-> NoTurn]
  BY DEF Init
<1>2. module = "off" /\ withdrawn = {} /\ clearing = NoClear /\ teardown = "idle"
  BY DEF Init
<1>3. /\ NoQueued \in Queued /\ NoTurn \in Turn
      /\ NoTurn.phase = "idle" /\ NoTurn.epoch = 0
  BY DEF NoQueued, Queued, NoTurn, Turn, Phase
<1>4. rs \in [Epoch -> Record]
  BY DEF Record
<1>5. <<>> \in Seq(Epoch) /\ Len(<<>>) = 0
  OBVIOUS
<1>6. entry \in Entry
  <2> HIDE DEF rs
  <2> QED
    BY <1>1, <1>3, <1>4, <1>5 DEF Entry
<1>7. TypeOK
  BY <1>2, <1>6 DEF TypeOK, NoClear
<1>8. /\ entry.registered /\ ~entry.destroying /\ ~entry.enabled /\ ~entry.uncertain
      /\ ~entry.interval /\ entry.timers = 0 /\ entry.epoch = 0
      /\ entry.chain = <<>> /\ entry.turn = NoTurn
  BY <1>1
<1>9. Sound(entry)
  BY <1>3, <1>5, <1>6, <1>8 DEF Sound
<1>10. OfTurn(entry)
  BY <1>3, <1>8 DEF OfTurn, Enabling
<1>11. Agrees(entry, module, teardown)
  BY <1>2, <1>3, <1>8 DEF Agrees
<1> QED
  BY <1>7, <1>9, <1>10, <1>11 DEF LayerInv, Good

(* One case per action of the next-state relation.                             *)
LEMMA ActionHolds ==
  ASSUME LayerInv, Next
  PROVE  Good(entry, module, teardown)' /\ Grants(entry, entry')
<1>1. ASSUME NEW want \in BOOLEAN, SetEnabled(want)
      PROVE  Good(entry, module, teardown)' /\ Grants(entry, entry')
  BY <1>1, RequestStep DEF SetEnabled, Alone
<1>2. CASE ClearRequest
  BY <1>2, RequestStep DEF ClearRequest
<1>3. CASE Callers
  BY <1>1, <1>2, <1>3, OvertakenStep, WithdrawStep, MinorStep, DestroyStep DEF Callers
<1>4. CASE Work
  <2>1. CASE \/ SupersededTurn \/ WithdrawnTurn \/ AdoptionTurn \/ IdempotentTurn \/ ToggleTurn
             \/ AdoptionOvertaken \/ AdoptionWithdrawn \/ AdoptionBlocked \/ Adopted
             \/ GuardRefuses \/ GuardPasses \/ AbortCleanupSettles \/ Disabled \/ Drained
    BY <2>1, SupersededStep, WithdrawnStep, IdempotentStep, BeginStep, AdoptionEndedStep,
       AdoptionBlockedStep, AdoptedStep, GuardRefusesStep, GuardPassesStep, MinorStep,
       DisabledStep, DrainedStep
  <2>2. CASE \E ok \in BOOLEAN : Initialised(ok) \/ Enabled(ok) \/ FirstUpdated(ok)
    BY <2>2, InitialisedStep, EnabledStep, FirstUpdatedStep
  <2>3. CASE \E ok \in BOOLEAN : CleanedUp(ok) \/ FailureCleanedUp(ok)
    BY <2>3, CleanedUpStep, FailureCleanedUpStep
  <2>4. CASE \E aborts \in BOOLEAN : DisabledRejected(aborts)
    BY <2>4, DisabledRejectedStep
  <2>5. CASE \E ok \in BOOLEAN : Reenabled(ok) \/ Redisabled(ok)
    BY <2>5, ReenabledStep, RedisabledStep
  <2>6. CASE \E ok \in BOOLEAN : DestroyDisabled(ok) \/ Destroyed(ok)
    BY <2>6, DestroyDisabledStep, DestroyedStep
  <2> QED
    BY <1>4, <2>1, <2>2, <2>3, <2>4, <2>5, <2>6 DEF Work
<1>5. CASE Refreshed \/ StrayDisabled
  BY <1>5, MinorStep, StrayDisabledStep
<1> QED
  BY <1>3, <1>4, <1>5 DEF Next

(* The variables other than the entry.                                         *)
LEMMA TypesHold ==
  ASSUME LayerInv, Next, Sound(entry')
  PROVE  TypeOK'
<1>1. /\ TypeOK /\ entry \in Entry /\ entry' \in Entry
      /\ entry.epoch \in 0..MaxEpoch /\ entry'.epoch \in 0..MaxEpoch
  BY DEF LayerInv, Good, Sound, Entry
<1>2. module' \in {"on", "off", "revoked"}
  <2>1. ASSUME NEW ok \in BOOLEAN, NEW effect \in {"on", "off"}, Answered(ok, effect)
        PROVE  module' \in {"on", "off", "revoked"}
    BY <1>1, <2>1 DEF Answered, TypeOK
  <2>2. CASE module' = module
    BY <1>1, <2>2 DEF TypeOK
  <2>3. CASE Callers \/ Refreshed
    BY <2>2, <2>3 DEF Callers, SetEnabled, SetEnabledOvertaken, Withdraw, ClearReserve,
       ClearRequest, ClearRelease, DestroyLayer, Refresh, Refreshed, Alone
  <2>4. CASE Work
    BY <2>1, <2>2, <2>4 DEF Work, SupersededTurn, WithdrawnTurn, AdoptionTurn, IdempotentTurn,
       ToggleTurn, AdoptionOvertaken, AdoptionWithdrawn, AdoptionBlocked, Adopted, GuardRefuses,
       GuardPasses, Initialised, Enabled, FirstUpdated, AbortCleanupSettles, CleanedUp, FailureCleanedUp,
       DisabledRejected, Disabled, Reenabled, Redisabled, Drained, DestroyDisabled, Destroyed,
       Alone
  <2>5. CASE StrayDisabled
    BY <1>1, <2>5 DEF StrayDisabled, TypeOK
  <2> QED
    BY <2>3, <2>4, <2>5 DEF Next
<1>3. withdrawn' \subseteq Epoch
  <2>1. CASE withdrawn' = withdrawn
    BY <1>1, <2>1 DEF TypeOK
  <2>2. CASE Callers \/ Refreshed
    BY <1>1, <2>1, <2>2 DEF Callers, SetEnabled, SetEnabledOvertaken, Withdraw, ClearReserve,
       ClearRequest, ClearRelease, DestroyLayer, Refresh, Refreshed, Alone, TypeOK
  <2>3. CASE Work
    BY <2>1, <2>3 DEF Work, SupersededTurn, WithdrawnTurn, AdoptionTurn, IdempotentTurn,
       ToggleTurn, AdoptionOvertaken, AdoptionWithdrawn, AdoptionBlocked, Adopted, GuardRefuses,
       GuardPasses, Initialised, Enabled, FirstUpdated, AbortCleanupSettles, CleanedUp, FailureCleanedUp,
       DisabledRejected, Disabled, Reenabled, Redisabled, Drained, DestroyDisabled, Destroyed,
       Alone, Undisturbed
  <2>8. CASE StrayDisabled
    BY <2>1, <2>8 DEF StrayDisabled, Undisturbed
  <2> QED
    BY <2>2, <2>3, <2>8 DEF Next
<1>4. clearing' \in [phase : {"idle", "reserved", "waiting"}, epoch : 0..MaxEpoch]
  <2>1. CASE clearing' = clearing
    BY <1>1, <2>1 DEF TypeOK
  <2>2. 0 \in 0..MaxEpoch
    BY LayerAssumption DEF LayerAssumption
  <2>3. CASE ClearReserve
    BY <1>1, <2>3 DEF ClearReserve
  <2>4. CASE ClearRequest
    BY <1>1, <2>4 DEF ClearRequest
  <2>5. CASE ClearRelease
    BY <2>2, <2>5 DEF ClearRelease, NoClear
  <2>6. CASE Callers \/ Refreshed
    BY <2>1, <2>3, <2>4, <2>5, <2>6 DEF Callers, SetEnabled, SetEnabledOvertaken, Withdraw,
       DestroyLayer, Refresh, Refreshed, Alone
  <2>7. CASE Work
    BY <2>1, <2>7 DEF Work, SupersededTurn, WithdrawnTurn, AdoptionTurn, IdempotentTurn,
       ToggleTurn, AdoptionOvertaken, AdoptionWithdrawn, AdoptionBlocked, Adopted, GuardRefuses,
       GuardPasses, Initialised, Enabled, FirstUpdated, AbortCleanupSettles, CleanedUp, FailureCleanedUp,
       DisabledRejected, Disabled, Reenabled, Redisabled, Drained, DestroyDisabled, Destroyed,
       Alone, Undisturbed
  <2>8. CASE StrayDisabled
    BY <2>1, <2>8 DEF StrayDisabled, Undisturbed
  <2> QED
    BY <2>6, <2>7, <2>8 DEF Next
<1>5. teardown' \in {"idle", "drain", "disable", "destroy", "rejected", "gone"}
  <2>1. CASE teardown' = teardown
    BY <1>1, <2>1 DEF TypeOK
  <2>2. CASE Callers \/ Refreshed
    BY <2>1, <2>2 DEF Callers, SetEnabled, SetEnabledOvertaken, Withdraw, ClearReserve,
       ClearRequest, ClearRelease, DestroyLayer, Refresh, Refreshed, Alone
  <2>3. CASE Work
    BY <2>1, <2>3 DEF Work, SupersededTurn, WithdrawnTurn, AdoptionTurn, IdempotentTurn,
       ToggleTurn, AdoptionOvertaken, AdoptionWithdrawn, AdoptionBlocked, Adopted, GuardRefuses,
       GuardPasses, Initialised, Enabled, FirstUpdated, AbortCleanupSettles, CleanedUp, FailureCleanedUp,
       DisabledRejected, Disabled, Reenabled, Redisabled, Drained, DestroyDisabled, Destroyed,
       Alone, Undisturbed
  <2>8. CASE StrayDisabled
    BY <2>1, <2>8 DEF StrayDisabled, Undisturbed
  <2> QED
    BY <2>2, <2>3, <2>8 DEF Next
<1> QED
  BY <1>1, <1>2, <1>3, <1>4, <1>5 DEF TypeOK

LEMMA StepHolds == LayerInv /\ [Next]_vars => LayerInv' /\ (Grants(entry, entry') \/ UNCHANGED vars)
<1> SUFFICES ASSUME LayerInv, [Next]_vars
             PROVE  LayerInv' /\ (Grants(entry, entry') \/ UNCHANGED vars)
  OBVIOUS
<1>1. CASE Next
  <2>1. Good(entry, module, teardown)' /\ Grants(entry, entry')
    BY <1>1, ActionHolds
  <2>2. Sound(entry')
    BY <2>1 DEF Good
  <2>3. TypeOK'
    BY <1>1, <2>2, TypesHold
  <2> QED
    BY <2>1, <2>3 DEF LayerInv
<1>2. CASE UNCHANGED vars
  BY <1>2 DEF vars, LayerInv, TypeOK, Good, Sound, OfTurn, Agrees
<1> QED
  BY <1>1, <1>2

--------------------------------------------------------------------------------
(* The theorems.                                                               *)

(* What every step keeps: the entry is sound, its turn is about its request,   *)
(* and it agrees with the module whenever no call is under way.                *)
LEMMA Inductive == Spec => []LayerInv
<1>1. LayerInv /\ [Next]_vars => LayerInv'
  BY StepHolds
<1> QED
  BY InitHolds, <1>1, PTL DEF Spec

(* Every variable keeps its type, for any number of requests, destructions and *)
(* withdrawals.                                                                *)
THEOREM TypeCorrect == Spec => []TypeOK
<1>1. LayerInv => TypeOK
  BY DEF LayerInv
<1> QED
  BY Inductive, <1>1, PTL

(* When no work is left, a layer that is certainly OFF has a module that is    *)
(* off, and one that is certainly ON has a module that no turn has turned off: *)
(* the compensations of _doToggle() never lose it, and nothing does but a      *)
(* disable() that the abort of a failed enable left to itself.                 *)
THEOREM SettledIsTheModule == Spec => []SettledIsTrue
<1>1. LayerInv => SettledIsTrue
  <2> SUFFICES ASSUME LayerInv, AtRest, ~entry.uncertain, teardown # "rejected"
               PROVE  module \in IF entry.enabled THEN {"on", "revoked"} ELSE {"off"}
    BY DEF SettledIsTrue
  <2>1. Agrees(entry, module, teardown) /\ module \in {"on", "off", "revoked"}
    BY DEF LayerInv, Good, TypeOK
  <2>2. entry.turn.phase \in Still /\ teardown = "idle"
    BY <2>1 DEF AtRest, Still, Agrees
  <2>3. CASE entry.enabled
    BY <2>1, <2>2, <2>3 DEF Agrees
  <2>4. CASE ~entry.enabled
    BY <2>1, <2>2, <2>4 DEF Agrees
  <2> QED
    BY <2>3, <2>4
<1> QED
  BY Inductive, <1>1, PTL

(* A layer never polls twice, and a layer that is settled off never polls.     *)
THEOREM LoopIsSingle == Spec => []OneLoop
<1>1. LayerInv => OneLoop
  BY DEF LayerInv, Good, Sound, OneLoop
<1> QED
  BY Inductive, <1>1, PTL

(* A layer that destroyLayer() has removed leaves nothing at work behind it.   *)
THEOREM GoneLeavesNothing == Spec => []GoneIsQuiet
<1>1. LayerInv => GoneIsQuiet
  <2> SUFFICES ASSUME LayerInv, ~entry.registered
               PROVE  /\ module = "off" /\ entry.timers = 0
                      /\ entry.turn = NoTurn /\ entry.chain = <<>>
    BY DEF GoneIsQuiet
  <2>1. Sound(entry) /\ OfTurn(entry) /\ Agrees(entry, module, teardown)
    BY DEF LayerInv, Good
  <2>2. teardown = "gone" /\ ~entry.enabled /\ entry.turn.phase = "idle" /\ entry.chain = <<>>
    BY <2>1 DEF Agrees
  <2>3. module = "off" /\ entry.turn = NoTurn
    BY <2>1, <2>2 DEF Agrees, OfTurn, Still
  <2> QED
    BY <2>1, <2>2, <2>3 DEF Sound
<1> QED
  BY Inductive, <1>1, PTL

(* No request is granted that was superseded while its turn was at work, or    *)
(* whose state the layer does not certainly have.                              *)
THEOREM OnlyTheNewestIsGranted == Spec => GrantedToTheNewest
<1> DEFINE Granted == \A k \in Epoch :
                        Answer(k) = "pending" /\ Answer(k)' = "granted"
                          => /\ entry'.enabled = entry.records[k].want
                             /\ ~entry'.uncertain
                             /\ entry.turn.epoch = k => entry'.epoch = k
<1>1. LayerInv /\ [Next]_vars => [Granted]_vars
  <2> SUFFICES ASSUME LayerInv, [Next]_vars, ~UNCHANGED vars PROVE Granted
    OBVIOUS
  <2>1. Grants(entry, entry')
    BY StepHolds
  <2> QED
    BY <2>1 DEF Grants, Answer
<1> QED
  BY Inductive, <1>1, PTL DEF Spec, GrantedToTheNewest

--------------------------------------------------------------------------------
(* The effective visibility.                                                   *)

(* What the newest request, or the compensation made for it, works towards.    *)
Wanted(e) == e.records[e.epoch].want # (e.turn.epoch = e.epoch /\ e.turn.compensation)

(* The newest request speaks for the layer until it is answered: it is the     *)
(* queued one. No request has the epoch of a destruction.                      *)
Speaks(e) ==
  /\ \A k \in Epoch : e.epoch < k => e.records[k].answer = "none"
  /\ e.epoch \in Epoch /\ e.records[e.epoch].answer = "pending" =>
       /\ e.queued.epoch = e.epoch /\ e.queued.want = Wanted(e)
       /\ ~e.destroying

Told(e) == Sound(e) /\ Speaks(e)

(* Nothing that is said of requests changes.                                   *)
Same(e, f) ==
  /\ f.epoch = e.epoch /\ f.records = e.records /\ f.queued = e.queued
  /\ f.destroying => e.destroying
  /\ f.turn.epoch = e.turn.epoch /\ f.turn.compensation = e.turn.compensation

LEMMA SameTold ==
  ASSUME NEW e, Told(e), NEW f, Sound(f), Same(e, f)
  PROVE  Told(f)
<1>1. Wanted(f) = Wanted(e)
  BY DEF Same, Wanted
<1> QED
  BY <1>1 DEF Told, Speaks, Same

LEMMA SameFields ==
  ASSUME NEW e, Sound(e)
  PROVE  /\ Same(e, ClearTimer(e)) /\ Same(e, AbortTurn(e)) /\ Same(e, Looping(e))
         /\ Same(e, InvalidateRefresh(e)) /\ Same(e, Settled(e)) /\ Same(e, Moving(e))
         /\ Same(e, Unknown(e)) /\ \A b \in BOOLEAN : Same(e, Known(e, b))
         /\ \A phase \in Phase : Same(e, Await(e, phase))
         /\ \A k \in Epoch : Same(e, Enqueue(e, k))
         /\ \A k \in 0..MaxEpoch : Same(e, [e EXCEPT !.adopt = k])
<1>1. e \in Entry
  BY DEF Sound
<1> USE DEF Same
<1>2. Same(e, ClearTimer(e))
  BY <1>1 DEF ClearTimer, Entry
<1>3. Same(e, AbortTurn(e))
  <2>1. CASE ~Active(e) \/ e.turn.aborted
    BY <2>1 DEF AbortTurn
  <2>2. CASE ~(~Active(e) \/ e.turn.aborted) /\ e.turn.phase \in Enabling
    <3> DEFINE c == ClearTimer(e)
    <3>1. AbortTurn(e) = [c EXCEPT !.turn.aborted = TRUE, !.turn.awaited = TRUE]
      BY <2>2 DEF AbortTurn
    <3>2. c \in Entry
      BY ClearLemma DEF Sound
    <3>3. Same(e, c)
      BY <1>2
    <3> HIDE DEF c
    <3> DEFINE f == [c EXCEPT !.turn.aborted = TRUE, !.turn.awaited = TRUE]
    <3>4. /\ f.epoch = c.epoch /\ f.records = c.records /\ f.queued = c.queued
          /\ f.destroying = c.destroying
      BY <3>2 DEF Entry
    <3>5. f.turn.epoch = c.turn.epoch /\ f.turn.compensation = c.turn.compensation
      BY <3>2 DEF Entry, Turn
    <3> HIDE DEF f
    <3> QED
      BY <3>1, <3>3, <3>4, <3>5 DEF f
  <2>3. CASE ~(~Active(e) \/ e.turn.aborted) /\ e.turn.phase \notin Enabling
    <3>1. PICK n \in Nat : AbortTurn(e) = [e EXCEPT !.turn.aborted = TRUE, !.strays = n]
      BY <1>1, <2>3, AbortedLemma
    <3> QED
      BY <1>1, <3>1 DEF Entry, Turn
  <2> QED
    BY <2>1, <2>2, <2>3
<1>4. Same(e, Looping(e))
  <2> DEFINE c == ClearTimer(e)
  <2>1. c \in Entry /\ Same(e, c)
    BY <1>2, ClearLemma DEF Sound
  <2>2. Looping(e) = [c EXCEPT !.interval = TRUE, !.timers = @ + 1]
    BY DEF Looping, ArmUpdateLoop
  <2> HIDE DEF c
  <2>3. Same(c, Looping(e))
    BY <2>1, <2>2 DEF Entry
  <2> QED
    BY <2>1, <2>3
<1>5. Same(e, InvalidateRefresh(e)) /\ Same(e, Settled(e)) /\ Same(e, Moving(e))
  BY <1>1 DEF InvalidateRefresh, Settled, Moving, Entry
<1>6. Same(e, Unknown(e)) /\ \A b \in BOOLEAN : Same(e, Known(e, b))
  BY <1>1 DEF Unknown, Known, Entry
<1>7. \A phase \in Phase : Same(e, Await(e, phase))
  BY <1>1 DEF Await, Entry, Turn
<1>8. \A k \in Epoch : Same(e, Enqueue(e, k))
  BY <1>1 DEF Enqueue, Entry
<1>9. \A k \in 0..MaxEpoch : Same(e, [e EXCEPT !.adopt = k])
  BY <1>1 DEF Entry
<1> QED
  BY <1>2, <1>3, <1>4, <1>5, <1>6, <1>7, <1>8, <1>9

(* The same for all the operators that take no part in the requests.           *)
LEMMA OperatorsTold ==
  ASSUME NEW e, Told(e)
  PROVE  /\ Told(ClearTimer(e)) /\ Told(AbortTurn(e)) /\ Told(Settled(e)) /\ Told(Moving(e))
         /\ Told(Unknown(e)) /\ Told(Deferred(e))
         /\ Told(CleanUp(e)) /\ Told(Fail(e))
         /\ e.enabled => Told(Looping(e))
         /\ \A b \in BOOLEAN : b \/ ~e.interval => Told(Known(e, b))
         /\ \A phase \in Phase : Told(Await(e, phase))
         /\ \A k \in Epoch : k <= e.epoch => Told(Enqueue(e, k))
         /\ \A k \in 0..MaxEpoch : Told([e EXCEPT !.adopt = k])
<1>1. Sound(e)
  BY DEF Told
<1>2. /\ Sound(ClearTimer(e)) /\ Sound(AbortTurn(e)) /\ Sound(Settled(e)) /\ Sound(Moving(e))
      /\ Sound(Unknown(e)) /\ (e.enabled => Sound(Looping(e)))
  BY <1>1, ClearLemma, AbortLemma, SettledLemma, MovingLemma, UnknownLemma, LoopingLemma
<1>3. /\ \A b \in BOOLEAN : b \/ ~e.interval => Sound(Known(e, b))
      /\ \A phase \in Phase : Sound(Await(e, phase))
      /\ \A k \in Epoch : k <= e.epoch => Sound(Enqueue(e, k))
      /\ \A k \in 0..MaxEpoch : Sound([e EXCEPT !.adopt = k])
  <2>1. "enabled" \in {"enabled", "enabling", "disabled", "disabling"}
    OBVIOUS
  <2> QED
    BY <1>1, <2>1, KnownLemma, AwaitLemma, EnqueueLemma, PresentedLemma
<1>4. Told(ClearTimer(e)) /\ Told(Moving(e))
  BY <1>1, <1>2, SameFields, SameTold
<1>5. ASSUME NEW f \in {CleanUp(e), Fail(e)} PROVE Told(f)
  <2>1. Sound(ClearTimer(e)) /\ "cleanup" \in Phase /\ "failed" \in Phase
    BY <1>2 DEF Phase
  <2>2. Same(ClearTimer(e), f) /\ Sound(f)
    BY <1>1, <2>1, SameFields, CleanUpLemma DEF CleanUp, Fail
  <2> QED
    BY <1>4, <2>2, SameTold
<1>6. Told(Deferred(e))
  <2> DEFINE m == Moving(e)
  <2>1. Sound(m) /\ m.epoch = e.epoch
    BY <1>1, MovingLemma
  <2>2. Deferred(e) = [m EXCEPT !.adopt = e.epoch] /\ e.epoch \in 0..MaxEpoch
    BY <1>1 DEF Deferred, Sound, Entry
  <2>3. Told(m)
    BY <1>4
  <2> HIDE DEF m
  <2>4. Same(m, Deferred(e)) /\ Sound(Deferred(e))
    BY <1>1, <2>1, <2>2, SameFields, DeferredLemma
  <2> QED
    BY <2>3, <2>4, SameTold
<1>7. /\ Told(AbortTurn(e)) /\ Told(Settled(e)) /\ Told(Unknown(e))
      /\ e.enabled => Told(Looping(e))
  <2>1. Same(e, AbortTurn(e)) /\ Same(e, Settled(e)) /\ Same(e, Unknown(e)) /\ Same(e, Looping(e))
    BY <1>1, SameFields
  <2> QED
    BY <1>2, <2>1, SameTold
<1>8. /\ \A b \in BOOLEAN : b \/ ~e.interval => Told(Known(e, b))
      /\ \A phase \in Phase : Told(Await(e, phase))
  BY <1>1, <1>3, SameFields, SameTold
<1>9. \A k \in Epoch : k <= e.epoch => Told(Enqueue(e, k))
  BY <1>1, <1>3, SameFields, SameTold
<1>10. ASSUME NEW k \in 0..MaxEpoch PROVE Told([e EXCEPT !.adopt = k])
  <2> DEFINE f == [e EXCEPT !.adopt = k]
  <2>1. Sound(f) /\ Same(e, f)
    BY <1>1, <1>3, SameFields
  <2> HIDE DEF f
  <2>2. Told(f)
    BY <2>1, SameTold
  <2> QED
    BY <2>2 DEF f
<1> QED
  BY <1>4, <1>5, <1>6, <1>7, <1>8, <1>9, <1>10

(* A request speaks for the layer from the moment its epoch is reserved.       *)
LEMMA ReserveTold ==
  ASSUME NEW e, Told(e), NEW want \in BOOLEAN, e.epoch + 1 <= MaxEpoch, ~e.destroying
  PROVE  Told(Reserve(e, want)) /\ ~Reserve(e, want).destroying
<1> DEFINE k  == e.epoch + 1
           q  == [epoch |-> k, want |-> want]
           r  == [want |-> want, answer |-> "pending"]
           rs == [e.records EXCEPT ![k] = r]
           f  == Reserve(e, want)
<1>1. Sound(f) /\ e \in Entry /\ e.epoch \in Nat /\ MaxEpoch \in Nat /\ e.turn.epoch <= e.epoch
      /\ e.turn.epoch \in Nat
  <2>1. Sound(e)
    BY DEF Told
  <2>2. Sound(f)
    BY <2>1, ReserveLemma
  <2>3. e \in Entry /\ e.turn.epoch <= e.epoch /\ MaxEpoch \in Nat
    BY <2>1, LayerAssumption DEF Sound, LayerAssumption
  <2>4. e.epoch \in 0..MaxEpoch /\ e.turn.epoch \in 0..MaxEpoch
    BY <2>3 DEF Entry, Turn
  <2> QED
    BY <2>2, <2>3, <2>4
<1>2. k \in Epoch /\ \A j \in Epoch : k < j => e.epoch < j /\ j # k
  BY <1>1 DEF Epoch
<1>3. \A j \in Epoch : rs[j] = IF j = k THEN r ELSE e.records[j]
  BY <1>1 DEF Entry
<1>4. f = [e EXCEPT !.epoch = k, !.want = want, !.queued = q, !.records = rs]
  BY DEF Reserve
<1>5. e.turn.epoch # k
  BY <1>1
<1> HIDE DEF k, rs, f
<1>6. /\ f.epoch = k /\ f.queued = q /\ f.records = rs /\ f.turn = e.turn
      /\ f.destroying = e.destroying
  BY <1>1, <1>4 DEF Entry
<1>7. \A j \in Epoch : f.epoch < j => f.records[j].answer = "none"
  BY <1>2, <1>3, <1>6 DEF Told, Speaks
<1>8. f.records[f.epoch].want = want /\ f.queued.epoch = f.epoch /\ f.queued.want = want
  BY <1>2, <1>3, <1>6
<1>9. Wanted(f) = want
  BY <1>5, <1>6, <1>8 DEF Wanted
<1> QED
  BY <1>1, <1>6, <1>7, <1>8, <1>9 DEF Told, Speaks, f

LEMMA RequestTold ==
  ASSUME NEW e, Told(e), NEW want \in BOOLEAN, e.epoch + 1 <= MaxEpoch, ~e.destroying
  PROVE  Told(Request(e, want)) /\ ~Request(e, want).destroying
<1> DEFINE r == Reserve(e, want)
           a == AbortTurn(r)
           f == Enqueue(a, e.epoch + 1)
<1>1. Told(r) /\ ~r.destroying /\ r.epoch = e.epoch + 1 /\ Sound(e)
  BY ReserveTold, ReserveLemma DEF Told
<1>2. e.epoch + 1 \in Epoch /\ e.epoch + 1 <= e.epoch + 1
  BY <1>1, LayerAssumption DEF Sound, Entry, Epoch, LayerAssumption
<1> HIDE DEF r
<1>3. Told(a) /\ a.epoch = e.epoch + 1 /\ ~a.destroying
  BY <1>1, OperatorsTold, AbortLemma, SameFields DEF Told, Same
<1> HIDE DEF a
<1>4. Told(f) /\ ~f.destroying
  <2>1. e.epoch + 1 <= a.epoch
    BY <1>2, <1>3
  <2>2. Told(f)
    BY <1>2, <1>3, <2>1, OperatorsTold
  <2>3. Same(a, f)
    BY <1>2, <1>3, SameFields DEF Told
  <2> QED
    BY <1>3, <2>2, <2>3 DEF Same
<1>5. f = Request(e, want)
  BY DEF Request, f, a, r
<1> QED
  BY <1>4, <1>5

LEMMA OvertakenTold ==
  ASSUME NEW e, Told(e), NEW want \in BOOLEAN, NEW newer \in BOOLEAN, Accepts(e, 2)
  PROVE  Told(Overtaken(e, want, newer))
<1> DEFINE r == Reserve(e, want)
           q == Request(r, newer)
           f == Enqueue(q, e.epoch + 1)
<1>1. /\ e.epoch \in Nat /\ MaxEpoch \in Nat /\ ~e.destroying
      /\ e.epoch + 1 <= MaxEpoch /\ e.epoch + 1 + 1 <= MaxEpoch /\ Sound(e)
  BY LayerAssumption DEF Told, Sound, Entry, LayerAssumption, Accepts
<1>2. Told(r) /\ ~r.destroying /\ r.epoch = e.epoch + 1 /\ Sound(r)
  BY <1>1, ReserveTold, ReserveLemma DEF Told
<1> HIDE DEF r
<1>3. Told(q) /\ q.epoch = e.epoch + 1 + 1
  BY <1>1, <1>2, RequestTold, RequestLemma
<1> HIDE DEF q
<1>4. e.epoch + 1 \in Epoch /\ e.epoch + 1 <= q.epoch
  BY <1>1, <1>3 DEF Epoch
<1>5. Told(f)
  BY <1>3, <1>4, OperatorsTold
<1> QED
  BY <1>5 DEF Overtaken, f, q, r

(* The turn of another request leaves the queued one alone.                    *)
LEMMA FinishedTold ==
  ASSUME NEW e, Told(e), e.turn.epoch \in Epoch, NEW answer \in {"granted", "refused"}
  PROVE  Told(Finished(e, answer))
<1> DEFINE q == ReleaseQueued(e)
           a == IF e.turn.compensation THEN "refused" ELSE answer
           rs == [e.records EXCEPT ![e.turn.epoch].answer = a]
           f == Finished(e, answer)
<1>1. Sound(f) /\ e \in Entry /\ Speaks(e) /\ e.epoch \in 0..MaxEpoch
  BY FinishedLemma DEF Told, Sound, Entry
<1>2. PICK queued : /\ q = [e EXCEPT !.queued = queued]
                    /\ e.queued.epoch # e.turn.epoch => queued = e.queued
  <2>1. CASE e.queued.epoch = e.turn.epoch
    BY <2>1 DEF ReleaseQueued
  <2>2. CASE e.queued.epoch # e.turn.epoch
    <3>1. e = [e EXCEPT !.queued = e.queued]
      BY <1>1 DEF Entry
    <3> QED
      BY <2>2, <3>1 DEF ReleaseQueued
  <2> QED
    BY <2>1, <2>2
<1>3. q.records = e.records /\ q.turn = e.turn
  BY <1>1, <1>2 DEF Entry
<1>4. f = [q EXCEPT !.records = rs, !.turn = NoTurn]
  BY <1>3 DEF Finished
<1>5. /\ \A k \in Epoch : k # e.turn.epoch => rs[k] = e.records[k]
      /\ rs[e.turn.epoch].answer \in {"granted", "refused"}
  BY <1>1 DEF Entry, Record
<1> HIDE DEF rs, q, f, a
<1>6. /\ f.epoch = e.epoch /\ f.records = rs /\ f.turn = NoTurn /\ f.queued = queued
      /\ f.destroying = e.destroying
  BY <1>1, <1>2, <1>4 DEF Entry
<1>7. NoTurn.compensation = FALSE
  BY DEF NoTurn
<1>8. \A k \in Epoch : f.epoch < k => f.records[k].answer = "none"
  <2>1. e.turn.epoch <= e.epoch /\ e.turn.epoch \in Nat
    BY <1>1 DEF Told, Sound, Entry, Turn
  <2>2. \A k \in Epoch : e.epoch < k => k # e.turn.epoch
    BY <1>1, <2>1 DEF Epoch
  <2> QED
    BY <1>1, <1>5, <1>6, <2>2 DEF Speaks
<1>9. ASSUME f.epoch \in Epoch, f.records[f.epoch].answer = "pending"
      PROVE  /\ f.queued.epoch = f.epoch /\ f.queued.want = Wanted(f)
             /\ ~f.destroying
  <2>1. e.epoch # e.turn.epoch
    BY <1>5, <1>6, <1>9
  <2>2. rs[e.epoch] = e.records[e.epoch]
    BY <1>5, <1>6, <1>9, <2>1
  <2>3. e.queued.epoch = e.epoch /\ e.queued.want = Wanted(e) /\ ~e.destroying
    BY <1>1, <1>6, <1>9, <2>2 DEF Speaks
  <2>4. queued = e.queued
    BY <1>2, <2>1, <2>3
  <2>5. Wanted(f) = Wanted(e)
    BY <1>6, <1>7, <2>1, <2>2 DEF Wanted
  <2> QED
    BY <1>6, <2>3, <2>4, <2>5
<1> QED
  BY <1>1, <1>8, <1>9 DEF Told, Speaks, f

LEMMA TakenTold ==
  ASSUME NEW e, Told(e), OfTurn(e), Turns(e)
  PROVE  Told(Taken(e)) /\ Taken(e).turn.epoch \in Epoch
<1> DEFINE k == Head(e.chain)
           n == [e.turn EXCEPT !.epoch = k, !.target = e.records[k].want]
           t == Taken(e)
<1>1. /\ Sound(t) /\ t.turn.epoch \in Epoch /\ ~t.turn.compensation
      /\ t.epoch = e.epoch /\ t.records = e.records /\ t.destroying = e.destroying
  BY TakenLemma DEF Told
<1>2. e \in Entry /\ e.turn = NoTurn
  BY DEF Told, Sound, OfTurn, Turns
<1>3. t.queued = e.queued
  BY <1>2 DEF Taken, Entry
<1>4. ~e.turn.compensation
  BY <1>2 DEF NoTurn
<1> HIDE DEF t
<1>5. Wanted(t) = Wanted(e)
  BY <1>1, <1>4 DEF Wanted
<1>6. Told(t)
  BY <1>1, <1>3, <1>5 DEF Told, Speaks
<1> QED
  BY <1>1, <1>6 DEF t

--------------------------------------------------------------------------------
(* The answers.                                                                *)

(* A request waits for its turn, or its turn is at work.                       *)
Waits(e, k) == e.turn.epoch = k \/ \E i \in 1..Len(e.chain) : e.chain[i] = k

(* A request without an answer has one turn, under way or to come.             *)
Served(e) ==
  /\ \A k \in Epoch : e.records[k].answer = "pending" <=> Waits(e, k)
  /\ \A i, j \in 1..Len(e.chain) : e.chain[i] = e.chain[j] => i = j
  /\ \A i \in 1..Len(e.chain) : e.chain[i] # e.turn.epoch

(* No answer that o has is taken back.                                         *)
Stands(o, e) ==
  \A k \in Epoch : o.records[k].answer \in {"granted", "refused"}
                     => e.records[k].answer = o.records[k].answer

Kept(o, e) == Told(e) /\ Served(e) /\ Stands(o, e)

Alike(e, f) == Same(e, f) /\ f.chain = e.chain

LEMMA ServedAgain ==
  ASSUME NEW o, NEW e, Served(e), Stands(o, e),
         NEW f, f.records = e.records, f.chain = e.chain, f.turn.epoch = e.turn.epoch
  PROVE  Served(f) /\ Stands(o, f)
<1>1. \A k \in Epoch : Waits(f, k) <=> Waits(e, k)
  BY DEF Waits
<1> QED
  BY <1>1 DEF Served, Stands

LEMMA AlikeKept ==
  ASSUME NEW o, NEW e, Kept(o, e), NEW f, Sound(f), Alike(e, f)
  PROVE  Kept(o, f)
<1>1. Told(f)
  BY SameTold DEF Kept, Alike
<1> QED
  BY <1>1, ServedAgain DEF Kept, Alike, Same

LEMMA AlikeFields ==
  ASSUME NEW e, Sound(e)
  PROVE  /\ Alike(e, ClearTimer(e)) /\ Alike(e, AbortTurn(e)) /\ Alike(e, Looping(e))
         /\ Alike(e, InvalidateRefresh(e)) /\ Alike(e, Settled(e)) /\ Alike(e, Moving(e))
         /\ Alike(e, Unknown(e)) /\ \A b \in BOOLEAN : Alike(e, Known(e, b))
         /\ \A phase \in Phase : Alike(e, Await(e, phase))
         /\ \A k \in 0..MaxEpoch : Alike(e, [e EXCEPT !.adopt = k])
         /\ Alike(e, Deferred(e)) /\ Alike(e, CleanUp(e)) /\ Alike(e, Fail(e))
<1>1. e \in Entry
  BY DEF Sound
<1>2. ClearTimer(e).chain = e.chain /\ AbortTurn(e).chain = e.chain
  BY ClearLemma, AbortLemma
<1>3. Looping(e).chain = e.chain
  <2> DEFINE c == ClearTimer(e)
  <2>1. c \in Entry /\ Looping(e) = [c EXCEPT !.interval = TRUE, !.timers = @ + 1]
    BY ClearLemma DEF Sound, Looping, ArmUpdateLoop
  <2>2. c.chain = e.chain
    BY <1>2
  <2> HIDE DEF c
  <2> QED
    BY <2>1, <2>2 DEF Entry
<1>4. /\ InvalidateRefresh(e).chain = e.chain /\ Settled(e).chain = e.chain
      /\ Moving(e).chain = e.chain /\ Unknown(e).chain = e.chain
      /\ \A b \in BOOLEAN : Known(e, b).chain = e.chain
  BY <1>1 DEF InvalidateRefresh, Settled, Moving, Unknown, Known, Entry
<1>5. /\ \A phase \in Phase : Await(e, phase).chain = e.chain
      /\ \A k \in 0..MaxEpoch : [e EXCEPT !.adopt = k].chain = e.chain
  BY <1>1 DEF Await, Entry
<1>6. Alike(e, Deferred(e))
  <2> DEFINE m == Moving(e)
  <2>1. Same(e, m) /\ m.chain = e.chain /\ m \in Entry
    BY <1>4, SameFields, MovingLemma DEF Sound
  <2>2. Deferred(e) = [m EXCEPT !.adopt = e.epoch]
    BY DEF Deferred
  <2> HIDE DEF m
  <2> QED
    BY <2>1, <2>2 DEF Alike, Same, Entry
<1>7. ASSUME NEW f \in {CleanUp(e), Fail(e)} PROVE Alike(e, f)
  <2> DEFINE c == ClearTimer(e)
  <2>1. Same(e, c) /\ c.chain = e.chain /\ Sound(c) /\ c \in Entry
    BY <1>2, SameFields, ClearLemma DEF Sound
  <2>2. PICK phase \in {"cleanup", "failed"} : f = Await(c, phase)
    BY DEF CleanUp, Fail
  <2> HIDE DEF c
  <2>3. Same(c, Await(c, phase)) /\ Await(c, phase).chain = c.chain
    <3>1. phase \in Phase
      BY DEF Phase
    <3> QED
      BY <2>1, <3>1, SameFields DEF Await, Entry
  <2> QED
    BY <2>1, <2>2, <2>3 DEF Alike, Same
<1> QED
  BY <1>2, <1>3, <1>4, <1>5, <1>6, <1>7, SameFields DEF Alike

LEMMA OperatorsKept ==
  ASSUME NEW o, NEW e, Kept(o, e)
  PROVE  /\ Kept(o, ClearTimer(e)) /\ Kept(o, AbortTurn(e)) /\ Kept(o, Settled(e))
         /\ Kept(o, Moving(e)) /\ Kept(o, Unknown(e)) /\ Kept(o, Deferred(e))
         /\ Kept(o, CleanUp(e)) /\ Kept(o, Fail(e))
         /\ e.enabled => Kept(o, Looping(e))
         /\ \A b \in BOOLEAN : b \/ ~e.interval => Kept(o, Known(e, b))
         /\ \A phase \in Phase : Kept(o, Await(e, phase))
         /\ \A k \in 0..MaxEpoch : Kept(o, [e EXCEPT !.adopt = k])
<1>1. Told(e) /\ Sound(e)
  BY DEF Kept, Told
<1>2. ASSUME NEW f, Told(f), Alike(e, f) PROVE Kept(o, f)
  BY <1>2, AlikeKept DEF Told
<1>3. ASSUME NEW k \in 0..MaxEpoch PROVE Kept(o, [e EXCEPT !.adopt = k])
  <2> DEFINE f == [e EXCEPT !.adopt = k]
  <2>1. Told(f) /\ Alike(e, f)
    BY <1>1, OperatorsTold, AlikeFields
  <2> HIDE DEF f
  <2>2. Kept(o, f)
    BY <1>2, <2>1
  <2> QED
    BY <2>2 DEF f
<1>4. /\ Kept(o, ClearTimer(e)) /\ Kept(o, AbortTurn(e)) /\ Kept(o, Settled(e))
      /\ Kept(o, Moving(e)) /\ Kept(o, Unknown(e)) /\ Kept(o, Deferred(e))
      /\ Kept(o, CleanUp(e)) /\ Kept(o, Fail(e))
      /\ e.enabled => Kept(o, Looping(e))
  BY <1>1, <1>2, OperatorsTold, AlikeFields
<1>5. /\ \A b \in BOOLEAN : b \/ ~e.interval => Kept(o, Known(e, b))
      /\ \A phase \in Phase : Kept(o, Await(e, phase))
  BY <1>1, <1>2, OperatorsTold, AlikeFields
<1> QED
  BY <1>3, <1>4, <1>5

(* A new request goes to the end of the chain.                                 *)
LEMMA AppendServed ==
  ASSUME NEW e, Served(e), e.chain \in Seq(Epoch),
         NEW k \in Epoch, e.records[k].answer = "none",
         NEW f, f.chain = Append(e.chain, k), f.turn.epoch = e.turn.epoch,
         \A j \in Epoch :
           f.records[j].answer = IF j = k THEN "pending" ELSE e.records[j].answer
  PROVE  Served(f) /\ \A o : Stands(o, e) => Stands(o, f)
<1> DEFINE n == Len(e.chain)
<1>1. /\ n \in Nat /\ Len(f.chain) = n + 1 /\ f.chain[n + 1] = k
      /\ \A i \in 1..n : f.chain[i] = e.chain[i]
  OBVIOUS
<1>2. 1..Len(f.chain) = (1..n) \cup {n + 1} /\ n + 1 \notin 1..n
  BY <1>1
<1>3. ~Waits(e, k)
  BY DEF Served
<1>4. e.turn.epoch # k /\ \A i \in 1..n : e.chain[i] # k
  BY <1>3 DEF Waits
<1>5. \A j \in Epoch : Waits(f, j) <=> Waits(e, j) \/ j = k
  BY <1>1, <1>2 DEF Waits
<1> HIDE DEF n
<1>6. \A j \in Epoch : f.records[j].answer = "pending" <=> Waits(f, j)
  BY <1>5 DEF Served
<1>7. \A i, j \in 1..Len(f.chain) : f.chain[i] = f.chain[j] => i = j
  BY <1>1, <1>2, <1>4 DEF Served, n
<1>8. \A i \in 1..Len(f.chain) : f.chain[i] # f.turn.epoch
  BY <1>1, <1>2, <1>4 DEF Served, n
<1> QED
  BY <1>6, <1>7, <1>8 DEF Served, Stands

(* What a request does to the records and the chain.                           *)
LEMMA RequestFields ==
  ASSUME NEW e, Sound(e), NEW want \in BOOLEAN, e.epoch + 1 <= MaxEpoch
  PROVE  LET k == e.epoch + 1 IN
         /\ k \in Epoch
         /\ Request(e, want).chain = Append(e.chain, k)
         /\ Request(e, want).turn.epoch = e.turn.epoch
         /\ Reserve(e, want).chain = e.chain /\ Reserve(e, want).turn = e.turn
         /\ \A j \in Epoch :
              /\ Reserve(e, want).records[j].answer =
                   IF j = k THEN "pending" ELSE e.records[j].answer
              /\ Request(e, want).records[j] = Reserve(e, want).records[j]
<1> DEFINE k  == e.epoch + 1
           q  == [epoch |-> k, want |-> want]
           rs == [e.records EXCEPT ![k] = [want |-> want, answer |-> "pending"]]
           r  == Reserve(e, want)
           a  == AbortTurn(r)
           f  == Enqueue(a, k)
<1>1. e \in Entry /\ e.epoch \in Nat /\ k \in Epoch
  BY LayerAssumption DEF Sound, Entry, Epoch, LayerAssumption
<1>2. Sound(r)
  BY ReserveLemma
<1>3. r = [e EXCEPT !.epoch = k, !.want = want, !.queued = q, !.records = rs]
  BY DEF Reserve
<1>4. \A j \in Epoch : rs[j].answer = IF j = k THEN "pending" ELSE e.records[j].answer
  BY <1>1 DEF Entry
<1> HIDE DEF k, rs, r, q
<1>5. r.chain = e.chain /\ r.turn = e.turn /\ r.records = rs
  BY <1>1, <1>3 DEF Entry
<1>6. Alike(r, a) /\ Sound(a)
  BY <1>2, AlikeFields, AbortLemma
<1> HIDE DEF a
<1>7. a \in Entry /\ a.chain = r.chain /\ a.records = r.records /\ a.turn.epoch = r.turn.epoch
  BY <1>6 DEF Alike, Same, Sound
<1>8. f.chain = Append(a.chain, k) /\ f.records = a.records /\ f.turn = a.turn
  BY <1>7 DEF Enqueue, Entry
<1>9. f = Request(e, want)
  BY DEF Request, f, a, r, k
<1> HIDE DEF f
<1> QED
  BY <1>1, <1>4, <1>5, <1>7, <1>8, <1>9 DEF k, r

LEMMA RequestKept ==
  ASSUME NEW o, NEW e, Kept(o, e), NEW want \in BOOLEAN, e.epoch + 1 <= MaxEpoch, ~e.destroying
  PROVE  Kept(o, Request(e, want))
<1> DEFINE k == e.epoch + 1
           f == Request(e, want)
<1>1. Told(e) /\ Sound(e) /\ Served(e) /\ Stands(o, e) /\ e.chain \in Seq(Epoch) /\ e.epoch < k
  BY DEF Kept, Told, Sound, Entry
<1>2. Told(f)
  BY <1>1, RequestTold
<1>3. /\ k \in Epoch /\ f.chain = Append(e.chain, k) /\ f.turn.epoch = e.turn.epoch
      /\ \A j \in Epoch : f.records[j].answer = IF j = k THEN "pending" ELSE e.records[j].answer
  BY <1>1, RequestFields
<1>4. e.records[k].answer = "none"
  BY <1>1, <1>3 DEF Told, Speaks
<1> HIDE DEF k, f
<1>5. Served(f) /\ Stands(o, f)
  BY <1>1, <1>3, <1>4, AppendServed
<1> QED
  BY <1>2, <1>5 DEF Kept, f

(* The overtaken request is behind the newer one.                              *)
LEMMA OvertakenKept ==
  ASSUME NEW o, NEW e, Kept(o, e), NEW want \in BOOLEAN, NEW newer \in BOOLEAN, Accepts(e, 2)
  PROVE  Kept(o, Overtaken(e, want, newer))
<1> DEFINE k == e.epoch + 1
           n == k + 1
           r == Reserve(e, want)
           q == Request(r, newer)
           f == Enqueue(q, k)
           g == [q EXCEPT !.records = [@ EXCEPT ![k] = e.records[k]]]
<1>1. /\ Told(e) /\ Sound(e) /\ Served(e) /\ Stands(o, e) /\ e.chain \in Seq(Epoch)
      /\ e.epoch \in Nat /\ MaxEpoch \in Nat /\ n <= MaxEpoch /\ k <= MaxEpoch
      /\ e.epoch < k /\ e.epoch < n /\ k # n
  BY LayerAssumption DEF Kept, Told, Sound, Entry, LayerAssumption, Accepts
<1>2. Told(f)
  BY <1>1, OvertakenTold DEF Overtaken
<1>3. Sound(r) /\ r.epoch = k
  BY <1>1, ReserveLemma
<1>4. /\ k \in Epoch /\ r.chain = e.chain /\ r.turn = e.turn
      /\ \A j \in Epoch : r.records[j].answer = IF j = k THEN "pending" ELSE e.records[j].answer
  BY <1>1, RequestFields
<1> HIDE DEF r
<1>5. /\ n \in Epoch /\ q.chain = Append(e.chain, n) /\ q.turn.epoch = e.turn.epoch
      /\ \A j \in Epoch : q.records[j].answer = IF j = n THEN "pending" ELSE r.records[j].answer
  <2>1. /\ r.epoch + 1 \in Epoch
        /\ q.chain = Append(r.chain, r.epoch + 1) /\ q.turn.epoch = r.turn.epoch
        /\ \A j \in Epoch :
             q.records[j].answer = IF j = r.epoch + 1 THEN "pending" ELSE r.records[j].answer
    <3>1. r.epoch + 1 <= MaxEpoch
      BY <1>1, <1>3
    <3> HIDE DEF k, n
    <3> QED
      BY <1>3, <3>1, RequestFields
  <2> QED
    BY <1>3, <1>4, <2>1
<1>6. Sound(q)
  BY <1>1, <1>3, RequestLemma
<1> HIDE DEF k, n, q
<1>7. q \in Entry /\ e \in Entry
  BY <1>1, <1>6 DEF Sound
<1>8. /\ g.chain = q.chain /\ g.turn = q.turn
      /\ \A j \in Epoch : g.records[j] = IF j = k THEN e.records[k] ELSE q.records[j]
  BY <1>7 DEF Entry
<1>9. e.records[k].answer = "none" /\ e.records[n].answer = "none"
  BY <1>1, <1>4, <1>5 DEF Told, Speaks
<1> HIDE DEF g
<1>10. Served(g) /\ Stands(o, g) /\ g.chain \in Seq(Epoch)
  <2>1. \A j \in Epoch : g.records[j].answer = IF j = n THEN "pending" ELSE e.records[j].answer
    BY <1>1, <1>4, <1>5, <1>8
  <2>2. g.chain = Append(e.chain, n) /\ g.turn.epoch = e.turn.epoch
    BY <1>5, <1>8
  <2> QED
    BY <1>1, <1>5, <1>9, <2>1, <2>2, AppendServed
<1>11. f.chain = Append(q.chain, k) /\ f.records = q.records /\ f.turn = q.turn
  BY <1>7 DEF Enqueue, Entry
<1> HIDE DEF f
<1>12. Served(f) /\ Stands(o, f)
  <2>1. g.records[k].answer = "none" /\ q.records[k].answer = "pending"
    BY <1>1, <1>4, <1>5, <1>8, <1>9
  <2>2. \A j \in Epoch : f.records[j].answer = IF j = k THEN "pending" ELSE g.records[j].answer
    BY <1>8, <1>11, <2>1
  <2> QED
    BY <1>4, <1>8, <1>10, <1>11, <2>1, <2>2, AppendServed
<1> QED
  BY <1>2, <1>12 DEF Kept, Overtaken, f, q, r, k

LEMMA ReentryKept ==
  ASSUME NEW o, NEW e, Kept(o, e), NEW r \in Reentries(e)
  PROVE  Kept(o, r) /\ r.turn.epoch = e.turn.epoch
<1>1. CASE r # e
  <2>1. PICK want \in BOOLEAN : Accepts(e, 1) /\ r = Request(e, want)
    BY <1>1 DEF Reentries
  <2>2. e.epoch + 1 <= MaxEpoch /\ ~e.destroying
    BY <2>1 DEF Accepts
  <2>3. Kept(o, r)
    BY <2>1, <2>2, RequestKept
  <2>4. r.turn.epoch = e.turn.epoch
    BY ReentryLemma DEF Kept, Told, Like
  <2> QED
    BY <2>3, <2>4
<1> QED
  BY <1>1

LEMMA SettlementKept ==
  ASSUME NEW o, NEW e, Kept(o, e), NEW s \in Settlements(e)
  PROVE  Kept(o, s) /\ s.turn.epoch = e.turn.epoch
<1>1. s.turn.epoch = e.turn.epoch
  BY SettlementLemma DEF Kept, Told, Like
<1>2. CASE Superseded(e)
  BY <1>1, <1>2, OperatorsKept DEF Settlements
<1>3. CASE ~Superseded(e)
  <2> DEFINE z == [e EXCEPT !.adopt = 0]
             t == Settled(z)
  <2>1. Kept(o, z)
    <3>1. 0 \in 0..MaxEpoch
      BY LayerAssumption DEF LayerAssumption
    <3> QED
      BY <3>1, OperatorsKept
  <2> HIDE DEF z
  <2>2. Kept(o, t)
    BY <2>1, OperatorsKept
  <2>3. PICK r \in Reentries(t) : s = IF Superseded(r) THEN Deferred(r) ELSE r
    BY <1>3 DEF Settlements, z
  <2> HIDE DEF t
  <2>4. Kept(o, r)
    BY <2>2, <2>3, ReentryKept
  <2> QED
    BY <1>1, <2>3, <2>4, OperatorsKept
<1> QED
  BY <1>2, <1>3

(* The end of a turn answers its request, which had no answer.                 *)
LEMMA FinishedKept ==
  ASSUME NEW o, NEW e, Kept(o, e), e.turn.epoch \in Epoch, NEW answer \in {"granted", "refused"}
  PROVE  Kept(o, Finished(e, answer))
<1> DEFINE q == ReleaseQueued(e)
           a == IF e.turn.compensation THEN "refused" ELSE answer
           rs == [e.records EXCEPT ![e.turn.epoch].answer = a]
           f == Finished(e, answer)
<1>1. Told(f) /\ e \in Entry /\ Served(e) /\ Stands(o, e) /\ e.chain \in Seq(Epoch)
  BY FinishedTold DEF Kept, Told, Sound, Entry
<1>2. q \in Entry /\ q.records = e.records /\ q.turn = e.turn /\ q.chain = e.chain
  <2>1. NoQueued \in Queued
    BY LayerAssumption DEF NoQueued, Queued, LayerAssumption
  <2> QED
    BY <1>1, <2>1 DEF ReleaseQueued, Entry
<1>3. f = [q EXCEPT !.records = rs, !.turn = NoTurn]
  BY <1>2 DEF Finished
<1>4. /\ \A k \in Epoch : k # e.turn.epoch => rs[k] = e.records[k]
      /\ rs[e.turn.epoch].answer \in {"granted", "refused"}
  BY <1>1 DEF Entry, Record
<1> HIDE DEF rs, q, f, a
<1>5. f.records = rs /\ f.turn.epoch = 0 /\ f.chain = e.chain
  BY <1>2, <1>3 DEF Entry, NoTurn
<1>6. 0 \notin Epoch /\ \A i \in 1..Len(e.chain) : e.chain[i] \in Epoch
  BY <1>1, EpochIsPositive
<1>7. \A k \in Epoch : Waits(f, k) <=> Waits(e, k) /\ k # e.turn.epoch
  BY <1>1, <1>5, <1>6 DEF Waits, Served
<1>8. \A k \in Epoch : f.records[k].answer = "pending" <=> Waits(f, k)
  BY <1>1, <1>4, <1>5, <1>7 DEF Served
<1>9. Served(f)
  BY <1>1, <1>5, <1>6, <1>8 DEF Served
<1>10. Stands(o, f)
  <2>1. e.records[e.turn.epoch].answer = "pending"
    BY <1>1 DEF Served, Waits
  <2> QED
    BY <1>1, <1>4, <1>5, <2>1 DEF Stands
<1> QED
  BY <1>1, <1>9, <1>10 DEF Kept, f

LEMMA EndsKept ==
  ASSUME NEW o, NEW e, Kept(o, e), e.turn.epoch \in Epoch, NEW f \in Ends(e, "refused")
  PROVE  Kept(o, f)
<1>1. PICK s \in Settlements(e) : f = Finished(s, "refused")
  BY DEF Ends
<1> QED
  BY <1>1, SettlementKept, FinishedKept

(* The request that has waited longest takes its turn.                         *)
LEMMA TakenKept ==
  ASSUME NEW o, NEW e, Kept(o, e), OfTurn(e), Turns(e)
  PROVE  Kept(o, Taken(e)) /\ Taken(e).turn.epoch \in Epoch
<1> DEFINE c == e.chain
           n == Len(c)
           t == Taken(e)
<1>1. Told(t) /\ t.turn.epoch \in Epoch /\ t.records = e.records /\ Sound(e)
  BY TakenTold, TakenLemma DEF Kept, Told
<1>2. /\ e \in Entry /\ e.turn = NoTurn /\ c \in Seq(Epoch) /\ c # <<>>
      /\ Served(e) /\ Stands(o, e)
  BY <1>1 DEF Kept, Sound, OfTurn, Turns, Entry
<1>3. t.chain = Tail(c) /\ t.turn.epoch = Head(c)
  BY <1>2 DEF Taken, Entry, Turn
<1>4. e.turn.epoch = 0 /\ 0 \notin Epoch
  BY <1>2, EpochIsPositive DEF NoTurn
<1>5. /\ n \in Nat /\ n # 0 /\ Head(c) = c[1] /\ Len(Tail(c)) = n - 1
      /\ \A i \in 1..(n - 1) : Tail(c)[i] = c[i + 1]
  BY <1>2
<1>6. /\ 1 \in 1..n /\ \A i \in 1..(n - 1) : i + 1 \in 1..n /\ i + 1 # 1
      /\ \A i \in 1..n : i = 1 \/ (i - 1 \in 1..(n - 1) /\ (i - 1) + 1 = i)
  BY <1>5
<1> HIDE DEF t, n, c
<1>7. \A i, j \in 1..n : c[i] = c[j] => i = j
  BY <1>2 DEF Served, n, c
<1>8. \A k \in Epoch : Waits(e, k) <=> \E i \in 1..n : c[i] = k
  BY <1>4 DEF Waits, n, c
<1>9. \A k \in Epoch : Waits(t, k) <=> k = c[1] \/ \E i \in 1..(n - 1) : c[i + 1] = k
  BY <1>3, <1>5 DEF Waits
<1>10. \A k \in Epoch : Waits(t, k) <=> Waits(e, k)
  <2>1. ASSUME NEW k \in Epoch, NEW i \in 1..n, c[i] = k PROVE Waits(t, k)
    <3>1. CASE i = 1
      BY <1>9, <2>1, <3>1
    <3>2. CASE i # 1
      BY <1>6, <1>9, <2>1, <3>2
    <3> QED
      BY <3>1, <3>2
  <2> QED
    BY <1>6, <1>8, <1>9, <2>1
<1>11. \A i, j \in 1..(n - 1) : c[i + 1] = c[j + 1] => i = j
  <2> SUFFICES ASSUME NEW i \in 1..(n - 1), NEW j \in 1..(n - 1), c[i + 1] = c[j + 1]
               PROVE  i = j
    OBVIOUS
  <2>1. i + 1 = j + 1
    BY <1>6, <1>7
  <2> QED
    BY <2>1
<1>12. \A i \in 1..(n - 1) : c[i + 1] # c[1]
  BY <1>6, <1>7
<1>13. Served(t)
  BY <1>1, <1>2, <1>3, <1>5, <1>10, <1>11, <1>12 DEF Served
<1> QED
  BY <1>1, <1>2, <1>13 DEF Kept, Stands, t

(* Callers, the destruction and refreshes.                                     *)
LEMMA CallersKept ==
  ASSUME LayerInv, Kept(entry, entry), Sound(entry'),
         Callers \/ Drained \/ Refreshed \/ AbortCleanupSettles \/ StrayDisabled
           \/ \E ok \in BOOLEAN : DestroyDisabled(ok) \/ Destroyed(ok)
  PROVE  Kept(entry, entry')
<1>1. Sound(entry) /\ entry \in Entry
  BY DEF Kept, Told, Sound
<1>2. ASSUME Alike(entry, entry') PROVE Kept(entry, entry')
  BY <1>2, AlikeKept
<1>3. ASSUME NEW want \in BOOLEAN, SetEnabled(want) PROVE Kept(entry, entry')
  BY <1>3, RequestKept DEF SetEnabled, Accepts
<1>4. CASE ClearRequest
  BY <1>4, RequestKept DEF ClearRequest, Accepts
<1>5. ASSUME NEW want \in BOOLEAN, NEW newer \in BOOLEAN, SetEnabledOvertaken(want, newer)
      PROVE  Kept(entry, entry')
  BY <1>5, OvertakenKept DEF SetEnabledOvertaken
<1>6. ASSUME NEW k \in Epoch, Withdraw(k) PROVE Kept(entry, entry')
  BY <1>6, OperatorsKept DEF Withdraw
<1>7. CASE ClearReserve \/ ClearRelease
  <2>1. PICK r : entry' = [entry EXCEPT !.reserved = r]
    BY <1>7 DEF ClearReserve, ClearRelease
  <2> QED
    BY <1>1, <1>2, <2>1 DEF Alike, Same, Entry
<1>8. CASE Refresh \/ Refreshed
  <2>1. PICK r, u : entry' = [entry EXCEPT !.refreshing = r, !.updating = u]
    <3>1. CASE Refresh
      BY <3>1 DEF Refresh
    <3>2. CASE Refreshed
      <4>1. entry' = [entry EXCEPT !.refreshing = entry.refreshing /\ ~entry.enabled,
                                   !.updating = FALSE]
        BY <1>1, <3>2 DEF Refreshed, Entry
      <4> QED
        BY <4>1
    <3> QED
      BY <1>8, <3>1, <3>2
  <2> QED
    BY <1>1, <1>2, <2>1 DEF Alike, Same, Entry
<1>9. CASE AbortCleanupSettles
  <2>1. entry' = [entry EXCEPT !.turn.awaited = FALSE]
    BY <1>9 DEF AbortCleanupSettles
  <2> DEFINE f == [entry EXCEPT !.turn.awaited = FALSE]
  <2>2. /\ f.epoch = entry.epoch /\ f.records = entry.records /\ f.queued = entry.queued
        /\ f.destroying = entry.destroying /\ f.chain = entry.chain
    BY <1>1 DEF Entry
  <2>3. f.turn.epoch = entry.turn.epoch /\ f.turn.compensation = entry.turn.compensation
    BY <1>1 DEF Entry, Turn
  <2> HIDE DEF f
  <2> QED
    BY <1>2, <2>1, <2>2, <2>3 DEF Alike, Same, f
<1>10. CASE DestroyLayer
  <2> DEFINE k == entry.epoch + 1
             d == [InvalidateRefresh(entry) EXCEPT
                     !.destroying = TRUE, !.epoch = k, !.want = FALSE,
                     !.queued = [epoch |-> k, want |-> FALSE], !.reserved = 0]
  <2>1. k <= MaxEpoch /\ entry' = AbortTurn(d)
    BY <1>10 DEF DestroyLayer, Accepts, Condemned
  <2>2. Sound(d) /\ d.epoch = k /\ d.records = entry.records
    BY <1>1, <2>1, CondemnedLemma
  <2>3. d.chain = entry.chain /\ d.turn = entry.turn
    BY <1>1 DEF InvalidateRefresh, Entry
  <2>4. \A j \in Epoch : k <= j => entry.epoch < j
    BY <1>1, LayerAssumption DEF Entry, Epoch, LayerAssumption
  <2>5. k \in Epoch => k <= k
    BY DEF Epoch
  <2> HIDE DEF d
  <2>6. /\ entry'.epoch = k /\ entry'.records = entry.records
        /\ entry'.chain = entry.chain /\ entry'.turn.epoch = entry.turn.epoch
    BY <2>1, <2>2, <2>3, AlikeFields DEF Alike, Same
  <2>7. \A j \in Epoch : k <= j => entry.records[j].answer = "none"
    BY <2>4 DEF Kept, Told, Speaks
  <2>8. \A j \in Epoch : k < j => k <= j
    BY <1>1 DEF Entry, Epoch
  <2> HIDE DEF k
  <2>9. Told(entry')
    BY <2>5, <2>6, <2>7, <2>8 DEF Told, Speaks
  <2> QED
    BY <2>6, <2>9, ServedAgain DEF Kept
<1>11. CASE Drained
  <2>1. entry' = [entry EXCEPT !.queued = NoQueued] /\ entry.destroying
    BY <1>11 DEF Drained, LayerInv, Good, Agrees
  <2>2. /\ entry'.epoch = entry.epoch /\ entry'.records = entry.records
        /\ entry'.chain = entry.chain /\ entry'.turn = entry.turn
    BY <1>1, <2>1 DEF Entry
  <2>3. Told(entry')
    BY <2>1, <2>2 DEF Kept, Told, Speaks
  <2> QED
    BY <2>2, <2>3, ServedAgain DEF Kept
<1>12. Alike(entry, Retained(entry))
  <2> DEFINE d == [entry EXCEPT !.destroying = FALSE, !.want = entry.enabled]
  <2>1. d \in Entry
    BY <1>1 DEF Entry
  <2>2. Alike(entry, d)
    BY <1>1 DEF Alike, Same, Entry
  <2>3. Retained(entry) = Settled(d)
    BY DEF Retained
  <2> HIDE DEF d
  <2>4. Alike(d, Settled(d))
    BY <2>1 DEF Alike, Same, Settled, Entry
  <2> QED
    BY <2>2, <2>3, <2>4 DEF Alike, Same
<1>13. ASSUME NEW ok \in BOOLEAN, DestroyDisabled(ok) PROVE Kept(entry, entry')
  <2>1. CASE ok
    <3> DEFINE c == ClearTimer(entry)
    <3>1. Alike(entry, c) /\ c \in Entry /\ entry' = [c EXCEPT !.enabled = FALSE]
      BY <1>1, <1>13, <2>1, AlikeFields, ClearLemma DEF DestroyDisabled, Sound
    <3> HIDE DEF c
    <3>2. Alike(c, entry')
      BY <3>1 DEF Alike, Same, Entry
    <3> QED
      BY <1>2, <3>1, <3>2 DEF Alike, Same
  <2>2. CASE ~ok
    BY <1>2, <1>12, <1>13, <2>2 DEF DestroyDisabled
  <2> QED
    BY <2>1, <2>2
<1>14. ASSUME NEW ok \in BOOLEAN, Destroyed(ok) PROVE Kept(entry, entry')
  <2>1. CASE ok
    <3>1. entry' = [entry EXCEPT !.registered = FALSE]
      BY <1>14, <2>1 DEF Destroyed
    <3> QED
      BY <1>1, <1>2, <3>1 DEF Alike, Same, Entry
  <2>2. CASE ~ok
    BY <1>2, <1>12, <1>14, <2>2 DEF Destroyed
  <2> QED
    BY <2>1, <2>2
<1>15. CASE StrayDisabled
  <2>1. entry' = [entry EXCEPT !.strays = entry.strays - 1]
    BY <1>1, <1>15 DEF StrayDisabled, Entry
  <2> QED
    BY <1>1, <1>2, <2>1 DEF Alike, Same, Entry
<1> QED
  BY <1>3, <1>4, <1>5, <1>6, <1>7, <1>8, <1>9, <1>10, <1>11, <1>13, <1>14, <1>15 DEF Callers

(* A turn that begins, and one that is over before it awaits.                  *)
LEMMA TurnsKept ==
  ASSUME LayerInv, Kept(entry, entry),
         SupersededTurn \/ WithdrawnTurn \/ AdoptionTurn \/ IdempotentTurn \/ ToggleTurn
  PROVE  Kept(entry, entry')
<1> DEFINE t == Taken(entry)
<1>1. Turns(entry) /\ OfTurn(entry)
  BY DEF SupersededTurn, WithdrawnTurn, AdoptionTurn, IdempotentTurn, ToggleTurn, Newest,
     LayerInv, Good
<1>2. Kept(entry, t) /\ t.turn.epoch \in Epoch
  BY <1>1, TakenKept
<1>3. /\ 0 \in 0..MaxEpoch /\ "adopt" \in Phase /\ "guard" \in Phase
      /\ "granted" \in {"granted", "refused"} /\ "refused" \in {"granted", "refused"}
  BY LayerAssumption DEF Phase, LayerAssumption
<1> DEFINE z == [t EXCEPT !.adopt = 0]
<1> HIDE DEF t
<1>4. Kept(entry, z) /\ z.turn.epoch = t.turn.epoch
  BY <1>2, <1>3, OperatorsKept, AlikeFields DEF Kept, Told, Alike, Same
<1> HIDE DEF z
<1>5. Kept(entry, Settled(z)) /\ Settled(z).turn.epoch = t.turn.epoch
  BY <1>4, OperatorsKept, SettledLemma DEF Kept, Told
<1>6. Kept(entry, Settled(t)) /\ Settled(t).turn.epoch = t.turn.epoch
  BY <1>2, OperatorsKept, SettledLemma DEF Kept, Told
<1>7. CASE SupersededTurn
  BY <1>2, <1>3, <1>7, FinishedKept DEF SupersededTurn, t
<1>8. CASE WithdrawnTurn
  <2>1. entry' = Finished(Settled(z), "refused") \/ entry' = Finished(t, "refused")
    BY <1>8 DEF WithdrawnTurn, t, z
  <2> QED
    BY <1>2, <1>3, <1>5, <2>1, FinishedKept
<1>9. CASE AdoptionTurn
  BY <1>2, <1>3, <1>9, OperatorsKept DEF AdoptionTurn, t
<1>10. CASE IdempotentTurn
  <2>1. PICK r \in {t} \cup Reentries(Settled(t)) : entry' = Finished(r, "granted")
    <3>1. PICK r \in IF t.lifecycle \in {"enabling", "disabling"}
                     THEN Reentries(Settled(t)) ELSE {t} : entry' = Finished(r, "granted")
      BY <1>10 DEF IdempotentTurn, t
    <3> QED
      BY <3>1
  <2>2. Kept(entry, r) /\ r.turn.epoch = t.turn.epoch
    BY <1>2, <1>6, <2>1, ReentryKept
  <2> QED
    BY <1>2, <1>3, <2>1, <2>2, FinishedKept
<1>11. CASE ToggleTurn
  BY <1>3, <1>4, <1>11, OperatorsKept DEF ToggleTurn, t, z
<1> QED
  BY <1>7, <1>8, <1>9, <1>10, <1>11

(* The compensation of a refused adoption is what the request is queued for.   *)
LEMMA AdoptionBlockedKept ==
  ASSUME LayerInv, Kept(entry, entry), AdoptionBlocked
  PROVE  Kept(entry, entry')
<1> DEFINE n == [entry.turn EXCEPT !.target = ~entry.turn.target, !.compensation = TRUE,
                                   !.phase = "guard"]
           q == [epoch |-> entry.epoch, want |-> ~entry.turn.target]
           e == [entry EXCEPT !.adopt = 0, !.queued = q, !.turn = n]
<1>1. /\ Sound(entry) /\ OfTurn(entry) /\ entry.turn.phase = "adopt"
      /\ entry \in Entry /\ entry.turn \in Turn /\ entry.turn.epoch \in Epoch
      /\ entry.turn.epoch = entry.epoch
  BY AtWork DEF AdoptionBlocked, Adoptable, Superseded, Entry
<1>2. PICK r \in Reentries(e) :
        entry' = IF Superseded(r) THEN Finished(Deferred(r), "refused") ELSE r
  <2>1. e = [entry EXCEPT !.adopt = 0,
                          !.queued = [epoch |-> entry.epoch, want |-> ~entry.turn.target],
                          !.turn.target = ~entry.turn.target, !.turn.compensation = TRUE,
                          !.turn.phase = "guard"]
    BY <1>1 DEF Entry, Turn
  <2> HIDE DEF e
  <2> QED
    BY <2>1 DEF AdoptionBlocked
<1>3. n \in Turn /\ n.compensation /\ n.epoch = entry.turn.epoch
  BY <1>1 DEF Turn, Phase
<1>4. q \in Queued /\ 0 \in 0..MaxEpoch
  BY <1>1, LayerAssumption DEF Queued, Entry, Turn, LayerAssumption
<1>5. q.epoch = entry.epoch /\ q.want = ~entry.turn.target
  OBVIOUS
<1> HIDE DEF n, q
<1>6. e \in Entry
  BY <1>1, <1>3, <1>4 DEF Entry
<1>7. /\ e.registered = entry.registered /\ e.destroying = entry.destroying
      /\ e.enabled = entry.enabled /\ e.uncertain = entry.uncertain
      /\ e.interval = entry.interval /\ e.timers = entry.timers /\ e.chain = entry.chain
      /\ e.epoch = entry.epoch /\ e.records = entry.records /\ e.turn = n /\ e.queued = q
  BY <1>1 DEF Entry
<1> HIDE DEF e
<1>8. Sound(e)
  BY <1>1, <1>3, <1>6, <1>7 DEF Sound
<1>9. e.queued.want = Wanted(e)
  <2>1. entry.turn.target = entry.records[entry.epoch].want /\ entry.turn.target \in BOOLEAN
    BY <1>1 DEF OfTurn, Enabling, Turn
  <2> QED
    BY <1>1, <1>3, <1>5, <1>7, <2>1 DEF Wanted
<1>10. Kept(entry, e)
  <2>1. Told(e)
    BY <1>5, <1>7, <1>8, <1>9 DEF Kept, Told, Speaks
  <2> QED
    BY <1>3, <1>7, <2>1, ServedAgain DEF Kept
<1>11. Kept(entry, r) /\ r.turn.epoch \in Epoch
  BY <1>1, <1>2, <1>3, <1>7, <1>10, ReentryKept
<1>12. Kept(entry, Deferred(r)) /\ Deferred(r).turn.epoch \in Epoch
  BY <1>11, OperatorsKept, DeferredLemma DEF Kept, Told, Like
<1> QED
  BY <1>2, <1>11, <1>12, FinishedKept

LEMMA EnableCallsKept ==
  ASSUME NEW o, NEW e, Kept(o, e), NEW f \in EnableCalls(e)
  PROVE  Kept(o, f)
<1>1. CASE f \in {CleanUp(e), Fail(e)}
  BY <1>1, OperatorsKept
<1>2. CASE f \notin {CleanUp(e), Fail(e)}
  <2> DEFINE z == [e EXCEPT !.uncertain = FALSE]
  <2>1. f = Await(z, "enable") /\ Sound(e) /\ e \in Entry /\ "enable" \in Phase
    BY <1>2, RejectedLemma DEF EnableCalls, Kept, Told, Sound, Phase, Enabling
  <2>2. z \in Entry /\ Alike(e, z)
    BY <2>1 DEF Alike, Same, Entry
  <2>3. /\ z.enabled = e.enabled /\ z.interval = e.interval /\ z.timers = e.timers
        /\ z.chain = e.chain /\ z.epoch = e.epoch /\ z.turn = e.turn
    BY <2>1 DEF Entry
  <2> HIDE DEF z
  <2>4. Sound(z)
    BY <2>1, <2>2, <2>3 DEF Sound
  <2>5. Kept(o, z)
    BY <2>2, <2>4, AlikeKept
  <2> QED
    BY <2>1, <2>5, OperatorsKept
<1> QED
  BY <1>1, <1>2

LEMMA TransitionsKept ==
  ASSUME NEW o, NEW e, Kept(o, e), NEW f \in Transitions(e)
  PROVE  Kept(o, f)
<1>1. Sound(e) /\ e \in Entry /\ "disable" \in Phase /\ "init" \in Phase
  BY DEF Kept, Told, Sound, Phase, Enabling
<1>2. CASE f \in EnableCalls(e)
  BY <1>2, EnableCallsKept
<1>3. CASE f = Await(e, "init")
  BY <1>1, <1>3, OperatorsKept
<1>4. CASE f = Await(InvalidateRefresh(e), "disable")
  <2> DEFINE i == InvalidateRefresh(e)
  <2>1. i \in Entry
    BY <1>1 DEF InvalidateRefresh, Entry
  <2>2. /\ i.enabled = e.enabled /\ i.interval = e.interval /\ i.timers = e.timers
        /\ i.chain = e.chain /\ i.epoch = e.epoch /\ i.turn = e.turn
    BY <1>1 DEF InvalidateRefresh, Entry
  <2>3. Alike(e, i)
    BY <1>1, AlikeFields
  <2> HIDE DEF i
  <2>4. Sound(i)
    BY <1>1, <2>1, <2>2 DEF Sound
  <2>5. Kept(o, i)
    BY <2>3, <2>4, AlikeKept
  <2> QED
    BY <1>1, <1>4, <2>5, OperatorsKept DEF i
<1> QED
  BY <1>2, <1>3, <1>4 DEF Transitions

(* A turn that enables the layer, as far as its clean-up.                      *)
LEMMA EnablingKept ==
  ASSUME LayerInv, Kept(entry, entry), NEW ok \in BOOLEAN,
         GuardPasses \/ Initialised(ok) \/ Enabled(ok) \/ FirstUpdated(ok)
  PROVE  Kept(entry, entry')
<1>1. Sound(entry) /\ entry \in Entry /\ entry.turn.epoch \in Epoch
  BY AtWork DEF GuardPasses, Initialised, Enabled, FirstUpdated
<1>2. /\ \A f \in {CleanUp(entry), Fail(entry)} : Kept(entry, f)
      /\ Kept(entry, Await(entry, "update"))
  BY OperatorsKept DEF Phase, Enabling
<1>3. CASE GuardPasses
  <2>1. PICK lifecycle \in {"enabled", "enabling", "disabled", "disabling"} :
          \E r \in Reentries([entry EXCEPT !.lifecycle = lifecycle]) : entry' \in Transitions(r)
    BY <1>3 DEF GuardPasses
  <2> DEFINE z == [entry EXCEPT !.lifecycle = lifecycle]
  <2>2. PICK r \in Reentries(z) : entry' \in Transitions(r)
    BY <2>1
  <2>3. 0 \in 0..MaxEpoch
    BY LayerAssumption DEF LayerAssumption
  <2>4. Sound(z) /\ Alike(entry, z)
    BY <1>1, <2>3, PresentedLemma DEF Alike, Same, Entry
  <2> HIDE DEF z
  <2>5. Kept(entry, z)
    BY <2>4, AlikeKept
  <2>6. Kept(entry, r)
    BY <2>2, <2>5, ReentryKept
  <2> QED
    BY <2>2, <2>6, TransitionsKept
<1>4. CASE Initialised(ok)
  <2> DEFINE i == [entry EXCEPT !.initialized = TRUE]
  <2>1. entry' \in EnableCalls(i) \/ entry' \in {CleanUp(entry), Fail(entry)}
    BY <1>4, RejectedLemma DEF Initialised
  <2>2. i \in Entry /\ Alike(entry, i)
    BY <1>1 DEF Alike, Same, Entry
  <2>3. /\ i.enabled = entry.enabled /\ i.interval = entry.interval /\ i.timers = entry.timers
        /\ i.chain = entry.chain /\ i.epoch = entry.epoch /\ i.turn = entry.turn
    BY <1>1 DEF Entry
  <2> HIDE DEF i
  <2>4. Sound(i)
    BY <1>1, <2>2, <2>3 DEF Sound
  <2>5. Kept(entry, i)
    BY <2>2, <2>4, AlikeKept
  <2> QED
    BY <1>2, <2>1, <2>5, EnableCallsKept
<1>5. CASE Enabled(ok)
  BY <1>2, <1>5, RejectedLemma DEF Enabled
<1>6. CASE FirstUpdated(ok)
  <2>1. CASE ~(ok /\ ~entry.turn.aborted)
    BY <1>2, <1>6, <2>1, RejectedLemma DEF FirstUpdated
  <2>2. CASE ok /\ ~entry.turn.aborted
    <3> DEFINE e == Known(entry, TRUE)
    <3>1. PICK s \in Settlements(e) :
            entry' = IF Superseded(s) \/ s.turn.aborted THEN CleanUp(s)
                     ELSE Finished(Looping(s), "granted")
      BY <1>6, <2>2 DEF FirstUpdated
    <3>2. Kept(entry, e) /\ Sound(e) /\ e.enabled /\ e.turn.epoch \in Epoch
      BY <1>1, OperatorsKept, KnownLemma
    <3> HIDE DEF e
    <3>3. Kept(entry, s) /\ s.turn.epoch \in Epoch /\ s.enabled /\ Sound(s)
      BY <3>1, <3>2, SettlementKept, SettlementLemma DEF Like
    <3> DEFINE l == Looping(s)
    <3>4. Kept(entry, l) /\ l.turn.epoch \in Epoch
      BY <3>3, OperatorsKept, LoopingLemma
    <3> HIDE DEF l
    <3>5. Kept(entry, Finished(l, "granted"))
      BY <3>4, FinishedKept
    <3> QED
      BY <3>1, <3>3, <3>5, OperatorsKept DEF l
  <2> QED
    BY <2>1, <2>2
<1> QED
  BY <1>3, <1>4, <1>5, <1>6

(* A turn that adopts, is refused, cleans up or disables the layer.            *)
LEMMA EndingKept ==
  ASSUME LayerInv, Kept(entry, entry), NEW ok \in BOOLEAN,
         \/ AdoptionOvertaken \/ AdoptionWithdrawn \/ Adopted \/ GuardRefuses
         \/ CleanedUp(ok) \/ FailureCleanedUp(ok) \/ DisabledRejected(ok) \/ Disabled
         \/ Reenabled(ok) \/ Redisabled(ok)
  PROVE  Kept(entry, entry')
<1>1. /\ Sound(entry) /\ OfTurn(entry) /\ entry \in Entry /\ entry.turn.epoch \in Epoch
      /\ entry.epoch \in 0..MaxEpoch /\ 0 \in 0..MaxEpoch
      /\ "reenable" \in Phase /\ "redisable" \in Phase
      /\ "granted" \in {"granted", "refused"} /\ "refused" \in {"granted", "refused"}
  <2>1. entry.turn.phase # "idle"
    BY DEF AdoptionOvertaken, AdoptionWithdrawn, Adopted, Adoptable, GuardRefuses, CleanedUp,
       FailureCleanedUp, DisabledRejected, Disabled, Reenabled, Redisabled
  <2>2. Sound(entry) /\ OfTurn(entry) /\ entry \in Entry /\ entry.turn.epoch \in Epoch
    BY <2>1, AtWork
  <2> QED
    BY <2>2, LayerAssumption DEF Entry, Phase, LayerAssumption
<1> DEFINE c == ClearTimer(entry)
           u == Unknown(entry)
<1>2. /\ Kept(entry, c) /\ ~c.interval /\ c.turn = entry.turn
      /\ Kept(entry, u) /\ u.turn.epoch \in Epoch
      /\ Kept(entry, Await(entry, "reenable")) /\ Kept(entry, Await(entry, "redisable"))
  <2>1. Kept(entry, c) /\ Kept(entry, u) /\ Kept(entry, Await(entry, "reenable")) /\ Kept(entry, Await(entry, "redisable"))
    BY <1>1, OperatorsKept
  <2>2. ~c.interval /\ c.turn = entry.turn
    BY <1>1, ClearLemma
  <2>3. Alike(entry, u)
    BY <1>1, AlikeFields
  <2> QED
    BY <1>1, <2>1, <2>2, <2>3 DEF Alike, Same
<1> HIDE DEF c, u
<1>3. ASSUME NEW b \in BOOLEAN, NEW e, Kept(entry, e), e.turn.epoch \in Epoch, b \/ ~e.interval
      PROVE  Kept(entry, Known(e, b)) /\ Known(e, b).turn.epoch \in Epoch
  BY <1>3, OperatorsKept, AlikeFields DEF Kept, Told, Alike, Same
<1>4. ASSUME NEW e, Kept(entry, e), e.turn.epoch \in Epoch, entry' \in Ends(e, "refused")
      PROVE  Kept(entry, entry')
  BY <1>4, EndsKept
<1>5. CASE AdoptionOvertaken \/ AdoptionWithdrawn
  <2>1. PICK a \in 0..MaxEpoch :
          \/ entry' = Finished(Moving([entry EXCEPT !.adopt = a]), "refused")
          \/ entry' = Finished(Settled([entry EXCEPT !.adopt = a]), "refused")
    BY <1>1, <1>5 DEF AdoptionOvertaken, AdoptionWithdrawn
  <2> DEFINE z == [entry EXCEPT !.adopt = a]
  <2>2. Kept(entry, z) /\ Alike(entry, z)
    BY <1>1, OperatorsKept, AlikeFields
  <2>3. PICK s : s \in {Moving(z), Settled(z)} /\ entry' = Finished(s, "refused")
    BY <2>1
  <2> HIDE DEF z
  <2>4. Kept(entry, s) /\ Alike(z, s)
    BY <2>2, <2>3, OperatorsKept, AlikeFields DEF Kept, Told
  <2>5. s.turn.epoch \in Epoch
    BY <1>1, <2>2, <2>4 DEF Alike, Same
  <2> QED
    BY <1>1, <2>3, <2>4, <2>5, FinishedKept
<1>6. CASE Adopted
  <2>1. PICK s \in Settlements(entry) :
          entry' = Finished(s, IF Superseded(s) THEN "refused" ELSE "granted")
    BY <1>6 DEF Adopted
  <2>2. Kept(entry, s) /\ s.turn.epoch \in Epoch
    BY <1>1, <2>1, SettlementKept
  <2> QED
    BY <1>1, <2>1, <2>2, FinishedKept
<1>7. CASE GuardRefuses
  BY <1>1, <1>7, FinishedKept DEF GuardRefuses
<1>8. CASE CleanedUp(ok)
  <2>1. CASE ok
    <3>1. ~entry.interval
      BY <1>1, <1>8 DEF CleanedUp, OfTurn
    <3>2. Kept(entry, Known(entry, FALSE)) /\ Known(entry, FALSE).turn.epoch \in Epoch
      BY <1>1, <1>3, <3>1
    <3> QED
      BY <1>4, <1>8, <2>1, <3>2 DEF CleanedUp
  <2>2. CASE ~ok
    BY <1>2, <1>4, <1>8, <2>2 DEF CleanedUp, u
  <2> QED
    BY <2>1, <2>2
<1>9. CASE DisabledRejected(ok)
  BY <1>2, <1>4, <1>9 DEF DisabledRejected, u
<1>10. CASE Disabled
  <2>1. CASE entry.turn.aborted
    BY <1>2, <1>10, <2>1 DEF Disabled
  <2>2. CASE ~entry.turn.aborted
    <3> DEFINE e == Known(c, FALSE)
    <3>1. PICK s \in Settlements(e) :
            entry' = IF Superseded(s) \/ s.turn.aborted THEN Await(s, "reenable")
                     ELSE Finished(s, "granted")
      BY <1>10, <2>2 DEF Disabled, c
    <3>2. Kept(entry, e) /\ e.turn.epoch \in Epoch
      BY <1>1, <1>2, <1>3
    <3> HIDE DEF e
    <3>3. Kept(entry, s) /\ s.turn.epoch \in Epoch
      BY <3>1, <3>2, SettlementKept
    <3>4. Kept(entry, Await(s, "reenable")) /\ Kept(entry, Finished(s, "granted"))
      BY <1>1, <3>3, OperatorsKept, FinishedKept
    <3> QED
      BY <3>1, <3>4
  <2> QED
    BY <2>1, <2>2
<1>11. CASE Reenabled(ok)
  <2>1. Kept(entry, Known(entry, TRUE)) /\ Known(entry, TRUE).turn.epoch \in Epoch
    BY <1>1, <1>3
  <2> QED
    BY <1>2, <1>4, <1>11, <2>1 DEF Reenabled
<1>12. CASE Redisabled(ok)
  <2>1. Kept(entry, Known(c, FALSE)) /\ Known(c, FALSE).turn.epoch \in Epoch
    BY <1>1, <1>2, <1>3
  <2> QED
    BY <1>2, <1>4, <1>12, <2>1 DEF Redisabled, c, u
<1>13. CASE FailureCleanedUp(ok)
  <2> DEFINE e == IF ok THEN Known(entry, FALSE) ELSE u
  <2>1. ~entry.interval
    BY <1>1, <1>13 DEF FailureCleanedUp, OfTurn
  <2>2. Kept(entry, e) /\ e.turn.epoch \in Epoch
    BY <1>1, <1>2, <1>3, <2>1
  <2>6. PICK s \in Settlements(e) :
          \E r \in Reentries(s) \cup {s} : entry' = Finished(r, "refused")
    BY <1>13 DEF FailureCleanedUp, u
  <2>3. PICK r \in Reentries(s) \cup {s} : entry' = Finished(r, "refused")
    BY <2>6
  <2> HIDE DEF e
  <2>4. Kept(entry, s) /\ s.turn.epoch \in Epoch
    BY <2>2, <2>6, SettlementKept
  <2>5. Kept(entry, r) /\ r.turn.epoch \in Epoch
    BY <2>3, <2>4, ReentryKept
  <2> QED
    BY <1>1, <2>3, <2>5, FinishedKept
<1> QED
  BY <1>5, <1>6, <1>7, <1>8, <1>9, <1>10, <1>11, <1>12, <1>13

LEMMA StepKept == LayerInv /\ Kept(entry, entry) /\ [Next]_vars => Kept(entry, entry')
<1> SUFFICES ASSUME LayerInv, Kept(entry, entry), [Next]_vars PROVE Kept(entry, entry')
  OBVIOUS
<1>1. Sound(entry')
  BY StepHolds DEF LayerInv, Good
<1>2. CASE UNCHANGED vars
  BY <1>2 DEF vars
<1>3. CASE \/ Callers \/ Drained \/ Refreshed \/ AbortCleanupSettles \/ StrayDisabled
           \/ \E ok \in BOOLEAN : DestroyDisabled(ok) \/ Destroyed(ok)
  BY <1>1, <1>3, CallersKept
<1>4. CASE \/ SupersededTurn \/ WithdrawnTurn \/ AdoptionTurn \/ IdempotentTurn \/ ToggleTurn
           \/ AdoptionBlocked
  BY <1>4, TurnsKept, AdoptionBlockedKept
<1>5. CASE \/ GuardPasses
           \/ \E ok \in BOOLEAN : Initialised(ok) \/ Enabled(ok) \/ FirstUpdated(ok)
  BY <1>5, EnablingKept
<1>6. CASE \/ AdoptionOvertaken \/ AdoptionWithdrawn \/ Adopted \/ GuardRefuses \/ Disabled
           \/ \E ok \in BOOLEAN : CleanedUp(ok) \/ FailureCleanedUp(ok)
           \/ \E aborts \in BOOLEAN : DisabledRejected(aborts)
           \/ \E ok \in BOOLEAN : Reenabled(ok) \/ Redisabled(ok)
  BY <1>6, EndingKept
<1> QED
  BY <1>2, <1>3, <1>4, <1>5, <1>6 DEF Next, Work

LEMMA InitKept == Init => Kept(entry, entry)
<1> SUFFICES ASSUME Init PROVE Kept(entry, entry)
  OBVIOUS
<1>1. Sound(entry)
  BY InitHolds DEF LayerInv, Good
<1>2. /\ entry.epoch = 0
      /\ \A k \in Epoch : entry.records[k].answer = "none"
  BY DEF Init
<1> QED
  <2>1. Told(entry)
    BY <1>1, <1>2, EpochIsPositive DEF Told, Speaks
  <2>2. 1..Len(entry.chain) = {} /\ entry.turn.epoch = 0
    BY DEF Init, NoTurn
  <2>3. \A k \in Epoch : ~Waits(entry, k)
    BY <2>2, EpochIsPositive DEF Waits
  <2> QED
    BY <1>2, <2>1, <2>2, <2>3 DEF Kept, Served, Stands

LEMMA KeptHolds == Spec => []Kept(entry, entry)
<1>1. LayerInv /\ Kept(entry, entry) /\ [Next]_vars => Kept(entry, entry)'
  BY StepKept DEF Kept, Stands
<1> QED
  BY InitKept, Inductive, <1>1, PTL DEF Spec

(* From the moment a request is made to its answer, the effective visibility   *)
(* of a layer that no Clear All has reserved is the one asked for last, or the *)
(* one that its compensation works towards (_effectiveEnabled()).              *)
THEOREM NewestIsEffective == Spec => []EffectiveIsNewest
<1>1. Spec => []Kept(entry, entry)
  BY KeptHolds
<1>2. Kept(entry, entry) => EffectiveIsNewest
  <2> DEFINE k == entry.epoch
  <2> SUFFICES ASSUME Kept(entry, entry), k # 0, Answer(k) = "pending", entry.reserved # k
               PROVE  EffectiveEnabled(entry) = Wanted(entry)
    BY DEF EffectiveIsNewest, Wanted
  <2>1. k \in Epoch
    BY LayerAssumption DEF Kept, Told, Sound, Entry, Epoch, LayerAssumption
  <2>2. entry.queued.epoch = k /\ entry.queued.want = Wanted(entry)
    BY <2>1 DEF Kept, Told, Speaks, Answer
  <2> QED
    BY <2>2 DEF EffectiveEnabled
<1> QED
  BY <1>1, <1>2, PTL

(* A layer at rest has answered every request: none is left in a turn that     *)
(* nobody runs, whoever superseded, aborted or overtook it.                    *)
NoneForgotten == AtRest => \A k \in Epoch : Answer(k) # "pending"

(* No request is forgotten: without an answer it has exactly one turn, under   *)
(* way or to come (_enqueueToggle()); what RequestsEnd needs besides fairness. *)
THEOREM RequestsServed == Spec => []NoneForgotten
<1>1. Kept(entry, entry) /\ LayerInv => NoneForgotten
  <2> SUFFICES ASSUME Kept(entry, entry), LayerInv, AtRest, NEW k \in Epoch
               PROVE  Answer(k) # "pending"
    BY DEF NoneForgotten
  <2>1. entry.turn.epoch = 0 /\ 1..Len(entry.chain) = {}
    BY DEF AtRest, LayerInv, Good, OfTurn, NoTurn
  <2>2. ~Waits(entry, k)
    BY <2>1, EpochIsPositive DEF Waits
  <2> QED
    BY <2>2 DEF Kept, Served, Answer
<1> QED
  BY KeptHolds, Inductive, <1>1, PTL

(* The answers of a layer: once given, granted or refused, one is never        *)
(* changed, and no request gets the epoch of another.                          *)
AnswersStand ==
  [][\A k \in Epoch : Answer(k) \in {"granted", "refused"} => Answer(k)' = Answer(k)]_vars

(* A caller may rely on its answer, whatever comes later: a turn answers its   *)
(* own request, which has none, and a request takes an epoch nobody has had.   *)
THEOREM AnswersAreFinal == Spec => AnswersStand
<1>1. LayerInv /\ Kept(entry, entry) /\ [Next]_vars
        => [\A k \in Epoch : Answer(k) \in {"granted", "refused"} => Answer(k)' = Answer(k)]_vars
  BY StepKept DEF Kept, Stands, Answer
<1> QED
  BY KeptHolds, Inductive, <1>1, PTL DEF Spec, AnswersStand

================================================================================
