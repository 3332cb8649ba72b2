--------------------------- MODULE MonitoringProofs ---------------------------
(* Proofs about MonitoringScheduler. *)
EXTENDS MonitoringProps, FiniteSetTheorems, TLAPS

(* Coalescing moves a schedule forward by at least one interval. *)
LEMMA NextAdvances ==
  ASSUME NEW n \in Nat, NEW at \in Nat, n <= at, NEW i \in Nat \ {0}
  PROVE  /\ (at - n) \div i \in Nat
         /\ n + ((at - n) \div i + 1) * i \in Nat
         /\ n + ((at - n) \div i + 1) * i > n
<1> DEFINE q == (at - n) \div i
<1>1. q \in Nat
  <2>1. at - n \in Nat
    OBVIOUS
  <2> QED
    BY <2>1
<1> HIDE DEF q
<1>2. (q + 1) * i \in Nat /\ (q + 1) * i >= i
  <2>1. q * i \in Nat
    BY <1>1
  <2>2. (q + 1) * i = q * i + i
    BY <1>1
  <2> QED
    BY <2>1, <2>2
<1> QED
  BY <1>1, <1>2 DEF q

LEMMA InitTypeOK == Init => TypeOK
<1> SUFFICES ASSUME Init PROVE TypeOK
  OBVIOUS
<1> USE ScheduleAssumption, ClockAssumption
<1> QED
  BY DEF Init, TypeOK, Time

(* A slot that is claimed is in the past of the call that claims it. *)
LEMMA ClaimedSlot ==
  ASSUME TypeOK, NEW c \in Call, NEW s \in Schedule, Claim(c, s)
  PROVE  /\ <<s, next[s]>> \in Occurrence /\ next[s] <= instant[c]
         /\ status[<<s, next[s]>>] = "none"
         /\ next' \in [Schedule -> Nat]
         /\ \A u \in Schedule : next'[u] >= next[u]
         /\ next'[s] > next[s]
<1>1. next[s] <= instant[c] /\ status[<<s, next[s]>>] = "none"
  BY DEF Claim, Claimable, Due
<1>2. next[s] \in Nat /\ instant[c] \in Nat /\ interval[s] \in Nat \ {0} /\ MaxTime \in Nat
      /\ instant[c] <= MaxTime
  <2>1. next[s] \in Nat /\ interval[s] \in Intervals /\ instant[c] \in 0..MaxTime
    BY DEF TypeOK, Time
  <2>2. interval[s] \in Nat \ {0}
    BY <2>1, ClockAssumption
  <2>3. MaxTime \in Nat
    BY ClockAssumption
  <2>4. instant[c] \in Nat /\ instant[c] <= MaxTime
    BY <2>1, <2>3
  <2> QED
    BY <2>1, <2>2, <2>3, <2>4
<1>3. next' = [next EXCEPT ![s] = next[s] + (Missed(s, instant[c]) + 1) * interval[s]]
  BY DEF Claim
<1> DEFINE later == next[s] + (Missed(s, instant[c]) + 1) * interval[s]
<1>4. later \in Nat /\ later > next[s]
  BY <1>1, <1>2, NextAdvances DEF Missed
<1> HIDE DEF later
<1>5. next' = [next EXCEPT ![s] = later]
  BY <1>3 DEF later
<1> QED
  BY <1>1, <1>2, <1>4, <1>5 DEF TypeOK, Occurrence, Time

LEMMA ClaimingTypeOK ==
  ASSUME TypeOK, NEW c \in Call, Claiming(c)
  PROVE  TypeOK'
<1> USE DEF schedules, runs, process, calls, tasks, Holding, Ended, Settled, Finished
<1>1. CASE AcquireLock(c)
  BY <1>1 DEF AcquireLock, TypeOK
<1>2. CASE Dispatch(c)
  BY <1>2 DEF Dispatch, TypeOK
<1>3. ASSUME NEW s \in Schedule, Claim(c, s)
      PROVE  TypeOK'
  <2> DEFINE o == <<s, next[s]>>
  <2>1. o \in Occurrence /\ next' \in [Schedule -> Nat]
    BY <1>3, ClaimedSlot
  <2>2. /\ status' = [status EXCEPT ![o] = "running"]
        /\ lease' = [lease EXCEPT ![o] = instant[c] + LeaseTime]
        /\ recorded' = [recorded EXCEPT ![o] = revision[s]]
        /\ claims' = [claims EXCEPT ![c] = @ \cup {o}]
        /\ dispatch' = [dispatch EXCEPT ![o] = "claimed"]
        /\ todo' = [todo EXCEPT ![c] = @ \ {s}]
        /\ UNCHANGED <<now, enabled, interval, revision, process, call, instant, snapshot,
                       beat, executed>>
    BY <1>3 DEF Claim
  <2>3. instant[c] + LeaseTime \in Nat
    BY ClockAssumption DEF TypeOK, Time
  <2> HIDE DEF o
  <2> QED
    BY <2>1, <2>2, <2>3 DEF TypeOK
<1>4. ASSUME NEW s \in Schedule, Decline(c, s)
      PROVE  TypeOK'
  BY <1>4 DEF Decline, TypeOK
<1> QED
  BY <1>1, <1>2, <1>3, <1>4 DEF Claiming

LEMMA ExecutionsTypeOK ==
  ASSUME TypeOK, NEW c \in Call, NEW o \in Occurrence,
         \/ StartExecution(c, o) \/ MissionNotActive(c, o) \/ EndExecution(c, o)
         \/ Heartbeat(c, o) \/ CancelExecution(c, o)
  PROVE  TypeOK'
<1> USE ClockAssumption DEF schedules, runs, process, calls, tasks, Holding, Ended, Settled, Finished
<1>1. CASE StartExecution(c, o)
  BY <1>1 DEF StartExecution, TypeOK, Time
<1>2. CASE MissionNotActive(c, o)
  BY <1>2 DEF MissionNotActive, FinishRun, TypeOK
<1>3. CASE EndExecution(c, o)
  BY <1>3 DEF EndExecution, FinishRun, TypeOK
<1>4. CASE Heartbeat(c, o)
  BY <1>4 DEF Heartbeat, TypeOK, Time
<1>5. CASE CancelExecution(c, o)
  BY <1>5 DEF CancelExecution, End, TypeOK
<1> QED
  BY <1>1, <1>2, <1>3, <1>4, <1>5

LEMMA NextTypeOK == TypeOK /\ [Next]_vars => TypeOK'
<1> SUFFICES ASSUME TypeOK, [Next]_vars PROVE TypeOK'
  OBVIOUS
<1> USE ClockAssumption DEF schedules, runs, process, calls, tasks, Holding, Ended, Settled, Finished
<1>1. CASE Edit
  <2> PICK s \in Schedule :
        SetEnabled(s) \/ ReviseQuery(s) \/ \E i \in Intervals : ReviseInterval(s, i)
    BY <1>1 DEF Edit
  <2>1. CASE SetEnabled(s)
    BY <2>1 DEF SetEnabled, TypeOK, Time
  <2>2. CASE ReviseQuery(s)
    BY <2>2 DEF ReviseQuery, TypeOK
  <2>3. ASSUME NEW i \in Intervals, ReviseInterval(s, i)
        PROVE  TypeOK'
    <3>1. now + i \in Nat
      BY DEF TypeOK, Time
    <3> QED
      BY <2>3, <3>1 DEF ReviseInterval, TypeOK
  <2> QED
    BY <2>1, <2>2, <2>3
<1>2. CASE Tick
  BY <1>2 DEF Tick, TypeOK, Time
<1>3. ASSUME NEW w \in Worker, StartWorker(w) \/ Crash(w)
      PROVE  TypeOK'
  BY <1>3 DEF StartWorker, Crash, TypeOK
<1>4. ASSUME NEW c \in Call, RunDue(c) \/ Cancel(c)
      PROVE  TypeOK'
  <2>1. CASE RunDue(c)
    BY <2>1 DEF RunDue, TypeOK
  <2>2. CASE CancelWaiting(c)
    BY <2>2 DEF CancelWaiting, End, TypeOK
  <2>3. CASE CancelGathering(c)
    BY <2>3 DEF CancelGathering, End, TypeOK
  <2> QED
    BY <1>4, <2>1, <2>2, <2>3 DEF Cancel
<1>5. ASSUME NEW c \in Call,
             GatherReturns(c) \/ GatherRaises(c) \/ GatherCancelled(c) \/ FinalizeClaims(c)
      PROVE  TypeOK'
  BY <1>5 DEF GatherReturns, GatherRaises, GatherCancelled, FinalizeClaims, End, TypeOK
<1>6. CASE UNCHANGED vars
  BY <1>6 DEF vars, TypeOK
<1> QED
  BY <1>1, <1>2, <1>3, <1>4, <1>5, <1>6, ClaimingTypeOK, ExecutionsTypeOK
  DEF Next, Executions, Gathering

(* Every variable keeps its type. *)
THEOREM TypeCorrect == Spec => []TypeOK
<1>1. Init => TypeOK
  BY InitTypeOK
<1>2. TypeOK /\ [Next]_vars => TypeOK'
  BY NextTypeOK
<1> QED
  BY <1>1, <1>2, PTL DEF Spec

--------------------------------------------------------------------------------
(* The repository: slots and schedules *)

(* A claimed slot lies in the past and before next_run_at; a call read the   *)
(* clock in the past.                                                        *)
SlotInv ==
  /\ \A c \in Call : instant[c] <= now
  /\ \A s \in Schedule : \A t \in Time :
       status[<<s, t>>] # "none" => t <= now /\ t < next[s]

(* What a step does to the runs: a claim creates one, the others keep theirs. *)
LEMMA RunSteps ==
  ASSUME TypeOK, [Next]_vars
  PROVE  \/ \E c \in Call : \E s \in Schedule : Claim(c, s)
         \/ \A o \in Occurrence :
              /\ status'[o] = status[o] \/ (status[o] = "running" /\ status'[o] \in Settled)
              /\ status[o] = "none" <=> status'[o] = "none"
<1> USE DEF schedules, runs, process, calls, tasks, Settled
<1>2. ASSUME NEW c \in Call, RunDue(c) \/ Cancel(c)
      PROVE  UNCHANGED status
  BY <1>2 DEF RunDue, Cancel, CancelWaiting, CancelGathering
<1>3. ASSUME NEW c \in Call, AcquireLock(c)
      PROVE  \A o \in Occurrence :
               status'[o] = IF o \in Expired(c) THEN "expired" ELSE status[o]
  BY <1>3 DEF AcquireLock
<1>4. ASSUME NEW c \in Call, Dispatch(c) \/ \E s \in Schedule : Decline(c, s)
      PROVE  UNCHANGED status
  BY <1>4 DEF Dispatch, Decline
<1>5. ASSUME NEW c \in Call, NEW o \in Occurrence,
             \/ StartExecution(c, o) \/ MissionNotActive(c, o) \/ EndExecution(c, o)
             \/ Heartbeat(c, o) \/ CancelExecution(c, o)
      PROVE  \/ UNCHANGED status
             \/ /\ status[o] = "running"
                /\ \E r \in Settled : status' = [status EXCEPT ![o] = r]
  BY <1>5 DEF StartExecution, MissionNotActive, EndExecution, Heartbeat, CancelExecution,
     FinishRun
<1>6. ASSUME NEW c \in Call,
             GatherReturns(c) \/ GatherRaises(c) \/ GatherCancelled(c) \/ FinalizeClaims(c)
      PROVE  \/ UNCHANGED status
             \/ \A o \in Occurrence : \/ status'[o] = status[o]
                                      \/ status[o] = "running" /\ status'[o] = "failed"
  BY <1>6 DEF GatherReturns, GatherRaises, GatherCancelled, FinalizeClaims
<1>7. ASSUME NEW c \in Call, NEW o \in Occurrence, NEW r \in Settled,
             status[o] = "running", status' = [status EXCEPT ![o] = r]
      PROVE  \A p \in Occurrence :
               /\ status'[p] = status[p] \/ (status[p] = "running" /\ status'[p] \in Settled)
               /\ status[p] = "none" <=> status'[p] = "none"
  BY <1>7 DEF TypeOK
<1>8. CASE UNCHANGED status
  BY <1>8
<1>9. Next => \/ Edit \/ Tick \/ \E w \in Worker : StartWorker(w) \/ Crash(w)
              \/ \E c \in Call :
                   \/ RunDue(c) \/ Cancel(c) \/ AcquireLock(c)
                   \/ \E s \in Schedule : Claim(c, s)
                   \/ Dispatch(c) \/ \E s \in Schedule : Decline(c, s)
                   \/ GatherReturns(c) \/ GatherRaises(c) \/ GatherCancelled(c)
                   \/ FinalizeClaims(c)
                   \/ \E o \in Occurrence :
                        \/ StartExecution(c, o) \/ MissionNotActive(c, o)
                        \/ EndExecution(c, o) \/ Heartbeat(c, o) \/ CancelExecution(c, o)
  BY DEF Next, Claiming, Executions, Gathering
<1>10. ASSUME NEW c \in Call, AcquireLock(c)
       PROVE  \A o \in Occurrence :
                /\ status'[o] = status[o] \/ (status[o] = "running" /\ status'[o] \in Settled)
                /\ status[o] = "none" <=> status'[o] = "none"
  BY <1>3, <1>10 DEF Expired
<1>1. CASE \/ Edit \/ Tick \/ UNCHANGED vars
            \/ \E w \in Worker : StartWorker(w) \/ Crash(w)
  BY <1>1, <1>8 DEF Edit, SetEnabled, ReviseQuery, ReviseInterval, Tick, vars, StartWorker, Crash
<1> QED
  BY <1>2, <1>4, <1>5, <1>6, <1>7, <1>8, <1>9, <1>10, <1>1

(* Only a claim and an edit touch next_run_at, and no step turns it back to a *)
(* slot that may have been claimed.                                           *)
LEMMA NextSteps ==
  ASSUME TypeOK, [Next]_vars, NEW s \in Schedule
  PROVE  next'[s] >= next[s] \/ next'[s] > now
<1> USE DEF schedules, runs, process, calls, tasks
<1> next[s] \in Nat /\ now \in Nat
  BY ClockAssumption DEF TypeOK, Time
<1>1. ASSUME NEW u \in Schedule, SetEnabled(u)
      PROVE  next'[s] >= next[s]
  BY <1>1 DEF SetEnabled, TypeOK
<1>2. ASSUME NEW u \in Schedule, NEW i \in Intervals, ReviseInterval(u, i)
      PROVE  next'[s] >= next[s] \/ next'[s] > now
  <2>1. i \in Nat \ {0}
    BY ClockAssumption
  <2> QED
    BY <1>2, <2>1 DEF ReviseInterval, TypeOK
<1>3. ASSUME NEW c \in Call, NEW u \in Schedule, Claim(c, u)
      PROVE  next'[s] >= next[s]
  BY <1>3, ClaimedSlot
<1>4. CASE UNCHANGED next
  BY <1>4
<1>5. Next => \/ \E u \in Schedule : SetEnabled(u) \/ \E i \in Intervals : ReviseInterval(u, i)
              \/ \E c \in Call : \E u \in Schedule : Claim(c, u)
              \/ UNCHANGED next
  BY DEF Next, Edit, ReviseQuery, Tick, StartWorker, Crash, RunDue, Claiming, AcquireLock,
     Dispatch, Decline, Executions, StartExecution, MissionNotActive, EndExecution, Gathering,
     GatherReturns, GatherRaises, GatherCancelled, FinalizeClaims, CancelExecution, Cancel,
     CancelWaiting, CancelGathering, Heartbeat
<1> QED
  BY <1>1, <1>2, <1>3, <1>4, <1>5 DEF vars

LEMMA StepSlotInv ==
  ASSUME TypeOK, TypeOK', SlotInv, [Next]_vars
  PROVE  SlotInv'
<1> now \in Nat /\ now' \in Nat
  BY ClockAssumption DEF TypeOK, Time
<1>1. now' >= now
  <2>1. Next => Tick \/ UNCHANGED now
    <3>1. Edit \/ (\E w \in Worker : StartWorker(w) \/ Crash(w)) => UNCHANGED now
      BY DEF Edit, SetEnabled, ReviseQuery, ReviseInterval, StartWorker, Crash
    <3>2. ASSUME NEW c \in Call, RunDue(c) \/ Claiming(c) \/ Cancel(c) PROVE UNCHANGED now
      BY <3>2 DEF RunDue, Claiming, Claim, Decline, AcquireLock, Dispatch, Cancel,
         CancelWaiting, CancelGathering
    <3>3. ASSUME NEW c \in Call, Executions(c) \/ Gathering(c) \/ \E o \in Occurrence : Heartbeat(c, o)
          PROVE  UNCHANGED now
      BY <3>3 DEF Executions, StartExecution, MissionNotActive, EndExecution, Gathering,
         GatherReturns, GatherRaises, GatherCancelled, FinalizeClaims, CancelExecution,
         Heartbeat
    <3> QED
      BY <3>1, <3>2, <3>3 DEF Next
  <2>2. Tick => now' = now + 1
    BY DEF Tick
  <2> QED
    BY <2>1, <2>2 DEF vars
<1>2. ASSUME NEW c \in Call PROVE instant'[c] <= now'
  <2>1. instant[c] <= now /\ instant[c] \in Nat
    BY ClockAssumption DEF SlotInv, TypeOK, Time
  <2>2. CASE \E d \in Call : RunDue(d)
    <3> PICK d \in Call : instant' = [instant EXCEPT ![d] = now] /\ now' = now
      BY <2>2 DEF RunDue
    <3>1. instant'[c] = IF c = d THEN now ELSE instant[c]
      BY DEF TypeOK
    <3> QED
      BY <2>1, <3>1
  <2>3. CASE UNCHANGED instant
    BY <2>1, <2>3, <1>1
  <2>4. Next => (\E d \in Call : RunDue(d)) \/ UNCHANGED instant
    <3>1. Edit \/ Tick \/ (\E w \in Worker : StartWorker(w) \/ Crash(w)) => UNCHANGED instant
      BY DEF Edit, SetEnabled, ReviseQuery, ReviseInterval, Tick, StartWorker, Crash, calls
    <3>2. ASSUME NEW d \in Call, Claiming(d) \/ Cancel(d) PROVE UNCHANGED instant
      BY <3>2 DEF Claiming, Claim, Decline, AcquireLock, Dispatch, Cancel, CancelWaiting,
         CancelGathering
    <3>3. ASSUME NEW d \in Call, Executions(d) \/ Gathering(d) \/ \E o \in Occurrence : Heartbeat(d, o)
          PROVE  UNCHANGED instant
      BY <3>3 DEF Executions, StartExecution, MissionNotActive, EndExecution, Gathering,
         GatherReturns, GatherRaises, GatherCancelled, FinalizeClaims, CancelExecution,
         Heartbeat, calls
    <3> QED
      BY <3>1, <3>2, <3>3 DEF Next
  <2> QED
    BY <2>2, <2>3, <2>4 DEF vars, calls
<1>3. ASSUME NEW s \in Schedule, NEW t \in Time, status'[<<s, t>>] # "none"
      PROVE  t <= now' /\ t < next'[s]
  <2> t \in Nat /\ next[s] \in Nat /\ next'[s] \in Nat
    BY ClockAssumption DEF TypeOK, Time
  <2>1. CASE status[<<s, t>>] # "none"
    <3>1. t <= now /\ t < next[s]
      BY <2>1 DEF SlotInv
    <3> QED
      BY <3>1, <1>1, NextSteps
  <2>2. CASE status[<<s, t>>] = "none"
    <3>1. <<s, t>> \in Occurrence
      BY DEF Occurrence
    <3>2. PICK c \in Call, u \in Schedule : Claim(c, u)
      BY <1>3, <2>2, <3>1, RunSteps
    <3>3. /\ <<u, next[u]>> \in Occurrence
          /\ status' = [status EXCEPT ![<<u, next[u]>>] = "running"]
          /\ next'[u] > next[u]
      BY <3>2, ClaimedSlot DEF Claim
    <3>4. u = s /\ t = next[u]
      <4>1. status'[<<s, t>>] # status[<<s, t>>]
        BY <1>3, <2>2
      <4>2. <<s, t>> = <<u, next[u]>>
        BY <3>1, <3>3, <4>1 DEF TypeOK
      <4> QED
        BY <4>2
    <3>5. next[u] <= instant[c] /\ instant[c] <= now /\ instant[c] \in Nat
      <4>1. instant[c] \in Time /\ instant[c] <= now /\ next[u] <= instant[c]
        BY <3>2, ClaimedSlot DEF SlotInv, TypeOK
      <4> QED
        BY <4>1, ClockAssumption DEF Time
    <3> QED
      BY <3>3, <3>4, <3>5, <1>1
  <2> QED
    BY <2>1, <2>2
<1> QED
  BY <1>2, <1>3 DEF SlotInv

(* A schedule cannot get stuck on a slot that already has a run, for any      *)
(* clock, edits and processes.                                                *)
THEOREM SlotsAreFresh == Spec => []NextIsFresh
<1>1. Init => SlotInv
  BY ClockAssumption DEF Init, SlotInv, Time, Occurrence
<1>2. TypeOK /\ TypeOK' /\ SlotInv /\ [Next]_vars => SlotInv'
  BY StepSlotInv
<1>3. SlotInv => NextIsFresh
  BY DEF SlotInv, NextIsFresh
<1> QED
  BY <1>1, <1>2, <1>3, TypeCorrect, PTL DEF Spec

LEMMA StepOneRunningRun ==
  ASSUME TypeOK, OneRunningRun, [Next]_vars
  PROVE  OneRunningRun'
<1> SUFFICES ASSUME NEW s \in Schedule \ Allow, NEW t \in Time, NEW u \in Time,
                    status'[<<s, t>>] = "running", status'[<<s, u>>] = "running"
             PROVE  t = u
  BY DEF OneRunningRun
<1>1. <<s, t>> \in Occurrence /\ <<s, u>> \in Occurrence
  BY DEF Occurrence
<1>2. CASE \E c \in Call : \E p \in Schedule : Claim(c, p)
  <2> PICK c \in Call, p \in Schedule : Claim(c, p)
    BY <1>2
  <2>1. /\ <<p, next[p]>> \in Occurrence
        /\ status' = [status EXCEPT ![<<p, next[p]>>] = "running"]
        /\ ~Blocked(p)
    BY ClaimedSlot DEF Claim, Claimable
  <2>2. CASE p = s
    <3>1. \A v \in Time : status[<<s, v>>] # "running"
      BY <2>1, <2>2 DEF Blocked
    <3>2. t = next[p] /\ u = next[p]
      BY <1>1, <2>1, <2>2, <3>1 DEF TypeOK
    <3> QED
      BY <3>2
  <2>3. CASE p # s
    <3>1. status[<<s, t>>] = "running" /\ status[<<s, u>>] = "running"
      BY <1>1, <2>1, <2>3 DEF TypeOK
    <3> QED
      BY <3>1 DEF OneRunningRun
  <2> QED
    BY <2>2, <2>3
<1>3. CASE \A o \in Occurrence : status'[o] = status[o] \/ status'[o] \in Settled
  BY <1>1, <1>3 DEF OneRunningRun, Settled
<1> QED
  BY <1>2, <1>3, RunSteps

(* Without overlap_policy="allow" no schedule has two running runs. *)
THEOREM AtMostOneRunningRun == Spec => []OneRunningRun
<1>1. Init => OneRunningRun
  BY DEF Init, OneRunningRun, Occurrence
<1>2. TypeOK /\ OneRunningRun /\ [Next]_vars => OneRunningRun'
  BY StepOneRunningRun
<1> QED
  BY <1>1, <1>2, TypeCorrect, PTL DEF Spec

(* The outcome of a settled run is never overwritten. *)
THEOREM OutcomesAreFinal == Spec => SettledIsFinal
<1>1. TypeOK /\ [Next]_vars =>
        [\A o \in Occurrence : status[o] \in Settled => status'[o] = status[o]]_vars
  <2> SUFFICES ASSUME TypeOK, [Next]_vars, NEW o \in Occurrence, status[o] \in Settled
               PROVE  status'[o] = status[o]
    OBVIOUS
  <2>1. CASE \E c \in Call : \E s \in Schedule : Claim(c, s)
    <3> PICK c \in Call, s \in Schedule : Claim(c, s)
      BY <2>1
    <3>1. /\ status[<<s, next[s]>>] = "none"
          /\ status' = [status EXCEPT ![<<s, next[s]>>] = "running"]
      BY ClaimedSlot DEF Claim
    <3> QED
      BY <3>1 DEF TypeOK, Settled
  <2> QED
    BY <2>1, RunSteps DEF Settled
<1> QED
  BY <1>1, TypeCorrect, PTL DEF Spec, SettledIsFinal

--------------------------------------------------------------------------------
(* The dispatches: no occurrence is executed twice *)

DispatchInv ==
  /\ \A o \in Occurrence :
       /\ executed[o] <= 1
       /\ dispatch[o] \in {"none", "claimed", "queued"} => executed[o] = 0
       /\ status[o] = "none" => dispatch[o] = "none"

ClaimsInv ==
  /\ \A c \in Call :
       /\ call[c] \in {"new", "waiting"} => claims[c] = {}
       /\ call[c] = "claiming" => \A o \in claims[c] : dispatch[o] = "claimed"
       /\ \A o \in claims[c] : status[o] # "none"
  /\ \A c, d \in Call : c # d => claims[c] \cap claims[d] = {}

ReplayInv == DispatchInv /\ ClaimsInv

LEMMA ClaimReplayInv ==
  ASSUME TypeOK, ReplayInv, NEW c \in Call, NEW s \in Schedule, Claim(c, s)
  PROVE  ReplayInv'
<1> DEFINE o == <<s, next[s]>>
<1>1. o \in Occurrence /\ status[o] = "none"
  BY ClaimedSlot
<1>2. /\ status' = [status EXCEPT ![o] = "running"]
      /\ claims' = [claims EXCEPT ![c] = @ \cup {o}]
      /\ dispatch' = [dispatch EXCEPT ![o] = "claimed"]
      /\ UNCHANGED <<call, executed>>
      /\ call[c] = "claiming"
  BY DEF Claim
<1> HIDE DEF o
<1>3. \A p \in Occurrence :
        /\ status'[p] = IF p = o THEN "running" ELSE status[p]
        /\ dispatch'[p] = IF p = o THEN "claimed" ELSE dispatch[p]
  BY <1>1, <1>2 DEF TypeOK
<1>4. \A d \in Call : claims'[d] = IF d = c THEN claims[c] \cup {o} ELSE claims[d]
  BY <1>2 DEF TypeOK
<1>5. \A d \in Call : o \notin claims[d] /\ claims[d] \subseteq Occurrence
  BY <1>1 DEF ReplayInv, ClaimsInv, TypeOK
<1>6. dispatch[o] = "none" /\ executed[o] = 0
  BY <1>1 DEF ReplayInv, DispatchInv
<1>7. DispatchInv'
  BY <1>2, <1>3, <1>6 DEF ReplayInv, DispatchInv
<1>8. ASSUME NEW d \in Call
      PROVE  /\ call'[d] \in {"new", "waiting"} => claims'[d] = {}
             /\ call'[d] = "claiming" => \A p \in claims'[d] : dispatch'[p] = "claimed"
             /\ \A p \in claims'[d] : status'[p] # "none"
  BY <1>1, <1>2, <1>3, <1>4, <1>5 DEF ReplayInv, ClaimsInv
<1>9. \A d, e \in Call : d # e => claims'[d] \cap claims'[e] = {}
  BY <1>4, <1>5 DEF ReplayInv, ClaimsInv
<1> QED
  BY <1>7, <1>8, <1>9 DEF ReplayInv, ClaimsInv

(* A step that keeps the claims and moves some dispatches on. *)
DispatchesMove ==
  /\ UNCHANGED claims
  /\ \A c \in Call :
       /\ call'[c] \in {"new", "waiting"} => call[c] \in {"new", "waiting"}
       /\ call'[c] = "claiming" =>
            /\ call[c] \in {"waiting", "claiming"}
            /\ \A o \in claims[c] : dispatch'[o] = dispatch[o]
  /\ \A o \in Occurrence :
       \/ dispatch'[o] = dispatch[o] /\ executed'[o] = executed[o]
       \/ /\ dispatch[o] \in {"claimed", "queued"} /\ executed'[o] = executed[o]
          /\ dispatch'[o] # "none"
       \/ /\ dispatch[o] \notin {"none", "claimed", "queued"} /\ executed'[o] = executed[o]
          /\ dispatch'[o] \notin {"none", "claimed", "queued"}
       \/ /\ dispatch[o] = "queued" /\ dispatch'[o] = "executing"
          /\ executed'[o] = executed[o] + 1

LEMMA DispatchReplayInv ==
  ASSUME TypeOK, ReplayInv, DispatchesMove,
         \A o \in Occurrence : status[o] = "none" <=> status'[o] = "none"
  PROVE  ReplayInv'
<1>1. DispatchInv'
  <2> SUFFICES ASSUME NEW o \in Occurrence
               PROVE  /\ executed'[o] <= 1
                      /\ dispatch'[o] \in {"none", "claimed", "queued"} => executed'[o] = 0
                      /\ status'[o] = "none" => dispatch'[o] = "none"
    BY DEF DispatchInv
  <2>1. /\ executed[o] \in Nat /\ executed[o] <= 1
        /\ dispatch[o] \in {"none", "claimed", "queued"} => executed[o] = 0
        /\ status[o] = "none" => dispatch[o] = "none"
    BY DEF ReplayInv, DispatchInv, TypeOK
  <2> QED
    BY <2>1 DEF DispatchesMove
<1>2. ASSUME NEW c \in Call
      PROVE  /\ call'[c] \in {"new", "waiting"} => claims'[c] = {}
             /\ call'[c] = "claiming" => \A o \in claims'[c] : dispatch'[o] = "claimed"
             /\ \A o \in claims'[c] : status'[o] # "none"
  BY DEF ReplayInv, ClaimsInv, DispatchesMove, TypeOK
<1> QED
  BY <1>1, <1>2 DEF ReplayInv, ClaimsInv, DispatchesMove

LEMMA RunDueMoves ==
  ASSUME TypeOK, ReplayInv, NEW c \in Call, RunDue(c) \/ Cancel(c) \/ Claiming(c)
  PROVE  DispatchesMove \/ \E s \in Schedule : Claim(c, s)
<1>1. ASSUME NEW how \in {"waiting", "claiming", "returned", "raised", "cancelled"},
             call' = [call EXCEPT ![c] = how], UNCHANGED <<claims, dispatch, executed>>,
             how = "waiting" => call[c] = "new",
             how = "claiming" => call[c] = "waiting"
      PROVE  DispatchesMove
  <2>1. \A d \in Call : call'[d] = IF d = c THEN how ELSE call[d]
    BY <1>1 DEF TypeOK
  <2> QED
    BY <1>1, <2>1 DEF DispatchesMove
<1>2. RunDue(c) => DispatchesMove
  BY <1>1 DEF RunDue, tasks
<1>3. AcquireLock(c) => DispatchesMove
  BY <1>1 DEF AcquireLock, tasks
<1>4. CancelWaiting(c) => DispatchesMove
  BY <1>1 DEF CancelWaiting, End, tasks
<1>5. CASE CancelGathering(c)
  <2>1. PICK how \in {"aborting", "cancelling"} : call' = [call EXCEPT ![c] = how]
    BY <1>5 DEF CancelGathering, End
  <2>2. \A d \in Call : call'[d] = IF d = c THEN how ELSE call[d]
    BY <2>1 DEF TypeOK
  <2>3. /\ UNCHANGED <<claims, executed>> /\ call[c] = "gathering"
        /\ dispatch' = [o \in Occurrence |->
                    IF o \in Claimed(c, "queued") THEN "cancelled" ELSE dispatch[o]]
    BY <1>5 DEF CancelGathering
  <2>4. \A o \in Occurrence :
          /\ dispatch'[o] = IF o \in Claimed(c, "queued") THEN "cancelled" ELSE dispatch[o]
          /\ o \in Claimed(c, "queued") => o \in claims[c] /\ dispatch[o] = "queued"
    BY <2>3 DEF Claimed
  <2>5. \A d \in Call : d # c => claims[d] \cap claims[c] = {} /\ claims[d] \subseteq Occurrence
    BY DEF ReplayInv, ClaimsInv, TypeOK
  <2> QED
    BY <2>2, <2>3, <2>4, <2>5 DEF DispatchesMove
<1>6. CASE Dispatch(c)
  <2>1. /\ UNCHANGED <<claims, executed>> /\ call[c] = "claiming"
        /\ \A d \in Call : call'[d] = IF d = c THEN "gathering" ELSE call[d]
        /\ \A o \in Occurrence :
             dispatch'[o] = IF o \in claims[c] THEN "queued" ELSE dispatch[o]
    BY <1>6 DEF Dispatch, TypeOK
  <2>2. \A o \in claims[c] : dispatch[o] = "claimed"
    BY <2>1 DEF ReplayInv, ClaimsInv
  <2>3. \A d \in Call : d # c => claims[d] \cap claims[c] = {} /\ claims[d] \subseteq Occurrence
    BY DEF ReplayInv, ClaimsInv, TypeOK
  <2> QED
    BY <2>1, <2>2, <2>3 DEF DispatchesMove
<1>7. ASSUME NEW s \in Schedule, Decline(c, s)
      PROVE  DispatchesMove
  BY <1>7 DEF Decline, DispatchesMove, tasks
<1> QED
  BY <1>2, <1>3, <1>4, <1>5, <1>6, <1>7 DEF Cancel, Claiming

LEMMA DispatchMoves ==
  ASSUME TypeOK, ReplayInv, NEW c \in Call,
         Executions(c) \/ Gathering(c) \/ \E o \in Occurrence : Heartbeat(c, o)
  PROVE  DispatchesMove
<1>1. ASSUME NEW o \in Occurrence, NEW state \in {"executing"} \cup Finished,
             dispatch' = [dispatch EXCEPT ![o] = state],
             \/ /\ dispatch[o] = "queued" /\ state = "executing"
                /\ executed' = [executed EXCEPT ![o] = @ + 1]
             \/ /\ dispatch[o] \in {"queued", "executing"} /\ state # "executing"
                /\ UNCHANGED executed
      PROVE  \A p \in Occurrence :
               /\ \/ dispatch'[p] = dispatch[p] /\ executed'[p] = executed[p]
                  \/ /\ dispatch[p] = "queued" /\ executed'[p] = executed[p]
                     /\ dispatch'[p] # "none"
                  \/ /\ dispatch[p] = "executing" /\ executed'[p] = executed[p]
                     /\ dispatch'[p] \in Finished
                  \/ /\ dispatch[p] = "queued" /\ dispatch'[p] = "executing"
                     /\ executed'[p] = executed[p] + 1
               /\ dispatch[p] = "claimed" => dispatch'[p] = "claimed"
  <2>1. \A p \in Occurrence : dispatch'[p] = IF p = o THEN state ELSE dispatch[p]
    BY <1>1 DEF TypeOK
  <2>2. CASE /\ dispatch[o] = "queued" /\ state = "executing"
             /\ executed' = [executed EXCEPT ![o] = @ + 1]
    <3>1. \A p \in Occurrence : executed'[p] = IF p = o THEN executed[p] + 1 ELSE executed[p]
      BY <2>2 DEF TypeOK
    <3> QED
      BY <2>1, <2>2, <3>1
  <2>3. CASE /\ dispatch[o] \in {"queued", "executing"} /\ state # "executing"
             /\ UNCHANGED executed
    BY <2>1, <2>3 DEF Finished
  <2> QED
    BY <1>1, <2>2, <2>3, Zenon
<1>2. ASSUME NEW o \in Occurrence, NEW state \in {"executing"} \cup Finished,
             dispatch' = [dispatch EXCEPT ![o] = state],
             \/ /\ dispatch[o] = "queued" /\ state = "executing"
                /\ executed' = [executed EXCEPT ![o] = @ + 1]
             \/ /\ dispatch[o] \in {"queued", "executing"} /\ state # "executing"
                /\ UNCHANGED executed,
             UNCHANGED claims,
             UNCHANGED call \/ call' = [call EXCEPT ![c] = "aborting"]
      PROVE  DispatchesMove
  <2>1. \A d \in Call : call'[d] \in {call[d], "aborting"}
    BY <1>2 DEF TypeOK
  <2>2. \A d \in Call : claims[d] \subseteq Occurrence
    BY DEF TypeOK
  <2>3. \A d \in Call : call[d] = "claiming" => \A p \in claims[d] : dispatch[p] = "claimed"
    BY DEF ReplayInv, ClaimsInv
  <2>4. \A p \in Occurrence :
          /\ \/ dispatch'[p] = dispatch[p] /\ executed'[p] = executed[p]
             \/ /\ dispatch[p] = "queued" /\ executed'[p] = executed[p]
                /\ dispatch'[p] # "none"
             \/ /\ dispatch[p] = "executing" /\ executed'[p] = executed[p]
                /\ dispatch'[p] \in Finished
             \/ /\ dispatch[p] = "queued" /\ dispatch'[p] = "executing"
                /\ executed'[p] = executed[p] + 1
          /\ dispatch[p] = "claimed" => dispatch'[p] = "claimed"
    BY <1>1, <1>2, Zenon
  <2> QED
    BY <1>2, <2>1, <2>2, <2>3, <2>4 DEF DispatchesMove, Finished
<1>3. ASSUME NEW o \in Occurrence, StartExecution(c, o) PROVE DispatchesMove
  BY <1>2, <1>3 DEF StartExecution, EnterSemaphore, calls
<1>4. ASSUME NEW o \in Occurrence, MissionNotActive(c, o) PROVE DispatchesMove
  <2>1. PICK state \in {"ok", "raised"} : dispatch' = [dispatch EXCEPT ![o] = state]
    BY <1>4 DEF MissionNotActive, FinishRun
  <2> QED
    BY <1>2, <1>4, <2>1 DEF MissionNotActive, EnterSemaphore, calls, Finished
<1>5. ASSUME NEW o \in Occurrence, EndExecution(c, o) PROVE DispatchesMove
  <2>1. PICK state \in {"ok", "raised"} : dispatch' = [dispatch EXCEPT ![o] = state]
    BY <1>5 DEF EndExecution, FinishRun
  <2> QED
    BY <1>2, <1>5, <2>1 DEF EndExecution, Executing, calls, Finished
<1>6. ASSUME NEW o \in Occurrence, CancelExecution(c, o) PROVE DispatchesMove
  BY <1>2, <1>6 DEF CancelExecution, Executing, End, Finished
<1>7. ASSUME NEW how \in {"returned", "raised", "aborting", "cancelled"},
             call' = [call EXCEPT ![c] = how], UNCHANGED <<claims, dispatch, executed>>
      PROVE  DispatchesMove
  <2>1. \A d \in Call : call'[d] = IF d = c THEN how ELSE call[d]
    BY <1>7 DEF TypeOK
  <2> QED
    BY <1>7, <2>1 DEF DispatchesMove
<1>8. GatherReturns(c) \/ GatherRaises(c) \/ GatherCancelled(c) \/ FinalizeClaims(c)
        => DispatchesMove
  BY <1>7 DEF GatherReturns, GatherRaises, GatherCancelled, FinalizeClaims, End, tasks
<1>9. ASSUME NEW o \in Occurrence, Heartbeat(c, o) PROVE DispatchesMove
  BY <1>9 DEF Heartbeat, DispatchesMove, calls
<1> QED
  BY <1>3, <1>4, <1>5, <1>6, <1>8, <1>9 DEF Executions, Gathering

LEMMA EnvironmentMoves ==
  ASSUME TypeOK, ReplayInv,
         Edit \/ Tick \/ UNCHANGED vars \/ \E w \in Worker : StartWorker(w) \/ Crash(w)
  PROVE  DispatchesMove
<1>1. ASSUME UNCHANGED <<call, claims, dispatch, executed>>
      PROVE  DispatchesMove
  BY <1>1 DEF DispatchesMove
<1>2. ASSUME NEW w \in Worker, Crash(w)
      PROVE  DispatchesMove
  <2>1. \A c \in Call :
          call'[c] = IF WorkerOf[c] = w /\ call[c] \notin Ended THEN "dead" ELSE call[c]
    BY <1>2 DEF Crash
  <2>2. \A o \in Occurrence :
          dispatch'[o] = IF /\ dispatch[o] \in {"claimed", "queued", "executing"}
                            /\ \E c \in Call : WorkerOf[c] = w /\ o \in claims[c]
                           THEN "lost" ELSE dispatch[o]
    BY <1>2 DEF Crash
  <2>3. UNCHANGED <<claims, executed>>
    BY <1>2 DEF Crash
  <2>4. ASSUME NEW c \in Call, call'[c] = "claiming", NEW o \in claims[c]
        PROVE  dispatch'[o] = dispatch[o]
    <3>1. WorkerOf[c] # w
      BY <2>1, <2>4 DEF Ended
    <3>2. o \in Occurrence
      BY DEF TypeOK
    <3>3. \A d \in Call : o \in claims[d] => d = c
      BY DEF ReplayInv, ClaimsInv
    <3> QED
      BY <2>2, <3>1, <3>2, <3>3
  <2>5. \A c \in Call : call'[c] \in {call[c], "dead"}
    BY <2>1
  <2> QED
    BY <2>2, <2>3, <2>4, <2>5 DEF DispatchesMove
<1>3. Edit \/ Tick \/ UNCHANGED vars \/ (\E w \in Worker : StartWorker(w))
        => UNCHANGED <<call, claims, dispatch, executed>>
  BY DEF Edit, SetEnabled, ReviseQuery, ReviseInterval, Tick, StartWorker, vars, calls, tasks
<1> QED
  BY <1>1, <1>2, <1>3

LEMMA StepReplayInv ==
  ASSUME TypeOK, ReplayInv, [Next]_vars
  PROVE  ReplayInv'
<1>1. CASE \E c \in Call : \E s \in Schedule : Claim(c, s)
  BY <1>1, ClaimReplayInv
<1>2. CASE ~ \E c \in Call : \E s \in Schedule : Claim(c, s)
  <2>1. DispatchesMove
    BY <1>2, RunDueMoves, DispatchMoves, EnvironmentMoves DEF Next
  <2>2. \A o \in Occurrence : status[o] = "none" <=> status'[o] = "none"
    BY <1>2, RunSteps DEF Settled
  <2> QED
    BY <2>1, <2>2, DispatchReplayInv
<1> QED
  BY <1>1, <1>2

(* An occurrence is executed once at most, for any number of processes, calls *)
(* and crashes: no recovery or restart hands it out again.                    *)
THEOREM NeverExecutedTwice == Spec => []NeverReplayed
<1>1. Init => ReplayInv
  BY DEF Init, ReplayInv, DispatchInv, ClaimsInv
<1>2. TypeOK /\ ReplayInv /\ [Next]_vars => ReplayInv'
  BY StepReplayInv
<1>3. ReplayInv => NeverReplayed
  BY DEF ReplayInv, DispatchInv, ClaimsInv, NeverReplayed
<1> QED
  BY <1>1, <1>2, <1>3, TypeCorrect, PTL DEF Spec

(* A claim that its process lost in a crash is given up by the first call that *)
(* takes the lock after the end of its lease: AcquireLock is the only way to   *)
(* the lock, and expires every running run whose lease is over.                *)
THEOREM LostClaimsRecovered == Spec => LostClaimsExpire
<1> DEFINE Recovers ==
      \A c \in Call : call[c] \notin Holding /\ call'[c] \in Holding =>
        \A o \in Occurrence :
          dispatch[o] = "lost" /\ lease[o] <= instant[c] => status'[o] # "running"
<1>1. TypeOK /\ [Next]_vars => [Recovers]_vars
  <2> SUFFICES ASSUME TypeOK, [Next]_vars, NEW c \in Call,
                      call[c] \notin Holding, call'[c] \in Holding,
                      NEW o \in Occurrence, lease[o] <= instant[c]
               PROVE  status'[o] # "running"
    OBVIOUS
  <2>1. AcquireLock(c)
    <3>1. ASSUME NEW d \in Call, NEW how, call' = [call EXCEPT ![d] = how],
                 call[d] \in Holding \/ how \notin Holding
          PROVE  FALSE
      BY <3>1 DEF TypeOK
    <3>2. ASSUME NEW w \in Worker, Crash(w) PROVE FALSE
      BY <3>2 DEF Crash, Holding
    <3>3. call' # call
      OBVIOUS
    <3>4. ASSUME NEW d \in Call, AcquireLock(d) PROVE d = c
      BY <3>4 DEF AcquireLock, TypeOK
    <3>5. ASSUME NEW d \in Call, RunDue(d) \/ Cancel(d) \/ Dispatch(d) PROVE FALSE
      BY <3>1, <3>5
         DEF RunDue, Cancel, CancelWaiting, CancelGathering, Dispatch, End, Holding
    <3>6. ASSUME NEW d \in Call, Gathering(d) PROVE FALSE
      BY <3>1, <3>3, <3>6 DEF Gathering, GatherReturns, GatherRaises, GatherCancelled,
         FinalizeClaims, CancelExecution, End, Holding
    <3>7. ASSUME NEW d \in Call, Executions(d) \/ \E p \in Occurrence : Heartbeat(d, p)
          PROVE  FALSE
      BY <3>3, <3>7
         DEF Executions, StartExecution, MissionNotActive, EndExecution, Heartbeat, calls
    <3>8. ASSUME NEW d \in Call, \E s \in Schedule : Claim(d, s) \/ Decline(d, s) PROVE FALSE
      BY <3>3, <3>8 DEF Claim, Decline
    <3>9. ~(Edit \/ Tick \/ (\E w \in Worker : StartWorker(w)) \/ UNCHANGED vars)
      BY <3>3 DEF Edit, SetEnabled, ReviseQuery, ReviseInterval, Tick, StartWorker, vars, calls
    <3> QED
      BY <3>2, <3>4, <3>5, <3>6, <3>7, <3>8, <3>9 DEF Next, Claiming
  <2>2. status'[o] = IF o \in Expired(c) THEN "expired" ELSE status[o]
    BY <2>1 DEF AcquireLock
  <2> QED
    BY <2>2 DEF Expired
<1> QED
  BY <1>1, TypeCorrect, PTL DEF Spec, LostClaimsExpire

--------------------------------------------------------------------------------
(* One process at a time: its lock keeps executions apart *)

LEMMA StepOneHolder ==
  ASSUME TypeOK, OneProcess, OneHolder, [Next]_vars
  PROVE  OneHolder'
<1> USE DEF OneHolder
<1>1. ASSUME NEW c \in Call, NEW how, call' = [call EXCEPT ![c] = how], UNCHANGED up,
             how \in Holding \cup {"waiting"} => WorkerOf[c] \in up,
             how \in Holding => call[c] \in Holding \/ \A d \in Call : call[d] \notin Holding
      PROVE  OneHolder'
  <2>1. \A d \in Call : call'[d] = IF d = c THEN how ELSE call[d]
    BY <1>1 DEF TypeOK
  <2> QED
    BY <1>1, <2>1
<1>2. ASSUME NEW c \in Call, AcquireLock(c) PROVE OneHolder'
  <2>1. WorkerOf[c] \in up /\ \A d \in Call : call[d] \notin Holding
    BY <1>2 DEF AcquireLock, Yielding, LockTaken
  <2> QED
    BY <1>1, <1>2, <2>1 DEF AcquireLock, process
<1>3. ASSUME NEW c \in Call, RunDue(c) \/ Cancel(c) PROVE OneHolder'
  BY <1>1, <1>3
     DEF RunDue, Cancel, CancelWaiting, CancelGathering, End, Yielding, Holding, process
<1>4. ASSUME NEW c \in Call, Dispatch(c) PROVE OneHolder'
  BY <1>1, <1>4 DEF Dispatch, Holding, process
<1>5. ASSUME NEW c \in Call,
             GatherReturns(c) \/ GatherRaises(c) \/ GatherCancelled(c) \/ FinalizeClaims(c)
      PROVE  OneHolder'
  BY <1>1, <1>5 DEF GatherReturns, GatherRaises, GatherCancelled, FinalizeClaims, End,
     Yielding, Holding, process
<1>6. ASSUME NEW c \in Call, NEW o \in Occurrence, CancelExecution(c, o) PROVE OneHolder'
  BY <1>1, <1>6 DEF CancelExecution, End, Yielding, Holding, process
<1>7. ASSUME NEW w \in Worker, StartWorker(w) PROVE OneHolder'
  BY <1>7 DEF StartWorker, calls
<1>8. ASSUME NEW w \in Worker, Crash(w) PROVE OneHolder'
  <2>1. \A c \in Call :
          call'[c] = IF WorkerOf[c] = w /\ call[c] \notin Ended THEN "dead" ELSE call[c]
    BY <1>8 DEF Crash
  <2>2. up' = up \ {w} /\ Holding \cap Ended = {} /\ "waiting" \notin Ended
    BY <1>8 DEF Crash, Holding, Ended
  <2>3. \A c \in Call : call'[c] \in Holding \cup {"waiting"} =>
          call'[c] = call[c] /\ WorkerOf[c] # w
    BY <2>1, <2>2 DEF Holding
  <2> QED
    BY <2>2, <2>3
<1>9. CASE UNCHANGED <<up, call>>
  BY <1>9
<1>10. ASSUME \/ Edit \/ Tick \/ UNCHANGED vars
              \/ \E c \in Call : \/ \E s \in Schedule : Claim(c, s) \/ Decline(c, s)
                                 \/ Executions(c) \/ \E o \in Occurrence : Heartbeat(c, o)
       PROVE  UNCHANGED <<up, call>>
  BY <1>10 DEF Edit, SetEnabled, ReviseQuery, ReviseInterval, Tick, vars, Claim, Decline,
     Executions, StartExecution, MissionNotActive, EndExecution, Heartbeat, process, calls
<1> QED
  BY <1>2, <1>3, <1>4, <1>5, <1>6, <1>7, <1>8, <1>9, <1>10 DEF Next, Claiming, Gathering

LEMMA StepHeldClaims ==
  ASSUME TypeOK, ReplayInv, OneHolder, HeldClaims, [Next]_vars
  PROVE  HeldClaims'
<1> USE DEF HeldClaims
<1>0. /\ \A d \in Call : claims[d] \subseteq Occurrence
      /\ \A d, e \in Call : d # e => claims[d] \cap claims[e] = {}
      /\ \A d \in Call : call[d] \in {"new", "waiting"} => claims[d] = {}
  BY DEF TypeOK, ReplayInv, ClaimsInv
<1>1. ASSUME NEW c \in Call, NEW how, call' = [call EXCEPT ![c] = how],
             UNCHANGED <<status, dispatch, claims>>,
             \/ call[c] \in Holding /\ how \in Holding
             \/ \A o \in claims[c] : dispatch[o] = "ok"
      PROVE  HeldClaims'
  <2>1. \A d \in Call : call'[d] = IF d = c THEN how ELSE call[d]
    BY <1>1 DEF TypeOK
  <2>2. Holding \cap Ended = {}
    BY DEF Holding, Ended
  <2> QED
    BY <1>1, <2>1, <2>2
<1>2. ASSUME NEW c \in Call, RunDue(c) \/ CancelWaiting(c) PROVE HeldClaims'
  <2>1. claims[c] = {}
    BY <1>0, <1>2 DEF RunDue, CancelWaiting
  <2> QED
    BY <1>1, <1>2, <2>1 DEF RunDue, CancelWaiting, End, runs, tasks
<1>3. ASSUME NEW c \in Call, GatherReturns(c) \/ GatherRaises(c) \/ GatherCancelled(c)
      PROVE  HeldClaims'
  <2>1. ~GatherRaises(c)
    BY DEF GatherRaises, Claimed
  <2> QED
    BY <1>1, <1>3, <2>1 DEF GatherReturns, GatherCancelled, End, Holding, runs, tasks
<1>4. ASSUME NEW c \in Call, AcquireLock(c) PROVE HeldClaims'
  <2>1. \A d \in Call : call[d] \notin Holding
    BY <1>4 DEF AcquireLock, Yielding, LockTaken, OneHolder
  <2>2. /\ \A d \in Call : call'[d] = IF d = c THEN "claiming" ELSE call[d]
        /\ \A o \in Occurrence : status'[o] = IF o \in Expired(c) THEN "expired" ELSE status[o]
        /\ UNCHANGED <<dispatch, claims>>
    BY <1>4 DEF AcquireLock, tasks, TypeOK
  <2>3. claims[c] = {}
    BY <1>0, <1>4 DEF AcquireLock
  <2> QED
    BY <1>0, <2>1, <2>2, <2>3
<1>5. ASSUME NEW c \in Call, Dispatch(c) \/ CancelGathering(c) PROVE HeldClaims'
  <2>1. PICK how \in Holding : call' = [call EXCEPT ![c] = how]
    BY <1>5 DEF Dispatch, CancelGathering, End, Holding
  <2>2. /\ \A d \in Call : call'[d] = IF d = c THEN how ELSE call[d]
        /\ call[c] \in Holding /\ UNCHANGED <<status, claims>>
    BY <1>5, <2>1 DEF Dispatch, CancelGathering, Holding, runs, TypeOK
  <2>3. \A o \in Occurrence :
          \/ dispatch'[o] = dispatch[o]
          \/ o \in claims[c] /\ dispatch'[o] = "queued" /\ Dispatch(c)
          \/ o \in claims[c] /\ dispatch'[o] = "cancelled"
    BY <1>5 DEF Dispatch, CancelGathering, Claimed
  <2>4. Dispatch(c) => \A o \in claims[c] : dispatch[o] = "claimed"
    BY DEF Dispatch, ReplayInv, ClaimsInv
  <2>5. Holding \cap Ended = {}
    BY DEF Holding, Ended
  <2> QED
    BY <1>0, <2>2, <2>3, <2>4, <2>5
<1>6. ASSUME NEW c \in Call, NEW s \in Schedule, Claim(c, s) PROVE HeldClaims'
  <2> DEFINE o == <<s, next[s]>>
  <2>1. o \in Occurrence /\ status[o] = "none"
    BY <1>6, ClaimedSlot
  <2>2. /\ status' = [status EXCEPT ![o] = "running"]
        /\ claims' = [claims EXCEPT ![c] = @ \cup {o}]
        /\ dispatch' = [dispatch EXCEPT ![o] = "claimed"]
        /\ UNCHANGED call /\ call[c] = "claiming"
    BY <1>6 DEF Claim
  <2> HIDE DEF o
  <2>3. \A p \in Occurrence :
          /\ status'[p] = IF p = o THEN "running" ELSE status[p]
          /\ dispatch'[p] = IF p = o THEN "claimed" ELSE dispatch[p]
    BY <2>1, <2>2 DEF TypeOK
  <2>4. \A d \in Call : claims'[d] = IF d = c THEN claims[c] \cup {o} ELSE claims[d]
    BY <2>2 DEF TypeOK
  <2>5. \A d \in Call : o \notin claims[d]
    BY <2>1 DEF ReplayInv, ClaimsInv
  <2>6. call[c] \in Holding /\ call[c] \notin Ended
    BY <2>2 DEF Holding, Ended
  <2>7. ASSUME NEW d \in Call, NEW p \in claims[d]
        PROVE  /\ p \in Occurrence /\ p # o
               /\ status'[p] = status[p] /\ dispatch'[p] = dispatch[p] /\ call'[d] = call[d]
    BY <1>0, <2>2, <2>3, <2>5, <2>7
  <2>8. status'[o] = "running" /\ dispatch'[o] = "claimed" /\ call'[c] = call[c]
    BY <2>1, <2>2, <2>3
  <2>9. ASSUME NEW d \in Call, NEW p \in claims'[d]
        PROVE  p \in claims[d] \/ (d = c /\ p = o)
    BY <2>4, <2>9
  <2> QED
    BY <2>6, <2>7, <2>8, <2>9
<1>7. ASSUME NEW c \in Call, NEW o \in claims[c],
             dispatch[o] \in {"queued", "executing"},
             UNCHANGED claims,
             \A p \in Occurrence : p # o => dispatch'[p] = dispatch[p] /\ status'[p] = status[p],
             \A d \in Call : call'[d] = call[d] \/ (d = c /\ call'[d] = "aborting"),
             \/ dispatch'[o] = "executing" /\ status'[o] = status[o]
             \/ dispatch'[o] = "ok" /\ status'[o] # "running"
             \/ dispatch'[o] = "cancelled"
      PROVE  HeldClaims'
  <2>1. o \in Occurrence /\ call[c] \in Holding /\ status[o] = "running"
    BY <1>0, <1>7
  <2>2. "aborting" \in Holding /\ Holding \cap Ended = {}
    BY DEF Holding, Ended
  <2>3. ASSUME NEW d \in Call, NEW p \in claims[d], d # c
        PROVE  dispatch'[p] = dispatch[p] /\ status'[p] = status[p] /\ call'[d] = call[d]
    BY <1>0, <1>7, <2>3
  <2>4. ASSUME NEW p \in claims[c], p # o
        PROVE  dispatch'[p] = dispatch[p] /\ status'[p] = status[p]
    BY <1>0, <1>7, <2>4
  <2>5. call'[c] \in Holding
    BY <1>7, <2>1, <2>2
  <2> QED
    BY <1>7, <2>1, <2>2, <2>3, <2>4, <2>5
<1>8. ASSUME NEW c \in Call, NEW o \in Occurrence, StartExecution(c, o) PROVE HeldClaims'
  <2>1. /\ o \in claims[c] /\ dispatch[o] = "queued"
        /\ dispatch' = [dispatch EXCEPT ![o] = "executing"]
        /\ UNCHANGED <<call, claims, status>>
    BY <1>8 DEF StartExecution, EnterSemaphore, calls, runs
  <2>2. \A p \in Occurrence : dispatch'[p] = IF p = o THEN "executing" ELSE dispatch[p]
    BY <2>1 DEF TypeOK
  <2> QED
    BY <1>7, <2>1, <2>2
<1>9. ASSUME NEW c \in Call, NEW o \in Occurrence, MissionNotActive(c, o) \/ EndExecution(c, o)
      PROVE  HeldClaims'
  <2>1. o \in claims[c] /\ dispatch[o] \in {"queued", "executing"} /\ UNCHANGED <<call, claims>>
    BY <1>9 DEF MissionNotActive, EndExecution, EnterSemaphore, Executing, calls
  <2>2. PICK r \in Settled : FinishRun(o, r)
    BY <1>9 DEF MissionNotActive, EndExecution, Settled
  <2>3. status[o] = "running"
    BY <2>1
  <2>4. /\ \A p \in Occurrence : dispatch'[p] = IF p = o THEN "ok" ELSE dispatch[p]
        /\ \A p \in Occurrence : status'[p] = IF p = o THEN r ELSE status[p]
    BY <2>2, <2>3 DEF FinishRun, TypeOK
  <2>5. r # "running"
    BY DEF Settled
  <2> QED
    BY <1>7, <2>1, <2>4, <2>5
<1>10. ASSUME NEW c \in Call, NEW o \in Occurrence, CancelExecution(c, o) PROVE HeldClaims'
  <2>1. /\ o \in claims[c] /\ dispatch[o] = "executing"
        /\ dispatch' = [dispatch EXCEPT ![o] = "cancelled"]
        /\ call' = [call EXCEPT ![c] = "aborting"]
        /\ UNCHANGED claims
        /\ UNCHANGED status \/ status' = [status EXCEPT ![o] = "failed"]
    BY <1>10 DEF CancelExecution, Executing, End
  <2>2. /\ \A p \in Occurrence : dispatch'[p] = IF p = o THEN "cancelled" ELSE dispatch[p]
        /\ \A p \in Occurrence : p # o => status'[p] = status[p]
        /\ \A d \in Call : call'[d] = call[d] \/ (d = c /\ call'[d] = "aborting")
    BY <2>1 DEF TypeOK
  <2> QED
    BY <1>7, <2>1, <2>2
<1>11. ASSUME NEW c \in Call, FinalizeClaims(c) PROVE HeldClaims'
  <2>1. /\ \A d \in Call : call'[d] = IF d = c THEN "cancelled" ELSE call[d]
        /\ \A o \in Occurrence :
             status'[o] = IF o \in claims[c] /\ status[o] = "running" THEN "failed" ELSE status[o]
        /\ \A o \in claims[c] : dispatch[o] \in Finished
        /\ UNCHANGED <<dispatch, claims>>
    BY <1>11 DEF FinalizeClaims, AllFinished, End, tasks, TypeOK
  <2> QED
    BY <1>0, <2>1 DEF Finished
<1>12. ASSUME NEW w \in Worker, Crash(w) PROVE HeldClaims'
  <2>1. \A d \in Call :
          call'[d] = IF WorkerOf[d] = w /\ call[d] \notin Ended THEN "dead" ELSE call[d]
    BY <1>12 DEF Crash
  <2>2. \A o \in Occurrence :
          dispatch'[o] = IF /\ dispatch[o] \in {"claimed", "queued", "executing"}
                            /\ \E d \in Call : WorkerOf[d] = w /\ o \in claims[d]
                           THEN "lost" ELSE dispatch[o]
    BY <1>12 DEF Crash
  <2>3. UNCHANGED <<claims, status>>
    BY <1>12 DEF Crash, runs
  <2> QED
    BY <1>0, <2>1, <2>2, <2>3
<1>13. CASE UNCHANGED <<call, claims, status, dispatch>>
  BY <1>13
<1>14. ASSUME \/ Edit \/ Tick \/ UNCHANGED vars \/ \E w \in Worker : StartWorker(w)
              \/ \E c \in Call : \/ \E s \in Schedule : Decline(c, s)
                                 \/ \E o \in Occurrence : Heartbeat(c, o)
       PROVE  UNCHANGED <<call, claims, status, dispatch>>
  BY <1>14 DEF Edit, SetEnabled, ReviseQuery, ReviseInterval, Tick, vars, StartWorker,
     Decline, Heartbeat, runs, calls, tasks
<1> QED
  BY <1>2, <1>3, <1>4, <1>5, <1>6, <1>8, <1>9, <1>10, <1>11, <1>12, <1>13, <1>14
     DEF Next, Claiming, Executions, Gathering, Cancel

LEMMA FiniteOccurrences == ASSUME NEW S \in SUBSET Occurrence PROVE IsFiniteSet(S)
<1>1. IsFiniteSet(Time)
  BY ClockAssumption, FS_Interval DEF Time
<1>2. IsFiniteSet(Occurrence)
  BY <1>1, ScheduleAssumption, FS_Product DEF Occurrence
<1> QED
  BY <1>2, FS_Subset

(* A step lets one occurrence into one semaphore, when there is room in it. *)
LEMMA ExecutionsEnter ==
  ASSUME TypeOK, ReplayInv, [Next]_vars, NEW d \in Call
  PROVE  \/ Executing(d)' \subseteq Executing(d)
         \/ /\ Cardinality(Executing(d)) < MaxConcurrency
            /\ \E o \in Occurrence : Executing(d)' \subseteq Executing(d) \cup {o}
<1>0. \A c \in Call : claims[c] \subseteq Occurrence
  BY DEF TypeOK
<1>1. ASSUME UNCHANGED claims,
             \A o \in Occurrence : dispatch'[o] = "executing" => dispatch[o] = "executing"
      PROVE  Executing(d)' \subseteq Executing(d)
  BY <1>0, <1>1 DEF Executing
<1>2. ASSUME NEW c \in Call, NEW s \in Schedule, Claim(c, s)
      PROVE  Executing(d)' \subseteq Executing(d)
  <2> DEFINE o == <<s, next[s]>>
  <2>1. /\ claims' = [claims EXCEPT ![c] = @ \cup {o}]
        /\ dispatch' = [dispatch EXCEPT ![o] = "claimed"]
    BY <1>2 DEF Claim
  <2>2. o \in Occurrence
    BY <1>2, ClaimedSlot
  <2> HIDE DEF o
  <2>3. \A p \in Occurrence : dispatch'[p] = IF p = o THEN "claimed" ELSE dispatch[p]
    BY <2>1, <2>2 DEF TypeOK
  <2>4. claims'[d] \subseteq claims[d] \cup {o}
    BY <2>1 DEF TypeOK
  <2> QED
    BY <1>0, <2>2, <2>3, <2>4 DEF Executing
<1>3. ASSUME NEW c \in Call, NEW o \in Occurrence, StartExecution(c, o)
      PROVE  \/ Executing(d)' \subseteq Executing(d)
             \/ /\ Cardinality(Executing(d)) < MaxConcurrency
                /\ Executing(d)' \subseteq Executing(d) \cup {o}
  <2>1. /\ UNCHANGED claims /\ o \in claims[c] /\ Cardinality(Executing(c)) < MaxConcurrency
        /\ \A p \in Occurrence : dispatch'[p] = IF p = o THEN "executing" ELSE dispatch[p]
    BY <1>3 DEF StartExecution, EnterSemaphore, calls, TypeOK
  <2>2. Executing(d)' \subseteq Executing(d) \cup {o}
    BY <1>0, <2>1 DEF Executing
  <2>3. ASSUME d # c PROVE o \notin Executing(d)'
    BY <2>1, <2>3 DEF Executing, ReplayInv, ClaimsInv
  <2> QED
    BY <2>1, <2>2, <2>3
<1>4. ASSUME NEW o \in Occurrence, NEW how \in Finished,
             dispatch' = [dispatch EXCEPT ![o] = how]
      PROVE  \A p \in Occurrence : dispatch'[p] = "executing" => dispatch[p] = "executing"
  BY <1>4 DEF TypeOK, Finished
<1>5. ASSUME NEW c \in Call, NEW o \in Occurrence,
             MissionNotActive(c, o) \/ EndExecution(c, o) \/ CancelExecution(c, o)
      PROVE  Executing(d)' \subseteq Executing(d)
  <2>1. \E how \in Finished : dispatch' = [dispatch EXCEPT ![o] = how]
    BY <1>5 DEF MissionNotActive, EndExecution, CancelExecution, FinishRun, Finished
  <2>2. UNCHANGED claims
    BY <1>5 DEF MissionNotActive, EndExecution, CancelExecution, calls
  <2> QED
    BY <1>1, <1>4, <2>1, <2>2
<1>6. ASSUME NEW c \in Call, Dispatch(c) \/ CancelGathering(c)
      PROVE  Executing(d)' \subseteq Executing(d)
  BY <1>1, <1>6 DEF Dispatch, CancelGathering
<1>7. ASSUME NEW w \in Worker, Crash(w) PROVE Executing(d)' \subseteq Executing(d)
  BY <1>1, <1>7 DEF Crash
<1>8. ASSUME UNCHANGED <<claims, dispatch>> PROVE Executing(d)' \subseteq Executing(d)
  BY <1>1, <1>8
<1>9. ASSUME \/ Edit \/ Tick \/ UNCHANGED vars \/ \E w \in Worker : StartWorker(w)
             \/ \E c \in Call : \/ RunDue(c) \/ AcquireLock(c) \/ CancelWaiting(c)
                                \/ GatherReturns(c) \/ GatherRaises(c)
                                \/ GatherCancelled(c) \/ FinalizeClaims(c)
                                \/ \E s \in Schedule : Decline(c, s)
                                \/ \E o \in Occurrence : Heartbeat(c, o)
      PROVE  UNCHANGED <<claims, dispatch>>
  BY <1>9 DEF Edit, SetEnabled, ReviseQuery, ReviseInterval, Tick, vars, StartWorker, RunDue,
     AcquireLock, CancelWaiting, GatherReturns, GatherRaises, GatherCancelled, FinalizeClaims,
     Decline, Heartbeat, calls, tasks
<1> QED
  BY <1>2, <1>3, <1>5, <1>6, <1>7, <1>8, <1>9
     DEF Next, Claiming, Executions, Gathering, Cancel

LEMMA StepSemaphoreHeld ==
  ASSUME TypeOK, ReplayInv, SemaphoreHeld, [Next]_vars
  PROVE  SemaphoreHeld'
<1> SUFFICES ASSUME NEW d \in Call PROVE Cardinality(Executing(d)') <= MaxConcurrency
  BY DEF SemaphoreHeld
<1> DEFINE before == Executing(d)
           after  == Executing(d)'
<1>1. IsFiniteSet(before) /\ Cardinality(before) \in Nat /\ Cardinality(before) <= MaxConcurrency
  <2>1. before \in SUBSET Occurrence
    BY DEF Executing, TypeOK
  <2> QED
    BY <2>1, FiniteOccurrences, FS_CardinalityType DEF SemaphoreHeld
<1>2. \/ after \subseteq before
      \/ /\ Cardinality(before) < MaxConcurrency
         /\ \E o \in Occurrence : after \subseteq before \cup {o}
  BY ExecutionsEnter
<1>3. MaxConcurrency \in Nat
  BY ServiceAssumption
<1> HIDE DEF before, after
<1>4. CASE after \subseteq before
  <2>1. Cardinality(after) <= Cardinality(before) /\ Cardinality(after) \in Nat
    BY <1>1, <1>4, FS_Subset, FS_CardinalityType
  <2> QED
    BY <1>1, <1>3, <2>1 DEF after
<1>5. ASSUME Cardinality(before) < MaxConcurrency,
             NEW o \in Occurrence, after \subseteq before \cup {o}
      PROVE  Cardinality(after) <= MaxConcurrency
  <2> DEFINE more == before \cup {o}
  <2>1. IsFiniteSet(more) /\ Cardinality(more) <= Cardinality(before) + 1
        /\ Cardinality(more) \in Nat
    <3>1. /\ IsFiniteSet(more)
          /\ Cardinality(more) = IF o \in before THEN Cardinality(before)
                                                 ELSE Cardinality(before) + 1
      BY <1>1, FS_AddElement
    <3>2. Cardinality(more) \in Nat
      BY <3>1, FS_CardinalityType
    <3> QED
      BY <1>1, <3>1, <3>2
  <2>2. after \in SUBSET more
    BY <1>5
  <2> HIDE DEF more
  <2>3. Cardinality(after) <= Cardinality(more) /\ Cardinality(after) \in Nat
    BY <2>1, <2>2, FS_Subset, FS_CardinalityType
  <2> QED
    BY <1>1, <1>3, <1>5, <2>1, <2>3
<1> QED
  BY <1>2, <1>4, <1>5 DEF after

HolderInv == OneHolder /\ HeldClaims /\ SemaphoreHeld

LEMMA HolderInvariant == ASSUME OneProcess PROVE Spec => [](TypeOK /\ ReplayInv /\ HolderInv)
<1>1. Init => TypeOK /\ ReplayInv /\ HolderInv
  <2> SUFFICES ASSUME Init PROVE ReplayInv /\ HolderInv
    BY InitTypeOK
  <2>1. ReplayInv /\ OneHolder /\ HeldClaims
    BY DEF Init, ReplayInv, DispatchInv, ClaimsInv, OneHolder, HeldClaims, Holding
  <2>2. \A c \in Call : Executing(c) = {}
    BY DEF Init, Executing
  <2>3. SemaphoreHeld
    BY <2>2, FS_EmptySet, ServiceAssumption DEF SemaphoreHeld
  <2> QED
    BY <2>1, <2>3 DEF HolderInv
<1>2. ASSUME TypeOK, ReplayInv, HolderInv, [Next]_vars
      PROVE  TypeOK' /\ ReplayInv' /\ HolderInv'
  BY <1>2, NextTypeOK, StepReplayInv, StepOneHolder, StepHeldClaims, StepSemaphoreHeld
     DEF HolderInv
<1> QED
  BY <1>1, <1>2, PTL DEF Spec

(* While no two processes share the repository, the run of an occurrence that *)
(* is being executed is running: only a call that has the lock expires runs,  *)
(* and the dispatches of its process belong to it.                            *)
THEOREM LeasesHeld == ASSUME OneProcess PROVE Spec => []LeaseHeld
<1>1. TypeOK /\ HolderInv => LeaseHeld
  BY DEF TypeOK, HolderInv, HeldClaims, LeaseHeld, Executing
<1> QED
  BY <1>1, HolderInvariant, PTL

(* Then run_due also leaves none of its claims running, whether it returns or *)
(* is cancelled, at whatever await, with whatever dispatches still queued.    *)
THEOREM NoneStranded == ASSUME OneProcess PROVE Spec => []NothingStranded
<1>1. HolderInv => NothingStranded
  BY DEF HolderInv, HeldClaims, NothingStranded
<1> QED
  BY <1>1, HolderInvariant, PTL

(* Acquisitions of a schedule that is not to overlap do not: both would be *)
(* running, and the repository has one running run.                        *)
THEOREM ExecutionsApart == ASSUME OneProcess PROVE Spec => []NoOverlap
<1>1. TypeOK /\ HolderInv /\ OneRunningRun => NoOverlap
  <2> SUFFICES ASSUME TypeOK, HolderInv, OneRunningRun, NEW s \in Schedule \ Allow,
                      NEW c \in Call, NEW d \in Call,
                      NEW o \in Executing(c), NEW p \in Executing(d), o[1] = s, p[1] = s
               PROVE  o = p
    BY DEF NoOverlap
  <2>1. o \in Occurrence /\ p \in Occurrence /\ status[o] = "running" /\ status[p] = "running"
    BY DEF TypeOK, HolderInv, HeldClaims, Executing
  <2>2. o = <<s, o[2]>> /\ p = <<s, p[2]>> /\ o[2] \in Time /\ p[2] \in Time
    BY <2>1 DEF Occurrence
  <2> QED
    BY <2>1, <2>2 DEF OneRunningRun
<1> QED
  BY <1>1, HolderInvariant, AtMostOneRunningRun, PTL

(* A process executes at most MaxConcurrency occurrences, although each call *)
(* has a semaphore of its own: what a process executes belongs to one call.  *)
THEOREM ConcurrencyBounded == ASSUME OneProcess PROVE Spec => []ConcurrencyBound
<1>1. TypeOK /\ HolderInv => ConcurrencyBound
  <2> SUFFICES ASSUME TypeOK, HolderInv, NEW w \in Worker
               PROVE  Cardinality(UNION {Executing(c) : c \in {d \in Call : WorkerOf[d] = w}})
                        <= MaxConcurrency
    BY DEF ConcurrencyBound
  <2> DEFINE Own == UNION {Executing(c) : c \in {d \in Call : WorkerOf[d] = w}}
  <2>1. \A c, d \in Call : Executing(c) # {} /\ Executing(d) # {} => c = d
    BY DEF HolderInv, HeldClaims, OneHolder, Executing
  <2>2. CASE \E c \in Call : WorkerOf[c] = w /\ Executing(c) # {}
    <3>1. PICK c \in Call : WorkerOf[c] = w /\ Executing(c) # {}
      BY <2>2
    <3>2. Own = Executing(c)
      BY <2>1, <3>1
    <3> QED
      BY <3>2 DEF HolderInv, SemaphoreHeld
  <2>3. CASE \A c \in Call : WorkerOf[c] = w => Executing(c) = {}
    <3>1. Own = {}
      BY <2>3
    <3> QED
      BY <3>1, FS_EmptySet, ServiceAssumption
  <2> QED
    BY <2>2, <2>3
<1> QED
  BY <1>1, HolderInvariant, PTL
================================================================================
