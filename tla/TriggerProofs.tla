------------------------------ MODULE TriggerProofs ------------------------------
(* Proofs about MonitoringTriggers. *)
EXTENDS TriggerProps, TLAPS

USE DEF events, store, counts, pass, Unfinished, Successful, Ended

(* The evaluation in hand is unique. *)
LEMMA FirstIsUnique ==
  ASSUME TypeOK, NEW e \in Evaluation, NEW f \in Evaluation, First(e), First(f)
  PROVE  e = f
<1>1. Rank[e] \in Nat /\ Rank[f] \in Nat
  BY EvaluationAssumption
<1>2. Rank[e] = Rank[f]
  BY <1>1 DEF First
<1> QED
  BY <1>2, EvaluationAssumption

--------------------------------------------------------------------------------
(* Types *)

LEMMA RecoveryTypeOK ==
  ASSUME TypeOK, NEW e \in Evaluation, Recovery(e)
  PROVE  TypeOK'
<1>1. CASE Resume(e)
  BY <1>1 DEF Resume, Open, TypeOK
<1>2. CASE PassOver(e)
  BY <1>2 DEF PassOver, Settle, RecordTerminal, Outcome, Advance, TypeOK
<1>3. CASE Recovered(e)
  BY <1>3 DEF Recovered, Settle, RecordTerminal, Outcome, Advance, TypeOK
<1> QED
  BY <1>1, <1>2, <1>3 DEF Recovery

LEMMA PoliciesTypeOK ==
  ASSUME TypeOK, NEW e \in Evaluation, Policies(e)
  PROVE  TypeOK'
<1> USE LimitAssumption
<1>1. CASE Ignore(e)
  BY <1>1 DEF Ignore, Advance, TypeOK
<1>2. CASE Suppress(e)
  BY <1>2 DEF Suppress, Advance, TypeOK
<1>3. CASE Match(e)
  <2>1. instant \in 0..NoEvent
    BY DEF TypeOK, NoEvent
  <2> QED
    BY <1>3, <2>1 DEF Match, TypeOK
<1>4. CASE Create(e)
  BY <1>4 DEF Create, TypeOK
<1>5. CASE CreateFails(e)
  BY <1>5 DEF CreateFails, TypeOK
<1>6. CASE Announce(e)
  BY <1>6 DEF Announce, TypeOK
<1>7. CASE Launch(e)
  BY <1>7 DEF Launch, Open, TypeOK
<1>8. CASE RecordFailure(e)
  BY <1>8 DEF RecordFailure, TypeOK
<1>9. CASE Finish(e)
  BY <1>9 DEF Finish, RecordTerminal, Outcome, Advance, TypeOK
<1> QED
  BY <1>1, <1>2, <1>3, <1>4, <1>5, <1>6, <1>7, <1>8, <1>9 DEF Policies

LEMMA NextTypeOK == TypeOK /\ [Next]_vars => TypeOK'
<1> SUFFICES ASSUME TypeOK, [Next]_vars PROVE TypeOK'
  OBVIOUS
<1> USE LimitAssumption
<1>1. CASE BeginPass
  BY <1>1 DEF BeginPass, Chains, TypeOK
<1>2. CASE BeginPolicies
  BY <1>2 DEF BeginPolicies, TypeOK
<1>3. CASE EndPass
  BY <1>3 DEF EndPass, Reset, TypeOK
<1>4. ASSUME NEW e \in Evaluation, Execution(e)
      PROVE  TypeOK'
  BY <1>4 DEF Execution, BeginExecution, EndExecution, FailExecution, TypeOK
<1>5. CASE InterruptPass
  BY <1>5 DEF InterruptPass, Disturb, Reset, TypeOK
<1>6. CASE Crash
  BY <1>6 DEF Crash, Disturb, Reset, TypeOK
<1>7. CASE Clock
  BY <1>7 DEF Clock, TypeOK
<1>8. ASSUME NEW e \in Evaluation, OtherExecutes(e) \/ OtherEnds(e) \/ CancelPending(e)
      PROVE  TypeOK'
  <2>1. CASE OtherExecutes(e)
    BY <2>1 DEF OtherExecutes, Disturb, TypeOK
  <2>2. CASE OtherEnds(e)
    BY <2>2 DEF OtherEnds, TypeOK
  <2>3. CASE CancelPending(e)
    BY <2>3 DEF CancelPending, TypeOK
  <2> QED
    BY <1>8, <2>1, <2>2, <2>3
<1>9. CASE UNCHANGED vars
  BY <1>9 DEF vars, TypeOK
<1> QED
  BY <1>1, <1>2, <1>3, <1>4, <1>5, <1>6, <1>7, <1>8, <1>9, RecoveryTypeOK, PoliciesTypeOK
  DEF Next, Pass, Environment

(* Every variable keeps its type. *)
THEOREM TypeCorrect == Spec => []TypeOK
<1>1. Init => TypeOK
  BY LimitAssumption DEF Init, TypeOK, NoEvent
<1> QED
  BY <1>1, NextTypeOK, PTL DEF Spec

--------------------------------------------------------------------------------
(* The budget *)

(* Nothing is launched before the policies, nothing is used between passes. *)
BudgetInv ==
  /\ BudgetHeld
  /\ phase # "evaluating" => launched = 0
  /\ phase = "idle" => step = "next" /\ recovered = 0

LEMMA StepBudgetInv ==
  ASSUME TypeOK, BudgetInv, [Next]_vars
  PROVE  BudgetInv'
<1> USE LimitAssumption DEF BudgetInv, BudgetHeld
<1>0. recovered \in Nat /\ launched \in Nat
  BY DEF TypeOK
<1>1. CASE BeginPass \/ BeginPolicies
  BY <1>1 DEF BeginPass, BeginPolicies
<1>2. CASE EndPass \/ InterruptPass \/ Crash
  BY <1>2 DEF EndPass, InterruptPass, Crash, Reset
<1>3. ASSUME NEW e \in Evaluation, Execution(e)
      PROVE  BudgetInv'
  BY <1>3, <1>0 DEF Execution, BeginExecution, EndExecution, FailExecution
<1>4. ASSUME NEW e \in Evaluation, Recovery(e)
      PROVE  BudgetInv'
  <2>1. CASE Resume(e)
    BY <2>1, <1>0 DEF Resume, Resumable, Open, At
  <2>2. CASE PassOver(e)
    BY <2>2, <1>0 DEF PassOver, Advance, At
  <2>3. CASE Recovered(e)
    BY <2>3, <1>0 DEF Recovered, Advance, At
  <2> QED
    BY <1>4, <2>1, <2>2, <2>3 DEF Recovery
<1>5. ASSUME NEW e \in Evaluation, Policies(e)
      PROVE  BudgetInv'
  <2>1. CASE Ignore(e) \/ Suppress(e) \/ Match(e)
    BY <2>1, <1>0 DEF Ignore, Suppress, Match, Considers, Limit, Advance, At
  <2>2. CASE Create(e) \/ CreateFails(e) \/ Announce(e) \/ Launch(e) \/ RecordFailure(e)
    BY <2>2, <1>0 DEF Create, CreateFails, Announce, Launch, Open, RecordFailure, At
  <2>3. CASE Finish(e)
    BY <2>3, <1>0 DEF Finish, Advance, At
  <2> QED
    BY <1>5, <2>1, <2>2, <2>3 DEF Policies
<1>6. ASSUME NEW e \in Evaluation, OtherExecutes(e) \/ OtherEnds(e) \/ CancelPending(e)
      PROVE  BudgetInv'
  BY <1>6 DEF OtherExecutes, OtherEnds, CancelPending
<1>7. CASE Clock \/ UNCHANGED vars
  BY <1>7 DEF Clock, vars
<1> QED
  BY <1>1, <1>2, <1>3, <1>4, <1>5, <1>6, <1>7 DEF Next, Pass, Environment

(* A tick never spends more than its budget of follow-up executions, recovered *)
(* and new ones together.                                                      *)
THEOREM BudgetIsHeld == Spec => []BudgetHeld
<1>1. Init => BudgetInv
  BY LimitAssumption DEF Init, BudgetInv, BudgetHeld
<1>2. TypeOK /\ BudgetInv /\ [Next]_vars => BudgetInv'
  BY StepBudgetInv
<1>3. BudgetInv => BudgetHeld
  BY DEF BudgetInv
<1> QED
  BY <1>1, <1>2, <1>3, TypeCorrect, PTL DEF Spec

--------------------------------------------------------------------------------
(* The cooldown *)

(* Only Match stamps a match, and only one that has none. *)
LEMMA MatchedSteps ==
  ASSUME TypeOK, [Next]_vars, matched' # matched
  PROVE  \E e \in Evaluation :
           /\ ~InCooldown(e)
           /\ instant \in 0..MaxTime
           /\ matched' = [matched EXCEPT ![e] = instant]
<1>1. ASSUME NEW e \in Evaluation, Policies(e)
      PROVE  Match(e)
  BY <1>1 DEF Policies, Ignore, Suppress, Create, CreateFails, Announce, Launch,
     RecordFailure, Finish
<1>2. ASSUME NEW e \in Evaluation, Recovery(e)
      PROVE  FALSE
  BY <1>2 DEF Recovery, Resume, PassOver, Recovered
<1>3. ASSUME NEW e \in Evaluation, Execution(e)
      PROVE  FALSE
  BY <1>3 DEF Execution, BeginExecution, EndExecution, FailExecution
<1>4. ASSUME Environment \/ BeginPass \/ BeginPolicies \/ EndPass \/ UNCHANGED vars
      PROVE  FALSE
  BY <1>4 DEF Environment, BeginPass, BeginPolicies, EndPass, InterruptPass, Crash, Clock,
     OtherExecutes, OtherEnds, CancelPending, vars
<1>5. PICK e \in Evaluation : Match(e)
  BY <1>1, <1>2, <1>3, <1>4 DEF Next, Pass
<1>6. matched' = [matched EXCEPT ![e] = IF matched[e] = NoEvent THEN instant ELSE matched[e]]
  BY <1>5 DEF Match
<1>7. matched[e] = NoEvent
  BY <1>6 DEF TypeOK
<1> QED
  BY <1>5, <1>6, <1>7 DEF Match, TypeOK

LEMMA StepCooldown ==
  ASSUME TypeOK, CooldownRespected, [Next]_vars
  PROVE  CooldownRespected'
<1>1. CASE matched' = matched
  BY <1>1 DEF CooldownRespected
<1>2. CASE matched' # matched
  <2>1. PICK g \in Evaluation :
          /\ ~InCooldown(g)
          /\ instant \in 0..MaxTime
          /\ matched' = [matched EXCEPT ![g] = instant]
    BY <1>2, MatchedSteps
  <2> SUFFICES ASSUME Cooldown > 0, NEW e \in Evaluation, NEW f \in Evaluation,
                      e # f, PolicyOf[e] = PolicyOf[f],
                      matched'[e] # NoEvent, matched'[f] # NoEvent
               PROVE  \/ matched'[e] + Cooldown < matched'[f]
                      \/ matched'[f] + Cooldown < matched'[e]
    BY DEF CooldownRespected
  <2>2. /\ Cooldown \in Nat /\ MaxTime \in Nat /\ instant \in Nat
        /\ \A d \in Evaluation : matched[d] \in Nat
    BY <2>1, LimitAssumption DEF TypeOK, NoEvent
  <2>3. \A d \in Evaluation \ {g} :
          PolicyOf[d] = PolicyOf[g] /\ matched[d] # NoEvent
            => matched[d] + Cooldown < instant
    BY <2>1, <2>2 DEF InCooldown
  <2>4. /\ matched'[g] = instant
        /\ \A d \in Evaluation \ {g} : matched'[d] = matched[d]
    BY <2>1 DEF TypeOK
  <2>5. CASE e = g
    BY <2>3, <2>4, <2>5
  <2>6. CASE f = g
    BY <2>3, <2>4, <2>6
  <2>7. CASE e # g /\ f # g
    BY <2>4, <2>7 DEF CooldownRespected
  <2> QED
    BY <2>5, <2>6, <2>7
<1> QED
  BY <1>1, <1>2

(* Two matches of one policy are more than its cooldown apart. *)
THEOREM CooldownIsRespected == Spec => []CooldownRespected
<1>1. Init => CooldownRespected
  BY DEF Init, CooldownRespected
<1>2. TypeOK /\ CooldownRespected /\ [Next]_vars => CooldownRespected'
  BY StepCooldown
<1> QED
  BY <1>1, <1>2, TypeCorrect, PTL DEF Spec

--------------------------------------------------------------------------------
(* The chain of events *)

(* What is known of the evaluation in hand at each step of the pass. *)
RecoveryInv ==
  phase = "recovering" => \A e \in todo : e \in created /\ terminal[e] = "none"

PolicyInv ==
  phase = "evaluating" => \A e \in Evaluation : First(e) =>
    /\ step \in {"matched", "found", "announced"} => terminal[e] = "none"
    /\ step # "next" => matched[e] # NoEvent
    /\ step = "found" => status[e] # "none"
    /\ step \in {"announced", "opened", "executing", "ended"} => e \in created
    /\ step \in {"raised", "recorded"} => e \in created \/ status[e] = "none"

IdleInv ==
  /\ phase = "idle" => todo = {}
  /\ todo = {} => step = "next"

ChainInv == LineageIsComplete /\ RecoveryInv /\ PolicyInv /\ IdleInv

LEMMA RecoveryChainInv ==
  ASSUME TypeOK, ChainInv, NEW e \in Evaluation, Recovery(e)
  PROVE  ChainInv'
<1> USE DEF ChainInv, At
<1>1. phase = "recovering" /\ phase' = phase /\ First(e) /\ e \in todo
  BY DEF Recovery, Resume, PassOver, Recovered, First
<1>2. UNCHANGED <<matched, created>>
  BY DEF Recovery, Resume, PassOver, Recovered
<1>3. PolicyInv'
  BY <1>1 DEF PolicyInv
<1>4. CASE Resume(e)
  <2>1. UNCHANGED <<terminal, todo>>
    BY <1>4 DEF Resume
  <2>2. \A f \in Evaluation : status[f] # "none" => status'[f] # "none"
    BY <1>4 DEF Resume, Open, TypeOK
  <2> QED
    BY <1>1, <1>2, <1>3, <2>1, <2>2 DEF LineageIsComplete, RecoveryInv, IdleInv, TypeOK
<1>5. CASE PassOver(e) \/ Recovered(e)
  <2>1. UNCHANGED status /\ todo' = todo \ {e} /\ step' = "next"
    BY <1>5 DEF PassOver, Recovered, Advance
  <2>2. \A f \in Evaluation \ {e} : terminal'[f] = terminal[f]
    BY <1>5 DEF PassOver, Recovered, Settle, RecordTerminal, TypeOK
  <2>3. e \in created
    BY <1>1 DEF RecoveryInv
  <2>4. LineageIsComplete'
    BY <1>2, <2>1, <2>2, <2>3 DEF LineageIsComplete
  <2>5. RecoveryInv'
    BY <1>1, <1>2, <2>1, <2>2 DEF RecoveryInv, TypeOK
  <2>6. IdleInv'
    BY <1>1, <2>1 DEF IdleInv
  <2> QED
    BY <1>3, <2>4, <2>5, <2>6
<1> QED
  BY <1>4, <1>5 DEF Recovery

LEMMA PoliciesChainInv ==
  ASSUME TypeOK, ChainInv, NEW e \in Evaluation, Policies(e)
  PROVE  ChainInv'
<1> USE DEF ChainInv, At, Considers
<1>1. /\ phase = "evaluating" /\ phase' = phase /\ First(e) /\ e \in todo
      /\ UNCHANGED <<instant, recovered>>
  BY DEF Policies, Ignore, Suppress, Match, Create, CreateFails, Announce, Launch,
     RecordFailure, Finish, First
<1>2. RecoveryInv'
  BY <1>1 DEF RecoveryInv
<1>3. \A f \in Evaluation : First(f) => f = e
  BY <1>1, FirstIsUnique
<1>4. /\ step \in {"matched", "found", "announced"} => terminal[e] = "none"
      /\ step # "next" => matched[e] # NoEvent
      /\ step = "found" => status[e] # "none"
      /\ step \in {"announced", "opened", "executing", "ended"} => e \in created
      /\ step \in {"raised", "recorded"} => e \in created \/ status[e] = "none"
  BY <1>1 DEF PolicyInv
<1>5. CASE Ignore(e) \/ Suppress(e)
  <2>1. UNCHANGED <<matched, created, terminal, status>> /\ step' = "next"
    BY <1>5 DEF Ignore, Suppress, Advance
  <2> QED
    BY <1>1, <1>2, <2>1 DEF LineageIsComplete, PolicyInv, IdleInv
<1>6. CASE Match(e)
  <2>1. UNCHANGED <<created, terminal, status, todo>> /\ step' = "matched"
    BY <1>6 DEF Match
  <2>2. terminal[e] = "none"
    BY <1>6 DEF Match, Closed
  <2>3. instant # NoEvent
    BY LimitAssumption DEF TypeOK, NoEvent
  <2>4. matched'[e] # NoEvent' /\ \A f \in Evaluation : matched[f] # NoEvent => matched'[f] # NoEvent'
    BY <1>6, <2>3 DEF Match, TypeOK, NoEvent
  <2>5. LineageIsComplete'
    BY <2>1, <2>4 DEF LineageIsComplete, TypeOK
  <2>6. PolicyInv'
    BY <1>3, <2>1, <2>2, <2>4 DEF PolicyInv, First
  <2> QED
    BY <1>1, <1>2, <2>1, <2>5, <2>6 DEF IdleInv
<1>7. CASE Create(e) \/ CreateFails(e)
  <2>1. UNCHANGED <<matched, created, terminal, todo>> /\ step = "matched"
    BY <1>7 DEF Create, CreateFails
  <2>2. \/ step' = "found" /\ status'[e] # "none"
        \/ step' = "raised" /\ status'[e] = "none"
    BY <1>7 DEF Create, CreateFails, TypeOK
  <2>3. \A f \in Evaluation : status[f] # "none" => status'[f] # "none"
    BY <1>7 DEF Create, CreateFails, TypeOK
  <2>4. LineageIsComplete'
    BY <2>1, <2>3 DEF LineageIsComplete, NoEvent, TypeOK
  <2>5. PolicyInv'
    BY <1>3, <1>4, <2>1, <2>2 DEF PolicyInv, First, NoEvent
  <2> QED
    BY <1>1, <1>2, <2>1, <2>4, <2>5 DEF IdleInv
<1>8. CASE Announce(e)
  <2>1. /\ UNCHANGED <<matched, status, terminal, todo>>
        /\ step = "found" /\ step' = "announced" /\ created' = created \cup {e}
    BY <1>8 DEF Announce
  <2>2. LineageIsComplete'
    BY <1>4, <2>1 DEF LineageIsComplete, NoEvent
  <2>3. PolicyInv'
    BY <1>3, <1>4, <2>1 DEF PolicyInv, First, NoEvent
  <2> QED
    BY <1>1, <1>2, <2>1, <2>2, <2>3 DEF IdleInv
<1>9. CASE Launch(e)
  <2>1. /\ UNCHANGED <<matched, created, terminal, todo>>
        /\ step = "announced" /\ step' \in {"opened", "raised", "ended"}
    BY <1>9 DEF Launch, Open
  <2>2. \A f \in Evaluation : status[f] # "none" => status'[f] # "none"
    BY <1>9 DEF Launch, Open, TypeOK
  <2>3. LineageIsComplete'
    BY <2>1, <2>2 DEF LineageIsComplete, NoEvent, TypeOK
  <2>4. PolicyInv'
    BY <1>3, <1>4, <2>1 DEF PolicyInv, First, NoEvent
  <2> QED
    BY <1>1, <1>2, <2>1, <2>3, <2>4 DEF IdleInv
<1>10. CASE RecordFailure(e)
  <2>1. /\ UNCHANGED <<matched, created, terminal, status, todo>>
        /\ step \in {"ended", "raised"} /\ step' = "recorded"
    BY <1>10 DEF RecordFailure
  <2>2. LineageIsComplete'
    BY <2>1 DEF LineageIsComplete, NoEvent
  <2>3. PolicyInv'
    BY <1>3, <1>4, <2>1 DEF PolicyInv, First, NoEvent
  <2> QED
    BY <1>1, <1>2, <2>1, <2>2, <2>3 DEF IdleInv
<1>11. CASE Finish(e)
  <2>1. /\ UNCHANGED <<matched, created, status>>
        /\ step = "recorded" /\ step' = "next"
    BY <1>11 DEF Finish, Advance
  <2>2. \A f \in Evaluation :
          terminal'[f] # terminal[f] => f = e /\ status[e] # "none"
    BY <1>11 DEF Finish, RecordTerminal, TypeOK
  <2>3. LineageIsComplete'
    BY <1>4, <2>1, <2>2 DEF LineageIsComplete, NoEvent
  <2> QED
    BY <1>1, <1>2, <2>1, <2>3 DEF PolicyInv, IdleInv
<1> QED
  BY <1>5, <1>6, <1>7, <1>8, <1>9, <1>10, <1>11 DEF Policies

LEMMA StepChainInv ==
  ASSUME TypeOK, ChainInv, [Next]_vars
  PROVE  ChainInv'
<1> USE DEF ChainInv, LineageIsComplete, NoEvent
<1>1. CASE BeginPass
  BY <1>1 DEF BeginPass, Chains, RecoveryInv, PolicyInv, IdleInv
<1>2. CASE BeginPolicies
  BY <1>2 DEF BeginPolicies, RecoveryInv, PolicyInv, IdleInv
<1>3. CASE EndPass \/ InterruptPass \/ Crash
  BY <1>3 DEF EndPass, InterruptPass, Crash, Reset, RecoveryInv, PolicyInv, IdleInv
<1>4. ASSUME NEW e \in Evaluation, Execution(e)
      PROVE  ChainInv'
  <2>1. /\ UNCHANGED <<matched, created, terminal, phase, todo>> /\ First(e) /\ e \in todo
        /\ step \in {"opened", "executing"} /\ step' \in {"executing", "ended", "raised"}
    BY <1>4 DEF Execution, BeginExecution, EndExecution, FailExecution, First
  <2>2. \A f \in Evaluation : status[f] # "none" => status'[f] # "none"
    BY <1>4 DEF Execution, BeginExecution, EndExecution, FailExecution, TypeOK
  <2>3. LineageIsComplete' /\ RecoveryInv' /\ IdleInv'
    BY <2>1, <2>2 DEF RecoveryInv, IdleInv, TypeOK
  <2>4. PolicyInv'
    BY <2>1 DEF PolicyInv, First
  <2> QED
    BY <2>3, <2>4
<1>5. ASSUME NEW e \in Evaluation, OtherExecutes(e) \/ OtherEnds(e) \/ CancelPending(e)
      PROVE  ChainInv'
  <2>1. /\ UNCHANGED <<matched, created, terminal, phase, step, todo>>
        /\ phase = "idle" \/ step = "executing"
    BY <1>5 DEF OtherExecutes, OtherEnds, CancelPending, LoopIsFree
  <2>2. \A f \in Evaluation : status[f] # "none" => status'[f] # "none"
    BY <1>5 DEF OtherExecutes, OtherEnds, CancelPending, TypeOK
  <2>3. LineageIsComplete' /\ RecoveryInv' /\ IdleInv'
    BY <2>1, <2>2 DEF RecoveryInv, IdleInv, TypeOK
  <2>4. PolicyInv'
    BY <2>1 DEF PolicyInv, First
  <2> QED
    BY <2>3, <2>4
<1>6. CASE Clock \/ UNCHANGED vars
  BY <1>6 DEF Clock, vars, RecoveryInv, PolicyInv, IdleInv, First
<1> QED
  BY <1>1, <1>2, <1>3, <1>4, <1>5, <1>6, RecoveryChainInv, PoliciesChainInv
  DEF Next, Pass, Environment

LEMMA ChainInvHolds == Spec => []ChainInv
<1>1. Init => ChainInv
  BY DEF Init, ChainInv, LineageIsComplete, RecoveryInv, PolicyInv, IdleInv
<1>2. TypeOK /\ ChainInv /\ [Next]_vars => ChainInv'
  BY StepChainInv
<1> QED
  BY <1>1, <1>2, TypeCorrect, PTL DEF Spec

(* After a crash at any commit, every event of a chain still has the events and *)
(* the investigation it refers to.                                              *)
THEOREM LineageIsKept == Spec => []LineageIsComplete
<1>1. ChainInv => LineageIsComplete
  BY DEF ChainInv
<1> QED
  BY <1>1, ChainInvHolds, PTL

(* The pass executes no chain that has its terminal event. *)
THEOREM EndedChainsAreLeft == Spec => EndedChainsRest
<1>1. ASSUME TypeOK, ChainInv, [Next]_vars,
             NEW e \in Evaluation, step' = "opened", First(e), step # "opened"
      PROVE  terminal[e] = "none"
  <2>1. PICK f \in Evaluation : Resume(f) \/ Launch(f)
    <3>1. ASSUME NEW f \in Evaluation, Recovery(f)
          PROVE  Resume(f)
      BY <1>1, <3>1 DEF Recovery, PassOver, Recovered, Advance
    <3>2. ASSUME NEW f \in Evaluation, Policies(f)
          PROVE  Launch(f)
      BY <1>1, <3>2 DEF Policies, Ignore, Suppress, Match, Create, CreateFails, Announce,
         RecordFailure, Finish, Advance
    <3>3. ~(\E f \in Evaluation : Execution(f))
      BY <1>1 DEF Execution, BeginExecution, EndExecution, FailExecution
    <3>4. ~(Environment \/ BeginPass \/ BeginPolicies \/ EndPass \/ UNCHANGED vars)
      BY <1>1 DEF Environment, BeginPass, BeginPolicies, EndPass, InterruptPass, Crash,
         Reset, Clock, OtherExecutes, OtherEnds, CancelPending, vars
    <3> QED
      BY <1>1, <3>1, <3>2, <3>3, <3>4 DEF Next, Pass
  <2>2. First(f)
    BY <2>1 DEF Resume, Launch, At
  <2>3. e = f
    BY <1>1, <2>2, FirstIsUnique
  <2>4. CASE Resume(f)
    BY <1>1, <2>3, <2>4 DEF Resume, At, ChainInv, RecoveryInv, First
  <2>5. CASE Launch(f)
    BY <1>1, <2>3, <2>5 DEF Launch, At, ChainInv, PolicyInv
  <2> QED
    BY <2>1, <2>4, <2>5
<1>2. TypeOK /\ ChainInv /\ [Next]_vars =>
        [\A e \in Evaluation :
           step' = "opened" /\ First(e) /\ step # "opened" => terminal[e] = "none"]_vars
  BY <1>1
<1> QED
  BY <1>2, ChainInvHolds, TypeCorrect, PTL DEF Spec, EndedChainsRest

--------------------------------------------------------------------------------
(* Executions outside the pass *)

(* A follow-up that another request executes is running, and the pass is not  *)
(* executing it.                                                              *)
OthersInv ==
  /\ \A e \in others : status[e] = "running"
  /\ \A e \in others : First(e) => step \notin {"opened", "executing"}

LEMMA StepOthersInv ==
  ASSUME TypeOK, BudgetInv, ChainInv, OthersInv, [Next]_vars
  PROVE  OthersInv'
<1> USE DEF OthersInv
<1>0. \A e, f \in Evaluation : First(e) /\ First(f) => e = f
  BY FirstIsUnique
<1>1. ASSUME NEW e \in Evaluation, Resume(e) \/ Launch(e)
      PROVE  OthersInv'
  <2>1. UNCHANGED <<others, todo>> /\ First(e)
    BY <1>1 DEF Resume, Launch, At
  <2>2. CASE UNCHANGED status /\ step' \notin {"opened", "executing"}
    BY <2>1, <2>2 DEF First
  <2>3. CASE Open(e) /\ ~Refused(e)
    BY <1>0, <2>1, <2>3 DEF Open, Refused, First, TypeOK
  <2> QED
    BY <1>1, <2>2, <2>3 DEF Resume, Launch, Open
<1>2. ASSUME NEW e \in Evaluation, PassOver(e) \/ Recovered(e) \/ Ignore(e) \/ Suppress(e)
             \/ Match(e) \/ CreateFails(e) \/ Announce(e) \/ RecordFailure(e) \/ Finish(e)
      PROVE  OthersInv'
  <2>1. UNCHANGED <<others, status>> /\ step' \notin {"opened", "executing"}
    BY <1>2 DEF PassOver, Recovered, Ignore, Suppress, Match, CreateFails, Announce,
       RecordFailure, Finish, Advance
  <2> QED
    BY <2>1
<1>3. ASSUME NEW e \in Evaluation, Create(e)
      PROVE  OthersInv'
  BY <1>3 DEF Create, TypeOK
<1>4. ASSUME NEW e \in Evaluation, Execution(e)
      PROVE  OthersInv'
  <2>1. /\ UNCHANGED <<others, todo>> /\ First(e) /\ e \notin others
        /\ \A f \in others : status'[f] = status[f]
    BY <1>4 DEF Execution, BeginExecution, EndExecution, FailExecution, TypeOK
  <2> QED
    BY <1>0, <2>1 DEF First, TypeOK
<1>5. ASSUME NEW e \in Evaluation, OtherExecutes(e) \/ OtherEnds(e)
      PROVE  OthersInv'
  <2>1. UNCHANGED <<step, todo>> /\ (phase = "idle" => step = "next")
    BY <1>5 DEF OtherExecutes, OtherEnds, BudgetInv
  <2> QED
    BY <1>5, <2>1 DEF OtherExecutes, OtherEnds, Elsewhere, LoopIsFree, First, TypeOK
<1>6. ASSUME NEW e \in Evaluation, CancelPending(e)
      PROVE  OthersInv'
  BY <1>6 DEF CancelPending, First, TypeOK
<1>7. CASE BeginPass \/ BeginPolicies
  <2>1. UNCHANGED <<others, status, step>> /\ step \notin {"opened", "executing"}
    BY <1>7 DEF BeginPass, BeginPolicies, BudgetInv, ChainInv, IdleInv
  <2> QED
    BY <2>1
<1>8. CASE EndPass \/ InterruptPass \/ Crash \/ Clock \/ UNCHANGED vars
  BY <1>8 DEF EndPass, InterruptPass, Crash, Reset, Clock, vars, First
<1> QED
  BY <1>1, <1>2, <1>3, <1>4, <1>5, <1>6, <1>7, <1>8
  DEF Next, Pass, Environment, Recovery, Policies

(* A pass never ends the chain of a follow-up that another request is         *)
(* executing, except one whose attempts are used up (the check for an active  *)
(* execution of execute_investigation, and the status that                    *)
(* _recover_monitoring_trigger_chains reads again).                           *)
THEOREM NoneClosedUnderfoot == Spec => NotClosedUnderfoot
<1>1. Init => OthersInv
  BY DEF Init, OthersInv
<1>2. TypeOK /\ BudgetInv /\ ChainInv /\ OthersInv /\ [Next]_vars => OthersInv'
  BY StepOthersInv
<1>3. Init => BudgetInv
  BY LimitAssumption DEF Init, BudgetInv, BudgetHeld
<1>4. TypeOK /\ BudgetInv /\ [Next]_vars => BudgetInv'
  BY StepBudgetInv
<1>5. ASSUME TypeOK, OthersInv, [Next]_vars, NEW e \in Evaluation, terminal'[e] # terminal[e]
      PROVE  e \notin others \/ RetriesExhausted(e)
  <2>1. PICK d \in Evaluation :
          RecordTerminal(d) /\ (status[d] \notin Unfinished \/ RetriesExhausted(d))
    <3>1. ASSUME NEW d \in Evaluation, Recovery(d)
          PROVE  RecordTerminal(d) /\ (status[d] \notin Unfinished \/ RetriesExhausted(d))
      BY <1>5, <3>1 DEF Recovery, Resume, PassOver, Recovered, Settle
    <3>2. ASSUME NEW d \in Evaluation, Policies(d)
          PROVE  RecordTerminal(d) /\ (status[d] \notin Unfinished \/ RetriesExhausted(d))
      BY <1>5, <3>2 DEF Policies, Ignore, Suppress, Match, Create, CreateFails, Announce,
         Launch, RecordFailure, Finish
    <3>3. ASSUME NEW d \in Evaluation, Execution(d)
          PROVE  FALSE
      BY <1>5, <3>3 DEF Execution, BeginExecution, EndExecution, FailExecution, events
    <3>4. ~(Environment \/ BeginPass \/ BeginPolicies \/ EndPass \/ UNCHANGED vars)
      BY <1>5 DEF Environment, BeginPass, BeginPolicies, EndPass, InterruptPass, Crash,
         Clock, OtherExecutes, OtherEnds, CancelPending, vars, events
    <3> QED
      BY <1>5, <3>1, <3>2, <3>3, <3>4 DEF Next, Pass
  <2>2. e = d
    BY <1>5, <2>1 DEF RecordTerminal, TypeOK
  <2> QED
    BY <1>5, <2>1, <2>2 DEF OthersInv
<1>6. TypeOK /\ OthersInv /\ [Next]_vars =>
        [\A e \in Evaluation :
           terminal'[e] # terminal[e] => e \notin others \/ RetriesExhausted(e)]_vars
  BY <1>5
<1> QED
  BY <1>1, <1>2, <1>3, <1>4, <1>6, TypeCorrect, ChainInvHolds, PTL DEF Spec, NotClosedUnderfoot
================================================================================
