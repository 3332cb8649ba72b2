------------------------- MODULE ExecutionEngineProofs -------------------------
(* Proofs about the scheduler and its journal, for every plan. *)
EXTENDS ExecutionEngineProps, FiniteSetTheorems, TLAPS

USE DEF Resolving

--------------------------------------------------------------------------------
(* Type correctness *)

LEMMA InitTypeOK == Init => TypeOK
<1> SUFFICES ASSUME Init PROVE TypeOK
  OBVIOUS
<1>1. future \in [Runs -> [Task -> Live \cup Done \cup {"none"}]]
  BY DEF Init, NoFutures
<1>2. attempt \in [Runs -> [Task -> Nat]]
  BY DEF Init, NoAttempts
<1>3. stack \in Seq(Task)
  BY DEF Init
<1>4. results \in [Task -> Terminal \cup {"none"}] /\ invoked \in [Task -> Nat]
  BY DEF Init
<1>5. /\ pending \in [Task -> SUBSET Task] /\ kids \in [Task -> SUBSET Task]
      /\ inputs \in [Task -> SUBSET Task]
  BY DEF Init
<1>6. run \in 0..MaxRuns
  BY BoundsAssumption DEF Init
<1> QED
  BY <1>1, <1>2, <1>3, <1>4, <1>5, <1>6 DEF Init, TypeOK, Phases, Outcomes

(* Starting an execution from the checkpoints done gives well-typed locals. *)
LEMMA StartRunTypeOK ==
  ASSUME TypeOK, NEW done \in SUBSET Task, run < MaxRuns, StartRun(done),
         begun' \in BOOLEAN
  PROVE  TypeOK'
<1>1. completed' \in Nat
  BY TaskAssumption, FS_Subset, FS_CardinalityType DEF StartRun, InitialGraph
<1>2. run' \in Runs /\ run' \in 0..MaxRuns
  BY BoundsAssumption DEF StartRun, TypeOK, Runs
<1>3. results' \in [Task -> Terminal \cup {"none"}]
  BY DEF StartRun, InitialGraph, Terminal
<1>4. pending' \in [Task -> SUBSET Task]
  BY DepsAssumption DEF StartRun, InitialGraph
<1>5. ready' \subseteq Task /\ remaining' \subseteq Task /\ rejected' \subseteq Task
  BY DEF StartRun, InitialGraph
<1>6. inputs' \in [Task -> SUBSET Task]
  BY DEF StartRun, TypeOK
<1>7. phase' \in Phases /\ outcome' \in Outcomes /\ cancelled' \in BOOLEAN
  BY DEF StartRun, Phases, Outcomes
<1>8. closed' \in BOOLEAN
  BY DEF StartRun, ClosedUnderDeps
<1> QED
  BY <1>1, <1>2, <1>3, <1>4, <1>5, <1>6, <1>7, <1>8
  DEF TypeOK, StartRun, loops, calls, workers

(* An execution that ends keeps the futures that live and drops the others. *)
LEMMA EndKeepsLive ==
  ASSUME TypeOK, Return \/ RaiseFromFinish
  PROVE  /\ future' \in [Runs -> [Task -> Live \cup Done \cup {"none"}]]
         /\ \A r \in Runs : \A t \in Task :
              future'[r][t] = IF r = run /\ future[r][t] \notin Live THEN "none" ELSE future[r][t]
<1>1. future' = [future EXCEPT ![run] = OnlyLive(@)]
  BY DEF Return, RaiseFromFinish
<1>2. \A r \in Runs : future'[r] = IF r = run THEN OnlyLive(future[r]) ELSE future[r]
  BY <1>1 DEF TypeOK
<1>3. \A r \in Runs : \A t \in Task :
        future'[r][t] = IF r = run /\ future[r][t] \notin Live THEN "none" ELSE future[r][t]
  BY <1>2 DEF OnlyLive
<1>4. \A r \in Runs : OnlyLive(future[r]) \in [Task -> Live \cup Done \cup {"none"}]
  BY DEF OnlyLive
<1>5. future' \in [Runs -> [Task -> Live \cup Done \cup {"none"}]]
  BY <1>1, <1>4 DEF TypeOK
<1> QED
  BY <1>3, <1>5

(* The steps of the scheduler keep the types. *)
LEMMA SchedulerTypeOK == TypeOK /\ Scheduler => TypeOK'
<1> SUFFICES ASSUME TypeOK, Scheduler PROVE TypeOK'
  OBVIOUS
<1> USE DEF journal, graph, calls, loops, workers, history, Phases
<1>1. CASE \E t \in Task : StartTask(t)
  <2> PICK t \in Task : StartTask(t)
    BY <1>1
  <2>1. run \in Runs
    BY DEF StartTask, TypeOK
  <2>2. logged' \subseteq TaskEvents \X Task
    BY DEF StartTask, TypeOK, TaskEvents
  <2>3. future' \in [Runs -> [Task -> Live \cup Done \cup {"none"}]]
    BY <2>1 DEF StartTask, TypeOK, Live
  <2>4. attempt' \in [Runs -> [Task -> Nat]]
    BY <2>1 DEF StartTask, TypeOK
  <2>5. inputs' \in [Task -> SUBSET Task]
    BY DepsAssumption DEF StartTask, TypeOK
  <2> QED
    BY <2>1, <2>2, <2>3, <2>4, <2>5 DEF StartTask, TypeOK
<1>2. CASE Collect
  BY <1>2 DEF Collect, AtWait, TypeOK
<1>3. CASE \E t \in Task : FinishCompleted(t)
  <2> PICK t \in Task : FinishCompleted(t)
    BY <1>3
  <2>1. StatusOf(future[run][t]) \in Terminal
    BY DEF StatusOf, Terminal
  <2> QED
    BY <2>1 DEF FinishCompleted, TypeOK, Idle, Calls, Call
<1>4. CASE LeaveLoop
  BY <1>4 DEF LeaveLoop, TypeOK
<1>5. CASE Drained \/ BeginSweep \/ EndSweep
  BY <1>5 DEF Drained, BeginSweep, EndSweep, TypeOK
<1>6. CASE Return
  <2>1. attempt' \in [Runs -> [Task -> Nat]]
    BY <1>6 DEF Return, TypeOK
  <2>2. future' \in [Runs -> [Task -> Live \cup Done \cup {"none"}]]
    BY <1>6, EndKeepsLive
  <2> QED
    BY <1>6, <2>1, <2>2 DEF Return, TypeOK, ResultStatus, Outcomes
<1>7. CASE \E t \in Task : Capture(t)
  <2> PICK t \in Task : Capture(t)
    BY <1>7
  <2>1. StatusOf(future[run][t]) \in Terminal
    BY DEF StatusOf, Terminal
  <2> QED
    BY <2>1 DEF Capture, TypeOK, Idle, Calls, Call
<1>8. CASE \E t \in Task : SweepTask(t)
  BY <1>8 DEF SweepTask, TypeOK, Idle, Calls, Call, Terminal
<1> QED
  BY <1>1, <1>2, <1>3, <1>4, <1>5, <1>6, <1>7, <1>8 DEF Scheduler

(* A finish() call keeps them. *)
LEMMA FinishTypeOK == TypeOK /\ Finish => TypeOK'
<1> SUFFICES ASSUME TypeOK, Finish PROVE TypeOK'
  OBVIOUS
<1> USE DEF journal, graph, calls, loops, workers, history
<1>1. CASE SaveCheckpoint
  <2> PICK f \in finishing, e \in EncodeOutcomes :
        /\ finishing' = {[f EXCEPT !.saved = TRUE]}
        /\ checkpoint' = checkpoint \/ checkpoint' = checkpoint \cup {f.task}
    BY <1>1 DEF SaveCheckpoint
  <2>1. f \in Calls /\ f.task \in Task
    BY DEF TypeOK, Calls
  <2>2. [f EXCEPT !.saved = TRUE] \in Calls
    BY <2>1 DEF Calls
  <2> QED
    BY <1>1, <2>1, <2>2 DEF SaveCheckpoint, TypeOK
<1>2. CASE RaiseFromFinish
  <2>1. future' \in [Runs -> [Task -> Live \cup Done \cup {"none"}]]
    BY <1>2, EndKeepsLive
  <2>2. stack' \in Seq(Task) /\ kids' \in [Task -> SUBSET Task]
    BY <1>2 DEF RaiseFromFinish
  <2> QED
    BY <1>2, <2>1, <2>2 DEF RaiseFromFinish, TypeOK, Phases, Outcomes
<1>3. CASE RecordOutcome
  <2> PICK f \in finishing :
        /\ logged' = logged \cup {<<f.status, f.task>>}
        /\ results' = [results EXCEPT ![f.task] = f.status]
        /\ remaining' = remaining \ {f.task}
        /\ stack' = Append(stack, f.task)
        /\ kids' = [kids EXCEPT ![f.task] = Dependents(f.task)]
    BY <1>3 DEF RecordOutcome
  <2>1. f.task \in Task /\ f.status \in Terminal
    BY DEF TypeOK, Calls
  <2>2. logged' \subseteq TaskEvents \X Task
    BY <2>1 DEF TypeOK, TaskEvents
  <2>3. kids' \in [Task -> SUBSET Task]
    BY <2>1 DEF TypeOK, Dependents
  <2>4. results' \in [Task -> Terminal \cup {"none"}]
    BY <2>1 DEF TypeOK
  <2>5. stack' \in Seq(Task)
    BY <2>1 DEF TypeOK
  <2> QED
    BY <1>3, <2>1, <2>2, <2>3, <2>4, <2>5 DEF RecordOutcome, TypeOK
<1>4. CASE ReturnFromFinish
  <2>1. stack' \in Seq(Task)
    BY <1>4 DEF ReturnFromFinish, TypeOK
  <2> QED
    BY <1>4, <2>1 DEF ReturnFromFinish, TypeOK
<1>5. CASE \E c \in Task : VisitDependent(c)
  <2> PICK c \in Task : VisitDependent(c)
    BY <1>5
  <2>1. Call(c, "skipped") \in Calls
    BY DEF Call, Calls, Terminal
  <2>2. kids' \in [Task -> SUBSET Task] /\ pending' \in [Task -> SUBSET Task]
    BY DEF VisitDependent, TypeOK
  <2> QED
    BY <2>1, <2>2 DEF VisitDependent, TypeOK
<1> QED
  BY <1>1, <1>2, <1>3, <1>4, <1>5 DEF Finish

(* So do the coroutines and what cancels them. *)
LEMMA CoroutineTypeOK ==
  ASSUME TypeOK, NEW r \in Runs, NEW t \in Task, Coroutine(r, t)
  PROVE  TypeOK'
<1> USE DEF journal, graph, calls, loops, workers, history, SetFuture, Untouched
<1>1. CASE Invoke(r, t)
  <2>1. /\ future' \in [Runs -> [Task -> Live \cup Done \cup {"none"}]]
        /\ attempt' \in [Runs -> [Task -> Nat]]
        /\ invoked' \in [Task -> Nat]
    BY <1>1 DEF Invoke, TypeOK, Live
  <2> QED
    BY <1>1, <2>1 DEF Invoke, TypeOK
<1>2. CASE HandlerReturns(r, t) \/ HandlerRetries(r, t) \/ HandlerFails(r, t)
  <2>1. future' \in [Runs -> [Task -> Live \cup Done \cup {"none"}]]
    <3> PICK state \in Live \cup Done : future' = [future EXCEPT ![r][t] = state]
      BY <1>2 DEF HandlerReturns, HandlerRetries, HandlerFails, Live, Done
    <3> QED
      BY DEF TypeOK
  <2> QED
    BY <1>2, <2>1 DEF HandlerReturns, HandlerRetries, HandlerFails, TypeOK
<1> QED
  BY <1>1, <1>2 DEF Coroutine

LEMMA CancelReachesTypeOK ==
  ASSUME TypeOK, NEW t \in Task, CancelReaches(t)
  PROVE  TypeOK'
<1> USE DEF journal, graph, calls, loops, workers, history, SetFuture, Untouched
<1>1. CASE FutureCancelled(t)
  <2>1. future' \in [Runs -> [Task -> Live \cup Done \cup {"none"}]]
    <3>1. CASE run \in Runs
      BY <1>1, <3>1 DEF FutureCancelled, TypeOK, Done
    <3>2. CASE run \notin Runs
      <4>1. future' = future
        BY <1>1, <3>2 DEF FutureCancelled, TypeOK
      <4> QED
        BY <4>1 DEF TypeOK
    <3> QED
      BY <3>1, <3>2
  <2> QED
    BY <1>1, <2>1 DEF FutureCancelled, TypeOK
<1>2. CASE CancelSwallowed(t)
  BY <1>2 DEF CancelSwallowed, TypeOK
<1> QED
  BY <1>1, <1>2 DEF CancelReaches

LEMMA NextTypeOK == TypeOK /\ [Next]_vars => TypeOK'
<1> SUFFICES ASSUME TypeOK, [Next]_vars PROVE TypeOK'
  OBVIOUS
<1>1. CASE Execute
  BY <1>1, StartRunTypeOK DEF Execute
<1>2. CASE Resume
  BY <1>2, StartRunTypeOK DEF Resume, TypeOK
<1>3. CASE RefuseResume
  BY <1>3 DEF RefuseResume, TypeOK, Outcomes, journal, graph, calls, loops, workers, history
<1>4. CASE Scheduler
  BY <1>4, SchedulerTypeOK
<1>5. CASE Finish
  BY <1>5, FinishTypeOK
<1>6. CASE \E r \in Runs : \E t \in Task : Coroutine(r, t)
  BY <1>6, CoroutineTypeOK
<1>7. CASE \E t \in Task : CancelReaches(t)
  BY <1>7, CancelReachesTypeOK
<1>8. CASE Cancel
  BY <1>8 DEF Cancel, TypeOK, journal, graph, calls, loops, workers, history
<1>9. CASE CallerCancels
  <2>1. stack' \in Seq(Task) /\ kids' \in [Task -> SUBSET Task]
    BY <1>9 DEF CallerCancels
  <2> QED
    BY <1>9, <2>1 DEF CallerCancels, AtWait, TypeOK, Phases, journal, graph, calls, loops, workers,
       history
<1>10. CASE Crash
  <2>1. stack' \in Seq(Task) /\ kids' \in [Task -> SUBSET Task]
    BY <1>10 DEF Crash
  <2>2. /\ future' \in [Runs -> [Task -> Live \cup Done \cup {"none"}]]
        /\ attempt' \in [Runs -> [Task -> Nat]]
    BY <1>10 DEF Crash, NoFutures, NoAttempts
  <2>3. results' \in [Task -> Terminal \cup {"none"}] /\ pending' \in [Task -> SUBSET Task]
    BY <1>10 DEF Crash
  <2> QED
    BY <1>10, <2>1, <2>2, <2>3 DEF Crash, TypeOK, Phases, Outcomes, journal, history
<1>11. CASE UNCHANGED vars
  BY <1>11 DEF vars, TypeOK, journal, graph, calls, loops, workers, history
<1> QED
  BY <1>1, <1>2, <1>3, <1>4, <1>5, <1>6, <1>7, <1>8, <1>9, <1>10, <1>11 DEF Next

(* Every variable of the scheduler and its journal keeps its type. *)
THEOREM TypeCorrect == Spec => []TypeOK
<1>1. Init => TypeOK
  BY InitTypeOK
<1>2. TypeOK /\ [Next]_vars => TypeOK'
  BY NextTypeOK
<1> QED
  BY <1>1, <1>2, PTL DEF Spec

--------------------------------------------------------------------------------
(* Non-retry-safe handlers are called at most once *)

LEMMA InitSafetyInv == Init => SafetyInv
<1> SUFFICES ASSUME Init PROVE SafetyInv
  OBVIOUS
<1>1. UnsafeAtMostOnce
  BY DEF Init, UnsafeAtMostOnce, Unsafe
<1>2. JournalledFirst
  BY DEF Init, JournalledFirst, NoFutures
<1>3. OneCaller
  BY DEF Init, OneCaller, Unsafe, NoFutures
<1>4. UnresolvedGraph /\ LoopFresh
  BY DEF Init, UnresolvedGraph, LoopFresh
<1>5. CheckpointsClosed
  BY DEF Init, CheckpointsClosed
<1>6. CallsNest
  BY DEF Init, CallsNest, Idle
<1> QED
  BY <1>1, <1>2, <1>3, <1>4, <1>5, <1>6 DEF SafetyInv

(* The journal only grows, and task.running is in it before a future exists. *)
LEMMA StepJournalledFirst ==
  ASSUME TypeOK, JournalledFirst, [Next]_vars
  PROVE  JournalledFirst'
<1> USE DEF journal, graph, calls, loops, workers, history, SetFuture, Untouched
<1>1. CASE Execute \/ Resume \/ RefuseResume
  <2>1. UNCHANGED <<logged, future, invoked, cancelling>>
    BY <1>1 DEF Execute, Resume, RefuseResume, StartRun
  <2>2. begun' \/ UNCHANGED <<begun, phase, finishing, stack>>
    BY <1>1 DEF Execute, Resume, RefuseResume
  <2> QED
    BY <2>1, <2>2 DEF JournalledFirst, WasRun
<1>2. CASE \E t \in Task : StartTask(t)
  <2> PICK t \in Task : StartTask(t)
    BY <1>2
  <2>1. run \in Runs /\ logged' = logged \cup {<<"running", t>>}
    BY DEF StartTask, TypeOK
  <2>2. \A r \in Runs : \A u \in Task : u # t => future'[r][u] = future[r][u]
    BY <2>1 DEF StartTask, TypeOK
  <2>3. WasRun(t)' /\ \A u \in Task : WasRun(u) => WasRun(u)'
    BY <2>1 DEF WasRun
  <2>4. invoked' = invoked /\ cancelling' = cancelling /\ begun' = begun /\ phase = "loop"
    BY DEF StartTask
  <2> QED
    BY <2>1, <2>2, <2>3, <2>4 DEF JournalledFirst
<1>3. CASE Collect \/ Drained \/ BeginSweep \/ EndSweep
             \/ (\E t \in Task : FinishCompleted(t) \/ Capture(t) \/ SweepTask(t))
  BY <1>3 DEF Collect, AtWait, Drained, BeginSweep, EndSweep, FinishCompleted, Capture, SweepTask,
     JournalledFirst, WasRun
<1>4. CASE LeaveLoop \/ CallerCancels
  <2>1. run \in Runs /\ begun
    BY <1>4 DEF LeaveLoop, CallerCancels, AtWait, TypeOK, JournalledFirst
  <2>2. cancelling' \subseteq {t \in Task : WasRun(t)}
    BY <1>4, <2>1 DEF LeaveLoop, CallerCancels, JournalledFirst, TypeOK, Live
  <2> QED
    BY <1>4, <2>1, <2>2 DEF LeaveLoop, CallerCancels, JournalledFirst, WasRun
<1>5. CASE Return
  <2>1. \A r \in Runs : \A t \in Task : future'[r][t] # "none" => future[r][t] # "none"
    BY <1>5, EndKeepsLive
  <2> QED
    BY <1>5, <2>1 DEF Return, JournalledFirst, WasRun
<1>6. CASE SaveCheckpoint \/ ReturnFromFinish \/ Cancel \/ \E c \in Task : VisitDependent(c)
  BY <1>6 DEF SaveCheckpoint, ReturnFromFinish, Cancel, VisitDependent, JournalledFirst, WasRun
<1>7. CASE RaiseFromFinish
  <2>1. \A r \in Runs : \A t \in Task : future'[r][t] # "none" => future[r][t] # "none"
    BY <1>7, EndKeepsLive
  <2> QED
    BY <1>7, <2>1 DEF RaiseFromFinish, JournalledFirst, WasRun
<1>8. CASE RecordOutcome
  <2>1. begun /\ logged \subseteq logged'
    BY <1>8 DEF RecordOutcome, JournalledFirst
  <2> QED
    BY <1>8, <2>1 DEF RecordOutcome, JournalledFirst, WasRun
<1>9. CASE \E r \in Runs : \E t \in Task : Coroutine(r, t)
  <2> PICK r \in Runs, t \in Task : Coroutine(r, t)
    BY <1>9
  <2>1. future[r][t] # "none" /\ \E state : future' = [future EXCEPT ![r][t] = state]
    BY DEF Coroutine, Invoke, HandlerReturns, HandlerRetries, HandlerFails
  <2>2. WasRun(t)
    BY <2>1 DEF JournalledFirst
  <2>3. \A q \in Runs : \A u \in Task :
          future'[q][u] = future[q][u] \/ u = t
    BY <2>1 DEF TypeOK
  <2>4. \A u \in Task : invoked'[u] = invoked[u] \/ u = t
    BY DEF Coroutine, Invoke, HandlerReturns, HandlerRetries, HandlerFails, TypeOK
  <2>5. UNCHANGED <<begun, logged, phase, finishing, stack, cancelling>>
    BY DEF Coroutine, Invoke, HandlerReturns, HandlerRetries, HandlerFails
  <2> QED
    BY <2>2, <2>3, <2>4, <2>5 DEF JournalledFirst, WasRun
<1>10. CASE \E t \in Task : CancelReaches(t)
  <2> PICK t \in Task : CancelReaches(t)
    BY <1>10
  <2>1. WasRun(t) /\ cancelling' \subseteq cancelling
    BY DEF CancelReaches, FutureCancelled, CancelSwallowed, JournalledFirst
  <2>2. \A q \in Runs : \A u \in Task : future'[q][u] = future[q][u] \/ u = t
    <3>1. CASE run \in Runs
      BY <3>1 DEF CancelReaches, FutureCancelled, CancelSwallowed, TypeOK
    <3>2. CASE run \notin Runs
      BY <3>2 DEF CancelReaches, FutureCancelled, CancelSwallowed, TypeOK
    <3> QED
      BY <3>1, <3>2
  <2>3. UNCHANGED <<begun, logged, phase, finishing, stack, invoked>>
    BY DEF CancelReaches, FutureCancelled, CancelSwallowed
  <2> QED
    BY <2>1, <2>2, <2>3 DEF JournalledFirst, WasRun
<1>11. CASE Crash
  BY <1>11 DEF Crash, NoFutures, JournalledFirst, WasRun
<1>12. CASE UNCHANGED vars
  BY <1>12 DEF vars, JournalledFirst, WasRun
<1> QED
  BY <1>1, <1>2, <1>3, <1>4, <1>5, <1>6, <1>7, <1>8, <1>9, <1>10, <1>11, <1>12
  DEF Next, Scheduler, Finish

(* Only the coroutine that will call it the first time stands before the     *)
(* handler of an unsafe task.                                                *)
LEMMA StepOneCaller ==
  ASSUME TypeOK, SafetyInv, [Next]_vars
  PROVE  OneCaller' /\ UnsafeAtMostOnce'
<1> USE DEF journal, graph, calls, loops, workers, history, SetFuture, Untouched, Unsafe
<1> OneCaller /\ UnsafeAtMostOnce /\ JournalledFirst /\ LoopFresh
  BY DEF SafetyInv
<1>1. CASE UNCHANGED <<future, invoked>>
  BY <1>1 DEF OneCaller, UnsafeAtMostOnce
<1>2. CASE \E t \in Task : StartTask(t)
  <2> PICK t \in Task : StartTask(t)
    BY <1>2
  <2>1. run \in Runs /\ invoked' = invoked /\ future' = [future EXCEPT ![run][t] = "reported"]
    BY DEF StartTask, TypeOK
  <2>2. t \in Unsafe => invoked[t] = 0 /\ \A q \in Runs : future[q][t] = "none"
    <3>1. t \in Unsafe => ~WasRun(t)
      BY DEF StartTask, IsFirst, LoopFresh
    <3> QED
      BY <3>1 DEF JournalledFirst, TypeOK
  <2>3. \A q \in Runs : \A u \in Task :
          future'[q][u] = IF q = run /\ u = t THEN "reported" ELSE future[q][u]
    BY <2>1 DEF TypeOK
  <2> QED
    BY <2>1, <2>2, <2>3 DEF OneCaller, UnsafeAtMostOnce
<1>3. CASE Return \/ RaiseFromFinish
  <2>1. \A q \in Runs : \A u \in Task :
          future'[q][u] = future[q][u] \/ future'[q][u] = "none"
    BY <1>3, EndKeepsLive
  <2> QED
    BY <1>3, <2>1 DEF Return, RaiseFromFinish, OneCaller, UnsafeAtMostOnce
<1>4. CASE Crash
  BY <1>4 DEF Crash, NoFutures, OneCaller, UnsafeAtMostOnce
<1>5. ASSUME NEW r \in Runs, NEW t \in Task, Invoke(r, t)
      PROVE  OneCaller' /\ UnsafeAtMostOnce'
  <2>1. \A q \in Runs : \A u \in Task :
          future'[q][u] = IF q = r /\ u = t THEN "invoking" ELSE future[q][u]
    BY <1>5 DEF Invoke, TypeOK
  <2>2. \A u \in Task : invoked'[u] = IF u = t THEN invoked[t] + 1 ELSE invoked[u]
    BY <1>5 DEF Invoke, TypeOK
  <2>3. t \in Unsafe => invoked[t] = 0 /\ \A q \in Runs \ {r} : future[q][t] # "reported"
    BY <1>5 DEF Invoke, OneCaller
  <2> QED
    BY <2>1, <2>2, <2>3 DEF OneCaller, UnsafeAtMostOnce
<1>6. ASSUME NEW r \in Runs, NEW t \in Task,
             HandlerReturns(r, t) \/ HandlerRetries(r, t) \/ HandlerFails(r, t)
      PROVE  OneCaller' /\ UnsafeAtMostOnce'
  <2>1. PICK state : /\ future' = [future EXCEPT ![r][t] = state]
                     /\ state # "reported"
                     /\ state = "sleeping" => t \in RetrySafe
    BY <1>6 DEF HandlerReturns, HandlerRetries, HandlerFails
  <2>2. \A q \in Runs : \A u \in Task :
          future'[q][u] = IF q = r /\ u = t THEN state ELSE future[q][u]
    BY <2>1 DEF TypeOK
  <2>3. invoked' = invoked
    BY <1>6 DEF HandlerReturns, HandlerRetries, HandlerFails
  <2> QED
    BY <2>1, <2>2, <2>3 DEF OneCaller, UnsafeAtMostOnce
<1>7. CASE \E t \in Task : FutureCancelled(t)
  <2> PICK t \in Task : FutureCancelled(t)
    BY <1>7
  <2>1. \A q \in Runs : \A u \in Task :
          future'[q][u] = future[q][u] \/ future'[q][u] = "cancelled"
    <3>1. CASE run \in Runs
      BY <3>1 DEF FutureCancelled, TypeOK
    <3>2. CASE run \notin Runs
      BY <3>2 DEF FutureCancelled, TypeOK
    <3> QED
      BY <3>1, <3>2
  <2>2. invoked' = invoked
    BY DEF FutureCancelled
  <2> QED
    BY <2>1, <2>2 DEF OneCaller, UnsafeAtMostOnce
<1>8. Next => \/ UNCHANGED <<future, invoked>>
              \/ \E t \in Task : StartTask(t) \/ FutureCancelled(t)
              \/ Return \/ RaiseFromFinish \/ Crash
              \/ \E r \in Runs : \E t \in Task : Coroutine(r, t)
  BY DEF Next, Scheduler, Finish, CancelReaches, Execute, Resume, RefuseResume, StartRun,
     Collect, LeaveLoop, Drained, BeginSweep, EndSweep, FinishCompleted, Capture, SweepTask,
     SaveCheckpoint, RecordOutcome, ReturnFromFinish, VisitDependent, CancelSwallowed,
     Cancel, CallerCancels
<1> QED
  BY <1>1, <1>2, <1>3, <1>4, <1>5, <1>6, <1>7, <1>8 DEF Coroutine, vars

(* Which steps change what the loop works on, or go on from it. *)
LEMMA ResolvingSteps ==
  ASSUME [Next]_vars, Resolving'
  PROVE  \/ Execute \/ Resume
         \/ Collect \/ SaveCheckpoint \/ RecordOutcome
         \/ \E t \in Task : StartTask(t) \/ FinishCompleted(t) \/ VisitDependent(t)
         \/ LeaveLoop \/ CallerCancels \/ Drained \/ \E t \in Task : Capture(t)
         \/ UNCHANGED <<begun, logged, checkpoint, phase, graph, running, batch, finishing, kids>>
BY DEF Next, vars, Scheduler, Finish, RefuseResume, BeginSweep, EndSweep,
   Return, SweepTask, ReturnFromFinish, RaiseFromFinish, Coroutine, Invoke,
   HandlerReturns, HandlerRetries, HandlerFails, CancelReaches, FutureCancelled,
   CancelSwallowed, Cancel, Crash, Untouched, journal, graph, calls, loops

LEMMA LoopSteps ==
  ASSUME [Next]_vars, phase' = "loop"
  PROVE  \/ Execute \/ Resume
         \/ Collect \/ SaveCheckpoint \/ RecordOutcome
         \/ \E t \in Task : StartTask(t) \/ FinishCompleted(t) \/ VisitDependent(t)
         \/ UNCHANGED <<begun, logged, checkpoint, phase, graph, running, batch, finishing, kids>>
BY ResolvingSteps DEF LeaveLoop, CallerCancels, Drained, Capture

(* The first graph of an execution, from checkpoints closed under dependencies. *)
LEMMA StartUnresolvedGraph ==
  ASSUME TypeOK, NEW done \in SUBSET Task, StartRun(done), phase = "idle",
         \A t \in done : Deps[t] \subseteq done,
         running = {}, batch = {}, finishing = {}, \A t \in Task : kids[t] = {}
  PROVE  UnresolvedGraph'
<1> USE DEF StartRun, InitialGraph, loops, calls
<1>1. \A t \in Task : results'[t] = "none" <=> t \notin done
  OBVIOUS
<1>2. \A t \in Task : pending'[t] = Deps[t] \ done
  OBVIOUS
<1>3. running' = {} /\ batch' = {} /\ finishing' = {} /\ kids' = kids
  OBVIOUS
<1> QED
  BY <1>1, <1>2, <1>3 DEF UnresolvedGraph, Dependents

(* Holds whenever a plan is resumed, or the plan is never resumed. *)
ResumesClosed == Resume => \A t \in checkpoint : Deps[t] \subseteq checkpoint

LEMMA StepUnresolvedGraph ==
  ASSUME TypeOK, CallsNest, UnresolvedGraph, ResumesClosed, [Next]_vars
  PROVE  UnresolvedGraph'
<1> SUFFICES ASSUME Resolving' PROVE UnresolvedGraph'
  BY DEF UnresolvedGraph
<1> USE DEF graph, loops, calls
<1>1. CASE Execute \/ Resume
  <2>1. running = {} /\ batch = {} /\ finishing = {} /\ \A t \in Task : kids[t] = {}
    BY <1>1 DEF Execute, Resume, CallsNest, Idle
  <2> QED
    BY <1>1, <2>1, StartUnresolvedGraph DEF Execute, Resume, ResumesClosed, TypeOK
<1>2. CASE Collect
  BY <1>2 DEF Collect, AtWait, UnresolvedGraph, Dependents
<1>3. CASE SaveCheckpoint
  <2>1. \A g \in finishing' : \E f \in finishing : g.task = f.task
    BY <1>3 DEF SaveCheckpoint, TypeOK, Calls
  <2> QED
    BY <1>3, <2>1 DEF SaveCheckpoint, UnresolvedGraph, Dependents
<1>4. CASE RecordOutcome
  <2> PICK f \in finishing :
        /\ results' = [results EXCEPT ![f.task] = f.status]
        /\ kids' = [kids EXCEPT ![f.task] = Dependents(f.task)]
    BY <1>4 DEF RecordOutcome
  <2>1. f.task \in Task /\ f.status # "none"
    BY DEF TypeOK, Calls, Terminal
  <2>2. results[f.task] = "none" /\ pending[f.task] = {} /\ f.task \notin ready \cup running
    BY <1>4 DEF RecordOutcome, UnresolvedGraph
  <2>3. /\ UNCHANGED <<pending, ready, running, batch, phase>> /\ finishing' = {}
    BY <1>4 DEF RecordOutcome
  <2>4. \A t \in Task : /\ results'[t] = IF t = f.task THEN f.status ELSE results[t]
                        /\ kids'[t] = IF t = f.task THEN Dependents(f.task) ELSE kids[t]
    BY <2>1 DEF TypeOK
  <2>5. ready \subseteq Task /\ running \subseteq Task
    BY DEF TypeOK
  <2>6. \A t \in Task : results'[t] = "none" => \A c \in Dependents(t) : t \in pending'[c]
    BY <2>1, <2>3, <2>4 DEF UnresolvedGraph, RecordOutcome
  <2>7. \A t \in Task : \A c \in kids'[t] : t \in pending'[c] /\ results'[t] # "none"
    <3> TAKE t \in Task
    <3>1. CASE t = f.task
      BY <3>1, <2>1, <2>2, <2>3, <2>4 DEF UnresolvedGraph
    <3>2. CASE t # f.task
      BY <3>2, <2>1, <2>3, <2>4 DEF UnresolvedGraph
    <3> QED
      BY <3>1, <3>2
  <2>8. \A t \in Task : pending'[t] # {} => results'[t] = "none" /\ t \notin ready' \cup running'
    BY <2>1, <2>2, <2>3, <2>4 DEF UnresolvedGraph
  <2>9. \A t \in ready' \cup running' : results'[t] = "none"
    BY <2>1, <2>2, <2>3, <2>4, <2>5 DEF UnresolvedGraph
  <2> QED
    BY <2>3, <2>6, <2>7, <2>8, <2>9 DEF UnresolvedGraph, Dependents
<1>5. CASE \E t \in Task : StartTask(t)
  BY <1>5 DEF StartTask, UnresolvedGraph, IsFirst, Idle, Dependents
<1>6. CASE \E t \in Task : FinishCompleted(t)
  <2> PICK t \in Task : FinishCompleted(t)
    BY <1>6
  <2>1. t \in batch /\ t \in running /\ finishing' = {Call(t, StatusOf(future[run][t]))}
    BY DEF FinishCompleted, IsFirst, UnresolvedGraph
  <2>2. \A f \in finishing' : f.task = t
    BY <2>1 DEF Call
  <2> QED
    BY <2>1, <2>2 DEF FinishCompleted, UnresolvedGraph, Idle, Dependents
<1>7. CASE \E c \in Task : VisitDependent(c)
  <2> PICK c \in Task : VisitDependent(c)
    BY <1>7
  <2>1. Top \in Task /\ c \in kids[Top]
    BY DEF VisitDependent, IsFirst, TypeOK, Top
  <2>2. Top \in pending[c] /\ results[Top] # "none" /\ results[c] = "none"
        /\ c \notin ready \cup running
    BY <2>1 DEF VisitDependent, UnresolvedGraph
  <2>3. \A t \in Task : /\ pending'[t] = IF t = c THEN pending[c] \ {Top} ELSE pending[t]
                        /\ kids'[t] = IF t = Top THEN kids[Top] \ {c} ELSE kids[t]
    BY <2>1 DEF VisitDependent, TypeOK
  <2>4. UNCHANGED <<results, running, batch, phase>>
    BY DEF VisitDependent
  <2>5. /\ ready' = ready \/ (ready' = ready \cup {c} /\ pending'[c] = {} /\ finishing' = {})
        /\ finishing' = {} \/ (finishing' = {Call(c, "skipped")} /\ pending'[c] = {}
                                /\ ready' = ready)
    BY DEF VisitDependent
  <2>6. \A f \in finishing' : f.task = c /\ pending'[c] = {} /\ ready' = ready
    BY <2>5 DEF Call
  <2> HIDE DEF Top
  <2>7. \A t \in Task : results'[t] = "none" => \A d \in Dependents(t) : t \in pending'[d]
    BY <2>2, <2>3, <2>4 DEF UnresolvedGraph, Dependents
  <2>8. \A t \in Task : \A d \in kids'[t] : t \in pending'[d] /\ results'[t] # "none"
    <3> TAKE t \in Task
    <3> TAKE d \in kids'[t]
    <3>1. d \in kids[t] /\ d \in Task /\ (t = Top => d # c)
      BY <2>3 DEF TypeOK
    <3>2. t \in pending[d] /\ results[t] # "none"
      BY <3>1, <2>4 DEF UnresolvedGraph
    <3> QED
      BY <3>1, <3>2, <2>3, <2>4
  <2>9. \A t \in Task : pending'[t] # {} => results'[t] = "none" /\ t \notin ready' \cup running'
    <3> TAKE t \in Task
    <3> HAVE pending'[t] # {}
    <3>1. pending[t] # {}
      BY <2>3
    <3>2. results[t] = "none" /\ t \notin ready \cup running
      BY <3>1, <2>4 DEF UnresolvedGraph
    <3> QED
      BY <3>2, <2>4, <2>5
  <2>10. /\ \A t \in ready' \cup running' : results'[t] = "none"
         /\ ready' \cap running' = {}
         /\ batch' \subseteq running'
    BY <2>2, <2>4, <2>5 DEF UnresolvedGraph
  <2>11. \A f \in finishing' : /\ results'[f.task] = "none" /\ pending'[f.task] = {}
                               /\ f.task \notin ready' \cup running'
    BY <2>2, <2>4, <2>6
  <2> QED
    BY <2>7, <2>8, <2>9, <2>10, <2>11 DEF UnresolvedGraph, Dependents
<1>8. CASE UNCHANGED <<begun, logged, checkpoint, phase, graph, running, batch, finishing, kids>>
  BY <1>8 DEF UnresolvedGraph, Dependents
<1>9. CASE \E t \in Task : Capture(t)
  <2> PICK t \in Task : Capture(t)
    BY <1>9
  <2>1. t \in running /\ finishing' = {Call(t, StatusOf(future[run][t]))}
    BY DEF Capture
  <2>2. \A f \in finishing' : f.task = t
    BY <2>1 DEF Call
  <2>3. batch = {}
    BY DEF Capture, CallsNest
  <2> QED
    BY <2>1, <2>2, <2>3 DEF Capture, UnresolvedGraph, Idle, Dependents
<1>10. CASE LeaveLoop \/ Drained
  BY <1>10 DEF LeaveLoop, Drained, UnresolvedGraph, Dependents
<1>11. CASE CallerCancels
  BY <1>11 DEF CallerCancels, AtWait, UnresolvedGraph, Dependents
<1> QED
  BY <1>1, <1>2, <1>3, <1>4, <1>5, <1>6, <1>7, <1>8, <1>9, <1>10, <1>11, ResolvingSteps

(* A resumed execution makes ready or pending only unsafe tasks that never ran: *)
(* the others are checkpointed, or uncertain and refused.                       *)
LEMMA StepLoopFresh ==
  ASSUME TypeOK, SafetyInv, [Next]_vars
  PROVE  LoopFresh'
<1> SUFFICES ASSUME phase' = "loop", NEW t \in Unsafe, t \in ready' \/ pending'[t] # {}
             PROVE  ~WasRun(t)'
  BY DEF LoopFresh
<1> JournalledFirst /\ UnresolvedGraph /\ LoopFresh /\ CheckpointsClosed
  BY DEF SafetyInv
<1> t \in Task /\ t \notin RetrySafe
  BY DEF Unsafe
<1> USE DEF graph, loops, calls, journal, WasRun
<1>1. CASE Execute
  BY <1>1 DEF Execute, StartRun, JournalledFirst
<1>2. CASE Resume
  <2>1. logged' = logged
    BY <1>2 DEF Resume, StartRun
  <2>2. t \notin checkpoint
    <3>1. t \notin ready' => Deps[t] \ checkpoint # {}
      BY <1>2 DEF Resume, StartRun, InitialGraph
    <3>2. t \in ready' => t \notin checkpoint
      BY <1>2 DEF Resume, StartRun, InitialGraph
    <3> QED
      BY <3>1, <3>2 DEF CheckpointsClosed
  <2>3. t \notin Uncertain
    BY <1>2 DEF Resume
  <2> QED
    BY <2>1, <2>2, <2>3 DEF Uncertain
<1>3. CASE \E u \in Task : StartTask(u)
  <2> PICK u \in Task : StartTask(u)
    BY <1>3
  <2>1. u \in ready /\ pending[u] = {}
    BY DEF StartTask, IsFirst, UnresolvedGraph
  <2>2. t # u /\ (t \in ready \/ pending[t] # {})
    BY <2>1 DEF StartTask
  <2> QED
    BY <2>2 DEF StartTask, LoopFresh
<1>4. CASE \E c \in Task : VisitDependent(c)
  <2> PICK c \in Task : VisitDependent(c)
    BY <1>4
  <2>1. Top \in pending[c]
    BY DEF VisitDependent, IsFirst, UnresolvedGraph, TypeOK, Top
  <2>2. t \in ready \/ pending[t] # {}
    <3>1. pending'[t] # {} => pending[t] # {}
      BY DEF VisitDependent, TypeOK
    <3>2. t \in ready' => t \in ready \/ t = c
      BY DEF VisitDependent
    <3> QED
      BY <2>1, <3>1, <3>2
  <2> QED
    BY <2>2 DEF VisitDependent, LoopFresh
<1>5. CASE RecordOutcome
  <2>1. WasRun(t)' => WasRun(t)
    BY <1>5 DEF RecordOutcome, TypeOK, Calls, Terminal
  <2> QED
    BY <1>5, <2>1 DEF RecordOutcome, LoopFresh
<1>6. CASE Collect \/ SaveCheckpoint \/ \E u \in Task : FinishCompleted(u)
  BY <1>6 DEF Collect, AtWait, SaveCheckpoint, FinishCompleted, LoopFresh
<1>7. CASE UNCHANGED <<begun, logged, checkpoint, phase, graph, running, batch, finishing, kids>>
  BY <1>7 DEF LoopFresh
<1> QED
  BY <1>1, <1>2, <1>3, <1>4, <1>5, <1>6, <1>7, LoopSteps

(* finish() calls belong to the phases that make them. *)
LEMMA StepCallsNest ==
  ASSUME TypeOK, CallsNest, [Next]_vars
  PROVE  CallsNest'
<1> USE DEF graph, loops, calls, journal, Idle
<1>1. /\ phase' # "loop" => batch' = {}
      /\ phase' \in {"idle", "drain", "close"} => Idle'
      /\ phase' = "idle" => running' = {}
  <2>1. CASE Execute \/ Resume \/ RefuseResume \/ Crash \/ Cancel \/ CallerCancels
    BY <2>1 DEF Execute, Resume, RefuseResume, StartRun, Crash, Cancel, CallerCancels, CallsNest,
       AtWait, TypeOK, Phases
  <2>2. CASE Scheduler
    BY <2>2 DEF Scheduler, Collect, AtWait, LeaveLoop, Drained, BeginSweep, EndSweep, Return,
       StartTask, FinishCompleted, Capture, SweepTask, CallsNest
  <2>3. CASE Finish
    BY <2>3 DEF Finish, SaveCheckpoint, RaiseFromFinish, RecordOutcome, ReturnFromFinish,
       VisitDependent, CallsNest
  <2>4. CASE \/ \E r \in Runs : \E t \in Task : Coroutine(r, t)
             \/ \E t \in Task : CancelReaches(t)
             \/ UNCHANGED vars
    BY <2>4 DEF Coroutine, Invoke, HandlerReturns, HandlerRetries, HandlerFails, CancelReaches,
       FutureCancelled, CancelSwallowed, Untouched, vars, CallsNest
  <2> QED
    BY <2>1, <2>2, <2>3, <2>4 DEF Next
<1>2. \A t \in Task : kids'[t] # {} => \E i \in 1..Len(stack') : stack'[i] = t
  <2> stack \in Seq(Task) /\ kids \in [Task -> SUBSET Task] /\ finishing \subseteq Calls
    BY DEF TypeOK
  <2>1. CASE RecordOutcome
    <3> PICK f \in finishing :
          /\ stack' = Append(stack, f.task)
          /\ kids' = [kids EXCEPT ![f.task] = Dependents(f.task)]
      BY <2>1 DEF RecordOutcome
    <3> f.task \in Task
      BY DEF Calls
    <3> TAKE t \in Task
    <3> HAVE kids'[t] # {}
    <3>1. CASE t = f.task
      <4>1. stack'[Len(stack')] = t /\ Len(stack') \in 1..Len(stack')
        BY <3>1
      <4> QED
        BY <4>1
    <3>2. CASE t # f.task
      <4>1. PICK i \in 1..Len(stack) : stack[i] = t
        BY <3>2 DEF CallsNest
      <4>2. i \in 1..Len(stack') /\ stack'[i] = t
        BY <4>1
      <4> QED
        BY <4>2
    <3> QED
      BY <3>1, <3>2
  <2>2. CASE ReturnFromFinish
    <3> TAKE t \in Task
    <3> HAVE kids'[t] # {}
    <3>1. kids' = kids /\ stack # <<>> /\ stack' = SubSeq(stack, 1, Len(stack) - 1)
          /\ kids[stack[Len(stack)]] = {}
      BY <2>2 DEF ReturnFromFinish, Top
    <3>2. PICK i \in 1..Len(stack) : stack[i] = t
      BY <3>1 DEF CallsNest
    <3>3. i # Len(stack)
      BY <3>1, <3>2
    <3>4. i \in 1..(Len(stack) - 1)
      BY <3>2, <3>3
    <3>5. Len(stack') = Len(stack) - 1 /\ stack'[i] = t
      BY <3>1, <3>2, <3>4
    <3> QED
      BY <3>4, <3>5
  <2>3. CASE /\ stack' = stack
             /\ \A t \in Task : kids'[t] \subseteq kids[t]
    BY <2>3 DEF CallsNest
  <2>4. CASE \A t \in Task : kids'[t] = {}
    BY <2>4
  <2>5. CASE \E c \in Task : VisitDependent(c)
    <3>1. stack' = stack /\ \A t \in Task : kids'[t] \subseteq kids[t]
      BY <2>5 DEF VisitDependent
    <3> QED
      BY <2>3, <3>1
  <2>6. CASE Crash \/ RaiseFromFinish \/ CallerCancels
    BY <2>4, <2>6 DEF Crash, RaiseFromFinish, CallerCancels
  <2>7. Next => \/ RecordOutcome \/ ReturnFromFinish \/ (\E c \in Task : VisitDependent(c))
                \/ Crash \/ RaiseFromFinish \/ CallerCancels
                \/ UNCHANGED <<stack, kids>>
    BY DEF Next, Scheduler, Finish, Execute, Resume, RefuseResume, StartRun, Collect, AtWait,
       LeaveLoop, Drained, BeginSweep, EndSweep, Return, StartTask, FinishCompleted, Capture,
       SweepTask, SaveCheckpoint, Coroutine, Invoke, HandlerReturns, HandlerRetries,
       HandlerFails, CancelReaches, FutureCancelled, CancelSwallowed, Untouched, Cancel
  <2>8. CASE UNCHANGED <<stack, kids>>
    BY <2>3, <2>8
  <2> QED
    BY <2>1, <2>2, <2>5, <2>6, <2>7, <2>8 DEF vars
<1> QED
  BY <1>1, <1>2 DEF CallsNest

(* In a plan of strict tasks whose outputs can be encoded, a checkpoint is     *)
(* only ever added on top of the checkpoints of all its dependencies.          *)
LEMMA StepCheckpointsClosed ==
  ASSUME StrictPlan, TypeOK, SafetyInv, [Next]_vars
  PROVE  CheckpointsClosed'
<1> UnresolvedGraph /\ CheckpointsClosed /\ CallsNest
  BY DEF SafetyInv
<1> USE DEF graph, loops, calls, journal
<1>1. CASE Execute \/ Resume
  <2> PICK done \in SUBSET checkpoint : StartRun(done)
    BY <1>1 DEF Execute, Resume
  <2>1. /\ UNCHANGED <<checkpoint, running, finishing>>
        /\ ready' = {t \in Task \ done : Deps[t] \subseteq done}
        /\ \A t \in Task : results'[t] = "succeeded" => t \in done
        /\ \A t \in Task : pending'[t] = Deps[t] \ done
    BY DEF StartRun, InitialGraph
  <2> QED
    BY <2>1 DEF CheckpointsClosed
<1>2. CASE SaveCheckpoint
  <2> PICK f \in finishing : /\ f.status = "succeeded"
                             /\ checkpoint' = checkpoint \cup {f.task}
                             /\ finishing' = {[f EXCEPT !.saved = TRUE]}
    <3>1. "encoding_error" \notin EncodeOutcomes
      BY DEF StrictPlan
    <3> QED
      BY <1>2, <3>1, Zenon DEF SaveCheckpoint
  <2>1. \A g \in finishing' : g.task = f.task
    BY DEF TypeOK, Calls
  <2>2. Deps[f.task] \subseteq checkpoint
    BY DEF CheckpointsClosed
  <2>3. UNCHANGED <<phase, graph, running>>
    BY <1>2 DEF SaveCheckpoint
  <2> QED
    BY <2>1, <2>2, <2>3 DEF CheckpointsClosed
<1>3. CASE RecordOutcome
  <2> PICK f \in finishing : /\ f.status = "succeeded" => f.saved
                             /\ results' = [results EXCEPT ![f.task] = f.status]
    BY <1>3 DEF RecordOutcome
  <2>1. f.status = "succeeded" => f.task \in checkpoint
    BY DEF CheckpointsClosed
  <2>2. \A t \in Task : results'[t] = IF t = f.task THEN f.status ELSE results[t]
    BY DEF TypeOK, Calls
  <2> QED
    BY <1>3, <2>1, <2>2 DEF RecordOutcome, CheckpointsClosed
<1>4. CASE \E c \in Task : VisitDependent(c)
  <2> PICK c \in Task : VisitDependent(c)
    BY <1>4
  <2>1. Top \in Task /\ c \in kids[Top]
    BY DEF VisitDependent, IsFirst, TypeOK, Top
  <2>2. \A t \in Task : pending'[t] = IF t = c THEN pending[c] \ {Top} ELSE pending[t]
    BY DEF VisitDependent, TypeOK
  <2>3. rejected \subseteq rejected'
    BY DEF VisitDependent
  <2>4. UNCHANGED <<checkpoint, phase, results, running>>
    BY DEF VisitDependent
  <2>5. ASSUME phase = "loop", c \notin rejected'
        PROVE  Deps[c] \ pending'[c] \subseteq checkpoint
    <3>1. results[Top] = "succeeded"
      <4>1. results[Top] # "none"
        BY <2>1, <2>5 DEF UnresolvedGraph
      <4>2. ~Rejects(results[Top], c)
        BY <2>5 DEF VisitDependent
      <4>3. results[Top] \notin {"failed", "skipped", "cancelled"}
        BY <4>2 DEF Rejects, StrictPlan
      <4>4. results[Top] \in Terminal \cup {"none"}
        BY <2>1 DEF TypeOK
      <4> QED
        BY <4>1, <4>3, <4>4 DEF Terminal
    <3>2. Top \in checkpoint
      BY <2>1, <2>5, <3>1 DEF CheckpointsClosed
    <3>3. Deps[c] \ pending[c] \subseteq checkpoint
      BY <2>3, <2>5 DEF CheckpointsClosed
    <3> QED
      BY <2>2, <3>2, <3>3
  <2>6. /\ ready' = ready \/ (ready' = ready \cup {c} /\ pending'[c] = {} /\ c \notin rejected')
        /\ finishing' = finishing \/ finishing' = {Call(c, "skipped")}
    BY DEF VisitDependent
  <2>7. \A f \in finishing' : f \in finishing \/ f.status = "skipped"
    BY <2>6 DEF Call
  <2>8. ASSUME phase = "loop" PROVE \A t \in ready' : Deps[t] \subseteq checkpoint
    BY <2>5, <2>6, <2>8 DEF CheckpointsClosed
  <2> HIDE DEF Top
  <2> QED
    BY <2>2, <2>3, <2>4, <2>5, <2>7, <2>8 DEF CheckpointsClosed
<1>5. CASE \E t \in Task : StartTask(t)
  BY <1>5 DEF StartTask, IsFirst, CheckpointsClosed
<1>6. CASE \E t \in Task : FinishCompleted(t) \/ Capture(t) \/ SweepTask(t)
  <2> PICK t \in Task : FinishCompleted(t) \/ Capture(t) \/ SweepTask(t)
    BY <1>6
  <2>1. PICK status : /\ finishing' = {Call(t, status)}
                      /\ status = "succeeded" => t \in running
    BY DEF FinishCompleted, Capture, SweepTask, IsFirst, UnresolvedGraph, CallsNest
  <2>2. \A f \in finishing' : f.task = t /\ f.status = status /\ ~f.saved
    BY <2>1 DEF Call
  <2>3. running' \subseteq running /\ UNCHANGED <<checkpoint, phase, graph>>
    BY DEF FinishCompleted, Capture, SweepTask
  <2>4. \A f \in finishing' : f.status = "succeeded" => Deps[f.task] \subseteq checkpoint
    BY <2>1, <2>2 DEF CheckpointsClosed
  <2> QED
    BY <2>2, <2>3, <2>4 DEF CheckpointsClosed
<1>7. CASE /\ UNCHANGED checkpoint
           /\ running' \subseteq running /\ finishing' \subseteq finishing
           /\ phase' # "loop" \/ UNCHANGED <<phase, graph>>
  BY <1>7 DEF CheckpointsClosed
<1>8. Next => \/ Execute \/ Resume \/ SaveCheckpoint \/ RecordOutcome
              \/ \E t \in Task : StartTask(t) \/ VisitDependent(t)
              \/ \E t \in Task : FinishCompleted(t) \/ Capture(t) \/ SweepTask(t)
              \/ /\ UNCHANGED checkpoint
                 /\ running' \subseteq running /\ finishing' \subseteq finishing
                 /\ phase' # "loop" \/ UNCHANGED <<phase, graph>>
  BY DEF Next, Scheduler, Finish, RefuseResume, Collect, LeaveLoop, Drained, BeginSweep,
     EndSweep, Return, RaiseFromFinish, ReturnFromFinish, Coroutine, Invoke, HandlerReturns,
     HandlerRetries, HandlerFails, CancelReaches, FutureCancelled, CancelSwallowed, Untouched,
     Cancel, CallerCancels, Crash
<1>9. CASE UNCHANGED vars
  BY <1>7, <1>9 DEF vars
<1> QED
  BY <1>1, <1>2, <1>3, <1>4, <1>5, <1>6, <1>7, <1>8, <1>9

LEMMA StepSafetyInv ==
  ASSUME StrictPlan, TypeOK, TypeOK', SafetyInv, [Next]_vars
  PROVE  SafetyInv'
<1>1. CallsNest /\ UnresolvedGraph /\ ResumesClosed
  BY DEF SafetyInv, CheckpointsClosed, ResumesClosed
<1> QED
  BY <1>1, StepJournalledFirst, StepOneCaller, StepUnresolvedGraph, StepLoopFresh, StepCallsNest,
     StepCheckpointsClosed DEF SafetyInv

(* The handler of a task that is not retry safe is called at most once, for    *)
(* every plan of strict tasks, every concurrency and any number of executions. *)
THEOREM AtMostOnce == ASSUME StrictPlan PROVE Spec => []UnsafeAtMostOnce
<1>1. Init => SafetyInv
  BY InitSafetyInv
<1>2. TypeOK /\ TypeOK' /\ SafetyInv /\ [Next]_vars => SafetyInv'
  BY StepSafetyInv
<1>3. SafetyInv => UnsafeAtMostOnce
  BY DEF SafetyInv
<1> QED
  BY <1>1, <1>2, <1>3, TypeCorrect, PTL DEF Spec
================================================================================
