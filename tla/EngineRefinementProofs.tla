------------------------- MODULE EngineRefinementProofs -------------------------
(***************************************************************************)
(* Proofs that the scheduler never stalls and respects the graph, and that *)
(* it implements PlanExecution.                                            *)
(***************************************************************************)
EXTENDS EngineRefinement, ExecutionEngineProofs, WellFoundedInduction

USE DEF journal, graph, calls, loops, workers, history, SetFuture, Untouched, Idle,
        Resolving

(* The least-number principle, from the library's well-founded minimum. *)
LEMMA LeastOf ==
  ASSUME NEW S \in SUBSET Nat, S # {}
  PROVE  \E m \in S : \A n \in S : m <= n
<1> DEFINE Less == {p \in Nat \X Nat : p[1] < p[2]}
<1>1. IsWellFoundedOn(Less, Nat)
  BY NatLessThanWellFounded DEF OpToRel
<1>2. PICK m \in S : \A n \in S : <<n, m>> \notin Less
  BY <1>1, WFMin
<1>3. ASSUME NEW n \in S PROVE m <= n
  <2>1. n \in Nat /\ m \in Nat
    OBVIOUS
  <2>2. <<n, m>> \in Nat \X Nat /\ ~(n < m)
    BY <1>2, <2>1
  <2> QED
    BY <2>1, <2>2
<1> QED
  BY <1>3

LEMMA PrefixOf ==
  ASSUME NEW S, NEW s \in Seq(S), NEW n \in Nat, n <= Len(s)
  PROVE  /\ Len(SubSeq(s, 1, n)) = n
         /\ \A i \in 1..n : SubSeq(s, 1, n)[i] = s[i]
<1>1. Len(SubSeq(s, 1, n)) = n
  OBVIOUS
<1>2. \A i \in 1..n : SubSeq(s, 1, n)[i] = s[i]
  OBVIOUS
<1> QED
  BY <1>1, <1>2

LEMMA CallFields ==
  \A t, s : Call(t, s).task = t /\ Call(t, s).status = s /\ ~Call(t, s).saved
BY DEF Call

LEMMA OrderOfPlan ==
  /\ Order \in [Task -> 0..Cardinality(Task)]
  /\ \A t \in Task : Order[t] \in Nat
  /\ \A t \in Task : \A d \in Deps[t] : Order[d] < Order[t]
<1> DEFINE Sorts(rank) == \A t \in Task : \A d \in Deps[t] : rank[d] < rank[t]
<1>1. \E rank \in [Task -> 0..Cardinality(Task)] : Sorts(rank)
  BY DepsAssumption
<1>2. Order \in [Task -> 0..Cardinality(Task)] /\ Sorts(Order)
  BY <1>1 DEF Order
<1>3. Cardinality(Task) \in Nat
  BY TaskAssumption, FS_CardinalityType
<1> QED
  BY <1>2, <1>3

--------------------------------------------------------------------------------
(* Invariants of every plan *)

LEMMA StepOneFinish ==
  ASSUME TypeOK, CallsNest, OneFinish, [Next]_vars
  PROVE  OneFinish'
<1> USE DEF OneFinish
<1>1. CASE Execute \/ Resume
  <2> PICK done \in SUBSET Task : StartRun(done) /\ phase = "idle"
    BY <1>1 DEF Execute, Resume, TypeOK
  <2>1. finishing = {} /\ finishing' = {} /\ phase' = "loop"
    BY DEF StartRun, CallsNest
  <2>2. remaining' = {t \in Task : results'[t] = "none"}
    BY DEF StartRun, InitialGraph
  <2> QED
    BY <2>1, <2>2, Zenon
<1>2. CASE SaveCheckpoint
  <2> PICK f \in finishing : f.status = "succeeded" /\ finishing' = {[f EXCEPT !.saved = TRUE]}
    BY <1>2 DEF SaveCheckpoint
  <2>1. finishing = {f}
    OBVIOUS
  <2>2. \A g \in finishing' : g.status = "succeeded" /\ g.task = f.task
    BY DEF TypeOK, Calls
  <2>3. {g.task : g \in finishing'} = {g.task : g \in finishing}
    <3>1. {g.task : g \in finishing} = {f.task}
      BY <2>1
    <3>2. {g.task : g \in finishing'} = {f.task}
      BY <2>2
    <3> QED
      BY <3>1, <3>2
  <2>4. UNCHANGED <<phase, results, remaining, sweep>>
    BY <1>2 DEF SaveCheckpoint
  <2>5. \A g, h \in finishing' : g = h
    OBVIOUS
  <2> QED
    BY <2>2, <2>3, <2>4, <2>5
<1>3. CASE RecordOutcome
  <2> PICK f \in finishing : /\ results' = [results EXCEPT ![f.task] = f.status]
                             /\ remaining' = remaining \ {f.task}
    BY <1>3 DEF RecordOutcome
  <2>1. finishing' = {} /\ finishing = {f} /\ UNCHANGED <<phase, sweep>>
    BY <1>3 DEF RecordOutcome
  <2>2. f.task \in Task /\ f.status # "none"
    BY DEF TypeOK, Calls, Terminal
  <2>3. \A t \in Task : results'[t] = IF t = f.task THEN f.status ELSE results[t]
    BY <2>2 DEF TypeOK
  <2>4. phase # "idle" => remaining' = {t \in Task : results'[t] = "none"}
    BY <2>2, <2>3
  <2> QED
    BY <2>1, <2>4
<1>4. CASE \E c \in Task : VisitDependent(c)
  <2> PICK c \in Task : VisitDependent(c)
    BY <1>4
  <2>1. finishing' = {} \/ finishing' = {Call(c, "skipped")}
    BY DEF VisitDependent
  <2>2. UNCHANGED <<phase, results, remaining, sweep>> /\ finishing = {}
    BY DEF VisitDependent
  <2> QED
    BY <2>1, <2>2, CallFields
<1>5. CASE \E t \in Task : FinishCompleted(t) \/ Capture(t) \/ SweepTask(t)
  <2> PICK t \in Task : FinishCompleted(t) \/ Capture(t) \/ SweepTask(t)
    BY <1>5
  <2>1. PICK status : finishing' = {Call(t, status)}
    BY DEF FinishCompleted, Capture, SweepTask
  <2>2. UNCHANGED <<phase, results, remaining>> /\ finishing = {}
    BY DEF FinishCompleted, Capture, SweepTask
  <2>3. phase = "sweep" => remaining \subseteq sweep' \cup {t}
    BY <2>2 DEF FinishCompleted, Capture, SweepTask
  <2>4. phase # "close"
    BY DEF FinishCompleted, Capture, SweepTask
  <2> QED
    BY <2>1, <2>2, <2>3, <2>4, CallFields
<1>6. CASE BeginSweep \/ EndSweep \/ LeaveLoop \/ CallerCancels \/ Return \/ Drained
  BY <1>6 DEF BeginSweep, EndSweep, LeaveLoop, CallerCancels, AtWait, Return, Drained
<1>7. CASE RaiseFromFinish \/ Crash
  BY <1>7 DEF RaiseFromFinish, Crash
<1>8. CASE UNCHANGED <<finishing, phase, remaining, results, sweep>>
  BY <1>8
<1> QED
  BY <1>1, <1>2, <1>3, <1>4, <1>5, <1>6, <1>7, <1>8
     DEF Next, vars, Scheduler, Finish, RefuseResume, Collect, StartTask, ReturnFromFinish,
         Coroutine, Invoke, HandlerReturns, HandlerRetries, HandlerFails, CancelReaches,
         FutureCancelled, CancelSwallowed, Cancel

LEMMA StepNothingLost ==
  ASSUME TypeOK, CallsNest, OneFinish, NothingLost, [Next]_vars
  PROVE  NothingLost'
<1> SUFFICES ASSUME phase' = "loop" PROVE NothingLost'
  BY DEF NothingLost
<1> USE DEF NothingLost
<1>1. CASE Execute \/ Resume
  <2> PICK done \in SUBSET Task : StartRun(done)
    BY <1>1 DEF Execute, Resume, TypeOK
  <2>1. \A t \in Task : pending'[t] = Deps[t] \ done
    BY DEF StartRun, InitialGraph
  <2>2. remaining' = Task \ done /\ ready' = {t \in Task \ done : Deps[t] \subseteq done}
    BY DEF StartRun, InitialGraph
  <2>3. \A t \in Task : Deps[t] \subseteq Task
    BY DepsAssumption
  <2> QED
    BY <2>1, <2>2, <2>3
<1>2. CASE SaveCheckpoint
  <2> PICK f \in finishing : finishing' = {[f EXCEPT !.saved = TRUE]}
    BY <1>2 DEF SaveCheckpoint
  <2>1. finishing = {f} /\ \E g \in finishing' : g.task = f.task
    BY DEF OneFinish, TypeOK, Calls
  <2>2. {g.task : g \in finishing} \subseteq {g.task : g \in finishing'}
    BY <2>1
  <2>3. UNCHANGED <<phase, pending, ready, running, remaining, kids>>
    BY <1>2 DEF SaveCheckpoint
  <2> QED
    BY <2>2, <2>3
<1>3. CASE RecordOutcome
  <2> PICK f \in finishing : /\ remaining' = remaining \ {f.task}
                             /\ kids' = [kids EXCEPT ![f.task] = Dependents(f.task)]
    BY <1>3 DEF RecordOutcome
  <2>1. finishing = {f} /\ UNCHANGED <<phase, pending, ready, running>>
    BY <1>3 DEF RecordOutcome, OneFinish
  <2>2. \A t \in Task : kids'[t] = IF t = f.task THEN Dependents(f.task) ELSE kids[t]
    BY DEF TypeOK
  <2>3. \A c \in Task : \A d \in pending[c] : d = f.task => c \in Dependents(f.task)
    BY <2>1 DEF Dependents
  <2>4. \A c \in Task : pending[c] \subseteq Task
    BY DEF TypeOK
  <2> QED
    BY <2>1, <2>2, <2>3, <2>4
<1>4. CASE \E t \in Task : StartTask(t) \/ FinishCompleted(t)
  <2> PICK t \in Task : StartTask(t) \/ FinishCompleted(t)
    BY <1>4
  <2>1. CASE StartTask(t)
    BY <2>1 DEF StartTask
  <2>2. CASE FinishCompleted(t)
    <3>1. finishing' = {Call(t, StatusOf(future[run][t]))} /\ running' = running \ {t}
      BY <2>2 DEF FinishCompleted
    <3>2. UNCHANGED <<phase, remaining, pending, ready, kids>> /\ finishing = {}
      BY <2>2 DEF FinishCompleted
    <3> QED
      BY <3>1, <3>2, CallFields
  <2> QED
    BY <2>1, <2>2
<1>5. CASE \E c \in Task : VisitDependent(c)
  <2> PICK c \in Task : VisitDependent(c)
    BY <1>5
  <2>1. Top \in Task /\ finishing = {}
    BY DEF VisitDependent, TypeOK, Top
  <2>2. \A t \in Task : /\ pending'[t] = IF t = c THEN pending[c] \ {Top} ELSE pending[t]
                        /\ kids'[t] = IF t = Top THEN kids[Top] \ {c} ELSE kids[t]
    BY <2>1 DEF VisitDependent, TypeOK
  <2>3. UNCHANGED <<remaining, running, phase>> /\ ready \subseteq ready'
    BY DEF VisitDependent
  <2>4. pending'[c] = {} => c \in ready' \/ finishing' = {Call(c, "skipped")}
    BY DEF VisitDependent
  <2> HIDE DEF Top
  <2>5. \A t \in Task : pending[t] \subseteq Task
    BY DEF TypeOK
  <2>6. \A t \in Task : \A d \in pending'[t] :
          d \in Deps[t] /\ (d \in remaining' \/ t \in kids'[d])
    BY <2>2, <2>3, <2>5
  <2>7. \A t \in remaining' : pending'[t] = {} =>
          t \in ready' \cup running' \cup {f.task : f \in finishing'}
    <3>1. remaining \subseteq Task
      BY DEF TypeOK
    <3> QED
      BY <2>1, <2>2, <2>3, <2>4, <3>1, CallFields
  <2> QED
    BY <2>6, <2>7
<1>6. CASE Collect
  BY <1>6 DEF Collect
<1>7. CASE UNCHANGED <<begun, logged, checkpoint, phase, graph, running, batch, finishing, kids>>
  BY <1>7
<1> QED
  BY <1>1, <1>2, <1>3, <1>4, <1>5, <1>6, <1>7, LoopSteps

(* The least unresolved task in the order of the plan waits for no other one. *)
LEMMA NothingStalls ==
  ASSUME TypeOK, CallsNest, NothingLost
  PROVE  NeverStalls
<1> SUFFICES ASSUME phase = "loop", Idle, ready = {}, running = {}, remaining # {}
             PROVE  FALSE
  BY DEF NeverStalls
<1>1. remaining \subseteq Task
  BY DEF TypeOK
<1>2. PICK t \in remaining : \A u \in remaining : Order[t] <= Order[u]
  <2> DEFINE Places == {Order[u] : u \in remaining}
  <2>1. Places \in SUBSET Nat /\ Places # {}
    BY <1>1, OrderOfPlan
  <2>2. PICK m \in Places : \A n \in Places : m <= n
    BY <2>1, LeastOf
  <2> QED
    BY <2>2
<1>3. PICK d \in pending[t] : TRUE
  BY <1>1 DEF NothingLost
<1>4. d \in Deps[t] /\ (d \in remaining \/ t \in kids[d])
  BY <1>1 DEF NothingLost
<1>5. d \in Task /\ kids[d] = {}
  <2>1. d \in Task
    BY <1>1, <1>4, DepsAssumption
  <2> QED
    BY <2>1 DEF CallsNest
<1>6. Order[d] < Order[t] /\ Order[t] <= Order[d]
  BY <1>1, <1>2, <1>4, <1>5, OrderOfPlan
<1>7. Order[d] \in Nat /\ Order[t] \in Nat
  BY <1>1, <1>5, OrderOfPlan
<1> QED
  BY <1>6, <1>7

(* How a coroutine's own step changes its future. *)
LEMMA CoroutineFutures ==
  ASSUME TypeOK, NEW r \in Runs, NEW t \in Task, Coroutine(r, t)
  PROVE  /\ future[r][t] \in {"reported", "sleeping", "invoking"}
         /\ \A q \in Runs : \A u \in Task :
              <<q, u>> # <<r, t>> => future'[q][u] = future[q][u]
         /\ future'[r][t] \in {"invoking", "sleeping", "ok", "failed"}
         /\ \A u \in Task : invoked'[u] \in Nat /\ invoked'[u] >= invoked[u]
         /\ future'[r][t] = "invoking" => invoked'[t] > 0
         /\ future[r][t] = "invoking" \/ future'[r][t] = "invoking"
         /\ UNCHANGED <<run, phase, running, batch, finishing, cancelling, results, cancelled>>
<1>1. \A u \in Task : invoked[u] \in Nat
  BY DEF TypeOK
<1>2. CASE Invoke(r, t)
  <2>1. \A u \in Task : invoked'[u] = IF u = t THEN invoked[u] + 1 ELSE invoked[u]
    BY <1>2 DEF Invoke, TypeOK
  <2>2. \A q \in Runs : \A u \in Task :
          future'[q][u] = IF <<q, u>> = <<r, t>> THEN "invoking" ELSE future[q][u]
    BY <1>2 DEF Invoke, TypeOK
  <2> QED
    BY <1>1, <1>2, <2>1, <2>2 DEF Invoke
<1>3. CASE ~Invoke(r, t)
  <2>1. PICK state \in {"sleeping", "ok", "failed"} : SetFuture(r, t, state)
    BY <1>3 DEF Coroutine, HandlerReturns, HandlerRetries, HandlerFails
  <2>2. \A q \in Runs : \A u \in Task :
          future'[q][u] = IF <<q, u>> = <<r, t>> THEN state ELSE future[q][u]
    BY <2>1 DEF TypeOK
  <2>3. future[r][t] = "invoking" /\ UNCHANGED <<cancelling, history>> /\ Untouched
    BY <1>3 DEF Coroutine, HandlerReturns, HandlerRetries, HandlerFails
  <2> QED
    BY <1>1, <2>2, <2>3
<1> QED
  BY <1>2, <1>3

LEMMA CancelledFutures ==
  ASSUME TypeOK, run \in Runs, NEW t \in Task, FutureCancelled(t)
  PROVE  /\ \A q \in Runs : \A u \in Task :
              future'[q][u] = IF <<q, u>> = <<run, t>> THEN "cancelled" ELSE future[q][u]
         /\ cancelling' = cancelling \ {t}
BY DEF FutureCancelled, TypeOK

LEMMA StepFuturesHeld ==
  ASSUME TypeOK, CallsNest, OneFinish, FuturesHeld, [Next]_vars
  PROVE  FuturesHeld'
<1> USE DEF FuturesHeld
<1> /\ run \in 0..MaxRuns /\ (phase # "idle" => run \in Runs)
    /\ \A r \in Runs : \A t \in Task : future[r][t] \in Live \cup Done \cup {"none"}
  BY DEF TypeOK
<1>1. CASE Execute \/ Resume
  <2> PICK done \in SUBSET Task : StartRun(done) /\ phase = "idle" /\ run < MaxRuns
    BY <1>1 DEF Execute, Resume, TypeOK
  <2>1. /\ run' = run + 1 /\ phase' = "loop"
        /\ UNCHANGED <<future, batch, cancelling, finishing, invoked>>
    BY DEF StartRun
  <2>2. MaxRuns \in Nat
    BY BoundsAssumption
  <2>3. run' \in Runs /\ future[run'] = NoFutures
    BY <2>1, <2>2 DEF Runs
  <2>4. \A t \in Task : future[run'][t] = "none"
    BY <2>3 DEF NoFutures
  <2>5. batch = {} /\ cancelling = {} /\ finishing = {}
    BY DEF CallsNest
  <2>6. \A r \in Runs : r > run' => r > run
    BY <2>1, <2>2 DEF Runs
  <2> QED
    BY <2>1, <2>4, <2>5, <2>6 DEF Live
<1>2. CASE \E t \in Task : StartTask(t)
  <2> PICK t \in Task : StartTask(t)
    BY <1>2
  <2>1. \A r \in Runs : \A u \in Task :
          future'[r][u] = IF r = run /\ u = t THEN "reported" ELSE future[r][u]
    BY DEF StartTask, TypeOK
  <2>2. \A r \in Runs : r > run => future'[r] = future[r]
    BY DEF StartTask, TypeOK
  <2>3. /\ phase = "loop" /\ batch = {} /\ running' = running \cup {t}
        /\ UNCHANGED <<run, phase, batch, finishing, cancelling, invoked>>
    BY DEF StartTask
  <2> QED
    BY <2>1, <2>2, <2>3
<1>3. CASE Collect
  BY <1>3 DEF Collect, TypeOK
<1>4. CASE \E t \in Task : FinishCompleted(t) \/ Capture(t) \/ SweepTask(t)
  <2> PICK t \in Task : FinishCompleted(t) \/ Capture(t) \/ SweepTask(t)
    BY <1>4
  <2>1. PICK status : /\ finishing' = {Call(t, status)}
                      /\ status = "succeeded" => future[run][t] = "ok"
    BY DEF FinishCompleted, Capture, SweepTask, StatusOf
  <2>2. /\ running' \in {running, running \ {t}} /\ batch' \subseteq batch
        /\ running' # running => future[run][t] \in Done
        /\ phase # "idle" /\ phase # "drain"
        /\ UNCHANGED <<run, phase, cancelling, future, invoked>>
    BY DEF FinishCompleted, Capture, SweepTask, IsFirst, Done
  <2>3. Live \cap Done = {}
    BY DEF Live, Done
  <2> QED
    BY <2>1, <2>2, <2>3, CallFields
<1>5. CASE LeaveLoop \/ CallerCancels
  <2>1. /\ phase = "loop" /\ UNCHANGED <<run, running, finishing, future, invoked>>
        /\ batch' = {}
        /\ \/ phase' = "close" /\ UNCHANGED cancelling
           \/ phase' = "drain" /\ cancelling' = {t \in running : future[run][t] \in Live}
    BY <1>5 DEF LeaveLoop, CallerCancels, AtWait
  <2> QED
    BY <2>1
<1>6. CASE SaveCheckpoint
  <2> PICK f \in finishing : f.status = "succeeded" /\ finishing' = {[f EXCEPT !.saved = TRUE]}
    BY <1>6 DEF SaveCheckpoint
  <2>1. \A g \in finishing' : g.task = f.task
    BY DEF TypeOK, Calls
  <2>2. invoked[f.task] > 0
    OBVIOUS
  <2>3. UNCHANGED <<run, phase, running, batch, future, cancelling, invoked>>
    BY <1>6 DEF SaveCheckpoint
  <2> QED
    BY <2>1, <2>2, <2>3
<1>7. CASE RaiseFromFinish
  <2>1. phase # "idle" /\ phase # "drain"
    BY <1>7 DEF RaiseFromFinish, CallsNest
  <2>2. \A r \in Runs : \A t \in Task :
          future'[r][t] = IF r = run /\ future[r][t] \notin Live THEN "none" ELSE future[r][t]
    BY <1>7, EndKeepsLive
  <2>3. \A r \in Runs : r > run => future'[r] = future[r]
    BY <1>7, <2>1 DEF RaiseFromFinish, TypeOK
  <2>4. /\ phase' = "idle" /\ batch' = {} /\ finishing' = {}
        /\ UNCHANGED <<run, cancelling, invoked>>
    BY <1>7 DEF RaiseFromFinish
  <2> QED
    BY <2>1, <2>2, <2>3, <2>4
<1>8. CASE \E r \in Runs : \E t \in Task : Coroutine(r, t)
  <2> PICK r \in Runs, t \in Task : Coroutine(r, t)
    BY <1>8
  <2>2. ASSUME NEW q \in Runs, q > run PROVE future'[q] = future[q]
    <3>1. q # r
      BY <2>2, CoroutineFutures DEF NoFutures
    <3> QED
      BY <3>1 DEF Coroutine, Invoke, HandlerReturns, HandlerRetries, HandlerFails, TypeOK
  <2>3. ASSUME NEW u \in Task, future[run][u] \in Done, run \in Runs
        PROVE  future'[run][u] = future[run][u]
    <3>1. future[r][t] \notin Done
      BY CoroutineFutures DEF Done
    <3>2. <<run, u>> # <<r, t>>
      BY <2>3, <3>1
    <3> QED
      BY <2>3, <3>2, CoroutineFutures
  <2>4. ASSUME NEW u \in Task, future'[run][u] \in Live, run \in Runs
        PROVE  future[run][u] \in Live
    BY <2>4, CoroutineFutures DEF Live
  <2>5. ASSUME NEW u \in cancelling PROVE future'[run][u] = future[run][u]
    <3>1. <<r, t>> # <<run, u>> /\ u \in Task /\ run \in Runs
      BY DEF Coroutine, Invoke, HandlerReturns, HandlerRetries, HandlerFails, MayStep, TypeOK
    <3> QED
      BY <3>1, CoroutineFutures
  <2>6. ASSUME NEW q \in Runs, NEW u \in Task,
               future'[q][u] \in {"invoking", "sleeping", "ok", "failed"}
        PROVE  invoked'[u] > 0
    <3>1. CASE <<q, u>> = <<r, t>>
      <4>1. invoked[t] \in Nat
        BY DEF TypeOK
      <4> QED
        BY <2>6, <3>1, <4>1, CoroutineFutures
    <3>2. CASE <<q, u>> # <<r, t>>
      <4>1. future'[q][u] = future[q][u]
        BY <3>2, CoroutineFutures
      <4>2. invoked[u] > 0
        BY <2>6, <4>1
      <4>3. invoked[u] \in Nat /\ invoked'[u] \in Nat /\ invoked'[u] >= invoked[u]
        BY CoroutineFutures DEF TypeOK
      <4> QED
        BY <4>2, <4>3
    <3> QED
      BY <3>1, <3>2
  <2>7. ASSUME NEW f \in finishing, f.status = "succeeded" PROVE invoked'[f.task] > 0
    <3>1. f.task \in Task /\ invoked[f.task] \in Nat
      BY DEF TypeOK, Calls
    <3> QED
      BY <2>7, <3>1, CoroutineFutures
  <2>8. UNCHANGED <<run, phase, running, batch, finishing, cancelling>>
    BY CoroutineFutures
  <2>9. batch \subseteq Task /\ running \subseteq Task /\ cancelling \subseteq Task
    BY DEF TypeOK
  <2>10. batch # {} => run \in Runs
    BY DEF CallsNest
  <2> QED
    BY <2>2, <2>3, <2>4, <2>5, <2>6, <2>7, <2>8, <2>9, <2>10
<1>9. CASE \E t \in Task : FutureCancelled(t)
  <2> PICK t \in Task : FutureCancelled(t)
    BY <1>9
  <2>1. /\ phase = "drain" /\ run \in Runs
        /\ UNCHANGED <<run, phase, running, batch, finishing, invoked>>
    BY DEF FutureCancelled
  <2>2. batch = {}
    BY <2>1 DEF CallsNest
  <2>3. \A r \in Runs : r > run => future'[r] = future[r]
    BY DEF FutureCancelled, TypeOK
  <2>4. cancelling \subseteq Task
    BY DEF TypeOK
  <2>5. \A q \in Runs : \A u \in Task :
          future'[q][u] = IF q = run /\ u = t THEN "cancelled" ELSE future[q][u]
    BY <2>1, CancelledFutures
  <2>6. cancelling' = cancelling \ {t}
    BY DEF FutureCancelled
  <2>7. /\ \A r \in Runs : r > run' => future'[r] = NoFutures
        /\ phase' = "drain" /\ batch' = {}
    BY <2>1, <2>2, <2>3
  <2>8. \A u \in Task : future'[run][u] \in Live => u \in running
    BY <2>1, <2>5 DEF Live
  <2>9. \A u \in cancelling' : u \in running /\ future'[run][u] \in Live
    BY <2>1, <2>4, <2>5, <2>6
  <2>10. \A q \in Runs : \A u \in Task :
           future'[q][u] \in {"invoking", "sleeping", "ok", "failed"} => invoked[u] > 0
    BY <2>5
  <2>11. \A f \in finishing' : f.status = "succeeded" => invoked'[f.task] > 0
    BY <2>1
  <2> QED
    BY <2>1, <2>7, <2>8, <2>9, <2>10, <2>11
<1>10. CASE \E t \in Task : CancelSwallowed(t)
  BY <1>10 DEF CancelSwallowed
<1>11. CASE Drained
  <2>1. /\ phase = "drain" /\ phase' = "capture" /\ \A t \in running : future[run][t] \in Done
        /\ UNCHANGED <<run, running, batch, finishing, future, cancelling, invoked>>
    BY <1>11 DEF Drained
  <2>2. cancelling = {}
    BY <2>1 DEF Live, Done
  <2> QED
    BY <2>1, <2>2
<1>12. CASE BeginSweep
  <2>1. /\ phase = "capture" /\ phase' = "sweep" /\ running' = {}
        /\ \A t \in running : future[run][t] \notin Live
        /\ UNCHANGED <<run, batch, finishing, future, cancelling, invoked>>
    BY <1>12 DEF BeginSweep, Live
  <2> QED
    BY <2>1
<1>13. CASE Return
  <2>1. /\ phase = "close" /\ phase' = "idle"
        /\ UNCHANGED <<run, batch, finishing, cancelling, invoked>>
    BY <1>13 DEF Return
  <2>2. \A r \in Runs : \A t \in Task :
          future'[r][t] = IF r = run /\ future[r][t] \notin Live THEN "none" ELSE future[r][t]
    BY <1>13, EndKeepsLive
  <2>3. \A r \in Runs : r > run => future'[r] = future[r]
    BY <1>13, <2>1 DEF Return, TypeOK
  <2>4. batch = {} /\ cancelling = {}
    BY <2>1 DEF CallsNest
  <2> QED
    BY <2>1, <2>2, <2>3, <2>4
<1>14. CASE Crash
  BY <1>14 DEF Crash, NoFutures
<1>15. CASE \/ RefuseResume \/ EndSweep \/ RecordOutcome \/ ReturnFromFinish \/ Cancel
            \/ \E c \in Task : VisitDependent(c)
  <2>1. /\ UNCHANGED <<run, running, batch, future, cancelling, invoked>>
        /\ phase' = phase \/ (phase = "sweep" /\ phase' = "close")
    BY <1>15 DEF RefuseResume, EndSweep, RecordOutcome, ReturnFromFinish, Cancel, VisitDependent
  <2>2. \A f \in finishing' : f \in finishing \/ f.status = "skipped"
    BY <1>15, CallFields
       DEF RefuseResume, EndSweep, RecordOutcome, ReturnFromFinish, Cancel, VisitDependent
  <2> QED
    BY <2>1, <2>2
<1>16. CASE UNCHANGED vars
  BY <1>16 DEF vars
<1> QED
  BY <1>1, <1>2, <1>3, <1>4, <1>5, <1>6, <1>7, <1>8, <1>9, <1>10, <1>11, <1>12, <1>13, <1>14,
     <1>15, <1>16 DEF Next, Scheduler, Finish, CancelReaches

LEMMA StepTokenSet ==
  ASSUME TypeOK, CallsNest, OneFinish, NothingLost, FuturesHeld, TokenSet, [Next]_vars
  PROVE  TokenSet'
<1> SUFFICES ASSUME phase' # "idle", ~cancelled' PROVE TokenSet'
  BY DEF TokenSet
<1> USE DEF TokenSet
<1>1. CASE Execute \/ Resume
  <2> PICK done \in SUBSET Task : StartRun(done) /\ phase = "idle" /\ run < MaxRuns
    BY <1>1 DEF Execute, Resume, TypeOK
  <2>1. run + 1 \in Runs /\ run + 1 > run
    BY BoundsAssumption DEF TypeOK, Runs
  <2>2. future[run + 1] = NoFutures /\ finishing = {}
    BY <2>1 DEF FuturesHeld, CallsNest
  <2>3. \A t \in Task : results'[t] # "cancelled"
    BY DEF StartRun, InitialGraph
  <2>4. phase' = "loop" /\ run' = run + 1 /\ UNCHANGED <<future, finishing>>
    BY DEF StartRun
  <2> QED
    BY <2>2, <2>3, <2>4 DEF NoFutures
<1> SUFFICES ASSUME ~(Execute \/ Resume), phase # "idle", run \in Runs, ~cancelled
             PROVE  TokenSet'
  BY <1>1 DEF Next, vars, Scheduler, Finish, RefuseResume, Collect, LeaveLoop, Drained,
     BeginSweep, EndSweep, Return, StartTask, FinishCompleted, Capture, SweepTask,
     SaveCheckpoint, RaiseFromFinish, RecordOutcome, ReturnFromFinish, VisitDependent,
     Coroutine, Invoke, HandlerReturns, HandlerRetries, HandlerFails, CancelReaches,
     FutureCancelled, CancelSwallowed, Cancel, CallerCancels, Crash, TypeOK
<1>2. CASE \E t \in Task : StartTask(t)
  <2> PICK t \in Task : StartTask(t)
    BY <1>2
  <2>1. \A u \in Task : future'[run][u] = IF u = t THEN "reported" ELSE future[run][u]
    BY DEF StartTask, TypeOK
  <2> QED
    BY <2>1 DEF StartTask
<1>3. CASE \E t \in Task : FinishCompleted(t)
  <2> PICK t \in Task : FinishCompleted(t)
    BY <1>3
  <2>1. future[run][t] \in {"ok", "failed"}
    BY DEF FinishCompleted, IsFirst, FuturesHeld, Done
  <2>2. finishing' = {Call(t, StatusOf(future[run][t]))}
    BY DEF FinishCompleted
  <2>3. \A f \in finishing' : f.status # "cancelled"
    BY <2>1, <2>2, CallFields DEF StatusOf
  <2> QED
    BY <2>3 DEF FinishCompleted
<1>4. CASE LeaveLoop
  <2>1. remaining = {}
    BY <1>4, NothingStalls DEF LeaveLoop, NeverStalls
  <2> QED
    BY <1>4, <2>1 DEF LeaveLoop
<1>5. CASE SaveCheckpoint
  <2> PICK f \in finishing : finishing' = {[f EXCEPT !.saved = TRUE]}
    BY <1>5 DEF SaveCheckpoint
  <2>1. \A g \in finishing' : g.status = f.status
    BY DEF TypeOK, Calls
  <2> QED
    BY <1>5, <2>1 DEF SaveCheckpoint
<1>6. CASE RecordOutcome
  <2> PICK f \in finishing : results' = [results EXCEPT ![f.task] = f.status]
    BY <1>6 DEF RecordOutcome
  <2>1. \A t \in Task : results'[t] # "cancelled"
    BY DEF TypeOK
  <2> QED
    BY <1>6, <2>1 DEF RecordOutcome
<1>7. CASE \E c \in Task : VisitDependent(c)
  <2>1. \A f \in finishing' : f.status = "skipped"
    BY <1>7, CallFields DEF VisitDependent
  <2> QED
    BY <1>7, <2>1 DEF VisitDependent
<1>8. CASE \E r \in Runs : \E t \in Task : Coroutine(r, t)
  <2> PICK r \in Runs, t \in Task : Coroutine(r, t)
    BY <1>8
  <2>1. \A u \in Task : future'[run][u] # "cancelled"
    <3> TAKE u \in Task
    <3>1. CASE <<run, u>> = <<r, t>>
      BY <3>1, CoroutineFutures
    <3>2. CASE <<run, u>> # <<r, t>>
      BY <3>2, CoroutineFutures
    <3> QED
      BY <3>1, <3>2
  <2> QED
    BY <2>1, CoroutineFutures
<1>9. CASE \E t \in Task : CancelReaches(t)
  BY <1>9 DEF CancelReaches, FutureCancelled, CancelSwallowed, FuturesHeld
<1>10. CASE Collect \/ ReturnFromFinish \/ UNCHANGED vars
  BY <1>10 DEF Collect, ReturnFromFinish, vars
<1>11. CASE \/ Drained \/ BeginSweep \/ EndSweep \/ \E t \in Task : Capture(t) \/ SweepTask(t)
  BY <1>11 DEF Drained, BeginSweep, EndSweep, Capture, SweepTask
<1>12. CASE RefuseResume \/ Return \/ RaiseFromFinish \/ Cancel \/ CallerCancels \/ Crash
  BY <1>12 DEF RefuseResume, Return, RaiseFromFinish, Cancel, CallerCancels, Crash
<1> QED
  BY <1>2, <1>3, <1>4, <1>5, <1>6, <1>7, <1>8, <1>9, <1>10, <1>11, <1>12
     DEF Next, Scheduler, Finish

LEMMA StepSweepNests ==
  ASSUME TypeOK, CallsNest, OneFinish, SweepNests, [Next]_vars
  PROVE  SweepNests'
<1> USE DEF SweepNests
<1>1. CASE RecordOutcome
  <2> PICK f \in finishing : /\ results' = [results EXCEPT ![f.task] = f.status]
                             /\ stack' = Append(stack, f.task)
                             /\ kids' = [kids EXCEPT ![f.task] = Dependents(f.task)]
    BY <1>1 DEF RecordOutcome
  <2>1. finishing = {f} /\ finishing' = {} /\ UNCHANGED phase
    BY <1>1 DEF RecordOutcome, OneFinish
  <2>2. \A t \in Task : kids'[t] = IF t = f.task THEN Dependents(f.task) ELSE kids[t]
    BY DEF TypeOK
  <2>3. f.task \in Task /\ stack \in Seq(Task)
    BY DEF TypeOK, Calls
  <2>4. \A t \in Task : results'[t] = IF t = f.task THEN f.status ELSE results[t]
    BY DEF TypeOK
  <2>5. ASSUME phase = "sweep", stack = <<>>
        PROVE  stack' = <<f.task>> /\ results'[f.task] = "cancelled"
    BY <2>3, <2>4, <2>5
  <2>6. ASSUME phase = "sweep", stack # <<>>
        PROVE  /\ stack'[1] = stack[1] /\ results'[stack[1]] = "cancelled" /\ stack' # <<>>
               /\ \A i \in 2..Len(stack') : Order[stack'[1]] < Order[stack'[i]]
    <3>1. stack[1] \in Task /\ Order[stack[1]] < Order[f.task] /\ results[stack[1]] = "cancelled"
      BY <2>3, <2>6
    <3>2. f.task # stack[1]
      BY <2>3, <3>1, OrderOfPlan
    <3>3. /\ Len(stack') = Len(stack) + 1 /\ stack'[Len(stack) + 1] = f.task
          /\ \A i \in 1..Len(stack) : stack'[i] = stack[i]
      BY <2>3
    <3> QED
      BY <2>3, <2>4, <2>6, <3>1, <3>2, <3>3
  <2>7. CASE stack = <<>>
    <3>1. phase = "sweep" => stack'[1] = f.task /\ Len(stack') = 1
      BY <2>5, <2>7
    <3> QED
      BY <2>1, <2>2, <2>5, <2>7, <3>1
  <2>8. CASE stack # <<>>
    BY <2>1, <2>2, <2>6, <2>8
  <2> QED
    BY <2>7, <2>8
<1>2. CASE \E c \in Task : VisitDependent(c)
  <2> PICK c \in Task : VisitDependent(c)
    BY <1>2
  <2>1. Top \in Task /\ stack \in Seq(Task) /\ stack # <<>>
    BY DEF VisitDependent, TypeOK, Top
  <2>2. \A t \in Task : kids'[t] \subseteq kids[t]
    BY <2>1 DEF VisitDependent, TypeOK
  <2>3. c \in kids[Top]
    BY DEF VisitDependent, IsFirst
  <2>4. Order[Top] < Order[c]
    BY <2>1, <2>3, OrderOfPlan DEF Dependents
  <2>5. phase = "sweep" => Order[stack[1]] < Order[c]
    <3>1. Top = stack[1] \/ (phase = "sweep" => Order[stack[1]] < Order[Top])
      BY <2>1 DEF Top
    <3>2. Order[stack[1]] \in Nat /\ Order[Top] \in Nat /\ Order[c] \in Nat
      BY <2>1, OrderOfPlan
    <3> QED
      BY <2>4, <3>1, <3>2
  <2>6. UNCHANGED <<phase, results, stack>>
    BY DEF VisitDependent
  <2>7. \A f \in finishing' : f.task = c /\ f.status = "skipped"
    BY CallFields DEF VisitDependent
  <2> HIDE DEF Top
  <2> QED
    BY <2>1, <2>2, <2>5, <2>6, <2>7
<1>3. CASE ReturnFromFinish
  <2>1. stack \in Seq(Task) /\ stack # <<>> /\ stack' = SubSeq(stack, 1, Len(stack) - 1)
    BY <1>3 DEF ReturnFromFinish, TypeOK
  <2>2. /\ Len(stack') = Len(stack) - 1
        /\ \A i \in 1..Len(stack') : stack'[i] = stack[i]
    <3>1. Len(stack) \in Nat /\ Len(stack) # 0
      BY <2>1
    <3>2. Len(stack) - 1 \in Nat /\ Len(stack) - 1 <= Len(stack)
      BY <3>1
    <3> QED
      BY <2>1, <3>2, PrefixOf
  <2>3. UNCHANGED <<phase, results, finishing, kids>> /\ finishing = {}
    BY <1>3 DEF ReturnFromFinish
  <2>4. stack' # <<>> => stack'[1] = stack[1]
    BY <2>1, <2>2
  <2> QED
    BY <2>1, <2>2, <2>3, <2>4
<1>4. CASE \E t \in Task : FinishCompleted(t) \/ Capture(t) \/ SweepTask(t)
  <2> PICK t \in Task : FinishCompleted(t) \/ Capture(t) \/ SweepTask(t)
    BY <1>4
  <2>1. phase = "sweep" => \A f \in finishing' : f.status = "cancelled"
    BY CallFields DEF FinishCompleted, Capture, SweepTask
  <2> QED
    BY <2>1 DEF FinishCompleted, Capture, SweepTask
<1>5. CASE SaveCheckpoint
  <2> PICK f \in finishing : f.status = "succeeded"
    BY <1>5 DEF SaveCheckpoint
  <2>1. phase # "sweep" /\ UNCHANGED <<phase, kids>>
    BY <1>5 DEF SaveCheckpoint
  <2> QED
    BY <2>1
<1>6. CASE CallerCancels \/ RaiseFromFinish \/ Crash
  BY <1>6 DEF CallerCancels, RaiseFromFinish, Crash
<1>7. CASE BeginSweep
  BY <1>7 DEF BeginSweep
<1>8. CASE UNCHANGED kids /\ (phase' # "sweep" \/ UNCHANGED <<phase, results, stack, finishing>>)
  BY <1>8
<1>9. \/ RecordOutcome \/ ReturnFromFinish \/ SaveCheckpoint \/ BeginSweep
      \/ CallerCancels \/ RaiseFromFinish \/ Crash
      \/ \E t \in Task : VisitDependent(t) \/ FinishCompleted(t) \/ Capture(t) \/ SweepTask(t)
      \/ UNCHANGED kids /\ (phase' # "sweep" \/ UNCHANGED <<phase, results, stack, finishing>>)
  BY DEF Next, vars, Scheduler, Finish, Execute, Resume, StartRun, InitialGraph, RefuseResume,
     Collect, LeaveLoop, Drained, EndSweep, Return, StartTask, Coroutine, Invoke,
     HandlerReturns, HandlerRetries, HandlerFails, CancelReaches, FutureCancelled,
     CancelSwallowed, Cancel
<1> QED
  BY <1>1, <1>2, <1>3, <1>4, <1>5, <1>6, <1>7, <1>8, <1>9

LEMMA InitSchedulerInv == Init => SchedulerInv
BY DEF Init, SchedulerInv, CallsNest, OneFinish, NothingLost, FuturesHeld, TokenSet, SweepNests,
   NoFutures, Live, Done

LEMMA StepSchedulerInv ==
  ASSUME TypeOK, SchedulerInv, [Next]_vars
  PROVE  SchedulerInv'
BY StepCallsNest, StepOneFinish, StepNothingLost, StepFuturesHeld, StepTokenSet, StepSweepNests
   DEF SchedulerInv

LEMMA SchedulerInvariant == Spec => [](TypeOK /\ SchedulerInv)
<1>1. Init => TypeOK /\ SchedulerInv
  BY InitTypeOK, InitSchedulerInv
<1>2. (TypeOK /\ SchedulerInv) /\ [Next]_vars => (TypeOK /\ SchedulerInv)'
  BY NextTypeOK, StepSchedulerInv
<1> QED
  BY <1>1, <1>2, PTL DEF Spec

(* The loop of execute() never finds itself with unresolved tasks and nothing  *)
(* to run or to wait for, whatever the graph, its failures and its resumptions: *)
(* "Execution stalled with unresolved tasks" is dead code.                      *)
THEOREM LoopNeverStalls == Spec => []NeverStalls
<1>1. TypeOK /\ SchedulerInv => NeverStalls
  BY NothingStalls DEF SchedulerInv
<1> QED
  BY <1>1, SchedulerInvariant, PTL

--------------------------------------------------------------------------------
(* Plans whose checkpoints are closed under dependencies when they are resumed *)

(* The plan begins with its first execution. *)
FirstRun == (begun <=> run # 0) /\ (~begun => checkpoint = {})

LEMMA StepFirstRun ==
  ASSUME TypeOK, CallsNest, FirstRun, [Next]_vars
  PROVE  FirstRun'
<1> USE DEF FirstRun
<1>1. CASE Execute \/ Resume
  BY <1>1, BoundsAssumption DEF Execute, Resume, StartRun, TypeOK
<1>2. CASE SaveCheckpoint
  <2>1. phase # "idle"
    BY <1>2 DEF SaveCheckpoint, CallsNest
  <2> QED
    BY <1>2, <2>1 DEF SaveCheckpoint, TypeOK, Runs
<1>3. CASE UNCHANGED <<begun, run, checkpoint>>
  BY <1>3
<1> QED
  BY <1>1, <1>2, <1>3
     DEF Next, vars, Scheduler, Finish, RefuseResume, Collect, LeaveLoop, Drained,
     BeginSweep, EndSweep, Return, StartTask, FinishCompleted, Capture, SweepTask,
     RaiseFromFinish, RecordOutcome, ReturnFromFinish, VisitDependent, Coroutine, Invoke,
     HandlerReturns, HandlerRetries, HandlerFails, CancelReaches, FutureCancelled,
     CancelSwallowed, Cancel, CallerCancels, Crash

LEMMA StepReadyAccepts ==
  ASSUME TypeOK, CallsNest, OneFinish, UnresolvedGraph, ReadyAccepts, ResumesClosed, [Next]_vars
  PROVE  ReadyAccepts'
<1> USE DEF ReadyAccepts, Accepted
<1>1. CASE Execute \/ Resume
  <2> PICK done \in SUBSET Task :
        StartRun(done) /\ \A t \in done : Deps[t] \subseteq done
    BY <1>1 DEF Execute, Resume, ResumesClosed, TypeOK
  <2>1. /\ \A t \in Task : pending'[t] = Deps[t] \ done
        /\ \A t \in done : results'[t] = "succeeded"
        /\ rejected' = {} /\ phase' = "loop"
    BY DEF StartRun, InitialGraph
  <2> QED
    BY <2>1
<1>2. CASE RecordOutcome
  <2> PICK f \in finishing : results' = [results EXCEPT ![f.task] = f.status]
    BY <1>2 DEF RecordOutcome
  <2>1. f.task \in Task /\ (Resolving => results[f.task] = "none")
    BY DEF TypeOK, Calls, UnresolvedGraph
  <2>2. \A t \in Task : results'[t] = IF t = f.task THEN f.status ELSE results[t]
    BY DEF TypeOK
  <2>3. \A c \in Task : Deps[c] \subseteq Task
    BY DepsAssumption
  <2>4. UNCHANGED <<phase, pending, rejected, ready, running>>
    BY <1>2 DEF RecordOutcome
  <2>5. ASSUME Resolving, NEW c \in Task \ rejected, NEW d \in Deps[c] \ pending[c]
        PROVE  Accepted(d, c)'
    <3>1. d \in Task /\ d # f.task
      BY <2>1, <2>3, <2>5
    <3> QED
      BY <2>2, <2>5, <3>1
  <2> QED
    BY <2>4, <2>5
<1>3. CASE \E c \in Task : VisitDependent(c)
  <2> PICK c \in Task : VisitDependent(c)
    BY <1>3
  <2>1. Top \in Task /\ c \in kids[Top]
    BY DEF VisitDependent, IsFirst, TypeOK, Top
  <2>2. \A t \in Task : pending'[t] = IF t = c THEN pending[c] \ {Top} ELSE pending[t]
    BY <2>1 DEF VisitDependent, TypeOK
  <2>3. /\ UNCHANGED <<phase, results, running>>
        /\ rejected' = IF Rejects(results[Top], c) THEN rejected \cup {c} ELSE rejected
        /\ ready' = ready \/ (ready' = ready \cup {c} /\ c \notin rejected')
    BY DEF VisitDependent
  <2>4. Resolving => /\ Top \in pending[c] /\ results[Top] \in Terminal
                     /\ c \notin ready \cup running
    BY <2>1 DEF UnresolvedGraph, TypeOK
  <2>5. ASSUME Resolving, c \notin rejected' PROVE Accepted(Top, c)
    BY <2>3, <2>4, <2>5 DEF Rejects, Terminal
  <2> HIDE DEF Top
  <2>6. Resolving => \A b \in Task \ rejected' : \A d \in Deps[b] \ pending'[b] : Accepted(d, b)
    BY <2>2, <2>3, <2>5
  <2>7. Resolving => rejected' \cap (ready' \cup running') = {}
    BY <2>3, <2>4
  <2> QED
    BY <2>3, <2>6, <2>7
<1>4. CASE LeaveLoop \/ CallerCancels
  <2>1. /\ phase = "loop" /\ phase' \in {"drain", "close"}
        /\ UNCHANGED <<graph, running>> /\ (phase' = "close" => remaining = {})
    BY <1>4 DEF LeaveLoop, CallerCancels, AtWait
  <2>2. remaining = {} => running = {}
    BY <2>1 DEF UnresolvedGraph, OneFinish, TypeOK
  <2> QED
    BY <2>1, <2>2
<1>5. CASE \E t \in Task : StartTask(t)
  BY <1>5 DEF StartTask, IsFirst
<1>6. CASE \E t \in Task : FinishCompleted(t) \/ Capture(t) \/ SweepTask(t)
  BY <1>6 DEF FinishCompleted, Capture, SweepTask
<1>7. CASE Drained \/ BeginSweep \/ EndSweep
  BY <1>7 DEF Drained, BeginSweep, EndSweep
<1>8. CASE phase' = "idle"
  BY <1>8
<1>9. CASE UNCHANGED <<phase, graph, running>>
  BY <1>9
<1> QED
  BY <1>1, <1>2, <1>3, <1>4, <1>5, <1>6, <1>7, <1>8, <1>9
     DEF Next, vars, Scheduler, Finish, RefuseResume, Collect, Return, SaveCheckpoint,
     RaiseFromFinish, ReturnFromFinish, Coroutine, Invoke, HandlerReturns, HandlerRetries,
     HandlerFails, CancelReaches, FutureCancelled, CancelSwallowed, Cancel, Crash

LEMMA StepInputsKept ==
  ASSUME TypeOK, CallsNest, FirstRun, UnresolvedGraph, ReadyAccepts, InputsKept, [Next]_vars
  PROVE  InputsKept'
<1> USE DEF InputsKept
<1>1. CASE Execute \/ Resume
  <2> StartRun(checkpoint) /\ phase = "idle"
    BY <1>1 DEF Execute, Resume, FirstRun
  <2>1. running' = {} /\ finishing' = {} /\ checkpoint' = checkpoint
    BY DEF StartRun, CallsNest
  <2>2. \A t \in Task : /\ results'[t] = "succeeded" => t \in checkpoint
                        /\ t \in checkpoint => inputs'[t] = inputs[t]
    BY DEF StartRun, InitialGraph
  <2> QED
    BY <2>1, <2>2
<1>2. CASE \E t \in Task : StartTask(t)
  <2> PICK t \in Task : StartTask(t)
    BY <1>2
  <2>1. pending[t] = {} /\ t \notin rejected /\ Resolving /\ finishing = {}
    BY DEF StartTask, IsFirst, UnresolvedGraph, ReadyAccepts
  <2>2. \A d \in Deps[t] : Accepted(d, t)
    BY <2>1 DEF ReadyAccepts
  <2>3. \A u \in Task : inputs'[u] = IF u = t THEN {d \in Deps[t] : results[d] = "succeeded"}
                                     ELSE inputs[u]
    BY DEF StartTask, TypeOK
  <2>4. t \notin AcceptPartial => inputs'[t] = Deps[t]
    BY <2>2, <2>3 DEF Accepted
  <2>5. UNCHANGED <<results, checkpoint, finishing>> /\ running' = running \cup {t}
    BY DEF StartTask
  <2> QED
    BY <2>1, <2>3, <2>4, <2>5
<1>3. CASE SaveCheckpoint
  <2> PICK f \in finishing : /\ f.status = "succeeded"
                             /\ finishing' = {[f EXCEPT !.saved = TRUE]}
                             /\ checkpoint' \subseteq checkpoint \cup {f.task}
    BY <1>3 DEF SaveCheckpoint
  <2>1. \A g \in finishing' : g.task = f.task
    BY DEF TypeOK, Calls
  <2>2. f.task \notin AcceptPartial => inputs[f.task] = Deps[f.task]
    OBVIOUS
  <2>3. UNCHANGED <<results, running, inputs>>
    BY <1>3 DEF SaveCheckpoint
  <2> QED
    BY <2>1, <2>2, <2>3
<1>4. CASE RecordOutcome
  <2> PICK f \in finishing : results' = [results EXCEPT ![f.task] = f.status]
    BY <1>4 DEF RecordOutcome
  <2>1. \A t \in Task : results'[t] = IF t = f.task THEN f.status ELSE results[t]
    BY DEF TypeOK
  <2>2. finishing' = {} /\ UNCHANGED <<running, checkpoint, inputs>>
    BY <1>4 DEF RecordOutcome
  <2> QED
    BY <2>1, <2>2
<1>5. CASE \E t \in Task : FinishCompleted(t) \/ Capture(t) \/ SweepTask(t)
  <2> PICK t \in Task : FinishCompleted(t) \/ Capture(t) \/ SweepTask(t)
    BY <1>5
  <2>1. PICK status : /\ finishing' = {Call(t, status)}
                      /\ status = "succeeded" => t \in running
    BY DEF FinishCompleted, Capture, SweepTask, IsFirst, UnresolvedGraph
  <2>2. UNCHANGED <<results, checkpoint, inputs>> /\ running' \subseteq running
    BY DEF FinishCompleted, Capture, SweepTask
  <2> QED
    BY <2>1, <2>2, CallFields
<1>6. CASE \E c \in Task : VisitDependent(c)
  <2>1. \A f \in finishing' : f \in finishing \/ f.status = "skipped"
    BY <1>6, CallFields DEF VisitDependent
  <2> QED
    BY <1>6, <2>1 DEF VisitDependent
<1>7. CASE /\ running' \subseteq running /\ finishing' \subseteq finishing
           /\ UNCHANGED <<results, checkpoint, inputs>>
  BY <1>7
<1>8. CASE Crash
  BY <1>8 DEF Crash
<1> QED
  BY <1>1, <1>2, <1>3, <1>4, <1>5, <1>6, <1>7, <1>8
     DEF Next, vars, Scheduler, Finish, RefuseResume, Collect, LeaveLoop, Drained, BeginSweep,
     EndSweep, Return, RaiseFromFinish, ReturnFromFinish, Coroutine, Invoke, HandlerReturns,
     HandlerRetries, HandlerFails, CancelReaches, FutureCancelled, CancelSwallowed, Cancel,
     CallerCancels

LEMMA StepHonestSkips ==
  ASSUME TypeOK, SchedulerInv, UnresolvedGraph, HonestSkips, [Next]_vars
  PROVE  HonestSkips'
<1> SUFFICES ASSUME phase' # "idle", \A t \in Task : results'[t] \notin {"failed", "cancelled"}
             PROVE  HonestSkips'
  BY DEF HonestSkips
<1> USE DEF HonestSkips
<1> CallsNest /\ OneFinish /\ SweepNests
  BY DEF SchedulerInv
<1>1. CASE Execute \/ Resume
  BY <1>1 DEF Execute, Resume, StartRun, InitialGraph, CallsNest
<1>2. CASE RecordOutcome
  <2> PICK f \in finishing : results' = [results EXCEPT ![f.task] = f.status]
    BY <1>2 DEF RecordOutcome
  <2>1. f.task \in Task /\ stack \in Seq(Task)
    BY DEF TypeOK, Calls
  <2>2. \A t \in Task : results'[t] = IF t = f.task THEN f.status ELSE results[t]
    BY DEF TypeOK
  <2>3. Resolving
    <3> SUFFICES ASSUME phase = "sweep" PROVE FALSE
      BY DEF CallsNest, TypeOK, Phases
    <3>1. CASE stack = <<>>
      <4>1. f.status = "cancelled"
        BY <3>1 DEF SweepNests
      <4> QED
        BY <2>1, <2>2, <4>1
    <3>2. CASE stack # <<>>
      <4>1. stack[1] \in Task /\ results[stack[1]] = "cancelled"
        BY <2>1, <3>2 DEF SweepNests
      <4>2. Order[stack[1]] < Order[f.task]
        BY <3>2 DEF SweepNests
      <4>3. stack[1] # f.task
        BY <2>1, <4>2, OrderOfPlan
      <4> QED
        BY <2>2, <4>1, <4>3
    <3> QED
      BY <3>1, <3>2
  <2>4. results[f.task] = "none"
    BY <2>3 DEF UnresolvedGraph
  <2>5. \A t \in Task : results[t] \notin {"failed", "cancelled"}
    BY <2>2, <2>4
  <2>6. f.status # "skipped" /\ rejected = {} /\ \A t \in Task : results[t] # "skipped"
    BY <2>3, <2>5
  <2>7. finishing' = {} /\ rejected' = rejected
    BY <1>2 DEF RecordOutcome
  <2> QED
    BY <2>2, <2>6, <2>7
<1>3. CASE \E c \in Task : VisitDependent(c)
  <2> PICK c \in Task : VisitDependent(c)
    BY <1>3
  <2>1. Top \in Task
    BY DEF VisitDependent, TypeOK, Top
  <2>2. UNCHANGED <<phase, results>> /\ finishing = {}
    BY DEF VisitDependent
  <2>3. rejected = {} /\ \A t \in Task : results[t] \notin {"skipped", "failed", "cancelled"}
    BY <2>2
  <2>4. rejected' = {}
    BY <2>1, <2>3 DEF VisitDependent, Rejects
  <2>5. finishing' = {}
    BY <2>2, <2>4 DEF VisitDependent
  <2> QED
    BY <2>2, <2>3, <2>4, <2>5
<1>4. CASE \E t \in Task : FinishCompleted(t) \/ Capture(t) \/ SweepTask(t)
  <2>1. \A f \in finishing' : f.status # "skipped"
    BY <1>4, CallFields DEF FinishCompleted, Capture, SweepTask, StatusOf
  <2>2. UNCHANGED <<phase, results, rejected>>
    BY <1>4 DEF FinishCompleted, Capture, SweepTask
  <2> QED
    BY <2>1, <2>2
<1>5. CASE SaveCheckpoint
  <2>1. \A f \in finishing' : f.status # "skipped"
    BY <1>5 DEF SaveCheckpoint, TypeOK, Calls
  <2> QED
    BY <1>5, <2>1 DEF SaveCheckpoint
<1>6. CASE phase # "idle" /\ UNCHANGED <<results, rejected, finishing>>
  BY <1>6
<1> QED
  BY <1>1, <1>2, <1>3, <1>4, <1>5, <1>6
     DEF Next, vars, Scheduler, Finish, RefuseResume, Collect, LeaveLoop, Drained, BeginSweep,
     EndSweep, Return, StartTask, RaiseFromFinish, ReturnFromFinish, Coroutine, Invoke,
     HandlerReturns, HandlerRetries, HandlerFails, CancelReaches, FutureCancelled,
     CancelSwallowed, Cancel, CallerCancels, Crash, AtWait

RespectInv ==
  TypeOK /\ SchedulerInv /\ FirstRun /\ GraphInv /\ (StrictPlan => SafetyInv)

LEMMA InitRespectInv == Init => RespectInv
<1> SUFFICES ASSUME Init PROVE RespectInv
  OBVIOUS
<1>1. FirstRun
  BY DEF Init, FirstRun
<1>2. GraphInv
  BY DEF Init, GraphInv, UnresolvedGraph, ReadyAccepts, InputsKept, HonestSkips
<1> QED
  BY <1>1, <1>2, InitTypeOK, InitSchedulerInv, InitSafetyInv DEF RespectInv

LEMMA StepRespectInv ==
  ASSUME FirstOrStrict, RespectInv, [Next]_vars
  PROVE  RespectInv'
<1> USE DEF RespectInv
<1>1. ResumesClosed
  <2>1. CASE StrictPlan
    BY <2>1 DEF SafetyInv, CheckpointsClosed, ResumesClosed
  <2>2. CASE MaxRuns <= 1
    BY <2>2, BoundsAssumption DEF FirstRun, Resume, ResumesClosed, TypeOK
  <2> QED
    BY <2>1, <2>2 DEF FirstOrStrict
<1>2. TypeOK' /\ SchedulerInv'
  BY NextTypeOK, StepSchedulerInv
<1>3. FirstRun'
  BY StepFirstRun DEF SchedulerInv
<1>4. GraphInv'
  BY <1>1, StepUnresolvedGraph, StepReadyAccepts, StepInputsKept, StepHonestSkips
     DEF GraphInv, SchedulerInv
<1>5. StrictPlan => SafetyInv'
  BY <1>2, StepSafetyInv
<1> QED
  BY <1>2, <1>3, <1>4, <1>5

LEMMA RespectInvariant == ASSUME FirstOrStrict PROVE Spec => []RespectInv
<1>1. RespectInv /\ [Next]_vars => RespectInv'
  BY StepRespectInv
<1> QED
  BY <1>1, InitRespectInv, PTL DEF Spec

(* A strict task that succeeded, in whichever execution, was started with the  *)
(* output of every one of its dependencies.                                    *)
THEOREM AllInputsSeen == ASSUME FirstOrStrict PROVE Spec => []StrictSawAllInputs
<1>1. RespectInv => StrictSawAllInputs
  BY DEF RespectInv, GraphInv, InputsKept, StrictSawAllInputs
<1> QED
  BY <1>1, RespectInvariant, PTL

--------------------------------------------------------------------------------
(* Executions that restore checkpoints closed under dependencies *)

(* An execution that restored checkpoints closed under dependencies respects  *)
(* the graph, whatever the plan and whatever became of former executions.      *)
ClosedGraph == closed => UnresolvedGraph /\ ReadyAccepts /\ HonestSkips

LEMMA StepClosedGraph ==
  ASSUME TypeOK, SchedulerInv, FirstRun, ClosedGraph, [Next]_vars
  PROVE  ClosedGraph'
<1> SUFFICES ASSUME closed' PROVE (UnresolvedGraph /\ ReadyAccepts /\ HonestSkips)'
  BY DEF ClosedGraph
<1> CallsNest /\ OneFinish
  BY DEF SchedulerInv
<1>1. CASE Execute \/ Resume
  <2>1. phase = "idle" /\ StartRun(checkpoint)
    BY <1>1 DEF Execute, Resume, FirstRun
  <2>2. ResumesClosed
    BY <2>1 DEF StartRun, ClosedUnderDeps, ResumesClosed
  <2>3. UnresolvedGraph /\ ReadyAccepts /\ HonestSkips
    BY <2>1 DEF UnresolvedGraph, ReadyAccepts, HonestSkips
  <2> QED
    BY <2>2, <2>3, StepUnresolvedGraph, StepReadyAccepts, StepHonestSkips
<1>2. CASE ~(Execute \/ Resume)
  <2>1. closed
    BY <1>2 DEF Next, vars, Scheduler, Finish, RefuseResume, Collect, LeaveLoop, Drained,
       BeginSweep, EndSweep, Return, StartTask, FinishCompleted, Capture, SweepTask,
       SaveCheckpoint, RaiseFromFinish, RecordOutcome, ReturnFromFinish, VisitDependent,
       Coroutine, Invoke, HandlerReturns, HandlerRetries, HandlerFails, CancelReaches,
       FutureCancelled, CancelSwallowed, Cancel, CallerCancels, Crash
  <2>2. ResumesClosed
    BY <1>2 DEF ResumesClosed
  <2> QED
    BY <2>1, <2>2, StepUnresolvedGraph, StepReadyAccepts, StepHonestSkips DEF ClosedGraph
<1> QED
  BY <1>1, <1>2

ClosedInv == TypeOK /\ SchedulerInv /\ FirstRun /\ ClosedGraph

LEMMA ClosedInvariant == Spec => []ClosedInv
<1>1. Init => ClosedInv
  BY InitRespectInv DEF RespectInv, GraphInv, ClosedInv, ClosedGraph
<1>2. ClosedInv /\ [Next]_vars => ClosedInv'
  <2> SUFFICES ASSUME ClosedInv, [Next]_vars PROVE ClosedInv'
    OBVIOUS
  <2> USE DEF ClosedInv
  <2>1. TypeOK' /\ SchedulerInv'
    BY NextTypeOK, StepSchedulerInv
  <2>2. FirstRun'
    BY StepFirstRun DEF SchedulerInv
  <2>3. ClosedGraph'
    BY StepClosedGraph
  <2> QED
    BY <2>1, <2>2, <2>3
<1> QED
  BY <1>1, <1>2, PTL DEF Spec

(* A task runs only when all its dependencies are resolved: none cancelled,    *)
(* and none failed or skipped unless the task accepts partial dependencies.    *)
(* Any plan, any number of executions; StartedAfterDependencies excepts those  *)
(* that restore a task without its dependency (execute's pending sets).        *)
THEOREM DependenciesFirst == Spec => []StartedAfterDependencies
<1>1. ClosedInv => StartedAfterDependencies
  <2> SUFFICES ASSUME ClosedInv, closed, NEW t \in running, NEW d \in Deps[t]
               PROVE  Accepted(d, t)
    BY DEF StartedAfterDependencies, Accepted
  <2> TypeOK /\ CallsNest /\ UnresolvedGraph /\ ReadyAccepts
    BY DEF ClosedInv, ClosedGraph, SchedulerInv
  <2>1. Resolving
    BY DEF TypeOK, CallsNest, ReadyAccepts, Phases
  <2>2. t \in Task /\ pending[t] = {} /\ t \notin rejected
    BY <2>1 DEF TypeOK, UnresolvedGraph, ReadyAccepts
  <2> QED
    BY <2>1, <2>2 DEF ReadyAccepts
<1> QED
  BY <1>1, ClosedInvariant, PTL

--------------------------------------------------------------------------------
(* Every plan implements PlanExecution *)

LEMMA StepSucceededIsSecured ==
  ASSUME StrictPlan, RespectInv, SucceededIsSecured, [Next]_vars
  PROVE  SucceededIsSecured'
<1> TypeOK /\ CallsNest /\ OneFinish /\ FirstRun /\ CheckpointsClosed /\ UnresolvedGraph /\ SweepNests
  BY DEF RespectInv, SchedulerInv, SafetyInv, GraphInv
<1> USE DEF SucceededIsSecured
<1>1. CASE Execute \/ Resume
  <2>1. StartRun(checkpoint)
    BY <1>1 DEF Execute, Resume, FirstRun
  <2>2. checkpoint \subseteq Task /\ checkpoint' = checkpoint
    BY <2>1 DEF StartRun, TypeOK
  <2>3. \A t \in Task : results'[t] = "succeeded" <=> t \in checkpoint
    BY <2>1 DEF StartRun, InitialGraph
  <2>4. phase' = "loop"
    BY <2>1 DEF StartRun
  <2> QED
    BY <2>2, <2>3, <2>4
<1>2. CASE SaveCheckpoint
  <2> PICK f \in finishing : f.status = "succeeded" /\ ~f.saved
                             /\ checkpoint' = checkpoint \cup {f.task}
                             /\ finishing' = {[f EXCEPT !.saved = TRUE]}
    BY <1>2 DEF SaveCheckpoint, StrictPlan
  <2>1. finishing = {f} /\ f \in Calls
    BY DEF OneFinish, TypeOK
  <2>2. \E g \in finishing' : g.task = f.task /\ g.saved
    BY <2>1 DEF Calls
  <2>3. phase \notin {"idle", "sweep"}
    BY DEF CallsNest
  <2>4. UNCHANGED <<phase, results>>
    BY <1>2 DEF SaveCheckpoint
  <2> QED
    BY <2>1, <2>2, <2>3, <2>4
<1>3. CASE RecordOutcome
  <2> PICK f \in finishing : /\ f.status = "succeeded" => f.saved
                             /\ results' = [results EXCEPT ![f.task] = f.status]
                             /\ kids' = [kids EXCEPT ![f.task] = Dependents(f.task)]
    BY <1>3 DEF RecordOutcome
  <2>1. finishing = {f} /\ f.task \in Task
    BY DEF OneFinish, TypeOK, Calls
  <2>2. \A t \in Task : /\ results'[t] = IF t = f.task THEN f.status ELSE results[t]
                        /\ kids'[t] = IF t = f.task THEN Dependents(f.task) ELSE kids[t]
    BY DEF TypeOK
  <2>3. phase # "idle" /\ phase # "close"
    BY DEF CallsNest
  <2>4. f.task \in checkpoint => f.status = "succeeded"
    <3>1. Resolving => results[f.task] = "none"
      BY DEF UnresolvedGraph
    <3>2. phase = "sweep" => f.task \notin checkpoint
      BY <2>3
    <3>3. Resolving \/ phase = "sweep"
      BY <2>3 DEF TypeOK, Phases
    <3> QED
      BY <2>1, <2>3, <3>1, <3>2, <3>3 DEF OneFinish
  <2>5. f.status = "succeeded" => f.task \in checkpoint
    BY DEF CheckpointsClosed
  <2>6. finishing' = {} /\ UNCHANGED <<phase, sweep, checkpoint>>
    BY <1>3 DEF RecordOutcome
  <2>7. checkpoint \subseteq Task
    BY DEF TypeOK
  <2>8. phase = "sweep" => f.status # "succeeded"
    BY <2>3
  <2> QED
    BY <2>1, <2>2, <2>3, <2>4, <2>5, <2>6, <2>7, <2>8
<1>4. CASE \E c \in Task : VisitDependent(c)
  <2> PICK c \in Task : VisitDependent(c)
    BY <1>4
  <2>1. Top \in Task /\ c \in kids[Top] /\ finishing = {}
    BY DEF VisitDependent, IsFirst, TypeOK, Top
  <2>2. \A t \in Task : kids'[t] \subseteq kids[t]
    BY <2>1 DEF VisitDependent, TypeOK
  <2>3. Top \in Deps[c]
    BY <2>1 DEF SweepNests, Dependents
  <2>4. phase = "sweep" => c \notin checkpoint
    BY <2>1, <2>3 DEF CheckpointsClosed
  <2>5. UNCHANGED <<phase, results, checkpoint, sweep>>
    BY DEF VisitDependent
  <2>6. \A f \in finishing' : f.task = c /\ f.status = "skipped"
    BY CallFields DEF VisitDependent
  <2> HIDE DEF Top
  <2> QED
    BY <2>1, <2>2, <2>4, <2>5, <2>6
<1>5. CASE \E t \in Task : FinishCompleted(t) \/ Capture(t) \/ SweepTask(t)
  <2> PICK t \in Task : FinishCompleted(t) \/ Capture(t) \/ SweepTask(t)
    BY <1>5
  <2>1. finishing = {} /\ UNCHANGED <<phase, results, checkpoint, kids>>
    BY DEF FinishCompleted, Capture, SweepTask
  <2>2. phase = "sweep" => /\ t \in sweep /\ sweep' \subseteq sweep
                           /\ finishing' = {Call(t, "cancelled")}
    BY DEF FinishCompleted, Capture, SweepTask, IsFirst
  <2> QED
    BY <2>1, <2>2, CallFields
<1>6. CASE BeginSweep
  <2>1. /\ phase = "capture" /\ finishing = {} /\ finishing' = {} /\ sweep' = remaining
        /\ UNCHANGED <<results, checkpoint, kids>> /\ stack = <<>>
    BY <1>6 DEF BeginSweep
  <2>2. \A t \in Task : kids[t] = {}
    BY <2>1 DEF CallsNest
  <2> QED
    BY <2>1, <2>2 DEF OneFinish
<1>7. CASE phase' = "idle"
  BY <1>7
<1>8. CASE /\ phase # "idle" /\ UNCHANGED <<results, checkpoint, finishing>>
           /\ phase' # "sweep" \/ UNCHANGED <<phase, sweep, kids>>
  BY <1>8
<1> QED
  BY <1>1, <1>2, <1>3, <1>4, <1>5, <1>6, <1>7, <1>8
     DEF Next, vars, Scheduler, Finish, RefuseResume, Collect, LeaveLoop, Drained, EndSweep,
     Return, StartTask, RaiseFromFinish, ReturnFromFinish, Coroutine, Invoke,
     HandlerReturns, HandlerRetries, HandlerFails, CancelReaches, FutureCancelled,
     CancelSwallowed, Cancel, CallerCancels, Crash, AtWait

SecuredInv == RespectInv /\ SucceededIsSecured

(* What the refinement rests on: the graph of the executions that restored     *)
(* closed checkpoints, the order of the journal, and what a strict plan adds.  *)
ContractInv ==
  /\ ClosedInv
  /\ JournalledFirst
  /\ StrictPlan => SecuredInv /\ closed

LEMMA StepContractInv ==
  ASSUME ContractInv, [Next]_vars
  PROVE  ContractInv'
<1> USE DEF ContractInv
<1>1. ClosedInv'
  <2>1. TypeOK' /\ SchedulerInv'
    BY NextTypeOK, StepSchedulerInv DEF ClosedInv
  <2>2. FirstRun'
    BY StepFirstRun DEF ClosedInv, SchedulerInv
  <2>3. ClosedGraph'
    BY StepClosedGraph DEF ClosedInv
  <2> QED
    BY <2>1, <2>2, <2>3 DEF ClosedInv
<1>2. JournalledFirst'
  BY StepJournalledFirst DEF ClosedInv
<1>3. ASSUME StrictPlan PROVE SecuredInv'
  BY <1>3, StepRespectInv, StepSucceededIsSecured DEF SecuredInv, FirstOrStrict
<1>4. ASSUME StrictPlan PROVE closed'
  <2>1. ClosedUnderDeps(checkpoint)
    BY <1>4 DEF SecuredInv, RespectInv, SafetyInv, CheckpointsClosed, ClosedUnderDeps
  <2>2. CASE Execute \/ Resume
    <3>1. StartRun(checkpoint)
      BY <2>2 DEF Execute, Resume, ClosedInv, FirstRun
    <3> QED
      BY <2>1, <3>1 DEF StartRun
  <2>3. CASE UNCHANGED closed
    BY <1>4, <2>3
  <2> QED
    BY <2>2, <2>3 DEF Next, vars, Scheduler, Finish, RefuseResume, Collect, LeaveLoop, Drained,
       BeginSweep, EndSweep, Return, StartTask, FinishCompleted, Capture, SweepTask,
       SaveCheckpoint, RaiseFromFinish, RecordOutcome, ReturnFromFinish, VisitDependent,
       Coroutine, Invoke, HandlerReturns, HandlerRetries, HandlerFails, CancelReaches,
       FutureCancelled, CancelSwallowed, Cancel, CallerCancels, Crash
<1> QED
  BY <1>1, <1>2, <1>3, <1>4

LEMMA ContractInvariant == Spec => []ContractInv
<1>1. Init => ContractInv
  <2> SUFFICES ASSUME Init PROVE ContractInv
    OBVIOUS
  <2>1. RespectInv /\ SafetyInv
    BY InitRespectInv, InitSafetyInv
  <2>2. SucceededIsSecured /\ closed
    BY DEF Init, SucceededIsSecured
  <2> QED
    BY <2>1, <2>2
       DEF ContractInv, ClosedInv, ClosedGraph, RespectInv, GraphInv, SafetyInv, SecuredInv
<1>2. ContractInv /\ [Next]_vars => ContractInv'
  BY StepContractInv
<1> QED
  BY <1>1, <1>2, PTL DEF Spec

Stray(t) == \E r \in Runs : future[r][t] \in Live /\ (r # run \/ phase = "idle")

LEMMA StraysSame ==
  ASSUME \A t \in Task : Stray(t)' <=> Stray(t)
  PROVE  Strays' = Strays
BY DEF Strays, Stray

(* A task that the execution in progress still runs has no checkpoint. *)
LEMMA LiveIsUnsecured ==
  ASSUME SecuredInv, phase # "idle", NEW t \in Task, future[run][t] \in Live
  PROVE  t \notin checkpoint
<1>1. t \in running
  BY DEF SecuredInv, RespectInv, SchedulerInv, FuturesHeld
<1>2. Resolving
  BY <1>1 DEF SecuredInv, RespectInv, TypeOK, GraphInv, ReadyAccepts, Phases
<1>3. results[t] = "none" /\ \A f \in finishing : f.task # t
  BY <1>1, <1>2 DEF SecuredInv, RespectInv, GraphInv, UnresolvedGraph
<1> QED
  BY <1>3 DEF SecuredInv, SucceededIsSecured

LEMMA StartRefines ==
  ASSUME ContractInv, Execute \/ Resume \/ RefuseResume
  PROVE  Abstract!Next
<1> /\ TypeOK /\ FirstRun /\ run \in 0..MaxRuns
    /\ \A r \in Runs : r > run => future[r] = NoFutures
  BY DEF ContractInv, ClosedInv, TypeOK, SchedulerInv, FuturesHeld
<1>1. ASSUME phase = "idle", run < MaxRuns, StartRun(checkpoint)
      PROVE  Abstract!StartExecution
  <2>1. run' = run + 1 /\ phase' = "loop" /\ future' = future
    BY <1>1 DEF StartRun
  <2>2. run' \in Runs /\ run' > run
    BY <1>1, <2>1, BoundsAssumption DEF Runs
  <2>3. \A t \in Task : future[run'][t] \notin Live
    BY <2>1, <2>2 DEF NoFutures, Live
  <2>4. Strays' = Strays
    BY <1>1, <2>1, <2>3, StraysSame DEF Stray
  <2>5. checkpoint \subseteq Task
    BY DEF TypeOK
  <2>6. Succeeded' = checkpoint
    BY <1>1, <2>5 DEF StartRun, InitialGraph, Succeeded
  <2>7. /\ phase' # "idle" /\ cancelled' = FALSE /\ outcome' = "none"
        /\ UNCHANGED <<invoked, checkpoint>>
    BY <1>1, <2>1 DEF StartRun
  <2> QED
    BY <1>1, <2>4, <2>6, <2>7 DEF Abstract!StartExecution
<1>2. CASE Execute
  <2>1. StartRun(checkpoint) /\ checkpoint = {}
    BY <1>2 DEF Execute, FirstRun
  <2>2. closed' = TRUE
    BY <2>1 DEF StartRun, ClosedUnderDeps
  <2>3. Abstract!Begin
    BY <1>1, <1>2, <2>1, <2>2 DEF Execute, Abstract!Begin
  <2> QED
    BY <2>3 DEF Abstract!Next
<1>3. CASE Resume
  <2>1. Abstract!Replayable
    <3> SUFFICES ASSUME NEW t \in Task \ checkpoint, invoked[t] > 0 PROVE t \in RetrySafe
      BY DEF Abstract!Replayable
    <3>1. <<"running", t>> \in logged
      BY DEF ContractInv, JournalledFirst, WasRun
    <3> QED
      BY <1>3, <3>1 DEF Resume, Uncertain
  <2>2. closed' \in BOOLEAN
    BY <1>3 DEF Resume, StartRun, ClosedUnderDeps
  <2>3. StrictPlan => closed'
    BY <1>3, StepContractInv DEF Next, ContractInv
  <2>4. Abstract!Continue
    BY <1>1, <1>3, <2>1, <2>2, <2>3 DEF Resume, Abstract!Continue
  <2> QED
    BY <2>4 DEF Abstract!Next
<1>4. CASE RefuseResume
  <2>1. Strays' = Strays /\ Succeeded' = Succeeded
    BY <1>4 DEF RefuseResume, Strays, Succeeded
  <2> QED
    BY <1>4, <2>1 DEF RefuseResume, Abstract!Next, Abstract!Refuse
<1> QED
  BY <1>2, <1>3, <1>4

LEMMA CoroutineRefines ==
  ASSUME ContractInv, NEW r \in Runs, NEW t \in Task, Coroutine(r, t)
  PROVE  Abstract!Next \/ UNCHANGED Abstract!vars
<1> TypeOK /\ JournalledFirst
  BY DEF ContractInv, ClosedInv
<1>0. StrictPlan => SecuredInv /\ OneCaller
  BY DEF ContractInv, SecuredInv, RespectInv, SafetyInv
<1>1. begun
  <2>1. future[r][t] # "none"
    BY CoroutineFutures
  <2>2. WasRun(t)
    BY <2>1 DEF JournalledFirst
  <2> QED
    BY <2>2 DEF JournalledFirst, WasRun
<1>2. /\ UNCHANGED <<run, phase, begun, checkpoint, closed, cancelled, outcome>>
      /\ Succeeded' = Succeeded
      /\ \A u \in Task : u # t => (Stray(u)' <=> Stray(u))
  <2>1. UNCHANGED <<run, phase, begun, checkpoint, closed, cancelled, outcome, results>>
    BY DEF Coroutine, Invoke, HandlerReturns, HandlerRetries, HandlerFails
  <2>2. \A u \in Task : \A q \in Runs : u # t => future'[q][u] = future[q][u]
    BY CoroutineFutures
  <2> QED
    BY <2>1, <2>2 DEF Stray, Succeeded
<1>3. CASE Invoke(r, t)
  <2>1. future[r][t] \in {"reported", "sleeping"} /\ future'[r][t] = "invoking"
    BY <1>3 DEF Invoke, TypeOK
  <2>2. \A q \in Runs : q # r => future'[q][t] = future[q][t]
    BY CoroutineFutures
  <2>3. Stray(t)' <=> Stray(t)
    BY <1>2, <2>1, <2>2 DEF Stray, Live
  <2>4. Strays' = Strays
    BY <1>2, <2>3, StraysSame
  <2>5. phase # "idle" \/ t \in Strays
    BY <2>1 DEF Strays, Live
  <2>6. ASSUME StrictPlan
        PROVE  (t \notin checkpoint \/ t \in Strays) /\ (invoked[t] > 0 => t \in RetrySafe)
    <3>1. t \notin checkpoint \/ t \in Strays
      BY <1>0, <2>1, <2>6, LiveIsUnsecured DEF Strays, Live
    <3>2. invoked[t] > 0 => t \in RetrySafe
      BY <1>0, <2>1, <2>6 DEF OneCaller, Unsafe
    <3> QED
      BY <3>1, <3>2
  <2>7. invoked' = [invoked EXCEPT ![t] = @ + 1]
    BY <1>3 DEF Invoke
  <2>8. Abstract!Run(t)
    BY <1>1, <1>2, <2>4, <2>5, <2>6, <2>7 DEF Abstract!Run, Abstract!latest
  <2> QED
    BY <2>8 DEF Abstract!Next
<1>4. CASE ~Invoke(r, t)
  <2>1. future[r][t] \in Live /\ invoked' = invoked
    BY <1>4 DEF Coroutine, HandlerReturns, HandlerRetries, HandlerFails, Live
  <2>2. CASE Stray(t)' <=> Stray(t)
    <3>1. Strays' = Strays
      BY <1>2, <2>2, StraysSame
    <3> QED
      BY <1>2, <2>1, <3>1 DEF Abstract!vars
  <2>3. CASE ~(Stray(t)' <=> Stray(t))
    <3>1. \A q \in Runs : q # r => future'[q][t] = future[q][t]
      BY CoroutineFutures
    <3>2. Stray(t) /\ ~Stray(t)'
      BY <1>2, <2>1, <2>3, <3>1 DEF Stray
    <3>3. t \in Strays /\ Strays' = Strays \ {t}
      BY <1>2, <3>2 DEF Strays, Stray
    <3>4. Abstract!StrayEnds(t)
      BY <1>2, <2>1, <3>3 DEF Abstract!StrayEnds, Abstract!latest
    <3> QED
      BY <3>4 DEF Abstract!Next
  <2> QED
    BY <2>2, <2>3
<1> QED
  BY <1>3, <1>4

(* An execution that ends, returning or raising, leaves its live futures.      *)
LEMMA LeftBehind ==
  ASSUME TypeOK, phase # "idle", Return \/ RaiseFromFinish
  PROVE  /\ phase' = "idle"
         /\ Strays' = Strays \cup {t \in Task : future[run][t] \in Live}
         /\ Succeeded' = Succeeded
         /\ UNCHANGED <<begun, invoked, checkpoint, closed, cancelled>>
<1>1. /\ phase' = "idle" /\ run' = run /\ run \in Runs
      /\ UNCHANGED <<begun, invoked, checkpoint, closed, cancelled, results>>
  BY DEF Return, RaiseFromFinish, TypeOK
<1>2. \A r \in Runs : \A t \in Task :
        future'[r][t] = IF r = run /\ future[r][t] \notin Live THEN "none" ELSE future[r][t]
  BY EndKeepsLive
<1>3. \A t \in Task : Stray(t)' <=> Stray(t) \/ future[run][t] \in Live
  BY <1>1, <1>2 DEF Stray, Live
<1> QED
  BY <1>1, <1>3 DEF Strays, Stray, Succeeded

LEMMA StopRefines ==
  ASSUME ContractInv, RaiseFromFinish \/ Return
  PROVE  Abstract!Next
<1> /\ TypeOK /\ CallsNest /\ OneFinish /\ TokenSet /\ FuturesHeld
    /\ closed => ReadyAccepts /\ HonestSkips
  BY DEF ContractInv, ClosedInv, ClosedGraph, SchedulerInv
<1> DEFINE left == {t \in Task : future[run][t] \in Live}
<1>1. phase # "idle" /\ run \in Runs
  BY DEF RaiseFromFinish, Return, CallsNest, TypeOK
<1>2. ASSUME NEW o, NEW S, outcome' = o, left \subseteq S PROVE Abstract!Stop(o, S)
  BY <1>1, <1>2, LeftBehind DEF Abstract!Stop
<1>3. CASE RaiseFromFinish
  <2>1. StrictPlan => left \in SUBSET (Task \ checkpoint)
    BY <1>1, LiveIsUnsecured DEF ContractInv
  <2>2. outcome' = "raised"
    BY <1>3 DEF RaiseFromFinish
  <2>3. Abstract!Raise
    BY <1>2, <2>1, <2>2 DEF Abstract!Raise
  <2> QED
    BY <2>3 DEF Abstract!Next
<1>4. CASE Return
  <2>1. finishing = {} /\ phase = "close" /\ outcome' = ResultStatus
    BY <1>4 DEF Return, CallsNest
  <2>2. \A t \in Task : results[t] \in Terminal
    BY <2>1 DEF OneFinish, TypeOK
  <2>3. Succeeded = Task <=> \A t \in Task : results[t] = "succeeded"
    BY DEF Succeeded
  <2>4. ResultStatus = "succeeded" <=>
          \A t \in Task : results[t] \notin {"failed", "cancelled"}
    BY DEF ResultStatus
  <2>5. Succeeded = Task => ResultStatus = "succeeded"
    BY <2>3, <2>4
  <2>6. closed /\ ResultStatus = "succeeded" => Succeeded = Task
    BY <1>1, <2>2, <2>3, <2>4 DEF HonestSkips, Terminal
  <2>7. /\ ResultStatus = "partial" => Succeeded # {}
        /\ ResultStatus = "failed" => Succeeded = {}
    BY DEF ResultStatus, Succeeded
  <2>8. ResultStatus = "cancelled" => cancelled
    BY <1>1 DEF ResultStatus, TokenSet
  <2>9. ResultStatus \in Abstract!Returned
    BY DEF ResultStatus, Abstract!Returned
  <2>10. left \subseteq IF closed THEN {} ELSE Task
    <3>1. closed => running = {}
      BY <2>1 DEF ReadyAccepts
    <3> QED
      BY <1>1, <3>1 DEF FuturesHeld
  <2>11. Abstract!Stop(ResultStatus, IF closed THEN {} ELSE Task)
    BY <1>2, <2>1, <2>10
  <2>12. Abstract!Return(ResultStatus)
    BY <2>5, <2>6, <2>7, <2>8, <2>11 DEF Abstract!Return
  <2> QED
    BY <2>9, <2>12 DEF Abstract!Next
<1> QED
  BY <1>3, <1>4

(* A recorded outcome makes a task succeed, takes a restored success back, or   *)
(* is no news to the caller.                                                    *)
LEMMA RecordRefines ==
  ASSUME ContractInv, RecordOutcome
  PROVE  Abstract!Next \/ UNCHANGED Abstract!vars
<1> TypeOK /\ CallsNest /\ FuturesHeld
  BY DEF ContractInv, ClosedInv, SchedulerInv
<1> PICK f \in finishing : /\ f.status = "succeeded" => f.saved
                           /\ results' = [results EXCEPT ![f.task] = f.status]
  BY DEF RecordOutcome
<1>1. f.task \in Task /\ phase # "idle" /\ phase' = phase
  BY DEF RecordOutcome, TypeOK, Calls, CallsNest
<1>2. \A t \in Task : results'[t] = IF t = f.task THEN f.status ELSE results[t]
  BY <1>1 DEF TypeOK
<1>3. Strays' = Strays /\ UNCHANGED <<begun, invoked, checkpoint, closed, cancelled, outcome>>
  BY DEF RecordOutcome, Strays
<1>4. CASE f.status = "succeeded"
  <2>1. Succeeded' = Succeeded \cup {f.task}
    BY <1>1, <1>2, <1>4 DEF Succeeded
  <2>2. invoked[f.task] > 0
    BY <1>4 DEF FuturesHeld
  <2>3. StrictPlan => f.task \in checkpoint
    BY <1>4 DEF ContractInv, SecuredInv, RespectInv, SafetyInv, CheckpointsClosed
  <2>4. Abstract!Succeed(f.task)
    BY <1>1, <1>3, <2>1, <2>2, <2>3 DEF Abstract!Succeed
  <2> QED
    BY <1>1, <2>4 DEF Abstract!Next
<1>5. CASE f.status # "succeeded" /\ f.task \in Succeeded
  <2>1. Succeeded' = Succeeded \ {f.task}
    BY <1>1, <1>2, <1>5 DEF Succeeded
  <2>2. ASSUME StrictPlan PROVE FALSE
    <3>1. results[f.task] = "succeeded" /\ f.task \in checkpoint
      BY <1>1, <1>5, <2>2
         DEF Succeeded, ContractInv, SecuredInv, SucceededIsSecured
    <3>2. SucceededIsSecured'
      BY <2>2, StepSucceededIsSecured DEF Next, Finish, ContractInv, SecuredInv
    <3>3. finishing' = {} /\ checkpoint' = checkpoint /\ phase' # "idle"
      BY <1>1 DEF RecordOutcome
    <3>4. results'[f.task] = "succeeded"
      BY <3>1, <3>2, <3>3 DEF SucceededIsSecured
    <3> QED
      BY <1>1, <1>2, <1>5, <3>4
  <2>3. Abstract!Forfeit(f.task)
    BY <1>1, <1>3, <2>1, <2>2 DEF Abstract!Forfeit
  <2> QED
    BY <1>1, <2>3 DEF Abstract!Next
<1>6. CASE f.status # "succeeded" /\ f.task \notin Succeeded
  <2>1. Succeeded' = Succeeded
    BY <1>1, <1>2, <1>6 DEF Succeeded
  <2> QED
    BY <1>1, <1>3, <2>1 DEF Abstract!vars
<1> QED
  BY <1>4, <1>5, <1>6

LEMMA StepRefines ==
  ASSUME ContractInv, [Next]_vars
  PROVE  [Abstract!Next]_(Abstract!vars)
<1> TypeOK /\ CallsNest /\ FuturesHeld
  BY DEF ContractInv, ClosedInv, SchedulerInv
<1>1. CASE Execute \/ Resume \/ RefuseResume
  BY <1>1, StartRefines
<1>2. CASE \E r \in Runs : \E t \in Task : Coroutine(r, t)
  BY <1>2, CoroutineRefines
<1>3. CASE RaiseFromFinish \/ Return
  BY <1>3, StopRefines
<1>4. CASE RecordOutcome
  BY <1>4, RecordRefines
<1>5. CASE \E t \in Task : StartTask(t)
  <2> PICK t \in Task : StartTask(t)
    BY <1>5
  <2>1. \A r \in Runs : \A u \in Task :
          future'[r][u] = IF r = run /\ u = t THEN "reported" ELSE future[r][u]
    BY DEF StartTask, TypeOK
  <2>2. /\ phase = "loop"
        /\ UNCHANGED <<run, phase, begun, invoked, checkpoint, closed, cancelled, outcome, results>>
    BY DEF StartTask
  <2>3. Strays' = Strays
    BY <2>1, <2>2, StraysSame DEF Stray
  <2> QED
    BY <2>2, <2>3 DEF Succeeded, Abstract!vars
<1>6. CASE \E t \in Task : FutureCancelled(t)
  <2> PICK t \in Task : FutureCancelled(t)
    BY <1>6
  <2>1. phase = "drain" /\ run \in Runs
    BY DEF FutureCancelled, FuturesHeld, TypeOK
  <2>2. UNCHANGED <<run, phase, begun, invoked, checkpoint, closed, cancelled, outcome, results>>
    BY DEF FutureCancelled
  <2>3. Strays' = Strays
    BY <2>1, <2>2, CancelledFutures, StraysSame DEF Stray
  <2> QED
    BY <2>2, <2>3 DEF Succeeded, Abstract!vars
<1>7. CASE SaveCheckpoint
  <2> PICK f \in finishing :
        /\ f.status = "succeeded"
        /\ checkpoint' = checkpoint \/ checkpoint' = checkpoint \cup {f.task}
    BY <1>7 DEF SaveCheckpoint
  <2>1. phase # "idle" /\ f.task \in Task /\ invoked[f.task] > 0
    BY DEF CallsNest, FuturesHeld, TypeOK, Calls
  <2>2. /\ Strays' = Strays /\ Succeeded' = Succeeded
        /\ UNCHANGED <<phase, begun, invoked, closed, cancelled, outcome>>
    BY <1>7 DEF SaveCheckpoint, Strays, Succeeded
  <2>3. CASE checkpoint' = checkpoint
    BY <2>2, <2>3 DEF Abstract!vars
  <2>4. CASE checkpoint' = checkpoint \cup {f.task}
    <3>1. Abstract!Secure(f.task)
      BY <2>1, <2>2, <2>4 DEF Abstract!Secure, Abstract!latest
    <3> QED
      BY <2>1, <3>1 DEF Abstract!Next
  <2> QED
    BY <2>3, <2>4
<1>8. CASE Cancel \/ CallerCancels
  <2>1. /\ phase # "idle" /\ phase' # "idle"
        /\ cancelled' = TRUE
        /\ UNCHANGED <<run, future, begun, invoked, checkpoint, closed, outcome, results>>
    BY <1>8 DEF Cancel, CallerCancels, AtWait
  <2>2. Strays' = Strays /\ Succeeded' = Succeeded
    BY <2>1 DEF Strays, Succeeded
  <2>3. Abstract!Cancel
    BY <2>1, <2>2 DEF Abstract!Cancel
  <2> QED
    BY <2>3 DEF Abstract!Next
<1>9. CASE Crash
  <2>1. Strays' = {} /\ Succeeded' = {}
    BY <1>9 DEF Crash, Strays, Succeeded, NoFutures, Live
  <2>2. Abstract!Crash
    BY <1>9, <2>1 DEF Crash, Abstract!Crash
  <2> QED
    BY <2>2 DEF Abstract!Next
<1>10. CASE /\ phase # "idle" /\ phase' # "idle"
            /\ UNCHANGED <<run, future, begun, invoked, checkpoint, closed, cancelled, outcome,
                           results>>
  <2>1. Strays' = Strays /\ Succeeded' = Succeeded
    BY <1>10 DEF Strays, Succeeded
  <2> QED
    BY <1>10, <2>1 DEF Abstract!vars
<1>11. CASE UNCHANGED vars
  BY <1>11 DEF vars, Strays, Succeeded, Abstract!vars
<1>12. ASSUME \/ Collect \/ LeaveLoop \/ Drained \/ BeginSweep \/ EndSweep \/ ReturnFromFinish
              \/ \E t \in Task : \/ FinishCompleted(t) \/ Capture(t) \/ SweepTask(t)
                                 \/ VisitDependent(t) \/ CancelSwallowed(t)
       PROVE  /\ phase # "idle" /\ phase' # "idle"
              /\ UNCHANGED <<run, future, begun, invoked, checkpoint, closed, cancelled, outcome,
                             results>>
  BY <1>12 DEF Collect, AtWait, LeaveLoop, Drained, BeginSweep, EndSweep, ReturnFromFinish,
     FinishCompleted, Capture, SweepTask, VisitDependent, CancelSwallowed, CallsNest,
     FuturesHeld
<1> QED
  BY <1>1, <1>2, <1>3, <1>4, <1>5, <1>6, <1>7, <1>8, <1>9, <1>10, <1>11, <1>12
     DEF Next, Scheduler, Finish, CancelReaches

(* The scheduler implements the promise of execute(): for every plan, strict   *)
(* or not, whatever encoding its outputs does, its executions with their       *)
(* crashes, cancellations, exceptions and resumptions are those of one         *)
(* PlanExecution, of the strict kind exactly when the plan is strict.          *)
THEOREM SchedulerImplements == Spec => ImplementsPlanExecution
<1>1. Init => Abstract!Init
  BY DEF Init, Abstract!Init, Strays, Succeeded, NoFutures, Live
<1>2. ContractInv /\ [Next]_vars => [Abstract!Next]_(Abstract!vars)
  BY StepRefines
<1> QED
  BY <1>1, <1>2, ContractInvariant, PTL DEF Spec, Abstract!Spec, ImplementsPlanExecution
================================================================================
