-------------------------- MODULE InvestigationProofs --------------------------
(***************************************************************************)
(* Proofs about the lifecycle of an investigation, for every plan, every   *)
(* set of requests and with or without crashes.                            *)
(***************************************************************************)
EXTENDS InvestigationProps, TLAPS

(* The steps at which a request is registered, and those at which its         *)
(* investigation has been started and not ended yet.                          *)
InFlight == {"executing"} \cup Atomic
Started  == {"opened", "executing", "returned", "indexed", "added"}

(* One request at a time is in flight, and it is the one whose token is       *)
(* registered; the engine executes exactly while it awaits the execution.     *)
OneInFlight ==
  /\ \A r \in Request : step[r] \in InFlight <=> r \in active
  /\ \A r, q \in active : r = q
  /\ executing <=> \E r \in Request : step[r] = "executing"

(* What the outcome that an execution returned says about its tasks.          *)
HonestOutcome ==
  /\ outcome \in Engine!Returned
  /\ outcome = "succeeded" /\ closed => done = Task
  /\ outcome = "partial" => done # {}

(* What a request has established by the time it gets to each step.           *)
Established == \A r \in Request :
  /\ step[r] \in Started => status = "running"
  /\ step[r] \in {"returned", "indexed", "added"} => HonestOutcome
  /\ step[r] \in {"indexed", "added"} => indexed /\ reported = done
  /\ step[r] = "added" => result

(* The handler of a task with a checkpoint, or that succeeded, was called.    *)
SuccessRan == \A t \in secured \cup done : runs[t] > 0

LifecycleInv ==
  OneInFlight /\ Established /\ CompletedIsBacked /\ NoOrphan /\ SuccessRan

--------------------------------------------------------------------------------
(* Types *)

USE DEF durable, request, engine, Engine!vars, Engine!latest, Goto

(* Every step keeps the variables in their sets.  The status that a request   *)
(* stores is one only because the engine has returned an outcome by then.     *)
LEMMA TypeStep ==
  ASSUME TypeOK, Established, [Next]_vars
  PROVE  TypeOK'
<1> USE DEF TypeOK, Engine!TypeOK, Engine!Returned, Atomic, Over, Statuses
<1>1. ASSUME NEW r \in Request, NEW again \in BOOLEAN, Admit(r, again)
      PROVE  TypeOK'
  BY <1>1 DEF Admit, Admissible
<1>2. ASSUME NEW r \in Request, Reject(r)
      PROVE  TypeOK'
  BY <1>2 DEF Reject
<1>3. ASSUME NEW r \in Request, Open(r)
      PROVE  TypeOK'
  BY <1>3 DEF Open, Openable
<1>4. ASSUME NEW r \in Request, StartEngine(r)
      PROVE  TypeOK'
  BY <1>4 DEF StartEngine, Engine!Continue, Engine!Begin, Engine!StartExecution
<1>5. ASSUME NEW r \in Request, RefuseToReplay(r)
      PROVE  TypeOK'
  BY <1>5 DEF RefuseToReplay, Engine!Refuse
<1>6. ASSUME NEW r \in Request, Fail(r)
      PROVE  TypeOK'
  BY <1>6 DEF Fail
<1>7. ASSUME NEW r \in Request, IndexResult(r)
      PROVE  TypeOK'
  BY <1>7 DEF IndexResult
<1>8. ASSUME NEW r \in Request, AddResult(r)
      PROVE  TypeOK'
  BY <1>8 DEF AddResult
<1>9. ASSUME NEW r \in Request, Close(r)
      PROVE  TypeOK'
  <2>1. outcome \in Engine!Returned
    BY <1>9 DEF Close, Established, HonestOutcome
  <2> QED
    BY <1>9, <2>1 DEF Close, ClosingStatus
<1>10. ASSUME NEW r \in Request, Handle(r)
      PROVE  TypeOK'
  BY <1>10 DEF Handle
<1>11. ASSUME NEW r \in Request, EngineReturns(r)
      PROVE  TypeOK'
  BY <1>11 DEF EngineReturns, Engine!Return, Engine!Stop
<1>12. ASSUME NEW r \in Request, EngineRaises(r)
      PROVE  TypeOK'
  BY <1>12 DEF EngineRaises, Engine!Raise, Engine!Stop
<1>13. ASSUME NEW r \in Request, Interrupt(r)
      PROVE  TypeOK'
  BY <1>13 DEF Interrupt, Engine!Raise, Engine!Stop
<1>14. ASSUME NEW t \in Task, RunTask(t)
      PROVE  TypeOK'
  BY <1>14 DEF RunTask, Engine!Run
<1>15. ASSUME NEW t \in Task, SecureTask(t)
      PROVE  TypeOK'
  BY <1>15 DEF SecureTask, Engine!Secure
<1>20. ASSUME NEW t \in Task, EndStray(t)
      PROVE  TypeOK'
  BY <1>20 DEF EndStray, Engine!StrayEnds
<1>21. ASSUME NEW t \in Task, SucceedTask(t)
      PROVE  TypeOK'
  BY <1>21 DEF SucceedTask, Engine!Succeed
<1>22. ASSUME NEW t \in Task, ForfeitTask(t)
      PROVE  TypeOK'
  BY <1>22 DEF ForfeitTask, Engine!Forfeit
<1>16. CASE RequestCancellation
  BY <1>16 DEF RequestCancellation, Engine!Cancel
<1>17. CASE CancelPending
  BY <1>17 DEF CancelPending
<1>18. CASE Crash
  BY <1>18 DEF Crash, Engine!Crash
<1>19. CASE UNCHANGED vars
  BY <1>19 DEF vars
<1> QED
  BY <1>1, <1>2, <1>3, <1>4, <1>5, <1>6, <1>7, <1>8, <1>9, <1>10, <1>11, <1>12, <1>13, <1>14, <1>15, <1>16, <1>17, <1>18, <1>19, <1>20, <1>21, <1>22
     DEF Next, Submit, Proceed, EngineEnds

--------------------------------------------------------------------------------
(* The invariant *)

(* Requests take turns. *)
LEMMA OneInFlightStep ==
  ASSUME TypeOK, OneInFlight, [Next]_vars
  PROVE  OneInFlight'
<1> USE DEF TypeOK, OneInFlight, InFlight, Started, Atomic, Over
<1>1. ASSUME NEW r \in Request, NEW again \in BOOLEAN, Admit(r, again)
      PROVE  OneInFlight'
  BY <1>1 DEF Admit, Admissible
<1>2. ASSUME NEW r \in Request, Reject(r)
      PROVE  OneInFlight'
  BY <1>2 DEF Reject
<1>3. ASSUME NEW r \in Request, Open(r)
      PROVE  OneInFlight'
  BY <1>3 DEF Open, Openable
<1>4. ASSUME NEW r \in Request, StartEngine(r)
      PROVE  OneInFlight'
  BY <1>4 DEF StartEngine, Engine!Continue, Engine!Begin, Engine!StartExecution
<1>5. ASSUME NEW r \in Request, RefuseToReplay(r)
      PROVE  OneInFlight'
  BY <1>5 DEF RefuseToReplay, Engine!Refuse
<1>6. ASSUME NEW r \in Request, Fail(r)
      PROVE  OneInFlight'
  BY <1>6 DEF Fail
<1>7. ASSUME NEW r \in Request, IndexResult(r)
      PROVE  OneInFlight'
  BY <1>7 DEF IndexResult
<1>8. ASSUME NEW r \in Request, AddResult(r)
      PROVE  OneInFlight'
  BY <1>8 DEF AddResult
<1>9. ASSUME NEW r \in Request, Close(r)
      PROVE  OneInFlight'
  BY <1>9 DEF Close, ClosingStatus
<1>10. ASSUME NEW r \in Request, Handle(r)
      PROVE  OneInFlight'
  BY <1>10 DEF Handle
<1>11. ASSUME NEW r \in Request, EngineReturns(r)
      PROVE  OneInFlight'
  BY <1>11 DEF EngineReturns, Engine!Return, Engine!Stop
<1>12. ASSUME NEW r \in Request, EngineRaises(r)
      PROVE  OneInFlight'
  BY <1>12 DEF EngineRaises, Engine!Raise, Engine!Stop
<1>13. ASSUME NEW r \in Request, Interrupt(r)
      PROVE  OneInFlight'
  BY <1>13 DEF Interrupt, Engine!Raise, Engine!Stop
<1>14. ASSUME NEW t \in Task, RunTask(t)
      PROVE  OneInFlight'
  BY <1>14 DEF RunTask, Engine!Run
<1>15. ASSUME NEW t \in Task, SecureTask(t)
      PROVE  OneInFlight'
  BY <1>15 DEF SecureTask, Engine!Secure
<1>20. ASSUME NEW t \in Task, EndStray(t)
      PROVE  OneInFlight'
  BY <1>20 DEF EndStray, Engine!StrayEnds
<1>21. ASSUME NEW t \in Task, SucceedTask(t)
      PROVE  OneInFlight'
  BY <1>21 DEF SucceedTask, Engine!Succeed
<1>22. ASSUME NEW t \in Task, ForfeitTask(t)
      PROVE  OneInFlight'
  BY <1>22 DEF ForfeitTask, Engine!Forfeit
<1>16. CASE RequestCancellation
  BY <1>16 DEF RequestCancellation, Engine!Cancel
<1>17. CASE CancelPending
  BY <1>17 DEF CancelPending
<1>18. CASE Crash
  BY <1>18 DEF Crash, Engine!Crash
<1>19. CASE UNCHANGED vars
  BY <1>19 DEF vars
<1> QED
  BY <1>1, <1>2, <1>3, <1>4, <1>5, <1>6, <1>7, <1>8, <1>9, <1>10, <1>11, <1>12, <1>13, <1>14, <1>15, <1>16, <1>17, <1>18, <1>19, <1>20, <1>21, <1>22
     DEF Next, Submit, Proceed, EngineEnds

(* A step of the request in flight establishes what its next step relies on,  *)
(* and nobody else takes it back.                                             *)
LEMMA EstablishedStep ==
  ASSUME TypeOK, OneInFlight, Established, [Next]_vars
  PROVE  Established'
<1> USE DEF TypeOK, Engine!TypeOK, OneInFlight, Established, HonestOutcome, InFlight, Started, Atomic, Over
<1>1. ASSUME NEW r \in Request, NEW again \in BOOLEAN, Admit(r, again)
      PROVE  Established'
  BY <1>1 DEF Admit, Admissible
<1>2. ASSUME NEW r \in Request, Reject(r)
      PROVE  Established'
  BY <1>2 DEF Reject
<1>3. ASSUME NEW r \in Request, Open(r)
      PROVE  Established'
  BY <1>3 DEF Open, Openable
<1>4. ASSUME NEW r \in Request, StartEngine(r)
      PROVE  Established'
  BY <1>4 DEF StartEngine, Engine!Continue, Engine!Begin, Engine!StartExecution
<1>5. ASSUME NEW r \in Request, RefuseToReplay(r)
      PROVE  Established'
  BY <1>5 DEF RefuseToReplay, Engine!Refuse
<1>6. ASSUME NEW r \in Request, Fail(r)
      PROVE  Established'
  BY <1>6 DEF Fail
<1>7. ASSUME NEW r \in Request, IndexResult(r)
      PROVE  Established'
  BY <1>7 DEF IndexResult
<1>8. ASSUME NEW r \in Request, AddResult(r)
      PROVE  Established'
  BY <1>8 DEF AddResult
<1>9. ASSUME NEW r \in Request, Close(r)
      PROVE  Established'
  BY <1>9 DEF Close, ClosingStatus
<1>10. ASSUME NEW r \in Request, Handle(r)
      PROVE  Established'
  BY <1>10 DEF Handle
<1>11. ASSUME NEW r \in Request, EngineReturns(r)
      PROVE  Established'
  BY <1>11 DEF EngineReturns, Engine!Return, Engine!Stop
<1>12. ASSUME NEW r \in Request, EngineRaises(r)
      PROVE  Established'
  BY <1>12 DEF EngineRaises, Engine!Raise, Engine!Stop
<1>13. ASSUME NEW r \in Request, Interrupt(r)
      PROVE  Established'
  BY <1>13 DEF Interrupt, Engine!Raise, Engine!Stop
<1>14. ASSUME NEW t \in Task, RunTask(t)
      PROVE  Established'
  BY <1>14 DEF RunTask, Engine!Run
<1>15. ASSUME NEW t \in Task, SecureTask(t)
      PROVE  Established'
  BY <1>15 DEF SecureTask, Engine!Secure
<1>20. ASSUME NEW t \in Task, EndStray(t)
      PROVE  Established'
  BY <1>20 DEF EndStray, Engine!StrayEnds
<1>21. ASSUME NEW t \in Task, SucceedTask(t)
      PROVE  Established'
  BY <1>21 DEF SucceedTask, Engine!Succeed
<1>22. ASSUME NEW t \in Task, ForfeitTask(t)
      PROVE  Established'
  BY <1>22 DEF ForfeitTask, Engine!Forfeit
<1>16. CASE RequestCancellation
  BY <1>16 DEF RequestCancellation, Engine!Cancel
<1>17. CASE CancelPending
  BY <1>17 DEF CancelPending
<1>18. CASE Crash
  BY <1>18 DEF Crash, Engine!Crash
<1>19. CASE UNCHANGED vars
  BY <1>19 DEF vars
<1> QED
  BY <1>1, <1>2, <1>3, <1>4, <1>5, <1>6, <1>7, <1>8, <1>9, <1>10, <1>11, <1>12, <1>13, <1>14, <1>15, <1>16, <1>17, <1>18, <1>19, <1>20, <1>21, <1>22
     DEF Next, Submit, Proceed, EngineEnds

(* An investigation is closed on the outcome of its execution. *)
LEMMA BackedStep ==
  ASSUME TypeOK, OneInFlight, Established, SuccessRan, CompletedIsBacked, [Next]_vars
  PROVE  CompletedIsBacked'
<1> USE DEF TypeOK, Engine!TypeOK, OneInFlight, Established, HonestOutcome, SuccessRan, CompletedIsBacked, Engine!Returned, InFlight, Started, Atomic, Over
<1>1. ASSUME NEW r \in Request, NEW again \in BOOLEAN, Admit(r, again)
      PROVE  CompletedIsBacked'
  BY <1>1 DEF Admit, Admissible
<1>2. ASSUME NEW r \in Request, Reject(r)
      PROVE  CompletedIsBacked'
  BY <1>2 DEF Reject
<1>3. ASSUME NEW r \in Request, Open(r)
      PROVE  CompletedIsBacked'
  BY <1>3 DEF Open, Openable
<1>4. ASSUME NEW r \in Request, StartEngine(r)
      PROVE  CompletedIsBacked'
  BY <1>4 DEF StartEngine, Engine!Continue, Engine!Begin, Engine!StartExecution
<1>5. ASSUME NEW r \in Request, RefuseToReplay(r)
      PROVE  CompletedIsBacked'
  BY <1>5 DEF RefuseToReplay, Engine!Refuse
<1>6. ASSUME NEW r \in Request, Fail(r)
      PROVE  CompletedIsBacked'
  BY <1>6 DEF Fail
<1>7. ASSUME NEW r \in Request, IndexResult(r)
      PROVE  CompletedIsBacked'
  BY <1>7 DEF IndexResult
<1>8. ASSUME NEW r \in Request, AddResult(r)
      PROVE  CompletedIsBacked'
  BY <1>8 DEF AddResult
<1>9. ASSUME NEW r \in Request, Close(r)
      PROVE  CompletedIsBacked'
  BY <1>9 DEF Close, ClosingStatus
<1>10. ASSUME NEW r \in Request, Handle(r)
      PROVE  CompletedIsBacked'
  BY <1>10 DEF Handle
<1>11. ASSUME NEW r \in Request, EngineReturns(r)
      PROVE  CompletedIsBacked'
  BY <1>11 DEF EngineReturns, Engine!Return, Engine!Stop
<1>12. ASSUME NEW r \in Request, EngineRaises(r)
      PROVE  CompletedIsBacked'
  BY <1>12 DEF EngineRaises, Engine!Raise, Engine!Stop
<1>13. ASSUME NEW r \in Request, Interrupt(r)
      PROVE  CompletedIsBacked'
  BY <1>13 DEF Interrupt, Engine!Raise, Engine!Stop
<1>14. ASSUME NEW t \in Task, RunTask(t)
      PROVE  CompletedIsBacked'
  BY <1>14 DEF RunTask, Engine!Run
<1>15. ASSUME NEW t \in Task, SecureTask(t)
      PROVE  CompletedIsBacked'
  BY <1>15 DEF SecureTask, Engine!Secure
<1>20. ASSUME NEW t \in Task, EndStray(t)
      PROVE  CompletedIsBacked'
  BY <1>20 DEF EndStray, Engine!StrayEnds
<1>21. ASSUME NEW t \in Task, SucceedTask(t)
      PROVE  CompletedIsBacked'
  BY <1>21 DEF SucceedTask, Engine!Succeed
<1>22. ASSUME NEW t \in Task, ForfeitTask(t)
      PROVE  CompletedIsBacked'
  BY <1>22 DEF ForfeitTask, Engine!Forfeit
<1>16. CASE RequestCancellation
  BY <1>16 DEF RequestCancellation, Engine!Cancel
<1>17. CASE CancelPending
  BY <1>17 DEF CancelPending
<1>18. CASE Crash
  BY <1>18 DEF Crash, Engine!Crash
<1>19. CASE UNCHANGED vars
  BY <1>19 DEF vars
<1> QED
  BY <1>1, <1>2, <1>3, <1>4, <1>5, <1>6, <1>7, <1>8, <1>9, <1>10, <1>11, <1>12, <1>13, <1>14, <1>15, <1>16, <1>17, <1>18, <1>19, <1>20, <1>21, <1>22
     DEF Next, Submit, Proceed, EngineEnds

(* A request leaves a running investigation only by dying or interrupted.     *)
LEMMA NoOrphanStep ==
  ASSUME TypeOK, OneInFlight, Established, NoOrphan, [Next]_vars
  PROVE  NoOrphan'
<1> USE DEF TypeOK, OneInFlight, Established, NoOrphan, InFlight, Started, Atomic, Over
<1>1. ASSUME NEW r \in Request, NEW again \in BOOLEAN, Admit(r, again)
      PROVE  NoOrphan'
  BY <1>1 DEF Admit, Admissible
<1>2. ASSUME NEW r \in Request, Reject(r)
      PROVE  NoOrphan'
  BY <1>2 DEF Reject
<1>3. ASSUME NEW r \in Request, Open(r)
      PROVE  NoOrphan'
  BY <1>3 DEF Open, Openable
<1>4. ASSUME NEW r \in Request, StartEngine(r)
      PROVE  NoOrphan'
  BY <1>4 DEF StartEngine, Engine!Continue, Engine!Begin, Engine!StartExecution
<1>5. ASSUME NEW r \in Request, RefuseToReplay(r)
      PROVE  NoOrphan'
  BY <1>5 DEF RefuseToReplay, Engine!Refuse
<1>6. ASSUME NEW r \in Request, Fail(r)
      PROVE  NoOrphan'
  BY <1>6 DEF Fail
<1>7. ASSUME NEW r \in Request, IndexResult(r)
      PROVE  NoOrphan'
  BY <1>7 DEF IndexResult
<1>8. ASSUME NEW r \in Request, AddResult(r)
      PROVE  NoOrphan'
  BY <1>8 DEF AddResult
<1>9. ASSUME NEW r \in Request, Close(r)
      PROVE  NoOrphan'
  <2>1. outcome \in Engine!Returned
    BY <1>9 DEF Close, HonestOutcome
  <2>2. ClosingStatus # "running"
    BY <2>1 DEF ClosingStatus, Engine!Returned
  <2> QED
    BY <1>9, <2>2 DEF Close
<1>10. ASSUME NEW r \in Request, Handle(r)
      PROVE  NoOrphan'
  BY <1>10 DEF Handle
<1>11. ASSUME NEW r \in Request, EngineReturns(r)
      PROVE  NoOrphan'
  BY <1>11 DEF EngineReturns, Engine!Return, Engine!Stop
<1>12. ASSUME NEW r \in Request, EngineRaises(r)
      PROVE  NoOrphan'
  BY <1>12 DEF EngineRaises, Engine!Raise, Engine!Stop
<1>13. ASSUME NEW r \in Request, Interrupt(r)
      PROVE  NoOrphan'
  BY <1>13 DEF Interrupt, Engine!Raise, Engine!Stop
<1>14. ASSUME NEW t \in Task, RunTask(t)
      PROVE  NoOrphan'
  BY <1>14 DEF RunTask, Engine!Run
<1>15. ASSUME NEW t \in Task, SecureTask(t)
      PROVE  NoOrphan'
  BY <1>15 DEF SecureTask, Engine!Secure
<1>20. ASSUME NEW t \in Task, EndStray(t)
      PROVE  NoOrphan'
  BY <1>20 DEF EndStray, Engine!StrayEnds
<1>21. ASSUME NEW t \in Task, SucceedTask(t)
      PROVE  NoOrphan'
  BY <1>21 DEF SucceedTask, Engine!Succeed
<1>22. ASSUME NEW t \in Task, ForfeitTask(t)
      PROVE  NoOrphan'
  BY <1>22 DEF ForfeitTask, Engine!Forfeit
<1>16. CASE RequestCancellation
  BY <1>16 DEF RequestCancellation, Engine!Cancel
<1>17. CASE CancelPending
  BY <1>17 DEF CancelPending
<1>18. CASE Crash
  BY <1>18 DEF Crash, Engine!Crash
<1>19. CASE UNCHANGED vars
  BY <1>19 DEF vars
<1> QED
  BY <1>1, <1>2, <1>3, <1>4, <1>5, <1>6, <1>7, <1>8, <1>9, <1>10, <1>11, <1>12, <1>13, <1>14, <1>15, <1>16, <1>17, <1>18, <1>19, <1>20, <1>21, <1>22
     DEF Next, Submit, Proceed, EngineEnds

(* Only a task that was run is secured or succeeds. *)
LEMMA SuccessRanStep ==
  ASSUME TypeOK, SuccessRan, [Next]_vars
  PROVE  SuccessRan'
<1> USE DEF TypeOK, Engine!TypeOK, SuccessRan
<1>1. ASSUME NEW t \in Task, RunTask(t)
      PROVE  SuccessRan'
  BY <1>1 DEF RunTask, Engine!Run
<1>2. ASSUME NEW t \in Task, SecureTask(t)
      PROVE  SuccessRan'
  BY <1>2 DEF SecureTask, Engine!Secure
<1>3. ASSUME NEW t \in Task, SucceedTask(t)
      PROVE  SuccessRan'
  BY <1>3 DEF SucceedTask, Engine!Succeed
<1>4. CASE UNCHANGED <<runs, secured>> /\ done' \subseteq done \cup secured
  BY <1>4
<1> QED
  BY <1>1, <1>2, <1>3, <1>4
     DEF Next, vars, Submit, Proceed, EngineEnds, Admit, Reject, Open, StartEngine,
     Engine!Continue, Engine!Begin, Engine!StartExecution, RefuseToReplay, Engine!Refuse, Fail,
     IndexResult, AddResult, Close, Handle, EngineReturns, Engine!Return, Engine!Stop,
     EngineRaises, Engine!Raise, Interrupt, EndStray, Engine!StrayEnds, RequestCancellation,
     Engine!Cancel, CancelPending, Crash, Engine!Crash, ForfeitTask, Engine!Forfeit

(* A completed investigation is not being executed and admits no execution. *)
StaysFinal == status' = "completed" /\ UNCHANGED <<result, reported, secured, executing>>

LEMMA FinalStep ==
  ASSUME TypeOK, OneInFlight, Established, CompletedIsBacked,
         status = "completed", [Next]_vars
  PROVE  StaysFinal
<1> USE DEF StaysFinal, TypeOK, Engine!TypeOK, OneInFlight, Established, CompletedIsBacked, InFlight, Started, Atomic, Over
<1>1. ASSUME NEW r \in Request, NEW again \in BOOLEAN, Admit(r, again)
      PROVE  StaysFinal
  BY <1>1 DEF Admit, Admissible
<1>2. ASSUME NEW r \in Request, Reject(r)
      PROVE  StaysFinal
  BY <1>2 DEF Reject
<1>3. ASSUME NEW r \in Request, Open(r)
      PROVE  StaysFinal
  BY <1>3 DEF Open, Openable
<1>4. ASSUME NEW r \in Request, StartEngine(r)
      PROVE  StaysFinal
  BY <1>4 DEF StartEngine, Engine!Continue, Engine!Begin, Engine!StartExecution
<1>5. ASSUME NEW r \in Request, RefuseToReplay(r)
      PROVE  StaysFinal
  BY <1>5 DEF RefuseToReplay, Engine!Refuse
<1>6. ASSUME NEW r \in Request, Fail(r)
      PROVE  StaysFinal
  BY <1>6 DEF Fail
<1>7. ASSUME NEW r \in Request, IndexResult(r)
      PROVE  StaysFinal
  BY <1>7 DEF IndexResult
<1>8. ASSUME NEW r \in Request, AddResult(r)
      PROVE  StaysFinal
  BY <1>8 DEF AddResult
<1>9. ASSUME NEW r \in Request, Close(r)
      PROVE  StaysFinal
  BY <1>9 DEF Close, ClosingStatus
<1>10. ASSUME NEW r \in Request, Handle(r)
      PROVE  StaysFinal
  BY <1>10 DEF Handle
<1>11. ASSUME NEW r \in Request, EngineReturns(r)
      PROVE  StaysFinal
  BY <1>11 DEF EngineReturns, Engine!Return, Engine!Stop
<1>12. ASSUME NEW r \in Request, EngineRaises(r)
      PROVE  StaysFinal
  BY <1>12 DEF EngineRaises, Engine!Raise, Engine!Stop
<1>13. ASSUME NEW r \in Request, Interrupt(r)
      PROVE  StaysFinal
  BY <1>13 DEF Interrupt, Engine!Raise, Engine!Stop
<1>14. ASSUME NEW t \in Task, RunTask(t)
      PROVE  StaysFinal
  BY <1>14 DEF RunTask, Engine!Run
<1>15. ASSUME NEW t \in Task, SecureTask(t)
      PROVE  StaysFinal
  BY <1>15 DEF SecureTask, Engine!Secure
<1>20. ASSUME NEW t \in Task, EndStray(t)
      PROVE  StaysFinal
  BY <1>20 DEF EndStray, Engine!StrayEnds
<1>21. ASSUME NEW t \in Task, SucceedTask(t)
      PROVE  StaysFinal
  BY <1>21 DEF SucceedTask, Engine!Succeed
<1>22. ASSUME NEW t \in Task, ForfeitTask(t)
      PROVE  StaysFinal
  BY <1>22 DEF ForfeitTask, Engine!Forfeit
<1>16. CASE RequestCancellation
  BY <1>16 DEF RequestCancellation, Engine!Cancel
<1>17. CASE CancelPending
  BY <1>17 DEF CancelPending
<1>18. CASE Crash
  BY <1>18 DEF Crash, Engine!Crash
<1>19. CASE UNCHANGED vars
  BY <1>19 DEF vars
<1> QED
  BY <1>1, <1>2, <1>3, <1>4, <1>5, <1>6, <1>7, <1>8, <1>9, <1>10, <1>11, <1>12, <1>13, <1>14, <1>15, <1>16, <1>17, <1>18, <1>19, <1>20, <1>21, <1>22
     DEF Next, Submit, Proceed, EngineEnds

--------------------------------------------------------------------------------
(* Theorems *)

(* One request at a time is in flight, and what it relies on holds: TypeOK is *)
(* not inductive without it.                                                  *)
LEMMA LifecycleInvariant == Spec => [](TypeOK /\ LifecycleInv)
<1>1. Init => TypeOK /\ LifecycleInv
  <2> USE DEF Init, Engine!Init, Atomic, Over, Statuses
  <2>1. Init => TypeOK
    <3>1. Init => /\ begun \in BOOLEAN /\ executing \in BOOLEAN /\ cancelled \in BOOLEAN
                  /\ closed \in BOOLEAN /\ secured \subseteq Task
                  /\ done \subseteq Task /\ strays \subseteq Task
      OBVIOUS
    <3>2. Init => runs \in [Task -> Nat]
      OBVIOUS
    <3>3. Init => outcome \in Engine!Returned \cup {"none", "refused", "raised"}
      OBVIOUS
    <3>4. Init => Engine!TypeOK
      BY <3>1, <3>2, <3>3 DEF Engine!TypeOK
    <3> QED
      BY <3>4 DEF TypeOK
  <2>2. Init => OneInFlight
    BY DEF OneInFlight, InFlight
  <2>3. Init => Established
    BY DEF Established, Started
  <2>4. Init => CompletedIsBacked /\ NoOrphan /\ SuccessRan
    BY DEF CompletedIsBacked, NoOrphan, SuccessRan
  <2> QED
    BY <2>1, <2>2, <2>3, <2>4 DEF LifecycleInv
<1>2. TypeOK /\ LifecycleInv /\ [Next]_vars => (TypeOK /\ LifecycleInv)'
  BY TypeStep, OneInFlightStep, EstablishedStep, BackedStep, NoOrphanStep, SuccessRanStep
     DEF LifecycleInv
<1> QED
  BY <1>1, <1>2, PTL DEF Spec

(* Every variable of the investigation, its requests and the engine keeps to  *)
(* its set; in particular the lifecycle never stores an outcome of the engine *)
(* that is not one of its own statuses (_complete in runtime.py).             *)
THEOREM LifecycleTypeCorrect == Spec => []TypeOK
  BY LifecycleInvariant, PTL

(* While the engine executes, the investigation is running and exactly one    *)
(* request, the registered one, owns the execution - for any number of        *)
(* concurrent requests and cancellations, failures and crashes                *)
(* (execute_investigation's registration in _active_execution_cancellations). *)
THEOREM ExecutionOwned == Spec => []ExecutionIsOwned
<1>1. TypeOK /\ LifecycleInv => ExecutionIsOwned
  BY DEF LifecycleInv, OneInFlight, Established, ExecutionIsOwned, TypeOK, InFlight, Started
<1> QED
  BY <1>1, LifecycleInvariant, PTL

(* Completed and partial investigations have a result that is listed and      *)
(* indexed, and it says what they claim: every task of a completed one is in  *)
(* it - unless the checkpoints it resumed from were not closed under          *)
(* dependencies - and some task of a partial one, each really run (the order  *)
(* record_execution_result, add_result, complete of execute_investigation).   *)
THEOREM CompletionBacked == Spec => []CompletedIsBacked
  BY LifecycleInvariant, PTL DEF LifecycleInv

(* No request leaves the investigation running behind it, unless its process  *)
(* died or a second cancellation interrupted it (the except and finally       *)
(* branches of execute_investigation).                                        *)
THEOREM NoneOrphaned == Spec => []NoOrphan
  BY LifecycleInvariant, PTL DEF LifecycleInv

(* COMPLETED is final: no later request, resumption or cancellation reopens   *)
(* the investigation, executes its plan again, or changes its result or what  *)
(* is checkpointed (InvestigationService.resume_start refuses it).            *)
THEOREM CompletionIsFinal == Spec => CompletedIsFinal
<1>1. TypeOK /\ LifecycleInv /\ [Next]_vars => [status = "completed" => StaysFinal]_vars
  BY FinalStep DEF LifecycleInv
<1> QED
  BY <1>1, LifecycleInvariant, PTL DEF Spec, CompletedIsFinal, StaysFinal
================================================================================
