-------------------------- MODULE MonitoringScheduler --------------------------
(***************************************************************************)
(* Recurring observation (satquery/platform/monitoring.py): the repository *)
(* of schedules and runs, and MonitoringService.run_due, which recovers    *)
(* expired leases, claims due occurrences and dispatches them.             *)
(*                                                                         *)
(* A worker is a process with one MonitoringService over the shared        *)
(* repository (an API server: its poller, its run-due endpoint); a         *)
(* restarted process is another worker.  A call is one                     *)
(* run_due() of a worker; calls of a worker are serialised by its lock but *)
(* read the clock before they take it.  Each repository method is one      *)
(* transaction and one step.  An occurrence <<s, t>> is the slot t of      *)
(* schedule s; its run is identified by it (_run_id).                      *)
(*                                                                         *)
(* Abstracted: the order of equal priorities, the FIFO order of the        *)
(* semaphore, queries, missions and investigations (an execution is a      *)
(* pending await with a chosen result; a partial one counts as completed), *)
(* notifications and the event log.                                        *)
(***************************************************************************)
EXTENDS Integers, FiniteSets

CONSTANTS
  Schedule, Worker, Call,
  WorkerOf,        \* WorkerOf[c]: the process that makes call c
  Allow,           \* schedules with overlap_policy="allow"
  Priority,        \* Priority[s]
  FirstRun,        \* FirstRun[s]: next_run_at at creation
  Intervals,       \* values interval_seconds may take
  LeaseTime,       \* lease_seconds
  HeartbeatDelay,  \* lease_seconds / 3
  MaxConcurrency,  \* dispatches of one call that execute at once
  Limit,           \* max_runs_per_tick
  Punctual,        \* TRUE: what an event loop can do is done before the clock moves
  OneProcess,      \* TRUE: a worker starts only when no other is up
  MayCrash,        \* workers that may die
  MaxTime,         \* bound: the clock
  MaxRevision      \* bound: edits of a schedule

Time == 0..MaxTime
Occurrence == Schedule \X Time

ASSUME ScheduleAssumption ==
  /\ IsFiniteSet(Schedule) /\ IsFiniteSet(Call)
  /\ WorkerOf \in [Call -> Worker]
  /\ Allow \subseteq Schedule
  /\ Priority \in [Schedule -> 0..100]
  /\ MayCrash \subseteq Worker
ASSUME ClockAssumption ==
  /\ MaxTime \in Nat /\ MaxRevision \in Nat
  /\ FirstRun \in [Schedule -> Nat]
  /\ Intervals \subseteq Nat \ {0} /\ Intervals # {}
  /\ LeaseTime \in Nat \ {0} /\ HeartbeatDelay \in Nat \ {0}
ASSUME ServiceAssumption ==
  /\ MaxConcurrency \in Nat \ {0} /\ Limit \in Nat \ {0}
  /\ Punctual \in BOOLEAN /\ OneProcess \in BOOLEAN

VARIABLES
  now,
  (* the repository: schedules *)
  enabled, interval, revision, next,
  (* the repository: the run of each occurrence *)
  status,    \* "none" when the occurrence was never claimed
  lease,     \* lease_expires_at
  recorded,  \* schedule_revision
  (* the workers and their calls *)
  up,        \* processes that run
  started,   \* processes that ever ran
  call,      \* call[c]: where run_due is
  instant,   \* the clock as the call read it
  todo,      \* schedules it has not offered to claim_due yet
  snapshot,  \* snapshot[c][s]: revision of s in the list the call works on
  claims,    \* occurrences it claimed
  dispatch,  \* dispatch[o]: the asyncio task created for the claim of o
  beat,      \* when the heartbeat of an executing dispatch is due
  executed   \* history: times execute() was called for o

schedules == <<enabled, interval, revision, next>>
runs      == <<status, lease, recorded>>
process   == <<up, started>>
calls     == <<call, instant, todo, snapshot, claims>>
tasks     == <<dispatch, beat, executed>>
vars == <<now, schedules, runs, process, calls, tasks>>

Holding  == {"claiming", "gathering", "cancelling", "aborting"}  \* has the run lock
Ended    == {"returned", "raised", "cancelled", "dead"}
Settled  == {"completed", "failed", "skipped", "expired"}
Finished == {"ok", "raised", "cancelled", "lost"}

TypeOK ==
  /\ now \in Time
  /\ enabled \in [Schedule -> BOOLEAN]
  /\ interval \in [Schedule -> Intervals]
  /\ revision \in [Schedule -> Nat]
  /\ next \in [Schedule -> Nat]
  /\ status \in [Occurrence -> {"none", "running"} \cup Settled]
  /\ lease \in [Occurrence -> Nat]
  /\ recorded \in [Occurrence -> Nat]
  /\ up \subseteq started /\ started \subseteq Worker
  /\ call \in [Call -> {"new", "waiting"} \cup Holding \cup Ended]
  /\ instant \in [Call -> Time]
  /\ todo \in [Call -> SUBSET Schedule]
  /\ snapshot \in [Call -> [Schedule -> Nat]]
  /\ claims \in [Call -> SUBSET Occurrence]
  /\ dispatch \in [Occurrence -> {"none", "claimed", "queued", "executing"} \cup Finished]
  /\ beat \in [Occurrence -> Nat]
  /\ executed \in [Occurrence -> Nat]

Executing(c) == {o \in claims[c] : dispatch[o] = "executing"}

(* claim_due never awaits: while a call claims, nothing else runs in its process. *)
Yielding(w) == w \in up /\ \A c \in Call : WorkerOf[c] = w => call[c] # "claiming"

--------------------------------------------------------------------------------
(* Schedules *)

(* set_enabled with another value *)
SetEnabled(s) ==
  /\ revision[s] < MaxRevision
  /\ enabled' = [enabled EXCEPT ![s] = ~@]
  /\ revision' = [revision EXCEPT ![s] = @ + 1]
  /\ next' = IF enabled[s] \/ next[s] >= now THEN next ELSE [next EXCEPT ![s] = now]
  /\ UNCHANGED <<now, interval, runs, process, calls, tasks>>

(* revise: an edit of the interval moves the next occurrence. *)
ReviseInterval(s, i) ==
  /\ revision[s] < MaxRevision
  /\ interval' = [interval EXCEPT ![s] = i]
  /\ next' = [next EXCEPT ![s] = now + i]
  /\ revision' = [revision EXCEPT ![s] = @ + 1]
  /\ UNCHANGED <<now, enabled, runs, process, calls, tasks>>

ReviseQuery(s) ==
  /\ revision[s] < MaxRevision
  /\ revision' = [revision EXCEPT ![s] = @ + 1]
  /\ UNCHANGED <<now, enabled, interval, next, runs, process, calls, tasks>>

--------------------------------------------------------------------------------
(* run_due: recovering and claiming *)

StartWorker(w) ==
  /\ w \notin started
  /\ OneProcess => up = {}
  /\ up' = up \cup {w} /\ started' = started \cup {w}
  /\ UNCHANGED <<now, schedules, runs, calls, tasks>>

(* run_due reads the clock, then waits for the run lock. *)
RunDue(c) ==
  /\ Yielding(WorkerOf[c])
  /\ call[c] = "new"
  /\ call' = [call EXCEPT ![c] = "waiting"]
  /\ instant' = [instant EXCEPT ![c] = now]
  /\ UNCHANGED <<now, schedules, runs, process, todo, snapshot, claims, tasks>>

(* Mutant: the run lock is not taken. *)
LockNeverTaken(w) == FALSE

LockTaken(w) == \E c \in Call : WorkerOf[c] = w /\ call[c] \in Holding

(* Mutant: the lease must be overdue by one. *)
ExpiredLate(c) == {o \in Occurrence : status[o] = "running" /\ lease[o] < instant[c]}

Expired(c) == {o \in Occurrence : status[o] = "running" /\ lease[o] <= instant[c]}

(* With the lock: recover_expired, then the list of schedules to offer. *)
AcquireLock(c) ==
  /\ Yielding(WorkerOf[c])
  /\ call[c] = "waiting"
  /\ ~LockTaken(WorkerOf[c])
  /\ call' = [call EXCEPT ![c] = "claiming"]
  /\ status' = [o \in Occurrence |-> IF o \in Expired(c) THEN "expired" ELSE status[o]]
  /\ todo' = [todo EXCEPT ![c] = Schedule]
  /\ snapshot' = [snapshot EXCEPT ![c] = revision]
  /\ UNCHANGED <<now, schedules, lease, recorded, process, instant, claims, tasks>>

(* claim_due's conditions *)
Due(s, at) == enabled[s] /\ next[s] <= at
(* Mutant: overlap_policy is ignored. *)
NeverBlocked(s) == FALSE

Blocked(s) == s \notin Allow /\ \E t \in Time : status[<<s, t>>] = "running"
Claimable(s, at) == Due(s, at) /\ ~Blocked(s) /\ status[<<s, next[s]>>] = "none"

(* Mutant: the last missed slot is not skipped. *)
MissedShort(s, at) == (at - next[s]) \div interval[s] - 1

(* The slots missed since the scheduled one are coalesced into this run. *)
Missed(s, at) == (at - next[s]) \div interval[s]

Highest(s, S) == s \in S /\ \A u \in S : Priority[u] <= Priority[s]

Claim(c, s) ==
  /\ call[c] = "claiming"
  /\ Cardinality(claims[c]) < Limit /\ Highest(s, todo[c])
  /\ Claimable(s, instant[c])
  /\ LET o == <<s, next[s]>> IN
       /\ status' = [status EXCEPT ![o] = "running"]
       /\ lease' = [lease EXCEPT ![o] = instant[c] + LeaseTime]
       /\ recorded' = [recorded EXCEPT ![o] = revision[s]]
       /\ claims' = [claims EXCEPT ![c] = @ \cup {o}]
       /\ dispatch' = [dispatch EXCEPT ![o] = "claimed"]
  /\ next' = [next EXCEPT ![s] = @ + (Missed(s, instant[c]) + 1) * interval[s]]
  /\ todo' = [todo EXCEPT ![c] = @ \ {s}]
  /\ UNCHANGED <<now, enabled, interval, revision, process, call, instant, snapshot,
                 beat, executed>>

(* claim_due returns None. *)
Decline(c, s) ==
  /\ call[c] = "claiming"
  /\ Cardinality(claims[c]) < Limit /\ Highest(s, todo[c])
  /\ ~Claimable(s, instant[c])
  /\ todo' = [todo EXCEPT ![c] = @ \ {s}]
  /\ UNCHANGED <<now, schedules, runs, process, call, instant, snapshot, claims, tasks>>

(* Every claim gets an asyncio task, which waits for the call's semaphore. *)
Dispatch(c) ==
  /\ call[c] = "claiming"
  /\ todo[c] = {} \/ Cardinality(claims[c]) >= Limit
  /\ call' = [call EXCEPT ![c] = "gathering"]
  /\ dispatch' = [o \in Occurrence |-> IF o \in claims[c] THEN "queued" ELSE dispatch[o]]
  /\ UNCHANGED <<now, schedules, runs, process, instant, todo, snapshot, claims, beat,
                 executed>>

--------------------------------------------------------------------------------
(* _execute_claim, in the semaphore *)

(* Mutants: one dispatch too many may enter; one too few. *)
EnterSemaphoreLoosely(c, o) ==
  /\ Yielding(WorkerOf[c])
  /\ o \in claims[c] /\ dispatch[o] = "queued"
  /\ Cardinality(Executing(c)) <= MaxConcurrency
EnterSemaphoreTightly(c, o) ==
  /\ Yielding(WorkerOf[c])
  /\ o \in claims[c] /\ dispatch[o] = "queued"
  /\ Cardinality(Executing(c)) < MaxConcurrency - 1

EnterSemaphore(c, o) ==
  /\ Yielding(WorkerOf[c])
  /\ o \in claims[c] /\ dispatch[o] = "queued"
  /\ Cardinality(Executing(c)) < MaxConcurrency

(* The mission is active: an investigation is created and executed, and the *)
(* lease renewed from now on.                                               *)
StartExecution(c, o) ==
  /\ EnterSemaphore(c, o)
  /\ dispatch' = [dispatch EXCEPT ![o] = "executing"]
  /\ beat' = [beat EXCEPT ![o] = now + HeartbeatDelay]
  /\ executed' = [executed EXCEPT ![o] = @ + 1]
  /\ UNCHANGED <<now, schedules, runs, process, calls>>

(* Mutants: finish does not look at the status; a run it cannot finish is queued *)
(* again.                                                                        *)
FinishRunBlindly(o, s) ==
  /\ status' = [status EXCEPT ![o] = s]
  /\ dispatch' = [dispatch EXCEPT ![o] = "ok"]
FinishRunRetried(o, s) ==
  IF status[o] = "running"
    THEN /\ status' = [status EXCEPT ![o] = s]
         /\ dispatch' = [dispatch EXCEPT ![o] = "ok"]
    ELSE /\ dispatch' = [dispatch EXCEPT ![o] = "queued"]
         /\ UNCHANGED status

(* repository.finish, which raises ValueError for a run that is not running. *)
FinishRun(o, s) ==
  IF status[o] = "running"
    THEN /\ status' = [status EXCEPT ![o] = s]
         /\ dispatch' = [dispatch EXCEPT ![o] = "ok"]
    ELSE /\ dispatch' = [dispatch EXCEPT ![o] = "raised"]
         /\ UNCHANGED status

MissionNotActive(c, o) ==
  /\ EnterSemaphore(c, o)
  /\ FinishRun(o, "skipped")
  /\ UNCHANGED <<now, schedules, lease, recorded, process, calls, beat, executed>>

(* execute() returned or raised; the heartbeat is cancelled. *)
EndExecution(c, o) ==
  /\ Yielding(WorkerOf[c])
  /\ o \in Executing(c)
  /\ beat' = [beat EXCEPT ![o] = 0]
  /\ \E s \in {"completed", "failed"} : FinishRun(o, s)
  /\ UNCHANGED <<now, schedules, lease, recorded, process, calls, executed>>

(* _renew_lease; the heartbeat of a run that is not running any more dies. *)
Heartbeat(c, o) ==
  /\ Yielding(WorkerOf[c])
  /\ o \in Executing(c) /\ status[o] = "running" /\ beat[o] <= now
  /\ lease' = [lease EXCEPT ![o] = now + LeaseTime]
  /\ beat' = [beat EXCEPT ![o] = now + HeartbeatDelay]
  /\ UNCHANGED <<now, schedules, status, recorded, process, calls, dispatch, executed>>

--------------------------------------------------------------------------------
(* run_due: gathering *)

Claimed(c, state) == {o \in claims[c] : dispatch[o] = state}
AllFinished(c)    == \A o \in claims[c] : dispatch[o] \in Finished
End(c, how)       == call' = [call EXCEPT ![c] = how]

GatherReturns(c) ==
  /\ Yielding(WorkerOf[c])
  /\ call[c] = "gathering"
  /\ \A o \in claims[c] : dispatch[o] = "ok"
  /\ End(c, "returned")
  /\ UNCHANGED <<now, schedules, runs, process, instant, todo, snapshot, claims, tasks>>

(* The first exception leaves run_due, which releases the lock; the other *)
(* dispatches of the call go on.                                          *)
GatherRaises(c) ==
  /\ Yielding(WorkerOf[c])
  /\ call[c] \in {"gathering", "cancelling"}
  /\ Claimed(c, "raised") # {}
  /\ End(c, "raised")
  /\ UNCHANGED <<now, schedules, runs, process, instant, todo, snapshot, claims, tasks>>

(* The caller of run_due is cancelled while it waits for the lock ... *)
CancelWaiting(c) ==
  /\ Yielding(WorkerOf[c])
  /\ call[c] = "waiting"
  /\ End(c, "cancelled")
  /\ UNCHANGED <<now, schedules, runs, process, instant, todo, snapshot, claims, tasks>>

(* ... or for its dispatches: gather cancels them, those that have not entered *)
(* the semaphore end at once, and the first cancelled one ends the gather.     *)
CancelGathering(c) ==
  /\ Yielding(WorkerOf[c])
  /\ call[c] = "gathering"
  /\ Claimed(c, "raised") = {} /\ ~AllFinished(c)
  /\ End(c, IF Claimed(c, "queued") # {} THEN "aborting" ELSE "cancelling")
  /\ dispatch' = [o \in Occurrence |->
                    IF o \in Claimed(c, "queued") THEN "cancelled" ELSE dispatch[o]]
  /\ UNCHANGED <<now, schedules, runs, process, instant, todo, snapshot, claims, beat,
                 executed>>

(* An executing dispatch catches the cancellation, finishes its run as failed *)
(* and ends cancelled; if a second cancellation (the except branch of run_due *)
(* sends one) interrupts it while it joins the heartbeat, it does not finish. *)
CancelExecution(c, o) ==
  /\ Yielding(WorkerOf[c])
  /\ call[c] \in {"cancelling", "aborting"} /\ o \in Executing(c)
  /\ \/ /\ status[o] = "running"
        /\ status' = [status EXCEPT ![o] = "failed"]
     \/ /\ call[c] = "aborting"
        /\ UNCHANGED status
  /\ dispatch' = [dispatch EXCEPT ![o] = "cancelled"]
  /\ beat' = [beat EXCEPT ![o] = 0]
  /\ End(c, "aborting")
  /\ UNCHANGED <<now, schedules, lease, recorded, process, instant, todo, snapshot,
                 claims, executed>>

(* gather also reports the cancellation when all dispatches end by themselves. *)
GatherCancelled(c) ==
  /\ Yielding(WorkerOf[c])
  /\ call[c] = "cancelling"
  /\ \A o \in claims[c] : dispatch[o] = "ok"
  /\ End(c, "aborting")
  /\ UNCHANGED <<now, schedules, runs, process, instant, todo, snapshot, claims, tasks>>

(* Mutant: the claims that never ran are forgotten. *)
FinalizeNothing(c) ==
  /\ Yielding(WorkerOf[c])
  /\ call[c] = "aborting" /\ AllFinished(c)
  /\ End(c, "cancelled")
  /\ UNCHANGED <<now, schedules, runs, process, instant, todo, snapshot, claims, tasks>>

(* When every dispatch has ended, the claims that are still running are *)
(* finished and the CancelledError is raised.                           *)
FinalizeClaims(c) ==
  /\ Yielding(WorkerOf[c])
  /\ call[c] = "aborting" /\ AllFinished(c)
  /\ status' = [o \in Occurrence |->
                  IF o \in claims[c] /\ status[o] = "running" THEN "failed" ELSE status[o]]
  /\ End(c, "cancelled")
  /\ UNCHANGED <<now, schedules, lease, recorded, process, instant, todo, snapshot,
                 claims, tasks>>

--------------------------------------------------------------------------------
(* The environment *)

Crash(w) ==
  /\ w \in up \cap MayCrash
  /\ up' = up \ {w}
  /\ call' = [c \in Call |-> IF WorkerOf[c] = w /\ call[c] \notin Ended
                               THEN "dead" ELSE call[c]]
  /\ dispatch' = [o \in Occurrence |->
                    IF /\ dispatch[o] \in {"claimed", "queued", "executing"}
                       /\ \E c \in Call : WorkerOf[c] = w /\ o \in claims[c]
                      THEN "lost" ELSE dispatch[o]]
  /\ UNCHANGED <<now, schedules, runs, started, instant, todo, snapshot, claims, beat,
                 executed>>

(* The clock overtakes no heartbeat that is due and no step of run_due or of a *)
(* dispatch that need not wait for the lock, the semaphore or an execution.    *)
EventLoopsKeepUp ==
  \A c \in Call :
    /\ call[c] # "claiming"
    /\ call[c] = "waiting" => LockTaken(WorkerOf[c])
    /\ call[c] \in {"gathering", "cancelling", "aborting"} => ~AllFinished(c)
    /\ call[c] \in {"gathering", "cancelling"} => Claimed(c, "raised") = {}
    /\ \A o \in claims[c] : ~EnterSemaphore(c, o)
    /\ \A o \in Executing(c) : status[o] = "running" => now < beat[o]

Tick ==
  /\ now < MaxTime
  /\ Punctual => EventLoopsKeepUp
  /\ now' = now + 1
  /\ UNCHANGED <<schedules, runs, process, calls, tasks>>

--------------------------------------------------------------------------------
Init ==
  /\ now = 0
  /\ enabled = [s \in Schedule |-> TRUE]
  /\ interval \in [Schedule -> Intervals]
  /\ revision = [s \in Schedule |-> 1]
  /\ next = FirstRun
  /\ status = [o \in Occurrence |-> "none"]
  /\ lease = [o \in Occurrence |-> 0] /\ recorded = [o \in Occurrence |-> 0]
  /\ up = {} /\ started = {}
  /\ call = [c \in Call |-> "new"]
  /\ instant = [c \in Call |-> 0]
  /\ todo = [c \in Call |-> {}]
  /\ snapshot = [c \in Call |-> [s \in Schedule |-> 0]]
  /\ claims = [c \in Call |-> {}]
  /\ dispatch = [o \in Occurrence |-> "none"]
  /\ beat = [o \in Occurrence |-> 0]
  /\ executed = [o \in Occurrence |-> 0]

Edit == \E s \in Schedule :
  SetEnabled(s) \/ ReviseQuery(s) \/ \E i \in Intervals : ReviseInterval(s, i)

Claiming(c) ==
  \/ AcquireLock(c) \/ Dispatch(c)
  \/ \E s \in Schedule : Claim(c, s) \/ Decline(c, s)

Executions(c) == \E o \in Occurrence :
  StartExecution(c, o) \/ MissionNotActive(c, o) \/ EndExecution(c, o)

Gathering(c) ==
  \/ GatherReturns(c) \/ GatherRaises(c) \/ GatherCancelled(c) \/ FinalizeClaims(c)
  \/ \E o \in Occurrence : CancelExecution(c, o)

Cancel(c) == CancelWaiting(c) \/ CancelGathering(c)

Next ==
  \/ Edit \/ Tick
  \/ \E w \in Worker : StartWorker(w) \/ Crash(w)
  \/ \E c \in Call :
       \/ RunDue(c) \/ Claiming(c) \/ Executions(c) \/ Gathering(c) \/ Cancel(c)
       \/ \E o \in Occurrence : Heartbeat(c, o)

(* The event loop of a process that is up keeps running what is runnable, and *)
(* executions end.                                                            *)
Fairness == \A c \in Call :
  WF_vars(Claiming(c)) /\ WF_vars(Executions(c)) /\ WF_vars(Gathering(c))

Spec == Init /\ [][Next]_vars
FairSpec == Spec /\ Fairness
================================================================================
