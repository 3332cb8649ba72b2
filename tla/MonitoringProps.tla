---------------------------- MODULE MonitoringProps ----------------------------
(* What the monitoring scheduler promises. *)
EXTENDS MonitoringScheduler

(* next_run_at is later than every slot ever claimed, so that claim_due never *)
(* finds the run of a due slot in the way, whatever edits and stale clock     *)
(* readings come between: a schedule cannot get stuck.                        *)
NextIsFresh ==
  \A s \in Schedule : \A t \in Time : status[<<s, t>>] # "none" => t < next[s]

(* Without overlap_policy="allow" a schedule has one running run at most, in  *)
(* the repository (claim_due's guard, in one transaction with its insert).    *)
OneRunningRun ==
  \A s \in Schedule \ Allow : \A t, u \in Time :
    status[<<s, t>>] = "running" /\ status[<<s, u>>] = "running" => t = u

(* "Expired runs are never silently replayed": an occurrence is executed once *)
(* at most and belongs to one call, across crashes, recoveries and restarts.  *)
NeverReplayed ==
  /\ \A o \in Occurrence : executed[o] <= 1
  /\ \A c, d \in Call : c # d => claims[c] \cap claims[d] = {}

(* A run that was settled - by its worker, by a recovery or by a cancelled    *)
(* scheduler - keeps that outcome: a late finish does not overwrite it.       *)
SettledIsFinal ==
  [][\A o \in Occurrence : status[o] \in Settled => status'[o] = status[o]]_vars

(* Acquisitions of one schedule do not overlap in time.                       *)
NoOverlap ==
  \A s \in Schedule \ Allow :
    \A c, d \in Call : \A o \in Executing(c) : \A p \in Executing(d) :
      o[1] = s /\ p[1] = s => o = p

(* A process executes at most MaxConcurrency occurrences, over all its calls. *)
ConcurrencyBound ==
  \A w \in Worker :
    Cardinality(UNION {Executing(c) : c \in {d \in Call : WorkerOf[d] = w}})
      <= MaxConcurrency

(* The run of an occurrence that is being executed is still running in the    *)
(* repository: nobody has given it up while its worker renews the lease.      *)
LeaseHeld == \A c \in Call : \A o \in Executing(c) : status[o] = "running"

(* run_due, however it ends, strands none of its claims as running; after a   *)
(* crash it may, until the lease is recovered.                                *)
NothingStranded ==
  \A c \in Call : call[c] \in Ended \ {"dead"} =>
    \A o \in claims[c] : status[o] # "running"

(* A claim lost in a crash blocks its schedule no longer than its lease: the  *)
(* next call that takes the lock, of whatever process, gives it up if it has  *)
(* read the clock at the end of the lease or later, so that the schedule can  *)
(* be claimed again.                                                          *)
LostClaimsExpire ==
  [][\A c \in Call : call[c] \notin Holding /\ call'[c] \in Holding =>
       \A o \in Occurrence :
         dispatch[o] = "lost" /\ lease[o] <= instant[c] => status'[o] # "running"]_vars

(* Every claim is settled eventually, if its process does not crash. *)
ClaimsSettle ==
  \A c \in Call : (call[c] = "claiming") ~>
    (call[c] \in Ended /\ \A o \in claims[c] : status[o] \in Settled)

--------------------------------------------------------------------------------
(* The inductive invariant behind the properties that only hold while no two *)
(* processes share the repository (OneProcess).                               *)

(* One process is up, and one call of it holds the run lock.                  *)
OneHolder ==
  /\ \A w, v \in up : w = v
  /\ \A c \in Call : call[c] \in Holding \cup {"waiting"} => WorkerOf[c] \in up
  /\ \A c, d \in Call : call[c] \in Holding /\ call[d] \in Holding => c = d

(* A dispatch that has not ended belongs to that call and its run is running; *)
(* so none fails to finish its run, and run_due leaves only when the runs of  *)
(* all its claims are settled.                                                *)
HeldClaims == \A c \in Call : \A o \in claims[c] :
  /\ dispatch[o] \notin {"none", "raised"}
  /\ dispatch[o] \in {"claimed", "queued", "executing"} =>
       call[c] \in Holding /\ status[o] = "running"
  /\ dispatch[o] = "ok" => status[o] # "running"
  /\ call[c] \in Ended \ {"dead"} => status[o] # "running"

(* The semaphore of a call. *)
SemaphoreHeld == \A c \in Call : Cardinality(Executing(c)) <= MaxConcurrency

--------------------------------------------------------------------------------
(* A statement of the repository that the code does not satisfy. *)

(* API_REFERENCE.md: "Each monitoring run records `schedule_revision`,        *)
(* linking it to the immutable schedule definition that caused the            *)
(* acquisition."  The acquisition follows the definition in the list that the *)
(* call read, snapshot.                                                       *)
RunUsesItsRevision ==
  \A c \in Call : \A o \in Executing(c) : recorded[o] = snapshot[c][o[1]]
================================================================================
