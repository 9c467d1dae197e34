--------------------------- MODULE BacktestQueue ---------------------------
(***************************************************************************)
(* The queue of backtests: the table backtest_jobs, the handler of POST    *)
(* /backtests that adds to it, and the loop of the worker that drains it.  *)
(* A claim is a transaction of two steps, the locking read and the commit; *)
(* FOR UPDATE SKIP LOCKED hides a locked row from the reads of others.     *)
(***************************************************************************)
EXTENDS Naturals

CONSTANTS
  Jobs,       \* ids of table rows
  Workers,    \* worker processes, each with one backtest loop
  NoJob,      \* no row
  MaxCrashes  \* bound: worker crashes in a behaviour

ASSUME JobsAssumption    == NoJob \notin Jobs
ASSUME CrashesAssumption == MaxCrashes \in Nat

VARIABLES
  status,   \* backtest_jobs.status, by row
  older,    \* <<i, j>>: row i was created before row j
  result,   \* rows with a result
  locked,   \* the row a worker's open transaction has locked
  held,     \* the job a worker has claimed
  pc,       \* where each worker is
  claims,   \* history: how often a job was claimed
  crashes   \* crashes so far

vars == <<status, older, result, locked, held, pc, claims, crashes>>

Rows == {j \in Jobs : status[j] # "absent"}

TypeOK ==
  /\ status \in [Jobs -> {"absent", "queued", "running", "completed", "failed"}]
  /\ older \subseteq Jobs \X Jobs
  /\ result \subseteq Jobs
  /\ locked \in [Workers -> Jobs \cup {NoJob}]
  /\ held \in [Workers -> Jobs \cup {NoJob}]
  /\ pc \in [Workers -> {"idle", "locked", "run", "complete", "fail", "down"}]
  /\ claims \in [Jobs -> Nat]
  /\ crashes \in Nat

Init ==
  /\ status = [j \in Jobs |-> "absent"]
  /\ older = {} /\ result = {}
  /\ locked = [w \in Workers |-> NoJob]
  /\ held = [w \in Workers |-> NoJob]
  /\ pc = [w \in Workers |-> "down"]
  /\ claims = [j \in Jobs |-> 0]
  /\ crashes = 0

Goto(w, l) == pc' = [pc EXCEPT ![w] = l]

-----------------------------------------------------------------------------
(* create_backtest_job                                                     *)
Create(j) ==
  /\ status[j] = "absent"
  /\ status' = [status EXCEPT ![j] = "queued"]
  /\ older' = older \cup {<<i, j>> : i \in Rows}
  /\ UNCHANGED <<result, locked, held, pc, claims, crashes>>

Start(w) ==
  /\ pc[w] = "down"
  /\ Goto(w, "idle")
  /\ UNCHANGED <<status, older, result, locked, held, claims, crashes>>

SeesAllQueued == {j \in Jobs : status[j] = "queued"}  \* mutant

(* The queued rows a locking read does not skip.                           *)
Claimable ==
  {j \in Jobs : status[j] = "queued" /\ \A w \in Workers : locked[w] # j}

LockOldest(w) ==
  /\ pc[w] = "idle"
  /\ \E j \in Claimable :
       /\ \A i \in Claimable : <<i, j>> \notin older
       /\ locked' = [locked EXCEPT ![w] = j]
  /\ Goto(w, "locked")
  /\ UNCHANGED <<status, older, result, held, claims, crashes>>

Claim(w) ==
  /\ pc[w] = "locked"
  /\ status' = [status EXCEPT ![locked[w]] = "running"]
  /\ claims' = [claims EXCEPT ![locked[w]] = @ + 1]
  /\ held' = [held EXCEPT ![w] = locked[w]]
  /\ locked' = [locked EXCEPT ![w] = NoJob]
  /\ Goto(w, "run")
  /\ UNCHANGED <<older, result, crashes>>

(* The reads and the engine return a report, or something raises.          *)
RunEnds(w) ==
  /\ pc[w] = "run"
  /\ Goto(w, "complete") \/ Goto(w, "fail")
  /\ UNCHANGED <<status, older, result, locked, held, claims, crashes>>

(* complete_backtest_job; the next process_once starts with a new session. *)
Complete(w) ==
  /\ pc[w] = "complete"
  /\ status' = [status EXCEPT ![held[w]] = "completed"]
  /\ result' = result \cup {held[w]}
  /\ held' = [held EXCEPT ![w] = NoJob]
  /\ Goto(w, "idle")
  /\ UNCHANGED <<older, locked, claims, crashes>>

Requeue(w) ==  \* mutant: a failed job is queued again
  /\ pc[w] = "fail"
  /\ status' = [status EXCEPT ![held[w]] = "queued"]
  /\ held' = [held EXCEPT ![w] = NoJob]
  /\ Goto(w, "idle")
  /\ UNCHANGED <<older, result, locked, claims, crashes>>

FailsAsError(w) ==  \* mutant: a status that no reader knows
  /\ pc[w] = "fail"
  /\ status' = [status EXCEPT ![held[w]] = "error"]
  /\ held' = [held EXCEPT ![w] = NoJob]
  /\ Goto(w, "idle")
  /\ UNCHANGED <<older, result, locked, claims, crashes>>

(* fail_backtest_job                                                       *)
FailJob(w) ==
  /\ pc[w] = "fail"
  /\ status' = [status EXCEPT ![held[w]] = "failed"]
  /\ held' = [held EXCEPT ![w] = NoJob]
  /\ Goto(w, "idle")
  /\ UNCHANGED <<older, result, locked, claims, crashes>>

KeepsLock(w) ==  \* mutant: the claim outlives the process that made it
  /\ pc[w] # "down" /\ crashes < MaxCrashes
  /\ crashes' = crashes + 1
  /\ held' = [held EXCEPT ![w] = NoJob]
  /\ Goto(w, "down")
  /\ UNCHANGED <<status, older, result, locked, claims>>

(* The process stops: killed, or by an exception that process_once does    *)
(* not catch (in the claim, or in the handler that would record a failure),*)
(* which gather passes on.  Open transactions are rolled back.             *)
Crash(w) ==
  /\ pc[w] # "down" /\ crashes < MaxCrashes
  /\ crashes' = crashes + 1
  /\ locked' = [locked EXCEPT ![w] = NoJob]
  /\ held' = [held EXCEPT ![w] = NoJob]
  /\ Goto(w, "down")
  /\ UNCHANGED <<status, older, result, claims>>

-----------------------------------------------------------------------------
Step(w) ==
  \/ Start(w) \/ LockOldest(w) \/ Claim(w) \/ RunEnds(w) \/ Complete(w)
  \/ FailJob(w)

Next ==
  \/ \E j \in Jobs : Create(j)
  \/ \E w \in Workers : Step(w) \/ Crash(w)

Spec == Init /\ [][Next]_vars

(* The loop runs, and the container is restarted when it stops.            *)
FairSpec == Spec /\ \A w \in Workers : WF_vars(Step(w))

-----------------------------------------------------------------------------
(* Properties.                                                             *)

(* No backtest runs twice: whatever workers claim at the same time, a row  *)
(* is claimed once, and what a worker holds is running and its alone.      *)
ClaimedOnce ==
  /\ \A j \in Jobs : claims[j] <= 1
  /\ \A w \in Workers : held[w] # NoJob =>
       /\ status[held[w]] = "running"
       /\ \A v \in Workers \ {w} : held[v] # held[w]

(* A queued backtest is taken up, though workers crash on other jobs and   *)
(* with its row locked.                                                    *)
QueuedAreTaken == \A j \in Jobs : status[j] = "queued" ~> status[j] # "queued"

(* A backtest that was queued ends: the poll of its submitter is answered  *)
(* with a report or with a failure.                                        *)
EveryJobEnds ==
  \A j \in Jobs : status[j] = "queued" ~> status[j] \in {"completed", "failed"}
=============================================================================
