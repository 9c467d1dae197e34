-------------------------- MODULE SyncQueueProofs --------------------------
(***************************************************************************)
(* Theorems about SyncQueue for every value of its constants.              *)
(***************************************************************************)
EXTENDS SyncQueue, TLAPS

USE DEF Processes, Active, Terminal, Asking, Refreshing

-----------------------------------------------------------------------------
(* Type correctness.                                                       *)

LEMMA KeySets ==
  /\ MarketKeys \subseteq Keys
  /\ \A s \in Symbols : SymbolKeys(s) \subseteq Keys /\ SymbolKey(s) \in Keys
  BY DEF Keys, SymbolKeys

LEMMA TypeInit == Init => TypeOK
<1> SUFFICES ASSUME Init PROVE TypeOK
  OBVIOUS
<1>1. /\ status \in [JobIds -> Active \cup Terminal \cup {"absent"}]
      /\ key \in [JobIds -> Keys \cup {NoKey}]
      /\ attempts \in [JobIds -> Nat]
      /\ overdue \in [JobIds -> BOOLEAN]
      /\ older \subseteq JobIds \X JobIds
  BY DEF Init
<1>2. /\ tracked \subseteq Symbols /\ marketStored \in BOOLEAN
      /\ day \in Nat /\ passed \subseteq Stamps /\ ledger \subseteq Nat \X Stamps
      /\ faults \in Nat /\ owed \subseteq Keys
  BY DEF Init
<1>3. pc \in [Processes -> Asking \cup {"idle", "error", "down", "tick",
               "ensure", "daily", "claim", "run", "finish", "fail"}]
  BY DEF Init
<1>4. /\ todo \in [Processes -> SUBSET Keys]
      /\ conflict \in [Processes -> Keys \cup {NoKey}]
      /\ periods \in [Processes -> SUBSET (Nat \X Stamps)]
  BY DEF Init
<1>5. held \in [Processes -> [job : JobIds \cup {NoJob}, attempts : Nat]]
  BY DEF Init, Unheld
<1> QED
  BY <1>1, <1>2, <1>3, <1>4, <1>5 DEF TypeOK

LEMMA ForgetType ==
  ASSUME TypeOK, NEW p \in Processes, Forget(p, "idle") \/ Forget(p, "error")
                   \/ Forget(p, "tick") \/ Forget(p, "down")
  PROVE  /\ pc' \in [Processes -> Asking \cup {"idle", "error", "down", "tick",
                       "ensure", "daily", "claim", "run", "finish", "fail"}]
         /\ todo' \in [Processes -> SUBSET Keys]
         /\ conflict' \in [Processes -> Keys \cup {NoKey}]
         /\ held' \in [Processes -> [job : JobIds \cup {NoJob}, attempts : Nat]]
         /\ periods' \in [Processes -> SUBSET (Nat \X Stamps)]
  BY DEF TypeOK, Forget, Goto, Unheld

LEMMA ReleaseType ==
  ASSUME TypeOK, NEW w \in Workers, NEW s \in Active \cup Terminal \cup {"absent"},
         Release(w, s)
  PROVE  /\ status' \in [JobIds -> Active \cup Terminal \cup {"absent"}]
         /\ key' \in [JobIds -> Keys \cup {NoKey}]
         /\ attempts' \in [JobIds -> Nat]
         /\ overdue' \in [JobIds -> BOOLEAN]
         /\ older' \subseteq JobIds \X JobIds
  BY DEF TypeOK, Release

LEMMA EnqueuesType ==
  ASSUME TypeOK, NEW p \in Processes, Enqueues(p)
  PROVE  TypeOK'
<1>1. CASE Enqueue(p)
  <2>1. PICK k \in todo[p] :
          /\ InsertJob(p, k) \/ InsertConflicts(p, k)
          /\ owed' = IF pc[p] \in Refreshing THEN owed \cup {k} ELSE owed
    BY <1>1 DEF Enqueue
  <2>2. k \in Keys
    BY <2>1 DEF TypeOK
  <2>3. /\ status' \in [JobIds -> Active \cup Terminal \cup {"absent"}]
        /\ key' \in [JobIds -> Keys \cup {NoKey}]
        /\ attempts' \in [JobIds -> Nat]
        /\ overdue' \in [JobIds -> BOOLEAN]
        /\ older' \subseteq JobIds \X JobIds
        /\ todo' \in [Processes -> SUBSET Keys]
        /\ conflict' \in [Processes -> Keys \cup {NoKey}]
    BY <2>1, <2>2 DEF TypeOK, InsertJob, InsertConflicts, tableVars, Rows
  <2> QED
    BY <1>1, <2>1, <2>2, <2>3 DEF TypeOK, Enqueue, dataVars, clockVars
<1>2. CASE ReadExisting(p)
  BY <1>2 DEF TypeOK, ReadExisting, tableVars, dataVars, clockVars
<1>3. CASE ExistingGone(p)
  BY <1>3, ForgetType DEF TypeOK, ExistingGone, tableVars, dataVars, clockVars
<1> QED
  BY <1>1, <1>2, <1>3 DEF Enqueues

LEMMA RequesterType ==
  ASSUME TypeOK, NEW r \in Requesters, RequesterStep(r)
  PROVE  TypeOK'
<1>1. CASE Request(r)
  <2>1. todo' \in [Processes -> SUBSET Keys]
    BY <1>1, KeySets DEF TypeOK, Request
  <2> QED
    BY <1>1, <2>1
    DEF TypeOK, Request, Goto, tableVars, dataVars, clockVars
<1>2. CASE Respond(r)
  BY <1>2 DEF TypeOK, Respond, Goto, tableVars, dataVars, clockVars
<1>3. CASE Abandon(r)
  BY <1>3, ForgetType DEF TypeOK, Abandon, tableVars, dataVars, clockVars
<1> QED
  BY <1>1, <1>2, <1>3, EnqueuesType DEF RequesterStep

LEMMA StoresType ==
  ASSUME TypeOK, NEW k, Stores(k)
  PROVE  tracked' \subseteq Symbols /\ marketStored' \in BOOLEAN
  BY DEF TypeOK, Stores

LEMMA InterruptType ==
  ASSUME TypeOK, NEW w \in Workers, NEW l \in {"tick", "down"}, Interrupt(w, l)
  PROVE  TypeOK'
<1>1. tracked' \subseteq Symbols /\ marketStored' \in BOOLEAN
  BY StoresType DEF TypeOK, Interrupt, dataVars
<1>2. /\ status' \in [JobIds -> Active \cup Terminal \cup {"absent"}]
      /\ key' \in [JobIds -> Keys \cup {NoKey}]
      /\ attempts' \in [JobIds -> Nat]
      /\ overdue' \in [JobIds -> BOOLEAN]
      /\ older' \subseteq JobIds \X JobIds
  <2>1. CASE held[w].job = NoJob
    BY <2>1 DEF TypeOK, Interrupt, tableVars
  <2>2. CASE held[w].job # NoJob
    <3>1. held[w].job \in JobIds
      BY <2>2 DEF TypeOK
    <3>2. Release(w, status[held[w].job])
      BY <2>2 DEF Interrupt
    <3> QED
      BY <3>1, <3>2, ReleaseType DEF TypeOK
  <2> QED
    BY <2>1, <2>2
<1> QED
  BY <1>1, <1>2, ForgetType DEF TypeOK, Interrupt, clockVars

LEMMA WorkerType ==
  ASSUME TypeOK, NEW w \in Workers, WorkerStep(w)
  PROVE  TypeOK'
<1> USE DEF Goto, tableVars, dataVars, clockVars
<1>1. CASE Start(w)
  BY <1>1 DEF TypeOK, Start
<1>2. CASE RequeueStale(w)
  BY <1>2 DEF TypeOK, RequeueStale, Recovered
<1>3. CASE EnsureMarketSnapshots(w)
  BY <1>3, KeySets DEF TypeOK, EnsureMarketSnapshots
<1>4. CASE SnapshotsEnsured(w)
  BY <1>4 DEF TypeOK, SnapshotsEnsured
<1>5. CASE DailyRefresh(w)
  <2>1. DuePeriods \subseteq Nat \X Stamps
    BY DEF DuePeriods, TypeOK
  <2> QED
    BY <1>5, <2>1, KeySets DEF TypeOK, DailyRefresh
<1>6. CASE ListTracked(w)
  <2>1. UNION {SymbolKeys(s) : s \in tracked} \subseteq Keys
    BY KeySets DEF TypeOK
  <2> QED
    BY <1>6, <2>1 DEF TypeOK, ListTracked, TrackedKeys
<1>7. CASE RecordRefresh(w)
  BY <1>7 DEF TypeOK, RecordRefresh
<1>8. CASE ClaimNext(w)
  BY <1>8 DEF TypeOK, ClaimNext, Claimed
<1>9. CASE QueueEmpty(w)
  BY <1>9 DEF TypeOK, QueueEmpty
<1>10. CASE RunEnds(w)
  BY <1>10, StoresType DEF TypeOK, RunEnds
<1>11. CASE CompleteJob(w)
  BY <1>11, ReleaseType, ForgetType DEF TypeOK, CompleteJob
<1>12. CASE FailJob(w)
  <2>1. ASSUME held[w].job = NoJob
        PROVE  /\ status' = status /\ key' = key /\ attempts' = attempts
               /\ overdue' = overdue /\ older' \subseteq older
    BY <1>12, <2>1, JobIdsAssumption DEF TypeOK, FailJob, Release
  <2>2. ASSUME held[w].job \in JobIds
        PROVE  \E s \in Active \cup Terminal \cup {"absent"} : Release(w, s)
    BY <1>12, <2>2 DEF TypeOK, FailJob
  <2>3. held[w].job \in JobIds \cup {NoJob}
    BY DEF TypeOK
  <2> QED
    BY <1>12, <2>1, <2>2, <2>3, ReleaseType, ForgetType DEF TypeOK, FailJob
<1>13. CASE SessionBreaks(w)
  BY <1>13, InterruptType DEF SessionBreaks
<1>14. CASE Crash(w)
  BY <1>14, InterruptType DEF Crash
<1> QED
  BY <1>1, <1>2, <1>3, <1>4, <1>5, <1>6, <1>7, <1>8, <1>9, <1>10, <1>11,
     <1>12, <1>13, <1>14, EnqueuesType DEF WorkerStep, Tick

LEMMA ClockType ==
  ASSUME TypeOK, ClockStep
  PROVE  TypeOK'
<1> USE DEF tableVars, dataVars, clockVars, procVars
<1>1. CASE StampPasses
  BY <1>1 DEF TypeOK, StampPasses
<1>2. CASE Midnight
  BY <1>2 DEF TypeOK, Midnight
<1>3. ASSUME NEW j \in JobIds, GrowStale(j)
      PROVE  TypeOK'
  BY <1>3 DEF TypeOK, GrowStale
<1> QED
  BY <1>1, <1>2, <1>3 DEF ClockStep

LEMMA TypeNext == TypeOK /\ [Next]_vars => TypeOK'
<1>1. CASE UNCHANGED vars
  BY <1>1 DEF TypeOK, vars, tableVars, dataVars, clockVars, procVars
<1> QED
  BY <1>1, RequesterType, WorkerType, ClockType DEF Next

(* Every variable of the queue keeps its type.                             *)
THEOREM TypeCorrect == Spec => []TypeOK
  BY TypeInit, TypeNext, PTL DEF Spec

-----------------------------------------------------------------------------
(* At most one active row per key, for any number of workers.              *)

(* A step after which every active row was active before, under the same   *)
(* key, keeps the rows apart.                                              *)
LEMMA NoNewActive ==
  ASSUME OneActivePerKey,
         \A j \in JobIds : status'[j] \in Active =>
                             status[j] \in Active /\ key'[j] = key[j]
  PROVE  OneActivePerKey'
  BY DEF OneActivePerKey

LEMMA InsertUnique ==
  ASSUME TypeOK, OneActivePerKey, NEW p \in Processes, NEW k \in Keys,
         InsertJob(p, k)
  PROVE  OneActivePerKey'
<1>1. PICK j \in JobIds \ Rows : /\ status' = [status EXCEPT ![j] = "queued"]
                                 /\ key' = [key EXCEPT ![j] = k]
  BY DEF InsertJob
<1>2. \A i \in JobIds : status[i] \in Active => key[i] # k
  BY DEF InsertJob, ActiveJobs
<1>3. \A i \in JobIds \ {j} : status'[i] = status[i] /\ key'[i] = key[i]
  BY <1>1 DEF TypeOK
<1>4. key'[j] = k
  BY <1>1 DEF TypeOK
<1> QED
  BY <1>2, <1>3, <1>4 DEF OneActivePerKey

(* The status a holder writes is no threat when the row is active already, *)
(* is not made active, or the unique index lets it be.                     *)
LEMMA ReleaseUnique ==
  ASSUME TypeOK, OneActivePerKey, NEW w \in Workers, NEW s, Release(w, s),
         s \in Active => \/ status[held[w].job] \in Active
                         \/ IndexAllows(held[w].job)
  PROVE  OneActivePerKey'
<1> DEFINE h == held[w].job
<1>1. \A j \in JobIds \ {h} : status'[j] = status[j] /\ key'[j] = key[j]
  BY DEF Release, TypeOK
<1>2. CASE s \notin Active \/ status[h] \in Active \/ h \notin JobIds
  <2>1. h \in JobIds /\ status'[h] \in Active => s \in Active /\ key'[h] = key[h]
    BY DEF Release, TypeOK
  <2> QED
    BY <1>1, <1>2, <2>1, NoNewActive
<1>3. CASE s \in Active /\ h \in JobIds /\ IndexAllows(h)
  <2>1. key' = key
    BY <1>3 DEF Release, TypeOK
  <2>2. \A j \in JobIds \ {h} : status[j] \in Active => key[j] # key[h]
    BY <1>3 DEF IndexAllows, ActiveJobs
  <2> QED
    BY <1>1, <2>1, <2>2 DEF OneActivePerKey
<1> QED
  BY <1>2, <1>3

LEMMA InterruptUnique ==
  ASSUME TypeOK, OneActivePerKey, NEW w \in Workers, NEW l, Interrupt(w, l)
  PROVE  OneActivePerKey'
<1>1. CASE held[w].job = NoJob
  BY <1>1, NoNewActive DEF Interrupt, tableVars
<1>2. CASE held[w].job # NoJob
  BY <1>2, ReleaseUnique DEF Interrupt
<1> QED
  BY <1>1, <1>2

LEMMA UniqueNext ==
  ASSUME TypeOK, OneActivePerKey, [Next]_vars
  PROVE  OneActivePerKey'
<1> USE DEF tableVars
<1>1. ASSUME NEW p \in Processes, Enqueues(p)
      PROVE  OneActivePerKey'
  <2>1. CASE Enqueue(p)
    <3>1. PICK k \in todo[p] : InsertJob(p, k) \/ InsertConflicts(p, k)
      BY <2>1 DEF Enqueue
    <3>2. k \in Keys
      BY <3>1 DEF TypeOK
    <3> QED
      BY <3>1, <3>2, InsertUnique, NoNewActive DEF InsertConflicts
  <2>2. CASE ReadExisting(p) \/ ExistingGone(p)
    BY <2>2, NoNewActive DEF ReadExisting, ExistingGone
  <2> QED
    BY <1>1, <2>1, <2>2 DEF Enqueues
<1>2. ASSUME NEW r \in Requesters, Request(r) \/ Respond(r) \/ Abandon(r)
      PROVE  OneActivePerKey'
  BY <1>2, NoNewActive DEF Request, Respond, Abandon
<1>3. ASSUME NEW w \in Workers, Tick(w) \/ Start(w)
      PROVE  OneActivePerKey'
  <2>1. CASE Start(w) \/ EnsureMarketSnapshots(w) \/ SnapshotsEnsured(w)
             \/ DailyRefresh(w) \/ ListTracked(w) \/ RecordRefresh(w)
             \/ QueueEmpty(w) \/ RunEnds(w)
    BY <2>1, NoNewActive
    DEF Start, EnsureMarketSnapshots, SnapshotsEnsured, DailyRefresh,
        ListTracked, RecordRefresh, QueueEmpty, RunEnds
  <2>2. CASE RequeueStale(w)
    BY <2>2, NoNewActive DEF RequeueStale, Recovered
  <2>3. CASE ClaimNext(w)
    BY <2>3, NoNewActive DEF ClaimNext, Claimed, IsOldestQueued, TypeOK
  <2>4. CASE CompleteJob(w)
    BY <2>4, ReleaseUnique DEF CompleteJob
  <2>5. CASE FailJob(w)
    BY <2>5, ReleaseUnique DEF FailJob
  <2> QED
    BY <1>3, <2>1, <2>2, <2>3, <2>4, <2>5 DEF Tick
<1>4. ASSUME NEW w \in Workers, SessionBreaks(w) \/ Crash(w)
      PROVE  OneActivePerKey'
  BY <1>4, InterruptUnique DEF SessionBreaks, Crash
<1>5. CASE ClockStep
  BY <1>5, NoNewActive DEF ClockStep, StampPasses, Midnight, GrowStale
<1>6. CASE UNCHANGED vars
  BY <1>6, NoNewActive DEF vars
<1> QED
  BY <1>1, <1>2, <1>3, <1>4, <1>5, <1>6 DEF Next, RequesterStep, WorkerStep

(* However many workers and requests there are, a key never has two active *)
(* rows: neither a retry nor a recovery gets past the partial index.       *)
THEOREM Unique == Spec => []OneActivePerKey
<1>1. Init => OneActivePerKey
  BY DEF Init, OneActivePerKey
<1>2. TypeOK /\ OneActivePerKey /\ [Next]_vars => OneActivePerKey'
  BY UniqueNext
<1> QED
  BY <1>1, <1>2, TypeCorrect, PTL DEF Spec

-----------------------------------------------------------------------------
(* One worker: what the deployment relies on.                              *)

USE DEF Busy

(* Steps that leave the table, the jobs held and the debts alone.          *)
LEMMA SingleFrame ==
  ASSUME SingleWorkerInv,
         UNCHANGED <<status, key, attempts, faults, owed>>,
         \A r \in Requesters : pc'[r] \in {"idle", "error", "asking"},
         \A w \in Workers :
           /\ held'[w] = held[w]
           /\ held[w].job # NoJob <=> pc'[w] \in Busy
           /\ conflict'[w] # NoKey =>
                /\ conflict'[w] = conflict[w]
                /\ pc'[w] \in Asking /\ conflict[w] \in todo'[w]
  PROVE  SingleWorkerInv'
<1>1. HoldsWhileBusy' /\ AbsentIsBlank'
  BY DEF HoldsWhileBusy, AbsentIsBlank, SingleWorkerInv
<1>2. HeldIsRunning'
  BY DEF SingleWorkerInv, HeldIsRunning
<1>3. AttemptsBounded' /\ PendingHasAttempt'
  BY DEF SingleWorkerInv, AttemptsBounded, PendingHasAttempt
<1>4. OwedIsPending' /\ SchedulerReadsItsConflict'
  BY DEF SingleWorkerInv, OwedIsPending, SchedulerReadsItsConflict, ActiveJobs
<1> QED
  BY <1>1, <1>2, <1>3, <1>4 DEF SingleWorkerInv

LEMMA SingleInsert ==
  ASSUME \A v, w \in Workers : v = w,
         TypeOK, SingleWorkerInv, NEW p \in Processes, NEW k \in Keys,
         pc[p] \in Asking, conflict[p] = NoKey, InsertJob(p, k),
         owed' = IF pc[p] \in Refreshing THEN owed \cup {k} ELSE owed,
         UNCHANGED <<pc, held, faults>>
  PROVE  SingleWorkerInv'
<1>1. PICK j \in JobIds \ Rows : /\ status' = [status EXCEPT ![j] = "queued"]
                                 /\ key' = [key EXCEPT ![j] = k]
  BY DEF InsertJob
<1>2. status[j] = "absent" /\ attempts[j] = 0
  BY DEF Rows, SingleWorkerInv, AbsentIsBlank
<1>3. /\ \A i \in JobIds \ {j} : status'[i] = status[i] /\ key'[i] = key[i]
      /\ status'[j] = "queued" /\ key'[j] = k
      /\ attempts' = attempts /\ conflict' = conflict
      /\ \A q \in Processes \ {p} : todo'[q] = todo[q]
  BY <1>1 DEF TypeOK, InsertJob
<1>4. \A w \in Workers : held[w].job # j
  BY <1>2, JobIdsAssumption DEF SingleWorkerInv, HeldIsRunning
<1>5. HoldsWhileBusy' /\ AbsentIsBlank'
  BY <1>3 DEF SingleWorkerInv, HoldsWhileBusy, AbsentIsBlank
<1>6. HeldIsRunning'
  <2>1. \A w \in Workers : held[w].job \in JobIds \cup {NoJob}
    BY DEF TypeOK
  <2> QED
    BY <1>3, <1>4, <2>1 DEF SingleWorkerInv, HeldIsRunning
<1>7. AttemptsBounded' /\ PendingHasAttempt'
  <2>1. 0 < MaxAttempts + faults /\ attempts'[j] = 0
    BY <1>2, <1>3, MaxAttemptsAssumption DEF TypeOK
  <2> QED
    BY <1>3, <2>1 DEF SingleWorkerInv, AttemptsBounded, PendingHasAttempt
<1>8. \A l \in Keys : ActiveJobs(l) \subseteq ActiveJobs(l)'
  BY <1>2, <1>3 DEF ActiveJobs
<1>9. OwedIsPending'
  <2>1. j \in ActiveJobs(k)'
    BY <1>3 DEF ActiveJobs
  <2> QED
    BY <1>4, <1>8, <2>1 DEF SingleWorkerInv, OwedIsPending, TypeOK
<1>10. SchedulerReadsItsConflict'
  <2>1. \A w \in Workers : conflict[w] \in Keys \cup {NoKey}
    BY DEF TypeOK
  <2> QED
    BY <1>3, <1>8, <2>1 DEF SingleWorkerInv, SchedulerReadsItsConflict
<1> QED
  BY <1>5, <1>6, <1>7, <1>9, <1>10 DEF SingleWorkerInv

LEMMA SingleConflict ==
  ASSUME \A v, w \in Workers : v = w,
         TypeOK, SingleWorkerInv, NEW p \in Processes, NEW k \in Keys,
         pc[p] \in Asking, conflict[p] = NoKey, k \in todo[p],
         InsertConflicts(p, k),
         owed' = IF pc[p] \in Refreshing THEN owed \cup {k} ELSE owed,
         UNCHANGED <<pc, held, faults>>
  PROVE  SingleWorkerInv'
<1> USE DEF tableVars
<1>1. UNCHANGED <<status, key, attempts, todo, pc, held, faults>>
  BY DEF InsertConflicts
<1>2. conflict' = [conflict EXCEPT ![p] = k] /\ ActiveJobs(k) # {}
  BY DEF InsertConflicts
<1>3. HoldsWhileBusy' /\ AbsentIsBlank'
  BY <1>1, <1>2 DEF SingleWorkerInv, HoldsWhileBusy, AbsentIsBlank, TypeOK
<1>4. HeldIsRunning' /\ AttemptsBounded' /\ PendingHasAttempt'
  BY <1>1 DEF SingleWorkerInv, HeldIsRunning, AttemptsBounded,
              PendingHasAttempt
<1>5. \A l : ActiveJobs(l)' = ActiveJobs(l)
  BY <1>1 DEF ActiveJobs
<1>6. SchedulerReadsItsConflict'
  BY <1>2, <1>5 DEF SingleWorkerInv, SchedulerReadsItsConflict, TypeOK
<1>7. OwedIsPending'
  <2>1. CASE pc[p] \in Refreshing
    <3>1. p \in Workers
      BY <2>1 DEF SingleWorkerInv, HoldsWhileBusy
    <3>2. \A w \in Workers : held[w].job = NoJob
      BY <2>1, <3>1 DEF SingleWorkerInv, HoldsWhileBusy
    <3>3. PICK j \in ActiveJobs(k) : TRUE
      BY <1>2
    <3>4. \A w \in Workers : held'[w].job # j
      BY <1>1, <3>2, <3>3, JobIdsAssumption DEF ActiveJobs
    <3> QED
      BY <1>1, <1>5, <3>3, <3>4 DEF SingleWorkerInv, OwedIsPending
  <2>2. CASE pc[p] \notin Refreshing
    BY <1>1, <1>5, <2>2 DEF SingleWorkerInv, OwedIsPending
  <2> QED
    BY <2>1, <2>2
<1> QED
  BY <1>3, <1>4, <1>6, <1>7 DEF SingleWorkerInv

(* The worker lets go of its row: it ends, it is queued with an attempt    *)
(* left, or it stays running and a fault is counted.                       *)
LEMMA SingleRelease ==
  ASSUME \A v, w \in Workers : v = w,
         TypeOK, OneActivePerKey, SingleWorkerInv,
         NEW w \in Workers, held[w].job # NoJob,
         NEW s \in {"completed", "failed", "queued", "running"}, Release(w, s),
         NEW l \in {"tick", "down"}, Forget(w, l),
         s = "queued" => Retry(w),
         s = "running" => faults' = faults + 1,
         faults' \in {faults, faults + 1}, UNCHANGED owed
  PROVE  SingleWorkerInv'
<1> DEFINE j == held[w].job
<1>1. /\ j \in JobIds /\ status[j] = "running" /\ attempts[j] = held[w].attempts
      /\ \A v \in Workers : v = w
  BY DEF TypeOK, SingleWorkerInv, HeldIsRunning
<1>2. /\ \A i \in JobIds \ {j} : /\ status'[i] = status[i] /\ key'[i] = key[i]
                                 /\ attempts'[i] = attempts[i]
      /\ s \in Active => /\ status'[j] = s /\ key'[j] = key[j]
                         /\ attempts'[j] = attempts[j]
      /\ s \notin Active => status'[j] = "absent" /\ attempts'[j] = 0
  BY <1>1 DEF Release, TypeOK
<1>3. /\ held'[w] = Unheld /\ conflict'[w] = NoKey /\ pc'[w] = l
      /\ \A r \in Requesters : pc'[r] = pc[r]
  BY ProcessesAssumption DEF Forget, Goto, TypeOK
<1>4. HoldsWhileBusy' /\ AbsentIsBlank' /\ HeldIsRunning'
      /\ SchedulerReadsItsConflict'
  BY <1>1, <1>2, <1>3
  DEF SingleWorkerInv, HoldsWhileBusy, AbsentIsBlank, HeldIsRunning,
      SchedulerReadsItsConflict, Unheld
<1>5. AttemptsBounded' /\ PendingHasAttempt'
  <2>1. /\ faults \in Nat /\ MaxAttempts \in Nat
        /\ \A i \in JobIds : attempts[i] \in Nat
    BY MaxAttemptsAssumption DEF TypeOK
  <2>2. /\ \A i \in JobIds : attempts[i] <= MaxAttempts + faults
        /\ \A i \in JobIds \ {j} : status[i] \in Active =>
                                    attempts[i] < MaxAttempts + faults
    BY <1>1 DEF SingleWorkerInv, AttemptsBounded, PendingHasAttempt
  <2>3. \A i \in JobIds : attempts'[i] <= MaxAttempts + faults'
    BY <1>1, <1>2, <2>1, <2>2
  <2>4. \A i \in JobIds \ {j} : status'[i] \in Active =>
                                 attempts'[i] < MaxAttempts + faults'
    BY <1>2, <2>1, <2>2
  <2>5. s = "queued" => attempts[j] < MaxAttempts
    BY <1>1 DEF Retry
  <2>6. status'[j] \in Active => attempts'[j] < MaxAttempts + faults'
    <3>1. CASE s = "queued"
      BY <1>1, <1>2, <2>1, <2>5, <3>1
    <3>2. CASE s = "running"
      BY <1>1, <1>2, <2>1, <2>2, <3>2
    <3>3. CASE s \notin Active
      BY <1>2, <3>3
    <3> QED
      BY <3>1, <3>2, <3>3
  <2> QED
    BY <2>3, <2>4, <2>6 DEF AttemptsBounded, PendingHasAttempt
<1>6. OwedIsPending'
  <2>1. SUFFICES ASSUME NEW k \in owed
                 PROVE  \E i \in ActiveJobs(k)' : \A v \in Workers : held'[v].job # i
    BY DEF OwedIsPending
  <2>2. PICK i \in ActiveJobs(k) : \A v \in Workers : held[v].job # i
    BY DEF SingleWorkerInv, OwedIsPending
  <2>3. i \in ActiveJobs(k)'
    BY <1>2, <2>2 DEF ActiveJobs
  <2>4. \A v \in Workers : held'[v].job # i
    BY <1>1, <1>3, <2>2, JobIdsAssumption DEF ActiveJobs, Unheld
  <2> QED
    BY <2>3, <2>4
<1> QED
  BY <1>4, <1>5, <1>6 DEF SingleWorkerInv

LEMMA SingleFail ==
  ASSUME \A v, w \in Workers : v = w,
         TypeOK, OneActivePerKey, SingleWorkerInv, NEW w \in Workers, FailJob(w)
  PROVE  SingleWorkerInv'
<1>1. held[w].job # NoJob
  BY DEF FailJob, SingleWorkerInv, HoldsWhileBusy
<1>2. status[held[w].job] = "running" /\ held[w].job \in JobIds
  BY <1>1 DEF SingleWorkerInv, HeldIsRunning, TypeOK
<1>3. IndexAllows(held[w].job)
  BY <1>2 DEF IndexAllows, ActiveJobs, OneActivePerKey
<1>4. Release(w, IF Retry(w) THEN "queued" ELSE "failed")
  BY <1>3 DEF FailJob
<1>5. Forget(w, "tick") /\ UNCHANGED <<faults, owed>>
  BY DEF FailJob
<1>6. CASE Retry(w)
  BY <1>1, <1>4, <1>5, <1>6, SingleRelease
<1>7. CASE ~Retry(w)
  BY <1>1, <1>4, <1>5, <1>7, SingleRelease
<1> QED
  BY <1>6, <1>7

LEMMA SingleInterrupt ==
  ASSUME \A v, w \in Workers : v = w,
         TypeOK, OneActivePerKey, SingleWorkerInv, NEW w \in Workers,
         NEW l \in {"tick", "down"}, Interrupt(w, l)
  PROVE  SingleWorkerInv'
<1>1. Forget(w, l) /\ faults' = faults + 1 /\ UNCHANGED owed
  BY DEF Interrupt
<1>2. CASE held[w].job # NoJob
  <2>1. Release(w, "running")
    BY <1>2 DEF Interrupt, SingleWorkerInv, HeldIsRunning
  <2> QED
    BY <1>1, <1>2, <2>1, SingleRelease
<1>3. CASE held[w].job = NoJob
  <2>1. /\ UNCHANGED <<status, key, attempts>>
        /\ \A v \in Workers : /\ held'[v].job = NoJob /\ held[v].job = NoJob
                              /\ conflict'[v] = NoKey /\ pc'[v] = l
        /\ \A r \in Requesters : pc'[r] = pc[r]
    BY <1>1, <1>3, ProcessesAssumption
    DEF Interrupt, tableVars, Forget, Goto, TypeOK, Unheld
  <2>2. AttemptsBounded' /\ PendingHasAttempt'
    <3>1. /\ faults \in Nat /\ MaxAttempts \in Nat
          /\ \A i \in JobIds : attempts[i] \in Nat
      BY MaxAttemptsAssumption DEF TypeOK
    <3> QED
      BY <1>1, <2>1, <3>1
      DEF SingleWorkerInv, AttemptsBounded, PendingHasAttempt
  <2>3. /\ HoldsWhileBusy' /\ AbsentIsBlank' /\ HeldIsRunning'
        /\ SchedulerReadsItsConflict'
    BY <2>1 DEF SingleWorkerInv, HoldsWhileBusy, AbsentIsBlank, HeldIsRunning,
                SchedulerReadsItsConflict
  <2>4. OwedIsPending'
    BY <1>1, <2>1, JobIdsAssumption
    DEF SingleWorkerInv, OwedIsPending, ActiveJobs
  <2> QED
    BY <2>2, <2>3, <2>4 DEF SingleWorkerInv
<1> QED
  BY <1>2, <1>3

LEMMA SingleRequeue ==
  ASSUME \A v, w \in Workers : v = w,
         TypeOK, SingleWorkerInv, NEW w \in Workers, RequeueStale(w)
  PROVE  SingleWorkerInv'
<1>1. \A v \in Workers : v = w /\ held[v].job = NoJob
  BY DEF RequeueStale, Recovered, SingleWorkerInv, HoldsWhileBusy
<1>2. /\ \A j \in JobIds : \/ status'[j] = status[j]
                           \/ status[j] = "running" /\ status'[j] = "queued"
      /\ UNCHANGED <<key, attempts, conflict, held, faults, owed>>
      /\ pc'[w] = "ensure"
      /\ \A r \in Requesters : pc'[r] = pc[r]
  BY ProcessesAssumption DEF RequeueStale, Recovered, Goto, TypeOK
<1>3. \A k : ActiveJobs(k)' = ActiveJobs(k)
  BY <1>2 DEF ActiveJobs
<1>4. conflict[w] = NoKey
  BY DEF RequeueStale, Recovered, SingleWorkerInv, HoldsWhileBusy
<1>5. HoldsWhileBusy' /\ AbsentIsBlank' /\ HeldIsRunning'
  BY <1>1, <1>2, <1>4
  DEF SingleWorkerInv, HoldsWhileBusy, AbsentIsBlank, HeldIsRunning
<1>6. AttemptsBounded' /\ PendingHasAttempt'
  BY <1>1, <1>2, JobIdsAssumption
  DEF SingleWorkerInv, AttemptsBounded, PendingHasAttempt
<1>7. OwedIsPending' /\ SchedulerReadsItsConflict'
  BY <1>2, <1>3 DEF SingleWorkerInv, OwedIsPending, SchedulerReadsItsConflict
<1> QED
  BY <1>5, <1>6, <1>7 DEF SingleWorkerInv

LEMMA SingleClaim ==
  ASSUME \A v, w \in Workers : v = w,
         TypeOK, OneActivePerKey, SingleWorkerInv,
         NEW w \in Workers, ClaimNext(w)
  PROVE  SingleWorkerInv'
<1>1. PICK j \in JobIds :
        /\ IsOldestQueued(j)
        /\ status' = [status EXCEPT ![j] = "running"]
        /\ attempts' = [attempts EXCEPT ![j] = @ + 1]
        /\ held' = [held EXCEPT ![w] = Claimed(j)]
        /\ owed' = owed \ {key[j]}
  BY DEF ClaimNext
<1>2. /\ status[j] = "queued" /\ status'[j] = "running"
      /\ attempts'[j] = attempts[j] + 1
      /\ \A i \in JobIds \ {j} : status'[i] = status[i] /\ attempts'[i] = attempts[i]
      /\ UNCHANGED <<key, conflict, faults>>
      /\ \A v \in Workers : v = w
      /\ held'[w].job = j /\ held'[w].attempts = attempts'[j]
      /\ pc'[w] = "run"
      /\ \A r \in Requesters : pc'[r] = pc[r]
  BY <1>1, ProcessesAssumption DEF IsOldestQueued, ClaimNext, Claimed, Goto, TypeOK
<1>3. held[w].job = NoJob /\ conflict[w] = NoKey
  BY DEF ClaimNext, Claimed, SingleWorkerInv, HoldsWhileBusy
<1>4. \A k : ActiveJobs(k)' = ActiveJobs(k)
  BY <1>2 DEF ActiveJobs
<1>5. HoldsWhileBusy' /\ AbsentIsBlank' /\ HeldIsRunning'
      /\ SchedulerReadsItsConflict'
  BY <1>2, <1>3, JobIdsAssumption
  DEF SingleWorkerInv, HoldsWhileBusy, AbsentIsBlank, HeldIsRunning,
      SchedulerReadsItsConflict
<1>6. AttemptsBounded' /\ PendingHasAttempt'
  <2>1. /\ faults \in Nat /\ MaxAttempts \in Nat
        /\ \A i \in JobIds : attempts[i] \in Nat
    BY MaxAttemptsAssumption DEF TypeOK
  <2>2. attempts[j] < MaxAttempts + faults
    BY <1>2 DEF SingleWorkerInv, PendingHasAttempt
  <2>3. \A i \in JobIds : attempts'[i] <= MaxAttempts + faults
    BY <1>2, <2>1, <2>2 DEF SingleWorkerInv, AttemptsBounded
  <2>4. ASSUME NEW i \in JobIds \ {j},
               \/ status[i] = "queued"
               \/ status[i] = "running" /\ \A v \in Workers : held'[v].job # i
        PROVE  attempts[i] < MaxAttempts + faults
    BY <1>2, <1>3, <2>4, JobIdsAssumption
    DEF SingleWorkerInv, PendingHasAttempt
  <2> QED
    BY <1>2, <2>3, <2>4 DEF AttemptsBounded, PendingHasAttempt
<1>7. OwedIsPending'
  <2>1. SUFFICES ASSUME NEW k \in owed, k # key[j]
                 PROVE  \E i \in ActiveJobs(k)' : \A v \in Workers : held'[v].job # i
    BY <1>1 DEF OwedIsPending
  <2>2. PICK i \in ActiveJobs(k) : \A v \in Workers : held[v].job # i
    BY DEF SingleWorkerInv, OwedIsPending
  <2>3. i # j
    BY <2>1, <2>2 DEF ActiveJobs
  <2> QED
    BY <1>2, <1>4, <2>2, <2>3
<1> QED
  BY <1>5, <1>6, <1>7 DEF SingleWorkerInv

LEMMA SingleNext ==
  ASSUME \A v, w \in Workers : v = w,
         TypeOK, OneActivePerKey, SingleWorkerInv, [Next]_vars
  PROVE  SingleWorkerInv'
<1> USE ProcessesAssumption
<1>1. ASSUME NEW p \in Processes, Enqueues(p)
      PROVE  SingleWorkerInv'
  <2>1. CASE Enqueue(p)
    <3>1. PICK k \in todo[p] :
            /\ InsertJob(p, k) \/ InsertConflicts(p, k)
            /\ owed' = IF pc[p] \in Refreshing THEN owed \cup {k} ELSE owed
      BY <2>1 DEF Enqueue
    <3>2. /\ k \in Keys /\ k \in todo[p] /\ pc[p] \in Asking /\ conflict[p] = NoKey
          /\ UNCHANGED <<pc, held, faults>>
      BY <2>1, <3>1 DEF TypeOK, Enqueue
    <3> QED
      BY <3>1, <3>2, SingleInsert, SingleConflict
  <2>2. CASE ReadExisting(p)
    BY <2>2, SingleFrame
    DEF ReadExisting, SingleWorkerInv, HoldsWhileBusy, tableVars, TypeOK
  <2>3. CASE ExistingGone(p)
    <3>1. p \notin Workers
      BY <2>3 DEF ExistingGone, SingleWorkerInv, SchedulerReadsItsConflict
    <3> QED
      BY <2>3, <3>1, SingleFrame
      DEF ExistingGone, Forget, Goto, SingleWorkerInv, HoldsWhileBusy,
          tableVars, TypeOK
  <2> QED
    BY <1>1, <2>1, <2>2, <2>3 DEF Enqueues
<1>2. ASSUME NEW r \in Requesters, Request(r) \/ Respond(r) \/ Abandon(r)
      PROVE  SingleWorkerInv'
  BY <1>2, SingleFrame
  DEF Request, Respond, Abandon, Forget, Goto, SingleWorkerInv,
      HoldsWhileBusy, tableVars, TypeOK
<1>3. ASSUME NEW w \in Workers, Tick(w) \/ Start(w)
      PROVE  SingleWorkerInv'
  <2>1. CASE \/ Start(w) \/ EnsureMarketSnapshots(w) \/ SnapshotsEnsured(w)
             \/ DailyRefresh(w) \/ ListTracked(w) \/ RecordRefresh(w)
             \/ QueueEmpty(w) \/ RunEnds(w)
    <3>1. /\ UNCHANGED <<status, key, attempts, faults, owed, held, conflict>>
          /\ \A r \in Requesters : pc'[r] = pc[r]
          /\ \A v \in Workers : v = w
      BY <2>1
      DEF Start, EnsureMarketSnapshots, SnapshotsEnsured, DailyRefresh,
          ListTracked, RecordRefresh, QueueEmpty, RunEnds, tableVars, Goto,
          TypeOK
    <3>2. /\ pc[w] \in Busy <=> pc'[w] \in Busy
          /\ conflict[w] = NoKey
      BY <2>1
      DEF Start, EnsureMarketSnapshots, SnapshotsEnsured, DailyRefresh,
          ListTracked, RecordRefresh, QueueEmpty, RunEnds, Goto, TypeOK,
          SingleWorkerInv, HoldsWhileBusy
    <3> QED
      BY <3>1, <3>2, SingleFrame DEF SingleWorkerInv, HoldsWhileBusy
  <2>2. CASE RequeueStale(w)
    BY <2>2, SingleRequeue
  <2>3. CASE ClaimNext(w)
    BY <2>3, SingleClaim
  <2>4. CASE CompleteJob(w)
    <3>1. held[w].job # NoJob
      BY <2>4 DEF CompleteJob, SingleWorkerInv, HoldsWhileBusy
    <3> QED
      BY <2>4, <3>1, SingleRelease DEF CompleteJob
  <2>5. CASE FailJob(w)
    BY <2>5, SingleFail
  <2> QED
    BY <1>3, <2>1, <2>2, <2>3, <2>4, <2>5 DEF Tick
<1>4. ASSUME NEW w \in Workers, SessionBreaks(w) \/ Crash(w)
      PROVE  SingleWorkerInv'
  BY <1>4, SingleInterrupt DEF SessionBreaks, Crash
<1>5. CASE ClockStep
  BY <1>5, SingleFrame
  DEF ClockStep, StampPasses, Midnight, GrowStale, procVars, tableVars,
      SingleWorkerInv, HoldsWhileBusy
<1>6. CASE UNCHANGED vars
  BY <1>6, SingleFrame
  DEF vars, procVars, tableVars, SingleWorkerInv, HoldsWhileBusy
<1> QED
  BY <1>1, <1>2, <1>3, <1>4, <1>5, <1>6 DEF Next, RequesterStep, WorkerStep

LEMMA SingleInit ==
  ASSUME \A v, w \in Workers : v = w, Init
  PROVE  SingleWorkerInv
  BY ProcessesAssumption, MaxAttemptsAssumption
  DEF Init, SingleWorkerInv, HoldsWhileBusy, AbsentIsBlank, HeldIsRunning,
      AttemptsBounded, PendingHasAttempt, OwedIsPending,
      SchedulerReadsItsConflict, Unheld

(* With one worker process a job is run by one holder at a time and stays  *)
(* running until that holder lets go, whatever crashes, recoveries and     *)
(* requests happen around it; attempts are bounded by the faults; a        *)
(* refresh is not lost to deduplication; the scheduler never raises from   *)
(* enqueue_sync_job.                                                       *)
THEOREM SingleWorker ==
  ASSUME \A v, w \in Workers : v = w
  PROVE  Spec => []SingleWorkerInv
<1>1. Init => SingleWorkerInv
  BY SingleInit
<1>2. TypeOK /\ OneActivePerKey /\ SingleWorkerInv /\ [Next]_vars
        => SingleWorkerInv'
  BY SingleNext
<1> QED
  BY <1>1, <1>2, TypeCorrect, Unique, PTL DEF Spec

(* A job that a worker holds is running in the table and held by that      *)
(* worker alone, through every crash, recovery and request.                *)
THEOREM SingleWorkerClaims ==
  ASSUME \A v, w \in Workers : v = w
  PROVE  Spec => []HeldIsRunning
<1>1. SingleWorkerInv => HeldIsRunning
  BY DEF SingleWorkerInv
<1> QED
  BY <1>1, SingleWorker, PTL

(* A job is claimed at most as often as it may fail, and once more for     *)
(* each crash or broken session.                                           *)
THEOREM AttemptsAreBounded ==
  ASSUME \A v, w \in Workers : v = w
  PROVE  Spec => []AttemptsBounded
<1>1. SingleWorkerInv => AttemptsBounded
  BY DEF SingleWorkerInv
<1> QED
  BY <1>1, SingleWorker, PTL

(* What a refresh asked for, and no claim has served since, is waiting in  *)
(* the table: being collapsed into an active job loses no refresh.         *)
THEOREM RefreshIsNotLost ==
  ASSUME \A v, w \in Workers : v = w
  PROVE  Spec => []OwedIsPending
<1>1. SingleWorkerInv => OwedIsPending
  BY DEF SingleWorkerInv
<1> QED
  BY <1>1, SingleWorker, PTL

(* The enqueues of the worker's own tick always find the active row that   *)
(* their insert met, so none of them ends the tick.                        *)
THEOREM SchedulerIsUndisturbed ==
  ASSUME \A v, w \in Workers : v = w
  PROVE  Spec => []SchedulerReadsItsConflict
<1>1. SingleWorkerInv => SchedulerReadsItsConflict
  BY DEF SingleWorkerInv
<1> QED
  BY <1>1, SingleWorker, PTL

-----------------------------------------------------------------------------
(* The ledger vouches for the refresh.                                     *)

(* A refresh under way has asked for its markets, or still will; then for  *)
(* the jobs of the tracked symbols as well; and a key that its insert      *)
(* found active counts as asked for.                                       *)
MarketsAsked(w) == MarketKeys \subseteq owed \cup todo[w]
TrackedAsked(w) == TrackedKeys \subseteq owed \cup todo[w]

RefreshInv ==
  \A w \in Workers :
    /\ pc[w] \in Refreshing => MarketsAsked(w)
    /\ pc[w] = "symbols" => TrackedAsked(w)
    /\ pc[w] \in Refreshing /\ conflict[w] # NoKey => conflict[w] \in owed

(* A step that forgets no debt and leaves the refreshes alone.             *)
LEMMA RefreshFrame ==
  ASSUME RefreshInv, owed \subseteq owed',
         \A w \in Workers :
           \/ pc'[w] \notin Refreshing
           \/ /\ UNCHANGED tracked
              /\ pc'[w] = pc[w] /\ todo'[w] = todo[w] /\ conflict'[w] = conflict[w]
  PROVE  RefreshInv'
  BY DEF RefreshInv, MarketsAsked, TrackedAsked, TrackedKeys

(* An enqueue moves a key of the refresh from what it still has to ask for *)
(* to what it asked for.                                                   *)
LEMMA RefreshEnqueues ==
  ASSUME TypeOK, HoldsWhileBusy, RefreshInv, NEW p \in Processes, Enqueues(p)
  PROVE  RefreshInv'
<1> USE ProcessesAssumption
<1>1. \A r \in Requesters : pc[r] \notin Refreshing
  BY DEF HoldsWhileBusy
<1>2. CASE Enqueue(p)
  <2>1. PICK k \in todo[p] :
          /\ InsertJob(p, k) \/ InsertConflicts(p, k)
          /\ owed' = IF pc[p] \in Refreshing THEN owed \cup {k} ELSE owed
    BY <1>2 DEF Enqueue
  <2>2. k # NoKey /\ conflict[p] = NoKey /\ UNCHANGED <<pc, tracked>>
    BY <1>2, NoKeyAssumption DEF Enqueue, TypeOK, dataVars
  <2>3. \/ todo'[p] = todo[p] \ {k} /\ conflict' = conflict
        \/ todo' = todo /\ conflict'[p] = k
    BY <2>1 DEF InsertJob, InsertConflicts, TypeOK
  <2>4. \A q \in Processes \ {p} : todo'[q] = todo[q] /\ conflict'[q] = conflict[q]
    BY <2>1 DEF InsertJob, InsertConflicts, TypeOK
  <2> QED
    BY <2>1, <2>2, <2>3, <2>4
    DEF RefreshInv, MarketsAsked, TrackedAsked, TrackedKeys
<1>3. CASE ReadExisting(p)
  <2>1. /\ UNCHANGED <<pc, tracked, owed>> /\ conflict'[p] = NoKey
        /\ todo'[p] = todo[p] \ {conflict[p]} /\ conflict[p] # NoKey
        /\ \A q \in Processes \ {p} : todo'[q] = todo[q] /\ conflict'[q] = conflict[q]
    BY <1>3 DEF ReadExisting, TypeOK, dataVars
  <2> QED
    BY <2>1 DEF RefreshInv, MarketsAsked, TrackedAsked, TrackedKeys
<1>4. CASE ExistingGone(p)
  <2>1. /\ UNCHANGED <<tracked, owed>> /\ pc'[p] \notin Refreshing
        /\ \A q \in Processes \ {p} : /\ pc'[q] = pc[q] /\ todo'[q] = todo[q]
                                      /\ conflict'[q] = conflict[q]
    BY <1>4 DEF ExistingGone, Forget, Goto, TypeOK, dataVars
  <2> QED
    BY <2>1, RefreshFrame
<1> QED
  BY <1>2, <1>3, <1>4 DEF Enqueues

LEMMA RefreshNext ==
  ASSUME \A v, w \in Workers : v = w,
         TypeOK, SingleWorkerInv, RefreshInv, [Next]_vars
  PROVE  RefreshInv'
<1> USE ProcessesAssumption DEF dataVars
<1>1. ASSUME NEW p \in Processes, Enqueues(p)
      PROVE  RefreshInv'
  BY <1>1, RefreshEnqueues DEF SingleWorkerInv
<1>2. ASSUME NEW r \in Requesters, Request(r) \/ Respond(r) \/ Abandon(r)
      PROVE  RefreshInv'
  BY <1>2, RefreshFrame DEF Request, Respond, Abandon, Forget, Goto, TypeOK
<1>3. ASSUME NEW w \in Workers, WorkerStep(w)
      PROVE  RefreshInv'
  <2>0. \A v \in Workers : v = w
    OBVIOUS
  <2>1. CASE ListTracked(w)
    <3>1. /\ UNCHANGED <<tracked, owed, conflict>> /\ pc'[w] = "symbols"
          /\ todo[w] = {} /\ todo'[w] = TrackedKeys /\ conflict[w] = NoKey
      BY <2>1 DEF ListTracked, Goto, TypeOK, SingleWorkerInv, HoldsWhileBusy
    <3>2. MarketKeys \subseteq owed
      BY <2>1, <3>1 DEF ListTracked, RefreshInv, MarketsAsked
    <3> QED
      BY <2>0, <3>1, <3>2 DEF RefreshInv, MarketsAsked, TrackedAsked, TrackedKeys
  <2>2. CASE DailyRefresh(w)
    <3>1. CASE DuePeriods = {}
      BY <2>0, <2>2, <3>1, RefreshFrame DEF DailyRefresh, Goto, TypeOK
    <3>2. CASE DuePeriods # {}
      <4>1. UNCHANGED <<owed, conflict>> /\ pc'[w] = "markets" /\ todo'[w] = MarketKeys
        BY <2>2, <3>2 DEF DailyRefresh, Goto, TypeOK
      <4>2. conflict[w] = NoKey
        BY <2>2 DEF DailyRefresh, SingleWorkerInv, HoldsWhileBusy
      <4> QED
        BY <2>0, <4>1, <4>2 DEF RefreshInv, MarketsAsked
    <3> QED
      BY <3>1, <3>2
  <2>3. CASE \/ Start(w) \/ RequeueStale(w) \/ EnsureMarketSnapshots(w)
             \/ SnapshotsEnsured(w) \/ RecordRefresh(w) \/ QueueEmpty(w)
             \/ RunEnds(w)
    <3>1. owed' = owed /\ pc'[w] \notin Refreshing
      BY <2>3
      DEF Start, RequeueStale, Recovered, EnsureMarketSnapshots, SnapshotsEnsured,
          RecordRefresh, QueueEmpty, RunEnds, Goto, TypeOK
    <3> QED
      BY <2>0, <3>1, RefreshFrame
  <2>4. CASE ClaimNext(w)
    <3>1. pc'[w] \notin Refreshing
      BY <2>4 DEF ClaimNext, Goto, TypeOK
    <3> QED
      BY <2>0, <3>1 DEF RefreshInv
  <2>5. CASE CompleteJob(w) \/ FailJob(w) \/ SessionBreaks(w) \/ Crash(w)
    <3>1. owed' = owed /\ pc'[w] \notin Refreshing
      BY <2>5 DEF CompleteJob, FailJob, SessionBreaks, Crash, Interrupt, Forget,
                  Goto, TypeOK
    <3> QED
      BY <2>0, <3>1, RefreshFrame
  <2> QED
    BY <1>1, <1>3, <2>1, <2>2, <2>3, <2>4, <2>5 DEF WorkerStep, Tick
<1>4. CASE ClockStep
  BY <1>4, RefreshFrame
  DEF ClockStep, StampPasses, Midnight, GrowStale, procVars
<1>5. CASE UNCHANGED vars
  BY <1>5, RefreshFrame DEF vars, procVars
<1> QED
  BY <1>1, <1>2, <1>3, <1>4, <1>5 DEF Next, RequesterStep

(* The only step that writes the ledger has asked for everything.          *)
LEMMA RecordsWhatItAsked ==
  ASSUME TypeOK, RefreshInv, [Next]_vars, ledger' # ledger
  PROVE  MarketKeys \cup TrackedKeys \subseteq owed
<1>1. PICK w \in Workers : RecordRefresh(w)
  <2>1. ASSUME NEW p \in Processes, Enqueues(p) PROVE FALSE
    BY <2>1 DEF Enqueues, Enqueue, ReadExisting, ExistingGone
  <2>2. ASSUME NEW r \in Requesters, Request(r) \/ Respond(r) \/ Abandon(r)
        PROVE  FALSE
    BY <2>2 DEF Request, Respond, Abandon
  <2>3. ASSUME NEW w \in Workers, WorkerStep(w)
        PROVE  RecordRefresh(w)
    BY <2>1, <2>3
    DEF WorkerStep, Tick, Start, RequeueStale, Recovered, EnsureMarketSnapshots,
        SnapshotsEnsured, DailyRefresh, ListTracked, ClaimNext, QueueEmpty, RunEnds,
        CompleteJob, FailJob, SessionBreaks, Crash, Interrupt
  <2>4. ~ClockStep /\ ~UNCHANGED vars
    BY DEF ClockStep, StampPasses, Midnight, GrowStale, vars
  <2> QED
    BY <2>1, <2>2, <2>3, <2>4 DEF Next, RequesterStep
<1> QED
  BY <1>1 DEF RecordRefresh, RefreshInv, MarketsAsked, TrackedAsked

(* With one worker, a period of the daily refresh is written to the ledger *)
(* only when each market and each symbol tracked by then was asked for and *)
(* not claimed since: a tick that is cut off records nothing.              *)
THEOREM LedgerVouches ==
  ASSUME \A v, w \in Workers : v = w
  PROVE  Spec => RecordedIsEnqueued
<1>1. Init => RefreshInv
  BY ProcessesAssumption DEF Init, RefreshInv
<1>2. TypeOK /\ SingleWorkerInv /\ RefreshInv /\ [Next]_vars => RefreshInv'
  BY RefreshNext
<1>3. TypeOK /\ RefreshInv /\ [Next]_vars =>
        [\A w \in Workers : ledger' # ledger =>
           MarketKeys \cup UNION {SymbolKeys(s) : s \in tracked} \subseteq owed]_vars
  BY RecordsWhatItAsked DEF TrackedKeys
<1> QED
  BY <1>1, <1>2, <1>3, TypeCorrect, SingleWorker, PTL DEF Spec, RecordedIsEnqueued

-----------------------------------------------------------------------------
(***************************************************************************)
(* One worker's queue implements CrawlDesk, for every value of the         *)
(* constants: initial states map to the initial desk, and every step to a  *)
(* step of the desk or to a stutter.                                       *)
(***************************************************************************)
(* With one active row per key the desk reads off that row.                *)
LEMMA DeskOfRow ==
  ASSUME TypeOK, OneActivePerKey, NEW j \in JobIds, status[j] \in Active,
         key[j] \in Keys
  PROVE  deskOf[key[j]] = IF status[j] = "running" THEN "crawling" ELSE "waiting"
  BY DEF deskOf, ActiveJobs, OneActivePerKey

LEMMA DeskOfNone ==
  ASSUME NEW k \in Keys, ActiveJobs(k) = {}
  PROVE  deskOf[k] = "idle"
  BY DEF deskOf

(* Active rows have a key.                                                 *)
RowsHaveKeys == \A j \in JobIds : status[j] \in Active => key[j] \in Keys

(* A key whose rows a step leaves alone keeps its place on the desk.       *)
LEMMA DeskOfOther ==
  ASSUME NEW k \in Keys,
         \A j \in JobIds : \/ status'[j] = status[j] /\ key'[j] = key[j]
                           \/ /\ status[j] \notin Active \/ key[j] # k
                              /\ status'[j] \notin Active \/ key'[j] # k
  PROVE  deskOf'[k] = deskOf[k]
<1>1. ActiveJobs(k)' = ActiveJobs(k)
  BY DEF ActiveJobs
<1>2. \A j \in ActiveJobs(k) : status'[j] = status[j]
  BY DEF ActiveJobs
<1> QED
  BY <1>1, <1>2 DEF deskOf

LEMMA DeskSame ==
  ASSUME UNCHANGED <<status, key>>
  PROVE  deskOf' = deskOf
  BY DEF deskOf, ActiveJobs

(* A step that changes the place of one key is a move of the desk.         *)
LEMMA DeskMoves ==
  ASSUME NEW k \in Keys, NEW to, deskOf'[k] = to,
         \A l \in Keys \ {k} : deskOf'[l] = deskOf[l]
  PROVE  Desk!Move(k, deskOf[k], to)
<1>1. DOMAIN deskOf = Keys /\ DOMAIN deskOf' = Keys
  BY DEF deskOf
<1>2. deskOf = [l \in Keys |-> deskOf[l]] /\ deskOf' = [l \in Keys |-> deskOf'[l]]
  BY DEF deskOf
<1>3. deskOf' = [deskOf EXCEPT ![k] = to]
  BY <1>1, <1>2
<1> QED
  BY <1>3 DEF Desk!Move

-----------------------------------------------------------------------------
LEMMA InitMaps == Init => Desk!Init
  BY DEF Init, Desk!Init, deskOf, ActiveJobs

LEMMA InsertMaps ==
  ASSUME TypeOK, RowsHaveKeys, NEW p \in Processes, NEW k \in Keys,
         InsertJob(p, k)
  PROVE  RowsHaveKeys' /\ Desk!Ask(k)
<1>1. PICK j \in JobIds \ Rows : /\ status' = [status EXCEPT ![j] = "queued"]
                                 /\ key' = [key EXCEPT ![j] = k]
  BY DEF InsertJob
<1>2. /\ status[j] = "absent" /\ status'[j] = "queued" /\ key'[j] = k
      /\ \A i \in JobIds \ {j} : status'[i] = status[i] /\ key'[i] = key[i]
  BY <1>1 DEF Rows, TypeOK
<1>3. RowsHaveKeys'
  BY <1>2 DEF RowsHaveKeys
<1>4. ActiveJobs(k) = {}
  BY DEF InsertJob
<1>5. deskOf[k] = "idle"
  BY <1>4, DeskOfNone
<1>6. ActiveJobs(k)' = {j}
  BY <1>2, <1>4 DEF ActiveJobs
<1>7. deskOf'[k] = "waiting"
  BY <1>2, <1>6 DEF deskOf
<1>8. \A l \in Keys \ {k} : deskOf'[l] = deskOf[l]
  BY <1>2, DeskOfOther
<1> QED
  BY <1>3, <1>5, <1>7, <1>8, DeskMoves DEF Desk!Ask

LEMMA ClaimMaps ==
  ASSUME TypeOK, OneActivePerKey, RowsHaveKeys, NEW w \in Workers, ClaimNext(w)
  PROVE  RowsHaveKeys' /\ \E k \in Keys : Desk!Begin(k)
<1>1. PICK j \in JobIds : /\ IsOldestQueued(j)
                         /\ status' = [status EXCEPT ![j] = "running"]
  BY DEF ClaimNext, Claimed
<1>2. /\ status[j] = "queued" /\ status'[j] = "running" /\ key' = key
      /\ \A i \in JobIds \ {j} : status'[i] = status[i]
  BY <1>1 DEF IsOldestQueued, ClaimNext, Claimed, TypeOK
<1>3. key[j] \in Keys /\ RowsHaveKeys'
  BY <1>2 DEF RowsHaveKeys
<1>4. deskOf[key[j]] = "waiting"
  BY <1>2, <1>3, DeskOfRow
<1>5. deskOf'[key[j]] = "crawling"
  BY <1>2, <1>3 DEF deskOf, ActiveJobs
<1>6. \A l \in Keys \ {key[j]} : deskOf'[l] = deskOf[l]
  BY <1>2, DeskOfOther
<1>7. Desk!Begin(key[j])
  BY <1>3, <1>4, <1>5, <1>6, DeskMoves DEF Desk!Begin
<1> QED
  BY <1>3, <1>7

LEMMA RequeueMaps ==
  ASSUME TypeOK, OneActivePerKey, RowsHaveKeys, NEW w \in Workers,
         RequeueStale(w)
  PROVE  RowsHaveKeys' /\ \E K \in SUBSET Keys : Desk!Again(K)
<1> DEFINE stuck(j) == status[j] = "running" /\ overdue[j]
           K == {k \in Keys : \E j \in JobIds : stuck(j) /\ key[j] = k}
<1>1. /\ \A j \in JobIds : status'[j] = IF stuck(j) THEN "queued" ELSE status[j]
      /\ key' = key
  BY DEF RequeueStale, Recovered
<1>2. RowsHaveKeys'
  BY <1>1 DEF RowsHaveKeys
<1>3. ASSUME NEW k \in K
      PROVE  deskOf[k] = "crawling" /\ deskOf'[k] = "waiting"
  <2>1. PICK j \in JobIds : stuck(j) /\ key[j] = k
    OBVIOUS
  <2>2. ActiveJobs(k) = {j} /\ ActiveJobs(k)' = {j}
    BY <1>1, <2>1 DEF ActiveJobs, OneActivePerKey
  <2> QED
    BY <1>1, <2>1, <2>2 DEF deskOf
<1>4. ASSUME NEW k \in Keys \ K
      PROVE  deskOf'[k] = deskOf[k]
  BY <1>1, DeskOfOther
<1>5. Desk!Again(K)
  BY <1>3, <1>4 DEF Desk!Again, deskOf
<1> QED
  BY <1>2, <1>5

(* The worker lets go of the row of key k.                                 *)
LEMMA ReleaseMaps ==
  ASSUME \A v, w \in Workers : v = w,
         TypeOK, OneActivePerKey, RowsHaveKeys, SingleWorkerInv,
         NEW w \in Workers, held[w].job # NoJob,
         NEW s \in {"completed", "failed", "queued", "running"}, Release(w, s)
  PROVE  RowsHaveKeys' /\ [Desk!Next]_deskOf
<1>j. PICK j \in JobIds : j = held[w].job
  BY DEF TypeOK
<1>k. PICK k \in Keys : k = key[j]
  BY <1>j DEF SingleWorkerInv, HeldIsRunning, RowsHaveKeys
<1>1. status[j] = "running" /\ key[j] = k
  BY <1>j, <1>k DEF SingleWorkerInv, HeldIsRunning
<1>2. /\ \A i \in JobIds \ {j} : status'[i] = status[i] /\ key'[i] = key[i]
      /\ s \in Active => status'[j] = s /\ key'[j] = k
      /\ s \notin Active => status'[j] = "absent"
  BY <1>j, <1>1 DEF Release, TypeOK
<1>3. RowsHaveKeys'
  BY <1>1, <1>2 DEF RowsHaveKeys
<1>4. \A l \in Keys \ {k} : deskOf'[l] = deskOf[l]
  BY <1>1, <1>2, DeskOfOther
<1>5. ActiveJobs(k) = {j} /\ deskOf[k] = "crawling"
  BY <1>1 DEF ActiveJobs, OneActivePerKey, deskOf
<1>6. CASE s = "running"
  <2>1. deskOf'[k] = "crawling"
    BY <1>1, <1>2, <1>6 DEF deskOf, ActiveJobs
  <2> QED
    BY <1>3, <1>4, <1>5, <2>1 DEF deskOf
<1>7. CASE s = "queued"
  <2>1. ActiveJobs(k)' = {j} /\ status'[j] = "queued"
    BY <1>2, <1>5, <1>7 DEF ActiveJobs
  <2>2. deskOf'[k] = "waiting"
    BY <1>1, <2>1 DEF deskOf
  <2>3. Desk!Again({k})
    BY <1>1, <1>4, <1>5, <2>2 DEF Desk!Again, deskOf
  <2> QED
    BY <1>1, <1>3, <2>3 DEF Desk!Next
<1>8. CASE s \notin Active
  <2>1. ActiveJobs(k)' = {}
    BY <1>2, <1>5, <1>8 DEF ActiveJobs
  <2>2. deskOf'[k] = "idle"
    BY <1>1, <2>1 DEF deskOf
  <2>3. Desk!End(k)
    BY <1>4, <1>5, <2>2, DeskMoves DEF Desk!End
  <2> QED
    BY <1>1, <1>3, <2>3 DEF Desk!Next
<1> QED
  BY <1>6, <1>7, <1>8

LEMMA SameMaps ==
  ASSUME RowsHaveKeys, UNCHANGED <<status, key>>
  PROVE  RowsHaveKeys' /\ [Desk!Next]_deskOf
  BY DeskSame DEF RowsHaveKeys

LEMMA InterruptMaps ==
  ASSUME \A v, w \in Workers : v = w,
         TypeOK, OneActivePerKey, RowsHaveKeys, SingleWorkerInv,
         NEW w \in Workers, NEW l, Interrupt(w, l)
  PROVE  RowsHaveKeys' /\ [Desk!Next]_deskOf
<1>1. CASE held[w].job = NoJob
  BY <1>1, SameMaps DEF Interrupt, tableVars
<1>2. CASE held[w].job # NoJob
  <2>1. Release(w, "running")
    BY <1>2 DEF Interrupt, SingleWorkerInv, HeldIsRunning
  <2> QED
    BY <1>2, <2>1, ReleaseMaps
<1> QED
  BY <1>1, <1>2

LEMMA NextMaps ==
  ASSUME \A v, w \in Workers : v = w,
         TypeOK, OneActivePerKey, RowsHaveKeys, SingleWorkerInv, [Next]_vars
  PROVE  RowsHaveKeys' /\ [Desk!Next]_deskOf
<1> USE DEF tableVars
<1>1. ASSUME NEW p \in Processes, Enqueues(p)
      PROVE  RowsHaveKeys' /\ [Desk!Next]_deskOf
  <2>1. CASE Enqueue(p)
    <3>1. PICK k \in todo[p] : InsertJob(p, k) \/ InsertConflicts(p, k)
      BY <2>1 DEF Enqueue
    <3>2. k \in Keys
      BY <3>1 DEF TypeOK
    <3>3. CASE InsertJob(p, k)
      BY <3>2, <3>3, InsertMaps DEF Desk!Next
    <3>4. CASE InsertConflicts(p, k)
      BY <3>4, SameMaps DEF InsertConflicts
    <3> QED
      BY <3>1, <3>3, <3>4
  <2>2. CASE ReadExisting(p) \/ ExistingGone(p)
    BY <2>2, SameMaps DEF ReadExisting, ExistingGone
  <2> QED
    BY <1>1, <2>1, <2>2 DEF Enqueues
<1>2. ASSUME NEW r \in Requesters, Request(r) \/ Respond(r) \/ Abandon(r)
      PROVE  RowsHaveKeys' /\ [Desk!Next]_deskOf
  BY <1>2, SameMaps DEF Request, Respond, Abandon
<1>3. ASSUME NEW w \in Workers, Tick(w) \/ Start(w)
      PROVE  RowsHaveKeys' /\ [Desk!Next]_deskOf
  <2>1. CASE \/ Start(w) \/ EnsureMarketSnapshots(w) \/ SnapshotsEnsured(w)
             \/ DailyRefresh(w) \/ ListTracked(w) \/ RecordRefresh(w)
             \/ QueueEmpty(w) \/ RunEnds(w)
    BY <2>1, SameMaps
    DEF Start, EnsureMarketSnapshots, SnapshotsEnsured, DailyRefresh,
        ListTracked, RecordRefresh, QueueEmpty, RunEnds
  <2>2. CASE RequeueStale(w)
    BY <2>2, RequeueMaps DEF Desk!Next
  <2>3. CASE ClaimNext(w)
    BY <2>3, ClaimMaps DEF Desk!Next
  <2>4. CASE CompleteJob(w)
    <3>1. held[w].job # NoJob
      BY <2>4 DEF CompleteJob, SingleWorkerInv, HoldsWhileBusy
    <3> QED
      BY <2>4, <3>1, ReleaseMaps DEF CompleteJob
  <2>5. CASE FailJob(w)
    <3>1. held[w].job # NoJob
      BY <2>5 DEF FailJob, SingleWorkerInv, HoldsWhileBusy
    <3>2. status[held[w].job] = "running"
      BY <3>1 DEF SingleWorkerInv, HeldIsRunning
    <3>3. \E s \in {"completed", "failed", "queued", "running"} : Release(w, s)
      BY <2>5, <3>2 DEF FailJob
    <3> QED
      BY <3>1, <3>3, ReleaseMaps
  <2> QED
    BY <1>3, <2>1, <2>2, <2>3, <2>4, <2>5 DEF Tick
<1>4. ASSUME NEW w \in Workers, SessionBreaks(w) \/ Crash(w)
      PROVE  RowsHaveKeys' /\ [Desk!Next]_deskOf
  BY <1>4, InterruptMaps DEF SessionBreaks, Crash
<1>5. CASE ClockStep
  BY <1>5, SameMaps DEF ClockStep, StampPasses, Midnight, GrowStale
<1>6. CASE UNCHANGED vars
  BY <1>6, SameMaps DEF vars
<1> QED
  BY <1>1, <1>2, <1>3, <1>4, <1>5, <1>6 DEF Next, RequesterStep, WorkerStep

(* One worker's queue implements the desk: whatever interleaving, crash or *)
(* recovery, no request is dropped and no crawl starts unasked.            *)
THEOREM QueueImplementsDesk ==
  ASSUME \A v, w \in Workers : v = w
  PROVE  Spec => ImplementsDesk
<1>1. Init => RowsHaveKeys
  BY DEF Init, RowsHaveKeys
<1>2. TypeOK /\ OneActivePerKey /\ RowsHaveKeys /\ SingleWorkerInv /\ [Next]_vars
        => RowsHaveKeys' /\ [Desk!Next]_deskOf
  BY NextMaps
<1> QED
  BY <1>1, <1>2, InitMaps, TypeCorrect, Unique, SingleWorker, PTL
  DEF Spec, ImplementsDesk, Desk!Spec
=============================================================================
