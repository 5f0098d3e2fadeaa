------------------------ MODULE JobScheduler_proofs ------------------------
(***************************************************************************)
(* Proofs about JobScheduler for any finite, non-empty pool, any set of    *)
(* jobs and any initial capacity of the queue.                             *)
(*                                                                         *)
(* SchedulerInv is shown inductive group by group: each lemma below takes  *)
(* the whole invariant in the first state of a step and gives one group in *)
(* the second.                                                             *)
(***************************************************************************)
EXTENDS JobScheduler, FiniteSetTheorems, TLAPS

-----------------------------------------------------------------------------
(***************************************************************************)
(* Helpers.                                                                *)
(***************************************************************************)

\* The set of workers holding a job is finite, since the pool is.
LEMMA InFlightFinite ==
  IsFiniteSet(InFlight) /\ Cardinality(InFlight) \in Nat
<1>1. InFlight \in SUBSET Workers
  BY DEF InFlight
<1> QED
  BY <1>1, FS_Subset, FS_CardinalityType, SchedulerAssumption

\* A grown queue keeps its jobs.
LEMMA GrowKeeps ==
  ASSUME NEW c \in Nat \ {0}, NEW d \in Nat \ {0}, c <= d,
         NEW q \in [0..(c - 1) -> Jobs \union {NoJob}]
  PROVE  /\ Grow(q, d) \in [0..(d - 1) -> Jobs \union {NoJob}]
         /\ \A i \in 0..(c - 1) : Grow(q, d)[i] = q[i]
  BY DEF Grow

\* JobScheduler_SubmitJob, whether it grows the queue or not, writes the first
\* free slot and leaves the other jobs of the batch where they were.
LEMMA SubmitExtends ==
  ASSUME SchedulerInv, NEW j \in Jobs, SubmitJob(j)
  PROVE  /\ qcapacity' \in Nat \ {0} /\ qcapacity <= qcapacity'
         /\ current \in 0..(qcapacity' - 1)
         /\ queue' \in [0..(qcapacity' - 1) -> Jobs \union {NoJob}]
         /\ queue'[current] = j
         /\ \A i \in 0..(current - 1) : queue'[i] = queue[i]
<1>0. /\ current \in Nat /\ qcapacity \in Nat \ {0} /\ current <= qcapacity
      /\ queue \in [0..(qcapacity - 1) -> Jobs \union {NoJob}]
  BY DEF SchedulerInv, TypeOK, QueueAccounting
<1>1. qcapacity' \in Nat \ {0} /\ qcapacity <= qcapacity'
      /\ current \in 0..(qcapacity' - 1)
  BY <1>0 DEF SubmitJob
<1>2. /\ Grow(queue, qcapacity') \in [0..(qcapacity' - 1) -> Jobs \union {NoJob}]
      /\ \A i \in 0..(qcapacity - 1) : Grow(queue, qcapacity')[i] = queue[i]
  <2> DEFINE d == qcapacity'
  <2>1. d \in Nat \ {0} /\ qcapacity <= d
    BY <1>1
  <2> HIDE DEF d
  <2>2. /\ Grow(queue, d) \in [0..(d - 1) -> Jobs \union {NoJob}]
        /\ \A i \in 0..(qcapacity - 1) : Grow(queue, d)[i] = queue[i]
    BY <1>0, <2>1, GrowKeeps
  <2> QED
    BY <2>2 DEF d
<1>3. queue' = [Grow(queue, qcapacity') EXCEPT ![current] = j]
  BY DEF SubmitJob
<1>4. \A i \in 0..(current - 1) : i \in 0..(qcapacity - 1) /\ i # current
  BY <1>0
<1>5. \A i \in 0..(qcapacity - 1) : i \in 0..(qcapacity' - 1)
  <2> DEFINE d == qcapacity'
  <2>1. d \in Nat /\ qcapacity <= d
    BY <1>1
  <2> HIDE DEF d
  <2>2. \A i \in 0..(qcapacity - 1) : i \in 0..(d - 1)
    BY <1>0, <2>1
  <2> QED
    BY <2>2 DEF d
<1> QED
  BY <1>1, <1>2, <1>3, <1>4, <1>5

\* A worker executing a job holds a taken job of the batch, not a stale slot.
LEMMA RunningJobIsTaken ==
  ASSUME SchedulerInv, NEW w \in Workers, pc[w] = "run"
  PROVE  /\ job[w] \in submitted
         /\ job[w] \in Jobs
         /\ runs[job[w]] = 0
         /\ \E i \in 0..(start - 1) : job[w] = queue[i]
<1>1. PICK i \in 0..(start - 1) : job[w] = queue[i]
  BY DEF SchedulerInv, RunsInv
<1>2. i \in 0..(current - 1)
  BY <1>1 DEF SchedulerInv, TypeOK, QueueAccounting
<1> QED
  BY <1>1, <1>2 DEF SchedulerInv, TypeOK, QueueInv, RunsInv

-----------------------------------------------------------------------------
\* The scheduler's state is well typed when the pool is created.
LEMMA InitTypeOK == Init => TypeOK
  BY SchedulerAssumption DEF Init, TypeOK, WorkerPc, MainPc

\* Every step of a worker or of the main thread, SubmitJob's reallocation of the
\* queue included, keeps the types.
LEMMA NextTypeOK ==
  ASSUME SchedulerInv, [Next]_vars
  PROVE  TypeOK'
<1> USE SchedulerAssumption
<1> USE DEF TypeOK, WorkerPc, MainPc
<1>0. TypeOK /\ start <= end /\ end <= current /\ current <= qcapacity
  BY DEF SchedulerInv, QueueAccounting
<1>1. ASSUME NEW w \in Workers, WorkerLock(w) PROVE TypeOK'
  BY <1>0, <1>1 DEF WorkerLock, counters, queueVars, history
<1>2. ASSUME NEW w \in Workers, WorkerSleep(w) PROVE TypeOK'
  BY <1>0, <1>2 DEF WorkerSleep, HasJob, Step, counters, queueVars, history
<1>3. ASSUME NEW w \in Workers, WorkerExit(w) PROVE TypeOK'
  BY <1>0, <1>3 DEF WorkerExit, Step, counters, queueVars, history
<1>4. ASSUME NEW w \in Workers, WorkerTake(w) PROVE TypeOK'
  <2>1. queue[start] \in Jobs \union {NoJob}
    BY <1>0, <1>4 DEF WorkerTake, HasJob
  <2> QED
    BY <1>0, <1>4, <2>1 DEF WorkerTake, HasJob, Step, queueVars, history
<1>5. ASSUME NEW w \in Workers, WorkerRun(w) PROVE TypeOK'
  <2>1. job[w] \in Jobs
    BY <1>5, RunningJobIsTaken DEF WorkerRun, Step
  <2> QED
    BY <1>0, <1>5, <2>1 DEF WorkerRun, Step, counters, queueVars, syncVars
<1>6. ASSUME NEW w \in Workers, WorkerRelock(w) PROVE TypeOK'
  BY <1>0, <1>6 DEF WorkerRelock, Step, counters, queueVars, history
<1>7. ASSUME NEW w \in Workers, WorkerCount(w) PROVE TypeOK'
  BY <1>0, <1>7 DEF WorkerCount, Step, SignalWait, queueVars, history
<1>8. ASSUME NEW j \in Jobs, SubmitJob(j) PROVE TypeOK'
  BY <1>0, <1>8, SubmitExtends DEF SubmitJob, syncVars, workerVars
<1>9. CASE ExecuteAll
  BY <1>0, <1>9 DEF ExecuteAll, SignalQueueEmpty, queueVars, workerVars, history
<1>10. CASE BarrierLock
  BY <1>0, <1>10 DEF BarrierLock, counters, queueVars, workerVars, history
<1>11. CASE BarrierSleep
  BY <1>0, <1>11 DEF BarrierSleep, AllCounted, counters, queueVars, workerVars, history
<1>12. CASE BarrierReset
  BY <1>0, <1>12 DEF BarrierReset, AllCounted, queueVars, workerVars, history
<1>13. CASE Kill
  BY <1>0, <1>13 DEF Kill, counters, queueVars, syncVars, workerVars, history
<1>14. CASE Broadcast \/ Join \/ Destroy
  BY <1>0, <1>14 DEF Broadcast, WakeWorkers, Join, Destroy, counters, queueVars, syncVars,
                     workerVars, history
<1>15. ASSUME NEW t \in Workers \union {Main}, SpuriousWakeup(t) PROVE TypeOK'
  BY <1>0, <1>15 DEF SpuriousWakeup, counters, queueVars, workerVars, history
<1>16. CASE UNCHANGED vars
  BY <1>0, <1>16 DEF vars
<1> QED
  BY <1>1, <1>2, <1>3, <1>4, <1>5, <1>6, <1>7, <1>8, <1>9, <1>10, <1>11, <1>12,
     <1>13, <1>14, <1>15, <1>16 DEF Next, WorkerStep, MainStep, Terminated

-----------------------------------------------------------------------------
\* queue_mutex has an owner exactly when a thread is between a lock and the
\* unlock or wait that follows it.
LEMMA NextMutexInv ==
  ASSUME SchedulerInv, [Next]_vars
  PROVE  MutexInv'
<1> USE SchedulerAssumption
<1> USE DEF TypeOK, MutexInv, WorkerPc
<1>0. TypeOK /\ MutexInv
  BY DEF SchedulerInv
<1>1. ASSUME NEW w \in Workers, WorkerStep(w) PROVE MutexInv'
  BY <1>0, <1>1 DEF WorkerStep, WorkerLock, WorkerSleep, HasJob, WorkerExit, WorkerTake,
                    WorkerRun, WorkerRelock, WorkerCount, Step, counters,
                    queueVars, syncVars, history
<1>2. CASE BarrierLock \/ BarrierSleep \/ BarrierReset
  BY <1>0, <1>2 DEF BarrierLock, BarrierSleep, AllCounted, BarrierReset, workerVars
<1>3. CASE UNCHANGED <<mutex, pc>> /\ mainPc # "test" /\ mainPc' # "test"
  BY <1>0, <1>3
<1>4. CASE UNCHANGED <<mutex, pc, mainPc>>
  BY <1>0, <1>4
<1> QED
  BY <1>1, <1>2, <1>3, <1>4
     DEF Next, MainStep, Terminated, vars, SubmitJob, ExecuteAll, Kill,
         Broadcast, WakeWorkers, Join, Destroy, SpuriousWakeup, syncVars, workerVars

\* end is published only by execute_all_jobs and reset only at the barrier, and
\* kill is set only with an empty queue.
LEMMA NextPhaseInv ==
  ASSUME SchedulerInv, [Next]_vars
  PROVE  PhaseInv'
<1> USE DEF PhaseInv, AtBarrier
<1>0. TypeOK /\ PhaseInv
  BY DEF SchedulerInv
<1>1. CASE UNCHANGED <<end, current, kill, mainPc>>
  BY <1>0, <1>1
<1>2. ASSUME NEW j \in Jobs, SubmitJob(j) PROVE PhaseInv'
  BY <1>0, <1>2 DEF SubmitJob, TypeOK
<1>3. CASE ExecuteAll \/ BarrierLock \/ BarrierSleep \/ BarrierReset
  BY <1>0, <1>3 DEF ExecuteAll, BarrierLock, BarrierSleep, AllCounted, BarrierReset,
                    counters, TypeOK
<1>4. CASE Kill \/ Broadcast \/ Join \/ Destroy
  BY <1>0, <1>4 DEF Kill, Broadcast, WakeWorkers, Join, Destroy, counters, TypeOK
<1> QED
  BY <1>1, <1>2, <1>3, <1>4
     DEF Next, WorkerStep, MainStep, Terminated, vars, WorkerLock, WorkerSleep, HasJob,
         WorkerExit, WorkerTake, WorkerRun, WorkerRelock, WorkerCount,
         SpuriousWakeup, counters

-----------------------------------------------------------------------------
\* Who is blocked on queue_empty and wait, and that with jobs in the queue some
\* worker is not: the signals of execute_all_jobs and worker suffice.
LEMMA NextBlockedInv ==
  ASSUME SchedulerInv, [Next]_vars
  PROVE  BlockedInv'
<1> USE SchedulerAssumption
<1> USE DEF BlockedInv
<1>0. TypeOK /\ MutexInv /\ PhaseInv /\ BlockedInv
  BY DEF SchedulerInv
<1>1. ASSUME NEW w \in Workers, WorkerLock(w) \/ WorkerSleep(w) \/ WorkerExit(w)
      PROVE  BlockedInv'
  BY <1>0, <1>1 DEF WorkerLock, WorkerSleep, HasJob, WorkerExit, Step, counters,
                    PhaseInv, TypeOK, WorkerPc
<1>2. ASSUME NEW w \in Workers, WorkerTake(w) \/ WorkerRun(w) \/ WorkerRelock(w)
      PROVE  BlockedInv'
  <2>1. w \notin queue_empty
    BY <1>0, <1>2 DEF WorkerTake, HasJob, WorkerRun, WorkerRelock, Step
  <2> QED
    BY <1>0, <1>2, <2>1 DEF WorkerTake, HasJob, WorkerRun, WorkerRelock, Step, counters,
                            syncVars, TypeOK, WorkerPc
<1>3. ASSUME NEW w \in Workers, WorkerCount(w)
      PROVE  BlockedInv'
  <2>1. w \notin queue_empty
    BY <1>0, <1>3 DEF WorkerCount, Step
  <2>2. wait' = {}
    BY <1>0, <1>3 DEF WorkerCount, SignalWait, TypeOK
  <2> QED
    BY <1>0, <1>3, <2>1, <2>2 DEF WorkerCount, Step, TypeOK, WorkerPc
<1>4. ASSUME NEW j \in Jobs, SubmitJob(j)
      PROVE  BlockedInv'
  BY <1>0, <1>4 DEF SubmitJob, syncVars, workerVars
<1>5. CASE ExecuteAll
  <2>1. wait' = {} /\ mainPc' = "barrier" /\ pc' = pc /\ kill' = kill
        /\ queue_empty' \subseteq queue_empty
    BY <1>0, <1>5 DEF ExecuteAll, SignalQueueEmpty, workerVars, TypeOK
  <2>2. \E w \in Workers : w \notin queue_empty'
    <3>1. CASE queue_empty # Workers
      BY <1>0, <2>1, <3>1 DEF TypeOK
    <3>2. CASE queue_empty = Workers
      <4>1. PICK woken \in SUBSET Workers :
              /\ Cardinality(woken) = IF current + 1 <= Cardinality(Workers)
                                      THEN current + 1 ELSE Cardinality(Workers)
              /\ queue_empty' = Workers \ woken
        BY <1>5, <3>2 DEF ExecuteAll, SignalQueueEmpty
      <4>2. Cardinality(Workers) \in Nat /\ Cardinality(Workers) # 0
        BY FS_CardinalityType, FS_EmptySet
      <4>3. Cardinality(woken) # 0
        BY <1>0, <4>1, <4>2 DEF TypeOK
      <4>4. woken # {}
        BY <4>3, FS_EmptySet
      <4> QED
        BY <4>1, <4>4
    <3> QED
      BY <3>1, <3>2
  <2> QED
    BY <1>0, <2>1, <2>2
<1>6. CASE BarrierLock \/ BarrierSleep
  BY <1>0, <1>6 DEF BarrierLock, BarrierSleep, AllCounted, counters, workerVars, TypeOK
<1>7. CASE BarrierReset
  BY <1>0, <1>7 DEF BarrierReset, AllCounted, workerVars, TypeOK
<1>8. CASE Kill \/ Broadcast \/ Join \/ Destroy
  BY <1>0, <1>8 DEF Kill, Broadcast, WakeWorkers, Join, Destroy, counters, syncVars,
                    workerVars, TypeOK
<1>9. ASSUME NEW t \in Workers \union {Main}, SpuriousWakeup(t)
      PROVE  BlockedInv'
  BY <1>0, <1>9 DEF SpuriousWakeup, counters, workerVars, TypeOK
<1>10. CASE UNCHANGED vars
  BY <1>0, <1>10 DEF vars
<1> QED
  BY <1>1, <1>2, <1>3, <1>4, <1>5, <1>6, <1>7, <1>8, <1>9, <1>10
     DEF Next, WorkerStep, MainStep, Terminated

-----------------------------------------------------------------------------
\* The heart of the barrier: a job leaves the queue and enters InFlight in one
\* step, and leaves InFlight and is counted in one step.
LEMMA NextQueueAccounting ==
  ASSUME SchedulerInv, [Next]_vars
  PROVE  QueueAccounting'
<1> USE SchedulerAssumption
<1>0. TypeOK /\ PhaseInv /\ QueueAccounting
  BY DEF SchedulerInv
<1>f. IsFiniteSet(InFlight) /\ Cardinality(InFlight) \in Nat
  BY InFlightFinite
<1>1. ASSUME NEW w \in Workers, WorkerTake(w)
      PROVE  QueueAccounting'
  <2>1. w \notin InFlight /\ InFlight' = InFlight \union {w}
    BY <1>0, <1>1 DEF WorkerTake, HasJob, Step, InFlight, TypeOK, WorkerPc
  <2>2. Cardinality(InFlight') = Cardinality(InFlight) + 1
    BY <2>1, <1>f, FS_AddElement
  <2> QED
    BY <1>0, <1>1, <1>f, <2>2 DEF WorkerTake, HasJob, queueVars, QueueAccounting, TypeOK
<1>2. ASSUME NEW w \in Workers, WorkerCount(w)
      PROVE  QueueAccounting'
  <2>1. w \in InFlight /\ InFlight' = InFlight \ {w}
    BY <1>0, <1>2 DEF WorkerCount, Step, InFlight, TypeOK, WorkerPc
  <2>2. Cardinality(InFlight') = Cardinality(InFlight) - 1
    BY <2>1, <1>f, FS_RemoveElement
  <2> QED
    BY <1>0, <1>2, <1>f, <2>2 DEF WorkerCount, queueVars, QueueAccounting, TypeOK
<1>3. CASE InFlight' = InFlight /\ UNCHANGED <<counters, qcapacity>>
  BY <1>0, <1>3 DEF QueueAccounting, counters
<1>4. ASSUME NEW j \in Jobs, SubmitJob(j)
      PROVE  QueueAccounting'
  <2>1. InFlight' = InFlight
    BY <1>4 DEF SubmitJob, workerVars, InFlight
  <2> QED
    BY <1>0, <1>4, <2>1 DEF SubmitJob, QueueAccounting, TypeOK
<1>5. CASE ExecuteAll
  <2>1. InFlight' = InFlight
    BY <1>5 DEF ExecuteAll, workerVars, InFlight
  <2> QED
    BY <1>0, <1>5, <2>1 DEF ExecuteAll, queueVars, QueueAccounting, TypeOK
<1>6. CASE BarrierReset
  <2>1. Cardinality(InFlight) = 0
    BY <1>0, <1>6, <1>f DEF BarrierReset, AllCounted, QueueAccounting, TypeOK
  <2>2. InFlight' = InFlight
    BY <1>6 DEF BarrierReset, AllCounted, workerVars, InFlight
  <2> QED
    BY <1>0, <1>6, <2>1, <2>2 DEF BarrierReset, AllCounted, queueVars, QueueAccounting, TypeOK
<1>7. ASSUME NEW w \in Workers,
             WorkerLock(w) \/ WorkerSleep(w) \/ WorkerExit(w)
               \/ WorkerRun(w) \/ WorkerRelock(w)
      PROVE  InFlight' = InFlight
  BY <1>0, <1>7 DEF WorkerLock, WorkerSleep, HasJob, WorkerExit, WorkerRun, WorkerRelock,
                    Step, InFlight, TypeOK, WorkerPc
<1>8. UNCHANGED pc => InFlight' = InFlight
  BY DEF InFlight
<1> QED
  BY <1>1, <1>2, <1>3, <1>4, <1>5, <1>6, <1>7, <1>8
     DEF Next, WorkerStep, MainStep, Terminated, vars, WorkerLock, WorkerSleep, HasJob,
         WorkerExit, WorkerRun, WorkerRelock, BarrierLock, BarrierSleep, AllCounted, Kill,
         Broadcast, WakeWorkers, Join, Destroy, SpuriousWakeup, queueVars, workerVars, counters,
         InFlight

-----------------------------------------------------------------------------
\* The jobs of a batch are submitted and stand in the queue once each.
LEMMA NextQueueInv ==
  ASSUME SchedulerInv, [Next]_vars
  PROVE  QueueInv'
<1> USE SchedulerAssumption
<1>0. TypeOK /\ PhaseInv /\ QueueAccounting /\ QueueInv
  BY DEF SchedulerInv
<1>1. ASSUME NEW j \in Jobs, SubmitJob(j)
      PROVE  QueueInv'
  <2>1. /\ current' = current + 1 /\ submitted' = submitted \union {j}
        /\ j \notin submitted
    BY <1>1 DEF SubmitJob
  <2>2. \A i \in 0..(current' - 1) : i = current \/ i \in 0..(current - 1)
    BY <1>0, <2>1 DEF TypeOK
  <2>3. /\ queue'[current] = j
        /\ \A i \in 0..(current - 1) : queue'[i] = queue[i]
    BY <1>1, SubmitExtends
  <2>4. \A i \in 0..(current' - 1) : queue'[i] \in submitted'
    BY <1>0, <2>1, <2>2, <2>3 DEF QueueInv
  <2>5. \A i, k \in 0..(current' - 1) : queue'[i] = queue'[k] => i = k
    BY <1>0, <2>1, <2>2, <2>3 DEF QueueInv
  <2> QED
    BY <2>4, <2>5 DEF QueueInv
<1>2. CASE BarrierReset
  BY <1>0, <1>2 DEF BarrierReset, AllCounted, QueueInv
<1>3. CASE UNCHANGED <<current, queue, submitted>>
  BY <1>0, <1>3 DEF QueueInv
<1> QED
  BY <1>1, <1>2, <1>3
     DEF Next, WorkerStep, MainStep, Terminated, vars, WorkerLock, WorkerSleep, HasJob,
         WorkerExit, WorkerTake, WorkerRun, WorkerRelock, WorkerCount, ExecuteAll,
         BarrierLock, BarrierSleep, AllCounted, Kill, Broadcast, WakeWorkers, Join, Destroy,
         SpuriousWakeup, counters, queueVars, history

-----------------------------------------------------------------------------
\* A job is executed by the worker that took it, and by no other.
LEMMA NextRunsInv ==
  ASSUME SchedulerInv, [Next]_vars
  PROVE  RunsInv'
<1> USE SchedulerAssumption
<1>0. /\ TypeOK /\ PhaseInv /\ QueueAccounting /\ QueueInv /\ RunsInv
      /\ start \in Nat /\ end \in Nat /\ current \in Nat /\ counter \in Nat
      /\ start <= end /\ end <= current
  BY DEF SchedulerInv, TypeOK, QueueAccounting
<1>1. ASSUME NEW w \in Workers, WorkerTake(w)
      PROVE  RunsInv'
  <2>1. /\ start' = start + 1 /\ start < end /\ start \in 0..(current - 1)
        /\ pc[w] # "run" /\ pc' = [pc EXCEPT ![w] = "run"]
        /\ job' = [job EXCEPT ![w] = queue[start]]
        /\ UNCHANGED <<current, queue, submitted, runs>>
    BY <1>0, <1>1 DEF WorkerTake, HasJob, Step, queueVars, history
  <2>2. \A i \in 0..(start - 1) : i \in 0..(current - 1) /\ i # start
    BY <1>0
  <2>3. \A v \in Workers : pc[v] = "run" => job[v] # queue[start]
    BY <1>0, <2>1, <2>2 DEF RunsInv, QueueInv
  <2>4. /\ \A v \in Workers : v # w => pc'[v] = pc[v] /\ job'[v] = job[v]
        /\ pc'[w] = "run" /\ job'[w] = queue[start]
    BY <1>0, <2>1 DEF TypeOK
  <2>5. runs[queue[start]] = 0
    BY <1>0, <2>1 DEF RunsInv
  <2>6. /\ \A i \in 0..(start' - 1) : i = start \/ i \in 0..(start - 1)
        /\ \A i \in 0..(start - 1) : i \in 0..(start' - 1)
        /\ start \in 0..(start' - 1)
        /\ \A i \in start'..(current - 1) : i \in start..(current - 1)
    BY <1>0, <2>1
  <2>7. \A i \in 0..(start' - 1) :
          runs[queue[i]] = 1
          \/ \E v \in Workers : pc'[v] = "run" /\ job'[v] = queue[i]
    BY <1>0, <2>1, <2>4, <2>6 DEF RunsInv
  <2>8. \A v \in Workers : pc'[v] = "run" =>
          runs[job'[v]] = 0 /\ \E i \in 0..(start' - 1) : job'[v] = queue[i]
    BY <1>0, <2>4, <2>5, <2>6 DEF RunsInv
  <2>9. \A u, v \in Workers :
          pc'[u] = "run" /\ pc'[v] = "run" /\ job'[u] = job'[v] => u = v
    BY <1>0, <2>3, <2>4 DEF RunsInv
  <2> QED
    BY <1>0, <2>1, <2>6, <2>7, <2>8, <2>9 DEF RunsInv
<1>2. ASSUME NEW w \in Workers, WorkerRun(w)
      PROVE  RunsInv'
  <2>1. /\ pc[w] = "run" /\ pc' = [pc EXCEPT ![w] = "relock"]
        /\ runs' = [runs EXCEPT ![job[w]] = @ + 1]
        /\ UNCHANGED <<current, start, queue, submitted, job>>
    BY <1>2 DEF WorkerRun, Step, counters, queueVars
  <2>2. /\ job[w] \in submitted /\ job[w] \in Jobs /\ runs[job[w]] = 0
        /\ \E i \in 0..(start - 1) : job[w] = queue[i]
    BY <2>1, RunningJobIsTaken
  <2>3. /\ runs'[job[w]] = 1
        /\ \A j \in Jobs : j # job[w] => runs'[j] = runs[j]
    BY <1>0, <2>1, <2>2 DEF TypeOK
  <2>4. /\ \A v \in Workers : v # w => pc'[v] = pc[v]
        /\ pc'[w] # "run"
    BY <1>0, <2>1 DEF TypeOK
  <2>5. /\ \A i \in 0..(start - 1) : i \in 0..(current - 1)
        /\ \A i \in start..(current - 1) :
             i \in 0..(current - 1) /\ i \notin 0..(start - 1)
    BY <1>0
  <2>6. \A i \in 0..(current - 1) : queue[i] \in Jobs
    BY <1>0 DEF QueueInv, TypeOK
  <2>7. \A i \in start..(current - 1) : runs'[queue[i]] = 0
    BY <1>0, <2>2, <2>3, <2>5, <2>6 DEF QueueInv, RunsInv
  <2>8. \A i \in 0..(start - 1) :
          runs'[queue[i]] = 1
          \/ \E v \in Workers : pc'[v] = "run" /\ job[v] = queue[i]
    BY <1>0, <2>3, <2>4, <2>5, <2>6 DEF RunsInv
  <2>9. \A v \in Workers : pc'[v] = "run" =>
          runs'[job[v]] = 0 /\ \E i \in 0..(start - 1) : job[v] = queue[i]
    <3> SUFFICES ASSUME NEW v \in Workers, pc'[v] = "run"
                 PROVE  runs'[job[v]] = 0
                        /\ \E i \in 0..(start - 1) : job[v] = queue[i]
      OBVIOUS
    <3>1. pc[v] = "run" /\ v # w
      BY <2>4
    <3>2. job[v] # job[w]
      BY <1>0, <2>1, <3>1 DEF RunsInv
    <3> QED
      BY <2>3, <3>1, <3>2, RunningJobIsTaken
  <2>10. \A u, v \in Workers :
           pc'[u] = "run" /\ pc'[v] = "run" /\ job[u] = job[v] => u = v
    BY <1>0, <2>4 DEF RunsInv
  <2>11. \A j \in Jobs :
           /\ runs'[j] \in {0, 1}
           /\ j \notin submitted => runs'[j] = 0
           /\ runs[j] = 1 => runs'[j] = 1
    <3>1. \A j \in Jobs : runs[j] \in {0, 1} /\ (j \notin submitted => runs[j] = 0)
      BY <1>0 DEF RunsInv
    <3> QED
      BY <2>2, <2>3, <3>1
  <2>12. \A j \in submitted :
           runs'[j] = 1 \/ \E i \in 0..(current - 1) : queue[i] = j
    <3>1. /\ submitted \subseteq Jobs
          /\ \A j \in submitted :
               runs[j] = 1 \/ \E i \in 0..(current - 1) : queue[i] = j
      BY <1>0 DEF RunsInv, TypeOK
    <3> QED
      BY <2>11, <3>1
  <2>13. /\ \A j \in Jobs : runs'[j] \in {0, 1}
         /\ \A j \in Jobs : j \notin submitted => runs'[j] = 0
    BY <2>11
  <2> QED
    BY <2>1, <2>7, <2>8, <2>9, <2>10, <2>12, <2>13 DEF RunsInv
<1>3. ASSUME NEW j \in Jobs, SubmitJob(j)
      PROVE  RunsInv'
  <2>1. /\ current' = current + 1 /\ submitted' = submitted \union {j}
        /\ j \notin submitted /\ UNCHANGED <<start, pc, job, runs>>
    BY <1>3 DEF SubmitJob, workerVars
  <2>2. /\ queue'[current] = j
        /\ \A i \in 0..(current - 1) : queue'[i] = queue[i]
    BY <1>3, SubmitExtends
  <2>3. /\ \A i \in start..(current' - 1) : i = current \/ i \in start..(current - 1)
        /\ \A i \in start..(current - 1) : i \in 0..(current - 1)
        /\ \A i \in 0..(start - 1) : i \in 0..(current - 1)
        /\ \A i \in 0..(current - 1) : i \in 0..(current' - 1)
        /\ current \in 0..(current' - 1)
    BY <1>0, <2>1
  <2>4. runs[j] = 0
    BY <1>0, <2>1 DEF RunsInv
  <2>5. \A k \in submitted' :
          runs[k] = 1 \/ \E i \in 0..(current' - 1) : queue'[i] = k
    BY <1>0, <2>1, <2>2, <2>3 DEF RunsInv
  <2>6. \A i \in start..(current' - 1) : runs[queue'[i]] = 0
    BY <1>0, <2>2, <2>3, <2>4 DEF RunsInv
  <2>7. \A i \in 0..(start - 1) :
          runs[queue'[i]] = 1
          \/ \E w \in Workers : pc[w] = "run" /\ job[w] = queue'[i]
    BY <1>0, <2>2, <2>3 DEF RunsInv
  <2>8. \A w \in Workers : pc[w] = "run" =>
          runs[job[w]] = 0 /\ \E i \in 0..(start - 1) : job[w] = queue'[i]
    BY <1>0, <2>2, <2>3 DEF RunsInv
  <2>9. /\ \A k \in Jobs : runs[k] \in {0, 1}
        /\ \A k \in Jobs : k \notin submitted' => runs[k] = 0
        /\ \A v, w \in Workers :
             pc[v] = "run" /\ pc[w] = "run" /\ job[v] = job[w] => v = w
    BY <1>0, <2>1 DEF RunsInv
  <2> QED
    BY <2>1, <2>5, <2>6, <2>7, <2>8, <2>9 DEF RunsInv
<1>4. CASE BarrierReset
  <2>1. /\ start' = 0 /\ current' = 0
        /\ UNCHANGED <<queue, submitted, runs, pc, job>>
    BY <1>4 DEF BarrierReset, AllCounted, queueVars, workerVars, history
  <2>2. start = current /\ Cardinality(InFlight) = 0
    BY <1>0, <1>4, InFlightFinite
       DEF BarrierReset, AllCounted, QueueAccounting, PhaseInv, AtBarrier
  <2>3. InFlight = {}
    BY <2>2, InFlightFinite, FS_EmptySet
  <2>4. \A w \in Workers : pc[w] # "run"
    BY <2>3 DEF InFlight
  <2>5. \A j \in submitted : runs[j] = 1
    BY <1>0, <2>2, <2>4 DEF RunsInv
  <2> QED
    BY <1>0, <2>1, <2>4, <2>5 DEF RunsInv
<1>5. ASSUME UNCHANGED <<start, current, queue, submitted, runs, job>>,
             \A v \in Workers : pc'[v] = "run" <=> pc[v] = "run"
      PROVE  RunsInv'
  BY <1>0, <1>5 DEF RunsInv
<1>6. ASSUME NEW w \in Workers,
             WorkerLock(w) \/ WorkerSleep(w) \/ WorkerExit(w)
               \/ WorkerRelock(w) \/ WorkerCount(w)
      PROVE  RunsInv'
  <2>1. \A v \in Workers : pc'[v] = "run" <=> pc[v] = "run"
    BY <1>0, <1>6 DEF WorkerLock, WorkerSleep, HasJob, WorkerExit, WorkerRelock,
                      WorkerCount, Step, TypeOK
  <2> QED
    BY <1>5, <1>6, <2>1 DEF WorkerLock, WorkerSleep, HasJob, WorkerExit, WorkerRelock,
                            WorkerCount, counters, queueVars, history
<1>7. CASE UNCHANGED <<start, current, queue, submitted, runs, job, pc>>
  BY <1>5, <1>7
<1> QED
  BY <1>1, <1>2, <1>3, <1>4, <1>6, <1>7
     DEF Next, WorkerStep, MainStep, Terminated, vars, ExecuteAll, BarrierLock,
         BarrierSleep, AllCounted, Kill, Broadcast, WakeWorkers, Join, Destroy, SpuriousWakeup, counters,
         queueVars, workerVars, history

-----------------------------------------------------------------------------
(***************************************************************************)
(* The inductive invariant, and what follows from it.                      *)
(***************************************************************************)
\* JobScheduler_Init leaves the pool in a state of the inductive invariant.
LEMMA InitSchedulerInv == Init => SchedulerInv
<1> SUFFICES ASSUME Init PROVE SchedulerInv
  OBVIOUS
<1> USE SchedulerAssumption
<1>1. InFlight = {} /\ Cardinality(InFlight) = 0
  BY FS_EmptySet DEF Init, InFlight
<1>2. MutexInv /\ PhaseInv /\ BlockedInv
  BY DEF Init, MutexInv, PhaseInv, BlockedInv, AtBarrier
<1>3. QueueAccounting
  BY <1>1 DEF Init, QueueAccounting
<1>4. QueueInv
  BY DEF Init, QueueInv
<1>5. RunsInv
  BY DEF Init, RunsInv
<1> QED
  BY <1>2, <1>3, <1>4, <1>5, InitTypeOK DEF SchedulerInv

\* The pool of JobScheduler.c and the main thread keep the inductive invariant,
\* whatever the scheduling, the wake-ups and the sizes of the bursts.
THEOREM SchedulerInvariant == Spec => []SchedulerInv
<1>1. Init => SchedulerInv
  BY InitSchedulerInv
<1>2. SchedulerInv /\ [Next]_vars => SchedulerInv'
  BY NextTypeOK, NextMutexInv, NextPhaseInv, NextBlockedInv, NextQueueAccounting,
     NextQueueInv, NextRunsInv
  DEF SchedulerInv
<1> QED
  BY <1>1, <1>2, PTL DEF Spec

\* The fields of struct jobScheduler, the condition variables' wait sets and
\* the threads' positions keep their types; no index leaves the natural numbers
\* and the queue array always has qcapacity slots.
THEOREM TypeCorrect == Spec => []TypeOK
<1>1. SchedulerInv => TypeOK
  BY DEF SchedulerInv
<1> QED
  BY <1>1, SchedulerInvariant, PTL

\* start never passes end, end never passes current, current never passes the
\* capacity, and counter always equals the jobs taken minus the jobs in
\* flight, for any number of workers.
THEOREM Accounting == Spec => []QueueAccounting
<1>1. SchedulerInv => QueueAccounting
  BY DEF SchedulerInv
<1> QED
  BY <1>1, SchedulerInvariant, PTL

\* While the main thread is not in JobScheduler_wait_all_tasks_finish no worker
\* holds a job and, before the shutdown, none can take one: the lock-free
\* accesses of the main thread to the queue and the trie race with nobody.
THEOREM Isolation == Spec => []BarrierIsolation
<1>1. SchedulerInv => BarrierIsolation
  <2> SUFFICES ASSUME SchedulerInv, ~AtBarrier PROVE InFlight = {} /\ start = end
    BY DEF BarrierIsolation
  <2>1. /\ end = 0 /\ start \in Nat /\ counter \in Nat /\ start <= end
        /\ counter + Cardinality(InFlight) = start
    BY DEF SchedulerInv, PhaseInv, TypeOK, QueueAccounting
  <2>2. Cardinality(InFlight) = 0 /\ start = 0
    BY <2>1, InFlightFinite
  <2> QED
    BY <2>1, <2>2, InFlightFinite, FS_EmptySet
<1> QED
  BY <1>1, SchedulerInvariant, PTL

\* Each job handed to JobScheduler_SubmitJob is executed exactly once between
\* its release and the end of its burst, for every interleaving of the pool.
THEOREM Once == Spec => []ExactlyOnce
<1>1. SchedulerInv => ExactlyOnce
  <2> SUFFICES ASSUME SchedulerInv PROVE ExactlyOnce
    OBVIOUS
  <2>0. /\ RunsInv /\ submitted \in SUBSET Jobs /\ runs \in [Jobs -> Nat]
        /\ start \in Nat /\ current \in Nat
    BY DEF SchedulerInv, TypeOK
  <2>1. \A j \in Jobs : runs[j] <= 1
    BY <2>0 DEF RunsInv
  <2>2. \A w \in Workers : pc[w] = "run" => job[w] \in Taken /\ runs[job[w]] = 0
    BY <2>0 DEF RunsInv, Taken
  <2>3. \A j \in submitted \ Batch : runs[j] = 1
    BY <2>0 DEF RunsInv, Batch
  <2>4. ASSUME NEW j \in Batch \ Taken PROVE runs[j] = 0
    <3>1. PICK i \in 0..(current - 1) : queue[i] = j
      BY DEF Batch
    <3>2. i \notin 0..(start - 1)
      BY <2>4, <3>1 DEF Taken
    <3>3. i \in start..(current - 1)
      BY <2>0, <3>2
    <3> QED
      BY <2>0, <3>1, <3>3 DEF RunsInv
  <2> QED
    BY <2>1, <2>2, <2>3, <2>4 DEF ExactlyOnce
<1> QED
  BY <1>1, SchedulerInvariant, PTL

\* The end + 1 signals of execute_all_jobs, the signal of each worker and the
\* broadcast of the shutdown are enough: nobody is left blocked with work to do.
THEOREM WakeUps == Spec => []NoLostWakeup
<1>1. SchedulerInv => NoLostWakeup
  BY DEF SchedulerInv, BlockedInv, NoLostWakeup
<1> QED
  BY <1>1, SchedulerInvariant, PTL

-----------------------------------------------------------------------------
(***************************************************************************)
(* JobScheduler implements WorkPool: phase, batch, begun and finished of   *)
(* the pool are read off the state of the scheduler (Pool, in              *)
(* JobScheduler).  Six actions change them, each by one action of the      *)
(* pool; all others leave them alone.                                      *)
(***************************************************************************)
\* What the refinement mapping substitutes for phase and finished.
Phase == IF kill = 1 THEN "closed" ELSE IF AtBarrier THEN "run" ELSE "collect"
Finished == {j \in Taken : runs[j] = 1}

-----------------------------------------------------------------------------
(***************************************************************************)
(* The queue as the pool sees it.                                          *)
(***************************************************************************)

\* The scheduler's indices, and the jobs they delimit.
LEMMA Indices ==
  ASSUME SchedulerInv
  PROVE  /\ start \in Nat /\ end \in Nat /\ current \in Nat /\ counter \in Nat
         /\ start <= end /\ end <= current
         /\ Taken \subseteq Batch
         /\ Batch \subseteq submitted /\ submitted \subseteq Jobs
<1>1. /\ start \in Nat /\ end \in Nat /\ current \in Nat /\ counter \in Nat
      /\ start <= end /\ end <= current /\ submitted \subseteq Jobs
  BY DEF SchedulerInv, TypeOK, QueueAccounting
<1>2. Taken \subseteq Batch
  BY <1>1 DEF Taken, Batch
<1>3. Batch \subseteq submitted
  BY DEF Batch, SchedulerInv, QueueInv
<1> QED
  BY <1>1, <1>2, <1>3

\* Before a batch is released none of its jobs was taken.
LEMMA CollectingTookNothing ==
  ASSUME SchedulerInv, ~AtBarrier
  PROVE  start = 0 /\ Taken = {} /\ Finished = {}
<1>1. end = 0
  BY DEF SchedulerInv, PhaseInv
<1>2. start = 0
  BY <1>1, Indices
<1> QED
  BY <1>2 DEF Taken, Finished

\* Jobs are taken only at the barrier, and never during the shutdown.
LEMMA TakingIsAtBarrier ==
  ASSUME SchedulerInv, end # 0
  PROVE  AtBarrier /\ kill = 0
<1>1. current # 0
  BY Indices
<1> QED
  BY <1>1 DEF SchedulerInv, PhaseInv, TypeOK

-----------------------------------------------------------------------------
(***************************************************************************)
(* The steps.                                                              *)
(***************************************************************************)

\* A new thread pool, with no batch.
LEMMA InitPool == Init => Pool!PoolInit
  BY DEF Init, Pool!PoolInit, AtBarrier, Batch, Taken

\* A worker that leaves the mutex with a job begins a job nobody began.
LEMMA TakeBegins ==
  ASSUME SchedulerInv, NEW w \in Workers, WorkerTake(w)
  PROVE  \E j \in Jobs : Pool!Begin(j)
<1>1. /\ start' = start + 1 /\ end # start
      /\ UNCHANGED <<end, current, queue, kill, mainPc, runs>>
  BY DEF WorkerTake, HasJob, queueVars, history
<1>2. /\ start \in 0..(current - 1) /\ end # 0
      /\ \A i \in 0..(start' - 1) : i = start \/ i \in 0..(start - 1)
      /\ \A i \in 0..(start - 1) : i \in 0..(start' - 1)
      /\ \A i \in 0..(start - 1) : i \in 0..(current - 1) /\ i # start
      /\ start \in 0..(start' - 1)
  BY <1>1, Indices
<1>3. queue[start] \in Batch \ Taken
  BY <1>2 DEF Batch, Taken, SchedulerInv, QueueInv
<1>4. Taken' = Taken \union {queue[start]}
  BY <1>1, <1>2 DEF Taken
<1>5. runs[queue[start]] = 0
  <2>1. start \in start..(current - 1)
    BY <1>2, Indices
  <2> QED
    BY <2>1 DEF SchedulerInv, RunsInv
<1>6. Finished' = Finished
  BY <1>1, <1>4, <1>5 DEF Finished
<1>7. AtBarrier /\ kill = 0
  BY <1>2, TakingIsAtBarrier
<1>8. Phase = "run" /\ Phase' = Phase /\ Batch' = Batch
  BY <1>1, <1>7 DEF Phase, AtBarrier, Batch
<1>9. Pool!Begin(queue[start])
  BY <1>3, <1>4, <1>6, <1>8 DEF Pool!Begin, Phase, Finished
<1>10. queue[start] \in Jobs
  BY <1>3, Indices
<1> QED
  BY <1>9, <1>10

\* A worker that executed its job finishes a job that was begun, and once.
LEMMA RunFinishes ==
  ASSUME SchedulerInv, NEW w \in Workers, WorkerRun(w)
  PROVE  \E j \in Jobs : Pool!Finish(j)
<1>1. /\ pc[w] = "run"
      /\ runs' = [runs EXCEPT ![job[w]] = @ + 1]
      /\ UNCHANGED <<start, end, current, queue, kill, mainPc>>
  BY DEF WorkerRun, Step, counters, queueVars
<1>2. /\ job[w] \in Jobs /\ runs[job[w]] = 0
      /\ \E i \in 0..(start - 1) : job[w] = queue[i]
  BY <1>1, RunningJobIsTaken
<1>3. job[w] \in Taken \ Finished
  BY <1>2 DEF Taken, Finished
<1>4. AtBarrier /\ kill = 0
  <2>1. end # 0
    BY <1>2, Indices
  <2> QED
    BY <2>1, TakingIsAtBarrier
<1>5. Phase = "run" /\ Phase' = Phase /\ Batch' = Batch /\ Taken' = Taken
  BY <1>1, <1>4 DEF Phase, AtBarrier, Batch, Taken
<1>6. Finished' = Finished \union {job[w]}
  <2>1. runs \in [Jobs -> Nat] /\ Taken \subseteq Jobs
    BY Indices DEF SchedulerInv, TypeOK
  <2>2. runs'[job[w]] = 1 /\ \A j \in Jobs : j # job[w] => runs'[j] = runs[j]
    BY <1>1, <1>2, <2>1
  <2> QED
    BY <1>3, <1>5, <2>1, <2>2 DEF Finished
<1>7. PICK j \in Jobs : j = job[w]
  BY <1>2
<1>8. Pool!Finish(j)
  BY <1>3, <1>5, <1>6, <1>7 DEF Pool!Finish, Phase, Finished
<1> QED
  BY <1>8

\* Submitting a job adds a new job to a batch nobody works on.
LEMMA SubmitCollects ==
  ASSUME SchedulerInv, NEW j \in Jobs, SubmitJob(j)
  PROVE  Pool!Collect(j)
<1>1. /\ mainPc = "collect" /\ j \notin submitted
      /\ current' = current + 1
      /\ UNCHANGED <<start, end, kill, mainPc, runs>>
  BY DEF SubmitJob
<1>2. Phase = "collect" /\ Phase' = Phase /\ ~AtBarrier
  BY <1>1 DEF Phase, AtBarrier, SchedulerInv, PhaseInv, TypeOK
<1>3. start = 0 /\ Taken = {} /\ Finished = {}
  BY <1>2, CollectingTookNothing
<1>4. Taken' = {} /\ Finished' = {}
  BY <1>1, <1>3 DEF Taken, Finished
<1>5. /\ queue'[current] = j
      /\ \A i \in 0..(current - 1) : queue'[i] = queue[i]
  BY SubmitExtends
<1>6. /\ \A i \in 0..(current' - 1) : i = current \/ i \in 0..(current - 1)
      /\ \A i \in 0..(current - 1) : i \in 0..(current' - 1)
      /\ current \in 0..(current' - 1)
  BY <1>1, Indices
<1>7. Batch' = Batch \union {j}
  BY <1>5, <1>6 DEF Batch
<1>8. j \notin Batch
  BY <1>1, Indices
<1> QED
  BY <1>2, <1>3, <1>4, <1>7, <1>8 DEF Pool!Collect, Phase, Finished

\* JobScheduler_execute_all_jobs publishes the batch as it is.
LEMMA ExecuteReleases ==
  ASSUME SchedulerInv, ExecuteAll
  PROVE  Pool!Release
<1>1. /\ mainPc = "collect" /\ mainPc' = "barrier"
      /\ UNCHANGED <<start, current, queue, kill, runs>>
  BY DEF ExecuteAll, queueVars, history
<1>2. Phase = "collect" /\ Phase' = "run"
  BY <1>1 DEF Phase, AtBarrier, SchedulerInv, PhaseInv, TypeOK
<1>3. Batch' = Batch /\ Taken' = Taken /\ Finished' = Finished
  BY <1>1 DEF Batch, Taken, Finished
<1> QED
  BY <1>2, <1>3 DEF Pool!Release, Phase, Finished

\* The main thread leaves the barrier only when every job of the batch has been
\* executed: all are counted, so none is in flight.
LEMMA ResetCompletes ==
  ASSUME SchedulerInv, BarrierReset
  PROVE  Pool!Complete
<1>1. /\ mainPc = "test" /\ mainPc' = "collect" /\ counter >= end
      /\ start' = 0 /\ current' = 0
      /\ UNCHANGED <<queue, kill, runs>>
  BY DEF BarrierReset, AllCounted, queueVars, history
<1>2. Phase = "run" /\ Phase' = "collect" /\ kill = 0
  BY <1>1 DEF Phase, AtBarrier, SchedulerInv, PhaseInv, TypeOK
<1>3. Batch' = {} /\ Taken' = {} /\ Finished' = {}
  BY <1>1 DEF Batch, Taken, Finished
<1>4. end = current
  BY <1>1 DEF SchedulerInv, PhaseInv, AtBarrier
<1>5. counter + Cardinality(InFlight) = start
  BY DEF SchedulerInv, QueueAccounting
<1>6. start = current /\ Cardinality(InFlight) = 0
  BY <1>1, <1>4, <1>5, Indices, InFlightFinite
<1>7. \A w \in Workers : pc[w] # "run"
  <2>1. InFlight = {}
    BY <1>6, InFlightFinite, FS_EmptySet
  <2> QED
    BY <2>1 DEF InFlight
<1>8. Batch = Taken /\ Finished = Taken
  <2>1. \A i \in 0..(start - 1) : runs[queue[i]] = 1
    BY <1>7 DEF SchedulerInv, RunsInv
  <2> QED
    BY <1>6, <2>1 DEF Batch, Taken, Finished
<1> QED
  BY <1>2, <1>3, <1>8 DEF Pool!Complete, Phase, Finished

\* The shutdown begins with no batch open.
LEMMA KillCloses ==
  ASSUME SchedulerInv, Kill
  PROVE  Pool!Close
<1>1. /\ mainPc = "collect" /\ current = 0 /\ kill' = 1
      /\ UNCHANGED <<start, current, queue, runs>>
  BY DEF Kill, counters, queueVars, history
<1>2. Phase = "collect" /\ Phase' = "closed"
  BY <1>1 DEF Phase, AtBarrier, SchedulerInv, PhaseInv, TypeOK
<1>3. Batch = {} /\ Batch' = Batch /\ Taken' = Taken /\ Finished' = Finished
  BY <1>1 DEF Batch, Taken, Finished
<1> QED
  BY <1>2, <1>3 DEF Pool!Close, Phase, Finished

\* Locks, waits, wake-ups, counting and joining are the pool's own business.
LEMMA StepStutters ==
  ASSUME UNCHANGED <<start, current, queue, kill, runs>>,
         AtBarrier' = AtBarrier
  PROVE  UNCHANGED Pool!poolVars
<1>1. Phase' = Phase /\ Batch' = Batch /\ Taken' = Taken /\ Finished' = Finished
  BY DEF Phase, Batch, Taken, Finished
<1> QED
  BY <1>1 DEF Pool!poolVars, Phase, Finished

\* Every step of the scheduler is a step of the pool or leaves it as it is.
LEMMA NextPool ==
  ASSUME SchedulerInv, [Next]_vars
  PROVE  [Pool!PoolNext]_(Pool!poolVars)
<1>1. ASSUME NEW w \in Workers, WorkerStep(w)
      PROVE  [Pool!PoolNext]_(Pool!poolVars)
  <2>1. CASE WorkerTake(w)
    BY <2>1, TakeBegins DEF Pool!PoolNext
  <2>2. CASE WorkerRun(w)
    BY <2>2, RunFinishes DEF Pool!PoolNext
  <2>3. CASE \/ WorkerLock(w) \/ WorkerSleep(w) \/ WorkerExit(w)
             \/ WorkerRelock(w) \/ WorkerCount(w)
    <3>1. UNCHANGED <<start, current, queue, kill, runs, mainPc>>
      BY <2>3 DEF WorkerLock, WorkerSleep, HasJob, WorkerExit, WorkerRelock, WorkerCount,
                  counters, queueVars, history
    <3> QED
      BY <3>1, StepStutters DEF AtBarrier
  <2> QED
    BY <1>1, <2>1, <2>2, <2>3 DEF WorkerStep
<1>2. ASSUME NEW j \in Jobs, SubmitJob(j)
      PROVE  Pool!PoolNext
  BY <1>2, SubmitCollects DEF Pool!PoolNext
<1>3. CASE ExecuteAll
  BY <1>3, ExecuteReleases DEF Pool!PoolNext
<1>4. CASE BarrierReset
  BY <1>4, ResetCompletes DEF Pool!PoolNext
<1>5. CASE Kill
  BY <1>5, KillCloses DEF Pool!PoolNext
<1>6. CASE \/ BarrierLock \/ BarrierSleep \/ Broadcast \/ Join \/ Destroy
           \/ \E t \in Workers \union {Main} : SpuriousWakeup(t)
           \/ UNCHANGED vars
  <2>1. UNCHANGED <<start, current, queue, kill, runs>> /\ AtBarrier' = AtBarrier
    BY <1>6 DEF BarrierLock, BarrierSleep, AllCounted, Broadcast, WakeWorkers, Join, Destroy,
                SpuriousWakeup, AtBarrier, counters, queueVars, history, vars
  <2> QED
    BY <2>1, StepStutters
<1> QED
  BY <1>1, <1>2, <1>3, <1>4, <1>5, <1>6 DEF Next, MainStep, Terminated

\* The thread pool of JobScheduler.c, with its mutex, its two condition
\* variables and its growing queue, is a fork-join pool: a job is begun only
\* after its batch is released, once, and the caller of
\* JobScheduler_wait_all_tasks_finish goes on only when all are finished.
THEOREM Refinement == Spec => ImplementsPool
<1>1. Init => Pool!PoolInit
  BY InitPool
<1>2. SchedulerInv /\ [Next]_vars => [Pool!PoolNext]_(Pool!poolVars)
  BY NextPool
<1> QED
  BY <1>1, <1>2, SchedulerInvariant, PTL DEF Spec, ImplementsPool, Pool!PoolSpec
=============================================================================
