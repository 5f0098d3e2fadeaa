---------------------------- MODULE JobScheduler ----------------------------
(***************************************************************************)
(* Threads/JobScheduler.c: the pool of worker threads, its queue and the   *)
(* barrier the main thread waits at, with the shutdown at the end of       *)
(* readQueryFile (parsing.c) and JobScheduler_Destroy.                     *)
(*                                                                         *)
(* A variable named after a field of struct jobScheduler is that field.    *)
(* queue_empty and wait are the two condition variables: the sets of the   *)
(* threads blocked on them.  The main thread is the only one that submits  *)
(* jobs, releases them, waits and shuts down.  What a job does             *)
(* (commandsPtr) is the subject of module Bursts; here it is counted.      *)
(***************************************************************************)
EXTENDS Naturals, FiniteSets

CONSTANTS
  Workers,    \* the thread pool (THREADPOOL threads)
  Main,       \* the main thread
  Jobs,       \* the jobs of all bursts of an execution
  NoJob,      \* what an unwritten queue slot holds
  NoThread,   \* owner of a free mutex
  QINIT       \* initial capacity of the queue

ASSUME SchedulerAssumption ==
  /\ IsFiniteSet(Workers) /\ Workers # {}
  /\ Main \notin Workers /\ NoThread \notin Workers \union {Main}
  /\ NoJob \notin Jobs
  /\ QINIT \in Nat \ {0}

VARIABLES
  end, start, current, counter, qcapacity, kill, queue,
  mutex,        \* owner of queue_mutex
  queue_empty,  \* threads blocked in pthread_cond_wait(&queue_empty, ...)
  wait,         \* threads blocked in pthread_cond_wait(&wait, ...)
  pc,           \* where each worker is
  job,          \* the local variable of worker()
  mainPc,       \* where the main thread is
  submitted,    \* history: every job ever submitted
  runs          \* history: how many times each job was executed

counters == <<end, start, current, counter>>
queueVars == <<queue, qcapacity>>
syncVars == <<mutex, queue_empty, wait>>
workerVars == <<pc, job>>
history == <<submitted, runs>>
vars == <<end, start, current, counter, queue, qcapacity, kill, mutex,
          queue_empty, wait, pc, job, mainPc, submitted, runs>>

WorkerPc == {"lock", "check", "asleep", "run", "relock", "count", "exited"}
MainPc == {"collect", "barrier", "test", "blocked", "broadcast", "join",
           "joined", "destroyed"}

(***************************************************************************)
(* JobScheduler_Init.  A created worker that was not scheduled yet is one  *)
(* that has not reached its first pthread_mutex_lock.                      *)
(***************************************************************************)
Init ==
  /\ end = 0 /\ start = 0 /\ current = 0 /\ counter = 0
  /\ qcapacity = QINIT
  /\ queue = [i \in 0..(QINIT - 1) |-> NoJob]
  /\ kill = 0
  /\ mutex = NoThread
  /\ queue_empty = {} /\ wait = {}
  /\ pc = [w \in Workers |-> "lock"]
  /\ job = [w \in Workers |-> NoJob]
  /\ mainPc = "collect"
  /\ submitted = {}
  /\ runs = [j \in Jobs |-> 0]

(***************************************************************************)
(* The worker threads.                                                     *)
(***************************************************************************)
Step(w, from, to) == pc[w] = from /\ pc' = [pc EXCEPT ![w] = to]

\* Mutant of HasJob: the emptiness test is not repeated after a wake-up.
HasJobAlways == TRUE

HasJob == end # start

\* pthread_mutex_lock at the head of the loop, or the lock taken again by a
\* pthread_cond_wait that was woken up.
WorkerLock(w) ==
  /\ \/ pc[w] = "lock"
     \/ pc[w] = "asleep" /\ w \notin queue_empty
  /\ pc' = [pc EXCEPT ![w] = "check"]
  /\ mutex = NoThread /\ mutex' = w
  /\ UNCHANGED <<counters, queueVars, kill, queue_empty, wait, job, mainPc,
                 history>>

\* No job in the queue: wait, which releases the mutex in the same step.
WorkerSleep(w) ==
  /\ Step(w, "check", "asleep")
  /\ kill = 0 /\ ~HasJob
  /\ queue_empty' = queue_empty \union {w}
  /\ mutex' = NoThread
  /\ UNCHANGED <<counters, queueVars, kill, wait, job, mainPc, history>>

WorkerExit(w) ==
  /\ Step(w, "check", "exited")
  /\ kill = 1
  /\ mutex' = NoThread
  /\ UNCHANGED <<counters, queueVars, kill, queue_empty, wait, job, mainPc,
                 history>>

WorkerTake(w) ==
  /\ Step(w, "check", "run")
  /\ kill = 0 /\ HasJob
  /\ job' = [job EXCEPT ![w] = queue[start]]
  /\ start' = start + 1
  /\ mutex' = NoThread
  /\ UNCHANGED <<end, current, counter, queueVars, kill, queue_empty, wait,
                 mainPc, history>>

\* (*commandsPtr)(job), outside the mutex.
WorkerRun(w) ==
  /\ Step(w, "run", "relock")
  /\ runs' = [runs EXCEPT ![job[w]] = @ + 1]
  /\ UNCHANGED <<counters, queueVars, kill, syncVars, job, mainPc, submitted>>

WorkerRelock(w) ==
  /\ Step(w, "relock", "count")
  /\ mutex = NoThread /\ mutex' = w
  /\ UNCHANGED <<counters, queueVars, kill, queue_empty, wait, job, mainPc,
                 history>>

\* Mutant of SignalWait: the main thread is not signalled.
SignalWaitNot == UNCHANGED wait

\* pthread_cond_signal: one of the blocked threads is unblocked, if any is.
SignalWait ==
  IF wait = {} THEN wait' = {}
               ELSE \E t \in wait : wait' = wait \ {t}

WorkerCount(w) ==
  /\ Step(w, "count", "lock")
  /\ counter' = counter + 1
  /\ SignalWait
  /\ mutex' = NoThread
  /\ UNCHANGED <<end, start, current, queueVars, kill, queue_empty, job,
                 mainPc, history>>

(***************************************************************************)
(* The main thread.                                                        *)
(***************************************************************************)
\* Mutants of Grow: the queue is not reallocated; its jobs are not copied.
GrowNot(q, capacity) == q
GrowFresh(q, capacity) == [i \in 0..(capacity - 1) |-> NoJob]

Grow(q, capacity) ==
  [i \in 0..(capacity - 1) |-> IF i \in DOMAIN q THEN q[i] ELSE NoJob]

\* JobScheduler_SubmitJob: called without the mutex, by the main thread only.
SubmitJob(j) ==
  /\ mainPc = "collect"
  /\ j \in Jobs \ submitted
  /\ qcapacity' = IF current = qcapacity THEN 2 * qcapacity ELSE qcapacity
  /\ queue' = [Grow(queue, qcapacity') EXCEPT ![current] = j]
  /\ current' = current + 1
  /\ submitted' = submitted \union {j}
  /\ UNCHANGED <<end, start, counter, kill, syncVars, workerVars, mainPc, runs>>

\* n calls of pthread_cond_signal(&queue_empty).
SignalQueueEmpty(n) ==
  \E woken \in SUBSET queue_empty :
    /\ Cardinality(woken) = IF n <= Cardinality(queue_empty)
                            THEN n ELSE Cardinality(queue_empty)
    /\ queue_empty' = queue_empty \ woken

\* JobScheduler_execute_all_jobs: lock, publish, end + 1 signals, unlock.
ExecuteAll ==
  /\ mainPc = "collect" /\ mainPc' = "barrier"
  /\ mutex = NoThread
  /\ end' = current
  /\ SignalQueueEmpty(current + 1)
  /\ UNCHANGED <<start, current, counter, queueVars, kill, mutex, wait,
                 workerVars, history>>

\* JobScheduler_wait_all_tasks_finish: the lock, taken first or by a
\* pthread_cond_wait that was woken up.
BarrierLock ==
  /\ \/ mainPc = "barrier"
     \/ mainPc = "blocked" /\ Main \notin wait
  /\ mainPc' = "test"
  /\ mutex = NoThread /\ mutex' = Main
  /\ UNCHANGED <<counters, queueVars, kill, queue_empty, wait, workerVars,
                 history>>

\* Mutant of AllCounted: the jobs are taken, perhaps not finished.
AllCountedTaken == start >= end

AllCounted == counter >= end

BarrierSleep ==
  /\ mainPc = "test" /\ mainPc' = "blocked"
  /\ ~AllCounted
  /\ wait' = wait \union {Main}
  /\ mutex' = NoThread
  /\ UNCHANGED <<counters, queueVars, kill, queue_empty, workerVars, history>>

BarrierReset ==
  /\ mainPc = "test" /\ mainPc' = "collect"
  /\ AllCounted
  /\ end' = 0 /\ start' = 0 /\ current' = 0 /\ counter' = 0
  /\ mutex' = NoThread
  /\ UNCHANGED <<queueVars, kill, queue_empty, wait, workerVars, history>>

\* The end of readQueryFile: kill is set under the mutex, at the end of the
\* query file and so never with jobs submitted and not released.
Kill ==
  /\ mainPc = "collect" /\ mainPc' = "broadcast"
  /\ current = 0
  /\ mutex = NoThread
  /\ kill' = 1
  /\ UNCHANGED <<counters, queueVars, syncVars, workerVars, history>>

\* Mutant of WakeWorkers: pthread_cond_signal in place of the broadcast.
WakeWorkersOne == SignalQueueEmpty(1)

WakeWorkers == queue_empty' = {}

\* The broadcast comes after the unlock.
Broadcast ==
  /\ mainPc = "broadcast" /\ mainPc' = "join"
  /\ WakeWorkers
  /\ UNCHANGED <<counters, queueVars, kill, mutex, wait, workerVars, history>>

\* The loop of pthread_join over all workers.
Join ==
  /\ mainPc = "join" /\ mainPc' = "joined"
  /\ \A w \in Workers : pc[w] = "exited"
  /\ UNCHANGED <<counters, queueVars, kill, syncVars, workerVars, history>>

\* JobScheduler_Destroy, after which the mutex and the queue are gone.
Destroy ==
  /\ mainPc = "joined" /\ mainPc' = "destroyed"
  /\ UNCHANGED <<counters, queueVars, kill, syncVars, workerVars, history>>

\* pthread_cond_wait may return without a signal.
SpuriousWakeup(t) ==
  /\ t \in queue_empty \union wait
  /\ queue_empty' = queue_empty \ {t}
  /\ wait' = wait \ {t}
  /\ UNCHANGED <<counters, queueVars, kill, mutex, workerVars, mainPc, history>>

\* The program has ended.
Terminated == mainPc = "destroyed" /\ UNCHANGED vars

WorkerStep(w) ==
  \/ WorkerLock(w) \/ WorkerSleep(w) \/ WorkerExit(w) \/ WorkerTake(w)
  \/ WorkerRun(w) \/ WorkerRelock(w) \/ WorkerCount(w)

MainStep ==
  \/ \E j \in Jobs : SubmitJob(j)
  \/ ExecuteAll \/ BarrierLock \/ BarrierSleep \/ BarrierReset
  \/ Kill \/ Broadcast \/ Join \/ Destroy

Next ==
  \/ \E w \in Workers : WorkerStep(w)
  \/ MainStep
  \/ \E t \in Workers \union {Main} : SpuriousWakeup(t)
  \/ Terminated

Spec == Init /\ [][Next]_vars

(***************************************************************************)
(* A thread that can take a step takes one, and a thread that keeps asking *)
(* for the mutex gets it in the end (strong fairness: others may take it   *)
(* in between, and spurious wake-ups may go on forever).  Nothing makes    *)
(* the main thread submit, release or shut down: that is its input.        *)
(***************************************************************************)
Fairness ==
  /\ \A w \in Workers :
       /\ SF_vars(WorkerLock(w)) /\ SF_vars(WorkerRelock(w))
       /\ WF_vars(WorkerSleep(w)) /\ WF_vars(WorkerExit(w))
       /\ WF_vars(WorkerTake(w)) /\ WF_vars(WorkerRun(w))
       /\ WF_vars(WorkerCount(w))
  /\ SF_vars(BarrierLock)
  /\ WF_vars(BarrierSleep) /\ WF_vars(BarrierReset)
  /\ WF_vars(Broadcast) /\ WF_vars(Join) /\ WF_vars(Destroy)

FairSpec == Spec /\ Fairness

-----------------------------------------------------------------------------
(***************************************************************************)
(* Properties.                                                             *)
(***************************************************************************)
TypeOK ==
  /\ end \in Nat /\ start \in Nat /\ current \in Nat /\ counter \in Nat
  /\ qcapacity \in Nat \ {0}
  /\ queue \in [0..(qcapacity - 1) -> Jobs \union {NoJob}]
  /\ kill \in {0, 1}
  /\ mutex \in Workers \union {Main, NoThread}
  /\ queue_empty \in SUBSET Workers
  /\ wait \in SUBSET {Main}
  /\ pc \in [Workers -> WorkerPc]
  /\ job \in [Workers -> Jobs \union {NoJob}]
  /\ mainPc \in MainPc
  /\ submitted \in SUBSET Jobs
  /\ runs \in [Jobs -> Nat]

\* The jobs of the batch in progress, and those of them that were taken.
Batch == {queue[i] : i \in 0..(current - 1)}
Taken == {queue[i] : i \in 0..(start - 1)}

\* The workers between taking a job and counting it.
InFlight == {w \in Workers : pc[w] \in {"run", "relock", "count"}}

\* The main thread is in JobScheduler_wait_all_tasks_finish.
AtBarrier == mainPc \in {"barrier", "test", "blocked"}

\* The queue indices chase each other and never leave the queue, and every
\* job taken is either counted or held by exactly one worker: the count the
\* barrier of JobScheduler_wait_all_tasks_finish relies on.
QueueAccounting ==
  /\ start <= end /\ end <= current /\ current <= qcapacity
  /\ counter + Cardinality(InFlight) = start

\* As long as the main thread is not at the barrier, no worker executes a job
\* or could pick one up, so it may change the trie, the burst and the queue
\* without a lock (SubmitJob, and processBurst's updates of the trie).
BarrierIsolation ==
  ~AtBarrier => InFlight = {} /\ (kill = 0 => start = end)

\* A job is executed at most once, never before it is released, never after
\* its burst, and once the main thread is past the barrier each job handed
\* over was executed: none is lost in a grown queue or taken twice.
ExactlyOnce ==
  /\ \A j \in Jobs : runs[j] <= 1
  /\ \A w \in Workers : pc[w] = "run" => job[w] \in Taken /\ runs[job[w]] = 0
  /\ \A j \in submitted \ Batch : runs[j] = 1
  /\ \A j \in Batch \ Taken : runs[j] = 0

\* No wake-up is lost: while jobs wait in the queue some worker is not blocked
\* on queue_empty, the main thread blocks on wait only while a job is not
\* counted, and past the broadcast of the shutdown no worker is blocked.
NoLostWakeup ==
  /\ (start < end => \E w \in Workers : w \notin queue_empty)
  /\ (wait # {} => counter < end)
  /\ (mainPc \in {"join", "joined", "destroyed"} => queue_empty = {})

(***************************************************************************)
(* What makes the invariants above inductive: who holds the mutex, who can *)
(* be blocked and when, what the phase of the main thread says about the   *)
(* indices, and which jobs of the queue were executed.                     *)
(***************************************************************************)
MutexInv ==
  /\ \A w \in Workers : pc[w] \in {"check", "count"} <=> mutex = w
  /\ mainPc = "test" <=> mutex = Main

PhaseInv ==
  /\ AtBarrier => end = current
  /\ ~AtBarrier => end = 0
  /\ kill = 1 <=> mainPc \in {"broadcast", "join", "joined", "destroyed"}
  /\ kill = 1 => current = 0

BlockedInv ==
  /\ \A w \in queue_empty : pc[w] = "asleep"
  /\ wait # {} => mainPc = "blocked" /\ counter < end
  /\ \A w \in Workers : pc[w] = "exited" => kill = 1
  /\ start < end => \E w \in Workers : w \notin queue_empty
  /\ mainPc \in {"join", "joined", "destroyed"} => queue_empty = {}

QueueInv ==
  /\ \A i \in 0..(current - 1) : queue[i] \in submitted
  /\ \A i, k \in 0..(current - 1) : queue[i] = queue[k] => i = k

RunsInv ==
  /\ \A j \in Jobs : runs[j] \in {0, 1}
  /\ \A j \in Jobs : j \notin submitted => runs[j] = 0
  /\ \A j \in submitted :
       runs[j] = 1 \/ \E i \in 0..(current - 1) : queue[i] = j
  /\ \A i \in start..(current - 1) : runs[queue[i]] = 0
  /\ \A i \in 0..(start - 1) :
       runs[queue[i]] = 1 \/ \E w \in Workers : pc[w] = "run" /\ job[w] = queue[i]
  /\ \A w \in Workers : pc[w] = "run" =>
       runs[job[w]] = 0 /\ \E i \in 0..(start - 1) : job[w] = queue[i]
  /\ \A v, w \in Workers :
       pc[v] = "run" /\ pc[w] = "run" /\ job[v] = job[w] => v = w

SchedulerInv ==
  /\ TypeOK
  /\ MutexInv
  /\ PhaseInv
  /\ BlockedInv
  /\ QueueAccounting
  /\ QueueInv
  /\ RunsInv

\* Every burst gets past the barrier, whatever the order of the wake-ups.
BurstCompletes == AtBarrier ~> ~AtBarrier

\* Once kill is set all workers exit, are joined and the program ends.
ShutdownCompletes == kill = 1 ~> mainPc = "destroyed"

\* The state of the fork-join pool, read off the scheduler's.
Pool == INSTANCE WorkPool WITH
  phase <- IF kill = 1 THEN "closed" ELSE IF AtBarrier THEN "run" ELSE "collect",
  batch <- Batch,
  begun <- Taken,
  finished <- {j \in Taken : runs[j] = 1}

\* The scheduler implements the fork-join pool processBurst relies on: a job
\* begins after the release of its batch, once, and the main thread gets past
\* JobScheduler_wait_all_tasks_finish when every job of the batch is executed.
ImplementsPool == Pool!PoolSpec

\* Moreover every job of a released batch is taken and executed, and the main
\* thread then gets past the barrier.
ImplementsFairPool == Pool!PoolFairSpec
=============================================================================
