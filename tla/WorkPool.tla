------------------------------ MODULE WorkPool ------------------------------
(***************************************************************************)
(* What the rest of the program may rely on when it hands a burst of jobs  *)
(* to the thread pool, with the pool's threads, queue and condition        *)
(* variables left out: jobs are collected by one thread, none of them      *)
(* starts before the batch is released, each is executed once, and the     *)
(* batch is over only when all of them are.  JobScheduler implements it.   *)
(***************************************************************************)
CONSTANT Jobs

VARIABLES
  phase,      \* "collect", "run" or "closed"
  batch,      \* the jobs handed over for the batch in progress
  begun,      \* those of them that some thread has taken
  finished    \* those of them that have been executed

poolVars == <<phase, batch, begun, finished>>

PoolTypeOK ==
  /\ phase \in {"collect", "run", "closed"}
  /\ batch \in SUBSET Jobs
  /\ begun \in SUBSET batch
  /\ finished \in SUBSET begun

PoolInit ==
  /\ phase = "collect"
  /\ batch = {}
  /\ begun = {}
  /\ finished = {}

\* The caller adds a job to the batch it is collecting.
Collect(j) ==
  /\ phase = "collect"
  /\ j \notin batch
  /\ batch' = batch \union {j}
  /\ UNCHANGED <<phase, begun, finished>>

\* The caller releases the batch to the threads.
Release ==
  /\ phase = "collect"
  /\ phase' = "run"
  /\ UNCHANGED <<batch, begun, finished>>

\* Some thread takes a job nobody has taken.
Begin(j) ==
  /\ phase = "run"
  /\ j \in batch \ begun
  /\ begun' = begun \union {j}
  /\ UNCHANGED <<phase, batch, finished>>

\* The thread that took the job has executed it.
Finish(j) ==
  /\ phase = "run"
  /\ j \in begun \ finished
  /\ finished' = finished \union {j}
  /\ UNCHANGED <<phase, batch, begun>>

\* The caller gets past the barrier: every job of the batch is executed.
Complete ==
  /\ phase = "run"
  /\ finished = batch
  /\ phase' = "collect"
  /\ batch' = {}
  /\ begun' = {}
  /\ finished' = {}

\* No batch is open and there will be no other.
Close ==
  /\ phase = "collect"
  /\ batch = {}
  /\ phase' = "closed"
  /\ UNCHANGED <<batch, begun, finished>>

PoolNext ==
  \/ \E j \in Jobs : Collect(j) \/ Begin(j) \/ Finish(j)
  \/ Release
  \/ Complete
  \/ Close

PoolSpec == PoolInit /\ [][PoolNext]_poolVars

(***************************************************************************)
(* With every taken job executed and every released batch drained.         *)
(***************************************************************************)
PoolFairSpec ==
  /\ PoolSpec
  /\ \A j \in Jobs : WF_poolVars(Begin(j)) /\ WF_poolVars(Finish(j))
  /\ WF_poolVars(Complete)
=============================================================================
