--------------------------- MODULE Bursts_proofs ---------------------------
(***************************************************************************)
(* Theorems about Bursts, for any n-grams, texts, init files, Bloom filter *)
(* and capacity: what a burst promises of its jobs, its slots, its trie    *)
(* and its answers, whatever the lines of the query file and however the   *)
(* threads of the pool interleave.                                         *)
(***************************************************************************)
EXTENDS Bursts, VersionedTrie_proofs, FiniteSetTheorems

(***************************************************************************)
(* Where the main thread and the pool stand.                               *)
(***************************************************************************)
\* The jobs are being handed to the pool, or executed by it.
Active == pc \in {"process", "wait"}

IsDynamic == TRIE_TYPE = "dynamic"

Job(type) == [command : Letters[type], ngram : Ngrams \union Texts,
              id : {Garbage} \union Nat, Q_version : {Garbage} \union Nat]

Control ==
  /\ TRIE_TYPE \in {"static", "dynamic"}
  /\ pc \in {"read", "process", "wait", "delete", "print", "done"}
  /\ jobs \in Seq(Job(TRIE_TYPE)) /\ Len(jobs) <= MaxBurst
  /\ i \in 1..(Len(jobs) + 1) /\ id \in 0..Len(jobs)
  /\ Active => id < i
  /\ current_version \in Nat
  /\ pc \in {"read", "done"} => i = 1 /\ id = 0
  /\ pc = "wait" => i = Len(jobs) + 1
  /\ pc = "delete" => IsDynamic
  /\ pc = "print" => ~IsDynamic
  /\ Active /\ IsDynamic => \A k \in 1..(i - 1) : jobs[k].command \in {"A", "D", "Q"}
  /\ pc = "delete" => \A k \in 1..Len(jobs) : jobs[k].command \in {"A", "D", "Q"}

\* The pool has the queries of the lines read so far: in a static file, all.
PoolInStep ==
  /\ phase = IF pc = "wait" THEN "run" ELSE IF pc = "done" THEN "closed" ELSE "collect"
  /\ finished \subseteq begun /\ begun \subseteq batch
  /\ pc # "wait" => begun = {}
  /\ ~Active => batch = {}
  /\ Active => batch = {k \in 1..(i - 1) : IsDynamic => jobs[k].command = "Q"}

Flow == Control /\ PoolInStep

(***************************************************************************)
(* The n-gram of a job is freed by whoever is through with it.             *)
(***************************************************************************)
IsFreed(k) ==
  \/ pc \in {"wait", "process"} /\ k \in finished
  \/ Active /\ IsDynamic /\ k < i /\ jobs[k].command = "A"
  \/ pc = "delete" /\ (k < i \/ jobs[k].command # "D")
  \/ pc = "print"

FreedInStep ==
  /\ freed \in Seq(Nat) /\ Len(freed) = Len(jobs)
  /\ \A k \in 1..Len(jobs) : freed[k] = IF IsFreed(k) THEN 1 ELSE 0

(***************************************************************************)
(* The slots of the query buffer: each query of the burst has one.         *)
(***************************************************************************)
Slots ==
  /\ Len(jobs) <= capacity /\ capacity \in Nat \ {0}
  /\ queryCapacity \in Nat \ {0} /\ DOMAIN buffer = 0..(queryCapacity - 1)
  /\ \A q \in DOMAIN buffer : buffer[q] = Garbage \/ buffer[q] \in Answers
  /\ \A k \in 1..Len(jobs) : jobs[k].id = Garbage \/ jobs[k].id \in 0..(id - 1)
  /\ \A k \in batch : jobs[k].id \in 0..(id - 1)
  /\ \A j, k \in batch : jobs[j].id = jobs[k].id => j = k
  /\ Active => \A q \in 0..(id - 1) : \E k \in batch : jobs[k].id = q
  /\ pc = "wait" => id <= queryCapacity
  /\ \A k \in finished : buffer[jobs[k].id] \in Answers
  /\ pc \in {"delete", "print"} =>
       \A q \in 0..(id - 1) : q \in DOMAIN buffer /\ buffer[q] \in Answers

(***************************************************************************)
(* The trie and its versions.                                              *)
(***************************************************************************)
\* The n-grams that the lines read so far add.
Added == IF Active /\ IsDynamic
         THEN {jobs[j].ngram : j \in {k \in 1..(i - 1) : jobs[k].command = "A"}}
         ELSE {}

TrieInStep ==
  /\ IsTrie(trie, Words, current_version)
  /\ <<>> \notin stored
  /\ pc # "delete" => Finals(trie) = (stored \union Added) \ {<<>>}

\* The version of a query is in the past, but for a run of queries that is not
\* at its end.
QueriesInStep ==
  /\ \A k \in 1..Len(jobs) :
       jobs[k].Q_version = Garbage \/ jobs[k].Q_version \in 0..current_version
  /\ IsDynamic => \A k \in batch : jobs[k].Q_version \in 0..current_version
  /\ IsDynamic /\ ~(i <= Len(jobs) /\ jobs[i].command = "Q") =>
       \A k \in batch : jobs[k].Q_version < current_version

Versions == TrieInStep /\ QueriesInStep

(***************************************************************************)
(* The counters.                                                           *)
(***************************************************************************)
Counters ==
  /\ bursts \in 0..MaxBursts
  /\ pc \notin {"read", "done"} => bursts < MaxBursts
  /\ current_version <= MaxBurst * bursts
       + (IF Active THEN i - 1 ELSE IF pc \in {"read", "done"} THEN 0 ELSE MaxBurst)
  /\ pc \in {"read", "process", "done"} => appearances = NoAppearances
  /\ \A n \in DOMAIN appearances :
       appearances[n] \in 1..(IF pc = "wait" THEN Cardinality(finished) ELSE MaxBurst)

(***************************************************************************)
(* The main thread and the pool keep in step.                              *)
(***************************************************************************)
LEMMA FlowInit == Init => Flow
<1> SUFFICES ASSUME Init PROVE Flow
  OBVIOUS
<1>1. TRIE_TYPE \in {"static", "dynamic"}
  BY BurstsAssumption DEF Init, ReadInputFile
<1>2. jobs \in Seq(Job(TRIE_TYPE)) /\ Len(jobs) = 0
  BY EmptySeq DEF Init
<1>3. Control
  BY <1>1, <1>2, BurstsAssumption DEF Init, Control, Active
<1>4. PoolInStep
  BY DEF Init, PoolInStep, Pool!PoolInit, Active
<1> QED
  BY <1>3, <1>4 DEF Flow

\* A query handed to the pool.
LEMMA CollectKeepsFlow ==
  ASSUME Flow, ProcessQuery \/ ProcessStatic
  PROVE  Flow' /\ pc = "process" /\ pc' = "process" /\ i \in 1..Len(jobs)
         /\ i' = i + 1 /\ id' = id + 1 /\ batch' = batch \union {i}
         /\ Len(jobs') = Len(jobs) /\ TRIE_TYPE' = TRIE_TYPE
         /\ \A k \in 1..Len(jobs) : /\ jobs'[k].command = jobs[k].command
                                    /\ jobs'[k].ngram = jobs[k].ngram
                                    /\ k # i => jobs'[k] = jobs[k]
         /\ jobs'[i].id = id
         /\ jobs'[i].Q_version = IF IsDynamic THEN current_version ELSE jobs[i].Q_version
<1>1. /\ pc = "process" /\ i <= Len(jobs) /\ i' = i + 1 /\ id' = id + 1
      /\ UNCHANGED <<TRIE_TYPE, pc, phase, begun, finished>>
      /\ batch' = batch \union {i}
      /\ IsDynamic => jobs[i].command = "Q"
  BY DEF ProcessQuery, ProcessStatic, AtJob, Pool!Collect, IsDynamic, trieVars
<1>2. /\ jobs \in Seq(Job(TRIE_TYPE)) /\ i \in 1..Len(jobs) /\ id \in 0..Len(jobs)
      /\ Len(jobs) \in Nat /\ Len(jobs) <= MaxBurst
      /\ TRIE_TYPE \in {"static", "dynamic"}
  <2>1. /\ jobs \in Seq(Job(TRIE_TYPE)) /\ i \in 1..(Len(jobs) + 1) /\ id \in 0..Len(jobs)
        /\ Len(jobs) <= MaxBurst /\ TRIE_TYPE \in {"static", "dynamic"}
    BY DEF Flow, Control
  <2> QED
    BY <1>1, <2>1, LenProperties
<1> DEFINE v == IF IsDynamic THEN current_version ELSE jobs[i].Q_version
           job == [jobs[i] EXCEPT !.id = id, !.Q_version = v]
<1>3. /\ job \in Job(TRIE_TYPE)
      /\ job.command = jobs[i].command /\ job.ngram = jobs[i].ngram
      /\ job.id = id /\ job.Q_version = v
  <2>1. jobs[i] \in Job(TRIE_TYPE)
    BY <1>2, ElementOfSeq
  <2>2. current_version \in Nat
    BY DEF Flow, Control
  <2>3. v \in {Garbage} \union Nat /\ id \in Nat
    BY <1>2, <2>1, <2>2 DEF Job
  <2> HIDE DEF v
  <2> QED
    BY <2>1, <2>3 DEF Job
<1>4. jobs' = [jobs EXCEPT ![i] = job]
  <2>1. CASE ProcessQuery
    BY <2>1 DEF ProcessQuery, IsDynamic
  <2>2. CASE ProcessStatic
    <3>1. jobs[i] \in Job(TRIE_TYPE)
      BY <1>2, ElementOfSeq
    <3>2. [jobs[i] EXCEPT !.id = id] = [jobs[i] EXCEPT !.id = id, !.Q_version = jobs[i].Q_version]
      BY <3>1 DEF Job
    <3>3. [jobs[i] EXCEPT !.id = id] = job
      BY <2>2, <3>2 DEF ProcessStatic, IsDynamic
    <3> QED
      BY <2>2, <3>3 DEF ProcessStatic
  <2> QED
    BY <2>1, <2>2
<1>9. /\ jobs' \in Seq(Job(TRIE_TYPE)) /\ Len(jobs') = Len(jobs)
      /\ \A k \in 1..Len(jobs) : /\ jobs'[k].command = jobs[k].command
                                 /\ jobs'[k].ngram = jobs[k].ngram
                                 /\ k # i => jobs'[k] = jobs[k]
      /\ jobs'[i].id = id /\ jobs'[i].Q_version = v
  <2> HIDE DEF job
  <2>1. /\ jobs' \in Seq(Job(TRIE_TYPE)) /\ Len(jobs') = Len(jobs)
        /\ \A k \in 1..Len(jobs) : jobs'[k] = IF k = i THEN job ELSE jobs[k]
    BY <1>2, <1>3, <1>4, ExceptSeq
  <2> QED
    BY <1>2, <1>3, <2>1
<1>5. current_version' \in Nat
  BY DEF ProcessQuery, ProcessStatic, Flow, Control, trieVars
<1>6. Control'
  <2>1. i' \in 1..(Len(jobs') + 1) /\ id' \in 0..Len(jobs') /\ id' < i'
    BY <1>1, <1>2, <1>9 DEF Flow, Control, Active
  <2>2. IsDynamic' => \A k \in 1..(i' - 1) : jobs'[k].command \in {"A", "D", "Q"}
    <3> SUFFICES ASSUME IsDynamic', NEW k \in 1..(i' - 1)
                 PROVE  jobs'[k].command \in {"A", "D", "Q"}
      OBVIOUS
    <3>1. IsDynamic /\ k \in 1..Len(jobs) /\ (k = i \/ k \in 1..(i - 1))
      BY <1>1, <1>2 DEF IsDynamic
    <3>2. jobs[k].command \in {"A", "D", "Q"}
      BY <1>1, <3>1 DEF Flow, Control, Active
    <3> QED
      BY <1>9, <3>1, <3>2
  <2> QED
    BY <1>1, <1>2, <1>9, <1>5, <2>1, <2>2 DEF Control, Active
<1>7. PoolInStep'
  <2>1. batch = {k \in 1..(i - 1) : IsDynamic => jobs[k].command = "Q"}
    BY <1>1 DEF Flow, PoolInStep, Active
  <2>2. \A k \in 1..(i' - 1) : k \in 1..Len(jobs) /\ (k = i \/ k \in 1..(i - 1))
    BY <1>1, <1>2
  <2>3. \A k \in 1..(i - 1) : k \in 1..(i' - 1) /\ k \in 1..Len(jobs)
    BY <1>1, <1>2
  <2>4. i \in 1..(i' - 1)
    BY <1>1, <1>2
  <2>5. IsDynamic' = IsDynamic
    BY <1>1 DEF IsDynamic
  <2>6. batch' = {k \in 1..(i' - 1) : IsDynamic' => jobs'[k].command = "Q"}
    BY <1>1, <1>2, <1>9, <2>1, <2>2, <2>3, <2>4, <2>5
  <2> QED
    BY <1>1, <2>6 DEF Flow, PoolInStep, Active
<1> QED
  BY <1>1, <1>2, <1>9, <1>6, <1>7 DEF Flow

\* An update made, or a turn of the loop that deletes.
LEMMA UpdateKeepsFlow ==
  ASSUME Flow, ProcessAdd \/ ProcessDelete \/ DeleteNgram
  PROVE  Flow' /\ i \in 1..Len(jobs)
<1>1. /\ i <= Len(jobs) /\ i' = i + 1
      /\ UNCHANGED <<TRIE_TYPE, current_version, jobs, pc, id, phase, batch, begun, finished>>
      /\ \/ pc = "process" /\ IsDynamic /\ jobs[i].command \in {"A", "D"}
         \/ pc = "delete"
  BY DEF ProcessAdd, ProcessDelete, DeleteNgram, AtJob, IsDynamic, burstVars, poolVars
<1>2. /\ i \in 1..(Len(jobs) + 1) /\ id \in 0..Len(jobs) /\ Len(jobs) \in Nat
      /\ Active => id < i
  <2>1. jobs \in Seq(Job(TRIE_TYPE))
    BY DEF Flow, Control
  <2> QED
    BY <2>1, LenProperties DEF Flow, Control
<1>3. /\ i' \in 1..(Len(jobs) + 1) /\ i \in 1..Len(jobs)
      /\ Active => id < i'
      /\ \A k \in 1..(i' - 1) : k = i \/ k \in 1..(i - 1)
      /\ \A k \in 1..(i - 1) : k \in 1..(i' - 1)
  BY <1>1, <1>2
<1>4. Control'
  BY <1>1, <1>3 DEF Flow, Control, Active, IsDynamic
<1>5. PoolInStep'
  <2>1. CASE pc = "process"
    <3>1. batch = {k \in 1..(i - 1) : IsDynamic => jobs[k].command = "Q"}
      BY <2>1 DEF Flow, PoolInStep, Active
    <3>2. batch' = {k \in 1..(i' - 1) : IsDynamic => jobs[k].command = "Q"}
      BY <1>1, <1>3, <2>1, <3>1
    <3> QED
      BY <1>1, <2>1, <3>2 DEF Flow, PoolInStep, Active, IsDynamic
  <2>2. CASE pc = "delete"
    BY <1>1, <2>2 DEF Flow, PoolInStep, Active
  <2> QED
    BY <1>1, <2>1, <2>2
<1>6. Flow'
  BY <1>4, <1>5 DEF Flow
<1> QED
  BY <1>3, <1>6

\* The steps.
LEMMA Steps ==
  ASSUME [Next]_vars
  PROVE  \/ \E command \in Letters[TRIE_TYPE] : \E ngram \in Ngrams \union Texts :
              AddCommand(command, ngram)
         \/ EndOfBurst \/ EndOfFile
         \/ ProcessDelete \/ ProcessAdd \/ ProcessQuery \/ ProcessStatic
         \/ ExecuteAllJobs \/ Barrier \/ DeleteNgram \/ PrintBurst
         \/ \E k \in 1..MaxBurst : TakeJob(k) \/ ExecuteCommand(k)
         \/ UNCHANGED vars
<1>1. CASE ReadLine
  <2>1. ASSUME NEW command \in Letters[TRIE_TYPE],
               NEW ngram \in IF command = "Q" THEN Texts ELSE Ngrams
        PROVE  ngram \in Ngrams \union Texts
    BY <2>1
  <2> QED
    BY <1>1, <2>1 DEF ReadLine
<1>2. CASE ProcessStep
  BY <1>2 DEF ProcessStep, ProcessUnknown
<1>3. CASE Ended \/ UNCHANGED vars
  BY <1>3 DEF Ended
<1> QED
  BY <1>1, <1>2, <1>3 DEF Next

\* A line of the burst.
LEMMA AddKeepsFlow ==
  ASSUME Flow, NEW command \in Letters[TRIE_TYPE], NEW ngram \in Ngrams \union Texts,
         AddCommand(command, ngram)
  PROVE  /\ Flow' /\ pc = "read" /\ Len(jobs') = Len(jobs) + 1 /\ Len(jobs) \in Nat
         /\ \A k \in 1..Len(jobs) : jobs'[k] = jobs[k]
         /\ jobs'[Len(jobs) + 1].command = command
         /\ jobs'[Len(jobs) + 1].id = Garbage /\ jobs'[Len(jobs) + 1].Q_version = Garbage
<1> DEFINE job == [command |-> command, ngram |-> ngram,
                   id |-> Garbage, Q_version |-> Garbage]
<1>1. /\ pc = "read" /\ Len(jobs) < MaxBurst /\ jobs' = Append(jobs, job)
      /\ UNCHANGED <<TRIE_TYPE, current_version, pc, i, id, phase, batch, begun, finished>>
  BY DEF AddCommand, trieVars, poolVars
<1>2. job \in Job(TRIE_TYPE)
  BY DEF Job
<1>3. jobs \in Seq(Job(TRIE_TYPE)) /\ Len(jobs) \in Nat
  BY LenProperties DEF Flow, Control
<1>4. /\ job.command = command /\ job.id = Garbage /\ job.Q_version = Garbage
  OBVIOUS
<1> HIDE DEF job
<1>5. /\ jobs' \in Seq(Job(TRIE_TYPE)) /\ Len(jobs') = Len(jobs) + 1
      /\ \A k \in 1..Len(jobs) : jobs'[k] = jobs[k]
      /\ jobs'[Len(jobs) + 1] = job
  BY <1>1, <1>2, <1>3, AppendProperties
<1>6. Control'
  <2>1. i = 1 /\ id = 0
    BY <1>1 DEF Flow, Control
  <2>2. Len(jobs') <= MaxBurst /\ 1 \in 1..(Len(jobs') + 1) /\ 0 \in 0..Len(jobs')
    BY <1>1, <1>3, <1>5, BurstsAssumption
  <2> QED
    BY <1>1, <1>5, <2>1, <2>2 DEF Flow, Control, Active
<1>7. PoolInStep'
  BY <1>1 DEF Flow, PoolInStep, Active
<1>8. Flow'
  BY <1>6, <1>7 DEF Flow
<1> QED
  BY <1>1, <1>3, <1>4, <1>5, <1>8

\* A burst, a job of the pool or the query file begins or ends.
LEMMA TurnKeepsFlow ==
  ASSUME Flow,
         \/ EndOfBurst \/ EndOfFile \/ ExecuteAllJobs \/ Barrier \/ PrintBurst
         \/ \E k \in 1..MaxBurst : TakeJob(k) \/ ExecuteCommand(k)
         \/ UNCHANGED vars
  PROVE  Flow'
<1>0. jobs \in Seq(Job(TRIE_TYPE)) /\ Len(jobs) \in Nat
  BY LenProperties DEF Flow, Control
<1>1. CASE EndOfBurst
  <2>1. /\ pc = "read" /\ pc' = "process" /\ i' = 1 /\ id' = 0
        /\ UNCHANGED <<TRIE_TYPE, current_version, jobs, phase, batch, begun, finished>>
    BY <1>1 DEF EndOfBurst, trieVars, burstVars, poolVars
  <2>2. Control'
    BY <1>0, <2>1 DEF Flow, Control, Active, IsDynamic
  <2>3. PoolInStep'
    BY <2>1 DEF Flow, PoolInStep, Active
  <2> QED
    BY <2>2, <2>3 DEF Flow
<1>2. CASE EndOfFile
  <2>1. /\ pc = "read" /\ pc' = "done" /\ phase' = "closed"
        /\ UNCHANGED <<TRIE_TYPE, current_version, jobs, i, id, batch, begun, finished>>
    BY <1>2 DEF EndOfFile, Pool!Close, trieVars, burstVars
  <2>2. Control'
    BY <2>1 DEF Flow, Control, Active, IsDynamic
  <2>3. PoolInStep'
    BY <2>1 DEF Flow, PoolInStep, Active
  <2> QED
    BY <2>2, <2>3 DEF Flow
<1>3. CASE ExecuteAllJobs
  <2>1. /\ pc = "process" /\ i > Len(jobs) /\ pc' = "wait" /\ phase' = "run"
        /\ UNCHANGED <<TRIE_TYPE, current_version, jobs, i, id, batch, begun, finished>>
    BY <1>3 DEF ExecuteAllJobs, Pool!Release, trieVars, burstVars
  <2>2. Control'
    BY <1>0, <2>1 DEF Flow, Control, Active, IsDynamic
  <2>3. PoolInStep'
    BY <2>1 DEF Flow, PoolInStep, Active, IsDynamic
  <2> QED
    BY <2>2, <2>3 DEF Flow
<1>4. CASE Barrier
  <2>1. /\ pc = "wait" /\ pc' = IF TRIE_TYPE = "static" THEN "print" ELSE "delete"
        /\ phase' = "collect" /\ batch' = {} /\ begun' = {} /\ finished' = {}
        /\ i' = 1 /\ UNCHANGED <<TRIE_TYPE, current_version, jobs, id>>
    BY <1>4 DEF Barrier, AllTasksFinish, Pool!Complete, trieVars, burstVars
  <2>2. Control'
    BY <1>0, <2>1 DEF Flow, Control, Active, IsDynamic
  <2>3. PoolInStep'
    BY <2>1 DEF Flow, PoolInStep, Active
  <2> QED
    BY <2>2, <2>3 DEF Flow
<1>5. CASE PrintBurst
  <2>1. /\ pc \in {"print", "delete"} /\ pc' = "read" /\ jobs' = <<>> /\ i' = 1 /\ id' = 0
        /\ UNCHANGED <<TRIE_TYPE, current_version, phase, batch, begun, finished>>
    BY <1>5 DEF PrintBurst, AtPrint, trieVars, poolVars
  <2>2. jobs' \in Seq(Job(TRIE_TYPE)) /\ Len(jobs') = 0
    BY <2>1, EmptySeq
  <2>3. Control'
    BY <2>1, <2>2, BurstsAssumption DEF Flow, Control, Active
  <2>4. PoolInStep'
    BY <2>1 DEF Flow, PoolInStep, Active
  <2> QED
    BY <2>3, <2>4 DEF Flow
<1>6. ASSUME NEW k \in 1..MaxBurst, TakeJob(k) \/ ExecuteCommand(k)
      PROVE  Flow'
  <2>1. /\ phase = "run" /\ finished' \subseteq begun' /\ begun' \subseteq batch
        /\ UNCHANGED <<TRIE_TYPE, current_version, jobs, pc, i, id, phase, batch>>
    BY <1>6 DEF Flow, PoolInStep, TakeJob, ExecuteCommand, Pool!Begin, Pool!Finish,
                trieVars, burstVars
  <2>2. Control'
    BY <2>1 DEF Flow, Control, Active, IsDynamic
  <2>3. PoolInStep'
    BY <2>1 DEF Flow, PoolInStep, Active, IsDynamic
  <2> QED
    BY <2>2, <2>3 DEF Flow
<1>7. CASE UNCHANGED vars
  BY <1>7 DEF vars, Flow, Control, PoolInStep, Active, IsDynamic
<1> QED
  BY <1>1, <1>2, <1>3, <1>4, <1>5, <1>6, <1>7

\* The main thread and the pool keep in step in every state.
THEOREM FlowHolds == Spec => []Flow
<1>1. Flow /\ [Next]_vars => Flow'
  BY Steps, AddKeepsFlow, CollectKeepsFlow, UpdateKeepsFlow, TurnKeepsFlow
<1> QED
  BY <1>1, FlowInit, PTL DEF Spec

\* While the pool has a batch, the main thread waits at the barrier.
LEMMA AtTheBarrier ==
  ASSUME [Next]_vars, pc = "wait"
  PROVE  \/ Barrier
         \/ \E k \in 1..MaxBurst : TakeJob(k) \/ ExecuteCommand(k)
         \/ UNCHANGED vars
<1>1. ~EndOfBurst /\ ~EndOfFile /\ ~ExecuteAllJobs /\ ~DeleteNgram /\ ~PrintBurst
  BY DEF EndOfBurst, EndOfFile, ExecuteAllJobs, DeleteNgram, PrintBurst, AtPrint
<1>2. ~ProcessDelete /\ ~ProcessAdd /\ ~ProcessQuery /\ ~ProcessStatic
  BY DEF ProcessDelete, ProcessAdd, ProcessQuery, ProcessStatic, AtJob
<1>3. \A command \in Letters[TRIE_TYPE] : \A ngram \in Ngrams \union Texts :
        ~AddCommand(command, ngram)
  BY DEF AddCommand
<1> QED
  BY <1>1, <1>2, <1>3, Steps

\* What the main thread does while a worker is in a query leaves alone what the
\* worker reads without a lock: the main thread is at the barrier, and the
\* barrier holds it.
THEOREM NothingMoves == Spec => NothingMovesUnderAQuery
<1> DEFINE Moved == begun \ finished # {} =>
                      UNCHANGED <<trieVars, burstVars, queryCapacity>>
<1>1. ASSUME Flow, [Next]_vars PROVE Moved
  <2> SUFFICES ASSUME begun \ finished # {}
               PROVE  UNCHANGED <<trieVars, burstVars, queryCapacity>>
    OBVIOUS
  <2>1. pc = "wait" /\ finished # batch
    BY <1>1 DEF Flow, PoolInStep
  <2>2. ~Barrier
    BY <2>1 DEF Barrier, AllTasksFinish, Pool!Complete
  <2>3. \/ \E k \in 1..MaxBurst : TakeJob(k) \/ ExecuteCommand(k)
        \/ UNCHANGED vars
    BY <1>1, <2>1, <2>2, AtTheBarrier
  <2> QED
    BY <2>3 DEF TakeJob, ExecuteCommand, vars, trieVars, burstVars, queryVars
<1>2. Flow /\ [Next]_vars => [Moved]_vars
  BY <1>1
<1>3. Spec => [][Moved]_vars
  BY <1>2, FlowHolds, PTL DEF Spec
<1> QED
  BY <1>3 DEF NothingMovesUnderAQuery

(***************************************************************************)
(* The n-grams of the jobs.                                                *)
(***************************************************************************)
LEMMA FreedInit == Init => FreedInStep
BY EmptySeq DEF Init, FreedInStep

\* One n-gram more is freed, that of job k.
LEMMA OneFreed ==
  ASSUME Flow, FreedInStep, NEW k \in 1..Len(jobs), Free(k), ~IsFreed(k),
         Len(jobs') = Len(jobs),
         \A j \in 1..Len(jobs) : IsFreed(j)' <=> IsFreed(j) \/ j = k
  PROVE  FreedInStep'
<1>1. /\ freed \in Seq(Nat) /\ Len(freed) = Len(jobs) /\ freed[k] = 0
  BY DEF FreedInStep
<1>2. freed' = [freed EXCEPT ![k] = 1]
  BY <1>1 DEF Free
<1>3. /\ freed' \in Seq(Nat) /\ Len(freed') = Len(jobs)
      /\ \A j \in 1..Len(jobs) : freed'[j] = IF j = k THEN 1 ELSE freed[j]
  BY <1>1, <1>2, ExceptSeq
<1>4. \A j \in 1..Len(jobs) : freed'[j] = IF IsFreed(j)' THEN 1 ELSE 0
  BY <1>3 DEF FreedInStep
<1> QED
  BY <1>3, <1>4 DEF FreedInStep

\* None is freed.
LEMMA NoneFreed ==
  ASSUME FreedInStep, freed' = freed, Len(jobs') = Len(jobs),
         \A j \in 1..Len(jobs) : IsFreed(j)' <=> IsFreed(j)
  PROVE  FreedInStep'
BY DEF FreedInStep

\* A step frees the n-grams of the jobs it is through with, and no other.
LEMMA FreedStep ==
  ASSUME Flow, FreedInStep, [Next]_vars
  PROVE  FreedInStep'
<1>0. Len(jobs) \in Nat
  BY LenProperties DEF Flow, Control
<1>1. ASSUME NEW command \in Letters[TRIE_TYPE], NEW ngram \in Ngrams \union Texts,
             AddCommand(command, ngram)
      PROVE  FreedInStep'
  <2>1. pc = "read" /\ pc' = "read" /\ Len(jobs') = Len(jobs) + 1 /\ freed' = Append(freed, 0)
    BY <1>1, AddKeepsFlow DEF AddCommand
  <2>2. \A j \in 1..Len(jobs) : freed[j] = 0
    BY <2>1 DEF FreedInStep, IsFreed, Active
  <2>3. /\ freed' \in Seq(Nat) /\ Len(freed') = Len(jobs) + 1
        /\ \A j \in 1..(Len(jobs) + 1) : freed'[j] = 0
    <3>1. freed \in Seq(Nat) /\ Len(freed) = Len(jobs)
      BY DEF FreedInStep
    <3> QED
      BY <1>0, <2>1, <2>2, <3>1, AppendProperties
  <2> QED
    BY <2>1, <2>3 DEF FreedInStep, IsFreed, Active
<1>2. CASE EndOfBurst \/ EndOfFile
  <2>1. /\ pc = "read" /\ pc' \in {"process", "done"} /\ UNCHANGED <<jobs, freed, finished>>
        /\ pc' = "process" => i' = 1
    BY <1>2 DEF EndOfBurst, EndOfFile, burstVars, poolVars, Pool!Close
  <2>2. finished = {}
    BY <2>1 DEF Flow, PoolInStep
  <2> QED
    BY <1>0, <2>1, <2>2, NoneFreed DEF IsFreed, Active
<1>3. CASE ProcessQuery \/ ProcessStatic
  <2>1. /\ pc = "process" /\ pc' = "process" /\ i' = i + 1 /\ i \in 1..Len(jobs)
        /\ Len(jobs') = Len(jobs) /\ UNCHANGED <<freed, finished, TRIE_TYPE>>
        /\ \A j \in 1..Len(jobs) : jobs'[j].command = jobs[j].command
        /\ IsDynamic => jobs[i].command = "Q"
    <3>1. /\ pc = "process" /\ pc' = "process" /\ i' = i + 1 /\ i \in 1..Len(jobs)
          /\ Len(jobs') = Len(jobs) /\ TRIE_TYPE' = TRIE_TYPE
          /\ \A j \in 1..Len(jobs) : jobs'[j].command = jobs[j].command
      BY <1>3, CollectKeepsFlow
    <3>2. /\ UNCHANGED <<freed, finished>>
          /\ IsDynamic => jobs[i].command = "Q"
      BY <1>3 DEF ProcessQuery, ProcessStatic, AtJob, IsDynamic, Pool!Collect
    <3> QED
      BY <3>1, <3>2
  <2>2. \A j \in 1..Len(jobs) : j < i + 1 <=> j < i \/ j = i
    BY <2>1
  <2> QED
    BY <2>1, <2>2, NoneFreed DEF IsFreed, Active, IsDynamic
<1>4. CASE ProcessAdd
  <2>1. /\ pc = "process" /\ pc' = "process" /\ IsDynamic /\ i' = i + 1 /\ i \in 1..Len(jobs)
        /\ jobs[i].command = "A" /\ UNCHANGED <<TRIE_TYPE, jobs, finished>> /\ Free(i)
    BY <1>4, UpdateKeepsFlow DEF ProcessAdd, AtJob, IsDynamic, burstVars, poolVars
  <2>2. finished = {}
    BY <2>1 DEF Flow, PoolInStep
  <2>3. \A j \in 1..Len(jobs) : j < i + 1 <=> j < i \/ j = i
    BY <2>1
  <2>4. ~IsFreed(i) /\ \A j \in 1..Len(jobs) : IsFreed(j)' <=> IsFreed(j) \/ j = i
    BY <2>1, <2>2, <2>3 DEF IsFreed, Active, IsDynamic
  <2> QED
    BY <2>1, <2>4, OneFreed
<1>5. CASE ProcessDelete
  <2>1. /\ pc = "process" /\ pc' = "process" /\ i' = i + 1 /\ i \in 1..Len(jobs)
        /\ jobs[i].command = "D" /\ UNCHANGED <<TRIE_TYPE, jobs, finished, freed>>
    BY <1>5, UpdateKeepsFlow DEF ProcessDelete, AtJob, burstVars, poolVars
  <2>2. \A j \in 1..Len(jobs) : j < i + 1 <=> j < i \/ j = i
    BY <2>1
  <2> QED
    BY <2>1, <2>2, NoneFreed DEF IsFreed, Active, IsDynamic
<1>6. CASE ExecuteAllJobs
  <2>1. pc = "process" /\ pc' = "wait" /\ UNCHANGED <<TRIE_TYPE, jobs, finished, freed, i>>
    BY <1>6 DEF ExecuteAllJobs, Pool!Release, burstVars, trieVars
  <2> QED
    BY <2>1, NoneFreed DEF IsFreed, Active, IsDynamic
<1>7. CASE Barrier
  <2>1. /\ pc = "wait" /\ pc' = IF TRIE_TYPE = "static" THEN "print" ELSE "delete"
        /\ finished = batch /\ i' = 1 /\ UNCHANGED <<TRIE_TYPE, jobs, freed>>
    BY <1>7 DEF Barrier, AllTasksFinish, Pool!Complete, trieVars, burstVars
  <2>2. /\ batch = {k \in 1..(i - 1) : IsDynamic => jobs[k].command = "Q"}
        /\ i = Len(jobs) + 1
        /\ IsDynamic => \A k \in 1..(i - 1) : jobs[k].command \in {"A", "D", "Q"}
        /\ TRIE_TYPE \in {"static", "dynamic"}
    BY <2>1 DEF Flow, Control, PoolInStep, Active
  <2>3. \A j \in 1..Len(jobs) : j \in 1..(i - 1) /\ j < i /\ ~(j < 1)
    BY <1>0, <2>2
  <2>4. \A j \in 1..Len(jobs) :
          IsFreed(j) <=> (IsDynamic => jobs[j].command # "D")
    BY <2>1, <2>2, <2>3 DEF IsFreed, Active
  <2>5. \A j \in 1..Len(jobs) :
          IsFreed(j)' <=> (IsDynamic => jobs[j].command # "D")
    BY <2>1, <2>2, <2>3 DEF IsFreed, Active, IsDynamic
  <2> QED
    BY <2>1, <2>4, <2>5, NoneFreed
<1>8. CASE DeleteNgram
  <2>1. /\ pc = "delete" /\ pc' = "delete" /\ i' = i + 1 /\ i \in 1..Len(jobs)
        /\ UNCHANGED <<jobs, finished>>
        /\ IF jobs[i].command = "D" THEN Free(i) ELSE freed' = freed
    BY <1>8, UpdateKeepsFlow DEF DeleteNgram, burstVars, poolVars
  <2>2. \A j \in 1..Len(jobs) : j < i + 1 <=> j < i \/ j = i
    BY <2>1
  <2>3. CASE jobs[i].command = "D"
    <3>1. ~IsFreed(i) /\ \A j \in 1..Len(jobs) : IsFreed(j)' <=> IsFreed(j) \/ j = i
      BY <2>1, <2>2, <2>3 DEF IsFreed, Active
    <3> QED
      BY <2>1, <2>3, <3>1, OneFreed
  <2>4. CASE jobs[i].command # "D"
    BY <2>1, <2>2, <2>4, NoneFreed DEF IsFreed, Active
  <2> QED
    BY <2>3, <2>4
<1>9. CASE PrintBurst
  <2>1. jobs' = <<>> /\ freed' = <<>>
    BY <1>9 DEF PrintBurst
  <2> QED
    BY <2>1, EmptySeq DEF FreedInStep
<1>10. ASSUME NEW k \in 1..MaxBurst, TakeJob(k)
       PROVE  FreedInStep'
  <2>1. UNCHANGED <<TRIE_TYPE, jobs, freed, pc, i, finished>>
    BY <1>10 DEF TakeJob, Pool!Begin, trieVars, burstVars
  <2> QED
    BY <2>1, NoneFreed DEF IsFreed, Active, IsDynamic
<1>11. ASSUME NEW k \in 1..MaxBurst, ExecuteCommand(k)
       PROVE  FreedInStep'
  <2>1. /\ phase = "run" /\ k \in begun \ finished /\ finished' = finished \union {k}
        /\ UNCHANGED <<TRIE_TYPE, jobs, pc, i>> /\ Free(k)
    BY <1>11 DEF ExecuteCommand, Pool!Finish, trieVars, burstVars
  <2>2. /\ pc = "wait" /\ k \in 1..Len(jobs) /\ (IsDynamic => jobs[k].command = "Q")
    BY <1>0, <2>1 DEF Flow, Control, PoolInStep, Active
  <2>3. ~IsFreed(k) /\ \A j \in 1..Len(jobs) : IsFreed(j)' <=> IsFreed(j) \/ j = k
    BY <2>1, <2>2 DEF IsFreed, Active, IsDynamic
  <2> QED
    BY <2>1, <2>2, <2>3, OneFreed
<1>12. CASE UNCHANGED vars
  BY <1>12 DEF vars, FreedInStep, IsFreed, Active, IsDynamic
<1> QED
  BY <1>1, <1>2, <1>3, <1>4, <1>5, <1>6, <1>7, <1>8, <1>9, <1>10, <1>11, <1>12, Steps

\* The n-gram of each job is freed once, by whoever uses it last.
THEOREM Freed == Spec => []FreedOnce
<1>1. ASSUME Flow, FreedInStep PROVE FreedOnce
  <2>1. jobs \in Seq(Job(TRIE_TYPE)) /\ Len(jobs) \in Nat
    BY <1>1, LenProperties DEF Flow, Control
  <2>2. /\ DOMAIN freed = 1..Len(jobs) /\ DOMAIN jobs = 1..Len(jobs)
        /\ \A k \in 1..Len(jobs) : freed[k] = IF IsFreed(k) THEN 1 ELSE 0
    BY <1>1, <2>1, LenProperties DEF FreedInStep
  <2>3. \A k \in DOMAIN freed : freed[k] <= 1
    BY <2>2
  <2>4. \A k \in batch \ finished : freed[k] = 0
    <3> SUFFICES ASSUME NEW k \in batch \ finished PROVE freed[k] = 0
      OBVIOUS
    <3>1. Active /\ k \in 1..Len(jobs) /\ (IsDynamic => jobs[k].command = "Q")
      BY <1>1, <2>1 DEF Flow, Control, PoolInStep
    <3>2. ~IsFreed(k)
      BY <3>1 DEF IsFreed, Active
    <3> QED
      BY <2>2, <3>1, <3>2
  <2>5. pc \in {"process", "wait"} /\ TRIE_TYPE = "dynamic" =>
          \A k \in DOMAIN jobs : jobs[k].command = "D" => freed[k] = 0
    <3> SUFFICES ASSUME pc \in {"process", "wait"}, TRIE_TYPE = "dynamic",
                        NEW k \in DOMAIN jobs, jobs[k].command = "D"
                 PROVE  freed[k] = 0
      OBVIOUS
    <3>1. k \notin finished
      BY <1>1 DEF Flow, PoolInStep, Active, IsDynamic
    <3>2. ~IsFreed(k)
      BY <3>1 DEF IsFreed, Active
    <3> QED
      BY <2>2, <3>2
  <2>6. AtPrint => \A k \in DOMAIN freed : freed[k] = 1
    <3> SUFFICES ASSUME AtPrint, NEW k \in DOMAIN freed PROVE freed[k] = 1
      OBVIOUS
    <3>1. pc = "print" \/ (pc = "delete" /\ k < i)
      BY <1>1, <2>1, <2>2 DEF AtPrint, Flow, Control
    <3>2. IsFreed(k)
      BY <3>1 DEF IsFreed
    <3> QED
      BY <2>2, <3>2
  <2> QED
    BY <2>3, <2>4, <2>5, <2>6 DEF FreedOnce
<1> QED
  BY <1>1, FlowHolds, FreedInit, FreedStep, PTL DEF Spec

(***************************************************************************)
(* The slots of the query buffer.                                          *)
(***************************************************************************)
LEMMA PiecesAreNgrams ==
  ASSUME NEW W, NEW text \in Seq(W)
  PROVE  PiecesIn(text) \subseteq Seq(W)
<1> DEFINE Piece(m, n) == SubSeq(text, m, n)
<1>1. Len(text) \in Nat /\ \A x \in 1..Len(text) : text[x] \in W
  BY LenProperties
<1>2. ASSUME NEW m \in 1..Len(text), NEW n \in 1..Len(text)
      PROVE  Piece(m, n) \in Seq(W)
  <2>1. m \in Int /\ n \in Int /\ \A x \in m..n : text[x] \in W
    BY <1>1
  <2> QED
    BY <2>1, SubSeqProperties
<1>3. PiecesIn(text) = {Piece(m, n) : m, n \in 1..Len(text)}
  BY DEF PiecesIn
<1> HIDE DEF Piece
<1> QED
  BY <1>2, <1>3

\* What a job answers with are n-grams that its search sees.
LEMMA AnswersSeen ==
  ASSUME Flow, NEW k \in 1..Len(jobs)
  PROVE  /\ JobAnswer(k) \in Answers
         /\ ToSet(JobAnswer(k)) \subseteq
              IF IsDynamic THEN {p \in DOMAIN trie : Visible(trie[p], jobs[k].Q_version)}
                           ELSE Finals(trie)
<1> DEFINE seen == IF IsDynamic
                   THEN {p \in DOMAIN trie : Visible(trie[p], jobs[k].Q_version)}
                   ELSE Finals(trie)
           S == seen \intersect PiecesIn(jobs[k].ngram)
<1>1. jobs \in Seq(Job(TRIE_TYPE)) /\ TRIE_TYPE \in {"static", "dynamic"}
  BY DEF Flow, Control
<1>2. jobs[k].ngram \in Seq(Words)
  <2>1. jobs[k] \in Job(TRIE_TYPE)
    BY <1>1, ElementOfSeq
  <2> QED
    BY <2>1, BurstsAssumption DEF Job
<1>3. JobAnswer(k) \in Seq(S)
  <2>1. CASE IsDynamic
    <3>1. JobAnswer(k) = Search(trie, jobs[k].ngram, jobs[k].Q_version, Bits)
      BY <2>1 DEF JobAnswer, IsDynamic
    <3> QED
      BY <1>2, <2>1, <3>1, SearchAnswers
  <2>2. CASE ~IsDynamic
    <3>1. JobAnswer(k) = SearchStatic(trie, jobs[k].ngram, Bits)
      BY <1>1, <2>2 DEF JobAnswer, IsDynamic
    <3> QED
      BY <1>2, <2>2, <3>1, SearchStaticAnswers
  <2> QED
    BY <2>1, <2>2
<1>4. S \subseteq Seq(Words) /\ S \subseteq seen
  BY <1>2, PiecesAreNgrams
<1> HIDE DEF S, seen
<1>5. JobAnswer(k) \in Answers
  BY <1>3, <1>4, SeqMonotonic DEF Answers
<1>6. ToSet(JobAnswer(k)) \subseteq seen
  <2>1. \A x \in DOMAIN JobAnswer(k) : JobAnswer(k)[x] \in S
    BY <1>3, LenProperties, ElementOfSeq
  <2> QED
    BY <1>4, <2>1 DEF ToSet
<1> QED
  BY <1>5, <1>6 DEF seen

\* No query has a slot, and the buffers are those of trie_buffer_Init.
LEMMA SlotsInit == Init => Slots
<1> SUFFICES ASSUME Init PROVE Slots
  OBVIOUS
<1>1. Len(jobs) = 0 /\ id = 0 /\ batch = {} /\ finished = {} /\ pc = "read"
  BY EmptySeq DEF Init, Pool!PoolInit
<1>2. /\ capacity = CMD_INIT /\ queryCapacity = CMD_INIT /\ CMD_INIT \in Nat \ {0}
      /\ buffer = [q \in 0..(CMD_INIT - 1) |-> Garbage]
  BY BurstsAssumption DEF Init
<1> QED
  BY <1>1, <1>2 DEF Slots, Active

\* A query handed to the pool has the next slot.
LEMMA CollectKeepsSlots ==
  ASSUME Flow, Slots, ProcessQuery \/ ProcessStatic
  PROVE  Slots'
<1>1. /\ pc = "process" /\ pc' = "process" /\ i \in 1..Len(jobs)
      /\ id' = id + 1 /\ batch' = batch \union {i} /\ Len(jobs') = Len(jobs)
      /\ \A k \in 1..Len(jobs) : k # i => jobs'[k] = jobs[k]
      /\ jobs'[i].id = id
  BY CollectKeepsFlow
<1>2. UNCHANGED <<capacity, queryCapacity, buffer, finished>>
  BY DEF ProcessQuery, ProcessStatic, queryVars, Pool!Collect
<1>3. /\ id \in Nat /\ Len(jobs) \in Nat /\ finished = {}
      /\ \A k \in batch : k \in 1..Len(jobs) /\ k # i
  <2>1. jobs \in Seq(Job(TRIE_TYPE)) /\ id \in 0..Len(jobs) /\ finished = {}
    BY <1>1 DEF Flow, Control, PoolInStep
  <2>2. batch \subseteq 1..(i - 1)
    BY <1>1 DEF Flow, PoolInStep, Active
  <2>3. Len(jobs) \in Nat
    BY <2>1, LenProperties
  <2>4. \A k \in 1..(i - 1) : k \in 1..Len(jobs) /\ k # i
    BY <1>1, <2>3
  <2> QED
    BY <2>1, <2>2, <2>3, <2>4
<1>4. \A q \in 0..(id - 1) : q \in 0..(id' - 1)
  BY <1>1, <1>3
<1>5. \A k \in 1..Len(jobs') : jobs'[k].id = Garbage \/ jobs'[k].id \in 0..(id' - 1)
  BY <1>1, <1>3, <1>4 DEF Slots
<1>6. \A k \in batch' : jobs'[k].id \in 0..(id' - 1)
  BY <1>1, <1>3, <1>4 DEF Slots
<1>7. \A j, k \in batch' : jobs'[j].id = jobs'[k].id => j = k
  <2>1. \A k \in batch : jobs'[k].id = jobs[k].id /\ jobs[k].id \in 0..(id - 1)
    BY <1>1, <1>3 DEF Slots
  <2>2. \A k \in batch : jobs'[k].id # id
    BY <1>3, <2>1
  <2> QED
    BY <1>1, <2>1, <2>2 DEF Slots
<1>8. \A q \in 0..(id' - 1) : \E k \in batch' : jobs'[k].id = q
  <2> SUFFICES ASSUME NEW q \in 0..(id' - 1) PROVE \E k \in batch' : jobs'[k].id = q
    OBVIOUS
  <2>1. CASE q = id
    BY <1>1, <2>1
  <2>2. CASE q # id
    <3>1. q \in 0..(id - 1)
      BY <1>1, <1>3, <2>2
    <3>2. PICK k \in batch : jobs[k].id = q
      BY <1>1, <3>1 DEF Slots, Active
    <3> QED
      BY <1>1, <1>3, <3>2
  <2> QED
    BY <2>1, <2>2
<1> QED
  BY <1>1, <1>2, <1>3, <1>5, <1>6, <1>7, <1>8 DEF Slots

\* The buffers grow to the number of queries before the pool is released.
LEMMA ReleaseKeepsSlots ==
  ASSUME Flow, Slots, ExecuteAllJobs
  PROVE  Slots'
<1>1. /\ pc = "process" /\ pc' = "wait"
      /\ queryCapacity' = IF queryCapacity < id THEN id ELSE queryCapacity
      /\ buffer' = [q \in 0..(queryCapacity' - 1) |->
                      IF q \in DOMAIN buffer THEN buffer[q] ELSE Garbage]
      /\ UNCHANGED <<jobs, capacity, id, batch, finished>>
  BY DEF ExecuteAllJobs, Pool!Release, burstVars, TooFew
<1>2. id \in Nat /\ finished = {}
  BY <1>1, LenProperties DEF Flow, Control, PoolInStep
<1>3. queryCapacity' \in Nat \ {0} /\ id <= queryCapacity'
  BY <1>1, <1>2 DEF Slots
<1>4. /\ DOMAIN buffer' = 0..(queryCapacity' - 1)
      /\ \A q \in DOMAIN buffer' : buffer'[q] = Garbage \/ buffer'[q] \in Answers
  BY <1>1 DEF Slots, Answers
<1> QED
  BY <1>1, <1>2, <1>3, <1>4 DEF Slots, Active

\* A worker writes its answer in its own slot.
LEMMA ExecuteKeepsSlots ==
  ASSUME Flow, Slots, NEW k \in 1..MaxBurst, ExecuteCommand(k)
  PROVE  /\ Slots' /\ k \in batch /\ k \in 1..Len(jobs) /\ k \notin finished
         /\ finished' = finished \union {k} /\ pc = "wait"
         /\ buffer'[jobs[k].id] = JobAnswer(k)
         /\ \A j \in finished : buffer'[jobs[j].id] = buffer[jobs[j].id]
<1>1. /\ phase = "run" /\ k \in begun \ finished /\ finished' = finished \union {k}
      /\ buffer' = [buffer EXCEPT ![jobs[k].id] = JobAnswer(k)]
      /\ UNCHANGED <<pc, jobs, capacity, id, queryCapacity, batch>>
  BY DEF ExecuteCommand, Pool!Finish, burstVars
<1>2. /\ pc = "wait" /\ k \in batch /\ k \in 1..Len(jobs) /\ finished \subseteq batch
      /\ id \in Nat
  <2>1. jobs \in Seq(Job(TRIE_TYPE)) /\ Len(jobs) \in Nat
    BY LenProperties DEF Flow, Control
  <2> QED
    BY <1>1, <2>1 DEF Flow, Control, PoolInStep, Active
<1>3. JobAnswer(k) \in Answers
  BY <1>2, AnswersSeen
<1>4. jobs[k].id \in DOMAIN buffer
  BY <1>2 DEF Slots
<1>5. /\ DOMAIN buffer' = DOMAIN buffer /\ buffer'[jobs[k].id] = JobAnswer(k)
      /\ \A q \in DOMAIN buffer : q # jobs[k].id => buffer'[q] = buffer[q]
  BY <1>1, <1>4
<1>6. ASSUME NEW j \in finished
      PROVE  jobs[j].id \in DOMAIN buffer /\ jobs[j].id # jobs[k].id
  BY <1>1, <1>2, <1>6 DEF Slots
<1>7. \A q \in DOMAIN buffer' : buffer'[q] = Garbage \/ buffer'[q] \in Answers
  BY <1>3, <1>5 DEF Slots
<1>8. \A j \in finished' : buffer'[jobs'[j].id] \in Answers
  BY <1>1, <1>3, <1>5, <1>6 DEF Slots
<1>9. Slots'
  BY <1>1, <1>2, <1>5, <1>7, <1>8 DEF Slots, Active, Answers
<1> QED
  BY <1>1, <1>2, <1>5, <1>6, <1>9

\* A step keeps the slots of the queries apart and their answers in place.
LEMMA SlotsStep ==
  ASSUME Flow, Slots, [Next]_vars
  PROVE  Slots'
<1>0. jobs \in Seq(Job(TRIE_TYPE)) /\ Len(jobs) \in Nat
  BY LenProperties DEF Flow, Control
<1>1. ASSUME NEW command \in Letters[TRIE_TYPE], NEW ngram \in Ngrams \union Texts,
             AddCommand(command, ngram)
      PROVE  Slots'
  <2>1. /\ pc = "read" /\ Len(jobs') = Len(jobs) + 1
        /\ \A k \in 1..Len(jobs) : jobs'[k] = jobs[k]
        /\ jobs'[Len(jobs) + 1].id = Garbage
    BY <1>1, AddKeepsFlow
  <2>2. /\ capacity' = IF Len(jobs) = capacity THEN 2 * capacity ELSE capacity
        /\ UNCHANGED <<pc, id, queryCapacity, buffer, batch, finished>>
    BY <1>1 DEF AddCommand, Full, queryVars, poolVars
  <2>3. batch = {} /\ finished = {}
    BY <2>1 DEF Flow, PoolInStep, Active
  <2>4. Len(jobs') <= capacity' /\ capacity' \in Nat \ {0}
    <3>1. capacity \in Nat \ {0} /\ Len(jobs) <= capacity
      BY DEF Slots
    <3> QED
      BY <1>0, <2>1, <2>2, <3>1
  <2>5. \A k \in 1..Len(jobs') : jobs'[k].id = Garbage \/ jobs'[k].id \in 0..(id' - 1)
    BY <1>0, <2>1, <2>2 DEF Slots
  <2>6. /\ queryCapacity' \in Nat \ {0} /\ DOMAIN buffer' = 0..(queryCapacity' - 1)
        /\ \A q \in DOMAIN buffer' : buffer'[q] = Garbage \/ buffer'[q] \in Answers
    BY <2>2 DEF Slots, Answers
  <2> QED
    BY <2>1, <2>2, <2>3, <2>4, <2>5, <2>6 DEF Slots, Active
<1>2. CASE EndOfBurst
  <2>1. /\ pc = "read" /\ pc' = "process" /\ id' = 0
        /\ UNCHANGED <<jobs, capacity, queryCapacity, buffer, batch, finished>>
    BY <1>2 DEF EndOfBurst, burstVars, queryVars, poolVars
  <2>2. batch = {} /\ finished = {} /\ id = 0
    BY <2>1 DEF Flow, Control, PoolInStep, Active
  <2> QED
    BY <2>1, <2>2 DEF Slots, Active
<1>3. CASE EndOfFile \/ ProcessAdd \/ ProcessDelete \/ DeleteNgram
  <2>1. /\ UNCHANGED <<jobs, capacity, id, queryCapacity, buffer, batch, finished>>
        /\ pc' = pc \/ (pc = "read" /\ pc' = "done")
    BY <1>3 DEF EndOfFile, ProcessAdd, ProcessDelete, DeleteNgram, AtJob, Pool!Close,
                burstVars, queryVars, poolVars
  <2> QED
    BY <2>1 DEF Slots, Active
<1>4. CASE Barrier
  <2>1. /\ pc = "wait" /\ pc' \in {"delete", "print"} /\ finished = batch
        /\ batch' = {} /\ finished' = {}
        /\ UNCHANGED <<jobs, capacity, id, queryCapacity, buffer>>
    BY <1>4 DEF Barrier, AllTasksFinish, Pool!Complete, burstVars, queryVars
  <2>2. id \in Nat
    BY <1>0 DEF Flow, Control
  <2>3. \A q \in 0..(id - 1) : q \in DOMAIN buffer /\ buffer[q] \in Answers
    <3> SUFFICES ASSUME NEW q \in 0..(id - 1)
                 PROVE  q \in DOMAIN buffer /\ buffer[q] \in Answers
      OBVIOUS
    <3>1. PICK k \in batch : jobs[k].id = q
      BY <2>1 DEF Slots, Active
    <3> QED
      BY <2>1, <2>2, <3>1 DEF Slots
  <2> QED
    BY <2>1, <2>3 DEF Slots, Active, Answers
<1>5. CASE PrintBurst
  <2>1. /\ pc' = "read" /\ jobs' = <<>> /\ id' = 0
        /\ buffer' = [q \in DOMAIN buffer |-> Garbage]
        /\ UNCHANGED <<capacity, queryCapacity, batch, finished>>
        /\ pc \in {"delete", "print"}
    BY <1>5 DEF PrintBurst, AtPrint, poolVars
  <2>2. batch = {} /\ finished = {} /\ Len(jobs') = 0
    BY <2>1, EmptySeq DEF Flow, PoolInStep, Active
  <2> QED
    BY <2>1, <2>2 DEF Slots, Active
<1>6. ASSUME NEW k \in 1..MaxBurst, TakeJob(k)
      PROVE  Slots'
  <2>1. UNCHANGED <<pc, jobs, capacity, id, queryCapacity, buffer, batch, finished>>
    BY <1>6 DEF TakeJob, Pool!Begin, burstVars, queryVars
  <2> QED
    BY <2>1 DEF Slots, Active
<1>7. CASE UNCHANGED vars
  BY <1>7 DEF vars, Slots, Active
<1> QED
  BY <1>1, <1>2, <1>3, <1>4, <1>5, <1>6, <1>7, Steps, CollectKeepsSlots,
     ReleaseKeepsSlots, ExecuteKeepsSlots

\* Each query of a burst has a slot of its own, inside the array, and every
\* line printed was written by it.
THEOREM SlotsAreOwned == Spec => []SlotsOwned
<1>1. ASSUME Flow, Slots PROVE SlotsOwned
  <2>1. id \in Nat /\ pc \notin {"delete", "print"} => ~AtPrint
    BY <1>1, LenProperties DEF Flow, Control, AtPrint
  <2>2. pc = "wait" => \A k \in batch : jobs[k].id \in DOMAIN buffer
    BY <1>1, <2>1 DEF Slots, Flow, Control
  <2>3. AtPrint => \A q \in 1..id : Lines[q] # Garbage
    <3> SUFFICES ASSUME AtPrint, NEW q \in 1..id PROVE Lines[q] # Garbage
      OBVIOUS
    <3>1. q - 1 \in 0..(id - 1) /\ pc \in {"delete", "print"}
      BY <1>1 DEF AtPrint, Flow, Control
    <3>2. buffer[q - 1] \in Answers
      BY <1>1, <3>1 DEF Slots
    <3> QED
      BY <3>2, BurstsAssumption DEF Lines, Answers
  <2> QED
    BY <1>1, <2>2, <2>3 DEF Slots, SlotsOwned
<1>2. Flow /\ Slots /\ [Next]_vars => Slots'
  BY SlotsStep
<1> QED
  BY <1>1, <1>2, FlowHolds, SlotsInit, PTL DEF Spec

(***************************************************************************)
(* The trie and the versions.                                              *)
(***************************************************************************)
LEMMA VersionsInit == Init => Versions
<1> SUFFICES ASSUME Init PROVE Versions
  OBVIOUS
<1>1. PICK file \in InitFiles : ReadInputFile(file)
  BY DEF Init
<1>2. file.ngrams \in Seq(Seq(Words))
  BY BurstsAssumption
<1>3. IsTrie(trie, Words, 0)
  <2>1. trie = Inserts(file.ngrams)
    BY <1>1 DEF ReadInputFile, Inserts
  <2> QED
    BY <1>2, <2>1, InsertsAreTrie
<1>4. current_version = 0 /\ stored = Finals(trie) /\ batch = {} /\ Len(jobs) = 0 /\ pc = "read"
  BY EmptySeq DEF Init, Pool!PoolInit
<1>5. <<>> \notin stored
  BY <1>3, <1>4 DEF Finals, IsTrie
<1>6. Added = {}
  BY <1>4 DEF Added, Active
<1>7. TrieInStep
  BY <1>3, <1>4, <1>5, <1>6 DEF TrieInStep
<1>8. QueriesInStep
  BY <1>4 DEF QueriesInStep
<1> QED
  BY <1>7, <1>8 DEF Versions

\* What is known of the job at hand and of the lines before it.
LEMMA AtHand ==
  ASSUME Flow, Versions
  PROVE  /\ jobs \in Seq(Job(TRIE_TYPE)) /\ Len(jobs) \in Nat /\ i \in Nat
         /\ \A k \in 1..Len(jobs) : jobs[k].ngram \in Seq(Words)
         /\ current_version \in 0..current_version /\ current_version \in Nat
         /\ Active /\ IsDynamic =>
              /\ \A k \in 1..(i - 1) :
                   jobs[k].command = "A" /\ jobs[k].ngram # <<>> =>
                     jobs[k].ngram \in Finals(trie)
              /\ \A k \in 1..i :
                   PutInBefore(jobs[k].ngram, k) /\ jobs[k].ngram # <<>> =>
                     jobs[k].ngram \in Finals(trie)
         /\ \A p \in Finals(trie) :
              /\ p \in DOMAIN trie
              /\ trie[p].A_version \in NoVersion..current_version
              /\ trie[p].D_version \in NoVersion..current_version
<1>1. jobs \in Seq(Job(TRIE_TYPE)) /\ Len(jobs) \in Nat /\ i \in Nat /\ current_version \in Nat
  BY LenProperties DEF Flow, Control
<1>2. ASSUME NEW k \in 1..Len(jobs) PROVE jobs[k].ngram \in Seq(Words)
  <2>1. jobs[k] \in Job(TRIE_TYPE)
    BY <1>1, ElementOfSeq
  <2> QED
    BY <2>1, BurstsAssumption DEF Job
<1>3. ASSUME Active, IsDynamic
      PROVE  /\ \A k \in 1..(i - 1) : jobs[k].command = "A" => jobs[k].ngram \in Added
             /\ \A p : p \in stored \union Added /\ p # <<>> => p \in Finals(trie)
  BY <1>3 DEF Added, Active, Versions, TrieInStep
<1>4. ASSUME Active, IsDynamic, NEW k \in 1..i, PutInBefore(jobs[k].ngram, k)
      PROVE  jobs[k].ngram \in stored \union Added
  <2>1. CASE jobs[k].ngram \in stored
    BY <2>1
  <2>2. CASE jobs[k].ngram \notin stored
    <3>1. PICK j \in 1..(k - 1) : jobs[j].command = "A" /\ jobs[j].ngram = jobs[k].ngram
      BY <1>4, <2>2 DEF PutInBefore
    <3>2. j \in 1..(i - 1)
      BY <1>1
    <3> QED
      BY <1>3, <1>4, <3>1, <3>2
  <2> QED
    BY <2>1, <2>2
<1>5. \A p \in Finals(trie) : p \in DOMAIN trie /\ trie[p] \in Node(current_version)
  BY DEF Finals, Versions, TrieInStep, IsTrie
<1>6. \A p \in Finals(trie) :
        /\ p \in DOMAIN trie
        /\ trie[p].A_version \in NoVersion..current_version
        /\ trie[p].D_version \in NoVersion..current_version
  BY <1>5 DEF Node
<1>7. current_version \in 0..current_version
  BY <1>1
<1>8. ASSUME Active, IsDynamic
      PROVE  /\ \A k \in 1..(i - 1) :
                   jobs[k].command = "A" /\ jobs[k].ngram # <<>> =>
                     jobs[k].ngram \in Finals(trie)
             /\ \A k \in 1..i :
                   PutInBefore(jobs[k].ngram, k) /\ jobs[k].ngram # <<>> =>
                     jobs[k].ngram \in Finals(trie)
  BY <1>3, <1>4, <1>8
<1> QED
  BY <1>1, <1>2, <1>6, <1>7, <1>8

\* An update of the burst: its n-gram is the only one to change.
LEMMA AddKeepsVersions ==
  ASSUME Flow, Versions, ProcessAdd
  PROVE  Versions'
<1>1. /\ pc = "process" /\ pc' = "process" /\ IsDynamic /\ i' = i + 1 /\ i \in 1..Len(jobs)
      /\ jobs[i].command = "A"
      /\ trie' = TrieInsert(trie, jobs[i].ngram, current_version)
      /\ UNCHANGED <<TRIE_TYPE, current_version, jobs, batch, stored>>
  BY UpdateKeepsFlow DEF ProcessAdd, AtJob, IsDynamic, burstVars, poolVars, history
<1>2. /\ jobs[i].ngram \in Seq(Words) /\ Len(jobs) \in Nat /\ current_version \in Nat
      /\ current_version \in 0..current_version
  BY <1>1, AtHand
<1>3. IsTrie(trie, Words, current_version)
  BY DEF Versions, TrieInStep
<1>4. IsTrie(trie', Words, current_version)
  BY <1>1, <1>2, <1>3, InsertIsTrie
<1>5. Finals(trie') = Finals(trie) \union ({jobs[i].ngram} \ {<<>>})
  <2>1. Inserted(trie', trie, jobs[i].ngram, current_version, current_version)
    BY <1>1, <1>2, <1>3, InsertNodes
  <2> QED
    BY <2>1 DEF Inserted
<1>6. Added' = Added \union {jobs[i].ngram}
  <2>1. \A k \in 1..(i' - 1) : k = i \/ k \in 1..(i - 1)
    BY <1>1
  <2>2. i \in 1..(i' - 1) /\ \A k \in 1..(i - 1) : k \in 1..(i' - 1)
    BY <1>1
  <2>3. /\ Added = {jobs[j].ngram : j \in {k \in 1..(i - 1) : jobs[k].command = "A"}}
        /\ Added' = {jobs[j].ngram : j \in {k \in 1..(i' - 1) : jobs[k].command = "A"}}
    BY <1>1 DEF Added, Active, IsDynamic
  <2> QED
    BY <1>1, <2>1, <2>2, <2>3
<1>7. TrieInStep'
  BY <1>1, <1>4, <1>5, <1>6 DEF Versions, TrieInStep
<1>8. QueriesInStep'
  BY <1>1 DEF Versions, QueriesInStep, IsDynamic
<1> QED
  BY <1>7, <1>8 DEF Versions

\* An n-gram deleted at the end of the burst: the trie stays a trie.
LEMMA DeleteKeepsVersions ==
  ASSUME Flow, Versions, ProcessDelete
  PROVE  Versions'
<1>1. /\ pc = "process" /\ pc' = "process" /\ IsDynamic /\ i' = i + 1 /\ i \in 1..Len(jobs)
      /\ jobs[i].command = "D"
      /\ trie' = TrieFakeDelete(trie, jobs[i].ngram, current_version)
      /\ UNCHANGED <<TRIE_TYPE, current_version, jobs, batch, stored>>
  BY UpdateKeepsFlow DEF ProcessDelete, AtJob, IsDynamic, burstVars, poolVars, history
<1>2. current_version \in Nat /\ current_version \in 0..current_version
  BY <1>1, AtHand
<1>3. IsTrie(trie, Words, current_version)
  BY DEF Versions, TrieInStep
<1>4. IsTrie(trie', Words, current_version) /\ Finals(trie') = Finals(trie)
  <2>1. /\ MarkedDeleted(trie', trie, jobs[i].ngram, current_version, current_version)
        /\ IsTrie(trie', Words, current_version)
    BY <1>1, <1>2, <1>3, FakeDeleteNodes
  <2> QED
    BY <2>1 DEF MarkedDeleted
<1>5. Added' = Added
  <2>1. \A k \in 1..(i' - 1) : k = i \/ k \in 1..(i - 1)
    BY <1>1
  <2>2. \A k \in 1..(i - 1) : k \in 1..(i' - 1)
    BY <1>1
  <2>3. {k \in 1..(i' - 1) : jobs[k].command = "A"} = {k \in 1..(i - 1) : jobs[k].command = "A"}
    BY <1>1, <2>1, <2>2
  <2> QED
    BY <1>1, <2>3 DEF Added, Active, IsDynamic
<1>6. TrieInStep'
  BY <1>1, <1>4, <1>5 DEF Versions, TrieInStep
<1>7. QueriesInStep'
  BY <1>1 DEF Versions, QueriesInStep, IsDynamic
<1> QED
  BY <1>6, <1>7 DEF Versions

\* A query of the burst, which may be the last of its run.
LEMMA QueryKeepsVersions ==
  ASSUME Flow, Versions, ProcessQuery \/ ProcessStatic
  PROVE  Versions'
<1>1. /\ pc = "process" /\ pc' = "process" /\ i \in 1..Len(jobs) /\ i' = i + 1
      /\ batch' = batch \union {i} /\ Len(jobs') = Len(jobs) /\ TRIE_TYPE' = TRIE_TYPE
      /\ \A k \in 1..Len(jobs) : /\ jobs'[k].command = jobs[k].command
                                 /\ jobs'[k].ngram = jobs[k].ngram
                                 /\ k # i => jobs'[k] = jobs[k]
      /\ jobs'[i].Q_version = IF IsDynamic THEN current_version ELSE jobs[i].Q_version
  BY CollectKeepsFlow
<1>2. /\ UNCHANGED <<trie, stored>>
      /\ IsDynamic => /\ jobs[i].command = "Q"
                      /\ current_version' = IF LastOfRun THEN current_version + 1
                                                         ELSE current_version
      /\ ~IsDynamic => current_version' = current_version
  BY DEF ProcessQuery, ProcessStatic, AtJob, IsDynamic, trieVars, history
<1>3. /\ current_version \in Nat /\ Len(jobs) \in Nat
      /\ \A k \in batch : k \in 1..Len(jobs) /\ k # i
  <2>1. batch \subseteq 1..(i - 1)
    BY <1>1 DEF Flow, PoolInStep, Active
  <2> QED
    BY <1>1, <2>1, AtHand
<1>4. /\ current_version' \in Nat /\ current_version <= current_version'
      /\ IsDynamic /\ LastOfRun => current_version < current_version'
  BY <1>2, <1>3
<1>5. IsTrie(trie', Words, current_version')
  BY <1>2, <1>3, <1>4, VersionsGrow DEF Versions, TrieInStep
<1>6. Added' = Added
  <2>1. CASE ~IsDynamic
    BY <1>1, <2>1 DEF Added, IsDynamic
  <2>2. CASE IsDynamic
    <3>1. \A k \in 1..(i' - 1) : k = i \/ k \in 1..(i - 1)
      BY <1>1
    <3>2. \A k \in 1..(i - 1) : k \in 1..(i' - 1) /\ k \in 1..Len(jobs)
      BY <1>1
    <3>3. {k \in 1..(i' - 1) : jobs'[k].command = "A"}
            = {k \in 1..(i - 1) : jobs[k].command = "A"}
      BY <1>1, <1>2, <2>2, <3>1, <3>2
    <3>4. {jobs'[j].ngram : j \in {k \in 1..(i - 1) : jobs[k].command = "A"}}
            = {jobs[j].ngram : j \in {k \in 1..(i - 1) : jobs[k].command = "A"}}
      <4>1. \A k \in 1..(i - 1) : jobs'[k].ngram = jobs[k].ngram
        BY <1>1, <3>2
      <4> QED
        BY <4>1, Zenon
    <3> QED
      BY <1>1, <2>2, <3>3, <3>4 DEF Added, Active, IsDynamic
  <2> QED
    BY <2>1, <2>2
<1>7. TrieInStep'
  BY <1>1, <1>2, <1>5, <1>6 DEF Versions, TrieInStep
<1>8. \A v : v \in 0..current_version => v \in 0..current_version'
  BY <1>3, <1>4
<1>9. \A k \in 1..Len(jobs') :
        jobs'[k].Q_version = Garbage \/ jobs'[k].Q_version \in 0..current_version'
  <2> SUFFICES ASSUME NEW k \in 1..Len(jobs)
               PROVE  jobs'[k].Q_version = Garbage \/ jobs'[k].Q_version \in 0..current_version'
    BY <1>1
  <2>1. jobs[k].Q_version = Garbage \/ jobs[k].Q_version \in 0..current_version
    BY DEF Versions, QueriesInStep
  <2> QED
    BY <1>1, <1>3, <1>8, <2>1
<1>10. ASSUME IsDynamic
       PROVE  \A k \in batch' : /\ jobs'[k].Q_version \in 0..current_version'
                                /\ jobs'[k].Q_version <= current_version
  <2> SUFFICES ASSUME NEW k \in batch'
               PROVE  jobs'[k].Q_version \in 0..current_version
    BY <1>3, <1>8
  <2>1. CASE k = i
    BY <1>1, <1>3, <1>10, <2>1
  <2>2. CASE k # i
    BY <1>1, <1>3, <1>10, <2>2 DEF Versions, QueriesInStep
  <2> QED
    BY <2>1, <2>2
<1>11. ASSUME IsDynamic, ~(i' <= Len(jobs') /\ jobs'[i'].command = "Q")
       PROVE  \A k \in batch' : jobs'[k].Q_version < current_version'
  <2>1. LastOfRun
    <3> SUFFICES ASSUME i # Len(jobs) PROVE jobs[i + 1].command # "Q"
      BY DEF LastOfRun
    <3>1. i + 1 \in 1..Len(jobs)
      BY <1>1, <1>3
    <3> QED
      BY <1>1, <1>11, <3>1
  <2> QED
    BY <1>3, <1>4, <1>10, <1>11, <2>1
<1>12. QueriesInStep'
  BY <1>1, <1>9, <1>10, <1>11 DEF QueriesInStep, IsDynamic
<1> QED
  BY <1>7, <1>12 DEF Versions

\* A step keeps the trie a trie of the lines read, and its queries in the past.
LEMMA VersionsStep ==
  ASSUME Flow, Versions, [Next]_vars
  PROVE  Versions'
<1>0. jobs \in Seq(Job(TRIE_TYPE)) /\ Len(jobs) \in Nat /\ current_version \in Nat
  BY AtHand
<1>1. ASSUME NEW command \in Letters[TRIE_TYPE], NEW ngram \in Ngrams \union Texts,
             AddCommand(command, ngram)
      PROVE  Versions'
  <2>1. /\ pc = "read" /\ pc' = "read" /\ Len(jobs') = Len(jobs) + 1
        /\ \A k \in 1..Len(jobs) : jobs'[k] = jobs[k]
        /\ jobs'[Len(jobs) + 1].Q_version = Garbage
        /\ UNCHANGED <<TRIE_TYPE, trie, current_version, batch, stored>>
    BY <1>1, AddKeepsFlow DEF AddCommand, trieVars, poolVars, history
  <2>2. batch = {} /\ Added = {} /\ Added' = {}
    BY <2>1 DEF Flow, PoolInStep, Active, Added
  <2>3. \A k \in 1..Len(jobs') :
          jobs'[k].Q_version = Garbage \/ jobs'[k].Q_version \in 0..current_version
    BY <1>0, <2>1 DEF Versions, QueriesInStep
  <2>4. TrieInStep'
    BY <2>1, <2>2 DEF Versions, TrieInStep
  <2>5. QueriesInStep'
    BY <2>1, <2>2, <2>3 DEF QueriesInStep
  <2> QED
    BY <2>4, <2>5 DEF Versions
<1>2. CASE EndOfBurst \/ EndOfFile
  <2>1. /\ pc = "read" /\ pc' \in {"process", "done"} /\ (pc' = "process" => i' = 1)
        /\ UNCHANGED <<TRIE_TYPE, trie, current_version, jobs, batch, stored>>
    BY <1>2 DEF EndOfBurst, EndOfFile, trieVars, burstVars, poolVars, history, Pool!Close
  <2>2. batch = {} /\ Added = {}
    BY <2>1 DEF Flow, PoolInStep, Active, Added
  <2>3. Added' = {}
    BY <2>1 DEF Active, Added
  <2>4. TrieInStep'
    BY <2>1, <2>2, <2>3 DEF Versions, TrieInStep
  <2>5. QueriesInStep'
    BY <2>1, <2>2 DEF Versions, QueriesInStep
  <2> QED
    BY <2>4, <2>5 DEF Versions
<1>3. CASE ExecuteAllJobs
  <2>1. /\ pc = "process" /\ pc' = "wait"
        /\ UNCHANGED <<TRIE_TYPE, trie, current_version, jobs, i, batch, stored>>
    BY <1>3 DEF ExecuteAllJobs, Pool!Release, trieVars, burstVars, history
  <2>2. Added' = Added
    BY <2>1 DEF Added, Active, IsDynamic
  <2> QED
    BY <2>1, <2>2 DEF Versions, TrieInStep, QueriesInStep, IsDynamic
<1>4. CASE Barrier
  <2>1. /\ pc = "wait" /\ pc' = IF TRIE_TYPE = "static" THEN "print" ELSE "delete"
        /\ batch' = {}
        /\ UNCHANGED <<TRIE_TYPE, trie, current_version, jobs, stored>>
    BY <1>4 DEF Barrier, AllTasksFinish, Pool!Complete, trieVars, burstVars, history
  <2>2. pc' # "delete" => Added' = Added
    BY <2>1 DEF Added, Active, IsDynamic
  <2> QED
    BY <2>1, <2>2 DEF Versions, TrieInStep, QueriesInStep
<1>5. CASE DeleteNgram
  <2>1. /\ pc = "delete" /\ pc' = "delete" /\ i \in 1..Len(jobs)
        /\ trie' = IF jobs[i].command = "D" THEN TrieDelete(trie, jobs[i].ngram) ELSE trie
        /\ UNCHANGED <<TRIE_TYPE, current_version, jobs, batch, stored>>
    BY <1>5, UpdateKeepsFlow DEF DeleteNgram, burstVars, poolVars, history
  <2>2. batch = {} /\ jobs[i].ngram \in Seq(Words) /\ IsTrie(trie, Words, current_version)
    BY <2>1, AtHand DEF Flow, PoolInStep, Active, Versions, TrieInStep
  <2>3. IsTrie(trie', Words, current_version)
    BY <1>0, <2>1, <2>2, DeleteIsTrie
  <2> QED
    BY <2>1, <2>2, <2>3 DEF Versions, TrieInStep, QueriesInStep
<1>6. CASE PrintBurst
  <2>1. /\ pc \in {"delete", "print"} /\ pc' = "read" /\ jobs' = <<>> /\ stored' = Finals(trie)
        /\ UNCHANGED <<TRIE_TYPE, trie, current_version, batch>>
    BY <1>6 DEF PrintBurst, AtPrint, trieVars, poolVars
  <2>2. batch = {} /\ Len(jobs') = 0
    BY <2>1, EmptySeq DEF Flow, PoolInStep, Active
  <2>3. <<>> \notin Finals(trie)
    BY DEF Versions, TrieInStep, IsTrie, Finals
  <2>4. Added' = {}
    BY <2>1 DEF Added, Active
  <2> QED
    BY <2>1, <2>2, <2>3, <2>4 DEF Versions, TrieInStep, QueriesInStep
<1>7. ASSUME NEW k \in 1..MaxBurst, TakeJob(k) \/ ExecuteCommand(k)
      PROVE  Versions'
  <2>1. UNCHANGED <<TRIE_TYPE, trie, current_version, jobs, i, pc, batch, stored>>
    BY <1>7 DEF TakeJob, ExecuteCommand, Pool!Begin, Pool!Finish, trieVars, burstVars, history
  <2> QED
    BY <2>1 DEF Versions, TrieInStep, QueriesInStep, Added, Active, IsDynamic
<1>8. CASE UNCHANGED vars
  BY <1>8 DEF vars, Versions, TrieInStep, QueriesInStep, Added, Active, IsDynamic
<1> QED
  BY <1>1, <1>2, <1>3, <1>4, <1>5, <1>6, <1>7, <1>8, Steps, AddKeepsVersions,
     DeleteKeepsVersions, QueryKeepsVersions

\* After every step of every burst the branches of the trie end in an n-gram.
THEOREM Branches == Spec => []BranchesEnd
<1>1. Versions => BranchesEnd
  BY DEF Versions, TrieInStep, IsTrie, BranchesEnd
<1>2. Flow /\ Versions /\ [Next]_vars => Versions'
  BY VersionsStep
<1> QED
  BY <1>1, <1>2, FlowHolds, VersionsInit, PTL DEF Spec

(***************************************************************************)
(* The versions tell the order of the lines.                               *)
(***************************************************************************)
\* The k-th line is the last so far that has its command and its n-gram.
IsLast(k) ==
  \A j \in (k + 1)..(i - 1) :
    jobs[j].command = jobs[k].command => jobs[j].ngram # jobs[k].ngram

\* Of the queries handed over, those before line k have an earlier version.
Ordered(k, version) == \A q \in batch : q < k <=> jobs[q].Q_version < version

OrderOf(k) ==
  /\ jobs[k].command = "A" /\ IsLast(k) /\ jobs[k].ngram # <<>> =>
       Ordered(k, trie[jobs[k].ngram].A_version)
  /\ /\ jobs[k].command = "D" /\ IsLast(k) /\ jobs[k].ngram # <<>>
     /\ PutInBefore(jobs[k].ngram, k)
     => Ordered(k, trie[jobs[k].ngram].D_version)

Order == Active /\ IsDynamic => \A k \in 1..(i - 1) : OrderOf(k)

\* The invariant is the property, of all lines read.
LEMMA OrderIsVersionsOrder == Order => VersionsOrder
<1> SUFFICES ASSUME Order, pc \in {"process", "wait"}, TRIE_TYPE = "dynamic",
                    NEW k \in 1..(i - 1)
             PROVE  LET command == jobs[k].command
                        ngram == jobs[k].ngram
                        last == \A j \in (k + 1)..(i - 1) :
                                  jobs[j].command = command => jobs[j].ngram # ngram
                    IN  /\ command = "A" /\ last /\ ngram # <<>> =>
                             \A q \in batch :
                               q < k <=> jobs[q].Q_version < trie[ngram].A_version
                        /\ command = "D" /\ last /\ PutInBefore(ngram, k) /\ ngram # <<>> =>
                             \A q \in batch :
                               q < k <=> jobs[q].Q_version < trie[ngram].D_version
  BY DEF VersionsOrder
<1>1. OrderOf(k)
  BY DEF Order, Active, IsDynamic
<1> QED
  BY <1>1 DEF OrderOf, IsLast, Ordered

\* The update at hand: later than every query before it.
LEMMA UpdateKeepsOrder ==
  ASSUME Flow, Versions, Order, ProcessAdd \/ ProcessDelete
  PROVE  Order'
<1>1. /\ pc = "process" /\ pc' = "process" /\ IsDynamic /\ i' = i + 1 /\ i \in 1..Len(jobs)
      /\ jobs[i].command = IF ProcessAdd THEN "A" ELSE "D"
      /\ trie' = IF ProcessAdd THEN TrieInsert(trie, jobs[i].ngram, current_version)
                               ELSE TrieFakeDelete(trie, jobs[i].ngram, current_version)
      /\ UNCHANGED <<TRIE_TYPE, current_version, jobs, batch, stored>>
  <2>1. i \in 1..Len(jobs)
    BY UpdateKeepsFlow
  <2>2. CASE ProcessAdd
    BY <2>1, <2>2 DEF ProcessAdd, AtJob, IsDynamic, burstVars, poolVars, history
  <2>3. CASE ProcessDelete /\ ~ProcessAdd
    BY <2>1, <2>3 DEF ProcessDelete, AtJob, IsDynamic, burstVars, poolVars, history
  <2> QED
    BY <2>2, <2>3
<1>2. /\ i \in Nat /\ current_version \in Nat /\ current_version \in 0..current_version
      /\ jobs[i].ngram \in Seq(Words)
      /\ IsTrie(trie, Words, current_version)
  BY <1>1, AtHand DEF Versions, TrieInStep
<1>3. /\ \A k \in 1..(i - 1) :
           jobs[k].command = "A" /\ jobs[k].ngram # <<>> => jobs[k].ngram \in Finals(trie)
      /\ \A k \in 1..i :
           PutInBefore(jobs[k].ngram, k) /\ jobs[k].ngram # <<>> =>
             jobs[k].ngram \in Finals(trie)
      /\ \A p \in Finals(trie) : p \in DOMAIN trie
  BY <1>1, AtHand DEF Active
<1>4. /\ \A q \in batch : q < i
      /\ \A q \in batch : jobs[q].Q_version < current_version
  <2>1. batch \subseteq 1..(i - 1)
    BY <1>1 DEF Flow, PoolInStep, Active
  <2>2. \A q \in batch : jobs[q].Q_version < current_version
    BY <1>1 DEF Versions, QueriesInStep
  <2> QED
    BY <1>2, <2>1, <2>2
<1>5. ASSUME NEW k \in 1..(i - 1)
      PROVE  /\ IsLast(k)' => IsLast(k)
             /\ IsLast(k)' => jobs[i].command # jobs[k].command \/ jobs[i].ngram # jobs[k].ngram
             /\ PutInBefore(jobs[k].ngram, k)' <=> PutInBefore(jobs[k].ngram, k)
             /\ OrderOf(k)
  <2>1. i \in (k + 1)..(i' - 1) /\ \A j \in (k + 1)..(i - 1) : j \in (k + 1)..(i' - 1)
    BY <1>1, <1>2
  <2>2. IsLast(k)' => IsLast(k)
    BY <1>1, <2>1 DEF IsLast
  <2>3. IsLast(k)' => jobs[i].command # jobs[k].command \/ jobs[i].ngram # jobs[k].ngram
    BY <1>1, <2>1 DEF IsLast
  <2>4. PutInBefore(jobs[k].ngram, k)' <=> PutInBefore(jobs[k].ngram, k)
    BY <1>1 DEF PutInBefore
  <2>5. OrderOf(k)
    BY <1>1 DEF Order, Active
  <2> QED
    BY <2>2, <2>3, <2>4, <2>5
<1>6. \A k : \A version : Ordered(k, version)' <=> Ordered(k, version)
  BY <1>1 DEF Ordered
<1>7. \A version : version = current_version => Ordered(i, version)
  BY <1>4 DEF Ordered
<1>8. \A k \in 1..(i' - 1) : k = i \/ k \in 1..(i - 1)
  BY <1>1, <1>2
<1>9. CASE ProcessAdd
  <2>1. Inserted(trie', trie, jobs[i].ngram, current_version, current_version)
    BY <1>1, <1>2, <1>9, InsertNodes
  <2>2. jobs[i].ngram # <<>> => trie'[jobs[i].ngram].A_version = current_version
    BY <2>1 DEF Inserted
  <2>3. \A p \in Finals(trie) :
          /\ p # jobs[i].ngram => trie'[p] = trie[p]
          /\ trie'[p].D_version = trie[p].D_version
    BY <1>3, <2>1 DEF Inserted
  <2>4. ASSUME NEW k, k = i
        PROVE  OrderOf(k)'
    <3>1. /\ jobs'[k].command = "A"
          /\ jobs'[k].ngram # <<>> => Ordered(k, trie'[jobs'[k].ngram].A_version)
      BY <1>1, <1>7, <1>9, <2>2, <2>4
    <3> QED
      BY <1>6, <3>1 DEF OrderOf
  <2>5. ASSUME NEW k \in 1..(i - 1)
        PROVE  OrderOf(k)'
    <3>1. ASSUME jobs[k].command = "A", IsLast(k)', jobs[k].ngram # <<>>
          PROVE  Ordered(k, trie'[jobs[k].ngram].A_version)
      <4>1. jobs[k].ngram \in Finals(trie) /\ jobs[k].ngram # jobs[i].ngram
        BY <1>1, <1>3, <1>5, <1>9, <3>1
      <4> QED
        BY <1>5, <2>3, <3>1, <4>1 DEF OrderOf
    <3>2. ASSUME jobs[k].command = "D", IsLast(k)', jobs[k].ngram # <<>>,
                 PutInBefore(jobs[k].ngram, k)
          PROVE  Ordered(k, trie'[jobs[k].ngram].D_version)
      <4>1. jobs[k].ngram \in Finals(trie)
        BY <1>2, <1>3, <3>2
      <4> QED
        BY <1>5, <2>3, <3>2, <4>1 DEF OrderOf
    <3> QED
      BY <1>1, <1>5, <1>6, <3>1, <3>2 DEF OrderOf
  <2> QED
    BY <1>8, <2>4, <2>5 DEF Order
<1>10. CASE ~ProcessAdd
  <2>1. MarkedDeleted(trie', trie, jobs[i].ngram, current_version, current_version)
    BY <1>1, <1>2, <1>10, FakeDeleteNodes
  <2>2. jobs[i].ngram \in Finals(trie) => trie'[jobs[i].ngram].D_version = current_version
    BY <2>1 DEF MarkedDeleted
  <2>3. \A p \in Finals(trie) :
          /\ p # jobs[i].ngram => trie'[p] = trie[p]
          /\ trie'[p].A_version = trie[p].A_version
    BY <1>3, <2>1 DEF MarkedDeleted
  <2>4. ASSUME NEW k, k = i
        PROVE  OrderOf(k)'
    <3>1. PutInBefore(jobs[k].ngram, k)' <=> PutInBefore(jobs[k].ngram, k)
      BY <1>1 DEF PutInBefore
    <3>2. k \in 1..i
      BY <1>1, <2>4
    <3>3. PutInBefore(jobs[k].ngram, k) /\ jobs[k].ngram # <<>> =>
            trie'[jobs[k].ngram].D_version = current_version
      BY <1>3, <2>2, <2>4, <3>2
    <3>4. jobs'[k].command = "D" /\ jobs' = jobs
      BY <1>1, <1>10, <2>4
    <3> QED
      BY <1>6, <1>7, <2>4, <3>1, <3>3, <3>4 DEF OrderOf
  <2>5. ASSUME NEW k \in 1..(i - 1)
        PROVE  OrderOf(k)'
    <3>1. ASSUME jobs[k].command = "A", IsLast(k)', jobs[k].ngram # <<>>
          PROVE  Ordered(k, trie'[jobs[k].ngram].A_version)
      <4>1. jobs[k].ngram \in Finals(trie)
        BY <1>3, <3>1
      <4> QED
        BY <1>5, <2>3, <3>1, <4>1 DEF OrderOf
    <3>2. ASSUME jobs[k].command = "D", IsLast(k)', jobs[k].ngram # <<>>,
                 PutInBefore(jobs[k].ngram, k)
          PROVE  Ordered(k, trie'[jobs[k].ngram].D_version)
      <4>1. jobs[k].ngram \in Finals(trie) /\ jobs[k].ngram # jobs[i].ngram
        BY <1>1, <1>2, <1>3, <1>5, <1>10, <3>2
      <4> QED
        BY <1>5, <2>3, <3>2, <4>1 DEF OrderOf
    <3> QED
      BY <1>1, <1>5, <1>6, <3>1, <3>2 DEF OrderOf
  <2> QED
    BY <1>8, <2>4, <2>5 DEF Order
<1> QED
  BY <1>9, <1>10

\* The query at hand: not earlier than any update before it.
LEMMA QueryKeepsOrder ==
  ASSUME Flow, Versions, Order, ProcessQuery \/ ProcessStatic
  PROVE  Order'
<1>1. /\ pc = "process" /\ pc' = "process" /\ i \in 1..Len(jobs) /\ i' = i + 1
      /\ batch' = batch \union {i} /\ TRIE_TYPE' = TRIE_TYPE
      /\ \A k \in 1..Len(jobs) : /\ jobs'[k].command = jobs[k].command
                                 /\ jobs'[k].ngram = jobs[k].ngram
                                 /\ k # i => jobs'[k] = jobs[k]
      /\ jobs'[i].Q_version = IF IsDynamic THEN current_version ELSE jobs[i].Q_version
  BY CollectKeepsFlow
<1>2. /\ UNCHANGED <<trie, stored>>
      /\ IsDynamic => jobs[i].command = "Q"
  BY DEF ProcessQuery, ProcessStatic, AtJob, IsDynamic, trieVars, history
<1> SUFFICES ASSUME IsDynamic PROVE \A k \in 1..(i' - 1) : OrderOf(k)'
  BY <1>1 DEF Order, IsDynamic
<1>3. /\ i \in Nat /\ current_version \in Nat
      /\ \A q \in batch : q \in 1..Len(jobs) /\ q # i
  <2>1. batch \subseteq 1..(i - 1)
    BY <1>1 DEF Flow, PoolInStep, Active
  <2> QED
    BY <1>1, <2>1, AtHand
<1>4. \A k \in 1..(i' - 1) : k = i \/ k \in 1..(i - 1)
  BY <1>1, <1>3
<1>5. ASSUME NEW k, k = i
      PROVE  OrderOf(k)'
  <2>1. jobs'[k].command = "Q"
    BY <1>1, <1>2, <1>5
  <2> QED
    BY <2>1 DEF OrderOf
<1>6. ASSUME NEW k \in 1..(i - 1)
      PROVE  OrderOf(k)'
  <2>1. k \in 1..Len(jobs) /\ k < i
    BY <1>1, <1>3
  <2>2. IsLast(k)' => IsLast(k)
    <3>1. \A j \in (k + 1)..(i - 1) : j \in (k + 1)..(i' - 1) /\ j \in 1..Len(jobs)
      BY <1>1, <1>3
    <3> QED
      BY <1>1, <2>1, <3>1 DEF IsLast
  <2>3. ASSUME NEW ngram PROVE PutInBefore(ngram, k)' <=> PutInBefore(ngram, k)
    <3>1. \A j \in 1..(k - 1) : j \in 1..Len(jobs)
      BY <2>1
    <3> QED
      BY <1>1, <1>2, <3>1 DEF PutInBefore
  <2>4. ASSUME NEW version \in NoVersion..current_version, Ordered(k, version)
        PROVE  Ordered(k, version)'
    <3>1. ~(i < k) /\ ~(current_version < version)
      BY <1>3, <2>1, <2>4 DEF NoVersion
    <3> QED
      BY <1>1, <1>3, <2>4, <3>1 DEF Ordered
  <2>5. OrderOf(k)
    BY <1>1 DEF Order, Active
  <2>6. \A p \in Finals(trie) :
          /\ trie[p].A_version \in NoVersion..current_version
          /\ trie[p].D_version \in NoVersion..current_version
    BY AtHand
  <2>7. ASSUME jobs[k].command = "A", IsLast(k)', jobs[k].ngram # <<>>
        PROVE  Ordered(k, trie[jobs[k].ngram].A_version)'
    <3>1. jobs[k].ngram \in Finals(trie)
      BY <1>1, <2>7, AtHand DEF Active
    <3>2. Ordered(k, trie[jobs[k].ngram].A_version)
      BY <2>2, <2>5, <2>7 DEF OrderOf
    <3>3. trie'[jobs'[k].ngram].A_version = trie[jobs[k].ngram].A_version
      BY <1>1, <1>2, <2>1
    <3>4. \A version : version = trie[jobs[k].ngram].A_version => Ordered(k, version)'
      BY <2>4, <2>6, <3>1, <3>2
    <3> QED
      BY <3>3, <3>4 DEF Ordered
  <2>8. ASSUME jobs[k].command = "D", IsLast(k)', jobs[k].ngram # <<>>,
               PutInBefore(jobs[k].ngram, k)
        PROVE  Ordered(k, trie[jobs[k].ngram].D_version)'
    <3>1. jobs[k].ngram \in Finals(trie)
      <4>1. k \in 1..i
        BY <1>3
      <4> QED
        BY <1>1, <2>8, <4>1, AtHand DEF Active
    <3>2. Ordered(k, trie[jobs[k].ngram].D_version)
      BY <2>2, <2>5, <2>8 DEF OrderOf
    <3>3. trie'[jobs'[k].ngram].D_version = trie[jobs[k].ngram].D_version
      BY <1>1, <1>2, <2>1
    <3>4. \A version : version = trie[jobs[k].ngram].D_version => Ordered(k, version)'
      BY <2>4, <2>6, <3>1, <3>2
    <3> QED
      BY <3>3, <3>4 DEF Ordered
  <2>9. /\ jobs'[k].command = jobs[k].command /\ jobs'[k].ngram = jobs[k].ngram
        /\ PutInBefore(jobs[k].ngram, k)' => PutInBefore(jobs[k].ngram, k)
    <3>1. jobs'[k].command = jobs[k].command /\ jobs'[k].ngram = jobs[k].ngram
      BY <1>1, <2>1
    <3> QED
      BY <2>3, <3>1 DEF PutInBefore
  <2> QED
    BY <2>7, <2>8, <2>9 DEF OrderOf
<1> QED
  BY <1>4, <1>5, <1>6

\* A step keeps the versions in the order of the lines.
LEMMA OrderStep ==
  ASSUME Flow, Versions, Order, [Next]_vars
  PROVE  Order'
<1>1. ASSUME NEW command \in Letters[TRIE_TYPE], NEW ngram \in Ngrams \union Texts,
             AddCommand(command, ngram)
      PROVE  Order'
  BY <1>1 DEF AddCommand, Order, Active
<1>2. CASE EndOfBurst
  <2>1. i' = 1
    BY <1>2 DEF EndOfBurst
  <2> QED
    BY <2>1 DEF Order
<1>3. CASE EndOfFile \/ Barrier \/ DeleteNgram \/ PrintBurst
  BY <1>3 DEF EndOfFile, Barrier, DeleteNgram, PrintBurst, Order, Active
<1>4. CASE \/ ExecuteAllJobs \/ UNCHANGED vars
           \/ \E k \in 1..MaxBurst : TakeJob(k) \/ ExecuteCommand(k)
  <2>1. /\ UNCHANGED <<TRIE_TYPE, trie, jobs, i, batch, stored>>
        /\ pc' = pc \/ pc = "process"
    BY <1>4 DEF ExecuteAllJobs, Pool!Release, TakeJob, ExecuteCommand, Pool!Begin,
                Pool!Finish, vars, trieVars, burstVars, history
  <2>2. Active' => Active
    BY <2>1 DEF Active
  <2> QED
    BY <2>1, <2>2 DEF Order, IsDynamic, OrderOf, IsLast, Ordered, PutInBefore
<1> QED
  BY <1>1, <1>2, <1>3, <1>4, Steps, UpdateKeepsOrder, QueryKeepsOrder

\* The version of an update is later than those of the queries before it, and
\* not later than those of the queries after it.
THEOREM VersionsAreOrdered == Spec => []VersionsOrder
<1>1. Init => Order
  BY DEF Init, Order, Active
<1>2. Flow /\ Versions /\ Order /\ [Next]_vars => Order'
  BY OrderStep
<1>3. Flow /\ Versions /\ [Next]_vars => Versions'
  BY VersionsStep
<1> QED
  BY <1>1, <1>2, <1>3, FlowHolds, VersionsInit, OrderIsVersionsOrder, PTL DEF Spec

(***************************************************************************)
(* What a query answers.                                                   *)
(***************************************************************************)
\* What a query answers was in the trie before the burst or is added by a line
\* before it: the last line that adds the n-gram has left its version in the
\* trie, and the query sees it only if that line comes first.
LEMMA AnswerIsSound ==
  ASSUME Flow, Versions, Order, Active, NEW k \in batch, NEW p \in ToSet(JobAnswer(k))
  PROVE  PutInBefore(p, k)
<1>1. /\ k \in 1..(i - 1) /\ k \in 1..Len(jobs) /\ i \in Nat
      /\ IsDynamic => jobs[k].command = "Q"
      /\ IsDynamic => jobs[k].Q_version \in 0..current_version
  <2>1. i \in 1..(Len(jobs) + 1) /\ Len(jobs) \in Nat
    BY LenProperties DEF Flow, Control
  <2>2. k \in 1..(i - 1) /\ (IsDynamic => jobs[k].command = "Q")
    BY DEF Flow, PoolInStep
  <2>3. IsDynamic => jobs[k].Q_version \in 0..current_version
    BY DEF Versions, QueriesInStep
  <2> QED
    BY <2>1, <2>2, <2>3
<1>2. /\ p \in Finals(trie)
      /\ IsDynamic => trie[p].A_version <= jobs[k].Q_version
  BY <1>1, AnswersSeen DEF Visible, Finals
<1>3. p \in stored \union Added /\ p # <<>>
  BY <1>2 DEF Active, Versions, TrieInStep
<1>4. CASE p \in stored
  BY <1>4 DEF PutInBefore
<1>5. CASE p \notin stored
  <2> DEFINE adding == {j \in 1..(i - 1) : jobs[j].command = "A" /\ jobs[j].ngram = p}
  <2>1. IsDynamic /\ adding # {}
    BY <1>3, <1>5 DEF Added
  <2>2. PICK j \in adding : \A x \in adding : x <= j
    <3>1. i - 1 \in Nat /\ adding \in SUBSET (1..(i - 1))
      BY <1>1
    <3> HIDE DEF adding
    <3> QED
      BY <2>1, <3>1, MaxNumber
  <2>3. j \in 1..(i - 1) /\ jobs[j].command = "A" /\ jobs[j].ngram = p
    OBVIOUS
  <2>4. IsLast(j)
    <3> SUFFICES ASSUME NEW x \in (j + 1)..(i - 1), jobs[x].command = "A", jobs[x].ngram = p
                 PROVE  FALSE
      BY <2>3 DEF IsLast
    <3>1. x \in adding /\ ~(x <= j)
      BY <1>1, <2>3
    <3> QED
      BY <2>2, <3>1
  <2>5. k < j <=> jobs[k].Q_version < trie[p].A_version
    BY <1>3, <2>1, <2>3, <2>4 DEF Order, OrderOf, Ordered
  <2>6. trie[p].A_version \in NoVersion..current_version /\ current_version \in Nat
    BY <1>2, AtHand
  <2>7. ~(jobs[k].Q_version < trie[p].A_version)
    BY <1>1, <1>2, <2>1, <2>6 DEF NoVersion
  <2>8. k # j
    BY <1>1, <2>1, <2>3
  <2>9. j \in 1..(k - 1)
    BY <1>1, <2>3, <2>5, <2>7, <2>8
  <2> QED
    BY <2>3, <2>9 DEF PutInBefore
<1> QED
  BY <1>4, <1>5

\* A step keeps the answers written so far sound, and adds a sound one.
LEMMA SoundStep ==
  ASSUME Flow, Slots, Versions, Order, AnswersSound, [Next]_vars
  PROVE  AnswersSound'
<1>1. CASE pc = "wait"
  <2>1. ASSUME NEW k \in 1..MaxBurst, ExecuteCommand(k)
        PROVE  AnswersSound'
    <3>1. /\ k \in batch /\ finished' = finished \union {k}
          /\ buffer'[jobs[k].id] = JobAnswer(k)
          /\ \A j \in finished : buffer'[jobs[j].id] = buffer[jobs[j].id]
      BY <2>1, ExecuteKeepsSlots
    <3>2. UNCHANGED <<jobs, stored>>
      BY <2>1 DEF ExecuteCommand, burstVars, history
    <3>3. \A j \in finished' : \A p \in ToSet(buffer'[jobs[j].id]) : PutInBefore(p, j)
      BY <1>1, <3>1, AnswerIsSound DEF AnswersSound, Active
    <3> QED
      BY <3>2, <3>3 DEF AnswersSound, PutInBefore
  <2>2. CASE Barrier
    <3>1. finished' = {}
      BY <2>2 DEF Barrier, AllTasksFinish, Pool!Complete
    <3> QED
      BY <3>1 DEF AnswersSound
  <2>3. CASE UNCHANGED vars \/ \E k \in 1..MaxBurst : TakeJob(k)
    <3>1. UNCHANGED <<finished, buffer, jobs, stored>>
      BY <2>3 DEF vars, TakeJob, Pool!Begin, queryVars, burstVars, history
    <3> QED
      BY <3>1 DEF AnswersSound, PutInBefore
  <2> QED
    BY <1>1, <2>1, <2>2, <2>3, AtTheBarrier
<1>2. CASE pc # "wait"
  <2>1. finished = {}
    BY <1>2 DEF Flow, PoolInStep
  <2>2. \A k \in 1..MaxBurst : ~ExecuteCommand(k)
    BY <2>1, <1>2 DEF ExecuteCommand, Pool!Finish, Flow, PoolInStep
  <2>3. finished' = {}
    BY <1>2, <2>1, <2>2, Steps
       DEF AddCommand, EndOfBurst, EndOfFile, ProcessDelete, ProcessAdd, ProcessQuery,
           ProcessStatic, ExecuteAllJobs, Barrier, DeleteNgram, PrintBurst, TakeJob,
           Pool!Close, Pool!Collect, Pool!Release, Pool!Begin, poolVars, vars
  <2> QED
    BY <2>3 DEF AnswersSound
<1> QED
  BY <1>1, <1>2

\* No query answers with an n-gram that only a later line puts in.
THEOREM AnswersAreSound == Spec => []AnswersSound
<1>1. Init => AnswersSound
  BY DEF Init, Pool!PoolInit, AnswersSound
<1>2. Init => Order
  BY DEF Init, Order, Active
<1>3. Flow /\ Versions /\ Order /\ [Next]_vars => Order'
  BY OrderStep
<1>4. Flow /\ Versions /\ [Next]_vars => Versions'
  BY VersionsStep
<1>5. Flow /\ Slots /\ [Next]_vars => Slots'
  BY SlotsStep
<1>6. Flow /\ Slots /\ Versions /\ Order /\ AnswersSound /\ [Next]_vars => AnswersSound'
  BY SoundStep
<1> QED
  BY <1>1, <1>2, <1>3, <1>4, <1>5, <1>6, FlowHolds, SlotsInit, VersionsInit, PTL DEF Spec

(***************************************************************************)
(* The types.                                                              *)
(***************************************************************************)
\* There are not more jobs finished than lines of the burst.
LEMMA FinishedNumber ==
  ASSUME Flow
  PROVE  /\ IsFiniteSet(finished)
         /\ Cardinality(finished) \in Nat /\ Cardinality(finished) <= MaxBurst
<1>1. finished \subseteq 1..MaxBurst
  <2>1. Len(jobs) \in Nat /\ Len(jobs) <= MaxBurst /\ i <= Len(jobs) + 1 /\ i \in Nat
    BY LenProperties DEF Flow, Control
  <2> QED
    BY <2>1, BurstsAssumption DEF Flow, PoolInStep
<1>2. IsFiniteSet(1..MaxBurst) /\ Cardinality(1..MaxBurst) = MaxBurst
  BY BurstsAssumption, FS_Interval
<1> QED
  BY <1>1, <1>2, FS_Subset, FS_CardinalityType

\* One answer more: no n-gram is counted more often than there are answers.
LEMMA CountUpTo ==
  ASSUME NEW counts, NEW answer \in Answers, NEW n \in Nat,
         \A p \in DOMAIN counts : counts[p] \in 1..n
  PROVE  \A p \in DOMAIN Count(counts, answer) : Count(counts, answer)[p] \in 1..(n + 1)
<1> SUFFICES ASSUME NEW p \in DOMAIN counts \union ToSet(answer)
             PROVE  (IF p \in DOMAIN counts THEN counts[p] ELSE 0)
                      + (IF Contains(answer, p) THEN 1 ELSE 0) \in 1..(n + 1)
  BY DEF Count
<1>1. p \in ToSet(answer) => Contains(answer, p)
  BY LenProperties DEF Answers, ToSet, Contains
<1>2. CASE p \in DOMAIN counts
  BY <1>2
<1>3. CASE p \notin DOMAIN counts
  BY <1>1, <1>3
<1> QED
  BY <1>2, <1>3

\* Nothing is counted yet.
LEMMA CountersInit == Init => Counters
BY BurstsAssumption DEF Init, Counters, NoAppearances, Active

\* A run of queries moves the version on by one, and it has a line at least.
LEMMA CountersStep ==
  ASSUME Flow, Slots, Counters, [Next]_vars
  PROVE  Counters'
<1>0. /\ i \in Nat /\ i >= 1 /\ Len(jobs) \in Nat /\ Len(jobs) <= MaxBurst /\ i <= Len(jobs) + 1
      /\ current_version \in Nat /\ bursts \in Nat /\ MaxBurst \in Nat /\ MaxBursts \in Nat
      /\ MaxBurst * bursts \in Nat /\ MaxBurst * (bursts + 1) = MaxBurst * bursts + MaxBurst
  BY LenProperties, BurstsAssumption DEF Flow, Control, Counters
<1>1. ASSUME NEW command \in Letters[TRIE_TYPE], NEW ngram \in Ngrams \union Texts,
             AddCommand(command, ngram)
      PROVE  Counters'
  BY <1>1 DEF AddCommand, trieVars, history, Counters, Active
<1>2. CASE EndOfBurst \/ EndOfFile
  <2>1. /\ pc = "read" /\ (pc' = "done" \/ (pc' = "process" /\ i' = 1 /\ bursts < MaxBursts))
        /\ UNCHANGED <<current_version, bursts>>
        /\ appearances' = NoAppearances
    BY <1>2 DEF EndOfBurst, EndOfFile, trieVars, history, Counters
  <2> QED
    BY <1>0, <2>1 DEF Counters, Active, NoAppearances
<1>3. CASE ProcessDelete \/ ProcessAdd \/ ProcessQuery \/ ProcessStatic
  <2>1. /\ pc = "process" /\ pc' = pc /\ i' = i + 1 /\ UNCHANGED <<bursts, appearances>>
        /\ current_version' \in {current_version, current_version + 1}
    BY <1>3 DEF ProcessDelete, ProcessAdd, ProcessQuery, ProcessStatic, AtJob, trieVars, history
  <2> QED
    BY <1>0, <2>1 DEF Counters, Active, NoAppearances
<1>4. CASE ExecuteAllJobs
  <2>1. /\ pc = "process" /\ pc' = "wait"
        /\ UNCHANGED <<current_version, bursts, appearances, i>>
    BY <1>4 DEF ExecuteAllJobs, trieVars, history
  <2> QED
    BY <1>0, <2>1 DEF Counters, Active, NoAppearances
<1>5. CASE Barrier
  <2>1. /\ pc = "wait" /\ pc' \in {"delete", "print"}
        /\ UNCHANGED <<current_version, bursts, appearances>>
    BY <1>5 DEF Barrier, trieVars, history
  <2>2. \A n \in DOMAIN appearances : appearances[n] \in 1..MaxBurst
    BY <1>0, <2>1, FinishedNumber DEF Counters
  <2> QED
    BY <1>0, <2>1, <2>2 DEF Counters, Active
<1>6. CASE DeleteNgram
  BY <1>6 DEF DeleteNgram, history, Counters, Active
<1>7. CASE PrintBurst
  <2>1. /\ pc \in {"delete", "print"} /\ pc' = "read" /\ bursts' = bursts + 1
        /\ appearances' = NoAppearances /\ current_version' = current_version
    BY <1>7 DEF PrintBurst, AtPrint, trieVars
  <2>2. bursts' \in 0..MaxBursts /\ current_version' <= MaxBurst * bursts'
    BY <1>0, <2>1 DEF Counters, Active
  <2> QED
    BY <1>0, <2>1, <2>2 DEF Counters, Active, NoAppearances
<1>8. ASSUME NEW k \in 1..MaxBurst, ExecuteCommand(k)
      PROVE  Counters'
  <2>1. /\ pc = "wait" /\ k \in 1..Len(jobs) /\ k \notin finished
        /\ finished' = finished \union {k}
    BY <1>8, ExecuteKeepsSlots
  <2>2. /\ UNCHANGED <<pc, i, current_version, bursts>>
        /\ appearances' = Count(appearances, JobAnswer(k))
    BY <1>8 DEF ExecuteCommand, trieVars, history
  <2>3. Cardinality(finished') = Cardinality(finished) + 1
    BY <2>1, FinishedNumber, FS_AddElement
  <2>4. \A n \in DOMAIN appearances' : appearances'[n] \in 1..Cardinality(finished')
    <3>1. JobAnswer(k) \in Answers
      BY <2>1, AnswersSeen
    <3>2. Cardinality(finished) \in Nat
      BY FinishedNumber
    <3> QED
      BY <2>1, <2>2, <2>3, <3>1, <3>2, CountUpTo DEF Counters
  <2> QED
    BY <1>0, <2>1, <2>2, <2>4 DEF Counters, Active
<1>9. CASE UNCHANGED vars \/ \E k \in 1..MaxBurst : TakeJob(k)
  <2>1. UNCHANGED <<pc, i, current_version, bursts, appearances, finished>>
    BY <1>9 DEF vars, TakeJob, Pool!Begin, trieVars, history
  <2> QED
    BY <2>1 DEF Counters, Active
<1> QED
  BY <1>1, <1>2, <1>3, <1>4, <1>5, <1>6, <1>7, <1>8, <1>9, Steps

\* Every state is well typed: in particular the counters stay in their bounds.
THEOREM Types == Spec => []TypeOK
<1>1. ASSUME Flow, FreedInStep, Slots, Versions, Counters PROVE TypeOK
  <2>1. /\ jobs \in Seq(Job(TRIE_TYPE)) /\ Len(jobs) \in Nat /\ DOMAIN jobs = 1..Len(jobs)
        /\ i \in 1..(Len(jobs) + 1) /\ id \in 0..Len(jobs) /\ Len(jobs) <= MaxBurst
        /\ current_version \in Nat
    BY <1>1, LenProperties DEF Flow, Control
  <2>2. \A p \in DOMAIN trie :
          /\ p \in Seq(Words) /\ trie[p].is_final \in BOOLEAN
          /\ {trie[p].A_version, trie[p].D_version} \subseteq NoVersion..current_version
    BY <1>1 DEF Versions, TrieInStep, IsTrie, Node
  <2>3. current_version \in 0..(MaxBurst * MaxBursts)
    <3>1. /\ bursts \in Nat /\ MaxBurst \in Nat /\ MaxBursts \in Nat
          /\ bursts <= MaxBursts /\ (pc \notin {"read", "done"} => bursts + 1 <= MaxBursts)
      BY <1>1, BurstsAssumption DEF Counters
    <3>2. /\ current_version <= MaxBurst * bursts + MaxBurst
          /\ pc \in {"read", "done"} => current_version <= MaxBurst * bursts
      BY <1>1, <2>1, <3>1 DEF Counters, Active
    <3>3. \A m, n \in Nat : m <= n => MaxBurst * m <= MaxBurst * n
      BY <3>1
    <3>4. MaxBurst * (bursts + 1) = MaxBurst * bursts + MaxBurst
      BY <3>1
    <3> QED
      BY <2>1, <3>1, <3>2, <3>3, <3>4
  <2>4. \A k \in DOMAIN jobs :
          /\ jobs[k].command \in Letters[TRIE_TYPE]
          /\ jobs[k].ngram \in Ngrams \union Texts
          /\ jobs[k].id = Garbage \/ jobs[k].id \in 0..(id - 1)
          /\ jobs[k].Q_version = Garbage \/ jobs[k].Q_version \in 0..current_version
    <3> SUFFICES ASSUME NEW k \in 1..Len(jobs)
                 PROVE  /\ jobs[k].command \in Letters[TRIE_TYPE]
                        /\ jobs[k].ngram \in Ngrams \union Texts
                        /\ jobs[k].id = Garbage \/ jobs[k].id \in 0..(id - 1)
                        /\ jobs[k].Q_version = Garbage \/ jobs[k].Q_version \in 0..current_version
      BY <2>1
    <3>1. jobs[k] \in Job(TRIE_TYPE)
      BY <2>1, ElementOfSeq
    <3> QED
      BY <1>1, <3>1 DEF Job, Slots, Versions, QueriesInStep
  <2>5. \A n \in DOMAIN appearances : appearances[n] \in 1..MaxBurst
    BY <1>1, FinishedNumber, BurstsAssumption DEF Counters, NoAppearances
  <2>6. Pool!PoolTypeOK
    <3>1. batch \subseteq 1..MaxBurst
      BY <1>1, <2>1, BurstsAssumption DEF Flow, PoolInStep
    <3> QED
      BY <1>1, <3>1 DEF Flow, PoolInStep, Pool!PoolTypeOK
  <2>7. DOMAIN freed = DOMAIN jobs
    BY <1>1, <2>1, LenProperties DEF FreedInStep
  <2> QED
    BY <1>1, <2>1, <2>2, <2>3, <2>4, <2>5, <2>6, <2>7 DEF TypeOK, Flow, Control, Slots
<1>2. Flow /\ Slots /\ Counters /\ [Next]_vars => Counters'
  BY CountersStep
<1>3. Flow /\ Slots /\ [Next]_vars => Slots'
  BY SlotsStep
<1>4. Flow /\ Versions /\ [Next]_vars => Versions'
  BY VersionsStep
<1>5. Flow /\ FreedInStep /\ [Next]_vars => FreedInStep'
  BY FreedStep
<1> QED
  BY <1>1, <1>2, <1>3, <1>4, <1>5, FlowHolds, FreedInit, SlotsInit, VersionsInit,
     CountersInit, PTL DEF Spec
=============================================================================
