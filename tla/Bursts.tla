------------------------------- MODULE Bursts -------------------------------
(***************************************************************************)
(* bursts.c and parsing.c: how the lines of a burst become jobs, updates   *)
(* of the trie and queries, how the queries are handed to the pool of      *)
(* threads, and what is deleted, printed and freed at the end of a burst.  *)
(*                                                                         *)
(* The trie is that of VersionedTrie; the pool is WorkPool, which          *)
(* JobScheduler implements.  A job is a slot of burst.jobs; batch, begun   *)
(* and finished hold the slots handed to the pool.  The hash table of      *)
(* answers is the function appearances: how its buckets are kept and       *)
(* printed is the subject of module TopK.                                  *)
(***************************************************************************)
EXTENDS VersionedTrie

CONSTANTS
  Words,          \* of all n-grams and texts
  InitFiles,      \* the init files, as records [type, ngrams]
  Letters,        \* for each type, the first characters of the lines of a query
                  \* file, F excepted
  Ngrams,         \* the n-grams of the update lines
  Texts,          \* the texts of the query lines
  Bits,           \* the Bloom filter positions of every piece of a text
  Garbage,        \* what malloc leaves in memory
  CMD_INIT,       \* initial capacity of burst.jobs and of queryBuffer
  FreshUpdates,   \* the query file keeps to IsFresh below
  MaxBurst,       \* bound: lines of a burst
  MaxBursts       \* bound: bursts of a query file

ASSUME BurstsAssumption ==
  /\ InitFiles \subseteq [type : {"static", "dynamic"}, ngrams : Seq(Seq(Words))]
  /\ Ngrams \subseteq Seq(Words) /\ Texts \subseteq Seq(Words)
  /\ Garbage \notin Seq(Seq(Words)) /\ FreshUpdates \in BOOLEAN
  /\ CMD_INIT \in Nat \ {0} /\ MaxBurst \in Nat \ {0} /\ MaxBursts \in Nat

VARIABLES
  TRIE_TYPE,        \* "static" or "dynamic"
  trie, current_version,
  jobs,             \* burst.jobs[0 .. burst.numOfJobs - 1]
  capacity,         \* burst.capacity
  pc,               \* where readQueryFile and processBurst are
  i, id,            \* local variables of processBurst
  queryCapacity,    \* queryBuffer.capacity
  buffer,           \* queryBuffer.buffer
  appearances,      \* the hash table of answers of this burst
  phase, batch, begun, finished,   \* the pool of threads
  freed,            \* history: how many times each job's n-gram was freed
  printed,          \* history: what the last burst printed
  stored,           \* history: the n-grams of the trie at the last burst's end
  bursts            \* history: bursts ended

trieVars == <<TRIE_TYPE, trie, current_version>>
burstVars == <<jobs, capacity>>
queryVars == <<queryCapacity, buffer>>
poolVars == <<phase, batch, begun, finished>>
history == <<printed, stored, bursts>>
vars == <<TRIE_TYPE, trie, current_version, jobs, capacity, pc, i, id,
          queryCapacity, buffer, appearances, phase, batch, begun, finished,
          freed, printed, stored, bursts>>

Pool == INSTANCE WorkPool WITH Jobs <- 1..MaxBurst

\* No n-gram was an answer yet (topK_Hashtable_create).
NoAppearances == [n \in {} |-> 0]

\* readInputFile: current_version is still 0.
ReadInputFile(file) ==
  /\ TRIE_TYPE = file.type
  /\ trie = FoldLeft(LAMBDA t, ngram : TrieInsert(t, ngram, 0), EmptyTrie,
                     file.ngrams)

Init ==
  /\ \E file \in InitFiles : ReadInputFile(file)
  /\ current_version = 0
  /\ jobs = <<>> /\ capacity = CMD_INIT
  /\ pc = "read"
  /\ i = 1 /\ id = 0
  /\ queryCapacity = CMD_INIT
  /\ buffer = [q \in 0..(CMD_INIT - 1) |-> Garbage]
  /\ appearances = NoAppearances
  /\ Pool!PoolInit
  /\ freed = <<>>
  /\ printed = [answers |-> <<>>, frequencies |-> NoAppearances]
  /\ stored = Finals(trie)
  /\ bursts = 0

-----------------------------------------------------------------------------
(***************************************************************************)
(* readQueryFile.                                                          *)
(***************************************************************************)

\* The restriction on the query file under which the versions are enough: a
\* burst updates an n-gram once, and adds only one that is not stored and that
\* no node remembers as deleted.
IsFresh(command, ngram) ==
  command \in {"A", "D"} =>
    /\ \A k \in DOMAIN jobs : jobs[k].ngram = ngram => jobs[k].command = "Q"
    /\ command = "A" /\ ngram \in DOMAIN trie =>
         ~trie[ngram].is_final /\ trie[ngram].D_version = NoVersion

\* Mutant of Full: one line too late.
FullLate == Len(jobs) > capacity

Full == Len(jobs) = capacity

\* A line that does not begin with F (addCommand).
AddCommand(command, ngram) ==
  /\ pc = "read" /\ bursts < MaxBursts /\ Len(jobs) < MaxBurst
  /\ FreshUpdates => IsFresh(command, ngram)
  /\ capacity' = IF Full THEN 2 * capacity ELSE capacity
  /\ jobs' = Append(jobs, [command |-> command, ngram |-> ngram,
                           id |-> Garbage, Q_version |-> Garbage])
  /\ freed' = Append(freed, 0)
  /\ UNCHANGED <<trieVars, pc, i, id, queryVars, appearances,
                 poolVars, history>>

\* A line that begins with F: processBurst or processBurstStatic is entered.
EndOfBurst ==
  /\ pc = "read" /\ bursts < MaxBursts
  /\ pc' = "process"
  /\ i' = 1 /\ id' = 0
  /\ appearances' = NoAppearances
  /\ UNCHANGED <<trieVars, burstVars, queryVars, poolVars, freed,
                 history>>

\* The end of the query file.  Lines after the last F are dropped.
EndOfFile ==
  /\ pc = "read" /\ pc' = "done"
  /\ Pool!Close
  /\ UNCHANGED <<trieVars, burstVars, i, id, queryVars, appearances,
                 freed, history>>

-----------------------------------------------------------------------------
(***************************************************************************)
(* processBurst: the loop over the jobs, in the main thread.               *)
(***************************************************************************)
\* Mutant of Free: nothing is freed.
FreeNot(k) == UNCHANGED freed

Free(k) == freed' = [freed EXCEPT ![k] = @ + 1]

AtJob(command) == pc = "process" /\ i <= Len(jobs) /\ jobs[i].command = command

ProcessDelete ==
  /\ TRIE_TYPE = "dynamic" /\ AtJob("D")
  /\ trie' = TrieFakeDelete(trie, jobs[i].ngram, current_version)
  /\ i' = i + 1
  /\ UNCHANGED <<TRIE_TYPE, current_version, burstVars, pc, id, queryVars, appearances,
                 poolVars, freed, history>>

ProcessAdd ==
  /\ TRIE_TYPE = "dynamic" /\ AtJob("A")
  /\ trie' = TrieInsert(trie, jobs[i].ngram, current_version)
  /\ Free(i)
  /\ i' = i + 1
  /\ UNCHANGED <<TRIE_TYPE, current_version, burstVars, pc, id, queryVars, appearances,
                 poolVars, history>>

\* Mutant of LastOfRun: the version does not move on after a run of queries.
LastOfRunNever == FALSE

LastOfRun == i = Len(jobs) \/ jobs[i + 1].command # "Q"

\* One turn of the loop over a run of queries; the last turn of the run moves
\* the version on.
ProcessQuery ==
  /\ TRIE_TYPE = "dynamic" /\ AtJob("Q")
  /\ jobs' = [jobs EXCEPT ![i].id = id, ![i].Q_version = current_version]
  /\ Pool!Collect(i)
  /\ id' = id + 1 /\ i' = i + 1
  /\ current_version' = IF LastOfRun THEN current_version + 1 ELSE current_version
  /\ UNCHANGED <<TRIE_TYPE, trie, capacity, pc, queryVars, appearances, freed, history>>

\* The default case: i does not move, so the loop goes on for ever.
ProcessUnknown ==
  /\ TRIE_TYPE = "dynamic"
  /\ pc = "process" /\ i <= Len(jobs) /\ jobs[i].command \notin {"A", "D", "Q"}
  /\ UNCHANGED vars

\* Mutant of ProcessStatic: the loop does not move on.
ProcessStaticStuck == TRIE_TYPE = "static" /\ AtJob("Q") /\ UNCHANGED vars

\* processBurstStatic: every line is a query.
ProcessStatic ==
  /\ TRIE_TYPE = "static"
  /\ pc = "process" /\ i <= Len(jobs)
  /\ jobs' = [jobs EXCEPT ![i].id = id]
  /\ Pool!Collect(i)
  /\ id' = id + 1 /\ i' = i + 1
  /\ UNCHANGED <<trieVars, capacity, pc, queryVars, appearances,
                 freed, history>>

\* Mutant of TooFew: one buffer too few is enough.
TooFewByOne == queryCapacity < id - 1

TooFew == queryCapacity < id

\* The buffers grow to the number of queries and the pool is released.
ExecuteAllJobs ==
  /\ pc = "process" /\ i > Len(jobs) /\ pc' = "wait"
  /\ queryCapacity' = IF TooFew THEN id ELSE queryCapacity
  /\ buffer' = [q \in 0..(queryCapacity' - 1) |->
                  IF q \in DOMAIN buffer THEN buffer[q] ELSE Garbage]
  /\ Pool!Release
  /\ UNCHANGED <<trieVars, burstVars, i, id, appearances, freed,
                 history>>

-----------------------------------------------------------------------------
(***************************************************************************)
(* The threads of the pool.                                                *)
(***************************************************************************)
TakeJob(k) ==
  /\ Pool!Begin(k)
  /\ UNCHANGED <<trieVars, burstVars, pc, i, id, queryVars,
                 appearances, freed, history>>

\* What a job answers: executeStaticCommand or executeCommand.
JobAnswer(k) ==
  IF TRIE_TYPE = "static" THEN SearchStatic(trie, jobs[k].ngram, Bits)
            ELSE Search(trie, jobs[k].ngram, jobs[k].Q_version, Bits)

\* Every n-gram of an answer is inserted in the hash table of answers.
Count(counts, answer) ==
  [n \in DOMAIN counts \union ToSet(answer) |->
     (IF n \in DOMAIN counts THEN counts[n] ELSE 0)
       + (IF Contains(answer, n) THEN 1 ELSE 0)]

\* The search, its answer in the slot of the query, and the n-gram freed.
ExecuteCommand(k) ==
  /\ Pool!Finish(k)
  /\ buffer' = [buffer EXCEPT ![jobs[k].id] = JobAnswer(k)]
  /\ appearances' = Count(appearances, JobAnswer(k))
  /\ Free(k)
  /\ UNCHANGED <<trieVars, burstVars, pc, i, id, queryCapacity,
                 history>>

-----------------------------------------------------------------------------
(***************************************************************************)
(* The end of processBurst, after the barrier.                             *)
(***************************************************************************)
\* Mutant of AllTasksFinish: nobody waits.
AllTasksFinishNot ==
  /\ phase' = "collect" /\ batch' = {}
  /\ UNCHANGED <<begun, finished>>

\* JobScheduler_wait_all_tasks_finish returns.
AllTasksFinish == Pool!Complete

Barrier ==
  /\ pc = "wait"
  /\ pc' = IF TRIE_TYPE = "static" THEN "print" ELSE "delete"
  /\ AllTasksFinish
  /\ i' = 1
  /\ UNCHANGED <<trieVars, burstVars, id, queryVars, appearances,
                 freed, history>>

\* One turn of the loop that deletes the n-grams of the burst.
DeleteNgram ==
  /\ pc = "delete" /\ i <= Len(jobs)
  /\ IF jobs[i].command = "D"
     THEN trie' = TrieDelete(trie, jobs[i].ngram) /\ Free(i)
     ELSE UNCHANGED <<trie, freed>>
  /\ i' = i + 1
  /\ UNCHANGED <<TRIE_TYPE, current_version, burstVars, pc, id, queryVars, appearances,
                 poolVars, history>>

AtPrint ==
  \/ pc = "print"
  \/ pc = "delete" /\ i > Len(jobs)

\* The answers, in order, as they stand in the buffer.
Lines == [q \in 1..id |-> buffer[q - 1]]

\* The answers and the k most frequent n-grams are printed, everything the
\* burst held is freed, and readQueryFile empties the burst.
PrintBurst ==
  /\ AtPrint
  /\ pc' = "read"
  /\ printed' = [answers |-> Lines, frequencies |-> appearances]
  /\ buffer' = [q \in DOMAIN buffer |-> Garbage]
  /\ jobs' = <<>> /\ freed' = <<>>
  /\ stored' = Finals(trie)
  /\ bursts' = bursts + 1
  /\ appearances' = NoAppearances
  /\ i' = 1 /\ id' = 0
  /\ UNCHANGED <<trieVars, capacity, queryCapacity, poolVars>>

ProcessStep ==
  \/ ProcessDelete \/ ProcessAdd \/ ProcessQuery \/ ProcessUnknown \/ ProcessStatic
  \/ ExecuteAllJobs \/ Barrier \/ DeleteNgram \/ PrintBurst

ReadLine ==
  \/ \E command \in Letters[TRIE_TYPE] :
       \E ngram \in IF command = "Q" THEN Texts ELSE Ngrams :
         AddCommand(command, ngram)
  \/ EndOfBurst
  \/ EndOfFile

\* Nothing of this module happens after the end of the query file.
Ended == pc = "done" /\ UNCHANGED vars

Next ==
  \/ ReadLine
  \/ ProcessStep
  \/ \E k \in 1..MaxBurst : TakeJob(k) \/ ExecuteCommand(k)
  \/ Ended

Spec == Init /\ [][Next]_vars

(***************************************************************************)
(* The main thread goes on with a burst, and the pool with its jobs        *)
(* (JobScheduler).  Nothing obliges the query file to have another line.   *)
(***************************************************************************)
Fairness ==
  /\ WF_vars(ProcessStep)
  /\ \A k \in 1..MaxBurst : WF_vars(TakeJob(k)) /\ WF_vars(ExecuteCommand(k))

FairSpec == Spec /\ Fairness

-----------------------------------------------------------------------------
(***************************************************************************)
(* Properties.                                                             *)
(***************************************************************************)
Answers == Seq(Seq(Words))

TypeOK ==
  /\ \A p \in DOMAIN trie :
       /\ p \in Seq(Words) /\ trie[p].is_final \in BOOLEAN
       /\ {trie[p].A_version, trie[p].D_version} \subseteq NoVersion..current_version
  /\ current_version \in 0..(MaxBurst * MaxBursts)
  /\ \A k \in DOMAIN jobs :
       /\ jobs[k].command \in Letters[TRIE_TYPE]
       /\ jobs[k].ngram \in Ngrams \union Texts
       /\ jobs[k].id = Garbage \/ jobs[k].id \in 0..(id - 1)
       /\ jobs[k].Q_version = Garbage \/ jobs[k].Q_version \in 0..current_version
  /\ Len(jobs) <= capacity
  /\ pc \in {"read", "process", "wait", "delete", "print", "done"}
  /\ i \in 1..(Len(jobs) + 1) /\ id \in 0..Len(jobs)
  /\ DOMAIN buffer = 0..(queryCapacity - 1)
  /\ \A q \in DOMAIN buffer : buffer[q] = Garbage \/ buffer[q] \in Answers
  /\ \A n \in DOMAIN appearances : appearances[n] \in 1..MaxBurst
  /\ Pool!PoolTypeOK
  /\ DOMAIN freed = DOMAIN jobs

\* The n-gram of every job is freed exactly once in its burst, by whoever uses
\* it last: the main thread for A and D, a worker for Q.  Nobody uses one that
\* is freed, and none is left when the burst is emptied.
FreedOnce ==
  /\ \A k \in DOMAIN freed : freed[k] <= 1
  /\ \A k \in batch \ finished : freed[k] = 0
  /\ pc \in {"process", "wait"} /\ TRIE_TYPE = "dynamic" =>
       \A k \in DOMAIN jobs : jobs[k].command = "D" => freed[k] = 0
  /\ AtPrint => \A k \in DOMAIN freed : freed[k] = 1

\* Workers write to different slots of the query buffer, inside the array that
\* was grown before they were released, and every line printed was written.
SlotsOwned ==
  /\ \A k \in batch : jobs[k].id \in 0..(id - 1)
  /\ \A j, k \in batch : jobs[j].id = jobs[k].id => j = k
  /\ pc = "wait" => \A k \in batch : jobs[k].id \in DOMAIN buffer
  /\ AtPrint => \A q \in 1..id : Lines[q] # Garbage

\* While a worker is in a query, the main thread leaves alone what it reads
\* without a lock, from the first word to the last: the trie and its versions,
\* the jobs and the arrays of the query buffer.
NothingMovesUnderAQuery ==
  [][begun \ finished # {} =>
       UNCHANGED <<trieVars, burstVars, queryCapacity>>]_vars

\* Was ngram in the trie, or added by a line before the k-th of the burst?
PutInBefore(ngram, k) ==
  \/ ngram \in stored
  \/ \E j \in 1..(k - 1) : jobs[j].command = "A" /\ jobs[j].ngram = ngram

\* The versions tell the order of the lines: the version an update leaves in
\* the trie is later than that of every query before it, and not later than
\* that of a query after it.  (A later update of the n-gram takes it away.)
VersionsOrder ==
  pc \in {"process", "wait"} /\ TRIE_TYPE = "dynamic" =>
    \A k \in 1..(i - 1) :
      LET command == jobs[k].command
          ngram == jobs[k].ngram
          last == \A j \in (k + 1)..(i - 1) :
                    jobs[j].command = command => jobs[j].ngram # ngram
      IN  /\ command = "A" /\ last /\ ngram # <<>> =>
               \A q \in batch :
                 q < k <=> jobs[q].Q_version < trie[ngram].A_version
          /\ command = "D" /\ last /\ PutInBefore(ngram, k) /\ ngram # <<>> =>
               \A q \in batch :
                 q < k <=> jobs[q].Q_version < trie[ngram].D_version

\* No query answers with an n-gram that only a later line puts in: for every
\* query file, and however often it updates the same n-gram.
AnswersSound ==
  \A k \in finished : \A p \in ToSet(buffer[jobs[k].id]) : PutInBefore(p, k)

\* The trie is a tree whose branches all end in an n-gram: trieDeleteNgram
\* leaves no dead branch behind and does not cut a live one.
BranchesEnd ==
  \A p \in DOMAIN trie :
    /\ PathNodes(p) \subseteq DOMAIN trie
    /\ trie[p].is_final \/ Children(trie, p) # {}

\* The lines of the burst.
Pending == [k \in DOMAIN jobs |->
              [command |-> jobs[k].command, ngram |-> jobs[k].ngram]]

Service == INSTANCE NgramService WITH
  Commands <- [command : {"Q"}, ngram : Texts]
                \union [command : {"A", "D"}, ngram : Ngrams],
  Initials <- {ToSet(file.ngrams) : file \in InitFiles},
  store <- stored,
  pending <- Pending,
  output <- printed

\* No piece of the text is found in the Bloom filter when only other pieces
\* were entered.  The empty one never is.
NoCollision(text) ==
  \A p \in PiecesIn(text) \ {<<>>} :
    ~(Bits[p] \subseteq UNION {Bits[q] : q \in PiecesIn(text) \ {p, <<>>}})

\* The restrictions under which the service is implemented: the lines are those
\* of a query file of the type and keep to IsFresh, no n-gram is empty, and the
\* Bloom filter hides nothing.
Careful ==
  /\ FreshUpdates
  /\ Letters["dynamic"] \subseteq {"A", "D", "Q"} /\ Letters["static"] \subseteq {"Q"}
  /\ <<>> \notin Ngrams /\ \A file \in InitFiles : <<>> \notin ToSet(file.ngrams)
  /\ \A text \in Texts : NoCollision(text)

\* The answers and the stored n-grams are those of the lines executed one by
\* one, for a query file that is Careful.
ImplementsService == Service!ServiceSpec

\* A burst is processed to its end.
BurstServed == pc = "process" ~> pc = "read"

(***************************************************************************)
(* What the assignment asks of every query file, and the code gives only   *)
(* under IsFresh and without collisions in the Bloom filter.               *)
(***************************************************************************)
Expected == Service!Sequential(stored, Pending)

\* Each query of a burst is answered as if the lines after it did not exist.
QueriesSequential == AtPrint => Lines = Expected.answers

\* After a burst the trie holds what its A and D lines leave, in their order.
StoreSequential == AtPrint => Finals(trie) = Expected.store

\* An n-gram in the trie at the end of a burst is seen by the next query.
StoredIsAnswerable ==
  pc = "read" => \A p \in Finals(trie) : Visible(trie[p], current_version)
=============================================================================
