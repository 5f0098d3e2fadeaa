-------------------------------- MODULE TopK --------------------------------
(***************************************************************************)
(* TopK/topK_Hashtable.c in its bursts: the main thread creates a table    *)
(* and hands queries to the pool; the workers count the n-grams of their   *)
(* answers in the table, which has one mutex per bucket; after the barrier *)
(* the main thread prints the k most frequent ones and destroys the table, *)
(* without a lock.                                                         *)
(*                                                                         *)
(* The pool is WorkPool, which JobScheduler implements; of a query only    *)
(* the n-grams it answers are left, in any order and each once (QueryText).*)
(* N-grams are numbers, in the order strcmp gives them; the table does not *)
(* split: topK_Hashtable_Check_LoadFactor has no caller.  A bucket is the  *)
(* sequence of its first `records` entries.                                *)
(***************************************************************************)
EXTENDS Naturals, Sequences, FiniteSets, Functions

CONSTANTS
  Workers, NoThread,   \* the threads of the pool; owner of a free mutex
  Destroyed,           \* stands in the place of the owner of a mutex that is none any more
  Jobs, NoJob,         \* the queries of a burst; job of a worker that has none
  Ngrams,              \* a set of natural numbers
  Keys,                \* topK_Hashtable_hashkey of each n-gram
  m,                   \* number of buckets
  TOPK_IN_SIZE,        \* initial capacity of a bucket
  Ks,                  \* the numbers after the F of a burst
  MaxInserts           \* bound: n-grams answered in a burst

ASSUME TopKAssumption ==
  /\ Ngrams \subseteq Nat /\ Ngrams # {}
  /\ IsFiniteSet(Workers) /\ NoJob \notin Jobs
  /\ NoThread \notin Workers /\ Destroyed \notin Workers /\ Destroyed # NoThread
  /\ m \in Nat \ {0} /\ Keys \in [Ngrams -> Nat]
  /\ TOPK_IN_SIZE \in Nat \ {0} /\ Ks \subseteq Nat /\ MaxInserts \in Nat

VARIABLES
  topBuckets,   \* per bucket, its entries [ngram, appearances]
  max_size,     \* per bucket, its capacity
  mutex,        \* per bucket, the owner of its mutex
  Records,      \* the entries of the table, a field of the table
  pc,           \* where each worker is
  job,          \* the query it executes
  given,        \* the n-grams that query has answered
  ngram,        \* the argument of topK_Hashtable_insert
  loaded,       \* the value of Records a worker has read for its Records++
  mainPc,       \* where the main thread is in processBurst
  k,            \* the argument of topK_print_TopK
  printed,      \* the n-grams printed
  line,         \* their line: "empty", "open" from "Top: " on, or "ended"
  phase, batch, begun, finished,   \* the pool
  answered,     \* history: how often each n-gram was inserted in this burst
  freed         \* history: how many strings of each were freed in this burst

tableVars == <<topBuckets, max_size>>
workerVars == <<pc, job, given, ngram, loaded>>
mainVars == <<mainPc, k, printed, line>>
poolVars == <<phase, batch, begun, finished>>
history == <<answered, freed>>
vars == <<topBuckets, max_size, mutex, Records, pc, job, given, ngram, loaded,
          mainPc, k, printed, line, phase, batch, begun, finished, answered,
          freed>>

Pool == INSTANCE WorkPool

Buckets == 0..(m - 1)

\* topK_Hashtable_create, and nothing answered yet.
NewTable ==
  /\ topBuckets' = [b \in Buckets |-> <<>>]
  /\ max_size' = [b \in Buckets |-> TOPK_IN_SIZE]
  /\ mutex' = [b \in Buckets |-> NoThread]
  /\ Records' = 0

Init ==
  /\ topBuckets = [b \in Buckets |-> <<>>]
  /\ max_size = [b \in Buckets |-> TOPK_IN_SIZE]
  /\ mutex = [b \in Buckets |-> NoThread]
  /\ Records = 0
  /\ pc = [w \in Workers |-> "idle"] /\ job = [w \in Workers |-> NoJob]
  /\ given = [w \in Workers |-> {}]
  /\ ngram = [w \in Workers |-> CHOOSE n \in Ngrams : TRUE]
  /\ loaded = [w \in Workers |-> 0]
  /\ mainPc = "submit" /\ k = 0 /\ printed = <<>> /\ line = "empty"
  /\ Pool!PoolInit
  /\ answered = [n \in Ngrams |-> 0] /\ freed = [n \in Ngrams |-> 0]

-----------------------------------------------------------------------------
(***************************************************************************)
(* The worker w, its query, and the n-grams it inserts.                    *)
(***************************************************************************)
BeginJob(w) ==
  /\ pc[w] = "idle" /\ pc' = [pc EXCEPT ![w] = "search"]
  /\ \E j \in Jobs : Pool!Begin(j) /\ job' = [job EXCEPT ![w] = j]
  /\ UNCHANGED <<tableVars, mutex, Records, given, ngram, loaded, mainVars, history>>

\* The search has another n-gram for its answer.
Insert(w, n) ==
  /\ pc[w] = "search" /\ pc' = [pc EXCEPT ![w] = "lock"]
  /\ n \notin given[w] /\ SumFunction(answered) < MaxInserts
  /\ given' = [given EXCEPT ![w] = @ \union {n}]
  /\ ngram' = [ngram EXCEPT ![w] = n]
  /\ answered' = [answered EXCEPT ![n] = @ + 1]
  /\ UNCHANGED <<tableVars, mutex, Records, job, loaded, mainVars, poolVars, freed>>

FinishJob(w) ==
  /\ pc[w] = "search" /\ pc' = [pc EXCEPT ![w] = "idle"]
  /\ Pool!Finish(job[w])
  /\ job' = [job EXCEPT ![w] = NoJob] /\ given' = [given EXCEPT ![w] = {}]
  /\ UNCHANGED <<tableVars, mutex, Records, ngram, loaded, mainVars, history>>

Destination(n) == Keys[n] % m
Bucket(w) == Destination(ngram[w])

\* Mutant of Unlocked: the bucket is not locked.
UnlockedAlways(b) == TRUE

Unlocked(b) == mutex[b] = NoThread

Lock(w) ==
  /\ pc[w] = "lock" /\ pc' = [pc EXCEPT ![w] = "insert"]
  /\ Unlocked(Bucket(w))
  /\ mutex' = [mutex EXCEPT ![Bucket(w)] = w]
  /\ UNCHANGED <<tableVars, Records, job, given, ngram, loaded, mainVars,
                 poolVars, history>>

\* The position an entry at p reaches by moving up past the positions in passed.
Climb(p, passed) ==
  CHOOSE q \in 1..p : q..(p - 1) \subseteq passed /\ (q > 1 => q - 1 \notin passed)

\* The entry at position from (one past the end: a new one) moved up to to.
MoveUp(entries, entry, from, to) ==
  [x \in 1..(IF from > Len(entries) THEN from ELSE Len(entries)) |->
     IF x = to THEN entry
     ELSE IF x \in to..from THEN entries[x - 1] ELSE entries[x]]

Fewer(entries, appearances) ==
  {x \in DOMAIN entries : entries[x].appearances < appearances}

\* Mutant of Greater: equally frequent entries are passed whatever their n-gram.
GreaterOrLess(entries, entry) ==
  {x \in DOMAIN entries : entries[x].appearances = entry.appearances}

\* The equally frequent entries that entry has priority over.
Greater(entries, entry) ==
  {x \in DOMAIN entries : /\ entries[x].appearances = entry.appearances
                          /\ entry.ngram < entries[x].ngram}

\* topK_Hashtable_insert_child, the n-gram found at position x.
Recounted(entries, x) ==
  LET entry == [entries[x] EXCEPT !.appearances = @ + 1]
      y == Climb(x, Fewer(entries, entry.appearances))
  IN  MoveUp(entries, entry, x, Climb(y, Greater(entries, entry)))

\* A new n-gram, from the end.
Added(entries, n) ==
  LET entry == [ngram |-> n, appearances |-> 1]
      end == Len(entries) + 1
  IN  MoveUp(entries, entry, end, Climb(end, Greater(entries, entry)))

\* Mutant of Found: the last entry is not looked at.
FoundButLast(entries, n) ==
  {x \in 1..(Len(entries) - 1) : entries[x].ngram = n}

Found(entries, n) == {x \in DOMAIN entries : entries[x].ngram = n}

\* Mutant of FreeString: the string is kept.
FreeStringNot(n) == UNCHANGED freed

FreeString(n) == freed' = [freed EXCEPT ![n] = @ + 1]

\* The n-gram has an entry, which is all that is kept of it.
CountFound(w) ==
  /\ pc[w] = "insert" /\ pc' = [pc EXCEPT ![w] = "unlock"]
  /\ \E x \in Found(topBuckets[Bucket(w)], ngram[w]) :
       topBuckets' = [topBuckets EXCEPT ![Bucket(w)] = Recounted(@, x)]
  /\ FreeString(ngram[w])
  /\ UNCHANGED <<max_size, mutex, Records, job, given, ngram, loaded, mainVars,
                 poolVars, answered>>

\* Mutant of Full: one entry too late.
FullLate(b) == Len(topBuckets[b]) > max_size[b]

Full(b) == Len(topBuckets[b]) = max_size[b]

AddNew(w) ==
  /\ pc[w] = "insert" /\ pc' = [pc EXCEPT ![w] = "load"]
  /\ Found(topBuckets[Bucket(w)], ngram[w]) = {}
  /\ max_size' = [max_size EXCEPT ![Bucket(w)] = IF Full(Bucket(w)) THEN 2 * @ ELSE @]
  /\ topBuckets' = [topBuckets EXCEPT ![Bucket(w)] = Added(@, ngram[w])]
  /\ UNCHANGED <<mutex, Records, job, given, ngram, loaded, mainVars, poolVars, history>>

\* hashtable->Records++ is a read and a write, under the mutex of one bucket;
\* workers in other buckets do the same.
LoadRecords(w) ==
  /\ pc[w] = "load" /\ pc' = [pc EXCEPT ![w] = "store"]
  /\ loaded' = [loaded EXCEPT ![w] = Records]
  /\ UNCHANGED <<tableVars, mutex, Records, job, given, ngram, mainVars, poolVars, history>>

StoreRecords(w) ==
  /\ pc[w] = "store" /\ pc' = [pc EXCEPT ![w] = "unlock"]
  /\ Records' = loaded[w] + 1
  /\ UNCHANGED <<tableVars, mutex, job, given, ngram, loaded, mainVars, poolVars, history>>

Unlock(w) ==
  /\ pc[w] = "unlock" /\ pc' = [pc EXCEPT ![w] = "search"]
  /\ mutex' = [mutex EXCEPT ![Bucket(w)] = NoThread]
  /\ UNCHANGED <<tableVars, Records, job, given, ngram, loaded, mainVars,
                 poolVars, history>>

-----------------------------------------------------------------------------
(***************************************************************************)
(* The main thread in processBurst.                                        *)
(***************************************************************************)
SubmitJob(j) ==
  /\ mainPc = "submit"
  /\ Pool!Collect(j)
  /\ UNCHANGED <<tableVars, mutex, Records, workerVars, mainVars, history>>

ExecuteAllJobs ==
  /\ mainPc = "submit" /\ mainPc' = "wait"
  /\ Pool!Release
  /\ UNCHANGED <<tableVars, mutex, Records, workerVars, k, printed, line, history>>

\* The barrier opens, and topK_print_TopK is entered with the number after F;
\* "Top: " begins a line.
BeginPrint(n) ==
  /\ mainPc = "wait" /\ mainPc' = "print"
  /\ Pool!Complete
  /\ k' = n
  /\ line' = IF n > 0 /\ Records > 0 THEN "open" ELSE "empty"
  /\ UNCHANGED <<tableVars, mutex, Records, workerVars, printed, history>>

NonEmpty == {b \in Buckets : topBuckets[b] # <<>>}

\* Mutant of Before: equally frequent n-grams in any order.
BeforeOrEqual(e, f) == e.appearances >= f.appearances

\* Entry e is printed before entry f.
Before(e, f) ==
  \/ e.appearances > f.appearances
  \/ e.appearances = f.appearances /\ e.ngram < f.ngram

\* The best of the first entries of the buckets is printed and removed.  The
\* k-th is followed by the end of the line, the others by '|'.
PrintNext ==
  /\ mainPc = "print" /\ Len(printed) < k
  /\ \E b \in NonEmpty :
       /\ \A c \in NonEmpty \ {b} : Before(topBuckets[b][1], topBuckets[c][1])
       /\ printed' = Append(printed, topBuckets[b][1].ngram)
       /\ FreeString(topBuckets[b][1].ngram)
       /\ topBuckets' = [topBuckets EXCEPT ![b] = Tail(@)]
  /\ line' = IF Len(printed) = k - 1 THEN "ended" ELSE "open"
  /\ UNCHANGED <<max_size, mutex, Records, workerVars, mainPc, k, poolVars, answered>>

\* k n-grams are printed, or the early return when the table is empty, which
\* leaves the line open.
EndPrint ==
  /\ mainPc = "print" /\ mainPc' = "destroy"
  /\ Len(printed) = k \/ NonEmpty = {}
  /\ UNCHANGED <<tableVars, mutex, Records, workerVars, k, printed, line,
                 poolVars, history>>

\* The places of an n-gram in the table, which keep a string of it each.
Places(n) == UNION {{b} \X Found(topBuckets[b], n) : b \in Buckets}

\* topK_Hashtable_Destroy: the strings that were not printed are freed.  The
\* mutex of a bucket is destroyed with each of its entries: never when all were
\* printed, and again after it is destroyed when more than one is left.
Destroy ==
  /\ mainPc = "destroy" /\ mainPc' = "read"
  /\ freed' = [n \in Ngrams |-> freed[n] + Cardinality(Places(n))]
  /\ mutex' = [b \in Buckets |-> IF topBuckets[b] = <<>> THEN mutex[b] ELSE Destroyed]
  /\ topBuckets' = [b \in Buckets |-> <<>>]
  /\ UNCHANGED <<max_size, Records, workerVars, k, printed, line, poolVars, answered>>

\* The next burst.
CreateTable ==
  /\ mainPc = "read" /\ mainPc' = "submit"
  /\ NewTable
  /\ k' = 0 /\ printed' = <<>> /\ line' = "empty"
  /\ answered' = [n \in Ngrams |-> 0] /\ freed' = [n \in Ngrams |-> 0]
  /\ UNCHANGED <<workerVars, poolVars>>

WorkerStep(w) ==
  \/ BeginJob(w) \/ FinishJob(w) \/ \E n \in Ngrams : Insert(w, n)
  \/ Lock(w) \/ CountFound(w) \/ AddNew(w) \/ LoadRecords(w) \/ StoreRecords(w)
  \/ Unlock(w)

MainStep ==
  \/ \E j \in Jobs : SubmitJob(j)
  \/ \E n \in Ks : BeginPrint(n)
  \/ ExecuteAllJobs \/ PrintNext \/ EndPrint \/ Destroy \/ CreateTable

Next == MainStep \/ \E w \in Workers : WorkerStep(w)

Spec == Init /\ [][Next]_vars

-----------------------------------------------------------------------------
(***************************************************************************)
(* Properties.                                                             *)
(***************************************************************************)
Entries == [ngram : Ngrams, appearances : Nat \ {0}]

TypeOK ==
  /\ \A b \in Buckets :
       /\ \A x \in DOMAIN topBuckets[b] : topBuckets[b][x] \in Entries
       /\ Len(topBuckets[b]) <= max_size[b]
  /\ mutex \in [Buckets -> Workers \union {NoThread, Destroyed}]
  /\ Records \in Nat
  /\ pc \in [Workers -> {"idle", "search", "lock", "insert", "load", "store", "unlock"}]
  /\ job \in [Workers -> Jobs \union {NoJob}]
  /\ given \in [Workers -> SUBSET Ngrams] /\ ngram \in [Workers -> Ngrams]
  /\ loaded \in [Workers -> Nat]
  /\ mainPc \in {"submit", "wait", "print", "destroy", "read"}
  /\ k \in Ks \union {0} /\ Len(printed) <= k
  /\ Pool!PoolTypeOK

\* Each bucket is sorted by appearances and then by n-gram, holds each n-gram
\* once and only those that hash to it: what topK_print_TopK relies on when it
\* looks at the first entries only.
BucketSorted(entries, b) ==
  \A x \in DOMAIN entries :
    /\ Destination(entries[x].ngram) = b
    /\ \A y \in DOMAIN entries :
         x < y => /\ Before(entries[x], entries[y])
                  /\ entries[x].ngram # entries[y].ngram

BucketsSorted == \A b \in Buckets : BucketSorted(topBuckets[b], b)

\* The inserts of an n-gram that have not reached its bucket.
OnTheWay(n) == {w \in Workers : pc[w] \in {"lock", "insert"} /\ ngram[w] = n}

Counted(n) ==
  {e \in {topBuckets[Destination(n)][x] : x \in DOMAIN topBuckets[Destination(n)]} :
     e.ngram = n}

\* Until the printing begins, an n-gram's count is the number of its inserts
\* that have reached the table: none is lost to a concurrent insert.
CountsExact ==
  mainPc \in {"submit", "wait"} =>
    \A n \in Ngrams :
      \/ /\ Counted(n) = {}
         /\ answered[n] = Cardinality(OnTheWay(n))
      \/ \E e \in Counted(n) :
           e.appearances + Cardinality(OnTheWay(n)) = answered[n]

InBucket(w) == pc[w] \in {"insert", "load", "store", "unlock"}

\* No two workers are in the same bucket at once, and none is in any while the
\* main thread, which takes no mutex, creates, prints or destroys a table.
BucketsNotShared ==
  \A w \in Workers :
    InBucket(w) =>
      /\ mainPc = "wait"
      /\ \A v \in Workers \ {w} : InBucket(v) => Bucket(v) # Bucket(w)

\* Every string of an n-gram handed to the table is freed once: when its n-gram
\* had an entry already, when it is printed, or with the table; until then the
\* table has it, once.
StringsFreed ==
  \A n \in Ngrams :
    freed[n] + Cardinality(Places(n)) + Cardinality(OnTheWay(n)) = answered[n]

Ranking == INSTANCE AnswerRanking WITH
  ending <- mainPc \in {"print", "destroy", "read"}

\* What is printed are the k most frequent n-grams of the burst's answers, most
\* frequent first and then in order: the buckets, kept sorted by workers in any
\* interleaving, are merged to the ranking of all answers, for every number k.
\* "Top: " is printed exactly when an n-gram follows, and the line is ended by the
\* k-th n-gram only: a burst that answered fewer leaves it open.
ImplementsRanking == Ranking!RankingSpec

\* Records, as its declaration has it, is the number of records in the table.
RecordsExact ==
  mainPc = "wait" /\ (\A w \in Workers : ~InBucket(w)) =>
    Records = SumFunction([b \in Buckets |-> Len(topBuckets[b])])
=============================================================================
