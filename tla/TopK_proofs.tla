----------------------------- MODULE TopK_proofs -----------------------------
(***************************************************************************)
(* Proofs about TopK for every number of workers, queries, n-grams and     *)
(* buckets: the buckets are not shared, and stay sorted through every      *)
(* interleaving of inserts and through the printing.                       *)
(***************************************************************************)
EXTENDS TopK, WellFoundedInduction, SequenceTheorems, FiniteSetTheorems, TLAPS

(***************************************************************************)
(* Who is where.  A worker outside "idle" has a query that is begun and    *)
(* not finished, its own; so none is when the barrier opens.  A worker in  *)
(* a bucket owns its mutex.                                                *)
(***************************************************************************)
WorkerTypes ==
  /\ pc \in [Workers -> {"idle", "search", "lock", "insert", "load", "store", "unlock"}]
  /\ job \in [Workers -> Jobs \union {NoJob}]
  /\ ngram \in [Workers -> Ngrams]
  /\ mutex \in [Buckets -> Workers \union {NoThread, Destroyed}]

PoolOpen ==
  /\ phase = "run" <=> mainPc = "wait"
  /\ phase # "run" => begun = {}
  /\ finished \subseteq begun /\ begun \subseteq batch

JobsOwned ==
  \A w \in Workers :
    pc[w] # "idle" => /\ job[w] \in begun \ finished
                      /\ \A v \in Workers \ {w} : pc[v] # "idle" => job[v] # job[w]

MutexHeld == \A w \in Workers : InBucket(w) => mutex[Bucket(w)] = w

OwnersInv == WorkerTypes /\ PoolOpen /\ JobsOwned /\ MutexHeld

\* Every n-gram has a bucket.
LEMMA DestinationIsBucket ==
  ASSUME NEW n \in Ngrams
  PROVE  Destination(n) \in Buckets
<1>1. m \in Nat \ {0} /\ Keys[n] \in Nat
  BY TopKAssumption
<1>2. Keys[n] % m \in 0..(m - 1)
  BY <1>1
<1> QED
  BY <1>2 DEF Destination, Buckets

\* No worker is in the table.
LEMMA InitOwners == Init => OwnersInv
<1> SUFFICES ASSUME Init PROVE OwnersInv
  OBVIOUS
<1>1. (CHOOSE n \in Ngrams : TRUE) \in Ngrams
  BY TopKAssumption
<1>2. WorkerTypes
  BY <1>1 DEF Init, WorkerTypes
<1>3. PoolOpen
  BY DEF Init, PoolOpen, Pool!PoolInit
<1>4. JobsOwned /\ MutexHeld
  BY DEF Init, JobsOwned, MutexHeld, InBucket
<1> QED
  BY <1>2, <1>3, <1>4 DEF OwnersInv

\* The main thread moves only between bursts, or when all queries are finished.
LEMMA MainOwners ==
  ASSUME OwnersInv, MainStep
  PROVE  OwnersInv'
<1>1. WorkerTypes /\ PoolOpen /\ JobsOwned /\ MutexHeld
  BY DEF OwnersInv
<1>2. ASSUME NEW j \in Jobs, SubmitJob(j)
      PROVE  OwnersInv'
  BY <1>1, <1>2 DEF SubmitJob, Pool!Collect, workerVars, mainVars, OwnersInv, WorkerTypes,
                    PoolOpen, JobsOwned, MutexHeld, InBucket, Bucket, Destination
<1>3. ASSUME ExecuteAllJobs
      PROVE  OwnersInv'
  BY <1>1, <1>3 DEF ExecuteAllJobs, Pool!Release, workerVars, OwnersInv, WorkerTypes,
                    PoolOpen, JobsOwned, MutexHeld, InBucket, Bucket, Destination
<1>4. ASSUME NEW n \in Ks, BeginPrint(n)
      PROVE  OwnersInv'
  <2>1. /\ mainPc = "wait" /\ mainPc' = "print" /\ phase' = "collect"
        /\ finished = batch /\ batch' = {} /\ begun' = {} /\ finished' = {}
        /\ UNCHANGED <<pc, job, ngram, mutex>>
    BY <1>4 DEF BeginPrint, Pool!Complete, workerVars
  <2>2. \A w \in Workers : pc[w] = "idle"
    BY <1>1, <2>1 DEF PoolOpen, JobsOwned
  <2> QED
    BY <1>1, <2>1, <2>2 DEF OwnersInv, WorkerTypes, PoolOpen, JobsOwned, MutexHeld, InBucket
<1>5. ASSUME PrintNext \/ EndPrint
      PROVE  OwnersInv'
  <2>1. /\ mainPc # "wait" /\ mainPc' # "wait"
        /\ UNCHANGED <<pc, job, ngram, mutex, phase, batch, begun, finished>>
    BY <1>5 DEF PrintNext, EndPrint, workerVars, poolVars
  <2> QED
    BY <1>1, <2>1 DEF OwnersInv, WorkerTypes, PoolOpen, JobsOwned, MutexHeld, InBucket,
                      Bucket, Destination
<1>6. ASSUME CreateTable
      PROVE  OwnersInv'
  <2>1. /\ mainPc = "read" /\ mainPc' = "submit"
        /\ UNCHANGED <<pc, job, ngram, phase, batch, begun, finished>>
        /\ mutex' = [b \in Buckets |-> NoThread]
    BY <1>6 DEF CreateTable, NewTable, workerVars, poolVars
  <2>2. \A w \in Workers : pc[w] = "idle"
    BY <1>1, <2>1 DEF PoolOpen, JobsOwned
  <2> QED
    BY <1>1, <2>1, <2>2 DEF OwnersInv, WorkerTypes, PoolOpen, JobsOwned, MutexHeld, InBucket
<1>7. ASSUME Destroy
      PROVE  OwnersInv'
  <2>1. /\ mainPc = "destroy" /\ mainPc' = "read"
        /\ UNCHANGED <<pc, job, ngram, phase, batch, begun, finished>>
        /\ mutex' = [b \in Buckets |-> IF topBuckets[b] = <<>> THEN mutex[b] ELSE Destroyed]
    BY <1>7 DEF Destroy, workerVars, poolVars
  <2>2. \A w \in Workers : pc[w] = "idle"
    BY <1>1, <2>1 DEF PoolOpen, JobsOwned
  <2>3. mutex' \in [Buckets -> Workers \union {NoThread, Destroyed}]
    BY <1>1, <2>1 DEF WorkerTypes
  <2> QED
    BY <1>1, <2>1, <2>2, <2>3 DEF OwnersInv, WorkerTypes, PoolOpen, JobsOwned, MutexHeld, InBucket
<1> QED
  BY <1>2, <1>3, <1>4, <1>5, <1>6, <1>7 DEF MainStep

\* A worker begins a query nobody has begun, and ends its own.
LEMMA JobOwners ==
  ASSUME OwnersInv, NEW w \in Workers, BeginJob(w) \/ FinishJob(w)
  PROVE  OwnersInv'
<1>1. WorkerTypes /\ PoolOpen /\ JobsOwned /\ MutexHeld
  BY DEF OwnersInv
<1>2. CASE BeginJob(w)
  <2>1. PICK j \in Jobs : Pool!Begin(j) /\ job' = [job EXCEPT ![w] = j]
    BY <1>2 DEF BeginJob
  <2>2. /\ pc[w] = "idle" /\ pc' = [pc EXCEPT ![w] = "search"]
        /\ UNCHANGED <<mutex, ngram, mainPc>>
    BY <1>2 DEF BeginJob, mainVars
  <2>3. /\ phase = "run" /\ j \in batch \ begun /\ begun' = begun \union {j}
        /\ UNCHANGED <<phase, batch, finished>>
    BY <2>1 DEF Pool!Begin
  <2>4. WorkerTypes' /\ PoolOpen'
    BY <1>1, <2>1, <2>2, <2>3 DEF WorkerTypes, PoolOpen
  <2>5. JobsOwned'
    BY <1>1, <2>1, <2>2, <2>3 DEF WorkerTypes, PoolOpen, JobsOwned
  <2>6. MutexHeld'
    BY <1>1, <2>2 DEF WorkerTypes, MutexHeld, InBucket, Bucket, Destination
  <2> QED
    BY <2>4, <2>5, <2>6 DEF OwnersInv
<1>3. CASE FinishJob(w)
  <2>1. /\ pc[w] = "search" /\ pc' = [pc EXCEPT ![w] = "idle"]
        /\ job' = [job EXCEPT ![w] = NoJob]
        /\ UNCHANGED <<mutex, ngram, mainPc>>
    BY <1>3 DEF FinishJob, mainVars
  <2>2. /\ phase = "run" /\ job[w] \in begun \ finished
        /\ finished' = finished \union {job[w]}
        /\ UNCHANGED <<phase, batch, begun>>
    BY <1>3 DEF FinishJob, Pool!Finish
  <2>3. WorkerTypes' /\ PoolOpen'
    BY <1>1, <2>1, <2>2 DEF WorkerTypes, PoolOpen
  <2>4. JobsOwned'
    BY <1>1, <2>1, <2>2 DEF WorkerTypes, JobsOwned
  <2>5. MutexHeld'
    BY <1>1, <2>1 DEF WorkerTypes, MutexHeld, InBucket, Bucket, Destination
  <2> QED
    BY <2>3, <2>4, <2>5 DEF OwnersInv
<1> QED
  BY <1>2, <1>3

\* A worker enters a bucket with its mutex, which nobody else then holds.
LEMMA BucketOwners ==
  ASSUME OwnersInv, NEW w \in Workers,
         \/ \E n \in Ngrams : Insert(w, n)
         \/ Lock(w) \/ CountFound(w) \/ AddNew(w) \/ LoadRecords(w) \/ StoreRecords(w)
         \/ Unlock(w)
  PROVE  OwnersInv'
<1>1. WorkerTypes /\ PoolOpen /\ JobsOwned /\ MutexHeld
  BY DEF OwnersInv
<1>2. /\ pc[w] # "idle" /\ UNCHANGED <<job, mainPc, phase, batch, begun, finished>>
      /\ \E place \in {"search", "lock", "insert", "load", "store", "unlock"} :
           pc' = [pc EXCEPT ![w] = place]
  BY DEF Insert, Lock, CountFound, AddNew, LoadRecords, StoreRecords, Unlock,
         mainVars, poolVars
<1>3. PoolOpen' /\ JobsOwned'
  BY <1>1, <1>2 DEF WorkerTypes, PoolOpen, JobsOwned
<1>4. pc' \in [Workers -> {"idle", "search", "lock", "insert", "load", "store", "unlock"}]
  BY <1>1, <1>2 DEF WorkerTypes
<1>5. Bucket(w) \in Buckets
  BY <1>1, DestinationIsBucket DEF WorkerTypes, Bucket
<1>6. CASE \E n \in Ngrams : Insert(w, n)
  <2>1. PICK n \in Ngrams : Insert(w, n)
    BY <1>6
  <2>2. /\ pc' = [pc EXCEPT ![w] = "lock"] /\ ngram' = [ngram EXCEPT ![w] = n]
        /\ UNCHANGED mutex
    BY <2>1 DEF Insert
  <2> QED
    BY <1>1, <1>2, <1>3, <1>4, <2>2 DEF OwnersInv, WorkerTypes, MutexHeld, InBucket, Bucket
<1>7. CASE Lock(w)
  <2>1. /\ pc' = [pc EXCEPT ![w] = "insert"] /\ mutex[Bucket(w)] = NoThread
        /\ mutex' = [mutex EXCEPT ![Bucket(w)] = w] /\ UNCHANGED ngram
    BY <1>7 DEF Lock, Unlocked
  <2>2. NoThread \notin Workers
    BY TopKAssumption
  <2>3. WorkerTypes'
    BY <1>1, <1>2, <1>4, <2>1 DEF WorkerTypes
  <2>4. MutexHeld'
    BY <1>1, <1>5, <2>1, <2>2 DEF WorkerTypes, MutexHeld, InBucket, Bucket
  <2> QED
    BY <1>3, <2>3, <2>4 DEF OwnersInv
<1>8. CASE CountFound(w) \/ AddNew(w) \/ LoadRecords(w) \/ StoreRecords(w)
  <2>1. /\ InBucket(w) /\ UNCHANGED <<mutex, ngram>>
        /\ \A v \in Workers \ {w} : pc'[v] = pc[v]
    BY <1>1, <1>8 DEF CountFound, AddNew, LoadRecords, StoreRecords, InBucket, WorkerTypes
  <2> QED
    BY <1>1, <1>2, <1>3, <1>4, <2>1 DEF OwnersInv, WorkerTypes, MutexHeld, InBucket, Bucket
<1>9. CASE Unlock(w)
  <2>1. /\ pc[w] = "unlock" /\ pc' = [pc EXCEPT ![w] = "search"]
        /\ mutex' = [mutex EXCEPT ![Bucket(w)] = NoThread] /\ UNCHANGED ngram
    BY <1>9 DEF Unlock
  <2>2. WorkerTypes'
    BY <1>1, <1>2, <1>4, <2>1 DEF WorkerTypes
  <2>3. MutexHeld'
    BY <1>1, <1>5, <2>1 DEF WorkerTypes, MutexHeld, InBucket, Bucket
  <2> QED
    BY <1>3, <2>2, <2>3 DEF OwnersInv
<1> QED
  BY <1>6, <1>7, <1>8, <1>9

\* A step keeps every bucket to one worker.
LEMMA OwnersStep ==
  ASSUME OwnersInv, [Next]_vars
  PROVE  OwnersInv'
<1>1. CASE MainStep
  BY <1>1, MainOwners
<1>2. ASSUME NEW w \in Workers, WorkerStep(w)
      PROVE  OwnersInv'
  BY <1>2, JobOwners, BucketOwners DEF WorkerStep
<1>3. CASE UNCHANGED vars
  BY <1>3 DEF vars, OwnersInv, WorkerTypes, PoolOpen, JobsOwned, MutexHeld, InBucket,
              Bucket, Destination
<1> QED
  BY <1>1, <1>2, <1>3 DEF Next

\* Every bucket with a worker in it is locked by that worker, in every state.
THEOREM OwnersInvariant == Spec => []OwnersInv
<1>1. OwnersInv /\ [Next]_vars => OwnersInv'
  BY OwnersStep
<1> QED
  BY InitOwners, <1>1, PTL DEF Spec

\* No two workers are ever in one bucket, and none is in any while the main
\* thread works on the table: with any number of each.
THEOREM NotShared == Spec => []BucketsNotShared
<1>1. OwnersInv => BucketsNotShared
  <2> SUFFICES ASSUME OwnersInv, NEW w \in Workers, InBucket(w)
               PROVE  /\ mainPc = "wait"
                      /\ \A v \in Workers \ {w} : InBucket(v) => Bucket(v) # Bucket(w)
    BY DEF BucketsNotShared
  <2>1. pc[w] # "idle"
    BY DEF InBucket
  <2>2. mainPc = "wait"
    BY <2>1 DEF OwnersInv, PoolOpen, JobsOwned
  <2>3. \A v \in Workers \ {w} : InBucket(v) => Bucket(v) # Bucket(w)
    BY DEF OwnersInv, MutexHeld
  <2> QED
    BY <2>2, <2>3
<1> QED
  BY OwnersInvariant, <1>1, PTL

-----------------------------------------------------------------------------
(***************************************************************************)
(* The order of a bucket.                                                  *)
(***************************************************************************)
\* The buckets as sequences of entries.
BucketsInv ==
  /\ topBuckets \in [Buckets -> Seq(Entries)]
  /\ BucketsSorted

\* A set of numbers has a least one.
LEMMA Least ==
  ASSUME NEW T \in SUBSET Nat, T # {}
  PROVE  \E q \in T : \A x \in T : q <= x
<1>1. PICK q \in T : \A x \in T : ~(<<x, q>> \in OpToRel(<, Nat))
  BY NatLessThanWellFounded, WFMin, Zenon
<1>2. \A x \in T : ~(x < q)
  BY <1>1 DEF OpToRel
<1> QED
  BY <1>2

\* An entry that moves up stops at a position it does not pass, or at the top.
LEMMA Climbs ==
  ASSUME NEW p \in Nat \ {0}, NEW passed
  PROVE  /\ Climb(p, passed) \in 1..p
         /\ \A x \in Climb(p, passed)..(p - 1) : x \in passed
         /\ Climb(p, passed) > 1 => Climb(p, passed) - 1 \notin passed
<1> DEFINE T == {q \in 1..p : q..(p - 1) \subseteq passed}
<1>1. T \in SUBSET Nat /\ p \in T
  OBVIOUS
<1>2. PICK q \in T : \A x \in T : q <= x
  <2> HIDE DEF T
  <2> QED
    BY <1>1, Least
<1>3. ASSUME q > 1, q - 1 \in passed
      PROVE  FALSE
  <2>1. q \in 1..p /\ q..(p - 1) \subseteq passed
    OBVIOUS
  <2>2. q - 1 \in 1..p
    BY <1>3, <2>1
  <2>3. \A x \in (q - 1)..(p - 1) : x = q - 1 \/ x \in q..(p - 1)
    BY <2>1
  <2>4. q - 1 \in T
    BY <1>3, <2>1, <2>2, <2>3
  <2> QED
    BY <1>2, <2>1, <2>4
<1>4. \E r \in 1..p : r..(p - 1) \subseteq passed /\ (r > 1 => r - 1 \notin passed)
  BY <1>2, <1>3
<1>5. /\ Climb(p, passed) \in 1..p
      /\ Climb(p, passed)..(p - 1) \subseteq passed
      /\ Climb(p, passed) > 1 => Climb(p, passed) - 1 \notin passed
  BY <1>4 DEF Climb
<1> QED
  BY <1>5

\* The fields of an entry, as numbers.
LEMMA EntryFields ==
  ASSUME NEW e \in Entries
  PROVE  /\ e.ngram \in Ngrams /\ e.ngram \in Nat
         /\ e.appearances \in Nat /\ e.appearances > 0
<1>1. e.ngram \in Ngrams /\ e.appearances \in Nat \ {0}
  BY DEF Entries
<1>2. Ngrams \subseteq Nat
  BY TopKAssumption
<1>3. e.ngram \in Nat
  BY <1>1, <1>2, Zenon
<1>4. e.appearances \in Nat /\ e.appearances > 0
  BY <1>1
<1> QED
  BY <1>1, <1>3, <1>4

\* What comes before an entry comes before those that follow it.
LEMMA BeforeTransitive ==
  ASSUME NEW e \in Entries, NEW f \in Entries, NEW g \in Entries, Before(e, f), Before(f, g)
  PROVE  Before(e, g)
<1>1. /\ e.ngram \in Nat /\ f.ngram \in Nat /\ g.ngram \in Nat
      /\ e.appearances \in Nat /\ f.appearances \in Nat /\ g.appearances \in Nat
  BY EntryFields
<1> QED
  BY <1>1 DEF Before

\* An entry put where those above come before it and those below after it
\* leaves the bucket sorted.
LEMMA Moves ==
  ASSUME NEW b \in Buckets, NEW E \in Seq(Entries), BucketSorted(E, b),
         NEW entry \in Entries, Destination(entry.ngram) = b,
         NEW from \in 1..(Len(E) + 1), NEW to \in 1..from,
         \A x \in 1..Len(E) : x # from => E[x].ngram # entry.ngram,
         \A x \in 1..(to - 1) : Before(E[x], entry),
         \A x \in 1..Len(E) : x >= to /\ x # from => Before(entry, E[x])
  PROVE  /\ MoveUp(E, entry, from, to) \in Seq(Entries)
         /\ BucketSorted(MoveUp(E, entry, from, to), b)
<1> DEFINE N == IF from > Len(E) THEN from ELSE Len(E)
           F == MoveUp(E, entry, from, to)
<1>1. /\ Len(E) \in Nat /\ from \in Nat /\ to \in Nat /\ N \in Nat /\ from <= N
      /\ 1 <= to /\ to <= from
  OBVIOUS
<1>2. F = [x \in 1..N |-> IF x = to THEN entry
                          ELSE IF x \in to..from THEN E[x - 1] ELSE E[x]]
  BY DEF MoveUp
\* The place in E of what is at x in F.
<1> DEFINE Old(x) == IF x \in to..from THEN x - 1 ELSE x
<1>3. \A x \in 1..N : x # to => /\ Old(x) \in 1..Len(E) /\ Old(x) # from
                                /\ (x < to => Old(x) < to) /\ (x > to => Old(x) >= to)
  BY <1>1
<1>4. \A x, y \in 1..N : x < y /\ x # to /\ y # to => Old(x) < Old(y)
  BY <1>1
<1>5. \A x \in 1..N : F[x] = IF x = to THEN entry ELSE E[Old(x)]
  BY <1>2
<1>6. \A x \in 1..Len(E) : E[x] \in Entries
  BY ElementOfSeq
<1>7. DOMAIN E = 1..Len(E)
  OBVIOUS
<1> HIDE DEF F, Old, N
<1>8. \A x \in 1..N : F[x] \in Entries
  BY <1>3, <1>5, <1>6
<1>9. DOMAIN F = 1..N
  BY <1>2
<1>10. F \in Seq(Entries)
  <2>1. F \in [1..N -> Entries]
    BY <1>2, <1>8, <1>9
  <2> QED
    BY <1>1, <2>1
<1>11. ASSUME NEW x \in 1..N
       PROVE  Destination(F[x].ngram) = b
  BY <1>3, <1>5, <1>7 DEF BucketSorted
<1>12. ASSUME NEW x \in 1..N, NEW y \in 1..N, x < y
       PROVE  Before(F[x], F[y]) /\ F[x].ngram # F[y].ngram
  <2>1. CASE x = to
    <3>1. F[x] = entry /\ F[y] = E[Old(y)] /\ Old(y) \in 1..Len(E)
          /\ Old(y) >= to /\ Old(y) # from
      BY <1>1, <1>3, <1>5, <1>12, <2>1
    <3> QED
      BY <3>1
  <2>2. CASE y = to
    <3>1. F[y] = entry /\ F[x] = E[Old(x)] /\ Old(x) \in 1..Len(E)
          /\ Old(x) < to /\ Old(x) # from
      BY <1>1, <1>3, <1>5, <1>12, <2>2
    <3>2. Old(x) \in 1..(to - 1)
      BY <1>1, <3>1
    <3> QED
      BY <3>1, <3>2
  <2>3. CASE x # to /\ y # to
    <3>1. F[x] = E[Old(x)] /\ F[y] = E[Old(y)] /\ Old(x) < Old(y)
          /\ Old(x) \in 1..Len(E) /\ Old(y) \in 1..Len(E)
      BY <1>3, <1>4, <1>5, <1>12, <2>3
    <3> QED
      BY <1>7, <3>1 DEF BucketSorted
  <2> QED
    BY <2>1, <2>2, <2>3
<1>13. BucketSorted(F, b)
  BY <1>9, <1>11, <1>12 DEF BucketSorted
<1> QED
  BY <1>10, <1>13 DEF F

\* An n-gram counted once more goes where it belongs.
LEMMA Recounts ==
  ASSUME NEW b \in Buckets, NEW E \in Seq(Entries), BucketSorted(E, b),
         NEW p \in 1..Len(E)
  PROVE  Recounted(E, p) \in Seq(Entries) /\ BucketSorted(Recounted(E, p), b)
<1> DEFINE entry == [E[p] EXCEPT !.appearances = @ + 1]
           y == Climb(p, Fewer(E, entry.appearances))
           z == Climb(y, Greater(E, entry))
<1>0. DOMAIN E = 1..Len(E) /\ Len(E) \in Nat /\ p \in Nat \ {0}
  OBVIOUS
<1>1. \A x \in 1..Len(E) : E[x] \in Entries
  BY ElementOfSeq
<1>2. /\ entry \in Entries /\ entry.ngram = E[p].ngram
      /\ entry.appearances = E[p].appearances + 1
  BY <1>1 DEF Entries
<1> HIDE DEF entry
<1>3. /\ y \in 1..p /\ \A x \in y..(p - 1) : x \in Fewer(E, entry.appearances)
      /\ y > 1 => y - 1 \notin Fewer(E, entry.appearances)
  BY <1>0, Climbs
<1> HIDE DEF y
<1>4. y \in Nat \ {0}
  BY <1>3
<1>5. /\ z \in 1..y /\ \A x \in z..(y - 1) : x \in Greater(E, entry)
      /\ z > 1 => z - 1 \notin Greater(E, entry)
  BY <1>4, Climbs
<1> HIDE DEF z
<1>6. \A x, u \in 1..Len(E) : x < u => Before(E[x], E[u]) /\ E[x].ngram # E[u].ngram
  BY <1>0 DEF BucketSorted
<1>7. \A x \in 1..Len(E) : x # p => E[x].ngram # entry.ngram
  BY <1>0, <1>2, <1>6
<1>8. ASSUME z > 1
      PROVE  Before(E[z - 1], entry)
  <2>1. z - 1 \in 1..Len(E) /\ z - 1 < p /\ z \in 1..Len(E)
    BY <1>0, <1>3, <1>5, <1>8
  <2>2. E[z - 1] \in Entries /\ E[z] \in Entries
    BY <1>1, <2>1
  <2>3. E[z - 1].appearances >= entry.appearances
    <3>1. CASE z = y
      <4>1. ~(E[z - 1].appearances < entry.appearances)
        BY <1>0, <1>3, <1>8, <2>1, <3>1 DEF Fewer
      <4> QED
        BY <1>2, <2>2, <4>1, EntryFields
    <3>2. CASE z < y
      <4>1. E[z].appearances = entry.appearances
        <5>1. z \in z..(y - 1)
          BY <1>4, <1>5, <3>2
        <5> QED
          BY <1>5, <5>1 DEF Greater
      <4>2. Before(E[z - 1], E[z])
        BY <1>6, <2>1
      <4> QED
        BY <1>2, <2>2, <4>1, <4>2, EntryFields DEF Before
    <3> QED
      BY <1>4, <1>5, <3>1, <3>2
  <2>4. ~(E[z - 1].appearances = entry.appearances /\ entry.ngram < E[z - 1].ngram)
    BY <1>0, <1>5, <1>8, <2>1 DEF Greater
  <2>5. E[z - 1].ngram # entry.ngram
    BY <1>7, <2>1
  <2> QED
    BY <1>2, <2>2, <2>3, <2>4, <2>5, EntryFields DEF Before
<1>9. ASSUME NEW x \in 1..(z - 1)
      PROVE  Before(E[x], entry)
  <2>1. CASE x = z - 1
    <3>1. z > 1
      BY <1>4, <1>5, <1>9, <2>1
    <3> QED
      BY <1>8, <2>1, <3>1
  <2>2. CASE x < z - 1
    <3>1. z > 1 /\ z - 1 \in 1..Len(E) /\ x \in 1..Len(E)
      BY <1>0, <1>3, <1>4, <1>5, <2>2
    <3> QED
      BY <1>1, <1>2, <1>6, <1>8, <2>2, <3>1, BeforeTransitive
  <2> QED
    BY <1>5, <2>1, <2>2
<1>10. ASSUME NEW x \in 1..Len(E), x >= z, x # p
       PROVE  Before(entry, E[x])
  <2>1. CASE x < y
    <3>1. x \in z..(y - 1)
      BY <1>4, <1>5, <1>10, <2>1
    <3> QED
      BY <1>5, <3>1 DEF Greater, Before
  <2>2. CASE x >= y /\ x < p
    <3>1. E[x].appearances < entry.appearances
      BY <1>3, <2>2 DEF Fewer
    <3> QED
      BY <1>1, <1>2, <3>1, EntryFields DEF Before
  <2>3. CASE x > p
    <3>1. Before(E[p], E[x])
      BY <1>6, <2>3
    <3> QED
      BY <1>1, <1>2, <3>1, EntryFields DEF Before
  <2> QED
    BY <1>3, <1>4, <1>10, <2>1, <2>2, <2>3
<1>11. p \in 1..(Len(E) + 1) /\ z \in 1..p
  BY <1>0, <1>3, <1>5
<1>12. Destination(entry.ngram) = b
  BY <1>0, <1>2 DEF BucketSorted
<1>13. /\ MoveUp(E, entry, p, z) \in Seq(Entries)
       /\ BucketSorted(MoveUp(E, entry, p, z), b)
  BY <1>2, <1>7, <1>9, <1>10, <1>11, <1>12, Moves
<1>14. Recounted(E, p) = MoveUp(E, entry, p, z)
  BY DEF Recounted, entry, y, z
<1> QED
  BY <1>13, <1>14

\* So does a new one.
LEMMA Adds ==
  ASSUME NEW b \in Buckets, NEW E \in Seq(Entries), BucketSorted(E, b),
         NEW n \in Ngrams, Destination(n) = b, Found(E, n) = {}
  PROVE  Added(E, n) \in Seq(Entries) /\ BucketSorted(Added(E, n), b)
<1> DEFINE entry == [ngram |-> n, appearances |-> 1]
           end == Len(E) + 1
           z == Climb(end, Greater(E, entry))
<1>0. DOMAIN E = 1..Len(E) /\ Len(E) \in Nat /\ end \in Nat \ {0}
  OBVIOUS
<1>1. \A x \in 1..Len(E) : E[x] \in Entries
  BY ElementOfSeq
<1>2. entry \in Entries /\ entry.ngram = n /\ entry.appearances = 1
  BY DEF Entries
<1> HIDE DEF entry
<1>3. /\ z \in 1..end /\ \A x \in z..(end - 1) : x \in Greater(E, entry)
      /\ z > 1 => z - 1 \notin Greater(E, entry)
  BY <1>0, Climbs
<1> HIDE DEF z
<1>4. \A x, u \in 1..Len(E) : x < u => Before(E[x], E[u]) /\ E[x].ngram # E[u].ngram
  BY <1>0 DEF BucketSorted
<1>5. \A x \in 1..Len(E) : E[x].ngram # entry.ngram
  BY <1>0, <1>2 DEF Found
<1>6. ASSUME z > 1
      PROVE  Before(E[z - 1], entry)
  <2>1. z - 1 \in 1..Len(E)
    BY <1>0, <1>3, <1>6
  <2>2. E[z - 1] \in Entries /\ E[z - 1].ngram # entry.ngram
    BY <1>1, <1>5, <2>1
  <2>3. ~(E[z - 1].appearances = entry.appearances /\ entry.ngram < E[z - 1].ngram)
    BY <1>0, <1>3, <1>6, <2>1 DEF Greater
  <2> QED
    BY <1>2, <2>2, <2>3, EntryFields DEF Before
<1>7. ASSUME NEW x \in 1..(z - 1)
      PROVE  Before(E[x], entry)
  <2>1. CASE x = z - 1
    <3>1. z > 1
      BY <1>0, <1>3, <1>7, <2>1
    <3> QED
      BY <1>6, <2>1, <3>1
  <2>2. CASE x < z - 1
    <3>1. z > 1 /\ z - 1 \in 1..Len(E) /\ x \in 1..Len(E)
      BY <1>0, <1>3, <2>2
    <3> QED
      BY <1>1, <1>2, <1>4, <1>6, <2>2, <3>1, BeforeTransitive
  <2> QED
    BY <1>3, <2>1, <2>2
<1>8. ASSUME NEW x \in 1..Len(E), x >= z
      PROVE  Before(entry, E[x])
  BY <1>0, <1>3, <1>8 DEF Greater, Before
<1>9. end \in 1..(Len(E) + 1) /\ z \in 1..end
  BY <1>0, <1>3
<1>10. /\ MoveUp(E, entry, end, z) \in Seq(Entries)
       /\ BucketSorted(MoveUp(E, entry, end, z), b)
  BY <1>2, <1>5, <1>7, <1>8, <1>9, Moves
<1>11. Added(E, n) = MoveUp(E, entry, end, z)
  BY DEF Added, entry, z
<1> QED
  BY <1>10, <1>11

\* Printing takes the first entry away.
LEMMA Tails ==
  ASSUME NEW b \in Buckets, NEW E \in Seq(Entries), E # <<>>, BucketSorted(E, b)
  PROVE  Tail(E) \in Seq(Entries) /\ BucketSorted(Tail(E), b)
<1>1. Len(E) \in Nat /\ Len(E) > 0
  BY EmptySeq
<1>2. /\ Tail(E) \in Seq(Entries) /\ Len(Tail(E)) = Len(E) - 1
      /\ \A x \in 1..(Len(E) - 1) : Tail(E)[x] = E[x + 1]
  BY HeadTailProperties
<1>3. DOMAIN E = 1..Len(E) /\ DOMAIN Tail(E) = 1..(Len(E) - 1)
  BY <1>2
<1> QED
  BY <1>1, <1>2, <1>3 DEF BucketSorted

\* The buckets are sorted, and stay so when one of them is replaced by another
\* sorted sequence.
LEMMA Replaces ==
  ASSUME BucketsInv, NEW b \in Buckets, NEW E \in Seq(Entries), BucketSorted(E, b),
         topBuckets' = [topBuckets EXCEPT ![b] = E]
  PROVE  BucketsInv'
<1>1. topBuckets' \in [Buckets -> Seq(Entries)]
  BY DEF BucketsInv
<1>2. \A c \in Buckets : topBuckets'[c] = IF c = b THEN E ELSE topBuckets[c]
  BY DEF BucketsInv
<1>3. \A c \in Buckets : BucketSorted(topBuckets'[c], c)
  BY <1>2 DEF BucketsInv, BucketsSorted
<1> QED
  BY <1>1, <1>3 DEF BucketsInv, BucketsSorted, BucketSorted, Before

\* A table without entries is sorted.
LEMMA EmptySorted ==
  /\ topBuckets = [b \in Buckets |-> <<>>] => BucketsInv
  /\ topBuckets' = [b \in Buckets |-> <<>>] => BucketsInv'
<1>1. <<>> \in Seq(Entries) /\ DOMAIN <<>> = {}
  OBVIOUS
<1>2. \A b \in Buckets : BucketSorted(<<>>, b)
  BY <1>1, Zenon DEF BucketSorted
<1> QED
  BY <1>1, <1>2 DEF BucketsInv, BucketsSorted

\* A step keeps the buckets sorted.
LEMMA BucketsStep ==
  ASSUME OwnersInv, BucketsInv, [Next]_vars
  PROVE  BucketsInv'
<1>1. ASSUME NEW w \in Workers, CountFound(w)
      PROVE  BucketsInv'
  <2> DEFINE b == Bucket(w)
             E == topBuckets[b]
  <2>1. b \in Buckets
    BY DestinationIsBucket DEF OwnersInv, WorkerTypes, Bucket
  <2>2. PICK x \in DOMAIN E : topBuckets' = [topBuckets EXCEPT ![b] = Recounted(E, x)]
    BY <1>1 DEF CountFound, Found
  <2>3. E \in Seq(Entries) /\ BucketSorted(E, b)
    BY <2>1 DEF BucketsInv, BucketsSorted
  <2> HIDE DEF b, E
  <2>4. x \in 1..Len(E)
    BY <2>2, <2>3
  <2> QED
    BY <2>1, <2>2, <2>3, <2>4, Recounts, Replaces
<1>2. ASSUME NEW w \in Workers, AddNew(w)
      PROVE  BucketsInv'
  <2> DEFINE b == Bucket(w)
             E == topBuckets[b]
  <2>1. b \in Buckets /\ ngram[w] \in Ngrams /\ Destination(ngram[w]) = b
    BY DestinationIsBucket DEF OwnersInv, WorkerTypes, Bucket
  <2>2. topBuckets' = [topBuckets EXCEPT ![b] = Added(E, ngram[w])] /\ Found(E, ngram[w]) = {}
    BY <1>2 DEF AddNew
  <2>3. E \in Seq(Entries) /\ BucketSorted(E, b)
    BY <2>1 DEF BucketsInv, BucketsSorted
  <2> HIDE DEF b, E
  <2> QED
    BY <2>1, <2>2, <2>3, Adds, Replaces
<1>3. ASSUME PrintNext
      PROVE  BucketsInv'
  <2>1. PICK b \in NonEmpty : topBuckets' = [topBuckets EXCEPT ![b] = Tail(topBuckets[b])]
    BY <1>3 DEF PrintNext
  <2>2. b \in Buckets /\ topBuckets[b] # <<>>
    BY DEF NonEmpty
  <2>3. topBuckets[b] \in Seq(Entries) /\ BucketSorted(topBuckets[b], b)
    BY <2>2 DEF BucketsInv, BucketsSorted
  <2> QED
    BY <2>1, <2>2, <2>3, Tails, Replaces
<1>4. ASSUME Destroy \/ CreateTable
      PROVE  BucketsInv'
  BY <1>4, EmptySorted DEF Destroy, CreateTable, NewTable
<1>5. ASSUME UNCHANGED topBuckets
      PROVE  BucketsInv'
  BY <1>5 DEF BucketsInv, BucketsSorted
<1>6. ASSUME NEW w \in Workers,
             \/ BeginJob(w) \/ FinishJob(w) \/ \E n \in Ngrams : Insert(w, n)
             \/ Lock(w) \/ LoadRecords(w) \/ StoreRecords(w) \/ Unlock(w)
      PROVE  UNCHANGED topBuckets
  BY <1>6 DEF BeginJob, FinishJob, Insert, Lock, LoadRecords, StoreRecords, Unlock, tableVars
<1>7. ASSUME \/ \E j \in Jobs : SubmitJob(j)
             \/ \E n \in Ks : BeginPrint(n)
             \/ ExecuteAllJobs \/ EndPrint
      PROVE  UNCHANGED topBuckets
  BY <1>7 DEF SubmitJob, BeginPrint, ExecuteAllJobs, EndPrint, tableVars
<1>8. UNCHANGED vars => UNCHANGED topBuckets
  BY DEF vars
<1> QED
  BY <1>1, <1>2, <1>3, <1>4, <1>5, <1>6, <1>7, <1>8 DEF Next, MainStep, WorkerStep

\* Every bucket stays sorted, without duplicates: whatever the workers insert,
\* in any order, and while the main thread takes the first entries away.
THEOREM Sorted == Spec => []BucketsSorted
<1>1. Init => BucketsInv
  BY EmptySorted DEF Init
<1>2. OwnersInv /\ BucketsInv /\ [Next]_vars => BucketsInv'
  BY BucketsStep
<1>3. BucketsInv => BucketsSorted
  BY DEF BucketsInv
<1> QED
  BY <1>1, <1>2, <1>3, OwnersInvariant, PTL DEF Spec

-----------------------------------------------------------------------------
(***************************************************************************)
(* Which entries a bucket has after one of them moved.                     *)
(***************************************************************************)
In(E, e) == \E x \in DOMAIN E : E[x] = e

\* An entry moved up keeps the others in their order.
LEMMA MovesEntries ==
  ASSUME NEW E \in Seq(Entries), NEW entry,
         NEW from \in 1..(Len(E) + 1), NEW to \in 1..from, NEW e
  PROVE  In(MoveUp(E, entry, from, to), e)
           <=> e = entry \/ \E x \in DOMAIN E \ {from} : E[x] = e
<1> DEFINE N == IF from > Len(E) THEN from ELSE Len(E)
           F == MoveUp(E, entry, from, to)
<1>1. /\ Len(E) \in Nat /\ from \in Nat /\ to \in Nat /\ N \in Nat /\ from <= N
      /\ 1 <= to /\ to <= from /\ DOMAIN E = 1..Len(E)
  OBVIOUS
<1>2. F = [x \in 1..N |-> IF x = to THEN entry
                          ELSE IF x \in to..from THEN E[x - 1] ELSE E[x]]
  BY DEF MoveUp
<1> DEFINE Old(x) == IF x \in to..from THEN x - 1 ELSE x
           New(u) == IF u \in to..(from - 1) THEN u + 1 ELSE u
<1>3. \A x \in 1..N : x # to => Old(x) \in DOMAIN E \ {from}
  BY <1>1
<1>4. \A u \in DOMAIN E \ {from} : New(u) \in 1..N /\ New(u) # to /\ Old(New(u)) = u
  BY <1>1
<1>5. \A x \in 1..N : F[x] = IF x = to THEN entry ELSE E[Old(x)]
  BY <1>2
<1>6. DOMAIN F = 1..N /\ to \in 1..N
  BY <1>1, <1>2
<1> HIDE DEF F, N, Old, New
<1>7. \A x \in 1..N : F[x] = entry \/ \E u \in DOMAIN E \ {from} : F[x] = E[u]
  BY <1>3, <1>5
<1>8. \A u \in DOMAIN E \ {from} : F[New(u)] = E[u] /\ New(u) \in 1..N
  BY <1>4, <1>5
<1>9. F[to] = entry
  BY <1>5, <1>6
<1>10. In(F, e) <=> e = entry \/ \E x \in DOMAIN E \ {from} : E[x] = e
  BY <1>6, <1>7, <1>8, <1>9 DEF In
<1> QED
  BY <1>10 DEF F

\* Counting an n-gram once more replaces its entry.
LEMMA RecountsEntries ==
  ASSUME NEW E \in Seq(Entries), NEW p \in 1..Len(E), NEW e
  PROVE  In(Recounted(E, p), e)
           <=> \/ e = [E[p] EXCEPT !.appearances = @ + 1]
               \/ \E x \in DOMAIN E \ {p} : E[x] = e
<1> DEFINE entry == [E[p] EXCEPT !.appearances = @ + 1]
           y == Climb(p, Fewer(E, entry.appearances))
           z == Climb(y, Greater(E, entry))
<1>1. p \in Nat \ {0} /\ p \in 1..(Len(E) + 1)
  OBVIOUS
<1>2. Recounted(E, p) = MoveUp(E, entry, p, z)
  BY DEF Recounted
<1> HIDE DEF entry
<1>3. y \in 1..p
  BY <1>1, Climbs
<1> HIDE DEF y
<1>4. y \in Nat \ {0}
  BY <1>3
<1>5. z \in 1..y
  BY <1>4, Climbs
<1> HIDE DEF z
<1>6. z \in 1..p
  BY <1>3, <1>5
<1>7. In(MoveUp(E, entry, p, z), e) <=> e = entry \/ \E x \in DOMAIN E \ {p} : E[x] = e
  BY <1>1, <1>6, MovesEntries
<1> QED
  BY <1>2, <1>7 DEF entry

\* A new n-gram adds one.
LEMMA AddsEntries ==
  ASSUME NEW E \in Seq(Entries), NEW n, NEW e
  PROVE  In(Added(E, n), e) <=> e = [ngram |-> n, appearances |-> 1] \/ In(E, e)
<1> DEFINE entry == [ngram |-> n, appearances |-> 1]
           end == Len(E) + 1
           z == Climb(end, Greater(E, entry))
<1>0. Len(E) \in Nat /\ DOMAIN E = 1..Len(E)
  OBVIOUS
<1>1. end \in Nat \ {0} /\ end \in 1..(Len(E) + 1) /\ DOMAIN E \ {end} = DOMAIN E
  <2>1. end \in Nat \ {0} /\ end \in 1..(Len(E) + 1)
    BY <1>0
  <2>2. end \notin DOMAIN E
    BY <1>0
  <2> QED
    BY <2>1, <2>2
<1>2. Added(E, n) = MoveUp(E, entry, end, z)
  BY DEF Added
<1> HIDE DEF entry
<1>3. z \in 1..end
  BY <1>1, Climbs
<1> HIDE DEF z, end
<1>4. In(MoveUp(E, entry, end, z), e) <=> e = entry \/ \E x \in DOMAIN E \ {end} : E[x] = e
  BY <1>1, <1>3, MovesEntries DEF end
<1> QED
  BY <1>1, <1>2, <1>4 DEF entry, In

\* What Counted holds, and that it is one entry at most.
LEMMA CountedEntries ==
  ASSUME BucketsInv, NEW n \in Ngrams
  PROVE  /\ \A e : e \in Counted(n) <=> In(topBuckets[Destination(n)], e) /\ e.ngram = n
         /\ \A e, f \in Counted(n) : e = f
         /\ \A e \in Counted(n) : e \in Entries
<1> DEFINE E == topBuckets[Destination(n)]
<1>1. E \in Seq(Entries) /\ BucketSorted(E, Destination(n))
  BY DestinationIsBucket DEF BucketsInv, BucketsSorted
<1>2. \A e : e \in Counted(n) <=> In(E, e) /\ e.ngram = n
  BY DEF Counted, In
<1> HIDE DEF E
<1>3. DOMAIN E = 1..Len(E) /\ \A x \in 1..Len(E) : E[x] \in Entries
  BY <1>1, ElementOfSeq
<1>4. ASSUME NEW x \in DOMAIN E, NEW y \in DOMAIN E, E[x].ngram = n, E[y].ngram = n
      PROVE  x = y
  <2>1. ~(x < y) /\ ~(y < x)
    BY <1>1, <1>4 DEF BucketSorted
  <2>2. x \in Int /\ y \in Int
    BY <1>3
  <2> QED
    BY <2>1, <2>2
<1>5. \A e, f \in Counted(n) : e = f
  BY <1>2, <1>4 DEF In
<1>6. \A e \in Counted(n) : e \in Entries
  BY <1>2, <1>3 DEF In
<1> QED
  BY <1>2, <1>5, <1>6 DEF E

\* Printing takes the n-gram's entry away, and no other.
LEMMA TailEntries ==
  ASSUME NEW E \in Seq(Entries), E # <<>>, NEW b, BucketSorted(E, b), NEW e
  PROVE  In(Tail(E), e) <=> In(E, e) /\ e.ngram # E[1].ngram
<1>1. Len(E) \in Nat /\ Len(E) > 0
  BY EmptySeq
<1>2. /\ Len(Tail(E)) = Len(E) - 1
      /\ \A x \in 1..(Len(E) - 1) : Tail(E)[x] = E[x + 1]
  BY HeadTailProperties
<1>3. DOMAIN E = 1..Len(E) /\ DOMAIN Tail(E) = 1..(Len(E) - 1)
  BY <1>2
<1>4. \A x \in DOMAIN E : x # 1 => E[x].ngram # E[1].ngram
  <2>1. \A x \in DOMAIN E : x # 1 => 1 < x
    BY <1>3
  <2> QED
    BY <1>1, <1>3, <2>1 DEF BucketSorted
<1>5. \A x \in DOMAIN E : x # 1 => x - 1 \in DOMAIN Tail(E) /\ Tail(E)[x - 1] = E[x]
  BY <1>1, <1>2, <1>3
<1>6. \A x \in DOMAIN Tail(E) : x + 1 \in DOMAIN E /\ x + 1 # 1 /\ Tail(E)[x] = E[x + 1]
  BY <1>1, <1>2, <1>3
<1>7. ASSUME In(Tail(E), e)
      PROVE  In(E, e) /\ e.ngram # E[1].ngram
  <2>1. PICK x \in DOMAIN Tail(E) : Tail(E)[x] = e
    BY <1>7 DEF In
  <2> QED
    BY <1>4, <1>6, <2>1 DEF In
<1>8. ASSUME In(E, e), e.ngram # E[1].ngram
      PROVE  In(Tail(E), e)
  <2>1. PICK x \in DOMAIN E : E[x] = e
    BY <1>8 DEF In
  <2>2. x # 1
    BY <1>8, <2>1
  <2> QED
    BY <1>5, <2>1, <2>2 DEF In
<1> QED
  BY <1>7, <1>8

\* A worker carries one string, so finitely many are on the way.
LEMMA WayFinite ==
  ASSUME NEW n
  PROVE  IsFiniteSet(OnTheWay(n)) /\ Cardinality(OnTheWay(n)) \in Nat
<1>1. IsFiniteSet(Workers) /\ OnTheWay(n) \subseteq Workers
  BY TopKAssumption DEF OnTheWay
<1> QED
  BY <1>1, FS_Subset, FS_CardinalityType

\* Between bursts no worker is in a query.
LEMMA Idle ==
  ASSUME OwnersInv, mainPc # "wait"
  PROVE  \A w \in Workers : pc[w] = "idle"
BY DEF OwnersInv, PoolOpen, JobsOwned

\* At the barrier neither.
LEMMA IdleAtBarrier ==
  ASSUME OwnersInv, Pool!Complete
  PROVE  \A w \in Workers : pc[w] = "idle"
BY DEF OwnersInv, PoolOpen, JobsOwned, Pool!Complete

\* Idle workers carry none.
LEMMA NoneOnTheWay ==
  ASSUME \A w \in Workers : pc[w] = "idle", NEW n
  PROVE  OnTheWay(n) = {} /\ Cardinality(OnTheWay(n)) = 0
<1>1. OnTheWay(n) = {}
  BY DEF OnTheWay
<1> QED
  BY <1>1, FS_EmptySet

-----------------------------------------------------------------------------
(***************************************************************************)
(* The entry of each n-gram before and after a step.                       *)
(***************************************************************************)
\* A step that changes a bucket leaves the entries of an n-gram it does not
\* move where they are.
LEMMA OthersEntries ==
  ASSUME BucketsInv, BucketsInv', NEW b \in Buckets, NEW E, NEW x \in Ngrams,
         topBuckets' = [topBuckets EXCEPT ![b] = E],
         \A e : e.ngram = x => (In(E, e) <=> In(topBuckets[b], e))
  PROVE  Counted(x)' = Counted(x)
<1>1. \A e : e \in Counted(x) <=> In(topBuckets[Destination(x)], e) /\ e.ngram = x
  BY CountedEntries
<1>2. \A e : e \in Counted(x)' <=> In(topBuckets'[Destination(x)], e) /\ e.ngram = x
  BY DEF Counted, In
<1>3. topBuckets'[Destination(x)] = IF Destination(x) = b THEN E
                                    ELSE topBuckets[Destination(x)]
  BY DestinationIsBucket DEF BucketsInv
<1>4. CASE Destination(x) = b
  BY <1>1, <1>2, <1>3, <1>4
<1>5. CASE Destination(x) # b
  BY <1>1, <1>2, <1>3, <1>5
<1> QED
  BY <1>4, <1>5

\* An n-gram found in its bucket has one appearance more.
LEMMA FoundEntries ==
  ASSUME OwnersInv, BucketsInv, BucketsInv', NEW w \in Workers, CountFound(w),
         NEW n, n = ngram[w]
  PROVE  /\ \A x \in Ngrams \ {n} : Counted(x)' = Counted(x)
         /\ \E e \in Counted(n), f \in Counted(n)' : f.appearances = e.appearances + 1
<1>0. PICK b, E : b = Bucket(w) /\ E = topBuckets[b]
  OBVIOUS
<1>1. n \in Ngrams /\ b \in Buckets /\ b = Destination(n)
  BY <1>0, DestinationIsBucket DEF OwnersInv, WorkerTypes, Bucket
<1>2. E \in Seq(Entries) /\ topBuckets \in [Buckets -> Seq(Entries)]
  BY <1>0, <1>1 DEF BucketsInv
<1>3. PICK p \in Found(E, n) : topBuckets' = [topBuckets EXCEPT ![b] = Recounted(E, p)]
  BY <1>0 DEF CountFound
<1>4. p \in 1..Len(E) /\ E[p].ngram = n /\ E[p] \in Entries /\ p \in DOMAIN E
  BY <1>2, <1>3, ElementOfSeq DEF Found
<1> DEFINE entry == [E[p] EXCEPT !.appearances = @ + 1]
<1>5. entry.ngram = n /\ entry.appearances = E[p].appearances + 1
  BY <1>4 DEF Entries
<1> HIDE DEF entry
<1>6. \A e : In(Recounted(E, p), e) <=> e = entry \/ \E x \in DOMAIN E \ {p} : E[x] = e
  BY <1>2, <1>4, RecountsEntries DEF entry
<1>7. ASSUME NEW x \in Ngrams \ {n}
      PROVE  Counted(x)' = Counted(x)
  <2>1. \A e : e.ngram = x => (In(Recounted(E, p), e) <=> In(E, e))
    BY <1>4, <1>5, <1>6 DEF In
  <2> QED
    BY <1>0, <1>1, <1>3, <2>1, OthersEntries
<1>8. E[p] \in Counted(n)
  BY <1>0, <1>1, <1>4 DEF Counted
<1>9. entry \in Counted(n)'
  <2>1. topBuckets'[Destination(n)] = Recounted(E, p)
    BY <1>1, <1>2, <1>3
  <2>2. \A e : e \in Counted(n)' <=> In(topBuckets'[Destination(n)], e) /\ e.ngram = n
    BY DEF Counted, In
  <2> QED
    BY <1>5, <1>6, <2>1, <2>2
<1> QED
  BY <1>0, <1>5, <1>7, <1>8, <1>9

\* A new one has its first.
LEMMA NewEntries ==
  ASSUME OwnersInv, BucketsInv, BucketsInv', NEW w \in Workers, AddNew(w),
         NEW n, n = ngram[w]
  PROVE  /\ \A x \in Ngrams \ {n} : Counted(x)' = Counted(x)
         /\ Counted(n) = {}
         /\ \E f \in Counted(n)' : f.appearances = 1
<1>0. PICK b, E : b = Bucket(w) /\ E = topBuckets[b]
  OBVIOUS
<1>1. n \in Ngrams /\ b \in Buckets /\ b = Destination(n)
  BY <1>0, DestinationIsBucket DEF OwnersInv, WorkerTypes, Bucket
<1>2. E \in Seq(Entries) /\ topBuckets \in [Buckets -> Seq(Entries)]
  BY <1>0, <1>1 DEF BucketsInv
<1>3. topBuckets' = [topBuckets EXCEPT ![b] = Added(E, n)] /\ Found(E, n) = {}
  BY <1>0 DEF AddNew
<1> DEFINE entry == [ngram |-> n, appearances |-> 1]
<1>4. entry.ngram = n /\ entry.appearances = 1
  OBVIOUS
<1> HIDE DEF entry
<1>5. \A e : In(Added(E, n), e) <=> e = entry \/ In(E, e)
  BY <1>2, AddsEntries DEF entry
<1>6. ASSUME NEW x \in Ngrams \ {n}
      PROVE  Counted(x)' = Counted(x)
  <2>1. \A e : e.ngram = x => (In(Added(E, n), e) <=> In(E, e))
    BY <1>4, <1>5
  <2> QED
    BY <1>0, <1>1, <1>3, <2>1, OthersEntries
<1>7. Counted(n) = {}
  BY <1>0, <1>1, <1>3 DEF Counted, Found
<1>8. entry \in Counted(n)'
  <2>1. topBuckets'[Destination(n)] = Added(E, n)
    BY <1>1, <1>2, <1>3
  <2>2. \A e : e \in Counted(n)' <=> In(topBuckets'[Destination(n)], e) /\ e.ngram = n
    BY DEF Counted, In
  <2> QED
    BY <1>4, <1>5, <2>1, <2>2
<1> QED
  BY <1>0, <1>4, <1>6, <1>7, <1>8

\* The first entry of a bucket is its n-gram's, and gone when it is printed.
LEMMA PrintedEntries ==
  ASSUME BucketsInv, BucketsInv', NEW b \in NonEmpty,
         topBuckets' = [topBuckets EXCEPT ![b] = Tail(topBuckets[b])],
         NEW n, n = topBuckets[b][1].ngram
  PROVE  /\ n \in Ngrams /\ topBuckets[b][1] \in Counted(n)
         /\ \A x \in Ngrams \ {n} : Counted(x)' = Counted(x)
         /\ Counted(n)' = {}
<1>1. b \in Buckets /\ topBuckets[b] # <<>>
  BY DEF NonEmpty
<1>2. PICK E \in Seq(Entries) : E = topBuckets[b]
  BY <1>1 DEF BucketsInv
<1>3. BucketSorted(E, b)
  BY <1>1, <1>2 DEF BucketsInv, BucketsSorted
<1>4. 1 \in DOMAIN E /\ E[1] \in Entries
  BY <1>1, <1>2
<1>5. n \in Ngrams /\ n = E[1].ngram
  BY <1>2, <1>4, EntryFields
<1>6. Destination(n) = b /\ E[1] \in Counted(n)
  BY <1>2, <1>3, <1>4, <1>5 DEF BucketSorted, Counted
<1>7. \A e : In(Tail(E), e) <=> In(E, e) /\ e.ngram # E[1].ngram
  BY <1>1, <1>2, <1>3, TailEntries
<1>8. ASSUME NEW x \in Ngrams \ {n}
      PROVE  Counted(x)' = Counted(x)
  <2>1. \A e : e.ngram = x => (In(Tail(E), e) <=> In(E, e))
    BY <1>5, <1>7
  <2> QED
    BY <1>1, <1>2, <2>1, OthersEntries
<1>9. Counted(n)' = {}
  <2>1. \A e : e \in Counted(n)' <=> In(topBuckets'[Destination(n)], e) /\ e.ngram = n
    BY DEF Counted, In
  <2>2. topBuckets'[b] = Tail(E)
    BY <1>1, <1>2 DEF BucketsInv
  <2> QED
    BY <1>5, <1>6, <1>7, <2>1, <2>2
<1> QED
  BY <1>2, <1>5, <1>6, <1>8, <1>9

\* An insert is on its way from the answer to the bucket.
LEMMA WayBegins ==
  ASSUME OwnersInv, NEW w \in Workers, NEW n \in Ngrams, Insert(w, n)
  PROVE  /\ Cardinality(OnTheWay(n))' = Cardinality(OnTheWay(n)) + 1
         /\ \A x \in Ngrams \ {n} : OnTheWay(x)' = OnTheWay(x)
<1>1. /\ pc[w] = "search" /\ pc' = [pc EXCEPT ![w] = "lock"]
      /\ ngram' = [ngram EXCEPT ![w] = n]
  BY DEF Insert
<1>2. pc \in [Workers -> {"idle", "search", "lock", "insert", "load", "store", "unlock"}]
      /\ ngram \in [Workers -> Ngrams]
  BY DEF OwnersInv, WorkerTypes
<1>3. /\ OnTheWay(n)' = OnTheWay(n) \union {w} /\ w \notin OnTheWay(n)
      /\ \A x \in Ngrams \ {n} : OnTheWay(x)' = OnTheWay(x)
  BY <1>1, <1>2 DEF OnTheWay
<1> QED
  BY <1>3, WayFinite, FS_AddElement

\* An n-gram counted is on its way no more.
LEMMA WayEnds ==
  ASSUME OwnersInv, NEW w \in Workers, CountFound(w) \/ AddNew(w), NEW n, n = ngram[w]
  PROVE  /\ Cardinality(OnTheWay(n))' = Cardinality(OnTheWay(n)) - 1
         /\ \A x \in Ngrams \ {n} : OnTheWay(x)' = OnTheWay(x)
<1>1. /\ pc[w] = "insert" /\ \E l \in {"load", "unlock"} : pc' = [pc EXCEPT ![w] = l]
      /\ UNCHANGED ngram
  BY DEF CountFound, AddNew
<1>2. pc \in [Workers -> {"idle", "search", "lock", "insert", "load", "store", "unlock"}]
  BY DEF OwnersInv, WorkerTypes
<1>3. /\ OnTheWay(n)' = OnTheWay(n) \ {w} /\ w \in OnTheWay(n)
      /\ \A x \in Ngrams \ {n} : OnTheWay(x)' = OnTheWay(x)
  BY <1>1, <1>2 DEF OnTheWay
<1>4. Cardinality(OnTheWay(n))' = Cardinality(OnTheWay(n)) - 1
  BY <1>3, WayFinite, FS_RemoveElement
<1> QED
  BY <1>3, <1>4

\* No other step begins or ends one.
LEMMA WayStays ==
  ASSUME OwnersInv, [Next]_vars,
         ~ \E w \in Workers : CountFound(w) \/ AddNew(w) \/ \E n \in Ngrams : Insert(w, n)
  PROVE  \A n : OnTheWay(n)' = OnTheWay(n)
<1>1. pc \in [Workers -> {"idle", "search", "lock", "insert", "load", "store", "unlock"}]
  BY DEF OwnersInv, WorkerTypes
<1>2. ASSUME NEW w \in Workers, WorkerStep(w)
      PROVE  \A n : OnTheWay(n)' = OnTheWay(n)
  <2>1. UNCHANGED ngram /\
        \E l \in {"idle", "search", "lock", "insert", "load", "store", "unlock"} :
          /\ pc' = [pc EXCEPT ![w] = l]
          /\ l \in {"lock", "insert"} <=> pc[w] \in {"lock", "insert"}
    BY <1>2 DEF WorkerStep, BeginJob, FinishJob, Lock, LoadRecords, StoreRecords, Unlock
  <2> QED
    BY <1>1, <2>1 DEF OnTheWay
<1>3. ASSUME MainStep \/ UNCHANGED vars
      PROVE  UNCHANGED <<pc, ngram>>
  BY <1>3 DEF MainStep, SubmitJob, BeginPrint, ExecuteAllJobs, PrintNext, EndPrint, Destroy,
              CreateTable, workerVars, vars
<1>4. UNCHANGED <<pc, ngram>> => \A n : OnTheWay(n)' = OnTheWay(n)
  BY DEF OnTheWay
<1> QED
  BY <1>2, <1>3, <1>4 DEF Next

-----------------------------------------------------------------------------
(***************************************************************************)
(* The strings of an n-gram: those on the way, the one the table has, and  *)
(* those freed are all that were ever answered.                            *)
(***************************************************************************)
Held(n) == IF Counted(n) = {} THEN 0 ELSE 1

StringsInv ==
  /\ answered \in [Ngrams -> Nat] /\ freed \in [Ngrams -> Nat]
  /\ \A n \in Ngrams : freed[n] + Held(n) + Cardinality(OnTheWay(n)) = answered[n]

\* The table has an n-gram in one place, if it has it.
LEMMA HeldOnce ==
  ASSUME BucketsInv, NEW n \in Ngrams
  PROVE  Cardinality(Places(n)) = Held(n)
<1> DEFINE d == Destination(n)
           E == topBuckets[d]
<1>1. d \in Buckets /\ E \in Seq(Entries) /\ BucketSorted(E, d)
  BY DestinationIsBucket DEF BucketsInv, BucketsSorted
<1>2. \A b \in Buckets : \A x : x \in Found(topBuckets[b], n) => b = d
  BY DEF Found, BucketsInv, BucketsSorted, BucketSorted
<1>3. Places(n) = {d} \X Found(E, n)
  <2>1. \A b \in Buckets : {b} \X Found(topBuckets[b], n) \subseteq {d} \X Found(E, n)
    BY <1>2
  <2>2. {d} \X Found(E, n) \in {{b} \X Found(topBuckets[b], n) : b \in Buckets}
    BY <1>1
  <2> QED
    BY <2>1, <2>2 DEF Places
<1>4. Found(E, n) = {} <=> Counted(n) = {}
  BY DEF Found, Counted
<1>5. ASSUME NEW x \in Found(E, n), NEW y \in Found(E, n)
      PROVE  x = y
  <2>1. x \in DOMAIN E /\ y \in DOMAIN E /\ E[x].ngram = n /\ E[y].ngram = n
    BY DEF Found
  <2>2. x \in Nat /\ y \in Nat
    BY <1>1, <2>1
  <2>3. ~(x < y) /\ ~(y < x)
    BY <1>1, <2>1 DEF BucketSorted
  <2> QED
    BY <2>2, <2>3
<1> HIDE DEF d, E
<1>6. CASE Counted(n) = {}
  BY <1>3, <1>4, <1>6, FS_EmptySet DEF Held
<1>7. CASE Counted(n) # {}
  <2>1. PICK x : x \in Found(E, n)
    BY <1>4, <1>7
  <2>2. Found(E, n) = {x}
    BY <1>5, <2>1
  <2>3. Places(n) = {<<d, x>>}
    BY <1>3, <2>2
  <2> QED
    BY <1>7, <2>3, FS_Singleton DEF Held
<1> QED
  BY <1>6, <1>7

\* Nothing is answered or freed, and no entry comes or goes.
LEMMA KeepsStrings ==
  ASSUME StringsInv, UNCHANGED <<topBuckets, answered, freed>>,
         \A n : OnTheWay(n)' = OnTheWay(n)
  PROVE  StringsInv'
<1>1. \A n : Counted(n)' = Counted(n)
  BY DEF Counted
<1>2. \A n : Held(n)' = Held(n)
  BY <1>1 DEF Held
<1> QED
  BY <1>2 DEF StringsInv

\* An empty table and nothing answered.
LEMMA NoStrings ==
  /\ Init => StringsInv
  /\ OwnersInv /\ CreateTable => StringsInv'
<1>1. ASSUME NEW n \in Ngrams, topBuckets = [b \in Buckets |-> <<>>]
      PROVE  Held(n) = 0
  <2>1. topBuckets[Destination(n)] = <<>>
    BY <1>1, DestinationIsBucket
  <2>2. Counted(n) = {}
    BY <2>1 DEF Counted
  <2> QED
    BY <2>2 DEF Held
<1>2. Init => StringsInv
  <2> SUFFICES ASSUME Init PROVE StringsInv
    OBVIOUS
  <2>1. /\ \A w \in Workers : pc[w] = "idle"
        /\ topBuckets = [b \in Buckets |-> <<>>]
        /\ answered = [n \in Ngrams |-> 0] /\ freed = [n \in Ngrams |-> 0]
    BY DEF Init
  <2> QED
    BY <1>1, <2>1, NoneOnTheWay DEF StringsInv
<1>3. ASSUME NEW n \in Ngrams, topBuckets' = [b \in Buckets |-> <<>>]
      PROVE  Held(n)' = 0
  <2>1. topBuckets'[Destination(n)] = <<>>
    BY <1>3, DestinationIsBucket
  <2>2. Counted(n)' = {}
    BY <2>1 DEF Counted
  <2> QED
    BY <2>2 DEF Held
<1>4. OwnersInv /\ CreateTable => StringsInv'
  <2> SUFFICES ASSUME OwnersInv, CreateTable PROVE StringsInv'
    OBVIOUS
  <2>1. /\ mainPc # "wait" /\ topBuckets' = [b \in Buckets |-> <<>>] /\ pc' = pc
        /\ answered' = [n \in Ngrams |-> 0] /\ freed' = [n \in Ngrams |-> 0]
    BY DEF CreateTable, NewTable, workerVars
  <2>2. \A w \in Workers : pc'[w] = "idle"
    BY <2>1, Idle
  <2>3. \A n : OnTheWay(n)' = {}
    BY <2>2 DEF OnTheWay
  <2>4. \A n : Cardinality(OnTheWay(n))' = 0
    BY <2>3, FS_EmptySet
  <2> QED
    BY <1>3, <2>1, <2>4 DEF StringsInv
<1> QED
  BY <1>2, <1>4

\* A step keeps the account of the strings.
LEMMA StringsStep ==
  ASSUME OwnersInv, BucketsInv, BucketsInv', StringsInv, [Next]_vars
  PROVE  StringsInv'
<1>0. /\ answered \in [Ngrams -> Nat] /\ freed \in [Ngrams -> Nat]
      /\ \A n \in Ngrams : /\ Cardinality(OnTheWay(n)) \in Nat
                           /\ freed[n] + Held(n) + Cardinality(OnTheWay(n)) = answered[n]
  BY WayFinite DEF StringsInv
<1>1. ASSUME NEW w \in Workers, NEW n \in Ngrams, Insert(w, n)
      PROVE  StringsInv'
  <2>1. answered' = [answered EXCEPT ![n] = @ + 1] /\ UNCHANGED <<topBuckets, freed>>
    BY <1>1 DEF Insert, tableVars
  <2>2. \A x : Held(x)' = Held(x)
    BY <2>1 DEF Held, Counted
  <2>3. /\ Cardinality(OnTheWay(n))' = Cardinality(OnTheWay(n)) + 1
        /\ \A x \in Ngrams \ {n} : OnTheWay(x)' = OnTheWay(x)
    BY <1>1, WayBegins
  <2>4. \A x \in Ngrams : freed'[x] + Held(x)' + Cardinality(OnTheWay(x))' = answered'[x]
    <3>1. freed'[n] + Held(n)' + Cardinality(OnTheWay(n))' = answered'[n]
      <4>1. Held(n) \in Nat
        BY DEF Held
      <4> QED
        BY <1>0, <2>1, <2>2, <2>3, <4>1
    <3>2. \A x \in Ngrams \ {n} : answered'[x] = answered[x] /\ freed'[x] = freed[x]
      BY <1>0, <2>1
    <3> QED
      BY <1>0, <2>2, <2>3, <3>1, <3>2
  <2> QED
    BY <1>0, <2>1, <2>4 DEF StringsInv
\* The string of an n-gram that has an entry is freed.
<1>2. ASSUME NEW w \in Workers, CountFound(w)
      PROVE  StringsInv'
  <2>0. PICK n \in Ngrams : n = ngram[w]
    BY DEF OwnersInv, WorkerTypes
  <2>1. freed' = [freed EXCEPT ![n] = @ + 1] /\ UNCHANGED <<answered, ngram>>
    BY <1>2, <2>0 DEF CountFound, FreeString
  <2>2. /\ Cardinality(OnTheWay(n))' = Cardinality(OnTheWay(n)) - 1
        /\ \A x \in Ngrams \ {n} : OnTheWay(x)' = OnTheWay(x)
    BY <1>2, <2>0, <2>1, WayEnds
  <2>3. /\ \A x \in Ngrams \ {n} : Held(x)' = Held(x)
        /\ Held(n) = 1 /\ Held(n)' = 1
    BY <1>2, <2>0, <2>1, FoundEntries DEF Held
  <2>4. \A x \in Ngrams : freed'[x] + Held(x)' + Cardinality(OnTheWay(x))' = answered'[x]
    <3>1. freed'[n] + Held(n)' + Cardinality(OnTheWay(n))' = answered'[n]
      BY <1>0, <2>1, <2>2, <2>3
    <3>2. \A x \in Ngrams \ {n} : answered'[x] = answered[x] /\ freed'[x] = freed[x]
      BY <1>0, <2>1
    <3> QED
      BY <1>0, <2>2, <2>3, <3>1, <3>2
  <2> QED
    BY <1>0, <2>1, <2>4 DEF StringsInv
\* The string of a new one is kept.
<1>3. ASSUME NEW w \in Workers, AddNew(w)
      PROVE  StringsInv'
  <2>0. PICK n \in Ngrams : n = ngram[w]
    BY DEF OwnersInv, WorkerTypes
  <2>1. UNCHANGED <<answered, freed, ngram>>
    BY <1>3 DEF AddNew, history
  <2>2. /\ Cardinality(OnTheWay(n))' = Cardinality(OnTheWay(n)) - 1
        /\ \A x \in Ngrams \ {n} : OnTheWay(x)' = OnTheWay(x)
    BY <1>3, <2>0, <2>1, WayEnds
  <2>3. /\ \A x \in Ngrams \ {n} : Held(x)' = Held(x)
        /\ Held(n) = 0 /\ Held(n)' = 1
    BY <1>3, <2>0, <2>1, NewEntries DEF Held
  <2>4. \A x \in Ngrams : freed'[x] + Held(x)' + Cardinality(OnTheWay(x))' = answered'[x]
    <3>1. freed'[n] + Held(n)' + Cardinality(OnTheWay(n))' = answered'[n]
      BY <1>0, <2>1, <2>2, <2>3
    <3> QED
      BY <1>0, <2>1, <2>2, <2>3, <3>1
  <2> QED
    BY <1>0, <2>1, <2>4 DEF StringsInv
<1>4. ASSUME PrintNext
      PROVE  StringsInv'
  <2>1. PICK b \in NonEmpty :
          /\ freed' = [freed EXCEPT ![topBuckets[b][1].ngram] = @ + 1]
          /\ topBuckets' = [topBuckets EXCEPT ![b] = Tail(topBuckets[b])]
    BY <1>4 DEF PrintNext, FreeString
  <2>2. PICK n : n = topBuckets[b][1].ngram
    OBVIOUS
  <2>3. /\ n \in Ngrams /\ Counted(n) # {} /\ Counted(n)' = {}
        /\ \A x \in Ngrams \ {n} : Counted(x)' = Counted(x)
    BY <2>1, <2>2, PrintedEntries
  <2>4. UNCHANGED answered /\ freed' = [freed EXCEPT ![n] = @ + 1]
    BY <1>4, <2>1, <2>2 DEF PrintNext
  <2>5. \A x : OnTheWay(x)' = OnTheWay(x)
    BY <1>4 DEF PrintNext, workerVars, OnTheWay
  <2>6. /\ \A x \in Ngrams \ {n} : Held(x)' = Held(x)
        /\ Held(n) = 1 /\ Held(n)' = 0
    BY <2>3 DEF Held
  <2>7. \A x \in Ngrams : freed'[x] + Held(x)' + Cardinality(OnTheWay(x))' = answered'[x]
    <3>1. freed'[n] + Held(n)' + Cardinality(OnTheWay(n))' = answered'[n]
      BY <1>0, <2>3, <2>4, <2>5, <2>6
    <3>2. \A x \in Ngrams \ {n} : freed'[x] = freed[x]
      BY <1>0, <2>4
    <3> QED
      BY <1>0, <2>4, <2>5, <2>6, <3>1, <3>2
  <2> QED
    BY <1>0, <2>3, <2>4, <2>7 DEF StringsInv
\* The strings the table still has are freed with it.
<1>5. ASSUME Destroy
      PROVE  StringsInv'
  <2>1. /\ freed' = [n \in Ngrams |-> freed[n] + Cardinality(Places(n))]
        /\ topBuckets' = [b \in Buckets |-> <<>>] /\ UNCHANGED answered
    BY <1>5 DEF Destroy
  <2>2. \A x : OnTheWay(x)' = OnTheWay(x)
    BY <1>5 DEF Destroy, workerVars, OnTheWay
  <2>3. ASSUME NEW x \in Ngrams
        PROVE  /\ freed'[x] = freed[x] + Held(x) /\ Held(x)' = 0
               /\ freed'[x] \in Nat
    <3>1. topBuckets'[Destination(x)] = <<>>
      BY <2>1, DestinationIsBucket
    <3>2. Counted(x)' = {}
      BY <3>1 DEF Counted
    <3>3. Held(x) \in Nat
      BY DEF Held
    <3>4. freed'[x] = freed[x] + Held(x) /\ freed[x] \in Nat
      BY <1>0, <2>1, HeldOnce
    <3> QED
      BY <3>2, <3>3, <3>4 DEF Held
  <2>4. freed' \in [Ngrams -> Nat]
    BY <2>1, <2>3
  <2>5. \A x \in Ngrams : freed'[x] + Held(x)' + Cardinality(OnTheWay(x))' = answered'[x]
    <3> SUFFICES ASSUME NEW x \in Ngrams
                 PROVE  freed'[x] + Held(x)' + Cardinality(OnTheWay(x))' = answered'[x]
      OBVIOUS
    <3>1. Held(x) \in Nat /\ Cardinality(OnTheWay(x))' = Cardinality(OnTheWay(x))
      BY <2>2 DEF Held
    <3> QED
      BY <1>0, <2>1, <2>3, <3>1
  <2> QED
    BY <1>0, <2>1, <2>4, <2>5 DEF StringsInv
<1>6. CASE CreateTable
  BY <1>6, NoStrings
<1>7. ASSUME \/ \E w \in Workers : \/ BeginJob(w) \/ FinishJob(w) \/ Lock(w)
                                   \/ LoadRecords(w) \/ StoreRecords(w) \/ Unlock(w)
             \/ \E j \in Jobs : SubmitJob(j)
             \/ \E n \in Ks : BeginPrint(n)
             \/ ExecuteAllJobs \/ EndPrint \/ UNCHANGED vars
      PROVE  StringsInv' \/ \E w \in Workers : CountFound(w) \/ AddNew(w)
                                               \/ \E n \in Ngrams : Insert(w, n)
  <2>1. UNCHANGED <<topBuckets, answered, freed>>
    BY <1>7 DEF BeginJob, FinishJob, Lock, LoadRecords, StoreRecords, Unlock, SubmitJob,
                BeginPrint, ExecuteAllJobs, EndPrint, tableVars, history, vars
  <2> QED
    BY <2>1, WayStays, KeepsStrings
<1> QED
  BY <1>1, <1>2, <1>3, <1>4, <1>5, <1>6, <1>7 DEF Next, MainStep, WorkerStep

\* No string is lost and none is freed twice, with any number of workers: each
\* string of an n-gram handed to topK_Hashtable_insert is on its way to the
\* bucket, the one the bucket keeps, or freed.
THEOREM Strings == Spec => []StringsFreed
<1>1. OwnersInv /\ BucketsInv /\ StringsInv /\ [Next]_vars => BucketsInv' /\ StringsInv'
  BY BucketsStep, StringsStep
<1>2. Init => BucketsInv /\ StringsInv
  BY NoStrings, EmptySorted DEF Init
<1>3. BucketsInv /\ StringsInv => StringsFreed
  BY HeldOnce DEF StringsInv, StringsFreed
<1> QED
  BY <1>1, <1>2, <1>3, OwnersInvariant, PTL DEF Spec
-----------------------------------------------------------------------------
(***************************************************************************)
(* Types, and the capacity of a bucket: it is doubled before an entry is   *)
(* written past its end.                                                   *)
(***************************************************************************)
Capacity ==
  /\ max_size \in [Buckets -> Nat \ {0}]
  /\ \A b \in Buckets : Len(topBuckets[b]) <= max_size[b]

TypesInv ==
  /\ Capacity
  /\ Records \in Nat /\ loaded \in [Workers -> Nat]
  /\ given \in [Workers -> SUBSET Ngrams]
  /\ mainPc \in {"submit", "wait", "print", "destroy", "read"}
  /\ k \in Ks \union {0} /\ printed \in Seq(Ngrams) /\ Len(printed) <= k
  /\ mainPc \in {"submit", "wait"} => printed = <<>>
  /\ Pool!PoolTypeOK

\* A recounted n-gram needs no room, a new one needs one entry.
LEMMA Lengths ==
  ASSUME NEW E \in Seq(Entries)
  PROVE  /\ \A p \in DOMAIN E : Len(Recounted(E, p)) = Len(E)
         /\ \A n : Len(Added(E, n)) = Len(E) + 1
<1>1. Len(E) \in Nat /\ DOMAIN E = 1..Len(E)
  OBVIOUS
<1>2. ASSUME NEW entry, NEW from \in Nat, NEW to
      PROVE  Len(MoveUp(E, entry, from, to)) = IF from > Len(E) THEN from ELSE Len(E)
  <2> DEFINE N == IF from > Len(E) THEN from ELSE Len(E)
  <2>1. N \in Nat
    BY <1>1, <1>2
  <2>2. DOMAIN MoveUp(E, entry, from, to) = 1..N
    BY DEF MoveUp
  <2>3. \A M \in Nat : Len([x \in 1..M |-> IF x = to THEN entry
                             ELSE IF x \in to..from THEN E[x - 1] ELSE E[x]]) = M
    OBVIOUS
  <2> QED
    BY <2>1, <2>3 DEF MoveUp
<1>3. \A p \in DOMAIN E : Len(Recounted(E, p)) = Len(E)
  BY <1>1, <1>2 DEF Recounted
<1>4. \A n : Len(Added(E, n)) = Len(E) + 1
  BY <1>1, <1>2 DEF Added
<1> QED
  BY <1>3, <1>4

\* A step keeps the entries within the allocated ones.
LEMMA CapacityStep ==
  ASSUME OwnersInv, BucketsInv, Capacity, [Next]_vars
  PROVE  Capacity'
<1>0. /\ topBuckets \in [Buckets -> Seq(Entries)] /\ max_size \in [Buckets -> Nat \ {0}]
      /\ \A b \in Buckets : Len(topBuckets[b]) \in Nat /\ Len(topBuckets[b]) <= max_size[b]
  BY DEF BucketsInv, Capacity
<1>1. ASSUME NEW w \in Workers, CountFound(w)
      PROVE  Capacity'
  <2>1. PICK b \in Buckets : b = Bucket(w)
    BY DestinationIsBucket DEF OwnersInv, WorkerTypes, Bucket
  <2>2. PICK p \in DOMAIN topBuckets[b] :
          topBuckets' = [topBuckets EXCEPT ![b] = Recounted(topBuckets[b], p)]
    BY <1>1, <2>1 DEF CountFound, Found
  <2>3. Len(Recounted(topBuckets[b], p)) = Len(topBuckets[b])
    BY <1>0, Lengths
  <2>4. UNCHANGED max_size
    BY <1>1 DEF CountFound
  <2> QED
    BY <1>0, <2>2, <2>3, <2>4 DEF Capacity
<1>2. ASSUME NEW w \in Workers, AddNew(w)
      PROVE  Capacity'
  <2>1. PICK b \in Buckets : b = Bucket(w)
    BY DestinationIsBucket DEF OwnersInv, WorkerTypes, Bucket
  <2>2. /\ topBuckets' = [topBuckets EXCEPT ![b] = Added(topBuckets[b], ngram[w])]
        /\ max_size' = [max_size EXCEPT ![b] = IF Full(b) THEN 2 * max_size[b]
                                               ELSE max_size[b]]
    BY <1>2, <2>1 DEF AddNew
  <2>3. Len(Added(topBuckets[b], ngram[w])) = Len(topBuckets[b]) + 1
    BY <1>0, Lengths
  <2>4. Len(topBuckets'[b]) = Len(topBuckets[b]) + 1
    BY <1>0, <2>2, <2>3
  <2>5. max_size'[b] \in Nat \ {0} /\ Len(topBuckets[b]) + 1 <= max_size'[b]
    <3>1. max_size'[b] = IF Len(topBuckets[b]) = max_size[b] THEN 2 * max_size[b]
                         ELSE max_size[b]
      BY <1>0, <2>2 DEF Full
    <3>2. /\ max_size[b] \in Nat \ {0} /\ Len(topBuckets[b]) \in Nat
          /\ Len(topBuckets[b]) <= max_size[b]
      BY <1>0
    <3> QED
      BY <3>1, <3>2
  <2>6. \A c \in Buckets \ {b} : topBuckets'[c] = topBuckets[c] /\ max_size'[c] = max_size[c]
    BY <1>0, <2>2
  <2>7. max_size' \in [Buckets -> Nat \ {0}]
    BY <1>0, <2>2, <2>5
  <2> QED
    BY <1>0, <2>4, <2>5, <2>6, <2>7 DEF Capacity
<1>3. ASSUME PrintNext
      PROVE  Capacity'
  <2>1. PICK b \in NonEmpty : topBuckets' = [topBuckets EXCEPT ![b] = Tail(topBuckets[b])]
    BY <1>3 DEF PrintNext
  <2>2. b \in Buckets /\ topBuckets[b] # <<>> /\ UNCHANGED max_size
    BY <1>3 DEF PrintNext, NonEmpty
  <2>3. PICK E \in Seq(Entries) : E = topBuckets[b]
    BY <1>0, <2>2
  <2>4. Len(Tail(E)) = Len(E) - 1 /\ Len(E) \in Nat
    BY <2>2, <2>3, HeadTailProperties
  <2> QED
    BY <1>0, <2>1, <2>2, <2>3, <2>4 DEF Capacity
<1>4. ASSUME Destroy
      PROVE  Capacity'
  BY <1>0, <1>4 DEF Destroy, Capacity
<1>5. ASSUME CreateTable
      PROVE  Capacity'
  BY <1>5, TopKAssumption DEF CreateTable, NewTable, Capacity
<1>6. ASSUME \/ \E w \in Workers :
                  \/ BeginJob(w) \/ FinishJob(w) \/ \E n \in Ngrams : Insert(w, n)
                  \/ Lock(w) \/ LoadRecords(w) \/ StoreRecords(w) \/ Unlock(w)
             \/ \E j \in Jobs : SubmitJob(j)
             \/ \E n \in Ks : BeginPrint(n)
             \/ ExecuteAllJobs \/ EndPrint \/ UNCHANGED vars
      PROVE  Capacity'
  <2>1. UNCHANGED <<topBuckets, max_size>>
    BY <1>6 DEF BeginJob, FinishJob, Insert, Lock, LoadRecords, StoreRecords, Unlock,
                SubmitJob, BeginPrint, ExecuteAllJobs, EndPrint, tableVars, vars
  <2> QED
    BY <2>1 DEF Capacity
<1> QED
  BY <1>1, <1>2, <1>3, <1>4, <1>5, <1>6 DEF Next, MainStep, WorkerStep

\* The first table is well typed.
LEMMA InitTypes == Init => TypesInv
<1> SUFFICES ASSUME Init PROVE TypesInv
  OBVIOUS
<1>1. Capacity
  BY TopKAssumption DEF Init, Capacity
<1>2. Pool!PoolTypeOK
  BY DEF Init, Pool!PoolInit, Pool!PoolTypeOK
<1>3. printed \in Seq(Ngrams) /\ Len(printed) <= k
  BY DEF Init
<1> QED
  BY <1>1, <1>2, <1>3 DEF Init, TypesInv

\* A step keeps the types.
LEMMA TypesStep ==
  ASSUME OwnersInv, BucketsInv, TypesInv, [Next]_vars
  PROVE  TypesInv'
<1>0. Capacity'
  BY CapacityStep DEF TypesInv
<1>1. /\ Records \in Nat /\ loaded \in [Workers -> Nat]
      /\ given \in [Workers -> SUBSET Ngrams]
      /\ mainPc \in {"submit", "wait", "print", "destroy", "read"}
      /\ k \in Ks \union {0} /\ k \in Nat /\ printed \in Seq(Ngrams) /\ Len(printed) <= k
      /\ mainPc \in {"submit", "wait"} => printed = <<>>
      /\ job \in [Workers -> Jobs \union {NoJob}]
  BY TopKAssumption DEF TypesInv, OwnersInv, WorkerTypes
<1>2. Pool!PoolTypeOK
  BY DEF TypesInv
<1>3. ASSUME NEW w \in Workers, WorkerStep(w)
      PROVE  TypesInv'
  <2>1. UNCHANGED <<mainPc, k, printed>>
    BY <1>3 DEF WorkerStep, BeginJob, FinishJob, Insert, Lock, CountFound, AddNew,
                LoadRecords, StoreRecords, Unlock, mainVars
  <2>2. Records' \in Nat /\ loaded' \in [Workers -> Nat]
    BY <1>1, <1>3 DEF WorkerStep, BeginJob, FinishJob, Insert, Lock, CountFound, AddNew,
                      LoadRecords, StoreRecords, Unlock
  <2>3. given' \in [Workers -> SUBSET Ngrams]
    <3>1. \/ UNCHANGED given \/ given' = [given EXCEPT ![w] = {}]
          \/ \E n \in Ngrams : given' = [given EXCEPT ![w] = given[w] \union {n}]
      BY <1>3 DEF WorkerStep, BeginJob, FinishJob, Insert, Lock, CountFound, AddNew,
                  LoadRecords, StoreRecords, Unlock
    <3>2. given[w] \in SUBSET Ngrams
      BY <1>1
    <3> QED
      BY <1>1, <3>1, <3>2
  <2>4. Pool!PoolTypeOK'
    <3>1. CASE BeginJob(w)
      BY <1>2, <3>1 DEF BeginJob, Pool!Begin, Pool!PoolTypeOK
    <3>2. CASE FinishJob(w)
      BY <1>2, <3>2 DEF FinishJob, Pool!Finish, Pool!PoolTypeOK
    <3>3. CASE UNCHANGED poolVars
      BY <1>2, <3>3 DEF poolVars, Pool!PoolTypeOK
    <3> QED
      BY <1>3, <3>1, <3>2, <3>3 DEF WorkerStep, Insert, Lock, CountFound, AddNew,
                                    LoadRecords, StoreRecords, Unlock
  <2> QED
    BY <1>0, <1>1, <2>1, <2>2, <2>3, <2>4 DEF TypesInv
<1>4. ASSUME \/ \E j \in Jobs : SubmitJob(j)
             \/ ExecuteAllJobs
      PROVE  TypesInv'
  <2>1. /\ UNCHANGED <<Records, loaded, given, k, printed>>
        /\ mainPc = "submit" /\ mainPc' \in {"submit", "wait"}
    BY <1>4 DEF SubmitJob, ExecuteAllJobs, workerVars, mainVars
  <2>2. Pool!PoolTypeOK'
    BY <1>2, <1>4 DEF SubmitJob, ExecuteAllJobs, Pool!Collect, Pool!Release, Pool!PoolTypeOK
  <2> QED
    BY <1>0, <1>1, <2>1, <2>2 DEF TypesInv
<1>5. ASSUME NEW n \in Ks, BeginPrint(n)
      PROVE  TypesInv'
  <2>1. /\ UNCHANGED <<Records, loaded, given, printed>>
        /\ mainPc = "wait" /\ mainPc' = "print" /\ k' = n
    BY <1>5 DEF BeginPrint, workerVars
  <2>2. Pool!PoolTypeOK'
    BY <1>5 DEF BeginPrint, Pool!Complete, Pool!PoolTypeOK
  <2>3. Len(printed) = 0 /\ n \in Nat
    BY <1>1, <2>1, TopKAssumption
  <2> QED
    BY <1>0, <1>1, <2>1, <2>2, <2>3 DEF TypesInv
<1>6. ASSUME PrintNext
      PROVE  TypesInv'
  <2>1. PICK b \in NonEmpty : printed' = Append(printed, topBuckets[b][1].ngram)
    BY <1>6 DEF PrintNext
  <2>2. PICK n \in Ngrams : n = topBuckets[b][1].ngram
    <3>1. b \in Buckets /\ topBuckets[b] # <<>>
      BY DEF NonEmpty
    <3>2. topBuckets[b] \in Seq(Entries)
      BY <3>1 DEF BucketsInv
    <3>3. topBuckets[b][1] \in Entries
      BY <3>1, <3>2
    <3> QED
      BY <3>3, EntryFields
  <2>3. printed' \in Seq(Ngrams) /\ Len(printed') = Len(printed) + 1
    BY <1>1, <2>1, <2>2
  <2>4. /\ UNCHANGED <<Records, loaded, given, k, phase, batch, begun, finished>>
        /\ mainPc' = "print" /\ Len(printed) < k
    BY <1>6 DEF PrintNext, workerVars, poolVars
  <2>5. Len(printed') <= k' /\ Pool!PoolTypeOK'
    BY <1>1, <1>2, <2>3, <2>4 DEF Pool!PoolTypeOK
  <2> QED
    BY <1>0, <1>1, <2>3, <2>4, <2>5 DEF TypesInv
<1>7. ASSUME EndPrint \/ Destroy
      PROVE  TypesInv'
  <2>1. /\ UNCHANGED <<Records, loaded, given, k, printed, phase, batch, begun, finished>>
        /\ mainPc' \in {"destroy", "read"}
    BY <1>7 DEF EndPrint, Destroy, workerVars, poolVars
  <2> QED
    BY <1>0, <1>1, <1>2, <2>1 DEF TypesInv, Pool!PoolTypeOK
<1>8. ASSUME CreateTable
      PROVE  TypesInv'
  <2>1. /\ UNCHANGED <<loaded, given, phase, batch, begun, finished>>
        /\ mainPc' = "submit" /\ Records' = 0 /\ k' = 0 /\ printed' = <<>>
    BY <1>8 DEF CreateTable, NewTable, workerVars, poolVars
  <2>2. <<>> \in Seq(Ngrams) /\ Len(<<>>) = 0
    OBVIOUS
  <2> QED
    BY <1>0, <1>1, <1>2, <2>1, <2>2 DEF TypesInv, Pool!PoolTypeOK
<1>9. CASE UNCHANGED vars
  BY <1>0, <1>1, <1>2, <1>9 DEF vars, TypesInv, Pool!PoolTypeOK
<1> QED
  BY <1>3, <1>4, <1>5, <1>6, <1>7, <1>8, <1>9 DEF Next, MainStep

\* The table is within its memory and everything has its type, for any number
\* of workers and n-grams: topK_Hashtable_insert_bucket doubles a full bucket
\* before it writes to it, and topK_print_TopK prints k n-grams at most.
THEOREM Types == Spec => []TypeOK
<1>1. Init => BucketsInv /\ TypesInv
  BY InitTypes, EmptySorted DEF Init
<1>2. OwnersInv /\ BucketsInv /\ TypesInv /\ [Next]_vars => BucketsInv' /\ TypesInv'
  BY BucketsStep, TypesStep
<1>3. OwnersInv /\ BucketsInv /\ TypesInv => TypeOK
  <2> SUFFICES ASSUME OwnersInv, BucketsInv, TypesInv PROVE TypeOK
    OBVIOUS
  <2>1. \A b \in Buckets : \A x \in DOMAIN topBuckets[b] : topBuckets[b][x] \in Entries
    <3> SUFFICES ASSUME NEW b \in Buckets, NEW x \in DOMAIN topBuckets[b]
                 PROVE  topBuckets[b][x] \in Entries
      OBVIOUS
    <3>1. PICK E \in Seq(Entries) : E = topBuckets[b]
      BY DEF BucketsInv
    <3>2. E[x] \in Entries
      BY <3>1
    <3> QED
      BY <3>1, <3>2
  <2> QED
    BY <2>1 DEF OwnersInv, WorkerTypes, TypesInv, Capacity, TypeOK
<1> QED
  BY <1>1, <1>2, <1>3, OwnersInvariant, PTL DEF Spec
=============================================================================
