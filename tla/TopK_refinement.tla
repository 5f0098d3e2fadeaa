--------------------------- MODULE TopK_refinement ---------------------------
(***************************************************************************)
(* TopK implements AnswerRanking, for every number of workers, queries,    *)
(* n-grams and buckets and every k.  Up to the barrier an n-gram's count   *)
(* is the number of its inserts that have reached the table; afterwards    *)
(* the table holds, with their counts, exactly the n-grams that are not    *)
(* yet printed.  With the buckets sorted (TopK_proofs), the best of their  *)
(* first entries is the best of all.                                       *)
(***************************************************************************)
EXTENDS TopK_proofs

Ending == mainPc \in {"print", "destroy", "read"}

\* Records is positive when the table has an entry, whatever increments were
\* lost: topK_print_TopK asks no more of it.
RecordsInv ==
  /\ Records \in Nat /\ loaded \in [Workers -> Nat]
  /\ ~Ending =>
       (NonEmpty # {} <=> Records > 0 \/ \E w \in Workers : pc[w] \in {"load", "store"})

CountInv == answered \in [Ngrams -> Nat] /\ CountsExact

\* The entries left in the table and the n-grams left to print.
TableIsLeft ==
  \A n \in Ngrams :
    /\ n \in Ranking!Left <=> Counted(n) # {}
    /\ \A e \in Counted(n) : e.appearances = answered[n]

PrintInv ==
  /\ mainPc \in {"submit", "wait", "print", "destroy", "read"}
  /\ printed \in Seq(Ngrams) /\ k \in Nat /\ line \in {"empty", "open", "ended"}
  /\ ~Ending => printed = <<>> /\ k = 0 /\ line = "empty"
  /\ mainPc = "print" => TableIsLeft
  /\ mainPc \in {"destroy", "read"} => Len(printed) = k \/ Ranking!Left = {}

RankInv == RecordsInv /\ CountInv /\ PrintInv

-----------------------------------------------------------------------------
(***************************************************************************)
(* Counts.                                                                 *)
(***************************************************************************)
\* What CountsExact says of one n-gram.
Exact(n) ==
  \/ Counted(n) = {} /\ answered[n] = Cardinality(OnTheWay(n))
  \/ \E e \in Counted(n) : e.appearances + Cardinality(OnTheWay(n)) = answered[n]

\* The invariant is the property, n-gram by n-gram.
LEMMA ExactCounts == CountsExact <=> (mainPc \in {"submit", "wait"} => \A n \in Ngrams : Exact(n))
BY DEF CountsExact, Exact

\* An n-gram with an unchanged bucket and unchanged inserts keeps its count.
LEMMA KeepsCount ==
  ASSUME NEW n \in Ngrams, Exact(n), Counted(n)' = Counted(n),
         OnTheWay(n)' = OnTheWay(n), answered'[n] = answered[n]
  PROVE  Exact(n)'
BY DEF Exact

\* An answer on its way to the table is not counted yet.
LEMMA InsertCounts ==
  ASSUME OwnersInv, BucketsInv, CountInv, NEW w \in Workers, NEW n \in Ngrams, Insert(w, n)
  PROVE  CountInv'
<1>1. answered' = [answered EXCEPT ![n] = @ + 1] /\ UNCHANGED <<topBuckets, mainPc>>
  BY DEF Insert, tableVars, mainVars
<1>2. answered \in [Ngrams -> Nat] /\ answered' \in [Ngrams -> Nat]
  BY <1>1 DEF CountInv
<1>3. \A x \in Ngrams : Counted(x)' = Counted(x)
  BY <1>1 DEF Counted
<1>4. /\ Cardinality(OnTheWay(n))' = Cardinality(OnTheWay(n)) + 1
      /\ \A x \in Ngrams \ {n} : OnTheWay(x)' = OnTheWay(x)
  BY WayBegins
<1>5. ASSUME mainPc' \in {"submit", "wait"}, NEW x \in Ngrams
      PROVE  Exact(x)'
  <2>1. Exact(x)
    BY <1>1, <1>5, ExactCounts DEF CountInv
  <2>2. CASE x = n
    <3>1. /\ Cardinality(OnTheWay(n)) \in Nat /\ answered[n] \in Nat
          /\ answered'[n] = answered[n] + 1
      BY <1>1, <1>2, WayFinite
    <3>2. \A e \in Counted(n) : e.appearances \in Nat
      BY CountedEntries, EntryFields
    <3> QED
      BY <1>3, <1>4, <2>1, <2>2, <3>1, <3>2 DEF Exact
  <2>3. CASE x # n
    BY <1>1, <1>2, <1>3, <1>4, <2>1, <2>3, KeepsCount
  <2> QED
    BY <2>2, <2>3
<1> QED
  BY <1>2, <1>5 DEF CountInv, CountsExact, Exact

\* A worker that reaches the bucket is counted there instead.
LEMMA ReachCounts ==
  ASSUME OwnersInv, BucketsInv, BucketsInv', CountInv, NEW w \in Workers,
         CountFound(w) \/ AddNew(w)
  PROVE  CountInv'
<1>0. PICK n \in Ngrams : n = ngram[w]
  BY DEF OwnersInv, WorkerTypes
<1>1. UNCHANGED <<answered, mainPc>>
  <2>1. CASE CountFound(w)
    BY <2>1 DEF CountFound, mainVars
  <2>2. CASE AddNew(w)
    BY <2>2 DEF AddNew, history, mainVars
  <2> QED
    BY <2>1, <2>2
<1>2. /\ Cardinality(OnTheWay(n))' = Cardinality(OnTheWay(n)) - 1
      /\ \A x \in Ngrams \ {n} : OnTheWay(x)' = OnTheWay(x)
  BY <1>0, WayEnds
<1>3. /\ Cardinality(OnTheWay(n)) \in Nat /\ answered[n] \in Nat /\ answered' = answered
      /\ answered \in [Ngrams -> Nat]
  BY <1>1, WayFinite DEF CountInv
<1>4. \A e, f \in Counted(n) : e = f
  BY CountedEntries
<1>5. \A x \in Ngrams \ {n} : Counted(x)' = Counted(x)
  BY <1>0, FoundEntries, NewEntries
<1>6. ASSUME Exact(n)
      PROVE  Exact(n)'
  \* The n-gram has one appearance more.
  <2>1. CASE CountFound(w)
    <3>1. PICK e \in Counted(n), f \in Counted(n)' : f.appearances = e.appearances + 1
      BY <1>0, <2>1, FoundEntries
    <3>2. e.appearances \in Nat
      BY CountedEntries, EntryFields
    <3>3. e.appearances + Cardinality(OnTheWay(n)) = answered[n]
      BY <1>4, <1>6, <3>1 DEF Exact
    <3>4. f.appearances + Cardinality(OnTheWay(n))' = answered'[n]
      BY <1>2, <1>3, <3>1, <3>2, <3>3
    <3> QED
      BY <3>1, <3>4 DEF Exact
  \* The n-gram has its first.
  <2>2. CASE AddNew(w)
    <3>1. Counted(n) = {}
      BY <1>0, <2>2, NewEntries
    <3>2. PICK f \in Counted(n)' : f.appearances = 1
      BY <1>0, <2>2, NewEntries
    <3>3. f.appearances + Cardinality(OnTheWay(n))' = answered'[n]
      BY <1>2, <1>3, <1>6, <3>1, <3>2 DEF Exact
    <3> QED
      BY <3>2, <3>3 DEF Exact
  <2> QED
    BY <2>1, <2>2
<1>7. ASSUME mainPc' \in {"submit", "wait"}, NEW x \in Ngrams
      PROVE  Exact(x)'
  <2>1. Exact(x)
    BY <1>1, <1>7, ExactCounts DEF CountInv
  <2> QED
    BY <1>2, <1>3, <1>5, <1>6, <2>1, KeepsCount
<1> QED
  BY <1>3, <1>7 DEF CountInv, CountsExact, Exact

\* A step that inserts nothing keeps all counts.
LEMMA KeepsCounts ==
  ASSUME CountInv, UNCHANGED <<topBuckets, answered>>,
         \A n \in Ngrams : OnTheWay(n)' = OnTheWay(n),
         mainPc' \in {"submit", "wait"} => mainPc \in {"submit", "wait"}
  PROVE  CountInv'
<1>1. \A n \in Ngrams : Counted(n)' = Counted(n)
  BY DEF Counted
<1>2. \A n \in Ngrams : answered'[n] = answered[n]
  OBVIOUS
<1>3. ASSUME mainPc' \in {"submit", "wait"}, NEW n \in Ngrams
      PROVE  Exact(n)'
  <2>1. Exact(n)
    BY <1>3, ExactCounts DEF CountInv
  <2> QED
    BY <1>1, <1>2, <2>1, KeepsCount
<1> QED
  BY <1>3 DEF CountInv, CountsExact, Exact

\* A step keeps the counts exact.
LEMMA CountStep ==
  ASSUME OwnersInv, BucketsInv, BucketsInv', CountInv, [Next]_vars
  PROVE  CountInv'
<1>1. pc \in [Workers -> {"idle", "search", "lock", "insert", "load", "store", "unlock"}]
  BY DEF OwnersInv, WorkerTypes
<1>2. ASSUME NEW w \in Workers, NEW n \in Ngrams, Insert(w, n)
      PROVE  CountInv'
  BY <1>2, InsertCounts
<1>3. ASSUME NEW w \in Workers, CountFound(w) \/ AddNew(w)
      PROVE  CountInv'
  BY <1>3, ReachCounts
<1>4. ASSUME NEW w \in Workers,
             \/ BeginJob(w) \/ FinishJob(w) \/ Lock(w)
             \/ LoadRecords(w) \/ StoreRecords(w) \/ Unlock(w)
      PROVE  CountInv'
  <2>1. /\ UNCHANGED <<topBuckets, answered, ngram, mainPc>>
        /\ \E l \in {"idle", "search", "lock", "insert", "load", "store", "unlock"} :
             /\ pc' = [pc EXCEPT ![w] = l]
             /\ l \in {"lock", "insert"} <=> pc[w] \in {"lock", "insert"}
    BY <1>4 DEF BeginJob, FinishJob, Lock, LoadRecords, StoreRecords, Unlock,
                tableVars, mainVars, history
  <2>2. \A n \in Ngrams : OnTheWay(n)' = OnTheWay(n)
    BY <1>1, <2>1 DEF OnTheWay
  <2> QED
    BY <2>1, <2>2, KeepsCounts
<1>5. ASSUME \/ \E j \in Jobs : SubmitJob(j)
             \/ \E n \in Ks : BeginPrint(n)
             \/ ExecuteAllJobs \/ EndPrint \/ UNCHANGED vars
      PROVE  CountInv'
  <2>1. /\ UNCHANGED <<topBuckets, answered, ngram, pc>>
        /\ mainPc' \in {"submit", "wait"} => mainPc \in {"submit", "wait"}
    BY <1>5 DEF SubmitJob, BeginPrint, ExecuteAllJobs, EndPrint, vars, tableVars,
                workerVars, mainVars, history
  <2>2. \A n \in Ngrams : OnTheWay(n)' = OnTheWay(n)
    BY <2>1 DEF OnTheWay
  <2> QED
    BY <2>1, <2>2, KeepsCounts
<1>6. ASSUME PrintNext \/ Destroy
      PROVE  CountInv'
  <2>1. UNCHANGED answered /\ mainPc' \notin {"submit", "wait"}
    BY <1>6 DEF PrintNext, Destroy
  <2> QED
    BY <2>1 DEF CountInv, CountsExact
<1>7. ASSUME CreateTable
      PROVE  CountInv'
  <2>1. /\ topBuckets' = [b \in Buckets |-> <<>>] /\ answered' = [n \in Ngrams |-> 0]
        /\ mainPc # "wait" /\ UNCHANGED pc
    BY <1>7 DEF CreateTable, NewTable, workerVars
  <2>2. \A w \in Workers : pc'[w] = "idle"
    BY <2>1, Idle
  <2>3. ASSUME NEW n \in Ngrams
        PROVE  Exact(n)'
    <3>1. topBuckets'[Destination(n)] = <<>>
      BY <2>1, DestinationIsBucket
    <3>2. Counted(n)' = {}
      BY <3>1 DEF Counted
    <3>3. OnTheWay(n)' = {} /\ Cardinality({}) = 0
      BY <2>2, FS_EmptySet DEF OnTheWay
    <3>4. Cardinality(OnTheWay(n))' = 0
      BY <3>3
    <3> QED
      BY <2>1, <3>2, <3>4 DEF Exact
  <2> QED
    BY <2>1, <2>3 DEF CountInv, CountsExact, Exact
<1> QED
  BY <1>2, <1>3, <1>4, <1>5, <1>6, <1>7 DEF Next, MainStep, WorkerStep

-----------------------------------------------------------------------------
(***************************************************************************)
(* The number of records, as far as topK_print_TopK asks for it.           *)
(***************************************************************************)
LEMMA RecordsStep ==
  ASSUME OwnersInv, BucketsInv, BucketsInv', RecordsInv, [Next]_vars
  PROVE  RecordsInv'
<1>1. /\ pc \in [Workers -> {"idle", "search", "lock", "insert", "load", "store", "unlock"}]
      /\ \A w \in Workers : Bucket(w) \in Buckets
  BY DestinationIsBucket DEF OwnersInv, WorkerTypes, Bucket
<1>2. /\ Records \in Nat /\ loaded \in [Workers -> Nat]
  BY DEF RecordsInv
<1>3. ASSUME NEW w \in Workers, CountFound(w)
      PROVE  RecordsInv'
  <2>1. PICK b \in Buckets : b = Bucket(w)
    BY <1>1
  <2>2. PICK E \in Seq(Entries) : E = topBuckets[b]
    BY DEF BucketsInv
  <2>3. PICK p \in DOMAIN E : topBuckets' = [topBuckets EXCEPT ![b] = Recounted(E, p)]
    BY <1>3, <2>1, <2>2 DEF CountFound, Found
  <2>4. /\ pc[w] = "insert" /\ pc' = [pc EXCEPT ![w] = "unlock"]
        /\ UNCHANGED <<Records, loaded, mainPc>>
    BY <1>3 DEF CountFound, mainVars
  <2>5. E # <<>> /\ topBuckets'[b] # <<>>
    <3>1. topBuckets'[b] = Recounted(E, p)
      BY <2>3 DEF BucketsInv
    <3>2. p \in 1..Len(E)
      OBVIOUS
    <3>3. In(Recounted(E, p), [E[p] EXCEPT !.appearances = @ + 1])
      BY <3>2, RecountsEntries
    <3> QED
      BY <3>1, <3>3 DEF In
  <2>6. b \in NonEmpty /\ b \in NonEmpty'
    BY <2>2, <2>5 DEF NonEmpty, Buckets
  <2>7. (\E v \in Workers : pc'[v] \in {"load", "store"})
          <=> (\E v \in Workers : pc[v] \in {"load", "store"})
    BY <1>1, <2>4
  <2> QED
    BY <1>2, <2>4, <2>6, <2>7 DEF RecordsInv, Ending
<1>4. ASSUME NEW w \in Workers, AddNew(w)
      PROVE  RecordsInv'
  <2>1. PICK b \in Buckets : b = Bucket(w)
    BY <1>1
  <2>2. PICK E \in Seq(Entries) : E = topBuckets[b]
    BY DEF BucketsInv
  <2>3. topBuckets' = [topBuckets EXCEPT ![b] = Added(E, ngram[w])]
    BY <1>4, <2>1, <2>2 DEF AddNew
  <2>4. pc' = [pc EXCEPT ![w] = "load"] /\ UNCHANGED <<Records, loaded, mainPc>>
    BY <1>4 DEF AddNew, mainVars
  <2>5. topBuckets'[b] # <<>>
    <3>1. topBuckets'[b] = Added(E, ngram[w])
      BY <2>3 DEF BucketsInv
    <3>2. In(Added(E, ngram[w]), [ngram |-> ngram[w], appearances |-> 1])
      BY AddsEntries
    <3> QED
      BY <3>1, <3>2 DEF In
  <2>6. b \in NonEmpty'
    BY <2>5 DEF NonEmpty, Buckets
  <2>7. pc'[w] = "load"
    BY <1>1, <2>4
  <2> QED
    BY <1>2, <2>4, <2>6, <2>7 DEF RecordsInv, Ending
<1>5. ASSUME NEW w \in Workers, StoreRecords(w)
      PROVE  RecordsInv'
  <2>1. /\ pc[w] = "store" /\ UNCHANGED <<topBuckets, loaded, mainPc>>
        /\ Records' = loaded[w] + 1
    BY <1>5 DEF StoreRecords, tableVars, mainVars
  <2>2. Records' \in Nat /\ Records' > 0
    BY <1>2, <2>1
  <2> QED
    BY <1>2, <2>1, <2>2 DEF RecordsInv, Ending, NonEmpty
<1>6. ASSUME NEW w \in Workers, LoadRecords(w)
      PROVE  RecordsInv'
  <2>1. /\ pc[w] = "load" /\ pc' = [pc EXCEPT ![w] = "store"]
        /\ loaded' = [loaded EXCEPT ![w] = Records]
        /\ UNCHANGED <<topBuckets, Records, mainPc>>
    BY <1>6 DEF LoadRecords, tableVars, mainVars
  <2>2. loaded' \in [Workers -> Nat] /\ pc'[w] = "store"
    BY <1>1, <1>2, <2>1
  <2>3. NonEmpty' = NonEmpty
    BY <2>1 DEF NonEmpty
  <2> QED
    BY <1>2, <2>1, <2>2, <2>3 DEF RecordsInv, Ending
<1>7. ASSUME NEW w \in Workers,
             \/ BeginJob(w) \/ FinishJob(w) \/ \E n \in Ngrams : Insert(w, n)
             \/ Lock(w) \/ Unlock(w)
      PROVE  RecordsInv'
  <2>1. /\ UNCHANGED <<topBuckets, Records, loaded, mainPc>>
        /\ pc[w] \notin {"load", "store"}
        /\ \E l \in {"idle", "search", "lock", "insert"} : pc' = [pc EXCEPT ![w] = l]
    BY <1>7 DEF BeginJob, FinishJob, Insert, Lock, Unlock, tableVars, mainVars
  <2>2. (\E v \in Workers : pc'[v] \in {"load", "store"})
          <=> (\E v \in Workers : pc[v] \in {"load", "store"})
    BY <1>1, <2>1
  <2>3. NonEmpty' = NonEmpty
    BY <2>1 DEF NonEmpty
  <2> QED
    BY <2>1, <2>2, <2>3 DEF RecordsInv, Ending
<1>8. ASSUME (\E j \in Jobs : SubmitJob(j)) \/ ExecuteAllJobs \/ UNCHANGED vars
      PROVE  RecordsInv'
  <2>1. UNCHANGED <<topBuckets, Records, loaded, pc>> /\ (Ending' <=> Ending)
    BY <1>8 DEF SubmitJob, ExecuteAllJobs, vars, tableVars, workerVars, mainVars, Ending
  <2>2. NonEmpty' = NonEmpty
    BY <2>1 DEF NonEmpty
  <2> QED
    BY <2>1, <2>2 DEF RecordsInv
<1>9. ASSUME (\E n \in Ks : BeginPrint(n)) \/ PrintNext \/ EndPrint \/ Destroy
      PROVE  RecordsInv'
  <2>1. UNCHANGED <<Records, loaded>> /\ Ending'
    BY <1>9 DEF BeginPrint, PrintNext, EndPrint, Destroy, workerVars, Ending
  <2> QED
    BY <1>2, <2>1 DEF RecordsInv
<1>10. ASSUME CreateTable
       PROVE  RecordsInv'
  <2>1. /\ topBuckets' = [b \in Buckets |-> <<>>] /\ Records' = 0
        /\ mainPc # "wait" /\ UNCHANGED <<pc, loaded>>
    BY <1>10 DEF CreateTable, NewTable, workerVars
  <2>2. NonEmpty' = {}
    BY <2>1 DEF NonEmpty, Buckets
  <2>3. \A w \in Workers : pc'[w] = "idle"
    BY <2>1, Idle
  <2> QED
    BY <1>2, <2>1, <2>2, <2>3 DEF RecordsInv
<1> QED
  BY <1>3, <1>4, <1>5, <1>6, <1>7, <1>8, <1>9, <1>10 DEF Next, MainStep, WorkerStep

-----------------------------------------------------------------------------
(***************************************************************************)
(* The printing.                                                           *)
(***************************************************************************)
\* A bucket that is not empty holds an n-gram's entry.
LEMMA NonEmptyCounts ==
  ASSUME BucketsInv
  PROVE  NonEmpty # {} <=> \E n \in Ngrams : Counted(n) # {}
<1>1. ASSUME NEW b \in NonEmpty
      PROVE  topBuckets[b][1].ngram \in Ngrams
             /\ topBuckets[b][1] \in Counted(topBuckets[b][1].ngram)
  <2>1. b \in Buckets /\ topBuckets[b] # <<>>
    BY DEF NonEmpty
  <2>2. PICK E \in Seq(Entries) : E = topBuckets[b]
    BY <2>1 DEF BucketsInv
  <2>3. BucketSorted(E, b)
    BY <2>1, <2>2 DEF BucketsInv, BucketsSorted
  <2>4. 1 \in DOMAIN E
    BY <2>1, <2>2
  <2>5. E[1] \in Entries
    BY <2>4
  <2>6. E[1].ngram \in Ngrams /\ Destination(E[1].ngram) = b
    BY <2>3, <2>4, <2>5, EntryFields DEF BucketSorted
  <2> QED
    BY <2>2, <2>4, <2>6 DEF Counted
<1>2. ASSUME NEW n \in Ngrams, Counted(n) # {}
      PROVE  Destination(n) \in NonEmpty
  <2>1. topBuckets[Destination(n)] # <<>>
    BY <1>2 DEF Counted
  <2> QED
    BY <2>1, DestinationIsBucket DEF NonEmpty
<1> QED
  BY <1>1, <1>2

\* At the barrier the table holds all n-grams answered, with their counts.
LEMMA CountsAtBarrier ==
  ASSUME BucketsInv, CountInv, mainPc = "wait", \A w \in Workers : pc[w] = "idle",
         NEW n \in Ngrams
  PROVE  /\ answered[n] > 0 <=> Counted(n) # {}
         /\ \A e \in Counted(n) : e.appearances = answered[n]
<1>1. Cardinality(OnTheWay(n)) = 0
  BY NoneOnTheWay
<1>2. Exact(n) /\ answered[n] \in Nat
  BY ExactCounts DEF CountInv
<1>3. \A e \in Counted(n) : e.appearances \in Nat /\ e.appearances > 0
  BY CountedEntries, EntryFields
<1>4. \A e, f \in Counted(n) : e = f
  BY CountedEntries
<1>5. CASE Counted(n) = {} /\ answered[n] = Cardinality(OnTheWay(n))
  BY <1>1, <1>2, <1>5
<1>6. ASSUME NEW e \in Counted(n), e.appearances + Cardinality(OnTheWay(n)) = answered[n]
      PROVE  e.appearances = answered[n]
  BY <1>1, <1>3, <1>6
<1> QED
  BY <1>2, <1>3, <1>4, <1>5, <1>6 DEF Exact

\* The main thread begins to print: the table holds every answer, counted.
LEMMA BarrierRanks ==
  ASSUME OwnersInv, BucketsInv, RecordsInv, CountInv, PrintInv, NEW n \in Ks, BeginPrint(n)
  PROVE  PrintInv' /\ Ranking!EndAnswers(n)
<1>1. /\ mainPc = "wait" /\ mainPc' = "print" /\ Pool!Complete /\ k' = n
      /\ line' = IF n > 0 /\ Records > 0 THEN "open" ELSE "empty"
      /\ UNCHANGED <<topBuckets, answered, printed>>
  BY DEF BeginPrint, tableVars, history
<1>2. \A w \in Workers : pc[w] = "idle"
  BY <1>1, IdleAtBarrier
<1>3. printed = <<>> /\ printed' = <<>>
  BY <1>1 DEF PrintInv, Ending
<1>4. \A g \in Ngrams : /\ answered[g] > 0 <=> Counted(g) # {}
                        /\ \A e \in Counted(g) : e.appearances = answered[g]
  BY <1>1, <1>2, CountsAtBarrier
<1>5. Records > 0 <=> \E g \in Ngrams : answered[g] > 0
  <2>1. NonEmpty # {} <=> Records > 0
    BY <1>1, <1>2 DEF RecordsInv, Ending
  <2> QED
    BY <1>4, <2>1, NonEmptyCounts
<1>6. \A g \in Ngrams : Counted(g)' = Counted(g)
  BY <1>1 DEF Counted
<1>7. Ranking!Left' = {g \in Ngrams : answered[g] > 0}
  BY <1>1, <1>3 DEF Ranking!Left
<1>8. TableIsLeft'
  BY <1>1, <1>4, <1>6, <1>7 DEF TableIsLeft
<1>9. n \in Nat
  BY TopKAssumption
<1>10. PrintInv'
  <2>1. printed' \in Seq(Ngrams)
    BY <1>1 DEF PrintInv
  <2>2. line' \in {"empty", "open", "ended"}
    BY <1>1
  <2> QED
    BY <1>1, <1>8, <1>9, <2>1, <2>2 DEF PrintInv, Ending
<1>11. Ranking!EndAnswers(n)
  BY <1>1, <1>5 DEF Ranking!EndAnswers
<1> QED
  BY <1>10, <1>11

\* The best first entry comes before every other entry of the table.
LEMMA BestOfAll ==
  ASSUME BucketsInv, NEW b \in NonEmpty,
         \A c \in NonEmpty \ {b} : Before(topBuckets[b][1], topBuckets[c][1]),
         NEW g \in Ngrams, NEW e \in Counted(g)
  PROVE  e = topBuckets[b][1] \/ Before(topBuckets[b][1], e)
<1>1. PICK c \in Buckets : c = Destination(g)
  BY DestinationIsBucket
<1>2. PICK E \in Seq(Entries) : E = topBuckets[c]
  BY DEF BucketsInv
<1>3. PICK x \in DOMAIN E : E[x] = e
  BY <1>1, <1>2 DEF Counted
<1>4. x \in 1..Len(E) /\ 1 \in DOMAIN E /\ Len(E) > 0 /\ E # <<>>
  OBVIOUS
<1>5. c \in NonEmpty
  BY <1>2, <1>4 DEF NonEmpty
<1>6. e = E[1] \/ Before(E[1], e)
  <2>1. BucketSorted(E, c)
    BY <1>2 DEF BucketsInv, BucketsSorted
  <2>2. x = 1 \/ 1 < x
    BY <1>4
  <2> QED
    BY <1>3, <1>4, <2>1, <2>2 DEF BucketSorted
<1>7. E[1] \in Entries /\ e \in Entries
  BY <1>3, <1>4
<1>8. CASE c = b
  BY <1>2, <1>6, <1>8
<1>9. CASE c # b
  <2>1. Before(topBuckets[b][1], E[1])
    BY <1>2, <1>5, <1>9
  <2>2. topBuckets[b][1] \in Entries
    <3>1. b \in Buckets /\ topBuckets[b] # <<>>
      BY DEF NonEmpty
    <3>2. topBuckets[b] \in Seq(Entries)
      BY <3>1 DEF BucketsInv
    <3> QED
      BY <3>1, <3>2
  <2> QED
    BY <1>6, <1>7, <2>1, <2>2, BeforeTransitive
<1> QED
  BY <1>8, <1>9

\* The best first entry of the buckets is the n-gram the ranking names next.
LEMMA NamesBest ==
  ASSUME OwnersInv, BucketsInv, BucketsInv', CountInv, PrintInv, PrintNext
  PROVE  PrintInv' /\ Ranking!NameBest
<1>1. PICK b \in NonEmpty :
        /\ \A c \in NonEmpty \ {b} : Before(topBuckets[b][1], topBuckets[c][1])
        /\ printed' = Append(printed, topBuckets[b][1].ngram)
        /\ topBuckets' = [topBuckets EXCEPT ![b] = Tail(topBuckets[b])]
  BY DEF PrintNext
<1>2. /\ mainPc = "print" /\ mainPc' = "print" /\ Len(printed) < k
      /\ line' = IF Len(printed) = k - 1 THEN "ended" ELSE "open"
      /\ UNCHANGED <<answered, k>>
  BY DEF PrintNext
<1>3. b \in Buckets /\ topBuckets[b] # <<>>
  BY DEF NonEmpty
<1>4. PICK E \in Seq(Entries) : E = topBuckets[b]
  BY <1>3 DEF BucketsInv
<1>5. BucketSorted(E, b)
  BY <1>3, <1>4 DEF BucketsInv, BucketsSorted
<1>6. 1 \in DOMAIN E /\ E[1] \in Entries
  BY <1>3, <1>4
<1>7. PICK n \in Ngrams : n = E[1].ngram
  BY <1>6, EntryFields
<1>8. Destination(n) = b /\ E[1] \in Counted(n)
  BY <1>4, <1>5, <1>6, <1>7 DEF BucketSorted, Counted
<1>9. TableIsLeft
  BY <1>2 DEF PrintInv
<1>10. n \in Ranking!Left
  BY <1>8, <1>9 DEF TableIsLeft
<1>11. ASSUME NEW g \in Ranking!Left \ {n}
       PROVE  Ranking!Beats(n, g)
  <2>1. g \in Ngrams
    BY DEF Ranking!Left
  <2>2. PICK e \in Counted(g) : e.appearances = answered[g]
    BY <1>9, <2>1 DEF TableIsLeft
  <2>3. e.ngram = g /\ E[1].appearances = answered[n]
    BY <1>8, <1>9, <2>1, <2>2 DEF TableIsLeft, Counted
  <2>4. Before(E[1], e)
    BY <1>1, <1>4, <1>7, <2>1, <2>3, BestOfAll
  <2> QED
    BY <1>7, <2>2, <2>3, <2>4 DEF Before, Ranking!Beats
<1>12. printed' = Append(printed, n)
  BY <1>1, <1>4, <1>7
<1>13. Ranking!NameBest
  <2>1. /\ k \in Nat /\ Len(printed) \in Nat /\ Len(printed') = Len(printed) + 1
    BY <1>12 DEF PrintInv
  <2>2. line' = IF Len(printed') < k THEN "open" ELSE "ended"
    BY <1>2, <2>1
  <2> QED
    BY <1>2, <1>10, <1>11, <1>12, <2>2 DEF Ranking!NameBest, Ending
<1>14. \A g \in Ngrams \ {n} : Counted(g)' = Counted(g)
  BY <1>1, <1>4, <1>7, PrintedEntries
<1>15. Counted(n)' = {}
  BY <1>1, <1>4, <1>7, PrintedEntries
<1>16. Ranking!Left' = Ranking!Left \ {n}
  <2>1. printed \in Seq(Ngrams)
    BY DEF PrintInv
  <2>2. {printed'[x] : x \in DOMAIN printed'} = {printed[x] : x \in DOMAIN printed} \union {n}
    <3>1. /\ DOMAIN printed = 1..Len(printed) /\ DOMAIN printed' = 1..(Len(printed) + 1)
          /\ Len(printed) \in Nat
      BY <1>12, <2>1
    <3>2. \A x \in 1..(Len(printed) + 1) :
            printed'[x] = IF x \in 1..Len(printed) THEN printed[x] ELSE n
      BY <1>12, <2>1, <3>1
    <3>3. /\ Len(printed) + 1 \in 1..(Len(printed) + 1)
          /\ Len(printed) + 1 \notin 1..Len(printed)
          /\ \A x \in 1..(Len(printed) + 1) :
               x \in 1..Len(printed) \/ x = Len(printed) + 1
          /\ \A x \in 1..Len(printed) : x \in 1..(Len(printed) + 1)
      BY <3>1
    <3> QED
      BY <3>1, <3>2, <3>3
  <2> QED
    BY <1>2, <2>2 DEF Ranking!Left
<1>17. TableIsLeft'
  BY <1>2, <1>9, <1>14, <1>15, <1>16 DEF TableIsLeft
<1>18. printed' \in Seq(Ngrams)
  BY <1>12 DEF PrintInv
<1>19. PrintInv'
  BY <1>2, <1>17, <1>18 DEF PrintInv, Ending
<1> QED
  BY <1>13, <1>19

\* The steps that name nothing.
LEMMA EndsRank ==
  ASSUME BucketsInv, PrintInv, EndPrint \/ Destroy
  PROVE  PrintInv' /\ UNCHANGED Ranking!rankingVars
<1>1. /\ mainPc \in {"print", "destroy"} /\ mainPc' \in {"destroy", "read"}
      /\ UNCHANGED <<answered, printed, k, line>>
  BY DEF EndPrint, Destroy, history
<1>2. Ranking!Left' = Ranking!Left
  BY <1>1 DEF Ranking!Left
<1>3. Len(printed) = k \/ Ranking!Left = {}
  <2>1. CASE EndPrint /\ NonEmpty = {}
    <3>1. TableIsLeft
      BY <2>1 DEF EndPrint, PrintInv
    <3>2. \A n \in Ngrams : Counted(n) = {}
      BY <2>1, NonEmptyCounts
    <3> QED
      BY <3>1, <3>2 DEF TableIsLeft, Ranking!Left
  <2>2. CASE EndPrint /\ Len(printed) = k
    BY <2>2
  <2>3. CASE Destroy
    BY <2>3 DEF Destroy, PrintInv
  <2> QED
    BY <2>1, <2>2, <2>3 DEF EndPrint
<1>4. PrintInv'
  BY <1>1, <1>2, <1>3 DEF PrintInv, Ending
<1> QED
  BY <1>1, <1>4 DEF Ranking!rankingVars

\* A new table begins the next burst of the ranking.
LEMMA NextRanks ==
  ASSUME PrintInv, CreateTable
  PROVE  PrintInv' /\ Ranking!NextBurst
<1>1. /\ mainPc = "read" /\ mainPc' = "submit" /\ k' = 0 /\ line' = "empty" /\ printed' = <<>>
      /\ answered' = [n \in Ngrams |-> 0]
  BY DEF CreateTable
<1>2. Len(printed) = k \/ Ranking!Left = {}
  BY <1>1 DEF PrintInv
<1>3. Ranking!NextBurst
  BY <1>1, <1>2 DEF Ranking!NextBurst
<1>4. <<>> \in Seq(Ngrams)
  OBVIOUS
<1> QED
  BY <1>1, <1>3, <1>4 DEF PrintInv, Ending

\* Only a query that is executed answers an n-gram.
LEMMA AnswerRanks ==
  ASSUME OwnersInv, PrintInv, NEW w \in Workers, NEW n \in Ngrams, Insert(w, n)
  PROVE  PrintInv' /\ Ranking!Answer(n)
<1>1. /\ pc[w] # "idle" /\ answered' = [answered EXCEPT ![n] = @ + 1]
      /\ UNCHANGED <<mainPc, k, line, printed>>
  BY DEF Insert, mainVars
<1>2. mainPc = "wait"
  BY <1>1, Idle
<1>3. PrintInv'
  BY <1>1, <1>2 DEF PrintInv, Ending
<1>4. Ranking!Answer(n)
  BY <1>1, <1>2 DEF Ranking!Answer
<1> QED
  BY <1>3, <1>4

\* The steps that neither answer nor print.
LEMMA SilentSteps ==
  ASSUME OwnersInv, PrintInv,
         \/ \E w \in Workers :
              \/ BeginJob(w) \/ FinishJob(w) \/ Lock(w) \/ CountFound(w) \/ AddNew(w)
              \/ LoadRecords(w) \/ StoreRecords(w) \/ Unlock(w)
         \/ (\E j \in Jobs : SubmitJob(j)) \/ ExecuteAllJobs \/ UNCHANGED vars
  PROVE  PrintInv' /\ UNCHANGED Ranking!rankingVars
<1>1. UNCHANGED vars => UNCHANGED <<topBuckets, mainPc, answered, k, line, printed>>
  BY DEF vars
<1>2. CASE UNCHANGED vars
  <2>1. Ranking!Left' = Ranking!Left /\ \A n \in Ngrams : Counted(n)' = Counted(n)
    BY <1>1, <1>2 DEF Ranking!Left, Counted
  <2>2. TableIsLeft' <=> TableIsLeft
    BY <1>1, <1>2, <2>1 DEF TableIsLeft
  <2> QED
    BY <1>1, <1>2, <2>1, <2>2 DEF PrintInv, Ending, Ranking!rankingVars
<1>3. CASE (\E j \in Jobs : SubmitJob(j)) \/ ExecuteAllJobs
  <2>1. /\ mainPc \in {"submit", "wait"} /\ mainPc' \in {"submit", "wait"}
        /\ UNCHANGED <<answered, k, line, printed>>
    BY <1>3 DEF SubmitJob, ExecuteAllJobs, mainVars, history
  <2> QED
    BY <2>1 DEF PrintInv, Ending, Ranking!rankingVars
<1>4. ASSUME NEW w \in Workers,
             \/ BeginJob(w) \/ FinishJob(w) \/ Lock(w) \/ CountFound(w) \/ AddNew(w)
             \/ LoadRecords(w) \/ StoreRecords(w) \/ Unlock(w)
      PROVE  PrintInv' /\ UNCHANGED Ranking!rankingVars
  <2>1. UNCHANGED <<mainPc, answered, k, line, printed>>
    BY <1>4 DEF BeginJob, FinishJob, Lock, CountFound, AddNew, LoadRecords, StoreRecords,
                Unlock, mainVars, history
  <2>2. mainPc = "wait"
    <3>1. CASE BeginJob(w)
      <4>1. phase = "run"
        BY <3>1 DEF BeginJob, Pool!Begin
      <4> QED
        BY <4>1 DEF OwnersInv, PoolOpen
    <3>2. CASE ~BeginJob(w)
      <4>1. pc[w] # "idle"
        BY <1>4, <3>2 DEF FinishJob, Lock, CountFound, AddNew, LoadRecords, StoreRecords,
                          Unlock
      <4> QED
        BY <4>1, Idle
    <3> QED
      BY <3>1, <3>2
  <2> QED
    BY <2>1, <2>2 DEF PrintInv, Ending, Ranking!rankingVars
<1> QED
  BY <1>2, <1>3, <1>4

-----------------------------------------------------------------------------
(***************************************************************************)
(* The refinement.                                                         *)
(***************************************************************************)
TableInv == OwnersInv /\ BucketsInv /\ RankInv

\* The first table has no answers to rank.
LEMMA InitRanks == Init => TableInv /\ Ranking!RankingInit
<1> SUFFICES ASSUME Init PROVE TableInv /\ Ranking!RankingInit
  OBVIOUS
<1>1. OwnersInv /\ BucketsInv
  BY InitOwners, EmptySorted DEF Init
<1>2. \A w \in Workers : pc[w] = "idle"
  BY DEF Init
<1>3. RecordsInv
  BY <1>2 DEF Init, RecordsInv, NonEmpty, Ending
<1>4. \A n \in Ngrams : Counted(n) = {} /\ answered[n] = Cardinality(OnTheWay(n))
  <2> SUFFICES ASSUME NEW n \in Ngrams
               PROVE  Counted(n) = {} /\ answered[n] = Cardinality(OnTheWay(n))
    OBVIOUS
  <2>1. topBuckets[Destination(n)] = <<>>
    BY DestinationIsBucket DEF Init
  <2>2. Counted(n) = {}
    BY <2>1 DEF Counted
  <2>3. Cardinality(OnTheWay(n)) = 0 /\ answered[n] = 0
    BY <1>2, NoneOnTheWay DEF Init
  <2> QED
    BY <2>2, <2>3
<1>5. CountInv
  BY <1>4 DEF Init, CountInv, CountsExact
<1>6. PrintInv
  <2>1. mainPc = "submit" /\ printed = <<>> /\ k = 0 /\ line = "empty"
    BY DEF Init
  <2>2. <<>> \in Seq(Ngrams)
    OBVIOUS
  <2> QED
    BY <2>1, <2>2 DEF PrintInv, Ending
<1>7. Ranking!RankingInit
  BY DEF Init, Ranking!RankingInit
<1> QED
  BY <1>1, <1>3, <1>5, <1>6, <1>7 DEF TableInv, RankInv

\* A step keeps the invariants of the table together.
LEMMA TableStep ==
  ASSUME TableInv, [Next]_vars
  PROVE  TableInv' /\ [Ranking!RankingNext]_Ranking!rankingVars
<1>1. OwnersInv /\ BucketsInv /\ RecordsInv /\ CountInv /\ PrintInv
  BY DEF TableInv, RankInv
<1>2. OwnersInv' /\ BucketsInv'
  BY <1>1, BucketsStep, OwnersStep
<1>3. RecordsInv' /\ CountInv'
  BY <1>1, <1>2, RecordsStep, CountStep
<1>4. ASSUME NEW n \in Ks, BeginPrint(n)
      PROVE  PrintInv' /\ Ranking!RankingNext
  BY <1>1, <1>4, BarrierRanks DEF Ranking!RankingNext
<1>5. ASSUME PrintNext
      PROVE  PrintInv' /\ Ranking!RankingNext
  BY <1>1, <1>2, <1>5, NamesBest DEF Ranking!RankingNext
<1>6. ASSUME EndPrint \/ Destroy
      PROVE  PrintInv' /\ UNCHANGED Ranking!rankingVars
  BY <1>1, <1>6, EndsRank
<1>7. ASSUME CreateTable
      PROVE  PrintInv' /\ Ranking!RankingNext
  BY <1>1, <1>7, NextRanks DEF Ranking!RankingNext
<1>8. ASSUME NEW w \in Workers, NEW n \in Ngrams, Insert(w, n)
      PROVE  PrintInv' /\ Ranking!RankingNext
  BY <1>1, <1>8, AnswerRanks DEF Ranking!RankingNext
<1>9. ASSUME \/ \E w \in Workers :
                  \/ BeginJob(w) \/ FinishJob(w) \/ Lock(w) \/ CountFound(w) \/ AddNew(w)
                  \/ LoadRecords(w) \/ StoreRecords(w) \/ Unlock(w)
             \/ (\E j \in Jobs : SubmitJob(j)) \/ ExecuteAllJobs \/ UNCHANGED vars
      PROVE  PrintInv' /\ UNCHANGED Ranking!rankingVars
  BY <1>1, <1>9, SilentSteps
<1>10. PrintInv' /\ [Ranking!RankingNext]_Ranking!rankingVars
  BY <1>4, <1>5, <1>6, <1>7, <1>8, <1>9 DEF Next, MainStep, WorkerStep
<1> QED
  BY <1>2, <1>3, <1>10 DEF TableInv, RankInv

\* The owners, the buckets, the counts and the ranking agree in every state.
THEOREM TableInvariant == Spec => []TableInv
<1>1. TableInv /\ [Next]_vars => TableInv'
  BY TableStep
<1> QED
  BY InitRanks, <1>1, PTL DEF Spec

\* No count is lost: whatever inserts interleave, up to the barrier each
\* n-gram has the count of its inserts that have reached its bucket
\* (topK_Hashtable_insert under the mutex of the bucket).
THEOREM Counts == Spec => []CountsExact
<1>1. TableInv => CountsExact
  BY DEF TableInv, RankInv, CountInv
<1> QED
  BY TableInvariant, <1>1, PTL

\* What processBurst prints after "Top: " is the ranking of the n-grams the
\* burst answered: topK_print_TopK merges the buckets to the k most frequent
\* n-grams of all, in order, whoever counted them and when.
THEOREM Refinement == Spec => ImplementsRanking
<1>1. Init => Ranking!RankingInit
  BY InitRanks
<1>2. TableInv /\ [Next]_vars => [Ranking!RankingNext]_Ranking!rankingVars
  BY TableStep
<1>3. Spec => Ranking!RankingSpec
  BY TableInvariant, <1>1, <1>2, PTL DEF Spec, Ranking!RankingSpec
<1> QED
  BY <1>3 DEF ImplementsRanking
=============================================================================
