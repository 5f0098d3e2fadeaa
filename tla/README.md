# Verification of the n-gram service

This directory holds TLA+ models of the program in `src/src`: a service that
keeps a set of n-grams (sequences of words), reads an init file and then a file
of *bursts* of add, delete and query lines, answers the queries of each burst
with twelve threads, and prints after each burst the answers and the k most
frequent n-grams in them.  The modules are checked with TLC.  With TLAPS the
scheduler, the bursts with their versioned trie, the arrays and the hash table
that hold the trie, the buffers of a search and the top-k table are also proved,
for every number of threads, jobs, words, n-grams and buckets; in particular that
the program answers the queries of its bursts as if the lines were executed one
by one, and the restrictions under which it does.

## 1. The program

| part | source | state | operations |
|---|---|---|---|
| start-up | `main.c` | – | create the trie and the pool, read the init file, compact the trie if static, read the query file, free everything |
| lines and bursts | `parsing.c`, `bursts.c`, `bursts.h` | `burst.jobs`, `queryBuffer`, `TRIE_TYPE` | `readInputFile`, `readQueryFile`, `addCommand`, `processBurst`, `processBurstStatic` |
| job scheduler | `Threads/JobScheduler.c` | `queue`, `start`, `end`, `current`, `counter`, `kill`, a mutex, two condition variables | `SubmitJob`, `execute_all_jobs`, `wait_all_tasks_finish`, `worker`, shutdown |
| versioned trie | `trieStructs.c` | nodes with sorted arrays of children, `is_final`, `deleted`, `A_version`, `D_version`; `current_version` | `trieInsertSort`, `trieFakeDeleteNgram`, `trieDeleteNgram`, `trieSearch` |
| hash table of the root | `Hashtable/Hashtable.c` | buckets (each an array of children), `p`, `round`, `Records` | insert, lookup, `Hashtable_split` (linear hashing) |
| compacted trie | `CompactTrie/compactTree.c` | nodes with several words and `offsets` | `trieCompactTree`, `trieSearch_Static` |
| Bloom filter | `BloomFilter/` | a bit array per query | `findInBloom` |
| top-k table | `TopK/topK_Hashtable.c` | buckets of counted n-grams, one mutex each, `Records` | `insert` (workers), `print_TopK`, `Destroy` (main) |
| n-grams | `ngram.c` | words of a line, in a vector that doubles | `createNgram`, `deleteWords`, `deleteNgram` |
| unit tests | `UnitTesting/` | tries of six n-grams | `testInsert`, `testSearch`, `testDelete`, `testBinarySearch`, `TestCompactTree` |
| stack, messages | `stack.c`, `errorMessages.c` | – | helpers |

How they interact.  The main thread reads lines into `burst.jobs`.  At a line
`F` it goes through the jobs: an `A` changes the trie at once, a `D` only leaves
a version on the node, a run of `Q` lines is stamped with `current_version`, put
in the scheduler's queue, and moves the version on.  Then it releases the queue
and waits.  The workers take jobs, search the trie (with no lock: nobody
changes it now), write each answer to its own slot of `queryBuffer`, and insert
each n-gram of an answer in the top-k table, whose buckets have a mutex each.
When all jobs are counted the main thread deletes the n-grams of the `D` lines,
prints the answers and the top k, and frees the burst.

What is hard here: the lock-free hand-over between the main thread and the
workers, which is right only if the barrier is; wake-ups by counted signals;
the versions that must give each query the trie as it stood at its line,
although it is searched after all the burst's updates; who frees an n-gram, and
when; arrays in which deleted children stay as slots to be used again, moved
between buckets while the table grows; counters and lists shared under
fine-grained locks; and the bytes of an answer, built from words that one n-gram
leaves behind for the next longer one, in buffers that double.

## 2. Modules

| module | models | relation to the code |
|---|---|---|
| `WorkPool` | what the scheduler promises: batches of jobs, each executed once, the caller waiting for all | abstract |
| `JobScheduler` | `JobScheduler.c` and the shutdown in `readQueryFile` | one action per section between two blocking points of `worker` and of the main thread's calls |
| `JobScheduler_proofs` | its invariants, and that it implements `WorkPool`, proved | |
| `NgramService` | what the program promises: lines executed one by one on a set of n-grams | abstract |
| `VersionedTrie` | `trieStructs.c` as operators on the live nodes and their versions | used by `Bursts`, `TrieArrays` and `QueryText` |
| `VersionedTrie_proofs` | what an insert, a delete and a search do to any trie, proved | |
| `Bursts` | `bursts.c`, `parsing.c`, both modes | one action per line read, per turn of `processBurst`'s loops, per job taken and executed |
| `Bursts_proofs` | its invariants, proved | |
| `Bursts_refinement` | it implements `NgramService`, proved | |
| `TrieArrays` | the arrays of children and the hash table of the root, with the strings their slots own | one action per operation on an n-gram |
| `TrieArrays_proofs` | the arrays hold the trie of `VersionedTrie` and leak no string, proved | |
| `CompactTrie` | compaction, the offsets packed with their signs, and the search in compacted nodes | extends `TrieArrays` |
| `UnitTests` | the n-grams, the order and the expectations of the repository's unit tests | extends `CompactTrie` |
| `QueryText` | `createNgram`, `trieSearch_Ngram` and `findInBloom` on the bytes of one query | one action per turn of a loop |
| `QueryText_proofs` | its buffers hold what is written to them, its words, answers and bytes are right, proved | |
| `AnswerRanking` | what the top-k table promises: counts, and the best k of them | abstract |
| `TopK` | the top-k table of a burst, with the jobs of the pool that use it | one action per section between two points where threads can interfere |
| `TopK_proofs` | buckets are not shared and stay sorted, proved | |
| `TopK_refinement` | exact counts, and it implements `AnswerRanking`, proved | |
| `MC…` | constants for TLC | |

Names of variables and actions are those of fields and functions where TLA+
allows it.  Operators whose comment begins with "Mutant of" are wrong variants
of the definition they precede; no specification uses them.  They document what
each property would catch: replacing the definition by the variant violates the
property named for it in `PROJECT.json`.

How the parts fit.  `Bursts` and `TopK` use the scheduler only through `WorkPool`
(`Pool!Collect` at `SubmitJob`, `Pool!Release` at `execute_all_jobs`,
`Pool!Begin` and `Pool!Finish` around a job, `Pool!Complete` at the barrier,
`Pool!Close` at the end), and `JobScheduler` is checked to implement `WorkPool`
with fairness.  `Bursts` uses the trie through the operators of
`VersionedTrie`; `TrieArrays` is checked and proved to keep, in its arrays, exactly
the trie those operators compute (`RepresentsTrie`), `CompactTrie` that a search
of compacted nodes comes to the same n-grams (`CompactSearchesTrie`), and
`QueryText` that the bytes a search writes are those of the n-grams its operator
`Scan` finds (`AnswerIsSearch`, checked and proved).  `Bursts` executes a job in one step, which
`NothingMovesUnderAQuery` justifies, and keeps the counts of answers as a
function; `TopK` shows that the concurrent table computes that function and
prints its best entries (`ImplementsRanking`).  So the service refinement
`Bursts` ⇒ `NgramService` is checked, and proved, at the level of abstractions that
the other modules justify.

### Choices of abstraction

* An n-gram is a sequence of words.  Only `QueryText` has characters, a handful
  of them.  In `TrieArrays` words are numbers in `strcmp` order, and in `TopK`
  n-grams are.
* murmurhash is a parameter (`Hash` in `QueryText`, `Hashkey` in `TrieArrays`), as
  is the top-k hash (`Keys`).  In `VersionedTrie` a Bloom filter is a set of
  positions; `QueryText` has its bytes, with the sign of a `char`, and derives the
  positions `Bits` from `Hash`.
* A job is executed in one step in `Bursts`: it reads a trie nobody changes and
  writes a slot nobody else has (`SlotsOwned`).  Its inserts in the top-k table are
  interleaved in `TopK`, where a query gives its n-grams in any order, each once.
* In `QueryText` a trie is a function from the nodes to whether their n-gram is
  seen by the query; the versions that decide it are in `Bursts`.
* Words of 2^15 characters or more are left out: `Length` is a positive short.
* `freed`, `runs`, `submitted`, `stored`, `printed`, `answered`, the strings `owned`
  by an array and the `trie` of `TrieArrays` are history variables: no guard of
  the program looks at them.
* `trieDeletedPurge` is not modelled: it runs when the deleted slots are more
  than twice (`FACTOR`) the used slots they are among.
  `topK_Hashtable_split` and `move_bucket` have no live caller.
* In `TrieArrays` a `D` line is one action, both halves; the versions between
  the halves are the subject of `Bursts`.
* A query file's restriction `IsFresh` (constant `FreshUpdates`): in a burst an
  n-gram is updated once, and only n-grams that are neither stored nor left
  behind by a delete are added.  Under it, and with no collision in a Bloom
  filter, the program is the sequential service (`Careful` in `Bursts` names all
  restrictions); without them, it is not (section 5).

## 3. Runs

Twelve runs; the first seven are expected to pass.

| run | instance | shows |
|---|---|---|
| `jobscheduler` | 3 workers, 2 jobs, queue of 1 | the scheduler loses no job and no wake-up, takes none twice or outside its burst; bursts and shutdown complete; it implements `WorkPool`, fairness included |
| `bursts_service` | static and dynamic mode, 3 n-grams, 3 bursts of ≤ 2 lines | the program implements `NgramService`, when the file is `Careful`, which `MCService` has TLC confirm; bursts end |
| `bursts_free` | both modes, any lines, empty n-gram, unknown letter, 2 bursts of ≤ 3 lines | ownership of strings and slots, order of versions, soundness of answers, shape of the trie, and that nothing a query reads moves while it may run |
| `query_text` | lines of ≤ 4 letters and spaces with and without a newline, texts of ≤ 4 words, tries of 5 nodes, vector of 1, buffers of 3, filter of 2 bytes | words, filter and buffers: the bytes of an answer are those of the n-grams the search finds, the buffers hold them, the filter loses only what it covers, every search ends |
| `topk_safety` | 3 workers, 3 queries, 3 n-grams in 2 buckets of 1, ≤ 5 inserts, k ≤ 3, symmetry | exact counts, sorted buckets used by one worker at a time, strings freed once; the table implements `AnswerRanking` |
| `compact_trie` | 3 words, 8 n-grams, arrays of 1 slot, 1 bucket | arrays, hash table and compacted nodes represent the trie; no string is leaked or freed twice |
| `unit_tests` | the tests' 6 n-grams and 13 words, 2 buckets | the tests' expectations, for every order of adds and deletes |
| `bursts_readd`, `bursts_replace`, `bursts_stale`, `bursts_collision`, `topk_records` | | expected violations, section 5 |

Why these bounds.  With a queue, query buffer, bucket or array that begins with
one place, two or three elements make every growth happen, some twice; the code
treats larger sizes alike.  Two jobs for three workers leave a worker without a
job in every burst and make one or two bursts, the second with what the first
left behind; the proofs cover every other number.  Two
bursts with three lines are the shortest executions in which an update stands
before, between and after queries and a later burst sees what an earlier one
left; three bursts are needed for delete – add again – query.  The n-grams `a`,
`a b` and `b` have a node that is a prefix, a leaf and a branch of its own.  In
`compact_trie`, words 1 and 2 share a bucket until the table has four, and 1,
the smaller, moves away: its deleted copy stays in front of a live child; node 1
needs room for three children and has a grandchild, so deletes remove chains of
three, stop at a node that is final and reuse slots under another word (each was
seen to happen by asking TLC for it); the words have three lengths, so a wrong
offset leads into another word.  In `topk_safety` two n-grams share a
bucket and one does not, so inserts meet in a bucket, race across buckets, and
the printing merges.  In `query_text` both buffers grow up to three times, a word
fits exactly or is one too long, three words make runs that begin in one
another, and the hash values set the sign bit of a byte and let two n-grams cover
a third.

Deadlock checking is on in every run; ended executions stutter (`Terminated`,
`Ended`, `OnlySearches`, `Answered`).  So a mutex of `TopK` that is never released, or a
worker nobody wakes, also shows as a deadlock.

Fairness.  In `JobScheduler` a thread that can go on does (weak fairness per
action) and one that keeps asking for `queue_mutex` gets it in the end (strong
fairness: others may hold it in between, and `pthread_cond_wait` may wake up
spuriously for ever).  Both are what a POSIX scheduler gives runnable threads.
Nothing makes the main thread submit, release or shut down, which depend on the
input.  In `Bursts` the main thread goes on with a burst once it has begun and
the pool with its jobs, the latter being what `jobscheduler` shows.  In
`QueryText` the one worker that executes the query goes on (weak fairness of
`Next`).

## 4. What is proved

Six components are proved about, each from assumptions on its constants that
its module names and TLC evaluates in the runs.

**The scheduler.**  `JobScheduler_proofs` proves, for every finite non-empty set of workers, every
set of jobs and every initial capacity (`SchedulerAssumption`), that `Spec`
implies always `TypeOK`, `QueueAccounting`, `BarrierIsolation`, `ExactlyOnce`
and `NoLostWakeup`.

None of them is inductive.  `SchedulerInv` adds
who holds the mutex (`MutexInv`: a worker at `check` or `count`, the main thread
at `test`), what the main thread's phase says about `end`, `kill` and `current`
(`PhaseInv`), who may be blocked and when (`BlockedInv`), that the jobs of the
queue are distinct and submitted (`QueueInv`), and which of them were executed
or are in somebody's hands (`RunsInv`).  The argument:

1. `counter + |InFlight| = start`: taking a job moves a worker into `InFlight`
   as `start` grows, counting moves it out as `counter` grows.
2. At the barrier's exit `counter >= end`, and `start <= end`, so nobody is in
   flight and all jobs were taken; hence all were executed, and until the next
   release nobody can take one (`start = end = 0`).
3. A job below `start` is executed or held by exactly one worker, one above is
   untouched; positions are distinct, so nothing runs twice.
4. `execute_all_jobs` publishes `end` and signals under the mutex; a worker
   blocks only while it holds the mutex and finds `end = start`.  So whenever
   jobs are waiting, some worker is not blocked; the same holds for the main
   thread and `counter < end`.

Each group has a lemma for the steps, with one case per action.  The wake-up
signals are modelled with `Cardinality`, so the proofs use the library's facts
on finite sets.

It also proves from the same invariant that `Spec` implies
`ImplementsPool`: the scheduler implements `WorkPool` under the mapping `Pool`
(phase from `kill` and the main thread's position, batch, begun and finished
from `queue`, `current`, `start` and `runs`).  Six actions are steps of the
pool: `SubmitJob` collects, `ExecuteAll` releases, `WorkerTake` begins,
`WorkerRun` finishes, `BarrierReset` completes, `Kill` closes; every other
action stutters.  Point 2 of the argument is what makes `BarrierReset` a
`Complete`, point 3 what makes `WorkerTake` and `WorkerRun` act on a new job.

**The trie.**  `VersionedTrie_proofs` has lemmas about the operators of
`VersionedTrie`, for every alphabet and trie.  A trie is well formed (`IsTrie`) when every node's prefixes are
nodes, every branch ends in an n-gram, and versions lie between `NoVersion` and
`current_version`.

1. Folds.  The program's loops are folds of the community modules, defined by a
   recursive function on sets of positions.  `FoldExists` shows that the function
   exists, `FoldRuns` that its values on `1..k` are a run: the first is the base,
   each next one the step of the one before.  Both are inductions on a number,
   from `SetInduction`, a form without operator parameters.
2. `InsertNodes`, `FakeDeleteNodes`, `CutIsUpwards` and `DeleteIsTrie`: an insert
   adds the nodes on one path and makes the last final; a delete takes away
   exactly one n-gram and the nodes that then lead nowhere (`trieDeleteNgram` stops at
   the first node that is final or has another child, and what lies below is no
   longer a node); both keep `IsTrie`.  `InsertsAreTrie` is this for an init file.
3. `SearchNgramRuns`, `ScanRuns`: a search is a run along the starts of the text,
   each a run along the nodes of its walk.  `ScanAnswers`: it finds only n-grams
   of the text that it may see, each once, and their positions in the filter.

**The arrays.**  `TrieArrays_proofs` proves from `ArraysAssumption` - any words and
hash keys, any initial number of buckets and sizes of arrays, any n-grams and
versions - that `Spec` implies always `TypeOK`, `RepresentsTrie`,
`ArraysInOrder`, `BinarySearchFinds`, `NoFreedArrayRead`, `TableAccounting` and
`NothingLeaked`.
The inductive invariant, `ArraysInv`, is that there is a node of the arrays for
every path of the trie (a function `N`, in `TableFits`) with these relations:

| relation | says |
|---|---|
| `Tidy` | a node has an array with its counters right, words of the slots in order, no mark beyond them; it owns a string for each of its slots, and what is in a deleted slot has neither array nor strings (`Emptied`) |
| `Tight` | the last slot of a node that is not a bucket is not deleted: such an array has no slot when it has no child, so nothing can be found in a node to be freed |
| `ChildrenFit` | the live children of a node are the nodes of the trie below it; those of a bucket, the ones whose words the hash functions send there (`Home`) |
| `BucketFits` | and a deleted slot of a bucket, where a word of that bucket can be found, has no children and no n-gram; a copy left by a split has a word of another bucket |
| `Counts` | `p`, `round`, buckets and allocation agree; once `p` has moved, both halves of the round are allocated |

1. Arithmetic of the rounds (`HashRounds`): a word's next bucket is its present one
   or that plus the width.  Division is not among what the provers know, so
   `OneRemainder` and `TwiceAsMany` derive it from products.
2. The binary search returns the place of a word in any array in order
   (`SearchTurn`, `SearchPlace`).  The loop is a recursive function on pairs; that it
   exists is an induction on the length of the interval.
3. One node: what `AddChild`, `SetChild`, `Grown`, `Trimmed` and a deleted mark do
   to the sets of its live children (`Kids`) and of what its deleted slots hold
   (`Dead`): `Adds`, `Sets`, `Marks`, `Roomy`, `Trims`.  A slot may be used
   again for another word only where that word belongs, or order would break.
4. The nodes along an n-gram: going down (`StandsAlong`), each is the trie's node or
   a new one; going up (`ExtendedUp`, `AllLeft`), each holds the one below, and in a
   delete is gone just if the trie's node is `Cut`, which is decided level by level
   (`CutTops`, `DanglingIs`).  All other nodes stay as they are (`Rebuilt`).
   `ExtendedFits` and `WithoutFits` put this together for insert, fake delete and
   delete.
5. A split, child by child (`SplitTurn`): the children passed are in their new
   buckets, in order, and copies of those that moved are marked (`InSplit`).
   `SplitFits`: after it each bucket has the children of its `Home`.
6. What a search finds is the trie's node (`FoundIs`); a delete, which does not look
   at the mark of a root's child, may also find an empty slot.
7. The strings (`NothingLeaked`): an array's count of strings and its count of
   slots change together.  A slot used again and a slot given back were deleted, so
   nothing was owned below them (`NothingBelow`); the last node of an n-gram is
   freed only when it has no slot left (`FreedIsEmptied`); a split gives the copy it
   leaves a string of its own (`LeftBehindIs`).  Since the live children of a node
   that a search comes to are such nodes too (`KidsFound`), the walk of `trieFree`
   comes to all nodes and frees each string once.

**The bursts.**  `Bursts_proofs` proves from `BurstsAssumption` - any words,
n-grams, texts and init files, any capacity, lines with any letters, any
Bloom filter - all invariants of the run `bursts_free` and its action property.
The inductive invariant comes in groups, each proved from those before it:

| invariant | says | gives |
|---|---|---|
| `Flow` | where `processBurst` is in `jobs`; the pool has exactly the queries of the lines passed, and has begun none outside the barrier | `NothingMovesUnderAQuery`: the steps that touch trie, jobs or buffers have `pc` outside `wait`, where nobody is in a job |
| `FreedInStep` | whose n-gram is freed at each place | `FreedOnce` |
| `Slots` | the queries have different slots, `0..id - 1`, and the buffer has room for them before the pool is released; finished ones have written theirs | `SlotsOwned` |
| `Versions` | the trie is an `IsTrie` with the n-grams of the burst before and of the `A` lines passed; a query's version is at most `current_version`, and below it after its run of queries | `BranchesEnd` |
| `Order` | the version of an update is greater than those of the queries before it in the burst, and not greater than those of the queries after it | `VersionsOrder`, and with `ScanAnswers` and the release `AnswersSound` |
| `Counters` | a version per line at most; a count is at most the jobs finished | the bounds in `TypeOK` |

`Flow` is needed by all: without the phase of the pool nothing says that a job
begun has a slot and a version.  `Versions` has to speak of a run of queries that
has not ended, whose version is still `current_version`: only the line after it
(or the end of the burst) moves the version on.

**The service.**  `Bursts_refinement` proves, in `Serves`, that `Spec` implies
`ImplementsService`, for every query file that is `Careful`: a file of the letters
A, D, Q (Q if static) that keeps to `IsFresh`, without empty n-grams, and texts no
n-gram of which is hidden in the Bloom filter by the others (`NoCollision`).
Section 5 has executions without `IsFresh` and without `NoCollision` in which the
program is not the service; `MCService` assumes `Careful`, so TLC confirms that
the instance of the run has it.  `Sequentially` states the same
of a burst: what it prints and what it stores are those of its lines executed in
order (`QueriesSequential`, `StoreSequential`); `Answerable`, that the next burst
can find what is stored.  The argument:

1. `ScanMatches`: the search, which goes through nodes and asks a Bloom filter,
   gives the same sequence as the service's `Answer`, which goes through all pieces
   of the text and asks the answer so far.  The walk stops where no node is, and
   since prefixes of nodes are nodes, no n-gram lies beyond (`NothingBeyond`); the
   filter has the positions of the answer and no others, so it has those of a piece
   just if the piece is in the answer.
2. The invariant `Refining`.  `Lawful`: lines of a burst update an n-gram once and add
   no stored one.  `Clean`: of the n-grams in the trie those have a `D_version` that
   a `D` line passed deletes, and a node that a later `A` line will use has none.  `Old`:
   stored n-grams are older than the queries.  `Leaving`: at the end of a burst the
   n-grams of the `D` lines leave one by one.  `InOrder`: slots follow the queries' order.
   `AnswersRight` and `CountsRight`: a finished query's slot has the service's
   answer, and `appearances` counts the slots written.
3. `VersionsTell` is the heart of it: during the barrier the trie holds all of the
   burst's updates, yet an n-gram is visible to the query of line k just if it is in
   `StoreAt(k)`, the n-grams stored if lines are executed one by one.  By `Order`
   a version tells whether its update is before or after k; `Lawful` and `Clean`
   make each version the mark of at most one line; `Old` covers the rest.
4. `AsExecutedOneByOne`: the service's fold over the lines passes through
   `StoreAt(k)` and the answers in slot order, by induction on k (`LineFollows`).
   Hence the last step of a burst is the service's `EndOfBurst` (`BurstFollows`),
   a line read is `Receive`, and all else stutters (`NextServes`).

**The bytes of a query.**  `QueryText_proofs` proves from `QueryTextAssumption`
(lines over any set of characters, any capacities a `malloc` of the program could
begin with; the buffers with at least 3, for `"-1"` and its end) that `Spec`
implies always `TypeOK` and `BuffersHold`, for words of every length.
The invariant `TextInv` adds to them `InStep`, how the places of the walk and the buffer go
together: an n-gram is only appended when a word was copied, so the last space
that becomes `|` is there; a word is copied only while `i` is at a word.  A
copied word leaves the buffer one byte short of full because `TooLong` asks for
the space and the `'\0'`; an n-gram is appended only after `NoRoom` is false.

Three more invariants, each inductive next to `TextInv`, give the other properties,
for any hash function and any set of tries (each a function to BOOLEAN from
n-grams that have hash values):

1. `SplitsInWords` (`WordsFound`), from `Splitting`: the words are the runs of letters
   that end before `e`, and since `s` there is no separator.  In `OneRun` a
   separator ends the run from `s + 1`, no other one, and it begins after all others.
2. `AnswerIsSearch` (`SearchIsScan`), from `Finding` and `Spelling`.  `Finding`: the
   answers and the positions set in the filter are those of the folds of
   `VersionedTrie` after the words before `start` and the nodes from `start` to `i`
   (`FoundAt`).  It rests on `AskedBloom`: a loop of `findInBloom`, with its signed
   bytes, sets the positions `Bits` of the n-gram and tells whether all were set.
   `Spelling`: the buffer is the words from `start` to `round - 1` with their spaces,
   the answer the n-grams with their `|` (`SpacedNext`, `BarredNext`), although
   words are only added when `i` comes to an n-gram.
3. `LosesOnlyCovered` (`OnlyCoveredLost`), from `Covering`: of the n-grams passed
   (`Passed`), those not answered had their positions set by answers given sooner.
   An n-gram with a position that is not set was not passed before, so all
   answers are sooner than it, which gives order and uniqueness.

What `FlattenSeq` and `FoldLeft` compute is proved step by step along the sequence
(`FlattenIsFlat`, and `ScanRuns` of `VersionedTrie_proofs`).

**The top-k table.**  `TopK_proofs` and `TopK_refinement` prove from
`TopKAssumption`, for any finite set of workers and any sets of queries, n-grams and
buckets:

1. `BucketsNotShared`, from `OwnersInv`: a worker outside `idle` has a query that
   is begun and not finished, and nobody else's (`JobsOwned`, from the pool's
   promise); so none has one when the barrier opens and the main thread goes
   through the table without a lock; a worker in a bucket owns its mutex
   (`MutexHeld`).
2. `BucketsSorted`, from `BucketsInv`: an entry whose count grew passes the
   smaller counts and then the equal counts with greater n-grams (`Climbs`,
   `Moves`), which puts it where it belongs in a bucket that was sorted
   (`Recounts`, `Adds`).
3. `CountsExact`: an insert is on its way or in the count, since a step in a
   bucket changes the entry of one n-gram only (`ReachCounts`).
4. `Refinement`, `Spec` implies `ImplementsRanking`, from `TableInv` (the above with
   `RankInv`).  At the barrier nobody is on the way, so the counts are the
   answers (`BarrierRanks`), and `Records`, although increments may be lost, is
   positive when an entry exists (`RecordsInv`), which is all that the test before
   `"Top: "` asks.
   While printing, the entries left are the n-grams not yet printed, with their
   counts; in sorted buckets the best of the first entries is the best of all
   (`BestOfAll`).  `Insert` is an `Answer`, `BeginPrint` the `EndAnswers`,
   `PrintNext` a `NameBest`, `CreateTable` the `NextBurst`; all else stutters.
   Both know of the line that is printed whether it is begun and ended: only the
   k-th n-gram ends it.
5. `StringsFreed` (`Strings`), from `StringsInv`: of each n-gram the strings answered
   are those freed, those on their way with a worker, and one if the table has
   the n-gram, which it has in one place at most (`HeldOnce`).
6. `TypeOK` (`Types`), which needs the lengths of the buckets against their
   capacities, which grow one insert at a time (`CapacityStep`).

Only model-checked: liveness, that is `BurstServed`, the ends of searches and the
fairness part of the implementation of `WorkPool` (fairness and `ENABLED` are out
of the prover's reach); and what `CompactTrie` and `UnitTests` add to `TrieArrays`
(`CompactSearchesTrie`, `FoundAsExpected`, `CompactConfirmed`), which walk nested
nodes with recursive operators.

## 5. Where the program departs from its documents

The assignment (`src/Part 1 - … .pdf`) asks on page 5 that a job of a burst not
be affected by later ones, and describes on page 6 what A, D and Q do.

* `bursts_readd`: adding a stored n-gram again overwrites `A_version`
  (`trieStructs.c:212`); earlier queries of the burst miss it.  With `a` and
  `a b` stored, `Q a b a`, `A a`, `F` answers `a b`.  Likewise a second `D`
  overwrites `D_version` (`:405`), and a query between the two finds the n-gram;
  the run has no `D` lines, so it does not show this one.
* `bursts_replace`: the `D` lines of a burst are carried out after its `A` lines
  (`bursts.c:89`), so `D a`, `A a` ends without `a`.
* `bursts_stale`: a node kept for its children keeps the `D_version` of the
  deletion when it is made final again (`trieStructs.c:213`), so the n-gram is
  stored but never answered.
* `bursts_collision`: an n-gram whose Bloom filter bits are covered is left out.
* `topk_records`: `Records++` (`topK_Hashtable.c:120`, `:164`) is not protected
  by one mutex, so the field is not "number of records in the hashtable"
  (`topK_Hashtable.h:31`).  It is only compared with 0, which
  `ImplementsRanking` shows to be harmless (`RecordsInv` in the proof).

What the assignment says nothing of is modelled as the code has it.  When fewer than
k n-grams were answered the line of the top k ends in `|`, without a newline
(`topK_Hashtable.c:260`), so the next burst's first answer follows in the same line.
`topK_Hashtable_Destroy` destroys the mutex of a bucket once for each of its entries,
so never, once or more often (`:287`); the table is gone after it.  A last line of a
file that ends without a newline loses its last word (`ngram.c:26`).

## 6. Not modelled

* The arithmetic of murmurhash and of the root's hash key: parameters.
* Words of more characters than a short holds, n-grams with bytes over 127 in the
  top-k table (negative keys), more than 2^31 runs of queries.
* Code that cannot run: `trieDeletedPurge` (it asks for more than twice as many
  deleted slots as slots), `topK_Hashtable_split`, `topK_Hashtable_move_bucket` and
  `topK_Hashtable_Check_LoadFactor` (no live caller).
* The stack of `stack.c` is the recursion of the operators that stand for the loops
  using it; its growth is not modelled.  `trieFree` appears as the strings its walk
  would free (`Freeing`, `NothingLeaked`) and as the end of a unit test.
* Error messages, exits on a failed allocation, printing for debugging, opening
  files: no state.
* `checkSearch` of the unit tests, which returns 0 whatever it is given;
  `testSearch` and `testDelete`, which nothing calls, are modelled by what they
  compare.

Each hazard of these that no property covers is listed with its reason in
`PROJECT.json`.  Two facts of the tests show in `UnitTests`: `confirmExistence`
looks for an n-gram only in the bucket of its unsplit hash, and
`ConfirmCompactExistence` counts the words of a compacted node as those of the
n-gram, so it is right for chains that begin at the root's children; both hold for
the tests' n-grams.  A line whose letter is not A, D, Q or F makes
`processBurst` loop for ever (`bursts.c:72`): `ProcessUnknown` models it, and
the run with liveness has no such line.

## 7. Plan

Done: the modules above, in the order of the table, each run before its proof.
What is left needs induction over nested nodes, which the prover does not have: a
proof about `CompactTrie` would begin by giving its nodes paths, as
`TrieArrays_proofs` does for those of `TrieArrays`.
