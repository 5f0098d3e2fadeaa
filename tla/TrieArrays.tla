------------------------------ MODULE TrieArrays ------------------------------
(***************************************************************************)
(* trieStructs.c and Hashtable/Hashtable.c with their arrays: a node keeps *)
(* its children sorted in an array that doubles, where a deleted child     *)
(* stays as a slot that may be used again; the children of the root are    *)
(* such arrays too, the buckets of a hash table that grows by splitting    *)
(* one bucket at a time.                                                   *)
(*                                                                         *)
(* A node is a record with the fields of struct trieNode; freed tells that *)
(* children points nowhere (NULL, or an array given to free), and owned is *)
(* a history: the strings given to the slots of its array, less those      *)
(* freed.  Words are numbers, ordered as strcmp orders them.               *)
(* trieDeletedPurge is left out: it asks for more than FACTOR = 2 times as *)
(* many deleted slots as slots.                                            *)
(***************************************************************************)
EXTENDS VersionedTrie

CONSTANTS
  Words,       \* a set of positive numbers
  Hashkey,     \* the hash key of each word
  m,           \* initial number of buckets
  IN_SIZE,     \* initial number of slots of a bucket
  MINSIZE,     \* initial number of slots of a node
  Ngrams,      \* the n-grams of init file and update lines
  Versions     \* the values of current_version

ASSUME ArraysAssumption ==
  /\ Words \subseteq Nat \ {0} /\ Hashkey \in [Words -> Nat]
  /\ {m, IN_SIZE, MINSIZE} \subseteq Nat \ {0}
  /\ Ngrams \subseteq Seq(Words) /\ Versions \subseteq Nat

VARIABLES
  TRIE_TYPE,   \* "static" or "dynamic"
  hashtable,   \* struct hashtable_info, and the number of buckets allocated
  trie         \* history: what VersionedTrie says of the same operations

arrayVars == <<TRIE_TYPE, hashtable, trie>>

-----------------------------------------------------------------------------
(***************************************************************************)
(* A node and its array of children.                                       *)
(***************************************************************************)

\* A slot of memory set to zero.
Zero == [word |-> 0, deleted |-> FALSE, is_final |-> FALSE,
         A_version |-> NoVersion, D_version |-> NoVersion, children |-> <<>>,
         freed |-> TRUE, emptySpace |-> 0, maxChildren |-> 0,
         deletedChildren |-> 0, owned |-> 0]

WithArray(node, size) ==
  [node EXCEPT !.children = [i \in 0..(size - 1) |-> Zero], !.freed = FALSE,
               !.emptySpace = size, !.maxChildren = size]

NodeInit(word) == WithArray([Zero EXCEPT !.word = word], MINSIZE)
InitBucket == WithArray(Zero, IN_SIZE)

Size(node) == node.maxChildren - node.emptySpace
Slots(node) == 0..(Size(node) - 1)
Live(node) == {i \in Slots(node) : ~node.children[i].deleted}

\* No child is left, as the code tells.
NoneLeft(node) == node.emptySpace + node.deletedChildren >= node.maxChildren

\* Mutant of LastSlot: the last child is not looked at.
LastSlotButOne(node) == IF Size(node) = 0 THEN -1 ELSE Size(node) - 2

LastSlot(node) == Size(node) - 1

BinarySearch(node, word) ==
  LET search[range \in (0..Size(node)) \X (-1..(Size(node) - 1))] ==
        LET fst == range[1]
            lst == range[2]
            middle == (fst + lst) \div 2
            at == node.children[middle].word
        IN  IF fst > lst THEN [position |-> fst, found |-> FALSE]
            ELSE IF at = word THEN [position |-> middle, found |-> TRUE]
            ELSE IF at < word THEN search[<<middle + 1, lst>>]
            ELSE search[<<fst, middle - 1>>]
  IN  search[<<0, LastSlot(node)>>]

Child(node, word) == node.children[BinarySearch(node, word).position]
SetChild(node, word, child) ==
  [node EXCEPT !.children[BinarySearch(node, word).position] = child]

\* The array doubles; the new slots are zero.
Grown(node) ==
  [node EXCEPT !.children = [i \in 0..(2 * node.maxChildren - 1) |->
                               IF i \in DOMAIN @ THEN @[i] ELSE Zero],
               !.emptySpace = @ + node.maxChildren,
               !.maxChildren = 2 * @]

\* memmove of the slots from position on.
Shifted(node, position) ==
  [node EXCEPT !.children = [i \in DOMAIN @ |->
                               IF i \in (position + 1)..Size(node) THEN @[i - 1]
                                                                   ELSE @[i]]]

\* The strings of arrays below these slots.
Below(node, slots) == SumFunction([i \in slots |-> node.children[i].owned])

\* Mutant of Reused: the slot is still counted as deleted.
ReusedCounted(node, at, child) ==
  [node EXCEPT !.children[at] = child, !.owned = @ + Below(node, {at})]

\* A slot used again: its string is freed for the one of the new child.
Reused(node, at, child) ==
  [node EXCEPT !.children[at] = child, !.deletedChildren = @ - 1,
               !.owned = @ + Below(node, {at})]

\* trieMakeSpace, and the child stored where it made space.  A slot marked
\* deleted where the child belongs is used again, whatever its word; otherwise
\* the later children move up by one.
AddChild(node, child) ==
  LET br == BinarySearch(node, child.word)
      at == br.position
      wide == Shifted(IF node.emptySpace = 0 THEN Grown(node) ELSE node, at)
  IN  IF br.found /\ ~node.children[at].deleted THEN node
      ELSE IF at < node.maxChildren /\ node.children[at].deleted
      THEN Reused(node, at, child)
      ELSE [wide EXCEPT !.children[at] = child, !.emptySpace = @ - 1,
                        !.owned = @ + 1]

\* The deleted slots after the last live child are given back, and their
\* strings freed.  (Only the flag of a slot given back is read again.)
Trimmed(node) ==
  LET last == Max({i + 1 : i \in Live(node)} \union {0})
      cut == Size(node) - last
  IN  [node EXCEPT !.children = [i \in DOMAIN @ |->
                                   IF i >= last THEN Zero ELSE @[i]],
                   !.emptySpace = @ + cut,
                   !.deletedChildren = @ - cut,
                   !.owned = @ - cut + Below(node, last..(Size(node) - 1))]

Freed(node) == [node EXCEPT !.children = <<>>, !.freed = TRUE]

-----------------------------------------------------------------------------
(***************************************************************************)
(* The hash table of the root.                                             *)
(***************************************************************************)

\* 2^round * m, the number of buckets when a round begins.
Width[round \in Nat] == IF round = 0 THEN m ELSE 2 * Width[round - 1]

Hash_function(word, round) == Hashkey[word] % Width[round]

\* Mutant of Destination: the buckets split in this round are forgotten.
DestinationOfRound(table, word) == Hash_function(word, table.round)

\* The bucket of a word: those before p have been split in this round.
Destination(table, word) ==
  LET b == Hash_function(word, table.round)
  IN  IF b < table.p THEN Hash_function(word, table.round + 1) ELSE b

\* Mutant of LeftBehind: the string stays that of the child that moved.
LeftBehindShared(node) == [Freed(node) EXCEPT !.deleted = TRUE, !.owned = -1]

\* What stays in the slot of a child that moved with its string and its array: a
\* copy marked deleted, with a string of its own.
LeftBehind(node) == [Freed(node) EXCEPT !.deleted = TRUE, !.owned = 0]

\* The i-th child of the bucket that is split goes to its new bucket.
Moved(table, i) ==
  LET node == table.Phashtable[table.p].children[i]
      to == Hash_function(node.word, table.round + 1)
  IN  IF node.deleted \/ to = table.p THEN table
      ELSE [table EXCEPT !.Phashtable[to] = AddChild(@, node),
                         !.Phashtable[table.p].children[i] = LeftBehind(node),
                         !.Phashtable[table.p].deletedChildren = @ + 1]

\* Hashtable_split
Split(table) ==
  LET size == Size(table.Phashtable[table.p])
      wider == [table EXCEPT
                  !.Phashtable = [b \in 0..table.Buckets |->
                     IF b < table.Buckets THEN @[b] ELSE InitBucket],
                  !.Buckets = @ + 1]
      moved[i \in 0..size] == IF i = 0 THEN wider ELSE Moved(moved[i - 1], i - 1)
      lastOfRound == table.p + 1 = Width[table.round]
  IN  [moved[size] EXCEPT !.Phashtable[table.p] = Trimmed(@),
                    !.round = IF lastOfRound THEN @ + 1 ELSE @,
                    !.p = IF lastOfRound THEN 0 ELSE @ + 1]

\* Mutant of Checked: the table is not reallocated.
CheckedInPlace(table) ==
  IF 4 * table.Records > 3 * table.Buckets * IN_SIZE THEN Split(table) ELSE table

\* Hashtable_Check_LoadFactor, with the load factor of trieRootInit: 0.75.
Checked(table) ==
  IF 4 * table.Records > 3 * table.Buckets * IN_SIZE
  THEN Split([table EXCEPT
                !.allocated = IF table.p = 0 THEN 2 * table.Buckets ELSE @])
  ELSE table

-----------------------------------------------------------------------------
(***************************************************************************)
(* The operations on n-grams.                                              *)
(***************************************************************************)
EmptyTable == [Phashtable |-> [b \in 0..(m - 1) |-> InitBucket],
               Buckets |-> m, allocated |-> m, p |-> 0, round |-> 0, Records |-> 0]

Init ==
  /\ TRIE_TYPE \in {"static", "dynamic"}
  /\ hashtable = EmptyTable
  /\ trie = EmptyTrie

\* The nodes along an n-gram from a bucket down, the missing ones added.
Along(bucket, ngram) ==
  LET down[i \in 0..Len(ngram)] ==
        IF i = 0 THEN bucket
        ELSE Child(AddChild(down[i - 1], NodeInit(ngram[i])), ngram[i])
  IN  down

\* The bucket when the last of them becomes this one.
Extended(bucket, ngram, last) ==
  LET down == Along(bucket, ngram)
      up[i \in 0..Len(ngram)] ==
        IF i = Len(ngram) THEN last
        ELSE SetChild(AddChild(down[i], NodeInit(ngram[i + 1])), ngram[i + 1],
                      up[i + 1])
  IN  up[0]

\* Is there a node at the end of these words?  The search looks at the flag
\* deleted from the first word on; trieDeleteNgram and trieFakeDeleteNgram
\* (Hashtable_lookup) from the second.
Walked(bucket, words, first) ==
  LET at[i \in 0..Len(words)] ==
        IF i = 0 THEN [found |-> TRUE, node |-> bucket]
        ELSE LET above == at[i - 1]
                 br == BinarySearch(above.node, words[i])
             IN  IF ~above.found \/ ~br.found THEN [above EXCEPT !.found = FALSE]
                 ELSE LET node == above.node.children[br.position]
                      IN  [found |-> i < first \/ ~node.deleted, node |-> node]
  IN  at[Len(words)]

BucketOf(table, words) == table.Phashtable[Destination(table, words[1])]

\* The search's way to a node, and that of the two deletes.
Searched(words) == Walked(BucketOf(hashtable, words), words, 1)
LookedUp(table, words) == Walked(BucketOf(table, words), words, 2)

IsStored(table, ngram) ==
  /\ ngram # <<>>
  /\ LookedUp(table, ngram).found /\ LookedUp(table, ngram).node.is_final

\* trieInsertSort
Insert(ngram, version) ==
  /\ LET b == Destination(hashtable, ngram[1])
         bucket == hashtable.Phashtable[b]
         last == [Along(bucket, ngram)[Len(ngram)] EXCEPT !.is_final = TRUE,
                                                          !.A_version = version]
         new == ~Searched(<<ngram[1]>>).found
     IN  hashtable' =
           IF ngram = <<>> THEN Checked(hashtable)
           ELSE Checked([hashtable EXCEPT
                  !.Phashtable[b] = Extended(bucket, ngram, last),
                  !.Records = IF new THEN @ + 1 ELSE @])
  /\ trie' = TrieInsert(trie, ngram, version)
  /\ UNCHANGED TRIE_TYPE

\* trieFakeDeleteNgram
FakeDeleted(table, ngram, version) ==
  LET bucket == BucketOf(table, ngram)
      last == [Along(bucket, ngram)[Len(ngram)] EXCEPT !.D_version = version]
  IN  IF IsStored(table, ngram)
      THEN [table EXCEPT !.Phashtable[Destination(table, ngram[1])] =
                           Extended(bucket, ngram, last)]
      ELSE table

\* Mutant of GivenBack: the deleted slots are not given back.
GivenBackNot(node, isBucket) == node

\* A bucket gives its last slots back only if a live child is left.
GivenBack(node, isBucket) ==
  IF isBucket /\ NoneLeft(node) THEN node ELSE Trimmed(node)

\* Mutant of Stays: an n-gram that ends here is forgotten.
StaysForChildren(node, isBucket) == isBucket \/ ~NoneLeft(node)

\* Does a node without this child stay?
Stays(node, isBucket) == isBucket \/ node.is_final \/ ~NoneLeft(node)

\* What becomes of a node one of whose children was just marked deleted.
Above(node, isBucket) ==
  LET left == GivenBack([node EXCEPT !.deletedChildren = @ + 1], isBucket)
  IN  IF Stays(left, isBucket)
      THEN [node |-> left, removed |-> FALSE]
      ELSE [node |-> [Freed(left) EXCEPT !.deleted = TRUE], removed |-> TRUE]

\* The last node of an n-gram, without a live child: its array is freed, and
\* first the strings of its deleted slots.
LeafFreed(node) ==
  [Freed(node) EXCEPT !.deleted = TRUE, !.owned = @ - node.deletedChildren]

\* The bucket without the n-gram: from its last node up to the first one that
\* is not removed; the count of Records follows the child of the root.
Without(bucket, ngram) ==
  LET n == Len(ngram)
      node[i \in 0..n] == IF i = 0 THEN bucket ELSE Child(node[i - 1], ngram[i])
      after[i \in 0..n] ==
        IF i = n
        THEN LET last == [node[n] EXCEPT !.is_final = FALSE]
             IN  IF NoneLeft(last)
                 THEN [node |-> LeafFreed(last), removed |-> TRUE]
                 ELSE [node |-> last, removed |-> FALSE]
        ELSE LET below == after[i + 1]
                 here == SetChild(node[i], ngram[i + 1], below.node)
             IN  IF below.removed THEN Above(here, i = 0)
                 ELSE [node |-> here, removed |-> FALSE]
  IN  [node |-> after[0].node, removed |-> after[1].removed]

\* trieDeleteNgram
Deleted(table, ngram) ==
  LET b == Destination(table, ngram[1])
      left == Without(table.Phashtable[b], ngram)
  IN  IF IsStored(table, ngram)
      THEN [table EXCEPT !.Phashtable[b] = left.node,
                         !.Records = IF left.removed THEN @ - 1 ELSE @]
      ELSE table

\* A line D: the two halves, with other lines of the burst in between, which the
\* first half does not affect.
Delete(ngram, version) ==
  /\ TRIE_TYPE = "dynamic"
  /\ hashtable' = Deleted(FakeDeleted(hashtable, ngram, version), ngram)
  /\ trie' = TrieDelete(TrieFakeDelete(trie, ngram, version), ngram)
  /\ UNCHANGED TRIE_TYPE

\* trieRecursiveFree, at the end of the program, on a node it comes to: it frees
\* the string of each slot, and goes on to the children that are not deleted.
Freeing(node) ==
  [strings |-> Size(node), next |-> {node.children[i] : i \in Live(node)}]

Next ==
  \E ngram \in Ngrams, version \in Versions :
    Insert(ngram, version) \/ Delete(ngram, version)

Spec == Init /\ [][Next]_arrayVars

-----------------------------------------------------------------------------
(***************************************************************************)
(* Properties.                                                             *)
(***************************************************************************)
BucketIds == 0..(hashtable.Buckets - 1)

\* Every node that a search can come to, and the buckets.
Paths == UNION {PathNodes(ngram) : ngram \in Ngrams}
Nodes == {hashtable.Phashtable[b] : b \in BucketIds}
           \union {Searched(p).node : p \in {q \in Paths : Searched(q).found}}

TypeOK ==
  /\ DOMAIN hashtable.Phashtable = BucketIds
  /\ \A node \in Nodes :
       /\ node.emptySpace \in 0..node.maxChildren
       /\ node.deletedChildren \in 0..Size(node)
       /\ \A i \in Slots(node) : node.children[i].word \in Words

\* What a search looks at in a node.
Shown(node) ==
  [is_final |-> node.is_final, D_version |-> node.D_version,
   A_version |-> IF node.is_final THEN node.A_version ELSE NoVersion]

\* What a search finds in the arrays is the trie of VersionedTrie: after any
\* sequence of inserts, deletes and splits no node is lost in a shift, in a
\* slot used again or in the wrong bucket, and none comes back.
RepresentsTrie ==
  [p \in {q \in Paths : Searched(q).found} |-> Shown(Searched(p).node)]
    = [p \in DOMAIN trie |-> Shown(trie[p])]

\* What binary search, reuse of slots and growth rely on: the words of the used
\* slots are in order, deleted ones too; the slots beyond are not marked
\* deleted; the counter of deleted slots is right.
ArraysInOrder ==
  \A node \in Nodes :
    /\ DOMAIN node.children = 0..(node.maxChildren - 1)
    /\ \A i, j \in Slots(node) :
         i < j => node.children[i].word < node.children[j].word
    /\ \A i \in DOMAIN node.children \ Slots(node) : ~node.children[i].deleted
    /\ node.deletedChildren = Cardinality(Slots(node) \ Live(node))

\* testBinarySearch, for every node and every word: the position is that of the
\* word, or the one where it belongs.
BinarySearchFinds ==
  \A node \in Nodes, w \in Words :
    LET br == BinarySearch(node, w)
    IN  /\ br.position =
             Cardinality({i \in Slots(node) : node.children[i].word < w})
        /\ br.found <=> \E i \in Slots(node) : node.children[i].word = w

\* Nobody reads an array that was freed: a node a search comes to has its
\* array, and a deleted child of the root, which Hashtable_lookup returns like
\* a live one, is not final and has no slot to look at.
NoFreedArrayRead ==
  /\ \A node \in Nodes : ~node.freed
  /\ \A ngram \in Ngrams \ {<<>>} :
       LET first == LookedUp(hashtable, <<ngram[1]>>)
       IN  first.found /\ first.node.deleted =>
             Size(first.node) = 0 /\ ~first.node.is_final

\* The count the load factor is computed from is that of the live children of
\* the root, and the table never has more buckets than were allocated, nor a
\* bucket number that p and round do not account for.
TableAccounting ==
  /\ hashtable.Records = Cardinality({p \in DOMAIN trie : Len(p) = 1})
  /\ hashtable.Buckets <= hashtable.allocated
  /\ hashtable.Buckets = Width[hashtable.round] + hashtable.p
  /\ hashtable.p < Width[hashtable.round]

\* trieFree, after any sequence of inserts, deletes and splits, frees each string
\* the trie holds, and once: the nodes it comes to, from the buckets on, are
\* those of the trie, it frees as many strings in each as there are, and in a
\* deleted slot, where it does not go on, no array and none of its strings is
\* left.
NothingLeaked ==
  \A node \in Nodes :
    /\ Freeing(node).next \subseteq Nodes
    /\ Freeing(node).strings = node.owned
    /\ \A i \in Slots(node) \ Live(node) :
         node.children[i].freed /\ node.children[i].owned = 0
=============================================================================
