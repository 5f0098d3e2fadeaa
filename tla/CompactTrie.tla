----------------------------- MODULE CompactTrie -----------------------------
(***************************************************************************)
(* CompactTrie/compactTree.c: in the static mode, once the init file is    *)
(* read, each chain of nodes with one child becomes one node that holds    *)
(* the words of the chain, and the searches go through these nodes.        *)
(*                                                                         *)
(* A compacted node has words, one after the other in node->word, each     *)
(* with its '\0', and for each of them an offset: the length of the word,  *)
(* negative when an n-gram ends with it.  A node that was not compacted    *)
(* has no offsets.                                                         *)
(***************************************************************************)
EXTENDS TrieArrays

CONSTANTS
  Length,   \* the number of characters of each word
  Texts     \* the texts of the queries

\* An offset is a short.
ASSUME LengthAssumption == Length \in [Words -> 1..(2^15 - 1)]

VARIABLE compact  \* the buckets after trieCompactTree, <<>> before it

vars == <<arrayVars, compact>>

\* From a node down while there is one child (one slot: deletes do not happen
\* in the static mode).
RECURSIVE Chain(_)
Chain(node) ==
  <<node>> \o IF Size(node) = 1 THEN Chain(node.children[0]) ELSE <<>>

\* Mutant of Offset: the end of the word is counted too.
OffsetWithEnd(node) ==
  IF node.is_final THEN -Length[node.word] - 1 ELSE Length[node.word] + 1

Offset(node) == IF node.is_final THEN -Length[node.word] ELSE Length[node.word]

\* trieCompactRoot.  The children are those of the last node of the chain.
RECURSIVE Compacted(_)
Compacted(node) ==
  LET chain == Chain(node)
      last == Last(chain)
  IN  [words |-> [i \in DOMAIN chain |-> chain[i].word],
       offsets |-> IF Len(chain) = 1 THEN <<>>
                   ELSE [i \in DOMAIN chain |-> Offset(chain[i])],
       is_final |-> node.is_final,
       children |-> {Compacted(last.children[i]) : i \in Slots(last)}]

\* trieCompactTree, after readInputFile.  What is marked deleted in a bucket is
\* left alone.
TrieCompactTree ==
  /\ TRIE_TYPE = "static" /\ compact = <<>>
  /\ compact' = [b \in BucketIds |->
       LET bucket == hashtable.Phashtable[b]
       IN  {IF i \in Live(bucket) THEN Compacted(bucket.children[i])
            ELSE [words |-> <<bucket.children[i].word>>, offsets |-> <<>>,
                  is_final |-> bucket.children[i].is_final, children |-> {}] :
              i \in Slots(bucket)}]
  /\ UNCHANGED arrayVars

CompactInit == Init /\ compact = <<>>

\* A compacted trie does not change any more.
OnlySearches == compact # <<>> /\ UNCHANGED vars

CompactNext ==
  \/ compact = <<>> /\ Next /\ UNCHANGED compact
  \/ TrieCompactTree
  \/ OnlySearches

CompactSpec == CompactInit /\ [][CompactNext]_vars

\* Where the j-th word of a node begins in node->word.
Begins(node, j) == SumFunctionOnSet([x \in DOMAIN node.words |-> Length[node.words[x]] + 1],
                                    1..(j - 1))

\* Mutant of Way: the end of the word is not stepped over.
WayShort(offset) == IF offset < 0 THEN -offset ELSE offset

\* How far the search moves on in node->word.
Way(offset) == (IF offset < 0 THEN -offset ELSE offset) + 1

\* Where the search looks for the j-th word: it knows the offsets only.
Looked(node, j) ==
  IF node.offsets = <<>> THEN 0
  ELSE SumFunctionOnSet([x \in DOMAIN node.offsets |-> Way(node.offsets[x])], 1..(j - 1))

\* strcmp of the word of the text with what begins there.
SameWord(node, j, word) ==
  \E x \in DOMAIN node.words : Begins(node, x) = Looked(node, j) /\ node.words[x] = word

\* How many words of a node the text has from word i on.
Found(node, text, i) ==
  Max({n \in 0..Len(node.words) :
         \A j \in 1..n : i + j - 1 <= Len(text) /\ SameWord(node, j, text[i + j - 1])})

\* trieSearch_Ngram_Static, from the children of a node and word i of the text:
\* the words of the text where an n-gram ends.
RECURSIVE Ends(_, _, _)
Ends(children, text, i) ==
  LET next == {node \in children : i <= Len(text) /\ node.words[1] = text[i]}
  IN  IF next = {} THEN <<>>
      ELSE LET node == CHOOSE c \in next : TRUE
               n == Found(node, text, i)
               final(x) == IF node.offsets = <<>> THEN node.is_final
                                                  ELSE node.offsets[x] < 0
           IN  SelectSeq([x \in 1..n |-> i + x - 1], LAMBDA e : final(e - i + 1))
                 \o IF n = Len(node.words) THEN Ends(node.children, text, i + n)
                                           ELSE <<>>

\* The search of compacted nodes comes to the n-grams of the trie, in order:
\* none is lost in a chain, whose words are found by the lengths packed with
\* their signs, and a chain is left where the text leaves it.  The static bursts
\* of module Bursts rely on it.
CompactSearchesTrie ==
  compact # <<>> =>
    \A text \in Texts : \A i \in DOMAIN text :
      LET ends == Ends(compact[Destination(hashtable, text[i])], text, i)
      IN  [x \in DOMAIN ends |-> SubSeq(text, i, ends[x])]
            = SelectSeq(Walk(trie, text, i), LAMBDA p : trie[p].is_final)
=============================================================================
