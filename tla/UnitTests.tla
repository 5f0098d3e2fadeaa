------------------------------ MODULE UnitTests ------------------------------
(***************************************************************************)
(* UnitTesting/unit_testing.c on the tries of TrieArrays and CompactTrie.  *)
(* testInsert looks for the n-gram it just added, testDelete adds six      *)
(* n-grams and deletes them, TestCompactTree compacts the trie that holds  *)
(* them.  The tests fix one order; here the n-grams are added and deleted  *)
(* in any order, and all of those added are looked for.                    *)
(*                                                                         *)
(* testSearch and testDelete are never called: the search in their helper  *)
(* checkSearch is a comment, and it returns 0.  What they expect of a      *)
(* search is checked here.  The tests' arrays do not grow and their hash   *)
(* table does not split: 800 buckets and arrays of 10 are more than enough *)
(* for six n-grams.                                                        *)
(***************************************************************************)
EXTENDS CompactTrie

\* The words of the tests, as strcmp orders them, and a text as the numbers of
\* its words.
Vocabulary == <<"a", "and", "bad", "blue", "car", "cat", "dog", "fox", "is",
                "red", "test", "the", "this">>
CreateNgram(text) ==
  [i \in DOMAIN text |->
     CHOOSE w \in DOMAIN Vocabulary : Vocabulary[w] = text[i]]

\* testCreateTestCase, and the order in which testDelete deletes.
TestCase == <<CreateNgram(<<"this", "is", "a", "dog">>),
              CreateNgram(<<"this", "is", "a", "cat">>),
              CreateNgram(<<"the", "fox", "is", "bad">>),
              CreateNgram(<<"the", "car", "is", "red">>),
              CreateNgram(<<"this", "is", "a", "test">>),
              CreateNgram(<<"this", "is", "a">>)>>

VARIABLES
  added,  \* the n-grams of the test case added since trieRootInit
  gone    \* and those deleted

testVars == <<vars, added, gone>>

\* TRIE_TYPE is a global that the tests do not set.
TestInit ==
  /\ CompactInit /\ TRIE_TYPE = "static"
  /\ added = {} /\ gone = {}

InsertOne(ngram) ==
  /\ compact = <<>> /\ gone = {} /\ ngram \notin added
  /\ Insert(ngram, 0)
  /\ added' = added \union {ngram}
  /\ UNCHANGED <<compact, gone>>

\* trieDeleteNgram alone, and in the static mode too.
DeleteOne(ngram) ==
  /\ compact = <<>> /\ added = Range(TestCase) /\ ngram \notin gone
  /\ hashtable' = Deleted(hashtable, ngram)
  /\ trie' = TrieDelete(trie, ngram)
  /\ gone' = gone \union {ngram}
  /\ UNCHANGED <<TRIE_TYPE, compact, added>>

CompactCase ==
  /\ added = Range(TestCase) /\ gone = {}
  /\ TrieCompactTree
  /\ UNCHANGED <<added, gone>>

\* trieFree at the end of a test, and trieRootInit for the next one.
NextTest ==
  /\ compact # <<>> \/ gone = added
  /\ hashtable' = EmptyTable /\ trie' = EmptyTrie /\ compact' = <<>>
  /\ added' = {} /\ gone' = {}
  /\ UNCHANGED TRIE_TYPE

TestNext ==
  \/ \E ngram \in Range(TestCase) : InsertOne(ngram) \/ DeleteOne(ngram)
  \/ CompactCase
  \/ NextTest

TestSpec == TestInit /\ [][TestNext]_testVars

-----------------------------------------------------------------------------
(***************************************************************************)
(* What the tests look at.                                                 *)
(***************************************************************************)

\* confirmExistence: from the bucket of the first round, by binary search alone.
ConfirmExistence(ngram) ==
  LET bucket == hashtable.Phashtable[Hash_function(ngram[1], 0)]
  IN  Walked(bucket, ngram, Len(ngram) + 1).found

\* The text of testSearch.
SearchedText == CreateNgram(<<"the", "car", "is", "red", "and", "blue", "and",
                              "this", "is", "a", "test">>)

\* The n-grams a search of the text finds in the arrays.
FoundIn(text) ==
  {p \in UNION {Prefixes(SubSeq(text, i, Len(text))) : i \in DOMAIN text} :
     p # <<>> /\ Searched(p).found /\ Searched(p).node.is_final}

\* ConfirmCompactExistence, from the children of a node and word i on.  Its
\* inner loop counts the words of a node as those of the n-gram: it is made for
\* n-grams that the node of their first word holds as a whole.
RECURSIVE ConfirmCompactFrom(_, _, _)
ConfirmCompactFrom(children, ngram, i) ==
  i <= Len(ngram) =>
    \E node \in children :
      LET n == Len(node.offsets)
          ways == [x \in 1..n |-> Way(node.offsets[x])]
          at(k) == SumFunctionOnSet(ways, i..(k - 1))
      IN  /\ node.words[1] = ngram[i]
          /\ \A k \in i..n : \E x \in DOMAIN node.words :
               Begins(node, x) = at(k) /\ node.words[x] = ngram[k]
          /\ ConfirmCompactFrom(node.children, ngram,
                                IF n = 0 THEN i + 1 ELSE Max({i, n + 1}))

-----------------------------------------------------------------------------
(***************************************************************************)
(* Properties.                                                             *)
(***************************************************************************)

\* testInsert: an n-gram that was added is found word by word, and none that
\* comes after it hides it, in whatever order they come and go.  testSearch: all
\* six added, a search finds three in its text.  testDelete: at each step a
\* search finds of the n-gram just deleted only those it begins with.
FoundAsExpected ==
  /\ \A ngram \in added \ gone : ConfirmExistence(ngram)
  /\ added = Range(TestCase) /\ gone = {} =>
       Cardinality(FoundIn(SearchedText)) = 3
  /\ \A i \in 1..6 : gone = {TestCase[j] : j \in 1..i} =>
       Cardinality(FoundIn(TestCase[i])) = <<1, 1, 0, 0, 1, 0>>[i]

\* TestCompactTree: in the compacted trie the words of "this is a" (its strlen
\* leaves out "dog") are where the lengths in the offsets say.
CompactConfirmed ==
  compact # <<>> =>
    LET ngram == CreateNgram(<<"this", "is", "a">>)
    IN  ConfirmCompactFrom(compact[Hash_function(ngram[1], 0)], ngram, 1)
=============================================================================
