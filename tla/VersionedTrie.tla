--------------------------- MODULE VersionedTrie ---------------------------
(***************************************************************************)
(* trieStructs.c as operators: the trie of n-grams, the versions that let  *)
(* one burst's queries run after the burst's updates, the delete that cuts *)
(* a branch back, and the search of the n-grams of a text.                 *)
(*                                                                         *)
(* A trie is a function from the paths of its live nodes (sequences of     *)
(* words, the root excluded) to their records.  A child marked deleted, or *)
(* trimmed from its parent's array, is a path that is not in the domain:   *)
(* how the arrays children keep such slots, and the hash table that holds  *)
(* the children of the root, are the subject of module TrieArrays.         *)
(***************************************************************************)
EXTENDS Integers, SequencesExt

NoVersion == -1

\* trieNodeInit, for a node that was never the end of an n-gram.  A_version is
\* not initialised; nothing reads it before is_final is set.
NewNode == [is_final |-> FALSE, A_version |-> NoVersion, D_version |-> NoVersion]

EmptyTrie == [p \in {} |-> NewNode]

\* The nodes on the way to the end of an n-gram, the last one included.
PathNodes(ngram) == Prefixes(ngram) \ {<<>>}

\* The n-grams of a trie.
Finals(trie) == {p \in DOMAIN trie : trie[p].is_final}

\* trieInsertSort: the missing nodes are added; the last one becomes final with
\* this A_version, whether or not it was final.  D_version is left alone.
TrieInsert(trie, ngram, version) ==
  [p \in DOMAIN trie \union PathNodes(ngram) |->
     LET node == IF p \in DOMAIN trie THEN trie[p] ELSE NewNode
     IN  IF p = ngram THEN [node EXCEPT !.is_final = TRUE, !.A_version = version]
                      ELSE node]

\* trieFakeDeleteNgram: an n-gram of the trie gets a D_version.
TrieFakeDelete(trie, ngram, version) ==
  IF ngram \in Finals(trie) THEN [trie EXCEPT ![ngram].D_version = version]
                            ELSE trie

-----------------------------------------------------------------------------
(***************************************************************************)
(* trieDeleteNgram.  The last node is not final any more, and from there   *)
(* up to the root a node is removed when it has no live child left; an     *)
(* ancestor that ends another n-gram stops the walk.                       *)
(***************************************************************************)
Children(trie, p) == {q \in DOMAIN trie : q # <<>> /\ Front(q) = p}

\* p would not have another child, nor be the end of another n-gram.
Dangling(trie, ngram, p) ==
  /\ Children(trie, p) \subseteq PathNodes(ngram)
  /\ p = ngram \/ ~trie[p].is_final

Cut(trie, ngram) ==
  {p \in PathNodes(ngram) :
     \A q \in PathNodes(ngram) : IsPrefix(p, q) => Dangling(trie, ngram, q)}

\* Mutant of TrieDelete: only the last node is removed, if it is a leaf.
TrieDeleteLast(trie, ngram) ==
  IF ngram \in Finals(trie)
  THEN LET cut == Cut(trie, ngram) \intersect {ngram}
       IN  [p \in DOMAIN trie \ cut |->
              IF p = ngram THEN [trie[p] EXCEPT !.is_final = FALSE] ELSE trie[p]]
  ELSE trie

TrieDelete(trie, ngram) ==
  IF ngram \in Finals(trie)
  THEN [p \in DOMAIN trie \ Cut(trie, ngram) |->
          IF p = ngram THEN [trie[p] EXCEPT !.is_final = FALSE] ELSE trie[p]]
  ELSE trie

-----------------------------------------------------------------------------
(***************************************************************************)
(* The searches.  Bits[n] is the set of positions murmurhash gives n-gram  *)
(* n in a query's Bloom filter.                                            *)
(***************************************************************************)

\* Mutant of Visible: an n-gram deleted later in the burst is already gone.
VisibleUntilDeleted(node, Q_version) ==
  node.is_final /\ node.A_version <= Q_version /\ node.D_version < 0

\* What a query of this version sees of a node (trieSearch_Ngram).
Visible(node, Q_version) ==
  /\ node.is_final
  /\ node.A_version <= Q_version
  /\ node.D_version > Q_version \/ node.D_version < 0

\* The pieces of a text: n-grams of consecutive words.
PiecesIn(text) == {SubSeq(text, m, n) : m, n \in 1..Len(text)}

\* How many words of text, from position i on, lead from a node to its child.
Reach(trie, text, i) ==
  CHOOSE n \in 0..(Len(text) - i + 1) :
    /\ n < Len(text) - i + 1 => SubSeq(text, i, i + n) \notin DOMAIN trie
    /\ \A x \in 1..n : SubSeq(text, i, i + x - 1) \in DOMAIN trie

\* The nodes of the trie along the words of text from position i on, up to the
\* first word that is not a child: one call of trieSearch_Ngram.
Walk(trie, text, i) ==
  [n \in 1..Reach(trie, text, i) |-> SubSeq(text, i, i + n - 1)]

\* Mutant of Report: only the last n-gram reported is remembered.
ReportRepeating(found, ngram, Bits) ==
  IF Bits[ngram] \subseteq found.bloom
  THEN found
  ELSE [bloom |-> Bits[ngram], answer |-> Append(found.answer, ngram)]

\* findInBloom, and the n-gram appended to the answer when it was not found.
Report(found, ngram, Bits) ==
  IF Bits[ngram] \subseteq found.bloom
  THEN found
  ELSE [bloom |-> found.bloom \union Bits[ngram],
        answer |-> Append(found.answer, ngram)]

\* trieSearch_Ngram: of the nodes the text leads to from its i-th word on, those
\* the search sees are reported.
SearchNgram(trie, text, seen, Bits, found, i) ==
  FoldLeft(LAMBDA f, p : IF p \in seen THEN Report(f, p, Bits) ELSE f,
           found, Walk(trie, text, i))

\* Both searches: the n-grams seen, from each word of the text, in text order
\* and each once; an empty answer is printed as "-1".
Scan(trie, text, seen, Bits) ==
  FoldLeft(LAMBDA found, i : SearchNgram(trie, text, seen, Bits, found, i),
           [bloom |-> {}, answer |-> <<>>], [i \in 1..Len(text) |-> i]).answer

\* trieSearch
Search(trie, text, Q_version, Bits) ==
  Scan(trie, text, {p \in DOMAIN trie : Visible(trie[p], Q_version)}, Bits)

\* trieSearch_Static: no versions.
SearchStatic(trie, text, Bits) == Scan(trie, text, Finals(trie), Bits)
=============================================================================
