------------------------------ MODULE MCBursts ------------------------------
(***************************************************************************)
(* Instances of Bursts for TLC: two words, n-grams of one and two words.   *)
(***************************************************************************)
EXTENDS Bursts

\* The two n-grams share a branch of the trie.
OneBranch == {<<"a">>, <<"a", "b">>}

TwoBranches == {<<"a">>, <<"a", "b">>, <<"b">>}

\* One branch, and an n-gram without words (a line "A " or "Q ").
WithEmpty == {<<>>, <<"a">>, <<"a", "b">>}

OneText == {<<"a", "b", "a">>}
TwoTexts == {<<"b", "a", "b">>, <<"a", "b", "a">>}

\* Init files that end in one branch of the trie.
Branch(type) == [type |-> type, ngrams |-> <<<<"a", "b">>, <<"a">>, <<"a", "b">>>>]
Dynamic == {Branch("dynamic")}
BothTypes == {Branch("dynamic"), Branch("static")}

\* The lines of a query file.  A static one has queries only.
AllLines == [dynamic |-> {"A", "D", "Q"}, static |-> {"Q"}]
AnyLines == [dynamic |-> {"A", "D", "Q", "x"}, static |-> {"A", "Q"}]
AddsAndQueries == [dynamic |-> {"A", "Q"}]
Updates == [dynamic |-> {"A", "D"}]

MCPieces == UNION {PiecesIn(text) : text \in TwoTexts \union OneBranch}

\* No collision in the Bloom filter: each n-gram has positions of its own.
OwnBits == [n \in MCPieces |-> {n}]

\* The positions of "a b" are covered by those of "b" and of "a".
SharedBits == [n \in MCPieces |->
  CASE n = <<"a">> -> {0, 1} [] n = <<"b">> -> {2, 3} [] n = <<"a", "b">> -> {1, 2}
    [] OTHER -> {Len(n) + 3, 8}]
=============================================================================
