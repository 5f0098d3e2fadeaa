---------------------------- MODULE MCCompactTrie ----------------------------
(***************************************************************************)
(* Instances of CompactTrie for TLC: three words, arrays of one slot.      *)
(***************************************************************************)
EXTENDS CompactTrie

ThreeWords == 1..3

\* Words 1 and 2 share a bucket until there are four.
Keys == <<3, 1, 2>>

\* Children of the root, of a node that needs room for three, and a chain.
MCNgrams == {<<>>, <<1>>, <<2>>, <<3>>, <<1, 1>>, <<1, 2>>, <<1, 3>>, <<1, 2, 1>>}
OneVersion == {0}

Lengths == <<1, 3, 2>>

AllTexts == SeqOf(ThreeWords, 4)
=============================================================================
