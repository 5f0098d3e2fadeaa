------------------------------- MODULE MCTopK -------------------------------
(***************************************************************************)
(* Instances of TopK for TLC: three n-grams in two buckets, two of them in *)
(* the same one.                                                           *)
(***************************************************************************)
EXTENDS TopK, TLC

ThreeNgrams == 1..3
MCKeys == [n \in ThreeNgrams |-> 97 + n]
UpToThree == 0..3

Symmetry == Permutations(Workers) \union Permutations(Jobs)
=============================================================================
