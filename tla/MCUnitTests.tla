----------------------------- MODULE MCUnitTests -----------------------------
(***************************************************************************)
(* The instance of UnitTests for TLC: "the" and "this" share a bucket, the *)
(* other words never are the first of an n-gram.                           *)
(***************************************************************************)
EXTENDS UnitTests

AllWords == DOMAIN Vocabulary
Keys == [w \in AllWords |-> 1]
Lengths == <<1, 3, 3, 4, 3, 3, 3, 3, 2, 3, 4, 3, 4>>
TestNgrams == Range(TestCase)
NoTexts == {}
=============================================================================
