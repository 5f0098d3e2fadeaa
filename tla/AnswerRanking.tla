--------------------------- MODULE AnswerRanking ---------------------------
(***************************************************************************)
(* What the top-k table promises, with its buckets, mutexes and workers    *)
(* left out: it counts the n-grams answered in a burst, and at the end of  *)
(* the burst names the k most frequent ones, most frequent first, equally  *)
(* frequent ones in order.  Module TopK implements it.                     *)
(***************************************************************************)
EXTENDS Naturals, Sequences

CONSTANTS
  Ngrams,   \* a set of natural numbers, in the order of strcmp
  Ks        \* the numbers after the F of a burst

VARIABLES
  ending,     \* the burst is ending: its n-grams are ranked
  answered,   \* how often each n-gram was answered
  k, printed,
  line        \* "empty", "open" while it names n-grams, or "ended"

rankingVars == <<ending, answered, k, printed, line>>

RankingInit ==
  /\ ~ending /\ answered = [n \in Ngrams |-> 0]
  /\ k = 0 /\ printed = <<>> /\ line = "empty"

Answer(n) ==
  /\ ~ending
  /\ answered' = [answered EXCEPT ![n] = @ + 1]
  /\ UNCHANGED <<ending, k, printed, line>>

\* The line is begun, with "Top: ", only for at least one n-gram.
EndAnswers(number) ==
  /\ ~ending /\ ending' /\ k' = number
  /\ line' = IF number > 0 /\ \E n \in Ngrams : answered[n] > 0 THEN "open" ELSE "empty"
  /\ UNCHANGED <<answered, printed>>

\* The n-grams to be named.
Left == {n \in Ngrams : answered[n] > 0} \ {printed[x] : x \in DOMAIN printed}

Beats(n, m) ==
  \/ answered[n] > answered[m]
  \/ answered[n] = answered[m] /\ n < m

\* The line ends with the last of the k n-grams asked for, if there are so many.
NameBest ==
  /\ ending /\ Len(printed) < k
  /\ \E n \in Left : /\ \A m \in Left \ {n} : Beats(n, m)
                     /\ printed' = Append(printed, n)
  /\ line' = IF Len(printed') < k THEN "open" ELSE "ended"
  /\ UNCHANGED <<ending, answered, k>>

\* k n-grams are named, or all; the next burst counts from zero.
NextBurst ==
  /\ ending /\ ~ending'
  /\ Len(printed) = k \/ Left = {}
  /\ answered' = [n \in Ngrams |-> 0]
  /\ k' = 0 /\ printed' = <<>> /\ line' = "empty"

RankingNext ==
  \/ \E n \in Ngrams : Answer(n)
  \/ \E number \in Ks : EndAnswers(number)
  \/ NameBest
  \/ NextBurst

RankingSpec == RankingInit /\ [][RankingNext]_rankingVars
=============================================================================
