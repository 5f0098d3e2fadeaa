---------------------------- MODULE NgramService ----------------------------
(***************************************************************************)
(* What the program promises a reader of its input and output: a set of    *)
(* n-grams, updated and queried line by line.  The lines of a burst are    *)
(* collected, and at the line F they take effect one after the other, each *)
(* as if the later ones did not exist; the answers of the burst's queries  *)
(* come out in order, and with them how often each n-gram was an answer.   *)
(* No trie, versions, threads or buffers: module Bursts implements it.     *)
(***************************************************************************)
EXTENDS Naturals, SequencesExt

CONSTANTS
  Commands,   \* the lines, as records [command, ngram]
  Initials    \* for each init file, its n-grams

VARIABLES
  store,      \* the n-grams stored
  pending,    \* the lines of the burst being read
  output      \* what the last burst printed

serviceVars == <<store, pending, output>>

\* The pieces of a text that begin at its i-th word, the shortest first.
PiecesFrom(text, i) ==
  [n \in 1..(Len(text) - i + 1) |-> SubSeq(text, i, i + n - 1)]

\* A stored n-gram becomes an answer, unless it is one.
Include(s, answer, p) ==
  IF p \in s /\ ~Contains(answer, p) THEN Append(answer, p) ELSE answer

IncludeFrom(s, text, answer, i) ==
  FoldLeft(LAMBDA a, p : Include(s, a, p), answer, PiecesFrom(text, i))

\* The stored n-grams of a text, each once, by starting word, then by length.
Answer(s, text) ==
  FoldLeft(LAMBDA a, i : IncludeFrom(s, text, a, i), <<>>, [i \in 1..Len(text) |-> i])

\* One line after another: the n-grams left, and the answers of the queries.
Execute(state, line) ==
  CASE line.command = "A" -> [state EXCEPT !.store = @ \union {line.ngram}]
    [] line.command = "D" -> [state EXCEPT !.store = @ \ {line.ngram}]
    [] line.command = "Q" ->
         [state EXCEPT !.answers = Append(@, Answer(state.store, line.ngram))]

Sequential(s, lines) == FoldLeft(Execute, [store |-> s, answers |-> <<>>], lines)

\* How many of the answers an n-gram is in, for those that are in one.
Frequencies(answers) ==
  [n \in UNION {ToSet(answers[q]) : q \in DOMAIN answers} |->
     Cardinality({q \in DOMAIN answers : Contains(answers[q], n)})]

Printed(answers) == [answers |-> answers, frequencies |-> Frequencies(answers)]

ServiceInit ==
  /\ store \in Initials
  /\ pending = <<>>
  /\ output = Printed(<<>>)

Receive(line) ==
  /\ pending' = Append(pending, line)
  /\ UNCHANGED <<store, output>>

\* The line F.
EndOfBurst ==
  LET after == Sequential(store, pending)
  IN  /\ store' = after.store
      /\ output' = Printed(after.answers)
      /\ pending' = <<>>

ServiceNext == EndOfBurst \/ \E line \in Commands : Receive(line)

ServiceSpec == ServiceInit /\ [][ServiceNext]_serviceVars
=============================================================================
