------------------------------ MODULE QueryText ------------------------------
(***************************************************************************)
(* One query line from its bytes to the bytes of its answer: createNgram   *)
(* splits the line in words; trieSearch and trieSearch_Static then build   *)
(* every n-gram they come to in one buffer, ask a Bloom filter whether it  *)
(* was answered before, and append it to the answer.  The vector of words  *)
(* and both buffers double when they are too small.                        *)
(*                                                                         *)
(* The worker that executes the query is alone with all of this; what it   *)
(* shares with others is the trie, which does not change (Bursts), and the *)
(* table of answers (TopK).  Of the trie only the n-grams matter that a    *)
(* query can come to: the arrays are the subject of TrieArrays, the        *)
(* compacted nodes of CompactTrie.  strlen of a buffer is the length of a  *)
(* sequence here.                                                          *)
(***************************************************************************)
EXTENDS VersionedTrie, FiniteSets

CONSTANTS
  Chars,         \* the characters: letters, " ", "newline", "|", "nul", ...
  Lines,         \* the lines, without their first two bytes
  Tries,         \* for each live node, whether its n-gram is seen by the query
  Hash,          \* Hash[ngram][i]: the value of murmurhash with seed i - 1
  BLOOMSIZE,     \* bytes of a filter
  INIT_SIZE,     \* initial capacity of a vector of words
  BUFFER_SIZE    \* initial capacity of both buffers

ASSUME QueryTextAssumption ==
  /\ {" ", "newline", "|", "nul", "-", "1"} \subseteq Chars
  /\ Lines \subseteq Seq(Chars)
  /\ {BLOOMSIZE, INIT_SIZE} \subseteq Nat \ {0}
  /\ BUFFER_SIZE \in Nat /\ BUFFER_SIZE >= 3
  /\ Hash \in [DOMAIN Hash -> Seq(Nat)]
  /\ \A t \in Tries : t \in [DOMAIN t -> BOOLEAN] /\ DOMAIN t \subseteq DOMAIN Hash

VARIABLES
  line, trie,
  pc,             \* "split", "walk", "copy", "append" or "done"
  s, e,           \* locals of createNgram
  words,          \* ngramVector->ngram[0 .. words - 1]
  vectorCapacity, \* ngramVector->capacity
  start,          \* i of trieSearch, from 1
  i, round,       \* i and round of trieSearch_Ngram, from 1
  buffer,         \* the first len bytes of buffer
  capacity,       \* its capacity
  bloomFilter,    \* for each byte, its bits that are set
  answer,         \* the first sizes[id] bytes of queryBuffer.buffer[id]
  answerCapacity, \* queryBuffer.capacities[id]
  answered        \* the n-grams given to topK_Hashtable_insert

vectorVars == <<s, e, words, vectorCapacity>>
walkVars == <<start, i, round, buffer>>
answerVars == <<answer, answerCapacity, answered>>
vars == <<line, trie, pc, s, e, words, vectorCapacity, start, i, round, buffer,
          capacity, bloomFilter, answer, answerCapacity, answered>>

Separators == {" ", "newline"}
Bits == [ngram \in DOMAIN Hash |->
           {Hash[ngram][x] % (8 * BLOOMSIZE) : x \in DOMAIN Hash[ngram]}]

Init ==
  /\ line \in Lines /\ trie \in Tries
  /\ pc = "split"
  /\ s = 0 /\ e = 0
  /\ words = <<>> /\ vectorCapacity = INIT_SIZE
  /\ start = 1 /\ i = 1 /\ round = 1
  /\ buffer = <<>> /\ capacity = BUFFER_SIZE
  /\ bloomFilter = [place \in 0..(BLOOMSIZE - 1) |-> {}]
  /\ answer = <<>> /\ answerCapacity = BUFFER_SIZE
  /\ answered = <<>>

-----------------------------------------------------------------------------
(***************************************************************************)
(* createNgram: line[s .. e - 1] is the word being read.                   *)
(***************************************************************************)

\* Mutant of VectorFull: one word too late.
VectorFullLate == Len(words) > vectorCapacity

VectorFull == Len(words) = vectorCapacity

\* Mutant of IsWord: a separator always ends a word.
IsWordAlways == TRUE

\* The separator at e ends a word.
IsWord == s # e

CreateNgram ==
  /\ pc = "split" /\ e < Len(line)
  /\ e' = e + 1
  /\ IF line[e + 1] \notin Separators
     THEN UNCHANGED <<s, words, vectorCapacity>>
     ELSE /\ s' = e + 1
          /\ words' = IF IsWord THEN Append(words, SubSeq(line, s + 1, e)) ELSE words
          /\ vectorCapacity' = IF IsWord /\ VectorFull THEN 2 * vectorCapacity
                                                      ELSE vectorCapacity
  /\ UNCHANGED <<line, trie, pc, walkVars, capacity, bloomFilter, answerVars>>

BeginSearch ==
  /\ pc = "split" /\ e = Len(line)
  /\ pc' = "walk"
  /\ UNCHANGED <<line, trie, vectorVars, walkVars, capacity, bloomFilter, answerVars>>

-----------------------------------------------------------------------------
(***************************************************************************)
(* trieSearch_Ngram, from the word at start on.                            *)
(***************************************************************************)
Here == SubSeq(words, start, i)
AtNode == pc = "walk" /\ i <= Len(words) /\ Here \in DOMAIN trie

\* The text leaves the trie, or ends: the next call begins one word later.
NextStart ==
  /\ pc = "walk" /\ start <= Len(words) /\ ~AtNode
  /\ start' = start + 1 /\ i' = start + 1 /\ round' = start + 1
  /\ buffer' = <<>>
  /\ UNCHANGED <<line, trie, pc, vectorVars, capacity, bloomFilter, answerVars>>

NotAnNgram ==
  /\ AtNode /\ ~trie[Here]
  /\ i' = i + 1
  /\ UNCHANGED <<line, trie, pc, vectorVars, start, round, buffer, capacity,
                 bloomFilter, answerVars>>

AnNgram ==
  /\ AtNode /\ trie[Here]
  /\ pc' = "copy"
  /\ UNCHANGED <<line, trie, vectorVars, walkVars, capacity, bloomFilter, answerVars>>

\* Mutant of TooLong: the space after the word and the final '\0' are forgotten.
TooLongByTwo == Len(words[round]) > capacity - Len(buffer)

\* The word at round does not fit in the buffer.
TooLong == Len(words[round]) >= capacity - Len(buffer) - 1

\* Mutant of Doubled: the array is reallocated with its old capacity.
DoubledNot(size) == size

Doubled(size) == 2 * size

GrowBuffer ==
  /\ pc = "copy" /\ round <= i /\ TooLong
  /\ capacity' = Doubled(capacity)
  /\ UNCHANGED <<line, trie, pc, vectorVars, walkVars, bloomFilter, answerVars>>

CopyWord ==
  /\ pc = "copy" /\ round <= i /\ ~TooLong
  /\ buffer' = Append(buffer \o words[round], " ")
  /\ round' = round + 1
  /\ UNCHANGED <<line, trie, pc, vectorVars, start, i, capacity, bloomFilter, answerVars>>

-----------------------------------------------------------------------------
(***************************************************************************)
(* findInBloom.  A char is signed, so a byte whose bit 7 is set comes to   *)
(* the comparison with the bits 8 to 31 set as well.                       *)
(***************************************************************************)
SignExtended(byte) == IF 7 \in byte THEN byte \union 8..31 ELSE byte

\* Mutant of Place: a byte for every hash value, not for eight of them.
PlaceOfBit(hash) == hash % BLOOMSIZE

\* The byte of a hash value.
Place(hash) == (hash % (8 * BLOOMSIZE)) \div 8

\* Mutant of Retval: only the last hash value counts.
RetvalLast(retval, wasSet) == wasSet

\* One bit that was not set is enough.
Retval(retval, wasSet) == retval /\ wasSet

\* One turn of the loop: the bit of a hash value is tested and set.
TestAndSet(state, hash) ==
  LET prev == SignExtended(state.filter[Place(hash)])
      value == prev \union {hash % 8}
  IN  [filter |-> [state.filter EXCEPT ![Place(hash)] = value \intersect 0..7],
       retval |-> Retval(state.retval, value = prev)]

FindInBloom(ngram, filter) ==
  FoldLeft(TestAndSet, [filter |-> filter, retval |-> TRUE], Hash[ngram])

\* The filter is asked with the bytes of the buffer, which are those of Here: as
\* AnswerIsSearch has it.
AskBloom ==
  /\ pc = "copy" /\ round > i
  /\ LET asked == FindInBloom(Here, bloomFilter)
     IN  /\ bloomFilter' = asked.filter
         /\ IF asked.retval THEN pc' = "walk" /\ i' = i + 1
                            ELSE pc' = "append" /\ UNCHANGED i
  /\ UNCHANGED <<line, trie, vectorVars, start, round, buffer, capacity, answerVars>>

NoRoom == Len(buffer) > answerCapacity - Len(answer)

GrowAnswer ==
  /\ pc = "append" /\ NoRoom
  /\ answerCapacity' = Doubled(answerCapacity)
  /\ UNCHANGED <<line, trie, pc, vectorVars, walkVars, capacity, bloomFilter,
                 answer, answered>>

\* The n-gram, with '|' in the place of the last space.
AppendNgram ==
  /\ pc = "append" /\ ~NoRoom
  /\ pc' = "walk" /\ i' = i + 1
  /\ answer' = Append(answer \o Front(buffer), "|")
  /\ answered' = Append(answered, Here)
  /\ UNCHANGED <<line, trie, vectorVars, start, round, buffer, capacity, bloomFilter,
                 answerCapacity>>

\* The end of trieSearch: the last '|' becomes '\0', or the answer is "-1".
EndSearch ==
  /\ pc = "walk" /\ start > Len(words)
  /\ pc' = "done"
  /\ answer' = Append(IF answer = <<>> THEN <<"-", "1">> ELSE Front(answer), "nul")
  /\ UNCHANGED <<line, trie, vectorVars, walkVars, capacity, bloomFilter,
                 answerCapacity, answered>>

Next ==
  \/ CreateNgram \/ BeginSearch
  \/ NextStart \/ NotAnNgram \/ AnNgram \/ GrowBuffer \/ CopyWord \/ AskBloom
  \/ GrowAnswer \/ AppendNgram \/ EndSearch

\* The query is answered.
Answered == pc = "done" /\ UNCHANGED vars

\* The worker goes on with its query.
Spec == Init /\ [][Next \/ Answered]_vars /\ WF_vars(Next)

-----------------------------------------------------------------------------
(***************************************************************************)
(* Properties.                                                             *)
(***************************************************************************)
TypeOK ==
  /\ pc \in {"split", "walk", "copy", "append", "done"}
  /\ s \in 0..e /\ e \in 0..Len(line)
  /\ words \in Seq(Seq(Chars)) /\ Len(words) <= vectorCapacity
  /\ start \in 1..(Len(words) + 1) /\ i \in start..(Len(words) + 1)
  /\ round \in start..(i + 1)
  /\ buffer \in Seq(Chars) /\ answer \in Seq(Chars)
  /\ vectorCapacity \in Nat /\ capacity \in Nat /\ answerCapacity \in Nat

\* No byte is written past the end of a buffer: the words of an n-gram leave
\* room for their spaces and the final '\0', and the answer fits with its
\* separators, or "-1", whatever the lengths of the words.
BuffersHold ==
  /\ Len(buffer) < capacity
  /\ pc = "append" /\ ~NoRoom => Len(answer) + Len(buffer) <= answerCapacity
  /\ Len(answer) <= answerCapacity

\* The words of a line: the places x..y of its runs of letters that a separator
\* ends.  A last word that nothing follows is not one of them.
IsRun(x, y) ==
  /\ x <= y /\ y < Len(line)
  /\ \A z \in x..y : line[z] \notin Separators
  /\ line[y + 1] \in Separators
  /\ x = 1 \/ line[x - 1] \in Separators
Runs == {r \in (1..Len(line)) \X (1..Len(line)) : IsRun(r[1], r[2])}

\* createNgram finds the words of the line in their order, whatever separators
\* stand before, between and after them.
SplitsInWords ==
  pc # "split" =>
    /\ Len(words) = Cardinality(Runs)
    /\ \A r \in Runs :
         words[Cardinality({q \in Runs : q[1] <= r[1]})] = SubSeq(line, r[1], r[2])

\* The bytes that stand for a sequence of n-grams.
Spelled(ngram) == Front(FlattenSeq([x \in DOMAIN ngram |-> ngram[x] \o <<" ">>]))
Text(ngrams) ==
  IF ngrams = <<>> THEN <<"-", "1", "nul">>
  ELSE Front(FlattenSeq([x \in DOMAIN ngrams |-> Spelled(ngrams[x]) \o <<"|">>]))
         \o <<"nul">>

\* The bytes of an answer are those of the n-grams that the search of module
\* VersionedTrie finds: the words carried over from one n-gram to the longer
\* one, the filter's bits in signed bytes and the separators overwritten with
\* others all come out right.  Module Bursts builds on it.
AnswerIsSearch ==
  pc = "done" => /\ answered = Scan(trie, words, {p \in DOMAIN trie : trie[p]}, Bits)
                 /\ answer = Text(answered)

\* The search comes to n-gram p from the word at x on.
From(p, x) == p \in ToSet(Walk(trie, words, x))

\* The n-grams in the text.
Occurring == {p \in DOMAIN trie : trie[p] /\ \E x \in DOMAIN words : From(p, x)}

\* The search comes to q before it comes to p for the first time.
Sooner(q, p) ==
  \E x \in DOMAIN words :
    /\ From(q, x)
    /\ \A y \in DOMAIN words : From(p, y) => x < y \/ (x = y /\ Len(q) < Len(p))

\* What was answered before p sets all bits of p.
Covered(p) ==
  Bits[p] \subseteq UNION {Bits[q] : q \in {q \in ToSet(answered) : Sooner(q, p)}}

\* The filter can only leave an n-gram out, and only when those answered before
\* it set all its bits; what is answered is in the text, in the order in which
\* it occurs there first, and once.
LosesOnlyCovered ==
  pc = "done" =>
    /\ ToSet(answered) \subseteq Occurring
    /\ \A x, y \in DOMAIN answered : x < y => Sooner(answered[x], answered[y])
    /\ \A p \in Occurring \ ToSet(answered) : Covered(p)

\* Every query is answered: the loops that double a buffer come to an end.
QueryAnswered == <>(pc = "done")
=============================================================================
