-------------------------- MODULE QueryText_proofs --------------------------
(***************************************************************************)
(* Proofs about QueryText for lines, words and n-grams of any length, any  *)
(* hash function and any initial capacities: the buffers hold whatever is  *)
(* written to them, the words are those of the line, the answer is that of *)
(* the search of VersionedTrie, and the filter loses only what is covered. *)
(***************************************************************************)
EXTENDS QueryText, VersionedTrie_proofs, FiniteSetTheorems

\* Where the search is: a word is copied and an n-gram appended only while i
\* is at a word, and the buffer is not empty once a word was copied.
InStep ==
  /\ vectorCapacity > 0 /\ answerCapacity >= 3
  /\ pc = "split" => i = 1 /\ start = 1
  /\ pc \in {"copy", "append"} => i <= Len(words)
  /\ pc = "append" => buffer # <<>>
  /\ round > start => buffer # <<>>

\* The inductive invariant.
TextInv == TypeOK /\ BuffersHold /\ InStep

\* Front takes the last element away.
LEMMA FrontTakesOne ==
  ASSUME NEW C, NEW x \in Seq(C), x # <<>>
  PROVE  Front(x) \in Seq(C) /\ Len(Front(x)) = Len(x) - 1
<1>1. Len(x) \in Nat /\ Len(x) > 0
  BY EmptySeq
<1>2. Len(x) - 1 \in 0..Len(x)
  BY <1>1
<1>3. SubSeq(x, 1, Len(x) - 1) \in Seq(C) /\ Len(SubSeq(x, 1, Len(x) - 1)) = Len(x) - 1
  BY <1>2, Prefix
<1> QED
  BY <1>3 DEF Front

\* A sequence and a character after it.
LEMMA Appended ==
  ASSUME NEW C, NEW x \in Seq(C), NEW c \in C
  PROVE  /\ Append(x, c) \in Seq(C) /\ Append(x, c) # <<>>
         /\ Len(Append(x, c)) = Len(x) + 1
BY AppendProperties

\* A sequence, another one and a character after it.
LEMMA Joined ==
  ASSUME NEW C, NEW x \in Seq(C), NEW y \in Seq(C), NEW c \in C
  PROVE  /\ Append(x \o y, c) \in Seq(C) /\ Append(x \o y, c) # <<>>
         /\ Len(Append(x \o y, c)) = Len(x) + Len(y) + 1
<1>1. x \o y \in Seq(C) /\ Len(x \o y) = Len(x) + Len(y)
  BY ConcatProperties
<1> QED
  BY <1>1, Appended

\* "-1" is two characters.
LEMMA Pair ==
  ASSUME NEW C, NEW x \in C, NEW y \in C
  PROVE  <<x, y>> \in Seq(C) /\ Len(<<x, y>>) = 2
<1>1. <<x, y>> \in Seq(C)
  OBVIOUS
<1>2. Len(<<x, y>>) = 2
  OBVIOUS
<1> QED
  BY <1>1, <1>2

\* The constants, one by one.
LEMMA Constants ==
  /\ " " \in Chars /\ "|" \in Chars /\ "nul" \in Chars /\ "-" \in Chars /\ "1" \in Chars
  /\ Lines \subseteq Seq(Chars)
  /\ INIT_SIZE \in Nat /\ INIT_SIZE > 0
  /\ BUFFER_SIZE \in Nat /\ BUFFER_SIZE >= 3
<1>1. {" ", "newline", "|", "nul", "-", "1"} \subseteq Chars
  BY QueryTextAssumption
<1>2. Lines \subseteq Seq(Chars)
  BY QueryTextAssumption
<1>3. INIT_SIZE \in Nat \ {0} /\ BUFFER_SIZE \in Nat /\ BUFFER_SIZE >= 3
  BY QueryTextAssumption
<1>4. " " \in Chars /\ "|" \in Chars /\ "nul" \in Chars /\ "-" \in Chars /\ "1" \in Chars
  BY <1>1, Zenon
<1>5. INIT_SIZE \in Nat /\ INIT_SIZE > 0
  BY <1>3
<1> QED
  BY <1>2, <1>3, <1>4, <1>5

\* The search begins with empty buffers.
LEMMA InitText == Init => TextInv
<1> SUFFICES ASSUME Init PROVE TextInv
  OBVIOUS
<1>1. /\ line \in Lines /\ pc = "split" /\ s = 0 /\ e = 0
      /\ words = <<>> /\ vectorCapacity = INIT_SIZE
      /\ start = 1 /\ i = 1 /\ round = 1
      /\ buffer = <<>> /\ capacity = BUFFER_SIZE
      /\ answer = <<>> /\ answerCapacity = BUFFER_SIZE
  BY DEF Init
<1>2. /\ words \in Seq(Seq(Chars)) /\ buffer \in Seq(Chars) /\ answer \in Seq(Chars)
  BY <1>1
<1>3. Len(words) = 0 /\ Len(buffer) = 0 /\ Len(answer) = 0
  BY <1>1
<1>4. line \in Seq(Chars)
  BY <1>1, Constants
<1>5. Len(line) \in Nat
  BY <1>4
<1>6. /\ vectorCapacity \in Nat /\ vectorCapacity > 0
      /\ capacity \in Nat /\ capacity >= 3
      /\ answerCapacity \in Nat /\ answerCapacity >= 3
  BY <1>1, Constants
<1>7. TypeOK
  <2>1. pc \in {"split", "walk", "copy", "append", "done"}
    BY <1>1
  <2>2. s \in 0..e /\ e \in 0..Len(line) /\ start \in 1..(Len(words) + 1)
        /\ i \in start..(Len(words) + 1) /\ round \in start..(i + 1)
    BY <1>1, <1>3, <1>5
  <2> QED
    BY <1>2, <1>3, <1>6, <2>1, <2>2 DEF TypeOK
<1>8. BuffersHold
  BY <1>1, <1>3, <1>6 DEF BuffersHold
<1>9. InStep
  BY <1>1, <1>6 DEF InStep
<1> QED
  BY <1>7, <1>8, <1>9 DEF TextInv

\* The places of the search, as numbers.
LEMMA Places ==
  ASSUME TextInv
  PROVE  /\ s \in Nat /\ e \in Nat /\ s <= e /\ e <= Len(line)
         /\ start \in Nat /\ i \in Nat /\ round \in Nat
         /\ 1 <= start /\ start <= i /\ i <= Len(words) + 1
         /\ start <= round /\ round <= i + 1
BY DEF TextInv, TypeOK

\* Reading a character adds at most one word, and the vector has room for it.
LEMMA ReadStep ==
  ASSUME TextInv, line \in Seq(Chars), CreateNgram \/ BeginSearch
  PROVE  TextInv'
<1>1. CASE CreateNgram
  <2>1. /\ words \in Seq(Seq(Chars)) /\ vectorCapacity \in Nat
        /\ Len(words) <= vectorCapacity /\ vectorCapacity > 0
    BY DEF TextInv, TypeOK, InStep
  <2> DEFINE word == SubSeq(line, s + 1, e)
  <2>3. word \in Seq(Chars)
    BY Places
  <2>4. /\ pc = "split" /\ e < Len(line) /\ e' = e + 1
        /\ \/ UNCHANGED <<s, words, vectorCapacity>>
           \/ s' = e + 1 /\ UNCHANGED <<words, vectorCapacity>>
           \/ /\ s' = e + 1 /\ words' = Append(words, word)
              /\ vectorCapacity' = IF Len(words) = vectorCapacity
                                   THEN 2 * vectorCapacity ELSE vectorCapacity
    BY <1>1 DEF CreateNgram, VectorFull, Doubled
  <2> HIDE DEF word
  <2>5. /\ words' \in Seq(Seq(Chars)) /\ Len(words') >= Len(words)
        /\ Len(words') <= Len(words) + 1
    <3>1. CASE words' = words
      BY <2>1, <3>1
    <3>2. CASE words' = Append(words, word)
      BY <2>1, <2>3, <3>2, Appended
    <3> QED
      BY <2>4, <3>1, <3>2
  <2>6. /\ vectorCapacity' \in Nat /\ vectorCapacity' > 0
        /\ Len(words') <= vectorCapacity'
    <3>1. CASE words' = words /\ vectorCapacity' = vectorCapacity
      BY <2>1, <3>1
    <3>2. CASE words' = Append(words, word)
      BY <2>1, <2>3, <2>4, <3>2, Appended
    <3> QED
      BY <2>4, <3>1, <3>2
  <2>7. UNCHANGED <<line, pc, start, i, round, buffer, capacity, answer, answerCapacity>>
    BY <1>1 DEF CreateNgram, walkVars, answerVars
  <2>8. s' \in 0..e' /\ e' \in 0..Len(line')
    <3>1. e' = e + 1 /\ e < Len(line) /\ line' = line /\ (s' = s \/ s' = e + 1)
      BY <2>4, <2>7
    <3>2. Len(line) \in Nat /\ s \in Nat /\ e \in Nat /\ s <= e
      BY Places, LenProperties
    <3> QED
      BY <3>1, <3>2
  <2> QED
    BY <2>4, <2>5, <2>6, <2>7, <2>8, Places
       DEF TextInv, TypeOK, BuffersHold, InStep, NoRoom
<1>2. CASE BeginSearch
  BY <1>2 DEF BeginSearch, TextInv, TypeOK, BuffersHold, InStep, vectorVars,
              walkVars, answerVars, NoRoom
<1> QED
  BY <1>1, <1>2

\* Steps through the nodes of the trie leave the buffers as they are, or empty
\* the one of the words.
LEMMA WalkStep ==
  ASSUME TextInv, NextStart \/ NotAnNgram \/ AnNgram
  PROVE  TextInv'
<1> USE DEF TextInv, TypeOK, BuffersHold, InStep
<1>1. CASE NextStart
  BY <1>1 DEF NextStart, vectorVars, answerVars, NoRoom
<1>2. CASE NotAnNgram
  BY <1>2 DEF NotAnNgram, AtNode, vectorVars, answerVars, NoRoom
<1>3. CASE AnNgram
  BY <1>3 DEF AnNgram, AtNode, vectorVars, walkVars, answerVars, NoRoom
<1> QED
  BY <1>1, <1>2, <1>3

\* A word is copied only when it fits with its space and a final '\0'.
LEMMA CopyStep ==
  ASSUME TextInv, GrowBuffer \/ CopyWord
  PROVE  TextInv'
<1>1. CASE GrowBuffer
  BY <1>1 DEF TextInv, TypeOK, BuffersHold, InStep, GrowBuffer, Doubled, vectorVars,
              walkVars, answerVars, NoRoom
<1>2. CASE CopyWord
  <2>0. pc = "copy" /\ round <= i
    BY <1>2 DEF CopyWord
  <2>1. round \in 1..Len(words) /\ i <= Len(words)
    BY <2>0, Places DEF TextInv, InStep
  <2>2. words \in Seq(Seq(Chars)) /\ buffer \in Seq(Chars) /\ capacity \in Nat
    BY DEF TextInv, TypeOK
  <2> DEFINE word == words[round]
  <2>3. word \in Seq(Chars)
    BY <2>1, <2>2, ElementOfSeq
  <2>4. Len(word) < capacity - Len(buffer) - 1
    <3>1. ~(Len(word) >= capacity - Len(buffer) - 1)
      BY <1>2 DEF CopyWord, TooLong
    <3>2. Len(word) \in Nat /\ Len(buffer) \in Nat
      BY <2>2, <2>3
    <3> QED
      BY <2>2, <3>1, <3>2
  <2>5. buffer' = Append(buffer \o word, " ")
    BY <1>2 DEF CopyWord
  <2> HIDE DEF word
  <2>6. /\ buffer' \in Seq(Chars) /\ buffer' # <<>>
        /\ Len(buffer') = Len(buffer) + Len(word) + 1
    BY <2>2, <2>3, <2>5, Joined, Constants
  <2>7. Len(buffer') < capacity
    BY <2>2, <2>3, <2>4, <2>6
  <2>8. /\ UNCHANGED <<line, pc, s, e, words, vectorCapacity, start, i, capacity,
                       answer, answerCapacity>>
        /\ round' = round + 1
    BY <1>2 DEF CopyWord, vectorVars, answerVars
  <2> QED
    BY <2>0, <2>1, <2>6, <2>7, <2>8, Places DEF TextInv, TypeOK, BuffersHold, InStep, NoRoom
<1> QED
  BY <1>1, <1>2

\* The filter is asked when all words up to i are in the buffer.
LEMMA BloomStep ==
  ASSUME TextInv, AskBloom
  PROVE  TextInv'
<1>1. /\ pc = "copy" /\ round > i
      /\ \/ pc' = "walk" /\ i' = i + 1
         \/ pc' = "append" /\ i' = i
      /\ UNCHANGED <<line, s, e, words, vectorCapacity, start, round, buffer, capacity,
                     answer, answerCapacity, answered>>
  BY DEF AskBloom, vectorVars, answerVars
<1>2. i <= Len(words) /\ round = i + 1 /\ buffer # <<>>
  BY <1>1, Places DEF TextInv, InStep
<1>3. /\ i' \in start'..(Len(words') + 1) /\ round' \in start'..(i' + 1)
      /\ pc' = "append" => i' <= Len(words')
  <2>1. Len(words) \in Nat
    BY LenProperties DEF TextInv, TypeOK
  <2>2. start \in Nat /\ i \in Nat /\ start <= i
    BY Places
  <2>3. /\ words' = words /\ start' = start /\ round' = i + 1
        /\ (i' = i + 1 /\ pc' # "append") \/ i' = i
    BY <1>1, <1>2
  <2>4. i <= Len(words)
    BY <1>2
  <2>5. i + 1 \in start..(Len(words) + 1) /\ i \in start..(Len(words) + 1)
    BY <2>1, <2>2, <2>4
  <2>6. i + 1 \in start..(i + 1) /\ i + 1 \in start..((i + 1) + 1)
    BY <2>2
  <2> QED
    BY <2>3, <2>4, <2>5, <2>6
<1>4. TypeOK'
  BY <1>1, <1>3 DEF TextInv, TypeOK
<1>5. BuffersHold'
  <2>1. pc' = "append" /\ ~NoRoom' => Len(answer') + Len(buffer') <= answerCapacity'
    <3>1. Len(answer) \in Nat /\ Len(buffer) \in Nat /\ answerCapacity \in Nat
      BY LenProperties DEF TextInv, TypeOK
    <3> QED
      BY <1>1, <3>1 DEF NoRoom
  <2> QED
    BY <1>1, <2>1 DEF TextInv, BuffersHold
<1>6. InStep'
  BY <1>1, <1>2, <1>3 DEF TextInv, InStep
<1> QED
  BY <1>4, <1>5, <1>6 DEF TextInv

\* An n-gram is appended only when it fits; the last separator is overwritten,
\* and an empty answer leaves room for "-1".
LEMMA AppendStep ==
  ASSUME TextInv, GrowAnswer \/ AppendNgram \/ EndSearch
  PROVE  TextInv'
<1>0. /\ buffer \in Seq(Chars) /\ answer \in Seq(Chars)
      /\ answerCapacity \in Nat /\ answerCapacity >= 3
      /\ Len(answer) <= answerCapacity /\ Len(buffer) < capacity
  BY DEF TextInv, TypeOK, BuffersHold, InStep
<1>1. CASE GrowAnswer
  BY <1>1 DEF GrowAnswer, Doubled, vectorVars, walkVars, NoRoom, TextInv, TypeOK,
              BuffersHold, InStep
<1>2. CASE AppendNgram
  <2>1. /\ pc = "append" /\ pc' = "walk" /\ i' = i + 1
        /\ UNCHANGED <<line, s, e, words, vectorCapacity, start, round, buffer,
                       capacity, answerCapacity>>
    BY <1>2 DEF AppendNgram, vectorVars
  <2>2. answer' = Append(answer \o Front(buffer), "|")
    BY <1>2 DEF AppendNgram
  <2>3. buffer # <<>> /\ i <= Len(words)
    BY <2>1 DEF TextInv, InStep
  <2>4. ~NoRoom
    BY <1>2 DEF AppendNgram
  <2>5. Len(answer) + Len(buffer) <= answerCapacity
    BY <2>1, <2>4 DEF TextInv, BuffersHold
  <2>6. Front(buffer) \in Seq(Chars) /\ Len(Front(buffer)) = Len(buffer) - 1
    BY <1>0, <2>3, FrontTakesOne
  <2>7. "|" \in Chars
    BY Constants
  <2>8. answer' \in Seq(Chars) /\ Len(answer') = Len(answer) + Len(Front(buffer)) + 1
    BY <1>0, <2>2, <2>6, <2>7, Joined
  <2>9. Len(answer') <= answerCapacity
    <3>1. Len(answer) \in Nat /\ Len(buffer) \in Nat
      BY <1>0
    <3> QED
      BY <1>0, <2>5, <2>6, <2>8, <3>1
  <2> QED
    BY <1>0, <2>1, <2>3, <2>8, <2>9, Places
       DEF TextInv, TypeOK, BuffersHold, InStep, NoRoom
<1>3. CASE EndSearch
  <2> DEFINE kept == IF answer = <<>> THEN <<"-", "1">> ELSE Front(answer)
  <2>1. /\ pc' = "done"
        /\ UNCHANGED <<line, s, e, words, vectorCapacity, start, i, round, buffer,
                       capacity, answerCapacity>>
    BY <1>3 DEF EndSearch, vectorVars, walkVars
  <2>2. answer' = Append(kept, "nul")
    BY <1>3 DEF EndSearch
  <2>3. kept \in Seq(Chars) /\ Len(kept) < answerCapacity
    <3>1. CASE answer = <<>>
      <4>1. <<"-", "1">> \in Seq(Chars) /\ Len(<<"-", "1">>) = 2
        <5>1. "-" \in Chars /\ "1" \in Chars
          BY Constants
        <5> QED
          BY <5>1, Pair
      <4>2. kept = <<"-", "1">>
        BY <3>1
      <4>3. 2 < answerCapacity
        BY <1>0
      <4> HIDE DEF kept
      <4> QED
        BY <4>1, <4>2, <4>3
    <3>2. CASE answer # <<>>
      <4>1. kept = Front(answer)
        BY <3>2
      <4>2. Front(answer) \in Seq(Chars) /\ Len(Front(answer)) = Len(answer) - 1
        BY <1>0, <3>2, FrontTakesOne
      <4>3. Len(answer) \in Nat
        BY <1>0
      <4> HIDE DEF kept
      <4> QED
        BY <1>0, <4>1, <4>2, <4>3
    <3> QED
      BY <3>1, <3>2
  <2> HIDE DEF kept
  <2>4. "nul" \in Chars
    BY Constants
  <2>5. answer' \in Seq(Chars) /\ Len(answer') = Len(kept) + 1
    BY <2>2, <2>3, <2>4, Appended
  <2>6. Len(answer') <= answerCapacity
    <3>1. Len(kept) \in Nat
      BY <2>3
    <3> QED
      BY <1>0, <2>3, <2>5, <3>1
  <2> QED
    BY <1>0, <2>1, <2>5, <2>6, Places
       DEF TextInv, TypeOK, BuffersHold, InStep, NoRoom
<1> QED
  BY <1>1, <1>2, <1>3

\* TextInv holds in every state, and line is one of the lines.
THEOREM TextInvariant == Spec => [](TextInv /\ line \in Lines)
<1>1. Init => TextInv /\ line \in Lines
  BY InitText DEF Init
<1>2. TextInv /\ line \in Lines /\ [Next \/ Answered]_vars
        => (TextInv /\ line \in Lines)'
  <2> SUFFICES ASSUME TextInv, line \in Lines, [Next \/ Answered]_vars
               PROVE  (TextInv /\ line \in Lines)'
    OBVIOUS
  <2>1. line \in Seq(Chars)
    BY Constants
  <2>2. CASE Next
    <3>1. line' = line
      BY <2>2 DEF Next, CreateNgram, BeginSearch, NextStart, NotAnNgram, AnNgram,
                  GrowBuffer, CopyWord, AskBloom, GrowAnswer, AppendNgram, EndSearch
    <3> QED
      BY <2>1, <2>2, <3>1, ReadStep, WalkStep, CopyStep, BloomStep, AppendStep
         DEF Next
  <2>3. CASE UNCHANGED vars
    BY <2>3 DEF vars, TextInv, TypeOK, BuffersHold, InStep, NoRoom
  <2> QED
    BY <2>2, <2>3 DEF Answered
<1> QED
  BY <1>1, <1>2, PTL DEF Spec

\* No write goes past the end of a buffer, for words and answers of any length.
THEOREM Holds == Spec => []BuffersHold
BY TextInvariant, PTL DEF TextInv

\* The variables keep their types; in particular the vector has room for the
\* words of every line.
THEOREM TypeCorrect == Spec => []TypeOK
BY TextInvariant, PTL DEF TextInv

(***************************************************************************)
(* Sequences put one after the other.                                      *)
(***************************************************************************)
\* f[x] is the first x elements of q, put together.
Flat(f, q, n) == \A x \in 1..n : f[x] = IF x = 1 THEN q[x] ELSE f[x - 1] \o q[x]

\* The first elements are the same.
Same(f, g, n) == \A x \in 1..n : f[x] = g[x]

\* There is such an f.
LEMMA FlatExists ==
  ASSUME NEW C, NEW q \in Seq(Seq(C))
  PROVE  \E f \in [1..Len(q) -> Seq(C)] : Flat(f, q, Len(q))
<1> DEFINE n == Len(q)
           K == {k \in 0..n : \E f \in [1..k -> Seq(C)] : Flat(f, q, k)}
<1>1. n \in Nat /\ \A x \in 1..n : q[x] \in Seq(C)
  BY LenProperties
<1>2. 0 \in K
  <2>1. [x \in 1..0 |-> <<>>] \in [1..0 -> Seq(C)]
    OBVIOUS
  <2>2. \A f : Flat(f, q, 0)
    BY DEF Flat
  <2>3. 0 \in 0..n
    BY <1>1
  <2> QED
    BY <2>1, <2>2, <2>3
<1>3. ASSUME NEW k \in 0..(n - 1), k \in K PROVE k + 1 \in K
  <2>1. PICK f \in [1..k -> Seq(C)] : Flat(f, q, k)
    BY <1>3
  <2> DEFINE last == IF k = 0 THEN q[1] ELSE f[k] \o q[k + 1]
             g == [x \in 1..(k + 1) |-> IF x = k + 1 THEN last ELSE f[x]]
  <2>2. k \in Nat /\ k + 1 \in 1..n /\ k + 1 \in 0..n
    BY <1>1
  <2>3. last \in Seq(C)
    <3>1. CASE k = 0
      BY <1>1, <2>2, <3>1
    <3>2. CASE k # 0
      <4>1. f[k] \in Seq(C) /\ q[k + 1] \in Seq(C)
        BY <1>1, <2>1, <2>2, <3>2
      <4> QED
        BY <3>2, <4>1, ConcatProperties
    <3> QED
      BY <3>1, <3>2
  <2>4. last = IF k + 1 = 1 THEN q[k + 1] ELSE f[k] \o q[k + 1]
    BY <2>2
  <2> HIDE DEF last
  <2>5. g \in [1..(k + 1) -> Seq(C)]
    BY <2>1, <2>2, <2>3
  <2>6. /\ g[k + 1] = last
        /\ \A x \in 1..k : x \in 1..(k + 1) /\ g[x] = f[x]
    BY <2>2
  <2> HIDE DEF g
  <2>7. ASSUME NEW x \in 1..(k + 1)
        PROVE  g[x] = IF x = 1 THEN q[x] ELSE g[x - 1] \o q[x]
    <3>1. CASE x = k + 1
      <4>1. x - 1 = k /\ (k # 0 => k \in 1..k)
        BY <2>2, <3>1
      <4> QED
        BY <2>2, <2>4, <2>6, <3>1, <4>1
    <3>2. CASE x # k + 1
      <4>1. x \in 1..k /\ (x # 1 => x - 1 \in 1..k)
        BY <2>2, <3>2
      <4> QED
        BY <2>1, <2>6, <4>1 DEF Flat
    <3> QED
      BY <3>1, <3>2
  <2>8. Flat(g, q, k + 1)
    BY <2>7 DEF Flat
  <2> QED
    BY <2>2, <2>5, <2>8
<1>4. n \in K
  <2> HIDE DEF K
  <2>1. \A k \in 0..n : k \in K
    BY <1>1, <1>2, <1>3, SetInduction
  <2> QED
    BY <1>1, <2>1
<1> QED
  BY <1>4

\* And no other one.
LEMMA FlatUnique ==
  ASSUME NEW n \in Nat, NEW f, NEW g, NEW p, NEW q, Flat(f, p, n), Flat(g, q, n),
         Same(p, q, n)
  PROVE  Same(f, g, n)
<1> DEFINE K == {k \in 0..n : k = 0 \/ f[k] = g[k]}
<1>1. 0 \in K
  OBVIOUS
<1>2. ASSUME NEW k \in 0..(n - 1), k \in K PROVE k + 1 \in K
  <2>1. k + 1 \in 1..n /\ k + 1 \in 0..n /\ (k + 1) - 1 = k /\ (k + 1 = 1 <=> k = 0)
    OBVIOUS
  <2>2. f[k + 1] = IF k = 0 THEN p[k + 1] ELSE f[k] \o p[k + 1]
    BY <2>1 DEF Flat
  <2>3. g[k + 1] = IF k = 0 THEN q[k + 1] ELSE g[k] \o q[k + 1]
    BY <2>1 DEF Flat
  <2>4. p[k + 1] = q[k + 1]
    BY <2>1 DEF Same
  <2> QED
    BY <1>2, <2>1, <2>2, <2>3, <2>4
<1>3. \A k \in 0..n : k \in K
  <2> HIDE DEF K
  <2> QED
    BY <1>1, <1>2, SetInduction
<1> QED
  BY <1>3 DEF Same

\* FlattenSeq computes it.
LEMMA FlattenIsFlat ==
  ASSUME NEW C, NEW q \in Seq(Seq(C)), q # <<>>
  PROVE  /\ Len(q) \in 1..Len(q)
         /\ \E f \in [1..Len(q) -> Seq(C)] :
              Flat(f, q, Len(q)) /\ FlattenSeq(q) = f[Len(q)]
<1> DEFINE n == Len(q)
           flatten == CHOOSE g : g = [x \in 1..Len(q) |->
                                        IF x = 1 THEN q[x] ELSE g[x - 1] \o q[x]]
<1>1. n \in Nat /\ n # 0 /\ n \in 1..n
  BY EmptySeq, LenProperties
<1>2. PICK f \in [1..n -> Seq(C)] : Flat(f, q, n)
  BY FlatExists
<1>3. f = [x \in 1..n |-> IF x = 1 THEN q[x] ELSE f[x - 1] \o q[x]]
  BY <1>2 DEF Flat
<1>4. flatten = [x \in 1..n |-> IF x = 1 THEN q[x] ELSE flatten[x - 1] \o q[x]]
  BY <1>3
<1>5. FlattenSeq(q) = flatten[n]
  BY <1>1 DEF FlattenSeq
<1> HIDE DEF flatten
<1>6. Flat(flatten, q, n)
  BY <1>4 DEF Flat
<1>7. flatten[n] = f[n]
  <2>1. Same(q, q, n)
    BY DEF Same
  <2>2. Same(flatten, f, n)
    BY <1>1, <1>2, <1>6, <2>1, FlatUnique
  <2> QED
    BY <1>1, <2>2 DEF Same
<1> QED
  BY <1>1, <1>2, <1>5, <1>7

\* One sequence more goes to the end.
LEMMA FlattenAppend ==
  ASSUME NEW C, NEW q \in Seq(Seq(C)), NEW y \in Seq(C)
  PROVE  /\ FlattenSeq(q) \in Seq(C)
         /\ FlattenSeq(Append(q, y)) = FlattenSeq(q) \o y
<1> DEFINE n == Len(q)
           r == Append(q, y)
<1>1. n \in Nat /\ (q = <<>> <=> n = 0)
  BY EmptySeq, LenProperties
<1>2. /\ r \in Seq(Seq(C)) /\ Len(r) = n + 1 /\ r # <<>> /\ r[n + 1] = y
      /\ \A x \in 1..n : r[x] = q[x]
  BY AppendProperties
<1> HIDE DEF r
<1>3. PICK g \in [1..(n + 1) -> Seq(C)] : Flat(g, r, n + 1) /\ FlattenSeq(r) = g[n + 1]
  BY <1>2, FlattenIsFlat
<1>4. n + 1 \in 1..(n + 1) /\ (n + 1) - 1 = n /\ (n + 1 = 1 <=> n = 0)
  BY <1>1
<1>5. g[n + 1] = IF n = 0 THEN y ELSE g[n] \o y
  BY <1>2, <1>3, <1>4 DEF Flat
<1>6. CASE q = <<>>
  <2>1. FlattenSeq(q) = <<>>
    BY <1>1, <1>6 DEF FlattenSeq
  <2>2. <<>> \o y = y
    BY ConcatEmptySeq
  <2> QED
    BY <1>1, <1>3, <1>5, <1>6, <2>1, <2>2, EmptySeq DEF r
<1>7. CASE q # <<>>
  <2>1. PICK f \in [1..n -> Seq(C)] : Flat(f, q, n) /\ FlattenSeq(q) = f[n]
    BY <1>7, FlattenIsFlat
  <2>2. Flat(g, r, n)
    <3>1. \A x \in 1..n : x \in 1..(n + 1)
      BY <1>1
    <3> QED
      BY <1>3, <3>1 DEF Flat
  <2>3. n \in 1..n
    BY <1>1, <1>7
  <2>4. f[n] = g[n] /\ f[n] \in Seq(C)
    <3>1. Same(q, r, n)
      BY <1>2 DEF Same
    <3>2. Same(f, g, n)
      BY <1>1, <2>1, <2>2, <3>1, FlatUnique
    <3> QED
      BY <2>1, <2>3, <3>2 DEF Same
  <2> QED
    BY <1>1, <1>3, <1>5, <1>7, <2>1, <2>4 DEF r
<1> QED
  BY <1>6, <1>7

(***************************************************************************)
(* The Bloom filter: its bytes stand for a set of positions.               *)
(***************************************************************************)
Filters == [0..(BLOOMSIZE - 1) -> SUBSET (0..7)]

\* The positions whose bit is set.
Positions(filter) == {h \in 0..(8 * BLOOMSIZE - 1) : h % 8 \in filter[h \div 8]}

\* A position is a byte and a bit in it, those that the hash value sets.
LEMMA BytesAndBits ==
  ASSUME NEW N \in Nat \ {0}, NEW hash \in Nat
  PROVE  /\ hash % (8 * N) \in 0..(8 * N - 1)
         /\ hash % 8 = (hash % (8 * N)) % 8
         /\ \A h \in 0..(8 * N - 1) : h \div 8 \in 0..(N - 1) /\ h % 8 \in 0..7
         /\ \A h, k \in 0..(8 * N - 1) : h \div 8 = k \div 8 /\ h % 8 = k % 8 => h = k
<1> DEFINE r == hash % (8 * N)
           d == hash \div (8 * N)
<1>1. 8 * N \in Nat /\ 8 * N > 0
  OBVIOUS
<1>2. hash = (8 * N) * d + r /\ d \in Nat /\ r \in 0..(8 * N - 1)
  BY <1>1
<1>3. N * d \in Nat
  BY <1>2
<1>4. (8 * N) * d = 8 * (N * d)
  BY <1>2
<1> HIDE DEF r, d
<1>5. \A m \in Nat : \A x \in Nat : (8 * m + x) % 8 = x % 8
  OBVIOUS
<1>6. hash % 8 = r % 8
  <2>1. hash = 8 * (N * d) + r /\ r \in Nat
    BY <1>2, <1>4
  <2> DEFINE m == N * d
  <2> HIDE DEF m
  <2>2. hash = 8 * m + r /\ m \in Nat
    BY <1>3, <2>1 DEF m
  <2> QED
    BY <1>5, <2>1, <2>2
<1>7. \A h \in 0..(8 * N - 1) : h \div 8 \in 0..(N - 1) /\ h % 8 \in 0..7
  OBVIOUS
<1>8. \A h, k \in 0..(8 * N - 1) : h \div 8 = k \div 8 /\ h % 8 = k % 8 => h = k
  <2>1. \A h \in Nat : h = 8 * (h \div 8) + (h % 8)
    OBVIOUS
  <2>2. \A h \in 0..(8 * N - 1) : h \in Nat
    OBVIOUS
  <2> QED
    BY <2>1, <2>2
<1> QED
  BY <1>2, <1>6, <1>7, <1>8 DEF r

\* One hash value: its position is found or not, and set.
LEMMA OneBit ==
  ASSUME NEW f \in [filter : Filters, retval : BOOLEAN], NEW hash \in Nat
  PROVE  /\ TestAndSet(f, hash) \in [filter : Filters, retval : BOOLEAN]
         /\ Positions(TestAndSet(f, hash).filter) =
              Positions(f.filter) \union {hash % (8 * BLOOMSIZE)}
         /\ TestAndSet(f, hash).retval =
              (f.retval /\ hash % (8 * BLOOMSIZE) \in Positions(f.filter))
<1> DEFINE r == hash % (8 * BLOOMSIZE)
           place == r \div 8
           bit == r % 8
           byte == f.filter[place]
           prev == SignExtended(byte)
           value == prev \union {hash % 8}
           after == [f.filter EXCEPT ![place] = value \intersect 0..7]
<1>1. BLOOMSIZE \in Nat \ {0}
  BY QueryTextAssumption
<1>2. /\ r \in 0..(8 * BLOOMSIZE - 1) /\ hash % 8 = bit
      /\ place \in 0..(BLOOMSIZE - 1) /\ bit \in 0..7
  BY <1>1, BytesAndBits
<1>3. /\ \A h \in 0..(8 * BLOOMSIZE - 1) : h \div 8 \in 0..(BLOOMSIZE - 1) /\ h % 8 \in 0..7
      /\ \A h \in 0..(8 * BLOOMSIZE - 1) : h \div 8 = place /\ h % 8 = bit => h = r
  BY <1>1, <1>2, BytesAndBits
<1>4. byte \in SUBSET (0..7) /\ f.filter \in Filters
  BY <1>2 DEF Filters
<1>5. TestAndSet(f, hash) = [filter |-> after, retval |-> f.retval /\ value = prev]
  BY DEF TestAndSet, Retval, Place
<1>6. r \in Positions(f.filter) <=> bit \in byte
  BY <1>2 DEF Positions
<1> HIDE DEF r, place, bit, byte
<1>7. \A x \in 0..7 : x \in prev <=> x \in byte
  BY <1>4 DEF SignExtended
<1>8. value = prev <=> bit \in byte
  BY <1>2, <1>7
<1>9. value \intersect 0..7 = byte \union {bit}
  BY <1>2, <1>4, <1>7
<1> HIDE DEF value, prev
<1>10. /\ after \in Filters
       /\ \A x \in 0..(BLOOMSIZE - 1) :
            after[x] = IF x = place THEN byte \union {bit} ELSE f.filter[x]
  BY <1>2, <1>4, <1>9 DEF Filters
<1> HIDE DEF after
<1>11. ASSUME NEW h \in 0..(8 * BLOOMSIZE - 1)
       PROVE  h % 8 \in after[h \div 8] <=> h % 8 \in f.filter[h \div 8] \/ h = r
  <2>1. h \div 8 \in 0..(BLOOMSIZE - 1)
    BY <1>3
  <2>2. CASE h \div 8 = place
    <3>1. after[h \div 8] = f.filter[h \div 8] \union {bit}
      BY <1>10, <2>1, <2>2 DEF byte
    <3>2. h % 8 = bit <=> h = r
      BY <1>3, <2>2 DEF bit
    <3> QED
      BY <3>1, <3>2
  <2>3. CASE h \div 8 # place
    <3>1. after[h \div 8] = f.filter[h \div 8] /\ h # r
      BY <1>10, <2>1, <2>3 DEF place
    <3> QED
      BY <3>1
  <2> QED
    BY <2>2, <2>3
<1>12. Positions(after) = Positions(f.filter) \union {r}
  BY <1>2, <1>11 DEF Positions
<1>13. f.retval \in BOOLEAN
  OBVIOUS
<1> QED
  BY <1>5, <1>6, <1>8, <1>10, <1>12, <1>13 DEF r

\* One call of findInBloom, hash value by hash value.
HashByHash(ngram, filter) ==
  \E F \in [0..Len(Hash[ngram]) -> [filter : Filters, retval : BOOLEAN]] :
    /\ F[0] = [filter |-> filter, retval |-> TRUE]
    /\ \A k \in 1..Len(Hash[ngram]) : F[k] = TestAndSet(F[k - 1], Hash[ngram][k])
    /\ FindInBloom(ngram, filter) = F[Len(Hash[ngram])]

\* The hash values are tested one after the other.
LEMMA FindInBloomRuns ==
  ASSUME NEW ngram \in DOMAIN Hash, NEW filter \in Filters
  PROVE  HashByHash(ngram, filter)
<1> DEFINE w == Hash[ngram]
           n == Len(w)
           T == [filter : Filters, retval : BOOLEAN]
           none == [filter |-> filter, retval |-> TRUE]
           G == [x \in T \X (1..n) |-> TestAndSet(x[1], w[x[2]])]
           h == CHOOSE g : g = [d \in SUBSET DOMAIN w |->
                                  IF d = {} THEN none
                                  ELSE TestAndSet(g[d \ {Max(d)}], w[Max(d)])]
           F == [k \in 0..n |-> h[1..k]]
<1>1. n \in Nat /\ DOMAIN w = 1..n /\ \A k \in 1..n : w[k] \in Nat
  <2>1. w \in Seq(Nat)
    BY QueryTextAssumption
  <2> HIDE DEF w
  <2> QED
    BY <2>1, LenProperties, ElementOfSeq
<1>2. none \in T
  OBVIOUS
<1>3. FindInBloom(ngram, filter) = h[DOMAIN w]
  BY DEF FindInBloom, FoldLeft, MapThenFoldSet
<1> HIDE DEF w, n, none
<1>4. \A f \in T : \A k \in 1..n : TestAndSet(f, w[k]) \in T
  BY <1>1, OneBit
<1> HIDE DEF T
<1>5. G \in [T \X (1..n) -> T] /\ \A f \in T : \A k \in 1..n : G[<<f, k>>] = TestAndSet(f, w[k])
  BY <1>4
<1> HIDE DEF G
<1>6. h = [d \in SUBSET DOMAIN w |->
             IF d = {} THEN none ELSE TestAndSet(h[d \ {Max(d)}], w[Max(d)])]
  <2>1. PICK g \in [SUBSET (1..n) -> T] : FoldsTo(g, n, none, G)
    BY <1>1, <1>2, <1>5, FoldExists
  <2>2. ASSUME NEW d \in SUBSET (1..n), d # {}
        PROVE  g[d] = TestAndSet(g[d \ {Max(d)}], w[Max(d)])
    <3>1. Max(d) \in 1..n /\ g[d \ {Max(d)}] \in T
      BY <1>1, <2>2, MaxNumber
    <3> QED
      BY <1>5, <2>1, <2>2, <3>1 DEF FoldsTo
  <2>3. g[{}] = none
    BY <2>1 DEF FoldsTo
  <2>4. g = [d \in SUBSET DOMAIN w |->
               IF d = {} THEN none ELSE TestAndSet(g[d \ {Max(d)}], w[Max(d)])]
    BY <1>1, <2>2, <2>3
  <2> QED
    BY <2>4
<1> HIDE DEF h
<1>7. FoldRun(F, n, T, none, G)
  <2>1. h[{}] = none
    BY <1>6
  <2>2. ASSUME NEW d \in SUBSET (1..n), d # {}, h[d \ {Max(d)}] \in T
        PROVE  h[d] = G[<<h[d \ {Max(d)}], Max(d)>>]
    <3>1. Max(d) \in 1..n
      BY <1>1, <2>2, MaxNumber
    <3>2. h[d] = TestAndSet(h[d \ {Max(d)}], w[Max(d)])
      BY <1>1, <1>6, <2>2
    <3> QED
      BY <1>5, <2>2, <3>1, <3>2
  <2> QED
    BY <1>1, <1>2, <1>5, <2>1, <2>2, FoldRuns
<1>8. F[n] = h[1..n]
  BY <1>1
<1> HIDE DEF F
<1>9. /\ F \in [0..n -> T] /\ F[0] = none /\ F[n] = h[DOMAIN w]
      /\ \A k \in 1..n : F[k] = TestAndSet(F[k - 1], w[k])
  <2>1. \A k \in 1..n : k - 1 \in 0..n
    BY <1>1
  <2>2. /\ F \in [0..n -> T] /\ F[0] = none /\ F[n] = h[DOMAIN w]
        /\ \A k \in 1..n : F[k] = G[<<F[k - 1], k>>]
    BY <1>1, <1>7, <1>8 DEF FoldRun
  <2>3. \A k \in 1..n : F[k] = TestAndSet(F[k - 1], w[k])
    BY <1>5, <2>1, <2>2
  <2> QED
    BY <2>2, <2>3
<1>10. /\ F \in [0..n -> T] /\ F[0] = none /\ FindInBloom(ngram, filter) = F[n]
       /\ \A k \in 1..n : F[k] = TestAndSet(F[k - 1], w[k])
  BY <1>3, <1>9
<1> QED
  BY <1>10 DEF HashByHash, n, T, none, w

\* findInBloom sets the positions of an n-gram, and returns whether they were
\* all set before.
LEMMA AskedBloom ==
  ASSUME NEW ngram \in DOMAIN Hash, NEW filter \in Filters
  PROVE  /\ FindInBloom(ngram, filter).filter \in Filters
         /\ Positions(FindInBloom(ngram, filter).filter) = Positions(filter) \union Bits[ngram]
         /\ FindInBloom(ngram, filter).retval <=> Bits[ngram] \subseteq Positions(filter)
<1> DEFINE w == Hash[ngram]
           n == Len(w)
           T == [filter : Filters, retval : BOOLEAN]
           At(k) == w[k] % (8 * BLOOMSIZE)
           Set(k) == {At(x) : x \in 1..k}
<1>1. n \in Nat /\ DOMAIN w = 1..n /\ \A k \in 1..n : w[k] \in Nat
  <2>1. w \in Seq(Nat)
    BY QueryTextAssumption
  <2> HIDE DEF w
  <2> QED
    BY <2>1, LenProperties, ElementOfSeq
<1>2. HashByHash(ngram, filter)
  BY FindInBloomRuns
<1>3. PICK F \in [0..n -> T] :
        /\ F[0] = [filter |-> filter, retval |-> TRUE]
        /\ \A k \in 1..n : F[k] = TestAndSet(F[k - 1], w[k])
        /\ FindInBloom(ngram, filter) = F[n]
  BY <1>2 DEF HashByHash
<1>4. Bits[ngram] = Set(n)
  BY <1>1 DEF Bits
<1> HIDE DEF w, n
<1> DEFINE K == {k \in 0..n : /\ Positions(F[k].filter) = Positions(filter) \union Set(k)
                              /\ F[k].retval <=> Set(k) \subseteq Positions(filter)}
<1>5. 0 \in K
  <2>1. Set(0) = {}
    OBVIOUS
  <2>2. 0 \in 0..n
    BY <1>1
  <2> HIDE DEF Set
  <2> QED
    BY <1>3, <2>1, <2>2
<1>6. ASSUME NEW k \in 0..(n - 1), k \in K PROVE k + 1 \in K
  <2>1. k + 1 \in 1..n /\ k + 1 \in 0..n /\ (k + 1) - 1 = k /\ k \in 0..n
    BY <1>1
  <2>2. F[k] \in T /\ w[k + 1] \in Nat /\ F[k + 1] = TestAndSet(F[k], w[k + 1])
    BY <1>1, <1>3, <2>1
  <2>3. /\ Positions(F[k + 1].filter) = Positions(F[k].filter) \union {At(k + 1)}
        /\ F[k + 1].retval = (F[k].retval /\ At(k + 1) \in Positions(F[k].filter))
    <3>1. F[k].filter \in Filters /\ F[k].retval \in BOOLEAN
      BY <2>2
    <3> HIDE DEF T
    <3>2. /\ Positions(TestAndSet(F[k], w[k + 1]).filter) =
               Positions(F[k].filter) \union {w[k + 1] % (8 * BLOOMSIZE)}
          /\ TestAndSet(F[k], w[k + 1]).retval =
               (F[k].retval /\ w[k + 1] % (8 * BLOOMSIZE) \in Positions(F[k].filter))
      BY <2>2, <3>1, OneBit DEF T
    <3> QED
      BY <2>2, <3>2
  <2>4. Set(k + 1) = Set(k) \union {At(k + 1)}
    <3>1. 1..(k + 1) = (1..k) \union {k + 1}
      BY <2>1
    <3> HIDE DEF At
    <3> QED
      BY <3>1
  <2> HIDE DEF Set, At
  <2>5. /\ Positions(F[k].filter) = Positions(filter) \union Set(k)
        /\ F[k].retval <=> Set(k) \subseteq Positions(filter)
    BY <1>6
  <2>6. Positions(F[k + 1].filter) = Positions(filter) \union Set(k + 1)
    BY <2>3, <2>4, <2>5
  <2>7. F[k + 1].retval <=> Set(k + 1) \subseteq Positions(filter)
    <3>1. CASE F[k].retval
      BY <2>3, <2>4, <2>5, <3>1
    <3>2. CASE ~F[k].retval
      BY <2>3, <2>4, <2>5, <3>2
    <3> QED
      BY <3>1, <3>2
  <2> QED
    BY <2>1, <2>6, <2>7
<1>7. n \in K
  <2> HIDE DEF K
  <2>1. \A k \in 0..n : k \in K
    BY <1>1, <1>5, <1>6, SetInduction
  <2> QED
    BY <1>1, <2>1
<1>8. F[n] \in T
  BY <1>1, <1>3
<1> HIDE DEF Set
<1> QED
  BY <1>3, <1>4, <1>7, <1>8

(***************************************************************************)
(* What the search has found when it stands at a node.                     *)
(***************************************************************************)
Seen(t) == {p \in DOMAIN t : t[p]}

\* The first calls of trieSearch_Ngram, one after the other.
IsCalls(F, t, w) ==
  /\ F \in [0..Len(w) -> Found(w, Seen(t), Bits)]
  /\ F[0] = [bloom |-> {}, answer |-> <<>>]
  /\ \A k \in 1..Len(w) : F[k] = SearchNgram(t, w, Seen(t), Bits, F[k - 1], k)
  /\ Scan(t, w, Seen(t), Bits) = F[Len(w)].answer
Calls(t, w) == CHOOSE F : IsCalls(F, t, w)

\* The first nodes of the call from the b-th word on.
IsNodes(H, t, w, b) ==
  /\ H \in [0..Reach(t, w, b) -> Found(w, Seen(t), Bits)]
  /\ H[0] = Calls(t, w)[b - 1]
  /\ \A k \in 1..Reach(t, w, b) :
       H[k] = IF Walk(t, w, b)[k] \in Seen(t)
              THEN Report(H[k - 1], Walk(t, w, b)[k], Bits) ELSE H[k - 1]
  /\ Calls(t, w)[b] = H[Reach(t, w, b)]
Nodes(t, w, b) == CHOOSE H : IsNodes(H, t, w, b)

\* What is found when the words from the b-th to the one before the k-th were
\* followed.
FoundAt(t, w, b, k) ==
  IF b <= Len(w) THEN Nodes(t, w, b)[k - b] ELSE Calls(t, w)[Len(w)]

\* There are such sequences of what was found.
LEMMA CallsAre ==
  ASSUME NEW W, NEW t, NEW w \in Seq(W)
  PROVE  IsCalls(Calls(t, w), t, w)
<1>1. CallByCall(t, w, Seen(t), Bits)
  BY ScanRuns
<1>2. \E F : IsCalls(F, t, w)
  BY <1>1 DEF CallByCall, IsCalls
<1> QED
  BY <1>2 DEF Calls

\* For each call there is one, too.
LEMMA NodesAre ==
  ASSUME NEW W, NEW t, NEW w \in Seq(W), NEW b \in 1..Len(w)
  PROVE  IsNodes(Nodes(t, w, b), t, w, b)
<1>1. IsCalls(Calls(t, w), t, w)
  BY CallsAre
<1>2. Len(w) \in Nat /\ b - 1 \in 0..Len(w)
  BY LenProperties
<1>3. Calls(t, w)[b - 1] \in Found(w, Seen(t), Bits)
  BY <1>1, <1>2 DEF IsCalls
<1>4. NodeByNode(t, w, Seen(t), Bits, Calls(t, w)[b - 1], b)
  BY <1>3, SearchNgramRuns
<1>5. Calls(t, w)[b] = SearchNgram(t, w, Seen(t), Bits, Calls(t, w)[b - 1], b)
  BY <1>1 DEF IsCalls
<1>6. \E H : IsNodes(H, t, w, b)
  BY <1>4, <1>5 DEF NodeByNode, IsNodes
<1> QED
  BY <1>6 DEF Nodes

\* The search begins with nothing, and a call with what the one before it found.
LEMMA FoundFirst ==
  ASSUME NEW W, NEW t, NEW w \in Seq(W)
  PROVE  /\ FoundAt(t, w, 1, 1) = [bloom |-> {}, answer |-> <<>>]
         /\ \A b \in 1..Len(w) : FoundAt(t, w, b + 1, b + 1) = Calls(t, w)[b]
         /\ \A b \in 1..Len(w) : 0 \in 0..Reach(t, w, b)
<1>1. Len(w) \in Nat
  BY LenProperties
<1>2. IsCalls(Calls(t, w), t, w)
  BY CallsAre
<1>3. \A b \in 1..Len(w) : Nodes(t, w, b)[0] = Calls(t, w)[b - 1]
  BY NodesAre DEF IsNodes
<1>4. \A b \in 1..Len(w) : 0 \in 0..Reach(t, w, b)
  <2>1. \A b \in 1..Len(w) : Reach(t, w, b) \in Nat
    BY WalkPieces
  <2>2. \A m \in Nat : 0 \in 0..m
    OBVIOUS
  <2> QED
    BY <2>1, <2>2
<1>5. FoundAt(t, w, 1, 1) = [bloom |-> {}, answer |-> <<>>]
  <2>1. CASE 1 <= Len(w)
    <3>1. 1 \in 1..Len(w) /\ 1 - 1 = 0
      BY <1>1, <2>1
    <3>2. FoundAt(t, w, 1, 1) = Calls(t, w)[0]
      BY <1>3, <2>1, <3>1 DEF FoundAt
    <3> QED
      BY <1>2, <3>2 DEF IsCalls
  <2>2. CASE ~(1 <= Len(w))
    <3>1. Len(w) = 0
      BY <1>1, <2>2
    <3> QED
      BY <1>2, <3>1 DEF FoundAt, IsCalls
  <2> QED
    BY <2>1, <2>2
<1>6. ASSUME NEW b \in 1..Len(w)
      PROVE  FoundAt(t, w, b + 1, b + 1) = Calls(t, w)[b]
  <2>1. b \in Nat /\ (b + 1) - (b + 1) = 0 /\ (b + 1) - 1 = b
    OBVIOUS
  <2>2. CASE b + 1 <= Len(w)
    <3>1. b + 1 \in 1..Len(w)
      BY <1>1, <2>2
    <3>2. Nodes(t, w, b + 1)[0] = Calls(t, w)[b]
      BY <1>3, <2>1, <3>1
    <3> QED
      BY <2>1, <2>2, <3>2 DEF FoundAt
  <2>3. CASE ~(b + 1 <= Len(w))
    <3>1. b = Len(w)
      BY <1>1, <2>3
    <3> QED
      BY <2>3, <3>1 DEF FoundAt
  <2> QED
    BY <2>2, <2>3
<1> QED
  BY <1>4, <1>5, <1>6

\* The search goes on at a node: its n-gram is reported if it is seen.
LEMMA FoundNext ==
  ASSUME NEW W, NEW t, NEW w \in Seq(W), NEW b \in 1..Len(w), NEW k \in b..Len(w),
         k - b \in 0..Reach(t, w, b), SubSeq(w, b, k) \in DOMAIN t
  PROVE  /\ (k + 1) - b \in 0..Reach(t, w, b)
         /\ FoundAt(t, w, b, k + 1) =
              IF SubSeq(w, b, k) \in Seen(t)
              THEN Report(FoundAt(t, w, b, k), SubSeq(w, b, k), Bits)
              ELSE FoundAt(t, w, b, k)
<1> DEFINE n == Reach(t, w, b)
           d == k - b
<1>1. /\ Len(w) \in Nat /\ n \in Nat /\ d \in Nat /\ d <= n /\ b \in Nat /\ k \in Nat
      /\ n <= Len(w) - b + 1
      /\ b + d = k /\ b <= Len(w) /\ k <= Len(w)
  <2>1. Len(w) \in Nat /\ n \in Nat /\ n <= Len(w) - b + 1
    BY LenProperties, WalkPieces
  <2> HIDE DEF n
  <2> QED
    BY <2>1 DEF n
<1>2. d # n
  <2> SUFFICES ASSUME d = n PROVE FALSE
    OBVIOUS
  <2>1. n < Len(w) - b + 1
    <3> HIDE DEF n
    <3> QED
      BY <1>1
  <2>2. SubSeq(w, b, b + n) \notin DOMAIN t
    BY <2>1, WalkPieces
  <2> QED
    BY <1>1, <2>2
<1>3. /\ d + 1 \in 1..n /\ d + 1 \in 0..n /\ (d + 1) - 1 = d
      /\ (k + 1) - b = d + 1 /\ b + (d + 1) - 1 = k
  <2> HIDE DEF n
  <2> QED
    BY <1>1, <1>2
<1>4. Walk(t, w, b)[d + 1] = SubSeq(w, b, k)
  <2>1. Walk(t, w, b)[d + 1] = SubSeq(w, b, b + (d + 1) - 1)
    BY <1>3 DEF Walk
  <2> QED
    BY <1>3, <2>1
<1>5. IsNodes(Nodes(t, w, b), t, w, b)
  BY NodesAre
<1>6. Nodes(t, w, b)[d + 1] =
        IF SubSeq(w, b, k) \in Seen(t)
        THEN Report(Nodes(t, w, b)[d], SubSeq(w, b, k), Bits)
        ELSE Nodes(t, w, b)[d]
  BY <1>3, <1>4, <1>5 DEF IsNodes
<1> HIDE DEF n
<1> QED
  BY <1>1, <1>3, <1>6 DEF FoundAt, n

\* A call ends where the text does, or leaves the trie.
LEMMA FoundLast ==
  ASSUME NEW W, NEW t, NEW w \in Seq(W), NEW b \in 1..Len(w), NEW k \in b..(Len(w) + 1),
         k - b \in 0..Reach(t, w, b), ~(k <= Len(w) /\ SubSeq(w, b, k) \in DOMAIN t)
  PROVE  FoundAt(t, w, b, k) = Calls(t, w)[b]
<1> DEFINE n == Reach(t, w, b)
           d == k - b
<1>1. /\ Len(w) \in Nat /\ n \in Nat /\ d \in Nat /\ d <= n /\ b \in Nat /\ k \in Nat
      /\ n <= Len(w) - b + 1 /\ b + d = k /\ b <= Len(w) /\ k <= Len(w) + 1
  <2>1. Len(w) \in Nat /\ n \in Nat /\ n <= Len(w) - b + 1
    BY LenProperties, WalkPieces
  <2> HIDE DEF n
  <2> QED
    BY <2>1 DEF n
<1>2. d = n
  <2> SUFFICES ASSUME d # n PROVE FALSE
    OBVIOUS
  <2>1. d + 1 \in 1..n /\ b + (d + 1) - 1 = k /\ k <= Len(w)
    <3> HIDE DEF n
    <3> QED
      BY <1>1
  <2>2. Walk(t, w, b)[d + 1] = SubSeq(w, b, b + (d + 1) - 1)
    BY <2>1 DEF Walk
  <2>3. Walk(t, w, b)[d + 1] \in DOMAIN t
    BY <2>1, WalkPieces
  <2> QED
    BY <2>1, <2>2, <2>3
<1>3. Calls(t, w)[b] = Nodes(t, w, b)[n]
  BY NodesAre DEF IsNodes
<1> QED
  BY <1>1, <1>2, <1>3 DEF FoundAt

(***************************************************************************)
(* The bytes of n-grams and answers.                                       *)
(***************************************************************************)
Spaced(ngram) == FlattenSeq([x \in DOMAIN ngram |-> ngram[x] \o <<" ">>])
Barred(ngrams) == FlattenSeq([x \in DOMAIN ngrams |-> Spelled(ngrams[x]) \o <<"|">>])

Ngram == Seq(Seq(Chars)) \ {<<>>}

\* A function on one number more puts its last value at the end.
LEMMA FlattenNext ==
  ASSUME NEW C, NEW n \in Nat, NEW f \in [1..n -> Seq(C)],
         NEW g \in [1..(n + 1) -> Seq(C)], Same(f, g, n)
  PROVE  /\ FlattenSeq(f) \in Seq(C)
         /\ FlattenSeq(g) = FlattenSeq(f) \o g[n + 1]
<1>1. f \in Seq(Seq(C)) /\ Len(f) = n /\ g \in Seq(Seq(C)) /\ Len(g) = n + 1
  OBVIOUS
<1>2. n + 1 \in 1..(n + 1) /\ g[n + 1] \in Seq(C)
  OBVIOUS
<1>3. /\ Append(f, g[n + 1]) \in Seq(Seq(C)) /\ Len(Append(f, g[n + 1])) = n + 1
      /\ \A x \in 1..n : Append(f, g[n + 1])[x] = f[x]
      /\ Append(f, g[n + 1])[n + 1] = g[n + 1]
  BY <1>1, <1>2, AppendProperties
<1>4. g = Append(f, g[n + 1])
  <2>1. \A x \in 1..(n + 1) : x \in 1..n \/ x = n + 1
    OBVIOUS
  <2>2. \A x \in 1..(n + 1) : g[x] = Append(f, g[n + 1])[x]
    BY <1>3, <2>1 DEF Same
  <2> QED
    BY <1>1, <1>3, <2>2, SeqEqual
<1> QED
  BY <1>1, <1>2, <1>4, FlattenAppend


\* One character.
LEMMA Single ==
  ASSUME NEW C, NEW x \in C
  PROVE  <<x>> \in Seq(C)
OBVIOUS

\* A character after two sequences, or after the second of them.
LEMMA Regrouped ==
  ASSUME NEW C, NEW x \in Seq(C), NEW y \in Seq(C), NEW c \in C
  PROVE  x \o (y \o <<c>>) = Append(x \o y, c)
<1> DEFINE z == <<c>>
<1>1. z \in Seq(C)
  BY Single
<1>2. x \o y \in Seq(C)
  BY ConcatProperties
<1>3. Append(x \o y, c) = (x \o y) \o z
  BY <1>2, AppendIsConcat
<1> HIDE DEF z
<1>4. (x \o y) \o z = x \o (y \o z)
  BY <1>1, ConcatAssociative
<1> QED
  BY <1>3, <1>4 DEF z

\* The words of an n-gram, each with a space after it.
LEMMA SpacedNext ==
  ASSUME NEW w \in Seq(Seq(Chars)), NEW b \in 1..Len(w), NEW k \in b..Len(w)
  PROVE  /\ Spaced(SubSeq(w, b, k - 1)) \in Seq(Chars)
         /\ Spaced(SubSeq(w, b, k)) = Append(Spaced(SubSeq(w, b, k - 1)) \o w[k], " ")
<1> DEFINE n == k - b
           p == SubSeq(w, b, k - 1)
           q == SubSeq(w, b, k)
           f == [x \in DOMAIN p |-> p[x] \o <<" ">>]
           g == [x \in DOMAIN q |-> q[x] \o <<" ">>]
<1>1. /\ Len(w) \in Nat /\ n \in Nat /\ b \in Int /\ k \in Int /\ k - 1 \in Int
      /\ (k - 1) - b + 1 = n /\ k - b + 1 = n + 1
      /\ (b <= k - 1 \/ n = 0) /\ b <= k
      /\ b + (n + 1) - 1 = k /\ n + 1 \in 1..(n + 1)
  BY LenProperties
<1>2. \A x \in 1..Len(w) : w[x] \in Seq(Chars)
  BY ElementOfSeq
<1>3. /\ \A x \in b..(k - 1) : x \in 1..Len(w)
      /\ \A x \in b..k : x \in 1..Len(w)
  BY <1>1
<1>4. /\ p \in Seq(Seq(Chars)) /\ Len(p) = n
      /\ \A x \in 1..n : p[x] = w[b + x - 1]
  <2>1. \A x \in b..(k - 1) : w[x] \in Seq(Chars)
    BY <1>2, <1>3
  <2>2. /\ p \in Seq(Seq(Chars))
        /\ Len(p) = IF b <= k - 1 THEN (k - 1) - b + 1 ELSE 0
        /\ \A x \in 1..((k - 1) - b + 1) : p[x] = w[b + x - 1]
    BY <1>1, <2>1, SubSeqProperties
  <2> HIDE DEF p, n
  <2> QED
    BY <1>1, <2>2
<1>5. /\ q \in Seq(Seq(Chars)) /\ Len(q) = n + 1
      /\ \A x \in 1..(n + 1) : q[x] = w[b + x - 1]
  <2>1. \A x \in b..k : w[x] \in Seq(Chars)
    BY <1>2, <1>3
  <2>2. /\ q \in Seq(Seq(Chars))
        /\ Len(q) = IF b <= k THEN k - b + 1 ELSE 0
        /\ \A x \in 1..(k - b + 1) : q[x] = w[b + x - 1]
    BY <1>1, <2>1, SubSeqProperties
  <2> HIDE DEF q, n
  <2> QED
    BY <1>1, <2>2
<1> HIDE DEF p, q, n
<1>6. " " \in Chars
  BY Constants
<1>7. \A y \in Seq(Chars) : y \o <<" ">> \in Seq(Chars)
  <2>1. <<" ">> \in Seq(Chars)
    BY <1>6, Single
  <2> QED
    BY <2>1, ConcatProperties
<1>8. f \in [1..n -> Seq(Chars)]
  <2>1. DOMAIN p = 1..n /\ \A x \in 1..n : p[x] \in Seq(Chars)
    BY <1>1, <1>4, LenProperties, ElementOfSeq
  <2> QED
    BY <1>7, <2>1
<1>9. g \in [1..(n + 1) -> Seq(Chars)] /\ g[n + 1] = w[k] \o <<" ">>
  <2>1. DOMAIN q = 1..(n + 1) /\ \A x \in 1..(n + 1) : q[x] \in Seq(Chars)
    BY <1>1, <1>5, LenProperties, ElementOfSeq
  <2>2. q[n + 1] = w[k]
    BY <1>1, <1>5
  <2> QED
    BY <1>1, <1>7, <2>1, <2>2
<1>10. Same(f, g, n)
  <2>1. DOMAIN p = 1..n /\ DOMAIN q = 1..(n + 1)
    BY <1>4, <1>5, LenProperties
  <2>2. \A x \in 1..n : x \in 1..(n + 1)
    BY <1>1
  <2>3. \A x \in 1..n : p[x] = q[x]
    BY <1>4, <1>5, <2>2
  <2> QED
    BY <2>1, <2>2, <2>3 DEF Same
<1>11. Spaced(p) = FlattenSeq(f) /\ Spaced(q) = FlattenSeq(g)
  BY DEF Spaced
<1> HIDE DEF f, g
<1>12. Spaced(p) \in Seq(Chars) /\ Spaced(q) = Spaced(p) \o (w[k] \o <<" ">>)
  <2>1. n \in Nat /\ f \in [1..n -> Seq(Chars)] /\ g \in [1..(n + 1) -> Seq(Chars)]
    BY <1>1, <1>8, <1>9
  <2>2. FlattenSeq(f) \in Seq(Chars) /\ FlattenSeq(g) = FlattenSeq(f) \o g[n + 1]
    BY <1>10, <2>1, FlattenNext
  <2> QED
    BY <1>9, <1>11, <2>2
<1>13. w[k] \in Seq(Chars)
  BY <1>2, <1>3, <1>1
<1>14. Spaced(p) \o (w[k] \o <<" ">>) = Append(Spaced(p) \o w[k], " ")
  <2> DEFINE y == w[k]
             z == Spaced(p)
             c == " "
  <2>1. z \in Seq(Chars) /\ y \in Seq(Chars) /\ c \in Chars
    BY <1>6, <1>12, <1>13
  <2> HIDE DEF y, z, c
  <2>2. z \o (y \o <<c>>) = Append(z \o y, c)
    BY <2>1, Regrouped
  <2> QED
    BY <2>2 DEF y, z, c
<1> QED
  BY <1>12, <1>14 DEF p, q

\* No word, no bytes.
LEMMA SpacedNone ==
  ASSUME NEW w \in Seq(Seq(Chars)), NEW b \in 1..(Len(w) + 1)
  PROVE  Spaced(SubSeq(w, b, b - 1)) = <<>>
<1>1. SubSeq(w, b, b - 1) = <<>>
  BY LenProperties, SubSeqProperties, EmptySeq
<1> QED
  BY <1>1 DEF Spaced, FlattenSeq

\* An n-gram has bytes.
LEMMA SpelledBytes ==
  ASSUME NEW p \in Ngram
  PROVE  /\ Spaced(p) \in Seq(Chars) \ {<<>>}
         /\ Spelled(p) = Front(Spaced(p)) /\ Spelled(p) \in Seq(Chars)
<1> DEFINE n == Len(p)
<1>1. /\ p \in Seq(Seq(Chars)) /\ n \in Nat /\ 1 \in 1..n /\ n \in 1..n
      /\ SubSeq(p, 1, n) = p
  <2>1. p \in Seq(Seq(Chars)) /\ p # <<>>
    BY DEF Ngram
  <2>2. n \in Nat /\ n # 0
    BY <2>1, EmptySeq, LenProperties
  <2> QED
    BY <2>1, <2>2, SubSeqFull
<1>2. p[n] \in Seq(Chars)
  BY <1>1, ElementOfSeq
<1>3. /\ Spaced(SubSeq(p, 1, n - 1)) \in Seq(Chars)
      /\ Spaced(p) = Append(Spaced(SubSeq(p, 1, n - 1)) \o p[n], " ")
  BY <1>1, SpacedNext
<1>4. Spaced(p) \in Seq(Chars) /\ Spaced(p) # <<>>
  BY <1>2, <1>3, Joined, Constants
<1>5. Spelled(p) = Front(Spaced(p))
  BY DEF Spelled, Spaced
<1> QED
  BY <1>4, <1>5, FrontTakesOne

\* An n-gram more at the end of an answer.
LEMMA BarredNext ==
  ASSUME NEW a \in Seq(Ngram), NEW p \in Ngram
  PROVE  /\ Barred(a) \in Seq(Chars)
         /\ Barred(Append(a, p)) = Append(Barred(a) \o Spelled(p), "|")
<1> DEFINE n == Len(a)
           c == Append(a, p)
           f == [x \in DOMAIN a |-> Spelled(a[x]) \o <<"|">>]
           g == [x \in DOMAIN c |-> Spelled(c[x]) \o <<"|">>]
<1>1. n \in Nat /\ n + 1 \in 1..(n + 1) /\ DOMAIN a = 1..n /\ \A x \in 1..n : a[x] \in Ngram
  BY LenProperties, ElementOfSeq
<1>2. /\ c \in Seq(Ngram) /\ Len(c) = n + 1 /\ c[n + 1] = p /\ DOMAIN c = 1..(n + 1)
      /\ \A x \in 1..n : c[x] = a[x]
  BY AppendProperties, LenProperties
<1> HIDE DEF c, n
<1>3. \A x \in 1..(n + 1) : c[x] \in Ngram
  BY <1>2, ElementOfSeq
<1>4. "|" \in Chars
  BY Constants
<1>5. \A y \in Ngram : /\ Spelled(y) \in Seq(Chars)
                       /\ Spelled(y) \o <<"|">> \in Seq(Chars)
  <2>1. <<"|">> \in Seq(Chars)
    BY <1>4, Single
  <2> QED
    BY <2>1, SpelledBytes, ConcatProperties
<1>6. f \in [1..n -> Seq(Chars)]
  BY <1>1, <1>5
<1>7. g \in [1..(n + 1) -> Seq(Chars)] /\ g[n + 1] = Spelled(p) \o <<"|">>
  BY <1>1, <1>2, <1>3, <1>5
<1>8. Same(f, g, n)
  <2>1. \A x \in 1..n : x \in 1..(n + 1)
    BY <1>1
  <2> QED
    BY <1>1, <1>2, <2>1 DEF Same
<1>9. Barred(a) = FlattenSeq(f) /\ Barred(c) = FlattenSeq(g)
  BY DEF Barred
<1> HIDE DEF f, g
<1>10. Barred(a) \in Seq(Chars) /\ Barred(c) = Barred(a) \o (Spelled(p) \o <<"|">>)
  BY <1>1, <1>6, <1>7, <1>8, <1>9, FlattenNext
<1>11. Barred(a) \o (Spelled(p) \o <<"|">>) = Append(Barred(a) \o Spelled(p), "|")
  BY <1>4, <1>5, <1>10, Regrouped
<1> QED
  BY <1>10, <1>11 DEF c


(***************************************************************************)
(* The search of the bytes finds what the operator Scan finds.             *)
(***************************************************************************)
\* Where the search stands: what it answered, and the bits it set.
Finding ==
  /\ trie \in Tries /\ bloomFilter \in Filters
  /\ pc = "split" => answered = <<>> /\ Positions(bloomFilter) = {}
  /\ pc \in {"walk", "copy", "append"} =>
       /\ start <= Len(words) => i - start \in 0..Reach(trie, words, start)
       /\ answered = FoundAt(trie, words, start, i).answer
       /\ Positions(bloomFilter) =
            FoundAt(trie, words, start, i).bloom \union
              (IF pc = "append" THEN Bits[Here] ELSE {})
  /\ pc \in {"copy", "append"} => Here \in Seen(trie)
  /\ pc = "append" => ~(Bits[Here] \subseteq FoundAt(trie, words, start, i).bloom)
  /\ pc = "done" => answered = Scan(trie, words, Seen(trie), Bits)

\* Nothing is found before the search.
LEMMA InitFinding == Init => Finding
<1> SUFFICES ASSUME Init PROVE Finding
  OBVIOUS
<1>1. BLOOMSIZE \in Nat \ {0}
  BY QueryTextAssumption
<1>2. /\ trie \in Tries /\ pc = "split" /\ answered = <<>>
      /\ bloomFilter = [place \in 0..(BLOOMSIZE - 1) |-> {}]
  BY DEF Init
<1>3. bloomFilter \in Filters
  BY <1>2 DEF Filters
<1>4. Positions(bloomFilter) = {}
  <2> SUFFICES ASSUME NEW h \in 0..(8 * BLOOMSIZE - 1) PROVE bloomFilter[h \div 8] = {}
    BY DEF Positions
  <2>1. h \div 8 \in 0..(BLOOMSIZE - 1)
    BY <1>1, BytesAndBits
  <2> QED
    BY <1>2, <2>1
<1> QED
  BY <1>2, <1>3, <1>4 DEF Finding

\* The places of a walk, and the words it goes through.
LEMMA AtWalk ==
  ASSUME TextInv, Finding
  PROVE  /\ words \in Seq(Seq(Chars)) /\ Len(words) \in Nat
         /\ start \in 1..(Len(words) + 1) /\ i \in start..(Len(words) + 1)
         /\ DOMAIN trie \subseteq DOMAIN Hash
         /\ start > Len(words) => start = Len(words) + 1 /\ i = start
         /\ start <= Len(words) => start \in 1..Len(words)
<1>1. words \in Seq(Seq(Chars)) /\ start \in 1..(Len(words) + 1) /\ i \in start..(Len(words) + 1)
  BY DEF TextInv, TypeOK
<1>2. Len(words) \in Nat
  BY <1>1, LenProperties
<1>3. DOMAIN trie \subseteq DOMAIN Hash
  BY QueryTextAssumption DEF Finding
<1> QED
  BY <1>1, <1>2, <1>3

\* A step from a node, when the n-gram was reported, or is none.
LEMMA FoundHere ==
  ASSUME TextInv, Finding, pc \in {"walk", "copy", "append"}, i <= Len(words),
         Here \in DOMAIN trie
  PROVE  /\ start \in 1..Len(words)
         /\ (i + 1) - start \in 0..Reach(trie, words, start)
         /\ FoundAt(trie, words, start, i + 1) =
              IF Here \in Seen(trie)
              THEN Report(FoundAt(trie, words, start, i), Here, Bits)
              ELSE FoundAt(trie, words, start, i)
<1>1. /\ words \in Seq(Seq(Chars)) /\ start \in 1..Len(words) /\ i \in start..Len(words)
      /\ start <= Len(words)
  BY AtWalk
<1>2. i - start \in 0..Reach(trie, words, start)
  BY <1>1 DEF Finding
<1>3. SubSeq(words, start, i) \in DOMAIN trie
  BY DEF Here
<1> QED
  BY <1>1, <1>2, <1>3, FoundNext DEF Here

\* The line is read, and the search begins at its first word.
LEMMA FindingBegins ==
  ASSUME TextInv, Finding, CreateNgram \/ BeginSearch
  PROVE  Finding'
<1>1. CASE CreateNgram
  BY <1>1 DEF CreateNgram, Finding, answerVars
<1>2. CASE BeginSearch
  <2>1. /\ pc = "split" /\ pc' = "walk" /\ start = 1 /\ i = 1
        /\ UNCHANGED <<trie, words, start, i, bloomFilter, answered>>
    BY <1>2 DEF BeginSearch, TextInv, InStep, vectorVars, walkVars, answerVars
  <2>2. answered = <<>> /\ Positions(bloomFilter) = {}
    BY <2>1 DEF Finding
  <2>3. words \in Seq(Seq(Chars)) /\ Len(words) \in Nat
    BY AtWalk
  <2>4. FoundAt(trie, words, 1, 1) = [bloom |-> {}, answer |-> <<>>]
    BY <2>3, FoundFirst
  <2>5. 1 <= Len(words) => 1 - 1 \in 0..Reach(trie, words, 1)
    <3> SUFFICES ASSUME 1 <= Len(words) PROVE 0 \in 0..Reach(trie, words, 1)
      OBVIOUS
    <3>1. 1 \in 1..Len(words)
      BY <2>3
    <3> QED
      BY <2>3, <3>1, FoundFirst
  <2>6. trie \in Tries /\ bloomFilter \in Filters
    BY DEF Finding
  <2> QED
    BY <2>1, <2>2, <2>4, <2>5, <2>6 DEF Finding
<1> QED
  BY <1>1, <1>2

\* A call is over, and the next one begins one word later.
LEMMA FindingNextStart ==
  ASSUME TextInv, Finding, NextStart
  PROVE  Finding'
<1>1. /\ pc = "walk" /\ pc' = "walk" /\ start <= Len(words) /\ ~AtNode
      /\ start' = start + 1 /\ i' = start + 1
      /\ UNCHANGED <<trie, words, bloomFilter, answered>>
  BY DEF NextStart, vectorVars, answerVars
<1>2. /\ words \in Seq(Seq(Chars)) /\ Len(words) \in Nat
      /\ start \in 1..Len(words) /\ i \in start..(Len(words) + 1)
  BY <1>1, AtWalk
<1>3. /\ trie \in Tries /\ bloomFilter \in Filters
      /\ i - start \in 0..Reach(trie, words, start)
      /\ answered = FoundAt(trie, words, start, i).answer
      /\ Positions(bloomFilter) = FoundAt(trie, words, start, i).bloom
  BY <1>1 DEF Finding
<1>4. ~(i <= Len(words) /\ SubSeq(words, start, i) \in DOMAIN trie)
  BY <1>1 DEF AtNode, Here
<1>5. FoundAt(trie, words, start, i) = Calls(trie, words)[start]
  BY <1>2, <1>3, <1>4, FoundLast
<1>6. FoundAt(trie, words, start + 1, start + 1) = Calls(trie, words)[start]
  BY <1>2, FoundFirst
<1>7. start + 1 <= Len(words) => (start + 1) - (start + 1) \in 0..Reach(trie, words, start + 1)
  <2> SUFFICES ASSUME start + 1 <= Len(words)
               PROVE  (start + 1) - (start + 1) \in 0..Reach(trie, words, start + 1)
    OBVIOUS
  <2>1. start + 1 \in 1..Len(words) /\ (start + 1) - (start + 1) = 0
    BY <1>2
  <2>2. 0 \in 0..Reach(trie, words, start + 1)
    BY <1>2, <2>1, FoundFirst
  <2> QED
    BY <2>1, <2>2
<1>8. FoundAt(trie, words, start, i) = FoundAt(trie, words, start + 1, start + 1)
  BY <1>5, <1>6
<1> QED
  BY <1>1, <1>3, <1>7, <1>8 DEF Finding

\* A node that is seen is reported, another one passed.
LEMMA FindingAtNode ==
  ASSUME TextInv, Finding, NotAnNgram \/ AnNgram
  PROVE  Finding'
<1>1. CASE NotAnNgram
  <2>1. /\ pc = "walk" /\ pc' = "walk" /\ AtNode /\ ~trie[Here] /\ i' = i + 1
        /\ UNCHANGED <<trie, words, start, bloomFilter, answered>>
    BY <1>1 DEF NotAnNgram, AtNode, vectorVars, answerVars
  <2>2. i <= Len(words) /\ Here \in DOMAIN trie /\ Here \notin Seen(trie)
    BY <2>1 DEF AtNode, Seen
  <2>3. /\ (i + 1) - start \in 0..Reach(trie, words, start)
        /\ FoundAt(trie, words, start, i + 1) = FoundAt(trie, words, start, i)
    BY <2>1, <2>2, FoundHere
  <2> QED
    BY <2>1, <2>3 DEF Finding
<1>2. CASE AnNgram
  <2>1. /\ pc = "walk" /\ pc' = "copy" /\ Here \in Seen(trie) /\ Here' = Here
        /\ UNCHANGED <<trie, words, start, i, bloomFilter, answered>>
    BY <1>2 DEF AnNgram, AtNode, Seen, Here, vectorVars, walkVars, answerVars
  <2> QED
    BY <2>1 DEF Finding
<1> QED
  BY <1>1, <1>2

\* Bytes are copied, buffers grow: nothing is found.
LEMMA FindingStays ==
  ASSUME Finding, UNCHANGED <<pc, trie, words, start, i, bloomFilter, answered>>
  PROVE  Finding'
<1>1. Here' = Here
  BY DEF Here
<1> QED
  BY <1>1 DEF Finding

\* The filter is asked for the n-gram, and it is answered or left out.
LEMMA FindingAsks ==
  ASSUME TextInv, Finding, AskBloom
  PROVE  Finding'
<1> DEFINE asked == FindInBloom(Here, bloomFilter)
           f == FoundAt(trie, words, start, i)
<1>1. /\ pc = "copy" /\ bloomFilter' = asked.filter
      /\ UNCHANGED <<trie, words, start, answered>>
      /\ IF asked.retval THEN pc' = "walk" /\ i' = i + 1
                         ELSE pc' = "append" /\ i' = i
  BY DEF AskBloom, vectorVars, answerVars
<1>2. /\ Here \in Seen(trie) /\ trie \in Tries /\ bloomFilter \in Filters
      /\ start <= Len(words) => i - start \in 0..Reach(trie, words, start)
      /\ answered = f.answer /\ Positions(bloomFilter) = f.bloom
  BY <1>1 DEF Finding
<1>3. Here \in DOMAIN trie /\ Here \in DOMAIN Hash
  BY <1>2, AtWalk DEF Seen
<1>4. /\ asked.filter \in Filters
      /\ Positions(asked.filter) = f.bloom \union Bits[Here]
      /\ asked.retval <=> Bits[Here] \subseteq f.bloom
  BY <1>2, <1>3, AskedBloom
<1>5. i <= Len(words)
  BY <1>1 DEF TextInv, InStep
<1>6. CASE asked.retval
  <2>1. f.bloom \union Bits[Here] = f.bloom
    BY <1>4, <1>6
  <2>2. /\ (i + 1) - start \in 0..Reach(trie, words, start)
        /\ FoundAt(trie, words, start, i + 1) = Report(f, Here, Bits)
    BY <1>1, <1>2, <1>3, <1>5, FoundHere
  <2>3. Report(f, Here, Bits) = f
    BY <1>4, <1>6 DEF Report
  <2> HIDE DEF asked, f
  <2>4. pc' = "walk" /\ i' = i + 1
    BY <1>1, <1>6
  <2>5. FoundAt(trie', words', start', i') = f
    BY <1>1, <2>2, <2>3, <2>4
  <2>6. Positions(bloomFilter') = f.bloom
    BY <1>1, <1>4, <2>1
  <2> QED
    BY <1>1, <1>2, <1>4, <2>2, <2>4, <2>5, <2>6 DEF Finding
<1>7. CASE ~asked.retval
  <2>1. pc' = "append" /\ UNCHANGED <<trie, words, start, i, answered>>
    BY <1>1, <1>7
  <2>2. Here' = Here
    BY <2>1 DEF Here
  <2>3. FoundAt(trie', words', start', i') = f
    BY <2>1
  <2> HIDE DEF asked, f
  <2> QED
    BY <1>1, <1>2, <1>4, <1>7, <2>1, <2>2, <2>3 DEF Finding
<1> QED
  BY <1>6, <1>7

\* The n-gram is appended to the answer.
LEMMA FindingAppends ==
  ASSUME TextInv, Finding, AppendNgram
  PROVE  Finding'
<1> DEFINE f == FoundAt(trie, words, start, i)
<1>1. /\ pc = "append" /\ pc' = "walk" /\ i' = i + 1 /\ answered' = Append(answered, Here)
      /\ UNCHANGED <<trie, words, start, bloomFilter>>
  BY DEF AppendNgram, vectorVars
<1>2. /\ Here \in Seen(trie) /\ trie \in Tries /\ bloomFilter \in Filters
      /\ answered = f.answer /\ Positions(bloomFilter) = f.bloom \union Bits[Here]
      /\ ~(Bits[Here] \subseteq f.bloom)
  BY <1>1 DEF Finding
<1>3. Here \in DOMAIN trie /\ i <= Len(words)
  BY <1>1, <1>2 DEF Seen, TextInv, InStep
<1>4. /\ (i + 1) - start \in 0..Reach(trie, words, start)
      /\ FoundAt(trie, words, start, i + 1) = Report(f, Here, Bits)
  BY <1>1, <1>2, <1>3, FoundHere
<1>5. Report(f, Here, Bits) = [bloom |-> f.bloom \union Bits[Here],
                               answer |-> Append(f.answer, Here)]
  BY <1>2 DEF Report
<1> HIDE DEF f
<1>6. FoundAt(trie', words', start', i') = [bloom |-> f.bloom \union Bits[Here],
                                            answer |-> Append(f.answer, Here)]
  BY <1>1, <1>4, <1>5
<1>7. /\ FoundAt(trie', words', start', i').answer = Append(f.answer, Here)
      /\ FoundAt(trie', words', start', i').bloom = f.bloom \union Bits[Here]
  BY <1>6
<1> QED
  BY <1>1, <1>2, <1>4, <1>7 DEF Finding

\* After the last word everything is found.
LEMMA FindingEnds ==
  ASSUME TextInv, Finding, EndSearch
  PROVE  Finding'
<1>1. /\ pc = "walk" /\ pc' = "done" /\ start > Len(words)
      /\ UNCHANGED <<trie, words, bloomFilter, answered>>
  BY DEF EndSearch, vectorVars
<1>2. words \in Seq(Seq(Chars)) /\ ~(start <= Len(words))
  BY <1>1, AtWalk
<1>3. answered = Calls(trie, words)[Len(words)].answer
  BY <1>1, <1>2 DEF Finding, FoundAt
<1>4. Scan(trie, words, Seen(trie), Bits) = Calls(trie, words)[Len(words)].answer
  BY <1>2, CallsAre DEF IsCalls
<1> QED
  BY <1>1, <1>3, <1>4 DEF Finding

\* Every step keeps the search where it is to be.
LEMMA FindingStep ==
  ASSUME TextInv, Finding, [Next \/ Answered]_vars
  PROVE  Finding'
<1>1. CASE GrowBuffer \/ CopyWord \/ GrowAnswer \/ UNCHANGED vars
  <2>1. UNCHANGED <<pc, trie, words, start, i, bloomFilter, answered>>
    BY <1>1 DEF GrowBuffer, CopyWord, GrowAnswer, vars, vectorVars, walkVars, answerVars
  <2> QED
    BY <2>1, FindingStays
<1> QED
  BY <1>1, FindingBegins, FindingNextStart, FindingAtNode, FindingAsks, FindingAppends,
     FindingEnds DEF Next, Answered

(***************************************************************************)
(* The bytes of the answer are those of the n-grams that were answered.    *)
(***************************************************************************)
\* The buffer holds the words before round, the answer the n-grams answered.
Spelling ==
  /\ answered \in Seq(Ngram)
  /\ pc = "split" => answered = <<>> /\ buffer = <<>> /\ round = 1
  /\ pc # "done" => answer = Barred(answered)
  /\ pc \in {"walk", "copy", "append"} => buffer = Spaced(SubSeq(words, start, round - 1))
  /\ pc = "walk" => round <= i
  /\ pc = "append" => round = i + 1
  /\ pc = "done" => answer = Text(answered)

\* No n-gram, no bytes.
LEMMA BarredNone == Barred(<<>>) = <<>>
BY DEF Barred, FlattenSeq

\* Nothing is answered yet.
LEMMA InitSpelling == Init => Spelling
<1> SUFFICES ASSUME Init PROVE Spelling
  OBVIOUS
<1>1. pc = "split" /\ answered = <<>> /\ buffer = <<>> /\ round = 1 /\ answer = <<>>
  BY DEF Init
<1>2. answered \in Seq(Ngram)
  BY <1>1
<1>3. answer = Barred(answered)
  BY <1>1, BarredNone
<1> QED
  BY <1>1, <1>2, <1>3 DEF Spelling

\* The n-gram at hand has words, and its bytes.
LEMMA HereSpelled ==
  ASSUME TextInv, pc \in {"copy", "append"}
  PROVE  /\ Here \in Ngram
         /\ Spelled(Here) = Front(Spaced(Here)) /\ Spelled(Here) \in Seq(Chars)
<1>1. words \in Seq(Seq(Chars)) /\ i <= Len(words) /\ Len(words) \in Nat
  BY LenProperties DEF TextInv, TypeOK, InStep
<1>2. start \in Nat /\ i \in Nat /\ 1 <= start /\ start <= i
  BY Places
<1>3. \A x \in start..i : words[x] \in Seq(Chars)
  <2>1. \A x \in start..i : x \in 1..Len(words)
    BY <1>1, <1>2
  <2> QED
    BY <1>1, <2>1, ElementOfSeq
<1>4. Here \in Seq(Seq(Chars)) /\ Len(Here) = i - start + 1
  BY <1>1, <1>2, <1>3, SubSeqProperties DEF Here
<1>5. Here # <<>>
  BY <1>2, <1>4, EmptySeq
<1> QED
  BY <1>4, <1>5, SpelledBytes DEF Ngram

\* Two characters and a third.
LEMMA Triple ==
  ASSUME NEW y, NEW z, NEW c
  PROVE  Append(<<y, z>>, c) = <<y, z, c>>
<1> DEFINE x == <<y, z>>
           u == <<y, z, c>>
           C == {y, z, c}
<1>1. x \in Seq(C) /\ u \in Seq(C) /\ c \in C
  OBVIOUS
<1>2. Len(x) = 2 /\ x[1] = y /\ x[2] = z
  OBVIOUS
<1>3. Len(u) = 3 /\ u[1] = y /\ u[2] = z /\ u[3] = c
  OBVIOUS
<1> HIDE DEF x, u, C
<1>4. /\ Append(x, c) \in Seq(C) /\ Len(Append(x, c)) = 3
      /\ \A k \in 1..2 : Append(x, c)[k] = x[k]
      /\ Append(x, c)[3] = c
  <2>1. /\ Append(x, c) \in Seq(C) /\ Len(Append(x, c)) = Len(x) + 1
        /\ \A k \in 1..Len(x) : Append(x, c)[k] = x[k]
        /\ Append(x, c)[Len(x) + 1] = c
    BY <1>1, AppendProperties
  <2>2. Len(x) + 1 = 3 /\ 1..Len(x) = 1..2
    BY <1>2
  <2> QED
    BY <2>1, <2>2
<1>5. \A k \in 1..3 : Append(x, c)[k] = u[k]
  <2>1. \A k \in 1..3 : k = 1 \/ k = 2 \/ k = 3
    OBVIOUS
  <2> QED
    BY <1>2, <1>3, <1>4, <2>1
<1> QED
  BY <1>1, <1>3, <1>4, <1>5, SeqEqual DEF x, u

\* The text of an answer is its bytes, with the end of a string at last.
LEMMA TextOfAnswer ==
  ASSUME NEW a \in Seq(Ngram), Barred(a) \in Seq(Chars)
  PROVE  Text(a) = Append(IF Barred(a) = <<>> THEN <<"-", "1">> ELSE Front(Barred(a)), "nul")
<1>1. CASE a = <<>>
  <2>1. Barred(a) = <<>>
    BY <1>1, BarredNone
  <2>2. Text(a) = <<"-", "1", "nul">>
    BY <1>1 DEF Text
  <2> DEFINE y == "-"
             z == "1"
             c == "nul"
  <2> HIDE DEF y, z, c
  <2>3. Append(<<y, z>>, c) = <<y, z, c>>
    BY Triple
  <2> QED
    BY <2>1, <2>2, <2>3 DEF y, z, c
<1>2. CASE a # <<>>
  <2>1. PICK b \in Seq(Ngram), p \in Ngram : a = Append(b, p)
    BY <1>2, SequenceEmptyOrAppend
  <2>2. Barred(b) \in Seq(Chars) /\ Barred(a) = Append(Barred(b) \o Spelled(p), "|")
    BY <2>1, BarredNext
  <2>3. Spelled(p) \in Seq(Chars)
    BY SpelledBytes
  <2>4. Barred(a) # <<>>
    BY <2>2, <2>3, Joined, Constants
  <2>5. Text(a) = Front(Barred(a)) \o <<"nul">>
    BY <1>2 DEF Text, Barred
  <2>6. Front(Barred(a)) \in Seq(Chars)
    BY <2>4, FrontTakesOne
  <2>7. Append(Front(Barred(a)), "nul") = Front(Barred(a)) \o <<"nul">>
    BY <2>6, Constants, AppendIsConcat
  <2> QED
    BY <2>4, <2>5, <2>7
<1> QED
  BY <1>1, <1>2

\* The bytes of what was answered so far are bytes.
LEMMA BarredBytes ==
  ASSUME NEW a \in Seq(Ngram)
  PROVE  Barred(a) \in Seq(Chars)
<1>1. CASE a = <<>>
  <2>1. Barred(a) = <<>>
    BY <1>1, BarredNone
  <2> QED
    BY <2>1
<1>2. CASE a # <<>>
  <2>1. PICK b \in Seq(Ngram), p \in Ngram : a = Append(b, p)
    BY <1>2, SequenceEmptyOrAppend
  <2>2. Barred(b) \in Seq(Chars) /\ Barred(a) = Append(Barred(b) \o Spelled(p), "|")
    BY <2>1, BarredNext
  <2>3. Spelled(p) \in Seq(Chars)
    BY SpelledBytes
  <2> QED
    BY <2>2, <2>3, Joined, Constants
<1> QED
  BY <1>1, <1>2

\* The line is read, nodes are passed and buffers grow: no byte is copied.
LEMMA SpellingStays ==
  ASSUME TextInv, Spelling,
         CreateNgram \/ BeginSearch \/ NotAnNgram \/ AnNgram \/ GrowBuffer \/ GrowAnswer
  PROVE  Spelling'
<1>1. CASE CreateNgram
  BY <1>1 DEF CreateNgram, Spelling, walkVars, answerVars
<1>2. CASE BeginSearch
  <2>1. /\ pc = "split" /\ pc' = "walk" /\ start = 1 /\ i = 1
        /\ UNCHANGED <<words, start, i, round, buffer, answer, answered>>
    BY <1>2 DEF BeginSearch, TextInv, InStep, vectorVars, walkVars, answerVars
  <2>2. buffer = <<>> /\ round = 1 /\ answered \in Seq(Ngram) /\ answer = Barred(answered)
    BY <2>1 DEF Spelling
  <2>3. words \in Seq(Seq(Chars)) /\ 1 \in 1..(Len(words) + 1)
    BY <2>1 DEF TextInv, TypeOK
  <2>4. Spaced(SubSeq(words, 1, 1 - 1)) = <<>>
    BY <2>3, SpacedNone
  <2> QED
    BY <2>1, <2>2, <2>4 DEF Spelling
<1>3. CASE NotAnNgram
  <2>1. /\ pc = "walk" /\ pc' = "walk" /\ i' = i + 1
        /\ UNCHANGED <<words, start, round, buffer, answer, answered>>
    BY <1>3 DEF NotAnNgram, AtNode, vectorVars, answerVars
  <2>2. round <= i /\ i \in Nat /\ round \in Nat
    BY <2>1, Places DEF Spelling
  <2>3. round' <= i'
    BY <2>1, <2>2
  <2> QED
    BY <2>1, <2>3 DEF Spelling
<1>4. CASE AnNgram
  BY <1>4 DEF AnNgram, AtNode, Spelling, vectorVars, walkVars, answerVars
<1>5. CASE GrowBuffer
  BY <1>5 DEF GrowBuffer, Spelling, vectorVars, walkVars, answerVars
<1>6. CASE GrowAnswer
  BY <1>6 DEF GrowAnswer, Spelling, vectorVars, walkVars, answerVars
<1> QED
  BY <1>1, <1>2, <1>3, <1>4, <1>5, <1>6

\* The buffer is emptied for the next call.
LEMMA SpellingNextStart ==
  ASSUME TextInv, Spelling, NextStart
  PROVE  Spelling'
<1>1. /\ pc = "walk" /\ pc' = "walk" /\ start <= Len(words)
      /\ start' = start + 1 /\ i' = start + 1 /\ round' = start + 1 /\ buffer' = <<>>
      /\ UNCHANGED <<words, answer, answered>>
  BY DEF NextStart, vectorVars, answerVars
<1>2. words \in Seq(Seq(Chars)) /\ start \in Nat /\ Len(words) \in Nat
  BY Places, LenProperties DEF TextInv, TypeOK
<1>3. start + 1 \in 1..(Len(words) + 1)
  BY <1>1, <1>2
<1>4. Spaced(SubSeq(words, start + 1, (start + 1) - 1)) = <<>>
  BY <1>2, <1>3, SpacedNone
<1>5. answered \in Seq(Ngram) /\ answer = Barred(answered)
  BY <1>1 DEF Spelling
<1>6. round' <= i'
  BY <1>1, <1>2
<1>7. buffer' = Spaced(SubSeq(words', start', round' - 1))
  <2>1. SubSeq(words', start', round' - 1) = SubSeq(words, start + 1, (start + 1) - 1)
    BY <1>1
  <2> QED
    BY <1>1, <1>4, <2>1
<1> QED
  BY <1>1, <1>5, <1>6, <1>7 DEF Spelling

\* A word is copied, with a space after it.
LEMMA SpellingCopies ==
  ASSUME TextInv, Spelling, CopyWord
  PROVE  Spelling'
<1>1. /\ pc = "copy" /\ pc' = "copy" /\ round <= i
      /\ buffer' = Append(buffer \o words[round], " ") /\ round' = round + 1
      /\ UNCHANGED <<words, start, i, answer, answered>>
  BY DEF CopyWord, vectorVars, answerVars
<1>2. words \in Seq(Seq(Chars)) /\ i <= Len(words) /\ Len(words) \in Nat
  BY <1>1, LenProperties DEF TextInv, TypeOK, InStep
<1>3. /\ start \in Nat /\ i \in Nat /\ round \in Nat /\ 1 <= start /\ start <= round
  BY Places
<1>4. start \in 1..Len(words) /\ round \in start..Len(words) /\ (round + 1) - 1 = round
  <2>1. round <= i /\ i <= Len(words)
    BY <1>1, <1>2
  <2> QED
    BY <1>2, <1>3, <2>1
<1>5. Spaced(SubSeq(words, start, round)) =
        Append(Spaced(SubSeq(words, start, round - 1)) \o words[round], " ")
  BY <1>2, <1>4, SpacedNext
<1>6. /\ answered \in Seq(Ngram) /\ answer = Barred(answered)
      /\ buffer = Spaced(SubSeq(words, start, round - 1))
  BY <1>1 DEF Spelling
<1>7. buffer' = Spaced(SubSeq(words', start', round' - 1))
  <2>1. round' - 1 = round
    BY <1>1, <1>4
  <2>2. SubSeq(words', start', round' - 1) = SubSeq(words, start, round)
    BY <1>1, <2>1
  <2> QED
    BY <1>1, <1>5, <1>6, <2>2
<1> QED
  BY <1>1, <1>6, <1>7 DEF Spelling

\* When the filter is asked, all words of the n-gram are in the buffer.
LEMMA SpellingAsks ==
  ASSUME TextInv, Spelling, AskBloom
  PROVE  Spelling'
<1>1. /\ pc = "copy" /\ round > i
      /\ UNCHANGED <<words, start, round, buffer, answer, answered>>
      /\ \/ pc' = "walk" /\ i' = i + 1
         \/ pc' = "append" /\ i' = i
  BY DEF AskBloom, vectorVars, answerVars
<1>2. round = i + 1
  BY <1>1, Places
<1>3. i \in Nat /\ i + 1 <= i + 1
  BY Places
<1>4. /\ answered \in Seq(Ngram) /\ answer = Barred(answered)
      /\ buffer = Spaced(SubSeq(words, start, round - 1))
  BY <1>1 DEF Spelling
<1> QED
  BY <1>1, <1>2, <1>3, <1>4 DEF Spelling

\* The bytes of the n-gram come after those of the answer.
LEMMA SpellingAppends ==
  ASSUME TextInv, Spelling, AppendNgram
  PROVE  Spelling'
<1>1. /\ pc = "append" /\ pc' = "walk" /\ i' = i + 1
      /\ answer' = Append(answer \o Front(buffer), "|")
      /\ answered' = Append(answered, Here)
      /\ UNCHANGED <<words, start, round, buffer>>
  BY DEF AppendNgram, vectorVars
<1>2. /\ answered \in Seq(Ngram) /\ answer = Barred(answered)
      /\ buffer = Spaced(SubSeq(words, start, round - 1)) /\ round = i + 1
  BY <1>1 DEF Spelling
<1>3. i \in Nat /\ round - 1 = i /\ round <= i + 1
  BY <1>2, Places
<1>4. buffer = Spaced(Here)
  BY <1>2, <1>3 DEF Here
<1>5. Here \in Ngram /\ Front(buffer) = Spelled(Here)
  BY <1>1, <1>4, HereSpelled
<1>6. answer' = Barred(answered')
  BY <1>1, <1>2, <1>5, BarredNext
<1>7. answered' \in Seq(Ngram)
  BY <1>1, <1>2, <1>5, AppendProperties
<1>8. buffer' = Spaced(SubSeq(words', start', round' - 1)) /\ round' <= i'
  BY <1>1, <1>2, <1>3
<1> QED
  BY <1>1, <1>6, <1>7, <1>8 DEF Spelling

\* The last separator is overwritten.
LEMMA SpellingEnds ==
  ASSUME TextInv, Spelling, EndSearch
  PROVE  Spelling'
<1>1. /\ pc = "walk" /\ pc' = "done" /\ answered' = answered
      /\ answer' = Append(IF answer = <<>> THEN <<"-", "1">> ELSE Front(answer), "nul")
  BY DEF EndSearch
<1>2. answered \in Seq(Ngram) /\ answer = Barred(answered)
  BY <1>1 DEF Spelling
<1>3. answer' = Text(answered)
  BY <1>1, <1>2, BarredBytes, TextOfAnswer
<1> QED
  BY <1>1, <1>2, <1>3 DEF Spelling

\* Every step keeps the bytes right.
LEMMA SpellingStep ==
  ASSUME TextInv, Spelling, [Next \/ Answered]_vars
  PROVE  Spelling'
<1>1. CASE UNCHANGED vars
  BY <1>1 DEF Spelling, vars
<1> QED
  BY <1>1, SpellingStays, SpellingNextStart, SpellingCopies, SpellingAsks, SpellingAppends,
     SpellingEnds DEF Next, Answered

\* What a query answers, and the bytes it answers with, are those of the search
\* of module VersionedTrie: whatever the lengths of line and words, the sizes
\* of filter and buffers and the hash function are.
THEOREM SearchIsScan == Spec => []AnswerIsSearch
<1>1. Init => Finding /\ Spelling
  BY InitFinding, InitSpelling
<1>2. TextInv /\ Finding /\ Spelling /\ [Next \/ Answered]_vars => Finding' /\ Spelling'
  BY FindingStep, SpellingStep
<1>3. Finding /\ Spelling => AnswerIsSearch
  BY DEF Finding, Spelling, AnswerIsSearch, Seen
<1> QED
  BY <1>1, <1>2, <1>3, TextInvariant, PTL DEF Spec

(***************************************************************************)
(* The words are the runs of letters of the line.                          *)
(***************************************************************************)
\* The runs that end before place k, and those of them that begin up to x.
Ended(k) == {r \in Runs : r[2] < k}
UpTo(k, x) == {q \in Ended(k) : q[1] <= x}

\* The words are the runs that end before place k.
WordsAre(k) ==
  /\ IsFiniteSet(Ended(k)) /\ Len(words) = Cardinality(Ended(k))
  /\ \A r \in Ended(k) : words[Cardinality(UpTo(k, r[1]))] = SubSeq(line, r[1], r[2])

\* Up to e the line is split in its words, and the next one begins after s.
Splitting ==
  /\ pc = "split" => /\ WordsAre(e)
                     /\ s = 0 \/ (s \in 1..Len(line) /\ line[s] \in Separators)
                     /\ \A z \in (s + 1)..e : line[z] \notin Separators
  /\ pc # "split" => WordsAre(Len(line))

\* A run, by its places.
LEMMA RunPlaces ==
  ASSUME line \in Seq(Chars), NEW r \in Runs
  PROVE  /\ Len(line) \in Nat /\ r[1] \in Nat /\ r[2] \in Nat
         /\ 1 <= r[1] /\ r[1] <= r[2] /\ r[2] < Len(line) /\ r = <<r[1], r[2]>>
         /\ \A z \in r[1]..r[2] : line[z] \notin Separators
         /\ line[r[2] + 1] \in Separators
         /\ r[1] = 1 \/ line[r[1] - 1] \in Separators
<1>1. r \in (1..Len(line)) \X (1..Len(line)) /\ IsRun(r[1], r[2])
  BY DEF Runs
<1>2. Len(line) \in Nat
  BY LenProperties
<1> QED
  BY <1>1, <1>2 DEF IsRun

\* All runs end before the last place.
LEMMA AllEnded ==
  ASSUME line \in Seq(Chars)
  PROVE  Ended(Len(line)) = Runs
BY RunPlaces DEF Ended

\* Before the first character there is no run.
LEMMA InitSplitting == Init => Splitting
<1> SUFFICES ASSUME Init PROVE Splitting
  OBVIOUS
<1>1. line \in Seq(Chars) /\ pc = "split" /\ s = 0 /\ e = 0 /\ words = <<>>
  BY Constants DEF Init
<1>2. Ended(0) = {}
  BY <1>1, RunPlaces DEF Ended
<1>3. WordsAre(0)
  BY <1>1, <1>2, FS_EmptySet DEF WordsAre
<1> QED
  BY <1>1, <1>3 DEF Splitting

\* Where a run ends there is no other one, and it begins after the others.
LEMMA OneRun ==
  ASSUME line \in Seq(Chars), NEW b \in Nat, NEW k \in Nat, b <= k, k < Len(line),
         b = 0 \/ (b \in 1..Len(line) /\ line[b] \in Separators),
         \A z \in (b + 1)..k : line[z] \notin Separators
  PROVE  /\ line[k + 1] \notin Separators \/ b = k => Ended(k + 1) = Ended(k)
         /\ line[k + 1] \in Separators /\ b # k =>
              Ended(k + 1) = Ended(k) \union {<<b + 1, k>>}
         /\ \A r \in Ended(k) : r[1] < b + 1
<1>1. Ended(k + 1) = Ended(k) \union {r \in Runs : r[2] = k}
  BY RunPlaces DEF Ended
<1>2. ASSUME NEW r \in Runs, r[2] = k
      PROVE  line[k + 1] \in Separators /\ b # k /\ r = <<b + 1, k>>
  <2>1. /\ r[1] \in Nat /\ 1 <= r[1] /\ r[1] <= k /\ r = <<r[1], k>>
        /\ \A z \in r[1]..k : line[z] \notin Separators
        /\ line[k + 1] \in Separators
        /\ r[1] = 1 \/ line[r[1] - 1] \in Separators
    BY <1>2, RunPlaces
  <2>2. ~(r[1] <= b)
    <3> SUFFICES ASSUME r[1] <= b PROVE FALSE
      OBVIOUS
    <3>1. b \in r[1]..k /\ b # 0
      BY <2>1
    <3> QED
      BY <2>1, <3>1
  <2>3. ~(r[1] > b + 1)
    <3> SUFFICES ASSUME r[1] > b + 1 PROVE FALSE
      OBVIOUS
    <3>1. r[1] - 1 \in (b + 1)..k /\ r[1] # 1
      BY <2>1
    <3> QED
      BY <2>1, <3>1
  <2>4. r[1] = b + 1 /\ b # k
    BY <2>1, <2>2, <2>3
  <2> QED
    BY <2>1, <2>4
<1>3. ASSUME line[k + 1] \in Separators, b # k
      PROVE  <<b + 1, k>> \in Runs
  <2>1. Len(line) \in Nat
    BY LenProperties
  <2>2. b + 1 \in 1..Len(line) /\ k \in 1..Len(line) /\ b + 1 <= k /\ (b + 1) - 1 = b
    BY <1>3, <2>1
  <2>3. b + 1 = 1 \/ line[(b + 1) - 1] \in Separators
    BY <2>2
  <2>4. IsRun(b + 1, k)
    BY <1>3, <2>2, <2>3 DEF IsRun
  <2> QED
    BY <2>2, <2>4 DEF Runs
<1>4. ASSUME NEW r \in Ended(k)
      PROVE  r[1] < b + 1
  <2>1. r \in Runs /\ r[2] < k
    BY <1>4 DEF Ended
  <2>2. /\ r[1] \in Nat /\ r[2] \in Nat /\ r[1] <= r[2] /\ line[r[2] + 1] \in Separators
    BY <2>1, RunPlaces
  <2> SUFFICES ASSUME ~(r[1] < b + 1) PROVE FALSE
    OBVIOUS
  <2>3. r[2] + 1 \in (b + 1)..k
    BY <2>1, <2>2
  <2> QED
    BY <2>2, <2>3
<1>5. line[k + 1] \notin Separators \/ b = k => {r \in Runs : r[2] = k} = {}
  BY <1>2
<1>6. line[k + 1] \in Separators /\ b # k => {r \in Runs : r[2] = k} = {<<b + 1, k>>}
  <2> SUFFICES ASSUME line[k + 1] \in Separators, b # k
               PROVE  {r \in Runs : r[2] = k} = {<<b + 1, k>>}
    OBVIOUS
  <2>1. <<b + 1, k>> \in Runs /\ <<b + 1, k>>[2] = k
    BY <1>3
  <2> QED
    BY <1>2, <2>1
<1> QED
  BY <1>1, <1>4, <1>5, <1>6

\* A run more, after the others: a word more.
LEMMA WordMore ==
  ASSUME TextInv, line \in Seq(Chars), NEW b \in Nat, NEW k \in Nat, b < k, k < Len(line),
         WordsAre(k), Ended(k + 1) = Ended(k) \union {<<b + 1, k>>},
         \A r \in Ended(k) : r[1] < b + 1,
         words' = Append(words, SubSeq(line, b + 1, k)), UNCHANGED line
  PROVE  WordsAre(k + 1)'
<1> DEFINE n == Len(words)
           new == <<b + 1, k>>
<1>1. words \in Seq(Seq(Chars)) /\ n \in Nat
  BY LenProperties DEF TextInv, TypeOK
<1>2. SubSeq(line, b + 1, k) \in Seq(Chars)
  <2>1. \A x \in (b + 1)..k : x \in 1..Len(line)
    BY LenProperties
  <2>2. \A x \in (b + 1)..k : line[x] \in Chars
    BY <2>1, ElementOfSeq
  <2> QED
    BY <2>2, SubSeqProperties
<1>3. /\ Len(words') = n + 1 /\ words'[n + 1] = SubSeq(line, b + 1, k)
      /\ \A x \in 1..n : words'[x] = words[x]
  BY <1>1, <1>2, AppendProperties
<1>4. /\ IsFiniteSet(Ended(k)) /\ n = Cardinality(Ended(k))
      /\ \A r \in Ended(k) : words[Cardinality(UpTo(k, r[1]))] = SubSeq(line, r[1], r[2])
  BY DEF WordsAre
<1>5. new \notin Ended(k) /\ new[1] = b + 1 /\ new[2] = k
  <2>1. new[1] = b + 1 /\ new[2] = k
    OBVIOUS
  <2>2. ~(b + 1 < b + 1)
    OBVIOUS
  <2> QED
    BY <2>1, <2>2
<1> HIDE DEF n, new
<1>6. IsFiniteSet(Ended(k + 1)) /\ Cardinality(Ended(k + 1)) = n + 1
  <2>1. Ended(k + 1) = Ended(k) \union {new}
    BY DEF new
  <2> QED
    BY <1>4, <1>5, <2>1, FS_AddElement
<1>7. UpTo(k + 1, b + 1) = Ended(k + 1)
  <2>1. \A r \in Ended(k + 1) : r[1] <= b + 1
    <3> SUFFICES ASSUME NEW r \in Ended(k + 1) PROVE r[1] <= b + 1
      OBVIOUS
    <3>1. CASE r \in Ended(k)
      <4>1. r[1] < b + 1 /\ r[1] \in Nat
        BY <3>1, RunPlaces DEF Ended
      <4> QED
        BY <4>1
    <3>2. CASE r = new
      BY <1>5, <3>2
    <3> QED
      BY <3>1, <3>2 DEF new
  <2> QED
    BY <2>1 DEF UpTo
<1>8. ASSUME NEW r \in Ended(k)
      PROVE  /\ UpTo(k + 1, r[1]) = UpTo(k, r[1])
             /\ Cardinality(UpTo(k, r[1])) \in 1..n
  <2>1. r[1] \in Nat /\ ~(b + 1 <= r[1])
    BY <1>8, RunPlaces DEF Ended
  <2>2. UpTo(k + 1, r[1]) = UpTo(k, r[1])
    BY <1>5, <2>1 DEF UpTo, new
  <2>3. UpTo(k, r[1]) \in SUBSET Ended(k) /\ r \in UpTo(k, r[1])
    BY <1>8, <2>1 DEF UpTo
  <2>4. /\ IsFiniteSet(UpTo(k, r[1])) /\ Cardinality(UpTo(k, r[1])) <= n
    BY <1>4, <2>3, FS_Subset
  <2>5. Cardinality(UpTo(k, r[1])) \in Nat /\ Cardinality(UpTo(k, r[1])) # 0
    BY <2>3, <2>4, FS_CardinalityType, FS_EmptySet
  <2> QED
    BY <1>1, <2>2, <2>4, <2>5
<1>9. /\ Ended(k + 1)' = Ended(k + 1)
      /\ \A x : UpTo(k + 1, x)' = UpTo(k + 1, x)
  BY DEF Ended, UpTo, Runs, IsRun
<1>10. ASSUME NEW r \in Ended(k + 1)
       PROVE  words'[Cardinality(UpTo(k + 1, r[1]))] = SubSeq(line, r[1], r[2])
  <2>1. CASE r \in Ended(k)
    BY <1>3, <1>4, <1>8, <2>1
  <2>2. CASE r = new
    BY <1>3, <1>5, <1>6, <1>7, <2>2
  <2> QED
    BY <1>10, <2>1, <2>2 DEF new
<1> QED
  BY <1>3, <1>6, <1>9, <1>10 DEF WordsAre

\* No run more: the words stay.
LEMMA NoWordMore ==
  ASSUME NEW k, NEW d, WordsAre(k), Ended(d) = Ended(k), UNCHANGED <<words, line>>
  PROVE  WordsAre(d)'
<1>1. Ended(d)' = Ended(k) /\ \A x : UpTo(d, x)' = UpTo(k, x)
  BY DEF Ended, UpTo, Runs, IsRun
<1> QED
  BY <1>1 DEF WordsAre

\* The words up to a place, by the value of the place.
LEMMA WordsAreAt ==
  ASSUME NEW k, e' = k, WordsAre(k)'
  PROVE  WordsAre(e)'
BY DEF WordsAre, Ended, UpTo

\* When line and words stay, so do the words.
LEMMA WordsStay ==
  ASSUME UNCHANGED <<line, words>>
  PROVE  /\ WordsAre(Len(line)) => WordsAre(Len(line))'
         /\ e' = e /\ WordsAre(e) => WordsAre(e)'
<1>1. ASSUME WordsAre(Len(line)) PROVE WordsAre(Len(line))'
  <2> SUFFICES ASSUME NEW k, k = Len(line) PROVE WordsAre(Len(line))'
    OBVIOUS
  <2>1. WordsAre(k)' /\ Len(line)' = k
    BY <1>1, NoWordMore
  <2> QED
    BY <2>1 DEF WordsAre, Ended, UpTo
<1>2. ASSUME e' = e, WordsAre(e) PROVE WordsAre(e)'
  <2> SUFFICES ASSUME NEW k, k = e PROVE WordsAre(e)'
    OBVIOUS
  <2>1. WordsAre(k)' /\ e' = k
    BY <1>2, NoWordMore
  <2> QED
    BY <2>1, WordsAreAt
<1> QED
  BY <1>1, <1>2

\* Reading a character keeps the words right.
LEMMA SplittingReads ==
  ASSUME TextInv, line \in Seq(Chars), Splitting, CreateNgram
  PROVE  Splitting'
<1> SUFFICES ASSUME NEW b, NEW k, b = s, k = e
             PROVE  Splitting'
  OBVIOUS
<1>1. /\ pc = "split" /\ pc' = "split" /\ k < Len(line) /\ e' = k + 1 /\ line' = line
      /\ IF line[k + 1] \notin Separators
         THEN UNCHANGED <<s, words>>
         ELSE /\ s' = k + 1
              /\ words' = IF b # k THEN Append(words, SubSeq(line, b + 1, k)) ELSE words
  BY DEF CreateNgram, IsWord
<1>2. /\ WordsAre(k)
      /\ b = 0 \/ (b \in 1..Len(line) /\ line[b] \in Separators)
      /\ \A z \in (b + 1)..k : line[z] \notin Separators
  BY <1>1 DEF Splitting
<1>3. b \in Nat /\ k \in Nat /\ b <= k /\ Len(line) \in Nat
  BY Places, LenProperties
<1>4. /\ line[k + 1] \notin Separators \/ b = k => Ended(k + 1) = Ended(k)
      /\ line[k + 1] \in Separators /\ b # k => Ended(k + 1) = Ended(k) \union {<<b + 1, k>>}
      /\ \A r \in Ended(k) : r[1] < b + 1
  BY <1>1, <1>2, <1>3, OneRun
<1>5. WordsAre(k + 1)'
  <2>1. CASE line[k + 1] \notin Separators \/ b = k
    BY <1>1, <1>2, <1>4, <2>1, NoWordMore
  <2>2. CASE line[k + 1] \in Separators /\ b # k
    <3>1. b < k
      BY <1>3, <2>2
    <3>2. words' = Append(words, SubSeq(line, b + 1, k))
      BY <1>1, <2>2
    <3> QED
      BY <1>1, <1>2, <1>3, <1>4, <2>2, <3>1, <3>2, WordMore
  <2> QED
    BY <2>1, <2>2
<1>6. WordsAre(e)'
  BY <1>1, <1>5, WordsAreAt
<1>7. /\ s' = 0 \/ (s' \in 1..Len(line') /\ line'[s'] \in Separators)
      /\ \A z \in (s' + 1)..e' : line'[z] \notin Separators
  <2>1. CASE line[k + 1] \notin Separators
    <3>1. s' = b
      BY <1>1, <2>1
    <3>2. \A z \in (b + 1)..(k + 1) : z \in (b + 1)..k \/ z = k + 1
      BY <1>3
    <3> QED
      BY <1>1, <1>2, <2>1, <3>1, <3>2
  <2>2. CASE line[k + 1] \in Separators
    <3>1. s' = k + 1 /\ k + 1 \in 1..Len(line) /\ (k + 2)..(k + 1) = {}
      BY <1>1, <1>3, <2>2
    <3>2. (k + 1) + 1 = k + 2
      BY <1>3
    <3> QED
      BY <1>1, <2>2, <3>1, <3>2
  <2> QED
    BY <2>1, <2>2
<1> QED
  BY <1>1, <1>6, <1>7 DEF Splitting

\* Every step keeps the words right.
LEMMA SplittingStep ==
  ASSUME TextInv, line \in Seq(Chars), Splitting, [Next \/ Answered]_vars
  PROVE  Splitting'
<1>1. CASE CreateNgram
  BY <1>1, SplittingReads
<1>2. CASE BeginSearch
  <2>1. pc = "split" /\ pc' = "walk" /\ e = Len(line) /\ UNCHANGED <<line, words>>
    BY <1>2 DEF BeginSearch, vectorVars
  <2>2. WordsAre(Len(line))
    BY <2>1 DEF Splitting
  <2>3. WordsAre(Len(line))'
    BY <2>1, <2>2, WordsStay
  <2> QED
    BY <2>1, <2>3 DEF Splitting
<1>3. CASE UNCHANGED <<line, words, s, e, pc>>
  BY <1>3, WordsStay DEF Splitting
<1>4. CASE /\ NextStart \/ NotAnNgram \/ AnNgram \/ GrowBuffer \/ CopyWord
              \/ AskBloom \/ GrowAnswer \/ AppendNgram \/ EndSearch
  <2>1. pc # "split" /\ pc' # "split" /\ UNCHANGED <<line, words>>
    BY <1>4 DEF NextStart, NotAnNgram, AnNgram, GrowBuffer, CopyWord, AskBloom, GrowAnswer,
                AppendNgram, EndSearch, AtNode, vectorVars
  <2>2. WordsAre(Len(line))
    BY <2>1 DEF Splitting
  <2>3. WordsAre(Len(line))'
    BY <2>1, <2>2, WordsStay
  <2> QED
    BY <2>1, <2>3 DEF Splitting
<1>5. CASE UNCHANGED vars
  BY <1>3, <1>5 DEF vars
<1> QED
  BY <1>1, <1>2, <1>4, <1>5, <1>3 DEF Next, Answered, vars

\* createNgram finds exactly the words of the line, in their order, whatever
\* the lengths of line and words and wherever separators stand.
THEOREM WordsFound == Spec => []SplitsInWords
<1>1. Init => Splitting
  BY InitSplitting
<1>2. TextInv /\ line \in Lines /\ Splitting /\ [Next \/ Answered]_vars => Splitting'
  BY SplittingStep, Constants
<1>3. line \in Lines /\ Splitting => SplitsInWords
  <2> SUFFICES ASSUME line \in Lines, Splitting, pc # "split"
               PROVE  SplitsInWords
    BY DEF SplitsInWords
  <2>1. line \in Seq(Chars) /\ WordsAre(Len(line))
    BY Constants DEF Splitting
  <2>2. Ended(Len(line)) = Runs
    BY <2>1, AllEnded
  <2> QED
    BY <2>1, <2>2 DEF WordsAre, UpTo, SplitsInWords
<1> QED
  BY <1>1, <1>2, <1>3, TextInvariant, PTL DEF Spec

(***************************************************************************)
(* What the filter leaves out was covered by what was answered before.     *)
(***************************************************************************)
\* The search came to p before the node after k words from b on.
Passed(b, k, p) ==
  \E x \in DOMAIN words : From(p, x) /\ (x < b \/ (x = b /\ Len(p) <= k))

BitsOf(a) == UNION {Bits[q] : q \in ToSet(a)}
SoonerBits(a, p) == UNION {Bits[q] : q \in {q \in ToSet(a) : Sooner(q, p)}}

\* The answers a are those of the nodes passed, but for those covered.
Answers(a, b, k) ==
  /\ \A q \in ToSet(a) : q \in Seen(trie) /\ Passed(b, k, q)
  /\ \A x, y \in DOMAIN a : x < y => Sooner(a[x], a[y])
  /\ \A p \in Seen(trie) \ ToSet(a) : Passed(b, k, p) => Bits[p] \subseteq SoonerBits(a, p)

Covering ==
  /\ pc # "split" => Answers(answered, start, i - start)
  /\ Positions(bloomFilter) = BitsOf(answered) \union (IF pc = "append" THEN Bits[Here] ELSE {})
  /\ pc = "append" => ~(Bits[Here] \subseteq BitsOf(answered))
  /\ pc = "done" => start > Len(words)

\* The node of an n-gram on the way of a search.
LEMMA FromPlace ==
  ASSUME TextInv, NEW x \in 1..Len(words), NEW p
  PROVE  /\ From(p, x) => /\ p \in DOMAIN trie /\ Len(p) \in 1..Reach(trie, words, x)
                          /\ p = SubSeq(words, x, x + Len(p) - 1)
         /\ \A n \in 1..Reach(trie, words, x) : From(SubSeq(words, x, x + n - 1), x)
<1> DEFINE w == Walk(trie, words, x)
           r == Reach(trie, words, x)
<1>1. words \in Seq(Seq(Chars)) /\ Len(words) \in Nat
  BY LenProperties DEF TextInv, TypeOK
<1>2. /\ r \in Nat /\ r <= Len(words) - x + 1 /\ DOMAIN w = 1..r
      /\ \A n \in 1..r : w[n] = SubSeq(words, x, x + n - 1) /\ w[n] \in DOMAIN trie
  <2>1. r \in Nat /\ r <= Len(words) - x + 1
    BY <1>1, WalkPieces
  <2>2. DOMAIN w = 1..r /\ \A n \in 1..r : w[n] = SubSeq(words, x, x + n - 1)
    BY DEF Walk
  <2>3. \A n \in 1..r : w[n] \in PiecesIn(words) \intersect DOMAIN trie
    BY <1>1, WalkPieces
  <2> HIDE DEF w, r
  <2> QED
    BY <2>1, <2>2, <2>3
<1>3. From(p, x) <=> \E n \in 1..r : p = w[n]
  BY <1>2 DEF From, ToSet
<1> HIDE DEF w, r
<1>4. ASSUME NEW n \in 1..r
      PROVE  Len(SubSeq(words, x, x + n - 1)) = n
  <2>1. x \in Nat /\ x <= x + n - 1 /\ (x + n - 1) - x + 1 = n
    BY <1>2
  <2>2. \A y \in x..(x + n - 1) : y \in 1..Len(words)
    BY <1>1, <1>2
  <2>3. \A y \in x..(x + n - 1) : words[y] \in Seq(Chars)
    BY <1>1, <2>2, ElementOfSeq
  <2>4. x + n - 1 \in Int
    BY <1>2
  <2> QED
    BY <2>1, <2>3, <2>4, SubSeqProperties
<1>5. From(p, x) => /\ p \in DOMAIN trie /\ Len(p) \in 1..r
                    /\ p = SubSeq(words, x, x + Len(p) - 1)
  BY <1>2, <1>3, <1>4
<1>6. \A n \in 1..r : From(SubSeq(words, x, x + n - 1), x)
  BY <1>2 DEF From, ToSet, w
<1> QED
  BY <1>5, <1>6 DEF r

\* Before the first node nothing is passed.
LEMMA NonePassed ==
  ASSUME TextInv, NEW p
  PROVE  ~Passed(1, 0, p)
<1> SUFFICES ASSUME NEW x \in DOMAIN words, From(p, x), x < 1 \/ (x = 1 /\ Len(p) <= 0)
             PROVE  FALSE
  BY DEF Passed
<1>1. x \in 1..Len(words)
  BY LenProperties DEF TextInv, TypeOK
<1>2. Len(p) \in 1..Reach(trie, words, x)
  BY <1>1, FromPlace
<1> QED
  BY <1>1, <1>2

\* A step from a node passes its n-gram.
LEMMA PassedNext ==
  ASSUME TextInv, Finding, pc \in {"walk", "copy", "append"}, i <= Len(words),
         Here \in DOMAIN trie
  PROVE  /\ Len(Here) = (i - start) + 1
         /\ \A p : Passed(start, (i + 1) - start, p) <=> Passed(start, i - start, p) \/ p = Here
<1>1. /\ words \in Seq(Seq(Chars)) /\ start \in 1..Len(words) /\ i \in start..Len(words)
      /\ DOMAIN words = 1..Len(words) /\ Len(words) \in Nat
  BY AtWalk, LenProperties
<1> DEFINE r == Reach(trie, words, start)
           n == (i + 1) - start
<1>2. n \in 0..r
  BY FoundHere
<1> HIDE DEF r, n
<1>3. n \in Nat /\ n = (i - start) + 1 /\ n >= 1 /\ start + n - 1 = i /\ i - start = n - 1
  BY <1>1 DEF n
<1>4. n \in 1..r
  BY <1>2, <1>3
<1>5. Here = SubSeq(words, start, start + n - 1)
  BY <1>3 DEF Here
<1>6. From(Here, start)
  BY <1>1, <1>4, <1>5, FromPlace DEF r
<1>7. Len(Here) = n
  <2>1. \A y \in start..i : y \in 1..Len(words)
    BY <1>1
  <2>2. \A y \in start..i : words[y] \in Seq(Chars)
    BY <1>1, <2>1, ElementOfSeq
  <2>3. start \in Int /\ i \in Int /\ start <= i /\ i - start + 1 = n
    BY <1>1, <1>3
  <2> QED
    BY <2>2, <2>3, SubSeqProperties DEF Here
<1>8. ASSUME NEW p, Passed(start, n, p)
      PROVE  Passed(start, n - 1, p) \/ p = Here
  <2>1. PICK x \in DOMAIN words : From(p, x) /\ (x < start \/ (x = start /\ Len(p) <= n))
    BY <1>8 DEF Passed
  <2>2. CASE x < start
    BY <2>1, <2>2 DEF Passed
  <2>3. CASE x = start /\ Len(p) <= n
    <3>1. Len(p) \in Nat /\ p = SubSeq(words, start, start + Len(p) - 1)
      <4>1. From(p, start)
        BY <2>1, <2>3
      <4>2. Len(p) \in 1..r /\ p = SubSeq(words, start, start + Len(p) - 1)
        BY <1>1, <4>1, FromPlace DEF r
      <4> QED
        BY <4>2
    <3>2. CASE Len(p) = n
      BY <1>5, <3>1, <3>2
    <3>3. CASE Len(p) # n
      <4>1. Len(p) <= n - 1
        BY <1>3, <2>3, <3>1, <3>3
      <4> QED
        BY <2>1, <2>3, <4>1 DEF Passed
    <3> QED
      BY <3>2, <3>3
  <2> QED
    BY <2>1, <2>2, <2>3
<1>9. ASSUME NEW p, Passed(start, n - 1, p) \/ p = Here
      PROVE  Passed(start, n, p)
  <2>1. CASE p = Here
    BY <1>1, <1>3, <1>6, <1>7, <2>1 DEF Passed
  <2>2. CASE Passed(start, n - 1, p)
    <3>1. PICK x \in DOMAIN words : From(p, x) /\ (x < start \/ (x = start /\ Len(p) <= n - 1))
      BY <2>2 DEF Passed
    <3>2. Len(p) \in Nat
      BY <1>1, <3>1, FromPlace
    <3>3. x < start \/ (x = start /\ Len(p) <= n)
      BY <1>3, <3>1, <3>2
    <3> QED
      BY <3>1, <3>3 DEF Passed
  <2> QED
    BY <1>9, <2>1, <2>2
<1>10. (i + 1) - start = n /\ i - start = n - 1
  BY <1>3 DEF n
<1> QED
  BY <1>3, <1>7, <1>8, <1>9, <1>10

\* A call that is over passed all of its nodes.
LEMMA PassedLast ==
  ASSUME TextInv, Finding, pc = "walk", start <= Len(words), ~AtNode, NEW p
  PROVE  Passed(start + 1, 0, p) <=> Passed(start, i - start, p)
<1>1. /\ words \in Seq(Seq(Chars)) /\ start \in 1..Len(words) /\ i \in start..(Len(words) + 1)
      /\ DOMAIN words = 1..Len(words) /\ Len(words) \in Nat
  BY AtWalk, LenProperties
<1> DEFINE r == Reach(trie, words, start)
           d == i - start
<1>2. d \in 0..r
  BY DEF Finding
<1>3. r \in Nat /\ r <= Len(words) - start + 1
  BY <1>1, WalkPieces
<1>4. d = r
  <2> SUFFICES ASSUME d # r PROVE FALSE
    OBVIOUS
  <2> HIDE DEF r
  <2>1. d + 1 \in 1..r /\ start + (d + 1) - 1 = i /\ i <= Len(words)
    BY <1>1, <1>2, <1>3
  <2>2. From(SubSeq(words, start, start + (d + 1) - 1), start)
    BY <1>1, <2>1, FromPlace DEF r
  <2>3. Here \in DOMAIN trie
    <3>1. From(Here, start)
      BY <2>1, <2>2 DEF Here
    <3> QED
      BY <1>1, <3>1, FromPlace
  <2> QED
    BY <2>1, <2>3 DEF AtNode
<1> HIDE DEF r, d
<1>5. ASSUME NEW x \in DOMAIN words, From(p, x)
      PROVE  /\ Len(p) \in Nat /\ Len(p) >= 1
             /\ x = start => Len(p) <= d
  <2>1. Len(p) \in 1..Reach(trie, words, x)
    BY <1>1, <1>5, FromPlace
  <2>2. x = start => Len(p) \in 1..r
    BY <2>1 DEF r
  <2> QED
    BY <1>3, <1>4, <2>1, <2>2
<1>6. \A x \in DOMAIN words : From(p, x) =>
        (x < start + 1 \/ (x = start + 1 /\ Len(p) <= 0) <=> x < start \/ (x = start /\ Len(p) <= d))
  <2> SUFFICES ASSUME NEW x \in DOMAIN words, From(p, x)
               PROVE  x < start + 1 \/ (x = start + 1 /\ Len(p) <= 0)
                        <=> x < start \/ (x = start /\ Len(p) <= d)
    OBVIOUS
  <2>1. x \in Nat /\ start \in Nat
    BY <1>1
  <2>2. Len(p) \in Nat /\ Len(p) >= 1 /\ (x = start => Len(p) <= d)
    BY <1>5
  <2> QED
    BY <2>1, <2>2
<1> QED
  BY <1>6 DEF Passed, d

\* At the end all n-grams in the text are passed.
LEMMA AllPassed ==
  ASSUME TextInv, start > Len(words), NEW k, NEW x \in DOMAIN words, NEW p, From(p, x)
  PROVE  Passed(start, k, p)
<1>1. x \in 1..Len(words) /\ Len(words) \in Nat /\ start \in Nat
  BY LenProperties, Places DEF TextInv, TypeOK
<1>2. x < start
  BY <1>1
<1> QED
  BY <1>2 DEF Passed

\* What is passed is sooner than an n-gram that is not yet.
LEMMA SoonerThan ==
  ASSUME TextInv, Finding, pc \in {"walk", "copy", "append"}, i <= Len(words),
         Here \in DOMAIN trie, ~Passed(start, i - start, Here),
         NEW q, Passed(start, i - start, q)
  PROVE  Sooner(q, Here)
<1>1. PICK x \in DOMAIN words : From(q, x) /\ (x < start \/ (x = start /\ Len(q) <= i - start))
  BY DEF Passed
<1>2. DOMAIN words = 1..Len(words) /\ Len(words) \in Nat /\ start \in Nat /\ i \in Nat
  BY AtWalk, LenProperties, Places
<1>3. Len(Here) = (i - start) + 1
  BY PassedNext
<1>4. Len(q) \in Nat
  BY <1>1, <1>2, FromPlace
<1>5. ASSUME NEW y \in DOMAIN words, From(Here, y)
      PROVE  x < y \/ (x = y /\ Len(q) < Len(Here))
  <2>1. ~(y < start)
    BY <1>5 DEF Passed
  <2>2. x \in Nat /\ y \in Nat
    BY <1>2
  <2> QED
    BY <1>1, <1>2, <1>3, <1>4, <2>1, <2>2
<1> QED
  BY <1>1, <1>5 DEF Sooner

\* The answers, when text and trie stay.
LEMMA AnswersSame ==
  ASSUME UNCHANGED <<trie, words>>, NEW a, NEW b, NEW k,
         answered' = a, start' = b, (i - start)' = k, Answers(a, b, k)
  PROVE  Answers(answered, start, i - start)'
<1>1. \A p, x : From(p, x)' <=> From(p, x)
  BY DEF From
<1>2. /\ \A p : Passed(start, i - start, p)' <=> Passed(b, k, p)
      /\ \A q, p : Sooner(q, p)' <=> Sooner(q, p)
      /\ Seen(trie)' = Seen(trie)
  BY <1>1 DEF Passed, Sooner
<1>3. \A p : SoonerBits(answered, p)' = SoonerBits(a, p)
  BY <1>2 DEF SoonerBits
<1> QED
  BY <1>2, <1>3 DEF Answers

\* The answers, when the same n-grams that are seen were passed.
LEMMA AnswersPassed ==
  ASSUME NEW a, NEW b, NEW k, Answers(a, b, k), NEW c, NEW d,
         \A p \in Seen(trie) : Passed(c, d, p) <=> Passed(b, k, p)
  PROVE  Answers(a, c, d)
BY DEF Answers

\* The answers, when the n-gram at hand is passed and left out.
LEMMA AnswersLeaveOut ==
  ASSUME NEW a, NEW b, NEW k, Answers(a, b, k), NEW d, NEW h,
         \A p : Passed(b, d, p) <=> Passed(b, k, p) \/ p = h,
         ~Passed(b, k, h) => \A q : Passed(b, k, q) => Sooner(q, h),
         Bits[h] \subseteq BitsOf(a)
  PROVE  Answers(a, b, d)
<1>1. ASSUME ~Passed(b, k, h) PROVE SoonerBits(a, h) = BitsOf(a)
  BY <1>1 DEF SoonerBits, BitsOf, Answers
<1>2. ASSUME NEW p \in Seen(trie) \ ToSet(a), Passed(b, d, p)
      PROVE  Bits[p] \subseteq SoonerBits(a, p)
  <2>1. CASE Passed(b, k, p)
    BY <1>2, <2>1 DEF Answers
  <2>2. CASE ~Passed(b, k, p)
    <3>1. p = h
      BY <1>2, <2>2
    <3> QED
      BY <1>1, <2>2, <3>1
  <2> QED
    BY <2>1, <2>2
<1>3. /\ \A q \in ToSet(a) : q \in Seen(trie) /\ Passed(b, d, q)
      /\ \A x, y \in DOMAIN a : x < y => Sooner(a[x], a[y])
  BY DEF Answers
<1> QED
  BY <1>2, <1>3 DEF Answers

\* The elements of a sequence, and of one with an element more.
LEMMA ElementsNext ==
  ASSUME NEW a \in Seq(Ngram), NEW h \in Ngram
  PROVE  /\ ToSet(Append(a, h)) = ToSet(a) \union {h}
         /\ Len(a) \in Nat /\ DOMAIN a = 1..Len(a)
         /\ DOMAIN Append(a, h) = 1..(Len(a) + 1)
         /\ Append(a, h)[Len(a) + 1] = h
         /\ \A x \in 1..Len(a) : Append(a, h)[x] = a[x] /\ a[x] \in ToSet(a)
<1> DEFINE n == Len(a)
           c == Append(a, h)
<1>1. n \in Nat /\ DOMAIN a = 1..n
  BY LenProperties
<1>2. /\ DOMAIN c = 1..(n + 1) /\ c[n + 1] = h
      /\ \A x \in 1..n : c[x] = a[x]
  BY AppendProperties, LenProperties
<1> HIDE DEF n, c
<1>3. \A x \in 1..(n + 1) : x \in 1..n \/ x = n + 1
  BY <1>1
<1>4. \A x \in 1..n : x \in 1..(n + 1)
  BY <1>1
<1>5. n + 1 \in 1..(n + 1)
  BY <1>1
<1>6. ToSet(a) = {a[x] : x \in 1..n} /\ ToSet(c) = {c[x] : x \in 1..(n + 1)}
  BY <1>1, <1>2 DEF ToSet
<1>7. ToSet(c) = ToSet(a) \union {h}
  BY <1>2, <1>3, <1>4, <1>5, <1>6
<1>8. \A x \in 1..n : a[x] \in ToSet(a)
  BY <1>6
<1> QED
  BY <1>1, <1>2, <1>7, <1>8 DEF n, c

\* The answers, when the n-gram at hand is passed and answered.
LEMMA AnswersAppend ==
  ASSUME NEW a \in Seq(Ngram), NEW b, NEW k, Answers(a, b, k), NEW d, NEW h \in Ngram,
         h \in Seen(trie),
         \A p : Passed(b, d, p) <=> Passed(b, k, p) \/ p = h,
         ~Passed(b, k, h) => \A q : Passed(b, k, q) => Sooner(q, h),
         ~(Bits[h] \subseteq BitsOf(a))
  PROVE  /\ Answers(Append(a, h), b, d)
         /\ BitsOf(Append(a, h)) = BitsOf(a) \union Bits[h]
<1> DEFINE c == Append(a, h)
           n == Len(a)
<1>1. /\ ToSet(c) = ToSet(a) \union {h} /\ n \in Nat
      /\ DOMAIN a = 1..n /\ DOMAIN c = 1..(n + 1) /\ c[n + 1] = h
      /\ \A x \in 1..n : c[x] = a[x] /\ a[x] \in ToSet(a)
  BY ElementsNext
<1> HIDE DEF c, n
<1>2. h \notin ToSet(a)
  BY DEF BitsOf
<1>3. ~Passed(b, k, h)
  <2> SUFFICES ASSUME Passed(b, k, h) PROVE FALSE
    OBVIOUS
  <2>1. Bits[h] \subseteq SoonerBits(a, h)
    BY <1>2 DEF Answers
  <2>2. SoonerBits(a, h) \subseteq BitsOf(a)
    BY DEF SoonerBits, BitsOf
  <2> QED
    BY <2>1, <2>2
<1>4. \A q \in ToSet(a) : q \in Seen(trie) /\ Passed(b, k, q) /\ Sooner(q, h)
  BY <1>3 DEF Answers
<1>5. \A q \in ToSet(c) : q \in Seen(trie) /\ Passed(b, d, q)
  BY <1>1, <1>4
<1>6. ASSUME NEW x \in DOMAIN c, NEW y \in DOMAIN c, x < y
      PROVE  Sooner(c[x], c[y])
  <2>1. x \in 1..n /\ (y \in 1..n \/ y = n + 1)
    BY <1>1, <1>6
  <2>2. CASE y \in 1..n
    <3>1. Sooner(a[x], a[y])
      BY <1>1, <1>6, <2>1, <2>2 DEF Answers
    <3> QED
      BY <1>1, <2>1, <2>2, <3>1
  <2>3. CASE y = n + 1
    BY <1>1, <1>4, <2>1, <2>3
  <2> QED
    BY <2>1, <2>2, <2>3
<1>7. ASSUME NEW p \in Seen(trie) \ ToSet(c), Passed(b, d, p)
      PROVE  Bits[p] \subseteq SoonerBits(c, p)
  <2>1. p \in Seen(trie) \ ToSet(a) /\ Passed(b, k, p)
    BY <1>1, <1>7
  <2>2. Bits[p] \subseteq SoonerBits(a, p)
    BY <2>1 DEF Answers
  <2>3. SoonerBits(a, p) \subseteq SoonerBits(c, p)
    BY <1>1 DEF SoonerBits
  <2> QED
    BY <2>2, <2>3
<1>8. Answers(c, b, d)
  BY <1>5, <1>6, <1>7 DEF Answers
<1>9. BitsOf(c) = BitsOf(a) \union Bits[h]
  BY <1>1 DEF BitsOf
<1> QED
  BY <1>8, <1>9 DEF c

\* Nothing is answered, and no bit is set, before the search.
LEMMA NoneAnswered ==
  ASSUME TextInv
  PROVE  Answers(<<>>, 1, 0) /\ BitsOf(<<>>) = {}
<1>1. ToSet(<<>>) = {}
  BY DEF ToSet
<1>2. DOMAIN <<>> = {}
  OBVIOUS
<1> QED
  BY <1>1, <1>2, NonePassed DEF Answers, BitsOf

\* Before the search nothing is left out.
LEMMA InitCovering == Init => Covering
<1> SUFFICES ASSUME Init PROVE Covering
  OBVIOUS
<1>1. pc = "split" /\ answered = <<>>
  BY DEF Init
<1>2. Positions(bloomFilter) = {}
  BY <1>1, InitFinding DEF Finding
<1>3. BitsOf(answered) = {}
  BY <1>1, InitText, NoneAnswered
<1> QED
  BY <1>1, <1>2, <1>3 DEF Covering

\* The line is read, nodes are seen, bytes are copied and buffers grow.
LEMMA CoveringStays ==
  ASSUME TextInv, Finding, Covering,
         CreateNgram \/ AnNgram \/ GrowBuffer \/ CopyWord \/ GrowAnswer \/ UNCHANGED vars
  PROVE  Covering'
<1>1. CASE CreateNgram
  BY <1>1 DEF CreateNgram, Covering, walkVars, answerVars, BitsOf
<1>2. CASE AnNgram \/ GrowBuffer \/ CopyWord \/ GrowAnswer \/ UNCHANGED vars
  <2>1. /\ UNCHANGED <<trie, words, start, i, bloomFilter, answered>>
        /\ \/ pc = "walk" /\ pc' = "copy"
           \/ pc' = pc
    BY <1>2 DEF AnNgram, AtNode, GrowBuffer, CopyWord, GrowAnswer, vars, vectorVars,
                walkVars, answerVars
  <2>2. pc # "split" => Answers(answered, start, i - start)'
    <3>1. (i - start)' = i - start
      BY <2>1
    <3> QED
      BY <2>1, <3>1, AnswersSame DEF Covering
  <2>3. Here' = Here /\ BitsOf(answered)' = BitsOf(answered)
    BY <2>1 DEF Here, BitsOf
  <2> QED
    BY <2>1, <2>2, <2>3 DEF Covering
<1> QED
  BY <1>1, <1>2

\* The search, a call of it, or a step from a node that is not seen begins.
LEMMA CoveringWalks ==
  ASSUME TextInv, Finding, Covering, BeginSearch \/ NextStart \/ NotAnNgram
  PROVE  Covering'
<1>1. CASE BeginSearch
  <2>1. /\ pc = "split" /\ pc' = "walk" /\ start = 1 /\ i = 1
        /\ UNCHANGED <<trie, words, start, i, bloomFilter, answered>>
    BY <1>1 DEF BeginSearch, TextInv, InStep, vectorVars, walkVars, answerVars
  <2>2. answered = <<>>
    BY <2>1 DEF Finding
  <2>3. Answers(answered, 1, 0)
    BY <2>2, NoneAnswered
  <2>4. Answers(answered, start, i - start)'
    <3>1. answered' = answered /\ start' = 1 /\ (i - start)' = 0
      BY <2>1
    <3> QED
      BY <2>1, <2>3, <3>1, AnswersSame
  <2>5. BitsOf(answered)' = BitsOf(answered)
    BY <2>1 DEF BitsOf
  <2> QED
    BY <2>1, <2>4, <2>5 DEF Covering
<1>2. CASE NextStart
  <2>1. /\ pc = "walk" /\ pc' = "walk" /\ start <= Len(words) /\ ~AtNode
        /\ start' = start + 1 /\ i' = start + 1
        /\ UNCHANGED <<trie, words, bloomFilter, answered>>
    BY <1>2 DEF NextStart, vectorVars, answerVars
  <2>2. Answers(answered, start, i - start)
    BY <2>1 DEF Covering
  <2>3. Answers(answered, start + 1, 0)
    BY <2>1, <2>2, PassedLast, AnswersPassed
  <2>4. Answers(answered, start, i - start)'
    <3>1. answered' = answered /\ start' = start + 1 /\ (i - start)' = 0
      BY <2>1, Places
    <3> QED
      BY <2>1, <2>3, <3>1, AnswersSame
  <2>5. BitsOf(answered)' = BitsOf(answered)
    BY <2>1 DEF BitsOf
  <2> QED
    BY <2>1, <2>4, <2>5 DEF Covering
<1>3. CASE NotAnNgram
  <2>1. /\ pc = "walk" /\ pc' = "walk" /\ AtNode /\ ~trie[Here] /\ i' = i + 1
        /\ UNCHANGED <<trie, words, start, bloomFilter, answered>>
    BY <1>3 DEF NotAnNgram, AtNode, vectorVars, answerVars
  <2>2. i <= Len(words) /\ Here \in DOMAIN trie /\ Here \notin Seen(trie)
    BY <2>1 DEF AtNode, Seen
  <2>3. \A p : Passed(start, (i + 1) - start, p) <=> Passed(start, i - start, p) \/ p = Here
    BY <2>1, <2>2, PassedNext
  <2>4. Answers(answered, start, i - start)
    BY <2>1 DEF Covering
  <2>5. Answers(answered, start, (i + 1) - start)
    BY <2>2, <2>3, <2>4, AnswersPassed
  <2>6. Answers(answered, start, i - start)'
    <3>1. answered' = answered /\ start' = start /\ (i - start)' = (i + 1) - start
      BY <2>1
    <3> QED
      BY <2>1, <2>5, <3>1, AnswersSame
  <2>7. BitsOf(answered)' = BitsOf(answered)
    BY <2>1 DEF BitsOf
  <2> QED
    BY <2>1, <2>6, <2>7 DEF Covering
<1> QED
  BY <1>1, <1>2, <1>3

\* An n-gram at a node: passed next, and the ones passed are sooner.
LEMMA HereNext ==
  ASSUME TextInv, Finding, pc \in {"copy", "append"}
  PROVE  /\ Here \in Seen(trie) /\ Here \in DOMAIN Hash
         /\ \A p : Passed(start, (i + 1) - start, p) <=> Passed(start, i - start, p) \/ p = Here
         /\ ~Passed(start, i - start, Here) =>
              \A q : Passed(start, i - start, q) => Sooner(q, Here)
<1>1. Here \in Seen(trie) /\ i <= Len(words)
  BY DEF Finding, TextInv, InStep
<1>2. Here \in DOMAIN trie /\ Here \in DOMAIN Hash
  BY <1>1, AtWalk DEF Seen
<1>3. pc \in {"walk", "copy", "append"}
  OBVIOUS
<1> QED
  BY <1>1, <1>2, <1>3, PassedNext, SoonerThan

\* The filter leaves the n-gram out, or it is to be answered.
LEMMA CoveringAsks ==
  ASSUME TextInv, Finding, Covering, AskBloom
  PROVE  Covering'
<1> DEFINE asked == FindInBloom(Here, bloomFilter)
<1>1. /\ pc = "copy" /\ bloomFilter' = asked.filter
      /\ UNCHANGED <<trie, words, start, answered>>
      /\ IF asked.retval THEN pc' = "walk" /\ i' = i + 1
                         ELSE pc' = "append" /\ i' = i
  BY DEF AskBloom, vectorVars, answerVars
<1>2. /\ Answers(answered, start, i - start)
      /\ Positions(bloomFilter) = BitsOf(answered)
  BY <1>1 DEF Covering
<1>3. Here \in DOMAIN Hash /\ bloomFilter \in Filters
  BY <1>1, HereNext DEF Finding
<1>4. /\ Positions(asked.filter) = BitsOf(answered) \union Bits[Here]
      /\ asked.retval <=> Bits[Here] \subseteq BitsOf(answered)
  BY <1>2, <1>3, AskedBloom
<1> HIDE DEF asked
<1>5. BitsOf(answered)' = BitsOf(answered)
  BY <1>1 DEF BitsOf
<1>6. CASE asked.retval
  <2>1. pc' = "walk" /\ i' = i + 1 /\ Bits[Here] \subseteq BitsOf(answered)
    BY <1>1, <1>4, <1>6
  <2>2. Answers(answered, start, (i + 1) - start)
    BY <1>1, <1>2, <2>1, HereNext, AnswersLeaveOut
  <2>3. Answers(answered, start, i - start)'
    <3>1. answered' = answered /\ start' = start /\ (i - start)' = (i + 1) - start
      BY <1>1, <2>1
    <3> QED
      BY <1>1, <2>2, <3>1, AnswersSame
  <2>4. Positions(bloomFilter)' = BitsOf(answered)
    BY <1>1, <1>4, <2>1
  <2> QED
    BY <1>5, <2>1, <2>3, <2>4 DEF Covering
<1>7. CASE ~asked.retval
  <2>1. pc' = "append" /\ i' = i /\ ~(Bits[Here] \subseteq BitsOf(answered))
    BY <1>1, <1>4, <1>7
  <2>2. Answers(answered, start, i - start)'
    <3>1. answered' = answered /\ start' = start /\ (i - start)' = i - start
      BY <1>1, <2>1
    <3> QED
      BY <1>1, <1>2, <3>1, AnswersSame
  <2>3. Here' = Here
    BY <1>1, <2>1 DEF Here
  <2>4. Positions(bloomFilter)' = BitsOf(answered) \union Bits[Here]
    BY <1>1, <1>4
  <2> QED
    BY <1>5, <2>1, <2>2, <2>3, <2>4 DEF Covering
<1> QED
  BY <1>6, <1>7

\* The n-gram is answered.
LEMMA CoveringAppends ==
  ASSUME TextInv, Finding, Spelling, Covering, AppendNgram
  PROVE  Covering'
<1>1. /\ pc = "append" /\ pc' = "walk" /\ i' = i + 1 /\ answered' = Append(answered, Here)
      /\ UNCHANGED <<trie, words, start, bloomFilter>>
  BY DEF AppendNgram, vectorVars
<1>2. /\ Answers(answered, start, i - start)
      /\ Positions(bloomFilter) = BitsOf(answered) \union Bits[Here]
      /\ ~(Bits[Here] \subseteq BitsOf(answered))
  BY <1>1 DEF Covering
<1>3. answered \in Seq(Ngram) /\ Here \in Ngram
  BY <1>1, HereSpelled DEF Spelling
<1>4. /\ Answers(Append(answered, Here), start, (i + 1) - start)
      /\ BitsOf(Append(answered, Here)) = BitsOf(answered) \union Bits[Here]
  BY <1>1, <1>2, <1>3, HereNext, AnswersAppend
<1>5. Answers(answered, start, i - start)'
  <2>1. start' = start /\ (i - start)' = (i + 1) - start
    BY <1>1
  <2> QED
    BY <1>1, <1>4, <2>1, AnswersSame
<1>6. BitsOf(answered)' = BitsOf(answered) \union Bits[Here]
  <2>1. BitsOf(answered)' = BitsOf(Append(answered, Here))
    BY <1>1 DEF BitsOf
  <2> QED
    BY <1>4, <2>1
<1>7. Positions(bloomFilter)' = BitsOf(answered)'
  BY <1>1, <1>2, <1>6
<1> QED
  BY <1>1, <1>5, <1>7 DEF Covering

\* The search is over after the last word.
LEMMA CoveringEnds ==
  ASSUME TextInv, Finding, Covering, EndSearch
  PROVE  Covering'
<1>1. /\ pc = "walk" /\ pc' = "done" /\ start > Len(words)
      /\ UNCHANGED <<trie, words, start, i, bloomFilter, answered>>
  BY DEF EndSearch, vectorVars, walkVars
<1>2. Answers(answered, start, i - start)'
  <2>1. (i - start)' = i - start
    BY <1>1
  <2> QED
    BY <1>1, <2>1, AnswersSame DEF Covering
<1>3. BitsOf(answered)' = BitsOf(answered)
  BY <1>1 DEF BitsOf
<1> QED
  BY <1>1, <1>2, <1>3 DEF Covering

\* Every step keeps what was left out covered.
LEMMA CoveringStep ==
  ASSUME TextInv, Finding, Spelling, Covering, [Next \/ Answered]_vars
  PROVE  Covering'
BY CoveringStays, CoveringWalks, CoveringAsks, CoveringAppends, CoveringEnds
   DEF Next, Answered

\* An n-gram of the text that is not answered was covered by those that were,
\* which are answered once and in the order of the text: whatever the n-grams,
\* the text, the hash function and the size of the filter.
THEOREM OnlyCoveredLost == Spec => []LosesOnlyCovered
<1>1. Init => Finding /\ Spelling /\ Covering
  BY InitFinding, InitSpelling, InitCovering
<1>2. TextInv /\ (Finding /\ Spelling /\ Covering) /\ [Next \/ Answered]_vars
        => (Finding /\ Spelling /\ Covering)'
  BY FindingStep, SpellingStep, CoveringStep
<1>3. TextInv /\ Covering => LosesOnlyCovered
  <2> SUFFICES ASSUME TextInv, Covering, pc = "done"
               PROVE  LosesOnlyCovered
    BY DEF LosesOnlyCovered
  <2>1. Answers(answered, start, i - start) /\ start > Len(words)
    BY DEF Covering
  <2>2. \A p \in Occurring : p \in Seen(trie) /\ Passed(start, i - start, p)
    BY <2>1, AllPassed DEF Occurring, Seen
  <2>3. ToSet(answered) \subseteq Occurring
    BY <2>1 DEF Answers, Passed, Occurring, Seen
  <2>4. \A x, y \in DOMAIN answered : x < y => Sooner(answered[x], answered[y])
    BY <2>1 DEF Answers
  <2>5. \A p \in Occurring \ ToSet(answered) : Covered(p)
    BY <2>1, <2>2 DEF Answers, Covered, SoonerBits
  <2> QED
    BY <2>3, <2>4, <2>5 DEF LosesOnlyCovered
<1> QED
  BY <1>1, <1>2, <1>3, TextInvariant, PTL DEF Spec
=============================================================================
