-------------------------- MODULE TrieArrays_proofs --------------------------
(***************************************************************************)
(* Proofs about TrieArrays, for any words, hash keys and initial sizes:    *)
(* the sorted arrays with their deleted slots, in a hash table that grows  *)
(* bucket by bucket, hold exactly the trie of VersionedTrie, and own the   *)
(* strings that trieFree frees.                                            *)
(***************************************************************************)
EXTENDS TrieArrays, VersionedTrie_proofs, FiniteSetTheorems, FunctionTheorems

-----------------------------------------------------------------------------
(***************************************************************************)
(* The hash functions of the rounds.                                       *)
(***************************************************************************)
\* f is the width of the rounds up to n.
Doubles(f, n) ==
  f \in [0..n -> Nat \ {0}] /\ f[0] = m /\ \A k \in 1..n : f[k] = 2 * f[k - 1]

LEMMA DoublesExists ==
  ASSUME NEW n \in Nat
  PROVE  \E f : Doubles(f, n)
<1> DEFINE K == {k \in 0..n : \E f : Doubles(f, k)}
<1>1. 0 \in K
  <2>1. Doubles([k \in 0..0 |-> m], 0)
    BY ArraysAssumption DEF Doubles
  <2> QED
    BY <2>1
<1>2. ASSUME NEW k \in 0..(n - 1), k \in K PROVE k + 1 \in K
  <2>1. PICK f : Doubles(f, k)
    BY <1>2
  <2> DEFINE g == [b \in 0..(k + 1) |-> IF b = k + 1 THEN 2 * f[k] ELSE f[b]]
  <2>2. k \in Nat /\ k \in 0..k /\ k + 1 \in 0..n
    OBVIOUS
  <2>3. \A b \in 0..(k + 1) : b = k + 1 \/ b \in 0..k
    BY <2>2
  <2>4. \A b \in 0..k : f[b] \in Nat \ {0}
    BY <2>1 DEF Doubles
  <2>5. \A b \in 0..k : 2 * f[b] \in Nat \ {0}
    BY <2>4
  <2>6. g \in [0..(k + 1) -> Nat \ {0}]
    BY <2>2, <2>3, <2>4, <2>5
  <2>7. g[0] = m
    BY <2>1, <2>2 DEF Doubles
  <2>8. \A b \in 1..(k + 1) : g[b] = 2 * g[b - 1]
    <3> SUFFICES ASSUME NEW b \in 1..(k + 1) PROVE g[b] = 2 * g[b - 1]
      OBVIOUS
    <3>1. b - 1 \in 0..k /\ b \in 0..(k + 1) /\ b - 1 \in 0..(k + 1) /\ b - 1 # k + 1
      BY <2>2
    <3>2. g[b - 1] = f[b - 1]
      BY <3>1
    <3>3. CASE b = k + 1
      <4>1. b - 1 = k
        BY <2>2, <3>3
      <4> QED
        BY <3>1, <3>2, <3>3, <4>1
    <3>4. CASE b # k + 1
      <4>1. b \in 1..k
        BY <2>2, <3>4
      <4>2. f[b] = 2 * f[b - 1]
        BY <2>1, <4>1 DEF Doubles
      <4> QED
        BY <3>1, <3>2, <3>4, <4>2
    <3> QED
      BY <3>3, <3>4
  <2> HIDE DEF g
  <2>9. Doubles(g, k + 1)
    BY <2>6, <2>7, <2>8 DEF Doubles
  <2> QED
    BY <2>2, <2>9
<1>3. n \in K
  <2> HIDE DEF K
  <2>1. \A k \in 0..n : k \in K
    BY <1>1, <1>2, SetInduction
  <2> QED
    BY <2>1
<1> QED
  BY <1>3

LEMMA DoublesUnique ==
  ASSUME NEW n \in Nat, NEW d \in Nat, n <= d, NEW f, NEW g, Doubles(f, n), Doubles(g, d)
  PROVE  f[n] = g[n]
<1> DEFINE K == {k \in 0..n : f[k] = g[k]}
<1>1. 0 \in K
  BY DEF Doubles
<1>2. ASSUME NEW k \in 0..(n - 1), k \in K PROVE k + 1 \in K
  <2>1. k + 1 \in 1..n /\ k + 1 \in 1..d /\ (k + 1) - 1 = k /\ k + 1 \in 0..n
    OBVIOUS
  <2>2. f[k + 1] = 2 * f[k] /\ g[k + 1] = 2 * g[k]
    BY <2>1 DEF Doubles
  <2> QED
    BY <1>2, <2>1, <2>2
<1> HIDE DEF K
<1>3. \A k \in 0..n : k \in K
  BY <1>1, <1>2, SetInduction
<1> QED
  BY <1>3 DEF K

\* Each round has twice as many buckets as the one before.
LEMMA WidthDoubles ==
  /\ Width[0] = m
  /\ \A k \in Nat : Width[k] \in Nat \ {0} /\ Width[k + 1] = 2 * Width[k]
<1> DEFINE F(k) == CHOOSE f : Doubles(f, k)
           f == [k \in Nat |-> F(k)[k]]
<1>1. ASSUME NEW k \in Nat PROVE Doubles(F(k), k)
  BY DoublesExists
<1> HIDE DEF F
<1>2. f[0] = m
  BY <1>1 DEF Doubles
<1>3. ASSUME NEW k \in Nat PROVE f[k] \in Nat \ {0} /\ f[k + 1] = 2 * f[k]
  <2>1. k \in 0..k /\ k + 1 \in Nat /\ k + 1 \in 1..(k + 1) /\ (k + 1) - 1 = k
    OBVIOUS
  <2>2. F(k)[k] \in Nat \ {0}
    BY <1>1, <2>1 DEF Doubles
  <2>3. F(k + 1)[k + 1] = 2 * F(k + 1)[k]
    <3>1. Doubles(F(k + 1), k + 1)
      BY <1>1, <2>1
    <3> QED
      BY <2>1, <3>1 DEF Doubles
  <2>4. F(k)[k] = F(k + 1)[k]
    <3>1. k <= k + 1
      OBVIOUS
    <3>2. Doubles(F(k), k) /\ Doubles(F(k + 1), k + 1)
      BY <1>1, <2>1
    <3> QED
      BY <2>1, <3>1, <3>2, DoublesUnique
  <2> QED
    BY <2>1, <2>2, <2>3, <2>4
<1>4. f = [k \in Nat |-> IF k = 0 THEN m ELSE 2 * f[k - 1]]
  <2>1. ASSUME NEW k \in Nat PROVE f[k] = IF k = 0 THEN m ELSE 2 * f[k - 1]
    <3>1. CASE k = 0
      BY <1>2, <3>1
    <3>2. CASE k # 0
      <4>1. k - 1 \in Nat /\ (k - 1) + 1 = k
        BY <3>2
      <4> HIDE DEF f
      <4>2. f[(k - 1) + 1] = 2 * f[k - 1]
        BY <1>3, <4>1
      <4> QED
        BY <3>2, <4>1, <4>2
    <3> QED
      BY <3>1, <3>2
  <2>2. f = [k \in Nat |-> f[k]]
    OBVIOUS
  <2> HIDE DEF f
  <2> QED
    BY <2>1, <2>2
<1> HIDE DEF f
<1>5. Width = [k \in Nat |-> IF k = 0 THEN m ELSE 2 * Width[k - 1]]
  BY <1>4 DEF Width
<1>6. Width[0] = m
  BY <1>5
<1>7. \A k \in Nat : Width[k + 1] = 2 * Width[k]
  <2> SUFFICES ASSUME NEW k \in Nat PROVE Width[k + 1] = 2 * Width[k]
    OBVIOUS
  <2>1. k + 1 \in Nat /\ k + 1 # 0 /\ (k + 1) - 1 = k
    OBVIOUS
  <2> QED
    BY <1>5, <2>1
<1>8. ASSUME NEW n \in Nat PROVE Width[n] \in Nat \ {0}
  <2> DEFINE K == {k \in 0..n : Width[k] \in Nat \ {0}}
  <2>1. 0 \in K
    BY <1>6, ArraysAssumption
  <2>2. ASSUME NEW k \in 0..(n - 1), k \in K PROVE k + 1 \in K
    <3>1. k \in Nat /\ k + 1 \in 0..n
      OBVIOUS
    <3>2. Width[k + 1] = 2 * Width[k] /\ Width[k] \in Nat \ {0}
      BY <1>7, <2>2, <3>1
    <3>3. Width[k + 1] \in Nat \ {0}
      BY <3>2
    <3> QED
      BY <3>1, <3>3
  <2> HIDE DEF K
  <2>3. \A k \in 0..n : k \in K
    BY <2>1, <2>2, SetInduction
  <2> QED
    BY <2>3 DEF K
<1> QED
  BY <1>6, <1>7, <1>8

\* A quotient and a remainder are the only ones.
LEMMA OneRemainder ==
  ASSUME NEW n \in Nat, NEW q \in Int, NEW k \in Int,
         NEW r \in 0..(n - 1), NEW t \in 0..(n - 1), n * q + r = n * k + t
  PROVE  r = t
<1>1. n * (q - k) = t - r
  OBVIOUS
<1>2. CASE q - k >= 1
  <2>1. n * (q - k) >= n
    BY <1>2
  <2> QED
    BY <1>1, <2>1
<1>3. CASE q - k <= -1
  <2>1. n * (q - k) <= -n
    BY <1>3
  <2> QED
    BY <1>1, <2>1
<1>4. CASE q = k
  BY <1>1, <1>4
<1> QED
  BY <1>2, <1>3, <1>4

LEMMA Division ==
  ASSUME NEW h \in Nat, NEW n \in Nat \ {0}
  PROVE  h % n \in 0..(n - 1) /\ h \div n \in Nat /\ h = n * (h \div n) + (h % n)
OBVIOUS

\* A remainder by twice as much is the remainder, or further by n.
LEMMA TwiceAsMany ==
  ASSUME NEW h \in Nat, NEW n \in Nat \ {0}, NEW w \in Nat \ {0}, w = 2 * n
  PROVE  h % w \in {h % n, (h % n) + n}
<1> DEFINE q == h \div n
           k == h \div w
           r == h % n
           t == h % w
<1>1. /\ r \in 0..(n - 1) /\ q \in Nat /\ h = n * q + r
      /\ t \in 0..(w - 1) /\ k \in Nat /\ h = w * k + t
  BY Division
<1> HIDE DEF q, k, r, t
<1>2. w * k = n * (2 * k)
  BY <1>1
<1>3. n * q + r = n * (2 * k) + t
  BY <1>1, <1>2
<1>4. CASE t < n
  <2>1. t \in 0..(n - 1) /\ 2 * k \in Int /\ q \in Int
    BY <1>1, <1>4
  <2>2. r = t
    BY <1>1, <1>3, <2>1, OneRemainder
  <2> QED
    BY <2>2 DEF r, t
<1>5. CASE t >= n
  <2> DEFINE d == t - n
             b == (2 * k) + 1
  <2>1. d \in 0..(n - 1) /\ b \in Int /\ q \in Int
    BY <1>1, <1>5
  <2>2. n * b = n * (2 * k) + n
    BY <1>1
  <2>3. n * q + r = n * b + d
    BY <1>1, <1>3, <2>2
  <2> HIDE DEF b, d
  <2>4. r = d
    BY <1>1, <2>1, <2>3, OneRemainder
  <2>5. t = r + n
    BY <1>1, <2>4 DEF d
  <2> QED
    BY <2>5 DEF r, t
<1> QED
  BY <1>1, <1>4, <1>5

\* The hash function of a round gives a bucket of the round; that of the next
\* round gives the same or the one that is split off it.
LEMMA HashRounds ==
  ASSUME NEW w \in Words, NEW k \in Nat
  PROVE  /\ Hash_function(w, k) \in 0..(Width[k] - 1)
         /\ Hash_function(w, k + 1) \in {Hash_function(w, k), Hash_function(w, k) + Width[k]}
<1>1. Hashkey[w] \in Nat
  BY ArraysAssumption
<1>2. k + 1 \in Nat
  OBVIOUS
<1>3. Width[k] \in Nat \ {0} /\ Width[k + 1] \in Nat \ {0} /\ Width[k + 1] = 2 * Width[k]
  BY <1>2, WidthDoubles
<1> QED
  BY <1>1, <1>3, Division, TwiceAsMany DEF Hash_function

-----------------------------------------------------------------------------
(***************************************************************************)
(* The binary search of an array.                                          *)
(***************************************************************************)
\* The words of the used slots are in order.
Ordered(x) ==
  /\ Size(x) \in Nat
  /\ \A j \in Slots(x) : x.children[j].word \in Nat
  /\ \A j, k \in Slots(x) : j < k => x.children[j].word < x.children[k].word

\* a is where the word is, or where it belongs.
Place(x, w, a) ==
  /\ a \in 0..Size(x)
  /\ \A j \in Slots(x) : (j < a => x.children[j].word < w)
                           /\ (j >= a => w <= x.children[j].word)

LEMMA PlaceExists ==
  ASSUME NEW x, Ordered(x), NEW w \in Nat
  PROVE  \E a : Place(x, w, a)
<1> DEFINE n == Size(x)
           T == {j \in 0..n : j = n \/ w <= x.children[j].word}
<1>1. n \in Nat /\ Slots(x) = 0..(n - 1)
  BY DEF Ordered, Slots
<1>2. T \in SUBSET Nat /\ n \in T
  BY <1>1
<1>3. PICK a \in T : \A y \in T : a <= y
  <2> HIDE DEF T
  <2> QED
    BY <1>2, LeastNumber
<1>4. a \in 0..n
  OBVIOUS
<1>5. ASSUME NEW j \in Slots(x), j < a PROVE x.children[j].word < w
  <2>1. j \in 0..n /\ j \notin T
    BY <1>1, <1>3, <1>4, <1>5
  <2>2. ~(w <= x.children[j].word)
    BY <2>1
  <2> QED
    BY <2>2 DEF Ordered
<1>6. ASSUME NEW j \in Slots(x), j >= a PROVE w <= x.children[j].word
  <2>1. j \in 0..(n - 1) /\ a # n /\ a \in Slots(x)
    BY <1>1, <1>4, <1>6
  <2>2. w <= x.children[a].word
    BY <2>1
  <2>3. j = a \/ x.children[a].word < x.children[j].word
    BY <1>1, <1>4, <1>6, <2>1 DEF Ordered
  <2>4. x.children[a].word \in Nat /\ x.children[j].word \in Nat
    BY <2>1 DEF Ordered
  <2> QED
    BY <2>2, <2>3, <2>4
<1> QED
  BY <1>4, <1>5, <1>6 DEF Place

\* What the search answers for the slots from fst to lst, whether or not the
\* word belongs there.
AnswerIn(x, w, a, fst, lst) ==
  IF fst > lst \/ a < fst THEN [position |-> fst, found |-> FALSE]
  ELSE IF a > lst THEN [position |-> lst + 1, found |-> FALSE]
  ELSE [position |-> a, found |-> x.children[a].word = w]

\* One turn of the loop does not change the answer.
LEMMA SearchTurn ==
  ASSUME NEW x, Ordered(x), NEW w \in Nat, NEW a, Place(x, w, a),
         NEW fst \in 0..Size(x), NEW lst \in -1..(Size(x) - 1), fst <= lst,
         NEW d, d = (fst + lst) \div 2
  PROVE  /\ d \in Slots(x) /\ fst <= d /\ d <= lst
         /\ d + 1 \in 0..Size(x) /\ d - 1 \in -1..(Size(x) - 1)
         /\ AnswerIn(x, w, a, fst, lst) =
              IF x.children[d].word = w THEN [position |-> d, found |-> TRUE]
              ELSE IF x.children[d].word < w THEN AnswerIn(x, w, a, d + 1, lst)
              ELSE AnswerIn(x, w, a, fst, d - 1)
<1> DEFINE n == Size(x)
           at == x.children[d].word
<1>1. n \in Nat /\ Slots(x) = 0..(n - 1) /\ a \in 0..n
  BY DEF Ordered, Slots, Place
<1>2. d \in Int /\ fst <= d /\ d <= lst
  BY <1>1
<1>3. /\ d \in Slots(x) /\ d + 1 \in 0..Size(x) /\ d - 1 \in -1..(Size(x) - 1)
  BY <1>1, <1>2
<1>4. at \in Nat /\ (d < a => at < w) /\ (d >= a => w <= at)
  BY <1>3 DEF Ordered, Place
<1>5. a \in Slots(x) => x.children[a].word \in Nat /\ w <= x.children[a].word
  BY <1>1 DEF Ordered, Place
<1>6. a \in Slots(x) /\ a < d => x.children[a].word < at
  BY <1>1, <1>3 DEF Ordered
<1>7. a < d => a \in Slots(x)
  BY <1>1, <1>3
<1> HIDE DEF at
<1>8. CASE at = w
  <2>1. d >= a /\ ~(a < d)
    BY <1>1, <1>2, <1>4, <1>5, <1>6, <1>7, <1>8
  <2>2. d = a
    BY <1>1, <1>2, <2>1
  <2>3. AnswerIn(x, w, a, fst, lst) = [position |-> d, found |-> TRUE]
    <3>1. ~(fst > lst \/ a < fst) /\ ~(a > lst)
      BY <1>1, <1>2, <2>2
    <3> QED
      BY <1>8, <2>2, <3>1 DEF AnswerIn, at
  <2> QED
    BY <1>2, <1>3, <1>8, <2>3 DEF at
<1>9. CASE at < w
  <2>1. d < a /\ at # w
    BY <1>1, <1>2, <1>4, <1>9
  <2>2. AnswerIn(x, w, a, fst, lst) = AnswerIn(x, w, a, d + 1, lst)
    <3>1. CASE a > lst
      <4>1. fst > lst \/ a < fst <=> FALSE
        BY <1>1, <1>2, <2>1
      <4>2. AnswerIn(x, w, a, fst, lst) = [position |-> lst + 1, found |-> FALSE]
        BY <3>1, <4>1 DEF AnswerIn
      <4>3. CASE d = lst
        BY <1>2, <4>2, <4>3 DEF AnswerIn
      <4>4. CASE d # lst
        <5>1. ~(d + 1 > lst) /\ ~(a < d + 1)
          BY <1>1, <1>2, <2>1, <4>4
        <5> QED
          BY <3>1, <4>2, <5>1 DEF AnswerIn
      <4> QED
        BY <4>3, <4>4
    <3>2. CASE a <= lst
      <4>1. ~(fst > lst \/ a < fst) /\ ~(d + 1 > lst \/ a < d + 1) /\ ~(a > lst)
        BY <1>1, <1>2, <2>1, <3>2
      <4> QED
        BY <4>1 DEF AnswerIn
    <3> QED
      BY <1>1, <3>1, <3>2
  <2> QED
    BY <1>2, <1>3, <1>9, <2>1, <2>2 DEF at
<1>10. CASE at > w
  <2>1. d >= a /\ at # w /\ ~(at < w)
    BY <1>1, <1>2, <1>4, <1>10
  <2>2. AnswerIn(x, w, a, fst, lst) = AnswerIn(x, w, a, fst, d - 1)
    <3>1. CASE a < fst
      <4>1. (fst > lst \/ a < fst) /\ (fst > d - 1 \/ a < fst)
        BY <3>1
      <4> QED
        BY <4>1 DEF AnswerIn
    <3>2. CASE a >= fst /\ a = d
      <4>1. ~(fst > lst \/ a < fst) /\ ~(a > lst)
        BY <1>1, <1>2, <3>2
      <4>2. AnswerIn(x, w, a, fst, lst) = [position |-> d, found |-> FALSE]
        BY <2>1, <3>2, <4>1 DEF AnswerIn, at
      <4>3. CASE d = fst
        <5>1. fst > d - 1
          BY <1>2, <4>3
        <5> QED
          BY <4>2, <4>3, <5>1 DEF AnswerIn
      <4>4. CASE d # fst
        <5>1. ~(fst > d - 1 \/ a < fst) /\ a > d - 1 /\ (d - 1) + 1 = d
          BY <1>1, <1>2, <3>2, <4>4
        <5> QED
          BY <4>2, <5>1 DEF AnswerIn
      <4> QED
        BY <4>3, <4>4
    <3>3. CASE a >= fst /\ a # d
      <4>1. ~(fst > lst \/ a < fst) /\ ~(a > lst) /\ ~(fst > d - 1 \/ a < fst) /\ ~(a > d - 1)
        BY <1>1, <1>2, <2>1, <3>3
      <4> QED
        BY <4>1 DEF AnswerIn
    <3> QED
      BY <1>1, <3>1, <3>2, <3>3
  <2> QED
    BY <1>2, <1>3, <2>1, <2>2 DEF at
<1> QED
  BY <1>4, <1>8, <1>9, <1>10

\* trieBinarySearch finds the place of any word in an array in order.
LEMMA SearchPlace ==
  ASSUME NEW x, Ordered(x), NEW w \in Nat, NEW a, Place(x, w, a)
  PROVE  BinarySearch(x, w) =
           [position |-> a,
            found |-> a \in Slots(x) /\ x.children[a].word = w]
<1> DEFINE n == Size(x)
           R == (0..n) \X (-1..(n - 1))
           Turn(f, r) ==
             IF r[1] > r[2] THEN [position |-> r[1], found |-> FALSE]
             ELSE IF x.children[(r[1] + r[2]) \div 2].word = w
                  THEN [position |-> (r[1] + r[2]) \div 2, found |-> TRUE]
             ELSE IF x.children[(r[1] + r[2]) \div 2].word < w
                  THEN f[<<((r[1] + r[2]) \div 2) + 1, r[2]>>]
             ELSE f[<<r[1], ((r[1] + r[2]) \div 2) - 1>>]
           F == [r \in R |-> AnswerIn(x, w, a, r[1], r[2])]
           search == CHOOSE f : f = [r \in R |-> Turn(f, r)]
<1>1. n \in Nat /\ Slots(x) = 0..(n - 1) /\ a \in 0..n
  BY DEF Ordered, Slots, Place
<1>2. \A r \in R : r[1] \in 0..n /\ r[2] \in -1..(n - 1) /\ r = <<r[1], r[2]>>
  <2>1. \A r \in R : r[1] \in 0..n /\ r[2] \in -1..(n - 1)
    OBVIOUS
  <2>2. \A r \in R : r = <<r[1], r[2]>>
    OBVIOUS
  <2> QED
    BY <2>1, <2>2
<1>3. \A fst \in 0..n, lst \in -1..(n - 1) :
        F[<<fst, lst>>] = AnswerIn(x, w, a, fst, lst)
  OBVIOUS
<1>4. ASSUME NEW r \in R PROVE F[r] = Turn(F, r)
  <2> DEFINE fst == r[1]
             lst == r[2]
             d == (fst + lst) \div 2
  <2>1. fst \in 0..n /\ lst \in -1..(n - 1) /\ F[r] = AnswerIn(x, w, a, fst, lst)
    BY <1>2
  <2>2. CASE fst > lst
    <3>1. F[r] = [position |-> fst, found |-> FALSE]
      BY <2>1, <2>2 DEF AnswerIn
    <3> HIDE DEF F
    <3> QED
      BY <2>2, <3>1
  <2>3. CASE ~(fst > lst)
    <3>1. fst <= lst
      BY <2>1, <2>3
    <3> HIDE DEF fst, lst
    <3>2. /\ d + 1 \in 0..n /\ d - 1 \in -1..(n - 1)
          /\ AnswerIn(x, w, a, fst, lst) =
               IF x.children[d].word = w THEN [position |-> d, found |-> TRUE]
               ELSE IF x.children[d].word < w THEN AnswerIn(x, w, a, d + 1, lst)
               ELSE AnswerIn(x, w, a, fst, d - 1)
      BY <2>1, <3>1, SearchTurn
    <3> HIDE DEF F
    <3>3. F[<<d + 1, lst>>] = AnswerIn(x, w, a, d + 1, lst)
      BY <1>3, <2>1, <3>2
    <3>4. F[<<fst, d - 1>>] = AnswerIn(x, w, a, fst, d - 1)
      BY <1>3, <2>1, <3>2
    <3>5. F[r] = IF x.children[d].word = w THEN [position |-> d, found |-> TRUE]
                 ELSE IF x.children[d].word < w THEN F[<<d + 1, lst>>]
                 ELSE F[<<fst, d - 1>>]
      BY <2>1, <3>2, <3>3, <3>4
    <3> QED
      BY <2>3, <3>5 DEF fst, lst
  <2> QED
    BY <2>2, <2>3
<1>5. F = [r \in R |-> Turn(F, r)]
  <2>1. F = [r \in R |-> F[r]]
    OBVIOUS
  <2> HIDE DEF F, R, Turn
  <2> QED
    BY <1>4, <2>1
<1>6. search = [r \in R |-> Turn(search, r)]
  <2> HIDE DEF F, R
  <2> QED
    BY <1>5
<1>7. BinarySearch(x, w) = search[<<0, n - 1>>]
  BY DEF BinarySearch, LastSlot
<1> HIDE DEF search
<1>8. \A fst \in 0..n, lst \in -1..(n - 1) :
        search[<<fst, lst>>] = Turn(search, <<fst, lst>>)
  <2>1. \A fst \in 0..n, lst \in -1..(n - 1) : <<fst, lst>> \in R
    OBVIOUS
  <2> HIDE DEF R, Turn
  <2> QED
    BY <1>6, <2>1
<1> DEFINE K == {k \in 0..n : \A fst \in 0..n, lst \in -1..(n - 1) :
                   lst - fst < k => search[<<fst, lst>>] = AnswerIn(x, w, a, fst, lst)}
<1>9. 0 \in K
  <2> SUFFICES ASSUME NEW fst \in 0..n, NEW lst \in -1..(n - 1), lst - fst < 0
               PROVE  search[<<fst, lst>>] = AnswerIn(x, w, a, fst, lst)
    BY <1>1
  <2>1. fst > lst
    BY <1>1
  <2>2. search[<<fst, lst>>] = [position |-> fst, found |-> FALSE]
    BY <1>8, <2>1
  <2> QED
    BY <2>1, <2>2 DEF AnswerIn
<1>10. ASSUME NEW k \in 0..(n - 1), k \in K PROVE k + 1 \in K
  <2> SUFFICES ASSUME NEW fst \in 0..n, NEW lst \in -1..(n - 1), lst - fst < k + 1
               PROVE  search[<<fst, lst>>] = AnswerIn(x, w, a, fst, lst)
    BY <1>1
  <2>1. CASE lst - fst < k
    BY <1>10, <2>1
  <2>2. CASE fst > lst
    <3>1. search[<<fst, lst>>] = [position |-> fst, found |-> FALSE]
      BY <1>8, <2>2
    <3> QED
      BY <2>2, <3>1 DEF AnswerIn
  <2>3. CASE fst <= lst
    <3> DEFINE d == (fst + lst) \div 2
    <3>1. /\ d \in Slots(x) /\ fst <= d /\ d <= lst
          /\ d + 1 \in 0..n /\ d - 1 \in -1..(n - 1)
          /\ AnswerIn(x, w, a, fst, lst) =
               IF x.children[d].word = w THEN [position |-> d, found |-> TRUE]
               ELSE IF x.children[d].word < w THEN AnswerIn(x, w, a, d + 1, lst)
               ELSE AnswerIn(x, w, a, fst, d - 1)
      BY <2>3, SearchTurn
    <3>2. search[<<fst, lst>>] =
            IF x.children[d].word = w THEN [position |-> d, found |-> TRUE]
            ELSE IF x.children[d].word < w THEN search[<<d + 1, lst>>]
            ELSE search[<<fst, d - 1>>]
      <4>1. search[<<fst, lst>>] = Turn(search, <<fst, lst>>) /\ ~(fst > lst)
        BY <1>1, <1>8, <2>3
      <4> QED
        BY <4>1
    <3> HIDE DEF d
    <3>3. lst - (d + 1) < k /\ (d - 1) - fst < k
      <4>1. d \in Int /\ k \in Int /\ fst \in Int /\ lst \in Int
        BY <1>1, <3>1
      <4>2. fst <= d /\ d <= lst /\ lst - fst < k + 1
        BY <3>1
      <4> HIDE DEF n
      <4> QED
        BY ONLY <4>1, <4>2
    <3>4. search[<<d + 1, lst>>] = AnswerIn(x, w, a, d + 1, lst)
      BY <1>10, <3>1, <3>3
    <3>5. search[<<fst, d - 1>>] = AnswerIn(x, w, a, fst, d - 1)
      BY <1>10, <3>1, <3>3
    <3> QED
      BY <3>1, <3>2, <3>4, <3>5
  <2> QED
    BY <1>1, <2>2, <2>3
<1>11. n \in K
  <2> HIDE DEF K
  <2>1. \A k \in 0..n : k \in K
    BY <1>1, <1>9, <1>10, SetInduction
  <2> QED
    BY <1>1, <2>1
<1>12. search[<<0, n - 1>>] = AnswerIn(x, w, a, 0, n - 1)
  <2>1. 0 \in 0..n /\ n - 1 \in -1..(n - 1) /\ (n - 1) - 0 < n
    BY <1>1
  <2> HIDE DEF n
  <2> QED
    BY <1>11, <2>1
<1>13. AnswerIn(x, w, a, 0, n - 1) =
         [position |-> a, found |-> a \in Slots(x) /\ x.children[a].word = w]
  <2>1. CASE n = 0
    <3>1. a = 0 /\ a \notin Slots(x) /\ 0 > n - 1
      BY <1>1, <2>1
    <3> QED
      BY <3>1 DEF AnswerIn
  <2>2. CASE n # 0 /\ a = n
    <3>1. a \notin Slots(x) /\ ~(0 > n - 1) /\ ~(a < 0) /\ a > n - 1 /\ (n - 1) + 1 = a
      BY <1>1, <2>2
    <3> QED
      BY <3>1 DEF AnswerIn
  <2>3. CASE n # 0 /\ a # n
    <3>1. a \in Slots(x) /\ ~(0 > n - 1) /\ ~(a < 0) /\ ~(a > n - 1)
      BY <1>1, <2>3
    <3> HIDE DEF n
    <3>2. AnswerIn(x, w, a, 0, n - 1) = [position |-> a, found |-> x.children[a].word = w]
      BY <3>1 DEF AnswerIn
    <3> QED
      BY <3>1, <3>2
  <2> QED
    BY <2>1, <2>2, <2>3
<1> QED
  BY <1>7, <1>12, <1>13

-----------------------------------------------------------------------------
(***************************************************************************)
(* A node in order.                                                        *)
(***************************************************************************)
\* A record with the fields of struct trieNode.
IsNode(x) ==
  x = [word |-> x.word, deleted |-> x.deleted, is_final |-> x.is_final,
       A_version |-> x.A_version, D_version |-> x.D_version,
       children |-> x.children, freed |-> x.freed, emptySpace |-> x.emptySpace,
       maxChildren |-> x.maxChildren, deletedChildren |-> x.deletedChildren,
       owned |-> x.owned]

DeadSlots(x) == Slots(x) \ Live(x)

\* The children, and what the deleted slots hold.
Kids(x) == {x.children[j] : j \in Live(x)}
Dead(x) == {x.children[j] : j \in DeadSlots(x)}

\* No array and no string is left of a child.
Emptied(c) == c.freed = TRUE /\ c.owned = 0

\* A node whose array is as the operations need it, with a string in every slot
\* that is its own.
Tidy(x) ==
  /\ IsNode(x)
  /\ x.maxChildren \in Nat \ {0} /\ x.emptySpace \in 0..x.maxChildren
  /\ x.freed = FALSE
  /\ x.children = [j \in 0..(x.maxChildren - 1) |-> x.children[j]]
  /\ \A j \in Slots(x) : x.children[j].word \in Words /\ x.children[j].deleted \in BOOLEAN
  /\ \A j, k \in Slots(x) : j < k => x.children[j].word < x.children[k].word
  /\ \A j \in (0..(x.maxChildren - 1)) \ Slots(x) : x.children[j].deleted = FALSE
  /\ x.deletedChildren = Cardinality(DeadSlots(x))
  /\ x.owned = Size(x) /\ \A c \in Dead(x) : Emptied(c)

\* The last slot of a node that is not a bucket is not deleted.
Tight(x) == Size(x) # 0 => Size(x) - 1 \in Live(x)

\* y is x but for the array of children.
SameHead(x, y) ==
  /\ y.word = x.word /\ y.deleted = x.deleted /\ y.is_final = x.is_final
  /\ y.A_version = x.A_version /\ y.D_version = x.D_version

\* What the operations read of a node in order.
LEMMA TidyNode ==
  ASSUME NEW x, Tidy(x)
  PROVE  /\ Ordered(x)
         /\ Size(x) \in Nat /\ Size(x) = x.maxChildren - x.emptySpace
         /\ Size(x) <= x.maxChildren
         /\ Slots(x) = 0..(Size(x) - 1) /\ Slots(x) \subseteq 0..(x.maxChildren - 1)
         /\ Live(x) = {j \in Slots(x) : ~x.children[j].deleted}
         /\ DeadSlots(x) = {j \in Slots(x) : x.children[j].deleted}
         /\ Live(x) \subseteq Slots(x) /\ DeadSlots(x) \subseteq Slots(x)
         /\ IsFiniteSet(Slots(x)) /\ Cardinality(Slots(x)) = Size(x)
         /\ IsFiniteSet(DeadSlots(x))
         /\ x.deletedChildren \in 0..Size(x)
<1>1. /\ x.maxChildren \in Nat \ {0} /\ x.emptySpace \in 0..x.maxChildren
      /\ \A j \in Slots(x) : x.children[j].word \in Words
      /\ \A j, k \in Slots(x) : j < k => x.children[j].word < x.children[k].word
  BY DEF Tidy
<1>2. /\ Size(x) \in Nat /\ Size(x) = x.maxChildren - x.emptySpace
      /\ Size(x) <= x.maxChildren
  BY <1>1 DEF Size
<1>3. Slots(x) = 0..(Size(x) - 1) /\ Slots(x) \subseteq 0..(x.maxChildren - 1)
  BY <1>1, <1>2 DEF Slots
<1>4. Ordered(x)
  BY <1>1, <1>2, ArraysAssumption DEF Ordered
<1>5. Live(x) = {j \in Slots(x) : ~x.children[j].deleted}
  BY DEF Live
<1>6. DeadSlots(x) = {j \in Slots(x) : x.children[j].deleted}
  BY <1>5 DEF DeadSlots
<1>7. IsFiniteSet(Slots(x)) /\ Cardinality(Slots(x)) = Size(x)
  <2>1. 0 \in Int /\ Size(x) - 1 \in Int
    BY <1>2
  <2>2. /\ IsFiniteSet(0..(Size(x) - 1))
        /\ Cardinality(0..(Size(x) - 1)) =
             IF 0 > Size(x) - 1 THEN 0 ELSE (Size(x) - 1) - 0 + 1
    BY <2>1, FS_Interval
  <2> QED
    BY <1>2, <1>3, <2>2
<1>8. DeadSlots(x) \in SUBSET Slots(x) /\ Live(x) \subseteq Slots(x)
  BY <1>5, <1>6
<1>9. IsFiniteSet(DeadSlots(x)) /\ Cardinality(DeadSlots(x)) <= Size(x)
  BY <1>7, <1>8, FS_Subset
<1>10. x.deletedChildren \in 0..Size(x)
  BY <1>2, <1>9, FS_CardinalityType DEF Tidy
<1> QED
  BY <1>2, <1>3, <1>4, <1>5, <1>6, <1>7, <1>8, <1>9, <1>10

\* What is in a used slot.
LEMMA TidySlots ==
  ASSUME NEW x, Tidy(x)
  PROVE  \A j \in Slots(x) :
           /\ j \in Nat /\ x.children[j].word \in Words /\ x.children[j].word \in Nat
           /\ x.children[j].deleted \in BOOLEAN
<1>1. \A j \in Slots(x) : x.children[j].word \in Words /\ x.children[j].deleted \in BOOLEAN
  BY DEF Tidy
<1>2. \A j \in Slots(x) : j \in Nat
  BY TidyNode
<1> QED
  BY <1>1, <1>2, ArraysAssumption

\* The sum of zeros.
LEMMA SumOfZeros ==
  ASSUME NEW S, IsFiniteSet(S)
  PROVE  SumFunction([j \in S |-> 0]) = 0
<1> DEFINE f == [j \in S |-> 0]
           one(s) == CHOOSE x \in s : TRUE
           Sums(g) == g = [s \in SUBSET S |-> IF s = {} THEN 0
                                              ELSE f[one(s)] + g[s \ {one(s)}]]
           sum == CHOOSE g : Sums(g)
           n == Cardinality(S)
           K == {k \in 0..n : \A s \in SUBSET S : Cardinality(s) = k => sum[s] = 0}
<1>1. SumFunction(f) = sum[S]
  BY DEF SumFunction, SumFunctionOnSet, FoldFunctionOnSet, MapThenFoldSet
<1>2. \A s \in SUBSET S : s # {} => one(s) \in s /\ f[one(s)] = 0 /\ s \ {one(s)} \in SUBSET S
  OBVIOUS
<1>3. Sums(sum)
  <2> DEFINE zero == [s \in SUBSET S |-> 0]
  <2>1. Sums(zero)
    <3> HIDE DEF one, f
    <3> QED
      BY <1>2
  <2> HIDE DEF Sums, zero
  <2> QED
    BY <2>1
<1>4. \A s \in SUBSET S : sum[s] = IF s = {} THEN 0 ELSE f[one(s)] + sum[s \ {one(s)}]
  <2> HIDE DEF sum, one, f
  <2> QED
    BY <1>3
<1> HIDE DEF sum, f, one
<1>5. \A s \in SUBSET S : IsFiniteSet(s) /\ Cardinality(s) \in 0..n
  <2>1. \A s \in SUBSET S : IsFiniteSet(s) /\ Cardinality(s) <= Cardinality(S)
    BY FS_Subset
  <2> QED
    BY <2>1, FS_CardinalityType
<1>6. 0 \in K
  <2>1. n \in Nat
    BY FS_CardinalityType
  <2>2. \A s \in SUBSET S : Cardinality(s) = 0 => s = {}
    BY <1>5, FS_EmptySet
  <2> QED
    BY <1>4, <2>1, <2>2
<1>7. ASSUME NEW k \in 0..(n - 1), k \in K PROVE k + 1 \in K
  <2>0. k + 1 \in 0..n
    BY FS_CardinalityType
  <2> SUFFICES ASSUME NEW s \in SUBSET S, Cardinality(s) = k + 1 PROVE sum[s] = 0
    BY <2>0
  <2> DEFINE r == s \ {one(s)}
  <2>1. s # {}
    BY FS_EmptySet
  <2>2. one(s) \in s /\ f[one(s)] = 0 /\ r \in SUBSET S
    BY <1>2, <2>1
  <2>3. Cardinality(r) = k
    BY <1>5, <2>2, FS_RemoveElement
  <2>4. sum[r] = 0
    BY <1>7, <2>2, <2>3
  <2>5. sum[s] = f[one(s)] + sum[r]
    BY <1>4, <2>1
  <2> HIDE DEF r
  <2> QED
    BY <2>2, <2>4, <2>5
<1>8. n \in K
  <2> HIDE DEF K
  <2>1. n \in Nat /\ n \in 0..n
    BY FS_CardinalityType
  <2>2. \A k \in 0..n : k \in K
    BY <1>6, <1>7, <2>1, SetInduction
  <2> QED
    BY <2>1, <2>2
<1>9. sum[S] = 0
  BY <1>8
<1> QED
  BY <1>1, <1>9 DEF f

\* There is no string below the deleted slots.
LEMMA NothingBelow ==
  ASSUME NEW x, Tidy(x), NEW D, D \subseteq DeadSlots(x)
  PROVE  Below(x, D) = 0
<1>1. IsFiniteSet(D)
  <2>1. D \in SUBSET DeadSlots(x) /\ IsFiniteSet(DeadSlots(x))
    BY TidyNode
  <2> QED
    BY ONLY <2>1, FS_Subset
<1>2. \A j \in D : x.children[j].owned = 0
  BY DEF Tidy, Dead, Emptied
<1>3. [j \in D |-> x.children[j].owned] = [j \in D |-> 0]
  BY <1>2
<1> QED
  BY <1>1, <1>3, SumOfZeros DEF Below

\* What trieBinarySearch tells of a node in order.
LEMMA Searching ==
  ASSUME NEW x, Tidy(x), NEW w \in Words
  PROVE  /\ Place(x, w, BinarySearch(x, w).position)
         /\ BinarySearch(x, w).position \in 0..Size(x)
         /\ BinarySearch(x, w).found \in BOOLEAN
         /\ BinarySearch(x, w).found =>
              /\ BinarySearch(x, w).position \in Slots(x)
              /\ x.children[BinarySearch(x, w).position].word = w
         /\ \A j \in Slots(x) : x.children[j].word = w =>
              BinarySearch(x, w).found /\ BinarySearch(x, w).position = j
<1>1. w \in Nat /\ Ordered(x) /\ Size(x) \in Nat /\ Slots(x) = 0..(Size(x) - 1)
  BY TidyNode, ArraysAssumption
<1>2. PICK a : Place(x, w, a)
  BY <1>1, PlaceExists
<1>3. BinarySearch(x, w) =
        [position |-> a, found |-> a \in Slots(x) /\ x.children[a].word = w]
  BY <1>1, <1>2, SearchPlace
<1>4. a \in 0..Size(x)
  BY <1>2 DEF Place
<1>5. ASSUME NEW j \in Slots(x), x.children[j].word = w
      PROVE  a = j
  <2>1. ~(j < a)
    BY <1>1, <1>2, <1>5 DEF Place
  <2>2. a \in Slots(x)
    BY <1>1, <1>4, <2>1
  <2>3. w <= x.children[a].word
    BY <1>1, <1>2, <1>4, <2>2 DEF Place
  <2>4. ~(a < j)
    BY <1>1, <1>5, <2>2, <2>3 DEF Ordered
  <2> QED
    BY <1>1, <1>4, <2>1, <2>4
<1>6. BinarySearch(x, w).position = a
      /\ (BinarySearch(x, w).found <=> a \in Slots(x) /\ x.children[a].word = w)
      /\ BinarySearch(x, w).found \in BOOLEAN
  <2> DEFINE ok == a \in Slots(x) /\ x.children[a].word = w
  <2>1. ok \in BOOLEAN
    OBVIOUS
  <2>2. BinarySearch(x, w) = [position |-> a, found |-> ok]
    BY <1>3
  <2> HIDE DEF ok
  <2>3. BinarySearch(x, w).position = a /\ BinarySearch(x, w).found = ok
    BY <2>2
  <2> QED
    BY <2>1, <2>3 DEF ok
<1> QED
  BY <1>2, <1>4, <1>5, <1>6

\* No child is left just if the code's counters say so.
LEMMA NoneLeftTells ==
  ASSUME NEW x, Tidy(x)
  PROVE  NoneLeft(x) <=> Live(x) = {}
<1>1. x.maxChildren \in Nat /\ x.emptySpace \in Nat /\ Size(x) = x.maxChildren - x.emptySpace
      /\ x.deletedChildren = Cardinality(DeadSlots(x)) /\ x.deletedChildren \in 0..Size(x)
      /\ Size(x) \in Nat
  <2>1. x.maxChildren \in Nat /\ x.emptySpace \in 0..x.maxChildren
        /\ x.deletedChildren = Cardinality(DeadSlots(x))
    BY DEF Tidy
  <2> QED
    BY <2>1, TidyNode
<1>2. NoneLeft(x) <=> x.deletedChildren = Size(x)
  BY <1>1 DEF NoneLeft
<1>3. x.deletedChildren = Size(x) <=> DeadSlots(x) = Slots(x)
  BY <1>1, TidyNode, FS_Subset
<1>4. DeadSlots(x) = Slots(x) <=> Live(x) = {}
  BY TidyNode DEF DeadSlots
<1> QED
  BY <1>2, <1>3, <1>4

-----------------------------------------------------------------------------
(***************************************************************************)
(* What the operations on one array do.                                    *)
(***************************************************************************)
\* y is x with c in slot a.
Puts(x, a, c, y) ==
  /\ IsNode(y) /\ y.maxChildren = x.maxChildren /\ y.emptySpace = x.emptySpace
  /\ y.freed = x.freed /\ y.owned = x.owned /\ y.children = [x.children EXCEPT ![a] = c]

\* c may be in slot a.
FitsAt(x, a, c) ==
  /\ c.word \in Words /\ c.deleted \in BOOLEAN /\ (c.deleted => Emptied(c))
  /\ \A j \in Slots(x) : (j < a => x.children[j].word < c.word)
                           /\ (j > a => c.word < x.children[j].word)

LEMMA PutIsTidy ==
  ASSUME NEW x, Tidy(x), NEW a \in Slots(x), NEW c, FitsAt(x, a, c),
         NEW y, Puts(x, a, c, y),
         y.deletedChildren = IF c.deleted = x.children[a].deleted THEN x.deletedChildren
                             ELSE IF c.deleted THEN x.deletedChildren + 1
                             ELSE x.deletedChildren - 1
  PROVE  /\ Tidy(y) /\ Size(y) = Size(x) /\ Slots(y) = Slots(x)
         /\ Live(y) = IF c.deleted THEN Live(x) \ {a} ELSE Live(x) \union {a}
         /\ y.children[a] = c
         /\ \A j \in Slots(x) : j # a => y.children[j] = x.children[j]
<1>1. /\ Size(y) = Size(x) /\ Slots(y) = Slots(x) /\ y.maxChildren \in Nat \ {0}
      /\ y.emptySpace \in 0..y.maxChildren /\ y.freed = FALSE /\ IsNode(y)
  BY DEF Puts, Tidy, Size, Slots
<1>2. a \in 0..(x.maxChildren - 1) /\ DOMAIN x.children = 0..(x.maxChildren - 1)
  BY TidyNode DEF Tidy
<1>3. y.children = [j \in 0..(x.maxChildren - 1) |-> IF j = a THEN c ELSE x.children[j]]
  BY <1>2 DEF Puts
<1>4. y.children[a] = c
      /\ \A j \in 0..(x.maxChildren - 1) : j # a => y.children[j] = x.children[j]
  BY <1>2, <1>3
<1>5. y.children = [j \in 0..(y.maxChildren - 1) |-> y.children[j]]
  <2>1. y.maxChildren = x.maxChildren
    BY DEF Puts
  <2> QED
    BY <1>3, <2>1
<1>6. /\ Slots(x) \subseteq 0..(x.maxChildren - 1)
      /\ \A j \in Slots(x) : j # a => y.children[j] = x.children[j]
      /\ \A j \in Slots(x) : x.children[j].word \in Words /\ x.children[j].deleted \in BOOLEAN
  BY <1>4, TidyNode DEF Tidy
<1>7. \A j \in Slots(y) : y.children[j].word \in Words /\ y.children[j].deleted \in BOOLEAN
  BY <1>1, <1>4, <1>6 DEF FitsAt
<1>8. ASSUME NEW j \in Slots(y), NEW k \in Slots(y), j < k
      PROVE  y.children[j].word < y.children[k].word
  <2>0. j \in Slots(x) /\ k \in Slots(x) /\ x.children[j].word < x.children[k].word
    BY <1>1, <1>8 DEF Tidy
  <2>1. CASE j = a
    <3>1. k > a /\ k # a
      BY <1>8, <2>0, <2>1, TidyNode
    <3> QED
      BY <1>4, <1>6, <2>0, <2>1, <3>1 DEF FitsAt
  <2>2. CASE k = a
    <3>1. j < a /\ j # a
      BY <1>8, <2>0, <2>2, TidyNode
    <3> QED
      BY <1>4, <1>6, <2>0, <2>2, <3>1 DEF FitsAt
  <2>3. CASE j # a /\ k # a
    BY <1>6, <2>0, <2>3
  <2> QED
    BY <2>1, <2>2, <2>3
<1>9. \A j \in (0..(y.maxChildren - 1)) \ Slots(y) : y.children[j].deleted = FALSE
  <2>1. y.maxChildren = x.maxChildren
    BY DEF Puts
  <2>2. \A j \in (0..(x.maxChildren - 1)) \ Slots(x) : x.children[j].deleted = FALSE
    BY DEF Tidy
  <2> QED
    BY <1>1, <1>4, <2>1, <2>2
<1>10. Live(y) = IF c.deleted THEN Live(x) \ {a} ELSE Live(x) \union {a}
  <2>1. Live(y) = {j \in Slots(x) : ~y.children[j].deleted}
        /\ Live(x) = {j \in Slots(x) : ~x.children[j].deleted}
    BY <1>1 DEF Live
  <2> QED
    BY <1>4, <1>6, <2>1
<1>11. y.deletedChildren = Cardinality(DeadSlots(y))
  <2>1. /\ IsFiniteSet(DeadSlots(x)) /\ x.deletedChildren = Cardinality(DeadSlots(x))
        /\ Cardinality(DeadSlots(x)) \in Nat
        /\ (a \in DeadSlots(x) <=> x.children[a].deleted) /\ x.children[a].deleted \in BOOLEAN
    BY <1>6, TidyNode, FS_CardinalityType DEF Tidy
  <2>2. DeadSlots(y) = IF c.deleted THEN DeadSlots(x) \union {a} ELSE DeadSlots(x) \ {a}
    BY <1>1, <1>10 DEF DeadSlots
  <2>3. CASE c.deleted
    <3>1. DeadSlots(y) = DeadSlots(x) \union {a} /\ c.deleted = TRUE
      BY <2>2, <2>3 DEF FitsAt
    <3>2. Cardinality(DeadSlots(y)) = IF a \in DeadSlots(x) THEN Cardinality(DeadSlots(x))
                                      ELSE Cardinality(DeadSlots(x)) + 1
      <4>1. IsFiniteSet(DeadSlots(x))
        BY <2>1
      <4>2. Cardinality(DeadSlots(x) \union {a}) =
              IF a \in DeadSlots(x) THEN Cardinality(DeadSlots(x))
              ELSE Cardinality(DeadSlots(x)) + 1
        BY ONLY <4>1, FS_AddElement, Zenon
      <4> QED
        BY ONLY <3>1, <4>2
    <3> QED
      BY <2>1, <3>1, <3>2
  <2>4. CASE ~c.deleted
    <3>1. Cardinality(DeadSlots(y)) = IF a \in DeadSlots(x) THEN Cardinality(DeadSlots(x)) - 1
                                      ELSE Cardinality(DeadSlots(x))
      BY <2>1, <2>2, <2>4, FS_RemoveElement
    <3> QED
      BY <2>1, <2>4, <3>1 DEF FitsAt
  <2> QED
    BY <2>3, <2>4
<1>12. y.owned = Size(y)
  BY <1>1 DEF Puts, Tidy
<1>13. ASSUME NEW k \in Dead(y) PROVE Emptied(k)
  <2>1. PICK j \in DeadSlots(y) : k = y.children[j]
    BY DEF Dead
  <2>2. CASE j = a
    BY <1>4, <1>10, <2>1, <2>2 DEF DeadSlots, FitsAt
  <2>3. CASE j # a
    <3>1. j \in DeadSlots(x)
      BY <1>1, <1>10, <2>1, <2>3 DEF DeadSlots
    <3>2. k = x.children[j]
      BY <1>6, <2>1, <2>3, <3>1, TidyNode
    <3> QED
      BY <3>1, <3>2 DEF Dead, Tidy
  <2> QED
    BY <2>2, <2>3
<1>14. Tidy(y)
  BY <1>1, <1>5, <1>7, <1>8, <1>9, <1>11, <1>12, <1>13 DEF Tidy
<1> QED
  BY <1>1, <1>4, <1>6, <1>10, <1>14

\* The children and the deleted slots then.
LEMMA PutKids ==
  ASSUME NEW x, Tidy(x), NEW a \in Slots(x), NEW c, FitsAt(x, a, c),
         NEW y, Puts(x, a, c, y),
         y.deletedChildren = IF c.deleted = x.children[a].deleted THEN x.deletedChildren
                             ELSE IF c.deleted THEN x.deletedChildren + 1
                             ELSE x.deletedChildren - 1
  PROVE  /\ Kids(y) = {k \in Kids(x) : k.word # x.children[a].word}
                        \union (IF c.deleted THEN {} ELSE {c})
         /\ Dead(y) = {k \in Dead(x) : k.word # x.children[a].word}
                        \union (IF c.deleted THEN {c} ELSE {})
<1>1. /\ Slots(y) = Slots(x)
      /\ Live(y) = IF c.deleted THEN Live(x) \ {a} ELSE Live(x) \union {a}
      /\ y.children[a] = c
      /\ \A j \in Slots(x) : j # a => y.children[j] = x.children[j]
  BY PutIsTidy
<1>2. \A j \in Slots(x) : x.children[j].word = x.children[a].word <=> j = a
  <2> SUFFICES ASSUME NEW j \in Slots(x), j # a
               PROVE  x.children[j].word # x.children[a].word
    OBVIOUS
  <2>1. (j < a \/ a < j) /\ x.children[j].word \in Nat /\ x.children[a].word \in Nat
    BY TidySlots
  <2>2. x.children[j].word < x.children[a].word \/ x.children[a].word < x.children[j].word
    BY <2>1 DEF Tidy
  <2> QED
    BY <2>1, <2>2
<1>3. Live(x) \subseteq Slots(x) /\ DeadSlots(x) = Slots(x) \ Live(x) /\ DeadSlots(y) = Slots(y) \ Live(y)
  BY TidyNode DEF DeadSlots
<1>4. /\ \A j \in Live(x) : j # a => j \in Live(y)
      /\ \A j \in Live(y) : j = a \/ (j # a /\ j \in Live(x))
      /\ ~c.deleted <=> a \in Live(y)
      /\ \A j \in DeadSlots(x) : j # a => j \in DeadSlots(y)
      /\ \A j \in DeadSlots(y) : j = a \/ (j # a /\ j \in DeadSlots(x))
      /\ c.deleted <=> a \in DeadSlots(y)
  BY <1>1, <1>3
<1>5. \A k \in Kids(y) : k \in {l \in Kids(x) : l.word # x.children[a].word}
                                 \union (IF c.deleted THEN {} ELSE {c})
  <2> SUFFICES ASSUME NEW j \in Live(y)
               PROVE  y.children[j] \in {l \in Kids(x) : l.word # x.children[a].word}
                                 \union (IF c.deleted THEN {} ELSE {c})
    BY DEF Kids
  <2>1. CASE j = a
    BY <1>1, <1>4, <2>1
  <2>2. CASE j # a
    BY <1>1, <1>2, <1>3, <1>4, <2>2 DEF Kids
  <2> QED
    BY <2>1, <2>2
<1>6. ASSUME NEW k \in Kids(x), k.word # x.children[a].word PROVE k \in Kids(y)
  <2>1. PICK j \in Live(x) : k = x.children[j]
    BY DEF Kids
  <2>2. j # a
    BY <1>6, <2>1
  <2> QED
    BY <1>1, <1>3, <1>4, <2>1, <2>2 DEF Kids
<1>7. ~c.deleted => c \in Kids(y)
  BY <1>1, <1>4 DEF Kids
<1>8. \A k \in Dead(y) : k \in {l \in Dead(x) : l.word # x.children[a].word}
                                 \union (IF c.deleted THEN {c} ELSE {})
  <2> SUFFICES ASSUME NEW j \in DeadSlots(y)
               PROVE  y.children[j] \in {l \in Dead(x) : l.word # x.children[a].word}
                                 \union (IF c.deleted THEN {c} ELSE {})
    BY DEF Dead
  <2>1. CASE j = a
    BY <1>1, <1>4, <2>1
  <2>2. CASE j # a
    BY <1>1, <1>2, <1>3, <1>4, <2>2 DEF Dead
  <2> QED
    BY <2>1, <2>2
<1>9. ASSUME NEW k \in Dead(x), k.word # x.children[a].word PROVE k \in Dead(y)
  <2>1. PICK j \in DeadSlots(x) : k = x.children[j]
    BY DEF Dead
  <2>2. j # a
    BY <1>9, <2>1
  <2> QED
    BY <1>1, <1>3, <1>4, <2>1, <2>2 DEF Dead
<1>10. c.deleted => c \in Dead(y)
  BY <1>1, <1>4 DEF Dead
<1> QED
  BY <1>5, <1>6, <1>7, <1>8, <1>9, <1>10

\* No two slots have the same word.
LEMMA KidsDiffer ==
  ASSUME NEW x, Tidy(x)
  PROVE  /\ \A k, l \in Kids(x) : k.word = l.word => k = l
         /\ \A k \in Kids(x), l \in Dead(x) : k.word # l.word
         /\ \A k \in Kids(x) : k.word \in Words /\ k.deleted = FALSE
         /\ \A k \in Dead(x) : k.word \in Words /\ k.deleted = TRUE
<1>1. /\ Live(x) = {j \in Slots(x) : ~x.children[j].deleted}
      /\ DeadSlots(x) = {j \in Slots(x) : x.children[j].deleted}
      /\ \A j \in Slots(x) : x.children[j].word \in Words /\ x.children[j].deleted \in BOOLEAN
      /\ \A j \in Slots(x) : j \in Nat
  BY TidyNode, TidySlots
<1>2. \A j, k \in Slots(x) : x.children[j].word = x.children[k].word => j = k
  <2> SUFFICES ASSUME NEW j \in Slots(x), NEW k \in Slots(x), j # k
               PROVE  x.children[j].word # x.children[k].word
    OBVIOUS
  <2>1. (j < k \/ k < j) /\ x.children[j].word \in Nat /\ x.children[k].word \in Nat
    BY TidySlots
  <2>2. x.children[j].word < x.children[k].word \/ x.children[k].word < x.children[j].word
    BY <2>1 DEF Tidy
  <2> QED
    BY <2>1, <2>2
<1>3. \A j \in Live(x) : j \in Slots(x) /\ j \notin DeadSlots(x)
  BY <1>1
<1>4. \A j \in DeadSlots(x) : j \in Slots(x)
  BY <1>1
<1>5. \A k, l \in Kids(x) : k.word = l.word => k = l
  BY <1>2, <1>3 DEF Kids
<1>6. \A k \in Kids(x), l \in Dead(x) : k.word # l.word
  BY <1>2, <1>3, <1>4 DEF Kids, Dead
<1>7. \A k \in Kids(x) : k.word \in Words /\ k.deleted = FALSE
  BY <1>1 DEF Kids
<1>8. \A k \in Dead(x) : k.word \in Words /\ k.deleted = TRUE
  BY <1>1 DEF Dead
<1> QED
  BY <1>5, <1>6, <1>7, <1>8

\* There is a child with this word.
Has(x, w) == \E k \in Kids(x) : k.word = w

\* The search finds the child.
LEMMA ChildIs ==
  ASSUME NEW x, Tidy(x), NEW w \in Words, Has(x, w)
  PROVE  /\ Child(x, w) \in Kids(x) /\ Child(x, w).word = w
         /\ \A k \in Kids(x) : k.word = w => k = Child(x, w)
<1> DEFINE a == BinarySearch(x, w).position
<1>1. /\ BinarySearch(x, w).found => a \in Slots(x) /\ x.children[a].word = w
      /\ \A j \in Slots(x) : x.children[j].word = w =>
           BinarySearch(x, w).found /\ a = j
  BY Searching
<1>2. Child(x, w) = x.children[a]
  BY DEF Child
<1>3. Live(x) = {j \in Slots(x) : ~x.children[j].deleted}
  BY TidyNode
<1> HIDE DEF a
<1>4. ASSUME NEW k \in Kids(x), k.word = w
      PROVE  BinarySearch(x, w).found /\ a \in Live(x) /\ k = Child(x, w)
  <2>1. PICK j \in Live(x) : k = x.children[j]
    BY DEF Kids
  <2>2. j \in Slots(x) /\ x.children[j].word = w
    BY <1>3, <1>4, <2>1
  <2>3. BinarySearch(x, w).found /\ a = j
    BY <1>1, <2>2
  <2> QED
    BY <1>2, <2>1, <2>3
<1> QED
  BY <1>4 DEF Has

LEMMA ChildAlive ==
  ASSUME NEW x, Tidy(x), NEW w \in Words, Has(x, w)
  PROVE  Child(x, w).deleted = FALSE
<1>1. Child(x, w) \in Kids(x)
  BY ChildIs
<1> QED
  BY <1>1, KidsDiffer

\* It finds a deleted slot with its word too, but not one of another word.
LEMMA HasChild ==
  ASSUME NEW x, Tidy(x), NEW w \in Words
  PROVE  /\ Has(x, w) => BinarySearch(x, w).found /\ BinarySearch(x, w).position \in Live(x)
         /\ BinarySearch(x, w).found /\ ~Child(x, w).deleted => Has(x, w)
         /\ BinarySearch(x, w).found /\ Child(x, w).deleted =>
              Child(x, w) \in Dead(x) /\ Child(x, w).word = w
<1> DEFINE a == BinarySearch(x, w).position
<1>1. /\ BinarySearch(x, w).found => a \in Slots(x) /\ x.children[a].word = w
      /\ \A j \in Slots(x) : x.children[j].word = w =>
           BinarySearch(x, w).found /\ a = j
  BY Searching
<1>2. Child(x, w) = x.children[a]
  BY DEF Child
<1>3. /\ Live(x) = {j \in Slots(x) : ~x.children[j].deleted}
      /\ DeadSlots(x) = {j \in Slots(x) : x.children[j].deleted}
  BY TidyNode
<1> HIDE DEF a
<1>4. ASSUME NEW k \in Kids(x), k.word = w
      PROVE  BinarySearch(x, w).found /\ a \in Live(x)
  <2>1. PICK j \in Live(x) : k = x.children[j]
    BY DEF Kids
  <2>2. j \in Slots(x) /\ x.children[j].word = w
    BY <1>3, <1>4, <2>1
  <2>3. BinarySearch(x, w).found /\ a = j
    BY <1>1, <2>2
  <2> QED
    BY <2>1, <2>3
<1>5. a \in Live(x) => Child(x, w) \in Kids(x)
  BY <1>2 DEF Kids
<1>6. BinarySearch(x, w).found /\ ~Child(x, w).deleted => Has(x, w)
  BY <1>1, <1>2, <1>3, <1>5 DEF Has
<1>7. BinarySearch(x, w).found /\ Child(x, w).deleted =>
              Child(x, w) \in Dead(x) /\ Child(x, w).word = w
  BY <1>1, <1>2, <1>3 DEF Dead
<1>8. Has(x, w) => BinarySearch(x, w).found /\ a \in Live(x)
  BY <1>4 DEF Has
<1> QED
  BY <1>6, <1>7, <1>8 DEF a

\* The slot of a child that is there.
LEMMA ChildSlot ==
  ASSUME NEW x, Tidy(x), NEW w \in Words, Has(x, w),
         NEW a, a = BinarySearch(x, w).position
  PROVE  /\ a \in Live(x) /\ a \in Slots(x) /\ Place(x, w, a)
         /\ x.children[a] = Child(x, w)
<1>1. a \in Live(x)
  BY HasChild
<1>2. x.children[a] = Child(x, w)
  BY DEF Child
<1>3. a \in Slots(x) /\ Place(x, w, a)
  BY <1>1, TidyNode, Searching
<1> QED
  BY <1>1, <1>2, <1>3

\* A word that is in its place may take the slot, deleted or not, and a child
\* may take that of the child with its word.
LEMMA FitsPlace ==
  ASSUME NEW x, Tidy(x), NEW c, c.word \in Words, c.deleted \in BOOLEAN,
         c.deleted => Emptied(c), NEW a \in Slots(x), Place(x, c.word, a)
  PROVE  FitsAt(x, a, c)
<1>1. /\ \A j \in Slots(x) : j \in Nat /\ x.children[j].word \in Nat
      /\ c.word \in Nat
  BY TidySlots, ArraysAssumption
<1>2. c.word <= x.children[a].word
  BY <1>1 DEF Place
<1>3. ASSUME NEW j \in Slots(x), j < a PROVE x.children[j].word < c.word
  BY <1>3 DEF Place
<1>4. ASSUME NEW j \in Slots(x), j > a PROVE c.word < x.children[j].word
  <2>1. a < j
    BY <1>1, <1>4
  <2>2. x.children[a].word < x.children[j].word
    BY <2>1 DEF Tidy
  <2> QED
    BY <1>1, <1>2, <2>2
<1> QED
  BY <1>3, <1>4 DEF FitsAt

\* The children with another word.
Others(x, w) == {k \in Kids(x) : k.word # w}

\* y is x with another child of the same word.
Sets(x, c, y) ==
  /\ Tidy(y) /\ SameHead(x, y) /\ Size(y) = Size(x) /\ Live(y) = Live(x)
  /\ Kids(y) = Others(x, c.word) \union {c} /\ Dead(y) = Dead(x)

\* A child replaced by one that is not deleted.
LEMMA SetChildIs ==
  ASSUME NEW x, Tidy(x), NEW w \in Words, Has(x, w),
         NEW c, c.word = w, c.deleted = FALSE
  PROVE  Sets(x, c, SetChild(x, w, c))
<1> DEFINE a == BinarySearch(x, w).position
           y == SetChild(x, w, c)
<1>0. a = BinarySearch(x, w).position
  OBVIOUS
<1>1. a \in Live(x) /\ x.children[a].word = w /\ x.children[a].deleted = FALSE
  <2> HIDE DEF a, y
  <2>1. a \in Live(x)
    BY <1>0, ChildSlot
  <2>2. x.children[a] = Child(x, w)
    BY <1>0, ChildSlot
  <2>3. Child(x, w).word = w /\ Child(x, w).deleted = FALSE
    BY ChildIs, ChildAlive
  <2> QED
    BY <2>1, <2>2, <2>3
<1>2. a \in Slots(x) /\ Place(x, w, a)
  BY ChildSlot
<1>3. FitsAt(x, a, c)
  BY <1>2, FitsPlace
<1>4. y = [x EXCEPT !.children[a] = c] /\ IsNode(x)
  BY DEF SetChild, Tidy
<1> HIDE DEF a, y
<1>5. Puts(x, a, c, y) /\ SameHead(x, y) /\ y.deletedChildren = x.deletedChildren
  BY <1>4 DEF Puts, IsNode, SameHead
<1>6. c.deleted = x.children[a].deleted
  BY <1>1
<1>7. Tidy(y) /\ Size(y) = Size(x) /\ Live(y) = Live(x) \union {a}
  BY <1>2, <1>3, <1>5, <1>6, PutIsTidy
<1>8. /\ Kids(y) = {k \in Kids(x) : k.word # w} \union {c}
      /\ Dead(y) = {k \in Dead(x) : k.word # w}
  BY <1>1, <1>2, <1>3, <1>5, <1>6, PutKids
<1>9. \A k \in Dead(x) : k.word # w
  BY KidsDiffer DEF Has
<1> QED
  BY <1>1, <1>5, <1>7, <1>8, <1>9 DEF y, Others, Sets

\* A child replaced by one that is marked deleted, and counted so.
Marked(x, w, c) == [SetChild(x, w, c) EXCEPT !.deletedChildren = @ + 1]

\* y is x with a deleted slot c where the child of its word was.
Marks(x, c, y) ==
  /\ Tidy(y) /\ SameHead(x, y)
  /\ Kids(y) = Others(x, c.word) /\ Dead(y) = Dead(x) \union {c}

LEMMA SetDeletedIs ==
  ASSUME NEW x, Tidy(x), NEW w \in Words, Has(x, w),
         NEW c, c.word = w, c.deleted = TRUE, Emptied(c)
  PROVE  Marks(x, c, Marked(x, w, c))
<1> DEFINE a == BinarySearch(x, w).position
           y == Marked(x, w, c)
<1>0. a = BinarySearch(x, w).position
  OBVIOUS
<1>1. a \in Live(x) /\ x.children[a].word = w /\ x.children[a].deleted = FALSE
  <2> HIDE DEF a, y
  <2>1. a \in Live(x)
    BY <1>0, ChildSlot
  <2>2. x.children[a] = Child(x, w)
    BY <1>0, ChildSlot
  <2>3. Child(x, w).word = w /\ Child(x, w).deleted = FALSE
    BY ChildIs, ChildAlive
  <2> QED
    BY <2>1, <2>2, <2>3
<1>2. a \in Slots(x) /\ Place(x, w, a)
  BY ChildSlot
<1>3. FitsAt(x, a, c)
  BY <1>2, FitsPlace
<1>4. y = [x EXCEPT !.children[a] = c, !.deletedChildren = @ + 1] /\ IsNode(x)
  BY DEF Marked, SetChild, Tidy
<1> HIDE DEF a, y
<1>5. Puts(x, a, c, y) /\ SameHead(x, y) /\ y.deletedChildren = x.deletedChildren + 1
  BY <1>4 DEF Puts, IsNode, SameHead
<1>6. y.deletedChildren = IF c.deleted = x.children[a].deleted THEN x.deletedChildren
                          ELSE IF c.deleted THEN x.deletedChildren + 1
                          ELSE x.deletedChildren - 1
  BY <1>1, <1>5
<1>7. Tidy(y) /\ Size(y) = Size(x)
  BY <1>2, <1>3, <1>5, <1>6, PutIsTidy
<1>8. /\ Kids(y) = {k \in Kids(x) : k.word # w}
      /\ Dead(y) = {k \in Dead(x) : k.word # w} \union {c}
  BY <1>1, <1>2, <1>3, <1>5, <1>6, PutKids
<1>9. \A k \in Dead(x) : k.word # w
  BY KidsDiffer DEF Has
<1> QED
  BY <1>5, <1>7, <1>8, <1>9 DEF y, Others, Marks

\* The fields of a node in order.
LEMMA TidyFields ==
  ASSUME NEW x, Tidy(x)
  PROVE  /\ IsNode(x) /\ x.freed = FALSE /\ x.owned = Size(x)
         /\ x.maxChildren \in Nat \ {0} /\ x.maxChildren \in Nat
         /\ x.emptySpace \in Nat /\ x.emptySpace <= x.maxChildren
         /\ Size(x) \in Nat /\ Size(x) = x.maxChildren - x.emptySpace
         /\ Slots(x) = 0..(Size(x) - 1)
         /\ DOMAIN x.children = 0..(x.maxChildren - 1)
<1>1. x.maxChildren \in Nat \ {0} /\ x.emptySpace \in 0..x.maxChildren
  BY DEF Tidy
<1>2. x.emptySpace \in Nat /\ x.emptySpace <= x.maxChildren /\ x.maxChildren \in Nat
  BY <1>1
<1>3. IsNode(x) /\ x.freed = FALSE /\ x.owned = Size(x)
  BY DEF Tidy
<1>4. DOMAIN x.children = 0..(x.maxChildren - 1)
  BY DEF Tidy
<1>5. Size(x) \in Nat /\ Size(x) = x.maxChildren - x.emptySpace
  BY TidyNode
<1>6. Slots(x) = 0..(Size(x) - 1)
  BY TidyNode
<1> QED
  BY <1>1, <1>2, <1>3, <1>4, <1>5, <1>6

LEMMA TidySizes ==
  ASSUME NEW x, Tidy(x)
  PROVE  /\ x.maxChildren \in Nat \ {0} /\ x.emptySpace \in 0..x.maxChildren
         /\ Size(x) = x.maxChildren - x.emptySpace /\ Size(x) \in Nat
         /\ x.emptySpace # 0 => x.emptySpace \in 1..x.maxChildren
         /\ x.emptySpace = 0 => Size(x) = x.maxChildren
<1>1. /\ x.maxChildren \in Nat \ {0} /\ x.emptySpace \in Nat
      /\ x.emptySpace <= x.maxChildren /\ x.maxChildren \in Nat
      /\ Size(x) = x.maxChildren - x.emptySpace /\ Size(x) \in Nat
  BY TidyFields
<1> QED
  BY <1>1

-----------------------------------------------------------------------------
(***************************************************************************)
(* A child added.                                                          *)
(***************************************************************************)
\* y holds what x holds, in an array with a free slot.
Roomy(x, y) ==
  /\ Tidy(y) /\ SameHead(x, y) /\ Size(y) = Size(x) /\ Slots(y) = Slots(x)
  /\ \A j \in Slots(x) : y.children[j] = x.children[j]
  /\ y.deletedChildren = x.deletedChildren
  /\ y.emptySpace \in Nat \ {0}

\* What doubling the array leaves alone.
LEMMA GrownIs ==
  ASSUME NEW x, Tidy(x), x.emptySpace = 0
  PROVE  Roomy(x, Grown(x))
<1> DEFINE n == x.maxChildren
           y == Grown(x)
<1>1. n \in Nat \ {0} /\ IsNode(x) /\ x.freed = FALSE /\ Size(x) = n
      /\ DOMAIN x.children = 0..(n - 1) /\ Slots(x) = 0..(n - 1)
  <2>1. IsNode(x) /\ x.freed = FALSE /\ n \in Nat \ {0} /\ DOMAIN x.children = 0..(n - 1)
    BY TidyFields
  <2>2. Size(x) = n
    BY TidySizes
  <2>3. Slots(x) = 0..(n - 1)
    BY <2>2, TidyFields
  <2> QED
    BY <2>1, <2>2, <2>3
<1>2. /\ IsNode(y) /\ SameHead(x, y) /\ y.deletedChildren = x.deletedChildren
      /\ y.owned = x.owned
      /\ y.freed = FALSE /\ y.maxChildren = 2 * n /\ y.emptySpace = x.emptySpace + n
      /\ y.children = [j \in 0..(2 * n - 1) |->
                         IF j \in DOMAIN x.children THEN x.children[j] ELSE Zero]
  <2> DEFINE ch == [j \in 0..(2 * n - 1) |->
                      IF j \in DOMAIN x.children THEN x.children[j] ELSE Zero]
             e == x.emptySpace + n
             mx == 2 * n
  <2>1. y = [x EXCEPT !.children = ch, !.emptySpace = e, !.maxChildren = mx]
    BY DEF Grown
  <2> HIDE DEF ch, e, mx, y
  <2>2. /\ IsNode(y) /\ SameHead(x, y) /\ y.deletedChildren = x.deletedChildren
        /\ y.freed = x.freed /\ y.maxChildren = mx /\ y.emptySpace = e /\ y.children = ch
        /\ y.owned = x.owned
    BY <1>1, <2>1 DEF IsNode, SameHead
  <2> QED
    BY <1>1, <2>2 DEF ch, e, mx
<1> HIDE DEF y
<1>3. /\ Size(y) = Size(x) /\ Slots(y) = Slots(x) /\ y.emptySpace = n
      /\ y.maxChildren \in Nat \ {0} /\ y.emptySpace \in 0..y.maxChildren
      /\ 0..(n - 1) \subseteq 0..(2 * n - 1)
  <2> HIDE DEF n
  <2>1. y.emptySpace = n /\ y.maxChildren = 2 * n /\ n \in Nat \ {0}
    BY <1>1, <1>2 DEF n
  <2>2. Size(y) = n
    BY <2>1 DEF Size
  <2>3. Slots(y) = 0..(n - 1)
    BY <2>2 DEF Slots
  <2>4. y.maxChildren \in Nat \ {0} /\ y.emptySpace \in 0..y.maxChildren
        /\ 0..(n - 1) \subseteq 0..(2 * n - 1)
    BY <2>1
  <2>5. Size(x) = n /\ Slots(x) = 0..(n - 1)
    BY <1>1 DEF n
  <2> QED
    BY <2>1, <2>2, <2>3, <2>4, <2>5
<1>4. /\ \A j \in 0..(n - 1) : y.children[j] = x.children[j]
      /\ \A j \in (0..(2 * n - 1)) \ (0..(n - 1)) : y.children[j] = Zero
  BY <1>1, <1>2, <1>3
<1>5. y.children = [j \in 0..(y.maxChildren - 1) |-> y.children[j]]
  <2> DEFINE T == 0..(2 * n - 1)
             f(j) == IF j \in DOMAIN x.children THEN x.children[j] ELSE Zero
  <2>1. y.children = [j \in T |-> f(j)] /\ y.maxChildren - 1 = 2 * n - 1
    BY <1>2
  <2>2. y.children = [j \in T |-> y.children[j]]
    <3> HIDE DEF T, f
    <3> QED
      BY <2>1
  <2> QED
    BY <2>1, <2>2
<1>6. \A j \in (0..(y.maxChildren - 1)) \ Slots(y) : y.children[j].deleted = FALSE
  BY <1>1, <1>2, <1>3, <1>4 DEF Zero
<1>7. Live(y) = Live(x) /\ DeadSlots(y) = DeadSlots(x)
  BY <1>1, <1>3, <1>4 DEF Live, DeadSlots
<1>8. \A j \in Slots(y) : y.children[j].word \in Words /\ y.children[j].deleted \in BOOLEAN
  BY <1>1, <1>3, <1>4 DEF Tidy
<1>9. \A j, k \in Slots(y) : j < k => y.children[j].word < y.children[k].word
  BY <1>1, <1>3, <1>4 DEF Tidy
<1>10. y.deletedChildren = Cardinality(DeadSlots(y))
  BY <1>2, <1>7 DEF Tidy
<1>11. y.owned = Size(y) /\ \A k \in Dead(y) : Emptied(k)
  <2>1. y.owned = Size(y)
    BY <1>2, <1>3, TidyFields
  <2>2. \A j \in DeadSlots(x) : y.children[j] = x.children[j]
    BY <1>1, <1>4 DEF DeadSlots
  <2>3. Dead(y) = Dead(x)
    BY <1>7, <2>2 DEF Dead
  <2> QED
    BY <2>1, <2>3 DEF Tidy
<1>12. Tidy(y)
  BY <1>2, <1>3, <1>5, <1>6, <1>8, <1>9, <1>10, <1>11 DEF Tidy
<1> QED
  BY <1>1, <1>2, <1>3, <1>4, <1>12 DEF Roomy, y

\* y is x with c before slot a: the slots from a on moved up by one.
InsertsAt(x, a, c, y) ==
  /\ IsNode(y) /\ y.maxChildren = x.maxChildren /\ y.emptySpace = x.emptySpace - 1
  /\ y.freed = x.freed /\ y.deletedChildren = x.deletedChildren
  /\ y.owned = x.owned + 1
  /\ DOMAIN y.children = 0..(x.maxChildren - 1)
  /\ y.children = [j \in DOMAIN y.children |-> y.children[j]]
  /\ y.children[a] = c
  /\ \A j \in 0..(x.maxChildren - 1) :
       /\ j < a => y.children[j] = x.children[j]
       /\ a < j /\ j <= Size(x) => y.children[j] = x.children[j - 1]
       /\ j > Size(x) => y.children[j] = x.children[j]

\* The slot a slot becomes.
Up(a, j) == IF j < a THEN j ELSE j + 1

LEMMA InsertedSlots ==
  ASSUME NEW x, Tidy(x), x.emptySpace # 0, NEW a \in 0..Size(x),
         NEW c, NEW y, InsertsAt(x, a, c, y)
  PROVE  /\ Size(y) = Size(x) + 1 /\ a \in Slots(y)
         /\ \A j \in Slots(x) : Up(a, j) \in Slots(y) /\ Up(a, j) # a
                                /\ y.children[Up(a, j)] = x.children[j]
         /\ \A k \in Slots(y) : k = a \/ \E j \in Slots(x) : k = Up(a, j)
         /\ y.children[a] = c
         /\ \A j, k \in Slots(x) : Up(a, j) < Up(a, k) <=> j < k
         /\ \A j \in Slots(x) : Up(a, j) < a <=> j < a
<1>1. /\ x.maxChildren \in Nat /\ x.emptySpace \in 1..x.maxChildren
      /\ Size(x) = x.maxChildren - x.emptySpace /\ Size(x) \in Nat
      /\ Slots(x) = 0..(Size(x) - 1)
  BY TidyFields, TidySizes
<1>2. y.maxChildren = x.maxChildren /\ y.emptySpace = x.emptySpace - 1
  BY DEF InsertsAt
<1>3. Size(y) = Size(x) + 1 /\ Slots(y) = 0..Size(x) /\ a \in Slots(y)
      /\ Size(x) <= x.maxChildren - 1
  <2>1. Size(y) = Size(x) + 1 /\ Size(x) <= x.maxChildren - 1
    BY <1>1, <1>2 DEF Size
  <2>2. Slots(y) = 0..Size(x)
    BY <1>1, <2>1 DEF Slots
  <2> QED
    BY <2>1, <2>2
<1>4. \A j \in Slots(x) : Up(a, j) \in Slots(y) /\ Up(a, j) # a /\ j \in Nat
  BY <1>1, <1>3 DEF Up
<1>5. ASSUME NEW j \in Slots(x) PROVE y.children[Up(a, j)] = x.children[j]
  <2>1. j \in 0..(Size(x) - 1) /\ a \in Nat
    BY <1>1
  <2>2. CASE j < a
    <3>1. j \in 0..(x.maxChildren - 1)
      BY <1>1, <2>1
    <3> QED
      BY <2>2, <3>1 DEF Up, InsertsAt
  <2>3. CASE ~(j < a)
    <3>1. j + 1 \in 0..(x.maxChildren - 1) /\ a < j + 1 /\ j + 1 <= Size(x) /\ (j + 1) - 1 = j
      BY <1>1, <1>3, <2>1, <2>3
    <3>2. y.children[j + 1] = x.children[(j + 1) - 1]
      BY <3>1 DEF InsertsAt
    <3> QED
      BY <2>3, <3>1, <3>2 DEF Up
  <2> QED
    BY <2>2, <2>3
<1>6. ASSUME NEW k \in Slots(y), k # a PROVE \E j \in Slots(x) : k = Up(a, j)
  <2>1. k \in 0..Size(x) /\ a \in Nat
    BY <1>1, <1>3
  <2>2. CASE k < a
    BY <1>1, <2>1, <2>2 DEF Up
  <2>3. CASE ~(k < a)
    <3>1. k - 1 \in Slots(x) /\ ~(k - 1 < a) /\ (k - 1) + 1 = k
      BY <1>1, <1>6, <2>1, <2>3
    <3> QED
      BY <3>1 DEF Up
  <2> QED
    BY <2>2, <2>3
<1>7. \A j, k \in Slots(x) : Up(a, j) < Up(a, k) <=> j < k
  BY <1>1 DEF Up
<1>8. \A j \in Slots(x) : Up(a, j) < a <=> j < a
  BY <1>1 DEF Up
<1> QED
  BY <1>3, <1>4, <1>5, <1>6, <1>7, <1>8 DEF InsertsAt

\* A new slot where the word belongs.
LEMMA InsertIsTidy ==
  ASSUME NEW x, Tidy(x), x.emptySpace # 0,
         NEW c, c.word \in Words, c.deleted = FALSE,
         NEW a, Place(x, c.word, a), \A j \in Slots(x) : x.children[j].word # c.word,
         NEW y, InsertsAt(x, a, c, y)
  PROVE  /\ Tidy(y) /\ Kids(y) = Kids(x) \union {c} /\ Dead(y) = Dead(x)
         /\ Tight(x) => Tight(y)
<1>1. a \in 0..Size(x)
  BY DEF Place
<1>2. /\ Size(y) = Size(x) + 1 /\ a \in Slots(y) /\ y.children[a] = c
      /\ \A j \in Slots(x) : Up(a, j) \in Slots(y) /\ Up(a, j) # a
                             /\ y.children[Up(a, j)] = x.children[j]
      /\ \A k \in Slots(y) : k = a \/ \E j \in Slots(x) : k = Up(a, j)
      /\ \A j, k \in Slots(x) : Up(a, j) < Up(a, k) <=> j < k
      /\ \A j \in Slots(x) : Up(a, j) < a <=> j < a
  BY <1>1, InsertedSlots
<1>3. /\ \A j \in Slots(x) : j \in Nat /\ x.children[j].word \in Words
                             /\ x.children[j].word \in Nat
                             /\ x.children[j].deleted \in BOOLEAN
      /\ c.word \in Nat
  BY TidySlots, ArraysAssumption
<1>4. /\ x.maxChildren \in Nat \ {0} /\ x.emptySpace \in 1..x.maxChildren /\ x.freed = FALSE
      /\ Size(x) \in Nat /\ Slots(x) = 0..(Size(x) - 1)
      /\ Size(x) = x.maxChildren - x.emptySpace
  BY TidyFields, TidySizes
<1>5. /\ IsNode(y) /\ y.maxChildren \in Nat \ {0} /\ y.emptySpace \in 0..y.maxChildren
      /\ y.freed = FALSE /\ y.maxChildren = x.maxChildren
      /\ y.children = [j \in 0..(y.maxChildren - 1) |-> y.children[j]]
      /\ y.deletedChildren = x.deletedChildren
  <2>1. /\ IsNode(y) /\ y.maxChildren = x.maxChildren /\ y.emptySpace = x.emptySpace - 1
        /\ y.freed = x.freed /\ y.deletedChildren = x.deletedChildren
    BY DEF InsertsAt
  <2>2. y.children = [j \in 0..(y.maxChildren - 1) |-> y.children[j]]
    BY DEF InsertsAt
  <2> QED
    BY <1>4, <2>1, <2>2
<1>6. Slots(y) = 0..Size(x)
  BY <1>2, <1>4 DEF Slots
<1>7. ASSUME NEW j \in Slots(x), j < a PROVE x.children[j].word < c.word
  BY <1>7 DEF Place
<1>8. ASSUME NEW j \in Slots(x), ~(j < a) PROVE c.word < x.children[j].word
  <2>1. j >= a
    BY <1>1, <1>3, <1>4, <1>8
  <2> QED
    BY <1>3, <2>1 DEF Place
<1>9. \A j \in Slots(y) : y.children[j].word \in Words /\ y.children[j].deleted \in BOOLEAN
  BY <1>2, <1>3
<1>10. ASSUME NEW j \in Slots(y), NEW k \in Slots(y), j < k
       PROVE  y.children[j].word < y.children[k].word
  <2>0. j \in Nat /\ k \in Nat /\ a \in Nat
    BY <1>1, <1>4, <1>6
  <2>1. CASE j = a
    <3>1. k # a
      BY <1>10, <2>0, <2>1
    <3>2. PICK l \in Slots(x) : k = Up(a, l)
      BY <1>2, <3>1
    <3>3. ~(l < a)
      BY <1>2, <1>10, <2>0, <2>1, <3>2
    <3> QED
      BY <1>2, <1>8, <2>1, <3>2, <3>3
  <2>2. CASE j # a /\ k = a
    <3>1. PICK l \in Slots(x) : j = Up(a, l)
      BY <1>2, <2>2
    <3>2. l < a
      BY <1>2, <1>10, <2>2, <3>1
    <3> QED
      BY <1>2, <1>7, <2>2, <3>1, <3>2
  <2>3. CASE j # a /\ k # a
    <3>1. PICK l \in Slots(x) : j = Up(a, l)
      BY <1>2, <2>3
    <3>2. PICK b \in Slots(x) : k = Up(a, b)
      BY <1>2, <2>3
    <3>3. l < b
      BY <1>2, <1>10, <3>1, <3>2
    <3>4. x.children[l].word < x.children[b].word
      BY <3>3 DEF Tidy
    <3> QED
      BY <1>2, <3>1, <3>2, <3>4
  <2> QED
    BY <2>1, <2>2, <2>3
<1>11. \A j \in (0..(y.maxChildren - 1)) \ Slots(y) : y.children[j].deleted = FALSE
  <2> SUFFICES ASSUME NEW j \in 0..(x.maxChildren - 1), j \notin Slots(y)
               PROVE  y.children[j].deleted = FALSE
    BY <1>5
  <2>1. j > Size(x) /\ j \notin Slots(x)
    BY <1>4, <1>6
  <2>2. y.children[j] = x.children[j]
    BY <2>1 DEF InsertsAt
  <2> QED
    BY <2>1, <2>2 DEF Tidy
<1>12. /\ Live(x) = {j \in Slots(x) : ~x.children[j].deleted}
       /\ DeadSlots(x) = {j \in Slots(x) : x.children[j].deleted}
       /\ Live(y) = {j \in Slots(y) : ~y.children[j].deleted}
       /\ DeadSlots(y) = Slots(y) \ Live(y)
  BY TidyNode DEF Live, DeadSlots
<1>13. /\ a \in Live(y) /\ a \notin DeadSlots(y)
       /\ \A j \in Live(x) : Up(a, j) \in Live(y)
       /\ \A j \in DeadSlots(x) : Up(a, j) \in DeadSlots(y)
       /\ \A k \in Live(y) : k = a \/ \E j \in Live(x) : k = Up(a, j)
       /\ \A k \in DeadSlots(y) : \E j \in DeadSlots(x) : k = Up(a, j)
  BY <1>2, <1>12
<1>14. Kids(y) = Kids(x) \union {c}
  <2>1. \A j \in Live(x) : j \in Slots(x)
    BY <1>12
  <2>2. \A k \in Kids(y) : k \in Kids(x) \union {c}
    BY <1>2, <1>13, <2>1 DEF Kids
  <2>3. \A k \in Kids(x) : k \in Kids(y)
    BY <1>2, <1>13, <2>1 DEF Kids
  <2>4. c \in Kids(y)
    BY <1>2, <1>13 DEF Kids
  <2> QED
    BY <2>2, <2>3, <2>4
<1>15. Dead(y) = Dead(x)
  <2>1. \A j \in DeadSlots(x) : j \in Slots(x)
    BY <1>12
  <2>2. \A k \in Dead(y) : k \in Dead(x)
    BY <1>2, <1>13, <2>1 DEF Dead
  <2>3. \A k \in Dead(x) : k \in Dead(y)
    BY <1>2, <1>13, <2>1 DEF Dead
  <2> QED
    BY <2>2, <2>3
<1>16. y.deletedChildren = Cardinality(DeadSlots(y))
  <2> DEFINE f == [j \in DeadSlots(x) |-> Up(a, j)]
  <2>1. f \in [DeadSlots(x) -> DeadSlots(y)]
    BY <1>13
  <2>2. \A j, k \in DeadSlots(x) : f[j] = f[k] => j = k
    <3>1. \A j, k \in DeadSlots(x) : Up(a, j) = Up(a, k) => j = k
      BY <1>1, <1>3, <1>12 DEF Up
    <3> QED
      BY <3>1
  <2>3. \A k \in DeadSlots(y) : \E j \in DeadSlots(x) : f[j] = k
    BY <1>13
  <2>4. f \in Bijection(DeadSlots(x), DeadSlots(y))
    <3> HIDE DEF f
    <3> QED
      BY <2>1, <2>2, <2>3, Fun_IsBij
  <2>5. ExistsBijection(DeadSlots(x), DeadSlots(y)) /\ IsFiniteSet(DeadSlots(x))
    BY <2>4, TidyNode DEF ExistsBijection
  <2>6. Cardinality(DeadSlots(y)) = Cardinality(DeadSlots(x))
    BY ONLY <2>5, FS_Bijection
  <2> QED
    BY <1>5, <2>6 DEF Tidy
<1>17. Tight(x) => Tight(y)
  <2>1. Size(y) - 1 = Size(x)
    BY <1>2, <1>4
  <2>2. CASE a = Size(x)
    BY <1>13, <2>1, <2>2 DEF Tight
  <2>3. CASE a # Size(x)
    <3>1. Size(x) # 0 /\ Up(a, Size(x) - 1) = Size(x)
      BY <1>1, <1>4, <2>3 DEF Up
    <3> QED
      BY <1>13, <2>1, <3>1 DEF Tight
  <2> QED
    BY <2>2, <2>3
<1>18. y.owned = Size(y) /\ \A k \in Dead(y) : Emptied(k)
  <2>1. x.owned = Size(x) /\ \A k \in Dead(x) : Emptied(k)
    BY DEF Tidy
  <2>2. y.owned = x.owned + 1
    BY DEF InsertsAt
  <2> QED
    BY <1>2, <1>15, <2>1, <2>2
<1>19. Tidy(y)
  BY <1>5, <1>9, <1>10, <1>11, <1>16, <1>18 DEF Tidy
<1> QED
  BY <1>14, <1>15, <1>17, <1>19

\* What a roomy node has in common with the node.
LEMMA RoomyIs ==
  ASSUME NEW x, NEW g, Tidy(x), Roomy(x, g)
  PROVE  /\ Kids(g) = Kids(x) /\ Dead(g) = Dead(x)
         /\ Tight(x) => Tight(g)
         /\ \A w, a : Place(x, w, a) => Place(g, w, a)
<1>1. /\ Slots(g) = Slots(x) /\ Size(g) = Size(x)
      /\ \A j \in Slots(x) : g.children[j] = x.children[j]
  BY DEF Roomy
<1>2. Live(g) = Live(x) /\ DeadSlots(g) = DeadSlots(x)
  BY <1>1 DEF Live, DeadSlots
<1>3. \A j \in Live(x) : g.children[j] = x.children[j]
  BY <1>1, TidyNode
<1>4. \A j \in DeadSlots(x) : g.children[j] = x.children[j]
  BY <1>1, TidyNode
<1>5. Kids(g) = Kids(x)
  BY <1>2, <1>3 DEF Kids
<1>6. Dead(g) = Dead(x)
  BY <1>2, <1>4 DEF Dead
<1>7. Tight(x) => Tight(g)
  BY <1>1, <1>2 DEF Tight
<1>8. \A w, a : Place(x, w, a) => Place(g, w, a)
  BY <1>1 DEF Place
<1> QED
  BY <1>5, <1>6, <1>7, <1>8

\* The slots from a on moved up, and c stored in slot a.
Stored(g, a, c) ==
  [Shifted(g, a) EXCEPT !.children[a] = c, !.emptySpace = @ - 1, !.owned = @ + 1]

LEMMA StoredInserts ==
  ASSUME NEW g, Tidy(g), g.emptySpace # 0, NEW a \in 0..Size(g), NEW c
  PROVE  InsertsAt(g, a, c, Stored(g, a, c)) /\ SameHead(g, Stored(g, a, c))
<1> DEFINE y == Stored(g, a, c)
           n == g.maxChildren
           d == DOMAIN g.children
           ch(j) == IF j \in (a + 1)..Size(g) THEN g.children[j - 1] ELSE g.children[j]
<1>1. /\ IsNode(g) /\ n \in Nat \ {0} /\ g.emptySpace \in 1..n /\ d = 0..(n - 1)
      /\ Size(g) = n - g.emptySpace /\ Size(g) \in Nat
  BY TidyFields, TidySizes
<1>2. /\ IsNode(y) /\ y.maxChildren = n /\ y.emptySpace = g.emptySpace - 1
      /\ y.freed = g.freed /\ y.deletedChildren = g.deletedChildren /\ SameHead(g, y)
      /\ y.owned = g.owned + 1
      /\ y.children = [[j \in d |-> ch(j)] EXCEPT ![a] = c]
  <2> DEFINE sh == [j \in d |-> ch(j)]
             st == [sh EXCEPT ![a] = c]
             e == g.emptySpace - 1
             o == g.owned + 1
  <2>1. Shifted(g, a) = [g EXCEPT !.children = sh]
    BY DEF Shifted
  <2>2. y = [[g EXCEPT !.children = sh] EXCEPT !.children[a] = c, !.emptySpace = @ - 1,
                                               !.owned = @ + 1]
    BY <2>1 DEF Stored
  <2> HIDE DEF sh, y
  <2>3. y = [g EXCEPT !.children = st, !.emptySpace = e, !.owned = o]
    BY <1>1, <2>2 DEF IsNode
  <2> HIDE DEF st, e, o
  <2>4. /\ IsNode(y) /\ y.maxChildren = g.maxChildren /\ y.emptySpace = e
        /\ y.freed = g.freed /\ y.deletedChildren = g.deletedChildren /\ SameHead(g, y)
        /\ y.children = st /\ y.owned = o
    BY <1>1, <2>3 DEF IsNode, SameHead
  <2> QED
    BY <2>4 DEF st, e, sh, o
<1>3. a \in d
  BY <1>1
<1>4. DOMAIN y.children = d /\ y.children = [j \in d |-> y.children[j]] /\ y.children[a] = c
  BY <1>2, <1>3
<1>5. \A j \in d : j # a => y.children[j] = ch(j)
  BY <1>2
<1>6. ASSUME NEW j \in 0..(n - 1), j < a PROVE y.children[j] = g.children[j]
  <2>1. j \in d /\ j # a /\ j \notin (a + 1)..Size(g)
    BY <1>1, <1>6
  <2> QED
    BY <1>5, <2>1
<1>7. ASSUME NEW j \in 0..(n - 1), a < j, j <= Size(g) PROVE y.children[j] = g.children[j - 1]
  <2>1. j \in d /\ j # a /\ j \in (a + 1)..Size(g)
    BY <1>1, <1>7
  <2> QED
    BY <1>5, <2>1
<1>8. ASSUME NEW j \in 0..(n - 1), j > Size(g) PROVE y.children[j] = g.children[j]
  <2>1. j \in d /\ j # a /\ j \notin (a + 1)..Size(g)
    BY <1>1, <1>8
  <2> QED
    BY <1>5, <2>1
<1> HIDE DEF y, ch
<1>9. InsertsAt(g, a, c, y)
  BY <1>1, <1>2, <1>4, <1>6, <1>7, <1>8 DEF InsertsAt
<1> QED
  BY <1>2, <1>9 DEF y

\* y is x with a child c, unless there is one with that word.
Adds(x, c, y) ==
  /\ Tidy(y) /\ SameHead(x, y)
  /\ Tight(x) => Tight(y)
  /\ Has(x, c.word) => y = x
  /\ ~Has(x, c.word) => Kids(y) = Kids(x) \union {c} /\ Dead(y) \subseteq Dead(x)

LEMMA SameHeads ==
  ASSUME NEW x, NEW y, NEW z, SameHead(x, y), SameHead(y, z)
  PROVE  SameHead(x, z)
BY DEF SameHead

\* trieMakeSpace makes space for every child, and loses none.
LEMMA AddChildIs ==
  ASSUME NEW x, Tidy(x), NEW c, c.word \in Words, c.deleted = FALSE
  PROVE  Adds(x, c, AddChild(x, c))
<1> DEFINE found == BinarySearch(x, c.word).found
           a == BinarySearch(x, c.word).position
           g == IF x.emptySpace = 0 THEN Grown(x) ELSE x
           y == AddChild(x, c)
<1>1. y = IF found /\ ~x.children[a].deleted THEN x
          ELSE IF a < x.maxChildren /\ x.children[a].deleted THEN Reused(x, a, c)
          ELSE Stored(g, a, c)
  BY DEF AddChild, Stored
<1>2. /\ Place(x, c.word, a) /\ a \in 0..Size(x) /\ found \in BOOLEAN
      /\ found => a \in Slots(x) /\ x.children[a].word = c.word
      /\ \A j \in Slots(x) : x.children[j].word = c.word => found /\ a = j
      /\ Child(x, c.word) = x.children[a]
  BY Searching DEF Child
<1>3. /\ Has(x, c.word) => found /\ x.children[a].deleted = FALSE
      /\ found /\ ~x.children[a].deleted => Has(x, c.word)
  <2> HIDE DEF found, a, y, g
  <2>1. Has(x, c.word) => found
    BY HasChild DEF found
  <2>2. Has(x, c.word) => Child(x, c.word).deleted = FALSE
    BY ChildAlive
  <2>3. found /\ ~Child(x, c.word).deleted => Has(x, c.word)
    BY HasChild DEF found
  <2> QED
    BY <1>2, <2>1, <2>2, <2>3
<1>4. /\ \A j \in Slots(x) : x.children[j].deleted \in BOOLEAN
      /\ \A j \in (0..(x.maxChildren - 1)) \ Slots(x) : x.children[j].deleted = FALSE
      /\ x.maxChildren \in Nat
  BY DEF Tidy
<1> HIDE DEF found, a, y, g
<1>5. CASE found /\ ~x.children[a].deleted
  <2>1. y = x /\ Has(x, c.word)
    BY <1>1, <1>3, <1>5
  <2> QED
    BY <2>1 DEF Adds, SameHead, y
<1>6. CASE ~(found /\ ~x.children[a].deleted) /\ a < x.maxChildren /\ x.children[a].deleted
  <2>1. a \in Slots(x) /\ x.children[a].deleted = TRUE /\ ~Has(x, c.word)
    <3>1. a \in 0..(x.maxChildren - 1)
      BY <1>2, <1>4, <1>6, TidyNode
    <3>2. a \in Slots(x)
      BY <1>4, <1>6, <3>1
    <3> QED
      BY <1>3, <1>4, <1>6, <3>2
  <2>2. FitsAt(x, a, c)
    BY <1>2, <2>1, FitsPlace
  <2>3. y = Reused(x, a, c) /\ IsNode(x)
    BY <1>1, <1>6 DEF Tidy
  <2>4. Puts(x, a, c, y) /\ SameHead(x, y) /\ y.deletedChildren = x.deletedChildren - 1
    <3> DEFINE ch == [x.children EXCEPT ![a] = c]
               dc == x.deletedChildren - 1
               o == x.owned + Below(x, {a})
    <3>1. Below(x, {a}) = 0
      <4>1. {a} \subseteq DeadSlots(x)
        BY <2>1, TidyNode
      <4> QED
        BY <4>1, NothingBelow
    <3>2. o = x.owned
      <4>1. x.owned = Size(x) /\ Size(x) \in Nat
        BY TidyFields
      <4> QED
        BY <3>1, <4>1
    <3>3. y = [x EXCEPT !.children = ch, !.deletedChildren = dc, !.owned = o]
      BY <2>3 DEF Reused
    <3> HIDE DEF ch, dc, o
    <3>4. /\ IsNode(y) /\ y.maxChildren = x.maxChildren /\ y.emptySpace = x.emptySpace
          /\ y.freed = x.freed /\ y.owned = o /\ y.children = ch /\ SameHead(x, y)
          /\ y.deletedChildren = dc
      BY <2>3, <3>3 DEF IsNode, SameHead
    <3> QED
      BY <3>2, <3>4 DEF Puts, ch, dc
  <2>5. y.deletedChildren = IF c.deleted = x.children[a].deleted THEN x.deletedChildren
                            ELSE IF c.deleted THEN x.deletedChildren + 1
                            ELSE x.deletedChildren - 1
    BY <2>1, <2>4
  <2>6. Tidy(y) /\ Size(y) = Size(x) /\ Live(y) = Live(x) \union {a}
    BY <2>1, <2>2, <2>4, <2>5, PutIsTidy
  <2>7. /\ Kids(y) = {k \in Kids(x) : k.word # x.children[a].word} \union {c}
        /\ Dead(y) = {k \in Dead(x) : k.word # x.children[a].word}
    BY <2>1, <2>2, <2>4, <2>5, PutKids
  <2>8. \A k \in Kids(x) : k.word # x.children[a].word
    <3>1. x.children[a] \in Dead(x)
      BY <2>1, TidyNode DEF Dead
    <3> QED
      BY <3>1, KidsDiffer
  <2>9. Tight(x) => Tight(y)
    BY <2>6 DEF Tight
  <2> QED
    BY <2>1, <2>4, <2>6, <2>7, <2>8, <2>9 DEF Adds, y
<1>7. CASE ~(found /\ ~x.children[a].deleted) /\ ~(a < x.maxChildren /\ x.children[a].deleted)
  <2>1. ~found
    BY <1>2, <1>4, <1>7, TidyNode
  <2>2. \A j \in Slots(x) : x.children[j].word # c.word
    BY <1>2, <2>1
  <2>3. ~Has(x, c.word) /\ y = Stored(g, a, c)
    BY <1>1, <1>3, <1>7, <2>1
  <2>4. Roomy(x, g)
    <3>1. CASE x.emptySpace = 0
      BY <3>1, GrownIs DEF g
    <3>2. CASE x.emptySpace # 0
      <4>1. g = x
        BY <3>2 DEF g
      <4>2. x.emptySpace \in Nat \ {0}
        BY <3>2, TidyFields
      <4>3. SameHead(x, x)
        BY DEF SameHead
      <4>4. Roomy(x, x)
        BY <4>2, <4>3 DEF Roomy
      <4> QED
        BY <4>1, <4>4
    <3> QED
      BY <3>1, <3>2
  <2>5. /\ Tidy(g) /\ g.emptySpace # 0 /\ SameHead(x, g) /\ Size(g) = Size(x)
        /\ Slots(g) = Slots(x) /\ \A j \in Slots(x) : g.children[j] = x.children[j]
    BY <2>4 DEF Roomy
  <2>6. Kids(g) = Kids(x) /\ Dead(g) = Dead(x) /\ (Tight(x) => Tight(g))
        /\ Place(g, c.word, a)
    BY <1>2, <2>4, RoomyIs
  <2>7. InsertsAt(g, a, c, y) /\ SameHead(g, y)
    BY <1>2, <2>3, <2>5, StoredInserts
  <2>8. \A j \in Slots(g) : g.children[j].word # c.word
    BY <2>2, <2>5
  <2>9. Tidy(y) /\ Kids(y) = Kids(g) \union {c} /\ Dead(y) = Dead(g) /\ (Tight(g) => Tight(y))
    BY <2>5, <2>6, <2>7, <2>8, InsertIsTidy
  <2>10. SameHead(x, y)
    BY <2>5, <2>7, SameHeads
  <2> QED
    BY <2>3, <2>6, <2>9, <2>10 DEF Adds, y
<1> QED
  BY <1>5, <1>6, <1>7

\* The child that is found after it was added, and what a node becomes when it is
\* added and then replaced.
LEMMA AddedChild ==
  ASSUME NEW x, Tidy(x), NEW w \in Words, NEW c, c.word = w, c.deleted = FALSE
  PROVE  /\ Has(AddChild(x, c), w)
         /\ Has(x, w) => Child(AddChild(x, c), w) = Child(x, w)
         /\ ~Has(x, w) => Child(AddChild(x, c), w) = c
<1> DEFINE y == AddChild(x, c)
<1>1. Adds(x, c, y)
  BY AddChildIs
<1> HIDE DEF y
<1>2. CASE Has(x, w)
  BY <1>1, <1>2 DEF Adds, y
<1>3. CASE ~Has(x, w)
  <2>1. Tidy(y) /\ c \in Kids(y)
    BY <1>1, <1>3 DEF Adds
  <2>2. Has(y, w)
    BY <2>1 DEF Has
  <2>3. \A k \in Kids(y) : k.word = w => k = Child(y, w)
    BY <2>1, <2>2, ChildIs
  <2>4. Child(y, w) = c
    BY <2>1, <2>3
  <2> QED
    BY <1>3, <2>2, <2>4 DEF y
<1> QED
  BY <1>2, <1>3

\* y is x with a child k in the place of the one with its word, if there was one.
Holds(x, k, y) ==
  /\ Tidy(y) /\ SameHead(x, y)
  /\ Tight(x) => Tight(y)
  /\ Kids(y) = Others(x, k.word) \union {k}
  /\ Dead(y) \subseteq Dead(x)

LEMMA AddedAndSet ==
  ASSUME NEW x, Tidy(x), NEW w \in Words, NEW c, c.word = w, c.deleted = FALSE,
         NEW k, k.word = w, k.deleted = FALSE
  PROVE  Holds(x, k, SetChild(AddChild(x, c), w, k))
<1> DEFINE y == AddChild(x, c)
           z == SetChild(y, w, k)
<1>1. Adds(x, c, y)
  BY AddChildIs
<1>2. Has(y, w)
  BY AddedChild
<1> HIDE DEF y, z
<1>3. Tidy(y) /\ SameHead(x, y) /\ (Tight(x) => Tight(y))
  BY <1>1 DEF Adds
<1>4. /\ Tidy(z) /\ SameHead(y, z) /\ Size(z) = Size(y) /\ Live(z) = Live(y)
      /\ Kids(z) = Others(y, w) \union {k}
      /\ Dead(z) = Dead(y)
  <2>1. Sets(y, k, z)
    BY <1>2, <1>3, SetChildIs DEF z
  <2> QED
    BY <2>1 DEF Sets
<1>5. SameHead(x, z) /\ (Tight(x) => Tight(z))
  BY <1>3, <1>4, SameHeads DEF Tight
<1>6. Dead(y) \subseteq Dead(x) /\ Others(y, w) = Others(x, w)
  <2>1. Has(x, w) => y = x
    BY <1>1 DEF Adds
  <2>2. ~Has(x, w) => Kids(y) = Kids(x) \union {c} /\ Dead(y) \subseteq Dead(x)
    BY <1>1 DEF Adds
  <2> QED
    BY <2>1, <2>2 DEF Others
<1> QED
  BY <1>4, <1>5, <1>6 DEF Holds, y, z

-----------------------------------------------------------------------------
(***************************************************************************)
(* Deleted slots given back.                                               *)
(***************************************************************************)
\* The slots that Trimmed leaves.
LastLive(x) == Max({j + 1 : j \in Live(x)} \union {0})

LEMMA LastSlots ==
  ASSUME NEW x, Tidy(x)
  PROVE  /\ LastLive(x) \in 0..Size(x)
         /\ \A j \in Live(x) : j \in 0..(LastLive(x) - 1)
         /\ LastLive(x) # 0 => LastLive(x) - 1 \in Live(x)
<1> DEFINE T == {j + 1 : j \in Live(x)}
           S == T \union {0}
<1>1. Size(x) \in Nat /\ Live(x) \subseteq 0..(Size(x) - 1)
  BY TidyNode
<1>2. \E b \in S : \A d \in S : b >= d
  <2>1. CASE T = {}
    BY <2>1
  <2>2. CASE T # {}
    <3>1. T \in SUBSET (1..Size(x))
      BY <1>1
    <3>2. Max(T) \in T /\ \A d \in T : d <= Max(T)
      <4> HIDE DEF T
      <4> QED
        BY <1>1, <2>2, <3>1, MaxNumber
    <3>3. Max(T) \in 1..Size(x)
      BY <3>1, <3>2
    <3> HIDE DEF T
    <3> QED
      BY <1>1, <3>1, <3>2, <3>3
  <2> QED
    BY <2>1, <2>2
<1>3. LastLive(x) = CHOOSE b \in S : \A d \in S : b >= d
  BY DEF LastLive, Max
<1>4. LastLive(x) \in S /\ \A d \in S : LastLive(x) >= d
  <2> HIDE DEF S
  <2> QED
    BY <1>2, <1>3
<1>5. \A j \in Live(x) : j + 1 \in S
  OBVIOUS
<1>6. S \subseteq 0..Size(x)
  BY <1>1
<1>7. LastLive(x) # 0 => \E j \in Live(x) : LastLive(x) = j + 1
  BY <1>4
<1>8. LastLive(x) \in 0..Size(x)
  BY <1>4, <1>6
<1> HIDE DEF S
<1>9. \A j \in Live(x) : j \in 0..(LastLive(x) - 1)
  <2>1. \A j \in Live(x) : j \in Nat /\ LastLive(x) >= j + 1
    BY <1>1, <1>4, <1>5
  <2> QED
    BY <1>1, <1>8, <2>1
<1>10. LastLive(x) # 0 => LastLive(x) - 1 \in Live(x)
  <2>1. \A j \in Live(x) : (j + 1) - 1 = j
    BY <1>1
  <2> QED
    BY <1>7, <2>1
<1> QED
  BY <1>8, <1>9, <1>10

\* y is x without deleted slots at its end.
Trims(x, y) ==
  /\ Tidy(y) /\ Tight(y) /\ SameHead(x, y)
  /\ Kids(y) = Kids(x) /\ Dead(y) \subseteq Dead(x)
  /\ Kids(x) = {} => Size(y) = 0

LEMMA TrimmedIs ==
  ASSUME NEW x, Tidy(x)
  PROVE  Trims(x, Trimmed(x))
<1> DEFINE y == Trimmed(x)
           l == LastLive(x)
           d == DOMAIN x.children
<1>1. /\ IsNode(x) /\ x.maxChildren \in Nat \ {0} /\ x.emptySpace \in 0..x.maxChildren
      /\ d = 0..(x.maxChildren - 1) /\ x.freed = FALSE /\ x.owned = Size(x)
      /\ Size(x) = x.maxChildren - x.emptySpace /\ Size(x) \in Nat
      /\ Slots(x) = 0..(Size(x) - 1) /\ x.emptySpace \in Nat
  BY TidyFields, TidySizes
<1>2. /\ l \in 0..Size(x)
      /\ \A j \in Live(x) : j \in 0..(l - 1)
      /\ l # 0 => l - 1 \in Live(x)
  BY LastSlots
<1>3. /\ IsNode(y) /\ SameHead(x, y) /\ y.freed = FALSE /\ y.maxChildren = x.maxChildren
      /\ y.emptySpace = x.emptySpace + (Size(x) - l)
      /\ y.deletedChildren = x.deletedChildren - (Size(x) - l)
      /\ y.owned = x.owned - (Size(x) - l) + Below(x, l..(Size(x) - 1))
      /\ y.children = [j \in d |-> IF j >= l THEN Zero ELSE x.children[j]]
  <2> DEFINE ch == [j \in d |-> IF j >= l THEN Zero ELSE x.children[j]]
             e == x.emptySpace + (Size(x) - l)
             dc == x.deletedChildren - (Size(x) - l)
             o == x.owned - (Size(x) - l) + Below(x, l..(Size(x) - 1))
  <2>1. y = [x EXCEPT !.children = ch, !.emptySpace = e, !.deletedChildren = dc, !.owned = o]
    BY DEF Trimmed, LastLive
  <2> HIDE DEF ch, e, dc, o, y
  <2>2. /\ IsNode(y) /\ SameHead(x, y) /\ y.deletedChildren = dc
        /\ y.freed = x.freed /\ y.maxChildren = x.maxChildren
        /\ y.emptySpace = e /\ y.children = ch /\ y.owned = o
    BY <1>1, <2>1 DEF IsNode, SameHead
  <2> QED
    BY <1>1, <2>2 DEF ch, e, dc, o
<1> HIDE DEF y, l
<1>4. /\ Size(y) = l /\ Slots(y) = 0..(l - 1) /\ y.emptySpace \in 0..y.maxChildren
      /\ Slots(y) \subseteq Slots(x)
  <2>1. Size(y) = l /\ y.emptySpace \in 0..y.maxChildren
    <3> DEFINE n == Size(x)
               mx == x.maxChildren
               e == x.emptySpace
    <3>1. /\ mx \in Nat /\ e \in Nat /\ n = mx - e /\ n \in Nat /\ l \in 0..n
          /\ y.maxChildren = mx /\ y.emptySpace = e + (n - l)
      BY <1>1, <1>2, <1>3
    <3> HIDE DEF n, mx, e
    <3>2. mx - (e + (n - l)) = l /\ e + (n - l) \in 0..mx
      BY <3>1
    <3> QED
      BY <3>1, <3>2 DEF Size
  <2> QED
    BY <1>1, <1>2, <2>1 DEF Slots
<1>5. /\ \A j \in Slots(y) : y.children[j] = x.children[j]
      /\ \A j \in d : j \notin Slots(y) => y.children[j] = Zero
  <2>1. \A j \in d : y.children[j] = IF j >= l THEN Zero ELSE x.children[j]
    BY <1>3
  <2>2. \A j \in Slots(y) : j \in d /\ ~(j >= l)
    BY <1>1, <1>2, <1>4
  <2>3. \A j \in d : j \notin Slots(y) => j >= l
    BY <1>1, <1>2, <1>4
  <2> QED
    BY <2>1, <2>2, <2>3
<1>6. y.children = [j \in 0..(y.maxChildren - 1) |-> y.children[j]]
  BY <1>1, <1>3
<1>7. \A j \in (0..(y.maxChildren - 1)) \ Slots(y) : y.children[j].deleted = FALSE
  <2>1. \A j \in d : j \notin Slots(y) => y.children[j].deleted = FALSE
    BY <1>5 DEF Zero
  <2>2. 0..(y.maxChildren - 1) = d
    BY <1>1, <1>3
  <2> QED
    BY <2>1, <2>2
<1>8. \A j \in Slots(y) : y.children[j].word \in Words /\ y.children[j].deleted \in BOOLEAN
  BY <1>4, <1>5 DEF Tidy
<1>9. \A j, k \in Slots(y) : j < k => y.children[j].word < y.children[k].word
  BY <1>4, <1>5 DEF Tidy
<1>10. Live(y) = Live(x) /\ DeadSlots(y) \subseteq DeadSlots(x)
  <2>1. Live(y) = {j \in Slots(y) : ~x.children[j].deleted}
    BY <1>5 DEF Live
  <2>2. Live(x) = {j \in Slots(x) : ~x.children[j].deleted}
    BY DEF Live
  <2>3. Live(y) = Live(x)
    BY <1>2, <1>4, <2>1, <2>2
  <2> QED
    BY <1>4, <2>3 DEF DeadSlots
<1>11. y.deletedChildren = Cardinality(DeadSlots(y))
  <2>1. /\ IsFiniteSet(Slots(x)) /\ Cardinality(Slots(x)) = Size(x)
        /\ IsFiniteSet(DeadSlots(x)) /\ Live(x) \in SUBSET Slots(x)
        /\ x.deletedChildren = Cardinality(DeadSlots(x))
    BY TidyNode DEF Tidy
  <2>2. IsFiniteSet(Live(x)) /\ IsFiniteSet(DeadSlots(y))
    <3>1. DeadSlots(y) \in SUBSET DeadSlots(x)
      BY <1>10
    <3> QED
      BY <2>1, <3>1, FS_Subset
  <2>3. /\ Cardinality(Live(x)) \in Nat /\ Cardinality(DeadSlots(x)) \in Nat
        /\ Cardinality(DeadSlots(y)) \in Nat
    BY <2>1, <2>2, FS_CardinalityType
  <2>4. Cardinality(Slots(x)) = Cardinality(Live(x)) + Cardinality(DeadSlots(x))
    <3>1. Live(x) \union DeadSlots(x) = Slots(x) /\ Live(x) \intersect DeadSlots(x) = {}
      BY <2>1 DEF DeadSlots
    <3>2. /\ Cardinality(Live(x) \union DeadSlots(x)) =
               Cardinality(Live(x)) + Cardinality(DeadSlots(x))
                 - Cardinality(Live(x) \intersect DeadSlots(x))
      BY <2>1, <2>2, FS_Union
    <3>3. Cardinality(Live(x) \intersect DeadSlots(x)) = 0
      BY <3>1, FS_EmptySet
    <3>4. Cardinality(Live(x) \union DeadSlots(x)) = Cardinality(Slots(x))
      BY <3>1
    <3> QED
      BY <2>3, <3>2, <3>3, <3>4
  <2>5. Cardinality(Slots(y)) = l
    BY <1>1, <1>2, <1>4, FS_Interval
  <2>6. Cardinality(Slots(y)) = Cardinality(Live(x)) + Cardinality(DeadSlots(y))
    <3>1. Live(x) \union DeadSlots(y) = Slots(y) /\ Live(x) \intersect DeadSlots(y) = {}
      BY <1>10 DEF DeadSlots, Live
    <3> QED
      BY <2>2, <2>3, <3>1, FS_Union, FS_EmptySet
  <2> QED
    BY <1>1, <1>2, <1>3, <2>1, <2>3, <2>4, <2>5, <2>6
<1>12. y.owned = Size(y)
  <2>1. l..(Size(x) - 1) \subseteq DeadSlots(x)
    BY <1>1, <1>2 DEF DeadSlots
  <2>2. Below(x, l..(Size(x) - 1)) = 0
    BY <2>1, NothingBelow
  <2> QED
    BY <1>1, <1>2, <1>3, <1>4, <2>2
<1>13. Tight(y)
  BY <1>2, <1>4, <1>10 DEF Tight
<1>14. Kids(y) = Kids(x)
  <2>1. \A j \in Live(x) : y.children[j] = x.children[j]
    BY <1>5, <1>10 DEF Live
  <2> QED
    BY <1>10, <2>1 DEF Kids
<1>15. Dead(y) \subseteq Dead(x)
  <2>1. \A j \in DeadSlots(y) : y.children[j] = x.children[j]
    BY <1>5 DEF DeadSlots
  <2> QED
    BY <1>10, <2>1 DEF Dead
<1>16. Kids(x) = {} => Size(y) = 0
  BY <1>2, <1>4 DEF Kids
<1>17. \A k \in Dead(y) : Emptied(k)
  BY <1>15 DEF Tidy
<1>18. Tidy(y)
  BY <1>1, <1>3, <1>4, <1>6, <1>7, <1>8, <1>9, <1>11, <1>12, <1>17 DEF Tidy
<1> QED
  BY <1>3, <1>13, <1>14, <1>15, <1>16, <1>18 DEF y, Trims

\* A new node and a new bucket.
LEMMA FreshNodes ==
  /\ \A w : /\ Tidy(NodeInit(w)) /\ Tight(NodeInit(w))
            /\ Kids(NodeInit(w)) = {} /\ Dead(NodeInit(w)) = {}
            /\ NodeInit(w).word = w /\ NodeInit(w).deleted = FALSE
            /\ Shown(NodeInit(w)) = Shown(NewNode)
  /\ Tidy(InitBucket) /\ Kids(InitBucket) = {} /\ Dead(InitBucket) = {}
<1>1. ASSUME NEW z, IsNode(z), z.deletedChildren = 0, z.owned = 0, NEW size \in Nat \ {0},
             NEW y, y = WithArray(z, size)
      PROVE  /\ Tidy(y) /\ Tight(y) /\ Kids(y) = {} /\ Dead(y) = {} /\ SameHead(z, y)
  <2>1. /\ IsNode(y) /\ SameHead(z, y) /\ y.freed = FALSE /\ y.emptySpace = size
        /\ y.maxChildren = size /\ y.deletedChildren = 0 /\ y.owned = 0
        /\ y.children = [j \in 0..(size - 1) |-> Zero]
    <3> DEFINE ch == [j \in 0..(size - 1) |-> Zero]
    <3>1. y = [z EXCEPT !.children = ch, !.freed = FALSE, !.emptySpace = size,
                        !.maxChildren = size]
      BY <1>1 DEF WithArray
    <3> HIDE DEF ch
    <3>2. /\ IsNode(y) /\ SameHead(z, y) /\ y.freed = FALSE /\ y.emptySpace = size
          /\ y.maxChildren = size /\ y.deletedChildren = 0 /\ y.children = ch
          /\ y.owned = 0
      BY <1>1, <3>1 DEF IsNode, SameHead
    <3> QED
      BY <3>2 DEF ch
  <2>2. Size(y) = 0 /\ Slots(y) = {}
    BY <2>1 DEF Size, Slots
  <2>3. Live(y) = {} /\ DeadSlots(y) = {}
    BY <2>2 DEF Live, DeadSlots
  <2>4. Kids(y) = {} /\ Dead(y) = {} /\ Tight(y)
    BY <2>2, <2>3 DEF Kids, Dead, Tight
  <2>5. y.deletedChildren = Cardinality(DeadSlots(y))
    BY <2>1, <2>3, FS_EmptySet
  <2>6. \A j \in 0..(size - 1) : y.children[j].deleted = FALSE
    BY <2>1 DEF Zero
  <2>7. y.children = [j \in 0..(y.maxChildren - 1) |-> y.children[j]]
    BY <2>1
  <2>8. y.owned = Size(y) /\ \A k \in Dead(y) : Emptied(k)
    BY <2>1, <2>2, <2>4
  <2>9. /\ y.maxChildren \in Nat \ {0} /\ y.emptySpace \in 0..y.maxChildren
        /\ \A j \in 0..(y.maxChildren - 1) : y.children[j].deleted = FALSE
    BY <2>1, <2>6
  <2>10. Tidy(y)
    BY <2>1, <2>2, <2>5, <2>7, <2>8, <2>9 DEF Tidy
  <2> QED
    BY <2>1, <2>4, <2>10
<1>2. /\ IsNode(Zero) /\ Zero.deletedChildren = 0 /\ Zero.owned = 0 /\ Zero.deleted = FALSE
      /\ Zero.is_final = FALSE /\ Zero.D_version = NoVersion
  BY DEF IsNode, Zero
<1>3. MINSIZE \in Nat \ {0} /\ IN_SIZE \in Nat \ {0}
  BY ArraysAssumption
<1>4. Tidy(InitBucket) /\ Kids(InitBucket) = {} /\ Dead(InitBucket) = {}
  BY <1>1, <1>2, <1>3 DEF InitBucket
<1>5. ASSUME NEW w
      PROVE /\ Tidy(NodeInit(w)) /\ Tight(NodeInit(w))
            /\ Kids(NodeInit(w)) = {} /\ Dead(NodeInit(w)) = {}
            /\ NodeInit(w).word = w /\ NodeInit(w).deleted = FALSE
            /\ Shown(NodeInit(w)) = Shown(NewNode)
  <2> DEFINE z == [Zero EXCEPT !.word = w]
  <2>1. /\ IsNode(z) /\ z.deletedChildren = 0 /\ z.owned = 0 /\ z.word = w /\ z.deleted = FALSE
        /\ z.is_final = FALSE /\ z.D_version = NoVersion
    BY <1>2 DEF IsNode
  <2>2. NodeInit(w) = WithArray(z, MINSIZE)
    BY DEF NodeInit
  <2> HIDE DEF z
  <2>3. /\ Tidy(NodeInit(w)) /\ Tight(NodeInit(w))
        /\ Kids(NodeInit(w)) = {} /\ Dead(NodeInit(w)) = {} /\ SameHead(z, NodeInit(w))
    BY <1>1, <1>3, <2>1, <2>2
  <2>4. /\ NodeInit(w).word = w /\ NodeInit(w).deleted = FALSE
        /\ NodeInit(w).is_final = FALSE /\ NodeInit(w).D_version = NoVersion
    BY <2>1, <2>3 DEF SameHead
  <2>5. Shown(NodeInit(w)) = Shown(NewNode)
    BY <2>4 DEF Shown, NewNode
  <2> QED
    BY <2>3, <2>4, <2>5
<1> QED
  BY <1>4, <1>5

-----------------------------------------------------------------------------
(***************************************************************************)
(* The walks of the operations, step by step.                              *)
(***************************************************************************)
LEMMA AlongRuns ==
  ASSUME NEW bucket, NEW ngram, Len(ngram) \in Nat
  PROVE  /\ Along(bucket, ngram)[0] = bucket
         /\ \A d \in 1..Len(ngram) :
              Along(bucket, ngram)[d] =
                Child(AddChild(Along(bucket, ngram)[d - 1], NodeInit(ngram[d])), ngram[d])
<1> DEFINE n == Len(ngram)
           Step(x, d) == Child(AddChild(x, NodeInit(ngram[d])), ngram[d])
           Run(f, k) == f = [d \in 0..k |-> IF d = 0 THEN bucket ELSE Step(f[d - 1], d)]
           down == CHOOSE f : Run(f, n)
<1>1. Along(bucket, ngram) = down
  BY DEF Along
<1> HIDE DEF Step
<1>2. \E f : Run(f, n)
  <2> DEFINE K == {k \in 0..n : \E f : Run(f, k)}
  <2>1. 0 \in K
    <3>1. Run([d \in 0..0 |-> bucket], 0)
      OBVIOUS
    <3>2. 0 \in 0..n
      OBVIOUS
    <3> HIDE DEF Run
    <3> QED
      BY <3>1, <3>2
  <2>2. ASSUME NEW k \in 0..(n - 1), k \in K PROVE k + 1 \in K
    <3>1. PICK f : Run(f, k)
      BY <2>2
    <3> DEFINE g == [d \in 0..(k + 1) |-> IF d = k + 1 THEN Step(f[k], k + 1) ELSE f[d]]
    <3>2. k \in Nat /\ k + 1 \in 0..n
      OBVIOUS
    <3>3. \A d \in 0..k : f[d] = IF d = 0 THEN bucket ELSE Step(f[d - 1], d)
      <4> DEFINE h(d) == IF d = 0 THEN bucket ELSE Step(f[d - 1], d)
      <4>1. f = [d \in 0..k |-> h(d)]
        BY <3>1
      <4> HIDE DEF h, Run
      <4>2. \A d \in 0..k : f[d] = h(d)
        BY <4>1
      <4> QED
        BY <4>2 DEF h
    <3>4. \A d \in 0..(k + 1) : g[d] = IF d = 0 THEN bucket ELSE Step(g[d - 1], d)
      <4> HIDE DEF Run
      <4> SUFFICES ASSUME NEW d \in 0..(k + 1)
                   PROVE  g[d] = IF d = 0 THEN bucket ELSE Step(g[d - 1], d)
        OBVIOUS
      <4>1. d # 0 => d - 1 \in 0..(k + 1) /\ d - 1 # k + 1 /\ g[d - 1] = f[d - 1]
        BY <3>2
      <4>2. CASE d = k + 1
        BY <3>2, <4>1, <4>2
      <4>3. CASE d # k + 1
        <5>1. d \in 0..k
          BY <3>2, <4>3
        <5> QED
          BY <3>3, <4>1, <4>3, <5>1
      <4> QED
        BY <4>2, <4>3
    <3>5. Run(g, k + 1)
      <4> DEFINE h(d) == IF d = 0 THEN bucket ELSE Step(g[d - 1], d)
      <4>1. g = [d \in 0..(k + 1) |-> g[d]] /\ \A d \in 0..(k + 1) : g[d] = h(d)
        BY <3>4
      <4> HIDE DEF g, h
      <4>2. g = [d \in 0..(k + 1) |-> h(d)]
        BY <4>1
      <4> QED
        BY <4>2 DEF h
    <3> HIDE DEF Run, g
    <3> QED
      BY <3>2, <3>5
  <2> HIDE DEF K, Run
  <2>3. \A k \in 0..n : k \in K
    BY <2>1, <2>2, SetInduction
  <2> QED
    BY <2>3 DEF K
<1>3. Run(down, n)
  <2> HIDE DEF Run
  <2> QED
    BY <1>2
<1> HIDE DEF down
<1>4. down[0] = bucket /\ \A d \in 1..n : down[d] = Step(down[d - 1], d)
  BY <1>3
<1> QED
  BY <1>1, <1>4 DEF Step

LEMMA ExtendedRuns ==
  ASSUME NEW bucket, NEW ngram, Len(ngram) \in Nat, NEW last
  PROVE  \E up :
           /\ up[Len(ngram)] = last
           /\ \A d \in 0..(Len(ngram) - 1) :
                up[d] = SetChild(AddChild(Along(bucket, ngram)[d], NodeInit(ngram[d + 1])),
                                 ngram[d + 1], up[d + 1])
           /\ Extended(bucket, ngram, last) = up[0]
<1> DEFINE n == Len(ngram)
           Step(x, d) == SetChild(AddChild(Along(bucket, ngram)[d], NodeInit(ngram[d + 1])),
                                  ngram[d + 1], x)
           Run(f, k) == f = [d \in (n - k)..n |->
                               IF d = n THEN last ELSE Step(f[d + 1], d)]
           up == CHOOSE f : f = [d \in 0..n |-> IF d = n THEN last ELSE Step(f[d + 1], d)]
<1>1. Extended(bucket, ngram, last) = up[0]
  BY DEF Extended
<1> HIDE DEF Step
<1>2. \E f : Run(f, n)
  <2> DEFINE K == {k \in 0..n : \E f : Run(f, k)}
  <2>1. 0 \in K
    <3>1. Run([d \in (n - 0)..n |-> last], 0)
      OBVIOUS
    <3>2. 0 \in 0..n
      OBVIOUS
    <3> HIDE DEF Run
    <3> QED
      BY <3>1, <3>2
  <2>2. ASSUME NEW k \in 0..(n - 1), k \in K PROVE k + 1 \in K
    <3>1. PICK f : Run(f, k)
      BY <2>2
    <3> DEFINE b == n - (k + 1)
               g == [d \in b..n |-> IF d = b THEN Step(f[b + 1], b) ELSE f[d]]
    <3>2. b \in 0..(n - 1) /\ k + 1 \in 0..n /\ n - k = b + 1
      OBVIOUS
    <3>3. \A d \in (b + 1)..n : f[d] = IF d = n THEN last ELSE Step(f[d + 1], d)
      <4> DEFINE h(d) == IF d = n THEN last ELSE Step(f[d + 1], d)
      <4>1. f = [d \in (b + 1)..n |-> h(d)]
        BY <3>1, <3>2
      <4> HIDE DEF h, Run, b
      <4>2. \A d \in (b + 1)..n : f[d] = h(d)
        BY <4>1
      <4> QED
        BY <4>2 DEF h
    <3> HIDE DEF b
    <3>4. \A d \in b..n : g[d] = IF d = n THEN last ELSE Step(g[d + 1], d)
      <4> HIDE DEF Run
      <4> SUFFICES ASSUME NEW d \in b..n
                   PROVE  g[d] = IF d = n THEN last ELSE Step(g[d + 1], d)
        OBVIOUS
      <4>1. d # n => d + 1 \in b..n /\ d + 1 # b /\ g[d + 1] = f[d + 1]
        BY <3>2
      <4>2. CASE d = b
        BY <3>2, <4>1, <4>2
      <4>3. CASE d # b
        <5>1. d \in (b + 1)..n
          BY <3>2, <4>3
        <5> QED
          BY <3>3, <4>1, <4>3, <5>1
      <4> QED
        BY <4>2, <4>3
    <3>5. Run(g, k + 1)
      <4> DEFINE h(d) == IF d = n THEN last ELSE Step(g[d + 1], d)
      <4>1. g = [d \in b..n |-> g[d]] /\ \A d \in b..n : g[d] = h(d)
        BY <3>4
      <4> HIDE DEF g, h
      <4>2. g = [d \in b..n |-> h(d)]
        BY <4>1
      <4> QED
        BY <4>2 DEF h, b
    <3> HIDE DEF Run, g
    <3> QED
      BY <3>2, <3>5
  <2> HIDE DEF K, Run
  <2>3. \A k \in 0..n : k \in K
    BY <2>1, <2>2, SetInduction
  <2> QED
    BY <2>3 DEF K
<1>3. up = [d \in 0..n |-> IF d = n THEN last ELSE Step(up[d + 1], d)]
  <2> DEFINE P(f) == f = [d \in 0..n |-> IF d = n THEN last ELSE Step(f[d + 1], d)]
  <2>1. \E f : P(f)
    BY <1>2
  <2>2. up = CHOOSE f : P(f)
    OBVIOUS
  <2> HIDE DEF P, up
  <2>3. P(up)
    BY <2>1, <2>2
  <2> QED
    BY <2>3 DEF P
<1> HIDE DEF up
<1>4. up[n] = last /\ \A d \in 0..(n - 1) : up[d] = Step(up[d + 1], d)
  BY <1>3
<1> QED
  BY <1>1, <1>4 DEF Step

\* One step of Walked.
Walks(above, word, first, d) ==
  LET br == BinarySearch(above.node, word)
  IN  IF ~above.found \/ ~br.found THEN [above EXCEPT !.found = FALSE]
      ELSE LET node == above.node.children[br.position]
           IN  [found |-> d < first \/ ~node.deleted, node |-> node]

LEMMA WalkedRuns ==
  ASSUME NEW bucket, NEW words, Len(words) \in Nat, NEW first
  PROVE  \E at :
           /\ at[0] = [found |-> TRUE, node |-> bucket]
           /\ \A d \in 1..Len(words) : at[d] = Walks(at[d - 1], words[d], first, d)
           /\ Walked(bucket, words, first) = at[Len(words)]
<1> DEFINE n == Len(words)
           start == [found |-> TRUE, node |-> bucket]
           Step(x, d) == Walks(x, words[d], first, d)
           Run(f, k) == f = [d \in 0..k |-> IF d = 0 THEN start ELSE Step(f[d - 1], d)]
           at == CHOOSE f : Run(f, n)
<1>1. Walked(bucket, words, first) = at[n]
  BY DEF Walked, Walks
<1> HIDE DEF Step, start
<1>2. \E f : Run(f, n)
  <2> DEFINE K == {k \in 0..n : \E f : Run(f, k)}
  <2>1. 0 \in K
    <3>1. Run([d \in 0..0 |-> start], 0)
      OBVIOUS
    <3>2. 0 \in 0..n
      OBVIOUS
    <3> HIDE DEF Run
    <3> QED
      BY <3>1, <3>2
  <2>2. ASSUME NEW k \in 0..(n - 1), k \in K PROVE k + 1 \in K
    <3>1. PICK f : Run(f, k)
      BY <2>2
    <3> DEFINE g == [d \in 0..(k + 1) |-> IF d = k + 1 THEN Step(f[k], k + 1) ELSE f[d]]
    <3>2. k \in Nat /\ k + 1 \in 0..n
      OBVIOUS
    <3>3. \A d \in 0..k : f[d] = IF d = 0 THEN start ELSE Step(f[d - 1], d)
      <4> DEFINE h(d) == IF d = 0 THEN start ELSE Step(f[d - 1], d)
      <4>1. f = [d \in 0..k |-> h(d)]
        BY <3>1
      <4> HIDE DEF h, Run
      <4>2. \A d \in 0..k : f[d] = h(d)
        BY <4>1
      <4> QED
        BY <4>2 DEF h
    <3>4. \A d \in 0..(k + 1) : g[d] = IF d = 0 THEN start ELSE Step(g[d - 1], d)
      <4> HIDE DEF Run
      <4> SUFFICES ASSUME NEW d \in 0..(k + 1)
                   PROVE  g[d] = IF d = 0 THEN start ELSE Step(g[d - 1], d)
        OBVIOUS
      <4>1. d # 0 => d - 1 \in 0..(k + 1) /\ d - 1 # k + 1 /\ g[d - 1] = f[d - 1]
        BY <3>2
      <4>2. CASE d = k + 1
        BY <3>2, <4>1, <4>2
      <4>3. CASE d # k + 1
        <5>1. d \in 0..k
          BY <3>2, <4>3
        <5> QED
          BY <3>3, <4>1, <4>3, <5>1
      <4> QED
        BY <4>2, <4>3
    <3>5. Run(g, k + 1)
      <4> DEFINE h(d) == IF d = 0 THEN start ELSE Step(g[d - 1], d)
      <4>1. g = [d \in 0..(k + 1) |-> g[d]] /\ \A d \in 0..(k + 1) : g[d] = h(d)
        BY <3>4
      <4> HIDE DEF g, h
      <4>2. g = [d \in 0..(k + 1) |-> h(d)]
        BY <4>1
      <4> QED
        BY <4>2 DEF h
    <3> HIDE DEF Run, g
    <3> QED
      BY <3>2, <3>5
  <2> HIDE DEF K, Run
  <2>3. \A k \in 0..n : k \in K
    BY <2>1, <2>2, SetInduction
  <2> QED
    BY <2>3 DEF K
<1>3. Run(at, n)
  <2> HIDE DEF Run
  <2> QED
    BY <1>2
<1> HIDE DEF at
<1>4. at[0] = start /\ \A d \in 1..n : at[d] = Step(at[d - 1], d)
  BY <1>3
<1> QED
  BY <1>1, <1>4 DEF Step, start

\* The end of an n-gram without the n-gram, and one step up from it.
Ends(x) ==
  LET last == [x EXCEPT !.is_final = FALSE]
  IN  IF NoneLeft(last) THEN [node |-> LeafFreed(last), removed |-> TRUE]
      ELSE [node |-> last, removed |-> FALSE]

Goes(x, word, below, d) ==
  LET here == SetChild(x, word, below.node)
  IN  IF below.removed THEN Above(here, d = 0) ELSE [node |-> here, removed |-> FALSE]

RunsBack(node, after, bucket, ngram) ==
  /\ node[0] = bucket
  /\ \A d \in 1..Len(ngram) : node[d] = Child(node[d - 1], ngram[d])
  /\ after[Len(ngram)] = Ends(node[Len(ngram)])
  /\ \A d \in 0..(Len(ngram) - 1) :
       after[d] = Goes(node[d], ngram[d + 1], after[d + 1], d)
  /\ Without(bucket, ngram) = [node |-> after[0].node, removed |-> after[1].removed]

LEMMA WithoutRuns ==
  ASSUME NEW bucket, NEW ngram, Len(ngram) \in Nat
  PROVE  \E node, after : RunsBack(node, after, bucket, ngram)
<1> DEFINE n == Len(ngram)
           node == CHOOSE f : f = [d \in 0..n |-> IF d = 0 THEN bucket ELSE Child(f[d - 1], ngram[d])]
           after == CHOOSE f : f = [d \in 0..n |-> IF d = n THEN Ends(node[n])
                                       ELSE Goes(node[d], ngram[d + 1], f[d + 1], d)]
<1>1. Without(bucket, ngram) = [node |-> after[0].node, removed |-> after[1].removed]
  BY DEF Without, Ends, Goes
<1>2. node[0] = bucket /\ \A d \in 1..n : node[d] = Child(node[d - 1], ngram[d])
  <2> HIDE DEF after
  <2> DEFINE Step(x, d) == Child(x, ngram[d])
             Run(f, k) == f = [d \in 0..k |-> IF d = 0 THEN bucket ELSE Step(f[d - 1], d)]
  <2>1. node = CHOOSE f : Run(f, n)
    OBVIOUS
  <2> HIDE DEF Step, node
  <2>2. \E f : Run(f, n)
    <3> DEFINE K == {k \in 0..n : \E f : Run(f, k)}
    <3>1. 0 \in K
      <4>1. Run([d \in 0..0 |-> bucket], 0)
        OBVIOUS
      <4>2. 0 \in 0..n
        OBVIOUS
      <4> HIDE DEF Run
      <4> QED
        BY <4>1, <4>2
    <3>2. ASSUME NEW k \in 0..(n - 1), k \in K PROVE k + 1 \in K
      <4>1. PICK f : Run(f, k)
        BY <3>2
      <4> DEFINE g == [d \in 0..(k + 1) |-> IF d = k + 1 THEN Step(f[k], k + 1) ELSE f[d]]
      <4>2. k \in Nat /\ k + 1 \in 0..n
        OBVIOUS
      <4>3. \A d \in 0..k : f[d] = IF d = 0 THEN bucket ELSE Step(f[d - 1], d)
        <5> DEFINE h(d) == IF d = 0 THEN bucket ELSE Step(f[d - 1], d)
        <5>1. f = [d \in 0..k |-> h(d)]
          BY <4>1
        <5> HIDE DEF h, Run
        <5>2. \A d \in 0..k : f[d] = h(d)
          BY <5>1
        <5> QED
          BY <5>2 DEF h
      <4>4. \A d \in 0..(k + 1) : g[d] = IF d = 0 THEN bucket ELSE Step(g[d - 1], d)
        <5> HIDE DEF Run
        <5> SUFFICES ASSUME NEW d \in 0..(k + 1)
                     PROVE  g[d] = IF d = 0 THEN bucket ELSE Step(g[d - 1], d)
          OBVIOUS
        <5>1. d # 0 => d - 1 \in 0..(k + 1) /\ d - 1 # k + 1 /\ g[d - 1] = f[d - 1]
          BY <4>2
        <5>2. CASE d = k + 1
          BY <4>2, <5>1, <5>2
        <5>3. CASE d # k + 1
          <6>1. d \in 0..k
            BY <4>2, <5>3
          <6> QED
            BY <4>3, <5>1, <5>3, <6>1
        <5> QED
          BY <5>2, <5>3
      <4>5. Run(g, k + 1)
        <5> DEFINE h(d) == IF d = 0 THEN bucket ELSE Step(g[d - 1], d)
        <5>1. g = [d \in 0..(k + 1) |-> g[d]] /\ \A d \in 0..(k + 1) : g[d] = h(d)
          BY <4>4
        <5> HIDE DEF g, h
        <5>2. g = [d \in 0..(k + 1) |-> h(d)]
          BY <5>1
        <5> QED
          BY <5>2 DEF h
      <4> HIDE DEF Run, g
      <4> QED
        BY <4>2, <4>5
    <3> HIDE DEF K, Run
    <3>3. \A k \in 0..n : k \in K
      BY <3>1, <3>2, SetInduction
    <3> QED
      BY <3>3 DEF K
  <2>3. Run(node, n)
    <3> HIDE DEF Run
    <3> QED
      BY <2>1, <2>2
  <2>4. node[0] = bucket /\ \A d \in 1..n : node[d] = Step(node[d - 1], d)
    BY <2>3
  <2> QED
    BY <2>4 DEF Step
<1>3. after[n] = Ends(node[n])
      /\ \A d \in 0..(n - 1) : after[d] = Goes(node[d], ngram[d + 1], after[d + 1], d)
  <2> HIDE DEF node
  <2> DEFINE end == Ends(node[n])
             Step(x, d) == Goes(node[d], ngram[d + 1], x, d)
             P(f) == f = [d \in 0..n |-> IF d = n THEN end ELSE Step(f[d + 1], d)]
             Run(f, k) == f = [d \in (n - k)..n |-> IF d = n THEN end ELSE Step(f[d + 1], d)]
  <2>1. after = CHOOSE f : P(f)
    OBVIOUS
  <2> HIDE DEF Step, end, after
  <2>2. \E f : Run(f, n)
    <3> DEFINE K == {k \in 0..n : \E f : Run(f, k)}
    <3>1. 0 \in K
      <4>1. Run([d \in (n - 0)..n |-> end], 0)
        OBVIOUS
      <4>2. 0 \in 0..n
        OBVIOUS
      <4> HIDE DEF Run
      <4> QED
        BY <4>1, <4>2
    <3>2. ASSUME NEW k \in 0..(n - 1), k \in K PROVE k + 1 \in K
      <4>1. PICK f : Run(f, k)
        BY <3>2
      <4> DEFINE b == n - (k + 1)
                 g == [d \in b..n |-> IF d = b THEN Step(f[b + 1], b) ELSE f[d]]
      <4>2. b \in 0..(n - 1) /\ k + 1 \in 0..n /\ n - k = b + 1
        OBVIOUS
      <4>3. \A d \in (b + 1)..n : f[d] = IF d = n THEN end ELSE Step(f[d + 1], d)
        <5> DEFINE h(d) == IF d = n THEN end ELSE Step(f[d + 1], d)
        <5>1. f = [d \in (b + 1)..n |-> h(d)]
          BY <4>1, <4>2
        <5> HIDE DEF h, Run, b
        <5>2. \A d \in (b + 1)..n : f[d] = h(d)
          BY <5>1
        <5> QED
          BY <5>2 DEF h
      <4> HIDE DEF b
      <4>4. \A d \in b..n : g[d] = IF d = n THEN end ELSE Step(g[d + 1], d)
        <5> HIDE DEF Run
        <5> SUFFICES ASSUME NEW d \in b..n
                     PROVE  g[d] = IF d = n THEN end ELSE Step(g[d + 1], d)
          OBVIOUS
        <5>1. d # n => d + 1 \in b..n /\ d + 1 # b /\ g[d + 1] = f[d + 1]
          BY <4>2
        <5>2. CASE d = b
          BY <4>2, <5>1, <5>2
        <5>3. CASE d # b
          <6>1. d \in (b + 1)..n
            BY <4>2, <5>3
          <6> QED
            BY <4>3, <5>1, <5>3, <6>1
        <5> QED
          BY <5>2, <5>3
      <4>5. Run(g, k + 1)
        <5> DEFINE h(d) == IF d = n THEN end ELSE Step(g[d + 1], d)
        <5>1. g = [d \in b..n |-> g[d]] /\ \A d \in b..n : g[d] = h(d)
          BY <4>4
        <5> HIDE DEF g, h
        <5>2. g = [d \in b..n |-> h(d)]
          BY <5>1
        <5> QED
          BY <5>2 DEF h, b
      <4> HIDE DEF Run, g
      <4> QED
        BY <4>2, <4>5
    <3> HIDE DEF K, Run
    <3>3. \A k \in 0..n : k \in K
      BY <3>1, <3>2, SetInduction
    <3> QED
      BY <3>3 DEF K
  <2>3. P(after)
    <3>1. \E f : P(f)
      BY <2>2
    <3> HIDE DEF P
    <3> QED
      BY <2>1, <3>1
  <2>4. after[n] = end /\ \A d \in 0..(n - 1) : after[d] = Step(after[d + 1], d)
    BY <2>3
  <2> QED
    BY <2>4 DEF Step, end
<1> HIDE DEF node, after
<1> HIDE DEF node, after
<1>4. RunsBack(node, after, bucket, ngram)
  BY <1>1, <1>2, <1>3 DEF RunsBack
<1> QED
  BY <1>4
\* The table with one bucket more, and what Hashtable_split makes of it.
Wider(table) ==
  [table EXCEPT !.Phashtable = [b \in 0..table.Buckets |->
                                  IF b < table.Buckets THEN @[b] ELSE InitBucket],
                !.Buckets = @ + 1]

Advanced(table, round, p) ==
  [table EXCEPT !.Phashtable[p] = Trimmed(@),
                !.round = IF p + 1 = Width[round] THEN @ + 1 ELSE @,
                !.p = IF p + 1 = Width[round] THEN 0 ELSE @ + 1]

LEMMA SplitRuns ==
  ASSUME NEW table, Size(table.Phashtable[table.p]) \in Nat
  PROVE  \E moved :
           /\ moved[0] = Wider(table)
           /\ \A d \in 1..Size(table.Phashtable[table.p]) :
                moved[d] = Moved(moved[d - 1], d - 1)
           /\ Split(table) = Advanced(moved[Size(table.Phashtable[table.p])], table.round, table.p)
<1> DEFINE n == Size(table.Phashtable[table.p])
           wider == Wider(table)
           Step(x, d) == Moved(x, d - 1)
           Run(f, k) == f = [d \in 0..k |-> IF d = 0 THEN wider ELSE Step(f[d - 1], d)]
           moved == CHOOSE f : Run(f, n)
<1>1. Split(table) = Advanced(moved[n], table.round, table.p)
  BY DEF Split, Advanced, Wider
<1> HIDE DEF Step, wider
<1>2. \E f : Run(f, n)
  <2> DEFINE K == {k \in 0..n : \E f : Run(f, k)}
  <2>1. 0 \in K
    <3>1. Run([d \in 0..0 |-> wider], 0)
      OBVIOUS
    <3>2. 0 \in 0..n
      OBVIOUS
    <3> HIDE DEF Run
    <3> QED
      BY <3>1, <3>2
  <2>2. ASSUME NEW k \in 0..(n - 1), k \in K PROVE k + 1 \in K
    <3>1. PICK f : Run(f, k)
      BY <2>2
    <3> DEFINE g == [d \in 0..(k + 1) |-> IF d = k + 1 THEN Step(f[k], k + 1) ELSE f[d]]
    <3>2. k \in Nat /\ k + 1 \in 0..n
      OBVIOUS
    <3>3. \A d \in 0..k : f[d] = IF d = 0 THEN wider ELSE Step(f[d - 1], d)
      <4> DEFINE h(d) == IF d = 0 THEN wider ELSE Step(f[d - 1], d)
      <4>1. f = [d \in 0..k |-> h(d)]
        BY <3>1
      <4> HIDE DEF h, Run
      <4>2. \A d \in 0..k : f[d] = h(d)
        BY <4>1
      <4> QED
        BY <4>2 DEF h
    <3>4. \A d \in 0..(k + 1) : g[d] = IF d = 0 THEN wider ELSE Step(g[d - 1], d)
      <4> HIDE DEF Run
      <4> SUFFICES ASSUME NEW d \in 0..(k + 1)
                   PROVE  g[d] = IF d = 0 THEN wider ELSE Step(g[d - 1], d)
        OBVIOUS
      <4>1. d # 0 => d - 1 \in 0..(k + 1) /\ d - 1 # k + 1 /\ g[d - 1] = f[d - 1]
        BY <3>2
      <4>2. CASE d = k + 1
        BY <3>2, <4>1, <4>2
      <4>3. CASE d # k + 1
        <5>1. d \in 0..k
          BY <3>2, <4>3
        <5> QED
          BY <3>3, <4>1, <4>3, <5>1
      <4> QED
        BY <4>2, <4>3
    <3>5. Run(g, k + 1)
      <4> DEFINE h(d) == IF d = 0 THEN wider ELSE Step(g[d - 1], d)
      <4>1. g = [d \in 0..(k + 1) |-> g[d]] /\ \A d \in 0..(k + 1) : g[d] = h(d)
        BY <3>4
      <4> HIDE DEF g, h
      <4>2. g = [d \in 0..(k + 1) |-> h(d)]
        BY <4>1
      <4> QED
        BY <4>2 DEF h
    <3> HIDE DEF Run, g
    <3> QED
      BY <3>2, <3>5
  <2> HIDE DEF K, Run
  <2>3. \A k \in 0..n : k \in K
    BY <2>1, <2>2, SetInduction
  <2> QED
    BY <2>3 DEF K
<1>3. Run(moved, n)
  <2> HIDE DEF Run
  <2> QED
    BY <1>2
<1> HIDE DEF moved
<1>4. moved[0] = wider /\ \A d \in 1..n : moved[d] = Step(moved[d - 1], d)
  BY <1>3
<1> QED
  BY <1>1, <1>4 DEF Step, wider

-----------------------------------------------------------------------------
(***************************************************************************)
(* The paths of the nodes.                                                 *)
(***************************************************************************)
\* The node below one, and the nodes along an n-gram, its bucket included.
Down(q, w) == Append(q, w)
Top(ngram, d) == SubSeq(ngram, 1, d)

LEMMA Downs ==
  /\ \A q \in Seq(Words), w \in Words :
       /\ Down(q, w) \in Seq(Words) /\ Down(q, w) # <<>> /\ Front(Down(q, w)) = q
       /\ Len(Down(q, w)) = Len(q) + 1 /\ Len(q) \in Nat /\ Down(q, w)[Len(q) + 1] = w
       /\ q # <<>> => q \in PathNodes(Down(q, w))
  /\ \A q, r \in Seq(Words), w, k \in Words : Down(q, w) = Down(r, k) => q = r /\ w = k
  /\ \A p \in Seq(Words) : p # <<>> => \E q \in Seq(Words), w \in Words : p = Down(q, w)
<1>1. ASSUME NEW q \in Seq(Words), NEW w \in Words
      PROVE  /\ Down(q, w) \in Seq(Words) /\ Down(q, w) # <<>> /\ Front(Down(q, w)) = q
             /\ Len(Down(q, w)) = Len(q) + 1 /\ Len(q) \in Nat /\ Down(q, w)[Len(q) + 1] = w
             /\ q # <<>> => q \in PathNodes(Down(q, w))
  <2> DEFINE p == Down(q, w)
  <2>1. /\ p \in Seq(Words) /\ p # <<>> /\ Len(p) = Len(q) + 1
        /\ \A d \in 1..Len(q) : p[d] = q[d]
        /\ p[Len(q) + 1] = w
    BY AppendProperties DEF Down
  <2>2. Len(q) \in Nat
    BY LenProperties
  <2> HIDE DEF p
  <2>3. /\ SubSeq(p, 1, Len(q)) \in Seq(Words) /\ Len(SubSeq(p, 1, Len(q))) = Len(q)
        /\ \A d \in 1..Len(q) : SubSeq(p, 1, Len(q))[d] = p[d]
    <3>1. Len(q) \in 0..Len(p)
      BY <2>1, <2>2
    <3> QED
      BY <2>1, <3>1, Prefix
  <2>4. SubSeq(p, 1, Len(q)) = q
    <3>1. \A d \in 1..Len(q) : SubSeq(p, 1, Len(q))[d] = q[d]
      BY <2>1, <2>3
    <3> QED
      BY <2>3, <3>1, SeqEqual
  <2>5. Front(p) = q
    <3>1. Len(p) - 1 = Len(q)
      BY <2>1, <2>2
    <3> QED
      BY <2>4, <3>1 DEF Front
  <2>6. q # <<>> => q \in PathNodes(p)
    <3>1. q # <<>> => Len(q) \in 1..Len(p)
      BY <2>1, <2>2, EmptySeq
    <3> QED
      BY <2>1, <2>4, <3>1, PathOf
  <2> QED
    BY <2>1, <2>2, <2>5, <2>6 DEF p
<1>2. ASSUME NEW q \in Seq(Words), NEW r \in Seq(Words), NEW w \in Words, NEW k \in Words,
             Down(q, w) = Down(r, k)
      PROVE  q = r /\ w = k
  BY <1>2, AppendInjective DEF Down
<1>3. ASSUME NEW p \in Seq(Words), p # <<>>
      PROVE  \E q \in Seq(Words), w \in Words : p = Down(q, w)
  BY <1>3, SequenceEmptyOrAppend DEF Down
<1> QED
  BY <1>1, <1>2, <1>3

LEMMA Tops ==
  ASSUME NEW ngram \in Seq(Words)
  PROVE  /\ Len(ngram) \in Nat
         /\ Top(ngram, 0) = <<>> /\ Top(ngram, Len(ngram)) = ngram
         /\ \A d \in 0..Len(ngram) : Top(ngram, d) \in Seq(Words) /\ Len(Top(ngram, d)) = d
         /\ \A d \in 1..Len(ngram) :
              /\ Top(ngram, d) # <<>> /\ Top(ngram, d) \in PathNodes(ngram)
              /\ ngram[d] \in Words /\ Top(ngram, d) = Down(Top(ngram, d - 1), ngram[d])
         /\ \A q \in PathNodes(ngram) : Len(q) \in 1..Len(ngram) /\ q = Top(ngram, Len(q))
         /\ ngram # <<>> => Len(ngram) # 0
<1> DEFINE n == Len(ngram)
<1>1. n \in Nat /\ \A d \in 1..n : ngram[d] \in Words
  BY LenProperties, ElementOfSeq
<1>2. ASSUME NEW d \in 0..n
      PROVE  /\ Top(ngram, d) \in Seq(Words) /\ Len(Top(ngram, d)) = d
             /\ \A x \in 1..d : Top(ngram, d)[x] = ngram[x]
  BY Prefix DEF Top
<1>3. Top(ngram, n) = ngram
  BY SubSeqFull DEF Top
<1>4. Top(ngram, 0) = <<>>
  <2>1. 0 \in 0..n
    BY <1>1
  <2>2. Top(ngram, 0) \in Seq(Words) /\ Len(Top(ngram, 0)) = 0
    BY <1>2, <2>1
  <2> QED
    BY <2>2, EmptySeq
<1>5. ASSUME NEW d \in 1..n
      PROVE  /\ Top(ngram, d) # <<>> /\ Top(ngram, d) \in PathNodes(ngram)
             /\ ngram[d] \in Words /\ Top(ngram, d) = Down(Top(ngram, d - 1), ngram[d])
  <2>1. d \in 0..n /\ d - 1 \in 0..n /\ d \in Nat /\ d # 0 /\ (d - 1) + 1 = d
    BY <1>1
  <2>2. Top(ngram, d) # <<>> /\ Top(ngram, d) \in PathNodes(ngram) /\ ngram[d] \in Words
    BY <1>1, <1>2, <2>1, PathOf, EmptySeq DEF Top
  <2> DEFINE p == Top(ngram, d)
             q == Top(ngram, d - 1)
             r == Down(q, ngram[d])
  <2>3. p \in Seq(Words) /\ Len(p) = d /\ \A x \in 1..d : p[x] = ngram[x]
    BY <1>2, <2>1
  <2>4. q \in Seq(Words) /\ Len(q) = d - 1 /\ \A x \in 1..(d - 1) : q[x] = ngram[x]
    BY <1>2, <2>1
  <2>5. /\ r \in Seq(Words) /\ Len(r) = Len(q) + 1
        /\ \A x \in 1..Len(q) : r[x] = q[x]
        /\ r[Len(q) + 1] = ngram[d]
    BY <2>2, <2>4, AppendProperties DEF Down
  <2> HIDE DEF p, q, r, n
  <2>6. \A x \in 1..d : x = d \/ x \in 1..(d - 1)
    BY <2>1
  <2>7. \A x \in 1..d : p[x] = r[x]
    BY <2>1, <2>3, <2>4, <2>5, <2>6
  <2>8. p = r
    BY <2>1, <2>3, <2>4, <2>5, <2>7, SeqEqual
  <2> QED
    BY <2>2, <2>8 DEF p, q, r
<1>6. \A q \in PathNodes(ngram) : Len(q) \in 1..n /\ q = Top(ngram, Len(q))
  BY PathOf DEF Top
<1>7. ngram # <<>> => n # 0
  BY EmptySeq
<1> QED
  BY <1>1, <1>2, <1>3, <1>4, <1>5, <1>6, <1>7

\* The words on the way to a node are nodes.
Closed(t) ==
  /\ \A p \in DOMAIN t : p \in Seq(Words) /\ p # <<>>
  /\ \A q \in Seq(Words), w \in Words :
       q # <<>> /\ Down(q, w) \in DOMAIN t => q \in DOMAIN t

LEMMA TrieIsClosed ==
  ASSUME NEW t, NEW v, IsTrie(t, Words, v)
  PROVE  Closed(t)
<1>1. \A p \in DOMAIN t : p \in Seq(Words) /\ p # <<>> /\ PathNodes(p) \subseteq DOMAIN t
  BY DEF IsTrie
<1> QED
  BY <1>1, Downs DEF Closed

-----------------------------------------------------------------------------
(***************************************************************************)
(* The arrays that hold a trie.  N gives the node in the arrays for every  *)
(* path of the trie.                                                       *)
(***************************************************************************)
\* The children of x, the node at path q, are those that the trie has below q with
\* a word of Ws: a bucket holds the words that the hash functions send to it.
ChildrenFit(x, q, Ws, N, t) ==
  /\ Tidy(x)
  /\ \A w \in Ws : Has(x, w) <=> Down(q, w) \in DOMAIN t
  /\ \A k \in Kids(x) : k.word \in Ws /\ k = N[Down(q, k.word)]

NodeFits(x, p, N, t) ==
  /\ ChildrenFit(x, p, Words, N, t)
  /\ Tight(x) /\ x.deleted = FALSE /\ Shown(x) = Shown(t[p])

\* A deleted slot where a word of the bucket is found has nothing in it.
BucketFits(x, Ws, N, t) ==
  /\ ChildrenFit(x, <<>>, Ws, N, t)
  /\ \A k \in Dead(x) : k.word \in Ws => Size(k) = 0 /\ k.is_final = FALSE

NodesFit(N, t) == \A p \in DOMAIN t : NodeFits(N[p], p, N, t)

\* What the code reads of a node in order.
LEMMA FitsIsTidy ==
  ASSUME NEW N, NEW t, NEW x, NEW q, NEW Ws, ChildrenFit(x, q, Ws, N, t)
  PROVE  Tidy(x)
BY DEF ChildrenFit

\* The child with a word, if the trie has one.
LEMMA FitChild ==
  ASSUME NEW N, NEW t, NEW x, NEW q, NEW Ws, Ws \subseteq Words,
         ChildrenFit(x, q, Ws, N, t), NEW w \in Ws
  PROVE  /\ Down(q, w) \in DOMAIN t => Has(x, w) /\ Child(x, w) = N[Down(q, w)]
         /\ Down(q, w) \notin DOMAIN t => ~Has(x, w)
<1>1. Tidy(x) /\ w \in Words /\ (Has(x, w) <=> Down(q, w) \in DOMAIN t)
  BY DEF ChildrenFit
<1>2. ASSUME Has(x, w) PROVE Child(x, w) = N[Down(q, w)]
  <2>1. Child(x, w) \in Kids(x) /\ Child(x, w).word = w
    BY <1>1, <1>2, ChildIs
  <2> QED
    BY <2>1 DEF ChildrenFit
<1> QED
  BY <1>1, <1>2

\* Nothing is found in a node without a slot.
LEMMA EmptySearch ==
  ASSUME NEW x, Size(x) = 0, NEW w \in Nat
  PROVE  BinarySearch(x, w).found = FALSE
<1>1. Slots(x) = {}
  BY DEF Slots
<1>2. Ordered(x) /\ Place(x, w, 0)
  BY <1>1 DEF Ordered, Place
<1>3. BinarySearch(x, w) =
        [position |-> 0, found |-> 0 \in Slots(x) /\ x.children[0].word = w]
  BY <1>2, SearchPlace
<1> DEFINE ok == 0 \in Slots(x) /\ x.children[0].word = w
<1>4. ok = FALSE
  BY <1>1
<1>5. BinarySearch(x, w) = [position |-> 0, found |-> ok]
  BY <1>3
<1> HIDE DEF ok
<1> QED
  BY <1>4, <1>5

\* A step of a walk.
IsStop(r) == r = [found |-> r.found, node |-> r.node] /\ r.found \in BOOLEAN

Stepped(above, r, w, first, d) ==
  /\ IsStop(r)
  /\ above.found = FALSE => r.found = FALSE
  /\ above.found = TRUE /\ Size(above.node) = 0 => r.found = FALSE
  /\ above.found = TRUE /\ Tidy(above.node) /\ Has(above.node, w) =>
       r.found = TRUE /\ r.node = Child(above.node, w)
  /\ above.found = TRUE /\ Tidy(above.node) /\ ~Has(above.node, w) /\ r.found = TRUE =>
       d < first /\ r.node \in Dead(above.node) /\ r.node.word = w

LEMMA WalksStep ==
  ASSUME NEW above, IsStop(above), NEW w \in Words, NEW first, NEW d,
         NEW r, r = Walks(above, w, first, d)
  PROVE  Stepped(above, r, w, first, d)
<1> DEFINE x == above.node
           br == BinarySearch(x, w)
           k == Child(x, w)
           ok == d < first \/ ~k.deleted
<1>1. r = IF ~above.found \/ ~br.found THEN [above EXCEPT !.found = FALSE]
          ELSE [found |-> ok, node |-> k]
  BY DEF Walks, Child
<1>2. /\ ok \in BOOLEAN
      /\ [above EXCEPT !.found = FALSE] = [found |-> FALSE, node |-> above.node]
  <2>1. ok \in BOOLEAN
    OBVIOUS
  <2>2. above = [found |-> above.found, node |-> above.node]
    BY DEF IsStop
  <2>3. [above EXCEPT !.found = FALSE] = [found |-> FALSE, node |-> above.node]
    <3> DEFINE no == FALSE
    <3> HIDE DEF no
    <3>1. [above EXCEPT !.found = no] = [found |-> no, node |-> above.node]
      BY <2>2
    <3> QED
      BY <3>1 DEF no
  <2> QED
    BY <2>1, <2>3
<1> HIDE DEF ok, br, k, x
<1>3. IsStop(r)
  <2>1. CASE ~above.found \/ ~br.found
    <3>1. r = [found |-> FALSE, node |-> above.node]
      BY <1>1, <1>2, <2>1
    <3> QED
      BY <3>1 DEF IsStop
  <2>2. CASE ~(~above.found \/ ~br.found)
    <3>1. r = [found |-> ok, node |-> k]
      BY <1>1, <2>2
    <3>2. r.found = ok /\ r.node = k
      BY <3>1
    <3> QED
      BY <1>2, <3>1, <3>2 DEF IsStop
  <2> QED
    BY <2>1, <2>2
<1>4. ~above.found \/ ~br.found => r.found = FALSE
  BY <1>1, <1>2
<1>5. above.found /\ br.found => r.found = ok /\ r.node = k
  BY <1>1
<1>6. Size(x) = 0 => ~br.found
  BY EmptySearch, ArraysAssumption DEF br
<1>7. ASSUME above.found = TRUE, Tidy(x), Has(x, w)
      PROVE  r.found = TRUE /\ r.node = k
  <2>1. br.found
    BY <1>7, HasChild DEF br
  <2>2. k.deleted = FALSE
    BY <1>7, ChildAlive DEF k
  <2>3. ok
    BY <2>2 DEF ok
  <2> QED
    BY <1>2, <1>5, <1>7, <2>1, <2>3
<1>8. ASSUME above.found = TRUE, Tidy(x), ~Has(x, w), r.found = TRUE
      PROVE  d < first /\ r.node \in Dead(x) /\ r.node.word = w
  <2>1. br.found /\ ok /\ r.node = k
    BY <1>4, <1>5, <1>8
  <2>2. k.deleted
    BY <1>8, <2>1, HasChild DEF br, k
  <2>3. k \in Dead(x) /\ k.word = w
    BY <1>8, <2>1, <2>2, HasChild DEF br, k
  <2> QED
    BY <2>1, <2>2, <2>3 DEF ok
<1> QED
  BY <1>3, <1>4, <1>6, <1>7, <1>8 DEF x, k, Stepped

\* What a walk finds: the node of the trie; the deletes also find a deleted slot
\* of the bucket x.
WalkedTo(r, x, words, first, N, t) ==
  /\ r.found \in BOOLEAN
  /\ words \in DOMAIN t => r.found = TRUE /\ r.node = N[words]
  /\ words \notin DOMAIN t /\ r.found = TRUE =>
       /\ first = 2 /\ Len(words) = 1
       /\ r.node \in Dead(x) /\ r.node.word = words[1]

LEMMA WalkFinds ==
  ASSUME NEW N, NEW t, NEW x, NEW Ws, Ws \subseteq Words,
         BucketFits(x, Ws, N, t), NodesFit(N, t), Closed(t),
         NEW words \in Seq(Words), words # <<>>, words[1] \in Ws, NEW first \in 1..2,
         NEW r, r = Walked(x, words, first)
  PROVE  WalkedTo(r, x, words, first, N, t)
<1> DEFINE n == Len(words)
<1>1. /\ n \in Nat /\ n # 0 /\ Top(words, 0) = <<>> /\ Top(words, n) = words
      /\ \A d \in 1..n :
           /\ Top(words, d) # <<>> /\ words[d] \in Words
           /\ Top(words, d) = Down(Top(words, d - 1), words[d])
      /\ \A d \in 0..n : Top(words, d) \in Seq(Words)
  BY Tops
<1>2. PICK at : /\ at[0] = [found |-> TRUE, node |-> x]
                /\ \A d \in 1..n : at[d] = Walks(at[d - 1], words[d], first, d)
                /\ Walked(x, words, first) = at[n]
  BY <1>1, WalkedRuns
<1>3. IsStop(at[0]) /\ at[0].found = TRUE /\ at[0].node = x
  BY <1>2 DEF IsStop
<1>4. Tidy(x) /\ \A k \in Dead(x) : k.word \in Ws => Size(k) = 0
  BY DEF BucketFits, ChildrenFit
<1> HIDE DEF n
<1> DEFINE Right(d) ==
             /\ IsStop(at[d])
             /\ Top(words, d) \in DOMAIN t => at[d].found = TRUE /\ at[d].node = N[Top(words, d)]
             /\ Top(words, d) \notin DOMAIN t /\ at[d].found = TRUE =>
                  /\ first = 2 /\ d = 1
                  /\ at[d].node \in Dead(x) /\ at[d].node.word = words[1]
<1>5. Right(1)
  <2>1. 1 \in 1..n /\ 1 - 1 = 0
    BY <1>1
  <2>2. at[1] = Walks(at[0], words[1], first, 1) /\ Top(words, 1) = Down(<<>>, words[1])
    BY <1>1, <1>2, <2>1
  <2>3. ChildrenFit(x, <<>>, Ws, N, t)
    BY DEF BucketFits
  <2>4. /\ Top(words, 1) \in DOMAIN t =>
             Has(x, words[1]) /\ Child(x, words[1]) = N[Top(words, 1)]
        /\ Top(words, 1) \notin DOMAIN t => ~Has(x, words[1])
    BY <2>2, <2>3, FitChild
  <2>5. words[1] \in Words
    BY <1>1, <2>1
  <2>10. Stepped(at[0], at[1], words[1], first, 1)
    BY <1>3, <2>2, <2>5, WalksStep
  <2>6. IsStop(at[1])
    BY <2>10 DEF Stepped
  <2>7. Has(x, words[1]) => at[1].found = TRUE /\ at[1].node = Child(x, words[1])
    BY <1>3, <1>4, <2>10 DEF Stepped
  <2>8. ~Has(x, words[1]) /\ at[1].found = TRUE =>
          1 < first /\ at[1].node \in Dead(x) /\ at[1].node.word = words[1]
    BY <1>3, <1>4, <2>10 DEF Stepped
  <2>9. 1 < first => first = 2
    OBVIOUS
  <2> QED
    BY <2>4, <2>6, <2>7, <2>8, <2>9
<1>6. ASSUME NEW d \in 1..(n - 1), Right(d) PROVE Right(d + 1)
  <2>1. d + 1 \in 1..n /\ (d + 1) - 1 = d /\ d \in 1..n /\ d \in 0..n
    BY <1>1
  <2> DEFINE q == Top(words, d)
             w == words[d + 1]
  <2>2. at[d + 1] = Walks(at[d], w, first, d + 1) /\ Top(words, d + 1) = Down(q, w)
        /\ w \in Words /\ q \in Seq(Words) /\ q # <<>>
    <3>1. \A e \in 1..n : at[e] = Walks(at[e - 1], words[e], first, e)
      BY <1>2
    <3> QED
      BY <1>1, <2>1, <3>1
  <2> HIDE DEF q, w
  <2>10. IsStop(at[d])
    BY <1>6
  <2>11. Stepped(at[d], at[d + 1], w, first, d + 1)
    BY <2>2, <2>10, WalksStep
  <2>3. IsStop(at[d]) /\ IsStop(at[d + 1])
    BY <2>10, <2>11 DEF Stepped
  <2>4. CASE q \in DOMAIN t
    <3>1. at[d].found = TRUE /\ at[d].node = N[q]
      BY <1>6, <2>4 DEF q
    <3>2. ChildrenFit(N[q], q, Words, N, t)
      BY <2>4 DEF NodesFit, NodeFits
    <3>3. Tidy(N[q])
      BY <3>2, FitsIsTidy
    <3>4. Down(q, w) \in DOMAIN t => Has(N[q], w) /\ Child(N[q], w) = N[Down(q, w)]
      BY <2>2, <3>2, FitChild
    <3>5. Down(q, w) \notin DOMAIN t => ~Has(N[q], w)
      BY <2>2, <3>2, FitChild
    <3>6. Has(N[q], w) => at[d + 1].found = TRUE /\ at[d + 1].node = Child(N[q], w)
      BY <2>11, <3>1, <3>3 DEF Stepped
    <3>7. ~Has(N[q], w) /\ at[d + 1].found = TRUE => d + 1 < first
      BY <2>11, <3>1, <3>3 DEF Stepped
    <3>8. ~(d + 1 < first)
      OBVIOUS
    <3> QED
      BY <2>2, <2>3, <3>4, <3>5, <3>6, <3>7, <3>8
  <2>5. CASE q \notin DOMAIN t
    <3>1. Down(q, w) \notin DOMAIN t
      BY <2>2, <2>5 DEF Closed
    <3>2. at[d + 1].found = FALSE
      <4>1. CASE at[d].found = FALSE
        BY <2>11, <4>1 DEF Stepped
      <4>2. CASE at[d].found = TRUE
        <5>1. at[d].node \in Dead(x) /\ at[d].node.word = words[1]
          BY <1>6, <2>5, <4>2 DEF q
        <5>2. Size(at[d].node) = 0
          BY <1>4, <5>1
        <5> QED
          BY <2>11, <4>2, <5>2 DEF Stepped
      <4> QED
        BY <2>3, <4>1, <4>2 DEF IsStop
    <3> QED
      BY <2>2, <2>3, <3>1, <3>2
  <2> QED
    BY <2>4, <2>5
<1>7. Right(n)
  <2> DEFINE K == {d \in 0..(n - 1) : Right(d + 1)}
  <2>1. 0 \in K
    BY <1>1, <1>5
  <2>2. ASSUME NEW d \in 0..((n - 1) - 1), d \in K PROVE d + 1 \in K
    <3>1. d + 1 \in 1..(n - 1) /\ d + 1 \in 0..(n - 1) /\ Right(d + 1)
      BY <1>1, <2>2
    <3> HIDE DEF Right
    <3>2. Right((d + 1) + 1)
      BY <1>6, <3>1
    <3> QED
      BY <3>1, <3>2
  <2> HIDE DEF K, Right
  <2>3. n - 1 \in Nat /\ n - 1 \in 0..(n - 1) /\ (n - 1) + 1 = n
    BY <1>1
  <2>4. n - 1 \in K
    BY <2>1, <2>2, <2>3, SetInduction
  <2> QED
    BY <2>3, <2>4 DEF K
<1> QED
  BY <1>1, <1>2, <1>7 DEF IsStop, n, WalkedTo

-----------------------------------------------------------------------------
(***************************************************************************)
(* An n-gram inserted, or one of its nodes changed.                        *)
(***************************************************************************)
\* z is what the operations work on d words down an n-gram: the node of the trie,
\* or a new one.
Stands(z, d, Ws, ngram, N, t) ==
  /\ ChildrenFit(z, Top(ngram, d), IF d = 0 THEN Ws ELSE Words, N, t)
  /\ d # 0 =>
       /\ Tight(z) /\ z.deleted = FALSE /\ z.word = ngram[d]
       /\ Top(ngram, d) \in DOMAIN t =>
            z = N[Top(ngram, d)] /\ Shown(z) = Shown(t[Top(ngram, d)])
       /\ Top(ngram, d) \notin DOMAIN t => Shown(z) = Shown(NewNode)

\* One step down.
LEMMA StandsBelow ==
  ASSUME NEW N, NEW t, NEW Ws, Ws \subseteq Words, NodesFit(N, t), Closed(t),
         NEW ngram \in Seq(Words), NEW d \in 1..Len(ngram), ngram[1] \in Ws,
         NEW z, Stands(z, d - 1, Ws, ngram, N, t),
         NEW y, \/ y = Child(AddChild(z, NodeInit(ngram[d])), ngram[d])
                \/ y = Child(z, ngram[d]) /\ Top(ngram, d) \in DOMAIN t
  PROVE  Stands(y, d, Ws, ngram, N, t)
<1> DEFINE q == Top(ngram, d - 1)
           p == Top(ngram, d)
           w == ngram[d]
           V == IF d - 1 = 0 THEN Ws ELSE Words
<1>1. /\ p = Down(q, w) /\ w \in Words /\ p \in Seq(Words) /\ p # <<>> /\ d # 0
      /\ q \in Seq(Words)
  <2>1. d \in 0..Len(ngram) /\ d - 1 \in 0..Len(ngram) /\ d # 0
    OBVIOUS
  <2> QED
    BY <2>1, Tops
<1>2. w \in V /\ V \subseteq Words
  <2>1. d - 1 = 0 => d = 1
    OBVIOUS
  <2> QED
    BY <1>1, <2>1
<1>3. ChildrenFit(z, q, V, N, t)
  BY DEF Stands
<1>4. Tidy(z)
  BY <1>3, FitsIsTidy
<1>5. y = Child(AddChild(z, NodeInit(w)), w) \/ (y = Child(z, w) /\ p \in DOMAIN t)
  OBVIOUS
<1> HIDE DEF q, p, w, V
<1>6. /\ Tidy(NodeInit(w)) /\ Tight(NodeInit(w)) /\ Kids(NodeInit(w)) = {}
      /\ NodeInit(w).word = w /\ NodeInit(w).deleted = FALSE
      /\ Shown(NodeInit(w)) = Shown(NewNode)
  BY FreshNodes
<1>7. CASE p \in DOMAIN t
  <2>1. Has(z, w) /\ Child(z, w) = N[p]
    BY <1>1, <1>2, <1>3, <1>7, FitChild
  <2>2. Child(AddChild(z, NodeInit(w)), w) = Child(z, w)
    BY <1>1, <1>4, <1>6, <2>1, AddedChild
  <2>3. y = N[p] /\ y = Child(z, w)
    BY <1>5, <2>1, <2>2
  <2>4. y.word = w
    BY <1>1, <1>4, <2>1, <2>3, ChildIs
  <2>5. NodeFits(y, p, N, t)
    BY <1>7, <2>3 DEF NodesFit
  <2>6. ChildrenFit(y, p, Words, N, t)
    BY <2>5 DEF NodeFits
  <2>7. Tight(y) /\ y.deleted = FALSE /\ Shown(y) = Shown(t[p])
    BY <2>5 DEF NodeFits
  <2> QED
    BY <1>1, <1>7, <2>3, <2>4, <2>6, <2>7 DEF Stands, p, w
<1>8. CASE p \notin DOMAIN t
  <2>1. ~Has(z, w)
    BY <1>1, <1>2, <1>3, <1>8, FitChild
  <2>2. Child(AddChild(z, NodeInit(w)), w) = NodeInit(w)
    BY <1>1, <1>4, <1>6, <2>1, AddedChild
  <2>3. y = NodeInit(w)
    BY <1>5, <1>8, <2>2
  <2>4. \A k \in Words : ~Has(y, k) /\ Down(p, k) \notin DOMAIN t
    BY <1>1, <1>6, <1>8, <2>3 DEF Closed, Has
  <2>5. ChildrenFit(y, p, Words, N, t)
    BY <1>6, <2>3, <2>4 DEF ChildrenFit
  <2> QED
    BY <1>1, <1>6, <1>8, <2>3, <2>5 DEF Stands, p, w
<1> QED
  BY <1>7, <1>8

\* All the way down.
LEMMA StandsAlong ==
  ASSUME NEW N, NEW t, NEW Ws, Ws \subseteq Words, NodesFit(N, t), Closed(t),
         NEW ngram \in Seq(Words), ngram[1] \in Ws,
         NEW x, ChildrenFit(x, <<>>, Ws, N, t), NEW D, D[0] = x,
         \A d \in 1..Len(ngram) :
           \/ D[d] = Child(AddChild(D[d - 1], NodeInit(ngram[d])), ngram[d])
           \/ D[d] = Child(D[d - 1], ngram[d]) /\ Top(ngram, d) \in DOMAIN t
  PROVE  \A d \in 0..Len(ngram) : Stands(D[d], d, Ws, ngram, N, t)
<1> DEFINE n == Len(ngram)
           K == {d \in 0..n : Stands(D[d], d, Ws, ngram, N, t)}
<1>1. n \in Nat /\ Top(ngram, 0) = <<>>
  BY Tops
<1>2. 0 \in K
  BY <1>1 DEF Stands
<1>3. ASSUME NEW d \in 0..(n - 1), d \in K PROVE d + 1 \in K
  <2>1. d + 1 \in 1..n /\ d + 1 \in 0..n /\ (d + 1) - 1 = d
    BY <1>1
  <2>2. Stands(D[d], d, Ws, ngram, N, t)
    BY <1>3
  <2>3. \/ D[d + 1] = Child(AddChild(D[d], NodeInit(ngram[d + 1])), ngram[d + 1])
        \/ D[d + 1] = Child(D[d], ngram[d + 1]) /\ Top(ngram, d + 1) \in DOMAIN t
    <3> HIDE DEF n
    <3>1. \A e \in 1..n :
            \/ D[e] = Child(AddChild(D[e - 1], NodeInit(ngram[e])), ngram[e])
            \/ D[e] = Child(D[e - 1], ngram[e]) /\ Top(ngram, e) \in DOMAIN t
      BY DEF n
    <3> QED
      BY <2>1, <3>1
  <2>4. Stands(D[d + 1], d + 1, Ws, ngram, N, t)
    <3> DEFINE e == d + 1
    <3>1. e \in 1..n /\ Stands(D[d], e - 1, Ws, ngram, N, t)
      BY <2>1, <2>2
    <3>2. \/ D[e] = Child(AddChild(D[d], NodeInit(ngram[e])), ngram[e])
          \/ D[e] = Child(D[d], ngram[e]) /\ Top(ngram, e) \in DOMAIN t
      BY <2>3
    <3> HIDE DEF e
    <3>3. Stands(D[e], e, Ws, ngram, N, t)
      BY <3>1, <3>2, StandsBelow
    <3> QED
      BY <3>3 DEF e
  <2> QED
    BY <2>1, <2>4
<1> HIDE DEF K
<1>4. \A d \in 0..n : d \in K
  BY <1>1, <1>2, <1>3, SetInduction
<1> QED
  BY <1>4 DEF K

-----------------------------------------------------------------------------
(***************************************************************************)
(* The nodes along an n-gram replaced.                                     *)
(***************************************************************************)
\* Which nodes an n-gram goes through.
LEMMA OnPath ==
  ASSUME NEW ngram \in Seq(Words), NEW q \in Seq(Words), NEW w \in Words,
         Down(q, w) \in PathNodes(ngram)
  PROVE  /\ Len(q) \in 0..(Len(ngram) - 1) /\ q = Top(ngram, Len(q))
         /\ w = ngram[Len(q) + 1]
         /\ q # <<>> => q \in PathNodes(ngram)
<1> DEFINE p == Down(q, w)
           d == Len(p)
<1>1. /\ d = Len(q) + 1 /\ Len(q) \in Nat /\ p \in Seq(Words)
      /\ q # <<>> => q \in PathNodes(p)
  BY Downs
<1>2. Len(ngram) \in Nat /\ d \in 1..Len(ngram) /\ p = Top(ngram, d)
  BY Tops
<1>3. PathNodes(p) \subseteq PathNodes(ngram)
  BY PathsNest
<1>4. /\ p = Down(Top(ngram, d - 1), ngram[d]) /\ ngram[d] \in Words
      /\ Top(ngram, d - 1) \in Seq(Words)
  <2>1. d - 1 \in 0..Len(ngram)
    BY <1>2
  <2> HIDE DEF d, p
  <2> QED
    BY <1>2, <2>1, Tops
<1>5. q = Top(ngram, d - 1) /\ w = ngram[d]
  <2> DEFINE r == Top(ngram, d - 1)
             k == ngram[d]
  <2>1. Down(q, w) = Down(r, k) /\ k \in Words /\ r \in Seq(Words)
    BY <1>4
  <2> HIDE DEF r, k
  <2>2. q = r /\ w = k
    BY <2>1, Downs
  <2> QED
    BY <2>2 DEF r, k
<1> HIDE DEF d, p
<1>6. d - 1 = Len(q) /\ Len(q) \in 0..(Len(ngram) - 1)
  BY <1>1, <1>2
<1> QED
  BY <1>1, <1>3, <1>5, <1>6

\* The trie s differs from t only at the nodes along an n-gram.
SameOff(t, s, ngram) ==
  \A p \in Seq(Words) : p \notin PathNodes(ngram) =>
    /\ p \in DOMAIN s <=> p \in DOMAIN t
    /\ p \in DOMAIN t => Shown(s[p]) = Shown(t[p])

\* The nodes U are to the trie s what the nodes D along an n-gram were to t.
Renews(U, d, s, ngram) ==
  /\ Tidy(U[d])
  /\ d # 0 => /\ Tight(U[d]) /\ U[d].deleted = FALSE /\ U[d].word = ngram[d]
              /\ Shown(U[d]) = Shown(s[Top(ngram, d)])

Rebuilds(U, D, s, ngram) ==
  /\ \A d \in 0..Len(ngram) : (d = 0 \/ Top(ngram, d) \in DOMAIN s) => Renews(U, d, s, ngram)
  /\ \A d \in 0..(Len(ngram) - 1) : (d = 0 \/ Top(ngram, d) \in DOMAIN s) =>
       Kids(U[d]) = Others(D[d], ngram[d + 1])
                      \union (IF Top(ngram, d + 1) \in DOMAIN s THEN {U[d + 1]} ELSE {})
  /\ Top(ngram, Len(ngram)) \in DOMAIN s => Kids(U[Len(ngram)]) = Kids(D[Len(ngram)])

\* The nodes of the trie, those along the n-gram replaced.
Renewed(N, U, ngram) ==
  [p \in Seq(Words) |-> IF p \in PathNodes(ngram) THEN U[Len(p)] ELSE N[p]]

\* A node away from the n-gram keeps its children.
LEMMA KeepsChildren ==
  ASSUME NEW N, NEW U, NEW t, NEW s, NEW ngram \in Seq(Words), SameOff(t, s, ngram),
         NEW q \in Seq(Words), NEW Ws, Ws \subseteq Words,
         \A w \in Ws : Down(q, w) \notin PathNodes(ngram),
         NEW x, ChildrenFit(x, q, Ws, N, t)
  PROVE  ChildrenFit(x, q, Ws, Renewed(N, U, ngram), s)
<1>1. Tidy(x)
  BY FitsIsTidy
<1>2. ASSUME NEW w \in Ws
      PROVE  /\ Down(q, w) \in DOMAIN s <=> Down(q, w) \in DOMAIN t
             /\ Renewed(N, U, ngram)[Down(q, w)] = N[Down(q, w)]
  <2>1. Down(q, w) \in Seq(Words) /\ Down(q, w) \notin PathNodes(ngram)
    BY Downs
  <2> QED
    BY <2>1 DEF SameOff, Renewed
<1>3. \A w \in Ws : Has(x, w) <=> Down(q, w) \in DOMAIN t
  BY DEF ChildrenFit
<1>4. \A k \in Kids(x) : k.word \in Ws /\ k = N[Down(q, k.word)]
  BY DEF ChildrenFit
<1>5. \A k \in Kids(x) : k.word \in Ws /\ k = Renewed(N, U, ngram)[Down(q, k.word)]
  BY <1>2, <1>4
<1>6. \A w \in Ws : Has(x, w) <=> Down(q, w) \in DOMAIN s
  BY <1>2, <1>3
<1> QED
  BY <1>1, <1>5, <1>6 DEF ChildrenFit

\* The node d words down the n-gram has the right children.
LEMMA RebuiltChildren ==
  ASSUME NEW N, NEW U, NEW D, NEW t, NEW s, NEW ngram \in Seq(Words),
         SameOff(t, s, ngram), Rebuilds(U, D, s, ngram), NEW d \in 0..(Len(ngram) - 1),
         NEW Ws, Ws \subseteq Words, ngram[d + 1] \in Ws,
         ChildrenFit(D[d], Top(ngram, d), Ws, N, t),
         d = 0 \/ Top(ngram, d) \in DOMAIN s
  PROVE  ChildrenFit(U[d], Top(ngram, d), Ws, Renewed(N, U, ngram), s)
<1> DEFINE q == Top(ngram, d)
           w == ngram[d + 1]
           p == Top(ngram, d + 1)
           M == Renewed(N, U, ngram)
<1>1. /\ Len(ngram) \in Nat /\ q \in Seq(Words) /\ p \in Seq(Words) /\ p \in PathNodes(ngram)
      /\ p = Down(q, w) /\ w \in Words /\ Len(p) = d + 1 /\ Len(q) = d
  <2>1. Len(ngram) \in Nat
    BY Tops
  <2>2. d \in 0..Len(ngram) /\ d + 1 \in 1..Len(ngram) /\ d + 1 \in 0..Len(ngram)
        /\ (d + 1) - 1 = d
    BY <2>1
  <2> QED
    BY <2>1, <2>2, Tops
<1>2. M[p] = U[d + 1]
  BY <1>1 DEF Renewed
<1>3. ASSUME NEW k \in Words, k # w
      PROVE  /\ Down(q, k) \in DOMAIN s <=> Down(q, k) \in DOMAIN t
             /\ M[Down(q, k)] = N[Down(q, k)]
  <2>1. Down(q, k) \in Seq(Words)
    BY <1>1, Downs
  <2>2. Down(q, k) \notin PathNodes(ngram)
    BY <1>1, <1>3, OnPath
  <2> QED
    BY <2>1, <2>2 DEF SameOff, Renewed
<1>4. /\ Tidy(D[d])
      /\ \A k \in Ws : Has(D[d], k) <=> Down(q, k) \in DOMAIN t
      /\ \A k \in Kids(D[d]) : k.word \in Ws /\ k = N[Down(q, k.word)]
  BY DEF ChildrenFit
<1>5. Tidy(U[d])
  <2>1. d \in 0..Len(ngram)
    BY <1>1
  <2> QED
    BY <2>1 DEF Rebuilds, Renews
<1>6. Kids(U[d]) = Others(D[d], w) \union (IF p \in DOMAIN s THEN {U[d + 1]} ELSE {})
  BY DEF Rebuilds
<1>7. p \in DOMAIN s => U[d + 1].word = w
  <2>1. d + 1 \in 0..Len(ngram) /\ d + 1 # 0
    BY <1>1
  <2> QED
    BY <2>1 DEF Rebuilds, Renews
<1> HIDE DEF q, p, w, M
<1>8. ASSUME NEW k \in Kids(U[d]) PROVE k.word \in Ws /\ k = M[Down(q, k.word)]
  <2>1. CASE k \in Others(D[d], w)
    <3>1. k \in Kids(D[d]) /\ k.word # w
      BY <2>1 DEF Others
    <3>2. k.word \in Ws /\ k = N[Down(q, k.word)]
      BY <1>4, <3>1
    <3> QED
      BY <1>3, <3>1, <3>2
  <2>2. CASE k \notin Others(D[d], w)
    <3>1. p \in DOMAIN s /\ k = U[d + 1]
      BY <1>6, <2>2
    <3>2. w \in Ws
      BY DEF w
    <3> QED
      BY <1>1, <1>2, <1>7, <3>1, <3>2
  <2> QED
    BY <2>1, <2>2
<1>9. ASSUME NEW k \in Ws PROVE Has(U[d], k) <=> Down(q, k) \in DOMAIN s
  <2>1. CASE k = w
    <3>1. p \in DOMAIN s => Has(U[d], k)
      BY <1>6, <1>7, <2>1 DEF Has
    <3>2. p \notin DOMAIN s => ~Has(U[d], k)
      <4>1. p \notin DOMAIN s => Kids(U[d]) = Others(D[d], w)
        BY <1>6
      <4> QED
        BY <2>1, <4>1 DEF Has, Others
    <3> QED
      BY <1>1, <2>1, <3>1, <3>2
  <2>2. CASE k # w
    <3>1. Has(U[d], k) <=> Has(D[d], k)
      <4>1. \A y \in Kids(U[d]) : y.word = k => y \in Kids(D[d])
        BY <1>6, <1>7, <2>2 DEF Others
      <4>2. \A y \in Kids(D[d]) : y.word = k => y \in Kids(U[d])
        BY <1>6, <2>2 DEF Others
      <4> QED
        BY <4>1, <4>2 DEF Has
    <3> QED
      BY <1>3, <1>4, <2>2, <3>1
  <2> QED
    BY <2>1, <2>2
<1> QED
  BY <1>5, <1>8, <1>9 DEF ChildrenFit, q, M

\* The arrays with the nodes replaced hold the trie s, if the nodes D were those of t.
LEMMA Rebuilt ==
  ASSUME NEW N, NEW U, NEW D, NEW t, NEW s, NEW ngram \in Seq(Words), ngram # <<>>,
         NEW Ws, Ws \subseteq Words, ngram[1] \in Ws,
         NodesFit(N, t), Closed(s), SameOff(t, s, ngram), Rebuilds(U, D, s, ngram),
         \A d \in 0..Len(ngram) : Stands(D[d], d, Ws, ngram, N, t)
  PROVE  /\ NodesFit(Renewed(N, U, ngram), s)
         /\ ChildrenFit(U[0], <<>>, Ws, Renewed(N, U, ngram), s)
<1> DEFINE n == Len(ngram)
           M == Renewed(N, U, ngram)
<1>1. /\ n \in Nat /\ n # 0 /\ Top(ngram, 0) = <<>>
      /\ \A d \in 0..n : Top(ngram, d) \in Seq(Words) /\ Len(Top(ngram, d)) = d
      /\ \A d \in 1..n : Top(ngram, d) \in PathNodes(ngram) /\ ngram[d] \in Words
      /\ \A q \in PathNodes(ngram) : Len(q) \in 1..n /\ q = Top(ngram, Len(q))
  BY Tops
<1>2. ChildrenFit(U[0], <<>>, Ws, M, s)
  <2>1. 0 \in 0..(n - 1) /\ 0 + 1 = 1 /\ 0 \in 0..n
    BY <1>1
  <2>2. ChildrenFit(D[0], Top(ngram, 0), Ws, N, t)
    BY <2>1 DEF Stands
  <2> QED
    BY <1>1, <2>1, <2>2, RebuiltChildren
<1>3. ASSUME NEW d \in 1..n, Top(ngram, d) \in DOMAIN s
      PROVE  NodeFits(U[d], Top(ngram, d), M, s)
  <2>1. d \in 0..n /\ d # 0 /\ d \in Nat
    OBVIOUS
  <2>2. Tidy(U[d]) /\ Tight(U[d]) /\ U[d].deleted = FALSE /\ Shown(U[d]) = Shown(s[Top(ngram, d)])
    BY <1>3, <2>1 DEF Rebuilds, Renews
  <2>3. ChildrenFit(D[d], Top(ngram, d), Words, N, t)
    BY <2>1 DEF Stands
  <2>4. ChildrenFit(U[d], Top(ngram, d), Words, M, s)
    <3>1. CASE d # n
      <4>1. d \in 0..(n - 1) /\ d + 1 \in 1..n
        BY <1>1, <2>1, <3>1
      <4>2. ngram[d + 1] \in Words
        BY <1>1, <4>1
      <4> QED
        BY <1>3, <2>3, <4>1, <4>2, RebuiltChildren
    <3>2. CASE d = n
      <4> DEFINE q == Top(ngram, d)
      <4>1. q \in Seq(Words) /\ Len(q) = n
        BY <1>1, <2>1, <3>2
      <4>2. \A w \in Words : Down(q, w) \notin PathNodes(ngram)
        <5>1. ~(n \in 0..(n - 1))
          BY <1>1
        <5> QED
          BY <4>1, <5>1, OnPath
      <4>3. ChildrenFit(D[d], q, Words, M, s)
        BY <2>3, <4>1, <4>2, KeepsChildren
      <4>4. Kids(U[d]) = Kids(D[d])
        BY <1>3, <3>2 DEF Rebuilds
      <4> QED
        BY <2>2, <4>3, <4>4 DEF ChildrenFit, Has
    <3> QED
      BY <3>1, <3>2
  <2> QED
    BY <2>2, <2>4 DEF NodeFits
<1>4. ASSUME NEW p \in DOMAIN s PROVE NodeFits(M[p], p, M, s)
  <2>1. p \in Seq(Words) /\ p # <<>>
    BY DEF Closed
  <2>2. CASE p \in PathNodes(ngram)
    <3>1. Len(p) \in 1..n /\ p = Top(ngram, Len(p)) /\ M[p] = U[Len(p)]
      BY <1>1, <2>1, <2>2 DEF Renewed
    <3>2. NodeFits(U[Len(p)], Top(ngram, Len(p)), M, s)
      BY <1>3, <3>1
    <3> QED
      BY <3>1, <3>2
  <2>3. CASE p \notin PathNodes(ngram)
    <3>1. M[p] = N[p] /\ p \in DOMAIN t /\ Shown(s[p]) = Shown(t[p])
      BY <2>1, <2>3 DEF Renewed, SameOff
    <3>2. NodeFits(N[p], p, N, t)
      BY <3>1 DEF NodesFit
    <3>3. \A w \in Words : Down(p, w) \notin PathNodes(ngram)
      BY <2>1, <2>3, OnPath
    <3>4. ChildrenFit(N[p], p, Words, N, t)
      BY <3>2 DEF NodeFits
    <3>5. ChildrenFit(N[p], p, Words, M, s)
      BY <2>1, <3>3, <3>4, KeepsChildren
    <3> QED
      BY <3>1, <3>2, <3>5 DEF NodeFits
  <2> QED
    BY <2>2, <2>3
<1> QED
  BY <1>2, <1>4 DEF NodesFit

\* A bucket that the n-gram is not in.
LEMMA OtherBucket ==
  ASSUME NEW N, NEW U, NEW t, NEW s, NEW ngram \in Seq(Words), ngram # <<>>,
         SameOff(t, s, ngram),
         NEW Ws, Ws \subseteq Words, ngram[1] \notin Ws,
         NEW x, BucketFits(x, Ws, N, t)
  PROVE  BucketFits(x, Ws, Renewed(N, U, ngram), s)
<1>1. ASSUME NEW w \in Ws PROVE Down(<<>>, w) \notin PathNodes(ngram)
  <2>1. <<>> \in Seq(Words) /\ Len(<<>>) = 0
    OBVIOUS
  <2>2. w # ngram[Len(<<>>) + 1]
    BY <2>1
  <2> QED
    BY <2>1, <2>2, OnPath
<1>2. <<>> \in Seq(Words)
  OBVIOUS
<1>3. ChildrenFit(x, <<>>, Ws, N, t)
  BY DEF BucketFits
<1>4. ChildrenFit(x, <<>>, Ws, Renewed(N, U, ngram), s)
  BY <1>1, <1>2, <1>3, KeepsChildren
<1> QED
  BY <1>4 DEF BucketFits

\* y is x but for what it shows.
SameArray(x, y) ==
  /\ IsNode(y) /\ y.freed = x.freed /\ y.children = x.children
  /\ y.emptySpace = x.emptySpace /\ y.maxChildren = x.maxChildren
  /\ y.deletedChildren = x.deletedChildren /\ y.owned = x.owned

Keeps(x, y) ==
  /\ Tidy(y) /\ Kids(y) = Kids(x) /\ Dead(y) = Dead(x) /\ Live(y) = Live(x)
  /\ Size(y) = Size(x) /\ (Tight(x) => Tight(y))

LEMMA SameArrayIs ==
  ASSUME NEW x, Tidy(x), NEW y, SameArray(x, y)
  PROVE  Keeps(x, y)
<1>1. /\ IsNode(y) /\ y.freed = x.freed /\ y.children = x.children
      /\ y.emptySpace = x.emptySpace /\ y.maxChildren = x.maxChildren
      /\ y.deletedChildren = x.deletedChildren /\ y.owned = x.owned
  BY DEF SameArray
<1>2. Size(y) = Size(x)
  BY <1>1 DEF Size
<1>3. Slots(y) = Slots(x)
  BY <1>2 DEF Slots
<1>4. Live(y) = Live(x)
  BY <1>1, <1>3 DEF Live
<1>5. DeadSlots(y) = DeadSlots(x)
  BY <1>3, <1>4 DEF DeadSlots
<1>6. Kids(y) = Kids(x)
  BY <1>1, <1>4 DEF Kids
<1>7. Dead(y) = Dead(x)
  BY <1>1, <1>5 DEF Dead
<1>8. Tidy(y)
  BY <1>1, <1>2, <1>3, <1>5, <1>7 DEF Tidy
<1>9. Tight(x) => Tight(y)
  BY <1>2, <1>4 DEF Tight
<1> QED
  BY <1>2, <1>4, <1>6, <1>7, <1>8, <1>9 DEF Keeps

\* The node at the end of the n-gram.
Ended(x, last) == Keeps(x, last) /\ last.word = x.word /\ last.deleted = x.deleted

EndedBy(x, last, version) ==
  /\ Ended(x, last)
  /\ last.is_final = TRUE /\ last.A_version = version /\ last.D_version = x.D_version

LEMMA FinalIs ==
  ASSUME NEW x, Tidy(x), NEW version,
         NEW last, last = [x EXCEPT !.is_final = TRUE, !.A_version = version]
  PROVE  EndedBy(x, last, version)
<1> DEFINE yes == TRUE
           y == [x EXCEPT !.is_final = yes, !.A_version = version]
<1>1. IsNode(x)
  BY DEF Tidy
<1>2. y = [x EXCEPT !.is_final = yes, !.A_version = version]
  OBVIOUS
<1> HIDE DEF yes, y
<1>3. /\ IsNode(y) /\ y.freed = x.freed /\ y.children = x.children
      /\ y.emptySpace = x.emptySpace /\ y.maxChildren = x.maxChildren
      /\ y.deletedChildren = x.deletedChildren /\ y.owned = x.owned
      /\ y.word = x.word /\ y.deleted = x.deleted
      /\ y.is_final = yes /\ y.A_version = version /\ y.D_version = x.D_version
  BY <1>1, <1>2 DEF IsNode
<1>4. SameArray(x, y)
  BY <1>3 DEF SameArray
<1>5. Keeps(x, y)
  BY <1>4, SameArrayIs
<1>6. Ended(x, y)
  BY <1>3, <1>5 DEF Ended
<1>7. last = y
  BY <1>2 DEF yes
<1>8. EndedBy(x, y, version)
  BY <1>3, <1>6 DEF yes, EndedBy
<1> QED
  BY <1>7, <1>8

MarkedBy(x, last, version) ==
  Ended(x, last) /\ Shown(last) = [Shown(x) EXCEPT !.D_version = version]

LEMMA MarkedIs ==
  ASSUME NEW x, Tidy(x), NEW version, NEW last, last = [x EXCEPT !.D_version = version]
  PROVE  MarkedBy(x, last, version)
<1> DEFINE y == [x EXCEPT !.D_version = version]
<1>1. IsNode(x)
  BY DEF Tidy
<1>2. y = [x EXCEPT !.D_version = version]
  OBVIOUS
<1> HIDE DEF y
<1>3. /\ IsNode(y) /\ y.freed = x.freed /\ y.children = x.children
      /\ y.emptySpace = x.emptySpace /\ y.maxChildren = x.maxChildren
      /\ y.deletedChildren = x.deletedChildren /\ y.owned = x.owned
      /\ y.word = x.word /\ y.deleted = x.deleted
      /\ y.is_final = x.is_final /\ y.A_version = x.A_version /\ y.D_version = version
  BY <1>1, <1>2 DEF IsNode
<1>4. SameArray(x, y)
  BY <1>3 DEF SameArray
<1>5. Keeps(x, y)
  BY <1>4, SameArrayIs
<1>6. Ended(x, y)
  BY <1>3, <1>5 DEF Ended
<1>7. Shown(y) = [Shown(x) EXCEPT !.D_version = version]
  BY <1>3 DEF Shown
<1> QED
  BY <1>2, <1>6, <1>7 DEF MarkedBy

\* Each of the nodes up holds the one below.
HoldsUp(D, up, ngram) ==
  /\ \A d \in 0..(Len(ngram) - 1) : Holds(D[d], up[d + 1], up[d])
  /\ \A d \in 1..Len(ngram) : up[d].word = ngram[d] /\ up[d].deleted = FALSE

LEMMA ExtendedUp ==
  ASSUME NEW N, NEW t, NEW Ws, Ws \subseteq Words,
         NEW ngram \in Seq(Words), ngram # <<>>, NEW D,
         \A d \in 0..Len(ngram) : Stands(D[d], d, Ws, ngram, N, t),
         NEW last, Ended(D[Len(ngram)], last), NEW up, up[Len(ngram)] = last,
         \A d \in 0..(Len(ngram) - 1) :
           up[d] = SetChild(AddChild(D[d], NodeInit(ngram[d + 1])), ngram[d + 1], up[d + 1])
  PROVE  HoldsUp(D, up, ngram)
<1> DEFINE n == Len(ngram)
           Alive(d) == up[d].word = ngram[d] /\ up[d].deleted = FALSE
           K == {e \in 0..(n - 1) : Alive(n - e)}
<1>1. n \in Nat /\ n # 0 /\ \A d \in 1..n : ngram[d] \in Words
  BY Tops
<1>2. ASSUME NEW d \in 0..n
      PROVE  Tidy(D[d]) /\ (d # 0 => D[d].word = ngram[d] /\ D[d].deleted = FALSE)
  BY <1>2 DEF Stands, ChildrenFit
<1>3. Alive(n)
  <2>1. n \in 0..n
    BY <1>1
  <2> QED
    BY <1>1, <1>2, <2>1 DEF Ended
<1>4. ASSUME NEW d \in 0..(n - 1), Alive(d + 1) PROVE Holds(D[d], up[d + 1], up[d])
  <2> DEFINE w == ngram[d + 1]
             c == NodeInit(w)
             k == up[d + 1]
  <2>1. d \in 0..n /\ d + 1 \in 1..n
    BY <1>1
  <2>2. Tidy(D[d]) /\ w \in Words /\ k.word = w /\ k.deleted = FALSE
    BY <1>1, <1>2, <1>4, <2>1
  <2>3. c.word = w /\ c.deleted = FALSE
    BY FreshNodes
  <2>4. up[d] = SetChild(AddChild(D[d], c), w, k)
    OBVIOUS
  <2> HIDE DEF w, c, k
  <2>5. Holds(D[d], k, up[d])
    BY <2>2, <2>3, <2>4, AddedAndSet
  <2> QED
    BY <2>5 DEF k
<1>5. ASSUME NEW d \in 1..(n - 1), Alive(d + 1) PROVE Alive(d)
  <2>1. d \in 0..(n - 1) /\ d \in 0..n /\ d # 0
    BY <1>1
  <2>2. SameHead(D[d], up[d])
    BY <1>4, <1>5, <2>1 DEF Holds
  <2> QED
    BY <1>2, <2>1, <2>2 DEF SameHead
<1> HIDE DEF n, Alive
<1>6. 0 \in K
  BY <1>1, <1>3
<1>7. ASSUME NEW e \in 0..((n - 1) - 1), e \in K PROVE e + 1 \in K
  <2> DEFINE d == n - (e + 1)
  <2>1. d \in 1..(n - 1) /\ d + 1 = n - e /\ e + 1 \in 0..(n - 1)
    BY <1>1
  <2>2. Alive(d + 1)
    BY <1>7, <2>1
  <2>3. Alive(d)
    <3> HIDE DEF d
    <3> QED
      BY <1>5, <2>1, <2>2
  <2> QED
    BY <2>1, <2>3
<1> HIDE DEF K
<1>8. n - 1 \in Nat
  BY <1>1
<1>9. \A e \in 0..(n - 1) : e \in K
  BY <1>6, <1>7, <1>8, SetInduction
<1>10. ASSUME NEW d \in 1..n PROVE Alive(d)
  <2>1. n - d \in 0..(n - 1) /\ n - (n - d) = d
    BY <1>1
  <2>2. Alive(n - (n - d))
    BY <1>9, <2>1 DEF K
  <2> QED
    BY <2>1, <2>2
<1>11. ASSUME NEW d \in 0..(n - 1) PROVE Holds(D[d], up[d + 1], up[d])
  <2>1. d + 1 \in 1..n
    BY <1>1
  <2>2. Alive(d + 1)
    BY <1>10, <2>1
  <2> QED
    BY <1>4, <2>2
<1>12. \A d \in 1..n : up[d].word = ngram[d] /\ up[d].deleted = FALSE
  BY <1>10 DEF Alive
<1> QED
  BY <1>11, <1>12 DEF n, HoldsUp

\* The trie with the nodes of an n-gram, the missing ones new.
Extends(s, t, ngram) ==
  /\ DOMAIN s = DOMAIN t \union PathNodes(ngram)
  /\ \A p \in DOMAIN t : p # ngram => Shown(s[p]) = Shown(t[p])
  /\ \A p \in DOMAIN s \ DOMAIN t : p # ngram => Shown(s[p]) = Shown(NewNode)

LEMMA ExtendedFits ==
  ASSUME NEW N, NEW t, NEW Ws, Ws \subseteq Words, NodesFit(N, t), Closed(t),
         NEW ngram \in Seq(Words), ngram # <<>>, ngram[1] \in Ws,
         NEW x, BucketFits(x, Ws, N, t),
         NEW s, Closed(s), Extends(s, t, ngram),
         NEW last, Ended(Along(x, ngram)[Len(ngram)], last), Shown(last) = Shown(s[ngram])
  PROVE  \E U : /\ NodesFit(Renewed(N, U, ngram), s)
                /\ BucketFits(Extended(x, ngram, last), Ws, Renewed(N, U, ngram), s)
<1> DEFINE n == Len(ngram)
           D == Along(x, ngram)
<1>1. /\ n \in Nat /\ n # 0 /\ Top(ngram, n) = ngram
      /\ \A d \in 0..n : Top(ngram, d) \in Seq(Words) /\ Len(Top(ngram, d)) = d
      /\ \A d \in 1..n : Top(ngram, d) \in PathNodes(ngram)
  BY Tops
<1>2. /\ D[0] = x
      /\ \A d \in 1..n : D[d] = Child(AddChild(D[d - 1], NodeInit(ngram[d])), ngram[d])
  BY <1>1, AlongRuns
<1>3. PICK up : /\ up[n] = last
                /\ \A d \in 0..(n - 1) :
                     up[d] = SetChild(AddChild(D[d], NodeInit(ngram[d + 1])),
                                      ngram[d + 1], up[d + 1])
                /\ Extended(x, ngram, last) = up[0]
  BY <1>1, ExtendedRuns
<1>4. Ended(D[n], last)
  OBVIOUS
<1> HIDE DEF D
<1>5. ChildrenFit(x, <<>>, Ws, N, t)
  BY DEF BucketFits
<1>6. \A d \in 0..n : Stands(D[d], d, Ws, ngram, N, t)
  BY <1>2, <1>5, StandsAlong
<1>7. /\ \A d \in 0..(n - 1) : Holds(D[d], up[d + 1], up[d])
      /\ \A d \in 1..n : up[d].word = ngram[d] /\ up[d].deleted = FALSE
  <2>1. HoldsUp(D, up, ngram)
    BY <1>3, <1>4, <1>6, ExtendedUp
  <2> QED
    BY <2>1 DEF HoldsUp
<1>8. \A d \in 1..n : Top(ngram, d) \in DOMAIN s
  BY <1>1 DEF Extends
<1>9. SameOff(t, s, ngram)
  <2>1. ngram \in PathNodes(ngram)
    BY PathOf
  <2> QED
    BY <2>1 DEF SameOff, Extends
<1>10. ASSUME NEW d \in 0..n PROVE Renews(up, d, s, ngram)
  <2>1. Stands(D[d], d, Ws, ngram, N, t)
    BY <1>6
  <2>2. CASE d = n
    <3>1. Ended(D[d], up[d]) /\ Shown(up[d]) = Shown(s[Top(ngram, d)])
      BY <1>1, <1>3, <1>4, <2>2
    <3>2. Tight(D[d])
      BY <1>1, <2>1, <2>2 DEF Stands
    <3> QED
      BY <1>1, <1>7, <2>2, <3>1, <3>2 DEF Renews, Ended, Keeps
  <2>3. CASE d # n
    <3>1. d \in 0..(n - 1)
      BY <1>1, <2>3
    <3>2. Holds(D[d], up[d + 1], up[d])
      BY <1>7, <3>1
    <3>3. Tidy(up[d]) /\ SameHead(D[d], up[d]) /\ (Tight(D[d]) => Tight(up[d]))
      BY <3>2 DEF Holds
    <3>4. CASE d = 0
      BY <3>3, <3>4 DEF Renews
    <3>5. CASE d # 0
      <4> DEFINE p == Top(ngram, d)
      <4>1. d \in 1..n
        BY <1>1, <3>5
      <4>2. p \in DOMAIN s /\ p # ngram
        BY <1>1, <1>8, <2>3, <4>1
      <4>3. /\ Tight(D[d])
            /\ p \in DOMAIN t => Shown(D[d]) = Shown(t[p])
            /\ p \notin DOMAIN t => Shown(D[d]) = Shown(NewNode)
        BY <2>1, <3>5 DEF Stands
      <4>4. Shown(D[d]) = Shown(s[p])
        BY <4>2, <4>3 DEF Extends
      <4>5. Shown(up[d]) = Shown(D[d])
        BY <3>3 DEF Shown, SameHead
      <4> QED
        BY <1>7, <3>3, <4>1, <4>3, <4>4, <4>5 DEF Renews
    <3> QED
      BY <3>4, <3>5
  <2> QED
    BY <2>2, <2>3
<1>11. ASSUME NEW d \in 0..(n - 1)
       PROVE  Kids(up[d]) = Others(D[d], ngram[d + 1]) \union {up[d + 1]}
  <2>1. d + 1 \in 1..n
    BY <1>1
  <2>2. up[d + 1].word = ngram[d + 1] /\ Holds(D[d], up[d + 1], up[d])
    BY <1>7, <2>1
  <2> QED
    BY <2>2 DEF Holds
<1>12. Kids(up[n]) = Kids(D[n])
  BY <1>3, <1>4 DEF Ended, Keeps
<1>13. \A d \in 0..(n - 1) : Top(ngram, d + 1) \in DOMAIN s
  BY <1>1, <1>8
<1>14. Rebuilds(up, D, s, ngram)
  BY <1>10, <1>11, <1>12, <1>13 DEF Rebuilds
<1>15. /\ NodesFit(Renewed(N, up, ngram), s)
       /\ ChildrenFit(up[0], <<>>, Ws, Renewed(N, up, ngram), s)
  BY <1>6, <1>9, <1>14, Rebuilt
<1>16. \A k \in Dead(up[0]) : k.word \in Ws => Size(k) = 0 /\ k.is_final = FALSE
  <2>1. 0 \in 0..(n - 1)
    BY <1>1
  <2>2. Dead(up[0]) \subseteq Dead(x)
    BY <1>2, <1>7, <2>1 DEF Holds
  <2> QED
    BY <2>2 DEF BucketFits
<1>17. BucketFits(Extended(x, ngram, last), Ws, Renewed(N, up, ngram), s)
  BY <1>3, <1>15, <1>16 DEF BucketFits
<1> QED
  BY <1>15, <1>17

-----------------------------------------------------------------------------
(***************************************************************************)
(* An n-gram deleted.                                                      *)
(***************************************************************************)
\* What is left in the slot of a child that was removed.
Gone(y, w) ==
  /\ y.word = w /\ y.deleted = TRUE /\ y.is_final = FALSE /\ Size(y) = 0
  /\ Emptied(y)

\* r is the node x with these children.
Stayed(x, kids, r) ==
  /\ r.removed = FALSE
  /\ Tidy(r.node) /\ (Tight(x) => Tight(r.node)) /\ Kids(r.node) = kids
  /\ r.node.word = x.word /\ r.node.deleted = x.deleted

LEMMA NoKids ==
  ASSUME NEW x, Tidy(x)
  PROVE  /\ NoneLeft(x) <=> Kids(x) = {}
         /\ Tight(x) /\ Kids(x) = {} => Size(x) = 0
<1>1. NoneLeft(x) <=> Live(x) = {}
  BY NoneLeftTells
<1>2. Live(x) = {} <=> Kids(x) = {}
  BY DEF Kids
<1>3. Tight(x) /\ Live(x) = {} => Size(x) = 0
  BY DEF Tight
<1> QED
  BY <1>1, <1>2, <1>3

LEMMA FreedNode ==
  ASSUME NEW x, IsNode(x), NEW y,
         y = [Freed(x) EXCEPT !.deleted = TRUE] \/ y = LeafFreed(x)
  PROVE  /\ y.word = x.word /\ y.deleted = TRUE /\ y.is_final = x.is_final
         /\ Size(y) = Size(x)
         /\ y.freed = TRUE /\ y.owned \in {x.owned, x.owned - x.deletedChildren}
<1> DEFINE yes == TRUE
           empty == <<>>
           O == {x.owned, x.owned - x.deletedChildren}
<1>1. \E o \in O : y = [x EXCEPT !.children = empty, !.freed = yes, !.deleted = yes, !.owned = o]
  <2>1. CASE y = [Freed(x) EXCEPT !.deleted = TRUE]
    <3>1. y = [[x EXCEPT !.children = empty, !.freed = yes] EXCEPT !.deleted = yes]
      BY <2>1 DEF Freed
    <3> HIDE DEF yes, empty
    <3>2. y = [x EXCEPT !.children = empty, !.freed = yes, !.deleted = yes, !.owned = x.owned]
      BY <3>1 DEF IsNode
    <3> QED
      BY <3>2
  <2>2. CASE y = LeafFreed(x)
    <3>1. y = [[x EXCEPT !.children = empty, !.freed = yes]
                 EXCEPT !.deleted = yes, !.owned = @ - x.deletedChildren]
      BY <2>2 DEF LeafFreed, Freed
    <3> HIDE DEF yes, empty
    <3>2. y = [x EXCEPT !.children = empty, !.freed = yes, !.deleted = yes,
                        !.owned = x.owned - x.deletedChildren]
      BY <3>1 DEF IsNode
    <3> QED
      BY <3>2
  <2> QED
    BY <2>1, <2>2
<1>2. PICK o \in O :
        y = [x EXCEPT !.children = empty, !.freed = yes, !.deleted = yes, !.owned = o]
  BY <1>1
<1> HIDE DEF yes, empty
<1>3. /\ y.word = x.word /\ y.deleted = yes /\ y.is_final = x.is_final
      /\ y.maxChildren = x.maxChildren /\ y.emptySpace = x.emptySpace
      /\ y.freed = yes /\ y.owned = o
  BY <1>2 DEF IsNode
<1>4. Size(y) = Size(x)
  BY <1>3 DEF Size
<1>5. y.deleted = TRUE /\ y.freed = TRUE
  BY <1>3 DEF yes
<1> QED
  BY <1>3, <1>4, <1>5

\* No string is left of a node without slots whose array is freed.
LEMMA FreedIsEmptied ==
  ASSUME NEW x, Tidy(x), Size(x) = 0, NEW y,
         y = [Freed(x) EXCEPT !.deleted = TRUE] \/ y = LeafFreed(x)
  PROVE  Emptied(y)
<1>1. IsNode(x) /\ x.owned = 0
  BY TidyFields
<1>2. x.deletedChildren = 0
  <2>1. x.deletedChildren \in 0..Size(x)
    BY TidyNode
  <2> QED
    BY <2>1
<1>3. y.freed = TRUE /\ y.owned \in {x.owned, x.owned - x.deletedChildren}
  BY <1>1, FreedNode
<1> QED
  BY <1>1, <1>2, <1>3 DEF Emptied

\* The last node of the n-gram.
EndsAs(x, r) ==
  /\ Kids(x) = {} => r.removed = TRUE /\ Gone(r.node, x.word)
  /\ Kids(x) # {} =>
       /\ Stayed(x, Kids(x), r)
       /\ Shown(r.node) = [is_final |-> FALSE, D_version |-> x.D_version,
                           A_version |-> NoVersion]

LEMMA EndsIs ==
  ASSUME NEW x, Tidy(x), Tight(x), NEW r, r = Ends(x)
  PROVE  EndsAs(x, r)
<1> DEFINE no == FALSE
           last == [x EXCEPT !.is_final = no]
<1>1. IsNode(x)
  BY DEF Tidy
<1>2. last = [x EXCEPT !.is_final = no]
  OBVIOUS
<1>3. r = IF NoneLeft(last) THEN [node |-> LeafFreed(last), removed |-> TRUE]
          ELSE [node |-> last, removed |-> FALSE]
  BY DEF Ends
<1> HIDE DEF no, last
<1>4. /\ IsNode(last) /\ last.freed = x.freed /\ last.children = x.children
      /\ last.emptySpace = x.emptySpace /\ last.maxChildren = x.maxChildren
      /\ last.deletedChildren = x.deletedChildren /\ last.owned = x.owned
      /\ last.word = x.word /\ last.deleted = x.deleted
      /\ last.is_final = no /\ last.A_version = x.A_version /\ last.D_version = x.D_version
  BY <1>1, <1>2 DEF IsNode
<1>5. Keeps(x, last)
  <2>1. SameArray(x, last)
    BY <1>4 DEF SameArray
  <2> QED
    BY <2>1, SameArrayIs
<1>6. Tidy(last) /\ Kids(last) = Kids(x) /\ Size(last) = Size(x) /\ Tight(last)
  BY <1>5 DEF Keeps
<1>7. /\ NoneLeft(last) <=> Kids(x) = {}
      /\ Kids(x) = {} => Size(x) = 0
  BY <1>6, NoKids
<1>8. CASE Kids(x) = {}
  <2> DEFINE z == LeafFreed(last)
  <2>1. r.removed = TRUE /\ r.node = z
    BY <1>3, <1>7, <1>8
  <2>2. /\ z.word = last.word /\ z.deleted = TRUE /\ z.is_final = last.is_final
        /\ Size(z) = Size(last) /\ Emptied(z)
    <3>1. z = LeafFreed(last)
      OBVIOUS
    <3> HIDE DEF z
    <3>2. Size(last) = 0
      BY <1>6, <1>7, <1>8
    <3> QED
      BY <1>4, <1>6, <3>1, <3>2, FreedNode, FreedIsEmptied
  <2> HIDE DEF z
  <2>3. Gone(z, x.word)
    BY <1>4, <1>6, <1>7, <1>8, <2>2 DEF Gone, no
  <2> QED
    BY <1>8, <2>1, <2>3 DEF EndsAs
<1>9. CASE Kids(x) # {}
  <2>1. r.removed = FALSE /\ r.node = last
    BY <1>3, <1>7, <1>9
  <2>2. Stayed(x, Kids(x), r)
    BY <1>4, <1>6, <2>1 DEF Stayed
  <2>3. Shown(last) = [is_final |-> FALSE, D_version |-> x.D_version,
                       A_version |-> NoVersion]
    BY <1>4 DEF Shown, no
  <2> QED
    BY <1>9, <2>1, <2>2, <2>3 DEF EndsAs
<1> QED
  BY <1>8, <1>9

\* A node whose child c was not removed.
StaysWith(x, w, c, r) ==
  /\ Stayed(x, Others(x, w) \union {c}, r)
  /\ SameHead(x, r.node) /\ Dead(r.node) = Dead(x)

LEMMA GoesUp ==
  ASSUME NEW x, Tidy(x), NEW w \in Words, Has(x, w), NEW below, NEW d, NEW r,
         below.removed = FALSE, below.node.word = w, below.node.deleted = FALSE,
         r = Goes(x, w, below, d)
  PROVE  StaysWith(x, w, below.node, r)
<1> DEFINE c == below.node
           here == SetChild(x, w, c)
<1>1. r = [node |-> here, removed |-> FALSE]
  BY DEF Goes
<1>2. Sets(x, c, here)
  BY SetChildIs
<1>3. r.removed = FALSE /\ r.node = here /\ c.word = w
  BY <1>1
<1> HIDE DEF here, c
<1>4. /\ Tidy(here) /\ SameHead(x, here) /\ Size(here) = Size(x) /\ Live(here) = Live(x)
      /\ Kids(here) = Others(x, w) \union {c} /\ Dead(here) = Dead(x)
  BY <1>2, <1>3 DEF Sets
<1>5. Tight(x) => Tight(here)
  BY <1>4 DEF Tight
<1>6. here.word = x.word /\ here.deleted = x.deleted
  BY <1>4 DEF SameHead
<1>7. Stayed(x, Others(x, w) \union {c}, r)
  BY <1>3, <1>4, <1>5, <1>6 DEF Stayed
<1> QED
  BY <1>3, <1>4, <1>7 DEF c, StaysWith

\* A bucket one of whose children was removed.
RootKeeps(x, w, c, r) ==
  /\ r.removed = FALSE /\ Tidy(r.node) /\ Kids(r.node) = Others(x, w)
  /\ Dead(r.node) \subseteq Dead(x) \union {c}

LEMMA GoesRoot ==
  ASSUME NEW x, Tidy(x), NEW w \in Words, Has(x, w), NEW below, NEW r,
         below.removed = TRUE, Gone(below.node, w),
         r = Goes(x, w, below, 0)
  PROVE  RootKeeps(x, w, below.node, r)
<1> DEFINE c == below.node
           y == Marked(x, w, c)
           left == IF NoneLeft(y) THEN y ELSE Trimmed(y)
<1>1. r = Above(SetChild(x, w, c), 0 = 0)
  BY DEF Goes
<1>2. r = [node |-> left, removed |-> FALSE]
  BY <1>1 DEF Above, Stays, Marked, GivenBack
<1>3. /\ NoneLeft(y) => left = y
      /\ ~NoneLeft(y) => left = Trimmed(y)
  OBVIOUS
<1>4. c.word = w /\ c.deleted = TRUE /\ Emptied(c)
  BY DEF Gone
<1>5. Marks(x, c, y)
  BY <1>4, SetDeletedIs
<1> HIDE DEF c, y, left
<1>6. Tidy(y) /\ Kids(y) = Others(x, w) /\ Dead(y) = Dead(x) \union {c}
  BY <1>4, <1>5 DEF Marks
<1>7. CASE NoneLeft(y)
  <2>1. r.removed = FALSE /\ r.node = y
    BY <1>2, <1>3, <1>7
  <2> QED
    BY <1>6, <2>1 DEF RootKeeps, c
<1>8. CASE ~NoneLeft(y)
  <2>1. r.removed = FALSE /\ r.node = Trimmed(y)
    BY <1>2, <1>3, <1>8
  <2>2. Trims(y, Trimmed(y))
    BY <1>6, TrimmedIs
  <2> QED
    BY <1>6, <2>1, <2>2 DEF RootKeeps, Trims, c
<1> QED
  BY <1>7, <1>8

\* Another node one of whose children was removed.
GoesAs(x, w, r) ==
  /\ Others(x, w) = {} /\ ~x.is_final => r.removed = TRUE /\ Gone(r.node, x.word)
  /\ ~(Others(x, w) = {} /\ ~x.is_final) =>
       Stayed(x, Others(x, w), r) /\ SameHead(x, r.node)

LEMMA GoesAbove ==
  ASSUME NEW x, Tidy(x), x.is_final \in BOOLEAN,
         NEW w \in Words, Has(x, w), NEW below, NEW d, d # 0, NEW r,
         below.removed = TRUE, Gone(below.node, w),
         r = Goes(x, w, below, d)
  PROVE  GoesAs(x, w, r)
<1> DEFINE c == below.node
           y == Marked(x, w, c)
           left == Trimmed(y)
           end == [Freed(left) EXCEPT !.deleted = TRUE]
<1>1. r = Above(SetChild(x, w, c), FALSE)
  BY DEF Goes
<1>2. r = IF left.is_final \/ ~NoneLeft(left)
          THEN [node |-> left, removed |-> FALSE] ELSE [node |-> end, removed |-> TRUE]
  BY <1>1 DEF Above, Stays, GivenBack, Marked
<1>4. c.word = w /\ c.deleted = TRUE /\ Emptied(c)
  BY DEF Gone
<1>5. Marks(x, c, y)
  BY <1>4, SetDeletedIs
<1>6. end = [Freed(left) EXCEPT !.deleted = TRUE]
  OBVIOUS
<1> HIDE DEF c, y
<1>7. Tidy(y) /\ SameHead(x, y) /\ Kids(y) = Others(x, w)
  BY <1>4, <1>5 DEF Marks
<1>8. Trims(y, left)
  BY <1>7, TrimmedIs
<1> HIDE DEF left, end
<1>9. /\ Tidy(left) /\ Tight(left) /\ SameHead(y, left) /\ Kids(left) = Others(x, w)
      /\ Others(x, w) = {} => Size(left) = 0
  BY <1>7, <1>8 DEF Trims
<1>10. SameHead(x, left)
  BY <1>7, <1>9, SameHeads
<1>11. NoneLeft(left) <=> Others(x, w) = {}
  BY <1>9, NoKids
<1>12. left.is_final = x.is_final /\ left.word = x.word /\ left.deleted = x.deleted
  BY <1>10 DEF SameHead
<1>13. CASE Others(x, w) = {} /\ ~x.is_final
  <2>1. r.removed = TRUE /\ r.node = end
    BY <1>2, <1>11, <1>12, <1>13
  <2>2. IsNode(left)
    BY <1>9 DEF Tidy
  <2>3. /\ end.word = left.word /\ end.deleted = TRUE /\ end.is_final = left.is_final
        /\ Size(end) = Size(left) /\ Emptied(end)
    <3>1. Size(left) = 0
      BY <1>9, <1>13
    <3> QED
      BY <1>6, <1>9, <2>2, <3>1, FreedNode, FreedIsEmptied
  <2>4. left.is_final = FALSE
    BY <1>12, <1>13
  <2>5. Gone(end, x.word)
    BY <1>9, <1>12, <1>13, <2>3, <2>4 DEF Gone
  <2> QED
    BY <1>13, <2>1, <2>5 DEF GoesAs
<1>14. CASE ~(Others(x, w) = {} /\ ~x.is_final)
  <2>1. r.removed = FALSE /\ r.node = left
    BY <1>2, <1>11, <1>12, <1>14
  <2>2. Stayed(x, Others(x, w), r)
    BY <1>9, <1>12, <2>1 DEF Stayed
  <2> QED
    BY <1>10, <1>14, <2>1, <2>2 DEF GoesAs
<1> QED
  BY <1>13, <1>14

\* Which nodes go, from the last one up.
LEMMA CutTops ==
  ASSUME NEW t, NEW ngram \in Seq(Words), ngram # <<>>, NEW d \in 1..Len(ngram)
  PROVE  Top(ngram, d) \in Cut(t, ngram) <=>
           /\ Dangling(t, ngram, Top(ngram, d))
           /\ d # Len(ngram) => Top(ngram, d + 1) \in Cut(t, ngram)
<1> DEFINE n == Len(ngram)
<1>1. /\ n \in Nat
      /\ \A e \in 1..n : Top(ngram, e) \in PathNodes(ngram) /\ Len(Top(ngram, e)) = e
      /\ \A q \in PathNodes(ngram) : Len(q) \in 1..n /\ q = Top(ngram, Len(q))
  <2>1. n \in Nat /\ \A e \in 1..n : e \in 0..n
    BY Tops
  <2> QED
    BY <2>1, Tops
<1>2. ASSUME NEW e \in 1..n, NEW q \in PathNodes(ngram)
      PROVE  IsPrefix(Top(ngram, e), q) <=> e <= Len(q)
  <2> DEFINE p == Top(ngram, e)
  <2>1. p \in PathNodes(ngram) /\ Len(p) = e
    BY <1>1
  <2>2. p \in Seq(Words) \ {<<>>}
    BY <2>1, PathOf
  <2> HIDE DEF p
  <2>3. IsPrefix(p, q) <=> p \in PathNodes(q)
    BY <2>2, PathsNest
  <2>4. Len(p) <= Len(q) <=> p \in PathNodes(q)
    BY <2>1, PathsNest
  <2> QED
    BY <2>1, <2>3, <2>4 DEF p
<1>3. ASSUME NEW e \in 1..n
      PROVE  Top(ngram, e) \in Cut(t, ngram) <=>
               \A q \in PathNodes(ngram) : e <= Len(q) => Dangling(t, ngram, q)
  BY <1>1, <1>2 DEF Cut
<1>4. Len(Top(ngram, d)) = d /\ Top(ngram, d) \in PathNodes(ngram)
  BY <1>1
<1>5. CASE d = n
  <2>1. \A q \in PathNodes(ngram) : d <= Len(q) <=> q = Top(ngram, d)
    <3>1. \A q \in PathNodes(ngram) : d <= Len(q) => Len(q) = d
      BY <1>1, <1>5
    <3> QED
      BY <1>1, <1>4, <3>1
  <2> QED
    BY <1>3, <1>4, <1>5, <2>1
<1>6. CASE d # n
  <2>1. d + 1 \in 1..n
    BY <1>1, <1>6
  <2>2. \A q \in PathNodes(ngram) : d <= Len(q) <=> q = Top(ngram, d) \/ d + 1 <= Len(q)
    <3>1. \A q \in PathNodes(ngram) : d <= Len(q) => Len(q) = d \/ d + 1 <= Len(q)
      BY <1>1
    <3>2. \A q \in PathNodes(ngram) : d + 1 <= Len(q) => d <= Len(q)
      BY <1>1
    <3> QED
      BY <1>1, <1>4, <3>1, <3>2
  <2>3. \A q \in PathNodes(ngram) :
          (d <= Len(q) => Dangling(t, ngram, q)) <=>
            /\ q = Top(ngram, d) => Dangling(t, ngram, q)
            /\ d + 1 <= Len(q) => Dangling(t, ngram, q)
    BY <2>2
  <2>4. (\A q \in PathNodes(ngram) : d <= Len(q) => Dangling(t, ngram, q)) <=>
          /\ Dangling(t, ngram, Top(ngram, d))
          /\ \A q \in PathNodes(ngram) : d + 1 <= Len(q) => Dangling(t, ngram, q)
    BY <1>4, <2>3
  <2> QED
    BY <1>3, <1>6, <2>1, <2>4
<1> QED
  BY <1>5, <1>6

\* The node d words down the n-gram has no other child.
Alone(z, ngram, d) ==
  IF d = Len(ngram) THEN Kids(z) = {} ELSE Others(z, ngram[d + 1]) = {} /\ ~z.is_final

LEMMA DanglingIs ==
  ASSUME NEW N, NEW t, Closed(t), NEW Ws, Ws \subseteq Words,
         NEW ngram \in Seq(Words), ngram # <<>>, NEW d \in 1..Len(ngram),
         Top(ngram, d) \in DOMAIN t, NEW z, Stands(z, d, Ws, ngram, N, t)
  PROVE  Dangling(t, ngram, Top(ngram, d)) <=> Alone(z, ngram, d)
<1> DEFINE n == Len(ngram)
           p == Top(ngram, d)
<1>1. /\ n \in Nat /\ d # 0 /\ p \in Seq(Words) /\ p # <<>> /\ Len(p) = d
      /\ p = ngram <=> d = n
  <2>1. n \in Nat /\ d \in 0..n /\ n \in 0..n /\ d # 0
    BY Tops
  <2>2. /\ p \in Seq(Words) /\ p # <<>> /\ Len(p) = d /\ Top(ngram, n) = ngram
        /\ Len(Top(ngram, n)) = n
    BY <2>1, Tops
  <2> QED
    BY <2>1, <2>2
<1>2. ChildrenFit(z, p, Words, N, t) /\ Shown(z) = Shown(t[p])
  BY <1>1 DEF Stands
<1>3. t[p].is_final = z.is_final
  BY <1>2 DEF Shown
<1>4. /\ Tidy(z) /\ \A w \in Words : Has(z, w) <=> Down(p, w) \in DOMAIN t
  BY <1>2 DEF ChildrenFit
<1>5. ASSUME NEW q PROVE q \in Children(t, p) <=>
                           \E w \in Words : q = Down(p, w) /\ Has(z, w)
  <2>1. ASSUME q \in Children(t, p)
        PROVE  \E w \in Words : q = Down(p, w) /\ Has(z, w)
    <3>1. q \in DOMAIN t /\ Front(q) = p
      BY <2>1 DEF Children
    <3>2. q \in Seq(Words) /\ q # <<>>
      BY <3>1 DEF Closed
    <3>3. PICK r \in Seq(Words), w \in Words : q = Down(r, w)
      BY <3>2, Downs
    <3>4. r = p
      BY <3>1, <3>3, Downs
    <3> QED
      BY <1>4, <3>1, <3>3, <3>4
  <2>2. ASSUME NEW w \in Words, q = Down(p, w), Has(z, w) PROVE q \in Children(t, p)
    <3>1. q \in DOMAIN t
      BY <1>4, <2>2
    <3>2. q # <<>> /\ Front(q) = p
      BY <1>1, <2>2, Downs
    <3> QED
      BY <3>1, <3>2 DEF Children
  <2> QED
    BY <2>1, <2>2
<1>6. Children(t, p) \subseteq PathNodes(ngram) <=>
        \A w \in Words : Has(z, w) => Down(p, w) \in PathNodes(ngram)
  BY <1>5
<1>7. \A k \in Kids(z) : k.word \in Words /\ Has(z, k.word)
  BY <1>4, KidsDiffer DEF Has
<1> HIDE DEF p
<1>8. CASE d = n
  <2>1. ASSUME NEW w \in Words PROVE Down(p, w) \notin PathNodes(ngram)
    <3>1. ~(d \in 0..(n - 1))
      BY <1>1, <1>8
    <3> QED
      BY <1>1, <3>1, OnPath
  <2>2. Kids(z) = {} <=> \A w \in Words : ~Has(z, w)
    BY <1>7 DEF Has
  <2>3. Dangling(t, ngram, p) <=> Kids(z) = {}
    BY <1>1, <1>6, <1>8, <2>1, <2>2 DEF Dangling
  <2> QED
    BY <1>8, <2>3 DEF Alone, p
<1>9. CASE d # n
  <2> DEFINE w == ngram[d + 1]
  <2>1. d + 1 \in 1..n /\ (d + 1) - 1 = d
    BY <1>1, <1>9
  <2>2. w \in Words /\ Down(p, w) \in PathNodes(ngram)
    BY <2>1, Tops DEF p
  <2>3. ASSUME NEW k \in Words PROVE Down(p, k) \in PathNodes(ngram) <=> k = w
    BY <1>1, <2>2, OnPath
  <2> HIDE DEF w
  <2>4. Others(z, w) = {} <=> \A k \in Words : Has(z, k) => k = w
    <3>1. ASSUME Others(z, w) = {}, NEW k \in Words, Has(z, k) PROVE k = w
      BY <3>1 DEF Has, Others
    <3>2. ASSUME \A k \in Words : Has(z, k) => k = w PROVE Others(z, w) = {}
      BY <1>7, <3>2 DEF Others
    <3> QED
      BY <3>1, <3>2
  <2>5. Dangling(t, ngram, p) <=> Others(z, w) = {} /\ ~z.is_final
    BY <1>1, <1>3, <1>6, <1>9, <2>3, <2>4 DEF Dangling
  <2> QED
    BY <1>9, <2>5 DEF Alone, p, w
<1> QED
  BY <1>8, <1>9

\* The trie s without the n-gram.
Shortens(s, t, ngram) ==
  /\ DOMAIN s = DOMAIN t \ Cut(t, ngram)
  /\ \A p \in DOMAIN s : p # ngram => s[p] = t[p]
  /\ ngram \in DOMAIN s =>
       Shown(s[ngram]) = [is_final |-> FALSE, D_version |-> t[ngram].D_version,
                          A_version |-> NoVersion]

\* What becomes of the node d words down the n-gram.
Left(r, z, below, d, s, ngram) ==
  /\ Top(ngram, d) \notin DOMAIN s => r.removed = TRUE /\ Gone(r.node, ngram[d])
  /\ Top(ngram, d) \in DOMAIN s =>
       /\ Stayed(z, IF d = Len(ngram) THEN Kids(z)
                    ELSE Others(z, ngram[d + 1])
                           \union (IF Top(ngram, d + 1) \in DOMAIN s THEN {below.node} ELSE {}),
                 r)
       /\ Shown(r.node) = Shown(s[Top(ngram, d)])

LEMMA LastLeft ==
  ASSUME NEW N, NEW t, Closed(t), NEW Ws, Ws \subseteq Words,
         NEW ngram \in Seq(Words), ngram # <<>>, ngram \in DOMAIN t,
         NEW s, Shortens(s, t, ngram),
         NEW z, Stands(z, Len(ngram), Ws, ngram, N, t), NEW r, r = Ends(z), NEW below
  PROVE  Left(r, z, below, Len(ngram), s, ngram)
<1> DEFINE n == Len(ngram)
<1>1. n \in Nat /\ n # 0 /\ n \in 1..n /\ Top(ngram, n) = ngram
  BY Tops
<1>2. ngram \in Cut(t, ngram) <=> Kids(z) = {}
  <2>1. Dangling(t, ngram, Top(ngram, n)) <=> Alone(z, ngram, n)
    BY <1>1, DanglingIs
  <2>2. Top(ngram, n) \in Cut(t, ngram) <=> Dangling(t, ngram, Top(ngram, n))
    BY <1>1, CutTops
  <2> QED
    BY <1>1, <2>1, <2>2 DEF Alone
<1>3. ngram \in DOMAIN s <=> Kids(z) # {}
  BY <1>2 DEF Shortens
<1>4. Tidy(z) /\ Tight(z) /\ z.word = ngram[n] /\ Shown(z) = Shown(t[ngram])
  BY <1>1 DEF Stands, ChildrenFit
<1>5. z.D_version = t[ngram].D_version
  BY <1>4 DEF Shown
<1>6. EndsAs(z, r)
  BY <1>4, EndsIs
<1> HIDE DEF n
<1>7. CASE Kids(z) = {}
  BY <1>1, <1>3, <1>4, <1>6, <1>7 DEF EndsAs, Left, n
<1>8. CASE Kids(z) # {}
  <2>1. Stayed(z, Kids(z), r)
    BY <1>6, <1>8 DEF EndsAs
  <2>2. Shown(r.node) = [is_final |-> FALSE, D_version |-> z.D_version,
                         A_version |-> NoVersion]
    BY <1>6, <1>8 DEF EndsAs
  <2>3. Shown(r.node) = Shown(s[ngram])
    BY <1>3, <1>5, <1>8, <2>2 DEF Shortens
  <2> QED
    BY <1>1, <1>3, <1>8, <2>1, <2>3 DEF Left, n
<1> QED
  BY <1>7, <1>8

LEMMA BelowLeft ==
  ASSUME NEW N, NEW t, Closed(t), NEW Ws, Ws \subseteq Words,
         NEW ngram \in Seq(Words), ngram # <<>>, ngram \in DOMAIN t,
         NEW s, Shortens(s, t, ngram), NEW d \in 1..(Len(ngram) - 1),
         Top(ngram, d) \in DOMAIN t, Top(ngram, d + 1) \in DOMAIN t,
         NEW z, Stands(z, d, Ws, ngram, N, t), z.is_final \in BOOLEAN,
         NEW below, NEW y, NEW b, Left(below, y, b, d + 1, s, ngram),
         y.deleted = FALSE, y.word = ngram[d + 1],
         NEW r, r = Goes(z, ngram[d + 1], below, d)
  PROVE  Left(r, z, below, d, s, ngram)
<1> DEFINE n == Len(ngram)
           p == Top(ngram, d)
           q == Top(ngram, d + 1)
           w == ngram[d + 1]
<1>1. /\ n \in Nat /\ d # 0 /\ d # n /\ d \in 1..n /\ p \in Seq(Words)
      /\ q = Down(p, w) /\ w \in Words /\ p # ngram
  <2>1. n \in Nat
    BY Tops
  <2>2. d # 0 /\ d # n /\ d \in 1..n /\ d \in 0..n /\ n \in 0..n /\ d + 1 \in 1..n
        /\ (d + 1) - 1 = d
    BY <2>1
  <2>3. Len(p) = d /\ p \in Seq(Words) /\ q = Down(p, w) /\ w \in Words
    BY <2>2, Tops
  <2> QED
    BY <2>1, <2>2, <2>3
<1>2. /\ ChildrenFit(z, p, Words, N, t) /\ Tight(z) /\ z.word = ngram[d]
      /\ Shown(z) = Shown(t[p])
  BY <1>1 DEF Stands
<1>3. Tidy(z) /\ Has(z, w)
  <2>1. Tidy(z)
    BY <1>2, FitsIsTidy
  <2>2. Has(z, w)
    BY <1>1, <1>2, FitChild
  <2> QED
    BY <2>1, <2>2
<1>4. p \in Cut(t, ngram) <=> Others(z, w) = {} /\ ~z.is_final /\ q \in Cut(t, ngram)
  <2>1. Dangling(t, ngram, p) <=> Alone(z, ngram, d)
    BY <1>1, DanglingIs
  <2>2. p \in Cut(t, ngram) <=> Dangling(t, ngram, p) /\ q \in Cut(t, ngram)
    BY <1>1, CutTops
  <2> QED
    BY <1>1, <2>1, <2>2 DEF Alone
<1>5. /\ p \in DOMAIN s <=> p \notin Cut(t, ngram)
      /\ q \in DOMAIN s <=> q \notin Cut(t, ngram)
      /\ p \in DOMAIN s => s[p] = t[p]
  BY <1>1 DEF Shortens
<1>6. p \in DOMAIN s => Shown(z) = Shown(s[p])
  BY <1>2, <1>5
<1>7. \A x : SameHead(z, x) => Shown(x) = Shown(z)
  BY DEF SameHead, Shown
<1>8. CASE q \notin DOMAIN s
  <2>1. below.removed = TRUE /\ Gone(below.node, w)
    BY <1>8 DEF Left
  <2>2. GoesAs(z, w, r)
    BY <1>1, <1>3, <2>1, GoesAbove
  <2> HIDE DEF p, q, w, n
  <2>3. p \notin DOMAIN s => r.removed = TRUE /\ Gone(r.node, ngram[d])
    BY <1>2, <1>4, <1>5, <1>8, <2>2 DEF GoesAs
  <2>4. p \in DOMAIN s => Stayed(z, Others(z, w), r) /\ SameHead(z, r.node)
    BY <1>4, <1>5, <1>8, <2>2 DEF GoesAs
  <2>5. p \in DOMAIN s => Shown(r.node) = Shown(s[p])
    BY <1>6, <1>7, <2>4
  <2>6. Others(z, w) = Others(z, w) \union (IF q \in DOMAIN s THEN {below.node} ELSE {})
    BY <1>8
  <2> QED
    BY <1>1, <2>3, <2>4, <2>5, <2>6 DEF Left, p, q, w, n
<1>9. CASE q \in DOMAIN s
  <2>1. p \in DOMAIN s
    BY <1>4, <1>5, <1>9
  <2>2. below.removed = FALSE /\ below.node.word = w /\ below.node.deleted = FALSE
    BY <1>9 DEF Left, Stayed
  <2>3. Stayed(z, Others(z, w) \union {below.node}, r) /\ SameHead(z, r.node)
    <3>1. StaysWith(z, w, below.node, r)
      BY <1>1, <1>3, <2>2, GoesUp
    <3> QED
      BY <3>1 DEF StaysWith
  <2>4. Shown(r.node) = Shown(s[p])
    BY <1>6, <1>7, <2>1, <2>3
  <2> HIDE DEF p, q, w, n
  <2>5. {below.node} = IF q \in DOMAIN s THEN {below.node} ELSE {}
    BY <1>9
  <2> QED
    BY <1>1, <2>1, <2>3, <2>4, <2>5 DEF Left, p, q, w, n
<1> QED
  BY <1>8, <1>9

\* What Without leaves of a bucket.
Shortened(r, s, ngram, Ws, M) ==
  /\ NodesFit(M, s) /\ BucketFits(r.node, Ws, M, s)
  /\ Top(ngram, 1) \in DOMAIN s => r.removed = FALSE
  /\ Top(ngram, 1) \notin DOMAIN s => r.removed = TRUE

LEMMA AllLeft ==
  ASSUME NEW N, NEW t, Closed(t), NEW Ws, Ws \subseteq Words,
         NEW ngram \in Seq(Words), ngram # <<>>, ngram \in DOMAIN t,
         \A d \in 1..Len(ngram) : Top(ngram, d) \in DOMAIN t,
         NEW s, Shortens(s, t, ngram), NEW D,
         \A d \in 0..Len(ngram) : Stands(D[d], d, Ws, ngram, N, t),
         \A d \in 1..Len(ngram) : D[d].is_final \in BOOLEAN,
         NEW after, after[Len(ngram)] = Ends(D[Len(ngram)]),
         \A d \in 0..(Len(ngram) - 1) :
           after[d] = Goes(D[d], ngram[d + 1], after[d + 1], d)
  PROVE  \A d \in 1..Len(ngram) : Left(after[d], D[d], after[d + 1], d, s, ngram)
<1> DEFINE n == Len(ngram)
           Right(d) == Left(after[d], D[d], after[d + 1], d, s, ngram)
           K == {e \in 0..(n - 1) : Right(n - e)}
<1>1. n \in Nat /\ n # 0 /\ \A d \in 1..n : ngram[d] \in Words
  BY Tops
<1>2. Right(n)
  <2>1. n \in 0..n
    BY <1>1
  <2>2. Stands(D[n], n, Ws, ngram, N, t)
    BY <2>1
  <2> QED
    BY <2>2, LastLeft
<1>3. ASSUME NEW d \in 1..(n - 1), Right(d + 1) PROVE Right(d)
  <2>1. d \in 0..(n - 1) /\ d \in 0..n /\ d \in 1..n /\ d + 1 \in 1..n /\ d + 1 \in 0..n
        /\ d + 1 # 0
    BY <1>1
  <2> DEFINE e == d + 1
             y == D[d + 1]
             b == after[e + 1]
             below == after[d + 1]
  <2>2. Stands(D[d], d, Ws, ngram, N, t) /\ Stands(y, e, Ws, ngram, N, t)
    BY <2>1
  <2>3. y.word = ngram[d + 1] /\ y.deleted = FALSE
    BY <2>1, <2>2 DEF Stands
  <2>4. Left(below, y, b, d + 1, s, ngram)
    BY <1>3
  <2>5. after[d] = Goes(D[d], ngram[d + 1], below, d)
    BY <2>1
  <2>6. Top(ngram, d) \in DOMAIN t /\ Top(ngram, d + 1) \in DOMAIN t /\ D[d].is_final \in BOOLEAN
    BY <2>1
  <2> HIDE DEF y, b, below
  <2>7. Left(after[d], D[d], below, d, s, ngram)
    BY <2>2, <2>3, <2>4, <2>5, <2>6, BelowLeft
  <2> QED
    BY <2>7 DEF below
<1> HIDE DEF n, Right
<1>4. 0 \in K
  BY <1>1, <1>2
<1>5. ASSUME NEW e \in 0..((n - 1) - 1), e \in K PROVE e + 1 \in K
  <2> DEFINE d == n - (e + 1)
  <2>1. d \in 1..(n - 1) /\ d + 1 = n - e /\ e + 1 \in 0..(n - 1)
    BY <1>1
  <2>2. Right(d + 1)
    BY <1>5, <2>1
  <2>3. Right(d)
    <3> HIDE DEF d
    <3> QED
      BY <1>3, <2>1, <2>2
  <2> QED
    BY <2>1, <2>3
<1> HIDE DEF K
<1>6. n - 1 \in Nat
  BY <1>1
<1>7. \A e \in 0..(n - 1) : e \in K
  BY <1>4, <1>5, <1>6, SetInduction
<1>8. ASSUME NEW d \in 1..n PROVE Right(d)
  <2>1. n - d \in 0..(n - 1) /\ n - (n - d) = d
    BY <1>1
  <2>2. Right(n - (n - d))
    BY <1>7, <2>1 DEF K
  <2> QED
    BY <2>1, <2>2
<1> QED
  BY <1>8 DEF n, Right

LEMMA WithoutFits ==
  ASSUME NEW N, NEW t, NEW Ws, Ws \subseteq Words, NodesFit(N, t), Closed(t),
         \A p \in DOMAIN t : t[p].is_final \in BOOLEAN,
         NEW ngram \in Seq(Words), ngram # <<>>, ngram[1] \in Ws, ngram \in DOMAIN t,
         \A d \in 1..Len(ngram) : Top(ngram, d) \in DOMAIN t,
         NEW x, BucketFits(x, Ws, N, t),
         NEW s, Closed(s), Shortens(s, t, ngram)
  PROVE  \E U : Shortened(Without(x, ngram), s, ngram, Ws, Renewed(N, U, ngram))
<1> DEFINE n == Len(ngram)
<1>1. /\ n \in Nat /\ n # 0 /\ Top(ngram, n) = ngram /\ Top(ngram, 0) = <<>>
      /\ \A d \in 0..n : Top(ngram, d) \in Seq(Words) /\ Len(Top(ngram, d)) = d
      /\ \A d \in 1..n : Top(ngram, d) \in PathNodes(ngram)
  BY Tops
<1>2. PICK D, after : RunsBack(D, after, x, ngram)
  BY <1>1, WithoutRuns
<1>2a. /\ D[0] = x
       /\ \A d \in 1..n : D[d] = Child(D[d - 1], ngram[d])
       /\ after[n] = Ends(D[n])
       /\ \A d \in 0..(n - 1) : after[d] = Goes(D[d], ngram[d + 1], after[d + 1], d)
       /\ Without(x, ngram) = [node |-> after[0].node, removed |-> after[1].removed]
  BY <1>2 DEF RunsBack
<1>3. ChildrenFit(x, <<>>, Ws, N, t)
  BY DEF BucketFits
<1>4. \A d \in 0..n : Stands(D[d], d, Ws, ngram, N, t)
  BY <1>2a, <1>3, StandsAlong
<1>5. ASSUME NEW d \in 1..n PROVE D[d].is_final \in BOOLEAN
  <2>1. d \in 0..n /\ d # 0 /\ Top(ngram, d) \in DOMAIN t
    OBVIOUS
  <2>2. Stands(D[d], d, Ws, ngram, N, t)
    BY <1>4, <2>1
  <2>3. Shown(D[d]) = Shown(t[Top(ngram, d)])
    BY <2>1, <2>2 DEF Stands
  <2>4. D[d].is_final = t[Top(ngram, d)].is_final
    BY <2>3 DEF Shown
  <2> QED
    BY <2>1, <2>4
<1>6. \A d \in 1..n : Left(after[d], D[d], after[d + 1], d, s, ngram)
  BY <1>2a, <1>4, <1>5, AllLeft
<1> DEFINE U == [d \in 0..n |-> after[d].node]
           M == Renewed(N, U, ngram)
<1>7. SameOff(t, s, ngram)
  <2>1. ngram \in PathNodes(ngram)
    BY PathOf
  <2>2. Cut(t, ngram) \subseteq PathNodes(ngram)
    BY DEF Cut
  <2> QED
    BY <2>1, <2>2 DEF SameOff, Shortens
<1>8. /\ Tidy(U[0])
      /\ Kids(U[0]) = Others(D[0], ngram[1])
                        \union (IF Top(ngram, 1) \in DOMAIN s THEN {U[1]} ELSE {})
      /\ \A k \in Dead(U[0]) : k.word \in Ws => Size(k) = 0 /\ k.is_final = FALSE
      /\ Top(ngram, 1) \in DOMAIN s => after[1].removed = FALSE
      /\ Top(ngram, 1) \notin DOMAIN s => after[1].removed = TRUE
  <2> DEFINE w == ngram[1]
             below == after[1]
             p == Top(ngram, 1)
  <2>1. 0 \in 0..(n - 1) /\ 0 \in 0..n /\ 1 \in 1..n /\ 1 \in 0..n /\ 0 + 1 = 1 /\ 1 # 0
        /\ 1 - 1 = 0
    BY <1>1
  <2>2. U[0] = after[0].node /\ U[1] = below.node /\ after[0] = Goes(x, w, below, 0)
    BY <1>2a, <2>1
  <2>3. Left(below, D[1], after[2], 1, s, ngram)
    BY <1>6, <2>1
  <2>4. Stands(D[1], 1, Ws, ngram, N, t)
    BY <1>4, <2>1
  <2>5. D[1].word = w /\ D[1].deleted = FALSE
    BY <2>1, <2>4 DEF Stands
  <2>6. Tidy(x) /\ Has(x, w) /\ w \in Words
    <3>1. p = Down(<<>>, w) /\ p \in DOMAIN t
      BY <1>1, <2>1, Tops
    <3>2. Has(x, w)
      BY <1>3, <3>1, FitChild
    <3> QED
      BY <1>3, <3>2, FitsIsTidy
  <2>7. \A k \in Dead(x) : k.word \in Ws => Size(k) = 0 /\ k.is_final = FALSE
    BY DEF BucketFits
  <2> HIDE DEF w, below, p, U
  <2>8. CASE p \in DOMAIN s
    <3>1. below.removed = FALSE /\ below.node.word = w /\ below.node.deleted = FALSE
      BY <2>3, <2>5, <2>8 DEF Left, Stayed, p
    <3>2. /\ Stayed(x, Others(x, w) \union {below.node}, after[0])
          /\ Dead(after[0].node) = Dead(x)
      <4>1. StaysWith(x, w, below.node, after[0])
        BY <2>2, <2>6, <3>1, GoesUp
      <4> QED
        BY <4>1 DEF StaysWith
    <3>3. {below.node} = IF p \in DOMAIN s THEN {U[1]} ELSE {}
      BY <2>2, <2>8
    <3>4. Tidy(U[0]) /\ Kids(U[0]) = Others(x, w) \union {below.node}
      BY <2>2, <3>2 DEF Stayed
    <3>5. \A k \in Dead(U[0]) : k.word \in Ws => Size(k) = 0 /\ k.is_final = FALSE
      BY <2>2, <2>7, <3>2
    <3> QED
      BY <1>2a, <2>8, <3>1, <3>3, <3>4, <3>5 DEF p, w, below
  <2>9. CASE p \notin DOMAIN s
    <3>1. below.removed = TRUE /\ Gone(below.node, w)
      BY <2>3, <2>9 DEF Left, p, w
    <3>2. RootKeeps(x, w, below.node, after[0])
      BY <2>2, <2>6, <3>1, GoesRoot
    <3>3. /\ Tidy(U[0]) /\ Kids(U[0]) = Others(x, w)
          /\ Dead(U[0]) \subseteq Dead(x) \union {below.node}
      BY <2>2, <3>2 DEF RootKeeps
    <3>4. \A k \in Dead(U[0]) : k.word \in Ws => Size(k) = 0 /\ k.is_final = FALSE
      BY <2>7, <3>1, <3>3 DEF Gone
    <3>5. Kids(U[0]) = Others(x, w) \union (IF p \in DOMAIN s THEN {U[1]} ELSE {})
      BY <2>9, <3>3
    <3> QED
      BY <1>2a, <2>9, <3>1, <3>3, <3>4, <3>5 DEF p, w, below
  <2> QED
    BY <2>8, <2>9
<1>9. ASSUME NEW d \in 1..n, Top(ngram, d) \in DOMAIN s
      PROVE  /\ Renews(U, d, s, ngram)
             /\ d = n => Kids(U[d]) = Kids(D[d])
             /\ d # n => Kids(U[d]) = Others(D[d], ngram[d + 1])
                           \union (IF Top(ngram, d + 1) \in DOMAIN s THEN {U[d + 1]} ELSE {})
  <2> DEFINE kids == IF d = n THEN Kids(D[d])
                     ELSE Others(D[d], ngram[d + 1])
                            \union (IF Top(ngram, d + 1) \in DOMAIN s
                                    THEN {after[d + 1].node} ELSE {})
  <2>1. d \in 0..n /\ d # 0 /\ (d # n => d + 1 \in 0..n)
    BY <1>1
  <2>2. U[d] = after[d].node /\ (d # n => U[d + 1] = after[d + 1].node)
    BY <2>1
  <2>3. Left(after[d], D[d], after[d + 1], d, s, ngram)
    BY <1>6
  <2>4. Stayed(D[d], kids, after[d]) /\ Shown(after[d].node) = Shown(s[Top(ngram, d)])
    BY <1>9, <2>3 DEF Left
  <2>5. Stands(D[d], d, Ws, ngram, N, t)
    BY <1>4, <2>1
  <2>6. Tight(D[d]) /\ D[d].deleted = FALSE /\ D[d].word = ngram[d]
    BY <2>1, <2>5 DEF Stands
  <2> HIDE DEF kids, U, n
  <2>7. /\ Tidy(U[d]) /\ Tight(U[d]) /\ Kids(U[d]) = kids
        /\ U[d].word = ngram[d] /\ U[d].deleted = FALSE
    BY <2>2, <2>4, <2>6 DEF Stayed
  <2>8. Shown(U[d]) = Shown(s[Top(ngram, d)])
    BY <2>2, <2>4
  <2>9. Renews(U, d, s, ngram)
    BY <2>7, <2>8 DEF Renews
  <2>10. d = n => Kids(U[d]) = Kids(D[d])
    BY <2>7 DEF kids
  <2>11. d # n => Kids(U[d]) = Others(D[d], ngram[d + 1])
                           \union (IF Top(ngram, d + 1) \in DOMAIN s THEN {U[d + 1]} ELSE {})
    BY <2>2, <2>7 DEF kids
  <2> QED
    BY <2>9, <2>10, <2>11
<1> HIDE DEF U
<1>10. Rebuilds(U, D, s, ngram)
  <2>1. ASSUME NEW d \in 0..n, d = 0 \/ Top(ngram, d) \in DOMAIN s
        PROVE  Renews(U, d, s, ngram)
    <3>1. CASE d = 0
      BY <1>8, <3>1 DEF Renews
    <3>2. CASE d # 0
      <4>1. d \in 1..n
        BY <1>1, <3>2
      <4> QED
        BY <1>9, <2>1, <3>2, <4>1
    <3> QED
      BY <3>1, <3>2
  <2>2. ASSUME NEW d \in 0..(n - 1), d = 0 \/ Top(ngram, d) \in DOMAIN s
        PROVE  Kids(U[d]) = Others(D[d], ngram[d + 1])
                           \union (IF Top(ngram, d + 1) \in DOMAIN s THEN {U[d + 1]} ELSE {})
    <3>1. CASE d = 0
      BY <1>8, <3>1
    <3>2. CASE d # 0
      <4>1. d \in 1..n /\ d # n
        BY <1>1, <3>2
      <4> QED
        BY <1>9, <2>2, <3>2, <4>1
    <3> QED
      BY <3>1, <3>2
  <2>3. Top(ngram, n) \in DOMAIN s => Kids(U[n]) = Kids(D[n])
    <3>1. n \in 1..n
      BY <1>1
    <3> QED
      BY <1>9, <3>1
  <2> QED
    BY <2>1, <2>2, <2>3 DEF Rebuilds
<1>11. NodesFit(M, s) /\ ChildrenFit(U[0], <<>>, Ws, M, s)
  BY <1>4, <1>7, <1>10, Rebuilt
<1>12. BucketFits(U[0], Ws, M, s)
  BY <1>8, <1>11 DEF BucketFits
<1>13. Without(x, ngram).node = U[0] /\ Without(x, ngram).removed = after[1].removed
  <2>1. 0 \in 0..n
    BY <1>1
  <2> QED
    BY <1>2a, <2>1 DEF U
<1>14. Shortened(Without(x, ngram), s, ngram, Ws, M)
  BY <1>8, <1>11, <1>12, <1>13 DEF Shortened
<1> QED
  BY <1>14

-----------------------------------------------------------------------------
(***************************************************************************)
(* The hash table.                                                         *)
(***************************************************************************)
\* p and round account for the buckets, and those allocated last until the round
\* is over.
Counts(b, a, p, r) ==
  /\ r \in Nat /\ p \in Nat /\ p < Width[r] /\ b = Width[r] + p
  /\ a \in Nat /\ Width[r] <= a /\ (p # 0 => 2 * Width[r] <= a)

IsTable(table) ==
  /\ table = [Phashtable |-> table.Phashtable, Buckets |-> table.Buckets,
              allocated |-> table.allocated, p |-> table.p, round |-> table.round,
              Records |-> table.Records]
  /\ Counts(table.Buckets, table.allocated, table.p, table.round)
  /\ table.Phashtable = [b \in 0..(table.Buckets - 1) |-> table.Phashtable[b]]

\* The words that belong in a bucket.
Home(table, b) == {w \in Words : Destination(table, w) = b}

\* Where a word belongs.
Goal(w, r, p) ==
  IF Hash_function(w, r) < p THEN Hash_function(w, r + 1) ELSE Hash_function(w, r)

LEMMA WordGoes ==
  ASSUME NEW r \in Nat, NEW p \in Nat, p < Width[r], NEW w \in Words
  PROVE  /\ Goal(w, r, p) \in 0..(Width[r] + p - 1)
         /\ Goal(w, r, p) = p <=> Hash_function(w, r) = p
         /\ Hash_function(w, r) = p =>
              Hash_function(w, r + 1) = p \/ Hash_function(w, r + 1) = Width[r] + p
<1> DEFINE h == Hash_function(w, r)
           g == Hash_function(w, r + 1)
           W == Width[r]
<1>1. W \in Nat \ {0}
  BY WidthDoubles
<1>2. h \in 0..(W - 1) /\ (g = h \/ g = h + W)
  BY HashRounds
<1>3. Goal(w, r, p) = IF h < p THEN g ELSE h
  BY DEF Goal
<1>4. p < W
  OBVIOUS
<1> HIDE DEF h, g, W
<1>5. CASE h < p
  <2>1. Goal(w, r, p) = g /\ g # p /\ h # p /\ g \in 0..(W + p - 1)
    BY <1>1, <1>2, <1>3, <1>4, <1>5
  <2> QED
    BY <2>1 DEF h, W
<1>6. CASE ~(h < p)
  <2>1. Goal(w, r, p) = h /\ h \in 0..(W + p - 1)
    BY <1>1, <1>2, <1>3, <1>4, <1>6
  <2>2. h = p => g = p \/ g = W + p
    BY <1>1, <1>2
  <2> QED
    BY <2>1, <2>2 DEF h, g, W
<1> QED
  BY <1>5, <1>6

\* Where it belongs once bucket p is split.
LEMMA GoalAfterSplit ==
  ASSUME NEW r \in Nat, NEW p \in Nat, p < Width[r], NEW w \in Words,
         NEW rr, rr = IF p + 1 = Width[r] THEN r + 1 ELSE r,
         NEW pp, pp = IF p + 1 = Width[r] THEN 0 ELSE p + 1
  PROVE  Goal(w, rr, pp) = IF Hash_function(w, r) = p THEN Hash_function(w, r + 1)
                           ELSE Goal(w, r, p)
<1> DEFINE h == Hash_function(w, r)
           g == Hash_function(w, r + 1)
           W == Width[r]
<1>1. W \in Nat \ {0}
  BY WidthDoubles
<1>2. h \in 0..(W - 1) /\ (g = h \/ g = h + W)
  BY HashRounds
<1>3. Goal(w, r, p) = IF h < p THEN g ELSE h
  BY DEF Goal
<1>4. p < W
  OBVIOUS
<1>5. CASE p + 1 = W
  <2>1. rr = r + 1 /\ pp = 0
    BY <1>5
  <2>2. Goal(w, r + 1, 0) = IF g < 0 THEN Hash_function(w, r + 1 + 1) ELSE g
    BY DEF Goal
  <2> HIDE DEF h, g, W
  <2>3. ~(g < 0)
    BY <1>1, <1>2
  <2>4. Goal(w, rr, pp) = g
    BY <2>1, <2>2, <2>3
  <2>5. h < p \/ h = p
    BY <1>1, <1>2, <1>5
  <2>6. Goal(w, rr, pp) = IF h = p THEN g ELSE Goal(w, r, p)
    BY <1>3, <2>4, <2>5
  <2> QED
    BY <2>6 DEF h, g
<1>6. CASE p + 1 # W
  <2>1. rr = r /\ pp = p + 1
    BY <1>6
  <2>2. Goal(w, r, p + 1) = IF h < p + 1 THEN g ELSE h
    BY DEF Goal
  <2> HIDE DEF h, g, W
  <2>3. h < p + 1 <=> h < p \/ h = p
    BY <1>1, <1>2
  <2>4. ~(p < p)
    OBVIOUS
  <2>5. Goal(w, rr, pp) = IF h = p THEN g ELSE Goal(w, r, p)
    BY <1>3, <2>1, <2>2, <2>3, <2>4
  <2> QED
    BY <2>5 DEF h, g
<1> QED
  BY <1>5, <1>6

LEMMA DestinationIs ==
  ASSUME NEW table, NEW w
  PROVE  Destination(table, w) = Goal(w, table.round, table.p)
BY DEF Destination, Goal

\* The counts after a split, and after the reallocation before it.
LEMMA CountsAfterSplit ==
  ASSUME NEW b, NEW a, NEW p, NEW r, Counts(b, a, p, r), 2 * Width[r] <= a,
         NEW rr, rr = IF p + 1 = Width[r] THEN r + 1 ELSE r,
         NEW pp, pp = IF p + 1 = Width[r] THEN 0 ELSE p + 1
  PROVE  Counts(b + 1, a, pp, rr)
<1> DEFINE W == Width[r]
<1>1. r \in Nat /\ p \in Nat /\ p < W /\ b = W + p /\ a \in Nat /\ 2 * W <= a
  BY DEF Counts
<1>2. W \in Nat \ {0} /\ Width[r + 1] = 2 * W
  BY <1>1, WidthDoubles
<1>3. CASE p + 1 = W
  <2>1. rr = r + 1 /\ pp = 0
    BY <1>3
  <2> HIDE DEF W
  <2>2. rr \in Nat /\ pp \in Nat /\ pp < Width[rr] /\ b + 1 = Width[rr] + pp
        /\ Width[rr] <= a /\ ~(pp # 0)
    BY <1>1, <1>2, <1>3, <2>1
  <2> QED
    BY <1>1, <2>2 DEF Counts
<1>4. CASE p + 1 # W
  <2>1. rr = r /\ pp = p + 1
    BY <1>4
  <2>2. Width[rr] = W
    BY <2>1
  <2> HIDE DEF W
  <2>3. rr \in Nat /\ pp \in Nat /\ pp < Width[rr] /\ b + 1 = Width[rr] + pp
        /\ Width[rr] <= a /\ 2 * Width[rr] <= a
    BY <1>1, <1>2, <1>4, <2>1, <2>2
  <2> QED
    BY <1>1, <2>3 DEF Counts
<1> QED
  BY <1>3, <1>4

LEMMA CountsAllocated ==
  ASSUME NEW b, NEW a, NEW p, NEW r, Counts(b, a, p, r),
         NEW c, c = IF p = 0 THEN 2 * b ELSE a
  PROVE  Counts(b, c, p, r) /\ 2 * Width[r] <= c
<1> DEFINE W == Width[r]
<1>1. r \in Nat /\ p \in Nat /\ p < W /\ b = W + p /\ a \in Nat /\ W <= a
      /\ (p # 0 => 2 * W <= a)
  BY DEF Counts
<1>2. W \in Nat \ {0}
  BY <1>1, WidthDoubles
<1>3. c \in Nat /\ 2 * W <= c /\ W <= c
  <2> HIDE DEF W
  <2> QED
    BY <1>1, <1>2
<1> QED
  BY <1>1, <1>3 DEF Counts

-----------------------------------------------------------------------------
(***************************************************************************)
(* A bucket split.                                                         *)
(***************************************************************************)
\* The children of the first d slots that go to the new bucket.
Went(z, d, r, p) ==
  {z.children[j] : j \in {l \in Live(z) : l < d /\ Hash_function(z.children[l].word, r + 1) # p}}

\* After d turns of the loop: x was the bucket z, y is the new one.
Splits(z, x, y, d, r, p) ==
  /\ Tidy(x) /\ Size(x) = Size(z)
  /\ \A j \in d..(Size(z) - 1) : x.children[j] = z.children[j]
  /\ Kids(x) = Kids(z) \ Went(z, d, r, p)
  /\ \A k \in Dead(x) : k \in Dead(z) \/ Hash_function(k.word, r + 1) # p
  /\ Tidy(y) /\ Kids(y) = Went(z, d, r, p) /\ Dead(y) = {}

LEMMA LeftBehindIs ==
  ASSUME NEW k, IsNode(k)
  PROVE  /\ LeftBehind(k).word = k.word /\ LeftBehind(k).deleted = TRUE
         /\ Emptied(LeftBehind(k))
<1> DEFINE yes == TRUE
           empty == <<>>
           y == LeftBehind(k)
<1>1. y = [[k EXCEPT !.children = empty, !.freed = yes] EXCEPT !.deleted = yes, !.owned = 0]
  BY DEF LeftBehind, Freed
<1> HIDE DEF yes, empty, y
<1>2. y.word = k.word /\ y.deleted = yes /\ y.freed = yes /\ y.owned = 0
  BY <1>1 DEF IsNode
<1> QED
  BY <1>2 DEF yes, y, Emptied

LEMMA WentOn ==
  ASSUME NEW z, Tidy(z), NEW d \in Slots(z), NEW r, NEW p, NEW k, k = z.children[d]
  PROVE  /\ k.deleted \/ Hash_function(k.word, r + 1) = p => Went(z, d + 1, r, p) = Went(z, d, r, p)
         /\ ~(k.deleted \/ Hash_function(k.word, r + 1) = p) =>
              /\ Went(z, d + 1, r, p) = Went(z, d, r, p) \union {k}
              /\ k \in Kids(z) /\ k \notin Went(z, d, r, p)
              /\ \A l \in Went(z, d, r, p) : l.word # k.word
<1>1. /\ Slots(z) = 0..(Size(z) - 1) /\ Size(z) \in Nat
      /\ Live(z) = {j \in Slots(z) : ~z.children[j].deleted}
  BY TidyNode
<1>2. d \in Nat /\ \A j \in Live(z) : j \in Nat /\ (j < d + 1 <=> j < d \/ j = d)
  BY <1>1
<1>3. d \in Live(z) <=> ~k.deleted
  BY <1>1
<1> DEFINE g(j) == Hash_function(z.children[j].word, r + 1)
           S(e) == {l \in Live(z) : l < e /\ g(l) # p}
<1>4. Went(z, d, r, p) = {z.children[j] : j \in S(d)}
      /\ Went(z, d + 1, r, p) = {z.children[j] : j \in S(d + 1)}
  BY DEF Went
<1>5. g(d) = Hash_function(k.word, r + 1)
  OBVIOUS
<1> HIDE DEF g
<1>6. CASE k.deleted \/ Hash_function(k.word, r + 1) = p
  <2>1. S(d + 1) = S(d)
    BY <1>2, <1>3, <1>5, <1>6
  <2> QED
    BY <1>4, <1>6, <2>1
<1>7. CASE ~(k.deleted \/ Hash_function(k.word, r + 1) = p)
  <2>1. S(d + 1) = S(d) \union {d}
    <3>1. d \in Live(z) /\ g(d) # p
      BY <1>3, <1>5, <1>7
    <3> QED
      BY <1>2, <3>1
  <2>2. k \in Kids(z)
    BY <1>3, <1>7 DEF Kids
  <2>3. \A l \in Went(z, d, r, p) : l.word # k.word
    <3>1. \A j \in S(d) : z.children[j].word # k.word
      <4>1. \A j \in S(d) : j \in Slots(z) /\ j < d
        BY <1>1
      <4>2. \A j, l \in Slots(z) : j < l => z.children[j].word < z.children[l].word
        BY DEF Tidy
      <4>3. \A j \in Slots(z) : z.children[j].word \in Nat
        BY TidySlots
      <4> HIDE DEF S
      <4>4. \A j \in S(d) : z.children[j].word < z.children[d].word
        BY <4>1, <4>2
      <4>5. \A j \in S(d) : z.children[j].word \in Nat /\ z.children[d].word \in Nat
        BY <4>1, <4>3
      <4>6. \A a, b \in Nat : a < b => a # b
        OBVIOUS
      <4> QED
        BY <4>4, <4>5, <4>6
    <3> QED
      BY <1>4, <3>1
  <2> HIDE DEF S
  <2>4. Went(z, d + 1, r, p) = Went(z, d, r, p) \union {k}
    BY <1>4, <2>1
  <2>5. k \notin Went(z, d, r, p)
    BY <2>3
  <2> QED
    BY <1>7, <2>2, <2>3, <2>4, <2>5
<1> QED
  BY <1>6, <1>7

\* A child that stays.
LEMMA SplitStays ==
  ASSUME NEW z, Tidy(z), NEW x, NEW y, NEW d \in Slots(z), NEW r, NEW p,
         Splits(z, x, y, d, r, p), NEW k, k = x.children[d],
         k.deleted \/ Hash_function(k.word, r + 1) = p
  PROVE  Splits(z, x, y, d + 1, r, p)
<1>1. Slots(z) = 0..(Size(z) - 1) /\ Size(z) \in Nat
  BY TidyNode
<1>2. d \in d..(Size(z) - 1) /\ \A j \in (d + 1)..(Size(z) - 1) : j \in d..(Size(z) - 1)
  BY <1>1
<1>3. k = z.children[d]
  BY <1>2 DEF Splits
<1>4. Went(z, d + 1, r, p) = Went(z, d, r, p)
  BY <1>3, WentOn
<1> QED
  BY <1>2, <1>4 DEF Splits

\* A child that goes.
LEMMA SplitMoves ==
  ASSUME NEW z, Tidy(z), NEW x, NEW y, NEW d \in Slots(z), NEW r, NEW p,
         Splits(z, x, y, d, r, p), NEW k, k = x.children[d], IsNode(k),
         ~(k.deleted \/ Hash_function(k.word, r + 1) = p),
         NEW xx, xx = [x EXCEPT !.children[d] = LeftBehind(k), !.deletedChildren = @ + 1]
  PROVE  Splits(z, xx, AddChild(y, k), d + 1, r, p)
<1> DEFINE yy == AddChild(y, k)
           c == LeftBehind(k)
           w == k.word
<1>1. Slots(z) = 0..(Size(z) - 1) /\ Size(z) \in Nat
  BY TidyNode
<1>2. d \in d..(Size(z) - 1) /\ \A j \in (d + 1)..(Size(z) - 1) : j \in d..(Size(z) - 1) /\ j # d
  BY <1>1
<1>3. k = z.children[d]
  BY <1>2 DEF Splits
<1>4. /\ Went(z, d + 1, r, p) = Went(z, d, r, p) \union {k}
      /\ k \in Kids(z) /\ k \notin Went(z, d, r, p)
      /\ \A l \in Went(z, d, r, p) : l.word # k.word
  BY <1>3, WentOn
<1>5. /\ Tidy(x) /\ Size(x) = Size(z) /\ Tidy(y)
      /\ Kids(x) = Kids(z) \ Went(z, d, r, p) /\ Kids(y) = Went(z, d, r, p) /\ Dead(y) = {}
      /\ \A j \in d..(Size(z) - 1) : x.children[j] = z.children[j]
      /\ \A l \in Dead(x) : l \in Dead(z) \/ Hash_function(l.word, r + 1) # p
  BY DEF Splits
<1>6. w \in Words /\ k.deleted = FALSE
  <2>1. k \in Kids(z)
    BY <1>4
  <2> QED
    BY <2>1, KidsDiffer
<1>7. c.word = w /\ c.deleted = TRUE /\ Emptied(c)
  BY LeftBehindIs
<1>8. d \in Slots(x)
  BY <1>1, <1>5 DEF Slots
<1>9. Has(x, w)
  BY <1>4, <1>5 DEF Has
<1>10. BinarySearch(x, w).position = d
  BY <1>5, <1>6, <1>8, Searching
<1>11. xx = Marked(x, w, c)
  <2>1. IsNode(x)
    BY <1>5 DEF Tidy
  <2>2. Marked(x, w, c) = [[x EXCEPT !.children[d] = c] EXCEPT !.deletedChildren = @ + 1]
    BY <1>10 DEF Marked, SetChild
  <2>3. xx = [x EXCEPT !.children[d] = c, !.deletedChildren = @ + 1]
    OBVIOUS
  <2> HIDE DEF c, w
  <2> QED
    BY <2>1, <2>2, <2>3 DEF IsNode
<1>12. Marks(x, c, xx)
  <2> HIDE DEF c, w
  <2>1. Marks(x, c, Marked(x, w, c))
    BY <1>5, <1>6, <1>7, <1>9, SetDeletedIs
  <2> QED
    BY <1>11, <2>1
<1>13. /\ xx.maxChildren = x.maxChildren /\ xx.emptySpace = x.emptySpace
       /\ xx.children = [x.children EXCEPT ![d] = c]
  <2>1. IsNode(x)
    BY <1>5 DEF Tidy
  <2>2. xx = [x EXCEPT !.children[d] = c, !.deletedChildren = @ + 1]
    OBVIOUS
  <2> HIDE DEF c, w
  <2> QED
    BY <2>1, <2>2 DEF IsNode
<1> HIDE DEF c, w, yy
<1>14. Tidy(xx) /\ Kids(xx) = Others(x, w) /\ Dead(xx) = Dead(x) \union {c}
  BY <1>7, <1>12 DEF Marks
<1>15. Size(xx) = Size(z)
  BY <1>5, <1>13 DEF Size
<1>16. ASSUME NEW j \in (d + 1)..(Size(z) - 1) PROVE xx.children[j] = z.children[j]
  <2>1. x.children = [l \in 0..(x.maxChildren - 1) |-> x.children[l]]
    BY <1>5 DEF Tidy
  <2>2. j \in d..(Size(z) - 1) /\ j # d
    BY <1>2
  <2>3. j \in Slots(x) /\ Slots(x) \subseteq 0..(x.maxChildren - 1)
    <3>1. j \in Slots(x)
      BY <1>1, <1>5, <2>2 DEF Slots
    <3> QED
      BY <1>5, <3>1, TidyNode
  <2>4. xx.children[j] = x.children[j]
    BY <1>13, <2>1, <2>2, <2>3
  <2> QED
    BY <1>5, <2>2, <2>4
<1>17. Kids(xx) = Kids(z) \ Went(z, d + 1, r, p)
  <2>1. \A l \in Kids(z) : l.word = w => l = k
    BY <1>4, KidsDiffer DEF w
  <2>2. \A l \in Kids(x) : l.word # w <=> l # k
    BY <1>5, <2>1 DEF w
  <2>3. Kids(xx) = Kids(x) \ {k}
    BY <1>14, <2>2 DEF Others
  <2> QED
    BY <1>4, <1>5, <2>3
<1>18. \A l \in Dead(xx) : l \in Dead(z) \/ Hash_function(l.word, r + 1) # p
  <2>1. Hash_function(c.word, r + 1) # p
    BY <1>7 DEF w
  <2> QED
    BY <1>5, <1>14, <2>1
<1>19. Adds(y, k, yy)
  BY <1>5, <1>6, AddChildIs DEF yy, w
<1>20. ~Has(y, w)
  BY <1>4, <1>5 DEF Has, w
<1>21. Tidy(yy) /\ Kids(yy) = Went(z, d + 1, r, p) /\ Dead(yy) = {}
  BY <1>4, <1>5, <1>19, <1>20 DEF Adds, w
<1>22. Splits(z, xx, yy, d + 1, r, p)
  BY <1>14, <1>15, <1>16, <1>17, <1>18, <1>21 DEF Splits
<1> QED
  BY <1>22 DEF yy

\* M is the table T whose bucket z = T.Phashtable[T.p] is being split.
InSplit(T, M, d) ==
  /\ M = [Phashtable |-> M.Phashtable, Buckets |-> T.Buckets + 1,
          allocated |-> T.allocated, p |-> T.p, round |-> T.round, Records |-> T.Records]
  /\ M.Phashtable = [b \in 0..T.Buckets |-> M.Phashtable[b]]
  /\ \A b \in 0..(T.Buckets - 1) : b # T.p => M.Phashtable[b] = T.Phashtable[b]
  /\ Splits(T.Phashtable[T.p], M.Phashtable[T.p], M.Phashtable[T.Buckets], d, T.round, T.p)

LEMMA SplitBegins ==
  ASSUME NEW T, IsTable(T), Tidy(T.Phashtable[T.p])
  PROVE  InSplit(T, Wider(T), 0)
<1> DEFINE z == T.Phashtable[T.p]
           B == T.Buckets
           M == Wider(T)
           F == [b \in 0..B |-> IF b < B THEN T.Phashtable[b] ELSE InitBucket]
<1>1. /\ B \in Nat /\ T.p \in Nat /\ T.p < B
      /\ T = [Phashtable |-> T.Phashtable, Buckets |-> T.Buckets, allocated |-> T.allocated,
              p |-> T.p, round |-> T.round, Records |-> T.Records]
  <2>1. Counts(B, T.allocated, T.p, T.round)
    BY DEF IsTable
  <2>2. Width[T.round] \in Nat \ {0}
    BY <2>1, WidthDoubles DEF Counts
  <2>3. B \in Nat /\ T.p \in Nat /\ T.p < B
    BY <2>1, <2>2 DEF Counts
  <2> QED
    BY <2>3 DEF IsTable
<1>2. M = [T EXCEPT !.Phashtable = F, !.Buckets = @ + 1]
  BY DEF Wider
<1> HIDE DEF F, M
<1>3. M = [Phashtable |-> F, Buckets |-> B + 1, allocated |-> T.allocated,
           p |-> T.p, round |-> T.round, Records |-> T.Records]
  BY <1>1, <1>2
<1>4. M.Phashtable = F
  BY <1>3
<1>5. /\ F = [b \in 0..B |-> F[b]]
      /\ \A b \in 0..(B - 1) : F[b] = T.Phashtable[b]
      /\ F[B] = InitBucket /\ F[T.p] = z
  <2>1. \A b \in 0..(B - 1) : b \in 0..B /\ b < B
    BY <1>1
  <2>2. B \in 0..B /\ ~(B < B) /\ T.p \in 0..(B - 1)
    BY <1>1
  <2> QED
    BY <2>1, <2>2 DEF F
<1>6. Went(z, 0, T.round, T.p) = {}
  <2>1. \A l \in Live(z) : l \in Nat
    BY TidyNode
  <2>2. \A l \in Nat : ~(l < 0)
    OBVIOUS
  <2> QED
    BY <2>1, <2>2 DEF Went
<1>7. Tidy(InitBucket) /\ Kids(InitBucket) = {} /\ Dead(InitBucket) = {}
  BY FreshNodes
<1>8. Splits(z, z, InitBucket, 0, T.round, T.p)
  BY <1>6, <1>7 DEF Splits
<1>9. \A b \in 0..(B - 1) : M.Phashtable[b] = T.Phashtable[b]
  BY <1>4, <1>5
<1>10. M = [Phashtable |-> M.Phashtable, Buckets |-> T.Buckets + 1,
            allocated |-> T.allocated, p |-> T.p, round |-> T.round, Records |-> T.Records]
  BY <1>3, <1>4
<1>11. M.Phashtable = [b \in 0..B |-> M.Phashtable[b]]
  BY <1>4, <1>5
<1>12. Splits(z, M.Phashtable[T.p], M.Phashtable[B], 0, T.round, T.p)
  BY <1>4, <1>5, <1>8
<1>13. InSplit(T, M, 0)
  BY <1>9, <1>10, <1>11, <1>12 DEF InSplit
<1> QED
  BY <1>13 DEF M

LEMMA SplitTurn ==
  ASSUME NEW T, IsTable(T), NEW z, z = T.Phashtable[T.p], Tidy(z),
         \A k \in Kids(z) : IsNode(k) /\ (\/ Hash_function(k.word, T.round + 1) = T.p
                                          \/ Hash_function(k.word, T.round + 1) = T.Buckets),
         NEW M, NEW d \in Slots(z), InSplit(T, M, d)
  PROVE  InSplit(T, Moved(M, d), d + 1)
<1> DEFINE B == T.Buckets
           p == T.p
           r == T.round
           P == M.Phashtable
           x == P[p]
           y == P[B]
           k == x.children[d]
           to == Hash_function(k.word, r + 1)
<1>1. B \in Nat /\ p \in Nat /\ p < B
  <2>1. Counts(B, T.allocated, p, r)
    BY DEF IsTable
  <2>2. Width[r] \in Nat \ {0}
    BY <2>1, WidthDoubles DEF Counts
  <2> QED
    BY <2>1, <2>2 DEF Counts
<1>2. /\ M = [Phashtable |-> P, Buckets |-> B + 1, allocated |-> T.allocated,
              p |-> p, round |-> r, Records |-> T.Records]
      /\ P = [b \in 0..B |-> P[b]]
      /\ \A b \in 0..(B - 1) : b # p => P[b] = T.Phashtable[b]
      /\ Splits(z, x, y, d, r, p)
  BY DEF InSplit
<1>3. M.p = p /\ M.round = r
  BY <1>2
<1>4. Moved(M, d) = IF k.deleted \/ to = p THEN M
        ELSE [M EXCEPT !.Phashtable[to] = AddChild(@, k),
                       !.Phashtable[p].children[d] = LeftBehind(k),
                       !.Phashtable[p].deletedChildren = @ + 1]
  BY <1>3 DEF Moved
<1>5. CASE k.deleted \/ to = p
  <2>1. Splits(z, x, y, d + 1, r, p)
    <3> HIDE DEF x, y, r, p
    <3> QED
      BY <1>2, <1>5, SplitStays DEF k, to
  <2>2. Moved(M, d) = M
    BY <1>4, <1>5
  <2> QED
    BY <1>2, <2>1, <2>2 DEF InSplit
<1>6. CASE ~(k.deleted \/ to = p)
  <2> DEFINE c == LeftBehind(k)
             xx == [x EXCEPT !.children[d] = c, !.deletedChildren = @ + 1]
             yy == AddChild(y, k)
             G == [b \in 0..B |-> IF b = p THEN xx ELSE IF b = B THEN yy ELSE P[b]]
  <2>1. k \in Kids(z)
    <3>1. Slots(z) = 0..(Size(z) - 1) /\ Size(z) \in Nat
      BY TidyNode
    <3>2. d \in d..(Size(z) - 1)
      BY <3>1
    <3>3. k = z.children[d]
      BY <1>2, <3>2 DEF Splits
    <3>4. d \in Live(z)
      BY <1>6, <3>3 DEF Live
    <3> QED
      BY <3>3, <3>4 DEF Kids
  <2>2. IsNode(k) /\ to = B
    BY <1>6, <2>1
  <2>3. Splits(z, xx, yy, d + 1, r, p)
    <3>1. xx = [x EXCEPT !.children[d] = LeftBehind(k), !.deletedChildren = @ + 1]
      OBVIOUS
    <3>2. k = x.children[d] /\ ~(k.deleted \/ Hash_function(k.word, r + 1) = p)
      BY <1>6
    <3> HIDE DEF x, y, r, p, xx, k
    <3> QED
      BY <1>2, <2>2, <3>1, <3>2, SplitMoves
  <2>4. Moved(M, d) = [M EXCEPT !.Phashtable[B] = AddChild(@, k),
                                !.Phashtable[p].children[d] = c,
                                !.Phashtable[p].deletedChildren = @ + 1]
    BY <1>4, <1>6, <2>2
  <2>5. p \in 0..B /\ B \in 0..B /\ p # B
    BY <1>1
  <2>6. Moved(M, d) = [Phashtable |-> G, Buckets |-> B + 1, allocated |-> T.allocated,
                       p |-> p, round |-> r, Records |-> T.Records]
    <3> DEFINE e == M.Phashtable[p].deletedChildren + 1
               Rec(F) == [Phashtable |-> F, Buckets |-> B + 1, allocated |-> T.allocated,
                          p |-> p, round |-> r, Records |-> T.Records]
               P1 == [P EXCEPT ![B] = yy]
               P2 == [P1 EXCEPT ![p].children[d] = c]
               P3 == [P2 EXCEPT ![p].deletedChildren = e]
    <3> DEFINE M1 == [M EXCEPT !.Phashtable[B] = AddChild(@, k)]
               M2 == [M1 EXCEPT !.Phashtable[p].children[d] = c]
               M3 == [M2 EXCEPT !.Phashtable[p].deletedChildren = e]
    <3>1. M = Rec(P)
      BY <1>2
    <3> HIDE DEF P, c, k, B, p, y
    <3>2. Moved(M, d) = M3
      BY <2>4
    <3>3. M1 = Rec(P1)
      BY <3>1 DEF y
    <3> HIDE DEF P1, M1, e
    <3>4. M2 = Rec(P2)
      <4>1. M1.Phashtable = P1
        BY <3>3
      <4> DEFINE Q == [M1.Phashtable EXCEPT ![p].children[d] = c]
      <4>2. M2 = [M1 EXCEPT !.Phashtable = Q]
        OBVIOUS
      <4>3. Q = P2
        BY <4>1
      <4> HIDE DEF Q, M2, P2
      <4> QED
        BY <3>3, <4>2, <4>3
    <3> HIDE DEF P2, M2
    <3>5. M3 = Rec(P3)
      <4>1. M2.Phashtable = P2
        BY <3>4
      <4> DEFINE Q == [M2.Phashtable EXCEPT ![p].deletedChildren = e]
      <4>2. M3 = [M2 EXCEPT !.Phashtable = Q]
        OBVIOUS
      <4>3. Q = P3
        BY <4>1
      <4> HIDE DEF Q, M3, P3
      <4> QED
        BY <3>4, <4>2, <4>3
    <3>6. Moved(M, d) = Rec(P3)
      BY <3>2, <3>5
    <3> USE DEF P1, P2
    <3>7. P3 = G
      <4>1. P = [b \in 0..B |-> P[b]]
        BY <1>2 DEF P, B
      <4> HIDE DEF yy
      <4>2. P1 = [b \in 0..B |-> IF b = B THEN yy ELSE P[b]]
        BY <2>5, <4>1
      <4>3. P1[p] = P[p]
        BY <2>5, <4>2
      <4> DEFINE x2 == [P[p] EXCEPT !.children[d] = c]
                 x3 == [x2 EXCEPT !.deletedChildren = e]
      <4> HIDE DEF P1
      <4>4. P2 = [P1 EXCEPT ![p] = x2]
        BY <4>3
      <4>5. x3 = xx
        BY DEF x, e, P
      <4> HIDE DEF P2, x2
      <4>6. P2[p] = x2
        BY <2>5, <4>2, <4>4
      <4>7. P3 = [P2 EXCEPT ![p] = x3]
        BY <4>6
      <4> HIDE DEF x3, xx, P3
      <4> QED
        BY <2>5, <4>2, <4>4, <4>5, <4>7
    <3> QED
      BY <3>6, <3>7 DEF Rec
  <2> HIDE DEF xx, yy
  <2>7. /\ G = [b \in 0..B |-> G[b]] /\ G[p] = xx /\ G[B] = yy
        /\ \A b \in 0..(B - 1) : b # p => G[b] = T.Phashtable[b]
    <3>1. \A b \in 0..(B - 1) : b \in 0..B /\ b # B
      BY <1>1
    <3>2. \A b \in 0..(B - 1) : b # p => G[b] = P[b]
      BY <3>1
    <3> QED
      BY <1>2, <2>5, <3>2
  <2> HIDE DEF G
  <2>8. Moved(M, d).Phashtable = G
    BY <2>6
  <2> QED
    BY <2>3, <2>6, <2>7, <2>8 DEF InSplit
<1> QED
  BY <1>5, <1>6

\* The whole loop.
SplitsTo(T, S) ==
  \E M : InSplit(T, M, Size(T.Phashtable[T.p])) /\ S = Advanced(M, T.round, T.p)

LEMMA SplitLoop ==
  ASSUME NEW T, IsTable(T), NEW z, z = T.Phashtable[T.p], Tidy(z),
         \A k \in Kids(z) : IsNode(k) /\ (\/ Hash_function(k.word, T.round + 1) = T.p
                                          \/ Hash_function(k.word, T.round + 1) = T.Buckets)
  PROVE  SplitsTo(T, Split(T))
<1> DEFINE n == Size(z)
<1>1. n \in Nat /\ Slots(z) = 0..(n - 1)
  BY TidyNode
<1>2. PICK moved :
        /\ moved[0] = Wider(T)
        /\ \A d \in 1..n : moved[d] = Moved(moved[d - 1], d - 1)
        /\ Split(T) = Advanced(moved[n], T.round, T.p)
  BY <1>1, SplitRuns
<1> DEFINE K == {d \in 0..n : InSplit(T, moved[d], d)}
<1> HIDE DEF n
<1>3. 0 \in K
  BY <1>1, <1>2, SplitBegins
<1>4. ASSUME NEW d \in 0..(n - 1), d \in K PROVE d + 1 \in K
  <2>1. d + 1 \in 0..n /\ d + 1 \in 1..n /\ (d + 1) - 1 = d /\ d \in Slots(z)
    BY <1>1
  <2>2. moved[d + 1] = Moved(moved[d], d)
    <3>1. moved[d + 1] = Moved(moved[(d + 1) - 1], (d + 1) - 1)
      BY <1>2, <2>1
    <3> QED
      BY <2>1, <3>1
  <2>3. InSplit(T, moved[d], d)
    BY <1>4
  <2>4. InSplit(T, Moved(moved[d], d), d + 1)
    BY <2>1, <2>3, SplitTurn
  <2> QED
    BY <2>1, <2>2, <2>4
<1> HIDE DEF K
<1>5. \A d \in 0..n : d \in K
  BY <1>1, <1>3, <1>4, SetInduction
<1>6. n \in 0..n
  BY <1>1
<1>7. InSplit(T, moved[n], n)
  BY <1>5, <1>6 DEF K
<1> QED
  BY <1>2, <1>7 DEF SplitsTo, n

\* The table after it.
WasSplit(T, S, M) ==
  /\ S.Buckets = T.Buckets + 1 /\ S.Records = T.Records
  /\ S.round = IF T.p + 1 = Width[T.round] THEN T.round + 1 ELSE T.round
  /\ S.p = IF T.p + 1 = Width[T.round] THEN 0 ELSE T.p + 1
  /\ S.Phashtable[T.p] = Trimmed(M.Phashtable[T.p])
  /\ S.Phashtable[T.Buckets] = M.Phashtable[T.Buckets]
  /\ \A b \in 0..(T.Buckets - 1) : b # T.p => S.Phashtable[b] = T.Phashtable[b]

LEMMA AdvancedIs ==
  ASSUME NEW T, IsTable(T), 2 * Width[T.round] <= T.allocated, NEW M, NEW d,
         InSplit(T, M, d), NEW S, S = Advanced(M, T.round, T.p)
  PROVE  IsTable(S) /\ WasSplit(T, S, M)
<1> DEFINE B == T.Buckets
           p == T.p
           r == T.round
           P == M.Phashtable
           last == p + 1 = Width[r]
           rr == IF last THEN r + 1 ELSE r
           pp == IF last THEN 0 ELSE p + 1
           G == [P EXCEPT ![p] = Trimmed(P[p])]
<1>1. Counts(B, T.allocated, p, r)
  BY DEF IsTable
<1>2. B \in Nat /\ p \in Nat /\ p < B
  <2>1. Width[r] \in Nat \ {0}
    BY <1>1, WidthDoubles DEF Counts
  <2> QED
    BY <1>1, <2>1 DEF Counts
<1>3. /\ M = [Phashtable |-> P, Buckets |-> B + 1, allocated |-> T.allocated,
              p |-> p, round |-> r, Records |-> T.Records]
      /\ P = [b \in 0..B |-> P[b]]
      /\ \A b \in 0..(B - 1) : b # p => P[b] = T.Phashtable[b]
  BY DEF InSplit
<1>4. S = [M EXCEPT !.Phashtable = G, !.round = rr, !.p = pp]
  <2> DEFINE rm == IF last THEN M.round + 1 ELSE M.round
             pm == IF last THEN 0 ELSE M.p + 1
  <2>1. S = [M EXCEPT !.Phashtable = G, !.round = rm, !.p = pm]
    BY DEF Advanced
  <2>2. M.round = r /\ M.p = p
    BY <1>3
  <2>3. rm = rr /\ pm = pp
    BY <2>2
  <2> HIDE DEF rm, pm, rr, pp
  <2> QED
    BY <2>1, <2>3
<1> HIDE DEF P, G, rr, pp, last
<1>5. S = [Phashtable |-> G, Buckets |-> B + 1, allocated |-> T.allocated,
           p |-> pp, round |-> rr, Records |-> T.Records]
  BY <1>3, <1>4
<1>6. S.Phashtable = G /\ S.Buckets = B + 1 /\ S.allocated = T.allocated
      /\ S.p = pp /\ S.round = rr /\ S.Records = T.Records
  BY <1>5
<1>7. /\ G = [b \in 0..B |-> G[b]] /\ G[p] = Trimmed(P[p]) /\ G[B] = P[B]
      /\ \A b \in 0..(B - 1) : b # p => G[b] = P[b]
  <2>1. p \in 0..B /\ B \in 0..B /\ p # B
    BY <1>2
  <2>2. \A b \in 0..(B - 1) : b \in 0..B
    BY <1>2
  <2> QED
    BY <1>3, <2>1, <2>2 DEF G
<1>8. Counts(B + 1, T.allocated, pp, rr)
  BY <1>1, CountsAfterSplit DEF pp, rr, last
<1>9. (B + 1) - 1 = B
  BY <1>2
<1>10. S.Phashtable = [b \in 0..(S.Buckets - 1) |-> S.Phashtable[b]]
  BY <1>6, <1>7, <1>9
<1>11. IsTable(S)
  BY <1>5, <1>6, <1>8, <1>10 DEF IsTable
<1>12. WasSplit(T, S, M)
  BY <1>3, <1>6, <1>7 DEF WasSplit, P, pp, rr, last
<1> QED
  BY <1>11, <1>12

\* The arrays and the hash table hold the trie.
TableFits(table, N, t) ==
  /\ NodesFit(N, t)
  /\ \A b \in 0..(table.Buckets - 1) : BucketFits(table.Phashtable[b], Home(table, b), N, t)

SplitGood(T, S, N, t) ==
  IsTable(S) /\ TableFits(S, N, t) /\ S.Records = T.Records

\* A node of a bucket is a node of the trie.
LEMMA BucketKids ==
  ASSUME NEW N, NEW t, NEW x, NEW Ws, NodesFit(N, t), BucketFits(x, Ws, N, t)
  PROVE  \A k \in Kids(x) : IsNode(k) /\ k.word \in Ws
<1> SUFFICES ASSUME NEW k \in Kids(x) PROVE IsNode(k) /\ k.word \in Ws
  OBVIOUS
<1>1. ChildrenFit(x, <<>>, Ws, N, t)
  BY DEF BucketFits
<1>2. k.word \in Ws /\ k = N[Down(<<>>, k.word)] /\ Has(x, k.word)
  BY <1>1 DEF ChildrenFit, Has
<1>3. Down(<<>>, k.word) \in DOMAIN t
  BY <1>1, <1>2 DEF ChildrenFit
<1>4. NodeFits(k, Down(<<>>, k.word), N, t)
  BY <1>2, <1>3 DEF NodesFit
<1>5. Tidy(k)
  BY <1>4, FitsIsTidy DEF NodeFits
<1> QED
  BY <1>2, <1>5 DEF Tidy

LEMMA SplitFits ==
  ASSUME NEW T, IsTable(T), 2 * Width[T.round] <= T.allocated,
         NEW N, NEW t, TableFits(T, N, t), NEW S, S = Split(T)
  PROVE  SplitGood(T, S, N, t)
<1> DEFINE B == T.Buckets
           p == T.p
           r == T.round
           z == T.Phashtable[p]
           g(w) == Hash_function(w, r + 1)
<1>1. /\ r \in Nat /\ p \in Nat /\ p < Width[r] /\ B = Width[r] + p /\ Width[r] \in Nat \ {0}
      /\ B \in Nat /\ p \in 0..(B - 1)
  <2>1. Counts(B, T.allocated, p, r)
    BY DEF IsTable
  <2>2. Width[r] \in Nat \ {0}
    BY <2>1, WidthDoubles DEF Counts
  <2> QED
    BY <2>1, <2>2 DEF Counts
<1>2. /\ NodesFit(N, t)
      /\ \A b \in 0..(B - 1) : BucketFits(T.Phashtable[b], Home(T, b), N, t)
  BY DEF TableFits
<1>3. BucketFits(z, Home(T, p), N, t)
  BY <1>1, <1>2
<1>4. Tidy(z)
  BY <1>3 DEF BucketFits, ChildrenFit
<1>5. ASSUME NEW w \in Words
      PROVE  /\ Destination(T, w) \in 0..(B - 1)
             /\ Destination(T, w) = p => g(w) = p \/ g(w) = B
             /\ Destination(T, w) = p <=> Hash_function(w, r) = p
  BY <1>1, DestinationIs, WordGoes
<1>6. \A k \in Kids(z) : IsNode(k) /\ k.word \in Home(T, p)
  BY <1>2, <1>3, BucketKids
<1>7. \A k \in Kids(z) : g(k.word) = p \/ g(k.word) = B
  BY <1>5, <1>6 DEF Home
<1>8. SplitsTo(T, S)
  BY <1>4, <1>6, <1>7, SplitLoop
<1>9. PICK M : InSplit(T, M, Size(z)) /\ S = Advanced(M, T.round, T.p)
  BY <1>8 DEF SplitsTo
<1>10. IsTable(S) /\ WasSplit(T, S, M)
  BY <1>9, AdvancedIs
<1> DEFINE x == M.Phashtable[p]
           y == M.Phashtable[B]
<1>11. Splits(z, x, y, Size(z), r, p)
  BY <1>9 DEF InSplit
<1>12. /\ S.Buckets = B + 1 /\ S.Records = T.Records
       /\ S.Phashtable[p] = Trimmed(x) /\ S.Phashtable[B] = y
       /\ \A b \in 0..(B - 1) : b # p => S.Phashtable[b] = T.Phashtable[b]
  BY <1>10 DEF WasSplit
<1>13. ASSUME NEW w \in Words
       PROVE  Destination(S, w) = IF Destination(T, w) = p THEN g(w) ELSE Destination(T, w)
  <2>1. /\ S.round = IF p + 1 = Width[r] THEN r + 1 ELSE r
        /\ S.p = IF p + 1 = Width[r] THEN 0 ELSE p + 1
    BY <1>10 DEF WasSplit
  <2>2. Goal(w, S.round, S.p) = IF Hash_function(w, r) = p THEN g(w) ELSE Goal(w, r, p)
    <3> DEFINE rr == S.round
               pp == S.p
    <3>1. /\ rr = IF p + 1 = Width[r] THEN r + 1 ELSE r
          /\ pp = IF p + 1 = Width[r] THEN 0 ELSE p + 1
      BY <2>1
    <3>2. r \in Nat /\ p \in Nat /\ p < Width[r]
      BY <1>1
    <3> HIDE DEF rr, pp, r, p
    <3>3. Goal(w, rr, pp) = IF Hash_function(w, r) = p THEN Hash_function(w, r + 1)
                            ELSE Goal(w, r, p)
      BY <3>1, <3>2, GoalAfterSplit
    <3> QED
      BY <3>3 DEF rr, pp
  <2> QED
    BY <1>5, <2>2, DestinationIs
<1> HIDE DEF x, y, z, g
<1>14. Went(z, Size(z), r, p) = {k \in Kids(z) : g(k.word) # p}
  <2>1. \A l \in Live(z) : l < Size(z)
    BY <1>4, TidyNode
  <2> QED
    BY <2>1 DEF Went, Kids, g
<1>15. /\ Tidy(x) /\ Kids(x) = {k \in Kids(z) : g(k.word) = p}
       /\ \A k \in Dead(x) : k \in Dead(z) \/ g(k.word) # p
       /\ Tidy(y) /\ Kids(y) = {k \in Kids(z) : g(k.word) # p} /\ Dead(y) = {}
  <2>1. /\ Tidy(x) /\ Kids(x) = Kids(z) \ Went(z, Size(z), r, p)
        /\ \A k \in Dead(x) : k \in Dead(z) \/ Hash_function(k.word, r + 1) # p
        /\ Tidy(y) /\ Kids(y) = Went(z, Size(z), r, p) /\ Dead(y) = {}
    BY <1>11 DEF Splits
  <2>2. \A k \in Dead(x) : k \in Dead(z) \/ g(k.word) # p
    BY <2>1 DEF g
  <2> QED
    BY <1>14, <2>1, <2>2
<1>16. Trims(x, Trimmed(x))
  BY <1>15, TrimmedIs
<1>17. /\ \A w \in Home(T, p) : w \in Words /\ (Has(z, w) <=> Down(<<>>, w) \in DOMAIN t)
       /\ \A k \in Kids(z) : k.word \in Home(T, p) /\ k = N[Down(<<>>, k.word)]
       /\ \A k \in Dead(z) : k.word \in Home(T, p) => Size(k) = 0 /\ k.is_final = FALSE
  BY <1>3 DEF BucketFits, ChildrenFit, Home
<1>18. /\ \A w \in Home(S, p) : w \in Home(T, p) /\ g(w) = p
       /\ \A w \in Home(T, p) : g(w) = p => w \in Home(S, p)
       /\ \A w \in Home(S, B) : w \in Home(T, p) /\ g(w) # p
       /\ \A w \in Home(T, p) : g(w) # p => w \in Home(S, B)
       /\ \A b \in 0..(B - 1) : b # p => Home(S, b) = Home(T, b)
  <2>1. \A w \in Words : Destination(T, w) # B /\ p # B
    BY <1>1, <1>5
  <2>2. \A w \in Words : Destination(T, w) = p => g(w) = p \/ g(w) = B
    BY <1>5
  <2>3. \A w \in Words : Destination(T, w) = p => Destination(S, w) = g(w)
    BY <1>13
  <2>4. \A w \in Words : Destination(T, w) # p => Destination(S, w) = Destination(T, w)
    BY <1>13
  <2>5. \A b \in 0..(B - 1) : b # B
    BY <1>1
  <2> QED
    BY <2>1, <2>2, <2>3, <2>4, <2>5 DEF Home
<1>19. BucketFits(Trimmed(x), Home(S, p), N, t)
  <2> DEFINE v == Trimmed(x)
  <2>1. Tidy(v) /\ Kids(v) = {k \in Kids(z) : g(k.word) = p} /\ Dead(v) \subseteq Dead(x)
    BY <1>15, <1>16 DEF Trims
  <2> HIDE DEF v
  <2>2. \A w \in Home(S, p) : Has(v, w) <=> Has(z, w)
    BY <1>18, <2>1 DEF Has
  <2>3. \A w \in Home(S, p) : Has(v, w) <=> Down(<<>>, w) \in DOMAIN t
    BY <1>17, <1>18, <2>2
  <2>4. \A k \in Kids(v) : k.word \in Home(S, p) /\ k = N[Down(<<>>, k.word)]
    BY <1>17, <1>18, <2>1
  <2>5. \A k \in Dead(v) : k.word \in Home(S, p) => Size(k) = 0 /\ k.is_final = FALSE
    BY <1>15, <1>17, <1>18, <2>1
  <2>6. BucketFits(v, Home(S, p), N, t)
    BY <2>1, <2>3, <2>4, <2>5 DEF BucketFits, ChildrenFit
  <2> QED
    BY <2>6 DEF v
<1>20. BucketFits(y, Home(S, B), N, t)
  <2>1. \A w \in Home(S, B) : Has(y, w) <=> Has(z, w)
    BY <1>15, <1>18 DEF Has
  <2>2. \A w \in Home(S, B) : Has(y, w) <=> Down(<<>>, w) \in DOMAIN t
    BY <1>17, <1>18, <2>1
  <2>3. \A k \in Kids(y) : k.word \in Home(S, B) /\ k = N[Down(<<>>, k.word)]
    BY <1>15, <1>17, <1>18
  <2> QED
    BY <1>15, <2>2, <2>3 DEF BucketFits, ChildrenFit
<1>21. ASSUME NEW b \in 0..(S.Buckets - 1)
       PROVE  BucketFits(S.Phashtable[b], Home(S, b), N, t)
  <2>1. b = B \/ b \in 0..(B - 1)
    BY <1>1, <1>12
  <2>2. CASE b = B
    BY <1>12, <1>20, <2>2
  <2>3. CASE b = p
    BY <1>12, <1>19, <2>3
  <2>4. CASE b \in 0..(B - 1) /\ b # p
    <3>1. S.Phashtable[b] = T.Phashtable[b] /\ Home(S, b) = Home(T, b)
      BY <1>12, <1>18, <2>4
    <3> QED
      BY <1>2, <2>4, <3>1
  <2> QED
    BY <2>1, <2>2, <2>3, <2>4
<1> QED
  BY <1>2, <1>10, <1>12, <1>21 DEF SplitGood, TableFits

\* Hashtable_Check_LoadFactor.
LEMMA CheckedFits ==
  ASSUME NEW T, IsTable(T), NEW N, NEW t, TableFits(T, N, t)
  PROVE  SplitGood(T, Checked(T), N, t)
<1> DEFINE c == IF T.p = 0 THEN 2 * T.Buckets ELSE T.allocated
           A == [T EXCEPT !.allocated = c]
           S == Split(A)
<1>1. Checked(T) = IF 4 * T.Records > 3 * T.Buckets * IN_SIZE THEN S ELSE T
  BY DEF Checked
<1>2. /\ T = [Phashtable |-> T.Phashtable, Buckets |-> T.Buckets, allocated |-> T.allocated,
              p |-> T.p, round |-> T.round, Records |-> T.Records]
      /\ Counts(T.Buckets, T.allocated, T.p, T.round)
      /\ T.Phashtable = [b \in 0..(T.Buckets - 1) |-> T.Phashtable[b]]
  BY DEF IsTable
<1>3. Counts(T.Buckets, c, T.p, T.round) /\ 2 * Width[T.round] <= c
  BY <1>2, CountsAllocated
<1> HIDE DEF c
<1>4. A = [Phashtable |-> T.Phashtable, Buckets |-> T.Buckets, allocated |-> c,
           p |-> T.p, round |-> T.round, Records |-> T.Records]
  <2>1. T = [Phashtable |-> T.Phashtable, Buckets |-> T.Buckets, allocated |-> T.allocated,
             p |-> T.p, round |-> T.round, Records |-> T.Records]
    BY <1>2
  <2> QED
    BY <2>1
<1> HIDE DEF A
<1>5. /\ A.Phashtable = T.Phashtable /\ A.Buckets = T.Buckets /\ A.allocated = c
      /\ A.p = T.p /\ A.round = T.round /\ A.Records = T.Records
  BY <1>4
<1>6. IsTable(A) /\ 2 * Width[A.round] <= A.allocated
  BY <1>2, <1>3, <1>4, <1>5 DEF IsTable
<1>7. \A w : Destination(A, w) = Destination(T, w)
  BY <1>5, DestinationIs
<1>8. \A b : Home(A, b) = Home(T, b)
  BY <1>7 DEF Home
<1>9. TableFits(A, N, t)
  BY <1>5, <1>8 DEF TableFits
<1>10. SplitGood(A, S, N, t)
  BY <1>6, <1>9, SplitFits
<1>11. SplitGood(T, S, N, t)
  BY <1>5, <1>10 DEF SplitGood
<1>12. SplitGood(T, T, N, t)
  BY DEF SplitGood
<1> HIDE DEF S
<1> QED
  BY <1>1, <1>11, <1>12

-----------------------------------------------------------------------------
(***************************************************************************)
(* The operations on the table.                                            *)
(***************************************************************************)
\* S is T with another bucket b and another count of records.
Replaces(T, S, b, x, n) ==
  /\ S = [Phashtable |-> S.Phashtable, Buckets |-> T.Buckets, allocated |-> T.allocated,
          p |-> T.p, round |-> T.round, Records |-> n]
  /\ S.Phashtable = [c \in 0..(T.Buckets - 1) |-> IF c = b THEN x ELSE T.Phashtable[c]]

LEMMA TableFields ==
  ASSUME NEW T, IsTable(T), NEW b \in 0..(T.Buckets - 1), NEW x, NEW n
  PROVE  /\ Replaces(T, [T EXCEPT !.Phashtable[b] = x, !.Records = n], b, x, n)
         /\ Replaces(T, [T EXCEPT !.Phashtable[b] = x], b, x, T.Records)
<1> DEFINE P == T.Phashtable
           B == T.Buckets
           G == [P EXCEPT ![b] = x]
           F == [c \in 0..(B - 1) |-> IF c = b THEN x ELSE P[c]]
           S == [T EXCEPT !.Phashtable[b] = x, !.Records = n]
           R == [T EXCEPT !.Phashtable[b] = x]
<1>1. T = [Phashtable |-> P, Buckets |-> B, allocated |-> T.allocated,
           p |-> T.p, round |-> T.round, Records |-> T.Records]
  BY DEF IsTable
<1>2. P = [c \in 0..(B - 1) |-> P[c]]
  BY DEF IsTable
<1>3. S = [T EXCEPT !.Phashtable = G, !.Records = n] /\ R = [T EXCEPT !.Phashtable = G]
  OBVIOUS
<1> HIDE DEF P, S, R
<1>4. G = F
  BY <1>2
<1> HIDE DEF G, F
<1>5. /\ S = [Phashtable |-> G, Buckets |-> B, allocated |-> T.allocated,
              p |-> T.p, round |-> T.round, Records |-> n]
      /\ R = [Phashtable |-> G, Buckets |-> B, allocated |-> T.allocated,
              p |-> T.p, round |-> T.round, Records |-> T.Records]
  BY <1>1, <1>3
<1>6. S.Phashtable = F /\ R.Phashtable = F
  BY <1>4, <1>5
<1>7. Replaces(T, S, b, x, n)
  BY <1>4, <1>5, <1>6 DEF Replaces, F, P
<1>8. Replaces(T, R, b, x, T.Records)
  BY <1>4, <1>5, <1>6 DEF Replaces, F, P
<1> QED
  BY <1>7, <1>8 DEF S, R

LEMMA PutIsTable ==
  ASSUME NEW T, IsTable(T), NEW b \in 0..(T.Buckets - 1), NEW x, NEW n,
         NEW S, Replaces(T, S, b, x, n)
  PROVE  /\ IsTable(S) /\ S.Buckets = T.Buckets /\ S.Records = n
         /\ S.Phashtable[b] = x
         /\ \A c \in 0..(T.Buckets - 1) : c # b => S.Phashtable[c] = T.Phashtable[c]
         /\ \A w : Destination(S, w) = Destination(T, w)
<1> DEFINE F == [c \in 0..(T.Buckets - 1) |-> IF c = b THEN x ELSE T.Phashtable[c]]
<1>1. S = [Phashtable |-> S.Phashtable, Buckets |-> T.Buckets, allocated |-> T.allocated,
           p |-> T.p, round |-> T.round, Records |-> n]
  BY DEF Replaces
<1>2. S.Phashtable = F
  BY DEF Replaces
<1>3. /\ S.Buckets = T.Buckets /\ S.allocated = T.allocated /\ S.p = T.p
      /\ S.round = T.round /\ S.Records = n
  BY <1>1
<1>4. Counts(T.Buckets, T.allocated, T.p, T.round)
  BY DEF IsTable
<1>5. F = [c \in 0..(T.Buckets - 1) |-> F[c]] /\ F[b] = x
      /\ \A c \in 0..(T.Buckets - 1) : c # b => F[c] = T.Phashtable[c]
  OBVIOUS
<1> HIDE DEF F
<1>6. S.Phashtable = [c \in 0..(S.Buckets - 1) |-> S.Phashtable[c]]
  BY <1>2, <1>3, <1>5
<1>7. IsTable(S)
  BY <1>1, <1>3, <1>4, <1>6 DEF IsTable
<1>8. \A w : Destination(S, w) = Destination(T, w)
  BY <1>3, DestinationIs
<1> QED
  BY <1>2, <1>3, <1>5, <1>7, <1>8

\* The table holds the trie t, and counts n children of the root.
HoldsTrie(T, t, n) ==
  IsTable(T) /\ T.Records = n /\ \E N : TableFits(T, N, t)

\* The bucket of an n-gram replaced.
LEMMA PutFits ==
  ASSUME NEW T, IsTable(T), NEW N, NEW t, TableFits(T, N, t),
         NEW ngram \in Seq(Words), ngram # <<>>,
         NEW b \in 0..(T.Buckets - 1), b = Destination(T, ngram[1]),
         NEW s, SameOff(t, s, ngram), NEW U, NEW x, NEW n,
         NodesFit(Renewed(N, U, ngram), s),
         BucketFits(x, Home(T, b), Renewed(N, U, ngram), s),
         NEW S, Replaces(T, S, b, x, n)
  PROVE  HoldsTrie(S, s, n)
<1> DEFINE M == Renewed(N, U, ngram)
<1>1. /\ IsTable(S) /\ S.Buckets = T.Buckets /\ S.Records = n
      /\ S.Phashtable[b] = x
      /\ \A c \in 0..(T.Buckets - 1) : c # b => S.Phashtable[c] = T.Phashtable[c]
      /\ \A w : Destination(S, w) = Destination(T, w)
  BY PutIsTable
<1>2. \A c : Home(S, c) = Home(T, c)
  BY <1>1 DEF Home
<1>3. ASSUME NEW c \in 0..(S.Buckets - 1)
      PROVE  BucketFits(S.Phashtable[c], Home(S, c), M, s)
  <2>1. CASE c = b
    BY <1>1, <1>2, <2>1
  <2>2. CASE c # b
    <3>1. S.Phashtable[c] = T.Phashtable[c] /\ c \in 0..(T.Buckets - 1)
      BY <1>1, <2>2
    <3>2. BucketFits(T.Phashtable[c], Home(T, c), N, t)
      BY <3>1 DEF TableFits
    <3>3. Home(T, c) \subseteq Words /\ ngram[1] \notin Home(T, c)
      BY <2>2 DEF Home
    <3>4. BucketFits(T.Phashtable[c], Home(T, c), M, s)
      BY <3>2, <3>3, OtherBucket
    <3> QED
      BY <1>2, <3>1, <3>4
  <2> QED
    BY <2>1, <2>2
<1> QED
  BY <1>1, <1>3 DEF TableFits, HoldsTrie

\* The bucket of an n-gram.
InBucket(b, T, w, N, t) ==
  /\ b \in 0..(T.Buckets - 1) /\ b = Destination(T, w)
  /\ BucketFits(T.Phashtable[b], Home(T, b), N, t)
  /\ NodesFit(N, t) /\ w \in Home(T, b) /\ Home(T, b) \subseteq Words

LEMMA BucketIs ==
  ASSUME NEW T, IsTable(T), NEW N, NEW t, TableFits(T, N, t), NEW w \in Words
  PROVE  InBucket(Destination(T, w), T, w, N, t)
<1>1. Counts(T.Buckets, T.allocated, T.p, T.round)
  BY DEF IsTable
<1>2. T.round \in Nat /\ T.p \in Nat /\ T.p < Width[T.round] /\ T.Buckets = Width[T.round] + T.p
  BY <1>1 DEF Counts
<1>3. Destination(T, w) \in 0..(T.Buckets - 1)
  <2> DEFINE r == T.round
             p == T.p
             W == Width[r]
  <2>1. Goal(w, r, p) \in 0..(W + p - 1)
    BY <1>2, WordGoes
  <2>2. Destination(T, w) = Goal(w, r, p)
    BY DestinationIs
  <2> DEFINE B == T.Buckets
             c == Destination(T, w)
  <2>3. B = W + p /\ c \in 0..(W + p - 1) /\ p \in Nat /\ W \in Nat
    <3>1. W \in Nat
      BY <1>2, WidthDoubles
    <3> QED
      BY <1>2, <2>1, <2>2, <3>1
  <2> HIDE DEF W, p, B, c
  <2>4. c \in 0..(B - 1)
    BY <2>3
  <2> QED
    BY <2>4 DEF B, c
<1> QED
  BY <1>3 DEF TableFits, Home, InBucket

\* What the searches of the two deletes and of the queries find.
FoundFits(r, words, first, N, t) ==
  /\ r.found \in BOOLEAN
  /\ words \in DOMAIN t => r.found = TRUE /\ r.node = N[words]
  /\ words \notin DOMAIN t /\ r.found = TRUE =>
       /\ first = 2 /\ Len(words) = 1
       /\ Size(r.node) = 0 /\ r.node.is_final = FALSE /\ r.node.deleted = TRUE

LEMMA FoundIs ==
  ASSUME NEW T, IsTable(T), NEW N, NEW t, TableFits(T, N, t), Closed(t),
         NEW words \in Seq(Words), words # <<>>, NEW first \in 1..2,
         NEW r, r = Walked(BucketOf(T, words), words, first)
  PROVE  FoundFits(r, words, first, N, t)
<1> DEFINE b == Destination(T, words[1])
           x == T.Phashtable[b]
<1>1. words[1] \in Words
  <2>1. Len(words) \in Nat /\ Len(words) # 0
    BY Tops
  <2>2. 1 \in 1..Len(words)
    BY <2>1
  <2> QED
    BY <2>2, Tops
<1>2. /\ BucketFits(x, Home(T, b), N, t) /\ NodesFit(N, t)
      /\ words[1] \in Home(T, b) /\ Home(T, b) \subseteq Words
  BY <1>1, BucketIs DEF InBucket
<1>3. r = Walked(x, words, first)
  BY DEF BucketOf
<1>4. \A k \in Dead(x) : k.word \in Home(T, b) => Size(k) = 0 /\ k.is_final = FALSE
  BY <1>2 DEF BucketFits
<1>5. \A k \in Dead(x) : k.deleted = TRUE
  <2>1. Tidy(x)
    BY <1>2, FitsIsTidy DEF BucketFits
  <2> QED
    BY <2>1, KidsDiffer
<1> HIDE DEF x, b
<1> DEFINE Ws == Home(T, b)
<1> HIDE DEF Ws
<1>6. WalkedTo(r, x, words, first, N, t)
  <2>1. /\ BucketFits(x, Ws, N, t) /\ NodesFit(N, t) /\ Ws \subseteq Words
        /\ words[1] \in Ws
    BY <1>2 DEF Ws
  <2> QED
    BY <1>3, <2>1, WalkFinds
<1> QED
  BY <1>2, <1>4, <1>5, <1>6 DEF WalkedTo, FoundFits

-----------------------------------------------------------------------------
(***************************************************************************)
(* What the table and its arrays hold, operation by operation.             *)
(***************************************************************************)
\* The trie without arrays is one of some version.
IsSomeTrie(t) == \E v \in Nat : IsTrie(t, Words, v)

\* The children of the root.
Firsts(t) == {p \in DOMAIN t : Len(p) = 1}

Represents(T, t) ==
  IsSomeTrie(t) /\ IsFiniteSet(Firsts(t)) /\ HoldsTrie(T, t, Cardinality(Firsts(t)))

\* The paths of a trie.
LEMMA SomeTrie ==
  ASSUME NEW t, IsSomeTrie(t)
  PROVE  /\ Closed(t) /\ \A p \in DOMAIN t : t[p].is_final \in BOOLEAN
         /\ \A p \in DOMAIN t : PathNodes(p) \subseteq DOMAIN t
<1>1. PICK v \in Nat : IsTrie(t, Words, v)
  BY DEF IsSomeTrie
<1>2. Closed(t)
  BY <1>1, TrieIsClosed
<1>3. \A p \in DOMAIN t : t[p] \in Node(v)
  BY <1>1 DEF IsTrie
<1>4. \A p \in DOMAIN t : t[p].is_final \in BOOLEAN
  BY <1>3 DEF Node
<1>5. \A p \in DOMAIN t : PathNodes(p) \subseteq DOMAIN t
  BY <1>1 DEF IsTrie
<1> QED
  BY <1>2, <1>4, <1>5

\* The first word of an n-gram.
LEMMA FirstWord ==
  ASSUME NEW ngram \in Seq(Words), ngram # <<>>
  PROVE  /\ ngram[1] \in Words /\ Top(ngram, 1) = <<ngram[1]>>
         /\ Top(ngram, 1) \in PathNodes(ngram) /\ Len(Top(ngram, 1)) = 1
         /\ \A q \in PathNodes(ngram) : Len(q) = 1 => q = Top(ngram, 1)
<1>1. Len(ngram) \in Nat /\ Len(ngram) # 0
  BY Tops
<1>2. 1 \in 1..Len(ngram) /\ 1 \in 0..Len(ngram) /\ 1 - 1 = 0
  BY <1>1
<1>3. ngram[1] \in Words /\ Top(ngram, 1) = Down(Top(ngram, 0), ngram[1])
  BY <1>2, Tops
<1>4. Top(ngram, 1) = <<ngram[1]>>
  <2>1. Top(ngram, 0) = <<>>
    BY Tops
  <2>2. Top(ngram, 1) = Append(<<>>, ngram[1])
    BY <1>3, <2>1 DEF Down
  <2> QED
    BY <2>2
<1>5. Top(ngram, 1) \in PathNodes(ngram) /\ Len(Top(ngram, 1)) = 1
  BY <1>2, Tops
<1>6. \A q \in PathNodes(ngram) : q = Top(ngram, Len(q))
  BY Tops
<1> QED
  BY <1>3, <1>4, <1>5, <1>6

LEMMA EmptyRepresents == Represents(EmptyTable, EmptyTrie)
<1> DEFINE P == [b \in 0..(m - 1) |-> InitBucket]
           T == EmptyTable
           t == EmptyTrie
<1>1. T = [Phashtable |-> P, Buckets |-> m, allocated |-> m, p |-> 0, round |-> 0,
           Records |-> 0]
  BY DEF EmptyTable
<1>2. DOMAIN t = {}
  BY DEF EmptyTrie
<1> HIDE DEF P, T, t
<1>3. /\ T.Phashtable = P /\ T.Buckets = m /\ T.allocated = m /\ T.p = 0 /\ T.round = 0
      /\ T.Records = 0
  BY <1>1
<1>4. m \in Nat \ {0} /\ Width[0] = m
  BY ArraysAssumption, WidthDoubles
<1>5. Counts(m, m, 0, 0)
  BY <1>4 DEF Counts
<1>6. P = [b \in 0..(m - 1) |-> P[b]]
  BY DEF P
<1>7. IsTable(T)
  BY <1>1, <1>3, <1>5, <1>6 DEF IsTable
<1>8. ASSUME NEW b \in 0..(m - 1), NEW N
      PROVE  BucketFits(P[b], Home(T, b), N, t)
  <2> DEFINE x == P[b]
  <2>1. x = InitBucket
    BY <1>8 DEF P
  <2> HIDE DEF x
  <2>2. Tidy(x) /\ Kids(x) = {} /\ Dead(x) = {}
    BY <2>1, FreshNodes
  <2>3. \A w \in Home(T, b) : Has(x, w) <=> Down(<<>>, w) \in DOMAIN t
    BY <1>2, <2>2 DEF Has
  <2>4. BucketFits(x, Home(T, b), N, t)
    BY <2>2, <2>3 DEF BucketFits, ChildrenFit
  <2> QED
    BY <2>4 DEF x
<1>9. \E N : TableFits(T, N, t)
  BY <1>2, <1>3, <1>8 DEF TableFits, NodesFit
<1>10. Firsts(t) = {}
  BY <1>2 DEF Firsts
<1>11. IsFiniteSet(Firsts(t)) /\ Cardinality(Firsts(t)) = 0
  BY <1>10, FS_EmptySet
<1>12. IsSomeTrie(t)
  <2>1. IsTrie(t, Words, 0)
    BY EmptyIsTrie DEF t
  <2> QED
    BY <2>1 DEF IsSomeTrie
<1>13. HoldsTrie(T, t, Cardinality(Firsts(t)))
  BY <1>3, <1>7, <1>9, <1>11 DEF HoldsTrie
<1>14. Represents(T, t)
  BY <1>11, <1>12, <1>13 DEF Represents
<1> QED
  BY <1>14 DEF T, t

\* An n-gram is stored if it is one of the trie.
LEMMA StoredIs ==
  ASSUME NEW T, NEW t, Represents(T, t), NEW ngram \in Seq(Words)
  PROVE  IsStored(T, ngram) <=> ngram \in Finals(t)
<1>1. Closed(t)
  BY SomeTrie DEF Represents
<1>2. CASE ngram = <<>>
  <2>1. ngram \notin DOMAIN t
    BY <1>1, <1>2 DEF Closed
  <2> QED
    BY <1>2, <2>1 DEF IsStored, Finals
<1>3. CASE ngram # <<>>
  <2>1. IsTable(T)
    BY DEF Represents, HoldsTrie
  <2>2. PICK N : TableFits(T, N, t)
    BY DEF Represents, HoldsTrie
  <2> DEFINE r == LookedUp(T, ngram)
             two == 2
  <2>3. two \in 1..2 /\ r = Walked(BucketOf(T, ngram), ngram, two)
    BY DEF LookedUp
  <2> HIDE DEF r, two
  <2>4. FoundFits(r, ngram, two, N, t)
    BY <1>1, <1>3, <2>1, <2>2, <2>3, FoundIs
  <2>5. ASSUME ngram \in DOMAIN t PROVE r.node.is_final = t[ngram].is_final
    <3>1. r.node = N[ngram]
      BY <2>4, <2>5 DEF FoundFits
    <3>2. NodeFits(N[ngram], ngram, N, t)
      BY <2>2, <2>5 DEF TableFits, NodesFit
    <3>3. Shown(r.node) = Shown(t[ngram])
      BY <3>1, <3>2 DEF NodeFits
    <3> QED
      BY <3>3 DEF Shown
  <2>6. r.found /\ r.node.is_final <=> ngram \in Finals(t)
    BY <2>4, <2>5 DEF FoundFits, Finals
  <2> QED
    BY <1>3, <2>6 DEF IsStored, r
<1> QED
  BY <1>2, <1>3

\* The node z at the end of an n-gram, which is new if the trie has none.
EndsAt(z, ngram, t) ==
  /\ Tidy(z)
  /\ ngram \in DOMAIN t => Shown(z) = Shown(t[ngram])
  /\ ngram \notin DOMAIN t => Shown(z) = Shown(NewNode)

LEMMA EndOf ==
  ASSUME NEW T, IsTable(T), NEW N, NEW t, TableFits(T, N, t), Closed(t),
         NEW ngram \in Seq(Words), ngram # <<>>,
         NEW z, z = Along(BucketOf(T, ngram), ngram)[Len(ngram)]
  PROVE  EndsAt(z, ngram, t)
<1> DEFINE b == Destination(T, ngram[1])
           x == T.Phashtable[b]
           Ws == Home(T, b)
           D == Along(x, ngram)
           n == Len(ngram)
<1>1. ngram[1] \in Words
  BY FirstWord
<1>2. InBucket(b, T, ngram[1], N, t)
  BY <1>1, BucketIs
<1>3. BucketFits(x, Ws, N, t) /\ NodesFit(N, t) /\ ngram[1] \in Ws /\ Ws \subseteq Words
  BY <1>2 DEF InBucket
<1>4. ChildrenFit(x, <<>>, Ws, N, t)
  BY <1>3 DEF BucketFits
<1>5. z = D[n]
  BY DEF BucketOf
<1>6. n \in Nat /\ n # 0 /\ Top(ngram, n) = ngram
  BY Tops
<1>7. /\ D[0] = x
      /\ \A d \in 1..n : D[d] = Child(AddChild(D[d - 1], NodeInit(ngram[d])), ngram[d])
  BY <1>6, AlongRuns
<1> HIDE DEF x, Ws, b, D
<1>8. \A d \in 0..n : Stands(D[d], d, Ws, ngram, N, t)
  BY <1>3, <1>4, <1>7, StandsAlong
<1> HIDE DEF n
<1>9. Stands(z, n, Ws, ngram, N, t)
  <2>1. n \in 0..n
    BY <1>6
  <2> QED
    BY <1>5, <1>8, <2>1
<1> QED
  BY <1>6, <1>9 DEF Stands, ChildrenFit, EndsAt

\* The bucket of an n-gram with the nodes along it.
LEMMA ExtendedHolds ==
  ASSUME NEW T, IsTable(T), NEW N, NEW t, TableFits(T, N, t), Closed(t),
         NEW ngram \in Seq(Words), ngram # <<>>,
         NEW s, Closed(s), Extends(s, t, ngram),
         NEW last, Ended(Along(BucketOf(T, ngram), ngram)[Len(ngram)], last),
         Shown(last) = Shown(s[ngram]), NEW n,
         NEW S, Replaces(T, S, Destination(T, ngram[1]),
                         Extended(BucketOf(T, ngram), ngram, last), n)
  PROVE  HoldsTrie(S, s, n)
<1> DEFINE b == Destination(T, ngram[1])
           x == BucketOf(T, ngram)
           y == Extended(x, ngram, last)
           Ws == Home(T, b)
<1>1. ngram[1] \in Words
  BY FirstWord
<1>2. InBucket(b, T, ngram[1], N, t)
  BY <1>1, BucketIs
<1>3. /\ BucketFits(x, Ws, N, t) /\ NodesFit(N, t) /\ ngram[1] \in Ws /\ Ws \subseteq Words
      /\ b \in 0..(T.Buckets - 1)
  BY <1>2 DEF InBucket, BucketOf
<1>4. Ended(Along(x, ngram)[Len(ngram)], last) /\ Replaces(T, S, b, y, n)
      /\ b = Destination(T, ngram[1]) /\ Ws = Home(T, b) /\ y = Extended(x, ngram, last)
  OBVIOUS
<1> HIDE DEF b, x, y, Ws
<1>5. PICK U : /\ NodesFit(Renewed(N, U, ngram), s)
               /\ BucketFits(Extended(x, ngram, last), Ws, Renewed(N, U, ngram), s)
  BY <1>3, <1>4, ExtendedFits
<1>6. SameOff(t, s, ngram)
  <2>1. ngram \in PathNodes(ngram)
    BY PathOf
  <2>2. /\ DOMAIN s = DOMAIN t \union PathNodes(ngram)
        /\ \A p \in DOMAIN t : p # ngram => Shown(s[p]) = Shown(t[p])
    BY DEF Extends
  <2> QED
    BY <2>1, <2>2 DEF SameOff
<1>7. /\ NodesFit(Renewed(N, U, ngram), s)
      /\ BucketFits(y, Ws, Renewed(N, U, ngram), s)
  BY <1>4, <1>5
<1> QED
  BY <1>3, <1>4, <1>6, <1>7, PutFits

\* The children of the root after an insert.
LEMMA FirstsExtended ==
  ASSUME NEW t, IsFiniteSet(Firsts(t)), NEW ngram \in Seq(Words), ngram # <<>>,
         NEW s, DOMAIN s = DOMAIN t \union PathNodes(ngram),
         NEW n, n = IF <<ngram[1]>> \in DOMAIN t THEN Cardinality(Firsts(t))
                    ELSE Cardinality(Firsts(t)) + 1
  PROVE  IsFiniteSet(Firsts(s)) /\ n = Cardinality(Firsts(s))
<1> DEFINE a == Top(ngram, 1)
           F == Firsts(t)
<1>1. /\ a = <<ngram[1]>> /\ a \in PathNodes(ngram) /\ Len(a) = 1
      /\ \A q \in PathNodes(ngram) : Len(q) = 1 => q = a
  BY FirstWord
<1>2. n = IF a \in DOMAIN t THEN Cardinality(F) ELSE Cardinality(F) + 1
  BY <1>1
<1> HIDE DEF a
<1>3. Firsts(s) = F \union {a} /\ (a \in F <=> a \in DOMAIN t)
  BY <1>1 DEF Firsts
<1> HIDE DEF F
<1>4. IsFiniteSet(F)
  BY DEF F
<1>5. /\ IsFiniteSet(F \union {a})
      /\ Cardinality(F \union {a}) = IF a \in F THEN Cardinality(F) ELSE Cardinality(F) + 1
  BY ONLY <1>4, FS_AddElement, Zenon
<1> QED
  BY <1>2, <1>3, <1>5

\* trieInsertSort.
LEMMA InsertRepresents ==
  ASSUME NEW T, NEW t, Represents(T, t), NEW ngram \in Seq(Words), ngram # <<>>,
         NEW version \in Nat,
         NEW b, b = Destination(T, ngram[1]),
         NEW last, last = [Along(T.Phashtable[b], ngram)[Len(ngram)]
                             EXCEPT !.is_final = TRUE, !.A_version = version],
         NEW n, n = IF ~Walked(BucketOf(T, <<ngram[1]>>), <<ngram[1]>>, 1).found
                    THEN T.Records + 1 ELSE T.Records,
         NEW S, S = [T EXCEPT !.Phashtable[b] = Extended(T.Phashtable[b], ngram, last),
                              !.Records = n]
  PROVE  Represents(Checked(S), TrieInsert(t, ngram, version))
<1> DEFINE s == TrieInsert(t, ngram, version)
           x == BucketOf(T, ngram)
           z == Along(x, ngram)[Len(ngram)]
<1>1. /\ IsSomeTrie(t) /\ IsFiniteSet(Firsts(t)) /\ IsTable(T)
      /\ T.Records = Cardinality(Firsts(t)) /\ Closed(t)
  BY SomeTrie DEF Represents, HoldsTrie
<1>2. PICK N : TableFits(T, N, t)
  BY DEF Represents, HoldsTrie
<1>3. x = T.Phashtable[b]
  BY DEF BucketOf
<1>4. PICK u \in Nat : IsTrie(t, Words, u)
  BY <1>1 DEF IsSomeTrie
<1>5. PICK v \in Nat : u <= v /\ version \in 0..v
  <2>1. u <= u + version /\ version \in 0..(u + version) /\ u + version \in Nat
    OBVIOUS
  <2> QED
    BY <2>1
<1>6. IsTrie(t, Words, v)
  BY <1>4, <1>5, VersionsGrow
<1>7. Inserted(s, t, ngram, version, v) /\ IsTrie(s, Words, v)
  BY <1>5, <1>6, InsertNodes, InsertIsTrie
<1>8. IsSomeTrie(s) /\ Closed(s)
  BY <1>7, TrieIsClosed DEF IsSomeTrie
<1> HIDE DEF s, x, z
<1>9. /\ DOMAIN s = DOMAIN t \union PathNodes(ngram) /\ Extends(s, t, ngram)
      /\ s[ngram].is_final = TRUE /\ s[ngram].A_version = version
      /\ ngram \in DOMAIN t => s[ngram].D_version = t[ngram].D_version
      /\ ngram \notin DOMAIN t => s[ngram].D_version = NewNode.D_version
  BY <1>7 DEF Inserted, Extends, NewNode
<1>10. EndsAt(z, ngram, t)
  BY <1>1, <1>2, EndOf DEF z, x
<1>11. z.D_version = s[ngram].D_version
  BY <1>9, <1>10 DEF EndsAt, Shown
<1>12. last = [z EXCEPT !.is_final = TRUE, !.A_version = version]
  BY <1>3 DEF z
<1>13. EndedBy(z, last, version)
  <2>1. Tidy(z)
    BY <1>10 DEF EndsAt
  <2> QED
    BY <1>12, <2>1, FinalIs
<1>14. Shown(last) = Shown(s[ngram])
  BY <1>9, <1>11, <1>13 DEF Shown, EndedBy
<1>15. InBucket(b, T, ngram[1], N, t)
  BY <1>1, <1>2, FirstWord, BucketIs
<1>16. b \in 0..(T.Buckets - 1)
  BY <1>15 DEF InBucket
<1>17. Replaces(T, S, b, Extended(x, ngram, last), n)
  BY <1>1, <1>3, <1>16, TableFields
<1>18. HoldsTrie(S, s, n)
  <2> DEFINE y == Extended(x, ngram, last)
  <2>1. Replaces(T, S, Destination(T, ngram[1]), Extended(BucketOf(T, ngram), ngram, last), n)
    BY <1>17 DEF x
  <2>2. Ended(Along(BucketOf(T, ngram), ngram)[Len(ngram)], last)
    BY <1>13 DEF z, x, EndedBy
  <2> QED
    BY <1>1, <1>2, <1>8, <1>9, <1>14, <2>1, <2>2, ExtendedHolds
<1>19. IsFiniteSet(Firsts(s)) /\ n = Cardinality(Firsts(s))
  <2> DEFINE q == <<ngram[1]>>
             r == Walked(BucketOf(T, q), q, 1)
  <2>1. q \in Seq(Words) /\ q # <<>>
    BY FirstWord
  <2> DEFINE one == 1
  <2>2. one \in 1..2 /\ r = Walked(BucketOf(T, q), q, one)
    OBVIOUS
  <2>3. n = IF ~r.found THEN T.Records + 1 ELSE T.Records
    OBVIOUS
  <2> HIDE DEF q, r, one
  <2>4. FoundFits(r, q, one, N, t)
    BY <1>1, <1>2, <2>1, <2>2, FoundIs
  <2>5. one # 2
    BY DEF one
  <2>6. r.found <=> q \in DOMAIN t
    BY <2>4, <2>5 DEF FoundFits
  <2>7. n = IF q \in DOMAIN t THEN Cardinality(Firsts(t)) ELSE Cardinality(Firsts(t)) + 1
    BY <1>1, <2>3, <2>6
  <2> QED
    BY <1>1, <1>9, <2>7, FirstsExtended DEF q
<1>20. PICK M : IsTable(S) /\ TableFits(S, M, s) /\ S.Records = n
  BY <1>18 DEF HoldsTrie
<1>21. SplitGood(S, Checked(S), M, s)
  BY <1>20, CheckedFits
<1>22. HoldsTrie(Checked(S), s, n)
  BY <1>20, <1>21 DEF SplitGood, HoldsTrie
<1>23. Represents(Checked(S), s)
  BY <1>8, <1>19, <1>22 DEF Represents
<1> QED
  BY <1>23 DEF s

\* The empty n-gram of a line without words.
LEMMA InsertNothing ==
  ASSUME NEW T, NEW t, Represents(T, t), NEW version
  PROVE  Represents(Checked(T), TrieInsert(t, <<>>, version))
<1> DEFINE s == TrieInsert(t, <<>>, version)
           n == Cardinality(Firsts(t))
<1>1. Closed(t) /\ IsSomeTrie(t)
  BY SomeTrie DEF Represents
<1>2. s = t
  <2>1. <<>> \notin DOMAIN t /\ PathNodes(<<>>) = {}
    <3>1. <<>> \in Seq(Words)
      BY EmptySeq
    <3> QED
      BY <1>1, <3>1, PathOf DEF Closed
  <2>2. DOMAIN t \union PathNodes(<<>>) = DOMAIN t
    BY <2>1
  <2>3. \A p \in DOMAIN t : p # <<>> /\ s[p] = t[p]
    BY <2>1, <2>2 DEF TrieInsert
  <2>4. s = [p \in DOMAIN t |-> s[p]]
    BY <2>2 DEF TrieInsert
  <2>5. t = [p \in DOMAIN t |-> t[p]]
    BY <1>1 DEF IsSomeTrie, IsTrie
  <2> QED
    BY <2>3, <2>4, <2>5
<1>3. PICK N : IsTable(T) /\ TableFits(T, N, t) /\ T.Records = n
  BY DEF Represents, HoldsTrie
<1>4. SplitGood(T, Checked(T), N, t)
  BY <1>3, CheckedFits
<1>5. HoldsTrie(Checked(T), t, n)
  BY <1>3, <1>4 DEF SplitGood, HoldsTrie
<1> HIDE DEF s
<1>6. Represents(Checked(T), s)
  BY <1>2, <1>5 DEF Represents
<1> QED
  BY <1>6 DEF s

\* trieFakeDeleteNgram.
LEMMA FakeDeleteRepresents ==
  ASSUME NEW T, NEW t, Represents(T, t), NEW ngram \in Seq(Words), NEW version \in Nat
  PROVE  Represents(FakeDeleted(T, ngram, version), TrieFakeDelete(t, ngram, version))
<1> DEFINE s == TrieFakeDelete(t, ngram, version)
           x == BucketOf(T, ngram)
           z == Along(x, ngram)[Len(ngram)]
           last == [z EXCEPT !.D_version = version]
           b == Destination(T, ngram[1])
           S == [T EXCEPT !.Phashtable[b] = Extended(x, ngram, last)]
<1>1. IsStored(T, ngram) <=> ngram \in Finals(t)
  BY StoredIs
<1>2. FakeDeleted(T, ngram, version) = IF IsStored(T, ngram) THEN S ELSE T
  BY DEF FakeDeleted
<1>3. s = IF ngram \in Finals(t) THEN s ELSE t
  BY DEF TrieFakeDelete
<1>4. /\ IsSomeTrie(t) /\ IsFiniteSet(Firsts(t)) /\ IsTable(T)
      /\ T.Records = Cardinality(Firsts(t)) /\ Closed(t)
      /\ \A p \in DOMAIN t : PathNodes(p) \subseteq DOMAIN t
  BY SomeTrie DEF Represents, HoldsTrie
<1>5. PICK N : TableFits(T, N, t)
  BY DEF Represents, HoldsTrie
<1>6. PICK v \in Nat : IsTrie(t, Words, v) /\ version \in 0..v
  <2>1. PICK u \in Nat : IsTrie(t, Words, u)
    BY <1>4 DEF IsSomeTrie
  <2>2. u <= u + version /\ version \in 0..(u + version) /\ u + version \in Nat
    OBVIOUS
  <2> DEFINE a == u + version
  <2> HIDE DEF a
  <2>3. a \in Nat /\ u <= a /\ version \in 0..a
    BY <2>2 DEF a
  <2>4. IsTrie(t, Words, a)
    BY <2>1, <2>3, VersionsGrow
  <2> QED
    BY <2>3, <2>4
<1>7. MarkedDeleted(s, t, ngram, version, v) /\ IsTrie(s, Words, v)
  BY <1>6, FakeDeleteNodes
<1>8. IsSomeTrie(s) /\ Closed(s)
  BY <1>7, TrieIsClosed DEF IsSomeTrie
<1>9. ASSUME ngram \in Finals(t) PROVE Represents(S, s)
  <2>1. ngram \in DOMAIN t /\ ngram # <<>> /\ PathNodes(ngram) \subseteq DOMAIN t
    BY <1>4, <1>9 DEF Finals, Closed
  <2> HIDE DEF s, x, z, last
  <2>2. /\ DOMAIN s = DOMAIN t /\ \A p \in DOMAIN t : p # ngram => s[p] = t[p]
        /\ s[ngram].is_final = t[ngram].is_final
        /\ s[ngram].A_version = t[ngram].A_version /\ s[ngram].D_version = version
    BY <1>7, <1>9, <2>1 DEF MarkedDeleted
  <2>3. Extends(s, t, ngram)
    BY <2>1, <2>2 DEF Extends
  <2>4. EndsAt(z, ngram, t)
    BY <1>4, <1>5, <2>1, EndOf DEF z, x
  <2>5. Tidy(z) /\ Shown(z) = Shown(t[ngram])
    BY <2>1, <2>4 DEF EndsAt
  <2>6. MarkedBy(z, last, version)
    BY <2>5, MarkedIs DEF last
  <2>7. Ended(z, last) /\ Shown(last) = [Shown(t[ngram]) EXCEPT !.D_version = version]
    BY <2>5, <2>6 DEF MarkedBy
  <2>8. Shown(last) = Shown(s[ngram])
    BY <2>2, <2>7 DEF Shown
  <2>9. InBucket(b, T, ngram[1], N, t)
    BY <1>4, <1>5, <2>1, FirstWord, BucketIs
  <2>10. b \in 0..(T.Buckets - 1)
    BY <2>9 DEF InBucket
  <2> DEFINE n == T.Records
             y == Extended(x, ngram, last)
  <2> HIDE DEF b, y, n
  <2>11. Replaces(T, S, b, y, n)
    BY <1>4, <2>10, TableFields DEF y, n
  <2> HIDE DEF S
  <2>12. Replaces(T, S, Destination(T, ngram[1]), Extended(BucketOf(T, ngram), ngram, last), n)
    BY <2>11 DEF x, b, y
  <2>13. Ended(Along(BucketOf(T, ngram), ngram)[Len(ngram)], last)
    BY <2>7 DEF z, x
  <2>14. HoldsTrie(S, s, n)
    BY <1>4, <1>5, <1>8, <2>1, <2>3, <2>8, <2>12, <2>13, ExtendedHolds
  <2>15. Firsts(s) = Firsts(t)
    BY <2>2 DEF Firsts
  <2> QED
    BY <1>4, <1>8, <2>14, <2>15 DEF Represents, n
<1> HIDE DEF S, s
<1> QED
  BY <1>1, <1>2, <1>3, <1>9 DEF s

\* The children of the root after a delete.
LEMMA FirstsShortened ==
  ASSUME NEW t, IsFiniteSet(Firsts(t)), NEW ngram \in Seq(Words), ngram # <<>>,
         Top(ngram, 1) \in DOMAIN t, NEW s, Shortens(s, t, ngram),
         NEW n, n = IF Top(ngram, 1) \in DOMAIN s THEN Cardinality(Firsts(t))
                    ELSE Cardinality(Firsts(t)) - 1
  PROVE  IsFiniteSet(Firsts(s)) /\ n = Cardinality(Firsts(s))
<1> DEFINE a == Top(ngram, 1)
           F == Firsts(t)
           ok == a \in DOMAIN s
<1>1. /\ a \in PathNodes(ngram) /\ Len(a) = 1
      /\ \A q \in PathNodes(ngram) : Len(q) = 1 => q = a
  BY FirstWord
<1>2. \A q \in DOMAIN t : q \notin DOMAIN s => q \in PathNodes(ngram)
  BY DEF Shortens, Cut
<1>3. DOMAIN s \subseteq DOMAIN t
  BY DEF Shortens
<1>4. n = IF ok THEN Cardinality(F) ELSE Cardinality(F) - 1
  OBVIOUS
<1>5. a \in F
  BY <1>1 DEF Firsts
<1>6. Firsts(s) = IF ok THEN F ELSE F \ {a}
  BY <1>1, <1>2, <1>3 DEF Firsts
<1> HIDE DEF F, a, ok
<1>7. IsFiniteSet(F)
  BY DEF F
<1>8. /\ IsFiniteSet(F \ {a})
      /\ Cardinality(F \ {a}) = IF a \in F THEN Cardinality(F) - 1 ELSE Cardinality(F)
  BY ONLY <1>7, FS_RemoveElement, Zenon
<1> QED
  BY <1>4, <1>5, <1>6, <1>7, <1>8

\* trieDeleteNgram.
LEMMA DeleteRepresents ==
  ASSUME NEW T, NEW t, Represents(T, t), NEW ngram \in Seq(Words)
  PROVE  Represents(Deleted(T, ngram), TrieDelete(t, ngram))
<1> DEFINE s == TrieDelete(t, ngram)
           b == Destination(T, ngram[1])
           x == T.Phashtable[b]
           left == Without(x, ngram)
           y == left.node
           n == IF left.removed THEN T.Records - 1 ELSE T.Records
           S == [T EXCEPT !.Phashtable[b] = y, !.Records = n]
<1>1. IsStored(T, ngram) <=> ngram \in Finals(t)
  BY StoredIs
<1>2. Deleted(T, ngram) = IF IsStored(T, ngram) THEN S ELSE T
  <2> DEFINE R == [T EXCEPT !.Phashtable[b] = y,
                            !.Records = IF left.removed THEN @ - 1 ELSE @]
  <2>1. Deleted(T, ngram) = IF IsStored(T, ngram) THEN R ELSE T
    BY DEF Deleted
  <2>2. R = S
    OBVIOUS
  <2> HIDE DEF R, S
  <2> QED
    BY <2>1, <2>2
<1>3. ngram \notin Finals(t) => s = t
  BY DEF TrieDelete
<1>4. /\ IsSomeTrie(t) /\ IsFiniteSet(Firsts(t)) /\ IsTable(T)
      /\ T.Records = Cardinality(Firsts(t)) /\ Closed(t)
      /\ \A p \in DOMAIN t : t[p].is_final \in BOOLEAN
      /\ \A p \in DOMAIN t : PathNodes(p) \subseteq DOMAIN t
  BY SomeTrie DEF Represents, HoldsTrie
<1>5. PICK N : TableFits(T, N, t)
  BY DEF Represents, HoldsTrie
<1>6. PICK v \in Nat : IsTrie(t, Words, v)
  BY <1>4 DEF IsSomeTrie
<1>7. IsTrie(s, Words, v)
  BY <1>6, DeleteIsTrie
<1>8. IsSomeTrie(s) /\ Closed(s)
  BY <1>7, TrieIsClosed DEF IsSomeTrie
<1>9. ASSUME ngram \in Finals(t) PROVE Represents(S, s)
  <2>1. ngram \in DOMAIN t /\ ngram # <<>> /\ PathNodes(ngram) \subseteq DOMAIN t
    BY <1>4, <1>9 DEF Finals, Closed
  <2>2. ngram \in PathNodes(ngram)
    BY <2>1, PathOf
  <2>3. s = [p \in DOMAIN t \ Cut(t, ngram) |->
               IF p = ngram THEN [t[p] EXCEPT !.is_final = FALSE] ELSE t[p]]
    BY <1>9 DEF TrieDelete
  <2>4. Shortens(s, t, ngram)
    <3>1. /\ DOMAIN s = DOMAIN t \ Cut(t, ngram)
          /\ \A p \in DOMAIN s : p # ngram => s[p] = t[p]
      BY <2>3
    <3>2. ASSUME ngram \in DOMAIN s
          PROVE  Shown(s[ngram]) = [is_final |-> FALSE, D_version |-> t[ngram].D_version,
                                    A_version |-> NoVersion]
      <4> DEFINE no == FALSE
                 k == t[ngram]
                 c == [k EXCEPT !.is_final = no]
      <4>1. s[ngram] = c
        BY <2>3, <3>2
      <4>2. k = [is_final |-> k.is_final, A_version |-> k.A_version,
                 D_version |-> k.D_version]
        <5>1. k \in Node(v)
          BY <1>6, <2>1 DEF IsTrie
        <5> QED
          BY <5>1 DEF Node
      <4> HIDE DEF no, k, s
      <4>3. c.is_final = no /\ c.D_version = k.D_version
        BY <4>2
      <4> HIDE DEF c
      <4>4. Shown(c) = [is_final |-> no, D_version |-> k.D_version,
                        A_version |-> IF no THEN c.A_version ELSE NoVersion]
        BY <4>3 DEF Shown
      <4>5. Shown(c) = [is_final |-> FALSE, D_version |-> k.D_version,
                        A_version |-> NoVersion]
        BY <4>4 DEF no
      <4> QED
        BY <4>1, <4>5 DEF k
    <3> QED
      BY <3>1, <3>2 DEF Shortens
  <2>5. InBucket(b, T, ngram[1], N, t)
    BY <1>4, <1>5, <2>1, FirstWord, BucketIs
  <2> DEFINE Ws == Home(T, b)
  <2>6. /\ b \in 0..(T.Buckets - 1) /\ BucketFits(x, Ws, N, t) /\ NodesFit(N, t)
        /\ ngram[1] \in Ws /\ Ws \subseteq Words
    BY <2>5 DEF InBucket
  <2>7. /\ Top(ngram, 1) \in DOMAIN t
        /\ \A d \in 1..Len(ngram) : Top(ngram, d) \in DOMAIN t
    BY <2>1, FirstWord, Tops
  <2>8. b = Destination(T, ngram[1]) /\ Ws = Home(T, b) /\ left = Without(x, ngram)
        /\ y = left.node /\ n = IF left.removed THEN T.Records - 1 ELSE T.Records
    OBVIOUS
  <2>9. Replaces(T, S, b, y, n)
    <3> HIDE DEF b, y, n
    <3> QED
      BY <1>4, <2>6, TableFields
  <2> HIDE DEF s, S, n, y, left, x, Ws, b
  <2>10. PICK U : Shortened(Without(x, ngram), s, ngram, Ws, Renewed(N, U, ngram))
    BY <1>4, <1>8, <2>1, <2>4, <2>6, <2>7, WithoutFits
  <2>11. /\ NodesFit(Renewed(N, U, ngram), s) /\ BucketFits(y, Ws, Renewed(N, U, ngram), s)
         /\ Top(ngram, 1) \in DOMAIN s => left.removed = FALSE
         /\ Top(ngram, 1) \notin DOMAIN s => left.removed = TRUE
    BY <2>8, <2>10 DEF Shortened
  <2>12. SameOff(t, s, ngram)
    <3>1. Cut(t, ngram) \subseteq PathNodes(ngram)
      BY DEF Cut
    <3> QED
      BY <2>2, <2>4, <3>1 DEF Shortens, SameOff
  <2>13. HoldsTrie(S, s, n)
    BY <1>4, <1>5, <2>1, <2>6, <2>8, <2>9, <2>11, <2>12, PutFits
  <2>14. n = IF Top(ngram, 1) \in DOMAIN s THEN Cardinality(Firsts(t))
             ELSE Cardinality(Firsts(t)) - 1
    BY <1>4, <2>8, <2>11
  <2>15. IsFiniteSet(Firsts(s)) /\ n = Cardinality(Firsts(s))
    BY <1>4, <2>1, <2>4, <2>7, <2>14, FirstsShortened
  <2> QED
    BY <1>8, <2>13, <2>15 DEF Represents
<1> HIDE DEF S, s
<1> QED
  BY <1>1, <1>2, <1>3, <1>9 DEF s

-----------------------------------------------------------------------------
(***************************************************************************)
(* The specification.                                                      *)
(***************************************************************************)
ArraysInv == Represents(hashtable, trie) /\ DOMAIN trie \subseteq Paths

\* The paths that are searched.
LEMMA PathsAre ==
  /\ \A p \in Paths : p \in Seq(Words) /\ p # <<>>
  /\ \A ngram \in Ngrams : ngram \in Seq(Words) /\ PathNodes(ngram) \subseteq Paths
<1>1. \A ngram \in Ngrams : ngram \in Seq(Words)
  BY ArraysAssumption
<1>2. \A ngram \in Ngrams : \A p \in PathNodes(ngram) : p \in Seq(Words) /\ p # <<>>
  BY <1>1, PathOf
<1> QED
  BY <1>1, <1>2 DEF Paths

LEMMA InitArrays ==
  ASSUME Init
  PROVE  ArraysInv
<1>1. hashtable = EmptyTable /\ trie = EmptyTrie
  BY DEF Init
<1>2. Represents(hashtable, trie)
  BY <1>1, EmptyRepresents
<1>3. DOMAIN trie = {}
  BY <1>1 DEF EmptyTrie
<1> QED
  BY <1>2, <1>3 DEF ArraysInv

LEMMA InsertKeeps ==
  ASSUME ArraysInv, NEW ngram \in Ngrams, NEW version \in Versions, Insert(ngram, version)
  PROVE  ArraysInv'
<1> DEFINE T == hashtable
           t == trie
           b == Destination(T, ngram[1])
           bucket == T.Phashtable[b]
           last == [Along(bucket, ngram)[Len(ngram)] EXCEPT !.is_final = TRUE,
                                                            !.A_version = version]
           r == Walked(BucketOf(T, <<ngram[1]>>), <<ngram[1]>>, 1)
           n == IF ~r.found THEN T.Records + 1 ELSE T.Records
           S == [T EXCEPT !.Phashtable[b] = Extended(bucket, ngram, last), !.Records = n]
           s == TrieInsert(t, ngram, version)
<1>1. ngram \in Seq(Words) /\ PathNodes(ngram) \subseteq Paths /\ version \in Nat
  BY PathsAre, ArraysAssumption
<1>2. trie' = s
  BY DEF Insert
<1>3. hashtable' = IF ngram = <<>> THEN Checked(T) ELSE Checked(S)
  <2> DEFINE R == [T EXCEPT !.Phashtable[b] = Extended(bucket, ngram, last),
                            !.Records = IF ~r.found THEN @ + 1 ELSE @]
  <2>1. hashtable' = IF ngram = <<>> THEN Checked(T) ELSE Checked(R)
    BY DEF Insert, Searched
  <2>2. R = S
    OBVIOUS
  <2> HIDE DEF R, S
  <2> QED
    BY <2>1, <2>2
<1>4. Represents(T, t)
  BY DEF ArraysInv
<1>5. ASSUME ngram # <<>> PROVE Represents(Checked(S), s)
  <2> HIDE DEF T, t
  <2> QED
    BY <1>1, <1>4, <1>5, InsertRepresents
<1>6. ASSUME ngram = <<>> PROVE Represents(Checked(T), s)
  <2>1. Represents(Checked(T), TrieInsert(t, <<>>, version))
    BY <1>4, InsertNothing
  <2> QED
    BY <1>6, <2>1
<1> HIDE DEF S
<1>7. Represents(hashtable', s)
  BY <1>3, <1>5, <1>6
<1>8. DOMAIN s \subseteq Paths
  BY <1>1 DEF TrieInsert, ArraysInv
<1> HIDE DEF s
<1> QED
  BY <1>2, <1>7, <1>8 DEF ArraysInv, Paths

LEMMA DeleteKeeps ==
  ASSUME ArraysInv, NEW ngram \in Ngrams, NEW version \in Versions, Delete(ngram, version)
  PROVE  ArraysInv'
<1> DEFINE T == hashtable
           t == trie
           M == FakeDeleted(T, ngram, version)
           u == TrieFakeDelete(t, ngram, version)
           S == Deleted(M, ngram)
           s == TrieDelete(u, ngram)
<1>1. ngram \in Seq(Words) /\ version \in Nat
  BY PathsAre, ArraysAssumption
<1>2. trie' = s /\ hashtable' = S
  BY DEF Delete
<1>3. Represents(M, u)
  BY <1>1, FakeDeleteRepresents DEF ArraysInv
<1>4. DOMAIN u = DOMAIN t
  BY DEF TrieFakeDelete
<1> HIDE DEF M, u
<1>5. Represents(S, s)
  BY <1>1, <1>3, DeleteRepresents
<1>6. DOMAIN s \subseteq DOMAIN u
  BY DEF TrieDelete
<1> HIDE DEF S, s
<1>7. DOMAIN s \subseteq Paths
  BY <1>4, <1>6 DEF ArraysInv
<1> QED
  BY <1>2, <1>5, <1>7 DEF ArraysInv, Paths

LEMMA ArraysAlways == Spec => []ArraysInv
<1>1. Init => ArraysInv
  BY InitArrays
<1>2. ArraysInv /\ [Next]_arrayVars => ArraysInv'
  <2> SUFFICES ASSUME ArraysInv, [Next]_arrayVars PROVE ArraysInv'
    OBVIOUS
  <2>1. CASE UNCHANGED arrayVars
    BY <2>1 DEF arrayVars, ArraysInv, Paths
  <2>2. CASE Next
    BY <2>2, InsertKeeps, DeleteKeeps DEF Next
  <2> QED
    BY <2>1, <2>2
<1> QED
  BY <1>1, <1>2, PTL DEF Spec

\* What the searches find.
SearchedIs(p) ==
  /\ Searched(p).found <=> p \in DOMAIN trie
  /\ Searched(p).found =>
       Tidy(Searched(p).node) /\ Shown(Searched(p).node) = Shown(trie[p])

LEMMA SearchesCome ==
  ASSUME ArraysInv, NEW N, TableFits(hashtable, N, trie)
  PROVE  \A p \in Paths : /\ Searched(p).found <=> p \in DOMAIN trie
                          /\ Searched(p).found => Searched(p).node = N[p]
<1> SUFFICES ASSUME NEW p \in Paths
             PROVE  /\ Searched(p).found <=> p \in DOMAIN trie
                    /\ Searched(p).found => Searched(p).node = N[p]
  OBVIOUS
<1> DEFINE T == hashtable
           t == trie
           r == Searched(p)
           one == 1
<1>1. p \in Seq(Words) /\ p # <<>>
  BY PathsAre
<1>2. IsTable(T) /\ IsSomeTrie(t)
  BY DEF ArraysInv, Represents, HoldsTrie
<1>3. TableFits(T, N, t)
  OBVIOUS
<1>4. Closed(t)
  BY <1>2, SomeTrie
<1>5. one \in 1..2 /\ r = Walked(BucketOf(T, p), p, one) /\ one # 2
  BY DEF Searched
<1> HIDE DEF T, t, r, one
<1>6. FoundFits(r, p, one, N, t)
  BY <1>1, <1>2, <1>3, <1>4, <1>5, FoundIs
<1>7. /\ r.found <=> p \in DOMAIN t
      /\ r.found => r.node = N[p]
  BY <1>5, <1>6 DEF FoundFits
<1> QED
  BY <1>7 DEF r, t

LEMMA SearchesFind ==
  ASSUME ArraysInv
  PROVE  \A p \in Paths : SearchedIs(p)
<1>1. PICK N : TableFits(hashtable, N, trie)
  BY DEF ArraysInv, Represents, HoldsTrie
<1>2. ASSUME NEW p \in DOMAIN trie PROVE Tidy(N[p]) /\ Shown(N[p]) = Shown(trie[p])
  <2>1. NodeFits(N[p], p, N, trie)
    BY <1>1 DEF TableFits, NodesFit
  <2> QED
    BY <2>1 DEF NodeFits, ChildrenFit
<1> QED
  BY <1>1, <1>2, SearchesCome DEF SearchedIs

\* The children of a node that a search comes to are such nodes too.
LEMMA KidsFound ==
  ASSUME ArraysInv, NEW x \in Nodes, NEW k \in Kids(x)
  PROVE  k \in Nodes
<1>1. PICK N : TableFits(hashtable, N, trie)
  BY DEF ArraysInv, Represents, HoldsTrie
<1>2. \E q, Ws : ChildrenFit(x, q, Ws, N, trie)
  <2>1. CASE \E b \in BucketIds : x = hashtable.Phashtable[b]
    <3>1. PICK b \in 0..(hashtable.Buckets - 1) : x = hashtable.Phashtable[b]
      BY <2>1 DEF BucketIds
    <3>2. BucketFits(x, Home(hashtable, b), N, trie)
      BY <1>1, <3>1 DEF TableFits
    <3> QED
      BY <3>2 DEF BucketFits
  <2>2. CASE \E p \in Paths : Searched(p).found /\ x = Searched(p).node
    <3>1. PICK p \in DOMAIN trie : x = N[p]
      BY <1>1, <2>2, SearchesCome
    <3>2. NodeFits(x, p, N, trie)
      BY <1>1, <3>1 DEF TableFits, NodesFit
    <3> QED
      BY <3>2 DEF NodeFits
  <2> QED
    BY <2>1, <2>2 DEF Nodes
<1>3. PICK q, Ws : ChildrenFit(x, q, Ws, N, trie)
  BY <1>2
<1> DEFINE p == Down(q, k.word)
<1>4. Has(x, k.word)
  BY DEF Has
<1>5. k.word \in Ws /\ k = N[p] /\ p \in DOMAIN trie
  BY <1>3, <1>4 DEF ChildrenFit
<1> HIDE DEF p
<1>6. p \in Paths
  BY <1>5 DEF ArraysInv
<1>7. Searched(p).found /\ Searched(p).node = k
  BY <1>1, <1>5, <1>6, SearchesCome
<1> QED
  BY <1>6, <1>7 DEF Nodes

LEMMA NodesTidy ==
  ASSUME ArraysInv
  PROVE  \A x \in Nodes : Tidy(x)
<1> SUFFICES ASSUME NEW x \in Nodes PROVE Tidy(x)
  OBVIOUS
<1>1. CASE \E b \in BucketIds : x = hashtable.Phashtable[b]
  <2>1. PICK N : TableFits(hashtable, N, trie)
    BY DEF ArraysInv, Represents, HoldsTrie
  <2>2. PICK b \in 0..(hashtable.Buckets - 1) : x = hashtable.Phashtable[b]
    BY <1>1 DEF BucketIds
  <2>3. BucketFits(x, Home(hashtable, b), N, trie)
    BY <2>1, <2>2 DEF TableFits
  <2> QED
    BY <2>3 DEF BucketFits, ChildrenFit
<1>2. CASE \E p \in Paths : Searched(p).found /\ x = Searched(p).node
  BY <1>2, SearchesFind DEF SearchedIs
<1> QED
  BY <1>1, <1>2 DEF Nodes

\* The arrays of every node a search comes to are well formed, and the table has
\* its buckets.
THEOREM ArraysTyped == Spec => []TypeOK
<1>1. ASSUME ArraysInv PROVE TypeOK
  <2>1. DOMAIN hashtable.Phashtable = BucketIds
    <3>1. IsTable(hashtable)
      BY <1>1 DEF ArraysInv, Represents, HoldsTrie
    <3>2. hashtable.Phashtable = [b \in BucketIds |-> hashtable.Phashtable[b]]
      BY <3>1 DEF IsTable, BucketIds
    <3> QED
      BY <3>2
  <2>2. ASSUME NEW x \in Nodes
        PROVE  /\ x.emptySpace \in 0..x.maxChildren
               /\ x.deletedChildren \in 0..Size(x)
               /\ \A j \in Slots(x) : x.children[j].word \in Words
    <3>1. Tidy(x)
      BY <1>1, NodesTidy
    <3>2. x.emptySpace \in 0..x.maxChildren
      BY <3>1 DEF Tidy
    <3>3. x.deletedChildren \in 0..Size(x)
      BY <3>1, TidyNode
    <3>4. \A j \in Slots(x) : x.children[j].word \in Words
      BY <3>1, TidySlots
    <3> QED
      BY <3>2, <3>3, <3>4
  <2> QED
    BY <2>1, <2>2 DEF TypeOK
<1> QED
  BY <1>1, ArraysAlways, PTL

\* What every search of the arrays finds is the trie, after any sequence of
\* inserts, deletes and splits.
THEOREM ArraysRepresent == Spec => []RepresentsTrie
<1>1. ASSUME ArraysInv PROVE RepresentsTrie
  <2>1. \A p \in Paths : SearchedIs(p)
    BY <1>1, SearchesFind
  <2>2. DOMAIN trie \subseteq Paths
    BY <1>1 DEF ArraysInv
  <2>3. {q \in Paths : Searched(q).found} = DOMAIN trie
    BY <2>1, <2>2 DEF SearchedIs
  <2>4. \A p \in DOMAIN trie : Shown(Searched(p).node) = Shown(trie[p])
    BY <2>1, <2>2 DEF SearchedIs
  <2> QED
    BY <2>3, <2>4 DEF RepresentsTrie
<1> QED
  BY <1>1, ArraysAlways, PTL

\* The slots are in order, and the deleted ones are counted.
THEOREM ArraysSorted == Spec => []ArraysInOrder
<1>1. ASSUME ArraysInv PROVE ArraysInOrder
  <2> SUFFICES ASSUME NEW x \in Nodes
               PROVE  /\ DOMAIN x.children = 0..(x.maxChildren - 1)
                      /\ \A i, j \in Slots(x) :
                           i < j => x.children[i].word < x.children[j].word
                      /\ \A i \in DOMAIN x.children \ Slots(x) : ~x.children[i].deleted
                      /\ x.deletedChildren = Cardinality(Slots(x) \ Live(x))
    BY DEF ArraysInOrder
  <2>1. Tidy(x)
    BY <1>1, NodesTidy
  <2>2. DOMAIN x.children = 0..(x.maxChildren - 1)
    BY <2>1, TidyFields
  <2>3. \A j, k \in Slots(x) : j < k => x.children[j].word < x.children[k].word
    BY <2>1 DEF Tidy
  <2>4. \A j \in DOMAIN x.children \ Slots(x) : ~x.children[j].deleted
    BY <2>1, <2>2 DEF Tidy
  <2>5. x.deletedChildren = Cardinality(Slots(x) \ Live(x))
    BY <2>1 DEF Tidy, DeadSlots
  <2> QED
    BY <2>2, <2>3, <2>4, <2>5
<1> QED
  BY <1>1, ArraysAlways, PTL

\* binarySearch finds every word of every array, or the slot where it belongs.
THEOREM ArraysSearched == Spec => []BinarySearchFinds
<1>1. ASSUME ArraysInv PROVE BinarySearchFinds
  <2> SUFFICES ASSUME NEW x \in Nodes, NEW w \in Words
               PROVE  /\ BinarySearch(x, w).position =
                           Cardinality({i \in Slots(x) : x.children[i].word < w})
                      /\ BinarySearch(x, w).found <=>
                           \E i \in Slots(x) : x.children[i].word = w
    BY DEF BinarySearchFinds
  <2> DEFINE a == BinarySearch(x, w).position
             ok == BinarySearch(x, w).found
             S == {j \in Slots(x) : x.children[j].word < w}
  <2>1. Tidy(x)
    BY <1>1, NodesTidy
  <2>2. /\ Place(x, w, a) /\ a \in 0..Size(x)
        /\ ok => a \in Slots(x) /\ x.children[a].word = w
        /\ \A j \in Slots(x) : x.children[j].word = w => ok
    BY <2>1, Searching
  <2>3. Size(x) \in Nat /\ Slots(x) = 0..(Size(x) - 1)
    BY <2>1, TidyNode
  <2>4. \A j \in Slots(x) : x.children[j].word \in Nat /\ w \in Nat
    BY <2>1, TidySlots, ArraysAssumption
  <2>5. \A j \in Slots(x) : x.children[j].word < w <=> j < a
    BY <2>2, <2>3, <2>4 DEF Place
  <2> HIDE DEF a
  <2>6. S = 0..(a - 1)
    BY <2>2, <2>3, <2>5
  <2> HIDE DEF S
  <2>7. Cardinality(0..(a - 1)) = a
    <3>1. Cardinality(0..(a - 1)) = IF 0 > a - 1 THEN 0 ELSE (a - 1) - 0 + 1
      BY <2>2, <2>3, FS_Interval
    <3> QED
      BY <2>2, <2>3, <3>1
  <2>8. a = Cardinality(S)
    BY <2>6, <2>7
  <2> QED
    BY <2>2, <2>8 DEF a, S
<1> QED
  BY <1>1, ArraysAlways, PTL

\* No array that was freed is read, not even through a deleted child of the root.
THEOREM FreedArraysUnread == Spec => []NoFreedArrayRead
<1>1. ASSUME ArraysInv PROVE NoFreedArrayRead
  <2>1. \A x \in Nodes : ~x.freed
    BY <1>1, NodesTidy DEF Tidy
  <2>2. ASSUME NEW ngram \in Ngrams \ {<<>>},
               LookedUp(hashtable, <<ngram[1]>>).found,
               LookedUp(hashtable, <<ngram[1]>>).node.deleted
        PROVE  /\ Size(LookedUp(hashtable, <<ngram[1]>>).node) = 0
               /\ ~LookedUp(hashtable, <<ngram[1]>>).node.is_final
    <3> DEFINE T == hashtable
               t == trie
               q == <<ngram[1]>>
               r == LookedUp(T, q)
               two == 2
    <3>1. q \in Seq(Words) /\ q # <<>>
      BY PathsAre, FirstWord
    <3>2. IsTable(T) /\ IsSomeTrie(t)
      BY <1>1 DEF ArraysInv, Represents, HoldsTrie
    <3>3. PICK N : TableFits(T, N, t)
      BY <1>1 DEF ArraysInv, Represents, HoldsTrie
    <3>4. Closed(t)
      BY <3>2, SomeTrie
    <3>5. two \in 1..2 /\ r = Walked(BucketOf(T, q), q, two)
      BY DEF LookedUp
    <3>6. r.found /\ r.node.deleted
      BY <2>2
    <3> HIDE DEF T, t, q, r, two
    <3>7. FoundFits(r, q, two, N, t)
      BY <3>1, <3>2, <3>3, <3>4, <3>5, FoundIs
    <3>8. q \notin DOMAIN t
      <4> SUFFICES ASSUME q \in DOMAIN t PROVE FALSE
        OBVIOUS
      <4>1. r.node = N[q]
        BY <3>7 DEF FoundFits
      <4>2. NodeFits(N[q], q, N, t)
        BY <3>3 DEF TableFits, NodesFit
      <4> QED
        BY <3>6, <4>1, <4>2 DEF NodeFits
    <3>9. Size(r.node) = 0 /\ ~r.node.is_final
      BY <3>6, <3>7, <3>8 DEF FoundFits
    <3> QED
      BY <3>9 DEF r, q, T
  <2> QED
    BY <2>1, <2>2 DEF NoFreedArrayRead
<1> QED
  BY <1>1, ArraysAlways, PTL

\* The count of the children of the root is exact, and p, round and the buckets
\* allocated agree.
THEOREM TableAccounted == Spec => []TableAccounting
<1>1. ASSUME ArraysInv PROVE TableAccounting
  <2>1. hashtable.Records = Cardinality({p \in DOMAIN trie : Len(p) = 1})
    BY <1>1 DEF ArraysInv, Represents, HoldsTrie, Firsts
  <2> DEFINE b == hashtable.Buckets
             a == hashtable.allocated
             p == hashtable.p
             r == hashtable.round
             W == Width[r]
  <2>2. Counts(b, a, p, r)
    BY <1>1 DEF ArraysInv, Represents, HoldsTrie, IsTable
  <2>3. r \in Nat /\ p \in Nat /\ p < W /\ b = W + p /\ a \in Nat /\ W <= a
        /\ (p # 0 => 2 * W <= a)
    BY <2>2 DEF Counts
  <2>4. W \in Nat
    BY <2>3, WidthDoubles
  <2> HIDE DEF b, a, p, r, W
  <2>5. b <= a
    BY <2>3, <2>4
  <2> QED
    BY <2>1, <2>3, <2>5 DEF TableAccounting, b, a, p, r, W
<1> QED
  BY <1>1, ArraysAlways, PTL

\* trieFree frees every string of the arrays, and each once.
THEOREM TrieIsFreed == Spec => []NothingLeaked
<1>1. ASSUME ArraysInv PROVE NothingLeaked
  <2> SUFFICES ASSUME NEW x \in Nodes
               PROVE  /\ Freeing(x).next \subseteq Nodes
                      /\ Freeing(x).strings = x.owned
                      /\ \A i \in Slots(x) \ Live(x) :
                           x.children[i].freed /\ x.children[i].owned = 0
    BY DEF NothingLeaked
  <2>1. Tidy(x)
    BY <1>1, NodesTidy
  <2>2. Freeing(x).next \subseteq Nodes
    <3>1. Freeing(x).next = Kids(x)
      BY DEF Freeing, Kids
    <3> QED
      BY <1>1, <3>1, KidsFound
  <2>3. Freeing(x).strings = x.owned
    BY <2>1, TidyFields DEF Freeing
  <2>4. \A c \in Dead(x) : Emptied(c)
    BY <2>1 DEF Tidy
  <2>5. \A i \in Slots(x) \ Live(x) : x.children[i].freed /\ x.children[i].owned = 0
    BY <2>4 DEF Dead, DeadSlots, Emptied
  <2> QED
    BY <2>2, <2>3, <2>5
<1> QED
  BY <1>1, ArraysAlways, PTL
=============================================================================
