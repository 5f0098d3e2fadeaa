------------------------- MODULE Bursts_refinement -------------------------
(***************************************************************************)
(* Bursts implements NgramService: trie, versions, threads and buffers     *)
(* answer, store and count as the lines of a burst executed one by one.    *)
(* This holds of the query files that keep to IsFresh, when no n-gram of a *)
(* text is hidden in the Bloom filter by the others.                       *)
(***************************************************************************)
EXTENDS Bursts_proofs

(***************************************************************************)
(* A search of the program and an answer of the service.                   *)
(***************************************************************************)
\* What the search has found is this answer, and its Bloom filter has nothing
\* but the n-grams of the answer.
Matches(found, answer) ==
  /\ found.answer = answer
  /\ found.bloom \subseteq UNION {Bits[q] : q \in ToSet(answer)}

\* A node the search sees, and the same n-gram in the store.
LEMMA ReportMatches ==
  ASSUME NEW text, NoCollision(text), NEW seen, <<>> \notin seen,
         NEW f \in Found(text, seen, Bits),
         NEW a, Matches(f, a), NEW p \in seen \intersect PiecesIn(text)
  PROVE  Matches(Report(f, p, Bits), Service!Include(seen, a, p))
<1> DEFINE S == seen \intersect PiecesIn(text)
<1>1. /\ a = f.answer /\ a \in Seq(S) /\ Len(a) \in Nat
      /\ \A j \in 1..Len(a) : a[j] \in S /\ Bits[a[j]] \subseteq f.bloom
  <2>1. a = f.answer /\ a \in Seq(S)
    BY DEF Matches, Found
  <2>2. \A j \in 1..Len(a) : a[j] \in S
    BY <2>1, ElementOfSeq
  <2> QED
    BY <2>1, <2>2, LenProperties DEF Found
<1>2. Contains(a, p) <=> p \in ToSet(a)
  BY <1>1, LenProperties DEF Contains, ToSet
<1>3. Service!Contains(a, p) <=> Contains(a, p)
  BY DEF Service!Contains, Contains
<1>4. CASE Contains(a, p)
  <2>1. Bits[p] \subseteq f.bloom
    BY <1>1, <1>4 DEF Contains
  <2>2. Report(f, p, Bits) = f
    BY <2>1 DEF Report
  <2>3. Service!Include(seen, a, p) = a
    BY <1>3, <1>4 DEF Service!Include
  <2> QED
    BY <2>2, <2>3
<1>5. CASE ~Contains(a, p)
  <2>1. ToSet(a) \subseteq PiecesIn(text) \ {p, <<>>}
    BY <1>1, <1>2, <1>5, LenProperties DEF ToSet
  <2>2. f.bloom \subseteq UNION {Bits[q] : q \in PiecesIn(text) \ {p, <<>>}}
    BY <2>1 DEF Matches
  <2>3. ~(Bits[p] \subseteq f.bloom)
    BY <2>2 DEF NoCollision
  <2>4. Report(f, p, Bits) = [bloom |-> f.bloom \union Bits[p], answer |-> Append(a, p)]
    BY <1>1, <2>3 DEF Report
  <2>5. Service!Include(seen, a, p) = Append(a, p)
    BY <1>3, <1>5 DEF Service!Include
  <2>6. ToSet(Append(a, p)) = ToSet(a) \union {p}
    <3>1. /\ Append(a, p) \in Seq(S) /\ Len(Append(a, p)) = Len(a) + 1
          /\ \A j \in 1..Len(a) : Append(a, p)[j] = a[j]
          /\ Append(a, p)[Len(a) + 1] = p
      BY <1>1, AppendProperties
    <3>2. /\ DOMAIN a = 1..Len(a) /\ DOMAIN Append(a, p) = 1..(Len(a) + 1)
      BY <1>1, <3>1, LenProperties
    <3>3. \A j : j \in 1..(Len(a) + 1) <=> j \in 1..Len(a) \/ j = Len(a) + 1
      BY <1>1
    <3> QED
      BY <3>1, <3>2, <3>3 DEF ToSet
  <2>7. f.bloom \union Bits[p] \subseteq UNION {Bits[q] : q \in ToSet(a) \union {p}}
    BY DEF Matches
  <2> QED
    BY <2>4, <2>5, <2>6, <2>7 DEF Matches
<1> QED
  BY <1>4, <1>5

\* The service goes through the pieces from the b-th word on, one by one.
PieceByPiece(s, text, answer, b) ==
  \E F \in [0..(Len(text) - b + 1) -> Seq(PiecesIn(text))] :
    /\ F[0] = answer
    /\ \A k \in 1..(Len(text) - b + 1) :
         F[k] = Service!Include(s, F[k - 1], SubSeq(text, b, b + k - 1))
    /\ Service!IncludeFrom(s, text, answer, b) = F[Len(text) - b + 1]

\* A piece of the text more, or not.
LEMMA IncludeAnswers ==
  ASSUME NEW s, NEW S, NEW a \in Seq(S), NEW p \in S
  PROVE  Service!Include(s, a, p) \in Seq(S)
BY AppendProperties DEF Service!Include

\* The pieces that begin at one word are included one after the other.
LEMMA IncludeFromRuns ==
  ASSUME NEW s, NEW text \in Seq(Words), NEW b \in 1..Len(text),
         NEW answer \in Seq(PiecesIn(text))
  PROVE  PieceByPiece(s, text, answer, b)
<1> DEFINE w == Service!PiecesFrom(text, b)
           n == Len(text) - b + 1
           T == Seq(PiecesIn(text))
           Step(a, p) == Service!Include(s, a, p)
           G == [x \in T \X (1..n) |-> Step(x[1], w[x[2]])]
           h == CHOOSE g : g = [d \in SUBSET DOMAIN w |->
                                  IF d = {} THEN answer
                                  ELSE Step(g[d \ {Max(d)}], w[Max(d)])]
           F == [k \in 0..n |-> h[1..k]]
<1>1. /\ n \in Nat /\ DOMAIN w = 1..n
      /\ \A k \in 1..n : w[k] = SubSeq(text, b, b + k - 1) /\ w[k] \in PiecesIn(text)
  <2>1. Len(text) \in Nat
    BY LenProperties
  <2>2. \A k \in 1..n : b + k - 1 \in 1..Len(text)
    BY <2>1
  <2>3. \A k \in 1..n : SubSeq(text, b, b + k - 1) \in PiecesIn(text)
    <3>1. \A x \in 1..Len(text) : SubSeq(text, b, x) \in PiecesIn(text)
      BY DEF PiecesIn
    <3> HIDE DEF n
    <3> QED
      BY <2>2, <3>1
  <2>4. w = [k \in 1..n |-> SubSeq(text, b, b + k - 1)]
    BY DEF Service!PiecesFrom
  <2>5. n \in Nat
    BY <2>1
  <2> HIDE DEF w, n
  <2> QED
    BY <2>3, <2>4, <2>5
<1>2. \A a \in T : \A k \in 1..n : Step(a, w[k]) \in T
  <2> HIDE DEF w, n
  <2> QED
    BY <1>1, IncludeAnswers
<1>3. answer \in T
  OBVIOUS
<1>4. Service!IncludeFrom(s, text, answer, b) = h[DOMAIN w]
  BY DEF Service!IncludeFrom, Service!FoldLeft, Service!MapThenFoldSet, Service!Max, Max
<1>5. \A a, p : Step(a, p) = Service!Include(s, a, p)
  OBVIOUS
<1> HIDE DEF w, n, T, Step
<1>6. G \in [T \X (1..n) -> T] /\ \A f \in T : \A k \in 1..n : G[<<f, k>>] = Step(f, w[k])
  BY <1>2
<1> HIDE DEF G
<1>7. h = [d \in SUBSET DOMAIN w |->
             IF d = {} THEN answer ELSE Step(h[d \ {Max(d)}], w[Max(d)])]
  <2>1. PICK g \in [SUBSET (1..n) -> T] : FoldsTo(g, n, answer, G)
    BY <1>1, <1>3, <1>6, FoldExists
  <2>2. ASSUME NEW d \in SUBSET (1..n), d # {}
        PROVE  g[d] = Step(g[d \ {Max(d)}], w[Max(d)])
    <3>1. Max(d) \in 1..n /\ g[d \ {Max(d)}] \in T
      BY <1>1, <2>2, MaxNumber
    <3> QED
      BY <1>6, <2>1, <2>2, <3>1 DEF FoldsTo
  <2>3. g[{}] = answer
    BY <2>1 DEF FoldsTo
  <2>4. g = [d \in SUBSET DOMAIN w |->
               IF d = {} THEN answer ELSE Step(g[d \ {Max(d)}], w[Max(d)])]
    BY <1>1, <2>2, <2>3
  <2> QED
    BY <2>4
<1> HIDE DEF h
<1>8. FoldRun(F, n, T, answer, G)
  <2>1. h[{}] = answer
    BY <1>7
  <2>2. ASSUME NEW d \in SUBSET (1..n), d # {}, h[d \ {Max(d)}] \in T
        PROVE  h[d] = G[<<h[d \ {Max(d)}], Max(d)>>]
    <3>1. Max(d) \in 1..n
      BY <1>1, <2>2, MaxNumber
    <3>2. h[d] = Step(h[d \ {Max(d)}], w[Max(d)])
      BY <1>1, <1>7, <2>2
    <3> QED
      BY <1>6, <2>2, <3>1, <3>2
  <2> QED
    BY <1>1, <1>3, <1>6, <2>1, <2>2, FoldRuns
<1>9. F[n] = h[1..n]
  BY <1>1
<1> HIDE DEF F
<1>10. /\ F \in [0..n -> T] /\ F[0] = answer /\ F[n] = h[DOMAIN w]
       /\ \A k \in 1..n : F[k] = Step(F[k - 1], w[k])
  <2>1. \A k \in 1..n : k - 1 \in 0..n
    BY <1>1
  <2>2. /\ F \in [0..n -> T] /\ F[0] = answer /\ F[n] = h[DOMAIN w]
        /\ \A k \in 1..n : F[k] = G[<<F[k - 1], k>>]
    BY <1>1, <1>8, <1>9 DEF FoldRun
  <2>3. \A k \in 1..n : F[k] = Step(F[k - 1], w[k])
    BY <1>6, <2>1, <2>2
  <2> QED
    BY <2>2, <2>3
<1> QED
  BY <1>1, <1>4, <1>5, <1>10 DEF PieceByPiece, n, T

\* So it goes on with an answer.
LEMMA IncludeFromAnswers ==
  ASSUME NEW s, NEW text \in Seq(Words), NEW b \in 1..Len(text),
         NEW answer \in Seq(PiecesIn(text))
  PROVE  Service!IncludeFrom(s, text, answer, b) \in Seq(PiecesIn(text))
<1> DEFINE n == Len(text) - b + 1
           T == Seq(PiecesIn(text))
<1>1. n \in Nat
  BY LenProperties
<1>2. PieceByPiece(s, text, answer, b)
  BY IncludeFromRuns
<1>3. PICK F \in [0..n -> T] : Service!IncludeFrom(s, text, answer, b) = F[n]
  BY <1>2 DEF PieceByPiece
<1> HIDE DEF n, T
<1>4. n \in 0..n
  BY <1>1
<1>5. Service!IncludeFrom(s, text, answer, b) \in T
  BY <1>3, <1>4
<1> QED
  BY <1>5 DEF T

\* The service goes through the text, word by word.
WordByWord(s, text) ==
  \E F \in [0..Len(text) -> Seq(PiecesIn(text))] :
    /\ F[0] = <<>>
    /\ \A k \in 1..Len(text) : F[k] = Service!IncludeFrom(s, text, F[k - 1], k)
    /\ Service!Answer(s, text) = F[Len(text)]

\* The answer to a text grows with each of its words.
LEMMA AnswerRuns ==
  ASSUME NEW s, NEW text \in Seq(Words)
  PROVE  WordByWord(s, text)
<1> DEFINE w == [b \in 1..Len(text) |-> b]
           n == Len(text)
           T == Seq(PiecesIn(text))
           none == <<>>
           Step(a, b) == Service!IncludeFrom(s, text, a, b)
           G == [x \in T \X (1..n) |-> Step(x[1], w[x[2]])]
           h == CHOOSE g : g = [d \in SUBSET DOMAIN w |->
                                  IF d = {} THEN none
                                  ELSE Step(g[d \ {Max(d)}], w[Max(d)])]
           F == [k \in 0..n |-> h[1..k]]
<1>1. n \in Nat /\ DOMAIN w = 1..n /\ \A k \in 1..n : w[k] = k
  BY LenProperties
<1>2. \A a \in T : \A k \in 1..n : Step(a, w[k]) \in T
  BY <1>1, IncludeFromAnswers
<1>3. none \in T
  BY EmptySeq
<1>4. Service!Answer(s, text) = h[DOMAIN w]
  BY DEF Service!Answer, Service!FoldLeft, Service!MapThenFoldSet, Service!Max, Max
<1>5. \A a, b : Step(a, b) = Service!IncludeFrom(s, text, a, b)
  OBVIOUS
<1> HIDE DEF w, n, T, Step, none
<1>6. G \in [T \X (1..n) -> T] /\ \A f \in T : \A k \in 1..n : G[<<f, k>>] = Step(f, w[k])
  BY <1>2
<1> HIDE DEF G
<1>7. h = [d \in SUBSET DOMAIN w |->
             IF d = {} THEN none ELSE Step(h[d \ {Max(d)}], w[Max(d)])]
  <2>1. PICK g \in [SUBSET (1..n) -> T] : FoldsTo(g, n, none, G)
    BY <1>1, <1>3, <1>6, FoldExists
  <2>2. ASSUME NEW d \in SUBSET (1..n), d # {}
        PROVE  g[d] = Step(g[d \ {Max(d)}], w[Max(d)])
    <3>1. Max(d) \in 1..n /\ g[d \ {Max(d)}] \in T
      BY <1>1, <2>2, MaxNumber
    <3> QED
      BY <1>6, <2>1, <2>2, <3>1 DEF FoldsTo
  <2>3. g[{}] = none
    BY <2>1 DEF FoldsTo
  <2>4. g = [d \in SUBSET DOMAIN w |->
               IF d = {} THEN none ELSE Step(g[d \ {Max(d)}], w[Max(d)])]
    BY <1>1, <2>2, <2>3
  <2> QED
    BY <2>4
<1> HIDE DEF h
<1>8. FoldRun(F, n, T, none, G)
  <2>1. h[{}] = none
    BY <1>7
  <2>2. ASSUME NEW d \in SUBSET (1..n), d # {}, h[d \ {Max(d)}] \in T
        PROVE  h[d] = G[<<h[d \ {Max(d)}], Max(d)>>]
    <3>1. Max(d) \in 1..n
      BY <1>1, <2>2, MaxNumber
    <3>2. h[d] = Step(h[d \ {Max(d)}], w[Max(d)])
      BY <1>1, <1>7, <2>2
    <3> QED
      BY <1>6, <2>2, <3>1, <3>2
  <2> QED
    BY <1>1, <1>3, <1>6, <2>1, <2>2, FoldRuns
<1>9. F[n] = h[1..n]
  BY <1>1
<1> HIDE DEF F
<1>10. /\ F \in [0..n -> T] /\ F[0] = none /\ F[n] = h[DOMAIN w]
       /\ \A k \in 1..n : F[k] = Step(F[k - 1], w[k])
  <2>1. \A k \in 1..n : k - 1 \in 0..n
    BY <1>1
  <2>2. /\ F \in [0..n -> T] /\ F[0] = none /\ F[n] = h[DOMAIN w]
        /\ \A k \in 1..n : F[k] = G[<<F[k - 1], k>>]
    BY <1>1, <1>8, <1>9 DEF FoldRun
  <2>3. \A k \in 1..n : F[k] = Step(F[k - 1], w[k])
    BY <1>6, <2>1, <2>2
  <2> QED
    BY <2>2, <2>3
<1>11. F \in [0..n -> T] /\ F[0] = none /\ Service!Answer(s, text) = F[n]
  BY <1>1, <1>4, <1>10
<1>12. \A k \in 1..n : F[k] = Service!IncludeFrom(s, text, F[k - 1], k)
  BY <1>1, <1>5, <1>10
<1> QED
  BY <1>11, <1>12 DEF WordByWord, n, T, none

\* One call of trieSearch_Ngram finds what the service finds from there on:
\* beyond the nodes of the trie there is nothing it could see.
LEMMA CallMatches ==
  ASSUME NEW v, NEW t, IsTrie(t, Words, v), NEW seen \in SUBSET DOMAIN t,
         NEW text \in Seq(Words), NoCollision(text), NEW b \in 1..Len(text),
         NEW f \in Found(text, seen, Bits), NEW a \in Seq(PiecesIn(text)), Matches(f, a)
  PROVE  Matches(SearchNgram(t, text, seen, Bits, f, b),
                 Service!IncludeFrom(seen, text, a, b))
<1> DEFINE r == Reach(t, text, b)
           m == Len(text) - b + 1
           w == Walk(t, text, b)
           T == Found(text, seen, Bits)
           A == Seq(PiecesIn(text))
           Piece(k) == SubSeq(text, b, b + k - 1)
<1>1. /\ r \in Nat /\ m \in Nat /\ r <= m
      /\ \A k \in 1..r : w[k] = Piece(k) /\ Piece(k) \in PiecesIn(text)
  <2>1. Len(text) \in Nat
    BY LenProperties
  <2>2. /\ r \in Nat /\ r <= m
        /\ \A k \in 1..r : w[k] = Piece(k) /\ w[k] \in PiecesIn(text) \intersect DOMAIN t
    BY WalkPieces
  <2> HIDE DEF r, w, Piece
  <2> QED
    BY <2>1, <2>2
<1>2. PICK F \in [0..r -> T] :
        /\ F[0] = f
        /\ \A k \in 1..r :
             F[k] = IF w[k] \in seen THEN Report(F[k - 1], w[k], Bits) ELSE F[k - 1]
        /\ SearchNgram(t, text, seen, Bits, f, b) = F[r]
  <2>1. NodeByNode(t, text, seen, Bits, f, b)
    BY SearchNgramRuns
  <2> QED
    BY <2>1 DEF NodeByNode
<1>3. PICK H \in [0..m -> A] :
        /\ H[0] = a
        /\ \A k \in 1..m : H[k] = Service!Include(seen, H[k - 1], Piece(k))
        /\ Service!IncludeFrom(seen, text, a, b) = H[m]
  <2>1. PieceByPiece(seen, text, a, b)
    BY IncludeFromRuns
  <2> QED
    BY <2>1 DEF PieceByPiece
<1>4. \A k \in (r + 1)..m : Piece(k) \notin seen
  BY NothingBeyond
<1>5. \A k : Piece(k) \notin seen => \A x : Service!Include(seen, x, Piece(k)) = x
  BY DEF Service!Include
<1>8. <<>> \notin seen
  BY DEF IsTrie
<1> HIDE DEF r, m, w, Piece, T, A
<1>6. Matches(F[r], H[r])
  <2> DEFINE K == {k \in 0..r : Matches(F[k], H[k])}
  <2>1. 0 \in K
    BY <1>1, <1>2, <1>3
  <2>2. ASSUME NEW k \in 0..(r - 1), k \in K
        PROVE  k + 1 \in K
    <3>1. /\ k \in 0..r /\ k + 1 \in 1..r /\ k + 1 \in 1..m /\ (k + 1) - 1 = k
          /\ k + 1 \in 0..r
      BY <1>1
    <3>2. Matches(F[k], H[k]) /\ F[k] \in T
      BY <2>2, <3>1
    <3>3. /\ F[k + 1] = IF Piece(k + 1) \in seen THEN Report(F[k], Piece(k + 1), Bits)
                                                 ELSE F[k]
          /\ H[k + 1] = Service!Include(seen, H[k], Piece(k + 1))
          /\ Piece(k + 1) \in PiecesIn(text)
      BY <1>1, <1>2, <1>3, <3>1
    <3>4. CASE Piece(k + 1) \in seen
      <4>1. Matches(Report(F[k], Piece(k + 1), Bits),
                    Service!Include(seen, H[k], Piece(k + 1)))
        BY <1>8, <3>2, <3>3, <3>4, ReportMatches DEF T
      <4> QED
        BY <3>1, <3>3, <3>4, <4>1
    <3>5. CASE Piece(k + 1) \notin seen
      BY <1>5, <3>1, <3>2, <3>3, <3>5
    <3> QED
      BY <3>4, <3>5
  <2>3. r \in 0..r
    BY <1>1
  <2>4. r \in K
    <3> HIDE DEF K
    <3> QED
      BY <1>1, <2>1, <2>2, <2>3, SetInduction
  <2> QED
    BY <2>4
<1>7. H[m] = H[r]
  <2> DEFINE K == {k \in 0..m : r <= k => H[k] = H[r]}
  <2>1. 0 \in K
    BY <1>1
  <2>2. ASSUME NEW k \in 0..(m - 1), k \in K
        PROVE  k + 1 \in K
    <3>1. k \in 0..m /\ k + 1 \in 1..m /\ k + 1 \in 0..m /\ (k + 1) - 1 = k
      BY <1>1
    <3>2. CASE r <= k
      <4>1. k + 1 \in (r + 1)..m /\ H[k] = H[r]
        BY <1>1, <2>2, <3>1, <3>2
      <4>2. H[k + 1] = Service!Include(seen, H[k], Piece(k + 1))
        BY <1>3, <3>1
      <4>3. H[k + 1] = H[r]
        BY <1>4, <1>5, <4>1, <4>2
      <4> QED
        BY <3>1, <4>3
    <3>3. CASE ~(r <= k)
      <4>1. r <= k + 1 => r = k + 1
        BY <1>1, <3>1, <3>3
      <4> QED
        BY <3>1, <4>1
    <3> QED
      BY <3>2, <3>3
  <2>3. m \in 0..m
    BY <1>1
  <2>4. m \in K
    <3> HIDE DEF K
    <3> QED
      BY <1>1, <2>1, <2>2, <2>3, SetInduction
  <2> QED
    BY <1>1, <2>4
<1> QED
  BY <1>2, <1>3, <1>6, <1>7

\* A search answers what the service answers from the n-grams that it sees.
LEMMA ScanMatches ==
  ASSUME NEW v, NEW t, IsTrie(t, Words, v), NEW seen \in SUBSET DOMAIN t,
         NEW text \in Seq(Words), NoCollision(text)
  PROVE  Scan(t, text, seen, Bits) = Service!Answer(seen, text)
<1> DEFINE n == Len(text)
           T == Found(text, seen, Bits)
           A == Seq(PiecesIn(text))
<1>1. n \in Nat
  BY LenProperties
<1>2. PICK F \in [0..n -> T] :
        /\ F[0] = [bloom |-> {}, answer |-> <<>>]
        /\ \A k \in 1..n : F[k] = SearchNgram(t, text, seen, Bits, F[k - 1], k)
        /\ Scan(t, text, seen, Bits) = F[n].answer
  <2>1. CallByCall(t, text, seen, Bits)
    BY ScanRuns
  <2> QED
    BY <2>1 DEF CallByCall
<1>3. PICK H \in [0..n -> A] :
        /\ H[0] = <<>>
        /\ \A k \in 1..n : H[k] = Service!IncludeFrom(seen, text, H[k - 1], k)
        /\ Service!Answer(seen, text) = H[n]
  <2>1. WordByWord(seen, text)
    BY AnswerRuns
  <2> QED
    BY <2>1 DEF WordByWord
<1> DEFINE K == {k \in 0..n : Matches(F[k], H[k])}
<1> HIDE DEF n, T, A
<1>4. 0 \in K
  <2>1. Matches(F[0], H[0])
    BY <1>2, <1>3 DEF Matches
  <2> QED
    BY <1>1, <2>1
<1>5. ASSUME NEW k \in 0..(n - 1), k \in K
      PROVE  k + 1 \in K
  <2>1. k \in 0..n /\ k + 1 \in 1..n /\ k + 1 \in 0..n /\ (k + 1) - 1 = k
    BY <1>1
  <2>2. Matches(F[k], H[k]) /\ F[k] \in T /\ H[k] \in A
    BY <1>5, <2>1
  <2>3. /\ F[k + 1] = SearchNgram(t, text, seen, Bits, F[k], k + 1)
        /\ H[k + 1] = Service!IncludeFrom(seen, text, H[k], k + 1)
    BY <1>2, <1>3, <2>1
  <2>4. Matches(SearchNgram(t, text, seen, Bits, F[k], k + 1),
                Service!IncludeFrom(seen, text, H[k], k + 1))
    BY <2>1, <2>2, CallMatches DEF n, T, A
  <2> QED
    BY <2>1, <2>3, <2>4
<1>6. n \in 0..n
  BY <1>1
<1>7. n \in K
  <2> HIDE DEF K
  <2> QED
    BY <1>1, <1>4, <1>5, <1>6, SetInduction
<1> QED
  BY <1>2, <1>3, <1>7 DEF Matches

(***************************************************************************)
(* The lines of a burst executed one by one.                               *)
(***************************************************************************)
LEMMA AnswerType ==
  ASSUME NEW s, NEW text \in Seq(Words)
  PROVE  Service!Answer(s, text) \in Answers
<1> DEFINE n == Len(text)
           T == Seq(PiecesIn(text))
<1>1. WordByWord(s, text)
  BY AnswerRuns
<1>2. PICK F \in [0..n -> T] : Service!Answer(s, text) = F[n]
  BY <1>1 DEF WordByWord
<1>3. n \in 0..n
  BY LenProperties
<1> HIDE DEF n, T
<1>4. Service!Answer(s, text) \in T
  BY <1>2, <1>3
<1> QED
  BY <1>4, PiecesAreNgrams, SeqMonotonic DEF T, Answers

Line == [command : {"A", "D", "Q"}, ngram : Seq(Words)]

State == [store : SUBSET Seq(Words), answers : Seq(Answers)]

\* The n-grams and the answers on the way through the lines.
LineByLine(s, lines) ==
  \E F \in [0..Len(lines) -> State] :
    /\ F[0] = [store |-> s, answers |-> <<>>]
    /\ \A k \in 1..Len(lines) : F[k] = Service!Execute(F[k - 1], lines[k])
    /\ Service!Sequential(s, lines) = F[Len(lines)]

\* A line, executed.
LEMMA ExecuteLine ==
  ASSUME NEW f \in State, NEW line \in Line
  PROVE  /\ Service!Execute(f, line) \in State
         /\ line.command = "A" =>
              /\ Service!Execute(f, line).store = f.store \union {line.ngram}
              /\ Service!Execute(f, line).answers = f.answers
         /\ line.command = "D" =>
              /\ Service!Execute(f, line).store = f.store \ {line.ngram}
              /\ Service!Execute(f, line).answers = f.answers
         /\ line.command = "Q" =>
              /\ Service!Execute(f, line).store = f.store
              /\ Service!Execute(f, line).answers =
                   Append(f.answers, Service!Answer(f.store, line.ngram))
<1>1. /\ line.command \in {"A", "D", "Q"} /\ line.ngram \in Seq(Words)
      /\ f.store \in SUBSET Seq(Words) /\ f.answers \in Seq(Answers)
  BY DEF Line, State
<1>2. CASE line.command = "A"
  <2>1. Service!Execute(f, line) = [f EXCEPT !.store = @ \union {line.ngram}]
    BY <1>2 DEF Service!Execute
  <2> QED
    BY <1>1, <1>2, <2>1 DEF State
<1>3. CASE line.command = "D"
  <2>1. Service!Execute(f, line) = [f EXCEPT !.store = @ \ {line.ngram}]
    BY <1>3 DEF Service!Execute
  <2> QED
    BY <1>1, <1>3, <2>1 DEF State
<1>4. CASE line.command = "Q"
  <2> DEFINE a == Append(f.answers, Service!Answer(f.store, line.ngram))
  <2>1. Service!Execute(f, line) = [f EXCEPT !.answers = a]
    BY <1>4 DEF Service!Execute
  <2>2. a \in Seq(Answers)
    BY <1>1, AnswerType, AppendProperties
  <2> HIDE DEF a
  <2>3. /\ Service!Execute(f, line) \in State
        /\ Service!Execute(f, line).store = f.store /\ Service!Execute(f, line).answers = a
    BY <1>1, <2>1, <2>2 DEF State
  <2> QED
    BY <1>4, <2>3 DEF a
<1> QED
  BY <1>1, <1>2, <1>3, <1>4

\* The service executes the lines of a burst one after the other.
LEMMA SequentialRuns ==
  ASSUME NEW s \in SUBSET Seq(Words), NEW lines \in Seq(Line)
  PROVE  LineByLine(s, lines)
<1> DEFINE w == lines
           n == Len(lines)
           T == State
           none == [store |-> s, answers |-> <<>>]
           Step(f, line) == Service!Execute(f, line)
           G == [x \in T \X (1..n) |-> Step(x[1], w[x[2]])]
           h == CHOOSE g : g = [d \in SUBSET DOMAIN w |->
                                  IF d = {} THEN none
                                  ELSE Step(g[d \ {Max(d)}], w[Max(d)])]
           F == [k \in 0..n |-> h[1..k]]
<1>1. n \in Nat /\ DOMAIN w = 1..n /\ \A k \in 1..n : w[k] \in Line
  BY LenProperties, ElementOfSeq
<1>2. \A f \in T : \A k \in 1..n : Step(f, w[k]) \in T
  BY <1>1, ExecuteLine
<1>3. none \in T
  BY EmptySeq DEF State
<1>4. Service!Sequential(s, lines) = h[DOMAIN w]
  BY DEF Service!Sequential, Service!FoldLeft, Service!MapThenFoldSet, Service!Max, Max
<1>5. \A f, line : Step(f, line) = Service!Execute(f, line)
  OBVIOUS
<1> HIDE DEF w, n, T, Step, none
<1>6. G \in [T \X (1..n) -> T] /\ \A f \in T : \A k \in 1..n : G[<<f, k>>] = Step(f, w[k])
  BY <1>2
<1> HIDE DEF G
<1>7. h = [d \in SUBSET DOMAIN w |->
             IF d = {} THEN none ELSE Step(h[d \ {Max(d)}], w[Max(d)])]
  <2>1. PICK g \in [SUBSET (1..n) -> T] : FoldsTo(g, n, none, G)
    BY <1>1, <1>3, <1>6, FoldExists
  <2>2. ASSUME NEW d \in SUBSET (1..n), d # {}
        PROVE  g[d] = Step(g[d \ {Max(d)}], w[Max(d)])
    <3>1. Max(d) \in 1..n /\ g[d \ {Max(d)}] \in T
      BY <1>1, <2>2, MaxNumber
    <3> QED
      BY <1>6, <2>1, <2>2, <3>1 DEF FoldsTo
  <2>3. g[{}] = none
    BY <2>1 DEF FoldsTo
  <2>4. g = [d \in SUBSET DOMAIN w |->
               IF d = {} THEN none ELSE Step(g[d \ {Max(d)}], w[Max(d)])]
    BY <1>1, <2>2, <2>3
  <2> QED
    BY <2>4
<1> HIDE DEF h
<1>8. FoldRun(F, n, T, none, G)
  <2>1. h[{}] = none
    BY <1>7
  <2>2. ASSUME NEW d \in SUBSET (1..n), d # {}, h[d \ {Max(d)}] \in T
        PROVE  h[d] = G[<<h[d \ {Max(d)}], Max(d)>>]
    <3>1. Max(d) \in 1..n
      BY <1>1, <2>2, MaxNumber
    <3>2. h[d] = Step(h[d \ {Max(d)}], w[Max(d)])
      BY <1>1, <1>7, <2>2
    <3> QED
      BY <1>6, <2>2, <3>1, <3>2
  <2> QED
    BY <1>1, <1>3, <1>6, <2>1, <2>2, FoldRuns
<1>9. F[n] = h[1..n]
  BY <1>1
<1> HIDE DEF F
<1>10. /\ F \in [0..n -> T] /\ F[0] = none /\ F[n] = h[DOMAIN w]
       /\ \A k \in 1..n : F[k] = Step(F[k - 1], w[k])
  <2>1. \A k \in 1..n : k - 1 \in 0..n
    BY <1>1
  <2>2. /\ F \in [0..n -> T] /\ F[0] = none /\ F[n] = h[DOMAIN w]
        /\ \A k \in 1..n : F[k] = G[<<F[k - 1], k>>]
    BY <1>1, <1>8, <1>9 DEF FoldRun
  <2>3. \A k \in 1..n : F[k] = Step(F[k - 1], w[k])
    BY <1>6, <2>1, <2>2
  <2> QED
    BY <2>2, <2>3
<1>11. F \in [0..n -> T] /\ F[0] = none /\ Service!Sequential(s, lines) = F[n]
  BY <1>1, <1>4, <1>10
<1> QED
  BY <1>5, <1>10, <1>11 DEF LineByLine, n, T, none, w

(***************************************************************************)
(* What holds of a burst, for the query files that keep to IsFresh.        *)
(***************************************************************************)
\* The lines are those, and no two update the same n-gram; a line does not add
\* one that is stored.
Lawful ==
  /\ \A k \in 1..Len(jobs) :
       \/ jobs[k].command = "Q" /\ jobs[k].ngram \in Texts
       \/ jobs[k].command \in {"A", "D"} /\ jobs[k].ngram \in Ngrams /\ IsDynamic
  /\ \A j, k \in 1..Len(jobs) :
       /\ jobs[j].command # "Q" /\ jobs[k].command # "Q"
       /\ jobs[j].ngram = jobs[k].ngram
       => j = k
  /\ \A k \in 1..Len(jobs) : jobs[k].command = "A" => jobs[k].ngram \notin stored

\* Of the lines before the k-th: the n-grams they add and delete, the queries.
AddedBy(k) == {jobs[j].ngram : j \in {l \in 1..(k - 1) : jobs[l].command = "A"}}
DeletedBy(k) == {jobs[j].ngram : j \in {l \in 1..(k - 1) : jobs[l].command = "D"}}
QueriesTo(k) == {l \in 1..(k - 1) : jobs[l].command = "Q"}

\* The n-grams stored when the k-th line comes, if one line is executed after
\* the other.
StoreAt(k) == (stored \ DeletedBy(k)) \union AddedBy(k)

\* The lines that have had their turn.
Reached == IF Active THEN i ELSE IF pc \in {"delete", "print"} THEN Len(jobs) + 1 ELSE 1

\* An n-gram has the version of a delete just if the delete is of this burst and
\* done, and the node of one that is yet to be added has none.
Clean ==
  /\ \A p \in Finals(trie) : p \in DeletedBy(Reached) <=> trie[p].D_version # NoVersion
  /\ pc \in {"read", "process"} =>
       \A k \in i..Len(jobs) :
         /\ jobs[k].command = "A"
         /\ jobs[k].ngram \in DOMAIN trie
         => trie[jobs[k].ngram].D_version = NoVersion

\* The n-grams stored before the burst are older than its queries.
Old ==
  IsDynamic => \A p \in stored : \A q \in batch : trie[p].A_version <= jobs[q].Q_version

\* After the queries the n-grams deleted by the burst leave the trie one by one.
Leaving ==
  /\ pc = "delete" => Finals(trie) = (stored \union AddedBy(Len(jobs) + 1)) \ DeletedBy(i)
  /\ pc = "print" => Finals(trie) = stored

\* The queries have the slots of the query buffer in their order.
InOrder ==
  /\ \A k \in QueriesTo(Reached) : {jobs[q].id : q \in QueriesTo(k)} = 0..(jobs[k].id - 1)
  /\ {jobs[q].id : q \in QueriesTo(Reached)} = 0..(id - 1)

\* The queries that are answered.
Answered ==
  IF pc = "wait" THEN finished ELSE IF pc \in {"delete", "print"} THEN QueriesTo(Reached) ELSE {}

\* Each is answered from the n-grams stored when its line comes.
AnswersRight ==
  \A k \in Answered : buffer[jobs[k].id] = Service!Answer(StoreAt(k), jobs[k].ngram)

\* The table counts the answers that an n-gram is in, here those of some slots.
Counted(written, answers) ==
  [p \in UNION {ToSet(answers[q - 1]) : q \in written} |->
     Cardinality({q \in written : Contains(answers[q - 1], p)})]

CountsRight == appearances = Counted({jobs[k].id + 1 : k \in Answered}, buffer)

Refining ==
  /\ Lawful /\ Clean /\ Old /\ Leaving
  /\ InOrder /\ AnswersRight /\ CountsRight

\* The lines before the next.
LEMMA NextLine ==
  ASSUME NEW k \in Nat \ {0}
  PROVE  /\ AddedBy(k + 1) =
              AddedBy(k) \union (IF jobs[k].command = "A" THEN {jobs[k].ngram} ELSE {})
         /\ DeletedBy(k + 1) =
              DeletedBy(k) \union (IF jobs[k].command = "D" THEN {jobs[k].ngram} ELSE {})
         /\ QueriesTo(k + 1) =
              QueriesTo(k) \union (IF jobs[k].command = "Q" THEN {k} ELSE {})
<1>1. \A l : l \in 1..((k + 1) - 1) <=> l \in 1..(k - 1) \/ l = k
  OBVIOUS
<1> QED
  BY <1>1 DEF AddedBy, DeletedBy, QueriesTo

\* The first line has none before it.
LEMMA NoLine == AddedBy(1) = {} /\ DeletedBy(1) = {} /\ QueriesTo(1) = {}
<1>1. 1..(1 - 1) = {}
  OBVIOUS
<1> QED
  BY <1>1 DEF AddedBy, DeletedBy, QueriesTo

\* Without an answer nothing is counted.
LEMMA NoneCounted == \A answers : Counted({}, answers) = NoAppearances
BY DEF Counted, NoAppearances

\* Where the lines of a burst stand.
LEMMA Standing ==
  ASSUME Careful, Flow, Versions, Lawful
  PROVE  /\ jobs \in Seq(Job(TRIE_TYPE)) /\ Len(jobs) \in Nat /\ i \in Nat \ {0}
         /\ id \in Nat /\ i \in 1..(Len(jobs) + 1)
         /\ current_version \in Nat /\ current_version \in 0..current_version
         /\ \A k \in 1..Len(jobs) :
              /\ jobs[k].command \in {"A", "D", "Q"} /\ jobs[k].ngram \in Seq(Words)
              /\ jobs[k].command # "Q" => jobs[k].ngram # <<>> /\ IsDynamic
         /\ Active => batch = QueriesTo(i) /\ Finals(trie) = stored \union AddedBy(i)
         /\ pc \in {"read", "done"} => Finals(trie) = stored
         /\ ~IsDynamic => AddedBy(i) = {}
<1>1. /\ jobs \in Seq(Job(TRIE_TYPE)) /\ Len(jobs) \in Nat /\ i \in 1..(Len(jobs) + 1)
      /\ id \in 0..Len(jobs) /\ current_version \in Nat
  BY LenProperties DEF Flow, Control
<1>2. /\ i \in Nat \ {0} /\ id \in Nat /\ current_version \in 0..current_version
      /\ \A k \in 1..(i - 1) : k \in 1..Len(jobs)
  BY <1>1
<1>3. ASSUME NEW k \in 1..Len(jobs)
      PROVE  /\ jobs[k].command \in {"A", "D", "Q"} /\ jobs[k].ngram \in Seq(Words)
             /\ jobs[k].command # "Q" => jobs[k].ngram # <<>> /\ IsDynamic
  BY BurstsAssumption DEF Lawful, Careful
<1>4. Active => batch = QueriesTo(i)
  BY <1>2, <1>3 DEF Flow, PoolInStep, QueriesTo
<1>5. ~IsDynamic => AddedBy(i) = {}
  BY <1>2, <1>3 DEF AddedBy
<1>6. Active => Added = AddedBy(i)
  BY <1>5 DEF Added, AddedBy
<1>7. <<>> \notin AddedBy(i)
  BY <1>2, <1>3 DEF AddedBy
<1>8. Active => Finals(trie) = stored \union AddedBy(i)
  BY <1>6, <1>7 DEF Active, Versions, TrieInStep
<1>9. pc \in {"read", "done"} => Finals(trie) = stored
  <2>1. pc \in {"read", "done"} => Added = {}
    BY DEF Added, Active
  <2> QED
    BY <2>1 DEF Versions, TrieInStep
<1> QED
  BY <1>1, <1>2, <1>3, <1>4, <1>5, <1>8, <1>9

(***************************************************************************)
(* It is kept by the updates.                                              *)
(***************************************************************************)
\* A line added: its node tells of no delete, and the other nodes are as they
\* were or new.
LEMMA AddKeepsRefining ==
  ASSUME Careful, Flow, Versions, Refining, ProcessAdd
  PROVE  Refining'
<1> DEFINE n == jobs[i].ngram
<1>1. /\ pc = "process" /\ pc' = "process" /\ IsDynamic /\ i' = i + 1 /\ i \in 1..Len(jobs)
      /\ jobs[i].command = "A"
      /\ trie' = TrieInsert(trie, n, current_version)
      /\ UNCHANGED <<TRIE_TYPE, jobs, id, batch, finished, stored, buffer, appearances>>
  BY UpdateKeepsFlow
     DEF ProcessAdd, AtJob, IsDynamic, burstVars, poolVars, history, queryVars
<1>2. /\ Len(jobs) \in Nat /\ i \in Nat \ {0} /\ current_version \in Nat
      /\ current_version \in 0..current_version /\ n \in Seq(Words) /\ n # <<>>
      /\ Finals(trie) = stored \union AddedBy(i) /\ n \notin stored
  BY <1>1, Standing DEF Active, Refining, Lawful
<1>3. Inserted(trie', trie, n, current_version, current_version)
  BY <1>1, <1>2, InsertNodes DEF Versions, TrieInStep
<1>4. /\ Finals(trie') = Finals(trie) \union {n}
      /\ Finals(trie) \subseteq DOMAIN trie
      /\ \A p \in DOMAIN trie : /\ trie'[p].D_version = trie[p].D_version
                                /\ p # n => trie'[p] = trie[p]
      /\ \A p \in DOMAIN trie' \ DOMAIN trie : trie'[p].D_version = NoVersion
      /\ n \in DOMAIN trie'
  BY <1>2, <1>3 DEF Inserted, Finals
<1>5. /\ Reached = i /\ Reached' = i + 1 /\ Answered = {} /\ Answered' = {}
      /\ DeletedBy(i + 1) = DeletedBy(i) /\ QueriesTo(i + 1) = QueriesTo(i)
      /\ \A k : k \in (i + 1)..Len(jobs) => k \in i..Len(jobs)
      /\ i \in i..Len(jobs)
  <2>1. Reached = i /\ Reached' = i + 1 /\ Answered = {} /\ Answered' = {}
    BY <1>1 DEF Reached, Active, Answered
  <2>2. DeletedBy(i + 1) = DeletedBy(i) /\ QueriesTo(i + 1) = QueriesTo(i)
    BY <1>1, <1>2, NextLine
  <2>3. /\ \A k : k \in (i + 1)..Len(jobs) => k \in i..Len(jobs)
        /\ i \in i..Len(jobs)
    BY <1>1, <1>2
  <2> QED
    BY <2>1, <2>2, <2>3
<1> HIDE DEF n
<1>6. Clean
  BY DEF Refining
<1>7. Lawful'
  BY <1>1 DEF Refining, Lawful, IsDynamic
<1>8. Clean'
  <2>1. n \in DOMAIN trie => trie[n].D_version = NoVersion
    BY <1>1, <1>5, <1>6 DEF Clean, n
  <2>2. \A p \in Finals(trie') : p \in DeletedBy(i + 1) <=> trie'[p].D_version # NoVersion
    <3>1. n \notin DeletedBy(i)
      BY <1>1, <1>2 DEF Refining, Lawful, DeletedBy, n
    <3>2. trie'[n].D_version = NoVersion
      BY <1>4, <2>1
    <3> QED
      BY <1>4, <1>5, <1>6, <3>1, <3>2 DEF Clean
  <2>3. \A k \in (i + 1)..Len(jobs) :
          jobs[k].command = "A" /\ jobs[k].ngram \in DOMAIN trie' =>
            trie'[jobs[k].ngram].D_version = NoVersion
    BY <1>1, <1>4, <1>5, <1>6 DEF Clean
  <2> QED
    BY <1>1, <1>5, <2>2, <2>3 DEF Clean, DeletedBy
<1>9. Old'
  BY <1>1, <1>2, <1>4 DEF Refining, Old, IsDynamic
<1>10. InOrder'
  <2>1. \A k : QueriesTo(k)' = QueriesTo(k)
    BY <1>1 DEF QueriesTo
  <2> QED
    BY <1>1, <1>5, <2>1 DEF Refining, InOrder
<1>11. AnswersRight' /\ CountsRight' /\ Leaving'
  BY <1>1, <1>5 DEF Refining, AnswersRight, CountsRight, Leaving
<1> QED
  BY <1>7, <1>8, <1>9, <1>10, <1>11 DEF Refining

\* A line that deletes: from now on its node tells of it.
LEMMA DeleteKeepsRefining ==
  ASSUME Careful, Flow, Versions, Refining, ProcessDelete
  PROVE  Refining'
<1> DEFINE n == jobs[i].ngram
<1>1. /\ pc = "process" /\ pc' = "process" /\ IsDynamic /\ i' = i + 1 /\ i \in 1..Len(jobs)
      /\ jobs[i].command = "D"
      /\ trie' = TrieFakeDelete(trie, n, current_version)
      /\ UNCHANGED <<TRIE_TYPE, jobs, id, batch, finished, stored, buffer, appearances>>
  BY UpdateKeepsFlow
     DEF ProcessDelete, AtJob, IsDynamic, burstVars, poolVars, history, queryVars
<1>2. /\ Len(jobs) \in Nat /\ i \in Nat \ {0} /\ current_version \in Nat
      /\ current_version \in 0..current_version
      /\ Finals(trie) = stored \union AddedBy(i)
  BY <1>1, Standing DEF Active, Refining
<1>3. MarkedDeleted(trie', trie, n, current_version, current_version)
  BY <1>1, <1>2, FakeDeleteNodes DEF Versions, TrieInStep
<1>4. /\ Finals(trie') = Finals(trie) /\ DOMAIN trie' = DOMAIN trie
      /\ Finals(trie) \subseteq DOMAIN trie
      /\ \A p \in DOMAIN trie : /\ trie'[p].A_version = trie[p].A_version
                                /\ p # n => trie'[p] = trie[p]
  BY <1>3 DEF MarkedDeleted, Finals
<1>5. /\ Reached = i /\ Reached' = i + 1 /\ Answered = {} /\ Answered' = {}
      /\ DeletedBy(i + 1) = DeletedBy(i) \union {n} /\ QueriesTo(i + 1) = QueriesTo(i)
      /\ \A k : k \in (i + 1)..Len(jobs) => k \in i..Len(jobs) /\ k \in 1..Len(jobs) /\ k # i
  <2>1. Reached = i /\ Reached' = i + 1 /\ Answered = {} /\ Answered' = {}
    BY <1>1 DEF Reached, Active, Answered
  <2>2. DeletedBy(i + 1) = DeletedBy(i) \union {n} /\ QueriesTo(i + 1) = QueriesTo(i)
    BY <1>1, <1>2, NextLine
  <2>3. \A k : k \in (i + 1)..Len(jobs) =>
                k \in i..Len(jobs) /\ k \in 1..Len(jobs) /\ k # i
    BY <1>1, <1>2
  <2> QED
    BY <2>1, <2>2, <2>3
<1>6. \A k \in (i + 1)..Len(jobs) : jobs[k].command = "A" => jobs[k].ngram # n
  BY <1>1, <1>5 DEF Refining, Lawful
<1> HIDE DEF n
<1>7. Clean
  BY DEF Refining
<1>8. Lawful'
  BY <1>1 DEF Refining, Lawful, IsDynamic
<1>9. Clean'
  <2>1. \A p \in Finals(trie') : p \in DeletedBy(i + 1) <=> trie'[p].D_version # NoVersion
    <3>1. n \in Finals(trie') => trie'[n].D_version # NoVersion
      BY <1>2, <1>3 DEF MarkedDeleted, Finals, NoVersion
    <3> QED
      BY <1>4, <1>5, <1>7, <3>1 DEF Clean
  <2>2. \A k \in (i + 1)..Len(jobs) :
          jobs[k].command = "A" /\ jobs[k].ngram \in DOMAIN trie' =>
            trie'[jobs[k].ngram].D_version = NoVersion
    BY <1>1, <1>4, <1>5, <1>6, <1>7 DEF Clean
  <2> QED
    BY <1>1, <1>5, <2>1, <2>2 DEF Clean, DeletedBy
<1>10. Old'
  BY <1>1, <1>2, <1>4 DEF Refining, Old, IsDynamic
<1>11. InOrder'
  <2>1. \A k : QueriesTo(k)' = QueriesTo(k)
    BY <1>1 DEF QueriesTo
  <2> QED
    BY <1>1, <1>5, <2>1 DEF Refining, InOrder
<1>12. AnswersRight' /\ CountsRight' /\ Leaving'
  BY <1>1, <1>5 DEF Refining, AnswersRight, CountsRight, Leaving
<1> QED
  BY <1>8, <1>9, <1>10, <1>11, <1>12 DEF Refining

\* A query: it has the next slot, and a version that is not before those of the
\* n-grams in the trie.
LEMMA QueryKeepsRefining ==
  ASSUME Careful, Flow, Versions, Refining, ProcessQuery \/ ProcessStatic
  PROVE  Refining'
<1>1. /\ pc = "process" /\ pc' = "process" /\ i \in 1..Len(jobs) /\ i' = i + 1
      /\ id' = id + 1 /\ batch' = batch \union {i} /\ Len(jobs') = Len(jobs)
      /\ TRIE_TYPE' = TRIE_TYPE
      /\ \A k \in 1..Len(jobs) : /\ jobs'[k].command = jobs[k].command
                                 /\ jobs'[k].ngram = jobs[k].ngram
                                 /\ k # i => jobs'[k] = jobs[k]
      /\ jobs'[i].id = id
      /\ jobs'[i].Q_version = IF IsDynamic THEN current_version ELSE jobs[i].Q_version
  BY CollectKeepsFlow
<1>2. /\ UNCHANGED <<trie, stored, buffer, appearances>>
      /\ IsDynamic => jobs[i].command = "Q"
  BY DEF ProcessQuery, ProcessStatic, AtJob, IsDynamic, trieVars, history, queryVars
<1>3. /\ Len(jobs) \in Nat /\ i \in Nat \ {0} /\ id \in Nat /\ current_version \in Nat
      /\ batch = QueriesTo(i) /\ Finals(trie) = stored \union AddedBy(i)
      /\ \A k \in 1..Len(jobs) : jobs[k].command # "Q" => IsDynamic
  BY <1>1, Standing DEF Active, Refining
<1>4. jobs[i].command = "Q"
  BY <1>1, <1>2, <1>3
<1>5. ASSUME NEW k \in 1..(Len(jobs) + 1)
      PROVE  /\ AddedBy(k)' = AddedBy(k) /\ DeletedBy(k)' = DeletedBy(k)
             /\ QueriesTo(k)' = QueriesTo(k)
  <2>1. \A l \in 1..(k - 1) : jobs'[l].command = jobs[l].command /\ jobs'[l].ngram = jobs[l].ngram
    BY <1>1, <1>3
  <2> QED
    BY <2>1 DEF AddedBy, DeletedBy, QueriesTo
<1>6. /\ Reached = i /\ Reached' = i + 1 /\ Answered = {} /\ Answered' = {}
  BY <1>1 DEF Reached, Active, Answered
<1>7. /\ \A k : k = i + 1 => /\ DeletedBy(k)' = DeletedBy(i)
                             /\ QueriesTo(k)' = QueriesTo(i) \union {i}
      /\ \A k \in QueriesTo(i) : k \in 1..(Len(jobs) + 1) /\ k # i
      /\ i \in 1..(Len(jobs) + 1)
  <2>1. i + 1 \in 1..(Len(jobs) + 1) /\ i \in 1..(Len(jobs) + 1)
    BY <1>1, <1>3
  <2>2. DeletedBy(i + 1) = DeletedBy(i) /\ QueriesTo(i + 1) = QueriesTo(i) \union {i}
    BY <1>3, <1>4, NextLine
  <2>3. \A k \in QueriesTo(i) : k \in 1..(Len(jobs) + 1) /\ k # i
    BY <1>1, <1>3 DEF QueriesTo
  <2> QED
    BY <1>5, <2>1, <2>2, <2>3
<1>8. Lawful'
  BY <1>1, <1>2 DEF Refining, Lawful, IsDynamic
<1>9. Clean'
  <2>1. \A k : k = i + 1 =>
          \A p \in Finals(trie') : p \in DeletedBy(k)' <=> trie'[p].D_version # NoVersion
    BY <1>2, <1>6, <1>7 DEF Refining, Clean, Finals
  <2>2. \A k \in (i + 1)..Len(jobs) : k \in i..Len(jobs) /\ k \in 1..Len(jobs)
    BY <1>1, <1>3
  <2>3. \A k \in (i + 1)..Len(jobs) :
          jobs'[k].command = "A" /\ jobs'[k].ngram \in DOMAIN trie' =>
            trie'[jobs'[k].ngram].D_version = NoVersion
    BY <1>1, <1>2, <2>2 DEF Refining, Clean
  <2>4. Finals(trie)' = Finals(trie')
    BY DEF Finals
  <2> QED
    BY <1>1, <1>6, <2>1, <2>3, <2>4 DEF Clean
<1>10. Old'
  <2> SUFFICES ASSUME IsDynamic, NEW p \in stored, NEW q \in batch \union {i}
               PROVE  trie[p].A_version <= jobs'[q].Q_version
    BY <1>1, <1>2 DEF Old, IsDynamic
  <2>1. CASE q = i
    <3>1. p \in DOMAIN trie /\ trie[p] \in Node(current_version)
      BY <1>3 DEF Finals, Versions, TrieInStep, IsTrie
    <3>2. trie[p].A_version \in NoVersion..current_version
      BY <3>1 DEF Node
    <3> QED
      BY <1>1, <1>3, <2>1, <3>2 DEF NoVersion
  <2>2. CASE q # i
    <3>1. q \in batch /\ q \in 1..Len(jobs)
      BY <1>1, <1>3, <2>2 DEF QueriesTo
    <3> QED
      BY <1>1, <2>2, <3>1 DEF Refining, Old
  <2> QED
    BY <2>1, <2>2
<1>11. InOrder'
  <2>1. ASSUME NEW k \in QueriesTo(i) \union {i}
        PROVE  {jobs'[q].id : q \in QueriesTo(k)} = {jobs[q].id : q \in QueriesTo(k)}
    <3>1. \A q \in QueriesTo(k) : q \in 1..Len(jobs) /\ q # i
      BY <1>1, <1>3 DEF QueriesTo
    <3> QED
      BY <1>1, <3>1
  <2>2. ASSUME NEW k \in QueriesTo(i) \union {i}
        PROVE  {jobs'[q].id : q \in QueriesTo(k)'} = 0..(jobs'[k].id - 1)
    <3>1. QueriesTo(k)' = QueriesTo(k)
      BY <1>5, <1>7
    <3>2. CASE k = i
      BY <1>1, <1>6, <2>1, <3>1, <3>2 DEF Refining, InOrder
    <3>3. CASE k # i
      <4>1. k \in QueriesTo(i) /\ jobs'[k].id = jobs[k].id
        BY <1>1, <3>3 DEF QueriesTo
      <4> QED
        BY <1>6, <2>1, <3>1, <4>1 DEF Refining, InOrder
    <3> QED
      BY <3>2, <3>3
  <2>3. {jobs'[q].id : q \in QueriesTo(i) \union {i}} = 0..(id' - 1)
    <3>1. {jobs'[q].id : q \in QueriesTo(i) \union {i}} = {jobs[q].id : q \in QueriesTo(i)} \union {id}
      <4>1. {jobs'[q].id : q \in QueriesTo(i)} = {jobs[q].id : q \in QueriesTo(i)}
        BY <2>1
      <4>2. {jobs'[q].id : q \in QueriesTo(i) \union {i}} =
              {jobs'[q].id : q \in QueriesTo(i)} \union {jobs'[i].id}
        OBVIOUS
      <4> QED
        BY <1>1, <4>1, <4>2
    <3>2. {jobs[q].id : q \in QueriesTo(i)} = 0..(id - 1)
      BY <1>6 DEF Refining, InOrder
    <3>3. 0..((id + 1) - 1) = 0..(id - 1) \union {id}
      BY <1>3
    <3> QED
      BY <1>1, <3>1, <3>2, <3>3
  <2> QED
    BY <1>6, <1>7, <2>2, <2>3 DEF InOrder
<1>12. AnswersRight' /\ CountsRight' /\ Leaving'
  BY <1>1, <1>2, <1>6 DEF Refining, AnswersRight, CountsRight, Leaving
<1> QED
  BY <1>8, <1>9, <1>10, <1>11, <1>12 DEF Refining

\* A line read: it keeps to IsFresh.
LEMMA LineKeepsRefining ==
  ASSUME Careful, Flow, Versions, Refining, NEW command \in Letters[TRIE_TYPE],
         NEW ngram \in IF command = "Q" THEN Texts ELSE Ngrams, AddCommand(command, ngram)
  PROVE  Refining'
<1> DEFINE n == Len(jobs)
<1>1. /\ pc = "read" /\ pc' = "read" /\ n \in Nat /\ Len(jobs') = n + 1
      /\ \A k \in 1..n : jobs'[k] = jobs[k]
      /\ jobs'[n + 1].command = command
  <2>1. ngram \in Ngrams \union Texts
    OBVIOUS
  <2>2. pc' = pc
    BY DEF AddCommand
  <2> QED
    BY <2>1, <2>2, AddKeepsFlow
<1>2. /\ UNCHANGED <<TRIE_TYPE, trie, stored, i, id, batch, finished, buffer, appearances>>
      /\ IsFresh(command, ngram)
      /\ jobs' = Append(jobs, [command |-> command, ngram |-> ngram,
                               id |-> Garbage, Q_version |-> Garbage])
  BY DEF Careful, AddCommand, trieVars, queryVars, poolVars, history
<1>3. jobs'[n + 1].ngram = ngram
  <2> DEFINE job == [command |-> command, ngram |-> ngram, id |-> Garbage, Q_version |-> Garbage]
  <2>1. job \in Job(TRIE_TYPE) /\ job.ngram = ngram
    BY DEF Job
  <2>2. jobs \in Seq(Job(TRIE_TYPE))
    BY DEF Flow, Control
  <2> HIDE DEF job
  <2>3. jobs' = Append(jobs, job)
    BY <1>2 DEF job
  <2> QED
    BY <2>1, <2>2, <2>3, AppendProperties
<1>4. /\ i = 1 /\ id = 0 /\ batch = {} /\ Finals(trie) = stored
      /\ TRIE_TYPE \in {"static", "dynamic"}
  BY <1>1, Standing DEF Flow, Control, PoolInStep, Active, Refining
<1>5. \/ command = "Q" /\ ngram \in Texts
      \/ command \in {"A", "D"} /\ ngram \in Ngrams /\ IsDynamic
  BY <1>4 DEF Careful, IsDynamic
<1>6. \A k \in 1..n : command # "Q" /\ jobs[k].ngram = ngram => jobs[k].command = "Q"
  <2>1. DOMAIN jobs = 1..n
    BY LenProperties DEF Flow, Control
  <2> QED
    BY <1>2, <1>5, <2>1 DEF IsFresh
<1>7. command = "A" /\ ngram \in DOMAIN trie =>
        ~trie[ngram].is_final /\ trie[ngram].D_version = NoVersion
  BY <1>2 DEF IsFresh
<1>8. \A k \in 1..(n + 1) : k = n + 1 \/ k \in 1..n
  BY <1>1
<1> HIDE DEF n
<1>9. Lawful'
  <2>1. \A k \in 1..(n + 1) :
          \/ jobs'[k].command = "Q" /\ jobs'[k].ngram \in Texts
          \/ jobs'[k].command \in {"A", "D"} /\ jobs'[k].ngram \in Ngrams /\ IsDynamic
    BY <1>1, <1>3, <1>5, <1>8 DEF Refining, Lawful, n
  <2>2. \A j, k \in 1..(n + 1) :
          /\ jobs'[j].command # "Q" /\ jobs'[k].command # "Q"
          /\ jobs'[j].ngram = jobs'[k].ngram
          => j = k
    BY <1>1, <1>3, <1>6, <1>8 DEF Refining, Lawful, n
  <2>3. command = "A" => ngram \notin stored
    BY <1>4, <1>7 DEF Finals
  <2>4. \A k \in 1..(n + 1) : jobs'[k].command = "A" => jobs'[k].ngram \notin stored
    BY <1>1, <1>3, <1>8, <2>3 DEF Refining, Lawful, n
  <2> QED
    BY <1>1, <1>2, <2>1, <2>2, <2>4 DEF Lawful, IsDynamic
<1>10. /\ Reached = 1 /\ Reached' = 1 /\ Answered = {} /\ Answered' = {}
       /\ DeletedBy(1) = {} /\ DeletedBy(1)' = {} /\ QueriesTo(1) = {} /\ QueriesTo(1)' = {}
  <2>1. 1..(1 - 1) = {}
    OBVIOUS
  <2>2. /\ DeletedBy(1) = {} /\ DeletedBy(1)' = {} /\ QueriesTo(1) = {} /\ QueriesTo(1)' = {}
    BY <2>1 DEF DeletedBy, QueriesTo
  <2> QED
    BY <1>1, <2>2 DEF Reached, Active, Answered
<1>11. Clean'
  <2>1. \A p \in Finals(trie') : trie'[p].D_version = NoVersion
    BY <1>2, <1>10 DEF Refining, Clean, Finals
  <2>2. \A k \in 1..(n + 1) :
          jobs'[k].command = "A" /\ jobs'[k].ngram \in DOMAIN trie =>
            trie[jobs'[k].ngram].D_version = NoVersion
    BY <1>1, <1>3, <1>4, <1>7, <1>8 DEF Refining, Clean, n
  <2>3. Finals(trie)' = Finals(trie')
    BY DEF Finals
  <2> QED
    BY <1>1, <1>2, <1>4, <1>10, <2>1, <2>2, <2>3 DEF Clean
<1>12. Old'
  BY <1>2, <1>4 DEF Old
<1>13. InOrder'
  BY <1>2, <1>4, <1>10 DEF InOrder
<1>14. AnswersRight' /\ CountsRight' /\ Leaving'
  BY <1>1, <1>2, <1>10 DEF Refining, AnswersRight, CountsRight, Leaving
<1> QED
  BY <1>9, <1>11, <1>12, <1>13, <1>14 DEF Refining

\* The burst, and the query file, come to an end.
LEMMA EndKeepsRefining ==
  ASSUME Careful, Flow, Versions, Refining, EndOfBurst \/ EndOfFile
  PROVE  Refining'
<1>1. /\ pc = "read" /\ pc' \in {"process", "done"} /\ i = 1 /\ i' = 1 /\ id' = 0
      /\ UNCHANGED <<TRIE_TYPE, trie, stored, jobs, batch, finished, buffer>>
  BY DEF EndOfBurst, EndOfFile, Pool!Close, trieVars, burstVars, queryVars, poolVars, history,
         Flow, Control
<1>2. /\ Reached = 1 /\ Reached' = 1 /\ Answered = {} /\ Answered' = {} /\ QueriesTo(1) = {}
  BY <1>1, NoLine DEF Reached, Active, Answered
<1>3. CountsRight'
  <2>1. {jobs'[k].id + 1 : k \in Answered'} = {}
    BY <1>2
  <2>2. CountsRight => appearances = NoAppearances
    <3>1. {jobs[k].id + 1 : k \in Answered} = {}
      BY <1>2
    <3> QED
      BY <3>1, NoneCounted DEF CountsRight
  <2>3. appearances' = NoAppearances
    BY <2>2 DEF EndOfBurst, EndOfFile, Refining
  <2> QED
    BY <2>1, <2>3, NoneCounted DEF CountsRight
<1>4. Lawful' /\ Clean' /\ Old' /\ Leaving'
  BY <1>1, <1>2 DEF Refining, Lawful, Clean, Old, Leaving, IsDynamic, Finals, DeletedBy
<1>5. InOrder' /\ AnswersRight'
  <2>1. QueriesTo(1)' = {}
    BY <1>1, <1>2 DEF QueriesTo
  <2>2. 0..(0 - 1) = {}
    OBVIOUS
  <2> QED
    BY <1>1, <1>2, <2>1, <2>2 DEF InOrder, AnswersRight
<1> QED
  BY <1>3, <1>4, <1>5 DEF Refining

\* The pool is released: nobody has answered yet.
LEMMA ReleaseKeepsRefining ==
  ASSUME Careful, Flow, Versions, Refining, ExecuteAllJobs
  PROVE  Refining'
<1>1. /\ pc = "process" /\ pc' = "wait" /\ finished = {} /\ i > Len(jobs)
      /\ UNCHANGED <<TRIE_TYPE, trie, stored, jobs, i, id, batch, finished, appearances>>
  BY DEF ExecuteAllJobs, Pool!Release, trieVars, burstVars, history, Flow, PoolInStep
<1>2. Reached' = Reached /\ Answered = {} /\ Answered' = {}
  BY <1>1 DEF Reached, Active, Answered
<1>3. CountsRight'
  <2>1. /\ {jobs[k].id + 1 : k \in Answered} = {}
        /\ {jobs'[k].id + 1 : k \in Answered'} = {}
    BY <1>2
  <2>2. appearances = NoAppearances
    BY <2>1, NoneCounted DEF Refining, CountsRight
  <2> QED
    BY <1>1, <2>1, <2>2, NoneCounted DEF CountsRight
<1>4. Lawful' /\ Clean' /\ Old' /\ Leaving'
  BY <1>1, <1>2 DEF Refining, Lawful, Clean, Old, Leaving, IsDynamic, Finals, DeletedBy
<1>5. InOrder' /\ AnswersRight'
  BY <1>1, <1>2 DEF Refining, InOrder, QueriesTo, AnswersRight
<1> QED
  BY <1>3, <1>4, <1>5 DEF Refining

\* What is answered stays right while neither the lines nor the answers change.
LEMMA SameLines ==
  ASSUME UNCHANGED <<jobs, stored, id, buffer, appearances>>,
         Reached' = Reached, Answered' = Answered,
         InOrder, AnswersRight, CountsRight
  PROVE  InOrder' /\ AnswersRight' /\ CountsRight'
<1>1. \A k : /\ QueriesTo(k)' = QueriesTo(k)
             /\ AddedBy(k)' = AddedBy(k) /\ DeletedBy(k)' = DeletedBy(k)
  BY DEF QueriesTo, AddedBy, DeletedBy
<1>2. \A k : StoreAt(k)' = StoreAt(k)
  BY <1>1 DEF StoreAt
<1>3. InOrder'
  BY <1>1 DEF InOrder
<1>4. AnswersRight'
  BY <1>2 DEF AnswersRight
<1>5. CountsRight'
  <2>1. {jobs'[k].id + 1 : k \in Answered'} = {jobs[k].id + 1 : k \in Answered}
    OBVIOUS
  <2> QED
    BY <2>1 DEF CountsRight
<1> QED
  BY <1>3, <1>4, <1>5

\* The barrier: every query is answered.
LEMMA BarrierKeepsRefining ==
  ASSUME Careful, Flow, Versions, Refining, Barrier
  PROVE  Refining'
<1>1. /\ pc = "wait" /\ pc' = IF IsDynamic THEN "delete" ELSE "print"
      /\ i = Len(jobs) + 1 /\ i' = 1 /\ finished = batch /\ batch' = {}
      /\ UNCHANGED <<TRIE_TYPE, trie, stored, jobs, id, buffer, appearances>>
  BY DEF Barrier, AllTasksFinish, Pool!Complete, trieVars, burstVars, history, queryVars,
         Flow, Control, IsDynamic
<1>2. /\ batch = QueriesTo(i) /\ Finals(trie) = stored \union AddedBy(i)
      /\ ~IsDynamic => AddedBy(i) = {}
  BY <1>1, Standing DEF Active, Refining
<1>3. Reached = Len(jobs) + 1 /\ Reached' = Len(jobs) + 1
  BY <1>1 DEF Reached, Active
<1>4. Answered = QueriesTo(Len(jobs) + 1) /\ Answered' = Answered
  <2>1. Answered = QueriesTo(Len(jobs) + 1)
    BY <1>1, <1>2 DEF Answered
  <2>2. Answered' = QueriesTo(Len(jobs) + 1)
    BY <1>1, <1>3 DEF Answered, QueriesTo
  <2> QED
    BY <2>1, <2>2
<1>5. Lawful' /\ Clean' /\ Old'
  BY <1>1, <1>3 DEF Refining, Lawful, Clean, Old, IsDynamic, Finals, DeletedBy
<1>6. Leaving'
  <2>1. DeletedBy(1) = {}
    BY NoLine
  <2>2. Finals(trie) = (stored \union AddedBy(Len(jobs) + 1)) \ DeletedBy(1)
    BY <1>1, <1>2, <2>1
  <2>3. ~IsDynamic => Finals(trie) = stored
    BY <1>2
  <2> QED
    BY <1>1, <2>2, <2>3 DEF Leaving, Finals, AddedBy, DeletedBy
<1>7. InOrder' /\ AnswersRight' /\ CountsRight'
  BY <1>1, <1>3, <1>4, SameLines DEF Refining
<1> QED
  BY <1>5, <1>6, <1>7 DEF Refining

\* One n-gram leaves the trie, if the line deletes.
LEMMA CutKeepsRefining ==
  ASSUME Careful, Flow, Versions, Refining, DeleteNgram
  PROVE  Refining'
<1> DEFINE n == jobs[i].ngram
<1>1. /\ pc = "delete" /\ pc' = "delete" /\ i \in 1..Len(jobs) /\ i' = i + 1
      /\ trie' = IF jobs[i].command = "D" THEN TrieDelete(trie, n) ELSE trie
      /\ UNCHANGED <<TRIE_TYPE, stored, jobs, id, batch, buffer, appearances>>
  BY UpdateKeepsFlow DEF DeleteNgram, burstVars, poolVars, queryVars, history
<1>2. /\ i \in Nat \ {0} /\ n \in Seq(Words) /\ batch = {} /\ current_version \in Nat
      /\ Finals(trie) = (stored \union AddedBy(Len(jobs) + 1)) \ DeletedBy(i)
      /\ IsTrie(trie, Words, current_version)
  BY <1>1, Standing
     DEF Refining, Leaving, Flow, PoolInStep, Active, Versions, TrieInStep
<1>3. DeletedBy(i + 1) =
        DeletedBy(i) \union (IF jobs[i].command = "D" THEN {n} ELSE {})
  BY <1>2, NextLine
<1> HIDE DEF n
<1>4. /\ Finals(trie') = IF jobs[i].command = "D" THEN Finals(trie) \ {n} ELSE Finals(trie)
      /\ \A p \in Finals(trie') : trie'[p] = trie[p]
  <2>1. CASE jobs[i].command = "D"
    BY <1>1, <1>2, <2>1, DeleteIsTrie
  <2>2. CASE jobs[i].command # "D"
    BY <1>1, <2>2
  <2> QED
    BY <2>1, <2>2
<1>5. Finals(trie') = (stored \union AddedBy(Len(jobs) + 1)) \ DeletedBy(i + 1)
  BY <1>2, <1>3, <1>4
<1>6. /\ Reached = Len(jobs) + 1 /\ Reached' = Len(jobs) + 1 /\ Answered' = Answered
  BY <1>1 DEF Reached, Active, Answered, QueriesTo
<1>7. Lawful' /\ Old' /\ Leaving'
  BY <1>1, <1>2, <1>5 DEF Refining, Lawful, Old, Leaving, IsDynamic, AddedBy, DeletedBy
<1>8. Clean'
  <2>1. \A p \in Finals(trie') :
          p \in DeletedBy(Len(jobs) + 1) <=> trie'[p].D_version # NoVersion
    <3>1. Finals(trie') \subseteq Finals(trie)
      BY <1>4
    <3> QED
      BY <1>4, <1>6, <3>1 DEF Refining, Clean
  <2> QED
    BY <1>1, <1>6, <2>1 DEF Clean, DeletedBy
<1>9. InOrder' /\ AnswersRight' /\ CountsRight'
  BY <1>1, <1>6, SameLines DEF Refining
<1> QED
  BY <1>7, <1>8, <1>9 DEF Refining

\* The end of a burst: the n-grams left are those of no D line.
LEMMA PrintKeepsRefining ==
  ASSUME Careful, Flow, Versions, Refining, PrintBurst
  PROVE  Refining'
<1>1. /\ pc \in {"delete", "print"}
      /\ pc = "delete" => i > Len(jobs)
      /\ pc' = "read" /\ jobs' = <<>> /\ i' = 1 /\ id' = 0 /\ stored' = Finals(trie)
      /\ appearances' = NoAppearances /\ UNCHANGED <<TRIE_TYPE, trie, batch>>
  BY DEF PrintBurst, AtPrint, trieVars, poolVars
<1>2. /\ Len(jobs) \in Nat /\ i \in 1..(Len(jobs) + 1) /\ batch = {}
      /\ Len(jobs') = 0
  BY <1>1, Standing, EmptySeq DEF Flow, PoolInStep, Active, Refining
<1>3. Finals(trie) \intersect DeletedBy(Len(jobs) + 1) = {}
  <2>1. CASE pc = "delete"
    <3>1. i = Len(jobs) + 1
      BY <1>1, <1>2, <2>1
    <3> QED
      BY <2>1, <3>1 DEF Refining, Leaving
  <2>2. CASE pc = "print"
    <3>1. ~IsDynamic
      BY <2>2 DEF Flow, Control
    <3>2. \A k \in 1..((Len(jobs) + 1) - 1) : jobs[k].command # "D"
      BY <1>2, <3>1 DEF Refining, Lawful
    <3> QED
      BY <3>2 DEF DeletedBy
  <2> QED
    BY <1>1, <2>1, <2>2
<1>4. \A p \in Finals(trie) : trie[p].D_version = NoVersion
  <2>1. Reached = Len(jobs) + 1
    BY <1>1 DEF Reached, Active
  <2> QED
    BY <1>3, <2>1 DEF Refining, Clean
<1>5. /\ Reached' = 1 /\ Answered' = {} /\ QueriesTo(1)' = {} /\ DeletedBy(1)' = {}
      /\ 1..0 = {}
  <2>1. 1..(1 - 1) = {} /\ 1..0 = {}
    OBVIOUS
  <2>2. QueriesTo(1)' = {} /\ DeletedBy(1)' = {}
    BY <2>1 DEF QueriesTo, DeletedBy
  <2> QED
    BY <1>1, <2>1, <2>2 DEF Reached, Active, Answered
<1>6. CountsRight'
  <2>1. {jobs'[k].id + 1 : k \in Answered'} = {}
    BY <1>5
  <2> QED
    BY <1>1, <2>1, NoneCounted DEF CountsRight
<1>7. Lawful' /\ Old' /\ Leaving'
  BY <1>1, <1>2, <1>5 DEF Lawful, Old, Leaving
<1>8. Clean'
  <2>1. \A p \in Finals(trie') : trie'[p].D_version = NoVersion
    BY <1>1, <1>4
  <2> QED
    BY <1>1, <1>2, <1>5, <2>1 DEF Clean, Finals
<1>9. InOrder' /\ AnswersRight'
  <2>1. 0..(0 - 1) = {}
    OBVIOUS
  <2> QED
    BY <1>1, <1>5, <2>1 DEF InOrder, AnswersRight
<1> QED
  BY <1>6, <1>7, <1>8, <1>9 DEF Refining

(***************************************************************************)
(* What the worker of a query sees is what the service would store.        *)
(***************************************************************************)
\* No two lines update the same n-gram, so that each is the last that does.
LEMMA LinesAreLast ==
  ASSUME Flow, Lawful, NEW k \in 1..(i - 1), jobs[k].command # "Q"
  PROVE  IsLast(k) /\ k \in 1..Len(jobs)
<1>1. i \in 1..(Len(jobs) + 1) /\ Len(jobs) \in Nat
  BY LenProperties DEF Flow, Control
<1>2. k \in 1..Len(jobs) /\ \A j \in (k + 1)..(i - 1) : j \in 1..Len(jobs) /\ j # k
  BY <1>1
<1> QED
  BY <1>2 DEF IsLast, Lawful

\* A query of the burst at the n-grams of the trie: its version tells which of
\* them the service would store when its line comes.
LEMMA VersionsTell ==
  ASSUME Careful, Flow, Versions, Order, Refining, pc = "wait", IsDynamic,
         NEW k \in batch
  PROVE  /\ StoreAt(k) \subseteq Finals(trie)
         /\ \A p \in Finals(trie) :
              p \in StoreAt(k) <=> Visible(trie[p], jobs[k].Q_version)
<1> DEFINE v == jobs[k].Q_version
<1>1. /\ i = Len(jobs) + 1 /\ Len(jobs) \in Nat /\ current_version \in Nat
      /\ batch = QueriesTo(i) /\ Finals(trie) = stored \union AddedBy(i)
      /\ \A j \in 1..Len(jobs) : jobs[j].command # "Q" => jobs[j].ngram # <<>>
  BY Standing DEF Active, Refining, Flow, Control
<1>2. k \in 1..(i - 1) /\ jobs[k].command = "Q" /\ v \in Nat
  <2>1. v \in 0..current_version
    BY DEF Versions, QueriesInStep
  <2> QED
    BY <1>1, <2>1 DEF QueriesTo
<1>3. Lawful /\ Clean /\ Old /\ Reached = i
  BY DEF Refining, Reached, Active
<1>4. ASSUME NEW j \in 1..(i - 1), jobs[j].command # "Q"
      PROVE  /\ IsLast(j) /\ j \in 1..Len(jobs) /\ j # k /\ jobs[j].ngram # <<>>
             /\ ~(k < j) <=> j \in 1..(k - 1)
             /\ \A x \in 1..(i - 1) :
                  jobs[x].command # "Q" /\ jobs[x].ngram = jobs[j].ngram => x = j
  <2>1. IsLast(j) /\ j \in 1..Len(jobs) /\ j # k
    BY <1>2, <1>3, <1>4, LinesAreLast
  <2>2. ~(k < j) <=> j \in 1..(k - 1)
    BY <1>1, <1>2, <2>1
  <2>3. \A x \in 1..(i - 1) : x \in 1..Len(jobs)
    BY <1>1
  <2> QED
    BY <1>1, <1>3, <1>4, <2>1, <2>2, <2>3 DEF Lawful
<1>5. \A j \in 1..(k - 1) : j \in 1..(i - 1)
  BY <1>1, <1>2
<1>6. ASSUME NEW p \in Finals(trie)
      PROVE  /\ trie[p].A_version \in Int /\ trie[p].D_version \in Int
             /\ trie[p].D_version < 0 <=> trie[p].D_version = NoVersion
             /\ trie[p].is_final
             /\ p \in DeletedBy(i) <=> trie[p].D_version # NoVersion
  <2>1. /\ trie[p].A_version \in NoVersion..current_version
        /\ trie[p].D_version \in NoVersion..current_version
    BY AtHand
  <2>2. /\ trie[p].A_version \in Int /\ trie[p].D_version \in Int
        /\ trie[p].D_version < 0 <=> trie[p].D_version = NoVersion
    BY <1>1, <2>1 DEF NoVersion
  <2>3. trie[p].is_final
    BY DEF Finals
  <2> QED
    BY <1>3, <2>2, <2>3 DEF Clean
<1> HIDE DEF v
<1>7. ASSUME NEW j \in 1..(i - 1), jobs[j].command = "A"
      PROVE  jobs[j].ngram \in StoreAt(k) <=> Visible(trie[jobs[j].ngram], v)
  <2> DEFINE p == jobs[j].ngram
  <2>1. /\ p \in Finals(trie) /\ p \notin stored /\ p \notin DeletedBy(i)
        /\ p \in AddedBy(k) <=> j \in 1..(k - 1)
    <3>1. p \in Finals(trie)
      BY <1>1, <1>7 DEF AddedBy
    <3>2. p \notin stored
      BY <1>3, <1>4, <1>7 DEF Lawful
    <3>3. p \notin DeletedBy(i)
      BY <1>4, <1>7 DEF DeletedBy
    <3>4. p \in AddedBy(k) <=> j \in 1..(k - 1)
      BY <1>4, <1>5, <1>7 DEF AddedBy
    <3> QED
      BY <3>1, <3>2, <3>3, <3>4
  <2>2. k < j <=> v < trie[p].A_version
    BY <1>4, <1>7 DEF Order, Active, OrderOf, Ordered, v
  <2>3. p \in StoreAt(k) <=> j \in 1..(k - 1)
    BY <2>1 DEF StoreAt
  <2>4. j \in 1..(k - 1) <=> ~(v < trie[p].A_version)
    BY <1>4, <1>7, <2>2
  <2> HIDE DEF p
  <2>5. Visible(trie[p], v) <=> ~(v < trie[p].A_version)
    BY <1>2, <1>6, <2>1 DEF Visible
  <2> QED
    BY <2>3, <2>4, <2>5 DEF p
<1>8. ASSUME NEW p \in stored
      PROVE  p \in StoreAt(k) <=> Visible(trie[p], v)
  <2>1. p \in Finals(trie) /\ p \notin AddedBy(k) /\ trie[p].A_version <= v
    <3>1. p \notin AddedBy(k)
      BY <1>3, <1>4, <1>5 DEF AddedBy, Lawful
    <3>2. trie[p].A_version <= v
      BY <1>3 DEF Old, v
    <3> QED
      BY <1>1, <3>1, <3>2
  <2>2. CASE p \notin DeletedBy(i)
    <3>1. p \notin DeletedBy(k)
      BY <1>5, <2>2 DEF DeletedBy
    <3>2. p \in StoreAt(k)
      BY <3>1 DEF StoreAt
    <3> QED
      BY <1>6, <2>1, <2>2, <3>2 DEF Visible
  <2>3. CASE p \in DeletedBy(i)
    <3>1. PICK j \in 1..(i - 1) : jobs[j].command = "D" /\ jobs[j].ngram = p
      BY <2>3 DEF DeletedBy
    <3>2. k < j <=> v < trie[p].D_version
      BY <1>4, <3>1 DEF Order, Active, OrderOf, Ordered, PutInBefore, v
    <3>3. p \in DeletedBy(k) <=> j \in 1..(k - 1)
      BY <1>4, <1>5, <3>1 DEF DeletedBy
    <3>4. p \in StoreAt(k) <=> ~(j \in 1..(k - 1))
      BY <2>1, <3>3 DEF StoreAt
    <3>5. ~(j \in 1..(k - 1)) <=> v < trie[p].D_version
      BY <1>4, <3>1, <3>2
    <3>6. Visible(trie[p], v) <=> v < trie[p].D_version
      BY <1>2, <1>6, <2>1, <2>3 DEF Visible
    <3> QED
      BY <3>4, <3>5, <3>6
  <2> QED
    BY <2>2, <2>3
<1>9. StoreAt(k) \subseteq Finals(trie)
  BY <1>1, <1>5 DEF StoreAt, AddedBy
<1>10. \A p \in Finals(trie) : p \in StoreAt(k) <=> Visible(trie[p], v)
  BY <1>1, <1>7, <1>8 DEF AddedBy
<1> QED
  BY <1>9, <1>10 DEF v

\* A query of the burst answers as the service does when its line comes.
LEMMA AnswersAsStored ==
  ASSUME Careful, Flow, Versions, Order, Refining, pc = "wait", NEW k \in batch
  PROVE  JobAnswer(k) = Service!Answer(StoreAt(k), jobs[k].ngram)
<1>1. /\ k \in QueriesTo(i) /\ Finals(trie) = stored \union AddedBy(i)
      /\ ~IsDynamic => AddedBy(i) = {}
      /\ IsTrie(trie, Words, current_version) /\ i = Len(jobs) + 1 /\ Len(jobs) \in Nat
  BY Standing DEF Active, Refining, Versions, TrieInStep, Flow, Control
<1>2. k \in 1..Len(jobs) /\ jobs[k].command = "Q" /\ \A j \in 1..(k - 1) : j \in 1..Len(jobs)
  BY <1>1 DEF QueriesTo
<1>3. jobs[k].ngram \in Seq(Words) /\ NoCollision(jobs[k].ngram)
  BY <1>2, BurstsAssumption DEF Refining, Lawful, Careful
<1>4. CASE IsDynamic
  <2> DEFINE seen == {p \in DOMAIN trie : Visible(trie[p], jobs[k].Q_version)}
  <2>1. seen = StoreAt(k)
    <3>1. seen \subseteq Finals(trie) /\ Finals(trie) \subseteq DOMAIN trie
      BY DEF Visible, Finals
    <3> QED
      BY <1>4, <3>1, VersionsTell
  <2>2. JobAnswer(k) = Scan(trie, jobs[k].ngram, seen, Bits)
    BY <1>4 DEF JobAnswer, IsDynamic, Search
  <2>3. seen \in SUBSET DOMAIN trie
    OBVIOUS
  <2> HIDE DEF seen
  <2> QED
    BY <1>1, <1>3, <2>1, <2>2, <2>3, ScanMatches
<1>5. CASE ~IsDynamic
  <2>1. JobAnswer(k) = Scan(trie, jobs[k].ngram, Finals(trie), Bits)
    BY <1>5 DEF JobAnswer, IsDynamic, SearchStatic, Flow, Control
  <2>2. StoreAt(k) = Finals(trie)
    <3>1. \A j \in 1..(k - 1) : jobs[j].command \notin {"A", "D"}
      BY <1>2, <1>5 DEF Refining, Lawful
    <3>2. AddedBy(k) = {} /\ DeletedBy(k) = {}
      BY <3>1 DEF AddedBy, DeletedBy
    <3> QED
      BY <1>1, <1>5, <3>2 DEF StoreAt
  <2>3. Finals(trie) \in SUBSET DOMAIN trie
    BY DEF Finals
  <2> QED
    BY <1>1, <1>3, <2>1, <2>2, <2>3, ScanMatches
<1> QED
  BY <1>4, <1>5

(***************************************************************************)
(* It is kept by the workers.                                              *)
(***************************************************************************)
\* An answer more is counted: by Count, one n-gram after the other.
LEMMA CountOneMore ==
  ASSUME NEW S, IsFiniteSet(S), NEW q, q \notin S, NEW old, NEW new,
         \A x \in S : new[x - 1] = old[x - 1] /\ old[x - 1] \in Answers,
         new[q - 1] \in Answers
  PROVE  Count(Counted(S, old), new[q - 1]) = Counted(S \union {q}, new)
<1> DEFINE holders(p) == {x \in S : Contains(old[x - 1], p)}
           after(p) == {x \in S \union {q} : Contains(new[x - 1], p)}
           shown == UNION {ToSet(old[x - 1]) : x \in S}
           answer == new[q - 1]
<1>1. ASSUME NEW a \in Answers, NEW p PROVE Contains(a, p) <=> p \in ToSet(a)
  BY LenProperties DEF Answers, Contains, ToSet
<1>2. UNION {ToSet(new[x - 1]) : x \in S \union {q}} = shown \union ToSet(answer)
  <2>1. \A x \in S : ToSet(new[x - 1]) = ToSet(old[x - 1])
    OBVIOUS
  <2> QED
    BY <2>1
<1>3. ASSUME NEW p
      PROVE  /\ IsFiniteSet(holders(p)) /\ q \notin holders(p)
             /\ p \notin shown => holders(p) = {}
             /\ after(p) = IF Contains(answer, p) THEN holders(p) \union {q} ELSE holders(p)
  <2>1. IsFiniteSet(holders(p))
    BY FS_Subset
  <2>2. p \notin shown => holders(p) = {}
    BY <1>1
  <2> QED
    BY <2>1, <2>2
<1>4. DOMAIN Counted(S, old) = shown
  BY DEF Counted
<1>5. \A p \in shown : Counted(S, old)[p] = Cardinality(holders(p))
  BY DEF Counted
<1>6. Counted(S \union {q}, new) =
        [p \in UNION {ToSet(new[x - 1]) : x \in S \union {q}} |-> Cardinality(after(p))]
  BY DEF Counted
<1> HIDE DEF holders, after, shown, answer
<1>7. ASSUME NEW p
      PROVE  (IF p \in shown THEN Counted(S, old)[p] ELSE 0)
               + (IF Contains(answer, p) THEN 1 ELSE 0) = Cardinality(after(p))
  <2>1. Cardinality(holders(p)) \in Nat
    BY <1>3, FS_CardinalityType
  <2>2. (IF p \in shown THEN Counted(S, old)[p] ELSE 0) = Cardinality(holders(p))
    <3>1. CASE p \in shown
      BY <1>5, <3>1
    <3>2. CASE p \notin shown
      BY <1>3, <3>2, FS_EmptySet
    <3> QED
      BY <3>1, <3>2
  <2>3. CASE Contains(answer, p)
    <3>1. Cardinality(holders(p) \union {q}) = Cardinality(holders(p)) + 1
      BY <1>3, FS_AddElement
    <3> QED
      BY <1>3, <2>2, <2>3, <3>1
  <2>4. CASE ~Contains(answer, p)
    BY <1>3, <2>1, <2>2, <2>4
  <2> QED
    BY <2>3, <2>4
<1>8. Count(Counted(S, old), answer) =
        [p \in shown \union ToSet(answer) |->
           (IF p \in shown THEN Counted(S, old)[p] ELSE 0)
             + (IF Contains(answer, p) THEN 1 ELSE 0)]
  BY <1>4 DEF Count
<1>9. Count(Counted(S, old), answer) = Counted(S \union {q}, new)
  BY <1>2, <1>6, <1>7, <1>8
<1> QED
  BY <1>9 DEF answer

\* A worker answers from what the trie holds for the version of its query.
LEMMA ExecuteKeepsRefining ==
  ASSUME Careful, Flow, Slots, Versions, Order, Refining,
         NEW k \in 1..MaxBurst, ExecuteCommand(k)
  PROVE  Refining'
<1>1. /\ k \in batch /\ k \notin finished /\ finished' = finished \union {k} /\ pc = "wait"
      /\ buffer'[jobs[k].id] = JobAnswer(k) /\ Slots'
      /\ \A j \in finished : buffer'[jobs[j].id] = buffer[jobs[j].id]
  BY ExecuteKeepsSlots
<1>2. /\ UNCHANGED <<TRIE_TYPE, trie, current_version, jobs, stored, pc, i, id, batch>>
      /\ appearances' = Count(appearances, JobAnswer(k))
  BY DEF ExecuteCommand, Pool!Finish, trieVars, burstVars, history
<1>3. Answered = finished /\ Answered' = finished \union {k} /\ Reached' = Reached
  BY <1>1, <1>2 DEF Answered, Reached, Active
<1>4. /\ IsFiniteSet(finished) /\ finished \subseteq batch
      /\ \A j \in batch : jobs[j].id \in Nat /\ buffer'[jobs[k].id] \in Answers
      /\ \A j \in finished : buffer[jobs[j].id] \in Answers
      /\ \A j \in batch : jobs[j].id = jobs[k].id => j = k
  <2>1. \A j \in batch : jobs[j].id \in 0..(id - 1)
    BY DEF Slots
  <2>2. id \in Nat
    BY LenProperties DEF Flow, Control
  <2>3. \A j \in batch : jobs[j].id \in Nat
    BY <2>1, <2>2
  <2>4. buffer'[jobs[k].id] \in Answers
    <3>1. k \in finished' /\ jobs' = jobs
      BY <1>1, <1>2
    <3> QED
      BY <1>1, <3>1 DEF Slots, Answers
  <2> QED
    BY <1>1, <2>3, <2>4, FinishedNumber DEF Slots, Flow, PoolInStep
<1>5. \A j : StoreAt(j)' = StoreAt(j) /\ QueriesTo(j)' = QueriesTo(j)
  <2>1. \A j : /\ QueriesTo(j)' = QueriesTo(j)
               /\ AddedBy(j)' = AddedBy(j) /\ DeletedBy(j)' = DeletedBy(j)
    BY <1>2 DEF QueriesTo, AddedBy, DeletedBy
  <2> QED
    BY <1>2, <2>1 DEF StoreAt
<1>6. Lawful' /\ Clean' /\ Old' /\ Leaving'
  BY <1>1, <1>2, <1>3 DEF Refining, Lawful, Clean, Old, Leaving, IsDynamic, Finals, DeletedBy
<1>7. InOrder'
  BY <1>2, <1>3, <1>5 DEF Refining, InOrder
<1>8. AnswersRight'
  <2>1. buffer'[jobs[k].id] = Service!Answer(StoreAt(k), jobs[k].ngram)
    BY <1>1, AnswersAsStored
  <2>2. \A j \in finished : buffer'[jobs[j].id] = Service!Answer(StoreAt(j), jobs[j].ngram)
    BY <1>1, <1>3 DEF Refining, AnswersRight
  <2> QED
    BY <1>2, <1>3, <1>5, <2>1, <2>2 DEF AnswersRight
<1>9. CountsRight'
  <2> DEFINE S == {jobs[j].id + 1 : j \in finished}
             q == jobs[k].id + 1
  <2>1. IsFiniteSet(S)
    <3>1. id \in Nat /\ \A j \in finished : jobs[j].id \in 0..(id - 1)
      BY <1>4, LenProperties DEF Slots, Flow, Control
    <3>2. S \subseteq 1..id
      BY <3>1
    <3>3. IsFiniteSet(1..id)
      BY <3>1, FS_Interval
    <3> HIDE DEF S
    <3> QED
      BY <3>2, <3>3, FS_Subset
  <2>2. q \notin S
    BY <1>1, <1>4
  <2>3. \A x \in S : buffer'[x - 1] = buffer[x - 1] /\ buffer[x - 1] \in Answers
    <3> SUFFICES ASSUME NEW j \in finished
                 PROVE  /\ buffer'[(jobs[j].id + 1) - 1] = buffer[(jobs[j].id + 1) - 1]
                        /\ buffer[(jobs[j].id + 1) - 1] \in Answers
      OBVIOUS
    <3>1. (jobs[j].id + 1) - 1 = jobs[j].id
      BY <1>4
    <3> QED
      BY <1>1, <1>4, <3>1
  <2>4. q - 1 = jobs[k].id
    BY <1>1, <1>4
  <2>5. appearances = Counted(S, buffer)
    BY <1>3 DEF Refining, CountsRight
  <2>6. {jobs'[j].id + 1 : j \in Answered'} = S \union {q}
    BY <1>2, <1>3
  <2> HIDE DEF S, q
  <2>7. buffer'[q - 1] \in Answers /\ JobAnswer(k) = buffer'[q - 1]
    BY <1>1, <1>4, <2>4
  <2>8. Count(Counted(S, buffer), buffer'[q - 1]) = Counted(S \union {q}, buffer')
    BY <2>1, <2>2, <2>3, <2>7, CountOneMore
  <2> QED
    BY <1>2, <2>5, <2>6, <2>7, <2>8 DEF CountsRight
<1> QED
  BY <1>6, <1>7, <1>8, <1>9 DEF Refining

\* A job taken from the queue changes nothing of it, nor does a step of others.
LEMMA NothingKeepsRefining ==
  ASSUME Careful, Flow, Refining, UNCHANGED vars \/ \E k \in 1..MaxBurst : TakeJob(k)
  PROVE  Refining'
<1>1. UNCHANGED <<TRIE_TYPE, trie, jobs, stored, pc, i, id, batch, finished, buffer, appearances>>
  BY DEF vars, TakeJob, Pool!Begin, trieVars, burstVars, queryVars, history
<1>2. Reached' = Reached /\ Answered' = Answered
  BY <1>1 DEF Reached, Active, Answered, QueriesTo
<1>3. Lawful' /\ Clean' /\ Old' /\ Leaving'
  BY <1>1, <1>2
     DEF Refining, Lawful, Clean, Old, Leaving, IsDynamic, Finals, DeletedBy, AddedBy
<1>4. InOrder' /\ AnswersRight' /\ CountsRight'
  BY <1>1, <1>2, SameLines DEF Refining
<1> QED
  BY <1>3, <1>4 DEF Refining

\* At first the trie has the n-grams of the init file, and remembers no other.
LEMMA RefiningInit ==
  ASSUME Careful, Init
  PROVE  Refining /\ Service!ServiceInit
<1>1. PICK file \in InitFiles : ReadInputFile(file)
  BY DEF Init
<1>2. file.ngrams \in Seq(Seq(Words)) /\ <<>> \notin ToSet(file.ngrams)
  BY BurstsAssumption DEF Careful
<1>3. /\ Finals(trie) = ToSet(file.ngrams)
      /\ \A p \in DOMAIN trie : trie[p].D_version = NoVersion
  <2>1. trie = Inserts(file.ngrams)
    BY <1>1 DEF ReadInputFile, Inserts
  <2> QED
    BY <1>2, <2>1, InsertsAreTrie
<1>4. /\ jobs = <<>> /\ Len(jobs) = 0 /\ i = 1 /\ id = 0 /\ pc = "read" /\ batch = {}
      /\ appearances = NoAppearances /\ stored = Finals(trie)
      /\ printed = [answers |-> <<>>, frequencies |-> NoAppearances]
  BY EmptySeq DEF Init, Pool!PoolInit
<1>5. Reached = 1 /\ Answered = {}
  BY <1>4 DEF Reached, Active, Answered
<1>6. CountsRight
  <2>1. {jobs[k].id + 1 : k \in Answered} = {}
    BY <1>5
  <2> QED
    BY <1>4, <2>1, NoneCounted DEF CountsRight
<1>7. Lawful /\ Clean /\ Old /\ Leaving
  <2>1. 1..0 = {}
    OBVIOUS
  <2> QED
    BY <1>3, <1>4, <1>5, <2>1, NoLine DEF Lawful, Clean, Old, Leaving, Finals
<1>8. InOrder /\ AnswersRight
  <2>1. 0..(0 - 1) = {}
    OBVIOUS
  <2> QED
    BY <1>4, <1>5, <2>1, NoLine DEF InOrder, AnswersRight
<1>9. Service!ServiceInit
  <2>1. stored \in {ToSet(f.ngrams) : f \in InitFiles}
    BY <1>1, <1>3, <1>4
  <2>2. Pending = <<>>
    <3>1. DOMAIN jobs = {}
      BY <1>4
    <3> QED
      BY <3>1 DEF Pending
  <2>3. Service!Frequencies(<<>>) = NoAppearances
    BY DEF Service!Frequencies, NoAppearances
  <2> QED
    BY <1>4, <2>1, <2>2, <2>3 DEF Service!ServiceInit, Service!Printed
<1> QED
  BY <1>6, <1>7, <1>8, <1>9 DEF Refining

\* The steps, with what a line of the query file can be.
LEMMA LinesAndSteps ==
  ASSUME [Next]_vars
  PROVE  \/ \E command \in Letters[TRIE_TYPE] :
              \E ngram \in IF command = "Q" THEN Texts ELSE Ngrams : AddCommand(command, ngram)
         \/ EndOfBurst \/ EndOfFile
         \/ ProcessDelete \/ ProcessAdd \/ ProcessQuery \/ ProcessStatic
         \/ ExecuteAllJobs \/ Barrier \/ DeleteNgram \/ PrintBurst
         \/ \E k \in 1..MaxBurst : ExecuteCommand(k)
         \/ UNCHANGED vars \/ \E k \in 1..MaxBurst : TakeJob(k)
BY DEF Next, ReadLine, ProcessStep, ProcessUnknown, Ended

\* Every step keeps what the service needs.
LEMMA RefiningStep ==
  ASSUME Careful, Flow, Slots, Versions, Order, Refining, [Next]_vars
  PROVE  Refining'
BY LinesAndSteps, LineKeepsRefining, EndKeepsRefining, AddKeepsRefining, DeleteKeepsRefining,
   QueryKeepsRefining, ReleaseKeepsRefining, BarrierKeepsRefining, CutKeepsRefining,
   PrintKeepsRefining, ExecuteKeepsRefining, NothingKeepsRefining

(***************************************************************************)
(* The end of a burst: what is stored, printed and counted.                *)
(***************************************************************************)
\* The lines of the burst.
LEMMA PendingLines ==
  ASSUME Careful, Flow, Versions, Lawful
  PROVE  /\ Pending \in Seq(Line) /\ Len(Pending) = Len(jobs) /\ Len(jobs) \in Nat
         /\ DOMAIN jobs = 1..Len(jobs)
         /\ \A k \in 1..Len(jobs) : /\ Pending[k] \in Line
                                    /\ Pending[k].command = jobs[k].command
                                    /\ Pending[k].ngram = jobs[k].ngram
<1>1. /\ DOMAIN jobs = 1..Len(jobs) /\ Len(jobs) \in Nat
      /\ \A k \in 1..Len(jobs) : jobs[k].command \in {"A", "D", "Q"} /\ jobs[k].ngram \in Seq(Words)
  BY Standing, LenProperties
<1>2. Pending = [k \in 1..Len(jobs) |-> [command |-> jobs[k].command, ngram |-> jobs[k].ngram]]
  BY <1>1 DEF Pending
<1>3. \A k \in 1..Len(jobs) : /\ Pending[k] \in Line
                              /\ Pending[k].command = jobs[k].command
                              /\ Pending[k].ngram = jobs[k].ngram
  BY <1>1, <1>2 DEF Line
<1>4. Pending \in [1..Len(jobs) -> Line]
  BY <1>2, <1>3
<1>5. Pending \in Seq(Line) /\ Len(Pending) = Len(jobs)
  BY <1>1, <1>4, IsASeq, LenProperties
<1> QED
  BY <1>1, <1>3, <1>5

\* The service before the k-th line: it stores what the lines before it leave
\* and has answered their queries.
Follows(f, k) ==
  /\ f.store = StoreAt(k)
  /\ {jobs[q].id : q \in QueriesTo(k)} = 0..(Len(f.answers) - 1)
  /\ \A q \in QueriesTo(k) :
       f.answers[jobs[q].id + 1] = Service!Answer(StoreAt(q), jobs[q].ngram)

\* The k-th line executed.
LEMMA LineFollows ==
  ASSUME Careful, Flow, Versions, Lawful, InOrder, Reached = Len(jobs) + 1,
         NEW k \in 1..Len(jobs), NEW f \in State, Follows(f, k)
  PROVE  Follows(Service!Execute(f, Pending[k]), k + 1)
<1> DEFINE g == Service!Execute(f, Pending[k])
           n == jobs[k].ngram
<1>1. /\ Len(jobs) \in Nat /\ k \in Nat \ {0} /\ jobs[k].command \in {"A", "D", "Q"}
      /\ Pending[k] \in Line /\ Pending[k].command = jobs[k].command /\ Pending[k].ngram = n
  BY PendingLines, Standing
<1>2. /\ g \in State
      /\ jobs[k].command = "A" => g.store = f.store \union {n} /\ g.answers = f.answers
      /\ jobs[k].command = "D" => g.store = f.store \ {n} /\ g.answers = f.answers
      /\ jobs[k].command = "Q" =>
           g.store = f.store /\ g.answers = Append(f.answers, Service!Answer(f.store, n))
  BY <1>1, ExecuteLine
<1>3. /\ f.answers \in Seq(Answers) /\ Len(f.answers) \in Nat /\ f.store \in SUBSET Seq(Words)
  BY LenProperties DEF State
<1>4. n \in Seq(Words)
  BY Standing
<1> HIDE DEF g
<1>5. CASE jobs[k].command = "A"
  <2>1. /\ AddedBy(k + 1) = AddedBy(k) \union {n} /\ DeletedBy(k + 1) = DeletedBy(k)
        /\ QueriesTo(k + 1) = QueriesTo(k)
    BY <1>1, <1>5, NextLine
  <2> HIDE DEF n
  <2>2. StoreAt(k + 1) = StoreAt(k) \union {n}
    BY <2>1 DEF StoreAt
  <2> QED
    BY <1>2, <1>5, <2>1, <2>2 DEF Follows, g
<1>6. CASE jobs[k].command = "D"
  <2>1. /\ AddedBy(k + 1) = AddedBy(k) /\ DeletedBy(k + 1) = DeletedBy(k) \union {n}
        /\ QueriesTo(k + 1) = QueriesTo(k)
    BY <1>1, <1>6, NextLine
  <2>2. n \notin AddedBy(k)
    <3>1. \A j \in 1..(k - 1) : j \in 1..Len(jobs) /\ j # k
      BY <1>1
    <3> QED
      BY <1>6, <3>1 DEF AddedBy, Lawful
  <2> HIDE DEF n
  <2>3. StoreAt(k + 1) = StoreAt(k) \ {n}
    BY <2>1, <2>2 DEF StoreAt
  <2> QED
    BY <1>2, <1>6, <2>1, <2>3 DEF Follows, g
<1>7. CASE jobs[k].command = "Q"
  <2> DEFINE m == Len(f.answers)
             answer == Service!Answer(f.store, n)
  <2>1. /\ AddedBy(k + 1) = AddedBy(k) /\ DeletedBy(k + 1) = DeletedBy(k)
        /\ QueriesTo(k + 1) = QueriesTo(k) \union {k}
    BY <1>1, <1>7, NextLine
  <2>2. jobs[k].id = m
    <3>1. k \in QueriesTo(Len(jobs) + 1)
      BY <1>1, <1>7 DEF QueriesTo
    <3>2. /\ 0..(jobs[k].id - 1) = {jobs[q].id : q \in QueriesTo(k)}
          /\ jobs[k].id \in 0..(id - 1)
      BY <3>1 DEF InOrder
    <3>3. 0..(jobs[k].id - 1) = 0..(m - 1)
      BY <3>2 DEF Follows
    <3>4. jobs[k].id \in Nat /\ m \in Nat
      BY <1>3, <3>2
    <3> HIDE DEF m
    <3>5. \A x, y \in Nat : 0..(x - 1) = 0..(y - 1) => x = y
      <4> SUFFICES ASSUME NEW x \in Nat, NEW y \in Nat, 0..(x - 1) = 0..(y - 1), x < y
                   PROVE  FALSE
        OBVIOUS
      <4>1. x \in 0..(y - 1) /\ x \notin 0..(x - 1)
        OBVIOUS
      <4> QED
        BY <4>1
    <3> QED
      BY <3>3, <3>4, <3>5
  <2>3. answer \in Answers
    BY <1>4, AnswerType
  <2>4. /\ g.answers = Append(f.answers, answer) /\ Len(g.answers) = m + 1 /\ m \in Nat
        /\ g.answers[m + 1] = answer
        /\ \A x \in 1..m : g.answers[x] = f.answers[x]
    <3>1. g.answers = Append(f.answers, answer)
      BY <1>2, <1>7
    <3> HIDE DEF answer
    <3> QED
      BY <1>3, <2>3, <3>1, AppendProperties
  <2>5. StoreAt(k + 1) = StoreAt(k) /\ f.store = StoreAt(k) /\ g.store = f.store
    BY <1>2, <1>7, <2>1 DEF StoreAt, Follows
  <2>6. {jobs[q].id : q \in QueriesTo(k)} = 0..(m - 1)
    BY DEF Follows
  <2> HIDE DEF m, answer
  <2>7. {jobs[q].id : q \in QueriesTo(k + 1)} = 0..(Len(g.answers) - 1)
    <3>1. {jobs[q].id : q \in QueriesTo(k + 1)} = {jobs[q].id : q \in QueriesTo(k)} \union {m}
      BY <2>1, <2>2
    <3>2. 0..((m + 1) - 1) = 0..(m - 1) \union {m}
      BY <2>4
    <3> QED
      BY <2>4, <2>6, <3>1, <3>2
  <2>8. ASSUME NEW q \in QueriesTo(k)
        PROVE  g.answers[jobs[q].id + 1] = Service!Answer(StoreAt(q), jobs[q].ngram)
    <3>1. jobs[q].id \in 0..(m - 1)
      BY <2>6
    <3>2. jobs[q].id + 1 \in 1..m
      BY <2>4, <3>1
    <3> QED
      BY <2>4, <3>2 DEF Follows
  <2>9. g.answers[jobs[k].id + 1] = Service!Answer(StoreAt(k), jobs[k].ngram)
    BY <2>2, <2>4, <2>5 DEF answer
  <2> QED
    BY <2>1, <2>5, <2>7, <2>8, <2>9 DEF Follows, g
<1> QED
  BY <1>1, <1>5, <1>6, <1>7

\* After all lines of the burst.
LEMMA BurstFollows ==
  ASSUME Careful, Flow, Versions, Lawful, InOrder, Leaving, pc \in {"delete", "print"}
  PROVE  Expected \in State /\ Follows(Expected, Len(jobs) + 1)
<1> DEFINE n == Len(jobs)
<1>1. /\ n \in Nat /\ Pending \in Seq(Line) /\ Len(Pending) = n
      /\ stored \in SUBSET Seq(Words) /\ Reached = n + 1
  <2>1. Finals(trie) \subseteq Seq(Words)
    BY DEF Versions, TrieInStep, IsTrie, Finals
  <2>2. DeletedBy(i) \subseteq Seq(Words)
    <3>1. \A j \in 1..(i - 1) : j \in 1..Len(jobs)
      BY Standing
    <3> QED
      BY <3>1, Standing DEF DeletedBy
  <2>3. stored \subseteq Finals(trie) \union DeletedBy(i)
    BY DEF Leaving
  <2>4. Reached = n + 1
    BY DEF Reached, Active
  <2> QED
    BY <2>1, <2>2, <2>3, <2>4, PendingLines
<1>2. PICK F \in [0..n -> State] :
        /\ F[0] = [store |-> stored, answers |-> <<>>]
        /\ \A k \in 1..n : F[k] = Service!Execute(F[k - 1], Pending[k])
        /\ Expected = F[n]
  <2>1. LineByLine(stored, Pending)
    BY <1>1, SequentialRuns
  <2> QED
    BY <1>1, <2>1 DEF LineByLine, Expected
<1> DEFINE K == {k \in 0..n : Follows(F[k], k + 1)}
<1> HIDE DEF n
<1>3. 0 \in K
  <2>1. /\ AddedBy(1) = {} /\ DeletedBy(1) = {} /\ QueriesTo(1) = {}
        /\ F[0].store = stored /\ F[0].answers = <<>> /\ 0..(0 - 1) = {} /\ 0 + 1 = 1
    BY <1>2, NoLine
  <2>2. {jobs[q].id : q \in QueriesTo(1)} = 0..(Len(F[0].answers) - 1)
    BY <2>1, EmptySeq
  <2>3. F[0].store = StoreAt(1)
    BY <2>1 DEF StoreAt
  <2>4. Follows(F[0], 1)
    BY <2>1, <2>2, <2>3 DEF Follows
  <2> QED
    BY <1>1, <2>1, <2>4
<1>4. ASSUME NEW k \in 0..(n - 1), k \in K
      PROVE  k + 1 \in K
  <2>1. k \in 0..n /\ k + 1 \in 1..n /\ k + 1 \in 0..n /\ (k + 1) - 1 = k
    BY <1>1
  <2>2. Follows(F[k], k + 1) /\ F[k] \in State
    BY <1>4, <2>1
  <2>3. F[k + 1] = Service!Execute(F[k], Pending[k + 1])
    BY <1>2, <2>1
  <2>4. Follows(F[k + 1], (k + 1) + 1)
    BY <1>1, <2>1, <2>2, <2>3, LineFollows DEF n
  <2> QED
    BY <2>1, <2>4
<1>5. n \in 0..n
  BY <1>1
<1>6. n \in K
  <2> HIDE DEF K
  <2> QED
    BY <1>1, <1>3, <1>4, <1>5, SetInduction
<1> QED
  BY <1>2, <1>5, <1>6 DEF n

\* When a burst is printed the trie, the buffer and the table of answers are
\* those of its lines executed one by one.
LEMMA AsExecutedOneByOne ==
  ASSUME Careful, Flow, Slots, Versions, Refining, AtPrint
  PROVE  /\ Finals(trie) = Expected.store
         /\ Lines = Expected.answers
         /\ appearances = Service!Frequencies(Lines)
<1> DEFINE n == Len(jobs)
           answers == Expected.answers
<1>1. /\ pc \in {"delete", "print"}
      /\ pc = "delete" => i > n
      /\ n \in Nat /\ i \in 1..(n + 1) /\ id \in Nat
      /\ Lawful /\ InOrder /\ Leaving /\ AnswersRight /\ CountsRight
  BY Standing DEF AtPrint, Refining
<1>2. Reached = n + 1 /\ Answered = QueriesTo(n + 1)
  BY <1>1 DEF Reached, Active, Answered
<1>3. Expected \in State /\ Follows(Expected, n + 1)
  BY <1>1, BurstFollows
<1>4. \A j \in 1..((n + 1) - 1) : j \in 1..n
  BY <1>1
<1>5. Finals(trie) = Expected.store
  <2>1. AddedBy(n + 1) \intersect DeletedBy(n + 1) = {}
    BY <1>1, <1>4 DEF AddedBy, DeletedBy, Lawful
  <2>2. CASE pc = "delete"
    <3>1. i = n + 1
      BY <1>1, <2>2
    <3>2. Finals(trie) = (stored \union AddedBy(n + 1)) \ DeletedBy(n + 1)
      BY <1>1, <2>2, <3>1 DEF Leaving
    <3> QED
      BY <1>3, <2>1, <3>2 DEF Follows, StoreAt
  <2>3. CASE pc = "print"
    <3>1. ~IsDynamic
      BY <2>3 DEF Flow, Control
    <3>2. AddedBy(n + 1) = {} /\ DeletedBy(n + 1) = {}
      BY <1>1, <1>4, <3>1 DEF AddedBy, DeletedBy, Lawful
    <3>3. Finals(trie) = stored
      BY <1>1, <2>3 DEF Leaving
    <3> QED
      BY <1>3, <3>2, <3>3 DEF Follows, StoreAt
  <2> QED
    BY <1>1, <2>2, <2>3
<1>6. answers \in Seq(Answers) /\ Len(answers) \in Nat /\ DOMAIN answers = 1..Len(answers)
  BY <1>3, LenProperties DEF State
<1>7. {jobs[q].id : q \in QueriesTo(n + 1)} = 0..(id - 1)
  BY <1>1, <1>2 DEF InOrder
<1>8. Len(answers) = id
  <2>1. 0..(Len(answers) - 1) = 0..(id - 1)
    BY <1>3, <1>7 DEF Follows
  <2> HIDE DEF answers
  <2>2. \A x, y \in Nat : 0..(x - 1) = 0..(y - 1) => ~(x < y)
    <3> SUFFICES ASSUME NEW x \in Nat, NEW y \in Nat, 0..(x - 1) = 0..(y - 1), x < y
                 PROVE  FALSE
      OBVIOUS
    <3>1. x \in 0..(y - 1) /\ x \notin 0..(x - 1)
      OBVIOUS
    <3> QED
      BY <3>1
  <2>3. ~(Len(answers) < id) /\ ~(id < Len(answers))
    BY <1>1, <1>6, <2>1, <2>2
  <2>4. Len(answers) \in Nat /\ id \in Nat
    BY <1>1, <1>6
  <2> QED
    BY <2>3, <2>4
<1> HIDE DEF n
<1>9. ASSUME NEW x \in 1..id
      PROVE  buffer[x - 1] = answers[x]
  <2>1. x - 1 \in 0..(id - 1) /\ (x - 1) + 1 = x
    BY <1>1
  <2>2. PICK q \in QueriesTo(n + 1) : jobs[q].id = x - 1
    BY <1>7, <2>1
  <2>3. buffer[x - 1] = Service!Answer(StoreAt(q), jobs[q].ngram)
    BY <1>1, <1>2, <2>2 DEF AnswersRight
  <2>4. answers[x] = Service!Answer(StoreAt(q), jobs[q].ngram)
    <3>1. Expected.answers[jobs[q].id + 1] = Service!Answer(StoreAt(q), jobs[q].ngram)
      BY <1>3 DEF Follows
    <3> QED
      BY <2>1, <2>2, <3>1
  <2> QED
    BY <2>3, <2>4
<1> HIDE DEF answers
<1>10. Lines = answers
  <2>1. Lines = [x \in 1..id |-> answers[x]]
    BY <1>9 DEF Lines
  <2>2. answers = [x \in 1..id |-> answers[x]]
    BY <1>6, <1>8, LenProperties
  <2> QED
    BY <2>1, <2>2
<1>11. appearances = Counted(1..id, buffer)
  <2>1. {jobs[k].id + 1 : k \in Answered} = 1..id
    <3>1. {jobs[k].id + 1 : k \in Answered} = {y + 1 : y \in {jobs[k].id : k \in QueriesTo(n + 1)}}
      BY <1>2
    <3>2. {y + 1 : y \in 0..(id - 1)} = 1..id
      <4>1. \A x \in 1..id : x - 1 \in 0..(id - 1) /\ x = (x - 1) + 1
        BY <1>1
      <4>2. \A y \in 0..(id - 1) : y + 1 \in 1..id
        BY <1>1
      <4> QED
        BY <4>1, <4>2
    <3> QED
      BY <1>7, <3>1, <3>2
  <2> QED
    BY <1>1, <2>1 DEF CountsRight
<1>12. Service!Frequencies(Lines) = Counted(1..id, buffer)
  <2>1. DOMAIN Lines = 1..id /\ \A x \in 1..id : Lines[x] = buffer[x - 1]
    BY DEF Lines
  <2>2. Service!Frequencies(Lines) =
          [p \in UNION {ToSet(Lines[x]) : x \in DOMAIN Lines} |->
             Cardinality({x \in DOMAIN Lines : Contains(Lines[x], p)})]
    BY DEF Service!Frequencies, Service!ToSet, Service!Cardinality, Service!Contains, Contains,
           Cardinality, ToSet
  <2>3. UNION {ToSet(Lines[x]) : x \in DOMAIN Lines} = UNION {ToSet(buffer[x - 1]) : x \in 1..id}
    BY <2>1
  <2>4. ASSUME NEW p
        PROVE  {x \in DOMAIN Lines : Contains(Lines[x], p)} = {x \in 1..id : Contains(buffer[x - 1], p)}
    BY <2>1
  <2> QED
    BY <2>2, <2>3, <2>4 DEF Counted
<1> QED
  BY <1>5, <1>10, <1>11, <1>12 DEF answers

(***************************************************************************)
(* Every step is one of the service, or none.                              *)
(***************************************************************************)
\* The burst as it is read and printed.
LEMMA NextServes ==
  ASSUME Careful, Flow, Slots, Versions, Refining, [Next]_vars
  PROVE  [Service!ServiceNext]_<<stored, Pending, printed>>
<1>1. ASSUME NEW command \in Letters[TRIE_TYPE],
             NEW ngram \in IF command = "Q" THEN Texts ELSE Ngrams, AddCommand(command, ngram)
      PROVE  Service!ServiceNext
  <2> DEFINE line == [command |-> command, ngram |-> ngram]
             job == [command |-> command, ngram |-> ngram, id |-> Garbage, Q_version |-> Garbage]
             Commands == [command : {"Q"}, ngram : Texts] \union [command : {"A", "D"}, ngram : Ngrams]
  <2>1. line \in Commands
    <3>1. TRIE_TYPE \in {"static", "dynamic"}
      BY DEF Flow, Control
    <3>2. command \in {"A", "D", "Q"}
      BY <3>1 DEF Careful
    <3> QED
      BY <3>2
  <2>2. jobs' = Append(jobs, job) /\ stored' = stored /\ printed' = printed
    BY <1>1 DEF AddCommand, history
  <2>3. Pending' = Append(Pending, line)
    <3>1. jobs \in Seq(Job(TRIE_TYPE)) /\ job \in Job(TRIE_TYPE)
      BY DEF Flow, Control, Job
    <3>2. job.command = command /\ job.ngram = ngram
      OBVIOUS
    <3>3. Pending \in Seq(Line) /\ Len(Pending) = Len(jobs) /\ Len(jobs) \in Nat
      BY PendingLines DEF Refining
    <3> HIDE DEF job
    <3>4. /\ DOMAIN jobs' = 1..(Len(jobs) + 1)
          /\ \A k \in 1..Len(jobs) : jobs'[k] = jobs[k]
          /\ jobs'[Len(jobs) + 1] = job
      BY <2>2, <3>1, <3>3, AppendProperties, LenProperties
    <3>5. Pending' = [k \in 1..(Len(jobs) + 1) |->
                        [command |-> jobs'[k].command, ngram |-> jobs'[k].ngram]]
      BY <3>4 DEF Pending
    <3>6. DOMAIN jobs = 1..Len(jobs)
      BY <3>1, LenProperties
    <3>7. Pending = [k \in 1..Len(jobs) |->
                       [command |-> jobs[k].command, ngram |-> jobs[k].ngram]]
      BY <3>6 DEF Pending
    <3>8. Append(Pending, line) =
            [k \in 1..(Len(Pending) + 1) |-> IF k = Len(Pending) + 1 THEN line ELSE Pending[k]]
      BY <3>3
    <3> QED
      BY <3>2, <3>3, <3>4, <3>5, <3>7, <3>8
  <2>4. Service!Receive(line)
    BY <2>2, <2>3 DEF Service!Receive
  <2> QED
    BY <2>1, <2>4 DEF Service!ServiceNext
<1>2. CASE PrintBurst
  <2>1. /\ AtPrint /\ jobs' = <<>> /\ stored' = Finals(trie)
        /\ printed' = [answers |-> Lines, frequencies |-> appearances]
    BY <1>2 DEF PrintBurst
  <2>2. /\ Finals(trie) = Expected.store /\ Lines = Expected.answers
        /\ appearances = Service!Frequencies(Lines)
    BY <2>1, AsExecutedOneByOne
  <2>3. Pending' = <<>>
    <3>1. DOMAIN jobs' = {}
      BY <2>1
    <3> QED
      BY <3>1 DEF Pending
  <2>4. Service!EndOfBurst
    BY <2>1, <2>2, <2>3 DEF Service!EndOfBurst, Service!Printed, Expected
  <2> QED
    BY <2>4 DEF Service!ServiceNext
<1>3. CASE \/ EndOfBurst \/ EndOfFile \/ ProcessDelete \/ ProcessAdd \/ ExecuteAllJobs
           \/ Barrier \/ DeleteNgram \/ \E k \in 1..MaxBurst : ExecuteCommand(k)
           \/ UNCHANGED vars \/ \E k \in 1..MaxBurst : TakeJob(k)
  <2>1. UNCHANGED <<jobs, stored, printed>>
    BY <1>3
       DEF EndOfBurst, EndOfFile, ProcessDelete, ProcessAdd, ExecuteAllJobs, Barrier,
           DeleteNgram, ExecuteCommand, TakeJob, vars, burstVars, history
  <2> QED
    BY <2>1 DEF Pending
<1>4. CASE ProcessQuery \/ ProcessStatic
  <2>1. /\ Len(jobs') = Len(jobs) /\ Flow'
        /\ i \in 1..Len(jobs)
        /\ \A k \in 1..Len(jobs) : k # i => jobs'[k] = jobs[k]
    BY <1>4, CollectKeepsFlow
  <2>2. jobs'[i].command = jobs[i].command /\ jobs'[i].ngram = jobs[i].ngram
    BY <1>4, CollectKeepsFlow
  <2>3. UNCHANGED <<stored, printed>>
    BY <1>4 DEF ProcessQuery, ProcessStatic, history
  <2>4. DOMAIN jobs = 1..Len(jobs) /\ DOMAIN jobs' = 1..Len(jobs)
    BY <2>1, LenProperties DEF Flow, Control
  <2>5. Pending' = Pending
    BY <2>1, <2>2, <2>4 DEF Pending
  <2> QED
    BY <2>3, <2>5
<1> QED
  BY <1>1, <1>2, <1>3, <1>4, LinesAndSteps

\* All that was found of a burst holds of every state.
THEOREM RefiningHolds == Careful => (Spec => [](Flow /\ Slots /\ Versions /\ Refining))
<1> SUFFICES ASSUME Careful PROVE Spec => [](Flow /\ Slots /\ Versions /\ Refining)
  OBVIOUS
<1>1. Init => Refining
  BY RefiningInit
<1>2. Flow /\ Slots /\ [Next]_vars => Slots'
  BY SlotsStep
<1>3. Flow /\ Versions /\ [Next]_vars => Versions'
  BY VersionsStep
<1>4. Init => Order
  BY DEF Init, Order, Active
<1>5. Flow /\ Versions /\ Order /\ [Next]_vars => Order'
  BY OrderStep
<1>6. Flow /\ Slots /\ Versions /\ Order /\ Refining /\ [Next]_vars => Refining'
  BY RefiningStep
<1> QED
  BY <1>1, <1>2, <1>3, <1>4, <1>5, <1>6, FlowHolds, SlotsInit, VersionsInit, PTL DEF Spec

\* Every behaviour of Bursts is one of the service: stored, Pending and printed
\* change as if the lines of each burst were executed one by one.
THEOREM Serves == Careful => (Spec => ImplementsService)
<1> SUFFICES ASSUME Careful PROVE Spec => ImplementsService
  OBVIOUS
<1>1. Init => Service!ServiceInit
  BY RefiningInit
<1>2. Flow /\ Slots /\ Versions /\ Refining /\ [Next]_vars =>
        [Service!ServiceNext]_<<stored, Pending, printed>>
  BY NextServes
<1>3. Spec => [](Flow /\ Slots /\ Versions /\ Refining)
  BY RefiningHolds
<1> QED
  BY <1>1, <1>2, <1>3, PTL DEF Spec, ImplementsService, Service!ServiceSpec, Service!serviceVars

\* The queries are answered, and the n-grams stored, in the order of the lines:
\* these restrictions are all that the code needs to do what is asked of it.
THEOREM Sequentially == Careful => (Spec => [](QueriesSequential /\ StoreSequential))
<1> SUFFICES ASSUME Careful PROVE Spec => [](QueriesSequential /\ StoreSequential)
  OBVIOUS
<1>1. Flow /\ Slots /\ Versions /\ Refining => QueriesSequential /\ StoreSequential
  BY AsExecutedOneByOne DEF QueriesSequential, StoreSequential
<1>2. Spec => [](Flow /\ Slots /\ Versions /\ Refining)
  BY RefiningHolds
<1> QED
  BY <1>1, <1>2, PTL

\* What is stored at the end of a burst is seen by the queries of the next.
THEOREM Answerable == Careful => (Spec => []StoredIsAnswerable)
<1> SUFFICES ASSUME Careful PROVE Spec => []StoredIsAnswerable
  OBVIOUS
<1>1. Flow /\ Versions /\ Refining => StoredIsAnswerable
  <2> SUFFICES ASSUME Flow, Versions, Refining, pc = "read", NEW p \in Finals(trie)
               PROVE  Visible(trie[p], current_version)
    BY DEF StoredIsAnswerable
  <2>1. Reached = 1 /\ DeletedBy(1) = {}
    BY NoLine DEF Reached, Active
  <2>2. trie[p].D_version = NoVersion
    BY <2>1 DEF Refining, Clean
  <2>3. trie[p].A_version \in NoVersion..current_version /\ current_version \in Nat
    BY AtHand
  <2>4. trie[p].is_final
    BY DEF Finals
  <2> QED
    BY <2>2, <2>3, <2>4 DEF Visible, NoVersion
<1>2. Spec => [](Flow /\ Slots /\ Versions /\ Refining)
  BY RefiningHolds
<1> QED
  BY <1>1, <1>2, PTL

=============================================================================
