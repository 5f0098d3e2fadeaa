------------------------ MODULE VersionedTrie_proofs ------------------------
(***************************************************************************)
(* Lemmas about the operators of VersionedTrie, for any words, versions    *)
(* and Bloom filter: every update leaves a tree whose branches end in an   *)
(* n-gram, and a search answers only what it may see, each n-gram once.    *)
(***************************************************************************)
EXTENDS VersionedTrie, SequenceTheorems, WellFoundedInduction, TLAPS

(***************************************************************************)
(* Numbers.                                                                *)
(***************************************************************************)
\* A set of numbers has a least one.
LEMMA LeastNumber ==
  ASSUME NEW T \in SUBSET Nat, T # {}
  PROVE  \E q \in T : \A x \in T : q <= x
<1>1. PICK q \in T : \A x \in T : ~(<<x, q>> \in OpToRel(<, Nat))
  BY NatLessThanWellFounded, WFMin, Zenon
<1>2. \A x \in T : ~(x < q)
  BY <1>1 DEF OpToRel
<1> QED
  BY <1>2

\* What holds of 0, and of the successor of what it holds of, holds up to n.
LEMMA SetInduction ==
  ASSUME NEW n \in Nat, NEW K, 0 \in K, \A k \in 0..(n - 1) : k \in K => k + 1 \in K
  PROVE  \A k \in 0..n : k \in K
<1> DEFINE T == {k \in 0..n : k \notin K}
<1> SUFFICES ASSUME T # {} PROVE FALSE
  OBVIOUS
<1>1. PICK q \in T : \A x \in T : q <= x
  <2>1. T \in SUBSET Nat
    OBVIOUS
  <2> HIDE DEF T
  <2> QED
    BY <2>1, LeastNumber
<1>2. q \in 0..n /\ q # 0
  OBVIOUS
<1>3. q - 1 \in 0..(n - 1) /\ q - 1 \in 0..n
  BY <1>2
<1>4. q - 1 \in K
  BY <1>1, <1>2, <1>3
<1> QED
  BY <1>2, <1>3, <1>4

\* The greatest of some of the first n numbers.
LEMMA MaxNumber ==
  ASSUME NEW n \in Nat, NEW s \in SUBSET (1..n), s # {}
  PROVE  Max(s) \in s /\ \A x \in s : x <= Max(s)
<1> DEFINE T == {y \in 0..n : n - y \in s}
<1>1. T \in SUBSET Nat
  OBVIOUS
<1>2. \A x \in s : x \in Nat /\ n - x \in T
  OBVIOUS
<1>3. T # {}
  BY <1>2
<1>4. PICK q \in T : \A x \in T : q <= x
  <2> HIDE DEF T
  <2> QED
    BY <1>1, <1>3, LeastNumber
<1>5. n - q \in s /\ \A x \in s : n - q >= x
  BY <1>2, <1>4
<1>6. Max(s) \in s /\ \A x \in s : Max(s) >= x
  BY <1>5, Zenon DEF Max
<1>7. \A x \in s : Max(s) \in Nat /\ x \in Nat
  BY <1>2, <1>6
<1> QED
  BY <1>6, <1>7

(***************************************************************************)
(* Folds.  FoldLeft runs through the subsets of the domain of a sequence,  *)
(* taking away the greatest position each time.                            *)
(***************************************************************************)
\* g folds the first n positions: base, and then G for each of them.
FoldsTo(g, n, base, G) ==
  \A s \in SUBSET (1..n) :
    g[s] = IF s = {} THEN base ELSE G[<<g[s \ {Max(s)}], Max(s)>>]

\* The recursion has a solution, when a step leads from T to T.
LEMMA FoldExists ==
  ASSUME NEW n \in Nat, NEW T, NEW base \in T, NEW G \in [T \X (1..n) -> T]
  PROVE  \E g \in [SUBSET (1..n) -> T] : FoldsTo(g, n, base, G)
<1> DEFINE Solves(g, k) ==
             \A s \in SUBSET (1..k) :
               g[s] = IF s = {} THEN base ELSE G[<<g[s \ {Max(s)}], Max(s)>>]
           K == {k \in 0..n : \E g \in [SUBSET (1..k) -> T] : Solves(g, k)}
<1>1. 0 \in K
  <2> DEFINE g == [s \in SUBSET (1..0) |-> base]
  <2>1. \A s \in SUBSET (1..0) : s = {}
    OBVIOUS
  <2>2. g \in [SUBSET (1..0) -> T]
    OBVIOUS
  <2>3. Solves(g, 0)
    BY <2>1
  <2>4. 0 \in 0..n
    OBVIOUS
  <2> HIDE DEF g, Solves
  <2> QED
    BY <2>2, <2>3, <2>4
<1>2. ASSUME NEW k \in 0..(n - 1), k \in K
      PROVE  k + 1 \in K
  <2>1. PICK g \in [SUBSET (1..k) -> T] : Solves(g, k)
    BY <1>2
  <2>2. k \in Nat /\ k + 1 \in 1..n /\ k + 1 \in 0..n
    OBVIOUS
  <2> DEFINE h == [s \in SUBSET (1..(k + 1)) |->
                     IF k + 1 \in s THEN G[<<g[s \ {k + 1}], k + 1>>] ELSE g[s]]
  <2>3. ASSUME NEW s \in SUBSET (1..(k + 1))
        PROVE  /\ k + 1 \in s => s \ {k + 1} \in SUBSET (1..k) /\ Max(s) = k + 1
               /\ k + 1 \notin s => s \in SUBSET (1..k)
    <3>1. ASSUME k + 1 \in s PROVE Max(s) = k + 1
      <4>1. k + 1 \in Nat /\ s # {}
        BY <2>2, <3>1
      <4>2. Max(s) \in s /\ k + 1 <= Max(s)
        BY <3>1, <4>1, MaxNumber
      <4>3. Max(s) \in 1..(k + 1)
        BY <4>2
      <4> QED
        BY <2>2, <4>2, <4>3
    <3>2. \A x \in 1..(k + 1) : x = k + 1 \/ x \in 1..k
      BY <2>2
    <3> QED
      BY <3>1, <3>2
  <2>4. h \in [SUBSET (1..(k + 1)) -> T]
    <3> SUFFICES ASSUME NEW s \in SUBSET (1..(k + 1))
                 PROVE  (IF k + 1 \in s THEN G[<<g[s \ {k + 1}], k + 1>>] ELSE g[s]) \in T
      OBVIOUS
    <3>1. CASE k + 1 \in s
      <4>1. g[s \ {k + 1}] \in T
        BY <2>3, <3>1
      <4> QED
        BY <2>2, <3>1, <4>1
    <3>2. CASE k + 1 \notin s
      BY <2>3, <3>2
    <3> QED
      BY <3>1, <3>2
  <2>5. \A s \in SUBSET (1..k) : s \in SUBSET (1..(k + 1)) /\ h[s] = g[s]
    <3> SUFFICES ASSUME NEW s \in SUBSET (1..k)
                 PROVE  s \in SUBSET (1..(k + 1)) /\ h[s] = g[s]
      OBVIOUS
    <3>1. s \in SUBSET (1..(k + 1)) /\ k + 1 \notin s
      BY <2>2
    <3> QED
      BY <3>1
  <2>6. Solves(h, k + 1)
    <3> SUFFICES ASSUME NEW s \in SUBSET (1..(k + 1))
                 PROVE  h[s] = IF s = {} THEN base ELSE G[<<h[s \ {Max(s)}], Max(s)>>]
      OBVIOUS
    <3>1. CASE k + 1 \in s
      <4>1. h[s \ {k + 1}] = g[s \ {k + 1}]
        BY <2>3, <2>5, <3>1
      <4>2. h[s] = G[<<g[s \ {k + 1}], k + 1>>]
        BY <3>1
      <4> HIDE DEF h
      <4> QED
        BY <2>3, <3>1, <4>1, <4>2
    <3>2. CASE k + 1 \notin s
      <4>1. s \in SUBSET (1..k) /\ s \ {Max(s)} \in SUBSET (1..k)
        BY <2>3, <3>2
      <4>2. h[s] = g[s] /\ h[s \ {Max(s)}] = g[s \ {Max(s)}]
        BY <2>5, <4>1
      <4> HIDE DEF h
      <4> QED
        BY <2>1, <4>1, <4>2
    <3> QED
      BY <3>1, <3>2
  <2> HIDE DEF h, Solves
  <2> QED
    BY <2>2, <2>4, <2>6
<1>3. n \in K
  <2> HIDE DEF K
  <2>1. \A k \in 0..n : k \in K
    BY <1>1, <1>2, SetInduction
  <2> QED
    BY <2>1
<1>4. PICK g \in [SUBSET (1..n) -> T] : Solves(g, n)
  BY <1>3
<1> QED
  BY <1>4 DEF FoldsTo

\* F holds what the fold has come to after each position.
FoldRun(F, n, T, base, G) ==
  /\ F \in [0..n -> T] /\ F[0] = base
  /\ \A k \in 1..n : F[k] = G[<<F[k - 1], k>>]

\* The positions are taken from the first to the last.
LEMMA FoldRuns ==
  ASSUME NEW n \in Nat, NEW T, NEW h, h[{}] \in T, NEW G \in [T \X (1..n) -> T],
         \A s \in SUBSET (1..n) :
           s # {} /\ h[s \ {Max(s)}] \in T => h[s] = G[<<h[s \ {Max(s)}], Max(s)>>]
  PROVE  FoldRun([k \in 0..n |-> h[1..k]], n, T, h[{}], G)
<1> DEFINE K == {k \in 0..n : h[1..k] \in T}
<1>1. 1..0 = {}
  OBVIOUS
<1>2. ASSUME NEW k \in 1..n, h[1..(k - 1)] \in T
      PROVE  h[1..k] = G[<<h[1..(k - 1)], k>>] /\ h[1..k] \in T
  <2>1. k \in Nat /\ 1..k \in SUBSET (1..n) /\ k \in 1..k
    OBVIOUS
  <2>2. Max(1..k) = k
    <3>1. Max(1..k) \in 1..k /\ k <= Max(1..k)
      BY <2>1, MaxNumber
    <3> QED
      BY <2>1, <3>1
  <2>3. (1..k) \ {k} = 1..(k - 1)
    BY <2>1
  <2>4. h[1..k] = G[<<h[1..(k - 1)], k>>]
    BY <1>2, <2>1, <2>2, <2>3
  <2> QED
    BY <1>2, <2>4
<1>3. \A k \in 0..n : k \in K
  <2>1. 0 \in K
    BY <1>1
  <2>2. ASSUME NEW k \in 0..(n - 1), k \in K PROVE k + 1 \in K
    <3>1. k + 1 \in 1..n /\ (k + 1) - 1 = k /\ k + 1 \in 0..n
      OBVIOUS
    <3>2. h[1..((k + 1) - 1)] \in T
      BY <2>2, <3>1
    <3>3. h[1..(k + 1)] \in T
      BY <1>2, <3>1, <3>2
    <3> QED
      BY <3>1, <3>3
  <2> HIDE DEF K
  <2> QED
    BY <2>1, <2>2, SetInduction
<1> DEFINE F == [k \in 0..n |-> h[1..k]]
<1>4. F \in [0..n -> T] /\ F[0] = h[{}]
  BY <1>1, <1>3
<1>5. ASSUME NEW k \in 1..n PROVE F[k] = G[<<F[k - 1], k>>]
  <2>1. k - 1 \in 0..n /\ k \in 0..n
    OBVIOUS
  <2>2. h[1..(k - 1)] \in T
    BY <1>3, <2>1
  <2> QED
    BY <1>2, <2>1, <2>2
<1> HIDE DEF F
<1>6. FoldRun(F, n, T, h[{}], G)
  BY <1>4, <1>5 DEF FoldRun
<1> QED
  BY <1>6 DEF F

(***************************************************************************)
(* The nodes on the way to an n-gram.                                      *)
(***************************************************************************)
\* What a prefix is made of.
LEMMA Prefix ==
  ASSUME NEW W, NEW p \in Seq(W), NEW l \in 0..Len(p)
  PROVE  /\ SubSeq(p, 1, l) \in Seq(W)
         /\ Len(SubSeq(p, 1, l)) = l
         /\ \A x \in 1..l : SubSeq(p, 1, l)[x] = p[x]
<1>1. Len(p) \in Nat /\ \A x \in 1..Len(p) : p[x] \in W
  BY LenProperties
<1>2. l \in Int /\ 1 \in Int /\ \A x \in 1..l : p[x] \in W
  BY <1>1
<1>3. /\ SubSeq(p, 1, l) \in Seq(W)
      /\ Len(SubSeq(p, 1, l)) = IF 1 <= l THEN l - 1 + 1 ELSE 0
      /\ \A x \in 1..(l - 1 + 1) : SubSeq(p, 1, l)[x] = p[1 + x - 1]
  BY <1>2, SubSeqProperties
<1> QED
  BY <1>1, <1>3

\* The nodes on the way to p are its prefixes that have a word.
LEMMA PathOf ==
  ASSUME NEW W, NEW p \in Seq(W)
  PROVE  /\ \A l \in 1..Len(p) : SubSeq(p, 1, l) \in PathNodes(p)
         /\ p # <<>> => p \in PathNodes(p)
         /\ p = <<>> => PathNodes(p) = {}
         /\ \A q \in PathNodes(p) :
              /\ q \in Seq(W) /\ q # <<>> /\ Len(q) \in 1..Len(p)
              /\ q = SubSeq(p, 1, Len(q))
              /\ \A x \in 1..Len(q) : q[x] = p[x]
<1>1. Len(p) \in Nat
  BY LenProperties
<1>2. \A l \in 1..Len(p) : SubSeq(p, 1, l) \in PathNodes(p)
  <2> SUFFICES ASSUME NEW l \in 1..Len(p)
               PROVE  SubSeq(p, 1, l) \in PathNodes(p)
    OBVIOUS
  <2>1. l \in 0..Len(p)
    BY <1>1
  <2>2. Len(SubSeq(p, 1, l)) = l
    BY <2>1, Prefix
  <2>3. SubSeq(p, 1, l) # <<>>
    BY <1>1, <2>2, EmptySeq
  <2> QED
    BY <2>1, <2>3 DEF PathNodes, Prefixes
<1>3. p # <<>> => p \in PathNodes(p)
  <2>1. p # <<>> => Len(p) \in 1..Len(p)
    BY <1>1, EmptySeq
  <2> QED
    BY <1>2, <2>1, SubSeqFull
<1>4. ASSUME NEW q \in PathNodes(p)
      PROVE  /\ q \in Seq(W) /\ q # <<>> /\ Len(q) \in 1..Len(p)
             /\ q = SubSeq(p, 1, Len(q))
             /\ \A x \in 1..Len(q) : q[x] = p[x]
  <2>1. PICK l \in 0..Len(p) : q = SubSeq(p, 1, l) /\ q # <<>>
    BY DEF PathNodes, Prefixes
  <2>2. q \in Seq(W) /\ Len(q) = l /\ \A x \in 1..l : q[x] = p[x]
    BY <2>1, Prefix
  <2>3. Len(q) # 0
    BY <2>1, <2>2, EmptySeq
  <2> QED
    BY <1>1, <2>1, <2>2, <2>3
<1>5. p = <<>> => PathNodes(p) = {}
  BY <1>4, EmptySeq, 1..0 = {}
<1> QED
  BY <1>2, <1>3, <1>4, <1>5

\* Of two nodes on a way, the shorter is on the way to the longer; the way to
\* a node of the way is part of it.
LEMMA PathsNest ==
  ASSUME NEW W, NEW p \in Seq(W), NEW q \in PathNodes(p)
  PROVE  /\ PathNodes(q) \subseteq PathNodes(p)
         /\ \A r \in PathNodes(p) : Len(r) <= Len(q) <=> r \in PathNodes(q)
         /\ \A r \in PathNodes(p) : Len(r) = Len(q) => r = q
         /\ \A r \in Seq(W) \ {<<>>} : IsPrefix(r, q) <=> r \in PathNodes(q)
<1>1. /\ q \in Seq(W) /\ q # <<>> /\ Len(q) \in 1..Len(p) /\ Len(p) \in Nat
      /\ q = SubSeq(p, 1, Len(q))
      /\ \A x \in 1..Len(q) : q[x] = p[x]
  BY PathOf, LenProperties
<1>a. \A l \in 1..Len(p) : SubSeq(p, 1, l) \in PathNodes(p)
  BY PathOf
<1>b. \A l \in 1..Len(q) : SubSeq(q, 1, l) \in PathNodes(q)
  BY <1>1, PathOf
<1>c. \A r \in PathNodes(q) : Len(r) \in 1..Len(q) /\ r = SubSeq(q, 1, Len(r))
  BY <1>1, PathOf
<1>2. ASSUME NEW l \in 1..Len(q)
      PROVE  l \in 1..Len(p) /\ SubSeq(p, 1, l) = SubSeq(q, 1, l)
  <2>1. l \in 0..Len(p) /\ l \in 0..Len(q) /\ l \in 1..Len(p)
    BY <1>1
  <2>2. /\ SubSeq(p, 1, l) \in Seq(W) /\ SubSeq(q, 1, l) \in Seq(W)
        /\ Len(SubSeq(p, 1, l)) = l /\ Len(SubSeq(q, 1, l)) = l
        /\ \A x \in 1..l : SubSeq(p, 1, l)[x] = p[x] /\ SubSeq(q, 1, l)[x] = q[x]
    BY <1>1, <2>1, Prefix
  <2>3. \A x \in 1..l : p[x] = q[x]
    BY <1>1
  <2> QED
    BY <2>1, <2>2, <2>3, SeqEqual
<1>3. PathNodes(q) \subseteq PathNodes(p)
  <2> SUFFICES ASSUME NEW r \in PathNodes(q) PROVE r \in PathNodes(p)
    OBVIOUS
  <2>1. Len(r) \in 1..Len(q) /\ r = SubSeq(q, 1, Len(r))
    BY <1>c
  <2> QED
    BY <1>2, <1>a, <2>1
<1>4. ASSUME NEW r \in PathNodes(p)
      PROVE  /\ Len(r) <= Len(q) <=> r \in PathNodes(q)
             /\ Len(r) = Len(q) => r = q
  <2>1. Len(r) \in 1..Len(p) /\ r = SubSeq(p, 1, Len(r))
    BY PathOf
  <2>2. Len(r) <= Len(q) => r \in PathNodes(q)
    <3>1. Len(r) <= Len(q) => Len(r) \in 1..Len(q)
      BY <1>1, <2>1
    <3> QED
      BY <1>2, <1>b, <2>1, <3>1
  <2>3. r \in PathNodes(q) => Len(r) <= Len(q)
    BY <1>1, <1>c
  <2> QED
    BY <1>1, <2>1, <2>2, <2>3
<1>5. ASSUME NEW r \in Seq(W) \ {<<>>}
      PROVE  IsPrefix(r, q) <=> r \in PathNodes(q)
  <2>1. Len(r) \in Nat \ {0} /\ SubSeq(r, 1, Len(r)) = r
    BY EmptySeq, SubSeqFull
  <2>2. IsPrefix(r, q) => r \in PathNodes(q)
    <3>1. IsPrefix(r, q) => Len(r) \in 1..Len(q)
      BY <1>1, <2>1 DEF IsPrefix
    <3> QED
      BY <1>b, <2>1, <3>1 DEF IsPrefix
  <2>3. r \in PathNodes(q) => IsPrefix(r, q)
    BY <1>1, <1>c, <2>1 DEF IsPrefix
  <2> QED
    BY <2>2, <2>3
<1> QED
  BY <1>3, <1>4, <1>5

\* The node before one, and the node after one on the way to p.
LEMMA PathSteps ==
  ASSUME NEW W, NEW p \in Seq(W)
  PROVE  /\ \A q \in PathNodes(p) :
              /\ Front(q) \in Seq(W) /\ Len(Front(q)) = Len(q) - 1
              /\ Front(q) # <<>> => Front(q) \in PathNodes(p)
         /\ \A q \in PathNodes(p) :
              q # p => /\ SubSeq(p, 1, Len(q) + 1) \in PathNodes(p)
                       /\ Len(SubSeq(p, 1, Len(q) + 1)) = Len(q) + 1
                       /\ Front(SubSeq(p, 1, Len(q) + 1)) = q
<1>0. Len(p) \in Nat
  BY LenProperties
<1>1. ASSUME NEW q \in PathNodes(p)
      PROVE  /\ Front(q) \in Seq(W) /\ Len(Front(q)) = Len(q) - 1
             /\ Front(q) # <<>> => Front(q) \in PathNodes(p)
             /\ \A r \in PathNodes(p) : Len(r) = Len(q) - 1 => r = Front(q)
  <2>1. q \in Seq(W) /\ Len(q) \in 1..Len(p)
    BY PathOf
  <2>2. Len(q) - 1 \in 0..Len(q)
    BY <1>0, <2>1
  <2>3. Front(q) \in Seq(W) /\ Len(Front(q)) = Len(q) - 1
    BY <2>1, <2>2, Prefix DEF Front
  <2>4. Front(q) # <<>> => Len(q) - 1 \in 1..Len(q)
    BY <1>0, <2>1, <2>3, EmptySeq
  <2>5. Front(q) # <<>> => Front(q) \in PathNodes(q)
    BY <2>1, <2>4, PathOf DEF Front
  <2>6. Front(q) # <<>> => Front(q) \in PathNodes(p)
    BY <2>5, PathsNest
  <2>7. ASSUME NEW r \in PathNodes(p), Len(r) = Len(q) - 1
        PROVE  r = Front(q)
    <3>1. r \in Seq(W) /\ r # <<>> /\ Len(r) \in 1..Len(p)
      BY PathOf
    <3>2. Len(Front(q)) = Len(r)
      BY <2>3, <2>7
    <3>3. Len(r) # 0
      BY <1>0, <3>1
    <3>4. Front(q) # <<>>
      BY <3>2, <3>3, EmptySeq
    <3>5. Front(q) \in PathNodes(p)
      BY <2>6, <3>4
    <3> QED
      BY <3>2, <3>5, PathsNest
  <2> QED
    BY <2>3, <2>6, <2>7
<1>2. ASSUME NEW q \in PathNodes(p), q # p
      PROVE  /\ SubSeq(p, 1, Len(q) + 1) \in PathNodes(p)
             /\ Len(SubSeq(p, 1, Len(q) + 1)) = Len(q) + 1
             /\ Front(SubSeq(p, 1, Len(q) + 1)) = q
  <2>1. Len(q) \in 1..Len(p) /\ q = SubSeq(p, 1, Len(q))
    BY PathOf
  <2>2. Len(q) # Len(p)
    BY <1>2, <2>1, SubSeqFull
  <2>3. Len(q) + 1 \in 1..Len(p) /\ Len(q) + 1 \in 0..Len(p)
    BY <1>0, <2>1, <2>2
  <2>4. /\ SubSeq(p, 1, Len(q) + 1) \in PathNodes(p)
        /\ Len(SubSeq(p, 1, Len(q) + 1)) = Len(q) + 1
    BY <2>3, PathOf, Prefix
  <2>5. Len(q) = Len(SubSeq(p, 1, Len(q) + 1)) - 1
    BY <2>1, <2>4
  <2> QED
    BY <1>1, <2>4, <2>5
<1> QED
  BY <1>1, <1>2

(***************************************************************************)
(* The updates.                                                            *)
(***************************************************************************)
\* The nodes, while no version is later than v.
Node(v) ==
  [is_final : BOOLEAN, A_version : NoVersion..v, D_version : NoVersion..v]

\* The trie is a tree of such nodes whose branches all end in an n-gram.
IsTrie(trie, W, v) ==
  /\ DOMAIN trie \subseteq Seq(W) \ {<<>>}
  /\ trie \in [DOMAIN trie -> Node(v)]
  /\ \A p \in DOMAIN trie : PathNodes(p) \subseteq DOMAIN trie
  /\ \A p \in DOMAIN trie : trie[p].is_final \/ Children(trie, p) # {}

\* The trie of trieRootInit, without an n-gram.
LEMMA EmptyIsTrie ==
  ASSUME NEW W, NEW v
  PROVE  IsTrie(EmptyTrie, W, v) /\ Finals(EmptyTrie) = {}
BY DEF IsTrie, EmptyTrie, Finals

\* A trie of some version is one of any later version.
LEMMA VersionsGrow ==
  ASSUME NEW W, NEW v \in Nat, NEW w \in Nat, v <= w,
         NEW trie, IsTrie(trie, W, v)
  PROVE  IsTrie(trie, W, w)
<1>1. NoVersion..v \subseteq NoVersion..w
  BY DEF NoVersion
<1>2. ASSUME NEW p \in DOMAIN trie PROVE trie[p] \in Node(w)
  <2>1. trie[p] \in Node(v)
    BY DEF IsTrie
  <2> QED
    BY <1>1, <2>1 DEF Node
<1> QED
  BY <1>2 DEF IsTrie

\* after is the trie with the n-gram, which has this A_version now; the other
\* nodes are as they were, or new.
Inserted(after, trie, ngram, version, v) ==
  /\ DOMAIN after = DOMAIN trie \union PathNodes(ngram)
  /\ \A p \in DOMAIN trie : p # ngram => after[p] = trie[p]
  /\ \A p \in DOMAIN after \ DOMAIN trie : p # ngram => after[p] = NewNode
  /\ ngram # <<>> =>
       /\ ngram \in DOMAIN after
       /\ after[ngram].is_final = TRUE /\ after[ngram].A_version = version
  /\ \A p \in DOMAIN trie : after[p].D_version = trie[p].D_version
  /\ \A p \in DOMAIN after \ DOMAIN trie : after[p].D_version = NoVersion
  /\ \A p \in DOMAIN after : after[p] \in Node(v)
  /\ \A p \in DOMAIN trie : trie[p].is_final = TRUE => after[p].is_final = TRUE
  /\ Finals(after) = Finals(trie) \union ({ngram} \ {<<>>})

\* What trieInsertSort changes, node by node.
LEMMA InsertNodes ==
  ASSUME NEW W, NEW v \in Nat, NEW trie, IsTrie(trie, W, v),
         NEW ngram \in Seq(W), NEW version \in 0..v
  PROVE  Inserted(TrieInsert(trie, ngram, version), trie, ngram, version, v)
<1> DEFINE after == TrieInsert(trie, ngram, version)
<1> DEFINE node(p) == IF p \in DOMAIN trie THEN trie[p] ELSE NewNode
<1>1. DOMAIN after = DOMAIN trie \union PathNodes(ngram)
  BY DEF TrieInsert
<1>2. \A p \in DOMAIN after :
        after[p] = IF p = ngram THEN [node(p) EXCEPT !.is_final = TRUE,
                                                     !.A_version = version]
                                ELSE node(p)
  BY DEF TrieInsert
<1> HIDE DEF after
<1>3. /\ NewNode \in Node(v) /\ ~NewNode.is_final
      /\ \A p \in DOMAIN trie : trie[p] \in Node(v)
  <2>1. NoVersion \in NoVersion..v
    BY DEF NoVersion
  <2>2. NewNode \in Node(v) /\ ~NewNode.is_final
    BY <2>1 DEF NewNode, Node
  <2> QED
    BY <2>2 DEF IsTrie
<1>4. \A p : node(p) \in Node(v)
  BY <1>3
<1>5. version \in NoVersion..v
  BY DEF NoVersion
<1>7. ngram # <<>> => ngram \in DOMAIN after
  BY <1>1, PathOf
<1>8. ngram = <<>> => ngram \notin DOMAIN after
  <2>1. \A q \in PathNodes(ngram) : q # <<>>
    BY PathOf
  <2> QED
    BY <1>1, <2>1 DEF IsTrie
<1> HIDE DEF node
<1>9. \A p \in DOMAIN after : p # ngram => after[p] = node(p)
  BY <1>2
<1>10. ngram \in DOMAIN after =>
         /\ after[ngram] \in Node(v) /\ after[ngram].is_final = TRUE
         /\ after[ngram].A_version = version
         /\ after[ngram].D_version = node(ngram).D_version
  <2> DEFINE last == [node(ngram) EXCEPT !.is_final = TRUE, !.A_version = version]
  <2>1. /\ last \in Node(v) /\ last.is_final = TRUE /\ last.A_version = version
        /\ last.D_version = node(ngram).D_version
    BY <1>4, <1>5 DEF Node
  <2>2. ngram \in DOMAIN after => after[ngram] = last
    BY <1>2
  <2> HIDE DEF last
  <2> QED
    BY <2>1, <2>2
<1>11. \A p \in DOMAIN after : after[p] \in Node(v)
  BY <1>4, <1>9, <1>10
<1>12. \A p \in DOMAIN trie : node(p) = trie[p]
  BY DEF node
<1>13. \A p \in DOMAIN after \ DOMAIN trie : node(p) = NewNode
  BY DEF node
<1>14. Finals(after) = Finals(trie) \union ({ngram} \ {<<>>})
  <2>1. ASSUME NEW p \in DOMAIN after, p # ngram
        PROVE  after[p].is_final <=> p \in Finals(trie)
    <3>1. CASE p \in DOMAIN trie
      BY <1>9, <1>12, <2>1, <3>1 DEF Finals
    <3>2. CASE p \notin DOMAIN trie
      BY <1>3, <1>9, <1>13, <2>1, <3>2 DEF Finals
    <3> QED
      BY <3>1, <3>2
  <2>2. Finals(trie) \subseteq DOMAIN after
    BY <1>1 DEF Finals
  <2>3. ngram = <<>> => ngram \notin Finals(after) /\ ngram \notin Finals(trie)
    BY <1>8, <2>2 DEF Finals
  <2>4. ngram # <<>> => ngram \in Finals(after)
    BY <1>7, <1>10 DEF Finals
  <2>5. \A p : p # ngram => (p \in Finals(after) <=> p \in Finals(trie))
    BY <2>1, <2>2 DEF Finals
  <2> QED
    BY <2>3, <2>4, <2>5
<1>15. DOMAIN trie \subseteq DOMAIN after
  BY <1>1
<1>16. \A p \in DOMAIN trie : p # ngram => after[p] = trie[p]
  BY <1>9, <1>12, <1>15
<1>17. \A p \in DOMAIN after \ DOMAIN trie : p # ngram => after[p] = NewNode
  BY <1>9, <1>13
<1>18. \A p \in DOMAIN trie : after[p].D_version = trie[p].D_version
  BY <1>10, <1>12, <1>15, <1>16
<1>19. \A p \in DOMAIN trie : trie[p].is_final = TRUE => after[p].is_final = TRUE
  BY <1>10, <1>15, <1>16
<1>20. \A p \in DOMAIN after \ DOMAIN trie : after[p].D_version = NoVersion
  BY <1>9, <1>10, <1>13 DEF NewNode
<1> QED
  BY <1>1, <1>7, <1>10, <1>11, <1>14, <1>16, <1>17, <1>18, <1>19, <1>20 DEF Inserted, after

\* An insert leaves a trie.
LEMMA InsertIsTrie ==
  ASSUME NEW W, NEW v \in Nat, NEW trie, IsTrie(trie, W, v),
         NEW ngram \in Seq(W), NEW version \in 0..v
  PROVE  IsTrie(TrieInsert(trie, ngram, version), W, v)
<1> DEFINE after == TrieInsert(trie, ngram, version)
<1>1. Inserted(after, trie, ngram, version, v)
  BY InsertNodes
<1>2. after = [p \in DOMAIN after |-> after[p]]
  BY DEF TrieInsert
<1> HIDE DEF after
<1>3. PathNodes(ngram) \subseteq Seq(W) \ {<<>>}
  BY PathOf
<1>4. \A p \in DOMAIN after : PathNodes(p) \subseteq DOMAIN after
  <2>1. \A p \in PathNodes(ngram) : PathNodes(p) \subseteq PathNodes(ngram)
    BY PathsNest
  <2> QED
    BY <1>1, <2>1 DEF IsTrie, Inserted
<1>5. ASSUME NEW p \in DOMAIN after, ~after[p].is_final
      PROVE  Children(after, p) # {}
  <2>1. CASE p \in DOMAIN trie
    <3>1. trie[p].is_final \in BOOLEAN
      BY <2>1 DEF IsTrie, Node
    <3>2. Children(trie, p) # {}
      BY <1>1, <1>5, <2>1, <3>1 DEF IsTrie, Inserted
    <3> QED
      BY <1>1, <3>2 DEF Children, Inserted
  <2>2. CASE p \in PathNodes(ngram)
    <3>1. p # ngram
      BY <1>1, <1>3, <1>5, <2>2 DEF Inserted
    <3>2. /\ SubSeq(ngram, 1, Len(p) + 1) \in PathNodes(ngram)
          /\ Front(SubSeq(ngram, 1, Len(p) + 1)) = p
      BY <2>2, <3>1, PathSteps
    <3> QED
      BY <1>1, <1>3, <3>2 DEF Children, Inserted
  <2> QED
    BY <1>1, <2>1, <2>2 DEF Inserted
<1> QED
  <2>1. IsTrie(after, W, v)
    BY <1>1, <1>2, <1>3, <1>4, <1>5 DEF IsTrie, Inserted
  <2> QED
    BY <2>1 DEF after

\* after is the trie, with this D_version for the n-gram if it holds it.
MarkedDeleted(after, trie, ngram, version, v) ==
  /\ DOMAIN after = DOMAIN trie
  /\ \A p \in DOMAIN trie :
       /\ p # ngram => after[p] = trie[p]
       /\ after[p].is_final = trie[p].is_final
       /\ after[p].A_version = trie[p].A_version
       /\ after[p] \in Node(v)
  /\ ngram \in Finals(trie) => after[ngram].D_version = version
  /\ Finals(after) = Finals(trie)

\* What trieFakeDeleteNgram changes: one D_version.
LEMMA FakeDeleteNodes ==
  ASSUME NEW W, NEW v \in Nat, NEW trie, IsTrie(trie, W, v),
         NEW ngram, NEW version \in 0..v
  PROVE  /\ MarkedDeleted(TrieFakeDelete(trie, ngram, version), trie, ngram, version, v)
         /\ IsTrie(TrieFakeDelete(trie, ngram, version), W, v)
<1> DEFINE after == TrieFakeDelete(trie, ngram, version)
<1>1. CASE ngram \notin Finals(trie)
  BY <1>1 DEF TrieFakeDelete, IsTrie, MarkedDeleted
<1>2. CASE ngram \in Finals(trie)
  <2>1. /\ after = [trie EXCEPT ![ngram].D_version = version]
        /\ ngram \in DOMAIN trie
    BY <1>2 DEF TrieFakeDelete, Finals
  <2>2. version \in NoVersion..v
    BY DEF NoVersion
  <2>3. trie = [p \in DOMAIN trie |-> trie[p]] /\ \A p \in DOMAIN trie : trie[p] \in Node(v)
    BY DEF IsTrie
  <2>4. ASSUME NEW n \in Node(v)
        PROVE  /\ [n EXCEPT !.D_version = version] \in Node(v)
               /\ [n EXCEPT !.D_version = version].D_version = version
               /\ [n EXCEPT !.D_version = version].is_final = n.is_final
               /\ [n EXCEPT !.D_version = version].A_version = n.A_version
    BY <2>2 DEF Node
  <2>5. /\ DOMAIN after = DOMAIN trie
        /\ after[ngram] = [trie[ngram] EXCEPT !.D_version = version]
        /\ \A p \in DOMAIN trie : p # ngram => after[p] = trie[p]
        /\ after = [p \in DOMAIN after |-> after[p]]
    BY <2>1, <2>3
  <2> HIDE DEF after
  <2>6. /\ after[ngram] \in Node(v) /\ after[ngram].D_version = version
        /\ after[ngram].is_final = trie[ngram].is_final
        /\ after[ngram].A_version = trie[ngram].A_version
    <3> DEFINE last == [trie[ngram] EXCEPT !.D_version = version]
    <3>1. /\ last \in Node(v) /\ last.D_version = version
          /\ last.is_final = trie[ngram].is_final
          /\ last.A_version = trie[ngram].A_version
      BY <2>1, <2>3, <2>4
    <3>2. after[ngram] = last
      BY <2>5
    <3> HIDE DEF last
    <3> QED
      BY <3>1, <3>2
  <2>7. \A p \in DOMAIN trie :
          /\ after[p].is_final = trie[p].is_final
          /\ after[p].A_version = trie[p].A_version
          /\ after[p] \in Node(v)
    BY <2>3, <2>5, <2>6
  <2>8. Finals(after) = Finals(trie)
    BY <2>5, <2>7 DEF Finals
  <2>9. \A p : Children(after, p) = Children(trie, p)
    BY <2>5 DEF Children
  <2>10. IsTrie(after, W, v)
    BY <2>5, <2>7, <2>9 DEF IsTrie
  <2> QED
    BY <2>5, <2>6, <2>7, <2>8, <2>10 DEF after, MarkedDeleted
<1> QED
  BY <1>1, <1>2

(***************************************************************************)
(* The delete that cuts a branch back.                                     *)
(***************************************************************************)
\* A node that stays keeps the nodes on the way to it.
LEMMA CutIsUpwards ==
  ASSUME NEW W, NEW v \in Nat, NEW trie, IsTrie(trie, W, v),
         NEW ngram \in Seq(W), NEW p \in DOMAIN trie,
         NEW r \in PathNodes(p), r \in Cut(trie, ngram)
  PROVE  p \in Cut(trie, ngram)
<1>1. /\ p \in Seq(W) /\ p # <<>> /\ Len(p) \in Nat
      /\ PathNodes(p) \subseteq DOMAIN trie
  BY LenProperties DEF IsTrie
<1>2. /\ r \in PathNodes(ngram)
      /\ \A q \in PathNodes(ngram) : IsPrefix(r, q) => Dangling(trie, ngram, q)
  BY DEF Cut
<1>3. r \in Seq(W) \ {<<>>} /\ Len(r) \in 1..Len(p) /\ r = SubSeq(p, 1, Len(r))
  BY <1>1, PathOf
<1>4. \A l \in 1..Len(p) : SubSeq(p, 1, l) \in PathNodes(p) /\ Len(SubSeq(p, 1, l)) = l
  <2>1. \A l \in 1..Len(p) : l \in 0..Len(p)
    BY <1>1
  <2> QED
    BY <1>1, <2>1, PathOf, Prefix
<1> DEFINE On == {l \in 0..Len(p) : Len(r) + l <= Len(p) =>
                                      SubSeq(p, 1, Len(r) + l) \in PathNodes(ngram)}
<1>5. 0 \in On
  <2>1. Len(r) + 0 = Len(r) /\ 0 \in 0..Len(p)
    BY <1>1, <1>3
  <2> QED
    BY <1>2, <1>3, <2>1
<1>6. ASSUME NEW l \in 0..(Len(p) - 1), l \in On
      PROVE  l + 1 \in On
  <2>1. l + 1 \in 0..Len(p)
    BY <1>1
  <2> SUFFICES ASSUME Len(r) + (l + 1) <= Len(p)
               PROVE  SubSeq(p, 1, Len(r) + (l + 1)) \in PathNodes(ngram)
    BY <2>1
  <2> DEFINE q == SubSeq(p, 1, Len(r) + l)
             c == SubSeq(p, 1, Len(r) + (l + 1))
  <2>2. Len(r) + l \in 1..Len(p) /\ Len(r) + (l + 1) \in 1..Len(p)
    BY <1>1, <1>3
  <2>3. /\ q \in PathNodes(p) /\ Len(q) = Len(r) + l
        /\ c \in PathNodes(p) /\ Len(c) = Len(r) + (l + 1)
    BY <1>4, <2>2
  <2>4. q \in PathNodes(ngram)
    BY <1>6, <2>2
  <2>5. Len(r) <= Len(q) /\ Len(q) # Len(p) /\ Len(c) = Len(q) + 1
    BY <1>1, <1>3, <2>2, <2>3
  <2>6. q # p /\ SubSeq(p, 1, Len(q) + 1) = c
    BY <2>3, <2>5
  <2> HIDE DEF q, c
  <2>7. r \in PathNodes(q)
    BY <1>1, <2>3, <2>5, PathsNest
  <2>8. IsPrefix(r, q)
    BY <1>1, <1>3, <2>3, <2>7, PathsNest
  <2>9. Front(c) = q
    BY <1>1, <2>3, <2>6, PathSteps
  <2>10. c \in Children(trie, q)
    BY <1>1, <2>3, <2>9, PathOf DEF Children
  <2>11. c \in PathNodes(ngram)
    BY <1>2, <2>4, <2>8, <2>10 DEF Dangling
  <2> QED
    BY <2>11 DEF c
<1>7. \A l \in 0..Len(p) : l \in On
  <2> HIDE DEF On
  <2> QED
    BY <1>1, <1>5, <1>6, SetInduction
<1>8. p \in PathNodes(ngram)
  <2>1. Len(p) - Len(r) \in 0..Len(p) /\ Len(r) + (Len(p) - Len(r)) = Len(p)
    BY <1>1, <1>3
  <2>2. SubSeq(p, 1, Len(p)) \in PathNodes(ngram)
    BY <1>7, <2>1
  <2> QED
    BY <1>1, <2>2, SubSeqFull
<1>9. ASSUME NEW q \in PathNodes(ngram), IsPrefix(p, q)
      PROVE  Dangling(trie, ngram, q)
  <2>1. p \in PathNodes(q)
    BY <1>1, <1>9, PathsNest
  <2>2. r \in PathNodes(q)
    <3>1. q \in Seq(W)
      BY PathOf
    <3> QED
      BY <2>1, <3>1, PathsNest
  <2>3. IsPrefix(r, q)
    BY <1>3, <2>2, PathsNest
  <2> QED
    BY <1>2, <2>3
<1> QED
  BY <1>8, <1>9 DEF Cut

\* A delete takes the n-gram away and no other, and leaves a trie.
LEMMA DeleteIsTrie ==
  ASSUME NEW W, NEW v \in Nat, NEW trie, IsTrie(trie, W, v), NEW ngram \in Seq(W)
  PROVE  /\ IsTrie(TrieDelete(trie, ngram), W, v)
         /\ Finals(TrieDelete(trie, ngram)) = Finals(trie) \ {ngram}
         /\ \A p \in Finals(trie) \ {ngram} : TrieDelete(trie, ngram)[p] = trie[p]
<1> DEFINE after == TrieDelete(trie, ngram)
<1>1. CASE ngram \notin Finals(trie)
  BY <1>1 DEF TrieDelete
<1>2. CASE ngram \in Finals(trie)
  <2> DEFINE cut == Cut(trie, ngram)
  <2>1. /\ DOMAIN after = DOMAIN trie \ cut
        /\ after = [p \in DOMAIN after |-> after[p]]
        /\ \A p \in DOMAIN after :
             after[p] = IF p = ngram THEN [trie[p] EXCEPT !.is_final = FALSE]
                                     ELSE trie[p]
    BY <1>2 DEF TrieDelete
  <2>2. /\ ngram \in DOMAIN trie /\ ngram # <<>> /\ ngram \in PathNodes(ngram)
        /\ trie[ngram] \in Node(v)
    BY <1>2, PathOf DEF Finals, IsTrie
  <2> HIDE DEF after
  <2>3. /\ \A p \in DOMAIN after : p # ngram => after[p] = trie[p]
        /\ \A p \in DOMAIN after : after[p] \in Node(v)
        /\ ngram \in DOMAIN after => after[ngram].is_final = FALSE
    <3>1. /\ [trie[ngram] EXCEPT !.is_final = FALSE] \in Node(v)
          /\ [trie[ngram] EXCEPT !.is_final = FALSE].is_final = FALSE
      BY <2>2 DEF Node
    <3>2. \A p \in DOMAIN trie : trie[p] \in Node(v)
      BY DEF IsTrie
    <3> QED
      BY <2>1, <3>1, <3>2
  <2>4. cut \subseteq PathNodes(ngram)
    BY DEF Cut
  <2>5. \A p \in DOMAIN after : PathNodes(p) \subseteq DOMAIN after
    <3> SUFFICES ASSUME NEW p \in DOMAIN after, NEW r \in PathNodes(p)
                 PROVE  r \in DOMAIN after
      OBVIOUS
    <3>1. p \in DOMAIN trie /\ p \notin cut /\ r \in DOMAIN trie
      BY <2>1 DEF IsTrie
    <3>2. r \notin cut
      BY <3>1, CutIsUpwards
    <3> QED
      BY <2>1, <3>1, <3>2
  <2>6. ASSUME NEW p \in DOMAIN after, ~after[p].is_final
        PROVE  Children(after, p) # {}
    <3>1. p \in DOMAIN trie /\ p \notin cut /\ p \in Seq(W) /\ p # <<>>
      BY <2>1 DEF IsTrie
    <3>2. SUFFICES ASSUME NEW c \in Children(trie, p), c \notin cut
                   PROVE  Children(after, p) # {}
      <4> SUFFICES \E c \in Children(trie, p) : c \notin cut
        OBVIOUS
      <4>1. CASE p = ngram
        <5>1. PICK q \in PathNodes(ngram) :
                IsPrefix(ngram, q) /\ ~Dangling(trie, ngram, q)
          BY <2>2, <3>1, <4>1 DEF Cut
        <5>2. ngram \in PathNodes(q)
          BY <2>2, <5>1, PathsNest
        <5>3. q = ngram
          <6>1. q \in Seq(W) /\ Len(q) \in 1..Len(ngram) /\ Len(ngram) \in Nat
            BY PathOf, LenProperties
          <6>2. Len(ngram) \in 1..Len(q)
            BY <5>2, <6>1, PathOf
          <6>3. Len(q) = Len(ngram)
            BY <6>1, <6>2
          <6> QED
            BY <2>2, <6>3, PathsNest
        <5> QED
          BY <2>4, <4>1, <5>1, <5>3 DEF Dangling
      <4>2. CASE p # ngram
        <5>1. ~trie[p].is_final
          BY <2>3, <2>6, <4>2
        <5>2. PICK c \in Children(trie, p) : TRUE
          BY <3>1, <5>1 DEF IsTrie
        <5>3. CASE c \in cut
          <6>1. /\ c \in PathNodes(ngram) /\ Front(c) = p
                /\ \A q \in PathNodes(ngram) :
                     IsPrefix(c, q) => Dangling(trie, ngram, q)
            BY <5>2, <5>3 DEF Cut, Children
          <6>2. p \in PathNodes(ngram) /\ c \in Seq(W) /\ c # <<>> /\ Len(c) = Len(p) + 1
            <7>1. p \in PathNodes(ngram) /\ c \in Seq(W) /\ c # <<>>
              BY <3>1, <6>1, PathSteps, PathOf
            <7>2. Len(p) = Len(c) - 1
              BY <6>1, PathSteps
            <7> QED
              BY <3>1, <7>1, <7>2, LenProperties
          <6>3. PICK q \in PathNodes(ngram) :
                  IsPrefix(p, q) /\ ~Dangling(trie, ngram, q)
            BY <3>1, <6>2 DEF Cut
          <6>4. q \in Seq(W) /\ q # <<>> /\ p \in PathNodes(q)
            BY <3>1, <6>3, PathOf, PathsNest
          <6>5. q = p
            <7> SUFFICES ASSUME q # p PROVE FALSE
              OBVIOUS
            <7>1. Len(p) \in 1..Len(q) /\ Len(q) \in Nat
              BY <6>4, PathOf, LenProperties
            <7>2. Len(p) # Len(q)
              BY <6>2, PathsNest
            <7>3. Len(c) <= Len(q)
              BY <6>2, <7>1, <7>2
            <7>4. c \in PathNodes(q)
              BY <6>1, <7>3, PathsNest
            <7>5. IsPrefix(c, q)
              BY <6>2, <7>4, PathsNest
            <7> QED
              BY <6>1, <6>3, <7>5
          <6> QED
            BY <2>4, <4>2, <5>1, <6>3, <6>5 DEF Dangling
        <5> QED
          BY <5>2, <5>3
      <4> QED
        BY <4>1, <4>2
    <3> QED
      BY <2>1, <3>2 DEF Children
  <2>7. Finals(after) = Finals(trie) \ {ngram}
    <3>1. \A p \in Finals(trie) \ {ngram} : p \notin cut
      BY DEF Cut, Finals, Dangling, IsPrefix
    <3>2. \A p \in Finals(trie) \ {ngram} : p \in DOMAIN after
      BY <2>1, <3>1 DEF Finals
    <3>3. DOMAIN after \subseteq DOMAIN trie
      BY <2>1
    <3> QED
      BY <2>3, <3>2, <3>3 DEF Finals
  <2>8. IsTrie(after, W, v)
    BY <2>1, <2>3, <2>5, <2>6 DEF IsTrie
  <2>9. \A p \in Finals(trie) \ {ngram} : after[p] = trie[p]
    BY <2>3, <2>7 DEF Finals
  <2> QED
    BY <2>7, <2>8, <2>9 DEF after
<1> QED
  BY <1>1, <1>2

\* The tries are the elements of a set.
TriesOf(W, v) ==
  {t \in UNION {[D -> Node(v)] : D \in SUBSET (Seq(W) \ {<<>>})} : IsTrie(t, W, v)}

\* The n-grams of an init file inserted, one after the other.
Inserts(ngrams) == FoldLeft(LAMBDA t, ngram : TrieInsert(t, ngram, 0), EmptyTrie, ngrams)

\* The tries on the way.
LEMMA InsertsRun ==
  ASSUME NEW W, NEW ngrams \in Seq(Seq(W))
  PROVE  \E F \in [0..Len(ngrams) -> TriesOf(W, 0)] :
           /\ F[0] = EmptyTrie
           /\ \A k \in 1..Len(ngrams) : F[k] = TrieInsert(F[k - 1], ngrams[k], 0)
           /\ Inserts(ngrams) = F[Len(ngrams)]
<1> DEFINE n == Len(ngrams)
           T == TriesOf(W, 0)
           G == [x \in T \X (1..n) |-> TrieInsert(x[1], ngrams[x[2]], 0)]
           h == CHOOSE g : g = [s \in SUBSET DOMAIN ngrams |->
                                  IF s = {} THEN EmptyTrie
                                  ELSE TrieInsert(g[s \ {Max(s)}], ngrams[Max(s)], 0)]
           F == [k \in 0..n |-> h[1..k]]
<1>1. n \in Nat /\ DOMAIN ngrams = 1..n /\ \A k \in 1..n : ngrams[k] \in Seq(W)
  BY LenProperties
<1>2. \A t : t \in T <=> IsTrie(t, W, 0)
  BY DEF IsTrie, TriesOf
<1>3. EmptyTrie \in T
  BY <1>2, EmptyIsTrie
<1>4. \A t \in T : \A k \in 1..n : TrieInsert(t, ngrams[k], 0) \in T
  <2>1. 0 \in Nat /\ 0 \in 0..0
    OBVIOUS
  <2> HIDE DEF T, n
  <2> QED
    BY <1>1, <1>2, <2>1, InsertIsTrie
<1>5. Inserts(ngrams) = h[DOMAIN ngrams]
  BY DEF Inserts, FoldLeft, MapThenFoldSet
<1> HIDE DEF n, T
<1>6. /\ G \in [T \X (1..n) -> T]
      /\ \A t \in T : \A k \in 1..n : G[<<t, k>>] = TrieInsert(t, ngrams[k], 0)
  BY <1>4
<1> HIDE DEF G
<1>7. h = [s \in SUBSET DOMAIN ngrams |->
             IF s = {} THEN EmptyTrie
             ELSE TrieInsert(h[s \ {Max(s)}], ngrams[Max(s)], 0)]
  <2>1. PICK g \in [SUBSET (1..n) -> T] : FoldsTo(g, n, EmptyTrie, G)
    BY <1>1, <1>3, <1>6, FoldExists
  <2>2. ASSUME NEW s \in SUBSET (1..n), s # {}
        PROVE  g[s] = TrieInsert(g[s \ {Max(s)}], ngrams[Max(s)], 0)
    <3>1. Max(s) \in 1..n /\ g[s \ {Max(s)}] \in T
      BY <1>1, <2>2, MaxNumber
    <3> QED
      BY <1>6, <2>1, <2>2, <3>1 DEF FoldsTo
  <2>3. g[{}] = EmptyTrie
    BY <2>1 DEF FoldsTo
  <2>4. g = [s \in SUBSET DOMAIN ngrams |->
               IF s = {} THEN EmptyTrie
               ELSE TrieInsert(g[s \ {Max(s)}], ngrams[Max(s)], 0)]
    BY <1>1, <2>2, <2>3
  <2> QED
    BY <2>4
<1> HIDE DEF h
<1>8. FoldRun(F, n, T, EmptyTrie, G)
  <2>1. h[{}] = EmptyTrie
    BY <1>7
  <2>2. ASSUME NEW s \in SUBSET (1..n), s # {}, h[s \ {Max(s)}] \in T
        PROVE  h[s] = G[<<h[s \ {Max(s)}], Max(s)>>]
    BY <1>1, <1>6, <1>7, <2>2, MaxNumber
  <2> QED
    BY <1>1, <1>3, <1>6, <2>1, <2>2, FoldRuns
<1>9. F[n] = h[1..n]
  BY <1>1
<1> HIDE DEF F
<1>10. /\ F \in [0..n -> T] /\ F[0] = EmptyTrie /\ F[n] = h[DOMAIN ngrams]
       /\ \A k \in 1..n : F[k] = TrieInsert(F[k - 1], ngrams[k], 0)
  <2>1. \A k \in 1..n : k - 1 \in 0..n
    BY <1>1
  <2> QED
    BY <1>1, <1>6, <1>8, <1>9, <2>1 DEF FoldRun
<1> QED
  BY <1>5, <1>10 DEF n, T

\* The trie of an init file has its n-grams, and remembers nothing as deleted.
LEMMA InsertsAreTrie ==
  ASSUME NEW W, NEW ngrams \in Seq(Seq(W)), NEW trie, trie = Inserts(ngrams)
  PROVE  /\ IsTrie(trie, W, 0)
         /\ Finals(trie) = ToSet(ngrams) \ {<<>>}
         /\ \A p \in DOMAIN trie : trie[p].D_version = NoVersion
<1> DEFINE n == Len(ngrams)
<1>1. PICK F \in [0..n -> TriesOf(W, 0)] :
        /\ F[0] = EmptyTrie
        /\ \A k \in 1..n : F[k] = TrieInsert(F[k - 1], ngrams[k], 0)
        /\ trie = F[n]
  BY InsertsRun
<1>2. n \in Nat /\ DOMAIN ngrams = 1..n /\ \A k \in 1..n : ngrams[k] \in Seq(W)
  BY LenProperties
<1>3. \A k \in 0..n : IsTrie(F[k], W, 0)
  BY <1>1 DEF IsTrie, TriesOf
<1> DEFINE Done(k) == /\ Finals(F[k]) = {ngrams[j] : j \in 1..k} \ {<<>>}
                      /\ \A p \in DOMAIN F[k] : F[k][p].D_version = NoVersion
           K == {k \in 0..n : Done(k)}
<1> HIDE DEF n
<1>4. Done(0) /\ 0 \in 0..n
  <2>1. {ngrams[j] : j \in 1..0} = {} /\ 0 \in 0..n
    BY <1>2
  <2> QED
    BY <1>1, <2>1, EmptyIsTrie DEF EmptyTrie
<1>5. ASSUME NEW k \in 0..(n - 1), Done(k)
      PROVE  Done(k + 1) /\ k + 1 \in 0..n
  <2> HIDE DEF Done
  <2>1. k \in 0..n /\ k + 1 \in 1..n /\ k + 1 \in 0..n /\ (k + 1) - 1 = k
    BY <1>2
  <2>2. Inserted(F[k + 1], F[k], ngrams[k + 1], 0, 0)
    <3>1. 0 \in Nat /\ 0 \in 0..0
      OBVIOUS
    <3> QED
      BY <1>1, <1>2, <1>3, <2>1, <3>1, InsertNodes
  <2>3. \A x : x \in 1..(k + 1) <=> x \in 1..k \/ x = k + 1
    BY <1>2, <2>1
  <2>4. {ngrams[j] : j \in 1..(k + 1)} = {ngrams[j] : j \in 1..k} \union {ngrams[k + 1]}
    BY <2>3
  <2>5. /\ Finals(F[k + 1]) = Finals(F[k]) \union ({ngrams[k + 1]} \ {<<>>})
        /\ \A p \in DOMAIN F[k + 1] : F[k + 1][p].D_version = NoVersion
    BY <1>5, <2>2 DEF Inserted, Done
  <2>6. Done(k + 1)
    BY <1>5, <2>4, <2>5 DEF Done
  <2> QED
    BY <2>1, <2>6
<1> HIDE DEF Done
<1>6. Done(n)
  <2>1. n \in 0..n /\ 0 \in K /\ \A k \in 0..(n - 1) : k \in K => k + 1 \in K
    BY <1>2, <1>4, <1>5
  <2> HIDE DEF K
  <2>2. n \in K
    BY <1>2, <2>1, SetInduction
  <2> QED
    BY <2>2 DEF K
<1>7. {ngrams[j] : j \in 1..n} = ToSet(ngrams)
  BY <1>2 DEF ToSet
<1>8. n \in 0..n
  BY <1>2
<1> QED
  BY <1>1, <1>3, <1>6, <1>7, <1>8 DEF Done

(***************************************************************************)
(* The searches.                                                           *)
(***************************************************************************)
\* What a search that sees some n-grams may have found: pieces of the text
\* among them, each once, and their positions in the Bloom filter.
Found(text, seen, Bits) ==
  {f \in [bloom : SUBSET UNION {Bits[p] : p \in seen},
          answer : Seq(seen \intersect PiecesIn(text))] :
     /\ \A j \in 1..Len(f.answer) : Bits[f.answer[j]] \subseteq f.bloom
     /\ \A j, k \in 1..Len(f.answer) :
          Bits[f.answer[j]] = Bits[f.answer[k]] => j = k}

\* A node seen, reported.
LEMMA ReportFound ==
  ASSUME NEW text, NEW seen, NEW Bits, NEW f \in Found(text, seen, Bits),
         NEW p \in seen \intersect PiecesIn(text)
  PROVE  Report(f, p, Bits) \in Found(text, seen, Bits)
<1>1. CASE Bits[p] \subseteq f.bloom
  BY <1>1 DEF Report
<1>2. CASE ~(Bits[p] \subseteq f.bloom)
  <2> DEFINE S == seen \intersect PiecesIn(text)
             B == f.bloom \union Bits[p]
             a == Append(f.answer, p)
  <2>1. /\ f.bloom \in SUBSET UNION {Bits[q] : q \in seen} /\ f.answer \in Seq(S)
        /\ \A j \in 1..Len(f.answer) : Bits[f.answer[j]] \subseteq f.bloom
        /\ \A j, k \in 1..Len(f.answer) :
             Bits[f.answer[j]] = Bits[f.answer[k]] => j = k
    BY DEF Found
  <2>2. Report(f, p, Bits) = [bloom |-> B, answer |-> a]
    BY <1>2 DEF Report
  <2>3. Bits[p] \subseteq UNION {Bits[q] : q \in seen}
    OBVIOUS
  <2>4. B \in SUBSET UNION {Bits[q] : q \in seen}
    BY <2>1, <2>3
  <2>5. /\ a \in Seq(S) /\ Len(a) = Len(f.answer) + 1 /\ Len(f.answer) \in Nat
        /\ \A j \in 1..Len(f.answer) : a[j] = f.answer[j]
        /\ a[Len(f.answer) + 1] = p
    BY <2>1, AppendProperties, LenProperties
  <2> HIDE DEF a, S, B
  <2>6. \A j \in 1..Len(a) : j \in 1..Len(f.answer) \/ j = Len(f.answer) + 1
    BY <2>5
  <2>7. f.bloom \subseteq B /\ Bits[p] \subseteq B
    BY DEF B
  <2>8. \A j \in 1..Len(a) : Bits[a[j]] \subseteq B
    BY <2>1, <2>5, <2>6, <2>7
  <2>9. \A j \in 1..Len(f.answer) : Bits[a[j]] # Bits[p]
    BY <1>2, <2>1, <2>5
  <2>10. \A j, k \in 1..Len(a) : Bits[a[j]] = Bits[a[k]] => j = k
    BY <2>1, <2>5, <2>6, <2>9
  <2>11. [bloom |-> B, answer |-> a] \in
           [bloom : SUBSET UNION {Bits[q] : q \in seen}, answer : Seq(S)]
    BY <2>4, <2>5
  <2> QED
    BY <2>2, <2>8, <2>10, <2>11 DEF Found, S
<1> QED
  BY <1>1, <1>2

\* A walk is a sequence of pieces of the text, and ends before the first one that
\* is not a node.
LEMMA WalkPieces ==
  ASSUME NEW W, NEW trie, NEW text \in Seq(W), NEW i \in 1..Len(text)
  PROVE  /\ Reach(trie, text, i) \in Nat
         /\ Reach(trie, text, i) <= Len(text) - i + 1
         /\ Reach(trie, text, i) < Len(text) - i + 1 =>
              SubSeq(text, i, i + Reach(trie, text, i)) \notin DOMAIN trie
         /\ DOMAIN Walk(trie, text, i) = 1..Reach(trie, text, i)
         /\ \A n \in 1..Reach(trie, text, i) :
              /\ Walk(trie, text, i)[n] = SubSeq(text, i, i + n - 1)
              /\ Walk(trie, text, i)[n] \in PiecesIn(text) \intersect DOMAIN trie
<1> DEFINE m == Len(text) - i + 1
           Stops(n) == n < m => SubSeq(text, i, i + n) \notin DOMAIN trie
           T == {n \in 0..m : Stops(n)}
<1>1. Len(text) \in Nat /\ m \in Nat /\ m \in 0..m
  BY LenProperties
<1>2. m \in T /\ T \in SUBSET Nat
  BY <1>1
<1>3. PICK q \in T : \A x \in T : q <= x
  <2> HIDE DEF T
  <2> QED
    BY <1>2, LeastNumber
<1>4. \A x \in 1..q : SubSeq(text, i, i + x - 1) \in DOMAIN trie
  <2> SUFFICES ASSUME NEW x \in 1..q PROVE SubSeq(text, i, i + x - 1) \in DOMAIN trie
    OBVIOUS
  <2>1. q \in Nat /\ q <= m
    BY <1>1, <1>3
  <2>2. x - 1 \in 0..m /\ x - 1 < q
    BY <1>1, <2>1
  <2>3. x - 1 \notin T
    <3> HIDE DEF T
    <3> QED
      BY <1>3, <2>1, <2>2
  <2>4. ~Stops(x - 1)
    BY <2>2, <2>3
  <2>5. i + (x - 1) = i + x - 1
    BY <1>1, <2>1
  <2> QED
    BY <2>4, <2>5
<1>5. /\ Reach(trie, text, i) \in 0..m /\ Stops(Reach(trie, text, i))
      /\ \A x \in 1..Reach(trie, text, i) : SubSeq(text, i, i + x - 1) \in DOMAIN trie
  BY <1>3, <1>4 DEF Reach
<1>6. \A n \in 1..Reach(trie, text, i) : SubSeq(text, i, i + n - 1) \in PiecesIn(text)
  <2>1. \A n \in 1..Reach(trie, text, i) : i + n - 1 \in 1..Len(text)
    BY <1>1, <1>5
  <2> QED
    BY <2>1 DEF PiecesIn
<1> QED
  BY <1>1, <1>5, <1>6 DEF Walk

\* No node lies further on in the text: the nodes on the way to it would be there.
LEMMA NothingBeyond ==
  ASSUME NEW W, NEW v, NEW trie, IsTrie(trie, W, v), NEW text \in Seq(W),
         NEW i \in 1..Len(text),
         NEW n \in (Reach(trie, text, i) + 1)..(Len(text) - i + 1)
  PROVE  SubSeq(text, i, i + n - 1) \notin DOMAIN trie
<1> DEFINE r == Reach(trie, text, i)
           p == SubSeq(text, i, i + n - 1)
           q == SubSeq(text, i, i + r)
<1> SUFFICES ASSUME p \in DOMAIN trie PROVE FALSE
  OBVIOUS
<1>1. /\ Len(text) \in Nat /\ r \in Nat /\ n \in Nat /\ r < Len(text) - i + 1
      /\ i + n - 1 <= Len(text) /\ i + r <= Len(text) /\ r + 1 <= n
  <2>1. Len(text) \in Nat /\ r \in Nat
    BY LenProperties, WalkPieces
  <2> HIDE DEF r
  <2> QED
    BY <2>1 DEF r
<1>2. q \notin DOMAIN trie
  BY <1>1, WalkPieces
<1>3. \A x \in 1..Len(text) : text[x] \in W
  BY ElementOfSeq
<1>4. p \in Seq(W) /\ Len(p) = n /\ \A x \in 1..n : p[x] = text[i + x - 1]
  <2> HIDE DEF r, q
  <2>1. i \in Int /\ i + n - 1 \in Int /\ \A x \in i..(i + n - 1) : text[x] \in W
    BY <1>1, <1>3
  <2>2. i + n - 1 - i + 1 = n /\ i <= i + n - 1
    BY <1>1
  <2> QED
    BY <1>1, <2>1, <2>2, SubSeqProperties
<1>5. q \in Seq(W) /\ Len(q) = r + 1 /\ \A x \in 1..(r + 1) : q[x] = text[i + x - 1]
  <2> HIDE DEF r, p
  <2>1. i \in Int /\ i + r \in Int /\ \A x \in i..(i + r) : text[x] \in W
    BY <1>1, <1>3
  <2>2. i + r - i + 1 = r + 1 /\ i <= i + r
    BY <1>1
  <2> QED
    BY <1>1, <2>1, <2>2, SubSeqProperties
<1> HIDE DEF p, q, r
<1>6. r + 1 \in 0..Len(p) /\ r + 1 \in 1..Len(p)
  BY <1>1, <1>4
<1>7. /\ SubSeq(p, 1, r + 1) \in Seq(W) /\ Len(SubSeq(p, 1, r + 1)) = r + 1
      /\ \A x \in 1..(r + 1) : SubSeq(p, 1, r + 1)[x] = p[x]
  BY <1>4, <1>6, Prefix
<1>8. SubSeq(p, 1, r + 1) = q
  <2>1. \A x \in 1..(r + 1) : x \in 1..n
    BY <1>1
  <2>2. \A x \in 1..(r + 1) : SubSeq(p, 1, r + 1)[x] = q[x]
    BY <1>4, <1>5, <1>7, <2>1
  <2> QED
    BY <1>5, <1>7, <2>2, SeqEqual
<1>9. q \in PathNodes(p)
  BY <1>4, <1>6, <1>8, PathOf
<1> QED
  BY <1>2, <1>9 DEF IsTrie

\* One call of trieSearch_Ngram, node by node, from what was found.
NodeByNode(trie, text, seen, Bits, found, i) ==
  \E F \in [0..Reach(trie, text, i) -> Found(text, seen, Bits)] :
    /\ F[0] = found
    /\ \A k \in 1..Reach(trie, text, i) :
         F[k] = IF Walk(trie, text, i)[k] \in seen
                THEN Report(F[k - 1], Walk(trie, text, i)[k], Bits) ELSE F[k - 1]
    /\ SearchNgram(trie, text, seen, Bits, found, i) = F[Reach(trie, text, i)]

\* One search goes down the nodes of its walk, one after the other.
LEMMA SearchNgramRuns ==
  ASSUME NEW W, NEW trie, NEW text \in Seq(W), NEW seen, NEW Bits,
         NEW i \in 1..Len(text), NEW found \in Found(text, seen, Bits)
  PROVE  NodeByNode(trie, text, seen, Bits, found, i)
<1>0. /\ Reach(trie, text, i) \in Nat
      /\ DOMAIN Walk(trie, text, i) = 1..Reach(trie, text, i)
      /\ \A k \in 1..Reach(trie, text, i) : Walk(trie, text, i)[k] \in PiecesIn(text)
  <2>1. Reach(trie, text, i) \in Nat
    BY WalkPieces
  <2>2. DOMAIN Walk(trie, text, i) = 1..Reach(trie, text, i)
    BY DEF Walk
  <2>3. \A k \in 1..Reach(trie, text, i) : Walk(trie, text, i)[k] \in PiecesIn(text)
    BY WalkPieces
  <2> QED
    BY <2>1, <2>2, <2>3
<1> DEFINE w == Walk(trie, text, i)
           n == Reach(trie, text, i)
           T == Found(text, seen, Bits)
           Step(f, p) == IF p \in seen THEN Report(f, p, Bits) ELSE f
           G == [x \in T \X (1..n) |-> Step(x[1], w[x[2]])]
           h == CHOOSE g : g = [s \in SUBSET DOMAIN w |->
                                  IF s = {} THEN found
                                  ELSE Step(g[s \ {Max(s)}], w[Max(s)])]
           F == [k \in 0..n |-> h[1..k]]
<1>1. n \in Nat /\ DOMAIN w = 1..n /\ \A k \in 1..n : w[k] \in PiecesIn(text)
  BY <1>0
<1>2. \A f \in T : \A k \in 1..n : Step(f, w[k]) \in T
  <2> HIDE DEF w, n
  <2> SUFFICES ASSUME NEW f \in Found(text, seen, Bits), NEW k \in 1..n, w[k] \in seen
               PROVE  Report(f, w[k], Bits) \in Found(text, seen, Bits)
    OBVIOUS
  <2> QED
    BY <1>1, ReportFound
<1>3. found \in T
  OBVIOUS
<1>4. SearchNgram(trie, text, seen, Bits, found, i) = h[DOMAIN w]
  BY DEF SearchNgram, FoldLeft, MapThenFoldSet
<1>5. \A f, p : Step(f, p) = IF p \in seen THEN Report(f, p, Bits) ELSE f
  OBVIOUS
<1> HIDE DEF w, n, T, Step
<1>6. G \in [T \X (1..n) -> T] /\ \A f \in T : \A k \in 1..n : G[<<f, k>>] = Step(f, w[k])
  BY <1>2
<1> HIDE DEF G
<1>7. h = [s \in SUBSET DOMAIN w |->
             IF s = {} THEN found ELSE Step(h[s \ {Max(s)}], w[Max(s)])]
  <2>1. PICK g \in [SUBSET (1..n) -> T] : FoldsTo(g, n, found, G)
    BY <1>1, <1>3, <1>6, FoldExists
  <2>2. ASSUME NEW s \in SUBSET (1..n), s # {}
        PROVE  g[s] = Step(g[s \ {Max(s)}], w[Max(s)])
    <3>1. Max(s) \in 1..n /\ g[s \ {Max(s)}] \in T
      BY <1>1, <2>2, MaxNumber
    <3> QED
      BY <1>6, <2>1, <2>2, <3>1 DEF FoldsTo
  <2>3. g[{}] = found
    BY <2>1 DEF FoldsTo
  <2>4. g = [s \in SUBSET DOMAIN w |->
               IF s = {} THEN found ELSE Step(g[s \ {Max(s)}], w[Max(s)])]
    BY <1>1, <2>2, <2>3
  <2> QED
    BY <2>4
<1> HIDE DEF h
<1>8. FoldRun(F, n, T, found, G)
  <2>1. h[{}] = found
    BY <1>7
  <2>2. ASSUME NEW s \in SUBSET (1..n), s # {}, h[s \ {Max(s)}] \in T
        PROVE  h[s] = G[<<h[s \ {Max(s)}], Max(s)>>]
    BY <1>1, <1>6, <1>7, <2>2, MaxNumber
  <2> QED
    BY <1>1, <1>3, <1>6, <2>1, <2>2, FoldRuns
<1>9. F[n] = h[1..n]
  BY <1>1
<1> HIDE DEF F
<1>10. /\ F \in [0..n -> T] /\ F[0] = found /\ F[n] = h[DOMAIN w]
       /\ \A k \in 1..n : F[k] = Step(F[k - 1], w[k])
  <2>1. \A k \in 1..n : k - 1 \in 0..n
    BY <1>1
  <2> QED
    BY <1>1, <1>6, <1>8, <1>9, <2>1 DEF FoldRun
<1> QED
  BY <1>4, <1>5, <1>10 DEF NodeByNode, w, n, T

\* So it goes on with what was found.
LEMMA SearchNgramFinds ==
  ASSUME NEW W, NEW trie, NEW text \in Seq(W), NEW seen, NEW Bits,
         NEW i \in 1..Len(text), NEW found \in Found(text, seen, Bits)
  PROVE  SearchNgram(trie, text, seen, Bits, found, i) \in Found(text, seen, Bits)
<1> DEFINE n == Reach(trie, text, i)
           T == Found(text, seen, Bits)
<1>1. n \in Nat
  BY WalkPieces
<1>2. NodeByNode(trie, text, seen, Bits, found, i)
  BY SearchNgramRuns
<1>3. PICK F \in [0..n -> T] : SearchNgram(trie, text, seen, Bits, found, i) = F[n]
  BY <1>2 DEF NodeByNode
<1> HIDE DEF n, T
<1>4. n \in 0..n
  BY <1>1
<1>5. SearchNgram(trie, text, seen, Bits, found, i) \in T
  BY <1>3, <1>4
<1> QED
  BY <1>5 DEF T

\* A search: one call of trieSearch_Ngram from each word of the text on.
CallByCall(trie, text, seen, Bits) ==
  \E F \in [0..Len(text) -> Found(text, seen, Bits)] :
    /\ F[0] = [bloom |-> {}, answer |-> <<>>]
    /\ \A k \in 1..Len(text) : F[k] = SearchNgram(trie, text, seen, Bits, F[k - 1], k)
    /\ Scan(trie, text, seen, Bits) = F[Len(text)].answer

\* The search of a text calls itself for each of its words.
LEMMA ScanRuns ==
  ASSUME NEW W, NEW trie, NEW text \in Seq(W), NEW seen, NEW Bits
  PROVE  CallByCall(trie, text, seen, Bits)
<1> DEFINE n == Len(text)
           w == [i \in 1..Len(text) |-> i]
           T == Found(text, seen, Bits)
           none == [bloom |-> {}, answer |-> <<>>]
           Step(f, i) == SearchNgram(trie, text, seen, Bits, f, i)
           G == [x \in T \X (1..n) |-> Step(x[1], w[x[2]])]
           h == CHOOSE g : g = [s \in SUBSET DOMAIN w |->
                                  IF s = {} THEN none
                                  ELSE Step(g[s \ {Max(s)}], w[Max(s)])]
           F == [k \in 0..n |-> h[1..k]]
<1>1. n \in Nat /\ DOMAIN w = 1..n /\ \A k \in 1..n : w[k] = k
  BY LenProperties
<1>2. \A f \in T : \A k \in 1..n : Step(f, w[k]) \in T
  BY <1>1, SearchNgramFinds
<1>3. none \in T
  <2>1. /\ <<>> \in Seq(seen \intersect PiecesIn(text)) /\ Len(<<>>) = 0
        /\ \A j \in 1..0 : FALSE
    BY EmptySeq
  <2>2. none \in [bloom : SUBSET UNION {Bits[p] : p \in seen},
                  answer : Seq(seen \intersect PiecesIn(text))]
    BY <2>1
  <2>3. none.answer = <<>>
    OBVIOUS
  <2> HIDE DEF none
  <2> QED
    BY <2>1, <2>2, <2>3 DEF Found
<1>4. Scan(trie, text, seen, Bits) = h[DOMAIN w].answer
  BY DEF Scan, FoldLeft, MapThenFoldSet
<1>5. \A f, i : Step(f, i) = SearchNgram(trie, text, seen, Bits, f, i)
  OBVIOUS
<1> HIDE DEF w, n, T, Step, none
<1>6. G \in [T \X (1..n) -> T] /\ \A f \in T : \A k \in 1..n : G[<<f, k>>] = Step(f, w[k])
  BY <1>2
<1> HIDE DEF G
<1>7. h = [s \in SUBSET DOMAIN w |->
             IF s = {} THEN none ELSE Step(h[s \ {Max(s)}], w[Max(s)])]
  <2>1. PICK g \in [SUBSET (1..n) -> T] : FoldsTo(g, n, none, G)
    BY <1>1, <1>3, <1>6, FoldExists
  <2>2. ASSUME NEW s \in SUBSET (1..n), s # {}
        PROVE  g[s] = Step(g[s \ {Max(s)}], w[Max(s)])
    <3>1. Max(s) \in 1..n /\ g[s \ {Max(s)}] \in T
      BY <1>1, <2>2, MaxNumber
    <3> QED
      BY <1>6, <2>1, <2>2, <3>1 DEF FoldsTo
  <2>3. g[{}] = none
    BY <2>1 DEF FoldsTo
  <2>4. g = [s \in SUBSET DOMAIN w |->
               IF s = {} THEN none ELSE Step(g[s \ {Max(s)}], w[Max(s)])]
    BY <1>1, <2>2, <2>3
  <2> QED
    BY <2>4
<1> HIDE DEF h
<1>8. FoldRun(F, n, T, none, G)
  <2>1. h[{}] = none
    BY <1>7
  <2>2. ASSUME NEW s \in SUBSET (1..n), s # {}, h[s \ {Max(s)}] \in T
        PROVE  h[s] = G[<<h[s \ {Max(s)}], Max(s)>>]
    <3>1. Max(s) \in 1..n
      BY <1>1, <2>2, MaxNumber
    <3>2. h[s] = Step(h[s \ {Max(s)}], w[Max(s)])
      BY <1>1, <1>7, <2>2
    <3> QED
      BY <1>6, <2>2, <3>1, <3>2
  <2> QED
    BY <1>1, <1>3, <1>6, <2>1, <2>2, FoldRuns
<1>9. F[n] = h[1..n]
  BY <1>1
<1> HIDE DEF F
<1>10. /\ F \in [0..n -> T] /\ F[0] = none /\ F[n] = h[DOMAIN w]
       /\ \A k \in 1..n : F[k] = Step(F[k - 1], k)
  <2>1. \A k \in 1..n : k - 1 \in 0..n
    BY <1>1
  <2>2. /\ F \in [0..n -> T] /\ F[0] = none /\ F[n] = h[DOMAIN w]
        /\ \A k \in 1..n : F[k] = G[<<F[k - 1], k>>]
    BY <1>1, <1>8, <1>9 DEF FoldRun
  <2>3. \A k \in 1..n : F[k] = Step(F[k - 1], w[k])
    BY <1>6, <2>1, <2>2
  <2> QED
    BY <1>1, <2>2, <2>3
<1>11. F \in [0..n -> T] /\ F[0] = none /\ Scan(trie, text, seen, Bits) = F[n].answer
  BY <1>1, <1>4, <1>10
<1> QED
  BY <1>5, <1>10, <1>11 DEF CallByCall, n, T, none

\* A search answers with pieces of the text that it sees, each of them once.
LEMMA ScanAnswers ==
  ASSUME NEW W, NEW trie, NEW text \in Seq(W), NEW seen, NEW Bits
  PROVE  /\ Scan(trie, text, seen, Bits) \in Seq(seen \intersect PiecesIn(text))
         /\ \A j, k \in 1..Len(Scan(trie, text, seen, Bits)) :
              Scan(trie, text, seen, Bits)[j] = Scan(trie, text, seen, Bits)[k]
                => j = k
<1> DEFINE n == Len(text)
           T == Found(text, seen, Bits)
<1>1. n \in Nat
  BY LenProperties
<1>2. PICK F \in [0..n -> T] : Scan(trie, text, seen, Bits) = F[n].answer
  <2>1. CallByCall(trie, text, seen, Bits)
    BY ScanRuns
  <2> QED
    BY <2>1 DEF CallByCall
<1> HIDE DEF n, T
<1>3. n \in 0..n
  BY <1>1
<1>4. F[n] \in T
  BY <1>2, <1>3
<1> QED
  BY <1>2, <1>4 DEF Found, T

\* The search of a query sees the n-grams of its version.
LEMMA SearchAnswers ==
  ASSUME NEW W, NEW trie, NEW text \in Seq(W), NEW version, NEW Bits
  PROVE  Search(trie, text, version, Bits) \in
           Seq({p \in DOMAIN trie : Visible(trie[p], version)} \intersect PiecesIn(text))
BY ScanAnswers DEF Search

\* The static search sees every n-gram.
LEMMA SearchStaticAnswers ==
  ASSUME NEW W, NEW trie, NEW text \in Seq(W), NEW Bits
  PROVE  SearchStatic(trie, text, Bits) \in Seq(Finals(trie) \intersect PiecesIn(text))
BY ScanAnswers DEF SearchStatic
=============================================================================
