------------------------- MODULE Algorithms_proofs -------------------------
(***************************************************************************)
(* The two algorithms that run alone.  What the loop of GenerateSolutions  *)
(* considers and keeps, for every request and every set of places; and     *)
(* what Construct builds, for every graph of GenerateGraph: the            *)
(* percolations of its queue end and keep a heap, and its tree is a        *)
(* minimum spanning tree, by the exchange of edges.                        *)
(***************************************************************************)
EXTENDS PlanGeneration, SpanningTree, FiniteSetTheorems, NaturalsInduction,
        SequenceTheorems, WellFoundedInduction, TLAPS

\* A nonempty set of naturals has a least element.
LEMMA LeastNatural ==
    ASSUME NEW S \in SUBSET Nat, S # {}
    PROVE  \E x \in S : \A y \in S : x <= y
<1> DEFINE R == {ss \in Nat \X Nat : ss[1] < ss[2]}
<1>1. IsWellFoundedOn(R, Nat)
  BY NatLessThanWellFounded DEF OpToRel
<1>2. PICK x \in S : \A y \in S : ~ (<<y, x>> \in R)
  <2> HIDE DEF R
  <2>1. QED
    BY <1>1, WFMin
<1>3. ASSUME NEW y \in S
      PROVE  x <= y
  <2>1. ASSUME y < x
        PROVE  <<y, x>> \in R
    BY <2>1
  <2>2. QED
    BY <1>2, <2>1
<1>4. QED
  BY <1>3

\* A set of naturals that has 0, and with a number the next one, has all.
LEMMA AllNaturals ==
    ASSUME NEW S, 0 \in S, \A n \in Nat : n \in S => n + 1 \in S
    PROVE  Nat \subseteq S
<1> SUFFICES ASSUME Nat \ S # {}
             PROVE  FALSE
  OBVIOUS
<1>1. PICK x \in Nat \ S : \A y \in Nat \ S : x <= y
  BY LeastNatural
<1>2. x # 0
  OBVIOUS
<1>3. x - 1 \in Nat /\ (x - 1) + 1 = x /\ ~ (x <= x - 1)
  BY <1>2
<1> QED BY <1>1, <1>3

-----------------------------------------------------------------------------
(***************************************************************************)
(* The iterator and the priority queue of the solutions.                   *)
(***************************************************************************)

\* A nonempty set of slots has a rightmost one, which Max chooses.
LEMMA RightmostSlot ==
    ASSUME NEW n \in Nat, NEW S \in SUBSET (1 .. n), S # {}
    PROVE  Max(S) \in S /\ \A y \in S : y <= Max(S)
<1> DEFINE T == {n - y : y \in S}
<1>1. T \in SUBSET Nat /\ T # {}
  <2>1. ASSUME NEW y \in S
        PROVE  n - y \in Nat
    <3>1. y \in 1 .. n
      OBVIOUS
    <3>2. QED
      BY <3>1
  <2>2. T \subseteq Nat
    BY <2>1
  <2>3. PICK y \in S : TRUE
    OBVIOUS
  <2>4. n - y \in T
    OBVIOUS
  <2>5. QED
    BY <2>2, <2>4
<1>2. PICK x \in T : \A y \in T : x <= y
  BY <1>1, LeastNatural
<1>3. PICK m \in S : x = n - m
  BY <1>2
<1>4. ASSUME NEW y \in S
      PROVE  y <= m
  <2>1. n - y \in T
    OBVIOUS
  <2>2. n - m <= n - y
    BY <1>2, <1>3, <2>1
  <2>3. QED
    BY <2>2
<1>5. \E z \in S : \A y \in S : z >= y
  BY <1>4
<1>6. QED
  BY <1>5 DEF Max

\* A combination takes an index below the size at every slot.
LEMMA CombinationsType ==
    ASSUME NEW n \in Nat, NEW size \in [1 .. n -> Nat], NEW t
    PROVE  t \in Combinations(size) <=>
             /\ t \in [1 .. n -> Nat]
             /\ \A i \in 1 .. n : t[i] < size[i]
<1>1. ASSUME t \in Combinations(size)
      PROVE  t \in [1 .. n -> Nat] /\ \A i \in 1 .. n : t[i] < size[i]
  BY <1>1 DEF Combinations
<1>2. ASSUME t \in [1 .. n -> Nat], \A i \in 1 .. n : t[i] < size[i]
      PROVE  t \in Combinations(size)
  <2>1. ASSUME NEW i \in 1 .. n
        PROVE  t[i] \in UNION {0 .. (size[j] - 1) : j \in 1 .. n}
    BY <1>2
  <2>2. QED
    BY <1>2, <2>1 DEF Combinations
<1>3. QED
  BY <1>1, <1>2

\* Two different combinations differ first at some slot.
LEMMA FirstDifference ==
    ASSUME NEW n \in Nat, NEW size \in [1 .. n -> Nat],
           NEW s \in Combinations(size), NEW t \in Combinations(size), s # t
    PROVE  \E d \in 1 .. n : /\ s[d] # t[d]
                             /\ \A q \in 1 .. (d - 1) : s[q] = t[q]
<1> DEFINE D == {i \in 1 .. n : s[i] # t[i]}
<1>0. s \in [1 .. n -> Nat] /\ t \in [1 .. n -> Nat]
  BY CombinationsType
<1>1. \E i \in 1 .. n : s[i] # t[i]
  BY <1>0
<1> HIDE DEF D
<1>2. D \in SUBSET Nat /\ D # {}
  BY <1>1 DEF D
<1>3. PICK d \in D : \A y \in D : d <= y
  BY <1>2, LeastNatural
<1>4. d \in 1 .. n /\ s[d] # t[d]
  BY <1>3 DEF D
<1>5. ASSUME NEW q \in 1 .. (d - 1)
      PROVE  s[q] = t[q]
  <2>1. q \notin D
    BY <1>3, <1>4
  <2>2. QED
    BY <1>4, <2>1 DEF D
<1>6. QED
  BY <1>4, <1>5

\* Next moves to the immediate successor in the order of the odometer.
LEMMA NextIsSuccessor ==
    ASSUME NEW n \in Nat, NEW size \in [1 .. n -> Nat],
           NEW s \in Combinations(size), HasNext(s, size)
    PROVE  /\ NextStatus(s, size) \in Combinations(size)
           /\ \A t \in Combinations(size) :
                 Before(t, NextStatus(s, size)) <=> Before(t, s) \/ t = s
<1> DEFINE I == Incrementable(s, size)
           p == Max(I)
           nxt == NextStatus(s, size)
           e(i) == CASE i < p -> s[i]
                     [] i = p -> s[i] + 1
                     [] i > p -> 0
<1>0. s \in [1 .. n -> Nat] /\ \A i \in 1 .. n : s[i] < size[i]
  BY CombinationsType
<1>1. I \in SUBSET (1 .. n) /\ I # {}
  <2>1. I = {i \in 1 .. n : s[i] + 1 # size[i]}
    BY DEF Incrementable
  <2>2. PICK i \in 1 .. n : s[i] < size[i] - 1
    BY DEF HasNext
  <2>3. s[i] + 1 # size[i]
    BY <1>0, <2>2
  <2>4. QED
    BY <2>1, <2>3
<1>2. p \in I /\ \A y \in I : y <= p
  BY <1>1, RightmostSlot
<1>3. p \in 1 .. n /\ s[p] + 1 < size[p]
  BY <1>0, <1>1, <1>2 DEF Incrementable
<1>4. ASSUME NEW i \in 1 .. n, i > p
      PROVE  s[i] = size[i] - 1
  <2>1. i \notin I
    BY <1>2, <1>3, <1>4
  <2>2. QED
    BY <1>0, <2>1 DEF Incrementable
<1>5. nxt = [i \in 1 .. n |-> e(i)]
  BY <1>1 DEF NextStatus
<1> HIDE DEF I, p, nxt
<1>6. /\ nxt \in [1 .. n -> Nat]
      /\ \A i \in 1 .. n : i < p => nxt[i] = s[i]
      /\ nxt[p] = s[p] + 1
      /\ \A i \in 1 .. n : i > p => nxt[i] = 0
  <2>1. ASSUME NEW i \in 1 .. n
        PROVE  /\ e(i) \in Nat
               /\ i < p => e(i) = s[i]
               /\ i = p => e(i) = s[p] + 1
               /\ i > p => e(i) = 0
    BY <1>0, <1>3
  <2> HIDE DEF e
  <2>2. QED
    BY <1>3, <1>5, <2>1
<1> HIDE DEF e
<1>7. nxt \in Combinations(size)
  <2>1. ASSUME NEW i \in 1 .. n
        PROVE  nxt[i] < size[i]
    <3>1. s[i] < size[i] /\ s[i] \in Nat /\ size[i] \in Nat
      BY <1>0
    <3>2. QED
      BY <1>3, <1>6, <3>1, SMTT(30)
  <2>2. QED
    BY <1>6, <2>1, CombinationsType
<1>8. ASSUME NEW t \in Combinations(size)
      PROVE  Before(t, nxt) <=> Before(t, s) \/ t = s
  <2>0. t \in [1 .. n -> Nat] /\ \A i \in 1 .. n : t[i] < size[i]
    BY CombinationsType
  <2>1. ASSUME Before(t, nxt), t # s
        PROVE  Before(t, s)
    <3>1. PICK q \in 1 .. n : /\ t[q] < nxt[q]
                              /\ \A r \in 1 .. (q - 1) : t[r] = nxt[r]
      BY <2>0, <2>1 DEF Before
    <3>2. q <= p
      BY <1>3, <1>6, <2>0, <3>1
    <3>3. \A r \in 1 .. (q - 1) : t[r] = s[r]
      BY <1>3, <1>6, <3>1, <3>2
    <3>4. CASE t[q] < s[q]
      BY <2>0, <3>3, <3>4 DEF Before
    <3>5. CASE ~ (t[q] < s[q])
      <4>0. q = p
        BY <1>3, <1>6, <3>1, <3>2, <3>5
      <4>1. q = p /\ t[p] = s[p]
        BY <1>0, <1>3, <1>6, <2>0, <3>1, <3>5, <4>0
      <4>2. PICK d \in 1 .. n : /\ t[d] # s[d]
                                /\ \A r \in 1 .. (d - 1) : t[r] = s[r]
        BY <2>1, FirstDifference
      <4>3. d > p
        BY <1>3, <3>3, <4>1, <4>2
      <4>4. t[d] < s[d]
        BY <1>0, <1>4, <2>0, <4>2, <4>3
      <4>5. QED
        BY <2>0, <4>2, <4>4 DEF Before
    <3>6. QED
      BY <3>4, <3>5
  <2>2. ASSUME t = s
        PROVE  Before(t, nxt)
    <3>1. t[p] < nxt[p] /\ \A r \in 1 .. (p - 1) : t[r] = nxt[r]
      BY <1>0, <1>3, <1>6, <2>2
    <3>2. QED
      BY <1>3, <2>0, <3>1 DEF Before
  <2>3. ASSUME Before(t, s)
        PROVE  Before(t, nxt)
    <3>1. PICK q \in 1 .. n : /\ t[q] < s[q]
                              /\ \A r \in 1 .. (q - 1) : t[r] = s[r]
      BY <2>0, <2>3 DEF Before
    <3>2. CASE q <= p
      <4>0. nxt[q] = s[q] \/ nxt[q] = s[q] + 1
        BY <1>3, <1>6, <3>2
      <4>1. t[q] < nxt[q]
        BY <1>0, <2>0, <3>1, <4>0
      <4>2. ASSUME NEW r \in 1 .. (q - 1)
            PROVE  t[r] = nxt[r]
        BY <1>3, <1>6, <3>1, <3>2, SMTT(30)
      <4>3. QED
        BY <2>0, <4>1, <4>2 DEF Before
    <3>3. CASE q > p
      <4>1. t[p] < nxt[p]
        BY <1>0, <1>3, <1>6, <3>1, <3>3
      <4>2. ASSUME NEW r \in 1 .. (p - 1)
            PROVE  t[r] = nxt[r]
        BY <1>3, <1>6, <3>1, <3>3
      <4>3. QED
        BY <1>3, <2>0, <4>1, <4>2 DEF Before
    <3>4. QED
      BY <1>3, <3>2, <3>3
  <2>4. QED
    BY <2>1, <2>2, <2>3
<1>9. QED
  BY <1>7, <1>8 DEF nxt

\* Nothing comes before the first combination.
LEMMA FirstIsLeast ==
    ASSUME NEW n \in Nat, NEW size \in [1 .. n -> Nat],
           \A i \in 1 .. n : size[i] > 0
    PROVE  /\ FirstStatus(size) \in Combinations(size)
           /\ \A t \in Combinations(size) : ~ Before(t, FirstStatus(size))
<1>1. /\ FirstStatus(size) \in [1 .. n -> Nat]
      /\ \A i \in 1 .. n : FirstStatus(size)[i] = 0
  BY DEF FirstStatus
<1>2. FirstStatus(size) \in Combinations(size)
  BY <1>1, CombinationsType
<1>3. ASSUME NEW t \in Combinations(size), Before(t, FirstStatus(size))
      PROVE  FALSE
  <2>1. t \in [1 .. n -> Nat]
    BY CombinationsType
  <2>2. QED
    BY <1>1, <1>3, <2>1 DEF Before
<1>4. QED
  BY <1>2, <1>3

\* When HasNext answers no, all combinations but the current one are behind.
LEMMA NoNextIsLast ==
    ASSUME NEW n \in Nat, NEW size \in [1 .. n -> Nat],
           NEW s \in Combinations(size), ~ HasNext(s, size)
    PROVE  /\ s = LastStatus(size)
           /\ \A t \in Combinations(size) : Before(t, s) <=> t # s
<1>1. s \in [1 .. n -> Nat] /\ \A i \in 1 .. n : s[i] < size[i]
  BY CombinationsType
<1>2. ASSUME NEW i \in 1 .. n
      PROVE  s[i] = size[i] - 1
  <2>1. ~ (s[i] < size[i] - 1)
    BY DEF HasNext
  <2>2. QED
    BY <1>1, <2>1
<1>3. s = LastStatus(size)
  BY <1>1, <1>2 DEF LastStatus
<1>4. ASSUME NEW t \in Combinations(size)
      PROVE  Before(t, s) <=> t # s
  <2>0. t \in [1 .. n -> Nat] /\ \A i \in 1 .. n : t[i] < size[i]
    BY CombinationsType
  <2>1. ASSUME Before(t, s)
        PROVE  t # s
    BY <1>1, <2>0, <2>1 DEF Before
  <2>2. ASSUME t # s
        PROVE  Before(t, s)
    <3>1. PICK d \in 1 .. n : /\ t[d] # s[d]
                              /\ \A q \in 1 .. (d - 1) : t[q] = s[q]
      BY <2>2, FirstDifference
    <3>2. t[d] < s[d]
      <4>1. s[d] = size[d] - 1 /\ t[d] < size[d]
        BY <1>2, <2>0
      <4>2. QED
        BY <1>1, <2>0, <3>1, <4>1
    <3>3. QED
      BY <2>0, <3>1, <3>2 DEF Before
  <2>3. QED
    BY <2>1, <2>2
<1>5. QED
  BY <1>3, <1>4
-----------------------------------------------------------------------------
\* The inductive invariant: past Init the sizes are positive and the iterator
\* is where IteratorInOrder and AllButLastConsidered say.
IteratorInv ==
    /\ pc \in {"init", "iterate", "offer", "done", "failed"}
    /\ pc = "init" => considered = {}
    /\ pc \in {"iterate", "offer", "done"} =>
          /\ Len(clusters) = Len(SlotCategories)
          /\ Size \in [Slots -> Nat]
          /\ \A i \in Slots : Size[i] > 0
          /\ status \in Combinations(Size)
    /\ IteratorInOrder
    /\ AllButLastConsidered

LEMMA SlotsAreNumbered ==
    \E n \in Nat : Slots = 1 .. n
<1>1. SlotCategories \in Seq(Category)
  BY SlotAssumption
<1>2. Len(SlotCategories) \in Nat /\ Slots = 1 .. Len(SlotCategories)
  BY <1>1 DEF Slots
<1>3. QED
  BY <1>2

\* Lengths are naturals whenever there is a cluster for every slot.
LEMMA SizeType ==
    ASSUME clusters \in Clusters, Len(clusters) = Len(SlotCategories)
    PROVE  Size \in [Slots -> Nat]
<1>1. clusters \in Seq([Category -> Seq(Place)])
  BY ClusterAssumption
<1>2. SlotCategories \in Seq(Category)
  BY SlotAssumption
<1>3. ASSUME NEW i \in Slots
      PROVE  Len(clusters[i][SlotCategories[i]]) \in Nat
  <2>1. i \in 1 .. Len(clusters) /\ SlotCategories[i] \in Category
    BY <1>1, <1>2 DEF Slots
  <2>2. clusters[i] \in [Category -> Seq(Place)]
    BY <1>1, <2>1
  <2>3. clusters[i][SlotCategories[i]] \in Seq(Place)
    BY <2>1, <2>2
  <2>4. QED
    BY <2>3
<1>4. QED
  BY <1>3 DEF Size

LEMMA ClustersFixed == Spec => [](clusters \in Clusters)
<1>1. Init => clusters \in Clusters
  BY DEF Init
<1>2. clusters \in Clusters /\ [Next]_vars => (clusters \in Clusters)'
  BY DEF Next, vars, InitIterator, InitIteratorFails, Consider, Deduplicate,
         OfferPush, OfferReplace, OfferSkip, Extract, Return
<1>3. QED
  BY <1>1, <1>2, PTL DEF Spec

LEMMA IteratorStep ==
    ASSUME IteratorInv, clusters \in Clusters, [Next]_vars
    PROVE  IteratorInv'
<1> USE DEF IteratorInv
<1>0. PICK n \in Nat : Slots = 1 .. n
  BY SlotsAreNumbered
<1>1. CASE InitIterator
  <2>1. Size' = Size /\ pc' = "iterate" /\ considered' = {}
    BY <1>1 DEF InitIterator, Size
  <2>2. Size \in [1 .. n -> Nat] /\ \A i \in 1 .. n : Size[i] > 0
    BY <1>0, <1>1, SizeType DEF InitIterator
  <2>3. status' = FirstStatus(Size)
    BY <1>1 DEF InitIterator
  <2>4. status' \in Combinations(Size)
        /\ \A t \in Combinations(Size) : ~ Before(t, status')
    BY <2>2, <2>3, FirstIsLeast
  <2>5. Len(clusters') = Len(SlotCategories)
    BY <1>1 DEF InitIterator
  <2>6. QED
    BY <1>0, <2>1, <2>2, <2>4, <2>5 DEF IteratorInOrder, AllButLastConsidered
<1>2. CASE InitIteratorFails
  BY <1>2 DEF InitIteratorFails, IteratorInOrder, AllButLastConsidered
<1>3. CASE Consider
  <2>1. /\ Size' = Size /\ pc = "iterate" /\ pc' = pc
        /\ HasNext(status, Size)
        /\ status' = NextStatus(status, Size)
        /\ considered' = considered \cup {status}
    BY <1>3 DEF Consider, Size
  <2>2. Size \in [1 .. n -> Nat] /\ status \in Combinations(Size)
    BY <1>0, <2>1
  <2>3. /\ status' \in Combinations(Size)
        /\ \A t \in Combinations(Size) :
              Before(t, status') <=> Before(t, status) \/ t = status
    BY <2>1, <2>2, NextIsSuccessor
  <2>4. considered = {t \in Combinations(Size) : Before(t, status)}
    BY <2>1 DEF IteratorInOrder
  <2>5. considered' = {t \in Combinations(Size) : Before(t, status')}
    BY <2>1, <2>2, <2>3, <2>4
  <2>6. clusters' = clusters
    BY <1>3 DEF Consider
  <2>7. QED
    BY <2>1, <2>3, <2>5, <2>6 DEF IteratorInOrder, AllButLastConsidered
<1>4. CASE Deduplicate
  <2>1. /\ Size' = Size /\ pc = "iterate" /\ pc' = "offer"
        /\ ~ HasNext(status, Size)
        /\ considered' = considered
    BY <1>4 DEF Deduplicate, Size
  <2>2. Size \in [1 .. n -> Nat] /\ status \in Combinations(Size)
    BY <1>0, <2>1
  <2>3. /\ status = LastStatus(Size)
        /\ \A t \in Combinations(Size) : Before(t, status) <=> t # status
    BY <2>1, <2>2, NoNextIsLast
  <2>4. considered = {t \in Combinations(Size) : Before(t, status)}
    BY <2>1 DEF IteratorInOrder
  <2>5. considered' = Combinations(Size) \ {LastStatus(Size)}
    BY <2>1, <2>3, <2>4
  <2>6. clusters' = clusters /\ status' = status
    BY <1>4 DEF Deduplicate
  <2>7. QED
    BY <2>1, <2>5, <2>6 DEF IteratorInOrder, AllButLastConsidered
<1>5. ASSUME UNCHANGED <<clusters, status, considered>>,
             pc = "offer", pc' \in {"offer", "done"}
      PROVE  IteratorInv'
  BY <1>5 DEF Size, IteratorInOrder, AllButLastConsidered
<1>6. CASE OfferPush \/ OfferReplace \/ OfferSkip \/ Extract \/ Return
  BY <1>5, <1>6 DEF Offering, OfferPush, OfferReplace, OfferSkip, Extract, Return
<1>7. CASE UNCHANGED vars
  BY <1>7 DEF vars, Size, IteratorInOrder, AllButLastConsidered
<1>8. QED
  BY <1>1, <1>2, <1>3, <1>4, <1>6, <1>7 DEF Next

\* For every request and every set of places the matcher may return, the loop
\* of GenerateSolutions has considered exactly what precedes its Status.
THEOREM IteratorIsInOrder == Spec => []IteratorInOrder
<1>1. Init => IteratorInv
  BY DEF Init, IteratorInv, IteratorInOrder, AllButLastConsidered
<1>2. IteratorInv /\ clusters \in Clusters /\ [Next]_vars => IteratorInv'
  BY IteratorStep
<1>3. IteratorInv => IteratorInOrder
  BY DEF IteratorInv
<1>4. QED
  BY <1>1, <1>2, <1>3, ClustersFixed, PTL DEF Spec

\* And it has considered all combinations but the last one when it ends.
THEOREM IteratorCoverage == Spec => []AllButLastConsidered
<1>1. Init => IteratorInv
  BY DEF Init, IteratorInv, IteratorInOrder, AllButLastConsidered
<1>2. IteratorInv /\ clusters \in Clusters /\ [Next]_vars => IteratorInv'
  BY IteratorStep
<1>3. IteratorInv => AllButLastConsidered
  BY DEF IteratorInv
<1>4. QED
  BY <1>1, <1>2, <1>3, ClustersFixed, PTL DEF Spec
-----------------------------------------------------------------------------
(***************************************************************************)
(* What the loop leaves behind, deduplication and the bounded queue.       *)
(***************************************************************************)

UpTo(S, e) == {j \in S : j <= e}

\* Ranks of the elements of a finite set of naturals: one for each number.
LEMMA NthEnumerates ==
    ASSUME NEW S \in SUBSET Nat, IsFiniteSet(S)
    PROVE  /\ \A n \in 1 .. Cardinality(S) :
                 Nth(S, n) \in S /\ Cardinality(UpTo(S, Nth(S, n))) = n
           /\ \A e \in S : \E n \in 1 .. Cardinality(S) : Nth(S, n) = e
<1> DEFINE M == Cardinality(S)
           rank == [e \in S |-> Cardinality(UpTo(S, e))]
<1>1. M \in Nat
  BY FS_CardinalityType
<1>2. ASSUME NEW e \in S
      PROVE  /\ IsFiniteSet(UpTo(S, e))
             /\ Cardinality(UpTo(S, e)) \in 1 .. M
  <2>1. IsFiniteSet(UpTo(S, e)) /\ Cardinality(UpTo(S, e)) <= M
    BY FS_Subset DEF UpTo
  <2>2. Cardinality(UpTo(S, e)) \in Nat
    BY <2>1, FS_CardinalityType
  <2>3. e \in UpTo(S, e)
    <3>1. e \in S /\ e \in Nat /\ e <= e
      OBVIOUS
    <3> QED BY <3>1 DEF UpTo
  <2>4. Cardinality(UpTo(S, e)) # 0
    BY <2>1, <2>3, FS_EmptySet
  <2> QED BY <1>1, <2>1, <2>2, <2>4
<1>3. ASSUME NEW e \in S, NEW d \in S, e < d
      PROVE  rank[e] # rank[d]
  <2>1. UpTo(S, e) \in SUBSET UpTo(S, d) /\ UpTo(S, e) # UpTo(S, d)
    <3>0. e \in Nat /\ d \in Nat /\ d <= d /\ ~ (d <= e)
      BY <1>3
    <3>1. d \in UpTo(S, d) /\ d \notin UpTo(S, e)
      BY <3>0 DEF UpTo
    <3>2. ASSUME NEW j \in S, j <= e
          PROVE  j <= d
      <4>1. j \in Nat
        OBVIOUS
      <4> QED BY <1>3, <3>0, <3>2, <4>1
    <3>3. UpTo(S, e) \subseteq UpTo(S, d)
      BY <3>2 DEF UpTo
    <3> QED BY <3>1, <3>3
  <2> QED BY <1>2, <2>1, FS_Subset
<1>4. rank \in Injection(S, 1 .. M)
  <2>1. rank \in [S -> 1 .. M]
    BY <1>2
  <2>2. \A e, d \in S : rank[e] = rank[d] => e = d
    <3> HIDE DEF rank
    <3> QED BY <1>3
  <2> QED BY <2>1, <2>2 DEF Injection, IsInjective
<1>5. IsFiniteSet(1 .. M) /\ Cardinality(1 .. M) = M
  BY <1>1, FS_Interval
<1>6. rank \in Surjection(S, 1 .. M)
  <2> HIDE DEF rank
  <2> QED BY <1>4, <1>5, FS_Injection
<1>7. \A n \in 1 .. M : \E e \in S : rank[e] = n
  BY <1>6 DEF Surjection
<1>8. \A n \in 1 .. M : Nth(S, n) \in S /\ rank[Nth(S, n)] = n
  BY <1>7 DEF Nth, UpTo
<1>9. ASSUME NEW e \in S
      PROVE  \E n \in 1 .. M : Nth(S, n) = e
  <2>1. rank[e] \in 1 .. M
    BY <1>4 DEF Injection
  <2>2. /\ Nth(S, rank[e]) \in S
        /\ rank[Nth(S, rank[e])] = rank[e]
    BY <1>8, <2>1
  <2> HIDE DEF rank
  <2>3. Nth(S, rank[e]) = e
    BY <1>4, <2>2 DEF Injection, IsInjective
  <2> QED BY <2>1, <2>3
<1> QED BY <1>8, <1>9

\* Each combination selects a place for every slot.
LEMMA SelectedType ==
    ASSUME clusters \in Clusters, Len(clusters) = Len(SlotCategories),
           NEW t \in Combinations(Size)
    PROVE  Selected(t) \in [Slots -> Place]
<1>0. PICK n \in Nat : Slots = 1 .. n
  BY SlotsAreNumbered
<1>1. Size \in [1 .. n -> Nat]
  BY <1>0, SizeType
<1>2. t \in [1 .. n -> Nat] /\ \A i \in 1 .. n : t[i] < Size[i]
  BY <1>1, CombinationsType
<1>3. ASSUME NEW i \in Slots
      PROVE  clusters[i][SlotCategories[i]][t[i] + 1] \in Place
  <2>1. clusters \in Seq([Category -> Seq(Place)]) /\ SlotCategories \in Seq(Category)
    BY ClusterAssumption, SlotAssumption
  <2>2. i \in 1 .. Len(clusters) /\ SlotCategories[i] \in Category
    BY <2>1 DEF Slots
  <2>3. clusters[i][SlotCategories[i]] \in Seq(Place)
    BY <2>1, <2>2
  <2>4. Size[i] = Len(clusters[i][SlotCategories[i]])
    BY DEF Size
  <2>5. t[i] \in Nat /\ t[i] < Size[i]
    BY <1>0, <1>2
  <2>6. t[i] + 1 \in 1 .. Len(clusters[i][SlotCategories[i]])
    BY <2>3, <2>4, <2>5
  <2>7. QED
    BY <2>3, <2>6
<1>4. QED
  BY <1>3 DEF Selected

Key(i) == ToSet(plans[i])

\* Deduplication keeps every set of places, each of them once, and of those
\* with the same places the first.
LEMMA DeduplicatedProperties ==
    ASSUME NEW P, plans \in Seq(P)
    PROVE  /\ Deduplicated \in Seq(P)
           /\ \A i, j \in DOMAIN Deduplicated :
                 ToSet(Deduplicated[i]) = ToSet(Deduplicated[j]) => i = j
           /\ {ToSet(Deduplicated[i]) : i \in DOMAIN Deduplicated}
                = {Key(i) : i \in DOMAIN plans}
           /\ {Deduplicated[i] : i \in DOMAIN Deduplicated}
                = {plans[i] : i \in Staying}
<1> DEFINE M == Cardinality(Staying)
<1>1. /\ Len(plans) \in Nat /\ DOMAIN plans = 1 .. Len(plans)
      /\ Staying \in SUBSET (1 .. Len(plans)) /\ Staying \in SUBSET Nat
  BY DEF Staying
<1>2. IsFiniteSet(Staying) /\ M \in Nat
  <2>1. IsFiniteSet(1 .. Len(plans))
    BY <1>1, FS_Interval
  <2>2. QED
    BY <1>1, <2>1, FS_Subset, FS_CardinalityType
<1>3. /\ \A n \in 1 .. M : /\ Nth(Staying, n) \in Staying
                           /\ Cardinality(UpTo(Staying, Nth(Staying, n))) = n
      /\ \A e \in Staying : \E n \in 1 .. M : Nth(Staying, n) = e
  BY <1>1, <1>2, NthEnumerates
<1>4. \A i, j \in Staying : Key(i) = Key(j) => i = j
  <2>1. \A i, j \in Staying : i < j => Key(i) # Key(j)
    BY <1>1 DEF Staying, IsFirst, Key
  <2>2. QED
    BY <1>1, <2>1
<1>5. \A n \in 1 .. M : /\ Deduplicated[n] = plans[Nth(Staying, n)]
                        /\ Deduplicated[n] \in P
                        /\ ToSet(Deduplicated[n]) = Key(Nth(Staying, n))
  <2>1. ASSUME NEW n \in 1 .. M
        PROVE  /\ Deduplicated[n] = plans[Nth(Staying, n)]
               /\ Nth(Staying, n) \in 1 .. Len(plans)
    BY <1>1, <1>3 DEF Deduplicated
  <2>2. QED
    BY <1>1, <2>1 DEF Key
<1>6. DOMAIN Deduplicated = 1 .. M
  BY DEF Deduplicated
<1>7. Deduplicated \in Seq(P)
  <2>1. Deduplicated \in [1 .. M -> P]
    BY <1>5, <1>6 DEF Deduplicated
  <2>2. QED
    BY <1>2, <2>1
<1>8. \A i, j \in 1 .. M :
         ToSet(Deduplicated[i]) = ToSet(Deduplicated[j]) => i = j
  BY <1>3, <1>4, <1>5
<1>9. ASSUME NEW i \in DOMAIN plans
      PROVE  \E n \in 1 .. M : ToSet(Deduplicated[n]) = Key(i)
  <2> DEFINE same == {j \in 1 .. Len(plans) : Key(j) = Key(i)}
  <2>1. same \in SUBSET Nat /\ same # {}
    BY <1>1
  <2>2. PICK l \in same : \A j \in same : l <= j
    <3> HIDE DEF same
    <3>1. QED
      BY <2>1, LeastNatural
  <2>3. l \in 1 .. Len(plans) /\ Key(l) = Key(i)
    BY <2>2
  <2>4. ASSUME NEW j \in 1 .. (l - 1)
        PROVE  Key(j) # Key(l)
    <3>1. j \in 1 .. Len(plans) /\ ~ (l <= j)
      BY <1>1, <2>3
    <3>2. j \notin same
      BY <2>2, <3>1
    <3>3. QED
      BY <2>3, <3>1, <3>2
  <2>5. l \in Staying
    BY <1>1, <2>3, <2>4 DEF Staying, IsFirst, Key
  <2>6. PICK n \in 1 .. M : Nth(Staying, n) = l
    BY <1>3, <2>5
  <2>7. QED
    BY <1>5, <2>3, <2>6
<1>10. \A n \in 1 .. M : \E i \in DOMAIN plans : Key(i) = ToSet(Deduplicated[n])
  BY <1>1, <1>3, <1>5
<1>11. {ToSet(Deduplicated[i]) : i \in DOMAIN Deduplicated}
         = {Key(i) : i \in DOMAIN plans}
  BY <1>6, <1>9, <1>10
<1>12. {Deduplicated[i] : i \in DOMAIN Deduplicated} = {plans[i] : i \in Staying}
  <2> HIDE DEF M
  <2> QED BY <1>3, <1>5, <1>6
<1>13. QED
  BY <1>6, <1>7, <1>8, <1>11, <1>12

\* A finite set has an element of the lowest score.
LEMMA LowestExists ==
    ASSUME NEW S, IsFiniteSet(S), S # {}, NEW f \in [S -> Int]
    PROVE  \E m \in S : \A j \in S : f[m] <= f[j]
<1> DEFINE Below(i) == {j \in S : f[j] <= f[i]}
           C == {Cardinality(Below(i)) : i \in S}
<1>1. ASSUME NEW i \in S
      PROVE  IsFiniteSet(Below(i)) /\ Cardinality(Below(i)) \in Nat
  BY FS_Subset, FS_CardinalityType
<1>2. C \in SUBSET Nat /\ C # {}
  BY <1>1
<1>3. PICK c \in C : \A d \in C : c <= d
  <2> HIDE DEF C
  <2>1. QED
    BY <1>2, LeastNatural
<1>4. PICK m \in S : c = Cardinality(Below(m))
  BY <1>3
<1>5. ASSUME NEW j \in S, f[j] < f[m]
      PROVE  FALSE
  <2>1. Below(j) \in SUBSET Below(m)
    <3>1. \A i \in S : f[i] <= f[j] => f[i] <= f[m]
      BY <1>5
    <3>2. QED
      BY <3>1
  <2>2. m \in Below(m) /\ m \notin Below(j)
    BY <1>5
  <2>3. Cardinality(Below(j)) \in C
    OBVIOUS
  <2>4. Cardinality(Below(m)) <= Cardinality(Below(j))
    BY <1>3, <1>4, <2>3
  <2>5. Below(m) # Below(j)
    BY <2>2
  <2> HIDE DEF Below
  <2>6. /\ Cardinality(Below(j)) <= Cardinality(Below(m))
        /\ Cardinality(Below(m)) = Cardinality(Below(j)) => Below(m) = Below(j)
    BY <1>1, <2>1, FS_Subset
  <2>7. Cardinality(Below(m)) \in Nat /\ Cardinality(Below(j)) \in Nat
    BY <1>1
  <2>8. QED
    BY <2>4, <2>5, <2>6, <2>7
<1>6. \A j \in S : f[m] <= f[j]
  <2>1. \A j \in S : f[m] \in Int /\ f[j] \in Int
    OBVIOUS
  <2>2. QED
    BY <1>5, <2>1
<1>7. QED
  BY <1>6
-----------------------------------------------------------------------------
\* The sets of places of the candidates, and of the plans returned so far.
Sets == {ToSet(Selected(t)) : t \in Candidates}
Kept == {ToSet(answer[j]) : j \in DOMAIN answer}

Choosing == pc \in {"offer", "done"}

\* The plans chosen so far: those in the queue and those taken from it.
Count == Cardinality(queue) + Len(answer)

\* A plan that was offered and skipped, or had to leave the queue.
LeftOut(i) == i \notin queue /\ Key(i) \notin Kept

\* The plans have the sets of places of the candidates, the first of each set
\* is the order met first, and nothing has been chosen before the plans are
\* deduplicated.
PlansInv ==
    /\ k \in Int
    /\ plans \in Seq([Slots -> Place])
    /\ Sets = {Key(i) : i \in DOMAIN plans}
    /\ FirstPlans = {plans[i] : i \in Staying}
    /\ ~ Choosing => next = 1 /\ queue = {} /\ answer = <<>>

\* The queue is full before a plan is left out, and holds none worse than it.
QueueInv ==
    /\ k > 0
    /\ \A i, j \in DOMAIN plans : Key(i) = Key(j) => i = j
    /\ next \in 1 .. (Len(plans) + 1)
    /\ queue \subseteq 1 .. (next - 1)
    /\ Count <= k
    /\ Count <= next - 1
    /\ Count = k \/ Count = next - 1
    /\ \A i \in 1 .. (next - 1) : LeftOut(i) =>
          /\ Count = k
          /\ \A j \in queue : PlanScore(i) <= PlanScore(j)
          /\ \A j \in DOMAIN answer : PlanScore(i) <= Score(answer[j])

\* What has been taken from the queue is sorted, and not better than the rest.
AnswerInv ==
    /\ answer \in Seq([Slots -> Place])
    /\ answer # <<>> => next > Len(plans)
    /\ \A j \in DOMAIN answer : \E i \in DOMAIN plans \ queue : answer[j] = plans[i]
    /\ \A i, j \in DOMAIN answer : ToSet(answer[i]) = ToSet(answer[j]) => i = j
    /\ \A i, j \in DOMAIN answer :
          i < j => Score(answer[i]) <= Score(answer[j])
    /\ \A j \in DOMAIN answer, i \in queue :
          Score(answer[j]) <= PlanScore(i)
    /\ pc = "done" => queue = {} /\ next > Len(plans)

ChoiceInv == PlansInv /\ (Choosing => QueueInv /\ AnswerInv)

LEMMA ScoreType ==
    ASSUME plans \in Seq([Slots -> Place]), NEW i \in DOMAIN plans
    PROVE  PlanScore(i) \in Int
<1>1. plans[i] \in [Slots -> Place]
  OBVIOUS
<1>2. QED
  BY <1>1, ScoreAssumption DEF PlanScore

\* What the plans are compared with depends on the combinations and on them.
LEMMA PlansKept ==
    ASSUME UNCHANGED <<clusters, considered, plans>>
    PROVE  /\ Sets' = Sets /\ FirstPlans' = FirstPlans /\ Staying' = Staying
           /\ \A i : Key(i)' = Key(i) /\ PlanScore(i)' = PlanScore(i)
<1>1. Candidates' = Candidates
  BY DEF Candidates, Selected, IsSet
<1>2. Sets' = Sets /\ FirstPlans' = FirstPlans
  BY <1>1 DEF Sets, FirstPlans, Selected
<1>3. Staying' = Staying
  BY DEF Staying, IsFirst
<1>4. QED
  BY <1>2, <1>3 DEF Key, PlanScore

\* The odometer does not come back to a combination.
LEMMA BeforeAsymmetric ==
    ASSUME NEW n \in Nat, NEW size \in [1 .. n -> Nat],
           NEW s \in Combinations(size), NEW t \in Combinations(size),
           Before(s, t), Before(t, s)
    PROVE  FALSE
<1>0. s \in [1 .. n -> Nat] /\ t \in [1 .. n -> Nat]
  BY CombinationsType
<1>1. PICK p \in 1 .. n : s[p] < t[p] /\ \A q \in 1 .. (p - 1) : s[q] = t[q]
  BY <1>0 DEF Before
<1>2. PICK r \in 1 .. n : t[r] < s[r] /\ \A q \in 1 .. (r - 1) : t[q] = s[q]
  BY <1>0 DEF Before
<1>3. s[p] \in Nat /\ t[p] \in Nat /\ s[r] \in Nat /\ t[r] \in Nat
  BY <1>0
<1>4. CASE p < r
  BY <1>1, <1>2, <1>3, <1>4
<1>5. CASE r < p
  BY <1>1, <1>2, <1>3, <1>5
<1>6. CASE p = r
  BY <1>1, <1>2, <1>3, <1>6
<1>7. QED
  BY <1>4, <1>5, <1>6

\* A plan at the top of the queue scores no higher than any in it.
LEMMA MinimaExist ==
    ASSUME plans \in Seq([Slots -> Place]), queue \subseteq DOMAIN plans,
           IsFiniteSet(queue), queue # {}
    PROVE  Minima # {}
<1> DEFINE f == [i \in queue |-> PlanScore(i)]
<1>1. f \in [queue -> Int]
  BY ScoreType
<1>2. \E m \in queue : \A j \in queue : f[m] <= f[j]
  <2> HIDE DEF f
  <2>1. QED
    BY <1>1, LowestExists
<1>3. QED
  BY <1>2 DEF Minima

\* The combination at Status comes after all that were considered: it is the
\* first of its set of places exactly when its plan is.
LEMMA FirstConsidered ==
    ASSUME PlansInv, IteratorInv, clusters \in Clusters, Consider, IsSet(status)
    PROVE  FirstPlans' = {plans[i] : i \in Staying}'
<1> DEFINE m == Len(plans)
           new == Selected(status)
           First(c, C) == \A d \in C : ToSet(Selected(d)) = ToSet(Selected(c))
                                          => ~ Before(d, c)
<1>0. PICK n \in Nat : Slots = 1 .. n
  BY SlotsAreNumbered
<1>1. /\ pc = "iterate" /\ clusters' = clusters
      /\ considered' = considered \cup {status}
      /\ plans' = Append(plans, new)
  BY DEF Consider
<1>2. /\ Size \in [1 .. n -> Nat] /\ status \in Combinations(Size)
      /\ considered = {t \in Combinations(Size) : Before(t, status)}
      /\ new \in [Slots -> Place]
  BY <1>0, <1>1, SelectedType DEF IteratorInv, IteratorInOrder
<1>3. Candidates' = Candidates \cup {status}
  <2>1. Candidates' = {t \in considered' : IsSet(t)}
    BY <1>1 DEF Candidates, Selected, IsSet
  <2>2. QED
    BY <1>1, <2>1 DEF Candidates
<1>4. \A t \in Candidates : /\ Before(t, status) /\ ~ Before(status, t)
                            /\ ~ Before(status, status)
  BY <1>2, BeforeAsymmetric DEF Candidates
<1>5. ~ Before(status, status)
  BY <1>2, BeforeAsymmetric
<1>6. \A c \in Candidates : First(c, Candidates') <=> First(c, Candidates)
  BY <1>3, <1>4
<1>7. First(status, Candidates') <=> ToSet(new) \notin Sets
  BY <1>3, <1>4, <1>5 DEF Sets
<1>8. FirstPlans' = FirstPlans \cup {p \in {new} : ToSet(p) \notin Sets}
  <2>1. FirstPlans' = {Selected(t) : t \in {c \in Candidates' : First(c, Candidates')}}
    BY <1>1 DEF FirstPlans, Selected
  <2>2. FirstPlans = {Selected(t) : t \in {c \in Candidates : First(c, Candidates)}}
    BY DEF FirstPlans
  <2> HIDE DEF First
  <2>3. QED
    BY <1>3, <1>6, <1>7, <2>1, <2>2
<1>9. /\ DOMAIN plans = 1 .. m /\ DOMAIN plans' = 1 .. m + 1 /\ m \in Nat
      /\ \A i \in 1 .. m : plans'[i] = plans[i]
      /\ plans'[m + 1] = new
  BY <1>1, <1>2, AppendProperties DEF PlansInv
<1>10. \A i \in 1 .. m : i \in Staying' <=> i \in Staying
  BY <1>9 DEF Staying, IsFirst
<1>11. m + 1 \in Staying' <=> ToSet(new) \notin Sets
  <2>1. m + 1 \in Staying' <=> \A j \in 1 .. m : ToSet(plans[j]) # ToSet(new)
    BY <1>9 DEF Staying, IsFirst
  <2>2. Sets = {Key(i) : i \in 1 .. m}
    BY <1>9 DEF PlansInv
  <2>3. QED
    BY <2>1, <2>2 DEF Key
<1>12. Staying' \subseteq (1 .. m) \cup {m + 1} /\ Staying \subseteq 1 .. m
  BY <1>9 DEF Staying
<1>13. QED
  <2>1. {plans[i] : i \in Staying}' = {plans'[i] : i \in Staying'}
    OBVIOUS
  <2> HIDE DEF m, new
  <2>2. ASSUME NEW i \in Staying'
        PROVE  plans'[i] \in FirstPlans'
    <3>1. CASE i \in 1 .. m
      BY <1>8, <1>9, <1>10, <2>2, <3>1 DEF PlansInv
    <3>2. CASE i = m + 1
      BY <1>8, <1>9, <1>11, <2>2, <3>2
    <3>3. QED
      BY <1>12, <2>2, <3>1, <3>2
  <2>3. ASSUME NEW p \in FirstPlans'
        PROVE  \E i \in Staying' : p = plans'[i]
    <3>1. CASE p \in FirstPlans
      <4>1. PICK i \in Staying : p = plans[i]
        BY <3>1 DEF PlansInv
      <4>2. QED
        BY <1>9, <1>10, <1>12, <4>1
    <3>2. CASE p = new /\ ToSet(new) \notin Sets
      BY <1>9, <1>11, <3>2
    <3>3. QED
      BY <1>8, <2>3, <3>1, <3>2
  <2>4. QED
    BY <2>1, <2>2, <2>3

LEMMA ConsiderChoice ==
    ASSUME ChoiceInv, IteratorInv, clusters \in Clusters, Consider
    PROVE  ChoiceInv'
<1>1. /\ pc = "iterate" /\ pc' = "iterate"
      /\ UNCHANGED <<clusters, k, next, queue, answer>>
      /\ considered' = considered \cup {status}
      /\ plans' = IF IsSet(status) THEN Append(plans, Selected(status)) ELSE plans
  BY DEF Consider
<1>2. ~ Choosing /\ ~ Choosing' /\ PlansInv
  BY <1>1 DEF ChoiceInv, Choosing
<1>3. Selected(status) \in [Slots -> Place]
  BY <1>1, SelectedType DEF IteratorInv
<1>4. \A t : Selected(t)' = Selected(t') /\ IsSet(t)' = IsSet(t')
  BY <1>1 DEF Selected, IsSet
<1>c. Candidates' = Candidates \cup {t \in {status} : IsSet(t)}
  <2>1. Candidates' = {t \in considered' : IsSet(t)}
    BY <1>1 DEF Candidates, Selected, IsSet
  <2>2. QED
    BY <1>1, <2>1 DEF Candidates
<1>5. Sets' = Sets \cup {ToSet(Selected(t)) : t \in {x \in {status} : IsSet(x)}}
  <2>1. Sets' = {ToSet(Selected(t)) : t \in Candidates'}
    BY <1>1 DEF Sets, Selected
  <2>2. QED
    BY <1>c, <2>1 DEF Sets
<1>6. plans' \in Seq([Slots -> Place]) /\ Sets' = {Key(i) : i \in DOMAIN plans}'
  <2>1. CASE IsSet(status)
    <3>1. plans' = Append(plans, Selected(status)) /\ plans \in Seq([Slots -> Place])
      BY <1>1, <1>2, <2>1 DEF PlansInv
    <3>2. /\ plans' \in Seq([Slots -> Place])
          /\ DOMAIN plans = 1 .. Len(plans)
          /\ DOMAIN plans' = 1 .. Len(plans) + 1
          /\ Len(plans) \in Nat
          /\ \A i \in 1 .. Len(plans) : plans'[i] = plans[i]
          /\ plans'[Len(plans) + 1] = Selected(status)
      BY <1>3, <3>1, AppendProperties
    <3>3. {ToSet(plans'[i]) : i \in DOMAIN plans'}
            = {ToSet(plans[i]) : i \in DOMAIN plans} \cup {ToSet(Selected(status))}
      <4> DEFINE n == Len(plans)
      <4>1. 1 .. n + 1 = (1 .. n) \cup {n + 1}
        BY <3>2
      <4>2. \A i \in 1 .. n : ToSet(plans'[i]) = ToSet(plans[i])
        BY <3>2
      <4> HIDE DEF n
      <4>3. QED
        BY <3>2, <4>1, <4>2 DEF n
    <3>4. Sets' = Sets \cup {ToSet(Selected(status))}
      BY <1>5, <2>1
    <3>5. QED
      BY <1>2, <3>2, <3>3, <3>4 DEF PlansInv, Key
  <2>2. CASE ~ IsSet(status)
    BY <1>1, <1>2, <1>5, <2>2 DEF PlansInv, Key
  <2>3. QED
    BY <2>1, <2>2
<1>7. FirstPlans' = {plans[i] : i \in Staying}'
  <2>1. CASE IsSet(status)
    BY <1>1, <1>2, <2>1, FirstConsidered
  <2>2. CASE ~ IsSet(status)
    <3>1. Candidates' = Candidates /\ plans' = plans
      BY <1>1, <1>c, <2>2
    <3>2. FirstPlans' = FirstPlans
      BY <1>1, <3>1 DEF FirstPlans, Selected
    <3>3. Staying' = Staying
      BY <3>1 DEF Staying, IsFirst
    <3>4. QED
      BY <1>2, <3>1, <3>2, <3>3 DEF PlansInv
  <2>3. QED
    BY <2>1, <2>2
<1>8. QED
  BY <1>1, <1>2, <1>6, <1>7 DEF ChoiceInv, PlansInv

LEMMA DeduplicateChoice ==
    ASSUME ChoiceInv, Deduplicate
    PROVE  ChoiceInv'
<1>1. /\ pc = "iterate" /\ pc' = "offer"
      /\ UNCHANGED <<clusters, considered, next, queue, answer>>
      /\ plans' = Deduplicated
      /\ k' = IF k <= 0 THEN TopSolutionsCountDefault ELSE k
  BY DEF Deduplicate
<1>2. /\ PlansInv
      /\ next' = 1 /\ queue' = {} /\ answer' = <<>>
  BY <1>1 DEF ChoiceInv, PlansInv, Choosing
<1>3. k' \in Int /\ k' > 0
  BY <1>1, <1>2 DEF PlansInv, TopSolutionsCountDefault
<1>4. /\ plans' \in Seq([Slots -> Place])
      /\ \A i, j \in DOMAIN plans' : Key(i)' = Key(j)' => i = j
      /\ {Key(i) : i \in DOMAIN plans}' = {Key(i) : i \in DOMAIN plans}
      /\ {plans'[i] : i \in DOMAIN plans'} = {plans[i] : i \in Staying}
  BY <1>1, <1>2, DeduplicatedProperties DEF PlansInv, Key
<1>5. Sets' = Sets /\ FirstPlans' = FirstPlans
  <2>1. Candidates' = Candidates
    BY <1>1 DEF Candidates, Selected, IsSet
  <2>2. QED
    BY <1>1, <2>1 DEF Sets, FirstPlans, Selected
<1>d. Staying' = DOMAIN plans'
  <2>1. DOMAIN plans' = 1 .. Len(plans') /\ Len(plans') \in Nat
    BY <1>4
  <2>2. \A i \in DOMAIN plans' : \A j \in 1 .. (i - 1) : Key(j)' # Key(i)'
    BY <1>4, <2>1
  <2>3. QED
    BY <2>2 DEF Staying, IsFirst, Key
<1>6. Choosing' /\ PlansInv'
  <2>1. FirstPlans' = {plans'[i] : i \in Staying'}
    BY <1>2, <1>4, <1>5, <1>d DEF PlansInv
  <2>2. QED
    BY <1>1, <1>2, <1>3, <1>4, <1>5, <2>1 DEF PlansInv, Choosing
<1>7. Len(plans') \in Nat /\ Cardinality(queue') = 0 /\ Len(answer') = 0
  BY <1>2, <1>4, FS_EmptySet
<1>8. QueueInv'
  BY <1>2, <1>3, <1>4, <1>7 DEF QueueInv, Count
<1>9. AnswerInv'
  BY <1>1, <1>2, <1>7 DEF AnswerInv
<1>10. QED
  BY <1>6, <1>8, <1>9 DEF ChoiceInv

\* What holds while plans are offered: nothing has been taken yet.
LEMMA OfferingFacts ==
    ASSUME ChoiceInv, Offering
    PROVE  /\ Choosing /\ PlansInv /\ QueueInv /\ AnswerInv
           /\ answer = <<>> /\ Kept = {} /\ Count = Cardinality(queue)
           /\ Len(plans) \in Nat /\ DOMAIN plans = 1 .. Len(plans)
           /\ next \in 1 .. Len(plans) /\ k \in Nat \ {0}
           /\ IsFiniteSet(queue) /\ Cardinality(queue) \in Nat
           /\ queue \subseteq 1 .. (next - 1) /\ queue \subseteq DOMAIN plans
           /\ \A i \in DOMAIN plans : PlanScore(i) \in Int
<1>1. Choosing /\ PlansInv /\ QueueInv /\ AnswerInv
  BY DEF Offering, Choosing, ChoiceInv
<1>2. Len(plans) \in Nat /\ DOMAIN plans = 1 .. Len(plans)
  BY <1>1 DEF PlansInv
<1>3. next \in 1 .. Len(plans) /\ k \in Nat \ {0}
  BY <1>1, <1>2 DEF PlansInv, QueueInv, Offering
<1>4. answer = <<>>
  BY <1>1, <1>2, <1>3 DEF AnswerInv
<1>5. queue \subseteq 1 .. (next - 1) /\ queue \subseteq DOMAIN plans
  BY <1>1, <1>2, <1>3 DEF QueueInv
<1>6. IsFiniteSet(queue) /\ Cardinality(queue) \in Nat
  <2>1. IsFiniteSet(1 .. (next - 1))
    BY <1>3, FS_Interval
  <2>2. QED
    BY <1>5, <2>1, FS_Subset, FS_CardinalityType
<1>7. Kept = {} /\ Count = Cardinality(queue)
  BY <1>4, <1>6 DEF Kept, Count
<1>8. \A i \in DOMAIN plans : PlanScore(i) \in Int
  BY <1>1, ScoreType DEF PlansInv
<1>9. QED
  BY <1>1, <1>2, <1>3, <1>4, <1>5, <1>6, <1>7, <1>8

\* It is enough to know what an offer does to the queue.
LEMMA OfferKeeps ==
    ASSUME ChoiceInv, Offering, next' = next + 1,
           UNCHANGED <<pc, clusters, k, considered, plans, answer>>,
           queue' \subseteq 1 .. next,
           Cardinality(queue') \in Nat,
           Cardinality(queue') <= k, Cardinality(queue') <= next,
           Cardinality(queue') = k \/ Cardinality(queue') = next,
           \A i \in (1 .. next) \ queue' :
              /\ Cardinality(queue') = k
              /\ \A j \in queue' : PlanScore(i) <= PlanScore(j)
    PROVE  ChoiceInv'
<1>1. /\ Choosing /\ PlansInv /\ QueueInv /\ AnswerInv
      /\ answer = <<>> /\ Len(plans) \in Nat
      /\ next \in 1 .. Len(plans)
  BY OfferingFacts
<1>2. /\ Sets' = Sets /\ FirstPlans' = FirstPlans /\ Staying' = Staying
      /\ \A i : Key(i)' = Key(i)
  BY PlansKept
<1>3. Choosing' /\ PlansInv'
  BY <1>1, <1>2 DEF PlansInv, Choosing
<1>4. /\ answer' = <<>> /\ Kept' = {} /\ Count' = Cardinality(queue')
      /\ next' - 1 = next /\ next' \in 1 .. (Len(plans') + 1)
  BY <1>1 DEF Kept, Count
<1>5. \A i : PlanScore(i)' = PlanScore(i)
  BY DEF PlanScore
<1>6. QueueInv'
  <2>1. \A i, j \in DOMAIN plans' : Key(i)' = Key(j)' => i = j
    BY <1>1 DEF QueueInv, Key
  <2>2. \A i \in 1 .. (next' - 1) : LeftOut(i)' =>
          /\ Count' = k'
          /\ \A j \in queue' : PlanScore(i)' <= PlanScore(j)'
          /\ \A j \in DOMAIN answer' : PlanScore(i)' <= Score(answer'[j])
    BY <1>4, <1>5 DEF LeftOut
  <2>3. k' > 0
    BY <1>1 DEF QueueInv
  <2>4. Count' <= k' /\ Count' <= next' - 1 /\ (Count' = k' \/ Count' = next' - 1)
    BY <1>4
  <2>5. queue' \subseteq 1 .. (next' - 1)
    BY <1>4
  <2>6. QED
    BY <1>4, <2>1, <2>2, <2>3, <2>4, <2>5 DEF QueueInv
<1>7. AnswerInv'
  <2>1. pc' # "done"
    BY DEF Offering
  <2>2. QED
    BY <1>4, <2>1 DEF AnswerInv
<1>8. QED
  BY <1>3, <1>6, <1>7 DEF ChoiceInv

\* Where the queue is not full no plan has been left out.
LEMMA PushChoice ==
    ASSUME ChoiceInv, OfferPush
    PROVE  ChoiceInv'
<1>1. /\ Offering /\ ~ QueueFull
      /\ queue' = queue \cup {next} /\ next' = next + 1
      /\ UNCHANGED <<pc, clusters, k, considered, plans, answer>>
  BY DEF OfferPush
<1>2. /\ QueueInv /\ Kept = {} /\ Count = Cardinality(queue)
      /\ next \in Nat \ {0} /\ k \in Nat \ {0}
      /\ IsFiniteSet(queue) /\ Cardinality(queue) \in Nat
      /\ queue \subseteq 1 .. (next - 1)
  BY <1>1, OfferingFacts
<1>3. Cardinality(queue) # k /\ Cardinality(queue) = next - 1 /\ Cardinality(queue) < k
  BY <1>1, <1>2 DEF QueueFull, QueueInv
<1>4. next \notin queue
  BY <1>2
<1>5. Cardinality(queue') = next
  <2>1. Cardinality(queue') = Cardinality(queue) + 1
    BY <1>1, <1>2, <1>4, FS_AddElement
  <2>2. QED
    BY <1>2, <1>3, <2>1
<1>6. ASSUME NEW i \in (1 .. next) \ queue'
      PROVE  FALSE
  <2>1. i \in 1 .. (next - 1) /\ i \notin queue
    BY <1>1, <1>2, <1>6
  <2>2. LeftOut(i)
    BY <1>2, <2>1 DEF LeftOut
  <2>3. QED
    BY <1>2, <1>3, <2>1, <2>2 DEF QueueInv
<1>7. queue' \subseteq 1 .. next
  BY <1>1, <1>2
<1>8. /\ Cardinality(queue') \in Nat /\ Cardinality(queue') <= next
      /\ Cardinality(queue') <= k
  BY <1>2, <1>3, <1>5
<1>9. QED
  BY <1>1, <1>5, <1>6, <1>7, <1>8, OfferKeeps

\* The plan that leaves the queue is none better than those that stay in it.
LEMMA ReplaceChoice ==
    ASSUME ChoiceInv, OfferReplace
    PROVE  ChoiceInv'
<1>1. /\ Offering /\ QueueFull /\ next' = next + 1
      /\ UNCHANGED <<pc, clusters, k, considered, plans, answer>>
  BY DEF OfferReplace
<1>2. PICK top \in Minima : /\ Better(top)
                           /\ queue' = (queue \ {top}) \cup {next}
  BY DEF OfferReplace
<1>3. /\ QueueInv /\ Kept = {} /\ Count = Cardinality(queue)
      /\ next \in 1 .. Len(plans) /\ Len(plans) \in Nat
      /\ DOMAIN plans = 1 .. Len(plans)
      /\ k \in Nat \ {0}
      /\ IsFiniteSet(queue) /\ Cardinality(queue) \in Nat
      /\ queue \subseteq 1 .. (next - 1)
      /\ \A i \in DOMAIN plans : PlanScore(i) \in Int
  BY <1>1, OfferingFacts
<1>4. /\ top \in queue /\ top \in 1 .. (next - 1)
      /\ \A j \in queue : PlanScore(top) <= PlanScore(j)
      /\ PlanScore(next) > PlanScore(top)
  BY <1>2, <1>3 DEF Minima, Better
<1>5. Cardinality(queue') = k
  <2>1. /\ IsFiniteSet(queue \ {top})
        /\ Cardinality(queue \ {top}) = Cardinality(queue) - 1
    BY <1>3, <1>4, FS_RemoveElement
  <2>2. next \notin queue \ {top}
    BY <1>3
  <2>3. Cardinality(queue') = Cardinality(queue \ {top}) + 1
    BY <1>2, <2>1, <2>2, FS_AddElement
  <2>4. QED
    BY <1>1, <1>3, <2>1, <2>3 DEF QueueFull
<1>6. queue' \subseteq 1 .. next
  <2>1. next \in 1 .. next /\ \A i \in 1 .. (next - 1) : i \in 1 .. next
    BY <1>3
  <2>2. QED
    BY <1>2, <1>3, <2>1
<1>7. ASSUME NEW i \in (1 .. next) \ queue', NEW j \in queue'
      PROVE  PlanScore(i) <= PlanScore(j)
  <2>1. i \in DOMAIN plans /\ j \in DOMAIN plans /\ top \in DOMAIN plans
        /\ next \in DOMAIN plans
    BY <1>3, <1>4, <1>6, <1>7
  <2>2. PlanScore(i) <= PlanScore(top)
    <3>1. CASE i = top
      BY <1>4, <3>1
    <3>2. CASE i # top
      <4>1. i \in 1 .. (next - 1) /\ i \notin queue
        BY <1>2, <1>3, <1>7, <3>2
      <4>2. LeftOut(i)
        BY <1>3, <4>1 DEF LeftOut
      <4>3. QED
        BY <1>3, <1>4, <4>1, <4>2 DEF QueueInv
    <3>3. QED
      BY <3>1, <3>2
  <2>3. PlanScore(top) <= PlanScore(j)
    <3>1. j \in queue \/ j = next
      BY <1>2, <1>7
    <3>2. /\ PlanScore(top) \in Int /\ PlanScore(next) \in Int
      BY <1>3, <2>1
    <3>3. CASE j \in queue
      BY <1>4, <3>3
    <3>4. CASE j = next
      <4>1. PlanScore(top) <= PlanScore(next)
        BY <1>4, <3>2
      <4>2. QED
        BY <3>4, <4>1
    <3>5. QED
      BY <3>1, <3>3, <3>4
  <2>4. PlanScore(i) \in Int /\ PlanScore(j) \in Int /\ PlanScore(top) \in Int
    BY <1>3, <2>1
  <2>5. QED
    BY <2>2, <2>3, <2>4
<1>8. k <= next
  <2>1. Count <= next - 1 /\ Cardinality(queue) = k
    BY <1>1, <1>3 DEF QueueInv, QueueFull
  <2>2. QED
    BY <1>3, <2>1
<1>9. QED
  BY <1>1, <1>3, <1>5, <1>6, <1>7, <1>8, OfferKeeps

\* A plan is skipped when one of the lowest is not worse.
LEMMA SkipChoice ==
    ASSUME ChoiceInv, OfferSkip
    PROVE  ChoiceInv'
<1>1. /\ Offering /\ QueueFull /\ next' = next + 1
      /\ \A top \in Minima : ~ Better(top)
      /\ UNCHANGED <<pc, clusters, k, considered, plans, answer, queue>>
  BY DEF OfferSkip
<1>2. /\ PlansInv /\ QueueInv /\ Kept = {} /\ Count = Cardinality(queue)
      /\ next \in 1 .. Len(plans) /\ Len(plans) \in Nat
      /\ DOMAIN plans = 1 .. Len(plans)
      /\ k \in Nat \ {0}
      /\ IsFiniteSet(queue) /\ Cardinality(queue) \in Nat
      /\ queue \subseteq 1 .. (next - 1) /\ queue \subseteq DOMAIN plans
      /\ \A i \in DOMAIN plans : PlanScore(i) \in Int
  BY <1>1, OfferingFacts
<1>3. Cardinality(queue) = k /\ k <= next
  BY <1>1, <1>2 DEF QueueInv, QueueFull
<1>4. queue # {}
  BY <1>2, <1>3, FS_EmptySet
<1>5. PICK top \in Minima : TRUE
  BY <1>2, <1>4, MinimaExist DEF PlansInv
<1>6. /\ top \in queue
      /\ \A j \in queue : PlanScore(top) <= PlanScore(j)
      /\ ~ (PlanScore(next) > PlanScore(top))
  BY <1>1, <1>5 DEF Minima, Better
<1>7. ASSUME NEW i \in (1 .. next) \ queue, NEW j \in queue
      PROVE  PlanScore(i) <= PlanScore(j)
  <2>1. CASE i = next
    <3>1. /\ PlanScore(top) \in Int /\ PlanScore(next) \in Int
          /\ PlanScore(j) \in Int
      BY <1>2, <1>6, <1>7
    <3>2. PlanScore(top) <= PlanScore(j)
      BY <1>6, <1>7
    <3>3. QED
      BY <1>6, <2>1, <3>1, <3>2
  <2>2. CASE i # next
    <3>1. i \in 1 .. (next - 1) /\ i \notin queue
      BY <1>2, <1>7, <2>2
    <3>2. LeftOut(i)
      BY <1>2, <3>1 DEF LeftOut
    <3>3. QED
      BY <1>2, <1>7, <3>1, <3>2 DEF QueueInv
  <2>3. QED
    BY <2>1, <2>2
<1>8. queue' \subseteq 1 .. next
  BY <1>1, <1>2
<1>9. QED
  BY <1>1, <1>2, <1>3, <1>7, <1>8, OfferKeeps

\* The lowest plan of the queue moves to the end of the answer.
LEMMA ExtractChoice ==
    ASSUME ChoiceInv, Extract
    PROVE  ChoiceInv'
<1>1. /\ pc = "offer" /\ next > Len(plans)
      /\ UNCHANGED <<pc, clusters, k, considered, plans, next>>
  BY DEF Extract
<1>2. PICK top \in Minima : /\ answer' = Append(answer, plans[top])
                           /\ queue' = queue \ {top}
  BY DEF Extract
<1>3. Choosing /\ PlansInv /\ QueueInv /\ AnswerInv
  BY <1>1 DEF ChoiceInv, Choosing
<1>4. /\ plans \in Seq([Slots -> Place]) /\ k \in Int
      /\ Len(plans) \in Nat /\ DOMAIN plans = 1 .. Len(plans)
  BY <1>3 DEF PlansInv
<1>5. next = Len(plans) + 1 /\ queue \subseteq DOMAIN plans /\ next - 1 = Len(plans)
  BY <1>1, <1>3, <1>4 DEF QueueInv
<1>6. /\ top \in queue /\ top \in DOMAIN plans
      /\ \A j \in queue : PlanScore(top) <= PlanScore(j)
  BY <1>2, <1>5 DEF Minima
<1> DEFINE n == Len(answer)
<1>7. /\ answer' \in Seq([Slots -> Place])
      /\ n \in Nat /\ DOMAIN answer = 1 .. n
      /\ Len(answer') = n + 1 /\ DOMAIN answer' = 1 .. n + 1
      /\ \A j \in 1 .. n : answer'[j] = answer[j]
      /\ answer'[n + 1] = plans[top]
  <2>1. answer \in Seq([Slots -> Place]) /\ plans[top] \in [Slots -> Place]
    BY <1>3, <1>4, <1>6 DEF AnswerInv
  <2>2. QED
    BY <1>2, <2>1, AppendProperties
<1>8. 1 .. n + 1 = (1 .. n) \cup {n + 1}
  BY <1>7
<1> HIDE DEF n
<1>9. /\ IsFiniteSet(queue) /\ Cardinality(queue) \in Nat
      /\ Cardinality(queue') = Cardinality(queue) - 1
  <2>1. IsFiniteSet(queue)
    <3>1. IsFiniteSet(1 .. Len(plans))
      BY <1>4, FS_Interval
    <3>2. QED
      BY <1>4, <1>5, <3>1, FS_Subset
  <2>2. QED
    BY <1>2, <1>6, <2>1, FS_RemoveElement, FS_CardinalityType
<1>10. Count' = Count
  <2>1. Count = Cardinality(queue) + n /\ Count' = Cardinality(queue') + (n + 1)
    BY <1>7 DEF Count, n
  <2>2. QED
    BY <1>7, <1>9, <2>1
<1>11. \A i : PlanScore(i)' = PlanScore(i) /\ Key(i)' = Key(i)
  BY <1>1 DEF PlanScore, Key
<1>12. /\ \A j \in 1 .. n : /\ ToSet(answer'[j]) = ToSet(answer[j])
                            /\ Score(answer'[j]) = Score(answer[j])
       /\ ToSet(answer'[n + 1]) = Key(top)
       /\ Score(answer'[n + 1]) = PlanScore(top)
  BY <1>7 DEF Key, PlanScore
<1>13. Kept' = Kept \cup {Key(top)}
  BY <1>7, <1>8, <1>12 DEF Kept
<1>14. Choosing' /\ PlansInv'
  <2>1. Sets' = Sets /\ FirstPlans' = FirstPlans /\ Staying' = Staying
    BY <1>1, PlansKept
  <2>2. QED
    BY <1>1, <1>3, <1>11, <2>1 DEF PlansInv, Choosing
<1>15. QueueInv'
  <2>1. ASSUME NEW i \in 1 .. (next' - 1), LeftOut(i)'
        PROVE  /\ Count' = k'
               /\ \A j \in queue' : PlanScore(i)' <= PlanScore(j)'
               /\ \A j \in DOMAIN answer' : PlanScore(i)' <= Score(answer'[j])
    <3>1. i \notin queue' /\ Key(i) \notin Kept'
      BY <1>11, <2>1 DEF LeftOut
    <3>2. i \notin queue /\ Key(i) \notin Kept
      BY <1>2, <1>13, <3>1
    <3>3. i \in 1 .. (next - 1)
      BY <1>1, <2>1
    <3>4. /\ Count = k
          /\ \A j \in queue : PlanScore(i) <= PlanScore(j)
          /\ \A j \in DOMAIN answer : PlanScore(i) <= Score(answer[j])
      BY <1>3, <3>2, <3>3 DEF QueueInv, LeftOut
    <3>5. \A j \in queue' : PlanScore(i) <= PlanScore(j)
      BY <1>2, <3>4
    <3>6. ASSUME NEW j \in DOMAIN answer'
          PROVE  PlanScore(i) <= Score(answer'[j])
      <4>1. CASE j \in 1 .. n
        BY <1>7, <1>12, <3>4, <4>1
      <4>2. CASE j = n + 1
        BY <1>6, <1>12, <3>4, <4>2
      <4>3. QED
        BY <1>7, <1>8, <4>1, <4>2
    <3>7. QED
      BY <1>1, <1>10, <1>11, <3>4, <3>5, <3>6
  <2>2. /\ k' > 0 /\ next' \in 1 .. (Len(plans') + 1)
        /\ Count' <= k' /\ Count' <= next' - 1
        /\ (Count' = k' \/ Count' = next' - 1)
        /\ queue' \subseteq 1 .. (next' - 1)
    BY <1>1, <1>2, <1>3, <1>10 DEF QueueInv
  <2>3. \A i, j \in DOMAIN plans' : Key(i)' = Key(j)' => i = j
    BY <1>1, <1>3, <1>11 DEF QueueInv
  <2>4. QED
    BY <2>1, <2>2, <2>3 DEF QueueInv
<1>16. AnswerInv'
  <2>1. next' > Len(plans') /\ pc' # "done"
    BY <1>1
  <2>2. ASSUME NEW j \in DOMAIN answer'
        PROVE  \E i \in DOMAIN plans' \ queue' : answer'[j] = plans'[i]
    <3>1. CASE j \in 1 .. n
      <4>1. PICK i \in DOMAIN plans \ queue : answer[j] = plans[i]
        BY <1>3, <1>7, <3>1 DEF AnswerInv
      <4>2. QED
        BY <1>1, <1>2, <1>7, <3>1, <4>1
    <3>2. CASE j = n + 1
      BY <1>1, <1>2, <1>6, <1>7, <3>2
    <3>3. QED
      BY <1>7, <1>8, <3>1, <3>2
  <2>3. ASSUME NEW j \in 1 .. n
        PROVE  /\ ToSet(answer[j]) # Key(top)
               /\ Score(answer[j]) <= PlanScore(top)
    <3>1. PICK i \in DOMAIN plans \ queue : answer[j] = plans[i]
      BY <1>3, <1>7 DEF AnswerInv
    <3>2. i # top /\ ToSet(answer[j]) = Key(i)
      BY <1>6, <3>1 DEF Key
    <3>3. Key(i) # Key(top)
      BY <1>3, <1>6, <3>1, <3>2 DEF QueueInv
    <3>4. Score(answer[j]) <= PlanScore(top)
      BY <1>3, <1>6, <1>7 DEF AnswerInv
    <3>5. QED
      BY <3>2, <3>3, <3>4
  <2>4. ASSUME NEW i \in DOMAIN answer', NEW j \in DOMAIN answer',
               ToSet(answer'[i]) = ToSet(answer'[j])
        PROVE  i = j
    <3>1. CASE i \in 1 .. n /\ j \in 1 .. n
      BY <1>3, <1>7, <1>12, <2>4, <3>1 DEF AnswerInv
    <3>2. CASE i = n + 1 /\ j \in 1 .. n
      BY <1>12, <2>3, <2>4, <3>2
    <3>3. CASE i \in 1 .. n /\ j = n + 1
      BY <1>12, <2>3, <2>4, <3>3
    <3>4. QED
      BY <1>7, <1>8, <3>1, <3>2, <3>3
  <2>5. ASSUME NEW i \in DOMAIN answer', NEW j \in DOMAIN answer', i < j
        PROVE  Score(answer'[i]) <= Score(answer'[j])
    <3>1. CASE j \in 1 .. n
      <4>1. i \in 1 .. n
        BY <1>7, <2>5, <3>1
      <4>2. Score(answer[i]) <= Score(answer[j])
        BY <1>3, <1>7, <2>5, <3>1, <4>1 DEF AnswerInv
      <4>3. QED
        BY <1>12, <3>1, <4>1, <4>2
    <3>2. CASE j = n + 1
      <4>1. i \in 1 .. n
        BY <1>7, <2>5, <3>2
      <4>2. QED
        BY <1>12, <2>3, <3>2, <4>1
    <3>3. QED
      BY <1>7, <1>8, <3>1, <3>2
  <2>6. ASSUME NEW j \in DOMAIN answer', NEW i \in queue'
        PROVE  Score(answer'[j]) <= PlanScore(i)
    <3>1. i \in queue
      BY <1>2, <2>6
    <3>2. CASE j \in 1 .. n
      <4>1. Score(answer[j]) <= PlanScore(i)
        BY <1>3, <1>7, <3>1, <3>2 DEF AnswerInv
      <4>2. QED
        BY <1>12, <3>2, <4>1
    <3>3. CASE j = n + 1
      BY <1>6, <1>12, <3>1, <3>3
    <3>4. QED
      BY <1>7, <1>8, <3>2, <3>3
  <2>7. QED
    BY <1>7, <1>11, <2>1, <2>2, <2>4, <2>5, <2>6 DEF AnswerInv
<1>17. QED
  BY <1>14, <1>15, <1>16 DEF ChoiceInv

LEMMA InitChoice == Init => ChoiceInv
<1>1. SUFFICES ASSUME Init
               PROVE  ChoiceInv
  OBVIOUS
<1>2. k \in Int
  BY <1>1, NumPlansAssumption DEF Init
<1>3. /\ considered = {} /\ plans = <<>> /\ ~ Choosing
      /\ next = 1 /\ queue = {} /\ answer = <<>>
  BY <1>1 DEF Init, Choosing
<1>4. /\ Sets = {} /\ {Key(i) : i \in DOMAIN plans} = {}
      /\ FirstPlans = {} /\ {plans[i] : i \in Staying} = {}
  BY <1>3 DEF Sets, FirstPlans, Candidates, Staying
<1>5. plans \in Seq([Slots -> Place])
  BY <1>3
<1>6. QED
  BY <1>2, <1>3, <1>4, <1>5 DEF ChoiceInv, PlansInv

LEMMA ChoiceStep ==
    ASSUME ChoiceInv, IteratorInv, clusters \in Clusters, [Next]_vars
    PROVE  ChoiceInv'
<1>1. ASSUME UNCHANGED <<clusters, k, considered, plans, next, queue, answer>>,
             ~ Choosing, ~ Choosing'
      PROVE  ChoiceInv'
  <2>1. /\ Sets' = Sets /\ FirstPlans' = FirstPlans /\ Staying' = Staying
        /\ \A i : Key(i)' = Key(i)
    BY <1>1, PlansKept
  <2>2. QED
    BY <1>1, <2>1 DEF ChoiceInv, PlansInv
<1>2. CASE InitIterator \/ InitIteratorFails
  BY <1>1, <1>2 DEF InitIterator, InitIteratorFails, Choosing
<1>3. ASSUME UNCHANGED <<clusters, k, considered, plans, next, queue, answer>>,
             Choosing' = Choosing,
             pc' = "done" => pc = "done" \/ (queue = {} /\ next > Len(plans))
      PROVE  ChoiceInv'
  <2>1. /\ Sets' = Sets /\ FirstPlans' = FirstPlans /\ Staying' = Staying
        /\ \A i : Key(i)' = Key(i)
    BY <1>3, PlansKept
  <2>2. PlansInv'
    BY <1>3, <2>1 DEF ChoiceInv, PlansInv
  <2>3. ASSUME Choosing
        PROVE  QueueInv' /\ AnswerInv'
    <3>1. QueueInv /\ AnswerInv
      BY <2>3 DEF ChoiceInv
    <3>2. Count' = Count /\ Kept' = Kept
      BY <1>3 DEF Count, Kept
    <3>3. \A i : Key(i)' = Key(i) /\ PlanScore(i)' = PlanScore(i)
      BY <1>3 DEF Key, PlanScore
    <3>4. QueueInv'
      BY <1>3, <3>1, <3>2, <3>3 DEF QueueInv, LeftOut
    <3>5. AnswerInv'
      BY <1>3, <3>1, <3>3 DEF AnswerInv
    <3>6. QED
      BY <3>4, <3>5
  <2>4. QED
    BY <1>3, <2>2, <2>3 DEF ChoiceInv
<1>4. CASE Return
  BY <1>3, <1>4 DEF Return, Choosing
<1>5. CASE UNCHANGED vars
  <2>1. /\ UNCHANGED <<clusters, k, considered, plans, next, queue, answer>>
        /\ pc' = pc
    BY <1>5 DEF vars
  <2>2. Choosing' = Choosing
    BY <2>1 DEF Choosing
  <2>3. QED
    BY <1>3, <2>1, <2>2
<1>6. QED
  BY <1>2, <1>4, <1>5, ConsiderChoice, DeduplicateChoice, PushChoice,
     ReplaceChoice, SkipChoice, ExtractChoice DEF Next

LEMMA Invariance == Spec => [](clusters \in Clusters /\ IteratorInv /\ ChoiceInv)
<1>1. Init => IteratorInv /\ ChoiceInv
  BY InitChoice DEF Init, IteratorInv, IteratorInOrder, AllButLastConsidered
<1>2. IteratorInv /\ ChoiceInv /\ clusters \in Clusters /\ [Next]_vars
        => IteratorInv' /\ ChoiceInv'
  BY IteratorStep, ChoiceStep
<1>3. QED
  BY <1>1, <1>2, ClustersFixed, PTL DEF Spec

\* For every number of plans and every score of a sequence of places, also with
\* ties and negative ones, what FindBestPlanningSolutions returns is as many
\* plans as asked for, or as there are sets of places, each in the order met
\* first, sorted, and no first one that was left out is better.
THEOREM BestPlansAreReturned == Spec => []BestPlansReturned
<1>1. ASSUME ChoiceInv, pc = "done"
      PROVE  BestPlansReturned
  <2>1. PlansInv /\ QueueInv /\ AnswerInv /\ queue = {} /\ next > Len(plans)
    BY <1>1 DEF ChoiceInv, Choosing, AnswerInv
  <2> DEFINE M == Len(plans)
             n == Len(answer)
  <2>2. /\ M \in Nat /\ DOMAIN plans = 1 .. M
        /\ n \in Nat /\ DOMAIN answer = 1 .. n
        /\ next = M + 1 /\ next - 1 = M /\ k \in Nat
    BY <2>1 DEF PlansInv, QueueInv, AnswerInv
  <2>3. Count = n
    BY <2>1, <2>2, FS_EmptySet DEF Count
  <2>4. IsFiniteSet(1 .. M) /\ Cardinality(1 .. M) = M
        /\ IsFiniteSet(1 .. n) /\ Cardinality(1 .. n) = n
    <3>1. M \in Nat /\ n \in Nat
      BY <2>2
    <3> HIDE DEF M, n
    <3>2. /\ IsFiniteSet(1 .. M) /\ Cardinality(1 .. M) = IF 1 > M THEN 0 ELSE M - 1 + 1
          /\ IsFiniteSet(1 .. n) /\ Cardinality(1 .. n) = IF 1 > n THEN 0 ELSE n - 1 + 1
      BY <3>1, FS_Interval
    <3>3. QED
      BY <3>1, <3>2
  <2>f. FirstPlans = {plans[i] : i \in 1 .. M}
    <3>1. \A i, j \in 1 .. M : j \in 1 .. (i - 1) => ToSet(plans[j]) # ToSet(plans[i])
      BY <2>1, <2>2 DEF QueueInv, Key
    <3>2. \A i \in 1 .. M : \A j \in 1 .. (i - 1) : j \in 1 .. M
      BY <2>2
    <3>3. Staying = 1 .. M
      BY <2>2, <3>1, <3>2 DEF Staying, IsFirst
    <3>4. QED
      BY <2>1, <3>3 DEF PlansInv
  <2>5. Cardinality(FirstPlans) = M
    <3> DEFINE f == [i \in 1 .. M |-> plans[i]]
    <3>1. FirstPlans = {plans[i] : i \in 1 .. M}
      BY <2>f
    <3>2. \A i, j \in 1 .. M : plans[i] = plans[j] => i = j
      BY <2>1, <2>2 DEF QueueInv, Key
    <3>3. f \in Bijection(1 .. M, FirstPlans)
      BY <3>1, <3>2 DEF Bijection, Injection, Surjection, IsInjective
    <3>4. QED
      BY <2>4, <3>3, FS_Bijection DEF ExistsBijection
  <2>6. Cardinality(ToSet(answer)) = n
    <3> DEFINE f == [j \in 1 .. n |-> answer[j]]
    <3>1. ToSet(answer) = {answer[j] : j \in 1 .. n}
      BY <2>2 DEF ToSet
    <3>2. \A i, j \in 1 .. n : answer[i] = answer[j] => i = j
      BY <2>1, <2>2 DEF AnswerInv
    <3>3. f \in Bijection(1 .. n, ToSet(answer))
      BY <3>1, <3>2 DEF Bijection, Injection, Surjection, IsInjective
    <3> HIDE DEF f
    <3>4. QED
      BY <2>4, <3>3, FS_Bijection DEF ExistsBijection
  <2>7. n = Min({k, Cardinality(FirstPlans)})
    <3>1. n <= k /\ n <= M /\ (n = k \/ n = M)
      BY <2>1, <2>2, <2>3 DEF QueueInv
    <3> HIDE DEF M, n
    <3>2. n \in {k, M} /\ \A y \in {k, M} : n <= y
      BY <3>1
    <3>3. ASSUME NEW x \in {k, M}, \A y \in {k, M} : x <= y
          PROVE  x = n
      <4>1. x \in Nat /\ n \in Nat /\ x <= n /\ n <= x
        BY <2>2, <3>2, <3>3
      <4>2. QED
        BY <4>1
    <3>4. Min({k, M}) = n
      BY <3>2, <3>3 DEF Min
    <3>5. QED
      BY <2>5, <3>4
  <2>8. ToSet(answer) \subseteq FirstPlans
    <3>1. ASSUME NEW j \in 1 .. n
          PROVE  answer[j] \in FirstPlans
      BY <2>1, <2>2, <2>f DEF AnswerInv
    <3>2. QED
      BY <2>2, <3>1 DEF ToSet
  <2>9. ASSUME NEW p \in FirstPlans \ ToSet(answer), NEW q \in ToSet(answer)
        PROVE  Score(p) <= Score(q)
    <3>1. PICK i \in 1 .. M : p = plans[i]
      BY <2>f
    <3>2. PICK j \in 1 .. n : q = answer[j]
      BY <2>2 DEF ToSet
    <3>3. ASSUME NEW l \in 1 .. n
          PROVE  Key(i) # ToSet(answer[l])
      <4>1. PICK h \in DOMAIN plans : answer[l] = plans[h]
        BY <2>1, <2>2 DEF AnswerInv
      <4>2. answer[l] # p
        BY <2>2, <2>9 DEF ToSet
      <4>3. QED
        BY <2>1, <2>2, <3>1, <4>1, <4>2 DEF QueueInv, Key
    <3>4. LeftOut(i)
      BY <2>1, <2>2, <3>3 DEF LeftOut, Kept
    <3>5. PlanScore(i) <= Score(answer[j])
      BY <2>1, <2>2, <3>4 DEF QueueInv
    <3>6. QED
      BY <3>1, <3>2, <3>5 DEF PlanScore
  <2>10. \A i, j \in DOMAIN answer :
            i < j => Score(answer[i]) <= Score(answer[j])
    BY <2>1 DEF AnswerInv
  <2>11. QED
    BY <2>6, <2>7, <2>8, <2>9, <2>10 DEF BestPlansReturned
<1>2. ChoiceInv => BestPlansReturned
  BY <1>1 DEF BestPlansReturned
<1>3. QED
  BY <1>2, Invariance, PTL

\* The iterator stays inside the combinations, the plans take a place for
\* each slot, and the queue keeps to its limit.
THEOREM PlanGenerationTypeCorrect == Spec => []TypeOK
<1>1. ASSUME clusters \in Clusters, IteratorInv, ChoiceInv
      PROVE  TypeOK
  <2>1. pc \in {"init", "iterate", "offer", "done", "failed"}
    BY <1>1 DEF IteratorInv
  <2>2. PlansInv /\ k \in Int /\ plans \in Seq([Slots -> Place]) /\ Len(plans) \in Nat
    BY <1>1 DEF ChoiceInv, PlansInv
  <2>3. ASSUME pc \notin {"init", "failed"}
        PROVE  /\ Len(clusters) = Len(SlotCategories)
               /\ \A i \in Slots : Size[i] > 0
               /\ status \in Combinations(Size)
               /\ considered \subseteq Combinations(Size)
    BY <1>1, <2>1, <2>3 DEF IteratorInv, IteratorInOrder, AllButLastConsidered
  <2>4. CASE Choosing
    <3>1. QueueInv /\ AnswerInv
      BY <1>1, <2>4 DEF ChoiceInv
    <3>2. Cardinality(queue) <= k
      <4>1. next \in Nat /\ queue \subseteq 1 .. (next - 1) /\ Len(answer) \in Nat
        BY <2>2, <3>1 DEF QueueInv, AnswerInv
      <4>2. IsFiniteSet(1 .. (next - 1))
        BY <4>1, FS_Interval
      <4>3. Cardinality(queue) \in Nat
        BY <4>1, <4>2, FS_Subset, FS_CardinalityType
      <4>4. Cardinality(queue) + Len(answer) <= k
        BY <3>1 DEF QueueInv, Count
      <4>5. QED
        BY <2>2, <4>1, <4>3, <4>4
    <3>3. QED
      BY <1>1, <2>1, <2>2, <2>3, <2>4, <3>1, <3>2 DEF TypeOK, QueueInv, AnswerInv
  <2>5. CASE ~ Choosing
    <3>1. next = 1 /\ queue = {} /\ answer = <<>>
      BY <2>2, <2>5 DEF PlansInv
    <3>2. answer \in Seq([Slots -> Place]) /\ next \in 1 .. (Len(plans) + 1)
      BY <2>2, <3>1
    <3>3. QED
      BY <1>1, <2>1, <2>2, <2>3, <2>5, <3>1, <3>2 DEF TypeOK, Choosing
  <2>6. QED
    BY <2>4, <2>5
<1>2. QED
  BY <1>1, Invariance, PTL

-----------------------------------------------------------------------------
(***************************************************************************)
(* GenerateSolutions comes nearer to its end at every step.                *)
(***************************************************************************)

\* There are finitely many functions from 1 .. n to a finite set: by
\* induction on n, a function to n + 1 being one to n and a last value.
LEMMA FunctionsFinite ==
    ASSUME NEW V, IsFiniteSet(V)
    PROVE  \A n \in Nat : IsFiniteSet([1 .. n -> V])
<1> DEFINE S == {n \in Nat : IsFiniteSet([1 .. n -> V])}
<1>1. 0 \in S
  <2>1. \A f \in [1 .. 0 -> V] : f = [i \in {} |-> i]
    BY 1 .. 0 = {}
  <2>2. [1 .. 0 -> V] \subseteq {[i \in {} |-> i]}
    BY <2>1
  <2>3. IsFiniteSet({[i \in {} |-> i]})
    BY FS_Singleton
  <2> QED BY <2>2, <2>3, FS_Subset
<1>2. ASSUME NEW n \in Nat, n \in S
      PROVE  n + 1 \in S
  <2> DEFINE A == [1 .. n + 1 -> V]
             B == [1 .. n -> V] \X V
             f == [t \in A |-> <<[i \in 1 .. n |-> t[i]], t[n + 1]>>]
  <2>0. 1 .. n + 1 = (1 .. n) \cup {n + 1} /\ n + 1 \in 1 .. n + 1
    OBVIOUS
  <2>1. IsFiniteSet(B)
    BY <1>2, FS_Product
  <2>2. ASSUME NEW t \in A
        PROVE  f[t] \in B
    <3>1. [i \in 1 .. n |-> t[i]] \in [1 .. n -> V] /\ t[n + 1] \in V
      BY <2>0
    <3> QED BY <3>1
  <2>3. ASSUME NEW s \in A, NEW t \in A, f[s] = f[t]
        PROVE  s = t
    <3>1. [i \in 1 .. n |-> s[i]] = [i \in 1 .. n |-> t[i]] /\ s[n + 1] = t[n + 1]
      BY <2>3
    <3>2. \A i \in 1 .. n : s[i] = t[i]
      <4> TAKE i \in 1 .. n
      <4>1. [j \in 1 .. n |-> s[j]][i] = s[i] /\ [j \in 1 .. n |-> t[j]][i] = t[i]
        OBVIOUS
      <4> QED BY <3>1, <4>1
    <3>3. \A i \in 1 .. n + 1 : s[i] = t[i]
      BY <2>0, <3>1, <3>2
    <3> QED BY <3>3
  <2>4. f \in Injection(A, B)
    <3>1. f \in [A -> B]
      BY <2>2
    <3> HIDE DEF f, A, B
    <3> QED BY <2>3, <3>1 DEF Injection, IsInjective
  <2>5. IsFiniteSet(A)
    <3> HIDE DEF f, A, B
    <3> QED BY <2>1, <2>4, FS_Injection
  <2> QED BY <2>5
<1>3. Nat \subseteq S
  <2> HIDE DEF S
  <2> QED BY <1>1, <1>2, AllNaturals
<1> QED BY <1>3

\* An iterator has finitely many combinations to take.
LEMMA CombinationsFinite ==
    ASSUME NEW n \in Nat, NEW size \in [1 .. n -> Nat]
    PROVE  IsFiniteSet(Combinations(size))
<1> DEFINE R == {0 .. (size[i] - 1) : i \in 1 .. n}
           f == [i \in 1 .. n |-> 0 .. (size[i] - 1)]
<1>1. f \in Surjection(1 .. n, R)
  BY DEF Surjection
<1>2. IsFiniteSet(R)
  <2>1. IsFiniteSet(1 .. n)
    BY FS_Interval
  <2> HIDE DEF R, f
  <2> QED BY <1>1, <2>1, FS_Surjection
<1>3. ASSUME NEW T \in R
      PROVE  IsFiniteSet(T)
  <2>1. PICK i \in 1 .. n : T = 0 .. (size[i] - 1)
    BY <1>3
  <2>2. 0 \in Int /\ size[i] - 1 \in Int
    BY <2>1
  <2> QED BY <2>1, <2>2, FS_Interval
<1>4. IsFiniteSet(UNION R)
  <2> HIDE DEF R
  <2> QED BY <1>2, <1>3, FS_UNION
<1>5. IsFiniteSet([1 .. n -> UNION R])
  <2> HIDE DEF R
  <2> QED BY <1>4, FunctionsFinite
<1>6. Combinations(size) \subseteq [1 .. n -> UNION R]
  BY DEF Combinations
<1> QED
  <2> HIDE DEF R
  <2> QED BY <1>5, <1>6, FS_Subset

\* How far the program is: the loop and the two stages around it.
Stage == [init |-> 3, iterate |-> 2, offer |-> 1, done |-> 0, failed |-> 0][pc]

\* The combinations the loop has not considered.
Left ==
    IF pc = "iterate" THEN Cardinality(Combinations(Size) \ considered) ELSE 0

\* The plans that are to be offered to the queue.
ToOffer == IF pc = "offer" THEN Len(plans) + 1 - next ELSE 0

\* A stage ends, or it leaves fewer combinations, fewer plans to offer or,
\* after them, fewer plans in the queue.
Advance ==
    \/ Stage' < Stage
    \/ /\ Stage' = Stage
       /\ \/ Left' < Left
          \/ /\ Left' = Left
             /\ \/ ToOffer' < ToOffer
                \/ ToOffer' = ToOffer /\ Cardinality(queue') < Cardinality(queue)

LEMMA Measures ==
    ASSUME clusters \in Clusters, IteratorInv, ChoiceInv
    PROVE  /\ Stage \in Nat /\ Left \in Nat /\ ToOffer \in Nat
           /\ IsFiniteSet(queue) /\ Cardinality(queue) \in Nat
           /\ pc = "iterate" => IsFiniteSet(Combinations(Size) \ considered)
<1>1. Stage \in Nat
  BY DEF IteratorInv, Stage
<1>2. ASSUME pc = "iterate"
      PROVE  IsFiniteSet(Combinations(Size) \ considered)
  <2>1. PICK n \in Nat : Slots = 1 .. n
    BY SlotsAreNumbered
  <2>2. Size \in [1 .. n -> Nat]
    BY <1>2, <2>1 DEF IteratorInv
  <2> QED BY <2>2, CombinationsFinite, FS_Difference
<1>3. Left \in Nat
  BY <1>2, FS_CardinalityType DEF Left
<1>4. ToOffer \in Nat /\ IsFiniteSet(queue)
  <2>1. Len(plans) \in Nat
    BY DEF ChoiceInv, PlansInv
  <2>2. CASE Choosing
    <3>1. next \in 1 .. (Len(plans) + 1) /\ queue \subseteq 1 .. (next - 1)
      BY <2>2 DEF ChoiceInv, QueueInv
    <3>2. IsFiniteSet(1 .. (next - 1))
      BY <2>1, <3>1, FS_Interval
    <3>3. ToOffer \in Nat
      BY <2>1, <3>1 DEF ToOffer
    <3> QED BY <3>1, <3>2, <3>3, FS_Subset
  <2>3. CASE ~ Choosing
    <3>1. queue = {} /\ pc # "offer"
      BY <2>3 DEF ChoiceInv, PlansInv, Choosing
    <3> QED BY <3>1, FS_EmptySet DEF ToOffer
  <2> QED BY <2>2, <2>3
<1> QED BY <1>1, <1>2, <1>3, <1>4, FS_CardinalityType

\* The loop of GenerateSolutions, the one that offers the plans to the queue
\* and the one that empties it end for every request and every set of places:
\* each step lowers numbers that cannot go down for ever.  And the last loop
\* finds a plan at the top of the queue until it is empty.
THEOREM GenerationProgresses ==
    Spec => /\ [](/\ Stage \in Nat /\ Left \in Nat /\ ToOffer \in Nat
                  /\ Cardinality(queue) \in Nat)
            /\ [][Advance]_vars
            /\ [](queue # {} => Minima # {})
<1> DEFINE Inv == clusters \in Clusters /\ IteratorInv /\ ChoiceInv
<1>1. ASSUME Inv, Next
      PROVE  Advance
  <2>1. CASE InitIterator \/ InitIteratorFails
    BY <2>1 DEF InitIterator, InitIteratorFails, Advance, Stage
  <2>2. CASE Consider
    <3> DEFINE L == Combinations(Size) \ considered
    <3>1. /\ pc = "iterate" /\ pc' = pc /\ Size' = Size
          /\ considered' = considered \cup {status}
      BY <2>2 DEF Consider, Size
    <3>2. status \in L
      <4>1. status \in Combinations(Size) /\ considered = {t \in Combinations(Size) : Before(t, status)}
        BY <1>1, <3>1 DEF IteratorInv, IteratorInOrder
      <4>2. \A p \in Slots : status[p] \in Int
        <5>1. PICK n \in Nat : Slots = 1 .. n
          BY SlotsAreNumbered
        <5>2. Size \in [1 .. n -> Nat]
          BY <1>1, <3>1, <5>1 DEF IteratorInv
        <5> QED BY <4>1, <5>1, <5>2, CombinationsType
      <4>3. DOMAIN status = Slots
        BY <4>1 DEF Combinations, Size
      <4>4. ~ Before(status, status)
        BY <4>2, <4>3 DEF Before
      <4> QED BY <4>1, <4>4
    <3>3. (Combinations(Size) \ considered)' = L \ {status}
      BY <3>1
    <3>4. IsFiniteSet(L) /\ Cardinality(L) \in Nat
      BY <1>1, <3>1, Measures, FS_CardinalityType
    <3>5. Cardinality(L \ {status}) = Cardinality(L) - 1
      <4> HIDE DEF L
      <4> QED BY <3>2, <3>4, FS_RemoveElement
    <3>6. Left' = Cardinality(L \ {status}) /\ Left = Cardinality(L)
      BY <3>1, <3>3 DEF Left
    <3>7. Left' < Left
      <4> HIDE DEF L
      <4> QED BY <3>4, <3>5, <3>6
    <3> QED BY <3>1, <3>7 DEF Advance, Stage
  <2>3. CASE Deduplicate \/ Return
    BY <2>3 DEF Deduplicate, Return, Advance, Stage
  <2>4. ASSUME pc = "offer", pc' = pc
        PROVE  Stage' = Stage /\ Left' = Left
    BY <2>4 DEF Stage, Left
  <2>5. CASE OfferPush \/ OfferReplace \/ OfferSkip
    <3>1. pc = "offer" /\ pc' = pc /\ Offering /\ next' = next + 1 /\ plans' = plans
      BY <2>5 DEF OfferPush, OfferReplace, OfferSkip, Offering
    <3>2. next \in Nat /\ Len(plans) \in Nat
      BY <1>1, <3>1, OfferingFacts
    <3>3. ToOffer' < ToOffer
      BY <3>1, <3>2 DEF ToOffer
    <3> QED BY <2>4, <3>1, <3>3 DEF Advance
  <2>6. CASE Extract
    <3>1. /\ pc = "offer" /\ pc' = pc /\ UNCHANGED <<next, plans>>
          /\ \E top \in Minima : queue' = queue \ {top}
      BY <2>6 DEF Extract
    <3>2. PICK top \in queue : queue' = queue \ {top}
      BY <3>1 DEF Minima
    <3>3. IsFiniteSet(queue) /\ Cardinality(queue) \in Nat
      BY <1>1, Measures
    <3>4. Cardinality(queue \ {top}) = Cardinality(queue) - 1
      BY <3>2, <3>3, FS_RemoveElement
    <3>5. Cardinality(queue') < Cardinality(queue)
      BY <3>2, <3>3, <3>4
    <3>6. ToOffer' = ToOffer
      BY <3>1 DEF ToOffer
    <3> QED BY <2>4, <3>1, <3>5, <3>6 DEF Advance
  <2> QED BY <1>1, <2>1, <2>2, <2>3, <2>5, <2>6 DEF Next
<1>2. ASSUME Inv
      PROVE  /\ Stage \in Nat /\ Left \in Nat /\ ToOffer \in Nat
             /\ Cardinality(queue) \in Nat
  BY <1>2, Measures
<1>3. ASSUME Inv, queue # {}
      PROVE  Minima # {}
  <2>1. Choosing /\ PlansInv /\ QueueInv
    BY <1>3 DEF ChoiceInv, PlansInv
  <2>2. Len(plans) \in Nat /\ DOMAIN plans = 1 .. Len(plans)
    BY <2>1 DEF PlansInv
  <2>3. queue \subseteq DOMAIN plans
    BY <2>1, <2>2 DEF QueueInv
  <2> QED BY <1>3, <2>1, <2>3, Measures, MinimaExist DEF PlansInv
<1>4. Inv /\ [Next]_vars => [Advance]_vars
  BY <1>1
<1> HIDE DEF Inv
<1>5. Spec => []Inv
  BY Invariance DEF Inv
<1> QED BY <1>2, <1>3, <1>4, <1>5, PTL DEF Spec

-----------------------------------------------------------------------------
(***************************************************************************)
(* Recursion.  A run goes from an argument to the next one until it stops; *)
(* a measure that goes down says that it does.                             *)
(***************************************************************************)

\* A function with the value of every run.
IsRun(X, stop, step, val, f) ==
    f = [x \in X |-> IF x \in stop THEN val[x] ELSE f[step[x]]]

\* The value of a run, as far as the first n arguments of it go.
IsRunUpTo(X, stop, step, val, m, n, g) ==
    g = [x \in {x \in X : m[x] < n} |-> IF x \in stop THEN val[x] ELSE g[step[x]]]

LEMMA RunsAgree ==
    ASSUME NEW X, NEW stop, NEW step, NEW val,
           NEW m \in [X -> Nat],
           \A x \in X \ stop : step[x] \in X /\ m[step[x]] < m[x],
           NEW n \in Nat, NEW g, IsRunUpTo(X, stop, step, val, m, n, g),
           NEW t \in Nat, NEW h, IsRunUpTo(X, stop, step, val, m, t, h)
    PROVE  \A x \in X : m[x] < n /\ m[x] < t => g[x] = h[x]
<1> DEFINE Bad == {x \in X : m[x] < n /\ m[x] < t /\ g[x] # h[x]}
           Heights == {m[x] : x \in Bad}
<1>1. SUFFICES ASSUME Bad # {}
               PROVE  FALSE
  OBVIOUS
<1>2. Heights \in SUBSET Nat /\ Heights # {}
  BY <1>1
<1>3. PICK z \in Heights : \A y \in Heights : z <= y
  BY <1>2, LeastNatural
<1>4. PICK x \in Bad : z = m[x]
  BY <1>3
<1>5. /\ x \in X /\ m[x] < n /\ m[x] < t /\ g[x] # h[x] /\ m[x] \in Nat
      /\ g[x] = IF x \in stop THEN val[x] ELSE g[step[x]]
      /\ h[x] = IF x \in stop THEN val[x] ELSE h[step[x]]
  BY <1>4 DEF IsRunUpTo
<1>6. x \notin stop /\ g[step[x]] # h[step[x]]
  BY <1>5
<1>7. step[x] \in X /\ m[step[x]] < m[x] /\ m[step[x]] \in Nat
  BY <1>5, <1>6
<1>8. m[step[x]] < n /\ m[step[x]] < t
  BY <1>5, <1>7
<1>9. m[step[x]] \in Heights
  BY <1>6, <1>7, <1>8
<1> QED BY <1>3, <1>4, <1>5, <1>7, <1>9

LEMMA RunsUpTo ==
    ASSUME NEW X, NEW stop, NEW step, NEW val,
           NEW m \in [X -> Nat],
           \A x \in X \ stop : step[x] \in X /\ m[step[x]] < m[x]
    PROVE  \A n \in Nat : \E g : IsRunUpTo(X, stop, step, val, m, n, g)
<1> DEFINE S == {n \in Nat : \E g : IsRunUpTo(X, stop, step, val, m, n, g)}
<1>1. 0 \in S
  <2> DEFINE g == [x \in {} |-> 0]
  <2>1. {x \in X : m[x] < 0} = {}
    OBVIOUS
  <2>2. IsRunUpTo(X, stop, step, val, m, 0, g)
    BY <2>1 DEF IsRunUpTo
  <2> QED BY <2>2
<1>2. ASSUME NEW n \in Nat, n \in S
      PROVE  n + 1 \in S
  <2>1. PICK g : IsRunUpTo(X, stop, step, val, m, n, g)
    BY <1>2
  <2> DEFINE D == {x \in X : m[x] < n + 1}
             h == [x \in D |-> IF x \in stop THEN val[x] ELSE g[step[x]]]
  <2>2. ASSUME NEW x \in D, x \notin stop
        PROVE  h[step[x]] = g[step[x]]
    <3>1. x \in X /\ m[x] \in Nat /\ m[x] < n + 1 /\ step[x] \in X /\ m[step[x]] < m[x]
          /\ m[step[x]] \in Nat
      BY <2>2
    <3>2. m[step[x]] < n
      BY <3>1
    <3>3. step[x] \in D
      BY <3>1, <3>2
    <3>4. g[step[x]] = IF step[x] \in stop THEN val[step[x]] ELSE g[step[step[x]]]
      BY <2>1, <3>1, <3>2 DEF IsRunUpTo
    <3> QED BY <3>3, <3>4
  <2>3. h = [x \in D |-> IF x \in stop THEN val[x] ELSE h[step[x]]]
    <3>1. \A x \in D : (IF x \in stop THEN val[x] ELSE g[step[x]])
                         = IF x \in stop THEN val[x] ELSE h[step[x]]
      BY <2>2
    <3> HIDE DEF D
    <3>2. h = [x \in D |-> IF x \in stop THEN val[x] ELSE g[step[x]]]
      OBVIOUS
    <3> HIDE DEF h
    <3> QED BY <3>1, <3>2
  <2>4. IsRunUpTo(X, stop, step, val, m, n + 1, h)
    <3> HIDE DEF h
    <3> QED BY <2>3 DEF IsRunUpTo
  <2> QED BY <2>4
<1> HIDE DEF S
<1>3. Nat \subseteq S
  BY <1>1, <1>2, AllNaturals
<1> QED BY <1>3 DEF S

\* There is a function with the value of every run.
LEMMA RunExists ==
    ASSUME NEW X, NEW stop, NEW step, NEW val,
           NEW m \in [X -> Nat],
           \A x \in X \ stop : step[x] \in X /\ m[step[x]] < m[x]
    PROVE  \E f : IsRun(X, stop, step, val, f)
<1> DEFINE G(n) == CHOOSE g : IsRunUpTo(X, stop, step, val, m, n, g)
           f == [x \in X |-> G(m[x] + 1)[x]]
<1>1. ASSUME NEW n \in Nat
      PROVE  IsRunUpTo(X, stop, step, val, m, n, G(n))
  BY RunsUpTo
<1> HIDE DEF G
<1>2. ASSUME NEW x \in X
      PROVE  f[x] = IF x \in stop THEN val[x] ELSE f[step[x]]
  <2>1. m[x] \in Nat /\ m[x] + 1 \in Nat /\ m[x] < m[x] + 1
    OBVIOUS
  <2>2. f[x] = IF x \in stop THEN val[x] ELSE G(m[x] + 1)[step[x]]
    BY <1>1, <2>1 DEF IsRunUpTo
  <2>3. CASE x \in stop
    BY <2>2, <2>3
  <2>4. CASE x \notin stop
    <3> DEFINE y == step[x]
    <3>1. y \in X /\ m[y] < m[x] /\ m[y] \in Nat
      BY <2>4
    <3>2. m[y] + 1 \in Nat /\ m[y] < m[y] + 1 /\ m[y] < m[x] + 1
      BY <2>1, <3>1
    <3> HIDE DEF y
    <3>3. G(m[x] + 1)[y] = G(m[y] + 1)[y]
      <4>1. IsRunUpTo(X, stop, step, val, m, m[x] + 1, G(m[x] + 1))
        BY <1>1, <2>1
      <4>2. IsRunUpTo(X, stop, step, val, m, m[y] + 1, G(m[y] + 1))
        BY <1>1, <3>2
      <4> QED BY <2>1, <3>1, <3>2, <4>1, <4>2, RunsAgree
    <3>4. f[y] = G(m[y] + 1)[y]
      BY <3>1
    <3> QED BY <2>2, <2>4, <3>3, <3>4 DEF y
  <2> QED BY <2>3, <2>4
<1>3. f = [x \in X |-> IF x \in stop THEN val[x] ELSE f[step[x]]]
  <2>1. f = [x \in X |-> f[x]]
    OBVIOUS
  <2> HIDE DEF f
  <2> QED BY <1>2, <2>1
<1> HIDE DEF f
<1> QED BY <1>3 DEF IsRun
-----------------------------------------------------------------------------
(***************************************************************************)
(* The priority queue.                                                     *)
(***************************************************************************)

\* The percolations as runs.
IsUp(h, up) ==
    up = [s \in Percolation(h) |->
            IF s[2] = 1 \/ s[1][FindParent(s[2])].key <= s[1][s[2]].key
            THEN s[1]
            ELSE up[<<Swap(s[1], FindParent(s[2]), s[2]), FindParent(s[2])>>]]

IsDown(h, down) ==
    down = [s \in Percolation(h) |->
              IF Lesser(s[1], s[2]) = {}
              THEN s[1]
              ELSE down[<<Swap(s[1], s[2], FindChild(s[1], s[2])),
                          FindChild(s[1], s[2])>>]]

\* Arrangements of the vertices in a set at n indices.
Arranged(n, K) == [1 .. n -> K]

LEMMA PercolationIs ==
    ASSUME NEW T, NEW h \in Seq(T)
    PROVE  /\ Len(h) \in Nat
           /\ h \in Arranged(Len(h), ToSet(h))
           /\ Percolation(h) = Arranged(Len(h), ToSet(h)) \X (1 .. Len(h) \cup {1})
BY DEF Percolation, ToSet, Arranged

LEMMA LengthOf ==
    ASSUME NEW n \in Nat, NEW K, NEW g \in Arranged(n, K)
    PROVE  /\ g \in Seq(K) /\ Len(g) = n /\ DOMAIN g = 1 .. n
           /\ \A i \in 1 .. n : g[i] \in K
BY DEF Arranged

LEMMA Swapped ==
    ASSUME NEW n \in Nat, NEW K, NEW g \in Arranged(n, K),
           NEW x \in 1 .. n, NEW y \in 1 .. n
    PROVE  /\ Swap(g, x, y) \in Arranged(n, K)
           /\ Swap(g, x, y)[x] = g[y] /\ Swap(g, x, y)[y] = g[x]
           /\ \A i \in 1 .. n : i # x /\ i # y => Swap(g, x, y)[i] = g[i]
           /\ ToSet(Swap(g, x, y)) = ToSet(g)
<1> DEFINE s == Swap(g, x, y)
<1>1. DOMAIN g = 1 .. n /\ g[x] \in K /\ g[y] \in K
  BY DEF Arranged
<1>2. /\ s \in Arranged(n, K)
      /\ s[x] = g[y] /\ s[y] = g[x]
      /\ \A i \in 1 .. n : i # x /\ i # y => s[i] = g[i]
  BY <1>1 DEF Swap, Arranged
<1>3. DOMAIN s = 1 .. n
  BY <1>2 DEF Arranged
<1> HIDE DEF s
<1>4. ToSet(s) = ToSet(g)
  <2>1. ASSUME NEW i \in 1 .. n
        PROVE  s[i] \in ToSet(g)
    BY <1>1, <1>2 DEF ToSet
  <2>2. ASSUME NEW i \in 1 .. n
        PROVE  g[i] \in ToSet(s)
    BY <1>2, <1>3 DEF ToSet
  <2> QED BY <1>1, <1>3, <2>1, <2>2 DEF ToSet
<1> QED BY <1>2, <1>4 DEF s

LEMMA ParentOf ==
    ASSUME NEW n \in Nat, NEW x \in 2 .. n
    PROVE  FindParent(x) \in 1 .. n /\ FindParent(x) < x
BY DEF FindParent

LEMMA UpIsRun ==
    ASSUME NEW T, NEW h \in Seq(T), NEW i
    PROVE  \E up : IsUp(h, up) /\ PercolateUp(h, i) = up[<<h, i>>]
<1> DEFINE X == Percolation(h)
           stop == {s \in X : s[2] = 1 \/ s[1][FindParent(s[2])].key <= s[1][s[2]].key}
           step == [s \in X |-> <<Swap(s[1], FindParent(s[2]), s[2]), FindParent(s[2])>>]
           val == [s \in X |-> s[1]]
           m == [s \in X |-> s[2]]
           n == Len(h)
           K == ToSet(h)
<1>1. n \in Nat /\ X = Arranged(n, K) \X (1 .. n \cup {1})
  BY PercolationIs
<1>2. m \in [X -> Nat]
  BY <1>1
<1>3. ASSUME NEW s \in X \ stop
      PROVE  step[s] \in X /\ m[step[s]] < m[s]
  <2>1. s[1] \in Arranged(n, K) /\ s[2] \in 2 .. n /\ s \in X
    BY <1>1
  <2>2. FindParent(s[2]) \in 1 .. n /\ FindParent(s[2]) < s[2]
    BY <1>1, <2>1, ParentOf
  <2>3. Swap(s[1], FindParent(s[2]), s[2]) \in Arranged(n, K)
    BY <1>1, <2>1, <2>2, Swapped
  <2>4. step[s] \in X /\ step[s][2] = FindParent(s[2])
    BY <1>1, <2>1, <2>2, <2>3
  <2> QED BY <2>1, <2>2, <2>4
<1> HIDE DEF X, stop, step, val, m
<1>4. PICK up : IsRun(X, stop, step, val, up)
  BY <1>2, <1>3, RunExists
<1>5. IsUp(h, up)
  <2>1. ASSUME NEW s \in X
        PROVE  (IF s \in stop THEN val[s] ELSE up[step[s]])
                 = IF s[2] = 1 \/ s[1][FindParent(s[2])].key <= s[1][s[2]].key
                   THEN s[1]
                   ELSE up[<<Swap(s[1], FindParent(s[2]), s[2]), FindParent(s[2])>>]
    BY DEF stop, val, step
  <2> QED BY <1>4, <2>1 DEF IsUp, IsRun, X
<1>6. \E f : f = [s \in Percolation(h) |->
            IF s[2] = 1 \/ s[1][FindParent(s[2])].key <= s[1][s[2]].key
            THEN s[1]
            ELSE f[<<Swap(s[1], FindParent(s[2]), s[2]), FindParent(s[2])>>]]
  BY <1>5 DEF IsUp
<1> QED BY <1>6, Zenon DEF PercolateUp, IsUp

\* Keys can be compared.
Keyed(K) == \A t \in K : t.key \in Int

\* A heap, but for the vertex at an index, which may be less than its parent.
HeapButFor(n, g, x) ==
    /\ \A i \in 2 .. n : i # x => g[FindParent(i)].key <= g[i].key
    /\ \A i \in 2 .. n : x # 1 /\ FindParent(i) = x => g[FindParent(x)].key <= g[i].key

\* A heap, but for the vertex at an index, which may be greater than children.
HeapButBelow(n, g, x) ==
    /\ \A i \in 2 .. n : FindParent(i) # x => g[FindParent(i)].key <= g[i].key
    /\ \A i \in 2 .. n : x # 1 /\ FindParent(i) = x => g[FindParent(x)].key <= g[i].key

\* What a percolation makes of g, if it was almost a heap.
Percolated(n, K, g, almost, r) ==
    /\ r \in Arranged(n, K)
    /\ ToSet(r) = ToSet(g)
    /\ almost => IsHeap(r)

LEMMA HeapIs ==
    ASSUME NEW n \in Nat, NEW K, NEW g \in Arranged(n, K)
    PROVE  IsHeap(g) <=> \A i \in 2 .. n : g[FindParent(i)].key <= g[i].key
BY LengthOf DEF IsHeap

LEMMA UpStep ==
    ASSUME NEW n \in Nat, NEW K, Keyed(K), NEW g \in Arranged(n, K), NEW x \in 2 .. n,
           HeapButFor(n, g, x), ~ (g[FindParent(x)].key <= g[x].key)
    PROVE  HeapButFor(n, Swap(g, FindParent(x), x), FindParent(x))
<1> DEFINE p == FindParent(x)
           s == Swap(g, p, x)
<1>1. p \in 1 .. n /\ p < x /\ x \in 1 .. n
  BY ParentOf
<1>2. \A i \in 1 .. n : g[i].key \in Int
  BY LengthOf DEF Keyed
<1>3. /\ s[p] = g[x] /\ s[x] = g[p]
      /\ \A i \in 1 .. n : i # p /\ i # x => s[i] = g[i]
  <2> HIDE DEF p
  <2> QED BY <1>1, Swapped
<1>4. \A i \in 2 .. n : i \in 1 .. n /\ FindParent(i) \in 1 .. n /\ FindParent(i) < i
  BY ParentOf
<1>5. g[x].key <= g[p].key
  BY <1>1, <1>2
<1> HIDE DEF p, s
<1>6. ASSUME NEW i \in 2 .. n, i # p
      PROVE  s[FindParent(i)].key <= s[i].key
  <2>1. CASE i = x
    BY <1>3, <1>5, <2>1 DEF p
  <2>2. CASE i # x /\ FindParent(i) = x
    BY <1>3, <1>4, <1>6, <2>2 DEF HeapButFor, p
  <2>3. CASE i # x /\ FindParent(i) = p
    <3>1. g[p].key <= g[i].key /\ s[i] = g[i] /\ s[p] = g[x]
      BY <1>3, <1>4, <1>6, <2>3 DEF HeapButFor
    <3> QED BY <1>1, <1>2, <1>4, <1>5, <2>3, <3>1
  <2>4. CASE i # x /\ FindParent(i) # x /\ FindParent(i) # p
    <3>1. g[FindParent(i)].key <= g[i].key
      BY <2>4 DEF HeapButFor
    <3> QED BY <1>3, <1>4, <1>6, <2>4, <3>1
  <2> QED BY <2>1, <2>2, <2>3, <2>4
<1>7. ASSUME NEW i \in 2 .. n, p # 1, FindParent(i) = p
      PROVE  s[FindParent(p)].key <= s[i].key
  <2>1. p \in 2 .. n /\ p # x /\ FindParent(p) \in 1 .. n /\ FindParent(p) < p
    BY <1>1, <1>4, <1>7
  <2>2. g[FindParent(p)].key <= g[p].key
    BY <2>1 DEF HeapButFor
  <2>3. s[FindParent(p)] = g[FindParent(p)]
    BY <1>1, <1>3, <2>1
  <2>4. CASE i = x
    BY <1>3, <2>2, <2>3, <2>4
  <2>5. CASE i # x
    <3>1. g[p].key <= g[i].key /\ s[i] = g[i]
      BY <1>3, <1>4, <1>7, <2>5 DEF HeapButFor
    <3> QED BY <1>1, <1>2, <1>4, <2>1, <2>2, <2>3, <3>1
  <2> QED BY <2>4, <2>5
<1> QED BY <1>6, <1>7 DEF HeapButFor, p, s

LEMMA UpPercolates ==
    ASSUME NEW T, NEW h \in Seq(T), Keyed(ToSet(h)), NEW up, IsUp(h, up)
    PROVE  \A x \in 1 .. Len(h), g \in Arranged(Len(h), ToSet(h)) :
              Percolated(Len(h), ToSet(h), g, HeapButFor(Len(h), g, x), up[<<g, x>>])
<1> DEFINE n == Len(h)
           K == ToSet(h)
           Good(g, x) == Percolated(n, K, g, HeapButFor(n, g, x), up[<<g, x>>])
           Bad == {x \in 1 .. n : \E g \in Arranged(n, K) : ~ Good(g, x)}
<1>1. n \in Nat /\ Percolation(h) = Arranged(n, K) \X (1 .. n \cup {1})
  BY PercolationIs
<1>2. SUFFICES ASSUME Bad # {}
               PROVE  FALSE
  OBVIOUS
<1>3. Bad \in SUBSET Nat
  BY <1>1
<1>4. PICK x \in Bad : \A y \in Bad : x <= y
  BY <1>2, <1>3, LeastNatural
<1>5. PICK g \in Arranged(n, K) : ~ Good(g, x)
  BY <1>4
<1>6. x \in 1 .. n
  BY <1>4
<1> DEFINE p == FindParent(x)
           s == Swap(g, p, x)
<1>7. up[<<g, x>>] = IF x = 1 \/ g[p].key <= g[x].key THEN g ELSE up[<<s, p>>]
  <2> HIDE DEF n, K
  <2> DEFINE a == <<g, x>>
  <2>1. a \in Percolation(h) /\ a[1] = g /\ a[2] = x
    BY <1>1, <1>6
  <2> HIDE DEF a
  <2>2. up[a] = IF a[2] = 1 \/ a[1][FindParent(a[2])].key <= a[1][a[2]].key
                THEN a[1]
                ELSE up[<<Swap(a[1], FindParent(a[2]), a[2]), FindParent(a[2])>>]
    BY <2>1 DEF IsUp
  <2> QED BY <2>1, <2>2 DEF a
<1> HIDE DEF Bad, n, K
<1>8. CASE x = 1 \/ g[p].key <= g[x].key
  <2>1. up[<<g, x>>] = g
    BY <1>7, <1>8
  <2>2. HeapButFor(n, g, x) => IsHeap(g)
    <3>1. SUFFICES ASSUME HeapButFor(n, g, x), NEW i \in 2 .. n
                   PROVE  g[FindParent(i)].key <= g[i].key
      BY <1>1, HeapIs
    <3> QED BY <1>8, <3>1 DEF HeapButFor
  <2> QED BY <1>5, <2>1, <2>2 DEF Percolated
<1>9. CASE ~ (x = 1 \/ g[p].key <= g[x].key)
  <2>1. x \in 2 .. n
    BY <1>1, <1>6, <1>9
  <2>2. p \in 1 .. n /\ p < x
    BY <1>1, <2>1, ParentOf
  <2>3. s \in Arranged(n, K) /\ ToSet(s) = ToSet(g)
    <3>1. n \in Nat
      BY <1>1
    <3> HIDE DEF p
    <3>2. Swap(g, p, x) \in Arranged(n, K) /\ ToSet(Swap(g, p, x)) = ToSet(g)
      BY <1>6, <2>2, <3>1, Swapped
    <3> QED BY <3>2
  <2>4. p \notin Bad
    BY <1>1, <1>4, <1>6, <2>2
  <2>5. Good(s, p)
    BY <2>2, <2>3, <2>4 DEF Bad
  <2>6. up[<<g, x>>] = up[<<s, p>>]
    BY <1>7, <1>9
  <2>7. HeapButFor(n, g, x) => HeapButFor(n, s, p)
    BY <1>1, <1>9, <2>1, UpStep DEF K
  <2> QED BY <1>5, <2>3, <2>5, <2>6, <2>7 DEF Percolated
<1> QED BY <1>8, <1>9

LEMMA MinOfTwo ==
    ASSUME NEW a \in Int, NEW b \in Int, a <= b
    PROVE  Min({a, b}) = a
<1>1. \A x : (x \in {a, b} /\ \A y \in {a, b} : x <= y) => x = a
  OBVIOUS
<1>2. a \in {a, b} /\ \A y \in {a, b} : a <= y
  OBVIOUS
<1> QED BY <1>1, <1>2 DEF Min

LEMMA ChildFound ==
    ASSUME NEW n \in Nat, NEW K, Keyed(K), NEW g \in Arranged(n, K),
           NEW x \in 1 .. n \cup {1}, Lesser(g, x) # {}
    PROVE  LET c == FindChild(g, x)
           IN  /\ x \in 1 .. n /\ c \in 2 .. n /\ FindParent(c) = x /\ x < c
               /\ g[c].key <= g[x].key
               /\ \A i \in 2 .. n : FindParent(i) = x => g[c].key <= g[i].key
<1> DEFINE c == FindChild(g, x)
           l == 2 * x
           r == 2 * x + 1
           S == Lesser(g, x)
<1>1. Len(g) = n /\ x \in Nat /\ x > 0
  BY LengthOf
<1>2. S = {i \in {l, r} : i <= n /\ g[i].key <= g[x].key}
  BY <1>1 DEF Lesser
<1>3. x \in 1 .. n /\ l \in Int /\ r \in Int /\ l < r /\ l \in 2 .. n
  BY <1>1, <1>2
<1>4. \A i \in 1 .. n : g[i].key \in Int
  BY LengthOf DEF Keyed
<1>5. \A i \in 2 .. n : FindParent(i) = x => i = l \/ i = r
  BY <1>1 DEF FindParent
<1>6. FindParent(l) = x /\ FindParent(r) = x /\ x < l /\ x < r
  BY <1>1 DEF FindParent
<1>7. c = IF Cardinality(S) = 2 /\ g[l].key >= g[r].key THEN r ELSE Min(S)
  BY DEF FindChild
<1> HIDE DEF l, r, S, c
<1>8. CASE S = {l, r}
  <2>1. Cardinality(S) = 2
    <3>1. IsFiniteSet({l}) /\ Cardinality({l}) = 1
      BY FS_Singleton
    <3>2. Cardinality({l} \cup {r}) = 2
      <4>1. r \notin {l}
        BY <1>3
      <4> QED BY <3>1, <4>1, FS_AddElement
    <3>3. {l} \cup {r} = {l, r}
      OBVIOUS
    <3> QED BY <1>8, <3>2, <3>3
  <2>2. Min(S) = l
    BY <1>3, <1>8, MinOfTwo
  <2>3. r \in 1 .. n /\ l \in 1 .. n /\ g[l].key <= g[x].key /\ g[r].key <= g[x].key
    BY <1>2, <1>3, <1>8
  <2>4. c = IF g[l].key >= g[r].key THEN r ELSE l
    BY <1>7, <2>1, <2>2
  <2>5. (c = l \/ c = r) /\ g[c].key <= g[l].key /\ g[c].key <= g[r].key
    BY <1>4, <2>3, <2>4
  <2>6. c \in 2 .. n /\ FindParent(c) = x /\ x < c /\ g[c].key <= g[x].key
    BY <1>1, <1>3, <1>6, <2>3, <2>5
  <2> QED BY <1>3, <1>5, <2>5, <2>6 DEF c
<1>9. ASSUME NEW t, S = {t}
      PROVE  c = t /\ t \in {l, r} /\ t <= n /\ g[t].key <= g[x].key /\ t \in Int
  <2>1. t \in S
    BY <1>9
  <2>2. t \in {l, r} /\ t <= n /\ g[t].key <= g[x].key /\ t \in Int
    BY <1>2, <1>3, <2>1
  <2>3. Cardinality(S) = 1
    BY <1>9, FS_Singleton
  <2>4. Min({t, t}) = t /\ {t, t} = {t}
    BY <2>2, MinOfTwo
  <2> QED BY <1>7, <1>9, <2>2, <2>3, <2>4
<1>10. CASE \E t : S = {t}
  <2>1. PICK t : S = {t}
    BY <1>10
  <2>2. c = t /\ t \in {l, r} /\ t <= n /\ g[t].key <= g[x].key /\ t \in Int
    BY <1>9, <2>1
  <2>3. c \in 2 .. n /\ FindParent(c) = x /\ x < c
    BY <1>1, <1>3, <1>6, <2>2
  <2>4. ASSUME NEW i \in 2 .. n, FindParent(i) = x
        PROVE  g[c].key <= g[i].key
    <3>1. CASE i = c
      BY <1>1, <1>4, <2>3, <3>1
    <3>2. CASE i # c
      <4>1. i \notin S /\ i \in {l, r} /\ i <= n /\ i \in 1 .. n
        BY <1>5, <2>1, <2>2, <2>4, <3>2
      <4>2. ~ (g[i].key <= g[x].key)
        BY <1>2, <4>1
      <4> QED BY <1>3, <1>4, <2>2, <2>3, <4>1, <4>2
    <3> QED BY <3>1, <3>2
  <2> QED BY <1>3, <2>2, <2>3, <2>4 DEF c
<1>11. S \subseteq {l, r} /\ S # {}
  BY <1>2 DEF S
<1> QED BY <1>8, <1>10, <1>11

LEMMA DownIsRun ==
    ASSUME NEW T, NEW h \in Seq(T), Keyed(ToSet(h)), NEW i
    PROVE  \E down : IsDown(h, down) /\ PercolateDown(h, i) = down[<<h, i>>]
<1> DEFINE X == Percolation(h)
           n == Len(h)
           K == ToSet(h)
           stop == {s \in X : Lesser(s[1], s[2]) = {}}
           step == [s \in X |-> <<Swap(s[1], s[2], FindChild(s[1], s[2])),
                                  FindChild(s[1], s[2])>>]
           val == [s \in X |-> s[1]]
           m == [s \in X |-> n + 1 - s[2]]
<1>1. n \in Nat /\ X = Arranged(n, K) \X (1 .. n \cup {1})
  BY PercolationIs
<1>2. m \in [X -> Nat]
  BY <1>1
<1>3. ASSUME NEW s \in X \ stop
      PROVE  step[s] \in X /\ m[step[s]] < m[s]
  <2> DEFINE g == s[1]
             x == s[2]
             c == FindChild(g, x)
  <2>1. g \in Arranged(n, K) /\ x \in 1 .. n \cup {1} /\ Lesser(g, x) # {} /\ s \in X
    BY <1>1
  <2>2. x \in 1 .. n /\ c \in 2 .. n /\ x < c
    <3> HIDE DEF g, x, n, K
    <3> QED BY <1>1, <2>1, ChildFound DEF K
  <2>3. Swap(g, x, c) \in Arranged(n, K)
    <3> HIDE DEF g, x, c, n, K
    <3>1. c \in 1 .. n
      BY <1>1, <2>2
    <3> QED BY <1>1, <2>1, <2>2, <3>1, Swapped
  <2>4. step[s] = <<Swap(g, x, c), c>>
    BY <2>1
  <2> HIDE DEF g, c, step
  <2>5. step[s] \in X /\ step[s][2] = c
    BY <1>1, <2>2, <2>3, <2>4
  <2>6. m[step[s]] = n + 1 - c /\ m[s] = n + 1 - x
    BY <2>1, <2>5
  <2> QED BY <1>1, <2>2, <2>5, <2>6
<1> HIDE DEF X, stop, step, val, m
<1>4. PICK down : IsRun(X, stop, step, val, down)
  BY <1>2, <1>3, RunExists
<1>5. IsDown(h, down)
  <2>1. ASSUME NEW s \in X
        PROVE  (IF s \in stop THEN val[s] ELSE down[step[s]])
                 = IF Lesser(s[1], s[2]) = {}
                   THEN s[1]
                   ELSE down[<<Swap(s[1], s[2], FindChild(s[1], s[2])),
                               FindChild(s[1], s[2])>>]
    BY DEF stop, val, step
  <2> QED BY <1>4, <2>1 DEF IsDown, IsRun, X
<1>6. \E f : f = [s \in Percolation(h) |->
              IF Lesser(s[1], s[2]) = {}
              THEN s[1]
              ELSE f[<<Swap(s[1], s[2], FindChild(s[1], s[2])),
                       FindChild(s[1], s[2])>>]]
  BY <1>5 DEF IsDown
<1> QED BY <1>6, Zenon DEF PercolateDown, IsDown

LEMMA DownStep ==
    ASSUME NEW n \in Nat, NEW K, Keyed(K), NEW g \in Arranged(n, K), NEW x \in 1 .. n,
           NEW c \in 2 .. n, FindParent(c) = x, x < c, g[c].key <= g[x].key,
           \A i \in 2 .. n : FindParent(i) = x => g[c].key <= g[i].key,
           HeapButBelow(n, g, x)
    PROVE  HeapButBelow(n, Swap(g, x, c), c)
<1> DEFINE s == Swap(g, x, c)
<1>1. c \in 1 .. n
  OBVIOUS
<1>2. \A i \in 2 .. n : i \in 1 .. n /\ FindParent(i) \in 1 .. n /\ FindParent(i) < i
  BY ParentOf
<1>3. /\ s[x] = g[c] /\ s[c] = g[x]
      /\ \A i \in 1 .. n : i # x /\ i # c => s[i] = g[i]
  BY <1>1, Swapped
<1> HIDE DEF s
<1>4. ASSUME NEW i \in 2 .. n, FindParent(i) # c
      PROVE  s[FindParent(i)].key <= s[i].key
  <2>1. CASE i = c
    BY <1>3, <2>1
  <2>2. CASE i # c /\ FindParent(i) = x
    <3>1. i # x
      BY <1>2, <2>2
    <3> QED BY <1>2, <1>3, <2>2, <3>1
  <2>3. CASE i = x
    <3>1. FindParent(i) \in 1 .. n /\ FindParent(i) # x /\ FindParent(i) # c /\ x # 1
      BY <1>2, <2>3
    <3>2. g[FindParent(x)].key <= g[c].key
      BY <3>1 DEF HeapButBelow
    <3> QED BY <1>3, <2>3, <3>1, <3>2
  <2>4. CASE i # c /\ i # x /\ FindParent(i) # x
    <3>1. g[FindParent(i)].key <= g[i].key
      BY <2>4 DEF HeapButBelow
    <3> QED BY <1>2, <1>3, <1>4, <2>4, <3>1
  <2> QED BY <2>1, <2>2, <2>3, <2>4
<1>5. ASSUME NEW i \in 2 .. n, FindParent(i) = c
      PROVE  s[FindParent(c)].key <= s[i].key
  <2>1. i # c /\ i # x /\ FindParent(i) # x
    BY <1>2, <1>5
  <2>2. g[c].key <= g[i].key
    BY <1>5, <2>1 DEF HeapButBelow
  <2> QED BY <1>2, <1>3, <2>1, <2>2
<1> QED BY <1>4, <1>5 DEF HeapButBelow, s

LEMMA DownPercolates ==
    ASSUME NEW T, NEW h \in Seq(T), Keyed(ToSet(h)), NEW down, IsDown(h, down)
    PROVE  \A x \in 1 .. Len(h) \cup {1}, g \in Arranged(Len(h), ToSet(h)) :
              Percolated(Len(h), ToSet(h), g, HeapButBelow(Len(h), g, x), down[<<g, x>>])
<1> DEFINE n == Len(h)
           K == ToSet(h)
           Good(g, x) == Percolated(n, K, g, HeapButBelow(n, g, x), down[<<g, x>>])
           Bad == {y \in Nat : n + 1 - y \in 1 .. n \cup {1}
                               /\ \E g \in Arranged(n, K) : ~ Good(g, n + 1 - y)}
<1>1. n \in Nat /\ Percolation(h) = Arranged(n, K) \X (1 .. n \cup {1})
  BY PercolationIs
<1>2. SUFFICES Bad = {}
  <2>1. SUFFICES ASSUME NEW x \in 1 .. n \cup {1}, NEW g \in Arranged(n, K), ~ Good(g, x)
                 PROVE  FALSE
    OBVIOUS
  <2>2. n + 1 - x \in Nat /\ n + 1 - (n + 1 - x) = x
    BY <1>1
  <2> QED BY <1>2, <2>1, <2>2
<1>3. SUFFICES ASSUME Bad # {}
               PROVE  FALSE
  OBVIOUS
<1>4. PICK z \in Bad : \A y \in Bad : z <= y
  BY <1>3, LeastNatural
<1> DEFINE x == n + 1 - z
<1>5. x \in 1 .. n \cup {1} /\ z \in Nat
  BY <1>4
<1>6. PICK g \in Arranged(n, K) : ~ Good(g, x)
  BY <1>4
<1> DEFINE c == FindChild(g, x)
           s == Swap(g, x, c)
<1>7. down[<<g, x>>] = IF Lesser(g, x) = {} THEN g ELSE down[<<s, c>>]
  <2> HIDE DEF n, K, x
  <2> DEFINE a == <<g, x>>
  <2>1. a \in Percolation(h) /\ a[1] = g /\ a[2] = x
    BY <1>1, <1>5
  <2> HIDE DEF a
  <2>2. down[a] = IF Lesser(a[1], a[2]) = {}
                  THEN a[1]
                  ELSE down[<<Swap(a[1], a[2], FindChild(a[1], a[2])),
                              FindChild(a[1], a[2])>>]
    BY <2>1 DEF IsDown
  <2> QED BY <2>1, <2>2 DEF a
<1> HIDE DEF Bad, n, K
<1>8. CASE Lesser(g, x) = {}
  <2>1. down[<<g, x>>] = g
    BY <1>7, <1>8
  <2>2. HeapButBelow(n, g, x) => IsHeap(g)
    <3>1. SUFFICES ASSUME HeapButBelow(n, g, x), NEW i \in 2 .. n
                   PROVE  g[FindParent(i)].key <= g[i].key
      BY <1>1, HeapIs
    <3>2. CASE FindParent(i) # x
      BY <3>1, <3>2 DEF HeapButBelow
    <3>3. CASE FindParent(i) = x
      <4>1. i \in {2 * x, 2 * x + 1} /\ i <= Len(g)
        BY <1>1, <1>5, <3>3, LengthOf DEF FindParent
      <4>2. ~ (g[i].key <= g[x].key)
        BY <1>8, <4>1 DEF Lesser
      <4>3. i \in 1 .. n /\ x \in 1 .. n
        BY <1>1, <3>3, ParentOf
      <4>4. g[i].key \in Int /\ g[x].key \in Int
        BY <1>1, <4>3, LengthOf DEF Keyed, K
      <4> QED BY <3>3, <4>2, <4>4
    <3> QED BY <3>2, <3>3
  <2> QED BY <1>6, <2>1, <2>2 DEF Percolated
<1>9. CASE Lesser(g, x) # {}
  <2>1. /\ x \in 1 .. n /\ c \in 2 .. n /\ FindParent(c) = x /\ x < c
        /\ g[c].key <= g[x].key
        /\ \A i \in 2 .. n : FindParent(i) = x => g[c].key <= g[i].key
    <3> HIDE DEF x
    <3> QED BY <1>1, <1>5, <1>9, ChildFound DEF K
  <2>2. c \in 1 .. n
    BY <1>1, <2>1
  <2> HIDE DEF c
  <2>3. s \in Arranged(n, K) /\ ToSet(s) = ToSet(g)
    <3> HIDE DEF x
    <3> QED BY <1>1, <2>1, <2>2, Swapped
  <2>4. n + 1 - c \in Nat /\ n + 1 - (n + 1 - c) = c /\ ~ (z <= n + 1 - c)
    BY <1>1, <1>5, <2>1, <2>2
  <2>5. n + 1 - c \notin Bad
    BY <1>4, <2>4
  <2> HIDE DEF s, Good, x
  <2>6. Good(s, c)
    BY <2>2, <2>3, <2>4, <2>5 DEF Bad
  <2>7. down[<<g, x>>] = down[<<s, c>>]
    BY <1>7, <1>9 DEF c, s
  <2>8. HeapButBelow(n, g, x) => HeapButBelow(n, s, c)
    BY <1>1, <2>1, DownStep DEF K, s
  <2> QED BY <1>6, <2>3, <2>6, <2>7, <2>8 DEF Percolated, Good
<1> QED BY <1>8, <1>9

\* After an insertion the vertices are those before and the new one, and a
\* heap is still one.
LEMMA InsertProperties ==
    ASSUME NEW T, Keyed(T), NEW h \in Seq(T), NEW v \in T
    PROVE  /\ Insert(h, v) \in Seq(T)
           /\ Len(Insert(h, v)) = Len(h) + 1
           /\ ToSet(Insert(h, v)) = ToSet(h) \cup {v}
           /\ IsHeap(h) => IsHeap(Insert(h, v))
<1> DEFINE a == Append(h, v)
           n == Len(h)
           K == ToSet(a)
           r == Insert(h, v)
<1>1. /\ n \in Nat /\ a \in Seq(T) /\ Len(a) = n + 1
      /\ \A i \in 1 .. n : a[i] = h[i]
      /\ a[n + 1] = v
      /\ DOMAIN a = 1 .. n + 1 /\ DOMAIN h = 1 .. n
  OBVIOUS
<1> HIDE DEF a, n
<1>2. ToSet(a) = ToSet(h) \cup {v}
  <2>1. \A i \in 1 .. n + 1 : i \in 1 .. n \/ i = n + 1
    BY <1>1
  <2>2. 1 .. n \subseteq 1 .. n + 1 /\ n + 1 \in 1 .. n + 1
    BY <1>1
  <2> QED BY <1>1, <2>1, <2>2 DEF ToSet
<1>3. \A i \in 1 .. n : h[i] \in T
  BY DEF n
<1>4. K \subseteq T
  BY <1>1, <1>2, <1>3 DEF ToSet
<1>5. Keyed(K)
  BY <1>4 DEF Keyed
<1>6. a \in Arranged(n + 1, K)
  BY <1>1, PercolationIs
<1>7. PICK up : IsUp(a, up) /\ PercolateUp(a, n + 1) = up[<<a, n + 1>>]
  BY <1>1, UpIsRun
<1>8. r = up[<<a, n + 1>>]
  BY <1>7 DEF Insert, a, n
<1>9. Percolated(n + 1, K, a, HeapButFor(n + 1, a, n + 1), r)
  <2>1. n + 1 \in 1 .. Len(a)
    BY <1>1
  <2> HIDE DEF r, K
  <2> QED BY <1>1, <1>5, <1>6, <1>7, <1>8, <2>1, UpPercolates DEF K
<1> HIDE DEF K, r
<1>10. r \in Seq(T) /\ Len(r) = n + 1
  <2>1. r \in Arranged(n + 1, K) /\ n + 1 \in Nat
    BY <1>1, <1>9 DEF Percolated
  <2>2. r \in Seq(K) /\ Len(r) = n + 1
    BY <2>1, LengthOf
  <2>3. Seq(K) \subseteq Seq(T)
    BY <1>4
  <2> QED BY <2>2, <2>3
<1>11. ToSet(r) = ToSet(h) \cup {v}
  BY <1>2, <1>9 DEF Percolated
<1>12. IsHeap(h) => HeapButFor(n + 1, a, n + 1)
  <2>1. SUFFICES ASSUME IsHeap(h), NEW i \in 2 .. n + 1
                 PROVE  /\ i # n + 1 => a[FindParent(i)].key <= a[i].key
                        /\ FindParent(i) # n + 1
    BY DEF HeapButFor
  <2>2. FindParent(i) \in 1 .. n + 1 /\ FindParent(i) < i
    BY <1>1, ParentOf
  <2>3. CASE i # n + 1
    <3>1. i \in 2 .. n /\ FindParent(i) \in 1 .. n
      BY <1>1, <2>2, <2>3
    <3> QED BY <1>1, <2>1, <2>2, <3>1 DEF IsHeap, n
  <2> QED BY <1>1, <2>2, <2>3
<1>13. IsHeap(h) => IsHeap(r)
  BY <1>9, <1>12 DEF Percolated
<1> QED BY <1>10, <1>11, <1>13 DEF r, n

\* After an extraction all vertices but the one at the top are there, and a
\* heap is still one.
LEMMA RestProperties ==
    ASSUME NEW T, Keyed(T), NEW h \in Seq(T), h # <<>>
    PROVE  /\ Rest(h) \in Seq(T)
           /\ Len(Rest(h)) = Len(h) - 1
           /\ ToSet(Rest(h)) \subseteq ToSet(h)
           /\ ToSet(h) \subseteq ToSet(Rest(h)) \cup {h[1]}
           /\ IsHeap(h) => IsHeap(Rest(h))
<1> DEFINE n == Len(h) - 1
           f == [h EXCEPT ![1] = h[Len(h)]]
           b == SubSeq(f, 1, n)
           K == ToSet(b)
           r == Rest(h)
<1>1. /\ n \in Nat /\ Len(h) = n + 1 /\ DOMAIN h = 1 .. n + 1
      /\ \A i \in 1 .. n + 1 : h[i] \in T
  OBVIOUS
<1>2. /\ f \in Seq(T) /\ Len(f) = n + 1 /\ f[1] = h[n + 1]
      /\ \A i \in 2 .. n + 1 : f[i] = h[i]
  OBVIOUS
<1>3. /\ b \in Seq(T) /\ Len(b) = n /\ DOMAIN b = 1 .. n
      /\ \A i \in 1 .. n : b[i] = f[i]
  <2> HIDE DEF f, n
  <2> QED BY <1>1, <1>2
<1> HIDE DEF n, f, b
<1>4. K \subseteq T
  BY <1>3 DEF ToSet
<1>5. Keyed(K)
  BY <1>4 DEF Keyed
<1>6. b \in Arranged(n, K)
  BY <1>3, PercolationIs
<1>7. PICK down : IsDown(b, down) /\ PercolateDown(b, 1) = down[<<b, 1>>]
  BY <1>3, <1>5, DownIsRun
<1>8. r = down[<<b, 1>>]
  BY <1>7 DEF Rest, b, f, n
<1>9. Percolated(n, K, b, HeapButBelow(n, b, 1), r)
  <2> HIDE DEF r, K
  <2> QED BY <1>3, <1>5, <1>6, <1>7, <1>8, DownPercolates DEF K
<1> HIDE DEF K, r
<1>10. r \in Seq(T) /\ Len(r) = n
  <2>1. r \in Arranged(n, K)
    BY <1>9 DEF Percolated
  <2>2. r \in Seq(K) /\ Len(r) = n
    BY <1>1, <2>1, LengthOf
  <2>3. Seq(K) \subseteq Seq(T)
    BY <1>4
  <2> QED BY <2>2, <2>3
<1>11. ToSet(r) = K
  BY <1>9 DEF Percolated, K
<1>12. ASSUME NEW i \in 1 .. n
       PROVE  b[i] \in ToSet(h)
  <2>1. i = 1 \/ i \in 2 .. n + 1
    BY <1>1
  <2>2. i \in 1 .. n + 1 /\ n + 1 \in 1 .. n + 1
    BY <1>1
  <2> QED BY <1>1, <1>2, <1>3, <2>1, <2>2 DEF ToSet
<1>13. ASSUME NEW i \in 1 .. n + 1, i # 1
       PROVE  h[i] \in K
  <2>1. CASE i = n + 1
    <3>1. 1 \in 1 .. n
      BY <1>1, <1>13, <2>1
    <3> QED BY <1>2, <1>3, <2>1, <3>1 DEF K, ToSet
  <2>2. CASE i # n + 1
    <3>1. i \in 1 .. n /\ i \in 2 .. n + 1
      BY <1>1, <1>13, <2>2
    <3> QED BY <1>2, <1>3, <3>1 DEF K, ToSet
  <2> QED BY <2>1, <2>2
<1>14. K \subseteq ToSet(h)
  BY <1>3, <1>12 DEF K, ToSet
<1>15. ToSet(h) \subseteq K \cup {h[1]}
  BY <1>1, <1>13 DEF ToSet
<1>16. IsHeap(h) => HeapButBelow(n, b, 1)
  <2>1. SUFFICES ASSUME IsHeap(h), NEW i \in 2 .. n, FindParent(i) # 1
                 PROVE  b[FindParent(i)].key <= b[i].key
    BY DEF HeapButBelow
  <2>2. FindParent(i) \in 1 .. n /\ FindParent(i) < i
    BY <1>1, ParentOf
  <2>3. i \in 2 .. n + 1 /\ FindParent(i) \in 2 .. n + 1 /\ i \in 1 .. n
    BY <1>1, <2>1, <2>2
  <2>4. h[FindParent(i)].key <= h[i].key
    BY <1>1, <2>1, <2>3 DEF IsHeap
  <2> QED BY <1>2, <1>3, <2>2, <2>3, <2>4
<1>17. IsHeap(h) => IsHeap(r)
  BY <1>9, <1>16 DEF Percolated
<1> QED BY <1>1, <1>10, <1>11, <1>14, <1>15, <1>17 DEF r

\* Nothing in a heap is less than the root.
LEMMA TopIsLeast ==
    ASSUME NEW T, Keyed(T), NEW h \in Seq(T), IsHeap(h)
    PROVE  \A i \in 1 .. Len(h) : h[1].key <= h[i].key
<1> DEFINE n == Len(h)
           Bad == {i \in 1 .. n : ~ (h[1].key <= h[i].key)}
<1>1. n \in Nat /\ \A i \in 1 .. n : h[i].key \in Int
  BY DEF Keyed
<1>2. SUFFICES ASSUME Bad # {}
               PROVE  FALSE
  OBVIOUS
<1>3. Bad \in SUBSET Nat
  BY <1>1
<1>4. PICK x \in Bad : \A y \in Bad : x <= y
  BY <1>2, <1>3, LeastNatural
<1>5. x \in 1 .. n /\ ~ (h[1].key <= h[x].key)
  BY <1>4
<1>6. 1 \in 1 .. n /\ x # 1
  BY <1>1, <1>5
<1>7. x \in 2 .. n
  BY <1>1, <1>5, <1>6
<1>8. FindParent(x) \in 1 .. n /\ FindParent(x) < x
  BY <1>1, <1>7, ParentOf
<1>9. FindParent(x) \notin Bad
  BY <1>4, <1>5, <1>8
<1>10. h[1].key <= h[FindParent(x)].key
  BY <1>8, <1>9
<1>11. h[FindParent(x)].key <= h[x].key
  BY <1>7 DEF IsHeap
<1> QED BY <1>1, <1>5, <1>6, <1>8, <1>10, <1>11
-----------------------------------------------------------------------------
(***************************************************************************)
(* The graph.                                                              *)
(***************************************************************************)

LEMMA Vertices ==
    /\ N \in Nat /\ N > 0
    /\ \A i \in 1 .. N : Nodes[i] \in Vertex
    /\ \A v \in Vertex : Index(v) \in 1 .. N /\ Nodes[Index(v)] = v
    /\ NoParent \notin Vertex
    /\ Vertex # {}
    /\ IsFiniteSet(Vertex)
<1>1. N \in Nat /\ N > 0 /\ DOMAIN Nodes = 1 .. N
  BY NodesAssumption DEF N
<1>2. Vertex = {Nodes[i] : i \in 1 .. N}
  BY <1>1 DEF Vertex, ToSet
<1>3. ASSUME NEW v \in Vertex
      PROVE  Index(v) \in 1 .. N /\ Nodes[Index(v)] = v
  <2>1. \E i \in 1 .. N : Nodes[i] = v
    BY <1>2
  <2> QED BY <2>1 DEF Index
<1>4. Nodes[1] \in Vertex
  BY <1>1, <1>2
<1>5. IsFiniteSet(Vertex)
  <2> DEFINE f == [i \in 1 .. N |-> Nodes[i]]
  <2>1. f \in Surjection(1 .. N, Vertex)
    BY <1>2 DEF Surjection
  <2>2. IsFiniteSet(1 .. N)
    BY <1>1, FS_Interval
  <2> QED BY <2>1, <2>2, FS_Surjection
<1> QED BY <1>1, <1>2, <1>3, <1>4, <1>5, NodesAssumption DEF Vertex

Pair == kSubset(2, Vertex)

LEMMA PairIs ==
    ASSUME NEW e \in Pair
    PROVE  \E a, b \in Vertex : a # b /\ e = {a, b}
<1>1. e \in SUBSET Vertex /\ Cardinality(e) = 2
  BY DEF Pair, kSubset
<1>2. IsFiniteSet(e)
  BY <1>1, Vertices, FS_Subset
<1>3. e # {}
  BY <1>1, FS_EmptySet
<1>4. PICK a : a \in e
  BY <1>3
<1>5. IsFiniteSet(e \ {a}) /\ Cardinality(e \ {a}) = 1
  <2>1. Cardinality(e \ {a}) = Cardinality(e) - 1 /\ IsFiniteSet(e \ {a})
    BY <1>2, <1>4, FS_RemoveElement
  <2> QED BY <1>1, <2>1
<1>6. PICK b : e \ {a} = {b}
  BY <1>5, FS_Singleton
<1>7. a \in Vertex /\ b \in Vertex /\ a # b /\ e = {a, b}
  BY <1>1, <1>4, <1>6
<1> QED BY <1>7

LEMMA IsPair ==
    ASSUME NEW a \in Vertex, NEW b \in Vertex, a # b
    PROVE  {a, b} \in Pair
<1>1. IsFiniteSet({a}) /\ Cardinality({a}) = 1 /\ b \notin {a}
  BY FS_Singleton
<1>2. Cardinality({a} \cup {b}) = 1 + 1
  BY <1>1, FS_AddElement
<1>3. {a} \cup {b} = {a, b} /\ {a, b} \in SUBSET Vertex
  OBVIOUS
<1> QED BY <1>2, <1>3 DEF Pair, kSubset

LEMMA PairsFinite ==
    /\ IsFiniteSet(Pair)
    /\ \A e \in Pair : e \subseteq Vertex
<1>1. IsFiniteSet(SUBSET Vertex)
  BY Vertices, FS_SUBSET
<1>2. Pair \in SUBSET (SUBSET Vertex)
  BY DEF Pair, kSubset
<1> QED BY <1>1, <1>2, FS_Subset

LEMMA CrossedBySpanning ==
    ASSUME NEW T, Spans(T), NEW S \in SUBSET Vertex, S # {}, S # Vertex
    PROVE  \E g \in T : Crosses(g, S)
<1>1. S \in (SUBSET Vertex) \ {{}, Vertex}
  OBVIOUS
<1> QED BY <1>1 DEF Spans

\* If a set of edges spans only with e, there is a cut that e alone crosses.
LEMMA CutOf ==
    ASSUME NEW T \in SUBSET Pair, Spans(T), NEW e \in T, ~ Spans(T \ {e}),
           NEW u \in Vertex
    PROVE  \E S \in SUBSET Vertex :
              u \in S /\ Crosses(e, S) /\ \A g \in T \ {e} : ~ Crosses(g, S)
<1>1. PICK S \in (SUBSET Vertex) \ {{}, Vertex} : \A g \in T \ {e} : ~ Crosses(g, S)
  BY DEF Spans
<1>2. Crosses(e, S)
  BY <1>1 DEF Spans
<1>3. CASE u \in S
  BY <1>1, <1>2, <1>3
<1>4. CASE u \notin S
  <2> DEFINE R == Vertex \ S
  <2>1. \A g \in T : g \subseteq Vertex
    BY PairsFinite
  <2>2. \A g \in T : Crosses(g, R) <=> Crosses(g, S)
    BY <2>1 DEF Crosses
  <2>3. R \in SUBSET Vertex /\ u \in R
    BY <1>4
  <2> HIDE DEF R
  <2> QED BY <1>1, <1>2, <2>2, <2>3
<1> QED BY <1>3, <1>4

\* No set of edges without one of those that cross A spans.
NeededAcross(T, A) == \A e \in T : Crosses(e, A) => ~ Spans(T \ {e})

\* Of the edges between A and the rest that are needed, one is needed between
\* u in A and w outside.
LEMMA NeededBetween ==
    ASSUME NEW T \in SUBSET Pair, Spans(T), NEW A \in SUBSET Vertex,
           NeededAcross(T, A),
           NEW u \in A, NEW w \in Vertex \ A
    PROVE  \E e \in T, S \in SUBSET Vertex :
              /\ Crosses(e, A) /\ Crosses(e, S)
              /\ \A g \in T \ {e} : ~ Crosses(g, S)
              /\ u \in S /\ w \notin S
<1> DEFINE D == {e \in T : Crosses(e, A)}
           IsCut(e, S) == u \in S /\ Crosses(e, S) /\ \A g \in T \ {e} : ~ Crosses(g, S)
           cut == [e \in D |-> CHOOSE S \in SUBSET Vertex : IsCut(e, S)]
<1>1. \A e \in D : cut[e] \in SUBSET Vertex /\ IsCut(e, cut[e])
  <2>1. ASSUME NEW e \in D
        PROVE  \E S \in SUBSET Vertex : IsCut(e, S)
    BY CutOf DEF NeededAcross
  <2> HIDE DEF IsCut, D
  <2> QED BY <2>1
<1> HIDE DEF cut
<1>2. SUFFICES ASSUME \A e \in D : w \in cut[e]
               PROVE  FALSE
  BY <1>1
<1> DEFINE Y == {v \in Vertex : \A e \in D : v \in cut[e]}
           X == A \cap Y
           Z == X \cup {v \in Vertex : \E e \in D : e \cap X # {} /\ v \notin cut[e]}
<1>3. u \in Z /\ w \notin Z /\ Z \in SUBSET Vertex
  BY <1>1, <1>2
<1>4. PICK g \in T : Crosses(g, Z)
  <2> HIDE DEF Z
  <2>1. Z # {} /\ Z # Vertex
    BY <1>3
  <2> QED BY <1>3, <2>1, CrossedBySpanning
<1>5. PICK p, q \in Vertex : g = {p, q} /\ p \in Z /\ q \notin Z
  <2>1. PICK a, b \in Vertex : g = {a, b}
    BY <1>4, PairIs
  <2> HIDE DEF Z
  <2> QED BY <1>4, <2>1 DEF Crosses
<1>6. CASE p \in X
  <2>1. CASE \E e \in D : q \notin cut[e]
    <3>1. PICK e \in D : q \notin cut[e]
      BY <2>1
    <3>2. p \in cut[e]
      BY <1>6, <3>1
    <3>3. Crosses(g, cut[e])
      BY <1>5, <3>1, <3>2 DEF Crosses
    <3>4. g = e
      BY <1>1, <1>4, <3>1, <3>3
    <3> QED BY <1>5, <1>6, <3>1, <3>4
  <2>2. CASE \A e \in D : q \in cut[e]
    <3>1. q \in Y /\ q \notin A
      BY <1>5, <2>2
    <3>2. g \in D
      BY <1>4, <1>5, <1>6, <3>1 DEF Crosses
    <3>3. Crosses(g, cut[g]) /\ p \in cut[g] /\ q \in cut[g]
      BY <1>1, <1>6, <2>2, <3>2
    <3> QED BY <1>5, <3>3 DEF Crosses
  <2> QED BY <2>1, <2>2
<1>7. CASE p \notin X
  <2>1. PICK e \in D : e \cap X # {} /\ p \notin cut[e]
    BY <1>5, <1>7
  <2>2. q \in cut[e]
    BY <1>5, <2>1
  <2>3. Crosses(g, cut[e])
    BY <1>5, <2>1, <2>2 DEF Crosses
  <2>4. g = e
    BY <1>1, <1>4, <2>1, <2>3
  <2> QED BY <1>5, <1>7, <2>1, <2>4
<1> QED BY <1>6, <1>7

\* Such an edge can be exchanged for the edge from u to w.
LEMMA Exchanged ==
    ASSUME NEW T \in SUBSET Pair, Spans(T), NEW e \in T,
           NEW S \in SUBSET Vertex, Crosses(e, S),
           \A g \in T \ {e} : ~ Crosses(g, S),
           NEW u \in S, NEW w \in Vertex \ S
    PROVE  Spans((T \ {e}) \cup {{u, w}})
<1> DEFINE f == {u, w}
<1>1. SUFFICES ASSUME NEW R \in (SUBSET Vertex) \ {{}, Vertex},
                      \A g \in T \ {e} : ~ Crosses(g, R)
               PROVE  Crosses(f, R)
  BY DEF Spans
<1>2. SUFFICES ASSUME u \in R <=> w \in R
               PROVE  FALSE
  BY DEF Crosses
<1>3. Crosses(e, R)
  BY <1>1, CrossedBySpanning
<1>4. PICK a, b \in Vertex : e = {a, b} /\ a \in S /\ b \notin S
  <2>1. PICK a, b \in Vertex : e = {a, b}
    BY PairIs
  <2> QED BY <2>1 DEF Crosses
\* The part of one side of S and one side of R that e does not touch.
<1>5. ASSUME NEW X \in SUBSET Vertex, X # {}, X # Vertex, a \notin X, b \notin X,
             \A g \in T \ {e} : ~ Crosses(g, X)
      PROVE  FALSE
  <2>1. ~ Crosses(e, X)
    BY <1>4, <1>5 DEF Crosses
  <2>2. PICK g \in T : Crosses(g, X)
    BY <1>5, CrossedBySpanning
  <2> QED BY <1>5, <2>1, <2>2
<1>6. \A g \in T : g \subseteq Vertex
  BY PairsFinite
<1>7. (a \in R) # (b \in R)
  BY <1>3, <1>4 DEF Crosses
<1>8. CASE u \in R /\ a \in R
  <2>1. \A g \in T \ {e} : ~ Crosses(g, R \ S)
    BY <1>1, <1>6 DEF Crosses
  <2>2. w \in R \ S /\ u \notin R \ S /\ a \notin R \ S /\ b \notin R \ S
    BY <1>2, <1>4, <1>7, <1>8
  <2> QED BY <1>5, <2>1, <2>2
<1>9. CASE u \in R /\ a \notin R
  <2>1. \A g \in T \ {e} : ~ Crosses(g, R \cap S)
    BY <1>1, <1>6 DEF Crosses
  <2>2. u \in R \cap S /\ w \notin R \cap S /\ a \notin R \cap S /\ b \notin R \cap S
    BY <1>2, <1>4, <1>7, <1>9
  <2> QED BY <1>5, <2>1, <2>2
<1>10. CASE u \notin R /\ a \in R
  <2> DEFINE X == S \ R
  <2>1. \A g \in T \ {e} : ~ Crosses(g, X)
    BY <1>1, <1>6 DEF Crosses
  <2>2. u \in X /\ w \notin X /\ a \notin X /\ b \notin X
    BY <1>2, <1>4, <1>7, <1>10
  <2> QED BY <1>5, <2>1, <2>2
<1>11. CASE u \notin R /\ a \notin R
  <2> DEFINE X == (Vertex \ R) \ S
  <2>1. \A g \in T \ {e} : ~ Crosses(g, X)
    BY <1>1, <1>6 DEF Crosses
  <2>2. w \in X /\ u \notin X /\ a \notin X /\ b \notin X
    BY <1>2, <1>4, <1>7, <1>11
  <2> QED BY <1>5, <2>1, <2>2
<1> QED BY <1>8, <1>9, <1>10, <1>11

\* Of a set of edges that spans, as few as possible besides those to keep.
LEMMA FewestEdges ==
    ASSUME NEW T \in SUBSET Pair, Spans(T), NEW Keep \in SUBSET T
    PROVE  \E U \in SUBSET T :
              Keep \subseteq U /\ Spans(U) /\ \A e \in U \ Keep : ~ Spans(U \ {e})
<1> DEFINE C == {U \in SUBSET T : Keep \subseteq U /\ Spans(U)}
           Sizes == {Cardinality(U) : U \in C}
<1>1. T \in C
  OBVIOUS
<1>2. \A U \in C : IsFiniteSet(U) /\ Cardinality(U) \in Nat
  BY PairsFinite, FS_Subset, FS_CardinalityType
<1>3. Sizes \in SUBSET Nat /\ Sizes # {}
  BY <1>1, <1>2
<1>4. PICK n \in Sizes : \A t \in Sizes : n <= t
  <2> HIDE DEF Sizes
  <2> QED BY <1>3, LeastNatural
<1>5. PICK U \in C : n = Cardinality(U)
  BY <1>4
<1>6. ASSUME NEW e \in U \ Keep, Spans(U \ {e})
      PROVE  FALSE
  <2>1. U \ {e} \in C
    BY <1>5, <1>6
  <2>2. Cardinality(U \ {e}) = Cardinality(U) - 1
    BY <1>2, <1>5, FS_RemoveElement
  <2>3. Cardinality(U) <= Cardinality(U \ {e}) /\ Cardinality(U) \in Nat
    BY <1>2, <1>4, <1>5, <2>1
  <2> QED BY <2>2, <2>3
<1> QED BY <1>5, <1>6
-----------------------------------------------------------------------------
(***************************************************************************)
(* Distances, neighbors and weights.                                       *)
(***************************************************************************)

\* A nonempty finite set of naturals has a greatest element.
LEMMA GreatestNatural ==
    ASSUME NEW W \in SUBSET Nat, IsFiniteSet(W), W # {}
    PROVE  \E x \in W : \A y \in W : y <= x
<1> DEFINE HasGreatest(T) == \E x \in T : \A y \in T : y <= x
           S == {n \in Nat : \A T \in SUBSET W :
                    T # {} /\ Cardinality(T) = n => HasGreatest(T)}
<1>1. \A T \in SUBSET W : IsFiniteSet(T) /\ Cardinality(T) \in Nat
  BY FS_Subset, FS_CardinalityType
<1>2. 0 \in S
  BY <1>1, FS_EmptySet
<1>3. ASSUME NEW n \in Nat, n \in S, NEW T \in SUBSET W, T # {},
             Cardinality(T) = n + 1
      PROVE  HasGreatest(T)
  <2>1. PICK a \in T : TRUE
    BY <1>3
  <2> DEFINE R == T \ {a}
  <2>2. R \in SUBSET W /\ Cardinality(R) = n
    <3>1. IsFiniteSet(T)
      BY <1>1
    <3>2. Cardinality(T \ {a}) = Cardinality(T) - 1
      BY <2>1, <3>1, FS_RemoveElement
    <3> QED BY <1>3, <3>2
  <2>3. CASE R = {}
    <3>1. \A y \in T : y = a
      BY <2>3
    <3>2. a \in Nat /\ a <= a
      BY <2>1
    <3> QED BY <2>1, <3>1, <3>2
  <2>4. CASE R # {}
    <3> HIDE DEF R
    <3>1. PICK b \in R : \A y \in R : y <= b
      BY <1>3, <2>2, <2>4
    <3>2. a \in Nat /\ b \in Nat /\ R \subseteq Nat
      BY <2>1, <2>2, <3>1
    <3>3. T = R \cup {a}
      BY <2>1 DEF R
    <3>4. CASE a <= b
      BY <3>1, <3>3, <3>4
    <3>5. CASE b <= a
      BY <3>1, <3>2, <3>3, <3>5
    <3> QED BY <3>2, <3>4, <3>5
  <2> QED BY <2>3, <2>4
<1> HIDE DEF HasGreatest
<1>4. \A n \in Nat : n \in S => n + 1 \in S
  BY <1>3
<1>5. Nat \subseteq S
  <2> HIDE DEF S
  <2> QED BY <1>2, <1>4, AllNaturals
<1>6. HasGreatest(W)
  BY <1>1, <1>5
<1> QED BY <1>6 DEF HasGreatest

\* What is to be reached yet is farther than every distance.
LEMMA Distances ==
    /\ Infinity \in Nat
    /\ \A t \in Weights : t \in Nat /\ t < Infinity
<1>1. PICK x \in Weights : \A y \in Weights : y <= x
  BY WeightsAssumption, GreatestNatural
<1>2. Max(Weights) \in Weights /\ \A y \in Weights : Max(Weights) >= y
  <2>1. \E z \in Weights : \A y \in Weights : z >= y
    BY <1>1, WeightsAssumption
  <2> QED BY <2>1 DEF Max
<1>3. Weights \subseteq Nat
  BY WeightsAssumption
<1>4. Max(Weights) \in Nat /\ Infinity = Max(Weights) + 1
  BY <1>2, <1>3 DEF Infinity

<1>5. ASSUME NEW t \in Weights
      PROVE  t \in Nat /\ t < Infinity
  <2>1. t \in Nat /\ Max(Weights) >= t
    BY <1>2, <1>3
  <2> QED BY <1>4, <2>1
<1> QED BY <1>4, <1>5

LEMMA MinIs ==
    ASSUME NEW S \in SUBSET Nat, NEW x \in S, \A y \in S : x <= y
    PROVE  Min(S) = x
<1>1. Min(S) \in S /\ \A y \in S : Min(S) <= y
  BY DEF Min
<1>2. Min(S) <= x /\ x <= Min(S) /\ x \in Nat /\ Min(S) \in Nat
  BY <1>1
<1> QED BY <1>2

\* Distances are between vertices.
GraphOK ==
    /\ limit \in BOOLEAN
    /\ dist \in [Pair -> Weights]
    /\ root \in Vertex

LEMMA NeighborsAre ==
    ASSUME GraphOK
    PROVE  /\ \A v : Neighbors(v) \subseteq Vertex \ {v}
           /\ \A v, w \in Vertex : w \in Neighbors(v) <=> v \in Neighbors(w)
           /\ Edges \subseteq Pair
           /\ \A v \in Vertex : \A w \in Neighbors(v) : {v, w} \in Edges
           /\ \A v, w \in Vertex : v # w /\ {v, w} \in Edges => w \in Neighbors(v)
<1>1. MaxDegree \in Int
  BY Vertices DEF GraphOK, MaxDegree
<1>2. ASSUME NEW v \in Vertex, NEW w \in Neighbors(v)
      PROVE  w \in Vertex /\ w # v /\ v \in Neighbors(w)
  <2>1. w \in Vertex /\ w # v /\ Index(w) - Index(v) \in (0 - MaxDegree) .. MaxDegree
    BY DEF Neighbors
  <2>2. Index(w) \in Int /\ Index(v) \in Int
    BY <2>1, Vertices
  <2>3. Index(v) - Index(w) \in (0 - MaxDegree) .. MaxDegree
    BY <1>1, <2>1, <2>2
  <2> QED BY <2>1, <2>3 DEF Neighbors
<1>3. ASSUME NEW v \in Vertex, NEW w \in Neighbors(v)
      PROVE  {v, w} \in Edges
  <2>1. {v, w} \in Pair
    BY <1>2, <1>3, IsPair
  <2> QED BY <1>2, <2>1 DEF Edges, Pair
<1>4. ASSUME NEW v \in Vertex, NEW w \in Vertex, v # w, {v, w} \in Edges
      PROVE  w \in Neighbors(v)
  <2>1. PICK x \in {v, w}, y \in {v, w} : y \in Neighbors(x)
    BY <1>4 DEF Edges
  <2>2. x # y
    BY <2>1 DEF Neighbors
  <2>3. (x = v /\ y = w) \/ (x = w /\ y = v)
    BY <2>1, <2>2
  <2> QED BY <1>2, <2>1, <2>3
<1>5. \A v : Neighbors(v) \subseteq Vertex \ {v}
  BY DEF Neighbors
<1>6. Edges \subseteq Pair
  BY DEF Edges, Pair
<1> QED BY <1>2, <1>3, <1>4, <1>5, <1>6

\* The elements that Weight counts.
Units(tree) == UNION {{e} \X (1 .. dist[e]) : e \in tree}

LEMMA UnitsFinite ==
    ASSUME GraphOK, NEW T \in SUBSET Pair
    PROVE  /\ IsFiniteSet(Units(T))
           /\ Weight(T) = Cardinality(Units(T))
           /\ Weight(T) \in Nat
<1> DEFINE All == Pair \X (1 .. Infinity)
<1>1. IsFiniteSet(All)
  <2>1. IsFiniteSet(1 .. Infinity)
    BY Distances, FS_Interval
  <2> QED BY <2>1, PairsFinite, FS_Product
<1>2. Units(T) \in SUBSET All
  <2>1. ASSUME NEW e \in T, NEW t \in 1 .. dist[e]
        PROVE  <<e, t>> \in All
    <3>1. e \in Pair /\ dist[e] \in Weights
      BY DEF GraphOK
    <3>2. dist[e] \in Nat /\ dist[e] < Infinity /\ Infinity \in Nat
      BY <3>1, Distances
    <3>3. t \in 1 .. Infinity
      BY <3>2
    <3> QED BY <3>1, <3>3
  <2>2. \A x \in Units(T) : \E e \in T : \E t \in 1 .. dist[e] : x = <<e, t>>
    BY DEF Units
  <2> HIDE DEF All
  <2> QED BY <2>1, <2>2
<1> HIDE DEF All
<1>3. IsFiniteSet(Units(T))
  BY <1>1, <1>2, FS_Subset
<1>4. Weight(T) = Cardinality(Units(T))
  BY DEF Weight, Units
<1> QED BY <1>3, <1>4, FS_CardinalityType

LEMMA WeightMonotone ==
    ASSUME GraphOK, NEW T \in SUBSET Pair, NEW U \in SUBSET T
    PROVE  Weight(U) <= Weight(T)
<1>1. Units(U) \in SUBSET Units(T)
  BY DEF Units
<1>2. U \in SUBSET Pair
  OBVIOUS
<1>3. Cardinality(Units(U)) <= Cardinality(Units(T))
  BY <1>1, UnitsFinite, FS_Subset
<1> QED BY <1>2, <1>3, UnitsFinite

LEMMA UnitsOfOne ==
    ASSUME NEW e, NEW t \in Nat
    PROVE  IsFiniteSet({e} \X (1 .. t)) /\ Cardinality({e} \X (1 .. t)) = t
<1> DEFINE A == {e}
           B == 1 .. t
<1>1. IsFiniteSet(B) /\ Cardinality(B) = t
  BY FS_Interval
<1>2. IsFiniteSet(A) /\ Cardinality(A) = 1
  BY FS_Singleton
<1> HIDE DEF A, B
<1>3. IsFiniteSet(A \X B) /\ Cardinality(A \X B) = Cardinality(A) * Cardinality(B)
  BY <1>1, <1>2, FS_Product
<1>4. Cardinality(A \X B) = t
  BY <1>1, <1>2, <1>3
<1> QED BY <1>3, <1>4 DEF A, B

\* What one edge more weighs.
LEMMA WeightWith ==
    ASSUME GraphOK, NEW T \in SUBSET Pair, NEW f \in Pair
    PROVE  /\ Weight(T \cup {f}) <= Weight(T) + dist[f]
           /\ f \notin T => Weight(T \cup {f}) = Weight(T) + dist[f]
<1> DEFINE F == {f} \X (1 .. dist[f])
<1>1. dist[f] \in Nat
  BY Distances DEF GraphOK
<1>2. IsFiniteSet(F) /\ Cardinality(F) = dist[f]
  BY <1>1, UnitsOfOne
<1>3. Units(T \cup {f}) = Units(T) \cup F
  BY DEF Units
<1>4. f \notin T => Units(T) \cap F = {}
  BY DEF Units
<1> HIDE DEF F
<1>5. /\ IsFiniteSet(Units(T)) /\ Weight(T) = Cardinality(Units(T)) /\ Weight(T) \in Nat
      /\ Weight(T \cup {f}) = Cardinality(Units(T \cup {f}))
  BY UnitsFinite
<1>6. Cardinality(Units(T) \cup F)
        = Cardinality(Units(T)) + Cardinality(F) - Cardinality(Units(T) \cap F)
  BY <1>2, <1>5, FS_Union
<1>7. Cardinality(Units(T) \cap F) \in Nat
  BY <1>5, FS_Subset, FS_CardinalityType
<1>8. f \notin T => Cardinality(Units(T) \cap F) = 0
  BY <1>4, FS_EmptySet
<1>9. Weight(T \cup {f}) = Weight(T) + dist[f] - Cardinality(Units(T) \cap F)
  BY <1>2, <1>3, <1>5, <1>6
<1> QED BY <1>1, <1>5, <1>7, <1>8, <1>9

\* An edge exchanged for one that is not longer adds no weight.
LEMMA WeightExchanged ==
    ASSUME GraphOK, NEW T \in SUBSET Pair, NEW e \in T, NEW f \in Pair,
           dist[f] <= dist[e]
    PROVE  Weight((T \ {e}) \cup {f}) <= Weight(T)
<1> DEFINE R == T \ {e}
<1>1. R \in SUBSET Pair /\ e \in Pair /\ e \notin R /\ R \cup {e} = T
  OBVIOUS
<1> HIDE DEF R
<1>2. dist[e] \in Nat /\ dist[f] \in Nat
  BY <1>1, Distances DEF GraphOK
<1>3. Weight(R) \in Nat /\ Weight(T) \in Nat /\ Weight(R \cup {f}) \in Nat
  BY <1>1, UnitsFinite
<1>4. Weight(T) = Weight(R) + dist[e]
  BY <1>1, WeightWith
<1>5. Weight(R \cup {f}) <= Weight(R) + dist[f]
  BY <1>1, WeightWith
<1>6. Weight(R \cup {f}) <= Weight(T)
  BY <1>2, <1>3, <1>4, <1>5
<1> QED BY <1>6 DEF R
-----------------------------------------------------------------------------
(***************************************************************************)
(* The invariant of Construct.                                             *)
(***************************************************************************)

HeapNode == [name : Vertex, key : 0 .. Infinity]

\* What the inner loop has still to look at, and what the first extraction
\* finds.
LookingOK ==
    /\ todo # {} => current \in added
    /\ \A w \in todo : w \notin added /\ w \in Neighbors(current)
    /\ added = {} => todo = {} /\ ToSet(heap) = {Node(root, 0)}
    /\ added # {} => root \in added
    /\ parent[root] = NoParent

\* The key of a vertex is its distance from its parent, which is in the tree.
KnownOK ==
    \A w \in Vertex \ {root} :
        \/ key[w] = Infinity /\ w \notin added
        \/ /\ parent[w] \in added
           /\ w \in Neighbors(parent[w])
           /\ key[w] = dist[{w, parent[w]}]

\* No vertex of the tree that has been looked from is nearer.
NearestOK ==
    \A w \in Vertex \ added, v \in added :
        w \in Neighbors(v) /\ ~ (v = current /\ w \in todo) => key[w] <= dist[{v, w}]

\* A vertex that can be reached is in the queue with its key, ...
WaitingOK ==
    \A w \in Vertex \ (added \cup {root}) :
        key[w] # Infinity => Node(w, key[w]) \in ToSet(heap)

\* ... and older copies have greater ones.
CopiesOK ==
    \A x \in ToSet(heap) : x.key >= key[x.name] /\ x.key # Infinity

\* The parents lead from the root to every vertex of the tree.
ReachedOK ==
    \A S \in SUBSET Vertex :
        root \in S /\ (\A w \in added : parent[w] \in S => w \in S) => added \subseteq S

TreeEdges(S) == {{v, parent[v]} : v \in S \ {root}}

\* Whatever connects the graph, something no heavier has the tree in it.
LightestOK ==
    \A T \in SUBSET Edges :
        Spans(T) =>
            \E U \in SUBSET Edges :
                Spans(U) /\ TreeEdges(added) \subseteq U /\ Weight(U) <= Weight(T)

TreeInv ==
    /\ GraphOK /\ TreeTypeOK /\ QueueIsHeap
    /\ LookingOK /\ KnownOK /\ NearestOK /\ WaitingOK /\ CopiesOK
    /\ ReachedOK /\ LightestOK

LEMMA HeapNodes ==
    /\ Keyed(HeapNode)
    /\ \A v \in Vertex, t \in 0 .. Infinity :
          /\ Node(v, t) \in HeapNode
          /\ Node(v, t).name = v /\ Node(v, t).key = t
    /\ \A x \in HeapNode : x.name \in Vertex /\ x.key \in 0 .. Infinity
BY Distances DEF Keyed, HeapNode, Node

\* The types, of the tree's variables and of the elements of the queue.
LEMMA TreeTypes ==
    ASSUME GraphOK, TreeTypeOK
    PROVE  /\ \A v \in Vertex : key[v] \in 0 .. Infinity
           /\ \A v \in Vertex : parent[v] \in Vertex \cup {NoParent}
           /\ heap \in Seq(HeapNode)
           /\ ToSet(heap) \subseteq HeapNode
           /\ \A e \in Pair : dist[e] \in 0 .. Infinity /\ dist[e] # Infinity
           /\ \A v \in Vertex : \A w \in Neighbors(v) : {v, w} \in Pair
<1>1. ASSUME NEW t \in Weights
      PROVE  t \in 0 .. Infinity /\ t # Infinity
  BY Distances
<1>2. 0 \in 0 .. Infinity /\ Infinity \in 0 .. Infinity
  BY Distances
<1>3. \A v \in Vertex : key[v] \in 0 .. Infinity
  BY <1>1, <1>2 DEF TreeTypeOK
<1>4. \A v \in Vertex : parent[v] \in Vertex \cup {NoParent}
  BY DEF TreeTypeOK
<1>5. heap \in Seq(HeapNode)
  BY DEF TreeTypeOK, HeapNode
<1>6. ToSet(heap) \subseteq HeapNode
  BY <1>5 DEF ToSet
<1>7. \A e \in Pair : dist[e] \in 0 .. Infinity /\ dist[e] # Infinity
  BY <1>1 DEF GraphOK
<1>8. \A v \in Vertex : \A w \in Neighbors(v) : {v, w} \in Pair
  BY IsPair, NeighborsAre
<1> QED BY <1>3, <1>4, <1>5, <1>6, <1>7, <1>8

LEMMA InitTree == TreeInit => TreeInv
<1> SUFFICES ASSUME TreeInit
             PROVE  TreeInv
  OBVIOUS
<1>1. GraphOK
  BY DEF TreeInit, GraphOK, Pair
<1>2. /\ key = [v \in Vertex |-> IF v = root THEN 0 ELSE Infinity]
      /\ key[root] = 0
      /\ parent = [v \in Vertex |-> NoParent]
      /\ added = {} /\ todo = {} /\ current = NoParent
      /\ heap = Insert(<<>>, Node(root, 0))
  BY <1>1 DEF TreeInit, StartKey, GraphOK
<1>3. Node(root, 0) \in HeapNode /\ <<>> \in Seq(HeapNode)
  <2>1. 0 \in 0 .. Infinity
    BY Distances
  <2> QED BY <1>1, <2>1, HeapNodes DEF GraphOK
<1>4. IsHeap(<<>>)
  BY DEF IsHeap
<1>5. /\ heap \in Seq(HeapNode)
      /\ ToSet(heap) = ToSet(<<>>) \cup {Node(root, 0)}
      /\ IsHeap(heap)
  <2>1. Keyed(HeapNode)
    BY HeapNodes
  <2> DEFINE none == <<>>
             top == Node(root, 0)
  <2>2. none \in Seq(HeapNode) /\ IsHeap(none) /\ top \in HeapNode
    BY <1>3, <1>4
  <2>3. heap = Insert(none, top)
    BY <1>2
  <2> HIDE DEF none, top
  <2>4. /\ Insert(none, top) \in Seq(HeapNode)
        /\ ToSet(Insert(none, top)) = ToSet(none) \cup {top}
        /\ IsHeap(Insert(none, top))
    BY <2>1, <2>2, InsertProperties
  <2> QED BY <2>3, <2>4 DEF none, top
<1>6. ToSet(heap) = {Node(root, 0)}
  BY <1>5 DEF ToSet
<1>7. TreeTypeOK
  BY <1>1, <1>2, <1>5 DEF TreeTypeOK, GraphOK, HeapNode
<1>8. LookingOK
  BY <1>1, <1>2, <1>6 DEF LookingOK, GraphOK
<1>9. KnownOK /\ NearestOK /\ WaitingOK /\ ReachedOK
  BY <1>1, <1>2 DEF KnownOK, NearestOK, WaitingOK, ReachedOK, GraphOK
<1>10. CopiesOK
  <2>1. PICK t \in Weights : t \in Nat /\ t < Infinity /\ Infinity \in Nat
    BY Distances, WeightsAssumption
  <2>2. 0 # Infinity
    BY <2>1
  <2>3. Node(root, 0).key = 0 /\ Node(root, 0).name = root
    BY DEF Node
  <2> QED BY <1>2, <1>6, <2>2, <2>3 DEF CopiesOK
<1>11. LightestOK
  <2> SUFFICES ASSUME NEW T \in SUBSET Edges, Spans(T)
               PROVE  \E U \in SUBSET Edges :
                         Spans(U) /\ TreeEdges(added) \subseteq U /\ Weight(U) <= Weight(T)
    BY DEF LightestOK
  <2>1. TreeEdges(added) = {}
    BY <1>2 DEF TreeEdges
  <2>2. T \in SUBSET Pair
    BY <1>1, NeighborsAre
  <2>3. Weight(T) <= Weight(T)
    BY <1>1, <2>2, UnitsFinite
  <2> QED BY <2>1, <2>3
<1> QED BY <1>1, <1>5, <1>7, <1>8, <1>9, <1>10, <1>11 DEF TreeInv, QueueIsHeap

\* The graph stays what it is.
LEMMA GraphStays ==
    ASSUME GraphOK, UNCHANGED <<limit, dist, root>>
    PROVE  /\ GraphOK'
           /\ \A v : Neighbors(v)' = Neighbors(v)
           /\ Edges' = Edges
           /\ \A T : Weight(T)' = Weight(T)
<1>1. \A v : Neighbors(v)' = Neighbors(v)
  BY DEF Neighbors, MaxDegree
<1>2. Edges' = Edges
  BY <1>1 DEF Edges
<1> QED BY <1>1, <1>2 DEF GraphOK, Weight

\* While the edges of the tree stay what they are, so does what they allow.
LEMMA LightestStays ==
    ASSUME GraphOK, LightestOK, UNCHANGED <<limit, dist, root>>,
           TreeEdges(added)' = TreeEdges(added)
    PROVE  LightestOK'
<1>1. Edges' = Edges /\ \A T : Weight(T)' = Weight(T)
  BY GraphStays
<1> QED BY <1>1 DEF LightestOK

\* The vertex that the inner loop looks at.
LEMMA Looked ==
    ASSUME TreeInv, todo # {}
    PROVE  LET w == NextOf(todo)
           IN  /\ w \in todo /\ w \in Vertex /\ w \notin added /\ w # root
               /\ w \in Neighbors(current) /\ current \in added /\ current \in Vertex
               /\ {current, w} \in Pair
<1> DEFINE w == NextOf(todo)
           Places == {Index(v) : v \in todo}
<1>1. todo \subseteq Vertex /\ added \subseteq Vertex
  BY DEF TreeInv, TreeTypeOK
<1>2. Places \in SUBSET Nat /\ Places # {}
  BY <1>1, Vertices
<1>3. \E v \in todo : \A x \in todo : Index(v) <= Index(x)
  <2>1. PICK i \in Places : \A j \in Places : i <= j
    <3> HIDE DEF Places
    <3> QED BY <1>2, LeastNatural
  <2> QED BY <2>1
<1>4. w \in todo
  BY <1>3 DEF NextOf
<1> HIDE DEF w
<1>5. w \in Vertex /\ w \notin added /\ w \in Neighbors(current) /\ current \in added
      /\ current \in Vertex /\ w # root
  BY <1>1, <1>4 DEF TreeInv, LookingOK
<1>6. {current, w} \in Pair
  BY <1>5, TreeTypes DEF TreeInv
<1> QED BY <1>4, <1>5, <1>6 DEF w
-----------------------------------------------------------------------------
(***************************************************************************)
(* The inner loop.                                                         *)
(***************************************************************************)

LEMMA SkipTree ==
    ASSUME TreeInv, Skip
    PROVE  TreeInv'
<1> DEFINE w == NextOf(todo)
<1>1. /\ todo # {} /\ ~ Nearer(w) /\ todo' = todo \ {w}
      /\ UNCHANGED <<limit, dist, root, key, parent, added, current, heap>>
  BY DEF Skip
<1>2. /\ w \in todo /\ w \in Vertex /\ w \notin added
      /\ {current, w} \in Pair /\ current \in Vertex
  BY <1>1, Looked
<1> HIDE DEF w
<1>3. GraphOK /\ GraphOK' /\ \A v : Neighbors(v)' = Neighbors(v)
  BY <1>1, GraphStays DEF TreeInv
<1>4. key[w] <= dist[{current, w}]
  <2>1. ~ (dist[{current, w}] < key[w])
    BY <1>1 DEF Nearer, Cost
  <2>2. dist[{current, w}] \in 0 .. Infinity /\ key[w] \in 0 .. Infinity
    BY <1>2, TreeTypes DEF TreeInv
  <2>3. Infinity \in Nat
    BY Distances
  <2> QED BY <2>1, <2>2, <2>3
<1>5. TreeTypeOK'
  BY <1>1 DEF TreeInv, TreeTypeOK
<1>6. QueueIsHeap'
  BY <1>1 DEF TreeInv, QueueIsHeap, IsHeap
<1>7. LookingOK'
  <2>1. LookingOK
    BY DEF TreeInv
  <2> QED BY <1>1, <1>3, <2>1 DEF LookingOK
<1>8. KnownOK'
  BY <1>1, <1>3 DEF TreeInv, KnownOK
<1>9. NearestOK'
  <2> SUFFICES ASSUME NEW x \in Vertex \ added, NEW v \in added,
                      x \in Neighbors(v), ~ (v = current /\ x \in todo \ {w})
               PROVE  key[x] <= dist[{v, x}]
    BY <1>1, <1>3 DEF NearestOK
  <2>1. CASE v = current /\ x = w
    BY <1>4, <2>1
  <2>2. CASE ~ (v = current /\ x = w)
    BY <2>2 DEF TreeInv, NearestOK
  <2> QED BY <2>1, <2>2
<1>10. WaitingOK'
  BY <1>1 DEF TreeInv, WaitingOK
<1>11. CopiesOK'
  BY <1>1 DEF TreeInv, CopiesOK
<1>12. ReachedOK'
  BY <1>1 DEF TreeInv, ReachedOK
<1>13. LightestOK'
  <2>1. TreeEdges(added)' = TreeEdges(added)
    BY <1>1 DEF TreeEdges
  <2> QED BY <1>1, <2>1, LightestStays DEF TreeInv
<1> QED BY <1>3, <1>5, <1>6, <1>7, <1>8, <1>9, <1>10, <1>11, <1>12, <1>13 DEF TreeInv

LEMMA UpdateTree ==
    ASSUME TreeInv, Update
    PROVE  TreeInv'
<1> DEFINE w == NextOf(todo)
           d == dist[{current, w}]
<1>1. /\ todo # {} /\ d < key[w] /\ todo' = todo \ {w}
      /\ key' = [key EXCEPT ![w] = d]
      /\ parent' = [parent EXCEPT ![w] = current]
      /\ heap' = Insert(heap, Node(w, key'[w]))
      /\ UNCHANGED <<limit, dist, root, added, current>>
  BY DEF Update, Nearer, Cost
<1>2. /\ w \in todo /\ w \in Vertex /\ w \notin added /\ w # root
      /\ w \in Neighbors(current) /\ current \in added /\ current \in Vertex
      /\ {current, w} \in Pair
  BY <1>1, Looked
<1>3. GraphOK /\ GraphOK' /\ \A v : Neighbors(v)' = Neighbors(v)
  BY <1>1, GraphStays DEF TreeInv
<1>4. /\ TreeTypeOK
      /\ key \in [Vertex -> Weights \cup {0, Infinity}]
      /\ parent \in [Vertex -> Vertex \cup {NoParent}]
      /\ added \subseteq Vertex /\ todo \subseteq Vertex
  BY DEF TreeInv, TreeTypeOK
<1>5. d \in Weights /\ d \in 0 .. Infinity /\ d # Infinity
  BY <1>2, <1>3, <1>4, TreeTypes DEF GraphOK
<1> HIDE DEF w, d
<1>6. /\ key'[w] = d /\ \A x \in Vertex : x # w => key'[x] = key[x]
      /\ parent'[w] = current /\ \A x \in Vertex : x # w => parent'[x] = parent[x]
  BY <1>1, <1>2, <1>4
<1>7. \A x \in Vertex : key[x] \in 0 .. Infinity /\ Infinity \in Nat
  BY <1>3, <1>4, TreeTypes, Distances
<1>8. \A x \in Vertex : key'[x] <= key[x] /\ key'[x] \in 0 .. Infinity
  <2> TAKE x \in Vertex
  <2>1. CASE x = w
    BY <1>1, <1>2, <1>5, <1>6, <1>7, <2>1
  <2>2. CASE x # w
    BY <1>6, <1>7, <2>2
  <2> QED BY <2>1, <2>2
<1>9. /\ heap \in Seq(HeapNode) /\ Node(w, d) \in HeapNode
      /\ Node(w, d).name = w /\ Node(w, d).key = d
  BY <1>2, <1>3, <1>4, <1>5, TreeTypes, HeapNodes
<1>10. /\ heap' \in Seq(HeapNode)
       /\ ToSet(heap') = ToSet(heap) \cup {Node(w, d)}
       /\ IsHeap(heap')
  <2>1. IsHeap(heap)
    BY DEF TreeInv, QueueIsHeap
  <2>2. heap' = Insert(heap, Node(w, d))
    BY <1>1, <1>6
  <2>3. Keyed(HeapNode)
    BY HeapNodes
  <2>4. /\ Insert(heap, Node(w, d)) \in Seq(HeapNode)
        /\ ToSet(Insert(heap, Node(w, d))) = ToSet(heap) \cup {Node(w, d)}
        /\ IsHeap(Insert(heap, Node(w, d)))
    BY <1>9, <2>1, <2>3, InsertProperties
  <2> QED BY <2>2, <2>4
<1>11. TreeTypeOK'
  <2>1. key' \in [Vertex -> Weights \cup {0, Infinity}] /\ key'[root] = 0
    <3>1. key[root] = 0 /\ root \in Vertex
      BY <1>3, <1>4 DEF TreeTypeOK, GraphOK
    <3> QED BY <1>1, <1>2, <1>4, <1>5, <1>6, <3>1
  <2>2. parent' \in [Vertex -> Vertex \cup {NoParent}]
    BY <1>1, <1>2, <1>4
  <2>3. heap' \in Seq([name : Vertex, key : 0 .. Infinity])
    BY <1>10 DEF HeapNode
  <2>4. todo' \subseteq Vertex /\ added' \subseteq Vertex
        /\ current' \in Vertex \cup {NoParent}
    BY <1>1, <1>2, <1>4
  <2>5. root' = root
    BY <1>1
  <2> QED BY <2>1, <2>2, <2>3, <2>4, <2>5 DEF TreeTypeOK
<1>12. LookingOK'
  <2>1. LookingOK /\ root \in Vertex
    BY <1>3 DEF TreeInv, GraphOK
  <2>2. parent'[root] = parent[root]
    BY <1>2, <1>6, <2>1
  <2> QED BY <1>1, <1>2, <1>3, <2>1, <2>2 DEF LookingOK
<1>13. KnownOK'
  <2> SUFFICES ASSUME NEW x \in Vertex \ {root}
               PROVE  \/ key'[x] = Infinity /\ x \notin added
                      \/ /\ parent'[x] \in added
                         /\ x \in Neighbors(parent'[x])
                         /\ key'[x] = dist[{x, parent'[x]}]
    BY <1>1, <1>3 DEF KnownOK
  <2>1. CASE x = w
    <3>1. {x, current} = {current, w}
      BY <2>1
    <3> QED BY <1>2, <1>6, <2>1, <3>1 DEF d
  <2>2. CASE x # w
    BY <1>6, <2>2 DEF TreeInv, KnownOK
  <2> QED BY <2>1, <2>2
<1>14. NearestOK'
  <2> SUFFICES ASSUME NEW x \in Vertex \ added, NEW v \in added,
                      x \in Neighbors(v), ~ (v = current /\ x \in todo \ {w})
               PROVE  key'[x] <= dist[{v, x}]
    BY <1>1, <1>3 DEF NearestOK
  <2>1. CASE v = current /\ x = w
    BY <1>5, <1>6, <1>8, <2>1, <1>7 DEF d
  <2>2. CASE ~ (v = current /\ x = w)
    <3>1. key[x] <= dist[{v, x}]
      BY <2>2 DEF TreeInv, NearestOK
    <3>2. dist[{v, x}] \in 0 .. Infinity
      <4>1. {v, x} \in Pair
        BY <1>3, <1>4, TreeTypes
      <4> QED BY <1>3, <1>4, <4>1, TreeTypes
    <3>3. key'[x] <= key[x] /\ key'[x] \in Int /\ key[x] \in Int /\ dist[{v, x}] \in Int
      BY <1>7, <1>8, <3>2
    <3> QED BY <3>1, <3>3
  <2> QED BY <2>1, <2>2
<1>15. WaitingOK'
  <2> SUFFICES ASSUME NEW x \in Vertex \ (added \cup {root}), key'[x] # Infinity
               PROVE  Node(x, key'[x]) \in ToSet(heap')
    BY <1>1 DEF WaitingOK
  <2>1. CASE x = w
    BY <1>6, <1>10, <2>1
  <2>2. CASE x # w
    BY <1>6, <1>10, <2>2 DEF TreeInv, WaitingOK
  <2> QED BY <2>1, <2>2
<1>16. CopiesOK'
  <2> SUFFICES ASSUME NEW x \in ToSet(heap')
               PROVE  x.key >= key'[x.name] /\ x.key # Infinity
    BY DEF CopiesOK
  <2>1. CASE x \in ToSet(heap)
    <3>1. x.key >= key[x.name] /\ x.key # Infinity
      BY <2>1 DEF TreeInv, CopiesOK
    <3>2. x.name \in Vertex /\ x.key \in 0 .. Infinity
      BY <1>3, <1>4, <2>1, TreeTypes, HeapNodes
    <3>3. key'[x.name] <= key[x.name] /\ key'[x.name] \in 0 .. Infinity
          /\ key[x.name] \in 0 .. Infinity /\ Infinity \in Nat
      BY <1>7, <1>8, <3>2
    <3> QED BY <3>1, <3>2, <3>3
  <2>2. CASE x = Node(w, d)
    <3>1. x.key = d /\ key'[x.name] = d /\ d \in Int /\ d # Infinity
      BY <1>5, <1>6, <1>7, <1>9, <2>2
    <3> QED BY <3>1
  <2> QED BY <1>10, <2>1, <2>2
<1>17. ReachedOK'
  <2>1. \A x \in added : parent'[x] = parent[x]
    BY <1>2, <1>4, <1>6
  <2> QED BY <1>1, <2>1 DEF TreeInv, ReachedOK
<1>18. LightestOK'
  <2>1. \A x \in added : parent'[x] = parent[x]
    BY <1>2, <1>4, <1>6
  <2>2. TreeEdges(added)' = TreeEdges(added)
    BY <1>1, <2>1 DEF TreeEdges
  <2> QED BY <1>1, <2>2, LightestStays DEF TreeInv
<1>19. QueueIsHeap'
  BY <1>10 DEF QueueIsHeap, IsHeap
<1> QED BY <1>3, <1>11, <1>12, <1>13, <1>14, <1>15, <1>16, <1>17, <1>18, <1>19 DEF TreeInv
-----------------------------------------------------------------------------
(***************************************************************************)
(* The extraction.                                                         *)
(***************************************************************************)

\* What is known of the vertex at the top of the queue.
LEMMA TopVertex ==
    ASSUME TreeInv, heap # <<>>
    PROVE  /\ heap[1] \in ToSet(heap) /\ heap[1] \in HeapNode
           /\ Top(heap) \in Vertex /\ Top(heap) = heap[1].name
           /\ key[Top(heap)] <= heap[1].key
           /\ key[Top(heap)] # Infinity
           /\ \A x \in ToSet(heap) : heap[1].key <= x.key
<1>1. /\ GraphOK /\ TreeTypeOK /\ heap \in Seq(HeapNode) /\ ToSet(heap) \subseteq HeapNode
  BY TreeTypes DEF TreeInv
<1>2. Len(heap) \in Nat /\ Len(heap) > 0 /\ DOMAIN heap = 1 .. Len(heap)
  BY <1>1
<1>3. heap[1] \in ToSet(heap) /\ heap[1] \in HeapNode
  BY <1>1, <1>2 DEF ToSet
<1>4. heap[1].name \in Vertex /\ heap[1].key \in 0 .. Infinity
  BY <1>3, HeapNodes
<1>5. heap[1].key >= key[heap[1].name] /\ heap[1].key # Infinity
  BY <1>3 DEF TreeInv, CopiesOK
<1>6. key[heap[1].name] \in 0 .. Infinity /\ Infinity \in Nat
  BY <1>1, <1>4, TreeTypes, Distances
<1>7. key[heap[1].name] <= heap[1].key /\ key[heap[1].name] # Infinity
  BY <1>4, <1>5, <1>6
<1>8. \A x \in ToSet(heap) : heap[1].key <= x.key
  <2>1. \A i \in 1 .. Len(heap) : heap[1].key <= heap[i].key
    BY <1>1, HeapNodes, TopIsLeast DEF TreeInv, QueueIsHeap
  <2> QED BY <1>2, <2>1 DEF ToSet
<1> QED BY <1>3, <1>4, <1>7, <1>8 DEF Top

\* The vertices of the tree's edges are in the tree.
LEMMA EdgesInside ==
    ASSUME TreeInv, NEW e \in TreeEdges(added)
    PROVE  e \subseteq added /\ ~ Crosses(e, added)
<1>1. PICK v \in added \ {root} : e = {v, parent[v]}
  BY DEF TreeEdges
<1>2. v \in Vertex \ {root}
  BY <1>1 DEF TreeInv, TreeTypeOK
<1>3. parent[v] \in added
  BY <1>1, <1>2 DEF TreeInv, KnownOK
<1> QED BY <1>1, <1>3 DEF Crosses

\* No edge that leaves the tree is shorter than the key of the vertex at the
\* top of the queue.
LEMMA TopIsNearest ==
    ASSUME TreeInv, todo = {}, heap # <<>>, NEW e \in Edges, Crosses(e, added)
    PROVE  key[Top(heap)] <= dist[e]
<1>1. GraphOK /\ TreeTypeOK /\ added \subseteq Vertex /\ e \in Pair
  BY NeighborsAre DEF TreeInv, TreeTypeOK
<1>2. PICK x \in Vertex, y \in Vertex : e = {x, y} /\ x # y /\ x \in added /\ y \notin added
  <2>1. PICK a \in Vertex, b \in Vertex : a # b /\ e = {a, b}
    BY <1>1, PairIs
  <2> QED BY <2>1 DEF Crosses
<1>3. y \in Neighbors(x)
  BY <1>1, <1>2, NeighborsAre
<1>4. key[y] <= dist[e]
  BY <1>2, <1>3 DEF TreeInv, NearestOK
<1>5. dist[e] \in 0 .. Infinity /\ dist[e] # Infinity /\ key[y] \in 0 .. Infinity
      /\ Infinity \in Nat
  BY <1>1, <1>2, TreeTypes, Distances
<1>6. key[y] # Infinity
  BY <1>4, <1>5
<1>7. y # root
  BY <1>2 DEF TreeInv, LookingOK
<1>8. Node(y, key[y]) \in ToSet(heap)
  BY <1>2, <1>6, <1>7 DEF TreeInv, WaitingOK
<1>9. heap[1].key <= key[y]
  <2>1. Node(y, key[y]).key = key[y]
    BY DEF Node
  <2> QED BY <1>8, <2>1, TopVertex
<1>10. key[Top(heap)] <= heap[1].key /\ heap[1].key \in 0 .. Infinity
       /\ key[Top(heap)] \in 0 .. Infinity
  BY <1>1, TopVertex, TreeTypes, HeapNodes
<1> QED BY <1>4, <1>5, <1>9, <1>10

\* Whatever connects the graph with the edges of the tree can be made to have
\* the edge to the next vertex as well, and weighs no more then.
LEMMA NextEdge ==
    ASSUME TreeInv, todo = {}, heap # <<>>,
           Top(heap) \notin added, Top(heap) # root,
           NEW T \in SUBSET Edges, Spans(T), TreeEdges(added) \subseteq T
    PROVE  \E U \in SUBSET Edges :
              /\ Spans(U)
              /\ TreeEdges(added) \cup {{Top(heap), parent[Top(heap)]}} \subseteq U
              /\ Weight(U) <= Weight(T)
<1> DEFINE v == Top(heap)
           u == parent[v]
           f == {u, v}
           K == TreeEdges(added)
<1>1. /\ GraphOK /\ TreeTypeOK /\ added \in SUBSET Vertex /\ Edges \subseteq Pair
      /\ T \in SUBSET Pair
  BY NeighborsAre DEF TreeInv, TreeTypeOK
<1>2. v \in Vertex \ {root} /\ key[v] # Infinity /\ v \in Vertex \ added
  BY TopVertex
<1>3. u \in added /\ v \in Neighbors(u) /\ key[v] = dist[{v, u}]
  BY <1>2 DEF TreeInv, KnownOK
<1>4. f \in Edges /\ f \in Pair /\ {v, u} = f /\ dist[f] = key[v]
  <2>1. u \in Vertex /\ {v, u} = f
    BY <1>1, <1>3
  <2>2. f \in Edges
    BY <1>1, <1>3, <2>1, NeighborsAre
  <2> QED BY <1>1, <1>3, <2>1, <2>2
<1>5. \A e \in K : ~ Crosses(e, added)
  BY EdgesInside
<1>6. \A e \in Edges : Crosses(e, added) => dist[f] <= dist[e]
  BY <1>4, TopIsNearest
<1> HIDE DEF f, K, u, v
<1>7. PICK R \in SUBSET T :
          K \subseteq R /\ Spans(R) /\ \A e \in R \ K : ~ Spans(R \ {e})
  <2>1. K \in SUBSET T
    BY DEF K
  <2>2. \A Keep \in SUBSET T :
            \E R \in SUBSET T :
                Keep \subseteq R /\ Spans(R) /\ \A e \in R \ Keep : ~ Spans(R \ {e})
    BY <1>1, FewestEdges
  <2> QED BY <2>1, <2>2
<1>8. NeededAcross(R, added)
  BY <1>5, <1>7 DEF NeededAcross
<1>9. R \in SUBSET Pair /\ R \in SUBSET Edges
  BY <1>1, <1>7
<1>10. PICK e \in R, S \in SUBSET Vertex :
          /\ Crosses(e, added) /\ Crosses(e, S)
          /\ \A g \in R \ {e} : ~ Crosses(g, S)
          /\ u \in S /\ v \notin S
  BY <1>1, <1>2, <1>3, <1>7, <1>8, <1>9, NeededBetween
<1>11. Spans((R \ {e}) \cup {f})
  <2>1. Spans((R \ {e}) \cup {{u, v}})
    BY <1>2, <1>7, <1>9, <1>10, Exchanged
  <2> QED BY <2>1 DEF f
<1>12. Weight((R \ {e}) \cup {f}) <= Weight(T)
  <2>1. Weight((R \ {e}) \cup {f}) <= Weight(R)
    BY <1>1, <1>4, <1>6, <1>9, <1>10, WeightExchanged
  <2>2. Weight(R) <= Weight(T)
    BY <1>1, <1>7, WeightMonotone
  <2>3. (R \ {e}) \cup {f} \in SUBSET Pair
    BY <1>4, <1>9
  <2>4. Weight(R) \in Nat /\ Weight(T) \in Nat /\ Weight((R \ {e}) \cup {f}) \in Nat
    BY <1>1, <1>9, <2>3, UnitsFinite
  <2> QED BY <2>1, <2>2, <2>4
<1>13. /\ (R \ {e}) \cup {f} \in SUBSET Edges
       /\ K \cup {f} \subseteq (R \ {e}) \cup {f}
  BY <1>4, <1>5, <1>7, <1>9, <1>10
<1>14. \E U \in SUBSET Edges :
          Spans(U) /\ K \cup {f} \subseteq U /\ Weight(U) <= Weight(T)
  BY <1>11, <1>12, <1>13
<1>15. {Top(heap), parent[Top(heap)]} = f
  BY <1>4 DEF u, v
<1> QED BY <1>14, <1>15 DEF K

LEMMA ExtractTree ==
    ASSUME TreeInv, ExtractVertex
    PROVE  TreeInv'
<1> DEFINE v == Top(heap)
<1>1. /\ todo = {} /\ heap # <<>>
      /\ current' = v /\ heap' = Rest(heap) /\ added' = added \cup {v}
      /\ todo' = Neighbors(v) \ added'
      /\ UNCHANGED <<limit, dist, root, key, parent>>
  <2>1. /\ todo = {} /\ heap # <<>>
        /\ current' = v /\ heap' = Rest(heap) /\ added' = added \cup {current'}
        /\ todo' = Neighbors(current') \ added'
        /\ UNCHANGED <<limit, dist, root, key, parent>>
    BY DEF ExtractVertex
  <2> QED BY <2>1
<1>2. /\ heap[1] \in ToSet(heap) /\ heap[1] \in HeapNode
      /\ v \in Vertex /\ v = heap[1].name /\ key[v] # Infinity
  BY <1>1, TopVertex
<1> HIDE DEF v
<1>3. GraphOK /\ GraphOK' /\ \A x : Neighbors(x)' = Neighbors(x)
  BY <1>1, GraphStays DEF TreeInv
<1>4. TreeTypeOK /\ added \subseteq Vertex /\ heap \in Seq(HeapNode)
  BY <1>3, TreeTypes DEF TreeInv, TreeTypeOK
<1>5. /\ heap' \in Seq(HeapNode)
      /\ ToSet(heap') \subseteq ToSet(heap)
      /\ ToSet(heap) \subseteq ToSet(heap') \cup {heap[1]}
      /\ IsHeap(heap')
  <2>1. IsHeap(heap)
    BY DEF TreeInv, QueueIsHeap
  <2> QED BY <1>1, <1>4, <2>1, HeapNodes, RestProperties
<1>6. TreeTypeOK'
  <2>1. heap' \in Seq([name : Vertex, key : 0 .. Infinity])
    BY <1>5 DEF HeapNode
  <2>2. todo' \subseteq Vertex /\ added' \subseteq Vertex
        /\ current' \in Vertex \cup {NoParent}
    BY <1>1, <1>2, <1>3, <1>4, NeighborsAre
  <2> QED BY <1>1, <1>4, <2>1, <2>2 DEF TreeTypeOK
<1>7. QueueIsHeap'
  BY <1>5 DEF QueueIsHeap, IsHeap
<1>8. LookingOK'
  <2>1. parent'[root'] = NoParent
    BY <1>1 DEF TreeInv, LookingOK
  <2>2. root \in added'
    <3>1. CASE added = {}
      <4>1. heap[1] = Node(root, 0)
        BY <1>2, <3>1 DEF TreeInv, LookingOK
      <4>2. v = root
        BY <1>2, <4>1 DEF Node
      <4> QED BY <1>1, <4>2
    <3>2. CASE added # {}
      BY <1>1, <3>2 DEF TreeInv, LookingOK
    <3> QED BY <3>1, <3>2
  <2>3. todo' # {} => current' \in added'
    BY <1>1
  <2>4. \A w \in todo' : w \notin added' /\ w \in Neighbors(v)
    BY <1>1
  <2>5. \A w \in Neighbors(v) : w \in Neighbors(current)'
    BY <1>1 DEF Neighbors, MaxDegree
  <2> QED BY <1>1, <2>1, <2>2, <2>3, <2>4, <2>5 DEF LookingOK
<1>9. KnownOK'
  <2> SUFFICES ASSUME NEW w \in Vertex \ {root}
               PROVE  \/ key[w] = Infinity /\ w \notin added'
                      \/ /\ parent[w] \in added'
                         /\ w \in Neighbors(parent[w])
                         /\ key[w] = dist[{w, parent[w]}]
    BY <1>1, <1>3 DEF KnownOK
  <2> QED BY <1>1, <1>2 DEF TreeInv, KnownOK
<1>10. NearestOK'
  <2> SUFFICES ASSUME NEW w \in Vertex \ added', NEW u \in added',
                      w \in Neighbors(u), ~ (u = v /\ w \in todo')
               PROVE  key[w] <= dist[{u, w}]
    BY <1>1, <1>3 DEF NearestOK
  <2>1. u # v
    BY <1>1
  <2>2. u \in added /\ w \in Vertex \ added
    BY <1>1, <2>1
  <2> QED BY <1>1, <2>2 DEF TreeInv, NearestOK
<1>11. WaitingOK'
  <2> SUFFICES ASSUME NEW w \in Vertex \ (added' \cup {root}), key[w] # Infinity
               PROVE  Node(w, key[w]) \in ToSet(heap')
    BY <1>1 DEF WaitingOK
  <2>1. w \in Vertex \ (added \cup {root}) /\ w # v
    BY <1>1
  <2>2. Node(w, key[w]) \in ToSet(heap)
    BY <2>1 DEF TreeInv, WaitingOK
  <2>3. Node(w, key[w]) # heap[1]
    BY <1>2, <2>1 DEF Node
  <2> QED BY <1>5, <2>2, <2>3
<1>12. CopiesOK'
  BY <1>1, <1>5 DEF TreeInv, CopiesOK
<1>13. ReachedOK'
  <2> SUFFICES ASSUME NEW S \in SUBSET Vertex, root \in S,
                      \A w \in added' : parent[w] \in S => w \in S
               PROVE  added' \subseteq S
    BY <1>1 DEF ReachedOK
  <2>1. added \subseteq S
    BY <1>1 DEF TreeInv, ReachedOK
  <2>2. v \in S
    <3>1. CASE v # root
      <4>1. parent[v] \in added
        BY <1>2, <3>1 DEF TreeInv, KnownOK
      <4> QED BY <1>1, <2>1, <4>1
    <3> QED BY <3>1
  <2> QED BY <1>1, <2>1, <2>2
<1>14. LightestOK'
  <2>1. CASE v \in added \/ v = root
    <3>1. TreeEdges(added)' = TreeEdges(added)
      BY <1>1, <2>1 DEF TreeEdges
    <3> QED BY <1>1, <3>1, LightestStays DEF TreeInv
  <2>2. CASE v \notin added /\ v # root
    <3>1. TreeEdges(added)' = TreeEdges(added) \cup {{v, parent[v]}}
      BY <1>1, <2>2 DEF TreeEdges
    <3>2. Edges' = Edges /\ \A T : Weight(T)' = Weight(T)
      BY <1>1, <1>3, GraphStays
    <3> SUFFICES ASSUME NEW T \in SUBSET Edges, Spans(T)
                 PROVE  \E U \in SUBSET Edges :
                           /\ Spans(U)
                           /\ TreeEdges(added) \cup {{v, parent[v]}} \subseteq U
                           /\ Weight(U) <= Weight(T)
      BY <3>1, <3>2 DEF LightestOK
    <3>3. PICK R \in SUBSET Edges :
              Spans(R) /\ TreeEdges(added) \subseteq R /\ Weight(R) <= Weight(T)
      BY DEF TreeInv, LightestOK
    <3>4. PICK U \in SUBSET Edges :
              /\ Spans(U)
              /\ TreeEdges(added) \cup {{v, parent[v]}} \subseteq U
              /\ Weight(U) <= Weight(R)
      <4>1. Top(heap) \notin added /\ Top(heap) # root
        BY <2>2 DEF v
      <4> QED BY <1>1, <3>3, <4>1, NextEdge DEF v
    <3>5. Weight(U) \in Nat /\ Weight(R) \in Nat /\ Weight(T) \in Nat
      <4>1. Edges \subseteq Pair
        BY <1>3, NeighborsAre
      <4> QED BY <1>3, <4>1, UnitsFinite
    <3>6. Weight(U) <= Weight(T)
      BY <3>3, <3>4, <3>5
    <3> QED BY <3>4, <3>6
  <2> QED BY <2>1, <2>2
<1> QED BY <1>3, <1>6, <1>7, <1>8, <1>9, <1>10, <1>11, <1>12, <1>13, <1>14 DEF TreeInv
-----------------------------------------------------------------------------
(***************************************************************************)
(* What holds throughout.                                                  *)
(***************************************************************************)

LEMMA TreeStep ==
    ASSUME TreeInv, [TreeNext]_treeVars
    PROVE  TreeInv'
<1>1. CASE ExtractVertex
  BY <1>1, ExtractTree
<1>2. CASE Update
  BY <1>2, UpdateTree
<1>3. CASE Skip
  BY <1>3, SkipTree
<1>4. CASE UNCHANGED treeVars
  <2>1. UNCHANGED <<limit, dist, root, key, parent, added, current, todo, heap>>
    BY <1>4 DEF treeVars
  <2>2. GraphOK' /\ \A v : Neighbors(v)' = Neighbors(v)
    BY <2>1, GraphStays DEF TreeInv
  <2>3. TreeTypeOK' /\ QueueIsHeap'
    BY <2>1 DEF TreeInv, TreeTypeOK, QueueIsHeap, IsHeap
  <2>4. LookingOK'
    <3>1. \A w \in Neighbors(current) : w \in Neighbors(current)'
      BY <2>1 DEF Neighbors, MaxDegree
    <3> QED BY <2>1, <3>1 DEF TreeInv, LookingOK
  <2>5. KnownOK'
    <3>1. KnownOK
      BY DEF TreeInv
    <3>2. \A w \in Vertex : w \in Neighbors(parent[w]) => w \in Neighbors(parent[w])'
      BY <2>1 DEF Neighbors, MaxDegree
    <3> QED BY <2>1, <3>1, <3>2 DEF KnownOK
  <2>6. NearestOK'
    BY <2>1, <2>2 DEF TreeInv, NearestOK
  <2>7. WaitingOK' /\ CopiesOK' /\ ReachedOK'
    BY <2>1 DEF TreeInv, WaitingOK, CopiesOK, ReachedOK
  <2>8. LightestOK'
    <3>1. TreeEdges(added)' = TreeEdges(added)
      BY <2>1 DEF TreeEdges
    <3> QED BY <2>1, <3>1, LightestStays DEF TreeInv
  <2> QED BY <2>2, <2>3, <2>4, <2>5, <2>6, <2>7, <2>8 DEF TreeInv
<1> QED BY <1>1, <1>2, <1>3, <1>4 DEF TreeNext

LEMMA TreeInvariance == TreeSpec => []TreeInv
<1>1. TreeInit => TreeInv
  BY InitTree
<1>2. TreeInv /\ [TreeNext]_treeVars => TreeInv'
  BY TreeStep
<1> QED BY <1>1, <1>2, PTL DEF TreeSpec

\* Construct keeps to the types, and the key of the root stays 0: the root is
\* never found to be nearer to another vertex.
THEOREM TreeTypeCorrect == TreeSpec => []TreeTypeOK
<1>1. TreeInv => TreeTypeOK
  BY DEF TreeInv
<1> QED BY <1>1, TreeInvariance, PTL

\* Insert and ExtractTop of the priority queue keep it a heap, for heaps of
\* every size and with equal keys.
THEOREM QueueStaysHeap == TreeSpec => []QueueIsHeap
<1>1. TreeInv => QueueIsHeap
  BY DEF TreeInv
<1> QED BY <1>1, TreeInvariance, PTL

\* Between two extractions each key is the distance from the tree, and the
\* queue has every vertex next to the tree with its present key.
THEOREM FrontierIsQueued == TreeSpec => []FrontierQueued
<1>1. ASSUME TreeInv, todo = {}, NEW w \in Vertex \ (added \cup {root})
      PROVE  LET near == {v \in added : w \in Neighbors(v)}
             IN  /\ key[w] = Min({dist[{v, w}] : v \in near} \cup {Infinity})
                 /\ near # {} => Node(w, key[w]) \in ToSet(heap)
  <2> DEFINE near == {v \in added : w \in Neighbors(v)}
             S == {dist[{v, w}] : v \in near} \cup {Infinity}
  <2>1. GraphOK /\ TreeTypeOK /\ added \subseteq Vertex /\ Infinity \in Nat
    BY <1>1, Distances DEF TreeInv, TreeTypeOK
  <2>2. \A v \in near : dist[{v, w}] \in 0 .. Infinity /\ dist[{v, w}] # Infinity
    BY <2>1, TreeTypes
  <2>3. \A v \in near : key[w] <= dist[{v, w}]
    BY <1>1 DEF TreeInv, NearestOK
  <2>4. key[w] \in 0 .. Infinity
    BY <2>1, TreeTypes
  <2>5. key[w] \in S
    <3>1. CASE key[w] = Infinity
      BY <3>1
    <3>2. CASE key[w] # Infinity
      <4>1. /\ parent[w] \in near
            /\ key[w] = dist[{w, parent[w]}]
        BY <1>1, <3>2 DEF TreeInv, KnownOK
      <4>2. {w, parent[w]} = {parent[w], w}
        OBVIOUS
      <4> HIDE DEF near
      <4> QED BY <4>1, <4>2
    <3> QED BY <3>1, <3>2
  <2>6. ASSUME NEW y \in S
        PROVE  y \in Nat /\ key[w] <= y
    <3>1. CASE y = Infinity
      BY <2>1, <2>4, <3>1
    <3>2. CASE y # Infinity
      <4>1. PICK v \in near : y = dist[{v, w}]
        BY <3>2
      <4> HIDE DEF near
      <4>2. y \in 0 .. Infinity /\ key[w] <= y
        BY <2>2, <2>3, <4>1
      <4> QED BY <2>1, <4>2
    <3> QED BY <3>1, <3>2
  <2>7. S \in SUBSET Nat /\ \A y \in S : key[w] <= y
    <3> HIDE DEF S
    <3> QED BY <2>6
  <2>8. key[w] = Min(S)
    <3> HIDE DEF S
    <3> QED BY <2>5, <2>7, MinIs
  <2>9. ASSUME near # {}
        PROVE  Node(w, key[w]) \in ToSet(heap)
    <3>1. PICK v \in near : TRUE
      BY <2>9
    <3> HIDE DEF near
    <3>2. key[w] # Infinity
      <4>1. /\ dist[{v, w}] \in 0 .. Infinity /\ dist[{v, w}] # Infinity
            /\ key[w] <= dist[{v, w}]
        BY <2>2, <2>3, <3>1
      <4> QED BY <2>1, <2>4, <4>1
    <3> QED BY <1>1, <3>2 DEF TreeInv, WaitingOK
  <2> QED BY <2>8, <2>9
<1>2. TreeInv => FrontierQueued
  BY <1>1 DEF FrontierQueued
<1> QED BY <1>2, TreeInvariance, PTL

\* "Output: minimum spanning tree", for every graph of GenerateGraph: the
\* parents lead from the root to every vertex, and what weighs less does not
\* connect the graph.
THEOREM TreeIsMinimum == TreeSpec => []MinimumTree
<1>1. ASSUME TreeInv, Done
      PROVE  /\ parent[root] = NoParent
             /\ Visited(root) = Vertex
             /\ \A tree \in SUBSET Edges :
                   Weight(tree) < Weight({{v, parent[v]} : v \in Vertex \ {root}})
                   => ~ Spans(tree)
  <2>1. added = Vertex /\ GraphOK /\ parent[root] = NoParent
    BY <1>1 DEF Done, TreeInv, LookingOK
  <2>2. Visited(root) = Vertex
    <3> SUFFICES ASSUME NEW w \in Vertex, NEW S \in SUBSET Vertex, root \in S,
                        \A x \in S : Children(x) \subseteq S
                 PROVE  w \in S
      BY DEF Visited
    <3>1. \A x \in added : parent[x] \in S => x \in S
      BY <2>1 DEF Children
    <3> QED BY <1>1, <2>1, <3>1 DEF TreeInv, ReachedOK
  <2>3. ASSUME NEW tree \in SUBSET Edges, Spans(tree),
               Weight(tree) < Weight(TreeEdges(Vertex))
        PROVE  FALSE
    <3>1. PICK U \in SUBSET Edges :
              TreeEdges(Vertex) \subseteq U /\ Weight(U) <= Weight(tree)
      BY <1>1, <2>1, <2>3 DEF TreeInv, LightestOK
    <3>2. U \in SUBSET Pair /\ tree \in SUBSET Pair /\ TreeEdges(Vertex) \in SUBSET U
          /\ TreeEdges(Vertex) \in SUBSET Pair
      BY <2>1, <3>1, NeighborsAre
    <3>3. Weight(TreeEdges(Vertex)) <= Weight(U)
      BY <2>1, <3>2, WeightMonotone
    <3>4. /\ Weight(TreeEdges(Vertex)) \in Nat
          /\ Weight(U) \in Nat /\ Weight(tree) \in Nat
      BY <2>1, <3>2, UnitsFinite
    <3> QED BY <2>3, <3>1, <3>3, <3>4
  <2> QED BY <2>1, <2>2, <2>3 DEF TreeEdges
<1>2. TreeInv => MinimumTree
  <2>1. \A tree \in kSubset(N - 1, Edges) : tree \in SUBSET Edges
    BY DEF kSubset
  <2> QED BY <1>1, <2>1 DEF MinimumTree
<1> QED BY <1>2, TreeInvariance, PTL

\* The edges of generateEdges connect the graph, limited or not.
LEMMA GraphConnected ==
    ASSUME GraphOK, NEW S \in SUBSET Vertex, S # {}, S # Vertex
    PROVE  \E x \in S, y \in Vertex \ S : y \in Neighbors(x)
<1> SUFFICES ASSUME \A x \in S : \A y \in Vertex \ S : y \notin Neighbors(x)
             PROVE  FALSE
  OBVIOUS
<1> DEFINE In(i) == Nodes[i] \in S
           Same == {t \in Nat : t + 1 \in 1 .. N => (In(t + 1) <=> In(1))}
<1>1. \A i \in 1 .. N : Index(Nodes[i]) = i
  <2> TAKE i \in 1 .. N
  <2>1. Index(Nodes[i]) \in 1 .. N /\ Nodes[Index(Nodes[i])] = Nodes[i]
    BY Vertices
  <2> QED BY <2>1, NodesAssumption DEF IsInjective, N
<1>2. ASSUME NEW i \in 1 .. N, i + 1 \in 1 .. N
      PROVE  In(i + 1) <=> In(i)
  <2>1. N >= 2 /\ N \in Nat
    BY <1>2, Vertices
  <2>2. MaxDegree \in Nat /\ MaxDegree >= 1
    BY <2>1 DEF MaxDegree, GraphOK
  <2>3. Index(Nodes[i]) = i /\ Index(Nodes[i + 1]) = i + 1
        /\ Nodes[i] \in Vertex /\ Nodes[i + 1] \in Vertex
    BY <1>1, <1>2, Vertices
  <2>4. Nodes[i + 1] # Nodes[i]
    BY <2>3
  <2>5. (i + 1) - i \in (0 - MaxDegree) .. MaxDegree
    BY <2>2
  <2>6. Nodes[i + 1] \in Neighbors(Nodes[i])
    BY <2>3, <2>4, <2>5 DEF Neighbors
  <2>7. Nodes[i] \in Neighbors(Nodes[i + 1])
    BY <2>3, <2>6, NeighborsAre
  <2> QED BY <2>3, <2>6, <2>7
<1> HIDE DEF In
<1>3. 0 \in Same
  OBVIOUS
<1>4. ASSUME NEW t \in Nat, t \in Same
      PROVE  t + 1 \in Same
  <2>1. ASSUME (t + 1) + 1 \in 1 .. N
        PROVE  t + 1 \in 1 .. N
    BY <2>1, Vertices
  <2> QED BY <1>2, <1>4, <2>1
<1>5. Nat \subseteq Same
  <2> HIDE DEF Same
  <2> QED BY <1>3, <1>4, AllNaturals
<1>6. ASSUME NEW i \in 1 .. N
      PROVE  In(i) <=> In(1)
  <2>1. i - 1 \in Nat /\ (i - 1) + 1 = i
    OBVIOUS
  <2> QED BY <1>5, <2>1
<1>7. ASSUME NEW v \in Vertex
      PROVE  v \in S <=> In(1)
  <2>1. Index(v) \in 1 .. N /\ Nodes[Index(v)] = v
    BY Vertices
  <2> QED BY <1>6, <2>1 DEF In
<1> QED BY <1>7

\* The loop runs until every vertex is added, and until then the queue has one
\* for it, so ExtractTop never returns the empty name, which nodeMap has no
\* vertex for.
THEOREM QueueNotExhausted ==
    TreeSpec => [](/\ Cardinality(added) < N <=> added # Vertex
                   /\ todo = {} /\ Cardinality(added) < N => heap # <<>>)
<1>1. Cardinality(Vertex) = N /\ N \in Nat /\ IsFiniteSet(Vertex)
  <2>1. N \in Nat /\ Nodes \in [1 .. N -> Vertex]
    BY NodesAssumption DEF N, Vertex, ToSet
  <2>2. Nodes \in Bijection(1 .. N, Vertex)
    BY <2>1, NodesAssumption, Vertices
       DEF Bijection, Injection, Surjection, IsInjective
  <2> QED BY <2>1, <2>2, Vertices, FS_CountingElements DEF ExistsBijection
<1>2. ASSUME added \subseteq Vertex
      PROVE  Cardinality(added) < N <=> added # Vertex
  <2>1. Cardinality(added) \in Nat
    BY <1>1, <1>2, FS_Subset, FS_CardinalityType
  <2>2. Cardinality(added) <= N /\ (N = Cardinality(added) => Vertex = added)
    BY <1>1, <1>2, FS_Subset
  <2> QED BY <1>1, <2>1, <2>2
<1>3. ASSUME TreeInv, todo = {}, Cardinality(added) < N, heap = <<>>
      PROVE  FALSE
  <2>1. ToSet(heap) = {}
    BY <1>3 DEF ToSet
  <2>2. GraphOK /\ TreeTypeOK /\ added \subseteq Vertex /\ root \in Vertex
    BY <1>3 DEF TreeInv, TreeTypeOK, GraphOK
  <2>3. added # {} /\ root \in added
    BY <1>3, <2>1 DEF TreeInv, LookingOK
  <2>4. added # Vertex
    BY <1>2, <1>3, <2>2
  <2>5. PICK x \in added, y \in Vertex \ added : y \in Neighbors(x)
    BY <2>2, <2>3, <2>4, GraphConnected
  <2>6. key[y] <= dist[{x, y}]
    BY <1>3, <2>5 DEF TreeInv, NearestOK
  <2>7. /\ dist[{x, y}] \in 0 .. Infinity /\ dist[{x, y}] # Infinity
        /\ key[y] \in 0 .. Infinity /\ Infinity \in Nat
    BY <2>2, <2>5, TreeTypes, Distances
  <2>8. key[y] # Infinity
    BY <2>6, <2>7
  <2>9. Node(y, key[y]) \in ToSet(heap)
    BY <1>3, <2>3, <2>5, <2>8 DEF TreeInv, WaitingOK
  <2> QED BY <2>1, <2>9
<1>4. TreeInv => /\ Cardinality(added) < N <=> added # Vertex
                 /\ todo = {} /\ Cardinality(added) < N => heap # <<>>
  BY <1>2, <1>3 DEF TreeInv, TreeTypeOK
<1> QED BY <1>4, TreeInvariance, PTL

-----------------------------------------------------------------------------
(***************************************************************************)
(* Progress.                                                               *)
(***************************************************************************)

\* As many elements as the keys add up to.
KeyUnits(f) == UNION {{v} \X (1 .. f[v]) : v \in Vertex}
KeySum == Cardinality(KeyUnits(key))

LEMMA KeyUnitsFinite ==
    ASSUME NEW f \in [Vertex -> 0 .. Infinity]
    PROVE  IsFiniteSet(KeyUnits(f)) /\ Cardinality(KeyUnits(f)) \in Nat
<1> DEFINE All == Vertex \X (1 .. Infinity)
<1>1. Infinity \in Nat
  BY Distances
<1>2. IsFiniteSet(All)
  <2>1. IsFiniteSet(1 .. Infinity)
    BY <1>1, FS_Interval
  <2> QED BY <2>1, Vertices, FS_Product
<1>3. KeyUnits(f) \in SUBSET All
  <2>1. ASSUME NEW v \in Vertex, NEW i \in 1 .. f[v]
        PROVE  <<v, i>> \in All
    <3>1. f[v] \in 0 .. Infinity
      OBVIOUS
    <3>2. i \in 1 .. Infinity
      BY <1>1, <3>1
    <3> QED BY <3>2
  <2>2. \A x \in KeyUnits(f) : \E v \in Vertex : \E i \in 1 .. f[v] : x = <<v, i>>
    BY DEF KeyUnits
  <2> HIDE DEF All
  <2> QED BY <2>1, <2>2
<1> HIDE DEF All
<1>4. IsFiniteSet(KeyUnits(f))
  BY <1>2, <1>3, FS_Subset
<1> QED BY <1>4, FS_CardinalityType

\* A key that is lowered lowers their sum.
LEMMA KeyLowered ==
    ASSUME NEW f \in [Vertex -> 0 .. Infinity], NEW g \in [Vertex -> 0 .. Infinity],
           NEW w \in Vertex, g[w] < f[w], \A v \in Vertex : v # w => g[v] = f[v]
    PROVE  Cardinality(KeyUnits(g)) < Cardinality(KeyUnits(f))
<1>1. Infinity \in Nat
  BY Distances
<1>2. \A v \in Vertex : g[v] \in Nat /\ f[v] \in Nat /\ g[v] <= f[v]
  <2> TAKE v \in Vertex
  <2>1. g[v] \in 0 .. Infinity /\ f[v] \in 0 .. Infinity
    OBVIOUS
  <2>2. g[v] <= f[v]
    BY <1>1, <2>1
  <2> QED BY <1>1, <2>1, <2>2
<1>3. KeyUnits(g) \in SUBSET KeyUnits(f)
  <2>1. \A v \in Vertex : 1 .. g[v] \subseteq 1 .. f[v]
    BY <1>2
  <2> QED BY <2>1 DEF KeyUnits
<1>4. <<w, f[w]>> \in KeyUnits(f) /\ <<w, f[w]>> \notin KeyUnits(g)
  <2>1. f[w] \in 1 .. f[w] /\ f[w] \notin 1 .. g[w]
    BY <1>2
  <2> QED BY <2>1 DEF KeyUnits
<1>5. KeyUnits(g) # KeyUnits(f)
  BY <1>4
<1>6. /\ Cardinality(KeyUnits(g)) <= Cardinality(KeyUnits(f))
      /\ Cardinality(KeyUnits(f)) # Cardinality(KeyUnits(g))
  BY <1>3, <1>5, KeyUnitsFinite, FS_Subset
<1>7. Cardinality(KeyUnits(g)) \in Nat /\ Cardinality(KeyUnits(f)) \in Nat
  BY KeyUnitsFinite
<1> QED BY <1>6, <1>7

\* Either a key is lowered, or the queue gets shorter, or there are fewer
\* neighbors to look at.
Progress ==
    \/ KeySum' < KeySum
    \/ /\ KeySum' = KeySum
       /\ \/ Len(heap') < Len(heap)
          \/ Len(heap') = Len(heap) /\ Cardinality(todo') < Cardinality(todo)

\* Each step of Construct comes nearer to its end, in numbers that cannot go
\* down for ever: although copies of a vertex are inserted while others are
\* extracted, the loop does not go round in circles.
THEOREM ConstructProgresses ==
    TreeSpec => /\ [](KeySum \in Nat /\ Len(heap) \in Nat /\ Cardinality(todo) \in Nat)
                /\ [][Progress]_treeVars
<1>1. ASSUME TreeInv
      PROVE  /\ key \in [Vertex -> 0 .. Infinity]
             /\ heap \in Seq(HeapNode) /\ Len(heap) \in Nat
             /\ KeySum \in Nat
             /\ IsFiniteSet(todo) /\ Cardinality(todo) \in Nat
  <2>1. GraphOK /\ TreeTypeOK /\ heap \in Seq(HeapNode) /\ todo \in SUBSET Vertex
    BY <1>1, TreeTypes DEF TreeInv, TreeTypeOK
  <2>2. key \in [Vertex -> 0 .. Infinity]
    <3>1. \A v \in Vertex : key[v] \in 0 .. Infinity
      BY <2>1, TreeTypes
    <3>2. key = [v \in Vertex |-> key[v]]
      BY <2>1 DEF TreeTypeOK
    <3> QED BY <3>1, <3>2
  <2>3. IsFiniteSet(todo) /\ Cardinality(todo) \in Nat
    BY <2>1, Vertices, FS_Subset, FS_CardinalityType
  <2>4. KeySum \in Nat
    BY <2>2, KeyUnitsFinite DEF KeySum
  <2> QED BY <2>1, <2>2, <2>3, <2>4
<1>2. ASSUME TreeInv, TreeInv', TreeNext
      PROVE  Progress
  <2>1. CASE ExtractVertex
    <3>1. heap # <<>> /\ heap' = Rest(heap) /\ key' = key
      BY <2>1 DEF ExtractVertex
    <3>2. Keyed(HeapNode)
      BY HeapNodes
    <3>3. Len(Rest(heap)) = Len(heap) - 1
      BY <1>1, <1>2, <3>1, <3>2, RestProperties
    <3>4. Len(heap') < Len(heap)
      BY <1>1, <1>2, <3>1, <3>3
    <3> QED BY <3>1, <3>4 DEF Progress, KeySum
  <2>2. CASE Update
    <3> DEFINE w == NextOf(todo)
               d == dist[{current, w}]
    <3>1. todo # {} /\ d < key[w] /\ key' = [key EXCEPT ![w] = d]
      BY <2>2 DEF Update, Nearer, Cost
    <3>2. w \in Vertex
      BY <1>2, <3>1, Looked
    <3>3. key \in [Vertex -> 0 .. Infinity]
      BY <1>1, <1>2
    <3>4. key' \in [Vertex -> 0 .. Infinity]
      <4>1. key' \in [Vertex -> Weights \cup {0, Infinity}]
        BY <1>2 DEF TreeInv, TreeTypeOK
      <4>2. \A t \in Weights \cup {0, Infinity} : t \in 0 .. Infinity
        BY Distances
      <4>3. Weights \cup {0, Infinity} \subseteq 0 .. Infinity
        BY <4>2
      <4> QED BY <4>1, <4>3
    <3> HIDE DEF w, d
    <3>5. key'[w] < key[w] /\ \A v \in Vertex : v # w => key'[v] = key[v]
      BY <3>1, <3>2, <3>3
    <3>6. Cardinality(KeyUnits(key')) < Cardinality(KeyUnits(key))
      BY <3>2, <3>3, <3>4, <3>5, KeyLowered
    <3> QED BY <3>6 DEF Progress, KeySum
  <2>3. CASE Skip
    <3> DEFINE w == NextOf(todo)
    <3>1. todo # {} /\ todo' = todo \ {w} /\ heap' = heap /\ key' = key
      BY <2>3 DEF Skip
    <3>2. w \in todo
      BY <1>2, <3>1, Looked
    <3> HIDE DEF w
    <3>3. Cardinality(todo') = Cardinality(todo) - 1
      <4>1. IsFiniteSet(todo)
        BY <1>1, <1>2
      <4> QED BY <3>1, <3>2, <4>1, FS_RemoveElement
    <3>4. Cardinality(todo') < Cardinality(todo)
      BY <1>1, <1>2, <3>3
    <3> QED BY <3>1, <3>4 DEF Progress, KeySum
  <2> QED BY <1>2, <2>1, <2>2, <2>3 DEF TreeNext
<1>3. TreeInv => KeySum \in Nat /\ Len(heap) \in Nat /\ Cardinality(todo) \in Nat
  BY <1>1
<1>4. TreeInv /\ TreeInv' /\ [TreeNext]_treeVars => [Progress]_treeVars
  BY <1>2
<1> QED BY <1>3, <1>4, TreeInvariance, PTL DEF TreeSpec
=============================================================================
