-------------------------- MODULE MapsSearch_proofs --------------------------
(***************************************************************************)
(* Proofs about a search at Google Maps, for any place types, any pages of *)
(* results, any number of results asked for and any limit of rounds.       *)
(***************************************************************************)
EXTENDS MapsSearch, FiniteSetTheorems, TLAPS

Types == ToSet(PlaceTypes)

Searching == {"loop", "types", "details", "append"}
Ending == {"log", "signal", "ended"}

Typed ==
    /\ caller \in {"waiting", "answered", "timed out", "torn"}
    /\ pc \in Searching \cup Ending \cup {"dead"}
    /\ reqTimes \in 0 .. MaxRequestTimes
    /\ total \in Nat
    /\ type \in 1 .. Len(PlaceTypes) + 1
    /\ token \in [Types -> Nat]
    /\ page \in Pages \cup {<<>>}
    /\ places \in Seq(Place)
    /\ result \in Seq(Place)
    /\ asked \in [Types -> Seq(Nat)]
    /\ pc \in Searching => reqTimes < MaxRequestTimes
    /\ pc \in {"details", "append"} => type \in DOMAIN PlaceTypes

\* The pages a type has been asked for.
InOrder(t) == asked[t] = [n \in 1 .. Len(asked[t]) |-> n]

\* A type has had its turn in this round, or is having it.
HadTurn(j) == j < type \/ (j = type /\ pc \in {"details", "append"})

\* A type is asked for at most one page in each round.
OncePerRound(j) ==
    LET t == PlaceTypes[j]
    IN  /\ Len(asked[t]) <= MaxRequestTimes
        /\ pc = "loop" => Len(asked[t]) <= reqTimes
        /\ pc \in Searching \ {"loop"} =>
              Len(asked[t]) <= IF HadTurn(j) THEN reqTimes + 1 ELSE reqTimes

\* The token a type has is of the page after the last one.
NextToken(t) == token[t] = 0 \/ (token[t] >= 2 /\ token[t] = Len(asked[t]) + 1)

\* Another page of a type may be asked for, in this round or in a later one.
MayBeAsked(j) ==
    \/ pc = "loop" /\ ~ err
    \/ pc \in Searching \ {"loop"} /\ ~ HadTurn(j)
    \/ pc \in Searching \ {"loop"} /\ j < type /\ ~ err

\* A type that may be asked for another page has the right token.
TokenInv(j) ==
    /\ token[PlaceTypes[j]] <= MaxRequestTimes + 1
    /\ MayBeAsked(j) => NextToken(PlaceTypes[j])
    /\ pc \in {"details", "append"} /\ j = type =>
          PageOf(PlaceTypes[j]) = Len(asked[PlaceTypes[j]])

PlacesInv ==
    /\ IsInjective(places)
    /\ IsInjective(result)
    /\ ToSet(places) = found
    /\ caller = "answered" => pc = "ended" /\ result = places

\* The search ends for one of three reasons.
EndInv ==
    pc \in Ending => err \/ total >= MinNumResults \/ reqTimes = MaxRequestTimes

Inv ==
    /\ Typed
    /\ \A t \in Types : InOrder(t)
    /\ \A j \in DOMAIN PlaceTypes : OncePerRound(j) /\ TokenInv(j)
    /\ PlacesInv
    /\ EndInv
-----------------------------------------------------------------------------
(***************************************************************************)
(* What is appended.                                                       *)
(***************************************************************************)

UpTo(S, k) == {j \in S : j <= k}

\* Ranks of the elements of a finite set of naturals: one for each number.
LEMMA NthEnumerates ==
    ASSUME NEW S \in SUBSET Nat, IsFiniteSet(S)
    PROVE  /\ \A n \in 1 .. Cardinality(S) :
                 Nth(S, n) \in S /\ Cardinality(UpTo(S, Nth(S, n))) = n
           /\ \A k \in S : \E n \in 1 .. Cardinality(S) : Nth(S, n) = k
           /\ S # {} => \A k \in S : Nth(S, 1) <= k
<1> DEFINE N == Cardinality(S)
           rank == [k \in S |-> Cardinality(UpTo(S, k))]
<1>1. N \in Nat
  BY FS_CardinalityType
<1>2. ASSUME NEW k \in S
      PROVE  /\ IsFiniteSet(UpTo(S, k))
             /\ Cardinality(UpTo(S, k)) \in 1 .. N
  <2>1. IsFiniteSet(UpTo(S, k)) /\ Cardinality(UpTo(S, k)) <= N
    BY FS_Subset DEF UpTo
  <2>2. Cardinality(UpTo(S, k)) \in Nat
    BY <2>1, FS_CardinalityType
  <2>3. k \in UpTo(S, k)
    BY DEF UpTo
  <2>4. Cardinality(UpTo(S, k)) # 0
    BY <2>1, <2>3, FS_EmptySet
  <2> QED BY <1>1, <2>1, <2>2, <2>4
<1>3. ASSUME NEW k \in S, NEW l \in S, k < l
      PROVE  rank[k] # rank[l]
  <2>1. UpTo(S, k) \in SUBSET UpTo(S, l) /\ UpTo(S, k) # UpTo(S, l)
    <3>1. l \in UpTo(S, l) /\ l \notin UpTo(S, k)
      BY <1>3 DEF UpTo
    <3>2. \A j \in S : j <= k => j <= l
      BY <1>3
    <3>3. UpTo(S, k) \subseteq UpTo(S, l)
      BY <3>2 DEF UpTo
    <3> QED BY <3>1, <3>3
  <2> QED BY <1>2, <2>1, FS_Subset
<1>4. rank \in Injection(S, 1 .. N)
  <2>1. rank \in [S -> 1 .. N]
    BY <1>2
  <2>2. \A k, l \in S : rank[k] = rank[l] => k = l
    <3> HIDE DEF rank
    <3> QED BY <1>3
  <2> QED BY <2>1, <2>2 DEF Injection, IsInjective
<1>5. IsFiniteSet(1 .. N) /\ Cardinality(1 .. N) = N
  BY <1>1, FS_Interval
<1>6. rank \in Surjection(S, 1 .. N)
  <2> HIDE DEF rank
  <2> QED BY <1>4, <1>5, FS_Injection
<1>7. \A n \in 1 .. N : \E k \in S : rank[k] = n
  BY <1>6 DEF Surjection
<1>8. \A n \in 1 .. N : Nth(S, n) \in S /\ rank[Nth(S, n)] = n
  BY <1>7 DEF Nth, UpTo
<1>9. ASSUME NEW k \in S
      PROVE  \E n \in 1 .. N : Nth(S, n) = k
  <2>1. rank[k] \in 1 .. N
    BY <1>4 DEF Injection
  <2>2. /\ Nth(S, rank[k]) \in S
        /\ rank[Nth(S, rank[k])] = rank[k]
    BY <1>8, <2>1
  <2> HIDE DEF rank
  <2>3. Nth(S, rank[k]) = k
    BY <1>4, <2>2 DEF Injection, IsInjective
  <2> QED BY <2>1, <2>3
\* The element of rank one is the least.
<1>10. ASSUME S # {}
       PROVE  Nth(S, 1) \in S /\ Nth(S, 1) \in Nat /\ rank[Nth(S, 1)] = 1
  <2>1. N # 0
    BY <1>10, FS_EmptySet
  <2> HIDE DEF N, rank
  <2>2. 1 \in 1 .. N
    BY <1>1, <2>1
  <2> QED BY <1>8, <2>2
<1>11. ASSUME NEW k \in S, k < Nth(S, 1)
       PROVE  FALSE
  <2> DEFINE l == Nth(S, 1)
  <2>1. l \in S /\ l \in Nat /\ rank[l] = 1
    BY <1>10
  <2> HIDE DEF l
  <2>2. k < l /\ k \in Nat
    BY <1>11 DEF l
  <2>3. UpTo(S, k) \in SUBSET UpTo(S, l)
    <3>1. \A j \in S : j <= k => j <= l
      BY <2>1, <2>2
    <3> QED BY <3>1 DEF UpTo
  <2>4. Cardinality(UpTo(S, k)) <= Cardinality(UpTo(S, l))
    BY <1>2, <2>1, <2>3, FS_Subset
  <2>5. Cardinality(UpTo(S, k)) \in 1 .. N /\ Cardinality(UpTo(S, l)) = 1
    BY <1>2, <2>1
  <2> HIDE DEF N
  <2>6. Cardinality(UpTo(S, k)) = 1
    BY <1>1, <2>4, <2>5
  <2>7. rank[k] = rank[l]
    BY <2>1, <2>6
  <2> HIDE DEF rank
  <2> QED BY <1>3, <2>1, <2>2, <2>7
<1>12. S # {} => \A k \in S : Nth(S, 1) <= k
  <2>1. SUFFICES ASSUME NEW k \in S PROVE Nth(S, 1) <= k
    OBVIOUS
  <2>2. k \in Nat /\ Nth(S, 1) \in Nat
    BY <1>10
  <2> QED BY <1>11, <2>2
<1> QED BY <1>8, <1>9, <1>12

\* What a page adds to the places: each of its places that is new, once.
LEMMA AppendedProperties ==
    ASSUME places \in Seq(Place), IsInjective(places), page \in Pages \cup {<<>>}
    PROVE  /\ Appended \in Seq(Place)
           /\ IsInjective(Appended)
           /\ ToSet(Appended) = ToSet(places) \cup {r.id : r \in ToSet(page)}
<1> DEFINE N == Cardinality(Unseen)
           P == Len(places)
           new == [n \in 1 .. N |-> page[Nth(Unseen, n)].id]
<1>1. page \in Seq(ToSet(page))
  <2>1. <<>> \in Seq(ToSet(<<>>))
    OBVIOUS
  <2> QED BY <2>1, PagesAssumption
<1>2. /\ DOMAIN page = 1 .. Len(page) /\ Len(page) \in Nat
      /\ Unseen \in SUBSET (1 .. Len(page))
  BY <1>1 DEF Unseen
<1>3. IsFiniteSet(Unseen) /\ N \in Nat
  <2>1. IsFiniteSet(1 .. Len(page))
    BY <1>2, FS_Interval
  <2> QED BY <1>2, <2>1, FS_Subset, FS_CardinalityType
<1>4. \A k \in DOMAIN page : page[k] \in ToSet(page) /\ page[k].id \in Place
  <2>1. \A k \in DOMAIN page : page[k] \in ToSet(page) /\ page # <<>>
    BY <1>2 DEF ToSet
  <2> QED BY <2>1 DEF Place
<1>5. /\ \A n \in 1 .. N : /\ Nth(Unseen, n) \in Unseen
                           /\ Cardinality(UpTo(Unseen, Nth(Unseen, n))) = n
      /\ \A k \in Unseen : \E n \in 1 .. N : Nth(Unseen, n) = k
  BY <1>2, <1>3, NthEnumerates
<1>6. \A n, m \in 1 .. N : Nth(Unseen, n) = Nth(Unseen, m) => n = m
  BY <1>5
\* Among the new ones no place is repeated, and none has been there before.
<1>7. \A k, l \in Unseen : page[k].id = page[l].id => k = l
  <2>1. \A k, l \in Unseen : k < l => page[k].id # page[l].id
    BY <1>2 DEF Unseen
  <2> QED BY <1>2, <2>1
<1>8. \A n \in 1 .. N : /\ new[n] = page[Nth(Unseen, n)].id
                        /\ new[n] \in Place
                        /\ new[n] \notin ToSet(places)
  BY <1>4, <1>5 DEF Unseen
<1>9. \A n, m \in 1 .. N : new[n] = new[m] => n = m
  BY <1>5, <1>6, <1>7, <1>8
<1>10. new \in Seq(Place) /\ Len(new) = N
  BY <1>3, <1>8
<1>11. /\ Appended = places \o new /\ Appended \in Seq(Place)
       /\ Len(Appended) = P + N /\ P \in Nat
       /\ \A n \in 1 .. P : Appended[n] = places[n] /\ places[n] \in ToSet(places)
       /\ \A n \in P + 1 .. P + N : n - P \in 1 .. N /\ Appended[n] = new[n - P]
       /\ ToSet(places) = {places[n] : n \in 1 .. P}
       /\ ToSet(Appended) = {Appended[n] : n \in 1 .. P + N}
  <2>1. Appended = places \o new
    BY DEF Appended
  <2> HIDE DEF new
  <2>2. Appended \in Seq(Place) /\ Len(Appended) = P + N /\ P \in Nat
    <3>1. places \o new \in Seq(Place)
      BY <1>10
    <3>2. Len(places \o new) = P + Len(new)
      BY <1>10
    <3> QED BY <1>10, <2>1, <3>1, <3>2
  <2>3. \A n \in 1 .. P : Appended[n] = places[n]
    BY <1>10, <2>1
  <2>4. \A n \in P + 1 .. P + N : n - P \in 1 .. N /\ Appended[n] = new[n - P]
    BY <1>3, <1>10, <2>1, <2>2
  <2>5. DOMAIN places = 1 .. P /\ DOMAIN Appended = 1 .. P + N
    BY <2>2
  <2>6. /\ ToSet(places) = {places[n] : n \in 1 .. P}
        /\ ToSet(Appended) = {Appended[n] : n \in 1 .. P + N}
    BY <2>5 DEF ToSet
  <2> QED BY <2>1, <2>2, <2>3, <2>4, <2>6
<1>12. IsInjective(Appended)
  <2> HIDE DEF new
  <2>1. ASSUME NEW n \in 1 .. P + N, NEW m \in 1 .. P + N,
               Appended[n] = Appended[m], n < m
        PROVE  FALSE
    <3>1. CASE m <= P
      BY <1>11, <2>1, <3>1 DEF IsInjective
    <3>2. CASE n <= P /\ m > P
      BY <1>3, <1>8, <1>11, <2>1, <3>2
    <3>3. CASE n > P
      BY <1>3, <1>9, <1>11, <2>1, <3>3
    <3> QED BY <1>3, <1>11, <3>1, <3>2, <3>3
  <2>2. \A n, m \in 1 .. P + N : n < m => Appended[n] # Appended[m]
    BY <2>1
  <2>3. DOMAIN Appended = 1 .. P + N /\ P + N \in Nat
    BY <1>3, <1>11
  <2>4. ASSUME NEW n \in 1 .. P + N, NEW m \in 1 .. P + N, Appended[n] = Appended[m]
        PROVE  n = m
    <3>1. n < m \/ m < n \/ n = m
      BY <2>3
    <3> QED BY <2>2, <2>4, <3>1
  <2> QED BY <2>3, <2>4 DEF IsInjective
\* Every place of the page is there: the first result with it is new, if the
\* place is.
<1>13. ASSUME NEW k \in DOMAIN page
       PROVE  page[k].id \in ToSet(Appended)
  <2>1. CASE page[k].id \in ToSet(places)
    <3>1. PICK n \in 1 .. P : page[k].id = places[n]
      BY <1>11, <2>1
    <3>2. n \in 1 .. P + N /\ Appended[n] = places[n]
      BY <1>3, <1>11
    <3> QED BY <1>11, <3>1, <3>2
  <2>2. CASE page[k].id \notin ToSet(places)
    <3> DEFINE likes == {j \in DOMAIN page : page[j].id = page[k].id}
    <3>1. PICK l \in likes : \A j \in likes : l <= j
      <4>1. likes \in SUBSET (1 .. Len(page)) /\ likes # {}
        BY <1>2
      <4> HIDE DEF likes
      <4>2. IsFiniteSet(1 .. Len(page))
        BY <1>2, FS_Interval
      <4>3. IsFiniteSet(likes) /\ likes \in SUBSET Nat
        <5>1. 1 .. Len(page) \subseteq Nat
          BY <1>2
        <5>2. IsFiniteSet(likes)
          BY <4>1, <4>2, FS_Subset
        <5> QED BY <4>1, <5>1, <5>2
      <4>4. Cardinality(likes) \in Nat \ {0}
        BY <4>1, <4>3, FS_CardinalityType, FS_EmptySet
      <4>5. 1 \in 1 .. Cardinality(likes)
        BY <4>4
      <4>6. Nth(likes, 1) \in likes /\ \A j \in likes : Nth(likes, 1) <= j
        BY <4>1, <4>3, <4>5, NthEnumerates
      <4> QED BY <4>6
    <3>2. l \in Unseen
      BY <1>2, <2>2, <3>1 DEF Unseen
    <3>3. PICK n \in 1 .. N : Nth(Unseen, n) = l
      BY <1>5, <3>2
    <3>4. Appended[P + n] = new[n] /\ P + n \in 1 .. P + N
      BY <1>3, <1>11
    <3>5. new[n] = page[k].id
      BY <1>8, <3>1, <3>3
    <3> QED BY <1>11, <3>4, <3>5
  <2> QED BY <2>1, <2>2
<1>14. ASSUME NEW n \in 1 .. P + N
       PROVE  Appended[n] \in ToSet(places) \cup {r.id : r \in ToSet(page)}
  <2>1. CASE n <= P
    BY <1>11, <2>1
  <2>2. CASE n > P
    <3>1. n - P \in 1 .. N /\ Appended[n] = page[Nth(Unseen, n - P)].id
      BY <1>3, <1>8, <1>11, <2>2
    <3>2. Nth(Unseen, n - P) \in DOMAIN page
      BY <1>2, <1>5, <3>1
    <3> QED BY <1>4, <3>1, <3>2
  <2> QED BY <1>3, <1>11, <2>1, <2>2
<1>15. ToSet(Appended) = ToSet(places) \cup {r.id : r \in ToSet(page)}
  <2>1. \A r \in ToSet(page) : r.id \in ToSet(Appended)
    BY <1>13 DEF ToSet
  <2>2. ToSet(places) \subseteq ToSet(Appended)
    <3>1. \A n \in 1 .. P : n \in 1 .. P + N /\ Appended[n] = places[n]
      BY <1>3, <1>11
    <3> QED BY <1>11, <3>1
  <2>3. \A x \in ToSet(Appended) : \E n \in 1 .. P + N : x = Appended[n]
    BY <1>11
  <2> QED BY <1>14, <2>1, <2>2, <2>3
<1> QED BY <1>11, <1>12, <1>15

-----------------------------------------------------------------------------
(***************************************************************************)
(* The steps of the search.                                                *)
(***************************************************************************)

\* The place types, by index.
LEMMA TypesByIndex ==
    /\ Len(PlaceTypes) \in Nat
    /\ DOMAIN PlaceTypes = 1 .. Len(PlaceTypes)
    /\ \A j \in DOMAIN PlaceTypes : PlaceTypes[j] \in Types
    /\ \A t \in Types : \E j \in DOMAIN PlaceTypes : t = PlaceTypes[j]
    /\ \A i, j \in DOMAIN PlaceTypes : PlaceTypes[i] = PlaceTypes[j] => i = j
  BY PlaceTypesAssumption DEF Types, ToSet, IsInjective

\* The lengths and numbers that the invariant compares.
LEMMA Numbers ==
    ASSUME Typed, NEW j \in DOMAIN PlaceTypes
    PROVE  /\ j \in Nat \ {0} /\ type \in Nat \ {0} /\ reqTimes \in Nat
           /\ MaxRequestTimes \in Nat
           /\ PlaceTypes[j] \in Types
           /\ token[PlaceTypes[j]] \in Nat
           /\ asked[PlaceTypes[j]] \in Seq(Nat)
           /\ Len(asked[PlaceTypes[j]]) \in Nat
<1>1. j \in Nat \ {0} /\ PlaceTypes[j] \in Types
  BY TypesByIndex
<1>2. asked[PlaceTypes[j]] \in Seq(Nat) /\ token[PlaceTypes[j]] \in Nat
  BY <1>1 DEF Typed
<1>3. MaxRequestTimes \in Nat /\ Len(PlaceTypes) \in Nat
  BY BoundsAssumption, TypesByIndex
<1>4. type \in 1 .. Len(PlaceTypes) + 1 /\ reqTimes \in 0 .. MaxRequestTimes
  BY DEF Typed
<1>5. type \in Nat \ {0} /\ reqTimes \in Nat
  BY <1>3, <1>4
<1> QED BY <1>1, <1>2, <1>3, <1>5

LEMMA LoopStep ==
    ASSUME Inv, Loop
    PROVE  Inv'
<1>1. /\ pc = "loop" /\ type' = 1
      /\ \/ Enough /\ pc' = "log"
         \/ err /\ pc' = "signal"
         \/ ~ err /\ pc' = "types"
      /\ UNCHANGED <<caller, err, reqTimes, total, token, page, places, result,
                     asked, found>>
  BY DEF Loop
<1>2. Typed
  BY DEF Inv
<1>3. Typed'
  <2>1. type' \in 1 .. Len(PlaceTypes) + 1
    BY <1>1, TypesByIndex
  <2> QED BY <1>1, <1>2, <2>1 DEF Typed, Searching, Ending
<1>4. \A t \in Types : InOrder(t)'
  BY <1>1 DEF Inv, InOrder
<1>5. ASSUME NEW j \in DOMAIN PlaceTypes
      PROVE  OncePerRound(j)' /\ TokenInv(j)'
  <2>1. /\ j \in Nat \ {0} /\ Len(asked[PlaceTypes[j]]) \in Nat
        /\ reqTimes \in Nat
    BY <1>2, Numbers
  <2>2. OncePerRound(j) /\ TokenInv(j)
    BY DEF Inv
  <2>3. OncePerRound(j)'
    <3>1. ~ HadTurn(j)' \/ pc' \notin Searching
      BY <1>1, <2>1 DEF HadTurn, Searching
    <3> QED BY <1>1, <2>1, <2>2, <3>1 DEF OncePerRound
  <2>4. TokenInv(j)'
    BY <1>1, <2>1, <2>2 DEF TokenInv, MayBeAsked, NextToken, HadTurn, Searching
  <2> QED BY <2>3, <2>4
<1>6. PlacesInv' /\ EndInv'
  BY <1>1 DEF Inv, PlacesInv, EndInv, Ending, Enough
<1> QED BY <1>3, <1>4, <1>5, <1>6 DEF Inv

LEMMA SkipTypeStep ==
    ASSUME Inv, SkipType
    PROVE  Inv'
<1>1. /\ pc = "types" /\ type \in DOMAIN PlaceTypes /\ type' = type + 1
      /\ UNCHANGED <<caller, pc, err, reqTimes, total, token, page, places, result,
                     asked, found>>
  BY DEF SkipType
<1>2. Typed
  BY DEF Inv
<1>3. Typed'
  <2>1. type' \in 1 .. Len(PlaceTypes) + 1
    BY <1>1, TypesByIndex
  <2> QED BY <1>1, <1>2, <2>1 DEF Typed, Searching, Ending
<1>4. \A t \in Types : InOrder(t)'
  BY <1>1 DEF Inv, InOrder
<1>5. ASSUME NEW j \in DOMAIN PlaceTypes
      PROVE  OncePerRound(j)' /\ TokenInv(j)'
  <2>1. /\ j \in Nat \ {0} /\ Len(asked[PlaceTypes[j]]) \in Nat
        /\ reqTimes \in Nat /\ type \in Nat
    BY <1>2, Numbers
  <2>2. OncePerRound(j) /\ TokenInv(j)
    BY DEF Inv
  <2>3. HadTurn(j)' <=> j <= type
    BY <1>1, <2>1 DEF HadTurn
  <2>4. OncePerRound(j)'
    BY <1>1, <2>1, <2>2, <2>3 DEF OncePerRound, HadTurn, Searching
  <2>5. MayBeAsked(j)' => MayBeAsked(j)
    BY <1>1, <2>1, <2>3 DEF MayBeAsked, HadTurn, Searching
  <2>6. TokenInv(j)'
    BY <1>1, <2>2, <2>5 DEF TokenInv, NextToken
  <2> QED BY <2>4, <2>6
<1>6. PlacesInv' /\ EndInv'
  BY <1>1 DEF Inv, PlacesInv, EndInv, Ending
<1> QED BY <1>3, <1>4, <1>5, <1>6 DEF Inv

\* The page that is asked for is the next one, and this is the turn of its
\* type.
LEMMA PageIsNext ==
    ASSUME Inv, SearchPage
    PROVE  /\ pc = "types" /\ type \in DOMAIN PlaceTypes /\ Type \in Types
           /\ PageOf(Type) = Len(asked[Type]) + 1
           /\ Len(asked[Type]) \in Nat
           /\ Len(asked[Type]) <= reqTimes
           /\ Len(asked[Type]) < MaxRequestTimes
<1>1. pc = "types" /\ type \in DOMAIN PlaceTypes /\ ~ NoMoreResults(Type)
  BY DEF SearchPage
<1>2. OncePerRound(type) /\ TokenInv(type) /\ Typed
  BY <1>1 DEF Inv
<1>3. /\ Type \in Types /\ Len(asked[Type]) \in Nat /\ token[Type] \in Nat
      /\ reqTimes \in Nat /\ type \in Nat /\ MaxRequestTimes \in Nat
  BY <1>1, <1>2, Numbers DEF Type
<1>4. ~ HadTurn(type)
  BY <1>1, <1>3 DEF HadTurn
<1>5. Len(asked[Type]) <= reqTimes /\ reqTimes < MaxRequestTimes
  BY <1>1, <1>2, <1>4 DEF OncePerRound, Searching, Typed, Type
<1>6. NextToken(Type)
  BY <1>1, <1>2, <1>4 DEF TokenInv, MayBeAsked, Searching, Type
<1>7. CASE token[Type] = 0
  <2>1. ~ (reqTimes > 0)
    BY <1>1, <1>7 DEF NoMoreResults
  <2>2. Len(asked[Type]) = 0
    BY <1>3, <1>5, <2>1
  <2> QED BY <1>1, <1>3, <1>5, <1>7, <2>2 DEF PageOf
<1>8. CASE token[Type] # 0
  BY <1>1, <1>3, <1>5, <1>6, <1>8 DEF PageOf, NextToken
<1> QED BY <1>7, <1>8

LEMMA SearchPageStep ==
    ASSUME Inv, SearchPage
    PROVE  Inv'
<1>1. /\ pc = "types" /\ type \in DOMAIN PlaceTypes /\ Type \in Types
      /\ PageOf(Type) = Len(asked[Type]) + 1
      /\ Len(asked[Type]) \in Nat
      /\ Len(asked[Type]) <= reqTimes
      /\ Len(asked[Type]) < MaxRequestTimes
  BY PageIsNext
<1>2. /\ asked' = [asked EXCEPT ![Type] = Append(@, PageOf(Type))]
      /\ \/ page' \in Pages /\ pc' = "details" /\ err' = err /\ type' = type
         \/ pc' = pc /\ page' = page /\ err' = TRUE /\ type' = type + 1
      /\ UNCHANGED <<caller, reqTimes, total, token, places, result, found>>
  BY DEF SearchPage
<1>3. Typed
  BY DEF Inv
<1>4. /\ asked' \in [Types -> Seq(Nat)]
      /\ asked'[Type] = Append(asked[Type], PageOf(Type))
      /\ \A t \in Types \ {Type} : asked'[t] = asked[t]
  <2>1. asked \in [Types -> Seq(Nat)]
    BY <1>3 DEF Typed
  <2>2. PageOf(Type) \in Nat
    BY <1>1
  <2>3. Append(asked[Type], PageOf(Type)) \in Seq(Nat)
    BY <1>1, <2>1, <2>2
  <2> QED BY <1>1, <1>2, <2>1, <2>3
<1>5. asked[Type] \in Seq(Nat) /\ InOrder(Type)
  BY <1>1, <1>3 DEF Typed, Inv
<1>6. Len(asked'[Type]) = Len(asked[Type]) + 1
  BY <1>4, <1>5
<1>7. Typed'
  <2>1. type' \in 1 .. Len(PlaceTypes) + 1
    BY <1>1, <1>2, TypesByIndex
  <2> QED BY <1>1, <1>2, <1>3, <1>4, <2>1 DEF Typed, Searching, Ending
<1>8. ASSUME NEW t \in Types
      PROVE  InOrder(t)'
  <2>1. CASE t = Type
    <3> DEFINE before == asked[Type]
               after == asked'[Type]
    <3>1. before = [n \in 1 .. Len(before) |-> n]
      BY <1>5 DEF InOrder
    <3>2. before \in Seq(Nat) /\ after = Append(before, Len(before) + 1)
      BY <1>1, <1>4, <1>5
    <3>3. \A n \in 1 .. Len(before) : before[n] = n
      <4> HIDE DEF before
      <4> QED BY <3>1
    <3> HIDE DEF before, after
    <3>4. /\ after \in Seq(Nat) /\ Len(after) = Len(before) + 1
          /\ DOMAIN after = 1 .. Len(after)
      BY <3>2
    <3>5. \A n \in 1 .. Len(after) : after[n] = n
      BY <3>2, <3>3, <3>4
    <3>6. after = [n \in 1 .. Len(after) |-> n]
      BY <3>4, <3>5
    <3> QED BY <2>1, <3>6 DEF InOrder, after
  <2>2. CASE t # Type
    BY <1>4, <2>2 DEF Inv, InOrder
  <2> QED BY <2>1, <2>2
<1>9. ASSUME NEW j \in DOMAIN PlaceTypes
      PROVE  OncePerRound(j)' /\ TokenInv(j)'
  <2>1. /\ j \in Nat \ {0} /\ Len(asked[PlaceTypes[j]]) \in Nat
        /\ reqTimes \in Nat /\ type \in Nat /\ MaxRequestTimes \in Nat
    BY <1>3, Numbers
  <2>2. OncePerRound(j) /\ TokenInv(j)
    BY DEF Inv
  <2>3. HadTurn(j)' <=> j <= type
    BY <1>1, <1>2, <2>1 DEF HadTurn
  <2>4. HadTurn(j) <=> j < type
    BY <1>1, <2>1 DEF HadTurn
  <2>5. CASE j = type
    <3>1. PlaceTypes[j] = Type
      BY <2>5 DEF Type
    <3>2. OncePerRound(j)'
      BY <1>1, <1>2, <1>6, <2>1, <2>3, <2>5, <3>1 DEF OncePerRound, Searching
    <3>3. ~ MayBeAsked(j)'
      BY <1>1, <1>2, <2>1, <2>3, <2>5 DEF MayBeAsked
    <3>4. PageOf(PlaceTypes[j])' = Len(asked'[PlaceTypes[j]])
      BY <1>1, <1>2, <1>6, <3>1 DEF PageOf
    <3> QED BY <1>2, <2>2, <3>2, <3>3, <3>4 DEF TokenInv
  <2>6. CASE j # type
    <3>1. PlaceTypes[j] \in Types \ {Type}
      BY <1>1, <2>6, TypesByIndex DEF Type
    <3>2. asked'[PlaceTypes[j]] = asked[PlaceTypes[j]]
      BY <1>4, <3>1
    <3>3. HadTurn(j)' <=> HadTurn(j)
      BY <2>1, <2>3, <2>4, <2>6
    <3>4. OncePerRound(j)'
      BY <1>1, <1>2, <2>2, <3>2, <3>3 DEF OncePerRound, Searching
    <3>5. MayBeAsked(j)' => MayBeAsked(j)
      BY <1>1, <1>2, <2>1, <2>4, <3>3 DEF MayBeAsked, Searching
    <3>6. ~ (pc' \in {"details", "append"} /\ j = type')
      BY <1>1, <1>2, <2>6
    <3> QED BY <1>2, <2>2, <3>2, <3>4, <3>5, <3>6 DEF TokenInv, NextToken
  <2> QED BY <2>5, <2>6
<1>10. PlacesInv' /\ EndInv'
  BY <1>1, <1>2 DEF Inv, PlacesInv, EndInv, Ending
<1> QED BY <1>7, <1>8, <1>9, <1>10 DEF Inv

LEMMA PlaceDetailsStep ==
    ASSUME Inv, PlaceDetails
    PROVE  Inv'
<1>1. /\ pc = "details" /\ pc' \in {"dead", "append"}
      /\ UNCHANGED <<caller, err, reqTimes, total, type, token, page, places, result,
                     asked, found>>
  BY DEF PlaceDetails, search
<1>2. Typed
  BY DEF Inv
<1>3. Typed'
  BY <1>1, <1>2 DEF Typed, Searching, Ending
<1>4. \A t \in Types : InOrder(t)'
  BY <1>1 DEF Inv, InOrder
<1>5. ASSUME NEW j \in DOMAIN PlaceTypes
      PROVE  OncePerRound(j)' /\ TokenInv(j)'
  <2>1. OncePerRound(j) /\ TokenInv(j)
    BY DEF Inv
  <2>2. pc' = "dead" \/ (pc' = "append" /\ (HadTurn(j)' <=> HadTurn(j)))
    BY <1>1 DEF HadTurn
  <2>3. OncePerRound(j)'
    BY <1>1, <2>1, <2>2 DEF OncePerRound, Searching
  <2>4. MayBeAsked(j)' => MayBeAsked(j)
    BY <1>1, <2>2 DEF MayBeAsked, Searching
  <2>5. TokenInv(j)'
    BY <1>1, <2>1, <2>4 DEF TokenInv, NextToken, PageOf
  <2> QED BY <2>3, <2>5
<1>6. PlacesInv' /\ EndInv'
  BY <1>1 DEF Inv, PlacesInv, EndInv, Ending
<1> QED BY <1>3, <1>4, <1>5, <1>6 DEF Inv

LEMMA AppendPlacesStep ==
    ASSUME Inv, AppendPlaces
    PROVE  Inv'
<1>1. /\ pc = "append" /\ pc' = "types" /\ type' = type + 1 /\ page' = <<>>
      /\ places' = Appended /\ total' = total + Len(page)
      /\ token' \in {[token EXCEPT ![Type] = 0],
                     [token EXCEPT ![Type] = PageOf(Type) + 1]}
      /\ found' = found \cup {r.id : r \in ToSet(page)}
      /\ UNCHANGED <<caller, err, reqTimes, result, asked>>
  BY DEF AppendPlaces
<1>2. Typed
  BY DEF Inv
<1>3. type \in DOMAIN PlaceTypes /\ Type \in Types
  BY <1>1, <1>2, TypesByIndex DEF Typed, Type
<1>4. /\ places' \in Seq(Place) /\ IsInjective(places')
      /\ ToSet(places') = ToSet(places) \cup {r.id : r \in ToSet(page)}
  BY <1>1, <1>2, AppendedProperties DEF Typed, Inv, PlacesInv
\* The token follows the page that was asked for.
<1>5. /\ PageOf(Type) = Len(asked[Type]) /\ Len(asked[Type]) \in Nat
      /\ PageOf(Type) >= 1 /\ PageOf(Type) <= MaxRequestTimes
  <2>1. OncePerRound(type) /\ TokenInv(type)
    BY <1>3 DEF Inv
  <2>2. Len(asked[Type]) \in Nat /\ token[Type] \in Nat
    BY <1>2, <1>3, Numbers DEF Type
  <2>3. PageOf(Type) = Len(asked[Type])
    BY <1>1, <2>1 DEF TokenInv, Type
  <2>4. Len(asked[Type]) <= MaxRequestTimes
    BY <2>1 DEF OncePerRound, Type
  <2>5. PageOf(Type) >= 1
    BY <2>2 DEF PageOf
  <2> QED BY <2>2, <2>3, <2>4, <2>5
<1>6. /\ token' \in [Types -> Nat]
      /\ token'[Type] \in {0, PageOf(Type) + 1}
      /\ \A t \in Types \ {Type} : token'[t] = token[t]
  <2>1. token \in [Types -> Nat]
    BY <1>2 DEF Typed
  <2>2. 0 \in Nat /\ PageOf(Type) + 1 \in Nat
    BY <1>5
  <2> QED BY <1>1, <1>3, <2>1, <2>2
<1>7. Typed'
  <2>1. type' \in 1 .. Len(PlaceTypes) + 1
    BY <1>1, <1>3, TypesByIndex
  <2>2. Len(page) \in Nat
    <3>1. page \in Pages \/ page = <<>>
      BY <1>2 DEF Typed
    <3> QED BY <3>1, PagesAssumption
  <2>3. total \in Nat
    BY <1>2 DEF Typed
  <2>4. total' \in Nat
    BY <1>1, <2>2, <2>3
  <2> QED BY <1>1, <1>2, <1>4, <1>6, <2>1, <2>4 DEF Typed, Searching, Ending
<1>8. \A t \in Types : InOrder(t)'
  BY <1>1 DEF Inv, InOrder
<1>9. ASSUME NEW j \in DOMAIN PlaceTypes
      PROVE  OncePerRound(j)' /\ TokenInv(j)'
  <2>1. /\ j \in Nat \ {0} /\ Len(asked[PlaceTypes[j]]) \in Nat
        /\ reqTimes \in Nat /\ type \in Nat /\ MaxRequestTimes \in Nat
    BY <1>2, Numbers
  <2>2. OncePerRound(j) /\ TokenInv(j)
    BY DEF Inv
  <2>3. (HadTurn(j)' <=> j <= type) /\ (HadTurn(j) <=> j <= type)
    BY <1>1, <2>1 DEF HadTurn
  <2>4. OncePerRound(j)'
    BY <1>1, <2>2, <2>3 DEF OncePerRound, Searching
  <2>5. CASE j = type
    <3>1. PlaceTypes[j] = Type
      BY <2>5 DEF Type
    <3>2. NextToken(PlaceTypes[j])' /\ token'[PlaceTypes[j]] <= MaxRequestTimes + 1
      BY <1>1, <1>5, <1>6, <2>1, <3>1 DEF NextToken
    <3> QED BY <1>1, <2>4, <3>2 DEF TokenInv
  <2>6. CASE j # type
    <3>1. token'[PlaceTypes[j]] = token[PlaceTypes[j]]
      BY <1>3, <1>6, <2>6, TypesByIndex DEF Type
    <3>2. MayBeAsked(j)' => MayBeAsked(j)
      BY <1>1, <2>1, <2>3, <2>6 DEF MayBeAsked, Searching
    <3> QED BY <1>1, <2>2, <2>4, <3>1, <3>2 DEF TokenInv, NextToken
  <2> QED BY <2>5, <2>6
<1>10. PlacesInv' /\ EndInv'
  BY <1>1, <1>4 DEF Inv, PlacesInv, EndInv, Ending
<1> QED BY <1>7, <1>8, <1>9, <1>10 DEF Inv

LEMMA EndRoundStep ==
    ASSUME Inv, EndRound
    PROVE  Inv'
<1>1. /\ pc = "types" /\ type > Len(PlaceTypes) /\ reqTimes' = reqTimes + 1
      /\ \/ pc' = "log" /\ reqTimes + 1 = MaxRequestTimes
         \/ pc' = "loop" /\ reqTimes + 1 # MaxRequestTimes
      /\ UNCHANGED <<caller, err, total, type, token, page, places, result, asked,
                     found>>
  BY DEF EndRound, LastRound
<1>2. Typed
  BY DEF Inv
<1>3. /\ reqTimes \in Nat /\ MaxRequestTimes \in Nat /\ reqTimes < MaxRequestTimes
      /\ reqTimes' \in 0 .. MaxRequestTimes
      /\ pc' = "loop" => reqTimes' < MaxRequestTimes
  <2>1. MaxRequestTimes \in Nat
    BY BoundsAssumption
  <2>2. reqTimes \in 0 .. MaxRequestTimes /\ reqTimes < MaxRequestTimes
    BY <1>1, <1>2 DEF Typed, Searching
  <2> QED BY <1>1, <2>1, <2>2
<1>4. Typed'
  BY <1>1, <1>2, <1>3 DEF Typed, Searching, Ending
<1>5. \A t \in Types : InOrder(t)'
  BY <1>1 DEF Inv, InOrder
<1>6. ASSUME NEW j \in DOMAIN PlaceTypes
      PROVE  OncePerRound(j)' /\ TokenInv(j)'
  <2>1. j < type /\ Len(asked[PlaceTypes[j]]) \in Nat
    BY <1>1, <1>2, Numbers, TypesByIndex
  <2>2. OncePerRound(j) /\ TokenInv(j)
    BY DEF Inv
  <2>3. Len(asked[PlaceTypes[j]]) <= reqTimes'
    BY <1>1, <2>1, <2>2 DEF OncePerRound, HadTurn, Searching
  <2>4. OncePerRound(j)'
    BY <1>1, <2>2, <2>3 DEF OncePerRound, Searching
  <2>5. MayBeAsked(j)' => MayBeAsked(j)
    BY <1>1, <2>1 DEF MayBeAsked, Searching
  <2> QED BY <1>1, <2>2, <2>4, <2>5 DEF TokenInv, NextToken
<1>7. PlacesInv'
  BY <1>1 DEF Inv, PlacesInv
<1>8. EndInv'
  BY <1>1 DEF EndInv, Ending
<1> QED BY <1>4, <1>5, <1>6, <1>7, <1>8 DEF Inv

LEMMA NothingFound == <<>> \in Seq(Place) /\ IsInjective(<<>>)
  BY DEF IsInjective

\* A step in which the goroutine does no more than to end, or the caller
\* returns with what there is.
LEMMA EndingStep ==
    ASSUME Inv,
           UNCHANGED <<err, reqTimes, total, type, token, page, places, asked, found>>,
           pc' = pc \/ (pc = "log" /\ pc' \in {"signal", "dead"})
                    \/ (pc = "signal" /\ pc' = "ended"),
           caller' \in {"waiting", "answered", "timed out", "torn"},
           result' \in {result, places, <<>>},
           caller' = "answered" => pc' = "ended" /\ result' = places
    PROVE  Inv'
<1>1. Typed
  BY DEF Inv
<1>2. Typed'
  BY <1>1, NothingFound DEF Typed, Searching, Ending
<1>3. \A t \in Types : InOrder(t)'
  BY DEF Inv, InOrder
<1>4. ASSUME NEW j \in DOMAIN PlaceTypes
      PROVE  OncePerRound(j)' /\ TokenInv(j)'
  <2>1. OncePerRound(j) /\ TokenInv(j)
    BY DEF Inv
  <2>2. pc' \notin Searching \/ pc' = pc
    BY DEF Searching
  <2>3. OncePerRound(j)'
    BY <2>1, <2>2 DEF OncePerRound, HadTurn, Searching
  <2>4. MayBeAsked(j)' => MayBeAsked(j)
    BY <2>2 DEF MayBeAsked, HadTurn, Searching
  <2>5. pc' \in {"details", "append"} => pc' = pc
    BY <2>2 DEF Searching
  <2>6. PageOf(PlaceTypes[j])' = PageOf(PlaceTypes[j])
    BY DEF PageOf
  <2>7. TokenInv(j)'
    BY <2>1, <2>4, <2>5, <2>6 DEF TokenInv, NextToken
  <2> QED BY <2>3, <2>7
<1>5. PlacesInv'
  BY NothingFound DEF Inv, PlacesInv
<1>6. EndInv'
  BY DEF Inv, EndInv, Ending
<1> QED BY <1>2, <1>3, <1>4, <1>5, <1>6 DEF Inv

LEMMA LogSearchStep ==
    ASSUME Inv, LogSearch
    PROVE  Inv'
<1>1. /\ pc = "log" /\ pc' \in {"signal", "dead"}
      /\ UNCHANGED <<caller, err, reqTimes, total, type, token, page, places, result,
                     asked, found>>
  BY DEF LogSearch, search
<1>2. /\ caller' \in {"waiting", "answered", "timed out", "torn"}
      /\ caller' # "answered"
  BY <1>1 DEF Inv, Typed, PlacesInv
<1> QED BY <1>1, <1>2, EndingStep

LEMMA SearchDoneStep ==
    ASSUME Inv, SearchDone
    PROVE  Inv'
  BY EndingStep DEF SearchDone, search

LEMMA TimeoutStep ==
    ASSUME Inv, Timeout
    PROVE  Inv'
  BY EndingStep DEF Timeout, search

-----------------------------------------------------------------------------
(***************************************************************************)
(* The theorems.                                                           *)
(***************************************************************************)

LEMMA InitInv == Init => Inv
<1> SUFFICES ASSUME Init PROVE Inv
  OBVIOUS
<1>1. /\ caller = "waiting" /\ pc = "loop" /\ err = FALSE /\ reqTimes = 0
      /\ total = 0 /\ type = 1 /\ page = <<>> /\ places = <<>> /\ result = <<>>
      /\ token = [t \in Types |-> 0] /\ asked = [t \in Types |-> <<>>]
      /\ found = {}
  BY DEF Init, Types
<1>2. /\ MaxRequestTimes \in Nat \ {0} /\ 1 \in 1 .. Len(PlaceTypes) + 1
      /\ <<>> \in Seq(Place) /\ <<>> \in Seq(Nat)
  BY BoundsAssumption, TypesByIndex
<1>3. Typed
  BY <1>1, <1>2 DEF Typed, Searching, Ending
<1>4. \A t \in Types : InOrder(t)
  BY <1>1 DEF InOrder
<1>5. ASSUME NEW j \in DOMAIN PlaceTypes
      PROVE  OncePerRound(j) /\ TokenInv(j)
  <2>1. token[PlaceTypes[j]] = 0 /\ Len(asked[PlaceTypes[j]]) = 0
    BY <1>1, TypesByIndex
  <2> QED BY <1>1, <1>2, <2>1
          DEF OncePerRound, TokenInv, NextToken, HadTurn, Searching
<1>6. PlacesInv /\ EndInv
  BY <1>1 DEF PlacesInv, EndInv, Ending, IsInjective, ToSet
<1> QED BY <1>3, <1>4, <1>5, <1>6 DEF Inv

LEMMA InvStep == Inv /\ [Next]_vars => Inv'
<1> SUFFICES ASSUME Inv, [Next]_vars PROVE Inv'
  OBVIOUS
<1>1. CASE Next
  BY <1>1, LoopStep, SkipTypeStep, SearchPageStep, PlaceDetailsStep,
     AppendPlacesStep, EndRoundStep, LogSearchStep, SearchDoneStep, TimeoutStep
     DEF Next, Goroutine
<1>2. CASE UNCHANGED vars
  <2>1. /\ UNCHANGED <<caller, pc, err, reqTimes, total, type, token, page, places,
                       result, asked, found>>
    BY <1>2 DEF vars, search
  <2>2. /\ caller' \in {"waiting", "answered", "timed out", "torn"}
        /\ caller' = "answered" => pc' = "ended" /\ result' = places
    BY <2>1 DEF Inv, Typed, PlacesInv
  <2> QED BY <2>1, <2>2, EndingStep
<1> QED BY <1>1, <1>2

LEMMA Invariance == Spec => []Inv
  BY InitInv, InvStep, PTL DEF Spec

\* No place is among the results twice, nor among what the caller has returned,
\* whenever it gave up: parsePlacesSearchResponse keeps placeMap for that.
THEOREM NoPlaceIsTwice == Spec => []NoPlaceTwice
<1>1. Inv => NoPlaceTwice
  BY DEF Inv, PlacesInv, NoPlaceTwice
<1> QED BY <1>1, Invariance, PTL

\* The pages of each place type are asked for in order, and no more of them
\* than there are rounds, whichever types end and whatever requests fail.
THEOREM PagesAreInOrder == Spec => []PagesInOrder
<1>1. Inv => PagesInOrder
  <2> SUFFICES ASSUME Inv, NEW t \in Types
               PROVE  /\ asked[t] = [n \in DOMAIN asked[t] |-> n]
                      /\ Len(asked[t]) <= MaxRequestTimes
    BY DEF PagesInOrder, Types
  <2>1. PICK j \in DOMAIN PlaceTypes : t = PlaceTypes[j]
    BY TypesByIndex
  <2>2. Typed /\ InOrder(t) /\ OncePerRound(j)
    BY DEF Inv
  <2>3. asked[t] \in Seq(Nat)
    BY <2>2 DEF Typed
  <2>4. DOMAIN asked[t] = 1 .. Len(asked[t])
    BY <2>3
  <2> QED BY <2>1, <2>2, <2>4 DEF InOrder, OncePerRound
<1> QED BY <1>1, Invariance, PTL

\* What the caller is told in time holds every place of every page received,
\* and the search has not ended early but for an error or the limit of rounds.
THEOREM AnswersAreComplete == Spec => []AnswerComplete
<1>1. Inv => AnswerComplete
  BY DEF Inv, PlacesInv, EndInv, Ending, AnswerComplete
<1> QED BY <1>1, Invariance, PTL

\* Types of the state of a search; the tokens stay within the rounds.
THEOREM MapsSearchTypeCorrect == Spec => []TypeOK
<1>1. Inv => TypeOK
  <2> SUFFICES ASSUME Inv PROVE TypeOK
    OBVIOUS
  <2>1. Typed
    BY DEF Inv
  <2>2. token \in [Types -> 0 .. MaxRequestTimes + 1]
    <3>1. \A t \in Types : token[t] \in Nat /\ token[t] <= MaxRequestTimes + 1
      BY <2>1, TypesByIndex DEF Typed, Inv, TokenInv
    <3>2. MaxRequestTimes \in Nat /\ token \in [Types -> Nat]
      BY <2>1, BoundsAssumption DEF Typed
    <3>3. \A t \in Types : token[t] \in 0 .. MaxRequestTimes + 1
      BY <3>1, <3>2
    <3> QED BY <3>2, <3>3
  <2> QED BY <2>1, <2>2 DEF TypeOK, Typed, Searching, Ending, Types
<1> QED BY <1>1, Invariance, PTL
=============================================================================
