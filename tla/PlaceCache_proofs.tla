-------------------------- MODULE PlaceCache_proofs --------------------------
(***************************************************************************)
(* Proofs about the cached places, for any calls, places, distances,       *)
(* requests and limits, however the commands of the calls interleave and   *)
(* whichever of them Redis fails.                                          *)
(***************************************************************************)
EXTENDS PlaceCache, FiniteSetTheorems, TLAPS

Steps == {"idle", "index", "details", "set time", "maps", "store index",
          "store details", "cached", "done", "failed"}

Typed ==
    /\ pc \in [Call -> Steps]
    /\ req \in [Call -> Request]
    /\ todo \in [Call -> Seq(Place)]
    /\ found \in [Call -> SUBSET (Place \X Day)]
    /\ at \in [Call -> Day]
    /\ answer \in [Call -> SUBSET Place]
    /\ index \in [PlaceCat -> SUBSET Place]
    /\ DOMAIN details \subseteq Place
    /\ \A p \in DOMAIN details : details[p] \in Day
    /\ \A k \in DOMAIN searchTime : searchTime[k] \in Day
    /\ now \in 0 .. MaxTime
    /\ since \in [Call -> Day]
    /\ covered \subseteq Call

Firsts(F) == {pair[1] : pair \in F}

\* One reading of each place.
Readings(F) ==
    /\ IsFiniteSet(F)
    /\ \A r, s \in F : r[1] = s[1] => r = s

\* A call has searched Maps, or is going to.
Searching(c) == pc[c] \in {"maps", "store index", "store details", "done"}
Storing(c) == pc[c] \in {"store index", "store details", "done"}

TimeInv(c) ==
    /\ Running(c) => now <= since[c] + 1
    /\ pc[c] = "set time" \/ Searching(c) => since[c] <= at[c]

\* What a call has at hand.
LocalInv(c) ==
    /\ IsInjective(todo[c])
    /\ pc[c] \in {"idle", "index", "set time", "maps"} => todo[c] = <<>>
    /\ pc[c] \in {"idle", "index"} => found[c] = {}
    /\ pc[c] \in {"idle", "index", "details", "set time", "maps", "failed"} =>
          answer[c] = {}
    /\ answer[c] \subseteq Near(req[c].location, MaxSearchRadius)
    /\ pc[c] = "details" =>
          /\ ToSet(todo[c]) \cup Firsts(found[c]) \subseteq Reach(req[c])
          /\ ToSet(todo[c]) \cap Firsts(found[c]) = {}
          /\ Readings(found[c])
    /\ pc[c] = "cached" =>
          /\ Cardinality(answer[c]) >= MinNumResults
          /\ answer[c] \subseteq Near(req[c].location, req[c].radius)

\* What a call leaves in Redis, if Redis does not fail it.
StoredInv(c) ==
    /\ Storing(c) => ToSet(todo[c]) \subseteq answer[c]
    /\ pc[c] = "done" => todo[c] = <<>>
    /\ pc[c] = "store details" => todo[c] # <<>>
    /\ c \notin failed =>
          /\ Storing(c) =>
                answer[c] \ ToSet(todo[c]) \subseteq
                    index[req[c].category] \cap DOMAIN details
          /\ pc[c] = "store details" => Head(todo[c]) \in index[req[c].category]
          /\ Searching(c) => /\ Key(req[c]) \in DOMAIN searchTime
                             /\ since[c] <= searchTime[Key(req[c])] + 1

\* The places of an earlier call that a call should do with.
Sufficient(d, c) == answer[d] \cap Near(req[c].location, req[c].radius)

CoveredBy(d, c) ==
    /\ pc[d] = "done" /\ d \notin failed
    /\ Key(req[d]) = Key(req[c])
    /\ since[c] - since[d] < Refresh
    /\ Cardinality(Sufficient(d, c)) >= MinNumResults
    /\ pc[c] = "details" =>
          Sufficient(d, c) \subseteq ToSet(todo[c]) \cup Firsts(found[c])

CoveredInv(c) ==
    /\ pc[c] = "idle" => c \notin covered
    /\ c \in covered \ failed /\ pc[c] \in {"index", "details"} =>
          \E d \in Call : CoveredBy(d, c)
    /\ c \in covered \ failed /\ pc[c] = "set time" => at[c] > since[c]

CallInv(c) == TimeInv(c) /\ LocalInv(c) /\ StoredInv(c) /\ CoveredInv(c)

Inv ==
    /\ Typed
    /\ \A c \in Call : CallInv(c)
    /\ IndexedHasDetails
-----------------------------------------------------------------------------
(***************************************************************************)
(* Lists of places and readings of their details.                          *)
(***************************************************************************)

LEMMA NoPlaces ==
    /\ <<>> \in Seq(Place) /\ ToSet(<<>>) = {} /\ IsInjective(<<>>)
    /\ Firsts({}) = {} /\ Readings({})
<1>1. ToSet(<<>>) = {} /\ IsInjective(<<>>) /\ <<>> \in Seq(Place)
  BY DEF ToSet, IsInjective
<1>2. Firsts({}) = {} /\ Readings({})
  BY FS_EmptySet DEF Firsts, Readings
<1> QED BY <1>1, <1>2

\* An order of some places lists each of them once.
LEMMA OrderLists ==
    ASSUME NEW S \in SUBSET Place, NEW order \in SetToSeqs(S)
    PROVE  order \in Seq(Place) /\ IsInjective(order) /\ ToSet(order) = S
<1> DEFINE N == Cardinality(S)
<1>1. IsFiniteSet(S) /\ N \in Nat
  BY PlaceAssumption, FS_Subset, FS_CardinalityType
<1>2. order \in [1 .. N -> S] /\ \A i, j \in 1 .. N : i # j => order[i] # order[j]
  BY DEF SetToSeqs
<1>3. order \in Injection(1 .. N, S)
  BY <1>2 DEF Injection, IsInjective
<1>4. Cardinality(1 .. N) = N
  BY <1>1, FS_Interval
<1>5. order \in Surjection(1 .. N, S)
  BY <1>1, <1>3, <1>4, FS_Injection
<1>6. DOMAIN order = 1 .. N /\ \A p \in S : \E i \in 1 .. N : order[i] = p
  BY <1>2, <1>5 DEF Surjection
<1>7. ToSet(order) = S
  BY <1>2, <1>6 DEF ToSet
<1>8. order \in Seq(Place)
  BY <1>1, <1>2
<1> QED BY <1>3, <1>7, <1>8 DEF Injection

\* Without its first place a list has the others.
LEMMA TailLists ==
    ASSUME NEW s \in Seq(Place), s # <<>>, IsInjective(s)
    PROVE  /\ Tail(s) \in Seq(Place) /\ IsInjective(Tail(s))
           /\ Head(s) \in Place /\ Head(s) \in ToSet(s)
           /\ ToSet(Tail(s)) = ToSet(s) \ {Head(s)}
<1>1. /\ Len(s) \in Nat \ {0} /\ DOMAIN s = 1 .. Len(s) /\ Head(s) = s[1]
      /\ Tail(s) \in Seq(Place) /\ Len(Tail(s)) = Len(s) - 1
      /\ DOMAIN Tail(s) = 1 .. Len(s) - 1
      /\ \A i \in 1 .. Len(s) - 1 : Tail(s)[i] = s[i + 1]
  OBVIOUS
<1>2. \A i, j \in 1 .. Len(s) : s[i] = s[j] => i = j
  BY <1>1 DEF IsInjective
<1>3. Head(s) \in Place /\ Head(s) \in ToSet(s)
  BY <1>1 DEF ToSet
<1>4. IsInjective(Tail(s))
  <2>1. ASSUME NEW i \in 1 .. Len(s) - 1, NEW j \in 1 .. Len(s) - 1,
               Tail(s)[i] = Tail(s)[j]
        PROVE  i = j
    <3>1. s[i + 1] = s[j + 1] /\ i + 1 \in 1 .. Len(s) /\ j + 1 \in 1 .. Len(s)
      BY <1>1, <2>1
    <3>2. i + 1 = j + 1
      BY <1>2, <3>1
    <3> QED BY <3>2
  <2> QED BY <1>1, <2>1 DEF IsInjective
<1>5. ASSUME NEW p \in ToSet(Tail(s))
      PROVE  p \in ToSet(s) \ {Head(s)}
  <2>1. PICK i \in 1 .. Len(s) - 1 : p = Tail(s)[i]
    BY <1>1 DEF ToSet
  <2>2. p = s[i + 1] /\ i + 1 \in 1 .. Len(s) /\ i + 1 # 1
    BY <1>1, <2>1
  <2> QED BY <1>1, <1>2, <2>2 DEF ToSet
<1>6. ASSUME NEW p \in ToSet(s) \ {Head(s)}
      PROVE  p \in ToSet(Tail(s))
  <2>1. PICK i \in 1 .. Len(s) : p = s[i]
    BY <1>1 DEF ToSet
  <2>2. i - 1 \in 1 .. Len(s) - 1 /\ (i - 1) + 1 = i
    BY <1>1, <2>1
  <2>3. Tail(s)[i - 1] = p
    BY <1>1, <2>1, <2>2
  <2> QED BY <1>1, <2>2, <2>3 DEF ToSet
<1> QED BY <1>1, <1>3, <1>4, <1>5, <1>6

\* As many places as readings.
LEMMA FirstsCount ==
    ASSUME NEW F, Readings(F)
    PROVE  IsFiniteSet(Firsts(F)) /\ Cardinality(Firsts(F)) = Cardinality(F)
<1> DEFINE f == [r \in F |-> r[1]]
<1>1. f \in [F -> Firsts(F)]
  BY DEF Firsts
<1>2. \A r, s \in F : f[r] = f[s] => r = s
  BY DEF Readings
<1>3. \A p \in Firsts(F) : \E r \in F : f[r] = p
  BY DEF Firsts
<1> HIDE DEF f
<1>4. f \in Bijection(F, Firsts(F))
  BY <1>1, <1>2, <1>3 DEF Bijection, Injection, Surjection, IsInjective
<1>5. IsFiniteSet(F) /\ ExistsBijection(F, Firsts(F))
  BY <1>4 DEF Readings, ExistsBijection
<1> QED BY <1>5, FS_Bijection

LEMMA ReadingAdded ==
    ASSUME NEW F, Readings(F), NEW p, p \notin Firsts(F), NEW time
    PROVE  /\ Readings(F \cup {<<p, time>>})
           /\ Firsts(F \cup {<<p, time>>}) = Firsts(F) \cup {p}
<1>1. IsFiniteSet(F \cup {<<p, time>>})
  BY FS_AddElement DEF Readings
<1>2. \A r \in F : r[1] # p
  BY DEF Firsts
<1>3. <<p, time>>[1] = p
  OBVIOUS
<1>4. \A r, s \in F \cup {<<p, time>>} : r[1] = s[1] => r = s
  BY <1>2, <1>3 DEF Readings
<1>5. Firsts(F \cup {<<p, time>>}) = Firsts(F) \cup {p}
  BY <1>3 DEF Firsts
<1> QED BY <1>1, <1>4, <1>5 DEF Readings

\* The radius that is searched is the lesser one.
LEMMA ReachIsBoth ==
    ASSUME NEW q \in Request
    PROVE  Reach(q) = Near(q.location, q.radius) \cap Near(q.location, MaxSearchRadius)
<1>1. q.location \in Location /\ q.radius \in Nat /\ MaxSearchRadius \in Nat
  BY RequestAssumption, LimitsAssumption
<1>2. \A p \in Place : Distance[q.location][p] \in Nat
  BY <1>1, DistanceAssumption
<1>3. CASE q.radius > MaxSearchRadius
  BY <1>1, <1>2, <1>3 DEF Reach, Near
<1>4. CASE ~ (q.radius > MaxSearchRadius)
  BY <1>1, <1>2, <1>4 DEF Reach, Near
<1> QED BY <1>3, <1>4
-----------------------------------------------------------------------------
(***************************************************************************)
(* What a step of a call leaves as it is.                                  *)
(***************************************************************************)

\* A step of the call c.
Moves(c) ==
    /\ pc[c] \notin {"done", "cached", "failed"}
    /\ \A d \in Call \ {c} :
        /\ pc'[d] = pc[d] /\ todo'[d] = todo[d] /\ found'[d] = found[d]
        /\ at'[d] = at[d] /\ answer'[d] = answer[d] /\ since'[d] = since[d]
        /\ d \in failed' <=> d \in failed
        /\ d \in covered' <=> d \in covered
    /\ failed \subseteq failed'
    /\ req' = req /\ now' = now
    /\ \A cat \in PlaceCat : index[cat] \subseteq index'[cat]
    /\ DOMAIN details \subseteq DOMAIN details'
    /\ \A k \in DOMAIN searchTime :
        /\ k \in DOMAIN searchTime'
        /\ searchTime'[k] = searchTime[k] \/ now <= searchTime'[k] + 1

\* The other calls are where they were, though Redis holds more.
LEMMA OtherCalls ==
    ASSUME Inv, Typed', NEW c \in Call, Moves(c), NEW d \in Call \ {c}
    PROVE  CallInv(d)'
<1>1. /\ pc'[d] = pc[d] /\ todo'[d] = todo[d] /\ found'[d] = found[d]
      /\ at'[d] = at[d] /\ answer'[d] = answer[d] /\ since'[d] = since[d]
      /\ d \in failed' <=> d \in failed
      /\ d \in covered' <=> d \in covered
      /\ req' = req /\ now' = now
  BY DEF Moves
<1>2. CallInv(d) /\ Typed
  BY DEF Inv
<1>3. TimeInv(d)' /\ LocalInv(d)'
  BY <1>1, <1>2 DEF CallInv, TimeInv, LocalInv, Running, Searching, Reach, Near
<1>4. StoredInv(d)'
  <2>1. StoredInv(d) /\ req[d] \in Request
    BY <1>2 DEF CallInv, Typed
  <2>2. req[d].category \in PlaceCat
    BY <2>1, RequestAssumption
  <2>3. /\ index[req[d].category] \subseteq index'[req[d].category]
        /\ DOMAIN details \subseteq DOMAIN details'
    BY <2>2 DEF Moves
  <2>4. ASSUME Key(req[d]) \in DOMAIN searchTime,
               since[d] <= searchTime[Key(req[d])] + 1
        PROVE  /\ Key(req[d]) \in DOMAIN searchTime'
               /\ since[d] <= searchTime'[Key(req[d])] + 1
    <3>1. Key(req[d]) \in DOMAIN searchTime'
      BY <2>4 DEF Moves
    <3>2. since[d] \in 0 .. now /\ now \in Nat
      BY <1>2 DEF Typed, Day
    <3>3. searchTime'[Key(req[d])] \in Nat
      BY <3>1 DEF Typed, Day
    <3>4. \/ searchTime'[Key(req[d])] = searchTime[Key(req[d])]
          \/ now <= searchTime'[Key(req[d])] + 1
      BY <2>4 DEF Moves
    <3> QED BY <2>4, <3>1, <3>2, <3>3, <3>4
  <2> QED BY <1>1, <2>1, <2>3, <2>4 DEF StoredInv, Storing, Searching
<1>5. CoveredInv(d)'
  <2>1. CoveredInv(d)
    BY <1>2 DEF CallInv
  <2>2. ASSUME NEW e \in Call, CoveredBy(e, d)
        PROVE  CoveredBy(e, d)'
    <3>1. e # c
      BY <2>2 DEF CoveredBy, Moves
    <3>2. /\ pc'[e] = pc[e] /\ answer'[e] = answer[e] /\ since'[e] = since[e]
          /\ e \in failed' <=> e \in failed
      BY <3>1 DEF Moves
    <3> QED BY <1>1, <2>2, <3>2 DEF CoveredBy, Sufficient, Near
  <2> QED BY <1>1, <2>1, <2>2 DEF CoveredInv
<1> QED BY <1>3, <1>4, <1>5 DEF CallInv

\* The places of the index have their details, or a reason to have none, as
\* long as neither is written.
LEMMA IndexKept ==
    ASSUME IndexedHasDetails, index' = index, details' = details, req' = req,
           failed \subseteq failed',
           \A d \in Call : /\ answer[d] \subseteq answer'[d]
                           /\ pc[d] = "store details" =>
                                 pc'[d] = pc[d] /\ todo'[d] = todo[d]
    PROVE  IndexedHasDetails'
<1>1. ASSUME NEW cat \in PlaceCat, NEW p \in index'[cat] \ DOMAIN details'
      PROVE  \E c \in Call :
                 /\ req'[c].category = cat /\ p \in answer'[c]
                 /\ \/ c \in failed'
                    \/ pc'[c] = "store details" /\ Head(todo'[c]) = p
  <2>1. p \in index[cat] \ DOMAIN details
    BY <1>1
  <2>2. PICK c \in Call :
            /\ req[c].category = cat /\ p \in answer[c]
            /\ c \in failed \/ (pc[c] = "store details" /\ Head(todo[c]) = p)
    BY <2>1 DEF IndexedHasDetails
  <2>3. req'[c].category = cat /\ p \in answer'[c]
    BY <2>2
  <2>4. c \in failed' \/ (pc'[c] = "store details" /\ Head(todo'[c]) = p)
    BY <2>2
  <2> QED BY <2>3, <2>4
<1> QED BY <1>1, Zenon DEF IndexedHasDetails

LEMMA StepOf ==
    ASSUME Inv, NEW c \in Call, Typed', Moves(c), CallInv(c)', IndexedHasDetails'
    PROVE  Inv'
  BY OtherCalls DEF Inv

LEMMA CallTyped ==
    ASSUME Typed, NEW c \in Call
    PROVE  /\ req[c] \in Request /\ req[c].category \in PlaceCat
           /\ todo[c] \in Seq(Place) /\ found[c] \subseteq Place \X Day
           /\ answer[c] \subseteq Place
           /\ at[c] \in Day /\ since[c] \in Day /\ now \in Day
           /\ now \in Nat /\ at[c] \in Nat /\ since[c] \in Nat
  BY RequestAssumption DEF Typed, Day
-----------------------------------------------------------------------------
(***************************************************************************)
(* The steps of a call.                                                    *)
(***************************************************************************)

LEMMA StartStep ==
    ASSUME Inv, NEW c \in Call, Start(c)
    PROVE  Inv'
<1>1. /\ pc[c] = "idle" /\ pc' = [pc EXCEPT ![c] = "index"]
      /\ since' = [since EXCEPT ![c] = now]
      /\ \/ covered' = covered \cup {c} /\ \E d \in Call : Covers(d, req[c])
         \/ covered' = covered
      /\ req' = req /\ todo' = todo /\ found' = found /\ at' = at
      /\ answer' = answer /\ index' = index /\ details' = details
      /\ searchTime' = searchTime /\ now' = now /\ failed' = failed
  BY DEF Start, Move, locals, redis
<1>2. Typed /\ CallInv(c) /\ IndexedHasDetails
  BY DEF Inv
<1>3. now \in Day /\ now \in Nat
  BY <1>2, CallTyped
<1>4. Typed'
  BY <1>1, <1>2, <1>3 DEF Typed, Steps, Day
<1>5. pc'[c] = "index" /\ since'[c] = now
  BY <1>1, <1>2 DEF Typed
<1>6. Moves(c)
  BY <1>1, <1>2 DEF Typed, Moves
<1>7. TimeInv(c)' /\ LocalInv(c)' /\ StoredInv(c)'
  <2>1. TimeInv(c)'
    <3>1. now' <= since'[c] + 1
      BY <1>1, <1>3, <1>5
    <3>2. ~ (pc'[c] = "set time" \/ Searching(c)')
      BY <1>5 DEF Searching
    <3> QED BY <3>1, <3>2 DEF TimeInv
  <2>2. LocalInv(c)'
    BY <1>1, <1>2, <1>5 DEF CallInv, LocalInv, Near
  <2>3. StoredInv(c)'
    BY <1>1, <1>2, <1>5 DEF CallInv, StoredInv, Searching, Storing
  <2> QED BY <2>1, <2>2, <2>3
<1>8. CoveredInv(c)'
  <2>1. SUFFICES ASSUME c \in covered'
                 PROVE  \E d \in Call : CoveredBy(d, c)'
    BY <1>5 DEF CoveredInv
  <2>2. PICK d \in Call : Covers(d, req[c])
    BY <1>1, <1>2, <2>1 DEF CallInv, CoveredInv
  <2>3. d # c
    BY <1>1, <2>2 DEF Covers
  <2>4. pc'[d] = pc[d] /\ since'[d] = since[d] /\ req[c] \in Request
    BY <1>1, <1>2, <2>3 DEF Typed
  <2>5. CoveredBy(d, c)'
    BY <1>1, <1>5, <2>2, <2>4 DEF Covers, CoveredBy, Sufficient, Near
  <2> QED BY <2>5
<1>9. IndexedHasDetails'
  BY <1>1, <1>2, <1>6, IndexKept DEF Moves
<1> QED BY <1>4, <1>6, <1>7, <1>8, <1>9, StepOf DEF CallInv

LEMMA GeocodeFailsStep ==
    ASSUME Inv, NEW c \in Call, GeocodeFails(c)
    PROVE  Inv'
<1>1. /\ pc[c] = "idle" /\ pc' = [pc EXCEPT ![c] = "failed"]
      /\ req' = req /\ todo' = todo /\ found' = found /\ at' = at
      /\ answer' = answer /\ index' = index /\ details' = details
      /\ searchTime' = searchTime /\ now' = now /\ failed' = failed
      /\ since' = since /\ covered' = covered
  BY DEF GeocodeFails, Move, locals, redis
<1>2. Typed /\ CallInv(c) /\ IndexedHasDetails
  BY DEF Inv
<1>3. Typed'
  BY <1>1, <1>2 DEF Typed, Steps, Day
<1>4. pc'[c] = "failed"
  BY <1>1, <1>2 DEF Typed
<1>5. Moves(c)
  BY <1>1, <1>2 DEF Typed, Moves
<1>6. CallInv(c)'
  BY <1>1, <1>2, <1>4
     DEF CallInv, TimeInv, LocalInv, StoredInv, CoveredInv, Running, Searching,
         Storing, Near
<1>7. IndexedHasDetails'
  BY <1>1, <1>2, <1>5, IndexKept DEF Moves
<1> QED BY <1>3, <1>5, <1>6, <1>7, StepOf

LEMMA ReadIndexStep ==
    ASSUME Inv, NEW c \in Call, ReadIndex(c)
    PROVE  Inv'
<1> DEFINE S == index[req[c].category] \cap Reach(req[c])
<1>1. /\ pc[c] = "index" /\ pc' = [pc EXCEPT ![c] = "details"]
      /\ req' = req /\ found' = found /\ at' = at
      /\ answer' = answer /\ index' = index /\ details' = details
      /\ searchTime' = searchTime /\ now' = now /\ failed' = failed
      /\ since' = since /\ covered' = covered
  BY DEF ReadIndex, Move, redis
<1>2. PICK order \in SetToSeqs(S) : todo' = [todo EXCEPT ![c] = order]
  BY DEF ReadIndex, Ascending
<1>3. Typed /\ CallInv(c) /\ IndexedHasDetails
  BY DEF Inv
<1>4. req[c] \in Request /\ index[req[c].category] \subseteq Place
  BY <1>3, CallTyped DEF Typed
<1> HIDE DEF S
<1>5. order \in Seq(Place) /\ IsInjective(order) /\ ToSet(order) = S
  BY <1>4, OrderLists DEF S
<1>6. Typed'
  BY <1>1, <1>2, <1>3, <1>5 DEF Typed, Steps, Day
<1>7. pc'[c] = "details" /\ todo'[c] = order
  BY <1>1, <1>2, <1>3 DEF Typed
<1>8. Moves(c)
  BY <1>1, <1>2, <1>3 DEF Typed, Moves
<1>9. found[c] = {} /\ answer[c] = {}
  BY <1>1, <1>3 DEF CallInv, LocalInv
<1>10. LocalInv(c)'
  <2>1. S \subseteq Reach(req[c])
    BY DEF S
  <2> QED BY <1>1, <1>5, <1>7, <1>9, <2>1, NoPlaces DEF LocalInv, Reach, Near
<1>11. TimeInv(c)' /\ StoredInv(c)'
  BY <1>1, <1>3, <1>7 DEF CallInv, TimeInv, StoredInv, Running, Searching, Storing
\* What an earlier call has stored is found in the index.
<1>12. CoveredInv(c)'
  <2>1. SUFFICES ASSUME c \in covered, c \notin failed
                 PROVE  \E d \in Call : CoveredBy(d, c)'
    BY <1>1, <1>7 DEF CoveredInv
  <2>2. PICK d \in Call : CoveredBy(d, c)
    BY <1>1, <1>3, <2>1 DEF CallInv, CoveredInv
  <2>3. d # c
    BY <1>1, <2>2 DEF CoveredBy
  <2>4. pc'[d] = pc[d] /\ since' = since
    BY <1>1, <1>3, <2>3 DEF Typed
  <2>5. CallInv(d)
    BY DEF Inv
  <2>6. answer[d] \subseteq index[req[d].category]
    BY <2>2, <2>5, NoPlaces DEF CallInv, StoredInv, CoveredBy, Storing
  <2>7. answer[d] \subseteq Near(req[d].location, MaxSearchRadius)
    BY <2>5 DEF CallInv, LocalInv
  <2>8. req[d].location = req[c].location /\ req[d].category = req[c].category
    BY <2>2 DEF CoveredBy, Key
  <2>9. Sufficient(d, c) \subseteq S
    BY <1>4, <2>6, <2>7, <2>8, ReachIsBoth DEF Sufficient, S
  <2>10. CoveredBy(d, c)'
    BY <1>1, <1>5, <1>7, <2>2, <2>4, <2>9 DEF CoveredBy, Sufficient, Near
  <2> QED BY <2>10
<1>13. IndexedHasDetails'
  <2>1. \A d \in Call : pc[d] = "store details" =>
                            pc'[d] = pc[d] /\ todo'[d] = todo[d]
    BY <1>1, <1>8 DEF Moves
  <2> QED BY <1>1, <1>3, <2>1, IndexKept
<1> QED BY <1>6, <1>8, <1>10, <1>11, <1>12, <1>13, StepOf DEF CallInv

LEMMA IndexNotReadStep ==
    ASSUME Inv, NEW c \in Call, IndexNotRead(c)
    PROVE  Inv'
<1>1. /\ pc[c] = "index" /\ pc' = [pc EXCEPT ![c] = "details"]
      /\ failed' = failed \cup {c}
      /\ req' = req /\ todo' = todo /\ found' = found /\ at' = at
      /\ answer' = answer /\ index' = index /\ details' = details
      /\ searchTime' = searchTime /\ now' = now
      /\ since' = since /\ covered' = covered
  BY DEF IndexNotRead, Move, Fail, locals, redis
<1>2. Typed /\ CallInv(c) /\ IndexedHasDetails
  BY DEF Inv
<1>3. Typed'
  BY <1>1, <1>2 DEF Typed, Steps, Day
<1>4. pc'[c] = "details"
  BY <1>1, <1>2 DEF Typed
<1>5. Moves(c)
  BY <1>1, <1>2 DEF Typed, Moves
<1>6. found[c] = {} /\ todo[c] = <<>>
  BY <1>1, <1>2 DEF CallInv, LocalInv
<1>7. CallInv(c)'
  BY <1>1, <1>2, <1>4, <1>6, NoPlaces
     DEF CallInv, TimeInv, LocalInv, StoredInv, CoveredInv, Running, Searching,
         Storing, Near
<1>8. IndexedHasDetails'
  BY <1>1, <1>2, <1>5, IndexKept DEF Moves
<1> QED BY <1>3, <1>5, <1>7, <1>8, StepOf

\* The next place is taken off the list, and counted when it was read.
LEMMA ReadDetailsStep ==
    ASSUME Inv, NEW c \in Call, ReadDetails(c) \/ DetailsNotRead(c)
    PROVE  Inv'
<1> DEFINE p == Head(todo[c])
<1>1. /\ pc[c] = "details" /\ todo[c] # <<>>
      /\ todo' = [todo EXCEPT ![c] = Tail(@)]
      /\ \/ /\ p \in DOMAIN details /\ failed' = failed
            /\ found' = [found EXCEPT ![c] = @ \cup {<<p, details[p]>>}]
         \/ p \notin DOMAIN details /\ failed' = failed /\ found' = found
         \/ failed' = failed \cup {c} /\ found' = found
      /\ req' = req /\ pc' = pc /\ at' = at
      /\ answer' = answer /\ index' = index /\ details' = details
      /\ searchTime' = searchTime /\ now' = now
      /\ since' = since /\ covered' = covered
  BY DEF ReadDetails, DetailsNotRead, Fail, redis
<1>2. Typed /\ CallInv(c) /\ IndexedHasDetails
  BY DEF Inv
<1>3. LocalInv(c) /\ todo[c] \in Seq(Place) /\ found[c] \subseteq Place \X Day
  BY <1>2, CallTyped DEF CallInv
<1>4. /\ Tail(todo[c]) \in Seq(Place) /\ IsInjective(Tail(todo[c]))
      /\ p \in Place /\ p \in ToSet(todo[c])
      /\ ToSet(Tail(todo[c])) = ToSet(todo[c]) \ {p}
  BY <1>1, <1>3, TailLists DEF LocalInv
<1> HIDE DEF p
<1>5. todo'[c] = Tail(todo[c])
  BY <1>1, <1>2 DEF Typed
<1>6. \/ /\ p \in DOMAIN details /\ c \notin failed' \ failed
         /\ found'[c] = found[c] \cup {<<p, details[p]>>}
      \/ found'[c] = found[c] /\ (p \notin DOMAIN details \/ c \in failed')
  BY <1>1, <1>2 DEF Typed
<1>7. Typed'
  <2>1. todo' \in [Call -> Seq(Place)]
    BY <1>1, <1>2, <1>4 DEF Typed
  <2>2. p \in DOMAIN details => <<p, details[p]>> \in Place \X Day
    BY <1>2, <1>4 DEF Typed
  <2>3. found' \in [Call -> SUBSET (Place \X Day)]
    <3>1. found \in [Call -> SUBSET (Place \X Day)]
      BY <1>2 DEF Typed
    <3>2. p \in DOMAIN details => found[c] \cup {<<p, details[p]>>} \subseteq Place \X Day
      BY <1>3, <2>2
    <3> HIDE DEF p
    <3> QED BY <1>1, <3>1, <3>2
  <2> QED BY <1>1, <1>2, <2>1, <2>3 DEF Typed, Day
<1>8. Moves(c)
  BY <1>1, <1>2 DEF Typed, Moves
<1>9. /\ p \notin Firsts(found[c]) /\ Readings(found[c])
      /\ ToSet(todo[c]) \cup Firsts(found[c]) \subseteq Reach(req[c])
      /\ ToSet(todo[c]) \cap Firsts(found[c]) = {}
  BY <1>1, <1>3, <1>4 DEF LocalInv
<1>10. /\ Readings(found'[c])
       /\ Firsts(found'[c]) \in {Firsts(found[c]), Firsts(found[c]) \cup {p}}
       /\ c \notin failed' /\ p \in DOMAIN details =>
             Firsts(found'[c]) = Firsts(found[c]) \cup {p}
  <2>1. CASE found'[c] = found[c] /\ (p \notin DOMAIN details \/ c \in failed')
    BY <1>9, <2>1
  <2>2. CASE p \in DOMAIN details /\ found'[c] = found[c] \cup {<<p, details[p]>>}
    <3>1. /\ Readings(found[c] \cup {<<p, details[p]>>})
          /\ Firsts(found[c] \cup {<<p, details[p]>>}) = Firsts(found[c]) \cup {p}
      BY <1>9, ReadingAdded
    <3> QED BY <2>2, <3>1
  <2> QED BY <1>6, <2>1, <2>2
<1>11. LocalInv(c)'
  <2>1. /\ ToSet(todo'[c]) \cup Firsts(found'[c]) \subseteq Reach(req[c])
        /\ ToSet(todo'[c]) \cap Firsts(found'[c]) = {}
    BY <1>4, <1>5, <1>9, <1>10
  <2> QED BY <1>1, <1>3, <1>4, <1>5, <1>10, <2>1 DEF LocalInv, Reach, Near
<1>12. TimeInv(c)' /\ StoredInv(c)'
  BY <1>1, <1>2 DEF CallInv, TimeInv, StoredInv, Running, Searching, Storing
\* The places of the earlier call have their details.
<1>13. CoveredInv(c)'
  <2>1. SUFFICES ASSUME c \in covered, c \notin failed'
                 PROVE  \E d \in Call : CoveredBy(d, c)'
    BY <1>1 DEF CoveredInv
  <2>2. c \notin failed
    BY <1>8, <2>1 DEF Moves
  <2>3. PICK d \in Call : CoveredBy(d, c)
    BY <1>1, <1>2, <2>1, <2>2 DEF CallInv, CoveredInv
  <2>4. d # c
    BY <1>1, <2>3 DEF CoveredBy
  <2>5. d \notin failed'
    BY <1>8, <2>3, <2>4 DEF CoveredBy, Moves
  <2>6. CallInv(d)
    BY DEF Inv
  <2>7. answer[d] \subseteq DOMAIN details
    BY <2>3, <2>6, NoPlaces DEF CallInv, StoredInv, CoveredBy, Storing
  <2>8. Sufficient(d, c) \subseteq ToSet(todo[c]) \cup Firsts(found[c])
    BY <1>1, <2>3 DEF CoveredBy
  <2>9. p \in Sufficient(d, c) => p \in Firsts(found'[c])
    BY <1>10, <2>1, <2>7 DEF Sufficient
  <2>10. Sufficient(d, c) \subseteq ToSet(todo'[c]) \cup Firsts(found'[c])
    BY <1>4, <1>5, <1>10, <2>8, <2>9
  <2>11. CoveredBy(d, c)'
    BY <1>1, <2>3, <2>5, <2>10 DEF CoveredBy, Sufficient, Near
  <2> QED BY <2>11
<1>14. IndexedHasDetails'
  <2>1. \A d \in Call : pc[d] = "store details" =>
                            pc'[d] = pc[d] /\ todo'[d] = todo[d]
    BY <1>1, <1>8 DEF Moves
  <2>2. failed \subseteq failed'
    BY <1>8 DEF Moves
  <2> QED BY <1>1, <1>2, <2>1, <2>2, IndexKept
<1> QED BY <1>7, <1>8, <1>11, <1>12, <1>13, <1>14, StepOf DEF CallInv

LEMMA UseCacheStep ==
    ASSUME Inv, NEW c \in Call, UseCache(c)
    PROVE  Inv'
<1>1. /\ pc[c] = "details" /\ pc' = [pc EXCEPT ![c] = "cached"]
      /\ todo[c] = <<>> /\ Enough(c)
      /\ at' = [at EXCEPT ![c] = now]
      /\ answer' = [answer EXCEPT ![c] = Firsts(found[c])]
      /\ req' = req /\ todo' = todo /\ found' = found
      /\ index' = index /\ details' = details
      /\ searchTime' = searchTime /\ now' = now /\ failed' = failed
      /\ since' = since /\ covered' = covered
  BY DEF UseCache, Move, CacheWillDo, redis, Firsts
<1>2. Typed /\ CallInv(c) /\ IndexedHasDetails
  BY DEF Inv
<1>3. /\ req[c] \in Request /\ now \in Day /\ now \in Nat
      /\ found[c] \subseteq Place \X Day
  BY <1>2, CallTyped
<1>4. Firsts(found[c]) \subseteq Place
  BY <1>3 DEF Firsts
<1>5. Typed'
  BY <1>1, <1>2, <1>3, <1>4 DEF Typed, Steps, Day
<1>6. pc'[c] = "cached" /\ answer'[c] = Firsts(found[c]) /\ at'[c] = now
  BY <1>1, <1>2 DEF Typed
<1>7. Moves(c)
  BY <1>1, <1>2 DEF Typed, Moves
<1>8. Readings(found[c]) /\ Firsts(found[c]) \subseteq Reach(req[c])
  BY <1>1, <1>2 DEF CallInv, LocalInv
<1>9. /\ Cardinality(answer'[c]) >= MinNumResults
      /\ answer'[c] \subseteq Near(req[c].location, req[c].radius)
      /\ answer'[c] \subseteq Near(req[c].location, MaxSearchRadius)
  BY <1>1, <1>3, <1>6, <1>8, FirstsCount, ReachIsBoth DEF Enough
<1>10. LocalInv(c)'
  BY <1>1, <1>2, <1>6, <1>9 DEF CallInv, LocalInv, Near
<1>11. TimeInv(c)' /\ StoredInv(c)' /\ CoveredInv(c)'
  BY <1>1, <1>2, <1>6
     DEF TimeInv, StoredInv, CoveredInv, Running, Searching, Storing
<1>12. IndexedHasDetails'
  <2>1. answer[c] = {}
    BY <1>1, <1>2 DEF CallInv, LocalInv
  <2>2. \A d \in Call : /\ answer[d] \subseteq answer'[d]
                        /\ pc[d] = "store details" =>
                              pc'[d] = pc[d] /\ todo'[d] = todo[d]
    BY <1>1, <1>7, <2>1 DEF Moves
  <2> QED BY <1>1, <1>2, <2>2, IndexKept
<1> QED BY <1>5, <1>7, <1>10, <1>11, <1>12, StepOf DEF CallInv

LEMMA CacheWillNotDoStep ==
    ASSUME Inv, NEW c \in Call, CacheWillNotDo(c)
    PROVE  Inv'
<1>1. /\ pc[c] = "details" /\ pc' = [pc EXCEPT ![c] = "set time"]
      /\ todo[c] = <<>>
      /\ \/ ~ CacheWillDo(c) /\ failed' = failed
         \/ failed' = failed \cup {c}
      /\ at' = [at EXCEPT ![c] = now]
      /\ found' = [found EXCEPT ![c] = {}]
      /\ req' = req /\ todo' = todo /\ answer' = answer
      /\ index' = index /\ details' = details
      /\ searchTime' = searchTime /\ now' = now
      /\ since' = since /\ covered' = covered
  BY DEF CacheWillNotDo, Move, Fail, redis
<1>2. Typed /\ CallInv(c) /\ IndexedHasDetails
  BY DEF Inv
<1>3. /\ req[c] \in Request /\ now \in Day /\ now \in Nat
      /\ since[c] \in Nat /\ since[c] <= now
      /\ found[c] \subseteq Place \X Day
  BY <1>2, CallTyped DEF Day
<1>4. Typed'
  <2>1. found' \in [Call -> SUBSET (Place \X Day)]
    BY <1>1, <1>2 DEF Typed
  <2>2. pc' \in [Call -> Steps] /\ at' \in [Call -> Day]
    BY <1>1, <1>2, <1>3 DEF Typed, Steps
  <2> QED BY <1>1, <1>2, <2>1, <2>2 DEF Typed, Day
<1>5. pc'[c] = "set time" /\ at'[c] = now /\ found'[c] = {}
  BY <1>1, <1>2 DEF Typed
<1>6. Moves(c)
  BY <1>1, <1>2 DEF Typed, Moves
<1>7. LocalInv(c)' /\ StoredInv(c)'
  BY <1>1, <1>2, <1>5 DEF CallInv, LocalInv, StoredInv, Searching, Storing, Near
<1>8. TimeInv(c)'
  <2>1. now <= since[c] + 1
    BY <1>1, <1>2 DEF CallInv, TimeInv, Running
  <2>2. now' <= since'[c] + 1 /\ since'[c] <= at'[c]
    BY <1>1, <1>3, <1>5, <2>1
  <2> QED BY <2>2 DEF TimeInv
\* The cache does for a call that has started today and is covered.
<1>9. CoveredInv(c)'
  <2>1. SUFFICES ASSUME c \in covered, c \notin failed'
                 PROVE  now > since[c]
    BY <1>1, <1>5 DEF CoveredInv
  <2>2. c \notin failed /\ ~ CacheWillDo(c)
    BY <1>1, <2>1
  <2>3. SUFFICES ASSUME now = since[c]
                 PROVE  CacheWillDo(c)
    BY <1>3, <2>2
  <2>4. PICK d \in Call : CoveredBy(d, c)
    BY <1>1, <1>2, <2>1, <2>2 DEF CallInv, CoveredInv
  <2>5. CallInv(d) /\ since[d] \in Nat /\ answer[d] \subseteq Place
    BY <1>2, CallTyped DEF Inv
  <2>6. /\ Key(req[c]) \in DOMAIN searchTime
        /\ since[d] <= searchTime[Key(req[c])] + 1
    BY <2>4, <2>5 DEF CallInv, StoredInv, CoveredBy, Searching
  <2>7. Recent(searchTime[Key(req[c])])
    <3>1. searchTime[Key(req[c])] \in Nat /\ Refresh \in Nat
      BY <1>2, <2>6, LimitsAssumption DEF Typed, Day
    <3>2. now - since[d] < Refresh
      BY <2>3, <2>4 DEF CoveredBy
    <3> QED BY <1>3, <2>5, <2>6, <3>1, <3>2 DEF Recent
  <2>8. Enough(c)
    <3>1. /\ Sufficient(d, c) \subseteq Firsts(found[c])
          /\ Cardinality(Sufficient(d, c)) >= MinNumResults
      BY <1>1, <2>4, NoPlaces DEF CoveredBy
    <3>2. /\ IsFiniteSet(Firsts(found[c]))
          /\ Cardinality(Firsts(found[c])) = Cardinality(found[c])
      BY <1>1, <1>2, FirstsCount DEF CallInv, LocalInv
    <3>3. /\ Cardinality(Sufficient(d, c)) <= Cardinality(Firsts(found[c]))
          /\ IsFiniteSet(Sufficient(d, c))
      BY <3>1, <3>2, FS_Subset
    <3>4. /\ Cardinality(Sufficient(d, c)) \in Nat
          /\ Cardinality(Firsts(found[c])) \in Nat
          /\ MinNumResults \in Nat
      BY <3>2, <3>3, FS_CardinalityType, LimitsAssumption
    <3>5. Cardinality(found[c]) >= MinNumResults
      BY <3>1, <3>2, <3>3, <3>4
    <3> QED BY <3>5 DEF Enough
  <2> QED BY <2>6, <2>7, <2>8 DEF CacheWillDo
<1>10. IndexedHasDetails'
  <2>1. \A d \in Call : pc[d] = "store details" =>
                            pc'[d] = pc[d] /\ todo'[d] = todo[d]
    BY <1>1, <1>6 DEF Moves
  <2>2. failed \subseteq failed'
    BY <1>6 DEF Moves
  <2> QED BY <1>1, <1>2, <2>1, <2>2, IndexKept
<1> QED BY <1>4, <1>6, <1>7, <1>8, <1>9, <1>10, StepOf DEF CallInv

\* The time of the search is written before the search, and is of late.
LEMMA SetSearchTimeStep ==
    ASSUME Inv, NEW c \in Call, SetSearchTime(c) \/ SearchTimeNotSet(c)
    PROVE  Inv'
<1> DEFINE K == Key(req[c])
<1>1. /\ pc[c] = "set time" /\ pc' = [pc EXCEPT ![c] = "maps"]
      /\ \/ searchTime' = Put(searchTime, K, at[c]) /\ failed' = failed
         \/ searchTime' = searchTime /\ failed' = failed \cup {c}
      /\ req' = req /\ todo' = todo /\ found' = found /\ at' = at
      /\ answer' = answer /\ index' = index /\ details' = details
      /\ now' = now /\ since' = since /\ covered' = covered
  BY DEF SetSearchTime, SearchTimeNotSet, TimeToSet, Move, Fail, locals, redis
<1>2. Typed /\ CallInv(c) /\ IndexedHasDetails
  BY DEF Inv
<1>3. /\ at[c] \in Day /\ now \in Nat /\ at[c] \in Nat /\ since[c] \in Nat
      /\ now <= since[c] + 1 /\ since[c] <= at[c]
  BY <1>1, <1>2, CallTyped DEF CallInv, TimeInv, Running
<1> HIDE DEF K
<1>4. /\ DOMAIN Put(searchTime, K, at[c]) = DOMAIN searchTime \cup {K}
      /\ Put(searchTime, K, at[c])[K] = at[c]
      /\ \A k \in DOMAIN searchTime \ {K} :
            Put(searchTime, K, at[c])[k] = searchTime[k]
  BY DEF Put
<1>5. Typed'
  <2>1. \A k \in DOMAIN searchTime' : searchTime'[k] \in Day
    <3>1. \A k \in DOMAIN searchTime : searchTime[k] \in Day
      BY <1>2 DEF Typed
    <3>2. \A k \in DOMAIN Put(searchTime, K, at[c]) :
             Put(searchTime, K, at[c])[k] \in Day
      BY <1>3, <1>4, <3>1
    <3> QED BY <1>1, <3>1, <3>2
  <2> QED BY <1>1, <1>2, <2>1 DEF Typed, Steps, Day
<1>6. pc'[c] = "maps"
  BY <1>1, <1>2 DEF Typed
<1>7. Moves(c)
  <2>1. \A k \in DOMAIN searchTime :
            /\ k \in DOMAIN searchTime'
            /\ searchTime'[k] = searchTime[k] \/ now <= searchTime'[k] + 1
    <3>1. now <= at[c] + 1
      BY <1>3
    <3>2. CASE searchTime' = Put(searchTime, K, at[c])
      BY <1>4, <3>1, <3>2
    <3> QED BY <1>1, <3>2
  <2> QED BY <1>1, <1>2, <2>1 DEF Typed, Moves
<1>8. StoredInv(c)'
  <2>1. SUFFICES ASSUME c \notin failed'
                 PROVE  /\ K \in DOMAIN searchTime'
                        /\ since[c] <= searchTime'[K] + 1
    BY <1>1, <1>6 DEF StoredInv, Storing, K, Key
  <2>2. searchTime' = Put(searchTime, K, at[c])
    BY <1>1, <2>1
  <2> QED BY <1>3, <1>4, <2>2
<1>9. TimeInv(c)' /\ LocalInv(c)' /\ CoveredInv(c)'
  BY <1>1, <1>2, <1>3, <1>6
     DEF CallInv, TimeInv, LocalInv, CoveredInv, Running, Searching, Near
<1>10. IndexedHasDetails'
  <2>1. \A d \in Call : pc[d] = "store details" =>
                            pc'[d] = pc[d] /\ todo'[d] = todo[d]
    BY <1>1, <1>7 DEF Moves
  <2>2. failed \subseteq failed'
    BY <1>7 DEF Moves
  <2> QED BY <1>1, <1>2, <2>1, <2>2, IndexKept
<1> QED BY <1>5, <1>7, <1>8, <1>9, <1>10, StepOf DEF CallInv

LEMMA SearchMapsStep ==
    ASSUME Inv, NEW c \in Call, SearchMaps(c)
    PROVE  Inv'
<1>1. PICK places \in SUBSET Near(req[c].location, MaxSearchRadius) :
        /\ answer' = [answer EXCEPT ![c] = places]
        /\ \E order \in SetToSeqs(places) : todo' = [todo EXCEPT ![c] = order]
  BY DEF SearchMaps
<1>2. PICK order \in SetToSeqs(places) : todo' = [todo EXCEPT ![c] = order]
  BY <1>1
<1>3. /\ pc[c] = "maps" /\ pc' = [pc EXCEPT ![c] = "store index"]
      /\ at' = [at EXCEPT ![c] = now]
      /\ req' = req /\ found' = found /\ index' = index /\ details' = details
      /\ searchTime' = searchTime /\ failed' = failed
      /\ now' = now /\ since' = since /\ covered' = covered
  BY DEF SearchMaps, Move, redis
<1>4. Typed /\ CallInv(c) /\ IndexedHasDetails
  BY DEF Inv
<1>5. places \subseteq Place
  BY DEF Near
<1>6. order \in Seq(Place) /\ IsInjective(order) /\ ToSet(order) = places
  BY <1>5, OrderLists
<1>7. now \in Day /\ now \in Nat /\ since[c] \in Nat /\ since[c] <= now
  BY <1>4, CallTyped DEF Day
<1>8. Typed'
  <2>1. pc' \in [Call -> Steps] /\ at' \in [Call -> Day]
    BY <1>3, <1>4, <1>7 DEF Typed, Steps
  <2>2. todo' \in [Call -> Seq(Place)] /\ answer' \in [Call -> SUBSET Place]
    BY <1>1, <1>2, <1>4, <1>5, <1>6 DEF Typed
  <2> QED BY <1>3, <1>4, <2>1, <2>2 DEF Typed, Day
<1>9. /\ pc'[c] = "store index" /\ todo'[c] = order /\ answer'[c] = places
      /\ at'[c] = now
  BY <1>1, <1>2, <1>3, <1>4 DEF Typed
<1>10. Moves(c)
  BY <1>1, <1>2, <1>3, <1>4 DEF Typed, Moves
<1>11. TimeInv(c)'
  <2>1. now <= since[c] + 1
    BY <1>3, <1>4 DEF CallInv, TimeInv, Running
  <2>2. now' <= since'[c] + 1 /\ since'[c] <= at'[c]
    BY <1>3, <1>7, <1>9, <2>1
  <2> QED BY <2>2 DEF TimeInv
<1>12. LocalInv(c)'
  BY <1>3, <1>6, <1>9 DEF LocalInv, Near
<1>13. StoredInv(c)'
  BY <1>3, <1>4, <1>6, <1>9 DEF CallInv, StoredInv, Searching, Storing
<1>14. CoveredInv(c)'
  BY <1>9 DEF CoveredInv
<1>15. IndexedHasDetails'
  <2>1. answer[c] = {}
    BY <1>3, <1>4 DEF CallInv, LocalInv
  <2>2. \A d \in Call : /\ answer[d] \subseteq answer'[d]
                        /\ pc[d] = "store details" =>
                              pc'[d] = pc[d] /\ todo'[d] = todo[d]
    BY <1>3, <1>10, <2>1 DEF Moves
  <2> QED BY <1>3, <1>4, <2>2, IndexKept
<1> QED BY <1>8, <1>10, <1>11, <1>12, <1>13, <1>14, <1>15, StepOf DEF CallInv

LEMMA StoreIndexStep ==
    ASSUME Inv, NEW c \in Call, StoreIndex(c)
    PROVE  Inv'
<1> DEFINE p == Head(todo[c])
           cat == req[c].category
<1>1. /\ pc[c] = "store index" /\ pc' = [pc EXCEPT ![c] = "store details"]
      /\ todo[c] # <<>>
      /\ \/ index' = [index EXCEPT ![cat] = @ \cup {p}] /\ failed' = failed
         \/ index' = index /\ failed' = failed \cup {c}
      /\ req' = req /\ todo' = todo /\ found' = found /\ at' = at
      /\ answer' = answer /\ details' = details /\ searchTime' = searchTime
      /\ now' = now /\ since' = since /\ covered' = covered
  BY DEF StoreIndex, Move, Fail, locals
<1>2. Typed /\ CallInv(c) /\ IndexedHasDetails
  BY DEF Inv
<1>3. /\ cat \in PlaceCat /\ todo[c] \in Seq(Place) /\ p \in Place
      /\ p \in ToSet(todo[c]) /\ ToSet(todo[c]) \subseteq answer[c]
  BY <1>1, <1>2, CallTyped, TailLists
     DEF CallInv, LocalInv, StoredInv, Storing
<1> HIDE DEF p, cat
<1>4. /\ index' \in [PlaceCat -> SUBSET Place]
      /\ \A other \in PlaceCat :
            /\ index[other] \subseteq index'[other]
            /\ index'[other] \subseteq index[other] \cup {p}
            /\ other # cat => index'[other] = index[other]
      /\ p \in index'[cat] \/ c \in failed'
  BY <1>1, <1>2, <1>3 DEF Typed
<1>5. Typed'
  BY <1>1, <1>2, <1>4 DEF Typed, Steps, Day
<1>6. pc'[c] = "store details"
  BY <1>1, <1>2 DEF Typed
<1>7. Moves(c)
  BY <1>1, <1>2, <1>4 DEF Typed, Moves
<1>8. StoredInv(c)'
  <2>1. StoredInv(c) /\ index[cat] \subseteq index'[cat]
    BY <1>2, <1>3, <1>4 DEF CallInv
  <2> QED BY <1>1, <1>4, <1>6, <2>1
          DEF StoredInv, Searching, Storing, p, cat
<1>9. TimeInv(c)' /\ LocalInv(c)' /\ CoveredInv(c)'
  BY <1>1, <1>2, <1>6
     DEF CallInv, TimeInv, LocalInv, CoveredInv, Running, Searching, Near
<1>10. IndexedHasDetails'
  <2>0. todo' = todo /\ answer' = answer /\ details' = details /\ req' = req
    BY <1>1
  <2> SUFFICES ASSUME NEW other \in PlaceCat, NEW o \in index'[other] \ DOMAIN details'
               PROVE  \E d \in Call :
                          /\ req'[d].category = other /\ o \in answer'[d]
                          /\ \/ d \in failed'
                             \/ pc'[d] = "store details" /\ Head(todo'[d]) = o
    BY DEF IndexedHasDetails
  <2>1. CASE o \in index[other]
    <3>1. PICK d \in Call :
              /\ req[d].category = other /\ o \in answer[d]
              /\ d \in failed \/ (pc[d] = "store details" /\ Head(todo[d]) = o)
      BY <1>2, <2>0, <2>1 DEF IndexedHasDetails
    <3>2. d \in failed => d \in failed'
      BY <1>7 DEF Moves
    <3>3. pc[d] = "store details" => pc'[d] = pc[d]
      BY <1>1, <1>7 DEF Moves
    <3> QED BY <2>0, <3>1, <3>2, <3>3
  <2>2. CASE o \notin index[other]
    <3>1. other = cat /\ o = p /\ p \in index'[cat]
      BY <1>4, <2>2
    <3> QED BY <1>3, <1>6, <2>0, <3>1 DEF p, cat
  <2> QED BY <2>1, <2>2
<1> QED BY <1>5, <1>7, <1>8, <1>9, <1>10, StepOf DEF CallInv

LEMMA StoreDetailsStep ==
    ASSUME Inv, NEW c \in Call, StoreDetails(c)
    PROVE  Inv'
<1> DEFINE p == Head(todo[c])
           cat == req[c].category
<1>1. /\ pc[c] = "store details" /\ pc' = [pc EXCEPT ![c] = "store index"]
      /\ todo' = [todo EXCEPT ![c] = Tail(@)]
      /\ \/ details' = Put(details, p, at[c]) /\ failed' = failed
         \/ details' = details /\ failed' = failed \cup {c}
      /\ req' = req /\ found' = found /\ at' = at
      /\ answer' = answer /\ index' = index /\ searchTime' = searchTime
      /\ now' = now /\ since' = since /\ covered' = covered
  BY DEF StoreDetails, Move, Fail
<1>2. Typed /\ CallInv(c) /\ IndexedHasDetails
  BY DEF Inv
<1>3. /\ cat \in PlaceCat /\ todo[c] \in Seq(Place) /\ todo[c] # <<>>
      /\ at[c] \in Day /\ IsInjective(todo[c])
      /\ ToSet(todo[c]) \subseteq answer[c]
  BY <1>1, <1>2, CallTyped DEF CallInv, LocalInv, StoredInv, Storing
<1>4. /\ Tail(todo[c]) \in Seq(Place) /\ IsInjective(Tail(todo[c]))
      /\ p \in Place /\ p \in ToSet(todo[c])
      /\ ToSet(Tail(todo[c])) = ToSet(todo[c]) \ {p}
  BY <1>3, TailLists
<1> HIDE DEF p, cat
<1>5. /\ DOMAIN details' \subseteq DOMAIN details \cup {p}
      /\ DOMAIN details \subseteq DOMAIN details'
      /\ p \in DOMAIN details' \/ c \in failed'
      /\ \A o \in DOMAIN details' : details'[o] \in Day
  <2>1. \A o \in DOMAIN details : details[o] \in Day
    BY <1>2 DEF Typed
  <2>2. CASE details' = Put(details, p, at[c])
    BY <1>3, <2>1, <2>2 DEF Put
  <2>3. CASE details' = details /\ failed' = failed \cup {c}
    BY <2>1, <2>3
  <2> QED BY <1>1, <2>2, <2>3
<1>6. pc'[c] = "store index" /\ todo'[c] = Tail(todo[c])
  BY <1>1, <1>2 DEF Typed
<1>7. Typed'
  <2>1. todo' \in [Call -> Seq(Place)] /\ pc' \in [Call -> Steps]
    BY <1>1, <1>2, <1>4 DEF Typed, Steps
  <2>2. DOMAIN details' \subseteq Place
    BY <1>2, <1>4, <1>5 DEF Typed
  <2> QED BY <1>1, <1>2, <1>5, <2>1, <2>2 DEF Typed, Day
<1>8. Moves(c)
  BY <1>1, <1>2, <1>5 DEF Typed, Moves
<1>9. StoredInv(c)'
  <2>1. StoredInv(c)
    BY <1>2 DEF CallInv
  <2>2. ASSUME c \notin failed'
        PROVE  answer[c] \ ToSet(Tail(todo[c])) \subseteq index[cat] \cap DOMAIN details'
    <3>1. c \notin failed
      BY <1>8, <2>2 DEF Moves
    <3>2. /\ answer[c] \ ToSet(todo[c]) \subseteq index[cat] \cap DOMAIN details
          /\ p \in index[cat]
      BY <1>1, <2>1, <3>1 DEF StoredInv, Storing, p, cat
    <3> QED BY <1>4, <1>5, <2>2, <3>2
  <2>3. c \notin failed' => c \notin failed
    BY <1>8 DEF Moves
  <2> QED BY <1>1, <1>3, <1>4, <1>6, <2>1, <2>2, <2>3
          DEF StoredInv, Searching, Storing, cat
<1>10. TimeInv(c)' /\ LocalInv(c)' /\ CoveredInv(c)'
  BY <1>1, <1>2, <1>4, <1>6
     DEF CallInv, TimeInv, LocalInv, CoveredInv, Running, Searching, Near
<1>11. IndexedHasDetails'
  <2> SUFFICES ASSUME NEW other \in PlaceCat, NEW o \in index[other] \ DOMAIN details'
               PROVE  \E d \in Call :
                          /\ req[d].category = other /\ o \in answer[d]
                          /\ \/ d \in failed'
                             \/ pc'[d] = "store details" /\ Head(todo'[d]) = o
    BY <1>1 DEF IndexedHasDetails
  <2>1. o \notin DOMAIN details
    BY <1>5
  <2>2. PICK d \in Call :
            /\ req[d].category = other /\ o \in answer[d]
            /\ d \in failed \/ (pc[d] = "store details" /\ Head(todo[d]) = o)
    BY <1>2, <2>1 DEF IndexedHasDetails
  <2>3. d \in failed => d \in failed'
    BY <1>8 DEF Moves
  <2>4. CASE d = c
    <3>1. d \in failed \/ o = p
      BY <2>2, <2>4 DEF p
    <3> QED BY <1>5, <2>2, <2>3, <2>4, <3>1
  <2>5. CASE d # c
    <3>1. pc'[d] = pc[d] /\ todo'[d] = todo[d]
      BY <1>8, <2>5 DEF Moves
    <3> QED BY <2>2, <2>3, <3>1
  <2> QED BY <2>4, <2>5
<1> QED BY <1>7, <1>8, <1>9, <1>10, <1>11, StepOf DEF CallInv

LEMMA ReturnStep ==
    ASSUME Inv, NEW c \in Call, Return(c)
    PROVE  Inv'
<1>1. /\ pc[c] = "store index" /\ pc' = [pc EXCEPT ![c] = "done"]
      /\ todo[c] = <<>>
      /\ req' = req /\ todo' = todo /\ found' = found /\ at' = at
      /\ answer' = answer /\ index' = index /\ details' = details
      /\ searchTime' = searchTime /\ now' = now /\ failed' = failed
      /\ since' = since /\ covered' = covered
  BY DEF Return, Move, locals, redis
<1>2. Typed /\ CallInv(c) /\ IndexedHasDetails
  BY DEF Inv
<1>3. Typed'
  BY <1>1, <1>2 DEF Typed, Steps, Day
<1>4. pc'[c] = "done"
  BY <1>1, <1>2 DEF Typed
<1>5. Moves(c)
  BY <1>1, <1>2 DEF Typed, Moves
<1>6. TimeInv(c)' /\ LocalInv(c)' /\ CoveredInv(c)'
  BY <1>1, <1>2, <1>4
     DEF CallInv, TimeInv, LocalInv, CoveredInv, Running, Searching, Near
<1>7. StoredInv(c)'
  BY <1>1, <1>2, <1>4 DEF CallInv, StoredInv, Searching, Storing
<1>8. IndexedHasDetails'
  BY <1>1, <1>2, <1>5, IndexKept DEF Moves
<1> QED BY <1>3, <1>5, <1>6, <1>7, <1>8, StepOf DEF CallInv

\* No call is at work on more than two days.
LEMMA TickStep ==
    ASSUME Inv, Tick
    PROVE  Inv'
<1>1. /\ now < MaxTime /\ now' = now + 1
      /\ \A c \in Call : Running(c) => since[c] = now
      /\ pc' = pc /\ req' = req /\ todo' = todo /\ found' = found /\ at' = at
      /\ answer' = answer /\ index' = index /\ details' = details
      /\ searchTime' = searchTime /\ failed' = failed
      /\ since' = since /\ covered' = covered
  BY DEF Tick, locals, redis
<1>2. Typed /\ IndexedHasDetails
  BY DEF Inv
<1>3. /\ now \in Nat /\ now' \in 0 .. MaxTime
      /\ Day \subseteq Day'
  <2>1. now \in 0 .. MaxTime /\ MaxTime \in Nat
    BY <1>2, LimitsAssumption DEF Typed
  <2> QED BY <1>1, <2>1 DEF Day
<1>4. Typed'
  <2>1. found' \in [Call -> SUBSET (Place \X Day')]
    <3>1. found \in [Call -> SUBSET (Place \X Day)]
      BY <1>2 DEF Typed
    <3>2. SUBSET (Place \X Day) \subseteq SUBSET (Place \X Day')
      BY <1>3
    <3> QED BY <1>1, <3>1, <3>2
  <2>2. at' \in [Call -> Day'] /\ since' \in [Call -> Day']
    BY <1>1, <1>2, <1>3 DEF Typed
  <2>3. /\ \A p \in DOMAIN details' : details'[p] \in Day'
        /\ \A k \in DOMAIN searchTime' : searchTime'[k] \in Day'
    BY <1>1, <1>2, <1>3 DEF Typed
  <2> QED BY <1>1, <1>2, <1>3, <2>1, <2>2, <2>3 DEF Typed
<1>5. ASSUME NEW c \in Call
      PROVE  CallInv(c)'
  <2>1. CallInv(c)
    BY DEF Inv
  <2>2. TimeInv(c)'
    <3>1. Running(c)' => now' <= since'[c] + 1
      BY <1>1, <1>3 DEF Running
    <3>2. pc'[c] = "set time" \/ Searching(c)' => since'[c] <= at'[c]
      BY <1>1, <2>1 DEF CallInv, TimeInv, Searching
    <3> QED BY <3>1, <3>2 DEF TimeInv
  <2>3. LocalInv(c)' /\ StoredInv(c)'
    BY <1>1, <2>1 DEF CallInv, LocalInv, StoredInv, Searching, Storing, Reach, Near
  <2>4. CoveredInv(c)'
    BY <1>1, <2>1 DEF CallInv, CoveredInv, CoveredBy, Sufficient, Near
  <2> QED BY <2>2, <2>3, <2>4 DEF CallInv
<1>6. IndexedHasDetails'
  BY <1>1, <1>2, IndexKept
<1> QED BY <1>4, <1>5, <1>6 DEF Inv
-----------------------------------------------------------------------------
(***************************************************************************)
(* The theorems.                                                           *)
(***************************************************************************)

LEMMA InitInv == Init => Inv
<1> SUFFICES ASSUME Init PROVE Inv
  OBVIOUS
<1>1. 0 \in Day /\ now = 0 /\ now \in 0 .. MaxTime
  BY LimitsAssumption DEF Init, Day
<1>2. Typed
  BY <1>1, NoPlaces DEF Init, Typed, Steps
<1>3. ASSUME NEW c \in Call
      PROVE  CallInv(c)
  <2>1. /\ pc[c] = "idle" /\ todo[c] = <<>> /\ found[c] = {} /\ answer[c] = {}
        /\ covered = {} /\ now = 0
    BY DEF Init
  <2>2. TimeInv(c) /\ StoredInv(c) /\ CoveredInv(c)
    BY <2>1 DEF TimeInv, StoredInv, CoveredInv, Running, Searching, Storing
  <2>3. LocalInv(c)
    BY <2>1, NoPlaces DEF LocalInv
  <2> QED BY <2>2, <2>3 DEF CallInv
<1>4. IndexedHasDetails
  BY DEF Init, IndexedHasDetails
<1> QED BY <1>2, <1>3, <1>4 DEF Inv

LEMMA InvStep == Inv /\ [Next]_vars => Inv'
<1> SUFFICES ASSUME Inv, [Next]_vars PROVE Inv'
  OBVIOUS
<1>1. CASE Tick
  BY <1>1, TickStep
<1>2. ASSUME NEW c \in Call,
             \/ Start(c) \/ GeocodeFails(c) \/ ReadIndex(c) \/ IndexNotRead(c)
             \/ ReadDetails(c) \/ DetailsNotRead(c) \/ UseCache(c)
             \/ CacheWillNotDo(c) \/ SetSearchTime(c) \/ SearchTimeNotSet(c)
             \/ SearchMaps(c) \/ StoreIndex(c) \/ StoreDetails(c) \/ Return(c)
      PROVE  Inv'
  BY <1>2, StartStep, GeocodeFailsStep, ReadIndexStep, IndexNotReadStep,
     ReadDetailsStep, UseCacheStep, CacheWillNotDoStep, SetSearchTimeStep,
     SearchMapsStep, StoreIndexStep, StoreDetailsStep, ReturnStep
<1>3. CASE UNCHANGED vars
  <2>1. /\ pc' = pc /\ req' = req /\ todo' = todo /\ found' = found /\ at' = at
        /\ answer' = answer /\ index' = index /\ details' = details
        /\ searchTime' = searchTime /\ failed' = failed
        /\ since' = since /\ covered' = covered /\ now' = now
    BY <1>3 DEF vars, locals, redis
  <2>2. Typed'
    BY <2>1 DEF Inv, Typed, Day
  <2>3. ASSUME NEW c \in Call
        PROVE  CallInv(c)'
    <3>1. CallInv(c)
      BY DEF Inv
    <3>2. TimeInv(c)' /\ LocalInv(c)'
      BY <2>1, <3>1 DEF CallInv, TimeInv, LocalInv, Running, Searching, Reach, Near
    <3>3. StoredInv(c)'
      BY <2>1, <3>1 DEF CallInv, StoredInv, Searching, Storing
    <3>4. CoveredInv(c)'
      BY <2>1, <3>1 DEF CallInv, CoveredInv, CoveredBy, Sufficient, Near
    <3> QED BY <3>2, <3>3, <3>4 DEF CallInv
  <2>4. IndexedHasDetails'
    BY <2>1, IndexKept DEF Inv
  <2> QED BY <2>2, <2>3, <2>4 DEF Inv
<1> QED BY <1>1, <1>2, <1>3 DEF Next

LEMMA Invariance == Spec => []Inv
  BY InitInv, InvStep, PTL DEF Spec

\* An answer of the cache has as many places as asked for, all within the
\* radius of the request, and no answer goes beyond the limit of the searches.
THEOREM AnswersAreInReach == Spec => []AnswerInReach
<1>1. Inv => AnswerInReach
  BY DEF Inv, CallInv, LocalInv, AnswerInReach
<1> QED BY <1>1, Invariance, PTL

\* A place of the geo index lacks its details only while the call that found it
\* is between the two writes, or after one of its writes has failed.
THEOREM IndexedPlacesHaveDetails == Spec => []IndexedHasDetails
<1>1. Inv => IndexedHasDetails
  BY DEF Inv
<1> QED BY <1>1, Invariance, PTL

\* A call that starts after another, not long before, had found and stored
\* enough does not search Maps on that day, unless Redis fails it.
THEOREM NoSearchIsNeedless == Spec => []NoNeedlessSearch
<1>1. Inv => NoNeedlessSearch
  BY DEF Inv, Typed, CallInv, CoveredInv, NoNeedlessSearch
<1> QED BY <1>1, Invariance, PTL

\* Types of the state of the calls and of Redis.
THEOREM PlaceCacheTypeCorrect == Spec => []TypeOK
<1>1. Inv => TypeOK
  <2> SUFFICES ASSUME Inv PROVE TypeOK
    OBVIOUS
  <2>1. Typed
    BY DEF Inv
  <2>2. ASSUME NEW c \in Call
        PROVE  /\ todo[c] \in Seq(Place) /\ IsInjective(todo[c])
               /\ found[c] \subseteq Place \X Day
               /\ answer[c] \subseteq Place
    BY <2>1, CallTyped DEF Inv, CallInv, LocalInv
  <2>3. Range(details) \subseteq Day /\ Range(searchTime) \subseteq Day
    BY <2>1 DEF Typed, Range
  <2> QED BY <2>1, <2>2, <2>3 DEF TypeOK, Typed, Steps
<1> QED BY <1>1, Invariance, PTL
=============================================================================
