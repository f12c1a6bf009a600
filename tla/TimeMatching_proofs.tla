------------------------- MODULE TimeMatching_proofs -------------------------
(***************************************************************************)
(* What TimeIntervals, IntervalInsertion and TimeMatching promise.         *)
(* InsertTimeInterval keeps its list sorted, complete and as long as its   *)
(* count says, for all intervals of hours that do not overlap, in every    *)
(* order and in any number; ParseTimeInterval stays in range; and a call   *)
(* of Matching that runs alone returns the clusters of its own request.    *)
(***************************************************************************)
EXTENDS TimeMatching, IntervalInsertion, FiniteSetTheorems, NaturalsInduction,
        SequenceTheorems, WellFoundedInduction, TLAPS

\* A nonempty set of naturals has a least element.
LEMMA LeastNatural ==
    ASSUME NEW S \in SUBSET Nat, S # {}
    PROVE  \E x \in S : \A y \in S : x <= y
<1> DEFINE R == {ss \in Nat \X Nat : ss[1] < ss[2]}
<1>1. IsWellFoundedOn(R, Nat)
  BY NatLessThanWellFounded DEF OpToRel
<1>2. PICK x \in S : \A y \in S : ~ (<<y, x>> \in R)
  <2> HIDE DEF R
  <2>1. QED
    BY <1>1, WFMin
<1>3. ASSUME NEW y \in S
      PROVE  x <= y
  <2>1. ASSUME y < x
        PROVE  <<y, x>> \in R
    BY <2>1
  <2>2. QED
    BY <1>2, <2>1
<1>4. QED
  BY <1>3

\* Min chooses it.
LEMMA MinIsLeast ==
    ASSUME NEW S \in SUBSET Nat, S # {}
    PROVE  Min(S) \in S /\ \A y \in S : Min(S) <= y
  BY LeastNatural DEF Min

\* Every interval of the list ends before the next ones start.
Separated(list) ==
    \A i, j \in DOMAIN list : i < j => list[i].end <= list[j].start

InsertionInv ==
    /\ ti.list \in Seq(Interval(Hour))
    /\ ti.num = Len(ti.list)
    /\ Separated(ti.list)
    /\ ToSet(ti.list) = inserted

\* InsertAt leaves what is before the position and moves up the rest.
LEMMA InsertAtProperties ==
    ASSUME NEW S, NEW s \in Seq(S), NEW m \in 1 .. Len(s), NEW e \in S
    PROVE  /\ InsertAt(s, m, e) \in Seq(S)
           /\ Len(InsertAt(s, m, e)) = Len(s) + 1
           /\ \A i \in 1 .. (m - 1) : InsertAt(s, m, e)[i] = s[i]
           /\ InsertAt(s, m, e)[m] = e
           /\ \A i \in (m + 1) .. (Len(s) + 1) : InsertAt(s, m, e)[i] = s[i - 1]
  BY DEF InsertAt

\* What the list and its count are to be after an interval has been inserted.
Extends(next, list, iv) ==
    /\ next.list \in Seq(Interval(Hour))
    /\ next.num = Len(next.list)
    /\ Separated(next.list)
    /\ ToSet(next.list) = ToSet(list) \cup {iv}

\* One insertion: the list stays separated, gains the new interval and
\* nothing else, and its length and the count grow by one together.
LEMMA InsertStep ==
    ASSUME Hour \subseteq Nat,
           NEW list \in Seq(Interval(Hour)), Separated(list),
           NEW iv \in Interval(Hour),
           \A i \in DOMAIN list : ~ Intersect(list[i], iv)
    PROVE  Extends(InsertTimeInterval([list |-> list, num |-> Len(list)], iv),
                   list, iv)
<1> DEFINE now == [list |-> list, num |-> Len(list)]
           n == Len(list)
           F == Following(now, iv)
           next == InsertTimeInterval(now, iv)
<1>0. SUFFICES Extends(next, list, iv)
  OBVIOUS
<1>1. /\ iv.start \in Nat /\ iv.end \in Nat /\ iv.start < iv.end
      /\ \A i \in 1 .. n : /\ list[i].start \in Nat /\ list[i].end \in Nat
                           /\ list[i].start < list[i].end
                           /\ list[i].end <= iv.start \/ list[i].start >= iv.end
  <2>1. \A x \in Interval(Hour) :
            x.start \in Nat /\ x.end \in Nat /\ x.start < x.end
    BY DEF Interval
  <2>2. \A i \in 1 .. n : list[i] \in Interval(Hour)
    OBVIOUS
  <2>3. \A i \in 1 .. n : list[i].end <= iv.start \/ list[i].start >= iv.end
    BY DEF Intersect
  <2>4. QED
    BY <2>1, <2>2, <2>3
<1>2. F = {i \in 1 .. n : list[i].start >= iv.end}
  BY DEF Following
<1>3. CASE F = {}
  <2>1. \A i \in 1 .. n : list[i].end <= iv.start
    BY <1>1, <1>2, <1>3
  <2>2. next = [list |-> Append(list, iv), num |-> n + 1]
    <3>1. CASE n = 0
      BY <3>1 DEF InsertTimeInterval
    <3>2. CASE n # 0
      <4>1. Shifted(now, iv) = list
        BY <1>3 DEF Shifted
      <4>2. iv.start >= list[n].end
        BY <1>1, <2>1, <3>2
      <4>3. QED
        BY <3>2, <4>1, <4>2 DEF InsertTimeInterval
    <3>3. QED
      BY <3>1, <3>2
  <2> HIDE DEF next, F
  <2>3. /\ Append(list, iv) \in Seq(Interval(Hour))
        /\ Len(Append(list, iv)) = n + 1
        /\ \A i \in 1 .. n : Append(list, iv)[i] = list[i]
        /\ Append(list, iv)[n + 1] = iv
    OBVIOUS
  <2>4. Separated(Append(list, iv))
    BY <1>1, <2>1, <2>3 DEF Separated
  <2>5. ToSet(Append(list, iv)) = ToSet(list) \cup {iv}
    BY <2>3 DEF ToSet
  <2>6. QED
    BY <2>2, <2>3, <2>4, <2>5 DEF Extends
<1>4. CASE F # {}
  <2> DEFINE m == Min(F)
             new == InsertAt(list, m, iv)
  <2>1. m \in F /\ \A i \in F : m <= i
    BY <1>2, <1>4, MinIsLeast
  <2>2. m \in 1 .. n
    BY <1>2, <2>1
  <2> HIDE DEF m, F
  <2>3. \A i \in 1 .. (m - 1) : list[i].end <= iv.start
    <3>1. ASSUME NEW i \in 1 .. (m - 1)
          PROVE  i \in 1 .. n /\ i \notin F
      BY <2>1, <2>2
    <3>2. QED
      BY <1>1, <1>2, <3>1
  <2>4. \A i \in m .. n : list[i].start >= iv.end
    BY <1>1, <1>2, <2>1, <2>2, SMTT(30) DEF Separated
  <2>5. /\ new \in Seq(Interval(Hour))
        /\ Len(new) = n + 1
        /\ \A i \in 1 .. (m - 1) : new[i] = list[i]
        /\ new[m] = iv
        /\ \A i \in (m + 1) .. (n + 1) : new[i] = list[i - 1]
    <3>1. DEFINE T == Interval(Hour)
    <3>2. list \in Seq(T) /\ iv \in T
      OBVIOUS
    <3> HIDE DEF next, T
    <3>3. /\ InsertAt(list, m, iv) \in Seq(T)
          /\ Len(InsertAt(list, m, iv)) = Len(list) + 1
          /\ \A i \in 1 .. (m - 1) : InsertAt(list, m, iv)[i] = list[i]
          /\ InsertAt(list, m, iv)[m] = iv
          /\ \A i \in (m + 1) .. (Len(list) + 1) :
                InsertAt(list, m, iv)[i] = list[i - 1]
      BY <2>2, <3>2, InsertAtProperties, SMTT(30)
    <3>4. QED
      BY <3>3 DEF T
  <2>6. Shifted(now, iv) = new
    BY <1>4 DEF Shifted, m, F
  <2> HIDE DEF new
  <2>7. ~ (iv.start >= new[n].end)
    <3>1. CASE m = n
      BY <1>1, <2>5, <3>1
    <3>2. CASE m # n
      <4>1. new[n] = list[n - 1] /\ n - 1 \in m .. n
        BY <2>2, <2>5, <3>2
      <4>2. n - 1 \in 1 .. n /\ list[n - 1].start >= iv.end
        BY <2>2, <2>4, <4>1
      <4>3. /\ list[n - 1].start < list[n - 1].end /\ iv.start < iv.end
            /\ {list[n - 1].start, list[n - 1].end, iv.start, iv.end} \subseteq Int
        BY <1>1, <4>2
      <4>4. QED
        BY <4>1, <4>2, <4>3
    <3>3. QED
      BY <3>1, <3>2
  <2>8. next = [list |-> new, num |-> n + 1]
    BY <2>2, <2>6, <2>7 DEF InsertTimeInterval
  <2> HIDE DEF next
  <2>9. Separated(new)
    <3>1. SUFFICES ASSUME NEW i \in 1 .. (n + 1), NEW j \in 1 .. (n + 1), i < j
                   PROVE  new[i].end <= new[j].start
      BY <2>5 DEF Separated
    <3>2. \A k, l \in 1 .. n : k < l => list[k].end <= list[l].start
      BY DEF Separated
    <3>3. CASE i < m /\ j < m
      <4>1. /\ new[i] = list[i] /\ new[j] = list[j]
            /\ i \in 1 .. n /\ j \in 1 .. n
        BY <2>2, <2>5, <3>3
      <4>2. QED
        BY <3>1, <3>2, <4>1
    <3>4. CASE i < m /\ j = m
      <4>1. i \in 1 .. (m - 1)
        BY <2>2, <3>4
      <4>2. new[i] = list[i] /\ new[j] = iv
        BY <2>5, <3>4, <4>1
      <4>3. QED
        BY <2>3, <4>1, <4>2
    <3>5. CASE i < m /\ m < j
      <4>1. i \in 1 .. (m - 1) /\ j \in (m + 1) .. (n + 1) /\ i < j - 1
        BY <2>2, <3>5
      <4>2. new[i] = list[i] /\ new[j] = list[j - 1] /\ i < j - 1
        BY <2>5, <4>1
      <4>3. i \in 1 .. n /\ j - 1 \in 1 .. n
        BY <2>2, <4>1
      <4>4. QED
        BY <3>2, <4>2, <4>3
    <3>6. CASE i = m
      <4>1. new[j] = list[j - 1] /\ j - 1 \in m .. n
        BY <2>2, <2>5, <3>1, <3>6
      <4>2. QED
        BY <2>4, <2>5, <3>6, <4>1
    <3>7. CASE m < i
      <4>1. /\ new[i] = list[i - 1] /\ new[j] = list[j - 1]
            /\ i - 1 \in 1 .. n /\ j - 1 \in 1 .. n /\ i - 1 < j - 1
        BY <2>2, <2>5, <3>1, <3>7
      <4>2. QED
        BY <3>2, <4>1
    <3>8. QED
      BY <2>2, <3>1, <3>3, <3>4, <3>5, <3>6, <3>7
  <2>10. ToSet(new) = ToSet(list) \cup {iv}
    <3>1. ASSUME NEW i \in 1 .. (n + 1)
          PROVE  new[i] \in ToSet(list) \cup {iv}
      <4>1. \A k \in 1 .. n : list[k] \in ToSet(list)
        BY DEF ToSet
      <4>2. CASE i < m
        BY <2>2, <2>5, <4>1, <4>2
      <4>3. CASE m < i
        <5>1. new[i] = list[i - 1] /\ i - 1 \in 1 .. n
          BY <2>2, <2>5, <4>3
        <5>2. QED
          BY <4>1, <5>1
      <4>4. QED
        BY <2>2, <2>5, <4>2, <4>3
    <3>2. ASSUME NEW i \in 1 .. n
          PROVE  list[i] \in ToSet(new)
      <4>1. \A k \in 1 .. (n + 1) : new[k] \in ToSet(new)
        BY <2>5 DEF ToSet
      <4>2. CASE i < m
        BY <2>2, <2>5, <4>1, <4>2
      <4>3. CASE m <= i
        <5>1. new[i + 1] = list[i] /\ i + 1 \in 1 .. (n + 1)
          BY <2>2, <2>5, <4>3
        <5>2. QED
          BY <4>1, <5>1
      <4>4. QED
        BY <2>2, <4>2, <4>3
    <3>3. iv \in ToSet(new)
      BY <2>2, <2>5 DEF ToSet
    <3>4. QED
      BY <2>5, <3>1, <3>2, <3>3 DEF ToSet
  <2>11. QED
    BY <2>5, <2>8, <2>9, <2>10 DEF Extends
<1>5. QED
  BY <1>3, <1>4

\* InsertionInv is inductive.
LEMMA InsertionInvStep ==
    ASSUME Hour \subseteq Nat, InsertionInv, [InsertionNext]_insertionVars
    PROVE  InsertionInv'
<1>1. CASE UNCHANGED insertionVars
  BY <1>1 DEF InsertionInv, insertionVars, Separated
<1>2. CASE InsertionNext
  <2>1. PICK iv \in Interval(Hour) : Insert(iv)
    BY <1>2 DEF InsertionNext
  <2>2. /\ ti.list \in Seq(Interval(Hour))
        /\ ti.num = Len(ti.list)
        /\ Separated(ti.list)
        /\ ToSet(ti.list) = inserted
    BY DEF InsertionInv
  <2>3. \A i \in DOMAIN ti.list : ~ Intersect(ti.list[i], iv)
    BY <2>1, <2>2 DEF Insert, ToSet
  <2>4. Extends(InsertTimeInterval([list |-> ti.list, num |-> Len(ti.list)], iv),
                ti.list, iv)
    BY <2>2, <2>3, InsertStep
  <2>5. Extends(ti', ti.list, iv) /\ inserted' = inserted \cup {iv}
    <3>1. /\ ti' = InsertTimeInterval(ti, iv)
          /\ inserted' = inserted \cup {iv}
      BY <2>1 DEF Insert
    <3>2. InsertTimeInterval(ti, iv)
            = InsertTimeInterval([list |-> ti.list, num |-> Len(ti.list)], iv)
      BY <2>2 DEF InsertTimeInterval, Shifted, Following
    <3>3. QED
      BY <2>4, <3>1, <3>2
  <2>6. QED
    BY <2>2, <2>5 DEF InsertionInv, Extends
<1>3. QED
  BY <1>1, <1>2

\* Whatever intervals that do not overlap are inserted, and in whatever
\* order, the list holds each of them once, by start time, and the count
\* agrees with it (InsertTimeInterval, "maintain intervals sorted").
THEOREM InsertionCorrect ==
    ASSUME Hour \subseteq Nat
    PROVE  InsertionSpec => []SortedAndComplete
<1>1. InsertionInit => InsertionInv
  BY DEF InsertionInit, InsertionInv, NoIntervals, Separated, ToSet
<1>2. InsertionInv /\ [InsertionNext]_insertionVars => InsertionInv'
  BY InsertionInvStep
<1>3. InsertionInv => SortedAndComplete
  <2>1. SUFFICES ASSUME InsertionInv,
                        NEW i \in DOMAIN ti.list, NEW j \in DOMAIN ti.list, i < j
                 PROVE  ti.list[i].start < ti.list[j].start
    BY DEF InsertionInv, SortedAndComplete, SortedByStart
  <2>2. \A x \in Interval(Hour) :
            x.start \in Nat /\ x.end \in Nat /\ x.start < x.end
    BY DEF Interval
  <2>3. ti.list[i] \in Interval(Hour) /\ ti.list[j] \in Interval(Hour)
    BY <2>1 DEF InsertionInv
  <2>4. /\ {ti.list[i].start, ti.list[i].end, ti.list[j].start} \subseteq Nat
        /\ ti.list[i].start < ti.list[i].end
    BY <2>2, <2>3
  <2>5. ti.list[i].end <= ti.list[j].start
    BY <2>1 DEF InsertionInv, Separated
  <2>6. QED
    BY <2>4, <2>5
<1>4. QED
  BY <1>1, <1>2, <1>3, PTL DEF InsertionSpec

\* The intervals and the count keep their types.
THEOREM InsertionTypeCorrect ==
    ASSUME Hour \subseteq Nat
    PROVE  InsertionSpec => []InsertionTypeOK
<1>1. InsertionInit => InsertionInv
  BY DEF InsertionInit, InsertionInv, NoIntervals, Separated, ToSet
<1>2. InsertionInv /\ [InsertionNext]_insertionVars => InsertionInv'
  BY InsertionInvStep
<1>3. InsertionInv => InsertionTypeOK
  BY DEF InsertionInv, InsertionTypeOK, ToSet
<1>4. QED
  BY <1>1, <1>2, <1>3, PTL DEF InsertionSpec
-----------------------------------------------------------------------------
(***************************************************************************)
(* Opening hours.                                                          *)
(***************************************************************************)

Half == {"AM", "PM"}
ClockHour(hour, half) == (hour % 12) + (IF half = "AM" THEN 0 ELSE 12)

\* An hour other than twelve is the hour of the day, and twelve is half a day
\* late.
LEMMA HourOfDay ==
    ASSUME NEW hour \in 1 .. 12, NEW half \in Half
    PROVE  /\ CalculateHour(hour, half) \in 1 .. 24
           /\ hour # 12 => CalculateHour(hour, half) = ClockHour(hour, half)
           /\ hour = 12 => CalculateHour(hour, half) = ClockHour(hour, half) + 12
BY DEF CalculateHour, ClockHour, Half

\* "return a TimeInterval with start and end hour in [0-24]": what
\* ParseTimeInterval makes of hours of a twelve-hour clock, each with its half in
\* one case, is in range and does not end before it starts.  It starts with the hour of the clock unless that
\* is twelve: what opens at noon is taken to open at midnight.
THEOREM OpeningHoursInRange ==
    ASSUME NEW text, ~ text.closed,
           text.hours \in Seq(1 .. 12), text.halves \in Seq(Half),
           Len(text.hours) >= 2, Len(text.halves) >= 2
    PROVE  LET opening == ParseTimeInterval(text)
           IN  /\ opening.start \in 0 .. 24
               /\ opening.end \in 0 .. 24
               /\ opening.start <= opening.end
               /\ text.hours[1] # 12 =>
                    opening.start = ClockHour(text.hours[1], text.halves[1])
               /\ text.hours[1] = 12 /\ text.halves[1] = "PM" => opening.start = 24
<1> DEFINE start == CalculateHour(text.hours[1], text.halves[1])
           end == CalculateHour(text.hours[2], text.halves[2])
<1>1. /\ text.hours[1] \in 1 .. 12 /\ text.hours[2] \in 1 .. 12
      /\ text.halves[1] \in Half /\ text.halves[2] \in Half
  <2>1. 1 \in 1 .. Len(text.hours) /\ 2 \in 1 .. Len(text.hours)
    OBVIOUS
  <2>2. 1 \in 1 .. Len(text.halves) /\ 2 \in 1 .. Len(text.halves)
    OBVIOUS
  <2>3. text.hours[1] \in 1 .. 12 /\ text.hours[2] \in 1 .. 12
    BY <2>1
  <2>4. text.halves[1] \in Half /\ text.halves[2] \in Half
    BY <2>2
  <2> QED BY <2>3, <2>4
<1>2. start \in 1 .. 24 /\ end \in 1 .. 24
  BY <1>1, HourOfDay
<1>3. ParseTimeInterval(text) =
        [start |-> start, end |-> IF start > end THEN 24 ELSE end]
  BY DEF ParseTimeInterval
<1>4. text.hours[1] # 12 => start = ClockHour(text.hours[1], text.halves[1])
  BY <1>1, HourOfDay
<1>5. text.hours[1] = 12 /\ text.halves[1] = "PM" => start = 24
  BY DEF CalculateHour
<1> HIDE DEF start, end
<1> QED BY <1>2, <1>3, <1>4, <1>5
-----------------------------------------------------------------------------
(***************************************************************************)
(* Matching.                                                               *)
(***************************************************************************)

TimeSlot == Interval(Nat)

\* No interval of the list ends before one in front of it starts.
NoInversion(list) == \A i, j \in DOMAIN list : i < j => list[j].end > list[i].start

\* What calls of any number leave in a manager at any time.
MgrTyped(m) ==
    /\ m.ready \in BOOLEAN
    /\ m.iv.list \in Seq(TimeSlot)
    /\ m.iv.num \in Nat
    /\ Len(m.iv.list) <= m.iv.num
    /\ NoInversion(m.iv.list)
    /\ m.places \in Seq(Place)
    /\ \A slot \in DOMAIN m.clusters : m.clusters[slot] \in Seq(Place)

Typed ==
    /\ pc \in [Request -> {"idle", "reset", "fresh", "insert", "search", "assign",
                           "collect", "sort", "done", "panicked", "crashed"}]
    /\ cat \in [Request -> {1, 2}]
    /\ DOMAIN todo = Request
    /\ \A r \in Request : /\ pc[r] = "insert" => todo[r] \in Seq(TimeSlot)
                          /\ pc[r] = "assign" => todo[r] \in Seq(Place)
    /\ DOMAIN mgr = Category
    /\ \A c \in Category : MgrTyped(mgr[c])
    /\ DOMAIN clusterMap = Request
    /\ DOMAIN clusters = Request
    /\ found \in [Request -> [Category -> Seq(Place)]]
    /\ alone \subseteq Request

\* A call that no other has overlapped runs alone.
AloneRuns ==
    \A r \in alone, q \in Request : Running(r) /\ Running(q) => r = q

\* The rest of a sequence, after a loop has handled what is before it.
Rest(t, s) ==
    /\ Len(t) <= Len(s)
    /\ \A i \in 1 .. Len(t) : t[i] = s[Len(s) - Len(t) + i]

SlotSet(r) == ToSet(Slots[r])

\* The first places a search returned, as far as they are open for a slot.
FirstOpen(r, c, n, slot) ==
    At(found[r][c], {i \in 1 .. n : IsOpen(found[r][c][i], Day[r], slot)})

\* The manager of a category has the clusters of a request.
Filled(r, c) ==
    /\ mgr[c].ready
    /\ mgr[c].iv.list = Slots[r]
    /\ mgr[c].clusters = [slot \in SlotSet(r) |-> OpenFor(r, c, slot)]

\* What a call that runs alone knows of its manager, step by step.
Alone(r) ==
    /\ pc[r] \notin {"panicked", "crashed"}
    /\ pc[r] = "idle" => cat[r] = 1
    /\ pc[r] \in {"idle", "reset", "fresh", "insert", "search", "assign"} =>
          clusterMap[r] = NoMap
    /\ pc[r] \in {"reset", "fresh", "insert", "search", "assign"} /\ cat[r] = 2 =>
          Filled(r, "eatery")
    /\ pc[r] = "fresh" => Manager(r).clusters = NoMap
    /\ pc[r] = "insert" =>
          /\ Manager(r).ready
          /\ Rest(todo[r], Slots[r])
          /\ Manager(r).iv.num = Len(Manager(r).iv.list)
          /\ Len(Manager(r).iv.list) = Len(Slots[r]) - Len(todo[r])
          /\ \A i \in 1 .. Len(Manager(r).iv.list) :
                Manager(r).iv.list[i] = Slots[r][i]
          /\ Manager(r).clusters = [slot \in ToSet(Manager(r).iv.list) |-> <<>>]
    /\ pc[r] = "search" =>
          /\ Manager(r).ready
          /\ Manager(r).iv.list = Slots[r]
          /\ Manager(r).places = found[r][Cat(r)]
          /\ Manager(r).clusters = [slot \in SlotSet(r) |-> <<>>]
    /\ pc[r] = "assign" =>
          /\ Manager(r).ready
          /\ Manager(r).iv.list = Slots[r]
          /\ Rest(todo[r], found[r][Cat(r)])
          /\ Manager(r).clusters =
                [slot \in SlotSet(r) |->
                    FirstOpen(r, Cat(r), Len(found[r][Cat(r)]) - Len(todo[r]), slot)]
    /\ pc[r] = "collect" =>
          /\ Filled(r, "visit")
          /\ cat[r] = 1 => Filled(r, "eatery") /\ clusterMap[r] = NoMap
          /\ cat[r] = 2 => clusterMap[r] = [slot \in SlotSet(r) |->
                                               Tagged("eatery", OpenFor(r, "eatery", slot))]
    /\ pc[r] = "sort" =>
          clusterMap[r] = [slot \in SlotSet(r) |->
                              Tagged("eatery", OpenFor(r, "eatery", slot))
                              \o Tagged("visit", OpenFor(r, "visit", slot))]
    /\ pc[r] = "done" => clusters[r] = Expected(r)

-----------------------------------------------------------------------------
(***************************************************************************)
(* The list of a manager, which calls that overlap fill at the same time.  *)
(***************************************************************************)

LEMMA SlotOf ==
    ASSUME NEW iv \in TimeSlot
    PROVE  iv.start \in Nat /\ iv.end \in Nat /\ iv.start < iv.end
BY DEF TimeSlot, Interval

\* Whatever list the interval is inserted into, unless that panics: the list
\* gets no longer than its count says, and no interval ends too early.
LEMMA InsertKeeps ==
    ASSUME NEW now, now.list \in Seq(TimeSlot), now.num \in Nat,
           Len(now.list) <= now.num, NoInversion(now.list),
           NEW iv \in TimeSlot, ~ InsertPanics(now, iv)
    PROVE  LET next == InsertTimeInterval(now, iv)
           IN  /\ next.list \in Seq(TimeSlot)
               /\ next.num = now.num + 1
               /\ Len(next.list) <= now.num + 1
               /\ NoInversion(next.list)
<1> DEFINE list == now.list
           n == Len(list)
           F == Following(now, iv)
           next == InsertTimeInterval(now, iv)
           long == Append(list, iv)
<1>1. n \in Nat /\ DOMAIN list = 1 .. n /\ F = {i \in 1 .. n : list[i].start >= iv.end}
  BY DEF Following
<1>2. \A i \in 1 .. n : /\ list[i] \in TimeSlot
                        /\ list[i].start \in Nat /\ list[i].end \in Nat
                        /\ list[i].start < list[i].end
  BY SlotOf
<1>3. iv.start \in Nat /\ iv.end \in Nat /\ iv.start < iv.end
  BY SlotOf
<1>4. \A i, j \in 1 .. n : i < j => list[j].end > list[i].start
  BY <1>1 DEF NoInversion
<1>5. CASE F = {}
  <2>1. Shifted(now, iv) = list
    BY <1>5 DEF Shifted
  <2>2. now.num = n
    BY <1>1, <2>1 DEF InsertPanics
  <2>3. /\ long \in Seq(TimeSlot) /\ Len(long) = n + 1
        /\ \A i \in 1 .. n : long[i] = list[i]
        /\ long[n + 1] = iv
    OBVIOUS
  <2>4. NoInversion(long)
    <3> HIDE DEF long, list, n, F
    <3>1. ASSUME NEW i \in 1 .. n + 1, NEW j \in 1 .. n + 1, i < j
          PROVE  long[j].end > long[i].start
      <4>1. i \in 1 .. n /\ long[i] = list[i]
        BY <1>1, <2>3, <3>1
      <4>2. CASE j \in 1 .. n
        BY <1>4, <2>3, <3>1, <4>1, <4>2
      <4>3. CASE j = n + 1
        <5>1. list[i].start \in Nat /\ ~ (list[i].start >= iv.end)
          BY <1>1, <1>2, <1>5, <4>1
        <5> QED BY <1>3, <2>3, <4>1, <4>3, <5>1
      <4> QED BY <1>1, <3>1, <4>2, <4>3
    <3>2. DOMAIN long = 1 .. n + 1
      BY <2>3
    <3> QED BY <3>1, <3>2 DEF NoInversion
  <2>5. next.num = n + 1 /\ (next.list = long \/ next.list = list)
    BY <2>1, <2>2 DEF InsertTimeInterval
  <2> HIDE DEF long, next, list, F
  <2>6. /\ next.list \in Seq(TimeSlot) /\ NoInversion(next.list)
        /\ next.num = now.num + 1 /\ Len(next.list) <= now.num + 1
    <3>1. list \in Seq(TimeSlot) /\ NoInversion(list) /\ Len(list) = n
      BY DEF list
    <3> HIDE DEF n
    <3> QED BY <1>1, <2>2, <2>3, <2>4, <2>5, <3>1
  <2> QED BY <2>6 DEF next
<1>6. CASE F # {}
  <2> DEFINE m == Min(F)
             new == InsertAt(list, m, iv)
  <2>1. m \in F
    <3>1. F \in SUBSET Nat
      BY <1>1
    <3> QED BY <1>6, <3>1, MinIsLeast
  <2>2. m \in 1 .. n /\ list[m].start >= iv.end
    BY <1>1, <2>1
  <2>3. \A i \in 1 .. (m - 1) : list[i].start < iv.end
    <3>1. \A i \in F : m <= i
      <4>1. F \in SUBSET Nat
        BY <1>1
      <4> QED BY <1>6, <4>1, MinIsLeast
    <3> HIDE DEF F, m
    <3>2. ASSUME NEW i \in 1 .. (m - 1)
          PROVE  i \in 1 .. n /\ i \notin F
      BY <1>1, <2>2, <3>1
    <3>3. \A i \in 1 .. (m - 1) : list[i].start \in Nat /\ ~ (list[i].start >= iv.end)
      BY <1>1, <1>2, <3>2
    <3> QED BY <1>3, <3>3
  <2>4. Shifted(now, iv) = new
    BY <1>6 DEF Shifted
  <2> HIDE DEF m
  <2>5. /\ new \in Seq(TimeSlot)
        /\ Len(new) = n + 1
        /\ \A i \in 1 .. (m - 1) : new[i] = list[i]
        /\ new[m] = iv
        /\ \A i \in (m + 1) .. (n + 1) : new[i] = list[i - 1]
    <3> HIDE DEF F
    <3>1. m \in 1 .. Len(list) /\ list \in Seq(TimeSlot)
      BY <2>2
    <3> HIDE DEF list
    <3> QED BY <3>1, InsertAtProperties
  <2> HIDE DEF new, F
  <2>6. \A j \in m .. n : list[j].end > iv.end
    <3>1. ASSUME NEW j \in m .. n
          PROVE  list[j].end > list[m].start
      <4>1. j \in 1 .. n /\ m \in 1 .. n
        BY <1>1, <2>2
      <4>2. CASE j = m
        BY <1>2, <4>1, <4>2
      <4>3. CASE m < j
        BY <1>4, <4>1, <4>3
      <4> QED BY <3>1, <4>1, <4>2, <4>3
    <3>2. ASSUME NEW j \in m .. n
          PROVE  j \in 1 .. n /\ list[j].end \in Nat /\ list[m].start \in Nat
      BY <1>1, <1>2, <2>2
    <3> QED BY <1>3, <2>2, <3>1, <3>2
  <2>7. now.num \in {n, n + 1} /\ now.num > 0
    BY <1>1, <2>2, <2>4, <2>5 DEF InsertPanics
  <2>8. ~ (iv.start >= new[now.num].end)
    <3>1. CASE now.num = m
      BY <1>3, <2>5, <3>1
    <3>2. CASE now.num # m
      <4>1. now.num \in (m + 1) .. (n + 1)
        BY <1>1, <2>2, <2>7, <3>2
      <4>2. new[now.num] = list[now.num - 1] /\ now.num - 1 \in m .. n
        <5>1. new[now.num] = list[now.num - 1]
          BY <2>5, <4>1
        <5>2. now.num - 1 \in m .. n
          BY <1>1, <2>2, <4>1
        <5> QED BY <5>1, <5>2
      <4>3. list[now.num - 1].end > iv.end /\ list[now.num - 1].end \in Nat
        BY <1>1, <1>2, <2>2, <2>6, <4>2
      <4> QED BY <1>3, <4>2, <4>3
    <3> QED BY <3>1, <3>2
  <2>9. next.num = now.num + 1 /\ next.list = new
    BY <2>4, <2>7, <2>8 DEF InsertTimeInterval
  <2>10. NoInversion(new)
    <3> HIDE DEF next, list, n
    <3>1. ASSUME NEW i \in 1 .. n + 1, NEW j \in 1 .. n + 1, i < j
          PROVE  new[j].end > new[i].start
      <4>1. CASE j < m
        <5>1. i \in 1 .. (m - 1) /\ j \in 1 .. (m - 1) /\ i \in 1 .. n /\ j \in 1 .. n
          BY <1>1, <2>2, <3>1, <4>1
        <5> QED BY <1>4, <2>5, <3>1, <5>1
      <4>2. CASE j = m
        <5>1. i \in 1 .. (m - 1)
          BY <1>1, <2>2, <3>1, <4>2
        <5> QED BY <2>3, <2>5, <4>2, <5>1, <1>3, <1>2, <2>2
      <4>3. CASE m < j
        <5>1. new[j] = list[j - 1] /\ j - 1 \in m .. n /\ j - 1 \in 1 .. n
          BY <1>1, <2>2, <2>5, <3>1, <4>3
        <5>2. CASE i < m
          <6>1. i \in 1 .. (m - 1) /\ i \in 1 .. n /\ i < j - 1
            BY <1>1, <2>2, <3>1, <4>3, <5>2
          <6> QED BY <1>4, <2>5, <5>1, <6>1
        <5>3. CASE i = m
          <6>1. list[j - 1].end > iv.end /\ list[j - 1].end \in Nat
            BY <1>2, <2>6, <5>1
          <6> QED BY <1>3, <2>5, <5>1, <5>3, <6>1
        <5>4. CASE m < i
          <6>1. new[i] = list[i - 1] /\ i - 1 \in 1 .. n /\ i - 1 < j - 1
            BY <1>1, <2>2, <2>5, <3>1, <5>4
          <6> QED BY <1>4, <5>1, <6>1
        <5> QED BY <1>1, <2>2, <3>1, <5>2, <5>3, <5>4
      <4> QED BY <1>1, <2>2, <3>1, <4>1, <4>2, <4>3
    <3>2. DOMAIN new = 1 .. n + 1
      BY <2>5
    <3> QED BY <3>1, <3>2 DEF NoInversion
  <2> HIDE DEF next, list, n
  <2>11. /\ next.list \in Seq(TimeSlot) /\ NoInversion(next.list)
         /\ next.num = now.num + 1 /\ Len(next.list) <= now.num + 1
    BY <1>1, <2>5, <2>7, <2>9, <2>10
  <2> QED BY <2>11 DEF next
<1> QED BY <1>5, <1>6
-----------------------------------------------------------------------------
(***************************************************************************)
(* Types.                                                                  *)
(***************************************************************************)

LEMMA Cats ==
    /\ Category = {"eatery", "visit"}
    /\ Categories[1] = "eatery" /\ Categories[2] = "visit"
<1>1. DOMAIN Categories = {1, 2} /\ Categories[1] = "eatery" /\ Categories[2] = "visit"
  BY DEF Categories
<1> QED BY <1>1 DEF Category, ToSet

LEMMA CatOf ==
    ASSUME Typed, NEW r \in Request
    PROVE  /\ Cat(r) \in Category
           /\ cat[r] = 1 => Cat(r) = "eatery"
           /\ cat[r] = 2 => Cat(r) = "visit"
<1>1. cat[r] \in {1, 2}
  BY DEF Typed
<1> QED BY <1>1, Cats DEF Cat

LEMMA MgrFields ==
    ASSUME NEW ready, NEW iv, NEW map, NEW places
    PROVE  /\ Mgr(ready, iv, map, places).ready = ready
           /\ Mgr(ready, iv, map, places).iv = iv
           /\ Mgr(ready, iv, map, places).clusters = map
           /\ Mgr(ready, iv, map, places).places = places
BY DEF Mgr

\* A manager of any parts that are as they should be.
LEMMA MgrIsTyped ==
    ASSUME NEW ready \in BOOLEAN, NEW iv, iv.list \in Seq(TimeSlot), iv.num \in Nat,
           Len(iv.list) <= iv.num, NoInversion(iv.list),
           NEW map, \A slot \in DOMAIN map : map[slot] \in Seq(Place),
           NEW places \in Seq(Place)
    PROVE  MgrTyped(Mgr(ready, iv, map, places))
<1> DEFINE m == Mgr(ready, iv, map, places)
<1>1. m.ready = ready /\ m.iv = iv /\ m.clusters = map /\ m.places = places
  BY MgrFields
<1> HIDE DEF m
<1>2. m.ready \in BOOLEAN
  BY <1>1, Zenon
<1>3. /\ m.iv.list \in Seq(TimeSlot) /\ m.iv.num \in Nat
      /\ Len(m.iv.list) <= m.iv.num /\ NoInversion(m.iv.list)
      /\ m.places \in Seq(Place)
      /\ \A slot \in DOMAIN m.clusters : m.clusters[slot] \in Seq(Place)
  BY <1>1
<1>4. MgrTyped(m)
  BY <1>2, <1>3, Zenon DEF MgrTyped
<1> QED BY <1>4 DEF m

LEMMA EmptyTyped ==
    /\ NoIntervals.list \in Seq(TimeSlot) /\ NoIntervals.num \in Nat
    /\ Len(NoIntervals.list) <= NoIntervals.num /\ NoInversion(NoIntervals.list)
    /\ \A slot \in DOMAIN NoMap : NoMap[slot] \in Seq(Place)
    /\ <<>> \in Seq(Place)
BY DEF NoIntervals, NoInversion, NoMap

LEMMA ResetTyped ==
    ASSUME NEW m, MgrTyped(m)
    PROVE  /\ MgrTyped(ResetClusters(m))
           /\ MgrTyped(FreshIntervals(m))
           /\ \A places \in Seq(Place) : MgrTyped(Mgr(m.ready, m.iv, m.clusters, places))
<1> USE DEF MgrTyped
<1>1. MgrTyped(ResetClusters(m))
  <2>1. FALSE \in BOOLEAN
    OBVIOUS
  <2> QED BY <2>1, EmptyTyped, MgrIsTyped DEF ResetClusters
<1>2. MgrTyped(FreshIntervals(m))
  <2>1. TRUE \in BOOLEAN
    OBVIOUS
  <2> QED BY <2>1, EmptyTyped, MgrIsTyped DEF FreshIntervals
<1>3. ASSUME NEW places \in Seq(Place)
      PROVE  MgrTyped(Mgr(m.ready, m.iv, m.clusters, places))
  BY <1>3, MgrIsTyped
<1> QED BY <1>1, <1>2, <1>3

LEMMA InsertedTyped ==
    ASSUME NEW m, MgrTyped(m), NEW slot \in TimeSlot, ~ InsertPanics(m.iv, slot)
    PROVE  MgrTyped(Inserted(m, slot))
<1> DEFINE next == InsertTimeInterval(m.iv, slot)
           map == Put(m.clusters, slot, <<>>)
<1>1. /\ next.list \in Seq(TimeSlot) /\ next.num \in Nat
      /\ Len(next.list) <= next.num /\ NoInversion(next.list)
  BY InsertKeeps DEF MgrTyped
<1>2. \A k \in DOMAIN map : map[k] \in Seq(Place)
  BY EmptyTyped DEF MgrTyped, Put
<1>3. m.ready \in BOOLEAN /\ m.places \in Seq(Place)
  BY DEF MgrTyped
<1>4. Inserted(m, slot) = Mgr(m.ready, next, map, m.places)
  BY DEF Inserted
<1> HIDE DEF next, map
<1> QED BY <1>1, <1>2, <1>3, <1>4, MgrIsTyped

LEMMA RepeatedTyped ==
    ASSUME NEW T, NEW s \in Seq(T), NEW times \in Nat
    PROVE  Repeated(s, times) \in Seq(T)
<1>1. Len(s) \in Nat /\ times * Len(s) \in Nat
  OBVIOUS
<1>2. ASSUME NEW i \in 1 .. times * Len(s)
      PROVE  s[((i - 1) % Len(s)) + 1] \in T
  <2>1. Len(s) # 0
    BY <1>1, <1>2
  <2>2. (i - 1) % Len(s) \in 0 .. Len(s) - 1
    BY <1>1, <1>2, <2>1
  <2>3. ((i - 1) % Len(s)) + 1 \in 1 .. Len(s)
    BY <1>1, <2>2
  <2> QED BY <2>3
<1> QED BY <1>1, <1>2 DEF Repeated

LEMMA TimesIsNat ==
    ASSUME NEW T, NEW list \in Seq(T), NEW slot
    PROVE  Times(list, slot) \in Nat
<1>1. IsFiniteSet(1 .. Len(list))
  BY FS_Interval
<1>2. {i \in DOMAIN list : list[i] = slot} \subseteq 1 .. Len(list)
  OBVIOUS
<1> QED BY <1>1, <1>2, FS_Subset, FS_CardinalityType DEF Times

LEMMA AssignedTyped ==
    ASSUME NEW m, MgrTyped(m), NEW place \in Place, NEW day
    PROVE  MgrTyped(Assigned(m, place, day))
<1> DEFINE map == [slot \in DOMAIN m.clusters |->
                      IF IsOpen(place, day, slot)
                      THEN m.clusters[slot] \o Repeated(<<place>>, Times(m.iv.list, slot))
                      ELSE m.clusters[slot]]
<1>1. ASSUME NEW slot \in DOMAIN map
      PROVE  map[slot] \in Seq(Place)
  <2>1. m.clusters[slot] \in Seq(Place) /\ m.iv.list \in Seq(TimeSlot)
    BY <1>1 DEF MgrTyped
  <2>2. Times(m.iv.list, slot) \in Nat
    BY <2>1, TimesIsNat
  <2>3. <<place>> \in Seq(Place)
    OBVIOUS
  <2>4. Repeated(<<place>>, Times(m.iv.list, slot)) \in Seq(Place)
    BY <2>2, <2>3, RepeatedTyped
  <2> QED BY <2>1, <2>4
<1>2. Assigned(m, place, day) = Mgr(m.ready, m.iv, map, m.places)
  BY DEF Assigned
<1>3. /\ m.ready \in BOOLEAN /\ m.iv.list \in Seq(TimeSlot) /\ m.iv.num \in Nat
      /\ Len(m.iv.list) <= m.iv.num /\ NoInversion(m.iv.list)
      /\ m.places \in Seq(Place)
  BY DEF MgrTyped
<1> HIDE DEF map
<1> QED BY <1>1, <1>2, <1>3, MgrIsTyped

\* Only the call that makes a step changes.
OthersKept(r) ==
    /\ alone' = alone
    /\ \A q \in Request \ {r} :
          /\ pc'[q] = pc[q]
          /\ cat'[q] = cat[q]
          /\ todo'[q] = todo[q]
          /\ clusterMap'[q] = clusterMap[q]
          /\ clusters'[q] = clusters[q]
          /\ found'[q] = found[q]

MgrsTyped == DOMAIN mgr = Category /\ \A c \in Category : MgrTyped(mgr[c])

\* A step that writes the manager of its category.
LEMMA ManagerWritten ==
    ASSUME Typed, NEW r \in Request, NEW m, MgrTyped(m),
           mgr' = [mgr EXCEPT ![Cat(r)] = m]
    PROVE  /\ MgrsTyped'
           /\ mgr'[Cat(r)] = m
           /\ \A c \in Category \ {Cat(r)} : mgr'[c] = mgr[c]
<1>1. Cat(r) \in Category
  BY CatOf
<1>2. DOMAIN mgr = Category
  BY DEF Typed
<1>3. /\ DOMAIN mgr' = Category
      /\ mgr'[Cat(r)] = m
      /\ \A c \in Category \ {Cat(r)} : mgr'[c] = mgr[c]
  BY <1>1, <1>2
<1>4. ASSUME NEW c \in Category
      PROVE  MgrTyped(mgr[c])'
  <2>1. CASE c = Cat(r)
    BY <1>3, <2>1 DEF MgrTyped
  <2>2. CASE c # Cat(r)
    BY <1>3, <2>2 DEF Typed, MgrTyped
  <2> QED BY <2>1, <2>2
<1> QED BY <1>3, <1>4 DEF MgrsTyped

\* What a step of a call has to show: types, as far as the step touches them.
LEMMA TypedAfter ==
    ASSUME Typed, NEW r \in Request, OthersKept(r), MgrsTyped',
           pc' \in [Request -> {"idle", "reset", "fresh", "insert", "search", "assign",
                                "collect", "sort", "done", "panicked", "crashed"}],
           cat' \in [Request -> {1, 2}],
           DOMAIN todo' = Request, DOMAIN clusterMap' = Request,
           DOMAIN clusters' = Request,
           found' \in [Request -> [Category -> Seq(Place)]],
           pc'[r] = "insert" => todo'[r] \in Seq(TimeSlot),
           pc'[r] = "assign" => todo'[r] \in Seq(Place)
    PROVE  Typed'
<1>1. \A q \in Request : /\ pc'[q] = "insert" => todo'[q] \in Seq(TimeSlot)
                         /\ pc'[q] = "assign" => todo'[q] \in Seq(Place)
  BY DEF Typed, OthersKept
<1>2. alone' \subseteq Request
  BY DEF Typed, OthersKept
<1> QED BY <1>1, <1>2 DEF Typed, MgrsTyped

LEMMA StepTyped ==
    ASSUME Typed, NEW r \in Request, Step(r)
    PROVE  Typed' /\ OthersKept(r) /\ Running(r)
<1> USE DEF Move, Running
<1>0. /\ \A c \in Category : MgrTyped(mgr[c])
      /\ Cat(r) \in Category /\ MgrTyped(Manager(r))
      /\ cat[r] \in {1, 2}
      /\ UNCHANGED mgr => MgrsTyped'
      /\ NextCategory(r) \in {1, 2}
  BY CatOf DEF Typed, Manager, MgrsTyped, MgrTyped, NextCategory
<1>1. CASE Reset(r)
  <2>1. MgrsTyped'
    BY <1>0, <1>1, ResetTyped, ManagerWritten DEF Reset, Manager
  <2>2. OthersKept(r) /\ Running(r)
    BY <1>1 DEF Reset, Typed, OthersKept
  <2> QED BY <1>1, <2>1, <2>2, TypedAfter DEF Reset, Typed
<1>2. CASE ResetIntervals(r)
  <2>1. MgrsTyped'
    BY <1>0, <1>2, ResetTyped, ManagerWritten DEF ResetIntervals, Manager
  <2>2. OthersKept(r) /\ Running(r)
    BY <1>2 DEF ResetIntervals, Typed, OthersKept
  <2>3. Slots[r] \in Seq(TimeSlot)
    BY SlotsAssumption DEF TimeSlot
  <2> QED BY <1>2, <2>1, <2>2, <2>3, TypedAfter DEF ResetIntervals, Typed
<1>3. CASE InsertSlot(r)
  <2>1. /\ pc[r] = "insert" /\ todo[r] # <<>> /\ todo[r] \in Seq(TimeSlot)
        /\ todo' = [todo EXCEPT ![r] = Tail(todo[r])]
        /\ UNCHANGED <<cat, clusterMap, clusters, found, alone>>
    BY <1>3 DEF InsertSlot, Typed
  <2>2. Head(todo[r]) \in TimeSlot /\ Tail(todo[r]) \in Seq(TimeSlot)
    BY <2>1
  <2>3. \/ Panic(r) /\ UNCHANGED mgr
        \/ /\ ~ InsertPanics(Manager(r).iv, Head(todo[r]))
           /\ mgr' = [mgr EXCEPT ![Cat(r)] = Inserted(Manager(r), Head(todo[r]))]
           /\ UNCHANGED pc
    BY <1>3 DEF InsertSlot, Manager
  <2>4. MgrsTyped'
    BY <1>0, <2>2, <2>3, InsertedTyped, ManagerWritten
  <2>5. OthersKept(r) /\ Running(r)
    BY <2>1, <2>3 DEF Panic, Typed, OthersKept
  <2>6. /\ pc' \in [Request -> {"idle", "reset", "fresh", "insert", "search", "assign",
                               "collect", "sort", "done", "panicked", "crashed"}]
        /\ pc'[r] \in {"insert", "panicked"}
    BY <2>1, <2>3 DEF Panic, Typed
  <2>7. /\ cat' \in [Request -> {1, 2}]
        /\ DOMAIN todo' = Request /\ DOMAIN clusterMap' = Request /\ DOMAIN clusters' = Request
        /\ found' \in [Request -> [Category -> Seq(Place)]]
        /\ todo'[r] \in Seq(TimeSlot)
    BY <2>1, <2>2 DEF Typed
  <2> QED BY <2>4, <2>5, <2>6, <2>7, TypedAfter
<1>4. CASE PlaceSearch(r)
  <2>1. PICK places \in Search[r][Cat(r)] :
            /\ mgr' = [mgr EXCEPT ![Cat(r)] = Mgr(Manager(r).ready, Manager(r).iv,
                                                  Manager(r).clusters, places)]
            /\ found' = [found EXCEPT ![r][Cat(r)] = places]
    BY <1>4 DEF PlaceSearch, Manager
  <2>2. places \in Seq(Place)
    BY <1>0, SearchAssumption
  <2>3. MgrsTyped'
    BY <1>0, <2>1, <2>2, ResetTyped, ManagerWritten
  <2>4. OthersKept(r) /\ Running(r)
    BY <1>4, <2>1 DEF PlaceSearch, Typed, OthersKept
  <2>5. found' \in [Request -> [Category -> Seq(Place)]]
    BY <1>0, <2>1, <2>2 DEF Typed
  <2> QED BY <1>4, <2>3, <2>4, <2>5, TypedAfter DEF PlaceSearch, Typed
<1>5. CASE Clustering(r)
  <2>1. OthersKept(r) /\ Running(r)
    BY <1>5 DEF Clustering, Typed, OthersKept
  <2>2. Manager(r).places \in Seq(Place)
    BY <1>0 DEF MgrTyped
  <2> QED BY <1>0, <1>5, <2>1, <2>2, TypedAfter DEF Clustering, Typed
<1>6. CASE Assign(r)
  <2>1. /\ pc[r] = "assign" /\ todo[r] # <<>> /\ todo[r] \in Seq(Place)
        /\ todo' = [todo EXCEPT ![r] = Tail(todo[r])]
        /\ UNCHANGED <<cat, clusterMap, clusters, found, alone>>
    BY <1>6 DEF Assign, Typed
  <2>2. Head(todo[r]) \in Place /\ Tail(todo[r]) \in Seq(Place)
    BY <2>1
  <2>3. \/ Panic(r) /\ UNCHANGED mgr
        \/ /\ mgr' = [mgr EXCEPT ![Cat(r)] = Assigned(Manager(r), Head(todo[r]), Day[r])]
           /\ UNCHANGED pc
    BY <1>6 DEF Assign, Manager
  <2>4. MgrsTyped'
    BY <1>0, <2>2, <2>3, AssignedTyped, ManagerWritten
  <2>5. OthersKept(r) /\ Running(r)
    BY <2>1, <2>3 DEF Panic, Typed, OthersKept
  <2>6. /\ pc' \in [Request -> {"idle", "reset", "fresh", "insert", "search", "assign",
                               "collect", "sort", "done", "panicked", "crashed"}]
        /\ pc'[r] \in {"assign", "panicked"}
    BY <2>1, <2>3 DEF Panic, Typed
  <2>7. /\ cat' \in [Request -> {1, 2}]
        /\ DOMAIN todo' = Request /\ DOMAIN clusterMap' = Request /\ DOMAIN clusters' = Request
        /\ found' \in [Request -> [Category -> Seq(Place)]]
        /\ todo'[r] \in Seq(Place)
    BY <2>1, <2>2 DEF Typed
  <2> QED BY <2>4, <2>5, <2>6, <2>7, TypedAfter
<1>7. CASE EndPlaceSearch(r)
  <2>1. OthersKept(r) /\ Running(r)
    BY <1>7 DEF EndPlaceSearch, Typed, OthersKept
  <2> QED BY <1>0, <1>7, <2>1, TypedAfter DEF EndPlaceSearch, Typed
<1>8. CASE Collect(r)
  <2>1. /\ pc[r] = "collect"
        /\ UNCHANGED <<todo, mgr, clusters, found, alone>>
        /\ \/ Panic(r) /\ UNCHANGED <<cat, clusterMap>>
           \/ /\ \E map : clusterMap' = [clusterMap EXCEPT ![r] = map]
              /\ pc' = [pc EXCEPT ![r] = IF cat[r] = 1 THEN "collect" ELSE "sort"]
              /\ cat' = [cat EXCEPT ![r] = NextCategory(r)]
    BY <1>8 DEF Collect
  <2>2. OthersKept(r) /\ Running(r)
    BY <2>1 DEF Panic, Typed, OthersKept
  <2>3. DOMAIN clusterMap' = Request /\ DOMAIN todo' = Request /\ DOMAIN clusters' = Request
    BY <2>1 DEF Typed
  <2>4. cat' \in [Request -> {1, 2}]
    BY <1>0, <2>1 DEF Typed
  <2>5. /\ pc' \in [Request -> {"idle", "reset", "fresh", "insert", "search", "assign",
                               "collect", "sort", "done", "panicked", "crashed"}]
        /\ pc'[r] \in {"panicked", "collect", "sort"}
    BY <2>1 DEF Panic, Typed
  <2>6. MgrsTyped' /\ found' \in [Request -> [Category -> Seq(Place)]]
    BY <1>0, <2>1 DEF Typed
  <2> QED BY <2>2, <2>3, <2>4, <2>5, <2>6, TypedAfter
<1>9. CASE Return(r)
  <2>1. /\ Move(r, "sort", "done")
        /\ \E result : clusters' = [clusters EXCEPT ![r] = result]
        /\ clusterMap' = [clusterMap EXCEPT ![r] = NoMap]
        /\ UNCHANGED <<cat, todo, mgr, found, alone>>
    BY <1>9 DEF Return
  <2>2. OthersKept(r) /\ Running(r)
    BY <2>1 DEF Typed, OthersKept
  <2> QED BY <1>0, <2>1, <2>2, TypedAfter DEF Typed
<1> QED BY <1>1, <1>2, <1>3, <1>4, <1>5, <1>6, <1>7, <1>8, <1>9 DEF Step

LEMMA StartTyped ==
    ASSUME Typed, NEW r \in Request, Start(r)
    PROVE  Typed'
BY DEF Typed, Start, Move, MgrTyped, NoInversion

LEMMA RaceTyped ==
    ASSUME Typed, NEW r \in Request, NEW q \in Request, FatalMapRace(r, q)
    PROVE  Typed'
<1>1. MgrTyped(Unused)
  <2>1. FALSE \in BOOLEAN
    OBVIOUS
  <2> QED BY <2>1, EmptyTyped, MgrIsTyped DEF Unused
<1>2. DOMAIN mgr' = Category /\ \A c \in Category : mgr'[c] = Unused
  BY DEF FatalMapRace
<1>3. \A c \in Category : MgrTyped(mgr[c])'
  BY <1>1, <1>2 DEF MgrTyped
<1>4. pc' \in [Request -> {"idle", "reset", "fresh", "insert", "search", "assign",
                           "collect", "sort", "done", "panicked", "crashed"}]
  BY DEF FatalMapRace, Typed
<1>5. \A p \in Request : pc'[p] \in {"insert", "assign"} => pc'[p] = pc[p]
  BY DEF FatalMapRace, Typed
<1>6. UNCHANGED <<cat, todo, clusterMap, clusters, found, alone>>
  BY DEF FatalMapRace
<1> QED BY <1>2, <1>3, <1>4, <1>5, <1>6 DEF Typed

LEMMA InitTyped == Init => Typed
<1> SUFFICES ASSUME Init
             PROVE  Typed
  OBVIOUS
<1>1. MgrTyped(Unused)
  <2>1. FALSE \in BOOLEAN
    OBVIOUS
  <2> QED BY <2>1, EmptyTyped, MgrIsTyped DEF Unused
<1>2. DOMAIN mgr = Category /\ \A c \in Category : MgrTyped(mgr[c])
  BY <1>1 DEF Init
<1>3. found \in [Request -> [Category -> Seq(Place)]]
  BY EmptyTyped DEF Init
<1> QED BY <1>2, <1>3 DEF Init, Typed

LEMMA NextTyped ==
    ASSUME Typed, [Next]_vars
    PROVE  Typed'
<1>1. CASE UNCHANGED vars
  BY <1>1 DEF vars, Typed, MgrTyped, NoInversion
<1>2. ASSUME NEW r \in Request, Start(r) \/ Step(r)
      PROVE  Typed'
  BY <1>2, StartTyped, StepTyped
<1>3. ASSUME NEW r \in Request, NEW q \in Request, FatalMapRace(r, q)
      PROVE  Typed'
  BY <1>3, RaceTyped
<1> QED BY <1>1, <1>2, <1>3 DEF Next

\* Whatever the calls do to the managers between each other's steps, the types
\* hold: a list of intervals is never longer than its count, and clusters hold
\* places (InsertTimeInterval, Assign and the resets on shared managers).
THEOREM MatchingTypeCorrect == Spec => []TypeOK
<1>1. Typed => TypeOK
  <2>1. DOMAIN Categories = {1, 2}
    BY DEF Categories
  <2> QED BY <2>1 DEF Typed, TypeOK, MgrTyped
<1> QED BY <1>1, InitTyped, NextTyped, PTL DEF Spec
-----------------------------------------------------------------------------
(***************************************************************************)
(* What a call does to managers of its own.                                *)
(***************************************************************************)

LEMMA RestTail ==
    ASSUME NEW T, NEW s \in Seq(T), NEW U, NEW t \in Seq(U), t # <<>>, Rest(t, s)
    PROVE  /\ Len(s) - Len(t) + 1 \in 1 .. Len(s)
           /\ Head(t) = s[Len(s) - Len(t) + 1]
           /\ Len(Tail(t)) = Len(t) - 1
           /\ Rest(Tail(t), s)
<1>1. /\ Len(t) \in Nat \ {0} /\ Len(s) \in Nat /\ Len(t) <= Len(s)
      /\ Head(t) = t[1]
      /\ Len(Tail(t)) = Len(t) - 1
      /\ \A i \in 1 .. Len(t) - 1 : Tail(t)[i] = t[i + 1]
  BY DEF Rest
<1>2. ASSUME NEW i \in 1 .. Len(t) - 1
      PROVE  Tail(t)[i] = s[Len(s) - (Len(t) - 1) + i]
  <2>1. i + 1 \in 1 .. Len(t) /\ Len(s) - Len(t) + (i + 1) = Len(s) - (Len(t) - 1) + i
    BY <1>1
  <2> QED BY <1>1, <2>1 DEF Rest
<1>3. Head(t) = s[Len(s) - Len(t) + 1]
  BY <1>1 DEF Rest
<1>4. Rest(Tail(t), s)
  BY <1>1, <1>2 DEF Rest
<1> QED BY <1>1, <1>3, <1>4

LEMMA RestEnds ==
    ASSUME NEW T, NEW s \in Seq(T)
    PROVE  Rest(s, s) /\ Len(s) - Len(<<>>) = Len(s)
BY DEF Rest

\* The slots of a request are in order and each is there once.
LEMMA SlotsOrdered ==
    ASSUME NEW r \in Request
    PROVE  /\ Slots[r] \in Seq(TimeSlot)
           /\ \A i \in DOMAIN Slots[r] :
                 /\ Slots[r][i] \in TimeSlot
                 /\ Slots[r][i].start \in Nat /\ Slots[r][i].end \in Nat
                 /\ Slots[r][i].start < Slots[r][i].end
           /\ \A i, j \in DOMAIN Slots[r] :
                 i < j => /\ Slots[r][i].end <= Slots[r][j].start
                          /\ Slots[r][i].start < Slots[r][j].start
           /\ \A i, j \in DOMAIN Slots[r] : Slots[r][i] = Slots[r][j] => i = j
<1> DEFINE s == Slots[r]
<1>1. s \in Seq(TimeSlot)
  BY SlotsAssumption DEF TimeSlot
<1>2. \A i, j \in DOMAIN s : i < j => s[i].end <= s[j].start
  BY SlotsAssumption
<1> HIDE DEF s
<1>3. \A i \in DOMAIN s : /\ s[i] \in TimeSlot
                          /\ s[i].start \in Nat /\ s[i].end \in Nat /\ s[i].start < s[i].end
  BY <1>1, SlotOf
<1>4. \A i, j \in DOMAIN s : i < j => s[i].start < s[j].start
  BY <1>2, <1>3
<1>5. ASSUME NEW i \in DOMAIN s, NEW j \in DOMAIN s, s[i] = s[j], i # j
      PROVE  FALSE
  <2>1. i \in Nat /\ j \in Nat
    BY <1>1
  <2>2. i < j \/ j < i
    BY <1>5, <2>1
  <2>3. s[i].start < s[i].start
    BY <1>4, <1>5, <2>2
  <2> QED BY <1>3, <2>3
<1> QED BY <1>1, <1>2, <1>3, <1>4, <1>5 DEF s

\* An interval behind all others is appended.
LEMMA InsertInOrder ==
    ASSUME NEW now, now.list \in Seq(TimeSlot), now.num = Len(now.list),
           NEW iv \in TimeSlot,
           \A i \in DOMAIN now.list : now.list[i].end <= iv.start
    PROVE  /\ ~ InsertPanics(now, iv)
           /\ InsertTimeInterval(now, iv).list = Append(now.list, iv)
           /\ InsertTimeInterval(now, iv).num = Len(now.list) + 1
<1> DEFINE list == now.list
<1>1. iv.start \in Nat /\ iv.end \in Nat /\ iv.start < iv.end
  BY SlotOf
<1>2. \A i \in DOMAIN list :
          list[i].start \in Nat /\ list[i].end \in Nat /\ list[i].start < list[i].end
  BY SlotOf
<1>3. \A i \in DOMAIN list : ~ (list[i].start >= iv.end)
  <2> HIDE DEF list
  <2>1. \A i \in DOMAIN list : list[i].end <= iv.start
    BY DEF list
  <2> QED BY <1>1, <1>2, <2>1
<1>4. Shifted(now, iv) = list
  BY <1>3 DEF Shifted, Following
<1>5. ~ InsertPanics(now, iv)
  BY <1>4 DEF InsertPanics
<1>6. CASE now.num = 0
  <2>1. InsertTimeInterval(now, iv) = [list |-> Append(list, iv), num |-> 1]
    BY <1>6 DEF InsertTimeInterval
  <2> QED BY <1>5, <1>6, <2>1
<1>7. CASE now.num # 0
  <2>1. Len(list) \in DOMAIN list
    BY <1>7
  <2>2. iv.start >= list[now.num].end
    BY <1>1, <1>2, <2>1
  <2>3. InsertTimeInterval(now, iv) = [list |-> Append(list, iv), num |-> now.num + 1]
    BY <1>4, <1>7, <2>2 DEF InsertTimeInterval
  <2> QED BY <1>5, <2>3
<1> QED BY <1>6, <1>7

LEMMA TimesOnce ==
    ASSUME NEW r \in Request, NEW slot \in SlotSet(r)
    PROVE  Times(Slots[r], slot) = 1
<1>1. PICK i \in DOMAIN Slots[r] : Slots[r][i] = slot
  BY DEF SlotSet, ToSet
<1>2. {j \in DOMAIN Slots[r] : Slots[r][j] = slot} = {i}
  BY <1>1, SlotsOrdered
<1> QED BY <1>2, FS_Singleton DEF Times

LEMMA RepeatedOnce ==
    ASSUME NEW T, NEW s \in Seq(T)
    PROVE  Repeated(s, 1) = s
<1>1. Len(s) \in Nat /\ 1 * Len(s) = Len(s) /\ DOMAIN s = 1 .. Len(s)
  OBVIOUS
<1>2. ASSUME NEW i \in 1 .. Len(s)
      PROVE  ((i - 1) % Len(s)) + 1 = i
  <2>1. i - 1 \in 0 .. Len(s) - 1 /\ Len(s) > 0
    BY <1>1, <1>2
  <2>2. (i - 1) % Len(s) = i - 1
    BY <1>1, <2>1
  <2> QED BY <1>2, <2>2
<1>3. Repeated(s, 1) = [i \in 1 .. Len(s) |-> s[i]]
  BY <1>1, <1>2 DEF Repeated
<1> QED BY <1>1, <1>3

\* The elements at some positions, and at one more behind them.
LEMMA NthOfMore ==
    ASSUME NEW k \in Nat, NEW S \in SUBSET (1 .. k), NEW n
    PROVE  LET more == S \cup {k + 1}
           IN  /\ Cardinality(S) \in Nat
               /\ Cardinality(more) = Cardinality(S) + 1
               /\ n \in 1 .. Cardinality(S) => Nth(more, n) = Nth(S, n)
               /\ Nth(more, Cardinality(S) + 1) = k + 1
<1> DEFINE more == S \cup {k + 1}
           C == Cardinality(S)
<1>1. IsFiniteSet(S)
  <2>1. IsFiniteSet(1 .. k)
    BY FS_Interval
  <2> QED BY <2>1, FS_Subset
<1>2. k + 1 \notin S
  OBVIOUS
<1>3. C \in Nat /\ Cardinality(more) = C + 1
  BY <1>1, <1>2, FS_CardinalityType, FS_AddElement
<1>4. ASSUME NEW i \in S
      PROVE  /\ {j \in more : j <= i} = {j \in S : j <= i}
             /\ Cardinality({j \in S : j <= i}) <= C
  <2>1. {j \in more : j <= i} = {j \in S : j <= i}
    OBVIOUS
  <2>2. {j \in S : j <= i} \subseteq S
    OBVIOUS
  <2>3. Cardinality({j \in S : j <= i}) <= Cardinality(S)
    BY <1>1, <2>2, FS_Subset
  <2> HIDE DEF more
  <2> QED BY <2>1, <2>3, Zenon
<1>5. {j \in more : j <= k + 1} = more
  <2>1. \A j \in more : j <= k + 1
    OBVIOUS
  <2> HIDE DEF more
  <2> QED BY <2>1
<1> HIDE DEF more, C
<1>6. ASSUME n \in 1 .. C
      PROVE  Nth(more, n) = Nth(S, n)
  <2>1. \A i : i \in more /\ Cardinality({j \in more : j <= i}) = n
                 <=> i \in S /\ Cardinality({j \in S : j <= i}) = n
    <3>1. n # C + 1
      BY <1>3, <1>6
    <3> QED BY <1>3, <1>4, <1>5, <3>1 DEF more
  <2> QED BY <2>1, Zenon DEF Nth
<1>7. Nth(more, C + 1) = k + 1
  <2>1. \A i \in more : Cardinality({j \in more : j <= i}) = C + 1 => i = k + 1
    <3>1. ASSUME NEW i \in S
          PROVE  Cardinality({j \in more : j <= i}) # C + 1
      <4>1. Cardinality({j \in S : j <= i}) \in Nat
        <5>1. {j \in S : j <= i} \subseteq S
          OBVIOUS
        <5> QED BY <1>1, <5>1, FS_Subset, FS_CardinalityType
      <4> QED BY <1>3, <1>4, <4>1
    <3> QED BY <3>1 DEF more
  <2>2. k + 1 \in more /\ Cardinality({j \in more : j <= k + 1}) = C + 1
    BY <1>3, <1>5 DEF more
  <2> QED BY <2>1, <2>2 DEF Nth
<1> QED BY <1>3, <1>6, <1>7 DEF more, C

LEMMA AtNone == ASSUME NEW s PROVE At(s, {}) = <<>>
<1>1. Cardinality({}) = 0
  BY FS_EmptySet
<1> QED BY <1>1 DEF At

LEMMA AtMore ==
    ASSUME NEW s, NEW k \in Nat, NEW S \in SUBSET (1 .. k), NEW T, At(s, S) \in Seq(T)
    PROVE  At(s, S \cup {k + 1}) = At(s, S) \o <<s[k + 1]>>
<1> DEFINE C == Cardinality(S)
           more == S \cup {k + 1}
           old == At(s, S)
<1>1. C \in Nat /\ Cardinality(more) = C + 1 /\ Nth(more, C + 1) = k + 1
  BY NthOfMore
<1>2. \A n \in 1 .. C : Nth(more, n) = Nth(S, n)
  BY NthOfMore
<1>3. At(s, more) = [n \in 1 .. C + 1 |-> s[Nth(more, n)]]
  BY <1>1 DEF At
<1>4. old = [n \in 1 .. C |-> s[Nth(S, n)]]
  BY DEF At
<1>5. Len(old) = C
  BY <1>1, <1>4
<1>6. old \o <<s[k + 1]>> = [n \in 1 .. C + 1 |-> IF n <= C THEN old[n] ELSE s[k + 1]]
  <2> HIDE DEF old, C
  <2>1. old \in Seq(T)
    BY DEF old
  <2>2. old \o <<s[k + 1]>> = [n \in 1 .. C + 1 |-> IF n <= C THEN old[n] ELSE <<s[k + 1]>>[n - C]]
    BY <1>1, <1>5, <2>1
  <2>3. \A n \in 1 .. C + 1 : ~ n <= C => <<s[k + 1]>>[n - C] = s[k + 1]
    BY <1>1
  <2> QED BY <2>2, <2>3
<1> HIDE DEF C, more, old
<1>7. ASSUME NEW n \in 1 .. C + 1
      PROVE  s[Nth(more, n)] = IF n <= C THEN old[n] ELSE s[k + 1]
  <2>1. CASE n <= C
    <3>1. n \in 1 .. C
      BY <1>1, <2>1
    <3> QED BY <1>2, <1>4, <2>1, <3>1
  <2>2. CASE ~ n <= C
    <3>1. n = C + 1
      BY <1>1, <2>2
    <3> QED BY <1>1, <2>2, <3>1
  <2> QED BY <2>1, <2>2
<1>8. At(s, more) = old \o <<s[k + 1]>>
  BY <1>3, <1>6, <1>7
<1> QED BY <1>8 DEF more, old

LEMMA FirstOpenNone ==
    ASSUME NEW r, NEW c, NEW slot
    PROVE  FirstOpen(r, c, 0, slot) = <<>>
<1>1. {i \in 1 .. 0 : IsOpen(found[r][c][i], Day[r], slot)} = {}
  OBVIOUS
<1> QED BY <1>1, AtNone DEF FirstOpen

LEMMA FirstOpenNext ==
    ASSUME NEW r, NEW c, NEW n \in Nat, NEW slot, NEW T,
           FirstOpen(r, c, n, slot) \in Seq(T)
    PROVE  FirstOpen(r, c, n + 1, slot) =
              IF IsOpen(found[r][c][n + 1], Day[r], slot)
              THEN FirstOpen(r, c, n, slot) \o <<found[r][c][n + 1]>>
              ELSE FirstOpen(r, c, n, slot)
<1> DEFINE s == found[r][c]
           S == {i \in 1 .. n : IsOpen(s[i], Day[r], slot)}
           more == {i \in 1 .. n + 1 : IsOpen(s[i], Day[r], slot)}
<1>1. S \in SUBSET (1 .. n)
  OBVIOUS
<1>2. CASE IsOpen(s[n + 1], Day[r], slot)
  <2>1. more = S \cup {n + 1}
    BY <1>2
  <2>2. At(s, S) \in Seq(T)
    BY DEF FirstOpen
  <2> HIDE DEF S, more, s
  <2>3. At(s, more) = At(s, S) \o <<s[n + 1]>>
    BY <1>1, <2>1, <2>2, AtMore
  <2> QED BY <1>2, <2>3 DEF FirstOpen, S, more, s
<1>3. CASE ~ IsOpen(s[n + 1], Day[r], slot)
  <2>1. more = S
    BY <1>3
  <2> QED BY <1>3, <2>1 DEF FirstOpen
<1> QED BY <1>2, <1>3

\* The order of the result: strictly ordered is as the slots are.
LEMMA OrderIsSlots ==
    ASSUME NEW r \in Request, NEW order \in SetToSeqs(SlotSet(r)),
           \A i, j \in DOMAIN order : i < j => order[i].start <= order[j].start
    PROVE  DOMAIN order = DOMAIN Slots[r] /\ \A i \in DOMAIN order : order[i] = Slots[r][i]
<1> DEFINE s == Slots[r]
           n == Len(s)
           S == SlotSet(r)
           D == 1 .. n
<1>0. /\ n \in Nat /\ DOMAIN s = D /\ D \subseteq Nat
      /\ \A i \in D : s[i].start \in Nat
      /\ \A i, j \in D : i < j => s[i].start < s[j].start
      /\ \A i, j \in D : s[i] = s[j] => i = j
      /\ S = {s[i] : i \in D}
  BY SlotsOrdered DEF SlotSet, ToSet
<1>1. IsFiniteSet(D) /\ Cardinality(D) = n
  BY <1>0, FS_Interval
<1>2. IsFiniteSet(S) /\ Cardinality(S) = n
  <2>1. s \in [D -> S]
    <3>1. s = [i \in D |-> s[i]]
      BY <1>0, SlotsOrdered
    <3> HIDE DEF D, S, s
    <3> QED BY <1>0, <3>1
  <2> HIDE DEF D, S, s
  <2>2. s \in Injection(D, S)
    BY <1>0, <2>1 DEF Injection, IsInjective
  <2>3. s \in Surjection(D, S)
    BY <1>0, <2>1 DEF Surjection
  <2> QED BY <1>1, <2>2, <2>3, FS_Surjection
<1>3. order \in [D -> S] /\ \A i, j \in D : i # j => order[i] # order[j]
  BY <1>2 DEF SetToSeqs
<1> DEFINE image == {order[i] : i \in D}
<1>4. image = S
  <2>1. order \in Injection(D, image) /\ order \in Surjection(D, image)
    <3> HIDE DEF D, S
    <3>1. order \in [D -> image]
      BY <1>3
    <3>2. \A i, j \in D : order[i] = order[j] => i = j
      BY <1>3
    <3>3. order \in Injection(D, image)
      BY <3>1, <3>2 DEF Injection, IsInjective
    <3>4. order \in Surjection(D, image)
      BY <3>1 DEF Surjection
    <3> QED BY <3>3, <3>4
  <2>2. IsFiniteSet(image) /\ Cardinality(image) = n
    <3> HIDE DEF D, S, image
    <3> QED BY <1>1, <2>1, FS_Surjection
  <2>3. image \subseteq S
    BY <1>3
  <2> HIDE DEF image, S
  <2> QED BY <1>2, <2>2, <2>3, FS_Subset
<1> DEFINE wrong == {i \in D : order[i] # s[i]}
<1> HIDE DEF s, n, S
<1>5. wrong = {}
  <2> SUFFICES ASSUME wrong # {}
               PROVE  FALSE
    OBVIOUS
  <2>1. PICK i \in wrong : \A j \in wrong : i <= j
    BY <1>0, LeastNatural
  <2>2. i \in D /\ order[i] # s[i] /\ i \in Nat
    BY <1>0, <2>1
  <2>3. \A j \in D : j < i => order[j] = s[j]
    BY <1>0, <2>1, <2>2
  <2>4. PICK a \in D : order[i] = s[a]
    BY <1>0, <1>3, <2>2
  <2>5. PICK b \in D : order[b] = s[i]
    <3>1. s[i] \in image
      BY <1>0, <1>4, <2>2
    <3> QED BY <3>1
  <2> HIDE DEF wrong, image, D
  <2>6. i < a
    <3>1. a # i /\ a \in Nat
      BY <1>0, <2>2, <2>4
    <3>2. ~ a < i
      BY <1>3, <2>2, <2>3, <2>4, <3>1
    <3> QED BY <2>2, <3>1, <3>2
  <2>7. i < b
    <3>1. b # i /\ b \in Nat
      BY <1>0, <2>2, <2>5
    <3>2. ~ b < i
      BY <1>0, <2>2, <2>3, <2>5, <3>1
    <3> QED BY <2>2, <3>1, <3>2
  <2>8. order[i].start <= order[b].start
    BY <1>3, <2>2, <2>7 DEF D
  <2>9. s[i].start < s[a].start /\ s[i].start \in Nat /\ s[a].start \in Nat
    BY <1>0, <2>2, <2>4, <2>6
  <2> QED BY <2>4, <2>5, <2>8, <2>9
<1> QED BY <1>0, <1>3, <1>5 DEF s, wrong
-----------------------------------------------------------------------------
(***************************************************************************)
(* Each step of a call that runs alone.                                    *)
(***************************************************************************)

LEMMA FilledKept ==
    ASSUME NEW r, NEW c, Filled(r, c), mgr'[c] = mgr[c], found'[r][c] = found[r][c]
    PROVE  Filled(r, c)'
BY DEF Filled, OpenFor

\* While the visits are searched, the eateries stay where they are.
LEMMA EateriesStay ==
    ASSUME Typed, NEW r \in Request, Alone(r),
           pc[r] \in {"reset", "fresh", "insert", "search", "assign"},
           \A c \in Category \ {Cat(r)} : mgr'[c] = mgr[c],
           \A c \in Category \ {Cat(r)} : found'[r][c] = found[r][c],
           cat' = cat
    PROVE  cat'[r] = 2 => Filled(r, "eatery")'
<1> SUFFICES ASSUME cat[r] = 2
             PROVE  Filled(r, "eatery")'
  OBVIOUS
<1>1. "eatery" \in Category \ {Cat(r)}
  BY Cats, CatOf
<1>2. Filled(r, "eatery")
  BY DEF Alone
<1> QED BY <1>1, <1>2, FilledKept

\* The parts of a manager after each step.
LEMMA PartsAfter ==
    ASSUME NEW m
    PROVE  /\ ResetClusters(m).clusters = NoMap
           /\ FreshIntervals(m).ready
           /\ FreshIntervals(m).iv = NoIntervals
           /\ FreshIntervals(m).clusters = m.clusters
<1>1. ResetClusters(m).clusters = NoMap
  BY DEF ResetClusters, Mgr
<1>2. FreshIntervals(m).ready /\ FreshIntervals(m).iv = NoIntervals
      /\ FreshIntervals(m).clusters = m.clusters
  BY DEF FreshIntervals, Mgr
<1> QED BY <1>1, <1>2

LEMMA PartsInserted ==
    ASSUME NEW m, NEW slot
    PROVE  /\ Inserted(m, slot).ready = m.ready
           /\ Inserted(m, slot).iv = InsertTimeInterval(m.iv, slot)
           /\ Inserted(m, slot).clusters = Put(m.clusters, slot, <<>>)
BY DEF Inserted, Mgr

LEMMA Appended ==
    ASSUME NEW T, NEW a \in Seq(T), NEW e \in T
    PROVE  /\ Len(a) \in Nat
           /\ Len(Append(a, e)) = Len(a) + 1
           /\ \A i \in 1 .. Len(a) : Append(a, e)[i] = a[i]
           /\ Append(a, e)[Len(a) + 1] = e
           /\ ToSet(Append(a, e)) = ToSet(a) \cup {e}
<1> DEFINE n == Len(a)
<1>1. n \in Nat /\ DOMAIN a = 1 .. n
  OBVIOUS
<1>2. /\ Len(Append(a, e)) = n + 1 /\ DOMAIN Append(a, e) = 1 .. n + 1
      /\ \A i \in 1 .. n : Append(a, e)[i] = a[i]
      /\ Append(a, e)[n + 1] = e
  OBVIOUS
<1> HIDE DEF n
<1>3. \A i \in 1 .. n + 1 : i \in 1 .. n \/ i = n + 1
  BY <1>1
<1>4. 1 .. n \subseteq 1 .. n + 1 /\ n + 1 \in 1 .. n + 1
  BY <1>1
<1>5. ToSet(Append(a, e)) = ToSet(a) \cup {e}
  BY <1>1, <1>2, <1>3, <1>4 DEF ToSet
<1> QED BY <1>1, <1>2, <1>5 DEF n

Starts(list, s) == \A i \in 1 .. Len(list) : list[i] = s[i]

\* The next slot goes to the end of the list.
LEMMA NextSlot ==
    ASSUME NEW s \in Seq(TimeSlot), NEW t \in Seq(TimeSlot), t # <<>>, Rest(t, s),
           NEW list \in Seq(TimeSlot), Len(list) = Len(s) - Len(t), Starts(list, s)
    PROVE  /\ Head(t) \in TimeSlot
           /\ Len(list) + 1 \in 1 .. Len(s) /\ Head(t) = s[Len(list) + 1]
           /\ Rest(Tail(t), s)
           /\ Len(Append(list, Head(t))) = Len(s) - Len(Tail(t))
           /\ Starts(Append(list, Head(t)), s)
           /\ ToSet(Append(list, Head(t))) = ToSet(list) \cup {Head(t)}
<1> DEFINE new == Append(list, Head(t))
           n == Len(list)
<1>1. Head(t) \in TimeSlot
  OBVIOUS
<1>2. /\ n + 1 \in 1 .. Len(s) /\ Head(t) = s[n + 1]
      /\ Len(Tail(t)) = Len(t) - 1 /\ Rest(Tail(t), s)
  BY RestTail
<1>3. /\ n \in Nat
      /\ Len(new) = n + 1
      /\ \A i \in 1 .. n : new[i] = list[i]
      /\ new[n + 1] = Head(t)
      /\ ToSet(new) = ToSet(list) \cup {Head(t)}
  <2> DEFINE e == Head(t)
  <2>1. e \in TimeSlot
    BY <1>1
  <2> HIDE DEF e
  <2>2. Len(list) \in Nat /\ Len(Append(list, e)) = Len(list) + 1
    BY <2>1
  <2>3. \A i \in 1 .. Len(list) : Append(list, e)[i] = list[i]
    BY <2>1, Appended
  <2>4. Append(list, e)[Len(list) + 1] = e
    BY <2>1, Appended
  <2>5. ToSet(Append(list, e)) = ToSet(list) \cup {e}
    BY <2>1, Appended
  <2> QED BY <2>2, <2>3, <2>4, <2>5 DEF e
<1>4. Len(s) \in Nat /\ Len(t) \in Nat /\ n = Len(s) - Len(t)
  OBVIOUS
<1>5. \A i \in 1 .. n : list[i] = s[i]
  BY DEF Starts
<1> HIDE DEF new, n
<1>6. Len(new) = Len(s) - Len(Tail(t))
  <2>1. n + 1 = Len(s) - (Len(t) - 1)
    BY <1>4
  <2> QED BY <1>2, <1>3, <2>1
<1>7. Starts(new, s)
  BY <1>2, <1>3, <1>5 DEF Starts
<1> QED BY <1>1, <1>2, <1>3, <1>6, <1>7 DEF new, n

LEMMA AloneReset ==
    ASSUME Typed, NEW r \in Request, Alone(r), Reset(r)
    PROVE  Alone(r)'
<1>1. /\ pc[r] = "reset" /\ pc'[r] = "fresh"
      /\ mgr' = [mgr EXCEPT ![Cat(r)] = ResetClusters(Manager(r))]
      /\ UNCHANGED <<cat, todo, clusterMap, clusters, found, alone>>
  BY DEF Reset, Move, Typed, Manager
<1>2. MgrTyped(ResetClusters(Manager(r)))
  BY CatOf, ResetTyped DEF Manager, Typed
<1>3. /\ mgr'[Cat(r)] = ResetClusters(Manager(r))
      /\ \A c \in Category \ {Cat(r)} : mgr'[c] = mgr[c]
  BY <1>1, <1>2, ManagerWritten
<1>4. cat'[r] = 2 => Filled(r, "eatery")'
  BY <1>1, <1>3, EateriesStay
<1>5. Manager(r)'.clusters = NoMap
  <2>1. Manager(r)' = ResetClusters(Manager(r))
    BY <1>1, <1>3 DEF Manager, Cat
  <2> QED BY <2>1, PartsAfter
<1> QED BY <1>1, <1>4, <1>5 DEF Alone

LEMMA AloneFresh ==
    ASSUME Typed, NEW r \in Request, Alone(r), ResetIntervals(r)
    PROVE  Alone(r)'
<1>1. /\ pc[r] = "fresh" /\ pc'[r] = "insert"
      /\ mgr' = [mgr EXCEPT ![Cat(r)] = FreshIntervals(Manager(r))]
      /\ todo'[r] = Slots[r]
      /\ UNCHANGED <<cat, clusterMap, clusters, found, alone>>
  BY DEF ResetIntervals, Move, Typed, Manager
<1>2. MgrTyped(FreshIntervals(Manager(r)))
  BY CatOf, ResetTyped DEF Manager, Typed
<1>3. /\ mgr'[Cat(r)] = FreshIntervals(Manager(r))
      /\ \A c \in Category \ {Cat(r)} : mgr'[c] = mgr[c]
  BY <1>1, <1>2, ManagerWritten
<1>4. cat'[r] = 2 => Filled(r, "eatery")'
  BY <1>1, <1>3, EateriesStay
<1>5. Manager(r).clusters = NoMap
  BY <1>1 DEF Alone
<1>6. /\ Manager(r)'.ready = TRUE
      /\ Manager(r)'.iv = NoIntervals
      /\ Manager(r)'.clusters = NoMap
  <2>1. Manager(r)' = FreshIntervals(Manager(r))
    BY <1>1, <1>3 DEF Manager, Cat
  <2> QED BY <1>5, <2>1, PartsAfter
<1>7. /\ Rest(todo'[r], Slots[r])
      /\ Len(todo'[r]) = Len(Slots[r]) /\ Len(Slots[r]) \in Nat
  BY <1>1, SlotsOrdered, RestEnds
<1>8. /\ NoIntervals.list = <<>> /\ NoIntervals.num = 0
      /\ NoMap = [slot \in ToSet(<<>>) |-> <<>>]
  BY DEF NoIntervals, NoMap, ToSet
<1> QED BY <1>1, <1>4, <1>6, <1>7, <1>8 DEF Alone

LEMMA AloneInsert ==
    ASSUME Typed, NEW r \in Request, Alone(r), InsertSlot(r)
    PROVE  Alone(r)'
<1> DEFINE m == Manager(r)
           list == m.iv.list
           slot == Head(todo[r])
           s == Slots[r]
           new == Append(list, slot)
<1>1. /\ pc[r] = "insert" /\ todo[r] # <<>>
      /\ todo[r] \in Seq(TimeSlot)
      /\ todo'[r] = Tail(todo[r])
      /\ UNCHANGED <<cat, clusterMap, clusters, found, alone>>
  BY DEF InsertSlot, Typed
<1>2. /\ m.ready
      /\ Rest(todo[r], s)
      /\ m.iv.num = Len(list)
      /\ Len(list) = Len(s) - Len(todo[r])
      /\ \A i \in 1 .. Len(list) : list[i] = s[i]
      /\ m.clusters = [k \in ToSet(list) |-> <<>>]
  BY <1>1 DEF Alone
<1>3. /\ s \in Seq(TimeSlot)
      /\ \A i, j \in DOMAIN s : i < j => s[i].end <= s[j].start
  BY SlotsOrdered
<1>4. MgrTyped(m) /\ list \in Seq(TimeSlot)
  BY CatOf DEF Manager, Typed, MgrTyped
<1>5. /\ slot \in TimeSlot
      /\ Len(list) + 1 \in 1 .. Len(s) /\ slot = s[Len(list) + 1]
      /\ Rest(Tail(todo[r]), s)
      /\ Len(new) = Len(s) - Len(Tail(todo[r]))
      /\ \A i \in 1 .. Len(new) : new[i] = s[i]
      /\ ToSet(new) = ToSet(list) \cup {slot}
  <2> DEFINE t == todo[r]
  <2>1. t \in Seq(TimeSlot) /\ t # <<>> /\ Rest(t, s) /\ Len(list) = Len(s) - Len(t)
    BY <1>1, <1>2
  <2>2. s \in Seq(TimeSlot) /\ list \in Seq(TimeSlot) /\ Starts(list, s)
    BY <1>2, <1>3, <1>4 DEF Starts
  <2> HIDE DEF t, s, list
  <2>3. /\ Head(t) \in TimeSlot
        /\ Len(list) + 1 \in 1 .. Len(s) /\ Head(t) = s[Len(list) + 1]
        /\ Rest(Tail(t), s)
        /\ Len(Append(list, Head(t))) = Len(s) - Len(Tail(t))
        /\ Starts(Append(list, Head(t)), s)
        /\ ToSet(Append(list, Head(t))) = ToSet(list) \cup {Head(t)}
    BY <2>1, <2>2, NextSlot
  <2> QED BY <2>3 DEF t, Starts
<1>6. \A i \in DOMAIN list : list[i].end <= slot.start
  <2> HIDE DEF m, list, slot, s
  <2>1. ASSUME NEW i \in DOMAIN list
        PROVE  /\ i \in 1 .. Len(list) /\ i \in DOMAIN s /\ Len(list) + 1 \in DOMAIN s
               /\ i < Len(list) + 1
    <3>1. DOMAIN s = 1 .. Len(s) /\ DOMAIN list = 1 .. Len(list)
          /\ Len(s) \in Nat /\ Len(list) \in Nat
      BY <1>3, <1>4
    <3>2. Len(list) + 1 <= Len(s)
      BY <1>5
    <3> QED BY <2>1, <3>1, <3>2
  <2> QED BY <1>2, <1>3, <1>5, <2>1
<1>7. /\ ~ InsertPanics(m.iv, slot)
      /\ InsertTimeInterval(m.iv, slot).list = new
      /\ InsertTimeInterval(m.iv, slot).num = Len(list) + 1
  <2> HIDE DEF m, slot
  <2> QED BY <1>2, <1>4, <1>5, <1>6, InsertInOrder
<1>8. mgr' = [mgr EXCEPT ![Cat(r)] = Inserted(m, slot)] /\ pc' = pc
  BY <1>2, <1>7 DEF InsertSlot, Manager
<1>9. MgrTyped(Inserted(m, slot))
  <2> HIDE DEF m, slot
  <2> QED BY <1>4, <1>5, <1>7, InsertedTyped
<1>10. /\ mgr'[Cat(r)] = Inserted(m, slot)
       /\ \A c \in Category \ {Cat(r)} : mgr'[c] = mgr[c]
  BY <1>8, <1>9, ManagerWritten
<1>11. cat'[r] = 2 => Filled(r, "eatery")'
  BY <1>1, <1>10, EateriesStay
<1>12. Put(m.clusters, slot, <<>>) = [k \in ToSet(new) |-> <<>>]
  <2> HIDE DEF m, list, slot, new
  <2> QED BY <1>2, <1>5 DEF Put
<1>13. /\ Manager(r)'.ready
       /\ Manager(r)'.iv.list = new
       /\ Manager(r)'.iv.num = Len(new)
       /\ Manager(r)'.clusters = [k \in ToSet(new) |-> <<>>]
  <2>1. Manager(r)' = Inserted(m, slot)
    BY <1>1, <1>10 DEF Manager, Cat
  <2>2. Len(new) = Len(list) + 1
    BY <1>4, <1>5, Appended
  <2> HIDE DEF m, slot, new, list
  <2>3. Manager(r)'.ready
    <3>1. Inserted(m, slot).ready = m.ready
      BY PartsInserted, Zenon
    <3> QED BY <1>2, <2>1, <3>1, Zenon
  <2>4. /\ Inserted(m, slot).iv = InsertTimeInterval(m.iv, slot)
        /\ Inserted(m, slot).clusters = Put(m.clusters, slot, <<>>)
    BY PartsInserted, Zenon
  <2>5. /\ Manager(r)'.iv = InsertTimeInterval(m.iv, slot)
        /\ Manager(r)'.clusters = Put(m.clusters, slot, <<>>)
    BY <2>1, <2>4
  <2> QED BY <1>7, <1>12, <2>2, <2>3, <2>5
<1>14. /\ pc'[r] = "insert" /\ clusterMap'[r] = NoMap
  BY <1>1, <1>8 DEF Alone
<1> HIDE DEF m, list, s, slot, new
<1> QED BY <1>1, <1>5, <1>11, <1>13, <1>14 DEF Alone, s

\* A list that has the elements of a sequence, and as many.
LEMMA SameList ==
    ASSUME NEW T, NEW s \in Seq(T), NEW list \in Seq(T), Len(list) = Len(s),
           \A i \in 1 .. Len(list) : list[i] = s[i]
    PROVE  list = s
OBVIOUS

LEMMA AloneSearch ==
    ASSUME Typed, NEW r \in Request, Alone(r), PlaceSearch(r)
    PROVE  Alone(r)'
<1> DEFINE m == Manager(r)
           s == Slots[r]
<1>1. /\ pc[r] = "insert" /\ pc'[r] = "search" /\ todo[r] = <<>>
      /\ UNCHANGED <<cat, todo, clusterMap, clusters, alone>>
      /\ Cat(r) \in Category
  BY CatOf DEF PlaceSearch, Move, Typed
<1>2. PICK places \in Search[r][Cat(r)] :
          /\ mgr' = [mgr EXCEPT ![Cat(r)] = Mgr(m.ready, m.iv, m.clusters, places)]
          /\ found' = [found EXCEPT ![r][Cat(r)] = places]
  BY DEF PlaceSearch, Manager
<1>3. MgrTyped(m) /\ places \in Seq(Place)
  BY <1>1, SearchAssumption DEF Manager, Typed
<1>4. MgrTyped(Mgr(m.ready, m.iv, m.clusters, places))
  <2> HIDE DEF m
  <2> QED BY <1>3, ResetTyped
<1>5. /\ mgr'[Cat(r)] = Mgr(m.ready, m.iv, m.clusters, places)
      /\ \A c \in Category \ {Cat(r)} : mgr'[c] = mgr[c]
  BY <1>2, <1>4, ManagerWritten
<1>6. /\ found'[r][Cat(r)] = places
      /\ \A c \in Category \ {Cat(r)} : found'[r][c] = found[r][c]
  BY <1>1, <1>2 DEF Typed
<1>7. cat'[r] = 2 => Filled(r, "eatery")'
  BY <1>1, <1>5, <1>6, EateriesStay
<1>8. m.iv.list = s
  <2> DEFINE list == m.iv.list
  <2>1. /\ list \in Seq(TimeSlot)
        /\ Len(list) = Len(s) - Len(todo[r])
        /\ \A i \in 1 .. Len(list) : list[i] = s[i]
    BY <1>1, <1>3 DEF Alone, MgrTyped
  <2>2. s \in Seq(TimeSlot)
    BY SlotsOrdered
  <2> HIDE DEF list, s
  <2>3. Len(todo[r]) = 0 /\ Len(s) \in Nat
    BY <1>1, <2>2
  <2>4. list = s
    BY <2>1, <2>2, <2>3, SameList
  <2> QED BY <2>4 DEF list
<1>9. m.ready /\ m.clusters = [k \in ToSet(m.iv.list) |-> <<>>]
  BY <1>1 DEF Alone
<1>10. /\ Manager(r)'.ready
       /\ Manager(r)'.iv = m.iv
       /\ Manager(r)'.clusters = m.clusters
       /\ Manager(r)'.places = places
  <2>1. Manager(r)' = Mgr(m.ready, m.iv, m.clusters, places)
    BY <1>1, <1>5 DEF Manager, Cat
  <2> HIDE DEF m
  <2>2. Manager(r)'.ready
    BY <1>9, <2>1 DEF Mgr
  <2>3. /\ Manager(r)'.iv = m.iv
        /\ Manager(r)'.clusters = m.clusters
        /\ Manager(r)'.places = places
    BY <2>1 DEF Mgr
  <2> QED BY <2>2, <2>3
<1>11. Manager(r)'.places = found'[r][Cat(r)'] /\ clusterMap'[r] = NoMap
  BY <1>1, <1>6, <1>10 DEF Cat, Alone
<1>12. Manager(r)'.iv.list = s /\ Manager(r)'.clusters = [k \in ToSet(s) |-> <<>>]
  BY <1>8, <1>9, <1>10
<1> HIDE DEF m, s
<1> QED BY <1>1, <1>7, <1>10, <1>11, <1>12 DEF Alone, SlotSet, s

LEMMA AloneClustering ==
    ASSUME Typed, NEW r \in Request, Alone(r), Clustering(r)
    PROVE  Alone(r)'
<1>1. /\ pc[r] = "search" /\ pc'[r] = "assign"
      /\ todo'[r] = Manager(r).places
      /\ UNCHANGED <<cat, mgr, clusterMap, clusters, found, alone>>
      /\ Cat(r) \in Category
  BY CatOf DEF Clustering, Move, Typed
<1>2. cat'[r] = 2 => Filled(r, "eatery")'
  BY <1>1, EateriesStay
<1>3. /\ Manager(r).ready /\ Manager(r).iv.list = Slots[r]
      /\ todo'[r] = found[r][Cat(r)]
      /\ Manager(r).clusters = [slot \in SlotSet(r) |-> <<>>]
  BY <1>1 DEF Alone
<1>4. Manager(r)' = Manager(r) /\ Cat(r)' = Cat(r)
  BY <1>1 DEF Manager, Cat
<1> DEFINE s == found[r][Cat(r)]
<1>5. /\ Rest(todo'[r], s) /\ Len(s) - Len(todo'[r]) = 0
  <2>1. s \in Seq(Place) /\ todo'[r] = s
    BY <1>1, <1>3 DEF Typed
  <2> HIDE DEF s
  <2> QED BY <2>1, RestEnds
<1>6. \A slot : FirstOpen(r, Cat(r), 0, slot)' = <<>>
  <2>1. \A slot : FirstOpen(r, Cat(r), 0, slot) = <<>>
    BY FirstOpenNone
  <2> QED BY <1>1, <1>4, <2>1 DEF FirstOpen
<1>7. Manager(r).clusters =
          [slot \in SlotSet(r) |->
              FirstOpen(r, Cat(r), Len(found[r][Cat(r)]) - Len(todo[r]), slot)']
  BY <1>1, <1>3, <1>4, <1>5, <1>6
<1> QED BY <1>1, <1>2, <1>3, <1>4, <1>5, <1>7 DEF Alone

LEMMA AloneAssign ==
    ASSUME Typed, NEW r \in Request, Alone(r), Assign(r)
    PROVE  Alone(r)'
<1> DEFINE m == Manager(r)
           c == Cat(r)
           s == found[r][c]
           place == Head(todo[r])
           day == Day[r]
           n == Len(s) - Len(todo[r])
<1>1. /\ pc[r] = "assign" /\ todo[r] # <<>>
      /\ todo[r] \in Seq(Place)
      /\ todo'[r] = Tail(todo[r])
      /\ UNCHANGED <<cat, clusterMap, clusters, found, alone>>
      /\ c \in Category /\ s \in Seq(Place)
  BY CatOf DEF Assign, Typed
<1>2. /\ m.ready
      /\ m.iv.list = Slots[r]
      /\ Rest(todo[r], s)
      /\ m.clusters = [slot \in SlotSet(r) |-> FirstOpen(r, c, n, slot)]
  BY <1>1 DEF Alone
<1>3. /\ n + 1 \in 1 .. Len(s) /\ place = s[n + 1]
      /\ Rest(Tail(todo[r]), s)
      /\ Len(s) - Len(Tail(todo[r])) = n + 1
      /\ n \in Nat
  <2> DEFINE t == todo[r]
  <2>1. t \in Seq(Place) /\ t # <<>> /\ Rest(t, s) /\ s \in Seq(Place)
    BY <1>1, <1>2
  <2>2. n = Len(s) - Len(t)
    OBVIOUS
  <2> HIDE DEF t, s, n
  <2>3. /\ Len(s) - Len(t) + 1 \in 1 .. Len(s) /\ Head(t) = s[Len(s) - Len(t) + 1]
        /\ Len(Tail(t)) = Len(t) - 1
        /\ Rest(Tail(t), s)
    BY <2>1, RestTail
  <2>4. Len(s) \in Nat /\ Len(t) \in Nat
    BY <2>1
  <2>5. n + 1 = Len(s) - Len(t) + 1
    BY <2>2
  <2>6. n + 1 \in 1 .. Len(s) /\ Head(t) = s[n + 1]
    BY <2>3, <2>5
  <2>7. Len(s) - (Len(t) - 1) = n + 1 /\ n \in Nat
    BY <2>2, <2>4, <2>6
  <2> QED BY <2>3, <2>6, <2>7 DEF t
<1>4. MgrTyped(m) /\ DOMAIN m.clusters = SlotSet(r) /\ place \in Place
  BY <1>1, <1>2 DEF Manager, Typed
<1>5. mgr' = [mgr EXCEPT ![c] = Assigned(m, place, day)] /\ pc' = pc
  <2>1. {slot \in ToSet(m.iv.list) : IsOpen(place, day, slot)} \subseteq DOMAIN m.clusters
    BY <1>2, <1>4 DEF SlotSet
  <2> QED BY <1>2, <2>1 DEF Assign, Manager
<1>6. MgrTyped(Assigned(m, place, day))
  <2> HIDE DEF m, place, day
  <2> QED BY <1>4, AssignedTyped
<1>7. /\ mgr'[c] = Assigned(m, place, day)
      /\ \A d \in Category \ {c} : mgr'[d] = mgr[d]
  BY <1>5, <1>6, ManagerWritten
<1>8. cat'[r] = 2 => Filled(r, "eatery")'
  BY <1>1, <1>7, EateriesStay
<1>9. Manager(r)' = Assigned(m, place, day) /\ Cat(r)' = c
  BY <1>1, <1>7 DEF Manager, Cat
<1>10. ASSUME NEW slot \in SlotSet(r)
       PROVE  (IF IsOpen(place, day, slot)
               THEN m.clusters[slot] \o Repeated(<<place>>, Times(m.iv.list, slot))
               ELSE m.clusters[slot])
                = FirstOpen(r, c, n + 1, slot)
  <2>1. Times(m.iv.list, slot) = 1
    BY <1>2, TimesOnce
  <2>2. Repeated(<<place>>, 1) = <<place>>
    <3>1. <<place>> \in Seq(Place)
      BY <1>4
    <3> HIDE DEF place
    <3> QED BY <3>1, RepeatedOnce
  <2>3. m.clusters[slot] = FirstOpen(r, c, n, slot) /\ m.clusters[slot] \in Seq(Place)
    BY <1>2, <1>4 DEF MgrTyped
  <2>4. FirstOpen(r, c, n + 1, slot) =
            IF IsOpen(s[n + 1], day, slot)
            THEN FirstOpen(r, c, n, slot) \o <<s[n + 1]>>
            ELSE FirstOpen(r, c, n, slot)
    <3> HIDE DEF m, n, c
    <3> QED BY <1>3, <2>3, FirstOpenNext
  <2> HIDE DEF m, n, c, place, s, day
  <2> QED BY <1>3, <2>1, <2>2, <2>3, <2>4
<1>11. /\ Manager(r)'.ready
       /\ Manager(r)'.iv = m.iv
       /\ Manager(r)'.clusters = [slot \in SlotSet(r) |-> FirstOpen(r, c, n + 1, slot)]
  <2> HIDE DEF m, place, day, c, n
  <2>1. Manager(r)'.ready
    BY <1>2, <1>9 DEF Assigned, Mgr
  <2>2. Manager(r)'.iv = m.iv
    BY <1>9 DEF Assigned, Mgr
  <2>3. Manager(r)'.clusters =
            [slot \in DOMAIN m.clusters |->
                IF IsOpen(place, day, slot)
                THEN m.clusters[slot] \o Repeated(<<place>>, Times(m.iv.list, slot))
                ELSE m.clusters[slot]]
    BY <1>9 DEF Assigned, Mgr
  <2>4. Manager(r)'.clusters = [slot \in SlotSet(r) |-> FirstOpen(r, c, n + 1, slot)]
    BY <1>4, <1>10, <2>3
  <2> QED BY <2>1, <2>2, <2>4
<1>12. /\ found'[r][Cat(r)'] = s
       /\ Len(found'[r][Cat(r)']) - Len(todo'[r]) = n + 1
       /\ Rest(todo'[r], s)
  BY <1>1, <1>3, <1>9
<1>13. \A slot : FirstOpen(r, Cat(r), Len(found[r][Cat(r)]) - Len(todo[r]), slot)'
                   = FirstOpen(r, c, n + 1, slot)
  <2>1. Cat(r)' = c /\ Len(found'[r][Cat(r)']) - Len(todo'[r]) = n + 1 /\ found' = found
    BY <1>1, <1>9, <1>12
  <2> HIDE DEF c, n
  <2> QED BY <2>1 DEF FirstOpen
<1>14. pc'[r] = "assign" /\ clusterMap'[r] = NoMap
  BY <1>1, <1>5 DEF Alone
<1>15. Manager(r)'.iv.list = Slots[r]
  BY <1>2, <1>11
<1>16. Manager(r)'.clusters =
          [slot \in SlotSet(r) |->
              FirstOpen(r, Cat(r), Len(found[r][Cat(r)]) - Len(todo[r]), slot)']
  <2> HIDE DEF c, n
  <2> QED BY <1>11, <1>13
<1> HIDE DEF m, c, s, place, day, n
<1> QED BY <1>8, <1>11, <1>12, <1>14, <1>15, <1>16 DEF Alone, SlotSet

LEMMA AloneEnd ==
    ASSUME Typed, NEW r \in Request, Alone(r), EndPlaceSearch(r)
    PROVE  Alone(r)'
<1> DEFINE s == found[r][Cat(r)]
<1>1. /\ pc[r] = "assign" /\ todo[r] = <<>>
      /\ pc'[r] = IF cat[r] = 1 THEN "reset" ELSE "collect"
      /\ cat'[r] = NextCategory(r)
      /\ UNCHANGED <<todo, mgr, clusterMap, clusters, found, alone>>
      /\ Cat(r) \in Category /\ s \in Seq(Place)
      /\ cat[r] \in {1, 2}
  BY CatOf DEF EndPlaceSearch, Move, Typed
<1>2. Len(s) - Len(todo[r]) = Len(s) /\ DOMAIN s = 1 .. Len(s)
  <2> HIDE DEF s
  <2> QED BY <1>1, RestEnds
<1>3. \A slot : FirstOpen(r, Cat(r), Len(s), slot) = OpenFor(r, Cat(r), slot)
  BY <1>2 DEF FirstOpen, OpenFor
<1>4. Filled(r, Cat(r))
  <2>1. /\ Manager(r).ready /\ Manager(r).iv.list = Slots[r]
        /\ Manager(r).clusters =
              [slot \in SlotSet(r) |-> FirstOpen(r, Cat(r), Len(s) - Len(todo[r]), slot)]
    BY <1>1 DEF Alone
  <2> HIDE DEF s
  <2>2. Manager(r).clusters = [slot \in SlotSet(r) |-> OpenFor(r, Cat(r), slot)]
    BY <1>2, <1>3, <2>1
  <2> QED BY <2>1, <2>2 DEF Filled, Manager
<1>5. clusterMap'[r] = NoMap
  BY <1>1 DEF Alone
<1>6. CASE cat[r] = 1
  <2>1. Filled(r, "eatery")
    BY <1>4, <1>6, CatOf
  <2>2. Filled(r, "eatery")'
    BY <1>1, <2>1, FilledKept
  <2> QED BY <1>1, <1>5, <1>6, <2>2 DEF Alone
<1>7. CASE cat[r] = 2
  <2>1. Filled(r, "visit") /\ Filled(r, "eatery")
    BY <1>1, <1>4, <1>7, CatOf DEF Alone
  <2>2. Filled(r, "visit")' /\ Filled(r, "eatery")'
    BY <1>1, <2>1, FilledKept
  <2>3. pc'[r] = "collect" /\ cat'[r] = 1
    BY <1>1, <1>7 DEF NextCategory
  <2> QED BY <1>5, <2>2, <2>3 DEF Alone
<1> QED BY <1>1, <1>6, <1>7

\* Each interval is in the list once, so its places are collected once.
LEMMA CollectedOnce ==
    ASSUME Typed, NEW r \in Request, NEW c \in Category, Filled(r, c),
           NEW slot \in SlotSet(r)
    PROVE  /\ Tagged(c, OpenFor(r, c, slot)) \in Seq({c} \X Place)
           /\ Repeated(Tagged(c, mgr[c].clusters[slot]), Times(mgr[c].iv.list, slot))
                = Tagged(c, OpenFor(r, c, slot))
<1> DEFINE s == mgr[c].clusters[slot]
<1>1. s = OpenFor(r, c, slot) /\ s \in Seq(Place)
  BY DEF Filled, Typed, MgrTyped
<1>2. Times(mgr[c].iv.list, slot) = 1
  BY TimesOnce DEF Filled
<1> HIDE DEF s
<1>3. Tagged(c, s) \in Seq({c} \X Place)
  <2>1. Len(s) \in Nat /\ DOMAIN s = 1 .. Len(s) /\ \A i \in 1 .. Len(s) : s[i] \in Place
    BY <1>1
  <2>2. \A i \in 1 .. Len(s) : <<c, s[i]>> \in {c} \X Place
    BY <2>1
  <2> QED BY <2>1, <2>2 DEF Tagged
<1>4. Repeated(Tagged(c, s), 1) = Tagged(c, s)
  BY <1>3, RepeatedOnce
<1> QED BY <1>1, <1>2, <1>3, <1>4 DEF s

LEMMA AloneCollect ==
    ASSUME Typed, NEW r \in Request, Alone(r), Collect(r)
    PROVE  Alone(r)'
<1> DEFINE c == Cat(r)
           m == Manager(r)
<1>1. /\ pc[r] = "collect"
      /\ UNCHANGED <<todo, mgr, clusters, found, alone>>
      /\ c \in Category /\ m = mgr[c]
      /\ cat[r] \in {1, 2}
  BY CatOf DEF Collect, Manager, Typed
<1>2. /\ Filled(r, "visit")
      /\ cat[r] = 1 => Filled(r, "eatery") /\ clusterMap[r] = NoMap
      /\ cat[r] = 2 => clusterMap[r] = [slot \in SlotSet(r) |->
                                           Tagged("eatery", OpenFor(r, "eatery", slot))]
  BY <1>1 DEF Alone
<1>3. Filled(r, c)
  BY <1>1, <1>2, CatOf
<1>4. /\ m.ready /\ m.iv.list = Slots[r]
      /\ DOMAIN m.clusters = SlotSet(r) /\ ToSet(m.iv.list) = SlotSet(r)
  BY <1>1, <1>3 DEF Filled, SlotSet
<1>5. /\ clusterMap'[r] = Collected(clusterMap[r], c, m)
      /\ pc'[r] = IF cat[r] = 1 THEN "collect" ELSE "sort"
      /\ cat'[r] = NextCategory(r)
  BY <1>4 DEF Collect, Typed
<1>6. ASSUME NEW slot \in SlotSet(r)
      PROVE  Repeated(Tagged(c, m.clusters[slot]), Times(m.iv.list, slot))
               = Tagged(c, OpenFor(r, c, slot))
  BY <1>1, <1>3, CollectedOnce
<1>7. Filled(r, "visit")'
  BY <1>1, <1>2, FilledKept
<1>8. CASE cat[r] = 1
  <2>1. c = "eatery" /\ clusterMap[r] = NoMap /\ DOMAIN NoMap = {}
    BY <1>2, <1>8, CatOf DEF NoMap
  <2>2. ASSUME NEW slot \in SlotSet(r)
        PROVE  <<>> \o Tagged(c, OpenFor(r, c, slot)) = Tagged(c, OpenFor(r, c, slot))
    <3>1. Tagged(c, OpenFor(r, c, slot)) \in Seq({c} \X Place)
      BY <1>1, <1>3, CollectedOnce
    <3> QED BY <3>1
  <2> HIDE DEF c, m
  <2>3. Collected(clusterMap[r], c, m) =
            [slot \in SlotSet(r) |-> Tagged("eatery", OpenFor(r, "eatery", slot))]
    BY <1>4, <1>6, <2>1, <2>2 DEF Collected
  <2>4. \A slot : OpenFor(r, "eatery", slot)' = OpenFor(r, "eatery", slot)
    BY <1>1 DEF OpenFor
  <2>5. clusterMap'[r] = [slot \in SlotSet(r) |->
                             Tagged("eatery", OpenFor(r, "eatery", slot)')]
    BY <1>5, <2>3, <2>4
  <2>6. pc'[r] = "collect" /\ cat'[r] = 2
    BY <1>5, <1>8 DEF NextCategory
  <2> QED BY <1>7, <2>5, <2>6 DEF Alone, Tagged, SlotSet
<1>9. CASE cat[r] = 2
  <2>1. c = "visit" /\ clusterMap[r] = [slot \in SlotSet(r) |->
                                           Tagged("eatery", OpenFor(r, "eatery", slot))]
    BY <1>2, <1>9, CatOf
  <2>2. DOMAIN clusterMap[r] = SlotSet(r)
    BY <2>1
  <2> HIDE DEF c, m
  <2>3. Collected(clusterMap[r], c, m) =
            [slot \in SlotSet(r) |-> Tagged("eatery", OpenFor(r, "eatery", slot))
                                     \o Tagged("visit", OpenFor(r, "visit", slot))]
    BY <1>4, <1>6, <2>1, <2>2 DEF Collected
  <2>4. \A c1, slot : OpenFor(r, c1, slot)' = OpenFor(r, c1, slot)
    BY <1>1 DEF OpenFor
  <2>5. clusterMap'[r] = [slot \in SlotSet(r) |->
                             Tagged("eatery", OpenFor(r, "eatery", slot)')
                             \o Tagged("visit", OpenFor(r, "visit", slot)')]
    <3>1. ASSUME NEW slot \in SlotSet(r)
          PROVE  /\ OpenFor(r, "eatery", slot)' = OpenFor(r, "eatery", slot)
                 /\ OpenFor(r, "visit", slot)' = OpenFor(r, "visit", slot)
      BY <2>4
    <3>2. clusterMap'[r] = Collected(clusterMap[r], c, m)
      BY <1>5
    <3> QED BY <2>3, <3>1, <3>2, Zenon
  <2>6. pc'[r] = "sort"
    BY <1>5, <1>9
  <2> QED BY <2>5, <2>6 DEF Alone, Tagged, SlotSet
<1> QED BY <1>1, <1>8, <1>9

LEMMA AloneReturn ==
    ASSUME Typed, NEW r \in Request, Alone(r), Return(r)
    PROVE  Alone(r)'
<1> DEFINE s == Slots[r]
           map == clusterMap[r]
           Places(slot) == Tagged("eatery", OpenFor(r, "eatery", slot))
                           \o Tagged("visit", OpenFor(r, "visit", slot))
<1>1. /\ pc[r] = "sort" /\ pc'[r] = "done"
      /\ UNCHANGED <<cat, todo, mgr, found, alone>>
  BY DEF Return, Move, Typed
<1>2. map = [slot \in SlotSet(r) |-> Places(slot)]
  BY <1>1 DEF Alone
<1>3. DOMAIN map = SlotSet(r)
  BY <1>2
<1>4. PICK order \in SetToSeqs(DOMAIN map) :
          /\ \A i, j \in DOMAIN order : i < j => order[i].start <= order[j].start
          /\ clusters' = [clusters EXCEPT ![r] =
                            [i \in DOMAIN order |->
                                [slot |-> order[i], places |-> map[order[i]]]]]
  BY DEF Return
<1>5. DOMAIN order = DOMAIN s /\ \A i \in DOMAIN order : order[i] = s[i]
  BY <1>3, <1>4, OrderIsSlots
<1>6. clusters'[r] = [i \in DOMAIN order |-> [slot |-> order[i], places |-> map[order[i]]]]
  BY <1>4 DEF Typed
<1>7. \A i \in DOMAIN s : s[i] \in SlotSet(r)
  BY DEF SlotSet, ToSet
<1> HIDE DEF s, map, Places
<1>8. clusters'[r] = [i \in DOMAIN s |-> [slot |-> s[i], places |-> Places(s[i])]]
  BY <1>2, <1>5, <1>6, <1>7
<1>9. \A c, slot : OpenFor(r, c, slot)' = OpenFor(r, c, slot)
  BY <1>1 DEF OpenFor
<1>10. Expected(r)' = [i \in DOMAIN s |-> [slot |-> s[i], places |-> Places(s[i])]]
  BY <1>9 DEF Expected, Places, Tagged, s
<1>11. clusters'[r] = Expected(r)'
  BY <1>8, <1>10
<1> QED BY <1>1, <1>11 DEF Alone

\* A call that does not run knows nothing of the managers.
LEMMA AloneKept ==
    ASSUME NEW r \in Request, Alone(r), ~ Running(r),
           pc'[r] = pc[r], cat'[r] = cat[r], clusterMap'[r] = clusterMap[r],
           clusters'[r] = clusters[r], found'[r] = found[r]
    PROVE  Alone(r)'
<1>1. pc[r] \in {"idle", "done"}
  BY DEF Alone, Running
<1>2. CASE pc[r] = "idle"
  BY <1>2 DEF Alone
<1>3. CASE pc[r] = "done"
  <2>1. \A c, slot : OpenFor(r, c, slot)' = OpenFor(r, c, slot)
    BY DEF OpenFor
  <2>2. Expected(r)' = Expected(r)
    BY <2>1 DEF Expected, Tagged
  <2> QED BY <1>3, <2>2 DEF Alone
<1> QED BY <1>1, <1>2, <1>3

AloneInv == AloneRuns /\ \A r \in alone : Alone(r)

LEMMA AloneStep ==
    ASSUME Typed, AloneInv, NEW r \in Request, Step(r)
    PROVE  AloneInv'
<1>1. OthersKept(r) /\ Running(r) /\ alone' = alone /\ alone \subseteq Request
  BY StepTyped DEF OthersKept, Typed
<1>2. ASSUME r \in alone
      PROVE  Alone(r)'
  <2>1. Alone(r)
    BY <1>2 DEF AloneInv
  <2> QED BY <2>1, AloneReset, AloneFresh, AloneInsert, AloneSearch, AloneClustering,
             AloneAssign, AloneEnd, AloneCollect, AloneReturn DEF Step
<1>3. ASSUME NEW q \in alone, q # r
      PROVE  ~ Running(q) /\ Alone(q)'
  <2>1. ~ Running(q)
    BY <1>1, <1>3 DEF AloneInv, AloneRuns
  <2> QED BY <1>1, <1>3, <2>1, AloneKept DEF AloneInv, OthersKept
<1>4. AloneRuns'
  <2>1. \A q \in Request \ {r} : Running(q)' <=> Running(q)
    BY <1>1 DEF OthersKept, Running
  <2> QED BY <1>1, <2>1 DEF AloneInv, AloneRuns
<1> QED BY <1>1, <1>2, <1>3, <1>4 DEF AloneInv

LEMMA AloneStart ==
    ASSUME Typed, AloneInv, NEW r \in Request, Start(r)
    PROVE  AloneInv'
<1> DEFINE others == {q \in Request : Running(q)}
<1>1. /\ pc[r] = "idle" /\ pc' = [pc EXCEPT ![r] = "reset"]
      /\ alone' = IF others = {} THEN alone ELSE alone \ (others \cup {r})
      /\ UNCHANGED <<cat, todo, mgr, clusterMap, clusters, found>>
      /\ alone \subseteq Request
  BY DEF Start, Move, Typed
<1>2. pc'[r] = "reset" /\ \A q \in Request \ {r} : pc'[q] = pc[q]
  BY <1>1 DEF Typed
<1>3. ASSUME NEW q \in alone', q # r
      PROVE  q \in alone /\ ~ Running(q) /\ ~ Running(q)' /\ Alone(q)'
  <2>1. q \in alone /\ q \in Request /\ ~ Running(q)
    BY <1>1, <1>3
  <2>2. ~ Running(q)'
    BY <1>2, <1>3, <2>1 DEF Running
  <2> QED BY <1>1, <1>2, <1>3, <2>1, <2>2, AloneKept DEF AloneInv
<1>4. ASSUME r \in alone'
      PROVE  others = {} /\ Alone(r)'
  <2>1. others = {} /\ Alone(r)
    BY <1>1, <1>4 DEF AloneInv
  <2>2. cat[r] = 1 /\ clusterMap[r] = NoMap
    BY <1>1, <2>1 DEF Alone
  <2>3. pc'[r] = "reset" /\ cat'[r] = 1 /\ clusterMap'[r] = NoMap
    BY <1>1, <1>2, <2>2
  <2> HIDE DEF others
  <2> QED BY <2>1, <2>3 DEF Alone
<1>5. AloneRuns'
  <2>1. ASSUME NEW q \in alone', NEW p \in Request, Running(q)', Running(p)'
        PROVE  q = p
    <3>1. q = r /\ others = {}
      BY <1>3, <1>4, <2>1
    <3>2. p = r
      BY <1>2, <2>1, <3>1 DEF Running
    <3> QED BY <3>1, <3>2
  <2> QED BY <2>1 DEF AloneRuns
<1> QED BY <1>3, <1>4, <1>5 DEF AloneInv

LEMMA AloneRace ==
    ASSUME Typed, AloneInv, NEW r \in Request, NEW q \in Request, FatalMapRace(r, q)
    PROVE  AloneInv'
<1>1. /\ r # q /\ Running(r) /\ Running(q)
      /\ pc' = [p \in Request |-> IF Running(p) THEN "crashed" ELSE pc[p]]
      /\ UNCHANGED <<cat, todo, clusterMap, clusters, found, alone>>
      /\ alone \subseteq Request
  BY DEF FatalMapRace, Running, Typed
<1>2. ASSUME NEW p \in alone
      PROVE  Alone(p)'
  <2>1. ~ Running(p)
    BY <1>1 DEF AloneInv, AloneRuns
  <2> QED BY <1>1, <2>1, AloneKept DEF AloneInv
<1>3. AloneRuns'
  <2>1. \A p \in Request : ~ Running(p)'
    BY <1>1 DEF Running
  <2> QED BY <1>1, <2>1 DEF AloneRuns
<1> QED BY <1>1, <1>2, <1>3 DEF AloneInv

LEMMA InitAlone == Init => AloneInv
BY DEF Init, AloneInv, AloneRuns, Alone, Running

LEMMA NextAlone ==
    ASSUME Typed, AloneInv, [Next]_vars
    PROVE  AloneInv'
<1>1. CASE UNCHANGED vars
  <2>1. /\ pc' = pc /\ cat' = cat /\ todo' = todo /\ mgr' = mgr
        /\ clusterMap' = clusterMap /\ clusters' = clusters /\ found' = found
        /\ alone' = alone
    BY <1>1 DEF vars
  <2>2. ASSUME NEW r \in alone
        PROVE  Alone(r)'
    <3>1. Manager(r)' = Manager(r) /\ Cat(r)' = Cat(r)
      BY <2>1 DEF Manager, Cat
    <3>2. \A c, slot : OpenFor(r, c, slot)' = OpenFor(r, c, slot)
      BY <2>1 DEF OpenFor
    <3>3. \A c : Filled(r, c)' <=> Filled(r, c)
      BY <2>1, <3>2 DEF Filled
    <3>4. \A c, n, slot : FirstOpen(r, c, n, slot)' = FirstOpen(r, c, n, slot)
      BY <2>1 DEF FirstOpen
    <3>5. Expected(r)' = Expected(r)
      BY <2>1, <3>2 DEF Expected, Tagged
    <3>6. Alone(r)
      BY DEF AloneInv
    <3> USE <2>1, <3>6
    <3>7. CASE pc[r] \notin {"insert", "search", "assign", "collect", "sort", "done"}
      BY <3>1, <3>3, <3>7 DEF Alone
    <3>8. CASE pc[r] = "insert"
      BY <3>1, <3>3, <3>8 DEF Alone, Rest
    <3>9. CASE pc[r] = "search"
      BY <3>1, <3>3, <3>9 DEF Alone, SlotSet
    <3>10. CASE pc[r] = "assign"
      <4>1. /\ clusterMap[r] = NoMap /\ (cat[r] = 2 => Filled(r, "eatery"))
            /\ Manager(r).ready /\ Manager(r).iv.list = Slots[r]
            /\ Rest(todo[r], found[r][Cat(r)])
            /\ Manager(r).clusters =
                  [slot \in SlotSet(r) |->
                      FirstOpen(r, Cat(r), Len(found[r][Cat(r)]) - Len(todo[r]), slot)]
        BY <3>10 DEF Alone
      <4>2. Manager(r)'.clusters =
               [slot \in SlotSet(r) |->
                   FirstOpen(r, Cat(r), Len(found[r][Cat(r)]) - Len(todo[r]), slot)']
        BY <3>1, <4>1 DEF FirstOpen
      <4>3. Rest(todo[r], found[r][Cat(r)])'
        BY <3>1, <4>1 DEF Rest
      <4> QED BY <3>1, <3>3, <3>10, <4>1, <4>2, <4>3 DEF Alone, SlotSet
    <3>11. CASE pc[r] \in {"collect", "sort"}
      <4> DEFINE Eateries(slot) == Tagged("eatery", OpenFor(r, "eatery", slot))
                 Visits(slot) == Tagged("visit", OpenFor(r, "visit", slot))
      <4>1. \A slot : Eateries(slot)' = Eateries(slot) /\ Visits(slot)' = Visits(slot)
        BY <3>2 DEF Tagged
      <4>2. /\ pc[r] = "collect" =>
                  /\ Filled(r, "visit")
                  /\ cat[r] = 1 => Filled(r, "eatery") /\ clusterMap[r] = NoMap
                  /\ cat[r] = 2 => clusterMap[r] = [slot \in SlotSet(r) |-> Eateries(slot)]
            /\ pc[r] = "sort" =>
                  clusterMap[r] = [slot \in SlotSet(r) |-> Eateries(slot) \o Visits(slot)]
        BY DEF Alone
      <4>3. /\ [slot \in SlotSet(r) |-> Eateries(slot)]'
                 = [slot \in SlotSet(r) |-> Eateries(slot)]
            /\ [slot \in SlotSet(r) |-> Eateries(slot) \o Visits(slot)]'
                 = [slot \in SlotSet(r) |-> Eateries(slot) \o Visits(slot)]
        BY <4>1 DEF SlotSet
      <4> HIDE DEF Eateries, Visits
      <4>4. /\ pc'[r] = "collect" =>
                  /\ Filled(r, "visit")'
                  /\ cat'[r] = 1 => Filled(r, "eatery")' /\ clusterMap'[r] = NoMap
                  /\ cat'[r] = 2 => clusterMap'[r] = [slot \in SlotSet(r) |-> Eateries(slot)]'
            /\ pc'[r] = "sort" =>
                  clusterMap'[r] = [slot \in SlotSet(r) |-> Eateries(slot) \o Visits(slot)]'
        BY <3>3, <4>2, <4>3
      <4> QED BY <3>11, <4>4 DEF Alone, Eateries, Visits
    <3>12. CASE pc[r] = "done"
      BY <3>5, <3>12 DEF Alone
    <3> QED BY <3>7, <3>8, <3>9, <3>10, <3>11, <3>12
  <2>3. AloneRuns'
    BY <2>1 DEF AloneInv, AloneRuns, Running
  <2> QED BY <2>1, <2>2, <2>3 DEF AloneInv
<1>2. ASSUME NEW r \in Request, Start(r) \/ Step(r)
      PROVE  AloneInv'
  BY <1>2, AloneStart, AloneStep
<1>3. ASSUME NEW r \in Request, NEW q \in Request, FatalMapRace(r, q)
      PROVE  AloneInv'
  BY <1>3, AloneRace
<1> QED BY <1>1, <1>2, <1>3 DEF Next

\* A call of Matching that no other call has overlapped never panics and
\* returns, slot by slot, the eateries and the visits its own searches found
\* that are open for the slot, whatever calls before it, finished or broken
\* off, have left in the managers (TimeMatcher.Matching).
THEOREM AloneIsIsolated == Spec => []IsolationWhenAlone
<1>1. AloneInv => IsolationWhenAlone
  BY DEF AloneInv, Alone, IsolationWhenAlone
<1> QED BY <1>1, InitTyped, NextTyped, InitAlone, NextAlone, PTL DEF Spec
=============================================================================
