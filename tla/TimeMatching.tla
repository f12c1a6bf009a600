--------------------------- MODULE TimeMatching ---------------------------
(***************************************************************************)
(* TimeMatcher.Matching (matching/time_matcher.go) over the two            *)
(* TimeClustersManagers of graph/time_cluster.go.  The server has one      *)
(* TimeMatcher, and every planning or nearby-search handler calls Matching *)
(* on it without a lock, so the steps of the calls interleave on the       *)
(* managers.  One step is one loop body or one call; the place search, a   *)
(* call of Redis and perhaps of Google Maps, may take seconds.             *)
(***************************************************************************)
EXTENDS TimeIntervals, FiniteSets

CONSTANTS
    Request,    \* calls of Matching
    Slots,      \* the time slots of each request
    Day,        \* the weekday of each request
    Search,     \* what the place search of a request may return, by category
    Hours,      \* text of the opening hours of each place by weekday
    MaxOverlap  \* bound: calls in progress at a time

Categories == <<"eatery", "visit">>
Category == ToSet(Categories)
Place == DOMAIN Hours

Opening(place, day) == ParseTimeInterval(Hours[place][day])

\* The handlers ask for slots in order that do not overlap.
ASSUME SlotsAssumption ==
    \A r \in Request :
        /\ Slots[r] \in Seq(Interval(Nat))
        /\ \A i, j \in DOMAIN Slots[r] :
              i < j => Slots[r][i].end <= Slots[r][j].start
ASSUME SearchAssumption ==
    \A r \in Request, c \in Category : Search[r][c] \subseteq Seq(Place)

VARIABLES
    pc,         \* the step each call is at
    cat,        \* index of the category it is working on
    todo,       \* what is left of the loop it is in
    mgr,        \* the managers, shared by all calls
    clusterMap, \* the map of each call from intervals to places
    clusters,   \* the result of each call
    found,      \* history: what the searches of each call returned
    alone       \* history: calls that no other call has overlapped

vars == <<pc, cat, todo, mgr, clusterMap, clusters, found, alone>>

\* A map from interval keys to places: Go's make(map) and assignment.
NoMap == [k \in {} |-> <<>>]
Put(map, key, places) ==
    [k \in DOMAIN map \cup {key} |-> IF k = key THEN places ELSE map[k]]

\* A TimeClustersManager: whether TimeIntervals is there, and what it has.
Mgr(ready, iv, map, places) ==
    [ready |-> ready, iv |-> iv, clusters |-> map, places |-> places]

\* A manager that has not been used: TimeClusters is nil.
Unused == Mgr(FALSE, NoIntervals, NoMap, <<>>)

Running(r) == pc[r] \notin {"idle", "done", "panicked", "crashed"}

Init ==
    /\ pc = [r \in Request |-> "idle"]
    /\ cat = [r \in Request |-> 1]
    /\ todo = [r \in Request |-> <<>>]
    /\ mgr = [c \in Category |-> Unused]
    /\ clusterMap = [r \in Request |-> NoMap]
    /\ clusters = [r \in Request |-> <<>>]
    /\ found = [r \in Request |-> [c \in Category |-> <<>>]]
    /\ alone = Request

Move(r, from, to) == pc[r] = from /\ pc' = [pc EXCEPT ![r] = to]

\* A runtime panic; gin's Recovery answers 500.
Panic(r) == pc' = [pc EXCEPT ![r] = "panicked"]

Cat(r) == Categories[cat[r]]
Manager(r) == mgr[Cat(r)]

Start(r) ==
    /\ Move(r, "idle", "reset")
    /\ LET others == {q \in Request : Running(q)}
       IN  /\ Cardinality(others) < MaxOverlap
           /\ alone' = IF others = {} THEN alone ELSE alone \ (others \cup {r})
    /\ UNCHANGED <<cat, todo, mgr, clusterMap, clusters, found>>

\* TimeClusters = &TimeClusters{Clusters: make(...)}: no intervals yet.
ResetClusters(m) == Mgr(FALSE, m.iv, NoMap, m.places)

Reset(r) ==
    /\ Move(r, "reset", "fresh")
    /\ mgr' = [mgr EXCEPT ![Cat(r)] = ResetClusters(@)]
    /\ UNCHANGED <<cat, todo, clusterMap, clusters, found, alone>>

\* Fault of FreshIntervals: the manager goes on with the intervals it had.
OldIntervals(m) == Mgr(TRUE, m.iv, m.clusters, m.places)

\* TimeIntervals = &GoogleMapsTimeIntervals{}.
FreshIntervals(m) == Mgr(TRUE, NoIntervals, m.clusters, m.places)

ResetIntervals(r) ==
    /\ Move(r, "fresh", "insert")
    /\ mgr' = [mgr EXCEPT ![Cat(r)] = FreshIntervals(@)]
    /\ todo' = [todo EXCEPT ![r] = Slots[r]]
    /\ UNCHANGED <<cat, clusterMap, clusters, found, alone>>

\* The interval is inserted and has an empty cluster.
Inserted(m, slot) ==
    Mgr(m.ready, InsertTimeInterval(m.iv, slot), Put(m.clusters, slot, <<>>), m.places)

\* Loop body of TimeClustersManager.Init, on whatever TimeClusters is now.
InsertSlot(r) ==
    /\ pc[r] = "insert"
    /\ todo[r] # <<>>
    /\ LET slot == Head(todo[r])
           m == Manager(r)
       IN  IF ~ m.ready \/ InsertPanics(m.iv, slot)
           THEN Panic(r) /\ UNCHANGED mgr
           ELSE /\ mgr' = [mgr EXCEPT ![Cat(r)] = Inserted(@, slot)]
                /\ UNCHANGED pc
    /\ todo' = [todo EXCEPT ![r] = Tail(@)]
    /\ UNCHANGED <<cat, clusterMap, clusters, found, alone>>

\* PlaceSearch returns and stores its places in the manager.
PlaceSearch(r) ==
    /\ todo[r] = <<>>
    /\ Move(r, "insert", "search")
    /\ \E places \in Search[r][Cat(r)] :
        /\ mgr' = [mgr EXCEPT ![Cat(r)] = Mgr(@.ready, @.iv, @.clusters, places)]
        /\ found' = [found EXCEPT ![r][Cat(r)] = places]
    /\ UNCHANGED <<cat, todo, clusterMap, clusters, alone>>

\* Clustering: range placeManager.places
Clustering(r) ==
    /\ Move(r, "search", "assign")
    /\ todo' = [todo EXCEPT ![r] = Manager(r).places]
    /\ UNCHANGED <<cat, mgr, clusterMap, clusters, found, alone>>

IsOpen(place, day, slot) ==
    Opening(place, day) # <<>> /\ Includes(Opening(place, day), slot)

\* How often an interval is in a list.
Times(list, slot) == Cardinality({i \in DOMAIN list : list[i] = slot})

Repeated(s, times) == [i \in 1 .. times * Len(s) |-> s[((i - 1) % Len(s)) + 1]]

\* The place joins the cluster of every interval it is open for.
Assigned(m, place, day) ==
    Mgr(m.ready, m.iv,
        [slot \in DOMAIN m.clusters |->
            IF IsOpen(place, day, slot)
            THEN m.clusters[slot] \o Repeated(<<place>>, Times(m.iv.list, slot))
            ELSE m.clusters[slot]],
        m.places)

\* assign; a place whose opening hour does not parse is skipped first.
Assign(r) ==
    /\ pc[r] = "assign"
    /\ todo[r] # <<>>
    /\ LET place == Head(todo[r])
           m == Manager(r)
           open == {slot \in ToSet(m.iv.list) : IsOpen(place, Day[r], slot)}
       IN  IF \/ ~ m.ready /\ Opening(place, Day[r]) # <<>>
              \/ ~ open \subseteq DOMAIN m.clusters
           THEN Panic(r) /\ UNCHANGED mgr
           ELSE /\ mgr' = [mgr EXCEPT ![Cat(r)] = Assigned(@, place, Day[r])]
                /\ UNCHANGED pc
    /\ todo' = [todo EXCEPT ![r] = Tail(@)]
    /\ UNCHANGED <<cat, clusterMap, clusters, found, alone>>

\* Fault of NextCategory: a category too many.
NextCategoryAlways(r) == cat[r] + 1

NextCategory(r) == IF cat[r] = 1 THEN 2 ELSE 1

\* placeSearch is over: the other category, or the result.
EndPlaceSearch(r) ==
    /\ todo[r] = <<>>
    /\ Move(r, "assign", IF cat[r] = 1 THEN "reset" ELSE "collect")
    /\ cat' = [cat EXCEPT ![r] = NextCategory(r)]
    /\ UNCHANGED <<todo, mgr, clusterMap, clusters, found, alone>>

Tagged(c, places) == [i \in DOMAIN places |-> <<c, places[i]>>]

\* The places of each interval of a manager are appended to those of the map.
Collected(map, c, m) ==
    [slot \in DOMAIN map \cup ToSet(m.iv.list) |->
        (IF slot \in DOMAIN map THEN map[slot] ELSE <<>>)
        \o (IF slot \in ToSet(m.iv.list)
            THEN Repeated(Tagged(c, m.clusters[slot]), Times(m.iv.list, slot))
            ELSE <<>>)]

\* timeClustering: the manager's clusters into the map of the call.
Collect(r) ==
    /\ pc[r] = "collect"
    /\ IF ~ Manager(r).ready
          \/ ~ ToSet(Manager(r).iv.list) \subseteq DOMAIN Manager(r).clusters
       THEN Panic(r) /\ UNCHANGED <<cat, clusterMap>>
       ELSE /\ clusterMap' = [clusterMap EXCEPT ![r] = Collected(@, Cat(r), Manager(r))]
            /\ pc' = [pc EXCEPT ![r] = IF cat[r] = 1 THEN "collect" ELSE "sort"]
            /\ cat' = [cat EXCEPT ![r] = NextCategory(r)]
    /\ UNCHANGED <<todo, mgr, clusters, found, alone>>

\* The end of Matching: the clusters of the map sorted by start time.
Return(r) ==
    /\ Move(r, "sort", "done")
    /\ \E order \in SetToSeqs(DOMAIN clusterMap[r]) :
        /\ \A i, j \in DOMAIN order : i < j => order[i].start <= order[j].start
        /\ clusters' = [clusters EXCEPT ![r] =
                          [i \in DOMAIN order |->
                              [slot |-> order[i],
                               places |-> clusterMap[r][order[i]]]]]
    /\ clusterMap' = [clusterMap EXCEPT ![r] = NoMap]
    /\ UNCHANGED <<cat, todo, mgr, found, alone>>

\* Two calls are in the same clusters map and one of them writes it: the Go
\* runtime may notice and end the process, which is started again.
FatalMapRace(r, q) ==
    /\ r # q
    /\ cat[r] = cat[q]
    /\ pc[r] = "insert"
    /\ pc[q] \in {"insert", "assign", "collect"}
    /\ pc' = [p \in Request |-> IF Running(p) THEN "crashed" ELSE pc[p]]
    /\ mgr' = [c \in Category |-> Unused]
    /\ UNCHANGED <<cat, todo, clusterMap, clusters, found, alone>>

Step(r) ==
    \/ Reset(r)
    \/ ResetIntervals(r)
    \/ InsertSlot(r)
    \/ PlaceSearch(r)
    \/ Clustering(r)
    \/ Assign(r)
    \/ EndPlaceSearch(r)
    \/ Collect(r)
    \/ Return(r)

Next ==
    \/ \E r \in Request : Start(r) \/ Step(r)
    \/ \E r, q \in Request : FatalMapRace(r, q)

Spec == Init /\ [][Next]_vars
-----------------------------------------------------------------------------
TypeOK ==
    /\ pc \in [Request -> {"idle", "reset", "fresh", "insert", "search", "assign",
                           "collect", "sort", "done", "panicked", "crashed"}]
    /\ cat \in [Request -> DOMAIN Categories]
    /\ \A c \in Category :
        /\ mgr[c].ready \in BOOLEAN
        /\ Len(mgr[c].iv.list) <= mgr[c].iv.num
        /\ mgr[c].places \in Seq(Place)
        /\ \A slot \in DOMAIN mgr[c].clusters :
              mgr[c].clusters[slot] \in Seq(Place)
    /\ alone \subseteq Request

Nth(S, n) == CHOOSE i \in S : Cardinality({j \in S : j <= i}) = n

\* The elements of a sequence at some of its positions.
At(s, S) == [n \in 1 .. Cardinality(S) |-> s[Nth(S, n)]]

\* The places a search returned that are open for a slot.
OpenFor(r, c, slot) ==
    At(found[r][c], {i \in DOMAIN found[r][c] : IsOpen(found[r][c][i], Day[r], slot)})

\* What a call has to return: for each of its slots, in order, the eateries
\* and then the visits its searches returned that are open for the slot.
Expected(r) ==
    [i \in DOMAIN Slots[r] |->
        [slot |-> Slots[r][i],
         places |-> Tagged("eatery", OpenFor(r, "eatery", Slots[r][i]))
                    \o Tagged("visit", OpenFor(r, "visit", Slots[r][i]))]]

\* A call that no other call has overlapped returns its own clusters and never
\* panics, whatever earlier calls, finished or broken off, have left behind in
\* the shared managers.
IsolationWhenAlone ==
    \A r \in alone :
        /\ pc[r] \notin {"panicked", "crashed"}
        /\ pc[r] = "done" => clusters[r] = Expected(r)

\* "matches request from planner for a particular day": every call returns
\* the clusters of its own request.
Isolation == \A r \in Request : pc[r] = "done" => clusters[r] = Expected(r)
============================================================================
