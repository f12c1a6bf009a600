----------------------------- MODULE PlaceCache -----------------------------
(***************************************************************************)
(* PoiSearcher.NearbySearch (iowrappers/poi_searcher.go): places of a      *)
(* category near a location, from Redis while the last search of Google    *)
(* Maps is recent and Redis has enough of them, and from Maps otherwise.   *)
(* Each step is one Redis or Maps command; the calls of concurrent         *)
(* handlers interleave and Redis may fail any command.  A process that     *)
(* stops between two commands is a call that takes no further step.        *)
(***************************************************************************)
EXTENDS Integers, FiniteSets, SequencesExt

CONSTANTS
    Call,               \* calls of NearbySearch
    Location,           \* locations, as typed
    PlaceCat,           \* categories of places
    Place,              \* places that Maps knows
    Distance,           \* distance of each place from each location
    Request,            \* what calls ask for
    MinNumResults,      \* TimeClusterMinResults
    MaxSearchRadius,    \* as in the code
    Refresh,            \* MinMapsResultRefreshDuration, in days
    MaxTime,            \* bound: the days
    MaxOverlap,         \* bound: calls in progress at a time
    MaxFailing          \* bound: calls that Redis fails

ASSUME PlaceAssumption == IsFiniteSet(Place)
ASSUME DistanceAssumption == Distance \in [Location -> [Place -> Nat]]
ASSUME RequestAssumption ==
    Request \subseteq [location : Location, category : PlaceCat, radius : Nat]
ASSUME LimitsAssumption ==
    /\ {MinNumResults, MaxSearchRadius, Refresh} \subseteq Nat \ {0}
    /\ MaxTime \in Nat

VARIABLES
    pc,         \* the step each call is at
    req,        \* its request
    todo,       \* places it has still to read or to store
    found,      \* cachedPlaces: what it has read, with the time of the data
    at,         \* currentTime, and then the time Maps answers
    answer,     \* the places it returns
    index,      \* Redis: placeIDs, the geo index of each category
    details,    \* Redis: place_details, each with the time Maps sent it
    searchTime, \* Redis: MapsLastSearchTime by location and category
    now,        \* the day
    since,      \* history: the day each call started
    covered,    \* history: calls that started after one that covers them
    failed      \* history: calls with a failed Redis command

locals == <<req, todo, found, at, answer>>
redis == <<index, details, searchTime>>
vars == <<pc, locals, redis, now, since, covered, failed>>

Key(q) == <<q.location, q.category>>

Near(location, radius) == {p \in Place : Distance[location][p] <= radius}

\* Fault of Reach: the radius of the request as it is.
ReachUncut(q) == Near(q.location, q.radius)

\* RedisClient.NearbySearch searches MaxSearchRadius at most.
Reach(q) ==
    Near(q.location, IF q.radius > MaxSearchRadius THEN MaxSearchRadius
                                                   ELSE q.radius)

\* Sort: "ASC", nearest first.
Ascending(location, S) ==
    {order \in SetToSeqs(S) :
        \A i, j \in DOMAIN order :
            i < j => Distance[location][order[i]] <= Distance[location][order[j]]}

\* A map of Redis after a write of one key.
Put(map, key, value) ==
    [k \in DOMAIN map \cup {key} |-> IF k = key THEN value ELSE map[k]]

Recent(time) == now - time <= Refresh

\* Fault of Enough: one place more is asked for.
MoreThanEnough(c) == Cardinality(found[c]) > MinNumResults

Enough(c) == Cardinality(found[c]) >= MinNumResults

Running(c) == pc[c] \notin {"idle", "cached", "done", "failed"}

Init ==
    /\ pc = [c \in Call |-> "idle"]
    /\ req \in [Call -> Request]
    /\ todo = [c \in Call |-> <<>>]
    /\ found = [c \in Call |-> {}]
    /\ at = [c \in Call |-> 0]
    /\ answer = [c \in Call |-> {}]
    /\ index = [cat \in PlaceCat |-> {}]
    /\ details = [p \in {} |-> 0]
    /\ searchTime = [k \in {} |-> 0]
    /\ now = 0
    /\ since = [c \in Call |-> 0]
    /\ covered = {}
    /\ failed = {}

Move(c, from, to) == pc[c] = from /\ pc' = [pc EXCEPT ![c] = to]

\* A Redis command fails; errors are logged and not returned.
Fail(c) ==
    /\ Cardinality(failed \cup {c}) <= MaxFailing
    /\ failed' = failed \cup {c}

\* The search of an earlier call should do for the request: it is over, of
\* late and with nothing lost, and has found enough for the smaller radius.
Covers(d, q) ==
    /\ pc[d] = "done"
    /\ d \notin failed
    /\ Key(req[d]) = Key(q)
    /\ now - since[d] < Refresh
    /\ Cardinality(answer[d] \cap Near(q.location, q.radius)) >= MinNumResults

\* GetGeocode finds the location (see Geocoding), or the search is over.
Start(c) ==
    /\ Move(c, "idle", "index")
    /\ Cardinality({d \in Call : Running(d)}) < MaxOverlap
    /\ since' = [since EXCEPT ![c] = now]
    /\ covered' = IF \E d \in Call : Covers(d, req[c])
                  THEN covered \cup {c}
                  ELSE covered
    /\ UNCHANGED <<locals, redis, now, failed>>

GeocodeFails(c) ==
    /\ Move(c, "idle", "failed")
    /\ UNCHANGED <<locals, redis, now, since, covered, failed>>

\* GEORADIUS.
ReadIndex(c) ==
    /\ Move(c, "index", "details")
    /\ LET q == req[c]
       IN  \E order \in Ascending(q.location, index[q.category] \cap Reach(q)) :
              todo' = [todo EXCEPT ![c] = order]
    /\ UNCHANGED <<req, found, at, answer, redis, now, since, covered, failed>>

IndexNotRead(c) ==
    /\ Move(c, "index", "details")
    /\ Fail(c)
    /\ UNCHANGED <<locals, redis, now, since, covered>>

\* getPlace of the next place of the index; one that is missing is skipped.
ReadDetails(c) ==
    /\ pc[c] = "details"
    /\ todo[c] # <<>>
    /\ LET p == Head(todo[c])
       IN  found' = IF p \in DOMAIN details
                    THEN [found EXCEPT ![c] = @ \cup {<<p, details[p]>>}]
                    ELSE found
    /\ todo' = [todo EXCEPT ![c] = Tail(@)]
    /\ UNCHANGED <<pc, req, at, answer, redis, now, since, covered, failed>>

DetailsNotRead(c) ==
    /\ pc[c] = "details"
    /\ todo[c] # <<>>
    /\ todo' = [todo EXCEPT ![c] = Tail(@)]
    /\ Fail(c)
    /\ UNCHANGED <<pc, req, found, at, answer, redis, now, since, covered>>

\* "the location is known and the data is fresh and we have sufficient data".
CacheWillDo(c) ==
    /\ Key(req[c]) \in DOMAIN searchTime
    /\ Recent(searchTime[Key(req[c])])
    /\ Enough(c)

\* GetMapsLastSearchTime, and what it decides.
UseCache(c) ==
    /\ todo[c] = <<>>
    /\ Move(c, "details", "cached")
    /\ CacheWillDo(c)
    /\ at' = [at EXCEPT ![c] = now]
    /\ answer' = [answer EXCEPT ![c] = {pair[1] : pair \in found[c]}]
    /\ UNCHANGED <<req, todo, found, redis, now, since, covered, failed>>

CacheWillNotDo(c) ==
    /\ todo[c] = <<>>
    /\ Move(c, "details", "set time")
    /\ \/ ~ CacheWillDo(c) /\ UNCHANGED failed
       \/ Fail(c)
    /\ at' = [at EXCEPT ![c] = now]
    /\ found' = [found EXCEPT ![c] = {}]
    /\ UNCHANGED <<req, todo, answer, redis, now, since, covered>>

\* Fault of TimeToSet: the search is dated a day too late.
TimeToSetLate(c) == at[c] + 1

TimeToSet(c) == at[c]

\* SetMapsLastSearchTime, before the search.
SetSearchTime(c) ==
    /\ Move(c, "set time", "maps")
    /\ searchTime' = Put(searchTime, Key(req[c]), TimeToSet(c))
    /\ UNCHANGED <<locals, index, details, now, since, covered, failed>>

SearchTimeNotSet(c) ==
    /\ Move(c, "set time", "maps")
    /\ Fail(c)
    /\ UNCHANGED <<locals, redis, now, since, covered>>

\* MapsClient.NearbySearch with MaxSearchRadius (see MapsSearch): any of the
\* places there by prominence, or none when it fails.
SearchMaps(c) ==
    /\ Move(c, "maps", "store index")
    /\ \E places \in SUBSET Near(req[c].location, MaxSearchRadius) :
        /\ answer' = [answer EXCEPT ![c] = places]
        /\ \E order \in SetToSeqs(places) : todo' = [todo EXCEPT ![c] = order]
    /\ at' = [at EXCEPT ![c] = now]
    /\ UNCHANGED <<req, found, redis, now, since, covered, failed>>

\* Fault of StoreIndex: the details are forgotten.
StoreIndexOnly(c) ==
    /\ pc[c] = "store index"
    /\ todo[c] # <<>>
    /\ index' = [index EXCEPT ![req[c].category] = @ \cup {Head(todo[c])}]
    /\ todo' = [todo EXCEPT ![c] = Tail(@)]
    /\ UNCHANGED <<pc, req, found, at, answer, details, searchTime, now, since,
                   covered, failed>>

\* SetPlacesOnCategory, place by place: GEOADD, ...
StoreIndex(c) ==
    /\ todo[c] # <<>>
    /\ Move(c, "store index", "store details")
    /\ \/ /\ index' = [index EXCEPT ![req[c].category] = @ \cup {Head(todo[c])}]
          /\ UNCHANGED failed
       \/ Fail(c) /\ UNCHANGED index
    /\ UNCHANGED <<locals, details, searchTime, now, since, covered>>

\* ... and setPlace, whether or not GEOADD has failed.
StoreDetails(c) ==
    /\ Move(c, "store details", "store index")
    /\ \/ details' = Put(details, Head(todo[c]), at[c]) /\ UNCHANGED failed
       \/ Fail(c) /\ UNCHANGED details
    /\ todo' = [todo EXCEPT ![c] = Tail(@)]
    /\ UNCHANGED <<req, found, at, answer, index, searchTime, now, since, covered>>

\* The new places are returned, and not the ones found before.
Return(c) ==
    /\ todo[c] = <<>>
    /\ Move(c, "store index", "done")
    /\ UNCHANGED <<locals, redis, now, since, covered, failed>>

\* A day passes.  A call takes seconds, so none is at work on three days.
Tick ==
    /\ now < MaxTime
    /\ \A c \in Call : Running(c) => since[c] = now
    /\ now' = now + 1
    /\ UNCHANGED <<pc, locals, redis, since, covered, failed>>

Next ==
    \/ Tick
    \/ \E c \in Call :
        \/ Start(c) \/ GeocodeFails(c) \/ ReadIndex(c) \/ IndexNotRead(c)
        \/ ReadDetails(c) \/ DetailsNotRead(c) \/ UseCache(c)
        \/ CacheWillNotDo(c) \/ SetSearchTime(c) \/ SearchTimeNotSet(c)
        \/ SearchMaps(c) \/ StoreIndex(c) \/ StoreDetails(c) \/ Return(c)

Spec == Init /\ [][Next]_vars
-----------------------------------------------------------------------------
Day == 0 .. now

TypeOK ==
    /\ pc \in [Call -> {"idle", "index", "details", "set time", "maps",
                        "store index", "store details", "cached", "done",
                        "failed"}]
    /\ req \in [Call -> Request]
    /\ \A c \in Call :
        /\ todo[c] \in Seq(Place) /\ IsInjective(todo[c])
        /\ found[c] \subseteq Place \X Day
        /\ answer[c] \subseteq Place
    /\ at \in [Call -> Day]
    /\ index \in [PlaceCat -> SUBSET Place]
    /\ DOMAIN details \subseteq Place /\ Range(details) \subseteq Day
    /\ Range(searchTime) \subseteq Day
    /\ now \in 0 .. MaxTime

\* "set this lower limit for reducing risk of zero result": an answer of the
\* cache has as many places as asked for, all within the radius of the request
\* and none beyond the limit of the searches, and an answer of Maps keeps to
\* that limit.
AnswerInReach ==
    \A c \in Call :
        /\ pc[c] = "cached" =>
              /\ Cardinality(answer[c]) >= MinNumResults
              /\ answer[c] \subseteq Near(req[c].location, req[c].radius)
        /\ answer[c] \subseteq Near(req[c].location, MaxSearchRadius)

\* A place of the geo index is without details only while the call that found
\* it is between the two writes, or after one of its writes has failed.
IndexedHasDetails ==
    \A cat \in PlaceCat : \A p \in index[cat] \ DOMAIN details :
        \E c \in Call :
            /\ req[c].category = cat /\ p \in answer[c]
            /\ \/ c \in failed
               \/ pc[c] = "store details" /\ Head(todo[c]) = p

\* Maps is not asked again for what an earlier call has stored: a call that
\* started when another, not long before, had found and stored enough does
\* with the cache, whatever other calls do in between, unless Redis fails it
\* or the data gets too old while it runs.
NoNeedlessSearch ==
    \A c \in covered \ failed : pc[c] = "set time" => at[c] > since[c]

\* "use place data from database if the location is known and the data is
\* fresh and we have sufficient data": what the cache answers came from Maps
\* no longer ago than the refresh duration.
FreshData ==
    \A c \in Call : pc[c] = "cached" =>
        \A pair \in found[c] : at[c] - pair[2] <= Refresh
=============================================================================
