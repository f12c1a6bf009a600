--------------------------- MODULE SolutionCache ---------------------------
(***************************************************************************)
(* Solver.Solve (solution/solver.go) over the plans that RedisClient keeps *)
(* for a day (iowrappers/redis_client.go).  Each step is one Redis command *)
(* or one call; concurrent handlers interleave.  A plan is its rank among  *)
(* the plans a search has found for a location, radius and weekday, so a   *)
(* list of plans is the number of the best plans it holds.  PlanGeneration *)
(* says how they are found and Geocoding how a location is validated.      *)
(***************************************************************************)
EXTENDS Integers, FiniteSets

CONSTANTS
    Call,           \* calls of Solve
    Request,        \* the requests of the API; slots are the standard ones
    Validated,      \* corrected location, by the locations Maps knows
    Available,      \* plans of all places, by location, radius, weekday
    Expiration,     \* SlotSolutionExpirationTime, in units of the clock
    MaxTime         \* bound: the end of the clock

ASSUME RequestAssumption ==
    \A r \in Request :
        /\ r = [location |-> r.location, radius |-> r.radius,
                weekday |-> r.weekday, numPlans |-> r.numPlans]
        /\ r.numPlans \in Int
ASSUME AvailableAssumption ==
    /\ \A what \in DOMAIN Available : Available[what] \in Nat
    /\ \A r \in Request :
          r.location \in DOMAIN Validated =>
              <<Validated[r.location], r.radius, r.weekday>> \in DOMAIN Available
ASSUME TimeAssumption == Expiration \in Nat \ {0} /\ MaxTime \in Nat

VARIABLES
    pc,         \* the step each call is at
    req,        \* its request; Solve corrects it on the way
    resp,       \* resp.Solutions: whose plans, and how many of them
    code,       \* resp.ErrorCode; 400 comes with resp.Err
    cache,      \* Redis: plans by cache key, with the time they were set
    now,        \* the clock
    asked,      \* history: the request as it came
    short       \* history: what a search has found fewer plans of than there are

history == <<asked, short>>
vars == <<pc, req, resp, code, cache, now, history>>

NumPlansDefault == 5
TopSolutionsCountDefault == 5
InvalidRequestLocation == 400
CatPlaceIterInitFailure == 404

\* GenerateSlotSolutionRedisRequest: what plans depend on.
What(r) == <<r.location, r.radius, r.weekday>>

\* Fault of CacheKey: plans are kept by location and radius.
KeyOfPlace(r) == <<r.location, r.radius>>

\* genSlotSolutionCacheKey; the code of the standard slots is always the same.
CacheKey(r) == <<r.location, r.radius, r.weekday>>

NoRequest == [location |-> "", radius |-> 0, weekday |-> 0, numPlans |-> 0]
NoPlans == [of |-> <<>>, num |-> 0]

Init ==
    /\ pc = [c \in Call |-> "idle"]
    /\ req = [c \in Call |-> NoRequest]
    /\ resp = [c \in Call |-> NoPlans]
    /\ code = [c \in Call |-> 0]
    /\ cache = [key \in {} |-> NoPlans]
    /\ now = 0
    /\ asked = [c \in Call |-> NoRequest]
    /\ short = {}

Move(c, from, to) == pc[c] = from /\ pc' = [pc EXCEPT ![c] = to]

Start(c) ==
    /\ Move(c, "idle", "validate")
    /\ \E r \in Request :
        /\ req' = [req EXCEPT ![c] = r]
        /\ asked' = [asked EXCEPT ![c] = r]
    /\ UNCHANGED <<resp, code, cache, now, short>>

Wanted(numPlans) == IF numPlans = 0 THEN NumPlansDefault ELSE numPlans

\* A request with its location, and no number of plans, corrected.
Corrected(r) ==
    [location |-> Validated[r.location], radius |-> r.radius,
     weekday |-> r.weekday, numPlans |-> Wanted(r.numPlans)]

\* ValidateLocation; then the default number of plans.
ValidateLocation(c) ==
    /\ Move(c, "validate", "lookup")
    /\ req[c].location \in DOMAIN Validated
    /\ req' = [req EXCEPT ![c] = Corrected(@)]
    /\ UNCHANGED <<resp, code, cache, now, history>>

\* Maps does not know the location, or fails.
InvalidLocation(c) ==
    /\ Move(c, "validate", "done")
    /\ code' = [code EXCEPT ![c] = InvalidRequestLocation]
    /\ UNCHANGED <<req, resp, cache, now, history>>

\* GetMultiSlotSolutions, for the one key.
Cached(r) == CacheKey(r) \in DOMAIN cache

\* Every plan found is returned.
Hit(c) ==
    /\ Move(c, "lookup", "done")
    /\ Cached(req[c])
    /\ LET found == cache[CacheKey(req[c])]
       IN  resp' = [resp EXCEPT ![c] = [of |-> found.of, num |-> found.num]]
    /\ UNCHANGED <<req, code, cache, now, history>>

\* There are no plans under the key, or Redis fails.
Miss(c) ==
    /\ Move(c, "lookup", "generate")
    /\ UNCHANGED <<req, resp, code, cache, now, history>>

\* The number of plans to keep: any that is not positive is the default.
Limit(numPlans) ==
    IF numPlans <= 0 THEN TopSolutionsCountDefault ELSE numPlans

\* Fault of Best: the queue takes one plan more.
BestOneMore(numPlans, found) ==
    IF found <= Limit(numPlans) THEN found ELSE Limit(numPlans) + 1

\* FindBestPlanningSolutions: how many of the plans found are kept.
Best(numPlans, found) ==
    IF found <= Limit(numPlans) THEN found ELSE Limit(numPlans)

\* GenerateSolutions, up to CacheSlotSolution. A search that fails, or that does
\* not yet know all places, leads to fewer plans or none, and to no error.
Generate(c) ==
    /\ Move(c, "generate", "cache")
    /\ LET what == What(req[c])
       IN  \E found \in 0 .. Available[what] :
            /\ resp' = [resp EXCEPT ![c] = [of  |-> what,
                                           num |-> Best(req[c].numPlans, found)]]
            /\ short' = IF found < Available[what] THEN short \cup {what} ELSE short
    /\ UNCHANGED <<req, code, cache, now, asked>>

\* The iterator finds a slot without places: a code, but no resp.Err.
NothingToIterate(c) ==
    /\ Move(c, "generate", "done")
    /\ code' = [code EXCEPT ![c] = CatPlaceIterInitFailure]
    /\ UNCHANGED <<req, resp, cache, now, history>>

\* Matching panics: the call ends here, and gin answers with an error.
GeneratePanics(c) ==
    /\ Move(c, "generate", "aborted")
    /\ UNCHANGED <<req, resp, code, cache, now, history>>

\* CacheSlotSolution: SET with the expiration; a failure goes unnoticed.
CacheSlotSolution(c) ==
    /\ Move(c, "cache", "invalidate")
    /\ \/ LET key == CacheKey(req[c])
              entry == [of |-> resp[c].of, num |-> resp[c].num, set |-> now]
          IN  cache' = [k \in DOMAIN cache \cup {key} |->
                           IF k = key THEN entry ELSE cache[k]]
       \/ UNCHANGED cache
    /\ UNCHANGED <<req, resp, code, now, history>>

\* slotSolutionRedisKey, which GenerateSolutions never assigns.
RedisKey == <<>>

\* invalidateSlotSolutionCache, when no plan has been found.
Invalidate(c) ==
    /\ Move(c, "invalidate", "done")
    /\ cache' = [k \in IF resp[c].num = 0
                       THEN DOMAIN cache \ {RedisKey}
                       ELSE DOMAIN cache |-> cache[k]]
    /\ UNCHANGED <<req, resp, code, now, history>>

\* Fault of Expired: a key lives a unit of time too long.
ExpiredLate(entry, time) == time - entry.set > Expiration

Expired(entry, time) == time - entry.set >= Expiration

\* Time passes, and Redis drops the keys that expire.
Tick ==
    /\ now < MaxTime
    /\ now' = now + 1
    /\ cache' = [k \in {key \in DOMAIN cache : ~ Expired(cache[key], now')} |->
                    cache[k]]
    /\ UNCHANGED <<pc, req, resp, code, history>>

Solve(c) ==
    \/ ValidateLocation(c) \/ InvalidLocation(c) \/ Hit(c) \/ Miss(c)
    \/ Generate(c) \/ NothingToIterate(c) \/ GeneratePanics(c)
    \/ CacheSlotSolution(c) \/ Invalidate(c)

Next == Tick \/ \E c \in Call : Start(c) \/ Solve(c)

Spec == Init /\ [][Next]_vars
-----------------------------------------------------------------------------
Steps == {"idle", "validate", "lookup", "generate", "cache", "invalidate",
          "done", "aborted"}

TypeOK ==
    /\ pc \in [Call -> Steps]
    /\ asked \in [Call -> Request \cup {NoRequest}]
    /\ \A c \in Call : code[c] \in {0, InvalidRequestLocation,
                                    CatPlaceIterInitFailure}
    /\ now \in 0 .. MaxTime
    /\ short \subseteq DOMAIN Available
    /\ \A key \in DOMAIN cache :
        /\ now - cache[key].set < Expiration
        /\ cache[key].of \in DOMAIN Available
        /\ cache[key].num \in 0 .. Available[cache[key].of]

\* What a valid request is about, once its location has been corrected.
Asked(c) == What([asked[c] EXCEPT !.location = Validated[@]])

\* A call answers with plans for its own location, radius and weekday, found
\* by itself or by an earlier or concurrent call, whatever has expired since
\* and whatever Redis failed to do.
AnswerOfRequest ==
    \A c \in Call :
        pc[c] = "done" /\ code[c] = 0 => resp[c].of = Asked(c)

\* A call whose location has been found valid.
Valid(c) ==
    pc[c] \notin {"idle", "validate"} /\ asked[c].location \in DOMAIN Validated

\* A valid call d has asked for the same, and for this number of plans of it.
EnoughFor(what, num, d) ==
    /\ Valid(d) /\ Asked(d) = what
    /\ IF what \in short
       THEN num <= Limit(asked[d].numPlans)
       ELSE num = Best(asked[d].numPlans, Available[what])

\* An answer has as many plans as there are, up to the number that it or another
\* call for the same has asked for by then, where no number means five, and a
\* negative one as well. It has fewer, or none, only where a search for the same
\* has fallen short, whose plans are kept like others.
EnoughPlans ==
    \A c \in Call :
        pc[c] = "done" /\ code[c] = 0
            => \E d \in Call : EnoughFor(Asked(c), resp[c].num, d)
============================================================================
