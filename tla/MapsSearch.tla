---------------------------- MODULE MapsSearch ----------------------------
(***************************************************************************)
(* MapsClient.NearbySearch (iowrappers/nearby_search.go): a caller that    *)
(* waits ten seconds for a goroutine of its own, ExtensiveNearbySearch,    *)
(* which asks Google Maps for page after page of places and shares the     *)
(* slice it appends to with the caller.  A panic in a goroutine ends the   *)
(* whole process.                                                          *)
(***************************************************************************)
EXTENDS Integers, FiniteSets, SequencesExt

CONSTANTS
    PlaceTypes,         \* the Maps types of the category, in order
    Pages,              \* what Maps may answer: pages of results
    MinNumResults,      \* results asked for
    MaxRequestTimes,    \* maxReqTimes
    HasRequestId        \* whether the context may carry a request ID: it does
                        \* for plans, and not for a nearby search

ASSUME PlaceTypesAssumption ==
    /\ PlaceTypes \in Seq(ToSet(PlaceTypes)) \ {<<>>}
    /\ IsInjective(PlaceTypes)
ASSUME PagesAssumption ==
    \A page \in Pages :
        /\ page \in Seq(ToSet(page))
        /\ \A k \in DOMAIN page : page[k].hours \in BOOLEAN
ASSUME BoundsAssumption ==
    MinNumResults \in Nat \ {0} /\ MaxRequestTimes \in Nat \ {0}

VARIABLES
    caller,     \* NearbySearch: "waiting" or what it returned with
    pc,         \* the step ExtensiveNearbySearch is at
    err,        \* whether its err is set
    reqTimes,   \* rounds over the place types
    total,      \* totalResult
    type,       \* index of the place type of the inner loop
    token,      \* nextPageTokenMap: number of the next page, 0 for ""
    page,       \* searchResp: the page at hand
    places,     \* IDs of the shared slice
    result,     \* the copy of the slice the caller returned
    hasId,      \* the context carries a request ID
    asked,      \* history: pages asked for, by place type
    found,      \* history: the places of the pages received
    lost        \* history: a details search has failed

search == <<err, reqTimes, total, type, token, page, hasId>>
vars == <<caller, pc, search, places, result, asked, found, lost>>

Init ==
    /\ caller = "waiting"
    /\ pc = "loop"
    /\ err = FALSE
    /\ reqTimes = 0
    /\ total = 0
    /\ type = 1
    /\ token = [t \in ToSet(PlaceTypes) |-> 0]
    /\ page = <<>>
    /\ places = <<>>
    /\ result = <<>>
    /\ hasId \in HasRequestId
    /\ asked = [t \in ToSet(PlaceTypes) |-> <<>>]
    /\ found = {}
    /\ lost = FALSE

Alive == pc # "dead"

\* context.WithTimeout is over; the deferred cancel ends the context as well.
ContextDone == caller # "waiting"

Type == PlaceTypes[type]

\* Fault of Enough: one result will do.
EnoughIsOne == total > 0

Enough == total >= MinNumResults

\* for totalResult < request.MinNumResults: another round, unless there has
\* been an error.
Loop ==
    /\ pc = "loop"
    /\ pc' = CASE Enough -> "log"
               [] ~ Enough /\ err -> "signal"
               [] OTHER -> "types"
    /\ type' = 1
    /\ UNCHANGED <<caller, err, reqTimes, total, token, page, places, result,
                   hasId, asked, found, lost>>

\* Fault of NoMoreResults: only the first round asks for pages by token.
NeverNoMore(t) == FALSE

\* The empty token stands for the first page and for the end of the pages.
NoMoreResults(t) == reqTimes > 0 /\ token[t] = 0

SkipType ==
    /\ pc = "types"
    /\ type \in DOMAIN PlaceTypes
    /\ NoMoreResults(Type)
    /\ type' = type + 1
    /\ UNCHANGED <<caller, pc, err, reqTimes, total, token, page, places,
                   result, hasId, asked, found, lost>>

PageOf(t) == IF token[t] = 0 THEN 1 ELSE token[t]

\* GoogleMapsNearbySearchWrapper, which uses a context that is never done.
SearchPage ==
    /\ pc = "types"
    /\ type \in DOMAIN PlaceTypes
    /\ ~ NoMoreResults(Type)
    /\ asked' = [asked EXCEPT ![Type] = Append(@, PageOf(Type))]
    /\ \/ /\ \E answer \in Pages : page' = answer
          /\ pc' = "details"
          /\ UNCHANGED <<err, type>>
       \/ /\ err' = TRUE
          /\ type' = type + 1
          /\ UNCHANGED <<pc, page>>
    /\ UNCHANGED <<caller, reqTimes, total, token, places, result, hasId, found,
                   lost>>

\* Indices of the page's results that come without opening hours.
NeedDetails == {k \in DOMAIN page : ~ page[k].hours}

\* The details searches of a page, in parallel, and wg.Wait.  A failed one
\* leaves a result without Res, which is dereferenced afterwards; an index of
\* the page is used on a slice that only has as many elements as are needed;
\* and each of them asserts that there is a request ID.
PlaceDetails ==
    /\ pc = "details"
    /\ \E failed \in SUBSET NeedDetails :
        /\ ContextDone => failed = NeedDetails
        /\ lost' = (lost \/ failed # {})
        /\ pc' = IF \/ failed # {}
                    \/ ~ hasId /\ NeedDetails # {}
                    \/ \E k \in NeedDetails : k > Cardinality(NeedDetails)
                 THEN "dead"
                 ELSE "append"
    /\ UNCHANGED <<caller, search, places, result, asked, found>>

\* Fault of Unseen: only neighbours are compared.
NotRepeated ==
    {k \in DOMAIN page : \A j \in 1 .. k - 1 : page[j].id # page[k].id}

\* placeMap: results whose place has not been appended before.
Unseen ==
    {k \in DOMAIN page :
        /\ page[k].id \notin ToSet(places)
        /\ \A j \in 1 .. k - 1 : page[j].id # page[k].id}

Nth(S, n) == CHOOSE k \in S : Cardinality({j \in S : j <= k}) = n

Appended ==
    places \o [n \in 1 .. Cardinality(Unseen) |-> page[Nth(Unseen, n)].id]

\* parsePlacesSearchResponse, and what follows it in the loop body.  Maps may
\* or may not give a token for a next page.
AppendPlaces ==
    /\ pc = "append"
    /\ places' = Appended
    /\ total' = total + Len(page)
    /\ token' \in {[token EXCEPT ![Type] = 0],
                   [token EXCEPT ![Type] = PageOf(Type) + 1]}
    /\ type' = type + 1
    /\ page' = <<>>
    /\ pc' = "types"
    /\ found' = found \cup {r.id : r \in ToSet(page)}
    /\ UNCHANGED <<caller, err, reqTimes, result, hasId, asked, lost>>

\* Fault of LastRound: a round too many.
RoundTooMany == reqTimes = MaxRequestTimes

LastRound == reqTimes + 1 = MaxRequestTimes

\* The end of a round; the sleep of a second is a step like any other.
EndRound ==
    /\ pc = "types"
    /\ type > Len(PlaceTypes)
    /\ reqTimes' = reqTimes + 1
    /\ pc' = IF LastRound THEN "log" ELSE "loop"
    /\ UNCHANGED <<caller, err, total, type, token, page, places, result,
                   hasId, asked, found, lost>>

\* context.Value(RequestIdKey).(string) panics when there is none.
LogSearch ==
    /\ pc = "log"
    /\ pc' = IF hasId THEN "signal" ELSE "dead"
    /\ UNCHANGED <<caller, search, places, result, asked, found, lost>>

\* done <- true meets <-searchDone: the channel has no buffer.
SearchDone ==
    /\ pc = "signal"
    /\ caller = "waiting"
    /\ pc' = "ended"
    /\ caller' = "answered"
    /\ result' = places
    /\ UNCHANGED <<search, places, asked, found, lost>>

\* Fault of TimeIsUp: the caller has no time limit.
TimeIsNeverUp == FALSE

TimeIsUp == caller = "waiting"

\* <-ctx.Done(): the slice is copied while the goroutine may be appending to
\* it, and a copy of half an assignment is no slice of places.
Timeout ==
    /\ Alive
    /\ TimeIsUp
    /\ \/ caller' = "timed out" /\ result' = places
       \/ pc = "append" /\ caller' = "torn" /\ result' = <<>>
    /\ UNCHANGED <<pc, search, places, asked, found, lost>>

Goroutine ==
    \/ Loop \/ SkipType \/ PlaceDetails \/ AppendPlaces \/ EndRound
    \/ LogSearch \/ SearchDone

Next == Goroutine \/ SearchPage \/ Timeout

\* Maps may take forever to answer the page search; time does pass.
Spec == Init /\ [][Next]_vars /\ WF_vars(Goroutine) /\ WF_vars(Timeout)
-----------------------------------------------------------------------------
Place == {r.id : r \in UNION {ToSet(answer) : answer \in Pages}}

TypeOK ==
    /\ caller \in {"waiting", "answered", "timed out", "torn"}
    /\ pc \in {"loop", "types", "details", "append", "log", "signal", "ended",
               "dead"}
    /\ reqTimes \in 0 .. MaxRequestTimes
    /\ total \in Nat
    /\ type \in 1 .. Len(PlaceTypes) + 1
    /\ token \in [ToSet(PlaceTypes) -> 0 .. MaxRequestTimes + 1]
    /\ page \in Pages \cup {<<>>}
    /\ places \in Seq(Place)
    /\ result \in Seq(Place)

\* "remove duplication for place with same ID": no place is returned twice,
\* though a cafe may be a restaurant too and a page may repeat what an earlier
\* one had, and whenever the caller gives up.
NoPlaceTwice == IsInjective(places) /\ IsInjective(result)

\* The pages of a type are asked for in order, none twice, though one token
\* stands for the first page and for the end of the pages; and "within the
\* maxRequestTime times of calling external APIs" holds of each type, though
\* types end at different rounds.
PagesInOrder ==
    \A t \in ToSet(PlaceTypes) :
        /\ asked[t] = [n \in DOMAIN asked[t] |-> n]
        /\ Len(asked[t]) <= MaxRequestTimes

\* An answer in time holds every place of every page received, and the search
\* has not stopped short of the number asked for but for an error or the limit
\* of rounds.
AnswerComplete ==
    caller = "answered" =>
        /\ ToSet(result) = found
        /\ err \/ total >= MinNumResults \/ reqTimes = MaxRequestTimes

\* While the process lives the caller comes back, even if Maps never answers.
CallerAnswered == caller = "waiting" ~> (caller # "waiting" \/ ~ Alive)

\* "fill fields from detail search results to nearby search results": when
\* every details search succeeds the search goes on.
DetailsFilled == ~ lost => Alive
============================================================================
