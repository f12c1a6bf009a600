# Vacation Planner: specifications, checks and proofs

This directory describes the Vacation Planner server in TLA+: what its parts do,
what they promise each other, which of these promises TLC has checked on small
instances and which are proved with TLAPS for every instance. Paths of the code
are relative to `src/`.

The server answers `GET /v1/plans`: for a city, a weekday, a radius and a number
of results it makes plans of three slots (visit 10-12, eatery 12-13, visit
13-17), each plan one place for each slot. Places come from Google Maps and are
kept in Redis; so are the locations of cities and finished plans. Each HTTP
request runs in a goroutine of its own, all of them share one `MyPlanner`, one
`Solver`, one `TimeMatcher` and one Redis, and usage events go through a bounded
channel to five workers.

## 1. Inventory

| Component | State | Operations | Talks to |
|---|---|---|---|
| Process lifecycle (`main.go`) | signal channel, wait group, HTTP server | `RunServer`, `listenForShutDownServer` | closes the event channel, joins the workers, destroys the planner |
| Planning API and event pipeline (`planner/planner_API.go`, `planner/redis_streams_logging.go`) | `PlanningEvents` (channel of 1000) | `getPlanningApi`, `Planning`, `PlanningEventLogging`, `ProcessPlanningEvent`, `Destroy` | Solver; Redis stream and statistics |
| Solver and solution cache (`solution/solver.go`, `iowrappers/redis_client.go`) | Redis `slot_solution:...` keys, one day each | `Solve`, `ValidateLocation`, `GetSlotSolution`, `CacheSlotSolution`, `invalidateSlotSolutionCache` | geocode cache, plan generation |
| Plan generation (`solution/generate_planning_solutions.go`, `MDIter.go`, `create_multi_slot_solution_candidate.go`, `graph/min_priority_queue.go`) | iterator, plans, bounded queue; all local to a call | `GenerateSolutions`, `CreateCandidate`, `TravelPlansDeduplication`, `FindBestPlanningSolutions` | time matching, solution cache |
| Time matching (`matching/time_matcher.go`, `graph/time_cluster.go`) | two `TimeClustersManager`s, shared by all requests | `Matching`, `Init`, `PlaceSearch`, `Clustering`, `assign` | place search |
| Time intervals (`POI/time_intervals.go`) | sorted list with a separate count | `InsertTimeInterval`, `Intersect`, `Inclusive`, `ParseTimeInterval` | time matching |
| Place search and cached places (`iowrappers/poi_searcher.go`, `redis_client.go`) | Redis `placeIDs:<category>`, `place_details:...`, `MapsLastSearchTime` | `NearbySearch`, `UpdateRedis`, `SetPlacesOnCategory` | geocode cache, Google Maps search |
| Google Maps place search (`iowrappers/nearby_search.go`) | result slice and maps, shared by caller and goroutine | `NearbySearch`, `ExtensiveNearbySearch`, details searches | Google Maps |
| Geocode cache (`poi_searcher.go`, `redis_client.go`, `geocoding.go`) | Redis `geocode:cities`, city and country aliases | `GetGeocode`, `SetGeocode`, `GetLocationWithAlias`, `CacheLocationAlias` | Google Maps |
| Priority queue and spanning tree (`graph/priorityqueue.go`, `minspanningtree.go`, `build_graph.go`) | binary heap; keys and parents of vertices | `Insert`, `ExtractTop`, `Construct`, `PreOrderTraversal`, `GenerateGraph` | none; used by tests |
| Accounts (`iowrappers/users.go`, `planner/user_authentication.go`) | Redis `user:<name>`; the cookies JWT and Username of a browser | `UserSignup`, `UserLogin`, `UserAuthentication`, `CreateUser`, `FindUser`, `Authenticate` | planning API, migrations |
| Data migrations (`iowrappers/data_migrations.go`) | Redis `migration:<field>`, place details; a batch and its results for each call | `addDataFieldsToPlaces`, `AddUserRatingsTotal`, `AddUrl` | Google Maps, cached places |
| Knapsack and location matcher (`matching/knapsack.go`, ...) | a table of records, local to a call | `Knapsack`, `KnapsackV2`, location matching | none; used by tests |
| Scoring and places, clustering by distance, MongoDB store, POST helpers, web pages | none that the server uses | formulas, accessors, layout | - |

What is hard, and what makes each part correct:

* **Lifecycle and pipeline.** The interrupt may come at any moment; the channel
  is closed while handlers still send, the Redis client while they still log.
  No event may be lost or counted twice, the join must drain the channel, and the
  workers must not use a closed client, although Redis may fail any command, a call
  of `Solve` may panic or never return, and the process may end at any moment.
* **Solution cache.** Concurrent calls, expiry and failing commands between
  lookup and store. A cached answer must be for the same location, radius and
  weekday, and hold as many plans as some request has asked for, unless the search
  that found it fell short.
* **Plan generation.** An odometer that is checked before it is read, and a
  bounded queue. The combinations must come in order and without repetition, and
  the best of the distinct plans must be returned, where a score depends on the order
  of the places and a set of places counts in the order in which it is met first.
* **Time matching.** Shared managers, no lock, a place search of seconds in the
  middle, panics that leave half of the work behind. A call must return the
  clusters of its own request.
* **Cached places.** Three kinds of keys written one command at a time by
  concurrent searches. The index must agree with the details, answers must keep
  to their radius, what was found must not be searched again, and old data must
  not count as fresh.
* **Maps search.** Pages per place type that end at different times, details in
  parallel goroutines, a caller that gives up after ten seconds while the search
  goes on. No place twice, no page twice, an answer in time must be complete, the
  caller must come back.
* **Geocode cache.** Two aliases and a location, written by three commands. The
  location must be the one Maps has for the names that were asked for, and what
  was stored must be found again.
* **Accounts.** A check and a write in two commands, and errors that count as the
  answer no. An account must stay as its owner was told it was created.
* **Data migrations.** Places are marked before their details are asked for, in one
  goroutine each, and read, changed and written back in others; a details search
  without request ID ends the process. `SCAN` may repeat a key, and place searches
  write the same details. Only one migration may ask Google Maps about a place, a
  migration must return, and when it does its batch must be stored.
* **Time intervals.** A list next to a count of its own, and hours of a twelve-hour
  clock.
* **Spanning tree.** Copies of vertices stay in the queue with older keys. The
  queue must be a heap, and the result a minimum spanning tree.

`PROJECT.json` lists the hazards line by line with the properties that watch them.

## 2. Modules

```
EventDelivery <--- refinement --- PlanningServer <- MCPlanningServer
                                        ^---------- PlanningServer_proofs
MultiDimIterator <- PlanGeneration <- MCPlanGeneration
                          ^---------- Algorithms_proofs
MinPriorityQueue <- SpanningTree   <- MCSpanningTree
                          ^---------- Algorithms_proofs
TimeIntervals <- IntervalInsertion <--- TimeMatching_proofs
      ^--------- TimeMatching      <- MCTimeMatching, TimeMatching_proofs
Accounts <- Migration <- MCMigration
                ^------- Migration_proofs
MapsSearch    <- MCMapsSearch, MapsSearch_proofs
Geocoding     <- MCGeocoding, Geocoding_proofs
SolutionCache <- MCSolutionCache, SolutionCache_proofs
PlaceCache    <- MCPlaceCache, PlaceCache_proofs
```

Every arrow is an EXTENDS, except the refinement. The modules follow the calls
of a request: PlanningServer takes the outcome of `Solve` as a choice,
SolutionCache says how `Solve` comes to it with the number of plans a search finds,
PlanGeneration how plans come out of clusters, TimeMatching how clusters come out
of places, PlaceCache where places come from, MapsSearch how Maps is asked for
them, and Geocoding how a name becomes a location. What one module abstracts as
a choice is what the next one computes.

* **PlanningServer** has one action for each blocking point of a handler
  (`Accept`, `SolveInvalid`, `SolveValid`, `SolvePanics`, `SendEvent`, `SendPanics`,
  `LogEvent`, `Reply`), of a worker (`Receive`, `Collect`, `Exit`) and of the listener
  (`Signal`, `CloseChannel`, `JoinWorkers`, `CloseServer`, `Destroy`). `queue` is
  the content of the channel and `open` whether it has been closed; a send on a
  closed channel panics and gin answers 500. `svr.Close` only starts the end of
  the HTTP server (`StopServing`), and `main` returns when no handler is left,
  which may be before `Destroy`. An `XADD` that fails is only logged, and so is a
  pipeline of statistics: the request is then `unlogged` and not `streamed`, its event
  `uncounted` and not `counted`. A panic in `Solve` is recovered by gin (`SolvePanics`);
  one in another goroutine, a fatal error of the runtime or a kill ends the process at
  any step (`Crash`).
* **EventDelivery** is the abstract promise: an event handed over is delivered
  once, and the workers retire only when everything handed over has been
  delivered. `PlanningServer!DeliverySpec` says that the server implements it,
  with `offered` the requests past their send, `delivered` the collected ones and
  `retired` the listener past its join.
* **MultiDimIterator** has the odometer as operators and `Combinations` and
  `Before` as what it should enumerate. **PlanGeneration** is the loop of
  `GenerateSolutions` with its deduplication and its bounded queue, one iteration
  a step. Places are names, a score is a number given by a constant for each sequence
  of places, as distances are taken between consecutive ones, and `container/heap` may
  pop any of the vertices of lowest score. Of the sequences with the same places
  deduplication keeps the first.
* **TimeIntervals** has `InsertTimeInterval` with list and count apart, as in the
  code, so that an insertion may go out of range, and `ParseTimeInterval` of what
  its regular expressions find in a text; **IntervalInsertion** inserts
  into the list in every order. **TimeMatching** interleaves calls on the managers one
  loop body at a time, with panics recovered by gin and with the fatal error the
  Go runtime may raise when two goroutines use a map at once.
* **MapsSearch** has the search goroutine and its caller, who share the slice of
  places; the `done` channel is unbuffered. Results differ in their identity and
  in whether they come with opening hours; tokens are page numbers, and 0 is the
  empty token.
* **Geocoding**, **SolutionCache** and **PlaceCache** take one step for each Redis
  or Maps command, any of which may fail. A process that ends between two
  commands is a call that takes no further step, so crashes need no action.
  History variables remember what was asked (`original`, `asked`), stored
  (`stored`) or covered by an earlier call (`covered`). In SolutionCache a list of plans
  is the number of the best plans it holds, of those a search has found: `Generate` may
  find any number up to all there are, because a place search that fails or comes back
  short is no error there, and what has been found, none included, is kept like a full
  answer. `short` remembers what has been so. A number of plans that is zero or negative
  is the default of five (`Wanted`, `Limit`).
* **Accounts** has a step for each Redis command of sign-up, login and authentication,
  the hash of each user with password and level, and the two cookies, which the
  browser drops at different times. **Migration** extends it: a handler's migration
  starts when `CheckLevel` has found an administrator, one of the package ("add")
  at once. What `SCAN` returns is a sequence with every place, in any order, and some of
  them again (`Scans`). A call holds the loop it is in (`todo`), its `batch`, the details
  searches in flight and those with a result (`searching` and `found`, by their index in
  the batch; of a place that is there twice the last result counts, `Answered`), the
  places still to be read (`unread`), and the goroutines of `setPlace` (`writing`). A
  place is the set of its fields. `SearchStores` is the `setPlace` of a place search,
  which replaces them with those that searches find (`Stored`, from the start as well). `Panic` is the details search of a
  handler, whose context has no request ID: it breaks off every call in the
  process, Redis and the browser keep what they have, and the next call finds a new
  process. `asked` (which calls have asked about a field of a place), `alone`,
  `mixed`, `before`, `renewed` (places stored by searches since a migration started) and
  `contested` are history.
* **MinPriorityQueue** has the heap's operators, recursive as in the code: a percolation
  is a function of an arrangement of the vertices and an index, which are what the
  code's recursion is called with. **SpanningTree** has an extraction or one neighbor of
  Prim's loop for each step. Its definitions that PlanGeneration has too have names of
  their own (`TreeSpec`, `TreeTypeOK`), because Algorithms_proofs extends both.

Faulty variants of some definitions stand above them, under comments that start
with "Fault of". `PROJECT.json` names for each property the variant that breaks it.

## 3. Runs

| Run | Instance | Result |
|---|---|---|
| PlanGeneration | 5 places, 3 slots or one leftover cluster, every choice of up to three places (one listed twice) per slot, -1 to 3 plans, ties in the scores, a sequence that scores more than its reverse | passes |
| PlanningServer | 2 requests, 2 workers, a channel of 1, an interrupt, a failing command, a panic and the end of the process at any moment; 31,066 states | passes, refinement and liveness included |
| TimeMatching | 3 calls of different slots, city and weekday, 2 at a time; opening hours of one clock or two, late, closed, or with an error; 2 million states | passes |
| TimeMatchingShared | 2 calls that may overlap | `Isolation` fails |
| MapsSearch | 2 place types, pages of up to 2 of 3 places, 3 rounds, every failure, with and without a request ID | passes |
| MapsSearchDetails | the same with pages that have opening hours for some results | `DetailsFilled` fails |
| Geocoding | 3 calls, a short city name and its long one, 2 countries | passes |
| SolutionCache | 3 calls, 6 requests for 1, -1 or no number of plans, of which there are none, two or six; searches that fall short; expiry after 2 of 3 time units; 1.5 million states | passes |
| PlaceCache | 3 calls, 2 towns with places at different distances, 3 days, 1 call that Redis fails; 3.8 million states | passes |
| PlaceCacheStale | the same town asked for again after the data is old | `FreshData` fails |
| Migration | 2 sign-ups, a login and a migration of one administrator and a migration of the package; 2 places, 2 fields, batches of 2; `SCAN` repeats a key once, a search stores a place once; 1 call that Redis fails; 666,214 states | passes |
| SpanningTree | every graph of 5 vertices with distances 1 and 2, complete and limited, every root; 151,234 states | passes |

Bounds, and why they are enough:

* *Capacity = 1* with two requests makes a sender block, and a blocked sender
  meet the closing of the channel; two workers are enough for one to hold an
  event while the other finds the channel empty and leaves. The proofs cover all
  capacities and numbers of requests and workers.
* *MaxOverlap = 2* with three calls of the matcher: two calls at once are what sharing takes,
  and the third comes after finished, overlapped and broken-off ones.
* *MaxRequestTimes* and *MinNumResults* (5 and 20 and more in the code) are small
  enough for both limits to be reached, on the first and on a later page.
* *MaxFailing = 1* lets one call be failed any number of times; *Refresh = 1* and
  *MaxTime = 2* have data that is fresh, on the boundary and old. A call takes
  seconds and not days, so `Tick` waits for calls that started the day before.
* *Expiration = 2*, *MaxTime = 3*: entries expire before, while and after a call
  uses them.
* *BatchSize = 2* (300 in the code) with two places and *MaxRepeated = 1* has batches in
  which a place is twice, which leave the other place for a second migration, and batches
  with both; searches find one place with the other field and one with none.
  *MaxSearches = 1* has a search replace either of them at every step of a migration.
  *MayOverlap* has a sign-up in progress beside the other one and beside the handler's
  migration, so that the end of the process meets it; the two migrations come one after
  the other, in either order, for of overlapping ones the properties say nothing. The
  proofs are of all overlaps. Requests for plans, which are authenticated like those for a
  migration with a lower level, are in the model and the proofs and not in the run.
  *MaxFailing* is as above.
* Five vertices fill a queue in which the last node, moved to the root, has two
  lesser children, have older copies extracted after the newer ones, and leave out
  edges where connectivity is limited; two distances are what a comparison takes.

Deadlock is not checked (`CHECK_DEADLOCK FALSE`): every model ends when its calls
are answered or wait for ever, its process has ended or its clock has stopped.

Fairness. The runtime runs every goroutine that can run, and Redis commands return (the
client has timeouts), so workers, the listener and handlers that `Solve` has come back to
have weak fairness; senders blocked on a channel are served first come first served, so a
send that is possible again and again happens: strong fairness for `SendEvent`. `Solve`
itself is not fair, as the Google Maps client has no time limit (`iowrappers/geocoding.go:18`),
and nothing keeps the process from ending (`Crash`).
Nobody has to call the server or to interrupt it. In MapsSearch the goroutine's
own steps and the passing of the caller's time limit are fair, and the answer to a
page search is not: Maps may never answer, and that search gets a context without
a limit. The sequential loops of
PlanGeneration and SpanningTree have weak fairness, for nothing else runs in them.
The steps of a migration are fair, and
the answers of Google Maps that it waits for are not, so its liveness is about the
part after them. The other modules state safety only and have no fairness.

What the passing runs show, beyond types:

* **PlanGeneration.** `IteratorInOrder` and `AllButLastConsidered`: candidates are
  made of the combinations in their order and of all but the last one.
  `BestPlansReturned`: the answer is the best of these, distinct as
  sets of places (the first order of each counts), lowest score first. `Terminates`.
* **PlanningServer.** `EventsConserved`: each event handed over is in the channel, at a
  worker or collected, in one of them. `ShutdownDrains`, `WorkersBeforeDestroy`.
  `ValidRequestsLogged`: a valid request that was answered is in the stream unless its
  `XADD` failed, and what is in the stream is counted or on its way, unless the pipeline
  failed.
  `DeliverySpec`: the server implements EventDelivery.
  `EveryRequestAnswered`: a request that `Solve` has come back from is answered, unless
  the process ends. `InterruptEndsProcess`: an interrupt has the channel drained and the
  client closed, whatever the handlers do, and ends the process if no call of `Solve` goes
  on for ever.
* **TimeMatching.** `IsolationWhenAlone`: a call that no other overlaps gets its own
  clusters, whatever is left in the managers.
* **MapsSearch.** `NoPlaceTwice` (although the slice is copied while it grows),
  `PagesInOrder` (and no more pages of a type than rounds allow), `AnswerComplete`,
  `CallerAnswered`.
* **Geocoding.** `RightLocation` and `Remembered`, where `Unambiguous` holds: a city
  name means the same in every country.
* **SolutionCache.** `AnswerOfRequest`. `EnoughPlans`: an answer has as many plans as there
  are, up to the number that it or another call for the same has asked for, unless a
  search for the same has fallen short.
* **PlaceCache.** `AnswerInReach`: an answer of the cache is within the radius of the
  request (cut to its maximum), one of Maps within the maximum search radius.
  `IndexedHasDetails`: a place of the index lacks its details only between the two writes
  of a call, or after one of them failed. `NoNeedlessSearch`.
* **Migration.** `AccountKept`: an account stays as it was created, also over the end of
  the process, where sign-ups for the name did not overlap and no check of it failed.
  `AskedByOne`: of all migrations of a field only one asks Maps for it about a place,
  where they did not overlap and Redis did not fail their set; that one asks twice about a
  place that `SCAN` has repeated. `BatchStored`: a migration that ran alone and without
  failure returns only when the places Maps has answered for are stored with the field,
  and with all they had, but for places that a search has stored meanwhile.
  `MigrationEnds`: once the details have come a migration returns, unless a command of its
  own has failed or the process ends.
* **SpanningTree.** `QueueIsHeap`, `FrontierQueued`, `MinimumTree`, `ConstructEnds`.

What the violated ones show, with the trace that TLC finds:

* `TimeMatching!Isolation`: two overlapping requests mix their intervals and places
  in the shared managers, although the package "matches request from planner for a
  particular day" (`matching/time_matcher.go:1`).
* `MapsSearch!DetailsFilled`: details are one slice element for each result that needs
  them but are indexed by the position on the page, so a page whose later result
  lacks opening hours while an earlier one has them ends the process
  (`iowrappers/nearby_search.go:126`).
* `PlaceCache!FreshData`: the time of the search is stored before the search, so
  meanwhile, and after it has failed, old places count as fresh
  (`iowrappers/poi_searcher.go:110`, against the comment on line 103).

Met while modelling, and not made runs of:

* With one place for each slot the only combination is also the last, so no plan
  is found although there is one (`solution/MDIter.go:48`).
* The number of plans is not part of the cache key, so a request gets as many plans
  as the first one of the day asked for (`iowrappers/redis_client.go:384`). Plans found
  while a place search failed, or none, are kept for the day like any others, and
  `invalidateSlotSolutionCache`, called when there is none, gets a key that is never
  assigned (`solution/solver.go:158`).
* Plans that were made while two requests mixed their clusters in the shared matcher are
  kept under the key of the request as well.
* A search goroutine that meets an error after its caller has given up blocks for
  ever on the unbuffered channel (`iowrappers/nearby_search.go:99`).
* A handler that sends its event after the interrupt panics and answers 500; one
  that logs after `Destroy`, or whose `XADD` fails, leaves nothing in the stream and is
  answered all the same (`iowrappers/redis_client.go:321`); and `Destroy` may not run at
  all before `main` returns.
* A call of Google Maps has no time limit: one that is never answered keeps its handler,
  and after an interrupt the process, for ever (`iowrappers/geocoding.go:18`).
* The migration handlers pass on `context.Request.Context()`, which has no request ID,
  so the first details answer ends the process (`iowrappers/nearby_search.go:204`).
  The places of that batch are marked and are never asked about again, although they
  have not been updated (`iowrappers/data_migrations.go:52`).
* A place whose key `SCAN` repeats takes two places of a batch and is asked about twice,
  the last result counts (`iowrappers/redis_data_inspections.go:22`,
  `iowrappers/data_migrations.go:60`); a search that stores a place while a migration
  writes it back loses its write or undoes the migration's.
* A place that a migration cannot read makes it wait for ever
  (`iowrappers/data_migrations.go:83`), one whose details search fails loses the field
  it may have had (line 112), and migrations of two fields at a time may lose one
  field of a place.
* Of two sign-ups at a time with one name both are told that they succeeded. An
  `EXISTS` that fails counts as a free name (`iowrappers/users.go:35`).
* A browser that was closed keeps JWT and drops Username, so that the next request
  panics on a nil cookie (`planner/user_authentication.go:112`); gin answers 500.
* Of opening hours, 12 PM is hour 24 and 12 AM hour 12, so a place that opens at noon
  is never open (`POI/time_intervals.go:126`).
* A short city name that two countries share gets the correction that was stored
  last, and a corrected name is no alias of itself, so asking for it goes to Maps
  once more.
* "Each node is connected with at most half of all nodes" (`graph/build_graph.go:13`):
  a vertex in the middle is connected with twice that many.

## 4. Proofs

`PlanningServer_proofs` proves of `SafeSpec`, for any finite nonempty set of workers,
any set of requests and any positive capacity:

* `TypeCorrect` (`TypeOK`, the channel's limit included), `Conservation`
  (`EventsConserved`), `Drained` (`ShutdownDrains`), `DestroyIsLast`
  (`WorkersBeforeDestroy`), `Logging` (`ValidRequestsLogged`), and `Implements`: every
  behaviour is one of `EventDelivery!SafeSpec` under the refinement mapping.
* The inductive invariant is `Inv == TypeOK /\ Lifecycle /\ EventsConserved`.
  `EventsConserved` is not inductive alone: that an event is nowhere twice depends on
  a handler sending once (types and the handler's states), and that the join finds
  everything collected depends on `Lifecycle`: the channel is closed exactly when the
  listener is past its close, a worker that has left has found it closed and empty,
  and a listener past its join has found all workers gone. Each part is preserved by
  a lemma with one step for each action (`TypeStep`, `LifecycleStep`,
  `ConservationStep`); `ShutdownDrains` and `WorkersBeforeDestroy` follow from the
  invariant, and `Logging` adds `StreamInv`, that the requests whose handlers are
  past their logging are those in the stream and those whose `XADD` failed.
* `Implements` maps `SendEvent` to `Offer`, `Collect` to `Deliver`, `JoinWorkers` to
  `Retire` and all else to stutters.

`Algorithms_proofs` proves of PlanGeneration, for every number of slots, set of places, choice of
clusters, number of plans, and score, which may depend on the order of the places:

* `IteratorIsInOrder` (`IteratorInOrder`) and `IteratorCoverage`
  (`AllButLastConsidered`). The lemmas are about the odometer: `NextIsSuccessor` (nothing
  lies between a combination and the next one in lexicographic order), `FirstIsLeast` and
  `NoNextIsLast` (the combination at which `HasNext` is false is the greatest).
  `IteratorInv` says that the considered combinations are exactly those before the
  current one.
* `BestPlansAreReturned` (`BestPlansReturned`). `DeduplicatedProperties` says that
  deduplication keeps the first sequence of every set of places, and no set twice. `QueueInv` is what makes
  the bounded queue right: as long as fewer than `k` plans are chosen none has been
  left out, and one that has is no better than any chosen plan. That "chosen" counts
  the plans in the queue and those already taken from it (`Count`) is what carries it
  through the extraction, and `AnswerInv` adds that what was taken is sorted and no
  better than what the queue still holds.
* `PlanGenerationTypeCorrect` (`TypeOK`).
* `GenerationProgresses` is the part of `Terminates` that can be proved: each step enters
  a later stage, or leaves fewer combinations to consider, which are finitely many
  (`CombinationsFinite`), fewer plans to offer or fewer plans in the queue; and a queue
  that is not empty has a top to extract (`MinimaExist`).

Of MinPriorityQueue and SpanningTree it proves, for any number of vertices, limited
connectivity or not, any root and any distances (zero and equal ones included):

* `QueueStaysHeap` (`QueueIsHeap`). TLAPS knows of a recursive function only that it is
  one if there is one, so `RunExists` first shows that there is: a recursion each step of
  which lowers a measure has a value everywhere. For the percolations the measure is the
  index, and what is left below it. `UpPercolates` and `DownPercolates` then say that a
  heap with one vertex out of place (`HeapButFor`, `HeapButBelow`) is a heap again, with
  the same vertices; `InsertProperties`, `RestProperties` and `TopIsLeast` are what the
  tree needs of the queue.
* `FrontierIsQueued` (`FrontierQueued`) and `TreeTypeCorrect` (`TreeTypeOK`), from an
  invariant that holds in the middle of the inner loop too: a key is the distance from
  a parent in the tree (`KnownOK`) and no greater than from any other vertex that has
  been looked from (`NearestOK`), the queue has it (`WaitingOK`), and copies are never
  ahead of it (`CopiesOK`).
* `TreeIsMinimum` (`MinimumTree`). `LightestOK` carries it: whatever set of edges
  connects the graph, some set no heavier connects it and has all the edges of the tree
  so far. For an extraction, such a set is made as small as the tree's edges allow
  (`FewestEdges`); then an edge of it that leaves the tree lies on the way to the new
  vertex (`NeededBetween`), the new edge can take its place (`Exchanged`) and is not
  longer (`TopIsNearest`), because the queue is a heap with every vertex next to the tree.
  Ways are not modelled: that a set connects is said with cuts, and so are the lemmas.
  `ReachedOK` is why the traversal visits all.
* `QueueNotExhausted`: the loop is over exactly when every vertex is added, and until
  then the queue is not empty, since the graph is connected (`GraphConnected`), so the
  empty name that `ExtractTop` returns of an empty queue never gets to `nodeMap`.
* `ConstructProgresses` is the part of `ConstructEnds` that can be proved: a step lowers a
  key and with it the sum of the keys, or else extracts from the queue, or else finishes
  with a neighbor. A vertex is inserted again only when its key goes down (`KeyLowered`),
  so the copies do not keep the loop alive.

`TimeMatching_proofs` proves `InsertionCorrect`: for intervals of any hours, inserted
in any order, `SortedAndComplete` always holds, so TLC has no run for it. The invariant is stronger in one respect: intervals of the list end before the next ones
start (`Separated`), which is what makes the place of an insertion unique.
`InsertAtProperties` says what the list is after it, `InsertStep` that the result is
separated, complete and one longer. `OpeningHoursInRange` is about `ParseTimeInterval`:
"start and end hour in [0-24]" holds where each half of the day is in one case (of "Pm"
and the like the code makes hour 255), the interval does not end before it starts, and
only the hour twelve is not the hour of the day.

Of TimeMatching it proves, for any requests, opening hours, answers of the search and
bound on overlapping calls:

* `MatchingTypeCorrect` (`TypeOK`), with calls that overlap in every way. `Typed` adds to
  `TypeOK` that no interval of a list ends before one in front of it starts
  (`NoInversion`). Without it the insertion into a list that another call is filling
  could not be shown to keep the list within its count: the index the code reads after
  its loop is in range, or the step is a panic.
* `AloneIsIsolated` (`IsolationWhenAlone`). `AloneInv` says that a call without overlap is
  the only one that runs (`AloneRuns`), and of such a call, step by step, what it has
  made of the managers so far (`Alone`): the intervals it has inserted are the first of
  its slots and the count agrees with them; each cluster holds the places it has
  assigned that are open for the slot (`FirstOpen`), and in the end all of them
  (`Filled`). That it holds whatever was there before follows from `Reset` and
  `ResetIntervals` alone. There is a lemma for each step, over lemmas about what one more
  element does to a list in order (`InsertInOrder`, `NextSlot`), to a selection of
  positions (`At`) and to a map of clusters, and one that a set of disjoint slots has a
  single order by start time.

`Migration_proofs` proves, for any calls, places, fields, batch size and bounds:

* `AccountsAreKept` (`AccountKept`). The inductive invariant `AccountsInv` adds that a
  sign-up about to write finds no account of an uncontested name (`NothingToReplace`)
  and that two sign-ups for a name at a time make it contested (`OneAtATime`). All
  steps but five are no sign-up's: they are shown to be `Aside`, and `AsideKeeps` is
  proved once.
* `MapsIsAskedByOne` (`AskedByOne`). `MigrationInv` says, of fields that are not mixed, that
  what was asked for is marked (`AskedAreMarked`), that what a migration has selected
  or is still to mark is nothing another has asked about (`SelectsNew` and `MarksNew`, with
  `Others`), and that no two migrations run (`OnePerField`). It says so of sequences that
  may repeat places. The steps that select and mark nothing, a search's among them, are
  `Beside`; scan, selection, the cut to a batch and the marking have a lemma each.
* `BatchesAreStored` (`BatchStored`, an action property) and `MigrationTypeCorrect`
  (`TypeOK`). `StorageInv` says what a call may hold in each phase (`PhaseOf`: details
  searches only while it marks, writes only while it updates, and all of it places of
  its batch), that a migration which no other has overlapped is the only one that
  runs (`AloneRuns`), and of such a one (`StoredOf`) that every place with an answer is
  still to be read, is being written with the field, or has it, and that neither a
  place nor a write under way lacks a field the place had at the start, all of it but
  for places that a search has stored since (`renewed`).
  `OneMigrationStep` is proved once: of a step it leaves to show only what it does to its
  own call. `OnlyReturn` says which step ends an update.

`Geocoding_proofs` proves, from `Unambiguous` (a city name means the same in every
country, and a corrected name itself): `LocationIsRight` (`RightLocation`) and
`StoredIsRemembered` (`Remembered`). `GeocodingTypeCorrect` (`TypeOK`) needs no such
condition, and has an invariant of its own (`TypeInv`). In the other
invariant the hashes hold corrections only (`CacheInv`), each call knows at each of its
steps what its names mean (`CallInv`), and what was stored is in all three hashes
(`StoredInv`). `Unambiguous` is a hypothesis and not an assumption of the module, for
without it both fail: see "Met while modelling". The instance TLC checks satisfies it.

`SolutionCache_proofs` proves `AnswersAreOfRequest` (`AnswerOfRequest`), `PlansAreEnough`
(`EnoughPlans`) and `SolutionCacheTypeCorrect` (`TypeOK`), for any requests, calls, expiry
and clock. `PlansOf` ties plans to what they are plans of, and to some call that asked for
so many of them (`Enough`, which never loses an element, because `short` only grows and a
valid call stays valid); it holds of every entry of the cache under its key, and of every
call's answer from the moment it has one.

`MapsSearch_proofs` proves `NoPlaceIsTwice` (`NoPlaceTwice`), `PagesAreInOrder`
(`PagesInOrder`), `AnswersAreComplete` (`AnswerComplete`) and `MapsSearchTypeCorrect`
(`TypeOK`), for any place types, pages and limits. The token 0 stands for the first page and for the
end of the pages, so `TokenInv` has to say when a type may be asked for another page
(`MayBeAsked`), and that its token then is that of the page after the last one;
`OncePerRound` bounds the pages of a type by the rounds. `AppendedProperties` says what
a page adds to the places.

`PlaceCache_proofs` proves `AnswersAreInReach` (`AnswerInReach`),
`IndexedPlacesHaveDetails` (`IndexedHasDetails`), `NoSearchIsNeedless`
(`NoNeedlessSearch`) and `PlaceCacheTypeCorrect` (`TypeOK`), for any places, distances,
calls and failures, with the exceptions the properties name: answers of Maps are bounded by
the maximum search radius alone, and details may be missing between the two writes of a
call and after one has failed. `StoredInv` says what a call leaves in Redis at each of its steps
unless a command of its own fails. `CoveredInv` is the heart of `NoNeedlessSearch`: a
covered call has an earlier one whose places, enough of them within its radius,
stay in the index with their details, and it has read them or is still to read them.

Assumptions are the named `ASSUME`s of the modules: a positive capacity, a finite
nonempty set of workers, `None` not a request; a nonempty sequence of slot categories,
clusters of sequences of places and scores of plans that are integers; a finite set of
places, a positive batch size, a number of repeated keys that is a natural number, and
migrations of known fields; corrections of the names that Maps
knows; requests that are records, numbers of plans for whatever they ask, and an expiry
that is not zero; place types without repetition, and positive limits of results, rounds,
radius and age; slots of a request in order, which do not overlap; a nonempty sequence of
distinct vertex names other than the empty one, and a nonempty finite set of distances that
are natural numbers.

Only model-checked: everything temporal under fairness (`EveryRequestAnswered`,
`InterruptEndsProcess`, `CallerAnswered`, `MigrationEnds`, `Terminates`, `ConstructEnds`, the
liveness part of `DeliverySpec`), which the prover does not reach, and the three violated
properties, which are counterexamples. Of `Terminates` and `ConstructEnds` the measures are
proved (`GenerationProgresses`, `ConstructProgresses`), not the conclusion from them. Every invariant and every action property of a
passing run is proved.

## 5. Not modelled, and what comes next

* The **statistics** of the pipeline (`EXISTS` in a pipeline has no result before
  `EXEC`, so the expiry is never set) are one step of PlanningServer.
* Places that appear in Redis for the first time while a migration scans it are left out
  of Migration, which has the places from the start.
* The copy of the slice that a caller takes while the search goroutine appends to it
  (`iowrappers/nearby_search.go:67`) may be torn in any way; MapsSearch has the empty copy
  for all of them.
* The sort of a plan's place IDs in place, which separates them from its names and
  addresses (`solution/generate_planning_solutions.go:130`), is left out of PlanGeneration.
* What plans hold when the shared matcher has mixed two requests is left to TimeMatching:
  in SolutionCache the plans a call makes are those of its request.
* The **Knapsack** is used by tests only. Its score is not additive, so it has no simple
  reference definition; its keys are ambiguous where the cost equals the budget
  (`matching/knapsack.go:35`).
* Left out for good: scores and distances (floating point), text of pages and logs,
  configuration files, k-means of a library, the MongoDB store and the POST helpers that
  the server does not reach, and reverse geocoding and the counts of `/stats`, which only
  read.
