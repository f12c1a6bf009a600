-------------------------- MODULE PlanningServer --------------------------
(***************************************************************************)
(* The server process of main.go and planner/: handlers of the planning    *)
(* API, each a goroutine, put a planning event into a bounded channel that *)
(* workers drain into Redis statistics, while listenForShutDownServer      *)
(* waits for a signal, closes the channel, joins the workers, stops the    *)
(* HTTP server and destroys the planner's Redis client.  A call of Solve   *)
(* may go on for ever, and the process may end at any time.                *)
(***************************************************************************)
EXTENDS Naturals, Sequences, FiniteSets

CONSTANTS
    Request,    \* calls of the planning API
    Worker,     \* goroutines running ProcessPlanningEvent
    Capacity,   \* jobQueueBufferSize
    None        \* a worker holds no event

ASSUME CapacityAssumption == Capacity \in Nat \ {0}
ASSUME WorkerAssumption == IsFiniteSet(Worker) /\ Worker # {}
ASSUME NoneAssumption == None \notin Request

VARIABLES
    handler,    \* where the handler of each request is
    plans,      \* requests for which Solve found plans
    queue,      \* PlanningEvents, the events buffered in the channel
    open,       \* the channel has not been closed
    worker,     \* the event each worker is processing, or how it stands
    counted,    \* requests whose event is in the statistics
    uncounted,  \* history: those of which Redis failed the statistics
    streamed,   \* requests whose event is in the Redis stream
    unlogged,   \* history: those of which XADD failed
    listener,   \* where listenForShutDownServer is
    server,     \* the HTTP server (manners)
    client,     \* the planner's Redis client is usable
    running     \* the process has not ended

statistics == <<counted, uncounted>>
stream == <<streamed, unlogged>>
vars == <<handler, plans, queue, open, worker, statistics, stream, listener,
          server, client, running>>

\* Requests whose event went through CollectPlanningAPIStats.
collected == counted \cup uncounted

\* States of a worker other than processing the event of a request.
Receiving == [event |-> None, done |-> FALSE]
Exited == [event |-> None, done |-> TRUE]
Processing(r) == [event |-> r, done |-> FALSE]

Answered == {"plans", "no_plan", "bad_request", "aborted"}

Init ==
    /\ handler = [r \in Request |-> "none"]
    /\ plans = {}
    /\ queue = <<>>
    /\ open = TRUE
    /\ worker = [w \in Worker |-> Receiving]
    /\ counted = {}
    /\ uncounted = {}
    /\ streamed = {}
    /\ unlogged = {}
    /\ listener = "waiting"
    /\ server = "serving"
    /\ client = TRUE
    /\ running = TRUE

Move(r, from, to) ==
    /\ running
    /\ handler[r] = from
    /\ handler' = [handler EXCEPT ![r] = to]

\* A connection is accepted and getPlanningApi starts: it sends a user who is
\* not known to the login page, refuses a number of results, weekday or radius
\* that is not valid, and has Planning solve the request otherwise.
Accept(r) ==
    /\ server # "stopped"
    /\ Move(r, "none", "bad_request") \/ Move(r, "none", "solving")
    /\ UNCHANGED <<plans, queue, open, worker, statistics, stream, listener,
                   server, client, running>>

\* The matcher panics in Solve; gin recovers and answers 500.
SolvePanics(r) ==
    /\ Move(r, "solving", "aborted")
    /\ UNCHANGED <<plans, queue, open, worker, statistics, stream, listener,
                   server, client, running>>

\* Solver.Solve fails with resp.Err: an invalid travel destination.
SolveInvalid(r) ==
    /\ Move(r, "solving", "bad_request")
    /\ UNCHANGED <<plans, queue, open, worker, statistics, stream, listener,
                   server, client, running>>

\* Solver.Solve returns without resp.Err, with plans or without any.
SolveValid(r) ==
    /\ Move(r, "solving", "sending")
    /\ plans' \in {plans, plans \cup {r}}
    /\ UNCHANGED <<queue, open, worker, statistics, stream, listener, server,
                   client, running>>

\* Faults of HasRoom: a buffer without a limit, and one that is never used.
HasRoomUnlimited == TRUE
HasRoomNever == Len(queue) + 1 < Capacity

\* A buffered channel takes an event while it holds fewer than its capacity.
HasRoom == Len(queue) < Capacity

\* planner.PlanningEvents <- event: blocks while the buffer is full.
SendEvent(r) ==
    /\ open
    /\ HasRoom
    /\ Move(r, "sending", "logging")
    /\ queue' = Append(queue, r)
    /\ UNCHANGED <<plans, open, worker, statistics, stream, listener, server,
                   client, running>>

\* Sending on a closed channel panics; gin recovers and answers 500.
SendPanics(r) ==
    /\ ~ open
    /\ Move(r, "sending", "aborted")
    /\ UNCHANGED <<plans, queue, open, worker, statistics, stream, listener,
                   server, client, running>>

\* Fault of StreamsLogging: a request without plans is not logged.
StreamsLoggingOfPlans(r) ==
    /\ streamed' = IF client /\ r \in plans THEN streamed \cup {r} ELSE streamed
    /\ UNCHANGED unlogged

\* StreamsLogging: an XADD that fails, as on a closed client, is only logged.
StreamsLogging(r) ==
    \/ client /\ streamed' = streamed \cup {r} /\ UNCHANGED unlogged
    \/ unlogged' = unlogged \cup {r} /\ UNCHANGED streamed

\* PlanningEventLogging.
LogEvent(r) ==
    /\ Move(r, "logging", "replying")
    /\ StreamsLogging(r)
    /\ UNCHANGED <<plans, queue, open, worker, statistics, listener, server,
                   client, running>>

Reply(r) ==
    /\ Move(r, "replying", IF r \in plans THEN "plans" ELSE "no_plan")
    /\ UNCHANGED <<plans, queue, open, worker, statistics, stream, listener,
                   server, client, running>>

\* Planning up to the answer, before and after Solve has returned.
Solve(r) == SolveInvalid(r) \/ SolveValid(r) \/ SolvePanics(r)
Finish(r) == SendEvent(r) \/ SendPanics(r) \/ LogEvent(r) \/ Reply(r)

\* for event := range planner.PlanningEvents
Receive(w) ==
    /\ worker[w] = Receiving
    /\ queue # <<>>
    /\ worker' = [worker EXCEPT ![w] = Processing(Head(queue))]
    /\ queue' = Tail(queue)
    /\ UNCHANGED <<handler, plans, open, statistics, stream, listener, server,
                   client, running>>

\* Fault of CollectPlanningAPIStats: the event is received and dropped.
CollectNothing(r) == UNCHANGED statistics

\* CollectPlanningAPIStats: an error of the pipeline is only logged.
CollectPlanningAPIStats(r) ==
    \/ client /\ counted' = counted \cup {r} /\ UNCHANGED uncounted
    \/ uncounted' = uncounted \cup {r} /\ UNCHANGED counted

Collect(w) ==
    /\ worker[w].event # None
    /\ CollectPlanningAPIStats(worker[w].event)
    /\ worker' = [worker EXCEPT ![w] = Receiving]
    /\ UNCHANGED <<handler, plans, queue, open, stream, listener, server,
                   client, running>>

\* Fault of RangeEnds: the loop stops as soon as the channel is closed.
RangeEndsOnClose == ~ open

\* range stops on a channel that is closed and empty.
RangeEnds == ~ open /\ queue = <<>>

\* The loop is over: wg.Done.
Exit(w) ==
    /\ worker[w] = Receiving
    /\ RangeEnds
    /\ worker' = [worker EXCEPT ![w] = Exited]
    /\ UNCHANGED <<handler, plans, queue, open, statistics, stream, listener,
                   server, client, running>>

Work(w) == running /\ (Receive(w) \/ Collect(w) \/ Exit(w))

\* An interrupt arrives (external).
Signal ==
    /\ running
    /\ listener = "waiting"
    /\ listener' = "signalled"
    /\ UNCHANGED <<handler, plans, queue, open, worker, statistics, stream,
                   server, client, running>>

CloseChannel ==
    /\ listener = "signalled"
    /\ open' = FALSE
    /\ listener' = "joining"
    /\ UNCHANGED <<handler, plans, queue, worker, statistics, stream, server,
                   client, running>>

\* Faults of WorkersDone: wg.Add(1), and one wg.Add too many.
WorkersDoneFirst == \E w \in Worker : worker[w].done
WorkersDoneNever ==
    Cardinality({w \in Worker : worker[w].done}) = Cardinality(Worker) + 1

\* wg.Wait returns: wg.Add(numWorkers) has been answered by every worker.
WorkersDone == \A w \in Worker : worker[w].done

JoinWorkers ==
    /\ listener = "joining"
    /\ WorkersDone
    /\ listener' = "joined"
    /\ UNCHANGED <<handler, plans, queue, open, worker, statistics, stream,
                   server, client, running>>

\* svr.Close only starts the shutdown of the HTTP server.
CloseServer ==
    /\ listener = "joined"
    /\ server' = "closing"
    /\ listener' = "closed"
    /\ UNCHANGED <<handler, plans, queue, open, worker, statistics, stream,
                   client, running>>

\* The deferred Destroy closes the Redis client.
Destroy ==
    /\ listener = "closed"
    /\ client' = FALSE
    /\ listener' = "destroyed"
    /\ UNCHANGED <<handler, plans, queue, open, worker, statistics, stream,
                   server, running>>

Listen ==
    /\ running
    /\ CloseChannel \/ JoinWorkers \/ CloseServer \/ Destroy

\* manners closes the network listener some time after Close (external).
StopServing ==
    /\ running
    /\ server = "closing"
    /\ server' = "stopped"
    /\ UNCHANGED <<handler, plans, queue, open, worker, statistics, stream,
                   listener, client, running>>

\* ListenAndServe returns when no handler is left, and main with it.
ReturnFromMain ==
    /\ running
    /\ server = "stopped"
    /\ \A r \in Request : handler[r] \in Answered \cup {"none"}
    /\ running' = FALSE
    /\ UNCHANGED <<handler, plans, queue, open, worker, statistics, stream,
                   listener, server, client>>

\* The process ends: a panic that nothing recovers, the fatal error of the Go
\* runtime on concurrent map use, or a kill.
Crash ==
    /\ running
    /\ running' = FALSE
    /\ UNCHANGED <<handler, plans, queue, open, worker, statistics, stream,
                   listener, server, client>>

Next ==
    \/ Signal
    \/ Listen
    \/ StopServing
    \/ ReturnFromMain
    \/ Crash
    \/ \E r \in Request : Accept(r) \/ Solve(r) \/ Finish(r)
    \/ \E w \in Worker : Work(w)

\* Goroutines keep running, Redis calls return in time, and the runtime serves
\* senders blocked on a channel in turn.  A call of Maps has no time limit, so
\* Solve need not return; and nobody has to call the server or to interrupt it.
Fairness ==
    /\ \A r \in Request : WF_vars(Finish(r)) /\ SF_vars(SendEvent(r))
    /\ \A w \in Worker : WF_vars(Work(w))
    /\ WF_vars(Listen)
    /\ WF_vars(StopServing)
    /\ WF_vars(ReturnFromMain)

SafeSpec == Init /\ [][Next]_vars

Spec == SafeSpec /\ Fairness
-----------------------------------------------------------------------------
TypeOK ==
    /\ handler \in [Request -> {"none", "solving", "sending", "logging",
                                "replying"} \cup Answered]
    /\ plans \subseteq Request
    /\ queue \in Seq(Request)
    /\ Len(queue) <= Capacity
    /\ open \in BOOLEAN
    /\ worker \in [Worker -> [event : Request \cup {None}, done : BOOLEAN]]
    /\ counted \subseteq Request /\ uncounted \subseteq Request
    /\ streamed \subseteq Request /\ unlogged \subseteq Request
    /\ listener \in {"waiting", "signalled", "joining", "joined", "closed",
                     "destroyed"}
    /\ server \in {"serving", "closing", "stopped"}
    /\ client \in BOOLEAN
    /\ running \in BOOLEAN

\* Requests whose handler is past the send of its event.
Sent == {r \in Request : handler[r] \in {"logging", "replying", "plans", "no_plan"}}

Buffered == {queue[i] : i \in DOMAIN queue}

Held == {worker[w].event : w \in Worker} \ {None}

\* No event is lost, duplicated or made up on its way: the events handed over
\* by SendEvent are those in the channel, at a worker or collected, and each is
\* in one place only.
EventsConserved ==
    /\ Sent = Buffered \cup Held \cup collected
    /\ \A i, j \in DOMAIN queue : queue[i] = queue[j] => i = j
    /\ \A w, v \in Worker :
          worker[w].event = worker[v].event /\ worker[w].event # None => w = v
    /\ Buffered \cap Held = {}
    /\ (Buffered \cup Held) \cap collected = {}

\* The join in listenForShutDownServer drains the channel: once it is past,
\* every event handed over has been collected and all workers are gone.
ShutdownDrains ==
    listener \in {"joined", "closed", "destroyed"} =>
        /\ collected = Sent
        /\ \A w \in Worker : worker[w] = Exited

\* Workers never use the Redis client after Destroy has closed it, whichever
\* handlers are still at work.
WorkersBeforeDestroy ==
    ~ client => queue = <<>> /\ Held = {}

\* "logging planning API usage for valid requests": every valid request that was
\* answered, with plans or without, is in the stream unless its XADD failed, and
\* what is in the stream is in the statistics, or its pipeline failed, or it is on
\* its way there.
ValidRequestsLogged ==
    /\ \A r \in Request :
          handler[r] \in {"plans", "no_plan"} => r \in streamed \cup unlogged
    /\ streamed \subseteq Buffered \cup Held \cup counted \cup uncounted

Delivery == INSTANCE EventDelivery
    WITH offered <- Sent, delivered <- collected, up <- running,
         retired <- listener \in {"joined", "closed", "destroyed"}

\* The server implements the promise of EventDelivery.
DeliverySpec == Delivery!Spec

\* A request that Solve has come back from is answered, also when the channel is
\* full or closed while its handler is in Planning, unless the process ends.
EveryRequestAnswered ==
    \A r \in Request :
        handler[r] = "sending" ~> (handler[r] \in Answered \/ ~ running)

\* An interrupt has the channel drained and the client closed, whatever the
\* handlers are doing, and ends the process if no call of Solve goes on for ever.
InterruptEndsProcess ==
    /\ listener = "signalled" ~> (listener = "destroyed" \/ ~ running)
    /\ (\A r \in Request : []<>(handler[r] # "solving"))
          => (listener = "signalled" ~> ~ running)
============================================================================
