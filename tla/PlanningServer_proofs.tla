----------------------- MODULE PlanningServer_proofs -----------------------
(***************************************************************************)
(* Safety of the planning-event pipeline for any number of requests and    *)
(* workers and any capacity of the channel.                                *)
(***************************************************************************)
EXTENDS PlanningServer, TLAPS

\* How the channel, the workers and the client follow the listener.
Lifecycle ==
    /\ open <=> listener \in {"waiting", "signalled"}
    /\ \A w \in Worker :
          worker[w].done => worker[w].event = None /\ ~ open /\ queue = <<>>
    /\ listener \in {"joined", "closed", "destroyed"} =>
          \A w \in Worker : worker[w].done
    /\ ~ client => listener = "destroyed"

\* The inductive invariant.
Inv == TypeOK /\ Lifecycle /\ EventsConserved

\* Every step keeps the types, and no send overfills the channel.
LEMMA TypeStep ==
    ASSUME TypeOK, [Next]_vars
    PROVE  TypeOK'
<1> USE CapacityAssumption DEF TypeOK, Answered, statistics, stream
<1>1. CASE Signal
  BY <1>1 DEF Signal
<1>2. CASE Listen
  BY <1>2 DEF Listen, CloseChannel, JoinWorkers, CloseServer, Destroy
<1>3. CASE StopServing
  BY <1>3 DEF StopServing
<1>4. CASE ReturnFromMain \/ Crash
  BY <1>4 DEF ReturnFromMain, Crash
<1>5. ASSUME NEW r \in Request, Accept(r) \/ Solve(r) \/ Finish(r)
      PROVE  TypeOK'
  <2>1. CASE Accept(r)
    BY <2>1 DEF Accept, Move
  <2>2. CASE SolveInvalid(r) \/ SolvePanics(r)
    BY <2>2 DEF SolveInvalid, SolvePanics, Move
  <2>3. CASE SolveValid(r)
    <3>1. plans' \subseteq Request
      BY <2>3 DEF SolveValid
    <3>2. QED
      BY <2>3, <3>1 DEF SolveValid, Move
  <2>4. CASE SendEvent(r)
    <3>1. queue' \in Seq(Request) /\ Len(queue') <= Capacity
      BY <2>4 DEF SendEvent, HasRoom
    <3>2. QED
      BY <2>4, <3>1 DEF SendEvent, Move
  <2>5. CASE SendPanics(r)
    BY <2>5 DEF SendPanics, Move
  <2>6. CASE LogEvent(r)
    <3>1. streamed' \subseteq Request /\ unlogged' \subseteq Request
      BY <2>6 DEF LogEvent, StreamsLogging
    <3>2. QED
      BY <2>6, <3>1 DEF LogEvent, Move
  <2>7. CASE Reply(r)
    BY <2>7 DEF Reply, Move
  <2>8. QED
    BY <1>5, <2>1, <2>2, <2>3, <2>4, <2>5, <2>6, <2>7 DEF Solve, Finish
<1>6. ASSUME NEW w \in Worker, Work(w)
      PROVE  TypeOK'
  <2>1. CASE Receive(w)
    <3>1. queue' \in Seq(Request) /\ Len(queue') <= Capacity
      BY <2>1 DEF Receive
    <3>2. Processing(Head(queue)) \in [event : Request \cup {None}, done : BOOLEAN]
      BY <2>1 DEF Receive, Processing
    <3>3. QED
      BY <2>1, <3>1, <3>2 DEF Receive
  <2>2. CASE Collect(w)
    <3>1. counted' \subseteq Request /\ uncounted' \subseteq Request
      BY <2>2 DEF Collect, CollectPlanningAPIStats
    <3>2. QED
      BY <2>2, <3>1 DEF Collect, Receiving
  <2>3. CASE Exit(w)
    BY <2>3 DEF Exit, Exited
  <2>4. QED
    BY <1>6, <2>1, <2>2, <2>3 DEF Work
<1>7. CASE UNCHANGED vars
  BY <1>7 DEF vars
<1>8. QED
  BY <1>1, <1>2, <1>3, <1>4, <1>5, <1>6, <1>7 DEF Next

\* A worker exits only past the close of the channel and with nothing left in
\* it; nothing enters the channel after that.
LEMMA LifecycleStep ==
    ASSUME TypeOK, Lifecycle, [Next]_vars
    PROVE  Lifecycle'
<1> USE DEF TypeOK, Lifecycle
<1>1. CASE Signal
  BY <1>1 DEF Signal
<1>2. CASE Listen
  <2>1. CASE CloseChannel
    BY <2>1 DEF CloseChannel
  <2>2. CASE JoinWorkers
    BY <2>2 DEF JoinWorkers, WorkersDone
  <2>3. CASE CloseServer
    BY <2>3 DEF CloseServer
  <2>4. CASE Destroy
    BY <2>4 DEF Destroy
  <2>5. QED
    BY <1>2, <2>1, <2>2, <2>3, <2>4 DEF Listen
<1>3. CASE StopServing \/ ReturnFromMain \/ Crash
  BY <1>3 DEF StopServing, ReturnFromMain, Crash
<1>4. ASSUME NEW r \in Request, Accept(r) \/ Solve(r) \/ Finish(r)
      PROVE  Lifecycle'
  <2>1. CASE SendEvent(r)
    BY <2>1 DEF SendEvent, HasRoom
  <2>2. CASE ~ SendEvent(r)
    BY <1>4, <2>2 DEF Accept, Solve, SolveInvalid, SolveValid, SolvePanics,
                      Finish, SendPanics, LogEvent, Reply
  <2>3. QED
    BY <2>1, <2>2
<1>5. ASSUME NEW w \in Worker, Work(w)
      PROVE  Lifecycle'
  <2>1. CASE Receive(w)
    <3>1. \A v \in Worker : ~ worker'[v].done
      BY <2>1 DEF Receive, Processing, Receiving
    <3>2. QED
      BY <2>1, <3>1 DEF Receive, Receiving
  <2>2. CASE Collect(w)
    <3>1. ~ worker[w].done
      BY <2>2 DEF Collect
    <3>2. QED
      BY <2>2, <3>1 DEF Collect, Receiving
  <2>3. CASE Exit(w)
    BY <2>3 DEF Exit, RangeEnds, Receiving, Exited
  <2>4. QED
    BY <1>5, <2>1, <2>2, <2>3 DEF Work
<1>6. CASE UNCHANGED vars
  BY <1>6 DEF vars
<1>7. QED
  BY <1>1, <1>2, <1>3, <1>4, <1>5, <1>6 DEF Next

\* The event of a request moves from its handler to the channel, to one worker
\* and into the statistics, and is in one of these places at a time.
LEMMA ConservationStep ==
    ASSUME TypeOK, Lifecycle, EventsConserved, [Next]_vars
    PROVE  EventsConserved'
<1> USE NoneAssumption DEF TypeOK
<1>1. ASSUME UNCHANGED <<queue, worker, collected>>, Sent' = Sent
      PROVE  EventsConserved'
  <2>1. Buffered' = Buffered /\ Held' = Held
    BY <1>1 DEF Buffered, Held
  <2>2. collected' = collected
    BY <1>1
  <2> QED BY <1>1, <2>1, <2>2 DEF EventsConserved
<1>2. CASE UNCHANGED <<handler, queue, worker, collected>>
  BY <1>1, <1>2 DEF Sent
<1>3. ASSUME NEW r \in Request, Accept(r) \/ Solve(r) \/ Finish(r), ~ SendEvent(r)
      PROVE  EventsConserved'
  <2>1. UNCHANGED <<queue, worker, collected>>
    BY <1>3 DEF Accept, Solve, SolveInvalid, SolveValid, SolvePanics, Finish,
                SendPanics, LogEvent, Reply, statistics, collected
  <2>2. /\ \A q \in Request : q # r => handler'[q] = handler[q]
        /\ r \in Sent' <=> r \in Sent
    BY <1>3 DEF Accept, Solve, SolveInvalid, SolveValid, SolvePanics, Finish,
                SendPanics, LogEvent, Reply, Move, Sent
  <2>3. Sent' = Sent
    BY <2>2 DEF Sent
  <2>4. QED
    BY <1>1, <2>1, <2>3
<1>4. ASSUME NEW r \in Request, SendEvent(r)
      PROVE  EventsConserved'
  <2>1. /\ Sent' = Sent \cup {r}
        /\ r \notin Sent
        /\ UNCHANGED <<worker, collected>>
    BY <1>4 DEF SendEvent, Move, Sent, statistics, collected
  <2>2. /\ Len(queue') = Len(queue) + 1
        /\ queue'[Len(queue) + 1] = r
        /\ \A i \in 1 .. Len(queue) : queue'[i] = queue[i]
        /\ queue \in Seq(Request) /\ queue' \in Seq(Request)
    BY <1>4 DEF SendEvent, HasRoom
  <2>3. Buffered' = Buffered \cup {r}
    BY <2>2 DEF Buffered
  <2>4. Held' = Held
    BY <2>1 DEF Held
  <2>5. r \notin Buffered /\ r \notin Held /\ r \notin collected
    BY <2>1 DEF EventsConserved
  <2>6. ASSUME NEW i \in DOMAIN queue', NEW j \in DOMAIN queue',
               queue'[i] = queue'[j]
        PROVE  i = j
    <3>1. i \in 1 .. (Len(queue) + 1) /\ j \in 1 .. (Len(queue) + 1)
      BY <2>2
    <3>2. \A n \in 1 .. Len(queue) : queue[n] # r
      BY <2>2, <2>5 DEF Buffered
    <3>3. \A n, m \in 1 .. Len(queue) : queue[n] = queue[m] => n = m
      BY <2>2 DEF EventsConserved
    <3>4. QED
      BY <2>2, <2>6, <3>1, <3>2, <3>3
  <2>7. QED
    BY <2>1, <2>3, <2>4, <2>5, <2>6 DEF EventsConserved
<1>5. ASSUME NEW w \in Worker, Receive(w)
      PROVE  EventsConserved'
  <2> DEFINE r == Head(queue)
  <2>1. /\ worker' = [worker EXCEPT ![w] = Processing(r)]
        /\ worker[w].event = None
        /\ queue # <<>> /\ queue' = Tail(queue)
        /\ UNCHANGED <<handler, collected>>
    BY <1>5 DEF Receive, Receiving, statistics, collected
  <2>2. /\ Len(queue) > 0 /\ Len(queue') = Len(queue) - 1
        /\ r = queue[1] /\ r \in Request
        /\ \A i \in 1 .. Len(queue') : queue'[i] = queue[i + 1]
        /\ queue \in Seq(Request) /\ queue' \in Seq(Request)
    BY <2>1
  <2>0. DOMAIN queue = 1 .. Len(queue) /\ DOMAIN queue' = 1 .. Len(queue')
    BY <2>2
  <2>3. \A n, m \in 1 .. Len(queue) : queue[n] = queue[m] => n = m
    BY <2>0 DEF EventsConserved
  <2>4. r \in Buffered /\ r \notin Held /\ r \notin collected
    <3>1. r \in Buffered
      BY <2>2 DEF Buffered
    <3>2. QED
      BY <3>1 DEF EventsConserved
  <2>5. Buffered' = Buffered \ {r}
    <3>1. ASSUME NEW x \in Buffered'
          PROVE  x \in Buffered \ {r}
      <4>1. PICK i \in 1 .. Len(queue') : x = queue'[i]
        BY <2>2 DEF Buffered
      <4>2. x = queue[i + 1] /\ i + 1 \in 1 .. Len(queue) /\ i + 1 # 1
        BY <2>2, <4>1
      <4>3. x # r
        BY <2>2, <2>3, <4>2
      <4>4. QED
        BY <2>0, <4>2, <4>3 DEF Buffered
    <3>2. ASSUME NEW x \in Buffered, x # r
          PROVE  x \in Buffered'
      <4>1. PICK i \in 1 .. Len(queue) : x = queue[i]
        BY <2>2 DEF Buffered
      <4>2. i - 1 \in 1 .. Len(queue') /\ x = queue'[i - 1]
        BY <2>2, <3>2, <4>1
      <4>3. QED
        BY <2>2, <4>2 DEF Buffered
    <3>3. QED
      BY <3>1, <3>2
  <2>6. Held' = Held \cup {r}
    <3>1. /\ worker'[w].event = r
          /\ \A v \in Worker \ {w} : worker'[v] = worker[v]
      BY <2>1 DEF Processing
    <3>2. QED
      BY <2>1, <2>2, <3>1 DEF Held
  <2>7. ASSUME NEW v \in Worker, NEW u \in Worker,
               worker'[v].event = worker'[u].event, worker'[v].event # None
        PROVE  v = u
    <3>1. /\ worker'[w].event = r
          /\ \A x \in Worker \ {w} : worker'[x] = worker[x]
      BY <2>1 DEF Processing
    <3>2. \A x \in Worker : worker[x].event # r
      BY <2>2, <2>4 DEF Held
    <3>3. QED
      BY <2>7, <3>1, <3>2 DEF EventsConserved
  <2>8. ASSUME NEW i \in DOMAIN queue', NEW j \in DOMAIN queue',
               queue'[i] = queue'[j]
        PROVE  i = j
    <3>1. i \in 1 .. Len(queue') /\ j \in 1 .. Len(queue')
      BY <2>2
    <3>2. queue[i + 1] = queue[j + 1]
      BY <2>2, <2>8, <3>1
    <3>3. QED
      BY <2>2, <2>3, <3>1, <3>2
  <2>9. Sent' = Sent
    BY <2>1 DEF Sent
  <2>10. QED
    BY <2>1, <2>4, <2>5, <2>6, <2>7, <2>8, <2>9 DEF EventsConserved
<1>6. ASSUME NEW w \in Worker, Collect(w)
      PROVE  EventsConserved'
  <2> DEFINE r == worker[w].event
  <2>1. /\ worker' = [worker EXCEPT ![w] = Receiving]
        /\ r # None
        /\ collected' = collected \cup {r}
        /\ UNCHANGED <<handler, queue>>
    BY <1>6 DEF Collect, CollectPlanningAPIStats, collected
  <2>2. /\ worker'[w].event = None
        /\ \A v \in Worker \ {w} : worker'[v] = worker[v]
    BY <2>1 DEF Receiving
  <2>3. \A v \in Worker \ {w} : worker[v].event # r
    BY <2>1 DEF EventsConserved
  <2>4. Held' = Held \ {r}
    BY <2>1, <2>2, <2>3 DEF Held
  <2>5. r \in Held
    BY <2>1 DEF Held
  <2>6. Sent' = Sent /\ Buffered' = Buffered
    BY <2>1 DEF Sent, Buffered
  <2>7. \A v, u \in Worker :
           worker'[v].event = worker'[u].event /\ worker'[v].event # None => v = u
    BY <2>2 DEF EventsConserved
  <2>8. QED
    BY <2>1, <2>4, <2>5, <2>6, <2>7 DEF EventsConserved
<1>7. ASSUME NEW w \in Worker, Exit(w)
      PROVE  EventsConserved'
  <2>1. /\ worker[w].event = None /\ worker'[w].event = None
        /\ \A v \in Worker \ {w} : worker'[v] = worker[v]
        /\ UNCHANGED <<handler, queue, collected>>
    BY <1>7 DEF Exit, RangeEnds, Receiving, Exited, statistics, collected
  <2>2. \A v \in Worker : worker'[v].event = worker[v].event
    BY <2>1
  <2>3. Held' = Held
    <3>1. ASSUME NEW e \in Held'
          PROVE  e \in Held
      BY <2>2 DEF Held
    <3>2. ASSUME NEW e \in Held
          PROVE  e \in Held'
      BY <2>2 DEF Held
    <3>3. QED
      BY <3>1, <3>2
  <2>4. Sent' = Sent /\ Buffered' = Buffered
    BY <2>1 DEF Sent, Buffered
  <2>5. QED
    BY <2>1, <2>2, <2>3, <2>4 DEF EventsConserved
<1>8. CASE \/ Signal \/ Listen \/ StopServing \/ ReturnFromMain \/ Crash
           \/ UNCHANGED vars
  BY <1>2, <1>8 DEF Signal, Listen, CloseChannel, JoinWorkers, CloseServer,
                    Destroy, StopServing, ReturnFromMain, Crash, vars,
                    statistics, collected
<1>9. QED
  BY <1>3, <1>4, <1>5, <1>6, <1>7, <1>8 DEF Next, Work

\* Inv holds from the start and every step keeps it.
LEMMA InvInductive == SafeSpec => []Inv
<1>1. Init => Inv
  <2>1. Init => TypeOK
    BY CapacityAssumption DEF Init, TypeOK, Receiving
  <2>2. Init => Lifecycle
    BY DEF Init, Lifecycle, Receiving
  <2>3. Init => EventsConserved
    BY DEF Init, EventsConserved, Sent, Buffered, Held, Receiving, collected
  <2>4. QED
    BY <2>1, <2>2, <2>3 DEF Inv
<1>2. Inv /\ [Next]_vars => Inv'
  BY TypeStep, LifecycleStep, ConservationStep DEF Inv
<1>3. QED
  BY <1>1, <1>2, PTL DEF SafeSpec
-----------------------------------------------------------------------------
\* Types, and the bound on the channel, for every run of the server.
THEOREM TypeCorrect == SafeSpec => []TypeOK
BY InvInductive, PTL DEF Inv

\* No planning event is lost, duplicated or made up between its handler and
\* CollectPlanningAPIStats, for every number of workers and every capacity.
THEOREM Conservation == SafeSpec => []EventsConserved
BY InvInductive, PTL DEF Inv

LEMMA InvDrains == Inv => ShutdownDrains
<1> SUFFICES ASSUME Inv, listener \in {"joined", "closed", "destroyed"}
             PROVE  collected = Sent /\ \A w \in Worker : worker[w] = Exited
  BY DEF ShutdownDrains
<1>1. \A w \in Worker : worker[w].done /\ worker[w].event = None
  BY DEF Inv, Lifecycle
<1>2. \A w \in Worker : worker[w] = Exited
  BY <1>1 DEF Inv, TypeOK, Exited
<1>3. queue = <<>>
  BY <1>1, WorkerAssumption DEF Inv, Lifecycle
<1>4. Buffered = {} /\ Held = {}
  BY <1>1, <1>3 DEF Buffered, Held
<1>5. QED
  BY <1>2, <1>4 DEF Inv, EventsConserved

\* When listenForShutDownServer has joined the workers, every event that was
\* handed over has been collected.
THEOREM Drained == SafeSpec => []ShutdownDrains
BY InvInductive, InvDrains, PTL

\* No worker touches the Redis client that Destroy has closed.
THEOREM DestroyIsLast == SafeSpec => []WorkersBeforeDestroy
<1>1. Inv => WorkersBeforeDestroy
  <2> SUFFICES ASSUME Inv, ~ client
               PROVE  queue = <<>> /\ Held = {}
    BY DEF WorkersBeforeDestroy
  <2>1. \A w \in Worker : worker[w].done /\ worker[w].event = None
    BY DEF Inv, Lifecycle
  <2>2. QED
    BY <2>1, WorkerAssumption DEF Inv, Lifecycle, Held
<1>2. QED
  BY <1>1, InvInductive, PTL

-----------------------------------------------------------------------------
\* Handlers past PlanningEventLogging.
PastLogging == {r \in Request : handler[r] \in {"replying", "plans", "no_plan"}}

\* XADD was tried for these handlers, and for no others.
StreamInv == streamed \cup unlogged = PastLogging

\* LogEvent is the one way past the logging.
LEMMA StreamStep ==
    ASSUME TypeOK, StreamInv, [Next]_vars
    PROVE  StreamInv'
<1>1. ASSUME UNCHANGED stream, PastLogging' = PastLogging
      PROVE  StreamInv'
  BY <1>1 DEF StreamInv, stream
<1>2. ASSUME NEW r \in Request, Accept(r) \/ Solve(r) \/ Finish(r), ~ LogEvent(r)
      PROVE  StreamInv'
  <2>1. UNCHANGED stream
    BY <1>2 DEF Accept, Solve, SolveInvalid, SolveValid, SolvePanics, Finish,
                SendEvent, SendPanics, Reply
  <2>2. /\ \A q \in Request : q # r => handler'[q] = handler[q]
        /\ r \in PastLogging' <=> r \in PastLogging
    BY <1>2 DEF TypeOK, Accept, Solve, SolveInvalid, SolveValid, SolvePanics,
                Finish, SendEvent, SendPanics, Reply, Move, PastLogging
  <2>3. PastLogging' = PastLogging
    BY <2>2 DEF PastLogging
  <2>4. QED
    BY <1>1, <2>1, <2>3
<1>3. ASSUME NEW r \in Request, LogEvent(r)
      PROVE  StreamInv'
  <2>1. streamed' \cup unlogged' = streamed \cup unlogged \cup {r}
    BY <1>3 DEF LogEvent, StreamsLogging
  <2>2. PastLogging' = PastLogging \cup {r}
    BY <1>3 DEF TypeOK, LogEvent, Move, PastLogging
  <2>3. QED
    BY <2>1, <2>2 DEF StreamInv
<1>4. ASSUME UNCHANGED <<handler, stream>>
      PROVE  StreamInv'
  BY <1>1, <1>4 DEF PastLogging
<1>5. CASE \/ Signal \/ Listen \/ StopServing \/ ReturnFromMain \/ Crash
           \/ UNCHANGED vars
  BY <1>4, <1>5 DEF Signal, Listen, CloseChannel, JoinWorkers, CloseServer,
                    Destroy, StopServing, ReturnFromMain, Crash, vars
<1>6. ASSUME NEW w \in Worker, Work(w)
      PROVE  StreamInv'
  BY <1>4, <1>6 DEF Work, Receive, Collect, Exit
<1>7. QED
  BY <1>2, <1>3, <1>5, <1>6 DEF Next

\* Every answered valid request is in the stream or had its XADD fail, and what
\* is in the stream is counted, or its pipeline failed, or it is on its way
\* (PlanningEventLogging, StreamsLogging, CollectPlanningAPIStats).
THEOREM Logging == SafeSpec => []ValidRequestsLogged
<1>1. Init => StreamInv
  BY DEF Init, StreamInv, PastLogging
<1>2. Inv /\ StreamInv /\ [Next]_vars => StreamInv'
  BY StreamStep DEF Inv
<1>3. Inv /\ StreamInv => ValidRequestsLogged
  <2>1. PastLogging \subseteq Sent
    BY DEF PastLogging, Sent
  <2>2. QED
    BY <2>1 DEF Inv, EventsConserved, StreamInv, PastLogging, collected,
                ValidRequestsLogged
<1>4. QED
  BY <1>1, <1>2, <1>3, InvInductive, PTL DEF SafeSpec

\* Every step of the server is a step of EventDelivery or leaves its state
\* alone: the pipeline keeps its promise.
THEOREM Implements == SafeSpec => Delivery!SafeSpec
<1> DEFINE retired == listener \in {"joined", "closed", "destroyed"}
<1>0. Inv' => ShutdownDrains'
  BY InvDrains, PTL
<1>1. Init => Delivery!Init
  BY DEF Init, Delivery!Init, Sent, collected
<1>2. ASSUME Inv, Inv', [Next]_vars
      PROVE  [Delivery!Next]_Delivery!vars
  <2>1. ASSUME UNCHANGED <<handler, counted, uncounted, listener, running>>
        PROVE  UNCHANGED Delivery!vars
    BY <2>1 DEF Delivery!vars, Sent, collected
  <2>2. ASSUME NEW r \in Request, SendEvent(r)
        PROVE  Delivery!Offer(r)
    <3>1. Sent' = Sent \cup {r} /\ r \notin Sent
      BY <1>2, <2>2 DEF SendEvent, Move, Sent, Inv, TypeOK
    <3>2. ~ retired
      BY <1>2, <2>2 DEF SendEvent, Inv, Lifecycle
    <3>3. QED
      BY <2>2, <3>1, <3>2 DEF Delivery!Offer, SendEvent, Move, statistics, collected
  <2>3. ASSUME NEW r \in Request, Accept(r) \/ Solve(r) \/ Finish(r), ~ SendEvent(r)
        PROVE  UNCHANGED Delivery!vars
    <3>1. UNCHANGED <<collected, listener, running>>
      BY <2>3 DEF Accept, Solve, SolveInvalid, SolveValid, SolvePanics, Finish,
                  SendPanics, LogEvent, Reply, statistics, collected
    <3>2. /\ \A q \in Request : q # r => handler'[q] = handler[q]
          /\ r \in Sent' <=> r \in Sent
      BY <1>2, <2>3 DEF Accept, Solve, SolveInvalid, SolveValid, SolvePanics,
                        Finish, SendPanics, LogEvent, Reply, Move, Sent, Inv, TypeOK
    <3>3. Sent' = Sent
      BY <3>2 DEF Sent
    <3>4. QED
      BY <3>1, <3>3 DEF Delivery!vars
  <2>4. ASSUME NEW w \in Worker, running, Collect(w)
        PROVE  \E r \in Request : Delivery!Deliver(r)
    <3> DEFINE r == worker[w].event
    <3>1. /\ r \in Held /\ r \in Request
          /\ collected' = collected \cup {r}
          /\ UNCHANGED <<handler, listener, running>>
      BY <1>2, <2>4 DEF Collect, CollectPlanningAPIStats, collected, Held, Inv, TypeOK
    <3>2. r \in Sent \ collected
      BY <1>2, <3>1 DEF Inv, EventsConserved
    <3>3. Sent' = Sent
      BY <3>1 DEF Sent
    <3>4. QED
      BY <2>4, <3>1, <3>2, <3>3 DEF Delivery!Deliver
  <2>5. ASSUME NEW w \in Worker, Receive(w) \/ Exit(w)
        PROVE  UNCHANGED Delivery!vars
    BY <2>1, <2>5 DEF Receive, Exit, statistics
  <2>6. CASE running /\ JoinWorkers
    <3>1. /\ ~ retired /\ retired' /\ Sent' = Sent /\ collected' = collected
          /\ running /\ running' = running
      BY <2>6 DEF JoinWorkers, Sent, statistics, collected
    <3>2. collected' = Sent'
      BY <1>0, <1>2, <3>1 DEF ShutdownDrains
    <3>3. QED
      BY <3>1, <3>2 DEF Delivery!Next, Delivery!Retire
  <2>7. CASE Signal \/ CloseChannel \/ CloseServer \/ Destroy
    BY <2>7 DEF Signal, CloseChannel, CloseServer, Destroy, Delivery!vars, Sent,
                statistics, collected
  <2>8. CASE StopServing \/ UNCHANGED vars
    BY <2>1, <2>8 DEF StopServing, vars, statistics
  <2>9. CASE ReturnFromMain \/ Crash
    <3>1. /\ running /\ running' = FALSE
          /\ Sent' = Sent /\ UNCHANGED <<collected, listener>>
      BY <2>9 DEF ReturnFromMain, Crash, Sent, statistics, collected
    <3>2. QED
      BY <3>1 DEF Delivery!Next, Delivery!Stop
  <2>10. QED
    BY <1>2, <2>2, <2>3, <2>4, <2>5, <2>6, <2>7, <2>8, <2>9
       DEF Next, Listen, Work, Delivery!Next
<1>3. QED
  BY <1>1, <1>2, InvInductive, PTL DEF SafeSpec, Delivery!SafeSpec
=============================================================================
