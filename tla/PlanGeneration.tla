-------------------------- MODULE PlanGeneration --------------------------
(***************************************************************************)
(* GenerateSolutions (solution/generate_planning_solutions.go) after the   *)
(* time matcher has returned: walk the combinations of places, build a     *)
(* candidate from each, drop the candidates that are permutations of an    *)
(* earlier one and keep the best NumPlans in a bounded priority queue.     *)
(***************************************************************************)
EXTENDS MultiDimIterator

CONSTANTS
    Place,          \* places a search may return
    SlotCategories, \* the category each slot of the request asks for
    Clusters,       \* what the time matcher may return: one record per slot
    NumPlans,       \* requested numbers of plans
    Score(_)        \* score of a plan: of its places in the order of their slots

TopSolutionsCountDefault == 5
Category == {"eatery", "visit"}

ASSUME SlotAssumption ==
    SlotCategories \in Seq(Category) /\ SlotCategories # <<>>
ASSUME ClusterAssumption ==
    \A c \in Clusters : c \in Seq([Category -> Seq(Place)])
ASSUME NumPlansAssumption == NumPlans \subseteq Int

Slots == DOMAIN SlotCategories

ASSUME ScoreAssumption == \A plan \in [Slots -> Place] : Score(plan) \in Int

VARIABLES
    pc,         \* where GenerateSolutions is
    clusters,   \* the categorized places of each slot
    k,          \* topSolutionsCount
    status,     \* Status of the iterator
    considered, \* history: the combinations already turned into candidates
    plans,      \* the candidates that are set, then those not duplicated
    next,       \* index of the next plan to offer to the queue
    queue,      \* indices of the plans in the bounded priority queue
    answer      \* the plans returned, in order

vars == <<pc, clusters, k, status, considered, plans, next, queue, answer>>

\* Size: number of places of the category each slot asks for.
Size == [i \in Slots |-> Len(clusters[i][SlotCategories[i]])]

\* The places a combination selects, one per slot.
Selected(t) == [i \in Slots |-> clusters[i][SlotCategories[i]][t[i] + 1]]

\* CreateCandidate returns an incomplete result when a place repeats.
IsSet(t) == IsInjective(Selected(t))

\* TravelPlansDeduplication: the first plan of every set of places stays.
IsFirst(i) == \A j \in 1 .. (i - 1) : ToSet(plans[j]) # ToSet(plans[i])

Staying == {i \in DOMAIN plans : IsFirst(i)}

Nth(S, n) == CHOOSE i \in S : Cardinality({j \in S : j <= i}) = n

Deduplicated == [n \in 1 .. Cardinality(Staying) |-> plans[Nth(Staying, n)]]

PlanScore(i) == Score(plans[i])

\* Plans at the top of the queue: equal scores may come out in any order.
Minima == {i \in queue : \A j \in queue : PlanScore(i) <= PlanScore(j)}

Init ==
    /\ pc = "init"
    /\ clusters \in Clusters
    /\ k \in NumPlans
    /\ status = <<>>
    /\ considered = {}
    /\ plans = <<>>
    /\ next = 1
    /\ queue = {}
    /\ answer = <<>>

\* MultiDimIterator.Init: one cluster per slot, none without places.
InitIterator ==
    /\ pc = "init"
    /\ Len(clusters) = Len(SlotCategories)
    /\ \A i \in Slots : Size[i] > 0
    /\ status' = FirstStatus(Size)
    /\ pc' = "iterate"
    /\ UNCHANGED <<clusters, k, considered, plans, next, queue, answer>>

InitIteratorFails ==
    /\ pc = "init"
    /\ Len(clusters) = Len(SlotCategories) => \E i \in Slots : Size[i] = 0
    /\ pc' = "failed"
    /\ UNCHANGED <<clusters, k, status, considered, plans, next, queue, answer>>

\* One turn of the loop: CreateCandidate, append when set, Next.
Consider ==
    /\ pc = "iterate"
    /\ HasNext(status, Size)
    /\ plans' = IF IsSet(status) THEN Append(plans, Selected(status)) ELSE plans
    /\ considered' = considered \cup {status}
    /\ status' = NextStatus(status, Size)
    /\ UNCHANGED <<pc, clusters, k, next, queue, answer>>

\* The loop is over: deduplicate and enter FindBestPlanningSolutions.
Deduplicate ==
    /\ pc = "iterate"
    /\ ~ HasNext(status, Size)
    /\ plans' = Deduplicated
    /\ k' = IF k <= 0 THEN TopSolutionsCountDefault ELSE k
    /\ pc' = "offer"
    /\ UNCHANGED <<clusters, status, considered, next, queue, answer>>

\* Fault of QueueFull: the limit is passed by one.
QueueOverfull == Cardinality(queue) = k + 1

\* priorityQueue.Len() == topSolutionsCount
QueueFull == Cardinality(queue) = k

\* Fault of Better: the comparison is reversed.
Worse(top) == PlanScore(next) < PlanScore(top)

\* The plan offered scores higher than a plan at the top of the queue.
Better(top) == PlanScore(next) > PlanScore(top)

Offering == pc = "offer" /\ next <= Len(plans)

OfferPush ==
    /\ Offering
    /\ ~ QueueFull
    /\ queue' = queue \cup {next}
    /\ next' = next + 1
    /\ UNCHANGED <<pc, clusters, k, status, considered, plans, answer>>

\* The queue is full: a better plan takes the place of the worst one.
OfferReplace ==
    /\ Offering
    /\ QueueFull
    /\ \E top \in Minima :
        /\ Better(top)
        /\ queue' = (queue \ {top}) \cup {next}
    /\ next' = next + 1
    /\ UNCHANGED <<pc, clusters, k, status, considered, plans, answer>>

OfferSkip ==
    /\ Offering
    /\ QueueFull
    /\ \A top \in Minima : ~ Better(top)
    /\ next' = next + 1
    /\ UNCHANGED <<pc, clusters, k, status, considered, plans, queue, answer>>

\* Empty the queue into the result, worst plan first.
Extract ==
    /\ pc = "offer"
    /\ next > Len(plans)
    /\ \E top \in Minima :
        /\ answer' = Append(answer, plans[top])
        /\ queue' = queue \ {top}
    /\ UNCHANGED <<pc, clusters, k, status, considered, plans, next>>

Return ==
    /\ pc = "offer"
    /\ next > Len(plans)
    /\ queue = {}
    /\ pc' = "done"
    /\ UNCHANGED <<clusters, k, status, considered, plans, next, queue, answer>>

Next ==
    \/ InitIterator
    \/ InitIteratorFails
    \/ Consider
    \/ Deduplicate
    \/ OfferPush
    \/ OfferReplace
    \/ OfferSkip
    \/ Extract
    \/ Return

\* GenerateSolutions is one goroutine without a wait: it keeps running.
Spec == Init /\ [][Next]_vars /\ WF_vars(Next)
-----------------------------------------------------------------------------
\* The iterator stays inside the combinations, the queue within its limit and
\* among the plans offered so far.
TypeOK ==
    /\ pc \in {"init", "iterate", "offer", "done", "failed"}
    /\ clusters \in Clusters
    /\ k \in Int
    /\ pc \notin {"init", "failed"} =>
          /\ Len(clusters) = Len(SlotCategories)
          /\ \A i \in Slots : Size[i] > 0
          /\ status \in Combinations(Size)
          /\ considered \subseteq Combinations(Size)
    /\ plans \in Seq([Slots -> Place])
    /\ next \in 1 .. (Len(plans) + 1)
    /\ queue \in SUBSET (1 .. (next - 1))
    /\ pc \in {"offer", "done"} => k > 0 /\ Cardinality(queue) <= k
    /\ answer \in Seq([Slots -> Place])

\* The loop of GenerateSolutions meets the combinations in order and without
\* a gap: what it has turned into candidates is what comes before Status.
IteratorInOrder ==
    pc = "iterate" => considered = {t \in Combinations(Size) : Before(t, status)}

\* When the loop ends, every combination of places but the last one has been
\* a candidate, so a plan is only missed at that one combination.
AllButLastConsidered ==
    pc \in {"offer", "done"} =>
        considered = Combinations(Size) \ {LastStatus(Size)}

Candidates == {t \in considered : IsSet(t)}

\* Of each set of places, the order in which the odometer meets it first: the
\* one that TravelPlansDeduplication keeps, whatever the others score.
FirstPlans ==
    {Selected(t) : t \in {c \in Candidates : \A d \in Candidates :
        ToSet(Selected(d)) = ToSet(Selected(c)) => ~ Before(d, c)}}

\* FindBestPlanningSolutions returns the best plans: as many as asked for or
\* as there are sets of places, worst first, each in the order of places met
\* first, and none of the others of these scores higher than one returned.
BestPlansReturned ==
    pc = "done" =>
        LET kept == ToSet(answer)
        IN  /\ Len(answer) = Min({k, Cardinality(FirstPlans)})
            /\ Cardinality(kept) = Len(answer)
            /\ kept \subseteq FirstPlans
            /\ \A p \in FirstPlans \ kept, q \in kept : Score(p) <= Score(q)
            /\ \A i, j \in DOMAIN answer : i < j => Score(answer[i]) <= Score(answer[j])

\* Plan generation always ends.
Terminates == <>(pc \in {"done", "failed"})
=============================================================================
