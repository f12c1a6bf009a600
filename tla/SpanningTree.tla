---------------------------- MODULE SpanningTree ----------------------------
(***************************************************************************)
(* MinSpanningTree.Construct (graph/minspanningtree.go), Prim's algorithm, *)
(* over the graphs of GenerateGraph (graph/build_graph.go).  The queue has *)
(* copies of vertices, so a vertex whose key is lowered is in it again.    *)
(* One step is an extraction or one iteration of the inner loop.           *)
(***************************************************************************)
EXTENDS MinPriorityQueue

CONSTANTS
    Nodes,      \* the names of the vertices, in order
    Weights     \* bound: the distances there may be

NoParent == ""

\* "assume that vertex names are distinct", "should not be an empty string".
ASSUME NodesAssumption ==
    Nodes \in Seq(STRING) \ {<<>>} /\ IsInjective(Nodes) /\ NoParent \notin ToSet(Nodes)
ASSUME WeightsAssumption ==
    Weights \in SUBSET Nat /\ Weights # {} /\ IsFiniteSet(Weights)

N == Len(Nodes)
Vertex == ToSet(Nodes)
Index(v) == CHOOSE i \in 1 .. N : Nodes[i] = v

VARIABLES
    limit,      \* limitedConnectivity
    dist,       \* distances between vertices
    root,       \* the root of the tree
    key,        \* Key of each vertex
    parent,     \* Parent of each vertex
    added,      \* addedNodes
    current,    \* curNode
    todo,       \* its neighbors that are still to be looked at
    heap        \* the priority queue

treeVars == <<limit, dist, root, key, parent, added, current, todo, heap>>

\* math.Inf(1)
Infinity == Max(Weights) + 1

\* generateEdges connects every vertex with the next ones.
MaxDegree == IF limit THEN N \div 2 ELSE N

Neighbors(v) ==
    {w \in Vertex \ {v} :
        Index(w) - Index(v) \in (0 - MaxDegree) .. MaxDegree}

\* connect appends to Neighbors in the order of the nodes.
NextOf(S) == CHOOSE v \in S : \A w \in S : Index(v) <= Index(w)

Node(v, k) == [name |-> v, key |-> k]

\* Fault of StartKey: the root is like any other vertex.
StartKeyOfAny(v) == Infinity

StartKey(v) == IF v = root THEN 0 ELSE Infinity

TreeInit ==
    /\ limit \in BOOLEAN
    /\ dist \in [kSubset(2, Vertex) -> Weights]
    /\ root \in Vertex
    /\ key = [v \in Vertex |-> StartKey(v)]
    /\ parent = [v \in Vertex |-> NoParent]
    /\ added = {}
    /\ current = NoParent
    /\ todo = {}
    /\ heap = Insert(<<>>, Node(root, key[root]))

\* Fault of Cost: the distance from the root, as for shortest paths.
CostFromRoot(v, w) == key[v] + dist[{v, w}]

Cost(v, w) == dist[{v, w}]

\* The vertex at the top of the queue joins the tree; its neighbors that have
\* not are looked at next.
ExtractVertex ==
    /\ todo = {}
    /\ Cardinality(added) < N
    /\ heap # <<>>
    /\ current' = Top(heap)
    /\ heap' = Rest(heap)
    /\ added' = added \cup {current'}
    /\ todo' = Neighbors(current') \ added'
    /\ UNCHANGED <<limit, dist, root, key, parent>>

\* Fault of Nearer: the key of a vertex is never lowered.
NearerFirst(w) == key[w] = Infinity

Nearer(w) == Cost(current, w) < key[w]

\* A neighbor that is nearer than known so far is inserted once more.
Update ==
    /\ todo # {}
    /\ LET w == NextOf(todo)
       IN  /\ Nearer(w)
           /\ key' = [key EXCEPT ![w] = Cost(current, w)]
           /\ parent' = [parent EXCEPT ![w] = current]
           /\ heap' = Insert(heap, Node(w, key'[w]))
    /\ todo' = todo \ {NextOf(todo)}
    /\ UNCHANGED <<limit, dist, root, added, current>>

Skip ==
    /\ todo # {}
    /\ ~ Nearer(NextOf(todo))
    /\ todo' = todo \ {NextOf(todo)}
    /\ UNCHANGED <<limit, dist, root, key, parent, added, current, heap>>

TreeNext == ExtractVertex \/ Update \/ Skip

\* One sequential computation.
TreeSpec == TreeInit /\ [][TreeNext]_treeVars /\ WF_treeVars(TreeNext)

\* findChildren
Children(v) == {w \in Vertex : parent[w] = v}

\* The vertices that dfs visits: each with its children.
Visited(v) ==
    {w \in Vertex : \A S \in SUBSET Vertex :
        v \in S /\ (\A x \in S : Children(x) \subseteq S) => w \in S}
-----------------------------------------------------------------------------
Done == added = Vertex /\ todo = {}

TreeTypeOK ==
    /\ key \in [Vertex -> Weights \cup {0, Infinity}]
    /\ key[root] = 0
    /\ parent \in [Vertex -> Vertex \cup {NoParent}]
    /\ added \subseteq Vertex
    /\ current \in Vertex \cup {NoParent}
    /\ todo \subseteq Vertex
    /\ heap \in Seq([name : Vertex, key : 0 .. Infinity])

\* Whatever is inserted and extracted, the queue is a heap, so ExtractTop
\* returns "node with minimum Key".
QueueIsHeap == IsHeap(heap)

\* The frontier of Prim's algorithm: when the inner loop is over, the key of a
\* vertex that is still to be added is its distance from the tree, and the
\* queue has it with that key among older copies.  While vertices are to be
\* added the queue is not empty, so no iteration extracts the empty name.
FrontierQueued ==
    todo = {} => \A w \in Vertex \ (added \cup {root}) :
        LET near == {v \in added : w \in Neighbors(v)}
        IN  /\ key[w] = Min({dist[{v, w}] : v \in near} \cup {Infinity})
            /\ near # {} => Node(w, key[w]) \in ToSet(heap)

Edges == {e \in kSubset(2, Vertex) : \E v, w \in e : w \in Neighbors(v)}

Crosses(e, S) == e \cap S # {} /\ e \ S # {}

Spans(tree) ==
    \A S \in (SUBSET Vertex) \ {{}, Vertex} : \E e \in tree : Crosses(e, S)

\* The sum of the distances: as many elements as an edge is long, for each.
Weight(tree) == Cardinality(UNION {{e} \X (1 .. dist[e]) : e \in tree})

\* "Output: minimum spanning tree": the parents lead from the root to every
\* vertex, so the traversal visits each of them, and no set of edges that
\* weighs less connects the graph.
MinimumTree ==
    Done =>
        /\ parent[root] = NoParent
        /\ Visited(root) = Vertex
        /\ LET weight == Weight({{v, parent[v]} : v \in Vertex \ {root}})
           IN  \A tree \in kSubset(N - 1, Edges) :
                  Weight(tree) < weight => ~ Spans(tree)

\* The loop ends although older copies of a vertex are extracted too.
ConstructEnds == <>Done
=============================================================================
