-------------------------- MODULE MinPriorityQueue --------------------------
(***************************************************************************)
(* MinPriorityQueue of graph/priorityqueue.go: a binary heap of vertices,  *)
(* each a record with a key and a name, in a sequence that starts with the *)
(* root.                                                                   *)
(***************************************************************************)
EXTENDS Integers, FiniteSetsExt, SequencesExt

Swap(h, x, y) == [h EXCEPT ![x] = h[y], ![y] = h[x]]

\* findParent
FindParent(i) == i \div 2

\* What a percolation goes through, which only moves the vertices of a heap,
\* and the index it is at: the root even of an empty heap.
Percolation(h) == [DOMAIN h -> ToSet(h)] \X (DOMAIN h \cup {1})

PercolateUp(h, i) ==
    LET up[s \in Percolation(h)] ==
            LET g == s[1]
                x == s[2]
            IN  IF x = 1 \/ g[FindParent(x)].key <= g[x].key
                THEN g
                ELSE up[<<Swap(g, FindParent(x), x), FindParent(x)>>]
    IN  up[<<h, i>>]

Insert(h, n) == PercolateUp(Append(h, n), Len(h) + 1)

\* Children that are not greater than their parent.
Lesser(h, i) ==
    {c \in {2 * i, 2 * i + 1} : c <= Len(h) /\ h[c].key <= h[i].key}

\* Fault of FindChild: the left child whenever it is not greater.
FindLeftChild(h, i) == Min(Lesser(h, i))

\* findIndexLargestChild, which finds the lesser of two, and the right of two
\* equal ones.
FindChild(h, i) ==
    IF Cardinality(Lesser(h, i)) = 2 /\ h[2 * i].key >= h[2 * i + 1].key
    THEN 2 * i + 1
    ELSE Min(Lesser(h, i))

PercolateDown(h, i) ==
    LET down[s \in Percolation(h)] ==
            LET g == s[1]
                x == s[2]
            IN  IF Lesser(g, x) = {}
                THEN g
                ELSE down[<<Swap(g, x, FindChild(g, x)), FindChild(g, x)>>]
    IN  down[<<h, i>>]

\* ExtractTop returns the name of the root, ...
Top(h) == h[1].name

\* Fault of Rest: the root stays.
RestWithTop(h) == h

\* ... and leaves the rest, with the last node in place of the root.
Rest(h) ==
    PercolateDown(SubSeq([h EXCEPT ![1] = h[Len(h)]], 1, Len(h) - 1), 1)

IsHeap(h) == \A i \in 2 .. Len(h) : h[FindParent(i)].key <= h[i].key
=============================================================================
