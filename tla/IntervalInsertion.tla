------------------------- MODULE IntervalInsertion -------------------------
(***************************************************************************)
(* GoogleMapsTimeIntervals as its one caller, TimeClustersManager.Init,    *)
(* uses it: intervals are inserted one after the other, in any order, into *)
(* a list that is never cleared.  What the code assumes of its input is    *)
(* the guard: "assume input having non-overlapping time intervals".        *)
(***************************************************************************)
EXTENDS TimeIntervals

CONSTANT Hour       \* the hours intervals are made of

VARIABLES
    ti,         \* the GoogleMapsTimeIntervals
    inserted    \* history: the intervals that have been inserted

insertionVars == <<ti, inserted>>

InsertionInit ==
    /\ ti = NoIntervals
    /\ inserted = {}

Insert(iv) ==
    /\ \A old \in inserted : ~ Intersect(old, iv)
    /\ ti' = InsertTimeInterval(ti, iv)
    /\ inserted' = inserted \cup {iv}

InsertionNext == \E iv \in Interval(Hour) : Insert(iv)

InsertionSpec == InsertionInit /\ [][InsertionNext]_insertionVars
-----------------------------------------------------------------------------
InsertionTypeOK ==
    /\ ti.list \in Seq(Interval(Hour))
    /\ ti.num \in 0 .. Len(ti.list)
    /\ inserted \subseteq Interval(Hour)

\* "maintain intervals sorted": whatever the order of the calls, the list
\* holds every interval once, by start time, and the separate count, which the
\* next call indexes the list with, agrees with it.
SortedAndComplete ==
    /\ SortedByStart(ti.list)
    /\ ToSet(ti.list) = inserted
    /\ ti.num = Len(ti.list)
============================================================================
