------------------------- MODULE MultiDimIterator -------------------------
(***************************************************************************)
(* The odometer of solution/MDIter.go: a MultiDimIterator walks over the   *)
(* combinations that take one place for every slot of a travel plan.  Its  *)
(* Status is one index per slot, its Size the number of places of the      *)
(* category the slot asks for.  Slots are numbered from 1 here and indices *)
(* from 0, as in the code.                                                 *)
(***************************************************************************)
EXTENDS Integers, SequencesExt

\* The statuses an iterator over sizes `size` can take.
Combinations(size) ==
    {t \in [DOMAIN size -> UNION {0 .. (size[i] - 1) : i \in DOMAIN size}] :
        \A i \in DOMAIN size : t[i] < size[i]}

\* Init leaves every index at zero.
FirstStatus(size) == [i \in DOMAIN size |-> 0]

LastStatus(size) == [i \in DOMAIN size |-> size[i] - 1]

\* Faults of HasNext: every slot must have a next place; a bound off by one.
HasNextEverywhere(status, size) == \A i \in DOMAIN size : status[i] < size[i] - 1
HasNextTooLong(status, size) == \E i \in DOMAIN size : status[i] < size[i]

\* Some index is still below the last one of its slot.
HasNext(status, size) == \E i \in DOMAIN size : status[i] < size[i] - 1

\* The slots where plusOne stops carrying: increment them and return.
Incrementable(status, size) == {i \in DOMAIN size : status[i] + 1 # size[i]}

\* Fault of NextStatus: the slots passed by the carry keep their index.
NextStatusNoReset(status, size) ==
    IF Incrementable(status, size) = {}
    THEN FirstStatus(size)
    ELSE [status EXCEPT ![Max(Incrementable(status, size))] = @ + 1]

\* Next: plusOne from the last slot.  Slots the carry passes go back to
\* zero, and all of them do when no slot can be incremented.
NextStatus(status, size) ==
    IF Incrementable(status, size) = {}
    THEN FirstStatus(size)
    ELSE LET p == Max(Incrementable(status, size)) \* where the carry ends
         IN  [i \in DOMAIN size |-> CASE i < p -> status[i]
                                      [] i = p -> status[i] + 1
                                      [] i > p -> 0]

\* The order in which the odometer meets the combinations: the first slot
\* is the most significant.
Before(s, t) ==
    \E p \in DOMAIN s : /\ s[p] < t[p]
                        /\ \A q \in 1 .. (p - 1) : s[q] = t[q]
============================================================================
