--------------------------- MODULE TimeIntervals ---------------------------
(***************************************************************************)
(* GoogleMapsTimeIntervals of POI/time_intervals.go: a list of intervals   *)
(* kept sorted by inserting one at a time, next to a count of its own.     *)
(***************************************************************************)
EXTENDS Integers, SequencesExt

Interval(hours) == {iv \in [start : hours, end : hours] : iv.start < iv.end}

\* Intersect.
Intersect(a, b) == ~ (a.end <= b.start \/ a.start >= b.end)

\* Inclusive: the opening interval includes the slot.
Includes(opening, slot) ==
    slot.start >= opening.start /\ slot.end <= opening.end

\* calculateHour: the hours of the afternoon are 12 later, those from 12:00 as
\* well, and minutes do not count. A half of the day in upper or in lower case is
\* "AM" or "PM"; anything else, as in "Pm", has no hour.
CalculateHour(hour, half) ==
    CASE half = "AM" -> hour
      [] half = "PM" -> hour + 12
      [] OTHER -> 255

\* ParseTimeInterval of a text that says Closed, or else has some hours and
\* some halves of the day ("5:00 - 9:30 PM" has one half); <<>> is an error.
\* Late night hours end at 24.
Closed == [start |-> 255, end |-> 255]

ParseTimeInterval(text) ==
    IF text.closed THEN Closed
    ELSE IF Len(text.hours) < 2 \/ Len(text.halves) < 2 THEN <<>>
    ELSE LET start == CalculateHour(text.hours[1], text.halves[1])
             end == CalculateHour(text.hours[2], text.halves[2])
         IN  [start |-> start, end |-> IF start > end THEN 24 ELSE end]

NoIntervals == [list |-> <<>>, num |-> 0]

\* Intervals the new one ends before.
Following(ti, iv) == {i \in DOMAIN ti.list : ti.list[i].start >= iv.end}

\* The loop of InsertTimeInterval puts the new interval before the first of
\* them, if there is any.
Shifted(ti, iv) ==
    IF Following(ti, iv) = {}
    THEN ti.list
    ELSE InsertAt(ti.list, Min(Following(ti, iv)), iv)

\* The count has run ahead of the list: the index after the loop is out of
\* range.
InsertPanics(ti, iv) == ti.num > Len(Shifted(ti, iv))

\* InsertTimeInterval: an interval that starts after the counted last one is
\* appended, and the count grows in any case.
InsertTimeInterval(ti, iv) ==
    IF ti.num = 0
    THEN [list |-> Append(ti.list, iv), num |-> 1]
    ELSE [list |-> IF iv.start >= Shifted(ti, iv)[ti.num].end
                   THEN Append(Shifted(ti, iv), iv)
                   ELSE Shifted(ti, iv),
          num |-> ti.num + 1]

\* ByStartTime, for intervals that do not overlap.
SortedByStart(list) ==
    \A i, j \in DOMAIN list : i < j => list[i].start < list[j].start
============================================================================
