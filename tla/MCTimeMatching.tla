-------------------------- MODULE MCTimeMatching --------------------------
(***************************************************************************)
(* A planning request with the first slots of GetStandardRequest, a nearby *)
(* search (one slot) and a planning request for another city and day.      *)
(***************************************************************************)
EXTENDS TimeMatching

Slot(s, e) == [start |-> s, end |-> e]
MCSlots == [plan   |-> <<Slot(10, 12), Slot(12, 13)>>,
            nearby |-> <<Slot(8, 21)>>,
            later  |-> <<Slot(10, 12)>>]
MCDay == [plan |-> "sat", nearby |-> "sat", later |-> "sun"]

\* "8:00 AM - 10:00 PM", "9:00 AM - 12:00 AM", "5:00 - 9:30 PM".
Text(hours, halves) == [closed |-> FALSE, hours |-> hours, halves |-> halves]
ClosedText == [closed |-> TRUE]

MCHours ==
    [e |-> [sat |-> Text(<<8, 10>>, <<"AM", "PM">>), sun |-> Text(<<8, 12>>, <<"AM", "PM">>)],
     v |-> [sat |-> Text(<<9, 12>>, <<"AM", "AM">>), sun |-> Text(<<5, 9>>, <<"PM">>)],
     w |-> [sat |-> ClosedText, sun |-> Text(<<5, 1>>, <<"PM", "AM">>)]]

PlanRequests == {"plan", "nearby"}
ThreeRequests == {"plan", "nearby", "later"}

\* A search that fails returns no place.
MCSearch ==
    [plan   |-> [eatery |-> {<<"e">>}, visit |-> {<<"v">>}],
     nearby |-> [eatery |-> {<<"e">>}, visit |-> {<<"w">>}],
     later  |-> [eatery |-> {<<"e">>, <<>>}, visit |-> {<<"v", "w">>}]]
============================================================================
