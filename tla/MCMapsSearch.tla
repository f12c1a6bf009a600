--------------------------- MODULE MCMapsSearch ---------------------------
(***************************************************************************)
(* The eatery category: its two types, pages of up to two results over     *)
(* three places.                                                           *)
(***************************************************************************)
EXTENDS MapsSearch

MCPlaceTypes == <<"cafe", "restaurant">>

Bare(id) == [id |-> id, hours |-> FALSE]
Full(id) == [id |-> id, hours |-> TRUE]

\* As Maps answers today: no result has opening hours.
BarePages == {<<>>, <<Bare("p")>>, <<Bare("p"), Bare("q")>>,
              <<Bare("r"), Bare("r")>>}
\* Some have.
MixedPages == {<<Bare("p"), Full("q")>>, <<Full("p"), Bare("q")>>}
AllPages == BarePages \cup MixedPages

WithId == {TRUE}
WithAndWithout == {TRUE, FALSE}
============================================================================
