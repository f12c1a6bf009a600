--------------------------- MODULE MCSpanningTree ---------------------------
(***************************************************************************)
(* Five places: complete graphs, and with limited connectivity the graphs  *)
(* in which places more than two apart are not connected.                  *)
(***************************************************************************)
EXTENDS SpanningTree

MCNodes == <<"a", "b", "c", "d", "e">>
MCWeights == 1 .. 2
=============================================================================
