---------------------------- MODULE MCGeocoding ----------------------------
(***************************************************************************)
(* Two countries; "frisco" is short for San Francisco in one of them.      *)
(***************************************************************************)
EXTENDS Geocoding

MCCity == {"frisco", "san francisco"}
MCCountry == {"us", "ar"}
MCKnown == (MCCity \X MCCountry) \ {<<"frisco", "ar">>}
MCCorrected == [names \in MCKnown |-> "san francisco"]
============================================================================
