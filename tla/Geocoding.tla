----------------------------- MODULE Geocoding -----------------------------
(***************************************************************************)
(* PoiSearcher.GetGeocode (iowrappers/poi_searcher.go) over the geocode    *)
(* cache of RedisClient (iowrappers/redis_client.go): two Redis hashes of  *)
(* aliases, one for city names and one for country names, and one of       *)
(* locations by corrected names.  Each step is one Redis or Maps command;  *)
(* the calls of concurrent handlers interleave, and Redis may fail any     *)
(* command.  A process that stops between two commands is a call that      *)
(* takes no further step.                                                  *)
(***************************************************************************)
EXTENDS Naturals

CONSTANTS
    Call,       \* calls of GetGeocode
    City,       \* city names, as typed or as corrected
    Country,    \* country names
    Known,      \* the names Google Maps resolves: pairs of city and country
    Corrected   \* the city name Maps answers for each of them

ASSUME KnownAssumption == Known \subseteq City \X Country
ASSUME CorrectedAssumption == Corrected \in [Known -> City]

VARIABLES
    pc,             \* the step each call is at
    original,       \* the names it was asked for
    query,          \* the names it works with, corrected on the way
    alias,          \* resCity, with the country it is still to replace
    answer,         \* the location it returns
    cityAlias,      \* Redis: location_name_alias_mapping:city_names
    countryAlias,   \* Redis: location_name_alias_mapping:country_names
    geocode,        \* Redis: geocode:cities
    stored          \* history: names stored with no failed command

locals == <<original, query, alias, answer>>
redis == <<cityAlias, countryAlias, geocode>>
vars == <<pc, locals, redis, stored>>

\* A location is what Maps identifies by the corrected names.
Location(names) == <<Corrected[names], names[2]>>

None == <<>>
EmptyHash == [field \in {} |-> None]

Set(hash, field, value) ==
    [f \in DOMAIN hash \cup {field} |-> IF f = field THEN value ELSE hash[f]]

Init ==
    /\ pc = [c \in Call |-> "idle"]
    /\ original = [c \in Call |-> None]
    /\ query = [c \in Call |-> None]
    /\ alias = [c \in Call |-> None]
    /\ answer = [c \in Call |-> None]
    /\ cityAlias = EmptyHash
    /\ countryAlias = EmptyHash
    /\ geocode = EmptyHash
    /\ stored = {}

Move(c, from, to) == pc[c] = from /\ pc' = [pc EXCEPT ![c] = to]

Start(c) ==
    /\ Move(c, "idle", "city")
    /\ \E names \in City \X Country :
        /\ original' = [original EXCEPT ![c] = names]
        /\ query' = [query EXCEPT ![c] = names]
    /\ UNCHANGED <<alias, answer, redis, stored>>

\* GetLocationWithAlias: HGET of the city alias.
FindCity(c) ==
    /\ Move(c, "city", "country")
    /\ query[c][1] \in DOMAIN cityAlias
    /\ alias' = [alias EXCEPT ![c] = <<cityAlias[query[c][1]], query[c][2]>>]
    /\ UNCHANGED <<original, query, answer, redis, stored>>

\* GetLocationWithAlias: HGET of the country alias; both names are replaced.
FindCountry(c) ==
    /\ Move(c, "country", "geocode")
    /\ query[c][2] \in DOMAIN countryAlias
    /\ query' = [query EXCEPT ![c] = <<alias[c][1], countryAlias[@[2]]>>]
    /\ alias' = [alias EXCEPT ![c] = None]
    /\ UNCHANGED <<original, answer, redis, stored>>

\* Fault of Field: locations by city name only.
FieldOfCity(names) == <<names[1], CHOOSE k \in Country : TRUE>>

\* The field of the geocode hash.
Field(names) == names

\* RedisClient.GetGeocode: HGET of the location.
FindGeocode(c) ==
    /\ Move(c, "geocode", "done")
    /\ Field(query[c]) \in DOMAIN geocode
    /\ answer' = [answer EXCEPT ![c] = geocode[Field(query[c])]]
    /\ UNCHANGED <<original, query, alias, redis, stored>>

\* A field is missing, or Redis fails: Maps is asked, for what query is now.
Miss(c) ==
    /\ pc[c] \in {"city", "country", "geocode"}
    /\ pc' = [pc EXCEPT ![c] = "maps"]
    /\ alias' = [alias EXCEPT ![c] = None]
    /\ UNCHANGED <<original, query, answer, redis, stored>>

\* MapsClient.GetGeocode, which corrects the city name and no other.
AskMaps(c) ==
    /\ Move(c, "maps", "set geocode")
    /\ query[c] \in Known
    /\ answer' = [answer EXCEPT ![c] = Location(query[c])]
    /\ query' = [query EXCEPT ![c] = Location(query[c])]
    /\ UNCHANGED <<original, alias, redis, stored>>

\* Fault of MapsFails: the error of Maps is not looked at.
MapsErrorIgnored(c) ==
    /\ Move(c, "maps", "done")
    /\ UNCHANGED <<locals, redis, stored>>

\* Maps fails, or does not know the names.
MapsFails(c) ==
    /\ Move(c, "maps", "failed")
    /\ UNCHANGED <<locals, redis, stored>>

\* SetGeocode: HSET of the location; a failure is logged.
SetGeocode(c) ==
    /\ Move(c, "set geocode", "set city")
    /\ geocode' = Set(geocode, Field(query[c]), answer[c])
    /\ UNCHANGED <<locals, cityAlias, countryAlias, stored>>

GeocodeNotSet(c) ==
    /\ Move(c, "set geocode", "set city without geocode")
    /\ UNCHANGED <<locals, redis, stored>>

\* Fault of CityAliasOf: the corrected name becomes the alias of itself only.
CityAliasOfCorrected(c) == query[c][1]

\* The name the correction is stored for.
CityAliasOf(c) == original[c][1]

\* CacheLocationAlias: HSET of the city alias.
SetCityAlias(c) ==
    /\ \/ Move(c, "set city", "set country")
       \/ Move(c, "set city without geocode", "set country without geocode")
    /\ cityAlias' = Set(cityAlias, CityAliasOf(c), query[c][1])
    /\ UNCHANGED <<locals, countryAlias, geocode, stored>>

\* CacheLocationAlias: HSET of the country alias.
SetCountryAlias(c) ==
    /\ \/ Move(c, "set country", "done") /\ stored' = stored \cup {original[c]}
       \/ Move(c, "set country without geocode", "done") /\ UNCHANGED stored
    /\ countryAlias' = Set(countryAlias, original[c][2], query[c][2])
    /\ UNCHANGED <<locals, cityAlias, geocode>>

\* HSET of an alias fails: CacheLocationAlias returns, and the error is logged.
AliasNotSet(c) ==
    /\ pc[c] \in {"set city", "set city without geocode",
                  "set country", "set country without geocode"}
    /\ pc' = [pc EXCEPT ![c] = "done"]
    /\ UNCHANGED <<locals, redis, stored>>

Next == \E c \in Call :
    \/ Start(c) \/ FindCity(c) \/ FindCountry(c) \/ FindGeocode(c) \/ Miss(c)
    \/ AskMaps(c) \/ MapsFails(c) \/ SetGeocode(c) \/ GeocodeNotSet(c)
    \/ SetCityAlias(c) \/ SetCountryAlias(c) \/ AliasNotSet(c)

Spec == Init /\ [][Next]_vars
-----------------------------------------------------------------------------
Names == City \X Country
NamesOrNone == Names \cup {None}
Hash(F, V) == UNION {[fields -> V] : fields \in SUBSET F}

Steps == {"idle", "city", "country", "geocode", "maps", "set geocode",
          "set city", "set city without geocode", "set country",
          "set country without geocode", "done", "failed"}

\* The steps at which a call has no location.
Unanswered == {"idle", "city", "country", "geocode", "maps", "failed"}

TypeOK ==
    /\ pc \in [Call -> Steps]
    /\ original \in [Call -> NamesOrNone]
    /\ query \in [Call -> NamesOrNone]
    /\ alias \in [Call -> NamesOrNone]
    /\ answer \in [Call -> NamesOrNone]
    /\ cityAlias \in Hash(City, City)
    /\ countryAlias \in Hash(Country, Country)
    /\ geocode \in Hash(Names, Names)
    /\ stored \subseteq Names
    /\ \A c \in Call : answer[c] = None <=> pc[c] \in Unanswered

\* A city name means the same in every country, and a corrected name itself.
Unambiguous ==
    \A names \in Known :
        /\ \A other \in Known :
              names[1] = other[1] => Corrected[names] = Corrected[other]
        /\ Location(names) \in Known
        /\ Corrected[Location(names)] = Corrected[names]

\* "cache the mapping from user input location name to geo-coding-corrected
\* location name": a call returns the location Maps has for the names it was
\* asked for, whatever the cache holds and the other calls do.
RightLocation ==
    \A c \in Call :
        pc[c] = "done" /\ original[c] \in Known
            => answer[c] = Location(original[c])

\* What has been stored is found: the cache, asked for the same names again,
\* has the location that was stored for them.
Remembered ==
    \A names \in stored \cap Known :
        /\ names[1] \in DOMAIN cityAlias
        /\ names[2] \in DOMAIN countryAlias
        /\ LET field == Field(<<cityAlias[names[1]], countryAlias[names[2]]>>)
           IN  field \in DOMAIN geocode /\ geocode[field] = Location(names)
============================================================================
