-------------------------- MODULE Geocoding_proofs --------------------------
(***************************************************************************)
(* Proofs about GetGeocode and its cache, for any calls.  Where locations  *)
(* are concerned a city name has to mean the same in every country; the    *)
(* types hold for any names.                                               *)
(***************************************************************************)
EXTENDS Geocoding, TLAPS

\* What Maps makes of a city name.
Means(name, city) == \E names \in Known : names[1] = name /\ city = Corrected[names]

\* Steps before Maps is asked, and steps at which its answer is stored.
Searching == {"city", "country", "geocode", "maps"}
GeocodeSet == {"set city", "set country"}
Storing == GeocodeSet \cup {"set geocode", "set city without geocode",
                            "set country without geocode"}

Typed ==
    /\ pc \in [Call -> Steps]
    /\ original \in [Call -> NamesOrNone]
    /\ query \in [Call -> NamesOrNone]
    /\ alias \in [Call -> NamesOrNone]
    /\ answer \in [Call -> NamesOrNone]
    /\ stored \subseteq Names

\* A call that has started has its names, and a country is never replaced.
HasNames(c) ==
    /\ original[c] \in Names
    /\ query[c] \in Names
    /\ query[c][2] = original[c][2]

\* The names a call works with are those it was asked for, or their correction.
QueryMeans(c) ==
    \/ query[c][1] = original[c][1]
    \/ Means(original[c][1], query[c][1])

AliasMeans(c) ==
    /\ alias[c] \in Names
    /\ Means(original[c][1], alias[c][1])

\* What a call knows at each of its steps.
CallInv(c) ==
    /\ pc[c] \in Searching \cup Storing => HasNames(c)
    /\ pc[c] \in {"city", "country"} => query[c] = original[c]
    /\ pc[c] = "maps" => QueryMeans(c)
    /\ pc[c] = "country" => AliasMeans(c)
    /\ pc[c] \in {"geocode"} \cup Storing => Means(original[c][1], query[c][1])
    /\ pc[c] \in Storing => answer[c] = query[c]
    /\ pc[c] \in GeocodeSet => query[c] \in DOMAIN geocode
    /\ pc[c] = "set country" => original[c][1] \in DOMAIN cityAlias
    /\ pc[c] = "done" => original[c] \in Names /\ answer[c] \in Names
    /\ pc[c] = "done" /\ original[c] \in Known => answer[c] = Location(original[c])
    /\ answer[c] = None <=> pc[c] \in Unanswered

\* The cache holds corrections only.
CacheInv ==
    /\ cityAlias \in Hash(City, City)
    /\ \A name \in DOMAIN cityAlias : Means(name, cityAlias[name])
    /\ countryAlias \in Hash(Country, Country)
    /\ \A country \in DOMAIN countryAlias : countryAlias[country] = country
    /\ geocode \in Hash(Names, Names)
    /\ \A names \in DOMAIN geocode : geocode[names] = names

\* What has been stored is in all three hashes.
StoredInv ==
    \A names \in stored \cap Known :
        /\ names[1] \in DOMAIN cityAlias
        /\ names[2] \in DOMAIN countryAlias
        /\ Location(names) \in DOMAIN geocode

Inv == Typed /\ (\A c \in Call : CallInv(c)) /\ CacheInv /\ StoredInv
-----------------------------------------------------------------------------
LEMMA NamesAreNotNone == \A names \in Names : names # None
  BY DEF Names, None

LEMMA NamesArePairs ==
    /\ \A names \in Names : names[1] \in City /\ names[2] \in Country
                            /\ names = <<names[1], names[2]>>
    /\ \A city \in City, country \in Country : <<city, country>> \in Names
  BY DEF Names

LEMMA LocationOfKnown ==
    ASSUME NEW names \in Known
    PROVE  /\ names \in Names
           /\ Corrected[names] \in City
           /\ Location(names) \in Names
           /\ Location(names)[1] = Corrected[names]
           /\ Location(names)[2] = names[2]
  BY KnownAssumption, CorrectedAssumption DEF Names, Location

LEMMA MeaningIsCity ==
    ASSUME NEW name, NEW city, Means(name, city)
    PROVE  city \in City /\ name \in City
  BY LocationOfKnown, NamesArePairs DEF Means

\* A field set in a hash.
LEMMA SetInHash ==
    ASSUME NEW F, NEW V, NEW hash \in Hash(F, V), NEW field \in F, NEW value \in V
    PROVE  Set(hash, field, value) \in Hash(F, V)
<1>1. hash \in [DOMAIN hash -> V] /\ DOMAIN hash \subseteq F
  BY DEF Hash
<1>2. Set(hash, field, value) \in [DOMAIN hash \cup {field} -> V]
  BY <1>1 DEF Set
<1> QED BY <1>1, <1>2 DEF Hash

\* A name has one meaning.
LEMMA OneMeaning ==
    ASSUME Unambiguous, NEW names \in Known, NEW city, Means(names[1], city)
    PROVE  city = Corrected[names]
  BY DEF Unambiguous, Means

\* A correction is corrected to itself.
LEMMA MeaningOfMeaning ==
    ASSUME Unambiguous, NEW names \in Known, NEW name,
           names[1] = name \/ Means(name, names[1])
    PROVE  Means(name, Corrected[names])
<1>1. CASE names[1] = name
  BY <1>1 DEF Means
<1>2. CASE Means(name, names[1])
  <2>1. PICK other \in Known : other[1] = name /\ names[1] = Corrected[other]
    BY <1>2 DEF Means
  <2>2. Location(other) \in Known /\ Corrected[Location(other)] = Corrected[other]
    BY DEF Unambiguous
  <2>3. names[1] = Location(other)[1]
    BY <2>1, LocationOfKnown
  <2>4. Corrected[names] = Corrected[Location(other)]
    BY <2>2, <2>3 DEF Unambiguous
  <2> QED BY <2>1, <2>2, <2>4 DEF Means
<1> QED BY <1>1, <1>2
-----------------------------------------------------------------------------
(***************************************************************************)
(* The steps of a call.                                                    *)
(***************************************************************************)

Same(d) ==
    /\ pc'[d] = pc[d]
    /\ original'[d] = original[d]
    /\ query'[d] = query[d]
    /\ alias'[d] = alias[d]
    /\ answer'[d] = answer[d]

\* A call is not disturbed by what others add to the cache.
LEMMA OthersKeep ==
    ASSUME NEW d \in Call, CallInv(d), Same(d),
           DOMAIN cityAlias \subseteq DOMAIN cityAlias',
           DOMAIN geocode \subseteq DOMAIN geocode'
    PROVE  CallInv(d)'
  BY DEF CallInv, Same, HasNames, QueryMeans, AliasMeans, Means

LEMMA CacheKept ==
    ASSUME CacheInv, StoredInv, UNCHANGED <<redis, stored>>
    PROVE  CacheInv' /\ StoredInv'
  BY DEF CacheInv, StoredInv, redis, Means, Location

\* A step of one call that leaves the cache alone.
LEMMA ReadingStep ==
    ASSUME Inv, NEW c \in Call, Typed', CallInv(c)', UNCHANGED <<redis, stored>>,
           \A d \in Call \ {c} : Same(d)
    PROVE  Inv'
<1>1. DOMAIN cityAlias \subseteq DOMAIN cityAlias' /\ DOMAIN geocode \subseteq DOMAIN geocode'
  BY DEF redis
<1>2. \A d \in Call : CallInv(d)'
  BY <1>1, OthersKeep DEF Inv
<1> QED BY <1>2, CacheKept DEF Inv

LEMMA StartStep ==
    ASSUME Inv, NEW c \in Call, Start(c)
    PROVE  Inv'
<1> USE DEF Move
<1>1. PICK names \in City \X Country :
        /\ original' = [original EXCEPT ![c] = names]
        /\ query' = [query EXCEPT ![c] = names]
  BY DEF Start
<1>2. /\ pc[c] = "idle" /\ pc' = [pc EXCEPT ![c] = "city"]
      /\ UNCHANGED <<alias, answer, redis, stored>>
  BY DEF Start
<1>3. Typed
  BY DEF Inv
<1>4. Typed' /\ \A d \in Call \ {c} : Same(d)
  BY <1>1, <1>2, <1>3 DEF Typed, Names, NamesOrNone, Steps, Same
<1>5. /\ pc'[c] = "city" /\ original'[c] = names /\ query'[c] = names
      /\ answer'[c] = answer[c] /\ names \in Names
  BY <1>1, <1>2, <1>3 DEF Typed, Names
<1>6. answer[c] = None
  BY <1>2 DEF Inv, CallInv, Unanswered
<1>7. CallInv(c)'
  BY <1>5, <1>6 DEF CallInv, HasNames, QueryMeans, Searching, Storing, GeocodeSet, Unanswered
<1> QED BY <1>2, <1>4, <1>7, ReadingStep

LEMMA FindCityStep ==
    ASSUME Inv, NEW c \in Call, FindCity(c)
    PROVE  Inv'
<1> DEFINE found == <<cityAlias[query[c][1]], query[c][2]>>
<1>1. /\ pc[c] = "city" /\ pc' = [pc EXCEPT ![c] = "country"]
      /\ query[c][1] \in DOMAIN cityAlias
      /\ alias' = [alias EXCEPT ![c] = found]
      /\ UNCHANGED <<original, query, answer, redis, stored>>
  BY DEF FindCity, Move
<1>2. Typed /\ CallInv(c) /\ CacheInv
  BY DEF Inv
<1>3. HasNames(c) /\ answer[c] = None
  BY <1>1, <1>2 DEF CallInv, Searching, Unanswered
<1>4. Means(query[c][1], cityAlias[query[c][1]])
  BY <1>1, <1>2 DEF CacheInv
<1>5. found \in Names
  BY <1>3, <1>4, MeaningIsCity, NamesArePairs DEF HasNames
<1>6. Means(original[c][1], found[1])
  BY <1>1, <1>2, <1>4 DEF CallInv
<1> HIDE DEF found
<1>7. Typed' /\ \A d \in Call \ {c} : Same(d)
  <2>1. alias' \in [Call -> NamesOrNone]
    BY <1>1, <1>2, <1>5 DEF Typed, NamesOrNone
  <2>2. pc' \in [Call -> Steps]
    BY <1>1, <1>2 DEF Typed, Steps
  <2>3. \A d \in Call \ {c} : Same(d)
    BY <1>1, <1>2 DEF Typed, Same
  <2> QED BY <1>1, <1>2, <2>1, <2>2, <2>3 DEF Typed
<1>8. /\ pc'[c] = "country" /\ alias'[c] = found
      /\ original'[c] = original[c] /\ query'[c] = query[c] /\ answer'[c] = answer[c]
  BY <1>1, <1>2 DEF Typed
<1>9. HasNames(c)' /\ AliasMeans(c)'
  BY <1>3, <1>5, <1>6, <1>8 DEF HasNames, AliasMeans, Means
<1>10. CallInv(c)'
  BY <1>1, <1>2, <1>3, <1>8, <1>9 DEF CallInv, Searching, Storing, GeocodeSet, Unanswered
<1> QED BY <1>1, <1>7, <1>10, ReadingStep

LEMMA FindCountryStep ==
    ASSUME Inv, NEW c \in Call, FindCountry(c)
    PROVE  Inv'
<1> DEFINE found == <<alias[c][1], countryAlias[query[c][2]]>>
<1>1. /\ pc[c] = "country" /\ pc' = [pc EXCEPT ![c] = "geocode"]
      /\ query[c][2] \in DOMAIN countryAlias
      /\ query' = [query EXCEPT ![c] = <<alias[c][1], countryAlias[@[2]]>>]
      /\ alias' = [alias EXCEPT ![c] = None]
      /\ UNCHANGED <<original, answer, redis, stored>>
  BY DEF FindCountry, Move
<1>2. Typed /\ CallInv(c) /\ CacheInv
  BY DEF Inv
<1>3. HasNames(c) /\ AliasMeans(c) /\ answer[c] = None
  BY <1>1, <1>2 DEF CallInv, Searching, Unanswered
<1>4. countryAlias[query[c][2]] = original[c][2]
  BY <1>1, <1>2, <1>3 DEF CacheInv, HasNames
<1>5. found \in Names /\ found[1] = alias[c][1] /\ found[2] = original[c][2]
  BY <1>3, <1>4, NamesArePairs DEF HasNames, AliasMeans
<1>6. query' = [query EXCEPT ![c] = found]
  BY <1>1, <1>2 DEF Typed
<1>7. Means(original[c][1], found[1])
  BY <1>3, <1>5 DEF AliasMeans
<1> HIDE DEF found
<1>8. Typed' /\ \A d \in Call \ {c} : Same(d)
  <2>1. query' \in [Call -> NamesOrNone] /\ alias' \in [Call -> NamesOrNone]
    BY <1>1, <1>2, <1>5, <1>6 DEF Typed, NamesOrNone
  <2>2. pc' \in [Call -> Steps]
    BY <1>1, <1>2 DEF Typed, Steps
  <2>3. \A d \in Call \ {c} : Same(d)
    BY <1>1, <1>2, <1>6 DEF Typed, Same
  <2> QED BY <1>1, <1>2, <2>1, <2>2, <2>3 DEF Typed
<1>9. /\ pc'[c] = "geocode" /\ query'[c] = found
      /\ original'[c] = original[c] /\ answer'[c] = answer[c]
  BY <1>1, <1>2, <1>6 DEF Typed
<1>10. HasNames(c)' /\ Means(original[c][1], query[c][1])'
  BY <1>3, <1>5, <1>7, <1>9 DEF HasNames, Means
<1>11. CallInv(c)'
  BY <1>3, <1>9, <1>10 DEF CallInv, Searching, Storing, GeocodeSet, Unanswered
<1> QED BY <1>1, <1>8, <1>11, ReadingStep

\* The answer of the cache: names are stored with themselves as location.
LEMMA FindGeocodeStep ==
    ASSUME Unambiguous, Inv, NEW c \in Call, FindGeocode(c)
    PROVE  Inv'
<1>1. /\ pc[c] = "geocode" /\ pc' = [pc EXCEPT ![c] = "done"]
      /\ query[c] \in DOMAIN geocode
      /\ answer' = [answer EXCEPT ![c] = geocode[query[c]]]
      /\ UNCHANGED <<original, query, alias, redis, stored>>
  BY DEF FindGeocode, Move, Field
<1>2. Typed /\ CallInv(c) /\ CacheInv
  BY DEF Inv
<1>3. HasNames(c) /\ Means(original[c][1], query[c][1])
  BY <1>1, <1>2 DEF CallInv, Searching, Storing
<1>4. geocode[query[c]] = query[c] /\ query[c] \in Names
  BY <1>1, <1>2, <1>3 DEF CacheInv, HasNames
<1>5. ASSUME original[c] \in Known
      PROVE  query[c] = Location(original[c])
  <2>1. query[c][1] = Corrected[original[c]]
    BY <1>3, <1>5, OneMeaning
  <2> QED BY <1>3, <1>5, <2>1, NamesArePairs DEF HasNames, Location
<1>6. Typed' /\ \A d \in Call \ {c} : Same(d)
  BY <1>1, <1>2, <1>4 DEF Typed, NamesOrNone, Steps, Same
<1>7. /\ pc'[c] = "done" /\ original'[c] = original[c] /\ answer'[c] = query[c]
  BY <1>1, <1>2, <1>4 DEF Typed
<1>8. answer'[c] # None
  BY <1>4, <1>7, NamesAreNotNone
<1>9. CallInv(c)'
  BY <1>3, <1>4, <1>5, <1>7, <1>8
     DEF CallInv, HasNames, Searching, Storing, GeocodeSet, Unanswered, Location
<1> QED BY <1>1, <1>6, <1>9, ReadingStep

LEMMA MissStep ==
    ASSUME Inv, NEW c \in Call, Miss(c)
    PROVE  Inv'
<1>1. /\ pc[c] \in {"city", "country", "geocode"} /\ pc' = [pc EXCEPT ![c] = "maps"]
      /\ alias' = [alias EXCEPT ![c] = None]
      /\ UNCHANGED <<original, query, answer, redis, stored>>
  BY DEF Miss
<1>2. Typed /\ CallInv(c)
  BY DEF Inv
<1>3. HasNames(c) /\ QueryMeans(c) /\ answer[c] = None
  BY <1>1, <1>2 DEF CallInv, Searching, Storing, Unanswered, QueryMeans
<1>4. Typed' /\ \A d \in Call \ {c} : Same(d)
  BY <1>1, <1>2 DEF Typed, NamesOrNone, Steps, Same
<1>5. /\ pc'[c] = "maps" /\ original'[c] = original[c] /\ query'[c] = query[c]
      /\ answer'[c] = answer[c]
  BY <1>1, <1>2 DEF Typed
<1>6. CallInv(c)'
  BY <1>3, <1>5
     DEF CallInv, HasNames, QueryMeans, Means, Searching, Storing, GeocodeSet, Unanswered
<1> QED BY <1>1, <1>4, <1>6, ReadingStep

LEMMA AskMapsStep ==
    ASSUME Unambiguous, Inv, NEW c \in Call, AskMaps(c)
    PROVE  Inv'
<1> DEFINE place == Location(query[c])
<1>1. /\ pc[c] = "maps" /\ pc' = [pc EXCEPT ![c] = "set geocode"]
      /\ query[c] \in Known
      /\ answer' = [answer EXCEPT ![c] = place]
      /\ query' = [query EXCEPT ![c] = place]
      /\ UNCHANGED <<original, alias, redis, stored>>
  BY DEF AskMaps, Move
<1>2. Typed /\ CallInv(c)
  BY DEF Inv
<1>3. HasNames(c) /\ QueryMeans(c)
  BY <1>1, <1>2 DEF CallInv, Searching
<1>4. /\ place \in Names /\ place[2] = original[c][2]
      /\ place[1] = Corrected[query[c]]
  BY <1>1, <1>3, LocationOfKnown DEF HasNames
<1>5. Means(original[c][1], place[1])
  BY <1>1, <1>3, <1>4, MeaningOfMeaning DEF QueryMeans
<1> HIDE DEF place
<1>6. Typed' /\ \A d \in Call \ {c} : Same(d)
  BY <1>1, <1>2, <1>4 DEF Typed, NamesOrNone, Steps, Same
<1>7. /\ pc'[c] = "set geocode" /\ original'[c] = original[c]
      /\ query'[c] = place /\ answer'[c] = place
  BY <1>1, <1>2 DEF Typed
<1>8. answer'[c] # None
  BY <1>4, <1>7, NamesAreNotNone
<1>9. HasNames(c)' /\ Means(original[c][1], query[c][1])'
  BY <1>3, <1>4, <1>5, <1>7 DEF HasNames, Means
<1>10. CallInv(c)'
  BY <1>7, <1>8, <1>9 DEF CallInv, Searching, Storing, GeocodeSet, Unanswered
<1> QED BY <1>1, <1>6, <1>10, ReadingStep
\* A call that is storing has the answer it will return.
LEMMA DoneAfterStoring ==
    ASSUME Unambiguous, NEW c \in Call, CallInv(c), pc[c] \in Storing,
           pc'[c] = "done",
           original'[c] = original[c], query'[c] = query[c], answer'[c] = answer[c]
    PROVE  CallInv(c)'
<1>1. /\ HasNames(c) /\ Means(original[c][1], query[c][1])
      /\ answer[c] = query[c]
  BY DEF CallInv
<1>2. answer[c] # None
  BY DEF CallInv, Storing, GeocodeSet, Unanswered
<1>3. ASSUME original[c] \in Known
      PROVE  query[c] = Location(original[c])
  <2>1. query[c][1] = Corrected[original[c]]
    BY <1>1, <1>3, OneMeaning
  <2> QED BY <1>1, <2>1, NamesArePairs DEF HasNames, Location
<1> QED BY <1>1, <1>2, <1>3
           DEF CallInv, HasNames, Location, Searching, Storing, GeocodeSet, Unanswered

\* Steps that leave a call with what it has.
LEMMA LeaveStep ==
    ASSUME Unambiguous, Inv, NEW c \in Call,
           MapsFails(c) \/ GeocodeNotSet(c) \/ AliasNotSet(c)
    PROVE  Inv'
<1>1. PICK to \in {"failed", "set city without geocode", "done"} :
        /\ pc' = [pc EXCEPT ![c] = to]
        /\ to = "failed" => pc[c] = "maps"
        /\ to = "set city without geocode" => pc[c] = "set geocode"
        /\ to = "done" => pc[c] \in Storing
  BY DEF MapsFails, GeocodeNotSet, AliasNotSet, Move, Storing, GeocodeSet
<1>2. UNCHANGED <<original, query, alias, answer, redis, stored>>
  BY DEF MapsFails, GeocodeNotSet, AliasNotSet, locals
<1>3. Typed /\ CallInv(c)
  BY DEF Inv
<1>4. Typed' /\ \A d \in Call \ {c} : Same(d)
  BY <1>1, <1>2, <1>3 DEF Typed, Steps, Same
<1>5. /\ pc'[c] = to /\ query'[c] = query[c]
      /\ original'[c] = original[c] /\ answer'[c] = answer[c]
  BY <1>1, <1>2, <1>3 DEF Typed
<1>6. ASSUME to = "failed"
      PROVE  CallInv(c)'
  <2>1. answer'[c] = None
    BY <1>1, <1>3, <1>5, <1>6 DEF CallInv, Unanswered
  <2>2. pc'[c] = "failed"
    BY <1>5, <1>6
  <2> QED BY <2>1, <2>2 DEF CallInv, Searching, Storing, GeocodeSet, Unanswered
<1>7. ASSUME to = "set city without geocode"
      PROVE  CallInv(c)'
  <2>1. HasNames(c)' /\ Means(original[c][1], query[c][1])' /\ answer'[c] = query'[c]
    BY <1>1, <1>3, <1>5, <1>7 DEF CallInv, HasNames, Means, Storing, GeocodeSet
  <2>2. answer'[c] # None
    BY <1>1, <1>3, <1>5, <1>7 DEF CallInv, Unanswered
  <2>3. pc'[c] = "set city without geocode"
    BY <1>5, <1>7
  <2> QED BY <2>1, <2>2, <2>3 DEF CallInv, Searching, Storing, GeocodeSet, Unanswered
<1>8. ASSUME to = "done"
      PROVE  CallInv(c)'
  <2>1. pc[c] \in Storing /\ pc'[c] = "done"
    BY <1>1, <1>5, <1>8
  <2> QED BY <1>3, <1>5, <2>1, DoneAfterStoring
<1> QED BY <1>1, <1>2, <1>4, <1>6, <1>7, <1>8, ReadingStep
-----------------------------------------------------------------------------
(***************************************************************************)
(* The writes to the cache.                                                *)
(***************************************************************************)

LEMMA SetGeocodeStep ==
    ASSUME Inv, NEW c \in Call, SetGeocode(c)
    PROVE  Inv'
<1>1. /\ pc[c] = "set geocode" /\ pc' = [pc EXCEPT ![c] = "set city"]
      /\ geocode' = Set(geocode, query[c], answer[c])
      /\ UNCHANGED <<original, query, alias, answer, cityAlias, countryAlias, stored>>
  BY DEF SetGeocode, Move, Field, locals
<1>2. Typed /\ CallInv(c) /\ CacheInv /\ StoredInv
  BY DEF Inv
<1>3. /\ HasNames(c) /\ Means(original[c][1], query[c][1])
      /\ answer[c] = query[c] /\ answer[c] # None
  BY <1>1, <1>2 DEF CallInv, Storing, GeocodeSet, Unanswered
<1>4. /\ DOMAIN geocode' = DOMAIN geocode \cup {query[c]}
      /\ geocode'[query[c]] = query[c]
      /\ \A f \in DOMAIN geocode \ {query[c]} : geocode'[f] = geocode[f]
  BY <1>1, <1>3 DEF Set
<1>5. Typed' /\ \A d \in Call \ {c} : Same(d)
  BY <1>1, <1>2 DEF Typed, Steps, Same
<1>6. /\ pc'[c] = "set city" /\ query'[c] = query[c]
      /\ original'[c] = original[c] /\ answer'[c] = answer[c]
  BY <1>1, <1>2 DEF Typed
<1>7. HasNames(c)' /\ Means(original[c][1], query[c][1])'
  BY <1>3, <1>6 DEF HasNames, Means
<1>8. CallInv(c)'
  BY <1>3, <1>4, <1>6, <1>7 DEF CallInv, Searching, Storing, GeocodeSet, Unanswered
<1>9. \A d \in Call : CallInv(d)'
  BY <1>1, <1>4, <1>5, <1>8, OthersKeep DEF Inv
<1>10. CacheInv'
  <2>1. geocode' \in Hash(Names, Names)
    BY <1>1, <1>2, <1>3, SetInHash DEF CacheInv, HasNames
  <2> QED BY <1>1, <1>2, <1>3, <1>4, <2>1 DEF CacheInv, Means
<1>11. StoredInv'
  BY <1>1, <1>2, <1>4 DEF StoredInv, Location
<1> QED BY <1>5, <1>9, <1>10, <1>11 DEF Inv

LEMMA SetCityAliasStep ==
    ASSUME Inv, NEW c \in Call, SetCityAlias(c)
    PROVE  Inv'
<1>1. /\ \/ pc[c] = "set city" /\ pc' = [pc EXCEPT ![c] = "set country"]
         \/ /\ pc[c] = "set city without geocode"
            /\ pc' = [pc EXCEPT ![c] = "set country without geocode"]
      /\ cityAlias' = Set(cityAlias, original[c][1], query[c][1])
      /\ UNCHANGED <<original, query, alias, answer, countryAlias, geocode, stored>>
  BY DEF SetCityAlias, CityAliasOf, Move, locals
<1>2. Typed /\ CallInv(c) /\ CacheInv /\ StoredInv
  BY DEF Inv
<1>3. /\ HasNames(c) /\ Means(original[c][1], query[c][1])
      /\ answer[c] = query[c] /\ answer[c] # None
      /\ pc[c] = "set city" => query[c] \in DOMAIN geocode
  BY <1>1, <1>2 DEF CallInv, Storing, GeocodeSet, Unanswered
<1>4. /\ DOMAIN cityAlias' = DOMAIN cityAlias \cup {original[c][1]}
      /\ cityAlias'[original[c][1]] = query[c][1]
      /\ \A f \in DOMAIN cityAlias \ {original[c][1]} : cityAlias'[f] = cityAlias[f]
  BY <1>1 DEF Set
<1>5. Typed' /\ \A d \in Call \ {c} : Same(d)
  BY <1>1, <1>2 DEF Typed, Steps, Same
<1>6. /\ \/ pc'[c] = "set country" /\ pc[c] = "set city"
         \/ pc'[c] = "set country without geocode"
      /\ query'[c] = query[c] /\ original'[c] = original[c] /\ answer'[c] = answer[c]
      /\ geocode' = geocode
  BY <1>1, <1>2 DEF Typed
<1>7. HasNames(c)' /\ Means(original[c][1], query[c][1])'
  BY <1>3, <1>6 DEF HasNames, Means
<1>8. CallInv(c)'
  BY <1>3, <1>4, <1>6, <1>7 DEF CallInv, Searching, Storing, GeocodeSet, Unanswered
<1>9. \A d \in Call : CallInv(d)'
  BY <1>1, <1>4, <1>5, <1>8, OthersKeep DEF Inv
<1>10. CacheInv'
  <2>1. cityAlias' \in Hash(City, City)
    BY <1>1, <1>2, <1>3, MeaningIsCity, SetInHash DEF CacheInv
  <2>2. \A name \in DOMAIN cityAlias' : Means(name, cityAlias'[name])
    BY <1>2, <1>3, <1>4 DEF CacheInv
  <2>3. (\A name \in DOMAIN cityAlias : Means(name, cityAlias[name]))'
    BY <2>2 DEF Means
  <2> QED BY <1>1, <1>2, <1>4, <2>1, <2>3 DEF CacheInv
<1>11. StoredInv'
  BY <1>1, <1>2, <1>4 DEF StoredInv, Location
<1> QED BY <1>5, <1>9, <1>10, <1>11 DEF Inv

\* With the alias of the country all has been stored.
LEMMA SetCountryAliasStep ==
    ASSUME Unambiguous, Inv, NEW c \in Call, SetCountryAlias(c)
    PROVE  Inv'
<1>1. /\ pc[c] \in {"set country", "set country without geocode"}
      /\ pc' = [pc EXCEPT ![c] = "done"]
      /\ \/ pc[c] = "set country" /\ stored' = stored \cup {original[c]}
         \/ stored' = stored
      /\ countryAlias' = Set(countryAlias, original[c][2], query[c][2])
      /\ UNCHANGED <<original, query, alias, answer, cityAlias, geocode>>
  BY DEF SetCountryAlias, Move, locals
<1>2. Typed /\ CallInv(c) /\ CacheInv /\ StoredInv
  BY DEF Inv
<1>3. /\ HasNames(c) /\ Means(original[c][1], query[c][1])
      /\ pc[c] = "set country" => query[c] \in DOMAIN geocode
                                  /\ original[c][1] \in DOMAIN cityAlias
  BY <1>1, <1>2 DEF CallInv, Storing, GeocodeSet
<1>4. /\ DOMAIN countryAlias' = DOMAIN countryAlias \cup {original[c][2]}
      /\ countryAlias'[original[c][2]] = original[c][2]
      /\ \A f \in DOMAIN countryAlias \ {original[c][2]} :
            countryAlias'[f] = countryAlias[f]
  BY <1>1, <1>3 DEF HasNames, Set
<1>5. Typed' /\ \A d \in Call \ {c} : Same(d)
  BY <1>1, <1>2, <1>3 DEF Typed, HasNames, Steps, Same
<1>6. /\ pc'[c] = "done" /\ pc[c] \in Storing
      /\ query'[c] = query[c] /\ original'[c] = original[c] /\ answer'[c] = answer[c]
  BY <1>1, <1>2 DEF Typed, Storing, GeocodeSet
<1>7. CallInv(c)'
  BY <1>2, <1>6, DoneAfterStoring
<1>8. \A d \in Call : CallInv(d)'
  BY <1>1, <1>5, <1>7, OthersKeep DEF Inv
<1>9. CacheInv'
  <2>1. countryAlias' \in Hash(Country, Country)
    BY <1>1, <1>2, <1>3, NamesArePairs, SetInHash DEF CacheInv, HasNames
  <2> QED BY <1>1, <1>2, <1>4, <2>1 DEF CacheInv, Means
<1>10. StoredInv'
  <2>1. SUFFICES ASSUME NEW names \in stored' \cap Known
                 PROVE  /\ names[1] \in DOMAIN cityAlias
                        /\ names[2] \in DOMAIN countryAlias'
                        /\ Location(names) \in DOMAIN geocode
    BY <1>1 DEF StoredInv, Location
  <2>2. CASE names \in stored
    BY <1>2, <1>4, <2>2 DEF StoredInv
  <2>3. CASE names \notin stored
    <3>1. names = original[c] /\ pc[c] = "set country"
      BY <1>1, <2>3
    <3>2. query[c][1] = Corrected[names]
      BY <1>3, <3>1, OneMeaning
    <3>3. query[c] = Location(names)
      BY <1>3, <3>1, <3>2, NamesArePairs DEF HasNames, Location
    <3> QED BY <1>3, <1>4, <3>1, <3>3
  <2> QED BY <2>2, <2>3
<1> QED BY <1>5, <1>8, <1>9, <1>10 DEF Inv
-----------------------------------------------------------------------------
LEMMA InitInv == Init => Inv
<1> SUFFICES ASSUME Init
             PROVE  Inv
  OBVIOUS
<1>1. Typed
  BY DEF Init, Typed, Steps, NamesOrNone
<1>2. \A c \in Call : CallInv(c)
  BY DEF Init, CallInv, Searching, Storing, GeocodeSet, Unanswered
<1>3. CacheInv /\ StoredInv
  <2>1. \A F, V : EmptyHash \in Hash(F, V)
    <3>1. \A V : EmptyHash \in [{} -> V]
      BY DEF EmptyHash
    <3> QED BY <3>1 DEF Hash
  <2>2. DOMAIN EmptyHash = {}
    BY DEF EmptyHash
  <2> QED BY <2>1, <2>2 DEF Init, CacheInv, StoredInv
<1> QED BY <1>1, <1>2, <1>3 DEF Inv

LEMMA InvStep ==
    ASSUME Unambiguous, Inv, [Next]_vars
    PROVE  Inv'
<1>1. CASE UNCHANGED vars
  <2>1. \A c \in Call : CallInv(c)'
    BY <1>1, OthersKeep DEF vars, locals, redis, Inv, Same
  <2>2. Typed' /\ UNCHANGED <<redis, stored>>
    BY <1>1 DEF vars, locals, Inv, Typed
  <2> QED BY <2>1, <2>2, CacheKept DEF Inv
<1>2. ASSUME NEW c \in Call,
             \/ Start(c) \/ FindCity(c) \/ FindCountry(c) \/ FindGeocode(c) \/ Miss(c)
             \/ AskMaps(c) \/ MapsFails(c) \/ SetGeocode(c) \/ GeocodeNotSet(c)
             \/ SetCityAlias(c) \/ SetCountryAlias(c) \/ AliasNotSet(c)
      PROVE  Inv'
  BY <1>2, StartStep, FindCityStep, FindCountryStep, FindGeocodeStep, MissStep,
     AskMapsStep, SetGeocodeStep, SetCityAliasStep, SetCountryAliasStep, LeaveStep
<1> QED BY <1>1, <1>2 DEF Next

\* Whenever a city name means the same in every country, a call returns the
\* location Maps has for the names it was asked for, whatever the cache holds,
\* the other calls do and Redis fails (GetGeocode, SetGeocode,
\* CacheLocationAlias).
THEOREM LocationIsRight ==
    ASSUME Unambiguous
    PROVE  Spec => []RightLocation
<1>1. Inv => RightLocation
  BY DEF Inv, CallInv, RightLocation
<1>2. Inv /\ [Next]_vars => Inv'
  BY InvStep
<1> QED BY <1>1, <1>2, InitInv, PTL DEF Spec

\* What has been stored with no failed command is found again for the same
\* names: its three fields are in the hashes, and they lead to its location.
THEOREM StoredIsRemembered ==
    ASSUME Unambiguous
    PROVE  Spec => []Remembered
<1>1. Inv => Remembered
  <2>1. SUFFICES ASSUME Inv, NEW names \in stored \cap Known
                 PROVE  /\ names[1] \in DOMAIN cityAlias
                        /\ names[2] \in DOMAIN countryAlias
                        /\ LET field == Field(<<cityAlias[names[1]],
                                                countryAlias[names[2]]>>)
                           IN  field \in DOMAIN geocode
                               /\ geocode[field] = Location(names)
    BY DEF Remembered
  <2>2. /\ names[1] \in DOMAIN cityAlias
        /\ names[2] \in DOMAIN countryAlias
        /\ Location(names) \in DOMAIN geocode
    BY <2>1 DEF Inv, StoredInv
  <2>3. cityAlias[names[1]] = Corrected[names]
    BY <2>1, <2>2, OneMeaning DEF Inv, CacheInv
  <2>4. countryAlias[names[2]] = names[2]
    BY <2>1, <2>2 DEF Inv, CacheInv
  <2>5. geocode[Location(names)] = Location(names)
    BY <2>1, <2>2 DEF Inv, CacheInv
  <2> QED BY <2>2, <2>3, <2>4, <2>5 DEF Field, Location
<1>2. Inv /\ [Next]_vars => Inv'
  BY InvStep
<1> QED BY <1>1, <1>2, InitInv, PTL DEF Spec

-----------------------------------------------------------------------------
(***************************************************************************)
(* Types, for any city names.                                              *)
(***************************************************************************)

\* What a call knows at each of its steps, apart from what its names mean.
CallTyped(c) ==
    /\ pc[c] # "idle" => original[c] \in Names /\ query[c] \in Names
    /\ pc[c] = "country" => alias[c] \in Names
    /\ answer[c] = None <=> pc[c] \in Unanswered

CacheTyped ==
    /\ cityAlias \in Hash(City, City)
    /\ countryAlias \in Hash(Country, Country)
    /\ geocode \in Hash(Names, Names)

TypeInv == Typed /\ (\A c \in Call : CallTyped(c)) /\ CacheTyped

LEMMA HashValue ==
    ASSUME NEW F, NEW V, NEW hash \in Hash(F, V), NEW field \in DOMAIN hash
    PROVE  hash[field] \in V
  BY DEF Hash

\* A step of one call keeps the types if its own variables keep theirs.
LEMMA TypedStep ==
    ASSUME TypeInv, NEW c \in Call, Typed', CallTyped(c)', CacheTyped',
           \A d \in Call \ {c} : Same(d)
    PROVE  TypeInv'
<1>1. ASSUME NEW d \in Call \ {c}
      PROVE  CallTyped(d)'
  BY <1>1 DEF TypeInv, CallTyped, Same
<1> QED BY <1>1 DEF TypeInv

LEMMA SearchingTyped ==
    ASSUME TypeInv, NEW c \in Call,
           Start(c) \/ FindCity(c) \/ FindCountry(c) \/ FindGeocode(c) \/ Miss(c)
    PROVE  TypeInv'
<1> USE DEF Move
<1>0. /\ Typed /\ CallTyped(c) /\ CacheTyped
      /\ pc \in [Call -> Steps] /\ original \in [Call -> NamesOrNone]
      /\ query \in [Call -> NamesOrNone] /\ alias \in [Call -> NamesOrNone]
      /\ answer \in [Call -> NamesOrNone]
  BY DEF TypeInv, Typed
<1>1. UNCHANGED <<redis, stored>> => CacheTyped'
  BY <1>0 DEF CacheTyped, redis
<1>2. CASE Start(c)
  <2>1. PICK names \in Names :
          /\ original' = [original EXCEPT ![c] = names]
          /\ query' = [query EXCEPT ![c] = names]
    BY <1>2 DEF Start, Names
  <2>2. /\ pc[c] = "idle" /\ pc' = [pc EXCEPT ![c] = "city"]
        /\ UNCHANGED <<alias, answer, redis, stored>>
    BY <1>2 DEF Start
  <2>3. Typed' /\ \A d \in Call \ {c} : Same(d)
    BY <1>0, <2>1, <2>2 DEF Typed, NamesOrNone, Steps, Same
  <2>4. CallTyped(c)'
    BY <1>0, <2>1, <2>2 DEF CallTyped, Unanswered
  <2> QED BY <1>1, <2>2, <2>3, <2>4, TypedStep
<1>3. CASE FindCity(c)
  <2> DEFINE found == <<cityAlias[query[c][1]], query[c][2]>>
  <2>1. /\ pc[c] = "city" /\ pc' = [pc EXCEPT ![c] = "country"]
        /\ query[c][1] \in DOMAIN cityAlias
        /\ alias' = [alias EXCEPT ![c] = found]
        /\ UNCHANGED <<original, query, answer, redis, stored>>
    BY <1>3 DEF FindCity
  <2>2. original[c] \in Names /\ query[c] \in Names /\ answer[c] = None
    BY <1>0, <2>1 DEF CallTyped, Unanswered
  <2>3. found \in Names
    <3>1. cityAlias[query[c][1]] \in City
      BY <1>0, <2>1, HashValue DEF CacheTyped
    <3> QED BY <2>2, <3>1, NamesArePairs
  <2> HIDE DEF found
  <2>4. Typed' /\ \A d \in Call \ {c} : Same(d)
    BY <1>0, <2>1, <2>3 DEF Typed, NamesOrNone, Steps, Same
  <2>5. CallTyped(c)'
    BY <1>0, <2>1, <2>2, <2>3 DEF CallTyped, Unanswered
  <2> QED BY <1>1, <2>1, <2>4, <2>5, TypedStep
<1>4. CASE FindCountry(c)
  <2> DEFINE found == <<alias[c][1], countryAlias[query[c][2]]>>
  <2>1. /\ pc[c] = "country" /\ pc' = [pc EXCEPT ![c] = "geocode"]
        /\ query[c][2] \in DOMAIN countryAlias
        /\ query' = [query EXCEPT ![c] = found]
        /\ alias' = [alias EXCEPT ![c] = None]
        /\ UNCHANGED <<original, answer, redis, stored>>
    BY <1>0, <1>4 DEF FindCountry
  <2>2. original[c] \in Names /\ alias[c] \in Names /\ answer[c] = None
    BY <1>0, <2>1 DEF CallTyped, Unanswered
  <2>3. found \in Names
    <3>1. countryAlias[query[c][2]] \in Country
      BY <1>0, <2>1, HashValue DEF CacheTyped
    <3> QED BY <2>2, <3>1, NamesArePairs
  <2> HIDE DEF found
  <2>4. Typed' /\ \A d \in Call \ {c} : Same(d)
    BY <1>0, <2>1, <2>3 DEF Typed, NamesOrNone, Steps, Same
  <2>5. CallTyped(c)'
    BY <1>0, <2>1, <2>2, <2>3 DEF CallTyped, Unanswered
  <2> QED BY <1>1, <2>1, <2>4, <2>5, TypedStep
<1>5. CASE FindGeocode(c)
  <2> DEFINE found == geocode[query[c]]
  <2>1. /\ pc[c] = "geocode" /\ pc' = [pc EXCEPT ![c] = "done"]
        /\ query[c] \in DOMAIN geocode
        /\ answer' = [answer EXCEPT ![c] = found]
        /\ UNCHANGED <<original, query, alias, redis, stored>>
    BY <1>5 DEF FindGeocode, Field
  <2>2. original[c] \in Names /\ query[c] \in Names
    BY <1>0, <2>1 DEF CallTyped
  <2>3. found \in Names
    BY <1>0, <2>1, HashValue DEF CacheTyped
  <2> HIDE DEF found
  <2>4. Typed' /\ \A d \in Call \ {c} : Same(d)
    BY <1>0, <2>1, <2>3 DEF Typed, NamesOrNone, Steps, Same
  <2>5. pc'[c] = "done" /\ answer'[c] = found /\ answer'[c] # None
    BY <1>0, <2>1, <2>3, NamesAreNotNone
  <2>6. original'[c] = original[c] /\ query'[c] = query[c]
    BY <2>1
  <2>7. CallTyped(c)'
    BY <2>2, <2>5, <2>6 DEF CallTyped, Unanswered
  <2> QED BY <1>1, <2>1, <2>4, <2>7, TypedStep
<1>6. CASE Miss(c)
  <2>1. /\ pc[c] \in {"city", "country", "geocode"} /\ pc' = [pc EXCEPT ![c] = "maps"]
        /\ alias' = [alias EXCEPT ![c] = None]
        /\ UNCHANGED <<original, query, answer, redis, stored>>
    BY <1>6 DEF Miss
  <2>2. Typed' /\ \A d \in Call \ {c} : Same(d)
    BY <1>0, <2>1 DEF Typed, NamesOrNone, Steps, Same
  <2>3. CallTyped(c)'
    BY <1>0, <2>1 DEF CallTyped, Unanswered
  <2> QED BY <1>1, <2>1, <2>2, <2>3, TypedStep
<1> QED BY <1>2, <1>3, <1>4, <1>5, <1>6

LEMMA StoringTyped ==
    ASSUME TypeInv, NEW c \in Call,
           \/ AskMaps(c) \/ MapsFails(c) \/ SetGeocode(c) \/ GeocodeNotSet(c)
           \/ SetCityAlias(c) \/ SetCountryAlias(c) \/ AliasNotSet(c)
    PROVE  TypeInv'
<1> USE DEF Move
<1>0. /\ Typed /\ CallTyped(c) /\ CacheTyped
      /\ pc \in [Call -> Steps] /\ original \in [Call -> NamesOrNone]
      /\ query \in [Call -> NamesOrNone] /\ alias \in [Call -> NamesOrNone]
      /\ answer \in [Call -> NamesOrNone] /\ stored \subseteq Names
  BY DEF TypeInv, Typed
<1>1. UNCHANGED redis => CacheTyped'
  BY <1>0 DEF CacheTyped, redis
<1>2. CASE AskMaps(c)
  <2>1. /\ pc[c] = "maps" /\ pc' = [pc EXCEPT ![c] = "set geocode"]
        /\ query[c] \in Known
        /\ answer' = [answer EXCEPT ![c] = Location(query[c])]
        /\ query' = [query EXCEPT ![c] = Location(query[c])]
        /\ UNCHANGED <<original, alias, redis, stored>>
    BY <1>2 DEF AskMaps
  <2>2. original[c] \in Names /\ Location(query[c]) \in Names
    BY <1>0, <2>1, LocationOfKnown DEF CallTyped
  <2>3. Typed' /\ \A d \in Call \ {c} : Same(d)
    BY <1>0, <2>1, <2>2 DEF Typed, NamesOrNone, Steps, Same
  <2>4. /\ pc'[c] = "set geocode" /\ original'[c] \in Names /\ query'[c] \in Names
        /\ answer'[c] # None
    BY <1>0, <2>1, <2>2, NamesAreNotNone
  <2>5. CallTyped(c)'
    BY <2>4 DEF CallTyped, Unanswered
  <2> QED BY <1>1, <2>1, <2>3, <2>5, TypedStep
<1>3. CASE MapsFails(c) \/ GeocodeNotSet(c) \/ AliasNotSet(c)
  <2>1. PICK to \in {"failed", "set city without geocode", "done"} :
          /\ pc' = [pc EXCEPT ![c] = to]
          /\ to = "failed" => pc[c] = "maps"
          /\ to # "failed" => pc[c] \in Storing
          /\ UNCHANGED <<original, query, alias, answer, redis, stored>>
    BY <1>3 DEF MapsFails, GeocodeNotSet, AliasNotSet, Storing, GeocodeSet, locals
  <2>2. Typed' /\ \A d \in Call \ {c} : Same(d)
    BY <1>0, <2>1 DEF Typed, Steps, Same
  <2>3. pc'[c] = to
    BY <1>0, <2>1
  <2>4. CallTyped(c)'
    BY <1>0, <2>1, <2>3 DEF CallTyped, Unanswered, Storing, GeocodeSet
  <2> QED BY <1>1, <2>1, <2>2, <2>4, TypedStep
<1>4. CASE SetGeocode(c)
  <2>1. /\ pc[c] = "set geocode" /\ pc' = [pc EXCEPT ![c] = "set city"]
        /\ geocode' = Set(geocode, query[c], answer[c])
        /\ UNCHANGED <<original, query, alias, answer, cityAlias, countryAlias, stored>>
    BY <1>4 DEF SetGeocode, Field, locals
  <2>2. query[c] \in Names /\ answer[c] \in Names
    BY <1>0, <2>1 DEF CallTyped, Unanswered, NamesOrNone
  <2>3. CacheTyped'
    BY <1>0, <2>1, <2>2, SetInHash DEF CacheTyped
  <2>4. Typed' /\ (\A d \in Call \ {c} : Same(d)) /\ CallTyped(c)'
    BY <1>0, <2>1 DEF Typed, Steps, Same, CallTyped, Unanswered
  <2> QED BY <2>3, <2>4, TypedStep
<1>5. CASE SetCityAlias(c)
  <2>1. /\ \/ pc[c] = "set city" /\ pc' = [pc EXCEPT ![c] = "set country"]
           \/ /\ pc[c] = "set city without geocode"
              /\ pc' = [pc EXCEPT ![c] = "set country without geocode"]
        /\ cityAlias' = Set(cityAlias, original[c][1], query[c][1])
        /\ UNCHANGED <<original, query, alias, answer, countryAlias, geocode, stored>>
    BY <1>5 DEF SetCityAlias, CityAliasOf, locals
  <2>2. original[c][1] \in City /\ query[c][1] \in City
    BY <1>0, <2>1, NamesArePairs DEF CallTyped
  <2>3. CacheTyped'
    BY <1>0, <2>1, <2>2, SetInHash DEF CacheTyped
  <2>4. Typed' /\ (\A d \in Call \ {c} : Same(d)) /\ CallTyped(c)'
    BY <1>0, <2>1 DEF Typed, Steps, Same, CallTyped, Unanswered
  <2> QED BY <2>3, <2>4, TypedStep
<1>6. CASE SetCountryAlias(c)
  <2>1. /\ pc[c] \in {"set country", "set country without geocode"}
        /\ pc' = [pc EXCEPT ![c] = "done"]
        /\ stored' \in {stored \cup {original[c]}, stored}
        /\ countryAlias' = Set(countryAlias, original[c][2], query[c][2])
        /\ UNCHANGED <<original, query, alias, answer, cityAlias, geocode>>
    BY <1>6 DEF SetCountryAlias, locals
  <2>2. /\ original[c] \in Names
        /\ original[c][2] \in Country /\ query[c][2] \in Country
    BY <1>0, <2>1, NamesArePairs DEF CallTyped
  <2>3. CacheTyped'
    BY <1>0, <2>1, <2>2, SetInHash DEF CacheTyped
  <2>4. Typed' /\ \A d \in Call \ {c} : Same(d)
    BY <1>0, <2>1, <2>2 DEF Typed, Steps, Same
  <2>5. CallTyped(c)'
    BY <1>0, <2>1 DEF CallTyped, Unanswered
  <2> QED BY <2>3, <2>4, <2>5, TypedStep
<1> QED BY <1>2, <1>3, <1>4, <1>5, <1>6

\* The values of all variables, and that a call has a location when and only
\* when it has been answered, whatever city names mean.
THEOREM GeocodingTypeCorrect == Spec => []TypeOK
<1>1. Init => TypeInv
  <2>1. SUFFICES ASSUME Init
                 PROVE  TypeInv
    OBVIOUS
  <2>2. Typed /\ CacheTyped
    BY <2>1, InitInv DEF Inv, CacheInv, CacheTyped
  <2>3. \A c \in Call : CallTyped(c)
    BY <2>1 DEF Init, CallTyped, Unanswered
  <2> QED BY <2>2, <2>3 DEF TypeInv
<1>2. TypeInv /\ [Next]_vars => TypeInv'
  <2>1. SUFFICES ASSUME TypeInv, [Next]_vars
                 PROVE  TypeInv'
    OBVIOUS
  <2>2. CASE UNCHANGED vars
    BY <2>1, <2>2 DEF vars, locals, redis, TypeInv, Typed, CallTyped, CacheTyped
  <2>3. CASE Next
    BY <2>1, <2>3, SearchingTyped, StoringTyped DEF Next
  <2> QED BY <2>1, <2>2, <2>3
<1>3. TypeInv => TypeOK
  BY DEF TypeInv, TypeOK, Typed, CacheTyped, CallTyped
<1> QED BY <1>1, <1>2, <1>3, PTL DEF Spec
=============================================================================
