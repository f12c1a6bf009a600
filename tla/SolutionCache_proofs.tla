------------------------ MODULE SolutionCache_proofs ------------------------
(***************************************************************************)
(* Proofs about Solve and the plans it keeps, for any calls, requests,     *)
(* locations, numbers of plans, expiration, failures of Redis and searches *)
(* that fall short.                                                        *)
(***************************************************************************)
EXTENDS SolutionCache, TLAPS

Codes == {0, InvalidRequestLocation, CatPlaceIterInitFailure}

\* The values a request may have on its way.
Locations == {r.location : r \in Request} \cup {""}
                \cup {Validated[name] : name \in DOMAIN Validated}
ReqValue == [location : Locations,
             radius   : {r.radius : r \in Request} \cup {0},
             weekday  : {r.weekday : r \in Request} \cup {0},
             numPlans : Int]
RespValue == [of : DOMAIN Available \cup {<<>>}, num : Nat]

Typed ==
    /\ pc \in [Call -> Steps]
    /\ req \in [Call -> ReqValue]
    /\ asked \in [Call -> Request \cup {NoRequest}]
    /\ resp \in [Call -> RespValue]
    /\ code \in [Call -> Codes]
    /\ now \in 0 .. MaxTime
    /\ short \subseteq DOMAIN Available

\* How many plans of what are enough for some call.
Enough == {plans \in (DOMAIN Available) \X Nat :
               \E d \in Call : EnoughFor(plans[1], plans[2], d)}

\* Plans of what they are said to be of, as many as some call has asked for.
PlansOf(what, plans) ==
    /\ plans.of = what
    /\ plans.num \in 0 .. Available[what]
    /\ <<what, plans.num>> \in Enough

\* What a call knows at each of its steps.
CallInv(c) ==
    /\ pc[c] = "validate" => req[c] = asked[c] /\ asked[c] \in Request
    /\ pc[c] \in {"lookup", "generate", "cache", "invalidate"} =>
          /\ asked[c] \in Request
          /\ asked[c].location \in DOMAIN Validated
          /\ req[c] = Corrected(asked[c])
    /\ pc[c] \in {"cache", "invalidate"} => PlansOf(What(req[c]), resp[c])
    /\ pc[c] = "done" /\ code[c] = 0 => PlansOf(Asked(c), resp[c])

\* The plans under a key are those of the key, and have not expired.
CacheInv ==
    \A key \in DOMAIN cache :
        /\ key \in DOMAIN Available
        /\ PlansOf(key, cache[key])
        /\ cache[key].set \in 0 .. now
        /\ now - cache[key].set < Expiration

Inv == Typed /\ (\A c \in Call : CallInv(c)) /\ CacheInv
-----------------------------------------------------------------------------
LEMMA RequestTyped ==
    ASSUME NEW r \in Request
    PROVE  /\ r \in ReqValue
           /\ r.location \in DOMAIN Validated =>
                /\ Corrected(r) \in ReqValue
                /\ What(Corrected(r)) \in DOMAIN Available
                /\ Limit(Corrected(r).numPlans) = Limit(r.numPlans)
                /\ What([r EXCEPT !.location = Validated[@]]) = What(Corrected(r))
<1>1. /\ r = [location |-> r.location, radius |-> r.radius,
              weekday |-> r.weekday, numPlans |-> r.numPlans]
      /\ r.numPlans \in Int
  BY RequestAssumption
<1>2. r \in ReqValue
  <2>1. r.location \in Locations
    BY DEF Locations
  <2>2. /\ r.radius \in {q.radius : q \in Request} \cup {0}
        /\ r.weekday \in {q.weekday : q \in Request} \cup {0}
    OBVIOUS
  <2> QED BY <1>1, <2>1, <2>2 DEF ReqValue
<1>3. ASSUME r.location \in DOMAIN Validated
      PROVE  /\ Corrected(r) \in ReqValue
             /\ What(Corrected(r)) \in DOMAIN Available
             /\ Limit(Corrected(r).numPlans) = Limit(r.numPlans)
             /\ What([r EXCEPT !.location = Validated[@]]) = What(Corrected(r))
  <2>1. Corrected(r) \in ReqValue
    <3>1. Validated[r.location] \in Locations
      BY <1>3 DEF Locations
    <3>2. Wanted(r.numPlans) \in Int
      BY <1>1 DEF Wanted, NumPlansDefault
    <3> QED BY <3>1, <3>2 DEF Corrected, ReqValue
  <2>2. What(Corrected(r)) \in DOMAIN Available
    BY <1>3, AvailableAssumption DEF What, Corrected
  <2>3. Limit(Corrected(r).numPlans) = Limit(r.numPlans)
    BY <1>1 DEF Corrected, Wanted, NumPlansDefault, Limit, TopSolutionsCountDefault
  <2>4. What([r EXCEPT !.location = Validated[@]]) = What(Corrected(r))
    BY <1>2 DEF What, Corrected, ReqValue
  <2> QED BY <2>1, <2>2, <2>3, <2>4
<1> QED BY <1>2, <1>3

\* The best of the plans found are as many as there are, up to the limit, or
\* fewer if not all were found.
LEMMA BestIsEnough ==
    ASSUME NEW numPlans \in Int, NEW all \in Nat, NEW found \in 0 .. all
    PROVE  /\ Best(numPlans, found) \in 0 .. all
           /\ Best(numPlans, found) <= Limit(numPlans)
           /\ found = all => Best(numPlans, found) = Best(numPlans, all)
BY DEF Best, Limit, TopSolutionsCountDefault
-----------------------------------------------------------------------------
(***************************************************************************)
(* The steps of a call.                                                    *)
(***************************************************************************)

Same(d) ==
    /\ pc'[d] = pc[d]
    /\ req'[d] = req[d]
    /\ asked'[d] = asked[d]
    /\ resp'[d] = resp[d]
    /\ code'[d] = code[d]

\* No call forgets what it has asked for once its location is found valid.
Forward(d) == Valid(d) => pc'[d] \notin {"idle", "validate"} /\ asked'[d] = asked[d]

\* What was enough for a call stays so: its request is not forgotten, and what was
\* searched for in full may only turn out to be short.
LEMMA EnoughGrows ==
    ASSUME Typed, \A d \in Call : Forward(d), short \subseteq short'
    PROVE  Enough \subseteq Enough'
<1>1. SUFFICES ASSUME NEW what \in DOMAIN Available, NEW num \in Nat, NEW d \in Call,
                      EnoughFor(what, num, d)
               PROVE  EnoughFor(what, num, d)'
  BY DEF Enough
<1>2. Valid(d) /\ Asked(d) = what
  BY <1>1 DEF EnoughFor
<1>3. asked'[d] = asked[d] /\ pc'[d] \notin {"idle", "validate"}
  BY <1>2 DEF Forward
<1>4. asked[d].numPlans \in Int /\ Available[what] \in 0 .. Available[what]
  <2>1. asked[d] \in Request \/ asked[d] = NoRequest
    BY DEF Typed
  <2>2. asked[d].numPlans \in Int
    <3>1. NoRequest.numPlans \in Int
      BY DEF NoRequest
    <3>2. \A r \in Request : r.numPlans \in Int
      BY RequestAssumption
    <3> QED BY <2>1, <3>1, <3>2
  <2>3. Available[what] \in Nat
    BY AvailableAssumption
  <2> QED BY <2>2, <2>3
<1>5. Best(asked[d].numPlans, Available[what]) <= Limit(asked[d].numPlans)
  BY <1>4, AvailableAssumption, BestIsEnough
<1>6. IF what \in short' THEN num <= Limit(asked[d].numPlans)
      ELSE num = Best(asked[d].numPlans, Available[what])
  BY <1>1, <1>5 DEF EnoughFor
<1>7. Valid(d)' /\ Asked(d)' = what
  BY <1>2, <1>3 DEF Valid, Asked, What
<1> QED BY <1>3, <1>6, <1>7 DEF EnoughFor

LEMMA MoveKeeps ==
    ASSUME Typed, NEW c \in Call, pc'[c] \notin {"idle", "validate"},
           asked' = asked, short \subseteq short', \A d \in Call \ {c} : Same(d)
    PROVE  Enough \subseteq Enough'
<1>1. \A d \in Call : Forward(d)
  BY DEF Forward, Valid, Same
<1> QED BY <1>1, EnoughGrows

LEMMA OthersKeep ==
    ASSUME NEW d \in Call, CallInv(d), Same(d), Enough \subseteq Enough'
    PROVE  CallInv(d)'
BY DEF CallInv, Same, PlansOf, What, Asked, Corrected, Wanted, NumPlansDefault

\* A step of one call that leaves the cache and the clock alone.
LEMMA CallStep ==
    ASSUME Inv, NEW c \in Call, Typed', Enough \subseteq Enough', CallInv(c)',
           UNCHANGED <<cache, now>>, \A d \in Call \ {c} : Same(d)
    PROVE  Inv'
<1>1. \A d \in Call : CallInv(d)'
  BY OthersKeep DEF Inv
<1>2. CacheInv'
  BY DEF Inv, CacheInv, PlansOf
<1> QED BY <1>1, <1>2 DEF Inv

LEMMA StartStep ==
    ASSUME Inv, NEW c \in Call, Start(c)
    PROVE  Inv'
<1>1. PICK r \in Request :
        /\ req' = [req EXCEPT ![c] = r]
        /\ asked' = [asked EXCEPT ![c] = r]
  BY DEF Start
<1>2. /\ pc[c] = "idle" /\ pc' = [pc EXCEPT ![c] = "validate"]
      /\ UNCHANGED <<resp, code, cache, now, short>>
  BY DEF Start, Move
<1>3. Typed /\ r \in ReqValue
  BY RequestTyped DEF Inv
<1>4. Typed' /\ \A d \in Call \ {c} : Same(d)
  BY <1>1, <1>2, <1>3 DEF Typed, Steps, Same
<1>5. pc'[c] = "validate" /\ req'[c] = r /\ asked'[c] = r
  BY <1>1, <1>2, <1>3 DEF Typed
<1>6. CallInv(c)'
  BY <1>5 DEF CallInv
<1>7. Enough \subseteq Enough'
  <2>1. \A d \in Call : Forward(d)
    BY <1>2, <1>4 DEF Forward, Valid, Same
  <2> QED BY <1>2, <1>3, <2>1, EnoughGrows
<1> QED BY <1>2, <1>4, <1>6, <1>7, CallStep

LEMMA ValidateLocationStep ==
    ASSUME Inv, NEW c \in Call, ValidateLocation(c)
    PROVE  Inv'
<1>1. /\ pc[c] = "validate" /\ pc' = [pc EXCEPT ![c] = "lookup"]
      /\ req[c].location \in DOMAIN Validated
      /\ req' = [req EXCEPT ![c] = Corrected(@)]
      /\ UNCHANGED <<resp, code, cache, now, asked, short>>
  BY DEF ValidateLocation, Move, history
<1>2. Typed /\ CallInv(c)
  BY DEF Inv
<1>3. asked[c] \in Request /\ req[c] = asked[c] /\ req[c] \in ReqValue
  BY <1>1, <1>2 DEF CallInv, Typed
<1>4. req' = [req EXCEPT ![c] = Corrected(asked[c])]
  BY <1>1, <1>2, <1>3 DEF Typed
<1>5. Corrected(asked[c]) \in ReqValue
  BY <1>1, <1>3, RequestTyped
<1>6. Typed' /\ \A d \in Call \ {c} : Same(d)
  BY <1>1, <1>2, <1>4, <1>5 DEF Typed, Steps, Same
<1>7. /\ pc'[c] = "lookup" /\ asked'[c] = asked[c] /\ req'[c] = Corrected(asked[c])
  BY <1>1, <1>2, <1>4 DEF Typed
<1>8. CallInv(c)'
  BY <1>1, <1>3, <1>7 DEF CallInv, Corrected, Wanted, NumPlansDefault
<1>9. Enough \subseteq Enough'
  BY <1>1, <1>2, <1>6, <1>7, MoveKeeps
<1> QED BY <1>1, <1>6, <1>8, <1>9, CallStep

\* Steps after which a call has an error code or nothing new.
LEMMA OtherStep ==
    ASSUME Inv, NEW c \in Call,
           InvalidLocation(c) \/ Miss(c) \/ NothingToIterate(c) \/ GeneratePanics(c)
    PROVE  Inv'
<1>1. PICK to \in {"done", "generate", "aborted"}, new \in Codes :
        /\ pc' = [pc EXCEPT ![c] = to]
        /\ code' = [code EXCEPT ![c] = new]
        /\ to = "done" => new # 0
        /\ to = "generate" => pc[c] = "lookup"
        /\ UNCHANGED <<req, resp, cache, now, asked, short>>
  <2>1. CASE Miss(c) \/ GeneratePanics(c)
    <3>1. code[c] \in Codes /\ code = [code EXCEPT ![c] = code[c]]
      BY DEF Inv, Typed
    <3> QED BY <2>1, <3>1 DEF Miss, GeneratePanics, Move, history
  <2>2. CASE InvalidLocation(c)
    BY <2>2 DEF InvalidLocation, Move, history, Codes, InvalidRequestLocation
  <2>3. CASE NothingToIterate(c)
    BY <2>3 DEF NothingToIterate, Move, history, Codes, CatPlaceIterInitFailure
  <2> QED BY <2>1, <2>2, <2>3
<1>2. Typed /\ CallInv(c)
  BY DEF Inv
<1>3. Typed' /\ \A d \in Call \ {c} : Same(d)
  BY <1>1, <1>2 DEF Typed, Steps, Same
<1>4. /\ pc'[c] = to /\ code'[c] = new /\ req'[c] = req[c]
      /\ resp'[c] = resp[c] /\ asked'[c] = asked[c]
  BY <1>1, <1>2 DEF Typed
<1>5. CallInv(c)'
  BY <1>1, <1>2, <1>4 DEF CallInv, Corrected, Wanted, NumPlansDefault
<1>6. Enough \subseteq Enough'
  BY <1>1, <1>2, <1>3, <1>4, MoveKeeps
<1> QED BY <1>1, <1>3, <1>5, <1>6, CallStep

\* What is found under the key of a request are plans for it.
LEMMA HitStep ==
    ASSUME Inv, NEW c \in Call, Hit(c)
    PROVE  Inv'
<1> DEFINE key == What(req[c])
           plans == [of |-> cache[key].of, num |-> cache[key].num]
<1>1. /\ pc[c] = "lookup" /\ pc' = [pc EXCEPT ![c] = "done"]
      /\ key \in DOMAIN cache
      /\ resp' = [resp EXCEPT ![c] = plans]
      /\ UNCHANGED <<req, code, cache, now, asked, short>>
  BY DEF Hit, Move, history, Cached, CacheKey, What
<1>2. Typed /\ CallInv(c) /\ CacheInv
  BY DEF Inv
<1>3. /\ asked[c] \in Request /\ asked[c].location \in DOMAIN Validated
      /\ req[c] = Corrected(asked[c])
  BY <1>1, <1>2 DEF CallInv
<1>4. key = Asked(c) /\ key \in DOMAIN Available
  BY <1>3, RequestTyped DEF Asked
<1>5. PlansOf(key, plans) /\ plans \in RespValue
  <2>1. PlansOf(key, cache[key])
    BY <1>1, <1>2 DEF CacheInv
  <2>2. Available[key] \in Nat
    BY <1>4, AvailableAssumption
  <2> QED BY <1>4, <2>1, <2>2 DEF PlansOf, RespValue
<1> HIDE DEF key, plans
<1>6. Typed' /\ \A d \in Call \ {c} : Same(d)
  BY <1>1, <1>2, <1>5 DEF Typed, Steps, Same
<1>7. /\ pc'[c] = "done" /\ resp'[c] = plans /\ asked'[c] = asked[c]
  BY <1>1, <1>2 DEF Typed
<1>8. Asked(c)' = key
  BY <1>4, <1>7 DEF Asked, What
<1>9. Enough \subseteq Enough'
  BY <1>1, <1>2, <1>6, <1>7, MoveKeeps
<1>10. CallInv(c)'
  BY <1>5, <1>7, <1>8, <1>9 DEF CallInv, PlansOf
<1> QED BY <1>1, <1>6, <1>9, <1>10, CallStep

LEMMA GenerateStep ==
    ASSUME Inv, NEW c \in Call, Generate(c)
    PROVE  Inv'
<1>0. PICK what : what = What(req[c])
  OBVIOUS
<1>1. /\ pc[c] = "generate" /\ pc' = [pc EXCEPT ![c] = "cache"]
      /\ UNCHANGED <<req, code, cache, now, asked>>
  BY DEF Generate, Move
<1>2. PICK found \in 0 .. Available[what] :
        /\ resp' = [resp EXCEPT ![c] = [of |-> what, num |-> Best(req[c].numPlans, found)]]
        /\ short' = IF found < Available[what] THEN short \cup {what} ELSE short
  BY <1>0 DEF Generate
<1>3. Typed /\ CallInv(c)
  BY DEF Inv
<1>4. /\ asked[c] \in Request /\ asked[c].location \in DOMAIN Validated
      /\ req[c] = Corrected(asked[c])
  BY <1>1, <1>3 DEF CallInv
<1>5. /\ what \in DOMAIN Available /\ what = Asked(c) /\ Available[what] \in Nat
      /\ req[c].numPlans \in Int
      /\ Limit(req[c].numPlans) = Limit(asked[c].numPlans)
  BY <1>0, <1>4, RequestTyped, AvailableAssumption DEF Asked, ReqValue
<1>50. PICK num : num = Best(req[c].numPlans, found)
  OBVIOUS
<1> DEFINE plans == [of |-> what, num |-> num]
<1>6. /\ num \in 0 .. Available[what] /\ num <= Limit(asked[c].numPlans)
      /\ found = Available[what] => num = Best(asked[c].numPlans, Available[what])
  <2>1. /\ num \in 0 .. Available[what] /\ num <= Limit(req[c].numPlans)
        /\ found = Available[what] => num = Best(req[c].numPlans, Available[what])
    BY <1>2, <1>5, <1>50, BestIsEnough
  <2>2. Best(req[c].numPlans, Available[what]) = Best(asked[c].numPlans, Available[what])
    BY <1>5 DEF Best
  <2> QED BY <1>5, <2>1, <2>2
<1>7. resp' = [resp EXCEPT ![c] = plans] /\ plans.of = what /\ plans.num = num
  BY <1>2, <1>50
<1>8. Typed' /\ \A d \in Call \ {c} : Same(d)
  <2>1. plans \in RespValue /\ short' \subseteq DOMAIN Available
    BY <1>2, <1>3, <1>5, <1>6 DEF RespValue, Typed
  <2> QED BY <1>1, <1>3, <1>7, <2>1 DEF Typed, Steps, Same
<1>9. /\ pc'[c] = "cache" /\ resp'[c] = plans /\ asked'[c] = asked[c]
      /\ req'[c] = req[c]
  BY <1>1, <1>3, <1>7 DEF Typed
<1>10. Enough \subseteq Enough'
  BY <1>1, <1>2, <1>3, <1>8, <1>9, MoveKeeps
<1>11. <<what, num>> \in Enough'
  <2>1. Valid(c)' /\ Asked(c)' = what
    BY <1>4, <1>5, <1>9 DEF Valid, Asked, What
  <2>2. IF what \in short' THEN num <= Limit(asked'[c].numPlans)
        ELSE num = Best(asked'[c].numPlans, Available[what])
    BY <1>2, <1>5, <1>6, <1>9
  <2>3. EnoughFor(what, num, c)'
    BY <1>9, <2>1, <2>2 DEF EnoughFor
  <2>4. what \in DOMAIN Available /\ num \in Nat
    BY <1>5, <1>6
  <2> QED BY <2>3, <2>4 DEF Enough
<1>12. What(req[c])' = what
  BY <1>0, <1>9 DEF What
<1>13. PlansOf(What(req[c]), resp[c])'
  BY <1>6, <1>7, <1>9, <1>11, <1>12 DEF PlansOf
<1>14. CallInv(c)'
  BY <1>4, <1>9, <1>13 DEF CallInv, Corrected, Wanted, NumPlansDefault
<1> QED BY <1>1, <1>8, <1>10, <1>14, CallStep

-----------------------------------------------------------------------------
(***************************************************************************)
(* The cache.                                                              *)
(***************************************************************************)

LEMMA CacheSlotSolutionStep ==
    ASSUME Inv, NEW c \in Call, CacheSlotSolution(c)
    PROVE  Inv'
<1> DEFINE key == What(req[c])
           entry == [of |-> resp[c].of, num |-> resp[c].num, set |-> now]
<1>1. /\ pc[c] = "cache" /\ pc' = [pc EXCEPT ![c] = "invalidate"]
      /\ \/ cache' = [k \in DOMAIN cache \cup {key} |->
                         IF k = key THEN entry ELSE cache[k]]
         \/ cache' = cache
      /\ UNCHANGED <<req, resp, code, now, asked, short>>
  BY DEF CacheSlotSolution, Move, history, CacheKey, What
<1>2. Typed /\ CallInv(c) /\ CacheInv
  BY DEF Inv
<1>3. /\ asked[c] \in Request /\ asked[c].location \in DOMAIN Validated
      /\ req[c] = Corrected(asked[c]) /\ PlansOf(key, resp[c])
  BY <1>1, <1>2 DEF CallInv
<1>4. key \in DOMAIN Available
  BY <1>3, RequestTyped
<1>5. /\ PlansOf(key, entry) /\ entry.set \in 0 .. now
      /\ now - entry.set < Expiration
  BY <1>2, <1>3, TimeAssumption DEF PlansOf, Typed
<1>6. Typed' /\ \A d \in Call \ {c} : Same(d)
  BY <1>1, <1>2 DEF Typed, Steps, Same
<1>7. /\ pc'[c] = "invalidate" /\ asked'[c] = asked[c] /\ req'[c] = req[c]
      /\ resp'[c] = resp[c]
  BY <1>1, <1>2 DEF Typed
<1>8. Enough \subseteq Enough'
  BY <1>1, <1>2, <1>6, <1>7, MoveKeeps
<1>9. CallInv(c)'
  BY <1>3, <1>7, <1>8 DEF CallInv, PlansOf, What, Corrected, Wanted, NumPlansDefault
<1>10. \A d \in Call : CallInv(d)'
  BY <1>2, <1>6, <1>8, <1>9, OthersKeep DEF Inv
<1> HIDE DEF key, entry
<1>11. CacheInv'
  BY <1>1, <1>2, <1>4, <1>5, <1>8 DEF CacheInv, PlansOf
<1> QED BY <1>6, <1>10, <1>11 DEF Inv

LEMMA InvalidateStep ==
    ASSUME Inv, NEW c \in Call, Invalidate(c)
    PROVE  Inv'
<1>1. /\ pc[c] = "invalidate" /\ pc' = [pc EXCEPT ![c] = "done"]
      /\ DOMAIN cache' \subseteq DOMAIN cache
      /\ \A k \in DOMAIN cache' : cache'[k] = cache[k]
      /\ UNCHANGED <<req, resp, code, now, asked, short>>
  BY DEF Invalidate, Move, history
<1>2. Typed /\ CallInv(c) /\ CacheInv
  BY DEF Inv
<1>3. /\ asked[c] \in Request /\ asked[c].location \in DOMAIN Validated
      /\ req[c] = Corrected(asked[c]) /\ PlansOf(What(req[c]), resp[c])
  BY <1>1, <1>2 DEF CallInv
<1>4. What(req[c]) = Asked(c)
  BY <1>3, RequestTyped DEF Asked
<1>5. Typed' /\ \A d \in Call \ {c} : Same(d)
  BY <1>1, <1>2 DEF Typed, Steps, Same
<1>6. pc'[c] = "done" /\ asked'[c] = asked[c] /\ resp'[c] = resp[c]
  BY <1>1, <1>2 DEF Typed
<1>7. Asked(c)' = Asked(c)
  BY <1>6 DEF Asked, What
<1>8. Enough \subseteq Enough'
  BY <1>1, <1>2, <1>5, <1>6, MoveKeeps
<1>9. CallInv(c)'
  BY <1>3, <1>4, <1>6, <1>7, <1>8 DEF CallInv, PlansOf
<1>10. \A d \in Call : CallInv(d)'
  BY <1>2, <1>5, <1>8, <1>9, OthersKeep DEF Inv
<1>11. CacheInv'
  BY <1>1, <1>2, <1>8 DEF CacheInv, PlansOf
<1> QED BY <1>5, <1>10, <1>11 DEF Inv

\* What would be too old is dropped.
LEMMA TickStep ==
    ASSUME Inv, Tick
    PROVE  Inv'
<1>1. /\ now < MaxTime /\ now' = now + 1
      /\ DOMAIN cache' = {key \in DOMAIN cache : ~ Expired(cache[key], now')}
      /\ \A k \in DOMAIN cache' : cache'[k] = cache[k]
      /\ UNCHANGED <<pc, req, resp, code, asked, short>>
  BY DEF Tick, history
<1>2. Typed /\ CacheInv
  BY DEF Inv
<1>3. now \in Nat /\ MaxTime \in Nat /\ Expiration \in Nat
  BY <1>2, TimeAssumption DEF Typed
<1>4. Typed'
  BY <1>1, <1>2, <1>3 DEF Typed
<1>0. Enough \subseteq Enough'
  BY <1>1, <1>2, EnoughGrows DEF Forward, Valid
<1>5. \A d \in Call : CallInv(d)'
  BY <1>0, <1>1, OthersKeep DEF Inv, Same
<1>6. CacheInv'
  <2>1. SUFFICES ASSUME NEW key \in DOMAIN cache'
                 PROVE  /\ key \in DOMAIN Available
                        /\ PlansOf(key, cache[key])
                        /\ cache[key].set \in 0 .. now'
                        /\ now' - cache[key].set < Expiration
    BY <1>0, <1>1 DEF CacheInv, PlansOf
  <2>2. /\ key \in DOMAIN Available /\ PlansOf(key, cache[key])
        /\ cache[key].set \in 0 .. now
    BY <1>1, <1>2 DEF CacheInv
  <2>3. ~ (now' - cache[key].set >= Expiration)
    BY <1>1 DEF Expired
  <2> QED BY <1>1, <1>3, <2>2, <2>3
<1> QED BY <1>4, <1>5, <1>6 DEF Inv
-----------------------------------------------------------------------------
LEMMA InitInv == Init => Inv
<1> SUFFICES ASSUME Init
             PROVE  Inv
  OBVIOUS
<1>1. Typed
  <2>1. NoRequest \in ReqValue
    BY DEF NoRequest, ReqValue, Locations
  <2>2. NoPlans \in RespValue
    BY DEF NoPlans, RespValue
  <2> QED BY <2>1, <2>2, TimeAssumption DEF Init, Typed, Steps, Codes
<1>2. \A c \in Call : CallInv(c)
  BY DEF Init, CallInv
<1>3. CacheInv
  BY DEF Init, CacheInv
<1> QED BY <1>1, <1>2, <1>3 DEF Inv

LEMMA InvStep ==
    ASSUME Inv, [Next]_vars
    PROVE  Inv'
<1>1. CASE UNCHANGED vars
  <2>0. Enough \subseteq Enough'
    BY <1>1, EnoughGrows DEF vars, history, Inv, Forward, Valid
  <2>1. \A c \in Call : CallInv(c)'
    BY <1>1, <2>0, OthersKeep DEF vars, history, Inv, Same
  <2>2. Typed' /\ CacheInv'
    BY <1>1, <2>0 DEF vars, history, Inv, Typed, CacheInv, PlansOf
  <2> QED BY <2>1, <2>2 DEF Inv
<1>2. CASE Tick
  BY <1>2, TickStep
<1>3. ASSUME NEW c \in Call, Start(c) \/ Solve(c)
      PROVE  Inv'
  BY <1>3, StartStep, ValidateLocationStep, OtherStep, HitStep, GenerateStep,
     CacheSlotSolutionStep, InvalidateStep DEF Solve
<1> QED BY <1>1, <1>2, <1>3 DEF Next

LEMMA Invariance == Spec => []Inv
BY InitInv, InvStep, PTL DEF Spec

\* A call answers with plans for its own location, radius and weekday, found
\* by itself or by an earlier or concurrent call, whatever has expired since
\* and whatever Redis failed to do (Solve, GetMultiSlotSolutions,
\* CacheSlotSolution).
THEOREM AnswersAreOfRequest == Spec => []AnswerOfRequest
<1>1. Inv => AnswerOfRequest
  BY DEF Inv, CallInv, PlansOf, AnswerOfRequest
<1> QED BY <1>1, Invariance, PTL

\* An answer has as many plans as there are, up to the number that it or another
\* call for the same has asked for (five if that is none or negative), unless a
\* search for the same has fallen short (Solve, FindBestPlanningSolutions).
THEOREM PlansAreEnough == Spec => []EnoughPlans
<1>1. Inv => EnoughPlans
  BY DEF Inv, CallInv, PlansOf, Enough, EnoughPlans
<1> QED BY <1>1, Invariance, PTL

\* No key outlives the expiration, and each has plans that there are.
THEOREM SolutionCacheTypeCorrect == Spec => []TypeOK
<1>1. Inv => TypeOK
  BY DEF Inv, Typed, Codes, CacheInv, PlansOf, TypeOK
<1> QED BY <1>1, Invariance, PTL
=============================================================================
