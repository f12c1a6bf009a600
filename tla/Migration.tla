----------------------------- MODULE Migration -----------------------------
(***************************************************************************)
(* addDataFieldsToPlaces, AddUserRatingsTotal and AddUrl                   *)
(* (iowrappers/data_migrations.go): places that have not been marked are   *)
(* marked, asked about at Google Maps, and written back with the field     *)
(* that is new, a batch for each call.  The handlers, for users of level   *)
(* admin, pass on a context without request ID, on which a details search  *)
(* panics in a goroutine of its own and ends the process.  A caller of the *)
(* package ("add") may pass one.  Redis outlives the process, and place    *)
(* searches store places in it meanwhile.                                  *)
(***************************************************************************)
EXTENDS Accounts

CONSTANTS
    Place,      \* places whose details are in Redis
    Field,      \* fields that migrations add
    Stored,     \* fields that searches may store places with
    BatchSize,  \* as in the code
    MaxRepeated, \* bound: how often SCAN repeats a key
    MaxSearches  \* bound: places that searches store

ASSUME BatchSizeAssumption == BatchSize \in Nat \ {0}
ASSUME RepeatedAssumption == MaxRepeated \in Nat
ASSUME PlaceAssumption == IsFiniteSet(Place)
ASSUME StoredAssumption == Stored \subseteq [Place -> SUBSET Field]
ASSUME FieldAssumption ==
    \A c \in Call : Request[c].op \in {"migrate", "add"} => Request[c].field \in Field

VARIABLES
    marked,     \* Redis: migration:<field>, the places taken care of
    details,    \* Redis: place_details, the fields each place has
    todo,       \* places of the loop a call is in
    batch,      \* placesNeedUpdate, and then the part that is updated
    searching,  \* details searches in flight, by their index in the batch
    found,      \* newPlaceDetailsResults: the indices with a result
    unread,     \* places of the results whose details are still to be read
    writing,    \* setPlace in flight: the fields each place is to have
    skipped,    \* calls that have left out a place without wg.Done
    searches,   \* places that searches have stored, counted for the bound
    asked,      \* history: who has asked Maps for a field of a place
    alone,      \* history: migrations that no other has overlapped
    mixed,      \* history: fields with migrations that overlapped or failed
    before,     \* history: details when a migration started
    renewed     \* history: places stored by searches since then

redis == <<marked, details>>
work == <<todo, batch, searching, found, unread, writing, skipped>>
history == <<searches, asked, alone, mixed, before, renewed>>
migrationVars == <<redis, work, history>>
vars == <<accountVars, migrationVars>>

Migrations == With({"migrate", "add"})
FieldOf(c) == Request[c].field
Migrating(c) ==
    c \in Migrations /\ pc[c] \in {"select", "mark", "update"}

Nothing == [p \in {} |-> {}]

Init ==
    /\ AccountsInit
    /\ marked = [f \in Field |-> {}]
    /\ details \in Stored
    /\ todo = [c \in Call |-> <<>>]
    /\ batch = [c \in Call |-> <<>>]
    /\ searching = [c \in Call |-> {}]
    /\ found = [c \in Call |-> {}]
    /\ unread = [c \in Call |-> {}]
    /\ writing = [c \in Call |-> Nothing]
    /\ skipped = {}
    /\ searches = 0
    /\ asked = [f \in Field |-> [p \in Place |-> {}]]
    /\ alone = Migrations
    /\ mixed = {}
    /\ before = [c \in Call |-> Nothing]
    /\ renewed = [c \in Call |-> {}]

AccountsUnchanged == UNCHANGED <<who, store, contested>>

\* A caller of the package needs no account.
Add(c) ==
    /\ Begin(c, {"add"}, "scan")
    /\ UNCHANGED <<who, store, failed, contested, migrationVars>>

\* Other migrations are under way.
Overlaps(c) ==
    LET others == {d \in Call : Migrating(d)}
    IN  /\ alone' = IF others = {} THEN alone ELSE alone \ (others \cup {c})
        /\ mixed' = IF \E d \in others : FieldOf(d) = FieldOf(c)
                    THEN mixed \cup {FieldOf(c)}
                    ELSE mixed

\* What SCAN may return: every place, in any order, and some more than once.
Scans ==
    LET n == Cardinality(Place)
    IN  UNION {{s \in [1 .. m -> Place] : Range(s) = Place} : m \in n .. n + MaxRepeated}

\* GetPlaceCountInRedis, which appends the keys as SCAN returns them.
Scan(c) ==
    /\ Move(c, "scan", "select")
    /\ \E keys \in Scans : todo' = [todo EXCEPT ![c] = keys]
    /\ Overlaps(c)
    /\ before' = [before EXCEPT ![c] = details]
    /\ renewed' = [renewed EXCEPT ![c] = {}]
    /\ AccountsUnchanged
    /\ UNCHANGED <<failed, redis, batch, searching, found, unread, writing, skipped,
                   searches, asked>>

ScanFails(c) ==
    /\ Move(c, "scan", "done")
    /\ Fail(c)
    /\ AccountsUnchanged
    /\ UNCHANGED migrationVars

\* SISMEMBER of the next place; one that fails counts as not updated.
Select(c) ==
    /\ pc[c] = "select"
    /\ todo[c] # <<>>
    /\ LET p == Head(todo[c])
           need == [batch EXCEPT ![c] = Append(@, p)]
       IN  \/ /\ batch' = IF p \in marked[FieldOf(c)] THEN batch ELSE need
              /\ UNCHANGED <<failed, mixed>>
           \/ /\ Fail(c)
              /\ batch' = need
              /\ mixed' = mixed \cup {FieldOf(c)}
    /\ todo' = [todo EXCEPT ![c] = Tail(@)]
    /\ AccountsUnchanged
    /\ UNCHANGED <<pc, redis, searching, found, unread, writing, skipped, searches,
                   asked, alone, before, renewed>>

\* Fault of Part: the places are not cut to a batch.
Whole(c) == batch[c]

\* As many of the places selected as a batch holds.
Part(c) == SubSeq(batch[c], 1, Min({Len(batch[c]), BatchSize}))

EndSelect(c) ==
    /\ todo[c] = <<>>
    /\ Move(c, "select", "mark")
    /\ batch' = [batch EXCEPT ![c] = Part(c)]
    /\ todo' = [todo EXCEPT ![c] = Part(c)]
    /\ AccountsUnchanged
    /\ UNCHANGED <<failed, redis, searching, found, unread, writing, skipped, history>>

\* Fault of Marks: the place is left to be marked when it is written back.
MarksLater(c, p) == marked

\* SADD to migration:<field>.
Marks(c, p) == [marked EXCEPT ![FieldOf(c)] = @ \cup {p}]

\* The next place is marked, which is not looked at, and a details search of
\* it started for its index in the batch.
Mark(c) ==
    /\ pc[c] = "mark"
    /\ todo[c] # <<>>
    /\ LET p == Head(todo[c])
       IN  /\ \/ /\ marked' = Marks(c, p)
                 /\ UNCHANGED <<failed, mixed>>
              \/ /\ Fail(c)
                 /\ mixed' = mixed \cup {FieldOf(c)}
                 /\ UNCHANGED marked
           /\ asked' = [asked EXCEPT ![FieldOf(c)][p] = @ \cup {c}]
    /\ searching' =
          [searching EXCEPT ![c] = @ \cup {Len(batch[c]) - Len(todo[c]) + 1}]
    /\ todo' = [todo EXCEPT ![c] = Tail(@)]
    /\ AccountsUnchanged
    /\ UNCHANGED <<pc, details, batch, found, unread, writing, skipped, searches,
                   alone, before, renewed>>

\* PlaceDetailsSearchWrapper: Google Maps answers the search, or fails it and
\* leaves the result nil.
DetailsArrive(c) ==
    /\ Request[c].op = "add"
    /\ \E i \in searching[c] :
        /\ searching' = [searching EXCEPT ![c] = @ \ {i}]
        /\ found' \in {found, [found EXCEPT ![c] = @ \cup {i}]}
    /\ AccountsUnchanged
    /\ UNCHANGED <<pc, failed, redis, todo, batch, unread, writing, skipped, history>>

\* PlaceDetailedSearch for a handler: without request ID the answer ends in a
\* panic that nothing recovers.  All calls are lost; the next one finds a new
\* process.
Panic(c) ==
    /\ Request[c].op = "migrate"
    /\ searching[c] # {}
    /\ pc' = [d \in Call |-> IF Running(d) THEN "crashed" ELSE pc[d]]
    /\ todo' = [d \in Call |-> <<>>]
    /\ batch' = [d \in Call |-> <<>>]
    /\ searching' = [d \in Call |-> {}]
    /\ found' = [d \in Call |-> {}]
    /\ unread' = [d \in Call |-> {}]
    /\ writing' = [d \in Call |-> Nothing]
    /\ AccountsUnchanged
    /\ UNCHANGED <<failed, redis, skipped, history>>

\* wg.Wait of addDataFieldsToPlaces, which returns one result for each place.
EndSearch(c) ==
    /\ todo[c] = <<>>
    /\ searching[c] = {}
    /\ Move(c, "mark", "update")
    /\ unread' = [unread EXCEPT ![c] = Range(batch[c])]
    /\ AccountsUnchanged
    /\ UNCHANGED <<failed, redis, todo, batch, searching, found, writing, skipped,
                   history>>

\* The places with a result: of a place that is more than once in the batch,
\* the last one stays in the map.
Answered(c) ==
    {p \in Range(batch[c]) :
        Max({i \in DOMAIN batch[c] : batch[c][i] = p}) \in found[c]}

\* SetURL and SetUserRatingsTotal on the place that was read; a nil result
\* sets the zero value.
WithField(c, p) ==
    IF p \in Answered(c) THEN details[p] \cup {FieldOf(c)}
    ELSE details[p] \ {FieldOf(c)}

\* getPlace of any place left (the results are a map), and setPlace started
\* in a goroutine.
ReadPlace(c) ==
    /\ pc[c] = "update"
    /\ \E p \in unread[c] :
        /\ unread' = [unread EXCEPT ![c] = @ \ {p}]
        /\ writing' = [writing EXCEPT ![c] = Put(@, p, WithField(c, p))]
    /\ AccountsUnchanged
    /\ UNCHANGED <<pc, failed, redis, todo, batch, searching, found, skipped, history>>

\* A place that cannot be read is left out, and wg.Done is not called for it.
ReadPlaceFails(c) ==
    /\ pc[c] = "update"
    /\ \E p \in unread[c] : unread' = [unread EXCEPT ![c] = @ \ {p}]
    /\ Fail(c)
    /\ skipped' = skipped \cup {c}
    /\ AccountsUnchanged
    /\ UNCHANGED <<pc, redis, todo, batch, searching, found, writing, history>>

\* setPlace, which calls wg.Done whether SET fails or not.
WritePlace(c) ==
    /\ \E p \in DOMAIN writing[c] :
        /\ \/ /\ details' = [details EXCEPT ![p] = writing[c][p]]
              /\ UNCHANGED failed
           \/ Fail(c) /\ UNCHANGED details
        /\ writing' = [writing EXCEPT ![c] = [q \in DOMAIN @ \ {p} |-> @[q]]]
    /\ AccountsUnchanged
    /\ UNCHANGED <<pc, marked, todo, batch, searching, found, unread, skipped, history>>

\* Fault of AllDone: the handler does not wait for the writes.
AllStarted(c) == unread[c] = {}

\* Fault of AllDone: a place without an answer is skipped like one that cannot
\* be read.
AllAnswered(c) ==
    unread[c] = {} /\ writing[c] = Nothing /\ Range(batch[c]) = Answered(c)

\* wg.Wait of AddUrl and of AddUserRatingsTotal.
AllDone(c) == unread[c] = {} /\ writing[c] = Nothing /\ c \notin skipped

Return(c) ==
    /\ AllDone(c)
    /\ Move(c, "update", "done")
    /\ batch' = [batch EXCEPT ![c] = <<>>]
    /\ found' = [found EXCEPT ![c] = {}]
    /\ AccountsUnchanged
    /\ UNCHANGED <<failed, redis, todo, searching, unread, writing, skipped, history>>

\* setPlace of a place search (SetPlacesOnCategory), with the fields the place
\* has come with.  One that fails changes nothing.
SearchStores(p) ==
    /\ searches < MaxSearches
    /\ searches' = searches + 1
    /\ \E stored \in Stored : details' = [details EXCEPT ![p] = stored[p]]
    /\ renewed' = [c \in Call |-> IF Migrating(c) THEN renewed[c] \cup {p} ELSE renewed[c]]
    /\ UNCHANGED <<accountVars, marked, work, asked, alone, mixed, before>>

MigrationStep(c) ==
    \/ Select(c) \/ EndSelect(c) \/ Mark(c) \/ EndSearch(c)
    \/ ReadPlace(c) \/ ReadPlaceFails(c) \/ WritePlace(c) \/ Return(c)

Next ==
    \/ AccountsNext /\ UNCHANGED migrationVars
    \/ \E c \in Migrations :
        \/ Add(c) \/ Scan(c) \/ ScanFails(c) \/ MigrationStep(c)
        \/ DetailsArrive(c) \/ Panic(c)
    \/ \E p \in Place : SearchStores(p)

\* Go runs what can run, and a Redis command ends; Google Maps may never
\* answer, and nobody has to call.
Spec == Init /\ [][Next]_vars /\ \A c \in Migrations : WF_vars(MigrationStep(c))
-----------------------------------------------------------------------------
TypeOK ==
    /\ AccountsTypeOK
    /\ pc \in [Call -> Final \cup {"check", "write", "exists", "get", "scan",
                                   "select", "mark", "update"}]
    /\ marked \in [Field -> SUBSET Place]
    /\ details \in [Place -> SUBSET Field]
    /\ \A c \in Call :
        /\ Range(todo[c]) \cup Range(batch[c]) \cup DOMAIN writing[c] \subseteq Place
        /\ pc[c] \in {"mark", "update"} =>
              /\ Len(batch[c]) <= BatchSize
              /\ searching[c] \cup found[c] \subseteq DOMAIN batch[c]
              /\ unread[c] \cup DOMAIN writing[c] \subseteq Range(batch[c])
    /\ skipped \subseteq failed

\* "persist updated places in a Redis Set": of all migrations of a field, one
\* after another or after one that the end of the process broke off, only one
\* asks Google Maps for it about a place (and that one more than once only for
\* a place that SCAN repeats).  Exceptions are fields of which two migrations
\* overlapped, or whose set Redis failed.
AskedByOne == \A f \in Field \ mixed, p \in Place : \A c, d \in asked[f][p] : c = d

\* When a migration that no other overlapped and Redis did not fail returns,
\* the places that Google Maps has answered for are in Redis with the field,
\* and no place has lost another field, but for places that a search has stored
\* since the migration started.
BatchStored ==
    [][\A c \in alone \ failed :
        pc[c] = "update" /\ pc'[c] = "done" =>
            /\ \A p \in Answered(c) \ renewed[c] : FieldOf(c) \in details'[p]
            /\ \A p \in Place \ renewed[c] :
                 before[c][p] \ {FieldOf(c)} \subseteq details'[p]]_vars

\* Once the details have come a migration returns, unless a Redis command of
\* its own has failed or the process ends.
MigrationEnds ==
    \A c \in Migrations :
        pc[c] = "update" ~> pc[c] \in {"done", "crashed"} \/ c \in failed
=============================================================================
