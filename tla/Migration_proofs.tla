-------------------------- MODULE Migration_proofs --------------------------
(***************************************************************************)
(* Proofs about sign-ups and migrations, for any calls, any numbers of     *)
(* them at a time and of failures, any places, fields and batch size.      *)
(***************************************************************************)
EXTENDS Migration, FiniteSetTheorems, SequenceTheorems, TLAPS

-----------------------------------------------------------------------------
(***************************************************************************)
(* Accounts.                                                               *)
(***************************************************************************)

PcValue == Final \cup {"check", "write", "exists", "get", "scan", "select",
                       "mark", "update"}
SignUpPc == {"check", "write", "created"}

Typed ==
    /\ pc \in [Call -> PcValue]
    /\ who \in [Call -> User \cup {NoName}]
    /\ cookies \in [jwt : BOOLEAN, name : User \cup {NoName}]

\* Only sign-ups check and write a name, and it is theirs.
OwnNames ==
    \A c \in Call : pc[c] \in SignUpPc => c \in SignUps /\ who[c] = Request[c].user

\* Where names are not contested, a sign-up that is to write finds no account,
\* and two sign-ups at a time are for two names.
NothingToReplace ==
    \A c \in Call : pc[c] = "write" /\ who[c] \notin contested =>
        who[c] \notin DOMAIN users

OneAtATime ==
    \A c, d \in Call :
        /\ c # d
        /\ pc[c] \in {"check", "write"}
        /\ pc[d] \in {"check", "write"}
        /\ who[c] = who[d]
        => who[c] \in contested

AccountsInv ==
    Typed /\ OwnNames /\ NothingToReplace /\ OneAtATime /\ AccountKept

\* A step of no sign-up: it enters none of their states and leaves accounts be.
Aside ==
    /\ Typed'
    /\ \A d \in Call : pc'[d] \in SignUpPc => pc'[d] = pc[d] /\ who'[d] = who[d]
    /\ users' = users
    /\ contested' = contested

LEMMA AsideKeeps ==
    ASSUME AccountsInv, Aside
    PROVE  AccountsInv'
BY DEF AccountsInv, Aside, Typed, OwnNames, NothingToReplace, OneAtATime,
       AccountKept, SignUpPc, SignUps, With, Account, SignUps, With

LEMMA InitAccounts == Init => AccountsInv
<1> SUFFICES ASSUME AccountsInit
             PROVE  AccountsInv
  BY DEF Init
<1>1. Typed
  BY DEF AccountsInit, Typed, NoCookies, NoName, PcValue, Final
<1>2. \A c \in Call : pc[c] = "idle"
  BY DEF AccountsInit
<1>3. OwnNames /\ NothingToReplace /\ OneAtATime /\ AccountKept
  BY <1>2 DEF OwnNames, NothingToReplace, OneAtATime, AccountKept, SignUpPc,
              SignUps, With
<1> QED BY <1>1, <1>3 DEF AccountsInv

LEMMA StandAside ==
    ASSUME Typed, UNCHANGED <<pc, who, users, contested>>,
           cookies' \in [jwt : BOOLEAN, name : User \cup {NoName}]
    PROVE  Aside
BY DEF Typed, Aside

LEMMA UserOf ==
    ASSUME NEW c \in Call, Request[c].op \in {"signup", "login"}
    PROVE  Request[c].user \in User
BY DEF User, With

\* The write replaces no account that was created and is not contested.
LEMMA WriteKeeps ==
    ASSUME AccountsInv, NEW c \in Call, pc[c] = "write",
           NEW to \in {"created", "refused"}, pc' = [pc EXCEPT ![c] = to],
           who' = who, cookies' = cookies, contested' = contested,
           \/ users' = Created(c)
           \/ to = "refused" /\ users' = users
    PROVE  AccountsInv'
<1> USE DEF AccountsInv, SignUpPc, PcValue, Final
<1>1. Typed' /\ OwnNames' /\ OneAtATime'
  BY DEF Typed, OwnNames, OneAtATime
<1>2. \/ users' = users /\ to = "refused"
      \/ /\ DOMAIN users' = DOMAIN users \cup {who[c]}
         /\ users'[who[c]] = Account(c)
         /\ \A u \in DOMAIN users \ {who[c]} : users'[u] = users[u]
  BY DEF Created, Put
<1>3. NothingToReplace'
  BY <1>2 DEF Typed, NothingToReplace, OneAtATime
<1>4. AccountKept'
  BY <1>2 DEF Typed, AccountKept, NothingToReplace, OwnNames, Account, SignUps, With
<1> QED BY <1>1, <1>3, <1>4

LEMMA SignUpStep ==
    ASSUME AccountsInv, NEW c \in Call,
           SignUp(c) \/ CheckName(c) \/ CheckNameFails(c) \/ WriteUser(c)
             \/ WriteUserFails(c)
    PROVE  AccountsInv'
<1> USE DEF AccountsInv, SignUpPc, PcValue, Final, Move
<1>1. CASE SignUp(c)
  <2>1. /\ pc' = [pc EXCEPT ![c] = "check"]
        /\ who' = [who EXCEPT ![c] = Request[c].user]
        /\ c \in SignUps
        /\ cookies' = cookies
        /\ users' = users
        /\ contested' = IF \E d \in SignUps : Running(d) /\ who[d] = Request[c].user
                        THEN contested \cup {Request[c].user}
                        ELSE contested
    BY <1>1 DEF SignUp, Begin, SignUps, With, store
  <2>2. Request[c].user \in User
    BY <1>1, UserOf DEF SignUp, Begin
  <2>3. \A d \in Call : pc[d] \in {"check", "write"} => d \in SignUps /\ Running(d)
    BY DEF OwnNames, Running, Final
  <2>4. Typed'
    BY <2>1, <2>2 DEF Typed
  <2>5. OwnNames' /\ NothingToReplace' /\ AccountKept'
    BY <2>1, <2>2 DEF Typed, OwnNames, NothingToReplace, AccountKept, Account, SignUps, With
  <2>6. /\ pc'[c] = "check" /\ who'[c] = Request[c].user
        /\ \A d \in Call \ {c} : pc'[d] = pc[d] /\ who'[d] = who[d]
        /\ contested \subseteq contested'
    BY <2>1 DEF Typed
  <2>7. ASSUME NEW d \in Call \ {c}, pc'[d] \in {"check", "write"}, who'[d] = who'[c]
        PROVE  who'[c] \in contested'
    <3>1. d \in SignUps /\ Running(d) /\ who[d] = Request[c].user
      BY <2>3, <2>6, <2>7
    <3> QED BY <2>1, <2>6, <3>1
  <2>8. OneAtATime'
    BY <2>6, <2>7 DEF OneAtATime
  <2> QED BY <2>4, <2>5, <2>8
<1>2. CASE CheckName(c)
  <2>1. /\ pc[c] = "check"
        /\ pc' = [pc EXCEPT ![c] = IF NameIsFree(who[c]) THEN "write" ELSE "refused"]
        /\ who' = who
        /\ cookies' = cookies
        /\ users' = users
        /\ contested' = contested
    BY <1>2 DEF CheckName, store
  <2>2. Typed' /\ OwnNames' /\ NothingToReplace' /\ AccountKept'
    BY <2>1 DEF Typed, OwnNames, NothingToReplace, AccountKept, Account, SignUps, With, NameIsFree
  <2>3. OneAtATime'
    BY <2>1 DEF Typed, OneAtATime
  <2> QED BY <2>2, <2>3
<1>3. CASE CheckNameFails(c)
  <2>1. /\ pc[c] = "check"
        /\ pc' = [pc EXCEPT ![c] = "write"]
        /\ who' = who
        /\ cookies' = cookies
        /\ users' = users
        /\ contested' = contested \cup {who[c]}
    BY <1>3 DEF CheckNameFails, store
  <2>2. Typed' /\ OwnNames' /\ NothingToReplace' /\ AccountKept'
    BY <2>1 DEF Typed, OwnNames, NothingToReplace, AccountKept, Account, SignUps, With
  <2>3. OneAtATime'
    BY <2>1 DEF Typed, OneAtATime
  <2> QED BY <2>2, <2>3
<1>4. CASE WriteUser(c)
  <2>1. /\ pc[c] = "write"
        /\ pc' = [pc EXCEPT ![c] = "created"]
        /\ who' = who
        /\ cookies' = cookies
        /\ users' = Created(c)
        /\ contested' = contested
    BY <1>4 DEF WriteUser
  <2> QED BY <2>1, WriteKeeps
<1>5. CASE WriteUserFails(c)
  <2>1. /\ pc[c] = "write"
        /\ pc' = [pc EXCEPT ![c] = "refused"]
        /\ who' = who
        /\ cookies' = cookies
        /\ users' = users \/ users' = Created(c)
        /\ contested' = contested
    BY <1>5 DEF WriteUserFails
  <2> QED BY <2>1, WriteKeeps
<1> QED BY <1>1, <1>2, <1>3, <1>4, <1>5


\* No other step of Accounts is a sign-up's.
LEMMA OtherAccountsStep ==
    ASSUME Typed, NEW c \in Call,
           Login(c) \/ Authenticate(c) \/ FindUser(c) \/ CheckPassword(c) \/ CheckLevel(c)
    PROVE  Aside
<1> USE DEF SignUpPc, PcValue, Final, Move, Typed, Aside
<1>1. CASE Login(c)
  <2>1. Request[c].user \in User
    BY <1>1, UserOf DEF Login, Begin
  <2> QED BY <1>1, <2>1 DEF Login, Begin, store
<1>2. CASE Authenticate(c)
  <2>1. PICK to \in {"refused", "panicked", "exists"} : pc' = [pc EXCEPT ![c] = to]
    BY <1>2 DEF Authenticate, Begin
  <2>2. who' = [who EXCEPT ![c] = cookies.name]
    BY <1>2 DEF Authenticate
  <2>3. UNCHANGED <<users, cookies, contested>>
    BY <1>2 DEF Authenticate, store
  <2>4. pc[c] = "idle"
    BY <1>2 DEF Authenticate, Begin
  <2> QED BY <2>1, <2>2, <2>3, <2>4
<1>3. CASE FindUser(c)
  <2>1. PICK to \in {"get", "refused"} : pc' = [pc EXCEPT ![c] = to]
    BY <1>3 DEF FindUser
  <2>2. UNCHANGED <<who, users, cookies, contested>>
    BY <1>3 DEF FindUser, store
  <2> QED BY <2>1, <2>2
<1>4. CASE CheckPassword(c)
  <2>1. PICK to \in {"logged in", "refused"} : pc' = [pc EXCEPT ![c] = to]
    BY <1>4 DEF CheckPassword
  <2>2. cookies' = cookies \/ cookies' = [jwt |-> TRUE, name |-> who[c]]
    BY <1>4 DEF CheckPassword
  <2>3. UNCHANGED <<who, users, contested>>
    BY <1>4 DEF CheckPassword
  <2>4. who[c] \in User \cup {NoName}
    OBVIOUS
  <2>5. cookies' \in [jwt : BOOLEAN, name : User \cup {NoName}]
    <3>1. TRUE \in BOOLEAN
      OBVIOUS
    <3>2. [jwt |-> TRUE, name |-> who[c]] \in [jwt : BOOLEAN, name : User \cup {NoName}]
      BY <2>4, <3>1, Zenon
    <3> QED BY <2>2, <3>2
  <2> QED BY <2>1, <2>3, <2>5
<1>5. CASE CheckLevel(c)
  BY <1>5 DEF CheckLevel, store, Granted
<1> QED BY <1>1, <1>2, <1>3, <1>4, <1>5

LEMMA MigrationAside ==
    ASSUME Typed, NEW c \in Migrations,
           \/ Add(c) \/ Scan(c) \/ ScanFails(c) \/ MigrationStep(c)
           \/ DetailsArrive(c) \/ Panic(c)
    PROVE  Aside
<1> USE DEF SignUpPc, PcValue, Final, Move, Typed, Aside, AccountsUnchanged, store
<1>1. c \in Call
  BY DEF Migrations, With
<1>2. CASE Add(c) \/ Scan(c) \/ ScanFails(c) \/ DetailsArrive(c) \/ Panic(c)
  <2>1. CASE Add(c)
    BY <1>1, <2>1 DEF Add, Begin
  <2>2. CASE Scan(c)
    BY <1>1, <2>2 DEF Scan
  <2>3. CASE ScanFails(c)
    BY <1>1, <2>3 DEF ScanFails
  <2>4. CASE DetailsArrive(c)
    BY <1>1, <2>4 DEF DetailsArrive
  <2>5. CASE Panic(c)
    BY <1>1, <2>5 DEF Panic, Running
  <2> QED BY <1>2, <2>1, <2>2, <2>3, <2>4, <2>5
<1>3. CASE MigrationStep(c)
  BY <1>1, <1>3 DEF MigrationStep, Select, EndSelect, Mark, EndSearch, ReadPlace,
                    ReadPlaceFails, WritePlace, Return
<1> QED BY <1>2, <1>3

LEMMA SearchAside ==
    ASSUME Typed, NEW p \in Place, SearchStores(p)
    PROVE  Aside
BY DEF SearchStores, accountVars, Typed, Aside

LEMMA AccountsInvariant == Spec => []AccountsInv
<1>1. Init => AccountsInv
  BY InitAccounts
<1>2. AccountsInv /\ [Next]_vars => AccountsInv'
  <2> SUFFICES ASSUME AccountsInv, [Next]_vars
               PROVE  AccountsInv'
    OBVIOUS
  <2>1. Typed
    BY DEF AccountsInv
  <2>2. ASSUME NEW c \in Call,
               SignUp(c) \/ CheckName(c) \/ CheckNameFails(c) \/ WriteUser(c)
                 \/ WriteUserFails(c)
        PROVE  AccountsInv'
    BY <2>2, SignUpStep
  <2>3. ASSUME NEW c \in Call,
               Login(c) \/ Authenticate(c) \/ FindUser(c) \/ CheckPassword(c)
                 \/ CheckLevel(c)
        PROVE  AccountsInv'
    BY <2>1, <2>3, OtherAccountsStep, AsideKeeps
  <2>4. ASSUME NEW c \in Migrations,
               \/ Add(c) \/ Scan(c) \/ ScanFails(c) \/ MigrationStep(c)
               \/ DetailsArrive(c) \/ Panic(c)
        PROVE  AccountsInv'
    BY <2>1, <2>4, MigrationAside, AsideKeeps
  <2>5. CASE DropCookie
    <3>1. cookies' \in [jwt : BOOLEAN, name : User \cup {NoName}]
      BY <2>1, <2>5 DEF DropCookie, Typed
    <3>2. UNCHANGED <<pc, who, users, contested>>
      BY <2>5 DEF DropCookie
    <3> QED BY <2>1, <3>1, <3>2, StandAside, AsideKeeps
  <2>6. CASE UNCHANGED vars
    <3>1. UNCHANGED <<pc, who, users, cookies, contested>>
      BY <2>6 DEF vars, accountVars
    <3>2. cookies' \in [jwt : BOOLEAN, name : User \cup {NoName}]
      BY <2>1, <3>1 DEF Typed
    <3> QED BY <2>1, <3>1, <3>2, StandAside, AsideKeeps
  <2>7. ASSUME NEW p \in Place, SearchStores(p)
        PROVE  AccountsInv'
    BY <2>1, <2>7, SearchAside, AsideKeeps
  <2> QED BY <2>2, <2>3, <2>4, <2>5, <2>6, <2>7 DEF Next, AccountsNext, AccountsStep
<1> QED BY <1>1, <1>2, PTL DEF Spec

\* The account a sign-up was told to have created stays as it was created,
\* unless sign-ups for the name ran at the same time or Redis failed the check
\* of one.
THEOREM AccountsAreKept == Spec => []AccountKept
<1>1. AccountsInv => AccountKept
  BY DEF AccountsInv
<1> QED BY <1>1, AccountsInvariant, PTL

-----------------------------------------------------------------------------
(***************************************************************************)
(* What the loops do with sequences of places.                             *)
(***************************************************************************)

Avoids(s, S) == \A i \in 1 .. Len(s) : s[i] \notin S

LEMMA TailFacts ==
    ASSUME NEW S, NEW s \in Seq(S), s # <<>>
    PROVE  /\ Head(s) \in S
           /\ Head(s) = s[1]
           /\ Tail(s) \in Seq(S)
           /\ Len(s) > 0
           /\ Len(Tail(s)) = Len(s) - 1
           /\ \A i \in 1 .. Len(Tail(s)) : Tail(s)[i] = s[i + 1]
BY HeadTailProperties

LEMMA TailAvoids ==
    ASSUME NEW S, NEW s \in Seq(S), s # <<>>, NEW T, Avoids(s, T)
    PROVE  Avoids(Tail(s), T) /\ Head(s) \notin T
BY TailFacts DEF Avoids

LEMMA AppendFacts ==
    ASSUME NEW S, NEW s \in Seq(S), NEW x \in S, NEW T
    PROVE  /\ Append(s, x) \in Seq(S)
           /\ Avoids(s, T) /\ x \notin T => Avoids(Append(s, x), T)
BY AppendProperties DEF Avoids

LEMMA PrefixFacts ==
    ASSUME NEW S, NEW s \in Seq(S), NEW n \in 0 .. Len(s), NEW T
    PROVE  /\ SubSeq(s, 1, n) \in Seq(S)
           /\ Avoids(s, T) => Avoids(SubSeq(s, 1, n), T)
<1>1. /\ SubSeq(s, 1, n) \in Seq(S)
      /\ Len(SubSeq(s, 1, n)) = n
      /\ \A i \in 1 .. n : SubSeq(s, 1, n)[i] = s[i]
  BY SubSeqProperties
<1> QED BY <1>1 DEF Avoids

LEMMA ScansFacts == Scans \subseteq Seq(Place)
<1>1. Cardinality(Place) \in Nat
  BY PlaceAssumption, FS_CardinalityType
<1> DEFINE n == Cardinality(Place)
<1> HIDE DEF n
<1>2. n \in Nat /\ \A m \in n .. n + MaxRepeated : m \in Nat
  BY <1>1, RepeatedAssumption DEF n
<1>3. \A keys \in Scans : \E m \in n .. n + MaxRepeated : keys \in [1 .. m -> Place]
  BY DEF Scans, n
<1> QED BY <1>2, <1>3

-----------------------------------------------------------------------------
(***************************************************************************)
(* Migrations.                                                             *)
(***************************************************************************)

MigratingPc == {"select", "mark", "update"}

Stores ==
    /\ marked \in [Field -> SUBSET Place]
    /\ asked \in [Field -> [Place -> SUBSET Call]]
    /\ todo = [c \in Call |-> todo[c]]
    /\ batch \in [Call -> Seq(Place)]

\* Two migrations of one field are noticed.
OnePerField ==
    \A c, d \in Migrations :
        /\ c # d
        /\ pc[c] \in MigratingPc
        /\ pc[d] \in MigratingPc
        /\ FieldOf(c) = FieldOf(d)
        => FieldOf(c) \in mixed

AskedAreMarked ==
    \A f \in Field \ mixed, p \in Place : asked[f][p] # {} => p \in marked[f]

\* The places about which another migration has asked for the field of c.
Others(c) == {p \in Place : asked[FieldOf(c)][p] \ {c} # {}}

\* A migration selects, and marks, places that no other has asked about.
SelectsNew ==
    \A c \in Migrations : pc[c] = "select" =>
        /\ todo[c] \in Seq(Place)
        /\ FieldOf(c) \notin mixed => Avoids(batch[c], Others(c))

MarksNew ==
    \A c \in Migrations : pc[c] = "mark" =>
        /\ todo[c] \in Seq(Place)
        /\ FieldOf(c) \notin mixed => Avoids(todo[c], Others(c))

NoBatchYet == \A c \in Migrations : pc[c] \notin MigratingPc => batch[c] = <<>>

MigrationInv ==
    /\ Stores
    /\ OnePerField
    /\ AskedAreMarked
    /\ SelectsNew
    /\ MarksNew
    /\ NoBatchYet
    /\ AskedByOne

LEMMA MigrationsAreCalls == Migrations \subseteq Call
BY DEF Migrations, With

LEMMA FieldOfMigration == \A c \in Migrations : FieldOf(c) \in Field
BY FieldAssumption DEF Migrations, With, FieldOf

LEMMA InitMigration == Init => MigrationInv
<1> SUFFICES ASSUME Init
             PROVE  MigrationInv
  OBVIOUS
<1>1. \A c \in Migrations : pc[c] = "idle" /\ batch[c] = <<>>
  BY MigrationsAreCalls DEF Init, AccountsInit
<1>2. Stores
  BY DEF Init, Stores
<1>3. OnePerField /\ SelectsNew /\ MarksNew /\ NoBatchYet
  BY <1>1 DEF OnePerField, SelectsNew, MarksNew, NoBatchYet, MigratingPc
<1>4. AskedAreMarked /\ AskedByOne
  BY DEF Init, AskedAreMarked, AskedByOne
<1> QED BY <1>2, <1>3, <1>4 DEF MigrationInv

\* A step that selects and marks nothing, and starts no migration.
Beside ==
    /\ todo' = [c \in Call |-> todo'[c]]
    /\ batch' \in [Call -> Seq(Place)]
    /\ \A c \in Migrations :
        /\ pc'[c] \in {"select", "mark"} =>
            pc'[c] = pc[c] /\ todo'[c] = todo[c] /\ batch'[c] = batch[c]
        /\ pc'[c] \in MigratingPc => pc[c] \in MigratingPc
        /\ pc'[c] \notin MigratingPc => batch'[c] = <<>>
    /\ marked' = marked
    /\ asked' = asked
    /\ mixed \subseteq mixed'

LEMMA BesideKeeps ==
    ASSUME MigrationInv, Beside
    PROVE  MigrationInv'
<1> USE DEF MigrationInv, Beside, MigratingPc
<1>1. Stores'
  BY DEF Stores
<1>2. OnePerField'
  BY DEF OnePerField, FieldOf
<1>3. AskedAreMarked' /\ AskedByOne'
  BY DEF AskedAreMarked, AskedByOne
<1>4. \A c : Others(c)' = Others(c)
  BY DEF Others, FieldOf
<1>5. SelectsNew'
  <2> SUFFICES ASSUME NEW c \in Migrations, pc'[c] = "select"
               PROVE  /\ todo'[c] \in Seq(Place)
                      /\ FieldOf(c) \notin mixed' => Avoids(batch'[c], Others(c)')
    BY DEF SelectsNew, FieldOf, Avoids
  <2> QED BY <1>4 DEF SelectsNew
<1>6. MarksNew'
  <2> SUFFICES ASSUME NEW c \in Migrations, pc'[c] = "mark"
               PROVE  /\ todo'[c] \in Seq(Place)
                      /\ FieldOf(c) \notin mixed' => Avoids(todo'[c], Others(c)')
    BY DEF MarksNew, FieldOf, Avoids
  <2> QED BY <1>4 DEF MarksNew
<1>7. NoBatchYet'
  BY DEF NoBatchYet
<1> QED BY <1>1, <1>2, <1>3, <1>5, <1>6, <1>7

LEMMA ScanStep ==
    ASSUME Typed, MigrationInv, NEW c \in Migrations, Scan(c)
    PROVE  MigrationInv'
<1> USE DEF MigrationInv, MigratingPc
<1>1. PICK keys \in Scans : todo' = [todo EXCEPT ![c] = keys]
  BY DEF Scan
<1>2. keys \in Seq(Place)
  BY ScansFacts
<1>3. /\ pc[c] = "scan"
      /\ pc' = [pc EXCEPT ![c] = "select"]
      /\ UNCHANGED <<marked, asked, batch>>
      /\ mixed \subseteq mixed'
      /\ \A d \in Migrations :
            pc[d] \in MigratingPc /\ FieldOf(d) = FieldOf(c) => FieldOf(c) \in mixed'
  <2>1. \A d \in Migrations : pc[d] \in MigratingPc => d \in Call /\ Migrating(d)
    BY MigrationsAreCalls DEF Migrating
  <2> QED BY <2>1 DEF Scan, Move, Overlaps, redis
<1>4. c \in Call
  BY MigrationsAreCalls
<1>5. Stores'
  BY <1>1, <1>3 DEF Stores
<1>6. OnePerField'
  BY <1>3, <1>4, MigrationsAreCalls DEF OnePerField, Typed, FieldOf
<1>7. AskedAreMarked' /\ AskedByOne' /\ \A d : Others(d)' = Others(d)
  BY <1>3 DEF AskedAreMarked, AskedByOne, Others, FieldOf
<1>8. batch[c] = <<>>
  BY <1>3 DEF NoBatchYet
<1>9. SelectsNew'
  <2> SUFFICES ASSUME NEW d \in Migrations, pc'[d] = "select"
               PROVE  /\ todo'[d] \in Seq(Place)
                      /\ FieldOf(d) \notin mixed' => Avoids(batch'[d], Others(d)')
    BY DEF SelectsNew, FieldOf, Avoids
  <2>1. CASE d = c
    <3>1. todo'[d] = keys /\ batch'[d] = <<>>
      BY <1>1, <1>3, <1>4, <1>8, <2>1 DEF Stores
    <3> QED BY <1>2, <3>1 DEF Avoids
  <2>2. CASE d # c
    <3>1. pc[d] = "select" /\ todo'[d] = todo[d]
      BY <1>1, <1>3, <1>4, <2>2, MigrationsAreCalls DEF Typed, Stores
    <3> QED BY <1>3, <1>7, <3>1 DEF SelectsNew
  <2> QED BY <2>1, <2>2
<1>10. MarksNew'
  <2> SUFFICES ASSUME NEW d \in Migrations, pc'[d] = "mark"
               PROVE  /\ todo'[d] \in Seq(Place)
                      /\ FieldOf(d) \notin mixed' => Avoids(todo'[d], Others(d)')
    BY DEF MarksNew, FieldOf, Avoids
  <2>1. d # c /\ pc[d] = "mark" /\ todo'[d] = todo[d]
    BY <1>1, <1>3, <1>4, MigrationsAreCalls DEF Typed, Stores
  <2> QED BY <1>3, <1>7, <2>1 DEF MarksNew
<1>11. NoBatchYet'
  BY <1>3, <1>4, MigrationsAreCalls DEF NoBatchYet, Typed
<1> QED BY <1>5, <1>6, <1>7, <1>9, <1>10, <1>11

\* A step of one migration that leaves what the others hold.
LEMMA OwnStep ==
    ASSUME Typed, MigrationInv, Stores', NEW c \in Migrations,
           NEW to \in {"select", "mark"}, pc[c] \in {"select", "mark"},
           pc' = [pc EXCEPT ![c] = to],
           \A d \in Call : d # c => todo'[d] = todo[d] /\ batch'[d] = batch[d],
           mixed \subseteq mixed',
           \A f \in Field \ {FieldOf(c)} : asked'[f] = asked[f],
           AskedAreMarked', AskedByOne',
           todo'[c] \in Seq(Place),
           to = "select" /\ FieldOf(c) \notin mixed' => Avoids(batch'[c], Others(c)'),
           to = "mark" /\ FieldOf(c) \notin mixed' => Avoids(todo'[c], Others(c)')
    PROVE  MigrationInv'
<1> USE DEF MigrationInv, MigratingPc
<1>1. OnePerField'
  BY MigrationsAreCalls DEF OnePerField, Typed, FieldOf
<1>2. \A d \in Migrations : d # c =>
        /\ d \in Call
        /\ pc'[d] = pc[d] /\ todo'[d] = todo[d] /\ batch'[d] = batch[d]
        /\ pc[d] \in MigratingPc /\ FieldOf(d) \notin mixed' => Others(d)' = Others(d)
  <2> SUFFICES ASSUME NEW d \in Migrations, d # c
               PROVE  /\ d \in Call
                      /\ pc'[d] = pc[d] /\ todo'[d] = todo[d] /\ batch'[d] = batch[d]
                      /\ pc[d] \in MigratingPc /\ FieldOf(d) \notin mixed' =>
                            Others(d)' = Others(d)
    BY DEF FieldOf
  <2>1. d \in Call /\ pc'[d] = pc[d] /\ todo'[d] = todo[d] /\ batch'[d] = batch[d]
    BY MigrationsAreCalls DEF Typed
  <2>2. ASSUME pc[d] \in MigratingPc, FieldOf(d) \notin mixed'
        PROVE  asked'[FieldOf(d)] = asked[FieldOf(d)]
    BY <2>2, FieldOfMigration DEF OnePerField
  <2> QED BY <2>1, <2>2 DEF Others, FieldOf
<1>3. SelectsNew'
  <2> SUFFICES ASSUME NEW d \in Migrations, pc'[d] = "select"
               PROVE  /\ todo'[d] \in Seq(Place)
                      /\ FieldOf(d) \notin mixed' => Avoids(batch'[d], Others(d)')
    BY DEF SelectsNew, FieldOf, Avoids
  <2>1. CASE d = c
    BY <2>1, MigrationsAreCalls DEF Typed
  <2>2. CASE d # c
    BY <1>2, <2>2 DEF SelectsNew
  <2> QED BY <2>1, <2>2
<1>4. MarksNew'
  <2> SUFFICES ASSUME NEW d \in Migrations, pc'[d] = "mark"
               PROVE  /\ todo'[d] \in Seq(Place)
                      /\ FieldOf(d) \notin mixed' => Avoids(todo'[d], Others(d)')
    BY DEF MarksNew, FieldOf, Avoids
  <2>1. CASE d = c
    BY <2>1, MigrationsAreCalls DEF Typed
  <2>2. CASE d # c
    BY <1>2, <2>2 DEF MarksNew
  <2> QED BY <2>1, <2>2
<1>5. NoBatchYet'
  BY <1>2, MigrationsAreCalls DEF NoBatchYet, Typed
<1> QED BY <1>1, <1>3, <1>4, <1>5

LEMMA SelectStep ==
    ASSUME Typed, MigrationInv, NEW c \in Migrations, Select(c)
    PROVE  MigrationInv'
<1> DEFINE p == Head(todo[c])
           rest == Tail(todo[c])
           f == FieldOf(c)
<1> USE DEF MigrationInv
<1>1. c \in Call /\ f \in Field
  BY MigrationsAreCalls, FieldOfMigration
<1>2. /\ pc[c] = "select" /\ todo[c] # <<>>
      /\ UNCHANGED <<pc, marked, asked>>
      /\ todo' = [todo EXCEPT ![c] = rest]
      /\ \/ batch' = batch /\ mixed' = mixed
         \/ /\ p \notin marked[f]
            /\ batch' = [batch EXCEPT ![c] = Append(@, p)]
            /\ mixed' = mixed
         \/ /\ batch' = [batch EXCEPT ![c] = Append(@, p)]
            /\ mixed' = mixed \cup {f}
  BY DEF Select, redis
<1>3. /\ todo[c] \in Seq(Place) /\ batch[c] \in Seq(Place)
      /\ f \notin mixed => Avoids(batch[c], Others(c))
  BY <1>1, <1>2 DEF SelectsNew, Stores
<1>4. p \in Place /\ rest \in Seq(Place)
  BY <1>2, <1>3, TailFacts
<1>5. todo'[c] = rest
  BY <1>1, <1>2 DEF Stores
<1>6. f \notin mixed /\ p \notin marked[f] => p \notin Others(c)
  BY <1>1, <1>4 DEF AskedAreMarked, Others
<1>7. /\ Append(batch[c], p) \in Seq(Place)
      /\ Avoids(batch[c], Others(c)) /\ p \notin Others(c) =>
            Avoids(Append(batch[c], p), Others(c))
  BY <1>3, <1>4, AppendFacts
<1>8. f \notin mixed' => Avoids(batch'[c], Others(c)')
  <2>1. Others(c)' = Others(c)
    BY <1>2 DEF Others, FieldOf
  <2>2. f \notin mixed' => Avoids(batch'[c], Others(c))
    BY <1>1, <1>2, <1>3, <1>6, <1>7 DEF Stores
  <2> QED BY <2>1, <2>2
<1>9. Stores'
  BY <1>1, <1>2, <1>7 DEF Stores
<1>10. AskedAreMarked' /\ AskedByOne'
  BY <1>2 DEF AskedAreMarked, AskedByOne
<1>11. pc' = [pc EXCEPT ![c] = "select"]
  BY <1>1, <1>2 DEF Typed
<1>12. \A d \in Call : d # c => todo'[d] = todo[d] /\ batch'[d] = batch[d]
  BY <1>2 DEF Stores
<1> QED BY <1>2, <1>4, <1>5, <1>8, <1>9, <1>10, <1>11, <1>12, OwnStep

LEMMA PartIsPrefix ==
    ASSUME NEW c, batch[c] \in Seq(Place)
    PROVE  \E n \in 0 .. Len(batch[c]) :
              n <= BatchSize /\ Part(c) = SubSeq(batch[c], 1, n)
<1>1. Len(batch[c]) \in Nat /\ BatchSize \in Nat
  BY BatchSizeAssumption
<1> DEFINE n == Min({Len(batch[c]), BatchSize})
<1>2. /\ n \in {Len(batch[c]), BatchSize}
      /\ n <= Len(batch[c]) /\ n <= BatchSize
  <2>1. \E x \in {Len(batch[c]), BatchSize} :
           \A y \in {Len(batch[c]), BatchSize} : x <= y
    BY <1>1
  <2> QED BY <2>1 DEF Min
<1>3. Part(c) = SubSeq(batch[c], 1, n)
  BY DEF Part
<1> HIDE DEF n
<1>4. n \in 0 .. Len(batch[c])
  BY <1>1, <1>2
<1> QED BY <1>2, <1>3, <1>4

LEMMA EndSelectStep ==
    ASSUME Typed, MigrationInv, NEW c \in Migrations, EndSelect(c)
    PROVE  MigrationInv'
<1> DEFINE f == FieldOf(c)
<1> USE DEF MigrationInv
<1>1. c \in Call /\ f \in Field
  BY MigrationsAreCalls, FieldOfMigration
<1>2. /\ pc[c] = "select"
      /\ pc' = [pc EXCEPT ![c] = "mark"]
      /\ todo' = [todo EXCEPT ![c] = Part(c)]
      /\ batch' = [batch EXCEPT ![c] = Part(c)]
      /\ UNCHANGED <<marked, asked, mixed>>
  BY DEF EndSelect, Move, redis, history
<1>3. batch[c] \in Seq(Place)
  BY <1>1 DEF Stores
<1>4. PICK n \in 0 .. Len(batch[c]) : Part(c) = SubSeq(batch[c], 1, n)
  BY <1>3, PartIsPrefix
<1>5. Part(c) \in Seq(Place) /\ (f \notin mixed => Avoids(Part(c), Others(c)))
  BY <1>2, <1>3, <1>4, PrefixFacts DEF SelectsNew
<1>6. todo'[c] = Part(c) /\ Others(c)' = Others(c)
  BY <1>1, <1>2 DEF Stores, Others, FieldOf
<1>7. Stores'
  BY <1>1, <1>2, <1>5 DEF Stores
<1>8. AskedAreMarked' /\ AskedByOne'
  BY <1>2 DEF AskedAreMarked, AskedByOne
<1>9. \A d \in Call : d # c => todo'[d] = todo[d] /\ batch'[d] = batch[d]
  BY <1>2 DEF Stores
<1> QED BY <1>2, <1>5, <1>6, <1>7, <1>8, <1>9, OwnStep

LEMMA MarkStep ==
    ASSUME Typed, MigrationInv, NEW c \in Migrations, Mark(c)
    PROVE  MigrationInv'
<1> DEFINE p == Head(todo[c])
           rest == Tail(todo[c])
           f == FieldOf(c)
<1> USE DEF MigrationInv
<1>1. c \in Call /\ f \in Field
  BY MigrationsAreCalls, FieldOfMigration
<1>2. /\ pc[c] = "mark" /\ todo[c] # <<>>
      /\ UNCHANGED <<pc, batch>>
      /\ todo' = [todo EXCEPT ![c] = rest]
      /\ asked' = [asked EXCEPT ![f][p] = @ \cup {c}]
      /\ \/ marked' = [marked EXCEPT ![f] = @ \cup {p}] /\ mixed' = mixed
         \/ marked' = marked /\ mixed' = mixed \cup {f}
  BY DEF Mark, Marks
<1>3. todo[c] \in Seq(Place) /\ (f \notin mixed => Avoids(todo[c], Others(c)))
  BY <1>2 DEF MarksNew
<1>4. /\ p \in Place /\ rest \in Seq(Place)
      /\ f \notin mixed => p \notin Others(c) /\ Avoids(rest, Others(c))
  BY <1>2, <1>3, TailFacts, TailAvoids
<1>5. todo'[c] = rest
  BY <1>1, <1>2 DEF Stores
<1>6. Stores'
  <2>1. asked[f] \in [Place -> SUBSET Call] /\ asked[f][p] \cup {c} \in SUBSET Call
    BY <1>1, <1>4 DEF Stores
  <2>2. asked' = [asked EXCEPT ![f] = [asked[f] EXCEPT ![p] = asked[f][p] \cup {c}]]
    BY <1>1, <1>2 DEF Stores
  <2>3. asked' \in [Field -> [Place -> SUBSET Call]]
    BY <1>1, <2>1, <2>2 DEF Stores
  <2>4. marked' \in [Field -> SUBSET Place]
    <3>1. marked[f] \cup {p} \in SUBSET Place
      BY <1>1, <1>4 DEF Stores
    <3>2. CASE marked' = [marked EXCEPT ![f] = marked[f] \cup {p}]
      BY <3>1, <3>2 DEF Stores
    <3>3. CASE marked' = marked
      BY <3>3 DEF Stores
    <3> QED BY <1>2, <3>2, <3>3
  <2> QED BY <1>1, <1>2, <2>3, <2>4 DEF Stores
<1>7. /\ \A g \in Field \ {f} : asked'[g] = asked[g] /\ marked'[g] = marked[g]
      /\ \A q \in Place :
            asked'[f][q] = IF q = p THEN asked[f][p] \cup {c} ELSE asked[f][q]
      /\ f \notin mixed' => marked'[f] = marked[f] \cup {p} /\ f \notin mixed
  BY <1>1, <1>2, <1>4 DEF Stores
<1>8. f \notin mixed' => asked[f][p] \subseteq {c}
  BY <1>4, <1>7 DEF Others
<1>9. AskedAreMarked' /\ AskedByOne'
  <2>1. mixed \subseteq mixed'
    BY <1>2
  <2> SUFFICES ASSUME NEW g \in Field \ mixed', NEW q \in Place
               PROVE  /\ asked'[g][q] # {} => q \in marked'[g]
                      /\ \A d, e \in asked'[g][q] : d = e
    BY DEF AskedAreMarked, AskedByOne
  <2>2. (asked[g][q] # {} => q \in marked[g]) /\ \A d, e \in asked[g][q] : d = e
    BY <2>1 DEF AskedAreMarked, AskedByOne
  <2>3. CASE g = f
    BY <1>7, <1>8, <2>2, <2>3
  <2>4. CASE g # f
    BY <1>7, <2>2, <2>4
  <2> QED BY <2>3, <2>4
<1>10. f \notin mixed' => Avoids(rest, Others(c)')
  <2>1. Others(c)' = Others(c)
    <3>1. \A q \in Place : asked'[f][q] \ {c} = asked[f][q] \ {c}
      BY <1>7
    <3> QED BY <3>1 DEF Others, FieldOf
  <2> QED BY <1>4, <1>7, <2>1
<1>11. pc' = [pc EXCEPT ![c] = "mark"]
  BY <1>1, <1>2 DEF Typed
<1>12. \A d \in Call : d # c => todo'[d] = todo[d] /\ batch'[d] = batch[d]
  BY <1>2 DEF Stores
<1>13. mixed \subseteq mixed'
  BY <1>2
<1> QED
  BY <1>2, <1>4, <1>5, <1>6, <1>7, <1>9, <1>10, <1>11, <1>12, <1>13, OwnStep

LEMMA OtherMigrationStep ==
    ASSUME Typed, MigrationInv, NEW c \in Migrations,
           \/ Add(c) \/ ScanFails(c) \/ EndSearch(c) \/ ReadPlace(c)
           \/ ReadPlaceFails(c) \/ WritePlace(c) \/ Return(c)
           \/ DetailsArrive(c) \/ Panic(c)
    PROVE  Beside
<1> USE DEF MigratingPc, Move, Typed, Beside, Stores, MigrationInv, NoBatchYet,
            redis, work, history, migrationVars
<1>1. c \in Call /\ Migrations \subseteq Call
  BY MigrationsAreCalls
<1>2. <<>> \in Seq(Place)
  OBVIOUS
<1>3. CASE Add(c) \/ ScanFails(c)
  BY <1>1, <1>3 DEF Add, Begin, ScanFails
<1>4. CASE EndSearch(c) \/ ReadPlace(c) \/ ReadPlaceFails(c) \/ WritePlace(c)
             \/ DetailsArrive(c)
  BY <1>1, <1>4 DEF EndSearch, ReadPlace, ReadPlaceFails, WritePlace, DetailsArrive
<1>5. CASE Return(c)
  BY <1>1, <1>2, <1>5 DEF Return
<1>6. CASE Panic(c)
  BY <1>1, <1>2, <1>6 DEF Panic, Running, Final
<1> QED BY <1>3, <1>4, <1>5, <1>6

LEMMA SearchBeside ==
    ASSUME MigrationInv, NEW p \in Place, SearchStores(p)
    PROVE  Beside
BY MigrationsAreCalls DEF SearchStores, accountVars, work, Beside, MigratingPc,
                          MigrationInv, Stores, NoBatchYet

LEMMA AccountsStepBeside ==
    ASSUME Typed, MigrationInv, AccountsNext, UNCHANGED migrationVars
    PROVE  Beside
<1> USE DEF MigratingPc, Move, Typed, Beside, Stores, MigrationInv, NoBatchYet,
            redis, work, history, migrationVars, Granted
<1>1. \A c \in Migrations : c \in Call /\ c \notin SignUps
  BY DEF Migrations, SignUps, With
<1>2. CASE DropCookie
  BY <1>1, <1>2 DEF DropCookie
<1>3. ASSUME NEW c \in Call, SignUp(c) \/ Login(c) \/ Authenticate(c)
      PROVE  Beside
  BY <1>1, <1>3 DEF SignUp, Login, Authenticate, Begin
<1>4. ASSUME NEW c \in Call, AccountsStep(c)
      PROVE  Beside
  BY <1>1, <1>4 DEF AccountsStep, CheckName, CheckNameFails, WriteUser,
                    WriteUserFails, FindUser, CheckPassword, CheckLevel
<1> QED BY <1>2, <1>3, <1>4 DEF AccountsNext

LEMMA MigrationInvariant == Spec => []MigrationInv
<1>1. Init => MigrationInv
  BY InitMigration
<1>2. AccountsInv /\ MigrationInv /\ [Next]_vars => MigrationInv'
  <2> SUFFICES ASSUME Typed, MigrationInv, [Next]_vars
               PROVE  MigrationInv'
    BY DEF AccountsInv
  <2>1. CASE AccountsNext /\ UNCHANGED migrationVars
    BY <2>1, AccountsStepBeside, BesideKeeps
  <2>2. ASSUME NEW c \in Migrations,
               \/ Add(c) \/ Scan(c) \/ ScanFails(c) \/ MigrationStep(c)
               \/ DetailsArrive(c) \/ Panic(c)
        PROVE  MigrationInv'
    BY <2>2, ScanStep, SelectStep, EndSelectStep, MarkStep, OtherMigrationStep,
       BesideKeeps DEF MigrationStep
  <2>3. ASSUME NEW p \in Place, SearchStores(p)
        PROVE  MigrationInv'
    BY <2>3, SearchBeside, BesideKeeps
  <2>4. CASE UNCHANGED vars
    <3>1. Beside
      BY <2>4 DEF Beside, vars, accountVars, migrationVars, redis, work, history,
                  MigrationInv, Stores, NoBatchYet, MigratingPc
    <3> QED BY <3>1, BesideKeeps
  <2> QED BY <2>1, <2>2, <2>3, <2>4 DEF Next
<1> QED BY <1>1, <1>2, AccountsInvariant, PTL DEF Spec

\* Of all migrations of a field one at most asks Google Maps for it about a
\* place, whatever keys SCAN repeats and wherever the process ends, except for
\* fields of which two migrations overlapped or whose set Redis failed.
THEOREM MapsIsAskedByOne == Spec => []AskedByOne
<1>1. MigrationInv => AskedByOne
  BY DEF MigrationInv
<1> QED BY <1>1, MigrationInvariant, PTL

-----------------------------------------------------------------------------
(***************************************************************************)
(* What a migration holds while it runs, and what it stores.               *)
(***************************************************************************)

WorkTyped ==
    /\ todo \in [Call -> Seq(Place)]
    /\ batch \in [Call -> Seq(Place)]
    /\ searching \in [Call -> SUBSET Int]
    /\ found \in [Call -> SUBSET Int]
    /\ unread \in [Call -> SUBSET Place]
    /\ writing = [c \in Call |-> writing[c]]
    /\ before = [c \in Call |-> before[c]]
    /\ renewed = [c \in Call |-> renewed[c]]
    /\ \A c \in Call : \A p \in DOMAIN writing[c] :
          p \in Place /\ writing[c][p] \in SUBSET Field
    /\ marked \in [Field -> SUBSET Place]
    /\ details \in [Place -> SUBSET Field]
    /\ failed \in SUBSET Call
    /\ skipped \in SUBSET failed
    /\ alone \in SUBSET Call

\* What a call may hold in the phase it is in.
PhaseOf(c) ==
    /\ pc[c] \in MigratingPc \cup {"scan"} => c \in Migrations
    /\ pc[c] # "update" => DOMAIN writing[c] = {} /\ unread[c] = {}
    /\ pc[c] # "mark" => searching[c] = {}
    /\ pc[c] \notin {"mark", "update"} => found[c] = {}
    /\ pc[c] = "mark" => Len(todo[c]) <= Len(batch[c])
    /\ pc[c] \in {"mark", "update"} =>
          /\ Len(batch[c]) <= BatchSize
          /\ searching[c] \subseteq 1 .. Len(batch[c])
          /\ found[c] \subseteq 1 .. Len(batch[c])
          /\ unread[c] \subseteq Range(batch[c])
          /\ DOMAIN writing[c] \subseteq Range(batch[c])

\* A migration that no other has overlapped is the only one that runs.
AloneRuns ==
    \A c \in Migrations \cap alone, d \in Migrations :
        pc[c] \in MigratingPc /\ pc[d] \in MigratingPc => c = d

\* The other fields a place had when the migration started.
Untouched(c, p) == before[c][p] \ {FieldOf(c)}

\* No place has lost another field or is to lose one, and a place with an
\* answer has the field, or is to have it, unless a search has stored it.
StoredOf(c) ==
    c \in alone \ failed /\ pc[c] \in MigratingPc =>
        /\ \A p \in Place \ renewed[c] : Untouched(c, p) \subseteq details[p]
        /\ \A p \in DOMAIN writing[c] \ renewed[c] :
              /\ Untouched(c, p) \subseteq writing[c][p]
              /\ p \in Answered(c) => FieldOf(c) \in writing[c][p]
        /\ pc[c] = "update" =>
              \A p \in Answered(c) \ renewed[c] :
                  \/ p \in unread[c]
                  \/ p \in DOMAIN writing[c]
                  \/ FieldOf(c) \in details[p]

StorageInv ==
    /\ WorkTyped
    /\ AloneRuns
    /\ \A c \in Call : PhaseOf(c)
    /\ \A c \in Migrations : StoredOf(c)

\* Calls hold what they held.
SameWork(d) ==
    /\ todo'[d] = todo[d]
    /\ batch'[d] = batch[d]
    /\ searching'[d] = searching[d]
    /\ found'[d] = found[d]
    /\ unread'[d] = unread[d]
    /\ writing'[d] = writing[d]
    /\ before'[d] = before[d]
    /\ renewed'[d] = renewed[d]

\* The answers depend on the batch and the results alone.
LEMMA SameAnswers ==
    ASSUME NEW d \in Call, batch'[d] = batch[d], found'[d] = found[d]
    PROVE  Answered(d)' = Answered(d)
<1> DEFINE AnsweredIn(s, F) ==
             {p \in Range(s) : Max({i \in DOMAIN s : s[i] = p}) \in F}
<1>1. Answered(d) = AnsweredIn(batch[d], found[d])
  BY DEF Answered
<1>2. Answered(d)' = AnsweredIn(batch'[d], found'[d])
  BY DEF Answered
<1> HIDE DEF AnsweredIn
<1> QED BY <1>1, <1>2

LEMMA AnsweredAreInBatch == \A d \in Call : Answered(d) \subseteq Range(batch[d])
BY DEF Answered

LEMMA SamePhase ==
    ASSUME NEW d \in Call, PhaseOf(d), SameWork(d),
           \/ pc'[d] = pc[d]
           \/ /\ pc[d] \notin MigratingPc /\ pc'[d] \notin MigratingPc
              /\ pc'[d] = "scan" => d \in Migrations
    PROVE  PhaseOf(d)'
<1>1. Migrations' = Migrations
  BY DEF Migrations, With
<1>2. CASE pc'[d] = pc[d]
  <2>1. pc'[d] \in MigratingPc \cup {"scan"} => d \in Migrations'
    BY <1>1, <1>2 DEF PhaseOf
  <2>2. /\ pc'[d] # "update" => DOMAIN writing'[d] = {} /\ unread'[d] = {}
        /\ pc'[d] # "mark" => searching'[d] = {}
        /\ pc'[d] \notin {"mark", "update"} => found'[d] = {}
        /\ pc'[d] = "mark" => Len(todo'[d]) <= Len(batch'[d])
    BY <1>2 DEF PhaseOf, SameWork
  <2>3. Range(batch[d])' = Range(batch[d])
    BY DEF SameWork, Range
  <2>4. pc'[d] \in {"mark", "update"} =>
            /\ Len(batch'[d]) <= BatchSize
            /\ searching'[d] \subseteq 1 .. Len(batch'[d])
            /\ found'[d] \subseteq 1 .. Len(batch'[d])
            /\ unread'[d] \subseteq Range(batch[d])'
            /\ DOMAIN writing'[d] \subseteq Range(batch[d])'
    BY <1>2, <2>3 DEF PhaseOf, SameWork
  <2> QED BY <2>1, <2>2, <2>4 DEF PhaseOf, MigratingPc
<1>3. CASE /\ pc[d] \notin MigratingPc /\ pc'[d] \notin MigratingPc
           /\ pc'[d] = "scan" => d \in Migrations
  <2>1. pc[d] \notin {"mark", "update"} /\ pc'[d] \notin {"mark", "update"}
    BY <1>3 DEF MigratingPc
  <2>2. /\ DOMAIN writing'[d] = {} /\ unread'[d] = {}
        /\ searching'[d] = {} /\ found'[d] = {}
    BY <2>1, <1>3 DEF PhaseOf, SameWork, MigratingPc
  <2> QED BY <1>1, <1>3, <2>1, <2>2 DEF PhaseOf
<1> QED BY <1>2, <1>3

LEMMA SameStored ==
    ASSUME NEW d \in Migrations, StoredOf(d), SameWork(d),
           pc'[d] \in MigratingPc => pc[d] = pc'[d],
           alone' \subseteq alone, failed \subseteq failed',
           \/ details' = details
           \/ d \notin alone \/ pc[d] \notin MigratingPc
    PROVE  StoredOf(d)'
<1>1. Answered(d)' = Answered(d)
  BY SameAnswers, MigrationsAreCalls DEF SameWork
<1> QED BY <1>1 DEF StoredOf, SameWork, MigratingPc, Untouched, FieldOf

\* A step of one migration: all that is to be shown is about itself.
LEMMA OneMigrationStep ==
    ASSUME Typed, StorageInv, WorkTyped', NEW c \in Migrations,
           \A d \in Call \ {c} : SameWork(d) /\ pc'[d] = pc[d],
           alone' \subseteq alone, failed \subseteq failed',
           details' = details \/ pc[c] \in MigratingPc,
           pc'[c] \in MigratingPc => pc[c] \in MigratingPc,
           PhaseOf(c)', StoredOf(c)'
    PROVE  StorageInv'
<1> USE DEF StorageInv
<1>1. AloneRuns'
  BY MigrationsAreCalls DEF AloneRuns, MigratingPc, Migrations, With
<1>2. ASSUME NEW d \in Call
      PROVE  PhaseOf(d)'
  <2>1. CASE d = c
    BY <2>1
  <2>2. CASE d # c
    BY <2>2, SamePhase
  <2> QED BY <2>1, <2>2
<1>3. ASSUME NEW d \in Migrations
      PROVE  StoredOf(d)'
  <2>1. CASE d = c
    BY <2>1
  <2>2. CASE d # c
    <3>1. d \in Call \ {c}
      BY <2>2, MigrationsAreCalls
    <3>2. details' = details \/ d \notin alone \/ pc[d] \notin MigratingPc
      BY <2>2 DEF AloneRuns
    <3> QED BY <3>1, <3>2, SameStored
  <2> QED BY <2>1, <2>2
<1>4. (\A d \in Call : PhaseOf(d)') /\ (\A d \in Migrations : StoredOf(d)')
  BY <1>2, <1>3
<1> QED BY <1>1, <1>4 DEF Migrations, With

LEMMA AddStorage ==
    ASSUME Typed, StorageInv, NEW c \in Migrations, Add(c) \/ ScanFails(c)
    PROVE  StorageInv'
<1> USE DEF MigratingPc, Move
<1>1. c \in Call
  BY MigrationsAreCalls
<1>2. /\ UNCHANGED migrationVars
      /\ pc[c] \notin MigratingPc
      /\ \E to \in {"scan", "done"} : pc' = [pc EXCEPT ![c] = to]
      /\ failed' = failed \/ failed' = failed \cup {c}
  BY DEF Add, Begin, ScanFails, Fail
<1>3. UNCHANGED <<marked, details, todo, batch, searching, found, unread, writing, skipped,
                  alone, before, renewed>>
  BY <1>2 DEF migrationVars, redis, work, history
<1>4. WorkTyped'
  BY <1>1, <1>2, <1>3 DEF StorageInv, WorkTyped
<1>5. \A d \in Call : SameWork(d)
  BY <1>3 DEF SameWork
<1>6. pc'[c] \in {"scan", "done"} /\ \A d \in Call \ {c} : pc'[d] = pc[d]
  BY <1>1, <1>2 DEF Typed
<1>7. PhaseOf(c)'
  BY <1>1, <1>2, <1>5, <1>6, SamePhase DEF StorageInv
<1>8. StoredOf(c)'
  BY <1>6 DEF StoredOf
<1>9. failed \subseteq failed' /\ pc'[c] \notin MigratingPc
  BY <1>2, <1>6
<1> QED BY <1>3, <1>4, <1>5, <1>6, <1>7, <1>8, <1>9, OneMigrationStep

LEMMA ScanStorage ==
    ASSUME Typed, StorageInv, NEW c \in Migrations, Scan(c)
    PROVE  StorageInv'
<1> USE DEF MigratingPc
<1>1. c \in Call
  BY MigrationsAreCalls
<1>2. PICK keys \in Scans : todo' = [todo EXCEPT ![c] = keys]
  BY DEF Scan
<1>3. keys \in Seq(Place)
  BY ScansFacts
<1>4. /\ pc[c] = "scan"
      /\ pc' = [pc EXCEPT ![c] = "select"]
      /\ before' = [before EXCEPT ![c] = details]
      /\ renewed' = [renewed EXCEPT ![c] = {}]
      /\ UNCHANGED <<marked, details, batch, searching, found, unread, writing, skipped, failed>>
      /\ alone' \subseteq alone
      /\ \A d \in Call : Migrating(d) => c \notin alone' /\ d \notin alone'
  BY DEF Scan, Move, Overlaps, redis
<1>5. WorkTyped'
  BY <1>1, <1>2, <1>3, <1>4 DEF StorageInv, WorkTyped
<1>6. pc'[c] = "select" /\ \A d \in Call \ {c} : pc'[d] = pc[d]
  BY <1>1, <1>4 DEF Typed
<1>7. \A d \in Call \ {c} : SameWork(d)
  BY <1>1, <1>2, <1>4 DEF SameWork, StorageInv, WorkTyped
<1>8. AloneRuns'
  <2> SUFFICES ASSUME NEW d \in Migrations, d \in alone', NEW e \in Migrations,
                      pc'[d] \in MigratingPc, pc'[e] \in MigratingPc
               PROVE  d = e
    BY DEF AloneRuns, Migrations, With
  <2>1. d \in Call /\ e \in Call
    BY MigrationsAreCalls
  <2>2. CASE d # c /\ e # c
    BY <1>4, <1>6, <2>1, <2>2 DEF StorageInv, AloneRuns
  <2>3. CASE d # c
    <3>1. Migrating(d)
      BY <1>6, <2>1, <2>3 DEF Migrating
    <3> QED BY <1>4, <2>1, <3>1
  <2>4. CASE d = c /\ e # c
    <3>1. Migrating(e)
      BY <1>6, <2>1, <2>4 DEF Migrating
    <3> QED BY <1>4, <2>1, <2>4, <3>1
  <2> QED BY <2>2, <2>3, <2>4
<1>9. ASSUME NEW d \in Call
      PROVE  PhaseOf(d)'
  <2>1. PhaseOf(d)
    BY DEF StorageInv
  <2>2. CASE d = c
    <3>1. Migrations' = Migrations
      BY DEF Migrations, With
    <3> QED BY <1>4, <1>6, <2>1, <2>2, <3>1 DEF PhaseOf
  <2>3. CASE d # c
    BY <1>6, <1>7, <2>1, <2>3, SamePhase
  <2> QED BY <2>2, <2>3
<1>10. ASSUME NEW d \in Migrations
       PROVE  StoredOf(d)'
  <2>1. CASE d = c
    <3>1. before'[c] = details /\ DOMAIN writing'[c] = {}
      BY <1>1, <1>4 DEF StorageInv, WorkTyped, PhaseOf
    <3> QED BY <1>4, <1>6, <2>1, <3>1 DEF StoredOf, Untouched
  <2>2. CASE d # c
    BY <1>4, <1>6, <1>7, <2>2, SameStored, MigrationsAreCalls DEF StorageInv
  <2> QED BY <2>1, <2>2
<1>11. (\A d \in Call : PhaseOf(d)') /\ (\A d \in Migrations : StoredOf(d)')
  BY <1>9, <1>10
<1> QED BY <1>5, <1>8, <1>11 DEF StorageInv, Migrations, With

LEMMA SelectStorage ==
    ASSUME Typed, StorageInv, MigrationInv, NEW c \in Migrations, Select(c)
    PROVE  StorageInv'
<1> USE DEF MigratingPc
<1>1. c \in Call
  BY MigrationsAreCalls
<1>2. /\ pc[c] = "select" /\ pc' = pc /\ todo[c] # <<>>
      /\ todo' = [todo EXCEPT ![c] = Tail(todo[c])]
      /\ batch' = batch \/ batch' = [batch EXCEPT ![c] = Append(batch[c], Head(todo[c]))]
      /\ failed' = failed \/ failed' = failed \cup {c}
      /\ UNCHANGED <<marked, details, searching, found, unread, writing, skipped, alone, before,
                   renewed>>
  <2>1. WorkTyped
    BY DEF StorageInv
  <2> QED BY <1>1, <2>1 DEF Select, redis, Fail, WorkTyped
<1>3. /\ Tail(todo[c]) \in Seq(Place) /\ Append(batch[c], Head(todo[c])) \in Seq(Place)
  <2>1. todo[c] \in Seq(Place) /\ batch[c] \in Seq(Place)
    BY <1>1 DEF StorageInv, WorkTyped
  <2>2. Head(todo[c]) \in Place /\ Tail(todo[c]) \in Seq(Place)
    BY <1>2, <2>1, TailFacts
  <2> QED BY <2>1, <2>2
<1>4. WorkTyped'
  BY <1>1, <1>2, <1>3 DEF StorageInv, WorkTyped
<1>5. \A d \in Call \ {c} : SameWork(d)
  BY <1>1, <1>2 DEF SameWork, StorageInv, WorkTyped
<1>6. PhaseOf(c)'
  <2>1. PhaseOf(c)
    BY <1>1 DEF StorageInv
  <2> QED BY <1>2, <2>1 DEF PhaseOf, Migrations, With
<1>7. StoredOf(c)'
  <2>1. StoredOf(c) /\ PhaseOf(c)
    BY <1>1 DEF StorageInv
  <2>2. DOMAIN writing'[c] = {}
    BY <1>2, <2>1 DEF PhaseOf
  <2> QED BY <1>2, <2>1, <2>2 DEF StoredOf, Untouched, FieldOf
<1>8. failed \subseteq failed'
  BY <1>2
<1> QED BY <1>2, <1>4, <1>5, <1>6, <1>7, <1>8, OneMigrationStep

LEMMA TailRange ==
    ASSUME NEW S, NEW s \in Seq(S), s # <<>>
    PROVE  Head(s) \in Range(s) /\ Range(Tail(s)) \subseteq Range(s)
<1>1. DOMAIN s = 1 .. Len(s) /\ DOMAIN Tail(s) = 1 .. Len(Tail(s))
  BY TailFacts
<1>2. \A i \in 1 .. Len(Tail(s)) : i + 1 \in 1 .. Len(s)
  BY TailFacts
<1> QED BY <1>1, <1>2, TailFacts DEF Range

LEMMA EndSelectStorage ==
    ASSUME Typed, StorageInv, MigrationInv, NEW c \in Migrations, EndSelect(c)
    PROVE  StorageInv'
<1> USE DEF MigratingPc
<1>1. c \in Call /\ PhaseOf(c) /\ StoredOf(c)
  BY MigrationsAreCalls DEF StorageInv
<1>2. /\ pc[c] = "select" /\ pc' = [pc EXCEPT ![c] = "mark"]
      /\ todo' = [todo EXCEPT ![c] = Part(c)]
      /\ batch' = [batch EXCEPT ![c] = Part(c)]
      /\ UNCHANGED <<marked, details, searching, found, unread, writing, skipped, failed,
                     alone, before,
                   renewed>>
  BY DEF EndSelect, Move, redis, history
<1>3. batch[c] \in Seq(Place)
  BY <1>1 DEF StorageInv, WorkTyped
<1>4. PICK n \in 0 .. Len(batch[c]) : n <= BatchSize /\ Part(c) = SubSeq(batch[c], 1, n)
  BY <1>3, PartIsPrefix
<1>5. Part(c) \in Seq(Place) /\ Len(Part(c)) = n
  BY <1>3, <1>4, SubSeqProperties
<1>6. WorkTyped'
  BY <1>1, <1>2, <1>5 DEF StorageInv, WorkTyped
<1>7. /\ pc'[c] = "mark" /\ \A d \in Call \ {c} : pc'[d] = pc[d]
      /\ todo'[c] = Part(c) /\ batch'[c] = Part(c)
  BY <1>1, <1>2 DEF Typed, StorageInv, WorkTyped
<1>8. \A d \in Call \ {c} : SameWork(d)
  BY <1>1, <1>2 DEF SameWork, StorageInv, WorkTyped
<1>9. PhaseOf(c)'
  <2>1. Len(batch'[c]) <= BatchSize /\ Len(todo'[c]) <= Len(batch'[c])
    BY <1>4, <1>5, <1>7
  <2>2. /\ searching'[c] = {} /\ found'[c] = {}
        /\ unread'[c] = {} /\ DOMAIN writing'[c] = {}
    BY <1>1, <1>2 DEF PhaseOf
  <2> QED BY <1>7, <2>1, <2>2 DEF PhaseOf, Migrations, With
<1>10. StoredOf(c)'
  <2>1. DOMAIN writing'[c] = {}
    BY <1>1, <1>2 DEF PhaseOf
  <2> QED BY <1>1, <1>2, <1>7, <2>1 DEF StoredOf, Untouched, FieldOf
<1> QED BY <1>2, <1>6, <1>7, <1>8, <1>9, <1>10, OneMigrationStep

LEMMA MarkStorage ==
    ASSUME Typed, StorageInv, NEW c \in Migrations, Mark(c)
    PROVE  StorageInv'
<1> DEFINE p == Head(todo[c])
           next == Len(batch[c]) - Len(todo[c]) + 1
<1> USE DEF MigratingPc
<1>1. c \in Call /\ PhaseOf(c) /\ StoredOf(c) /\ FieldOf(c) \in Field
  BY MigrationsAreCalls, FieldOfMigration DEF StorageInv
<1>2. /\ pc[c] = "mark" /\ pc' = pc /\ todo[c] # <<>>
      /\ todo' = [todo EXCEPT ![c] = Tail(todo[c])]
      /\ searching' = [searching EXCEPT ![c] = searching[c] \cup {next}]
      /\ marked' = marked \/ marked' = [marked EXCEPT ![FieldOf(c)] = @ \cup {p}]
      /\ failed' = failed \/ failed' = failed \cup {c}
      /\ UNCHANGED <<details, batch, found, unread, writing, skipped, alone, before,
                     renewed>>
  <2>1. WorkTyped
    BY DEF StorageInv
  <2> QED BY <1>1, <2>1 DEF Mark, Marks, Fail, WorkTyped
<1>3. todo[c] \in Seq(Place) /\ batch[c] \in Seq(Place) /\ Len(todo[c]) <= Len(batch[c])
  BY <1>1, <1>2 DEF StorageInv, WorkTyped, PhaseOf
<1>4. /\ p \in Place /\ Tail(todo[c]) \in Seq(Place)
      /\ Len(Tail(todo[c])) <= Len(batch[c])
      /\ next \in 1 .. Len(batch[c])
  <2>1. /\ p \in Place /\ Tail(todo[c]) \in Seq(Place)
        /\ Len(todo[c]) > 0 /\ Len(Tail(todo[c])) = Len(todo[c]) - 1
    BY <1>2, <1>3, TailFacts
  <2>2. Len(todo[c]) \in Nat /\ Len(batch[c]) \in Nat
    BY <1>3
  <2>3. \A m, n \in Nat : m > 0 /\ m <= n => m - 1 <= n /\ n - m + 1 \in 1 .. n
    OBVIOUS
  <2>4. /\ Len(todo[c]) - 1 <= Len(batch[c])
        /\ Len(batch[c]) - Len(todo[c]) + 1 \in 1 .. Len(batch[c])
    BY <1>3, <2>1, <2>2, <2>3
  <2>5. next \in 1 .. Len(batch[c])
    BY <2>4
  <2>6. Len(Tail(todo[c])) <= Len(batch[c])
    BY <2>1, <2>4
  <2> QED BY <2>1, <2>5, <2>6
<1> HIDE DEF next
<1>5. WorkTyped'
  <2>1. marked' \in [Field -> SUBSET Place]
    <3>1. marked \in [Field -> SUBSET Place]
      BY DEF StorageInv, WorkTyped
    <3>2. marked[FieldOf(c)] \cup {p} \in SUBSET Place
      BY <1>1, <1>4, <3>1
    <3> QED BY <1>1, <1>2, <3>1, <3>2
  <2>2. todo' \in [Call -> Seq(Place)]
    BY <1>1, <1>2, <1>4 DEF StorageInv, WorkTyped
  <2>3. searching' \in [Call -> SUBSET Int]
    <3>1. searching \in [Call -> SUBSET Int]
      BY DEF StorageInv, WorkTyped
    <3>2. searching[c] \cup {next} \in SUBSET Int
      BY <1>1, <1>4, <3>1
    <3> QED BY <1>1, <1>2, <3>1, <3>2
  <2> QED BY <1>1, <1>2, <2>1, <2>2, <2>3 DEF StorageInv, WorkTyped
<1>6. /\ todo'[c] = Tail(todo[c]) /\ searching'[c] = searching[c] \cup {next}
      /\ \A d \in Call \ {c} : SameWork(d)
  BY <1>1, <1>2 DEF SameWork, StorageInv, WorkTyped
<1>7. PhaseOf(c)'
  BY <1>1, <1>2, <1>4, <1>6 DEF PhaseOf, Migrations, With
<1>8. StoredOf(c)'
  <2>1. DOMAIN writing'[c] = {}
    BY <1>1, <1>2 DEF PhaseOf
  <2> QED BY <1>1, <1>2, <2>1 DEF StoredOf, Untouched, FieldOf
<1>9. failed \subseteq failed'
  BY <1>2
<1> QED BY <1>2, <1>5, <1>6, <1>7, <1>8, <1>9, OneMigrationStep

LEMMA DetailsArriveStorage ==
    ASSUME Typed, StorageInv, NEW c \in Migrations, DetailsArrive(c)
    PROVE  StorageInv'
<1> USE DEF MigratingPc
<1>1. c \in Call /\ PhaseOf(c) /\ StoredOf(c)
  BY MigrationsAreCalls DEF StorageInv
<1>2. PICK i \in searching[c] :
        /\ searching' = [searching EXCEPT ![c] = searching[c] \ {i}]
        /\ \/ found' = found
           \/ found' = [found EXCEPT ![c] = found[c] \cup {i}]
  <2>1. WorkTyped
    BY DEF StorageInv
  <2> QED BY <1>1, <2>1 DEF DetailsArrive, WorkTyped
<1>3. UNCHANGED <<pc, failed, marked, details, todo, batch, unread, writing, skipped,
                  alone, before, renewed>>
  BY DEF DetailsArrive, redis, history
<1>4. pc[c] = "mark" /\ i \in 1 .. Len(batch[c])
  BY <1>1, <1>2 DEF PhaseOf
<1>5. WorkTyped'
  <2>1. searching \in [Call -> SUBSET Int] /\ found \in [Call -> SUBSET Int]
    BY DEF StorageInv, WorkTyped
  <2>2. searching[c] \ {i} \in SUBSET Int /\ found[c] \cup {i} \in SUBSET Int
    BY <1>1, <1>4, <2>1
  <2>3. searching' \in [Call -> SUBSET Int]
    BY <1>1, <1>2, <2>1, <2>2
  <2>4. found' \in [Call -> SUBSET Int]
    BY <1>1, <1>2, <2>1, <2>2
  <2> QED BY <1>3, <2>3, <2>4 DEF StorageInv, WorkTyped
<1>6. /\ searching'[c] \subseteq searching[c]
      /\ found'[c] \subseteq found[c] \cup {i}
      /\ \A d \in Call \ {c} : SameWork(d)
  BY <1>1, <1>2, <1>3 DEF SameWork, StorageInv, WorkTyped
<1>7. PhaseOf(c)'
  BY <1>1, <1>3, <1>4, <1>6 DEF PhaseOf, Migrations, With
<1>8. StoredOf(c)'
  <2>1. DOMAIN writing'[c] = {}
    BY <1>1, <1>3, <1>4 DEF PhaseOf
  <2> QED BY <1>1, <1>3, <1>4, <2>1 DEF StoredOf, Untouched, FieldOf
<1> QED BY <1>3, <1>5, <1>6, <1>7, <1>8, OneMigrationStep

LEMMA EndSearchStorage ==
    ASSUME Typed, StorageInv, NEW c \in Migrations, EndSearch(c)
    PROVE  StorageInv'
<1> USE DEF MigratingPc
<1>1. c \in Call /\ PhaseOf(c) /\ StoredOf(c)
  BY MigrationsAreCalls DEF StorageInv
<1>2. /\ pc[c] = "mark" /\ pc' = [pc EXCEPT ![c] = "update"]
      /\ searching[c] = {}
      /\ unread' = [unread EXCEPT ![c] = Range(batch[c])]
      /\ UNCHANGED <<marked, details, todo, batch, searching, found, writing, skipped,
                     failed, alone, before, renewed>>
  BY DEF EndSearch, Move, redis, history
<1>3. Range(batch[c]) \subseteq Place
  BY <1>1 DEF StorageInv, WorkTyped, Range
<1>4. WorkTyped'
  BY <1>1, <1>2, <1>3 DEF StorageInv, WorkTyped
<1>5. /\ pc'[c] = "update" /\ \A d \in Call \ {c} : pc'[d] = pc[d]
      /\ unread'[c] = Range(batch[c])
      /\ \A d \in Call \ {c} : SameWork(d)
  BY <1>1, <1>2 DEF Typed, SameWork, StorageInv, WorkTyped
<1>6. PhaseOf(c)'
  <2>1. Range(batch[c])' = Range(batch[c])
    BY <1>2 DEF Range
  <2> QED BY <1>1, <1>2, <1>5, <2>1 DEF PhaseOf, Migrations, With
<1>7. StoredOf(c)'
  <2>1. DOMAIN writing'[c] = {}
    BY <1>1, <1>2 DEF PhaseOf
  <2>2. Answered(c)' \subseteq unread'[c]
    BY <1>1, <1>2, <1>5, SameAnswers, AnsweredAreInBatch
  <2> QED BY <1>1, <1>2, <1>5, <2>1, <2>2 DEF StoredOf, Untouched, FieldOf
<1> QED BY <1>2, <1>4, <1>5, <1>6, <1>7, OneMigrationStep

LEMMA ReadPlaceStorage ==
    ASSUME Typed, StorageInv, NEW c \in Migrations, ReadPlace(c)
    PROVE  StorageInv'
<1> DEFINE with(p) == WithField(c, p)
<1> USE DEF MigratingPc
<1>1. c \in Call /\ PhaseOf(c) /\ StoredOf(c) /\ FieldOf(c) \in Field
  BY MigrationsAreCalls, FieldOfMigration DEF StorageInv
<1>2. unread[c] \in SUBSET Place /\ details \in [Place -> SUBSET Field]
  BY <1>1 DEF StorageInv, WorkTyped
<1>3. PICK p \in unread[c] :
        /\ unread' = [unread EXCEPT ![c] = unread[c] \ {p}]
        /\ writing' = [writing EXCEPT ![c] = Put(writing[c], p, with(p))]
  <2>1. WorkTyped
    BY DEF StorageInv
  <2> QED BY <1>1, <2>1 DEF ReadPlace, WorkTyped
<1>4. /\ pc[c] = "update"
      /\ UNCHANGED <<pc, failed, marked, details, todo, batch, searching, found, skipped,
                     alone, before, renewed>>
  BY DEF ReadPlace, redis, history
<1>5. p \in Place
  BY <1>2, <1>3
<1>6. with(p) \in SUBSET Field
  BY <1>1, <1>2, <1>5 DEF WithField
<1>7. /\ unread'[c] = unread[c] \ {p}
      /\ writing'[c] = Put(writing[c], p, with(p))
      /\ \A d \in Call \ {c} : SameWork(d) /\ writing'[d] = writing[d]
  BY <1>1, <1>3, <1>4 DEF SameWork, StorageInv, WorkTyped
<1> HIDE DEF with
<1>8. /\ DOMAIN writing'[c] = DOMAIN writing[c] \cup {p}
      /\ writing'[c][p] = with(p)
      /\ \A q \in DOMAIN writing[c] \ {p} : writing'[c][q] = writing[c][q]
  BY <1>7 DEF Put
<1>9. WorkTyped'
  <2>1. unread' \in [Call -> SUBSET Place]
    BY <1>1, <1>3 DEF StorageInv, WorkTyped
  <2>2. ASSUME NEW d \in Call, NEW q \in DOMAIN writing'[d]
        PROVE  q \in Place /\ writing'[d][q] \in SUBSET Field
    <3>1. CASE d = c
      BY <1>1, <1>5, <1>6, <1>8, <3>1 DEF StorageInv, WorkTyped
    <3>2. CASE d # c
      BY <1>7, <3>2 DEF StorageInv, WorkTyped
    <3> QED BY <3>1, <3>2
  <2>3. writing' = [d \in Call |-> writing'[d]]
    BY <1>3 DEF StorageInv, WorkTyped
  <2> QED BY <1>4, <2>1, <2>2, <2>3 DEF StorageInv, WorkTyped
<1>10. PhaseOf(c)'
  <2>1. /\ Len(batch[c]) <= BatchSize
        /\ unread[c] \subseteq Range(batch[c])
        /\ found[c] \subseteq 1 .. Len(batch[c])
        /\ DOMAIN writing[c] \subseteq Range(batch[c])
        /\ searching[c] = {}
    BY <1>1, <1>4 DEF PhaseOf
  <2>2. /\ unread'[c] \subseteq Range(batch[c])
        /\ DOMAIN writing'[c] \subseteq Range(batch[c])
    BY <1>3, <1>7, <1>8, <2>1
  <2>3. Range(batch[c])' = Range(batch[c])
    BY <1>4 DEF Range
  <2> QED BY <1>4, <2>1, <2>2, <2>3 DEF PhaseOf, Migrations, With
<1>11. StoredOf(c)'
  <2>1. Answered(c)' = Answered(c)
    BY <1>1, <1>4, SameAnswers
  <2> SUFFICES ASSUME c \in alone \ failed
               PROVE  /\ \A q \in Place \ renewed[c] : Untouched(c, q) \subseteq details[q]
                      /\ \A q \in DOMAIN writing'[c] \ renewed[c] :
                            /\ Untouched(c, q) \subseteq writing'[c][q]
                            /\ q \in Answered(c) => FieldOf(c) \in writing'[c][q]
                      /\ \A q \in Answered(c) \ renewed[c] :
                            \/ q \in unread'[c]
                            \/ q \in DOMAIN writing'[c]
                            \/ FieldOf(c) \in details[q]
    BY <1>4, <2>1 DEF StoredOf, Untouched, FieldOf
  <2>2. /\ \A q \in Place \ renewed[c] : Untouched(c, q) \subseteq details[q]
        /\ \A q \in DOMAIN writing[c] \ renewed[c] :
              /\ Untouched(c, q) \subseteq writing[c][q]
              /\ q \in Answered(c) => FieldOf(c) \in writing[c][q]
        /\ \A q \in Answered(c) \ renewed[c] :
              \/ q \in unread[c]
              \/ q \in DOMAIN writing[c]
              \/ FieldOf(c) \in details[q]
    BY <1>1, <1>4 DEF StoredOf
  <2>3. /\ p \notin renewed[c] => Untouched(c, p) \subseteq with(p)
        /\ p \in Answered(c) => FieldOf(c) \in with(p)
    BY <1>5, <2>2 DEF Untouched, with, WithField
  <2> QED BY <1>5, <1>7, <1>8, <2>2, <2>3
<1>12. \A d \in Call \ {c} : SameWork(d) /\ pc'[d] = pc[d]
  BY <1>4, <1>7
<1> QED BY <1>4, <1>9, <1>10, <1>11, <1>12, OneMigrationStep

LEMMA ReadPlaceFailsStorage ==
    ASSUME Typed, StorageInv, NEW c \in Migrations, ReadPlaceFails(c)
    PROVE  StorageInv'
<1> USE DEF MigratingPc
<1>1. c \in Call /\ PhaseOf(c)
  BY MigrationsAreCalls DEF StorageInv
<1>2. PICK p \in unread[c] : unread' = [unread EXCEPT ![c] = unread[c] \ {p}]
  <2>1. WorkTyped
    BY DEF StorageInv
  <2> QED BY <1>1, <2>1 DEF ReadPlaceFails, WorkTyped
<1>3. /\ pc[c] = "update" /\ failed' = failed \cup {c} /\ skipped' = skipped \cup {c}
      /\ UNCHANGED <<pc, marked, details, todo, batch, searching, found, writing, alone,
                     before, renewed>>
  BY DEF ReadPlaceFails, redis, history, Fail
<1>4. WorkTyped'
  <2>1. unread' \in [Call -> SUBSET Place]
    BY <1>1, <1>2 DEF StorageInv, WorkTyped
  <2> QED BY <1>1, <1>3, <2>1 DEF StorageInv, WorkTyped
<1>5. /\ unread'[c] \subseteq unread[c]
      /\ \A d \in Call \ {c} : SameWork(d)
  BY <1>1, <1>2, <1>3 DEF SameWork, StorageInv, WorkTyped
<1>6. PhaseOf(c)'
  <2>1. Range(batch[c])' = Range(batch[c])
    BY <1>3 DEF Range
  <2> QED BY <1>1, <1>3, <1>5, <2>1 DEF PhaseOf, Migrations, With
<1>7. StoredOf(c)'
  BY <1>3 DEF StoredOf
<1>8. failed \subseteq failed'
  BY <1>3
<1> QED BY <1>3, <1>4, <1>5, <1>6, <1>7, <1>8, OneMigrationStep

LEMMA WritePlaceStorage ==
    ASSUME Typed, StorageInv, NEW c \in Migrations, WritePlace(c)
    PROVE  StorageInv'
<1> USE DEF MigratingPc
<1>1. c \in Call /\ PhaseOf(c) /\ StoredOf(c)
  BY MigrationsAreCalls DEF StorageInv
<1>2. PICK p \in DOMAIN writing[c] :
        /\ \/ details' = [details EXCEPT ![p] = writing[c][p]] /\ failed' = failed
           \/ details' = details /\ failed' = failed \cup {c}
        /\ writing' = [writing EXCEPT ![c] =
                          [q \in DOMAIN writing[c] \ {p} |-> writing[c][q]]]
  <2>1. WorkTyped
    BY DEF StorageInv
  <2> QED BY <1>1, <2>1 DEF WritePlace, Fail, WorkTyped
<1>3. UNCHANGED <<pc, marked, todo, batch, searching, found, unread, skipped, alone, before,
                   renewed>>
  BY DEF WritePlace, history
<1>4. /\ pc[c] = "update"
      /\ p \in Place /\ writing[c][p] \in SUBSET Field /\ details \in [Place -> SUBSET Field]
  BY <1>1, <1>2 DEF PhaseOf, StorageInv, WorkTyped
<1>5. /\ writing'[c] = [q \in DOMAIN writing[c] \ {p} |-> writing[c][q]]
      /\ \A d \in Call \ {c} : SameWork(d) /\ writing'[d] = writing[d]
  BY <1>1, <1>2, <1>3 DEF SameWork, StorageInv, WorkTyped
<1>6. /\ DOMAIN writing'[c] = DOMAIN writing[c] \ {p}
      /\ \A q \in DOMAIN writing[c] \ {p} : writing'[c][q] = writing[c][q]
  BY <1>5
<1>7. WorkTyped'
  <2>1. details' \in [Place -> SUBSET Field]
    BY <1>2, <1>4
  <2>2. ASSUME NEW d \in Call, NEW q \in DOMAIN writing'[d]
        PROVE  q \in Place /\ writing'[d][q] \in SUBSET Field
    <3>1. CASE d = c
      BY <1>1, <1>6, <3>1 DEF StorageInv, WorkTyped
    <3>2. CASE d # c
      BY <1>5, <3>2 DEF StorageInv, WorkTyped
    <3> QED BY <3>1, <3>2
  <2>3. writing' = [d \in Call |-> writing'[d]]
    BY <1>2 DEF StorageInv, WorkTyped
  <2>4. failed' \in SUBSET Call /\ skipped' \in SUBSET failed'
    BY <1>1, <1>2, <1>3 DEF StorageInv, WorkTyped
  <2> QED BY <1>3, <2>1, <2>2, <2>3, <2>4 DEF StorageInv, WorkTyped
<1>8. PhaseOf(c)'
  BY <1>1, <1>3, <1>4, <1>6 DEF PhaseOf, Migrations, With
<1>9. StoredOf(c)'
  <2>1. CASE failed' = failed \cup {c}
    BY <2>1 DEF StoredOf
  <2>2. CASE details' = [details EXCEPT ![p] = writing[c][p]] /\ failed' = failed
    <3>1. details'[p] = writing[c][p] /\ \A q \in Place \ {p} : details'[q] = details[q]
      BY <1>4, <2>2
    <3>2. Answered(c)' = Answered(c)
      BY <1>1, <1>3, SameAnswers
    <3>3. \A q \in Answered(c) : q \in Place
      <4>1. batch[c] \in Seq(Place)
        BY <1>1 DEF StorageInv, WorkTyped
      <4>2. Range(batch[c]) \subseteq Place
        BY <4>1 DEF Range
      <4> QED BY <1>1, <4>2, AnsweredAreInBatch
    <3> SUFFICES ASSUME c \in alone \ failed
                 PROVE  /\ \A q \in Place \ renewed[c] :
                              Untouched(c, q) \subseteq details'[q]
                        /\ \A q \in DOMAIN writing'[c] \ renewed[c] :
                              /\ Untouched(c, q) \subseteq writing'[c][q]
                              /\ q \in Answered(c) => FieldOf(c) \in writing'[c][q]
                        /\ \A q \in Answered(c) \ renewed[c] :
                              \/ q \in unread[c]
                              \/ q \in DOMAIN writing'[c]
                              \/ FieldOf(c) \in details'[q]
      BY <1>3, <1>4, <2>2, <3>2 DEF StoredOf, Untouched, FieldOf
    <3>4. /\ \A q \in Place \ renewed[c] : Untouched(c, q) \subseteq details[q]
          /\ \A q \in DOMAIN writing[c] \ renewed[c] :
                /\ Untouched(c, q) \subseteq writing[c][q]
                /\ q \in Answered(c) => FieldOf(c) \in writing[c][q]
          /\ \A q \in Answered(c) \ renewed[c] :
                \/ q \in unread[c]
                \/ q \in DOMAIN writing[c]
                \/ FieldOf(c) \in details[q]
      BY <1>1, <1>4 DEF StoredOf
    <3> QED BY <1>2, <1>6, <3>1, <3>3, <3>4
  <2> QED BY <1>2, <2>1, <2>2
<1>10. \A d \in Call \ {c} : SameWork(d) /\ pc'[d] = pc[d]
  BY <1>3, <1>5
<1>11. failed \subseteq failed'
  BY <1>2
<1> QED BY <1>3, <1>4, <1>7, <1>8, <1>9, <1>10, <1>11, OneMigrationStep

LEMMA ReturnStorage ==
    ASSUME Typed, StorageInv, NEW c \in Migrations, Return(c)
    PROVE  StorageInv'
<1> USE DEF MigratingPc
<1>1. c \in Call /\ PhaseOf(c)
  BY MigrationsAreCalls DEF StorageInv
<1>2. /\ pc[c] = "update" /\ pc' = [pc EXCEPT ![c] = "done"]
      /\ batch' = [batch EXCEPT ![c] = <<>>]
      /\ found' = [found EXCEPT ![c] = {}]
      /\ unread[c] = {} /\ writing[c] = Nothing
      /\ UNCHANGED <<failed, marked, details, todo, searching, unread, writing, skipped, alone, before,
                   renewed>>
  BY DEF Return, AllDone, Move, redis, history
<1>3. WorkTyped'
  BY <1>1, <1>2 DEF StorageInv, WorkTyped
<1>4. /\ pc'[c] = "done" /\ \A d \in Call \ {c} : pc'[d] = pc[d]
      /\ found'[c] = {} /\ DOMAIN writing[c] = {}
      /\ \A d \in Call \ {c} : SameWork(d)
  BY <1>1, <1>2 DEF Typed, SameWork, StorageInv, WorkTyped, Nothing
<1>5. PhaseOf(c)'
  BY <1>1, <1>2, <1>4 DEF PhaseOf
<1>6. StoredOf(c)'
  BY <1>4 DEF StoredOf
<1> QED BY <1>2, <1>3, <1>4, <1>5, <1>6, OneMigrationStep

\* The end of the process leaves no call with anything.
LEMMA PanicStorage ==
    ASSUME Typed, StorageInv, NEW c \in Migrations, Panic(c)
    PROVE  StorageInv'
<1> USE DEF MigratingPc
<1>1. /\ pc' = [d \in Call |-> IF Running(d) THEN "crashed" ELSE pc[d]]
      /\ todo' = [d \in Call |-> <<>>]
      /\ batch' = [d \in Call |-> <<>>]
      /\ searching' = [d \in Call |-> {}]
      /\ found' = [d \in Call |-> {}]
      /\ unread' = [d \in Call |-> {}]
      /\ writing' = [d \in Call |-> Nothing]
      /\ UNCHANGED <<failed, marked, details, skipped, alone, before,
                   renewed>>
  BY DEF Panic, redis, history
<1>2. \A d \in Call : pc'[d] \notin MigratingPc \cup {"scan"}
  BY <1>1 DEF Running, Final
<1>3. WorkTyped'
  BY <1>1 DEF StorageInv, WorkTyped, Nothing
<1>4. AloneRuns'
  BY <1>2, MigrationsAreCalls DEF AloneRuns, Migrations, With
<1>5. \A d \in Call : PhaseOf(d)'
  BY <1>1, <1>2 DEF PhaseOf, Nothing
<1>6. \A d \in Migrations : StoredOf(d)'
  BY <1>2, MigrationsAreCalls DEF StoredOf
<1> QED BY <1>3, <1>4, <1>5, <1>6 DEF StorageInv, Migrations, With

\* A step of Accounts is of a call that holds nothing.
LEMMA AccountsStorage ==
    ASSUME Typed, StorageInv, AccountsNext, UNCHANGED migrationVars
    PROVE  StorageInv'
<1> DEFINE Elsewhere ==
             /\ failed' \in SUBSET Call /\ failed \subseteq failed'
             /\ \A d \in Call :
                   \/ pc'[d] = pc[d]
                   \/ /\ pc[d] \notin MigratingPc /\ pc'[d] \notin MigratingPc
                      /\ pc'[d] = "scan" => d \in Migrations
<1> USE DEF MigratingPc
<1>1. /\ UNCHANGED <<todo, batch, searching, found, unread, writing, before, renewed,
                     marked, details, skipped, alone>>
      /\ \A d \in Call : SameWork(d)
  BY DEF migrationVars, redis, work, history, SameWork
<1>2. Elsewhere
  <2> USE DEF Move, Typed, StorageInv, WorkTyped, Fail
  <2>1. CASE DropCookie
    BY <2>1 DEF DropCookie
  <2>2. ASSUME NEW c \in Call, SignUp(c) \/ Login(c) \/ Authenticate(c)
        PROVE  Elsewhere
    BY <2>2 DEF SignUp, Login, Authenticate, Begin
  <2>3. ASSUME NEW c \in Call, AccountsStep(c)
        PROVE  Elsewhere
    <3>1. CASE CheckName(c) \/ CheckNameFails(c)
      BY <3>1 DEF CheckName, CheckNameFails
    <3>2. CASE WriteUser(c) \/ WriteUserFails(c)
      BY <3>2 DEF WriteUser, WriteUserFails
    <3>3. CASE FindUser(c) \/ CheckPassword(c)
      BY <3>3 DEF FindUser, CheckPassword
    <3>4. CASE CheckLevel(c)
      <4>1. /\ pc[c] = "get"
            /\ failed' \in SUBSET Call /\ failed \subseteq failed'
        BY <3>4 DEF CheckLevel
      <4>2. \A d \in Call \ {c} : pc'[d] = pc[d]
        BY <3>4 DEF CheckLevel, Granted
      <4>3. pc'[c] \notin MigratingPc /\ (pc'[c] = "scan" => c \in Migrations)
        BY <3>4 DEF CheckLevel, Granted, MinimumLevel, Migrations, With
      <4> QED BY <4>1, <4>2, <4>3
    <3> QED BY <2>3, <3>1, <3>2, <3>3, <3>4 DEF AccountsStep
  <2> QED BY <2>1, <2>2, <2>3 DEF AccountsNext
<1>3. WorkTyped'
  BY <1>1, <1>2 DEF StorageInv, WorkTyped
<1>4. AloneRuns'
  BY <1>1, <1>2, MigrationsAreCalls DEF StorageInv, AloneRuns, Migrations, With
<1>5. \A d \in Call : PhaseOf(d)'
  BY <1>1, <1>2, SamePhase DEF StorageInv
<1>6. \A d \in Migrations : StoredOf(d)'
  BY <1>1, <1>2, SameStored, MigrationsAreCalls DEF StorageInv
<1> QED BY <1>3, <1>4, <1>5, <1>6 DEF StorageInv, Migrations, With

\* A search leaves migrations what they hold, and is excepted from.
LEMMA SearchStorage ==
    ASSUME Typed, StorageInv, NEW p \in Place, SearchStores(p)
    PROVE  StorageInv'
<1> USE DEF MigratingPc
<1>1. PICK fields \in SUBSET Field : details' = [details EXCEPT ![p] = fields]
  <2>1. PICK stored \in Stored : details' = [details EXCEPT ![p] = stored[p]]
    BY DEF SearchStores
  <2>2. stored[p] \in SUBSET Field
    BY <2>1, StoredAssumption
  <2> QED BY <2>1, <2>2
<1>2. /\ renewed' =
            [c \in Call |-> IF Migrating(c) THEN renewed[c] \cup {p} ELSE renewed[c]]
      /\ UNCHANGED <<pc, failed, marked, todo, batch, searching, found, unread, writing,
                     skipped, alone, before>>
  BY DEF SearchStores, accountVars, work
<1>3. WorkTyped'
  <2>1. details' \in [Place -> SUBSET Field]
    BY <1>1 DEF StorageInv, WorkTyped
  <2> QED BY <1>2, <2>1 DEF StorageInv, WorkTyped
<1>4. AloneRuns'
  BY <1>2 DEF StorageInv, AloneRuns, Migrations, With
<1>5. ASSUME NEW d \in Call
      PROVE  PhaseOf(d)'
  <2>1. PhaseOf(d)
    BY DEF StorageInv
  <2>2. Migrations' = Migrations /\ Range(batch[d])' = Range(batch[d])
    BY <1>2 DEF Migrations, With, Range
  <2> QED BY <1>2, <2>1, <2>2 DEF PhaseOf
<1>6. ASSUME NEW d \in Migrations
      PROVE  StoredOf(d)'
  <2>1. d \in Call /\ StoredOf(d)
    BY MigrationsAreCalls DEF StorageInv
  <2>2. Answered(d)' = Answered(d)
    BY <1>2, <2>1, SameAnswers
  <2>3. pc[d] \in MigratingPc => renewed'[d] = renewed[d] \cup {p}
    BY <1>2, <2>1 DEF Migrating
  <2>4. \A q \in Place \ {p} : details'[q] = details[q]
    BY <1>1 DEF StorageInv, WorkTyped
  <2>5. \A q \in Answered(d) : q \in Place
    <3>1. batch[d] \in Seq(Place)
      BY <2>1 DEF StorageInv, WorkTyped
    <3>2. Range(batch[d]) \subseteq Place
      BY <3>1 DEF Range
    <3> QED BY <2>1, <3>2, AnsweredAreInBatch
  <2> QED BY <1>2, <2>1, <2>2, <2>3, <2>4, <2>5 DEF StoredOf, Untouched, FieldOf
<1>7. (\A d \in Call : PhaseOf(d)') /\ (\A d \in Migrations : StoredOf(d)')
  BY <1>5, <1>6
<1> QED BY <1>3, <1>4, <1>7 DEF StorageInv, Migrations, With

LEMMA InitStorage == Init => StorageInv
<1> SUFFICES ASSUME Init
             PROVE  StorageInv
  OBVIOUS
<1>1. \A c \in Call : pc[c] = "idle"
  BY DEF Init, AccountsInit
<1>2. WorkTyped
  <2>1. details \in [Place -> SUBSET Field]
    BY StoredAssumption DEF Init
  <2> QED BY <2>1, MigrationsAreCalls DEF Init, AccountsInit, WorkTyped, Nothing
<1>3. AloneRuns
  BY <1>1, MigrationsAreCalls DEF AloneRuns, MigratingPc
<1>4. \A c \in Call : PhaseOf(c)
  BY <1>1 DEF Init, PhaseOf, MigratingPc, Nothing
<1>5. \A c \in Migrations : StoredOf(c)
  BY <1>1, MigrationsAreCalls DEF StoredOf, MigratingPc
<1> QED BY <1>2, <1>3, <1>4, <1>5 DEF StorageInv

LEMMA StorageInvariant == Spec => []StorageInv
<1>1. Init => StorageInv
  BY InitStorage
<1>2. AccountsInv /\ MigrationInv /\ StorageInv /\ [Next]_vars => StorageInv'
  <2> SUFFICES ASSUME Typed, MigrationInv, StorageInv, [Next]_vars
               PROVE  StorageInv'
    BY DEF AccountsInv
  <2>1. CASE AccountsNext /\ UNCHANGED migrationVars
    BY <2>1, AccountsStorage
  <2>2. ASSUME NEW c \in Migrations,
               Add(c) \/ Scan(c) \/ ScanFails(c) \/ DetailsArrive(c) \/ Panic(c)
        PROVE  StorageInv'
    BY <2>2, AddStorage, ScanStorage, DetailsArriveStorage, PanicStorage
  <2>3. ASSUME NEW c \in Migrations, MigrationStep(c)
        PROVE  StorageInv'
    BY <2>3, SelectStorage, EndSelectStorage, MarkStorage, EndSearchStorage,
       ReadPlaceStorage, ReadPlaceFailsStorage, WritePlaceStorage, ReturnStorage
       DEF MigrationStep
  <2>4. CASE UNCHANGED vars
    <3>1. WorkTyped'
      BY <2>4 DEF vars, accountVars, migrationVars, redis, work, history, StorageInv, WorkTyped
    <3>2. AloneRuns'
      BY <2>4 DEF vars, accountVars, migrationVars, history, StorageInv, AloneRuns,
                  Migrations, With
    <3>3. \A d \in Call : SameWork(d)
      BY <2>4 DEF vars, migrationVars, redis, work, history, SameWork
    <3>4. UNCHANGED <<pc, alone, failed, details>>
      BY <2>4 DEF vars, accountVars, migrationVars, redis, history
    <3>5. \A d \in Call : PhaseOf(d)'
      BY <3>3, <3>4, SamePhase DEF StorageInv
    <3>6. \A d \in Migrations : StoredOf(d)'
      BY <3>3, <3>4, SameStored, MigrationsAreCalls DEF StorageInv
    <3> QED BY <3>1, <3>2, <3>5, <3>6 DEF StorageInv, Migrations, With
  <2>5. ASSUME NEW p \in Place, SearchStores(p)
        PROVE  StorageInv'
    BY <2>5, SearchStorage
  <2> QED BY <2>1, <2>2, <2>3, <2>4, <2>5 DEF Next
<1> QED BY <1>1, <1>2, AccountsInvariant, MigrationInvariant, PTL DEF Spec

\* Only Return ends an update in "done".
LEMMA OnlyReturn ==
    ASSUME Typed, [Next]_vars, NEW c \in Call, pc[c] = "update", pc'[c] = "done"
    PROVE  Return(c)
<1> USE DEF Move, Typed
<1>1. CASE AccountsNext
  <2>1. ~ DropCookie
    BY DEF DropCookie
  <2>2. ASSUME NEW d \in Call, SignUp(d) \/ Login(d) \/ Authenticate(d) \/ AccountsStep(d)
        PROVE  FALSE
    <3>1. pc[d] # "update" /\ \E to : pc' = [pc EXCEPT ![d] = to]
      BY <2>2 DEF SignUp, Login, Authenticate, Begin, AccountsStep, CheckName,
                  CheckNameFails, WriteUser, WriteUserFails, FindUser, CheckPassword,
                  CheckLevel
    <3> QED BY <3>1
  <2> QED BY <1>1, <2>1, <2>2 DEF AccountsNext
<1>2. ASSUME NEW d \in Migrations, Add(d) \/ Scan(d) \/ ScanFails(d)
      PROVE  FALSE
  <2>1. pc[d] # "update" /\ \E to : pc' = [pc EXCEPT ![d] = to]
    BY <1>2 DEF Add, Begin, Scan, ScanFails
  <2> QED BY <2>1
<1>3. ASSUME NEW d \in Migrations, DetailsArrive(d) \/ Panic(d)
      PROVE  FALSE
  BY <1>3 DEF DetailsArrive, Panic, Running
<1>4. ASSUME NEW d \in Migrations, MigrationStep(d)
      PROVE  d = c /\ Return(d)
  <2>1. CASE Return(d)
    BY <2>1, MigrationsAreCalls DEF Return
  <2>2. CASE ~ Return(d)
    BY <1>4, <2>2, MigrationsAreCalls
       DEF MigrationStep, Select, EndSelect, Mark, EndSearch, ReadPlace, ReadPlaceFails,
           WritePlace
  <2> QED BY <2>1, <2>2
<1>5. CASE UNCHANGED vars
  BY <1>5 DEF vars, accountVars
<1>6. ASSUME NEW p \in Place, SearchStores(p)
      PROVE  FALSE
  BY <1>6 DEF SearchStores, accountVars
<1> QED BY <1>1, <1>2, <1>3, <1>4, <1>5, <1>6 DEF Next

\* When a migration that no other overlapped and Redis did not fail returns, the
\* places Google Maps has answered for have the field in Redis, and no place has
\* lost another, but for places that a search has stored meanwhile.
THEOREM BatchesAreStored == Spec => BatchStored
<1> DEFINE StoredOnReturn ==
             \A c \in alone \ failed :
                pc[c] = "update" /\ pc'[c] = "done" =>
                    /\ \A p \in Answered(c) \ renewed[c] : FieldOf(c) \in details'[p]
                    /\ \A p \in Place \ renewed[c] :
                         before[c][p] \ {FieldOf(c)} \subseteq details'[p]
<1>1. Typed /\ StorageInv /\ [Next]_vars => StoredOnReturn
  <2> SUFFICES ASSUME Typed, StorageInv, [Next]_vars,
                      NEW c \in alone \ failed, pc[c] = "update", pc'[c] = "done"
               PROVE  /\ \A p \in Answered(c) \ renewed[c] : FieldOf(c) \in details'[p]
                      /\ \A p \in Place \ renewed[c] :
                           before[c][p] \ {FieldOf(c)} \subseteq details'[p]
    OBVIOUS
  <2>1. c \in Call /\ PhaseOf(c)
    BY DEF StorageInv, WorkTyped
  <2>2. c \in Migrations
    BY <2>1 DEF PhaseOf, MigratingPc
  <2>3. StoredOf(c)
    BY <2>2 DEF StorageInv
  <2>4. details' = details /\ unread[c] = {} /\ DOMAIN writing[c] = {}
    BY <2>1, OnlyReturn DEF Return, AllDone, redis, Nothing
  <2> QED BY <2>3, <2>4 DEF StoredOf, Untouched, MigratingPc
<1>2. AccountsInv => Typed
  BY DEF AccountsInv
<1> QED BY <1>1, <1>2, AccountsInvariant, StorageInvariant, PTL DEF Spec, BatchStored

-----------------------------------------------------------------------------
(***************************************************************************)
(* Type correctness.                                                       *)
(***************************************************************************)

AccountTypes ==
    /\ DOMAIN users \subseteq User
    /\ \A u \in DOMAIN users : users[u] \in {Account(c) : c \in SignUps}
    /\ contested \subseteq User

LEMMA AccountTypesKept ==
    ASSUME AccountsInv, AccountTypes, [Next]_vars
    PROVE  AccountTypes'
<1> USE DEF AccountTypes
<1>1. (Aside => users' = users /\ contested' = contested)
  BY DEF Aside
<1>2. ASSUME users' = users, contested' = contested
      PROVE  AccountTypes'
  BY <1>2 DEF Account, User, SignUps, With
<1>3. Typed
  BY DEF AccountsInv
<1>4. ASSUME NEW c \in Call, pc[c] \in {"check", "write"}
      PROVE  c \in SignUps /\ who[c] \in User
  BY <1>4, UserOf DEF AccountsInv, OwnNames, SignUpPc, SignUps, With
<1>5. ASSUME NEW c \in Call, SignUp(c)
      PROVE  AccountTypes'
  <2>1. users' = users /\ contested' \subseteq contested \cup {Request[c].user}
    BY <1>5 DEF SignUp, store
  <2>2. Request[c].user \in User
    BY <1>5, UserOf DEF SignUp, Begin
  <2> QED BY <2>1, <2>2 DEF Account, User, SignUps, With
<1>6. ASSUME NEW c \in Call, CheckNameFails(c)
      PROVE  AccountTypes'
  <2>1. users' = users /\ contested' = contested \cup {who[c]} /\ who[c] \in User
    BY <1>4, <1>6 DEF CheckNameFails, Move, store
  <2> QED BY <2>1 DEF Account, User, SignUps, With
<1>7. ASSUME NEW c \in Call, WriteUser(c) \/ WriteUserFails(c)
      PROVE  AccountTypes'
  <2>1. /\ users' \in {users, Created(c)} /\ contested' = contested
        /\ c \in SignUps /\ who[c] \in User
    BY <1>4, <1>7 DEF WriteUser, WriteUserFails, Move
  <2>2. /\ DOMAIN Created(c) = DOMAIN users \cup {who[c]}
        /\ \A u \in DOMAIN Created(c) : Created(c)[u] \in {Account(d) : d \in SignUps}
    BY <2>1 DEF Created, Put
  <2>3. /\ DOMAIN users' \subseteq User
        /\ \A u \in DOMAIN users' : users'[u] \in {Account(d) : d \in SignUps}
    BY <2>1, <2>2
  <2> QED BY <2>1, <2>3 DEF Account, User, SignUps, With
<1>8. ASSUME NEW c \in Call,
             CheckName(c) \/ Login(c) \/ Authenticate(c) \/ FindUser(c) \/ CheckPassword(c)
               \/ CheckLevel(c)
      PROVE  AccountTypes'
  <2>1. CASE CheckName(c)
    BY <1>2, <2>1 DEF CheckName, store
  <2>2. CASE ~ CheckName(c)
    BY <1>1, <1>2, <1>3, <1>8, <2>2, OtherAccountsStep
  <2> QED BY <2>1, <2>2
<1>9. CASE DropCookie
  BY <1>2, <1>9 DEF DropCookie
<1>10. ASSUME NEW c \in Migrations,
              \/ Add(c) \/ Scan(c) \/ ScanFails(c) \/ MigrationStep(c)
              \/ DetailsArrive(c) \/ Panic(c)
       PROVE  AccountTypes'
  BY <1>1, <1>2, <1>3, <1>10, MigrationAside
<1>11. ASSUME NEW p \in Place, SearchStores(p)
       PROVE  AccountTypes'
  BY <1>2, <1>11 DEF SearchStores, accountVars
<1>12. CASE UNCHANGED vars
  BY <1>2, <1>12 DEF vars, accountVars
<1> QED BY <1>5, <1>6, <1>7, <1>8, <1>9, <1>10, <1>11, <1>12
        DEF Next, AccountsNext, AccountsStep

\* The variables of Accounts and Migration have their types; while a migration
\* marks and updates, it works on places of its batch, which is no larger than
\* BatchSize.
THEOREM MigrationTypeCorrect == Spec => []TypeOK
<1>1. Init => AccountTypes
  BY DEF Init, AccountsInit, AccountTypes
<1>2. AccountsInv /\ AccountTypes /\ [Next]_vars => AccountTypes'
  BY AccountTypesKept
<1>3. Spec => []AccountTypes
  BY <1>1, <1>2, AccountsInvariant, PTL DEF Spec
<1>4. AccountsInv /\ AccountTypes /\ StorageInv => TypeOK
  <2> SUFFICES ASSUME AccountsInv, AccountTypes, StorageInv
               PROVE  TypeOK
    OBVIOUS
  <2>1. Typed /\ WorkTyped
    BY DEF AccountsInv, StorageInv
  <2>2. AccountsTypeOK
    <3>1. Range(users) \subseteq {Account(c) : c \in SignUps}
      BY DEF AccountTypes, Range
    <3> QED BY <2>1, <3>1 DEF AccountsTypeOK, AccountTypes, Typed, WorkTyped
  <2>3. ASSUME NEW c \in Call
        PROVE  /\ Range(todo[c]) \cup Range(batch[c]) \cup DOMAIN writing[c] \subseteq Place
               /\ pc[c] \in {"mark", "update"} =>
                     /\ Len(batch[c]) <= BatchSize
                     /\ searching[c] \cup found[c] \subseteq DOMAIN batch[c]
                     /\ unread[c] \cup DOMAIN writing[c] \subseteq Range(batch[c])
    <3>1. PhaseOf(c) /\ todo[c] \in Seq(Place) /\ batch[c] \in Seq(Place)
      BY <2>1 DEF StorageInv, WorkTyped
    <3>2. Range(todo[c]) \subseteq Place /\ Range(batch[c]) \subseteq Place
      BY <3>1 DEF Range
    <3>3. DOMAIN writing[c] \subseteq Place
      BY <2>1 DEF WorkTyped
    <3>4. DOMAIN batch[c] = 1 .. Len(batch[c])
      BY <3>1
    <3> QED BY <3>1, <3>2, <3>3, <3>4 DEF PhaseOf
  <2> QED BY <2>1, <2>2, <2>3 DEF TypeOK, Typed, PcValue, WorkTyped
<1> QED BY <1>3, <1>4, AccountsInvariant, StorageInvariant, PTL
=============================================================================
