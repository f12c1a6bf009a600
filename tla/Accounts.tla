------------------------------ MODULE Accounts ------------------------------
(***************************************************************************)
(* Sign-up, login and the authentication of requests                       *)
(* (planner/user_authentication.go over iowrappers/users.go).  An account  *)
(* is a hash in Redis, checked and written by two commands; a session is   *)
(* two cookies of the browser, of which JWT is kept for ten days and       *)
(* Username until the browser is closed.  Each step is one Redis command,  *)
(* any of which may fail, and handlers interleave.                         *)
(***************************************************************************)
EXTENDS Integers, FiniteSets, SequencesExt

CONSTANTS
    Call,           \* HTTP requests, and calls of the package
    Request,        \* what each is: its op and what it comes with
    AdminUsers,     \* ADMIN_USERS
    MayOverlap,     \* bound: pairs of calls that may be in progress together
    MaxFailing      \* bound: calls that Redis fails

NoName == "none"

With(ops) == {c \in Call : Request[c].op \in ops}
SignUps == With({"signup"})
User == {Request[c].user : c \in With({"signup", "login"})}

VARIABLES
    pc,         \* the step each call is at
    who,        \* the user each call looks up
    users,      \* Redis: user:<name>
    cookies,    \* the browser: the presence of JWT, and Username
    failed,     \* history: calls with a failed Redis command
    contested   \* history: names with sign-ups at the same time, or a failed one

store == <<users, cookies>>
accountVars == <<pc, who, users, cookies, failed, contested>>

NoCookies == [jwt |-> FALSE, name |-> NoName]
Final == {"idle", "refused", "created", "logged in", "panicked", "done", "crashed"}
Running(c) == pc[c] \notin Final

AccountsInit ==
    /\ pc = [c \in Call |-> "idle"]
    /\ who = [c \in Call |-> NoName]
    /\ users = [u \in {} |-> <<>>]
    /\ cookies = NoCookies
    /\ failed = {}
    /\ contested = {}

Move(c, from, to) == pc[c] = from /\ pc' = [pc EXCEPT ![c] = to]

\* A call begins while only such others are in progress.
Begin(c, ops, to) ==
    /\ Request[c].op \in ops
    /\ Move(c, "idle", to)
    /\ \A d \in Call : Running(d) => {c, d} \in MayOverlap

Fail(c) ==
    /\ Cardinality(failed \cup {c}) <= MaxFailing
    /\ failed' = failed \cup {c}

\* UserSignup.
SignUp(c) ==
    /\ Begin(c, {"signup"}, "check")
    /\ who' = [who EXCEPT ![c] = Request[c].user]
    /\ contested' = IF \E d \in SignUps : Running(d) /\ who[d] = Request[c].user
                    THEN contested \cup {Request[c].user}
                    ELSE contested
    /\ UNCHANGED <<store, failed>>

\* Fault of NameIsFree: the name is not looked up.
AnyNameIsFree(name) == TRUE

NameIsFree(name) == name \notin DOMAIN users

\* CreateUser: EXISTS ...
CheckName(c) ==
    /\ Move(c, "check", IF NameIsFree(who[c]) THEN "write" ELSE "refused")
    /\ UNCHANGED <<who, store, failed, contested>>

\* ... which counts as free when the command fails ...
CheckNameFails(c) ==
    /\ Move(c, "check", "write")
    /\ Fail(c)
    /\ contested' = contested \cup {who[c]}
    /\ UNCHANGED <<who, store>>

\* ... and HMSET of the password and the level that UserSignup has chosen.
Account(c) ==
    [password |-> Request[c].password,
     level |-> IF Request[c].user \in AdminUsers THEN 1 ELSE 0]

\* A map of Redis, or of Go, after a write.
Put(map, key, value) ==
    [k \in DOMAIN map \cup {key} |-> IF k = key THEN value ELSE map[k]]

Created(c) == Put(users, who[c], Account(c))

WriteUser(c) ==
    /\ Move(c, "write", "created")
    /\ users' = Created(c)
    /\ UNCHANGED <<who, cookies, failed, contested>>

\* A command that fails may have been executed.
WriteUserFails(c) ==
    /\ Move(c, "write", "refused")
    /\ Fail(c)
    /\ users' \in {users, Created(c)}
    /\ UNCHANGED <<who, cookies, contested>>

\* UserLogin.
Login(c) ==
    /\ Begin(c, {"login"}, "exists")
    /\ who' = [who EXCEPT ![c] = Request[c].user]
    /\ UNCHANGED <<store, failed, contested>>

\* UserAuthentication of getPlanningApi and of the migration handlers: no JWT
\* is an error; a JWT without Username is a nil cookie, and a panic.
Authenticate(c) ==
    /\ Begin(c, {"plans", "migrate"},
             IF ~ cookies.jwt THEN "refused"
             ELSE IF cookies.name = NoName THEN "panicked" ELSE "exists")
    /\ who' = [who EXCEPT ![c] = cookies.name]
    /\ UNCHANGED <<store, failed, contested>>

\* FindUser: EXISTS, where an error counts as no such user, ...
FindUser(c) ==
    /\ \/ /\ Move(c, "exists", IF who[c] \in DOMAIN users THEN "get" ELSE "refused")
          /\ UNCHANGED failed
       \/ Move(c, "exists", "refused") /\ Fail(c)
    /\ UNCHANGED <<who, store, contested>>

\* ... and HGETALL.  A login compares the passwords.
CheckPassword(c) ==
    /\ Request[c].op = "login"
    /\ pc[c] = "get"
    /\ \/ /\ Request[c].password = users[who[c]].password
          /\ Move(c, "get", "logged in")
          /\ cookies' = [jwt |-> TRUE, name |-> who[c]]
          /\ UNCHANGED failed
       \/ /\ Request[c].password # users[who[c]].password
          /\ Move(c, "get", "refused")
          /\ UNCHANGED <<cookies, failed>>
       \/ Move(c, "get", "refused") /\ Fail(c) /\ UNCHANGED cookies
    /\ UNCHANGED <<who, users, contested>>

\* Planning goes on as in PlanningServer, a migration with its scan.
Granted(c) == IF Request[c].op = "migrate" THEN "scan" ELSE "done"

MinimumLevel(c) == IF Request[c].op = "migrate" THEN 1 ELSE 0

\* A request compares the levels; a failed HGETALL leaves the level empty,
\* which is as good as regular.
CheckLevel(c) ==
    /\ Request[c].op \in {"plans", "migrate"}
    /\ pc[c] = "get"
    /\ \/ /\ Move(c, "get", IF users[who[c]].level >= MinimumLevel(c)
                            THEN Granted(c) ELSE "refused")
          /\ UNCHANGED failed
       \/ /\ Move(c, "get", IF MinimumLevel(c) = 0 THEN Granted(c) ELSE "refused")
          /\ Fail(c)
    /\ UNCHANGED <<who, store, contested>>

\* The browser drops JWT when it expires and Username when it is closed; of
\* interest before a request that brings them.
DropCookie ==
    /\ \E c \in With({"plans", "migrate"}) : pc[c] = "idle"
    /\ cookies' \in {[cookies EXCEPT !.jwt = FALSE],
                     [cookies EXCEPT !.name = NoName]}
    /\ cookies' # cookies
    /\ UNCHANGED <<pc, who, users, failed, contested>>

AccountsStep(c) ==
    \/ CheckName(c) \/ CheckNameFails(c) \/ WriteUser(c) \/ WriteUserFails(c)
    \/ FindUser(c) \/ CheckPassword(c) \/ CheckLevel(c)

AccountsNext ==
    \/ \E c \in Call : SignUp(c) \/ Login(c) \/ Authenticate(c) \/ AccountsStep(c)
    \/ DropCookie
-----------------------------------------------------------------------------
AccountsTypeOK ==
    /\ who \in [Call -> User \cup {NoName}]
    /\ DOMAIN users \subseteq User
    /\ Range(users) \subseteq {Account(c) : c \in SignUps}
    /\ cookies \in [jwt : BOOLEAN, name : User \cup {NoName}]
    /\ failed \subseteq Call
    /\ contested \subseteq User

\* "user already exists": the account a sign-up was told to have created stays
\* as it was created, whatever later sign-ups for the name do, and crashes in
\* between, unless two sign-ups for it ran at the same time or Redis failed the
\* check of one.
AccountKept ==
    \A c \in SignUps :
        pc[c] = "created" /\ who[c] \notin contested =>
            who[c] \in DOMAIN users /\ users[who[c]] = Account(c)
=============================================================================
