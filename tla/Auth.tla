-------------------------------- MODULE Auth --------------------------------
(***************************************************************************)
(* Who may use go-via's API: the users table, the in-memory sessions and   *)
(* the login throttle (internal/auth), and the handlers that use all three *)
(* (internal/api: login.go, middleware.go, users.go).                      *)
(*                                                                         *)
(* Sessions and Throttle each guard a map by a mutex, the table is reached *)
(* statement by statement, and nothing spans two of them: a handler is one *)
(* step per map or table access.                                           *)
(*                                                                         *)
(* Time is a tick that ages every session and every throttle record;       *)
(* comparisons with time.Now() are comparisons with an age.                *)
(***************************************************************************)
EXTENDS Naturals, FiniteSets

CONSTANTS
    Names,          \* usernames
    Passwords,      \* clear texts; bcrypt tells them apart and nothing else
    Sources,        \* source addresses of API clients
    Tokens,         \* session tokens rand.Read can still produce, each once
    Workers,        \* goroutines that can serve a request at the same time
    None,           \* no name, no password, no token
    Admin,          \* the account main seeds ...
    Default,        \* ... and its documented password
    Requests,       \* the requests clients may send, any number of times
    MaxFailures,    \* auth.NewThrottle(10, 15 minutes)
    Window,         \* the throttle's window, in ticks
    TTL,            \* a session's lifetime without use, in ticks
    MaxUsers,       \* largest user id the store can allocate
    MaxRestarts

VARIABLES
    users, nextUser,    \* the users table and its AUTOINCREMENT counter
    sessions,           \* Sessions.m: token -> session
    throttle,           \* Throttle.m: key -> attempts
    pc, req, row,       \* per worker: the next step, the request, the loaded user
    restarts,
    opened              \* history: token -> the account and password it was issued for

vars == <<users, nextUser, sessions, throttle, pc, req, row, restarts, opened>>
table == <<users, nextUser>>

-----------------------------------------------------------------------------
(* Types                                                                   *)

Ops == {"Login", "Logout", "Read", "CreateUser", "UpdateUser", "DeleteUser"}
Steps == Ops \cup {"idle", "allowed", "find", "compare", "create", "middleware",
                   "destroyUser", "saveUser"}

User == [id : Nat, name : Names \cup {None}, password : Passwords \cup {None}, must : BOOLEAN]
ZeroUser == [id |-> 0, name |-> None, password |-> None, must |-> FALSE]

\* name and password: Login's body, or the basic-auth header (None: there is none).
\* newName and newPassword: the body of CreateUser or UpdateUser (None: left out).
Form == [op : Ops, source : Sources \cup {None}, name : Names \cup {None}, password : Passwords \cup {None},
         id : Nat, newName : Names \cup {None}, newPassword : Passwords \cup {None}]
Request == [form : Form, token : Tokens \cup {None}]
NullRequest ==
    [form |-> [op |-> "Read", source |-> None, name |-> None, password |-> None,
               id |-> 0, newName |-> None, newPassword |-> None], token |-> None]

\* idle: how long ago the session was last used.
Session == [user : Names \cup {None}, idle : 0..(TTL + 1)]
NoSession == [user |-> None, idle |-> 0]

Keys == Names \X Sources

\* age: how long ago the last failure was.  attempts.blocked is only ever set
\* together with attempts.last, to last + window, so the two fields say it all.
Attempts == [count : Nat, age : 0..(Window + 1)]
NoAttempts == [count |-> 0, age |-> 0]

ASSUME AuthConstants ==
    /\ None \notin Names \cup Passwords \cup Tokens \cup Sources
    /\ Admin \in Names /\ Default \in Passwords
    /\ MaxFailures \in Nat \ {0} /\ Window \in Nat \ {0} /\ TTL \in Nat \ {0}
    /\ MaxUsers \in Nat \ {0} /\ MaxRestarts \in Nat
    /\ IsFiniteSet(Workers)

ASSUME RequestAssumption ==
    /\ Requests \subseteq Form
    /\ \A r \in Requests : r.source # None /\ (r.op = "Login" => r.name # None)

-----------------------------------------------------------------------------
(* Sessions (internal/auth/session.go), each operation under its mutex     *)

Live(t) == sessions[t].user # None
Expired(s) == s.idle > TTL
sweepLocked(m) == [t \in Tokens |-> IF Expired(m[t]) THEN NoSession ELSE m[t]]

Create(t, name) == sweepLocked([sessions EXCEPT ![t] = [user |-> name, idle |-> 0]])
Known(t) == t # None /\ Live(t) /\ ~Expired(sessions[t])

\* Mutant: the lifetime is extended without looking whether the token is in the map.
LookupRevives(t) ==
    IF t = None THEN sessions
    ELSE [sessions EXCEPT ![t] = [user |-> Admin, idle |-> 0]]

\* A known session's lifetime is extended, an expired one is dropped.
Lookup(t) ==
    IF t = None THEN sessions
    ELSE [sessions EXCEPT ![t] = IF Known(t) THEN [@ EXCEPT !.idle = 0] ELSE NoSession]

Destroy(t) == IF t = None THEN sessions ELSE [sessions EXCEPT ![t] = NoSession]

\* Mutant: nobody is logged out.
DestroyNobody(name) == sessions

DestroyUser(name) ==
    [t \in Tokens |-> IF sessions[t].user = name THEN NoSession ELSE sessions[t]]

-----------------------------------------------------------------------------
(* Throttle (internal/auth/throttle.go), each operation under its mutex    *)

\* Max failures block the key for a window, counted from the last of them.
Blocked(a) == a.count >= MaxFailures /\ a.age < Window

\* A record whose block is over, or that is older than the window, is deleted.
Forgotten(a) == IF a.count >= MaxFailures THEN a.age >= Window ELSE a.age > Window

\* Mutant: the block is not looked at.
AllowedAnyway(k) == TRUE

Allowed(k) == ~Blocked(throttle[k])
Forget(k) ==
    IF Forgotten(throttle[k]) THEN [throttle EXCEPT ![k] = NoAttempts] ELSE throttle

Fail(k) ==
    [throttle EXCEPT ![k] =
        [count |-> IF @.age > Window THEN 1 ELSE @.count + 1, age |-> 0]]

Succeed(k) == [throttle EXCEPT ![k] = NoAttempts]

\* Mutant: a refused attempt starts the block over.
RefuseExtends(k) == [throttle EXCEPT ![k].age = 0]

\* A refused attempt is not recorded.
Refuse(k) == throttle

-----------------------------------------------------------------------------
(* The handlers                                                            *)

Goto(w, step) == pc' = [pc EXCEPT ![w] = step]
Done(w) ==
    /\ Goto(w, "idle")
    /\ req' = [req EXCEPT ![w] = NullRequest]
    /\ row' = [row EXCEPT ![w] = ZeroUser]

throttleKey(w) == <<req[w].form.name, req[w].form.source>>

\* gorm's First by username; usernames are not unique.
ByName(name) == {u \in users : u.name = name /\ \A v \in users : v.name = name => u.id <= v.id}
ByID(id) == {u \in users : u.id = id}

\* Everything but Login goes through Auth.Middleware first.
Receive(w) ==
    /\ pc[w] = "idle"
    /\ \E r \in Requests, t \in {x \in Tokens : opened[x].id # 0} \cup {None} :
         /\ req' = [req EXCEPT ![w] = [form |-> r, token |-> t]]
         /\ Goto(w, IF r.op = "Login" THEN "allowed" ELSE "middleware")
    /\ UNCHANGED <<table, sessions, throttle, row, restarts, opened>>

\* A live session authenticates; without one, basic auth does if it is offered.
Middleware(w) ==
    /\ pc[w] = "middleware"
    /\ sessions' = Lookup(req[w].token)
    /\ \/ Known(req[w].token) /\ Goto(w, req[w].form.op) /\ UNCHANGED <<req, row>>
       \/ ~Known(req[w].token) /\ req[w].form.name # None /\ Goto(w, "allowed")
          /\ UNCHANGED <<req, row>>
       \/ ~Known(req[w].token) /\ req[w].form.name = None /\ Done(w)
    /\ UNCHANGED <<table, throttle, restarts, opened>>

CheckAllowed(w) ==
    /\ pc[w] = "allowed"
    /\ \/ /\ Allowed(throttleKey(w))
          /\ throttle' = Forget(throttleKey(w))
          /\ Goto(w, "find") /\ UNCHANGED <<req, row>>
       \/ /\ ~Allowed(throttleKey(w))
          /\ throttle' = Refuse(throttleKey(w))
          /\ Done(w)
    /\ UNCHANGED <<table, sessions, restarts, opened>>

\* verify, first half: the row it reads is compared and used later.
FindUser(w) ==
    /\ pc[w] = "find"
    /\ \/ ByName(req[w].form.name) = {} /\ UNCHANGED row
       \/ \E u \in ByName(req[w].form.name) : row' = [row EXCEPT ![w] = u]
    /\ Goto(w, "compare")
    /\ UNCHANGED <<table, sessions, throttle, req, restarts, opened>>

ComparePasswords(w) == row[w].id # 0 /\ row[w].password = req[w].form.password

\* verify, second half: the outcome is recorded against the throttle.
Compare(w) ==
    /\ pc[w] = "compare"
    /\ \/ /\ ComparePasswords(w)
          /\ throttle' = Succeed(throttleKey(w))
          /\ Goto(w, IF req[w].form.op = "Login" THEN "create" ELSE req[w].form.op)
          /\ UNCHANGED <<req, row>>
       \/ /\ ~ComparePasswords(w)
          /\ throttle' = Fail(throttleKey(w))
          /\ Done(w)
    /\ UNCHANGED <<table, sessions, restarts, opened>>

\* Login's end: a token nobody has seen before; without one (rand.Read fails) a 500.
StartSession(w) ==
    /\ pc[w] = "create"
    /\ Done(w)
    /\ \/ \E t \in Tokens :
            /\ opened[t].id = 0
            /\ sessions' = Create(t, row[w].name)
            /\ opened' = [opened EXCEPT ![t] = [id |-> row[w].id, password |-> row[w].password]]
       \/ UNCHANGED <<sessions, opened>>
    /\ UNCHANGED <<table, throttle, restarts>>

Logout(w) ==
    /\ pc[w] = "Logout"
    /\ Done(w)
    /\ sessions' = Destroy(req[w].token)
    /\ UNCHANGED <<table, throttle, restarts, opened>>

\* Session, and every other handler that leaves the accounts alone.
Read(w) ==
    /\ pc[w] = "Read"
    /\ Done(w)
    /\ UNCHANGED <<table, sessions, throttle, restarts, opened>>

CreateUser(w) ==
    /\ pc[w] = "CreateUser"
    /\ Done(w)
    /\ IF nextUser <= MaxUsers
       THEN /\ users' = users \cup {[id |-> nextUser, name |-> req[w].form.newName,
                                     password |-> req[w].form.newPassword, must |-> FALSE]}
            /\ nextUser' = nextUser + 1
       ELSE UNCHANGED table
    /\ UNCHANGED <<sessions, throttle, restarts, opened>>

Override(old, new) == IF new = None THEN old ELSE new

\* Mutant: the flag goes down whatever the request changes.
MergeUnflagged(u, form) ==
    [id |-> u.id, name |-> Override(u.name, form.newName),
     password |-> Override(u.password, form.newPassword), must |-> FALSE]

\* A password that was supplied is hashed and takes the flag down.
Merge(u, form) ==
    [id |-> u.id, name |-> Override(u.name, form.newName),
     password |-> Override(u.password, form.newPassword),
     must |-> u.must /\ form.newPassword = None]

UpdateUser(w) ==
    /\ pc[w] = "UpdateUser"
    /\ \/ ByID(req[w].form.id) = {} /\ Done(w)
       \/ \E u \in ByID(req[w].form.id) :
            /\ row' = [row EXCEPT ![w] = Merge(u, req[w].form)]
            /\ Goto(w, IF req[w].form.newPassword # None THEN "destroyUser" ELSE "saveUser")
            /\ UNCHANGED req
    /\ UNCHANGED <<table, sessions, throttle, restarts, opened>>

\* The sessions of the name the account is about to have.
DestroyUserSessions(w) ==
    /\ pc[w] = "destroyUser"
    /\ sessions' = DestroyUser(row[w].name)
    /\ Goto(w, "saveUser")
    /\ UNCHANGED <<table, throttle, req, row, restarts, opened>>

\* Mutant: Save inserts without looking for the row it stands for.
SaveDuplicate(w) ==
    /\ pc[w] = "saveUser"
    /\ Done(w)
    /\ users' = users \cup {row[w]}
    /\ UNCHANGED <<nextUser, sessions, throttle, restarts, opened>>

\* Save writes every column, and inserts the row again if it is gone.
SaveUser(w) ==
    /\ pc[w] = "saveUser"
    /\ Done(w)
    /\ users' = {u \in users : u.id # row[w].id} \cup {row[w]}
    /\ UNCHANGED <<nextUser, sessions, throttle, restarts, opened>>

\* The sessions of the account stay.
DeleteUser(w) ==
    /\ pc[w] = "DeleteUser"
    /\ Done(w)
    /\ users' = {u \in users : u.id # req[w].form.id}
    /\ UNCHANGED <<nextUser, sessions, throttle, restarts, opened>>

-----------------------------------------------------------------------------
(* Time, and the daemon's start                                            *)

Older(n, limit) == IF n > limit THEN n ELSE n + 1

Tick ==
    /\ sessions' = [t \in Tokens |->
         IF Live(t) THEN [sessions[t] EXCEPT !.idle = Older(@, TTL)] ELSE sessions[t]]
    /\ throttle' = [k \in Keys |->
         IF throttle[k].count > 0 THEN [throttle[k] EXCEPT !.age = Older(@, Window)]
         ELSE throttle[k]]
    /\ UNCHANGED <<table, pc, req, row, restarts, opened>>

\* FirstOrCreate: an account by the name admin is there after every start.
Seed(id) == [id |-> id, name |-> Admin, password |-> Default, must |-> TRUE]
NeedsSeed == nextUser <= MaxUsers /\ \A u \in users : u.name # Admin

\* Sessions and throttle records are memory, the table is not.
Restart ==
    /\ restarts < MaxRestarts
    /\ restarts' = restarts + 1
    /\ users' = IF NeedsSeed THEN users \cup {Seed(nextUser)} ELSE users
    /\ nextUser' = IF NeedsSeed THEN nextUser + 1 ELSE nextUser
    /\ sessions' = [t \in Tokens |-> NoSession]
    /\ throttle' = [k \in Keys |-> NoAttempts]
    /\ pc' = [w \in Workers |-> "idle"]
    /\ req' = [w \in Workers |-> NullRequest]
    /\ row' = [w \in Workers |-> ZeroUser]
    /\ UNCHANGED opened

\* The first start seeds the admin account.
Init ==
    /\ users = {Seed(1)}
    /\ nextUser = 2
    /\ sessions = [t \in Tokens |-> NoSession]
    /\ throttle = [k \in Keys |-> NoAttempts]
    /\ pc = [w \in Workers |-> "idle"]
    /\ req = [w \in Workers |-> NullRequest]
    /\ row = [w \in Workers |-> ZeroUser]
    /\ restarts = 0
    /\ opened = [t \in Tokens |-> [id |-> 0, password |-> None]]

Authenticate(w) == Middleware(w) \/ CheckAllowed(w) \/ FindUser(w) \/ Compare(w)
Accounts(w) == CreateUser(w) \/ UpdateUser(w) \/ DestroyUserSessions(w) \/ SaveUser(w)
               \/ DeleteUser(w)
Handle(w) == Authenticate(w) \/ StartSession(w) \/ Logout(w) \/ Read(w) \/ Accounts(w)

Next == (\E w \in Workers : Receive(w) \/ Handle(w)) \/ Tick \/ Restart

Spec == Init /\ [][Next]_vars

\* Time passes; clients are free to hammer on, or to stop.
FairSpec == Spec /\ WF_vars(Tick)

-----------------------------------------------------------------------------
(* Properties                                                              *)

\* Every variable has its type, and the users table is keyed: no id is used twice or
\* ahead of the counter, although updates write back rows that may have been deleted.
AuthTypeOK ==
    /\ users \subseteq User /\ nextUser \in Nat \ {0}
    /\ \A u, v \in users : u.id = v.id => u = v
    /\ \A u \in users : u.id \in 1..(nextUser - 1)
    /\ sessions \in [Tokens -> Session] /\ throttle \in [Keys -> Attempts]
    /\ pc \in [Workers -> Steps] /\ req \in [Workers -> Request] /\ row \in [Workers -> User]
    /\ restarts \in Nat
    /\ opened \in [Tokens -> [id : Nat, password : Passwords \cup {None}]]

\* A request on its way through the throttle has a key: an account name and a source.
Keyed ==
    \A w \in Workers :
        /\ pc[w] \in {"middleware", "allowed", "find", "compare"} => req[w].form.source \in Sources
        /\ pc[w] \in {"allowed", "find", "compare"} => req[w].form.name \in Names

\* What UpdateUser is about to save was a row of the table once.
RowsOnceStored ==
    \A w \in Workers : pc[w] \in {"destroyUser", "saveUser"} => row[w].id \in 1..(nextUser - 1)

\* The workers that Throttle.Allowed has let through for a key and that have not
\* recorded an outcome yet.
Admitted(k) == {w \in Workers : pc[w] \in {"find", "compare"} /\ throttleKey(w) = k}

\* Allowed and Fail are two critical sections: guesses that run side by side can
\* overshoot the limit, but never by more than the requests that were already
\* admitted when the block fell.
GuessesBounded ==
    \A k \in Keys : throttle[k].count + Cardinality(Admitted(k))
                        <= MaxFailures - 1 + Cardinality(Workers)

\* A block ends: attempts refused while it lasts do not extend it, however hard a
\* client keeps trying, so an operator gets back in after the window.
BlockExpires ==
    \A k \in Keys : Blocked(throttle[k]) ~> ~Blocked(throttle[k])

\* A token that has ended (logout, expiry, a changed password, a restart) never comes
\* back to life, although Lookup writes the session it read back into the map.
EndedStaysEnded ==
    [][\A t \in Tokens : opened[t].id # 0 /\ ~Live(t) => ~Live(t)']_vars

\* UpdateUser: "Sessions opened with the old password must not outlive it".
NoStaleSession ==
    \A t \in Tokens : \A u \in users :
        Live(t) /\ opened[t].id = u.id => opened[t].password = u.password

\* MustChangePassword "marks an account still carrying the credential it was seeded
\* with": whatever updates, deletions and restarts do, the default password is never
\* in use without the mark (no request of the model chooses it again).
DefaultIsFlagged ==
    \A u \in users : u.password = Default => u.must
=============================================================================
