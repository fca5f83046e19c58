----------------------------- MODULE AuthProofs -----------------------------
(***************************************************************************)
(* Proofs about Auth, for any number of workers, accounts, tokens and      *)
(* failures: its types; the bound on the guesses that the throttle lets    *)
(* through; that ended sessions stay ended; that the documented password   *)
(* is never in use unmarked; and that no session outlives a password when  *)
(* requests are served one at a time.                                      *)
(***************************************************************************)
EXTENDS Auth, TLAPS, FiniteSetTheorems

-----------------------------------------------------------------------------
(* Types                                                                   *)

\* The zero values handlers start from are users, requests and records.
LEMMA AuthZeroTypes ==
  /\ ZeroUser \in User /\ NullRequest \in Request
  /\ NoSession \in Session /\ NoAttempts \in Attempts
BY AuthConstants DEF ZeroUser, User, NullRequest, Request, Form, Ops, NoSession, Session,
   NoAttempts, Attempts

\* Every operation of the session map yields a session map.
LEMMA SessionTypes ==
  ASSUME sessions \in [Tokens -> Session]
  PROVE  /\ \A m \in [Tokens -> Session] : sweepLocked(m) \in [Tokens -> Session]
         /\ \A t \in Tokens, n \in Names \cup {None} : Create(t, n) \in [Tokens -> Session]
         /\ \A t \in Tokens \cup {None} : Lookup(t) \in [Tokens -> Session]
         /\ \A t \in Tokens \cup {None} : Destroy(t) \in [Tokens -> Session]
         /\ \A n : DestroyUser(n) \in [Tokens -> Session]
<1>1. \A m \in [Tokens -> Session] : sweepLocked(m) \in [Tokens -> Session]
  BY AuthZeroTypes DEF sweepLocked
<1>2. \A n \in Names \cup {None} : [user |-> n, idle |-> 0] \in Session
  BY AuthConstants DEF Session
<1>3. \A t \in Tokens, n \in Names \cup {None} : Create(t, n) \in [Tokens -> Session]
  BY <1>1, <1>2 DEF Create
<1>4. \A s \in Session : [s EXCEPT !.idle = 0] \in Session
  BY AuthConstants DEF Session
<1>5. \A t \in Tokens \cup {None} : Lookup(t) \in [Tokens -> Session]
  BY <1>4, AuthZeroTypes DEF Lookup
<1>6. \A t \in Tokens \cup {None} : Destroy(t) \in [Tokens -> Session]
  BY AuthZeroTypes DEF Destroy
<1>7. \A n : DestroyUser(n) \in [Tokens -> Session]
  BY AuthZeroTypes DEF DestroyUser
<1> QED BY <1>1, <1>3, <1>5, <1>6, <1>7

\* Every operation of the throttle map yields a throttle map.
LEMMA ThrottleTypes ==
  ASSUME throttle \in [Keys -> Attempts], NEW k \in Keys
  PROVE  /\ Forget(k) \in [Keys -> Attempts] /\ Fail(k) \in [Keys -> Attempts]
         /\ Succeed(k) \in [Keys -> Attempts] /\ Refuse(k) \in [Keys -> Attempts]
<1>1. Forget(k) \in [Keys -> Attempts] /\ Succeed(k) \in [Keys -> Attempts]
      /\ Refuse(k) \in [Keys -> Attempts]
  BY AuthZeroTypes DEF Forget, Succeed, Refuse
<1>2. throttle[k] \in Attempts
  OBVIOUS
<1>3. [count |-> IF throttle[k].age > Window THEN 1 ELSE throttle[k].count + 1, age |-> 0]
        \in Attempts
  BY <1>2, AuthConstants DEF Attempts
<1> QED BY <1>1, <1>3 DEF Fail

\* The key of a request that the throttle is asked about is a key.
LEMMA KeyType ==
  ASSUME Keyed, NEW w \in Workers, pc[w] \in {"allowed", "find", "compare"}
  PROVE  throttleKey(w) \in Keys
BY DEF Keyed, throttleKey, Keys

\* Ending a handler keeps the daemon's types, and leaves its worker with no request.
LEMMA DoneTypes ==
  ASSUME AuthTypeOK, NEW w \in Workers, Done(w)
  PROVE  /\ pc' \in [Workers -> Steps] /\ req' \in [Workers -> Request]
         /\ row' \in [Workers -> User] /\ pc'[w] = "idle"
         /\ \A v \in Workers \ {w} : pc'[v] = pc[v] /\ req'[v] = req[v] /\ row'[v] = row[v]
BY AuthZeroTypes DEF AuthTypeOK, Done, Goto, Steps

\* Moving on to another step keeps them too.
LEMMA GotoTypes ==
  ASSUME AuthTypeOK, NEW w \in Workers, NEW step \in Steps, Goto(w, step)
  PROVE  pc' \in [Workers -> Steps] /\ pc'[w] = step /\ \A v \in Workers \ {w} : pc'[v] = pc[v]
BY DEF AuthTypeOK, Goto

\* The part of the inductive invariant that is not about the throttle's counts.
Shape == AuthTypeOK /\ Keyed /\ RowsOnceStored

\* The ids handed out so far stay handed out.
LEMMA IdsGrow ==
  ASSUME NEW m \in Nat, NEW n \in Nat, m <= n PROVE 1..(m - 1) \subseteq 1..(n - 1)
OBVIOUS

\* A handler that ends: what is left are the other handlers.
LEMMA DoneShape ==
  ASSUME Shape, NEW w \in Workers, Done(w), nextUser' \in Nat, nextUser <= nextUser'
  PROVE  Keyed' /\ RowsOnceStored'
<1> USE DEF Shape
<1>1. /\ pc'[w] = "idle"
      /\ \A v \in Workers \ {w} : pc'[v] = pc[v] /\ req'[v] = req[v] /\ row'[v] = row[v]
  BY DoneTypes
<1>2. Keyed'
  BY <1>1 DEF Keyed
<1>3. nextUser \in Nat
  BY DEF AuthTypeOK
<1>4. 1..(nextUser - 1) \subseteq 1..(nextUser' - 1)
  BY <1>3, IdsGrow
<1>5. RowsOnceStored'
  BY <1>1, <1>4 DEF RowsOnceStored
<1> QED BY <1>2, <1>5

\* A request arrives.
LEMMA ReceiveShape ==
  ASSUME Shape, NEW w \in Workers, Receive(w) PROVE Shape'
<1> USE DEF Shape
<1>1. PICK r \in Requests, t \in Tokens \cup {None} :
        /\ req' = [req EXCEPT ![w] = [form |-> r, token |-> t]]
        /\ Goto(w, IF r.op = "Login" THEN "allowed" ELSE "middleware")
  BY DEF Receive
<1>2. r \in Form /\ r.source \in Sources /\ (r.op = "Login" => r.name \in Names)
  BY RequestAssumption DEF Form
<1>3. /\ pc' \in [Workers -> Steps]
      /\ pc'[w] = IF r.op = "Login" THEN "allowed" ELSE "middleware"
      /\ \A v \in Workers \ {w} : pc'[v] = pc[v]
  BY <1>1, GotoTypes DEF Steps
<1>4. /\ req' \in [Workers -> Request] /\ req'[w].form = r
      /\ \A v \in Workers \ {w} : req'[v] = req[v]
  BY <1>1, <1>2 DEF AuthTypeOK, Request
<1>5. AuthTypeOK'
  BY <1>3, <1>4 DEF AuthTypeOK, Receive, table
<1>6. Keyed'
  BY <1>2, <1>3, <1>4 DEF Keyed
<1>7. RowsOnceStored'
  BY <1>3 DEF RowsOnceStored, Receive, table
<1> QED BY <1>5, <1>6, <1>7

\* A step of a handler that goes on, with the same request, to a step that needs no key
\* it did not have.
LEMMA OnwardShape ==
  ASSUME Shape, NEW w \in Workers, NEW step \in Steps, Goto(w, step), req' = req,
         UNCHANGED <<table, restarts, opened>>,
         sessions' \in [Tokens -> Session], throttle' \in [Keys -> Attempts],
         row' \in [Workers -> User], \A v \in Workers \ {w} : row'[v] = row[v],
         step # "middleware",
         step \in {"allowed", "find", "compare"} =>
             req[w].form.source \in Sources /\ req[w].form.name \in Names,
         step \in {"destroyUser", "saveUser"} => row'[w].id \in 1..(nextUser - 1)
  PROVE  Shape'
<1> USE DEF Shape
<1>1. pc' \in [Workers -> Steps] /\ pc'[w] = step /\ \A v \in Workers \ {w} : pc'[v] = pc[v]
  BY GotoTypes
<1>2. AuthTypeOK'
  BY <1>1 DEF AuthTypeOK, table
<1>3. Keyed'
  BY <1>1 DEF Keyed
<1>4. RowsOnceStored'
  BY <1>1 DEF RowsOnceStored, table
<1> QED BY <1>2, <1>3, <1>4

\* A step that ends the handler and leaves the accounts alone.
LEMMA EndShape ==
  ASSUME Shape, NEW w \in Workers, Done(w), UNCHANGED <<table, restarts>>,
         sessions' \in [Tokens -> Session], throttle' \in [Keys -> Attempts],
         opened' \in [Tokens -> [id : Nat, password : Passwords \cup {None}]]
  PROVE  Shape'
<1> USE DEF Shape
<1>1. AuthTypeOK'
  BY DoneTypes DEF AuthTypeOK, table
<1>2. nextUser' \in Nat /\ nextUser <= nextUser'
  BY DEF AuthTypeOK, table
<1> QED BY <1>1, <1>2, DoneShape

\* Middleware, throttle and verify.
LEMMA AuthenticateShape ==
  ASSUME Shape, NEW w \in Workers, Authenticate(w) PROVE Shape'
<1> USE DEF Shape
<1>1. req[w] \in Request /\ req[w].form.op \in Ops /\ req[w].token \in Tokens \cup {None}
      /\ req[w].form.name \in Names \cup {None}
  BY DEF AuthTypeOK, Request, Form
<1>2. Ops \subseteq Steps /\ {"allowed", "find", "compare", "create"} \subseteq Steps
      /\ Ops \cap {"middleware", "allowed", "find", "compare", "destroyUser", "saveUser"} = {}
  BY DEF Steps, Ops
<1>3. CASE Middleware(w)
  <2>1. Lookup(req[w].token) \in [Tokens -> Session] /\ UNCHANGED <<table, throttle, restarts, opened>>
        /\ sessions' = Lookup(req[w].token)
    BY <1>1, <1>3, SessionTypes DEF Middleware, AuthTypeOK
  <2>2. req[w].form.source \in Sources
    BY <1>3 DEF Middleware, Keyed
  <2>3. CASE Done(w)
    BY <2>1, <2>3, EndShape DEF AuthTypeOK
  <2>4. CASE Goto(w, req[w].form.op) /\ UNCHANGED <<req, row>>
    BY <1>1, <1>2, <2>1, <2>4, OnwardShape DEF AuthTypeOK
  <2>5. CASE req[w].form.name # None /\ Goto(w, "allowed") /\ UNCHANGED <<req, row>>
    BY <1>1, <1>2, <2>1, <2>2, <2>5, OnwardShape DEF AuthTypeOK
  <2> QED BY <1>3, <2>3, <2>4, <2>5 DEF Middleware
<1>4. CASE CheckAllowed(w)
  <2>1. throttleKey(w) \in Keys /\ req[w].form.source \in Sources /\ req[w].form.name \in Names
    BY <1>4, KeyType DEF CheckAllowed, Keyed
  <2>2. throttle' \in [Keys -> Attempts] /\ UNCHANGED <<table, sessions, restarts, opened>>
    BY <1>4, <2>1, ThrottleTypes DEF CheckAllowed, AuthTypeOK
  <2>3. CASE Done(w)
    BY <2>2, <2>3, EndShape DEF AuthTypeOK
  <2>4. CASE Goto(w, "find") /\ UNCHANGED <<req, row>>
    BY <1>2, <2>1, <2>2, <2>4, OnwardShape DEF AuthTypeOK
  <2> QED BY <1>4, <2>3, <2>4 DEF CheckAllowed
<1>5. CASE FindUser(w)
  <2>1. row' \in [Workers -> User] /\ \A v \in Workers \ {w} : row'[v] = row[v]
    BY <1>5 DEF FindUser, ByName, AuthTypeOK
  <2>2. req[w].form.source \in Sources /\ req[w].form.name \in Names
    BY <1>5 DEF FindUser, Keyed
  <2> QED BY <1>2, <1>5, <2>1, <2>2, OnwardShape DEF FindUser, AuthTypeOK
<1>6. CASE Compare(w)
  <2>1. throttleKey(w) \in Keys
    BY <1>6, KeyType DEF Compare
  <2>2. throttle' \in [Keys -> Attempts] /\ UNCHANGED <<table, sessions, restarts, opened>>
    BY <1>6, <2>1, ThrottleTypes DEF Compare, AuthTypeOK
  <2>3. CASE Done(w)
    BY <2>2, <2>3, EndShape DEF AuthTypeOK
  <2>4. CASE /\ Goto(w, IF req[w].form.op = "Login" THEN "create" ELSE req[w].form.op)
             /\ UNCHANGED <<req, row>>
    BY <1>1, <1>2, <2>2, <2>4, OnwardShape DEF AuthTypeOK
  <2> QED BY <1>6, <2>3, <2>4 DEF Compare
<1> QED BY <1>3, <1>4, <1>5, <1>6 DEF Authenticate

\* Login's end, logout, and the handlers that only read.
LEMMA SessionShape ==
  ASSUME Shape, NEW w \in Workers, StartSession(w) \/ Logout(w) \/ Read(w) PROVE Shape'
<1> USE DEF Shape
<1>1. row[w] \in User /\ req[w].token \in Tokens \cup {None}
  BY DEF AuthTypeOK, Request
<1>2. row[w].name \in Names \cup {None}
      /\ [id |-> row[w].id, password |-> row[w].password] \in [id : Nat, password : Passwords \cup {None}]
  BY <1>1 DEF User
<1>3. sessions' \in [Tokens -> Session]
      /\ opened' \in [Tokens -> [id : Nat, password : Passwords \cup {None}]]
  <2>1. CASE StartSession(w)
    <3>1. \A t \in Tokens : Create(t, row[w].name) \in [Tokens -> Session]
      BY <1>2, SessionTypes DEF AuthTypeOK
    <3> QED BY <1>2, <2>1, <3>1 DEF StartSession, AuthTypeOK
  <2>2. CASE Logout(w)
    <3>1. Destroy(req[w].token) \in [Tokens -> Session]
      BY <1>1, SessionTypes DEF AuthTypeOK
    <3> QED BY <2>2, <3>1 DEF Logout, AuthTypeOK
  <2>3. CASE Read(w)
    BY <2>3 DEF Read, AuthTypeOK
  <2> QED BY <2>1, <2>2, <2>3
<1>4. Done(w) /\ UNCHANGED <<table, throttle, restarts>>
  BY DEF StartSession, Logout, Read
<1> QED BY <1>3, <1>4, EndShape DEF AuthTypeOK

\* An update's row: the id stays, and every column has its type.
LEMMA MergeTypes ==
  ASSUME NEW u \in User, NEW form \in Form
  PROVE  Merge(u, form) \in User /\ Merge(u, form).id = u.id
BY DEF Merge, Override, User, Form

\* Creating, updating and deleting accounts.
LEMMA AccountsShape ==
  ASSUME Shape, NEW w \in Workers, Accounts(w) PROVE Shape'
<1> USE DEF Shape
<1>1. /\ req[w] \in Request /\ req[w].form \in Form /\ row[w] \in User
      /\ req[w].form.newName \in Names \cup {None}
      /\ req[w].form.newPassword \in Passwords \cup {None}
      /\ users \subseteq User /\ nextUser \in Nat
  BY DEF AuthTypeOK, Request, Form
<1>2. {"destroyUser", "saveUser"} \subseteq Steps
  BY DEF Steps
<1>3. CASE CreateUser(w)
  <2> DEFINE new == [id |-> nextUser, name |-> req[w].form.newName,
                     password |-> req[w].form.newPassword, must |-> FALSE]
  <2>1. Done(w) /\ UNCHANGED <<sessions, throttle, restarts, opened>>
    BY <1>3 DEF CreateUser
  <2>2. CASE nextUser <= MaxUsers
    <3>1. users' = users \cup {new} /\ nextUser' = nextUser + 1
      BY <1>3, <2>2 DEF CreateUser
    <3>2. new \in User /\ new.id = nextUser
      BY <1>1 DEF User
    <3>3. nextUser' \in Nat /\ nextUser <= nextUser'
      BY <1>1, <3>1
    <3>4. \A u \in users : u.id \in Nat /\ u.id # nextUser
      BY <1>1 DEF AuthTypeOK, User
    <3> HIDE DEF new
    <3>5. \A u, v \in users' : u.id = v.id => u = v
      BY <3>1, <3>2, <3>4 DEF AuthTypeOK
    <3>6. nextUser # 0
      BY DEF AuthTypeOK
    <3>7. \A u \in users' : u.id \in 1..(nextUser' - 1)
      BY <1>1, <3>1, <3>2, <3>6 DEF AuthTypeOK
    <3>8. AuthTypeOK'
      BY <1>1, <2>1, <3>1, <3>2, <3>3, <3>5, <3>7, DoneTypes DEF AuthTypeOK
    <3> QED BY <2>1, <3>3, <3>8, DoneShape
  <2>3. CASE ~(nextUser <= MaxUsers)
    <3>1. UNCHANGED table
      BY <1>3, <2>3 DEF CreateUser
    <3> QED BY <2>1, <3>1, EndShape DEF AuthTypeOK
  <2> QED BY <2>2, <2>3
<1>4. CASE UpdateUser(w)
  <2>1. UNCHANGED <<table, sessions, throttle, restarts, opened>>
    BY <1>4 DEF UpdateUser
  <2>2. CASE Done(w)
    BY <2>1, <2>2, EndShape DEF AuthTypeOK
  <2>3. CASE \E u \in ByID(req[w].form.id) :
          /\ row' = [row EXCEPT ![w] = Merge(u, req[w].form)]
          /\ Goto(w, IF req[w].form.newPassword # None THEN "destroyUser" ELSE "saveUser")
          /\ UNCHANGED req
    <3>1. PICK u \in users :
            /\ row' = [row EXCEPT ![w] = Merge(u, req[w].form)]
            /\ Goto(w, IF req[w].form.newPassword # None THEN "destroyUser" ELSE "saveUser")
            /\ UNCHANGED req
      BY <2>3 DEF ByID
    <3>2. Merge(u, req[w].form) \in User /\ Merge(u, req[w].form).id \in 1..(nextUser - 1)
      BY <1>1, MergeTypes DEF AuthTypeOK
    <3>3. /\ row' \in [Workers -> User] /\ \A v \in Workers \ {w} : row'[v] = row[v]
          /\ row'[w].id \in 1..(nextUser - 1)
      BY <3>1, <3>2 DEF AuthTypeOK
    <3>4. PICK step \in {"destroyUser", "saveUser"} : Goto(w, step)
      BY <3>1
    <3>5. step \in Steps
      BY <1>2
    <3> QED BY <2>1, <3>1, <3>3, <3>4, <3>5, OnwardShape DEF AuthTypeOK
  <2> QED BY <1>4, <2>2, <2>3 DEF UpdateUser
<1>5. CASE DestroyUserSessions(w)
  <2>1. sessions' \in [Tokens -> Session]
    BY <1>5, SessionTypes DEF DestroyUserSessions, AuthTypeOK
  <2>2. row[w].id \in 1..(nextUser - 1)
    BY <1>5 DEF DestroyUserSessions, RowsOnceStored
  <2> QED BY <1>2, <1>5, <2>1, <2>2, OnwardShape DEF DestroyUserSessions, AuthTypeOK
<1>6. CASE SaveUser(w)
  <2>1. /\ Done(w) /\ UNCHANGED <<nextUser, sessions, throttle, restarts, opened>>
        /\ users' = {u \in users : u.id # row[w].id} \cup {row[w]}
    BY <1>6 DEF SaveUser
  <2>2. row[w].id \in 1..(nextUser - 1)
    BY <1>6 DEF SaveUser, RowsOnceStored
  <2>3. \A u, v \in users' : u.id = v.id => u = v
    BY <2>1 DEF AuthTypeOK
  <2>4. AuthTypeOK'
    BY <1>1, <2>1, <2>2, <2>3, DoneTypes DEF AuthTypeOK
  <2> QED BY <1>1, <2>1, <2>4, DoneShape
<1>7. CASE DeleteUser(w)
  <2>1. /\ Done(w) /\ UNCHANGED <<nextUser, sessions, throttle, restarts, opened>>
        /\ users' \subseteq users
    BY <1>7 DEF DeleteUser
  <2>2. AuthTypeOK'
    BY <2>1, DoneTypes DEF AuthTypeOK
  <2> QED BY <1>1, <2>1, <2>2, DoneShape
<1> QED BY <1>3, <1>4, <1>5, <1>6, <1>7 DEF Accounts

\* Time passes: ages stay within their saturation points.
LEMMA TickShape ==
  ASSUME Shape, Tick PROVE Shape'
<1> USE DEF Shape
<1>1. sessions' \in [Tokens -> Session]
  <2>1. \A s \in Session : [s EXCEPT !.idle = Older(@, TTL)] \in Session
    BY AuthConstants DEF Session, Older
  <2> QED BY <2>1 DEF Tick, AuthTypeOK
<1>2. throttle' \in [Keys -> Attempts]
  <2>1. \A a \in Attempts : [a EXCEPT !.age = Older(@, Window)] \in Attempts
    BY AuthConstants DEF Attempts, Older
  <2> QED BY <2>1 DEF Tick, AuthTypeOK
<1>3. AuthTypeOK'
  BY <1>1, <1>2 DEF AuthTypeOK, Tick, table
<1> QED BY <1>3 DEF Tick, Keyed, RowsOnceStored, table

\* The daemon restarts, and seeds the admin account if nobody has its name.
LEMMA RestartShape ==
  ASSUME Shape, Restart PROVE Shape'
<1> USE DEF Shape
<1>1. /\ sessions' \in [Tokens -> Session] /\ throttle' \in [Keys -> Attempts]
      /\ pc' \in [Workers -> Steps] /\ req' \in [Workers -> Request]
      /\ row' \in [Workers -> User] /\ restarts' \in Nat /\ UNCHANGED opened
  BY AuthZeroTypes DEF Restart, AuthTypeOK, Steps
<1>2. nextUser \in Nat \ {0} /\ users \subseteq User /\ \A u \in users : u.id \in 1..(nextUser - 1)
  BY DEF AuthTypeOK
<1>3. Seed(nextUser) \in User /\ Seed(nextUser).id = nextUser
  BY <1>2, AuthConstants DEF Seed, User
<1>4. CASE NeedsSeed
  <2>1. users' = users \cup {Seed(nextUser)} /\ nextUser' = nextUser + 1
    BY <1>4 DEF Restart
  <2>2. \A u \in users : u.id # nextUser
    BY <1>2
  <2>3. \A u, v \in users' : u.id = v.id => u = v
    BY <1>3, <2>1, <2>2 DEF AuthTypeOK
  <2>4. \A u \in users' : u.id \in 1..(nextUser' - 1)
    BY <1>2, <1>3, <2>1 DEF AuthTypeOK
  <2> QED BY <1>1, <1>2, <1>3, <2>1, <2>3, <2>4 DEF AuthTypeOK, Restart, Keyed, RowsOnceStored
<1>5. CASE ~NeedsSeed
  <2>1. UNCHANGED <<users, nextUser>>
    BY <1>5 DEF Restart
  <2> QED BY <1>1, <2>1 DEF AuthTypeOK, Restart, Keyed, RowsOnceStored
<1> QED BY <1>4, <1>5

\* A first start has these types.
LEMMA InitShape ==
  ASSUME Init PROVE Shape
<1>1. Seed(1) \in User /\ Seed(1).id = 1
  BY AuthConstants DEF Seed, User
<1>2. [id |-> 0, password |-> None] \in [id : Nat, password : Passwords \cup {None}]
  OBVIOUS
<1>3. AuthTypeOK
  BY <1>1, <1>2, AuthZeroTypes DEF Init, AuthTypeOK, Steps
<1> QED BY <1>3 DEF Init, Shape, Keyed, RowsOnceStored

\* Every step keeps them.
LEMMA StepShape ==
  ASSUME Shape, [Next]_vars PROVE Shape'
<1>1. ASSUME NEW w \in Workers, Receive(w) \/ Handle(w) PROVE Shape'
  BY <1>1, ReceiveShape, AuthenticateShape, SessionShape, AccountsShape DEF Handle
<1>2. CASE UNCHANGED vars
  BY <1>2 DEF vars, table, Shape, AuthTypeOK, Keyed, RowsOnceStored
<1> QED BY <1>1, <1>2, TickShape, RestartShape DEF Next

\* Accounts, sessions, throttle records and handlers keep their types, and the users table
\* its key, whatever clients send and however often the daemon restarts: SaveUser may
\* bring back a deleted row (gorm's Save), but never under an id somebody else has.
THEOREM AuthTypeCorrect == Spec => []AuthTypeOK
<1>1. Init => Shape
  BY InitShape
<1>2. Shape /\ [Next]_vars => Shape'
  BY StepShape
<1>3. Shape => AuthTypeOK
  BY DEF Shape
<1> QED BY <1>1, <1>2, <1>3, PTL DEF Spec

-----------------------------------------------------------------------------
(* The bound on guesses                                                    *)

\* The quantities of the bound are numbers.
LEMMA Numbers ==
  ASSUME AuthTypeOK, NEW k \in Keys
  PROVE  /\ throttle[k].count \in Nat /\ IsFiniteSet(Admitted(k))
         /\ Cardinality(Admitted(k)) \in Nat /\ Cardinality(Workers) \in Nat
         /\ Cardinality(Admitted(k)) <= Cardinality(Workers)
<1>1. throttle[k].count \in Nat
  BY DEF AuthTypeOK, Attempts
<1>2. Admitted(k) \subseteq Workers
  BY DEF Admitted
<1> QED BY <1>1, <1>2, AuthConstants, FS_Subset, FS_CardinalityType

\* For one key: a step that adds no failure and admits nobody keeps its bound.
LEMMA KeptBound ==
  ASSUME AuthTypeOK, AuthTypeOK', NEW k \in Keys,
         throttle[k].count + Cardinality(Admitted(k)) <= MaxFailures - 1 + Cardinality(Workers),
         Admitted(k)' \subseteq Admitted(k), throttle'[k].count <= throttle[k].count
  PROVE  throttle'[k].count + Cardinality(Admitted(k)')
             <= MaxFailures - 1 + Cardinality(Workers)
<1>1. IsFiniteSet(Admitted(k)) /\ throttle[k].count \in Nat /\ Cardinality(Admitted(k)) \in Nat
      /\ Cardinality(Workers) \in Nat
  BY Numbers
<1>2. Cardinality(Admitted(k)') \in Nat /\ Cardinality(Admitted(k)') <= Cardinality(Admitted(k))
  BY <1>1, FS_Subset, FS_CardinalityType
<1>3. throttle'[k].count \in Nat
  BY DEF AuthTypeOK, Attempts
<1> QED BY <1>1, <1>2, <1>3, AuthConstants

\* Every step of a worker leaves the other workers alone.
LEMMA OthersKept ==
  ASSUME AuthTypeOK, NEW w \in Workers, Receive(w) \/ Handle(w)
  PROVE  \A v \in Workers \ {w} : pc'[v] = pc[v] /\ req'[v] = req[v]
BY DEF AuthTypeOK, Receive, Handle, Authenticate, Middleware, CheckAllowed, FindUser, Compare,
   StartSession, Logout, Read, Accounts, CreateUser, UpdateUser, DestroyUserSessions, SaveUser,
   DeleteUser, Done, Goto

\* A worker that is not between Allowed and its outcome afterwards, or was there before
\* with the same request, is not newly admitted for any key.
LEMMA NotAdmitted ==
  ASSUME NEW w \in Workers,
         \A v \in Workers \ {w} : pc'[v] = pc[v] /\ req'[v] = req[v],
         \/ pc'[w] \notin {"find", "compare"}
         \/ pc[w] \in {"find", "compare"} /\ req'[w] = req[w]
  PROVE  \A k \in Keys : Admitted(k)' \subseteq Admitted(k)
BY DEF Admitted, throttleKey

\* Every step that neither admits a guess nor records an outcome.
LEMMA QuietBound ==
  ASSUME AuthTypeOK, AuthTypeOK', GuessesBounded, throttle' = throttle,
         \A k \in Keys : Admitted(k)' \subseteq Admitted(k)
  PROVE  GuessesBounded'
<1> SUFFICES ASSUME NEW k \in Keys
             PROVE  throttle'[k].count + Cardinality(Admitted(k)')
                       <= MaxFailures - 1 + Cardinality(Workers)
  BY DEF GuessesBounded
<1>1. throttle'[k].count <= throttle[k].count
  BY Numbers
<1> QED BY <1>1, KeptBound DEF GuessesBounded

\* Throttle.Allowed: whoever it lets through finds fewer than MaxFailures on record, a
\* longer record having been forgotten with the end of its block.
LEMMA AllowedBound ==
  ASSUME Shape, AuthTypeOK', GuessesBounded, NEW w \in Workers, CheckAllowed(w)
  PROVE  GuessesBounded'
<1> USE DEF Shape
<1> DEFINE key == throttleKey(w)
<1>1. key \in Keys
  BY KeyType DEF CheckAllowed
<1>2. \A v \in Workers \ {w} : pc'[v] = pc[v] /\ req'[v] = req[v]
  BY OthersKept DEF Handle, Authenticate
<1>3. CASE Allowed(key) /\ throttle' = Forget(key) /\ Goto(w, "find") /\ UNCHANGED <<req, row>>
  <2> SUFFICES ASSUME NEW k \in Keys
               PROVE  throttle'[k].count + Cardinality(Admitted(k)')
                         <= MaxFailures - 1 + Cardinality(Workers)
    BY DEF GuessesBounded
  <2>1. CASE k # key
    <3>1. Admitted(k)' \subseteq Admitted(k)
      BY <1>2, <1>3, <2>1 DEF Admitted, throttleKey
    <3>2. throttle'[k] = throttle[k]
      BY <1>3, <2>1 DEF Forget, AuthTypeOK
    <3> QED BY <3>1, <3>2, KeptBound, Numbers DEF GuessesBounded
  <2>2. CASE k = key
    <3>1. throttle[k] \in Attempts
      BY DEF AuthTypeOK
    <3>2. throttle'[k].count \in Nat /\ throttle'[k].count <= MaxFailures - 1
      BY <1>3, <2>2, <3>1, AuthConstants
         DEF Allowed, Blocked, Forget, Forgotten, Attempts, NoAttempts, AuthTypeOK
    <3>3. Admitted(k)' \subseteq Workers
      BY DEF Admitted
    <3>4. Cardinality(Admitted(k)') \in Nat /\ Cardinality(Workers) \in Nat
          /\ Cardinality(Admitted(k)') <= Cardinality(Workers)
      BY <3>3, AuthConstants, FS_Subset, FS_CardinalityType
    <3> QED BY <3>2, <3>4, AuthConstants
  <2> QED BY <2>1, <2>2
<1>4. CASE throttle' = Refuse(key) /\ Done(w)
  <2>1. pc'[w] = "idle"
    BY <1>4, DoneTypes
  <2> QED BY <1>2, <1>4, <2>1, NotAdmitted, QuietBound DEF Refuse
<1> QED BY <1>3, <1>4 DEF CheckAllowed

\* verify's outcome: the failure it records is the one its worker was admitted for.
LEMMA CompareBound ==
  ASSUME Shape, AuthTypeOK', GuessesBounded, NEW w \in Workers, Compare(w)
  PROVE  GuessesBounded'
<1> USE DEF Shape
<1> DEFINE key == throttleKey(w)
<1>1. key \in Keys /\ pc[w] = "compare"
  BY KeyType DEF Compare
<1>2. \A v \in Workers \ {w} : pc'[v] = pc[v] /\ req'[v] = req[v]
  BY OthersKept DEF Handle, Authenticate
<1>3. pc'[w] \notin {"find", "compare"}
  <2>1. req[w].form.op \in Ops /\ pc[w] \in Steps
    BY DEF AuthTypeOK, Request, Form
  <2> QED BY <2>1 DEF Compare, Goto, Done, Ops, AuthTypeOK
<1>4. \A k \in Keys : Admitted(k)' \subseteq Admitted(k)
  BY <1>2, <1>3, NotAdmitted
<1>5. w \in Admitted(key)
  BY <1>1 DEF Admitted
<1> SUFFICES ASSUME NEW k \in Keys
             PROVE  throttle'[k].count + Cardinality(Admitted(k)')
                       <= MaxFailures - 1 + Cardinality(Workers)
  BY DEF GuessesBounded
<1>6. throttle[k] \in Attempts /\ throttle[k].count \in Nat
  BY DEF AuthTypeOK, Attempts
<1>7. CASE k # key
  <2>1. throttle'[k] = throttle[k]
    BY <1>7 DEF Compare, Fail, Succeed, AuthTypeOK
  <2> QED BY <1>4, <1>6, <2>1, KeptBound DEF GuessesBounded
<1>8. CASE k = key /\ throttle' = Succeed(key)
  <2>1. throttle'[k].count = 0
    BY <1>8 DEF Succeed, NoAttempts, AuthTypeOK
  <2> QED BY <1>4, <1>6, <2>1, KeptBound DEF GuessesBounded
<1>9. CASE k = key /\ throttle' = Fail(key)
  <2>1. throttle'[k].count \in Nat /\ throttle'[k].count <= throttle[k].count + 1
    BY <1>6, <1>9 DEF Fail, AuthTypeOK
  <2>2. Admitted(k)' \subseteq Admitted(k) \ {w}
    <3>1. Admitted(k)' \subseteq Admitted(k)
      BY <1>4
    <3>2. w \notin Admitted(k)'
      BY <1>3 DEF Admitted
    <3> QED BY <3>1, <3>2
  <2>3. /\ IsFiniteSet(Admitted(k)) /\ Cardinality(Admitted(k)) \in Nat
        /\ Cardinality(Workers) \in Nat
    BY Numbers
  <2>4. /\ IsFiniteSet(Admitted(k) \ {w})
        /\ Cardinality(Admitted(k) \ {w}) = Cardinality(Admitted(k)) - 1
    BY <1>5, <1>9, <2>3, FS_RemoveElement
  <2>5. /\ Cardinality(Admitted(k)') \in Nat
        /\ Cardinality(Admitted(k)') <= Cardinality(Admitted(k)) - 1
    BY <2>2, <2>4, FS_Subset, FS_CardinalityType
  <2>6. throttle[k].count + Cardinality(Admitted(k)) <= MaxFailures - 1 + Cardinality(Workers)
    BY DEF GuessesBounded
  <2> QED BY <1>6, <2>1, <2>3, <2>5, <2>6, AuthConstants
<1> QED BY <1>7, <1>8, <1>9 DEF Compare

\* The steps of a worker that the throttle takes no part in.
LEMMA RestBound ==
  ASSUME Shape, AuthTypeOK', GuessesBounded, NEW w \in Workers,
         Receive(w) \/ Middleware(w) \/ FindUser(w) \/ StartSession(w) \/ Logout(w) \/ Read(w)
         \/ Accounts(w)
  PROVE  GuessesBounded'
<1> USE DEF Shape
<1>1. \A v \in Workers \ {w} : pc'[v] = pc[v] /\ req'[v] = req[v]
  BY OthersKept DEF Handle, Authenticate
<1>2. throttle' = throttle
  BY DEF Receive, Middleware, FindUser, StartSession, Logout, Read, Accounts, CreateUser,
     UpdateUser, DestroyUserSessions, SaveUser, DeleteUser
<1>3. req[w].form.op \in Ops
  BY DEF AuthTypeOK, Request, Form
<1>4. \/ pc'[w] \notin {"find", "compare"}
      \/ pc[w] \in {"find", "compare"} /\ req'[w] = req[w]
  BY <1>3 DEF Receive, Middleware, FindUser, StartSession, Logout, Read, Accounts, CreateUser,
     UpdateUser, DestroyUserSessions, SaveUser, DeleteUser, Goto, Done, Ops, AuthTypeOK
<1> QED BY <1>1, <1>2, <1>4, NotAdmitted, QuietBound

\* Every step keeps the bound.
LEMMA StepBound ==
  ASSUME Shape, GuessesBounded, [Next]_vars PROVE GuessesBounded'
<1> USE DEF Shape
<1>1. AuthTypeOK'
  BY StepShape
<1>2. ASSUME NEW w \in Workers, Receive(w) \/ Handle(w) PROVE GuessesBounded'
  BY <1>1, <1>2, AllowedBound, CompareBound, RestBound DEF Handle, Authenticate
<1>3. CASE Tick
  <2> SUFFICES ASSUME NEW k \in Keys
               PROVE  throttle'[k].count + Cardinality(Admitted(k)')
                         <= MaxFailures - 1 + Cardinality(Workers)
    BY DEF GuessesBounded
  <2>1. throttle[k] \in Attempts
    BY DEF AuthTypeOK
  <2>2. throttle'[k].count = throttle[k].count /\ throttle[k].count \in Nat
    BY <1>3, <2>1 DEF Tick, Attempts
  <2>3. Admitted(k)' = Admitted(k)
    BY <1>3 DEF Tick, Admitted, throttleKey
  <2> QED BY <1>1, <2>2, <2>3, KeptBound DEF GuessesBounded
<1>4. CASE Restart
  <2> SUFFICES ASSUME NEW k \in Keys
               PROVE  throttle'[k].count + Cardinality(Admitted(k)')
                         <= MaxFailures - 1 + Cardinality(Workers)
    BY DEF GuessesBounded
  <2>1. throttle'[k].count = 0
    BY <1>4 DEF Restart, NoAttempts
  <2>2. Admitted(k)' = {}
    BY <1>4 DEF Restart, Admitted
  <2>3. Cardinality(Admitted(k)') = 0
    BY <2>2, FS_EmptySet
  <2>4. Cardinality(Workers) \in Nat
    BY Numbers
  <2> QED BY <2>1, <2>3, <2>4, AuthConstants
<1>5. CASE UNCHANGED vars
  <2>1. throttle' = throttle /\ \A k \in Keys : Admitted(k)' \subseteq Admitted(k)
    BY <1>5 DEF vars, Admitted, throttleKey
  <2> QED BY <1>1, <2>1, QuietBound
<1> QED BY <1>2, <1>3, <1>4, <1>5 DEF Next

\* Nothing has failed yet.
LEMMA InitBound ==
  ASSUME Init PROVE GuessesBounded
<1> SUFFICES ASSUME NEW k \in Keys
             PROVE  throttle[k].count + Cardinality(Admitted(k))
                       <= MaxFailures - 1 + Cardinality(Workers)
  BY DEF GuessesBounded
<1>1. throttle[k].count = 0
  BY DEF Init, NoAttempts
<1>2. Cardinality(Admitted(k)) = 0
  BY FS_EmptySet DEF Init, Admitted
<1>3. Cardinality(Workers) \in Nat
  BY AuthConstants, FS_CardinalityType
<1> QED BY <1>1, <1>2, <1>3, AuthConstants

\* Throttle.Allowed and Throttle.Fail are separate critical sections, with a database
\* read and a bcrypt comparison in between; however many requests run side by side, the
\* failures on record and the guesses under way never add up to more than MaxFailures - 1
\* and one per goroutine.
THEOREM GuessesStayBounded == Spec => []GuessesBounded
<1>1. Init => Shape /\ GuessesBounded
  BY InitShape, InitBound
<1>2. Shape /\ GuessesBounded /\ [Next]_vars => (Shape /\ GuessesBounded)'
  BY StepShape, StepBound
<1> QED BY <1>1, <1>2, PTL DEF Spec

-----------------------------------------------------------------------------
(* Sessions                                                                *)

\* A session after a step is the one that was there, or none, or a new one that a login
\* opened under a token nobody has seen: Lookup's write, which extends a session, writes
\* only one it found.
LEMMA SessionsFrom ==
  ASSUME Shape, [Next]_vars, NEW t \in Tokens
  PROVE  \/ opened'[t] = opened[t] /\ sessions'[t].user \in {sessions[t].user, None}
         \/ \E w \in Workers :
              /\ StartSession(w) /\ opened[t].id = 0 /\ sessions'[t].user \in {row[w].name, None}
              /\ opened'[t] = [id |-> row[w].id, password |-> row[w].password]
<1> DEFINE Same == opened'[t] = opened[t] /\ sessions'[t].user \in {sessions[t].user, None}
<1> USE DEF Shape, AuthTypeOK
<1>1. NoSession.user = None
  BY DEF NoSession
<1>2. CASE sessions' = sessions /\ opened' = opened
  BY <1>2
<1>3. ASSUME NEW w \in Workers, Middleware(w) PROVE Same
  <2>1. \A s \in Session : [s EXCEPT !.idle = 0].user = s.user
    BY DEF Session
  <2> QED BY <1>1, <1>3, <2>1 DEF Middleware, Lookup
<1>4. ASSUME NEW w \in Workers, Logout(w) PROVE Same
  BY <1>1, <1>4 DEF Logout, Destroy
<1>5. ASSUME NEW w \in Workers, DestroyUserSessions(w) PROVE Same
  BY <1>1, <1>5 DEF DestroyUserSessions, DestroyUser
<1>6. ASSUME NEW w \in Workers, StartSession(w), ~Same
      PROVE  /\ opened[t].id = 0 /\ sessions'[t].user \in {row[w].name, None}
             /\ opened'[t] = [id |-> row[w].id, password |-> row[w].password]
  <2>1. PICK x \in Tokens :
          /\ opened[x].id = 0 /\ sessions' = Create(x, row[w].name)
          /\ opened' = [opened EXCEPT ![x] = [id |-> row[w].id, password |-> row[w].password]]
    BY <1>6 DEF StartSession
  <2>2. x # t => Same
    BY <1>1, <2>1 DEF Create, sweepLocked
  <2>3. x = t => sessions'[t].user \in {row[w].name, None}
    BY <1>1, <2>1 DEF Create, sweepLocked
  <2> QED BY <1>6, <2>1, <2>2, <2>3
<1>7. CASE Tick
  <2>1. \A s \in Session : [s EXCEPT !.idle = Older(@, TTL)].user = s.user
    BY DEF Session
  <2> QED BY <1>7, <2>1 DEF Tick
<1>8. CASE Restart
  BY <1>1, <1>8 DEF Restart
<1>9. ASSUME NEW w \in Workers,
             Receive(w) \/ CheckAllowed(w) \/ FindUser(w) \/ Compare(w) \/ Read(w) \/ CreateUser(w)
             \/ UpdateUser(w) \/ SaveUser(w) \/ DeleteUser(w)
      PROVE  sessions' = sessions /\ opened' = opened
  BY <1>9 DEF Receive, CheckAllowed, FindUser, Compare, Read, CreateUser, UpdateUser, SaveUser,
     DeleteUser
<1> QED BY <1>2, <1>3, <1>4, <1>5, <1>6, <1>7, <1>8, <1>9
        DEF Next, Handle, Authenticate, Accounts, vars

\* Sessions.Lookup writes the session it found back under its token, and Create sweeps the
\* others: neither brings back a token that logout, expiry, a changed password or a restart
\* has ended, however the handlers interleave.
THEOREM EndedForGood == Spec => EndedStaysEnded
<1>1. Shape /\ [Next]_vars
        => [\A t \in Tokens : opened[t].id # 0 /\ ~Live(t) => ~Live(t)']_vars
  BY SessionsFrom DEF Live
<1>2. Init => Shape
  BY InitShape
<1>3. Shape /\ [Next]_vars => Shape'
  BY StepShape
<1> QED BY <1>1, <1>2, <1>3, PTL DEF Spec, EndedStaysEnded

-----------------------------------------------------------------------------
(* Accounts                                                                *)

\* The handlers of the other workers keep the rows they loaded.
LEMMA OtherRowsKept ==
  ASSUME AuthTypeOK, NEW w \in Workers, Receive(w) \/ Handle(w)
  PROVE  \A v \in Workers \ {w} : row'[v] = row[v]
BY DEF AuthTypeOK, Receive, Handle, Authenticate, Middleware, CheckAllowed, FindUser, Compare,
   StartSession, Logout, Read, Accounts, CreateUser, UpdateUser, DestroyUserSessions, SaveUser,
   DeleteUser, Done

\* A row of the table after a step was there, or was created, saved or seeded by it.
LEMMA UsersFrom ==
  ASSUME AuthTypeOK, [Next]_vars, NEW u \in users'
  PROVE  \/ u \in users
         \/ \E w \in Workers : /\ CreateUser(w) /\ u.id = nextUser
                               /\ u.password = req[w].form.newPassword
         \/ \E w \in Workers : SaveUser(w) /\ u = row[w]
         \/ Restart /\ u = Seed(nextUser)
<1>1. ASSUME NEW w \in Workers,
             Receive(w) \/ Authenticate(w) \/ StartSession(w) \/ Logout(w) \/ Read(w) \/ UpdateUser(w)
             \/ DestroyUserSessions(w) \/ DeleteUser(w)
      PROVE  u \in users
  BY <1>1 DEF Receive, Authenticate, Middleware, CheckAllowed, FindUser, Compare, StartSession,
     Logout, Read, UpdateUser, DestroyUserSessions, DeleteUser, table
<1>2. ASSUME NEW w \in Workers, CreateUser(w), u \notin users
      PROVE  u.id = nextUser /\ u.password = req[w].form.newPassword
  BY <1>2 DEF CreateUser, table
<1>3. ASSUME NEW w \in Workers, SaveUser(w), u \notin users PROVE u = row[w]
  BY <1>3 DEF SaveUser
<1>4. ASSUME Restart, u \notin users PROVE u = Seed(nextUser)
  BY <1>4 DEF Restart
<1>5. CASE Tick \/ UNCHANGED vars
  BY <1>5 DEF Tick, vars, table
<1> QED BY <1>1, <1>2, <1>3, <1>4, <1>5 DEF Next, Handle, Accounts

\* The row an update is about to save is the merge of one that was stored.
LEMMA UpdatesFrom ==
  ASSUME Shape, [Next]_vars, NEW w \in Workers, pc'[w] \in {"destroyUser", "saveUser"}
  PROVE  \/ /\ row'[w] = row[w] /\ pc[w] \in {"destroyUser", "saveUser"}
            /\ pc'[w] = pc[w] \/ DestroyUserSessions(w)
         \/ /\ UpdateUser(w)
            /\ \E u \in ByID(req[w].form.id) :
                 /\ row'[w] = Merge(u, req[w].form)
                 /\ pc'[w] = IF req[w].form.newPassword # None THEN "destroyUser" ELSE "saveUser"
<1> USE DEF Shape
<1>1. ASSUME NEW v \in Workers, Receive(v) \/ Handle(v), v # w
      PROVE  row'[w] = row[w] /\ pc'[w] = pc[w]
  BY <1>1, OthersKept, OtherRowsKept
<1>2. ASSUME Receive(w) PROVE FALSE
  BY <1>2 DEF Receive, Goto, AuthTypeOK
<1>3. req[w].form.op \in Ops
  BY DEF AuthTypeOK, Request, Form
<1>4. ASSUME Authenticate(w) PROVE FALSE
  BY <1>3, <1>4 DEF Authenticate, Middleware, CheckAllowed, FindUser, Compare, Goto, Done, Ops,
     AuthTypeOK
<1>5. ASSUME StartSession(w) \/ Logout(w) \/ Read(w) \/ CreateUser(w) \/ SaveUser(w) \/ DeleteUser(w)
      PROVE  FALSE
  BY <1>5 DEF StartSession, Logout, Read, CreateUser, SaveUser, DeleteUser, Goto, Done, AuthTypeOK
<1>6. ASSUME UpdateUser(w)
      PROVE  \E u \in ByID(req[w].form.id) :
                 /\ row'[w] = Merge(u, req[w].form)
                 /\ pc'[w] = IF req[w].form.newPassword # None THEN "destroyUser" ELSE "saveUser"
  BY <1>6 DEF UpdateUser, Goto, Done, AuthTypeOK
<1>7. ASSUME DestroyUserSessions(w)
      PROVE  row'[w] = row[w] /\ pc[w] \in {"destroyUser", "saveUser"}
  BY <1>7 DEF DestroyUserSessions
<1>8. ASSUME Restart PROVE FALSE
  BY <1>8 DEF Restart
<1>9. CASE Tick \/ UNCHANGED vars
  BY <1>9 DEF Tick, vars
<1> QED BY <1>1, <1>2, <1>4, <1>5, <1>6, <1>7, <1>8, <1>9 DEF Next, Handle, Accounts

\* Requests are those the clients send.
RequestsSent == \A w \in Workers : pc[w] # "idle" => req[w].form \in Requests

LEMMA RequestsSentStep ==
  ASSUME AuthTypeOK, RequestsSent, [Next]_vars PROVE RequestsSent'
<1>1. ASSUME NEW w \in Workers, Receive(w) \/ Handle(w) PROVE RequestsSent'
  <2>1. \A v \in Workers \ {w} : pc'[v] = pc[v] /\ req'[v] = req[v]
    BY <1>1, OthersKept
  <2>2. CASE Receive(w)
    BY <2>1, <2>2 DEF Receive, RequestsSent, AuthTypeOK
  <2>3. CASE Handle(w)
    <3>1. pc[w] # "idle"
      <4>1. pc[w] = "idle" => FALSE
        BY <2>3 DEF Handle, Authenticate, Middleware, CheckAllowed, FindUser, Compare, StartSession,
           Logout, Read, Accounts, CreateUser, UpdateUser, DestroyUserSessions, SaveUser, DeleteUser
      <4> QED BY <4>1
    <3>2. req'[w] = req[w] \/ pc'[w] = "idle"
      BY <2>3 DEF Handle, Authenticate, Middleware, CheckAllowed, FindUser, Compare, StartSession,
         Logout, Read, Accounts, CreateUser, UpdateUser, DestroyUserSessions, SaveUser, DeleteUser,
         Done, Goto, AuthTypeOK
    <3> QED BY <2>1, <3>1, <3>2 DEF RequestsSent
  <2> QED BY <1>1, <2>2, <2>3
<1>2. CASE Tick \/ UNCHANGED vars
  BY <1>2 DEF Tick, vars, RequestsSent
<1>3. CASE Restart
  BY <1>3 DEF Restart, RequestsSent
<1> QED BY <1>1, <1>2, <1>3 DEF Next

\* No request chooses the documented password: an operator who sets it again is not told
\* apart from one who never changed it.
NotRechosen == \A r \in Requests : r.newPassword # Default

\* A row on its way to the table keeps the mark with the password.
SnapshotsFlagged ==
    \A w \in Workers : pc[w] \in {"destroyUser", "saveUser"} =>
        (row[w].password = Default => row[w].must)

FlagInv == Shape /\ RequestsSent /\ SnapshotsFlagged /\ DefaultIsFlagged

LEMMA FlagStep ==
  ASSUME NotRechosen, FlagInv, [Next]_vars PROVE FlagInv'
<1> USE DEF FlagInv, Shape
<1>1. Shape' /\ RequestsSent'
  BY StepShape, RequestsSentStep
<1>2. SnapshotsFlagged'
  <2> SUFFICES ASSUME NEW w \in Workers, pc'[w] \in {"destroyUser", "saveUser"},
                      row'[w].password = Default
               PROVE  row'[w].must
    BY DEF SnapshotsFlagged
  <2>1. CASE row'[w] = row[w] /\ pc[w] \in {"destroyUser", "saveUser"}
    BY <2>1 DEF SnapshotsFlagged
  <2>2. ASSUME UpdateUser(w), NEW u \in users, row'[w] = Merge(u, req[w].form) PROVE row'[w].must
    <3>1. req[w].form.newPassword # Default
      BY <2>2 DEF UpdateUser, RequestsSent, NotRechosen
    <3>2. req[w].form.newPassword = None /\ u.password = Default
      BY <2>2, <3>1 DEF Merge, Override
    <3>3. Merge(u, req[w].form).must = u.must
      BY <3>2 DEF Merge, AuthTypeOK, User
    <3> QED BY <2>2, <3>2, <3>3 DEF DefaultIsFlagged
  <2> QED BY <2>1, <2>2, UpdatesFrom DEF ByID
<1>3. DefaultIsFlagged'
  <2> SUFFICES ASSUME NEW u \in users', u.password = Default PROVE u.must
    BY DEF DefaultIsFlagged
  <2>1. CASE u \in users
    BY <2>1 DEF DefaultIsFlagged
  <2>2. ASSUME NEW w \in Workers, CreateUser(w), u.password = req[w].form.newPassword PROVE FALSE
    BY <2>2 DEF CreateUser, RequestsSent, NotRechosen
  <2>3. ASSUME NEW w \in Workers, SaveUser(w), u = row[w] PROVE u.must
    BY <2>3 DEF SaveUser, SnapshotsFlagged
  <2>4. CASE u = Seed(nextUser)
    BY <2>4 DEF Seed
  <2> QED BY <2>1, <2>2, <2>3, <2>4, UsersFrom
<1> QED BY <1>1, <1>2, <1>3

\* UpdateUser saves a snapshot over whatever the row has become, DeleteUser takes it away
\* in between and the next start seeds the account anew: as long as nobody chooses it
\* again, the documented password is never in use without MustChangePassword.
THEOREM DefaultStaysFlagged == NotRechosen /\ Spec => []DefaultIsFlagged
<1>1. NotRechosen /\ Init => NotRechosen /\ FlagInv
  BY InitShape DEF Init, FlagInv, RequestsSent, SnapshotsFlagged, DefaultIsFlagged, Seed
<1>2. NotRechosen /\ FlagInv /\ [Next]_vars => (NotRechosen /\ FlagInv)'
  BY FlagStep DEF NotRechosen
<1>3. FlagInv => DefaultIsFlagged
  BY DEF FlagInv
<1> QED BY <1>1, <1>2, <1>3, PTL DEF Spec

-----------------------------------------------------------------------------
(* Sessions and passwords                                                  *)

\* One request at a time, and accounts that keep their names: an update that renames, and
\* one that a login overtakes, do leave a session behind (run rename).
Sequential ==
    /\ \A v, w \in Workers : v = w
    /\ \A r \in Requests : r.op = "UpdateUser" => r.newName = None

\* A handler runs what its request asked for.
AsRequested == \A w \in Workers : pc[w] \in Ops => req[w].form.op = pc[w]

\* The row a login has read is still what the table holds.
LoginsCurrent ==
    \A w \in Workers :
        /\ pc[w] \in {"idle", "middleware", "allowed", "find"} => row[w].id = 0
        /\ pc[w] \in {"compare", "create"} /\ row[w].id # 0 => row[w] \in users

\* The row an update is about to save is there under the same name; and once the sessions
\* are destroyed, none is left that was opened with another password.
UpdatesCurrent ==
    \A w \in Workers :
        /\ pc[w] \in {"destroyUser", "saveUser"} =>
             \E u \in users : u.id = row[w].id /\ u.name = row[w].name
        /\ pc[w] = "saveUser" =>
             \A t \in Tokens : Live(t) /\ opened[t].id = row[w].id
                                 => opened[t].password = row[w].password

\* A session names the account it was opened for, which no later account can be taken for.
SessionsNamed ==
    \A t \in Tokens :
        /\ opened[t].id < nextUser
        /\ \A u \in users : Live(t) /\ opened[t].id = u.id => sessions[t].user = u.name

StaleInv == Shape /\ RequestsSent /\ AsRequested /\ LoginsCurrent /\ UpdatesCurrent
            /\ SessionsNamed /\ NoStaleSession

LEMMA AsRequestedStep ==
  ASSUME AuthTypeOK, AsRequested, [Next]_vars PROVE AsRequested'
<1>1. ASSUME NEW w \in Workers, Receive(w) \/ Handle(w) PROVE AsRequested'
  <2>1. \A v \in Workers \ {w} : pc'[v] = pc[v] /\ req'[v] = req[v]
    BY <1>1, OthersKept
  <2>2. pc'[w] \in Ops => pc'[w] = req'[w].form.op
    BY <1>1 DEF AuthTypeOK, Receive, Handle, Authenticate, Middleware, CheckAllowed, FindUser,
       Compare, StartSession, Logout, Read, Accounts, CreateUser, UpdateUser, DestroyUserSessions,
       SaveUser, DeleteUser, Done, Goto, Ops
  <2> QED BY <2>1, <2>2 DEF AsRequested
<1>2. CASE Tick \/ UNCHANGED vars
  BY <1>2 DEF Tick, vars, AsRequested
<1>3. CASE Restart
  BY <1>3 DEF Restart, AsRequested, Ops
<1> QED BY <1>1, <1>2, <1>3 DEF Next

\* Whatever the step: a user that an old session can be taken for is the one it was opened
\* for, with the same password.
LEMMA SessionsStep ==
  ASSUME StaleInv, [Next]_vars PROVE SessionsNamed' /\ NoStaleSession'
<1> USE DEF StaleInv, Shape
<1>1. nextUser' \in Nat /\ nextUser \in Nat /\ nextUser <= nextUser'
      /\ \A t \in Tokens : opened[t].id \in Nat
  <2>1. AuthTypeOK'
    BY StepShape
  <2>2. nextUser' = nextUser \/ nextUser' = nextUser + 1
    BY DEF Next, Receive, Handle, Authenticate, Middleware, CheckAllowed, FindUser, Compare,
       StartSession, Logout, Read, Accounts, CreateUser, UpdateUser, DestroyUserSessions, SaveUser,
       DeleteUser, Tick, Restart, vars, table
  <2> QED BY <2>1, <2>2 DEF AuthTypeOK
<1>2. ASSUME NEW u \in users', u.id < nextUser, NEW t \in Tokens, Live(t), opened[t].id = u.id
      PROVE  sessions[t].user = u.name /\ opened[t].password = u.password
  <2>1. CASE u \in users
    BY <1>2, <2>1 DEF SessionsNamed, NoStaleSession
  <2>2. ASSUME NEW w \in Workers, SaveUser(w), u = row[w]
        PROVE  sessions[t].user = u.name /\ opened[t].password = u.password
    BY <1>2, <2>2 DEF SaveUser, UpdatesCurrent, SessionsNamed
  <2> QED BY <1>1, <1>2, <2>1, <2>2, UsersFrom DEF Seed
<1> SUFFICES ASSUME NEW t \in Tokens
             PROVE  /\ opened'[t].id < nextUser'
                    /\ \A u \in users' : Live(t)' /\ opened'[t].id = u.id =>
                         sessions'[t].user = u.name /\ opened'[t].password = u.password
  BY DEF SessionsNamed, NoStaleSession
<1>3. CASE opened'[t] = opened[t] /\ sessions'[t].user \in {sessions[t].user, None}
  BY <1>1, <1>2, <1>3 DEF SessionsNamed, Live
<1>4. ASSUME NEW w \in Workers, StartSession(w), sessions'[t].user \in {row[w].name, None},
             opened'[t] = [id |-> row[w].id, password |-> row[w].password]
      PROVE  /\ opened'[t].id < nextUser'
             /\ \A u \in users' : Live(t)' /\ opened'[t].id = u.id =>
                  sessions'[t].user = u.name /\ opened'[t].password = u.password
  <2>1. users' = users /\ nextUser' = nextUser
    BY <1>4 DEF StartSession, table
  <2>2. row[w].id # 0 => row[w] \in users
    BY <1>4 DEF StartSession, LoginsCurrent
  <2>3. \A u \in users : u.id # 0 /\ u.id < nextUser /\ (u.id = row[w].id => u = row[w])
    BY <1>1, <2>2 DEF AuthTypeOK
  <2>4. 0 < nextUser
    BY <1>1 DEF AuthTypeOK
  <2> QED BY <1>4, <2>1, <2>2, <2>3, <2>4 DEF Live
<1> QED BY <1>3, <1>4, SessionsFrom

\* The one handler at work: a login has read the row as it is.
LEMMA LoginsStep ==
  ASSUME Sequential, StaleInv, [Next]_vars PROVE LoginsCurrent'
<1> USE DEF StaleInv, Shape
<1>1. ZeroUser.id = 0
  BY DEF ZeroUser
<1>2. ASSUME NEW w \in Workers, Receive(w) \/ Handle(w) PROVE LoginsCurrent'
  <2>1. \A v \in Workers : v = w
    BY DEF Sequential
  <2>2. row'[w].id = 0 \/ pc'[w] \notin {"idle", "middleware", "allowed", "find"}
    <3>1. CASE Authenticate(w)
      BY <1>1, <3>1 DEF AuthTypeOK, LoginsCurrent, Authenticate, Middleware, CheckAllowed, FindUser,
         Compare, Done, Goto, AsRequested, Ops, Request, Form
    <3>2. CASE Receive(w) \/ StartSession(w) \/ Logout(w) \/ Read(w) \/ Accounts(w)
      BY <1>1, <3>2 DEF AuthTypeOK, LoginsCurrent, Receive, StartSession, Logout, Read, Accounts,
         CreateUser, UpdateUser, DestroyUserSessions, SaveUser, DeleteUser, Done, Goto
    <3> QED BY <1>2, <3>1, <3>2 DEF Handle
  <2>3. pc'[w] \in {"compare", "create"} /\ row'[w].id # 0 => row'[w] \in users'
    <3>1. CASE Authenticate(w)
      <4>1. req[w].form.op \in Ops
        BY DEF AuthTypeOK, Request, Form
      <4>2. users' = users
        BY <3>1 DEF Authenticate, Middleware, CheckAllowed, FindUser, Compare, table
      <4>3. CASE Middleware(w) \/ CheckAllowed(w)
        BY <4>1, <4>3 DEF AuthTypeOK, Middleware, CheckAllowed, Done, Goto, Ops
      <4>4. CASE FindUser(w)
        BY <4>2, <4>4 DEF AuthTypeOK, FindUser, ByName, LoginsCurrent
      <4>5. CASE Compare(w)
        BY <4>1, <4>2, <4>5 DEF AuthTypeOK, Compare, LoginsCurrent, Done, Goto, Ops
      <4> QED BY <3>1, <4>3, <4>4, <4>5 DEF Authenticate
    <3>2. CASE Receive(w) \/ StartSession(w) \/ Logout(w) \/ Read(w) \/ Accounts(w)
      BY <3>2 DEF AuthTypeOK, Receive, StartSession, Logout, Read, Accounts,
         CreateUser, UpdateUser, DestroyUserSessions, SaveUser, DeleteUser, Done, Goto
    <3> QED BY <1>2, <3>1, <3>2 DEF Handle
  <2> QED BY <2>1, <2>2, <2>3 DEF LoginsCurrent
<1>3. CASE Tick \/ UNCHANGED vars
  BY <1>3 DEF Tick, vars, table, LoginsCurrent
<1>4. CASE Restart
  BY <1>1, <1>4 DEF Restart, LoginsCurrent
<1> QED BY <1>2, <1>3, <1>4 DEF Next

\* The one handler at work: an update saves over the row it has read, and the sessions it
\* has destroyed have not come back.
LEMMA UpdatesStep ==
  ASSUME Sequential, StaleInv, [Next]_vars PROVE UpdatesCurrent'
<1> USE DEF StaleInv, Shape
<1> SUFFICES ASSUME NEW w \in Workers, pc'[w] \in {"destroyUser", "saveUser"}
             PROVE  /\ \E u \in users' : u.id = row'[w].id /\ u.name = row'[w].name
                    /\ pc'[w] = "saveUser" =>
                         \A t \in Tokens : Live(t)' /\ opened'[t].id = row'[w].id
                                             => opened'[t].password = row'[w].password
  BY DEF UpdatesCurrent
<1>1. CASE /\ row'[w] = row[w] /\ pc[w] \in {"destroyUser", "saveUser"}
           /\ pc'[w] = pc[w] \/ DestroyUserSessions(w)
  <2>1. PICK u \in users : u.id = row[w].id /\ u.name = row[w].name
    BY <1>1 DEF UpdatesCurrent
  <2>2. \A v \in Workers : v = w
    BY DEF Sequential
  <2>3. DestroyUserSessions(w) \/ Tick \/ UNCHANGED vars
    <3>1. ~Restart
      BY DEF Restart
    <3>2. ~SaveUser(w)
      BY DEF SaveUser, Done, Goto, AuthTypeOK
    <3>3. ~Receive(w) /\ ~Authenticate(w) /\ ~StartSession(w) /\ ~Logout(w) /\ ~Read(w)
          /\ ~CreateUser(w) /\ ~UpdateUser(w) /\ ~DeleteUser(w)
      BY <1>1 DEF Receive, Authenticate, Middleware, CheckAllowed, FindUser, Compare, StartSession,
         Logout, Read, CreateUser, UpdateUser, DeleteUser
    <3> QED BY <2>2, <3>1, <3>2, <3>3 DEF Next, Handle, Accounts
  <2>4. users' = users
    BY <2>3 DEF DestroyUserSessions, Tick, vars, table
  <2>5. CASE DestroyUserSessions(w)
    <3>1. \A t \in Tokens : Live(t)' => Live(t) /\ sessions[t].user # row[w].name
      BY <2>5 DEF DestroyUserSessions, DestroyUser, Live, NoSession
    <3>2. opened' = opened
      BY <2>5 DEF DestroyUserSessions
    <3> QED BY <1>1, <2>1, <2>4, <3>1, <3>2 DEF SessionsNamed
  <2>6. CASE Tick \/ UNCHANGED vars
    <3>1. opened' = opened /\ pc' = pc
      BY <2>6 DEF Tick, vars
    <3>2. \A t \in Tokens : Live(t)' => Live(t)
      <4>1. \A v \in Workers : ~StartSession(v)
        BY <1>1, <2>2 DEF StartSession
      <4> QED BY <4>1, SessionsFrom DEF Live
    <3> QED BY <1>1, <2>1, <2>4, <3>1, <3>2 DEF UpdatesCurrent
  <2> QED BY <2>3, <2>5, <2>6
<1>2. ASSUME UpdateUser(w), NEW u \in ByID(req[w].form.id), row'[w] = Merge(u, req[w].form),
             pc'[w] = IF req[w].form.newPassword # None THEN "destroyUser" ELSE "saveUser"
      PROVE  /\ \E q \in users' : q.id = row'[w].id /\ q.name = row'[w].name
             /\ pc'[w] = "saveUser" =>
                  \A t \in Tokens : Live(t)' /\ opened'[t].id = row'[w].id
                                      => opened'[t].password = row'[w].password
  <2>1. pc[w] = "UpdateUser" /\ users' = users /\ sessions' = sessions /\ opened' = opened
    BY <1>2 DEF UpdateUser, table
  <2>2. req[w].form.newName = None
    BY <2>1 DEF RequestsSent, AsRequested, Sequential, Ops
  <2>3. u \in users /\ row'[w].id = u.id /\ row'[w].name = u.name
    BY <1>2, <2>2 DEF ByID, Merge, Override
  <2>4. pc'[w] = "saveUser" => row'[w].password = u.password
    BY <1>2 DEF Merge, Override
  <2> QED BY <2>1, <2>3, <2>4 DEF NoStaleSession, Live
<1> QED BY <1>1, <1>2, UpdatesFrom

\* UpdateUser destroys the sessions before it saves the new password, "Sessions opened with
\* the old password must not outlive it": served one request at a time, and as long as no
\* update renames an account, none does, across deletions, restarts and reused names.
THEOREM NoSessionOutlives == Sequential /\ Spec => []NoStaleSession
<1>1. Sequential /\ Init => Sequential /\ StaleInv
  <2>1. Init => Shape
    BY InitShape
  <2>2. Init => RequestsSent /\ AsRequested /\ LoginsCurrent /\ UpdatesCurrent
    BY DEF Init, RequestsSent, AsRequested, Ops, LoginsCurrent, ZeroUser, UpdatesCurrent
  <2>3. Init => SessionsNamed /\ NoStaleSession
    BY DEF Init, SessionsNamed, NoStaleSession, Live, NoSession
  <2> QED BY <2>1, <2>2, <2>3 DEF StaleInv
<1>2. Sequential /\ StaleInv /\ [Next]_vars => (Sequential /\ StaleInv)'
  <2>1. Sequential => Sequential'
    BY DEF Sequential
  <2>2. StaleInv /\ [Next]_vars => Shape' /\ RequestsSent' /\ AsRequested'
    BY StepShape, RequestsSentStep, AsRequestedStep DEF StaleInv, Shape
  <2> QED BY <2>1, <2>2, SessionsStep, LoginsStep, UpdatesStep DEF StaleInv
<1>3. StaleInv => NoStaleSession
  BY DEF StaleInv
<1> QED BY <1>1, <1>2, <1>3, PTL DEF Spec
=============================================================================
