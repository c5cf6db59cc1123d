--------------------------- MODULE SessionsProofs ---------------------------
(***************************************************************************)
(* Theorems about Sessions, for any browsers, accounts and logins, any     *)
(* number of requests at a time and every lifetime of a session.           *)
(*                                                                         *)
(* The argument: a callback that has read the transaction of a state either*)
(* finds it deleted before it exchanges its code, or the state is one of   *)
(* those in "shared", so no second request or session of the state exists  *)
(* (OnceInv); the browser of a callback is the one whose cookie had the    *)
(* state, and it alone is given that cookie (OwnInv); and a session with a *)
(* role that the account has lost was opened before the loss, so what it   *)
(* has left to live shrinks as the loss ages (ExpiryInv).                  *)
(***************************************************************************)
EXTENDS Sessions, FiniteSetTheorems, TLAPS

\* The callback of r is under way.
Carrying(r) == req[r].step \in {"drop", "exchange", "open", "sync"}

\* What a request and a session can be.
ShapeInv ==
  /\ \A r \in Request :
       \/ req[r] = Idle
       \/ req[r] \in [step : {"drop", "exchange"}, k : answers, b : Browser]
       \/ req[r] \in [step : {"open", "sync"}, k : spent, b : Browser, user : User]
       \/ req[r] \in [step : {"write"}, change : Change]
  /\ DOMAIN req = Request
  /\ session \in [Redirect -> {Never, Ended} \cup [user : User, left : 1 .. SessionTTL]]
  /\ \A k \in Redirect : session[k] # Never => k \in spent
  /\ \A r \in Request : req[r].step = "sync" => session[req[r].k] # Never
  /\ cookie \in [Browser -> Redirect \cup {None}]

\* Who began the login that a request or a session comes from.
OwnInv ==
  /\ \A b \in Browser : stateCookie[b] # None => begun[stateCookie[b]] = b
  /\ \A k \in answers : begun[k[1]] # None
  /\ \A r \in Request : Carrying(r) => begun[req[r].k[1]] = req[r].b
  /\ \A b \in Browser : cookie[b] # None => begun[cookie[b][1]] = b
  /\ \A k \in Redirect : Live(k) => session[k].user.id = k[2]

\* A state that is not shared leads to one callback or one session.
OnceInv ==
  \A s \in State \ shared :
    /\ \A k \in Redirect : k[1] = s /\ session[k] # Never =>
         /\ txn[s] = 0
         /\ \A l \in Redirect : l[1] = s /\ session[l] # Never => l = k
    /\ \A r \in Request : Carrying(r) /\ req[r].k[1] = s =>
         /\ req[r].step # "drop" => txn[s] = 0
         /\ req[r].step # "sync" =>
              \A k \in Redirect : k[1] = s => session[k] = Never
         /\ \A q \in Request : Carrying(q) /\ req[q].k[1] = s => q = r

\* The roles that u may have once its account a has changed.
Kept(a, u) == Later[a].roles \cup IF u.name \in Super THEN {"admin"} ELSE {}

\* Older roles were read before the change, and their session ends in time.
ExpiryInv ==
  /\ claims \in [Account -> [name : Name, roles : SUBSET Role]]
  /\ \A a \in Account : claims[a] \in {Claims[a], Later[a]}
  /\ age \in [Account -> Nat]
  /\ \A a \in Account : claims[a] = Claims[a] => age[a] = 0
  /\ \A r \in Request : req[r].step = "open" =>
       /\ req[r].user.super = FALSE
       /\ req[r].user.roles \subseteq Later[req[r].k[2]].roles \/ age[req[r].k[2]] = 0
  /\ \A k \in Redirect : Live(k) =>
       \/ session[k].user.roles \subseteq Kept(k[2], session[k].user)
       \/ session[k].left + age[k[2]] <= SessionTTL

SessionsInv ==
  /\ TypeOK
  /\ ShapeInv
  /\ OwnInv
  /\ OnceInv
  /\ ExpiryInv


-----------------------------------------------------------------------------
\* The kinds of session are told apart.
LEMMA SessionKinds ==
  /\ Never # Ended /\ Never.left = 0 /\ Ended.left = 0
  /\ \A x \in [user : User, left : 1 .. SessionTTL] :
       x # Never /\ x.left \in 1 .. SessionTTL /\ x.user \in User
<1>1. Never # Ended
  <2>1. "user" \in DOMAIN Ended /\ "user" \notin DOMAIN Never
    BY DEF Never, Ended
  <2>. QED
    BY <2>1
<1>2. ASSUME NEW x \in [user : User, left : 1 .. SessionTTL] PROVE x # Never
  <2>1. x.left \in 1 .. SessionTTL /\ Never.left = 0
    BY DEF Never
  <2>. QED
    BY <2>1
<1>. QED
  BY <1>1, <1>2 DEF Never, Ended

\* Rows that no two share an id or a name, and that others may refer to.
Rows(us) ==
  /\ us \subseteq User
  /\ referenced \subseteq {u.id : u \in us}
  /\ \A u, v \in us : u.id = v.id \/ u.name = v.name => u = v

\* The directory is such a set.
LEMMA RowsType == TypeOK => Rows(users)
BY DEF TypeOK, Rows

\* The records of a user.
LEMMA UserType ==
  ASSUME NEW u \in User
  PROVE  /\ u.id \in Id /\ u.name \in Name /\ u.roles \in SUBSET Role
         /\ u.super \in BOOLEAN
         /\ \A rs \in SUBSET Role : /\ [u EXCEPT !.roles = rs] \in User
                                    /\ [u EXCEPT !.roles = rs].id = u.id
                                    /\ [u EXCEPT !.roles = rs].name = u.name
                                    /\ [u EXCEPT !.roles = rs].roles = rs
                                    /\ [u EXCEPT !.roles = rs].super = u.super
BY DEF User

\* The calls that write the directory keep its two unique columns and what is
\* referred to.
LEMMA UpsertRows ==
  ASSUME Rows(users), NEW u \in User PROVE Rows(UpsertUser(u))
<1>1. CASE \E e \in users : e.name = u.name
  <2>. DEFINE f(e) == IF e.name = u.name /\ u.roles # {} THEN [e EXCEPT !.roles = u.roles] ELSE e
  <2>1. \A e \in users : f(e) \in User /\ f(e).id = e.id /\ f(e).name = e.name
    BY UserType DEF Rows
  <2>2. UpsertUser(u) = {f(e) : e \in users}
    BY <1>1 DEF UpsertUser
  <2>. HIDE DEF f
  <2>. QED
    BY <2>1, <2>2 DEF Rows
<1>2. CASE ~ \E e \in users : e.name = u.name
  BY <1>2 DEF UpsertUser, Rows
<1>. QED
  BY <1>1, <1>2

LEMMA CreateRows ==
  ASSUME Rows(users), NEW u \in User PROVE Rows(CreateUser(u))
BY DEF CreateUser, Rows

LEMMA DeleteRows ==
  ASSUME Rows(users), NEW id PROVE Rows(DeleteUser(id))
BY DEF DeleteUser, Rows

LEMMA UpdateRows ==
  ASSUME Rows(users), NEW id,
         NEW patch \in [super : BOOLEAN] \cup [super : BOOLEAN, roles : SUBSET Role]
  PROVE  Rows(UpdateUser(id, patch))
<1>. DEFINE f(e) == IF e.id # id THEN e
                    ELSE [e EXCEPT !.super = patch.super,
                                   !.roles = IF "roles" \in DOMAIN patch THEN patch.roles ELSE @]
<1>1. patch.super \in BOOLEAN /\ ("roles" \in DOMAIN patch => patch.roles \in SUBSET Role)
  OBVIOUS
<1>2. \A e \in users : f(e) \in User /\ f(e).id = e.id /\ f(e).name = e.name
  BY <1>1 DEF Rows, User
<1>3. UpdateUser(id, patch) = {f(e) : e \in users}
  BY DEF UpdateUser
<1>. HIDE DEF f
<1>. QED
  BY <1>2, <1>3 DEF Rows

\* A state is begun once, by the browser that gets its cookie.
LEMMA BeginLoginKeeps ==
  ASSUME SessionsInv, NEW b \in Browser, NEW s \in State, BeginLogin(b,s)
  PROVE  SessionsInv'
<1>. USE SessionsAssumption DEF SessionsInv
<1>1. TypeOK'
  BY SessionKinds
     DEF TypeOK, ShapeInv, Live, login, directory, sessions, BeginLogin
<1>2. ShapeInv'
  BY SessionKinds
     DEF TypeOK, ShapeInv, Idle, login, directory, sessions, BeginLogin
<1>3. OwnInv'
  BY SessionKinds DEF TypeOK, ShapeInv, OwnInv, Carrying, Live, Idle, login,
     directory, sessions, BeginLogin
<1>4. OnceInv'
  BY SessionKinds DEF TypeOK, ShapeInv, OnceInv, OwnInv, Carrying, Idle,
     login, directory, sessions, BeginLogin
<1>5. ExpiryInv'
  BY SessionKinds DEF TypeOK, ShapeInv, ExpiryInv, Live, Idle, Kept, User,
     login, directory, sessions, BeginLogin
<1>. QED
  BY <1>1, <1>2, <1>3, <1>4, <1>5

\* The provider answers for a login that has begun.
LEMMA AuthoriseKeeps ==
  ASSUME SessionsInv, NEW s \in State, NEW a \in Account, Authorise(s,a)
  PROVE  SessionsInv'
<1>. USE SessionsAssumption DEF SessionsInv
<1>1. TypeOK'
  <2>1. answers' \subseteq Redirect /\ spent' \subseteq answers'
    BY DEF Authorise, TypeOK, Redirect
  <2>. QED
    BY <2>1 DEF TypeOK, ShapeInv, Live, directory, sessions, Authorise
<1>2. ShapeInv'
  BY SessionKinds
     DEF TypeOK, ShapeInv, Idle, login, directory, sessions, Authorise
<1>3. OwnInv'
  BY SessionKinds DEF TypeOK, ShapeInv, OwnInv, Carrying, Live, Idle, login,
     directory, sessions, Authorise
<1>4. OnceInv'
  BY SessionKinds DEF TypeOK, ShapeInv, OnceInv, OwnInv, Carrying, Idle,
     login, directory, sessions, Authorise
<1>5. ExpiryInv'
  BY SessionKinds DEF TypeOK, ShapeInv, ExpiryInv, Live, Idle, Kept, User,
     login, directory, sessions, Authorise
<1>. QED
  BY <1>1, <1>2, <1>3, <1>4, <1>5

\* The browser of the request has the cookie of the state.  When another
\* request has read its transaction, too, the state is shared from now on.
LEMMA CallbackKeeps ==
  ASSUME SessionsInv, NEW r \in Request, NEW b \in Browser,
         NEW k \in Redirect, Callback(r,b,k)
  PROVE  SessionsInv'
<1>. USE SessionsAssumption DEF SessionsInv
<1>1. req'[r] = [step |-> "drop", k |-> k, b |-> b]
      /\ \A q \in Request \ {r} : req'[q] = req[q]
  BY DEF Callback, ShapeInv
<1>2. \A q \in Request : req'[q].step \in {"open", "sync"} =>
        req'[q].user \in User /\ req'[q].user.id = req'[q].k[2] /\ req'[q].k \in spent'
  BY <1>1 DEF Callback, TypeOK, login
<1>3. TypeOK'
  <2>1. shared' \subseteq State
    BY DEF Callback, TypeOK, Redirect
  <2>. QED
    BY <1>2, <2>1 DEF TypeOK, Live, login, directory, sessions, Callback
<1>4. ShapeInv'
  BY SessionKinds
     DEF TypeOK, ShapeInv, Idle, login, directory, sessions, Callback, MayCall
<1>5. OwnInv'
  <2>1. begun[k[1]] = b
    BY DEF Callback, MayCall, OwnInv, TypeOK, Redirect
  <2>2. \A q \in Request : Carrying(q)' => begun[req'[q].k[1]] = req'[q].b
    BY <1>1, <2>1 DEF OwnInv, Carrying
  <2>. QED
    BY <2>2 DEF OwnInv, Live, login, sessions, Callback, Carrying
<1>6. OnceInv'
  BY SessionKinds DEF TypeOK, ShapeInv, OnceInv, OwnInv, Carrying, Idle,
     login, directory, sessions, Callback, MayCall
<1>7. ExpiryInv'
  BY SessionKinds DEF TypeOK, ShapeInv, ExpiryInv, Live, Idle, Kept, User,
     login, directory, sessions, Callback, MayCall
<1>. QED
  BY <1>3, <1>4, <1>5, <1>6, <1>7

\* The transaction is deleted, unless the store fails and the state is shared.
LEMMA DropStateKeeps ==
  ASSUME SessionsInv, NEW r \in Request, DropState(r)
  PROVE  SessionsInv'
<1>. USE SessionsAssumption DEF SessionsInv
<1>1. req[r].step = "drop" /\ req'[r].step = "exchange"
      /\ \A q \in Request \ {r} : req'[q] = req[q]
  BY DEF DropState, ShapeInv, Idle
<1>2. req[r].k \in Redirect /\ req[r].k[1] \in State
  BY <1>1 DEF ShapeInv, Idle, TypeOK, Redirect
<1>3. \A q \in Request : req'[q].step \in {"open", "sync"} =>
        req'[q].user \in User /\ req'[q].user.id = req'[q].k[2] /\ req'[q].k \in spent'
  BY <1>1 DEF DropState, TypeOK
<1>4. TypeOK'
  <2>1. txn' \in [State -> 0 .. StateTTL] /\ shared' \subseteq State
    BY <1>2 DEF DropState, TypeOK
  <2>. QED
    BY <1>3, <2>1 DEF TypeOK, Live, directory, sessions, DropState
<1>5. ShapeInv'
  BY SessionKinds
     DEF TypeOK, ShapeInv, Idle, login, directory, sessions, DropState
<1>6. OwnInv'
  BY SessionKinds DEF TypeOK, ShapeInv, OwnInv, Carrying, Live, Idle, login,
     directory, sessions, DropState
<1>7. OnceInv'
  BY SessionKinds DEF TypeOK, ShapeInv, OnceInv, OwnInv, Carrying, Idle,
     login, directory, sessions, DropState
<1>8. ExpiryInv'
  BY SessionKinds DEF TypeOK, ShapeInv, ExpiryInv, Live, Idle, Kept, User,
     login, directory, sessions, DropState
<1>. QED
  BY <1>4, <1>5, <1>6, <1>7, <1>8

\* The code is spent, and the identity is that of the account that answered.
LEMMA ExchangeKeeps ==
  ASSUME SessionsInv, NEW r \in Request, Exchange(r)
  PROVE  SessionsInv'
<1>. USE SessionsAssumption DEF SessionsInv
<1>1. PICK k \in Redirect : k = req[r].k /\ k \in answers /\ k[1] \in State /\ k[2] \in Account
  <2>1. req[r].k \in answers
    BY DEF Exchange, ShapeInv, Idle
  <2>. QED
    BY <2>1 DEF TypeOK, Redirect
<1>2. Identity(k[2]) \in User /\ Identity(k[2]).id = k[2]
  BY <1>1 DEF Identity, User, Id, ExpiryInv
<1>3. /\ \/ /\ req'[r] = [step |-> "open", k |-> k, b |-> req[r].b, user |-> Identity(k[2])]
            /\ spent' = spent \cup {k}
         \/ req'[r] = Idle /\ spent' \in {spent, spent \cup {k}}
      /\ req[r].step = "exchange"
      /\ \A q \in Request \ {r} : req'[q] = req[q]
  BY <1>1 DEF Exchange, ShapeInv
<1>4. \A q \in Request : req'[q].step \in {"open", "sync"} =>
        req'[q].user \in User /\ req'[q].user.id = req'[q].k[2] /\ req'[q].k \in spent'
  BY <1>1, <1>2, <1>3 DEF TypeOK, Idle
<1>5. TypeOK'
  <2>1. spent \subseteq spent' /\ spent' \subseteq answers
    BY <1>1, <1>3 DEF TypeOK
  <2>. QED
    BY <1>4, <2>1 DEF TypeOK, Live, directory, sessions, Exchange
<1>6. ShapeInv'
  <2>1. spent \subseteq spent'
    BY <1>3
  <2>2. req[r].b \in Browser
    BY <1>3 DEF ShapeInv, Idle
  <2>3. DOMAIN req' = Request
    BY DEF Exchange, ShapeInv
  <2>4. ASSUME NEW q \in Request
        PROVE  \/ req'[q] = Idle
               \/ req'[q] \in [step : {"drop", "exchange"}, k : answers, b : Browser]
               \/ req'[q] \in [step : {"open", "sync"}, k : spent', b : Browser, user : User]
               \/ req'[q] \in [step : {"write"}, change : Change]
    <3>1. CASE q = r
      BY <1>2, <1>3, <2>2, <3>1
    <3>2. CASE q # r
      BY <1>3, <2>1, <3>2 DEF ShapeInv
    <3>. QED
      BY <3>1, <3>2
  <2>. QED
    BY <1>1, <1>3, <2>1, <2>3, <2>4 DEF ShapeInv, Idle, sessions, Exchange
<1>7. OwnInv'
  <2>1. \A q \in Request : Carrying(q)' =>
          Carrying(q) /\ req'[q].k = req[q].k /\ req'[q].b = req[q].b
    BY <1>1, <1>3 DEF Carrying, Idle
  <2>. QED
    BY <2>1 DEF OwnInv, Live, sessions, Exchange, Carrying
<1>8. OnceInv'
  <2>1. Carrying(r)' => Carrying(r) /\ req'[r].k = req[r].k /\ req'[r].step = "open"
    BY <1>1, <1>3 DEF Carrying, Idle
  <2>2. \A q \in Request : Carrying(q)' => Carrying(q) /\ req'[q].k = req[q].k
    BY <1>3, <2>1 DEF Carrying
  <2>3. \A q \in Request : Carrying(q)' => \/ req'[q].step = req[q].step
                                           \/ req[q].step = "exchange" /\ req'[q].step = "open"
    BY <1>3, <2>1
  <2>. QED
    BY <2>2, <2>3 DEF OnceInv, sessions, Exchange, Carrying
<1>9. ExpiryInv'
  <2>1. ASSUME NEW q \in Request, req'[q].step = "open"
        PROVE  /\ req'[q].user.super = FALSE
               /\ \/ req'[q].user.roles \subseteq Later[req'[q].k[2]].roles
                  \/ age[req'[q].k[2]] = 0
    <3>1. CASE q # r
      BY <1>3, <2>1, <3>1 DEF ExpiryInv
    <3>2. CASE q = r
      BY <1>1, <1>3, <2>1, <3>2 DEF ExpiryInv, Identity, Idle
    <3>. QED
      BY <3>1, <3>2
  <2>. QED
    BY <2>1 DEF ExpiryInv, Live, directory, sessions, Exchange
<1>. QED
  BY <1>5, <1>6, <1>7, <1>8, <1>9

\* The session is opened, and its browser gets the cookie.  No other request or
\* session of a state that is not shared exists.
LEMMA OpenSessionKeeps ==
  ASSUME SessionsInv, NEW r \in Request, OpenSession(r)
  PROVE  SessionsInv'
<1>. USE SessionsAssumption DEF SessionsInv
<1>1. PICK k \in Redirect, u \in User :
        /\ k = req[r].k /\ k \in spent /\ k[1] \in State /\ k[2] \in Account
        /\ u = ApplySuperAdmin(req[r].user) /\ u.id = k[2]
        /\ u.roles \subseteq Kept(k[2], u) \/ age[k[2]] = 0
  <2>1. PICK k \in Redirect, v \in User : k = req[r].k /\ v = req[r].user
    BY DEF OpenSession, ShapeInv, Idle, TypeOK
  <2>2. /\ k \in spent /\ k[1] \in State /\ k[2] \in Account /\ v.id = k[2]
        /\ v.super = FALSE /\ (v.roles \subseteq Later[k[2]].roles \/ age[k[2]] = 0)
    BY <2>1 DEF OpenSession, TypeOK, ExpiryInv, Redirect
  <2>3. CASE v.name \in Super
    <3>. DEFINE w == [v EXCEPT !.roles = @ \cup {"admin"}]
    <3>1. w \in User /\ w.id = v.id /\ w.name = v.name /\ w.roles = v.roles \cup {"admin"}
      BY DEF User, Role
    <3>2. w = ApplySuperAdmin(v)
      BY <2>3 DEF ApplySuperAdmin, IsSuperAdmin
    <3>3. w.roles \subseteq Kept(k[2], w) \/ age[k[2]] = 0
      BY <2>2, <2>3, <3>1 DEF Kept
    <3>. HIDE DEF w
    <3>. QED
      BY <2>1, <2>2, <3>1, <3>2, <3>3
  <2>4. CASE v.name \notin Super
    BY <2>1, <2>2, <2>4 DEF ApplySuperAdmin, IsSuperAdmin, Kept
  <2>. QED
    BY <2>3, <2>4
<1>2. /\ \/ /\ session' = [session EXCEPT ![k] = [user |-> u, left |-> SessionTTL]]
            /\ req' = [req EXCEPT ![r].step = "sync"]
         \/ req' = [req EXCEPT ![r] = Idle] /\ session' = session
      /\ req[r].step = "open"
  BY <1>1 DEF OpenSession
<1>3. /\ \/ /\ req'[r].step = "sync" /\ req'[r].k = k /\ req'[r].user = req[r].user
            /\ req'[r].b = req[r].b
         \/ req'[r] = Idle
      /\ DOMAIN req' = Request
      /\ \A q \in Request \ {r} : req'[q] = req[q]
  BY <1>1, <1>2 DEF ShapeInv, Idle
<1>4. /\ \/ session'[k] = session[k]
         \/ /\ session'[k] \in [user : User, left : 1 .. SessionTTL]
            /\ session'[k].user = u /\ session'[k].left = SessionTTL
            /\ req'[r].step = "sync"
      /\ \A l \in Redirect \ {k} : session'[l] = session[l]
  BY <1>1, <1>2, <1>3 DEF ShapeInv, Idle
<1>5. session' \in [Redirect -> {Never, Ended} \cup [user : User, left : 1 .. SessionTTL]]
  BY <1>1, <1>2, SessionsAssumption DEF ShapeInv
<1>6. \A q \in Request : req'[q].step \in {"open", "sync"} =>
        req'[q].user \in User /\ req'[q].user.id = req'[q].k[2] /\ req'[q].k \in spent'
  BY <1>1, <1>3 DEF TypeOK, OpenSession, login, Idle
<1>7. TypeOK'
  <2>1. \A l \in Redirect : Live(l)' => /\ session'[l] \in [user : User, left : 1 .. SessionTTL]
                                       /\ l \in spent
    BY <1>1, <1>4 DEF TypeOK, Live
  <2>2. \A b \in Browser : cookie[b] # None =>
          cookie[b] \in Redirect /\ session'[cookie[b]] # Never
    BY <1>4, SessionKinds DEF TypeOK
  <2>. QED
    BY <1>6, <2>1, <2>2 DEF TypeOK, Live, login, directory, OpenSession
<1>8. ShapeInv'
  <2>1. ASSUME NEW q \in Request
        PROVE  \/ req'[q] = Idle
               \/ req'[q] \in [step : {"drop", "exchange"}, k : answers, b : Browser]
               \/ req'[q] \in [step : {"open", "sync"}, k : spent, b : Browser, user : User]
               \/ req'[q] \in [step : {"write"}, change : Change]
    <3>1. CASE q = r
      BY <1>2, <3>1 DEF ShapeInv, Idle
    <3>2. CASE q # r
      BY <1>3, <3>2 DEF ShapeInv
    <3>. QED
      BY <3>1, <3>2
  <2>2. \A l \in Redirect : session'[l] # Never => l \in spent
    BY <1>1, <1>4 DEF ShapeInv
  <2>. QED
    <3>1. ASSUME NEW q \in Request, req'[q].step = "sync"
          PROVE  session'[req'[q].k] # Never
      <4>1. CASE q = r
        BY <1>2, <1>3, <1>4, <3>1, <4>1, SessionKinds DEF Idle, ShapeInv
      <4>2. CASE q # r
        BY <1>3, <1>4, <3>1, <4>2, SessionKinds DEF ShapeInv, TypeOK
      <4>. QED
        BY <4>1, <4>2
    <3>. QED
      BY <1>3, <1>5, <2>1, <2>2, <3>1 DEF ShapeInv, login, OpenSession
<1>9. OwnInv'
  <2>1. \A q \in Request : Carrying(q)' => begun[req'[q].k[1]] = req'[q].b
    BY <1>1, <1>2, <1>3 DEF OwnInv, Carrying, Idle
  <2>2. \A l \in Redirect : Live(l)' => session'[l].user.id = l[2]
    BY <1>1, <1>4 DEF OwnInv, Live
  <2>. QED
    BY <2>1, <2>2 DEF OwnInv, login, OpenSession, Live, Carrying
<1>10. OnceInv'
  <2>1. ASSUME NEW q \in Request, Carrying(q)'
        PROVE  /\ Carrying(q) /\ req'[q].k = req[q].k
               /\ IF q = r THEN req'[q].step = "sync" ELSE req'[q].step = req[q].step
    BY <1>1, <1>2, <1>3, <2>1 DEF Carrying, Idle
  <2>2. ASSUME NEW s \in State \ shared, k[1] = s
        PROVE  /\ txn[s] = 0
               /\ \A l \in Redirect : l[1] = s => session[l] = Never
               /\ \A q \in Request : Carrying(q) /\ req[q].k[1] = s => q = r
    BY <1>1, <1>2, <2>2 DEF OnceInv, Carrying
  <2>3. \A l \in Redirect : l # k => session'[l] = session[l]
    BY <1>4
  <2>. SUFFICES ASSUME NEW s \in State \ shared
                PROVE  /\ \A l \in Redirect : l[1] = s /\ session'[l] # Never =>
                            /\ txn[s] = 0
                            /\ \A m \in Redirect : m[1] = s /\ session'[m] # Never => m = l
                       /\ \A q \in Request : Carrying(q)' /\ req'[q].k[1] = s =>
                            /\ req'[q].step # "drop" => txn[s] = 0
                            /\ req'[q].step # "sync" =>
                                 \A l \in Redirect : l[1] = s => session'[l] = Never
                            /\ \A p \in Request : Carrying(p)' /\ req'[p].k[1] = s => p = q
    BY DEF OnceInv, login, OpenSession
  <2>4. CASE k[1] = s
    BY <2>1, <2>2, <2>3, <2>4
  <2>5. CASE k[1] # s
    <3>1. \A l \in Redirect : l[1] = s => session'[l] = session[l]
      BY <2>3, <2>5
    <3>2. \A q \in Request : Carrying(q)' /\ req'[q].k[1] = s =>
             Carrying(q) /\ req[q].k[1] = s /\ req'[q].step = req[q].step
      BY <1>1, <2>1, <2>5
    <3>. QED
      BY <3>1, <3>2 DEF OnceInv
  <2>. QED
    BY <2>4, <2>5
<1>11. ExpiryInv'
  <2>1. \A q \in Request : req'[q].step = "open" => req'[q] = req[q]
    BY <1>3 DEF Idle
  <2>2. \A l \in Redirect : Live(l)' =>
          \/ session'[l].user.roles \subseteq Kept(l[2], session'[l].user)
          \/ session'[l].left + age[l[2]] <= SessionTTL
    BY <1>1, <1>4 DEF ExpiryInv, Live
  <2>. QED
    BY <2>1, <2>2 DEF ExpiryInv, directory, OpenSession, Live, Kept
<1>. QED
  BY <1>7, <1>8, <1>9, <1>10, <1>11

\* The copy into the directory ends the callback.
LEMMA SyncKeeps ==
  ASSUME SessionsInv, NEW r \in Request, Sync(r)
  PROVE  SessionsInv'
<1>. USE SessionsAssumption DEF SessionsInv
<1>1. req'[r] = Idle /\ \A q \in Request \ {r} : req'[q] = req[q]
  BY DEF Sync, ShapeInv
<1>2. req[r].step = "sync" /\ req[r].k \in spent /\ req[r].k \in Redirect
      /\ req[r].b \in Browser /\ req[r].user \in User
  BY DEF Sync, ShapeInv, Idle, TypeOK
<1>3. \A q \in Request : req'[q].step \in {"open", "sync"} =>
        req'[q].user \in User /\ req'[q].user.id = req'[q].k[2] /\ req'[q].k \in spent'
  BY <1>1 DEF Sync, TypeOK, Idle
<1>4. Rows(users)'
  <2>1. Rows(users')
    BY <1>2, RowsType, UpsertRows DEF Sync
  <2>. QED
    BY <2>1 DEF Sync, Rows
<1>5. TypeOK'
  <2>1. \A b \in Browser : cookie'[b] # None =>
          cookie'[b] \in Redirect /\ session[cookie'[b]] # Never
    BY <1>2 DEF Sync, TypeOK, ShapeInv
  <2>2. stateCookie' \in [Browser -> State \cup {None}]
    BY <1>2 DEF Sync, TypeOK
  <2>. QED
    BY <1>3, <1>4, <2>1, <2>2 DEF TypeOK, Rows, Live, Sync
<1>6. ShapeInv'
  BY SessionKinds DEF TypeOK, ShapeInv, Idle, login, directory, sessions, Sync
<1>7. OwnInv'
  BY SessionKinds DEF TypeOK, ShapeInv, OwnInv, Carrying, Live, Idle, login,
     directory, sessions, Sync
<1>8. OnceInv'
  BY SessionKinds DEF TypeOK, ShapeInv, OnceInv, OwnInv, Carrying, Idle,
     login, directory, sessions, Sync
<1>9. ExpiryInv'
  BY SessionKinds DEF TypeOK, ShapeInv, ExpiryInv, Live, Idle, Kept, User,
     login, directory, sessions, Sync
<1>. QED
  BY <1>5, <1>6, <1>7, <1>8, <1>9

\* The session of the cookie ends.
LEMMA LogoutKeeps ==
  ASSUME SessionsInv, NEW b \in Browser, Logout(b)
  PROVE  SessionsInv'
<1>. USE SessionsAssumption DEF SessionsInv
<1>1. \A k \in Redirect : session'[k] \in {session[k], Ended}
  BY DEF Logout, ShapeInv
<1>2. TypeOK'
  BY SessionKinds
     DEF TypeOK, ShapeInv, Live, login, directory, sessions, Logout
<1>3. ShapeInv'
  BY SessionKinds
     DEF TypeOK, ShapeInv, Idle, login, directory, sessions, Logout
<1>4. OwnInv'
  BY SessionKinds DEF TypeOK, ShapeInv, OwnInv, Carrying, Live, Idle, login,
     directory, sessions, Logout
<1>5. OnceInv'
  BY SessionKinds DEF TypeOK, ShapeInv, OnceInv, OwnInv, Carrying, Idle,
     login, directory, sessions, Logout
<1>6. ExpiryInv'
  <2>1. \A k \in Redirect : Live(k)' => Live(k) /\ session'[k] = session[k]
    BY <1>1, SessionKinds DEF Live
  <2>. QED
    BY <2>1 DEF ExpiryInv, Live, directory, Logout, Kept
<1>. QED
  BY <1>2, <1>3, <1>4, <1>5, <1>6

\* An administrator with a live session gets through.
LEMMA GateKeeps ==
  ASSUME SessionsInv, NEW r \in Request, NEW b \in Browser, NEW c \in Changes,
         Gate(r,b,c)
  PROVE  SessionsInv'
<1>. USE SessionsAssumption DEF SessionsInv
<1>1. TypeOK'
  BY SessionKinds DEF TypeOK, ShapeInv, Live, login, directory, sessions, Gate
<1>2. ShapeInv'
  BY SessionKinds DEF TypeOK, ShapeInv, Idle, login, directory, sessions, Gate
<1>3. OwnInv'
  BY SessionKinds DEF TypeOK, ShapeInv, OwnInv, Carrying, Live, Idle, login,
     directory, sessions, Gate
<1>4. OnceInv'
  BY SessionKinds DEF TypeOK, ShapeInv, OnceInv, OwnInv, Carrying, Idle,
     login, directory, sessions, Gate
<1>5. ExpiryInv'
  BY SessionKinds DEF TypeOK, ShapeInv, ExpiryInv, Live, Idle, Kept, User,
     login, directory, sessions, Gate
<1>. QED
  BY <1>1, <1>2, <1>3, <1>4, <1>5

\* An administrator changes the directory.
LEMMA WriteKeeps ==
  ASSUME SessionsInv, NEW r \in Request, Write(r)
  PROVE  SessionsInv'
<1>. USE SessionsAssumption DEF SessionsInv
<1>1. req'[r] = Idle /\ \A q \in Request \ {r} : req'[q] = req[q]
  BY DEF Write, ShapeInv
<1>2. \A q \in Request : req'[q].step \in {"open", "sync"} =>
        req'[q].user \in User /\ req'[q].user.id = req'[q].k[2] /\ req'[q].k \in spent'
  BY <1>1 DEF Write, TypeOK, Idle, login
<1>3. Rows(users)'
  <2>0. referenced' = referenced
    BY DEF Write
  <2>1. PICK c \in Change : c = req[r].change
    BY DEF Write, ShapeInv, Idle
  <2>2. CASE c.op = "create"
    <3>1. c.name \in Name /\ c.super \in BOOLEAN
      BY <2>2 DEF Change
    <3>2. [id |-> ManualId, name |-> c.name, roles |-> {}, super |-> c.super] \in User
      BY <3>1 DEF User, Id
    <3>3. users' = CreateUser([id |-> ManualId, name |-> c.name, roles |-> {}, super |-> c.super])
      BY <2>1, <2>2 DEF Write
    <3>. QED
      BY <3>2, <3>3, RowsType, CreateRows, <2>0 DEF Rows
  <2>3. CASE c.op = "update"
    <3>1. c.patch \in [super : BOOLEAN] \cup [super : BOOLEAN, roles : SUBSET Role]
      BY <2>3 DEF Change
    <3>2. users' = UpdateUser(c.id, c.patch)
      BY <2>1, <2>3 DEF Write
    <3>. QED
      BY <3>1, <3>2, RowsType, UpdateRows, <2>0 DEF Rows
  <2>4. CASE c.op = "delete"
    <3>1. users' = DeleteUser(c.id)
      BY <2>1, <2>4 DEF Write
    <3>. QED
      BY <3>1, RowsType, DeleteRows, <2>0 DEF Rows
  <2>. QED
    BY <2>2, <2>3, <2>4 DEF Change
<1>4. TypeOK'
  BY <1>2, <1>3 DEF TypeOK, Rows, Live, login, sessions, Write
<1>5. ShapeInv'
  BY SessionKinds DEF TypeOK, ShapeInv, Idle, login, directory, sessions, Write
<1>6. OwnInv'
  BY SessionKinds DEF TypeOK, ShapeInv, OwnInv, Carrying, Live, Idle, login,
     directory, sessions, Write
<1>7. OnceInv'
  BY SessionKinds DEF TypeOK, ShapeInv, OnceInv, OwnInv, Carrying, Idle,
     login, directory, sessions, Write
<1>8. ExpiryInv'
  BY SessionKinds DEF TypeOK, ShapeInv, ExpiryInv, Live, Idle, Kept, User,
     login, directory, sessions, Write
<1>. QED
  BY <1>4, <1>5, <1>6, <1>7, <1>8

\* The provider takes roles from an account; the loss is new.
LEMMA ChangeClaimsKeeps ==
  ASSUME SessionsInv, NEW a \in Account, ChangeClaims(a)
  PROVE  SessionsInv'
<1>. USE SessionsAssumption DEF SessionsInv
<1>1. TypeOK'
  BY SessionKinds
     DEF TypeOK, ShapeInv, Live, login, directory, sessions, ChangeClaims
<1>2. ShapeInv'
  BY SessionKinds
     DEF TypeOK, ShapeInv, Idle, login, directory, sessions, ChangeClaims
<1>3. OwnInv'
  BY SessionKinds DEF TypeOK, ShapeInv, OwnInv, Carrying, Live, Idle, login,
     directory, sessions, ChangeClaims
<1>4. OnceInv'
  BY SessionKinds DEF TypeOK, ShapeInv, OnceInv, OwnInv, Carrying, Idle,
     login, directory, sessions, ChangeClaims
<1>5. ExpiryInv'
  BY SessionKinds DEF TypeOK, ShapeInv, ExpiryInv, Live, Idle, Kept, User,
     login, directory, sessions, ChangeClaims
<1>. QED
  BY <1>1, <1>2, <1>3, <1>4, <1>5

\* The loss ages as much as the sessions that were opened before it.
LEMMA TickKeeps ==
  ASSUME SessionsInv, Tick
  PROVE  SessionsInv'
<1>. USE SessionsAssumption DEF SessionsInv
<1>1. \A k \in Redirect :
        /\ session'[k] # Never => session[k] # Never
        /\ Live(k)' => /\ Live(k) /\ session'[k].user = session[k].user
                       /\ session'[k].left = session[k].left - 1
  BY SessionKinds DEF Tick, Live, ShapeInv
<1>2. TypeOK'
  BY SessionKinds DEF TypeOK, ShapeInv, Live, login, directory, sessions, Tick
<1>3. ShapeInv'
  BY SessionKinds DEF TypeOK, ShapeInv, Idle, login, directory, sessions, Tick
<1>4. OwnInv'
  BY SessionKinds DEF TypeOK, ShapeInv, OwnInv, Carrying, Live, Idle, login,
     directory, sessions, Tick
<1>5. OnceInv'
  BY SessionKinds DEF TypeOK, ShapeInv, OnceInv, OwnInv, Carrying, Idle,
     login, directory, sessions, Tick
<1>6. ExpiryInv'
  <2>1. /\ age' \in [Account -> Nat]
        /\ \A a \in Account : age'[a] <= age[a] + 1
        /\ \A a \in Account : claims[a] = Claims[a] => age'[a] = 0
    BY DEF Tick, ExpiryInv
  <2>2. \A q \in Request : req[q].step # "open"
    BY DEF Tick
  <2>3. ASSUME NEW k \in Redirect, Live(k)'
        PROVE  \/ session'[k].user.roles \subseteq Kept(k[2], session'[k].user)
               \/ session'[k].left + age'[k[2]] <= SessionTTL
    <3>1. /\ Live(k) /\ session'[k].user = session[k].user
          /\ session'[k].left = session[k].left - 1
      BY <1>1, <2>3
    <3>2. session[k].left \in Nat /\ k[2] \in Account /\ age[k[2]] \in Nat /\ age'[k[2]] \in Nat
      BY <2>1, <3>1 DEF TypeOK, Redirect, ExpiryInv
    <3>3. age'[k[2]] <= age[k[2]] + 1
      BY <2>1, <3>2
    <3>4. session[k].left + age[k[2]] <= SessionTTL
            => session'[k].left + age'[k[2]] <= SessionTTL
      BY <3>1, <3>2, <3>3
    <3>. QED
      BY <3>1, <3>4 DEF ExpiryInv
  <2>. QED
    BY <2>1, <2>2, <2>3 DEF ExpiryInv, Tick, Live, Kept
<1>. QED
  BY <1>2, <1>3, <1>4, <1>5, <1>6

\* Nobody is logged in, nothing is begun.
LEMMA InitHolds == Init => SessionsInv
<1>. SUFFICES ASSUME Init PROVE SessionsInv
  OBVIOUS
<1>. USE SessionsAssumption DEF Init
<1>1. TypeOK
  BY DEF TypeOK, Live, Never, Idle
<1>2. ShapeInv
  BY DEF ShapeInv, Idle
<1>3. OwnInv /\ OnceInv
  BY DEF OwnInv, OnceInv, Carrying, Live, Never, Idle
<1>4. ExpiryInv
  BY DEF ExpiryInv, Live, Never, Idle
<1>. QED
  BY <1>1, <1>2, <1>3, <1>4 DEF SessionsInv

\* What refers to a user finds the row.
LEMMA ReferKeeps ==
  ASSUME SessionsInv, NEW b \in Browser, Refer(b)
  PROVE  SessionsInv'
<1>1. referenced' \subseteq {u.id : u \in users}
  BY DEF Refer, SessionsInv, TypeOK
<1>. QED
  BY <1>1 DEF Refer, SessionsInv, TypeOK, ShapeInv, OwnInv, OnceInv, ExpiryInv,
     Carrying, Live, Kept, login, sessions

\* Every step keeps the invariant.
LEMMA StepKeeps == SessionsInv /\ [Next]_vars => SessionsInv'
<1>. SUFFICES ASSUME SessionsInv, [Next]_vars PROVE SessionsInv'
  OBVIOUS
<1>1. CASE UNCHANGED vars
  BY <1>1 DEF vars, login, directory, sessions, SessionsInv, TypeOK, ShapeInv,
     OwnInv,
     OnceInv, ExpiryInv, Carrying, Live, Kept
<1>. QED
  BY <1>1, BeginLoginKeeps, AuthoriseKeeps, CallbackKeeps, DropStateKeeps,
     ExchangeKeeps,
     OpenSessionKeeps, SyncKeeps, LogoutKeeps, GateKeeps, WriteKeeps, ChangeClaimsKeeps,
     ReferKeeps, TickKeeps DEF Next

-----------------------------------------------------------------------------
\* The invariant that the following theorems rest on.
THEOREM SessionsInvariant == Spec => []SessionsInv
BY InitHolds, StepKeeps, PTL DEF Spec

\* Every variable keeps its type; ids and names of the directory are unique.
THEOREM SessionsTypeCorrect == Spec => []TypeOK
BY SessionsInvariant, PTL DEF SessionsInv

\* A login leads to one session at most, unless two callbacks had both read its
\* transaction, or its deletion failed (Service.Callback).
THEOREM StatesAreUsedOnce == Spec => []StateUsedOnce
<1>1. ASSUME NEW S, \A x, y \in S : x = y PROVE Cardinality(S) <= 1
  <2>1. CASE S = {}
    BY <2>1, FS_EmptySet
  <2>2. CASE S # {}
    <3>1. PICK x : S = {x}
      BY <1>1, <2>2
    <3>. QED
      BY <3>1, FS_Singleton
  <2>. QED
    BY <2>1, <2>2
<1>2. SessionsInv => StateUsedOnce
  <2>. SUFFICES ASSUME SessionsInv, NEW s \in State \ shared
                PROVE  Cardinality({k \in Redirect : k[1] = s /\ session[k] # Never}) <= 1
    BY DEF StateUsedOnce
  <2>1. \A k, l \in {x \in Redirect : x[1] = s /\ session[x] # Never} : k = l
    BY DEF SessionsInv, OnceInv
  <2>. QED
    BY <1>1, <2>1
<1>. QED
  BY <1>2, SessionsInvariant, PTL

\* A browser holds a session that its own login opened, for the account that
\* answered this login (Service.Callback, the state cookie).
THEOREM SessionsAreOnesOwn == Spec => []OwnLogin
<1>1. SessionsInv => OwnLogin
  BY DEF SessionsInv, OwnInv, OwnLogin, TypeOK
<1>. QED
  BY <1>1, SessionsInvariant, PTL

\* Roles that an account lost at the provider are gone from its sessions after
\* one lifetime of a session (Service.Callback, UpsertUser).
THEOREM LostRolesAreLost == Spec => []LostRolesExpire
<1>1. SessionsInv => LostRolesExpire
  <2>. SUFFICES ASSUME SessionsInv, NEW k \in Redirect, Live(k),
                       age[k[2]] >= SessionTTL
                PROVE  session[k].user.roles \subseteq Kept(k[2], session[k].user)
    BY DEF LostRolesExpire, Kept
  <2>1. session[k].left \in 1 .. SessionTTL /\ age[k[2]] \in Nat
    BY DEF SessionsInv, TypeOK, ExpiryInv, Redirect
  <2>2. ~(session[k].left + age[k[2]] <= SessionTTL)
    BY <2>1, SessionsAssumption
  <2>. QED
    BY <2>2 DEF SessionsInv, ExpiryInv
<1>. QED
  BY <1>1, SessionsInvariant, PTL

-----------------------------------------------------------------------------
(***************************************************************************)
(* The calls of the directory and those of the store that the tests use.   *)
(***************************************************************************)
LEMMA PatchedUser ==
  ASSUME NEW u \in User
  PROVE  /\ Fake!Patched(u, << >>) = u
         /\ \A rs : Fake!Patched(u, [roles |-> rs]) = [u EXCEPT !.roles = rs]
         /\ \A p \in [super : BOOLEAN] : Fake!Patched(u, p) = [u EXCEPT !.super = p.super]
         /\ \A p \in [super : BOOLEAN, roles : SUBSET Role] :
              Fake!Patched(u, p) = [u EXCEPT !.super = p.super, !.roles = p.roles]
<1>1. /\ u = [id |-> u.id, name |-> u.name, roles |-> u.roles, super |-> u.super]
      /\ DOMAIN u = {"id", "name", "roles", "super"}
  BY DEF User
<1>2. DOMAIN << >> = {}
  OBVIOUS
<1>3. Fake!Patched(u, << >>) = u
  BY <1>1, <1>2 DEF Fake!Patched
<1>4. \A rs : Fake!Patched(u, [roles |-> rs]) = [u EXCEPT !.roles = rs]
  BY <1>1 DEF Fake!Patched
<1>5. \A p \in [super : BOOLEAN] : Fake!Patched(u, p) = [u EXCEPT !.super = p.super]
  BY <1>1 DEF Fake!Patched
<1>6. \A p \in [super : BOOLEAN, roles : SUBSET Role] :
        Fake!Patched(u, p) = [u EXCEPT !.super = p.super, !.roles = p.roles]
  BY <1>1 DEF Fake!Patched
<1>. QED
  BY <1>3, <1>4, <1>5, <1>6

\* The upsert of PostgreSQL and that of the in-memory store.
LEMMA UpsertLikeFake ==
  ASSUME Rows(users), NEW u \in User,
         \/ \E e \in users : e.name = u.name
         \/ ~ \E e \in users : e.id = u.id
  PROVE  UpsertUser(u) \in Fake!UpsertUser(users, u)
<1>1. CASE \E e \in users : e.name = u.name
  <2>1. PICK e \in users : e.name = u.name
    BY <1>1
  <2>. DEFINE patch == IF u.roles = {} THEN << >> ELSE [roles |-> u.roles]
              f(x) == IF x.name = u.name /\ u.roles # {} THEN [x EXCEPT !.roles = u.roles] ELSE x
              g(x) == IF x \in {e} THEN Fake!Patched(x, patch) ELSE x
  <2>2. \A x \in users : f(x) = g(x)
    <3>. SUFFICES ASSUME NEW x \in users PROVE f(x) = g(x)
      OBVIOUS
    <3>1. x \in User /\ (x.name = u.name <=> x = e)
      BY <2>1 DEF Rows
    <3>2. CASE u.roles = {}
      BY <3>1, <3>2, PatchedUser
    <3>3. CASE u.roles # {}
      BY <3>1, <3>3, PatchedUser
    <3>. QED
      BY <3>2, <3>3
  <2>3. UpsertUser(u) = {f(x) : x \in users}
    BY <1>1 DEF UpsertUser
  <2>4. Fake!PatchRows(users, {e}, patch) = {g(x) : x \in users}
    BY DEF Fake!PatchRows
  <2>5. Fake!PatchRows(users, {e}, patch) \in Fake!UpsertUser(users, u)
    BY <2>1 DEF Fake!UpsertUser
  <2>. HIDE DEF f, g
  <2>6. {f(x) : x \in users} = {g(x) : x \in users}
    BY <2>2
  <2>. QED
    BY <2>3, <2>4, <2>5, <2>6
<1>2. CASE ~ \E e \in users : e.name = u.name \/ e.id = u.id
  BY <1>2 DEF UpsertUser, Fake!UpsertUser
<1>. QED
  BY <1>1, <1>2

\* The update of PostgreSQL and that of the in-memory store.
LEMMA UpdateLikeFake ==
  ASSUME Rows(users), NEW id,
         NEW patch \in [super : BOOLEAN] \cup [super : BOOLEAN, roles : SUBSET Role]
  PROVE  UpdateUser(id, patch) = Fake!UpdateUser(users, id, patch)
<1>. DEFINE f(x) == IF x.id # id THEN x
                    ELSE [x EXCEPT !.super = patch.super,
                                   !.roles = IF "roles" \in DOMAIN patch THEN patch.roles ELSE @]
            g(x) == IF x \in {y \in users : y.id = id} THEN Fake!Patched(x, patch) ELSE x
<1>1. \A x \in users : f(x) = g(x)
  <2>. SUFFICES ASSUME NEW x \in users,
                       x.id = id PROVE f(x) = Fake!Patched(x, patch)
    OBVIOUS
  <2>1. x \in User
    BY DEF Rows
  <2>2. CASE patch \in [super : BOOLEAN]
    <3>1. "roles" \notin DOMAIN patch
      BY <2>2
    <3>2. f(x) = [x EXCEPT !.super = patch.super]
      BY <2>1, <3>1 DEF User
    <3>. QED
      BY <2>1, <2>2, <3>2, PatchedUser
  <2>3. CASE patch \in [super : BOOLEAN, roles : SUBSET Role]
    BY <2>1, <2>3, PatchedUser
  <2>. QED
    BY <2>2, <2>3
<1>2. UpdateUser(id, patch) = {f(x) : x \in users}
  BY DEF UpdateUser
<1>3. Fake!UpdateUser(users, id, patch) = {g(x) : x \in users}
  BY DEF Fake!UpdateUser, Fake!PatchRows
<1>. HIDE DEF f, g
<1>. QED
  BY <1>1, <1>2, <1>3

\* What a request does to the directory is what the in-memory store of the
\* tests does, but for the upsert of a renamed user and the deletion of one to
\* whom other rows refer, which PostgreSQL refuses (UpsertUser, CreateUser,
\* UpdateUser, DeleteUser).
THEOREM DirectoryIsLikeFake == Spec => DirectoryLikeFake
<1>. DEFINE Renamed(u) == /\ \E e \in users : e.id = u.id /\ e.name # u.name
                          /\ ~ \E e \in users : e.name = u.name
            Row(c) == [id |-> ManualId, name |-> c.name, roles |-> {}, super |-> c.super]
<1>1. ASSUME SessionsInv, [Next]_vars, NEW r \in Request, req[r] # Idle,
             req'[r] = Idle
      PROVE  \/ Sync(r) \/ Write(r)
             \/ req[r].step \in {"exchange", "open"} /\ users' = users
  <2>1. ASSUME NEW q \in Request, q # r,
               DropState(q) \/ Exchange(q) \/ OpenSession(q) \/ Sync(q) \/ Write(q)
        PROVE  FALSE
    BY <1>1, <2>1 DEF DropState, Exchange, OpenSession, Sync, Write,
       SessionsInv, ShapeInv
  <2>2. ~DropState(r)
    BY <1>1 DEF DropState, SessionsInv, ShapeInv, Idle
  <2>3. Exchange(r) \/ OpenSession(r) =>
          req[r].step \in {"exchange", "open"} /\ users' = users
    BY DEF Exchange, OpenSession, directory
  <2>4. ASSUME NEW q \in Request, NEW b \in Browser, NEW c,
               Callback(q, b, c) \/ Gate(q, b, c)
        PROVE  FALSE
    BY <1>1, <2>4 DEF Callback, Gate, SessionsInv, ShapeInv
  <2>. QED
    BY <1>1, <2>1, <2>2, <2>3, <2>4
       DEF Next, vars, BeginLogin, Authorise, Logout, Refer, ChangeClaims, Tick
<1>2. ASSUME SessionsInv, NEW r \in Request, Sync(r)
      PROVE  /\ req[r].step = "sync"
             /\ \/ users' \in Fake!UpsertUser(users, req[r].user)
                \/ users' = users /\ (StoreFails \/ Renamed(req[r].user))
  <2>1. req[r].step = "sync" /\ req[r].user \in User /\ Rows(users)
    BY <1>2, RowsType DEF Sync, SessionsInv, TypeOK
  <2>2. CASE users' = users /\ StoreFails
    BY <2>1, <2>2
  <2>3. CASE users' = UpsertUser(req[r].user)
    <3>1. CASE Renamed(req[r].user)
      BY <2>1, <2>3, <3>1 DEF UpsertUser
    <3>2. CASE ~Renamed(req[r].user)
      BY <2>1, <2>3, <3>2, UpsertLikeFake
    <3>. QED
      BY <3>1, <3>2
  <2>. QED
    BY <1>2, <2>2, <2>3 DEF Sync
<1>3. ASSUME SessionsInv, NEW r \in Request, Write(r)
      PROVE  LET c == req[r].change
             IN  /\ req[r].step = "write"
                 /\ \/ c.op = "create" /\ users' = Fake!CreateUser(users, Row(c))
                    \/ c.op = "update" /\ users' = Fake!UpdateUser(users, c.id, c.patch)
                    \/ /\ c.op = "delete"
                       /\ users' = IF c.id \in referenced THEN users
                                   ELSE Fake!DeleteUser(users, c.id)
  <2>1. PICK c \in Change : c = req[r].change /\ req[r].step = "write"
    BY <1>3 DEF Write, SessionsInv, ShapeInv, Idle
  <2>2. CASE c.op = "create"
    BY <1>3, <2>1, <2>2 DEF Write, CreateUser, Fake!CreateUser
  <2>3. CASE c.op = "update"
    <3>1. c.patch \in [super : BOOLEAN] \cup [super : BOOLEAN, roles : SUBSET Role]
      BY <2>3 DEF Change
    <3>2. users' = UpdateUser(c.id, c.patch)
      BY <1>3, <2>1, <2>3 DEF Write
    <3>. QED
      BY <1>3, <2>1, <2>3, <3>1, <3>2, RowsType, UpdateLikeFake DEF SessionsInv
  <2>4. CASE c.op = "delete"
    BY <1>3, <2>1, <2>4 DEF Write, DeleteUser, Fake!DeleteUser
  <2>. QED
    BY <2>1, <2>2, <2>3, <2>4 DEF Change
<1>4. ASSUME SessionsInv, [Next]_vars, NEW r \in Request, req[r] # Idle,
             req'[r] = Idle
      PROVE  LikeFake(r)
  <2>. HIDE DEF Row
  <2>1. Row(req[r].change) = [id |-> ManualId, name |-> req[r].change.name,
                              roles |-> {}, super |-> req[r].change.super]
    BY DEF Row
  <2>2. CASE Sync(r)
    BY <1>4, <1>2, <2>2 DEF LikeFake
  <2>3. CASE Write(r)
    BY <1>4, <1>3, <2>1, <2>3 DEF LikeFake
  <2>4. CASE req[r].step \in {"exchange", "open"} /\ users' = users
    BY <2>4 DEF LikeFake
  <2>. QED
    BY <1>1, <1>4, <2>2, <2>3, <2>4
<1>5. SessionsInv /\ [Next]_vars =>
        [\A r \in Request : req[r] # Idle /\ req'[r] = Idle => LikeFake(r)]_vars
  BY <1>4
<1>. QED
  BY <1>5, SessionsInvariant, PTL DEF Spec, DirectoryLikeFake

==============================================================================
