------------------------------ MODULE Sessions ------------------------------
(***************************************************************************)
(* Sign-in through the identity provider, the sessions it opens and the    *)
(* user directory behind them (backend/internal/auth/service.go,           *)
(* session_store.go, the login handlers of api/server.go, the user         *)
(* administration of api/authorization_admin.go, store/postgres_identity). *)
(*                                                                         *)
(* A login begins in a browser with a transaction stored under a random    *)
(* state and the state in a cookie.  The provider answers with a redirect  *)
(* to the callback, which reads the transaction, deletes it, exchanges the *)
(* code, opens a session and copies the identity into the directory, in    *)
(* five steps that other requests interleave with.  A session holds the    *)
(* identity as the provider described it; the routes of the super admin    *)
(* look at that copy, /api/auth/me looks its id up in the directory.       *)
(*                                                                         *)
(* A redirect is the pair of a state and the account that answered; the    *)
(* session it opens is named after it, for a code is exchanged once.       *)
(***************************************************************************)
EXTENDS Naturals, FiniteSets

CONSTANTS
  Browser,     \* cookie jars
  Account,     \* accounts of the provider; the claim that names one is its id
  State,       \* login states; no two transactions draw the same
  Request,     \* callbacks and administrative requests served at one time
  Super,       \* user names listed in SUPER_ADMIN_USERS
  ManualId,    \* the id an administrator's CreateUser draws
  Claims,      \* Claims[a]: what the provider says first: [name, roles]
  Later,       \* Later[a]: what it says once the account has been changed
  StateTTL, SessionTTL,
  MaxAnswers,  \* bound on the redirects that the provider issues
  StoreFails,  \* deletions of transactions may fail
  Changes,     \* the administrative requests that are made
  None

VARIABLES
  begun,        \* begun[s]: the browser that began the login with state s
  txn,          \* txn[s]: time left to the stored transaction, 0 if there is none
  stateCookie,  \* stateCookie[b]
  answers,      \* redirects that the provider has issued
  spent,        \* those whose code was exchanged
  claims,       \* claims[a]: what the provider says of a
  age,          \* age[a]: history: time since a's claims changed, up to SessionTTL
  session,      \* session[k]: the session that redirect k opened: [user, left]
  cookie,       \* cookie[b]: the session cookie of b, a redirect or None
  users,        \* the rows of the table users
  referenced,   \* ids of users that rows of other tables refer to
  req,          \* req[r]: what r asks for and its next step
  shared        \* history: states that two callbacks read before either deleted
                \* them, or whose deletion failed

login == <<begun, txn, stateCookie, answers, spent>>
directory == <<claims, age, users, referenced>>
sessions == <<session, cookie>>
vars == <<login, directory, sessions, req, shared>>

Fake == INSTANCE MemoryStore

Redirect == State \X Account
Role == {"admin", "viewer"}
Id == Account \cup {ManualId}
Name == {Claims[a].name : a \in Account} \cup {Later[a].name : a \in Account}
User == [id : Id, name : Name, roles : SUBSET Role, super : BOOLEAN]

Idle == [step |-> "idle"]
Never == [left |-> 0]                     \* no session was opened
Ended == [left |-> 0, user |-> None]      \* it has expired or was logged out
Live(k) == session[k].left > 0

\* The bodies of POST, PUT and DELETE on /api/admin/users.
Change ==
  [op : {"create"}, name : Name, super : BOOLEAN]
  \cup [op : {"update"}, id : Id, patch : [super : BOOLEAN] \cup [super : BOOLEAN, roles : SUBSET Role]]
  \cup [op : {"delete"}, id : Id]

ASSUME SessionsAssumption ==
  /\ None \notin Account \cup State \cup Request \cup Browser
  /\ None \notin Redirect
  /\ ManualId \notin Account
  /\ StateTTL \in Nat \ {0} /\ SessionTTL \in Nat \ {0}
  /\ MaxAnswers \in Nat
  /\ StoreFails \in BOOLEAN
  /\ Claims \in [Account -> [name : Name, roles : SUBSET Role]]
  /\ Later \in [Account -> [name : Name, roles : SUBSET Role]]
  /\ Changes \subseteq Change

Init ==
  /\ begun = [s \in State |-> None]
  /\ txn = [s \in State |-> 0]
  /\ stateCookie = [b \in Browser |-> None]
  /\ answers = {} /\ spent = {}
  /\ claims = Claims
  /\ age = [a \in Account |-> 0]
  /\ session = [k \in Redirect |-> Never]
  /\ cookie = [b \in Browser |-> None]
  /\ users = {} /\ referenced = {}
  /\ req = [r \in Request |-> Idle]
  /\ shared = {}

-----------------------------------------------------------------------------
\* Signing in.

BeginLogin(b, s) ==
  /\ begun[s] = None
  /\ begun' = [begun EXCEPT ![s] = b]
  /\ txn' = [txn EXCEPT ![s] = StateTTL]
  /\ stateCookie' = [stateCookie EXCEPT ![b] = s]
  /\ UNCHANGED <<answers, spent, directory, sessions, req, shared>>

\* External: somebody signs in at the provider, which sends the browser back.
\* The login page can be reloaded and answered again, by another account too.
Authorise(s, a) ==
  /\ begun[s] # None
  /\ Cardinality(answers) < MaxAnswers
  /\ answers' = answers \cup {<<s, a>>}
  /\ UNCHANGED <<begun, txn, stateCookie, spent, directory, sessions, req, shared>>

\* Mutant: the state is looked up, but not compared with the browser's cookie.
MayCallUncompared(b, s) == txn[s] > 0

\* CompleteLogin up to Get: the state is the cookie's and its transaction is
\* still stored.
MayCall(b, s) == stateCookie[b] = s /\ txn[s] > 0

\* The browser follows a redirect, perhaps not for the first time, and perhaps
\* not the browser that asked for it.
Callback(r, b, k) ==
  /\ req[r] = Idle
  /\ k \in answers
  /\ MayCall(b, k[1])
  /\ req' = [req EXCEPT ![r] = [step |-> "drop", k |-> k, b |-> b]]
  /\ shared' = IF \E q \in Request : req[q].step = "drop" /\ req[q].k[1] = k[1]
               THEN shared \cup {k[1]} ELSE shared
  /\ UNCHANGED <<login, directory, sessions>>

\* Mutant: the transaction is deleted only once the login has succeeded.
DropStateNever(r) ==
  /\ req[r].step = "drop"
  /\ req' = [req EXCEPT ![r].step = "exchange"]
  /\ UNCHANGED <<login, directory, sessions, shared>>

\* The deletion's error is ignored.
DropState(r) ==
  /\ req[r].step = "drop"
  /\ req' = [req EXCEPT ![r].step = "exchange"]
  /\ \/ txn' = [txn EXCEPT ![req[r].k[1]] = 0] /\ UNCHANGED shared
     \/ StoreFails /\ shared' = shared \cup {req[r].k[1]} /\ UNCHANGED txn
  /\ UNCHANGED <<begun, stateCookie, answers, spent, directory, sessions>>

\* Mutant: roles that the provider does not send are taken from the directory.
IdentityMerged(a) ==
  LET row == {u \in users : u.id = a}
      kept == IF claims[a].roles = {} THEN UNION {u.roles : u \in row} ELSE claims[a].roles
  IN  [id |-> a, name |-> claims[a].name, roles |-> kept, super |-> FALSE]

\* fetchUserInfo: what the provider says now, and never the directory's flag.
Identity(a) == [id |-> a, name |-> claims[a].name, roles |-> claims[a].roles, super |-> FALSE]

\* exchangeCode, verifyIDToken and fetchUserInfo.  The provider takes a code
\* once; the callback may fail after that, and the login has to begin anew.
Exchange(r) ==
  LET k == req[r].k
  IN  /\ req[r].step = "exchange"
      /\ \/ /\ k \notin spent
            /\ spent' = spent \cup {k}
            /\ req' = [req EXCEPT ![r] =
                         [step |-> "open", k |-> k, b |-> @.b, user |-> Identity(k[2])]]
         \/ /\ spent' \in {spent, spent \cup {k}}
            /\ req' = [req EXCEPT ![r] = Idle]
      /\ UNCHANGED <<begun, txn, stateCookie, answers, directory, sessions, shared>>

IsSuperAdmin(u) == u.super \/ u.name \in Super

\* The copy in the session only; the directory is given the bare identity.
ApplySuperAdmin(u) == IF IsSuperAdmin(u) THEN [u EXCEPT !.roles = @ \cup {"admin"}] ELSE u

\* CreateSession.  When the session cannot be stored the callback fails.
OpenSession(r) ==
  /\ req[r].step = "open"
  /\ \/ /\ session' = [session EXCEPT ![req[r].k] =
                         [user |-> ApplySuperAdmin(req[r].user), left |-> SessionTTL]]
        /\ req' = [req EXCEPT ![r].step = "sync"]
     \/ /\ StoreFails
        /\ req' = [req EXCEPT ![r] = Idle]
        /\ UNCHANGED session
  /\ UNCHANGED <<login, directory, cookie, shared>>

\* Mutant: roles are replaced although the provider sends none.
UpsertUserAll(u) ==
  IF \E e \in users : e.name = u.name
  THEN {IF e.name = u.name THEN [e EXCEPT !.roles = u.roles] ELSE e : e \in users}
  ELSE IF \E e \in users : e.id = u.id THEN users ELSE users \cup {u}

\* UpsertUser: ON CONFLICT(username).  An id that another name has already
\* fails the statement; the error is swallowed.
UpsertUser(u) ==
  IF \E e \in users : e.name = u.name
  THEN {IF e.name = u.name /\ u.roles # {} THEN [e EXCEPT !.roles = u.roles] ELSE e : e \in users}
  ELSE IF \E e \in users : e.id = u.id THEN users ELSE users \cup {u}

\* handleCallback copies the identity into the directory and answers: the
\* browser takes the session cookie and drops its state cookie, even one that
\* a login begun meanwhile has set.
Sync(r) ==
  /\ req[r].step = "sync"
  /\ \/ users' = UpsertUser(req[r].user)
     \/ StoreFails /\ UNCHANGED users
  /\ cookie' = [cookie EXCEPT ![req[r].b] = req[r].k]
  /\ stateCookie' = [stateCookie EXCEPT ![req[r].b] = None]
  /\ req' = [req EXCEPT ![r] = Idle]
  /\ UNCHANGED <<begun, txn, answers, spent, claims, age, referenced, session, shared>>

\* Logout.  The browser forgets the session even when it cannot be deleted.
Logout(b) ==
  /\ cookie[b] # None
  /\ cookie' = [cookie EXCEPT ![b] = None]
  /\ \/ session' = [session EXCEPT ![cookie[b]] = Ended]
     \/ StoreFails /\ UNCHANGED session
  /\ UNCHANGED <<login, directory, req, shared>>

-----------------------------------------------------------------------------
\* The directory's administration.

\* requireSuperAdmin looks at the session's copy of the identity.
Gate(r, b, c) ==
  /\ req[r] = Idle
  /\ cookie[b] # None /\ Live(cookie[b])
  /\ IsSuperAdmin(session[cookie[b]].user)
  /\ req' = [req EXCEPT ![r] = [step |-> "write", change |-> c]]
  /\ UNCHANGED <<login, directory, sessions, shared>>

\* Mutant: the name is not looked for.
CreateUserUnchecked(u) == IF \E e \in users : e.id = u.id THEN users ELSE users \cup {u}

\* INSERT: an id or a name that is taken is a conflict.
CreateUser(u) ==
  IF \E e \in users : e.name = u.name \/ e.id = u.id THEN users ELSE users \cup {u}

\* SELECT ... FOR UPDATE and UPDATE in one transaction.
UpdateUser(id, patch) ==
  {IF u.id # id THEN u
   ELSE [u EXCEPT !.super = patch.super,
                  !.roles = IF "roles" \in DOMAIN patch THEN patch.roles ELSE @] : u \in users}

\* DELETE: the foreign keys of other tables refuse it (created_by and user_id in
\* store/schema.sql).
DeleteUser(id) == IF id \in referenced THEN users ELSE {u \in users : u.id # id}

Write(r) ==
  LET c == req[r].change
  IN  /\ req[r].step = "write"
      /\ users' = CASE c.op = "create" -> CreateUser([id |-> ManualId, name |-> c.name,
                                                      roles |-> {}, super |-> c.super])
                    [] c.op = "update" -> UpdateUser(c.id, c.patch)
                    [] c.op = "delete" -> DeleteUser(c.id)
      /\ req' = [req EXCEPT ![r] = Idle]
      /\ UNCHANGED <<login, claims, age, referenced, sessions, shared>>

\* A user who is signed in and in the directory reads a page: the view refers to
\* the row, and stays (postgres_analytics.go:100).  A favourite, a recent
\* document, a grant, an app or a module does the same.
Refer(b) ==
  /\ cookie[b] # None /\ Live(cookie[b])
  /\ \E u \in users : /\ u.id = session[cookie[b]].user.id
                     /\ u.id \notin referenced
                     /\ referenced' = referenced \cup {u.id}
  /\ UNCHANGED <<login, claims, age, users, sessions, req, shared>>

-----------------------------------------------------------------------------
\* External: the provider's record of an account is changed.
ChangeClaims(a) ==
  /\ claims[a] # Later[a]
  /\ claims' = [claims EXCEPT ![a] = Later[a]]
  /\ UNCHANGED <<login, age, users, referenced, sessions, req, shared>>

\* Time passes: in units long beside the provider's timeout of 20 seconds, so
\* no callback is between the exchange and its answer.
Tick ==
  /\ \A r \in Request : req[r].step \notin {"open", "sync"}
  /\ \/ \E s \in State : txn[s] > 0
     \/ \E k \in Redirect : Live(k)
  /\ txn' = [s \in State |-> IF txn[s] > 0 THEN txn[s] - 1 ELSE 0]
  /\ session' = [k \in Redirect |->
                   IF session[k].left > 1 THEN [session[k] EXCEPT !.left = @ - 1]
                   ELSE IF session[k].left = 1 THEN Ended ELSE session[k]]
  /\ age' = [a \in Account |->
               IF claims[a] # Claims[a] /\ age[a] < SessionTTL THEN age[a] + 1 ELSE age[a]]
  /\ UNCHANGED <<begun, stateCookie, answers, spent, claims, users, referenced,
                 cookie, req, shared>>

Next ==
  \/ \E b \in Browser, s \in State : BeginLogin(b, s)
  \/ \E s \in State, a \in Account : Authorise(s, a)
  \/ \E r \in Request, b \in Browser, k \in Redirect : Callback(r, b, k)
  \/ \E r \in Request : \/ DropState(r) \/ Exchange(r) \/ OpenSession(r)
                        \/ Sync(r) \/ Write(r)
  \/ \E b \in Browser : Logout(b) \/ Refer(b)
  \/ \E r \in Request, b \in Browser, c \in Changes : Gate(r, b, c)
  \/ \E a \in Account : ChangeClaims(a)
  \/ Tick

Spec == Init /\ [][Next]_vars

-----------------------------------------------------------------------------
\* The types of the variables.  A cookie names a session that was opened, a
\* request past the exchange carries an identity whose code is spent, and what
\* refers to a user finds the row.
TypeOK ==
  /\ begun \in [State -> Browser \cup {None}]
  /\ txn \in [State -> 0 .. StateTTL]
  /\ stateCookie \in [Browser -> State \cup {None}]
  /\ spent \subseteq answers /\ answers \subseteq Redirect
  /\ \A k \in Redirect : Live(k) => /\ session[k] \in [user : User, left : 1 .. SessionTTL]
                                   /\ k \in spent
  /\ \A b \in Browser : cookie[b] # None => cookie[b] \in Redirect /\ session[cookie[b]] # Never
  /\ users \subseteq User
  /\ \A u, v \in users : u.id = v.id \/ u.name = v.name => u = v
  /\ referenced \subseteq {u.id : u \in users}
  /\ \A r \in Request : req[r].step \in {"open", "sync"} =>
        req[r].user \in User /\ req[r].user.id = req[r].k[2] /\ req[r].k \in spent
  /\ shared \subseteq State

\* The transaction is deleted before the code is exchanged, so that a callback
\* that is repeated, or answered again by another account, opens no second
\* session: unless both had read the transaction before either deleted it, or
\* the deletion failed (service.go:155-158).
StateUsedOnce ==
  \A s \in State \ shared : Cardinality({k \in Redirect : k[1] = s /\ session[k] # Never}) <= 1

\* The session a browser holds was opened by the login that this very browser
\* began, and for the account that answered it: a redirect that reaches another
\* browser signs nobody in there (the state cookie, service.go:150-153).
OwnLogin ==
  \A b \in Browser :
    cookie[b] # None =>
      /\ begun[cookie[b][1]] = b
      /\ Live(cookie[b]) => session[cookie[b]].user.id = cookie[b][2]

\* A role that an account has lost at the provider is gone from its sessions
\* after one session lifetime, although the directory keeps it (an empty list
\* of roles leaves the row's roles alone) and logins go on copying between the
\* two (service.go:182, postgres_identity.go:189).
LostRolesExpire ==
  \A k \in Redirect :
    Live(k) /\ age[k[2]] >= SessionTTL =>
      session[k].user.roles \subseteq
        Later[k[2]].roles \cup IF session[k].user.name \in Super THEN {"admin"} ELSE {}

\* What r does to the directory when it ends, beside the in-memory store.
LikeFake(r) ==
  LET c == req[r]
      Renamed == /\ \E u \in users : u.id = c.user.id /\ u.name # c.user.name
                 /\ ~ \E u \in users : u.name = c.user.name
  IN  CASE c.step = "sync" ->
             \/ users' \in Fake!UpsertUser(users, c.user)
             \/ users' = users /\ (StoreFails \/ Renamed)
        [] c.step = "write" /\ c.change.op = "create" ->
             users' = Fake!CreateUser(users, [id |-> ManualId, name |-> c.change.name,
                                              roles |-> {}, super |-> c.change.super])
        [] c.step = "write" /\ c.change.op = "update" ->
             users' = Fake!UpdateUser(users, c.change.id, c.change.patch)
        [] c.step = "write" /\ c.change.op = "delete" ->
             users' = IF c.change.id \in referenced THEN users
                      ELSE Fake!DeleteUser(users, c.change.id)
        [] OTHER -> users' = users

\* What a request does to the directory is what the in-memory store of the
\* tests does, with two exceptions: PostgreSQL refuses the row of a login whose
\* id is in the table under another name, and the login goes on without it; and
\* it refuses to delete a user to whom the row of another table refers, which
\* the in-memory store deletes (postgres_identity.go:173, memory.go:295).
DirectoryLikeFake ==
  [][\A r \in Request : req[r] # Idle /\ req'[r] = Idle => LikeFake(r)]_vars

=============================================================================
