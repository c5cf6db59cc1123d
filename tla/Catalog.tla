------------------------------ MODULE Catalog ------------------------------
(***************************************************************************)
(* The administration of a module, its versions, entries and pages, and of *)
(* the teams that look after it: the handlers of                           *)
(* api/authorization_admin.go over store/postgres_catalog.go,              *)
(* postgres_identity.go and, for the deploys that write the same tables,   *)
(* postgres_ingest.go.                                                     *)
(*                                                                         *)
(* A request passes its gate, reads the row it is about, and later writes  *)
(* back every column of that row, changed or not.  A statement sees what   *)
(* is committed when it begins (READ COMMITTED) and waits for the rows     *)
(* that another transaction has changed; of two transactions that wait for *)
(* each other PostgreSQL aborts one.  Statements between which no other    *)
(* request can come, because the first holds the rows of the others, are   *)
(* one step; what a transaction has changed becomes visible at its end.    *)
(*                                                                         *)
(* The in-memory store that the tests use does each request in one step    *)
(* under a mutex (MemoryStore): here is when PostgreSQL does the same.     *)
(***************************************************************************)
EXTENDS Naturals, FiniteSets

CONSTANTS
  User,         \* who asks: the id and the user name are one here
  Super, Admin, \* users with these roles
  Managed,      \* Managed[u]: the categories under u's managed_categories
  Category,
  Above,        \* Above[c]: c and its ancestors
  Team,         \* Team[c]: the responsible team's key, or None
  Responsible,  \* Responsible[c]: what categoryResponsible answers for c
  Request,      \* requests served at one time
  Asks,         \* what they ask for
  Starts,       \* the tables to start from
  MaxRequests,  \* bound on the requests that are made
  None

ASSUME CatalogAssumption ==
  /\ Super \cup Admin \subseteq User
  /\ \A c \in Category : c \in Above[c] /\ Above[c] \subseteq Category
  /\ MaxRequests \in Nat

\* The rows by their columns, and the tables as a record of sets of them.
IsModule(m) == m = [dflt |-> m.dflt, token |-> m.token, name |-> m.name, owner |-> m.owner,
                    cats |-> m.cats, by |-> m.by]
IsVersion(v) == v = [name |-> v.name, title |-> v.title, dflt |-> v.dflt] /\ v.dflt \in BOOLEAN
IsEntry(e) == e = [id |-> e.id, ver |-> e.ver, key |-> e.key, title |-> e.title]
IsPage(p) == p = [entry |-> p.entry, ver |-> p.ver, cats |-> p.cats]
IsTeam(x) == x = [key |-> x.key, leaders |-> x.leaders, members |-> x.members]

Tables(t) ==
  /\ t = [module |-> t.module, versions |-> t.versions, entries |-> t.entries,
          pages |-> t.pages, teams |-> t.teams]
  /\ \A m \in t.module : IsModule(m)
  /\ \A v \in t.versions : IsVersion(v)
  /\ \A e \in t.entries : IsEntry(e)
  /\ \A p \in t.pages : IsPage(p)
  /\ \A x \in t.teams : IsTeam(x)

\* The keys of the tables: what their unique indexes and the foreign keys of
\* docs_page, docs_entry and docs_version guarantee.  All rows are of the one
\* module.
Keys(t) ==
  /\ \A m, k \in t.module : m = k
  /\ \A v, w \in t.versions : v.name = w.name => v = w
  /\ \A e, f \in t.entries : e.id = f.id => e = f
  /\ \A p \in t.pages : \E e \in t.entries : e.id = p.entry /\ e.ver = p.ver
  /\ \A x, y \in t.teams : x.key = y.key => x = y
  /\ t.module = {} => t.versions = {} /\ t.entries = {} /\ t.pages = {}

\* Pages are where their module is, and one version at most is the default.
Filed(t) == \A m \in t.module : \A p \in t.pages : p.cats = m.cats
Single(t) == \A v, w \in t.versions : v.dflt /\ w.dflt => v = w

\* Entries that are there at the start were numbered before the first request.
ASSUME StartsAssumption ==
  \A t \in Starts : /\ Tables(t) /\ Keys(t) /\ Filed(t) /\ Single(t)
                    /\ \A e \in t.entries : e.id[1] = 0

\* What can be asked for.  A patch never names the key of the row or what the
\* row belongs to.
Legal(a) ==
  /\ a.op \in {"CreateModule", "UpdateModule", "Migrate", "CreateVersion", "UpdateVersion",
               "CreateEntry", "UpdateEntry", "DeleteEntry", "Deploy", "CreateTeam",
               "UpdateTeam", "AddTeamMember", "RemoveTeamMember", "DeleteTeam"}
  /\ a.op = "CreateVersion" => a.dflt \in BOOLEAN
  /\ a.op = "UpdateVersion" => a.patch.dflt \in BOOLEAN
  /\ a.op = "UpdateEntry" => {"id", "ver"} \cap DOMAIN a.patch = {}
  /\ a.op = "CreateTeam" => IsTeam(a.team)
  /\ a.op = "UpdateTeam" => "key" \notin DOMAIN a.patch

ASSUME AsksAssumption == \A a \in Asks : Legal(a)

VARIABLES
  db,     \* the tables: [module, versions, entries, pages, teams]
  call,   \* call[r]: what r asks for, its next step and what it has read
  n,      \* requests that have begun
  alone,  \* history: requests beside which no other has run
  raced   \* history: a default version was decided beside another request,
          \* and none was decided alone since

vars == <<db, call, n, alone, raced>>

Fake == INSTANCE MemoryStore

Idle == [step |-> "idle"]
Active == {r \in Request : call[r] # Idle}
Ask(r) == call[r].ask
The(S) == CHOOSE x \in S : TRUE

Init ==
  /\ db \in Starts
  /\ call = [r \in Request |-> Idle]
  /\ n = 0 /\ alone = {} /\ raced = FALSE

-----------------------------------------------------------------------------
\* The gates.  Each looks at the tables before the request's own reads.

InTeam(u, t) == u \in t.members
IsTeamLeader(u, key) == \E t \in db.teams : t.key = key /\ u \in t.leaders

\* accessibleCategoryIDs: what u's teams are responsible for, and all below.
Accessible(u) ==
  IF u \in Super THEN Category
  ELSE {c \in Category : \E d \in Above[c], t \in db.teams : Team[d] = t.key /\ InTeam(u, t)}

CanManageViaTeam(u, cats) ==
  \E c \in cats, t \in db.teams : Responsible[c] = t.key /\ InTeam(u, t)

RequirePlatform(u, cats) ==
  \/ u \in Super
  \/ u \in Admin /\ cats \cap Managed[u] # {}
  \/ CanManageViaTeam(u, cats)

CanAccessModule(u) ==
  \E m \in db.module : u \in Super \/ m.by = u \/ m.cats \cap Accessible(u) # {}

\* handleMigrateModule: both the platforms it leaves and those it goes to.
CanMigrate(u, cats) ==
  u \in Super \/ \E m \in db.module : /\ u \in Admin
                                      /\ m.cats \cap Managed[u] # {}
                                      /\ cats \cap Managed[u] # {}

\* An entry that is not there is for its handler to miss, whoever asks.
CanEditEntry(u, id) ==
  (\E e \in db.entries : e.id = id) => \E m \in db.module : RequirePlatform(u, m.cats)

Allowed(u, a) ==
  CASE a.op = "CreateModule" -> a.cats # {} /\ RequirePlatform(u, a.cats)
    [] a.op = "UpdateModule" -> /\ CanAccessModule(u)
                                /\ "cats" \in DOMAIN a.patch =>
                                     a.patch.cats # {} /\ a.patch.cats \subseteq Accessible(u)
    [] a.op = "Migrate" -> CanMigrate(u, a.patch.cats)
    [] a.op \in {"CreateVersion", "UpdateVersion", "CreateEntry"} -> CanAccessModule(u)
    [] a.op \in {"UpdateEntry", "DeleteEntry"} -> CanEditEntry(u, a.id)
    [] a.op \in {"CreateTeam", "DeleteTeam"} -> u \in Super
    [] a.op = "UpdateTeam" -> \/ u \in Super
                              \/ IsTeamLeader(u, a.key) /\ \E t \in db.teams : t.key = a.key /\ InTeam(u, t)
    [] a.op \in {"AddTeamMember", "RemoveTeamMember"} -> u \in Super \/ IsTeamLeader(u, a.key)
    [] a.op = "Deploy" -> \E m \in db.module : m.token = a.token

ModuleOps == {"UpdateModule", "Migrate"}
TeamOps == {"UpdateTeam", "AddTeamMember", "RemoveTeamMember"}

\* The step after the gate: most operations read the row they will change; a
\* deploy has read the module with its token.
FirstStep(a) ==
  IF a.op = "Deploy" THEN "lock"
  ELSE IF a.op \in {"CreateModule", "CreateTeam", "DeleteTeam", "DeleteEntry"} THEN "write" ELSE "read"

\* canonicalizeDeployArtifact: the name, and the version of an artifact that
\* has none, are the module's at authentication.
Canonical(a) ==
  LET m == The(db.module)
  IN  [op |-> "Deploy", token |-> a.token, keys |-> a.keys, name |-> m.name,
       ver |-> IF a.ver = None THEN m.dflt ELSE a.ver]

Begin(r, u, a) ==
  /\ call[r] = Idle /\ n < MaxRequests
  /\ Allowed(u, a)
  /\ n' = n + 1
  /\ call' = [call EXCEPT ![r] = [step |-> FirstStep(a), by |-> u, n |-> n + 1,
                                  ask |-> IF a.op = "Deploy" THEN Canonical(a) ELSE a,
                                  seen |-> {}, rows |-> {}, held |-> {}]]
  /\ alone' = IF Active = {} THEN {r} ELSE {}
  /\ UNCHANGED <<db, raced>>

-----------------------------------------------------------------------------
\* Reads.

SetsDefault(a) ==
  \/ a.op = "Deploy"
  \/ a.op = "CreateVersion" /\ a.dflt
  \/ a.op = "UpdateVersion" /\ a.patch.dflt

\* The row that the operation is about; for CreateEntry its version.
Target(a) ==
  CASE a.op \in ModuleOps \cup {"CreateVersion"} -> db.module
    [] a.op \in {"UpdateVersion", "CreateEntry"} -> {v \in db.versions : v.name = a.ver}
    [] a.op = "UpdateEntry" -> {e \in db.entries : e.id = a.id}
    [] a.op \in TeamOps -> {t \in db.teams : t.key = a.key}

\* ErrNotFound when there is none.
Read(r) ==
  /\ call[r].step = "read"
  /\ call' = [call EXCEPT ![r] =
                IF Target(Ask(r)) = {} THEN Idle
                ELSE [@ EXCEPT !.seen = Target(Ask(r)),
                               !.step = IF SetsDefault(Ask(r)) THEN "clear" ELSE "write"]]
  /\ UNCHANGED <<db, n, alone, raced>>

-----------------------------------------------------------------------------
\* Row locks.  A deploy holds the module's row from SELECT ... FOR UPDATE on;
\* a change of the default version holds the versions that it has cleared.

\* Mutant: SELECT without FOR UPDATE.
HoldsModuleNever(q) == FALSE

HoldsModule(q) == call[q] # Idle /\ Ask(q).op = "Deploy" /\ call[q].step # "lock"

HoldsVersion(q, v) == call[q] # Idle /\ v \in call[q].held

\* The requests that r waits for.  INSERTs below the module lock its row for
\* their foreign key, which only FOR UPDATE excludes.
Blockers(r) ==
  LET a == Ask(r)
      module == \/ call[r].step = "lock"
                \/ /\ call[r].step = "write"
                   /\ \/ a.op \in ModuleOps \cup {"CreateVersion", "CreateEntry"}
                      \/ SetsDefault(a)
      versions == CASE call[r].step = "rows" -> call[r].rows \ call[r].held
                    [] call[r].step = "write" /\ a.op = "UpdateVersion" -> {a.ver}
                    [] OTHER -> {}
  IN  {q \in Request \ {r} : \/ module /\ HoldsModule(q)
                             \/ \E v \in versions : HoldsVersion(q, v)}

\* IngestArtifact, SELECT ... FOR UPDATE: it reads the row it has locked.
LockModule(r) ==
  /\ call[r].step = "lock" /\ Blockers(r) = {}
  /\ call' = [call EXCEPT ![r].step = "clear", ![r].seen = db.module]
  /\ UNCHANGED <<db, n, alone, raced>>

\* UPDATE docs_version SET is_default=false: the rows that it sees, however long
\* it will wait for some of them.
Clear(r) ==
  /\ call[r].step = "clear"
  /\ call' = [call EXCEPT ![r].step = IF db.versions = {} THEN "write" ELSE "rows",
                          ![r].rows = {v.name : v \in db.versions}]
  /\ UNCHANGED <<db, n, alone, raced>>

LockRow(r) ==
  /\ call[r].step = "rows"
  /\ \E v \in call[r].rows \ call[r].held :
       /\ \A q \in Request : ~ HoldsVersion(q, v)
       /\ call' = [call EXCEPT ![r].held = @ \cup {v},
                               ![r].step = IF call[r].held \cup {v} = call[r].rows THEN "write" ELSE @]
  /\ UNCHANGED <<db, n, alone, raced>>

-----------------------------------------------------------------------------
\* Writes.  "old" is the row as it was read, "t" the tables as they are now.

\* The row as it was read, with the columns that the patch names.
With(old, patch) == [c \in DOMAIN old |-> IF c \in DOMAIN patch THEN patch[c] ELSE old[c]]

\* Mutant: the pages keep their categories.
UpdateModulePagesKept(t, old, patch) ==
  [t EXCEPT !.module = {[With(old, patch) EXCEPT !.cats = IF "cats" \in DOMAIN patch THEN @ ELSE m.cats]
                          : m \in t.module}]

\* Every column is written back but those of the categories, which are rows
\* of their own and replaced when the patch names some.
UpdateModule(t, old, patch) ==
  [t EXCEPT !.module = {[With(old, patch) EXCEPT !.cats = IF "cats" \in DOMAIN patch THEN @ ELSE m.cats]
                          : m \in t.module},
            !.pages = IF "cats" \in DOMAIN patch THEN {[p EXCEPT !.cats = patch.cats] : p \in @} ELSE @]

\* The rows that the statement saw, and docs_module.default_version.
PointTo(t, rows, name) ==
  [t EXCEPT !.versions = {IF v.name \in rows THEN [v EXCEPT !.dflt = FALSE] ELSE v : v \in @},
            !.module = {[m EXCEPT !.dflt = name] : m \in @}]

\* Mutant: without the transaction, the conflict leaves no default version.
CreateVersionLoose(t, rows, a) ==
  LET v == [name |-> a.ver, title |-> a.ver, dflt |-> a.dflt]
      pointed == IF a.dflt THEN PointTo(t, rows, a.ver) ELSE t
  IN  IF \E w \in t.versions : w.name = a.ver THEN pointed
      ELSE [pointed EXCEPT !.versions = @ \cup {v}]

\* A version that exists is a conflict, which rolls back the rest.
CreateVersion(t, rows, a) ==
  LET v == [name |-> a.ver, title |-> a.ver, dflt |-> a.dflt]
      pointed == IF a.dflt THEN PointTo(t, rows, a.ver) ELSE t
  IN  IF \E w \in t.versions : w.name = a.ver THEN t
      ELSE [pointed EXCEPT !.versions = @ \cup {v}]

\* Mutant: the other versions keep their flags.
UpdateVersionOnly(t, rows, old, patch) ==
  [t EXCEPT !.versions = {IF v.name = old.name
                          THEN [old EXCEPT !.title = patch.title, !.dflt = @ \/ patch.dflt] ELSE v : v \in @},
            !.module = {[m EXCEPT !.dflt = IF patch.dflt THEN old.name ELSE @] : m \in @}]

UpdateVersion(t, rows, old, patch) ==
  LET pointed == IF patch.dflt THEN PointTo(t, rows, old.name) ELSE t
      new == [old EXCEPT !.title = patch.title, !.dflt = @ \/ patch.dflt]
  IN  [pointed EXCEPT !.versions = {IF v.name = old.name THEN new ELSE v : v \in @}]

\* No constraint keeps the key from being there already.
CreateEntry(t, id, a) ==
  [t EXCEPT !.entries = @ \cup {[id |-> id, ver |-> a.ver, key |-> a.key, title |-> a.title]}]

UpdateEntry(t, old, patch) ==
  [t EXCEPT !.entries = {IF e.id = old.id THEN With(old, patch) ELSE e : e \in @}]

\* Mutant: without the foreign key.
DeleteEntryPaged(t, id) == [t EXCEPT !.entries = {e \in @ : e.id # id}]

\* A page of the entry, by its foreign key, fails the statement.
DeleteEntry(t, id) ==
  IF \E p \in t.pages : p.entry = id THEN t
  ELSE [t EXCEPT !.entries = {e \in @ : e.id # id}]

\* The entries and pages that a deploy inserts, under new ids.
NewEntries(k, a) == {[id |-> <<k, key>>, ver |-> a.ver, key |-> key, title |-> key] : key \in a.keys}
NewPages(k, a, cats) == {[entry |-> <<k, key>>, ver |-> a.ver, cats |-> cats] : key \in a.keys}

\* The name comes with the artifact, the owner is written back as it was read
\* under the lock, the token and the categories are not written.
IngestArtifact(t, rows, old, k, a) ==
  LET now == The(t.module)
      known == {v \in t.versions : v.name = a.ver}
      title == IF known = {} THEN a.ver ELSE The(known).title
      pointed == PointTo(t, rows, a.ver)
  IN  [pointed EXCEPT
         !.module = {[m EXCEPT !.name = a.name, !.owner = old.owner] : m \in @},
         !.versions = {v \in @ : v.name # a.ver} \cup {[name |-> a.ver, title |-> title, dflt |-> TRUE]},
         !.entries = {e \in @ : e.ver # a.ver} \cup NewEntries(k, a),
         !.pages = {p \in @ : p.ver # a.ver} \cup NewPages(k, a, now.cats)]

\* CreateTeam and UpdateTeam make every leader a member; AddTeamMember and
\* RemoveTeamMember write the members only.
NormalizeTeam(x) == [x EXCEPT !.members = @ \cup x.leaders]

CreateTeam(t, new) ==
  IF \E x \in t.teams : x.key = new.key THEN t ELSE [t EXCEPT !.teams = @ \cup {NormalizeTeam(new)}]

WriteTeam(t, new) == [t EXCEPT !.teams = {IF x.key = new.key THEN new ELSE x : x \in @}]

WriteMembers(t, key, members) ==
  [t EXCEPT !.teams = {IF x.key = key THEN [x EXCEPT !.members = members] ELSE x : x \in @}]

DeleteTeam(t, key) == [t EXCEPT !.teams = {x \in @ : x.key # key}]

\* (The categories of a request are there; of one that has been deleted since,
\* syncModuleCategories fails and nothing is written.)
CreateModule(t, by, a) ==
  IF t.module # {} THEN t
  ELSE [t EXCEPT !.module = {[dflt |-> "latest", token |-> a.token, name |-> a.name,
                              owner |-> None, cats |-> a.cats, by |-> by]}]

\* The tables after r's last statement.
Effect(r) ==
  LET a == Ask(r)
      old == The(call[r].seen)
      rows == call[r].rows
  IN  CASE a.op = "CreateModule" -> CreateModule(db, call[r].by, a)
        [] a.op \in ModuleOps -> UpdateModule(db, old, a.patch)
        [] a.op = "CreateVersion" -> CreateVersion(db, rows, a)
        [] a.op = "UpdateVersion" -> UpdateVersion(db, rows, old, a.patch)
        [] a.op = "CreateEntry" -> CreateEntry(db, <<call[r].n, a.key>>, a)
        [] a.op = "UpdateEntry" -> UpdateEntry(db, old, a.patch)
        [] a.op = "DeleteEntry" -> DeleteEntry(db, a.id)
        [] a.op = "Deploy" -> IngestArtifact(db, rows, old, call[r].n, a)
        [] a.op = "CreateTeam" -> CreateTeam(db, a.team)
        [] a.op = "UpdateTeam" -> WriteTeam(db, NormalizeTeam(With(old, a.patch)))
        [] a.op = "AddTeamMember" -> WriteMembers(db, a.key, old.members \cup {a.user})
        [] a.op = "RemoveTeamMember" -> WriteMembers(db, a.key, old.members \ {a.user})
        [] a.op = "DeleteTeam" -> DeleteTeam(db, a.key)

DecidesDefault(a) == SetsDefault(a) \/ a.op = "UpdateVersion"

Write(r) ==
  /\ call[r].step = "write" /\ Blockers(r) = {}
  /\ db' = Effect(r)
  /\ call' = [call EXCEPT ![r] = Idle]
  /\ raced' = IF ~ DecidesDefault(Ask(r)) \/ db' = db THEN raced
              ELSE IF r \notin alone THEN raced \/ Ask(r).op # "Deploy"
              ELSE raced /\ ~ SetsDefault(Ask(r))
  /\ UNCHANGED <<n, alone>>

\* PostgreSQL aborts one of two transactions that wait for each other; its
\* handler answers with the error.
Deadlock(r) ==
  /\ call[r] # Idle
  /\ \E q \in Blockers(r) : r \in Blockers(q)
  /\ call' = [call EXCEPT ![r] = Idle]
  /\ UNCHANGED <<db, n, alone, raced>>

\* All requests have been answered and the bound allows no other.
Rest == n = MaxRequests /\ Active = {} /\ UNCHANGED vars

Next ==
  \/ \E r \in Request, u \in User, a \in Asks : Begin(r, u, a)
  \/ \E r \in Request : \/ Read(r) \/ LockModule(r) \/ Clear(r) \/ LockRow(r)
                        \/ Write(r) \/ Deadlock(r)
  \/ Rest

Spec == Init /\ [][Next]_vars

-----------------------------------------------------------------------------
\* What the in-memory store makes of the request r.
Sequential(r) ==
  LET a == Ask(r)
      artifact == [ver |-> a.ver, name |-> a.name, entries |-> NewEntries(call[r].n, a),
                   pages |-> {[entry |-> <<call[r].n, key>>, ver |-> a.ver] : key \in a.keys}]
  IN  CASE a.op = "CreateModule" ->
             Fake!CreateModule(db, [dflt |-> "latest", token |-> a.token, name |-> a.name,
                                    owner |-> None, cats |-> a.cats, by |-> call[r].by])
        [] a.op \in ModuleOps -> Fake!UpdateModule(db, a.patch)
        [] a.op = "CreateVersion" ->
             Fake!CreateVersion(db, [name |-> a.ver, title |-> a.ver, dflt |-> a.dflt])
        [] a.op = "UpdateVersion" -> Fake!UpdateVersion(db, a.ver, a.patch)
        [] a.op = "CreateEntry" ->
             Fake!CreateEntry(db, [id |-> <<call[r].n, a.key>>, ver |-> a.ver, key |-> a.key, title |-> a.title])
        [] a.op = "UpdateEntry" -> Fake!UpdateEntry(db, a.id, a.patch)
        [] a.op = "DeleteEntry" -> Fake!DeleteEntry(db, a.id)
        [] a.op = "Deploy" -> Fake!IngestArtifact(db, artifact)
        [] a.op = "CreateTeam" -> [db EXCEPT !.teams = Fake!CreateTeam(@, a.team)]
        [] a.op = "UpdateTeam" -> [db EXCEPT !.teams = Fake!UpdateTeam(@, a.key, a.patch)]
        [] a.op = "AddTeamMember" -> [db EXCEPT !.teams = Fake!AddTeamMember(@, a.key, a.user)]
        [] a.op = "RemoveTeamMember" -> [db EXCEPT !.teams = Fake!RemoveTeamMember(@, a.key, a.user)]
        [] a.op = "DeleteTeam" -> [db EXCEPT !.teams = Fake!DeleteTeam(@, a.key)]

\* Where PostgreSQL and the in-memory store part without any concurrency: an
\* entry's key that the version has already, an entry for a version that is
\* not there, an entry that has a page, a patch of the module's creator.
Parts(a) ==
  \/ /\ a.op = "CreateEntry"
     /\ \/ \E e \in db.entries : e.ver = a.ver /\ e.key = a.key
        \/ ~ \E v \in db.versions : v.name = a.ver
  \/ a.op = "DeleteEntry" /\ \E p \in db.pages : p.entry = a.id
  \/ a.op \in ModuleOps /\ "by" \in DOMAIN a.patch

-----------------------------------------------------------------------------
\* The types and the keys of the tables, and the steps of the requests.
TypeOK ==
  /\ Tables(db) /\ Keys(db)
  /\ \A r \in Active : /\ call[r].step \in {"read", "lock", "clear", "rows", "write"}
                        /\ call[r].held \subseteq call[r].rows

\* A request beside which no other runs does what the in-memory store does.
\* What the tests show of the one then holds of the other, but for Parts.
QuietIsSequential ==
  [][\A r \in alone :
       call[r] # Idle /\ call'[r] = Idle /\ ~ Parts(Ask(r)) => db' = Sequential(r)]_vars

\* A deploy is one step whatever runs beside it: it takes effect as if it had
\* run at its commit (postgres_ingest.go:22, FOR UPDATE), or is aborted.
IngestIsAtomic ==
  [][\A r \in Active :
       Ask(r).op = "Deploy" /\ call'[r] = Idle =>
         db' = IF Blockers(r) = {} THEN Sequential(r) ELSE db]_vars

\* The pages of a module are filed under the module's categories, although a
\* deploy copies them from the module and an update of the module writes them
\* to the pages that are there (postgres_catalog.go:420, postgres_ingest.go:74).
PagesFiledWithModule == \A m \in db.module : \A p \in db.pages : p.cats = m.cats

\* A module has one default version at most, unless CreateVersion or
\* UpdateVersion decided it beside another request; deploys alone never make
\* two, and whatever decides it alone repairs it (postgres_catalog.go:475).
OneDefault == ~ raced => Cardinality({v \in db.versions : v.dflt}) <= 1

=============================================================================
