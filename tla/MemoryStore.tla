---------------------------- MODULE MemoryStore ----------------------------
(***************************************************************************)
(* What one call of the store does when nothing else runs: the in-memory   *)
(* store that the backend's tests use in place of PostgreSQL               *)
(* (backend/internal/store/memory.go, catalog_mutations.go).  Every method *)
(* holds the store's mutex from its first read to its last write, so a     *)
(* call is one step; each is an operator from the tables before the call   *)
(* to the tables after it.  A call that the code answers with an error     *)
(* leaves the tables as they are.                                          *)
(*                                                                         *)
(* Slices of rows are sets of records.  A patch has one field per column   *)
(* it may change; a field that is absent is the patch's zero value, which  *)
(* the code takes as "leave this column alone".                            *)
(***************************************************************************)
\* The row r with the columns that the patch sets.
Patched(r, patch) == [c \in DOMAIN r |-> IF c \in DOMAIN patch THEN patch[c] ELSE r[c]]

\* The rows of t that satisfy the predicate "hit", each changed by the patch.
PatchRows(t, hit, patch) == {IF r \in hit THEN Patched(r, patch) ELSE r : r \in t}

-----------------------------------------------------------------------------
\* Users: [id, name, roles, super].  Names and ids are both unique.

CreateUser(users, u) ==
  IF \E e \in users : e.name = u.name \/ e.id = u.id THEN users ELSE users \cup {u}

\* The flag is a bool and always taken from the patch, so every patch has it.
UpdateUser(users, id, patch) == PatchRows(users, {u \in users : u.id = id}, patch)

DeleteUser(users, id) == {u \in users : u.id # id}

\* The set of possible outcomes: when one row has the id and another the name,
\* the one that comes first in the slice is updated.  Roles are kept unless
\* the provider sends some.
UpsertUser(users, u) ==
  LET hit == {e \in users : e.id = u.id \/ e.name = u.name}
      patch == IF u.roles = {} THEN << >> ELSE [roles |-> u.roles]
  IN  IF hit = {} THEN {users \cup {u}} ELSE {PatchRows(users, {e}, patch) : e \in hit}

-----------------------------------------------------------------------------
\* The catalogue of one module: a record of tables [module, versions, entries,
\* pages, teams].  The module is a set of at most one row.

CreateModule(db, m) == IF db.module # {} THEN db ELSE [db EXCEPT !.module = {m}]

\* The creator is not among the columns that a patch may change here.
UpdateModule(db, patch) ==
  LET set == [c \in DOMAIN patch \ {"by"} |-> patch[c]]
  IN  IF db.module = {} THEN db
      ELSE [db EXCEPT !.module = PatchRows(@, @, set),
                      !.pages = IF "cats" \in DOMAIN set
                                THEN PatchRows(@, @, [cats |-> set.cats]) ELSE @]

\* The version called "name" is to be the only default one.
PointTo(db, name) ==
  [db EXCEPT !.versions = {[v EXCEPT !.dflt = (v.name = name)] : v \in @},
             !.module = PatchRows(@, @, [dflt |-> name])]

CreateVersion(db, v) ==
  LET added == [db EXCEPT !.versions = @ \cup {v}]
  IN  IF db.module = {} \/ \E w \in db.versions : w.name = v.name THEN db
      ELSE IF v.dflt THEN PointTo(added, v.name) ELSE added

\* The patch's flag can make the version the default one, never the reverse.
UpdateVersion(db, name, patch) ==
  LET hit == {v \in db.versions : v.name = name}
      patched == [db EXCEPT !.versions = PatchRows(@, hit, [title |-> patch.title])]
  IN  IF hit # {} /\ patch.dflt THEN PointTo(patched, name) ELSE patched

CreateEntry(db, e) ==
  IF db.module = {} \/ \E f \in db.entries : f.ver = e.ver /\ f.key = e.key THEN db
  ELSE [db EXCEPT !.entries = @ \cup {e}]

UpdateEntry(db, id, patch) ==
  [db EXCEPT !.entries = PatchRows(@, {e \in @ : e.id = id}, patch)]

DeleteEntry(db, id) == [db EXCEPT !.entries = {e \in @ : e.id # id}]

\* A deploy of version a.ver to a module that exists, with the new entries and
\* pages in a.  The pages are filed where the module is.
IngestArtifact(db, a) ==
  LET row == CHOOSE m \in db.module : TRUE
      old == {v \in db.versions : v.name = a.ver}
      v == IF old = {} THEN [name |-> a.ver, title |-> a.ver, dflt |-> TRUE]
           ELSE CHOOSE w \in old : TRUE
  IN  PointTo([db EXCEPT !.module = PatchRows(@, @, [name |-> a.name]),
                         !.versions = @ \cup {v},
                         !.entries = {e \in @ : e.ver # a.ver} \cup a.entries,
                         !.pages = {p \in @ : p.ver # a.ver}
                                     \cup {[entry |-> p.entry, ver |-> p.ver, cats |-> row.cats] : p \in a.pages}],
              a.ver)

-----------------------------------------------------------------------------
\* Teams: [key, leaders, members].  Nothing refers to a team but by its key.

\* "Every leader must also be a member", in CreateTeam and UpdateTeam.
LeadersJoin(t) == [t EXCEPT !.members = @ \cup t.leaders]

CreateTeam(teams, t) == IF \E s \in teams : s.key = t.key THEN teams ELSE teams \cup {LeadersJoin(t)}

UpdateTeam(teams, key, patch) ==
  {IF t.key = key THEN LeadersJoin(Patched(t, patch)) ELSE t : t \in teams}

DeleteTeam(teams, key) == {t \in teams : t.key # key}

AddTeamMember(teams, key, u) ==
  {IF t.key = key THEN [t EXCEPT !.members = @ \cup {u}] ELSE t : t \in teams}

RemoveTeamMember(teams, key, u) ==
  {IF t.key = key THEN [t EXCEPT !.members = @ \ {u}] ELSE t : t \in teams}

=============================================================================
