--------------------------- MODULE CatalogProofs ---------------------------
(***************************************************************************)
(* Theorems about Catalog, for any users, categories and teams, whatever   *)
(* is asked for, by any number of requests at a time.                      *)
(*                                                                         *)
(* The argument: every write is sound, that is it keeps the columns of the *)
(* rows, their keys and what they belong to (the lemmas on the tables); so *)
(* what a request has read of a row's key and of what the row belongs to   *)
(* stays so, if anything that it read may be stale (Sees).  A deploy       *)
(* that holds the module's row has read it as it is and has cleared every  *)
(* version (LockInv), because whatever else writes the row or adds a       *)
(* version waits for it.  A request that no other has run beside has read  *)
(* the row as it is (QuietInv).  In both cases the write is that of the    *)
(* in-memory store (the lemmas on MemoryStore), and leaves one default     *)
(* version.                                                                *)
(***************************************************************************)
EXTENDS Catalog, FiniteSetTheorems, TLAPS

\* The operations that have no row to read, or lock the one they read.
Unread == {"CreateModule", "CreateTeam", "DeleteTeam", "DeleteEntry", "Deploy"}

\* What r has read is there, and belongs to what it asks for.
Sees(r) ==
  LET a == Ask(r)
      seen == call[r].seen
  IN  /\ a.op \in ModuleOps \cup {"CreateVersion", "Deploy"} =>
           /\ db.module # {} /\ seen # {}
           /\ \A m \in seen : IsModule(m)
      /\ a.op = "UpdateVersion" =>
           /\ seen # {}
           /\ \A v \in seen : IsVersion(v) /\ v.name = a.ver
      /\ a.op = "CreateEntry" => db.module # {}
      /\ a.op = "UpdateEntry" =>
           /\ seen # {}
           /\ \A o \in seen :
                /\ IsEntry(o) /\ o.id = a.id /\ o.id[1] \in 0 .. n
                /\ \A e \in db.entries : e.id = o.id => e.ver = o.ver
                /\ \A q \in Active : o.id[1] # call[q].n
      /\ a.op \in TeamOps =>
           /\ seen # {}
           /\ \A x \in seen : IsTeam(x) /\ x.key = a.key

\* What a request is at each of its steps.
Fits(r) ==
  LET c == call[r]
      a == Ask(r)
  IN  /\ c = [step |-> c.step, by |-> c.by, n |-> c.n, ask |-> c.ask,
              seen |-> c.seen, rows |-> c.rows, held |-> c.held]
      /\ Legal(a)
      /\ c.n \in 1 .. n
      /\ c.step \in {"read", "lock", "clear"} => c.held = {}
      /\ a.op = "Deploy" => c.step # "read" /\ db.module # {}
      /\ c.step = "lock" => a.op = "Deploy"
      /\ c.step = "read" => a.op \notin Unread
      /\ c.step \in {"clear", "rows"} => SetsDefault(a)
      /\ c.step \in {"clear", "rows", "write"} => Sees(r)

\* The requests under way, each with a number of its own.
CallInv ==
  /\ call = [r \in Request |-> call[r]]
  /\ n \in Nat
  /\ \A r \in Active : Fits(r)
  /\ \A q, r \in Active : call[q].n = call[r].n => q = r

\* Entries are numbered by the request that has made them.
IdInv ==
  \A e \in db.entries :
    /\ e.id[1] \in 0 .. n
    /\ \A r \in Active : e.id[1] # call[r].n

\* The versions by name.
Names == {v.name : v \in db.versions}

\* A deploy that holds the module has it for itself: its row is the one that
\* was read, and no version is added.
LockInv ==
  \A r \in Request : HoldsModule(r) =>
    /\ call[r].seen = db.module
    /\ call[r].step \in {"rows", "write"} => call[r].rows = Names
    /\ \A q \in Request : HoldsModule(q) => q = r

\* What a request has read is still so when no other has run.
QuietInv ==
  /\ alone \subseteq Request
  /\ \A r \in alone \cap Active :
       /\ Active = {r}
       /\ call[r].step \in {"clear", "rows", "write"} /\ Ask(r).op \notin Unread
            => call[r].seen = Target(Ask(r))
       /\ call[r].step \in {"rows", "write"} /\ SetsDefault(Ask(r))
            => call[r].rows = Names

\* The invariant.
CatalogInv ==
  /\ TypeOK
  /\ CallInv
  /\ IdInv
  /\ LockInv
  /\ QuietInv
  /\ Filed(db)
  /\ ~raced => Single(db)

-----------------------------------------------------------------------------
(***************************************************************************)
(* The rows.                                                               *)
(***************************************************************************)

\* A row has the columns that it is written with.
LEMMA RowColumns ==
  /\ \A m : IsModule(m) =>
       DOMAIN m = {"dflt", "token", "name", "owner", "cats", "by"}
  /\ \A v : IsVersion(v) => DOMAIN v = {"name", "title", "dflt"}
  /\ \A e : IsEntry(e) => DOMAIN e = {"id", "ver", "key", "title"}
  /\ \A p : IsPage(p) => DOMAIN p = {"entry", "ver", "cats"}
  /\ \A x : IsTeam(x) => DOMAIN x = {"key", "leaders", "members"}
BY DEF IsModule, IsVersion, IsEntry, IsPage, IsTeam

\* Two rows are one when their columns agree.
LEMMA ModuleEq ==
  ASSUME NEW m, NEW k, IsModule(m), IsModule(k), m.dflt = k.dflt,
         m.token = k.token, m.name = k.name, m.owner = k.owner,
         m.cats = k.cats, m.by = k.by
  PROVE  m = k
BY DEF IsModule

\* Likewise of versions.
LEMMA VersionEq ==
  ASSUME NEW v, NEW w, IsVersion(v), IsVersion(w), v.name = w.name,
         v.title = w.title, v.dflt = w.dflt
  PROVE  v = w
BY DEF IsVersion

\* Of entries.
LEMMA EntryEq ==
  ASSUME NEW e, NEW f, IsEntry(e), IsEntry(f), e.id = f.id, e.ver = f.ver,
         e.key = f.key, e.title = f.title
  PROVE  e = f
BY DEF IsEntry

\* A row with a column changed is a row with the others unchanged.
LEMMA ModuleExcept ==
  ASSUME NEW m, IsModule(m), NEW x
  PROVE  /\ IsModule([m EXCEPT !.dflt = x])
         /\ [m EXCEPT !.dflt = x].dflt = x
         /\ [m EXCEPT !.dflt = x].token = m.token
         /\ [m EXCEPT !.dflt = x].name = m.name
         /\ [m EXCEPT !.dflt = x].owner = m.owner
         /\ [m EXCEPT !.dflt = x].cats = m.cats
         /\ [m EXCEPT !.dflt = x].by = m.by
         /\ IsModule([m EXCEPT !.cats = x])
         /\ [m EXCEPT !.cats = x].dflt = m.dflt
         /\ [m EXCEPT !.cats = x].token = m.token
         /\ [m EXCEPT !.cats = x].name = m.name
         /\ [m EXCEPT !.cats = x].owner = m.owner
         /\ [m EXCEPT !.cats = x].cats = x
         /\ [m EXCEPT !.cats = x].by = m.by
BY DEF IsModule

\* Likewise of a version and its flag.
LEMMA VersionExcept ==
  ASSUME NEW v, IsVersion(v), NEW x \in BOOLEAN
  PROVE  /\ IsVersion([v EXCEPT !.dflt = x])
         /\ [v EXCEPT !.dflt = x].name = v.name
         /\ [v EXCEPT !.dflt = x].title = v.title
         /\ [v EXCEPT !.dflt = x].dflt = x
BY DEF IsVersion

\* A row that is written back with a patch has the columns it had, and those
\* that the patch does not name as they were.
LEMMA WithColumns ==
  ASSUME NEW old, NEW patch
  PROVE  /\ DOMAIN With(old, patch) = DOMAIN old
         /\ \A c \in DOMAIN old :
              With(old, patch)[c] = IF c \in DOMAIN patch THEN patch[c] ELSE old[c]
BY DEF With

\* A module that is patched is one.
LEMMA ModuleWith ==
  ASSUME NEW old, IsModule(old), NEW patch PROVE IsModule(With(old, patch))
<1>. DEFINE w == With(old, patch)
<1>1. DOMAIN w = {"dflt", "token", "name", "owner", "cats", "by"}
  BY RowColumns, WithColumns
<1>2. w = [c \in DOMAIN w |-> w[c]]
  BY DEF With
<1>3. IsModule(w)
  <2>. HIDE DEF w
  <2>. QED
    BY <1>1, <1>2 DEF IsModule
<1>. QED
  BY <1>3

\* An entry that is patched is one.
LEMMA EntryWith ==
  ASSUME NEW old, IsEntry(old), NEW patch PROVE IsEntry(With(old, patch))
<1>. DEFINE w == With(old, patch)
<1>1. DOMAIN w = {"id", "ver", "key", "title"}
  BY RowColumns, WithColumns
<1>2. w = [c \in DOMAIN w |-> w[c]]
  BY DEF With
<1>3. IsEntry(w)
  <2>. HIDE DEF w
  <2>. QED
    BY <1>1, <1>2 DEF IsEntry
<1>. QED
  BY <1>3

\* A team that is patched is one.
LEMMA TeamWith ==
  ASSUME NEW old, IsTeam(old), NEW patch PROVE IsTeam(With(old, patch))
<1>. DEFINE w == With(old, patch)
<1>1. DOMAIN w = {"key", "leaders", "members"}
  BY RowColumns, WithColumns
<1>2. w = [c \in DOMAIN w |-> w[c]]
  BY DEF With
<1>3. IsTeam(w)
  <2>. HIDE DEF w
  <2>. QED
    BY <1>1, <1>2 DEF IsTeam
<1>. QED
  BY <1>3

-----------------------------------------------------------------------------
(***************************************************************************)
(* The tables.                                                             *)
(***************************************************************************)

\* The names of the versions of t.
NamesOf(t) == {v.name : v \in t.versions}

\* From t to u no row loses its shape, its key or what it belongs to; entries
\* that are new are numbered k.
Sound(t, u, k) ==
  /\ Tables(u) /\ Keys(u) /\ Filed(u)
  /\ t.module # {} => u.module # {}
  /\ \A e \in u.entries :
       e.id[1] = k \/ \E f \in t.entries : f.id = e.id /\ f.ver = e.ver

\* No change is sound.
LEMMA SoundSame ==
  ASSUME NEW t, Tables(t), Keys(t), Filed(t), NEW k PROVE Sound(t, t, k)
BY DEF Sound

\* The tables are their record.
LEMMA TablesRecord ==
  ASSUME NEW u, NEW M, NEW V, NEW E, NEW P, NEW T,
         DOMAIN u = {"module", "versions", "entries", "pages", "teams"},
         u = [c \in DOMAIN u |-> u[c]], u.module = M, u.versions = V,
         u.entries = E, u.pages = P, u.teams = T
  PROVE  u = [module |-> M, versions |-> V, entries |-> E, pages |-> P, teams |-> T]
OBVIOUS

\* A table that is replaced leaves the others.
LEMMA TablesExcept ==
  ASSUME NEW t, Tables(t), NEW X
  PROVE  /\ [t EXCEPT !.module = X] =
              [module |-> X, versions |-> t.versions, entries |-> t.entries,
               pages |-> t.pages, teams |-> t.teams]
         /\ [t EXCEPT !.versions = X] =
              [module |-> t.module, versions |-> X, entries |-> t.entries,
               pages |-> t.pages, teams |-> t.teams]
         /\ [t EXCEPT !.entries = X] =
              [module |-> t.module, versions |-> t.versions, entries |-> X,
               pages |-> t.pages, teams |-> t.teams]
         /\ [t EXCEPT !.teams = X] =
              [module |-> t.module, versions |-> t.versions, entries |-> t.entries,
               pages |-> t.pages, teams |-> X]
BY DEF Tables

\* Nor do two that are replaced disturb the others.
LEMMA TwoTablesExcept ==
  ASSUME NEW t, Tables(t), NEW X, NEW Y
  PROVE  /\ [t EXCEPT !.versions = X, !.module = Y] =
              [module |-> Y, versions |-> X, entries |-> t.entries,
               pages |-> t.pages, teams |-> t.teams]
         /\ [t EXCEPT !.module = X, !.pages = Y] =
              [module |-> X, versions |-> t.versions, entries |-> t.entries,
               pages |-> Y, teams |-> t.teams]
<1>1. DOMAIN t = {"module", "versions", "entries", "pages", "teams"}
  BY DEF Tables
<1>2. [t EXCEPT !.versions = X, !.module = Y] =
        [module |-> Y, versions |-> X, entries |-> t.entries,
         pages |-> t.pages, teams |-> t.teams]
  <2>. DEFINE u == [t EXCEPT !.versions = X, !.module = Y]
  <2>1. DOMAIN u = {"module", "versions", "entries", "pages", "teams"}
    BY <1>1
  <2>2. /\ u.module = Y /\ u.versions = X /\ u.pages = t.pages
        /\ u.entries = t.entries /\ u.teams = t.teams
    BY <1>1
  <2>3. u = [c \in DOMAIN u |-> u[c]]
    OBVIOUS
  <2>4. u = [module |-> Y, versions |-> X, entries |-> t.entries,
             pages |-> t.pages, teams |-> t.teams]
    <3>. HIDE DEF u
    <3>. QED
      BY <2>1, <2>2, <2>3, TablesRecord
  <2>. QED
    BY <2>4
<1>3. [t EXCEPT !.module = X, !.pages = Y] =
        [module |-> X, versions |-> t.versions, entries |-> t.entries,
         pages |-> Y, teams |-> t.teams]
  <2>. DEFINE u == [t EXCEPT !.module = X, !.pages = Y]
  <2>1. DOMAIN u = {"module", "versions", "entries", "pages", "teams"}
    BY <1>1
  <2>2. /\ u.module = X /\ u.versions = t.versions /\ u.pages = Y
        /\ u.entries = t.entries /\ u.teams = t.teams
    BY <1>1
  <2>3. u = [c \in DOMAIN u |-> u[c]]
    OBVIOUS
  <2>4. u = [module |-> X, versions |-> t.versions, entries |-> t.entries,
             pages |-> Y, teams |-> t.teams]
    <3>. HIDE DEF u
    <3>. QED
      BY <2>1, <2>2, <2>3, TablesRecord
  <2>. QED
    BY <2>4
<1>. QED
  BY <1>2, <1>3

\* PointTo replaces the versions and the module.
LEMMA PointToIs ==
  ASSUME NEW t, Tables(t), NEW rows, NEW name
  PROVE  PointTo(t, rows, name) =
           [module |-> {[m EXCEPT !.dflt = name] : m \in t.module},
            versions |-> {IF v.name \in rows THEN [v EXCEPT !.dflt = FALSE] ELSE v
                            : v \in t.versions},
            entries |-> t.entries, pages |-> t.pages, teams |-> t.teams]
<1>. DEFINE V == {IF v.name \in rows THEN [v EXCEPT !.dflt = FALSE] ELSE v
                    : v \in t.versions}
            M == {[m EXCEPT !.dflt = name] : m \in t.module}
<1>1. PointTo(t, rows, name) = [t EXCEPT !.versions = V, !.module = M]
  BY DEF PointTo, Tables
<1>. HIDE DEF V, M
<1>2. PointTo(t, rows, name) =
        [module |-> M, versions |-> V, entries |-> t.entries,
         pages |-> t.pages, teams |-> t.teams]
  BY <1>1, TwoTablesExcept
<1>. QED
  BY <1>2 DEF V, M

\* A version that is the default one after PointTo is none of those it has cleared.
LEMMA PointToSound ==
  ASSUME NEW t, Tables(t), Keys(t), Filed(t), NEW rows, NEW name, NEW k
  PROVE  /\ Sound(t, PointTo(t, rows, name), k)
         /\ NamesOf(PointTo(t, rows, name)) = NamesOf(t)
         /\ \A v \in PointTo(t, rows, name).versions :
              v.dflt => v.name \notin rows
         /\ PointTo(t, rows, name).entries = t.entries
         /\ PointTo(t, rows, name).pages = t.pages
         /\ PointTo(t, rows, name).teams = t.teams
<1>. DEFINE u == PointTo(t, rows, name)
            f(v) == IF v.name \in rows THEN [v EXCEPT !.dflt = FALSE] ELSE v
            g(m) == [m EXCEPT !.dflt = name]
<1>1. u = [module |-> {g(m) : m \in t.module}, versions |-> {f(v) : v \in t.versions},
           entries |-> t.entries, pages |-> t.pages, teams |-> t.teams]
  BY PointToIs
<1>2. \A v \in t.versions : /\ IsVersion(f(v)) /\ f(v).name = v.name
                            /\ f(v).dflt => v.name \notin rows
  <2>. TAKE v \in t.versions
  <2>1. IsVersion(v)
    BY DEF Tables
  <2>2. CASE v.name \in rows
    BY <2>1, <2>2, VersionExcept
  <2>3. CASE v.name \notin rows
    BY <2>1, <2>3
  <2>. QED
    BY <2>2, <2>3
<1>3. \A m \in t.module : IsModule(g(m)) /\ g(m).cats = m.cats
  <2>. TAKE m \in t.module
  <2>1. IsModule(m)
    BY DEF Tables
  <2>. QED
    BY <2>1, ModuleExcept
<1>. HIDE DEF u, f, g
<1>4. Tables(u)
  BY <1>1, <1>2, <1>3 DEF Tables
<1>5. Keys(u)
  BY <1>1, <1>2, <1>3 DEF Keys
<1>6. Filed(u)
  BY <1>1, <1>3 DEF Filed
<1>7. NamesOf(u) = NamesOf(t)
  BY <1>1, <1>2 DEF NamesOf
<1>8. \A v \in u.versions : v.dflt => v.name \notin rows
  BY <1>1, <1>2
<1>9. Sound(t, u, k)
  BY <1>1, <1>4, <1>5, <1>6 DEF Sound
<1>. QED
  BY <1>1, <1>7, <1>8, <1>9 DEF u

\* UpdateModule files the pages where it puts the module (postgres_catalog.go:420).
LEMMA UpdateModuleSound ==
  ASSUME NEW t, Tables(t), Keys(t), Filed(t), NEW old, IsModule(old),
         NEW patch, NEW k
  PROVE  /\ Sound(t, UpdateModule(t, old, patch), k)
         /\ UpdateModule(t, old, patch).versions = t.versions
<1>. DEFINE u == UpdateModule(t, old, patch)
            g(m) == [With(old, patch) EXCEPT
                       !.cats = IF "cats" \in DOMAIN patch THEN @ ELSE m.cats]
            h(p) == IF "cats" \in DOMAIN patch THEN [p EXCEPT !.cats = patch.cats] ELSE p
<1>1. u = [module |-> {g(m) : m \in t.module}, versions |-> t.versions,
           entries |-> t.entries, pages |-> {h(p) : p \in t.pages}, teams |-> t.teams]
  <2>. DEFINE M == {g(m) : m \in t.module}
              P == {h(p) : p \in t.pages}
  <2>1. u = [t EXCEPT !.module = M, !.pages = P]
    BY DEF UpdateModule, Tables
  <2>. HIDE DEF u, M, P
  <2>2. u = [module |-> M, versions |-> t.versions, entries |-> t.entries,
             pages |-> P, teams |-> t.teams]
    BY <2>1, TwoTablesExcept
  <2>. QED
    BY <2>2 DEF M, P
<1>2. \A m \in t.module :
        /\ IsModule(g(m))
        /\ g(m).cats = IF "cats" \in DOMAIN patch THEN patch.cats ELSE m.cats
  <2>1. IsModule(With(old, patch)) /\ "cats" \in DOMAIN old
    BY ModuleWith, RowColumns
  <2>2. "cats" \in DOMAIN patch => With(old, patch).cats = patch.cats
    BY <2>1, WithColumns
  <2>3. \A x : /\ IsModule([With(old, patch) EXCEPT !.cats = x])
              /\ [With(old, patch) EXCEPT !.cats = x].cats = x
    <3>. DEFINE w == With(old, patch)
    <3>1. IsModule(w)
      BY <2>1
    <3>. HIDE DEF w
    <3>2. ASSUME NEW x
          PROVE  IsModule([w EXCEPT !.cats = x]) /\ [w EXCEPT !.cats = x].cats = x
      BY <3>1, ModuleExcept
    <3>. QED
      BY <3>2 DEF w
  <2>. QED
    BY <2>2, <2>3
<1>3. \A p \in t.pages : /\ IsPage(h(p)) /\ h(p).entry = p.entry /\ h(p).ver = p.ver
                         /\ h(p).cats = IF "cats" \in DOMAIN patch THEN patch.cats ELSE p.cats
  BY DEF Tables, IsPage
<1>. HIDE DEF u, g, h
<1>4. Tables(u)
  BY <1>1, <1>2, <1>3 DEF Tables
<1>5. Keys(u)
  BY <1>1, <1>2, <1>3 DEF Keys
<1>6. Filed(u)
  BY <1>1, <1>2, <1>3 DEF Filed
<1>. QED
  BY <1>1, <1>4, <1>5, <1>6 DEF Sound, u

\* CreateVersion leaves one default version when it has cleared all others.
LEMMA CreateVersionSound ==
  ASSUME NEW t, Tables(t), Keys(t), Filed(t), t.module # {}, NEW rows, NEW a,
         a.dflt \in BOOLEAN, NEW k
  PROVE  LET u == CreateVersion(t, rows, a)
         IN  /\ Sound(t, u, k)
             /\ u # t => /\ a.dflt /\ NamesOf(t) \subseteq rows => Single(u)
                         /\ ~a.dflt /\ Single(t) => Single(u)
<1>. DEFINE v == [name |-> a.ver, title |-> a.ver, dflt |-> a.dflt]
            q == IF a.dflt THEN PointTo(t, rows, a.ver) ELSE t
            u == CreateVersion(t, rows, a)
<1>1. CASE \E w \in t.versions : w.name = a.ver
  BY <1>1, SoundSame DEF CreateVersion
<1>2. CASE ~ \E w \in t.versions : w.name = a.ver
  <2>1. u = [q EXCEPT !.versions = @ \cup {v}]
    BY <1>2 DEF CreateVersion
  <2>2. Sound(t, q, k) /\ NamesOf(q) = NamesOf(t) /\ q.entries = t.entries
    BY PointToSound, SoundSame
  <2>3. a.dflt => \A w \in q.versions : w.dflt => w.name \notin rows
    BY PointToSound
  <2>4. IsVersion(v)
    BY DEF IsVersion
  <2>5. u = [module |-> q.module, versions |-> q.versions \cup {v},
             entries |-> q.entries, pages |-> q.pages, teams |-> q.teams]
    BY <2>1, <2>2 DEF Sound, Tables
  <2>6. \A w \in q.versions : w.name # a.ver
    BY <1>2, <2>2 DEF NamesOf
  <2>7. v.name = a.ver /\ v.dflt = a.dflt
    OBVIOUS
  <2>8. ~a.dflt => q = t
    OBVIOUS
  <2>. HIDE DEF u, q, v
  <2>9. Tables(u)
    BY <2>2, <2>4, <2>5 DEF Sound, Tables
  <2>10. Keys(u)
    BY <2>2, <2>5, <2>6, <2>7 DEF Sound, Keys
  <2>11. Sound(t, u, k)
    BY <2>2, <2>5, <2>9, <2>10 DEF Sound, Filed
  <2>12. a.dflt /\ NamesOf(t) \subseteq rows => Single(u)
    BY <2>2, <2>3, <2>5, <2>7 DEF Single, NamesOf
  <2>13. ~a.dflt /\ Single(t) => Single(u)
    BY <2>5, <2>7, <2>8 DEF Single
  <2>. QED
    BY <2>11, <2>12, <2>13 DEF u
<1>. QED
  BY <1>1, <1>2

\* So does UpdateVersion; when it sets no flag, it writes back that of a row
\* that is there.
LEMMA UpdateVersionSound ==
  ASSUME NEW t, Tables(t), Keys(t), Filed(t), NEW rows, NEW old,
         IsVersion(old),
         NEW patch, patch.dflt \in BOOLEAN, NEW k
  PROVE  LET u == UpdateVersion(t, rows, old, patch)
         IN  /\ Sound(t, u, k)
             /\ NamesOf(u) = NamesOf(t)
             /\ ~patch.dflt => u.module = t.module
             /\ patch.dflt /\ NamesOf(t) \subseteq rows => Single(u)
             /\ ~patch.dflt /\ old \in t.versions /\ Single(t) => Single(u)
<1>. DEFINE new == [old EXCEPT !.title = patch.title, !.dflt = @ \/ patch.dflt]
            q == IF patch.dflt THEN PointTo(t, rows, old.name) ELSE t
            f(v) == IF v.name = old.name THEN new ELSE v
            u == UpdateVersion(t, rows, old, patch)
<1>1. u = [q EXCEPT !.versions = {f(v) : v \in q.versions}]
  BY DEF UpdateVersion
<1>2. Sound(t, q, k) /\ NamesOf(q) = NamesOf(t)
  BY PointToSound, SoundSame
<1>3. patch.dflt => \A w \in q.versions : w.dflt => w.name \notin rows
  BY PointToSound
<1>4. ~patch.dflt => q = t
  OBVIOUS
<1>5. IsVersion(new) /\ new.name = old.name /\ new.dflt = (old.dflt \/ patch.dflt)
  <2>1. DOMAIN old = {"name", "title", "dflt"} /\ old.dflt \in BOOLEAN
    BY RowColumns DEF IsVersion
  <2>2. DOMAIN new = {"name", "title", "dflt"}
    BY <2>1
  <2>3. new.name = old.name /\ new.dflt = (old.dflt \/ patch.dflt)
    BY <2>1
  <2>4. new = [c \in DOMAIN new |-> new[c]]
    OBVIOUS
  <2>5. new.dflt \in BOOLEAN
    BY <2>1, <2>3
  <2>6. IsVersion(new)
    <3>. HIDE DEF new
    <3>. QED
      BY <2>2, <2>4, <2>5 DEF IsVersion
  <2>. QED
    BY <2>3, <2>6
<1>6. \A v \in q.versions : IsVersion(f(v)) /\ f(v).name = v.name
  BY <1>2, <1>5 DEF Sound, Tables
<1>7. \A v \in q.versions : f(v).dflt => v.dflt \/ v.name = old.name
  OBVIOUS
<1>8. ~patch.dflt /\ old \in t.versions => \A v \in q.versions : f(v).dflt => v.dflt
  BY <1>4, <1>5 DEF Keys
<1>. HIDE DEF u, q, f, new
<1>9. u = [module |-> q.module, versions |-> {f(v) : v \in q.versions},
           entries |-> q.entries, pages |-> q.pages, teams |-> q.teams]
  BY <1>1, <1>2, TablesExcept DEF Sound
<1>10. Tables(u)
  BY <1>2, <1>6, <1>9 DEF Sound, Tables
<1>11. Keys(u)
  BY <1>2, <1>6, <1>9 DEF Sound, Keys
<1>12. Sound(t, u, k)
  BY <1>2, <1>9, <1>10, <1>11 DEF Sound, Filed
<1>13. NamesOf(u) = NamesOf(t)
  BY <1>2, <1>6, <1>9 DEF NamesOf
<1>14. patch.dflt /\ NamesOf(t) \subseteq rows => Single(u)
  <2>. SUFFICES ASSUME patch.dflt, NamesOf(t) \subseteq rows,
                       NEW x \in q.versions, NEW y \in q.versions, f(x).dflt, f(y).dflt
                PROVE  f(x) = f(y)
    BY <1>9 DEF Single
  <2>1. x.name = old.name /\ y.name = old.name
    BY <1>2, <1>3, <1>7 DEF NamesOf
  <2>. QED
    BY <1>2, <2>1 DEF Sound, Keys
<1>15. ~patch.dflt /\ old \in t.versions /\ Single(t) => Single(u)
  BY <1>4, <1>8, <1>9 DEF Single
<1>. QED
  BY <1>4, <1>9, <1>12, <1>13, <1>14, <1>15 DEF u

\* E can stand in the place of the entries of t.
EntriesFit(t, E, k) ==
  /\ t.module = {} => E = {}
  /\ \A e \in E : IsEntry(e)
  /\ \A e, f \in E : e.id = f.id => e = f
  /\ \A e \in E : e.id[1] = k \/ \E f \in t.entries : f.id = e.id /\ f.ver = e.ver
  /\ \A p \in t.pages : \E e \in E : e.id = p.entry /\ e.ver = p.ver

\* Entries that fit may take the place of those of t.
LEMMA EntriesSound ==
  ASSUME NEW t, Tables(t), Keys(t), Filed(t), NEW k, NEW E,
         EntriesFit(t, E, k)
  PROVE  /\ Sound(t, [t EXCEPT !.entries = E], k)
         /\ [t EXCEPT !.entries = E].versions = t.versions
         /\ [t EXCEPT !.entries = E].module = t.module
<1>. DEFINE u == [t EXCEPT !.entries = E]
<1>1. u = [module |-> t.module, versions |-> t.versions, entries |-> E,
           pages |-> t.pages, teams |-> t.teams]
  BY TablesExcept
<1>. HIDE DEF u
<1>2. Tables(u)
  BY <1>1 DEF Tables, EntriesFit
<1>3. Keys(u)
  BY <1>1 DEF Keys, EntriesFit
<1>4. Filed(u)
  BY <1>1 DEF Filed
<1>. QED
  BY <1>1, <1>2, <1>3, <1>4 DEF Sound, EntriesFit, u

\* The id of a new entry is new.
LEMMA CreateEntrySound ==
  ASSUME NEW t, Tables(t), Keys(t), Filed(t), t.module # {}, NEW k, NEW key,
         NEW a,
         \A e \in t.entries : e.id[1] # k
  PROVE  /\ Sound(t, CreateEntry(t, <<k, key>>, a), k)
         /\ CreateEntry(t, <<k, key>>, a).versions = t.versions
         /\ CreateEntry(t, <<k, key>>, a).module = t.module
<1>. DEFINE e0 == [id |-> <<k, key>>, ver |-> a.ver, key |-> a.key, title |-> a.title]
            E == t.entries \cup {e0}
<1>1. CreateEntry(t, <<k, key>>, a) = [t EXCEPT !.entries = E]
  BY DEF CreateEntry
<1>2. IsEntry(e0) /\ e0.id = <<k, key>> /\ e0.id[1] = k
  BY DEF IsEntry
<1>. HIDE DEF e0
<1>3. EntriesFit(t, E, k)
  BY <1>2 DEF EntriesFit, Tables, Keys
<1>. HIDE DEF E
<1>4. /\ Sound(t, [t EXCEPT !.entries = E], k)
      /\ [t EXCEPT !.entries = E].versions = t.versions
      /\ [t EXCEPT !.entries = E].module = t.module
  BY <1>3, EntriesSound
<1>. QED
  BY <1>1, <1>4

\* An entry is written back under its id and its version.
LEMMA UpdateEntrySound ==
  ASSUME NEW t, Tables(t), Keys(t), Filed(t), NEW k, NEW old, IsEntry(old),
         NEW patch,
         {"id", "ver"} \cap DOMAIN patch = {},
         \A e \in t.entries : e.id = old.id => e.ver = old.ver
  PROVE  /\ Sound(t, UpdateEntry(t, old, patch), k)
         /\ UpdateEntry(t, old, patch).versions = t.versions
         /\ UpdateEntry(t, old, patch).module = t.module
<1>. DEFINE w == With(old, patch)
            f(e) == IF e.id = old.id THEN w ELSE e
            E == {f(e) : e \in t.entries}
<1>1. UpdateEntry(t, old, patch) = [t EXCEPT !.entries = E]
  BY DEF UpdateEntry
<1>2. IsEntry(w) /\ w.id = old.id /\ w.ver = old.ver
  BY EntryWith, WithColumns, RowColumns
<1>. HIDE DEF w
<1>3. \A e \in t.entries : IsEntry(f(e)) /\ f(e).id = e.id /\ f(e).ver = e.ver
  BY <1>2 DEF Tables
<1>. HIDE DEF f
<1>4. EntriesFit(t, E, k)
  BY <1>3 DEF EntriesFit, Keys
<1>. HIDE DEF E
<1>. QED
  BY <1>1, <1>4, EntriesSound

\* An entry with a page stays.
LEMMA DeleteEntrySound ==
  ASSUME NEW t, Tables(t), Keys(t), Filed(t), NEW k, NEW id
  PROVE  /\ Sound(t, DeleteEntry(t, id), k)
         /\ DeleteEntry(t, id).versions = t.versions
         /\ DeleteEntry(t, id).module = t.module
<1>1. CASE \E p \in t.pages : p.entry = id
  BY <1>1, SoundSame DEF DeleteEntry
<1>2. CASE ~ \E p \in t.pages : p.entry = id
  <2>. DEFINE E == {e \in t.entries : e.id # id}
  <2>1. DeleteEntry(t, id) = [t EXCEPT !.entries = E]
    BY <1>2 DEF DeleteEntry
  <2>2. EntriesFit(t, E, k)
    BY <1>2 DEF EntriesFit, Tables, Keys
  <2>. HIDE DEF E
  <2>. QED
    BY <2>1, <2>2, EntriesSound
<1>. QED
  BY <1>1, <1>2

\* Teams with keys of their own may take the place of those of t.
LEMMA TeamsSound ==
  ASSUME NEW t, Tables(t), Keys(t), Filed(t), NEW k, NEW T,
         \A x \in T : IsTeam(x),
         \A x, y \in T : x.key = y.key => x = y
  PROVE  /\ Sound(t, [t EXCEPT !.teams = T], k)
         /\ [t EXCEPT !.teams = T].versions = t.versions
         /\ [t EXCEPT !.teams = T].module = t.module
<1>. DEFINE u == [t EXCEPT !.teams = T]
<1>1. u = [module |-> t.module, versions |-> t.versions, entries |-> t.entries,
           pages |-> t.pages, teams |-> T]
  BY TablesExcept
<1>. HIDE DEF u
<1>2. Tables(u)
  BY <1>1 DEF Tables
<1>3. Keys(u)
  BY <1>1 DEF Keys
<1>4. Filed(u)
  BY <1>1 DEF Filed
<1>. QED
  BY <1>1, <1>2, <1>3, <1>4 DEF Sound, u

\* NormalizeTeam adds the leaders to the members.
LEMMA NormalizeTeamIs ==
  ASSUME NEW x, IsTeam(x)
  PROVE  /\ IsTeam(NormalizeTeam(x)) /\ NormalizeTeam(x).key = x.key
         /\ NormalizeTeam(x).leaders = x.leaders
         /\ NormalizeTeam(x).members = x.members \cup x.leaders
<1>1. NormalizeTeam(x) = [x EXCEPT !.members = x.members \cup x.leaders]
  BY DEF NormalizeTeam
<1>2. NormalizeTeam(x) = [key |-> x.key, leaders |-> x.leaders,
                          members |-> x.members \cup x.leaders]
  BY <1>1 DEF IsTeam
<1>. QED
  BY <1>2 DEF IsTeam

\* CreateTeam refuses a key that is there.
LEMMA CreateTeamSound ==
  ASSUME NEW t, Tables(t), Keys(t), Filed(t), NEW k, NEW new, IsTeam(new)
  PROVE  /\ Sound(t, CreateTeam(t, new), k)
         /\ CreateTeam(t, new).versions = t.versions
         /\ CreateTeam(t, new).module = t.module
<1>1. CASE \E x \in t.teams : x.key = new.key
  BY <1>1, SoundSame DEF CreateTeam
<1>2. CASE ~ \E x \in t.teams : x.key = new.key
  <2>. DEFINE T == t.teams \cup {NormalizeTeam(new)}
  <2>1. CreateTeam(t, new) = [t EXCEPT !.teams = T]
    BY <1>2 DEF CreateTeam
  <2>2. (\A x \in T : IsTeam(x)) /\ (\A x, y \in T : x.key = y.key => x = y)
    BY <1>2, NormalizeTeamIs DEF Tables, Keys
  <2>. HIDE DEF T
  <2>. QED
    BY <2>1, <2>2, TeamsSound
<1>. QED
  BY <1>1, <1>2

\* WriteTeam replaces the team with the key.
LEMMA WriteTeamSound ==
  ASSUME NEW t, Tables(t), Keys(t), Filed(t), NEW k, NEW new, IsTeam(new)
  PROVE  /\ Sound(t, WriteTeam(t, new), k)
         /\ WriteTeam(t, new).versions = t.versions
         /\ WriteTeam(t, new).module = t.module
<1>. DEFINE T == {IF x.key = new.key THEN new ELSE x : x \in t.teams}
<1>1. WriteTeam(t, new) = [t EXCEPT !.teams = T]
  BY DEF WriteTeam
<1>2. (\A x \in T : IsTeam(x)) /\ (\A x, y \in T : x.key = y.key => x = y)
  BY DEF Tables, Keys
<1>. HIDE DEF T
<1>. QED
  BY <1>1, <1>2, TeamsSound

\* WriteMembers leaves the other columns of the team.
LEMMA WriteMembersSound ==
  ASSUME NEW t, Tables(t), Keys(t), Filed(t), NEW k, NEW key, NEW members
  PROVE  /\ Sound(t, WriteMembers(t, key, members), k)
         /\ WriteMembers(t, key, members).versions = t.versions
         /\ WriteMembers(t, key, members).module = t.module
<1>. DEFINE f(x) == IF x.key = key THEN [x EXCEPT !.members = members] ELSE x
            T == {f(x) : x \in t.teams}
<1>1. WriteMembers(t, key, members) = [t EXCEPT !.teams = T]
  BY DEF WriteMembers
<1>2. \A x \in t.teams : IsTeam(f(x)) /\ f(x).key = x.key
  BY DEF Tables, IsTeam
<1>. HIDE DEF f
<1>3. (\A x \in T : IsTeam(x)) /\ (\A x, y \in T : x.key = y.key => x = y)
  BY <1>2 DEF Keys
<1>. HIDE DEF T
<1>. QED
  BY <1>1, <1>3, TeamsSound

\* DeleteTeam leaves the other teams.
LEMMA DeleteTeamSound ==
  ASSUME NEW t, Tables(t), Keys(t), Filed(t), NEW k, NEW key
  PROVE  /\ Sound(t, DeleteTeam(t, key), k)
         /\ DeleteTeam(t, key).versions = t.versions
         /\ DeleteTeam(t, key).module = t.module
<1>. DEFINE T == {x \in t.teams : x.key # key}
<1>1. DeleteTeam(t, key) = [t EXCEPT !.teams = T]
  BY DEF DeleteTeam
<1>2. (\A x \in T : IsTeam(x)) /\ (\A x, y \in T : x.key = y.key => x = y)
  BY DEF Tables, Keys
<1>. HIDE DEF T
<1>. QED
  BY <1>1, <1>2, TeamsSound

\* CreateModule refuses a module that is there.
LEMMA CreateModuleSound ==
  ASSUME NEW t, Tables(t), Keys(t), Filed(t), NEW k, NEW by, NEW a
  PROVE  /\ Sound(t, CreateModule(t, by, a), k)
         /\ CreateModule(t, by, a).versions = t.versions
         /\ t.module # {} => CreateModule(t, by, a) = t
<1>1. CASE t.module # {}
  BY <1>1, SoundSame DEF CreateModule
<1>2. CASE t.module = {}
  <2>. DEFINE m == [dflt |-> "latest", token |-> a.token, name |-> a.name,
                    owner |-> None, cats |-> a.cats, by |-> by]
              u == CreateModule(t, by, a)
  <2>1. u = [t EXCEPT !.module = {m}]
    BY <1>2 DEF CreateModule
  <2>2. IsModule(m)
    BY DEF IsModule
  <2>. HIDE DEF u, m
  <2>3. u = [module |-> {m}, versions |-> t.versions, entries |-> t.entries,
             pages |-> t.pages, teams |-> t.teams]
    BY <2>1, TablesExcept
  <2>4. Tables(u)
    BY <2>2, <2>3 DEF Tables
  <2>5. Keys(u)
    BY <1>2, <2>3 DEF Keys
  <2>6. Filed(u)
    BY <1>2, <2>3 DEF Filed, Keys
  <2>. QED
    BY <1>2, <2>3, <2>4, <2>5, <2>6 DEF Sound, u
<1>. QED
  BY <1>1, <1>2

\* The title that a version keeps.
TitleIn(t, name) ==
  LET known == {v \in t.versions : v.name = name}
  IN  IF known = {} THEN name ELSE The(known).title

\* The row of a module under a new name and owner.
Rename(m, x, y) == [m EXCEPT !.name = x, !.owner = y]

\* A module under a new name has its other columns.
LEMMA Renamed ==
  ASSUME NEW m, IsModule(m), NEW x, NEW y
  PROVE  /\ IsModule(Rename(m, x, y))
         /\ Rename(m, x, y).dflt = m.dflt
         /\ Rename(m, x, y).token = m.token
         /\ Rename(m, x, y).name = x
         /\ Rename(m, x, y).owner = y
         /\ Rename(m, x, y).cats = m.cats
         /\ Rename(m, x, y).by = m.by
<1>. DEFINE w == Rename(m, x, y)
<1>1. DOMAIN m = {"dflt", "token", "name", "owner", "cats", "by"}
  BY RowColumns
<1>2. DOMAIN w = {"dflt", "token", "name", "owner", "cats", "by"}
  BY <1>1 DEF Rename
<1>3. /\ w.cats = m.cats /\ w.dflt = m.dflt /\ w.token = m.token
      /\ w.name = x /\ w.owner = y /\ w.by = m.by
  BY <1>1 DEF Rename
<1>4. w = [c \in DOMAIN w |-> w[c]]
  BY DEF Rename
<1>5. IsModule(w)
  <2>. HIDE DEF w
  <2>. QED
    BY <1>2, <1>4 DEF IsModule
<1>. QED
  BY <1>3, <1>5

\* The tables after a deploy of a, in terms of those with the default version
\* moved (q) and of the module's categories.
Ingested(t, q, old, k, a, cats) ==
  [module |-> {Rename(m, a.name, old.owner) : m \in q.module},
   versions |-> {v \in q.versions : v.name # a.ver}
     \cup {[name |-> a.ver, title |-> TitleIn(t, a.ver), dflt |-> TRUE]},
   entries |-> {e \in q.entries : e.ver # a.ver} \cup NewEntries(k, a),
   pages |-> {p \in q.pages : p.ver # a.ver} \cup NewPages(k, a, cats),
   teams |-> q.teams]

\* IngestArtifact, table by table.
LEMMA IngestIs ==
  ASSUME NEW t, Tables(t), Keys(t), NEW rows, NEW old, NEW k, NEW a, NEW now,
         t.module = {now}, NEW q, q = PointTo(t, rows, a.ver)
  PROVE  IngestArtifact(t, rows, old, k, a) = Ingested(t, q, old, k, a, now.cats)
<1>. DEFINE title == TitleIn(t, a.ver)
            M == {Rename(m, a.name, old.owner) : m \in q.module}
            V == {v \in q.versions : v.name # a.ver}
                   \cup {[name |-> a.ver, title |-> title, dflt |-> TRUE]}
            E == {e \in q.entries : e.ver # a.ver} \cup NewEntries(k, a)
            P == {p \in q.pages : p.ver # a.ver} \cup NewPages(k, a, now.cats)
            u == [q EXCEPT !.module = M, !.versions = V, !.entries = E, !.pages = P]
<1>1. The(t.module) = now
  BY DEF The
<1>2. IngestArtifact(t, rows, old, k, a) = u
  BY <1>1 DEF IngestArtifact, TitleIn, Rename
<1>3. DOMAIN q = {"module", "versions", "entries", "pages", "teams"}
  BY PointToIs
<1>. HIDE DEF M, V, E, P
<1>4. DOMAIN u = {"module", "versions", "entries", "pages", "teams"}
  BY <1>3
<1>5. /\ u.module = M /\ u.versions = V /\ u.entries = E /\ u.pages = P
      /\ u.teams = q.teams
  BY <1>3
<1>6. u = [c \in DOMAIN u |-> u[c]]
  OBVIOUS
<1>7. u = [module |-> M, versions |-> V, entries |-> E, pages |-> P, teams |-> q.teams]
  <2>. HIDE DEF u
  <2>. QED
    BY <1>4, <1>5, <1>6, TablesRecord
<1>. QED
  BY <1>2, <1>7 DEF M, V, E, P, Ingested

\* A deploy replaces the entries and the pages of its version together, and
\* files the pages where the module is (postgres_ingest.go:74).
LEMMA IngestSound ==
  ASSUME NEW t, Tables(t), Keys(t), Filed(t), NEW rows, NEW old, NEW k, NEW a,
         t.module # {}, \A e \in t.entries : e.id[1] # k
  PROVE  /\ Sound(t, IngestArtifact(t, rows, old, k, a), k)
         /\ NamesOf(t) \subseteq rows => Single(IngestArtifact(t, rows, old, k, a))
<1>1. PICK now : t.module = {now}
  BY DEF Keys
<1>. PICK q : q = PointTo(t, rows, a.ver)
  OBVIOUS
<1>. DEFINE v0 == [name |-> a.ver, title |-> TitleIn(t, a.ver), dflt |-> TRUE]
            g(m) == Rename(m, a.name, old.owner)
            u == IngestArtifact(t, rows, old, k, a)
<1>2. u = [module |-> {g(m) : m \in q.module},
           versions |-> {v \in q.versions : v.name # a.ver} \cup {v0},
           entries |-> {e \in q.entries : e.ver # a.ver} \cup NewEntries(k, a),
           pages |-> {p \in q.pages : p.ver # a.ver} \cup NewPages(k, a, now.cats),
           teams |-> q.teams]
  <2>1. u = Ingested(t, q, old, k, a, now.cats)
    BY <1>1, IngestIs
  <2>. QED
    BY <2>1 DEF Ingested
<1>3. /\ Sound(t, q, k) /\ NamesOf(q) = NamesOf(t)
      /\ \A v \in q.versions : v.dflt => v.name \notin rows
      /\ q.entries = t.entries /\ q.pages = t.pages /\ q.teams = t.teams
  BY PointToSound
<1>4. IsVersion(v0) /\ v0.name = a.ver
  BY DEF IsVersion
<1>5. \A m \in q.module : IsModule(g(m)) /\ g(m).cats = m.cats
  <2>. TAKE m \in q.module
  <2>1. IsModule(m)
    BY <1>3 DEF Sound, Tables
  <2>. QED
    BY <2>1, Renamed
<1>6. \A m \in q.module : m.cats = now.cats
  <2>1. q.module = {[m EXCEPT !.dflt = a.ver] : m \in t.module}
    BY PointToIs
  <2>2. IsModule(now)
    BY <1>1 DEF Tables
  <2>3. \A m \in t.module : [m EXCEPT !.dflt = a.ver].cats = now.cats
    BY <1>1, <2>2, ModuleExcept
  <2>. QED
    BY <2>1, <2>3
<1>7. \A e \in NewEntries(k, a) :
        /\ IsEntry(e) /\ e.ver = a.ver /\ e.id[1] = k /\ e.id[2] \in a.keys
        /\ e.id = <<k, e.id[2]>> /\ e.key = e.id[2] /\ e.title = e.id[2]
  BY DEF NewEntries, IsEntry
<1>8. \A p \in NewPages(k, a, now.cats) :
        /\ IsPage(p) /\ p.ver = a.ver /\ p.cats = now.cats
        /\ \E e \in NewEntries(k, a) : e.id = p.entry
  <2>. TAKE p \in NewPages(k, a, now.cats)
  <2>1. PICK key \in a.keys : p = [entry |-> <<k, key>>, ver |-> a.ver, cats |-> now.cats]
    BY DEF NewPages
  <2>. DEFINE e == [id |-> <<k, key>>, ver |-> a.ver, key |-> key, title |-> key]
  <2>2. e \in NewEntries(k, a) /\ e.id = p.entry
    BY <2>1 DEF NewEntries
  <2>. QED
    BY <2>1, <2>2 DEF IsPage
<1>9. \A e, f \in NewEntries(k, a) : e.id = f.id => e = f
  BY <1>7, EntryEq
<1>. HIDE DEF u, v0, g
<1>10. Tables(u)
  BY <1>2, <1>3, <1>4, <1>5, <1>7, <1>8 DEF Sound, Tables
<1>11. Keys(u)
  <2>1. \A m, l \in u.module : m = l
    BY <1>2, <1>3 DEF Sound, Keys
  <2>2. \A v, w \in u.versions : v.name = w.name => v = w
    BY <1>2, <1>3, <1>4 DEF Sound, Keys
  <2>3. \A e, f \in u.entries : e.id = f.id => e = f
    BY <1>2, <1>3, <1>7, <1>9 DEF Keys
  <2>4. \A p \in u.pages : \E e \in u.entries : e.id = p.entry /\ e.ver = p.ver
    BY <1>2, <1>3, <1>7, <1>8 DEF Keys
  <2>5. \A x, y \in u.teams : x.key = y.key => x = y
    BY <1>2, <1>3 DEF Keys
  <2>6. u.module # {}
    BY <1>2, <1>3 DEF Sound
  <2>. QED
    BY <2>1, <2>2, <2>3, <2>4, <2>5, <2>6 DEF Keys
<1>12. Filed(u)
  BY <1>1, <1>2, <1>3, <1>5, <1>6, <1>8 DEF Filed
<1>13. Sound(t, u, k)
  BY <1>2, <1>3, <1>7, <1>10, <1>11, <1>12 DEF Sound
<1>14. NamesOf(t) \subseteq rows => Single(u)
  BY <1>2, <1>3 DEF Single, NamesOf
<1>. QED
  BY <1>13, <1>14 DEF u

-----------------------------------------------------------------------------
(***************************************************************************)
(* The writes.                                                             *)
(***************************************************************************)

\* The row of a set that has one.
LEMMA TheIn == ASSUME NEW S, S # {} PROVE The(S) \in S
BY DEF The

\* What the write of r leaves of the tables, of the row that a deploy holds,
\* and of the default version.
Effective(r, u) ==
  /\ Sound(db, u, call[r].n)
  /\ (\E q \in Request \ {r} : HoldsModule(q)) => u.module = db.module /\ NamesOf(u) = Names
  /\ SetsDefault(Ask(r)) /\ call[r].rows = Names /\ u # db => Single(u)
  /\ /\ ~SetsDefault(Ask(r)) /\ Single(db)
     /\ Ask(r).op = "UpdateVersion" => The(call[r].seen) \in db.versions
     => Single(u)

\* Of a module that is held by a deploy neither the row nor the versions are
\* written, but for the flags and titles of some.
LEMMA HeldOps ==
  ASSUME CallInv, NEW r \in Active, call[r].step = "write", Blockers(r) = {},
         NEW q \in Request \ {r}, HoldsModule(q)
  PROVE  /\ db.module # {}
         /\ Ask(r).op \notin ModuleOps \cup {"CreateVersion", "CreateEntry"}
         /\ ~SetsDefault(Ask(r))
<1>1. q \in Active /\ Ask(q).op = "Deploy"
  BY DEF HoldsModule, Active
<1>2. db.module # {}
  BY <1>1 DEF CallInv, Fits
<1>3. q \notin Blockers(r)
  OBVIOUS
<1>. QED
  BY <1>2, <1>3 DEF Blockers

\* A write that leaves the module and the versions.
LEMMA Besides ==
  ASSUME NEW r \in Active, NEW u, Sound(db, u, call[r].n),
         ~SetsDefault(Ask(r)),
         u.versions = db.versions,
         (\E q \in Request \ {r} : HoldsModule(q)) => u.module = db.module
  PROVE  Effective(r, u)
BY DEF Effective, NamesOf, Names, Single

\* So of every write, one case for each operation.
LEMMA EffectIs ==
  ASSUME TypeOK, CallInv, IdInv, LockInv, Filed(db), NEW r \in Active,
         call[r].step = "write", Blockers(r) = {}
  PROVE  Effective(r, Effect(r))
<1>. DEFINE a == Ask(r)
            k == call[r].n
            old == The(call[r].seen)
            rows == call[r].rows
            u == Effect(r)
            held == \E q \in Request \ {r} : HoldsModule(q)
<1>. USE DEF TypeOK
<1>0. Legal(a) /\ Sees(r) /\ (a.op = "Deploy" => db.module # {})
  BY DEF CallInv, Fits
<1>1. held => /\ db.module # {}
              /\ a.op \notin ModuleOps \cup {"CreateVersion", "CreateEntry"}
              /\ ~SetsDefault(a)
  BY HeldOps
<1>2. \A e \in db.entries : e.id[1] # k
  BY DEF IdInv
<1>3. CASE a.op = "CreateModule"
  <2>1. u = CreateModule(db, call[r].by, a)
    BY <1>3 DEF Effect, ModuleOps
  <2>2. /\ Sound(db, u, k) /\ u.versions = db.versions
        /\ held => u.module = db.module
    BY <1>1, <2>1, CreateModuleSound
  <2>. QED
    BY <1>3, <2>2, Besides DEF SetsDefault
<1>4. CASE a.op \in ModuleOps
  <2>1. u = UpdateModule(db, old, a.patch)
    BY <1>4 DEF Effect, ModuleOps
  <2>2. IsModule(old)
    BY <1>0, <1>4, TheIn DEF Sees
  <2>3. Sound(db, u, k) /\ u.versions = db.versions
    BY <2>1, <2>2, UpdateModuleSound
  <2>. QED
    BY <1>1, <1>4, <2>3, Besides DEF SetsDefault, ModuleOps
<1>5. CASE a.op = "CreateVersion"
  <2>1. u = CreateVersion(db, rows, a)
    BY <1>5 DEF Effect, ModuleOps
  <2>2. db.module # {} /\ a.dflt \in BOOLEAN /\ SetsDefault(a) = a.dflt
    BY <1>0, <1>5 DEF Sees, Legal, SetsDefault
  <2>3. /\ Sound(db, u, k)
        /\ u # db => /\ a.dflt /\ NamesOf(db) \subseteq rows => Single(u)
                     /\ ~a.dflt /\ Single(db) => Single(u)
    BY <2>1, <2>2, CreateVersionSound
  <2>4. NamesOf(db) = Names
    BY DEF NamesOf, Names
  <2>. QED
    BY <1>1, <1>5, <2>2, <2>3, <2>4 DEF Effective
<1>6. CASE a.op = "UpdateVersion"
  <2>1. u = UpdateVersion(db, rows, old, a.patch)
    BY <1>6 DEF Effect, ModuleOps
  <2>2. IsVersion(old) /\ a.patch.dflt \in BOOLEAN /\ SetsDefault(a) = a.patch.dflt
    BY <1>0, <1>6, TheIn DEF Sees, Legal, SetsDefault
  <2>3. /\ Sound(db, u, k) /\ NamesOf(u) = NamesOf(db)
        /\ ~a.patch.dflt => u.module = db.module
        /\ a.patch.dflt /\ NamesOf(db) \subseteq rows => Single(u)
        /\ ~a.patch.dflt /\ old \in db.versions /\ Single(db) => Single(u)
    BY <2>1, <2>2, UpdateVersionSound
  <2>4. NamesOf(db) = Names
    BY DEF NamesOf, Names
  <2>. QED
    BY <1>1, <1>6, <2>2, <2>3, <2>4 DEF Effective
<1>7. CASE a.op = "CreateEntry"
  <2>1. u = CreateEntry(db, <<k, a.key>>, a)
    BY <1>7 DEF Effect, ModuleOps
  <2>2. db.module # {}
    BY <1>0, <1>7 DEF Sees
  <2>3. Sound(db, u, k) /\ u.versions = db.versions
    BY <1>2, <2>1, <2>2, CreateEntrySound
  <2>. QED
    BY <1>1, <1>7, <2>3, Besides DEF SetsDefault
<1>8. CASE a.op = "UpdateEntry"
  <2>1. u = UpdateEntry(db, old, a.patch)
    BY <1>8 DEF Effect, ModuleOps
  <2>2. /\ IsEntry(old) /\ \A e \in db.entries : e.id = old.id => e.ver = old.ver
        /\ {"id", "ver"} \cap DOMAIN a.patch = {}
    BY <1>0, <1>8, TheIn DEF Sees, Legal
  <2>3. Sound(db, u, k) /\ u.versions = db.versions /\ u.module = db.module
    BY <2>1, <2>2, UpdateEntrySound
  <2>. QED
    BY <1>8, <2>3, Besides DEF SetsDefault
<1>9. CASE a.op = "DeleteEntry"
  <2>1. u = DeleteEntry(db, a.id)
    BY <1>9 DEF Effect, ModuleOps
  <2>2. Sound(db, u, k) /\ u.versions = db.versions /\ u.module = db.module
    BY <2>1, DeleteEntrySound
  <2>. QED
    BY <1>9, <2>2, Besides DEF SetsDefault
<1>10. CASE a.op = "Deploy"
  <2>1. u = IngestArtifact(db, rows, old, k, a)
    BY <1>10 DEF Effect, ModuleOps
  <2>2. Sound(db, u, k) /\ (NamesOf(db) \subseteq rows => Single(u))
    BY <1>0, <1>2, <1>10, <2>1, IngestSound
  <2>3. NamesOf(db) = Names /\ SetsDefault(a)
    BY <1>10 DEF NamesOf, Names, SetsDefault
  <2>. QED
    BY <1>1, <1>10, <2>2, <2>3 DEF Effective
<1>11. CASE a.op = "CreateTeam"
  <2>1. u = CreateTeam(db, a.team) /\ IsTeam(a.team)
    BY <1>0, <1>11 DEF Effect, ModuleOps, Legal
  <2>2. Sound(db, u, k) /\ u.versions = db.versions /\ u.module = db.module
    BY <2>1, CreateTeamSound
  <2>. QED
    BY <1>11, <2>2, Besides DEF SetsDefault
<1>12. CASE a.op = "UpdateTeam"
  <2>. DEFINE new == NormalizeTeam(With(old, a.patch))
  <2>1. u = WriteTeam(db, new)
    BY <1>12 DEF Effect, ModuleOps
  <2>2. IsTeam(old)
    BY <1>0, <1>12, TheIn DEF Sees, TeamOps
  <2>3. IsTeam(new)
    BY <2>2, TeamWith, NormalizeTeamIs
  <2>. HIDE DEF new
  <2>4. Sound(db, u, k) /\ u.versions = db.versions /\ u.module = db.module
    BY <2>1, <2>3, WriteTeamSound
  <2>. QED
    BY <1>12, <2>4, Besides DEF SetsDefault
<1>13. CASE a.op \in {"AddTeamMember", "RemoveTeamMember"}
  <2>1. PICK members : u = WriteMembers(db, a.key, members)
    BY <1>13 DEF Effect, ModuleOps
  <2>2. Sound(db, u, k) /\ u.versions = db.versions /\ u.module = db.module
    BY <2>1, WriteMembersSound
  <2>. QED
    BY <1>13, <2>2, Besides DEF SetsDefault
<1>14. CASE a.op = "DeleteTeam"
  <2>1. u = DeleteTeam(db, a.key)
    BY <1>14 DEF Effect, ModuleOps
  <2>2. Sound(db, u, k) /\ u.versions = db.versions /\ u.module = db.module
    BY <2>1, DeleteTeamSound
  <2>. QED
    BY <1>14, <2>2, Besides DEF SetsDefault
<1>. QED
  BY <1>0, <1>3, <1>4, <1>5, <1>6, <1>7, <1>8, <1>9, <1>10, <1>11, <1>12,
     <1>13, <1>14
     DEF Legal, ModuleOps

-----------------------------------------------------------------------------
(***************************************************************************)
(* The steps.                                                              *)
(***************************************************************************)

\* The step of one request leaves what the others are.
LEMMA CallStep ==
  ASSUME CallInv, NEW r \in Request, NEW c, call' = [call EXCEPT ![r] = c]
  PROVE  /\ call' = [q \in Request |-> call'[q]]
         /\ call'[r] = c
         /\ \A q \in Request \ {r} : call'[q] = call[q]
         /\ c = Idle => Active' = Active \ {r}
         /\ c # Idle => Active' = Active \cup {r}
BY DEF CallInv, Active

\* A request that goes on without a write: what is left to show is about its
\* own step.
LEMMA GoesOn ==
  ASSUME CatalogInv, NEW r \in Active, NEW c, call' = [call EXCEPT ![r] = c],
         c # Idle, UNCHANGED <<db, n, alone, raced>>,
         c = [step |-> c.step, by |-> call[r].by, n |-> call[r].n, ask |-> call[r].ask,
              seen |-> c.seen, rows |-> c.rows, held |-> c.held],
         c.step \in {"clear", "rows", "write"},
         c.held \subseteq c.rows,
         c.step = "clear" => c.held = {},
         c.step \in {"clear", "rows"} => SetsDefault(Ask(r)),
         Sees(r)',
         HoldsModule(r)' =>
           /\ c.seen = db.module
           /\ c.step \in {"rows", "write"} => c.rows = Names
           /\ \A q \in Request : HoldsModule(q) => q = r,
         r \in alone =>
           /\ Ask(r).op \notin Unread => c.seen = Target(Ask(r))
           /\ c.step \in {"rows", "write"} /\ SetsDefault(Ask(r)) => c.rows = Names
  PROVE  CatalogInv'
<1>. USE DEF CatalogInv
<1>1. r \in Request /\ Fits(r)
  BY DEF Active, CallInv
<1>2. /\ call' = [q \in Request |-> call'[q]]
      /\ call'[r] = c
      /\ \A q \in Request \ {r} : call'[q] = call[q]
      /\ Active' = Active
  <2>1. /\ call' = [q \in Request |-> call'[q]]
        /\ call'[r] = c
        /\ \A q \in Request \ {r} : call'[q] = call[q]
        /\ Active' = Active \cup {r}
    BY <1>1, CallStep
  <2>. QED
    BY <2>1
<1>3. \A q \in Active : call'[q].ask = call[q].ask /\ call'[q].n = call[q].n
  <2>1. c.ask = call[r].ask /\ c.n = call[r].n
    OBVIOUS
  <2>. HIDE DEF CatalogInv
  <2>. QED
    BY <1>2, <2>1 DEF Active
<1>4. TypeOK'
  BY <1>2 DEF TypeOK, Active
<1>5. IdInv'
  BY <1>2, <1>3 DEF IdInv
<1>6. \A q \in Active \ {r} : Fits(q)'
  <2>. TAKE q \in Active \ {r}
  <2>1. call'[q] = call[q] /\ Fits(q)
    BY <1>2 DEF CallInv, Active
  <2>2. Sees(q) => Sees(q)'
    BY <1>2, <1>3, <2>1 DEF Sees, Ask
  <2>. QED
    BY <2>1, <2>2 DEF Fits, Ask
<1>7. Fits(r)'
  <2>1. Ask(r)' = Ask(r) /\ (Ask(r).op = "Deploy" => db.module # {})
    BY <1>1, <1>2 DEF Ask, Fits
  <2>2. Legal(Ask(r)) /\ call[r].n \in 1 .. n
    BY <1>1 DEF Fits
  <2>. QED
    BY <1>2, <2>1, <2>2 DEF Fits
<1>8. CallInv'
  BY <1>2, <1>3, <1>6, <1>7 DEF CallInv
<1>9. LockInv'
  <2>1. \A q \in Request \ {r} : HoldsModule(q)' = HoldsModule(q)
    BY <1>2 DEF HoldsModule, Ask
  <2>. QED
    BY <1>1, <1>2, <2>1 DEF LockInv, Names
<1>10. QuietInv'
  <2>1. \A q \in Active \ {r} : q \notin alone
    BY DEF QuietInv
  <2>2. r \in alone => Active = {r}
    BY DEF QuietInv
  <2>3. Ask(r)' = Ask(r)
    BY <1>2 DEF Ask
  <2>4. Target(Ask(r))' = Target(Ask(r)) /\ Names' = Names
    BY <2>3 DEF Names, Target
  <2>5. SetsDefault(Ask(r))' = SetsDefault(Ask(r))
    BY <2>3
  <2>6. (alone \cap Active)' \subseteq {r}
    BY <1>2, <2>1
  <2>7. alone' \subseteq Request
    BY DEF QuietInv
  <2>. HIDE DEF CatalogInv
  <2>. QED
    BY <1>2, <2>2, <2>3, <2>4, <2>5, <2>6, <2>7 DEF QuietInv
<1>. QED
  BY <1>4, <1>5, <1>8, <1>9, <1>10 DEF Filed, Single

\* The invariant holds at the start.
LEMMA InitHolds == ASSUME Init PROVE CatalogInv
<1>1. Active = {}
  BY DEF Init, Active
<1>2. Tables(db) /\ Keys(db) /\ Filed(db) /\ Single(db) /\ \A e \in db.entries : e.id[1] = 0
  BY StartsAssumption DEF Init
<1>3. CallInv
  BY <1>1 DEF Init, CallInv
<1>4. LockInv
  BY DEF Init, LockInv, HoldsModule
<1>. QED
  BY <1>1, <1>2, <1>3, <1>4 DEF Init, CatalogInv, TypeOK, IdInv, QuietInv

\* A deploy that is let in has found the module by its token.
LEMMA AskedIs ==
  ASSUME NEW u \in User, NEW a \in Asks, Allowed(u, a),
         NEW b, b = IF a.op = "Deploy" THEN Canonical(a) ELSE a
  PROVE  Legal(b) /\ b.op = a.op /\ (a.op = "Deploy" => db.module # {})
<1>1. Legal(a)
  BY AsksAssumption
<1>2. CASE a.op = "Deploy"
  <2>1. db.module # {}
    BY <1>2 DEF Allowed
  <2>. QED
    BY <1>2, <2>1 DEF Canonical, Legal
<1>. QED
  BY <1>1, <1>2

\* A request that begins has a number that no other has and no entry.
LEMMA BeginKeeps ==
  ASSUME CatalogInv, NEW r \in Request, NEW u \in User, NEW a \in Asks,
         Begin(r, u, a)
  PROVE  CatalogInv'
<1>. DEFINE b == IF a.op = "Deploy" THEN Canonical(a) ELSE a
            c == [step |-> FirstStep(a), by |-> u, n |-> n + 1, ask |-> b,
                  seen |-> {}, rows |-> {}, held |-> {}]
<1>. USE DEF CatalogInv
<1>1. /\ call[r] = Idle /\ Allowed(u, a) /\ n' = n + 1 /\ n \in Nat
      /\ call' = [call EXCEPT ![r] = c]
      /\ alone' = IF Active = {} THEN {r} ELSE {}
      /\ UNCHANGED <<db, raced>>
  BY DEF Begin, CallInv
<1>2. Legal(b) /\ b.op = a.op /\ (a.op = "Deploy" => db.module # {})
  BY <1>1, AskedIs
<1>. HIDE DEF b
<1>3. /\ c.step = FirstStep(a) /\ c.n = n + 1 /\ c.ask = b
      /\ c.seen = {} /\ c.rows = {} /\ c.held = {}
      /\ c.step = IF a.op = "Deploy" THEN "lock"
                  ELSE IF a.op \in Unread THEN "write" ELSE "read"
      /\ c # Idle
      /\ c = [step |-> c.step, by |-> c.by, n |-> c.n, ask |-> c.ask,
              seen |-> c.seen, rows |-> c.rows, held |-> c.held]
  BY DEF FirstStep, Unread, Idle
<1>. HIDE DEF c
<1>4. /\ call' = [q \in Request |-> call'[q]]
      /\ call'[r] = c
      /\ \A q \in Request \ {r} : call'[q] = call[q]
      /\ Active' = Active \cup {r} /\ r \notin Active
  <2>1. /\ call' = [q \in Request |-> call'[q]]
        /\ call'[r] = c
        /\ \A q \in Request \ {r} : call'[q] = call[q]
        /\ Active' = Active \cup {r}
    BY <1>1, <1>3, CallStep
  <2>. QED
    BY <1>1, <2>1 DEF Active
<1>5. \A q \in Active : call'[q] = call[q] /\ call[q].n \in 1 .. n
  BY <1>4 DEF Active, CallInv, Fits
<1>6. TypeOK'
  BY <1>1, <1>3, <1>4, <1>5 DEF TypeOK
<1>7. IdInv'
  <2>1. ASSUME NEW e \in db.entries
        PROVE  /\ e.id[1] \in 0 .. n + 1 /\ e.id[1] # n + 1
               /\ \A q \in Active : e.id[1] # call[q].n
    BY <1>1 DEF IdInv
  <2>. QED
    BY <1>1, <1>3, <1>4, <1>5, <2>1 DEF IdInv
<1>8. \A q \in Active : Fits(q)'
  <2>. TAKE q \in Active
  <2>1. call'[q] = call[q] /\ Fits(q)
    BY <1>5 DEF CallInv
  <2>2. Sees(q) => Sees(q)'
    <3>1. \A o : o \in 0 .. n => o \in 0 .. n + 1 /\ o # n + 1
      BY <1>1
    <3>. HIDE DEF CatalogInv
    <3>. QED
      BY <1>1, <1>3, <1>4, <1>5, <2>1, <3>1 DEF Sees, Ask
  <2>3. 1 .. n \subseteq 1 .. n'
    BY <1>1
  <2>. QED
    BY <1>1, <2>1, <2>2, <2>3 DEF Fits, Ask
<1>9. Fits(r)'
  <2>1. Ask(r)' = b
    BY <1>3, <1>4 DEF Ask
  <2>2. c.step = "write" => b.op \in {"CreateModule", "CreateTeam", "DeleteTeam", "DeleteEntry"}
    BY <1>2, <1>3 DEF Unread
  <2>3. c.step = "write" => Sees(r)'
    BY <2>1, <2>2 DEF Sees, ModuleOps, TeamOps
  <2>4. n + 1 \in 1 .. n'
    BY <1>1
  <2>. QED
    BY <1>1, <1>2, <1>3, <1>4, <2>1, <2>3, <2>4 DEF Fits, Unread
<1>10. CallInv'
  <2>1. \A q, s \in Active' : call'[q].n = call'[s].n => q = s
    <3>1. \A q \in Active : call'[q].n # n + 1
      BY <1>1, <1>5
    <3>. QED
      BY <1>3, <1>4, <1>5, <3>1 DEF CallInv
  <2>. QED
    BY <1>1, <1>4, <1>8, <1>9, <2>1 DEF CallInv
<1>11. LockInv'
  <2>1. \A q \in Request \ {r} : HoldsModule(q)' = HoldsModule(q)
    BY <1>4 DEF HoldsModule, Ask
  <2>2. ~HoldsModule(r)'
    BY <1>2, <1>3, <1>4 DEF HoldsModule, Ask
  <2>. QED
    BY <1>1, <1>4, <2>1, <2>2 DEF LockInv, Names
<1>12. QuietInv'
  <2>1. alone' \subseteq {r} /\ (r \in alone' => Active = {})
    BY <1>1
  <2>2. c.step \in {"clear", "rows", "write"} => c.step = "write" /\ b.op \in Unread /\ ~SetsDefault(b)
    BY <1>2, <1>3 DEF Unread, SetsDefault
  <2>3. Ask(r)' = b
    BY <1>3, <1>4 DEF Ask
  <2>. QED
    BY <1>4, <2>1, <2>2, <2>3 DEF QuietInv, SetsDefault
<1>. QED
  BY <1>1, <1>6, <1>7, <1>10, <1>11, <1>12 DEF Filed, Single

\* A request that finds no row, or is aborted, leaves the tables as they are.
LEMMA LeavesKeeps ==
  ASSUME CatalogInv, NEW r \in Active, call' = [call EXCEPT ![r] = Idle],
         UNCHANGED <<db, n, alone, raced>>
  PROVE  CatalogInv'
<1>. USE DEF CatalogInv
<1>1. r \in Request
  BY DEF Active
<1>2. /\ call' = [q \in Request |-> call'[q]]
      /\ call'[r] = Idle
      /\ \A q \in Request \ {r} : call'[q] = call[q]
      /\ Active' = Active \ {r}
  BY <1>1, CallStep
<1>3. \A q \in Active' : q \in Active /\ call'[q] = call[q]
  BY <1>2 DEF Active
<1>4. TypeOK' /\ IdInv'
  BY <1>3 DEF TypeOK, IdInv
<1>5. \A q \in Active' : Fits(q)'
  <2>. TAKE q \in Active'
  <2>1. call'[q] = call[q] /\ Fits(q)
    BY <1>3 DEF CallInv
  <2>2. Sees(q) => Sees(q)'
    BY <1>3, <2>1 DEF Sees, Ask
  <2>. QED
    BY <2>1, <2>2 DEF Fits, Ask
<1>6. CallInv'
  BY <1>2, <1>3, <1>5 DEF CallInv
<1>7. LockInv'
  <2>1. \A q \in Request : HoldsModule(q)' => HoldsModule(q) /\ call'[q] = call[q]
    BY <1>2 DEF HoldsModule, Ask
  <2>. QED
    BY <2>1 DEF LockInv, Names
<1>8. QuietInv'
  <2>1. (alone \cap Active)' = {}
    BY <1>2 DEF QuietInv
  <2>. QED
    BY <2>1 DEF QuietInv
<1>. QED
  BY <1>4, <1>6, <1>7, <1>8 DEF Filed, Single

\* A request's record with its step and one other field changed.
IsCall(c) == c = [step |-> c.step, by |-> c.by, n |-> c.n, ask |-> c.ask,
                  seen |-> c.seen, rows |-> c.rows, held |-> c.held]

\* A request is the record of its columns.
LEMMA CallRecord ==
  ASSUME NEW d, NEW s, NEW b, NEW k, NEW a, NEW S, NEW R, NEW H,
         DOMAIN d = {"step", "by", "n", "ask", "seen", "rows", "held"},
         d = [x \in DOMAIN d |-> d[x]], d.step = s, d.by = b, d.n = k, d.ask = a,
         d.seen = S, d.rows = R, d.held = H
  PROVE  d = [step |-> s, by |-> b, n |-> k, ask |-> a, seen |-> S, rows |-> R, held |-> H]
OBVIOUS

\* A request that has read a row.
LEMMA CallSeen ==
  ASSUME NEW c, IsCall(c), NEW s, NEW X
  PROVE  [c EXCEPT !.step = s, !.seen = X] =
           [step |-> s, by |-> c.by, n |-> c.n, ask |-> c.ask,
            seen |-> X, rows |-> c.rows, held |-> c.held]
<1>. DEFINE d == [c EXCEPT !.step = s, !.seen = X]
<1>1. DOMAIN c = {"step", "by", "n", "ask", "seen", "rows", "held"}
  BY DEF IsCall
<1>2. DOMAIN d = {"step", "by", "n", "ask", "seen", "rows", "held"}
  BY <1>1
<1>3. /\ d.step = s /\ d.by = c.by /\ d.n = c.n /\ d.ask = c.ask
      /\ d.seen = X /\ d.rows = c.rows /\ d.held = c.held
  BY <1>1
<1>4. d = [x \in DOMAIN d |-> d[x]]
  OBVIOUS
<1>. HIDE DEF d
<1>5. d = [step |-> s, by |-> c.by, n |-> c.n, ask |-> c.ask,
           seen |-> X, rows |-> c.rows, held |-> c.held]
  BY <1>2, <1>3, <1>4, CallRecord
<1>. QED
  BY <1>5 DEF d

\* A request that is to lock some rows.
LEMMA CallRows ==
  ASSUME NEW c, IsCall(c), NEW s, NEW X
  PROVE  [c EXCEPT !.step = s, !.rows = X] =
           [step |-> s, by |-> c.by, n |-> c.n, ask |-> c.ask,
            seen |-> c.seen, rows |-> X, held |-> c.held]
<1>. DEFINE d == [c EXCEPT !.step = s, !.rows = X]
<1>1. DOMAIN c = {"step", "by", "n", "ask", "seen", "rows", "held"}
  BY DEF IsCall
<1>2. DOMAIN d = {"step", "by", "n", "ask", "seen", "rows", "held"}
  BY <1>1
<1>3. /\ d.step = s /\ d.by = c.by /\ d.n = c.n /\ d.ask = c.ask
      /\ d.seen = c.seen /\ d.rows = X /\ d.held = c.held
  BY <1>1
<1>4. d = [x \in DOMAIN d |-> d[x]]
  OBVIOUS
<1>. HIDE DEF d
<1>5. d = [step |-> s, by |-> c.by, n |-> c.n, ask |-> c.ask,
           seen |-> c.seen, rows |-> X, held |-> c.held]
  BY <1>2, <1>3, <1>4, CallRecord
<1>. QED
  BY <1>5 DEF d

\* A request that has locked one.
LEMMA CallHeld ==
  ASSUME NEW c, IsCall(c), NEW s, NEW X
  PROVE  [c EXCEPT !.held = X, !.step = s] =
           [step |-> s, by |-> c.by, n |-> c.n, ask |-> c.ask,
            seen |-> c.seen, rows |-> c.rows, held |-> X]
<1>. DEFINE d == [c EXCEPT !.held = X, !.step = s]
<1>1. DOMAIN c = {"step", "by", "n", "ask", "seen", "rows", "held"}
  BY DEF IsCall
<1>2. DOMAIN d = {"step", "by", "n", "ask", "seen", "rows", "held"}
  BY <1>1
<1>3. /\ d.step = s /\ d.by = c.by /\ d.n = c.n /\ d.ask = c.ask
      /\ d.seen = c.seen /\ d.rows = c.rows /\ d.held = X
  BY <1>1
<1>4. d = [x \in DOMAIN d |-> d[x]]
  OBVIOUS
<1>. HIDE DEF d
<1>5. d = [step |-> s, by |-> c.by, n |-> c.n, ask |-> c.ask,
           seen |-> c.seen, rows |-> c.rows, held |-> X]
  BY <1>2, <1>3, <1>4, CallRecord
<1>. QED
  BY <1>5 DEF d

\* What has been read belongs to what was asked for.
LEMMA TargetSeen ==
  ASSUME CatalogInv, NEW r \in Active, Ask(r).op \notin Unread,
         Target(Ask(r)) # {},
         UNCHANGED <<db, n>>, Ask(r)' = Ask(r), call'[r].seen = Target(Ask(r)),
         \A q \in Active' : q \in Active /\ call'[q].n = call[q].n
  PROVE  Sees(r)'
<1>. DEFINE a == Ask(r)
            S == Target(a)
<1>. USE DEF CatalogInv
<1>1. Tables(db) /\ Keys(db)
  BY DEF TypeOK
<1>2. CASE a.op \in ModuleOps \cup {"CreateVersion"}
  <2>1. S = db.module
    BY <1>2 DEF Target, ModuleOps, TeamOps
  <2>. QED
    BY <1>1, <1>2, <2>1 DEF Sees, ModuleOps, TeamOps, Tables
<1>3. CASE a.op = "UpdateVersion"
  <2>1. S = {v \in db.versions : v.name = a.ver}
    BY <1>3 DEF Target, ModuleOps, TeamOps
  <2>. QED
    BY <1>1, <1>3, <2>1 DEF Sees, ModuleOps, TeamOps, Tables
<1>4. CASE a.op = "CreateEntry"
  <2>1. S = {v \in db.versions : v.name = a.ver}
    BY <1>4 DEF Target, ModuleOps, TeamOps
  <2>. QED
    BY <1>1, <1>4, <2>1 DEF Sees, ModuleOps, TeamOps, Keys
<1>5. CASE a.op = "UpdateEntry"
  <2>1. S = {e \in db.entries : e.id = a.id}
    BY <1>5 DEF Target, ModuleOps, TeamOps
  <2>2. \A e, f \in db.entries : e.id = f.id => e = f
    BY <1>1 DEF Keys
  <2>3. \A o \in S : /\ IsEntry(o) /\ o.id = a.id /\ o.id[1] \in 0 .. n
                     /\ \A e \in db.entries : e.id = o.id => e.ver = o.ver
                     /\ \A q \in Active' : o.id[1] # call'[q].n
    BY <1>1, <2>1, <2>2 DEF Tables, IdInv
  <2>. QED
    BY <1>5, <2>3 DEF Sees, ModuleOps, TeamOps
<1>6. CASE a.op \in TeamOps
  <2>1. S = {x \in db.teams : x.key = a.key}
    BY <1>6 DEF Target, ModuleOps, TeamOps
  <2>. QED
    BY <1>1, <1>6, <2>1 DEF Sees, ModuleOps, TeamOps, Tables
<1>7. Legal(a)
  BY DEF CallInv, Fits
<1>. QED
  BY <1>2, <1>3, <1>4, <1>5, <1>6, <1>7 DEF Legal, Unread, ModuleOps, TeamOps

\* Read keeps the invariant.
LEMMA ReadKeeps == ASSUME CatalogInv, NEW r \in Request, Read(r) PROVE CatalogInv'
<1>. DEFINE S == Target(Ask(r))
            step == IF SetsDefault(Ask(r)) THEN "clear" ELSE "write"
            c == [call[r] EXCEPT !.step = step, !.seen = S]
<1>1. r \in Active
  BY DEF Read, Active, Idle
<1>2. CASE S = {}
  BY <1>1, <1>2, LeavesKeeps DEF Read
<1>3. CASE S # {}
  <2>1. Fits(r) /\ call[r].step = "read"
    BY <1>1 DEF CatalogInv, CallInv, Read
  <2>2. call' = [call EXCEPT ![r] = c] /\ UNCHANGED <<db, n, alone, raced>>
    BY <1>3 DEF Read, CatalogInv, CallInv
  <2>3. c = [step |-> step, by |-> call[r].by, n |-> call[r].n, ask |-> call[r].ask,
             seen |-> S, rows |-> call[r].rows, held |-> {}]
    <3>1. IsCall(call[r]) /\ call[r].held = {}
      BY <2>1 DEF Fits, IsCall
    <3>. HIDE DEF S, step
    <3>2. c = [step |-> step, by |-> call[r].by, n |-> call[r].n, ask |-> call[r].ask,
               seen |-> S, rows |-> call[r].rows, held |-> call[r].held]
      BY <3>1, CallSeen
    <3>. QED
      BY <3>1, <3>2
  <2>4. step \in {"clear", "write"} /\ (step = "clear" => SetsDefault(Ask(r)))
    OBVIOUS
  <2>5. Ask(r).op \notin Unread
    BY <2>1 DEF Fits
  <2>. HIDE DEF c, step
  <2>6. /\ c.step = step /\ c.by = call[r].by /\ c.n = call[r].n /\ c.ask = call[r].ask
        /\ c.seen = S /\ c.rows = call[r].rows /\ c.held = {}
    BY <2>3
  <2>7. c # Idle
    BY <2>4, <2>6 DEF Idle
  <2>8. /\ call'[r] = c /\ Active' = Active
        /\ \A q \in Request \ {r} : call'[q] = call[q]
    <3>1. /\ call'[r] = c /\ Active' = Active \cup {r}
          /\ \A q \in Request \ {r} : call'[q] = call[q]
      BY <1>1, <2>2, <2>7, CallStep DEF CatalogInv, Active
    <3>. QED
      BY <1>1, <3>1
  <2>9. Ask(r)' = Ask(r)
    BY <2>6, <2>8 DEF Ask
  <2>10. \A q \in Active' : q \in Active /\ call'[q].n = call[q].n
    BY <2>6, <2>8 DEF Active
  <2>11. Sees(r)'
    BY <1>1, <1>3, <2>2, <2>5, <2>6, <2>8, <2>9, <2>10, TargetSeen
  <2>12. ~HoldsModule(r)'
    BY <2>5, <2>9 DEF HoldsModule, Unread
  <2>13. r \in alone /\ c.step \in {"rows", "write"} => ~SetsDefault(Ask(r))
    BY <2>6 DEF step
  <2>14. c = [step |-> c.step, by |-> call[r].by, n |-> call[r].n, ask |-> call[r].ask,
              seen |-> c.seen, rows |-> c.rows, held |-> c.held]
    BY <2>3, <2>6
  <2>15. c.step \in {"clear", "rows", "write"} /\ c.held \subseteq c.rows /\ c.held = {}
         /\ (c.step \in {"clear", "rows"} => SetsDefault(Ask(r)))
    BY <2>4, <2>6
  <2>. HIDE DEF S
  <2>16. c.seen = Target(Ask(r))
    BY <2>6 DEF S
  <2>. QED
    BY <1>1, <2>2, <2>7, <2>11, <2>12, <2>13, <2>14, <2>15, <2>16, GoesOn
<1>. QED
  BY <1>2, <1>3

\* LockModule keeps it: no other deploy holds the row.
LEMMA LockModuleKeeps ==
  ASSUME CatalogInv, NEW r \in Request, LockModule(r) PROVE CatalogInv'
<1>. DEFINE c == [call[r] EXCEPT !.step = "clear", !.seen = db.module]
<1>1. r \in Active
  BY DEF LockModule, Active, Idle
<1>2. Fits(r) /\ call[r].step = "lock"
  BY <1>1 DEF CatalogInv, CallInv, LockModule
<1>3. call' = [call EXCEPT ![r] = c] /\ UNCHANGED <<db, n, alone, raced>>
  BY DEF LockModule, CatalogInv, CallInv
<1>4. c = [step |-> "clear", by |-> call[r].by, n |-> call[r].n, ask |-> call[r].ask,
           seen |-> db.module, rows |-> call[r].rows, held |-> {}]
  <2>1. IsCall(call[r]) /\ call[r].held = {}
    BY <1>2 DEF Fits, IsCall
  <2>2. c = [step |-> "clear", by |-> call[r].by, n |-> call[r].n, ask |-> call[r].ask,
             seen |-> db.module, rows |-> call[r].rows, held |-> call[r].held]
    BY <2>1, CallSeen
  <2>. QED
    BY <2>1, <2>2
<1>. HIDE DEF c
<1>5. /\ c.step = "clear" /\ c.by = call[r].by /\ c.n = call[r].n /\ c.ask = call[r].ask
      /\ c.seen = db.module /\ c.rows = call[r].rows /\ c.held = {} /\ c # Idle
  BY <1>4 DEF Idle
<1>6. Ask(r).op = "Deploy" /\ db.module # {}
  BY <1>2 DEF Fits
<1>7. call'[r] = c /\ Ask(r)' = Ask(r)
  <2>1. call'[r] = c
    BY <1>1, <1>3, <1>5, CallStep DEF CatalogInv, Active
  <2>. QED
    BY <1>5, <2>1 DEF Ask
<1>8. Sees(r)'
  BY <1>3, <1>5, <1>6, <1>7
     DEF Sees, ModuleOps, TeamOps, CatalogInv, TypeOK, Tables
<1>9. \A q \in Request : HoldsModule(q) => q = r
  <2>. SUFFICES ASSUME NEW q \in Request \ {r}, HoldsModule(q) PROVE FALSE
    OBVIOUS
  <2>1. q \in Blockers(r)
    BY <1>2 DEF Blockers
  <2>. QED
    BY <2>1 DEF LockModule
<1>10. SetsDefault(Ask(r)) /\ Ask(r).op \in Unread
  BY <1>6 DEF SetsDefault, Unread
<1>11. c = [step |-> c.step, by |-> call[r].by, n |-> call[r].n, ask |-> call[r].ask,
            seen |-> c.seen, rows |-> c.rows, held |-> c.held]
  BY <1>4, <1>5
<1>. QED
  BY <1>1, <1>3, <1>5, <1>8, <1>9, <1>10, <1>11, GoesOn

\* Clear keeps it: the statement sees every version.
LEMMA ClearKeeps == ASSUME CatalogInv, NEW r \in Request, Clear(r) PROVE CatalogInv'
<1>. DEFINE step == IF db.versions = {} THEN "write" ELSE "rows"
            c == [call[r] EXCEPT !.step = step, !.rows = Names]
<1>1. r \in Active
  BY DEF Clear, Active, Idle
<1>2. Fits(r) /\ call[r].step = "clear"
  BY <1>1 DEF CatalogInv, CallInv, Clear
<1>3. call' = [call EXCEPT ![r] = c] /\ UNCHANGED <<db, n, alone, raced>>
  BY DEF Clear, CatalogInv, CallInv, Names
<1>. HIDE DEF step
<1>4. c = [step |-> step, by |-> call[r].by, n |-> call[r].n, ask |-> call[r].ask,
           seen |-> call[r].seen, rows |-> Names, held |-> {}]
  <2>1. IsCall(call[r]) /\ call[r].held = {}
    BY <1>2 DEF Fits, IsCall
  <2>2. c = [step |-> step, by |-> call[r].by, n |-> call[r].n, ask |-> call[r].ask,
             seen |-> call[r].seen, rows |-> Names, held |-> call[r].held]
    BY <2>1, CallRows
  <2>. QED
    BY <2>1, <2>2
<1>. HIDE DEF c
<1>5. /\ c.by = call[r].by /\ c.n = call[r].n /\ c.ask = call[r].ask
      /\ c.seen = call[r].seen /\ c.rows = Names /\ c.held = {} /\ c # Idle
      /\ c.step \in {"write", "rows"}
  BY <1>4 DEF Idle, step
<1>6. SetsDefault(Ask(r)) /\ Sees(r)
  BY <1>2 DEF Fits
<1>7. /\ call'[r] = c /\ Active' = Active
      /\ \A q \in Request \ {r} : call'[q] = call[q]
  <2>1. /\ call'[r] = c /\ Active' = Active \cup {r}
        /\ \A q \in Request \ {r} : call'[q] = call[q]
    BY <1>1, <1>3, <1>5, CallStep DEF CatalogInv, Active
  <2>. QED
    BY <1>1, <2>1
<1>8. Ask(r)' = Ask(r) /\ \A q \in Active' : call'[q].n = call[q].n
  BY <1>5, <1>7 DEF Ask, Active
<1>9. Sees(r)'
  BY <1>3, <1>5, <1>6, <1>7, <1>8 DEF Sees
<1>10. HoldsModule(r)' => HoldsModule(r)
  BY <1>2, <1>8 DEF HoldsModule, Idle
<1>11. HoldsModule(r)' => c.seen = db.module /\ \A q \in Request : HoldsModule(q) => q = r
  BY <1>5, <1>10 DEF CatalogInv, LockInv
<1>12. r \in alone /\ Ask(r).op \notin Unread => c.seen = Target(Ask(r))
  BY <1>1, <1>2, <1>5 DEF CatalogInv, QuietInv
<1>13. c = [step |-> c.step, by |-> call[r].by, n |-> call[r].n, ask |-> call[r].ask,
            seen |-> c.seen, rows |-> c.rows, held |-> c.held]
  BY <1>4, <1>5
<1>. QED
  BY <1>1, <1>3, <1>5, <1>6, <1>9, <1>11, <1>12, <1>13, GoesOn

\* LockRow keeps it.
LEMMA LockRowKeeps == ASSUME CatalogInv, NEW r \in Request, LockRow(r) PROVE CatalogInv'
<1>1. r \in Active
  BY DEF LockRow, Active, Idle
<1>2. Fits(r) /\ call[r].step = "rows"
  BY <1>1 DEF CatalogInv, CallInv, LockRow
<1>3. PICK v \in call[r].rows \ call[r].held :
        call' = [call EXCEPT ![r].held = @ \cup {v},
                             ![r].step = IF call[r].held \cup {v} = call[r].rows
                                         THEN "write" ELSE @]
  BY DEF LockRow
<1>. DEFINE H == call[r].held \cup {v}
            step == IF H = call[r].rows THEN "write" ELSE "rows"
            c == [call[r] EXCEPT !.held = H, !.step = step]
<1>4. call' = [call EXCEPT ![r] = c] /\ UNCHANGED <<db, n, alone, raced>>
  BY <1>2, <1>3 DEF LockRow, CatalogInv, CallInv
<1>5. H \subseteq call[r].rows
  BY <1>1 DEF CatalogInv, TypeOK
<1>6. step \in {"rows", "write"}
  OBVIOUS
<1>. HIDE DEF step, H
<1>7. c = [step |-> step, by |-> call[r].by, n |-> call[r].n, ask |-> call[r].ask,
           seen |-> call[r].seen, rows |-> call[r].rows, held |-> H]
  <2>1. IsCall(call[r])
    BY <1>2 DEF Fits, IsCall
  <2>. QED
    BY <2>1, CallHeld
<1>. HIDE DEF c
<1>8. /\ c.by = call[r].by /\ c.n = call[r].n /\ c.ask = call[r].ask
      /\ c.seen = call[r].seen /\ c.rows = call[r].rows /\ c.held = H /\ c # Idle
      /\ c.step \in {"write", "rows"}
  BY <1>6, <1>7 DEF Idle
<1>9. SetsDefault(Ask(r)) /\ Sees(r)
  BY <1>2 DEF Fits
<1>10. /\ call'[r] = c /\ Active' = Active
       /\ \A q \in Request \ {r} : call'[q] = call[q]
  <2>1. /\ call'[r] = c /\ Active' = Active \cup {r}
        /\ \A q \in Request \ {r} : call'[q] = call[q]
    BY <1>1, <1>4, <1>8, CallStep DEF CatalogInv, Active
  <2>. QED
    BY <1>1, <2>1
<1>11. Ask(r)' = Ask(r) /\ \A q \in Active' : call'[q].n = call[q].n
  BY <1>8, <1>10 DEF Ask, Active
<1>12. Sees(r)'
  BY <1>4, <1>8, <1>9, <1>10, <1>11 DEF Sees
<1>13. HoldsModule(r)' => HoldsModule(r)
  BY <1>2, <1>11 DEF HoldsModule, Idle
<1>14. HoldsModule(r)' => /\ c.seen = db.module /\ c.rows = Names
                          /\ \A q \in Request : HoldsModule(q) => q = r
  BY <1>2, <1>8, <1>13 DEF CatalogInv, LockInv
<1>15. r \in alone => /\ Ask(r).op \notin Unread => c.seen = Target(Ask(r))
                      /\ SetsDefault(Ask(r)) => c.rows = Names
  BY <1>1, <1>2, <1>8 DEF CatalogInv, QuietInv
<1>16. c = [step |-> c.step, by |-> call[r].by, n |-> call[r].n, ask |-> call[r].ask,
            seen |-> c.seen, rows |-> c.rows, held |-> c.held]
  BY <1>7, <1>8
<1>. QED
  BY <1>1, <1>4, <1>5, <1>8, <1>9, <1>12, <1>14, <1>15, <1>16, GoesOn

\* Deadlock keeps it.
LEMMA DeadlockKeeps == ASSUME CatalogInv, NEW r \in Request, Deadlock(r) PROVE CatalogInv'
BY LeavesKeeps DEF Deadlock, Active

\* Write keeps it: what the others have read stays true of the row that they
\* hold or that nobody else writes, and the flags are those of a deploy under
\* its lock, or of a request that no other has run beside.
LEMMA WriteKeeps == ASSUME CatalogInv, NEW r \in Request, Write(r) PROVE CatalogInv'
<1>. DEFINE k == call[r].n
<1>1. r \in Active /\ call[r].step = "write" /\ Blockers(r) = {}
  BY DEF Write, Active, Idle
<1>2. Effective(r, db')
  BY <1>1, EffectIs DEF Write, CatalogInv
<1>3. Sound(db, db', k)
  BY <1>2 DEF Effective
<1>4. /\ call' = [q \in Request |-> call'[q]]
      /\ call'[r] = Idle
      /\ \A q \in Request \ {r} : call'[q] = call[q]
      /\ Active' = Active \ {r}
      /\ UNCHANGED <<n, alone>>
  <2>1. call' = [call EXCEPT ![r] = Idle] /\ UNCHANGED <<n, alone>>
    BY DEF Write
  <2>. QED
    BY <2>1, CallStep DEF CatalogInv
<1>5. \A q \in Active' : q \in Active /\ call'[q] = call[q] /\ call[q].n # k
  BY <1>1, <1>4 DEF Active, CatalogInv, CallInv
<1>6. TypeOK' /\ Filed(db')
  BY <1>3, <1>5 DEF TypeOK, Sound, CatalogInv
<1>7. IdInv'
  <2>1. k \in 0 .. n
    <3>1. k \in 1 .. n /\ n \in Nat
      BY <1>1 DEF CatalogInv, CallInv, Fits
    <3>. HIDE DEF k
    <3>. QED
      BY <3>1
  <2>2. \A f \in db.entries : f.id[1] \in 0 .. n /\ \A q \in Active : f.id[1] # call[q].n
    BY DEF CatalogInv, IdInv
  <2>. QED
    BY <1>3, <1>4, <1>5, <2>1, <2>2 DEF Sound, IdInv
<1>8. \A q \in Active' : Fits(q)'
  <2>. TAKE q \in Active'
  <2>1. call'[q] = call[q] /\ Fits(q) /\ Ask(q)' = Ask(q)
    BY <1>5 DEF CatalogInv, CallInv, Ask
  <2>2. db.module # {} => db'.module # {}
    BY <1>3 DEF Sound
  <2>3. ASSUME NEW o, o.id[1] # k,
               \A e \in db.entries : e.id = o.id => e.ver = o.ver
        PROVE  \A e \in db'.entries : e.id = o.id => e.ver = o.ver
    BY <1>3, <2>3 DEF Sound
  <2>4. Sees(q) => Sees(q)'
    BY <1>1, <1>4, <1>5, <2>1, <2>2, <2>3 DEF Sees
  <2>. QED
    BY <1>4, <2>1, <2>2, <2>4 DEF Fits
<1>9. CallInv'
  BY <1>4, <1>5, <1>8 DEF CallInv, CatalogInv
<1>10. LockInv'
  <2>1. \A q \in Request : HoldsModule(q)' => q # r /\ HoldsModule(q) /\ call'[q] = call[q]
    BY <1>4 DEF HoldsModule, Ask
  <2>2. \A q \in Request : HoldsModule(q)' => db'.module = db.module /\ Names' = Names
    BY <1>2, <2>1 DEF Effective, NamesOf, Names
  <2>. QED
    BY <2>1, <2>2 DEF LockInv, CatalogInv
<1>11. QuietInv'
  <2>1. (alone \cap Active)' = {} /\ alone' \subseteq Request
    BY <1>1, <1>4 DEF QuietInv, CatalogInv
  <2>. QED
    BY <2>1 DEF QuietInv
<1>12. ~raced' => Single(db')
  <2>. SUFFICES ASSUME ~raced', db' # db PROVE Single(db')
    BY DEF Write, CatalogInv
  <2>1. /\ SetsDefault(Ask(r)) /\ call[r].rows = Names => Single(db')
        /\ /\ ~SetsDefault(Ask(r)) /\ Single(db)
           /\ Ask(r).op = "UpdateVersion" => The(call[r].seen) \in db.versions
           => Single(db')
    BY <1>2 DEF Effective
  <2>2. ~raced => Single(db)
    BY DEF CatalogInv
  <2>3. CASE ~DecidesDefault(Ask(r))
    BY <2>1, <2>2, <2>3 DEF Write, DecidesDefault
  <2>4. CASE DecidesDefault(Ask(r)) /\ r \notin alone
    <3>1. ~raced /\ Ask(r).op = "Deploy"
      BY <2>4 DEF Write
    <3>2. HoldsModule(r) /\ SetsDefault(Ask(r))
      BY <1>1, <3>1 DEF HoldsModule, Active, SetsDefault
    <3>3. call[r].rows = Names
      BY <1>1, <3>2 DEF LockInv, CatalogInv
    <3>. QED
      BY <2>1, <3>2, <3>3
  <2>5. CASE DecidesDefault(Ask(r)) /\ r \in alone /\ SetsDefault(Ask(r))
    <3>1. call[r].rows = Names
      BY <1>1, <2>5 DEF QuietInv, CatalogInv
    <3>. QED
      BY <2>1, <2>5, <3>1
  <2>6. CASE DecidesDefault(Ask(r)) /\ r \in alone /\ ~SetsDefault(Ask(r))
    <3>1. ~raced /\ Ask(r).op = "UpdateVersion"
      BY <2>6 DEF Write, DecidesDefault
    <3>2. call[r].seen = Target(Ask(r)) /\ call[r].seen # {}
      BY <1>1, <2>6, <3>1 DEF QuietInv, CatalogInv, CallInv, Fits, Sees, Unread
    <3>3. Target(Ask(r)) = {v \in db.versions : v.name = Ask(r).ver}
      BY <3>1 DEF Target, ModuleOps, TeamOps
    <3>. QED
      BY <2>1, <2>2, <2>6, <3>1, <3>2, <3>3, TheIn
  <2>. QED
    BY <2>3, <2>4, <2>5, <2>6
<1>. QED
  BY <1>6, <1>7, <1>9, <1>10, <1>11, <1>12 DEF CatalogInv

\* And a step that changes nothing keeps it.
LEMMA StutterKeeps == ASSUME CatalogInv, UNCHANGED vars PROVE CatalogInv'
<1>. USE DEF vars, CatalogInv
<1>1. Active' = Active /\ \A r : Ask(r)' = Ask(r)
  BY DEF Active, Ask
<1>2. \A r \in Active : Fits(r) => Fits(r)'
  <2>1. \A r \in Active : Sees(r) => Sees(r)'
    BY <1>1 DEF Sees
  <2>. QED
    BY <1>1, <2>1 DEF Fits
<1>3. CallInv'
  BY <1>1, <1>2 DEF CallInv
<1>4. TypeOK' /\ IdInv'
  BY <1>1 DEF TypeOK, IdInv
<1>5. LockInv'
  BY <1>1 DEF LockInv, HoldsModule, Names
<1>6. QuietInv'
  <2>1. Names' = Names /\ \A a : Target(a)' = Target(a) /\ SetsDefault(a)' = SetsDefault(a)
    BY DEF Names, Target, SetsDefault
  <2>. QED
    BY <1>1, <2>1 DEF QuietInv
<1>. QED
  BY <1>3, <1>4, <1>5, <1>6 DEF Filed, Single

\* So every step keeps the invariant.
LEMMA StepKeeps == ASSUME CatalogInv, [Next]_vars PROVE CatalogInv'
<1>1. ASSUME NEW r \in Request, NEW u \in User, NEW a \in Asks, Begin(r, u, a)
      PROVE  CatalogInv'
  BY <1>1, BeginKeeps
<1>2. ASSUME NEW r \in Request, Read(r) PROVE CatalogInv'
  BY <1>2, ReadKeeps
<1>3. ASSUME NEW r \in Request, LockModule(r) PROVE CatalogInv'
  BY <1>3, LockModuleKeeps
<1>4. ASSUME NEW r \in Request, Clear(r) PROVE CatalogInv'
  BY <1>4, ClearKeeps
<1>5. ASSUME NEW r \in Request, LockRow(r) PROVE CatalogInv'
  BY <1>5, LockRowKeeps
<1>6. ASSUME NEW r \in Request, Write(r) PROVE CatalogInv'
  BY <1>6, WriteKeeps
<1>7. ASSUME NEW r \in Request, Deadlock(r) PROVE CatalogInv'
  BY <1>7, DeadlockKeeps
<1>8. CASE Rest \/ UNCHANGED vars
  BY <1>8, StutterKeeps DEF Rest
<1>. QED
  BY <1>1, <1>2, <1>3, <1>4, <1>5, <1>6, <1>7, <1>8 DEF Next

-----------------------------------------------------------------------------
(***************************************************************************)
(* What holds in every state.                                              *)
(***************************************************************************)

\* The invariant holds in every state.
THEOREM CatalogInvariant == Spec => []CatalogInv
<1>1. Init => CatalogInv
  BY InitHolds
<1>2. CatalogInv /\ [Next]_vars => CatalogInv'
  BY StepKeeps
<1>. QED
  BY <1>1, <1>2, PTL DEF Spec

\* The rows keep their columns, the tables their keys, and every page its entry,
\* whatever order the requests write in.
THEOREM KeysKept == Spec => []TypeOK
<1>1. CatalogInv => TypeOK
  BY DEF CatalogInv
<1>. QED
  BY <1>1, CatalogInvariant, PTL

\* The pages are filed under the module's categories, although a deploy copies
\* them from the module and UpdateModule writes them to the pages that are there.
THEOREM PagesFiled == Spec => []PagesFiledWithModule
<1>1. CatalogInv => PagesFiledWithModule
  BY DEF CatalogInv, Filed, PagesFiledWithModule
<1>. QED
  BY <1>1, CatalogInvariant, PTL

\* One version at most is the default one, unless CreateVersion or UpdateVersion
\* decided it beside another request; deploys never make two.
THEOREM DefaultIsOne == Spec => []OneDefault
<1>1. ASSUME CatalogInv PROVE OneDefault
  <2>. DEFINE D == {v \in db.versions : v.dflt}
  <2>1. ~raced => \A v, w \in D : v = w
    <3>1. \A v \in D : v \in db.versions /\ v.dflt
      OBVIOUS
    <3>2. ~raced => Single(db)
      BY <1>1 DEF CatalogInv
    <3>. HIDE DEF D
    <3>. QED
      BY <3>1, <3>2 DEF Single
  <2>. HIDE DEF D
  <2>2. D = {} => Cardinality(D) <= 1
    <3>1. Cardinality({}) = 0
      BY FS_EmptySet
    <3>. QED
      BY <3>1
  <2>3. ASSUME NEW v \in D, D = {v} PROVE Cardinality(D) <= 1
    <3>1. Cardinality({v}) = 1
      BY FS_Singleton
    <3>. QED
      BY <2>3, <3>1
  <2>4. ~raced /\ D # {} => \E v \in D : D = {v}
    BY <2>1
  <2>5. ~raced => Cardinality(D) <= 1
    BY <2>2, <2>3, <2>4
  <2>. QED
    BY <2>5 DEF D, OneDefault
<1>. QED
  BY <1>1, CatalogInvariant, PTL

-----------------------------------------------------------------------------
(***************************************************************************)
(* The in-memory store.                                                    *)
(***************************************************************************)

\* The five tables, whatever is in them.
Shape(t) == t = [module |-> t.module, versions |-> t.versions, entries |-> t.entries,
                 pages |-> t.pages, teams |-> t.teams]

\* One version as the only default one.
Sole(V, name) == {[v EXCEPT !.dflt = (v.name = name)] : v \in V}

\* The module's row after a deploy, and the pages that come with it.
Named(m, name) == With(m, [name |-> name])
Deployed(m, name, ver) == With(Named(m, name), [dflt |-> ver])
PagesOf(d, cats) == {[entry |-> p.entry, ver |-> p.ver, cats |-> cats] : p \in d.pages}

\* The version that a deploy finds, or else makes.
VersionOf(t, name) ==
  LET known == {v \in t.versions : v.name = name}
  IN  IF known = {} THEN [name |-> name, title |-> name, dflt |-> TRUE] ELSE The(known)

\* The tables that one deploy of d leaves when nothing else runs.
IngestedAlone(t, now, d) ==
  [module |-> {Deployed(now, d.name, d.ver)},
   versions |-> Sole(t.versions \cup {VersionOf(t, d.ver)}, d.ver),
   entries |-> {e \in t.entries : e.ver # d.ver} \cup d.entries,
   pages |-> {p \in t.pages : p.ver # d.ver} \cup PagesOf(d, now.cats),
   teams |-> t.teams]

\* The in-memory store patches every row of a table,
LEMMA PatchRowsIs ==
  ASSUME NEW S, NEW patch
  PROVE  Fake!PatchRows(S, S, patch) = {With(x, patch) : x \in S}
BY DEF Fake!PatchRows, Fake!Patched, With

\* or those it has found.
LEMMA PatchSomeIs ==
  ASSUME NEW S, NEW hit, NEW patch
  PROVE  Fake!PatchRows(S, hit, patch) = {IF x \in hit THEN With(x, patch) ELSE x : x \in S}
BY DEF Fake!PatchRows, Fake!Patched, With

\* The in-memory store's PointTo, table by table.
LEMMA FakePointToIs ==
  ASSUME NEW t, Shape(t), NEW name
  PROVE  Fake!PointTo(t, name) =
           [module |-> {With(m, [dflt |-> name]) : m \in t.module},
            versions |-> Sole(t.versions, name),
            entries |-> t.entries, pages |-> t.pages, teams |-> t.teams]
<1>. DEFINE V == Sole(t.versions, name)
            M == Fake!PatchRows(t.module, t.module, [dflt |-> name])
            u == [t EXCEPT !.versions = V, !.module = M]
<1>1. DOMAIN t = {"module", "versions", "entries", "pages", "teams"}
  BY DEF Shape
<1>2. Fake!PointTo(t, name) = u
  BY <1>1 DEF Fake!PointTo, Sole
<1>. HIDE DEF V, M
<1>3. DOMAIN u = {"module", "versions", "entries", "pages", "teams"}
  BY <1>1
<1>4. /\ u.module = M /\ u.versions = V /\ u.entries = t.entries
      /\ u.pages = t.pages /\ u.teams = t.teams
  BY <1>1
<1>5. u = [c \in DOMAIN u |-> u[c]]
  OBVIOUS
<1>6. u = [module |-> M, versions |-> V, entries |-> t.entries, pages |-> t.pages,
           teams |-> t.teams]
  <2>. HIDE DEF u
  <2>. QED
    BY <1>3, <1>4, <1>5, TablesRecord
<1>7. M = {With(m, [dflt |-> name]) : m \in t.module}
  BY PatchRowsIs DEF M
<1>. QED
  BY <1>2, <1>6, <1>7 DEF V

\* A module that a patch of one column changes.
LEMMA ModuleNamed ==
  ASSUME NEW m, IsModule(m), NEW x
  PROVE  /\ IsModule(Named(m, x))
         /\ Named(m, x).dflt = m.dflt
         /\ Named(m, x).token = m.token
         /\ Named(m, x).name = x
         /\ Named(m, x).owner = m.owner
         /\ Named(m, x).cats = m.cats
         /\ Named(m, x).by = m.by
<1>. USE DEF Named
<1>1. DOMAIN m = {"dflt", "token", "name", "owner", "cats", "by"}
  BY RowColumns
<1>2. DOMAIN [name |-> x] = {"name"}
  OBVIOUS
<1>3. /\ Named(m, x).dflt = m.dflt
      /\ Named(m, x).token = m.token
      /\ Named(m, x).name = x
      /\ Named(m, x).owner = m.owner
      /\ Named(m, x).cats = m.cats
      /\ Named(m, x).by = m.by
  BY <1>1, <1>2 DEF With
<1>. QED
  BY <1>3, ModuleWith

\* A patch of the default version is an assignment.
LEMMA ModulePointed ==
  ASSUME NEW m, IsModule(m), NEW x
  PROVE  With(m, [dflt |-> x]) = [m EXCEPT !.dflt = x]
<1>1. DOMAIN m = {"dflt", "token", "name", "owner", "cats", "by"}
  BY RowColumns
<1>2. DOMAIN [dflt |-> x] = {"dflt"}
  OBVIOUS
<1>. QED
  BY <1>1, <1>2 DEF With, IsModule

\* What a deploy makes of the tables, in one step.
LEMMA FakeIngestIs ==
  ASSUME NEW t, Tables(t), NEW now, t.module = {now}, NEW d
  PROVE  Fake!IngestArtifact(t, d) = IngestedAlone(t, now, d)
<1>. DEFINE M == Fake!PatchRows(t.module, t.module, [name |-> d.name])
            V == t.versions \cup {VersionOf(t, d.ver)}
            E == {e \in t.entries : e.ver # d.ver} \cup d.entries
            P == {p \in t.pages : p.ver # d.ver} \cup PagesOf(d, now.cats)
            u == [t EXCEPT !.module = M, !.versions = V, !.entries = E, !.pages = P]
<1>1. DOMAIN t = {"module", "versions", "entries", "pages", "teams"}
  BY DEF Tables
<1>2. The(t.module) = now
  BY DEF The
<1>3. Fake!IngestArtifact(t, d) = Fake!PointTo(u, d.ver)
  BY <1>1, <1>2 DEF Fake!IngestArtifact, The, PagesOf, VersionOf
<1>. HIDE DEF M, V, E, P
<1>4. DOMAIN u = {"module", "versions", "entries", "pages", "teams"}
  BY <1>1
<1>5. /\ u.module = M /\ u.versions = V /\ u.entries = E /\ u.pages = P
      /\ u.teams = t.teams
  BY <1>1
<1>6. u = [c \in DOMAIN u |-> u[c]]
  OBVIOUS
<1>. HIDE DEF u
<1>7. u = [module |-> M, versions |-> V, entries |-> E, pages |-> P, teams |-> t.teams]
  BY <1>4, <1>5, <1>6, TablesRecord
<1>8. Shape(u)
  BY <1>5, <1>7 DEF Shape
<1>9. M = {With(now, [name |-> d.name])}
  BY PatchRowsIs DEF M
<1>10. Fake!PointTo(u, d.ver) =
         [module |-> {With(m, [dflt |-> d.ver]) : m \in M},
          versions |-> Sole(V, d.ver),
          entries |-> E, pages |-> P, teams |-> t.teams]
  <2>1. Fake!PointTo(u, d.ver) =
          [module |-> {With(m, [dflt |-> d.ver]) : m \in u.module},
           versions |-> Sole(u.versions, d.ver),
           entries |-> u.entries, pages |-> u.pages, teams |-> u.teams]
    BY <1>8, FakePointToIs
  <2>. QED
    BY <1>5, <2>1
<1>. QED
  BY <1>3, <1>9, <1>10 DEF V, E, P, Deployed, Named, IngestedAlone

\* The flags that a clearing of all versions leaves, and the version that is
\* then the default one.
Flags(t, rows, name) ==
  {v \in PointTo(t, rows, name).versions : v.name # name}
    \cup {[name |-> name, title |-> TitleIn(t, name), dflt |-> TRUE]}

\* Either way the version of a deploy is then the only default one.
LEMMA FlagsMatch ==
  ASSUME NEW t, Tables(t), Keys(t), NEW rows, rows = NamesOf(t), NEW name
  PROVE  Sole(t.versions \cup {VersionOf(t, name)}, name) = Flags(t, rows, name)
<1>. DEFINE known == {v \in t.versions : v.name = name}
            v0 == VersionOf(t, name)
            f(v) == IF v.name \in rows THEN [v EXCEPT !.dflt = FALSE] ELSE v
            g(v) == [v EXCEPT !.dflt = (v.name = name)]
            w0 == [name |-> name, title |-> TitleIn(t, name), dflt |-> TRUE]
            Q == PointTo(t, rows, name).versions
<1>1. Q = {f(v) : v \in t.versions}
  BY PointToIs
<1>2. \A v \in t.versions : IsVersion(v) /\ v.name \in rows
  BY DEF Tables, NamesOf
<1>3. \A v \in t.versions : f(v).name = v.name /\ (v.name # name => f(v) = g(v))
  <2>. TAKE v \in t.versions
  <2>1. IsVersion(v) /\ f(v) = [v EXCEPT !.dflt = FALSE]
    BY <1>2
  <2>2. f(v).name = v.name
    BY <2>1, VersionExcept
  <2>3. ASSUME v.name # name PROVE f(v) = g(v)
    <3>1. (v.name = name) = FALSE
      BY <2>3
    <3>. QED
      BY <2>1, <3>1
  <2>. QED
    BY <2>2, <2>3
<1>4. v0.name = name /\ v0.title = TitleIn(t, name) /\ IsVersion(v0)
  <2>1. CASE known = {}
    BY <2>1 DEF TitleIn, IsVersion, VersionOf
  <2>2. CASE known # {}
    BY <2>2, TheIn, <1>2 DEF TitleIn, VersionOf
  <2>. QED
    BY <2>1, <2>2
<1>5. g(v0) = w0
  <2>1. (v0.name = name) = TRUE
    BY <1>4
  <2>2. /\ IsVersion([v0 EXCEPT !.dflt = TRUE]) /\ [v0 EXCEPT !.dflt = TRUE].name = name
        /\ [v0 EXCEPT !.dflt = TRUE].title = TitleIn(t, name)
        /\ [v0 EXCEPT !.dflt = TRUE].dflt = TRUE
    BY <1>4, VersionExcept
  <2>3. g(v0) = [v0 EXCEPT !.dflt = TRUE]
    BY <2>1
  <2>. QED
    BY <2>2, <2>3 DEF IsVersion
<1>6. \A v \in t.versions : v.name = name => v = v0
  <2>1. \A v \in t.versions : v.name = name => The(known) = v
    BY TheIn DEF Keys
  <2>. QED
    BY <2>1 DEF VersionOf
<1>7. w0.name = name
  OBVIOUS
<1>. HIDE DEF f, g, w0, Q, v0
<1>8. {g(v) : v \in t.versions \cup {v0}} = {v \in Q : v.name # name} \cup {w0}
  <2>1. ASSUME NEW v \in t.versions \cup {v0}
        PROVE  g(v) \in {x \in Q : x.name # name} \cup {w0}
    BY <1>1, <1>3, <1>5, <1>6
  <2>2. ASSUME NEW x \in Q, x.name # name
        PROVE  x \in {g(v) : v \in t.versions \cup {v0}}
    BY <1>1, <1>3, <2>2
  <2>. QED
    BY <1>5, <2>1, <2>2
<1>. QED
  BY <1>8 DEF g, w0, Q, v0, Sole, Flags

\* Either way the module's row has the artifact's name and version.
LEMMA ModuleMatches ==
  ASSUME NEW m, IsModule(m), NEW name, NEW ver
  PROVE  Deployed(m, name, ver) = Rename([m EXCEPT !.dflt = ver], name, m.owner)
<1>1. PICK m1 : m1 = [m EXCEPT !.dflt = ver]
  OBVIOUS
<1>2. PICK m2 : m2 = Named(m, name)
  OBVIOUS
<1>3. PICK m3 : m3 = [m2 EXCEPT !.dflt = ver]
  OBVIOUS
<1>4. PICK m4 : m4 = Rename(m1, name, m.owner)
  OBVIOUS
<1>5. /\ IsModule(m1) /\ m1.dflt = ver /\ m1.token = m.token /\ m1.cats = m.cats
      /\ m1.by = m.by
  BY <1>1, ModuleExcept
<1>6. /\ IsModule(m2) /\ m2.token = m.token /\ m2.name = name
      /\ m2.owner = m.owner /\ m2.cats = m.cats /\ m2.by = m.by
  BY <1>2, ModuleNamed
<1>7. Deployed(m, name, ver) = m3
  BY <1>2, <1>3, <1>6, ModulePointed DEF Deployed
<1>8. /\ IsModule(m3) /\ m3.dflt = ver /\ m3.token = m2.token /\ m3.name = m2.name
      /\ m3.owner = m2.owner /\ m3.cats = m2.cats /\ m3.by = m2.by
  BY <1>3, <1>6, ModuleExcept
<1>9. /\ IsModule(m4) /\ m4.dflt = m1.dflt /\ m4.token = m1.token /\ m4.name = name
      /\ m4.owner = m.owner /\ m4.cats = m1.cats /\ m4.by = m1.by
  BY <1>4, <1>5, Renamed
<1>10. m3 = m4
  BY <1>5, <1>6, <1>8, <1>9, ModuleEq
<1>. QED
  BY <1>1, <1>4, <1>7, <1>10

\* Either way the pages have the module's categories.
LEMMA PagesMatch ==
  ASSUME NEW d, NEW k, NEW a, NEW cats,
         d.pages = {[entry |-> <<k, key>>, ver |-> a.ver] : key \in a.keys}
  PROVE  PagesOf(d, cats) = NewPages(k, a, cats)
<1>1. \A p \in PagesOf(d, cats) : p \in NewPages(k, a, cats)
  BY DEF NewPages, PagesOf
<1>2. ASSUME NEW key \in a.keys
      PROVE  [entry |-> <<k, key>>, ver |-> a.ver, cats |-> cats] \in PagesOf(d, cats)
  <2>. DEFINE p == [entry |-> <<k, key>>, ver |-> a.ver]
  <2>1. p \in d.pages /\ p.entry = <<k, key>> /\ p.ver = a.ver
    OBVIOUS
  <2>. HIDE DEF p
  <2>. QED
    BY <2>1 DEF PagesOf
<1>3. \A p \in NewPages(k, a, cats) : p \in PagesOf(d, cats)
  BY <1>2 DEF NewPages
<1>. QED
  BY <1>1, <1>3

\* A deploy that has read the module under its lock, and cleared every version,
\* does what one does that runs alone.
LEMMA IngestMatches ==
  ASSUME NEW t, Tables(t), Keys(t), NEW now, t.module = {now}, NEW rows,
         rows = NamesOf(t),
         NEW k, NEW a, NEW d, d.ver = a.ver, d.name = a.name, d.entries = NewEntries(k, a),
         d.pages = {[entry |-> <<k, key>>, ver |-> a.ver] : key \in a.keys}
  PROVE  IngestArtifact(t, rows, now, k, a) = Fake!IngestArtifact(t, d)
<1>. PICK q : q = PointTo(t, rows, a.ver)
  OBVIOUS
<1>. DEFINE M == {Deployed(now, d.name, d.ver)}
            V == Sole(t.versions \cup {VersionOf(t, d.ver)}, d.ver)
            E == {e \in t.entries : e.ver # d.ver} \cup d.entries
            P == {p \in t.pages : p.ver # d.ver} \cup PagesOf(d, now.cats)
<1>1. Fake!IngestArtifact(t, d) =
        [module |-> M, versions |-> V, entries |-> E, pages |-> P, teams |-> t.teams]
  BY FakeIngestIs DEF IngestedAlone
<1>2. IngestArtifact(t, rows, now, k, a) = Ingested(t, q, now, k, a, now.cats)
  BY IngestIs
<1>3. /\ q.module = {[now EXCEPT !.dflt = a.ver]}
      /\ q.entries = t.entries /\ q.pages = t.pages /\ q.teams = t.teams
  <2>1. q.module = {[m EXCEPT !.dflt = a.ver] : m \in t.module}
    BY PointToIs
  <2>. QED
    BY <2>1, PointToIs
<1>4. M = {Rename(m, a.name, now.owner) : m \in q.module}
  <2>1. IsModule(now)
    BY DEF Tables
  <2>2. Deployed(now, a.name, a.ver) = Rename([now EXCEPT !.dflt = a.ver], a.name, now.owner)
    BY <2>1, ModuleMatches
  <2>. QED
    BY <1>3, <2>2
<1>5. V = {v \in q.versions : v.name # a.ver}
            \cup {[name |-> a.ver, title |-> TitleIn(t, a.ver), dflt |-> TRUE]}
  BY FlagsMatch DEF Flags
<1>6. E = {e \in q.entries : e.ver # a.ver} \cup NewEntries(k, a)
  BY <1>3
<1>7. P = {p \in q.pages : p.ver # a.ver} \cup NewPages(k, a, now.cats)
  <2>1. PagesOf(d, now.cats) = NewPages(k, a, now.cats)
    BY PagesMatch
  <2>. QED
    BY <1>3, <2>1
<1>. HIDE DEF M, V, E, P
<1>8. Ingested(t, q, now, k, a, now.cats) =
        [module |-> M, versions |-> V, entries |-> E, pages |-> P, teams |-> t.teams]
  BY <1>3, <1>4, <1>5, <1>6, <1>7 DEF Ingested
<1>. QED
  BY <1>1, <1>2, <1>8

\* A table that is replaced by itself.
LEMMA ExceptSame ==
  ASSUME NEW t, Tables(t)
  PROVE  /\ [t EXCEPT !.versions = t.versions] = t
         /\ [t EXCEPT !.entries = t.entries] = t
         /\ [t EXCEPT !.teams = t.teams] = t
BY TablesExcept DEF Tables

\* UpdateModule is the in-memory store's when the row that was read is the row.
LEMMA UpdateModuleMatches ==
  ASSUME NEW t, Tables(t), NEW now, t.module = {now}, NEW patch,
         "by" \notin DOMAIN patch
  PROVE  UpdateModule(t, now, patch) = Fake!UpdateModule(t, patch)
<1>. DEFINE set == [c \in DOMAIN patch \ {"by"} |-> patch[c]]
            named == "cats" \in DOMAIN patch
            g(m) == [With(now, patch) EXCEPT !.cats = IF named THEN @ ELSE m.cats]
            X == {g(m) : m \in t.module}
            Y == IF named THEN {[p EXCEPT !.cats = patch.cats] : p \in t.pages} ELSE t.pages
            X1 == Fake!PatchRows(t.module, t.module, set)
            Y1 == IF named THEN Fake!PatchRows(t.pages, t.pages, [cats |-> set.cats])
                  ELSE t.pages
<1>1. DOMAIN set = DOMAIN patch /\ \A c \in DOMAIN patch : set[c] = patch[c]
  OBVIOUS
<1>2. UpdateModule(t, now, patch) = [t EXCEPT !.module = X, !.pages = Y]
  BY DEF UpdateModule, Tables
<1>3. Fake!UpdateModule(t, patch) = [t EXCEPT !.module = X1, !.pages = Y1]
  <2>1. t.module # {} /\ DOMAIN t = {"module", "versions", "entries", "pages", "teams"}
    BY DEF Tables
  <2>. QED
    BY <1>1, <2>1 DEF Fake!UpdateModule
<1>4. X = X1
  <2>1. IsModule(now) /\ DOMAIN now = {"dflt", "token", "name", "owner", "cats", "by"}
    BY RowColumns DEF Tables
  <2>2. PICK w : w = With(now, patch)
    OBVIOUS
  <2>3. IsModule(w) /\ w.cats = IF named THEN patch.cats ELSE now.cats
    BY <2>1, <2>2, ModuleWith, WithColumns
  <2>4. g(now) = [w EXCEPT !.cats = w.cats]
    BY <2>2, <2>3
  <2>5. [w EXCEPT !.cats = w.cats] = w
    BY <2>3 DEF IsModule
  <2>6. With(now, set) = w
    BY <1>1, <2>2 DEF With
  <2>7. X1 = {With(now, set)}
    BY PatchRowsIs
  <2>8. X = {g(now)}
    OBVIOUS
  <2>. HIDE DEF X, X1, g, set
  <2>. QED
    BY <2>4, <2>5, <2>6, <2>7, <2>8
<1>5. Y = Y1
  <2>1. CASE ~named
    BY <2>1
  <2>2. CASE named
    <3>1. set.cats = patch.cats
      BY <1>1, <2>2
    <3>2. ASSUME NEW p \in t.pages
          PROVE  [p EXCEPT !.cats = patch.cats] = With(p, [cats |-> patch.cats])
      <4>1. DOMAIN p = {"entry", "ver", "cats"} /\ IsPage(p)
        BY RowColumns DEF Tables
      <4>. QED
        BY <4>1 DEF IsPage, With
    <3>3. Y1 = {With(p, [cats |-> patch.cats]) : p \in t.pages}
      BY <2>2, <3>1, PatchRowsIs
    <3>4. {[p EXCEPT !.cats = patch.cats] : p \in t.pages} =
            {With(p, [cats |-> patch.cats]) : p \in t.pages}
      BY <3>2
    <3>5. Y = {[p EXCEPT !.cats = patch.cats] : p \in t.pages}
      BY <2>2
    <3>. QED
      BY <3>3, <3>4, <3>5
  <2>. QED
    BY <2>1, <2>2
<1>. QED
  BY <1>2, <1>3, <1>4, <1>5

\* So is UpdateEntry, and nothing when the entry is not there.
LEMMA UpdateEntryMatches ==
  ASSUME NEW t, Tables(t), Keys(t), NEW id, NEW patch
  PROVE  /\ \A old \in t.entries :
              old.id = id => UpdateEntry(t, old, patch) = Fake!UpdateEntry(t, id, patch)
         /\ {e \in t.entries : e.id = id} = {} => Fake!UpdateEntry(t, id, patch) = t
<1>. DEFINE hit == {e \in t.entries : e.id = id}
            E == {IF e \in hit THEN With(e, patch) ELSE e : e \in t.entries}
<1>1. Fake!UpdateEntry(t, id, patch) = [t EXCEPT !.entries = E]
  <2>1. Fake!PatchRows(t.entries, hit, patch) = E
    BY PatchSomeIs
  <2>2. Fake!UpdateEntry(t, id, patch) =
          [t EXCEPT !.entries = Fake!PatchRows(t.entries, hit, patch)]
    BY DEF Fake!UpdateEntry, Tables
  <2>. QED
    BY <2>1, <2>2
<1>2. ASSUME NEW old \in t.entries, old.id = id
      PROVE  UpdateEntry(t, old, patch) = Fake!UpdateEntry(t, id, patch)
  <2>1. \A e \in t.entries : e.id = id <=> e = old
    BY <1>2 DEF Keys
  <2>2. {IF e.id = old.id THEN With(old, patch) ELSE e : e \in t.entries} = E
    BY <1>2, <2>1
  <2>. QED
    BY <1>1, <2>2 DEF UpdateEntry
<1>3. ASSUME hit = {} PROVE Fake!UpdateEntry(t, id, patch) = t
  <2>1. E = t.entries
    BY <1>3
  <2>. QED
    BY <1>1, <2>1, ExceptSame
<1>. QED
  BY <1>2, <1>3

\* The team's row, when the team is there.
LEMMA TeamMatches ==
  ASSUME NEW t, Tables(t), Keys(t), NEW x \in t.teams, NEW patch,
         "key" \notin DOMAIN patch
  PROVE  WriteTeam(t, NormalizeTeam(With(x, patch))) =
           [t EXCEPT !.teams = Fake!UpdateTeam(t.teams, x.key, patch)]
<1>1. \A y \in t.teams : y.key = x.key <=> y = x
  BY DEF Keys
<1>2. IsTeam(x)
  BY DEF Tables
<1>3. PICK w : w = NormalizeTeam(With(x, patch))
  OBVIOUS
<1>4. w.key = x.key
  <2>1. IsTeam(With(x, patch)) /\ With(x, patch).key = x.key
    BY <1>2, TeamWith, WithColumns, RowColumns
  <2>. QED
    BY <1>3, <2>1, NormalizeTeamIs
<1>5. Fake!LeadersJoin(Fake!Patched(x, patch)) = w
  BY <1>3 DEF Fake!LeadersJoin, Fake!Patched, NormalizeTeam, With
<1>6. Fake!UpdateTeam(t.teams, x.key, patch) =
        {IF y.key = w.key THEN w ELSE y : y \in t.teams}
  <2>1. \A y \in t.teams :
          (IF y.key = x.key THEN Fake!LeadersJoin(Fake!Patched(y, patch)) ELSE y) =
             IF y.key = w.key THEN w ELSE y
    BY <1>1, <1>4, <1>5
  <2>. QED
    BY <2>1 DEF Fake!UpdateTeam
<1>. QED
  BY <1>3, <1>6 DEF WriteTeam

\* The teams with other members of x.
Manned(teams, x, members) ==
  {IF y.key = x.key THEN [x EXCEPT !.members = members] ELSE y : y \in teams}

\* The members that are written back are those of the team.
LEMMA MembersWritten ==
  ASSUME NEW t, Keys(t), NEW x \in t.teams, NEW members
  PROVE  WriteMembers(t, x.key, members) = [t EXCEPT !.teams = Manned(t.teams, x, members)]
<1>1. \A y \in t.teams : y.key = x.key <=> y = x
  BY DEF Keys
<1>2. {IF y.key = x.key THEN [y EXCEPT !.members = members] ELSE y : y \in t.teams} =
      Manned(t.teams, x, members)
  BY <1>1 DEF Manned
<1>. QED
  BY <1>2 DEF WriteMembers

\* And when it is not.
LEMMA TeamMissing ==
  ASSUME NEW t, NEW key, {x \in t.teams : x.key = key} = {}
  PROVE  /\ \A patch : Fake!UpdateTeam(t.teams, key, patch) = t.teams
         /\ \A u : Fake!AddTeamMember(t.teams, key, u) = t.teams
         /\ \A u : Fake!RemoveTeamMember(t.teams, key, u) = t.teams
BY DEF Fake!UpdateTeam, Fake!AddTeamMember, Fake!RemoveTeamMember

\* CreateTeam is the in-memory store's.
LEMMA CreateTeamMatches ==
  ASSUME NEW t, Tables(t), NEW new
  PROVE  CreateTeam(t, new) = [t EXCEPT !.teams = Fake!CreateTeam(t.teams, new)]
<1>1. Fake!LeadersJoin(new) = NormalizeTeam(new)
  BY DEF Fake!LeadersJoin, NormalizeTeam
<1>2. CASE \E x \in t.teams : x.key = new.key
  BY <1>2, ExceptSame DEF CreateTeam, Fake!CreateTeam
<1>3. CASE ~ \E x \in t.teams : x.key = new.key
  BY <1>1, <1>3 DEF CreateTeam, Fake!CreateTeam
<1>. QED
  BY <1>2, <1>3

\* The tables with the versions V and the default version "name".
Pointed(t, V, name) ==
  [module |-> {[m EXCEPT !.dflt = name] : m \in t.module}, versions |-> V,
   entries |-> t.entries, pages |-> t.pages, teams |-> t.teams]

\* The versions with no flag.
Down(V) == {[v EXCEPT !.dflt = FALSE] : v \in V}

\* Other versions, and the same default version.
LEMMA PointedWith ==
  ASSUME NEW t, NEW V, NEW X, NEW name
  PROVE  /\ Pointed(t, V, name).versions = V
         /\ [Pointed(t, V, name) EXCEPT !.versions = X] = Pointed(t, X, name)
<1>1. PICK M : M = {[m EXCEPT !.dflt = name] : m \in t.module}
  OBVIOUS
<1>2. \A Y : Pointed(t, Y, name) =
              [module |-> M, versions |-> Y, entries |-> t.entries, pages |-> t.pages,
               teams |-> t.teams]
  BY <1>1 DEF Pointed
<1>3. PICK u : u = Pointed(t, V, name)
  OBVIOUS
<1>4. u = [module |-> M, versions |-> V, entries |-> t.entries, pages |-> t.pages,
           teams |-> t.teams]
  BY <1>2, <1>3
<1>5. /\ u.versions = V
      /\ [u EXCEPT !.versions = X] =
           [module |-> M, versions |-> X, entries |-> t.entries, pages |-> t.pages,
            teams |-> t.teams]
  BY <1>4
<1>. QED
  BY <1>2, <1>3, <1>5

\* PointTo, when all versions have been cleared.
LEMMA ClearedIs ==
  ASSUME NEW t, Tables(t), NEW rows, rows = NamesOf(t), NEW name
  PROVE  PointTo(t, rows, name) = Pointed(t, Down(t.versions), name)
<1>1. {IF v.name \in rows THEN [v EXCEPT !.dflt = FALSE] ELSE v : v \in t.versions} =
      {[v EXCEPT !.dflt = FALSE] : v \in t.versions}
  <2>1. \A v \in t.versions : v.name \in rows
    BY DEF NamesOf
  <2>. QED
    BY <2>1
<1>2. PointTo(t, rows, name) =
        [module |-> {[m EXCEPT !.dflt = name] : m \in t.module},
         versions |-> {IF v.name \in rows THEN [v EXCEPT !.dflt = FALSE] ELSE v
                         : v \in t.versions},
         entries |-> t.entries, pages |-> t.pages, teams |-> t.teams]
  BY PointToIs
<1>. QED
  BY <1>1, <1>2 DEF Pointed, Down

\* A module that is pointed to a version.
LEMMA PointedModules ==
  ASSUME NEW t, Tables(t), NEW name
  PROVE  {With(m, [dflt |-> name]) : m \in t.module} =
         {[m EXCEPT !.dflt = name] : m \in t.module}
<1>1. \A m \in t.module : With(m, [dflt |-> name]) = [m EXCEPT !.dflt = name]
  BY ModulePointed DEF Tables
<1>. QED
  BY <1>1

\* The record of the tables with another set of versions.
LEMMA VersionsShape ==
  ASSUME NEW t, Tables(t), NEW V
  PROVE  /\ Shape([t EXCEPT !.versions = V])
         /\ [t EXCEPT !.versions = V].module = t.module
         /\ [t EXCEPT !.versions = V].versions = V
         /\ [t EXCEPT !.versions = V].entries = t.entries
         /\ [t EXCEPT !.versions = V].pages = t.pages
         /\ [t EXCEPT !.versions = V].teams = t.teams
<1>1. PICK u : u = [t EXCEPT !.versions = V]
  OBVIOUS
<1>2. u = [module |-> t.module, versions |-> V, entries |-> t.entries,
           pages |-> t.pages, teams |-> t.teams]
  BY <1>1, TablesExcept
<1>3. /\ u.module = t.module /\ u.versions = V /\ u.entries = t.entries
      /\ u.pages = t.pages /\ u.teams = t.teams
  BY <1>2
<1>4. Shape(u)
  BY <1>2, <1>3 DEF Shape
<1>. QED
  BY <1>1, <1>3, <1>4

\* The in-memory store puts the version and moves the flag.
LEMMA FakePointedIs ==
  ASSUME NEW t, Tables(t), NEW V, NEW name
  PROVE  Fake!PointTo([t EXCEPT !.versions = V], name) = Pointed(t, Sole(V, name), name)
<1>1. PICK u : u = [t EXCEPT !.versions = V]
  OBVIOUS
<1>2. /\ Shape(u) /\ u.module = t.module /\ u.versions = V /\ u.entries = t.entries
      /\ u.pages = t.pages /\ u.teams = t.teams
  BY <1>1, VersionsShape
<1>3. Fake!PointTo(u, name) =
        [module |-> {With(m, [dflt |-> name]) : m \in u.module},
         versions |-> Sole(u.versions, name),
         entries |-> u.entries, pages |-> u.pages, teams |-> u.teams]
  BY <1>2, FakePointToIs
<1>4. {With(m, [dflt |-> name]) : m \in u.module} = {[m EXCEPT !.dflt = name] : m \in t.module}
  BY <1>2, PointedModules
<1>. QED
  BY <1>1, <1>2, <1>3, <1>4 DEF Pointed

\* CreateVersion is the in-memory store's when it has cleared every version.
LEMMA CreateVersionMatches ==
  ASSUME NEW t, Tables(t), t.module # {}, NEW rows, NEW a, a.dflt \in BOOLEAN,
         a.dflt => rows = NamesOf(t), NEW v,
         v = [name |-> a.ver, title |-> a.ver, dflt |-> a.dflt]
  PROVE  CreateVersion(t, rows, a) = Fake!CreateVersion(t, v)
<1>1. v.name = a.ver /\ v.title = a.ver /\ v.dflt = a.dflt
  OBVIOUS
<1>2. CASE \E w \in t.versions : w.name = a.ver
  BY <1>1, <1>2 DEF CreateVersion, Fake!CreateVersion
<1>3. CASE (~ \E w \in t.versions : w.name = a.ver) /\ ~a.dflt
  BY <1>1, <1>3 DEF CreateVersion, Fake!CreateVersion
<1>4. CASE (~ \E w \in t.versions : w.name = a.ver) /\ a.dflt
  <2>. DEFINE V == Down(t.versions)
              W == t.versions \cup {v}
  <2>1. PICK q : q = PointTo(t, rows, a.ver)
    OBVIOUS
  <2>2. q = Pointed(t, V, a.ver)
    BY <1>4, <2>1, ClearedIs
  <2>3. CreateVersion(t, rows, a) = [q EXCEPT !.versions = q.versions \cup {v}]
    BY <1>4, <2>1 DEF CreateVersion
  <2>4. CreateVersion(t, rows, a) = Pointed(t, V \cup {v}, a.ver)
    <3>1. q.versions = V
      BY <2>2, PointedWith
    <3>2. PICK X : X = V \cup {v}
      OBVIOUS
    <3>3. CreateVersion(t, rows, a) = [q EXCEPT !.versions = X]
      BY <2>3, <3>1, <3>2
    <3>4. [q EXCEPT !.versions = X] = Pointed(t, X, a.ver)
      <4>. HIDE DEF V
      <4>. QED
        BY <2>2, PointedWith
    <3>. QED
      BY <3>2, <3>3, <3>4
  <2>5. Fake!CreateVersion(t, v) = Fake!PointTo([t EXCEPT !.versions = W], a.ver)
    BY <1>1, <1>4 DEF Fake!CreateVersion, Tables
  <2>6. Fake!PointTo([t EXCEPT !.versions = W], a.ver) = Pointed(t, Sole(W, a.ver), a.ver)
    BY FakePointedIs
  <2>7. Sole(W, a.ver) = V \cup {v}
    <3>1. ASSUME NEW w \in t.versions
          PROVE  [w EXCEPT !.dflt = (w.name = a.ver)] = [w EXCEPT !.dflt = FALSE]
      <4>1. (w.name = a.ver) = FALSE
        BY <1>4
      <4>. QED
        BY <4>1
    <3>2. [v EXCEPT !.dflt = (v.name = a.ver)] = v
      <4>1. (v.name = a.ver) = TRUE /\ a.dflt = TRUE
        BY <1>1, <1>4
      <4>2. [v EXCEPT !.dflt = TRUE] = v
        <5>1. IsVersion(v)
          BY DEF IsVersion
        <5>2. /\ IsVersion([v EXCEPT !.dflt = TRUE])
              /\ [v EXCEPT !.dflt = TRUE].name = v.name
              /\ [v EXCEPT !.dflt = TRUE].title = v.title
              /\ [v EXCEPT !.dflt = TRUE].dflt = TRUE
          BY <5>1, VersionExcept
        <5>. QED
          BY <1>1, <4>1, <5>1, <5>2, VersionEq
      <4>. QED
        BY <4>1, <4>2
    <3>3. Sole(W, a.ver) = Sole(t.versions, a.ver) \cup {[v EXCEPT !.dflt = (v.name = a.ver)]}
      BY DEF Sole
    <3>4. Sole(t.versions, a.ver) = V
      <4>. DEFINE s(w) == [w EXCEPT !.dflt = (w.name = a.ver)]
                  f(w) == [w EXCEPT !.dflt = FALSE]
      <4>1. Sole(t.versions, a.ver) = {s(w) : w \in t.versions}
        BY DEF Sole
      <4>2. V = {f(w) : w \in t.versions}
        BY DEF Down
      <4>3. \A w \in t.versions : s(w) = f(w)
        BY <3>1
      <4>. HIDE DEF s, f, V
      <4>. QED
        BY <4>1, <4>2, <4>3
    <3>. HIDE DEF V, W
    <3>. QED
      BY <3>2, <3>3, <3>4
  <2>. QED
    BY <2>4, <2>5, <2>6, <2>7
<1>. QED
  BY <1>2, <1>3, <1>4

\* The in-memory store's UpdateVersion does nothing to a version not there.
LEMMA UpdateVersionMissing ==
  ASSUME NEW t, Tables(t), NEW name, {v \in t.versions : v.name = name} = {},
         NEW patch
  PROVE  Fake!UpdateVersion(t, name, patch) = t
<1>1. Fake!PatchRows(t.versions, {}, [title |-> patch.title]) = t.versions
  BY PatchSomeIs
<1>2. Fake!UpdateVersion(t, name, patch) =
        [t EXCEPT !.versions = Fake!PatchRows(t.versions, {}, [title |-> patch.title])]
  BY DEF Fake!UpdateVersion, Tables
<1>. QED
  BY <1>1, <1>2, ExceptSame

\* A version's row with a new title, and with the flag set or left.
Titled(v, title, flag) == [v EXCEPT !.title = title, !.dflt = flag]

\* However the title and the flag are written.
LEMMA TitledIs ==
  ASSUME NEW v, IsVersion(v), NEW title, NEW flag \in BOOLEAN
  PROVE  /\ Titled(v, title, flag) = [name |-> v.name, title |-> title, dflt |-> flag]
         /\ [With(v, [title |-> title]) EXCEPT !.dflt = flag] = Titled(v, title, flag)
         /\ With(v, [title |-> title]) = Titled(v, title, v.dflt)
         /\ With(v, [title |-> title]).name = v.name
<1>1. DOMAIN v = {"name", "title", "dflt"}
  BY RowColumns
<1>2. ASSUME NEW x
      PROVE  Titled(v, title, x) = [name |-> v.name, title |-> title, dflt |-> x]
  <2>1. PICK w : w = Titled(v, title, x)
    OBVIOUS
  <2>2. DOMAIN w = {"name", "title", "dflt"} /\ w = [c \in DOMAIN w |-> w[c]]
    BY <1>1, <2>1 DEF Titled
  <2>3. w.name = v.name /\ w.title = title /\ w.dflt = x
    BY <1>1, <2>1 DEF Titled
  <2>4. w = [name |-> v.name, title |-> title, dflt |-> x]
    BY <2>2, <2>3
  <2>. QED
    BY <2>1, <2>4
<1>3. With(v, [title |-> title]) = [name |-> v.name, title |-> title, dflt |-> v.dflt]
  <2>1. DOMAIN [title |-> title] = {"title"}
    OBVIOUS
  <2>. QED
    BY <1>1, <2>1 DEF With
<1>4. [With(v, [title |-> title]) EXCEPT !.dflt = flag] =
        [name |-> v.name, title |-> title, dflt |-> flag]
  BY <1>3
<1>. QED
  BY <1>2, <1>3, <1>4

\* UpdateVersion is the in-memory store's when the row that was read is the
\* row, and every version has been cleared.
LEMMA UpdateVersionMatches ==
  ASSUME NEW t, Tables(t), Keys(t), NEW rows, NEW old \in t.versions,
         NEW patch,
         patch.dflt \in BOOLEAN, patch.dflt => rows = NamesOf(t)
  PROVE  UpdateVersion(t, rows, old, patch) = Fake!UpdateVersion(t, old.name, patch)
<1>. DEFINE hit == {v \in t.versions : v.name = old.name}
            name == old.name
            title == patch.title
            new == Titled(old, title, old.dflt \/ patch.dflt)
            W == {IF v = old THEN With(v, [title |-> title]) ELSE v : v \in t.versions}
<1>1. IsVersion(old) /\ old.dflt \in BOOLEAN /\ (old.dflt \/ patch.dflt) \in BOOLEAN
  BY DEF Tables, IsVersion
<1>2. \A v \in t.versions : v.name = old.name <=> v = old
  BY DEF Keys
<1>3. Fake!PatchRows(t.versions, hit, [title |-> title]) = W
  <2>1. hit = {old}
    BY <1>2
  <2>2. Fake!PatchRows(t.versions, {old}, [title |-> title]) =
          {IF v \in {old} THEN With(v, [title |-> title]) ELSE v : v \in t.versions}
    BY PatchSomeIs
  <2>. QED
    BY <2>1, <2>2
<1>4. Fake!UpdateVersion(t, old.name, patch) =
        IF patch.dflt THEN Fake!PointTo([t EXCEPT !.versions = W], old.name)
        ELSE [t EXCEPT !.versions = W]
  <2>1. hit # {}
    OBVIOUS
  <2>2. Fake!UpdateVersion(t, old.name, patch) =
          IF hit # {} /\ patch.dflt
          THEN Fake!PointTo([t EXCEPT !.versions = Fake!PatchRows(t.versions, hit, [title |-> title])], old.name)
          ELSE [t EXCEPT !.versions = Fake!PatchRows(t.versions, hit, [title |-> title])]
    BY DEF Fake!UpdateVersion, Tables
  <2>. HIDE DEF W, hit, title
  <2>. QED
    BY <1>3, <2>1, <2>2
<1>5. CASE ~patch.dflt
  <2>1. UpdateVersion(t, rows, old, patch) =
          [t EXCEPT !.versions = {IF v.name = old.name THEN new ELSE v : v \in @}]
    BY <1>5 DEF UpdateVersion, Titled
  <2>2. (old.dflt \/ patch.dflt) = old.dflt
    BY <1>1, <1>5
  <2>3. With(old, [title |-> title]) = new
    BY <1>1, <2>2, TitledIs
  <2>4. {IF v.name = old.name THEN new ELSE v : v \in t.versions} = W
    BY <1>2, <2>3
  <2>. QED
    BY <1>4, <1>5, <2>1, <2>4
<1>6. CASE patch.dflt
  <2>. DEFINE V == Down(t.versions)
              U == {IF v.name = old.name THEN new ELSE v : v \in V}
  <2>1. PICK q : q = PointTo(t, rows, old.name)
    OBVIOUS
  <2>2. q = Pointed(t, V, old.name)
    BY <1>6, <2>1, ClearedIs
  <2>3. UpdateVersion(t, rows, old, patch) =
          [q EXCEPT !.versions = {IF v.name = old.name THEN new ELSE v : v \in q.versions}]
    BY <1>6, <2>1 DEF UpdateVersion, Titled
  <2>4. UpdateVersion(t, rows, old, patch) = Pointed(t, U, old.name)
    <3>1. q.versions = V
      BY <2>2, PointedWith
    <3>2. UpdateVersion(t, rows, old, patch) = [q EXCEPT !.versions = U]
      BY <2>3, <3>1
    <3>. HIDE DEF U, V
    <3>. QED
      BY <2>2, <3>2, PointedWith
  <2>5. Fake!PointTo([t EXCEPT !.versions = W], old.name) = Pointed(t, Sole(W, old.name), old.name)
    <3>. HIDE DEF W
    <3>. QED
      BY FakePointedIs
  <2>6. U = Sole(W, old.name)
    <3>. DEFINE h(v) == IF v = old THEN With(v, [title |-> title]) ELSE v
                f(v) == [v EXCEPT !.dflt = FALSE]
                g(v) == IF v.name = old.name THEN new ELSE v
                s(v) == [v EXCEPT !.dflt = (v.name = old.name)]
    <3>1. ASSUME NEW v \in t.versions PROVE g(f(v)) = s(h(v))
      <4>1. IsVersion(v) /\ f(v).name = v.name
        BY VersionExcept DEF Tables
      <4>2. CASE v = old
        <5>1. (old.dflt \/ patch.dflt) = TRUE
          BY <1>6
        <5>2. /\ h(v).name = old.name
              /\ [h(v) EXCEPT !.dflt = TRUE] = Titled(old, title, TRUE)
          BY <1>1, <4>2, TitledIs
        <5>3. (h(v).name = old.name) = TRUE
          BY <5>2
        <5>. QED
          BY <4>1, <4>2, <5>1, <5>2, <5>3
      <4>3. CASE v # old
        <5>1. (v.name = old.name) = FALSE /\ h(v) = v
          BY <1>2, <4>3
        <5>. QED
          BY <4>1, <5>1
      <4>. QED
        BY <4>2, <4>3
    <3>2. U = {g(f(v)) : v \in t.versions}
      BY DEF Down
    <3>3. Sole(W, old.name) = {s(h(v)) : v \in t.versions}
      BY DEF Sole
    <3>. HIDE DEF U, W, f, g, h, s
    <3>. QED
      BY <3>1, <3>2, <3>3
  <2>. QED
    BY <1>4, <1>6, <2>4, <2>5, <2>6
<1>. QED
  BY <1>5, <1>6

-----------------------------------------------------------------------------
(***************************************************************************)
(* The ends of the requests.                                               *)
(***************************************************************************)

\* A record of the columns of a request is not the one of an idle request.
LEMMA NotIdle == ASSUME NEW c, "by" \in DOMAIN c PROVE c # Idle
<1>1. DOMAIN Idle = {"step"}
  BY DEF Idle
<1>. QED
  BY <1>1

\* A request ends with its write, because there is no row to read, or aborted.
LEMMA Ends ==
  ASSUME CatalogInv, [Next]_vars, NEW r \in Active, call'[r] = Idle
  PROVE  \/ Read(r) /\ Target(Ask(r)) = {}
         \/ Write(r)
         \/ Deadlock(r)
<1>1. r \in Request /\ call[r] # Idle /\ call = [q \in Request |-> call[q]] /\ Fits(r)
  BY DEF Active, CatalogInv, CallInv
<1>2. DOMAIN call[r] = {"step", "by", "n", "ask", "seen", "rows", "held"}
  BY <1>1 DEF Fits
<1>3. ASSUME NEW q \in Request, NEW c,
             call' = [call EXCEPT ![q] = c] PROVE q = r /\ c = Idle
  BY <1>1, <1>3
<1>4. ASSUME NEW q \in Request, NEW u \in User, NEW a \in Asks,
             Begin(q, u, a) PROVE FALSE
  <2>1. call[q] = Idle /\ \E c : call' = [call EXCEPT ![q] = c]
    BY <1>4 DEF Begin
  <2>. QED
    BY <1>1, <1>3, <2>1
<1>5. ASSUME NEW q \in Request, Read(q) PROVE Read(r) /\ Target(Ask(r)) = {}
  <2>1. q = r
    BY <1>3, <1>5 DEF Read
  <2>2. CASE Target(Ask(r)) # {}
    <3>. DEFINE c == [call[r] EXCEPT !.seen = Target(Ask(r)),
                                     !.step = IF SetsDefault(Ask(r)) THEN "clear" ELSE "write"]
    <3>1. call'[r] = c
      BY <1>1, <1>5, <2>1, <2>2 DEF Read
    <3>2. c # Idle
      BY <1>2, NotIdle
    <3>. QED
      BY <3>1, <3>2
  <2>. QED
    BY <1>5, <2>1, <2>2
<1>6. ASSUME NEW q \in Request, LockModule(q) PROVE FALSE
  <2>. DEFINE c == [call[q] EXCEPT !.step = "clear", !.seen = db.module]
  <2>1. call' = [call EXCEPT ![q] = c]
    BY <1>1, <1>6 DEF LockModule
  <2>. HIDE DEF c
  <2>2. q = r /\ c = Idle
    BY <1>3, <2>1
  <2>. QED
    BY <1>2, <2>2, NotIdle DEF c
<1>7. ASSUME NEW q \in Request, Clear(q) PROVE FALSE
  <2>. DEFINE c == [call[q] EXCEPT !.step = IF db.versions = {} THEN "write" ELSE "rows",
                                   !.rows = {v.name : v \in db.versions}]
  <2>1. call' = [call EXCEPT ![q] = c]
    BY <1>1, <1>7 DEF Clear
  <2>. HIDE DEF c
  <2>2. q = r /\ c = Idle
    BY <1>3, <2>1
  <2>. QED
    BY <1>2, <2>2, NotIdle DEF c
<1>8. ASSUME NEW q \in Request, LockRow(q) PROVE FALSE
  <2>1. PICK v : call' = [call EXCEPT ![q].held = @ \cup {v},
                                      ![q].step = IF call[q].held \cup {v} = call[q].rows
                                                  THEN "write" ELSE @]
    BY <1>8 DEF LockRow
  <2>. DEFINE c == [call[q] EXCEPT !.held = @ \cup {v},
                                   !.step = IF call[q].held \cup {v} = call[q].rows
                                            THEN "write" ELSE @]
  <2>2. call' = [call EXCEPT ![q] = c]
    BY <1>1, <2>1
  <2>. HIDE DEF c
  <2>3. q = r /\ c = Idle
    BY <1>3, <2>2
  <2>. QED
    BY <1>2, <2>3, NotIdle DEF c
<1>9. ASSUME NEW q \in Request, Write(q) PROVE q = r
  BY <1>3, <1>9 DEF Write
<1>10. ASSUME NEW q \in Request, Deadlock(q) PROVE q = r
  BY <1>3, <1>10 DEF Deadlock
<1>11. CASE Rest \/ UNCHANGED vars
  BY <1>1, <1>11 DEF Rest, vars
<1>. QED
  BY <1>4, <1>5, <1>6, <1>7, <1>8, <1>9, <1>10, <1>11 DEF Next

\* The deploy that holds the module when it writes.
LEMMA DeployMatches ==
  ASSUME CatalogInv, NEW r \in Active, Ask(r).op = "Deploy",
         call[r].step = "write"
  PROVE  Effect(r) = Sequential(r)
<1>. DEFINE a == Ask(r)
            d == [ver |-> a.ver, name |-> a.name, entries |-> NewEntries(call[r].n, a),
                  pages |-> {[entry |-> <<call[r].n, key>>, ver |-> a.ver] : key \in a.keys}]
<1>1. r \in Request /\ call[r] # Idle /\ Fits(r)
  BY DEF Active, CatalogInv, CallInv
<1>2. HoldsModule(r)
  BY <1>1 DEF HoldsModule
<1>3. call[r].seen = db.module /\ call[r].rows = NamesOf(db) /\ db.module # {}
  BY <1>1, <1>2 DEF CatalogInv, LockInv, Names, NamesOf, Fits
<1>4. Tables(db) /\ Keys(db)
  BY DEF CatalogInv, TypeOK
<1>5. PICK now : db.module = {now}
  <2>1. \A m, k \in db.module : m = k
    BY <1>4 DEF Keys
  <2>. QED
    BY <1>3, <2>1
<1>6. Effect(r) = IngestArtifact(db, call[r].rows, now, call[r].n, a)
  <2>1. The(call[r].seen) = now
    BY <1>3, <1>5 DEF The
  <2>. QED
    BY <2>1 DEF Effect, ModuleOps
<1>7. Sequential(r) = Fake!IngestArtifact(db, d)
  BY DEF Sequential, ModuleOps
<1>8. /\ d.ver = a.ver /\ d.name = a.name /\ d.entries = NewEntries(call[r].n, a)
      /\ d.pages = {[entry |-> <<call[r].n, key>>, ver |-> a.ver] : key \in a.keys}
  OBVIOUS
<1>. HIDE DEF d, a
<1>9. IngestArtifact(db, call[r].rows, now, call[r].n, a) = Fake!IngestArtifact(db, d)
  BY <1>3, <1>4, <1>5, <1>8, IngestMatches
<1>. QED
  BY <1>6, <1>7, <1>9

\* A deploy is one step of the in-memory store, at its commit, whatever requests
\* run beside it; or it is aborted and changes nothing.
THEOREM DeployIsAtomic == Spec => IngestIsAtomic
<1>. DEFINE Atomic == \A r \in Active :
              Ask(r).op = "Deploy" /\ call'[r] = Idle =>
                db' = IF Blockers(r) = {} THEN Sequential(r) ELSE db
<1>1. ASSUME CatalogInv, [Next]_vars PROVE Atomic
  <2>. SUFFICES ASSUME NEW r \in Active, Ask(r).op = "Deploy", call'[r] = Idle
                PROVE  db' = IF Blockers(r) = {} THEN Sequential(r) ELSE db
    OBVIOUS
  <2>1. \/ Read(r) /\ Target(Ask(r)) = {}
        \/ Write(r)
        \/ Deadlock(r)
    BY <1>1, Ends
  <2>2. ~Read(r)
    BY <1>1 DEF Active, CatalogInv, CallInv, Fits, Read
  <2>3. CASE Deadlock(r)
    BY <2>3 DEF Deadlock
  <2>4. CASE Write(r)
    BY <1>1, <2>4, DeployMatches DEF Write
  <2>. QED
    BY <2>1, <2>2, <2>3, <2>4
<1>2. CatalogInv /\ [Next]_vars => [Atomic]_vars
  BY <1>1
<1>. QED
  BY <1>2, CatalogInvariant, PTL DEF Spec, IngestIsAtomic

\* A request that no other has run beside, and that has read what it is about,
\* writes what the in-memory store would.
LEMMA QuietMatches ==
  ASSUME CatalogInv, NEW r \in alone, r \in Active, call[r].step = "write",
         ~Parts(Ask(r))
  PROVE  Effect(r) = Sequential(r)
<1>. DEFINE a == Ask(r)
            old == The(call[r].seen)
            rows == call[r].rows
            k == call[r].n
<1>1. Tables(db) /\ Keys(db)
  BY DEF CatalogInv, TypeOK
<1>2. Legal(a) /\ Sees(r)
  BY DEF CatalogInv, CallInv, Fits
<1>3. /\ a.op \notin Unread => call[r].seen = Target(a)
      /\ SetsDefault(a) => rows = NamesOf(db)
  BY DEF CatalogInv, QuietInv, Names, NamesOf
<1>4. CASE a.op = "CreateModule"
  BY <1>1, <1>4
     DEF Effect, Sequential, ModuleOps, CreateModule, Fake!CreateModule
<1>5. CASE a.op \in ModuleOps
  <2>1. call[r].seen = db.module /\ db.module # {}
    BY <1>2, <1>3, <1>5 DEF Sees, Target, ModuleOps, TeamOps, Unread
  <2>2. PICK now : db.module = {now}
    <3>1. \A m, l \in db.module : m = l
      BY <1>1 DEF Keys
    <3>. QED
      BY <2>1, <3>1
  <2>3. old = now
    BY <2>1, <2>2 DEF The
  <2>4. "by" \notin DOMAIN a.patch
    BY <1>5 DEF Parts
  <2>5. Effect(r) = UpdateModule(db, now, a.patch)
    BY <1>5, <2>3 DEF Effect, ModuleOps
  <2>6. Sequential(r) = Fake!UpdateModule(db, a.patch)
    BY <1>5 DEF Sequential, ModuleOps
  <2>. QED
    BY <1>1, <2>2, <2>4, <2>5, <2>6, UpdateModuleMatches
<1>6. CASE a.op = "CreateVersion"
  <2>. DEFINE v == [name |-> a.ver, title |-> a.ver, dflt |-> a.dflt]
  <2>1. db.module # {} /\ a.dflt \in BOOLEAN /\ (a.dflt => rows = NamesOf(db))
    BY <1>2, <1>3, <1>6 DEF Sees, Legal, SetsDefault
  <2>2. Effect(r) = CreateVersion(db, rows, a)
    BY <1>6 DEF Effect, ModuleOps
  <2>3. Sequential(r) = Fake!CreateVersion(db, v)
    BY <1>6 DEF Sequential, ModuleOps
  <2>. HIDE DEF a
  <2>. QED
    BY <1>1, <2>1, <2>2, <2>3, CreateVersionMatches
<1>7. CASE a.op = "UpdateVersion"
  <2>1. call[r].seen = {v \in db.versions : v.name = a.ver} /\ call[r].seen # {}
    BY <1>2, <1>3, <1>7 DEF Sees, Target, ModuleOps, TeamOps, Unread
  <2>2. old \in db.versions /\ old.name = a.ver
    BY <2>1, TheIn
  <2>3. a.patch.dflt \in BOOLEAN /\ (a.patch.dflt => rows = NamesOf(db))
    BY <1>2, <1>3, <1>7 DEF Legal, SetsDefault
  <2>4. Effect(r) = UpdateVersion(db, rows, old, a.patch)
    BY <1>7 DEF Effect, ModuleOps
  <2>5. Sequential(r) = Fake!UpdateVersion(db, a.ver, a.patch)
    BY <1>7 DEF Sequential, ModuleOps
  <2>. QED
    BY <1>1, <2>2, <2>3, <2>4, <2>5, UpdateVersionMatches
<1>8. CASE a.op = "CreateEntry"
  <2>1. db.module # {} /\ ~ \E e \in db.entries : e.ver = a.ver /\ e.key = a.key
    BY <1>2, <1>8 DEF Sees, Parts
  <2>. DEFINE e == [id |-> <<k, a.key>>, ver |-> a.ver, key |-> a.key, title |-> a.title]
  <2>2. Effect(r) = [db EXCEPT !.entries = @ \cup {e}]
    BY <1>8 DEF Effect, ModuleOps, CreateEntry
  <2>3. Sequential(r) = Fake!CreateEntry(db, e)
    BY <1>8 DEF Sequential, ModuleOps
  <2>4. e.ver = a.ver /\ e.key = a.key
    OBVIOUS
  <2>. HIDE DEF e
  <2>. QED
    BY <2>1, <2>2, <2>3, <2>4 DEF Fake!CreateEntry
<1>9. CASE a.op = "UpdateEntry"
  <2>1. call[r].seen = {e \in db.entries : e.id = a.id} /\ call[r].seen # {}
    BY <1>2, <1>3, <1>9 DEF Sees, Target, ModuleOps, TeamOps, Unread
  <2>2. old \in db.entries /\ old.id = a.id
    BY <2>1, TheIn
  <2>3. Effect(r) = UpdateEntry(db, old, a.patch)
    BY <1>9 DEF Effect, ModuleOps
  <2>4. Sequential(r) = Fake!UpdateEntry(db, a.id, a.patch)
    BY <1>9 DEF Sequential, ModuleOps
  <2>. QED
    BY <1>1, <2>2, <2>3, <2>4, UpdateEntryMatches
<1>10. CASE a.op = "DeleteEntry"
  <2>1. ~ \E p \in db.pages : p.entry = a.id
    BY <1>10 DEF Parts
  <2>. QED
    BY <1>10, <2>1
       DEF Effect, Sequential, ModuleOps, DeleteEntry, Fake!DeleteEntry
<1>11. CASE a.op = "Deploy"
  BY <1>11, DeployMatches
<1>12. CASE a.op = "CreateTeam"
  <2>1. Effect(r) = CreateTeam(db, a.team)
    BY <1>12 DEF Effect, ModuleOps
  <2>2. Sequential(r) = [db EXCEPT !.teams = Fake!CreateTeam(db.teams, a.team)]
    BY <1>12 DEF Sequential, ModuleOps
  <2>. QED
    BY <1>1, <2>1, <2>2, CreateTeamMatches
<1>13. CASE a.op \in TeamOps
  <2>1. call[r].seen = {x \in db.teams : x.key = a.key} /\ call[r].seen # {}
    BY <1>2, <1>3, <1>13 DEF Sees, Target, ModuleOps, TeamOps, Unread
  <2>2. old \in db.teams /\ old.key = a.key
    BY <2>1, TheIn
  <2>3. CASE a.op = "UpdateTeam"
    <3>1. Effect(r) = WriteTeam(db, NormalizeTeam(With(old, a.patch)))
      BY <2>3 DEF Effect, ModuleOps
    <3>2. Sequential(r) = [db EXCEPT !.teams = Fake!UpdateTeam(db.teams, a.key, a.patch)]
      BY <2>3 DEF Sequential, ModuleOps
    <3>3. "key" \notin DOMAIN a.patch
      BY <1>2, <2>3 DEF Legal
    <3>. HIDE DEF old
    <3>. QED
      BY <1>1, <2>2, <3>1, <3>2, <3>3, TeamMatches
  <2>4. \A y \in db.teams : y.key = old.key <=> y = old
    BY <1>1, <2>2 DEF Keys
  <2>5. CASE a.op = "AddTeamMember"
    <3>1. Effect(r) = WriteMembers(db, a.key, old.members \cup {a.user})
      BY <2>5 DEF Effect, ModuleOps
    <3>2. Sequential(r) = [db EXCEPT !.teams = Fake!AddTeamMember(db.teams, a.key, a.user)]
      BY <2>5 DEF Sequential, ModuleOps
    <3>. HIDE DEF old
    <3>3. Fake!AddTeamMember(db.teams, old.key, a.user) =
            Manned(db.teams, old, old.members \cup {a.user})
      BY <2>2, <2>4 DEF Manned, Fake!AddTeamMember
    <3>4. WriteMembers(db, old.key, old.members \cup {a.user}) =
            [db EXCEPT !.teams = Manned(db.teams, old, old.members \cup {a.user})]
      BY <1>1, <2>2, MembersWritten
    <3>. QED
      BY <2>2, <3>1, <3>2, <3>3, <3>4
  <2>6. CASE a.op = "RemoveTeamMember"
    <3>1. Effect(r) = WriteMembers(db, a.key, old.members \ {a.user})
      BY <2>6 DEF Effect, ModuleOps
    <3>2. Sequential(r) = [db EXCEPT !.teams = Fake!RemoveTeamMember(db.teams, a.key, a.user)]
      BY <2>6 DEF Sequential, ModuleOps
    <3>. HIDE DEF old
    <3>3. Fake!RemoveTeamMember(db.teams, old.key, a.user) =
            Manned(db.teams, old, old.members \ {a.user})
      BY <2>2, <2>4 DEF Manned, Fake!RemoveTeamMember
    <3>4. WriteMembers(db, old.key, old.members \ {a.user}) =
            [db EXCEPT !.teams = Manned(db.teams, old, old.members \ {a.user})]
      BY <1>1, <2>2, MembersWritten
    <3>. QED
      BY <2>2, <3>1, <3>2, <3>3, <3>4
  <2>. QED
    BY <1>13, <2>3, <2>5, <2>6 DEF TeamOps
<1>14. CASE a.op = "DeleteTeam"
  BY <1>14 DEF Effect, Sequential, ModuleOps, DeleteTeam, Fake!DeleteTeam
<1>. QED
  BY <1>2, <1>4, <1>5, <1>6, <1>7, <1>8, <1>9, <1>10, <1>11, <1>12, <1>13,
     <1>14
     DEF Legal, ModuleOps, TeamOps

\* Nor does the in-memory store change anything when the row is not there.
LEMMA MissMatches ==
  ASSUME CatalogInv, NEW r \in Active, Ask(r).op \notin Unread,
         Target(Ask(r)) = {},
         ~Parts(Ask(r))
  PROVE  Sequential(r) = db
<1>. DEFINE a == Ask(r)
<1>1. Tables(db) /\ Keys(db)
  BY DEF CatalogInv, TypeOK
<1>2. Legal(a)
  BY DEF CatalogInv, CallInv, Fits
<1>3. CASE a.op \in ModuleOps
  <2>1. db.module = {}
    BY <1>3 DEF Target, ModuleOps, TeamOps
  <2>. QED
    BY <1>3, <2>1 DEF Sequential, ModuleOps, Fake!UpdateModule
<1>4. CASE a.op = "CreateVersion"
  <2>1. db.module = {}
    BY <1>4 DEF Target, ModuleOps, TeamOps
  <2>. QED
    BY <1>4, <2>1 DEF Sequential, ModuleOps, Fake!CreateVersion
<1>5. CASE a.op = "UpdateVersion"
  <2>1. {v \in db.versions : v.name = a.ver} = {}
    BY <1>5 DEF Target, ModuleOps, TeamOps
  <2>2. Sequential(r) = Fake!UpdateVersion(db, a.ver, a.patch)
    BY <1>5 DEF Sequential, ModuleOps
  <2>. QED
    BY <1>1, <2>1, <2>2, UpdateVersionMissing
<1>6. a.op # "CreateEntry"
  BY DEF Target, ModuleOps, TeamOps, Parts
<1>7. CASE a.op = "UpdateEntry"
  <2>1. {e \in db.entries : e.id = a.id} = {}
    BY <1>7 DEF Target, ModuleOps, TeamOps
  <2>2. Sequential(r) = Fake!UpdateEntry(db, a.id, a.patch)
    BY <1>7 DEF Sequential, ModuleOps
  <2>. QED
    BY <1>1, <2>1, <2>2, UpdateEntryMatches
<1>8. CASE a.op \in TeamOps
  <2>1. {x \in db.teams : x.key = a.key} = {}
    BY <1>8 DEF Target, ModuleOps, TeamOps
  <2>2. CASE a.op = "UpdateTeam"
    <3>1. Sequential(r) = [db EXCEPT !.teams = Fake!UpdateTeam(db.teams, a.key, a.patch)]
      BY <2>2 DEF Sequential, ModuleOps
    <3>2. Fake!UpdateTeam(db.teams, a.key, a.patch) = db.teams
      BY <2>1, TeamMissing
    <3>. QED
      BY <1>1, <3>1, <3>2, ExceptSame
  <2>3. CASE a.op = "AddTeamMember"
    <3>1. Sequential(r) = [db EXCEPT !.teams = Fake!AddTeamMember(db.teams, a.key, a.user)]
      BY <2>3 DEF Sequential, ModuleOps
    <3>2. Fake!AddTeamMember(db.teams, a.key, a.user) = db.teams
      BY <2>1, TeamMissing
    <3>. QED
      BY <1>1, <3>1, <3>2, ExceptSame
  <2>4. CASE a.op = "RemoveTeamMember"
    <3>1. Sequential(r) = [db EXCEPT !.teams = Fake!RemoveTeamMember(db.teams, a.key, a.user)]
      BY <2>4 DEF Sequential, ModuleOps
    <3>2. Fake!RemoveTeamMember(db.teams, a.key, a.user) = db.teams
      BY <2>1, TeamMissing
    <3>. QED
      BY <1>1, <3>1, <3>2, ExceptSame
  <2>. QED
    BY <1>8, <2>2, <2>3, <2>4 DEF TeamOps
<1>. QED
  BY <1>2, <1>3, <1>4, <1>5, <1>6, <1>7, <1>8
     DEF Legal, Unread, ModuleOps, TeamOps

\* A request that no other has run beside does what the in-memory store does, but
\* for Parts: what the tests show of that store holds of PostgreSQL.
THEOREM QuietSequential == Spec => QuietIsSequential
<1>. DEFINE Quiet == \A r \in alone :
              call[r] # Idle /\ call'[r] = Idle /\ ~Parts(Ask(r)) => db' = Sequential(r)
<1>1. ASSUME CatalogInv, [Next]_vars PROVE Quiet
  <2>. SUFFICES ASSUME NEW r \in alone, call[r] # Idle, call'[r] = Idle,
                       ~Parts(Ask(r))
                PROVE  db' = Sequential(r)
    OBVIOUS
  <2>0. alone \subseteq Request
    BY <1>1 DEF CatalogInv, QuietInv
  <2>1. r \in Active
    BY <2>0 DEF Active
  <2>2. \/ Read(r) /\ Target(Ask(r)) = {}
        \/ Write(r)
        \/ Deadlock(r)
    BY <1>1, <2>1, Ends
  <2>3. CASE Read(r) /\ Target(Ask(r)) = {}
    <3>1. Ask(r).op \notin Unread
      BY <1>1, <2>1, <2>3 DEF CatalogInv, CallInv, Fits, Read
    <3>. QED
      BY <1>1, <2>1, <2>3, <3>1, MissMatches DEF Read
  <2>4. CASE Write(r)
    BY <1>1, <2>1, <2>4, QuietMatches DEF Write
  <2>5. ~Deadlock(r)
    <3>1. Active = {r}
      BY <1>1, <2>1 DEF CatalogInv, QuietInv
    <3>2. \A q \in Request \ {r} : call[q] = Idle
      BY <3>1 DEF Active
    <3>3. Blockers(r) = {}
      BY <3>2 DEF Blockers, HoldsModule, HoldsVersion
    <3>. QED
      BY <3>3 DEF Deadlock
  <2>. QED
    BY <2>2, <2>3, <2>4, <2>5
<1>2. CatalogInv /\ [Next]_vars => [Quiet]_vars
  BY <1>1
<1>. QED
  BY <1>2, CatalogInvariant, PTL DEF Spec, QuietIsSequential

=============================================================================
