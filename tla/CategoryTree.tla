---------------------------- MODULE CategoryTree ----------------------------
(***************************************************************************)
(* The category tree (docs_category: a parent and a sort order per row)    *)
(* and the admin requests that change it, as concurrent transactions of    *)
(* store/postgres_catalog.go.  MoveCategory locks the row it moves and the *)
(* rows it will renumber, but checks for cycles on an unlocked snapshot of *)
(* the ancestors and sorts the siblings before it has locked them;         *)
(* UpdateCategory writes back the row it read.                             *)
(*                                                                         *)
(* Locks: FOR UPDATE excludes every other lock; the foreign key of         *)
(* parent_id takes a KEY SHARE lock on the new parent, which only          *)
(* FOR UPDATE excludes.  Ids are numbers, ordered as the SQL orders them.  *)
(***************************************************************************)
EXTENDS Integers, FiniteSets, SequencesExt

CONSTANTS
  Category,      \* ids of categories, positive numbers
  Tree,          \* the initial tree: a parent for the ids that exist
  Request,       \* the requests that are served at the same time
  None,
  Kinds,         \* the kinds of request
  Edited,        \* the ids, with the new parent, of calls to UpdateCategory
  SortOrder,     \* sort orders that clients send
  Index,         \* positions that clients send
  MaxAsked       \* how many requests there are

Root == 0   \* a NULL parent_id

ASSUME TreeAssumption ==
  /\ Category \subseteq Nat \ {Root}
  /\ DOMAIN Tree \subseteq Category
  /\ \A c \in DOMAIN Tree : Tree[c] \in DOMAIN Tree \cup {Root}
  /\ \A S \in SUBSET DOMAIN Tree : S # {} => \E c \in S : Tree[c] \notin S
  /\ None \notin Request
  /\ Kinds \subseteq {"create", "move", "update", "delete"}
  /\ Edited \subseteq Category \X (Category \cup {Root})
  /\ 0 \in SortOrder /\ SortOrder \subseteq Nat
  /\ Index \subseteq Int
  /\ MaxAsked \in Nat

VARIABLES
  cats,      \* ids of the rows
  parent,    \* parent[c]: the parent_id of the row
  order,     \* order[c]: its sort_order
  xlock,     \* xlock[c]: the request that holds the row FOR UPDATE
  shared,    \* shared[r]: the row that r holds FOR KEY SHARE
  pc,        \* pc[r]: the next statement of r
  req,       \* req[r]: what r asks for: [kind, id, to, at]
  seen,      \* seen[r]: what r has read: the new siblings, or the row
  asked,     \* how many requests have begun
  \* History, which no step reads but to record it:
  edited,    \* whether an UpdateCategory has changed a parent
  overtaken, \* the moves whose new ancestors changed after their check
  raced,     \* whether one of them has committed
  resorted   \* the moves with a sibling that got another order after the sort

tree == <<cats, parent, order, edited, raced>>
locks == <<xlock, shared>>
marks == <<overtaken, resorted>>
vars == <<tree, locks, marks, pc, req, seen, asked>>

Counted == asked < MaxAsked /\ asked' = asked + 1

\* "to" is the parent asked for, "at" the position or the sort order.
Free(c, r) == xlock[c] \in {None, r}

Unshared(c, r) == \A s \in Request \ {r} : shared[s] # c

\* The foreign key check of a parent_id that is set to p.
MayShare(p, r) == p # Root => Free(p, r)

Goes(r, from, to) == pc[r] = from /\ pc' = [pc EXCEPT ![r] = to]

\* The smallest set that contains p and the parents of its members: the
\* recursive query of MoveCategory.
Chain(p) ==
  {c \in cats : \A S \in SUBSET cats :
     p \in S /\ (\A x \in S : parent[x] \in S \cup {Root}) => c \in S}

\* UNION ALL never ends on a chain that does not reach a row without parent.
Terminates(p) == \E c \in Chain(p) : parent[c] = Root

Children(p) == {c \in cats : parent[c] = p}

Before(a, b) == order[a] < order[b] \/ (order[a] = order[b] /\ a < b)

\* The moves that have checked their new ancestors.
Checked == {q \in Request : pc[q] \in {"siblings", "rows", "link", "commit"}}

\* The moves, but for that of r, whose new ancestors are others than those of
\* their check once the step is done.
Overtaken(r) ==
  {q \in Request \ {r} :
     \/ q \in overtaken
     \/ /\ q \in Checked
        /\ \/ req[q].to \in cats' \ cats
           \/ \E y \in Chain(req[q].to) : parent'[y] # parent[y]}

Resorted(r) ==
  {q \in Request \ {r} :
     \/ q \in resorted
     \/ pc[q] = "rows" /\ \E x \in ToSet(seen[q]) : order'[x] # order[x]}

\* The end of a transaction; an aborted one ends the same way.
Ends(r) ==
  /\ pc' = [pc EXCEPT ![r] = "idle"]
  /\ req' = [req EXCEPT ![r] = None]
  /\ seen' = [seen EXCEPT ![r] = <<>>]
  /\ xlock' = [c \in Category |-> IF xlock[c] = r THEN None ELSE xlock[c]]
  /\ shared' = [shared EXCEPT ![r] = Root]
  /\ overtaken' = Overtaken(r)
  /\ resorted' = Resorted(r)

-----------------------------------------------------------------------------
Init ==
  /\ cats = DOMAIN Tree
  /\ parent = [c \in Category |-> IF c \in cats THEN Tree[c] ELSE Root]
  /\ order = [c \in Category |-> 0]
  /\ xlock = [c \in Category |-> None]
  /\ shared = [r \in Request |-> Root]
  /\ pc = [r \in Request |-> "idle"]
  /\ req = [r \in Request |-> None]
  /\ seen = [r \in Request |-> <<>>]
  /\ asked = 0
  /\ edited = FALSE /\ raced = FALSE
  /\ overtaken = {} /\ resorted = {}

Begin(r, q, at) ==
  /\ q.kind \in Kinds
  /\ Counted
  /\ Goes(r, "idle", at)
  /\ req' = [req EXCEPT ![r] = q]
  /\ UNCHANGED <<tree, locks, marks, seen>>

\* CreateCategory: one INSERT; the id is a key nobody has used, the parent
\* has to exist.
Create(r, c, p, n) ==
  /\ "create" \in Kinds
  /\ Counted
  /\ pc[r] = "idle"
  /\ c \notin cats
  /\ p \in cats \cup {Root}
  /\ MayShare(p, r)
  /\ cats' = cats \cup {c}
  /\ parent' = [parent EXCEPT ![c] = p]
  /\ order' = [order EXCEPT ![c] = n]
  /\ overtaken' = Overtaken(r)
  /\ UNCHANGED <<locks, pc, req, seen, edited, raced, resorted>>

\* DeleteCategory: one DELETE; a child that is there, or that another request
\* is inserting (it holds the row FOR KEY SHARE), keeps the category.  A move
\* that has read the row as a sibling does not get it any more, although the id
\* be used again.
Delete(r, c) ==
  /\ "delete" \in Kinds
  /\ Counted
  /\ pc[r] = "idle"
  /\ c \in cats
  /\ xlock[c] = None /\ Unshared(c, r)
  /\ Children(c) = {}
  /\ cats' = cats \ {c}
  /\ parent' = [parent EXCEPT ![c] = Root]
  /\ order' = [order EXCEPT ![c] = 0]
  /\ seen' = [q \in Request |->
                IF pc[q] = "rows" THEN SelectSeq(seen[q], LAMBDA x : x # c)
                ELSE seen[q]]
  /\ UNCHANGED <<locks, marks, pc, req, edited, raced>>

Move(r, c, p, i) ==
  Begin(r, [kind |-> "move", id |-> c, to |-> p, at |-> i], "lock")

\* SELECT ... FOR UPDATE of the row to move; a category is not its own parent.
LockMoved(r) ==
  LET c == req[r].id
  IN  /\ pc[r] = "lock"
      /\ Free(c, r) /\ Unshared(c, r)
      /\ UNCHANGED <<tree, asked>>
      /\ IF c \in cats /\ req[r].to # c
         THEN /\ Goes(r, "lock", "check")
              /\ xlock' = [xlock EXCEPT ![c] = r]
              /\ UNCHANGED <<shared, marks, req, seen>>
         ELSE Ends(r)

\* Mutant: only the direct parent of the new parent is compared.
AllowedByParent(c, p) == p = Root \/ (p \in cats /\ parent[p] # c)

\* The new parent exists and is not below the row to move.
Allowed(c, p) == p = Root \/ (p \in cats /\ c \notin Chain(p))

CheckAncestors(r) ==
  LET c == req[r].id
      p == req[r].to
  IN  /\ pc[r] = "check"
      /\ p \in cats => Terminates(p)
      /\ UNCHANGED <<tree, asked>>
      /\ IF Allowed(c, p)
         THEN /\ Goes(r, "check", "siblings")
              /\ UNCHANGED <<locks, marks, req, seen>>
         ELSE Ends(r)

\* Mutant: the row to move is not left out of its siblings.
ReadSiblingsWithSelf(r) ==
  /\ Goes(r, "siblings", "rows")
  /\ seen' = [seen EXCEPT ![r] = SetToSortSeq(Children(req[r].to), Before)]
  /\ UNCHANGED <<tree, locks, marks, req, asked>>

\* SELECT ... ORDER BY sort_order, id FOR UPDATE of the new siblings sorts the
\* rows of a snapshot ...
ReadSiblings(r) ==
  /\ Goes(r, "siblings", "rows")
  /\ seen' = [seen EXCEPT ![r] =
                SetToSortSeq(Children(req[r].to) \ {req[r].id}, Before)]
  /\ UNCHANGED <<tree, locks, marks, req, asked>>

\* ... then waits for the lock of each, in that order, and leaves out a row
\* that is not under the new parent any more.
LockSibling(r) ==
  /\ pc[r] = "rows"
  /\ \E k \in DOMAIN seen[r] :
       LET s == seen[r][k]
       IN  /\ xlock[s] # r /\ \A j \in 1 .. k - 1 : xlock[seen[r][j]] = r
           /\ Free(s, r) /\ Unshared(s, r)
           /\ IF s \in Children(req[r].to)
              THEN xlock' = [xlock EXCEPT ![s] = r] /\ UNCHANGED seen
              ELSE seen' = [seen EXCEPT ![r] = RemoveAt(@, k)] /\ UNCHANGED xlock
  /\ UNCHANGED <<tree, shared, marks, pc, req, asked>>

SiblingsLocked(r) ==
  /\ Goes(r, "rows", "link")
  /\ \A s \in ToSet(seen[r]) : xlock[s] = r
  /\ UNCHANGED <<tree, locks, marks, req, seen, asked>>

\* Mutant: parent_id has no foreign key.
LinkParentUnchecked(r) ==
  /\ Goes(r, "link", "commit")
  /\ UNCHANGED <<tree, locks, marks, req, seen, asked>>

\* UPDATE ... SET parent_id: the foreign key.
LinkParent(r) ==
  LET p == req[r].to
  IN  /\ pc[r] = "link"
      /\ MayShare(p, r)
      /\ UNCHANGED <<tree, asked>>
      /\ IF p = Root \/ p \in cats
         THEN /\ Goes(r, "link", "commit")
              /\ shared' = [shared EXCEPT ![r] = p]
              /\ UNCHANGED <<xlock, marks, req, seen>>
         ELSE Ends(r)

\* The siblings with the moved row at the index asked for, which is clamped.
Arranged(r) ==
  LET n == Len(seen[r])
      i == req[r].at
  IN  InsertAt(seen[r], 1 + (IF i < 0 THEN 0 ELSE IF i > n THEN n ELSE i),
               req[r].id)

\* The updates are committed: the parent, and sort orders 10, 20, 30 ...
CommitMove(r) ==
  LET c == req[r].id
      s == Arranged(r)
  IN  /\ pc[r] = "commit"
      /\ parent' = [parent EXCEPT ![c] = req[r].to]
      /\ order' = [x \in Category |->
                     IF \E k \in DOMAIN s : s[k] = x
                     THEN 10 * (CHOOSE k \in DOMAIN s : s[k] = x)
                     ELSE order[x]]
      /\ raced' = (raced \/ r \in overtaken)
      /\ UNCHANGED <<cats, edited, asked>>
      /\ Ends(r)

\* UpdateCategory with an optional new parent (Root stands for none) and an
\* optional new sort order (0 for none).
Update(r, c, p, n) ==
  /\ <<c, p>> \in Edited
  /\ Begin(r, [kind |-> "update", id |-> c, to |-> p, at |-> n], "read")

\* The row is read without a lock ...
ReadRow(r) ==
  LET q == req[r]
      new == <<IF q.to # Root THEN q.to ELSE parent[q.id],
               IF q.at # 0 THEN q.at ELSE order[q.id]>>
  IN  /\ pc[r] = "read"
      /\ UNCHANGED <<tree, asked>>
      /\ IF q.id \in cats
         THEN /\ Goes(r, "read", "write")
              /\ seen' = [seen EXCEPT ![r] = new]
              /\ UNCHANGED <<locks, marks, req>>
         ELSE Ends(r)

\* ... and written back, with the parent and the sort order it had then.
WriteRow(r) ==
  LET c == req[r].id
      p == seen[r][1]
  IN  /\ pc[r] = "write"
      /\ Free(c, r)
      /\ c \in cats /\ parent[c] # p => MayShare(p, r)
      /\ IF c \in cats /\ p \in cats \cup {Root}
         THEN /\ parent' = [parent EXCEPT ![c] = p]
              /\ order' = [order EXCEPT ![c] = seen[r][2]]
         ELSE UNCHANGED <<parent, order>>
      /\ edited' = (edited \/ parent' # parent)
      /\ UNCHANGED <<cats, raced, asked>>
      /\ Ends(r)

\* A deadlock, a lost connection, a process that dies.
Abort(r) ==
  /\ pc[r] # "idle"
  /\ UNCHANGED <<tree, asked>>
  /\ Ends(r)

Next ==
  \E r \in Request :
    \/ \E c \in Category, p \in Category \cup {Root} :
         \/ \E n \in SortOrder : Create(r, c, p, n) \/ Update(r, c, p, n)
         \/ \E i \in Index : Move(r, c, p, i)
    \/ \E c \in Category : Delete(r, c)
    \/ LockMoved(r) \/ CheckAncestors(r) \/ ReadSiblings(r) \/ LockSibling(r)
    \/ SiblingsLocked(r) \/ LinkParent(r) \/ CommitMove(r)
    \/ ReadRow(r) \/ WriteRow(r) \/ Abort(r)

Spec == Init /\ [][Next]_vars

-----------------------------------------------------------------------------
\* Every category hangs below the root: no set of categories has all of its
\* parents in itself.
Acyclic == \A S \in SUBSET cats : S # {} => \E c \in S : parent[c] \notin S

\* Moves make no cycle: "Rejects moves that would create a cycle (into the
\* node's own subtree)", store/catalog_mutations.go; an UpdateCategory that
\* changes a parent is not checked and not covered.
NoCycle == ~edited => Acyclic

\* Moves at the same time make a cycle in one way only: the move of MoveCategory
\* that closes it commits after an ancestor of its new parent was moved, or the
\* new parent was deleted and created again, since its check.
OnlyRacesMakeCycles == ~edited /\ ~raced => Acyclic

\* No category loses its parent, whatever is deleted while it is created or
\* moved.
ParentExists == \A c \in cats : parent[c] \in cats \cup {Root}

\* The categories below p in the order in which CategoryTree lists them, for
\* the rows cs with parents ps and sort orders os.
Listed(p, cs, ps, os) ==
  SetToSortSeq({c \in cs : ps[c] = p},
               LAMBDA a, b : os[a] < os[b] \/ (os[a] = os[b] /\ a < b))

\* A move that commits puts the category at the index asked for, or last,
\* among the siblings it has locked, whatever is created, moved, updated or
\* deleted meanwhile; it leaves their order alone, unless one of them was given
\* another sort order between the sort of the query and its lock; every other
\* list only loses the category (MoveCategory).
MovePlaces ==
  [][\A r \in Request :
       /\ pc[r] = "commit" /\ pc'[r] = "idle"
       /\ parent' # parent \/ order' # order
       => LET c == req[r].id
              old(p) == Listed(p, cats, parent, order)
              new(p) == Listed(p, cats, parent', order')
              sibs == ToSet(seen[r]) \ {c}
              before == SelectSeq(old(req[r].to), LAMBDA x : x \in sibs)
              after == SelectSeq(new(req[r].to), LAMBDA x : x \in sibs \cup {c})
              n == Cardinality(sibs)
              k == 1 + (IF req[r].at \in 0 .. n THEN req[r].at
                        ELSE IF req[r].at < 0 THEN 0 ELSE n)
          IN  /\ Len(before) = n /\ Len(after) = n + 1 /\ after[k] = c
              /\ r \notin resorted => after = InsertAt(before, k, c)
              /\ \A p \in (cats \cup {Root}) \ {req[r].to} :
                   new(p) = SelectSeq(old(p), LAMBDA x : x # c)]_vars

=============================================================================
