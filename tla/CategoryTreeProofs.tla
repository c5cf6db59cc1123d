------------------------- MODULE CategoryTreeProofs -------------------------
(***************************************************************************)
(* Theorems about CategoryTree, for any categories and any requests at the *)
(* same time.                                                              *)
(*                                                                         *)
(* The argument: from LinkParent to its commit a move holds its new parent *)
(* FOR KEY SHARE, and the other writes of a parent_id check it when they   *)
(* commit (MoverInv, ParentExists).  The check for cycles has found a set  *)
(* that is closed under parents, with the new parent and without the row   *)
(* to move; there is one until the commit (DetachedInv) unless the move is *)
(* overtaken: a step that changes no ancestor of the new parent leaves the *)
(* set of these ancestors as it is (DetachedKeeps).                        *)
(***************************************************************************)
EXTENDS CategoryTree, TLAPS

\* The move of r has locked its row.
Moving(r) == pc[r] \in {"check", "siblings", "rows", "link", "commit"}

\* The types of what the proofs look at.
RowsInv ==
  /\ cats \subseteq Category
  /\ parent \in [Category -> Category \cup {Root}]
  /\ xlock \in [Category -> Request \cup {None}]
  /\ shared \in [Request -> Category \cup {Root}]
  /\ pc \in [Request -> {"idle", "lock", "check", "siblings", "rows", "link",
                         "commit", "read", "write"}]
  /\ DOMAIN req = Request
  /\ edited \in BOOLEAN /\ raced \in BOOLEAN

\* What a move has locked.
MoverInv ==
  \A r \in Request :
    /\ pc[r] \in {"lock", "read", "write"} \/ Moving(r) => req[r].id \in Category
    /\ pc[r] = "lock" \/ Moving(r) => req[r].to \in Category \cup {Root}
    /\ Moving(r) => /\ req[r].id \in cats
                    /\ xlock[req[r].id] = r
                    /\ req[r].id # req[r].to
    /\ pc[r] = "commit" /\ req[r].to # Root => /\ req[r].to \in cats
                                               /\ shared[r] = req[r].to

TreeInv == RowsInv /\ MoverInv /\ ParentExists

\* D has the ancestors of its members.
Closed(D) == \A x \in D : parent[x] \in D \cup {Root}

\* The row to move is not above its new parent, unless the move is overtaken.
DetachedInv ==
  \A r \in Checked \ overtaken :
    req[r].to \in cats =>
      \E D \in SUBSET cats : req[r].to \in D /\ req[r].id \notin D /\ Closed(D)

AcyclicInv == TreeInv /\ OnlyRacesMakeCycles /\ DetachedInv

-----------------------------------------------------------------------------
\* The end of a request.
LEMMA EndsType ==
  ASSUME RowsInv, NEW r \in Request, Ends(r)
  PROVE  /\ pc' \in [Request -> {"idle", "lock", "check", "siblings", "rows", "link",
                                 "commit", "read", "write"}]
         /\ pc'[r] = "idle" /\ DOMAIN req' = Request
         /\ \A s \in Request \ {r} : /\ pc'[s] = pc[s] /\ req'[s] = req[s]
                                     /\ shared'[s] = shared[s]
         /\ xlock' \in [Category -> Request \cup {None}]
         /\ \A c \in Category : xlock[c] # r => xlock'[c] = xlock[c]
         /\ shared' \in [Request -> Category \cup {Root}]
BY DEF RowsInv, Ends

\* What the other requests have locked stays locked.
LEMMA EndsMover ==
  ASSUME RowsInv, MoverInv, NEW r \in Request, Ends(r), cats' = cats
  PROVE  MoverInv'
<1>1. ~Moving(r)' /\ pc'[r] = "idle"
  BY EndsType DEF Moving
<1>2. \A s \in Request \ {r} :
        Moving(s) => xlock[req[s].id] # r /\ req[s].id \in Category
  BY DEF MoverInv
<1>. QED
  BY <1>1, <1>2, EndsType DEF MoverInv, Moving

\* The parent of the new row exists.
LEMMA CreateKeeps ==
  ASSUME TreeInv, NEW r \in Request, NEW c \in Category,
         NEW p \in Category \cup {Root}, NEW n, Create(r,c,p,n)
  PROVE  TreeInv'
<1>. USE TreeAssumption DEF TreeInv
<1>1. RowsInv'
  BY DEF RowsInv, MoverInv, tree, locks, Create
<1>2. MoverInv'
  BY DEF RowsInv, MoverInv, Moving, tree, locks, Create
<1>3. ParentExists'
  BY DEF RowsInv, MoverInv, ParentExists, Moving, tree, locks, Create
<1>. QED
  BY <1>1, <1>2, <1>3

\* Requests begin.
LEMMA UpdateKeeps ==
  ASSUME TreeInv, NEW r \in Request, NEW c \in Category,
         NEW p \in Category \cup {Root}, NEW n, Update(r,c,p,n)
  PROVE  TreeInv'
<1>. USE TreeAssumption DEF TreeInv
<1>1. RowsInv'
  BY DEF RowsInv, MoverInv, tree, locks, Update, Begin, Goes
<1>2. MoverInv'
  BY DEF RowsInv, MoverInv, Moving, tree, locks, Update, Begin, Goes
<1>3. ParentExists'
  BY DEF RowsInv, MoverInv, ParentExists, Moving, tree, locks, Update, Begin,
     Goes
<1>. QED
  BY <1>1, <1>2, <1>3

LEMMA MoveKeeps ==
  ASSUME TreeInv, NEW r \in Request, NEW c \in Category,
         NEW p \in Category \cup {Root}, NEW i, Move(r,c,p,i)
  PROVE  TreeInv'
<1>. USE TreeAssumption DEF TreeInv
<1>1. RowsInv'
  BY DEF RowsInv, MoverInv, tree, locks, Move, Begin, Goes
<1>2. MoverInv'
  BY DEF RowsInv, MoverInv, Moving, tree, locks, Move, Begin, Goes
<1>3. ParentExists'
  BY DEF RowsInv, MoverInv, ParentExists, Moving, tree, locks, Move, Begin,
     Goes
<1>. QED
  BY <1>1, <1>2, <1>3

\* No row, and no request that holds it, has the deleted row as its parent.
LEMMA DeleteKeeps ==
  ASSUME TreeInv, NEW r \in Request, NEW c \in Category, Delete(r,c)
  PROVE  TreeInv'
<1>. USE TreeAssumption DEF TreeInv
<1>1. RowsInv'
  BY DEF RowsInv, MoverInv, tree, locks, Delete, Unshared, Children
<1>2. MoverInv'
  BY DEF RowsInv, MoverInv, Moving, tree, locks, Delete, Unshared, Children
<1>3. ParentExists'
  BY DEF RowsInv, MoverInv, ParentExists, Moving, tree, locks, Delete,
     Unshared, Children
<1>. QED
  BY <1>1, <1>2, <1>3

\* The row to move exists and is locked.
LEMMA LockMovedKeeps ==
  ASSUME TreeInv, NEW r \in Request, LockMoved(r)
  PROVE  TreeInv'
<1>. USE TreeAssumption DEF TreeInv
<1>1. RowsInv'
  BY DEF RowsInv, MoverInv, tree, locks, LockMoved, Goes, Ends, Free
<1>2. MoverInv'
  <2>1. CASE Ends(r)
    BY <2>1, EndsMover DEF LockMoved, tree
  <2>2. CASE /\ req[r].id \in cats /\ req[r].to # req[r].id
             /\ Goes(r, "lock", "check")
             /\ xlock' = [xlock EXCEPT ![req[r].id] = r]
             /\ shared' = shared /\ req' = req
    <3>1. /\ pc[r] = "lock" /\ pc'[r] = "check" /\ req' = req /\ cats' = cats
          /\ \A s \in Request \ {r} : pc'[s] = pc[s]
      BY <2>2 DEF LockMoved, Goes, RowsInv, tree
    <3>2. xlock'[req[r].id] = r /\ \A c \in Category : c # req[r].id => xlock'[c] = xlock[c]
      BY <2>2, <3>1 DEF MoverInv, RowsInv
    <3>3. \A s \in Request \ {r} : Moving(s) => req[s].id # req[r].id
      BY <3>1 DEF LockMoved, Free, MoverInv
    <3>. QED
      BY <2>2, <3>1, <3>2, <3>3 DEF MoverInv, Moving
  <2>. QED
    BY <2>1, <2>2 DEF LockMoved, locks
<1>3. ParentExists'
  BY DEF RowsInv, MoverInv, ParentExists, Moving, tree, locks, LockMoved,
     Goes, Ends, Free
<1>. QED
  BY <1>1, <1>2, <1>3

\* The check reads and decides.
LEMMA CheckAncestorsKeeps ==
  ASSUME TreeInv, NEW r \in Request, CheckAncestors(r)
  PROVE  TreeInv'
<1>. USE TreeAssumption DEF TreeInv
<1>1. RowsInv'
  BY DEF RowsInv, MoverInv, tree, locks, CheckAncestors, Goes, Ends
<1>2. MoverInv'
  <2>1. CASE Ends(r)
    BY <2>1, EndsMover DEF CheckAncestors, tree
  <2>2. CASE Goes(r, "check", "siblings") /\ UNCHANGED <<locks, req, seen>>
    <3>1. /\ pc[r] = "check" /\ pc'[r] = "siblings" /\ req' = req /\ cats' = cats
          /\ \A s \in Request \ {r} : pc'[s] = pc[s]
      BY <2>2 DEF CheckAncestors, Goes, RowsInv, tree
    <3>. QED
      BY <2>2, <3>1 DEF MoverInv, Moving, locks
  <2>. QED
    BY <2>1, <2>2 DEF CheckAncestors, locks
<1>3. ParentExists'
  BY DEF RowsInv, MoverInv, ParentExists, Moving, tree, locks, CheckAncestors,
     Goes, Ends
<1>. QED
  BY <1>1, <1>2, <1>3

\* The siblings are read ...
LEMMA ReadSiblingsKeeps ==
  ASSUME TreeInv, NEW r \in Request, ReadSiblings(r)
  PROVE  TreeInv'
<1>. USE TreeAssumption DEF TreeInv
<1>1. RowsInv'
  BY DEF RowsInv, tree, locks, ReadSiblings, Goes
<1>2. MoverInv'
  BY DEF RowsInv, MoverInv, Moving, tree, locks, ReadSiblings, Goes
<1>3. ParentExists'
  BY DEF ParentExists, tree, ReadSiblings
<1>. QED
  BY <1>1, <1>2, <1>3

\* ... locked one by one, when no other request has them ...
LEMMA LockSiblingKeeps ==
  ASSUME TreeInv, NEW r \in Request, LockSibling(r)
  PROVE  TreeInv'
<1>. USE TreeAssumption DEF TreeInv
<1>1. /\ cats' = cats /\ parent' = parent /\ edited' = edited /\ raced' = raced
      /\ shared' = shared /\ pc' = pc /\ req' = req
  BY DEF LockSibling, tree
<1>2. \/ xlock' = xlock
      \/ \E s \in Category : Free(s, r) /\ xlock' = [xlock EXCEPT ![s] = r]
  BY DEF LockSibling, Children, RowsInv
<1>3. RowsInv'
  BY <1>1, <1>2 DEF RowsInv
<1>4. \A c \in Category : xlock[c] # None => xlock'[c] = xlock[c]
  BY <1>2 DEF Free, RowsInv
<1>5. \A s \in Request : Moving(s) => xlock'[req[s].id] = s
  <2>1. \A s \in Request : Moving(s) =>
          req[s].id \in Category /\ xlock[req[s].id] = s /\ s # None
    BY DEF MoverInv
  <2>. QED
    BY <1>4, <2>1
<1>6. MoverInv'
  BY <1>1, <1>5 DEF MoverInv, Moving
<1>7. ParentExists'
  BY <1>1 DEF ParentExists
<1>. QED
  BY <1>3, <1>6, <1>7

\* ... until all are.
LEMMA SiblingsLockedKeeps ==
  ASSUME TreeInv, NEW r \in Request, SiblingsLocked(r)
  PROVE  TreeInv'
<1>. USE TreeAssumption DEF TreeInv
<1>1. RowsInv'
  BY DEF RowsInv, tree, locks, SiblingsLocked, Goes
<1>2. MoverInv'
  BY DEF RowsInv, MoverInv, Moving, tree, locks, SiblingsLocked, Goes
<1>3. ParentExists'
  BY DEF ParentExists, tree, SiblingsLocked
<1>. QED
  BY <1>1, <1>2, <1>3

\* The new parent exists and is held.
LEMMA LinkParentKeeps ==
  ASSUME TreeInv, NEW r \in Request, LinkParent(r)
  PROVE  TreeInv'
<1>. USE TreeAssumption DEF TreeInv
<1>1. RowsInv'
  <2>1. CASE Ends(r)
    BY <2>1, EndsType DEF LinkParent, tree, RowsInv
  <2>2. CASE /\ Goes(r, "link", "commit")
             /\ shared' = [shared EXCEPT ![r] = req[r].to]
             /\ xlock' = xlock /\ req' = req
    <3>1. req[r].to \in Category \cup {Root}
      BY <2>2 DEF Goes, MoverInv, Moving
    <3>. QED
      BY <2>2, <3>1 DEF LinkParent, Goes, tree, RowsInv
  <2>. QED
    BY <2>1, <2>2 DEF LinkParent
<1>2. MoverInv'
  <2>1. CASE Ends(r)
    BY <2>1, EndsMover DEF LinkParent, tree
  <2>2. CASE /\ req[r].to = Root \/ req[r].to \in cats
             /\ Goes(r, "link", "commit")
             /\ shared' = [shared EXCEPT ![r] = req[r].to]
             /\ xlock' = xlock /\ req' = req
    <3>1. /\ pc[r] = "link" /\ pc'[r] = "commit" /\ req' = req /\ cats' = cats
          /\ \A s \in Request \ {r} : pc'[s] = pc[s]
      BY <2>2 DEF LinkParent, Goes, RowsInv, tree
    <3>2. shared'[r] = req[r].to /\ \A s \in Request \ {r} : shared'[s] = shared[s]
      BY <2>2 DEF RowsInv
    <3>. QED
      BY <2>2, <3>1, <3>2 DEF MoverInv, Moving
  <2>. QED
    BY <2>1, <2>2 DEF LinkParent, locks
<1>3. ParentExists'
  BY DEF RowsInv, MoverInv, ParentExists, Moving, tree, locks, LinkParent,
     Goes, Ends
<1>. QED
  BY <1>1, <1>2, <1>3

\* So it exists still.
LEMMA CommitMoveKeeps ==
  ASSUME TreeInv, NEW r \in Request, CommitMove(r)
  PROVE  TreeInv'
<1>. USE TreeAssumption DEF TreeInv
<1>1. RowsInv'
  BY DEF RowsInv, MoverInv, tree, locks, CommitMove, Ends
<1>2. MoverInv'
  BY EndsMover DEF CommitMove
<1>3. ParentExists'
  BY DEF RowsInv, MoverInv, ParentExists, Moving, tree, locks, CommitMove, Ends
<1>. QED
  BY <1>1, <1>2, <1>3

\* UpdateCategory reads the row.
LEMMA ReadRowKeeps ==
  ASSUME TreeInv, NEW r \in Request, ReadRow(r)
  PROVE  TreeInv'
<1>. USE TreeAssumption DEF TreeInv
<1>1. RowsInv'
  BY DEF RowsInv, MoverInv, tree, locks, ReadRow, Goes, Ends
<1>2. MoverInv'
  <2>1. CASE Ends(r)
    BY <2>1, EndsMover DEF ReadRow, tree
  <2>2. CASE Goes(r, "read", "write") /\ UNCHANGED <<locks, req>>
    <3>1. /\ pc[r] = "read" /\ pc'[r] = "write" /\ req' = req /\ cats' = cats
          /\ \A s \in Request \ {r} : pc'[s] = pc[s]
      BY <2>2 DEF ReadRow, Goes, RowsInv, tree
    <3>. QED
      BY <2>2, <3>1 DEF MoverInv, Moving, locks
  <2>. QED
    BY <2>1, <2>2 DEF ReadRow, locks
<1>3. ParentExists'
  BY DEF RowsInv, MoverInv, ParentExists, Moving, tree, locks, ReadRow, Goes,
     Ends
<1>. QED
  BY <1>1, <1>2, <1>3

\* And writes every column back, unless the parent is gone.
LEMMA WriteRowKeeps ==
  ASSUME TreeInv, NEW r \in Request, WriteRow(r)
  PROVE  TreeInv'
<1>. USE TreeAssumption DEF TreeInv
<1>1. RowsInv'
  <2>1. parent' \in [Category -> Category \cup {Root}]
    BY DEF WriteRow, RowsInv
  <2>2. edited' \in BOOLEAN
    BY DEF WriteRow, RowsInv
  <2>. QED
    BY <2>1, <2>2, EndsType DEF WriteRow, RowsInv
<1>2. MoverInv'
  BY EndsMover DEF WriteRow
<1>3. ParentExists'
  BY DEF RowsInv, MoverInv, ParentExists, Moving, tree, locks, WriteRow, Ends
<1>. QED
  BY <1>1, <1>2, <1>3

\* One of those that wait for each other gives up.
LEMMA AbortKeeps ==
  ASSUME TreeInv, NEW r \in Request, Abort(r)
  PROVE  TreeInv'
<1>. USE TreeAssumption DEF TreeInv
<1>1. RowsInv'
  BY DEF RowsInv, MoverInv, tree, locks, Abort, Ends
<1>2. MoverInv'
  BY EndsMover DEF Abort, tree
<1>3. ParentExists'
  BY DEF RowsInv, MoverInv, ParentExists, Moving, tree, locks, Abort, Ends
<1>. QED
  BY <1>1, <1>2, <1>3

\* The rows of the initial tree.
LEMMA InitHolds == Init => TreeInv
<1>. SUFFICES ASSUME Init PROVE TreeInv
  OBVIOUS
<1>. USE TreeAssumption DEF Init
<1>1. RowsInv
  BY DEF RowsInv
<1>2. MoverInv /\ ParentExists
  BY DEF MoverInv, Moving, ParentExists
<1>. QED
  BY <1>1, <1>2 DEF TreeInv

\* Every step keeps the invariant.
LEMMA StepKeeps == TreeInv /\ [Next]_vars => TreeInv'
<1>. SUFFICES ASSUME TreeInv, [Next]_vars PROVE TreeInv'
  OBVIOUS
<1>1. CASE UNCHANGED vars
  BY <1>1
     DEF vars, tree, locks, TreeInv, RowsInv, MoverInv, Moving, ParentExists
<1>. QED
  BY <1>1, CreateKeeps, UpdateKeeps, MoveKeeps, DeleteKeeps, LockMovedKeeps,
     CheckAncestorsKeeps, ReadSiblingsKeeps, LockSiblingKeeps,
     SiblingsLockedKeeps, LinkParentKeeps, CommitMoveKeeps, ReadRowKeeps, WriteRowKeeps, AbortKeeps DEF Next

\* The invariant that the following theorem rests on.
THEOREM TreeInvariant == Spec => []TreeInv
BY InitHolds, StepKeeps, PTL DEF Spec

\* The parent of every category exists, although it can be deleted while a
\* request is about to link a child to it (CreateCategory, UpdateCategory,
\* MoveCategory, DeleteCategory).
THEOREM ParentsExist == Spec => []ParentExists
BY TreeInvariant, PTL DEF TreeInv

-----------------------------------------------------------------------------
\* The ancestors of a row are a closed set.
LEMMA ChainClosed ==
  ASSUME ParentExists, NEW p \in cats
  PROVE  Chain(p) \subseteq cats /\ p \in Chain(p) /\ Closed(Chain(p))
<1>1. ASSUME NEW x \in Chain(p), parent[x] # Root
      PROVE  parent[x] \in Chain(p)
  BY <1>1 DEF Chain, ParentExists
<1>. QED
  BY <1>1 DEF Chain, Closed

\* A step that changes no row, and checks no move.
LEMMA UnlinkedKeeps ==
  ASSUME AcyclicInv, UNCHANGED <<cats, parent, edited, raced, overtaken>>,
         \A r \in Checked' : r \in Checked /\ req'[r] = req[r]
  PROVE  OnlyRacesMakeCycles' /\ DetachedInv'
BY DEF AcyclicInv, OnlyRacesMakeCycles, Acyclic, DetachedInv, Closed

\* A step that records the moves that it overtakes, and ends that of r.
LEMMA DetachedKeeps ==
  ASSUME TreeInv, TreeInv', DetachedInv, NEW r \in Request,
         overtaken' = Overtaken(r), r \notin Checked',
         \A q \in Request \ {r} : pc'[q] = pc[q] /\ req'[q] = req[q]
  PROVE  DetachedInv'
<1>. SUFFICES ASSUME NEW q \in Checked' \ overtaken', req'[q].to \in cats'
              PROVE  \E D \in SUBSET cats' : /\ req'[q].to \in D
                                             /\ req'[q].id \notin D
                                             /\ Closed(D)'
  BY DEF DetachedInv
<1>. DEFINE p == req[q].to
            D == Chain(p)
<1>1. /\ q \in Request \ {r} /\ q \in Checked \ overtaken
      /\ req'[q] = req[q]
  BY DEF Checked, Overtaken
<1>2. p \in cats /\ \A y \in D : parent'[y] = parent[y]
  BY <1>1 DEF Overtaken
<1>3. D \subseteq cats /\ p \in D /\ Closed(D)
  BY <1>2, ChainClosed DEF TreeInv
<1>4. req[q].id \notin D
  <2>1. PICK E \in SUBSET cats : p \in E /\ req[q].id \notin E /\ Closed(E)
    BY <1>1, <1>2 DEF DetachedInv
  <2>. QED
    BY <2>1 DEF Chain, Closed
<1>5. \A x \in D \cap cats' : parent'[x] \in (D \cap cats') \cup {Root}
  BY <1>2, <1>3 DEF Closed, TreeInv, ParentExists
<1>. QED
  BY <1>1, <1>3, <1>4, <1>5 DEF Closed

\* The end of a request that changes no row.
LEMMA EndsKeeps ==
  ASSUME AcyclicInv, TreeInv', NEW r \in Request, Ends(r),
         UNCHANGED <<cats, parent, edited, raced>>
  PROVE  OnlyRacesMakeCycles' /\ DetachedInv'
<1>1. OnlyRacesMakeCycles'
  BY DEF AcyclicInv, OnlyRacesMakeCycles, Acyclic
<1>2. DetachedInv'
  BY EndsType, DetachedKeeps DEF AcyclicInv, TreeInv, Ends, Checked
<1>. QED
  BY <1>1, <1>2

\* The step that checks a move for cycles has found a closed set.
LEMMA CheckAncestorsDetaches ==
  ASSUME AcyclicInv, TreeInv', NEW r \in Request, CheckAncestors(r)
  PROVE  OnlyRacesMakeCycles' /\ DetachedInv'
<1>. USE TreeAssumption DEF AcyclicInv, TreeInv
<1>1. /\ pc[r] = "check" /\ req[r].id \in cats
      /\ UNCHANGED <<cats, parent, edited, raced>>
  BY DEF CheckAncestors, tree, MoverInv, Moving
<1>2. CASE /\ Allowed(req[r].id, req[r].to) /\ UNCHANGED <<req, overtaken>>
           /\ \A s \in Request \ {r} : pc'[s] = pc[s]
  <2>1. ASSUME req[r].to \in cats
        PROVE  \E D \in SUBSET cats :
                 req[r].to \in D /\ req[r].id \notin D /\ Closed(D)
    <3>1. req[r].id \notin Chain(req[r].to)
      BY <1>2, <2>1 DEF Allowed, RowsInv
    <3>. QED
      BY <2>1, <3>1, ChainClosed
  <2>2. OnlyRacesMakeCycles'
    BY <1>1 DEF OnlyRacesMakeCycles, Acyclic
  <2>3. DetachedInv'
    BY <1>1, <1>2, <2>1 DEF DetachedInv, Closed, Checked
  <2>. QED
    BY <2>2, <2>3
<1>3. CASE Ends(r)
  BY <1>1, <1>3, EndsKeeps
<1>. QED
  BY <1>2, <1>3 DEF CheckAncestors, Goes, RowsInv, marks

\* The moved row and its new ancestors do not close a cycle, unless the move was
\* overtaken.
LEMMA CommitMoveAcyclic ==
  ASSUME AcyclicInv, NEW r \in Request, CommitMove(r)
  PROVE  OnlyRacesMakeCycles'
<1>. USE TreeAssumption DEF AcyclicInv, TreeInv
<1>. DEFINE c == req[r].id
            p == req[r].to
<1>1. /\ c \in cats /\ c \in Category /\ (p = Root \/ p \in cats)
      /\ cats' = cats /\ parent' = [parent EXCEPT ![c] = p] /\ edited' = edited
      /\ raced' = (raced \/ r \in overtaken) /\ r \in Checked
  BY DEF CommitMove, MoverInv, Moving, RowsInv, Checked
<1>. SUFFICES ASSUME ~edited, ~raced, r \notin overtaken,
                     NEW S \in SUBSET cats, S # {},
                     \A x \in S : parent'[x] \in S
              PROVE  FALSE
  BY <1>1 DEF OnlyRacesMakeCycles, Acyclic
<1>2. \A x \in cats \ {c} : parent'[x] = parent[x]
  BY <1>1 DEF RowsInv
<1>3. c \in S
  BY <1>2 DEF OnlyRacesMakeCycles, Acyclic
<1>4. p \in S /\ p \in cats
  <2>1. parent'[c] = p
    BY <1>1 DEF RowsInv
  <2>. QED
    BY <1>3, <2>1
<1>5. PICK D \in SUBSET cats : p \in D /\ c \notin D /\ Closed(D)
  BY <1>1, <1>4 DEF DetachedInv
<1>6. \A x \in S \cap D : parent[x] \in S \cap D
  BY <1>2, <1>5 DEF Closed, RowsInv
<1>. QED
  BY <1>4, <1>5, <1>6 DEF OnlyRacesMakeCycles, Acyclic

\* A new category has no children.
LEMMA CreateAcyclic ==
  ASSUME AcyclicInv, TreeInv', NEW r \in Request, NEW c \in Category,
         NEW p \in Category \cup {Root}, NEW n, Create(r, c, p, n)
  PROVE  OnlyRacesMakeCycles' /\ DetachedInv'
<1>. USE TreeAssumption DEF AcyclicInv, TreeInv
<1>1. /\ c \notin cats /\ p \in cats \cup {Root} /\ cats' = cats \cup {c}
      /\ edited' = edited /\ raced' = raced /\ pc[r] = "idle"
      /\ UNCHANGED <<pc, req>> /\ overtaken' = Overtaken(r)
      /\ \A x \in cats : parent'[x] = parent[x] /\ parent[x] # c
  BY DEF Create, ParentExists, RowsInv
<1>2. OnlyRacesMakeCycles'
  <2>. SUFFICES ASSUME ~edited, ~raced, NEW S \in SUBSET (cats \cup {c}), S # {},
                       \A x \in S : parent'[x] \in S
                PROVE  FALSE
    BY <1>1 DEF OnlyRacesMakeCycles, Acyclic
  <2>1. \A x \in S \ {c} : parent[x] \in S \ {c}
    BY <1>1
  <2>2. S \ {c} # {}
    <3>1. parent'[c] = p /\ p # c
      BY <1>1 DEF Create, RowsInv
    <3>. QED
      BY <3>1
  <2>. QED
    BY <2>1, <2>2 DEF OnlyRacesMakeCycles, Acyclic
<1>3. DetachedInv'
  BY <1>1, DetachedKeeps DEF Checked
<1>. QED
  BY <1>2, <1>3

\* A category without children is above no other.
LEMMA DeleteAcyclic ==
  ASSUME AcyclicInv, NEW r \in Request, NEW c \in Category, Delete(r, c)
  PROVE  OnlyRacesMakeCycles' /\ DetachedInv'
<1>. USE TreeAssumption DEF AcyclicInv, TreeInv
<1>1. /\ cats' = cats \ {c} /\ edited' = edited /\ raced' = raced
      /\ UNCHANGED <<pc, req, overtaken>>
      /\ \A x \in cats' : parent'[x] = parent[x] /\ parent[x] # c
  BY DEF Delete, Children, RowsInv, marks
<1>2. OnlyRacesMakeCycles'
  BY <1>1 DEF OnlyRacesMakeCycles, Acyclic
<1>3. ASSUME NEW s \in Checked \ overtaken, req[s].to \in cats'
      PROVE  \E D \in SUBSET cats' :
               req[s].to \in D /\ req[s].id \notin D /\ Closed(D)'
  <2>1. PICK D \in SUBSET cats : req[s].to \in D /\ req[s].id \notin D /\ Closed(D)
    BY <1>1, <1>3 DEF DetachedInv
  <2>2. Closed(D \ {c})'
    BY <1>1, <2>1 DEF Closed
  <2>. QED
    BY <1>1, <1>3, <2>1, <2>2
<1>. QED
  BY <1>1, <1>2, <1>3 DEF DetachedInv, Checked

\* Every step keeps the tree free of cycles, but for those that are recorded.
LEMMA AcyclicStep == AcyclicInv /\ [Next]_vars => AcyclicInv'
<1>. USE TreeAssumption DEF AcyclicInv, TreeInv
<1>. SUFFICES ASSUME AcyclicInv, [Next]_vars, TreeInv'
              PROVE  OnlyRacesMakeCycles' /\ DetachedInv'
  BY StepKeeps
<1>1. ASSUME NEW r \in Request, WriteRow(r)
      PROVE  OnlyRacesMakeCycles' /\ DetachedInv'
  <2>1. /\ edited' \/ (~edited /\ parent' = parent)
        /\ cats' = cats /\ raced' = raced /\ Ends(r)
    BY <1>1 DEF WriteRow, RowsInv
  <2>2. OnlyRacesMakeCycles'
    BY <2>1 DEF OnlyRacesMakeCycles, Acyclic
  <2>3. DetachedInv'
    BY <2>1, EndsType, DetachedKeeps DEF Ends, Checked
  <2>. QED
    BY <2>2, <2>3
<1>2. ASSUME NEW r \in Request, CommitMove(r)
      PROVE  OnlyRacesMakeCycles' /\ DetachedInv'
  <2>1. Ends(r)
    BY <1>2 DEF CommitMove
  <2>2. DetachedInv'
    BY <2>1, EndsType, DetachedKeeps DEF Ends, Checked
  <2>. QED
    BY <1>2, <2>2, CommitMoveAcyclic
<1>3. ASSUME NEW r \in Request, NEW c \in Category,
             NEW p \in Category \cup {Root}, NEW n,
             Update(r, c, p, n) \/ Move(r, c, p, n)
      PROVE  OnlyRacesMakeCycles' /\ DetachedInv'
  BY <1>3, UnlinkedKeeps
     DEF Update, Move, Begin, Goes, tree, marks, RowsInv, Checked
<1>4. ASSUME NEW r \in Request,
             ReadSiblings(r) \/ LockSibling(r) \/ SiblingsLocked(r)
      PROVE  OnlyRacesMakeCycles' /\ DetachedInv'
  BY <1>4, UnlinkedKeeps
     DEF ReadSiblings, LockSibling, SiblingsLocked, Goes, tree, marks, RowsInv,
     Checked
<1>5. ASSUME NEW r \in Request, ~Ends(r),
             LockMoved(r) \/ LinkParent(r) \/ ReadRow(r)
      PROVE  OnlyRacesMakeCycles' /\ DetachedInv'
  BY <1>5, UnlinkedKeeps
     DEF LockMoved, LinkParent, ReadRow, Goes, tree, marks, RowsInv, Checked
<1>6. ASSUME NEW r \in Request, Ends(r),
             LockMoved(r) \/ LinkParent(r) \/ ReadRow(r) \/ Abort(r)
      PROVE  OnlyRacesMakeCycles' /\ DetachedInv'
  BY <1>6, EndsKeeps DEF LockMoved, LinkParent, ReadRow, Abort, tree
<1>7. CASE UNCHANGED vars
  BY <1>7, UnlinkedKeeps DEF vars, tree, marks, Checked
<1>. QED
  BY <1>1, <1>2, <1>3, <1>4, <1>5, <1>6, <1>7, CreateAcyclic, DeleteAcyclic,
     CheckAncestorsDetaches DEF Next, Abort

\* However many requests move categories at the same time, MoveCategory makes a
\* cycle only when an ancestor of the new parent has changed between its check
\* and its commit; whoever would mend the finding of NoCycle has to close this
\* gap and no other.
THEOREM UnracedMovesMakeNoCycle == Spec => []OnlyRacesMakeCycles
<1>1. Init => AcyclicInv
  <2>. SUFFICES ASSUME Init PROVE OnlyRacesMakeCycles /\ DetachedInv
    BY InitHolds DEF AcyclicInv
  <2>1. OnlyRacesMakeCycles
    BY TreeAssumption DEF Init, OnlyRacesMakeCycles, Acyclic
  <2>2. DetachedInv
    BY DEF Init, DetachedInv, Checked
  <2>. QED
    BY <2>1, <2>2
<1>2. AcyclicInv /\ [Next]_vars => AcyclicInv'
  BY AcyclicStep
<1>3. AcyclicInv => OnlyRacesMakeCycles
  BY DEF AcyclicInv
<1>. QED
  BY <1>1, <1>2, <1>3, PTL DEF Spec

=============================================================================
