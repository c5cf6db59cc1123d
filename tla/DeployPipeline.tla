--------------------------- MODULE DeployPipeline ---------------------------
(***************************************************************************)
(* POST /api/deploy (handleDeploy) and the admin reindex, as they work on  *)
(* three stores that share no transaction: the object store (MinIO), which *)
(* is overwritten in place file by file; PostgreSQL, where IngestArtifact  *)
(* replaces the pages of a version in one transaction; and the embedding   *)
(* rows, deleted by prefix and written chunk by chunk.                     *)
(*                                                                         *)
(* A deploy d stands for one request and for the artifact it carries: its  *)
(* files, its pages and their text are all named d.  All versions belong   *)
(* to one module (a deploy token selects it), one chunk stands for a page. *)
(* The concurrent deploys are bounded by the semaphore of BoundedSlots.    *)
(***************************************************************************)
EXTENDS Naturals, FiniteSets

CONSTANTS
  Deploy,      \* the deploy requests
  Admin,       \* the super admin's reindex request
  Version,     \* the docs versions of the module
  Asset,       \* names of site files
  Doc,         \* page names
  None,        \* no object, page or row
  MaxSlots,    \* DEPLOY_MAX_CONCURRENT
  Target,      \* Target[d]: the version d publishes
  Assets,      \* Assets[d]: the files d uploads
  Docs,        \* Docs[d]: the pages of d
  Reindexes,   \* bound on the number of admin reindexes
  Withdrawn,   \* the deploys whose release an admin may roll back
  Faulty       \* the workers whose calls may fail, whose process may die

Worker == Deploy \cup {Admin}

ASSUME PipelineAssumption ==
  /\ Admin \notin Deploy
  /\ Deploy \cap {None, "orphan", "loose"} = {}
  /\ Target \in [Deploy -> Version]
  /\ Assets \in [Deploy -> SUBSET Asset]
  /\ Docs \in [Deploy -> SUBSET Doc \ {{}}]
  /\ Reindexes \in Nat
  /\ Withdrawn \subseteq Deploy
  /\ Faulty \subseteq Worker

VARIABLES
  stage,      \* stage[w]: how far the handler of w has come
  todo,       \* todo[d]: files still to upload, or to remove
  queue,      \* queue[w]: pages still to embed, with the text read for them
  holders,    \* the deploys that hold an ingest slot
  objects,    \* objects[v][n]: the deploy that wrote the object
  pages,      \* pages[v]: the deploy whose pages docs_page holds
  rows,       \* rows[v][p]: the embedding row of page p
  tx,         \* the deploy whose ingest transaction is open
  locked,     \* the embedding rows tx has updated: <<v, p>>
  release,    \* release[d]: status of the docs_release row of d
  reindexes,  \* admin reindexes started
  alone       \* alone[w]: since w started, no other worker of its versions
              \* has been active

stores == <<objects, pages, rows, tx, locked, release>>
vars == <<stage, todo, queue, holders, stores, reindexes, alone>>

\* "accepted" and "unindexed" are both 202: with the embeddings rebuilt, or
\* with "no indexable document chunks".
Ended == {"accepted", "unindexed", "failed"}
Stage == Ended \cup {"waiting", "parse", "upload", "ingest", "commit",
                     "reindex", "snapshot", "embed", "skip", "cleanup"}

\* docs_embedding.page_id: the page of a release; NULL in a row that still
\* names its module ("orphan") or that was written without one ("loose").
Link == Deploy \cup {"orphan", "loose"}
Row == [text : Deploy, link : Link]

\* The row names its module.
Owned(row) == row # None /\ row.link # "loose"

Chunk == [ver : Version, doc : Doc, text : Deploy]

Slots == INSTANCE BoundedSlots

Move(w, from, to) == stage[w] = from /\ stage' = [stage EXCEPT ![w] = to]

\* The pages of version v that docs_page holds.
PagesOf(v) == IF pages[v] = None THEN {} ELSE Docs[pages[v]]

\* The versions whose pages w embeds: ReindexModuleVersion or Reindex.
Scope(w) == IF w = Admin THEN Version ELSE {Target[w]}

NoRows == [p \in Doc |-> None]

Active(w) == stage[w] \notin Ended \cup {"waiting"}

\* The other workers that touch a version of w.
Rivals(w) == {u \in Worker \ {w} : Scope(u) \cap Scope(w) # {}}

\* History: w starts.
Begins(w) ==
  alone' = [u \in Worker |-> IF u = w THEN \A r \in Rivals(w) : ~Active(r)
                             ELSE alone[u] /\ u \notin Rivals(w)]

-----------------------------------------------------------------------------
Init ==
  /\ stage = [w \in Worker |-> "waiting"]
  /\ todo = [d \in Deploy |-> {}]
  /\ queue = [w \in Worker |-> {}]
  /\ Slots!Init
  /\ objects = [v \in Version |-> [n \in Asset |-> None]]
  /\ pages = [v \in Version |-> None]
  /\ rows = [v \in Version |-> NoRows]
  /\ tx = None
  /\ locked = {}
  /\ release = [d \in Deploy |-> "none"]
  /\ reindexes = 0
  /\ alone = [w \in Worker |-> TRUE]

\* acquireDeploySlot succeeds.
Start(d) ==
  /\ Move(d, "waiting", "parse")
  /\ Slots!Acquire(d)
  /\ Begins(d)
  /\ UNCHANGED <<todo, queue, stores, reindexes>>

\* The wait for a slot is over: 503 deploy_busy.
Shed(d) ==
  /\ Move(d, "waiting", "failed")
  /\ Cardinality(holders) >= MaxSlots
  /\ UNCHANGED <<todo, queue, holders, stores, reindexes, alone>>

\* Answer the request; the deferred release gives the slot back.
Respond(d, from, to) ==
  /\ Move(d, from, to)
  /\ Slots!Release({d})

\* The artifact or the token is invalid: 400 or 403, nothing was touched.
Reject(d) ==
  /\ Respond(d, "parse", "failed")
  /\ UNCHANGED <<todo, queue, stores, reindexes, alone>>

Authenticate(d) ==
  /\ Move(d, "parse", "upload")
  /\ todo' = [todo EXCEPT ![d] = Assets[d]]
  /\ UNCHANGED <<queue, holders, stores, reindexes, alone>>

\* Mutant: the object's name does not contain the version.
PutObjectUnversioned(d, n) ==
  objects' = [v \in Version |-> [objects[v] EXCEPT ![n] = d]]

PutObject(d, n) == objects' = [objects EXCEPT ![Target[d]][n] = d]

\* uploadSiteFilesToMinIO, one PutObject of its loop (a map: any order).
Upload(d, n) ==
  /\ stage[d] = "upload"
  /\ n \in todo[d]
  /\ PutObject(d, n)
  /\ todo' = [todo EXCEPT ![d] = @ \ {n}]
  /\ UNCHANGED <<stage, queue, holders, pages, rows, tx, locked, release,
                 reindexes, alone>>

\* PutObject fails, possibly after the object was written: the handler
\* answers 502 and, unlike its later failures, cleans nothing up.
UploadFail(d, n) ==
  /\ d \in Faulty
  /\ n \in todo[d]
  /\ Respond(d, "upload", "failed")
  /\ PutObject(d, n) \/ UNCHANGED objects
  /\ todo' = [todo EXCEPT ![d] = {}]
  /\ UNCHANGED <<queue, pages, rows, tx, locked, release, reindexes, alone>>

\* Mutant: nothing is deleted.
ClearNothing(d, from, to) ==
  /\ Move(d, from, to)
  /\ UNCHANGED <<todo, queue, holders, stores, reindexes, alone>>

\* DeleteModuleVersionEmbeddings: DeletePrefix on the version, which waits for
\* the row locks of an open ingest.  Called before the ingest and, by
\* ReindexModuleVersion, after it.
Clear(d, from, to) ==
  /\ Move(d, from, to)
  /\ \A k \in locked : k[1] # Target[d]
  /\ rows' = [rows EXCEPT ![Target[d]] = NoRows]
  /\ UNCHANGED <<todo, queue, holders, objects, pages, tx, locked, release,
                 reindexes, alone>>

ClearEmbeddings(d) == todo[d] = {} /\ Clear(d, "upload", "ingest")

Reclear(d) == Clear(d, "reindex", "snapshot")

\* Begin, lock the module row (FOR UPDATE), and set page_id to NULL in the
\* rows of the version that name their module.
IngestBegin(d) ==
  LET v == Target[d]
  IN  /\ Move(d, "ingest", "commit")
      /\ tx = None
      /\ tx' = d
      /\ locked' = {k \in {v} \X Doc : Owned(rows[v][k[2]])}
      /\ UNCHANGED <<todo, queue, holders, objects, pages, rows, release,
                     reindexes, alone>>

\* A row whose reference to a page of the version was not set to NULL: DELETE
\* FROM docs_page violates its foreign key.
Referenced(v) ==
  \E p \in Doc : /\ rows[v][p] # None
                 /\ rows[v][p].link \in Deploy
                 /\ <<v, p>> \notin locked

Unlinked(v) ==
  [p \in Doc |-> IF <<v, p>> \in locked
                 THEN [rows[v][p] EXCEPT !.link = "orphan"]
                 ELSE rows[v][p]]

\* The next upsert of w is a chunk that names a page of tx's version.
Upserts(w, c) ==
  /\ stage[w] = "embed"
  /\ c \in queue[w]
  /\ c.ver = Target[tx]
  /\ c.doc \in PagesOf(c.ver)

\* Such an upsert of a new row holds its page FOR KEY SHARE and waits for the
\* module, which tx holds, while tx waits to delete the page: PostgreSQL
\* aborts one of them.
Deadlocks(w) ==
  /\ tx # None
  /\ \E c \in queue[w] : Upserts(w, c) /\ ~Owned(rows[c.ver][c.doc])

\* The workers whose next upsert may be waiting for the open transaction, on
\* the module, on a row it updated or on a page it deleted.
Waiting == {w \in Worker : \E c \in queue[w] : Upserts(w, c)}

\* The worker loses its statement: a deploy goes on to remove its files, the
\* admin's request just fails.
Lose(w) == IF w = Admin THEN "failed" ELSE "cleanup"

\* Replace pages and entries, insert the release, commit.  The upserts that
\* waited then fail, for the page they refer to is gone.  "to" is where the
\* handler goes: a commit whose reply is lost looks like a failure.
Commit(d, to) ==
  LET v == Target[d]
  IN  /\ tx = d
      /\ ~Referenced(v)
      /\ pages' = [pages EXCEPT ![v] = d]
      /\ rows' = [rows EXCEPT ![v] = Unlinked(v)]
      /\ release' = [release EXCEPT ![d] = "published"]
      /\ tx' = None
      /\ locked' = {}
      /\ \E W \in SUBSET Waiting :
           /\ stage' = [w \in Worker |-> IF w = d THEN to
                                         ELSE IF w \in W THEN Lose(w)
                                         ELSE stage[w]]
           /\ queue' = [w \in Worker |-> IF w \in W THEN {} ELSE queue[w]]
           /\ todo' = [e \in Deploy |-> IF e \in W \/ (e = d /\ to = "cleanup")
                                        THEN Assets[e] ELSE todo[e]]
      /\ UNCHANGED <<holders, objects, reindexes, alone>>

\* Mutant: the transaction is neither committed nor rolled back.
IngestForgotten(d) ==
  /\ tx = d
  /\ Move(d, "commit", "reindex")
  /\ UNCHANGED <<todo, queue, holders, stores, reindexes, alone>>

IngestCommit(d) == Commit(d, "reindex")

IngestReplyLost(d) == d \in Faulty /\ Commit(d, "cleanup")

\* The handler turns to cleanupUploadedSiteFiles.
ToCleanup(d, from) ==
  /\ Move(d, from, "cleanup")
  /\ todo' = [todo EXCEPT ![d] = Assets[d]]
  /\ queue' = [queue EXCEPT ![d] = {}]
  /\ UNCHANGED <<holders, objects, pages, rows, release, reindexes, alone>>

ClearFail(d) ==
  /\ d \in Faulty
  /\ todo[d] = {}
  /\ ToCleanup(d, "upload") \/ ToCleanup(d, "reindex")
  /\ UNCHANGED <<tx, locked>>

IngestAbort(d) ==
  \/ /\ d \in Faulty
     /\ ToCleanup(d, "ingest")
     /\ UNCHANGED <<tx, locked>>
  \/ /\ d \in Faulty \/ Referenced(Target[d]) \/ \E w \in Worker : Deadlocks(w)
     /\ ToCleanup(d, "commit")
     /\ tx' = None
     /\ locked' = {}

\* Store.Pages(): one query, so the pages of one moment, or none at all: a
\* query that fails is answered with an empty list.
Snapshot(w) ==
  /\ \E chunks \in {{c \in Chunk : /\ c.ver \in Scope(w)
                                   /\ c.text = pages[c.ver]
                                   /\ c.doc \in PagesOf(c.ver)}}
                   \cup (IF w \in Faulty THEN {{}} ELSE {}) :
       /\ Move(w, "snapshot", IF chunks = {} THEN "skip" ELSE "embed")
       /\ queue' = [queue EXCEPT ![w] = chunks]
  /\ UNCHANGED <<todo, holders, stores, reindexes, alone>>

\* Mutant: the upsert does not wait for the module.
EmbedUnlocked(w, c) ==
  LET old == rows[c.ver][c.doc]
      link == IF c.doc \in PagesOf(c.ver) THEN pages[c.ver]
              ELSE IF old = None THEN "loose" ELSE old.link
  IN  /\ stage[w] = "embed"
      /\ c \in queue[w]
      /\ <<c.ver, c.doc>> \notin locked
      /\ rows' = [rows EXCEPT ![c.ver][c.doc] = [text |-> c.text, link |-> link]]
      /\ queue' = [queue EXCEPT ![w] = @ \ {c}]
      /\ UNCHANGED <<stage, todo, holders, objects, pages, tx, locked, release,
                     reindexes, alone>>

\* EmbedText, then UpsertChunk: the row is linked to the page that has the
\* doc_id now; without one the link of the row stays as it is.  The foreign
\* key of a row that gets its module waits for the ingest that locks it.
Embed(w, c) ==
  LET old == rows[c.ver][c.doc]
      found == c.doc \in PagesOf(c.ver)
      link == IF found THEN pages[c.ver]
              ELSE IF old = None THEN "loose" ELSE old.link
  IN  /\ stage[w] = "embed"
      /\ c \in queue[w]
      /\ <<c.ver, c.doc>> \notin locked
      /\ found /\ ~Owned(old) => tx = None
      /\ rows' = [rows EXCEPT ![c.ver][c.doc] = [text |-> c.text, link |-> link]]
      /\ queue' = [queue EXCEPT ![w] = @ \ {c}]
      /\ UNCHANGED <<stage, todo, holders, objects, pages, tx, locked, release,
                     reindexes, alone>>

\* The embedder or the upsert fails; the release of d is published by now, and
\* still its files are removed.
EmbedFail(d) ==
  /\ d \in Faulty \/ Deadlocks(d)
  /\ ToCleanup(d, "embed")
  /\ UNCHANGED <<tx, locked>>

\* 202 Accepted.
Accept(d) ==
  /\ queue[d] = {}
  /\ Respond(d, "embed", "accepted") \/ Respond(d, "skip", "unindexed")
  /\ UNCHANGED <<todo, queue, stores, reindexes, alone>>

\* cleanupUploadedSiteFiles, one RemoveObject of its loop: by name, whoever
\* wrote the object; an error is logged.
Remove(d, n) ==
  /\ stage[d] = "cleanup"
  /\ n \in todo[d]
  /\ \/ objects' = [objects EXCEPT ![Target[d]][n] = None]
     \/ d \in Faulty /\ UNCHANGED objects
  /\ todo' = [todo EXCEPT ![d] = @ \ {n}]
  /\ UNCHANGED <<stage, queue, holders, pages, rows, tx, locked, release,
                 reindexes, alone>>

\* Mutant: the failed deploy keeps its slot.
FailKeepsSlot(d) ==
  /\ todo[d] = {}
  /\ Move(d, "cleanup", "failed")
  /\ UNCHANGED <<todo, queue, holders, stores, reindexes, alone>>

Fail(d) ==
  /\ todo[d] = {}
  /\ Respond(d, "cleanup", "failed")
  /\ UNCHANGED <<todo, queue, stores, reindexes, alone>>

\* Mutant: the reindex keeps the rows that are there.
AdminClearNothing ==
  /\ reindexes < Reindexes
  /\ ~Active(Admin)
  /\ stage' = [stage EXCEPT ![Admin] = "snapshot"]
  /\ reindexes' = reindexes + 1
  /\ Begins(Admin)
  /\ UNCHANGED <<todo, queue, holders, stores>>

\* Reindex: Clear deletes every row, and waits for those that are locked.
AdminClear ==
  /\ reindexes < Reindexes
  /\ ~Active(Admin)
  /\ stage' = [stage EXCEPT ![Admin] = "snapshot"]
  /\ locked = {}
  /\ rows' = [v \in Version |-> NoRows]
  /\ reindexes' = reindexes + 1
  /\ Begins(Admin)
  /\ UNCHANGED <<todo, queue, holders, objects, pages, tx, locked, release>>

AdminDone ==
  /\ queue[Admin] = {}
  /\ Move(Admin, "embed", "accepted") \/ Move(Admin, "skip", "unindexed")
  /\ UNCHANGED <<todo, queue, holders, stores, reindexes, alone>>

AdminFail ==
  /\ Admin \in Faulty \/ Deadlocks(Admin)
  /\ Move(Admin, "embed", "failed")
  /\ queue' = [queue EXCEPT ![Admin] = {}]
  /\ UNCHANGED <<todo, holders, stores, reindexes, alone>>

\* RollbackRelease: one UPDATE of the status, of a release in any status.
Rollback(d) ==
  /\ d \in Withdrawn
  /\ release[d] # "none"
  /\ release' = [release EXCEPT ![d] = "rolled_back"]
  /\ UNCHANGED <<stage, todo, queue, holders, objects, pages, rows, tx, locked,
                 reindexes, alone>>

\* An API process dies with the requests S it was serving.  Its slots come
\* back (RedisDeployLimiter), its open transaction is rolled back.
Crash(S) ==
  /\ S # {}
  /\ S \subseteq holders \cap Faulty
  /\ Slots!Release(S)
  /\ stage' = [w \in Worker |-> IF w \in S THEN "failed" ELSE stage[w]]
  /\ todo' = [d \in Deploy |-> IF d \in S THEN {} ELSE todo[d]]
  /\ queue' = [w \in Worker |-> IF w \in S THEN {} ELSE queue[w]]
  /\ tx' = IF tx \in S THEN None ELSE tx
  /\ locked' = IF tx \in S THEN {} ELSE locked
  /\ UNCHANGED <<objects, pages, rows, release, reindexes, alone>>

\* The handler of d takes its next step.
Step(d) ==
  \/ Reject(d) \/ Authenticate(d)
  \/ \E n \in Asset : Upload(d, n) \/ UploadFail(d, n) \/ Remove(d, n)
  \/ ClearEmbeddings(d) \/ ClearFail(d)
  \/ IngestBegin(d) \/ IngestCommit(d) \/ IngestReplyLost(d) \/ IngestAbort(d)
  \/ Reclear(d) \/ EmbedFail(d) \/ Accept(d) \/ Fail(d)

\* One step of an embedding run, of a deploy or of the admin.
EmbedStep(w) == Snapshot(w) \/ \E c \in queue[w] : Embed(w, c)

Next ==
  \/ \E d \in Deploy : Start(d) \/ Shed(d) \/ Step(d) \/ Rollback(d)
  \/ \E w \in Worker : EmbedStep(w)
  \/ AdminClear \/ AdminDone \/ AdminFail
  \/ \E S \in SUBSET Deploy : Crash(S)

Spec == Init /\ [][Next]_vars

\* A handler that runs goes on running; nobody owes a deploy, an admin's
\* request, a fault or a crash.
FairSpec ==
  /\ Spec
  /\ \A d \in Deploy : WF_vars(Step(d))
  /\ \A w \in Worker : WF_vars(EmbedStep(w))
  /\ WF_vars(AdminDone)

-----------------------------------------------------------------------------
TypeOK ==
  /\ stage \in [Worker -> Stage]
  /\ todo \in [Deploy -> SUBSET Asset]
  /\ queue \in [Worker -> SUBSET Chunk]
  /\ holders = {d \in Deploy : Active(d)}
  /\ objects \in [Version -> [Asset -> Deploy \cup {None}]]
  /\ pages \in [Version -> Deploy \cup {None}]
  /\ rows \in [Version -> [Doc -> Row \cup {None}]]
  /\ tx \in Deploy \cup {None}
  /\ locked \subseteq Version \X Doc
  /\ release \in [Deploy -> {"none", "published", "rolled_back"}]
  /\ reindexes \in 0 .. Reindexes
  /\ alone \in [Worker -> BOOLEAN]

\* The embedding rows are those of the published pages, and of nothing else.
Embedded(v) ==
  \A p \in Doc : IF p \in PagesOf(v)
                 THEN rows[v][p] = [text |-> pages[v], link |-> pages[v]]
                 ELSE rows[v][p] = None

\* Pages, files and embeddings of the version of d are all those of d; when
\* the answer was that there is nothing to index, there are no embeddings.
Complete(d) ==
  /\ pages[Target[d]] = d
  /\ \A n \in Assets[d] : objects[Target[d]][n] = d
  /\ IF stage[d] = "accepted" THEN Embedded(Target[d])
     ELSE rows[Target[d]] = NoRows

\* A deploy that answers 202, and beside which nobody else worked on its
\* version, has left the three stores in agreement, whatever earlier deploys
\* that failed or died half way, or raced each other, left behind.
AcceptedIsComplete ==
  [][\A d \in Deploy :
       Active(d) /\ stage'[d] \in {"accepted", "unindexed"} /\ alone[d]
       => Complete(d)']_vars

\* What was published stays complete while nobody works on that version:
\* neither deploys of other versions, nor crashes, nor the end of an earlier
\* deploy of the version take anything from it.
CompleteUntilRedeployed ==
  [][\A d \in Deploy :
       /\ stage[d] \in {"accepted", "unindexed"} /\ Complete(d)
       /\ \A w \in Rivals(d) : ~Active(w) /\ ~Active(w)'
       => Complete(d)']_vars

\* Embeddings are made from published pages only: no row carries text of an
\* artifact whose ingest never committed.
TextWasPublished ==
  \A v \in Version, p \in Doc :
    rows[v][p] # None => /\ release[rows[v][p].text] # "none"
                         /\ p \in Docs[rows[v][p].text]
                         /\ Target[rows[v][p].text] = v

\* The ingest can delete the pages it replaces: no row references them, not
\* even one that a reindex is writing beside it.  The NULLs of the update do
\* not suffice, it takes the lock of the module to keep new rows out.
PagesReplaceable == tx # None => ~Referenced(Target[tx])

\* An admin reindex beside which no deploy was active, and which has embedded
\* anything, repairs every version, whatever state it started from.
ReindexRepairs ==
  stage[Admin] = "accepted" /\ alone[Admin] => \A v \in Version : Embedded(v)

\* "Reindex (re)computes and caches embeddings for every page chunk": one that
\* is answered with "reindexed" and had no deploy beside it has done so.
ReindexCoversAll ==
  stage[Admin] \in {"accepted", "unindexed"} /\ alone[Admin]
    => \A v \in Version : Embedded(v)

\* No deploy hangs: row locks, the module lock and the slots never wait on
\* each other.
DeployEnds ==
  \A d \in Deploy :
    stage[d] = "parse" ~> stage[d] \in Ended

=============================================================================
