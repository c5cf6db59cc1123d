------------------------ MODULE DeployPipelineProofs ------------------------
(***************************************************************************)
(* Theorems about DeployPipeline, for any deploys, versions, files and     *)
(* pages, any number of slots and reindexes, whoever meets failures.       *)
(*                                                                         *)
(* The argument: the open transaction has locked every embedding row of    *)
(* its version that names a module, and no such row is added while it is   *)
(* open (LockedInv); what is queued for embedding, or embedded, was read   *)
(* from published pages (PublishedInv); and the stores change under a      *)
(* version only by workers that are active on it, so what a worker beside  *)
(* which nobody else was active has done so far is still there (AloneInv,  *)
(* FilesInv, RowsInv).                                                     *)
(***************************************************************************)
EXTENDS DeployPipeline, TLAPS

\* The open transaction is that of the one deploy at its commit.
TxInv == \A d \in Deploy : stage[d] = "commit" <=> tx = d

\* It has locked the rows of its version that name their module.
LockedInv ==
  /\ tx = None => locked = {}
  /\ tx # None => locked = {k \in {Target[tx]} \X Doc : Owned(rows[k[1]][k[2]])}

\* d has published the page p of version v.
Published(d, v, p) == Target[d] = v /\ p \in Docs[d] /\ release[d] # "none"

PublishedInv ==
  /\ \A v \in Version :
       pages[v] # None => Target[pages[v]] = v /\ release[pages[v]] # "none"
  /\ \A w \in Worker : \A c \in queue[w] :
       c.ver \in Scope(w) /\ Published(c.text, c.ver, c.doc)
  /\ TextWasPublished

\* Nobody else is active on the versions of a worker that is alone.
AloneInv ==
  \A w \in Worker :
    alone[w] /\ stage[w] \notin {"waiting", "failed"}
      => \A u \in Rivals(w) : ~Active(u)

\* The stages of d from upload on, and those after its commit.
Indexing == {"reindex", "snapshot", "embed", "skip", "accepted", "unindexed"}
Loading == Indexing \cup {"upload", "ingest", "commit"}

\* The files that d has uploaded, and its pages, are there.
FilesOf(d) ==
  /\ stage[d] \in Loading =>
       \A n \in Assets[d] : \/ objects[Target[d]][n] = d
                            \/ stage[d] = "upload" /\ n \in todo[d]
  /\ stage[d] \in Indexing => pages[Target[d]] = d

FilesInv == \A d \in Deploy : alone[d] => FilesOf(d)

\* The rows of version v are those of its pages, but for the chunks in q.
Partial(v, q) ==
  /\ \A c \in q : c.ver = v => c.text = pages[v] /\ c.doc \in PagesOf(v)
  /\ \A p \in Doc :
       rows[v][p] =
         IF p \in PagesOf(v) /\ [ver |-> v, doc |-> p, text |-> pages[v]] \notin q
         THEN [text |-> pages[v], link |-> pages[v]]
         ELSE None

\* What the reindex of w has done so far is there.
RowsOf(w) ==
  \A v \in Scope(w) :
    /\ stage[w] \in {"snapshot", "skip", "unindexed"} => rows[v] = NoRows
    /\ stage[w] = "embed" => Partial(v, queue[w])
    /\ stage[w] = "accepted" => Embedded(v)

RowsInv == \A w \in Worker : alone[w] => RowsOf(w)

PipelineInv ==
  /\ TypeOK
  /\ TxInv
  /\ LockedInv
  /\ PublishedInv
  /\ AloneInv
  /\ FilesInv
  /\ RowsInv

-----------------------------------------------------------------------------
(***************************************************************************)
(* What the actions have in common.                                        *)
(***************************************************************************)

\* A step of one handler.
LEMMA MoveType ==
  ASSUME TypeOK, NEW w \in Worker, NEW from \in Stage, NEW to \in Stage,
         Move(w, from, to)
  PROVE  /\ stage' \in [Worker -> Stage]
         /\ stage[w] = from /\ stage'[w] = to
         /\ \A u \in Worker \ {w} : stage'[u] = stage[u]
BY DEF TypeOK, Move

\* The slots are those of the active deploys.
LEMMA HoldersKept ==
  ASSUME TypeOK, holders' = holders,
         \A d \in Deploy : Active(d)' = Active(d)
  PROVE  holders' = {d \in Deploy : Active(d)'}
BY DEF TypeOK

\* A handler that answers gives its slot back.
LEMMA HoldersRelease ==
  ASSUME TypeOK, NEW d \in Deploy, NEW from \in Stage, NEW to \in Ended,
         Respond(d, from, to)
  PROVE  /\ holders' = {e \in Deploy : Active(e)'}
         /\ stage' \in [Worker -> Stage]
         /\ stage[d] = from /\ stage'[d] = to
         /\ \A u \in Worker \ {d} : stage'[u] = stage[u]
         /\ Active(d)
<1>1. /\ stage' \in [Worker -> Stage] /\ stage[d] = from /\ stage'[d] = to
      /\ \A u \in Worker \ {d} : stage'[u] = stage[u]
  BY MoveType DEF Respond, Worker, Stage
<1>2. d \in holders /\ holders' = holders \ {d}
  BY DEF Respond, Slots!Release
<1>3. \A e \in Deploy : Active(e)' <=> Active(e) /\ e # d
  BY <1>1 DEF Active, Worker
<1>. QED
  BY <1>1, <1>2, <1>3 DEF TypeOK

\* Only one deploy is at its commit.
LEMMA TxKept ==
  ASSUME TxInv, tx' = tx,
         \A d \in Deploy : stage'[d] = "commit" <=> stage[d] = "commit"
  PROVE  TxInv'
BY DEF TxInv

\* Text stays published when nothing is added to rows and queues.
LEMMA PublishedKept ==
  ASSUME TypeOK, PublishedInv, pages' = pages,
         \A d \in Deploy : release[d] # "none" => release'[d] # "none",
         \A w \in Worker : queue'[w] \subseteq queue[w],
         \A v \in Version, p \in Doc :
           rows'[v][p] # None => /\ rows[v][p] # None
                                 /\ rows'[v][p].text = rows[v][p].text
  PROVE  PublishedInv'
<1>1. \A v \in Version : pages'[v] # None =>
        Target[pages'[v]] = v /\ release'[pages'[v]] # "none"
  BY DEF TypeOK, PublishedInv
<1>2. ASSUME NEW w \in Worker, NEW c \in queue'[w]
      PROVE  c.ver \in Scope(w) /\ Published(c.text, c.ver, c.doc)'
  <2>1. c \in queue[w] /\ c \in Chunk
    BY <1>2 DEF TypeOK
  <2>2. c.text \in Deploy
    BY <2>1 DEF Chunk
  <2>. QED
    BY <2>1, <2>2 DEF PublishedInv, Published
<1>3. ASSUME NEW v \in Version, NEW p \in Doc, rows'[v][p] # None
      PROVE  /\ release'[rows'[v][p].text] # "none"
             /\ p \in Docs[rows'[v][p].text]
             /\ Target[rows'[v][p].text] = v
  <2>1. rows[v][p] # None /\ rows'[v][p].text = rows[v][p].text
    BY <1>3
  <2>2. rows[v][p] \in Row
    BY <2>1 DEF TypeOK
  <2>3. rows[v][p].text \in Deploy
    BY <2>2 DEF Row
  <2>. QED
    BY <2>1, <2>3 DEF PublishedInv, TextWasPublished
<1>. QED
  BY <1>1, <1>2, <1>3 DEF PublishedInv, TextWasPublished, Published

\* Who is alone stays so while nobody becomes active.
LEMMA AloneKept ==
  ASSUME AloneInv,
         \A w \in Worker : alone'[w] => alone[w],
         \A w \in Worker : Active(w)' => Active(w),
         \A w \in Worker : stage'[w] \notin {"waiting", "failed"}
                             => stage[w] \notin {"waiting", "failed"}
  PROVE  AloneInv'
BY DEF AloneInv, Rivals, Scope, Worker

\* The versions of an active worker are not those of one that is alone.
LEMMA Apart ==
  ASSUME AloneInv, NEW x \in Worker, Active(x), NEW w \in Worker \ {x},
         alone[w], stage[w] \notin {"waiting", "failed"}
  PROVE  Scope(w) \cap Scope(x) = {}
BY DEF AloneInv, Rivals

\* A worker none of whose versions is changed, or which gives up.
LEMMA Unaffected ==
  ASSUME FilesInv, RowsInv, NEW w \in Worker, alone'[w] => alone[w],
         \/ stage'[w] \in {"waiting", "parse", "cleanup", "failed"}
         \/ /\ stage'[w] = stage[w] /\ queue'[w] = queue[w]
            /\ w \in Deploy => todo'[w] = todo[w]
            /\ alone'[w] => \A v \in Scope(w) :
                 objects'[v] = objects[v] /\ pages'[v] = pages[v] /\ rows'[v] = rows[v]
  PROVE  alone'[w] => RowsOf(w)' /\ (w \in Deploy => FilesOf(w)')
<1>. SUFFICES ASSUME alone'[w] PROVE RowsOf(w)' /\ (w \in Deploy => FilesOf(w)')
  OBVIOUS
<1>1. CASE stage'[w] \in {"waiting", "parse", "cleanup", "failed"}
  BY <1>1 DEF RowsOf, FilesOf, Loading, Indexing
<1>2. CASE /\ stage'[w] = stage[w] /\ queue'[w] = queue[w]
           /\ w \in Deploy => todo'[w] = todo[w]
           /\ \A v \in Scope(w) :
                objects'[v] = objects[v] /\ pages'[v] = pages[v] /\ rows'[v] = rows[v]
  <2>1. RowsOf(w)'
    <3>. RowsOf(w)
      BY DEF RowsInv
    <3>. QED
      BY <1>2 DEF RowsOf, Partial, Embedded, PagesOf
  <2>2. ASSUME w \in Deploy PROVE FilesOf(w)'
    <3>1. Target[w] \in Scope(w)
      BY <2>2, PipelineAssumption DEF Scope
    <3>. QED
      BY <1>2, <2>2, <3>1 DEF FilesInv, FilesOf
  <2>. QED
    BY <2>1, <2>2
<1>. QED
  BY <1>1, <1>2

\* x takes a step: it is enough to look at x itself.
LEMMA Elsewhere ==
  ASSUME AloneInv, FilesInv, RowsInv, NEW x \in Worker, Active(x),
         alone' = alone,
         \A w \in Worker \ {x} :
           \/ stage'[w] \in {"cleanup", "failed"}
           \/ /\ stage'[w] = stage[w] /\ queue'[w] = queue[w]
              /\ w \in Deploy => todo'[w] = todo[w],
         \A v \in Version \ Scope(x) :
           objects'[v] = objects[v] /\ pages'[v] = pages[v] /\ rows'[v] = rows[v],
         alone[x] => RowsOf(x)' /\ (x \in Deploy => FilesOf(x)')
  PROVE  FilesInv' /\ RowsInv'
<1>1. ASSUME NEW w \in Worker, alone'[w]
      PROVE  RowsOf(w)' /\ (w \in Deploy => FilesOf(w)')
  <2>1. CASE w = x
    BY <1>1, <2>1
  <2>2. CASE w # x /\ stage'[w] \in {"waiting", "cleanup", "failed"}
    BY <1>1, <2>2, Unaffected
  <2>3. CASE w # x /\ stage'[w] \notin {"waiting", "cleanup", "failed"}
    <3>1. Scope(w) \cap Scope(x) = {}
      BY <1>1, <2>3, Apart
    <3>2. Scope(w) \subseteq Version
      BY PipelineAssumption DEF Scope, Worker
    <3>3. \A v \in Scope(w) :
            objects'[v] = objects[v] /\ pages'[v] = pages[v] /\ rows'[v] = rows[v]
      BY <3>1, <3>2
    <3>. QED
      BY <1>1, <2>3, <3>3, Unaffected
  <2>. QED
    BY <2>1, <2>2, <2>3
<1>. QED
  BY <1>1 DEF FilesInv, RowsInv, Worker

\* A deploy begins.  Those that are alone on its version are no longer.
LEMMA StartKeeps ==
  ASSUME PipelineInv, NEW d \in Deploy, Start(d)
  PROVE  PipelineInv'
<1>. USE PipelineAssumption DEF PipelineInv
<1>1. /\ stage' \in [Worker -> Stage]
      /\ stage[d] = "waiting" /\ stage'[d] = "parse"
      /\ \A u \in Worker \ {d} : stage'[u] = stage[u]
  BY MoveType DEF Start, Stage, Ended, Worker
<1>2. holders' = {e \in Deploy : Active(e)'}
  BY <1>1 DEF Start, Slots!Acquire, TypeOK, Active, Ended, Worker
<1>3. /\ alone' \in [Worker -> BOOLEAN]
      /\ alone'[d] => \A u \in Rivals(d) : ~Active(u)
      /\ \A u \in Worker \ {d} : alone'[u] => alone[u] /\ u \notin Rivals(d)
  BY DEF Start, Begins, Worker, TypeOK
<1>4. TypeOK'
  BY <1>1, <1>2, <1>3 DEF TypeOK, stores, Start
<1>5. TxInv'
  BY <1>1, TxKept DEF Start, stores, Worker
<1>6. LockedInv'
  BY DEF LockedInv, stores, Start
<1>7. PublishedInv'
  BY PublishedKept DEF Start, stores
<1>8. AloneInv'
  <2>. SUFFICES ASSUME NEW w \in Worker, alone'[w],
                       stage'[w] \notin {"waiting", "failed"},
                       NEW u \in Rivals(w)
                PROVE  ~Active(u)'
    BY DEF AloneInv, Rivals
  <2>1. CASE w = d
    BY <1>1, <1>3, <2>1 DEF Rivals, Active
  <2>2. CASE w # d
    <3>1. w \notin Rivals(d) /\ alone[w]
      BY <1>3, <2>2
    <3>2. u # d
      BY <2>2, <3>1 DEF Rivals, Worker
    <3>. QED
      BY <1>1, <2>2, <3>1, <3>2 DEF AloneInv, Rivals, Active
  <2>. QED
    BY <2>1, <2>2
<1>9. FilesInv' /\ RowsInv'
  <2>1. \A w \in Worker : alone'[w] => RowsOf(w)' /\ (w \in Deploy => FilesOf(w)')
    <3>1. ASSUME NEW w \in Worker, w # d
          PROVE  alone'[w] => RowsOf(w)' /\ (w \in Deploy => FilesOf(w)')
      BY <1>1, <1>3, <3>1, Unaffected DEF Start, stores
    <3>2. alone'[d] => RowsOf(d)' /\ FilesOf(d)'
      BY <1>1 DEF RowsOf, FilesOf, Loading, Indexing
    <3>. QED
      BY <3>1, <3>2
  <2>. QED
    BY <2>1 DEF FilesInv, RowsInv, Worker
<1>. QED
  BY <1>1, <1>2, <1>3, <1>4, <1>5, <1>6, <1>7, <1>8, <1>9

\* A deploy that finds no slot has touched nothing.
LEMMA ShedKeeps ==
  ASSUME PipelineInv, NEW d \in Deploy, Shed(d)
  PROVE  PipelineInv'
<1>. USE PipelineAssumption DEF PipelineInv
<1>1. /\ stage' \in [Worker -> Stage]
      /\ stage[d] = "waiting" /\ stage'[d] = "failed"
      /\ \A u \in Worker \ {d} : stage'[u] = stage[u]
  BY MoveType DEF Shed, Stage, Ended, Worker
<1>2. holders' = {e \in Deploy : Active(e)'}
  BY <1>1, HoldersKept DEF Shed, Active, Ended, Worker
<1>3. TypeOK'
  BY <1>1, <1>2 DEF TypeOK, stores, Shed
<1>4. TxInv'
  BY <1>1, TxKept DEF Shed, stores, Worker
<1>5. LockedInv'
  BY DEF LockedInv, stores, Shed
<1>6. PublishedInv'
  BY PublishedKept DEF Shed, stores
<1>7. AloneInv'
  BY <1>1, AloneKept DEF Shed, Active, Ended, stores
<1>8. FilesInv' /\ RowsInv'
  <2>1. \A w \in Worker : alone'[w] => RowsOf(w)' /\ (w \in Deploy => FilesOf(w)')
    BY <1>1, Unaffected DEF Shed, stores
  <2>. QED
    BY <2>1 DEF FilesInv, RowsInv, Worker
<1>. QED
  BY <1>1, <1>2, <1>3, <1>4, <1>5, <1>6, <1>7, <1>8

\* A deploy that is not authorised, or whose artifact is not read, ends.
LEMMA RejectKeeps ==
  ASSUME PipelineInv, NEW d \in Deploy, Reject(d)
  PROVE  PipelineInv'
<1>. USE PipelineAssumption DEF PipelineInv
<1>1. /\ stage' \in [Worker -> Stage]
      /\ stage[d] = "parse" /\ stage'[d] = "failed"
      /\ \A u \in Worker \ {d} : stage'[u] = stage[u]
  BY HoldersRelease DEF Reject, Stage, Ended
<1>2. holders' = {e \in Deploy : Active(e)'}
  BY HoldersRelease DEF Reject, Stage, Ended
<1>3. TypeOK'
  BY <1>1, <1>2 DEF TypeOK, stores, Reject
<1>4. TxInv'
  BY <1>1, TxKept DEF Reject, stores, Worker
<1>5. LockedInv'
  BY DEF LockedInv, stores, Reject
<1>6. PublishedInv'
  BY PublishedKept DEF Reject, stores
<1>7. AloneInv'
  BY <1>1, AloneKept DEF Reject, Active, Ended, stores
<1>8. FilesInv' /\ RowsInv'
  BY <1>1, Elsewhere DEF Reject, Active, Ended, stores, Worker, RowsOf,
     FilesOf, Loading, Indexing
<1>. QED
  BY <1>1, <1>2, <1>3, <1>4, <1>5, <1>6, <1>7, <1>8

\* Nothing of the version is there yet.
LEMMA AuthenticateKeeps ==
  ASSUME PipelineInv, NEW d \in Deploy, Authenticate(d)
  PROVE  PipelineInv'
<1>. USE PipelineAssumption DEF PipelineInv
<1>1. /\ stage' \in [Worker -> Stage]
      /\ stage[d] = "parse" /\ stage'[d] = "upload"
      /\ \A u \in Worker \ {d} : stage'[u] = stage[u]
  BY MoveType DEF Authenticate, Stage, Ended, Worker
<1>2. holders' = {e \in Deploy : Active(e)'}
  BY <1>1, HoldersKept DEF Authenticate, Active, Ended, Worker
<1>3. TypeOK'
  BY <1>1, <1>2 DEF TypeOK, stores, Authenticate
<1>4. TxInv'
  BY <1>1, TxKept DEF Authenticate, stores, Worker
<1>5. LockedInv'
  BY DEF LockedInv, stores, Authenticate
<1>6. PublishedInv'
  BY PublishedKept DEF Authenticate, stores
<1>7. AloneInv'
  BY <1>1, AloneKept DEF Authenticate, Active, Ended, stores
<1>8. FilesInv' /\ RowsInv'
  <2>1. FilesOf(d)' /\ RowsOf(d)'
    BY <1>1 DEF Authenticate, TypeOK, RowsOf, FilesOf, Loading, Indexing
  <2>. QED
    BY <1>1, <2>1, Elsewhere DEF Authenticate, Active, Ended, stores, Worker
<1>. QED
  BY <1>1, <1>2, <1>3, <1>4, <1>5, <1>6, <1>7, <1>8

\* Each file is either uploaded or still to do.
LEMMA UploadKeeps ==
  ASSUME PipelineInv, NEW d \in Deploy, NEW n \in Asset, Upload(d,n)
  PROVE  PipelineInv'
<1>. USE PipelineAssumption DEF PipelineInv
<1>1. /\ objects' \in [Version -> [Asset -> Deploy \cup {None}]]
      /\ \A v \in Version \ {Target[d]} : objects'[v] = objects[v]
      /\ \A m \in Asset : objects'[Target[d]][m] =
                            IF m = n THEN d ELSE objects[Target[d]][m]
  BY DEF Upload, PutObject, TypeOK
<1>2. /\ todo' \in [Deploy -> SUBSET Asset] /\ todo'[d] = todo[d] \ {n}
      /\ \A e \in Deploy \ {d} : todo'[e] = todo[e]
  BY DEF Upload, TypeOK
<1>3. TypeOK'
  BY <1>1, <1>2 DEF TypeOK, Active, Upload
<1>4. TxInv'
  BY TxKept DEF Upload, stores
<1>5. LockedInv'
  BY DEF LockedInv, stores, Upload
<1>6. PublishedInv'
  BY PublishedKept DEF Upload, stores
<1>7. AloneInv'
  BY AloneKept DEF Upload, Active, stores
<1>8. FilesInv' /\ RowsInv'
  <2>1. FilesOf(d)' \/ ~alone[d]
    BY <1>1, <1>2 DEF Upload, FilesInv, FilesOf, Loading, Indexing
  <2>2. RowsOf(d)'
    BY DEF Upload, RowsOf
  <2>3. Active(d)
    BY DEF Upload, Active, Ended
  <2>. QED
    BY <1>1, <1>2, <2>1, <2>2, <2>3, Elsewhere DEF Upload, Worker, Scope
<1>. QED
  BY <1>1, <1>2, <1>3, <1>4, <1>5, <1>6, <1>7, <1>8

\* The deploy ends; what it has uploaded stays.
LEMMA UploadFailKeeps ==
  ASSUME PipelineInv, NEW d \in Deploy, NEW n \in Asset, UploadFail(d,n)
  PROVE  PipelineInv'
<1>. USE PipelineAssumption DEF PipelineInv
<1>1. /\ objects' \in [Version -> [Asset -> Deploy \cup {None}]]
      /\ \A v \in Version \ {Target[d]} : objects'[v] = objects[v]
  <2>1. CASE PutObject(d, n)
    BY <2>1 DEF PutObject, TypeOK
  <2>2. CASE objects' = objects
    BY <2>2 DEF TypeOK
  <2>. QED
    BY <2>1, <2>2 DEF UploadFail
<1>2. /\ stage' \in [Worker -> Stage]
      /\ stage[d] = "upload" /\ stage'[d] = "failed"
      /\ \A u \in Worker \ {d} : stage'[u] = stage[u]
  BY HoldersRelease DEF UploadFail, Stage, Ended
<1>3. holders' = {e \in Deploy : Active(e)'}
  BY HoldersRelease DEF UploadFail, Stage, Ended
<1>4. TypeOK'
  BY <1>1, <1>2, <1>3 DEF TypeOK, UploadFail
<1>5. TxInv'
  BY <1>2, TxKept DEF UploadFail, stores, Worker
<1>6. LockedInv'
  BY DEF LockedInv, stores, UploadFail
<1>7. PublishedInv'
  BY PublishedKept DEF UploadFail, stores
<1>8. AloneInv'
  BY <1>2, AloneKept DEF UploadFail, Active, Ended, stores
<1>9. FilesInv' /\ RowsInv'
  BY <1>1, <1>2, Elsewhere DEF UploadFail, Active, Ended, Worker, TypeOK,
     RowsOf, FilesOf, Loading, Indexing, Scope
<1>. QED
  BY <1>1, <1>2, <1>3, <1>4, <1>5, <1>6, <1>7, <1>8, <1>9

\* The rows of the version are gone; the transaction that may be open has
\* locked none of them, or the statement would have waited.
LEMMA ClearEmbeddingsKeeps ==
  ASSUME PipelineInv, NEW d \in Deploy, ClearEmbeddings(d)
  PROVE  PipelineInv'
<1>. USE PipelineAssumption DEF PipelineInv
<1>1. /\ rows' \in [Version -> [Doc -> Row \cup {None}]]
      /\ rows'[Target[d]] = NoRows
      /\ \A v \in Version \ {Target[d]} : rows'[v] = rows[v]
  BY DEF ClearEmbeddings, Clear, TypeOK, NoRows
<1>2. /\ stage' \in [Worker -> Stage]
      /\ stage[d] = "upload" /\ stage'[d] = "ingest"
      /\ \A u \in Worker \ {d} : stage'[u] = stage[u]
  BY MoveType DEF ClearEmbeddings, Clear, Stage, Ended, Worker
<1>3. holders' = {e \in Deploy : Active(e)'}
  BY <1>2, HoldersKept DEF ClearEmbeddings, Clear, Active, Ended, Worker
<1>4. TypeOK'
  BY <1>1, <1>2, <1>3 DEF TypeOK, ClearEmbeddings, Clear
<1>5. TxInv'
  BY <1>2, TxKept DEF ClearEmbeddings, Clear, stores, Worker
<1>6. LockedInv'
  <2>1. CASE tx = None
    BY <2>1 DEF ClearEmbeddings, Clear, LockedInv
  <2>2. CASE tx # None
    <3>1. locked = {k \in {Target[tx]} \X Doc : Owned(rows[k[1]][k[2]])}
      BY <2>2 DEF LockedInv
    <3>2. \A k \in {Target[tx]} \X Doc : Owned(rows'[k[1]][k[2]]) <=> Owned(rows[k[1]][k[2]])
      BY <1>1, <3>1, <2>2 DEF ClearEmbeddings, Clear, TypeOK, NoRows, Owned
    <3>. QED
      BY <2>2, <3>1, <3>2 DEF ClearEmbeddings, Clear, LockedInv
  <2>. QED
    BY <2>1, <2>2
<1>7. PublishedInv'
  BY <1>1, PublishedKept DEF ClearEmbeddings, Clear, NoRows
<1>8. AloneInv'
  BY <1>2, AloneKept DEF ClearEmbeddings, Clear, Active, Ended, stores
<1>9. FilesInv' /\ RowsInv'
  <2>1. alone[d] => FilesOf(d)'
    BY <1>2 DEF ClearEmbeddings, Clear, FilesInv, FilesOf, Loading, Indexing
  <2>2. RowsOf(d)'
    BY <1>1, <1>2 DEF RowsOf, Scope, Worker
  <2>3. Active(d)
    BY <1>2 DEF Active, Ended
  <2>. QED
    BY <1>1, <1>2, <2>1, <2>2, <2>3, Elsewhere
       DEF ClearEmbeddings, Clear, Worker, Scope
<1>. QED
  BY <1>1, <1>2, <1>3, <1>4, <1>5, <1>6, <1>7, <1>8, <1>9

\* The same, once the pages are replaced.
LEMMA ReclearKeeps ==
  ASSUME PipelineInv, NEW d \in Deploy, Reclear(d)
  PROVE  PipelineInv'
<1>. USE PipelineAssumption DEF PipelineInv
<1>1. /\ rows' \in [Version -> [Doc -> Row \cup {None}]]
      /\ rows'[Target[d]] = NoRows
      /\ \A v \in Version \ {Target[d]} : rows'[v] = rows[v]
  BY DEF Reclear, Clear, TypeOK, NoRows
<1>2. /\ stage' \in [Worker -> Stage]
      /\ stage[d] = "reindex" /\ stage'[d] = "snapshot"
      /\ \A u \in Worker \ {d} : stage'[u] = stage[u]
  BY MoveType DEF Reclear, Clear, Stage, Ended, Worker
<1>3. holders' = {e \in Deploy : Active(e)'}
  BY <1>2, HoldersKept DEF Reclear, Clear, Active, Ended, Worker
<1>4. TypeOK'
  BY <1>1, <1>2, <1>3 DEF TypeOK, Reclear, Clear
<1>5. TxInv'
  BY <1>2, TxKept DEF Reclear, Clear, stores, Worker
<1>6. LockedInv'
  <2>1. CASE tx = None
    BY <2>1 DEF Reclear, Clear, LockedInv
  <2>2. CASE tx # None
    <3>1. locked = {k \in {Target[tx]} \X Doc : Owned(rows[k[1]][k[2]])}
      BY <2>2 DEF LockedInv
    <3>2. \A k \in {Target[tx]} \X Doc : Owned(rows'[k[1]][k[2]]) <=> Owned(rows[k[1]][k[2]])
      BY <1>1, <3>1, <2>2 DEF Reclear, Clear, TypeOK, NoRows, Owned
    <3>. QED
      BY <2>2, <3>1, <3>2 DEF Reclear, Clear, LockedInv
  <2>. QED
    BY <2>1, <2>2
<1>7. PublishedInv'
  BY <1>1, PublishedKept DEF Reclear, Clear, NoRows
<1>8. AloneInv'
  BY <1>2, AloneKept DEF Reclear, Clear, Active, Ended, stores
<1>9. FilesInv' /\ RowsInv'
  <2>1. alone[d] => FilesOf(d)'
    BY <1>2 DEF Reclear, Clear, FilesInv, FilesOf, Loading, Indexing
  <2>2. RowsOf(d)'
    BY <1>1, <1>2 DEF RowsOf, Scope, Worker
  <2>3. Active(d)
    BY <1>2 DEF Active, Ended
  <2>. QED
    BY <1>1, <1>2, <2>1, <2>2, <2>3, Elsewhere
       DEF Reclear, Clear, Worker, Scope
<1>. QED
  BY <1>1, <1>2, <1>3, <1>4, <1>5, <1>6, <1>7, <1>8, <1>9

\* The transaction locks the rows that name the module of its version.
LEMMA IngestBeginKeeps ==
  ASSUME PipelineInv, NEW d \in Deploy, IngestBegin(d)
  PROVE  PipelineInv'
<1>. USE PipelineAssumption DEF PipelineInv
<1>1. /\ stage' \in [Worker -> Stage]
      /\ stage[d] = "ingest" /\ stage'[d] = "commit"
      /\ \A u \in Worker \ {d} : stage'[u] = stage[u]
  BY MoveType DEF IngestBegin, Stage, Ended, Worker
<1>2. holders' = {e \in Deploy : Active(e)'}
  BY <1>1, HoldersKept DEF IngestBegin, Active, Ended, Worker
<1>3. TypeOK'
  BY <1>1, <1>2 DEF TypeOK, IngestBegin
<1>4. TxInv'
  BY <1>1 DEF TxInv, TypeOK, IngestBegin, Worker
<1>5. LockedInv'
  BY DEF LockedInv, IngestBegin
<1>6. PublishedInv'
  BY PublishedKept DEF IngestBegin, stores
<1>7. AloneInv'
  BY <1>1, AloneKept DEF IngestBegin, Active, Ended, stores
<1>8. FilesInv' /\ RowsInv'
  <2>1. RowsOf(d)' /\ (alone[d] => FilesOf(d)')
    BY <1>1 DEF IngestBegin, FilesInv, RowsOf, FilesOf, Loading, Indexing
  <2>. QED
    BY <1>1, <2>1, Elsewhere DEF IngestBegin, Active, Ended, Worker
<1>. QED
  BY <1>1, <1>2, <1>3, <1>4, <1>5, <1>6, <1>7, <1>8


\* A deploy turns to the removal of its files.
LEMMA CleanupType ==
  ASSUME TypeOK, NEW d \in Deploy, NEW from \in Stage, ToCleanup(d, from),
         from \notin Ended \cup {"waiting"}
  PROVE  /\ stage' \in [Worker -> Stage]
         /\ stage[d] = from /\ stage'[d] = "cleanup" /\ Active(d)
         /\ \A u \in Worker \ {d} : stage'[u] = stage[u]
         /\ holders' = {e \in Deploy : Active(e)'}
         /\ todo' \in [Deploy -> SUBSET Asset]
         /\ \A e \in Deploy \ {d} : todo'[e] = todo[e]
         /\ queue' \in [Worker -> SUBSET Chunk]
         /\ queue'[d] = {}
         /\ \A u \in Worker \ {d} : queue'[u] = queue[u]
<1>. USE PipelineAssumption
<1>1. /\ stage' \in [Worker -> Stage] /\ stage[d] = from /\ stage'[d] = "cleanup"
      /\ \A u \in Worker \ {d} : stage'[u] = stage[u]
  BY MoveType DEF ToCleanup, Stage, Ended, Worker
<1>2. /\ queue' \in [Worker -> SUBSET Chunk] /\ queue'[d] = {}
      /\ \A u \in Worker \ {d} : queue'[u] = queue[u]
  BY DEF ToCleanup, TypeOK, Worker
<1>3. /\ todo' \in [Deploy -> SUBSET Asset]
      /\ \A e \in Deploy \ {d} : todo'[e] = todo[e]
  BY DEF ToCleanup, TypeOK
<1>4. holders' = {e \in Deploy : Active(e)'}
  BY <1>1, HoldersKept DEF ToCleanup, Active, Ended, Worker
<1>. QED
  BY <1>1, <1>2, <1>3, <1>4 DEF Active

\* Its transaction, if it has one, is over.
LEMMA CleanupKeeps ==
  ASSUME PipelineInv, NEW d \in Deploy, NEW from \in Stage, ToCleanup(d, from),
         from \notin Ended \cup {"waiting"},
         IF from = "commit" THEN tx' = None /\ locked' = {}
                            ELSE tx' = tx /\ locked' = locked
  PROVE  PipelineInv'
<1>. USE PipelineAssumption DEF PipelineInv
<1>1. TypeOK'
  BY CleanupType DEF TypeOK, ToCleanup
<1>2. TxInv'
  <2>1. CASE from = "commit"
    <3>1. tx = d
      BY <2>1, CleanupType DEF TxInv
    <3>. QED
      BY <2>1, <3>1, CleanupType DEF TxInv, Worker
  <2>2. CASE from # "commit"
    BY <2>2, CleanupType, TxKept DEF Worker
  <2>. QED
    BY <2>1, <2>2
<1>3. LockedInv'
  BY CleanupType DEF LockedInv, ToCleanup
<1>4. PublishedInv'
  BY CleanupType, PublishedKept DEF ToCleanup
<1>5. AloneInv'
  <2>1. \A w \in Worker : Active(w)' = Active(w)
    BY CleanupType DEF Active, Ended
  <2>2. \A w \in Worker : stage'[w] \notin {"waiting", "failed"}
                            => stage[w] \notin {"waiting", "failed"}
    BY CleanupType DEF Ended
  <2>. QED
    BY <2>1, <2>2, AloneKept DEF ToCleanup
<1>6. FilesInv' /\ RowsInv'
  <2>1. RowsOf(d)' /\ FilesOf(d)'
    BY CleanupType DEF RowsOf, FilesOf, Loading, Indexing
  <2>. QED
    BY <2>1, CleanupType, Elsewhere DEF ToCleanup, Worker
<1>. QED
  BY <1>1, <1>2, <1>3, <1>4, <1>5, <1>6

\* The three ways into the cleanup.
LEMMA ClearFailKeeps ==
  ASSUME PipelineInv, NEW d \in Deploy, ClearFail(d)
  PROVE  PipelineInv'
BY CleanupKeeps DEF ClearFail, Stage, Ended

LEMMA IngestAbortKeeps ==
  ASSUME PipelineInv, NEW d \in Deploy, IngestAbort(d)
  PROVE  PipelineInv'
BY CleanupKeeps DEF IngestAbort, Stage, Ended

LEMMA EmbedFailKeeps ==
  ASSUME PipelineInv, NEW d \in Deploy, EmbedFail(d)
  PROVE  PipelineInv'
BY CleanupKeeps DEF EmbedFail, Stage, Ended

\* The pages of the version become those of d; the rows that it unlinks were
\* locked when it began, and no row has been linked since.
LEMMA CommitKeeps ==
  ASSUME PipelineInv, NEW d \in Deploy, NEW to \in {"reindex", "cleanup"},
         Commit(d, to)
  PROVE  PipelineInv'
<1>. USE PipelineAssumption DEF PipelineInv
<1>1. PICK W \in SUBSET Waiting :
        /\ stage' = [w \in Worker |-> IF w = d THEN to
                                      ELSE IF w \in W THEN Lose(w)
                                      ELSE stage[w]]
        /\ queue' = [w \in Worker |-> IF w \in W THEN {} ELSE queue[w]]
        /\ todo' = [e \in Deploy |-> IF e \in W \/ (e = d /\ to = "cleanup")
                                     THEN Assets[e] ELSE todo[e]]
  BY DEF Commit
<1>2. stage[d] = "commit" /\ d \in Worker /\ tx = d /\ Target[d] \in Version
  BY DEF Commit, TxInv, Worker
<1>3. \A w \in W : w \in Worker /\ stage[w] = "embed" /\ w # d
  BY <1>2 DEF Waiting, Upserts
<1>4. \A w \in Worker \ {d} : \/ w \in W /\ stage'[w] = Lose(w)
                              \/ w \notin W /\ stage'[w] = stage[w]
  BY <1>1, <1>3
<1>5. stage'[d] = to /\ stage' \in [Worker -> Stage]
  <2>1. to \in Stage /\ \A w \in Worker : Lose(w) \in Stage
    BY DEF Stage, Ended, Lose
  <2>. QED
    BY <1>1, <1>2, <2>1 DEF TypeOK
<1>6. holders' = {e \in Deploy : Active(e)'}
  <2>1. \A e \in Deploy : Active(e)' = Active(e)
    BY <1>2, <1>3, <1>4, <1>5 DEF Active, Ended, Lose, Worker
  <2>. QED
    BY <2>1, HoldersKept DEF Commit
<1>7. /\ rows' \in [Version -> [Doc -> Row \cup {None}]]
      /\ \A v \in Version \ {Target[d]} : rows'[v] = rows[v]
      /\ \A v \in Version, p \in Doc :
           rows'[v][p] # None => /\ rows[v][p] # None
                                 /\ rows'[v][p].text = rows[v][p].text
  <2>1. \A k \in locked : rows[k[1]][k[2]] # None
    BY <1>2 DEF LockedInv, Owned
  <2>2. \A row \in Row : /\ [row EXCEPT !.link = "orphan"] \in Row
                         /\ [row EXCEPT !.link = "orphan"].text = row.text
    BY DEF Row, Link
  <2>3. \A p \in Doc : rows[Target[d]][p] \in Row \cup {None}
    BY <1>2 DEF TypeOK
  <2>4. /\ Unlinked(Target[d]) \in [Doc -> Row \cup {None}]
        /\ \A p \in Doc : Unlinked(Target[d])[p] # None =>
             /\ rows[Target[d]][p] # None
             /\ Unlinked(Target[d])[p].text = rows[Target[d]][p].text
    BY <2>1, <2>2, <2>3 DEF Unlinked
  <2>5. rows' = [rows EXCEPT ![Target[d]] = Unlinked(Target[d])]
    BY DEF Commit
  <2>. QED
    BY <1>2, <2>4, <2>5 DEF TypeOK
<1>8. /\ pages' \in [Version -> Deploy \cup {None}]
      /\ pages'[Target[d]] = d
      /\ \A v \in Version \ {Target[d]} : pages'[v] = pages[v]
  BY <1>2 DEF Commit, TypeOK
<1>9. /\ release' \in [Deploy -> {"none", "published", "rolled_back"}]
      /\ release'[d] # "none"
      /\ \A e \in Deploy \ {d} : release'[e] = release[e]
  BY DEF Commit, TypeOK
<1>10. /\ queue' \in [Worker -> SUBSET Chunk] /\ todo' \in [Deploy -> SUBSET Asset]
       /\ \A w \in Worker : queue'[w] \subseteq queue[w]
  BY <1>1 DEF TypeOK
<1>11. TypeOK'
  BY <1>5, <1>6, <1>7, <1>8, <1>9, <1>10 DEF TypeOK, Commit
<1>12. TxInv' /\ LockedInv'
  BY <1>2, <1>4, <1>5 DEF TxInv, LockedInv, Commit, Worker, Lose
<1>13. PublishedInv'
  <2>1. \A v \in Version : pages'[v] # None =>
          Target[pages'[v]] = v /\ release'[pages'[v]] # "none"
    BY <1>8, <1>9 DEF TypeOK, PublishedInv
  <2>2. \A w \in Worker : \A c \in queue'[w] :
          c.ver \in Scope(w) /\ Published(c.text, c.ver, c.doc)'
    BY <1>9, <1>10 DEF TypeOK, Chunk, PublishedInv, Published
  <2>3. \A v \in Version, p \in Doc : rows'[v][p] # None =>
          /\ release'[rows'[v][p].text] # "none"
          /\ p \in Docs[rows'[v][p].text]
          /\ Target[rows'[v][p].text] = v
    BY <1>7, <1>9 DEF TypeOK, Row, PublishedInv, TextWasPublished
  <2>. QED
    BY <2>1, <2>2, <2>3 DEF PublishedInv, TextWasPublished, Published
<1>14. AloneInv'
  BY <1>2, <1>3, <1>4, <1>5, AloneKept DEF Commit, Active, Ended, Lose
<1>15. FilesInv' /\ RowsInv'
  <2>1. RowsOf(d)'
    BY <1>5 DEF RowsOf
  <2>2. alone[d] => FilesOf(d)'
    BY <1>2, <1>5, <1>8 DEF Commit, FilesInv, FilesOf, Loading, Indexing
  <2>3. \A w \in Worker \ {d} :
          \/ stage'[w] \in {"cleanup", "failed"}
          \/ /\ stage'[w] = stage[w] /\ queue'[w] = queue[w]
             /\ w \in Deploy => todo'[w] = todo[w]
    BY <1>1, <1>4 DEF Lose
  <2>4. \A v \in Version \ Scope(d) :
          objects'[v] = objects[v] /\ pages'[v] = pages[v] /\ rows'[v] = rows[v]
    BY <1>7, <1>8 DEF Commit, Scope
  <2>5. Active(d) /\ alone' = alone
    BY <1>2 DEF Active, Ended, Commit
  <2>. QED
    BY <1>2, <2>1, <2>2, <2>3, <2>4, <2>5, Elsewhere
<1>. QED
  BY <1>11, <1>12, <1>13, <1>14, <1>15

\* What is queued is what the pages say at this moment.
LEMMA SnapshotKeeps ==
  ASSUME PipelineInv, NEW w \in Worker, Snapshot(w)
  PROVE  PipelineInv'
<1>. USE PipelineAssumption DEF PipelineInv
<1>1. PICK chunks \in SUBSET Chunk :
        /\ Move(w, "snapshot", IF chunks = {} THEN "skip" ELSE "embed")
        /\ queue' = [queue EXCEPT ![w] = chunks]
        /\ chunks # {} => chunks = {c \in Chunk : /\ c.ver \in Scope(w)
                                                 /\ c.text = pages[c.ver]
                                                 /\ c.doc \in PagesOf(c.ver)}
  BY DEF Snapshot
<1>2. /\ stage' \in [Worker -> Stage]
      /\ stage[w] = "snapshot"
      /\ stage'[w] = IF chunks = {} THEN "skip" ELSE "embed"
      /\ \A u \in Worker \ {w} : stage'[u] = stage[u]
  BY <1>1, MoveType DEF Stage, Ended
<1>3. /\ queue' \in [Worker -> SUBSET Chunk] /\ queue'[w] = chunks
      /\ \A u \in Worker \ {w} : queue'[u] = queue[u]
  BY <1>1 DEF TypeOK
<1>4. holders' = {e \in Deploy : Active(e)'}
  BY <1>2, HoldersKept DEF Snapshot, Active, Ended, Worker
<1>5. TypeOK'
  BY <1>2, <1>3, <1>4 DEF TypeOK, stores, Snapshot
<1>6. TxInv'
  BY <1>2, TxKept DEF Snapshot, stores, Worker
<1>7. LockedInv'
  BY DEF LockedInv, stores, Snapshot
<1>8. PublishedInv'
  <2>1. ASSUME NEW c \in chunks
        PROVE  c.ver \in Scope(w) /\ Published(c.text, c.ver, c.doc)
    <3>1. c.ver \in Version /\ c.text \in Deploy /\ c.ver \in Scope(w)
          /\ c.text = pages[c.ver] /\ c.doc \in PagesOf(c.ver)
      BY <1>1, <2>1 DEF Chunk
    <3>. QED
      BY <3>1 DEF PublishedInv, Published, PagesOf
  <2>2. \A u \in Worker : \A c \in queue'[u] :
          c.ver \in Scope(u) /\ Published(c.text, c.ver, c.doc)
    BY <1>3, <2>1 DEF PublishedInv
  <2>. QED
    BY <2>2 DEF PublishedInv, TextWasPublished, Published, Snapshot, stores
<1>9. AloneInv'
  BY <1>2, AloneKept DEF Snapshot, Active, Ended, stores
<1>10. FilesInv' /\ RowsInv'
  <2>1. alone[w] => RowsOf(w)'
    <3>. SUFFICES ASSUME alone[w], chunks # {}, NEW v \in Scope(w)
                  PROVE  Partial(v, chunks)'
      BY <1>2, <1>3 DEF RowsInv, RowsOf, Snapshot, stores
    <3>1. rows[v] = NoRows /\ v \in Version
      BY <1>2 DEF RowsInv, RowsOf, Scope, Worker
    <3>2. \A p \in PagesOf(v) : /\ p \in Doc
                                /\ [ver |-> v, doc |-> p, text |-> pages[v]] \in chunks
      BY <1>1, <3>1 DEF Chunk, PagesOf, TypeOK
    <3>3. \A c \in chunks : c.ver = v => c.text = pages[v] /\ c.doc \in PagesOf(v)
      BY <1>1
    <3>4. Partial(v, chunks)
      BY <3>1, <3>2, <3>3 DEF Partial, NoRows
    <3>. QED
      BY <3>4 DEF Partial, PagesOf, Snapshot, stores
  <2>2. w \in Deploy /\ alone[w] => FilesOf(w)'
    BY <1>2 DEF FilesInv, FilesOf, Loading, Indexing, Snapshot, stores
  <2>3. Active(w)
    BY <1>2 DEF Active, Ended
  <2>. QED
    BY <1>2, <1>3, <2>1, <2>2, <2>3, Elsewhere DEF Snapshot, stores
<1>. QED
  BY <1>1, <1>2, <1>3, <1>4, <1>5, <1>6, <1>7, <1>8, <1>9, <1>10

\* A row is written for a chunk that was queued.  Whether its page is still
\* there is looked up now; a worker that is alone finds it there.
LEMMA EmbedKeeps ==
  ASSUME PipelineInv, NEW w \in Worker, NEW c \in queue[w], Embed(w, c)
  PROVE  PipelineInv'
<1>. USE PipelineAssumption DEF PipelineInv
<1>1. /\ stage[w] = "embed" /\ Active(w)
      /\ c.ver \in Version /\ c.doc \in Doc /\ c.text \in Deploy
      /\ <<c.ver, c.doc>> \notin locked
      /\ c.ver \in Scope(w) /\ Published(c.text, c.ver, c.doc)
  BY DEF Embed, TypeOK, Chunk, PublishedInv, Active, Ended
<1>2. PICK row \in Row :
        /\ row.text = c.text
        /\ c.doc \in PagesOf(c.ver) => row.link = pages[c.ver]
        /\ c.doc \notin PagesOf(c.ver) /\ rows[c.ver][c.doc] = None => row.link = "loose"
        /\ c.doc \notin PagesOf(c.ver) /\ rows[c.ver][c.doc] # None
             => row.link = rows[c.ver][c.doc].link
        /\ rows' = [rows EXCEPT ![c.ver][c.doc] = row]
  <2>1. rows[c.ver][c.doc] \in Row \cup {None} /\ pages[c.ver] \in Deploy \cup {None}
    BY <1>1 DEF TypeOK
  <2>2. c.doc \in PagesOf(c.ver) => pages[c.ver] \in Deploy
    BY <2>1 DEF PagesOf
  <2>3. \A l \in Link : [text |-> c.text, link |-> l] \in Row
    BY <1>1 DEF Row
  <2>4. \A r \in Row : r.link \in Link
    BY DEF Row
  <2>5. CASE c.doc \in PagesOf(c.ver)
    BY <2>2, <2>3, <2>5 DEF Embed, Link
  <2>6. CASE c.doc \notin PagesOf(c.ver) /\ rows[c.ver][c.doc] = None
    <3>1. rows' = [rows EXCEPT ![c.ver][c.doc] =
                                 [text |-> c.text, link |-> "loose"]]
      BY <2>6 DEF Embed
    <3>. QED
      BY <2>3, <2>6, <3>1 DEF Link
  <2>7. CASE c.doc \notin PagesOf(c.ver) /\ rows[c.ver][c.doc] # None
    BY <2>1, <2>3, <2>4, <2>7 DEF Embed
  <2>. QED
    BY <2>5, <2>6, <2>7
<1>3. /\ rows' \in [Version -> [Doc -> Row \cup {None}]]
      /\ rows'[c.ver][c.doc] = row
      /\ \A p \in Doc \ {c.doc} : rows'[c.ver][p] = rows[c.ver][p]
      /\ \A v \in Version \ {c.ver} : rows'[v] = rows[v]
  BY <1>1, <1>2 DEF TypeOK
<1>4. /\ queue' \in [Worker -> SUBSET Chunk] /\ queue'[w] = queue[w] \ {c}
      /\ \A u \in Worker \ {w} : queue'[u] = queue[u]
  BY DEF Embed, TypeOK
<1>5. row.text \in Deploy
  BY <1>1, <1>2
<1>6. TypeOK'
  BY <1>3, <1>4 DEF Embed, TypeOK, Active
<1>7. TxInv'
  BY TxKept DEF Embed
<1>8. LockedInv'
  <2>. SUFFICES ASSUME tx # None, Target[tx] = c.ver
                PROVE  Owned(row) = Owned(rows[c.ver][c.doc])
    BY <1>1, <1>3 DEF LockedInv, Embed, TypeOK
  <2>1. ~Owned(rows[c.ver][c.doc])
    BY <1>1 DEF LockedInv
  <2>2. c.doc \notin PagesOf(c.ver)
    BY <2>1 DEF Embed
  <2>. QED
    BY <1>2, <2>1, <2>2 DEF Owned
<1>9. PublishedInv'
  <2>1. \A v \in Version, p \in Doc : rows'[v][p] # None =>
          /\ release[rows'[v][p].text] # "none"
          /\ p \in Docs[rows'[v][p].text]
          /\ Target[rows'[v][p].text] = v
    BY <1>1, <1>2, <1>3 DEF PublishedInv, TextWasPublished, Published
  <2>2. \A u \in Worker : queue'[u] \subseteq queue[u]
    BY <1>4
  <2>. QED
    BY <2>1, <2>2 DEF PublishedInv, TextWasPublished, Published, Embed
<1>10. AloneInv'
  BY AloneKept DEF Embed, Active
<1>11. FilesInv' /\ RowsInv'
  <2>1. ASSUME alone[w], NEW v \in Scope(w) PROVE Partial(v, queue[w])'
    <3>1. Partial(v, queue[w]) /\ pages' = pages /\ PagesOf(v)' = PagesOf(v) /\ v \in Version
      BY <1>1, <2>1 DEF RowsInv, RowsOf, Embed, Scope, Worker, PagesOf
    <3>2. CASE v # c.ver
      <4>1. \A p \in Doc : [ver |-> v, doc |-> p, text |-> pages[v]] # c
        BY <3>2
      <4>2. Partial(v, queue'[w])
        BY <1>4, <3>1, <4>1 DEF Partial
      <4>3. rows'[v] = rows[v]
        BY <1>3, <3>1, <3>2
      <4>. QED
        BY <3>1, <4>2, <4>3 DEF Partial
    <3>3. CASE v = c.ver
      <4>1. c.text = pages[v] /\ c.doc \in PagesOf(v)
        BY <3>1, <3>3 DEF Partial
      <4>2. row = [text |-> pages[v], link |-> pages[v]]
        BY <1>2, <3>3, <4>1 DEF Row
      <4>3. c = [ver |-> v, doc |-> c.doc, text |-> pages[v]]
        BY <3>3, <4>1 DEF TypeOK, Chunk
      <4>4. \A p \in Doc \ {c.doc} : [ver |-> v, doc |-> p, text |-> pages[v]] # c
        BY <4>3
      <4>. QED
        <5>1. \A p \in Doc : rows'[v][p] =
                IF p \in PagesOf(v)
                   /\ [ver |-> v, doc |-> p, text |-> pages[v]] \notin queue'[w]
                THEN [text |-> pages[v], link |-> pages[v]]
                ELSE None
          BY <1>3, <1>4, <3>1, <3>3, <4>1, <4>2, <4>3, <4>4 DEF Partial
        <5>2. \A q \in queue'[w] : q.ver = v => q.text = pages[v] /\ q.doc \in PagesOf(v)
          BY <1>4, <3>1 DEF Partial
        <5>. QED
          BY <3>1, <5>1, <5>2 DEF Partial
    <3>. QED
      BY <3>2, <3>3
  <2>2. alone[w] => RowsOf(w)'
    <3>1. stage' = stage /\ stage[w] = "embed"
      BY <1>1 DEF Embed
    <3>. QED
      BY <2>1, <3>1 DEF RowsOf
  <2>3. w \in Deploy /\ alone[w] => FilesOf(w)'
    BY <1>1 DEF FilesInv, FilesOf, Loading, Indexing, Embed
  <2>4. \A v \in Version \ Scope(w) : rows'[v] = rows[v]
    BY <1>1, <1>3
  <2>. QED
    BY <1>1, <1>4, <2>2, <2>3, <2>4, Elsewhere DEF Embed
<1>. QED
  BY <1>6, <1>7, <1>8, <1>9, <1>10, <1>11

\* Nothing is left in the queue, so all rows are there.
LEMMA AcceptKeeps ==
  ASSUME PipelineInv, NEW d \in Deploy, Accept(d)
  PROVE  PipelineInv'
<1>. USE PipelineAssumption DEF PipelineInv
<1>1. /\ \/ stage[d] = "embed" /\ stage'[d] = "accepted"
         \/ stage[d] = "skip" /\ stage'[d] = "unindexed"
      /\ stage' \in [Worker -> Stage]
      /\ \A u \in Worker \ {d} : stage'[u] = stage[u]
  BY HoldersRelease DEF Accept, Stage, Ended
<1>2. holders' = {e \in Deploy : Active(e)'}
  BY HoldersRelease DEF Accept, Stage, Ended
<1>3. TypeOK'
  BY <1>1, <1>2 DEF TypeOK, stores, Accept
<1>4. TxInv'
  BY <1>1, TxKept DEF Accept, stores, Worker
<1>5. LockedInv'
  BY DEF LockedInv, stores, Accept
<1>6. PublishedInv'
  BY PublishedKept DEF Accept, stores
<1>7. AloneInv'
  BY <1>1, AloneKept DEF Accept, Active, Ended, stores
<1>8. FilesInv' /\ RowsInv'
  <2>1. alone[d] => RowsOf(d)'
    <3>1. queue[d] = {} /\ pages' = pages /\ rows' = rows
      BY DEF Accept, stores
    <3>2. ASSUME NEW v, Partial(v, {}) PROVE Embedded(v)'
      BY <3>1, <3>2 DEF Partial, Embedded, PagesOf
    <3>3. alone[d] /\ stage[d] = "embed" => \A v \in Scope(d) : Partial(v, {})
      BY <3>1 DEF RowsInv, RowsOf, Partial, Worker
    <3>4. alone[d] /\ stage[d] = "skip" => \A v \in Scope(d) : rows[v] = NoRows
      BY DEF RowsInv, RowsOf, Worker
    <3>. QED
      BY <1>1, <3>1, <3>2, <3>3, <3>4 DEF RowsOf
  <2>2. alone[d] => FilesOf(d)'
    BY <1>1 DEF FilesInv, FilesOf, Loading, Indexing, Accept, stores
  <2>. QED
    BY <1>1, <2>1, <2>2, Elsewhere DEF Accept, Active, Ended, stores, Worker
<1>. QED
  BY <1>1, <1>2, <1>3, <1>4, <1>5, <1>6, <1>7, <1>8

\* The cleanup removes files by name, of a deploy that has failed.
LEMMA RemoveKeeps ==
  ASSUME PipelineInv, NEW d \in Deploy, NEW n \in Asset, Remove(d,n)
  PROVE  PipelineInv'
<1>. USE PipelineAssumption DEF PipelineInv
<1>1. /\ objects' \in [Version -> [Asset -> Deploy \cup {None}]]
      /\ \A v \in Version \ {Target[d]} : objects'[v] = objects[v]
  <2>1. CASE objects' = [objects EXCEPT ![Target[d]][n] = None]
    BY <2>1 DEF TypeOK
  <2>2. CASE objects' = objects
    BY <2>2 DEF TypeOK
  <2>. QED
    BY <2>1, <2>2 DEF Remove
<1>2. /\ todo' \in [Deploy -> SUBSET Asset]
      /\ \A e \in Deploy \ {d} : todo'[e] = todo[e]
  BY DEF Remove, TypeOK
<1>3. TypeOK'
  BY <1>1, <1>2 DEF TypeOK, Active, Remove
<1>4. TxInv'
  BY TxKept DEF Remove, stores
<1>5. LockedInv'
  BY DEF LockedInv, stores, Remove
<1>6. PublishedInv'
  BY PublishedKept DEF Remove, stores
<1>7. AloneInv'
  BY AloneKept DEF Remove, Active, stores
<1>8. FilesInv' /\ RowsInv'
  <2>1. RowsOf(d)' /\ FilesOf(d)'
    BY DEF Remove, RowsOf, FilesOf, Loading, Indexing
  <2>2. Active(d)
    BY DEF Remove, Active, Ended
  <2>. QED
    BY <1>1, <1>2, <2>1, <2>2, Elsewhere DEF Remove, Worker, Scope
<1>. QED
  BY <1>1, <1>2, <1>3, <1>4, <1>5, <1>6, <1>7, <1>8

\* The cleanup is over.
LEMMA FailKeeps ==
  ASSUME PipelineInv, NEW d \in Deploy, Fail(d)
  PROVE  PipelineInv'
<1>. USE PipelineAssumption DEF PipelineInv
<1>1. /\ stage' \in [Worker -> Stage]
      /\ stage[d] = "cleanup" /\ stage'[d] = "failed"
      /\ \A u \in Worker \ {d} : stage'[u] = stage[u]
  BY HoldersRelease DEF Fail, Stage, Ended
<1>2. holders' = {e \in Deploy : Active(e)'}
  BY HoldersRelease DEF Fail, Stage, Ended
<1>3. TypeOK'
  BY <1>1, <1>2 DEF TypeOK, stores, Fail
<1>4. TxInv'
  BY <1>1, TxKept DEF Fail, stores, Worker
<1>5. LockedInv'
  BY DEF LockedInv, stores, Fail
<1>6. PublishedInv'
  BY PublishedKept DEF Fail, stores
<1>7. AloneInv'
  BY <1>1, AloneKept DEF Fail, Active, Ended, stores
<1>8. FilesInv' /\ RowsInv'
  BY <1>1, Elsewhere DEF Fail, Active, Ended, stores, Worker, RowsOf, FilesOf,
     Loading, Indexing
<1>. QED
  BY <1>1, <1>2, <1>3, <1>4, <1>5, <1>6, <1>7, <1>8

\* A reindex begins.  Every deploy it could meet is no longer alone.
LEMMA AdminClearKeeps ==
  ASSUME PipelineInv, AdminClear
  PROVE  PipelineInv'
<1>. USE PipelineAssumption DEF PipelineInv
<1>1. /\ stage' \in [Worker -> Stage] /\ stage'[Admin] = "snapshot" /\ ~Active(Admin)
      /\ \A d \in Deploy : stage'[d] = stage[d]
  BY DEF AdminClear, TypeOK, Stage, Worker
<1>2. /\ alone' \in [Worker -> BOOLEAN]
      /\ alone'[Admin] => \A d \in Deploy : ~Active(d)
      /\ \A d \in Deploy : ~alone'[d]
  <2>1. Rivals(Admin) = Deploy
    BY DEF Rivals, Scope, Worker
  <2>. QED
    BY <2>1 DEF AdminClear, Begins, Worker, TypeOK
<1>3. /\ rows' = [v \in Version |-> NoRows]
      /\ rows' \in [Version -> [Doc -> Row \cup {None}]]
  BY DEF AdminClear, NoRows
<1>4. holders' = {e \in Deploy : Active(e)'}
  BY <1>1, HoldersKept DEF AdminClear, Active
<1>5. TypeOK'
  <2>1. reindexes' \in 0 .. Reindexes
    BY DEF AdminClear, TypeOK
  <2>. QED
    BY <1>1, <1>2, <1>3, <1>4, <2>1 DEF TypeOK, AdminClear
<1>6. TxInv'
  BY <1>1, TxKept DEF AdminClear
<1>7. LockedInv'
  <2>1. \A k \in Version \X Doc : ~Owned(rows'[k[1]][k[2]])
    BY <1>3 DEF NoRows, Owned
  <2>2. tx # None => Target[tx] \in Version
    BY DEF TypeOK
  <2>. QED
    BY <2>1, <2>2 DEF LockedInv, AdminClear
<1>8. PublishedInv'
  BY <1>3, PublishedKept DEF AdminClear, NoRows
<1>9. AloneInv'
  BY <1>1, <1>2 DEF AloneInv, Active, Rivals, Worker
<1>10. FilesInv' /\ RowsInv'
  <2>1. RowsOf(Admin)'
    BY <1>1, <1>3 DEF RowsOf, Scope
  <2>. QED
    BY <1>2, <2>1 DEF FilesInv, RowsInv, Worker
<1>. QED
  BY <1>1, <1>2, <1>3, <1>4, <1>5, <1>6, <1>7, <1>8, <1>9, <1>10

\* A reindex ends with the rows it has written.
LEMMA AdminDoneKeeps ==
  ASSUME PipelineInv, AdminDone
  PROVE  PipelineInv'
<1>. USE PipelineAssumption DEF PipelineInv
<1>1. /\ \/ stage[Admin] = "embed" /\ stage'[Admin] = "accepted"
         \/ stage[Admin] = "skip" /\ stage'[Admin] = "unindexed"
      /\ stage' \in [Worker -> Stage]
      /\ \A d \in Worker \ {Admin} : stage'[d] = stage[d]
  BY MoveType DEF AdminDone, Stage, Ended, Worker
<1>2. holders' = {e \in Deploy : Active(e)'}
  BY <1>1, HoldersKept DEF AdminDone, Active, Ended, Worker
<1>3. TypeOK'
  BY <1>1, <1>2 DEF TypeOK, stores, AdminDone
<1>4. TxInv'
  BY <1>1, TxKept DEF AdminDone, stores, Worker
<1>5. LockedInv'
  BY DEF LockedInv, stores, AdminDone
<1>6. PublishedInv'
  BY PublishedKept DEF AdminDone, stores
<1>7. AloneInv'
  BY <1>1, AloneKept DEF AdminDone, Active, Ended, stores
<1>8. FilesInv' /\ RowsInv'
  <2>1. alone[Admin] => RowsOf(Admin)'
    <3>1. queue[Admin] = {} /\ pages' = pages /\ rows' = rows
      BY DEF AdminDone, stores
    <3>2. ASSUME NEW v, Partial(v, {}) PROVE Embedded(v)'
      BY <3>1, <3>2 DEF Partial, Embedded, PagesOf
    <3>3. alone[Admin] /\ stage[Admin] = "embed" => \A v \in Scope(Admin) : Partial(v, {})
      BY <3>1 DEF RowsInv, RowsOf, Partial, Worker
    <3>4. alone[Admin] /\ stage[Admin] = "skip" => \A v \in Scope(Admin) : rows[v] = NoRows
      BY DEF RowsInv, RowsOf, Worker
    <3>. QED
      BY <1>1, <3>1, <3>2, <3>3, <3>4 DEF RowsOf
  <2>. QED
    BY <1>1, <2>1, Elsewhere DEF AdminDone, Active, Ended, stores, Worker
<1>. QED
  BY <1>1, <1>2, <1>3, <1>4, <1>5, <1>6, <1>7, <1>8

\* A reindex ends half-way.
LEMMA AdminFailKeeps ==
  ASSUME PipelineInv, AdminFail
  PROVE  PipelineInv'
<1>. USE PipelineAssumption DEF PipelineInv
<1>1. /\ stage' \in [Worker -> Stage]
      /\ stage[Admin] = "embed" /\ stage'[Admin] = "failed"
      /\ \A u \in Worker \ {Admin} : stage'[u] = stage[u]
  BY MoveType DEF AdminFail, Stage, Ended, Worker
<1>2. holders' = {e \in Deploy : Active(e)'}
  BY <1>1, HoldersKept DEF AdminFail, Active, Ended, Worker
<1>3. TypeOK'
  <2>1. queue' \in [Worker -> SUBSET Chunk]
    BY DEF AdminFail, TypeOK
  <2>. QED
    BY <1>1, <1>2, <2>1 DEF TypeOK, stores, AdminFail
<1>4. TxInv'
  BY <1>1, TxKept DEF AdminFail, stores, Worker
<1>5. LockedInv'
  BY DEF LockedInv, stores, AdminFail
<1>6. PublishedInv'
  BY PublishedKept DEF AdminFail, stores
<1>7. AloneInv'
  BY <1>1, AloneKept DEF AdminFail, Active, Ended, stores
<1>8. FilesInv' /\ RowsInv'
  <2>1. RowsOf(Admin)'
    BY <1>1 DEF RowsOf
  <2>. QED
    BY <1>1, <2>1, Elsewhere DEF AdminFail, Active, Ended, stores, Worker
<1>. QED
  BY <1>1, <1>2, <1>3, <1>4, <1>5, <1>6, <1>7, <1>8

\* A release that was rolled back has still been published.
LEMMA RollbackKeeps ==
  ASSUME PipelineInv, NEW d \in Deploy, Rollback(d)
  PROVE  PipelineInv'
<1>. USE PipelineAssumption DEF PipelineInv
<1>1. TypeOK'
  BY DEF TypeOK, Active, Rollback
<1>2. TxInv'
  BY TxKept DEF Rollback, stores
<1>3. LockedInv'
  BY DEF LockedInv, stores, Rollback
<1>4. PublishedInv'
  BY PublishedKept DEF Rollback, stores
<1>5. AloneInv'
  BY AloneKept DEF Rollback, Active, stores
<1>6. FilesInv' /\ RowsInv'
  <2>1. \A w \in Worker : alone'[w] => RowsOf(w)' /\ (w \in Deploy => FilesOf(w)')
    BY Unaffected DEF Rollback, stores
  <2>. QED
    BY <2>1 DEF FilesInv, RowsInv, Worker
<1>. QED
  BY <1>1, <1>2, <1>3, <1>4, <1>5, <1>6

\* The deploys of a process that dies have failed, their transaction with them.
LEMMA CrashKeeps ==
  ASSUME PipelineInv, NEW S \in SUBSET Deploy, Crash(S)
  PROVE  PipelineInv'
<1>. USE PipelineAssumption DEF PipelineInv
<1>1. /\ \A w \in Worker : stage'[w] = IF w \in S THEN "failed" ELSE stage[w]
      /\ \A w \in S : Active(w) /\ w \in Deploy
  BY DEF Crash, TypeOK, Worker
<1>2. holders' = {e \in Deploy : Active(e)'}
  <2>1. \A e \in Deploy : Active(e)' <=> Active(e) /\ e \notin S
    BY <1>1 DEF Active, Ended, Worker
  <2>. QED
    BY <2>1 DEF Crash, Slots!Release, TypeOK
<1>3. TypeOK'
  <2>1. stage' \in [Worker -> Stage]
    BY DEF Crash, TypeOK, Stage, Ended
  <2>2. queue' \in [Worker -> SUBSET Chunk] /\ todo' \in [Deploy -> SUBSET Asset]
    BY DEF Crash, TypeOK
  <2>. QED
    BY <1>2, <2>1, <2>2 DEF TypeOK, Crash
<1>4. TxInv'
  BY <1>1 DEF TxInv, Crash, Worker
<1>5. LockedInv'
  BY DEF LockedInv, Crash
<1>6. PublishedInv'
  <2>1. \A w \in Worker : queue'[w] \subseteq queue[w]
    BY DEF Crash
  <2>. QED
    BY <2>1, PublishedKept DEF Crash
<1>7. AloneInv'
  BY <1>1, AloneKept DEF Crash, Active, Ended
<1>8. FilesInv' /\ RowsInv'
  <2>1. ASSUME NEW w \in Worker
        PROVE  alone'[w] => RowsOf(w)' /\ (w \in Deploy => FilesOf(w)')
    <3>1. CASE w \in S
      BY <1>1, <3>1, Unaffected DEF Crash
    <3>2. CASE w \notin S
      BY <1>1, <3>2, Unaffected DEF Crash
    <3>. QED
      BY <3>1, <3>2
  <2>. QED
    BY <2>1 DEF FilesInv, RowsInv, Worker
<1>. QED
  BY <1>1, <1>2, <1>3, <1>4, <1>5, <1>6, <1>7, <1>8

\* Every step keeps the invariant.
LEMMA StepKeeps == PipelineInv /\ [Next]_vars => PipelineInv'
<1>. SUFFICES ASSUME PipelineInv, [Next]_vars PROVE PipelineInv'
  OBVIOUS
<1>1. ASSUME NEW d \in Deploy, Step(d) PROVE PipelineInv'
  <2>1. CASE Reject(d) \/ Authenticate(d)
    BY <2>1, RejectKeeps, AuthenticateKeeps
  <2>2. CASE \E n \in Asset : Upload(d, n) \/ UploadFail(d, n) \/ Remove(d, n)
    BY <2>2, UploadKeeps, UploadFailKeeps, RemoveKeeps
  <2>3. CASE ClearEmbeddings(d) \/ ClearFail(d)
    BY <2>3, ClearEmbeddingsKeeps, ClearFailKeeps
  <2>4. CASE IngestBegin(d) \/ IngestCommit(d) \/ IngestReplyLost(d)
    BY <2>4, IngestBeginKeeps, CommitKeeps DEF IngestCommit, IngestReplyLost
  <2>5. CASE IngestAbort(d) \/ Reclear(d)
    BY <2>5, IngestAbortKeeps, ReclearKeeps
  <2>6. CASE EmbedFail(d) \/ Accept(d) \/ Fail(d)
    BY <2>6, EmbedFailKeeps, AcceptKeeps, FailKeeps
  <2>. QED
    BY <1>1, <2>1, <2>2, <2>3, <2>4, <2>5, <2>6 DEF Step
<1>2. ASSUME NEW w \in Worker, EmbedStep(w) PROVE PipelineInv'
  BY <1>2, SnapshotKeeps, EmbedKeeps DEF EmbedStep
<1>3. CASE UNCHANGED vars
  BY <1>3 DEF vars, stores, PipelineInv, TypeOK, Active, TxInv, LockedInv,
     PublishedInv, Published, TextWasPublished, AloneInv, FilesInv, FilesOf,
     RowsInv, RowsOf, Partial, Embedded, PagesOf
<1>. QED
  BY <1>1, <1>2, <1>3, StartKeeps, ShedKeeps, RollbackKeeps, AdminClearKeeps,
     AdminDoneKeeps, AdminFailKeeps, CrashKeeps DEF Next

\* Nothing is stored, nobody is at work.
LEMMA InitHolds == Init => PipelineInv
<1>. SUFFICES ASSUME Init PROVE PipelineInv
  OBVIOUS
<1>. USE PipelineAssumption DEF Init
<1>1. TypeOK
  BY DEF TypeOK, Stage, Active, Worker, NoRows, Slots!Init
<1>2. TxInv /\ LockedInv
  BY DEF TxInv, LockedInv, Worker
<1>3. PublishedInv
  BY DEF PublishedInv, TextWasPublished, NoRows
<1>4. AloneInv /\ FilesInv /\ RowsInv
  BY DEF AloneInv, FilesInv, FilesOf, RowsInv, RowsOf, Loading, Indexing,
     Worker
<1>. QED
  BY <1>1, <1>2, <1>3, <1>4 DEF PipelineInv

\* The invariant that the following theorems rest on.
THEOREM PipelineInvariant == Spec => []PipelineInv
BY InitHolds, StepKeeps, PTL DEF Spec

\* Every variable keeps its type, and the slots that are taken are those of
\* the deploys at work (deployLimiter.acquire, release).
THEOREM PipelineTypeCorrect == Spec => []TypeOK
BY PipelineInvariant, PTL DEF PipelineInv

\* Embeddings contain text of pages that were published in their version, even
\* when a reindex writes what it read before an ingest (Reindex, UpsertChunk).
THEOREM OnlyPublishedTextIsEmbedded == Spec => []TextWasPublished
<1>1. PipelineInv => TextWasPublished
  BY DEF PipelineInv, PublishedInv
<1>. QED
  BY <1>1, PipelineInvariant, PTL

\* The ingest has unlinked every embedding of the pages it deletes, or it
\* would fail on their foreign key: no upsert slips a link in between
\* (IngestArtifact, UpsertChunk).
THEOREM IngestReplacesPages == Spec => []PagesReplaceable
<1>1. PipelineInv => PagesReplaceable
  <2>. SUFFICES ASSUME PipelineInv, tx # None, NEW p \in Doc,
                       rows[Target[tx]][p] # None,
                       rows[Target[tx]][p].link \in Deploy
                PROVE  <<Target[tx], p>> \in locked
    BY DEF PagesReplaceable, Referenced
  <2>1. Owned(rows[Target[tx]][p])
    BY PipelineAssumption DEF Owned
  <2>. QED
    BY <2>1 DEF PipelineInv, LockedInv
<1>. QED
  BY <1>1, PipelineInvariant, PTL

\* A reindex beside which nobody deployed leaves an embedding for each
\* published page, and no other, whatever had failed before (Reindex).
THEOREM ReindexRepairsAll == Spec => []ReindexRepairs
<1>1. PipelineInv => ReindexRepairs
  BY DEF PipelineInv, RowsInv, RowsOf, Worker, Scope, ReindexRepairs
<1>. QED
  BY <1>1, PipelineInvariant, PTL

\* Whoever starts makes its rivals not alone.
LEMMA BeginsStep ==
  ASSUME PipelineInv, [Next]_vars
  PROVE  \/ alone' = alone
         \/ \E d \in Deploy : Start(d)
         \/ AdminClear
BY DEF Next, vars, Step, EmbedStep, Shed, Rollback, Reject, Authenticate,
   Upload,
   UploadFail, Remove, ClearEmbeddings, Clear, Reclear, ClearFail, ToCleanup,
   IngestBegin, IngestCommit, IngestReplyLost, Commit, IngestAbort, EmbedFail,
   Accept, Fail, Snapshot, Embed, AdminDone, AdminFail, Crash

\* A deploy that answers 202 and had its version to itself leaves files, pages
\* and embeddings that agree (handleDeploy).
THEOREM DeployIsComplete == Spec => AcceptedIsComplete
<1>1. ASSUME PipelineInv, [Next]_vars, NEW d \in Deploy, Active(d),
             stage'[d] \in {"accepted", "unindexed"}, alone[d]
      PROVE  Complete(d)'
  <2>1. PipelineInv'
    BY <1>1, StepKeeps
  <2>2. alone'[d]
    <3>1. ~AdminClear
      BY <1>1, PipelineAssumption
         DEF AdminClear, PipelineInv, TypeOK, Active, Ended, Worker
    <3>2. ASSUME NEW e \in Deploy, Start(e) PROVE FALSE
      BY <1>1, <3>2 DEF Start, Move, PipelineInv, TypeOK, Active, Ended, Worker
    <3>. QED
      BY <1>1, <3>1, <3>2, BeginsStep
  <2>3. FilesOf(d)' /\ RowsOf(d)'
    BY <2>1, <2>2 DEF PipelineInv, FilesInv, RowsInv, Worker
  <2>4. Target[d] \in Scope(d)
    BY PipelineAssumption DEF Scope
  <2>. QED
    BY <1>1, <2>3, <2>4 DEF Complete, FilesOf, RowsOf, Loading, Indexing
<1>2. PipelineInv /\ [Next]_vars =>
        [\A d \in Deploy :
           Active(d) /\ stage'[d] \in {"accepted", "unindexed"} /\ alone[d]
           => Complete(d)']_vars
  BY <1>1
<1>. QED
  BY <1>2, PipelineInvariant, PTL DEF Spec, AcceptedIsComplete
-----------------------------------------------------------------------------
(***************************************************************************)
(* What the steps do not touch.                                            *)
(***************************************************************************)

\* v is left as it is.
Same(v) == objects'[v] = objects[v] /\ pages'[v] = pages[v] /\ rows'[v] = rows[v]

\* The versions that a step changes are those of a worker that is active.
LEMMA Footprint ==
  ASSUME PipelineInv, [Next]_vars, NEW v \in Version, ~Same(v)
  PROVE  \E x \in Worker : v \in Scope(x) /\ (Active(x) \/ Active(x)')
<1>. USE PipelineAssumption DEF PipelineInv
<1>1. ASSUME NEW d \in Deploy, Active(d), v = Target[d]
      PROVE  \E x \in Worker : v \in Scope(x) /\ (Active(x) \/ Active(x)')
  BY <1>1 DEF Scope, Worker
<1>2. ASSUME NEW d \in Deploy, Step(d)
      PROVE  Active(d) /\ v = Target[d]
  <2>1. CASE Reject(d) \/ Authenticate(d) \/ Accept(d) \/ Fail(d)
    BY <2>1 DEF Reject, Authenticate, Accept, Fail, stores, Same
  <2>2. ASSUME NEW n \in Asset,
               Upload(d, n) \/ UploadFail(d, n) \/ Remove(d, n)
        PROVE  Active(d) /\ v = Target[d]
    <3>1. Active(d)
      BY <2>2 DEF Upload, UploadFail, Remove, Respond, Move, Active, Ended
    <3>2. v # Target[d] => Same(v)
      BY <2>2 DEF Upload, UploadFail, Remove, PutObject, Same, TypeOK
    <3>. QED
      BY <3>1, <3>2
  <2>3. CASE ClearEmbeddings(d) \/ Reclear(d)
    BY <2>3
       DEF ClearEmbeddings, Reclear, Clear, Move, Active, Ended, Same, TypeOK
  <2>4. CASE ClearFail(d) \/ IngestAbort(d) \/ EmbedFail(d)
    BY <2>4 DEF ClearFail, IngestAbort, EmbedFail, ToCleanup, Same
  <2>5. CASE IngestBegin(d)
    BY <2>5 DEF IngestBegin, Same
  <2>6. ASSUME NEW to, Commit(d, to) PROVE Active(d) /\ v = Target[d]
    BY <2>6 DEF Commit, Same, TypeOK, TxInv, Active, Ended
  <2>. QED
    BY <1>2, <2>1, <2>2, <2>3, <2>4, <2>5, <2>6
       DEF Step, IngestCommit, IngestReplyLost
<1>3. ASSUME NEW w \in Worker, NEW c \in queue[w], Embed(w, c)
      PROVE  Active(w) /\ v \in Scope(w)
  <2>1. c.ver \in Scope(w) /\ c \in Chunk
    BY DEF PublishedInv, TypeOK
  <2>2. v # c.ver => Same(v)
    BY <1>3, <2>1 DEF Embed, Same, TypeOK, Chunk
  <2>3. stage[w] = "embed"
    BY <1>3 DEF Embed
  <2>. QED
    BY <2>1, <2>2, <2>3 DEF Active, Ended
<1>4. CASE AdminClear
  BY <1>4 DEF AdminClear, TypeOK, Active, Ended, Scope, Worker
<1>5. Same(v) \/ AdminClear \/ (\E d \in Deploy : Step(d))
        \/ (\E w \in Worker : \E c \in queue[w] : Embed(w, c))
  BY DEF Next, vars, stores, EmbedStep, Start, Shed, Rollback, Snapshot,
     AdminDone,
     AdminFail, Crash, Same
<1>. QED
  BY <1>1, <1>2, <1>3, <1>4, <1>5 DEF Worker

\* A deploy that was answered stays so.
LEMMA EndedStays ==
  ASSUME PipelineInv, [Next]_vars, NEW d \in Deploy, stage[d] \in Ended
  PROVE  stage'[d] = stage[d]
<1>. USE PipelineAssumption DEF PipelineInv
<1>1. d \notin holders /\ d \in Worker
  BY DEF TypeOK, Active, Worker
<1>2. ASSUME NEW w \in Worker, NEW from, NEW to, Move(w, from, to),
             from \notin Ended
      PROVE  stage'[d] = stage[d]
  BY <1>1, <1>2 DEF Move, TypeOK
<1>3. ASSUME NEW e \in Deploy, Step(e) PROVE stage'[d] = stage[d]
  <2>0. e \in Worker
    BY DEF Worker
  <2>1. CASE Reject(e) \/ Authenticate(e) \/ Accept(e) \/ Fail(e)
    BY <1>2, <2>0, <2>1 DEF Reject, Authenticate, Accept, Fail, Respond, Ended
  <2>2. ASSUME NEW n \in Asset,
               Upload(e, n) \/ UploadFail(e, n) \/ Remove(e, n)
        PROVE  stage'[d] = stage[d]
    BY <1>2, <2>0, <2>2 DEF Upload, UploadFail, Remove, Respond, Ended
  <2>3. CASE ClearEmbeddings(e) \/ Reclear(e) \/ IngestBegin(e)
    BY <1>2, <2>0, <2>3 DEF ClearEmbeddings, Reclear, Clear, IngestBegin, Ended
  <2>4. CASE ClearFail(e) \/ IngestAbort(e) \/ EmbedFail(e)
    BY <1>2, <2>0, <2>4 DEF ClearFail, IngestAbort, EmbedFail, ToCleanup, Ended
  <2>5. ASSUME NEW to, Commit(e, to) PROVE stage'[d] = stage[d]
    BY <1>1, <2>5 DEF Commit, Waiting, Upserts, TxInv, Ended
  <2>. QED
    BY <1>3, <2>1, <2>2, <2>3, <2>4, <2>5
       DEF Step, IngestCommit, IngestReplyLost
<1>4. ASSUME NEW w \in Worker, EmbedStep(w) PROVE stage'[d] = stage[d]
  BY <1>2, <1>4 DEF EmbedStep, Snapshot, Embed, Ended
<1>5. CASE AdminClear \/ AdminDone \/ AdminFail
  BY <1>1, <1>5 DEF AdminClear, AdminDone, AdminFail, Move, TypeOK
<1>6. ASSUME NEW S \in SUBSET Deploy, Crash(S) PROVE stage'[d] = stage[d]
  BY <1>1, <1>6 DEF Crash
<1>7. ASSUME NEW e \in Deploy, Start(e) \/ Shed(e) \/ Rollback(e)
      PROVE  stage'[d] = stage[d]
  BY <1>1, <1>7 DEF Start, Shed, Rollback, Move, Ended, Worker, TypeOK
<1>. QED
  BY <1>3, <1>4, <1>5, <1>6, <1>7 DEF Next, vars

\* And they go on agreeing until somebody works on the version again: deploys,
\* failures and crashes elsewhere take nothing from it.
THEOREM PublishedStaysComplete == Spec => CompleteUntilRedeployed
<1>1. ASSUME PipelineInv, [Next]_vars, NEW d \in Deploy,
             stage[d] \in {"accepted", "unindexed"}, Complete(d),
             \A w \in Rivals(d) : ~Active(w) /\ ~Active(w)'
      PROVE  Complete(d)'
  <2>1. stage'[d] = stage[d]
    BY <1>1, EndedStays DEF Ended
  <2>2. Target[d] \in Scope(d) /\ Target[d] \in Version /\ d \in Worker
    BY PipelineAssumption DEF Scope, Worker
  <2>3. ~Active(d) /\ ~Active(d)'
    BY <1>1, <2>1 DEF Active, Ended
  <2>4. \A x \in Worker : Target[d] \in Scope(x) => ~(Active(x) \/ Active(x)')
    BY <1>1, <2>2, <2>3 DEF Rivals
  <2>5. Same(Target[d])
    BY <1>1, <2>2, <2>4, Footprint
  <2>. QED
    BY <1>1, <2>1, <2>5 DEF Complete, Embedded, PagesOf, Same
<1>2. PipelineInv /\ [Next]_vars =>
        [\A d \in Deploy :
           /\ stage[d] \in {"accepted", "unindexed"} /\ Complete(d)
           /\ \A w \in Rivals(d) : ~Active(w) /\ ~Active(w)'
           => Complete(d)']_vars
  BY <1>1
<1>. QED
  BY <1>2, PipelineInvariant, PTL DEF Spec, CompleteUntilRedeployed

-----------------------------------------------------------------------------
(***************************************************************************)
(* The slots of the deploys are those of BoundedSlots.                     *)
(***************************************************************************)
\* Every deploy that works has a slot of the limiter, and gives it back however
\* it ends (the deferred release of handleDeploy): the pipeline implements
\* BoundedSlots.
THEOREM PipelineKeepsSlots == Spec => Slots!Spec
<1>1. Init => Slots!Init
  BY DEF Init
<1>2. ASSUME PipelineInv, [Next]_vars PROVE [Slots!Next]_holders
  <2>1. ASSUME NEW d \in Deploy, NEW from, NEW to, Respond(d, from, to)
        PROVE  Slots!Next
    BY <2>1 DEF Respond, Slots!Next
  <2>2. ASSUME NEW d \in Deploy, Step(d) PROVE [Slots!Next]_holders
    <3>1. CASE Reject(d) \/ Accept(d) \/ Fail(d)
      BY <2>1, <3>1 DEF Reject, Accept, Fail
    <3>2. ASSUME NEW n \in Asset, UploadFail(d, n) PROVE [Slots!Next]_holders
      BY <2>1, <3>2 DEF UploadFail
    <3>3. Reject(d) \/ Accept(d) \/ Fail(d) \/ (\E n \in Asset : UploadFail(d, n))
            \/ holders' = holders
      BY <2>2 DEF Step, Authenticate, Upload, Remove, ClearEmbeddings, Clear,
         Reclear,
         ClearFail, ToCleanup, IngestBegin, IngestCommit, IngestReplyLost, Commit,
         IngestAbort, EmbedFail
    <3>. QED
      BY <3>1, <3>2, <3>3
  <2>3. ASSUME NEW d \in Deploy, Start(d) PROVE Slots!Next
    BY <2>3 DEF Start, Slots!Next
  <2>4. ASSUME NEW S \in SUBSET Deploy, Crash(S) PROVE Slots!Next
    BY <2>4 DEF Crash, Slots!Next
  <2>. QED
    BY <1>2, <2>2, <2>3, <2>4
       DEF Next, vars, Shed, Rollback, EmbedStep, Snapshot,
       Embed, AdminClear, AdminDone, AdminFail
<1>. QED
  BY <1>1, <1>2, PipelineInvariant, PTL DEF Spec, Slots!Spec
==============================================================================
