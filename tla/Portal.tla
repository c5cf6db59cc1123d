------------------------------- MODULE Portal -------------------------------
(***************************************************************************)
(* The portal as its readers see it.  CI builds a repository and deploys   *)
(* it with the token of a module; the ingest replaces the pages of a       *)
(* version in one transaction; readers follow references and search, and   *)
(* their browsers report what they read (handlePageView,                   *)
(* handleReadProgress, store/postgres_analytics.go), while pages are       *)
(* replaced under them.                                                    *)
(*                                                                         *)
(* The pages of a version carry the number of the deploy that wrote them   *)
(* (their ids are new with every deploy); the rows of docs_page_view hold  *)
(* it in page_id, 0 for NULL.  The versions are those of one module, under *)
(* whichever key it is deployed.                                           *)
(***************************************************************************)
EXTENDS Search

CONSTANTS
  Repos,         \* the repositories, a sequence
  Modules,       \* Modules[i]: the modules with whose token the i-th is deployed
  Version,       \* the versions they publish
  None,          \* nothing is served, no ingest is open
  MaxDeploys,    \* bound on the deploys
  Read,          \* one opening of a page in a browser
  ReadDoc,       \* ReadDoc[r]: the id of the page it shows
  Durations,     \* the durations it reports
  Requests,      \* the searches that are tried on what is served
  Answers,       \* the answers of the reranking provider
  TopK,          \* the settings of RerankTopK
  ChunkSettings  \* the settings of ChunkSize and ChunkOverlap

\* A browser reports how long, and reads a page of a version.
ASSUME PortalAssumption ==
  /\ Durations \subseteq Nat \ {0}
  /\ \A r \in Read : ReadDoc[r][2] \in Version

VARIABLES
  served,     \* served[v]: the deploy whose rows the version has
  number,     \* number[v]: the deploys that have committed
  default,    \* the default version
  ingest,     \* the open transaction of IngestArtifact
  views,      \* docs_page_view
  calls,      \* calls[r][c]: the calls a browser makes for a read
  overlapped, \* history: the reads of which two calls ran at the same time,
              \* or whose progress overtook the view
  failed      \* history: the reads of which an UPDATE failed that had a row

site == <<served, number, default>>
reading == <<views, calls, overlapped, failed>>
vars == <<site, ingest, reading>>

\* What each deploy of a repository with the token of a module writes: nothing
\* when docsctl fails or the artifact is refused.
Published ==
  UNION {{[repo |-> i, mod |-> mod, rows |-> Rows(Canonical(a, mod))] :
            a \in {b \in Build(Repos[i]) : Parses(b)}, mod \in Modules[i]} : i \in DOMAIN Repos}

Deploys == {[repo |-> p.repo, mod |-> p.mod] : p \in Published}
RowsOf(d) == (CHOOSE p \in Published : p.repo = d.repo /\ p.mod = d.mod).rows

\* Texts have lengths; embeddingInputLimit falls back to a default above 0, and
\* an administrator may set any overlap.
ASSUME ChunksAssumption ==
  /\ MaxChunks \in Nat
  /\ \A cs \in ChunkSettings : cs.limit \in Nat \ {0} /\ cs.overlap \in Int
  /\ \A d \in Deploys : \A p \in PagesIn(RowsOf(d)) : PlainText(p.text) \in Nat

\* The view is reported once, and each duration; durations are above 0.
Call == Durations \cup {0}

VersionOf(r) == ReadDoc[r][2]

Open(r) == {c \in Call : calls[r][c].at \in {"missed", "looked"}}

-----------------------------------------------------------------------------
Init ==
  /\ served = [v \in Version |-> None]
  /\ number = [v \in Version |-> 0]
  /\ default = ""
  /\ ingest = None
  /\ views = {}
  /\ calls = [r \in Read |-> [c \in Call |-> [at |-> "new", link |-> 0, module |-> FALSE, order |-> 0]]]
  /\ overlapped = {}
  /\ failed = {}

\* The rows of docs_page_view that name a page of the version.
Linked(v) == {w \in views : VersionOf(w.read) = v /\ w.link = number[v] /\ w.link # 0}

\* IngestArtifact up to the statement that unlinks the views of the old pages:
\* the transaction holds the module and the rows it changes.
BeginIngest(d) ==
  /\ ingest = None
  /\ MapThenSumSet(LAMBDA v : number[v], Version) < MaxDeploys
  /\ LET v == RowsOf(d).version
     IN  ingest' = [deploy |-> d, version |-> v, step |-> "unlinked", held |-> Linked(v)]
  /\ UNCHANGED <<site, reading>>

\* The pages are deleted; a view that names one of them still refuses it.
DeletePages ==
  /\ ingest # None /\ ingest.step = "unlinked"
  /\ ingest' = IF Linked(ingest.version) \subseteq ingest.held
               THEN [ingest EXCEPT !.step = "deleted"] ELSE None
  /\ UNCHANGED <<site, reading>>

\* Any other error, a deadlock with the insertion of a view that has the lock of
\* a page and waits for the module, or a crash: the transaction is rolled back.
Rollback ==
  /\ ingest # None
  /\ ingest' = None
  /\ UNCHANGED <<site, reading>>

\* Mutant: the views go with the pages they are of.
CommitCascades ==
  /\ ingest # None /\ ingest.step = "deleted"
  /\ LET v == ingest.version
     IN  /\ served' = [served EXCEPT ![v] = ingest.deploy]
         /\ number' = [number EXCEPT ![v] = @ + 1]
         /\ default' = v
  /\ views' = views \ ingest.held
  /\ ingest' = None
  /\ UNCHANGED <<calls, overlapped, failed>>

\* The new rows, the default version and the unlinked views become visible.
CommitIngest ==
  /\ ingest # None /\ ingest.step = "deleted"
  /\ LET v == ingest.version
     IN  /\ served' = [served EXCEPT ![v] = ingest.deploy]
         /\ number' = [number EXCEPT ![v] = @ + 1]
         /\ default' = v
  /\ views' = (views \ ingest.held) \cup {[w EXCEPT !.link = 0] : w \in ingest.held}
  /\ ingest' = None
  /\ UNCHANGED <<calls, overlapped, failed>>

-----------------------------------------------------------------------------
(* What browsers report *)

\* A call goes on; what it had looked up it does not need any more.
Step(r, c, from, to) ==
  /\ calls[r][c].at = from
  /\ calls' = [calls EXCEPT ![r][c] =
                 [at |-> to, link |-> 0, module |-> FALSE, order |-> @.order]]

\* A call comes in while another is open, or the view after another.
Overlaps(r, c) ==
  overlapped' = overlapped \cup
    {s \in {r} : Open(r) # {} \/ (c = 0 /\ \E d \in Durations : calls[r][d].at # "new")}

\* RecordReadProgress changes the latest row of the read; it waits for an ingest
\* that holds the row.
Latest(r) ==
  {w \in views : w.read = r /\ \A u \in views : u.read = r => u.order <= w.order}

\* Mutant: the duration is overwritten.
ProgressOverwrites(r, c) ==
  /\ Overlaps(r, c)
  /\ IF Latest(r) = {} THEN Step(r, c, "new", "missed") /\ UNCHANGED views
     ELSE \E w \in Latest(r) :
            /\ ingest # None => w \notin ingest.held
            /\ views' = (views \ {w}) \cup {[w EXCEPT !.duration = c]}
            /\ Step(r, c, "new", "done")
  /\ UNCHANGED <<site, ingest, failed>>

\* The UPDATE keeps the longer duration.
Prolong(r, c) ==
  \E w \in Latest(r) :
    /\ ingest # None => w \notin ingest.held
    /\ views' = (views \ {w}) \cup {[w EXCEPT !.duration = Max({@, c})]}

\* RecordReadProgress: one UPDATE; without a row the read is recorded.
Progress(r, c) ==
  /\ Overlaps(r, c)
  /\ IF Latest(r) = {} THEN Step(r, c, "new", "missed") /\ UNCHANGED views
     ELSE Step(r, c, "new", "done") /\ Prolong(r, c)
  /\ UNCHANGED <<site, ingest, failed>>

\* RecordReadProgress takes any error of the UPDATE for a missing row, and
\* records the read once more: also when the connection breaks, before or after
\* the row was changed.
FailProgress(r, c) ==
  /\ Latest(r) # {}
  /\ Overlaps(r, c)
  /\ Step(r, c, "new", "missed")
  /\ failed' = failed \cup {r}
  /\ UNCHANGED views \/ Prolong(r, c)
  /\ UNCHANGED <<site, ingest>>

\* handlePageView comes in.
View(r) ==
  /\ Step(r, 0, "new", "missed")
  /\ Overlaps(r, 0)
  /\ UNCHANGED <<site, ingest, views, failed>>

\* RecordPageView takes the time and looks for the page (enrichPageView) and its
\* module; a query that fails finds none.
Look(r, c) ==
  /\ calls[r][c].at = "missed"
  /\ LET v == VersionOf(r)
         known == served[v] # None /\ PageById(RowsOf(served[v]), ReadDoc[r]) # {}
         before == {calls[s][d].order : s \in Read, d \in Call}
     IN  \E found, module \in BOOLEAN :
           /\ (found => known) /\ (module => found)
           /\ calls' = [calls EXCEPT ![r][c] =
                [at |-> "looked", link |-> IF found THEN number[v] ELSE 0, module |-> module,
                 order |-> Max(before) + 1]]
  /\ UNCHANGED <<site, ingest, views, overlapped, failed>>

\* The references of a row that is inserted: its page is there and no ingest has
\* deleted it, and no ingest holds its module.
PageThere(call, v) ==
  /\ call.link \in {0, number[v]}
  /\ call.link # 0 /\ ingest # None => ingest.version # v \/ ingest.step # "deleted"
ModuleFree(call) == call.module => ingest = None

Inserted(r, c) ==
  views' = views \cup {[read |-> r, duration |-> c, link |-> calls[r][c].link,
                        module |-> calls[r][c].module, order |-> calls[r][c].order]}

\* Mutant: the row does not wait for the ingest of its module.
InsertUnwaiting(r, c) ==
  /\ Step(r, c, "looked", "done")
  /\ PageThere(calls[r][c], VersionOf(r))
  /\ Inserted(r, c)
  /\ UNCHANGED <<site, ingest, overlapped, failed>>

\* RecordPageView inserts the row, after waiting for what it refers to.
Insert(r, c) ==
  /\ Step(r, c, "looked", "done")
  /\ PageThere(calls[r][c], VersionOf(r))
  /\ ModuleFree(calls[r][c])
  /\ Inserted(r, c)
  /\ UNCHANGED <<site, ingest, overlapped, failed>>

\* The row is refused, for its page is gone, or the statement fails otherwise (as
\* the victim of a deadlock with an ingest): it is lost, and the call is answered
\* all the same.
DropView(r, c) ==
  /\ Step(r, c, "looked", "dropped")
  /\ UNCHANGED <<site, ingest, views, overlapped, failed>>

Next ==
  \/ \E d \in Deploys : BeginIngest(d)
  \/ DeletePages
  \/ Rollback
  \/ CommitIngest
  \/ \E r \in Read :
       \/ View(r)
       \/ \E c \in Durations : Progress(r, c) \/ FailProgress(r, c)
       \/ \E c \in Call : Look(r, c) \/ Insert(r, c) \/ DropView(r, c)

Spec == Init /\ [][Next]_vars

-----------------------------------------------------------------------------
(* What references lead to *)

DocURL(rows, key) == <<Dir("docs"), Dir(rows.module), Dir(rows.version), Dir(key)>>

\* A reference in a that leads to b on a way that stays within a mount.
WithinMount(repo, a, ref, b) ==
  \E e \in Range(repo.entries) :
    /\ e.type = "markdown" /\ IsStrictPrefix(e.source, a) /\ IsStrictPrefix(e.source, b)
    /\ ref.up < Len(a) - Len(e.source)

\* A link to another Markdown file of the mount opens the page of that file.  (A
\* link that leaves the mount and comes back is not found and stays as it is:
\* internalDocRoute joins the path from the root of the mount.)
DocLinksLead(rows, repo) ==
  \A p \in {q \in PagesIn(rows) : q.type = "markdown"} : \A i \in DOMAIN p.refs :
    LET ref == FileAt(repo, p.source).refs[i]
        goal == Resolve(p.source, ref)
        opened == OpenDoc(rows, Followed(DocURL(rows, p.key), p.refs[i]))
    IN  /\ ref.kind = "rel" /\ Last(ref.path)[2] = "md" /\ WithinMount(repo, p.source, ref, goal)
        /\ \E q \in PagesIn(rows) : q.source = goal
        => opened # {} /\ \A q \in opened : q.source = goal

\* A picture or a download of a page is the file the page names, unless
\* another of the page has the same destination.
ResourcesLead(rows, repo) ==
  \A p \in {q \in PagesIn(rows) : q.type = "markdown"} : \A i \in DOMAIN p.refs :
    LET file == FileAt(repo, p.source)
        ref == file.refs[i]
        opened == OpenFile(rows, Followed(DocURL(rows, p.key), p.refs[i]))
    IN  /\ IsResource(repo, file, ref)
        /\ \A j \in DOMAIN file.refs : file.refs[j].path = ref.path => file.refs[j] = ref
        => \E s \in opened : s.source = Resolve(p.source, ref)

\* The files in the split mount, too, are found below the base of the module.
NoneDangles(rows) ==
  \A p \in PagesIn(rows) : \A ref \in Range(p.refs) :
    ref.kind = "abs" /\ IsPrefix(<<Dir("api"), Dir("docs")>>, ref.path)
      => OpenFile(rows, ref.path) # {}

\* The directory that holds the site of an entry, and what a reference in one
\* of its files names there: the site is at the root, or below the base it
\* was built for.
SiteDirs(repo, entry) == IF entry.type = "static" THEN {entry.source} ELSE BuildOutput(repo, entry)
NamedIn(repo, entry, files, rel, ref) ==
  LET md == Metadata(repo)
      base == SiteBase(md.module, md.version, entry.key)
      path == IF ref.kind = "rel" THEN Resolve(rel, ref)
              ELSE IF IsPrefix(base, ref.path) THEN Drop(ref.path, Len(base)) ELSE ref.path
  IN  Existing(files, path)

\* In a site every reference leads to the file of the site that it names.
SiteRefsLead(rows, repo) ==
  \A e \in {f \in Range(repo.entries) : f.type # "markdown"} :
    \A dir \in SiteDirs(repo, e), rel \in SiteFiles(rows, e.key) :
      LET shown == CHOOSE s \in OpenSite(rows, e.key, rel) : TRUE
          url == SiteBase(rows.module, rows.version, e.key) \o rel
          refs == FileAt(repo, shown.source).refs
      IN  \A i \in DOMAIN refs :
            \A target \in NamedIn(repo, e, SiteFiles(rows, e.key), rel, refs[i]) :
              \E s \in OpenFile(rows, Followed(url, shown.refs[i])) : s.source = dir \o target

\* The navigation leads to entries that have a page.
NavLeads(rows) == \A key \in Range(rows.nav) : PageByRoute(rows, key) # {}

\* Where a hit in a site leads: to the route of the page, or to the first page.
HitRoute(page) ==
  IF Hit(page) = <<>> THEN <<>> ELSE SelectSeq(Hit(page)[1], LAMBDA s : s # Dir(""))

\* A search hit on Markdown opens the page that matched, and one in a site of
\* VitePress, VuePress or Fumadocs the file that was made of its source (routes
\* of .mdx pages keep their extension and do not lead there).  In the sites of
\* the other builders it opens the first page only: docsctl records the routes
\* so that hits deep-link (build.go), but docPagePath leaves them out.
HitsLead(rows, repo) ==
  \A p \in PagesIn(rows) :
    LET shown == OpenSite(rows, p.key, HitRoute(p))
    IN  IF p.type = "markdown" THEN OpenDoc(rows, DocURL(rows, p.key)) = {p}
        ELSE /\ Hit(p) = <<>> \/ Last(p.source)[2] = "md" => shown # {}
             /\ Routed(p.type) /\ p.route # <<>> /\ Last(p.source)[2] = "md" =>
                  \A f \in Range(repo.files) :
                    f.made = p.source => \E s \in shown : s.source = f.path

\* Links, resources, sites, navigation and hits of what a deploy publishes
\* lead where the repository says, through every rewriting on the way.
Leads(d) ==
  LET rows == RowsOf(d)
      repo == Repos[d.repo]
  IN  /\ d.mod.mount = "full" => DocLinksLead(rows, repo) /\ ResourcesLead(rows, repo)
      /\ NoneDangles(rows) /\ SiteRefsLead(rows, repo)
      /\ NavLeads(rows) /\ HitsLead(rows, repo)

Leading == {d \in Deploys : Leads(d)}

ReferencesLead ==
  [][\A v \in Version : served'[v] # served[v] => served'[v] \in Leading]_vars

\* rewriteInternalDocLinks says that links between pages resolve to a real
\* page; they do not where docsctl was not told the module.
LinksResolve ==
  [][\A v \in Version : served'[v] # served[v] /\ served'[v].mod.mount = "full" =>
       DocLinksLead(RowsOf(served'[v]), Repos[served'[v].repo])]_vars

-----------------------------------------------------------------------------
(* What a search finds *)

Shown(state) == {v \in Version : state[v] # None}
AllPages(state) == UNION {PagesIn(RowsOf(state[v])) : v \in Shown(state)}

ModuleRow(state, chosen) ==
  [default |-> chosen,
   versions |-> SetToSeq({[version |-> v, isDefault |-> v = chosen, archived |-> FALSE] :
                            v \in Shown(state)})]

\* The vectors of the pages: they come near to every one, for only the opposite
\* direction is at 0 (cosine), or there are none.
Near(state, request) ==
  [id \in {p.id : p \in AllPages(state)} |-> IF request.blind THEN 0 ELSE 10]

\* What a request should find: in the versions it asks for, or the default
\* one, the pages that contain a term, or that the vectors come near to.
ShouldFind(state, chosen, request) ==
  {c \in [version : Shown(state), page : AllPages(state)] :
     LET v == c.version
         p == c.page
     IN
       /\ p \in PagesIn(RowsOf(state[v]))
       /\ v \in IF request.versions = {} THEN {chosen} ELSE request.versions
       /\ request.types # {} => p.type \in request.types
       /\ \/ request.query = <<>>
          \/ request.mode # "semantic" /\ Range(request.query) \cap (p.title \cup p.terms \cup p.joined) # {}
          \/ /\ request.mode = "semantic" \/ (request.mode = "hybrid" /\ ~ request.fallback)
             /\ ~ request.blind}

\* How many of the results the provider may put in another order.
Reranks(results, topK) == IF topK <= 0 \/ topK > Len(results) THEN Len(results) ELSE topK

\* Every page of results is a search of its own, which asks the reranking
\* provider anew or goes without it.  Whatever it answers, the results are those
\* that should be found, each once; pages of results that got one answer hold
\* each exactly once; with different answers a result may be on two pages and
\* another on none, but never one that ranks below the first topK.
Finds(state, chosen, request) ==
  LET rows == SetToSeq({RowsOf(state[v]) : v \in Shown(state)})
      ranked == Ranked(request, Near(state, request),
                       CandidatesFor(request, ModuleRow(state, chosen), rows))
      wanted == ShouldFind(state, chosen, request)
  IN  \A answer \in Answers, topK \in TopK :
        LET all == Reranked(request.query, ranked, answer, topK)
        IN  /\ Range(all) = wanted
            /\ Len(all) = Cardinality(wanted)
            /\ FlattenSeq([n \in 1 .. Len(all) + 1 |-> Slice(all, n, 2)]) = all
            /\ \A other \in Answers, n \in Reranks(ranked, topK) + 1 .. Len(all) :
                 Reranked(request.query, ranked, other, topK)[n] = all[n]

FoundIn ==
  {s \in [Version -> Deploys \cup {None}] \X Version :
     /\ s[2] \in Shown(s[1])
     /\ \A v \in Shown(s[1]) : RowsOf(s[1][v]).version = v
     /\ \A request \in Requests : Finds(s[1], s[2], request)}

FoundOnce == [][served' # served => <<served', default'>> \in FoundIn]_vars

\* Every part of the plain text is in a chunk, up to the number of chunks there
\* may be, and no chunk with its prefix is longer than the provider takes.  (A
\* code block is in none: the comment of plainText, that embeddings use the raw
\* content, is not what embeddingChunks does.)
Covers(content, prefix, cs) ==
  LET chunks == EmbeddingChunks(content, prefix, cs.limit, cs.overlap)
      head == ChunkShape(prefix, cs.limit, cs.overlap).head
  IN  /\ Len(chunks) < MaxChunks =>
           1 .. PlainText(content) \subseteq UNION {c[1] .. c[2] : c \in Range(chunks)}
      /\ \A n \in DOMAIN chunks :
           /\ chunks[n][1] <= chunks[n][2]
           /\ chunks[n][2] - chunks[n][1] + 1 + (IF head > 0 THEN head + 1 ELSE 0) <= cs.limit
           /\ n > 1 => chunks[n - 1][2] + 1 >= chunks[n][1]

Covered ==
  {d \in Deploys : \A p \in PagesIn(RowsOf(d)), cs \in ChunkSettings :
                     \A prefix \in 0 .. cs.limit : Covers(p.text, prefix, cs)}

ChunksCover ==
  [][\A v \in Version : served'[v] # served[v] => served'[v] \in Covered]_vars

-----------------------------------------------------------------------------
(* What is known of reading *)

\* A read whose calls do not overlap or overtake its view, and of which no UPDATE
\* of its row failed, is one row, with the longest duration that was not lost,
\* whatever is deployed in the meantime and whichever insertions fail.
CountedOnce ==
  \A r \in Read \ (overlapped \cup failed) :
    Open(r) = {} =>
      LET done == {c \in Call : calls[r][c].at = "done"}
          rows == {w \in views : w.read = r}
      IN  /\ Cardinality(rows) = (IF done = {} THEN 0 ELSE 1)
          /\ \A w \in rows : w.duration = Max(done)

\* A view that is recorded while its page is replaced does not stand in the way
\* of the deploy: the insertion waits for the module that IngestArtifact holds, so
\* the pages, once their views are unlinked, can be deleted.  (Only a row whose
\* module was not found, for the query failed, can still come between.)
ViewsWait ==
  ingest # None => \A w \in Linked(ingest.version) \ ingest.held : ~ w.module

\* No deploy takes a row from the statistics or shortens a read.
ReadsKept ==
  [][\A w \in views : \E u \in views' :
       u.read = w.read /\ u.order = w.order /\ u.duration >= w.duration]_vars

=============================================================================
