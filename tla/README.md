# modex, specified in TLA+

modex is a documentation platform: a Go API (`src/backend`), a command-line
builder of documentation artifacts (`src/tools/docsctl`), an MCP adapter
(`src/mcp`) and a web frontend (`src/frontend`). Teams deploy artifacts of
Markdown pages and site files for *versions* of *modules*, which hang in a tree
of *categories*; readers browse and search them, programs use them through
OAuth grants.

The state lives in three places that share no transaction: PostgreSQL (rows, and
the embedding vectors of the search), an object store (MinIO: site files) and
Redis (semaphore and rate limits of replicated APIs). The specifications here
are about what goes wrong between these places and between concurrent requests.
All paths below are relative to `src/backend/internal/` unless they start with
`src/`.

## 1. Inventory

| component | state | operations | interacts with |
|---|---|---|---|
| deploy limiter, Redis (`api/deploy_limiter.go`) | sorted set `modex:deploysem` of tokens and admission times, expiry of the key | acquire (loop of tryAcquire, one Lua script), release, key expiry | replicas, their clocks, Redis; held around every deploy |
| deploy limiter, in-process (same file) | a buffered channel | acquire, release | as above, when no Redis is configured |
| deploy pipeline (`api/deploy_analytics.go`, `api/server_util.go`, `store/postgres_ingest.go`) | objects of the site, `docs_page`, `docs_entry`, `docs_release` | POST /api/deploy: authenticate, upload, clear embeddings, ingest, re-embed, clean up after a failure | limiter, object store, PostgreSQL, embedder |
| embedding index (`search/search.go`, `vectorstore/postgres.go`, `store/postgres_search.go`) | `docs_embedding` | UpsertChunk, DeletePrefix, Clear, Reindex, search | pipeline, admin |
| releases (`store/postgres_catalog.go`) | `docs_release.status` | list, RollbackRelease | pipeline |
| OAuth grants (`api/oauth.go`, `store/postgres_oauth.go`) | `connected_app`, `oauth_grant` | authorize, redeem, refresh, revoke, access, enable, delete | MCP clients, admin |
| category tree (`store/postgres_catalog.go`, `api/authorization_admin.go`) | `docs_category` | create, move, update, delete | modules hang below categories |
| modules, versions, entries (`store/postgres_catalog.go`, `api/authorization_admin.go`) | `docs_module`, `docs_version` and which is the default, `docs_entry`, the categories copied into `docs_page` | create, update, migrate, delete, set default, behind gates on roles, teams and categories | deploys write the same rows |
| teams and users (`store/postgres_identity.go`) | members and leaders of a team; users, roles, super-admin flag | create, update, delete, add and remove members; the upsert of a login | permissions, sessions |
| sessions and login (`auth/`) | login states, sessions with a copy of the identity, cookies | OIDC login, callback, logout, expiry | identity provider, directory, every authenticated request |
| rate limiter (`api/request_guard.go`) | counters per key and window, in memory or Redis | permit (allow, or a Lua script), garbage collection, expiry | login, token, search, ask and deploy requests, before their handlers |
| settings and plugins (`store/postgres_settings.go`) | one JSON document | read, patch | admin, frontend |
| analytics (`store/postgres_analytics.go`) | page views with a link to the page, read progress, favourites | record, aggregate | readers; deploys replace the pages |
| search (`search/search.go`) | none of its own | candidates, hybrid ranking, reranking, slices, chunks | embedding index, the provider of rerankings |
| published pages (`deploy/artifact.go`, `api/deploy_analytics.go`, `api/server.go`) | rows of a version, files of its sites | mount, rewriting for the module of the token, document and site routes | docsctl before, browsers after |
| in-memory store (`store/memory.go`, `catalog_mutations.go`, `ingest.go`) | slices under one mutex | all of the repository's operations | the backend's tests, in the place of PostgreSQL |
| HTTP layer, LLM proxy, MCP distribution (`api/`) | none | decoding, rendering, forwarding | everything |
| docsctl (`src/tools/docsctl`) | files of a build | discover, build (Markdown, static sites, sites a command builds), package | produces the artifacts |
| MCP server (`src/mcp`) | none | forwards tool calls to the API | API |
| frontend (`src/frontend`) | browser state | user interface | API |

**What is hard here.** Several replicas with clocks of their own share one
semaphore. A deploy changes three stores in turn, may fail or die after each
step, and cleans up by name. Reindexing reads pages at one moment and writes
rows at many later ones, while an ingest replaces the pages. OAuth requests
find a row, wait for it and act on what it has become. Moves in the category
tree check one snapshot and change another. Module, version, team and settings
updates read a row, change it in memory and write all of it back, beside deploys
that write the same rows. A login is five steps over two stores and a provider.
A reference in a document is rewritten up to three times, by programs that do
not know of each other, on its way to the reader. `PROJECT.json` lists these
hazards at the lines where they bite, with the properties that cover them, or
the reason why none does yet.

**What makes each part correct.**

- Limiter: no more deploys at work than slots, on all replicas together, as
  long as Redis answers; a holder never loses its slot while it works; a slot
  whose holder is gone comes back; nobody queues for ever.
- Pipeline: a deploy that is answered with 202 leaves files, pages and
  embeddings of its version in agreement, whatever failed before it; deploys
  of other versions, failures and crashes elsewhere take nothing from it;
  embeddings contain published text only; every deploy ends.
- OAuth: codes and refresh tokens are single-use, revocation is final, the
  grants of an app go with it.
- Categories: a forest, whose parents exist, in the order that was asked for.
- Rate limits: a bound on bursts, no refusal of a client that has not had its
  share, none for ever.
- Catalogue: a deploy is atomic beside the administration; pages are filed where
  their module is; one default version per module; a request that runs alone
  does what the store of the tests does.
- Sessions: a login opens one session, in the browser that began it and for the
  account that answered; roles that are lost at the provider do not survive the
  session.
- Publishing: links, pictures, sites, navigation and search hits lead to what
  the repository names.
- Search: every page that should be found is found once; chunks cover the text.
- Reading statistics: each read counts once, and survives deploys.

## 2. The modules

| module | what it is |
|---|---|
| `BoundedSlots` | abstract specification: a semaphore, what every `deployLimiter` promises |
| `RedisDeployLimiter` | the Redis limiter with time, clocks, lost replies, crashes; implements `BoundedSlots` |
| `RequestGuard` | the rate limiter, in memory and in Redis, and the in-process deploy limiter behind it; implements `BoundedSlots` |
| `DeployPipeline` | deploys and reindexes over the three stores, bounded by `BoundedSlots` |
| `OAuthGrants` | the grants of one app as concurrent transactions |
| `CategoryTree` | the category tree as concurrent transactions |
| `MemoryStore` | the in-memory store of the tests: what one call does when nothing else runs |
| `Sessions` | login, callback, session, logout, expiry and the user directory, compared with `MemoryStore` |
| `Catalog` | administration of a module, its versions, entries and teams, beside deploys, as concurrent requests; compared with `MemoryStore` |
| `SiteRefs` | what the three rewritings make of one reference |
| `DocsBuild` (extends `SiteRefs`) | docsctl build: from a repository to an artifact |
| `Publishing` (extends `DocsBuild`) | from an artifact to the rows of a version, and what the routes serve of them |
| `Search` (extends `Publishing`) | candidates, ranking, reranking, slices, chunks |
| `Portal` (extends `Search`) | deploys, readers and their page views, over time |
| `MC*` | instances for TLC |
| `RedisDeployLimiterProofs`, `RequestGuardProofs`, `DeployPipelineProofs`, `OAuthGrantsProofs`, `CategoryTreeProofs`, `SessionsProofs`, `CatalogProofs`, `PortalProofs` | the theorems about these modules, and their inductive invariants |

`DeployPipeline` says which steps a deploy consists of and what may fail or race
it, `Catalog` which rows it shares with the administration, `Publishing` what it
publishes; each abstracts from what the others tell apart.

Each module that models code also holds *mutants*: variants of a definition
with a plausible bug, named after it (`ExpiredEarly`, `ClearNothing`, ...), each
preceded by a comment that starts with "Mutant". They are no part of any
specification; putting one in the place of its original has to break the
property that `PROJECT.json` names with it.

### RedisDeployLimiter

One element of `Deploy` stands for a request and its random token. The sorted
set is `members` with `age` (how long ago the score was written); `keyAge`
stands for the expiry of the whole key; time is `Tick`. `Offset[r]` is the error
of the clock of replica r: the script evicts with the caller's clock what was
scored with the holder's (`Expired`). `acquire` is the loop
`Admit / Refuse, Backoff, Shed, GiveUp`; `FailOpen` is tryAcquire's error path,
which admits without a slot (`bypass`) whether or not the script has run;
`ReplyLost` is the retry of the client library after the script has run.
`Finish` is the deferred release, whose ZREM may fail. `Crash` takes all deploys
of a replica without releasing anything.

`LimiterAssumption` is what the comment of `leaseTTL` asks of the configuration
("must exceed the longest possible deploy"), with the clock difference added:
`MaxDeploy + MaxSkew < LeaseTTL`. Without that margin HolderKeepsLease is false.

### RequestGuard

One API process. `backend` is what start-up has found: with Redis the windows
are counters there and deploys go to the limiter above; without it both are in
the process. A request goes through `idle - permit - handler - queue - running`.
`Arrive` reads the clock; in memory, `Allow` and `Deny` happen up to MaxStall
later, when the request has the mutex, and judge the window by the time that
was read (`Over`, `Current`), which may lie before the start of the window they
find. `windows[k].age` is how long ago the window began, so a late request
subtracts its own delay. `Allow` ends with the garbage collection when it is
due. In Redis, `Answer` runs the script (`Incr`, whose expiry only a first
request sets) and `FailOpen` lets a request through without its answer, whether
or not the script has run; the script of an abandoned call runs at that moment
or never, not later. `ReplyLost` is a run whose reply is lost with the
connection: the client library sends the script again, as its default settings
say (start-up sets none), and INCR counts both runs, so that one request takes
two places. `lost[k]` counts such places: RefusalJustified says that a client
that is refused had its share but for these, which is all that the code gives. The expiry of a counter is part of `Tick` (`Aged`).
Buckets of one client are independent, so one key stands for all.

`recent[k][n]` is history: how many requests of k took a place of a window and
were let through less than n units ago. What passes because Redis did not answer, and was
counted beyond the limit or not at all, is not in it: fail-open has no bound.
The body limit and the table of policies are configuration.

### DeployPipeline

A deploy d is a request together with its artifact; files, pages and texts are
named by the deploy they come from, which is all that the properties tell
apart. `objects`, `pages` and `rows` are the three stores. The handler goes
through the stages

    waiting - parse - upload - ingest - commit - reindex - snapshot - embed - accepted
                                                              |
                                                            skip - unindexed

and from upload on may turn to cleanup - failed. The ingest is two steps,
`IngestBegin` (locks the module row and the embedding rows it unlinks) and
`Commit`; between them other workers run into its locks. `Embed` is one
embedding and its upsert, which looks up the page that has the doc_id *now* and
leaves an existing link alone when there is none. `Clear` waits for locked rows.
`Deadlocks`, `Upserts` and `Waiting` say when PostgreSQL makes an upsert of a
reindex wait for an ingest, or aborts one of them: the upsert takes FOR KEY
SHARE on its page and then waits for the module that the ingest has locked,
which in turn waits to delete the page. `Snapshot` may be empty although there
are pages, for `Store.Pages()` answers a failed query with an empty list; such
a deploy is answered with 202 and "no indexable document chunks", such a
reindex with "reindexed".

The limiter is present as `BoundedSlots`; its fail-open path amounts to a
larger `MaxSlots`. The installation is one with an object store (without it
the upload and cleanup steps are empty). `alone[w]` is a history variable: it
says whether another worker of a version of w has been active since w started,
and is read by properties only.

What the model made visible, and the properties therefore do not claim:

- Deploys of the same version at the same time are not serialised across the
  three stores. Both may be answered with 202 and leave the pages of one with
  files or rows of the other. AcceptedIsComplete is stated for deploys that
  nobody raced.
- Files of an earlier release that the new one does not have stay in the object
  store. `Complete` speaks of the files of d only.
- The cleanup of a failed deploy removes objects by name, those of the release
  that is still published included; a failure after the commit leaves the
  release published without files. CompleteUntilRedeployed therefore says
  nothing about a version that is being deployed again.

### OAuthGrants

The tokens of a grant are numbered: 0 is the authorization code, k the k-th
pair. At READ COMMITTED a statement finds rows in a snapshot (`Select`), waits
for the row lock and evaluates its WHERE clause again on the row as it is then
(`LockGrant`, `Revoke`); `Match` is the WHERE clause. `Touch` is the update of
`connected_app.last_used_at`, which locks the app's row until commit. A
deletion of the app locks its grants one by one (`DeleteGrant`) and then the
app (`DeleteAppRow`). `uses` and `dropped` are history: how often a token was
exchanged, and for which tokens a revocation was answered. Requests without a
code or token are not modelled (they cannot match, or they match the hash that
marks a consumed code, which no refresh or access statement accepts). A
revocation that loses a race against a rotation of the same token answers
`revoked: true` and leaves the new pair alive; DroppedIsDead says what is true
then: the token that was presented is dead. A revocation whose UPDATE fails is
answered `revoked: true` as well (`FailRevoke`), and the token lives on: `failed`
are the answered tokens none of whose revocations succeeded, and DroppedIsDead
is stated for the others. An UPDATE that goes on in the database after its
request was answered is not modelled; it would only make the token die later.

### CategoryTree

`parent` and `order` are the columns; requests are transactions with row locks.
`MoveCategory` is `LockMoved, CheckAncestors, ReadSiblings, LockSibling (for each),
SiblingsLocked, LinkParent, CommitMove`: the check reads the ancestors in a
snapshot without locks. The query of the siblings sorts them in a snapshot as
well, and only then waits for their locks one after the other, leaving out rows
that have gone elsewhere; a sort order that another request commits meanwhile
does not change where the row is in the list. `overtaken` and `raced` (moves whose
new ancestors changed after the check) and `resorted` (moves with a sibling that
was given another sort order after the sort) are history.
`UpdateCategory` reads the row (`ReadRow`) and writes every column back
(`WriteRow`) without looking for cycles. `Chain` is the recursive query, by a
least fixed point and not by recursion; its UNION ALL does not end on a cycle,
hence the guard `Terminates`. A deadlock is an `Abort`, possible at any moment.
The references from modules to categories are not modelled.

### MemoryStore, Sessions, Catalog

`MemoryStore` has one operator per method of the in-memory store, from the
tables before to the tables after: each holds the mutex throughout. It is the
sequential specification of the operations that PostgreSQL runs as interleaved
statements; `QuietIsSequential` and `DirectoryLikeFake` say when the two agree,
and `IngestIsAtomic` that a deploy agrees whatever runs beside it. That is what
the backend's tests, which run against this store, say of production.

`Sessions`: a redirect of the provider is a pair of a login state and the account
that answered, and names the session it opens. `CompleteLogin` is `Callback`
(Get), `DropState` (Delete), `Exchange`, `OpenSession`; `Sync` is the rest of
handleCallback, the upsert into the directory and the two cookies. `Gate` and
`Write` are an administrator's request: the gate looks at the session's copy,
the write happens later. Time passes in units that are long beside the
provider's timeout, so not between `Exchange` and `Sync`. `shared` is history:
states that were read twice before they were deleted. `referenced` are the users
to whom rows of other tables refer (views, favourites, recent documents, grants,
apps, modules); `Refer` writes such a row for a reader who is signed in, and
`DeleteUser` is then refused by a foreign key, which the in-memory store does not
have. `Refer` finds the user and inserts the row in one step: the foreign key
check waits for whoever changes the user.

`Catalog`: `Begin` is a handler up to its gate (`Allowed`, one disjunct per
route), `Read` the row it reads, `Clear` and `LockRow` the statement that clears
the default flags (it sees the versions of its beginning and waits for their
locks one by one), `LockModule` the FOR UPDATE of an ingest, `Write` the last
statement and the commit. `Blockers` are the transactions a step waits for;
`Deadlock` is PostgreSQL's answer to two that wait for each other. The run checks
for deadlock, so no wait is without end. `alone` and `raced` are history.

### SiteRefs, DocsBuild, Publishing, Search, Portal

A path is a sequence of segments (name, extension); a repository a sequence of
files in the order of filepath.Walk, each with its references; so the rewritings
are functions on references, and not on text. `Build`, `Canonical` and `Rows`
follow a repository to the rows of a version; `OpenDoc`, `OpenSite`, `OpenFile`
and `Hit` are what a reader gets of them. They are pure; `Portal` puts the deploys
that write the rows, the page views that refer to them and the searches in time.

A text has the length of its prose and that of its fenced code; `PlainText`, of
which chunks are cut, keeps the first. `MountSlug` is slugForMount, which keeps
ASCII letters only, beside docsctl's slugKey (`Slug`). In `Portal` a call of a
browser is `View` or `Progress`, then `Look` (the page and its module, each query of
which may fail) and `Insert`, which waits for the module that an ingest holds, or
`DropView`, when the insertion is refused or becomes the victim of a deadlock.
RecordReadProgress takes any error of its UPDATE for a missing row
(`FailProgress`, whether or not the row was changed); `failed` and `overlapped`
are history. The versions of `Portal` are those of one module.

What a deploy publishes does not depend on the state, so properties about it are
stated of the steps that publish it (`ReferencesLead`, `FoundOnce`,
`ChunksCover`). `**` in .modexignore, the folders of the navigation, the titles
that are only shown, queries and fragments of references, and markup other than
fenced code (which plainText strips too, a fence that is never closed excepted)
are left out.

## 3. What the runs check

| run | instance | what it shows |
|---|---|---|
| `limiter` | 3 deploys, 2 replicas one clock unit apart, 2 slots, the shortest lease the assumption admits, a wait of less than a unit of time; Redis may fail for one deploy | HolderKeepsLease, QueueDrains, LeakedSlotReclaimed (a leaked token beside deploys that renew the key), and that the limiter implements `BoundedSlots` |
| `guard` | 2 requests at a time of one client, 2 requests in a window of 3 units, a wait of up to 2 for the mutex, 1 slot; both backends | BurstBounded, RefusalJustified, and that the channel implements `BoundedSlots` |
| `pipeline` | 3 deploys, two of one version, 2 slots, one reindex; d1 and the admin meet every fault, d1 may die | PagesReplaceable, ReindexRepairs, AcceptedIsComplete, CompleteUntilRedeployed |
| `pipeline_live` | 2 deploys of one version and a reindex, no faults | DeployEnds |
| `pipeline_reindex` | 1 deploy, a reindex with faults | *violated*: ReindexCoversAll |
| `oauth` | 2 requests at a time on 2 grants of one app | TokenUsedOnce, DroppedIsDead, DeletedAppHasNoGrants, RevokedIsFinal, RequestEnds |
| `categories` | 3 categories, 2 requests of any kind at a time, 4 in all | OnlyRacesMakeCycles, ParentExists, MovePlaces |
| `categories_moves` | two moves at a time | *violated*: NoCycle |
| `login` | 2 browsers, 2 accounts, 2 logins with 2 redirects, 2 requests at a time, 3 changes by an administrator, users to whom other rows refer; the session store may fail | StateUsedOnce, OwnLogin, LostRolesExpire, DirectoryLikeFake |
| `catalog` | 20 kinds of request by a super admin, a platform admin and a team leader; 3 requests, 2 at a time | QuietIsSequential, IngestIsAtomic, PagesFiledWithModule, OneDefault |
| `portal` | 7 repositories, full and split mounts, tokens of another module; 2 deploys, 1 read with a view and two durations, queries that fail | ReferencesLead, FoundOnce, ChunksCover, CountedOnce, ViewsWait, ReadsKept |
| `doc_links` | two of the repositories, docsctl not told the module | *violated*: LinksResolve |

`limiter`, `guard`, `pipeline`, `oauth`, `login` and `catalog` also check the
type invariant of their module.

**Bounds.** The limiter needs three deploys to exceed two slots, and two clocks
to evict with one what was scored with the other; time is relative and wraps
nowhere, ages beyond `AgeCap` and waits beyond `WaitCap` are not told apart. The
length of the wait only changes how often a refused deploy tries again, and the
safety of the limiter is proved for every length.
The guard needs a limit of two and a wait of two units to fit parts of three
windows into one; `BurstBounded` is tight on this instance for both backends
(with one less on its right side it is violated), so it is the bound of the
code: below 2 * Limit in Redis, below 3 * Limit in memory. Two requests at a time suffice for two
to overtake each other, the collection of windows becomes due after two units
instead of ten minutes, and ages beyond those that the comparisons tell apart
are one.
The pipeline needs two deploys of one version (to replace, to race, to repair),
one of another (to be left alone), two pages and two files of which one
deploy lacks one (so that leftovers show), two slots. `Faulty` names who
meets failures; d1 runs before, beside and after d3, so both what it leaves and
what it finds vary. Two OAuth requests suffice for each race between two
statements; one grant is rotated twice, so that there are a used, a current and
a future token, and its codes and tokens expire and its revocations may fail; the
second makes two deletions of the app wait for each other.
Three categories are the shortest cycle beyond what the direct parent shows
(mutant AllowedByParent) and two siblings to arrange; positions are below zero,
inside and past the end. Two requests of every kind at a time reach both ways to
a cycle, two moves and a move beside a category that is deleted and created
again elsewhere (ids come from names); four in all are enough for a move to be
overtaken and for the cycle to be met by a third. Two login states,
accounts and browsers are what a redirect needs to reach the wrong one of each;
lifetimes are one unit, for only their end is told apart. One request of the
catalogue may complete between the steps of another and a third see what they
leave; a version exists, is created, or is created twice. Each repository of
`portal` has the cases of one builder: the links and pictures of a mount, rules
of .modexignore that revoke each other, two mounts with the same key, a static
site rewritten at the build or only when it is served, a site built for a base
into a directory that has to be guessed, a site of a builder whose hits have no
route, a link that leaves its mount and comes back, a text that is all code, a
name without ASCII letters. Two deploys replace, or stand beside,
each other; a read reports two durations so that the shorter can come last.
`CHECK_DEADLOCK FALSE` stands where the system
comes to an end: each deploy arrives once, a deleted app receives nothing, the
logins and the reads are bounded.

**Fairness.** `limiter`, `pipeline_live` and `oauth` have liveness properties.
Weak fairness of the next step of a handler: goroutines are scheduled, calls to
stores return or fail, a select that has a ready case takes one. Weak fairness of
`Tick`: time passes. Strong fairness of OAuth statements: PostgreSQL queues for a
row lock and hands it over, it does not starve a waiter; and of the rollback of
one transaction of a deadlock. Nothing is assumed of clients, faults, crashes,
administrators. The other specifications are about safety and state no fairness.

**Disagreements the runs show** (`findings`): a reindex whose page query fails
has deleted all embeddings and reports success; two concurrent category moves
make a cycle; links between Markdown pages stay on the module "UnknownModule"
when docsctl is not told the module, although the deploy token is meant to
choose it.

**Other disagreements met while modelling.** They have no run; the models follow
the code, and the properties are stated so that they do not hide them.

- Limiter: a cancelled request context is taken for Redis trouble and admits a
  deploy without a slot (`api/deploy_limiter.go:121`, against the comment at
  line 14). The score of a token is the time that was read before the script ran;
  `RunScript` starts its age at 0, so the time the call takes (one second for each
  try) is part of what `MaxSkew` has to allow for.
- Rate limits: the counting script is not idempotent, so a lost reply counts one
  request twice (`api/request_guard.go:83`), and a client may be refused before it
  had the share the policy names.
- OAuth: a revocation that failed in the database is answered `revoked: true`
  (`store/postgres_oauth.go:178`, `api/oauth.go:264`), and the token lives on.
- Categories: the siblings are sorted before they are locked
  (`store/postgres_catalog.go:136`), so a sort order that an UpdateCategory commits
  in between is undone by the renumbering of the move.
- Releases: RollbackRelease changes a status and nothing that is served
  (against `src/docs/operations.md:37`).
- Catalogue: the two stores part in what `Parts` lists: PostgreSQL accepts an entry
  whose key exists, wants its version to exist, refuses to delete an entry with
  a page, and lets a patch change the module's creator. UpdateModule writes back
  a default version or a deploy token that changed since it was read. Concurrent
  CreateVersion and UpdateVersion can leave two default versions or none. A module
  created with a category that does not exist is rolled back as a whole.
- Users: PostgreSQL refuses to delete a user to whom other tables refer
  (`store/postgres_identity.go:173`; `store/schema.sql:52,81,139,251,261,269`) and
  the request is answered with the raw error, while the in-memory store
  (`store/memory.go:295`) deletes the row: an administrator cannot delete anybody
  who has read a page, and no test sees it.
- Teams: RemoveTeamMember leaves a removed leader in `leaders`, although
  `store/models.go:74` says that leaders are members. requirePlatform finds
  the responsible team by prefixes of category ids, topmost first,
  accessibleCategoryIDs by the column parent_id, so one may grant what the other
  refuses.
- Sessions: when an administrator has created the user before the first login,
  the session's id is not the directory's, and /api/auth/me does not find it. The
  super-admin flag of the directory never reaches a session. The upsert's error
  is swallowed. Completing a login clears the state cookie of another that the
  same browser has begun meanwhile.
- docsctl: a key that was numbered ("run" becomes "run-2") is not noted as used, so
  a file run-2.md gets the same key and one of the two is dropped at the ingest
  (`build.go:930`, against the comment at lines 37-41). Links to .mdx files are not
  rewritten; routes of .mdx pages keep their extension. Two pictures of one page
  can be copied to the same file. The split mount replaces the keys that links
  were written for. Rewriting when a site is served strips the first segment of an
  absolute reference whose second has a dot. A link that leaves its mount and comes
  back (`../../docs/x.md`) is joined from the root of the mount, not found, and
  stays as it is (`build.go:910`). The routes of command-built sites are recorded
  so that search hits deep-link (`build.go:85-88`), but `docPagePath` gives deep links to
  VitePress, VuePress and Fumadocs only: hits in sites of Docusaurus, MkDocs,
  HonKit and GitBook open the first page.
- Search: text beyond 512 chunks is not embedded; the slice of a very large page
  number overflows. Each page of results asks the reranking provider anew, or
  goes without it when it fails (`search/search.go:227-241`), so a result can be on
  two pages and another on none; FoundOnce says that the pages of one order hold
  each result once, and that what ranks beyond the first topK is not affected. The
  comment of plainText says that "embeddings still use the raw content"
  (`search/search.go:612`), but embeddingChunks begins by applying it (line 494): what
  is in fenced code blocks is in no chunk. ChunksCover speaks of the plain text.
- Reading: a progress report that overtakes its view, or runs beside it, makes
  two rows, and so does one whose UPDATE fails for any reason
  (`store/postgres_analytics.go:110`), also after it took effect. An insertion that
  fails is answered as if it had not. A view that is inserted between the
  unlinking and the deletion of the old pages makes the deploy fail, but only when
  the query for its module had failed: otherwise it waits for the deploy.
- Settings: of two first writes the second does not see the first (there is no
  row to lock yet).

## 4. What is proved

Every invariant that a passing run checks, and every action property but three, is
a theorem, for every value of the constants that the module's ASSUME admits and
not only for the instance of the run. The assumptions name what the code's
configuration or schema gives (a lease longer than a deploy, a start tree without
cycles, patches that do not name keys) and that markers such as `None` are not
data; TLC evaluates them on every run. Each proof module follows one pattern: an
inductive invariant, which contains the properties and what they need beside
them, one lemma for each action that can disturb a conjunct, a step lemma that
joins them, and the theorems.

`RedisDeployLimiterProofs` proves, for every finite set of deploys, any
replicas and clock offsets, and all values that `LimiterAssumption` admits:
TypeCorrect, SortedSetBounded (SetBounded), LeaseCoversDeploy
(HolderKeepsLease), IngestBounded (BoundedIngest; no run repeats it or
SetBounded), and LimiterImplementsSlots (the refinement of `BoundedSlots`). BoundedIngest is not inductive: nothing in it says that a
holder is still in the set. The inductive invariant is `LimiterInv`: the type
invariant, SetBounded and `LeaseInv`, which says that a running deploy has run
for at most MaxDeploy, that a holder is in the set and was scored no earlier
than it started to run, and that the key was renewed no earlier than any member
was scored. From the first two and `MaxDeploy + MaxSkew < LeaseTTL` no clock
finds a holder expired (HolderNotExpired), so the script keeps it
(ScriptKeepsHolders); from the third, the key does not expire under a holder.
BoundedIngest then follows from the size of the set. The refinement has one
step per action: Admit is Acquire, Finish and Crash are Release or a stutter,
all others stutter.

`RequestGuardProofs` proves, for every finite set of requests, any keys and all
values that `GuardAssumption` admits: GuardTypeCorrect (TypeOK),
ChannelImplementsSlots (the refinement of `BoundedSlots`), BurstsAreBounded
(BurstBounded) and RefusalsAreJustified (RefusalJustified).

- The channel is a number and the abstract semaphore a set; that the number is
  the size of the set is a conjunct of TypeOK, and with it `sem < MaxSlots` is
  the abstract guard.
- A window knows nothing of the windows before it, so BurstBounded is far from
  inductive. `GuardInv` bounds, for the window there is, what was let through
  since `Slack` after it began (all but its first request), since one Window
  before that (one Limit more) and since two (two more); `Slack` is how late a
  request may judge a window, MaxStall in memory and 0 in Redis. When a window
  begins, each of its bounds is the next one of the old window, because it
  begins at least a Window later (BeginBound); a request that joins adds one to
  both sides (JoinBound); collection and expiry drop windows that are over for
  all who wait (ForgetBound, ExpireBound, from `Window + MaxStall <= GCKeep`).
  The bound for memory looks back past two windows, that for Redis past one.
- In the other direction (`Share`), the places of an open window were taken by
  requests let through since it began, or by runs of the script whose reply was
  lost (`lost`, ScriptLost); a refused request finds a window that is full and not
  over by its own clock (FullWindow).

`DeployPipelineProofs`, for any deploys, versions, pages, files, slots and
reindexes and any `Faulty`: PipelineTypeCorrect, OnlyPublishedTextIsEmbedded
(TextWasPublished; no run repeats it), IngestReplacesPages (PagesReplaceable), ReindexRepairsAll
(ReindexRepairs), DeployIsComplete (AcceptedIsComplete), PublishedStaysComplete
(CompleteUntilRedeployed), and PipelineKeepsSlots: with its crashes and failures
the pipeline takes and returns slots as `BoundedSlots` does (no run repeats it).
`PipelineAssumption` says that no deploy is one of the marks of a row without a
link ("orphan", "loose", `None`), and that each artifact has pages. Of `PipelineInv`,
`LockedInv` says that the open transaction has locked exactly the rows of its
version that name their module: an upsert that would add one waits.
`PublishedInv` follows text from the pages to the queues and the rows.
`AloneInv`, `FilesInv` and `RowsInv` say of a worker that nobody raced what each
stage has left in the three stores so far (`Partial`: the rows but for the queued
chunks); ReindexRepairs and AcceptedIsComplete are their last stage.

`OAuthGrantsProofs`, for any grants, requests, expiries and `MaxPair`:
GrantsTypeCorrect, TokensAreUsedOnce (TokenUsedOnce), RevokedTokensAreDead
(DroppedIsDead), RevocationIsFinal (RevokedIsFinal) and AppTakesItsGrants
(DeletedAppHasNoGrants). A row that a transaction has locked for a token goes on
having it (`HeldInv`), so whoever uses a token replaces it, and a token that can
still be used was not (`UsesInv`). What a revocation found dead stays dead: ids
are not reused and pairs only grow (`DroppedInv`); a token is taken out of `failed`
only by a revocation that succeeds. From the deletion of the last
grant to its commit the lock on the app keeps new grants out (`DeletionInv`).

`CategoryTreeProofs`, for any categories and requests, and a start tree without
cycles: ParentsExist (ParentExists) and UnracedMovesMakeNoCycle
(OnlyRacesMakeCycles), in which requests of every kind run at the same time. The
first rests on the key-share lock that a move holds on its new parent from
LinkParent to its commit. For the second, the check of a move has found a set that
is closed under parents, with the new parent and without the row to move. A step
of another request that changes no ancestor of the new parent leaves the set of
these ancestors closed (DetachedKeeps); one that does change an ancestor makes the
move `overtaken`. So a move that is not overtaken still has such a set when it
commits (`DetachedInv`) and closes no cycle (CommitMoveAcyclic); one that is
sets `raced`. The theorem says that this one race, which `categories_moves` shows, is
the only way to a cycle. The tree is a function and cycles are sets without a
way out, so no induction along paths is needed.

`SessionsProofs`, for any browsers, accounts, logins, requests, lifetimes and
claims: SessionsTypeCorrect, StatesAreUsedOnce (StateUsedOnce), SessionsAreOnesOwn
(OwnLogin), LostRolesAreLost (LostRolesExpire) and DirectoryIsLikeFake
(DirectoryLikeFake). `OwnInv` carries who began a login from the cookie through
the callback to the session; `OnceInv` says that a state outside `shared` has one
callback or one session, and no transaction any more; `ExpiryInv` that a session
with a role that was lost has at most the lifetime left that remains since the
loss. DirectoryIsLikeFake compares request by request, and names what PostgreSQL
refuses and the in-memory store does not.

`CatalogProofs`, for any users, categories, teams and start tables, any legal
requests and any number of them at a time: KeysKept (TypeOK), PagesFiled
(PagesFiledWithModule), DefaultIsOne (OneDefault), DeployIsAtomic
(IngestIsAtomic) and QuietSequential (QuietIsSequential). `StartsAssumption`
says that the start tables are tables with keys and references, `AsksAssumption`
that a patch does not name a key or what the row belongs to (the updates copy
neither from it). Every write is *sound*: it keeps columns, keys and references; so
what a request has read of them holds however stale the rest is (`Sees`). While a
deploy holds the module's row its copy is the row, and every version it saw is
cleared (`LockInv`): whoever else writes them waits. A request beside which no
other ran has read what is there (`QuietInv`). In both cases the write is that of
`MemoryStore`, which the lemmas compute operation by operation, apart from what
`Parts` lists.

`PortalProofs`, for any readers, versions, durations and repositories: ReadsCountOnce
(CountedOnce), ViewsDoNotBlock (ViewsWait) and ReadsAreKept (ReadsKept). A read
outside `overlapped` and `failed` has at most one open call and, while one is open,
no row in which it is not counted (`CountInv`), so the call that finds no row is the
one that inserts it; a commit returns each row that it holds, unlinked (`HeldInv`).
Between the unlinking and the deletion only a row without a module can be linked,
for all others wait (WaitStep). ChunksAlwaysCover (ChunksCover) is arithmetic on the
length of what plainText leaves: a text needs as many steps as bring the end within reach of the
window (StepsNeeded), and a step is positive and no longer than the window,
whatever the settings (ShapeFits); so each position lies in the last window that
begins before it. The run tries a few lengths and settings, the theorem has all
of them; `ChunksAssumption` asks for a limit above 0, which embeddingInputLimit
sees to, and that the pages of a deploy have lengths.

**Only model-checked:**

- Liveness (QueueDrains, LeakedSlotReclaimed, DeployEnds, RequestEnds), which
  the prover does not treat under fairness.
- ReferencesLead and FoundOnce: what recursive functions and folds
  over repositories and results compute (`DocsBuild`, `Publishing`, `Search`) needs
  induction over data.
- MovePlaces: the order of siblings is a sort (`SetToSortSeq`), and that a sorted
  sequence of a finite set exists is again an induction over it.

## 5. What is not modelled

- Configuration and start-up, the frontend, the MCP server, the LLM proxy and the
  MCP downloads have no state whose interleaving matters: they read, render or
  forward.
- Settings and plugins are one JSON document, replaced as a whole.
- Search logs, feedback, favourites and recent documents are plain inserts and
  lists; facets, snippets and statistics are computed from what is modelled.
- Of docsctl the discovery of a configuration, the archive and the commands; of
  the in-memory store the category tree, analytics and listings.
- Text: Markdown rendering, HTML and JSON parsing, tokenisation and the vectors.
- The verification of an ID token is the provider's answer; scopes, redirects
  and the consent page of OAuth are left out.

## 6. Plan

Theorems to come: the part of MovePlaces that does not speak of the order (a move
changes the parent of its row alone), and a bound on the second rows that failing
UPDATEs of a read make.

To extend the model: the settings document, and the category references of
modules in `CategoryTree`.
