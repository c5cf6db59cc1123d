----------------------------- MODULE Publishing -----------------------------
(***************************************************************************)
(* What POST /api/deploy makes of an artifact of docsctl, and what the     *)
(* portal serves of it: ParseZip (deploy/artifact.go), the rewriting for   *)
(* the module of the deploy token (api/deploy_analytics.go), the rows that *)
(* IngestArtifact writes (store/postgres_ingest.go) and the routes that    *)
(* read them (api/server.go).  The steps of a deploy, and those that race  *)
(* it, are in DeployPipeline and Catalog.                                  *)
(*                                                                         *)
(* The module of the token: its key, and how it mounts Markdown, "full" (a *)
(* page per file) or "split" (one per directory at the top).               *)
(***************************************************************************)
EXTENDS DocsBuild

CONSTANT MountSlug    \* MountSlug[n]: as Slug[n], but of ASCII letters only

\* ParseZip: an artifact without entries or documents is refused.
Parses(artifact) == artifact.entries # <<>> /\ artifact.docs # <<>>

-----------------------------------------------------------------------------
(* The split mount *)

\* commonSourcePrefix: the leading directory that all sources share.
CommonPrefix(docs) ==
  IF /\ \A i \in DOMAIN docs : Len(docs[i].source) > 1
     /\ Cardinality({docs[i].source[1] : i \in DOMAIN docs}) = 1
  THEN 1 ELSE 0

\* splitGroupForSource: the entry of a document is its topmost directory, or
\* the file itself; a readme, and what has no name in the letters of
\* slugForMount, is the guide.
GroupOf(doc, prefix) ==
  LET rel == Drop(doc.source, prefix)
  IN  IF rel = <<>> THEN doc.key
      ELSE IF (Len(rel) = 1 /\ rel[1][1] \in ReadmeNames) \/ MountSlug[rel[1][1]] = ""
      THEN "guide"
      ELSE MountSlug[rel[1][1]]

\* mergeMarkdownGroup: the documents of a group, one after the other.
Merged(mod, version, key, docs) ==
  [id |-> <<mod.key, version, key, <<>>>>, key |-> key, type |-> "markdown",
   route |-> <<>>, source |-> docs[1].source, title |-> {key},
   terms |-> UNION {docs[i].terms \cup docs[i].title : i \in DOMAIN docs},
   joined |-> UNION {docs[i].joined : i \in DOMAIN docs},
   text |-> FoldLeft(LAMBDA t, d : [prose |-> t.prose + d.text.prose, code |-> t.code + d.text.code],
                     Prose(0), docs),
   refs |-> FlattenSeq([i \in DOMAIN docs |-> docs[i].refs])]

\* splitMarkdownArtifactByTopLevel: the guide comes first (the order of the
\* other groups is left out).
Split(artifact, mod) ==
  LET prefix == CommonPrefix(artifact.docs)
      Of(key) == SelectSeq(artifact.docs, LAMBDA d : GroupOf(d, prefix) = key)
      keys == {GroupOf(d, prefix) : d \in Range(artifact.docs)}
      order == SetToSeq(keys \cap {"guide"}) \o SetToSeq(keys \ {"guide"})
  IN  [artifact EXCEPT
         !.entries = [i \in DOMAIN order |-> [key |-> order[i], type |-> "markdown"]],
         !.nav = order,
         !.docs = [i \in DOMAIN order |->
                     Merged(mod, artifact.version, order[i], Of(order[i]))]]

\* applyModuleMount and moduleUsesMarkdown.
Mounted(artifact, mod) ==
  IF /\ mod.mount = "split" /\ Len(artifact.docs) > 1
     /\ \/ mod.docType = "markdown"
        \/ \A e \in Range(artifact.entries) : e.type = "markdown"
  THEN Split(artifact, mod) ELSE artifact

-----------------------------------------------------------------------------
(* The module of the token *)

\* rewriteDocIDModuleVersion.
DocID(id, from, mod) == IF id[1] = from THEN [id EXCEPT ![1] = mod.key] ELSE id

\* Mutant: what docsctl wrote for a placeholder stays as it is.
CanonicalIdsOnly(artifact, mod) ==
  LET mounted == Mounted(artifact, mod)
  IN  [mounted EXCEPT
         !.module = mod.key,
         !.docs = [i \in DOMAIN @ |-> [@[i] EXCEPT !.id = DocID(@, artifact.module, mod)]]]

\* canonicalizeDeployArtifact: the token names the module; the ids, and the
\* references below the base, are rewritten to it.
Canonical(artifact, mod) ==
  LET mounted == Mounted(artifact, mod)
      Rebased(refs) == [i \in DOMAIN refs |->
        DeployedRef(refs[i], artifact.module, mod.key, artifact.version)]
  IN  [mounted EXCEPT
         !.module = mod.key,
         !.docs = [i \in DOMAIN @ |->
           [@[i] EXCEPT !.id = DocID(@, artifact.module, mod), !.refs = Rebased(@)]],
         !.files = [at \in DOMAIN @ |-> [@[at] EXCEPT !.refs = Rebased(@)]]]

-----------------------------------------------------------------------------
(* The rows of a version *)

\* seenDocIDs: of the documents with one id, the first.
FirstOf(docs) ==
  FoldLeft(LAMBDA kept, d : IF \E k \in Range(kept) : k.id = d.id THEN kept ELSE Append(kept, d),
           <<>>, docs)

\* IngestArtifact: the pages of a key that no entry has are in no entry.
Rows(artifact) ==
  [module |-> artifact.module, version |-> artifact.version,
   keys |-> {e.key : e \in Range(artifact.entries)}, nav |-> artifact.nav,
   pages |-> FirstOf(artifact.docs), files |-> artifact.files]

PagesIn(rows) == Range(rows.pages)

-----------------------------------------------------------------------------
(* What is served *)

\* PageByRoute: one of the pages of the entry; and Page, by document id.
PageByRoute(rows, key) == {p \in PagesIn(rows) : p.key = key /\ key \in rows.keys}
PageById(rows, id) == {p \in PagesIn(rows) : p.id = id}

\* handleDocRoutes: the pages a path of the portal may show.
OpenDoc(rows, path) ==
  IF /\ Len(path) = 4
     /\ SubSeq(path, 1, 3) = <<Dir("docs"), Dir(rows.module), Dir(rows.version)>>
  THEN PageByRoute(rows, path[4][1]) ELSE {}

SiteFiles(rows, key) == {at[2] : at \in {a \in DOMAIN rows.files : a[1] = key}}

\* handleDocSiteFile, of a path below the base of an entry.
OpenSite(rows, key, path) ==
  LET base == SiteBase(rows.module, rows.version, key)
      Shown(file) ==
        IF Last(file)[2] \notin {"html", "htm", "css"} THEN rows.files[<<key, file>>]
        ELSE [rows.files[<<key, file>>] EXCEPT
                !.refs = [i \in DOMAIN @ |-> ServedRef(@[i], base)]]
  IN  {Shown(file) : file \in Fetched(SiteFiles(rows, key), path)}

\* A request for /api/docs/<module>/<version>/<key>/site/<path>.
OpenFile(rows, url) ==
  IF Len(url) >= 6 /\ IsPrefix(SiteBase(rows.module, rows.version, url[5][1]), url)
  THEN OpenSite(rows, url[5][1], Drop(url, 6)) ELSE {}

\* isSiteBuilderType: of the seven types that docsctl builds by a command, three.
Routed(type) == type \in {"vitepress", "vuepress", "fumadocs"}

\* docPagePath: where a hit on the page leads, the page of the entry or, in a
\* site, the route of the page; the frontend shows the site at that route.
Hit(page) ==
  IF /\ Routed(page.type)
     /\ page.route \notin {<<>>, <<Dir("")>>}
  THEN <<page.route>> ELSE <<>>

=============================================================================
