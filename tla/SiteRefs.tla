------------------------------ MODULE SiteRefs ------------------------------
(***************************************************************************)
(* How a reference inside a static site survives the journey from the      *)
(* repository to the reader: docsctl rewrites it when it builds the        *)
(* artifact (tools/docsctl/internal/docs/build.go), the API when the       *)
(* artifact is deployed (api/deploy_analytics.go) and once more when the   *)
(* file is served (api/server.go).                                         *)
(*                                                                         *)
(* A segment of a path is a pair of a name and an extension; a path is a   *)
(* sequence of segments; a site is a set of paths.  A reference is         *)
(* absolute ("/a/b.css") or relative ("../b.css").  Queries and fragments  *)
(* travel along unchanged and are left out, as are references to other     *)
(* hosts, which no step touches.                                           *)
(***************************************************************************)
EXTENDS Integers, Sequences, FiniteSets, SequencesExt

Dir(name) == <<name, "">>
Index == <<"index", "html">>
Abs(path) == [kind |-> "abs", up |-> 0, path |-> path]
Rel(up, path) == [kind |-> "rel", up |-> up, path |-> path]

Drop(path, n) == SubSeq(path, n + 1, Len(path))

\* The URL below which the files of an entry are served, and the part of it
\* that names the module and the version.
VersionBase(module, version) == <<Dir("api"), Dir("docs"), Dir(module), Dir(version)>>
SiteBase(module, version, entry) ==
  VersionBase(module, version) \o <<Dir(entry), Dir("site")>>

-----------------------------------------------------------------------------
(* docsctl *)

\* existingSiteTargetRel: a file, or the index of a directory.
Existing(site, path) == {p \in {path, Append(path, Index)} : p \in site}

\* resolveSiteTargetRel: the file a path means.  When leading segments may be
\* stripped they are the base of another deployment of the site.
SiteTarget(site, path, strip) ==
  LET clean == IF path = <<>> THEN <<Index>> ELSE path
      found == {n \in 0 .. (IF strip THEN Len(clean) - 1 ELSE 0) :
                  Existing(site, Drop(clean, n)) # {}}
  IN  IF found = {} \/ \E i \in DOMAIN path : path[i] = Dir("..")
      THEN {}
      ELSE Existing(site, Drop(clean, Min(found)))

\* rewriteRootRef: an absolute reference to a file of the site is put below
\* the base of the entry.
RootRef(ref, site, base) ==
  LET target == SiteTarget(site, ref.path, TRUE)
  IN  IF ref.kind # "abs" \/ IsPrefix(base, ref.path) \/ target = {}
      THEN ref
      ELSE Abs(base \o IF ref.path = <<>> THEN <<>> ELSE CHOOSE t \in target : TRUE)

\* rewriteBaseRefToRelative: one below the base becomes relative to the file.
RelativeRef(ref, site, file, base) ==
  LET target == SiteTarget(site, Drop(ref.path, Len(base)), FALSE)
  IN  IF ref.kind # "abs" \/ ~ IsPrefix(base, ref.path) \/ target = {}
      THEN ref
      ELSE LET to == CHOOSE t \in target : TRUE
               from == Front(file)
               shared == Max({n \in 0 .. Len(from) :
                                n <= Len(to) /\ SubSeq(from, 1, n) = SubSeq(to, 1, n)})
           IN  Rel(Len(from) - shared, Drop(to, shared))

\* rewriteStaticSiteBase, rewriteStaticSiteBaseToRelative: which files are
\* rewritten, and that only sites that a command has built become relative.
BuiltRef(ref, type, site, file, base) ==
  IF Last(file)[2] \notin {"html", "htm", "css", "json", "webmanifest"} THEN ref
  ELSE IF type = "static" THEN RootRef(ref, site, base)
  ELSE RelativeRef(RootRef(ref, site, base), site, file, base)

-----------------------------------------------------------------------------
(* The API *)

\* rewriteDeployAssetBaseString: docsctl may have built the artifact for a
\* placeholder; the token has named the module since.
DeployedRef(ref, from, to, version) ==
  IF from # "" /\ ref.kind = "abs" /\ IsPrefix(VersionBase(from, version), ref.path)
  THEN Abs(VersionBase(to, version) \o Drop(ref.path, 4))
  ELSE ref

\* rewriteServedSiteRootURL: what still is absolute goes below the base, less
\* a first segment that looks like the base of another deployment.
ServedRef(ref, base) ==
  LET path == ref.path
      legacy == Len(path) >= 2
                /\ \/ path[1] = Dir("internal-tools")
                   \/ path[2] \in {Dir("assets"), Dir("images"), Dir("posts")}
                   \/ path[2][2] # ""
  IN  IF \/ ref.kind # "abs"
         \/ IsPrefix(<<Dir("api"), Dir("docs")>>, path)
         \/ path # <<>> /\ path[1] \in {Dir("_next"), Dir("brand")}
      THEN ref
      ELSE Abs(base \o IF legacy THEN Tail(path) ELSE path)

\* siteFileCandidates: the files a request may mean, in the order they are
\* tried.
Candidates(path) ==
  LET clean == IF path = <<>> THEN <<Index>> ELSE path
      named(ext) == Append(Front(clean), <<Last(clean)[1], ext>>)
  IN  CASE Last(clean)[2] = "" -> <<clean, named("html"), Append(clean, Index), <<Index>>>>
        [] Last(clean)[2] = "md" -> <<clean, named("html")>>
        [] OTHER -> <<clean>>

\* handleDocSiteFile: the file that is served for a path below the base.
Fetched(site, path) ==
  LET cs == Candidates(path)
      found == {i \in DOMAIN cs : cs[i] \in site}
  IN  IF found = {} THEN {} ELSE {cs[Min(found)]}

\* What a browser makes of a reference in the page at this URL.
Followed(url, ref) ==
  IF ref.kind = "abs" THEN ref.path
  ELSE SubSeq(url, 1, Len(url) - 1 - ref.up) \o ref.path

=============================================================================
