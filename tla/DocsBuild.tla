----------------------------- MODULE DocsBuild -----------------------------
(***************************************************************************)
(* docsctl build (tools/docsctl/internal/docs): what a repository becomes  *)
(* as an artifact.                                                         *)
(*                                                                         *)
(* A file is its path, the references in it in order, the terms of its     *)
(* heading and of its text (and those that only show when blanks and       *)
(* punctuation are taken out), its text, and whether it is blank.  Of a    *)
(* text there are so much prose and so much in fenced code blocks.  A      *)
(* repository lists its files in the order of filepath.Walk, the build     *)
(* command's output included.  The artifact holds the entries, one         *)
(* document per page, the navigation (its folders left out) and the files  *)
(* of each entry, as a function of <<entry key, path>>.                    *)
(***************************************************************************)
EXTENDS SiteRefs

CONSTANTS
  Slug,     \* Slug[n]: the letters and digits of the name n, joined by dashes
  Dotted    \* the names that start with a dot

\* What is on both sides takes the value on the left: a later write wins.
Over(new, old) == new @@ old

-----------------------------------------------------------------------------
(* Metadata and .modexignore *)

\* LoadMetadata: DOCS_MODULE, or the name of the package, or a placeholder.
Metadata(repo) ==
  [module |-> IF repo.module # "" THEN repo.module
              ELSE IF repo.package # "" THEN repo.package ELSE "UnknownModule",
   version |-> IF repo.version # "" THEN repo.version ELSE "latest"]

\* ignorePatternRegexp: a pattern is a sequence of sets of segments.  Without
\* a slash it names a file or directory at any depth.
Names(rule, path) ==
  IF Len(rule.glob) = 1 THEN Last(path) \in rule.glob[1]
  ELSE Len(path) = Len(rule.glob) /\ \A i \in DOMAIN path : path[i] \in rule.glob[i]

MatchesRule(rule, path) ==
  \/ Names(rule, path)
  \/ /\ rule.dirOnly
     /\ \E n \in 1 .. Len(path) - 1 : Names(rule, SubSeq(path, 1, n))

\* pathWithinDirPattern: the pattern taken literally, without its wildcards.
WithinDirPattern(rule, path) ==
  IF Len(rule.glob) = 1 THEN \E i \in DOMAIN path : rule.glob[1] = {path[i]}
  ELSE /\ Len(path) > Len(rule.glob)
       /\ \A i \in DOMAIN rule.glob : rule.glob[i] = {path[i]}

\* Ignored: the last rule that applies decides.
Ignored(repo, path, isDir) ==
  LET deciding == {i \in DOMAIN repo.ignore :
        /\ repo.ignore[i].dirOnly /\ ~ isDir => WithinDirPattern(repo.ignore[i], path)
        /\ MatchesRule(repo.ignore[i], path)}
  IN  deciding # {} /\ ~ repo.ignore[Max(deciding)].negate

SkippedDirs ==
  {"node_modules", "vendor", "dist", "out", "target", "build"} \cup Dotted
AgentFiles == {"CLAUDE", "AGENTS", "GEMINI", "QWEN", "CURSOR", "COPILOT"}

\* isIndexableMarkdownFile, and the directories on the way from dir, which
\* itself is not asked.
Indexed(repo, dir, file) ==
  LET name == Last(file.path)
  IN  /\ name[2] \in {"md", "mdx"}
      /\ name[1] \notin Dotted
      /\ ~ (name[2] = "md" /\ name[1] \in AgentFiles)
      /\ ~ Ignored(repo, file.path, FALSE)
      /\ \A n \in Len(dir) + 1 .. Len(file.path) - 1 :
           LET on == SubSeq(file.path, 1, n)
           IN  Last(on)[1] \notin SkippedDirs /\ ~ Ignored(repo, on, TRUE)

Paths(repo) == {repo.files[i].path : i \in DOMAIN repo.files}
FileAt(repo, path) == CHOOSE f \in Range(repo.files) : f.path = path
Below(repo, dir) == SelectSeq(repo.files, LAMBDA f : IsStrictPrefix(dir, f.path))
IndexedBelow(repo, dir) ==
  SelectSeq(Below(repo, dir), LAMBDA f : Indexed(repo, dir, f))

-----------------------------------------------------------------------------
(* Keys and documents *)

ReadmeNames == {"README", "Readme", "readme", "INDEX", "Index", "index"}

\* slugKey of the prefix and the names of a path.
SlugKey(prefix, names) ==
  LET joined == FoldLeft(LAMBDA key, word : IF key = "" \/ word = "" THEN key \o word
                                            ELSE key \o "-" \o word,
                         "", <<prefix>> \o [i \in DOMAIN names |-> Slug[names[i][1]]])
  IN  IF joined = "" THEN "guide" ELSE joined

\* markdownEntryKey, without the number.
PageName(prefix, rel) ==
  LET Without(path, name) ==
        IF Len(path) > 1 /\ Last(path)[1] = name THEN Front(path) ELSE path
      bare == Without(Without(Without(rel, "index"), "README"), "readme")
  IN  SlugKey(prefix, IF Len(bare) = 1 /\ bare[1][1] \in ReadmeNames THEN <<>> ELSE bare)

\* The number that keeps it apart from the keys that were asked for before.
Numbered(name, used) ==
  LET n == Len(SelectSeq(used, LAMBDA key : key = name)) + 1
  IN  IF n > 1 THEN name \o "-" \o ToString(n) ELSE name

Taken(used, name) == Append(used, name)

\* The first pass of buildMarkdownDirectory: the pages of a mount, with keys.
KeyedPages(repo, entry, used) ==
  FoldLeft(LAMBDA acc, f :
             LET name == PageName(entry.key, Drop(f.path, Len(entry.source)))
             IN  [used |-> Taken(acc.used, name),
                  pages |-> Append(acc.pages, [file |-> f, key |-> Numbered(name, acc.used)])],
           [used |-> used, pages |-> <<>>], IndexedBelow(repo, entry.source))

Prose(n) == [prose |-> n, code |-> 0]
TextLength(text) == text.prose + text.code

\* recordFor, and the records of buildSiteMarkdownRecords.  The last part of
\* the document id is the key and, for a page of a site, its route.
Document(repo, entry, route, title, file, refs) ==
  LET md == Metadata(repo)
  IN  [id |-> <<md.module, md.version, entry.key, route>>, key |-> entry.key,
       type |-> entry.type, route |-> route, source |-> file.path, title |-> title,
       terms |-> file.terms, joined |-> file.joined, text |-> file.text, refs |-> refs]

Served(file, refs) == [source |-> file.path, refs |-> refs]

-----------------------------------------------------------------------------
(* Markdown entries *)

\* The path a relative reference means; the repository is not left.
Resolve(path, ref) == SubSeq(path, 1, Len(path) - 1 - ref.up) \o ref.path

\* isBundleableLocalResource, and that the file exists.
IsResource(repo, file, ref) ==
  /\ ref.kind = "rel" /\ ref.path # <<>> /\ ref.up < Len(file.path)
  /\ Last(ref.path)[2] \notin {"md", "mdx"}
  /\ Resolve(file.path, ref) \in Paths(repo)

\* bundleLocalResource: it is copied below the entry, its leading ".."
\* dropped (outputResourcePath), and the reference leads there.
ResourceRef(repo, file, ref, base) ==
  IF IsResource(repo, file, ref) THEN Abs(base \o ref.path) ELSE ref

\* bundleMarkdownResources: the copies, of two with one destination the later.
Resources(repo, file, key) ==
  LET copied == SelectSeq(file.refs, LAMBDA ref : IsResource(repo, file, ref))
  IN  [at \in {<<key, copied[i].path>> : i \in DOMAIN copied} |->
         LET i == Max({j \in DOMAIN copied : <<key, copied[j].path>> = at})
         IN  Served(FileAt(repo, Resolve(file.path, copied[i])), <<>>)]

\* internalDocRoute: a link to another page of the mount.
DocRef(md, pages, entry, file, ref) ==
  LET named == {i \in DOMAIN pages : pages[i].file.path = Resolve(file.path, ref)}
  IN  IF /\ ref.kind = "rel" /\ ref.path # <<>> /\ Last(ref.path)[2] = "md"
         /\ ref.up < Len(file.path) - Len(entry.source)
         /\ named # {}
      THEN Abs(<<Dir("docs"), Dir(md.module), Dir(md.version),
                 Dir(pages[CHOOSE i \in named : TRUE].key)>>)
      ELSE ref

EachRef(file, Rewrite(_)) == [i \in DOMAIN file.refs |-> Rewrite(file.refs[i])]

\* What one page adds: buildMarkdown for a single file, with no mount around
\* it, and the second pass of buildMarkdownDirectory.
MarkdownPage(repo, mount, pages, page, title) ==
  LET md == Metadata(repo)
      base == SiteBase(md.module, md.version, page.key)
      refs == EachRef(page.file, LAMBDA ref :
                DocRef(md, pages, mount, page.file, ResourceRef(repo, page.file, ref, base)))
      entry == [key |-> page.key, type |-> "markdown"]
  IN  [docs |-> <<Document(repo, entry, <<>>, title, page.file, refs)>>,
       nav |-> <<page.key>>, entries |-> <<entry>>,
       files |-> Over((<<page.key, <<Index>>>> :> Served(page.file, refs)),
                      Resources(repo, page.file, page.key))]

Nothing == [docs |-> <<>>, nav |-> <<>>, entries |-> <<>>, files |-> <<>>]

Joined(a, b) ==
  [docs |-> a.docs \o b.docs, nav |-> a.nav \o b.nav, entries |-> a.entries \o b.entries,
   files |-> Over(b.files, a.files)]

\* The result of an entry is a set: empty when the build fails.
BuildMarkdown(repo, entry, used) ==
  IF entry.source \in Paths(repo)
  THEN LET page == [file |-> FileAt(repo, entry.source), key |-> entry.key]
       IN  {[used |-> Taken(used, entry.key),
             out |-> MarkdownPage(repo, entry, <<>>, page, {entry.key})]}
  ELSE LET keyed == KeyedPages(repo, entry, used)
           One(page) == MarkdownPage(repo, entry, keyed.pages, page, {Last(page.file.path)[1]})
       IN  IF keyed.pages = <<>> THEN {}
           ELSE {[used |-> keyed.used,
                  out |-> FoldLeft(LAMBDA out, page : Joined(out, One(page)),
                                   Nothing, keyed.pages)]}

-----------------------------------------------------------------------------
(* Static sites, and those a command builds *)

\* The files below dir, as files of the entry.
SiteOf(repo, entry, dir) ==
  LET md == Metadata(repo)
      base == SiteBase(md.module, md.version, entry.key)
      files == Range(Below(repo, dir))
      site == {Drop(f.path, Len(dir)) : f \in files}
      Built(f, ref) == IF repo.rewrite
                       THEN BuiltRef(ref, entry.type, site, Drop(f.path, Len(dir)), base)
                       ELSE ref
  IN  [at \in {<<entry.key, rel>> : rel \in site} |->
         LET f == CHOOSE g \in files : Drop(g.path, Len(dir)) = at[2]
         IN  Served(f, EachRef(f, LAMBDA ref : Built(f, ref)))]

\* The entry as a whole, with the text of its pages, or with a label.
WholeEntry(repo, entry, pages) ==
  LET terms == UNION {f.terms : f \in pages}
  IN  Document(repo, entry, <<>>, {entry.key},
               [path |-> entry.source, terms |-> IF terms = {} THEN {entry.key} ELSE terms,
                joined |-> UNION {f.joined : f \in pages},
                text |-> Prose(1 + MapThenSumSet(LAMBDA f : TextLength(f.text), pages))], <<>>)

SiteEntry(entry, docs, files, used) ==
  [used |-> Taken(used, entry.key),
   out |-> [docs |-> docs, nav |-> <<entry.key>>,
            entries |-> <<[key |-> entry.key, type |-> entry.type]>>, files |-> files]]

BuildStatic(repo, entry, used) ==
  LET pages == {f \in Range(Below(repo, entry.source)) : Last(f.path)[2] = "html"}
  IN  IF Below(repo, entry.source) = <<>> THEN {}
      ELSE {SiteEntry(entry, <<WholeEntry(repo, entry, pages)>>,
                      SiteOf(repo, entry, entry.source), used)}

\* outputCandidates: where the tools put their output, in the order tried.
OutputCandidates(entry) ==
  LET At(names) == <<entry.source \o names>>
      dist == <<Dir("dist")>>
      build == <<Dir("build")>>
      own(tool) == <<Dir(tool), Dir("dist")>>
  IN  CASE entry.type = "vitepress" ->
             At(own(".vitepress")) \o At(dist) \o <<own(".vitepress"), dist>>
        [] entry.type = "vuepress" ->
             At(own(".vuepress")) \o At(dist) \o <<own(".vuepress"), dist>>
        [] entry.type = "docusaurus" -> <<build>> \o At(build) \o <<dist>>
        [] entry.type = "mkdocs" -> <<<<Dir("site")>>>> \o At(<<Dir("site")>>)
        [] OTHER -> <<dist>> \o At(dist) \o <<build>> \o At(build) \o <<<<Dir("out")>>>>

\* findSiteOutputDir: the directory of the first index.html, if there is one.
SiteOutputDir(repo, dir) ==
  LET pages == SelectSeq(Below(repo, dir), LAMBDA f :
                 /\ Last(f.path) = Index
                 /\ \A n \in Len(dir) + 1 .. Len(f.path) - 1 : f.path[n][1] \notin SkippedDirs)
  IN  IF Append(dir, Index) \in Paths(repo) \/ pages = <<>> THEN dir
      ELSE Front(pages[1].path)

\* resolveBuildOutputPath: the output that is configured, or the first
\* candidate that exists.
BuildOutput(repo, entry) ==
  LET found == SelectSeq(OutputCandidates(entry), LAMBDA dir : Below(repo, dir) # <<>>)
  IN  IF Below(repo, entry.output) # <<>> THEN {entry.output}
      ELSE {SiteOutputDir(repo, found[i]) : i \in 1 .. Min({1, Len(found)})}

\* routeForMarkdown: a route that ends in a slash ends in an empty segment.
RouteFor(rel) ==
  IF Last(rel) = <<"index", "md">> THEN Append(Front(rel), Dir(""))
  ELSE IF Last(rel)[2] = "md" THEN Append(Front(rel), Dir(Last(rel)[1])) ELSE rel

\* buildSiteMarkdownRecords: search sees the sources, a page per file.
SiteRecords(repo, entry) ==
  LET pages == SelectSeq(IndexedBelow(repo, entry.source), LAMBDA f : ~ f.blank)
      Title(f) == IF f.heading = {} THEN {entry.key} ELSE f.heading
  IN  [i \in DOMAIN pages |->
         Document(repo, entry, RouteFor(Drop(pages[i].path, Len(entry.source))),
                  Title(pages[i]), pages[i], <<>>)]

\* buildCommandEntry and what Build makes of it.
BuildCommand(repo, entry, used) ==
  LET records == SiteRecords(repo, entry)
  IN  {SiteEntry(entry, IF records = <<>> THEN <<WholeEntry(repo, entry, {})>> ELSE records,
                 SiteOf(repo, entry, dir), used) : dir \in BuildOutput(repo, entry)}

-----------------------------------------------------------------------------
\* Build: the entries in turn; the set of artifacts is empty after an error.
BuildEntry(repo, entry, used) ==
  CASE entry.type = "markdown" -> BuildMarkdown(repo, entry, used)
    [] entry.type = "static" -> BuildStatic(repo, entry, used)
    [] OTHER -> BuildCommand(repo, entry, used)

Build(repo) ==
  LET Step(outcomes, entry) ==
        UNION {{[used |-> b.used, out |-> Joined(o.out, b.out)] :
                  b \in BuildEntry(repo, entry, o.used)} : o \in outcomes}
  IN  {o.out @@ Metadata(repo) :
         o \in FoldLeft(Step, {[used |-> <<>>, out |-> Nothing]}, repo.entries)}

=============================================================================
