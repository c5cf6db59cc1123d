------------------------------ MODULE MCPortal ------------------------------
(***************************************************************************)
(* Instances of Portal for TLC: small repositories, each with the cases of *)
(* one builder.                                                            *)
(***************************************************************************)
EXTENDS Portal

CONSTANT r1

MCDotted == {".vitepress", ".git"}
MCSlug ==
  [n \in {"guide", "docs", "index", "README", "setup", "ops", "run", "run-2", "logo", "a b",
          "notes", "intro", "site", "web", "tools", "git", "style", "assets", "img", "CLAUDE",
          "drafts", "draft", "public", "app", "deep", "x", "umlaut"} |->
     IF n = "a b" THEN "a-b" ELSE n]
MCMountSlug == [MCSlug EXCEPT !["umlaut"] = ""]

Md(name) == <<name, "md">>
Png(name) == <<name, "png">>

Text(path, refs, terms, length) ==
  [path |-> path, refs |-> refs, heading |-> {}, terms |-> terms, joined |-> {},
   text |-> Prose(length), blank |-> FALSE, made |-> <<>>]
Bare(path) == Text(path, <<>>, {}, 0)
Made(path, refs, from) == [Text(path, refs, {"made"}, 2) EXCEPT !.made = from]

Repo(entries, files) ==
  [entries |-> entries, files |-> files, module |-> "m", package |-> "", version |-> "v1",
   ignore |-> <<>>, rewrite |-> TRUE]
Entry(key, type, from, output) ==
  [key |-> key, type |-> type, source |-> from, output |-> output]

Docs == <<Dir("docs")>>
In(dir, name) == dir \o <<name>>

\* A Markdown mount: links to and fro, one of them out of the mount and back,
\* pictures, a directory with a readme that is all code, a file of an agent, and
\* one whose name has no ASCII letter.
Mount ==
  LET ops == Docs \o <<Dir("ops")>>
  IN  Repo(<<Entry("guide", "markdown", Docs, <<>>)>>,
        <<Text(In(Docs, Md("CLAUDE")), <<>>, {"agent"}, 1),
          Text(In(Docs, Md("README")),
               <<Rel(0, <<Dir("ops"), Md("run")>>), Rel(0, <<Dir("img"), Png("logo")>>),
                 Rel(0, <<Dir("ops"), Md("README")>>), Rel(0, <<Md("draft")>>)>>,
               {"start", "run"}, 7),
          Text(In(Docs, Md("draft")), <<>>, {"draft"}, 1),
          Bare(Docs \o <<Dir("img"), Png("logo")>>),
          [Text(In(ops, Md("README")), <<Rel(1, <<Md("README")>>), Rel(2, <<Dir("docs"), Md("README")>>)>>,
                {"ops"}, 0) EXCEPT !.text.code = 6],
          Text(In(ops, Md("run")),
               <<Rel(0, <<Md("README")>>), Rel(1, <<Dir("img"), Png("logo")>>),
                 Rel(1, <<Md("README")>>)>>, {"run"}, 5),
          Text(In(Docs, Md("umlaut")), <<Rel(0, <<Md("README")>>)>>, {"run"}, 2)>>)

\* With rules of .modexignore.
MountIgnoring ==
  [Mount EXCEPT !.ignore = <<[glob |-> <<{Md("draft"), Md("run")}>>, negate |-> FALSE, dirOnly |-> FALSE],
                             [glob |-> <<{Dir("ops")}, {Md("run")}>>, negate |-> TRUE, dirOnly |-> FALSE],
                             [glob |-> <<{Dir("img")}>>, negate |-> FALSE, dirOnly |-> TRUE]>>]

\* Two mounts that ask for the same key, and pictures that are copied to the
\* same place; the second run.md gets the key that run-2.md has.
Mounts ==
  Repo(<<Entry("x", "markdown", Docs, <<>>), Entry("x", "markdown", <<Dir("notes")>>, <<>>)>>,
    <<Text(In(Docs, Md("intro")), <<Rel(0, <<Md("run-2")>>)>>, {"start"}, 3),
      Text(In(Docs, Md("run-2")), <<>>, {"run"}, 2),
      Text(In(Docs, Md("run")), <<Rel(0, <<Md("intro")>>)>>, {"run"}, 1),
      Bare(Docs \o <<Dir("img"), Png("logo")>>),
      Bare(<<Dir("img"), Png("logo")>>),
      Text(<<Dir("notes"), Md("intro")>>, <<Rel(0, <<Md("run")>>), Rel(1, <<Dir("img"), Png("logo")>>)>>,
           {"run"}, 4),
      Text(<<Dir("notes"), Md("run")>>, <<Rel(0, <<Md("intro")>>)>>, {"run"}, 1)>>)

\* A static site with absolute and relative references, beside one page.
Static ==
  LET web == <<Dir("web")>>
      css == <<Dir("assets"), <<"style", "css">>>>
  IN  Repo(<<Entry("site", "static", web, <<>>), Entry("intro", "markdown", <<Md("README")>>, <<>>)>>,
        <<Text(<<Md("README")>>, <<Rel(0, web \o <<Dir("img"), Png("logo")>>)>>, {"start"}, 6),
          Text(web \o css, <<Abs(<<Dir("img"), Png("logo")>>), Rel(1, <<Dir("img"), Png("logo")>>)>>, {}, 0),
          Bare(web \o <<Dir("img"), Png("logo")>>),
          Bare(In(web, Png("logo"))),
          Text(In(web, Index),
               <<Abs(css), Abs(<<Dir("tools"), <<"git", "html">>>>), Abs(<<Dir("tools")>>),
                 Rel(0, css), Abs(<<>>)>>, {"start"}, 3),
          Text(web \o <<Dir("tools"), <<"git", "html">>>>, <<Abs(css), Rel(1, <<Index>>)>>, {"git"}, 2),
          Text(web \o <<Dir("tools"), Index>>, <<Abs(css)>>, {"git"}, 2)>>)

\* Deployed as it is: the API puts what is absolute below the base.  (It takes
\* the first of two segments for another base when the second has a dot or is
\* "assets", "images" or "posts".)
StaticAsIs ==
  LET web == <<Dir("web")>>
  IN  [Repo(<<Entry("site", "static", web, <<>>)>>,
         <<Text(In(web, Index), <<Abs(<<<<"style", "css">>>>), Abs(<<Dir("tools")>>)>>, {"start"}, 3),
           Bare(In(web, <<"style", "css">>)),
           Text(web \o <<Dir("tools"), Index>>, <<Abs(<<<<"style", "css">>>>), Abs(<<>>)>>, {"git"}, 2)>>)
       EXCEPT !.rewrite = FALSE, !.version = "v2"]

\* A site that VitePress builds for the base it is given, into a directory
\* that the configuration does not name.
Built ==
  LET src == <<Dir("docs")>>
      out == src \o <<Dir(".vitepress"), Dir("dist")>>
      base == SiteBase("m", "v2", "app")
      css == <<Dir("assets"), <<"style", "css">>>>
  IN  [Repo(<<Entry("app", "vitepress", src, <<Dir("public")>>)>>,
        <<Made(out \o css, <<>>, <<>>),
          Made(In(out, Index), <<Abs(base \o css), Abs(css), Abs(base \o <<Dir("tools"), <<"git", "html">>>>)>>,
               In(src, Md("index"))),
          Made(out \o <<Dir("tools"), <<"git", "html">>>>, <<Abs(base \o css), Abs(base)>>,
               src \o <<Dir("tools"), Md("git")>>),
          Text(In(src, Md("index")), <<Rel(0, <<Dir("tools"), Md("git")>>)>>, {"start"}, 5),
          [Text(In(src, Md("notes")), <<>>, {}, 0) EXCEPT !.blank = TRUE],
          [Text(src \o <<Dir("tools"), Md("git")>>, <<>>, {"git"}, 4) EXCEPT !.heading = {"git"}]>>)
       EXCEPT !.version = "v2"]

\* A site that Docusaurus builds, with references relative to its files.
BuiltElsewhere ==
  LET src == <<Dir("docs")>>
      out == <<Dir("build")>>
      css == <<Dir("assets"), <<"style", "css">>>>
      base == SiteBase("m", "v2", "web")
  IN  [Repo(<<Entry("web", "docusaurus", src, <<Dir("public")>>)>>,
         <<Made(out \o css, <<>>, <<>>),
           Made(In(out, Index), <<Rel(0, css), Abs(base \o <<Dir("tools")>>)>>, In(src, Md("index"))),
           Made(out \o <<Dir("tools"), Index>>, <<Rel(1, css), Abs(base)>>, src \o <<Dir("tools"), Md("git")>>),
           Text(In(src, Md("index")), <<Rel(0, <<Dir("tools"), Md("git")>>)>>, {"start"}, 2),
           [Text(src \o <<Dir("tools"), Md("git")>>, <<>>, {"tools"}, 4)
              EXCEPT !.joined = {"git"}, !.text.code = 2]>>)
        EXCEPT !.version = "v2"]

MCRepos == <<Mount, MountIgnoring, Mounts, Static, StaticAsIs, Built, BuiltElsewhere>>

\* docsctl is not told the module.
MCUntoldRepos == <<[Mount EXCEPT !.module = ""], [Static EXCEPT !.module = ""]>>

\* The sites are deployed with the token of another module than the one
\* docsctl was told.
Module(key, mount) == [key |-> key, mount |-> mount, docType |-> ""]
MCModules ==
  [i \in DOMAIN MCRepos |->
     IF i > 3 THEN {Module("n", "full")} ELSE {Module("m", "full"), Module("n", "split")}]
MCUntoldModules == [i \in DOMAIN MCUntoldRepos |-> {Module("m", "full")}]
MCVersion == {"v1", "v2"}

MCReadDoc == [r \in Read |-> <<"m", "v1", "guide", <<>>>>]
MCRequests ==
  {[query |-> q, mode |-> "keyword", versions |-> {}, types |-> {}, fallback |-> FALSE, blind |-> TRUE] :
     q \in {<<>>, <<"run", "start">>}}
  \cup {[query |-> <<"git">>, mode |-> m, versions |-> {"v1", "v2"}, types |-> {"vitepress", "docusaurus", "markdown"},
         fallback |-> m = "hybrid", blind |-> b] : m \in {"semantic", "hybrid"}, b \in BOOLEAN}
MCAnswers == {<<>>, <<9, 2, -1, 2, 1>>}
MCChunkSettings == {[limit |-> l, overlap |-> o] : l \in {3, 5}, o \in {-1, 1, 4}}

=============================================================================
