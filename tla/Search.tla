------------------------------- MODULE Search -------------------------------
(***************************************************************************)
(* POST /api/search (search/search.go, Service.Search) over the pages that *)
(* are served: which pages match, how they are ranked, what a reranking    *)
(* provider may do to the order, which slice is answered; and how the text *)
(* of a page is cut into chunks for its embeddings.                        *)
(*                                                                         *)
(* A query is a sequence of terms (queryTokens); scores are in units of    *)
(* 1/(20 n) for n terms, what the vectors say of a page is given.          *)
(***************************************************************************)
EXTENDS Publishing

CONSTANT MaxChunks    \* maxEmbeddingChunksPerDoc

-----------------------------------------------------------------------------
(* Candidates *)

\* defaultVersionForModule: the version that is marked, else the one the
\* module names, else the first that is not archived.
DefaultVersionOf(module) ==
  LET live == SelectSeq(module.versions, LAMBDA v : ~ v.archived)
      marked == SelectSeq(live, LAMBDA v : v.isDefault)
  IN  CASE marked # <<>> -> marked[1].version
        [] marked = <<>> /\ module.default # "" -> module.default
        [] marked = <<>> /\ module.default = "" /\ live # <<>> -> live[1].version
        [] OTHER -> ""

\* inValue
Allowed(value, allowed) == allowed = {} \/ value \in allowed

\* matchFilters, and handleSearch: without a version only the default one.
\* served: the rows of the versions, one after the other.
CandidatesFor(request, module, served) ==
  LET default == DefaultVersionOf(module)
      Wanted(version) == /\ Allowed(version, request.versions)
                         /\ request.versions = {} => default \in {"", version}
      pages == FlattenSeq([i \in DOMAIN served |-> [j \in DOMAIN served[i].pages |->
                 [version |-> served[i].version, page |-> served[i].pages[j]]]])
  IN  SelectSeq(pages, LAMBDA c : Wanted(c.version) /\ Allowed(c.page.type, request.types))

-----------------------------------------------------------------------------
(* Ranking *)

Count(query, terms) == Cardinality({i \in DOMAIN query : query[i] \in terms})

\* keywordScore: a term of the title counts four times, and a little less than
\* once what only shows when blanks and punctuation are taken out.  The terms
\* are those of the title, the description, the tags and the text, its code
\* blocks included.
KeywordScore(query, page) ==
  LET words == page.title \cup page.terms
  IN  IF query = <<>> THEN 20
      ELSE 15 * Count(query, page.title) + 5 * Count(query, words)
             + 4 * Count(query, page.joined \ words)

\* Service.Search: hybrid is six to four, and keywords alone when the vectors
\* are those of the fallback provider.
Score(request, near, candidate) ==
  LET keyword == KeywordScore(request.query, candidate.page)
      semantic == IF request.query = <<>> THEN 0 ELSE near[candidate.page.id]
  IN  CASE request.mode = "keyword" -> keyword
        [] request.mode = "semantic" -> semantic
        [] OTHER -> IF request.fallback THEN keyword ELSE 6 * keyword + 4 * semantic

\* With a query, what has no score is left out.
Scored(request, near, candidates) ==
  SelectSeq(candidates, LAMBDA c : request.query = <<>> \/ Score(request, near, c) > 0)

\* One of the orders sort.Slice may leave.
Ranked(request, near, candidates) ==
  SortSeq(Scored(request, near, candidates),
          LAMBDA a, b : Score(request, near, a) > Score(request, near, b))

\* Mutant: what the provider names is taken as it comes.
RerankedTwice(query, results, answer, topK) ==
  LET top == IF topK <= 0 \/ topK > Len(results) THEN Len(results) ELSE topK
      named == SelectSeq(answer, LAMBDA i : i \in 1 .. top)
      others == SelectSeq([i \in 1 .. top |-> i], LAMBDA i : i \notin Range(named))
      order == named \o others \o [i \in 1 .. Len(results) - top |-> top + i]
  IN  IF query = <<>> \/ Len(results) < 2 \/ answer = <<>> THEN results
      ELSE [i \in DOMAIN order |-> results[order[i]]]

\* rerank: the provider is asked about the best topK results.  It may name
\* them twice, name others, leave some out; no answer leaves the order.
Reranked(query, results, answer, topK) ==
  LET top == IF topK <= 0 \/ topK > Len(results) THEN Len(results) ELSE topK
      named == FoldLeft(LAMBDA seen, i : IF i \in 1 .. top /\ i \notin Range(seen)
                                         THEN Append(seen, i) ELSE seen, <<>>, answer)
      others == SelectSeq([i \in 1 .. top |-> i], LAMBDA i : i \notin Range(named))
      order == named \o others \o [i \in 1 .. Len(results) - top |-> top + i]
  IN  IF query = <<>> \/ Len(results) < 2 \/ answer = <<>> THEN results
      ELSE [i \in DOMAIN order |-> results[order[i]]]

\* A slice of the results, after Page and PageSize have been corrected.
Slice(results, page, size) ==
  LET start == Min({(page - 1) * size, Len(results)})
  IN  SubSeq(results, start + 1, Min({start + size, Len(results)}))

\* Search: the results from which a page is answered.
Results(request, module, served, near, answer, topK) ==
  Reranked(request.query,
           Ranked(request, near, CandidatesFor(request, module, served)), answer, topK)

-----------------------------------------------------------------------------
(* Chunks *)

\* plainText: what is in fenced code blocks is dropped (and so is markup, of
\* which a text has none here).
PlainText(text) == text.prose

\* Mutant: no room is left for the prefix that is put in front.
ChunkShapeFull(prefix, limit, overlap) ==
  LET shared == IF overlap < 0 THEN 0 ELSE IF overlap >= limit THEN limit \div 5 ELSE overlap
  IN  [head |-> Min({prefix, limit \div 4}), body |-> limit,
       step |-> IF limit > shared THEN limit - shared ELSE limit]

\* The first steps of embeddingChunks: how much of the prefix (the title and
\* the description), of the text, and how large a step.
ChunkShape(prefix, limit, overlap) ==
  LET shared == IF overlap < 0 THEN 0 ELSE IF overlap >= limit THEN limit \div 5 ELSE overlap
      head == Min({prefix, limit \div 4})
      fits == head > 0 /\ limit - head - 1 > 0
      body == IF fits THEN limit - head - 1 ELSE limit
  IN  [head |-> IF fits THEN head ELSE 0, body |-> body,
       step |-> IF body > shared THEN body - shared ELSE body]

\* embeddingChunks: the part of the plain text that each chunk holds, from - to
\* (the prefix is the text when there is no other): a window that moves by a step
\* until it reaches the end, cut where the prefix and it exceed the limit
\* (truncateEmbeddingInput).
Chunks(length, prefix, limit, overlap) ==
  LET shape == ChunkShape(prefix, limit, overlap)
      text == IF length = 0 THEN prefix ELSE length
      needed == IF text <= shape.body THEN 1
                ELSE 1 + (text - shape.body + shape.step - 1) \div shape.step
      kept == IF shape.head = 0 THEN limit ELSE limit - shape.head - 1
      Start(n) == (n - 1) * shape.step
  IN  [n \in 1 .. IF text = 0 THEN 0 ELSE Min({needed, MaxChunks}) |->
         <<Start(n) + 1, Min({Start(n) + shape.body, Start(n) + kept, text})>>]

\* What embeddingChunks cuts is the plain text of a page.
EmbeddingChunks(content, prefix, limit, overlap) ==
  Chunks(PlainText(content), prefix, limit, overlap)

=============================================================================
