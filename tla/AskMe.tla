------------------------------- MODULE AskMe --------------------------------
(***************************************************************************)
(* POST /ask: AskMeService over ProductionGroundedQueryEngine, beside the  *)
(* indexing runs, deletions and admin requests of module Indexing.         *)
(*                                                                         *)
(* The handler is synchronous and runs in a pool thread.  It reads the     *)
(* database twice, in two transactions (the embeddings, then the chunks),  *)
(* and works on what it read from there on: fusion, reranking, evidence,   *)
(* generation and the enforcement of the citations.  What a user may see   *)
(* is decided by the filter of these two reads and nowhere else.           *)
(*                                                                         *)
(* A chunk's relevance is not modelled: a search may rank the rows it read *)
(* in any order, the lexical one may find any part of them.  The answer is *)
(* the set of citation numbers the model put in its text.                  *)
(***************************************************************************)
EXTENDS Indexing, Sequences, Functions

CONSTANTS
  Askers,         \* pool threads that may be serving POST /ask
  AskFailures,    \* the calls of the query path that may fail
  MaxAttempts,    \* GeminiRetryPolicy.max_attempts
  Reranks,        \* is a reranker configured?
  SearchTopK,     \* semantic_top_k and lexical_top_k
  HybridTopK,
  RerankTopK,
  RrfK,
  BlockSize,      \* characters of a chunk's rendered evidence block
  EvidenceMax     \* evidence_max_characters

AskFailurePoints == {"embed", "semantic", "lexical", "rerank", "generate"}

ASSUME AskMeAssumption ==
  /\ AskFailures \subseteq AskFailurePoints
  /\ MaxAttempts \in Nat \ {0}
  /\ Reranks \in BOOLEAN
  /\ {SearchTopK, HybridTopK, RerankTopK, RrfK, EvidenceMax} \subseteq Nat \ {0}
  /\ BlockSize \in [Chunks -> Nat \ {0}]

VARIABLE ask      \* per thread, the question it is answering

askVars == <<vars, ask>>

\* `hits' is the ranking the call works on: fused, then reranked, then the
\* evidence.  `gone' is a history: the documents removed before the question.
NoAsk == [pc |-> "idle", by |-> NoUser, tries |-> 0, semantic |-> <<>>,
          lexical |-> <<>>, hits |-> <<>>, cited |-> {}, answer |-> {}, gone |-> {}]

AskInit ==
  /\ IndexingInit
  /\ ask = [a \in Askers |-> NoAsk]

AskGoto(a, pc) == ask' = [ask EXCEPT ![a].pc = pc]

\* NoRelevantEvidenceError and QueryCompositionError become AskMeGroundingError
\* (502), every other exception AskMeUnavailableError (503).
NoEvidence(a)  == AskGoto(a, "grounding")
Unavailable(a) == AskGoto(a, "unavailable")

AskMayFail(point) == point \in AskFailures

-----------------------------------------------------------------------------
(* Providers.                                                              *)

\* A retry loop that starts over when its attempts are used up.
CallFailsOver(a, point) ==
  /\ AskMayFail(point)
  /\ \/ Unavailable(a)
     \/ ask' = [ask EXCEPT ![a].tries = IF @ + 1 < MaxAttempts THEN @ + 1 ELSE 0]

\* A loop that makes one call too many.
CallFailsOnceMore(a, point) ==
  /\ AskMayFail(point)
  /\ \/ Unavailable(a)
     \/ IF ask[a].tries + 1 <= MaxAttempts
          THEN ask' = [ask EXCEPT ![a].tries = @ + 1]
          ELSE Unavailable(a)

\* call_with_gemini_retries, a call that raises: a permanent failure ends the
\* question, a transient one is repeated up to max_attempts calls in all.
CallFails(a, point) ==
  /\ AskMayFail(point)
  /\ \/ Unavailable(a)
     \/ IF ask[a].tries + 1 < MaxAttempts
          THEN ask' = [ask EXCEPT ![a].tries = @ + 1]
          ELSE Unavailable(a)

-----------------------------------------------------------------------------
(* Rankings.                                                               *)

\* The rankings of S cut at k: k of its members in some order, or all of them
\* when there are fewer.
Rankings(S, k) ==
  {r \in UNION {Injection(1..n, S) : n \in 0..k} : Len(r) = k \/ Range(r) = S}

Ranks(ranking) == 1..Len(ranking)
RankOf(ranking, c) == CHOOSE i \in Ranks(ranking) : ranking[i] = c

\* The prefix of at most k.
Top(ranking, k) == SubSeq(ranking, 1, IF k < Len(ranking) THEN k ELSE Len(ranking))

\* A reciprocal rank as a fraction; what was not found contributes nothing.
Reciprocal(ranking, c) ==
  IF c \in Range(ranking) THEN <<1, RrfK + RankOf(ranking, c)>> ELSE <<0, 1>>

FractionSum(x, y) == <<x[1] * y[2] + y[1] * x[2], x[2] * y[2]>>
Exceeds(x, y) == x[1] * y[2] > y[1] * x[2]

\* A score that counts only the better of the two ranks.
BestRankScore(semantic, lexical, c) ==
  LET s == Reciprocal(semantic, c)
      l == Reciprocal(lexical, c) IN
  IF Exceeds(s, l) THEN s ELSE l

\* reciprocal_rank_fusion: 1 / (rrf_k + rank), summed over the two rankings.
RrfScore(semantic, lexical, c) ==
  FractionSum(Reciprocal(semantic, c), Reciprocal(lexical, c))

\* A ranking, cut or whole, of what the two searches found is by score; equal
\* scores are ordered by chunk id, which is any order here.
ByScore(ranking, semantic, lexical) ==
  \A i \in Ranks(ranking), c \in Range(semantic) \cup Range(lexical) :
    Exceeds(RrfScore(semantic, lexical, c), RrfScore(semantic, lexical, ranking[i]))
      => \E j \in 1..(i - 1) : ranking[j] = c

-----------------------------------------------------------------------------
(* The steps of a question.                                                *)

\* POST /ask, past the rate limit.  Without a database there is no query
\* engine and the service answers unavailable.
AskRequest(a, p) ==
  /\ ask[a].pc = "idle"
  /\ LoopIsFree
  /\ ask' = [ask EXCEPT ![a] =
       [NoAsk EXCEPT !.pc   = IF durable THEN "embed" ELSE "unavailable",
                     !.by   = p,
                     !.gone = {d \in Docs : catalog[d].status = "removed"}]]

\* _embed_query.
EmbedQuery(a) ==
  /\ ask[a].pc = "embed"
  /\ \/ ask' = [ask EXCEPT ![a].pc = "semantic", ![a].tries = 0]
     \/ CallFails(a, "embed")

\* _filtered_chunk_statement without its last condition.
AnyOwnersChunks(a) == {c \in chunkRows : a \in Askers}

\* _retrieval_filters and _filtered_chunk_statement: the owner column of the
\* chunk row, and nothing else, when there is a principal.
VisibleChunks(a) ==
  {c \in chunkRows : ask[a].by = NoUser \/ chunkOwner[c[1]] = ask[a].by}

\* vector_search: the visible embeddings, joined to their chunks, best first.
SemanticSearch(a) ==
  LET rows == VisibleChunks(a) \cap embeddingRows IN
  /\ ask[a].pc = "semantic"
  /\ \/ \E ranking \in Rankings(rows, SearchTopK) :
          ask' = [ask EXCEPT ![a].pc = "lexical", ![a].semantic = ranking]
     \/ AskMayFail("semantic") /\ Unavailable(a)

\* lexical_search: the visible chunks that score above zero, best first.
LexicalSearch(a) ==
  /\ ask[a].pc = "lexical"
  /\ \/ \E matching \in SUBSET VisibleChunks(a) :
          \E ranking \in Rankings(matching, SearchTopK) :
            ask' = [ask EXCEPT ![a].pc = "fuse", ![a].lexical = ranking]
     \/ AskMayFail("lexical") /\ Unavailable(a)

\* The two empty results, then _fuse_results.
FuseResults(a) ==
  LET semantic == ask[a].semantic
      lexical  == ask[a].lexical
      found    == Range(semantic) \cup Range(lexical) IN
  /\ ask[a].pc = "fuse"
  /\ IF found = {}
       THEN NoEvidence(a)
       ELSE \E fused \in Rankings(found, HybridTopK) :
              /\ ByScore(fused, semantic, lexical)
              /\ ask' = [ask EXCEPT ![a].pc = "rerank", ![a].hits = fused,
                                    ![a].semantic = <<>>, ![a].lexical = <<>>]

\* rerank_hybrid_results, any scores; passthrough_rerank_hybrid_results when
\* no reranker is configured.
Rerank(a) ==
  LET fused == ask[a].hits IN
  /\ ask[a].pc = "rerank"
  /\ \/ /\ Reranks
        /\ \E ranking \in Rankings(Range(fused), RerankTopK) :
             ask' = [ask EXCEPT ![a].pc = "evidence", ![a].hits = ranking]
     \/ /\ ~Reranks
        /\ ask' = [ask EXCEPT ![a].pc = "evidence", ![a].hits = Top(fused, RerankTopK)]
     \/ Reranks /\ AskMayFail("rerank") /\ Unavailable(a)

\* Characters of the first n blocks, joined by blank lines.
Rendered(ranking, n) ==
  SumFunction([i \in 1..n |-> BlockSize[ranking[i]]]) + 2 * (n - 1)

\* build_evidence_context: the longest prefix within the budget; a first block
\* over the budget is an EvidenceContextError.
BuildEvidence(a) ==
  LET ranked == ask[a].hits
      fits   == {n \in Ranks(ranked) : Rendered(ranked, n) <= EvidenceMax} IN
  /\ ask[a].pc = "evidence"
  /\ IF fits = {}
       THEN Unavailable(a)
       ELSE \E n \in fits :
              /\ \A m \in fits : m <= n
              /\ ask' = [ask EXCEPT ![a].pc = "generate", ![a].hits = Top(ranked, n)]

\* _generate_answer: the model may cite any number, or none.
Generate(a) ==
  /\ ask[a].pc = "generate"
  /\ \/ \E cited \in SUBSET (1..(RerankTopK + 1)) :
          ask' = [ask EXCEPT ![a].pc = "cite", ![a].tries = 0, ![a].cited = cited]
     \/ CallFails(a, "generate")

\* Enforcement that drops the markers it cannot resolve.
DropUnsupported(a) ==
  LET evidence == ask[a].hits IN
  /\ ask[a].pc = "cite"
  /\ ask' = [ask EXCEPT ![a].pc = "answered",
                        ![a].answer = {evidence[n] : n \in ask[a].cited \cap Ranks(evidence)}]

\* _enforce_citations: an answer without markers, or with one that no source
\* has, is a CitationEnforcementError; then AskMeService makes the citations.
EnforceCitations(a) ==
  LET evidence == ask[a].hits
      cited    == ask[a].cited IN
  /\ ask[a].pc = "cite"
  /\ IF cited = {} \/ ~(cited \subseteq Ranks(evidence))
       THEN Unavailable(a)
       ELSE ask' = [ask EXCEPT ![a].pc = "answered", ![a].answer = {evidence[n] : n \in cited}]

\* The response goes out.
Reply(a) ==
  /\ ask[a].pc \in {"answered", "grounding", "unavailable"}
  /\ ask' = [ask EXCEPT ![a] = NoAsk]

Answer(a) ==
  \/ EmbedQuery(a) \/ SemanticSearch(a) \/ LexicalSearch(a) \/ FuseResults(a)
  \/ Rerank(a) \/ BuildEvidence(a) \/ Generate(a) \/ EnforceCitations(a) \/ Reply(a)

AskStep == \E a \in Askers : Answer(a) \/ \E p \in Principals : AskRequest(a, p)

\* Indexing goes on; a restart takes the questions in progress with it.
AskNext ==
  \/ AskStep /\ UNCHANGED vars
  \/ IndexingNext /\ ask' = IF restarts' = restarts THEN ask ELSE [a \in Askers |-> NoAsk]

AskSafety == AskInit /\ [][AskNext]_askVars

\* The operating system schedules the thread, and calls return: the providers'
\* clients and the database have timeouts.
AskSpec ==
  /\ AskSafety
  /\ \A a \in Askers : WF_askVars(Answer(a) /\ UNCHANGED vars)

-----------------------------------------------------------------------------
(* Properties.                                                             *)

AskPcs == {"idle", "embed", "semantic", "lexical", "fuse", "rerank", "evidence",
           "generate", "cite", "answered", "grounding", "unavailable"}

AskRecord == [pc : AskPcs, by : Owners, tries : 0..(MaxAttempts - 1),
              semantic : Seq(Chunks), lexical : Seq(Chunks), hits : Seq(Chunks),
              cited : SUBSET (1..(RerankTopK + 1)), answer : SUBSET Chunks,
              gone : SUBSET Docs]

AskTypeOK == ask \in [Askers -> AskRecord]

\* Owner isolation: whatever a question gets to see, and so whatever its answer
\* cites, belongs to a document the catalog registered for the user who asked.
\* The filter looks at a column the indexing run copied onto the chunk rows.
OnlyOwnDocuments ==
  \A a \in Askers : ask[a].by # NoUser =>
    \A c \in Range(ask[a].semantic) \cup Range(ask[a].lexical) \cup Range(ask[a].hits)
               \cup ask[a].answer :
      catalog[c[1]].owner = ask[a].by

\* A document that was gone before the question was asked is not cited, also
\* when the delete met the run that was storing its chunks.
NothingRemovedIsCited ==
  \A a \in Askers : \A c \in ask[a].answer : c[1] \notin ask[a].gone

\* What is answered is grounded: it cites, and each marker in its text resolves
\* to a source that was part of the evidence within the budget.
AnswersAreGrounded ==
  \A a \in Askers : ask[a].pc = "answered" =>
    /\ ask[a].cited # {}
    /\ ask[a].cited \subseteq Ranks(ask[a].hits)
    /\ ask[a].answer = {ask[a].hits[n] : n \in ask[a].cited}
    /\ Rendered(ask[a].hits, Len(ask[a].hits)) <= EvidenceMax

\* Fusion prefers agreement: a chunk that both searches found comes before any
\* chunk only one of them found, at whatever ranks.
AgreementWins ==
  [][\A a \in Askers : ask[a].pc = "fuse" /\ ask'[a].pc = "rerank" =>
       LET fused == ask'[a].hits
           semantic == Range(ask[a].semantic)
           lexical  == Range(ask[a].lexical) IN
       \A c \in semantic \cap lexical, i \in Ranks(fused) :
         fused[i] \notin semantic \cap lexical => \E j \in 1..(i - 1) : fused[j] = c
    ]_askVars

\* Every question is answered or refused, however its calls fail.
AskEnds == \A a \in Askers : ask[a].pc # "idle" ~> ask[a].pc = "idle"

\* docs/frontend.md line 229: retrieval across READY indexed documents.
RetrievalAcrossReady ==
  [][\A a \in Askers : \A c \in Range(ask'[a].semantic) \ Range(ask[a].semantic) :
       catalog[c[1]].status = "READY"]_askVars

=============================================================================
