# LoreForge in TLA+

Models, model-checking runs and machine-checked proofs for LoreForge, a FastAPI
backend that registers PDF documents, indexes them (chunks, embeddings, a vector
and a BM25 index) and answers questions with citations. Line references are to
`src/src/loreforge/` unless they say otherwise.

## 1. The system

| Part | State it keeps | Operations | Who calls it |
| --- | --- | --- | --- |
| Catalog (`catalog/`, `database/catalog.py`) | one row per document: status, owner, counts | register, mark_ingesting / ready / failed / deleted, remove, each also "for owner" | admin routes, indexing |
| Document indexing (`indexing/`) | one indexing-state row per attempt | index_pdf with its rollback, delete_document | admin routes |
| Chunk and embedding rows (`database/retrieval.py`) | `document_chunks`, `retrieval_metadata`, `embeddings`, with foreign keys | add a batch, remove one, filtered lists | indexing, query |
| In-process indexes (`vector_index/`, `retrieval/bm25.py`) | dictionaries by chunk id, BM25 statistics | add a batch, remove, remove_document, search | indexing; the query path builds its own copies |
| Query engine and AskMe (`query/`, `askme/`, `retrieval/`, `reranking/`, `generation/`) | nothing between requests | embed, two searches, fuse, rerank, build evidence, generate, enforce citations | `POST /ask` |
| Document processing (`documents/`) | nothing | validate upload, parse, normalize, chunk | indexing, `POST /documents/upload` |
| Demo limiter (`api/demo.py`) | timestamps per demo user | allow | `POST /ask` |
| Providers and retry (`gemini_retry.py`, `generation/`, `embeddings/`, `reranking/local.py`) | a client or model, created at its first use and shared by all threads | generate, embed, score; classify an error, pause, repeat | indexing, query |
| Settings (`settings.py`) | nothing: a frozen object per process | read `.env` and the environment, parse, validate | start |
| Authentication (`auth/`, `api/auth.py`, `database/auth.py`) | the `users` table; per process a table of key hashes | add the configured users at start, resolve a key | start, every route |
| Observability (`observability/`) | counters, durations, traces; a tracer per question | increment, observe, trace stages, record | everything |
| Lifecycle (`main.py`, `application/`, `database/engine.py`) | ready flag, container, engine | start, compose, warm up, shut down | the server |
| Migrations (`database/migrations/`) | the revision of the schema | upgrade to the last one | start |
| Evaluation, frontend | - | - | - |

How they interact: synchronous routes (all of `/admin` but one, and `/ask`) run in
FastAPI's thread pool, so they overlap each other. `index_document` is a
coroutine that calls `index_pdf` synchronously: it holds the event loop from
beginning to end, no other request is dispatched meanwhile, but the threads that
were handed one before go on. Every repository call opens its own session and
transaction. The two in-process indexes are plain dictionaries shared by all
threads. With PostgreSQL the rows survive a restart and the in-process indexes do
not; without a database everything is lost together.

What is hard here: transitions that read, validate and write back a whole row in
separate transactions; an indexing run that writes seven stores in turn and undoes
them one by one; deletes that overlap runs; failures of the failure handler;
crashes in the middle; two retrieval snapshots for one question; processes that start
on one database at once and look before they write; clients that threads create
lazily and counters they update, both without a lock. The complete list,
line by line, is `hazards` in `PROJECT.json`.

What makes each part correct:

* Catalog: only the owner's requests change a row; a removed row stays removed; one
  caller at a time, statuses follow the table.
* Indexing: one attempt per document; a failed run leaves nothing; a returned run left
  everything; READY means stored; failure means FAILED; INGESTING ends.
* Deletion: nothing in the database refers to a removed document.
* AskMe: an answer cites only evidence it was given, of documents of the asker, that
  existed when the question came.
* Chunking: terminates, every character is in a chunk, chunks fit the size.
* Limiter: at most `max_requests` in a window, for requests that do not overlap.
* Settings: what is accepted can be composed; what is wrong is refused before anything
  is opened.
* Start: a process that answers has its users, its schema and its engine; one that loses
  a race or crashes half way starts the next time.
* Authentication: a request is who its key says in the settings, whatever rows earlier
  starts left.
* Providers: bounded requests and pauses, none repeated that cannot succeed, clients
  created no more often than there are threads.
* Observability: one trace per question, which tells the stages that ran; counters that
  lose at most what overlapped.

## 2. Modules

`CatalogLifecycle` is the abstract specification; the others are translated from the code.

| Module | Models | State and how it corresponds to the code |
| --- | --- | --- |
| `CatalogLifecycle` | what a document's status may do | one status per document, `Allowed` is the transition table |
| `Catalog` | `CatalogService`, its repositories, the admin routes | `catalog` is the `documents` table with one row per document; `req` is, per pool thread, the request it serves and the row it has read |
| `Indexing` | `DocumentIndexingService` with its seven stores | extends `Catalog`; `run` is the one `index_pdf` in progress, `del` the `delete_document` of each thread, one variable per table and index; `attempts`, `outcome`, `deleting` are histories the properties need |
| `AskMe` | `POST /ask` down to the citations | extends `Indexing`; `ask` is, per thread, the question and what it has read so far |
| `Chunking` | the loop of `chunk_document` | `text` and the loop's own variables; a character is one of four classes |
| `DemoRateLimiter` | `InMemoryDemoRateLimiter.allow` | the deque of one user, and per thread the step of `allow` it is at |
| `Settings` | `load_settings`: the `.env` file, the environment, every parser and every validation | none: operators on texts, of which there is one per kind the code tells apart |
| `Startup` | `create_app`, the lifespan, the composition of the container, engine, migrations, users and the authentication of requests | extends `Settings`; per process `pc` is the step of its lifespan, `settings` what its environment gives, `container` the credentials it composed, `ready` the runtime state, `engine` the SQLAlchemy engine; `schema` and `users` are the shared database; `answered` is the last request; `before` is a history, what the database held when the process's start began |
| `Providers` | one call of an embedding, reranking or language model provider, with `GeminiRetryPolicy` | `loaded` is the client field of each shared provider object, `call` the attempt, error and pauses of the call each thread is in |
| `QueryTrace` | `_answer_observed` and what it records | extends `Providers`; `run` is, per thread, the tracer of its question, `traces` and `counters` are the recorders, `held` the value a thread has read of a counter and not written yet |
| `MC*` | nothing: instances for TLC | |
| `*Proofs` | nothing: theorems and their proofs, one module per component (`CountersProofs` those about the counters of `QueryTrace`) | |

Each action is one transaction, one call of a provider, one update of an in-process
index or, in the limiter, one access to the deque. Where an exception can be raised
in the code, the action has a branch for it, and the constants `Failures` and
`AskFailures` say which calls may fail in a run. `PROJECT.json` (`map`) gives
the lines each definition stands for.

`Startup` stops where `Indexing` begins: a container that serves. Each of its actions is
one statement on the database, one call that may fail, or a stretch of the lifespan
between two of them, and another process may act between any two. `QueryTrace` follows the same
questions as `AskMe` and abstracts the opposite half: what a search found is a number,
and what `AskMe` takes as one call is the loop of its attempts.

Composition is by extension: `Indexing` contains `Catalog`'s requests (`AdminStep`)
and takes the removal of rows over from it; `AskMe` interleaves questions with
all of `IndexingNext`. `Chunking` and `DemoRateLimiter` share no state with
the rest: the ids of the chunks an upload is cut into are `Pieces` in `Indexing`, and
a question that reaches `AskRequest` is past the limiter.

Where data is abstracted:

* Chunk ids are uuid5 of the content, so a document's chunks are a fixed set,
  `ChunksOf(d)`: a second attempt would meet the same ids.
* Relevance scores are any order. Reciprocal rank scores are exact fractions: with
  the default `rrf_k` of 60 and ten results per search two different sums
  differ by far more than the rounding of a double, so the order is the same.
* Pages are sequences of letters, sentence ends, spaces and newlines.
* `perf_counter` is a clock of whole ticks.
* A setting is a text; letter case and space around a word, which every parser removes,
  are left out, and texts the code treats alike are one text (`Number`, `Scheme` and
  `Enumeration` list them). Hashing keys is injective on the keys that occur.
* The duration of a stage is counted, not measured: a recorder keeps a sum of seconds,
  which is updated with the same read and write as its count.
* A counter is a name and a label (`KeyOrder`); the one kept without a label has
  "unlabelled". A counter of durations counts its observations.
* Pauses before a retry are in milliseconds; the jitter is the least or the most there is.
* A call of an in-memory repository or index is one step, as a transaction is (the one
  exception is `remove_document` of the indexes, whose loops other threads disturb:
  `RemoveRuntimeIndexesRaises`). CPython may switch threads between the look-up and the
  write of `InMemoryCatalogRepository.update`, and a removal in between would then be
  undone: what the models say of a removed row, they say of the database.
* `durable` tells a deployment with a database from one without: foreign keys, cascades,
  chunk rows and crashes that leave something behind exist only in the first.

## 3. What is checked

Every property has a mutant of the code that breaks it (`mutants`).

| Run | Shows | Instance | Distinct states |
| --- | --- | --- | --- |
| `catalog_threads` | only the owner's requests change a row, and a removed row does not come back, however two requests overlap | 1 document, 2 threads, 2 users, all operations | 11,163 |
| `catalog_race` | *finding*: two callers do not | 1 document, 2 threads | 807 until the counterexample |
| `indexing_races` | what a run leaves behind when it fails, returns, is cut off by a crash or its document is deleted | 1 document, 2 chunks, 1 delete thread, 1 admin thread, a restart, both deployments, 12 of the 13 failure points | 272,601 |
| `indexing_alone` | READY means stored, failure means FAILED, INGESTING ends, and one caller at a time implements `CatalogLifecycle` | 2 documents, 1 chunk, no crash, admin requests only mark DELETED | 446,656 |
| `indexing_complete_fails` | *finding*: a failure after INGESTING that does not mark the document FAILED | 1 document, one failure point | 29 |
| `delete_during_indexing` | *finding*: a delete that overlaps a run leaves index entries | 1 document | 563 |
| `ask_beside_indexing` | isolation, grounding, removal, fusion, and that questions end | 1 document of 2 chunks, 2 users, 1 question at a time beside an indexing run and a delete, every call of the query path failing | 130,955 |
| `ask_not_ready` | *finding*: retrieval does not look at the status | 1 document | 230 |
| `chunk_pages` | nothing is lost, cuts advance, the loop ends | every normalized page of up to 7 characters, sizes up to 5, every overlap | 181,156 |
| `demo_threads` | the limiter with overlapping calls and without | 2 threads, limit 2, window 2, clock up to 5 | 255,045 |
| `startup` | what a ready process can rely on, who a request is, that with a database that answers a start fails only when another process overtakes it, and that the processes come to serve | 2 processes, 1 crash, a database that is empty or migrated, 10 pairs of sound deployments and one process under each of the settings in `Variants` | 325,960 |
| `query_trace` | what is recorded of each question, how often providers are called and created, what the counters still tell, and that questions end | 2 threads, 2 questions, 3 attempts, 2 provider deployments, 3 counters followed, 1 result per search | 193,477 |

Why the bounds are enough to mean something:

* Two threads are what it takes for a lost update; a third repeats the second. The
  theorems below hold for any number.
* In `indexing_races` one document is enough because no step looks at two; two
  chunks let a loop over chunk ids be half done when something else happens.
* In `ask_beside_indexing` the owner filter acts on each row alone. Two chunks give
  rankings that agree and disagree, and the budget of 11 characters fits each block
  of 5 but not both with the blank line between them, so that evidence is cut.
* Seven characters hold two paragraphs or two sentences and more than one slice of
  every size; sizes up to 5 include overlaps below, at and above half the size.
* The window of 2 passes twice before the clock stops, so entries expire both
  between two calls and in the middle of a loop.

* In `startup` two processes race for each statement; a third can only lose to the same
  winner. One crash is enough because a start keeps nothing that the next one reads but
  the database. The sound deployments share users, keys and a reranker so
  that they meet; each of the others differs from a valid one in the texts of one
  validation, alone, since nothing of it is shared.
* In `query_trace` two questions at once are what it takes to lose an update and to
  create a client twice; three attempts have a first and a later pause. A counter is
  independent of every other, so following three of them (and both counters of
  responses) shows what any does. One result and none is what the stages tell apart.

Runs that leave failures or requests out say so in their constants: the rollback's
own failures (`"undo"`) are left out of `indexing_races`, because the code swallows
them and promises nothing then; admin requests that force a document READY are left
out of `indexing_alone`, because the API allows them on purpose. Its failure points
leave out `"start"`, `"complete"` and `"fail_state"`, after each of which
`FailureMarksDocument` is false (section 5; with only one of them in the constants of
`indexing_complete_fails`, with `"ingest"` beside `"fail_state"`, TLC shows the
counterexample), `"failed"`, the call that marks the document itself, and `"delete"`, which would make no difference to properties that
except documents a delete has begun on. `indexing_races` has all five: what
`FailedRunLeavesNothing` says of a failed run it says also of one whose failure was
before the `try` or in the handler (`outcome` "escaped"), and a delete that stopped
half way is sent again there before `RemovedLeavesNoRows` looks at what is left.

Fairness. `IndexingSpec` assumes that the event loop goes on with the synchronous call
it is in and that pool threads are scheduled; `AskSpec` that the thread of a question
is scheduled and that calls to providers and the database return or raise, since they
have timeouts; `LimiterSpec` that threads are scheduled; `ChunkSpec` that a
loop goes on; `TraceSpec` that a pool thread that began a question goes on with it, which includes
that a provider's call returns or raises. `StartupSpec` assumes that a start goes on, that one that
failed exits, and that a process that is down is started again, which is the restart
policy of `docker-compose.yml`; it assumes nothing of stops, and `Recovers` speaks of
the time after the database has come to answer. Nothing is assumed of clients, crashes or failures: none of them is
ever obliged to happen, and none to stop happening. `chunk_pages` ends in a state without successor
on purpose, when the page is cut; so does `query_trace`, when its questions are answered,
and `startup`, when its processes are stopped.

## 4. What is proved

For every value of the constants that satisfies the named assumptions, in the
`*Proofs` modules:

| Theorem | Property | Argument |
| --- | --- | --- |
| `CatalogTypeCorrect`, `OwnerIsolation`, `RemovedForGood` | `CatalogTypeOK`, `OnlyTheOwnerWrites`, `RemovalIsFinal` | `CatalogInv`: a request past its ownership check carries a row with the owner's name, and owners of registered rows do not change, so a stale copy is stale in everything but the owner |
| `SerialImplementsLifecycle` | `ImplementsLifecycle` of `Catalog` | with one thread the copy is the row, so each write is a step of the table |
| `IndexingTypeCorrect`, `OneAttempt`, `RollbackIsComplete`, `NoOrphanRows` | `IndexingTypeOK`, `AtMostOneAttempt`, `FailedRunLeavesNothing`, `RemovedLeavesNoRows` | `IndexingInv`: which stores hold chunks at which step of the run, that a document on which indexing has begun never has a status from which it could begin again, and that every embedding row has its chunk row and every chunk row its document |
| `ReturnedRunsAreComplete` | `ReturnedRunIsComplete` | `CompletenessInv`, on top of `IndexingInv`: what a run has stored at each of its steps stays (`ProgressOK`, `Keeps`), because chunks of two documents are apart and a delete, also one of rows it listed earlier, only takes from a document in `deleting` (`DeletesOK`) |
| `ReadyIsComplete`, `FailuresAreMarked` | `ReadyMeansComplete`, `FailureMarksDocument` | `MarkedInv`, on top of `CompletenessInv`: after the claim the row of the run's document is INGESTING, and READY once `mark_ready` has written it, or what a client made of it since (`StatusOK`), so `mark_failed` is allowed. Hypotheses on the theorems: the call that completes an indexing state does not fail (`CompletionWorks`; without it both are false, finding 2), and for the first no client sends `POST /ready` (`ReadyIsLeftToRuns`), for the second clients only move documents to FAILED and DELETED and the calls outside the `try` and in the failure handler work (`FailuresReachCatalog`). The `indexing_alone` run is an instance of both |
| `IndexingImplementsLifecycle` | `ImplementsLifecycle` of `Indexing` | `CopiesOK`, on top of `IndexingInv`: when a call is about to write back a row it read transactions ago, the status it read is still there or the row is gone (for a DELETED, some status that only DELETED or removal can follow), because only the run itself takes a document out of UPLOADED or INGESTING. So every step changes one row along the table (`OneMove`). Hypothesis: clients only mark documents DELETED; with any other operation the two copies of finding 1 meet |
| `RemovedForGoodBesideRuns`, `OwnerIsolationBesideRuns` | `RemovalIsFinal` of the whole system; `OnlyOwnersAct`, the counterpart of `OnlyTheOwnerWrites` for requests, runs and deletes (stated in `AskMeProofs`) | `OwnershipInv` (the invariants of `Catalog` and `Indexing`; a run past its check acts for the owner and its copy has the owner's name) with `OwnedDeletes`: a delete past its look-up acts for the owner |
| `AskTypeCorrect`, `OwnerIsolationOfAnswers`, `RemovedIsNotCited`, `Grounding` | `AskTypeOK`, `OnlyOwnDocuments`, `NothingRemovedIsCited`, `AnswersAreGrounded` | `AskInv`, on top of `IndexingInv`: the owner column of a document's chunk rows is its owner in the catalog; what a question has read belongs to the asker and to no document that was gone |
| `AgreementIsPreferred` | `AgreementWins` | arithmetic: for ranks up to `RrfK + 1` two reciprocals exceed one. Its hypothesis `SearchTopK <= RrfK + 1` is on the theorem; the defaults are 10 and 60 |
| `ChunkTypeCorrect`, `EveryLetterKept`, `CutsAdvance` | `ChunkTypeOK`, `NothingLost`, `EndsAdvance` | `ChunkInv`: a slice starts at most an overlap before the last cut, and a cut lies at least half the size after its start |
| `LimiterTypeCorrect`, `OvershootIsBounded` | `LimiterTypeOK`, `QueueIsBounded` | `RoomLeft`: the entries and the threads about to append together stay within the limit and the number of threads |
| `SlidingWindow` | `ExactAlone` | `Alone`: until calls overlap the deque is the tail of the admitted requests, and those before it had expired |
| `StartupTypeCorrect`, `ReadyIsComposed`, `UsersComeFirst`, `PrincipalsAreConfigured`, `AcceptedSettingsStart` | the five invariants of `startup` | `StartupInv`: an invariant per process (`InstanceInv`: what its settings satisfy once accepted, what is open and composed at each step, which users it has already seen, why it failed), and that steps of other processes cannot disturb it, because rows of `users` and the schema only grow |
| `StartsFailOnlyOvertaken` | `OnlyOvertakenStartsFail` | `BeforeInv`, on top of `StartupInv`: what a start found is still there, the revision it read is at least the one it began with, and a user it is about to add was missing when it looked and is none it has added itself. So an insert that collides, or a revision that is already there, is another process's |
| `TracesTellTheStages` | `TraceTellsTheStages` | `StagesInv`: the stages of a question are a prefix of the ten with all passed but perhaps the last, and the counts are those of the stages passed |
| `OneTraceEach` | `OneTracePerQuestion` | `OnceInv`: ids of questions in progress and of traces are distinct and together are `1..asked` |
| `LoadsBounded` | `LoadsAreBounded` | `LoadsInv`: the clients created and the threads about to create one together are at most the threads, and nobody joins these once a client is there |
| `CallsBounded` | `CallsAreBounded` | `CallInv`: the pauses of a call are at most those of its attempts so far (`Paused`), the next one with its jitter adds up to the next bound (`PausesAddUp`), and only a transient error of Gemini sleeps |
| `TraceTypesCorrect` | `TraceTypeOK` | `MetricsInv` (`CountersProofs`): a thread counts what its finished question adds to, in the order of `_record_retrieval_metrics`, and holds a value only while a counter is left; with the invariants above |
| `CountersAgreeAlways` | `CountersAgree` | `AgreeInv` per counter: what was counted and what threads have still to add, and also what a thread in an update has read and what is still to add, never exceed what the traces add up to, and are equal to it as long as no updates have overlapped; `ResponsesInv`: responses counted and questions not yet answered are the traces. Sums are numbers of units (`Units`, `Total`), so that they are split and compared by cardinalities and not by induction |

The invariants had to be strengthened because none of the properties is inductive:
`OnlyTheOwnerWrites` says nothing of the copy a thread carries,
`RemovedLeavesNoRows` nothing of the run that is about to add rows (what keeps it from
doing so is the foreign key, and for embeddings the chunk rows the delete took),
`FailedRunLeavesNothing` nothing of a rollback that is half done, `OnlyOvertakenStartsFail`
nothing of what a start has looked up and not written yet, `UsersBeforeReady`
nothing of a start that is half way through the configured keys,
`TraceTellsTheStages` nothing of a tracer before it is recorded, and `CountersAgree`
nothing of the value a thread has read and not written. Assumptions on the
constants (`CatalogAssumption`, `IndexingAssumption`, `AskMeAssumption`,
`ChunkingAssumption`, `LimiterAssumption`, `StartupAssumption`, `CredentialsAreList`,
`ProvidersAssumption`, `QueryTraceAssumption`) are evaluated by TLC in every run.
`CredentialsAreList` says of the parsed credentials only that they are a list: the
operator of the community modules that filters a sequence is recursive, and what it
yields for every text cannot be proved here.

Only model-checked: the liveness properties (`IngestingEnds`, `AskEnds`,
`ChunkingEnds`, `AllowEnds`, `Recovers`, `QuestionsAreCounted`), which need fairness and
`ENABLED`. Every other property of a passing run is stated by a theorem.

## 5. Findings

Four places where the code does not do what a document says; each has a run whose
counterexample is the evidence, and `findings` quotes the line.

1. Overlapping admin requests break the lifecycle (`catalog_race`): a transition is
   validated against one read and written back after another request's write.
2. A failure to complete the indexing state rolls a READY document's chunks back
   and leaves it READY (`indexing_complete_fails`).
3. A delete that overlaps an indexing run leaves entries in the in-process indexes
   (`delete_during_indexing`).
4. Questions retrieve chunks of documents that are not READY (`ask_not_ready`).

Met on the way, without a run of their own:

* `indexing/service.py:437`: the failure handler reads the indexing state without a
  guard, so a failure there replaces the original one, and `indexing/service.py:135`:
  the indexing state is started after `mark_ingesting` and before the `try`, so a
  failure there meets no handler. Either leaves the document INGESTING for good, two
  more ways to the property of finding 2. What the run has stored is gone all the same
  (`FailedRunLeavesNothing`, checked with both failures and proved).
* `main.py:176`: `/ready` looks at the runtime state only, where
  `docs/final-engineering-audit.md:69` says it checks the health of the database.
* `main.py:248`: nothing calls `_record_database_readiness`, so the
  `database_readiness_check_total` of `docs/observability.md:43` is never recorded.
* `application/composition.py:146`: the recorders are wired whatever
  `LOREFORGE_METRICS_ENABLED` and `LOREFORGE_RECORD_QUERY_OBSERVATIONS` say.
* `LOREFORGE_AUTH_PROVIDER=supabase` is accepted, and every request that
  authenticates is answered 401.
* Three kinds of settings are accepted and do not compose: a database URL with its
  scheme in capitals, and, when the process migrates, a percent sign in the URL or a
  path without scripts. `AcceptedSettingsCompose` names them.

## 6. Not modelled

* BM25 statistics, embeddings and their dimensions, scores of the reranker: floating
  point data; the models let searches and rerankers order as they like.
* PDF parsing, normalization, prompts, logging, response formats: no state.
* The threads of one `index_pdf` call against a server with several processes:
  `Indexing` and `AskMe` have one process per database. A `RetrievalFilters` other than
  the owner's is never built by the query path.
* The pool of connections: a step that waits for one is a step that has not happened.
* The length of a display name, which the settings do not bound and its column does.
* The sums of durations, and the request context, which only log records read.
* Two users' demo deques: users do not share one.
* Lost and repeated HTTP requests: a client may send any request at any time and
  never waits for an answer, so a repetition is a further request.
* Offline migrations and downgrades, which the application does not run.
* The components marked `not_modelled` in `PROJECT.json`, with the reason there.

## 7. Plan

What is left, most important first:

1. The in-memory repositories with their check and their write apart, beside the
   pool threads of a deployment without a database.
2. `AuthSession` in the frontend: late 401 answers, logins that overlap logouts.
3. `RetrievalIndexes`: BM25's document frequencies and lengths kept consistent by
   add, remove and a rejected batch; embeddings of mixed dimensions in the query
   path's copy of the vector index.
4. `Indexing` in two processes on one database, started by `Startup`.
5. `EvaluationGate` and `Upload`: the pure decisions as operators, against a reference
   definition.
6. Proofs: that a delete which overlaps no run is total (`DeletionIsTotal` outside
   finding 3), and which updates of a counter are lost when some overlap.
