----------------------------- MODULE QueryTrace -----------------------------
(***************************************************************************)
(* A question as it is observed: the stages of _answer_observed            *)
(* (query/engine.py) and its RequestTracer (observability/tracing.py), the *)
(* trace recorded when it ends, and the counters of the operational        *)
(* metrics (observability/operational.py), which have no lock.             *)
(*                                                                         *)
(* What the searches find is a number here; AskMe has the contents.        *)
(***************************************************************************)
EXTENDS Providers, SequencesExt, FiniteSetsExt

CONSTANTS
  SearchTopK, HybridTopK, RerankTopK,
  MaxQuestions,     \* bound on the questions asked
  Followed          \* the counters of retrievals the model keeps: no counter
                    \* depends on another

VARIABLES
  run,        \* per thread, its question: where it is and what its tracer holds
  asked,      \* the number of questions so far; a question's id is its number
  traces,     \* InMemoryMetricsRecorder._traces
  counters,   \* InMemoryOperationalMetricsRecorder, the count of a duration
              \* for the duration
  todo,       \* per thread, the counters it has still to add to, as positions
              \* in KeyOrder
  held,       \* per thread, the value it read and will add to, or None
  overlapped  \* two threads have updated a counter at the same time

traceVars == <<uses, loaded, loads, call, run, asked, traces, counters, todo, held, overlapped>>
metricVars == <<counters, todo, held, overlapped>>

StageOrder ==
  <<"validation", "query_embedding", "semantic_retrieval", "lexical_retrieval",
    "hybrid_fusion", "reranking", "evidence_construction", "prompt_construction",
    "generation", "citation_validation">>

\* Stages that raise when the database, the budget or the answer is at fault.
FallibleStages == {"semantic_retrieval", "lexical_retrieval", "evidence_construction",
                   "citation_validation"}

ResultCounts == {"vector", "bm25", "fused", "final", "evidence"}
NothingFound == [what \in ResultCounts |-> None]

NoRun == [pc |-> "idle", id |-> 0, stages |-> <<>>, found |-> NothingFound, error |-> None]

\* The counters of _record_retrieval_metrics, in its order; of two that differ
\* in the label for the success it takes one.
KeyOrder ==
  << <<"retrieval_query_total", "True">>, <<"retrieval_query_total", "False">>,
     <<"retrieval_duration_ms", "True">>, <<"retrieval_duration_ms", "False">>,
     <<"retrieval_candidate_total", "vector">>, <<"retrieval_candidate_total", "bm25">>,
     <<"retrieval_candidate_total", "fused">>, <<"retrieval_candidate_total", "final">>,
     <<"retrieval_empty_result_total", "unlabelled">> >>
RetrievalKeys == Range(KeyOrder)
CounterKeys == RetrievalKeys \cup {"http_request_total"} \X {"2xx", "5xx"}

ASSUME QueryTraceAssumption ==
  /\ {SearchTopK, HybridTopK, RerankTopK} \subseteq Nat \ {0}
  /\ MaxQuestions \in Nat
  /\ None \notin Nat \cup {"NoRelevantEvidenceError", "QueryExecutionError"}
  /\ Followed \subseteq RetrievalKeys

TraceInit ==
  /\ ProvidersInit
  /\ run = [t \in Threads |-> NoRun]
  /\ asked = 0
  /\ traces = <<>>
  /\ counters = [key \in CounterKeys |-> 0]
  /\ todo = [t \in Threads |-> {}]
  /\ held = [t \in Threads |-> None]
  /\ overlapped = FALSE

Stage(t) == StageOrder[Len(run[t].stages) + 1]

\* The provider a stage of this deployment calls, or None.
RoleOf(stage) ==
  CASE stage = "query_embedding" -> "embedding"
    [] stage = "reranking" /\ uses["reranker"] # "none" -> "reranker"
    [] stage = "generation" -> "llm"
    [] OTHER -> None

-----------------------------------------------------------------------------
(* The stages.                                                             *)

Ask(t) ==
  /\ run[t] = NoRun /\ asked < MaxQuestions
  /\ asked' = asked + 1
  /\ run' = [run EXCEPT ![t] = [NoRun EXCEPT !.pc = "stage", !.id = asked + 1]]
  /\ UNCHANGED <<uses, loaded, loads, call, traces, counters, todo, held, overlapped>>

\* What the counts may be after a stage.
FoundAfter(stage, found) ==
  CASE stage = "semantic_retrieval" -> {[found EXCEPT !.vector = n] : n \in 0..SearchTopK}
    [] stage = "lexical_retrieval" -> {[found EXCEPT !.bm25 = n] : n \in 0..SearchTopK}
    [] stage = "hybrid_fusion" ->
         {[found EXCEPT !.fused = n] :
            n \in {m \in 0..HybridTopK : /\ m = HybridTopK \/ m >= found.vector
                                         /\ m = HybridTopK \/ m >= found.bm25
                                         /\ m <= found.vector + found.bm25}}
    [] stage = "reranking" ->
         {[found EXCEPT !.final = IF found.fused < RerankTopK THEN found.fused ELSE RerankTopK]}
    [] stage = "evidence_construction" ->
         {[found EXCEPT !.evidence = n] : n \in 1..found.final}
    [] OTHER -> {found}

\* The checks between the stages that end a question without evidence.
ComesUpEmpty(stage, found) ==
  \/ stage = "lexical_retrieval" /\ found.vector = 0 /\ found.bm25 = 0
  \/ stage = "hybrid_fusion" /\ found.fused = 0
  \/ stage = "reranking" /\ found.final = 0
  \/ stage = "evidence_construction" /\ found.evidence = 0

\* The stage is left without an exception.
PassStage(t) ==
  \E found \in FoundAfter(Stage(t), run[t].found) :
    run' = [run EXCEPT
      ![t].stages = Append(@, <<Stage(t), TRUE>>),
      ![t].found = found,
      ![t].error = IF ComesUpEmpty(Stage(t), found) THEN "NoRelevantEvidenceError" ELSE None,
      ![t].pc = IF ComesUpEmpty(Stage(t), found) \/ Stage(t) = "citation_validation"
                THEN "finish" ELSE "stage"]

\* Mutant: the stage is recorded in a `finally', as a success.
FailStageFinally(t) ==
  run' = [run EXCEPT ![t].stages = Append(@, <<Stage(t), TRUE>>),
                     ![t].error = "QueryExecutionError",
                     ![t].pc = "finish"]

\* The stage is left by an exception, which the engine's wrappers make one of
\* its own.
FailStage(t) ==
  run' = [run EXCEPT ![t].stages = Append(@, <<Stage(t), FALSE>>),
                     ![t].error = "QueryExecutionError",
                     ![t].pc = "finish"]

RunStage(t) ==
  /\ run[t].pc = "stage" /\ RoleOf(Stage(t)) = None
  /\ \/ PassStage(t)
     \/ Stage(t) \in FallibleStages /\ FailStage(t)
  /\ UNCHANGED <<uses, loaded, loads, call, asked, traces, counters, todo, held, overlapped>>

CallProvider(t) ==
  /\ run[t].pc = "stage" /\ RoleOf(Stage(t)) # None
  /\ BeginCall(t, RoleOf(Stage(t)))
  /\ run' = [run EXCEPT ![t].pc = "call"]
  /\ UNCHANGED <<asked, traces, counters, todo, held, overlapped>>

\* Mutant: the call is left in progress.
CallStays(t) ==
  /\ run[t].pc = "call"
  /\ \/ call[t].pc = "returned" /\ PassStage(t)
     \/ call[t].pc = "raised" /\ FailStage(t)
  /\ UNCHANGED <<uses, loaded, loads, call, asked, traces, counters, todo, held, overlapped>>

CallEnds(t) ==
  /\ run[t].pc = "call"
  /\ \/ call[t].pc = "returned" /\ PassStage(t)
     \/ call[t].pc = "raised" /\ FailStage(t)
  /\ call' = [call EXCEPT ![t] = NoCall]
  /\ UNCHANGED <<uses, loaded, loads, asked, traces, counters, todo, held, overlapped>>

-----------------------------------------------------------------------------
(* The end of a question: its trace, then its counters.                    *)

Succeeded(r) == r.error = None

\* What _record_retrieval_metrics and _increment_result_count add to a counter.
Increment(r, key) ==
  CASE key[1] \in {"retrieval_query_total", "retrieval_duration_ms"} ->
         IF key[2] = (IF Succeeded(r) THEN "True" ELSE "False") THEN 1 ELSE 0
    [] key[1] = "retrieval_candidate_total" ->
         IF r.found[key[2]] = None THEN 0 ELSE r.found[key[2]]
    [] key[1] = "retrieval_empty_result_total" ->
         IF r.found.evidence = 0 \/ r.error = "NoRelevantEvidenceError" THEN 1 ELSE 0

\* The increments of a question that has ended.
Increments(r) ==
  {n \in DOMAIN KeyOrder : KeyOrder[n] \in Followed /\ Increment(r, KeyOrder[n]) # 0}

\* Mutant: a failure is not traced.
FinishSuccess(t) ==
  /\ run[t].pc = "finish"
  /\ run' = [run EXCEPT ![t].pc = "count"]
  /\ IF Succeeded(run[t])
     THEN /\ traces' = Append(traces, [id |-> run[t].id, success |-> TRUE, error |-> None,
                                      stages |-> run[t].stages, found |-> run[t].found])
          /\ todo' = [todo EXCEPT ![t] = Increments(run[t])]
     ELSE UNCHANGED <<traces, todo>>
  /\ UNCHANGED <<uses, loaded, loads, call, asked, counters, held, overlapped>>

\* Mutant: the retrieval metrics of a failure are not recorded.
FinishUncounted(t) ==
  /\ run[t].pc = "finish"
  /\ traces' = Append(traces, [id |-> run[t].id, success |-> Succeeded(run[t]),
                               stages |-> run[t].stages, error |-> run[t].error,
                               found |-> run[t].found])
  /\ todo' = [todo EXCEPT ![t] = IF Succeeded(run[t]) THEN Increments(run[t]) ELSE {}]
  /\ run' = [run EXCEPT ![t].pc = "count"]
  /\ UNCHANGED <<uses, loaded, loads, call, asked, counters, held, overlapped>>

\* _finish_success_safely, _finish_failure_safely: trace ids are new, so the
\* recorder takes every trace.
Finish(t) ==
  /\ run[t].pc = "finish"
  /\ traces' = Append(traces, [id |-> run[t].id, success |-> Succeeded(run[t]),
                               stages |-> run[t].stages, error |-> run[t].error,
                               found |-> run[t].found])
  /\ todo' = [todo EXCEPT ![t] = Increments(run[t])]
  /\ run' = [run EXCEPT ![t].pc = "count"]
  /\ UNCHANGED <<uses, loaded, loads, call, asked, counters, held, overlapped>>

Key(t) == KeyOrder[Min(todo[t])]
Updates(t, key) == held[t] # None /\ Key(t) = key

\* increment and observe_duration: counters.get, ...
ReadCounter(t) ==
  /\ todo[t] # {} /\ held[t] = None
  /\ held' = [held EXCEPT ![t] = counters[Key(t)]]
  /\ overlapped' = (overlapped \/ \E u \in Threads : Updates(u, Key(t)))
  /\ UNCHANGED <<uses, loaded, loads, call, run, asked, traces, counters, todo>>

\* ... and the sum stored.
WriteCounter(t) ==
  /\ held[t] # None
  /\ counters' = [counters EXCEPT ![Key(t)] = held[t] + Increment(run[t], Key(t))]
  /\ held' = [held EXCEPT ![t] = None]
  /\ todo' = [todo EXCEPT ![t] = @ \ {Min(@)}]
  /\ UNCHANGED <<uses, loaded, loads, call, run, asked, traces, overlapped>>

\* The middleware counts the response.  It runs on the event loop, where no
\* other update of its counter can come in between.
Reply(t) ==
  /\ run[t].pc = "count" /\ todo[t] = {}
  /\ counters' = [counters EXCEPT
       ![<<"http_request_total", IF Succeeded(run[t]) THEN "2xx" ELSE "5xx">>] = @ + 1]
  /\ run' = [run EXCEPT ![t] = NoRun]
  /\ UNCHANGED <<uses, loaded, loads, call, asked, traces, todo, held, overlapped>>

ProviderWorks(t) ==
  /\ ProviderStep(t)
  /\ UNCHANGED <<run, asked, traces, counters, todo, held, overlapped>>

Continue(t) ==
  \/ RunStage(t) \/ CallProvider(t) \/ ProviderWorks(t) \/ CallEnds(t)
  \/ Finish(t) \/ ReadCounter(t) \/ WriteCounter(t) \/ Reply(t)

TraceNext == \E t \in Threads : Ask(t) \/ Continue(t)

TraceSafety == TraceInit /\ [][TraceNext]_traceVars

\* A pool thread that has begun a question goes on with it.
TraceSpec == TraceSafety /\ \A t \in Threads : WF_traceVars(Continue(t))

-----------------------------------------------------------------------------
(* Properties.                                                             *)

IsStages(stages) ==
  /\ Len(stages) <= Len(StageOrder)
  /\ \A n \in 1..Len(stages) : stages[n] \in {StageOrder[n]} \X BOOLEAN

TraceTypeOK ==
  /\ uses \in [Roles -> Kinds]
  /\ loaded \in [Roles -> BOOLEAN] /\ loads \in [Roles -> Nat]
  /\ \A t \in Threads :
       /\ call[t].pc \in {"none", "load", "send", "sleep", "returned", "raised"}
       /\ call[t].role \in Roles \cup {None}
       /\ call[t].pc = "none" <=> run[t].pc # "call"
       /\ run[t].pc \in {"idle", "stage", "call", "finish", "count"}
       /\ run[t].id \in 0..asked
       /\ run[t].pc = "stage" => Len(run[t].stages) < Len(StageOrder)
       /\ todo[t] \subseteq DOMAIN KeyOrder
       /\ held[t] # None => held[t] \in Nat /\ todo[t] # {}
       /\ todo[t] # {} => run[t].pc = "count"
  /\ asked \in 0..MaxQuestions
  /\ counters \in [CounterKeys -> Nat]
  /\ overlapped \in BOOLEAN

Passed(stages, name) == <<name, TRUE>> \in Range(stages)

TellsTheStages(trace) ==
  LET last == Len(trace.stages)
  IN  /\ IsStages(trace.stages) /\ last > 0
      /\ \A m \in 1..(last - 1) : trace.stages[m][2]
      /\ trace.success <=> last = Len(StageOrder) /\ trace.stages[last][2]
      /\ ~trace.success =>
           (trace.error = "NoRelevantEvidenceError" <=> trace.stages[last][2])
      /\ trace.found.vector # None <=> Passed(trace.stages, "semantic_retrieval")
      /\ trace.found.bm25 # None <=> Passed(trace.stages, "lexical_retrieval")
      /\ trace.found.fused # None <=> Passed(trace.stages, "hybrid_fusion")
      /\ trace.found.final # None <=> Passed(trace.stages, "reranking")
      /\ trace.found.evidence # None <=> Passed(trace.stages, "evidence_construction")

\* A recorded trace tells what happened: its stages are the first ones, in
\* their order, and all but the last succeeded; it is a success if and only if
\* all ten did; it failed in a stage, or else after one that found nothing;
\* and it has the counts of the stages that succeeded and of no other.
TraceTellsTheStages == \A n \in DOMAIN traces : TellsTheStages(traces[n])

\* Every question that has been asked is either in progress or recorded, and
\* recorded once, whatever failed in it.
OneTracePerQuestion ==
  \A id \in 1..asked :
    Cardinality({n \in DOMAIN traces : traces[n].id = id})
    + Cardinality({t \in Threads : /\ run[t].id = id
                                   /\ run[t].pc \in {"stage", "call", "finish"}}) = 1

\* What the traces say a counter should be: the sum of their increments, as the
\* number of pairs of a trace and one of its units.
Owed(key) ==
  Cardinality(UNION {{n} \X (1..Increment(traces[n], key)) : n \in DOMAIN traces})

Responses(ok) == Cardinality({n \in DOMAIN traces : traces[n].success = ok})

\* Updates that overlap lose counts and never invent one; as long as no two
\* updates of a counter have overlapped, the counters are what the traces add
\* up to once the questions are answered: the two records that a question
\* leaves agree.  The responses are counted exactly in any case.
CountersAgree ==
  LET answered == \A t \in Threads : run[t] = NoRun
  IN  /\ \A key \in Followed :
           /\ counters[key] <= Owed(key)
           /\ answered /\ ~overlapped => counters[key] = Owed(key)
      /\ \A ok \in BOOLEAN :
           LET counted == counters[<<"http_request_total", IF ok THEN "2xx" ELSE "5xx">>]
           IN  /\ counted <= Responses(ok)
               /\ answered => counted = Responses(ok)

\* Every question ends, through retries and failures of every provider, and is
\* traced and counted.
QuestionsAreCounted ==
  \A id \in 1..MaxQuestions :
    asked >= id ~> /\ \E n \in DOMAIN traces : traces[n].id = id
                   /\ \A t \in Threads : run[t].id # id
=============================================================================
