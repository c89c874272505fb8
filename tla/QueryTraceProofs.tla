-------------------------- MODULE QueryTraceProofs --------------------------
(***************************************************************************)
(* What the recorded traces tell, for any number of threads and questions, *)
(* any deployments, any errors of the providers and any limits.            *)
(***************************************************************************)
EXTENDS QueryTrace, FiniteSetTheorems, TLAPS

Open == {"stage", "call"}
Errors == {"NoRelevantEvidenceError", "QueryExecutionError"}

\* A stage as it is recorded when it is left, without an exception or by one.
Good(n) == <<StageOrder[n], TRUE>>
Bad(n)  == <<StageOrder[n], FALSE>>
Steps == {Good(n) : n \in 1..10} \cup {Bad(n) : n \in 1..10}

Runs == [pc : {"idle", "stage", "call", "finish", "count"},
         id : Nat,
         stages : Seq(Steps),
         found : [ResultCounts -> Nat \cup {None}],
         error : Errors \cup {None}]

\* The counts are those of the first n stages.
CountsOf(found, n) ==
  /\ found["vector"] # None <=> n >= 3
  /\ found["bm25"] # None <=> n >= 4
  /\ found["fused"] # None <=> n >= 5
  /\ found["final"] # None <=> n >= 6
  /\ found["evidence"] # None <=> n >= 7

\* The stages of a question in progress have all succeeded.
OpenInv(r) ==
  /\ Len(r.stages) < Len(StageOrder)
  /\ \A m \in 1..Len(r.stages) : r.stages[m] = Good(m)
  /\ CountsOf(r.found, Len(r.stages))
  /\ r.error = None

\* Of one that has ended, all but the last.
EndInv(r) ==
  LET last == Len(r.stages)
  IN  /\ last \in 1..Len(StageOrder)
      /\ \A m \in 1..(last - 1) : r.stages[m] = Good(m)
      /\ \/ /\ r.stages[last] = Good(last)
            /\ r.error = (IF last = Len(StageOrder) THEN None ELSE "NoRelevantEvidenceError")
            /\ CountsOf(r.found, last)
         \/ /\ r.stages[last] = Bad(last)
            /\ r.error = "QueryExecutionError"
            /\ CountsOf(r.found, last - 1)

RunInv(r) ==
  /\ r \in Runs
  /\ r.pc \in Open => OpenInv(r)
  /\ r.pc = "finish" => EndInv(r)

Records == [id : Nat, success : BOOLEAN, stages : Seq(Steps),
            error : Errors \cup {None}, found : [ResultCounts -> Nat \cup {None}]]

Tells(trace) == EndInv(trace) /\ (trace.success <=> trace.error = None)

StagesInv ==
  /\ DOMAIN run = Threads
  /\ \A t \in Threads : RunInv(run[t])
  /\ traces \in Seq(Records)
  /\ \A n \in DOMAIN traces : Tells(traces[n])

-----------------------------------------------------------------------------
(* The stages. *)

LEMMA StageNames ==
  /\ Len(StageOrder) = 10
  /\ StageOrder[1] = "validation" /\ StageOrder[2] = "query_embedding"
  /\ StageOrder[3] = "semantic_retrieval" /\ StageOrder[4] = "lexical_retrieval"
  /\ StageOrder[5] = "hybrid_fusion" /\ StageOrder[6] = "reranking"
  /\ StageOrder[7] = "evidence_construction" /\ StageOrder[8] = "prompt_construction"
  /\ StageOrder[9] = "generation" /\ StageOrder[10] = "citation_validation"
BY DEF StageOrder

\* A name is that of one stage.
LEMMA StagesDiffer ==
  \A m \in 1..10, n \in 1..10 : StageOrder[m] = StageOrder[n] => m = n
BY StageNames

LEMMA GoodOrBad ==
  /\ \A m \in 1..10, n \in 1..10 : Good(m) = Good(n) => m = n
  /\ \A m \in 1..10, n \in 1..10 : Bad(m) # Good(n)
  /\ \A n \in 1..10 : Good(n)[2] /\ ~Bad(n)[2]
<1>1. \A m \in 1..10, n \in 1..10 : Good(m) = Good(n) => StageOrder[m] = StageOrder[n]
  BY DEF Good
<1>2. \A m \in 1..10, n \in 1..10 : Bad(m) # Good(n)
  BY Zenon DEF Good, Bad
<1>3. \A n \in 1..10 : Good(n)[2] /\ ~Bad(n)[2]
  BY DEF Good, Bad
<1> QED
  BY <1>1, <1>2, <1>3, StagesDiffer

\* The recorded stages: the first ones, and all but perhaps the last good.
Prefix(s, last) ==
  /\ s \in Seq(Steps) /\ Len(s) = last /\ last \in 1..10
  /\ \A m \in 1..(last - 1) : s[m] = Good(m)
  /\ s[last] \in {Good(last), Bad(last)}

\* A stage passed if and only if it is among the recorded stages as passed.
LEMMA PassedAt ==
  ASSUME NEW s, NEW last, Prefix(s, last), NEW n \in 1..10
  PROVE  Passed(s, StageOrder[n])
         <=> n < last \/ (n = last /\ s[last] = Good(last))
<1>1. last \in 1..10 /\ DOMAIN s = 1..last
  BY DEF Prefix
<1>2. Passed(s, StageOrder[n]) <=> \E m \in 1..last : s[m] = Good(n)
  BY <1>1, Zenon DEF Passed, Range, Good
<1>3. \A m \in 1..last : m < last => s[m] = Good(m)
  BY <1>1 DEF Prefix
<1>4. s[last] \in {Good(last), Bad(last)}
  BY DEF Prefix
<1>5. \A m \in 1..last : s[m] = Good(n) => m = n
  BY <1>1, <1>3, <1>4, GoodOrBad
<1> QED
  BY <1>1, <1>2, <1>3, <1>5

-----------------------------------------------------------------------------
(* The steps. *)

Counts == [ResultCounts -> Nat \cup {None}]

\* A stage that passes leaves the counts of the stages up to it.
LEMMA CountsGrow ==
  ASSUME NEW k \in 1..10, NEW f \in Counts, CountsOf(f, k - 1),
         NEW found \in FoundAfter(StageOrder[k], f)
  PROVE  found \in Counts /\ CountsOf(found, k)
<1> USE QueryTraceAssumption DEF Counts, ResultCounts
<1>1. CASE k \in {1, 2, 8, 9, 10}
  <2>1. found = f
    BY <1>1, StageNames DEF FoundAfter
  <2> QED
    BY <1>1, <2>1 DEF CountsOf
<1>2. CASE k = 3
  <2>1. PICK n \in 0..SearchTopK : found = [f EXCEPT !["vector"] = n]
    BY <1>2, StageNames DEF FoundAfter
  <2> QED
    BY <1>2, <2>1 DEF CountsOf
<1>3. CASE k = 4
  <2>1. PICK n \in 0..SearchTopK : found = [f EXCEPT !["bm25"] = n]
    BY <1>3, StageNames DEF FoundAfter
  <2> QED
    BY <1>3, <2>1 DEF CountsOf
<1>4. CASE k = 5
  <2>1. PICK n \in 0..HybridTopK : found = [f EXCEPT !["fused"] = n]
    BY <1>4, StageNames DEF FoundAfter
  <2> QED
    BY <1>4, <2>1 DEF CountsOf
<1>5. CASE k = 6
  <2>1. found = [f EXCEPT !["final"] = IF f["fused"] < RerankTopK THEN f["fused"] ELSE RerankTopK]
    BY <1>5, StageNames DEF FoundAfter
  <2>2. f["fused"] \in Nat
    BY <1>5 DEF CountsOf
  <2> QED
    BY <1>5, <2>1, <2>2 DEF CountsOf
<1>6. CASE k = 7
  <2>1. f["final"] \in Nat
    BY <1>6 DEF CountsOf
  <2>2. PICK n \in 1..f["final"] : found = [f EXCEPT !["evidence"] = n]
    BY <1>6, StageNames DEF FoundAfter
  <2> QED
    BY <1>6, <2>1, <2>2 DEF CountsOf
<1> QED
  BY <1>1, <1>2, <1>3, <1>4, <1>5, <1>6

\* s is a record of k stages that ends with step.
Recorded(s, k, step) ==
  /\ Len(s) = k /\ s \in Seq(Steps)
  /\ \A m \in 1..(k - 1) : s[m] = Good(m)
  /\ s[k] = step

LEMMA NextStage ==
  ASSUME NEW r \in Runs, OpenInv(r), NEW k, k = Len(r.stages) + 1,
         NEW step \in {Good(k), Bad(k)}
  PROVE  Recorded(Append(r.stages, step), k, step)
<1>1. k \in 1..10 /\ r.stages \in Seq(Steps)
  BY StageNames DEF OpenInv, Runs
<1>2. step \in Steps
  BY <1>1 DEF Steps
<1>3. \A m \in 1..(k - 1) : r.stages[m] = Good(m)
  BY <1>1 DEF OpenInv
<1> QED
  BY <1>1, <1>2, <1>3 DEF Recorded

LEMMA PassKeeps ==
  ASSUME NEW t \in Threads, DOMAIN run = Threads, RunInv(run[t]), run[t].pc \in Open,
         PassStage(t)
  PROVE  RunInv(run'[t])
<1>1. PICK r \in Runs : r = run[t] /\ OpenInv(r)
  BY DEF RunInv
<1>2. PICK k \in 1..10 : k = Len(r.stages) + 1
  BY <1>1, StageNames DEF OpenInv, Runs
<1>3. Stage(t) = StageOrder[k]
  BY <1>1, <1>2 DEF Stage
<1> DEFINE empty(found) == ComesUpEmpty(StageOrder[k], found)
           error(found) == IF empty(found) THEN "NoRelevantEvidenceError" ELSE None
           pc(found) == IF empty(found) \/ StageOrder[k] = "citation_validation"
                        THEN "finish" ELSE "stage"
<1>4. PICK found \in FoundAfter(StageOrder[k], r.found) :
        run' = [run EXCEPT ![t].stages = Append(@, Good(k)), ![t].found = found,
                           ![t].error = error(found), ![t].pc = pc(found)]
  <2>1. PICK found \in FoundAfter(Stage(t), run[t].found) :
          run' = [run EXCEPT
            ![t].stages = Append(@, <<Stage(t), TRUE>>),
            ![t].found = found,
            ![t].error = IF ComesUpEmpty(Stage(t), found) THEN "NoRelevantEvidenceError" ELSE None,
            ![t].pc = IF ComesUpEmpty(Stage(t), found) \/ Stage(t) = "citation_validation"
                      THEN "finish" ELSE "stage"]
    BY DEF PassStage
  <2>2. found \in FoundAfter(StageOrder[k], r.found)
    BY <1>1, <1>3, <2>1
  <2>3. run' = [run EXCEPT ![t].stages = Append(@, Good(k)), ![t].found = found,
                           ![t].error = error(found), ![t].pc = pc(found)]
    BY <1>3, <2>1, Zenon DEF Good
  <2> QED
    BY <2>2, <2>3
<1>5. PICK s : s = Append(r.stages, Good(k))
  OBVIOUS
<1>6. PICK q : q = run'[t]
  OBVIOUS
<1>7. /\ q = [r EXCEPT !.stages = s, !.found = found, !.error = error(found), !.pc = pc(found)]
  BY <1>1, <1>4, <1>5, <1>6
<1> HIDE DEF error, pc
<1>8. /\ q.stages = s /\ q.found = found /\ q.error = error(found) /\ q.pc = pc(found)
      /\ q.id = r.id /\ q = [pc |-> q.pc, id |-> q.id, stages |-> q.stages,
                             found |-> q.found, error |-> q.error]
  BY <1>7 DEF Runs
<1>9. /\ Len(s) = k /\ s \in Seq(Steps)
      /\ \A m \in 1..(k - 1) : s[m] = Good(m)
      /\ s[k] = Good(k)
  <2>1. Recorded(Append(r.stages, Good(k)), k, Good(k))
    BY <1>1, <1>2, NextStage
  <2> QED
    BY <1>5, <2>1 DEF Recorded
<1>10. found \in Counts /\ CountsOf(found, k)
  <2>1. CountsOf(r.found, k - 1) /\ r.found \in Counts
    BY <1>1, <1>2 DEF OpenInv, Runs, Counts
  <2> QED
    BY <2>1, CountsGrow
<1>11. q \in Runs
  <2>1. error(found) \in Errors \cup {None} /\ pc(found) \in {"finish", "stage"}
    BY DEF error, pc, Errors
  <2>2. r.id \in Nat
    BY DEF Runs
  <2> QED
    BY <1>8, <1>9, <1>10, <2>1, <2>2 DEF Runs, Counts
<1>12. CASE pc(found) = "stage"
  <2>1. k # 10 /\ ~empty(found)
    BY <1>12, StageNames DEF pc
  <2>2. error(found) = None
    BY <2>1 DEF error
  <2>3. OpenInv(q)
    BY <1>8, <1>9, <1>10, <2>1, <2>2, StageNames DEF OpenInv
  <2> QED
    BY <1>6, <1>8, <1>11, <1>12, <2>3 DEF RunInv
<1>13. CASE pc(found) # "stage"
  <2>1. pc(found) = "finish" /\ (empty(found) \/ k = 10)
    BY <1>13, StageNames, StagesDiffer DEF pc
  <2>2. error(found) = (IF k = 10 THEN None ELSE "NoRelevantEvidenceError")
    <3>1. empty(found) => k # 10
      BY StageNames DEF ComesUpEmpty
    <3> QED
      BY <2>1, <3>1 DEF error
  <2>3. EndInv(q)
    BY <1>8, <1>9, <1>10, <2>2, StageNames DEF EndInv
  <2> QED
    BY <1>6, <1>8, <1>11, <2>1, <2>3 DEF RunInv, Open
<1> QED
  BY <1>12, <1>13

LEMMA FailKeeps ==
  ASSUME NEW t \in Threads, DOMAIN run = Threads, RunInv(run[t]), run[t].pc \in Open,
         FailStage(t)
  PROVE  RunInv(run'[t])
<1>1. PICK r \in Runs : r = run[t] /\ OpenInv(r)
  BY DEF RunInv
<1>2. PICK k \in 1..10 : k = Len(r.stages) + 1
  BY <1>1, StageNames DEF OpenInv, Runs
<1>3. Stage(t) = StageOrder[k]
  BY <1>1, <1>2 DEF Stage
<1>4. run' = [run EXCEPT ![t].stages = Append(@, Bad(k)),
                         ![t].error = "QueryExecutionError", ![t].pc = "finish"]
  BY <1>3 DEF FailStage, Bad
<1>5. PICK s : s = Append(r.stages, Bad(k))
  OBVIOUS
<1>6. PICK q : q = run'[t]
  OBVIOUS
<1>7. q = [r EXCEPT !.stages = s, !.error = "QueryExecutionError", !.pc = "finish"]
  BY <1>1, <1>4, <1>5, <1>6
<1>8. /\ q.stages = s /\ q.found = r.found /\ q.error = "QueryExecutionError"
      /\ q.pc = "finish" /\ q.id = r.id
      /\ q = [pc |-> q.pc, id |-> q.id, stages |-> q.stages,
              found |-> q.found, error |-> q.error]
  BY <1>7 DEF Runs
<1>9. /\ Len(s) = k /\ s \in Seq(Steps)
      /\ \A m \in 1..(k - 1) : s[m] = Good(m)
      /\ s[k] = Bad(k)
  <2>1. Recorded(Append(r.stages, Bad(k)), k, Bad(k))
    BY <1>1, <1>2, NextStage
  <2> QED
    BY <1>5, <2>1 DEF Recorded
<1>10. r.id \in Nat /\ r.found \in Counts /\ CountsOf(r.found, k - 1)
  BY <1>1, <1>2 DEF OpenInv, Runs, Counts
<1>11. q \in Runs
  BY <1>8, <1>9, <1>10 DEF Runs, Counts, Errors
<1>12. EndInv(q)
  BY <1>8, <1>9, <1>10, StageNames DEF EndInv
<1> QED
  BY <1>6, <1>8, <1>11, <1>12 DEF RunInv, Open

\* A run that only moves on keeps what it holds.
LEMMA Moves ==
  ASSUME NEW r \in Runs, NEW pc \in {"call", "count"}, NEW q, q = [r EXCEPT !.pc = pc],
         pc = "call" => OpenInv(r)
  PROVE  RunInv(q)
<1>1. /\ q.stages = r.stages /\ q.found = r.found /\ q.error = r.error /\ q.pc = pc
      /\ q \in Runs
  BY DEF Runs
<1>2. pc = "call" => OpenInv(q)
  BY <1>1 DEF OpenInv
<1> QED
  BY <1>1, <1>2 DEF RunInv, Open

LEMMA NewRun ==
  ASSUME NEW id \in Nat
  PROVE  RunInv(NoRun) /\ RunInv([NoRun EXCEPT !.pc = "stage", !.id = id])
<1>1. PICK q : q = [NoRun EXCEPT !.pc = "stage", !.id = id]
  OBVIOUS
<1>2. NothingFound \in [ResultCounts -> Nat \cup {None}]
  BY DEF NothingFound
<1>3. NoRun \in Runs
  BY <1>2 DEF NoRun, Runs
<1>4. q = [pc |-> "stage", id |-> id, stages |-> <<>>, found |-> NothingFound, error |-> None]
  BY <1>1 DEF NoRun
<1>5. CountsOf(NothingFound, 0)
  BY DEF CountsOf, NothingFound, ResultCounts
<1>6. OpenInv(q)
  BY <1>4, <1>5, StageNames DEF OpenInv
<1>7. RunInv(NoRun)
  BY <1>3 DEF RunInv, NoRun, Open
<1>8. q \in Runs
  BY <1>2, <1>4 DEF Runs
<1> QED
  BY <1>1, <1>4, <1>6, <1>7, <1>8 DEF RunInv

\* The trace that is recorded is that of the run.
LEMMA FinishTells ==
  ASSUME NEW r, RunInv(r), r.pc = "finish"
  PROVE  LET trace == [id |-> r.id, success |-> Succeeded(r), stages |-> r.stages,
                       error |-> r.error, found |-> r.found]
         IN  trace \in Records /\ Tells(trace)
<1> DEFINE trace == [id |-> r.id, success |-> Succeeded(r), stages |-> r.stages,
                     error |-> r.error, found |-> r.found]
<1>1. /\ r.id \in Nat /\ r.stages \in Seq(Steps) /\ r.error \in Errors \cup {None}
      /\ r.found \in [ResultCounts -> Nat \cup {None}] /\ EndInv(r)
  BY DEF RunInv, Runs
<1>2. Succeeded(r) \in BOOLEAN /\ (Succeeded(r) <=> r.error = None)
  BY DEF Succeeded
<1>3. trace \in Records
  BY <1>1, <1>2 DEF Records
<1>4. EndInv(trace)
  BY <1>1 DEF EndInv
<1> QED
  BY <1>2, <1>3, <1>4 DEF Tells

LEMMA StagesStep == StagesInv /\ asked \in Nat /\ [TraceNext]_traceVars => StagesInv'
<1> SUFFICES ASSUME StagesInv, asked \in Nat, [TraceNext]_traceVars PROVE StagesInv'
  OBVIOUS
<1> USE DEF StagesInv
\* A step of a thread that leaves its run as it should be and records nothing.
<1>1. ASSUME NEW t \in Threads, DOMAIN run' = Threads, RunInv(run'[t]), traces' = traces,
             \A u \in Threads : u # t => run'[u] = run[u]
      PROVE  StagesInv'
  <2>1. ASSUME NEW u \in Threads PROVE RunInv(run'[u])
    BY <1>1
  <2>2. ASSUME NEW u \in Threads PROVE RunInv(run[u])'
    <3>1. PICK q : q = run'[u]
      OBVIOUS
    <3> QED
      BY <2>1, <3>1 DEF RunInv, Runs, OpenInv, EndInv
  <2> QED
    BY <1>1, <2>2
\* Asking, ...
<1>2. ASSUME NEW t \in Threads, Ask(t) PROVE StagesInv'
  <2>1. run' = [run EXCEPT ![t] = [NoRun EXCEPT !.pc = "stage", !.id = asked + 1]]
        /\ traces' = traces
    BY <1>2 DEF Ask
  <2>2. RunInv(run'[t])
    <3>1. PICK id \in Nat : id = asked + 1
      OBVIOUS
    <3>2. run'[t] = [NoRun EXCEPT !.pc = "stage", !.id = id]
      BY <2>1, <3>1
    <3>3. RunInv([NoRun EXCEPT !.pc = "stage", !.id = id])
      BY NewRun
    <3> QED
      BY <3>2, <3>3
  <2> QED
    BY <1>1, <2>1, <2>2
\* ... the stages ...
<1>3. ASSUME NEW t \in Threads, RunStage(t) \/ CallEnds(t) PROVE StagesInv'
  <2>1. /\ run[t].pc \in Open /\ traces' = traces
        /\ PassStage(t) \/ FailStage(t)
    BY <1>3 DEF RunStage, CallEnds, Open
  <2>2. RunInv(run'[t])
    BY <2>1, PassKeeps, FailKeeps
  <2>3. DOMAIN run' = Threads /\ \A u \in Threads : u # t => run'[u] = run[u]
    <3>1. CASE PassStage(t)
      BY <3>1 DEF PassStage
    <3>2. CASE FailStage(t)
      BY <3>2 DEF FailStage
    <3> QED
      BY <2>1, <3>1, <3>2
  <2> QED
    BY <1>1, <2>1, <2>2, <2>3
<1>4. ASSUME NEW t \in Threads, CallProvider(t) PROVE StagesInv'
  <2>1. PICK r \in Runs : r = run[t] /\ OpenInv(r)
    BY <1>4 DEF CallProvider, RunInv, Open
  <2>2. run' = [run EXCEPT ![t].pc = "call"] /\ traces' = traces
    BY <1>4 DEF CallProvider
  <2>3. run'[t] = [r EXCEPT !.pc = "call"]
    BY <2>1, <2>2
  <2>4. RunInv(run'[t])
    BY <2>1, <2>3, Moves
  <2> QED
    BY <1>1, <2>2, <2>4
\* ... and the answer.
<1>5. ASSUME NEW t \in Threads, Reply(t) PROVE StagesInv'
  <2>1. run' = [run EXCEPT ![t] = NoRun] /\ traces' = traces
    BY <1>5 DEF Reply
  <2>2. RunInv(run'[t])
    <3>1. run'[t] = NoRun
      BY <2>1
    <3> QED
      BY <3>1, NewRun
  <2> QED
    BY <1>1, <2>1, <2>2
<1>6. ASSUME NEW t \in Threads, Finish(t) PROVE StagesInv'
  <2>1. PICK r \in Runs : r = run[t] /\ RunInv(r) /\ r.pc = "finish"
    BY <1>6 DEF Finish, RunInv
  <2>2. PICK trace : trace = [id |-> r.id, success |-> Succeeded(r), stages |-> r.stages,
                              error |-> r.error, found |-> r.found]
    OBVIOUS
  <2>3. trace \in Records /\ Tells(trace)
    BY <2>1, <2>2, FinishTells
  <2>4. traces' = Append(traces, trace) /\ run' = [run EXCEPT ![t].pc = "count"]
    BY <1>6, <2>1, <2>2 DEF Finish
  <2>5. /\ traces' \in Seq(Records) /\ Len(traces') = Len(traces) + 1
        /\ \A n \in 1..Len(traces) : traces'[n] = traces[n]
        /\ traces'[Len(traces) + 1] = trace
    BY <2>3, <2>4
  <2>6. ASSUME NEW n \in DOMAIN traces' PROVE Tells(traces'[n])
    <3>1. n \in 1..(Len(traces) + 1)
      BY <2>5
    <3> QED
      BY <2>3, <2>5, <3>1
  <2>7. ASSUME NEW u \in Threads PROVE RunInv(run'[u])
    <3>1. CASE u = t
      <4>1. run'[u] = [r EXCEPT !.pc = "count"]
        BY <2>1, <2>4, <3>1
      <4> QED
        BY <4>1, Moves
    <3>2. CASE u # t
      BY <2>4, <3>2
    <3> QED
      BY <3>1, <3>2
  <2>8. ASSUME NEW u \in Threads PROVE RunInv(run[u])'
    <3>1. PICK q : q = run'[u]
      OBVIOUS
    <3> QED
      BY <2>7, <3>1 DEF RunInv, Runs, OpenInv, EndInv
  <2>9. ASSUME NEW n \in DOMAIN traces' PROVE Tells(traces[n])'
    <3>1. PICK q : q = traces'[n]
      OBVIOUS
    <3> QED
      BY <2>6, <3>1 DEF Tells, EndInv
  <2> QED
    BY <2>4, <2>5, <2>8, <2>9
<1>7. CASE UNCHANGED <<run, traces>>
  <2>1. ASSUME NEW u \in Threads PROVE RunInv(run[u])'
    BY <1>7 DEF RunInv, Runs, OpenInv, EndInv
  <2>2. ASSUME NEW n \in DOMAIN traces PROVE Tells(traces[n])'
    BY <1>7 DEF Tells, EndInv
  <2> QED
    BY <1>7, <2>1, <2>2
<1>8. ASSUME NEW t \in Threads, ProviderWorks(t) \/ ReadCounter(t) \/ WriteCounter(t)
      PROVE  UNCHANGED <<run, traces>>
  BY <1>8 DEF ProviderWorks, ReadCounter, WriteCounter
<1> QED
  <2>1. CASE UNCHANGED traceVars
    BY <1>7, <2>1 DEF traceVars
  <2>2. CASE TraceNext
    BY <1>2, <1>3, <1>4, <1>5, <1>6, <1>7, <1>8, <2>2 DEF TraceNext, Continue
  <2> QED
    BY <2>1, <2>2

-----------------------------------------------------------------------------
(* One trace for a question.                                               *)

InProgress(t, id) == run[t].id = id /\ run[t].pc \in {"stage", "call", "finish"}
Traced(n, id) == traces[n].id = id

OnceInv ==
  /\ asked \in Nat
  /\ \A t \in Threads : run[t].id \in 0..asked
  /\ \A n \in DOMAIN traces : traces[n].id \in 0..asked
  /\ \A id \in 1..asked :
       \/ /\ \A t \in Threads : ~InProgress(t, id)
          /\ \E n \in DOMAIN traces :
               Traced(n, id) /\ \A m \in DOMAIN traces : Traced(m, id) => m = n
       \/ /\ \A n \in DOMAIN traces : ~Traced(n, id)
          /\ \E t \in Threads :
               InProgress(t, id) /\ \A u \in Threads : InProgress(u, id) => u = t

LEMMA OnceStep ==
  ASSUME StagesInv, OnceInv, [TraceNext]_traceVars
  PROVE  OnceInv'
<1> USE DEF OnceInv, InProgress, Traced
\* A step that leaves the questions in progress as they are.
<1>1. ASSUME asked' = asked, traces' = traces,
             \A t \in Threads : /\ run'[t].id \in 0..asked
                                /\ \A id \in 1..asked : InProgress(t, id)' <=> InProgress(t, id)
      PROVE  OnceInv'
  BY <1>1
<1>2. ASSUME NEW t \in Threads, PassStage(t) \/ FailStage(t), run[t].pc \in Open,
             asked' = asked, traces' = traces
      PROVE  OnceInv'
  <2>1. /\ run'[t].id = run[t].id /\ run'[t].pc \in {"stage", "finish"}
        /\ \A u \in Threads : u # t => run'[u] = run[u]
    <3>1. CASE PassStage(t)
      BY <3>1 DEF PassStage, StagesInv, RunInv, Runs
    <3>2. CASE FailStage(t)
      BY <3>2 DEF FailStage, StagesInv, RunInv, Runs
    <3> QED
      BY <1>2, <3>1, <3>2
  <2> QED
    BY <1>1, <1>2, <2>1 DEF Open
<1>3. ASSUME NEW t \in Threads, Ask(t) PROVE OnceInv'
  <2>1. /\ run[t] = NoRun /\ asked' = asked + 1 /\ traces' = traces
        /\ run'[t].pc = "stage" /\ run'[t].id = asked + 1
        /\ \A u \in Threads : u # t => run'[u] = run[u]
    BY <1>3 DEF Ask, StagesInv, NoRun
  <2>2. ASSUME NEW id \in 1..asked, NEW u \in Threads
        PROVE  InProgress(u, id)' <=> InProgress(u, id)
    BY <2>1 DEF NoRun
  <2>0. PICK new \in Nat : new = asked + 1
    OBVIOUS
  <2>3. \A u \in Threads : InProgress(u, new)' <=> u = t
    BY <2>0, <2>1
  <2>4. \A n \in DOMAIN traces : ~Traced(n, new)
    BY <2>0
  <2>5. ASSUME NEW id \in 1..(asked + 1)
        PROVE  \/ /\ \A u \in Threads : ~InProgress(u, id)'
                  /\ \E n \in DOMAIN traces :
                       Traced(n, id) /\ \A m \in DOMAIN traces : Traced(m, id) => m = n
               \/ /\ \A n \in DOMAIN traces : ~Traced(n, id)
                  /\ \E u \in Threads :
                       InProgress(u, id)' /\ \A v \in Threads : InProgress(v, id)' => v = u
    <3>1. CASE id = new
      BY <2>3, <2>4, <3>1
    <3>2. CASE id \in 1..asked
      BY <2>2, <3>2
    <3> QED
      BY <2>0, <3>1, <3>2
  <2>6. asked' \in Nat /\ (\A u \in Threads : run'[u].id \in 0..asked')
        /\ \A n \in DOMAIN traces' : traces'[n].id \in 0..asked'
    BY <2>1
  <2> QED
    BY <2>1, <2>5, <2>6
<1>4. ASSUME NEW t \in Threads, Finish(t) PROVE OnceInv'
  <2>1. PICK id : id = run[t].id
    OBVIOUS
  <2>2. PICK trace : trace.id = id /\ traces' = Append(traces, trace)
    BY <1>4, <2>1 DEF Finish
  <2>3. PICK k \in Nat : k = Len(traces) /\ DOMAIN traces = 1..k
    BY DEF StagesInv
  <2>4. /\ DOMAIN traces' = 1..(k + 1) /\ traces'[k + 1] = trace
        /\ \A n \in 1..k : traces'[n] = traces[n]
    BY <2>2, <2>3 DEF StagesInv
  <2>5. /\ run[t].pc = "finish" /\ run'[t].pc = "count" /\ run'[t].id = id /\ asked' = asked
        /\ \A u \in Threads : u # t => run'[u] = run[u]
    BY <1>4, <2>1 DEF Finish, StagesInv, RunInv, Runs
  <2>6. \A n \in 1..(k + 1) : n \in 1..k \/ n = k + 1
    OBVIOUS
  <2>7. asked' \in Nat /\ (\A u \in Threads : run'[u].id \in 0..asked')
        /\ \A n \in DOMAIN traces' : traces'[n].id \in 0..asked'
    BY <2>1, <2>2, <2>3, <2>4, <2>5
  <2>8. ASSUME NEW i \in 1..asked, i # id
        PROVE  \/ /\ \A u \in Threads : ~InProgress(u, i)'
                  /\ \E n \in DOMAIN traces' :
                       Traced(n, i)' /\ \A m \in DOMAIN traces' : Traced(m, i)' => m = n
               \/ /\ \A n \in DOMAIN traces' : ~Traced(n, i)'
                  /\ \E u \in Threads :
                       InProgress(u, i)' /\ \A v \in Threads : InProgress(v, i)' => v = u
    <3>1. \A u \in Threads : InProgress(u, i)' <=> InProgress(u, i)
      BY <2>1, <2>5, <2>8
    <3>2. \A n \in 1..k : Traced(n, i)' <=> Traced(n, i)
      BY <2>4
    <3>3. ~Traced(k + 1, i)'
      BY <2>2, <2>4, <2>8
    <3>4. CASE /\ \A n \in DOMAIN traces : ~Traced(n, i)
               /\ \E u \in Threads :
                    InProgress(u, i) /\ \A v \in Threads : InProgress(v, i) => v = u
      <4>1. \A n \in DOMAIN traces' : ~Traced(n, i)'
        BY <2>3, <2>4, <2>6, <3>2, <3>3, <3>4
      <4> QED
        BY <3>1, <3>4, <4>1
    <3>5. CASE /\ \A u \in Threads : ~InProgress(u, i)
               /\ \E n \in DOMAIN traces :
                    Traced(n, i) /\ \A m \in DOMAIN traces : Traced(m, i) => m = n
      <4>1. PICK n \in 1..k : Traced(n, i) /\ \A m \in 1..k : Traced(m, i) => m = n
        BY <2>3, <3>5
      <4>2. \A m \in DOMAIN traces' : Traced(m, i)' => m = n
        BY <2>4, <2>6, <3>2, <3>3, <4>1
      <4>3. n \in DOMAIN traces' /\ Traced(n, i)'
        BY <2>4, <3>2, <4>1
      <4> QED
        BY <3>1, <3>5, <4>2, <4>3
    <3> QED
      BY <3>4, <3>5
  <2>9. id \in 1..asked =>
          /\ \A u \in Threads : ~InProgress(u, id)'
          /\ \E n \in DOMAIN traces' :
               Traced(n, id)' /\ \A m \in DOMAIN traces' : Traced(m, id)' => m = n
    <3> SUFFICES ASSUME id \in 1..asked
                 PROVE  /\ \A u \in Threads : ~InProgress(u, id)'
                        /\ Traced(k + 1, id)' /\ \A m \in 1..k : ~Traced(m, id)'
      BY <2>4, <2>6
    <3>1. InProgress(t, id)
      BY <2>1, <2>5
    <3>2. /\ \A n \in 1..k : ~Traced(n, id)
          /\ \A u \in Threads : InProgress(u, id) => u = t
      BY <2>3, <3>1
    <3> QED
      BY <2>2, <2>4, <2>5, <3>2
  <2> QED
    BY <2>5, <2>7, <2>8, <2>9
<1>5. ASSUME NEW t \in Threads, CallProvider(t) \/ Reply(t) PROVE OnceInv'
  <2>1. /\ asked' = asked /\ traces' = traces
        /\ \A u \in Threads : u # t => run'[u] = run[u]
    BY <1>5 DEF CallProvider, Reply, StagesInv
  <2>2. \/ run'[t].id = run[t].id /\ run'[t].pc = "call" /\ run[t].pc = "stage"
        \/ run'[t].id = 0 /\ run'[t].pc = "idle" /\ run[t].pc = "count"
    BY <1>5 DEF CallProvider, Reply, NoRun, StagesInv, RunInv, Runs
  <2> QED
    BY <1>1, <2>1, <2>2
<1>6. CASE UNCHANGED <<run, traces, asked>>
  BY <1>6
<1>7. ASSUME NEW t \in Threads, ProviderWorks(t) \/ ReadCounter(t) \/ WriteCounter(t)
      PROVE  UNCHANGED <<run, traces, asked>>
  BY <1>7 DEF ProviderWorks, ReadCounter, WriteCounter
<1>8. ASSUME NEW t \in Threads, RunStage(t) \/ CallEnds(t) PROVE OnceInv'
  <2>1. /\ run[t].pc \in Open /\ traces' = traces /\ asked' = asked
        /\ PassStage(t) \/ FailStage(t)
    BY <1>8 DEF RunStage, CallEnds, Open
  <2> QED
    BY <1>2, <2>1
<1> QED
  <2>1. CASE UNCHANGED traceVars
    BY <1>6, <2>1 DEF traceVars
  <2>2. CASE TraceNext
    BY <1>3, <1>4, <1>5, <1>6, <1>7, <1>8, <2>2 DEF TraceNext, Continue
  <2> QED
    BY <2>1, <2>2

-----------------------------------------------------------------------------
(* What it gives.                                                          *)

LEMMA TraceInvariant == TraceSafety => [](StagesInv /\ OnceInv)
<1>1. TraceInit => StagesInv
  <2> SUFFICES ASSUME TraceInit PROVE StagesInv
    OBVIOUS
  <2>1. run = [t \in Threads |-> NoRun] /\ traces = <<>>
    BY DEF TraceInit
  <2>2. RunInv(NoRun)
    BY 0 \in Nat, NewRun
  <2> QED
    BY <2>1, <2>2 DEF StagesInv
<1>2. TraceInit => OnceInv
  BY DEF TraceInit, OnceInv, NoRun
<1>3. StagesInv /\ OnceInv /\ [TraceNext]_traceVars => (StagesInv /\ OnceInv)'
  <2> SUFFICES ASSUME StagesInv, OnceInv, [TraceNext]_traceVars PROVE (StagesInv /\ OnceInv)'
    OBVIOUS
  <2>1. asked \in Nat
    BY DEF OnceInv
  <2> QED
    BY <2>1, StagesStep, OnceStep
<1> QED
  BY <1>1, <1>2, <1>3, PTL DEF TraceSafety

\* Whatever the providers and the stages do, a recorded trace has the stages
\* that were run, in their order, and the error and the counts that go with
\* them.
THEOREM TracesTellTheStages == TraceSpec => []TraceTellsTheStages
<1>1. ASSUME StagesInv PROVE TraceTellsTheStages
  <2> SUFFICES ASSUME NEW n \in DOMAIN traces
               PROVE  TellsTheStages(traces[n])
    BY DEF TraceTellsTheStages
  <2>1. PICK trace \in Records : trace = traces[n] /\ Tells(trace)
    BY <1>1 DEF StagesInv
  <2>2. PICK s \in Seq(Steps) : s = trace.stages
    BY DEF Records
  <2>3. PICK last \in 1..10 : last = Len(s)
    BY <2>1, <2>2, StageNames DEF Tells, EndInv
  <2>4. \A m \in 1..(last - 1) : s[m] = Good(m)
    BY <2>1, <2>2, <2>3 DEF Tells, EndInv
  <2>5. \/ /\ s[last] = Good(last) /\ CountsOf(trace.found, last)
           /\ trace.error = (IF last = 10 THEN None ELSE "NoRelevantEvidenceError")
        \/ /\ s[last] = Bad(last) /\ CountsOf(trace.found, last - 1)
           /\ trace.error = "QueryExecutionError"
    BY <2>1, <2>2, <2>3, StageNames DEF Tells, EndInv
  <2>6. trace.success <=> trace.error = None
    BY <2>1 DEF Tells
  <2>7. Prefix(s, last)
    BY <2>3, <2>4, <2>5 DEF Prefix
  <2>8. IsStages(s)
    <3>1. ASSUME NEW m \in 1..last PROVE s[m] \in {StageOrder[m]} \X BOOLEAN
      <4>1. s[m] = Good(m) \/ s[m] = Bad(m)
        BY <2>4, <2>5
      <4>2. \A x : <<x, TRUE>> \in {x} \X BOOLEAN /\ <<x, FALSE>> \in {x} \X BOOLEAN
        OBVIOUS
      <4> QED
        BY <4>1, <4>2, Zenon DEF Good, Bad
    <3>2. Len(s) <= Len(StageOrder)
      <4>1. last <= 10
        OBVIOUS
      <4> QED
        BY <2>3, <4>1, StageNames, Zenon
    <3> QED
      BY <2>3, <3>1, <3>2, Zenon DEF IsStages
  <2>9. \A m \in 1..(last - 1) : s[m][2]
    <3> SUFFICES ASSUME NEW m \in 1..(last - 1) PROVE s[m][2]
      OBVIOUS
    <3>1. m \in 1..10
      OBVIOUS
    <3> QED
      BY <2>4, <3>1, GoodOrBad, Zenon
  <2>10. s[last][2] <=> s[last] = Good(last)
    BY <2>5, GoodOrBad
  <2>11. /\ trace.success <=> last = 10 /\ s[last][2]
         /\ ~trace.success => (trace.error = "NoRelevantEvidenceError" <=> s[last][2])
    <3>1. CASE s[last] = Good(last)
      BY <2>5, <2>6, <2>10, <3>1, GoodOrBad, QueryTraceAssumption
    <3>2. CASE s[last] = Bad(last)
      BY <2>5, <2>6, <2>10, <3>2, GoodOrBad, QueryTraceAssumption
    <3> QED
      BY <2>5, <3>1, <3>2
  <2>12. \A k \in 1..10 : Passed(s, StageOrder[k]) <=> k < last \/ (k = last /\ s[last] = Good(last))
    BY <2>7, PassedAt
  <2>13. PICK upTo \in 0..10 :
           /\ CountsOf(trace.found, upTo)
           /\ \A k \in 1..10 : Passed(s, StageOrder[k]) <=> upTo >= k
    <3>1. CASE s[last] = Good(last)
      BY <2>5, <2>12, <3>1, GoodOrBad
    <3>2. CASE s[last] = Bad(last)
      <4>1. s[last] # Good(last)
        BY <3>2, GoodOrBad
      <4>2. CountsOf(trace.found, last - 1)
        BY <2>5, <4>1
      <4>3. \A k \in 1..10 : Passed(s, StageOrder[k]) <=> last - 1 >= k
        BY <2>12, <4>1
      <4> QED
        BY <4>2, <4>3
    <3> QED
      BY <2>5, <3>1, <3>2
  <2>14. /\ trace.found.vector # None <=> Passed(s, "semantic_retrieval")
         /\ trace.found.bm25 # None <=> Passed(s, "lexical_retrieval")
         /\ trace.found.fused # None <=> Passed(s, "hybrid_fusion")
         /\ trace.found.final # None <=> Passed(s, "reranking")
         /\ trace.found.evidence # None <=> Passed(s, "evidence_construction")
    BY <2>13, StageNames DEF CountsOf
  <2>15. last > 0
    BY <2>3
  <2>16. TellsTheStages(trace)
    BY <2>2, <2>3, <2>8, <2>9, <2>11, <2>14, <2>15, StageNames, Zenon DEF TellsTheStages
  <2> QED
    BY <2>1, <2>16
<1> QED
  BY <1>1, TraceInvariant, PTL DEF TraceSpec

\* Every question is in progress in one thread or has one trace, for any
\* number of threads and of questions, whatever failed in it.
THEOREM OneTraceEach == TraceSpec => []OneTracePerQuestion
<1>1. ASSUME StagesInv, OnceInv PROVE OneTracePerQuestion
  <2> SUFFICES ASSUME NEW id \in 1..asked
               PROVE  Cardinality({n \in DOMAIN traces : traces[n].id = id})
                      + Cardinality({t \in Threads : /\ run[t].id = id
                                       /\ run[t].pc \in {"stage", "call", "finish"}}) = 1
    BY DEF OneTracePerQuestion
  <2> DEFINE recorded == {n \in DOMAIN traces : Traced(n, id)}
             open == {t \in Threads : InProgress(t, id)}
  <2>1. \/ open = {} /\ \E n : recorded = {n}
        \/ recorded = {} /\ \E t : open = {t}
    <3>1. CASE /\ \A t \in Threads : ~InProgress(t, id)
               /\ \E n \in DOMAIN traces :
                    Traced(n, id) /\ \A m \in DOMAIN traces : Traced(m, id) => m = n
      BY <3>1
    <3>2. CASE /\ \A n \in DOMAIN traces : ~Traced(n, id)
               /\ \E t \in Threads :
                    InProgress(t, id) /\ \A u \in Threads : InProgress(u, id) => u = t
      BY <3>2
    <3> QED
      BY <1>1, <3>1, <3>2 DEF OnceInv
  <2>2. Cardinality({}) = 0 /\ \A x : Cardinality({x}) = 1
    BY FS_EmptySet, FS_Singleton
  <2>3. Cardinality(recorded) + Cardinality(open) = 1
    <3> HIDE DEF recorded, open
    <3>1. \/ Cardinality(recorded) = 1 /\ Cardinality(open) = 0
          \/ Cardinality(recorded) = 0 /\ Cardinality(open) = 1
      BY <2>1, <2>2, Zenon
    <3> QED
      BY <3>1
  <2> QED
    BY <2>3 DEF Traced, InProgress
<1> QED
  BY <1>1, TraceInvariant, PTL DEF TraceSpec

-----------------------------------------------------------------------------
(* The clients. *)

\* The threads that have found no client and will create one.
Loading(role) == {t \in Threads : call[t].pc = "load" /\ call[t].role = role}

CallFields == {"pc", "role", "attempt", "error", "waited"}

LoadsInv ==
  /\ DOMAIN call = Threads
  /\ \A t \in Threads :
       /\ DOMAIN call[t] = CallFields
       /\ call[t].pc # "none" => call[t].role \in Roles
  /\ loaded \in [Roles -> BOOLEAN] /\ loads \in [Roles -> Nat]
  /\ \A role \in Roles :
       /\ ~loaded[role] => loads[role] = 0
       /\ loads[role] + Cardinality(Loading(role)) <= Cardinality(Threads)

LEMMA LoadingFinite ==
  ASSUME NEW role
  PROVE  /\ IsFiniteSet(Loading(role)) /\ Cardinality(Loading(role)) \in Nat
         /\ Cardinality(Loading(role)) <= Cardinality(Threads)
         /\ Cardinality(Threads) \in Nat
<1>1. Loading(role) \subseteq Threads
  BY DEF Loading
<1>2. IsFiniteSet(Threads)
  BY ProvidersAssumption
<1>3. IsFiniteSet(Loading(role)) /\ Cardinality(Loading(role)) <= Cardinality(Threads)
  BY <1>1, <1>2, FS_Subset
<1> QED
  BY <1>2, <1>3, FS_CardinalityType

\* A call that does not come to load a client.
LEMMA OtherCalls ==
  ASSUME LoadsInv, NEW t \in Threads, UNCHANGED <<loaded, loads>>,
         NEW c, call' = [call EXCEPT ![t] = c], DOMAIN c = CallFields,
         c.pc # "load", c.pc # "none" => c.role \in Roles
  PROVE  LoadsInv'
<1>1. /\ DOMAIN call' = Threads
      /\ \A u \in Threads : /\ DOMAIN call'[u] = CallFields
                            /\ call'[u].pc # "none" => call'[u].role \in Roles
  BY DEF LoadsInv
<1>2. \A role \in Roles : Loading(role)' \subseteq Loading(role)
  BY DEF Loading, LoadsInv
<1>3. ASSUME NEW role \in Roles
      PROVE  loads[role] + Cardinality(Loading(role)') <= Cardinality(Threads)
  <2>1. PICK after : after = Loading(role)'
    OBVIOUS
  <2>2. IsFiniteSet(after) /\ Cardinality(after) <= Cardinality(Loading(role))
        /\ Cardinality(after) \in Nat
    BY <1>2, <2>1, LoadingFinite, FS_Subset, FS_CardinalityType
  <2>3. /\ Cardinality(Loading(role)) \in Nat /\ Cardinality(Threads) \in Nat
        /\ loads[role] \in Nat
        /\ loads[role] + Cardinality(Loading(role)) <= Cardinality(Threads)
    BY LoadingFinite DEF LoadsInv
  <2>4. loads[role] + Cardinality(after) <= Cardinality(Threads)
    BY <2>2, <2>3
  <2> QED
    BY <2>1, <2>4
<1> QED
  BY <1>1, <1>3 DEF LoadsInv

LEMMA LoadsStep ==
  ASSUME LoadsInv, [TraceNext]_traceVars
  PROVE  LoadsInv'
<1>1. CASE UNCHANGED <<call, loaded, loads>>
  BY <1>1 DEF LoadsInv, Loading
<1>2. ASSUME NEW t \in Threads, CallProvider(t) PROVE LoadsInv'
  <2>1. PICK role : role = RoleOf(Stage(t)) /\ role # None
    BY <1>2 DEF CallProvider
  <2>2. role \in Roles
    BY <2>1 DEF RoleOf, Roles
  <2>3. PICK c : c = [NoCall EXCEPT !.pc = "send", !.role = role, !.attempt = 1]
    OBVIOUS
  <2>4. call' = [call EXCEPT ![t] = c] /\ UNCHANGED <<loaded, loads>>
    BY <1>2, <2>1, <2>3 DEF CallProvider, BeginCall
  <2>5. DOMAIN c = CallFields /\ c.pc = "send" /\ c.role = role
    BY <2>3 DEF NoCall, CallFields
  <2> QED
    BY <2>2, <2>4, <2>5, OtherCalls
<1>3. ASSUME NEW t \in Threads, CallEnds(t) PROVE LoadsInv'
  <2>1. call' = [call EXCEPT ![t] = NoCall] /\ UNCHANGED <<loaded, loads>>
    BY <1>3 DEF CallEnds
  <2>2. DOMAIN NoCall = CallFields /\ NoCall.pc = "none"
    BY DEF NoCall, CallFields
  <2> QED
    BY <2>1, <2>2, OtherCalls
\* The steps of a call, but for its looks for a client.
<1>4. ASSUME NEW t \in Threads, Respond(t) \/ RetryError(t) \/ RaiseError(t) \/ Sleep(t)
      PROVE  LoadsInv'
  <2>1. /\ DOMAIN call[t] = CallFields /\ call[t].pc # "none" /\ call[t].role \in Roles
        /\ UNCHANGED <<loaded, loads>> /\ DOMAIN call = Threads
    BY <1>4 DEF Respond, RetryError, RaiseError, Sleep, Sends, MayRaise, LoadsInv
  <2>2. PICK c : /\ call' = [call EXCEPT ![t] = c] /\ DOMAIN c = CallFields
                 /\ c.role = call[t].role /\ c.pc \in {"returned", "raised", "sleep", "send"}
    <3>1. CASE Respond(t) \/ RaiseError(t)
      <4>1. PICK pc \in {"returned", "raised"} : call' = [call EXCEPT ![t].pc = pc]
        BY <3>1 DEF Respond, RaiseError, Becomes
      <4>2. call' = [call EXCEPT ![t] = [call[t] EXCEPT !.pc = pc]]
        BY <4>1
      <4>3. PICK c : c = [call[t] EXCEPT !.pc = pc]
        OBVIOUS
      <4>4. /\ DOMAIN c = CallFields /\ c.role = call[t].role
            /\ c.pc \in {"returned", "raised", "sleep", "send"}
        BY <2>1, <4>3 DEF CallFields
      <4> QED
        BY <4>2, <4>3, <4>4
    <3>2. CASE RetryError(t)
      <4>1. PICK error : call' = [call EXCEPT ![t].error = error, ![t].pc = "sleep"]
        BY <3>2 DEF RetryError
      <4>2. call' = [call EXCEPT ![t] = [call[t] EXCEPT !.error = error, !.pc = "sleep"]]
        BY <2>1, <4>1
      <4>3. PICK c : c = [call[t] EXCEPT !.error = error, !.pc = "sleep"]
        OBVIOUS
      <4>4. /\ DOMAIN c = CallFields /\ c.role = call[t].role
            /\ c.pc \in {"returned", "raised", "sleep", "send"}
        BY <2>1, <4>3 DEF CallFields
      <4> QED
        BY <4>2, <4>3, <4>4
    <3>3. CASE Sleep(t)
      <4>1. PICK waited, attempt :
              call' = [call EXCEPT ![t].waited = waited, ![t].attempt = attempt,
                                   ![t].error = None, ![t].pc = "send"]
        BY <3>3 DEF Sleep
      <4>2. call' = [call EXCEPT ![t] = [call[t] EXCEPT !.waited = waited, !.attempt = attempt,
                                                        !.error = None, !.pc = "send"]]
        BY <2>1, <4>1
      <4>3. PICK c : c = [call[t] EXCEPT !.waited = waited, !.attempt = attempt,
                                         !.error = None, !.pc = "send"]
        OBVIOUS
      <4>4. /\ DOMAIN c = CallFields /\ c.role = call[t].role
            /\ c.pc \in {"returned", "raised", "sleep", "send"}
        BY <2>1, <4>3 DEF CallFields
      <4> QED
        BY <4>2, <4>3, <4>4
    <3> QED
      BY <1>4, <3>1, <3>2, <3>3
  <2> QED
    BY <2>1, <2>2, OtherCalls
\* One that finds none is one more that will create one: none has so far.
<1>5. ASSUME NEW t \in Threads, FindNoClient(t) PROVE LoadsInv'
  <2>1. PICK role \in Roles : role = call[t].role /\ ~loaded[role]
    BY <1>5 DEF FindNoClient, LoadsInv
  <2>2. /\ call' = [call EXCEPT ![t].pc = "load"] /\ UNCHANGED <<loaded, loads>>
        /\ call'[t].role = role
    BY <1>5, <2>1 DEF FindNoClient, Becomes, LoadsInv, CallFields
  <2>3. /\ DOMAIN call' = Threads
        /\ \A u \in Threads : /\ DOMAIN call'[u] = CallFields
                              /\ call'[u].pc # "none" => call'[u].role \in Roles
    BY <2>1, <2>2 DEF LoadsInv, CallFields
  <2>4. \A other \in Roles : other # role => Loading(other)' = Loading(other)
    BY <1>5, <2>1, <2>2 DEF Loading, LoadsInv, FindNoClient
  <2>5. loads[role] + Cardinality(Loading(role)') <= Cardinality(Threads)
    <3>1. PICK after : after = Loading(role)' /\ after \subseteq Threads
      BY DEF Loading
    <3>2. Cardinality(after) <= Cardinality(Threads) /\ loads[role] = 0
          /\ Cardinality(after) \in Nat /\ Cardinality(Threads) \in Nat
      BY <2>1, <3>1, ProvidersAssumption, FS_Subset, FS_CardinalityType DEF LoadsInv
    <3> QED
      BY <3>1, <3>2
  <2> QED
    BY <2>1, <2>2, <2>3, <2>4, <2>5 DEF LoadsInv
<1>6. ASSUME NEW t \in Threads, LoadClient(t) PROVE LoadsInv'
  <2>1. PICK role \in Roles : role = call[t].role
    BY <1>6 DEF LoadClient, LoadsInv
  <2>2. /\ call' = [call EXCEPT ![t].pc = "send"] /\ t \in Loading(role)
        /\ loaded' = [loaded EXCEPT ![role] = TRUE]
        /\ loads' = [loads EXCEPT ![role] = loads[role] + 1]
    BY <1>6, <2>1 DEF LoadClient, Becomes, Loading
  <2>3. /\ DOMAIN call' = Threads
        /\ \A u \in Threads : /\ DOMAIN call'[u] = CallFields
                              /\ call'[u].pc # "none" => call'[u].role \in Roles
    BY <2>1, <2>2 DEF LoadsInv, CallFields
  <2>4. \A other \in Roles : other # role => Loading(other)' = Loading(other)
    BY <2>1, <2>2, <2>3 DEF Loading, LoadsInv
  <2>5. Loading(role)' = Loading(role) \ {t}
    BY <2>1, <2>2, <2>3 DEF Loading, LoadsInv, CallFields
  <2>6. loads'[role] + Cardinality(Loading(role)') <= Cardinality(Threads)
    <3>1. /\ Cardinality(Loading(role) \ {t}) = Cardinality(Loading(role)) - 1
          /\ Cardinality(Loading(role)) \in Nat /\ Cardinality(Threads) \in Nat
      BY <2>2, LoadingFinite, FS_RemoveElement
    <3>2. /\ loads[role] \in Nat /\ loads'[role] = loads[role] + 1
          /\ loads[role] + Cardinality(Loading(role)) <= Cardinality(Threads)
      BY <2>2 DEF LoadsInv
    <3> QED
      BY <2>5, <3>1, <3>2
  <2>7. loaded' \in [Roles -> BOOLEAN] /\ loads' \in [Roles -> Nat]
    BY <2>2 DEF LoadsInv
  <2> QED
    BY <2>2, <2>3, <2>4, <2>6, <2>7 DEF LoadsInv
<1>7. ASSUME NEW t \in Threads,
             Ask(t) \/ RunStage(t) \/ Finish(t) \/ ReadCounter(t) \/ WriteCounter(t) \/ Reply(t)
      PROVE  UNCHANGED <<call, loaded, loads>>
  BY <1>7 DEF Ask, RunStage, Finish, ReadCounter, WriteCounter, Reply
<1> QED
  <2>1. CASE UNCHANGED traceVars
    BY <1>1, <2>1 DEF traceVars
  <2>2. CASE TraceNext
    BY <1>1, <1>2, <1>3, <1>4, <1>5, <1>6, <1>7, <2>2
       DEF TraceNext, Continue, ProviderWorks, ProviderStep
  <2> QED
    BY <2>1, <2>2

\* The clients that are created, in every state.
LEMMA LoadsInvariant == TraceSafety => []LoadsInv
<1>1. TraceInit => LoadsInv
  <2> SUFFICES ASSUME TraceInit PROVE LoadsInv
    OBVIOUS
  <2>1. /\ call = [t \in Threads |-> NoCall] /\ uses \in [Roles -> Kinds]
        /\ loaded = [role \in Roles |-> role = "reranker" \/ uses[role] = "openrouter"]
        /\ loads = [role \in Roles |-> IF role = "reranker" /\ uses[role] = "local" THEN 1 ELSE 0]
    BY ProvidersAssumption DEF TraceInit, ProvidersInit
  <2>2. \A role : Loading(role) = {}
    BY <2>1 DEF Loading, NoCall
  <2>3. /\ DOMAIN call = Threads
        /\ \A t \in Threads : DOMAIN call[t] = CallFields /\ call[t].pc = "none"
    BY <2>1 DEF NoCall, CallFields
  <2>4. Cardinality(Threads) \in Nat /\ Cardinality(Threads) >= 1
    BY ProvidersAssumption, FS_EmptySet, FS_CardinalityType
  <2>5. ASSUME NEW role \in Roles
        PROVE  loads[role] \in 0..1 /\ (~loaded[role] => loads[role] = 0)
    <3>1. loaded[role] <=> role = "reranker" \/ uses[role] = "openrouter"
      BY <2>1, Zenon
    <3>2. loads[role] = IF role = "reranker" /\ uses[role] = "local" THEN 1 ELSE 0
      BY <2>1, Zenon
    <3> QED
      BY <3>1, <3>2
  <2>6. loaded \in [Roles -> BOOLEAN] /\ loads \in [Roles -> Nat]
    <3>1. loaded \in [Roles -> BOOLEAN]
      <4>1. \A role \in Roles : (role = "reranker" \/ uses[role] = "openrouter") \in BOOLEAN
        OBVIOUS
      <4> QED
        BY <2>1, <4>1, Zenon
    <3>2. loads \in [Roles -> Nat]
      BY <2>1
    <3> QED
      BY <3>1, <3>2
  <2>7. \A role \in Roles : loads[role] + Cardinality(Loading(role)) <= Cardinality(Threads)
    BY <2>2, <2>4, <2>5, FS_EmptySet
  <2> QED
    BY <2>2, <2>3, <2>5, <2>6, <2>7 DEF LoadsInv
<1>2. LoadsInv /\ [TraceNext]_traceVars => LoadsInv'
  BY LoadsStep
<1> QED
  BY <1>1, <1>2, PTL DEF TraceSafety

\* For any number of pool threads, at most so many clients of a provider are
\* created.
THEOREM LoadsBounded == TraceSpec => []LoadsAreBounded
<1>1. ASSUME LoadsInv PROVE LoadsAreBounded
  <2> SUFFICES ASSUME NEW role \in Roles PROVE loads[role] <= Cardinality(Threads)
    BY DEF LoadsAreBounded
  <2>1. /\ loads[role] \in Nat /\ Cardinality(Loading(role)) \in Nat
        /\ Cardinality(Threads) \in Nat
        /\ loads[role] + Cardinality(Loading(role)) <= Cardinality(Threads)
    BY <1>1, LoadingFinite DEF LoadsInv
  <2> QED
    BY <2>1
<1> QED
  BY <1>1, LoadsInvariant, PTL DEF TraceSpec

-----------------------------------------------------------------------------
(* The calls. *)

\* The most that a call has paused before its k-th request.
Paused(k) ==
  IF k <= 1 THEN 0 ELSE IF k = 2 THEN 625 ELSE 1875 + 2500 * (k - 3)

CallPcs == {"none", "load", "send", "sleep", "returned", "raised"}

\* A call c of a thread whose question is at pc, under the providers used.
CallOK(c, pc, used) ==
  /\ DOMAIN c = CallFields
  /\ c.pc \in CallPcs /\ c.role \in Roles \cup {None}
  /\ c.attempt \in Nat /\ c.waited \in Nat
  /\ c.pc = "none" <=> pc # "call"
  /\ c.pc # "none" => c.role \in Roles /\ c.attempt >= 1
  /\ c.attempt <= MaxAttempts
  /\ c.attempt > 1 => used[c.role] = "gemini"
  /\ c.pc = "sleep" => /\ used[c.role] = "gemini" /\ c.attempt < MaxAttempts
                       /\ Transient(c.error)
  /\ c.waited <= Paused(c.attempt)

CallInv ==
  /\ uses \in [Roles -> Kinds]
  /\ DOMAIN call = Threads
  /\ \A t \in Threads : CallOK(call[t], run[t].pc, uses)

\* One pause more, with the jitter, is within the bound of the next request.
LEMMA PausesAddUp ==
  ASSUME NEW k \in Nat \ {0}, NEW waited \in Nat, waited <= Paused(k),
         NEW jitter \in {0, BaseDelay(k) \div 4}
  PROVE  /\ waited + BaseDelay(k) + jitter \in Nat
         /\ waited + BaseDelay(k) + jitter <= Paused(k + 1)
<1>1. CASE k = 1
  <2>1. BaseDelay(k) = 500
    <3>1. 2^(1 - 1) = 1
      OBVIOUS
    <3> QED
      BY <1>1, <3>1 DEF BaseDelay
  <2> QED
    BY <1>1, <2>1 DEF Paused
<1>2. CASE k = 2
  <2>1. BaseDelay(k) = 1000
    <3>1. 2^(2 - 1) = 2
      OBVIOUS
    <3> QED
      BY <1>2, <3>1 DEF BaseDelay
  <2> QED
    BY <1>2, <2>1 DEF Paused
<1>3. CASE k > 2
  <2>1. BaseDelay(k) = 2000
    BY <1>3 DEF BaseDelay
  <2> QED
    BY <1>3, <2>1 DEF Paused
<1> QED
  BY <1>1, <1>2, <1>3

\* A step that leaves t's call at c and no other call or question elsewhere.
LEMMA CallMoves ==
  ASSUME CallInv, NEW t \in Threads, uses' = uses,
         NEW c, call' = [call EXCEPT ![t] = c], CallOK(c, run'[t].pc, uses),
         \A u \in Threads : u # t => run'[u].pc = run[u].pc
  PROVE  CallInv'
<1>1. DOMAIN call' = Threads /\ call'[t] = c /\ \A u \in Threads : u # t => call'[u] = call[u]
  BY DEF CallInv
<1>2. ASSUME NEW u \in Threads PROVE CallOK(call[u], run[u].pc, uses)'
  <2>1. PICK d, p, k : d = call'[u] /\ p = run'[u].pc /\ k = uses /\ CallOK(d, p, k)
    BY <1>1 DEF CallInv
  <2>2. k = uses'
    BY <2>1
  <2> QED
    BY <2>1, <2>2 DEF CallOK
<1> QED
  BY <1>1, <1>2 DEF CallInv

\* The first request of a call, and no call.
LEMMA FirstRequest ==
  ASSUME NEW role \in Roles, NEW used
  PROVE  /\ CallOK([NoCall EXCEPT !.pc = "send", !.role = role, !.attempt = 1], "call", used)
         /\ \A pc : pc # "call" => CallOK(NoCall, pc, used)
<1>1. PICK c : c = [NoCall EXCEPT !.pc = "send", !.role = role, !.attempt = 1]
  OBVIOUS
<1>2. c = [pc |-> "send", role |-> role, attempt |-> 1, error |-> None, waited |-> 0]
  BY <1>1 DEF NoCall
<1>3. CallOK(c, "call", used)
  BY <1>2, ProvidersAssumption DEF CallOK, CallFields, CallPcs, Paused
<1>4. \A pc : pc # "call" => CallOK(NoCall, pc, used)
  BY ProvidersAssumption DEF CallOK, CallFields, CallPcs, Paused, NoCall
<1> QED
  BY <1>1, <1>3, <1>4

\* Every step keeps the calls: attempts and pauses stay within the policy.
LEMMA CallStep ==
  ASSUME StagesInv, CallInv, [TraceNext]_traceVars
  PROVE  CallInv'
<1>1. CASE UNCHANGED <<uses, call>> /\ \A t \in Threads : run'[t].pc = "call" <=> run[t].pc = "call"
  BY <1>1 DEF CallInv, CallOK
<1>2. ASSUME NEW t \in Threads, CallProvider(t) PROVE CallInv'
  <2>1. PICK role : role = RoleOf(Stage(t)) /\ role \in Roles
    BY <1>2 DEF CallProvider, RoleOf, Roles
  <2>2. PICK c : c = [NoCall EXCEPT !.pc = "send", !.role = role, !.attempt = 1]
    OBVIOUS
  <2>3. call' = [call EXCEPT ![t] = c] /\ uses' = uses /\ run' = [run EXCEPT ![t].pc = "call"]
    BY <1>2, <2>1, <2>2 DEF CallProvider, BeginCall
  <2>4. run'[t].pc = "call" /\ \A u \in Threads : u # t => run'[u].pc = run[u].pc
    BY <2>3 DEF StagesInv, RunInv, Runs
  <2>5. CallOK(c, run'[t].pc, uses)
    BY <2>1, <2>2, <2>4, FirstRequest
  <2> QED
    BY <2>3, <2>4, <2>5, CallMoves
<1>3. ASSUME NEW t \in Threads, CallEnds(t) PROVE CallInv'
  <2>1. call' = [call EXCEPT ![t] = NoCall] /\ uses' = uses
    BY <1>3 DEF CallEnds
  <2>2. run'[t].pc # "call" /\ \A u \in Threads : u # t => run'[u].pc = run[u].pc
    <3>1. CASE PassStage(t)
      BY <3>1 DEF PassStage, StagesInv, RunInv, Runs
    <3>2. CASE FailStage(t)
      BY <3>2 DEF FailStage, StagesInv, RunInv, Runs
    <3> QED
      BY <1>3, <3>1, <3>2 DEF CallEnds
  <2>3. CallOK(NoCall, run'[t].pc, uses)
    BY <2>2, FirstRequest DEF Roles
  <2> QED
    BY <2>1, <2>2, <2>3, CallMoves
\* The steps of a call.
<1>4. ASSUME NEW t \in Threads, ProviderWorks(t),
             NEW c, call' = [call EXCEPT ![t] = c], CallOK(c, run[t].pc, uses), uses' = uses
      PROVE  CallInv'
  <2>1. run' = run
    BY <1>4 DEF ProviderWorks
  <2> QED
    BY <1>4, <2>1, CallMoves
<1>5. ASSUME NEW t \in Threads, ProviderWorks(t),
             NEW pc \in {"load", "send", "returned", "raised"}, Becomes(t, pc), uses' = uses,
             call[t].pc # "none"
      PROVE  CallInv'
  <2>1. PICK c, d : d = call[t] /\ c = [d EXCEPT !.pc = pc] /\ CallOK(d, run[t].pc, uses)
    BY DEF CallInv
  <2>2. call' = [call EXCEPT ![t] = c]
    BY <1>5, <2>1 DEF Becomes
  <2>3. /\ DOMAIN c = CallFields /\ c.pc = pc /\ c.role = d.role /\ c.attempt = d.attempt
        /\ c.waited = d.waited /\ d.pc # "none"
    BY <1>5, <2>1 DEF CallOK, CallFields
  <2>4. CallOK(c, run[t].pc, uses)
    BY <2>1, <2>3 DEF CallOK, CallPcs
  <2> QED
    BY <1>4, <1>5, <2>2, <2>4
<1>6. ASSUME NEW t \in Threads, ProviderWorks(t) PROVE CallInv'
  <2>1. CASE FindNoClient(t) \/ LoadClient(t) \/ Respond(t) \/ RaiseError(t)
    <3>1. \E pc \in {"load", "send", "returned", "raised"} : Becomes(t, pc)
      BY <2>1 DEF FindNoClient, LoadClient, Respond, RaiseError
    <3>2. uses' = uses /\ call[t].pc # "none"
      BY <2>1 DEF FindNoClient, LoadClient, Respond, RaiseError, Sends, MayRaise
    <3> QED
      BY <1>5, <1>6, <3>1, <3>2
  <2>2. CASE RetryError(t)
    <3>1. PICK error : /\ Retries(t, error)
                       /\ call' = [call EXCEPT ![t].error = error, ![t].pc = "sleep"]
      BY <2>2 DEF RetryError
    <3>2. PICK c, d : /\ d = call[t] /\ c = [d EXCEPT !.error = error, !.pc = "sleep"]
                      /\ CallOK(d, run[t].pc, uses)
      BY DEF CallInv
    <3>3. call' = [call EXCEPT ![t] = c] /\ uses' = uses /\ d.pc # "none"
      BY <2>2, <3>1, <3>2 DEF RetryError, MayRaise, Sends, CallInv
    <3>4. /\ DOMAIN c = CallFields /\ c.pc = "sleep" /\ c.role = d.role
          /\ c.attempt = d.attempt /\ c.waited = d.waited /\ c.error = error
      BY <3>2 DEF CallOK, CallFields
    <3>5. uses[c.role] = "gemini" /\ c.attempt < MaxAttempts /\ Transient(c.error)
      BY <3>1, <3>2, <3>4 DEF Retries, Provider
    <3>6. CallOK(c, run[t].pc, uses)
      BY <3>2, <3>3, <3>4, <3>5 DEF CallOK, CallPcs
    <3> QED
      BY <1>4, <1>6, <3>3, <3>6
  <2>3. CASE Sleep(t)
    <3>1. PICK d : d = call[t] /\ CallOK(d, run[t].pc, uses)
      BY DEF CallInv
    <3>2. PICK k \in Nat \ {0} : k = d.attempt
      BY <2>3, <3>1 DEF Sleep, CallOK
    <3>3. PICK jitter \in {0, BaseDelay(k) \div 4} :
            call' = [call EXCEPT ![t].waited = @ + BaseDelay(k) + jitter,
                                 ![t].attempt = @ + 1, ![t].error = None, ![t].pc = "send"]
      BY <2>3, <3>1, <3>2 DEF Sleep
    <3>4. PICK c : c = [d EXCEPT !.waited = d.waited + BaseDelay(k) + jitter,
                                 !.attempt = k + 1, !.error = None, !.pc = "send"]
      OBVIOUS
    <3>5. call' = [call EXCEPT ![t] = c] /\ uses' = uses /\ d.pc = "sleep"
      BY <2>3, <3>1, <3>2, <3>3, <3>4 DEF Sleep, CallInv
    <3>6. /\ DOMAIN c = CallFields /\ c.pc = "send" /\ c.role = d.role
          /\ c.attempt = k + 1 /\ c.waited = d.waited + BaseDelay(k) + jitter
      BY <3>1, <3>4 DEF CallOK, CallFields
    <3>7. c.waited \in Nat /\ c.waited <= Paused(c.attempt)
      BY <3>1, <3>2, <3>6, PausesAddUp DEF CallOK
    <3>8. c.attempt \in Nat /\ c.attempt >= 1 /\ c.attempt <= MaxAttempts
      BY <3>1, <3>2, <3>5, <3>6, ProvidersAssumption DEF CallOK
    <3>9. uses[c.role] = "gemini" /\ c.role \in Roles /\ run[t].pc = "call"
      BY <3>1, <3>5, <3>6 DEF CallOK
    <3>10. CallOK(c, run[t].pc, uses)
      BY <3>6, <3>7, <3>8, <3>9 DEF CallOK, CallPcs
    <3> QED
      BY <1>4, <1>6, <3>5, <3>10
  <2> QED
    BY <1>6, <2>1, <2>2, <2>3 DEF ProviderWorks, ProviderStep
<1>7. ASSUME NEW t \in Threads,
             RunStage(t) \/ Ask(t) \/ Finish(t) \/ ReadCounter(t) \/ WriteCounter(t) \/ Reply(t)
      PROVE  CallInv'
  <2>1. UNCHANGED <<uses, call>>
    BY <1>7 DEF Ask, RunStage, Finish, ReadCounter, WriteCounter, Reply
  <2>2. CASE RunStage(t)
    <3>1. run[t].pc = "stage" /\ (PassStage(t) \/ FailStage(t))
      BY <2>2 DEF RunStage
    <3>2. run'[t].pc # "call" /\ \A u \in Threads : u # t => run'[u] = run[u]
      <4>1. CASE PassStage(t)
        BY <4>1 DEF PassStage, StagesInv, RunInv, Runs
      <4>2. CASE FailStage(t)
        BY <4>2 DEF FailStage, StagesInv, RunInv, Runs
      <4> QED
        BY <3>1, <4>1, <4>2
    <3> QED
      BY <1>1, <2>1, <3>1, <3>2
  <2>3. CASE Ask(t)
    BY <1>1, <2>1, <2>3 DEF Ask, NoRun, StagesInv
  <2>4. CASE Finish(t)
    BY <1>1, <2>1, <2>4 DEF Finish, StagesInv, RunInv, Runs
  <2>5. CASE Reply(t)
    BY <1>1, <2>1, <2>5 DEF Reply, NoRun, StagesInv
  <2>6. CASE ReadCounter(t) \/ WriteCounter(t)
    BY <1>1, <2>1, <2>6 DEF ReadCounter, WriteCounter
  <2> QED
    BY <1>7, <2>2, <2>3, <2>4, <2>5, <2>6
<1> QED
  <2>1. CASE UNCHANGED traceVars
    BY <1>1, <2>1 DEF traceVars
  <2>2. CASE TraceNext
    BY <1>2, <1>3, <1>6, <1>7, <2>2 DEF TraceNext, Continue
  <2> QED
    BY <2>1, <2>2

\* The inductive invariant of the calls.
LEMMA CallInvariant == TraceSafety => []CallInv
<1>1. TraceInit => CallInv
  <2> SUFFICES ASSUME TraceInit PROVE CallInv
    OBVIOUS
  <2>1. /\ call = [t \in Threads |-> NoCall] /\ uses \in [Roles -> Kinds]
        /\ run = [t \in Threads |-> NoRun]
    BY ProvidersAssumption DEF TraceInit, ProvidersInit
  <2>2. CallOK(NoCall, "idle", uses)
    BY FirstRequest DEF Roles
  <2> QED
    BY <2>1, <2>2 DEF CallInv, NoRun
<1>2. StagesInv /\ CallInv /\ [TraceNext]_traceVars => CallInv'
  BY CallStep
<1> QED
  BY <1>1, <1>2, TraceInvariant, PTL DEF TraceSafety

\* Whatever a provider raises, its call makes at most max_attempts requests and
\* waits no more than the pauses add up to, only a call of Gemini is repeated,
\* and none after a permanent failure.
THEOREM CallsBounded == TraceSpec => []CallsAreBounded
<1>1. ASSUME CallInv PROVE CallsAreBounded
  <2> SUFFICES ASSUME NEW t \in Threads, NEW c, c = call[t]
               PROVE  /\ c.attempt <= MaxAttempts
                      /\ c.attempt > 1 =>
                           /\ Provider(t) = "gemini"
                           /\ c.waited <= IF c.attempt = 2 THEN 625
                                          ELSE 1875 + 2500 * (c.attempt - 3)
                      /\ c.pc = "sleep" => c.error.status \notin {400, 401, 403}
    BY DEF CallsAreBounded
  <2>1. CallOK(c, run[t].pc, uses)
    BY <1>1 DEF CallInv
  <2>2. c.attempt > 1 =>
          c.waited <= IF c.attempt = 2 THEN 625 ELSE 1875 + 2500 * (c.attempt - 3)
    BY <2>1 DEF CallOK, Paused
  <2>3. c.pc = "sleep" => c.error.status \notin {400, 401, 403}
    BY <2>1 DEF CallOK, Transient, PermanentStatus
  <2> QED
    BY <2>1, <2>2, <2>3 DEF CallOK, Provider
<1> QED
  BY <1>1, CallInvariant, PTL DEF TraceSpec
=============================================================================
