--------------------------- MODULE CountersProofs ---------------------------
(***************************************************************************)
(* The counters that pool threads update without a lock, for any number of *)
(* threads, questions and counters followed: what updates that overlap may *)
(* lose, and that nothing else is lost and nothing invented.               *)
(***************************************************************************)
EXTENDS QueryTraceProofs, WellFoundedInduction

-----------------------------------------------------------------------------
(* Sums over finite sets, as the number of units.                          *)

\* One element for each unit of f.
Units(f) == UNION {{x} \X (1..f[x]) : x \in DOMAIN f}
Total(f) == Cardinality(Units(f))
Rest(f, x) == [y \in DOMAIN f \ {x} |-> f[y]]

\* The first n numbers.
LEMMA UpTo == \A n \in Nat : IsFiniteSet(1..n) /\ Cardinality(1..n) = n
<1> SUFFICES ASSUME NEW n \in Nat PROVE IsFiniteSet(1..n) /\ Cardinality(1..n) = n
  OBVIOUS
<1>1. 1 \in Int /\ n \in Int
  OBVIOUS
<1>2. IsFiniteSet(1..n) /\ Cardinality(1..n) = IF 1 > n THEN 0 ELSE n - 1 + 1
  BY <1>1, FS_Interval
<1> QED
  BY <1>2

\* n units of x.
LEMMA OneColumn ==
  ASSUME NEW x, NEW n \in Nat
  PROVE  IsFiniteSet({x} \X (1..n)) /\ Cardinality({x} \X (1..n)) = n
<1>1. IsFiniteSet({x}) /\ Cardinality({x}) = 1
  BY FS_Singleton
<1>2. IsFiniteSet(1..n) /\ Cardinality(1..n) = n
  BY UpTo
<1>3. /\ IsFiniteSet({x} \X (1..n))
      /\ Cardinality({x} \X (1..n)) = Cardinality({x}) * Cardinality(1..n)
  BY <1>1, <1>2, FS_Product
<1>4. Cardinality({x} \X (1..n)) = 1 * n
  BY <1>1, <1>2, <1>3
<1> QED
  BY <1>3, <1>4

\* A finite number of counts has finitely many units.
LEMMA UnitsFinite ==
  ASSUME NEW D, IsFiniteSet(D), NEW f \in [D -> Nat]
  PROVE  IsFiniteSet(Units(f)) /\ Total(f) \in Nat
<1> DEFINE column == [x \in D |-> {x} \X (1..f[x])]
           columns == {column[x] : x \in D}
<1>1. column \in Surjection(D, columns)
  BY DEF Surjection
<1>2. IsFiniteSet(columns)
  BY <1>1, FS_Surjection
<1>3. ASSUME NEW x \in D PROVE IsFiniteSet(column[x])
  <2>1. f[x] \in Nat
    OBVIOUS
  <2> QED
    BY <2>1, OneColumn
<1>4. \A column_ \in columns : IsFiniteSet(column_)
  BY <1>3
<1>5. IsFiniteSet(UNION columns)
  BY <1>2, <1>4, FS_UNION
<1>6. Units(f) = UNION columns
  <2>1. DOMAIN f = D
    OBVIOUS
  <2> QED
    BY <2>1 DEF Units
<1> QED
  BY <1>5, <1>6, FS_CardinalityType DEF Total

\* One count and the rest of them make the sum.
LEMMA TotalSplit ==
  ASSUME NEW D, IsFiniteSet(D), NEW f \in [D -> Nat], NEW x \in D
  PROVE  Total(f) = Total(Rest(f, x)) + f[x]
<1>1. DOMAIN f = D /\ DOMAIN Rest(f, x) = D \ {x} /\ Rest(f, x) \in [D \ {x} -> Nat]
  BY DEF Rest
<1>2. IsFiniteSet(D \ {x})
  BY FS_RemoveElement
<1>3. IsFiniteSet(Units(Rest(f, x))) /\ Cardinality(Units(Rest(f, x))) \in Nat
  BY <1>1, <1>2, UnitsFinite DEF Total
<1> DEFINE mine == {x} \X (1..f[x])
<1>4. IsFiniteSet(mine) /\ Cardinality(mine) = f[x]
  <2>1. f[x] \in Nat
    OBVIOUS
  <2> QED
    BY <2>1, OneColumn
<1>5. Units(f) = Units(Rest(f, x)) \cup mine
  BY <1>1 DEF Units, Rest
<1>6. Units(Rest(f, x)) \cap mine = {}
  BY <1>1 DEF Units
<1>7. Cardinality({}) = 0
  BY FS_EmptySet
<1> HIDE DEF mine
<1>8. Cardinality(Units(f))
        = Cardinality(Units(Rest(f, x))) + Cardinality(mine)
          - Cardinality(Units(Rest(f, x)) \cap mine)
  BY <1>3, <1>4, <1>5, FS_Union
<1>9. Cardinality(Units(f)) = Cardinality(Units(Rest(f, x))) + f[x] - 0
  BY <1>4, <1>6, <1>7, <1>8
<1>10. f[x] \in Nat
  OBVIOUS
<1> QED
  BY <1>3, <1>9, <1>10 DEF Total

\* Two functions that differ at x only.
LEMMA TotalChange ==
  ASSUME NEW D, IsFiniteSet(D), NEW f \in [D -> Nat], NEW g \in [D -> Nat], NEW x \in D,
         \A y \in D : y # x => f[y] = g[y]
  PROVE  Total(g) + f[x] = Total(f) + g[x]
<1>1. Rest(f, x) = Rest(g, x)
  BY DEF Rest
<1>2. Rest(f, x) \in [D \ {x} -> Nat] /\ IsFiniteSet(D \ {x})
  BY FS_RemoveElement DEF Rest
<1>3. Total(Rest(f, x)) \in Nat
  BY <1>2, UnitsFinite
<1>4. Total(f) = Total(Rest(f, x)) + f[x] /\ Total(g) = Total(Rest(f, x)) + g[x]
  BY <1>1, TotalSplit
<1> QED
  BY <1>3, <1>4

\* A sequence that has one element more.
LEMMA TotalAppend ==
  ASSUME NEW k \in Nat, NEW f \in [1..k -> Nat], NEW g \in [1..(k + 1) -> Nat],
         \A n \in 1..k : g[n] = f[n]
  PROVE  Total(g) = Total(f) + g[k + 1]
<1>1. IsFiniteSet(1..(k + 1)) /\ k + 1 \in 1..(k + 1)
  BY FS_Interval
<1>2. (1..(k + 1)) \ {k + 1} = 1..k
  OBVIOUS
<1>3. Rest(g, k + 1) = f
  BY <1>2 DEF Rest
<1> QED
  BY <1>1, <1>3, TotalSplit

\* Counts of nothing sum up to nothing.
LEMMA TotalOfNothing ==
  ASSUME NEW f, \A x \in DOMAIN f : f[x] = 0
  PROVE  Total(f) = 0
<1>1. Units(f) = {}
  BY DEF Units
<1> QED
  BY <1>1, FS_EmptySet DEF Total

-----------------------------------------------------------------------------
(* The keys of the counters. *)

\* The order the counters of a retrieval are updated in.
LEMMA KeyNames ==
  /\ DOMAIN KeyOrder = 1..9
  /\ KeyOrder[1] = <<"retrieval_query_total", "True">>
  /\ KeyOrder[2] = <<"retrieval_query_total", "False">>
  /\ KeyOrder[3] = <<"retrieval_duration_ms", "True">>
  /\ KeyOrder[4] = <<"retrieval_duration_ms", "False">>
  /\ KeyOrder[5] = <<"retrieval_candidate_total", "vector">>
  /\ KeyOrder[6] = <<"retrieval_candidate_total", "bm25">>
  /\ KeyOrder[7] = <<"retrieval_candidate_total", "fused">>
  /\ KeyOrder[8] = <<"retrieval_candidate_total", "final">>
  /\ KeyOrder[9] = <<"retrieval_empty_result_total", "unlabelled">>
<1>1. DOMAIN KeyOrder = 1..9
  BY DEF KeyOrder
<1>2. /\ KeyOrder[1] = <<"retrieval_query_total", "True">>
      /\ KeyOrder[2] = <<"retrieval_query_total", "False">>
      /\ KeyOrder[3] = <<"retrieval_duration_ms", "True">>
      /\ KeyOrder[4] = <<"retrieval_duration_ms", "False">>
  BY DEF KeyOrder
<1>3. /\ KeyOrder[5] = <<"retrieval_candidate_total", "vector">>
      /\ KeyOrder[6] = <<"retrieval_candidate_total", "bm25">>
      /\ KeyOrder[7] = <<"retrieval_candidate_total", "fused">>
      /\ KeyOrder[8] = <<"retrieval_candidate_total", "final">>
  BY DEF KeyOrder
<1>4. KeyOrder[9] = <<"retrieval_empty_result_total", "unlabelled">>
  BY DEF KeyOrder
<1> QED
  BY <1>1, <1>2, <1>3, <1>4

\* The name and the label.
LEMMA KeyParts ==
  /\ KeyOrder[1][1] = "retrieval_query_total" /\ KeyOrder[1][2] = "True"
  /\ KeyOrder[2][1] = "retrieval_query_total" /\ KeyOrder[2][2] = "False"
  /\ KeyOrder[3][1] = "retrieval_duration_ms" /\ KeyOrder[3][2] = "True"
  /\ KeyOrder[4][1] = "retrieval_duration_ms" /\ KeyOrder[4][2] = "False"
  /\ KeyOrder[5][1] = "retrieval_candidate_total" /\ KeyOrder[5][2] = "vector"
  /\ KeyOrder[6][1] = "retrieval_candidate_total" /\ KeyOrder[6][2] = "bm25"
  /\ KeyOrder[7][1] = "retrieval_candidate_total" /\ KeyOrder[7][2] = "fused"
  /\ KeyOrder[8][1] = "retrieval_candidate_total" /\ KeyOrder[8][2] = "final"
  /\ KeyOrder[9][1] = "retrieval_empty_result_total" /\ KeyOrder[9][2] = "unlabelled"
<1>1. KeyOrder[1][1] = "retrieval_query_total" /\ KeyOrder[1][2] = "True"
  BY DEF KeyOrder
<1>2. KeyOrder[2][1] = "retrieval_query_total" /\ KeyOrder[2][2] = "False"
  BY DEF KeyOrder
<1>3. KeyOrder[3][1] = "retrieval_duration_ms" /\ KeyOrder[3][2] = "True"
  BY DEF KeyOrder
<1>4. KeyOrder[4][1] = "retrieval_duration_ms" /\ KeyOrder[4][2] = "False"
  BY DEF KeyOrder
<1>5. KeyOrder[5][1] = "retrieval_candidate_total" /\ KeyOrder[5][2] = "vector"
  BY DEF KeyOrder
<1>6. KeyOrder[6][1] = "retrieval_candidate_total" /\ KeyOrder[6][2] = "bm25"
  BY DEF KeyOrder
<1>7. KeyOrder[7][1] = "retrieval_candidate_total" /\ KeyOrder[7][2] = "fused"
  BY DEF KeyOrder
<1>8. KeyOrder[8][1] = "retrieval_candidate_total" /\ KeyOrder[8][2] = "final"
  BY DEF KeyOrder
<1>9. KeyOrder[9][1] = "retrieval_empty_result_total" /\ KeyOrder[9][2] = "unlabelled"
  BY DEF KeyOrder
<1> QED
  BY <1>1, <1>2, <1>3, <1>4, <1>5, <1>6, <1>7, <1>8, <1>9

\* A counter has one place in the order, and no counter of responses has one.
LEMMA KeysDiffer ==
  /\ \A m \in 1..9, n \in 1..9 : KeyOrder[m] = KeyOrder[n] => m = n
  /\ \A n \in 1..9 : \A code : KeyOrder[n] # <<"http_request_total", code>>
<1>1. \A m \in 1..9, n \in 1..9 :
        KeyOrder[m][1] = KeyOrder[n][1] /\ KeyOrder[m][2] = KeyOrder[n][2] => m = n
  BY KeyParts
<1>2. \A n \in 1..9 : KeyOrder[n][1] # "http_request_total"
  BY KeyParts
<1>3. \A code : <<"http_request_total", code>>[1] = "http_request_total"
  OBVIOUS
<1> QED
  BY <1>1, <1>2, <1>3

\* The counters of retrievals are in the order, those of responses are not.
LEMMA KeySets ==
  /\ RetrievalKeys = {KeyOrder[n] : n \in 1..9}
  /\ RetrievalKeys \subseteq CounterKeys
  /\ \A code \in {"2xx", "5xx"} : /\ <<"http_request_total", code>> \in CounterKeys
                                  /\ <<"http_request_total", code>> \notin RetrievalKeys
<1>1. RetrievalKeys = {KeyOrder[n] : n \in 1..9}
  BY KeyNames DEF RetrievalKeys, Range
<1>2. \A code \in {"2xx", "5xx"} : <<"http_request_total", code>> \in CounterKeys
  BY DEF CounterKeys
<1> QED
  BY <1>1, <1>2, KeysDiffer DEF CounterKeys

\* What a run adds to a counter of retrievals.
LEMMA IncrementType ==
  ASSUME NEW r, r \in Runs \/ r \in Records, NEW n \in 1..9
  PROVE  Increment(r, KeyOrder[n]) \in Nat
<1>1. r.found \in [ResultCounts -> Nat \cup {None}]
  BY DEF Runs, Records
<1>2. CASE n \in {1, 2, 3, 4}
  <2>1. KeyOrder[n][1] \in {"retrieval_query_total", "retrieval_duration_ms"}
    BY <1>2, KeyParts
  <2>2. Increment(r, KeyOrder[n])
          = IF KeyOrder[n][2] = (IF Succeeded(r) THEN "True" ELSE "False") THEN 1 ELSE 0
    BY <2>1 DEF Increment
  <2> QED
    BY <2>2
<1>3. CASE n \in {5, 6, 7, 8}
  <2>1. KeyOrder[n][1] = "retrieval_candidate_total" /\ KeyOrder[n][2] \in ResultCounts
    BY <1>3, KeyParts DEF ResultCounts
  <2>2. Increment(r, KeyOrder[n])
          = IF r.found[KeyOrder[n][2]] = None THEN 0 ELSE r.found[KeyOrder[n][2]]
    BY <2>1 DEF Increment
  <2> QED
    BY <1>1, <2>1, <2>2
<1>4. CASE n = 9
  <2>1. KeyOrder[n][1] = "retrieval_empty_result_total"
    BY <1>4, KeyParts
  <2>2. Increment(r, KeyOrder[n])
          = IF r.found.evidence = 0 \/ r.error = "NoRelevantEvidenceError" THEN 1 ELSE 0
    BY <2>1 DEF Increment
  <2> QED
    BY <2>2
<1> QED
  BY <1>2, <1>3, <1>4

\* It depends on the counts and the error alone.
LEMMA SameIncrement ==
  ASSUME NEW q, NEW r, q.found = r.found, q.error = r.error, NEW key
  PROVE  Increment(q, key) = Increment(r, key)
BY DEF Increment, Succeeded

\* The next counter is one of those that are left.
LEMMA LeastIsIn ==
  ASSUME NEW S, S \subseteq 1..9, S # {}
  PROVE  Min(S) \in S
<1> DEFINE R == {p \in Nat \X Nat : p[1] < p[2]}
<1>1. IsWellFoundedOn(R, Nat)
  BY NatLessThanWellFounded DEF OpToRel
<1>2. PICK n \in S : \A m \in S : <<m, n>> \notin R
  BY <1>1, WFMin
<1>3. ASSUME NEW m \in S PROVE n <= m
  <2>1. ~(<<m, n>>[1] < <<m, n>>[2])
    BY <1>2, <<m, n>> \in Nat \X Nat
  <2> QED
    BY <2>1
<1> QED
  BY <1>2, <1>3 DEF Min

-----------------------------------------------------------------------------
(* What a thread has still to count. *)

\* A thread counts only what its finished question adds to, and holds a value
\* only while a counter is left.
MetricsInv ==
  /\ DOMAIN todo = Threads /\ DOMAIN held = Threads
  /\ counters \in [CounterKeys -> Nat] /\ overlapped \in BOOLEAN
  /\ \A t \in Threads :
       /\ todo[t] \subseteq 1..9
       /\ todo[t] # {} => run[t].pc = "count" /\ todo[t] \subseteq Increments(run[t])
       /\ held[t] # None => held[t] \in Nat /\ todo[t] # {}

\* A question in progress is no concern of the counters.
LEMMA QuietStep ==
  ASSUME StagesInv, NEW t \in Threads,
         Ask(t) \/ RunStage(t) \/ CallProvider(t) \/ ProviderWorks(t) \/ CallEnds(t)
  PROVE  /\ UNCHANGED <<traces, counters, todo, held, overlapped>>
         /\ \A u \in Threads : \/ run'[u] = run[u]
                               \/ run[u].pc # "count" /\ run'[u].pc # "count"
<1>1. UNCHANGED <<traces, counters, todo, held, overlapped>>
  BY DEF Ask, RunStage, CallProvider, ProviderWorks, CallEnds
<1>2. CASE Ask(t)
  BY <1>2 DEF Ask, NoRun, StagesInv
<1>3. CASE RunStage(t) \/ CallEnds(t)
  <2>1. run[t].pc # "count" /\ (PassStage(t) \/ FailStage(t))
    BY <1>3 DEF RunStage, CallEnds
  <2>2. run'[t].pc # "count" /\ \A u \in Threads : u # t => run'[u] = run[u]
    <3>1. CASE PassStage(t)
      BY <3>1 DEF PassStage, StagesInv, RunInv, Runs
    <3>2. CASE FailStage(t)
      BY <3>2 DEF FailStage, StagesInv, RunInv, Runs
    <3> QED
      BY <2>1, <3>1, <3>2
  <2> QED
    BY <1>1, <2>1, <2>2
<1>4. CASE CallProvider(t)
  BY <1>1, <1>4 DEF CallProvider, StagesInv, RunInv, Runs
<1>5. CASE ProviderWorks(t)
  BY <1>1, <1>5 DEF ProviderWorks
<1> QED
  BY <1>2, <1>3, <1>4, <1>5, <1>1

\* The counter a thread updates, and what it adds.
LEMMA NextCounter ==
  ASSUME StagesInv, MetricsInv, NEW t \in Threads, todo[t] # {}
  PROVE  /\ Min(todo[t]) \in todo[t] /\ Min(todo[t]) \in 1..9
         /\ Key(t) = KeyOrder[Min(todo[t])] /\ Key(t) \in RetrievalKeys
         /\ Key(t) \in CounterKeys /\ Increment(run[t], Key(t)) \in Nat
<1>1. Min(todo[t]) \in todo[t] /\ todo[t] \subseteq 1..9
  BY LeastIsIn DEF MetricsInv
<1>2. PICK n \in 1..9 : n = Min(todo[t])
  BY <1>1
<1>3. Key(t) = KeyOrder[n]
  BY <1>2 DEF Key
<1>4. run[t] \in Runs
  BY DEF StagesInv, RunInv
<1>5. Increment(run[t], KeyOrder[n]) \in Nat
  BY <1>4, IncrementType
<1> QED
  BY <1>1, <1>2, <1>3, <1>5, KeySets

\* Every step keeps the counts natural and a thread with counters left in the
\* step of _answer_observed that records them.
LEMMA MetricsStep ==
  ASSUME StagesInv, MetricsInv, [TraceNext]_traceVars
  PROVE  MetricsInv'
<1>1. ASSUME UNCHANGED <<counters, todo, held, overlapped>>,
             \A u \in Threads : todo[u] # {} => run'[u] = run[u]
      PROVE  MetricsInv'
  <2>1. ASSUME NEW u \in Threads, todo[u] # {} PROVE Increments(run'[u]) = Increments(run[u])
    BY <1>1, <2>1
  <2>2. ASSUME NEW u \in Threads, todo[u] # {} PROVE todo[u] \subseteq Increments(run[u])'
    <3>1. PICK r : r = run[u] /\ r = run'[u]
      BY <1>1, <2>2
    <3>2. todo[u] \subseteq Increments(r)
      BY <2>2, <3>1 DEF MetricsInv
    <3> QED
      BY <3>1, <3>2 DEF Increments, Increment, Succeeded
  <2> QED
    BY <1>1, <2>2 DEF MetricsInv
<1>2. CASE UNCHANGED traceVars
  BY <1>1, <1>2 DEF traceVars
<1>3. ASSUME NEW t \in Threads,
             Ask(t) \/ RunStage(t) \/ CallProvider(t) \/ ProviderWorks(t) \/ CallEnds(t)
      PROVE  MetricsInv'
  BY <1>1, <1>3, QuietStep DEF MetricsInv
<1>4. ASSUME NEW t \in Threads, Finish(t) PROVE MetricsInv'
  <2>1. PICK r \in Runs : r = run[t] /\ r.pc = "finish"
    BY <1>4 DEF Finish, StagesInv, RunInv
  <2>2. PICK q : q = run'[t]
    OBVIOUS
  <2>3. q = [r EXCEPT !.pc = "count"] /\ \A u \in Threads : u # t => run'[u] = run[u]
    BY <1>4, <2>1, <2>2 DEF Finish, StagesInv
  <2>4. q.pc = "count" /\ q.found = r.found /\ q.error = r.error
    BY <2>3 DEF Runs
  <2>5. Increments(q) = Increments(r)
    BY <2>4 DEF Increments, Increment, Succeeded
  <2>6. Increments(r) \subseteq 1..9
    BY KeyNames DEF Increments
  <2>7. /\ todo' = [todo EXCEPT ![t] = Increments(r)] /\ todo[t] = {} /\ held[t] = None
        /\ UNCHANGED <<counters, held, overlapped>>
    BY <1>4, <2>1 DEF Finish, MetricsInv
  <2>8. ASSUME NEW u \in Threads, todo'[u] # {}
        PROVE  run'[u].pc = "count" /\ todo'[u] \subseteq Increments(run[u])'
    <3>1. PICK p : p = run'[u]
      OBVIOUS
    <3>2. p.pc = "count" /\ todo'[u] \subseteq Increments(p)
      <4>1. CASE u = t
        BY <2>2, <2>4, <2>5, <2>7, <3>1, <4>1 DEF MetricsInv
      <4>2. CASE u # t
        BY <2>3, <2>7, <2>8, <3>1, <4>2 DEF MetricsInv
      <4> QED
        BY <4>1, <4>2
    <3> QED
      BY <3>1, <3>2 DEF Increments, Increment, Succeeded
  <2> QED
    BY <2>6, <2>7, <2>8 DEF MetricsInv
<1>5. ASSUME NEW t \in Threads, ReadCounter(t) PROVE MetricsInv'
  <2>1. todo[t] # {} /\ held[t] = None /\ counters[Key(t)] \in Nat
    BY <1>5, NextCounter DEF ReadCounter, MetricsInv
  <2>2. PICK v \in Nat : v = counters[Key(t)]
    BY <2>1
  <2>3. /\ held' = [held EXCEPT ![t] = v] /\ UNCHANGED <<todo, counters, run>>
        /\ overlapped' \in BOOLEAN
    BY <1>5, <2>2 DEF ReadCounter
  <2> QED
    BY <2>1, <2>3 DEF MetricsInv, Increments, Increment, Succeeded
<1>6. ASSUME NEW t \in Threads, WriteCounter(t) PROVE MetricsInv'
  <2>1. held[t] # None /\ held[t] \in Nat /\ todo[t] # {}
    BY <1>6 DEF WriteCounter, MetricsInv
  <2>2. Key(t) \in CounterKeys /\ Increment(run[t], Key(t)) \in Nat
    BY <2>1, NextCounter
  <2>3. PICK v \in Nat, k \in CounterKeys : v = held[t] + Increment(run[t], Key(t)) /\ k = Key(t)
    BY <2>1, <2>2
  <2>4. PICK n : n = Min(todo[t])
    OBVIOUS
  <2>5. /\ counters' = [counters EXCEPT ![k] = v] /\ held' = [held EXCEPT ![t] = None]
        /\ todo' = [todo EXCEPT ![t] = todo[t] \ {n}] /\ UNCHANGED <<run, overlapped>>
    BY <1>6, <2>3, <2>4 DEF WriteCounter
  <2>6. counters' \in [CounterKeys -> Nat]
    BY <2>3, <2>5 DEF MetricsInv
  <2>7. \A u \in Threads : todo'[u] \subseteq todo[u] /\ (held'[u] # None => u # t)
    BY <2>5 DEF MetricsInv
  <2>8. \A u \in Threads : u # t => todo'[u] = todo[u] /\ held'[u] = held[u]
    BY <2>5 DEF MetricsInv
  <2>9. ASSUME NEW u \in Threads, todo'[u] # {}
        PROVE  run'[u].pc = "count" /\ todo'[u] \subseteq Increments(run[u])'
    <3>1. PICK r : r = run[u] /\ r = run'[u]
      BY <2>5
    <3>2. r.pc = "count" /\ todo'[u] \subseteq Increments(r)
      BY <2>7, <2>9, <3>1 DEF MetricsInv
    <3>3. Increments(run[u])' = Increments(r)
      BY <3>1 DEF Increments, Increment, Succeeded
    <3> QED
      BY <3>1, <3>2, <3>3
  <2> QED
    BY <2>5, <2>6, <2>7, <2>8, <2>9 DEF MetricsInv
<1>7. ASSUME NEW t \in Threads, Reply(t) PROVE MetricsInv'
  <2>1. PICK k \in CounterKeys : counters' = [counters EXCEPT ![k] = @ + 1]
    <3>1. PICK code \in {"2xx", "5xx"} :
            counters' = [counters EXCEPT ![<<"http_request_total", code>>] = @ + 1]
      BY <1>7 DEF Reply
    <3> QED
      BY <3>1, KeySets
  <2>2. counters' \in [CounterKeys -> Nat]
    BY <2>1 DEF MetricsInv
  <2>3. /\ todo[t] = {} /\ UNCHANGED <<todo, held, overlapped>>
        /\ \A u \in Threads : u # t => run'[u] = run[u]
    BY <1>7 DEF Reply, StagesInv
  <2>4. ASSUME NEW u \in Threads, todo[u] # {} PROVE todo[u] \subseteq Increments(run[u])'
    <3>1. PICK r : r = run[u] /\ r = run'[u]
      BY <2>3, <2>4
    <3>2. todo[u] \subseteq Increments(r)
      BY <2>4, <3>1 DEF MetricsInv
    <3> QED
      BY <3>1, <3>2 DEF Increments, Increment, Succeeded
  <2> QED
    BY <2>2, <2>3, <2>4 DEF MetricsInv
<1> QED
  BY <1>2, <1>3, <1>4, <1>5, <1>6, <1>7 DEF TraceNext, Continue

\* The invariant of what is left to count.
LEMMA MetricsInvariant == TraceSafety => []MetricsInv
<1>1. TraceInit => MetricsInv
  <2> SUFFICES ASSUME TraceInit PROVE MetricsInv
    OBVIOUS
  <2>1. /\ counters = [key \in CounterKeys |-> 0] /\ overlapped = FALSE
        /\ todo = [t \in Threads |-> {}] /\ held = [t \in Threads |-> None]
    BY DEF TraceInit
  <2>2. counters \in [CounterKeys -> Nat] /\ overlapped \in BOOLEAN
    BY <2>1
  <2> QED
    BY <2>1, <2>2 DEF MetricsInv
<1>2. StagesInv /\ MetricsInv /\ [TraceNext]_traceVars => MetricsInv'
  BY MetricsStep
<1> QED
  BY <1>1, <1>2, TraceInvariant, PTL DEF TraceSafety

\* No more questions are asked than there are.
LEMMA AskedInvariant == TraceSafety => [](asked \in 0..MaxQuestions)
<1> DEFINE Inv == asked \in 0..MaxQuestions
<1>1. TraceInit => Inv
  BY QueryTraceAssumption DEF TraceInit
<1>2. Inv /\ [TraceNext]_traceVars => Inv'
  <2>1. ASSUME Inv, NEW t \in Threads, Ask(t) PROVE Inv'
    BY <2>1, QueryTraceAssumption DEF Ask
  <2>2. ASSUME NEW t \in Threads, Continue(t) PROVE asked' = asked
    BY <2>2 DEF Continue, RunStage, CallProvider, ProviderWorks, CallEnds, Finish, ReadCounter,
       WriteCounter, Reply
  <2> QED
    BY <2>1, <2>2 DEF TraceNext, traceVars
<1> QED
  BY <1>1, <1>2, PTL DEF TraceSafety

\* The types of the questions, their calls and the metrics, for any number of
\* threads and questions.
THEOREM TraceTypesCorrect == TraceSpec => []TraceTypeOK
<1>1. ASSUME StagesInv, OnceInv, LoadsInv, CallInv, MetricsInv, asked \in 0..MaxQuestions
      PROVE  TraceTypeOK
  <2>1. ASSUME NEW t \in Threads
        PROVE  /\ call[t].pc \in {"none", "load", "send", "sleep", "returned", "raised"}
               /\ call[t].role \in Roles \cup {None}
               /\ call[t].pc = "none" <=> run[t].pc # "call"
    BY <1>1 DEF CallInv, CallOK, CallPcs
  <2>2. ASSUME NEW t \in Threads
        PROVE  /\ run[t].pc \in {"idle", "stage", "call", "finish", "count"}
               /\ run[t].id \in 0..asked
               /\ run[t].pc = "stage" => Len(run[t].stages) < Len(StageOrder)
    BY <1>1 DEF StagesInv, RunInv, OpenInv, Runs, Open, OnceInv
  <2>3. ASSUME NEW t \in Threads
        PROVE  /\ todo[t] \subseteq DOMAIN KeyOrder
               /\ held[t] # None => held[t] \in Nat /\ todo[t] # {}
               /\ todo[t] # {} => run[t].pc = "count"
    BY <1>1, KeyNames DEF MetricsInv
  <2>4. /\ uses \in [Roles -> Kinds]
        /\ loaded \in [Roles -> BOOLEAN] /\ loads \in [Roles -> Nat]
        /\ counters \in [CounterKeys -> Nat] /\ overlapped \in BOOLEAN
    BY <1>1 DEF CallInv, LoadsInv, MetricsInv
  <2> QED
    BY <1>1, <2>1, <2>2, <2>3, <2>4 DEF TraceTypeOK
<1> QED
  BY <1>1, TraceInvariant, LoadsInvariant, CallInvariant, MetricsInvariant, AskedInvariant, PTL
     DEF TraceSpec

-----------------------------------------------------------------------------
(* The counters of retrievals.                                             *)

\* What a thread with the counters `left' to add to has still to add to key for
\* its question r, what all threads have, and what the traces ts add up to.
Due(left, r, key) == IF \E n \in left : KeyOrder[n] = key THEN Increment(r, key) ELSE 0
Dues(lefts, rs, key) == [t \in Threads |-> Due(lefts[t], rs[t], key)]
Owes(ts, key) == [n \in DOMAIN ts |-> Increment(ts[n], key)]

\* A counter with `count', to which `due' are still to be added, of `owed' in
\* all; the threads updating it have read `values'.
Agrees(count, due, owed, updating, values, over) ==
  /\ count + due <= owed
  /\ \A t \in updating : values[t] + due <= owed
  /\ ~over => /\ count + due = owed
              /\ \A t \in updating : values[t] = count /\ updating = {t}

AgreeInv(key) ==
  Agrees(counters[key], Total(Dues(todo, run, key)), Total(Owes(traces, key)),
         {t \in Threads : Updates(t, key)}, held, overlapped)

\* A counter followed is one of the nine, and what is added to it is a number.
LEMMA FollowedKeys ==
  ASSUME NEW key \in Followed
  PROVE  /\ key \in CounterKeys
         /\ \E n \in 1..9 : KeyOrder[n] = key
         /\ \A r : r \in Runs \/ r \in Records => Increment(r, key) \in Nat
         /\ \A code \in {"2xx", "5xx"} : key # <<"http_request_total", code>>
<1>1. key \in RetrievalKeys
  BY QueryTraceAssumption
<1>2. PICK n \in 1..9 : KeyOrder[n] = key
  BY <1>1, KeySets
<1>3. \A r : r \in Runs \/ r \in Records => Increment(r, key) \in Nat
  BY <1>2, IncrementType
<1> QED
  BY <1>1, <1>2, <1>3, KeySets

\* What threads have still to add to a counter are numbers with a sum.
LEMMA DuesType ==
  ASSUME NEW lefts, NEW rs, \A t \in Threads : rs[t] \in Runs, NEW key \in Followed
  PROVE  /\ Dues(lefts, rs, key) \in [Threads -> Nat]
         /\ \A t \in Threads : Dues(lefts, rs, key)[t] = Due(lefts[t], rs[t], key)
         /\ Total(Dues(lefts, rs, key)) \in Nat
<1>1. ASSUME NEW t \in Threads PROVE Due(lefts[t], rs[t], key) \in Nat
  BY FollowedKeys DEF Due
<1>2. Dues(lefts, rs, key) \in [Threads -> Nat]
  BY <1>1 DEF Dues
<1> QED
  BY <1>2, ProvidersAssumption, UnitsFinite DEF Dues

\* So is what the traces add up to.
LEMMA OwesType ==
  ASSUME NEW ts \in Seq(Records), NEW key \in Followed
  PROVE  /\ Owes(ts, key) \in [1..Len(ts) -> Nat]
         /\ \A n \in 1..Len(ts) : Owes(ts, key)[n] = Increment(ts[n], key)
         /\ Total(Owes(ts, key)) \in Nat
<1>1. DOMAIN ts = 1..Len(ts) /\ Len(ts) \in Nat /\ \A n \in 1..Len(ts) : ts[n] \in Records
  OBVIOUS
<1>2. Owes(ts, key) \in [1..Len(ts) -> Nat]
  BY <1>1, FollowedKeys DEF Owes
<1>3. IsFiniteSet(1..Len(ts))
  BY <1>1, UpTo
<1> QED
  BY <1>1, <1>2, <1>3, UnitsFinite DEF Owes

\* Threads that have no counter left owe nothing, whatever their questions.
LEMMA SameDues ==
  ASSUME NEW lefts, NEW rs, NEW qs, NEW key,
         \A t \in Threads : lefts[t] = {} \/ qs[t] = rs[t]
  PROVE  Dues(lefts, qs, key) = Dues(lefts, rs, key)
<1>1. ASSUME NEW t \in Threads PROVE Due(lefts[t], qs[t], key) = Due(lefts[t], rs[t], key)
  BY DEF Due
<1> QED
  BY <1>1 DEF Dues

\* Every step keeps a counter in agreement: a finished question adds to its
\* trace what its thread has to count from then on, and a
\* thread that reads what another is about to write sets overlapped.
LEMMA AgreeStep ==
  ASSUME StagesInv, MetricsInv, StagesInv', NEW key \in Followed, AgreeInv(key),
         [TraceNext]_traceVars
  PROVE  AgreeInv(key)'
<1> DEFINE updating == {t \in Threads : Updates(t, key)}
           dues == Dues(todo, run, key)
           owes == Owes(traces, key)
<1>1. PICK count \in Nat, due \in Nat, owed \in Nat :
        /\ count = counters[key] /\ due = Total(dues) /\ owed = Total(owes)
        /\ Agrees(count, due, owed, updating, held, overlapped)
  <2>1. \A t \in Threads : run[t] \in Runs
    BY DEF StagesInv, RunInv
  <2>2. traces \in Seq(Records)
    BY DEF StagesInv
  <2>3. counters[key] \in Nat
    BY FollowedKeys DEF MetricsInv
  <2> QED
    BY <2>1, <2>2, <2>3, DuesType, OwesType DEF AgreeInv
\* A step that leaves what is due and what is owed.
<1>2. ASSUME UNCHANGED <<traces, todo, held, overlapped>>, counters'[key] = counters[key],
             \A t \in Threads : todo[t] = {} \/ run'[t] = run[t]
      PROVE  AgreeInv(key)'
  <2>1. Dues(todo, run', key) = dues
    BY <1>2, SameDues
  <2>2. \A t \in Threads : Updates(t, key)' <=> Updates(t, key)
    BY <1>2 DEF Updates, Key
  <2>3. {t \in Threads : Updates(t, key)'} = updating
    BY <2>2
  <2> QED
    BY <1>1, <1>2, <2>1, <2>3 DEF AgreeInv
<1>3. CASE UNCHANGED traceVars
  BY <1>2, <1>3 DEF traceVars
<1>4. ASSUME NEW t \in Threads,
             Ask(t) \/ RunStage(t) \/ CallProvider(t) \/ ProviderWorks(t) \/ CallEnds(t)
      PROVE  AgreeInv(key)'
  BY <1>2, <1>4, QuietStep DEF MetricsInv
<1>5. ASSUME NEW t \in Threads, Reply(t) PROVE AgreeInv(key)'
  <2>1. /\ todo[t] = {} /\ UNCHANGED <<traces, todo, held, overlapped>>
        /\ \A u \in Threads : u # t => run'[u] = run[u]
    BY <1>5 DEF Reply, StagesInv
  <2>2. PICK code \in {"2xx", "5xx"} :
          counters' = [counters EXCEPT ![<<"http_request_total", code>>] = @ + 1]
    BY <1>5 DEF Reply
  <2>3. counters'[key] = counters[key]
    BY <2>2, FollowedKeys DEF MetricsInv
  <2> QED
    BY <1>2, <2>1, <2>3
\* A trace more is owed, and due.
<1>6. ASSUME NEW t \in Threads, Finish(t) PROVE AgreeInv(key)'
  <2>1. PICK r \in Runs : r = run[t] /\ r.pc = "finish"
    BY <1>6 DEF Finish, StagesInv, RunInv
  <2>0. PICK q : q = run'[t]
    OBVIOUS
  <2>2. PICK trace \in Records :
          /\ q = [r EXCEPT !.pc = "count"] /\ traces' = Append(traces, trace)
          /\ trace.found = r.found /\ trace.error = r.error
    <3>1. PICK trace : trace = [id |-> r.id, success |-> Succeeded(r), stages |-> r.stages,
                                error |-> r.error, found |-> r.found]
      OBVIOUS
    <3>2. trace \in Records
      BY <1>6, <2>1, <3>1, FinishTells DEF StagesInv
    <3>3. traces' = Append(traces, trace) /\ run'[t] = [r EXCEPT !.pc = "count"]
      BY <1>6, <2>1, <3>1 DEF Finish, StagesInv
    <3> QED
      BY <2>0, <3>1, <3>2, <3>3
  <2>3. PICK i \in Nat : i = Increment(r, key)
    BY FollowedKeys
  <2>4. Increment(trace, key) = i /\ Increment(q, key) = i
    BY <2>2, <2>3, SameIncrement DEF Runs
  <2>5. Total(Owes(traces', key)) = owed + i
    <3>1. PICK k \in Nat : k = Len(traces) /\ traces \in Seq(Records)
      BY DEF StagesInv
    <3>2. /\ Len(traces') = k + 1 /\ traces' \in Seq(Records) /\ traces'[k + 1] = trace
          /\ \A n \in 1..k : traces'[n] = traces[n]
      BY <2>2, <3>1
    <3>3. owes \in [1..k -> Nat] /\ \A n \in 1..k : owes[n] = Increment(traces[n], key)
      BY <3>1, OwesType
    <3>4. PICK new : new = Owes(traces', key)
      OBVIOUS
    <3>5. new \in [1..(k + 1) -> Nat] /\ \A n \in 1..(k + 1) : new[n] = Increment(traces'[n], key)
      BY <3>2, <3>4, OwesType
    <3>6. \A n \in 1..k : new[n] = owes[n]
      BY <3>2, <3>3, <3>5
    <3>7. Total(new) = Total(owes) + new[k + 1]
      BY <3>3, <3>5, <3>6, TotalAppend
    <3>8. new[k + 1] = i
      BY <2>4, <3>2, <3>5
    <3> QED
      BY <1>1, <3>4, <3>7, <3>8
  <2>6. /\ todo[t] = {} /\ held[t] = None /\ todo'[t] = Increments(r)
        /\ \A u \in Threads : u # t => todo'[u] = todo[u] /\ run'[u] = run[u]
        /\ UNCHANGED <<counters, held, overlapped>>
    BY <1>6, <2>1 DEF Finish, MetricsInv, StagesInv
  <2>7. Total(Dues(todo', run', key)) = due + i
    <3>1. PICK old, new : old = dues /\ new = Dues(todo', run', key)
      OBVIOUS
    <3>2. /\ old \in [Threads -> Nat] /\ new \in [Threads -> Nat] /\ Total(new) \in Nat
          /\ \A u \in Threads : old[u] = Due(todo[u], run[u], key)
          /\ \A u \in Threads : new[u] = Due(todo'[u], run'[u], key)
      <4>1. \A u \in Threads : run[u] \in Runs /\ run'[u] \in Runs
        BY DEF StagesInv, RunInv
      <4> QED
        BY <3>1, <4>1, DuesType
    <3>3. \A u \in Threads : u # t => old[u] = new[u]
      BY <2>6, <3>2
    <3>4. old[t] = 0
      BY <2>6, <3>2 DEF Due
    <3>5. new[t] = i
      <4>1. (\E n \in Increments(r) : KeyOrder[n] = key) <=> i # 0
        BY <2>3, KeyNames, FollowedKeys DEF Increments
      <4>2. new[t] = Due(Increments(r), q, key)
        BY <2>0, <2>6, <3>2
      <4> QED
        BY <2>3, <2>4, <4>1, <4>2 DEF Due
    <3>6. Total(new) + old[t] = Total(old) + new[t]
      BY <3>2, <3>3, ProvidersAssumption, TotalChange
    <3> QED
      BY <1>1, <3>1, <3>2, <3>4, <3>5, <3>6
  <2>8. {u \in Threads : Updates(u, key)'} = updating
    BY <2>6 DEF Updates, Key
  <2>9. Agrees(count, due + i, owed + i, updating, held, overlapped)
    <3>1. \A u \in updating : held[u] \in Nat
      BY DEF Updates, MetricsInv
    <3> QED
      BY <1>1, <3>1 DEF Agrees
  <2> QED
    BY <1>1, <2>5, <2>6, <2>7, <2>8, <2>9 DEF AgreeInv
\* An update begins: it adds to what the counter is now, ...
<1>7. ASSUME NEW t \in Threads, ReadCounter(t) PROVE AgreeInv(key)'
  <2>1. /\ todo[t] # {} /\ held[t] = None /\ UNCHANGED <<counters, run, traces, todo>>
        /\ held' = [held EXCEPT ![t] = counters[Key(t)]]
        /\ overlapped' = (overlapped \/ \E u \in Threads : Updates(u, Key(t)))
    BY <1>7 DEF ReadCounter
  <2>2. \A u \in Threads : Key(u)' = Key(u)
    BY <2>1 DEF Key
  <2>3. t \notin updating /\ \A u \in Threads : u # t => held'[u] = held[u]
    BY <2>1 DEF Updates, MetricsInv
  <2>4. PICK after, values, over : /\ after = {u \in Threads : Updates(u, key)'}
                                   /\ values = held' /\ over = overlapped'
    OBVIOUS
  <2>5. CASE Key(t) = key
    <3>1. values[t] = count /\ count # None
      BY <1>1, <2>1, <2>4, <2>5, QueryTraceAssumption DEF MetricsInv
    <3>2. after = updating \cup {t}
      BY <2>2, <2>3, <2>4, <2>5, <3>1 DEF Updates
    <3>3. overlapped => over
      BY <2>1, <2>4
    <3>4. ~over => updating = {}
      BY <2>1, <2>4, <2>5
    <3>5. \A u \in updating : values[u] = held[u]
      BY <2>3, <2>4
    <3>6. Agrees(count, due, owed, after, values, over)
      BY <1>1, <3>1, <3>2, <3>3, <3>4, <3>5 DEF Agrees
    <3> QED
      BY <1>1, <2>1, <2>4, <3>6 DEF AgreeInv
  <2>6. CASE Key(t) # key
    <3>1. after = updating /\ \A u \in updating : values[u] = held[u]
      BY <2>2, <2>3, <2>4, <2>6 DEF Updates
    <3>2. overlapped => over
      BY <2>1, <2>4
    <3>3. Agrees(count, due, owed, after, values, over)
      BY <1>1, <3>1, <3>2 DEF Agrees
    <3> QED
      BY <1>1, <2>1, <2>4, <3>3 DEF AgreeInv
  <2> QED
    BY <2>5, <2>6
\* ... and ends, with what that was.
<1>8. ASSUME NEW t \in Threads, WriteCounter(t) PROVE AgreeInv(key)'
  <2>1. held[t] # None /\ held[t] \in Nat /\ todo[t] # {}
    BY <1>8 DEF WriteCounter, MetricsInv
  <2>2. PICK n \in 1..9 : n = Min(todo[t]) /\ n \in todo[t] /\ Key(t) = KeyOrder[n]
    BY <2>1, NextCounter
  <2>3. PICK i \in Nat : i = Increment(run[t], Key(t))
    BY <2>1, NextCounter
  <2>4. /\ counters' = [counters EXCEPT ![Key(t)] = held[t] + i]
        /\ held' = [held EXCEPT ![t] = None] /\ todo' = [todo EXCEPT ![t] = todo[t] \ {n}]
        /\ UNCHANGED <<run, traces, overlapped>>
    BY <1>8, <2>2, <2>3 DEF WriteCounter
  <2>5. /\ held'[t] = None /\ todo'[t] = todo[t] \ {n}
        /\ \A u \in Threads : u # t => held'[u] = held[u] /\ todo'[u] = todo[u]
    BY <2>4 DEF MetricsInv
  <2>6. PICK after, values, new : /\ after = {u \in Threads : Updates(u, key)'}
                                  /\ values = held' /\ new = Dues(todo', run', key)
    OBVIOUS
  <2>7. after = updating \ {t} /\ \A u \in after : values[u] = held[u]
    BY <2>5, <2>6 DEF Updates, Key
  <2>8. PICK old : old = dues
    OBVIOUS
  <2>9. /\ old \in [Threads -> Nat] /\ new \in [Threads -> Nat] /\ Total(new) \in Nat
        /\ \A u \in Threads : old[u] = Due(todo[u], run[u], key)
        /\ \A u \in Threads : new[u] = Due(todo'[u], run[u], key)
    <3>1. \A u \in Threads : run[u] \in Runs
      BY DEF StagesInv, RunInv
    <3>2. new = Dues(todo', run, key)
      BY <2>4, <2>6
    <3>3. /\ new \in [Threads -> Nat] /\ Total(new) \in Nat
          /\ \A u \in Threads : new[u] = Due(todo'[u], run[u], key)
      BY <3>1, <3>2, DuesType
    <3> QED
      BY <2>8, <3>1, <3>3, DuesType
  <2>10. Total(new) + old[t] = Total(old) + new[t]
    <3>1. \A u \in Threads : u # t => old[u] = new[u]
      BY <2>5, <2>9
    <3> QED
      BY <2>9, <3>1, ProvidersAssumption, TotalChange
  <2>11. CASE Key(t) = key
    <3>1. old[t] = i
      BY <2>2, <2>3, <2>9, <2>11 DEF Due
    <3>2. new[t] = 0
      <4>1. ~\E m \in todo[t] \ {n} : KeyOrder[m] = key
        BY <2>2, <2>11, KeysDiffer DEF MetricsInv
      <4> QED
        BY <2>5, <2>9, <4>1 DEF Due
    <3>3. PICK rest \in Nat : rest = Total(new) /\ rest + i = due
      BY <1>1, <2>8, <2>9, <2>10, <3>1, <3>2
    <3>4. PICK v \in Nat : v = held[t] /\ t \in updating
      BY <2>1, <2>11 DEF Updates
    <3>5. counters'[key] = v + i
      BY <2>4, <2>11, <3>4, FollowedKeys DEF MetricsInv
    <3>6. \A u \in updating : held[u] \in Nat
      BY DEF Updates, MetricsInv
    <3>7. Agrees(v + i, rest, owed, after, values, overlapped)
      BY <1>1, <2>7, <3>3, <3>4, <3>6 DEF Agrees
    <3> QED
      BY <1>1, <2>4, <2>6, <3>3, <3>5, <3>7 DEF AgreeInv
  <2>12. CASE Key(t) # key
    <3>1. new[t] = old[t]
      <4>1. (\E m \in todo[t] \ {n} : KeyOrder[m] = key) <=> \E m \in todo[t] : KeyOrder[m] = key
        BY <2>2, <2>12
      <4> QED
        BY <2>5, <2>9, <4>1 DEF Due
    <3>2. Total(new) = due
      BY <1>1, <2>8, <2>9, <2>10, <3>1
    <3>3. counters'[key] = count
      BY <1>1, <2>4, <2>12, FollowedKeys DEF MetricsInv
    <3>4. after = updating
      BY <2>7, <2>12 DEF Updates
    <3>5. Agrees(count, due, owed, after, values, overlapped)
      BY <1>1, <2>7, <3>4 DEF Agrees
    <3> QED
      BY <1>1, <2>4, <2>6, <3>2, <3>3, <3>5 DEF AgreeInv
  <2> QED
    BY <2>11, <2>12
<1> QED
  BY <1>3, <1>4, <1>5, <1>6, <1>7, <1>8 DEF TraceNext, Continue

-----------------------------------------------------------------------------
(* The counters of responses.                                              *)

Code(ok) == <<"http_request_total", IF ok THEN "2xx" ELSE "5xx">>

\* The threads whose question is traced and not yet answered.
Unanswered(ok) == {t \in Threads : run[t].pc = "count" /\ Succeeded(run[t]) = ok}

\* No response is counted twice or not at all.
ResponsesInv ==
  \A ok \in BOOLEAN : counters[Code(ok)] + Cardinality(Unanswered(ok)) = Responses(ok)

\* Sets of threads can be counted.
LEMMA UnansweredFinite ==
  ASSUME NEW S, S \subseteq Threads
  PROVE  IsFiniteSet(S) /\ Cardinality(S) \in Nat
BY ProvidersAssumption, FS_Subset, FS_CardinalityType

\* The two counters of responses.
LEMMA CodesDiffer ==
  /\ \A ok \in BOOLEAN, other \in BOOLEAN : Code(ok) = Code(other) => ok = other
  /\ \A ok \in BOOLEAN : Code(ok) \in CounterKeys \ RetrievalKeys
<1>1. Code(TRUE) = <<"http_request_total", "2xx">> /\ Code(FALSE) = <<"http_request_total", "5xx">>
  BY DEF Code
<1>2. Code(TRUE)[2] = "2xx" /\ Code(FALSE)[2] = "5xx"
  BY DEF Code
<1>3. Code(TRUE) # Code(FALSE)
  BY <1>2
<1> QED
  BY <1>1, <1>3, KeySets

\* Every step keeps the responses that were counted and the traced questions
\* without an answer together equal to the traces.
LEMMA ResponsesStep ==
  ASSUME StagesInv, MetricsInv, ResponsesInv, [TraceNext]_traceVars
  PROVE  ResponsesInv'
<1>1. ASSUME traces' = traces, \A ok \in BOOLEAN : counters'[Code(ok)] = counters[Code(ok)],
             \A u \in Threads : \/ run'[u] = run[u]
                                \/ run[u].pc # "count" /\ run'[u].pc # "count"
      PROVE  ResponsesInv'
  <2>1. ASSUME NEW ok \in BOOLEAN PROVE Unanswered(ok)' = Unanswered(ok)
    BY <1>1 DEF Unanswered, Succeeded
  <2> QED
    BY <1>1, <2>1 DEF ResponsesInv, Responses
<1>2. CASE UNCHANGED traceVars
  BY <1>1, <1>2 DEF traceVars
<1>3. ASSUME NEW t \in Threads,
             Ask(t) \/ RunStage(t) \/ CallProvider(t) \/ ProviderWorks(t) \/ CallEnds(t)
      PROVE  ResponsesInv'
  BY <1>1, <1>3, QuietStep
<1>4. ASSUME NEW t \in Threads, ReadCounter(t) PROVE ResponsesInv'
  BY <1>1, <1>4 DEF ReadCounter
<1>5. ASSUME NEW t \in Threads, WriteCounter(t) PROVE ResponsesInv'
  <2>1. Key(t) \in RetrievalKeys
    BY <1>5, NextCounter DEF WriteCounter, MetricsInv
  <2>2. \A ok \in BOOLEAN : counters'[Code(ok)] = counters[Code(ok)]
    BY <1>5, <2>1, CodesDiffer DEF WriteCounter, MetricsInv
  <2> QED
    BY <1>1, <1>5, <2>2 DEF WriteCounter
\* A trace more is a response more to come.
<1>6. ASSUME NEW t \in Threads, Finish(t) PROVE ResponsesInv'
  <2>1. PICK r \in Runs : r = run[t] /\ r.pc = "finish"
    BY <1>6 DEF Finish, StagesInv, RunInv
  <2>2. PICK trace : /\ trace.success = Succeeded(r) /\ traces' = Append(traces, trace)
                     /\ traces \in Seq(Records)
    BY <1>6, <2>1 DEF Finish, StagesInv
  <2>3. PICK k \in Nat : k = Len(traces) /\ DOMAIN traces = 1..k
    BY <2>2
  <2>4. /\ DOMAIN traces' = 1..(k + 1) /\ traces'[k + 1] = trace
        /\ \A n \in 1..k : traces'[n] = traces[n]
    BY <2>2, <2>3
  <2>5. /\ run'[t] = [r EXCEPT !.pc = "count"] /\ counters' = counters
        /\ \A u \in Threads : u # t => run'[u] = run[u]
    BY <1>6, <2>1 DEF Finish, StagesInv
  <2>6. PICK q : q = run'[t] /\ q.pc = "count" /\ q.error = r.error
    BY <2>5 DEF Runs
  <2>7. ASSUME NEW ok \in BOOLEAN
        PROVE  counters'[Code(ok)] + Cardinality(Unanswered(ok)') = Responses(ok)'
    <3>1. PICK mine \in BOOLEAN : mine = Succeeded(r) /\ mine = Succeeded(q)
      BY <2>6 DEF Succeeded
    <3>2. PICK before, after : before = Unanswered(ok) /\ after = Unanswered(ok)'
      OBVIOUS
    <3>3. t \notin before /\ before \subseteq Threads
      BY <2>1, <3>2 DEF Unanswered
    <3>4. after = IF mine = ok THEN before \cup {t} ELSE before
      BY <2>5, <2>6, <3>1, <3>2, <3>3 DEF Unanswered, Succeeded
    <3>5. PICK old, new : /\ old = {n \in DOMAIN traces : traces[n].success = ok}
                          /\ new = {n \in DOMAIN traces' : traces'[n].success = ok}
      OBVIOUS
    <3>6. new = IF mine = ok THEN old \cup {k + 1} ELSE old
      BY <2>2, <2>3, <2>4, <3>1, <3>5
    <3>7. k + 1 \notin old /\ IsFiniteSet(old) /\ Cardinality(old) \in Nat
      <4>1. IsFiniteSet(1..k)
        BY UpTo
      <4>2. old \subseteq 1..k
        BY <2>3, <3>5
      <4>3. IsFiniteSet(old)
        BY <4>1, <4>2, FS_Subset
      <4>4. k + 1 \notin 1..k
        OBVIOUS
      <4> QED
        BY <4>2, <4>3, <4>4, FS_CardinalityType
    <3>8. IsFiniteSet(before) /\ Cardinality(before) \in Nat
      BY <3>3, UnansweredFinite
    <3>9. /\ Cardinality(new) = IF mine = ok THEN Cardinality(old) + 1 ELSE Cardinality(old)
          /\ Cardinality(after) = IF mine = ok THEN Cardinality(before) + 1
                                  ELSE Cardinality(before)
      BY <3>3, <3>4, <3>6, <3>7, <3>8, FS_AddElement
    <3>10. counters[Code(ok)] + Cardinality(before) = Cardinality(old)
           /\ counters[Code(ok)] \in Nat
      BY <3>2, <3>5, CodesDiffer DEF ResponsesInv, Responses, MetricsInv
    <3>11. counters[Code(ok)] + Cardinality(after) = Cardinality(new)
      BY <3>7, <3>8, <3>9, <3>10
    <3> QED
      BY <2>5, <3>2, <3>5, <3>11 DEF Responses
  <2> QED
    BY <2>7 DEF ResponsesInv
<1>7. ASSUME NEW t \in Threads, Reply(t) PROVE ResponsesInv'
  <2>1. PICK r \in Runs : r = run[t] /\ r.pc = "count"
    BY <1>7 DEF Reply, StagesInv, RunInv
  <2>2. PICK mine \in BOOLEAN : mine = Succeeded(r)
    BY DEF Succeeded
  <2>3. /\ counters' = [counters EXCEPT ![Code(mine)] = @ + 1] /\ traces' = traces
        /\ run'[t].pc = "idle" /\ \A u \in Threads : u # t => run'[u] = run[u]
    BY <1>7, <2>1, <2>2 DEF Reply, Code, StagesInv, NoRun
  <2>4. ASSUME NEW ok \in BOOLEAN
        PROVE  counters'[Code(ok)] + Cardinality(Unanswered(ok)') = Responses(ok)'
    <3>1. PICK before, after : before = Unanswered(ok) /\ after = Unanswered(ok)'
      OBVIOUS
    <3>2. IsFiniteSet(before) /\ Cardinality(before) \in Nat
      BY <3>1, UnansweredFinite DEF Unanswered
    <3>3. counters[Code(ok)] \in Nat /\ counters[Code(ok)] + Cardinality(before) = Responses(ok)
      BY <3>1, CodesDiffer DEF ResponsesInv, MetricsInv
    <3>4. Responses(ok)' = Responses(ok)
      BY <2>3 DEF Responses
    <3>5. CASE mine = ok
      <4>1. t \in before /\ after = before \ {t}
        BY <2>1, <2>2, <2>3, <3>1, <3>5 DEF Unanswered, Succeeded
      <4>2. Cardinality(after) = Cardinality(before) - 1
        BY <3>2, <4>1, FS_RemoveElement
      <4>3. counters'[Code(ok)] = counters[Code(ok)] + 1
        BY <2>3, <3>5, CodesDiffer DEF MetricsInv
      <4> QED
        BY <3>1, <3>2, <3>3, <3>4, <4>2, <4>3
    <3>6. CASE mine # ok
      <4>1. after = before
        BY <2>1, <2>2, <2>3, <3>1, <3>6 DEF Unanswered, Succeeded
      <4>2. counters'[Code(ok)] = counters[Code(ok)]
        <5>1. Code(mine) # Code(ok)
          BY <3>6, CodesDiffer
        <5> QED
          BY <2>3, <5>1 DEF MetricsInv
      <4> QED
        BY <3>1, <3>3, <3>4, <4>1, <4>2
    <3> QED
      BY <3>5, <3>6
  <2> QED
    BY <2>4 DEF ResponsesInv
<1> QED
  BY <1>2, <1>3, <1>4, <1>5, <1>6, <1>7 DEF TraceNext, Continue

CountersInv == (\A key \in Followed : AgreeInv(key)) /\ ResponsesInv

\* The inductive invariant of the counters.
LEMMA CountersInvariant == TraceSafety => []CountersInv
<1>1. TraceInit => CountersInv
  <2> SUFFICES ASSUME TraceInit PROVE CountersInv
    OBVIOUS
  <2>1. /\ counters = [key \in CounterKeys |-> 0] /\ traces = <<>> /\ overlapped = FALSE
        /\ todo = [t \in Threads |-> {}] /\ held = [t \in Threads |-> None]
        /\ run = [t \in Threads |-> NoRun]
    BY DEF TraceInit
  <2>2. ASSUME NEW key \in Followed PROVE AgreeInv(key)
    <3>1. PICK dues, owes : dues = Dues(todo, run, key) /\ owes = Owes(traces, key)
      OBVIOUS
    <3>2. \A t \in DOMAIN dues : dues[t] = 0
      BY <2>1, <3>1 DEF Dues, Due
    <3>3. DOMAIN owes = {}
      BY <2>1, <3>1 DEF Owes
    <3>4. Total(dues) = 0 /\ Total(owes) = 0
      BY <3>2, <3>3, TotalOfNothing
    <3>5. counters[key] = 0
      BY <2>1, FollowedKeys
    <3>6. {t \in Threads : Updates(t, key)} = {}
      BY <2>1 DEF Updates
    <3>7. Agrees(0, 0, 0, {}, held, overlapped)
      BY DEF Agrees
    <3> QED
      BY <3>1, <3>4, <3>5, <3>6, <3>7 DEF AgreeInv
  <2>3. ASSUME NEW ok \in BOOLEAN
        PROVE  counters[Code(ok)] + Cardinality(Unanswered(ok)) = Responses(ok)
    <3>1. Unanswered(ok) = {}
      BY <2>1 DEF Unanswered, NoRun
    <3>2. {n \in DOMAIN traces : traces[n].success = ok} = {}
      BY <2>1
    <3>3. counters[Code(ok)] = 0
      BY <2>1, CodesDiffer
    <3> QED
      BY <3>1, <3>2, <3>3, FS_EmptySet DEF Responses
  <2> QED
    BY <2>2, <2>3 DEF CountersInv, ResponsesInv
<1>2. /\ StagesInv /\ StagesInv' /\ MetricsInv /\ CountersInv /\ [TraceNext]_traceVars
      => CountersInv'
  <2> SUFFICES ASSUME StagesInv, StagesInv', MetricsInv, CountersInv, [TraceNext]_traceVars
               PROVE  CountersInv'
    OBVIOUS
  <2>1. ASSUME NEW key \in Followed PROVE AgreeInv(key)'
    BY AgreeStep DEF CountersInv
  <2> QED
    BY <2>1, ResponsesStep DEF CountersInv
<1> QED
  BY <1>1, <1>2, TraceInvariant, MetricsInvariant, PTL DEF TraceSafety

\* Whatever updates overlap, no counter is ahead of the recorded traces; those
\* of retrievals whose updates did not overlap, and those of responses in any
\* case, are what the traces add up to once the questions are answered.
THEOREM CountersAgreeAlways == TraceSpec => []CountersAgree
<1>1. ASSUME StagesInv, MetricsInv, CountersInv PROVE CountersAgree
  <2> DEFINE answered == \A t \in Threads : run[t] = NoRun
  <2>1. ASSUME NEW key \in Followed
        PROVE  /\ counters[key] <= Owed(key)
               /\ answered /\ ~overlapped => counters[key] = Owed(key)
    <3>1. Owed(key) = Total(Owes(traces, key))
      <4>1. PICK owes : owes = Owes(traces, key)
        OBVIOUS
      <4>2. DOMAIN owes = DOMAIN traces
            /\ \A n \in DOMAIN traces : owes[n] = Increment(traces[n], key)
        BY <4>1 DEF Owes
      <4>3. Units(owes) = UNION {{n} \X (1..Increment(traces[n], key)) : n \in DOMAIN traces}
        BY <4>2 DEF Units
      <4> QED
        BY <4>1, <4>3 DEF Owed, Total
    <3>2. PICK count, due, owed : /\ count = counters[key] /\ due = Total(Dues(todo, run, key))
                                  /\ owed = Owed(key)
      OBVIOUS
    <3>3. count \in Nat /\ due \in Nat /\ owed \in Nat
      <4>1. \A t \in Threads : run[t] \in Runs
        BY <1>1 DEF StagesInv, RunInv
      <4>2. traces \in Seq(Records)
        BY <1>1 DEF StagesInv
      <4>3. counters[key] \in Nat
        BY <1>1, FollowedKeys DEF MetricsInv
      <4> QED
        BY <3>1, <3>2, <4>1, <4>2, <4>3, DuesType, OwesType
    <3>4. count + due <= owed /\ (~overlapped => count + due = owed)
      BY <1>1, <3>1, <3>2 DEF CountersInv, AgreeInv, Agrees
    <3>5. answered => due = 0
      <4>1. PICK dues : dues = Dues(todo, run, key)
        OBVIOUS
      <4>2. ASSUME answered PROVE \A t \in DOMAIN dues : dues[t] = 0
        BY <1>1, <4>1, <4>2 DEF Dues, Due, MetricsInv, NoRun
      <4> QED
        BY <3>2, <4>1, <4>2, TotalOfNothing
    <3> QED
      BY <3>2, <3>3, <3>4, <3>5
  <2>2. ASSUME NEW ok \in BOOLEAN
        PROVE  /\ counters[Code(ok)] <= Responses(ok)
               /\ answered => counters[Code(ok)] = Responses(ok)
    <3>1. counters[Code(ok)] + Cardinality(Unanswered(ok)) = Responses(ok)
          /\ counters[Code(ok)] \in Nat
      BY <1>1, CodesDiffer DEF CountersInv, ResponsesInv, MetricsInv
    <3>2. Cardinality(Unanswered(ok)) \in Nat
      BY UnansweredFinite DEF Unanswered
    <3>3. answered => Unanswered(ok) = {}
      BY DEF Unanswered, NoRun
    <3> QED
      BY <3>1, <3>2, <3>3, FS_EmptySet
  <2> QED
    BY <2>1, <2>2 DEF CountersAgree, Code
<1> QED
  BY <1>1, TraceInvariant, MetricsInvariant, CountersInvariant, PTL DEF TraceSpec
=============================================================================
