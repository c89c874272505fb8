---------------------------- MODULE MCQueryTrace ----------------------------
(* Two pool threads ask; the providers of two deployments. *)
EXTENDS QueryTrace

CONSTANTS a, b

MCThreads == {a, b}
MCDeployments ==
  { [embedding |-> "gemini", reranker |-> "none", llm |-> "openrouter"],
    [embedding |-> "local", reranker |-> "local", llm |-> "openrouter"] }
MCFollowed ==
  { <<"retrieval_query_total", "True">>, <<"retrieval_candidate_total", "vector">>,
    <<"retrieval_empty_result_total", "unlabelled">> }
MCProviderErrors ==
  { [status |-> 429, kind |-> "other"], [status |-> 400, kind |-> "timeout"] }
=============================================================================
