----------------------------- MODULE MCStartup ------------------------------
(* The deployments Startup is checked with. *)
EXTENDS Startup

CONSTANTS u1, u2, blue, green

Only(environ) == [file |-> <<>>, environ |-> environ]

Database(url) == [DATABASE_URL |-> url, DATABASE_MIGRATIONS_ENABLED |-> "yes"]
OneKey  == [AUTH_PROVIDER |-> "api_key", AUTH_API_KEYS |-> <<<<u1, "k1">>>>,
            AUTH_DEMO_USER_IDS |-> <<u1, " ">>]
TwoKeys == [AUTH_PROVIDER |-> "api_key",
            AUTH_API_KEYS |-> <<<<u1, "k1", "name">>, <<u2, "k2", " ">>, <<u2, "k1">>>>,
            AUTH_DEMO_USER_IDS |-> <<u2>>]
Reranker == [RERANKER_PROVIDER |-> "local"]
NoMigrations == [DATABASE_MIGRATIONS_ENABLED |-> "0"]

\* Deployments that start, or start once another one has migrated.
Good ==
  << Only(Database("postgres://h") @@ OneKey),
    Only(Database("postgres://h") @@ TwoKeys @@ Reranker),
    Only(NoMigrations @@ Database("postgres://h") @@ TwoKeys),
    [file |-> <<<<>>, <<"AUTH_PROVIDER", "disabled">>, <<"RERANKER_PROVIDER", "local">>>>,
     environ |-> TwoKeys] >>

Base == [ENVIRONMENT |-> "production", PUBLIC_BASE_URL |-> "https://h",
         GEMINI_API_KEY |-> "text"]

Variants ==
  { [RERANKER_PROVIDER |-> p] : p \in ProviderSelection }
  \cup { [DOCUMENT_EMBEDDINGS_PROVIDER |-> p, GEMINI_EMBEDDING_MODEL |-> m] :
           p \in ProviderSelection \cup {"other"}, m \in {"text", " "} }
  \cup { [QUERY_EMBEDDINGS_PROVIDER |-> p] : p \in ProviderSelection }
  \cup { [LLM_PROVIDER |-> p, GEMINI_GENERATION_MODEL |-> m] :
           p \in ProviderSelection, m \in {"text", " "} }
  \cup { [LLM_PROVIDER |-> "openrouter", OPENROUTER_API_KEY |-> "text",
          OPENROUTER_MODEL |-> "text", OPENROUTER_BASE_URL |-> u] : u \in DOMAIN Scheme }
  \cup { [LLM_PROVIDER |-> "gemini", GEMINI_GENERATION_MODEL |-> "text",
          GEMINI_TIMEOUT_SECONDS |-> t] : t \in {"inf", "0", "-1", "2", "text"} }
  \cup { [LOCAL_BATCH_SIZE |-> n, RERANKER_PROVIDER |-> "local"] : n \in {"0", "1", "inf"} }
  \cup { [DATABASE_URL |-> u, DATABASE_MIGRATIONS_ENABLED |-> b] :
           u \in DOMAIN Scheme \cup {"text"}, b \in {"on", "no", "2"} }
  \cup { [DATABASE_URL |-> "postgres://h", DATABASE_POOL_MIN_SIZE |-> n,
          DATABASE_POOL_MAX_SIZE |-> m] : n, m \in {"-1", "0", "1", "2", "5"} }
  \cup { [DATABASE_URL |-> "postgres://h", DATABASE_MIGRATIONS_ENABLED |-> "on",
          DATABASE_MIGRATIONS_PATH |-> p] : p \in {"other", ""} }
  \cup { [STORAGE_PROVIDER |-> "supabase", SUPABASE_URL |-> u,
          SUPABASE_STORAGE_BUCKET |-> "text", SUPABASE_SERVICE_ROLE_KEY |-> k] :
           u \in {"https://h", "http://h"}, k \in {"text", ""} }
  \cup { [AUTH_PROVIDER |-> "supabase", AUTH_JWT_ISSUER |-> u, AUTH_JWT_AUDIENCE |-> "text",
          AUTH_JWKS_URL |-> "https://h"] : u \in {"https://h", "text"} }
  \cup { [AUTH_PROVIDER |-> "api_key", AUTH_API_KEYS |-> keys] :
           keys \in {<<>>, <<<<"text", "k1">>>>, <<<<u1>>>>, <<<<u1, " ">>>>} }
  \cup { [AUTH_DEMO_USER_IDS |-> <<"text">>], [CORS_ALLOWED_ORIGINS |-> <<"http://h", "">>],
         [CORS_ALLOWED_ORIGINS |-> <<"text">>], [API_PORT |-> "0"], [API_PORT |-> "65536"],
         [LOG_LEVEL |-> "debug"], [PUBLIC_BASE_URL |-> " "], [PUBLIC_BASE_URL |-> "http://h"],
         [API_HOST |-> ""], [SERVICE_NAME |-> " "], [STORAGE_LOCAL_PATH |-> " "],
         [DEMO_ASK_RATE_LIMIT_REQUESTS |-> "0"], [METRICS_ENABLED |-> "text"] }

Idle == [file |-> <<<<"no equals sign">>>>, environ |-> <<>>]

MCInstances == {blue, green}
MCUsers == {u1, u2}
MCDeployments ==
  { [i \in MCInstances |-> IF i = blue THEN Good[pair[1]] ELSE Good[pair[2]]] :
      pair \in {p \in (1..Len(Good)) \X (1..Len(Good)) : p[1] <= p[2]} }
  \cup { [i \in MCInstances |-> IF i = blue THEN Only(v @@ Base) ELSE Idle] : v \in Variants }
MCSchemas == {0, 3}
MCPresentedKeys == {"k1", "k2", None}
=============================================================================
