------------------------------ MODULE Settings ------------------------------
(***************************************************************************)
(* The settings of a LoreForge process (settings.py): how they are read    *)
(* from a .env file and the environment, and which of them are accepted.   *)
(*                                                                         *)
(* A raw value is a text of one of a few kinds; letter case and the space  *)
(* around a word, which every parser removes, are left out.  The names are *)
(* those of the environment variables without their LOREFORGE_ prefix.     *)
(* Nothing happens between the checks of a load, so a load is accepted     *)
(* when all of them hold, and any of them that fails ends it the same way: *)
(* with a SettingsError.                                                   *)
(***************************************************************************)
EXTENDS Integers, Sequences, SequencesExt, TLC

CONSTANTS Users,    \* the UUIDs of users
          None      \* a setting, a row or an answer that is not there

-----------------------------------------------------------------------------
(* Raw values. *)

Blank(text) == text \in {"", " "}

\* The texts int() and float() accept and what they read; "inf" is a float.
Number == ("-1" :> -1) @@ ("0" :> 0) @@ ("1" :> 1) @@ ("2" :> 2) @@ ("5" :> 5)
          @@ ("10" :> 10) @@ ("30" :> 30) @@ ("32" :> 32) @@ ("60" :> 60)
          @@ ("8000" :> 8000) @@ ("65536" :> 65536)
IsInt(text)   == text \in DOMAIN Number
IsFloat(text) == text \in DOMAIN Number \cup {"inf"}

TrueWords  == {"1", "true", "yes", "on"}
FalseWords == {"0", "false", "no", "off"}

\* urlparse folds the scheme to lower case.  "%40" stands for a percent
\* escape in a password.
Scheme ==
  [text \in {"https://h", "http://h", "postgres://h", "POSTGRES://h",
             "postgresql://u:%40@h"} |->
     CASE text = "https://h" -> "https"
       [] text = "http://h" -> "http"
       [] text \in {"postgres://h", "POSTGRES://h"} -> "postgres"
       [] OTHER -> "postgresql"]
UrlOf(text, schemes) == text \in DOMAIN Scheme /\ Scheme[text] \in schemes

-----------------------------------------------------------------------------
(* The variables by the parser that reads them, and their defaults. *)

ProviderSelection == {"disabled", "local", "gemini", "openrouter"}

Enumeration ==
  [ENVIRONMENT |-> {"development", "testing", "production"},
   LOG_LEVEL |-> {"debug", "info", "warning", "error", "critical"},
   DOCUMENT_EMBEDDINGS_PROVIDER |-> ProviderSelection,
   QUERY_EMBEDDINGS_PROVIDER |-> ProviderSelection,
   RERANKER_PROVIDER |-> ProviderSelection,
   LLM_PROVIDER |-> ProviderSelection,
   STORAGE_PROVIDER |-> {"local", "supabase"},
   AUTH_PROVIDER |-> {"disabled", "api_key", "supabase"}]

Ints == {"API_PORT", "LOCAL_BATCH_SIZE", "DATABASE_POOL_MIN_SIZE",
         "DATABASE_POOL_MAX_SIZE", "DEMO_ASK_RATE_LIMIT_REQUESTS",
         "DEMO_ASK_RATE_LIMIT_WINDOW_SECONDS"}
Floats == {"GEMINI_TIMEOUT_SECONDS", "OPENROUTER_TIMEOUT_SECONDS"}
Bools == {"STRUCTURED_LOGGING", "REQUEST_LOGGING_ENABLED",
          "DATABASE_MIGRATIONS_ENABLED", "METRICS_ENABLED",
          "RECORD_QUERY_OBSERVATIONS"}
Optional == {"PUBLIC_BASE_URL", "GEMINI_API_KEY", "GEMINI_GENERATION_MODEL",
             "GEMINI_EMBEDDING_MODEL", "OPENROUTER_API_KEY",
             "OPENROUTER_MODEL", "DATABASE_URL", "SUPABASE_URL",
             "SUPABASE_STORAGE_BUCKET", "SUPABASE_SERVICE_ROLE_KEY",
             "AUTH_JWT_ISSUER", "AUTH_JWT_AUDIENCE", "AUTH_JWKS_URL"}

Default ==
  [ENVIRONMENT |-> "development", SERVICE_NAME |-> "text", API_TITLE |-> "text",
   API_VERSION |-> "text", API_HOST |-> "text", API_PORT |-> "8000",
   LOG_LEVEL |-> "info", STRUCTURED_LOGGING |-> "false",
   REQUEST_LOGGING_ENABLED |-> "true",
   DOCUMENT_EMBEDDINGS_PROVIDER |-> "disabled",
   QUERY_EMBEDDINGS_PROVIDER |-> "disabled", RERANKER_PROVIDER |-> "disabled",
   LLM_PROVIDER |-> "disabled", GEMINI_TIMEOUT_SECONDS |-> "30",
   OPENROUTER_BASE_URL |-> "https://h", OPENROUTER_TIMEOUT_SECONDS |-> "30",
   LOCAL_EMBEDDING_MODEL |-> "text", LOCAL_RERANKER_MODEL |-> "text",
   LOCAL_BATCH_SIZE |-> "32", DATABASE_POOL_MIN_SIZE |-> "1",
   DATABASE_POOL_MAX_SIZE |-> "5", DATABASE_MIGRATIONS_ENABLED |-> "false",
   DATABASE_MIGRATIONS_PATH |-> "migrations", STORAGE_PROVIDER |-> "local",
   STORAGE_LOCAL_PATH |-> "text", AUTH_PROVIDER |-> "disabled",
   DEMO_ASK_RATE_LIMIT_REQUESTS |-> "10",
   DEMO_ASK_RATE_LIMIT_WINDOW_SECONDS |-> "60", METRICS_ENABLED |-> "true",
   RECORD_QUERY_OBSERVATIONS |-> "true"]

\* Comma-separated values are sequences of items: an origin, a user, or for a
\* key the sequence of its parts <<user, key>> or <<user, key, name>>.
Lists == {"CORS_ALLOWED_ORIGINS", "AUTH_DEMO_USER_IDS", "AUTH_API_KEYS"}

Names == DOMAIN Default \cup Optional \cup Lists

-----------------------------------------------------------------------------
(* Reading.  A deployment is its .env file, a sequence of lines, and the   *)
(* environment of the process.  A line is <<name, value>>, <<>> when it is *)
(* blank or a comment, and <<text>> when it has no "=".                    *)

EnvFileReads(lines) == \A n \in DOMAIN lines : Len(lines[n]) # 1

SettingsValues(deployment) ==
  deployment.environ
  @@ FoldLeft(LAMBDA values, line :
                IF line = <<>> THEN values ELSE (line[1] :> line[2]) @@ values,
              <<>>, deployment.file)

NonBlankItems(items) == SelectSeq(items, LAMBDA item : ~Blank(item))

Credential(parts) ==
  [user |-> parts[1], key |-> parts[2],
   name |-> IF Len(parts) = 3 /\ ~Blank(parts[3]) THEN parts[3] ELSE None]

\* What a name is set to once it has parsed.
Setting(values, name) ==
  IF name \notin DOMAIN values
  THEN IF name \in Lists THEN <<>>
       ELSE IF name \in Optional THEN None ELSE Default[name]
  ELSE CASE name = "AUTH_API_KEYS" ->
              [n \in DOMAIN values[name] |-> Credential(values[name][n])]
         [] name \in Lists \ {"AUTH_API_KEYS"} -> NonBlankItems(values[name])
         [] name \in Optional /\ Blank(values[name]) -> None
         [] OTHER -> values[name]

SettingsOf(deployment) ==
  LET values == SettingsValues(deployment)
  IN  [name \in Names |-> Setting(values, name)]

Parses(deployment) ==
  LET values == SettingsValues(deployment)
      given(names) == names \cap DOMAIN values
  IN  /\ EnvFileReads(deployment.file)
      /\ \A name \in given(DOMAIN Enumeration) :
           values[name] \in Enumeration[name]
      /\ \A name \in given(Ints) : IsInt(values[name])
      /\ \A name \in given(Floats) : IsFloat(values[name])
      /\ \A name \in given(Bools) : values[name] \in TrueWords \cup FalseWords
      /\ \A name \in given({"AUTH_DEMO_USER_IDS"}) :
           \A n \in DOMAIN NonBlankItems(values[name]) :
             NonBlankItems(values[name])[n] \in Users
      /\ \A name \in given({"AUTH_API_KEYS"}) : \A n \in DOMAIN values[name] :
           Len(values[name][n]) \in 2..3 /\ values[name][n][1] \in Users

-----------------------------------------------------------------------------
(* Validation: __post_init__ of each settings class, on parsed settings s. *)

PositiveInt(text)   == Number[text] > 0
PositiveFloat(text) == text # "inf" /\ Number[text] > 0
NoneOrUrl(value, schemes) == value = None \/ UrlOf(value, schemes)
IsOn(s, name) == s[name] \in TrueWords

ApplicationValid(s) ==
  /\ \A name \in {"SERVICE_NAME", "API_TITLE", "API_VERSION"} : ~Blank(s[name])
  /\ NoneOrUrl(s.PUBLIC_BASE_URL, {"https"})

ApiValid(s) ==
  /\ ~Blank(s.API_HOST)
  /\ Number[s.API_PORT] \in 1..65535
  /\ \A n \in DOMAIN s.CORS_ALLOWED_ORIGINS :
       UrlOf(s.CORS_ALLOWED_ORIGINS[n], {"http", "https"})

ProviderDefaultsValid(s) ==
  /\ PositiveFloat(s.GEMINI_TIMEOUT_SECONDS)
  /\ PositiveFloat(s.OPENROUTER_TIMEOUT_SECONDS)
  /\ UrlOf(s.OPENROUTER_BASE_URL, {"https"})
  /\ ~Blank(s.LOCAL_EMBEDDING_MODEL) /\ ~Blank(s.LOCAL_RERANKER_MODEL)
  /\ PositiveInt(s.LOCAL_BATCH_SIZE)

Embeddings(s) == {s.DOCUMENT_EMBEDDINGS_PROVIDER, s.QUERY_EMBEDDINGS_PROVIDER}

\* Mutant: only the provider that answers is looked at.
LlmValid(s) ==
  /\ s.LLM_PROVIDER \in {"disabled", "gemini", "openrouter"}
  /\ s.LLM_PROVIDER = "gemini" =>
       s.GEMINI_API_KEY # None /\ s.GEMINI_GENERATION_MODEL # None
  /\ s.LLM_PROVIDER = "openrouter" =>
       s.OPENROUTER_API_KEY # None /\ s.OPENROUTER_MODEL # None

ProvidersValid(s) ==
  /\ Embeddings(s) \subseteq {"disabled", "local", "gemini"}
  /\ s.RERANKER_PROVIDER \in {"disabled", "local"}
  /\ s.LLM_PROVIDER \in {"disabled", "gemini", "openrouter"}
  /\ s.LLM_PROVIDER = "gemini" =>
       s.GEMINI_API_KEY # None /\ s.GEMINI_GENERATION_MODEL # None
  /\ "gemini" \in Embeddings(s) =>
       s.GEMINI_API_KEY # None /\ s.GEMINI_EMBEDDING_MODEL # None
  /\ s.LLM_PROVIDER = "openrouter" =>
       s.OPENROUTER_API_KEY # None /\ s.OPENROUTER_MODEL # None

DatabaseValid(s) ==
  /\ NoneOrUrl(s.DATABASE_URL, {"postgres", "postgresql"})
  /\ Number[s.DATABASE_POOL_MIN_SIZE] >= 0
  /\ PositiveInt(s.DATABASE_POOL_MAX_SIZE)
  /\ Number[s.DATABASE_POOL_MIN_SIZE] <= Number[s.DATABASE_POOL_MAX_SIZE]
  /\ ~Blank(s.DATABASE_MIGRATIONS_PATH)

\* Path("") is "." and passes the check for a blank path.
StorageValid(s) ==
  /\ s.STORAGE_LOCAL_PATH # " "
  /\ NoneOrUrl(s.SUPABASE_URL, {"https"})
  /\ s.STORAGE_PROVIDER = "supabase" =>
       None \notin {s.SUPABASE_URL, s.SUPABASE_STORAGE_BUCKET,
                    s.SUPABASE_SERVICE_ROLE_KEY}

AuthValid(s) ==
  /\ \A n \in DOMAIN s.AUTH_API_KEYS : ~Blank(s.AUTH_API_KEYS[n].key)
  /\ PositiveInt(s.DEMO_ASK_RATE_LIMIT_REQUESTS)
  /\ PositiveInt(s.DEMO_ASK_RATE_LIMIT_WINDOW_SECONDS)
  /\ NoneOrUrl(s.AUTH_JWT_ISSUER, {"https"})
  /\ NoneOrUrl(s.AUTH_JWKS_URL, {"https"})
  /\ s.AUTH_PROVIDER = "supabase" =>
       None \notin {s.AUTH_JWT_ISSUER, s.AUTH_JWT_AUDIENCE, s.AUTH_JWKS_URL}
  /\ s.AUTH_PROVIDER = "api_key" => s.AUTH_API_KEYS # <<>>

ProductionValid(s) ==
  s.ENVIRONMENT = "production" =>
    s.PUBLIC_BASE_URL # None /\ s.LOG_LEVEL # "debug"

\* load_settings returns.
Loads(deployment) ==
  /\ Parses(deployment)
  /\ LET s == SettingsOf(deployment)
     IN  /\ ApplicationValid(s) /\ ApiValid(s) /\ ProviderDefaultsValid(s)
         /\ ProvidersValid(s) /\ DatabaseValid(s) /\ StorageValid(s)
         /\ AuthValid(s) /\ ProductionValid(s)
=============================================================================
