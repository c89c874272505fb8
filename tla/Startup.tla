------------------------------ MODULE Startup -------------------------------
(***************************************************************************)
(* The life of LoreForge processes that share one PostgreSQL database:     *)
(* create_app and its lifespan (main.py), the composition of the container *)
(* (application/composition.py), the engine and its migrations             *)
(* (database/engine.py) and the authentication of requests (api/auth.py).  *)
(*                                                                         *)
(* Between two database calls of one process any number of steps of the    *)
(* others may happen.  A process whose start fails exits and is started    *)
(* again, as is one that crashes; one that is stopped stays stopped.       *)
(***************************************************************************)
EXTENDS Settings

CONSTANTS
  Instances,      \* the processes
  Deployments,    \* what [Instances -> .env file and environment] may be
  Schemas,        \* the revisions the database may start at
  PresentedKeys,  \* the keys requests present, None for none
  MaxCrashes

HeadRevision == 3       \* 0003, the last one, creates the users table

ASSUME StartupAssumption ==
  /\ MaxCrashes \in Nat
  /\ Schemas \subseteq 0..HeadRevision
  /\ None \notin Users

VARIABLES
  settings,       \* per process, what load_settings returns for its .env file
                  \* and its environment, which do not change; None for an error
  pc,             \* per process, where its lifespan is
  engine,         \* per process: "none", "open" or "disposed"
  container,      \* application.state.container: its credentials, or None
  ready,          \* per process, ApplicationRuntimeState.ready
  next,           \* per process, the configured key whose user is looked at
  base,           \* per process, the revision its migration read
  ownUsers,       \* per process, InMemoryUserRepository
  why,            \* per process, why its last start failed
  schema, users,  \* the database: its revision and the rows of `users'
  healthy,        \* the database and the model files answer, from now on
  crashes,
  answered,       \* the last request and how it was authenticated
  before          \* history: per process, until its users are there,
                  \* what the database held when its start began

startupVars == <<settings, pc, engine, container, ready, next, base,
                 ownUsers, why, schema, users, healthy, crashes, answered, before>>

load_settings(deployment) ==
  IF Loads(deployment) THEN SettingsOf(deployment) ELSE None

\* The items of a comma-separated text are in the order of the text.
ASSUME CredentialsAreList ==
  \A deployments \in Deployments : \A i \in Instances :
    LET s == load_settings(deployments[i])
    IN  s # None => /\ Len(s.AUTH_API_KEYS) \in Nat
                    /\ DOMAIN s.AUTH_API_KEYS = 1..Len(s.AUTH_API_KEYS)

S(i) == settings[i]

PCs == {"down", "engine", "migrate", "upgrade", "users", "add", "compose", "warm",
        "serving", "closing", "stopped", "failed"}

Nothing == [schema |-> 0, users |-> {}]

NoAnswer == [by |-> None, key |-> None, as |-> None, demo |-> FALSE, status |-> "none"]

StartupInit ==
  /\ \E deployments \in Deployments :
       settings = [i \in Instances |-> load_settings(deployments[i])]
  /\ pc = [i \in Instances |-> "down"]
  /\ engine = [i \in Instances |-> "none"]
  /\ container = [i \in Instances |-> None]
  /\ ready = [i \in Instances |-> FALSE]
  /\ next = [i \in Instances |-> 1]
  /\ base = [i \in Instances |-> 0]
  /\ ownUsers = [i \in Instances |-> {}]
  /\ why = [i \in Instances |-> "none"]
  /\ schema \in Schemas /\ users = {}
  /\ healthy \in BOOLEAN
  /\ crashes = 0
  /\ answered = NoAnswer
  /\ before = [i \in Instances |-> Nothing]

Goto(i, to) == pc' = [pc EXCEPT ![i] = to]

Fail(i, reason) == Goto(i, "failed") /\ why' = [why EXCEPT ![i] = reason]

\* A call that needs the database or a model file may fail until all is well.
Breaks(i) == ~healthy /\ Fail(i, "environment")

-----------------------------------------------------------------------------
(* create_app: load_settings at import, then the lifespan.                 *)

Start(i) ==
  /\ pc[i] \in {"down", "stopped"}
  /\ IF S(i) # None THEN Goto(i, "engine") /\ UNCHANGED why
                     ELSE Fail(i, "settings")
  /\ next' = [next EXCEPT ![i] = 1]
  /\ ownUsers' = [ownUsers EXCEPT ![i] = {}]
  /\ engine' = [engine EXCEPT ![i] = "none"]
  /\ container' = [container EXCEPT ![i] = None]
  /\ before' = [before EXCEPT ![i] = [schema |-> schema, users |-> users]]
  /\ UNCHANGED <<settings, ready, base, schema, users, healthy, crashes, answered>>

\* normalize_database_url recognises the scheme in lower case only; any other
\* text is not the name of a driver.
EngineOpens(url) == url \in {"postgres://h", "postgresql://u:%40@h"}

HasDatabase(i) == S(i).DATABASE_URL # None

CreateEngine(i) ==
  /\ pc[i] = "engine"
  /\ \/ ~HasDatabase(i) /\ Goto(i, "users") /\ UNCHANGED <<engine, why>>
     \/ /\ HasDatabase(i) /\ ~EngineOpens(S(i).DATABASE_URL)
        /\ Fail(i, "configuration") /\ UNCHANGED engine
     \/ /\ HasDatabase(i) /\ EngineOpens(S(i).DATABASE_URL)
        /\ engine' = [engine EXCEPT ![i] = "open"]
        /\ Goto(i, IF IsOn(S(i), "DATABASE_MIGRATIONS_ENABLED") THEN "migrate" ELSE "users")
        /\ UNCHANGED why
  /\ UNCHANGED <<settings, before, container, ready, next, base, ownUsers, schema, users,
                 healthy, crashes, answered>>

\* The image holds the scripts at "migrations"; Config.set_main_option refuses
\* a "%" that is not doubled.
Migratable(s) == s.DATABASE_MIGRATIONS_PATH = "migrations"
                 /\ s.DATABASE_URL # "postgresql://u:%40@h"

\* run_migrations up to the revision Alembic reads.
BeginMigration(i) ==
  /\ pc[i] = "migrate"
  /\ \/ ~Migratable(S(i)) /\ Fail(i, "configuration") /\ UNCHANGED base
     \/ Migratable(S(i)) /\ Breaks(i) /\ UNCHANGED base
     \/ /\ Migratable(S(i))
        /\ base' = [base EXCEPT ![i] = schema]
        /\ Goto(i, "upgrade") /\ UNCHANGED why
  /\ UNCHANGED <<settings, before, engine, container, ready, next, ownUsers, schema, users,
                 healthy, crashes, answered>>

\* Mutant: a relative upgrade, "+3".
UpgradeByThree(i) ==
  /\ pc[i] = "upgrade" /\ base[i] = schema
  /\ schema' = schema + 3 /\ Goto(i, "users")
  /\ UNCHANGED <<settings, before, engine, container, ready, next, base, ownUsers, why, users,
                 healthy, crashes, answered>>

\* All revisions in one transaction: it creates tables another process may
\* have created since.
Upgrade(i) ==
  /\ pc[i] = "upgrade"
  /\ \/ Breaks(i) /\ UNCHANGED schema
     \/ base[i] = schema /\ schema' = HeadRevision /\ Goto(i, "users") /\ UNCHANGED why
     \/ base[i] # schema /\ Fail(i, "race") /\ UNCHANGED schema
  /\ UNCHANGED <<settings, before, engine, container, ready, next, base, ownUsers, users,
                 healthy, crashes, answered>>

-----------------------------------------------------------------------------
(* _create_authenticator: every configured user gets a row.                *)

Keys(i) == S(i).AUTH_API_KEYS
ConfiguredUser(i) == Keys(i)[next[i]].user

\* Mutant: the last key is not reached.
LooksUpAllButLast(i) == S(i).AUTH_PROVIDER = "api_key" /\ next[i] < Len(Keys(i))
LooksUpUsers(i) == S(i).AUTH_PROVIDER = "api_key" /\ next[i] <= Len(Keys(i))
Found(i) == ConfiguredUser(i) \in (IF HasDatabase(i) THEN users ELSE ownUsers[i])

AuthenticatorDone(i) ==
  /\ pc[i] = "users" /\ ~LooksUpUsers(i)
  /\ Goto(i, "compose")
  /\ before' = [before EXCEPT ![i] = Nothing]
  /\ UNCHANGED <<settings, engine, container, ready, next, base, ownUsers, why,
                 schema, users, healthy, crashes, answered>>

\* Mutant: the user is added without being looked up.
GetUserNever(i) ==
  /\ pc[i] = "users" /\ LooksUpUsers(i)
  /\ Goto(i, "add")
  /\ UNCHANGED <<settings, before, engine, container, ready, next, base, ownUsers, why, schema,
                 users, healthy, crashes, answered>>

\* Mutant: which users are missing is looked up once, before any is added.
GetUserBefore(i) ==
  /\ pc[i] = "users" /\ LooksUpUsers(i)
  /\ IF ConfiguredUser(i) \in (IF HasDatabase(i) THEN before[i].users ELSE ownUsers[i])
       THEN next' = [next EXCEPT ![i] = @ + 1] /\ UNCHANGED pc
       ELSE Goto(i, "add") /\ UNCHANGED next
  /\ UNCHANGED <<settings, before, engine, container, ready, base, ownUsers, why, schema,
                 users, healthy, crashes, answered>>

GetUser(i) ==
  /\ pc[i] = "users" /\ LooksUpUsers(i)
  /\ \/ HasDatabase(i) /\ Breaks(i) /\ UNCHANGED next
     \/ HasDatabase(i) /\ schema < HeadRevision /\ Fail(i, "schema") /\ UNCHANGED next
     \/ /\ HasDatabase(i) => schema >= HeadRevision
        /\ IF Found(i) THEN next' = [next EXCEPT ![i] = @ + 1] /\ UNCHANGED pc
                       ELSE Goto(i, "add") /\ UNCHANGED next
        /\ UNCHANGED why
  /\ UNCHANGED <<settings, before, engine, container, ready, base, ownUsers, schema, users,
                 healthy, crashes, answered>>

AddUser(i) ==
  /\ pc[i] = "add"
  /\ \/ HasDatabase(i) /\ Breaks(i) /\ UNCHANGED <<next, users, ownUsers>>
     \/ HasDatabase(i) /\ Found(i) /\ Fail(i, "race") /\ UNCHANGED <<next, users, ownUsers>>
     \/ /\ ~Found(i)
        /\ IF HasDatabase(i)
           THEN users' = users \cup {ConfiguredUser(i)} /\ UNCHANGED ownUsers
           ELSE /\ ownUsers' = [ownUsers EXCEPT ![i] = @ \cup {ConfiguredUser(i)}]
                /\ UNCHANGED users
        /\ next' = [next EXCEPT ![i] = @ + 1]
        /\ Goto(i, "users") /\ UNCHANGED why
  /\ UNCHANGED <<settings, before, engine, container, ready, base, schema, healthy,
                 crashes, answered>>

-----------------------------------------------------------------------------
(* The providers, and the checks their own configurations repeat.          *)

EmbeddingsCompose(s, selection) ==
  \/ selection = "disabled"
  \/ /\ selection = "local"
     /\ ~Blank(s.LOCAL_EMBEDDING_MODEL) /\ Number[s.LOCAL_BATCH_SIZE] > 0
  \/ /\ selection = "gemini" /\ None \notin {s.GEMINI_API_KEY, s.GEMINI_EMBEDDING_MODEL}
     /\ PositiveFloat(s.GEMINI_TIMEOUT_SECONDS)

RerankerComposes(s) ==
  \/ s.RERANKER_PROVIDER = "disabled"
  \/ /\ s.RERANKER_PROVIDER = "local"
     /\ ~Blank(s.LOCAL_RERANKER_MODEL) /\ Number[s.LOCAL_BATCH_SIZE] > 0

LlmComposes(s) ==
  \/ s.LLM_PROVIDER = "disabled"
  \/ /\ s.LLM_PROVIDER = "gemini" /\ None \notin {s.GEMINI_API_KEY, s.GEMINI_GENERATION_MODEL}
     /\ PositiveFloat(s.GEMINI_TIMEOUT_SECONDS)
  \/ /\ s.LLM_PROVIDER = "openrouter" /\ None \notin {s.OPENROUTER_API_KEY, s.OPENROUTER_MODEL}
     /\ UrlOf(s.OPENROUTER_BASE_URL, {"https"}) /\ PositiveFloat(s.OPENROUTER_TIMEOUT_SECONDS)

Composes(s) ==
  /\ RerankerComposes(s)
  /\ \A selection \in Embeddings(s) : EmbeddingsCompose(s, selection)
  /\ LlmComposes(s)

\* Mutant: the identity is the one read from its row.
IdentityOfRow(i, n) ==
  [key |-> Keys(i)[n].key, user |-> Keys(i)[n].user,
   demo |-> /\ ~HasDatabase(i)
            /\ \E m \in DOMAIN S(i).AUTH_DEMO_USER_IDS :
                 S(i).AUTH_DEMO_USER_IDS[m] = Keys(i)[n].user]

\* The identities requests are authenticated as.  The demo flag is not a
\* column of the users table.
Identity(i, n) ==
  [key |-> Keys(i)[n].key, user |-> Keys(i)[n].user,
   demo |-> \E m \in DOMAIN S(i).AUTH_DEMO_USER_IDS :
              S(i).AUTH_DEMO_USER_IDS[m] = Keys(i)[n].user]

\* DisabledAuthenticator, for "disabled" and for "supabase", knows no key.
Credentials(i) ==
  IF S(i).AUTH_PROVIDER = "api_key" THEN [n \in DOMAIN Keys(i) |-> Identity(i, n)] ELSE <<>>

Compose(i) ==
  /\ pc[i] = "compose"
  /\ IF Composes(S(i))
     THEN /\ container' = [container EXCEPT ![i] = Credentials(i)]
          /\ Goto(i, "warm") /\ UNCHANGED why
     ELSE Fail(i, "configuration") /\ UNCHANGED container
  /\ UNCHANGED <<settings, before, engine, ready, next, base, ownUsers, schema, users,
                 healthy, crashes, answered>>

\* container.warm_up loads the reranker's model; then the server accepts
\* requests.
WarmUp(i) ==
  /\ pc[i] = "warm"
  /\ \/ S(i).RERANKER_PROVIDER = "local" /\ Breaks(i) /\ UNCHANGED ready
     \/ ready' = [ready EXCEPT ![i] = TRUE] /\ Goto(i, "serving") /\ UNCHANGED why
  /\ UNCHANGED <<settings, before, engine, container, next, base, ownUsers, schema, users,
                 healthy, crashes, answered>>

-----------------------------------------------------------------------------
(* Requests, shutdown and the end of a process.                            *)

\* InMemoryApiKeyRepository.resolve: the first credential with the key's hash.
Resolve(credentials, key) ==
  LET hits == {n \in DOMAIN credentials : credentials[n].key = key}
  IN  IF hits = {} THEN None
      ELSE credentials[CHOOSE n \in hits : \A m \in hits : n <= m]

Answer(i, key) ==
  LET identity == Resolve(container[i], key)
  IN  IF S(i).AUTH_PROVIDER = "disabled"
      THEN [by |-> i, key |-> key, as |-> None, demo |-> FALSE, status |-> "anonymous"]
      ELSE IF S(i).AUTH_PROVIDER # "api_key" \/ key = None \/ identity = None
      THEN [by |-> i, key |-> key, as |-> None, demo |-> FALSE, status |-> "401"]
      ELSE [by |-> i, key |-> key, as |-> identity.user, demo |-> identity.demo, status |-> "ok"]

\* get_current_principal of any protected route.
Authenticate(i) ==
  /\ pc[i] = "serving"
  /\ \E key \in PresentedKeys : answered' = Answer(i, key)
  /\ UNCHANGED <<settings, before, pc, engine, container, ready, next, base, ownUsers, why,
                 schema, users, healthy, crashes>>

\* Mutant: the process stays ready.
BeginShutdownReady(i) ==
  /\ pc[i] = "serving"
  /\ Goto(i, "closing")
  /\ UNCHANGED <<settings, before, engine, container, ready, next, base, ownUsers, why, schema,
                 users, healthy, crashes, answered>>

BeginShutdown(i) ==
  /\ pc[i] = "serving"
  /\ ready' = [ready EXCEPT ![i] = FALSE]
  /\ Goto(i, "closing")
  /\ UNCHANGED <<settings, before, engine, container, next, base, ownUsers, why, schema, users,
                 healthy, crashes, answered>>

Close(i) ==
  /\ pc[i] = "closing"
  /\ engine' = [engine EXCEPT ![i] = IF HasDatabase(i) THEN "disposed" ELSE @]
  /\ Goto(i, "stopped")
  /\ UNCHANGED <<settings, before, container, ready, next, base, ownUsers, why, schema, users,
                 healthy, crashes, answered>>

\* The process is gone and what it held in memory with it.
Gone(i) ==
  /\ Goto(i, "down")
  /\ engine' = [engine EXCEPT ![i] = "none"]
  /\ container' = [container EXCEPT ![i] = None]
  /\ ready' = [ready EXCEPT ![i] = FALSE]
  /\ ownUsers' = [ownUsers EXCEPT ![i] = {}]
  /\ next' = [next EXCEPT ![i] = 1]
  /\ base' = [base EXCEPT ![i] = 0]
  /\ why' = [why EXCEPT ![i] = "none"]
  /\ before' = [before EXCEPT ![i] = Nothing]
  /\ UNCHANGED <<settings, schema, users, healthy, answered>>

\* A start that raised ends the process.
Exit(i) == pc[i] = "failed" /\ Gone(i) /\ UNCHANGED crashes

Crash(i) ==
  /\ pc[i] \notin {"down", "stopped", "failed"}
  /\ crashes < MaxCrashes
  /\ crashes' = crashes + 1
  /\ Gone(i)

Recover ==
  /\ ~healthy /\ healthy' = TRUE
  /\ UNCHANGED <<settings, before, pc, engine, container, ready, next, base, ownUsers, why,
                 schema, users, crashes, answered>>

-----------------------------------------------------------------------------
StartStep(i) ==
  \/ CreateEngine(i) \/ BeginMigration(i) \/ Upgrade(i) \/ AuthenticatorDone(i)
  \/ GetUser(i) \/ AddUser(i) \/ Compose(i) \/ WarmUp(i)

StartupNext ==
  \/ Recover
  \/ \E i \in Instances : \/ Start(i) \/ StartStep(i) \/ Authenticate(i)
                          \/ BeginShutdown(i) \/ Close(i) \/ Exit(i) \/ Crash(i)

StartupSafety == StartupInit /\ [][StartupNext]_startupVars

\* A start goes on; docker-compose.yml restarts what was not stopped.
StartupSpec ==
  /\ StartupSafety
  /\ \A i \in Instances :
       /\ WF_startupVars(StartStep(i)) /\ WF_startupVars(Exit(i))
       /\ WF_startupVars(pc[i] = "down" /\ Start(i))

-----------------------------------------------------------------------------
(* Properties.                                                             *)

StartupTypeOK ==
  /\ \A i \in Instances : S(i) # None => DOMAIN S(i) = Names
  /\ pc \in [Instances -> PCs]
  /\ engine \in [Instances -> {"none", "open", "disposed"}]
  /\ ready \in [Instances -> BOOLEAN]
  /\ next \in [Instances -> Nat \ {0}]
  /\ base \in [Instances -> 0..HeadRevision]
  /\ why \in [Instances -> {"none", "settings", "configuration", "environment",
                           "schema", "race"}]
  /\ schema \in 0..HeadRevision
  /\ healthy \in BOOLEAN
  /\ crashes \in 0..MaxCrashes
  /\ \A i \in Instances : before[i].schema \in 0..HeadRevision

\* A process that is ready, and every one that answers a request, has its
\* settings accepted, its database open at the last revision if it migrates,
\* and its container composed with the credentials they give; readiness ends
\* before the engine is disposed, and a process that stopped leaves no engine
\* open (docs/deployment.md:80, 87).
ReadyWindow ==
  \A i \in Instances :
    /\ ready[i] =>
         /\ S(i) # None /\ container[i] = Credentials(i)
         /\ HasDatabase(i) => /\ engine[i] = "open"
                             /\ (IsOn(S(i), "DATABASE_MIGRATIONS_ENABLED") =>
                                   schema = HeadRevision)
    /\ engine[i] = "disposed" => ~ready[i]
    /\ pc[i] = "stopped" => engine[i] # "open"

\* Whatever the interleaving of the starts of several processes, the crashes
\* between the look-up and the insert included, a process becomes ready only
\* once every user with a configured key has a row to own documents with
\* (_create_authenticator).
UsersBeforeReady ==
  \A i \in Instances :
    ready[i] /\ S(i).AUTH_PROVIDER = "api_key" =>
      \A n \in DOMAIN Keys(i) :
        Keys(i)[n].user \in (IF HasDatabase(i) THEN users ELSE ownUsers[i])

\* A request is answered as a user only with a key the settings give that
\* user, and with the demo flag of the settings: the table has no column for
\* it, so a row found on a restart must not be what a request becomes.
PrincipalIsConfigured ==
  answered.status = "ok" =>
    LET s == S(answered.by)
    IN  /\ \E n \in DOMAIN s.AUTH_API_KEYS :
             /\ s.AUTH_API_KEYS[n].key = answered.key
             /\ s.AUTH_API_KEYS[n].user = answered.as
        /\ answered.demo <=> \E m \in DOMAIN s.AUTH_DEMO_USER_IDS :
                              s.AUTH_DEMO_USER_IDS[m] = answered.as

\* "Startup fails fast through typed settings validation"
\* (docs/deployment.md:84): what load_settings accepts composes.  Two texts
\* are the exceptions: a database URL whose scheme is in capitals, and, when
\* the process migrates, a percent sign in the URL or a path without scripts.
AcceptedSettingsCompose ==
  \A i \in Instances :
    pc[i] = "failed" /\ why[i] = "configuration" =>
      \/ S(i).DATABASE_URL = "POSTGRES://h"
      \/ IsOn(S(i), "DATABASE_MIGRATIONS_ENABLED") /\ ~Migratable(S(i))

\* What a start needs: settings that load and compose, and the users table
\* when it is looked at.
Startable(i) ==
  LET s == S(i)
  IN  /\ s # None
      /\ s.DATABASE_URL # None =>
           /\ EngineOpens(s.DATABASE_URL)
           /\ (IsOn(s, "DATABASE_MIGRATIONS_ENABLED") => Migratable(s))
           /\ \/ IsOn(s, "DATABASE_MIGRATIONS_ENABLED")
              \/ s.AUTH_PROVIDER # "api_key"
              \/ schema = HeadRevision

\* Another process has done, since the start of i began, what i is at: the
\* migration, or the row of a user that i has not added itself.
Overtaken(i) ==
  \/ /\ pc[i] = "upgrade"
     /\ before[i].schema < HeadRevision /\ schema = HeadRevision
  \/ /\ pc[i] = "add"
     /\ ConfiguredUser(i) \in users \ before[i].users
     /\ \A n \in 1..(next[i] - 1) : Keys(i)[n].user # ConfiguredUser(i)

\* With a database that answers, a start that has what it needs fails only
\* when another process overtakes it: nothing an earlier start left behind (a
\* crash or a lost race half way), no key that two entries share and no
\* revision of the schema makes it fail on its own.
OnlyOvertakenStartsFail ==
  [][\A i \in Instances :
       healthy /\ Startable(i) /\ pc[i] # "failed" /\ pc'[i] = "failed" => Overtaken(i)
    ]_startupVars

\* With a database that answers from now on, a process that is down comes to
\* serve, whatever races it loses and after however many of the bounded
\* crashes: no half-done start stands in the way of the next one.
Recovers ==
  \A i \in Instances :
    (healthy /\ pc[i] = "down" /\ Startable(i)) ~> pc[i] = "serving"
=============================================================================
