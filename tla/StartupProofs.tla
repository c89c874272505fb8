---------------------------- MODULE StartupProofs ----------------------------
(***************************************************************************)
(* What a process that is ready can rely on, and which starts may fail,    *)
(* for any number of processes, any deployments, any users and any number  *)
(* of crashes.                                                             *)
(***************************************************************************)
EXTENDS Startup, WellFoundedInduction, TLAPS

Running == {"engine", "migrate", "upgrade", "users", "add", "compose", "warm",
            "serving", "closing"}
Composed == {"compose", "warm", "serving"}

Rows(i) == IF HasDatabase(i) THEN users ELSE ownUsers[i]
Migrates(i) == HasDatabase(i) /\ IsOn(S(i), "DATABASE_MIGRATIONS_ENABLED")

\* What load_settings has accepted.
Accepted(s) ==
  /\ ProviderDefaultsValid(s) /\ ProvidersValid(s) /\ DatabaseValid(s)
  /\ DOMAIN s = Names
  /\ Len(s.AUTH_API_KEYS) \in Nat /\ DOMAIN s.AUTH_API_KEYS = 1..Len(s.AUTH_API_KEYS)

AcceptedInv(i) == S(i) # None => Accepted(S(i))

\* The engine is open from its creation to the end of the process, and the
\* schema is at its last revision from the migration on.
EngineInv(i) ==
  /\ pc[i] \in Running => S(i) # None
  /\ engine[i] = "open" => S(i) # None /\ HasDatabase(i)
  /\ engine[i] = "disposed" => pc[i] = "stopped"
  /\ pc[i] = "stopped" => engine[i] # "open"
  /\ pc[i] \in Running \ {"engine"} /\ HasDatabase(i) => engine[i] = "open"
  /\ pc[i] \in {"migrate", "upgrade"} => Migrates(i)
  /\ pc[i] = "upgrade" => base[i] = schema \/ schema = HeadRevision
  /\ pc[i] \in {"users", "add"} \cup Composed /\ Migrates(i) => schema = HeadRevision
  /\ ready[i] => pc[i] = "serving"
  /\ pc[i] \in {"warm", "serving"} => container[i] = Credentials(i)

\* The users of the keys that have been looked at have rows.
UsersInv(i) ==
  /\ pc[i] = "add" => LooksUpUsers(i)
  /\ pc[i] \in Composed => ~LooksUpUsers(i)
  /\ pc[i] \in Running =>
       \A n \in 1..Len(Keys(i)) : n < next[i] => Keys(i)[n].user \in Rows(i)

\* Why a start has failed.
FailInv(i) ==
  pc[i] = "failed" /\ why[i] = "configuration" =>
    \/ S(i).DATABASE_URL = "POSTGRES://h"
    \/ IsOn(S(i), "DATABASE_MIGRATIONS_ENABLED") /\ ~Migratable(S(i))

\* What the functions without a type of their own have to be.
ShapeInv ==
  DOMAIN container = Instances /\ DOMAIN ownUsers = Instances /\ DOMAIN before = Instances

InstanceInv(i) == AcceptedInv(i) /\ EngineInv(i) /\ UsersInv(i) /\ FailInv(i)

StartupInv == StartupTypeOK /\ ShapeInv /\ \A i \in Instances : InstanceInv(i)

-----------------------------------------------------------------------------
(* The settings. *)

\* The definitions that depend on nothing but the settings keep their values.
LEMMA SettingsStay ==
  ASSUME NEW i, settings' = settings
  PROVE  /\ S(i)' = S(i) /\ Keys(i)' = Keys(i) /\ Credentials(i)' = Credentials(i)
         /\ HasDatabase(i)' = HasDatabase(i) /\ Migrates(i)' = Migrates(i)
         /\ AcceptedInv(i)' = AcceptedInv(i)
<1>1. S(i)' = S(i)
  BY DEF S
<1>2. Keys(i)' = Keys(i)
  BY <1>1 DEF Keys
<1>3. HasDatabase(i)' = HasDatabase(i)
  BY <1>1 DEF HasDatabase
<1>4. Migrates(i)' = Migrates(i)
  BY <1>1, <1>3 DEF Migrates, IsOn, TrueWords
<1>5. AcceptedInv(i)' = AcceptedInv(i)
  BY <1>1 DEF AcceptedInv
<1>6. ASSUME NEW n PROVE Identity(i, n)' = Identity(i, n)
  BY <1>1, <1>2 DEF Identity
<1>7. Credentials(i)' = Credentials(i)
  BY <1>1, <1>2, <1>6 DEF Credentials
<1> QED
  BY <1>1, <1>2, <1>3, <1>4, <1>5, <1>7

\* The only accepted database URL no engine opens has its scheme in capitals.
LEMMA EnginesOpen ==
  ASSUME NEW s, DatabaseValid(s), s.DATABASE_URL # None, ~EngineOpens(s.DATABASE_URL)
  PROVE  s.DATABASE_URL = "POSTGRES://h"
<1>1. PICK url : url = s.DATABASE_URL
  OBVIOUS
<1>2. url \in DOMAIN Scheme /\ Scheme[url] \in {"postgres", "postgresql"}
  BY <1>1 DEF DatabaseValid, NoneOrUrl, UrlOf
<1>3. Scheme["https://h"] = "https" /\ Scheme["http://h"] = "http"
  BY DEF Scheme
<1>4. url \in {"postgres://h", "POSTGRES://h", "postgresql://u:%40@h"}
  BY <1>2, <1>3 DEF Scheme
<1> QED
  BY <1>1, <1>4 DEF EngineOpens

\* Accepted settings compose.
LEMMA AcceptedCompose ==
  ASSUME NEW s, Accepted(s)
  PROVE  Composes(s)
<1>1. RerankerComposes(s)
  BY DEF Accepted, ProviderDefaultsValid, ProvidersValid, PositiveInt, RerankerComposes
<1>2. ASSUME NEW selection \in Embeddings(s) PROVE EmbeddingsCompose(s, selection)
  BY <1>2 DEF Accepted, ProviderDefaultsValid, ProvidersValid, PositiveInt, EmbeddingsCompose
<1>3. LlmComposes(s)
  BY DEF Accepted, ProviderDefaultsValid, ProvidersValid, LlmComposes
<1> QED
  BY <1>1, <1>2, <1>3 DEF Composes

-----------------------------------------------------------------------------
(* The others: what one process does to the database leaves the invariant  *)
(* of every other one.                                                     *)

Stays(i) ==
  /\ pc'[i] = pc[i] /\ engine'[i] = engine[i] /\ container'[i] = container[i]
  /\ ready'[i] = ready[i] /\ next'[i] = next[i] /\ base'[i] = base[i]
  /\ ownUsers'[i] = ownUsers[i] /\ why'[i] = why[i] /\ before'[i] = before[i]

LEMMA OthersKeep ==
  ASSUME NEW i \in Instances, settings' = settings, Stays(i),
         schema' = schema \/ schema' = HeadRevision, users \subseteq users',
         InstanceInv(i)
  PROVE  InstanceInv(i)'
<1>1. /\ S(i)' = S(i) /\ Keys(i)' = Keys(i) /\ Credentials(i)' = Credentials(i)
      /\ HasDatabase(i)' = HasDatabase(i) /\ Migrates(i)' = Migrates(i)
      /\ AcceptedInv(i)' = AcceptedInv(i)
  BY SettingsStay
<1>2. AcceptedInv(i)'
  BY <1>1 DEF InstanceInv
<1>3. EngineInv(i)'
  BY <1>1 DEF InstanceInv, EngineInv, Stays, Running, Composed
<1>4. Rows(i) \subseteq Rows(i)'
  BY <1>1 DEF Rows, Stays
<1>5. LooksUpUsers(i)' = LooksUpUsers(i)
  BY <1>1 DEF LooksUpUsers, Stays
<1>6. UsersInv(i)'
  BY <1>1, <1>4, <1>5 DEF InstanceInv, UsersInv, Stays
<1>7. FailInv(i)'
  <2>1. ConfiguredUser(i)' = ConfiguredUser(i)
    BY <1>1 DEF ConfiguredUser, Stays
  <2> QED
    BY <1>1, <2>1 DEF InstanceInv, FailInv, Stays, IsOn, TrueWords, Migratable
<1> QED
  BY <1>2, <1>3, <1>6, <1>7 DEF InstanceInv

-----------------------------------------------------------------------------
(* The steps of a process of its own.                                      *)

LEMMA CreateEngineKeeps ==
  ASSUME NEW i \in Instances, StartupTypeOK, ShapeInv, InstanceInv(i), CreateEngine(i)
  PROVE  InstanceInv(i)'
<1>1. settings' = settings /\ schema' = schema /\ users' = users /\ pc[i] = "engine"
  BY DEF CreateEngine
<1>2. /\ S(i)' = S(i) /\ Keys(i)' = Keys(i) /\ Credentials(i)' = Credentials(i)
      /\ HasDatabase(i)' = HasDatabase(i) /\ Migrates(i)' = Migrates(i)
      /\ AcceptedInv(i)' = AcceptedInv(i)
  BY <1>1, SettingsStay
<1>3. S(i) # None /\ Accepted(S(i))
  BY <1>1 DEF InstanceInv, AcceptedInv, EngineInv, Running
<1>4. AcceptedInv(i)'
  BY <1>2 DEF InstanceInv
<1>5. EngineInv(i)'
  <2>1. CASE ~HasDatabase(i)
    BY <1>1, <1>2, <1>3, <2>1 DEF StartupTypeOK, InstanceInv, EngineInv, CreateEngine, Goto, Fail,
          Running, Composed, Migrates
  <2>2. CASE HasDatabase(i) /\ ~EngineOpens(S(i).DATABASE_URL)
    BY <1>1, <1>2, <1>3, <2>2 DEF StartupTypeOK, InstanceInv, EngineInv, CreateEngine, Goto, Fail,
          Running, Composed
  <2>3. CASE HasDatabase(i) /\ EngineOpens(S(i).DATABASE_URL)
    BY <1>1, <1>2, <1>3, <2>3 DEF StartupTypeOK, InstanceInv, EngineInv, CreateEngine, Goto, Fail,
          Running, Composed, Migrates
  <2> QED
    BY <2>1, <2>2, <2>3
<1>6. UsersInv(i)'
  <2>1. next'[i] = next[i] /\ ownUsers'[i] = ownUsers[i]
    BY DEF CreateEngine
  <2>2. pc'[i] \in {"users", "migrate", "failed"}
    BY DEF CreateEngine, Goto, Fail, StartupTypeOK
  <2>3. Rows(i)' = Rows(i)
    BY <1>1, <1>2, <2>1 DEF Rows
  <2> QED
    BY <1>1, <1>2, <2>1, <2>2, <2>3 DEF InstanceInv, UsersInv, Running, Composed
<1>7. FailInv(i)'
  <2>1. CASE HasDatabase(i) /\ ~EngineOpens(S(i).DATABASE_URL)
    <3>1. S(i).DATABASE_URL = "POSTGRES://h"
      BY <1>3, <2>1, EnginesOpen DEF Accepted, HasDatabase
    <3>2. why'[i] = "configuration"
      BY <2>1 DEF CreateEngine, Fail, StartupTypeOK
    <3> QED
      BY <1>2, <3>1, <3>2 DEF FailInv
  <2>2. CASE ~(HasDatabase(i) /\ ~EngineOpens(S(i).DATABASE_URL))
    <3>1. pc'[i] # "failed"
      BY <2>2 DEF CreateEngine, Goto, StartupTypeOK
    <3> QED
      BY <3>1 DEF FailInv
  <2> QED
    BY <2>1, <2>2
<1> QED
  BY <1>4, <1>5, <1>6, <1>7 DEF InstanceInv

LEMMA MigrationKeeps ==
  ASSUME NEW i \in Instances, StartupTypeOK, ShapeInv, InstanceInv(i),
         BeginMigration(i) \/ Upgrade(i)
  PROVE  InstanceInv(i)'
<1>1. settings' = settings /\ users' = users /\ pc[i] \in {"migrate", "upgrade"}
  BY DEF BeginMigration, Upgrade
<1>2. /\ S(i)' = S(i) /\ Keys(i)' = Keys(i) /\ Credentials(i)' = Credentials(i)
      /\ HasDatabase(i)' = HasDatabase(i) /\ Migrates(i)' = Migrates(i)
      /\ AcceptedInv(i)' = AcceptedInv(i)
  BY <1>1, SettingsStay
<1>3. S(i) # None /\ Migrates(i)
  BY <1>1 DEF InstanceInv, EngineInv, Running
<1>4. AcceptedInv(i)'
  BY <1>2 DEF InstanceInv
<1>5. EngineInv(i)'
  <2>1. CASE BeginMigration(i)
    BY <1>1, <1>2, <1>3, <2>1 DEF StartupTypeOK, InstanceInv, EngineInv, BeginMigration, Goto, Fail,
          Breaks, Running, Composed
  <2>2. CASE Upgrade(i)
    BY <1>1, <1>2, <1>3, <2>2 DEF StartupTypeOK, InstanceInv, EngineInv, Upgrade, Goto, Fail,
          Breaks, Running, Composed
  <2> QED
    BY <2>1, <2>2
<1>6. UsersInv(i)'
  <2>1. next'[i] = next[i] /\ ownUsers'[i] = ownUsers[i]
    BY DEF BeginMigration, Upgrade
  <2>2. pc'[i] \in {"users", "upgrade", "failed"}
    BY DEF BeginMigration, Upgrade, Goto, Fail, Breaks, StartupTypeOK
  <2>3. Rows(i)' = Rows(i)
    BY <1>1, <1>2, <2>1 DEF Rows
  <2> QED
    BY <1>1, <1>2, <2>1, <2>2, <2>3 DEF InstanceInv, UsersInv, Running, Composed
<1>7. FailInv(i)'
  <2>1. CASE BeginMigration(i)
    <3>1. pc'[i] = "failed" =>
            \/ why'[i] = "environment"
            \/ why'[i] = "configuration" /\ ~Migratable(S(i))
      BY <2>1 DEF BeginMigration, Goto, Fail, Breaks, StartupTypeOK
    <3> QED
      BY <1>2, <1>3, <3>1 DEF FailInv, Migrates, IsOn, TrueWords, Migratable
  <2>2. CASE Upgrade(i)
    <3>1. pc'[i] = "failed" => why'[i] \in {"environment", "race"}
      BY <2>2 DEF Upgrade, Goto, Fail, Breaks, StartupTypeOK
    <3> QED
      BY <3>1 DEF FailInv
  <2> QED
    BY <2>1, <2>2
<1> QED
  BY <1>4, <1>5, <1>6, <1>7 DEF InstanceInv

\* An added user joins the rows that every look-up of its process found.
LEMMA UsersKeep ==
  ASSUME NEW i \in Instances, StartupTypeOK, ShapeInv, InstanceInv(i),
         AuthenticatorDone(i) \/ GetUser(i) \/ AddUser(i)
  PROVE  InstanceInv(i)'
<1>1. /\ settings' = settings /\ schema' = schema /\ pc[i] \in {"users", "add"}
      /\ engine' = engine /\ ready' = ready
  BY DEF AuthenticatorDone, GetUser, AddUser
<1>2. /\ S(i)' = S(i) /\ Keys(i)' = Keys(i) /\ Credentials(i)' = Credentials(i)
      /\ HasDatabase(i)' = HasDatabase(i) /\ Migrates(i)' = Migrates(i)
      /\ AcceptedInv(i)' = AcceptedInv(i)
  BY <1>1, SettingsStay
<1>3. /\ S(i) # None /\ Len(Keys(i)) \in Nat /\ DOMAIN Keys(i) = 1..Len(Keys(i))
      /\ next[i] \in Nat \ {0}
  BY <1>1 DEF InstanceInv, AcceptedInv, EngineInv, Running, Accepted, Keys, StartupTypeOK
<1>4. AcceptedInv(i)'
  BY <1>2 DEF InstanceInv
<1>5. pc'[i] \in {"users", "add", "compose", "failed"}
  BY <1>1 DEF AuthenticatorDone, GetUser, AddUser, Goto, Fail, Breaks, StartupTypeOK
<1>6. EngineInv(i)'
  BY <1>1, <1>2, <1>3, <1>5 DEF InstanceInv, EngineInv, Running, Composed
<1>7. UsersInv(i)'
  <2>1. CASE AuthenticatorDone(i)
    <3>1. Rows(i)' = Rows(i) /\ LooksUpUsers(i)' = LooksUpUsers(i)
      BY <1>2, <2>1 DEF AuthenticatorDone, Rows, LooksUpUsers
    <3>2. next' = next /\ pc'[i] = "compose" /\ ~LooksUpUsers(i)
      BY <2>1 DEF AuthenticatorDone, Goto, StartupTypeOK
    <3> QED
      BY <1>1, <1>2, <3>1, <3>2 DEF InstanceInv, UsersInv, Running
  <2>2. CASE GetUser(i)
    <3>1. Rows(i)' = Rows(i) /\ LooksUpUsers(i)
      BY <1>2, <2>2 DEF GetUser, Rows
    <3>2. \/ next' = next
          \/ pc' = pc /\ next'[i] = next[i] + 1 /\ Keys(i)[next[i]].user \in Rows(i)
      BY <2>2 DEF GetUser, Found, ConfiguredUser, Rows, StartupTypeOK
    <3>3. CASE next' = next
      <4>1. LooksUpUsers(i)' = LooksUpUsers(i)
        BY <1>2, <3>3 DEF LooksUpUsers
      <4>2. pc'[i] # "compose"
        BY <2>2 DEF GetUser, Goto, Fail, Breaks, StartupTypeOK
      <4> QED
        BY <1>1, <1>2, <1>5, <3>1, <3>3, <4>1, <4>2 DEF InstanceInv, UsersInv, Running, Composed
    <3>4. CASE pc' = pc /\ next'[i] = next[i] + 1 /\ Keys(i)[next[i]].user \in Rows(i)
      <4>1. pc'[i] = "users"
        BY <2>2, <3>4 DEF GetUser
      <4>2. ASSUME NEW n \in 1..Len(Keys(i)), n < next'[i] PROVE Keys(i)[n].user \in Rows(i)
        <5>1. n < next[i] \/ n = next[i]
          BY <1>3, <3>4, <4>2
        <5> QED
          BY <1>1, <3>4, <5>1 DEF InstanceInv, UsersInv, Running
      <4> QED
        BY <1>2, <3>1, <4>1, <4>2 DEF UsersInv, Composed
    <3> QED
      BY <3>2, <3>3, <3>4
  <2>3. CASE AddUser(i)
    <3>1. Rows(i) \subseteq Rows(i)'
      BY <1>2, <2>3 DEF AddUser, Rows, ShapeInv
    <3>2. \/ next' = next /\ pc'[i] = "failed"
          \/ /\ pc'[i] = "users" /\ next'[i] = next[i] + 1
             /\ Keys(i)[next[i]].user \in Rows(i)'
      BY <1>2, <2>3 DEF AddUser, ConfiguredUser, Rows, Goto, Fail, Breaks, StartupTypeOK, ShapeInv
    <3>3. CASE pc'[i] = "failed"
      BY <3>3 DEF UsersInv, Running, Composed
    <3>4. CASE /\ pc'[i] = "users" /\ next'[i] = next[i] + 1
               /\ Keys(i)[next[i]].user \in Rows(i)'
      <4>1. ASSUME NEW n \in 1..Len(Keys(i)), n < next'[i] PROVE Keys(i)[n].user \in Rows(i)'
        <5>1. n < next[i] \/ n = next[i]
          BY <1>3, <3>4, <4>1
        <5> QED
          BY <1>1, <3>1, <3>4, <5>1 DEF InstanceInv, UsersInv, Running
      <4> QED
        BY <1>2, <3>4, <4>1 DEF UsersInv, Composed
    <3> QED
      BY <3>2, <3>3, <3>4
  <2> QED
    BY <2>1, <2>2, <2>3
<1>8. FailInv(i)'
  <2>1. pc'[i] = "failed" => why'[i] \in {"environment", "schema", "race"}
    BY DEF AuthenticatorDone, GetUser, AddUser, Goto, Fail, Breaks, StartupTypeOK
  <2> QED
    BY <2>1 DEF FailInv
<1> QED
  BY <1>4, <1>6, <1>7, <1>8 DEF InstanceInv

\* What was accepted composes, so that a start goes on from "compose".
LEMMA ComposeKeeps ==
  ASSUME NEW i \in Instances, StartupTypeOK, ShapeInv, InstanceInv(i),
         Compose(i) \/ WarmUp(i)
  PROVE  InstanceInv(i)'
<1>1. /\ settings' = settings /\ schema' = schema /\ pc[i] \in {"compose", "warm"}
      /\ engine' = engine /\ next' = next /\ ownUsers' = ownUsers /\ users' = users
  BY DEF Compose, WarmUp
<1>2. /\ S(i)' = S(i) /\ Keys(i)' = Keys(i) /\ Credentials(i)' = Credentials(i)
      /\ HasDatabase(i)' = HasDatabase(i) /\ Migrates(i)' = Migrates(i)
      /\ AcceptedInv(i)' = AcceptedInv(i)
  BY <1>1, SettingsStay
<1>3. S(i) # None /\ Accepted(S(i))
  BY <1>1 DEF InstanceInv, AcceptedInv, EngineInv, Running
<1>4. AcceptedInv(i)'
  BY <1>2 DEF InstanceInv
<1>5. /\ pc'[i] \in {"warm", "serving", "failed"}
      /\ pc'[i] = "failed" => why'[i] = "environment"
      /\ pc'[i] \in {"warm", "serving"} => container'[i] = Credentials(i)
      /\ ready'[i] => pc'[i] = "serving"
  <2>1. CASE Compose(i)
    <3>1. Composes(S(i))
      BY <1>3, AcceptedCompose
    <3>2. pc'[i] = "warm" /\ container'[i] = Credentials(i) /\ ready'[i] = ready[i]
      BY <2>1, <3>1 DEF Compose, Goto, StartupTypeOK, ShapeInv
    <3>3. ~ready[i]
      BY <2>1 DEF Compose, InstanceInv, EngineInv
    <3> QED
      BY <3>2, <3>3
  <2>2. CASE WarmUp(i)
    <3>1. container' = container /\ container[i] = Credentials(i) /\ ~ready[i]
      BY <2>2 DEF WarmUp, InstanceInv, EngineInv
    <3>2. \/ /\ pc'[i] = "failed" /\ why'[i] = "environment" /\ ready'[i] = ready[i]
          \/ pc'[i] = "serving"
      BY <2>2 DEF WarmUp, Goto, Fail, Breaks, StartupTypeOK
    <3> QED
      BY <3>1, <3>2
  <2> QED
    BY <2>1, <2>2
<1>6. EngineInv(i)'
  BY <1>1, <1>2, <1>3, <1>5 DEF InstanceInv, EngineInv, Running, Composed
<1>7. UsersInv(i)'
  <2>1. Rows(i)' = Rows(i) /\ LooksUpUsers(i)' = LooksUpUsers(i)
    BY <1>1, <1>2 DEF Rows, LooksUpUsers
  <2> QED
    BY <1>1, <1>2, <1>5, <2>1 DEF InstanceInv, UsersInv, Running, Composed
<1>8. FailInv(i)'
  BY <1>5 DEF FailInv
<1> QED
  BY <1>4, <1>6, <1>7, <1>8 DEF InstanceInv

\* The ends of a process, its starts and the requests in between.
LEMMA EndsKeep ==
  ASSUME NEW i \in Instances, StartupTypeOK, ShapeInv, InstanceInv(i),
         \/ Start(i) \/ Authenticate(i) \/ BeginShutdown(i) \/ Close(i)
         \/ Exit(i) \/ Crash(i)
  PROVE  InstanceInv(i)'
<1>1. settings' = settings /\ schema' = schema /\ users' = users
  BY DEF Start, Authenticate, BeginShutdown, Close, Exit, Crash, Gone
<1>2. /\ S(i)' = S(i) /\ Keys(i)' = Keys(i) /\ Credentials(i)' = Credentials(i)
      /\ HasDatabase(i)' = HasDatabase(i) /\ Migrates(i)' = Migrates(i)
      /\ AcceptedInv(i)' = AcceptedInv(i)
  BY <1>1, SettingsStay
<1>3. AcceptedInv(i)'
  BY <1>2 DEF InstanceInv
<1>4. CASE Start(i)
  <2>1. /\ \/ pc'[i] = "engine" /\ S(i) # None
           \/ pc'[i] = "failed" /\ why'[i] = "settings"
        /\ next'[i] = 1 /\ engine'[i] = "none" /\ ready' = ready
        /\ pc[i] \in {"down", "stopped"}
    BY <1>4 DEF Start, Goto, Fail, StartupTypeOK
  <2>2. EngineInv(i)'
    BY <1>2, <2>1 DEF InstanceInv, EngineInv, Running, Composed
  <2>3. UsersInv(i)'
    BY <2>1 DEF UsersInv, Composed
  <2>4. FailInv(i)'
    BY <2>1 DEF FailInv
  <2> QED
    BY <1>3, <2>2, <2>3, <2>4 DEF InstanceInv
<1>5. CASE Authenticate(i)
  <2>1. Stays(i)
    BY <1>5 DEF Authenticate, Stays
  <2> QED
    BY <1>1, <2>1, OthersKeep
<1>6. CASE BeginShutdown(i) \/ Close(i)
  <2>1. /\ pc'[i] \in {"closing", "stopped"} /\ ~ready'[i] /\ next' = next
        /\ ownUsers' = ownUsers /\ pc[i] \in {"serving", "closing"}
    BY <1>6 DEF BeginShutdown, Close, Goto, StartupTypeOK, InstanceInv, EngineInv
  <2>2. /\ pc'[i] = "closing" => engine' = engine
        /\ pc'[i] = "stopped" => engine'[i] = IF HasDatabase(i) THEN "disposed" ELSE engine[i]
    BY <1>6 DEF BeginShutdown, Close, Goto, StartupTypeOK
  <2>3. EngineInv(i)'
    BY <1>2, <2>1, <2>2 DEF InstanceInv, EngineInv, Running, Composed
  <2>4. Rows(i)' = Rows(i)
    BY <1>1, <1>2, <2>1 DEF Rows
  <2>5. UsersInv(i)'
    BY <1>2, <2>1, <2>4 DEF InstanceInv, UsersInv, Running, Composed
  <2>6. FailInv(i)'
    BY <2>1 DEF FailInv
  <2> QED
    BY <1>3, <2>3, <2>5, <2>6 DEF InstanceInv
<1>7. CASE Exit(i) \/ Crash(i)
  <2>1. pc'[i] = "down" /\ engine'[i] = "none" /\ ~ready'[i]
    BY <1>7 DEF Exit, Crash, Gone, Goto, StartupTypeOK
  <2>2. EngineInv(i)'
    BY <2>1 DEF EngineInv, Running, Composed
  <2>3. UsersInv(i)' /\ FailInv(i)'
    BY <2>1 DEF UsersInv, FailInv, Running, Composed
  <2> QED
    BY <1>3, <2>2, <2>3 DEF InstanceInv
<1> QED
  BY <1>4, <1>5, <1>6, <1>7

-----------------------------------------------------------------------------
(* Type correctness, and every step at once.                               *)

LEMMA SettingsTyped ==
  ASSUME StartupTypeOK, settings' = settings
  PROVE  \A i \in Instances : S(i)' # None => DOMAIN S(i)' = Names
BY DEF StartupTypeOK, S

LEMMA StartTyped ==
  ASSUME NEW i \in Instances, StartupTypeOK, ShapeInv,
         \/ CreateEngine(i) \/ BeginMigration(i) \/ Upgrade(i) \/ AuthenticatorDone(i)
         \/ GetUser(i) \/ AddUser(i) \/ Compose(i) \/ WarmUp(i)
  PROVE  StartupTypeOK' /\ ShapeInv'
<1>1. settings' = settings
  BY DEF CreateEngine, BeginMigration, Upgrade, AuthenticatorDone, GetUser, AddUser, Compose, WarmUp
<1>2. \A j \in Instances : S(j)' # None => DOMAIN S(j)' = Names
  BY <1>1, SettingsTyped
<1>3. CASE CreateEngine(i)
  BY <1>2, <1>3 DEF CreateEngine, Goto, Fail, StartupTypeOK, ShapeInv, PCs
<1>4. CASE BeginMigration(i)
  BY <1>2, <1>4 DEF BeginMigration, Goto, Fail, Breaks, StartupTypeOK, ShapeInv, PCs
<1>5. CASE Upgrade(i)
  BY <1>2, <1>5 DEF Upgrade, Goto, Fail, Breaks, StartupTypeOK, ShapeInv, PCs, HeadRevision
<1>6. CASE AuthenticatorDone(i)
  BY <1>2, <1>6 DEF AuthenticatorDone, Goto, StartupTypeOK, ShapeInv, PCs, Nothing, HeadRevision
<1>7. CASE GetUser(i)
  <2>1. next' \in [Instances -> Nat \ {0}]
    BY <1>7 DEF GetUser, StartupTypeOK
  <2> QED
    BY <1>2, <1>7, <2>1 DEF GetUser, Goto, Fail, Breaks, StartupTypeOK, ShapeInv, PCs
<1>8. CASE AddUser(i)
  <2>1. next' \in [Instances -> Nat \ {0}]
    BY <1>8 DEF AddUser, StartupTypeOK
  <2> QED
    BY <1>2, <1>8, <2>1 DEF AddUser, Goto, Fail, Breaks, StartupTypeOK, ShapeInv, PCs
<1>9. CASE Compose(i)
  BY <1>2, <1>9 DEF Compose, Goto, Fail, StartupTypeOK, ShapeInv, PCs
<1>10. CASE WarmUp(i)
  BY <1>2, <1>10 DEF WarmUp, Goto, Fail, Breaks, StartupTypeOK, ShapeInv, PCs
<1> QED
  BY <1>3, <1>4, <1>5, <1>6, <1>7, <1>8, <1>9, <1>10

LEMMA EndsTyped ==
  ASSUME NEW i \in Instances, StartupTypeOK, ShapeInv,
         \/ Start(i) \/ Authenticate(i) \/ BeginShutdown(i) \/ Close(i)
         \/ Exit(i) \/ Crash(i)
  PROVE  StartupTypeOK' /\ ShapeInv'
<1>1. settings' = settings
  BY DEF Start, Authenticate, BeginShutdown, Close, Exit, Crash, Gone
<1>2. \A j \in Instances : S(j)' # None => DOMAIN S(j)' = Names
  BY <1>1, SettingsTyped
<1>3. CASE Start(i)
  BY <1>2, <1>3 DEF Start, Goto, Fail, StartupTypeOK, ShapeInv, PCs
<1>4. CASE Authenticate(i)
  BY <1>2, <1>4 DEF Authenticate, StartupTypeOK, ShapeInv
<1>5. CASE BeginShutdown(i)
  BY <1>2, <1>5 DEF BeginShutdown, Goto, StartupTypeOK, ShapeInv, PCs
<1>6. CASE Close(i)
  BY <1>2, <1>6 DEF Close, Goto, StartupTypeOK, ShapeInv, PCs
<1>7. CASE Exit(i) \/ Crash(i)
  <2>1. crashes' \in 0..MaxCrashes
    BY <1>7, StartupAssumption DEF Exit, Crash, StartupTypeOK
  <2>2. next' \in [Instances -> Nat \ {0}] /\ base' \in [Instances -> 0..HeadRevision]
    BY <1>7 DEF Exit, Crash, Gone, StartupTypeOK, HeadRevision
  <2>3. /\ pc' \in [Instances -> PCs] /\ ready' \in [Instances -> BOOLEAN]
        /\ engine' \in [Instances -> {"none", "open", "disposed"}]
    BY <1>7 DEF Exit, Crash, Gone, Goto, StartupTypeOK, PCs
  <2>4. why' \in [Instances -> {"none", "settings", "configuration", "environment",
                               "schema", "race"}]
    BY <1>7 DEF Exit, Crash, Gone, StartupTypeOK
  <2>5. schema' \in 0..HeadRevision /\ healthy' \in BOOLEAN /\ ShapeInv'
    BY <1>7 DEF Exit, Crash, Gone, StartupTypeOK, ShapeInv
  <2>6. \A j \in Instances : before'[j].schema \in 0..HeadRevision
    BY <1>7 DEF Exit, Crash, Gone, StartupTypeOK, ShapeInv, Nothing, HeadRevision
  <2> QED
    BY <1>2, <2>1, <2>2, <2>3, <2>4, <2>5, <2>6 DEF StartupTypeOK
<1> QED
  BY <1>3, <1>4, <1>5, <1>6, <1>7

\* What a step of process j leaves alone.
LEMMA StepsAreOwn ==
  ASSUME NEW i \in Instances, NEW j \in Instances, i # j, StartupTypeOK, ShapeInv,
         \/ Start(j) \/ StartStep(j) \/ Authenticate(j)
         \/ BeginShutdown(j) \/ Close(j) \/ Exit(j) \/ Crash(j)
  PROVE  /\ settings' = settings /\ Stays(i)
         /\ schema' = schema \/ schema' = HeadRevision
         /\ users \subseteq users'
<1>1. CASE Start(j) \/ Authenticate(j) \/ BeginShutdown(j) \/ Close(j)
  BY <1>1 DEF Start, Authenticate, BeginShutdown, Close, Goto, Fail, Stays, StartupTypeOK, ShapeInv
<1>2. CASE Exit(j) \/ Crash(j)
  BY <1>2 DEF Exit, Crash, Gone, Goto, Stays, StartupTypeOK, ShapeInv
<1>3. CASE CreateEngine(j) \/ BeginMigration(j) \/ Upgrade(j)
  BY <1>3 DEF CreateEngine, BeginMigration, Upgrade, Goto, Fail, Breaks, Stays, StartupTypeOK, ShapeInv
<1>4. CASE AuthenticatorDone(j) \/ GetUser(j) \/ AddUser(j)
  BY <1>4 DEF AuthenticatorDone, GetUser, AddUser, Goto, Fail, Breaks, Stays, StartupTypeOK, ShapeInv
<1>5. CASE Compose(j) \/ WarmUp(j)
  BY <1>5 DEF Compose, WarmUp, Goto, Fail, Breaks, Stays, StartupTypeOK, ShapeInv
<1> QED
  BY <1>1, <1>2, <1>3, <1>4, <1>5 DEF StartStep

LEMMA StartupInitInv == StartupInit => StartupInv
<1> SUFFICES ASSUME StartupInit PROVE StartupInv
  OBVIOUS
<1>1. PICK deployments \in Deployments :
        settings = [i \in Instances |-> load_settings(deployments[i])]
  BY DEF StartupInit
<1>2. ASSUME NEW i \in Instances PROVE AcceptedInv(i)
  <2>1. S(i) = load_settings(deployments[i])
    BY <1>1 DEF S
  <2>2. SUFFICES ASSUME S(i) # None PROVE Accepted(S(i))
    BY DEF AcceptedInv
  <2>3. Loads(deployments[i]) /\ S(i) = SettingsOf(deployments[i])
    BY <2>1, <2>2 DEF load_settings
  <2>4. ProviderDefaultsValid(S(i)) /\ ProvidersValid(S(i)) /\ DatabaseValid(S(i))
    BY <2>3 DEF Loads
  <2>5. DOMAIN S(i) = Names
    BY <2>3 DEF SettingsOf
  <2>6. Len(S(i).AUTH_API_KEYS) \in Nat /\ DOMAIN S(i).AUTH_API_KEYS = 1..Len(S(i).AUTH_API_KEYS)
    BY <2>1, <2>2, CredentialsAreList
  <2> QED
    BY <2>4, <2>5, <2>6 DEF Accepted
<1>3. StartupTypeOK
  <2>1. \A i \in Instances : S(i) # None => DOMAIN S(i) = Names
    BY <1>2 DEF AcceptedInv, Accepted
  <2>2. schema \in 0..HeadRevision /\ crashes \in 0..MaxCrashes
    BY StartupAssumption DEF StartupInit
  <2> QED
    BY <2>1, <2>2 DEF StartupInit, StartupTypeOK, PCs, Nothing, HeadRevision
<1>4. ASSUME NEW i \in Instances PROVE EngineInv(i) /\ UsersInv(i) /\ FailInv(i)
  BY DEF StartupInit, EngineInv, UsersInv, FailInv, Running, Composed
<1> QED
  BY <1>2, <1>3, <1>4 DEF StartupInv, InstanceInv, ShapeInv, StartupInit

LEMMA StartupStep == StartupInv /\ [StartupNext]_startupVars => StartupInv'
<1> SUFFICES ASSUME StartupInv, [StartupNext]_startupVars PROVE StartupInv'
  OBVIOUS
<1> USE DEF StartupInv
<1>1. ASSUME NEW j \in Instances,
             \/ Start(j) \/ StartStep(j) \/ Authenticate(j)
             \/ BeginShutdown(j) \/ Close(j) \/ Exit(j) \/ Crash(j)
      PROVE  StartupInv'
  <2>1. StartupTypeOK' /\ ShapeInv'
    BY <1>1, StartTyped, EndsTyped DEF StartStep
  <2>2. InstanceInv(j)'
    BY <1>1, CreateEngineKeeps, MigrationKeeps, UsersKeep, ComposeKeeps, EndsKeep DEF StartStep
  <2>3. ASSUME NEW i \in Instances, i # j PROVE InstanceInv(i)'
    <3>1. /\ settings' = settings /\ Stays(i)
          /\ schema' = schema \/ schema' = HeadRevision
          /\ users \subseteq users'
      BY <1>1, <2>3, StepsAreOwn
    <3> QED
      BY <3>1, OthersKeep
  <2> QED
    BY <2>1, <2>2, <2>3
<1>2. CASE Recover \/ UNCHANGED startupVars
  <2>1. /\ settings' = settings /\ schema' = schema /\ users' = users
        /\ \A i \in Instances : Stays(i)
    BY <1>2 DEF Recover, startupVars, Stays
  <2>2. ASSUME NEW i \in Instances PROVE InstanceInv(i)'
    BY <2>1, OthersKeep
  <2>3. \A i \in Instances : S(i)' # None => DOMAIN S(i)' = Names
    BY <2>1, SettingsTyped
  <2>4. StartupTypeOK' /\ ShapeInv'
    BY <1>2, <2>3 DEF Recover, startupVars, StartupTypeOK, ShapeInv
  <2> QED
    BY <2>2, <2>4
<1> QED
  BY <1>1, <1>2 DEF StartupNext

LEMMA StartupInvariant == StartupSafety => []StartupInv
<1> QED
  BY StartupInitInv, StartupStep, PTL DEF StartupSafety

-----------------------------------------------------------------------------
(* What it gives.                                                          *)

\* Every variable keeps its type, whatever the processes do.
THEOREM StartupTypeCorrect == StartupSpec => []StartupTypeOK
<1>1. StartupInv => StartupTypeOK
  BY DEF StartupInv
<1> QED
  BY <1>1, StartupInvariant, PTL DEF StartupSpec

\* A process is ready only with its engine open, its schema at the last
\* revision if it migrates and its credentials composed; none is ready, and
\* no engine open, once it has stopped.
THEOREM ReadyIsComposed == StartupSpec => []ReadyWindow
<1>1. StartupInv => ReadyWindow
  BY DEF StartupInv, InstanceInv, EngineInv, ReadyWindow, Running, Composed, Migrates
<1> QED
  BY <1>1, StartupInvariant, PTL DEF StartupSpec

\* A process is ready only once every configured user has a row, whatever
\* other processes add users, however many starts failed and crashed before.
THEOREM UsersComeFirst == StartupSpec => []UsersBeforeReady
<1>1. ASSUME StartupInv PROVE UsersBeforeReady
  <2> SUFFICES ASSUME NEW i \in Instances, ready[i], S(i).AUTH_PROVIDER = "api_key",
                      NEW n \in DOMAIN Keys(i)
               PROVE  Keys(i)[n].user \in Rows(i)
    BY DEF UsersBeforeReady, Rows
  <2>1. pc[i] = "serving" /\ S(i) # None
    BY <1>1 DEF StartupInv, InstanceInv, EngineInv, Running
  <2>2. Len(Keys(i)) \in Nat /\ DOMAIN Keys(i) = 1..Len(Keys(i)) /\ next[i] \in Nat
    BY <1>1, <2>1 DEF StartupInv, InstanceInv, AcceptedInv, Accepted, Keys, StartupTypeOK
  <2>3. n < next[i]
    BY <1>1, <2>1, <2>2 DEF StartupInv, InstanceInv, UsersInv, LooksUpUsers, Composed
  <2> QED
    BY <1>1, <2>1, <2>2, <2>3 DEF StartupInv, InstanceInv, UsersInv, Running
<1> QED
  BY <1>1, StartupInvariant, PTL DEF StartupSpec

\* Whatever settings load_settings accepts, a start fails on them only for a
\* scheme in capitals, a percent sign or a path without scripts.
THEOREM AcceptedSettingsStart == StartupSpec => []AcceptedSettingsCompose
<1>1. StartupInv => AcceptedSettingsCompose
  BY DEF StartupInv, InstanceInv, FailInv, AcceptedSettingsCompose
<1> QED
  BY <1>1, StartupInvariant, PTL DEF StartupSpec

-----------------------------------------------------------------------------
(* What keeps a start from failing on its own.                             *)

\* The database only gains on what it held when a start began; the revision a
\* migration read is no older than that; and the user a start is about to add
\* was not there then, nor has the start added it itself.
BeforeInv(i) ==
  /\ before[i].users \subseteq users /\ before[i].schema <= schema
  /\ pc[i] = "upgrade" => before[i].schema <= base[i]
  /\ pc[i] = "add" =>
       /\ HasDatabase(i) => ConfiguredUser(i) \notin before[i].users
       /\ \A n \in 1..(next[i] - 1) : Keys(i)[n].user # ConfiguredUser(i)

\* A process that is where it was, or is at neither race, keeps it as the
\* database grows.
LEMMA BeforeStays ==
  ASSUME NEW i \in Instances, StartupInv, StartupTypeOK', BeforeInv(i),
         settings' = settings, schema' = schema \/ schema' = HeadRevision,
         users \subseteq users', before'[i] = before[i] \/ before'[i] = Nothing,
         pc'[i] \notin {"upgrade", "add"} \/ Stays(i)
  PROVE  BeforeInv(i)'
<1>1. /\ before'[i].users \subseteq users' /\ before'[i].schema <= schema'
  <2>1. before[i].schema \in 0..HeadRevision /\ schema \in 0..HeadRevision
    BY DEF StartupInv, StartupTypeOK
  <2> QED
    BY <2>1 DEF BeforeInv, Nothing, HeadRevision
<1>2. CASE pc'[i] \notin {"upgrade", "add"}
  BY <1>1, <1>2 DEF BeforeInv
<1>3. CASE Stays(i)
  <2>1. Keys(i)' = Keys(i) /\ HasDatabase(i)' = HasDatabase(i)
    BY SettingsStay
  <2>2. ConfiguredUser(i)' = ConfiguredUser(i)
    BY <1>3, <2>1 DEF ConfiguredUser, Stays
  <2> QED
    BY <1>1, <1>3, <2>1, <2>2 DEF BeforeInv, Stays
<1> QED
  BY <1>2, <1>3

\* Which users there are is looked up in the database the start began on, or
\* a later one.
LEMMA LookUpKeepsBefore ==
  ASSUME NEW i \in Instances, StartupInv, BeforeInv(i), GetUser(i)
  PROVE  BeforeInv(i)'
<1>1. /\ settings' = settings /\ before' = before /\ schema' = schema /\ users' = users
  BY DEF GetUser
<1>2. Keys(i)' = Keys(i) /\ HasDatabase(i)' = HasDatabase(i)
  BY <1>1, SettingsStay
<1>3. CASE pc'[i] # "add"
  <2>1. pc'[i] # "upgrade"
    BY <1>3 DEF GetUser, Goto, Fail, Breaks, StartupInv, StartupTypeOK
  <2> QED
    BY <1>1, <1>3, <2>1 DEF BeforeInv
<1>4. CASE pc'[i] = "add"
  <2>1. ~Found(i) /\ next' = next /\ pc[i] = "users" /\ LooksUpUsers(i)
    BY <1>4 DEF GetUser, Goto, Fail, Breaks, StartupInv, StartupTypeOK
  <2>2. ConfiguredUser(i) \notin Rows(i) /\ ConfiguredUser(i)' = ConfiguredUser(i)
    BY <1>2, <2>1 DEF Found, Rows, ConfiguredUser
  <2>3. /\ Len(Keys(i)) \in Nat /\ next[i] \in Nat \ {0} /\ next[i] <= Len(Keys(i))
    BY <2>1 DEF StartupInv, InstanceInv, AcceptedInv, EngineInv, Running, Accepted, Keys,
       StartupTypeOK, LooksUpUsers
  <2>4. ASSUME NEW n \in 1..(next[i] - 1) PROVE Keys(i)[n].user # ConfiguredUser(i)
    <3>1. n \in 1..Len(Keys(i)) /\ n < next[i]
      BY <2>3
    <3> QED
      BY <2>1, <2>2, <3>1 DEF StartupInv, InstanceInv, UsersInv, Running
  <2>5. HasDatabase(i) => ConfiguredUser(i) \notin before[i].users
    BY <2>2 DEF Rows, BeforeInv
  <2> QED
    BY <1>1, <1>2, <1>4, <2>1, <2>2, <2>4, <2>5 DEF BeforeInv
<1> QED
  BY <1>3, <1>4

\* The other steps of the process itself.
LEMMA OwnStepsKeepBefore ==
  ASSUME NEW i \in Instances, StartupInv, StartupTypeOK', BeforeInv(i),
         \/ Start(i) \/ StartStep(i) \/ Authenticate(i)
         \/ BeginShutdown(i) \/ Close(i) \/ Exit(i) \/ Crash(i)
  PROVE  BeforeInv(i)'
<1> USE DEF StartupInv
<1>1. CASE Start(i)
  <2>1. /\ before'[i] = [schema |-> schema, users |-> users]
        /\ users' = users /\ schema' = schema /\ pc'[i] \notin {"upgrade", "add"}
    BY <1>1 DEF Start, Goto, Fail, ShapeInv, StartupTypeOK
  <2>2. schema \in 0..HeadRevision
    BY DEF StartupTypeOK
  <2> QED
    BY <2>1, <2>2 DEF BeforeInv, HeadRevision
<1>2. CASE BeginMigration(i)
  <2>1. /\ settings' = settings /\ before' = before /\ users' = users /\ schema' = schema
        /\ pc'[i] # "add" /\ (pc'[i] = "upgrade" => base'[i] = schema)
    BY <1>2 DEF BeginMigration, Goto, Fail, Breaks, StartupTypeOK
  <2> QED
    BY <2>1 DEF BeforeInv
<1>3. CASE GetUser(i)
  BY <1>3, LookUpKeepsBefore
<1>4. CASE CreateEngine(i) \/ Upgrade(i) \/ AuthenticatorDone(i) \/ AddUser(i)
  <2>1. /\ settings' = settings
        /\ before'[i] = before[i] \/ before'[i] = Nothing
        /\ schema' = schema \/ schema' = HeadRevision
        /\ users \subseteq users' /\ pc'[i] \notin {"upgrade", "add"}
    BY <1>4 DEF CreateEngine, Upgrade, AuthenticatorDone, AddUser, Goto, Fail, Breaks,
       ShapeInv, StartupTypeOK
  <2> QED
    BY <2>1, BeforeStays
<1>5. CASE \/ Compose(i) \/ WarmUp(i) \/ Authenticate(i) \/ BeginShutdown(i) \/ Close(i)
           \/ Exit(i) \/ Crash(i)
  <2>1. /\ settings' = settings
        /\ before'[i] = before[i] \/ before'[i] = Nothing
        /\ schema' = schema /\ users' = users /\ pc'[i] \notin {"upgrade", "add"}
    BY <1>5 DEF Compose, WarmUp, Authenticate, BeginShutdown, Close, Exit, Crash, Gone, Goto,
       Fail, Breaks, ShapeInv, StartupTypeOK
  <2> QED
    BY <2>1, BeforeStays
<1> QED
  BY <1>1, <1>2, <1>3, <1>4, <1>5 DEF StartStep

LEMMA BeforeStep ==
  ASSUME StartupInv, StartupInv', \A i \in Instances : BeforeInv(i), [StartupNext]_startupVars
  PROVE  \A i \in Instances : BeforeInv(i)'
<1> SUFFICES ASSUME NEW i \in Instances PROVE BeforeInv(i)'
  OBVIOUS
<1> USE DEF StartupInv
<1>1. ASSUME NEW j \in Instances,
             \/ Start(j) \/ StartStep(j) \/ Authenticate(j)
             \/ BeginShutdown(j) \/ Close(j) \/ Exit(j) \/ Crash(j)
      PROVE  BeforeInv(i)'
  <2>1. CASE i = j
    BY <1>1, <2>1, OwnStepsKeepBefore
  <2>2. CASE i # j
    <3>1. /\ settings' = settings /\ Stays(i)
          /\ schema' = schema \/ schema' = HeadRevision
          /\ users \subseteq users'
      BY <1>1, <2>2, StepsAreOwn
    <3> QED
      BY <3>1, BeforeStays DEF Stays
  <2> QED
    BY <2>1, <2>2
<1>2. CASE Recover \/ UNCHANGED startupVars
  <2>1. /\ settings' = settings /\ schema' = schema /\ users' = users /\ Stays(i)
    BY <1>2 DEF Recover, startupVars, Stays
  <2> QED
    BY <2>1, BeforeStays DEF Stays
<1> QED
  BY <1>1, <1>2 DEF StartupNext

\* Where a start that has what it needs can fail while the database answers.
LEMMA FailsOvertaken ==
  ASSUME NEW i \in Instances, StartupInv, BeforeInv(i), healthy, Startable(i),
         pc[i] # "failed", pc'[i] = "failed", Start(i) \/ StartStep(i)
  PROVE  Overtaken(i)
<1> USE DEF StartupInv
<1>1. /\ S(i) # None
      /\ HasDatabase(i) => EngineOpens(S(i).DATABASE_URL)
      /\ HasDatabase(i) /\ IsOn(S(i), "DATABASE_MIGRATIONS_ENABLED") => Migratable(S(i))
  BY DEF Startable, HasDatabase
<1>2. ~Start(i)
  BY <1>1 DEF Start, Goto, StartupTypeOK
<1>3. ~CreateEngine(i)
  BY <1>1 DEF CreateEngine, Goto, Fail, StartupTypeOK
<1>4. ~BeginMigration(i)
  <2>1. BeginMigration(i) => Migratable(S(i))
    BY <1>1 DEF BeginMigration, InstanceInv, EngineInv, Migrates
  <2> QED
    BY <2>1 DEF BeginMigration, Breaks, Goto, StartupTypeOK
<1>5. CASE Upgrade(i)
  <2>1. pc[i] = "upgrade" /\ base[i] # schema
    BY <1>5 DEF Upgrade, Breaks, Goto, StartupTypeOK
  <2>2. schema = HeadRevision
    BY <2>1 DEF InstanceInv, EngineInv
  <2>3. before[i].schema <= base[i] /\ base[i] \in 0..HeadRevision
        /\ before[i].schema \in 0..HeadRevision
    BY <2>1 DEF BeforeInv, StartupTypeOK
  <2> QED
    BY <2>1, <2>2, <2>3 DEF Overtaken, HeadRevision
<1>6. ~AuthenticatorDone(i)
  BY DEF AuthenticatorDone, Goto, StartupTypeOK
<1>7. ~GetUser(i)
  <2> SUFFICES ASSUME GetUser(i) PROVE FALSE
    OBVIOUS
  <2>1. pc[i] = "users" /\ S(i).AUTH_PROVIDER = "api_key"
    BY DEF GetUser, LooksUpUsers
  <2>2. HasDatabase(i) => schema = HeadRevision
    BY <2>1 DEF InstanceInv, EngineInv, Migrates, Startable, HasDatabase
  <2>3. HasDatabase(i) /\ schema < HeadRevision
    BY <2>1 DEF GetUser, Breaks, Goto, Fail, StartupTypeOK
  <2> QED
    BY <2>2, <2>3 DEF HeadRevision
<1>8. CASE AddUser(i)
  <2>1. pc[i] = "add" /\ HasDatabase(i) /\ Found(i)
    BY <1>8 DEF AddUser, Breaks, Goto, StartupTypeOK
  <2> QED
    BY <2>1 DEF BeforeInv, Overtaken, Found
<1>9. ~Compose(i)
  <2>1. Compose(i) => Composes(S(i))
    BY <1>1, AcceptedCompose DEF InstanceInv, AcceptedInv
  <2> QED
    BY <2>1 DEF Compose, Goto, StartupTypeOK
<1>10. ~WarmUp(i)
  BY DEF WarmUp, Breaks, Goto, StartupTypeOK
<1> QED
  BY <1>2, <1>3, <1>4, <1>5, <1>6, <1>7, <1>8, <1>9, <1>10 DEF StartStep

\* Among any number of processes, deployments and crashes, a start that has
\* what it needs and a database that answers fails only if another process has
\* migrated the schema, or added the user it is at, since it began.
THEOREM StartsFailOnlyOvertaken == StartupSpec => OnlyOvertakenStartsFail
<1> DEFINE Inv == StartupInv /\ \A i \in Instances : BeforeInv(i)
<1>1. StartupInit => Inv
  <2> SUFFICES ASSUME StartupInit PROVE Inv
    OBVIOUS
  <2>1. StartupInv
    BY StartupInitInv
  <2>2. schema \in 0..HeadRevision
    BY <2>1 DEF StartupInv, StartupTypeOK
  <2> QED
    BY <2>1, <2>2 DEF StartupInit, BeforeInv, Nothing, HeadRevision
<1>2. Inv /\ [StartupNext]_startupVars => Inv'
  BY StartupStep, BeforeStep
<1>3. Inv /\ [StartupNext]_startupVars =>
        [\A i \in Instances :
           healthy /\ Startable(i) /\ pc[i] # "failed" /\ pc'[i] = "failed" => Overtaken(i)
        ]_startupVars
  <2> SUFFICES ASSUME Inv, StartupNext, NEW i \in Instances, healthy, Startable(i),
                      pc[i] # "failed", pc'[i] = "failed"
               PROVE  Overtaken(i)
    OBVIOUS
  <2>1. ASSUME NEW j \in Instances, j # i,
               \/ Start(j) \/ StartStep(j) \/ Authenticate(j)
               \/ BeginShutdown(j) \/ Close(j) \/ Exit(j) \/ Crash(j)
        PROVE  pc'[i] = pc[i]
    BY <2>1, StepsAreOwn DEF StartupInv, Stays
  <2>2. ASSUME Authenticate(i) \/ BeginShutdown(i) \/ Close(i) \/ Exit(i) \/ Crash(i)
        PROVE  pc'[i] = pc[i] \/ pc'[i] # "failed"
    BY <2>2 DEF Authenticate, BeginShutdown, Close, Exit, Crash, Gone, Goto, StartupInv,
       StartupTypeOK
  <2>3. Recover => pc'[i] = pc[i]
    BY DEF Recover
  <2>4. Start(i) \/ StartStep(i)
    BY <2>1, <2>2, <2>3 DEF StartupNext
  <2> QED
    BY <2>4, FailsOvertaken
<1> QED
  BY <1>1, <1>2, <1>3, PTL DEF StartupSpec, StartupSafety, OnlyOvertakenStartsFail

-----------------------------------------------------------------------------
(* Authentication. *)

\* The CHOOSE of Resolve has something to choose.
LEMMA LeastNat ==
  ASSUME NEW hits, hits \subseteq Nat, hits # {}
  PROVE  \E n \in hits : \A m \in hits : n <= m
<1> DEFINE R == {ss \in Nat \X Nat : ss[1] < ss[2]}
<1>1. IsWellFoundedOn(R, Nat)
  BY NatLessThanWellFounded DEF OpToRel
<1>2. PICK n \in hits : \A m \in hits : <<m, n>> \notin R
  BY <1>1, WFMin
<1>3. ASSUME NEW m \in hits PROVE n <= m
  <2>1. ~(<<m, n>>[1] < <<m, n>>[2])
    BY <1>2, <<m, n>> \in Nat \X Nat
  <2> QED
    BY <2>1
<1> QED
  BY <1>2, <1>3

\* A resolved key is that of the credential it resolves to.
LEMMA ResolvedIsCredential ==
  ASSUME NEW credentials, DOMAIN credentials \subseteq Nat, NEW key,
         Resolve(credentials, key) # None
  PROVE  \E n \in DOMAIN credentials :
           credentials[n].key = key /\ Resolve(credentials, key) = credentials[n]
<1> DEFINE hits == {n \in DOMAIN credentials : credentials[n].key = key}
           least == CHOOSE n \in hits : \A m \in hits : n <= m
<1>1. hits # {} /\ Resolve(credentials, key) = credentials[least]
  BY DEF Resolve
<1>2. \E n \in hits : \A m \in hits : n <= m
  BY <1>1, LeastNat
<1>3. least \in hits
  <2> HIDE DEF hits
  <2> QED
    BY <1>2
<1> QED
  BY <1>1, <1>3

LEMMA PrincipalStep ==
  StartupInv /\ PrincipalIsConfigured /\ [StartupNext]_startupVars => PrincipalIsConfigured'
<1> SUFFICES ASSUME StartupInv, PrincipalIsConfigured, [StartupNext]_startupVars
             PROVE  PrincipalIsConfigured'
  OBVIOUS
<1>1. CASE answered' = answered /\ settings' = settings
  BY <1>1 DEF PrincipalIsConfigured, S
<1>2. ASSUME NEW i \in Instances, Authenticate(i) PROVE PrincipalIsConfigured'
  <2>1. PICK key \in PresentedKeys : answered' = Answer(i, key)
    BY <1>2 DEF Authenticate
  <2>2. /\ S(i) # None /\ container[i] = Credentials(i)
        /\ DOMAIN Keys(i) \subseteq Nat
    BY <1>2 DEF Authenticate, StartupInv, InstanceInv, EngineInv, AcceptedInv, Accepted, Running, Keys
  <2> SUFFICES ASSUME Answer(i, key).status = "ok" PROVE PrincipalIsConfigured'
    BY <2>1 DEF PrincipalIsConfigured
  <2> DEFINE identity == Resolve(Credentials(i), key)
  <2>3. /\ S(i).AUTH_PROVIDER = "api_key" /\ identity # None
        /\ answered' = [by |-> i, key |-> key, as |-> identity.user,
                         demo |-> identity.demo, status |-> "ok"]
    BY <2>1, <2>2 DEF Answer
  <2>4. Credentials(i) = [n \in DOMAIN Keys(i) |-> Identity(i, n)]
    BY <2>3 DEF Credentials
  <2>5. PICK n \in DOMAIN Keys(i) : Identity(i, n).key = key /\ identity = Identity(i, n)
    <3>1. DOMAIN Credentials(i) = DOMAIN Keys(i)
      BY <2>4
    <3>2. PICK n \in DOMAIN Credentials(i) :
            Credentials(i)[n].key = key /\ identity = Credentials(i)[n]
      BY <2>2, <2>3, <3>1, ResolvedIsCredential
    <3> QED
      BY <2>4, <3>1, <3>2
  <2>6. /\ answered'.by = i /\ answered'.key = Keys(i)[n].key
        /\ answered'.as = Keys(i)[n].user
        /\ answered'.demo = \E m \in DOMAIN S(i).AUTH_DEMO_USER_IDS :
                             S(i).AUTH_DEMO_USER_IDS[m] = Keys(i)[n].user
    BY <2>3, <2>5 DEF Identity
  <2>7. S(i)' = S(i)
    BY <1>2 DEF Authenticate, S
  <2> QED
    BY <2>6, <2>7 DEF PrincipalIsConfigured, Keys, S
<1>3. ASSUME NEW i \in Instances,
             \/ Start(i) \/ StartStep(i) \/ BeginShutdown(i) \/ Close(i) \/ Exit(i) \/ Crash(i)
      PROVE  answered' = answered /\ settings' = settings
  BY <1>3 DEF Start, StartStep, CreateEngine, BeginMigration, Upgrade, AuthenticatorDone, GetUser,
     AddUser, Compose, WarmUp, BeginShutdown, Close, Exit, Crash, Gone
<1> QED
  BY <1>1, <1>2, <1>3 DEF StartupNext, Recover, startupVars

\* A request is answered as a user only with a key that is configured for
\* that user, and with the user's configured demo flag, the restarts of the
\* process and the rows other processes added notwithstanding.
THEOREM PrincipalsAreConfigured == StartupSpec => []PrincipalIsConfigured
<1>1. StartupInit => PrincipalIsConfigured
  BY DEF StartupInit, NoAnswer, PrincipalIsConfigured
<1> QED
  BY <1>1, PrincipalStep, StartupInvariant, PTL DEF StartupSpec, StartupSafety
=============================================================================
