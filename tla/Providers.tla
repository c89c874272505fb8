----------------------------- MODULE Providers ------------------------------
(***************************************************************************)
(* One call of a model provider: the query embedder, the reranker or the   *)
(* language model of a question (embeddings/, reranking/, generation/), and*)
(* the retries of the calls to Gemini (gemini_retry.py).                   *)
(*                                                                         *)
(* A provider object is shared by the pool threads and creates its client, *)
(* or loads its model, when a call first finds it has none: it looks and   *)
(* stores in two steps.  Times are in milliseconds.                        *)
(***************************************************************************)
EXTENDS Integers, Sequences, FiniteSets

CONSTANTS
  Threads,          \* threads of the server's pool
  Deployments,      \* which provider each role may have: [Roles -> Kinds]
  ProviderErrors,   \* what a call may raise: [status: 0 or a code, kind: ...]
  MaxAttempts,      \* GeminiRetryPolicy.max_attempts
  None

Roles == {"embedding", "reranker", "llm"}
Kinds == {"none", "local", "gemini", "openrouter"}

ASSUME ProvidersAssumption ==
  /\ MaxAttempts \in Nat \ {0}
  /\ IsFiniteSet(Threads) /\ Threads # {}
  /\ None \notin Roles
  /\ Deployments \subseteq [Roles -> Kinds]
  /\ ProviderErrors \subseteq [status : Nat, kind : {"timeout", "transport", "other"}]

VARIABLES
  uses,     \* the provider of each role, fixed by the settings
  loaded,   \* per role, _client or _model is set
  loads,    \* per role, how often one was created
  call      \* per thread, its call in progress

providerVars == <<uses, loaded, loads, call>>

NoCall == [pc |-> "none", role |-> None, attempt |-> 0, error |-> None, waited |-> 0]

\* container.warm_up has loaded the reranker's model before the first call;
\* OpenRouter has no client.
ProvidersInit ==
  /\ uses \in Deployments
  /\ loaded = [role \in Roles |-> role = "reranker" \/ uses[role] = "openrouter"]
  /\ loads = [role \in Roles |-> IF role = "reranker" /\ uses[role] = "local" THEN 1 ELSE 0]
  /\ call = [t \in Threads |-> NoCall]

Becomes(t, pc) == call' = [call EXCEPT ![t].pc = pc]
Provider(t) == uses[call[t].role]

BeginCall(t, role) ==
  /\ call[t] = NoCall
  /\ call' = [call EXCEPT ![t] = [NoCall EXCEPT !.pc = "send", !.role = role, !.attempt = 1]]
  /\ UNCHANGED <<uses, loaded, loads>>

\* _get_client, _get_model find none.
FindNoClient(t) ==
  /\ call[t].pc = "send" /\ ~loaded[call[t].role]
  /\ Becomes(t, "load")
  /\ UNCHANGED <<uses, loaded, loads>>

\* Mutant: the new client is not stored.
LoadForThisCall(t) ==
  /\ call[t].pc = "load"
  /\ loads' = [loads EXCEPT ![call[t].role] = @ + 1]
  /\ Becomes(t, "send")
  /\ UNCHANGED <<uses, loaded>>

\* One is created and stored, whatever another thread has stored meanwhile.
LoadClient(t) ==
  /\ call[t].pc = "load"
  /\ loaded' = [loaded EXCEPT ![call[t].role] = TRUE]
  /\ loads' = [loads EXCEPT ![call[t].role] = @ + 1]
  /\ Becomes(t, "send")
  /\ UNCHANGED uses

Sends(t) == call[t].pc = "send" /\ loaded[call[t].role]

\* The checks of a response: a text that is not blank, a vector for each
\* request, a score for each passage.  One that fails them is not asked again.
Respond(t) ==
  /\ Sends(t)
  /\ \E pc \in {"returned", "raised"} : Becomes(t, pc)
  /\ UNCHANGED <<uses, loaded, loads>>

TransientStatus == {429, 503}
PermanentStatus == {400, 401, 403}

\* Mutant: the name of the exception is looked at before its status.
TransientByName(error) ==
  error.kind \in {"timeout", "transport"} \/ error.status \in TransientStatus

\* _is_transient_failure: the status decides before the name.
Transient(error) ==
  /\ error.status \notin PermanentStatus
  /\ error.status \in TransientStatus \/ error.kind \in {"timeout", "transport"}

\* The creation of a client is within what is retried.
MayRaise(t) == Sends(t) \/ call[t].pc = "load"

\* call_with_gemini_retries retries; the other providers raise at once.
Retries(t, error) ==
  Provider(t) = "gemini" /\ Transient(error) /\ call[t].attempt < MaxAttempts

RetryError(t) ==
  /\ MayRaise(t)
  /\ \E error \in ProviderErrors :
       /\ Retries(t, error)
       /\ call' = [call EXCEPT ![t].error = error, ![t].pc = "sleep"]
  /\ UNCHANGED <<uses, loaded, loads>>

RaiseError(t) ==
  /\ MayRaise(t)
  /\ \E error \in ProviderErrors : ~Retries(t, error)
  /\ Becomes(t, "raised")
  /\ UNCHANGED <<uses, loaded, loads>>

\* min(_MAX_DELAY_SECONDS, _BASE_DELAY_SECONDS * 2 ** (attempt - 1)): the
\* maximum from the third pause on.
BaseDelay(attempt) == IF attempt < 3 THEN 500 * 2^(attempt - 1) ELSE 2000

\* Mutant: the retried call starts over.
SleepAnew(t) ==
  /\ call[t].pc = "sleep"
  /\ call' = [call EXCEPT ![t] = [NoCall EXCEPT !.pc = "send", !.role = call[t].role,
                                               !.attempt = 1]]
  /\ UNCHANGED <<uses, loaded, loads>>

\* _retry_delay_seconds, with the least and the most jitter.
Sleep(t) ==
  /\ call[t].pc = "sleep"
  /\ \E jitter \in {0, BaseDelay(call[t].attempt) \div 4} :
       call' = [call EXCEPT ![t].waited = @ + BaseDelay(call[t].attempt) + jitter,
                            ![t].attempt = @ + 1,
                            ![t].error = None,
                            ![t].pc = "send"]
  /\ UNCHANGED <<uses, loaded, loads>>

ProviderStep(t) ==
  \/ FindNoClient(t) \/ LoadClient(t)
  \/ Respond(t) \/ RetryError(t) \/ RaiseError(t) \/ Sleep(t)

-----------------------------------------------------------------------------
\* A failure that a repetition cannot cure (status 400, 401 or 403, under any
\* exception class) is not repeated, nor is one of a provider without retries;
\* there are at most max_attempts requests, and the pauses before the n-th add
\* up to at most 0.5 + 1 + 2 + 2 + ... seconds and a quarter of them.
CallsAreBounded ==
  \A t \in Threads :
    LET c == call[t]
    IN  /\ c.attempt <= MaxAttempts
        /\ c.attempt > 1 =>
             /\ Provider(t) = "gemini"
             /\ c.waited <= IF c.attempt = 2 THEN 625 ELSE 1875 + 2500 * (c.attempt - 3)
        /\ c.pc = "sleep" => c.error.status \notin {400, 401, 403}

\* Threads that find no client at the same time each create one, but however
\* long the provider is used, no more clients are created than there are threads.
LoadsAreBounded == \A role \in Roles : loads[role] <= Cardinality(Threads)
=============================================================================
