-------------------------- MODULE DemoRateLimiter --------------------------
(***************************************************************************)
(* InMemoryDemoRateLimiter.allow for one demo user (users do not share a   *)
(* deque), called by POST /ask in pool threads and without a lock.  A call *)
(* is cut where the interpreter may switch threads: each access to the     *)
(* deque is a step of its own.                                             *)
(***************************************************************************)
EXTENDS Naturals, Sequences, FiniteSets

CONSTANTS
  Threads,        \* pool threads that may be serving POST /ask for the user
  MaxRequests,    \* demo_ask_rate_limit_requests
  Window,         \* demo_ask_rate_limit_window_seconds, in ticks
  MaxClock        \* bound on the clock

ASSUME LimiterAssumption ==
  /\ IsFiniteSet(Threads)
  /\ MaxRequests \in Nat \ {0}
  /\ Window \in Nat \ {0}
  /\ MaxClock \in Nat

VARIABLES
  clock,          \* perf_counter
  timestamps,     \* the user's deque
  call,           \* per thread, the call of allow it is in
  overlapped,     \* history: has a call begun during another one?
  admitted        \* history: the calls that returned True before that

limiterVars == <<clock, timestamps, call, overlapped, admitted>>

LimiterInit ==
  /\ clock = 0
  /\ timestamps = <<>>
  /\ call = [t \in Threads |-> [pc |-> "idle", now |-> 0]]
  /\ admitted = <<>>
  /\ overlapped = FALSE

Tick ==
  /\ clock < MaxClock
  /\ clock' = clock + 1
  /\ UNCHANGED <<timestamps, call, admitted, overlapped>>

LimiterGoto(t, pc) == call' = [call EXCEPT ![t].pc = pc]

\* The question arrives; the clock is read first, and once.
EnterAllow(t) ==
  /\ call[t].pc = "idle"
  /\ call' = [call EXCEPT ![t] = [pc |-> "head", now |-> clock]]
  /\ overlapped' = (overlapped \/ \E u \in Threads : call[u].pc # "idle")
  /\ UNCHANGED <<clock, timestamps, admitted>>

\* A window that is one tick short.
ExpiredEarly(now, at) == now + 1 >= at + Window

\* now - timestamps[0] >= window_seconds
Expired(now, at) == now >= at + Window

\* The condition of the loop: `timestamps' ...
LookAtDeque(t) ==
  /\ call[t].pc = "head"
  /\ LimiterGoto(t, IF timestamps = <<>> THEN "count" ELSE "first")
  /\ UNCHANGED <<clock, timestamps, admitted, overlapped>>

\* ... and the first entry, if there still is one.  An IndexError, when there
\* is none, ends the call and the question.
LookAtHead(t) ==
  /\ call[t].pc = "first"
  /\ LimiterGoto(t, IF timestamps = <<>> THEN "idle"
                    ELSE IF Expired(call[t].now, Head(timestamps)) THEN "pop" ELSE "count")
  /\ UNCHANGED <<clock, timestamps, admitted, overlapped>>

\* A loop that looks at the head and leaves it there.
PeekExpired(t) ==
  /\ call[t].pc = "pop"
  /\ LimiterGoto(t, "head")
  /\ UNCHANGED <<clock, timestamps, admitted, overlapped>>

\* popleft: whatever is first by now, or an IndexError.
PopExpired(t) ==
  /\ call[t].pc = "pop"
  /\ IF timestamps = <<>>
       THEN LimiterGoto(t, "idle") /\ UNCHANGED timestamps
       ELSE LimiterGoto(t, "head") /\ timestamps' = Tail(timestamps)
  /\ UNCHANGED <<clock, admitted, overlapped>>

\* A limit that is one too high.
CountOneMore(t) ==
  /\ call[t].pc = "count"
  /\ LimiterGoto(t, IF Len(timestamps) > MaxRequests THEN "idle" ELSE "append")
  /\ UNCHANGED <<clock, timestamps, admitted, overlapped>>

\* The limit; at it, the answer is 429.
CountRequests(t) ==
  /\ call[t].pc = "count"
  /\ LimiterGoto(t, IF Len(timestamps) >= MaxRequests THEN "idle" ELSE "append")
  /\ UNCHANGED <<clock, timestamps, admitted, overlapped>>

Admit(now) == admitted' = IF overlapped THEN admitted ELSE Append(admitted, now)

\* An entry that is the time it expires.
AppendExpiry(t) ==
  /\ call[t].pc = "append"
  /\ timestamps' = Append(timestamps, call[t].now + Window)
  /\ Admit(call[t].now)
  /\ LimiterGoto(t, "idle")
  /\ UNCHANGED <<clock, overlapped>>

\* The request is entered and let through.
AppendRequest(t) ==
  /\ call[t].pc = "append"
  /\ timestamps' = Append(timestamps, call[t].now)
  /\ Admit(call[t].now)
  /\ LimiterGoto(t, "idle")
  /\ UNCHANGED <<clock, overlapped>>

Allow(t) ==
  LookAtDeque(t) \/ LookAtHead(t) \/ PopExpired(t) \/ CountRequests(t) \/ AppendRequest(t)

LimiterNext == Tick \/ \E t \in Threads : EnterAllow(t) \/ Allow(t)

LimiterSafety == LimiterInit /\ [][LimiterNext]_limiterVars

\* The operating system schedules the threads.
LimiterSpec == LimiterSafety /\ \A t \in Threads : WF_limiterVars(Allow(t))

-----------------------------------------------------------------------------
(* Properties.                                                             *)

\* Entries are times of the past.
LimiterTypeOK ==
  /\ clock \in Nat
  /\ timestamps \in Seq(0..clock)
  /\ call \in [Threads -> [pc : {"idle", "head", "first", "pop", "count", "append"}, now : 0..clock]]
  /\ admitted \in Seq(0..clock)
  /\ overlapped \in BOOLEAN

\* The deque outgrows the limit by what the other threads may be holding, and
\* by no more, however long calls keep overlapping.
QueueIsBounded == Len(timestamps) < MaxRequests + Cardinality(Threads)

\* The requests admitted within the window that ends at `now'.
Recent(now) == {i \in 1..Len(admitted) : now < admitted[i] + Window}

\* Until two calls overlap for the first time the limiter is exact: a request
\* is let through if and only if fewer than the limit were, within the window.
ExactAlone ==
  [][\A t \in Threads :
       ~overlapped /\ call[t].pc = "count" /\ call'[t].pc # "count" =>
         (call'[t].pc = "append" <=> Cardinality(Recent(call[t].now)) < MaxRequests)]_limiterVars

\* Every call of allow ends, also when other threads empty or fill the deque.
AllowEnds == \A t \in Threads : call[t].pc # "idle" ~> call[t].pc = "idle"

=============================================================================
