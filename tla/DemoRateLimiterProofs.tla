----------------------- MODULE DemoRateLimiterProofs -----------------------
(***************************************************************************)
(* Two facts about the limiter for any number of threads, any limit and    *)
(* any window: how far overlapping calls can carry the deque over the      *)
(* limit, and that without overlaps it is exact.                           *)
(***************************************************************************)
EXTENDS DemoRateLimiter, FiniteSetTheorems, SequenceTheorems, TLAPS

\* The threads that have passed the limit and not yet appended.
Appending == {t \in Threads : call[t].pc = "append"}

\* Each of them may have seen the last free place; the thread that fills it
\* frees its own part of the sum.
RoomLeft == Len(timestamps) + Cardinality(Appending) <= MaxRequests - 1 + Cardinality(Threads)

\* How many of the admitted requests have been dropped from the deque.
Dropped == Len(admitted) - Len(timestamps)

\* What holds until two calls overlap.  One call is in progress at most; ...
OneCall ==
  \A t, u \in Threads : call[t].pc # "idle" /\ call[u].pc # "idle" => t = u

\* ... the deque holds the latest admitted requests, in the order of time; ...
LatestAdmitted ==
  /\ Len(timestamps) <= Len(admitted)
  /\ \A i \in 1..Len(timestamps) : timestamps[i] = admitted[Dropped + i]
  /\ \A i, j \in 1..Len(admitted) : i < j => admitted[i] <= admitted[j]

\* ... the others had expired, also for the call that is in progress; ...
DroppedExpired ==
  \A i \in 1..Dropped :
    /\ Expired(clock, admitted[i])
    /\ \A t \in Threads : call[t].pc # "idle" => Expired(call[t].now, admitted[i])

\* ... which began after they were all admitted; ...
BegunLater ==
  \A t \in Threads : call[t].pc # "idle" =>
    \A i \in 1..Len(admitted) : admitted[i] <= call[t].now

\* ... and what it found at the head of the deque is still there.
HeadStill ==
  \A t \in Threads :
    /\ call[t].pc \in {"first", "pop"} => timestamps # <<>>
    /\ call[t].pc = "pop" => Expired(call[t].now, Head(timestamps))
    /\ call[t].pc = "count" => timestamps = <<>> \/ ~Expired(call[t].now, Head(timestamps))

Alone == OneCall /\ LatestAdmitted /\ DroppedExpired /\ BegunLater /\ HeadStill

LimiterInv == LimiterTypeOK /\ RoomLeft /\ (~overlapped => Alone)

-----------------------------------------------------------------------------

\* Which step of a call a thread takes.
LEMMA LimiterCases ==
  ASSUME [LimiterNext]_limiterVars
  PROVE  \/ Tick
         \/ \E t \in Threads : \/ EnterAllow(t) \/ LookAtDeque(t) \/ LookAtHead(t)
                               \/ PopExpired(t) \/ CountRequests(t) \/ AppendRequest(t)
         \/ UNCHANGED limiterVars
  BY DEF LimiterNext, Allow

\* A sequence over a set is one over every larger set.
LEMMA SeqOverLarger ==
  ASSUME NEW S, NEW T, S \subseteq T, NEW seq \in Seq(S)
  PROVE  seq \in Seq(T)
<1>1. Len(seq) \in Nat /\ seq \in [1..Len(seq) -> T]
  BY LenProperties
<1>2. QED
  BY <1>1

\* A thread that goes on within its call keeps its `now' and disturbs no other.
LEMMA OwnCallOnly ==
  ASSUME NEW t \in Threads, NEW pc, LimiterGoto(t, pc), LimiterTypeOK
  PROVE  /\ call'[t].pc = pc /\ call'[t].now = call[t].now
         /\ \A u \in Threads : u # t => call'[u] = call[u]
  BY DEF LimiterGoto, LimiterTypeOK

\* Every step keeps the types: a call's `now' is read from the clock, which
\* never goes back.
LEMMA LimiterTypeStep ==
  ASSUME LimiterTypeOK, [LimiterNext]_limiterVars
  PROVE  LimiterTypeOK'
<1> USE DEF LimiterTypeOK
<1>1. CASE Tick
  <2>1. clock' \in Nat /\ 0..clock \subseteq 0..clock'
    BY <1>1 DEF Tick
  <2>2. timestamps \in Seq(0..clock') /\ admitted \in Seq(0..clock')
    BY <2>1, SeqOverLarger
  <2>3. call \in [Threads -> [pc : {"idle", "head", "first", "pop", "count", "append"}, now : 0..clock']]
    BY <2>1
  <2>4. QED
    BY <1>1, <2>1, <2>2, <2>3 DEF Tick
<1>2. ASSUME NEW t \in Threads, EnterAllow(t)
      PROVE  LimiterTypeOK'
  BY <1>2 DEF EnterAllow
<1>3. ASSUME NEW t \in Threads, LookAtDeque(t) \/ LookAtHead(t) \/ CountRequests(t)
      PROVE  LimiterTypeOK'
  <2>1. UNCHANGED <<clock, timestamps, admitted, overlapped>>
    BY <1>3 DEF LookAtDeque, LookAtHead, CountRequests
  <2>2. \E pc \in {"idle", "first", "pop", "count", "append"} : LimiterGoto(t, pc)
    <3>1. LookAtDeque(t) => \E pc \in {"count", "first"} : LimiterGoto(t, pc)
      BY DEF LookAtDeque
    <3>2. LookAtHead(t) => \E pc \in {"idle", "pop", "count"} : LimiterGoto(t, pc)
      BY DEF LookAtHead
    <3>3. CountRequests(t) => \E pc \in {"idle", "append"} : LimiterGoto(t, pc)
      BY DEF CountRequests
    <3>4. QED
      BY <1>3, <3>1, <3>2, <3>3
  <2>3. PICK pc \in {"idle", "first", "pop", "count", "append"} : LimiterGoto(t, pc)
    BY <2>2
  <2>4. call' \in [Threads -> [pc : {"idle", "head", "first", "pop", "count", "append"}, now : 0..clock]]
    BY <2>3 DEF LimiterGoto
  <2>5. QED
    BY <2>1, <2>4
<1>4. ASSUME NEW t \in Threads, PopExpired(t)
      PROVE  LimiterTypeOK'
  <2>1. timestamps # <<>> => Tail(timestamps) \in Seq(0..clock)
    OBVIOUS
  <2>2. timestamps' \in Seq(0..clock)
    BY <1>4, <2>1 DEF PopExpired
  <2>3. QED
    BY <1>4, <2>2 DEF PopExpired, LimiterGoto
<1>5. ASSUME NEW t \in Threads, AppendRequest(t)
      PROVE  LimiterTypeOK'
  <2>1. call[t].now \in 0..clock
    OBVIOUS
  <2>2. timestamps' \in Seq(0..clock) /\ admitted' \in Seq(0..clock)
    BY <1>5, <2>1, AppendProperties DEF AppendRequest, Admit
  <2>3. QED
    BY <1>5, <2>2 DEF AppendRequest, LimiterGoto
<1>6. CASE UNCHANGED limiterVars
  BY <1>6 DEF limiterVars
<1>7. QED
  BY <1>1, <1>2, <1>3, <1>4, <1>5, <1>6, LimiterCases

-----------------------------------------------------------------------------

\* The waiting threads are some of the threads.
LEMMA AppendingIsFinite ==
  /\ IsFiniteSet(Appending) /\ Cardinality(Appending) \in Nat
  /\ Cardinality(Appending) <= Cardinality(Threads)
  /\ Cardinality(Threads) \in Nat
<1>1. Appending \subseteq Threads /\ IsFiniteSet(Threads)
  BY LimiterAssumption DEF Appending
<1>2. QED
  BY <1>1, FS_Subset, FS_CardinalityType

\* A thread that passes the limit has just seen the deque below it; one that
\* appends takes no more than the room it was counted with.
LEMMA RoomLeftStep ==
  ASSUME LimiterTypeOK, LimiterTypeOK', RoomLeft, [LimiterNext]_limiterVars
  PROVE  RoomLeft'
<1>0. /\ Len(timestamps) \in Nat /\ MaxRequests \in Nat \ {0}
      /\ Cardinality(Appending) \in Nat /\ Cardinality(Threads) \in Nat
      /\ Len(timestamps) + Cardinality(Appending) <= MaxRequests - 1 + Cardinality(Threads)
  BY LimiterAssumption, AppendingIsFinite DEF LimiterTypeOK, RoomLeft
<1>1. CASE UNCHANGED <<timestamps, Appending>>
  BY <1>1 DEF RoomLeft
<1>2. CASE Tick \/ UNCHANGED limiterVars
  <2>1. UNCHANGED <<timestamps, call>>
    BY <1>2 DEF Tick, limiterVars
  <2>2. Appending' = Appending
    BY <2>1 DEF Appending
  <2>3. QED
    BY <1>1, <2>1, <2>2
<1>3. ASSUME NEW t \in Threads, EnterAllow(t) \/ LookAtDeque(t) \/ LookAtHead(t)
      PROVE  RoomLeft'
  <2>1. \A u \in Threads : call'[u].pc = "append" <=> call[u].pc = "append"
    <3>1. CASE EnterAllow(t)
      BY <3>1 DEF EnterAllow, LimiterTypeOK
    <3>2. CASE LookAtDeque(t)
      <4>1. PICK pc \in {"count", "first"} : LimiterGoto(t, pc)
        BY <3>2 DEF LookAtDeque
      <4>2. QED
        BY <3>2, <4>1, OwnCallOnly DEF LookAtDeque
    <3>3. CASE LookAtHead(t)
      <4>1. PICK pc \in {"idle", "pop", "count"} : LimiterGoto(t, pc)
        BY <3>3 DEF LookAtHead
      <4>2. QED
        BY <3>3, <4>1, OwnCallOnly DEF LookAtHead
    <3>4. QED
      BY <1>3, <3>1, <3>2, <3>3
  <2>2. Appending' = Appending /\ timestamps' = timestamps
    BY <1>3, <2>1 DEF Appending, EnterAllow, LookAtDeque, LookAtHead
  <2>3. QED
    BY <1>1, <2>2
<1>4. ASSUME NEW t \in Threads, PopExpired(t)
      PROVE  RoomLeft'
  <2>1. \A u \in Threads : call'[u].pc = "append" <=> call[u].pc = "append"
    BY <1>4 DEF PopExpired, LimiterGoto, LimiterTypeOK
  <2>2. Appending' = Appending
    BY <2>1 DEF Appending
  <2>3. Len(timestamps') <= Len(timestamps) /\ Len(timestamps') \in Nat
    BY <1>4 DEF PopExpired, LimiterTypeOK
  <2>4. QED
    BY <1>0, <2>2, <2>3 DEF RoomLeft
<1>5. ASSUME NEW t \in Threads, CountRequests(t)
      PROVE  RoomLeft'
  <2>1. CASE Len(timestamps) >= MaxRequests
    <3>1. \A u \in Threads : call'[u].pc = "append" <=> call[u].pc = "append"
      BY <1>5, <2>1 DEF CountRequests, LimiterGoto, LimiterTypeOK
    <3>2. Appending' = Appending /\ timestamps' = timestamps
      BY <1>5, <3>1 DEF Appending, CountRequests
    <3>3. QED
      BY <1>1, <3>2
  <2>2. CASE ~(Len(timestamps) >= MaxRequests)
    <3>1. Len(timestamps) <= MaxRequests - 1 /\ timestamps' = timestamps
      BY <1>0, <1>5, <2>2 DEF CountRequests
    <3>2. Cardinality(Appending') \in Nat /\ Cardinality(Appending') <= Cardinality(Threads)
      <4>1. Appending' \subseteq Threads
        BY DEF Appending
      <4>2. QED
        BY <4>1, LimiterAssumption, FS_Subset, FS_CardinalityType
    <3>3. QED
      BY <1>0, <3>1, <3>2 DEF RoomLeft
  <2>3. QED
    BY <2>1, <2>2
<1>6. ASSUME NEW t \in Threads, AppendRequest(t)
      PROVE  RoomLeft'
  <2>1. t \in Appending /\ Appending' = Appending \ {t}
    BY <1>6 DEF AppendRequest, LimiterGoto, Appending, LimiterTypeOK
  <2>2. Cardinality(Appending') = Cardinality(Appending) - 1
    BY <2>1, AppendingIsFinite, FS_RemoveElement
  <2>3. Len(timestamps') = Len(timestamps) + 1
    BY <1>6 DEF AppendRequest, LimiterTypeOK
  <2>4. QED
    BY <1>0, <2>2, <2>3 DEF RoomLeft
<1>7. QED
  BY <1>2, <1>3, <1>4, <1>5, <1>6, LimiterCases

-----------------------------------------------------------------------------

\* Where only one call is in progress, its own steps leave the others idle.
LEMMA OthersIdle ==
  ASSUME NEW t \in Threads, NEW pc, LimiterGoto(t, pc), LimiterTypeOK, OneCall,
         call[t].pc # "idle"
  PROVE  /\ OneCall'
         /\ call'[t].pc = pc /\ call'[t].now = call[t].now
         /\ \A u \in Threads : u # t => call'[u].pc = "idle"
<1>1. \A u \in Threads : u # t => call'[u].pc = "idle"
  BY OwnCallOnly DEF OneCall
<1>2. QED
  BY <1>1, OwnCallOnly DEF OneCall

\* A step within a call that leaves the deque alone preserves what holds of
\* calls that do not overlap, if it knows the head of the deque when it says so.
LEMMA LookingIsAlone ==
  ASSUME NEW t \in Threads, NEW pc, LimiterGoto(t, pc), LimiterTypeOK, Alone,
         call[t].pc # "idle", UNCHANGED <<clock, timestamps, admitted>>,
         pc \in {"first", "pop"} => timestamps # <<>>,
         pc = "pop" => Expired(call[t].now, Head(timestamps)),
         pc = "count" => timestamps = <<>> \/ ~Expired(call[t].now, Head(timestamps))
  PROVE  Alone'
<1>1. /\ OneCall'
      /\ call'[t].pc = pc /\ call'[t].now = call[t].now
      /\ \A u \in Threads : u # t => call'[u].pc = "idle"
  BY OthersIdle DEF Alone
<1>2. LatestAdmitted' /\ Dropped' = Dropped
  BY DEF Alone, LatestAdmitted, Dropped
<1>3. DroppedExpired'
  <2>1. \A i \in 1..Dropped : Expired(clock, admitted[i]) /\ Expired(call[t].now, admitted[i])
    BY DEF Alone, DroppedExpired
  <2>2. \A i \in 1..Dropped : \A u \in Threads :
          call'[u].pc # "idle" => Expired(call'[u].now, admitted[i])
    BY <1>1, <2>1 DEF Expired
  <2>3. QED
    BY <1>2, <2>1, <2>2 DEF DroppedExpired, Expired
<1>4. BegunLater'
  BY <1>1 DEF Alone, BegunLater
<1>5. HeadStill'
  BY <1>1 DEF HeadStill, Expired
<1>6. QED
  BY <1>1, <1>2, <1>3, <1>4, <1>5 DEF Alone

\* Dropping the head is dropping the oldest request that is left, and the call
\* found it expired.
LEMMA PoppingIsAlone ==
  ASSUME NEW t \in Threads, PopExpired(t), LimiterTypeOK, Alone
  PROVE  Alone'
<1>1. timestamps # <<>> /\ Expired(call[t].now, Head(timestamps)) /\ call[t].pc = "pop"
  BY DEF PopExpired, Alone, HeadStill
<1>2. timestamps' = Tail(timestamps) /\ LimiterGoto(t, "head") /\ UNCHANGED <<clock, admitted>>
  BY <1>1 DEF PopExpired
<1>3. /\ OneCall'
      /\ call'[t].pc = "head" /\ call'[t].now = call[t].now
      /\ \A u \in Threads : u # t => call'[u].pc = "idle"
  BY <1>1, <1>2, OthersIdle DEF Alone
<1>4. /\ Len(timestamps) \in Nat /\ Len(timestamps) >= 1 /\ Len(admitted) \in Nat
      /\ Len(timestamps') = Len(timestamps) - 1
      /\ \A i \in 1..Len(timestamps') : timestamps'[i] = timestamps[i + 1]
      /\ Head(timestamps) = timestamps[1]
  <2>1. timestamps \in Seq(0..clock) /\ admitted \in Seq(0..clock)
    BY DEF LimiterTypeOK
  <2>2. Len(timestamps) \in Nat \ {0} /\ Len(admitted) \in Nat
    BY <1>1, <2>1, EmptySeq, LenProperties
  <2>3. Len(Tail(timestamps)) = Len(timestamps) - 1
    BY <1>1, <2>1, HeadTailProperties
  <2>4. \A i \in 1..Len(Tail(timestamps)) : Tail(timestamps)[i] = timestamps[i + 1]
    BY <1>1, <2>1, HeadTailProperties
  <2>5. QED
    BY <1>2, <2>2, <2>3, <2>4
<1>5. LatestAdmitted' /\ Dropped' = Dropped + 1
  <2>1. Dropped' = Dropped + 1 /\ Dropped \in Nat /\ Len(timestamps') \in Nat
    <3>1. Len(timestamps) <= Len(admitted) /\ admitted' = admitted
      BY <1>2 DEF Alone, LatestAdmitted
    <3>2. Len(timestamps') \in Nat
      BY <1>4
    <3>3. Dropped' = Len(admitted) - Len(timestamps')
      BY <3>1 DEF Dropped
    <3>4. QED
      BY <1>4, <3>1, <3>2, <3>3 DEF Dropped
  <2>2. \A i \in 1..Len(timestamps') : timestamps'[i] = admitted[Dropped + (i + 1)]
    BY <1>4, <2>1 DEF Alone, LatestAdmitted
  <2>3. \A i \in 1..Len(timestamps') : timestamps'[i] = admitted'[Dropped' + i]
    <3>1. \A i \in 1..Len(timestamps') : Dropped + (i + 1) = Dropped' + i
      BY <2>1
    <3>2. QED
      BY <1>2, <2>2, <3>1
  <2>4. QED
    BY <1>2, <1>4, <2>1, <2>3 DEF Alone, LatestAdmitted
<1>6. DroppedExpired'
  <2>1. Dropped \in Nat /\ Head(timestamps) = admitted[Dropped + 1]
    BY <1>4 DEF Alone, LatestAdmitted, Dropped
  <2>2. call[t].now \in 0..clock /\ clock \in Nat
    BY DEF LimiterTypeOK
  <2>3. \A i \in 1..(Dropped + 1) : Expired(call[t].now, admitted[i])
    BY <1>1, <2>1 DEF Alone, DroppedExpired
  <2>4. \A i \in 1..(Dropped + 1) : Expired(clock, admitted[i])
    <3> SUFFICES ASSUME NEW i \in 1..(Dropped + 1)
                 PROVE  Expired(clock, admitted[i])
      OBVIOUS
    <3>1. admitted[i] \in Nat
      <4>1. Dropped + 1 <= Len(admitted)
        BY <1>4 DEF Dropped
      <4>2. i \in 1..Len(admitted)
        BY <1>4, <2>1, <4>1
      <4>3. admitted[i] \in 0..clock
        BY <4>2, ElementOfSeq DEF LimiterTypeOK
      <4>4. QED
        BY <2>2, <4>3
    <3>2. QED
      BY <2>2, <2>3, <3>1, LimiterAssumption DEF Expired
  <2>5. QED
    BY <1>2, <1>3, <1>5, <2>3, <2>4 DEF DroppedExpired, Expired
<1>7. BegunLater'
  BY <1>1, <1>2, <1>3 DEF Alone, BegunLater
<1>8. HeadStill'
  BY <1>3 DEF HeadStill
<1>9. QED
  BY <1>3, <1>5, <1>6, <1>7, <1>8 DEF Alone

\* The request that is let through is the latest, and ends the one call.
LEMMA AppendingIsAlone ==
  ASSUME NEW t \in Threads, AppendRequest(t), LimiterTypeOK, Alone, ~overlapped
  PROVE  Alone'
<1> DEFINE now == call[t].now
<1>1. /\ timestamps' = Append(timestamps, now) /\ admitted' = Append(admitted, now)
      /\ LimiterGoto(t, "idle") /\ call[t].pc = "append" /\ clock' = clock
  BY DEF AppendRequest, Admit
<1>2. OneCall' /\ \A u \in Threads : call'[u].pc = "idle"
  BY <1>1, OthersIdle DEF Alone
<1>3. now \in 0..clock /\ timestamps \in Seq(0..clock) /\ admitted \in Seq(0..clock)
      /\ clock \in Nat
  BY DEF LimiterTypeOK
<1> HIDE DEF now
<1>4. /\ Len(timestamps') = Len(timestamps) + 1 /\ Len(admitted') = Len(admitted) + 1
      /\ Len(timestamps) \in Nat /\ Len(admitted) \in Nat
  BY <1>1, <1>3
<1>5. /\ timestamps'[Len(timestamps) + 1] = now
      /\ admitted'[Len(admitted) + 1] = now
      /\ \A i \in 1..Len(timestamps) : timestamps'[i] = timestamps[i]
      /\ \A i \in 1..Len(admitted) : admitted'[i] = admitted[i]
  BY <1>1, <1>3, AppendProperties
<1>6. Dropped' = Dropped /\ Dropped \in 0..Len(admitted)
  BY <1>4 DEF Alone, LatestAdmitted, Dropped
<1>7. LatestAdmitted'
  <2>1. Len(timestamps') <= Len(admitted')
    BY <1>4 DEF Alone, LatestAdmitted
  <2>2. \A i \in 1..Len(timestamps') : timestamps'[i] = admitted'[Dropped + i]
    <3> SUFFICES ASSUME NEW i \in 1..Len(timestamps')
                 PROVE  timestamps'[i] = admitted'[Dropped + i]
      OBVIOUS
    <3>1. CASE i = Len(timestamps) + 1
      <4>1. Dropped + i = Len(admitted) + 1
        BY <1>4, <3>1 DEF Dropped
      <4>2. QED
        BY <1>5, <3>1, <4>1
    <3>2. CASE i \in 1..Len(timestamps)
      <4>1. Dropped + i \in 1..Len(admitted)
        BY <1>4, <1>6, <3>2 DEF Dropped
      <4>2. QED
        BY <1>5, <3>2, <4>1 DEF Alone, LatestAdmitted
    <3>3. QED
      BY <1>4, <3>1, <3>2
  <2>3. \A i \in 1..Len(admitted) : admitted[i] <= now
    BY <1>1 DEF Alone, BegunLater, now
  <2>4. \A i, j \in 1..Len(admitted') : i < j => admitted'[i] <= admitted'[j]
    <3> SUFFICES ASSUME NEW i \in 1..Len(admitted'), NEW j \in 1..Len(admitted'), i < j
                 PROVE  admitted'[i] <= admitted'[j]
      OBVIOUS
    <3>1. i \in 1..Len(admitted) /\ admitted'[i] = admitted[i]
      BY <1>4, <1>5
    <3>2. CASE j = Len(admitted) + 1
      BY <1>5, <2>3, <3>1, <3>2
    <3>3. CASE j \in 1..Len(admitted)
      BY <1>5, <3>1, <3>3 DEF Alone, LatestAdmitted
    <3>4. QED
      BY <1>4, <3>2, <3>3
  <2>5. QED
    BY <1>6, <2>1, <2>2, <2>4 DEF LatestAdmitted
<1>8. DroppedExpired'
  <2>1. \A i \in 1..Dropped : admitted'[i] = admitted[i]
    BY <1>4, <1>5, <1>6
  <2>2. \A i \in 1..Dropped : Expired(clock', admitted'[i])
    BY <1>1, <2>1 DEF Alone, DroppedExpired
  <2>3. QED
    BY <1>2, <1>6, <2>2 DEF DroppedExpired, Expired
<1>9. BegunLater' /\ HeadStill'
  BY <1>2 DEF BegunLater, HeadStill
<1>10. QED
  BY <1>2, <1>7, <1>8, <1>9 DEF Alone

\* Calls that do not overlap: every step keeps what is known of them, and the
\* first overlap ends what is claimed.
LEMMA AloneStep ==
  ASSUME LimiterTypeOK, ~overlapped => Alone, [LimiterNext]_limiterVars, ~overlapped'
  PROVE  Alone'
<1>0. ~overlapped /\ Alone
  <2>1. CASE Tick \/ UNCHANGED limiterVars
    BY <2>1 DEF Tick, limiterVars
  <2>2. ASSUME NEW t \in Threads,
               \/ EnterAllow(t) \/ LookAtDeque(t) \/ LookAtHead(t)
               \/ PopExpired(t) \/ CountRequests(t) \/ AppendRequest(t)
        PROVE  ~overlapped
    BY <2>2 DEF EnterAllow, LookAtDeque, LookAtHead, PopExpired, CountRequests, AppendRequest
  <2>3. QED
    BY <2>1, <2>2, LimiterCases
<1>1. CASE Tick
  <2>1. UNCHANGED <<timestamps, call, admitted>> /\ clock' = clock + 1
    BY <1>1 DEF Tick
  <2>2. Dropped' = Dropped /\ Dropped \in 0..Len(admitted) /\ Len(admitted) \in Nat
    BY <1>0, <2>1 DEF Dropped, LimiterTypeOK, Alone, LatestAdmitted
  <2>3. \A i \in 1..Dropped : Expired(clock', admitted[i])
    <3> SUFFICES ASSUME NEW i \in 1..Dropped
                 PROVE  Expired(clock', admitted[i])
      OBVIOUS
    <3>1. admitted[i] \in Nat /\ clock \in Nat /\ Window \in Nat
      BY <2>2, LimiterAssumption DEF LimiterTypeOK
    <3>2. Expired(clock, admitted[i])
      BY <1>0 DEF Alone, DroppedExpired
    <3>3. QED
      BY <2>1, <3>1, <3>2 DEF Expired
  <2>4. DroppedExpired'
    BY <1>0, <2>1, <2>2, <2>3 DEF Alone, DroppedExpired, Expired
  <2>5. OneCall' /\ LatestAdmitted' /\ BegunLater' /\ HeadStill'
    BY <1>0, <2>1, <2>2 DEF Alone, OneCall, LatestAdmitted, BegunLater, HeadStill, Expired
  <2>6. QED
    BY <2>4, <2>5 DEF Alone
<1>2. ASSUME NEW t \in Threads, EnterAllow(t)
      PROVE  Alone'
  <2>1. \A u \in Threads : call[u].pc = "idle"
    BY <1>2 DEF EnterAllow
  <2>2. /\ call'[t].pc = "head" /\ call'[t].now = clock
        /\ \A u \in Threads : u # t => call'[u].pc = "idle"
    BY <1>2, <2>1 DEF EnterAllow, LimiterTypeOK
  <2>3. UNCHANGED <<clock, timestamps, admitted>> /\ Dropped' = Dropped
    BY <1>2 DEF EnterAllow, Dropped
  <2>4. OneCall' /\ LatestAdmitted' /\ HeadStill'
    BY <1>0, <2>2, <2>3 DEF Alone, OneCall, LatestAdmitted, HeadStill
  <2>5. DroppedExpired'
    BY <1>0, <2>2, <2>3 DEF Alone, DroppedExpired, Expired
  <2>6. BegunLater'
    <3>1. \A i \in 1..Len(admitted) : admitted[i] <= clock
      BY DEF LimiterTypeOK
    <3>2. QED
      BY <2>2, <2>3, <3>1 DEF BegunLater
  <2>7. QED
    BY <2>4, <2>5, <2>6 DEF Alone
<1>3. ASSUME NEW t \in Threads, LookAtDeque(t)
      PROVE  Alone'
  <2>1. PICK pc \in {"count", "first"} :
          LimiterGoto(t, pc) /\ (pc = "count" <=> timestamps = <<>>)
    BY <1>3 DEF LookAtDeque
  <2>2. QED
    BY <1>0, <1>3, <2>1, LookingIsAlone DEF LookAtDeque
<1>4. ASSUME NEW t \in Threads, LookAtHead(t)
      PROVE  Alone'
  <2>1. PICK pc \in {"idle", "pop", "count"} :
          /\ LimiterGoto(t, pc)
          /\ pc = "pop" => timestamps # <<>> /\ Expired(call[t].now, Head(timestamps))
          /\ pc = "count" => ~Expired(call[t].now, Head(timestamps))
    BY <1>4 DEF LookAtHead
  <2>2. QED
    BY <1>0, <1>4, <2>1, LookingIsAlone DEF LookAtHead
<1>5. ASSUME NEW t \in Threads, CountRequests(t)
      PROVE  Alone'
  <2>1. PICK pc \in {"idle", "append"} : LimiterGoto(t, pc)
    BY <1>5 DEF CountRequests
  <2>2. QED
    BY <1>0, <1>5, <2>1, LookingIsAlone DEF CountRequests
<1>6. ASSUME NEW t \in Threads, PopExpired(t) \/ AppendRequest(t)
      PROVE  Alone'
  BY <1>0, <1>6, PoppingIsAlone, AppendingIsAlone
<1>7. CASE UNCHANGED limiterVars
  BY <1>0, <1>7 DEF limiterVars, Alone, OneCall, LatestAdmitted, DroppedExpired, BegunLater,
                    HeadStill, Dropped, Expired
<1>8. QED
  BY <1>1, <1>2, <1>3, <1>4, <1>5, <1>6, <1>7, LimiterCases

-----------------------------------------------------------------------------

\* Before the first request there is nothing to count.
LEMMA LimiterInitInv == LimiterInit => LimiterInv
<1> SUFFICES ASSUME LimiterInit
             PROVE  LimiterInv
  OBVIOUS
<1>1. LimiterTypeOK
  <2>1. <<>> \in Seq(0..clock)
    BY EmptySeq
  <2>2. 0 \in 0..clock
    BY DEF LimiterInit
  <2>3. call \in [Threads -> [pc : {"idle", "head", "first", "pop", "count", "append"}, now : 0..clock]]
    BY <2>2 DEF LimiterInit
  <2>4. QED
    BY <2>1, <2>3 DEF LimiterInit, LimiterTypeOK
<1>2. RoomLeft
  <2>1. Appending = {}
    BY DEF LimiterInit, Appending
  <2>2. Cardinality(Appending) = 0 /\ Len(timestamps) = 0
    BY <2>1, FS_EmptySet DEF LimiterInit
  <2>3. QED
    BY <2>2, AppendingIsFinite, LimiterAssumption DEF RoomLeft
<1>3. Alone
  BY DEF LimiterInit, Alone, OneCall, LatestAdmitted, DroppedExpired, BegunLater, HeadStill, Dropped
<1>4. QED
  BY <1>1, <1>2, <1>3 DEF LimiterInv

LEMMA LimiterStepInv == LimiterInv /\ [LimiterNext]_limiterVars => LimiterInv'
  BY LimiterTypeStep, RoomLeftStep, AloneStep DEF LimiterInv

\* The invariant the theorems below rest on.
THEOREM LimiterInvariant == LimiterSpec => []LimiterInv
<1>1. LimiterSafety => []LimiterInv
  BY LimiterInitInv, LimiterStepInv, PTL DEF LimiterSafety
<1>2. QED
  BY <1>1, PTL DEF LimiterSpec

\* allow keeps times of the past, whatever the threads and the limit.
THEOREM LimiterTypeCorrect == LimiterSpec => []LimiterTypeOK
<1>1. LimiterInv => LimiterTypeOK
  BY DEF LimiterInv
<1>2. QED
  BY <1>1, LimiterInvariant, PTL

\* The deque of allow exceeds max_requests by less than the number of threads,
\* although the length is checked in one step and the entry appended in another.
THEOREM OvershootIsBounded == LimiterSpec => []QueueIsBounded
<1>1. LimiterInv => QueueIsBounded
  BY AppendingIsFinite, LimiterAssumption
     DEF LimiterInv, LimiterTypeOK, RoomLeft, QueueIsBounded
<1>2. QED
  BY <1>1, LimiterInvariant, PTL

\* What a lone call counts is what was admitted within the window.
LEMMA CountsTheRecent ==
  ASSUME LimiterTypeOK, Alone, NEW t \in Threads, call[t].pc = "count"
  PROVE  Cardinality(Recent(call[t].now)) = Len(timestamps)
<1>1. /\ Len(timestamps) \in Nat /\ Len(admitted) \in Nat /\ Len(timestamps) <= Len(admitted)
      /\ Dropped \in Nat /\ Dropped + Len(timestamps) = Len(admitted)
      /\ call[t].now \in Nat /\ Window \in Nat /\ clock \in Nat
  BY LimiterAssumption DEF Alone, LatestAdmitted, Dropped, LimiterTypeOK
<1>2. \A i \in 1..Len(admitted) : admitted[i] \in Nat
  BY DEF LimiterTypeOK
<1>3. ASSUME NEW i \in 1..Len(admitted), i <= Dropped
      PROVE  ~(call[t].now < admitted[i] + Window)
  BY <1>1, <1>2, <1>3 DEF Alone, DroppedExpired, Expired
<1>4. ASSUME NEW i \in 1..Len(admitted), i > Dropped
      PROVE  call[t].now < admitted[i] + Window
  <2>1. timestamps # <<>> /\ 1 \in 1..Len(timestamps)
    BY <1>1, <1>4
  <2>2. Head(timestamps) = timestamps[1] /\ timestamps[1] = admitted[Dropped + 1]
    BY <2>1 DEF Alone, LatestAdmitted
  <2>3. ~Expired(call[t].now, admitted[Dropped + 1])
    BY <2>1, <2>2 DEF Alone, HeadStill
  <2>4. Dropped + 1 \in 1..Len(admitted) /\ (Dropped + 1 < i \/ Dropped + 1 = i)
    BY <1>1, <1>4
  <2>5. admitted[Dropped + 1] <= admitted[i]
    <3>1. CASE Dropped + 1 = i
      BY <1>2, <3>1
    <3>2. CASE Dropped + 1 < i
      BY <2>4, <3>2 DEF Alone, LatestAdmitted
    <3>3. QED
      BY <2>4, <3>1, <3>2
  <2>6. QED
    BY <1>1, <1>2, <2>3, <2>4, <2>5 DEF Expired
<1>5. Recent(call[t].now) = (Dropped + 1)..Len(admitted)
  BY <1>1, <1>3, <1>4 DEF Recent
<1>6. Cardinality((Dropped + 1)..Len(admitted)) = Len(timestamps)
  <2>1. Dropped + 1 \in Int /\ Len(admitted) \in Int
    BY <1>1
  <2>2. Cardinality((Dropped + 1)..Len(admitted)) =
          IF Dropped + 1 > Len(admitted) THEN 0 ELSE Len(admitted) - (Dropped + 1) + 1
    BY <2>1, FS_Interval
  <2>3. QED
    BY <1>1, <2>2
<1>7. QED
  BY <1>5, <1>6

\* As long as no calls overlap, allow lets a request through exactly when the
\* sliding window has room for it.
THEOREM SlidingWindow == LimiterSpec => ExactAlone
<1> DEFINE Exactly ==
      \A t \in Threads :
        ~overlapped /\ call[t].pc = "count" /\ call'[t].pc # "count" =>
          (call'[t].pc = "append" <=> Cardinality(Recent(call[t].now)) < MaxRequests)
<1>1. LimiterInv /\ [LimiterNext]_limiterVars => [Exactly]_limiterVars
  <2> SUFFICES ASSUME LimiterInv, [LimiterNext]_limiterVars, NEW t \in Threads,
                      ~overlapped, call[t].pc = "count", call'[t].pc # "count"
               PROVE  call'[t].pc = "append" <=> Cardinality(Recent(call[t].now)) < MaxRequests
    OBVIOUS
  <2>1. LimiterTypeOK /\ Alone
    BY DEF LimiterInv
  <2>2. CountRequests(t)
    <3>1. CASE Tick \/ UNCHANGED limiterVars
      BY <3>1 DEF Tick, limiterVars
    <3>2. ASSUME NEW u \in Threads,
                 \/ EnterAllow(u) \/ LookAtDeque(u) \/ LookAtHead(u)
                 \/ PopExpired(u) \/ CountRequests(u) \/ AppendRequest(u)
          PROVE  CountRequests(t)
      <4>1. CASE u = t
        BY <3>2, <4>1 DEF EnterAllow, LookAtDeque, LookAtHead, PopExpired, CountRequests, AppendRequest
      <4>2. CASE u # t
        BY <2>1, <3>2, <4>2 DEF EnterAllow, LookAtDeque, LookAtHead, PopExpired, CountRequests,
                                AppendRequest, LimiterGoto, LimiterTypeOK
      <4>3. QED
        BY <4>1, <4>2
    <3>3. QED
      BY <3>1, <3>2, LimiterCases
  <2>3. call'[t].pc = IF Len(timestamps) >= MaxRequests THEN "idle" ELSE "append"
    BY <2>1, <2>2 DEF CountRequests, LimiterGoto, LimiterTypeOK
  <2>4. Cardinality(Recent(call[t].now)) = Len(timestamps)
    BY <2>1, CountsTheRecent
  <2>5. Len(timestamps) \in Nat /\ MaxRequests \in Nat
    BY <2>1, LimiterAssumption DEF LimiterTypeOK
  <2>6. QED
    BY <2>3, <2>4, <2>5
<1>2. LimiterSafety => [][LimiterNext]_limiterVars
  BY PTL DEF LimiterSafety
<1>3. LimiterSpec => [][Exactly]_limiterVars
  BY <1>1, LimiterInvariant, PTL DEF LimiterSpec, LimiterSafety
<1>4. QED
  BY <1>3 DEF ExactAlone

=============================================================================
