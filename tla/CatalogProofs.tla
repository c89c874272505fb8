--------------------------- MODULE CatalogProofs ---------------------------
(***************************************************************************)
(* Proofs about Catalog, for any sets of documents, threads and users: the *)
(* type invariant, owner isolation and the finality of a removal hold      *)
(* however the requests overlap.                                           *)
(***************************************************************************)
EXTENDS Catalog, TLAPS

\* What a request in flight knows about the row it is about to write, kept
\* true by every other request: its caller was allowed, its copy of the row
\* has the owner the row still has, and its target was legal for that copy.
InFlightOK ==
  \A t \in Threads :
    /\ req[t].pc # "idle" => /\ catalog[req[t].doc].status # "unregistered"
                             /\ req[t].op \in AdminOps
    /\ req[t].pc \in {"read", "write"}
         => req[t].by \in {NoUser, catalog[req[t].doc].owner}
    /\ req[t].pc = "write" /\ req[t].op # "remove"
         => req[t].seen.owner = catalog[req[t].doc].owner

CatalogInv == CatalogTypeOK /\ InFlightOK

\* A thread that serves nothing holds a request record.
LEMMA IdleType == Idle \in Request
<1>1. (CHOOSE d \in Docs : TRUE) \in Docs
  BY CatalogAssumption
<1>2. QED
  BY <1>1 DEF Idle, Request, BlankRow, Row, Owners

\* An empty catalog with idle threads satisfies the invariant.
LEMMA CatalogInitInv == CatalogInit => CatalogInv
<1> SUFFICES ASSUME CatalogInit
             PROVE  CatalogInv
  OBVIOUS
<1>1. BlankRow \in Row
  BY DEF BlankRow, Row, Owners
<1>2. CatalogTypeOK
  BY <1>1, IdleType DEF CatalogInit, CatalogTypeOK
<1>3. InFlightOK
  BY DEF CatalogInit, InFlightOK, Idle
<1>4. QED
  BY <1>2, <1>3 DEF CatalogInv

\* A request that ends without a write.
LEMMA FinishInv ==
  ASSUME CatalogInv, NEW t \in Threads, Finish(t), UNCHANGED catalog
  PROVE  CatalogInv'
<1>1. CatalogTypeOK'
  BY IdleType DEF Finish, CatalogInv, CatalogTypeOK
<1>2. ASSUME NEW u \in Threads
      PROVE  req'[u] = IF u = t THEN Idle ELSE req[u]
  BY DEF Finish, CatalogInv, CatalogTypeOK
<1>3. Idle.pc = "idle"
  BY DEF Idle
<1>4. InFlightOK'
  BY <1>2, <1>3 DEF CatalogInv, InFlightOK
<1>5. QED
  BY <1>1, <1>4 DEF CatalogInv

\* A creation touches only an id no request can name yet.
LEMMA CreateInv ==
  ASSUME CatalogInv, NEW d \in Docs, NEW p \in Principals, CreateDocument(d, p)
  PROVE  CatalogInv'
<1>1. CatalogTypeOK'
  BY DEF CatalogInv, CatalogTypeOK, CreateDocument, AddRow, Row, Owners,
         Statuses, Lifecycle!Statuses
<1>2. \A t \in Threads : req[t].pc # "idle" => catalog'[req[t].doc] = catalog[req[t].doc]
  BY DEF CatalogInv, CatalogTypeOK, InFlightOK, CreateDocument, AddRow, Request
<1>3. InFlightOK'
  BY <1>2 DEF CatalogInv, InFlightOK, CreateDocument
<1>4. QED
  BY <1>1, <1>3 DEF CatalogInv

\* A request starts with nothing looked up yet.
LEMMA DispatchInv ==
  ASSUME CatalogInv, NEW t \in Threads, NEW op \in AdminOps, NEW d \in Docs,
         NEW p \in Principals, NEW n \in ChunkCounts \cup {0}, Dispatch(t, op, d, p, n)
  PROVE  CatalogInv'
<1> DEFINE new == [pc |-> IF p = NoUser THEN "read" ELSE "owner",
                   op |-> op, doc |-> d, by |-> p, count |-> n, seen |-> BlankRow]
<1>1. new \in Request
  BY CatalogAssumption DEF Request, BlankRow, Row, Owners
<1>2. req' = [req EXCEPT ![t] = new] /\ catalog' = catalog
  BY DEF Dispatch
<1>3. CatalogTypeOK'
  BY <1>1, <1>2 DEF CatalogInv, CatalogTypeOK
<1>4. catalog[d].status # "unregistered"
  BY DEF Dispatch
<1>5. ASSUME NEW u \in Threads
      PROVE  req'[u] = IF u = t THEN new ELSE req[u]
  BY <1>2 DEF CatalogInv, CatalogTypeOK
<1>6. InFlightOK'
  BY <1>2, <1>4, <1>5 DEF CatalogInv, InFlightOK
<1>7. QED
  BY <1>3, <1>6 DEF CatalogInv

\* After _require_owner the caller is the row's owner.
LEMMA RequireOwnerInv ==
  ASSUME CatalogInv, NEW t \in Threads, RequireOwner(t)
  PROVE  CatalogInv'
<1>1. CASE OwnerMatches(t)
  <2>1. /\ req' = [req EXCEPT ![t].pc = IF req[t].op = "remove" THEN "write" ELSE "read"]
        /\ catalog' = catalog
    BY <1>1 DEF RequireOwner
  <2>2. CatalogTypeOK'
    BY <2>1 DEF CatalogInv, CatalogTypeOK, Request
  <2>3. req[t].by = catalog[req[t].doc].owner
    BY <1>1 DEF OwnerMatches
  <2>4. InFlightOK'
    BY <2>1, <2>3 DEF CatalogInv, CatalogTypeOK, InFlightOK, Request, RequireOwner
  <2>5. QED
    BY <2>2, <2>4 DEF CatalogInv
<1>2. CASE ~OwnerMatches(t)
  BY <1>2, FinishInv DEF RequireOwner
<1>3. QED
  BY <1>1, <1>2

\* After _require_entry and _validate_transition the copy is the row.
LEMMA ReadEntryInv ==
  ASSUME CatalogInv, NEW t \in Threads, ReadEntry(t)
  PROVE  CatalogInv'
<1> DEFINE ok == /\ Present(req[t].doc)
                 /\ \/ req[t].op = "remove"
                    \/ req[t].op \in Allowed(catalog[req[t].doc].status)
<1>1. CASE ok
  <2>1. /\ req' = [req EXCEPT ![t].pc = "write", ![t].seen = catalog[req[t].doc]]
        /\ catalog' = catalog /\ req[t].pc = "read"
    BY <1>1 DEF ReadEntry
  <2>2. CatalogTypeOK'
    BY <2>1 DEF CatalogInv, CatalogTypeOK, Request
  <2>3. InFlightOK'
    BY <2>1 DEF CatalogInv, CatalogTypeOK, InFlightOK, Request
  <2>4. QED
    BY <2>2, <2>3 DEF CatalogInv
<1>2. CASE ~ok
  BY <1>2, FinishInv DEF ReadEntry
<1>3. QED
  BY <1>1, <1>2

\* A write leaves every row its owner, and a removed or present row is not
\* an unregistered one.
LEMMA WriteKeepsOwner ==
  ASSUME CatalogInv, NEW t \in Threads, WriteEntry(t)
  PROVE  /\ catalog' \in [Docs -> Row]
         /\ req' = [req EXCEPT ![t] = Idle]
         /\ \A d \in Docs : /\ catalog'[d].owner = catalog[d].owner
                            /\ catalog'[d].status = "unregistered"
                                 => catalog[d].status = "unregistered"
                            /\ catalog'[d] # catalog[d] => /\ d = req[t].doc
                                                           /\ Present(d)
<1> DEFINE r == req[t]
<1>1. r \in Request /\ r.op \in AdminOps /\ r.pc = "write"
  BY DEF WriteEntry, CatalogInv, CatalogTypeOK, InFlightOK
<1>2. CASE r.op = "remove"
  <2>1. r.doc \in Docs /\ catalog \in [Docs -> Row] /\ req' = [req EXCEPT ![t] = Idle]
    BY <1>1, <1>2 DEF CatalogInv, CatalogTypeOK, Request, WriteEntry, Finish
  <2>2. catalog' = IF Present(r.doc)
                     THEN [catalog EXCEPT ![r.doc].status = "removed"]
                     ELSE catalog
    BY <1>1, <1>2 DEF WriteEntry, RemoveRow
  <2>3. QED
    BY <2>1, <2>2 DEF Row
<1>3. CASE r.op # "remove"
  <2>1. r.op \in Statuses /\ r.op # "unregistered"
    BY <1>1, <1>3, CatalogAssumption DEF Statuses, Lifecycle!Statuses
  <2>2. /\ Replacement(r) \in Row
        /\ Replacement(r).owner = r.seen.owner
        /\ Replacement(r).status = r.op
    BY <1>1, <2>1 DEF Replacement, Request, Row
  <2>3. r.seen.owner = catalog[r.doc].owner
    BY <1>1, <1>3 DEF CatalogInv, InFlightOK
  <2>4. QED
    BY <1>1, <1>3, <2>1, <2>2, <2>3
       DEF WriteEntry, UpdateRow, Finish, Present, CatalogInv, CatalogTypeOK, Request
<1>4. QED
  BY <1>2, <1>3

\* A write ends its own request and keeps what the others know.
LEMMA WriteEntryInv ==
  ASSUME CatalogInv, NEW t \in Threads, WriteEntry(t)
  PROVE  CatalogInv'
<1>1. CatalogTypeOK'
  BY WriteKeepsOwner, IdleType DEF CatalogInv, CatalogTypeOK
<1>2. ASSUME NEW u \in Threads
      PROVE  req'[u] = IF u = t THEN Idle ELSE req[u]
  BY WriteKeepsOwner DEF CatalogInv, CatalogTypeOK
<1>3. InFlightOK'
  BY <1>2, WriteKeepsOwner DEF CatalogInv, CatalogTypeOK, InFlightOK, Idle, Request
<1>4. QED
  BY <1>1, <1>3 DEF CatalogInv

\* All steps together.
LEMMA CatalogStepInv == CatalogInv /\ [CatalogNext]_catalogVars => CatalogInv'
<1> SUFFICES ASSUME CatalogInv, [CatalogNext]_catalogVars
             PROVE  CatalogInv'
  OBVIOUS
<1>1. CASE UNCHANGED catalogVars
  BY <1>1 DEF catalogVars, CatalogInv, CatalogTypeOK, InFlightOK
<1>2. CASE CatalogNext
  BY <1>2, CreateInv, DispatchInv, RequireOwnerInv, ReadEntryInv, WriteEntryInv
     DEF CatalogNext, Serve
<1>3. QED
  BY <1>1, <1>2

\* The catalog table and the requests keep their types.
THEOREM CatalogTypeCorrect == CatalogSpec => []CatalogTypeOK
<1>1. CatalogInv => CatalogTypeOK
  BY DEF CatalogInv
<1>2. QED
  BY <1>1, CatalogInitInv, CatalogStepInv, PTL DEF CatalogSpec

\* The inductive invariant of the catalog.
LEMMA CatalogInvariant == CatalogSpec => []CatalogInv
BY CatalogInitInv, CatalogStepInv, PTL DEF CatalogSpec

\* Owner isolation: a row changes only by the write of an allowed caller
\* (CatalogService._require_owner before every *_for_owner operation).
THEOREM OwnerIsolation == CatalogSpec => OnlyTheOwnerWrites
<1> DEFINE A == \A d \in Docs :
                  catalog[d].status # "unregistered" /\ catalog'[d] # catalog[d]
                    => \E t \in Threads : /\ req[t].pc = "write"
                                          /\ req[t].doc = d
                                          /\ req[t].by \in {NoUser, catalog[d].owner}
<1>1. CatalogInv /\ [CatalogNext]_catalogVars => [A]_catalogVars
  <2> SUFFICES ASSUME CatalogInv, CatalogNext
               PROVE  A
    BY DEF catalogVars
  <2>1. ASSUME NEW d \in Docs, NEW p \in Principals, CreateDocument(d, p)
        PROVE  A
    BY <2>1 DEF CreateDocument, AddRow, CatalogInv, CatalogTypeOK
  <2>2. ASSUME NEW t \in Threads, WriteEntry(t)
        PROVE  A
    <3>1. req[t].pc = "write" /\ req[t].by \in {NoUser, catalog[req[t].doc].owner}
      BY <2>2 DEF WriteEntry, CatalogInv, InFlightOK
    <3>2. QED
      BY <2>2, <3>1, WriteKeepsOwner
  <2>3. CASE UNCHANGED catalog
    BY <2>3
  <2>4. QED
    BY <2>1, <2>2, <2>3 DEF CatalogNext, Serve, Dispatch, RequireOwner, ReadEntry
<1>2. QED
  BY <1>1, CatalogInvariant, PTL DEF CatalogSpec, OnlyTheOwnerWrites

\* A removed document stays removed and a row keeps its owner, although every
\* transition writes a whole row it read earlier.
THEOREM RemovedForGood == CatalogSpec => RemovalIsFinal
<1> DEFINE A == \A d \in Docs :
                  /\ catalog[d].status = "removed" => catalog'[d] = catalog[d]
                  /\ catalog[d].status # "unregistered"
                       => catalog'[d].owner = catalog[d].owner
<1>1. CatalogInv /\ [CatalogNext]_catalogVars => [A]_catalogVars
  <2> SUFFICES ASSUME CatalogInv, CatalogNext
               PROVE  A
    BY DEF catalogVars
  <2>1. ASSUME NEW d \in Docs, NEW p \in Principals, CreateDocument(d, p)
        PROVE  A
    BY <2>1 DEF CreateDocument, AddRow, CatalogInv, CatalogTypeOK
  <2>2. ASSUME NEW t \in Threads, WriteEntry(t)
        PROVE  A
    BY <2>2, WriteKeepsOwner DEF Present, Statuses, Lifecycle!Statuses
  <2>3. CASE UNCHANGED catalog
    BY <2>3
  <2>4. QED
    BY <2>1, <2>2, <2>3 DEF CatalogNext, Serve, Dispatch, RequireOwner, ReadEntry
<1>2. QED
  BY <1>1, CatalogInvariant, PTL DEF CatalogSpec, RemovalIsFinal

-----------------------------------------------------------------------------
(* One caller at a time: nothing happens between a read and its write.     *)

\* The copy a lone request is about to write back is still the row.
FreshCopy ==
  \A t \in Threads :
    req[t].pc = "write" /\ req[t].op # "remove"
      => /\ req[t].seen = catalog[req[t].doc]
         /\ req[t].op \in Allowed(req[t].seen.status)

\* The abstract state is [d |-> catalog[d].status]: an EXCEPT on the rows is
\* an EXCEPT on the statuses.
LEMMA StatusExcept ==
  ASSUME NEW c \in [Docs -> Row], NEW d \in Docs, NEW row \in Row
  PROVE  [e \in Docs |-> [c EXCEPT ![d] = row][e].status]
           = [[e \in Docs |-> c[e].status] EXCEPT ![d] = row.status]
OBVIOUS

\* With one thread nothing comes between a read and its write.
LEMMA FreshCopyStep ==
  ASSUME CatalogInv, FreshCopy, [CatalogNext]_catalogVars,
         NEW worker, Threads = {worker}
  PROVE  FreshCopy'
<1> USE DEF CatalogInv, CatalogTypeOK, FreshCopy
<1>1. CASE UNCHANGED catalogVars
  BY <1>1 DEF catalogVars
<1>2. ASSUME NEW d \in Docs, NEW p \in Principals, CreateDocument(d, p)
      PROVE  FreshCopy'
  BY <1>2 DEF CreateDocument, AddRow, InFlightOK, Request
<1>3. ASSUME NEW t \in Threads, NEW op \in AdminOps, NEW d \in Docs,
             NEW p \in Principals, NEW n \in ChunkCounts \cup {0}, Dispatch(t, op, d, p, n)
      PROVE  FreshCopy'
  BY <1>3 DEF Dispatch
<1>4. ASSUME NEW t \in Threads, Finish(t)
      PROVE  FreshCopy'
  BY <1>4 DEF Finish, Idle
<1>5. ASSUME NEW t \in Threads, RequireOwner(t)
      PROVE  FreshCopy'
  BY <1>4, <1>5 DEF RequireOwner, Request
<1>6. ASSUME NEW t \in Threads, ReadEntry(t)
      PROVE  FreshCopy'
  BY <1>4, <1>6 DEF ReadEntry, Request
<1>7. QED
  BY <1>1, <1>2, <1>3, <1>4, <1>5, <1>6 DEF CatalogNext, Serve, WriteEntry

\* Every step of the service is a step of the promise, or a stutter.
LEMMA SerialStep ==
  ASSUME CatalogInv, FreshCopy, [CatalogNext]_catalogVars
  PROVE  [Lifecycle!LifecycleNext]_([d \in Docs |-> catalog[d].status])
<1> DEFINE life == [d \in Docs |-> catalog[d].status]
<1>1. CASE UNCHANGED catalog
  BY <1>1
<1>2. ASSUME NEW d \in Docs, NEW p \in Principals, CreateDocument(d, p)
      PROVE  Lifecycle!Register(d)
  <2> DEFINE row == [status |-> "UPLOADED", owner |-> p, chunks |-> 0]
  <2>1. row \in Row
    BY DEF Row, Owners, Statuses, Lifecycle!Statuses
  <2>2. catalog' = [catalog EXCEPT ![d] = row] /\ life[d] = "unregistered"
    BY <1>2 DEF CreateDocument, AddRow
  <2>3. QED
    BY <2>1, <2>2 DEF Lifecycle!Register, CatalogInv, CatalogTypeOK
<1>3. ASSUME NEW t \in Threads, WriteEntry(t), ~UNCHANGED catalog
      PROVE  Lifecycle!LifecycleNext
  <2> DEFINE r == req[t]
  <2>0. r \in Request /\ r.pc = "write" /\ catalog \in [Docs -> Row]
    BY <1>3 DEF WriteEntry, CatalogInv, CatalogTypeOK, Request
  <2>. PICK d \in Docs : d = r.doc
    BY <2>0 DEF Request
  <2>1. r \in Request /\ r.pc = "write" /\ d = r.doc /\ catalog \in [Docs -> Row]
    BY <2>0
  <2>2. CASE r.op = "remove"
    <3>1. Present(d) /\ catalog' = [catalog EXCEPT ![d].status = "removed"]
      BY <1>3, <2>1, <2>2 DEF WriteEntry, RemoveRow
    <3>2. life' = [life EXCEPT ![d] = "removed"]
      BY <2>1, <3>1 DEF Row
    <3>3. Lifecycle!Remove(d)
      BY <2>1, <3>1, <3>2 DEF Lifecycle!Remove, Present, Statuses
    <3>4. QED
      BY <3>3 DEF Lifecycle!LifecycleNext
  <2>3. CASE r.op # "remove"
    <3>1. Present(d) /\ catalog' = [catalog EXCEPT ![d] = Replacement(r)]
      BY <1>3, <2>1, <2>3 DEF WriteEntry, UpdateRow
    <3>2. r.op \in Statuses /\ r.op \in Allowed(catalog[d].status)
      BY <2>1, <2>3, CatalogAssumption
         DEF FreshCopy, CatalogInv, InFlightOK, Statuses, Lifecycle!Statuses
    <3>3. Replacement(r).status = r.op
      BY <2>1 DEF Replacement, Request, Row
    <3>. PICK s \in Statuses : s = r.op
      BY <3>2
    <3>4. life' = [life EXCEPT ![d] = s]
      BY <2>1, <3>1, <3>3
    <3>5. Lifecycle!Move(d, s)
      BY <2>1, <3>1, <3>2, <3>4 DEF Lifecycle!Move, Present, Statuses, Allowed
    <3>6. QED
      BY <3>5 DEF Lifecycle!LifecycleNext, Statuses
  <2>4. QED
    BY <2>2, <2>3
<1>4. QED
  BY <1>1, <1>2, <1>3
     DEF CatalogNext, catalogVars, Serve, Dispatch, RequireOwner, ReadEntry,
         Lifecycle!LifecycleNext

\* With a single serving thread the three-transaction transitions implement
\* the atomic lifecycle of CatalogLifecycle: no illegal move, no row revived.
THEOREM SerialImplementsLifecycle ==
  ASSUME NEW worker, Threads = {worker}
  PROVE  CatalogSpec => ImplementsLifecycle
<1>1. CatalogInit => FreshCopy /\ Lifecycle!LifecycleInit
  BY DEF CatalogInit, FreshCopy, Idle, BlankRow, Lifecycle!LifecycleInit
<1>2. CatalogInv /\ FreshCopy /\ [CatalogNext]_catalogVars => FreshCopy'
  BY FreshCopyStep
<1>3. CatalogInv /\ FreshCopy /\ [CatalogNext]_catalogVars
        => [Lifecycle!LifecycleNext]_([d \in Docs |-> catalog[d].status])
  BY SerialStep
<1>4. QED
  BY <1>1, <1>2, <1>3, CatalogInvariant, PTL
     DEF CatalogSpec, ImplementsLifecycle, Lifecycle!LifecycleSpec
=============================================================================
