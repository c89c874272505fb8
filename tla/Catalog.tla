------------------------------ MODULE Catalog ------------------------------
(***************************************************************************)
(* CatalogService over a catalog repository, called by the admin handlers  *)
(* of api/admin.py.  These are synchronous functions, so FastAPI runs each *)
(* request in a thread of its pool, and every repository call is a         *)
(* transaction of its own: a transition is read, validated and written     *)
(* back as a whole row with nothing held in between.                       *)
(*                                                                         *)
(* A row is [status, owner, chunks].  An id that was never registered and  *)
(* one whose row was removed are told apart by the two pseudo statuses     *)
(* "unregistered" and "removed"; neither is a row the code can read.       *)
(***************************************************************************)
EXTENDS Naturals

CONSTANTS
  Docs,           \* document ids
  Threads,        \* pool threads that may be serving an admin request
  Principals,     \* who may send a request: user ids, or NoUser
  NoUser,         \* the None principal of a deployment without authentication
  ChunkCounts,    \* the chunk_count values a request may carry
  AdminOps        \* the admin operations the clients use

ASSUME CatalogAssumption ==
  /\ Docs # {}
  /\ ChunkCounts \subseteq Nat
  /\ AdminOps \subseteq {"INGESTING", "READY", "FAILED", "DELETED", "remove"}

VARIABLES
  catalog,        \* the documents table
  req             \* per thread, the admin request it is serving

catalogVars == <<catalog, req>>

Lifecycle == INSTANCE CatalogLifecycle
  WITH lifecycle <- [d \in Docs |-> catalog[d].status]

Statuses == Lifecycle!Statuses
Allowed(s) == Lifecycle!Allowed(s)

Owners == Principals \cup {NoUser}

Row == [status : Statuses \cup {"unregistered", "removed"},
        owner  : Owners,
        chunks : Nat]

BlankRow == [status |-> "unregistered", owner |-> NoUser, chunks |-> 0]

\* A request: `op' names the target status, or "remove"; `seen' is the row
\* the service read and will write back.
Request == [pc   : {"idle", "owner", "read", "write"},
            op   : AdminOps \cup {"none"},
            doc  : Docs,
            by   : Owners,
            count : Nat,
            seen : Row]

Idle == [pc    |-> "idle", op |-> "none", doc |-> CHOOSE d \in Docs : TRUE,
         by    |-> NoUser, count |-> 0, seen |-> BlankRow]

\* repository.get(d) is not None
Present(d) == catalog[d].status \in Statuses

CatalogInit ==
  /\ catalog = [d \in Docs |-> BlankRow]
  /\ req = [t \in Threads |-> Idle]

-----------------------------------------------------------------------------
(* The repository.                                                         *)

\* add: one INSERT; the id is fresh.
AddRow(d, p) ==
  /\ catalog[d].status = "unregistered"
  /\ catalog' = [catalog EXCEPT ![d] =
                   [status |-> "UPLOADED", owner |-> p, chunks |-> 0]]

\* A repository that inserts what it cannot find.
UpsertRow(d, row) == catalog' = [catalog EXCEPT ![d] = row]

\* update: replaces every column of a row that is still there, and raises
\* when it is not.
UpdateRow(d, row) ==
  catalog' = IF Present(d) THEN [catalog EXCEPT ![d] = row] ELSE catalog

\* remove: False, and no effect, when the row is already gone.
RemoveRow(d) ==
  catalog' = IF Present(d) THEN [catalog EXCEPT ![d].status = "removed"] ELSE catalog

-----------------------------------------------------------------------------
(* The handlers.                                                           *)

Finish(t) == req' = [req EXCEPT ![t] = Idle]

\* POST /admin/documents: one repository call.
CreateDocument(d, p) ==
  /\ AddRow(d, p)
  /\ UNCHANGED req

\* A request reaches its thread.  With a principal the *_for_owner variant
\* is called, which looks at the owner first.
Dispatch(t, op, d, p, n) ==
  /\ req[t].pc = "idle"
  /\ catalog[d].status # "unregistered"
  /\ op # "READY" => n = 0
  /\ req' = [req EXCEPT ![t] =
               [pc |-> IF p = NoUser THEN "read" ELSE "owner",
                op |-> op, doc |-> d, by |-> p, count |-> n, seen |-> BlankRow]]
  /\ UNCHANGED catalog

\* _require_owner that forgets to compare the owner.
AnyOwner(t) == Present(req[t].doc)

\* The condition of _require_owner: the row exists and is the caller's.
OwnerMatches(t) ==
  /\ Present(req[t].doc)
  /\ catalog[req[t].doc].owner = req[t].by

\* _require_owner, in its own session.  remove_for_owner then goes straight
\* to the delete, the transitions read the row again.
RequireOwner(t) ==
  /\ req[t].pc = "owner"
  /\ IF OwnerMatches(t)
       THEN req' = [req EXCEPT ![t].pc = IF req[t].op = "remove" THEN "write" ELSE "read"]
       ELSE Finish(t)
  /\ UNCHANGED catalog

\* _require_entry and _validate_transition.
ReadEntry(t) ==
  LET r == req[t] IN
  /\ r.pc = "read"
  /\ IF Present(r.doc) /\ (r.op = "remove" \/ r.op \in Allowed(catalog[r.doc].status))
       THEN req' = [req EXCEPT ![t].pc = "write", ![t].seen = catalog[r.doc]]
       ELSE Finish(t)
  /\ UNCHANGED catalog

\* replace(current, ...): a copy of the row that was read, with the target
\* status; mark_ready also sets the counts.
Replacement(r) ==
  [r.seen EXCEPT !.status = r.op,
                 !.chunks = IF r.op = "READY" THEN r.count ELSE r.seen.chunks]

\* A removal sent down the transition path, as a sixth status.
WriteEntryAsStatus(t) ==
  LET r == req[t] IN
  /\ r.pc = "write"
  /\ UpdateRow(r.doc, Replacement(r))
  /\ Finish(t)

\* repository.update or repository.remove.
WriteEntry(t) ==
  LET r == req[t] IN
  /\ r.pc = "write"
  /\ IF r.op = "remove" THEN RemoveRow(r.doc) ELSE UpdateRow(r.doc, Replacement(r))
  /\ Finish(t)

Serve(t) == RequireOwner(t) \/ ReadEntry(t) \/ WriteEntry(t)

CatalogNext ==
  \/ \E d \in Docs, p \in Principals : CreateDocument(d, p)
  \/ \E t \in Threads, op \in AdminOps, d \in Docs, p \in Principals, n \in ChunkCounts \cup {0} :
       Dispatch(t, op, d, p, n)
  \/ \E t \in Threads : Serve(t)

CatalogSpec == CatalogInit /\ [][CatalogNext]_catalogVars

-----------------------------------------------------------------------------
(* Properties.                                                             *)

CatalogTypeOK ==
  /\ catalog \in [Docs -> Row]
  /\ req \in [Threads -> Request]

\* Owner isolation, however requests overlap: the row of a registered
\* document changes only by the write of a request made by its owner (or by
\* anyone where authentication is off).  The owner was looked at two
\* transactions before the write (service.py 190-199, 172-181).
OnlyTheOwnerWrites ==
  [][\A d \in Docs :
       catalog[d].status # "unregistered" /\ catalog'[d] # catalog[d]
         => \E t \in Threads : /\ req[t].pc = "write"
                               /\ req[t].doc = d
                               /\ req[t].by \in {NoUser, catalog[d].owner}]_catalogVars

\* A removed document does not come back, and a row keeps its owner, although
\* every transition rewrites the whole row from an older copy.
RemovalIsFinal ==
  [][\A d \in Docs :
       /\ catalog[d].status = "removed" => catalog'[d] = catalog[d]
       /\ catalog[d].status # "unregistered" => catalog'[d].owner = catalog[d].owner
    ]_catalogVars

\* Every status step follows the table (production-gap-audit.md line 71:
\* CatalogService enforces lifecycle transitions).
LifecycleEnforced ==
  [][\A d \in Docs :
       Present(d) /\ catalog'[d].status \in Statuses \ {catalog[d].status}
         => catalog'[d].status \in Allowed(catalog[d].status)]_catalogVars

\* What the catalog promises, for a caller at a time: CatalogLifecycle.
ImplementsLifecycle == Lifecycle!LifecycleSpec

=============================================================================
