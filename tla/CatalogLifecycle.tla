-------------------------- MODULE CatalogLifecycle --------------------------
(***************************************************************************)
(* What the catalog promises about one document: it is registered as       *)
(* UPLOADED, moves along the table of CatalogService, and its row may be   *)
(* removed at any time, for good.  Each move is one atomic step here; the  *)
(* service (module Catalog) needs several transactions for it.             *)
(***************************************************************************)
CONSTANT Docs               \* document ids, each handed out once (uuid4)

VARIABLE lifecycle          \* [Docs -> Statuses \cup {"unregistered", "removed"}]

\* DocumentStatus, the values a row can hold.
Statuses == {"UPLOADED", "INGESTING", "READY", "FAILED", "DELETED"}

\* The table a hasty edit would produce: a failed document may be retried.
AllowedWithRetry(s) ==
  CASE s = "UPLOADED"  -> {"INGESTING", "FAILED"}
    [] s = "INGESTING" -> {"READY", "FAILED"}
    [] s = "READY"     -> {"DELETED"}
    [] s = "FAILED"    -> {"DELETED", "INGESTING"}
    [] OTHER           -> {}

\* CatalogService._ALLOWED_TRANSITIONS.
Allowed(s) ==
  CASE s = "UPLOADED"  -> {"INGESTING", "FAILED"}
    [] s = "INGESTING" -> {"READY", "FAILED"}
    [] s = "READY"     -> {"DELETED"}
    [] s = "FAILED"    -> {"DELETED"}
    [] OTHER           -> {}

LifecycleInit == lifecycle = [d \in Docs |-> "unregistered"]

Register(d) ==
  /\ lifecycle[d] = "unregistered"
  /\ lifecycle' = [lifecycle EXCEPT ![d] = "UPLOADED"]

Move(d, target) ==
  /\ lifecycle[d] \in Statuses
  /\ target \in Allowed(lifecycle[d])
  /\ lifecycle' = [lifecycle EXCEPT ![d] = target]

Remove(d) ==
  /\ lifecycle[d] \in Statuses
  /\ lifecycle' = [lifecycle EXCEPT ![d] = "removed"]

LifecycleNext ==
  \E d \in Docs : Register(d) \/ Remove(d) \/ \E s \in Statuses : Move(d, s)

LifecycleSpec == LifecycleInit /\ [][LifecycleNext]_lifecycle

=============================================================================
