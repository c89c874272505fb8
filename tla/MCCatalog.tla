----------------------------- MODULE MCCatalog -----------------------------
(* Catalog for TLC.  Requests of different threads are interchangeable.    *)
EXTENDS Catalog, TLC

Interchangeable == Permutations(Threads)
=============================================================================
