----------------------------- MODULE MCIndexing -----------------------------
(* Indexing for TLC: small sets of documents, chunks, threads and users.   *)
(* Chunk numbers are interchangeable; documents and threads are not        *)
(* permuted, because the idle records name one of them.                    *)
EXTENDS Indexing, TLC

Interchangeable == Permutations(Pieces)
=============================================================================
