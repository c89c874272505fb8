----------------------------- MODULE MCChunking -----------------------------
(* Chunking for TLC: every normalized page of up to MaxLength characters,  *)
(* every size up to MaxSize with every overlap.                            *)
EXTENDS Chunking, SequencesExt

MaxLength == 7
MaxSize == 5

MCTexts == {t \in BoundedSeq(Classes, MaxLength) : Normalized(t)}
MCConfigs == {c \in [size : 1..MaxSize, overlap : 0..(MaxSize - 1)] : c.overlap < c.size}
=============================================================================
