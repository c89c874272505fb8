------------------------------ MODULE Chunking ------------------------------
(***************************************************************************)
(* chunk_document: the loop that cuts one normalized page into overlapping *)
(* chunks.  Pages are cut one after the other, each on its own; only the   *)
(* numbering of the chunks goes on from page to page, which is left out.   *)
(*                                                                         *)
(* A character is of one of four classes, which is all the loop looks at.  *)
(* Positions count from 1: text[start:end] is start + 1 .. end here.       *)
(***************************************************************************)
EXTENDS Integers, Sequences, FiniteSetsExt

Classes == {"word", "stop", "space", "newline"}
Blank == {"space", "newline"}

\* What _normalize_text leaves: lines without outer or double spaces, at most
\* one empty line in a row, no blank at either end, and something in between.
Normalized(text) ==
  /\ text # <<>>
  /\ text[1] \notin Blank /\ text[Len(text)] \notin Blank
  /\ \A i \in 1..(Len(text) - 1) :
       text[i] \in Blank /\ text[i + 1] \in Blank => text[i] = "newline" /\ text[i + 1] = "newline"
  /\ \A i \in 1..(Len(text) - 2) : \E j \in i..(i + 2) : text[j] # "newline"

CONSTANTS
  Texts,          \* the pages
  Configs         \* the ChunkingConfigs

ASSUME ChunkingAssumption ==
  /\ Texts \subseteq Seq(Classes)
  /\ \A c \in Configs : c.size \in Nat \ {0} /\ c.overlap \in 0..(c.size - 1)

VARIABLES
  text, size, overlap,    \* the arguments
  start, end,             \* the slice of this iteration; end is that of the last
  chunks,                 \* chunks so far, each by its first and last character
  done

chunkVars == <<text, size, overlap, start, end, chunks, done>>

ChunkInit ==
  /\ text \in Texts
  /\ \E c \in Configs : size = c.size /\ overlap = c.overlap
  /\ start = 0 /\ end = 0
  /\ chunks = <<>>
  /\ done = FALSE

-----------------------------------------------------------------------------
(* _select_chunk_end.                                                      *)

\* The ends of the matches of "\n\n", "\n", [.!?]\s+ and " " within s + 1 .. e.
\* The blanks after a stop are taken up to the first that is none, or to e.
ParagraphEnds(s, e) == {b \in (s + 2)..e : text[b - 1] = "newline" /\ text[b] = "newline"}
NewlineEnds(s, e)   == {b \in (s + 1)..e : text[b] = "newline"}
SentenceEnds(s, e)  == {b \in (s + 2)..e :
                          /\ b < e => text[b + 1] \notin Blank
                          /\ \E i \in (s + 1)..(b - 1) :
                               /\ text[i] = "stop"
                               /\ \A j \in (i + 1)..b : text[j] \in Blank}
SpaceEnds(s, e)     == {b \in (s + 1)..e : text[b] = "space"}

\* The kinds of boundary, the preferred one first.
BoundaryEnds(s, e) ==
  <<ParagraphEnds(s, e), NewlineEnds(s, e), SentenceEnds(s, e), SpaceEnds(s, e)>>

MinimumBoundary(s) == s + (IF size < 4 THEN 1 ELSE size \div 2)

\* Any boundary will do.
IsEndAnywhere(s, e, b) ==
  \/ e = Len(text) /\ b = e
  \/ e # Len(text) /\ b \in UNION {BoundaryEnds(s, e)[k] : k \in 1..4} \cup {e}

\* The latest boundary of the first kind whose latest is not below the
\* minimum; at the end of the page, and without a boundary, the limit.
IsChunkEnd(s, e, b) ==
  LET ends(k) == {x \in BoundaryEnds(s, e)[k] : x >= MinimumBoundary(s)} IN
  \/ e = Len(text) /\ b = e
  \/ /\ e # Len(text)
     /\ \/ \E k \in 1..4 : /\ \A j \in 1..(k - 1) : ends(j) = {}
                           /\ b \in ends(k)
                           /\ \A x \in ends(k) : x <= b
        \/ (\A k \in 1..4 : ends(k) = {}) /\ b = e

-----------------------------------------------------------------------------
(* The loop.                                                               *)

\* What strip() leaves of a slice lies between its first and last letter; nothing
\* is appended for a slice of blanks.
Letters(s, e) == {i \in (s + 1)..e : text[i] \notin Blank}

AppendChunk(s, e) ==
  IF Letters(s, e) = {}
    THEN UNCHANGED chunks
    ELSE \E first, last \in Letters(s, e) :
           /\ \A i \in Letters(s, e) : first <= i /\ i <= last
           /\ chunks' = Append(chunks, <<first, last>>)

\* The overlap taken off without looking at where the chunk began.
NextStartUnguarded(s, e) == e - overlap

\* A bound that lets the next chunk begin where this one did.
NextStartNotBefore(s, e) == IF e - overlap > s THEN e - overlap ELSE s

\* One character skipped between chunks that do not overlap.
NextStartPastEnd(s, e) == IF overlap = 0 THEN e + 1 ELSE e - overlap

\* max(end - overlap, start + 1); starts grow, so the second test, against
\* previous_start, never applies.
NextStart(s, e) == IF e - overlap > s + 1 THEN e - overlap ELSE s + 1

\* One iteration of the while loop.
CutChunk ==
  LET limit == IF start + size < Len(text) THEN start + size ELSE Len(text) IN
  /\ ~done /\ start < Len(text)
  /\ \E b \in (start + 1)..limit :
       /\ IsChunkEnd(start, limit, b)
       /\ end' = b
       /\ AppendChunk(start, b)
       /\ start' = IF limit = Len(text) THEN start ELSE NextStart(start, b)
  /\ done' = (limit = Len(text))
  /\ UNCHANGED <<text, size, overlap>>

ChunkNext == CutChunk

ChunkSafety == ChunkInit /\ [][ChunkNext]_chunkVars

\* The loop is sequential code: it takes its next step.
ChunkSpec == ChunkSafety /\ WF_chunkVars(ChunkNext)

-----------------------------------------------------------------------------
(* Properties.                                                             *)

ChunkTypeOK ==
  /\ text \in Seq(Classes)
  /\ size \in Nat \ {0} /\ overlap \in 0..(size - 1)
  /\ start \in 0..Len(text) /\ end \in 0..Len(text)
  /\ chunks \in Seq((1..Len(text)) \X (1..Len(text)))
  /\ done \in BOOLEAN

\* No letter of the page is lost between chunks: whatever the boundaries and
\* the overlap, everything up to the last cut that is not blank is in a chunk,
\* and in the end the cut is the end of the page.
NothingLost ==
  /\ start <= end
  /\ done => end = Len(text)
  /\ \A i \in 1..end : text[i] \notin Blank =>
       \E k \in 1..Len(chunks) : chunks[k][1] <= i /\ i <= chunks[k][2]

\* With an overlap below half the size, as by default, each cut is past the
\* last one: no chunk lies within another, whatever boundary was preferred.
EndsAdvance == [][overlap < size \div 2 => end' > end]_chunkVars

\* Every page is cut to its end, also with an overlap just below the size.
ChunkingEnds == <>done

=============================================================================
