--------------------------- MODULE ChunkingProofs ---------------------------
(***************************************************************************)
(* Proofs about Chunking, for any pages and any configuration: positions   *)
(* stay within the page, no letter is lost between chunks, and cuts go     *)
(* forward when the overlap is below half the size.                        *)
(***************************************************************************)
EXTENDS Chunking, TLAPS

\* What carries EndsAdvance from one iteration to the next: the slice begins
\* at most an overlap before the last cut, which was not the end of the page.
NearLastCut ==
  ~done => /\ end - overlap <= start
           /\ end < Len(text) \/ end = 0

ChunkInv == ChunkTypeOK /\ NothingLost /\ NearLastCut

Limit == IF start + size < Len(text) THEN start + size ELSE Len(text)

\* Before the first slice nothing is covered and nothing need be.
LEMMA ChunkInitInv == ChunkInit => ChunkInv
<1> SUFFICES ASSUME ChunkInit
             PROVE  ChunkInv
  OBVIOUS
<1>1. text \in Seq(Classes) /\ size \in Nat \ {0} /\ overlap \in 0..(size - 1)
  BY ChunkingAssumption DEF ChunkInit
<1>2. ChunkTypeOK
  <2>1. Len(text) \in Nat /\ 0 \in 0..Len(text)
    BY <1>1
  <2>2. <<>> \in Seq((1..Len(text)) \X (1..Len(text)))
    OBVIOUS
  <2>3. QED
    BY <1>1, <2>1, <2>2 DEF ChunkInit, ChunkTypeOK
<1>3. NothingLost /\ NearLastCut
  BY <1>1 DEF ChunkInit, NothingLost, NearLastCut
<1>4. QED
  BY <1>2, <1>3 DEF ChunkInv

\* An iteration cuts after its start, at most at its limit, and no earlier
\* than half the size unless the page ends there.
LEMMA CutWithinLimit ==
  ASSUME ChunkTypeOK, CutChunk
  PROVE  /\ Limit \in 1..Len(text) /\ start < Limit
         /\ end' \in (start + 1)..Limit
         /\ Limit = Len(text) => end' = Len(text)
         /\ Limit # Len(text) => end' >= start + (size \div 2)
         /\ AppendChunk(start, end')
         /\ start' = IF Limit = Len(text) THEN start ELSE NextStart(start, end')
         /\ done' = (Limit = Len(text))
         /\ UNCHANGED <<text, size, overlap>>
         /\ ~done /\ start < Len(text)
<1>1. /\ start \in Nat /\ size \in Nat \ {0} /\ Len(text) \in Nat
      /\ start < Len(text)
  BY DEF ChunkTypeOK, CutChunk
<1>2. Limit \in 1..Len(text) /\ start < Limit /\ (Limit # Len(text) => Limit = start + size)
  BY <1>1 DEF Limit
<1>3. PICK b \in (start + 1)..Limit :
        /\ IsChunkEnd(start, Limit, b)
        /\ end' = b
        /\ AppendChunk(start, b)
        /\ start' = IF Limit = Len(text) THEN start ELSE NextStart(start, b)
  BY DEF CutChunk, Limit
<1>4. Limit = Len(text) => b = Len(text)
  BY <1>3 DEF IsChunkEnd
<1>5. MinimumBoundary(start) >= start + (size \div 2) /\ start + size >= start + (size \div 2)
  BY <1>1 DEF MinimumBoundary
<1>6. Limit # Len(text) => b >= MinimumBoundary(start) \/ b = Limit
  BY <1>3 DEF IsChunkEnd
<1>7. Limit # Len(text) => b >= start + (size \div 2)
  BY <1>1, <1>2, <1>3, <1>5, <1>6 DEF MinimumBoundary
<1>8. ~done /\ done' = (Limit = Len(text)) /\ UNCHANGED <<text, size, overlap>>
  BY DEF CutChunk, Limit
<1>9. QED
  BY <1>1, <1>2, <1>3, <1>4, <1>7, <1>8

\* What is appended covers every letter of the slice.
LEMMA AppendCovers ==
  ASSUME ChunkTypeOK, NEW e \in 0..Len(text), AppendChunk(start, e)
  PROVE  /\ chunks' \in Seq((1..Len(text)) \X (1..Len(text)))
         /\ \A k \in 1..Len(chunks) : k \in 1..Len(chunks') /\ chunks'[k] = chunks[k]
         /\ \A i \in (start + 1)..e : text[i] \notin Blank =>
              \E k \in 1..Len(chunks') : chunks'[k][1] <= i /\ i <= chunks'[k][2]
<1>1. /\ chunks \in Seq((1..Len(text)) \X (1..Len(text)))
      /\ start \in 0..Len(text) /\ Len(text) \in Nat
  BY DEF ChunkTypeOK
<1>2. CASE Letters(start, e) = {}
  BY <1>1, <1>2 DEF AppendChunk, Letters
<1>3. CASE Letters(start, e) # {}
  <2>1. PICK first, last \in Letters(start, e) :
          /\ \A i \in Letters(start, e) : first <= i /\ i <= last
          /\ chunks' = Append(chunks, <<first, last>>)
    BY <1>3 DEF AppendChunk
  <2>2. first \in 1..Len(text) /\ last \in 1..Len(text)
    BY <1>1, <2>1 DEF Letters
  <2>3. /\ Len(chunks') = Len(chunks) + 1
        /\ chunks'[Len(chunks) + 1] = <<first, last>>
        /\ \A k \in 1..Len(chunks) : chunks'[k] = chunks[k]
        /\ chunks' \in Seq((1..Len(text)) \X (1..Len(text)))
    BY <1>1, <2>1, <2>2
  <2>4. Len(chunks) + 1 \in 1..Len(chunks') /\ Len(chunks) \in Nat
    BY <1>1, <2>3
  <2>5. ASSUME NEW i \in (start + 1)..e, text[i] \notin Blank
        PROVE  \E k \in 1..Len(chunks') : chunks'[k][1] <= i /\ i <= chunks'[k][2]
    <3>1. i \in Letters(start, e)
      BY <2>5 DEF Letters
    <3>2. chunks'[Len(chunks) + 1][1] <= i /\ i <= chunks'[Len(chunks) + 1][2]
      BY <2>1, <2>3, <3>1
    <3>3. QED
      BY <2>4, <3>2
  <2>6. \A k \in 1..Len(chunks) : k \in 1..Len(chunks')
    BY <1>1, <2>3
  <2>7. QED
    BY <2>3, <2>5, <2>6
<1>4. QED
  BY <1>2, <1>3

\* The next slice begins after this one did and no later than the cut.
LEMMA NextStartBounds ==
  ASSUME ChunkTypeOK, NEW e \in (start + 1)..Len(text)
  PROVE  /\ NextStart(start, e) \in (start + 1)..e
         /\ e - overlap <= NextStart(start, e)
BY DEF ChunkTypeOK, NextStart

\* One iteration of the loop.
LEMMA CutPreserves ==
  ASSUME ChunkInv, CutChunk
  PROVE  ChunkInv'
<1>1. /\ ChunkTypeOK /\ NothingLost /\ NearLastCut
      /\ start \in 0..Len(text) /\ end \in 0..Len(text) /\ Len(text) \in Nat
      /\ size \in Nat \ {0} /\ overlap \in 0..(size - 1)
  BY DEF ChunkInv, ChunkTypeOK
<1>2. /\ Limit \in 1..Len(text)
      /\ end' \in (start + 1)..Limit
      /\ Limit = Len(text) => end' = Len(text)
      /\ start' = IF Limit = Len(text) THEN start ELSE NextStart(start, end')
      /\ done' = (Limit = Len(text))
      /\ UNCHANGED <<text, size, overlap>>
  BY <1>1, CutWithinLimit
<1>3. end' \in (start + 1)..Len(text) /\ end' \in 0..Len(text)
  BY <1>1, <1>2
<1>4. start' \in 0..end' /\ (Limit # Len(text) => end' - overlap <= start')
  <2>1. CASE Limit = Len(text)
    BY <1>1, <1>2, <1>3, <2>1
  <2>2. CASE Limit # Len(text)
    <3>1. PICK e \in (start + 1)..Len(text) : end' = e
      BY <1>3
    <3>2. NextStart(start, e) \in (start + 1)..e /\ e - overlap <= NextStart(start, e)
      BY <1>1, NextStartBounds
    <3>3. QED
      BY <1>1, <1>2, <2>2, <3>1, <3>2
  <2>3. QED
    BY <2>1, <2>2
<1>5. /\ chunks' \in Seq((1..Len(text)) \X (1..Len(text)))
      /\ \A k \in 1..Len(chunks) : k \in 1..Len(chunks') /\ chunks'[k] = chunks[k]
      /\ \A i \in (start + 1)..end' : text[i] \notin Blank =>
           \E k \in 1..Len(chunks') : chunks'[k][1] <= i /\ i <= chunks'[k][2]
  BY <1>1, <1>3, CutWithinLimit, AppendCovers
<1>6. ChunkTypeOK'
  BY <1>1, <1>2, <1>3, <1>4, <1>5 DEF ChunkTypeOK
<1>7. ASSUME NEW i \in 1..end', text[i] \notin Blank
      PROVE  \E k \in 1..Len(chunks') : chunks'[k][1] <= i /\ i <= chunks'[k][2]
  <2>1. CASE i <= start
    <3>1. i \in 1..end
      BY <1>1, <1>3, <2>1 DEF NothingLost
    <3>2. PICK k \in 1..Len(chunks) : chunks[k][1] <= i /\ i <= chunks[k][2]
      BY <1>1, <1>7, <3>1 DEF NothingLost
    <3>3. QED
      BY <1>5, <3>2
  <2>2. CASE ~(i <= start)
    BY <1>1, <1>3, <1>5, <1>7, <2>2
  <2>3. QED
    BY <2>1, <2>2
<1>8. start' <= end' /\ (done' => end' = Len(text)') /\ text' = text
  <2>1. text' = text /\ (done' => Limit = Len(text))
    BY <1>2
  <2>2. start' <= end' /\ (Limit = Len(text) => end' = Len(text))
    BY <1>1, <1>2, <1>3, <1>4
  <2>3. QED
    BY <2>1, <2>2
<1>9. NothingLost'
  BY <1>7, <1>8 DEF NothingLost
<1>10. ~done' => end' - overlap' <= start' /\ end' < Len(text)'
  <2>1. SUFFICES ASSUME ~done'
                 PROVE  end' - overlap <= start' /\ end' < Len(text)
    BY <1>2
  <2>2. Limit # Len(text)
    BY <1>2, <2>1
  <2>3. Limit < Len(text) /\ Limit \in Nat
    BY <1>1, <1>2, <2>2
  <2>4. QED
    BY <1>1, <1>2, <1>4, <2>2, <2>3
<1>11. NearLastCut'
  BY <1>10 DEF NearLastCut
<1>12. QED
  BY <1>6, <1>9, <1>11 DEF ChunkInv

\* The invariant all of the theorems below rest on.
THEOREM ChunkInvariant == ChunkSafety => []ChunkInv
<1>1. ChunkInv /\ UNCHANGED chunkVars => ChunkInv'
  BY DEF ChunkInv, ChunkTypeOK, NothingLost, NearLastCut, chunkVars
<1>2. ChunkInv /\ [ChunkNext]_chunkVars => ChunkInv'
  BY <1>1, CutPreserves DEF ChunkNext
<1>3. QED
  BY <1>2, ChunkInitInv, PTL DEF ChunkSafety

\* Positions stay within the page and chunks are pairs of positions.
THEOREM ChunkTypeCorrect == ChunkSafety => []ChunkTypeOK
<1>1. ChunkInv => ChunkTypeOK
  BY DEF ChunkInv
<1>2. QED
  BY <1>1, ChunkInvariant, PTL

\* Every character that is not blank ends up in a chunk, for every page, size
\* and overlap the configuration admits.
THEOREM EveryLetterKept == ChunkSafety => []NothingLost
<1>1. ChunkInv => NothingLost
  BY DEF ChunkInv
<1>2. QED
  BY <1>1, ChunkInvariant, PTL

\* Each cut is past the one before when the overlap is below half the size.
THEOREM CutsAdvance == ChunkSafety => EndsAdvance
<1>1. ASSUME ChunkInv, CutChunk, overlap < size \div 2
      PROVE  end' > end
  <2>1. /\ ChunkTypeOK /\ NearLastCut
        /\ start \in Nat /\ end \in Nat /\ Len(text) \in Nat
        /\ size \in Nat \ {0} /\ overlap \in Nat
    BY <1>1 DEF ChunkInv, ChunkTypeOK
  <2>2. /\ Limit \in 1..Len(text) /\ end' \in (start + 1)..Limit
        /\ Limit = Len(text) => end' = Len(text)
        /\ Limit # Len(text) => end' >= start + (size \div 2)
        /\ ~done
    BY <1>1, <2>1, CutWithinLimit
  <2>3. CASE Limit = Len(text)
    BY <2>1, <2>2, <2>3 DEF NearLastCut
  <2>4. CASE Limit # Len(text)
    <3>1. end' > start + overlap
      BY <1>1, <2>1, <2>2, <2>4
    <3>2. QED
      BY <2>1, <2>2, <3>1 DEF NearLastCut
  <2>5. QED
    BY <2>3, <2>4
<1>2. ChunkInv /\ [ChunkNext]_chunkVars => [overlap < size \div 2 => end' > end]_chunkVars
  BY <1>1 DEF ChunkNext
<1>3. QED
  BY <1>2, ChunkInvariant, PTL DEF ChunkSafety, EndsAdvance

=============================================================================
