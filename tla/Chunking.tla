------------------------------- MODULE Chunking -------------------------------
(***************************************************************************)
(* How text becomes chunks: the token windows that are embedded for search *)
(* (chunking/chunker.py) and the character windows concepts are extracted  *)
(* from (graph/ingestion.py, TextChunker).  A text is the sizes of its     *)
(* sentences; a chunk is the interval of sentences it joins.               *)
(***************************************************************************)
EXTENDS Integers, Sequences, SequencesExt

Size(sizes, first, last) == FoldSeq(+, 0, SubSeq(sizes, first, last))

Chunk(first, last) == [first |-> first, last |-> last]

\* the first sentence of the tail kept as overlap: the longest one within the budget
TailStart(sizes, first, last, overlap) ==
  Min({last + 1} \cup {t \in first..last : Size(sizes, t, last) <= overlap})

-----------------------------------------------------------------------------
(* The search chunks.                                                      *)

\* a window closes with the sentence that fills it
Windows(sizes, window, overlap) ==
  LET Push(acc, i) ==
        IF Size(sizes, acc.first, i) >= window
        THEN [chunks |-> Append(acc.chunks, Chunk(acc.first, i)), first |-> TailStart(sizes, acc.first, i, overlap)]
        ELSE acc
      end == FoldLeft(Push, [chunks |-> <<>>, first |-> 1], [i \in DOMAIN sizes |-> i])
  IN IF end.first <= Len(sizes) THEN Append(end.chunks, Chunk(end.first, Len(sizes))) ELSE end.chunks

\* a slide or a heading that fits stays whole
SplitUnit(sizes, structured, window, overlap) ==
  IF sizes = <<>> THEN <<>>
  ELSE IF structured /\ Size(sizes, 1, Len(sizes)) <= window THEN <<Chunk(1, Len(sizes))>>
  ELSE Windows(sizes, window, overlap)

-----------------------------------------------------------------------------
(* The extraction chunks.                                                  *)

\* a chunk closes before the sentence that would overfill it, and a remainder shorter than the minimum
\* (its blanks counted) is dropped
TextChunks(sizes, limit, overlap, least) ==
  LET Push(acc, i) ==
        IF acc.first < i /\ Size(sizes, acc.first, i) > limit
        THEN [chunks |-> Append(acc.chunks, Chunk(acc.first, i - 1)),
              first |-> TailStart(sizes, acc.first, i - 1, overlap)]
        ELSE acc
      end == FoldLeft(Push, [chunks |-> <<>>, first |-> 1], [i \in DOMAIN sizes |-> i])
      length == Size(sizes, end.first, Len(sizes)) + Len(sizes) - end.first
  IN IF sizes # <<>> /\ length >= least THEN Append(end.chunks, Chunk(end.first, Len(sizes))) ELSE end.chunks

-----------------------------------------------------------------------------

\* the chunks go through the text without a gap and never back
Contiguous(chunks, last) ==
  /\ chunks # <<>> => Head(chunks).first = 1 /\ Last(chunks).last = last
  /\ \A k \in 1..(Len(chunks) - 1) :
       /\ chunks[k].first <= chunks[k + 1].first
       /\ chunks[k + 1].first <= chunks[k].last + 1

\* what two chunks share fits the budget, and is all that fits
OverlapsFit(sizes, chunks, overlap) ==
  \A k \in 1..(Len(chunks) - 1) :
    /\ Size(sizes, chunks[k + 1].first, chunks[k].last) <= overlap
    /\ \/ chunks[k + 1].first = chunks[k].first
       \/ Size(sizes, chunks[k + 1].first - 1, chunks[k].last) > overlap

\* Search finds every sentence of a text: the windows leave none out, each brings something new but
\* perhaps the last, and none is longer than the window but for the sentence that filled it.
WindowsFit(sizes, structured, window, overlap) ==
  LET chunks == SplitUnit(sizes, structured, window, overlap)
  IN /\ sizes # <<>> => chunks # <<>>
     /\ Contiguous(chunks, Len(sizes)) /\ OverlapsFit(sizes, chunks, overlap)
     /\ \A k \in DOMAIN chunks :
          /\ k < Len(chunks) => chunks[k].first < chunks[k + 1].first
          /\ k < Len(chunks) - 1 => chunks[k].last < chunks[k + 1].last
          /\ Size(sizes, chunks[k].first, chunks[k].last - 1) < window
          /\ k < Len(chunks) => Size(sizes, chunks[k].first, chunks[k].last) >= window

\* Concepts are extracted from every sentence, but those of a short remainder, which no other chunk
\* holds; no chunk is over the limit but for a sentence that alone, or with the overlap, is.
TextChunksFit(sizes, limit, overlap, least) ==
  LET chunks == TextChunks(sizes, limit, overlap, least)
      kept == IF chunks = <<>> THEN 0 ELSE Last(chunks).last
  IN /\ Contiguous(chunks, kept) /\ OverlapsFit(sizes, chunks, overlap)
     /\ Size(sizes, kept + 1, Len(sizes)) < least
     /\ \A k \in DOMAIN chunks :
          /\ k < Len(chunks) => chunks[k].last < chunks[k + 1].last
          /\ \/ Size(sizes, chunks[k].first, chunks[k].last) <= limit
             \/ Size(sizes, chunks[k].first, chunks[k].last - 1) <= overlap
=============================================================================
