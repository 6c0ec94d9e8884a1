------------------------------ MODULE Chunking ------------------------------
(* How the text of a section becomes chunks: chunk_text_with_overlap takes the *)
(* pieces that recursive_split made, in their order, and cuts a chunk when the *)
(* next piece does not fit; the last pieces of a chunk begin the next one.     *)
(* What it has accumulated is always a run of consecutive pieces, and so is a  *)
(* chunk.                                                                      *)
EXTENDS Naturals, Sequences

CONSTANTS
  ChunkSize, Overlap, MinChunk,  \* characters
  Lengths,                       \* the lengths that a piece may have
  MaxPieces

\* A single word may be longer than a chunk (recursive_split leaves it whole), and
\* nothing keeps the overlap below the size of a chunk.
ASSUME ChunkingAssumption ==
  /\ ChunkSize \in Nat /\ MaxPieces \in Nat
  /\ Overlap \in Nat /\ MinChunk \in Nat
  /\ Lengths \subseteq Nat \ {0}

VARIABLES
  pieces,  \* those read so far, each with its length and its letters
  from,    \* the first piece of current_pieces
  chunks,  \* cut so far, those that the filter rejects included
  over     \* the loop is over

chunkVars == <<pieces, from, chunks, over>>

\* A piece is prose or has no letter at all.
Piece == {[len |-> n, letters |-> n] : n \in Lengths}
         \cup {[len |-> n, letters |-> 0] : n \in Lengths}

\* Numbers a.. of s, added up as far as each place.
Totals(s, a) ==
  LET total[k \in Nat] == IF k < a THEN 0 ELSE total[k - 1] + s[k] IN total
Total(s, a, b) == Totals(s, a)[b]

Lens == [k \in DOMAIN pieces |-> pieces[k].len]
Alphas == [k \in DOMAIN pieces |-> pieces[k].letters]

\* Characters of pieces a..b with a space after each; the last space is not kept.
Spaced(a, b) == Total(Lens, a, b) + (b - a + 1)
Length(c) == Spaced(c.from, c.to) - 1

ChunkInit ==
  /\ pieces = <<>>
  /\ from = 1
  /\ chunks = <<>>
  /\ over = FALSE

-----------------------------------------------------------------------------

\* Mutant of HasEnough: only the letters are looked at.
HasLetters(c) == 10 * Total(Alphas, c.from, c.to) >= 4 * Length(c)

\* has_enough_content: 0.4 of the characters are letters.
HasEnough(c) ==
  /\ Length(c) >= MinChunk
  /\ 10 * Total(Alphas, c.from, c.to) >= 4 * Length(c)

\* " ".join(current_pieces), and whether the filter lets it pass.
Cut == LET c == [from |-> from, to |-> Len(pieces)]
       IN Append(chunks, [from |-> c.from, to |-> c.to, kept |-> HasEnough(c)])

\* The pieces that begin the next chunk: as many of the last ones as fit.
Carried ==
  CHOOSE a \in from..(Len(pieces) + 1) :
    /\ Spaced(a, Len(pieces)) <= Overlap
    /\ \A b \in from..(a - 1) : Spaced(b, Len(pieces)) > Overlap

\* Mutant of Reads: the next chunk begins after the piece that did not fit.
ReadsOver(p) ==
  /\ ~ over /\ Len(pieces) < MaxPieces
  /\ IF from <= Len(pieces) /\ Spaced(from, Len(pieces)) + p.len + 1 > ChunkSize
     THEN chunks' = Cut /\ from' = Len(pieces) + 2
     ELSE UNCHANGED <<chunks, from>>
  /\ pieces' = Append(pieces, p)
  /\ UNCHANGED over

\* One round of the loop.
Reads(p) ==
  /\ ~ over /\ Len(pieces) < MaxPieces
  /\ IF from <= Len(pieces) /\ Spaced(from, Len(pieces)) + p.len + 1 > ChunkSize
     THEN chunks' = Cut /\ from' = Carried
     ELSE UNCHANGED <<chunks, from>>
  /\ pieces' = Append(pieces, p)
  /\ UNCHANGED over

\* What is left makes the last chunk.
Ends ==
  /\ ~ over
  /\ chunks' = IF from <= Len(pieces) THEN Cut ELSE chunks
  /\ over' = TRUE
  /\ UNCHANGED <<pieces, from>>

ChunkNext == (\E p \in Piece : Reads(p)) \/ Ends

ChunkSpec == ChunkInit /\ [][ChunkNext]_chunkVars

-----------------------------------------------------------------------------
(* Properties.                                                             *)

\* Cutting and carrying skip no piece (chunks that the filter then rejects count):
\* chunks follow each other without a gap, each brings something new, and in the end
\* every piece is in one.
NoPieceLost ==
  LET n == Len(chunks) IN
  /\ n > 0 => chunks[1].from = 1
  /\ \A i \in 1..(n - 1) :
       /\ chunks[i + 1].from <= chunks[i].to + 1
       /\ chunks[i].to < chunks[i + 1].to
  /\ over /\ pieces # <<>> => n > 0 /\ chunks[n].to = Len(pieces)

\* A chunk that is kept is not repeated within the next one: all its pieces are
\* carried over only if together they are shorter than the overlap, and then
\* the filter rejects it, because min_chunk_size is larger.
NoChunkRepeated ==
  MinChunk >= Overlap =>
    \A i \in 1..(Len(chunks) - 1) :
      chunks[i].kept => chunks[i].from < chunks[i + 1].from
=============================================================================
