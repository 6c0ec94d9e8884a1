----------------------------- MODULE FileEdits -----------------------------
(* The agent's tool edit_file: the text to replace is looked for as it is, then *)
(* line by line without trailing blanks, then without indentation, because an   *)
(* LLM seldom quotes a file exactly.  A text is a sequence of characters, of    *)
(* which blanks and line ends matter.  A file may hold more than a text does:   *)
(* line ends of other systems and bytes that are not UTF-8.                     *)
EXTENDS Naturals, Sequences, SequencesExt, FiniteSetsExt

CONSTANTS
  Letters, Blank, LineEnd,  \* characters
  OtherLineEnd, BadByte,    \* \r\n or \r, and what is not UTF-8: only in a file
  Unknown,                  \* the letter that is read for a bad byte
  NewText,                  \* new_text
  MaxBody, MaxOld, MaxBoth, \* lengths of the file, of old_text and of both together
  MaxForeign                \* other line ends and bad bytes of the file

ASSUME FileEditsAssumption ==
  /\ MaxBody \in Nat /\ MaxOld \in Nat \ {0} /\ MaxBoth \in Nat /\ MaxForeign \in Nat
  /\ Blank # LineEnd /\ {Blank, LineEnd} \cap Letters = {}
  /\ Unknown \in Letters
  /\ OtherLineEnd # BadByte
  /\ {OtherLineEnd, BadByte} \cap (Letters \cup {Blank, LineEnd}) = {}
  /\ NewText \in Seq(ToSet(NewText))

VARIABLES
  file,  \* the file on disk
  old    \* old_text

editVars == <<file, old>>

Characters == Letters \cup {Blank, LineEnd}
Foreign == {OtherLineEnd, BadByte}

EditInit == file = <<>> /\ old = <<>>

\* The file and the text come to be, character by character.
Grows(c) == old = <<>> /\ Len(file) < MaxBody /\ file' = Append(file, c) /\ UNCHANGED old

EditNext ==
  \/ \E c \in Characters :
       \/ Grows(c)
       \/ /\ Len(old) < MaxOld /\ Len(file) + Len(old) < MaxBoth
          /\ old' = Append(old, c) /\ UNCHANGED file
  \/ \E c \in Foreign :
       /\ Cardinality({i \in DOMAIN file : file[i] \in Foreign}) < MaxForeign
       /\ Grows(c)

EditSpec == EditInit /\ [][EditNext]_editVars

\* read_text(errors="replace"), with universal newlines: what the file is read as.
body ==
  [i \in DOMAIN file |-> CASE file[i] = OtherLineEnd -> LineEnd
                          [] file[i] = BadByte -> Unknown
                          [] OTHER -> file[i]]

-----------------------------------------------------------------------------
(* Lines.                                                                  *)

\* The next character starts a line or goes on with the last one.
NextCharacter(lines, c) ==
  IF lines = <<>> \/ Last(Last(lines)) = LineEnd
  THEN Append(lines, <<c>>)
  ELSE [lines EXCEPT ![Len(lines)] = Append(@, c)]

\* splitlines(keepends=True)
LinesOf(t) ==
  LET read[i \in 0..Len(t)] ==
        IF i = 0 THEN <<>> ELSE NextCharacter(read[i - 1], t[i])
  IN read[Len(t)]

Visible(l) == {i \in DOMAIN l : l[i] \in Letters}

\* rstrip and strip of a line.
RStripped(l) == SubSeq(l, 1, Max(Visible(l) \cup {0}))
Stripped(l) == IF Visible(l) = {} THEN <<>> ELSE SubSeq(l, Min(Visible(l)), Max(Visible(l)))

RStrippedLines(t) == LET lines == LinesOf(t) IN [k \in DOMAIN lines |-> RStripped(lines[k])]
StrippedLines(t) == LET lines == LinesOf(t) IN [k \in DOMAIN lines |-> Stripped(lines[k])]

NotBlank(lines) ==
  FlattenSeq([k \in DOMAIN lines |-> IF lines[k] = <<>> THEN <<>> ELSE <<lines[k]>>])

\* What a text says, line by line, however it is indented and spaced.
Said(t) == NotBlank(StrippedLines(t))

-----------------------------------------------------------------------------
(* _fuzzy_find_and_replace.                                                *)

\* The places where p stands in s.
Occurrences(p, s) ==
  {i \in 1..(Len(s) + 1 - Len(p)) : SubSeq(s, i, i + Len(p) - 1) = p}

\* The lines found by the second strategy and, if there are none, by the third.
SameLines == Occurrences(RStrippedLines(old), RStrippedLines(body))
SaidLines == LET said == Said(old)
             IN IF said = <<>> THEN {} ELSE Occurrences(said, StrippedLines(body))

\* Mutant of LastLine: the lines that follow need not be blank.
LastLineAndMore(n) ==
  Min({Len(LinesOf(body)), Min(SaidLines) + n + 2})

\* The third strategy takes up to three blank lines that follow n lines found.
LastLine(n) ==
  LET lines == StrippedLines(body)
      last == Min(SaidLines) + n - 1
  IN Max({m \in last..Min({Len(lines), last + 3}) :
            \A k \in (last + 1)..m : lines[k] = <<>>})

\* What is replaced, and what stays before and after it.
NotFound == [found |-> "no", before |-> <<>>, named |-> <<>>, after |-> <<>>]

ByText(from) ==
  LET next == from + Len(old) IN
  [found |-> "text", before |-> SubSeq(body, 1, from - 1),
   named |-> SubSeq(body, from, next - 1), after |-> SubSeq(body, next, Len(body))]

\* "".join
ByLines(first, last) ==
  LET lines == LinesOf(body) IN
  [found |-> "lines", before |-> FlattenSeq(SubSeq(lines, 1, first - 1)),
   named |-> FlattenSeq(SubSeq(lines, first, last)),
   after |-> FlattenSeq(SubSeq(lines, last + 1, Len(lines)))]

Found ==
  LET exact == Occurrences(old, body)
      same == SameLines
      said == SaidLines
  IN IF exact # {} THEN ByText(Min(exact))
     ELSE IF same # {} THEN ByLines(Min(same), Min(same) + Len(LinesOf(old)) - 1)
     ELSE IF said # {} THEN ByLines(Min(said), LastLine(Len(Said(old))))
     ELSE NotFound

\* Lines are replaced by lines.
Replacement(how) ==
  IF how = "lines" /\ NewText # <<>> /\ Last(NewText) # LineEnd
  THEN Append(NewText, LineEnd) ELSE NewText

\* What is written, with newline="": nothing is converted back.
Updated(f) == f.before \o Replacement(f.found) \o f.after

-----------------------------------------------------------------------------
(* Properties.                                                             *)

\* A block of lines that says this, and begins and ends with some of it.
Says(block, said) ==
  /\ block # <<>> /\ block[1] # <<>> /\ Last(block) # <<>>
  /\ NotBlank(block) = said

\* Outside the part that is replaced, the file stays as it was, but for other line ends
\* and bad bytes, wherever they are.
OthersStay(f) ==
  LET written == Updated(f) IN
  /\ \A i \in 1..Len(f.before) : file[i] \in Characters => written[i] = file[i]
  /\ \A i \in (Len(f.before \o f.named) + 1)..Len(file) :
       file[i] \in Characters => written[(i + Len(written)) - Len(file)] = file[i]

\* edit_file: an edit removes what old_text says, and nothing else that is not blank; it
\* writes every other character back as it was, unless it is a line end of another system
\* or a bad byte (those are rewritten in lines nobody named, too); an edit of lines leaves
\* the other lines lines of their own; and an edit is refused only when every block of the
\* file that says the same has a blank line within.
EditsOnlyWhatIsNamed ==
  LET f == Found
      lines == StrippedLines(body)
      said == Said(old) IN
  old # <<>> =>
    IF f.found = "no"
    THEN \A i \in 1..Len(lines), j \in 1..Len(lines) :
           Says(SubSeq(lines, i, j), said) => j - i >= Len(said)
    ELSE /\ f.before \o f.named \o f.after = body
         /\ OthersStay(f)
         /\ Said(f.named) = said
         /\ f.found = "lines" =>
              LinesOf(Updated(f))
                = LinesOf(f.before) \o LinesOf(Replacement(f.found)) \o LinesOf(f.after)
=============================================================================
