----------------------------- MODULE TextLayout -----------------------------
(***************************************************************************)
(* The greedy word wrap of wrap.rs and the geometry of the wrapped rows:   *)
(* which row a position is on, which column, and which position a row and  *)
(* a column stand for.  As in the code a position is a byte offset, and a  *)
(* row a half-open span of bytes; TextInput's cursor is a character index, *)
(* and byte_at and char_at go from one to the other.                       *)
(*                                                                         *)
(* A text is a sequence of characters, of which only the bytes, the        *)
(* columns and whether it separates words matter.  The width of a string   *)
(* is the sum of its characters' (a sequence joined into one emoji is      *)
(* narrower).  Rows are numbered from 1.                                   *)
(***************************************************************************)
EXTENDS Integers, SequencesExt

\* A letter, a wide character, one that combines with the one before, a space, a newline.
Chars == {"letter", "wide", "mark", "space", "newline"}
IsSpace(c) == c \in {"space", "newline"}
Size(c) == CASE c = "wide" -> 3 [] c = "mark" -> 2 [] OTHER -> 1
Columns(c) == CASE c = "wide" -> 2 [] c \in {"mark", "newline"} -> 0 [] OTHER -> 1

Bytes(s) ==
    LET upto[i \in 0..Len(s)] == IF i = 0 THEN 0 ELSE upto[i - 1] + Size(s[i]) IN upto[Len(s)]
Cols(s) ==
    LET upto[i \in 0..Len(s)] == IF i = 0 THEN 0 ELSE upto[i - 1] + Columns(s[i]) IN upto[Len(s)]

\* The byte offset of the first i characters' end, and back.
ByteAt(s, i) == Bytes(SubSeq(s, 1, Min({i, Len(s)})))
CharAt(s, b) == Cardinality({i \in DOMAIN s : ByteAt(s, i) <= b})
Slice(s, from, to) == SubSeq(s, CharAt(s, from) + 1, CharAt(s, to))

\* How many characters are before the run of spaces, or of others, that has character i,
\* and before the line that has the i-th position.
RunStart(s, i) == Max({0} \cup {j \in 1..(i - 1) : IsSpace(s[j]) # IsSpace(s[j + 1])})
LineStart(s, i) == Max({0} \cup {j \in 1..i : s[j] = "newline"})

(***************************************************************************)
(* The wrap of one line, run by run: the breaks so far, the columns of the *)
(* last row and the bytes passed.  upto[i] is what the first i characters  *)
(* make: those before the run that ends there, and then the run.           *)
(***************************************************************************)
Passed(acc, s) == [acc EXCEPT !.col = @ + Cols(s), !.at = @ + Bytes(s)]
FreshRow(acc) == [acc EXCEPT !.breaks = Append(@, acc.at), !.col = 0]

\* A word that fits no row is cut between characters, one to a row at least.
HardBreakWord(acc, word, width) ==
    LET upto[i \in 0..Len(word)] ==
            IF i = 0 THEN acc
            ELSE LET a == upto[i - 1] IN
                 Passed(IF a.col > 0 /\ a.col + Columns(word[i]) > width THEN FreshRow(a) ELSE a,
                        <<word[i]>>)
    IN upto[Len(word)]

\* Mutant: a word that fits no row is cut from where the row stands.
PlacedInline(acc, run, width) ==
    LET w == Cols(run) IN
    CASE IsSpace(run[1]) \/ acc.col + w <= width -> Passed(acc, run)
      [] ~IsSpace(run[1]) /\ acc.col + w > width /\ w <= width -> Passed(FreshRow(acc), run)
      [] OTHER -> HardBreakWord(acc, run, width)

\* Spaces stay on the row they follow, however wide it gets; a word goes to a row of
\* its own if it does not fit behind what is there.
Placed(acc, run, width) ==
    LET w == Cols(run) IN
    CASE IsSpace(run[1]) \/ acc.col + w <= width -> Passed(acc, run)
      [] ~IsSpace(run[1]) /\ acc.col + w > width /\ w <= width -> Passed(FreshRow(acc), run)
      [] OTHER -> HardBreakWord(IF acc.col > 0 THEN FreshRow(acc) ELSE acc, run, width)

WrapBreaks(line, width) ==
    LET upto[i \in 0..Len(line)] ==
            IF i = 0 THEN [breaks |-> <<0>>, col |-> 0, at |-> 0]
            ELSE LET j == RunStart(line, i) IN
                 Placed(upto[j], SubSeq(line, j + 1, i), Max({1, width}))
    IN upto[Len(line)].breaks

\* Every line has a row; at width 0, not yet measured, exactly one.
LineRows(line, start, width) ==
    LET breaks == IF width = 0 THEN <<0>> ELSE WrapBreaks(line, width)
    IN [i \in DOMAIN breaks |->
            [start |-> start + breaks[i],
             end |-> start + IF i < Len(breaks) THEN breaks[i + 1] ELSE Bytes(line)]]

LayoutRows(text, width) ==
    LET upto[i \in 0..Len(text)] ==
            LET s == LineStart(text, i) IN
            (IF s = 0 THEN <<>> ELSE upto[s - 1])
                \o LineRows(SubSeq(text, s + 1, i), ByteAt(text, s), width)
    IN upto[Len(text)]

(***************************************************************************)
(* Rows, columns and positions.                                            *)
(***************************************************************************)
\* Row i goes on in the next one, with no newline between them.
Seamless(rows, i) == i < Len(rows) /\ rows[i + 1].start = rows[i].end

\* The end of a row that goes on belongs to the next one.
RowOf(rows, pos) ==
    Min({i \in DOMAIN rows :
            \/ i = Len(rows)
            \/ pos < rows[i].end
            \/ pos = rows[i].end /\ ~Seamless(rows, i)})

DisplayCol(row, offset) == Cols(Slice(row, 0, offset))

\* The last offset in the row that is not beyond the column.
ByteForCol(row, target) ==
    ByteAt(row, Min({i \in 0..Len(row) : i = Len(row) \/ Cols(SubSeq(row, 1, i + 1)) > target}))

\* Mutant: the end of a row that goes on is returned as it is.
ResolveUnbacked(text, rows, r, target) ==
    rows[r].start + ByteForCol(Slice(text, rows[r].start, rows[r].end), target)

\* Backed off from the end of a row that goes on, which belongs to the next.
ResolveInRow(text, rows, r, target) ==
    LET row == Slice(text, rows[r].start, rows[r].end)
        offset == ByteForCol(row, target)
    IN rows[r].start + IF Seamless(rows, r) /\ offset = Bytes(row) /\ row # <<>>
                       THEN ByteAt(row, Len(row) - 1) ELSE offset
=============================================================================
