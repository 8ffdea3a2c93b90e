---------------------------- MODULE ComposerText ----------------------------
(***************************************************************************)
(* The composer's text (composer.rs, textinput.rs) as the user edits it in *)
(* a pane that is drawn after every step: the text, the cursor in it, the  *)
(* column a run of vertical moves steers for, and the rows on screen,      *)
(* which scroll once there are more than the pane may have.  What the text *)
(* is sent as, and to whom, is in Cockpit.                                 *)
(***************************************************************************)
EXTENDS TextLayout

CONSTANTS
    MaxComposerRows,  \* MAX_COMPOSER_ROWS
    Typed,            \* the characters the user types
    OwnTexts,         \* the texts of the user's messages, which an edit brings back
    Widths,           \* the widths the pane may get, in columns
    MaxLength         \* bound: characters in the composer, to type one more

ASSUME ComposerAssumption ==
    /\ MaxComposerRows \in Nat \ {0} /\ MaxLength \in Nat
    /\ Typed \subseteq Chars /\ OwnTexts \subseteq Seq(Chars)
    /\ Widths \subseteq Nat \ {0} /\ Widths # {}

VARIABLES
    text,    \* TextInput.text
    cursor,  \* TextInput.cursor, a character index
    goal,    \* Composer.goal_col; NoGoal for none
    width,   \* composer_inner_width, of the pane last drawn
    \* Ghost.
    run      \* the column in which a run of vertical moves began, NoRun or Resized

textVars == <<text, cursor, goal, width, run>>

NoGoal == -1
NoRun == -1
Resized == -2   \* the pane changed under the run

TextInit ==
    /\ text = <<>> /\ cursor = 0 /\ goal = NoGoal /\ run = NoRun
    /\ width \in Widths

(***************************************************************************)
(* The frame.                                                              *)
(***************************************************************************)
Rows == LayoutRows(text, width)
CursorByte == ByteAt(text, cursor)
CursorRow(rows) == RowOf(rows, CursorByte)
RowText(row) == Slice(text, row.start, row.end)
CursorCol(rows) ==
    LET row == rows[CursorRow(rows)] IN DisplayCol(RowText(row), CursorByte - row.start)

\* The pane grows with the text, up to a point (pane_layout).
VisibleRows(rows) == Min({Max({1, Len(rows)}), MaxComposerRows})

\* The rows scrolled away above: as many as the cursor's row needs.
ComposerScroll(rows) ==
    IF Len(rows) <= VisibleRows(rows) THEN 0
    ELSE Min({Max({0, CursorRow(rows) - VisibleRows(rows)}), Len(rows) - VisibleRows(rows)})

(***************************************************************************)
(* Editing and moving.                                                     *)
(***************************************************************************)
\* Every step but a vertical move forgets the column.
Put(t, c) ==
    /\ text' = t /\ cursor' = c /\ goal' = NoGoal /\ run' = NoRun
    /\ UNCHANGED width

Insert == \E c \in Typed :
    Len(text) < MaxLength /\ Put(InsertAt(text, cursor + 1, c), cursor + 1)

Backspace == Put(IF cursor > 0 THEN RemoveAt(text, cursor) ELSE text, Max({0, cursor - 1}))

MoveLeft == Put(text, Max({0, cursor - 1}))
MoveRight == Put(text, Min({Len(text), cursor + 1}))

\* To the ends of the line between two newlines, not of the row.
MoveHome == Put(text, Max({0} \cup {i \in 1..cursor : text[i] = "newline"}))
MoveEnd == Put(text, Min({Len(text)} \cup {i - 1 : i \in {j \in (cursor + 1)..Len(text) :
                                                              text[j] = "newline"}}))

\* The position of a column on row r.
Landing(rows, r, col) == CharAt(text, ResolveInRow(text, rows, r, col))

\* Mutant: every vertical move steers for the column it starts from.
SteerFresh(rows) == CursorCol(rows)

\* The column a vertical move steers for.
Steer(rows) == IF goal # NoGoal THEN goal ELSE CursorCol(rows)

MoveVertical(by) ==
    LET rows == Rows
        r == CursorRow(rows) + by
    IN IF r \in DOMAIN rows
       THEN /\ cursor' = Landing(rows, r, Steer(rows)) /\ goal' = Steer(rows)
            /\ run' = IF run = NoRun THEN CursorCol(rows) ELSE run
            /\ UNCHANGED <<text, width>>
       ELSE UNCHANGED textVars

MoveUp == MoveVertical(-1)
MoveDown == MoveVertical(1)

\* A click at a row and column of the pane, of which the text has perhaps less.
Clicked(rows, r, col) == Landing(rows, Min({r, Len(rows)}), col)
Click ==
    LET rows == Rows IN
    \E r \in 1..VisibleRows(rows), col \in 0..(width - 1) : Put(text, Clicked(rows, r, col))

\* Submit, of more than spaces, and cancel both leave nothing.
SubmitText == (\E i \in DOMAIN text : ~IsSpace(text[i])) /\ Put(<<>>, 0)
Cancel == Put(<<>>, 0)

\* An edit of a message brings its text.
Edit == \E t \in OwnTexts : Put(t, Len(t))

\* The terminal or the list pane changes the width: a frame, not a step of the composer.
Resize == \E w \in Widths \ {width} :
    /\ width' = w
    /\ run' = IF run = NoRun THEN NoRun ELSE Resized
    /\ UNCHANGED <<text, cursor, goal>>

TextNext ==
    \/ Insert \/ Backspace
    \/ MoveLeft \/ MoveRight \/ MoveHome \/ MoveEnd
    \/ MoveUp \/ MoveDown \/ Click
    \/ SubmitText \/ Cancel \/ Edit
    \/ Resize

TextSpec == TextInit /\ [][TextNext]_textVars

(***************************************************************************)
(* Properties.                                                             *)
(***************************************************************************)
TextTypeOK ==
    /\ text \in Seq(Chars)
    /\ cursor \in 0..Len(text)
    /\ goal \in Nat \cup {NoGoal} /\ run \in Nat \cup {NoRun, Resized}
    /\ width \in Widths

\* The spaces at the end of a row, and the words on the two sides of a break.
Trimmed(s) == SubSeq(s, 1, Max({0} \cup {i \in DOMAIN s : ~IsSpace(s[i])}))
LastWord(s) == SubSeq(s, Max({0} \cup {i \in DOMAIN s : IsSpace(s[i])}) + 1, Len(s))
FirstWord(s) == SubSeq(s, 1, Min({Len(s) + 1} \cup {i \in DOMAIN s : IsSpace(s[i])}) - 1)

\* The rows are the text, cut at newlines and nothing lost (runs: "re-joining
\* the runs reconstructs text exactly").
RowsAreTheText(rows) ==
    /\ rows[1].start = 0 /\ rows[Len(rows)].end = Bytes(text)
    /\ \A i \in DOMAIN rows : ~Contains(RowText(rows[i]), "newline")
    /\ \A i \in 1..(Len(rows) - 1) :
           IF Seamless(rows, i) THEN RowText(rows[i]) # <<>>
           ELSE Slice(text, rows[i].end, rows[i + 1].start) = <<"newline">>

\* A row fits the width, but for spaces at its end or a single too wide character.
RowsFit(rows) ==
    \A i \in DOMAIN rows :
        LET shown == Trimmed(RowText(rows[i])) IN
        \/ Cols(shown) <= width
        \/ \E k \in DOMAIN shown : \A j \in DOMAIN shown \ {k} : Columns(shown[j]) = 0

\* No break comes early: it is before a word that would not have fitted behind the
\* row, or inside a word that fits no row and has its rows to itself, before a character
\* that would not have.
BreaksAreDue(rows) ==
    \A i \in DOMAIN rows : Seamless(rows, i) =>
        LET row == RowText(rows[i])
            before == LastWord(Slice(text, 0, rows[i].end))
            after == FirstWord(Slice(text, rows[i].end, Bytes(text)))
        IN /\ after # <<>>
           /\ IF before = <<>> THEN Cols(row) + Cols(after) > width
              ELSE /\ Cols(before) + Cols(after) > width
                   /\ \A j \in DOMAIN row : ~IsSpace(row[j])
                   /\ Cols(row) + Columns(after[1]) > width

\* The wrap is the greedy one, whatever is typed, wherever, in a pane of any width
\* (wrap_breaks: rows of at most width columns, a break only before a word that would
\* overflow its row, or inside one wider than the pane).
WrapIsGreedy ==
    LET rows == Rows IN RowsAreTheText(rows) /\ RowsFit(rows) /\ BreaksAreDue(rows)

\* The cursor's row is among the rows drawn (composer_scroll).
CursorInPane(rows) == CursorRow(rows) - ComposerScroll(rows) \in 1..VisibleRows(rows)

\* A vertical move and a click arrive on the row they are for, and there at the last
\* position not beyond the column (resolve_in_row: "guaranteed to resolve back to row").
LandsOnRow(rows) ==
    \A r \in DOMAIN rows, col \in 0..width :
        LET at == ByteAt(text, Landing(rows, r, col)) IN
        /\ RowOf(rows, at) = r
        /\ DisplayCol(RowText(rows[r]), at - rows[r].start) <= col

\* A run of vertical moves keeps to the column it began in: on every row the cursor
\* is where that column is, however short the rows between were (goal_col: "crossing a
\* shorter row and back doesn't drift the cursor's horizontal position").
ColumnKept(rows) == run \in Nat => cursor = Landing(rows, CursorRow(rows), run)

\* Wherever the cursor is taken it is on the row meant, in the column meant, and its row
\* is seen; the state being well typed.
CursorFollowsRows ==
    LET rows == Rows IN TextTypeOK /\ CursorInPane(rows) /\ LandsOnRow(rows) /\ ColumnKept(rows)

\* A click lands on the row of text that is drawn where it hits ("A hit in the
\* composer places the cursor at the clicked visual row/column").
ClickLandsWhereSeen ==
    LET rows == Rows IN
    \A r \in 1..VisibleRows(rows), col \in 0..(width - 1) :
        RowOf(rows, ByteAt(text, Clicked(rows, r, col))) = ComposerScroll(rows) + r
=============================================================================
