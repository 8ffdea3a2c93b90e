---------------------------- MODULE HistoryLayout ----------------------------
(***************************************************************************)
(* The arithmetic of the history pane (crates/tuigram/src/conversation.rs  *)
(* and the renderer it must agree with): how many rows a message takes, at *)
(* which row of which message the pane must start for its newest message   *)
(* to end on the last row, and what the renderer draws from there.         *)
(*                                                                         *)
(* A view is a record with the loaded messages (oldest first), the cursor  *)
(* off and the rows skip of its message already passed, the pane's port    *)
(* rows and width columns (0 until measured), capable (graphics are drawn),*)
(* files (the download state it knows, per message) and rule (below).      *)
(***************************************************************************)
EXTENDS Integers, Sequences, FiniteSetsExt

CONSTANTS
    Shape,       \* per message id: [own, kind, re]; re is the id it answers, 0 if none
    ShortText, LongText,  \* columns of a body before and after an edit
    BareQuote, FullQuote, \* columns of ">reply" and of ">sender: snippet"
    MediaRows    \* rows of an inline image

ASSUME LayoutAssumption ==
    /\ Shape \in Seq([own : BOOLEAN, kind : {"text", "photo", "still"}, re : Nat])
    /\ {ShortText, LongText, BareQuote, FullQuote, MediaRows} \subseteq Nat

Ids == DOMAIN Shape

\* Rows of one logical line: it wraps at the width, and takes a row even empty.
Wrapped(len, width) ==
    IF width = 0 \/ len = 0 THEN 1 ELSE (len + width - 1) \div width

Flag(b) == IF b THEN 1 ELSE 0

IdsOf(msgs) == {msgs[i].id : i \in DOMAIN msgs}
IndexOf(msgs, id) == CHOOSE i \in DOMAIN msgs : msgs[i].id = id

\* A reply's quote: the text of a loaded target, or a bare mark for another.
QuoteRows(v, m) ==
    IF Shape[m.id].re = 0 THEN 0
    ELSE Wrapped(IF Shape[m.id].re \in IdsOf(v.msgs) THEN FullQuote ELSE BareQuote, v.width)

\* A media message has a label line above its caption, if it has one.
BodyRows(v, m) ==
    LET text == IF m.long THEN LongText ELSE ShortText IN
    CASE Shape[m.id].kind = "text" -> Wrapped(text, v.width)
      [] Shape[m.id].kind = "photo" -> 1 + (IF m.long THEN Wrapped(text, v.width) ELSE 0)
      [] OTHER -> 1

\* A photo is drawn once its file is there, a video's still at once.
MediaReady(v, m) ==
    \/ Shape[m.id].kind = "photo" /\ v.files[m.id] = "present"
    \/ Shape[m.id].kind = "still"

MediaBox(v, m) == IF v.capable /\ MediaReady(v, m) THEN MediaRows ELSE 0
HasDownloadLine(v, m) == v.files[m.id] \in {"active", "present"}

\* Mutant: the download line, which comes and goes, is left out of the count.
HeightWithoutDownload(v, m) ==
    1 + QuoteRows(v, m) + BodyRows(v, m) + MediaBox(v, m) + Flag(m.others \/ m.mine) + 1

\* The rows the view counts for a message.
Height(v, m) ==
    1 + QuoteRows(v, m) + BodyRows(v, m) + MediaBox(v, m)
      + Flag(HasDownloadLine(v, m)) + Flag(m.others \/ m.mine) + 1

Heights(v) == [i \in DOMAIN v.msgs |-> Height(v, v.msgs[i])]

\* The first i of n numbers together, for every i.
Totals(n, rows) ==
    LET sum[i \in 0..n] == IF i = 0 THEN 0 ELSE sum[i - 1] + rows[i] IN sum

RowsTo(v) == Totals(Len(v.msgs), Heights(v))
AllRows(v) == RowsTo(v)[Len(v.msgs)]

\* Where a pane of that many rows starts when the newest message ends on its last row:
\* the walk back from it, with the rows used so far, to the message that fills the pane.
Anchor(n, heights, port) ==
    LET walk[i \in 0..n] ==
            [used \in Nat |->
                LET rows == used + heights[i]
                IN IF i = 0 THEN <<0, 0>>
                   ELSE IF rows >= port THEN <<i - 1, rows - port>> ELSE walk[i - 1][rows]]
    IN IF port = 0 THEN <<Max({0, n - 1}), 0>> ELSE walk[n][0]
NewestAnchor(v) == Anchor(Len(v.msgs), Heights(v), v.port)

AtNewest(v) == <<v.off, v.skip>> = NewestAnchor(v)
Anchored(v) == [v EXCEPT !.off = NewestAnchor(v)[1], !.skip = NewestAnchor(v)[2]]

\* The message under the cursor, if the offset is one of the history.
HasSelected(v) == v.off < Len(v.msgs)
Selected(v) == v.msgs[v.off + 1]

\* The cursor's row, counted from the top of the loaded history.
Position(v) == RowsTo(v)[v.off] + v.skip

\* The skipped rows are cut to what the cursor's message has now.
ClampSkip(v) ==
    IF HasSelected(v) THEN [v EXCEPT !.skip = Min({@, Height(v, Selected(v)) - 1})] ELSE v

(***************************************************************************)
(* The renderer.  It draws two lines the view does not count: that of a    *)
(* failed send, and the rule above the first unread message.               *)
(***************************************************************************)
MessageLines(v, m) ==
    2 + QuoteRows(v, m) + BodyRows(v, m) + MediaBox(v, m) + Flag(HasDownloadLine(v, m))
      + Flag(m.failed) + Flag(m.others \/ m.mine)
Block(v, i) == Flag(v.rule = v.msgs[i].id) + MessageLines(v, v.msgs[i])
BlocksTo(v) == Totals(Len(v.msgs), [i \in DOMAIN v.msgs |-> Block(v, i)])

\* The first row of message i in the pane, and the row after its last one.
StartRow(v, i) ==
    IF i = v.off + 1 THEN 0
    ELSE Max({0, Block(v, v.off + 1) - v.skip}) + BlocksTo(v)[i - 1] - BlocksTo(v)[v.off + 1]
EndRow(v, i) ==
    IF i = v.off + 1 THEN Max({0, Block(v, i) - v.skip}) ELSE StartRow(v, i) + Block(v, i)

\* The messages with a row in the pane, which a click can hit.
Drawn(v) == {i \in (v.off + 1)..Len(v.msgs) : StartRow(v, i) < Min({v.port, EndRow(v, i)})}
==============================================================================
