------------------------------- MODULE Forms -------------------------------
(***************************************************************************)
(* What the overlays edit: the settings of settingsform.rs, read and       *)
(* written in core's settings.rs, the attachment prompt, the reaction      *)
(* picker, and the rows a modal list draws.  A line of text is one of      *)
(* three: empty, only spaces, or more.                                     *)
(***************************************************************************)
EXTENDS Naturals, Sequences, FiniteSets

CONSTANTS
  Kilo,       \* bytes in a kilobyte: 1024
  MaxCount,   \* the largest number of days or bytes: 2^32 - 1 and 2^64 - 1
  PaletteLen, \* emoji in the palette
  ListRows    \* rows a modal list has room for

ASSUME FormsAssumption ==
  Kilo \in Nat \ {0, 1} /\ MaxCount \in Nat /\ {PaletteLen, ListRows} \subseteq Nat \ {0}

Texts == {"empty", "spaces", "text"}
Typed(text, char) == IF char = " " /\ text # "text" THEN "spaces" ELSE "text"
\* One character less, or none: the caret may be at the start.
Backspaced(text) ==
  {t \in Texts : (text = "empty" => t = "empty") /\ (text = "spaces" => t # "text")}

-----------------------------------------------------------------------------
\* A value as it is typed, trimmed and in lower case: a word, or a count and its unit.
Word(w) == [word |-> w, n |-> 0, unit |-> ""]
Count(n, unit) == [word |-> "", n |-> n, unit |-> unit]

Unlimited == 0   \* KeepMedia::Forever and CacheCap::Unbounded; a limit is at least 1
DaysPer == [u \in {"d", "w", "m", ""} |-> CASE u = "w" -> 7 [] u = "m" -> 30 [] OTHER -> 1]
BytesPer == [u \in {"gb", "g", "mb", "m", "kb", "k", "b", ""} |->
  CASE u \in {"gb", "g"} -> Kilo * Kilo * Kilo
    [] u \in {"mb", "m"} -> Kilo * Kilo
    [] u \in {"kb", "k"} -> Kilo
    [] OTHER -> 1]

\* checked_mul, and no limit of zero; the set is empty where the parser fails.
Counted(s, per) ==
  {n \in {s.n * per[u] : u \in {s.unit} \cap DOMAIN per} :
     s.word = "" /\ s.n <= MaxCount /\ n \in 1 .. MaxCount}
ParseKeep(s) == IF s.word = "forever" THEN {Unlimited} ELSE Counted(s, DaysPer)
ParseCap(s) == IF s.word = "unbounded" THEN {Unlimited} ELSE Counted(s, BytesPer)
ParseGraphics(s) ==
  {on \in BOOLEAN : s.word \in IF on THEN {"on", "true", "yes"} ELSE {"off", "false", "no"}}

DisplayKeep(days) == IF days = Unlimited THEN Word("forever") ELSE Count(days, "d")
InUnits(bytes, units) ==
  LET u == CHOOSE x \in units : \A y \in units : BytesPer[y] <= BytesPer[x]
  IN Count(bytes \div BytesPer[u], u)
\* Mutant: the largest unit that is not more than the cap.
DisplayCapRounded(bytes) ==
  IF bytes = Unlimited THEN Word("unbounded")
  ELSE InUnits(bytes, {u \in {"gb", "mb", "kb", "b"} : BytesPer[u] <= bytes})
\* The largest unit that divides evenly.
DisplayCap(bytes) ==
  IF bytes = Unlimited THEN Word("unbounded")
  ELSE InUnits(bytes, {u \in {"gb", "mb", "kb", "b"} : bytes % BytesPer[u] = 0})

-----------------------------------------------------------------------------
\* SettingsDraft: a line for each field, the one being edited, and whether it was refused.
Fields == <<"private", "groups", "channels", "cache", "graphics">>
KeepFields == {"private", "groups", "channels"}
StorageFields == KeepFields \cup {"cache"}
AllFields == StorageFields \cup {"graphics"}

ParseField(f, s) ==
  CASE f \in KeepFields -> ParseKeep(s) [] f = "cache" -> ParseCap(s) [] OTHER -> ParseGraphics(s)
DisplayField(f, v) ==
  CASE f \in KeepFields -> DisplayKeep(v)
    [] f = "cache" -> DisplayCap(v)
    [] OTHER -> Word(IF v THEN "on" ELSE "off")

FromSettings(values) ==
  [says |-> [f \in AllFields |-> DisplayField(f, values[f])], at |-> 1, error |-> FALSE]
MoveField(d, by) == [d EXCEPT !.at = ((@ + by - 1) % Len(Fields)) + 1, !.error = FALSE]
EditField(d, s) == [d EXCEPT !.says[Fields[d.at]] = s, !.error = FALSE]

Refused(d) == {i \in DOMAIN Fields : ParseField(Fields[i], d.says[Fields[i]]) = {}}
Reject(d) ==
  [d EXCEPT !.at = CHOOSE i \in Refused(d) : \A j \in Refused(d) : i <= j, !.error = TRUE]
Confirmed(d) == [f \in AllFields |-> CHOOSE v \in ParseField(f, d.says[f]) : TRUE]

-----------------------------------------------------------------------------
\* MediaDraft
NoMedia == [path |-> "empty", caption |-> "empty", field |-> "path"]
OtherField(m) == [m EXCEPT !.field = IF @ = "path" THEN "caption" ELSE "path"]
EditMedia(m, text) == [m EXCEPT ![m.field] = text]

\* ReactionPicker: a row of the palette, or the line being typed.
NewPicker == [row |-> 1, custom |-> "none"]
IsCustom(p) == p.custom # "none"
\* Emoji are named by their row, a typed one by its text.
ConfirmedEmoji(p) == IF ~IsCustom(p) THEN {p.row} ELSE {p.custom} \ {"empty", "spaces"}

\* select_next, select_prev and select of a list of n; an empty list keeps its first row.
StepRow(row, n, by) == IF by = "Next" THEN (IF row < n THEN row + 1 ELSE row)
                       ELSE IF row > 1 THEN row - 1 ELSE 1

\* A list modal draws from the top, or as far down as shows the row selected.
Offset(row) == IF row <= ListRows THEN 0 ELSE row - ListRows
DrawnLines(n) == 1 .. (IF n < ListRows THEN n ELSE ListRows)
\* Mutant: the list is taken to be drawn from its top.
RowAtFromTop(row, line) == line
RowAt(row, line) == Offset(row) + line
DrawnRows(row, n) == {Offset(row) + line : line \in DrawnLines(n)}

=============================================================================
