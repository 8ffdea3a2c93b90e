\* Four characters of every class, and eight that an edit brings; panes of one to four
\* columns and up to two rows.
CONSTANTS
  MaxComposerRows = 2
  Typed = {"letter", "wide", "mark", "space", "newline"}
  OwnTexts <- MCOwnTexts
  Widths = {1, 2, 3, 4}
  MaxLength = 4
SPECIFICATION TextSpec
INVARIANT WrapIsGreedy
INVARIANT CursorFollowsRows
