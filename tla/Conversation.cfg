\* Two messages and one to come; a pane of five rows, unmeasured at first; two changes
\* of messages, files, read marks or the graphics setting, beside the pages.
CONSTANTS
  Shape <- MCShape
  ShortText = 2
  LongText = 5
  BareQuote = 2
  FullQuote = 4
  MediaRows = 2
  AtStart = 2
  Ports = {5}
  Widths = {3}
  MaxChanges = 2
SPECIFICATION Spec
INVARIANT UnreadIsTold
INVARIANT RowsAgree
PROPERTY PlaceHeld
