\* Two chats whose order ties or not, a read mark and a pin; one change beside what the
\* loads emit, and a channel of three updates.  It may come to rest: no bound is left.
CONSTANTS
  main = main
  archive = archive
  resync = resync
  inbox = inbox
  pin = pin
  Chats = {1, 2}
  Lists = {main}
  Main = main
  Resync = resync
  Marks = {inbox}
  Messages = {pin}
  MaxOrder = 1
  Capacity = 3
  MaxChanges = 1
SPECIFICATION FairSpec
INVARIANT StoreAgrees
INVARIANT ReplayIsNoop
PROPERTY LoadsEnd
CHECK_DEADLOCK FALSE
