\* Two chats; the store's lists change up to three times.
CONSTANTS
  a = a
  b = b
  NoChat = NoChat
  Chats <- TwoChats
  MaxMoves = 3
SPECIFICATION Spec
INVARIANT PaneIsOpenChat
INVARIANT SentAsShown
PROPERTY StaysInList
