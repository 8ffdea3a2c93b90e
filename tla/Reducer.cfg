\* Two chats, two messages, a palette of three in a list of two rows; kilobytes of four bytes,
\* and limits of up to 300.
CONSTANTS
  Kilo = 4
  MaxCount = 300
  PaletteLen = 3
  ListRows = 2
  ChatRows <- MCChatRows
  Private <- MCPrivate
  MessageIds <- MCMessageIds
  Own <- MCOwn
  WithText <- MCOwn
  WithFile = {2}
  Quotes <- MCQuotes
  Answers <- MCAnswers
  HomeOf <- MCHomeOf
  People <- MCPeople
  Spellings <- MCSpellings
SPECIFICATION AppSpec
PROPERTY ActsOnScreen
PROPERTY KeysKeepTheirPlace
PROPERTY SettingsAgree
CHECK_DEADLOCK FALSE
