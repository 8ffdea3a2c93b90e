\* Two requests and two toasts.
CONSTANTS
  private = private
  channel = channel
  ann = ann
  q1 = q1
  q2 = q2
  NoChat = NoChat
  NoUser = NoUser
  NoMessage = NoMessage
  Blank = Blank
  Chats = {private, channel}
  Users = {ann}
  Listed = {private}
  KindOf <- MCKindOf
  Peer <- MCPeer
  Messages <- MCMessages
  Recent <- MCRecent
  Queries <- MCQueries
  Matches <- MCMatches
  Contacts <- MCContacts
  InfoTtl = 1
  ErrorTtl = 2
  MaxAsks = 2
  MaxPushes = 2
SPECIFICATION Spec
INVARIANT HitsAnswerQuery
INVARIANT HitLands
INVARIANT SecretAsAsked
PROPERTY ShownInFull
