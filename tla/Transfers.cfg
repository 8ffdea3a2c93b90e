\* A channel with a photo, a private chat with a voice note and a forward of it; one refusal
\* or failure and one choice of the user or sweep; a feed of one update.
CONSTANTS
  c1 = c1
  c2 = c2
  f1 = f1
  f2 = f2
  u1 = u1
  NoChat = NoChat
  NoPicture = NoPicture
  Chats = {c1, c2}
  Categories <- TwoCategories
  CategoryOf <- MCCategoryOf
  Policies <- TwoPolicies
  Earlier = {}
  Files = {f1, f2}
  Users = {u1}
  Messages <- PhotoAndVoices
  Undecodable = {u1}
  Capacity = 1
  MaxFailures = 1
  MaxChoices = 1
SPECIFICATION FairSpec
INVARIANT MarksMeanWork
INVARIANT SweepSparesKept
PROPERTY ShownComes
