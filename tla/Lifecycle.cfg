\* Two starts, the first of which may die anywhere; a channel of two updates, of which
\* any number beside the authorization states may come; one poll for Closed.
CONSTANTS
  MaxStarts = 2
  Capacity = 2
  WaitPolls = 1
  forever = forever
  month = month
  Policies <- TwoPolicies
  DefaultPolicy = forever
SPECIFICATION FairSpec
INVARIANT ScreenFollows
INVARIANT CleanExitIsWhole
PROPERTY FilesKept
PROPERTY WaitsEnd
