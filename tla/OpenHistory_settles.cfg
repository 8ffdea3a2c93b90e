\* The chat is opened twice; its message may be edited, and one request fails.
CONSTANTS
  MaxId = 1
  MaxVersion = 1
  PageSize = 1
  Capacity = 1
  MaxOpens = 2
  MaxFailures = 1
SPECIFICATION OpenFairSpec
INVARIANT StoreFollows
INVARIANT TdlibTracksOpen
PROPERTY OnePageAtATime
PROPERTY UnreadSettles
