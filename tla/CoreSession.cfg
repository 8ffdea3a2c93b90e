\* A channel of two slots overrun by up to five updates, two resyncs that may overlap,
\* and a drop counter that saturates at two.
CONSTANTS
  router = router
  r1 = r1
  r2 = r2
  update = update
  Router = router
  Subscribers = {router}
  Kinds = {update}
  Resyncs = {r1, r2}
  Capacity = 2
  MaxUpdates = 5
  MaxDropped = 2
SPECIFICATION FairSpec
INVARIANT Accounted
INVARIANT StaleUnmarkedOnlyByRace
PROPERTY MarkClearedOnlyByAnswer
PROPERTY JournalKept
PROPERTY EveryUpdateSettles
