\* An update every pane shows and one of the status bar, three of them through a feed of
\* one slot and a channel of two signals: the channel fills, the source holds a signal that
\* waits for room, and the feed is overrun meanwhile.
CONSTANTS
  router = router
  source = source
  Router = router
  Source = source
  Subscribers = {router, source}
  Kinds = {"ReadOutbox", "Connection"}
  Resyncs = {}
  Capacity = 1
  MaxUpdates = 3
  MaxDropped = 1
  ChannelDepth = 2
SPECIFICATION LiveFairSpec
INVARIANT RestIsCurrent
PROPERTY ListSignalArrives
