SPECIFICATION Spec
CONSTANTS
  Buddies = {alice}
  Channels = {c1}
  Root = root
  Stranger = eve
  CommandIds = {m1}
  Instrs = {"SMS"}
  News <- NoNews
  MaxTime = 0
  ChannelMaxTime = 1
  MaxConcurrent = 1
  MaxNews = 0
  MaxBatch = 1
  MaxBeats = 0
  PoliteServer = TRUE
INVARIANT
  FailedTwice
