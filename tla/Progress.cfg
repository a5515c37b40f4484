SPECIFICATION FairSpec
CONSTANTS
  Buddies = {alice}
  Channels = {c1}
  Root = root
  Stranger = eve
  CommandIds = {m1, m2}
  Instrs = {"MSG", "SMS"}
  News <- EnterNews
  MaxTime = 0
  ChannelMaxTime = 1
  MaxConcurrent = 1
  MaxNews = 1
  MaxBatch = 1
  MaxBeats = 0
  PoliteServer = TRUE
PROPERTY
  EveryCommandEnds
