SPECIFICATION Spec
CONSTANTS
  Buddies = {alice}
  Channels = {c1}
  Root = root
  Stranger = eve
  CommandIds = {m1, m2}
  Instrs = {"SMS", "DUMP"}
  News <- RootNews
  MaxTime = 0
  ChannelMaxTime = 1
  MaxConcurrent = 1
  MaxNews = 1
  MaxBatch = 1
  MaxBeats = 1
  PoliteServer = TRUE
INVARIANTS
  DoneMeansAccepted
  QueueIsExact
