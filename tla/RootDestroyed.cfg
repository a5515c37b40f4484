SPECIFICATION Spec
CONSTANTS
  Buddies = {alice}
  Channels = {c1}
  Root = root
  Stranger = eve
  CommandIds = {m1}
  Instrs = {"DUMP"}
  News <- RudeNews
  MaxTime = 0
  ChannelMaxTime = 1
  MaxConcurrent = 1
  MaxNews = 1
  MaxBatch = 1
  MaxBeats = 0
  PoliteServer = FALSE
INVARIANT
  RootNeverDestroyed
