SPECIFICATION Spec
CONSTANTS
  Buddies = {alice}
  Channels = {c1, c2}
  Root = root
  Stranger = eve
  CommandIds = {m1, m2}
  Instrs = {"MSG"}
  News <- CrossedNews
  MaxTime = 0
  ChannelMaxTime = 1
  MaxConcurrent = 2
  MaxNews = 2
  MaxBatch = 1
  MaxBeats = 0
  PoliteServer = TRUE
INVARIANTS
  RepliesAreRouted
  DoneMeansAccepted
  ReadyHasChannel
