SPECIFICATION Spec
CONSTANTS
  Buddies = {alice}
  Channels = {c1, c2}
  Root = root
  Stranger = eve
  CommandIds = {m1}
  Instrs = {"MSG"}
  News <- RudeNews
  MaxTime = 0
  ChannelMaxTime = 1
  MaxConcurrent = 2
  MaxNews = 3
  MaxBatch = 2
  MaxBeats = 0
  PoliteServer = FALSE
INVARIANTS
  RepliesAreRouted
  ConvListOK
  RequestsOnOpenChannels
PROPERTY
  KeepsPromise
