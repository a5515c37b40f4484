SPECIFICATION Spec
CONSTANTS
  Buddies = {alice}
  Channels = {c1, c2}
  Root = root
  Stranger = eve
  CommandIds = {m1}
  Instrs = {"MSG"}
  News <- ChatNews
  MaxTime = 1
  ChannelMaxTime = 2
  MaxConcurrent = 1
  MaxNews = 2
  MaxBatch = 2
  MaxBeats = 0
  PoliteServer = TRUE
INVARIANTS
  TypeOK
  DoneMeansAccepted
  OneTextPerTry
  ConvListOK
  ReadyHasChannel
  RequestsOnOpenChannels
PROPERTY
  KeepsPromise
