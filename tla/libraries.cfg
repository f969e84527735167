CONSTANTS
  Running = {"physics", "scene", "motion", "mii"}
  Names = {n1, n2, n3}
  Layer = l
  Layers <- MCLayers
  Kinds <- AllKinds
  Positions <- Spread
  BodiesMax = 3
  ContactsMax = 2
  CellMax = 2
  GridDim = 3
  Nodes = {n1, n2, n3}
  NoNode = NoNode
  MaxChildren = 2
  MaxTransparent = 2
  Distances = {1, 2}
  Channels <- MCChannels
  Arguments <- MCArguments
  Samples <- MCSamples
  Thresholds <- MCThresholds
  DefaultLimits <- MCDefaults
  Shake = 6
  History = 4
  MinHistory = 2
  MaxWindow = 3
  Cooldown = 5
  FrameTimes = {1, 2}
  SlowestFrame = 2
  Remotes = {remote1, remote2}
  Files <- MCFiles
  Blocks <- MCBlocks
  Bufs = {buffer1, buffer2}
  NoData = NoData
  MaxWait = 1
  MaxReads = 2
SYMMETRY Symmetry
SPECIFICATION LibrariesSpec
INVARIANTS
  PoolExact ContactsExact PlanesMet
  TreeShape DrawnExactly
  RingIsRecent NoSampleReportedTwice MirrorImage
  EveryIndexIsAMii ToldApart OwnAnswerUnlessStrayed
