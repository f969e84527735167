CONSTANTS
  Running = {"nodes"}
  Signals = {s1}
  Effects = {m1, e1, show, for}
  Values = {0, 1, 2}
  NoValue = NoValue
  Main = Main
  ObserverMax = 2
  PendingMax = 2
  InitialSubs = 1
  AllocFails = FALSE
  BalancedBatches = FALSE
  MaxDepth = 2
  MaxBatch = 1
  Memos = {m1}
  MemoReads = {s1}
  Shows = {show}
  Fors = {for}
  TheSignal = s1
  SignalOf <- MCSignalOf
  NoElement = NoElement
  MaxElements = 5
  PureRenders = FALSE
SPECIFICATION ClientsSpec
INVARIANTS NodesMatch
