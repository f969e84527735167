CONSTANTS
  Signals = {s1}
  Effects = {e1, e2}
  Values = {0, 1}
  NoValue = NoValue
  Main = Main
  ObserverMax = 2
  PendingMax = 2
  InitialSubs = 1
  AllocFails = TRUE
  BalancedBatches = TRUE
  MaxDepth = 2
  MaxBatch = 2
SPECIFICATION FairSpec
PROPERTIES BatchDefers PendingIsServed
