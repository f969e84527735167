CONSTANTS
  Signals = {s1, s2}
  Effects = {e1, e2}
  Values = {0, 1}
  NoValue = NoValue
  Main = Main
  ObserverMax = 2
  PendingMax = 2
  InitialSubs = 1
  AllocFails = FALSE
  BalancedBatches = FALSE
  MaxDepth = 2
  MaxBatch = 1
SPECIFICATION Spec
SYMMETRY Symmetry
INVARIANTS TypeOK ObserversMatch PendingExact NoLostUpdate QuietIsFresh
PROPERTIES DisposedNeverRuns KeepsPromise
