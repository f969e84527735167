CONSTANTS
  Signals = {s1}
  Effects = {for}
  Values = {0, 1}
  NoValue = NoValue
  Main = Main
  ObserverMax = 2
  PendingMax = 2
  InitialSubs = 1
  AllocFails = FALSE
  BalancedBatches = TRUE
  MaxDepth = 2
  MaxBatch = 1
  Shows = {}
  Fors = {for}
  TheSignal = s1
  SignalOf <- MCSignalOf
  NoElement = NoElement
  MaxElements = 2
  PureRenders = TRUE
  Buttons = {b1, b2}
  ButtonsMax = 2
SPECIFICATION FairAppSpec
INVARIANTS ClicksHandled
PROPERTIES UnmountStops
