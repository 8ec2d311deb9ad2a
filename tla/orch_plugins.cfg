SPECIFICATION FairSpec
CONSTANTS
  x = x
  q = q
  NoCustom = NoCustom
  MaxIterations = 2
  Limits = FALSE
  Starts <- Mixed
  PluginSeq <- BothPlugins
  LoadBearing = {x}
  HookSeq <- BothHooks
  CustomSeqs <- ActSeqs
  StrictTypes = TRUE
CHECK_DEADLOCK FALSE
INVARIANTS ResultWellFormed LifecyclePaired CancelStopsSoon
PROPERTIES RunReturns
