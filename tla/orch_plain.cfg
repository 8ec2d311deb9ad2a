SPECIFICATION FairSpec
CONSTANTS
  x = x
  q = q
  NoCustom = NoCustom
  MaxIterations = 2
  Limits = FALSE
  Starts <- Resumed
  PluginSeq <- NoPlugins
  LoadBearing = {}
  HookSeq <- NoHooks
  CustomSeqs <- NoSeqs
  StrictTypes = FALSE
CHECK_DEADLOCK FALSE
PROPERTIES BehavesAsRuntime
