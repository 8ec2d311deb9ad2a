SPECIFICATION Spec
CONSTANTS
  c1 = c1
  c2 = c2
  c3 = c3
  m1 = m1
  m2 = m2
  None = None
  Calls <- ThreeCalls
  Managers = {m1, m2}
  ManagerOf <- TwoProcesses
  Strategies = {"sliding_window", "summarization"}
  window_size = 1
  token_budget = 1
  MaxFaults = 1
CHECK_DEADLOCK FALSE
SYMMETRY MCSymmetry
INVARIANTS NewestKept EntriesAccounted OnePassAtATime LeftoverExpires
