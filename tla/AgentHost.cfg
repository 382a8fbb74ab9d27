SPECIFICATION Spec
CONSTANTS
  m1 = m1
  m2 = m2
  m3 = m3
  Messages = {m1, m2, m3}
  OneAtATime = TRUE
  MaxRuns = 2
  MaxRunsMany = 1
  MaxResets = 1
  Threads = {"one", "many"}
INVARIANTS PauseExact ActiveExact NoLostWakeup
PROPERTY HistoryKept
SYMMETRY Symmetry
