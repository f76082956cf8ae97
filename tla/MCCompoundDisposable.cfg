\* Two threads, three disposables for two slots, so that the array is used.
SPECIFICATION Spec
CONSTANTS
  Threads = {t1, t2}
  Disposables = {d1, d2, d3}
  InlineCount = 2
  Nil = Nil
  MaxCalls = 5
INVARIANTS
  BlockRunsOnce
PROPERTIES
  ImplementsDisposableSet
CHECK_DEADLOCK FALSE
