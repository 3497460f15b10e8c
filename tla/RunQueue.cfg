CONSTANTS
  Runs = {r1, r2, r3}
  CancelCalls = {c1}
  MaxContainers = 1
  InboxSize = 1
  RetriesMax = 1
  Activities = {}
SPECIFICATION WatchSpec
INVARIANTS
  TypeOK
  SlotBound
  CancelsAreLive
  WatchersSeeTable
PROPERTIES
  TerminalFrozen
  ImplementsLifecycle
SYMMETRY Symmetry
VIEW LastShown
