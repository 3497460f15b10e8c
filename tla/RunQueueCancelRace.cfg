CONSTANTS
  Runs = {r1, r2}
  CancelCalls = {c1}
  MaxContainers = 1
  InboxSize = 2
  RetriesMax = 2
  Activities = {}
SPECIFICATION Spec
INVARIANT AcceptedCancelStops
