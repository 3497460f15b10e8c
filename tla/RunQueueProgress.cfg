CONSTANTS
  Runs = {r1, r2}
  CancelCalls = {}
  MaxContainers = 1
  InboxSize = 1
  RetriesMax = 1
  Activities = {}
SPECIFICATION FairSpec
PROPERTY RunsLeave
