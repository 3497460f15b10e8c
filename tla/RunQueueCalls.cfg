CONSTANTS
  Runs = {r1}
  CancelCalls = {c1}
  MaxContainers = 1
  InboxSize = 2
  RetriesMax = 2
  Activities = {"a"}
SPECIFICATION FairSpec
INVARIANT OutcomeMatchesPipeline
PROPERTIES
  CallsAnswered
  CancelTakesEffect
