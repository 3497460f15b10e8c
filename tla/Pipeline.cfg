CONSTANTS
    MaxLines = 1
    HasTimeout = TRUE
    RetriesMax = 2
    MaxEdits = 2
SPECIFICATION FairSpec
INVARIANTS TypeOK OutputAfterExit StageIsOver HistoryInStep
           PublishedIsReviewed OutcomeIsTrue RecordIsTrue
PROPERTIES RunReturns ContainersRemoved
CHECK_DEADLOCK FALSE
