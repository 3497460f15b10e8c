SPECIFICATION Spec
CHECK_DEADLOCK FALSE
CONSTANT RetriesMax = 3
INVARIANTS
    ContractsAgree
    CodexSettlesOnce
    AgentsAreTold
