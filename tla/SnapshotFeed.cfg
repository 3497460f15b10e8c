CONSTANTS
    Clients = {c1}
    MaxVersion = 3
SPECIFICATION FairSpec
INVARIANTS
    TypeOK
    PutsSucceed
    SubscribersFollow
PROPERTIES
    ImplementsLatestFeed
    LatestArrives
    StreamsEnd
