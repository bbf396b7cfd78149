SPECIFICATION EstSpec
CONSTANTS
    NumRelays = 5
    NumGuards = 2
    MaxTries = 2
    Networks <- MCNetworks
INVARIANTS
    PathUnrelated
    EntriesBounded
PROPERTY EstablishEnds
CHECK_DEADLOCK FALSE
