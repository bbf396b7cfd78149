SPECIFICATION EstSpec
CONSTANTS
    NumRelays = 5
    NumGuards = 2
    MaxTries = 2
    Networks <- MCNetworks
INVARIANT EntryApartFromExit
CHECK_DEADLOCK FALSE
