SPECIFICATION FairSpec
CONSTANTS
    Client = {"c1", "c2"}
    AS <- MCAS
    Known <- MCKnown
    Route <- MCRoute
    Queries <- MCQueries
    Precomp <- MCPrecomp
    Backlog = 1
    Garbage = Garbage
    Faults = TRUE
INVARIANTS
    CacheFresh
    CompleteIfServed
PROPERTIES
    QueryReturns
    ActsAsOracle
