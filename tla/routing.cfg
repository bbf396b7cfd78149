SPECIFICATION RouteSpec
CONSTANTS
    AS = {1, 2, 3, 4}
    Graphs <- MCGraphs
    HashOf <- MCHash
    DestSeq <- MCDestSeq
    MaxPathLen = 4
    MaxPath = 3
INVARIANTS RoutesStable AnswersExact TreeConsistent
CHECK_DEADLOCK FALSE
