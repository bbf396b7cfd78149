SPECIFICATION LookupSpec
CONSTANTS
    W = 3
    MaxSuffix = 2
    AS = {1, 2}
    DefaultAS = 1
    NoAS = NoAS
    Missing = Missing
    Files <- OneLine
    Probe <- MCProbe
    Asked = {0, 1, 3, 6}
INVARIANT LongestMatch
CHECK_DEADLOCK FALSE
