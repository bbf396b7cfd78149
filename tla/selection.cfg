SPECIFICATION MCSpec
CONSTANTS
    NumEntry = 1
    NumExit = 2
    ASN = {1, 2, 3}
    MaxEntryPath = 5
    MaxExitPath = 2
    Alphas = {0, 1, 2}
    W = 3
    MaxSuffix = 2
    AS = {1, 2}
    DefaultAS = 1
    NoAS = NoAS
    Missing = Missing
    Files <- MCFiles
    Probe <- MCProbe
    Asked = {0, 2, 6}
INVARIANTS RowsFit RowsSound FreeExact AttackedPairHasRow AvoidsAttackers ChosenHasBandwidth CacheCoherent StoredIsLongest
PROPERTIES ScanTerminates SelectionTerminates 
CHECK_DEADLOCK FALSE
