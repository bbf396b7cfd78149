SPECIFICATION Spec
CONSTANTS
    NumEntry = 1
    NumExit = 2
    ASN = {a1, a2}
    MaxEntryPath = 2
    MaxExitPath = 2
INVARIANT MatrixComplete
CHECK_DEADLOCK FALSE
