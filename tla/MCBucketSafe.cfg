SPECIFICATION Spec
CONSTANTS
    Subs = {"RequestPayment", "Tagging"}
    Unsupported = {}
    First = {"none", "b"}
    MaxEdits = 1
    MaxOutside = 1
    MaxFaults = 1
INVARIANT TypeOK
INVARIANT UpToDateIsReal
INVARIANT NoOrphan
PROPERTY UserWins
CHECK_DEADLOCK FALSE
