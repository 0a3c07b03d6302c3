SPECIFICATION FairSpec
CONSTANTS
    Subs = {"Versioning", "Replication"}
    Unsupported = {}
    First = {"none", "a", "b"}
    MaxEdits = 1
    MaxOutside = 1
    MaxFaults = 0
PROPERTY Converges
PROPERTY Finalizes
CHECK_DEADLOCK FALSE
