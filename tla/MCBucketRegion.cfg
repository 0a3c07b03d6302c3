SPECIFICATION FairSpec
CONSTANTS
    Subs = {"Accelerate", "Tagging"}
    Unsupported = {"Accelerate"}
    First = {"none", "a", "b"}
    MaxEdits = 1
    MaxOutside = 0
    MaxFaults = 1
PROPERTY Converges
CHECK_DEADLOCK FALSE
