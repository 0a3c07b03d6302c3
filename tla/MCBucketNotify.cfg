SPECIFICATION FairSpec
CONSTANTS
    Subs = {"Notification"}
    Unsupported = {}
    First = {"none", "a", "b"}
    MaxEdits = 1
    MaxOutside = 0
    MaxFaults = 0
PROPERTY NotificationsTurnedOff
CHECK_DEADLOCK FALSE
