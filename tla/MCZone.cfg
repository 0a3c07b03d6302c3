SPECIFICATION Spec
CONSTANTS
    AllKinds <- ZoneKinds
    First = {{"tag"}}
    Wishes = {{"value"}}
    MaxIds = 2
    MaxFaults = 1
    MaxEdits = 1
    MaxOutside = 1
    Retries = 1
INVARIANT RetriedCreateRunsOnce
