SPECIFICATION Spec
CONSTANTS
    AllKinds <- TagKinds
    First = {{"tag"}}
    Wishes = {{"value"}}
    MaxIds = 1
    MaxFaults = 0
    MaxEdits = 1
    MaxOutside = 0
    Retries = 1
INVARIANT DifferenceIsUpdatable
