SPECIFICATION Spec
CONSTANTS
    AllKinds <- AssignedKinds
    First = {{"tag"}}
    Wishes = {{"value"}}
    MaxIds = 3
    MaxFaults = 1
    MaxEdits = 1
    MaxOutside = 1
    Retries = 2
INVARIANT TypeOK
INVARIANT NoLeak
PROPERTY OwnershipKept
