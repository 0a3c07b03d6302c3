SPECIFICATION Spec
CONSTANTS
    AllKinds <- GivenKinds
    First = {{"tag"}}
    Wishes = {{"value"}}
    MaxIds = 1
    MaxFaults = 1
    MaxEdits = 1
    MaxOutside = 1
    Retries = 1
INVARIANT NoLeak
PROPERTY OwnershipKept
