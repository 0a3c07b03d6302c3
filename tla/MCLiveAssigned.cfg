SPECIFICATION FairSpec
CONSTANTS
    AllKinds <- LiveAssignedKinds
    First = {{"tag"}}
    Wishes = {{"value"}}
    MaxIds = 6
    MaxFaults = 1
    MaxEdits = 1
    MaxOutside = 1
    Retries = 1
PROPERTY DeletionCompletes
PROPERTY Converges
