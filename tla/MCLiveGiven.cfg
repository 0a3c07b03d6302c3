SPECIFICATION FairSpec
CONSTANTS
    AllKinds <- LiveGivenKinds
    First = {{"tag"}}
    Wishes = {{"value"}}
    MaxIds = 1
    MaxFaults = 1
    MaxEdits = 1
    MaxOutside = 1
    Retries = 1
PROPERTY DeletionCompletes
PROPERTY Converges
