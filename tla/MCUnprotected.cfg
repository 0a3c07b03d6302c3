SPECIFICATION FairSpec
CONSTANTS
    AllKinds <- UnprotectedKinds
    First = {{"tag"}}
    Wishes = {{"value"}}
    MaxIds = 2
    MaxFaults = 1
    MaxEdits = 0
    MaxOutside = 1
    Retries = 1
PROPERTY NoResurrection
 
