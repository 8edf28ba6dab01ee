CONSTANTS
    a = a
    b = b
    top = top
    sub = sub
    k1 = k1
    k2 = k2
    Repo = {a, b}
    Tree <- Trees
    Package <- Packages
    NoPath = NoPath
    NoPackage = NoPackage
    Ttl = 1
    CheckpointEvery = 3
    Torn = Torn
    NoFile = NoFile
    NoEntry = NoEntry
    Tears = FALSE
    MaxRevision = 2
    LastTick = 1
    MaxDeploys = 1
    MaxChanges = 1
    MaxFaults = 2
SPECIFICATION FairSpec
PROPERTIES FreshEvidence EvidenceIsNotLost EventuallyAudited
