CONSTANTS
    a = a
    b = b
    c = c
    d = d
    many = many
    few = few
    none = none
    Repo = {a, b, c, d}
    ByStars <- Stars
    Buckets <- TwoBuckets
    BucketOf <- ThreeAndOne
    Page = 1
    Cap = 2
    MaxSlices = 5
    MaxRepos = 9
    Retries = 1
    CheckpointEvery = 2
    FirstDay = 5
    LastDay = 6
    Worlds <- FewWorlds
    MaxFull = 1
    MaxSince = 1
    MaxKills = 0
    MaxPushes = 1
    Moving = FALSE
    Torn = Torn
    NoFile = NoFile
SPECIFICATION FairSpec
CHECK_DEADLOCK FALSE
PROPERTIES CompleteUnlessReported RunsEnd
