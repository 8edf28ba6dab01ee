CONSTANTS
    a = a
    b = b
    c = c
    d = d
    many = many
    few = few
    none = none
    Repo = {a, b, c, d}
    ByStars <- Stars
    Buckets <- TwoBuckets
    BucketOf <- ThreeAndOne
    Page = 1
    Cap = 2
    MaxSlices = 9
    MaxRepos = 9
    Retries = 1
    CheckpointEvery = 2
    FirstDay = 6
    LastDay = 6
    Worlds <- FullWorlds
    MaxFull = 2
    MaxSince = 0
    MaxKills = 1
    MaxPushes = 0
    Moving = FALSE
    Torn = Torn
    NoFile = NoFile
SPECIFICATION Spec
PROPERTIES CompleteUnlessReported
CHECK_DEADLOCK FALSE
