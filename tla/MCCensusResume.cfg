CONSTANTS
    a = a
    b = b
    c = c
    d = d
    many = many
    few = few
    none = none
    Repo = {a, b, c, d}
    ByStars <- Stars
    Buckets <- ThreeBuckets
    BucketOf <- Spread
    Page = 2
    Cap = 4
    MaxSlices = 9
    MaxRepos = 9
    Retries = 1
    CheckpointEvery = 2
    FirstDay = 2
    LastDay = 3
    Worlds <- AllWorlds
    MaxFull = 3
    MaxSince = 0
    MaxKills = 2
    MaxPushes = 0
    Moving = FALSE
    Torn = Torn
    NoFile = NoFile
SPECIFICATION Spec
CHECK_DEADLOCK FALSE
PROPERTIES ResumeLosesNothing
