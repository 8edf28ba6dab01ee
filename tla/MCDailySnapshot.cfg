CONSTANTS
    v1 = v1
    v2 = v2
    j1 = j1
    j2 = j2
    Versions = {v1, v2}
    CountsOf <- MCCountsOf
    Torn = Torn
    NoFile = NoFile
    TornLine = TornLine
    Jobs = {j1}
    LastDay = 2
    MaxRefreshes = 2
    MaxRewrites = 1
    MaxCrashes = 1
    Tears = {"archive"}
SPECIFICATION FairSpec
INVARIANTS TypeOK NoChainBreak NoEvidenceProblem EvidenceKept PreviousIsRecorded ArchiveIsACapture
PROPERTIES LogSpec DayCaptured
