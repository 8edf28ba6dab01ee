CONSTANTS
    read = read
    delete = delete
    d_lete = d_lete
    Tools = {read, delete, d_lete}
    NoName = NoName
    Patterns = {p1}
    Matches <- MCMatches
    ClientLines <- MCClientLines
    ServerLines <- MCServerLines
    ClientGarbled <- MCClientGarbled
    ServerGarbled <- MCServerGarbled
    LogFails = FALSE
    MaxClient = 2
    MaxServer = 2
SPECIFICATION FairSpec
CHECK_DEADLOCK FALSE
INVARIANTS TypeOK NoForbiddenReachesServer NoForbiddenAdvertised LogAndStatsAgree ServerStreamFiltered
PROPERTIES FilterSpec EveryLineDecided
