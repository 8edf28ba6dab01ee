SPECIFICATION CommandsSpec
CHECK_DEADLOCK FALSE
CONSTANTS
    Sizes = {1, 2}
    KeepDays = 1
    MaxCaptures = 1
    MaxFaults = 1
    MaxNights = 2
    MaxRewrites = 1
    Torn = Torn
    NoIndex = NoIndex
    Partial = Partial
    Rows <- MCRows
    Projections <- MCProjections
    TornText = TornText
    MaxLineCount = 3
    MaxMishaps = 2
    Findings <- MCFindings
    MaxFindings = 2
    MaxDay = 1
    MaxBuilds = 2
    NoBaseline = NoBaseline
    LegacyBaseline = LegacyBaseline
    TornBaseline = TornBaseline
    Nil = Nil
    Bad = Bad
    ExactVersions <- MCExactVersions
    NpmNames <- MCNpmNames
    Includes <- MCIncludes
    MaxEntries = 2
    PageIndexes <- MCPageIndexes
    Texts <- MCTexts
    Files <- MCFiles
    Versions = {"1", "2", ""}
    MaxEvents = 5
    PackInputs <- MCPackInputs
    Questions <- MCQuestions
    MaxDamage = 2
    MaxPacks = 3
    Gone = Gone
    Half = Half
    Changed = Changed
    Absent = Absent
    NotLoaded = NotLoaded
    Records <- MCRecords
    ClientLines <- MCClientLines
    Garbled <- MCGarbled
    MaxBytes = 2
    MaxLines = 3
    Answers <- SomeAnswers
    Ledgers = {"whole", "broken", "torn"}
    FreeDisks = {"free"}
    Archives <- SomeArchives
    SiteAnswers <- OneSite
    MaxAge = 2
    BackupMaxAge = 2
    Repeat = 2
    MaxUpsets = 1
    Unreachable = Unreachable
    NoHistory = NoHistory
    NoState = NoState
    TornState = TornState
    LastDay = 3
    MaxVersions = 2
    MaxAccidents = 1
    MaxLineAge = 1
    NoLine = NoLine
    NoIndexYet = NoIndexYet
    TornArchive = TornArchive
    NoRebuild = NoRebuild
    NoVerdict = NoVerdict
    Subjects <- MCSubjects
    Marks = {"network", "write", "spawn", "steerable", "download", "require", "print"}
    MaxLosses = 2
    NoDocument = NoDocument
    NoRepository = NoRepository
    Unusable = Unusable
    NoRef = NoRef
INVARIANTS AuditIsHonest WatchIsTrue 
PROPERTIES BackupsRestore TroubleIsTold HistoryIsTrue ReviewsAreReal PageShowsEvidence PackIsProof AnswerComes
