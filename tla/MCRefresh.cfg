CONSTANTS
    a = a
    b = b
    c = c
    pkg = pkg
    known = known
    other = other
    Daily = {d1}
    Chain = {c1}
    Listing <- MCListing
    Kind <- MCKind
    PackageOf <- MCPackageOf
    Document <- MCDocument
    Manifest <- MCManifest
    Repo = {known, other}
    RepoOf <- MCRepoOf
    RepoMetadata <- MCRepoMetadata
    RepoPackage <- MCRepoPackage
    Threshold = "medium"
    Declared = {other}
    Moving = {a}
    Max = 1
    MaxVersion = 2
    MaxFaults = 1
    NoFile = NoFile
    Torn = Torn
SPECIFICATION FairSpec
CHECK_DEADLOCK FALSE
INVARIANTS CleanMeansMeasured IndexIsConsistent
PROPERTIES IndexComesBack
