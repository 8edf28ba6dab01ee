SPECIFICATION AuditSpec
CHECK_DEADLOCK FALSE
CONSTANTS
    Subjects <- MCSubjects
    Marks = {"network", "write", "spawn", "steerable", "download", "require", "print"}
    MaxLosses = 2
    NoDocument = NoDocument
    NoRepository = NoRepository
    Unusable = Unusable
    NoRef = NoRef
INVARIANTS AbsenceIsChecked
