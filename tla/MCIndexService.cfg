CONSTANTS
    c1 = c1
    c2 = c2
    alpha = alpha
    alphabet = alphabet
    old = old
    new = new
    sample = sample
    Rate = 1
    Capacity = 1
    MaxKeys = 1
    IdleTime = 1
    Within <- Occurs
    NoName = NoName
    Clients = {c1, c2}
    Local = {c1}
    Versions = {old, new}
    IndexOf <- Indexes
    SizeOf <- Sizes
    Sample = sample
    Requests <- SomeRequests
    CoarseClock = FALSE
    MaxWrites = 1
    MaxRequests = 2
    MaxClock = 1
    NoFile = NoFile
    Torn = Torn
    NoRequest = NoRequest
SPECIFICATION ServiceSpec
CHECK_DEADLOCK FALSE
INVARIANTS ServiceIsRight
PROPERTIES AnswerIsCurrent EveryoneIsServed
