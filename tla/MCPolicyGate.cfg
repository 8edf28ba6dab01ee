CONSTANTS
    config = config
    fixed = fixed
    text = text
    json = json
    cfg = cfg
    doc = doc
    card = card
    r1 = r1
    r2 = r2
    ALL_CHECKS <- MCChecks
    Way <- MCWay
    Files = {cfg, doc, card}
    Reads <- MCReads
    Excluded = {}
    Roots <- MCRoots
    Commands = {"check", "audit"}
    Worlds <- MCWorlds
    Policies <- MCPolicies
    Requests <- MCRequests
    Absent = Absent
    NoExit = NoExit
    Unreadable = Unreadable
    Unparsed = Unparsed
    Malformed = Malformed
SPECIFICATION Spec
CHECK_DEADLOCK FALSE
INVARIANTS PartialNeverPasses RefusedNeverPasses VerdictsAgree
