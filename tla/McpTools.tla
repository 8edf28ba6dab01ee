------------------------------- MODULE McpTools -------------------------------
(***************************************************************************)
(* What the tools of packages/mcp/src/tools.mjs answer from the index the  *)
(* server was started with, and the counts of collect/src/coverage.mjs.    *)
(* inventory_tools is Inventory's report, check_project is PolicyGate's    *)
(* verdict: both are modelled there, and here by their errors.             *)
(***************************************************************************)
EXTENDS Integers, FiniteSets, Sequences

CONSTANTS
    Records,      \* the records of the index, or NotLoaded
    Absent,       \* a value that is missing
    NotLoaded

ASSUME RecordsAssumption ==
    Records # NotLoaded =>
        /\ Len(Records) \in Nat /\ DOMAIN Records = 1..Len(Records)
        /\ \A i \in DOMAIN Records : Len(Records[i].findings) \in Nat
        /\ \A i \in DOMAIN Records : LET e == Records[i].execution IN e # Absent =>
                e.state \in {"complete", "incomplete"} /\ Len(e.scans) \in Nat /\ DOMAIN e.scans = 1..Len(e.scans)

Severities == {"critical", "high", "medium", "low", "unknown", "info"}
States == {"complete", "incomplete", "absent"}
Scans == [required : BOOLEAN, status : {"completed", "failed", "skipped"}]
ToolRecord(names, versions) ==
    [server : names, packages : SUBSET [name : names, version : versions],
     verdict : {"clean", "findings", "incomplete", "unknown"},
     execution : {Absent} \cup [state : {"complete", "incomplete"}, scans : Seq(Scans)],
     findings : Seq(Severities \cup {"unrecorded"})]

Throws(why) == [error |-> TRUE, why |-> why]

(* A severity that is not known is counted as unknown, never left out.     *)
countFindings(record) ==
    [s \in Severities |-> Cardinality({i \in DOMAIN record.findings :
                            record.findings[i] = s \/ (record.findings[i] \notin Severities /\ s = "unknown")})]

StateOf(record) == IF record.execution = Absent THEN "absent" ELSE record.execution.state

describeRecord(record) ==
    [server |-> record.server, verdict |-> record.verdict, coverage |-> StateOf(record),
     findings |-> countFindings(record)]

(***************************************************************************)
(* lookup_server.  A version narrows a package, not a server.              *)
(***************************************************************************)
Matches(record, args) ==
    /\ args.server = Absent \/ record.server = args.server
    /\ args.package = Absent \/ \E p \in record.packages :
            p.name = args.package /\ (args.version = Absent \/ p.version = args.version)

Asked(args) == {i \in DOMAIN Records : Matches(Records[i], args)}
NthAsked(args, n) == CHOOSE i \in Asked(args) : Cardinality({k \in Asked(args) : k <= i}) = n

lookupServer(args) ==
    IF args.server = Absent /\ args.package = Absent THEN Throws("give a server name or a package name")
    ELSE IF Records = NotLoaded THEN Throws("no evidence index is loaded")
    ELSE LET matches == Cardinality(Asked(args))
         IN  [error |-> FALSE, found |-> matches > 0, multiple |-> matches > 1,
              records |-> [n \in {k \in 1..10 : k <= matches} |-> describeRecord(Records[NthAsked(args, n)])]]

(***************************************************************************)
(* coverage_report.                                                        *)
(***************************************************************************)
Finished(scan) == scan.status = "completed"
RequiredScans(record) ==
    IF record.execution = Absent THEN {} ELSE {i \in DOMAIN record.execution.scans : record.execution.scans[i].required}
CompletedScans(record) == {i \in RequiredScans(record) : Finished(record.execution.scans[i])}

(* The contradictions of a record with itself.                             *)
Problems(record) ==
    (IF StateOf(record) = "complete" /\ CompletedScans(record) # RequiredScans(record) THEN {"not finished"} ELSE {})
    \cup (IF record.verdict \in {"clean", "findings"} /\ StateOf(record) # "complete" THEN {"not complete"} ELSE {})

NothingTallied ==
    [error |-> FALSE, total |-> 0, states |-> [s \in States |-> 0], requiredRuns |-> 0, completedRuns |-> 0,
     findingsTotal |-> 0, problems |-> 0]

Tally(stats, record) ==
    [error |-> FALSE, total |-> stats.total + 1,
     states |-> [stats.states EXCEPT ![StateOf(record)] = @ + 1],
     requiredRuns |-> stats.requiredRuns + Cardinality(RequiredScans(record)),
     completedRuns |-> stats.completedRuns + Cardinality(CompletedScans(record)),
     findingsTotal |-> stats.findingsTotal + Len(record.findings),
     problems |-> stats.problems + Cardinality(Problems(record))]

(* The records one after the other.                                        *)
computeCoverage(records) ==
    LET tallied[i \in 0..Len(records)] == IF i = 0 THEN NothingTallied ELSE Tally(tallied[i - 1], records[i])
    IN  tallied[Len(records)]

coverageReport == IF Records = NotLoaded THEN Throws("no evidence index is loaded") ELSE computeCoverage(Records)

inventoryTools(args) ==
    IF args.tools = 0 THEN Throws("tools must be a non-empty array")
    ELSE IF args.tools > 500 THEN Throws("at most 500 tools at a time")
    ELSE IF Records = NotLoaded THEN Throws("no evidence index is loaded")
    ELSE [error |-> FALSE, items |-> args.tools]

(* It needs no index: without one the policy's rules about records have    *)
(* nothing to look at.                                                     *)
checkProject(args) ==
    IF ~args.directory THEN Throws("not a directory")
    ELSE [error |-> FALSE, related |-> IF Records = NotLoaded THEN 0
            ELSE Cardinality({i \in DOMAIN Records : \E p \in Records[i].packages : p.name = args.package})]

callTool(name, args) ==
    CASE name = "lookup_server" -> lookupServer(args)
      [] name = "inventory_tools" -> inventoryTools(args)
      [] name = "coverage_report" -> coverageReport
      [] name = "check_project" -> checkProject(args)
===============================================================================
