-------------------------------- MODULE Refresh --------------------------------
(***************************************************************************)
(* How the trust index is made and remade: "agentgate refresh" runs        *)
(* mcp-audit.mjs, guard-scan.mjs and build-index.mjs one after the other,  *)
(* each a process that reads the files of the one before and overwrites    *)
(* its own; scripts/repository-chain.sh rebuilds the same index from other *)
(* inputs whenever it is run.  Nothing locks the data directory.           *)
(*                                                                         *)
(* A file is written by emptying it and then filling it (writeFileSync),   *)
(* so another process, or whoever comes after a kill, may find it Torn.    *)
(***************************************************************************)
EXTENDS Verdict, Sequences, FiniteSets

CONSTANTS
    Daily,          \* runs of refresh that may overlap
    Chain,          \* runs of repository-chain.sh
    Listing,        \* the servers, in the order of the registry
    Kind,           \* server -> "npm", "pypi" or "none" (no package, or another registry)
    PackageOf,      \* server -> the package it names
    Document,       \* <<package, version>> -> what the rules say of its metadata
    Manifest,       \* <<package, version>> -> what the rules say of its manifest
    Repo,           \* repositories the GitHub census lists and the classification calls servers
    RepoOf,         \* server -> the repositories its entry names (one at most)
    RepoMetadata,   \* repository -> findings on its metadata
    RepoPackage,    \* repository -> findings on the package it declares
    Threshold,      \* --threshold of build-index.mjs
    Max,            \* --max of guard-scan.mjs
    Declared,       \* the repositories among them whose package can be read
    Moving,         \* servers that publish a new version
    MaxVersion,     \* bound: versions a server publishes
    MaxFaults,      \* bound: failed requests, failed checks and kills
    NoFile, Torn

Server == {Listing[i] : i \in DOMAIN Listing}
Version == 1..MaxVersion
Job == Daily \cup Chain
Release == {<<PackageOf[s], v>> : s \in Server, v \in Version}

ASSUME RefreshAssumption ==
    /\ Kind \in [Server -> {"npm", "pypi", "none"}]
    /\ Document \in [Release -> SUBSET Severity]
    /\ Manifest \in [Release -> SUBSET DOMAIN RANK]
    /\ RepoOf \in [Server -> SUBSET Repo]
    /\ RepoMetadata \in [Repo -> SUBSET DOMAIN RANK]
    /\ RepoPackage \in [Repo -> SUBSET Severity]
    /\ Threshold \in DOMAIN RANK
    /\ {Max, MaxVersion, MaxFaults} \subseteq Nat
    /\ MaxVersion > 0
    /\ Moving \subseteq Server
    /\ Declared \subseteq Repo
    /\ Daily \cap Chain = {}
    /\ Repo \cap Server = {}

(* A row of census.json, a result of guard-scan.json, a record of the index. *)
BlockName == {"registryDocument", "packageManifest", "repositoryMetadata", "repositorySource"}
Row == [server : Server, version : Version, audited : BOOLEAN, findings : SUBSET Severity]
Result == [server : Server, version : Version, findings : SUBSET DOMAIN RANK,
           status : {"clean", "findings", "metadata-unavailable", "check-failed"}]
IsRecord(r) ==
    /\ r.server \in Server \cup Repo /\ r.version \in Version \cup {0}
    /\ DOMAIN r.evidence \subseteq BlockName /\ r.evidence \in [DOMAIN r.evidence -> Block]
    /\ DOMAIN r.execution \subseteq BlockName /\ r.execution \in [DOMAIN r.execution -> Component]
    /\ r.verdict \in {"clean", "findings", "incomplete"}

VARIABLES
    registry,       \* server -> the newest version its registry entry declares
    file,           \* the data directory
    job,            \* run -> [pc, out, todo, rows, results, repos, audited]
    faults,         \* failed requests, failed checks and kills so far
    measured        \* history: <<block, server, version>> a check ran on

vars == <<registry, file, job, faults, measured>>

Idle == [pc |-> "idle", out |-> "none", todo |-> {}, rows |-> {}, results |-> {},
         repos |-> {}, audited |-> {}]

Init ==
    /\ registry = [s \in Server |-> 1]
    /\ file = [census |-> NoFile, guard |-> NoFile, github |-> Repo,
                packageAudit |-> NoFile, index |-> NoFile]
    /\ job = [j \in Job |-> Idle]
    /\ faults = 0
    /\ measured = {}

Readable(name) == file[name] \notin {NoFile, Torn}

--------------------------------------------------------------------------------
(* The join of build-index.mjs. *)

registryDocument(row) ==
    [status |-> IF ~row.audited THEN "unmeasured"
                ELSE IF row.findings # {} THEN "findings" ELSE "clean",
     findings |-> row.findings]

(* Mutant: a result is taken for every registration of the package. *)
MutPackageKey(row) == <<PackageOf[row.server], row.version>>

(* A result belongs to the server, package and version it was scanned for. *)
packageKey(row) == <<row.server, PackageOf[row.server], row.version>>

(* Absent, ambiguous, failed or contradictory results measure nothing. *)
packageManifest(row, results) ==
    LET found == {r \in results : packageKey(r) = packageKey(row)}
    IN  IF \E r \in found : found = {r} /\ Usable(r)
        THEN [status |-> IF UNION {r.findings : r \in found} # {} THEN "findings" ELSE "clean",
              findings |-> UNION {r.findings : r \in found}]
        ELSE [status |-> "unmeasured", findings |-> {}]

Evidence(row, results) ==
    IF Kind[row.server] = "npm"
    THEN [b \in {"registryDocument", "packageManifest"} |->
             IF b = "registryDocument" THEN registryDocument(row)
             ELSE packageManifest(row, results)]
    ELSE [b \in {"registryDocument"} |-> registryDocument(row)]

registryRecord(row, results) ==
    LET evidence == Evidence(row, results)
        execution == executionFromBlocks(evidence)
    IN  [server |-> row.server, version |-> row.version,
         evidence |-> evidence, execution |-> execution,
         verdict |-> aggregateVerdict(evidence, Threshold, execution)]

Answer(findings) ==
    [status |-> IF findings # {} THEN "findings" ELSE "clean", findings |-> findings]

(* Nothing reads a repository's source, and the record says so. *)
repositoryRecord(repo, audited) ==
    [server |-> repo, version |-> 0,
     evidence |-> [b \in {"repositoryMetadata"} \cup (IF audited THEN {"packageManifest"} ELSE {}) |->
                      IF b = "repositoryMetadata" THEN Answer(RepoMetadata[repo])
                      ELSE Answer(RepoPackage[repo])],
     execution |-> [b \in {"repositoryMetadata", "packageManifest", "repositorySource"} |->
                      [required |-> TRUE,
                       status |-> IF b = "repositoryMetadata" \/ (b = "packageManifest" /\ audited)
                                  THEN "completed" ELSE "skipped"]],
     verdict |-> "incomplete"]

(* A repository some row of the census names is represented already. *)
buildIndex(rows, results, repos, audited) ==
    {registryRecord(row, results) : row \in rows}
        \cup {repositoryRecord(repo, repo \in audited) :
                 repo \in repos \ UNION {RepoOf[row.server] : row \in rows}}

--------------------------------------------------------------------------------
(* mcp-audit.mjs *)

(* A server publishes a version and its registry entry follows. *)
Publish(s) ==
    /\ s \in Moving
    /\ registry[s] < MaxVersion
    /\ registry' = [registry EXCEPT ![s] = @ + 1]
    /\ UNCHANGED <<file, job, faults, measured>>

(* fetchRegistry and newestPerServer: a failed page ends the run before it *)
(* has touched anything.                                                   *)
Refresh(j) ==
    /\ job[j].pc = "idle"
    /\ job' = [job EXCEPT ![j] = [Idle EXCEPT !.pc = "audit",
                                  !.todo = {<<s, registry[s]>> : s \in Server}]]
    /\ UNCHANGED <<registry, file, faults, measured>>

AddRow(j, s, v, audited, findings) ==
    job' = [job EXCEPT ![j].todo = @ \ {<<s, v>>},
                       ![j].rows = @ \cup {[server |-> s, version |-> v, audited |-> audited,
                                            findings |-> findings]}]

(* One worker's auditRegistryServer.  Without metadata the row counts as   *)
(* audited and its one finding is of severity "unknown".                   *)
AuditServer(j) ==
    /\ job[j].pc = "audit"
    /\ \E e \in job[j].todo :
          LET s == e[1]
              v == e[2]
          IN  \/ /\ Kind[s] # "none"
                 /\ AddRow(j, s, v, TRUE, Document[<<PackageOf[s], v>>])
                 /\ measured' = measured \cup {<<"registryDocument", s, v>>}
                 /\ UNCHANGED faults
              \/ /\ Kind[s] # "none"
                 /\ faults < MaxFaults
                 /\ AddRow(j, s, v, TRUE, {"unknown"})
                 /\ faults' = faults + 1
                 /\ UNCHANGED measured
              \/ /\ Kind[s] = "none"
                 /\ AddRow(j, s, v, FALSE, {})
                 /\ UNCHANGED <<faults, measured>>
    /\ UNCHANGED <<registry, file>>

--------------------------------------------------------------------------------
(* guard-scan.mjs *)

Position(s) == CHOOSE i \in DOMAIN Listing : Listing[i] = s

(* Mutant: off by one. *)
MutConsidered(rows) ==
    LET npm == {row \in rows : Kind[row.server] = "npm"}
    IN  {row \in npm : Cardinality({r \in npm : Position(r.server) <= Position(row.server)}) < Max}

(* Its packages: the first Max npm rows. *)
Considered(rows) ==
    LET npm == {row \in rows : Kind[row.server] = "npm"}
    IN  {row \in npm : Cardinality({r \in npm : Position(r.server) < Position(row.server)}) < Max}

(* A census that cannot be read ends the run, and refresh with it. *)
ReadCensus(j) ==
    /\ job[j].pc = "guard"
    /\ job' = [job EXCEPT ![j] =
                 IF Readable("census")
                 THEN [Idle EXCEPT !.pc = "scan",
                         !.todo = {<<row.server, row.version>> : row \in Considered(file.census)}]
                 ELSE Idle]
    /\ UNCHANGED <<registry, file, faults, measured>>

AddResult(j, s, v, status, findings) ==
    job' = [job EXCEPT ![j].todo = @ \ {<<s, v>>},
                       ![j].results = @ \cup {[server |-> s, version |-> v, status |-> status,
                                               findings |-> findings]}]

(* fetchManifest, with its retries, and scanManifest.  A manifest that     *)
(* cannot be had, or a check that throws, is a result that measures        *)
(* nothing.                                                                *)
ScanPackage(j) ==
    /\ job[j].pc = "scan"
    /\ \E e \in job[j].todo :
          LET s == e[1]
              v == e[2]
              found == Manifest[<<PackageOf[s], v>>]
          IN  \/ /\ AddResult(j, s, v, IF found # {} THEN "findings" ELSE "clean", found)
                 /\ measured' = measured \cup {<<"packageManifest", s, v>>}
                 /\ UNCHANGED faults
              \/ /\ faults < MaxFaults
                 /\ \E status \in {"metadata-unavailable", "check-failed"} :
                       AddResult(j, s, v, status, {})
                 /\ faults' = faults + 1
                 /\ UNCHANGED measured
    /\ UNCHANGED <<registry, file>>

--------------------------------------------------------------------------------
(* build-index.mjs reads one artifact after the other. *)

ReadRows(j) ==
    /\ job[j].pc = "rows"
    /\ job' = [job EXCEPT ![j] = IF Readable("census")
                                 THEN [Idle EXCEPT !.pc = "results", !.rows = file.census]
                                 ELSE Idle]
    /\ UNCHANGED <<registry, file, faults, measured>>

(* An unreadable artifact counts as absent.  repository-chain.sh does not  *)
(* pass --guard.                                                           *)
ReadResults(j) ==
    /\ job[j].pc = "results"
    /\ job' = [job EXCEPT ![j].pc = "repos",
                          ![j].results = IF j \in Daily /\ Readable("guard") THEN file.guard ELSE {}]
    /\ UNCHANGED <<registry, file, faults, measured>>

ReadRepos(j) ==
    /\ job[j].pc = "repos"
    /\ job' = [job EXCEPT ![j].pc = "write", ![j].out = "index",
                          ![j].repos = IF Readable("github") THEN Repo ELSE {},
                          ![j].audited = IF Readable("packageAudit") THEN file.packageAudit ELSE {}]
    /\ UNCHANGED <<registry, file, faults, measured>>

--------------------------------------------------------------------------------
(* The artifacts are written. *)

Finish(j, step, out) ==
    /\ job[j].pc = step
    /\ job[j].todo = {}
    /\ job' = [job EXCEPT ![j].pc = "write", ![j].out = out]
    /\ UNCHANGED <<registry, file, faults, measured>>

FinishAudit(j) == Finish(j, "audit", "census")
FinishScan(j) == Finish(j, "scan", "guard")

(* repository-chain.sh up to audit-packages.mjs. *)
AuditPackages(j) ==
    /\ job[j].pc = "idle"
    /\ job' = [job EXCEPT ![j] = [Idle EXCEPT !.pc = "write", !.out = "packageAudit",
                                              !.audited = Declared]]
    /\ UNCHANGED <<registry, file, faults, measured>>

Truncate(j) ==
    /\ job[j].pc = "write"
    /\ file' = [file EXCEPT ![job[j].out] = Torn]
    /\ job' = [job EXCEPT ![j].pc = "fill"]
    /\ UNCHANGED <<registry, faults, measured>>

Contents(j) ==
    CASE job[j].out = "census" -> job[j].rows
      [] job[j].out = "guard" -> job[j].results
      [] job[j].out = "packageAudit" -> job[j].audited
      [] job[j].out = "index" ->
           buildIndex(job[j].rows, job[j].results, job[j].repos, job[j].audited)

After == [census |-> "guard", guard |-> "rows", packageAudit |-> "rows", index |-> "idle"]

Fill(j) ==
    /\ job[j].pc = "fill"
    /\ file' = [file EXCEPT ![job[j].out] = Contents(j)]
    /\ job' = [job EXCEPT ![j] = [Idle EXCEPT !.pc = After[job[j].out]]]
    /\ UNCHANGED <<registry, faults, measured>>

(* A run is killed, or refresh is: what it had in memory is gone. *)
Kill(j) ==
    /\ job[j].pc # "idle"
    /\ faults < MaxFaults
    /\ job' = [job EXCEPT ![j] = Idle]
    /\ faults' = faults + 1
    /\ UNCHANGED <<registry, file, measured>>

(* The topic census, a job of its own, has left its file and rewrites it. *)
GithubCensus ==
    /\ file' = [file EXCEPT !.github = IF @ = Torn THEN Repo ELSE Torn]
    /\ UNCHANGED <<registry, job, faults, measured>>

--------------------------------------------------------------------------------

Step(j) ==
    \/ (j \in Daily /\ Refresh(j)) \/ (j \in Chain /\ AuditPackages(j))
    \/ AuditServer(j) \/ FinishAudit(j)
    \/ ReadCensus(j) \/ ScanPackage(j) \/ FinishScan(j)
    \/ ReadRows(j) \/ ReadResults(j) \/ ReadRepos(j)
    \/ Truncate(j) \/ Fill(j)

Next ==
    \/ \E s \in Server : Publish(s)
    \/ \E j \in Job : Step(j) \/ Kill(j)
    \/ GithubCensus

Spec == Init /\ [][Next]_vars

(* cron starts refresh five times a day and a run goes on unless killed;   *)
(* nobody promises to run the chain, but a chain that was started goes on. *)
Fairness ==
    /\ \A j \in Daily : WF_vars(Step(j))
    /\ \A j \in Chain : WF_vars(job[j].pc # "idle" /\ Step(j))

FairSpec == Spec /\ Fairness
================================================================================
