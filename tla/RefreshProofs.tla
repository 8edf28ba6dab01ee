----------------------------- MODULE RefreshProofs -----------------------------
(***************************************************************************)
(* Proofs about the trust index: whatever runs overlap, fail or are        *)
(* killed, what it calls clean was measured, and it is consistent in       *)
(* itself.                                                                 *)
(***************************************************************************)
EXTENDS RefreshProps, TLAPS

(* A run, with the fields it keeps. *)
JobState == [pc : {"idle", "audit", "guard", "scan", "rows", "results", "repos", "write", "fill"},
             out : {"none", "census", "guard", "packageAudit", "index"},
             todo : SUBSET (Server \X Version), rows : SUBSET Row, results : SUBSET Result,
             repos : SUBSET Repo, audited : SUBSET Repo]
FileName == {"census", "guard", "github", "packageAudit", "index"}

(* What a row of the census and a result of the scan say was measured on   *)
(* the release they name, or they say that it was not.                     *)
RowTrue(row) ==
    row.audited =>
        \/ row.findings = {"unknown"}
        \/ /\ <<"registryDocument", row.server, row.version>> \in measured
           /\ row.findings = Document[<<PackageOf[row.server], row.version>>]
ResultTrue(r) ==
    Measured(r) =>
        /\ <<"packageManifest", r.server, r.version>> \in measured
        /\ r.findings = Manifest[<<PackageOf[r.server], r.version>>]

(* A census has one row for each server. *)
OneRowEach(rows) == \A row, other \in rows : row.server = other.server => row = other

(* The servers still to be audited have no row yet. *)
TodoApart(run) ==
    run.pc = "audit" =>
        /\ \A e, f \in run.todo : e[1] = f[1] => e = f
        /\ \A e \in run.todo, row \in run.rows : row.server # e[1]

RunTrue(run) ==
    /\ \A row \in run.rows : RowTrue(row)
    /\ \A r \in run.results : ResultTrue(r)
    /\ OneRowEach(run.rows)
    /\ TodoApart(run)
    /\ run.pc \in {"write", "fill"} => run.out # "none"

RunsTrue == job \in [Job -> JobState] /\ \A j \in Job : RunTrue(job[j])

CensusTrue(rows) == (\A row \in rows : RowTrue(row)) /\ OneRowEach(rows)
GuardTrue(results) == \A r \in results : ResultTrue(r)

(* What is published: an index joined from rows and results that are true. *)
Published(index) ==
    /\ \A r \in index : IsRecord(r) /\ Reasoned(r)
    /\ \A r \in index : r.verdict = "clean" => CleanRecordMeasured(r)
    /\ \A r, q \in index :
          /\ r.server = q.server => r = q
          /\ r.server \in Server => q.server \notin RepoOf[r.server]

FilesTrue ==
    /\ DOMAIN file = FileName
    /\ file.census \in {NoFile, Torn} \cup SUBSET Row
    /\ file.guard \in {NoFile, Torn} \cup SUBSET Result
    /\ file.github \in {Torn, Repo}
    /\ file.packageAudit \in {NoFile, Torn} \cup SUBSET Repo
    /\ Readable("census") => CensusTrue(file.census)
    /\ Readable("guard") => GuardTrue(file.guard)
    /\ Readable("index") => Published(file.index)

(* The inductive invariant. *)
IInv ==
    /\ registry \in [Server -> Version] /\ faults \in 0..MaxFaults
    /\ RunsTrue /\ FilesTrue

--------------------------------------------------------------------------------
(* The join. *)

(* The severities that have a rank; "unknown" has none. *)
LEMMA RanksAreSeverities ==
  /\ DOMAIN RANK = {"critical", "high", "medium", "low", "info"}
  /\ "unknown" \in Severity /\ "unknown" \notin DOMAIN RANK
  /\ DOMAIN RANK \subseteq Severity
BY DEF RANK, Severity

(* A verdict that claims something is over blocks that can all be used;    *)
(* "clean" is over findings that all have a rank, none at the threshold,   *)
(* and a complete execution.                                               *)
LEMMA VerdictClaims ==
  ASSUME NEW evidence, NEW threshold, NEW execution,
         aggregateVerdict(evidence, threshold, execution) \in {"clean", "findings"}
  PROVE  /\ DOMAIN evidence # {}
         /\ \A b \in DOMAIN evidence : Usable(evidence[b])
         /\ aggregateVerdict(evidence, threshold, execution) = "clean" =>
               /\ FindingsOf(evidence) \subseteq DOMAIN RANK
               /\ ~Notable(FindingsOf(evidence), threshold)
               /\ Complete(execution)
BY DEF aggregateVerdict, deriveVerdict

(* The verdict of the index is one of three words. *)
LEMMA VerdictWord ==
  ASSUME NEW evidence, NEW threshold, NEW execution
  PROVE  aggregateVerdict(evidence, threshold, execution) \in {"clean", "findings", "incomplete"}
BY DEF aggregateVerdict, deriveVerdict

(* "findings" has a finding at the threshold; "incomplete" a block that    *)
(* cannot be used, a finding without a rank or an unfinished execution.    *)
LEMMA VerdictReasons ==
  ASSUME NEW evidence, NEW threshold, NEW execution
  PROVE  /\ aggregateVerdict(evidence, threshold, execution) = "findings" =>
               Notable(FindingsOf(evidence), threshold)
         /\ aggregateVerdict(evidence, threshold, execution) = "incomplete" =>
               \/ DOMAIN evidence = {}
               \/ \E b \in DOMAIN evidence : ~Usable(evidence[b])
               \/ ~(FindingsOf(evidence) \subseteq DOMAIN RANK)
               \/ ~Complete(execution)
BY DEF aggregateVerdict, deriveVerdict

(* An execution with a block that was not measured is not complete. *)
LEMMA UnmeasuredIsNotComplete ==
  ASSUME NEW evidence, NEW b \in DOMAIN evidence, ~Measured(evidence[b])
  PROVE  ~Complete(executionFromBlocks(evidence))
BY DEF Complete, executionFromBlocks, RequiredOf, componentComplete

(* The block of a manifest has the type of a block, and one that can be    *)
(* used is the answer of a result that measured something.                 *)
LEMMA ManifestBlock ==
  ASSUME NEW row \in Row, NEW results \in SUBSET Result
  PROVE  /\ packageManifest(row, results) \in Block
         /\ Measured(packageManifest(row, results)) => Usable(packageManifest(row, results))
         /\ Usable(packageManifest(row, results)) =>
               \E r \in results : /\ Measured(r) /\ r.server = row.server /\ r.version = row.version
                                  /\ packageManifest(row, results).findings = r.findings
<1> DEFINE found == {r \in results : packageKey(r) = packageKey(row)}
           block == packageManifest(row, results)
<1>1. CASE \E r \in found : found = {r} /\ Usable(r)
  <2>1. PICK r \in found : found = {r} /\ Usable(r)
    BY <1>1
  <2>2. UNION {q.findings : q \in found} = r.findings
    BY <2>1
  <2>3. block = [status |-> IF r.findings # {} THEN "findings" ELSE "clean", findings |-> r.findings]
    BY <1>1, <2>2 DEF packageManifest
  <2>4. r \in Result /\ r.findings \in SUBSET Severity
    BY RanksAreSeverities DEF Result
  <2>5. Measured(r) /\ r.server = row.server /\ r.version = row.version
    BY <2>1 DEF Usable, packageKey
  <2>6. QED
    BY <2>3, <2>4, <2>5 DEF Block, Usable
<1>2. CASE ~(\E r \in found : found = {r} /\ Usable(r))
  <2>1. block = [status |-> "unmeasured", findings |-> {}]
    BY <1>2 DEF packageManifest
  <2>2. QED
    BY <2>1 DEF Block, Usable, Measured
<1>3. QED
  BY <1>1, <1>2

(* A record joined from a row: it has its types, its verdict has a reason, *)
(* and it is clean only if all was measured.                               *)
LEMMA RegistryRecordIsTrue ==
  ASSUME NEW row \in Row, NEW results \in SUBSET Result,
         RowTrue(row), \A r \in results : ResultTrue(r)
  PROVE  LET record == registryRecord(row, results)
         IN  /\ IsRecord(record) /\ record.server = row.server
             /\ Reasoned(record)
             /\ record.verdict = "clean" => CleanRecordMeasured(record)
<1> DEFINE evidence == Evidence(row, results)
           execution == executionFromBlocks(evidence)
           record == registryRecord(row, results)
           s == row.server
           v == row.version
<1> USE RefreshAssumption
<1>1. s \in Server /\ v \in Version /\ row.audited \in BOOLEAN /\ row.findings \in SUBSET Severity
  BY DEF Row
<1>2. registryDocument(row) \in Block
  BY <1>1 DEF registryDocument, Block
<1>3. DOMAIN evidence = Needed(s) /\ evidence["registryDocument"] = registryDocument(row)
      /\ (Kind[s] = "npm" => evidence["packageManifest"] = packageManifest(row, results))
  BY DEF Evidence, Needed
<1>4. \A b \in DOMAIN evidence : evidence[b] \in Block
  BY <1>2, <1>3, ManifestBlock DEF Needed
<1>5. evidence = [b \in DOMAIN evidence |-> evidence[b]]
  BY DEF Evidence
<1>6. execution \in [DOMAIN execution -> Component] /\ DOMAIN execution = DOMAIN evidence
  BY DEF executionFromBlocks, Component
<1>7. /\ record.server = s /\ record.version = v
      /\ record.evidence = evidence /\ record.execution = execution
      /\ record.verdict = aggregateVerdict(evidence, Threshold, execution)
  BY DEF registryRecord
<1>f. execution = executionFromBlocks(evidence)
  OBVIOUS
<1> HIDE DEF evidence, execution, record
<1>8. IsRecord(record)
  <2>1. DOMAIN evidence \subseteq BlockName
    BY <1>3 DEF Needed, BlockName
  <2>2. evidence \in [DOMAIN evidence -> Block]
    BY <1>4, <1>5
  <2>3. record.verdict \in {"clean", "findings", "incomplete"}
    BY <1>7, VerdictWord
  <2>4. QED
    BY <1>1, <1>6, <1>7, <2>1, <2>2, <2>3 DEF IsRecord
<1>9. Reasoned(record)
  <2>1. ASSUME record.verdict = "clean"
        PROVE  Complete(record.execution) /\ FindingsOf(record.evidence) \subseteq DOMAIN RANK
    <3>1. aggregateVerdict(evidence, Threshold, execution) = "clean"
      BY <1>7, <2>1
    <3>2. Complete(execution) /\ FindingsOf(evidence) \subseteq DOMAIN RANK
      BY <3>1, VerdictClaims
    <3>3. QED
      BY <1>7, <3>2
  <2>2. ASSUME record.verdict = "findings" PROVE Notable(FindingsOf(record.evidence), Threshold)
    BY <1>7, <2>2, VerdictReasons
  <2>3. ASSUME record.verdict = "incomplete"
        PROVE  ~Complete(record.execution) \/ "unknown" \in FindingsOf(record.evidence)
    <3>1. \/ DOMAIN evidence = {}
          \/ \E b \in DOMAIN evidence : ~Usable(evidence[b])
          \/ ~(FindingsOf(evidence) \subseteq DOMAIN RANK)
          \/ ~Complete(execution)
      BY <1>7, <2>3, VerdictReasons
    <3>2. CASE \E b \in DOMAIN evidence : ~Usable(evidence[b])
      <4>1. PICK b \in DOMAIN evidence : ~Usable(evidence[b])
        BY <3>2
      <4>2. Measured(registryDocument(row)) => Usable(registryDocument(row))
        BY DEF registryDocument, Measured, Usable
      <4>3. ~Measured(evidence[b])
        BY <1>3, <4>1, <4>2, ManifestBlock DEF Needed
      <4>4. QED
        BY <1>7, <1>f, <4>3, UnmeasuredIsNotComplete
    <3>3. CASE ~(FindingsOf(evidence) \subseteq DOMAIN RANK)
      <4>1. FindingsOf(evidence) \subseteq Severity
        BY <1>4 DEF FindingsOf, Block
      <4>2. QED
        BY <1>7, <3>3, <4>1 DEF Severity
    <3>4. DOMAIN evidence # {}
      BY <1>3 DEF Needed
    <3>5. QED
      BY <1>7, <3>1, <3>2, <3>3, <3>4
  <2>4. QED
    BY <2>1, <2>2, <2>3 DEF Reasoned
<1>10. ASSUME record.verdict = "clean" PROVE CleanRecordMeasured(record)
  <2>0. aggregateVerdict(evidence, Threshold, execution) = "clean"
    BY <1>7, <1>10
  <2>1. /\ \A b \in DOMAIN evidence : Usable(evidence[b])
        /\ FindingsOf(evidence) \subseteq DOMAIN RANK
        /\ ~Notable(FindingsOf(evidence), Threshold)
    BY <2>0, VerdictClaims
  <2>2. "registryDocument" \in DOMAIN evidence /\ Usable(registryDocument(row))
    BY <1>3, <2>1 DEF Needed
  <2>3. row.audited /\ registryDocument(row).findings = row.findings
    BY <1>1, <2>2 DEF registryDocument, Usable, Measured
  <2>4. row.findings \subseteq FindingsOf(evidence)
    BY <1>3, <2>2, <2>3 DEF FindingsOf
  <2>5. /\ <<"registryDocument", s, v>> \in measured
        /\ row.findings = Document[<<PackageOf[s], v>>]
    BY <2>1, <2>3, <2>4, RanksAreSeverities DEF RowTrue
  <2>6. CASE Kind[s] = "npm"
    <3>1. "packageManifest" \in DOMAIN evidence /\ Usable(packageManifest(row, results))
      BY <1>3, <2>1, <2>6 DEF Needed
    <3>2. PICK r \in results : /\ Measured(r) /\ r.server = s /\ r.version = v
                               /\ packageManifest(row, results).findings = r.findings
      BY <3>1, ManifestBlock
    <3>3. /\ <<"packageManifest", s, v>> \in measured
          /\ packageManifest(row, results).findings = Manifest[<<PackageOf[s], v>>]
      BY <3>2 DEF ResultTrue
    <3>4. FindingsOf(evidence) = Truth(s, v)
      <4>1. DOMAIN evidence = {"registryDocument", "packageManifest"}
        BY <1>3, <2>6 DEF Needed
      <4>2. FindingsOf(evidence) = evidence["registryDocument"].findings \cup evidence["packageManifest"].findings
        BY <4>1 DEF FindingsOf
      <4>3. QED
        BY <1>3, <2>3, <2>5, <2>6, <3>3, <4>2 DEF Truth
    <3>5. \A b \in Needed(s) : <<b, s, v>> \in measured
      BY <2>5, <3>3 DEF Needed
    <3>6. QED
      BY <1>1, <1>7, <2>1, <3>4, <3>5 DEF CleanRecordMeasured
  <2>7. CASE Kind[s] # "npm"
    <3>1. DOMAIN evidence = {"registryDocument"}
      BY <1>3, <2>7 DEF Needed
    <3>2. FindingsOf(evidence) = evidence["registryDocument"].findings
      BY <3>1 DEF FindingsOf
    <3>3. FindingsOf(evidence) = Truth(s, v)
      BY <1>3, <2>3, <2>5, <2>7, <3>2 DEF Truth
    <3>4. \A b \in Needed(s) : <<b, s, v>> \in measured
      BY <2>5, <2>7 DEF Needed
    <3>5. QED
      BY <1>1, <1>7, <2>1, <3>3, <3>4 DEF CleanRecordMeasured
  <2>8. QED
    BY <2>6, <2>7
<1>11. QED
  BY <1>7, <1>8, <1>9, <1>10 DEF record

(* A repository is listed as incomplete, audited or not, and its source    *)
(* was indeed not read.                                                    *)
LEMMA RepositoryRecordFacts ==
  ASSUME NEW repo \in Repo, NEW audited
  PROVE  LET record == repositoryRecord(repo, repo \in audited)
         IN  /\ IsRecord(record) /\ record.server = repo /\ record.verdict = "incomplete"
             /\ Reasoned(record)
<1> DEFINE seen == repo \in audited
           record == repositoryRecord(repo, seen)
<1> USE RefreshAssumption
<1>1. /\ record.server = repo /\ record.version = 0 /\ record.verdict = "incomplete"
      /\ DOMAIN record.evidence = {"repositoryMetadata"} \cup (IF seen THEN {"packageManifest"} ELSE {})
      /\ DOMAIN record.execution = {"repositoryMetadata", "packageManifest", "repositorySource"}
  BY DEF repositoryRecord
<1>2. \A f \in SUBSET Severity : Answer(f) \in Block
  BY DEF Answer, Block
<1>3. RepoMetadata[repo] \in SUBSET Severity /\ RepoPackage[repo] \in SUBSET Severity
  BY RanksAreSeverities
<1>4. record.evidence \in [DOMAIN record.evidence -> Block]
  BY <1>1, <1>2, <1>3 DEF repositoryRecord
<1>5. record.execution \in [DOMAIN record.execution -> Component]
  BY <1>1 DEF repositoryRecord, Component
<1>6. ~Complete(record.execution)
  <2>1. record.execution["repositorySource"] = [required |-> TRUE, status |-> "skipped"]
    BY DEF repositoryRecord
  <2>2. QED
    BY <1>1, <2>1 DEF Complete, RequiredOf, componentComplete
<1>7. IsRecord(record)
  BY <1>1, <1>4, <1>5 DEF IsRecord, BlockName
<1>8. QED
  BY <1>1, <1>6, <1>7 DEF Reasoned

(* Joined from true rows and true results, an index may be published. *)
LEMMA JoinIsTrue ==
  ASSUME NEW rows \in SUBSET Row, NEW results \in SUBSET Result,
         NEW repos \in SUBSET Repo, NEW audited \in SUBSET Repo,
         \A row \in rows : RowTrue(row), \A r \in results : ResultTrue(r), OneRowEach(rows)
  PROVE  Published(buildIndex(rows, results, repos, audited))
<1> DEFINE index == buildIndex(rows, results, repos, audited)
           ofRows == {registryRecord(row, results) : row \in rows}
           taken == UNION {RepoOf[row.server] : row \in rows}
           ofRepos == {repositoryRecord(repo, repo \in audited) : repo \in repos \ taken}
<1>1. \A row \in rows : row.server \in Server
  BY DEF Row
<1>2. \A row \in rows :
         LET record == registryRecord(row, results)
         IN  /\ IsRecord(record) /\ record.server = row.server /\ Reasoned(record)
             /\ record.verdict = "clean" => CleanRecordMeasured(record)
  BY RegistryRecordIsTrue
<1>3. \A repo \in Repo :
         LET record == repositoryRecord(repo, repo \in audited)
         IN  /\ IsRecord(record) /\ record.server = repo /\ record.verdict = "incomplete"
             /\ Reasoned(record)
  BY RepositoryRecordFacts
<1>4. ASSUME NEW r \in index
      PROVE  r \in ofRows \/ r \in ofRepos
  BY <1>4 DEF buildIndex
<1> HIDE DEF index
<1>5. ASSUME NEW r \in index
      PROVE  IsRecord(r) /\ Reasoned(r) /\ (r.verdict = "clean" => CleanRecordMeasured(r))
  <2>1. CASE r \in ofRows
    BY <1>2, <2>1
  <2>2. CASE r \in ofRepos
    BY <1>3, <2>2
  <2>3. QED
    BY <1>4, <2>1, <2>2
<1>6. ASSUME NEW r \in index, NEW q \in index
      PROVE  /\ r.server = q.server => r = q
             /\ r.server \in Server => q.server \notin RepoOf[r.server]
  <2>1. CASE r \in ofRows /\ q \in ofRows
    <3>1. PICK row \in rows, other \in rows :
              r = registryRecord(row, results) /\ q = registryRecord(other, results)
      BY <2>1
    <3>2. r.server = row.server /\ q.server = other.server /\ {r.server, q.server} \subseteq Server
      BY <1>1, <1>2, <3>1
    <3>3. r.server = q.server => r = q
      BY <3>1, <3>2 DEF OneRowEach
    <3>4. q.server \notin RepoOf[r.server]
      BY <3>2, RefreshAssumption
    <3>5. QED
      BY <3>3, <3>4
  <2>2. CASE r \in ofRows /\ q \in ofRepos
    <3>1. PICK row \in rows, repo \in repos \ taken :
              r = registryRecord(row, results) /\ q = repositoryRecord(repo, repo \in audited)
      BY <2>2
    <3>2. r.server = row.server /\ q.server = repo /\ repo \in Repo /\ row.server \in Server
      BY <1>1, <1>2, <1>3, <3>1
    <3>3. repo \notin RepoOf[row.server]
      BY <3>1
    <3>4. QED
      BY <3>2, <3>3, RefreshAssumption
  <2>3. CASE r \in ofRepos /\ q \in ofRows
    <3>1. PICK row \in rows, repo \in repos \ taken :
              r = repositoryRecord(repo, repo \in audited) /\ q = registryRecord(row, results)
      BY <2>3
    <3>2. r.server = repo /\ q.server = row.server /\ repo \in Repo /\ row.server \in Server
      BY <1>1, <1>2, <1>3, <3>1
    <3>3. QED
      BY <3>2, RefreshAssumption
  <2>4. CASE r \in ofRepos /\ q \in ofRepos
    <3>1. PICK repo \in repos, other \in repos :
              r = repositoryRecord(repo, repo \in audited) /\ q = repositoryRecord(other, other \in audited)
      BY <2>4
    <3>2. r.server = repo /\ q.server = other /\ {repo, other} \subseteq Repo
      BY <1>3, <3>1
    <3>3. QED
      BY <3>1, <3>2, RefreshAssumption
  <2>5. QED
    BY <1>4, <2>1, <2>2, <2>3, <2>4
<1>7. QED
  BY <1>5, <1>6 DEF Published, index

--------------------------------------------------------------------------------
(* What was measured stays measured. *)

(* What was measured stays measured: a true record stays true. *)
LEMMA TruthStays ==
  ASSUME measured \subseteq measured'
  PROVE  /\ \A row : RowTrue(row) => RowTrue(row)'
         /\ \A r : ResultTrue(r) => ResultTrue(r)'
         /\ \A rows : CensusTrue(rows) => CensusTrue(rows)'
         /\ \A results : GuardTrue(results) => GuardTrue(results)'
         /\ \A index : Published(index) => Published(index)'
<1>1. ASSUME NEW row, RowTrue(row) PROVE RowTrue(row)'
  BY <1>1 DEF RowTrue
<1>2. ASSUME NEW r, ResultTrue(r) PROVE ResultTrue(r)'
  BY <1>2 DEF ResultTrue
<1>3. ASSUME NEW rows, CensusTrue(rows) PROVE CensusTrue(rows)'
  BY <1>1, <1>3 DEF CensusTrue
<1>4. ASSUME NEW results, GuardTrue(results) PROVE GuardTrue(results)'
  BY <1>2, <1>4 DEF GuardTrue
<1>5. ASSUME NEW index, Published(index) PROVE Published(index)'
  BY <1>5 DEF Published, CleanRecordMeasured
<1>6. QED
  BY <1>1, <1>2, <1>3, <1>4, <1>5

(* Files that are not written stay true. *)
LEMMA FilesStay ==
  ASSUME FilesTrue, file' = file, measured \subseteq measured'
  PROVE  FilesTrue'
BY TruthStays DEF FilesTrue, Readable

(* Runs that take no step stay true. *)
LEMMA RunsStay ==
  ASSUME RunsTrue, job' = job, measured \subseteq measured'
  PROVE  RunsTrue'
<1>1. ASSUME NEW j \in Job PROVE RunTrue(job[j])'
  <2>1. RunTrue(job[j]) /\ job'[j] = job[j]
    BY DEF RunsTrue
  <2>2. QED
    BY <2>1, TruthStays DEF RunTrue, TodoApart
<1>2. QED
  BY <1>1 DEF RunsTrue

(* A step of one run leaves the other runs as they were. *)
LEMMA RunsMove ==
  ASSUME RunsTrue, measured \subseteq measured',
         NEW j \in Job, NEW run \in JobState, RunTrue(run)', job' = [job EXCEPT ![j] = run]
  PROVE  RunsTrue'
<1>1. job' \in [Job -> JobState]
  BY DEF RunsTrue
<1>2. ASSUME NEW k \in Job PROVE RunTrue(job[k])'
  <2>1. CASE k = j
    <3>1. job'[k] = run
      BY <2>1 DEF RunsTrue
    <3>2. QED
      BY <3>1 DEF RunTrue, TodoApart
  <2>2. CASE k # j
    <3>1. RunTrue(job[k]) /\ job'[k] = job[k]
      BY <2>2 DEF RunsTrue
    <3>2. QED
      BY <3>1, TruthStays DEF RunTrue, TodoApart
  <2>3. QED
    BY <2>1, <2>2
<1>3. QED
  BY <1>1, <1>2 DEF RunsTrue

(* A step of one run that writes no file, and leaves that run true. *)
LEMMA RunStep ==
  ASSUME IInv, registry' = registry, file' = file, measured \subseteq measured', faults' \in 0..MaxFaults,
         NEW j \in Job, NEW run \in JobState, RunTrue(run)', job' = [job EXCEPT ![j] = run]
  PROVE  IInv'
BY FilesStay, RunsMove DEF IInv

(* A step that ends the run or begins a new one. *)
LEMMA IdleStep ==
  ASSUME IInv, registry' = registry, file' = file, measured' = measured, faults' \in 0..MaxFaults,
         NEW j \in Job, job' = [job EXCEPT ![j] = Idle]
  PROVE  IInv'
<1>1. PICK run \in JobState : run = Idle
  BY DEF Idle, JobState
<1>2. RunTrue(run)'
  BY <1>1 DEF Idle, RunTrue, OneRowEach, TodoApart
<1>3. QED
  BY <1>1, <1>2, RunStep

(* A refresh starts with every server still to audit. *)
LEMMA RefreshStarts ==
  ASSUME IInv, NEW j \in Job, Refresh(j)
  PROVE  IInv'
<1> DEFINE todo == {<<s, registry[s]>> : s \in Server}
<1>1. todo \subseteq Server \X Version /\ \A e, f \in todo : e[1] = f[1] => e = f
  BY DEF IInv
<1>2. PICK run : run = [Idle EXCEPT !.pc = "audit", !.todo = todo]
  OBVIOUS
<1>3. run \in JobState /\ run.pc = "audit" /\ run.todo = todo /\ run.rows = {} /\ run.results = {}
  BY <1>1, <1>2 DEF Idle, JobState
<1>4. RunTrue(run)'
  BY <1>1, <1>3 DEF RunTrue, OneRowEach, TodoApart
<1>5. job' = [job EXCEPT ![j] = run]
  BY <1>2 DEF Refresh
<1>6. QED
  BY <1>3, <1>4, <1>5, RunStep DEF Refresh, IInv

(* The row that is added says what was measured, of a server that had none. *)
LEMMA AddRowKeeps ==
  ASSUME IInv, NEW j \in Job, job[j].pc = "audit", registry' = registry, file' = file,
         measured \subseteq measured', faults' \in 0..MaxFaults,
         NEW e \in job[j].todo, NEW audited \in BOOLEAN, NEW findings \in SUBSET Severity,
         AddRow(j, e[1], e[2], audited, findings),
         RowTrue([server |-> e[1], version |-> e[2], audited |-> audited, findings |-> findings])'
  PROVE  IInv'
<1> DEFINE row == [server |-> e[1], version |-> e[2], audited |-> audited, findings |-> findings]
<1>1. job[j] \in JobState /\ RunTrue(job[j]) /\ job \in [Job -> JobState]
  BY DEF IInv, RunsTrue
<1>2. e \in Server \X Version /\ e = <<e[1], e[2]>>
  BY <1>1 DEF JobState
<1>3. row \in Row
  BY <1>2 DEF Row
<1>4. PICK run : run = [job[j] EXCEPT !.todo = @ \ {e}, !.rows = @ \cup {row}]
  OBVIOUS
<1>5. /\ run \in JobState /\ run.pc = "audit" /\ run.todo = job[j].todo \ {e}
      /\ run.rows = job[j].rows \cup {row} /\ run.results = job[j].results
  BY <1>1, <1>3, <1>4 DEF JobState
<1>6. job' = [job EXCEPT ![j] = run]
  BY <1>1, <1>2, <1>4 DEF AddRow
<1>7. /\ \A f, g \in job[j].todo : f[1] = g[1] => f = g
      /\ \A f \in job[j].todo, other \in job[j].rows : other.server # f[1]
      /\ OneRowEach(job[j].rows)
  BY <1>1 DEF RunTrue, TodoApart
<1>8. \A other \in job[j].rows : other.server # row.server
  BY <1>7
<1>9. OneRowEach(run.rows)
  BY <1>5, <1>7, <1>8 DEF OneRowEach
<1>10. \A f \in run.todo, other \in run.rows : other.server # f[1]
  BY <1>5, <1>7
<1>11. \A other \in run.rows : RowTrue(other)'
  BY <1>1, <1>5, TruthStays DEF RunTrue
<1>12. \A r \in run.results : ResultTrue(r)'
  BY <1>1, <1>5, TruthStays DEF RunTrue
<1>13. RunTrue(run)'
  BY <1>5, <1>7, <1>9, <1>10, <1>11, <1>12 DEF RunTrue, TodoApart
<1>14. QED
  BY <1>5, <1>6, <1>13, RunStep

(* A server is audited on the document the registry answers, or marked. *)
LEMMA AuditServerKeeps ==
  ASSUME IInv, NEW j \in Job, AuditServer(j)
  PROVE  IInv'
<1>1. job[j].pc = "audit" /\ registry' = registry /\ file' = file /\ faults \in 0..MaxFaults
      /\ job[j].todo \subseteq Server \X Version
  BY DEF AuditServer, IInv, RunsTrue, JobState
<1>2. PICK e \in job[j].todo :
          \/ /\ AddRow(j, e[1], e[2], TRUE, Document[<<PackageOf[e[1]], e[2]>>])
             /\ measured' = measured \cup {<<"registryDocument", e[1], e[2]>>}
             /\ UNCHANGED faults
          \/ /\ faults < MaxFaults
             /\ AddRow(j, e[1], e[2], TRUE, {"unknown"})
             /\ faults' = faults + 1
             /\ UNCHANGED measured
          \/ /\ AddRow(j, e[1], e[2], FALSE, {})
             /\ UNCHANGED <<faults, measured>>
  BY DEF AuditServer
<1>3. e[1] \in Server /\ e[2] \in Version
  BY <1>1
<1>4. CASE /\ AddRow(j, e[1], e[2], TRUE, Document[<<PackageOf[e[1]], e[2]>>])
           /\ measured' = measured \cup {<<"registryDocument", e[1], e[2]>>}
           /\ UNCHANGED faults
  <2>1. Document[<<PackageOf[e[1]], e[2]>>] \in SUBSET Severity
    BY <1>3, RefreshAssumption DEF Release
  <2>2. RowTrue([server |-> e[1], version |-> e[2], audited |-> TRUE,
                 findings |-> Document[<<PackageOf[e[1]], e[2]>>]])'
    BY <1>4 DEF RowTrue
  <2>3. QED
    BY <1>1, <1>4, <2>1, <2>2, AddRowKeeps
<1>5. CASE /\ faults < MaxFaults
           /\ AddRow(j, e[1], e[2], TRUE, {"unknown"})
           /\ faults' = faults + 1
           /\ UNCHANGED measured
  <2>1. {"unknown"} \in SUBSET Severity /\ faults' \in 0..MaxFaults
    BY <1>1, <1>5, RanksAreSeverities, RefreshAssumption
  <2>2. RowTrue([server |-> e[1], version |-> e[2], audited |-> TRUE, findings |-> {"unknown"}])'
    BY DEF RowTrue
  <2>3. QED
    BY <1>1, <1>5, <2>1, <2>2, AddRowKeeps
<1>6. CASE /\ AddRow(j, e[1], e[2], FALSE, {})
           /\ UNCHANGED <<faults, measured>>
  <2>1. RowTrue([server |-> e[1], version |-> e[2], audited |-> FALSE, findings |-> {}])'
    BY DEF RowTrue
  <2>2. {} \in SUBSET Severity /\ faults' \in 0..MaxFaults /\ measured \subseteq measured'
    BY <1>1, <1>6
  <2>3. QED
    BY <1>1, <1>6, <2>1, <2>2, AddRowKeeps
<1>7. QED
  BY <1>2, <1>4, <1>5, <1>6

(* A scan takes its releases from the census it read. *)
LEMMA ReadCensusKeeps ==
  ASSUME IInv, NEW j \in Job, ReadCensus(j)
  PROVE  IInv'
<1>1. registry' = registry /\ file' = file /\ measured' = measured /\ faults' \in 0..MaxFaults
  BY DEF ReadCensus, IInv
<1>2. CASE Readable("census")
  <2> DEFINE todo == {<<row.server, row.version>> : row \in Considered(file.census)}
  <2>1. file.census \subseteq Row
    BY <1>2 DEF IInv, FilesTrue, Readable
  <2>2. Considered(file.census) \subseteq file.census
    BY DEF Considered
  <2>3. todo \subseteq Server \X Version
    BY <2>1, <2>2 DEF Row
  <2>4. PICK run : run = [Idle EXCEPT !.pc = "scan", !.todo = todo]
    OBVIOUS
  <2>5. run \in JobState /\ run.pc = "scan" /\ run.rows = {} /\ run.results = {}
    BY <2>3, <2>4 DEF Idle, JobState
  <2>6. RunTrue(run)'
    BY <2>5 DEF RunTrue, OneRowEach, TodoApart
  <2>7. job' = [job EXCEPT ![j] = run]
    BY <1>2, <2>4 DEF ReadCensus
  <2>8. QED
    BY <1>1, <2>5, <2>6, <2>7, RunStep
<1>3. CASE ~Readable("census")
  BY <1>1, <1>3, IdleStep DEF ReadCensus
<1>4. QED
  BY <1>2, <1>3

(* A result that is true of its release joins the results of its run. *)
LEMMA AddResultKeeps ==
  ASSUME IInv, NEW j \in Job, job[j].pc = "scan", registry' = registry, file' = file,
         measured \subseteq measured', faults' \in 0..MaxFaults,
         NEW e \in job[j].todo, NEW findings \in SUBSET DOMAIN RANK,
         NEW status \in {"clean", "findings", "metadata-unavailable", "check-failed"},
         AddResult(j, e[1], e[2], status, findings),
         ResultTrue([server |-> e[1], version |-> e[2], status |-> status, findings |-> findings])'
  PROVE  IInv'
<1> DEFINE result == [server |-> e[1], version |-> e[2], status |-> status, findings |-> findings]
<1>1. job[j] \in JobState /\ RunTrue(job[j]) /\ job \in [Job -> JobState]
  BY DEF IInv, RunsTrue
<1>2. e \in Server \X Version /\ e = <<e[1], e[2]>>
  BY <1>1 DEF JobState
<1>3. result \in Result
  BY <1>2 DEF Result
<1>4. PICK run : run = [job[j] EXCEPT !.todo = @ \ {e}, !.results = @ \cup {result}]
  OBVIOUS
<1>5. /\ run \in JobState /\ run.pc = "scan" /\ run.rows = job[j].rows
      /\ run.results = job[j].results \cup {result}
  BY <1>1, <1>3, <1>4 DEF JobState
<1>6. job' = [job EXCEPT ![j] = run]
  BY <1>1, <1>2, <1>4 DEF AddResult
<1>7. \A r \in run.results : ResultTrue(r)'
  BY <1>1, <1>5, TruthStays DEF RunTrue
<1>8. \A row \in run.rows : RowTrue(row)'
  BY <1>1, <1>5, TruthStays DEF RunTrue
<1>9. RunTrue(run)'
  BY <1>1, <1>5, <1>7, <1>8 DEF RunTrue, TodoApart
<1>10. QED
  BY <1>5, <1>6, <1>9, RunStep

(* A package is scanned on the manifest that was fetched, or marked. *)
LEMMA ScanPackageKeeps ==
  ASSUME IInv, NEW j \in Job, ScanPackage(j)
  PROVE  IInv'
<1>1. job[j].pc = "scan" /\ registry' = registry /\ file' = file /\ faults \in 0..MaxFaults
      /\ job[j].todo \subseteq Server \X Version
  BY DEF ScanPackage, IInv, RunsTrue, JobState
<1> DEFINE found(e) == Manifest[<<PackageOf[e[1]], e[2]>>]
           answer(e) == IF found(e) # {} THEN "findings" ELSE "clean"
<1>2. PICK e \in job[j].todo :
          \/ /\ AddResult(j, e[1], e[2], answer(e), found(e))
             /\ measured' = measured \cup {<<"packageManifest", e[1], e[2]>>}
             /\ UNCHANGED faults
          \/ /\ faults < MaxFaults
             /\ \E status \in {"metadata-unavailable", "check-failed"} :
                   AddResult(j, e[1], e[2], status, {})
             /\ faults' = faults + 1
             /\ UNCHANGED measured
  BY DEF ScanPackage
<1>3. e[1] \in Server /\ e[2] \in Version
  BY <1>1
<1>4. CASE /\ AddResult(j, e[1], e[2], answer(e), found(e))
           /\ measured' = measured \cup {<<"packageManifest", e[1], e[2]>>}
           /\ UNCHANGED faults
  <2>1. found(e) \in SUBSET DOMAIN RANK
    BY <1>3, RefreshAssumption DEF Release
  <2>2. PICK status \in {"clean", "findings"} : status = answer(e)
    OBVIOUS
  <2>3. ResultTrue([server |-> e[1], version |-> e[2], status |-> status, findings |-> found(e)])'
    BY <1>4 DEF ResultTrue
  <2>4. faults' \in 0..MaxFaults /\ measured \subseteq measured'
    BY <1>1, <1>4
  <2> HIDE DEF found, answer
  <2>5. QED
    BY <1>1, <1>4, <2>1, <2>2, <2>3, <2>4, AddResultKeeps
<1>5. CASE /\ faults < MaxFaults
           /\ \E status \in {"metadata-unavailable", "check-failed"} :
                 AddResult(j, e[1], e[2], status, {})
           /\ faults' = faults + 1
           /\ UNCHANGED measured
  <2>1. PICK status \in {"metadata-unavailable", "check-failed"} : AddResult(j, e[1], e[2], status, {})
    BY <1>5
  <2>2. ResultTrue([server |-> e[1], version |-> e[2], status |-> status, findings |-> {}])'
    BY DEF ResultTrue, Measured
  <2>3. {} \in SUBSET DOMAIN RANK /\ faults' \in 0..MaxFaults /\ measured \subseteq measured'
    BY <1>1, <1>5, RefreshAssumption
  <2>4. QED
    BY <1>1, <1>5, <2>1, <2>2, <2>3, AddResultKeeps
<1>6. QED
  BY <1>2, <1>4, <1>5

(* What build-index.mjs reads of an artifact is what the artifact says. *)
LEMMA ReadRowsKeeps ==
  ASSUME IInv, NEW j \in Job, ReadRows(j)
  PROVE  IInv'
<1>1. registry' = registry /\ file' = file /\ measured' = measured /\ faults' \in 0..MaxFaults
  BY DEF ReadRows, IInv
<1>2. CASE Readable("census")
  <2>1. file.census \subseteq Row /\ CensusTrue(file.census)
    BY <1>2 DEF IInv, FilesTrue, Readable
  <2>2. PICK run : run = [Idle EXCEPT !.pc = "results", !.rows = file.census]
    OBVIOUS
  <2>3. run \in JobState /\ run.pc = "results" /\ run.rows = file.census /\ run.results = {}
    BY <2>1, <2>2 DEF Idle, JobState
  <2>4. RunTrue(run)'
    BY <1>1, <2>1, <2>3, TruthStays DEF RunTrue, CensusTrue, TodoApart
  <2>5. job' = [job EXCEPT ![j] = run]
    BY <1>2, <2>2 DEF ReadRows
  <2>6. QED
    BY <1>1, <2>3, <2>4, <2>5, RunStep
<1>3. CASE ~Readable("census")
  BY <1>1, <1>3, IdleStep DEF ReadRows
<1>4. QED
  BY <1>2, <1>3

(* The refresh takes the results of the scan as they are on disk. *)
LEMMA ReadResultsKeeps ==
  ASSUME IInv, NEW j \in Job, ReadResults(j)
  PROVE  IInv'
<1>1. registry' = registry /\ file' = file /\ measured' = measured /\ faults' \in 0..MaxFaults
  BY DEF ReadResults, IInv
<1>2. job[j] \in JobState /\ RunTrue(job[j]) /\ job \in [Job -> JobState]
  BY DEF IInv, RunsTrue
<1>3. PICK results : results = IF j \in Daily /\ Readable("guard") THEN file.guard ELSE {}
  OBVIOUS
<1>4. results \subseteq Result /\ GuardTrue(results)
  BY <1>3 DEF IInv, FilesTrue, Readable, GuardTrue
<1>5. PICK run : run = [job[j] EXCEPT !.pc = "repos", !.results = results]
  OBVIOUS
<1>6. run \in JobState /\ run.pc = "repos" /\ run.rows = job[j].rows /\ run.results = results
  BY <1>2, <1>4, <1>5 DEF JobState
<1>7. RunTrue(run)'
  BY <1>1, <1>2, <1>4, <1>6, TruthStays DEF RunTrue, GuardTrue, TodoApart
<1>8. job' = [job EXCEPT ![j] = run]
  BY <1>2, <1>3, <1>5 DEF ReadResults
<1>9. QED
  BY <1>1, <1>6, <1>7, <1>8, RunStep

(* Steps that move on and keep what was read. *)
LEMMA MoveOnKeeps ==
  ASSUME IInv, NEW j \in Job, registry' = registry, file' = file, measured' = measured, faults' = faults,
         NEW pc \in {"write", "fill", "idle"}, NEW out \in {"census", "guard", "packageAudit", "index"},
         NEW repos \in SUBSET Repo, NEW audited \in SUBSET Repo,
         job' = [job EXCEPT ![j] = [@ EXCEPT !.pc = pc, !.out = out, !.repos = repos, !.audited = audited]]
  PROVE  IInv'
<1>1. job[j] \in JobState /\ RunTrue(job[j]) /\ job \in [Job -> JobState]
  BY DEF IInv, RunsTrue
<1>2. PICK run : run = [job[j] EXCEPT !.pc = pc, !.out = out, !.repos = repos, !.audited = audited]
  OBVIOUS
<1>3. /\ run \in JobState /\ run.pc = pc /\ run.out = out
      /\ run.rows = job[j].rows /\ run.results = job[j].results
  BY <1>1, <1>2 DEF JobState
<1>4. RunTrue(run)'
  BY <1>1, <1>3, TruthStays DEF RunTrue, TodoApart
<1>5. QED
  BY <1>1, <1>2, <1>3, <1>4, RunStep DEF IInv

(* The refresh takes the repositories as they are on disk. *)
LEMMA ReadReposKeeps ==
  ASSUME IInv, NEW j \in Job, ReadRepos(j)
  PROVE  IInv'
<1>0. Readable("packageAudit") => file.packageAudit \in SUBSET Repo
  BY DEF IInv, FilesTrue, Readable
<1>a. PICK repos \in SUBSET Repo : repos = IF Readable("github") THEN Repo ELSE {}
  OBVIOUS
<1>1. PICK audited \in SUBSET Repo : audited = IF Readable("packageAudit") THEN file.packageAudit ELSE {}
  BY <1>0
<1>2. job \in [Job -> JobState] /\ job[j] \in JobState
  BY DEF IInv, RunsTrue
<1>3. job' = [job EXCEPT ![j] = [@ EXCEPT !.pc = "write", !.out = "index", !.repos = repos, !.audited = audited]]
  BY <1>a, <1>1, <1>2 DEF ReadRepos
<1>4. registry' = registry /\ file' = file /\ measured' = measured /\ faults' = faults
  BY DEF ReadRepos
<1>5. QED
  BY <1>3, <1>4, MoveOnKeeps, Zenon

(* A finished audit or scan turns to writing what its run holds. *)
LEMMA FinishKeeps ==
  ASSUME IInv, NEW j \in Job, FinishAudit(j) \/ FinishScan(j)
  PROVE  IInv'
<1>1. PICK out \in {"census", "guard"} : job' = [job EXCEPT ![j].pc = "write", ![j].out = out]
  BY DEF FinishAudit, FinishScan, Finish
<1>2. job \in [Job -> JobState] /\ job[j] \in JobState /\ job[j].repos \in SUBSET Repo
      /\ job[j].audited \in SUBSET Repo
  BY DEF IInv, RunsTrue, JobState
<1>3. job' = [job EXCEPT ![j] = [@ EXCEPT !.pc = "write", !.out = out, !.repos = job[j].repos,
                                         !.audited = job[j].audited]]
  BY <1>1, <1>2 DEF JobState
<1>4. QED
  BY <1>2, <1>3, MoveOnKeeps DEF FinishAudit, FinishScan, Finish

(* The package audit names the repositories that are declared. *)
LEMMA AuditPackagesKeeps ==
  ASSUME IInv, NEW j \in Job, AuditPackages(j)
  PROVE  IInv'
<1>1. PICK run : run = [Idle EXCEPT !.pc = "write", !.out = "packageAudit", !.audited = Declared]
  OBVIOUS
<1>2. run \in JobState /\ run.pc = "write" /\ run.out = "packageAudit" /\ run.rows = {} /\ run.results = {}
  BY <1>1, RefreshAssumption DEF Idle, JobState
<1>3. RunTrue(run)'
  BY <1>2 DEF RunTrue, OneRowEach, TodoApart
<1>4. QED
  BY <1>1, <1>2, <1>3, RunStep DEF AuditPackages, IInv

(* A torn file says nothing. *)
LEMMA TearKeepsFiles ==
  ASSUME FilesTrue, measured' = measured, NEW name \in FileName \ {"github"},
         file' = [file EXCEPT ![name] = Torn]
  PROVE  FilesTrue'
<1>1. DOMAIN file' = FileName /\ file'[name] = Torn /\ \A f \in FileName \ {name} : file'[f] = file[f]
  BY DEF FilesTrue
<1>2. QED
  BY <1>1, TruthStays DEF FilesTrue, FileName, Readable

(* Opening a file for writing empties it. *)
LEMMA TruncateKeeps ==
  ASSUME IInv, NEW j \in Job, Truncate(j)
  PROVE  IInv'
<1>1. job[j] \in JobState /\ RunTrue(job[j]) /\ job \in [Job -> JobState] /\ job[j].pc = "write"
  BY DEF IInv, RunsTrue, Truncate
<1>2. job[j].out \in FileName \ {"github"}
  BY <1>1 DEF RunTrue, JobState, FileName
<1>3. FilesTrue'
  BY <1>2, TearKeepsFiles DEF Truncate, IInv
<1>4. PICK run : run = [job[j] EXCEPT !.pc = "fill"]
  OBVIOUS
<1>5. /\ run \in JobState /\ run.pc = "fill" /\ run.out = job[j].out
      /\ run.rows = job[j].rows /\ run.results = job[j].results
  BY <1>1, <1>4 DEF JobState
<1>6. job' = [job EXCEPT ![j] = run] /\ measured' = measured
  BY <1>1, <1>4 DEF Truncate
<1>7. RunTrue(run)'
  BY <1>1, <1>2, <1>5, <1>6, TruthStays DEF RunTrue, TodoApart, FileName
<1>8. RunsTrue'
  BY <1>5, <1>6, <1>7, RunsMove DEF IInv
<1>9. QED
  BY <1>3, <1>8 DEF Truncate, IInv

(* What a run writes is true: its rows, its results, or the join of both. *)
LEMMA FillKeepsFiles ==
  ASSUME FilesTrue, measured' = measured, NEW j \in Job, job[j] \in JobState, RunTrue(job[j]),
         job[j].pc = "fill", file' = [file EXCEPT ![job[j].out] = Contents(j)]
  PROVE  FilesTrue'
<1> DEFINE out == job[j].out
<1>1. out \in FileName \ {"github"}
  BY DEF RunTrue, JobState, FileName
<1>2. DOMAIN file' = FileName /\ file'[out] = Contents(j) /\ \A f \in FileName \ {out} : file'[f] = file[f]
  BY <1>1 DEF FilesTrue
<1>3. /\ job[j].rows \subseteq Row /\ job[j].results \subseteq Result
      /\ job[j].repos \subseteq Repo /\ job[j].audited \subseteq Repo
  BY DEF JobState
<1>4. CensusTrue(job[j].rows) /\ GuardTrue(job[j].results)
  BY DEF RunTrue, CensusTrue, GuardTrue
<1>5. CASE out = "census"
  BY <1>2, <1>3, <1>4, <1>5, TruthStays DEF FilesTrue, FileName, Readable, Contents
<1>6. CASE out = "guard"
  BY <1>2, <1>3, <1>4, <1>6, TruthStays DEF FilesTrue, FileName, Readable, Contents
<1>7. CASE out = "packageAudit"
  BY <1>2, <1>3, <1>7, TruthStays DEF FilesTrue, FileName, Readable, Contents
<1>8. CASE out = "index"
  <2>1. PICK joined : joined = buildIndex(job[j].rows, job[j].results, job[j].repos, job[j].audited)
    OBVIOUS
  <2>2. Published(joined)
    BY <1>3, <1>4, <2>1, JoinIsTrue DEF CensusTrue, GuardTrue
  <2>3. file'["index"] = joined
    BY <1>2, <1>8, <2>1 DEF Contents
  <2>4. QED
    BY <1>2, <1>8, <2>2, <2>3, TruthStays DEF FilesTrue, FileName, Readable
<1>9. QED
  BY <1>1, <1>5, <1>6, <1>7, <1>8 DEF FileName

(* What is written into a file is what its run holds. *)
LEMMA FillKeeps ==
  ASSUME IInv, NEW j \in Job, Fill(j)
  PROVE  IInv'
<1>1. job[j] \in JobState /\ RunTrue(job[j]) /\ job[j].pc = "fill"
  BY DEF IInv, RunsTrue, Fill
<1>2. FilesTrue'
  BY <1>1, FillKeepsFiles DEF Fill, IInv
<1>3. PICK step : step = After[job[j].out]
  OBVIOUS
<1>4. step \in {"guard", "rows", "idle"}
  BY <1>1, <1>3 DEF After, RunTrue, JobState
<1>5. PICK run : run = [Idle EXCEPT !.pc = step]
  OBVIOUS
<1>6. run \in JobState /\ run.pc = step /\ run.rows = {} /\ run.results = {}
  BY <1>4, <1>5 DEF Idle, JobState
<1>7. job' = [job EXCEPT ![j] = run] /\ measured' = measured
  BY <1>3, <1>5 DEF Fill
<1>8. RunTrue(run)'
  BY <1>4, <1>6 DEF RunTrue, OneRowEach, TodoApart
<1>9. RunsTrue'
  BY <1>6, <1>7, <1>8, RunsMove DEF IInv
<1>10. QED
  BY <1>2, <1>9 DEF Fill, IInv

(* A killed run leaves the files as they are and forgets its own. *)
LEMMA KillKeeps ==
  ASSUME IInv, NEW j \in Job, Kill(j)
  PROVE  IInv'
<1>1. faults' \in 0..MaxFaults
  BY RefreshAssumption DEF Kill, IInv
<1>2. QED
  BY <1>1, IdleStep DEF Kill

(* What happens outside the runs: a release, and the topic census. *)
LEMMA PublishKeeps ==
  ASSUME IInv, NEW s \in Server, Publish(s)
  PROVE  IInv'
<1>1. registry' \in [Server -> Version]
  BY RefreshAssumption DEF IInv, Publish, Version
<1>2. QED
  BY <1>1, RunsStay, FilesStay DEF IInv, Publish

(* A census of repositories replaces its own file only. *)
LEMMA GithubCensusKeeps ==
  ASSUME IInv, GithubCensus
  PROVE  IInv'
<1>1. DOMAIN file' = FileName /\ file'["github"] \in {Torn, Repo}
      /\ \A f \in FileName \ {"github"} : file'[f] = file[f]
  BY DEF GithubCensus, IInv, FilesTrue, FileName
<1>2. FilesTrue'
  BY <1>1, TruthStays DEF IInv, GithubCensus, FilesTrue, FileName, Readable
<1>3. QED
  BY <1>2, RunsStay DEF IInv, GithubCensus

--------------------------------------------------------------------------------
(* The invariant holds when nothing has run. *)
LEMMA InitIInv == Init => IInv
<1> SUFFICES ASSUME Init PROVE IInv
  OBVIOUS
<1>1. registry \in [Server -> Version] /\ faults \in 0..MaxFaults
  BY RefreshAssumption DEF Init, Version
<1>2. Idle \in JobState /\ RunTrue(Idle)
  BY DEF Idle, JobState, RunTrue, OneRowEach, TodoApart
<1>3. RunsTrue
  BY <1>2 DEF Init, RunsTrue
<1>4. FilesTrue
  BY DEF Init, FilesTrue, FileName, Readable
<1>5. QED
  BY <1>1, <1>3, <1>4 DEF IInv

(* The invariant is inductive. *)
LEMMA NextIInv == IInv /\ [Next]_vars => IInv'
<1> SUFFICES ASSUME IInv, [Next]_vars PROVE IInv'
  OBVIOUS
<1>1. ASSUME NEW j \in Job, Step(j) PROVE IInv'
  BY <1>1, RefreshStarts, AuditPackagesKeeps, AuditServerKeeps, FinishKeeps, ReadCensusKeeps, ScanPackageKeeps,
     ReadRowsKeeps, ReadResultsKeeps, ReadReposKeeps, TruncateKeeps, FillKeeps DEF Step
<1>2. CASE UNCHANGED vars
  BY <1>2, RunsStay, FilesStay DEF IInv, vars
<1>3. QED
  BY <1>1, <1>2, KillKeeps, PublishKeeps, GithubCensusKeeps DEF Next

(* The invariant holds in every reachable state. *)
LEMMA SpecIInv == Spec => []IInv
<1>1. QED
  BY InitIInv, NextIInv, PTL DEF Spec

(* "clean" is emitted only when every check ran (README.md of the          *)
(* repository): for any number of overlapping runs, servers, releases and  *)
(* faults, a record of a readable index that build-index.mjs called clean  *)
(* has each of its checks measured on the release it names, and none of    *)
(* them found anything at the threshold.                                   *)
THEOREM CleanIsMeasured == Spec => []CleanMeansMeasured
<1>1. IInv => CleanMeansMeasured
  BY DEF IInv, FilesTrue, Published, CleanMeansMeasured
<1>2. QED
  BY <1>1, SpecIInv, PTL

(* Whoever rebuilt it, and whatever it was joined from, a readable index   *)
(* is consistent in itself: the state keeps its types, every verdict has   *)
(* its reason in the record, and no server, and no repository a server     *)
(* names, has a second record (repository-records.mjs).                    *)
THEOREM IndexStaysConsistent == Spec => []IndexIsConsistent
<1>1. ASSUME IInv PROVE TypeOK
  <2>1. ASSUME NEW j \in Job
        PROVE  /\ job[j].pc \in {"idle", "audit", "guard", "scan", "rows", "results", "repos", "write", "fill"}
               /\ job[j].out \in {"none", "census", "guard", "packageAudit", "index"}
               /\ job[j].todo \subseteq Server \X Version
               /\ job[j].rows \subseteq Row /\ job[j].results \subseteq Result
               /\ job[j].repos \subseteq Repo /\ job[j].audited \subseteq Repo
    BY <1>1 DEF IInv, RunsTrue, JobState
  <2>2. Readable("index") => \A r \in file.index : IsRecord(r)
    BY <1>1 DEF IInv, FilesTrue, Published
  <2>3. QED
    BY <1>1, <2>1, <2>2 DEF IInv, FilesTrue, TypeOK
<1>2. ASSUME IInv PROVE VerdictsAreReasoned /\ OneRecordEach
  BY <1>2 DEF IInv, FilesTrue, Published, VerdictsAreReasoned, OneRecordEach
<1>3. IInv => IndexIsConsistent
  BY <1>1, <1>2 DEF IndexIsConsistent
<1>4. QED
  BY <1>3, SpecIInv, PTL
================================================================================
