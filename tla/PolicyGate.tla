------------------------------- MODULE PolicyGate -------------------------------
(***************************************************************************)
(* "agentgate check" and "agentgate audit": the guard's checks run over    *)
(* each root, the policy is evaluated over what they found and over the    *)
(* index records of the root's package, and the whole ends in one exit     *)
(* code, which is what a build stops on.                                   *)
(*                                                                         *)
(* A check reads files in one of four ways (guard/src/checks):             *)
(*   config   fixed names; notes the file that does not parse              *)
(*   fixed    fixed names; a file that does not parse yields nothing       *)
(*   text     walks the tree; the text is not parsed                       *)
(*   json     walks the tree; a file that cannot be read or parsed is      *)
(*            passed over                                                  *)
(* In the first three a file that cannot be read fails the check.          *)
(***************************************************************************)
EXTENDS Verdict, Sequences, SequencesExt

CONSTANTS
    ALL_CHECKS,     \* the checks, in their order
    Way,            \* check -> "config", "fixed", "text" or "json"
    Files,          \* file names a check may look at
    Reads,          \* check -> the files it looks at
    Excluded,       \* --exclude, as the files it covers
    Commands,       \* "check" scans the first root, "audit" each of them
    Roots,          \* --root, or --roots in order
    Worlds,         \* states a root may be in
    Policies,       \* root -> its policy: --policy, or the file in the root
    Requests,       \* --checks: the checks asked for
    Absent,         \* there is no such file, root or execution record
    NoExit,         \* the command has not ended
    Unreadable,     \* a file too large, or one that may not be read
    Unparsed,       \* a file that is not JSON
    Malformed       \* a policy or an index that is refused

(* A file is absent, beyond reading, not JSON, or has findings: the set of *)
(* their severities, empty when it is fine.  A root is absent or a file    *)
(* system with the index records of its package, or a refused index.  A    *)
(* record says of itself which scanners ran, or says nothing of it.        *)
State == {Absent, Unreadable, Unparsed} \cup SUBSET DOMAIN RANK
BlockName == {"registryDocument", "packageManifest"}
IndexRecord == [server : {"plain", "refused"}, pinned : BOOLEAN,
                evidence : UNION {[B -> Block] : B \in SUBSET BlockName},
                execution : {Absent} \cup UNION {[B -> Component] : B \in SUBSET BlockName}]
Root == [files : [Files -> State], records : {Malformed} \cup SUBSET IndexRecord]

(* measuredEvidence, requiredScanners, pinPackages, forbiddenSeverities    *)
(* and forbiddenServers of a normalised policy.                            *)
Policy == [threshold : DOMAIN RANK, measured : SUBSET BlockName, scanners : SUBSET BlockName,
           pinned : BOOLEAN, severities : SUBSET DOMAIN RANK, servers : SUBSET {"refused"}]

ASSUME PolicyGateAssumption ==
    /\ ALL_CHECKS \in Seq(Range(ALL_CHECKS))
    /\ Roots \in Seq(Range(Roots))
    /\ \A w \in Worlds : w \in [Range(Roots) -> {Absent} \cup Root]
    /\ NoExit \notin 0..3 /\ Unreadable # Absent
    /\ Way \in [Range(ALL_CHECKS) -> {"config", "fixed", "text", "json"}]
    /\ Reads \in [Range(ALL_CHECKS) -> SUBSET Files]
    /\ Excluded \subseteq Files
    /\ Commands \subseteq {"check", "audit"}
    /\ Len(Roots) > 0
    /\ \A p \in Policies : p \in [Range(Roots) -> {Malformed} \cup Policy]
    /\ Requests \subseteq SUBSET Range(ALL_CHECKS)

VARIABLES
    command,        \* "check" or "audit"
    world,          \* root -> what is there
    policy,         \* root -> the policy in force
    requested,      \* the checks of this run
    next,           \* the root being scanned, by number
    check,          \* the check to run next, by number
    scan,           \* coverage and findings of the scan so far
    entries,        \* one entry per finished root
    exit            \* the exit code, or NoExit

vars == <<command, world, policy, requested, next, check, scan, entries, exit>>

NumRoots == IF command = "check" THEN 1 ELSE Len(Roots)

(* A check does not ask whether its root is there: it reads an empty tree. *)
Content(r) ==
    IF world[r] = Absent THEN [files |-> [f \in Files |-> Absent], records |-> {}] ELSE world[r]
Skips(r) == command = "audit" /\ world[r] = Absent

NoScan == [findings |-> {}, checksRun |-> {}, checksFailed |-> {}, unparsed |-> {}]

Init ==
    /\ command \in Commands
    /\ world \in Worlds
    /\ policy \in Policies
    /\ requested \in Requests
    /\ next = 1
    /\ check = 1
    /\ scan = NoScan
    /\ entries = <<>>
    /\ exit = NoExit

--------------------------------------------------------------------------------
(* engine.mjs *)

(* What a check finds in a file it could read. *)
FindingsIn(c, f, state) ==
    LET severities == IF state # Unparsed THEN state
                      ELSE IF Way[c] = "config" THEN {"low"} ELSE {}
    IN  {[file |-> f, severity |-> s] : s \in severities}

(* The files of the root a check opens. *)
Opens(c, root) == {f \in Reads[c] : root.files[f] # Absent}
Throws(c, root) ==
    /\ Way[c] # "json"
    /\ \E f \in Opens(c, root) : root.files[f] = Unreadable
Assessed(c, root) == {f \in Opens(c, root) : root.files[f] # Unreadable}

(* One check: what it throws is caught, and the scan goes on. *)
RunCheck ==
    /\ exit = NoExit
    /\ next <= NumRoots /\ check <= Len(ALL_CHECKS)
    /\ ~Skips(Roots[next]) /\ policy[Roots[next]] # Malformed
    /\ LET c == ALL_CHECKS[check]
           root == Content(Roots[next])
       IN  scan' =
             IF c \notin requested THEN scan
             ELSE IF Throws(c, root) THEN [scan EXCEPT !.checksFailed = @ \cup {c}]
             ELSE [scan EXCEPT
                     !.checksRun = @ \cup {c},
                     !.findings = @ \cup UNION {FindingsIn(c, f, root.files[f]) : f \in Assessed(c, root)},
                     !.unparsed = @ \cup (IF Way[c] # "config" THEN {}
                                          ELSE {f \in Opens(c, root) : root.files[f] = Unparsed})]
    /\ check' = check + 1
    /\ UNCHANGED <<command, world, policy, requested, next, entries, exit>>

--------------------------------------------------------------------------------
(* evaluate.mjs *)

(* Mutant: what is forbidden is only looked for at the threshold. *)
MutRefusedFindings(p, s) ==
    {f \in s.findings :
        /\ f.file \notin Excluded
        /\ RANK[f.severity] >= RANK[p.threshold]}

(* What was found in an excluded file was dropped by the engine. *)
RefusedFindings(p, s) ==
    {f \in s.findings :
        /\ f.file \notin Excluded
        /\ f.severity \in p.severities \/ RANK[f.severity] >= RANK[p.threshold]}
ForbiddenServers(p, records) == {r \in records : r.server \in p.servers}

(* Evidence the policy asks for and nobody has. *)
EvidenceMissing(p, records) ==
    \/ /\ records = {}
       /\ p.measured # {} \/ p.scanners # {} \/ p.pinned \/ p.servers # {}
    \/ \E r \in records :
         \/ \E b \in p.measured : b \notin DOMAIN r.evidence \/ ~Measured(r.evidence[b])
         \/ p.pinned /\ ~r.pinned

RanIn(execution, c) ==
    execution # Absent /\ c \in DOMAIN execution /\ componentComplete(execution[c])

(* Mutant: only what the policy names has to be complete. *)
MutExecutionIncomplete(p, records) ==
    \E r \in records, c \in p.scanners : ~RanIn(r.execution, c)

(* An execution that did not finish supports nothing, asked for or not; a  *)
(* record without one fails only a policy that names scanners.             *)
ExecutionIncomplete(p, records) ==
    \E r \in records :
        \/ r.execution # Absent /\ ~Complete(r.execution)
        \/ \E c \in p.scanners : ~RanIn(r.execution, c)

evaluate(p, s, records) ==
    IF s.checksFailed # {} \/ EvidenceMissing(p, records) \/ ExecutionIncomplete(p, records)
    THEN "incomplete"
    ELSE IF RefusedFindings(p, s) # {} \/ ForbiddenServers(p, records) # {} THEN "findings"
    ELSE "clean"

exitCodeFor(verdict) ==
    CASE verdict = "incomplete" -> 2 [] verdict = "clean" -> 0 [] verdict = "findings" -> 1

--------------------------------------------------------------------------------
(* audit of agentgate.mjs, and audit.mjs *)

Entry(verdict) == [verdict |-> verdict, exitCode |-> exitCodeFor(verdict), root |-> Roots[next]]

(* Mutant: the scan of the next root starts from what this one found. *)
MutNextRoot(entry) ==
    /\ entries' = Append(entries, entry)
    /\ next' = next + 1
    /\ check' = 1
    /\ UNCHANGED <<command, world, policy, requested, scan, exit>>

NextRoot(entry) ==
    /\ entries' = Append(entries, entry)
    /\ next' = next + 1
    /\ check' = 1
    /\ scan' = NoScan
    /\ UNCHANGED <<command, world, policy, requested, exit>>

(* A root that is not there was not measured. *)
MissingRoot ==
    /\ exit = NoExit
    /\ next <= NumRoots
    /\ Skips(Roots[next])
    /\ NextRoot(Entry("incomplete"))

(* A policy that is refused ends the command before the root is scanned,   *)
(* an index that is refused after it, whatever came out of earlier roots.  *)
FatalInput ==
    /\ exit = NoExit
    /\ next <= NumRoots
    /\ ~Skips(Roots[next])
    /\ \/ policy[Roots[next]] = Malformed
       \/ check > Len(ALL_CHECKS) /\ Content(Roots[next]).records = Malformed
    /\ exit' = 3
    /\ UNCHANGED <<command, world, policy, requested, next, check, scan, entries>>

Evaluate ==
    /\ exit = NoExit
    /\ next <= NumRoots /\ check > Len(ALL_CHECKS)
    /\ ~Skips(Roots[next]) /\ policy[Roots[next]] # Malformed
    /\ Content(Roots[next]).records # Malformed
    /\ NextRoot(Entry(evaluate(policy[Roots[next]], scan, Content(Roots[next]).records)))

(* The worst entry decides; the exit code is the greatest of theirs. *)
aggregateAudit(list) ==
    IF \E e \in Range(list) : e.verdict = "incomplete" THEN "incomplete"
    ELSE IF \E e \in Range(list) : e.verdict = "findings" THEN "findings" ELSE "clean"
aggregateExitCode(list) ==
    CHOOSE code \in 0..2 :
        /\ \A e \in Range(list) : e.exitCode <= code
        /\ code = 0 \/ \E e \in Range(list) : e.exitCode = code

Aggregate ==
    /\ exit = NoExit
    /\ next > NumRoots
    /\ exit' = aggregateExitCode(entries)
    /\ UNCHANGED <<command, world, policy, requested, next, check, scan, entries>>

Next == RunCheck \/ MissingRoot \/ FatalInput \/ Evaluate \/ Aggregate

Spec == Init /\ [][Next]_vars
================================================================================
