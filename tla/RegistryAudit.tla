----------------------------- MODULE RegistryAudit -----------------------------
(***************************************************************************)
(* How one package is judged: mcp-audit.mjs asks the registry for its      *)
(* document and two CDNs for the files its install hooks run, and          *)
(* audit-packages.mjs does so for the package a repository declares.  Any  *)
(* request may go wrong, and what is then said of the package must not be  *)
(* what the network did.  A file that comes from another address than was  *)
(* asked for is not taken; a document is, whatever address it came from.   *)
(*                                                                         *)
(* A text is what the patterns see in it, in its code and inside strings   *)
(* and comments: marks for what it can do.                                 *)
(***************************************************************************)
EXTENDS Verdict, Sequences, FiniteSets

CONSTANTS
    Subjects,      \* what may be audited, what is published of it, and what
                   \* another address than the registry's has for it
    Marks,         \* what patterns look for: "network", "spawn", ...
    MaxLosses,     \* bound: requests that go wrong
    NoDocument, NoRepository, Unusable, NoRef

Mark == {"network", "write", "spawn", "steerable", "shell", "download", "decode", "require", "print"}
ScriptText == [code : SUBSET Marks, quoted : SUBSET Marks]

ASSUME AuditAssumption ==
    /\ Marks \subseteq Mark /\ MaxLosses \in Nat
    /\ \A s \in Subjects :
          /\ s.caller \in {"registry", "repository"} /\ s.type \in {"npm", "pypi", "other"}
          /\ {s.named, s.pinned, s.stdio} \subseteq BOOLEAN
          /\ \A ref \in DOMAIN s.files : s.files[ref] \in ScriptText

VARIABLES
    subject,       \* the package that is judged
    stage,         \* "document", "scripts", "judge" or "done"
    document,      \* its metadata, as it came: [doc, reason]
    refs,          \* files still to be read
    heard,         \* file -> the answers of the CDNs that were asked for it
    scripts,       \* file -> its text
    reasons,       \* file -> why there is no text
    row,           \* the result
    losses,
    astray         \* history: the document came from another address

auditVars == <<subject, stage, document, refs, heard, scripts, reasons, row, losses, astray>>

(***************************************************************************)
(* Texts.                                                                  *)
(***************************************************************************)
Raw(text) == text.code \cup text.quoted
networkCapabilityOf(text) == "network" \in Raw(text)
networkSinkOf(text) == text.code \cap {"write", "spawn", "decode"} # {}
spawnIsSteerable(text) == "steerable" \in Raw(text)
spawnCapabilityOf(text) == "spawn" \in Raw(text)
scriptOnlyPrints(text) ==
    "print" \in Raw(text) /\ Raw(text) \cap {"require", "network", "spawn", "write", "decode"} = {}

(* A pattern counts where it is run: a command in all its text, a script   *)
(* outside its strings, and a spawn only if something can steer it.        *)
Critical(marks, text) ==
    \/ "spawn" \in marks /\ spawnIsSteerable(text)
    \/ marks \cap {"shell", "download", "decode"} # {}
criticalPatternOf(text, mode) ==
    IF mode = "hook" THEN Critical(Raw(text), text)
    ELSE Critical(text.code, text) \/ (networkCapabilityOf(text) /\ networkSinkOf(text))

(* A hook is a command: how it is written, its text, and the file it runs. *)
installHookReads(hook, texts) ==
    IF \/ hook.form \in {"echo", "inert"}
       \/ hook.ref \in DOMAIN texts /\ scriptOnlyPrints(texts[hook.ref])
    THEN "info" ELSE "high"

(***************************************************************************)
(* Findings, each of a rule about the package or one of its files.         *)
(***************************************************************************)
Finding(rule, severity, about) == [rule |-> rule, severity |-> severity, about |-> about]

FindingIf(condition, rule, severity) == IF condition THEN {Finding(rule, severity, NoRef)} ELSE {}

ScriptFinding(ref, texts, why) ==
    IF ref \notin DOMAIN texts
    THEN IF why[ref] = "hook-script-not-published"
         THEN Finding("install-hook-script-missing-from-package", "high", ref)
         ELSE Finding("install-hook-script-unavailable", "unknown", ref)
    ELSE IF criticalPatternOf(texts[ref], "script") THEN Finding("install-hook-script-critical", "critical", ref)
    ELSE IF networkCapabilityOf(texts[ref]) THEN Finding("install-hook-script-network", "high", ref)
    ELSE IF spawnCapabilityOf(texts[ref]) THEN Finding("install-hook-script-spawn", "medium", ref)
    ELSE Finding("install-hook-script-inspected", "info", ref)

(* A command that is critical itself says enough: its file is not judged.  *)
HookFindings(hook, texts, why) ==
    {Finding("install-time-execution", installHookReads(hook, texts), hook.ref)}
    \cup (IF criticalPatternOf(hook.text, "hook") THEN {Finding("install-hook-critical", "critical", hook.ref)}
          ELSE IF hook.ref # NoRef THEN {ScriptFinding(hook.ref, texts, why)} ELSE {})

repoKey(url) ==
    IF url \in {NoRepository, Unusable} THEN NoRepository
    ELSE <<url.host, IF url.host = "github" THEN SubSeq(url.path, 1, 2) ELSE url.path>>

RepositoryFindings(named, registered) ==
    IF named = NoRepository
    THEN FindingIf(TRUE, "package-repository-missing", IF repoKey(registered) = NoRepository THEN "medium" ELSE "low")
    ELSE FindingIf(NoRepository \notin {repoKey(named), repoKey(registered)} /\ repoKey(named) # repoKey(registered),
                   "repository-mismatch", "medium")

(* The manifest of the exact version, or none: never the latest instead.   *)
exactNpmManifest(s, doc) ==
    IF s.named /\ s.pinned /\ doc # NoDocument /\ s.version \in DOMAIN doc.versions /\ doc.versions[s.version].agrees
    THEN {doc.versions[s.version]} ELSE {}

(* What is said of the manifest itself.  One that says nothing of being    *)
(* deprecated leaves it to the document.                                   *)
ManifestFindings(s, doc, m) ==
    RepositoryFindings(m.repository, s.repository)
    \cup FindingIf(doc.latest \notin {"none", s.version}, "declared-version-not-latest", "info")
    \cup FindingIf(IF m.deprecated = {} THEN doc.deprecated ELSE TRUE \in m.deprecated, "package-deprecated", "info")
    \cup FindingIf(m.spawners, "process-spawn-dependency", "info")

HooksOf(manifests) == UNION {m.hooks : m \in manifests}

auditPackage(s, doc, texts, why) ==
    FindingIf(s.stdio, "stdio-transport", "info")
    \cup (IF doc = NoDocument THEN FindingIf(TRUE, "package-metadata-unavailable", "unknown")
          ELSE LET exact == exactNpmManifest(s, doc)
               IN  IF exact = {} THEN FindingIf(TRUE, "declared-version-not-found", "unknown")
                   ELSE (UNION {HookFindings(hook, texts, why) : hook \in HooksOf(exact)})
                        \cup UNION {ManifestFindings(s, doc, m) : m \in exact})

(* PyPI names no hooks: only a release without a wheel is known to build.  *)
auditPypiPackage(s, doc) ==
    IF doc = NoDocument THEN FindingIf(TRUE, "package-metadata-unavailable", "unknown")
    ELSE LET files == IF s.version \in DOMAIN doc.releases THEN doc.releases[s.version] ELSE {}
         IN  RepositoryFindings(doc.repository, s.repository)
             \cup (IF files = {} THEN FindingIf(TRUE, "declared-version-not-found", "unknown")
                   ELSE IF \A f \in files : ~f.wheel THEN FindingIf(TRUE, "pypi-sdist-only", "medium")
                   ELSE FindingIf(TRUE, "pypi-install-time-unknown", "unknown"))
             \cup FindingIf(doc.latest \notin {"none", s.version}, "declared-version-not-latest", "info")
             \cup FindingIf(\E f \in files : f.yanked, "package-yanked", "info")

(* The files the hooks run.  The step over repositories takes them from    *)
(* any manifest under that version, the rest from the exact one.           *)
hookScriptRefs(manifests) == {hook.ref : hook \in HooksOf(manifests)} \ {NoRef}
ManifestToRead(s, doc) ==
    IF s.type # "npm" \/ doc = NoDocument THEN {}
    ELSE IF s.caller = "registry" THEN exactNpmManifest(s, doc)
    ELSE {doc.versions[v] : v \in DOMAIN doc.versions \cap {s.version}}

(* Whether all that the rules look at was seen.  A file that both CDNs say *)
(* is not there was looked for and found absent.                           *)
registryProvenance(s, doc, texts, why) ==
    /\ s.type = "npm" /\ exactNpmManifest(s, doc) # {}
    /\ \A ref \in hookScriptRefs(exactNpmManifest(s, doc)) :
          ref \in DOMAIN texts \/ why[ref] = "hook-script-not-published"

(* The result: what came of the document decides whether there is one.     *)
Row(s, got, texts, why) ==
    LET npm == s.type = "npm"
        audited == s.type # "other" /\ (s.caller = "registry" \/ got.doc # NoDocument)
    IN  [status |-> IF audited THEN "audited" ELSE IF s.type = "other" THEN "not-audited" ELSE "metadata-unavailable",
         reason |-> IF s.caller = "repository" THEN got.reason ELSE "none",
         findings |-> IF ~audited THEN {}
                      ELSE IF npm THEN auditPackage(s, got.doc, texts, why) ELSE auditPypiPackage(s, got.doc),
         complete |-> audited /\ IF npm THEN registryProvenance(s, got.doc, texts, why) ELSE s.caller = "repository"]

(***************************************************************************)
(* Requests.  An answer is a status and, when it is 200, a body.           *)
(***************************************************************************)
Garbage == [garbage |-> TRUE]
Told(status, body) == [status |-> status, body |-> body, redirected |-> FALSE]
Lost == losses < MaxLosses

(* Mutant: no answer and no such package are one reason. *)
MutfetchFailureReason(status) == IF status \in {0, 404} THEN "package-not-found" ELSE "registry-http"

fetchFailureReason(status) ==
    CASE status = 0 -> "registry-unreachable" [] status = 404 -> "package-not-found" [] OTHER -> "registry-http"

DocumentOf(answer) ==
    IF answer.status # 200 THEN [doc |-> NoDocument, reason |-> fetchFailureReason(answer.status)]
    ELSE IF answer.body = Garbage THEN [doc |-> NoDocument, reason |-> "metadata-not-json"]
    ELSE [doc |-> answer.body, reason |-> "none"]

Honest(published) == IF published = NoDocument THEN Told(404, NoDocument) ELSE Told(200, published)

(* An answer from elsewhere than what was asked for is left out. *)
hookScriptFailureReason(answers) ==
    LET statuses == {answers[i].status : i \in {j \in DOMAIN answers : ~answers[j].redirected}}
    IN  IF statuses = {404} THEN "hook-script-not-published"
        ELSE IF statuses = {} THEN "hook-script-redirected"
        ELSE IF 0 \in statuses THEN "registry-unreachable"
        ELSE "registry-http"

(***************************************************************************)
(* One package.                                                            *)
(***************************************************************************)
NotYet == [doc |-> NoDocument, reason |-> "none"]
NoRow == [status |-> "none", reason |-> "none", findings |-> {}, complete |-> FALSE]

AuditInit ==
    /\ subject \in Subjects
    /\ stage = IF subject.type = "other" THEN "judge" ELSE "document"
    /\ document = NotYet /\ refs = {} /\ heard = <<>> /\ scripts = <<>> /\ reasons = <<>>
    /\ row = NoRow /\ losses = 0 /\ astray = FALSE

GotDocument(got) ==
    /\ document' = got
    /\ LET read == hookScriptRefs(ManifestToRead(subject, got.doc))
       IN  refs' = read /\ heard' = [ref \in read |-> <<>>]
    /\ stage' = IF subject.caller = "repository" /\ got.doc = NoDocument THEN "judge" ELSE "scripts"
    /\ UNCHANGED <<subject, scripts, reasons, row>>

(* Conservative names only: another is not asked for. *)
RefuseName ==
    /\ stage = "document" /\ subject.type = "npm" /\ ~subject.named
    /\ GotDocument([doc |-> NoDocument, reason |-> "package-name-not-requested"])
    /\ UNCHANGED <<losses, astray>>

(* A redirect is followed, and whose answer came is not looked at. *)
FetchDocument ==
    /\ stage = "document" /\ (subject.type = "npm" => subject.named)
    /\ \/ GotDocument(DocumentOf(Honest(subject.document))) /\ UNCHANGED <<losses, astray>>
       \/ /\ Lost /\ losses' = losses + 1 /\ astray' = TRUE
          /\ \E elsewhere \in subject.elsewhere : GotDocument(DocumentOf(Honest(elsewhere)))
       \/ /\ Lost /\ losses' = losses + 1 /\ UNCHANGED astray
          /\ \E answer \in {Told(0, NoDocument), Told(503, NoDocument), Told(200, Garbage)} : GotDocument(DocumentOf(answer))

(* A file whose path or version is not literal is not asked for. *)
RefuseScript(ref) ==
    /\ stage = "scripts" /\ ref \in refs /\ \A other \in refs : heard[other] = <<>>
    /\ ~(subject.named /\ subject.pinned /\ ref \notin subject.unsafe)
    /\ refs' = refs \ {ref}
    /\ reasons' = [r \in DOMAIN reasons \cup {ref} |-> IF r = ref THEN "hook-script-path-not-requested" ELSE reasons[r]]
    /\ UNCHANGED <<subject, stage, document, heard, scripts, row, losses, astray>>

(* What a CDN says of a file: one asks unpkg and then jsdelivr. *)
CdnAnswers(ref) ==
    {[Told(IF ref \in DOMAIN subject.files THEN 200 ELSE 404, NoDocument) EXCEPT !.redirected = r] : r \in IF Lost THEN BOOLEAN ELSE {FALSE}}
    \cup IF Lost THEN {Told(0, NoDocument), Told(503, NoDocument)} ELSE {}

FetchScript(ref) ==
    /\ stage = "scripts" /\ ref \in refs /\ \A other \in refs \ {ref} : heard[other] = <<>>
    /\ subject.named /\ subject.pinned /\ ref \notin subject.unsafe
    /\ \E answer \in CdnAnswers(ref) :
          LET told == Append(heard[ref], answer)
              got == answer.status = 200 /\ ~answer.redirected
          IN  /\ heard' = [heard EXCEPT ![ref] = told]
              /\ losses' = IF answer.redirected \/ answer.status \in {0, 503} THEN losses + 1 ELSE losses
              /\ refs' = IF got \/ Len(told) = 2 THEN refs \ {ref} ELSE refs
              /\ scripts' = IF got THEN [r \in DOMAIN scripts \cup {ref} |-> subject.files[r]] ELSE scripts
              /\ reasons' = IF ~got /\ Len(told) = 2
                            THEN [r \in DOMAIN reasons \cup {ref} |-> IF r = ref THEN hookScriptFailureReason(told) ELSE reasons[r]]
                            ELSE reasons
    /\ UNCHANGED <<subject, stage, document, row, astray>>

Judge ==
    /\ stage \in {"scripts", "judge"} /\ refs = {}
    /\ row' = Row(subject, document, scripts, reasons)
    /\ stage' = "done"
    /\ UNCHANGED <<subject, document, refs, heard, scripts, reasons, losses, astray>>

AuditNext ==
    \/ RefuseName \/ FetchDocument \/ Judge
    \/ \E ref \in refs : RefuseScript(ref) \/ FetchScript(ref)

AuditSpec == AuditInit /\ [][AuditNext]_auditVars

--------------------------------------------------------------------------------
(* What may be said of a package although the network failed.              *)

(* The row, the texts and the reasons keep their types. *)
AuditTypeOK ==
    /\ subject \in Subjects /\ stage \in {"document", "scripts", "judge", "done"}
    /\ refs \subseteq DOMAIN heard /\ DOMAIN scripts \cup DOMAIN reasons = DOMAIN heard \ refs
    /\ DOMAIN scripts \cap DOMAIN reasons = {}
    /\ \A ref \in DOMAIN heard : Len(heard[ref]) <= 2
    /\ \A f \in row.findings : f.severity \in Severity
    /\ losses \in 0..MaxLosses

(* The row there would be had every request been answered, for the         *)
(* document that is published or, when another came, for that one.         *)
TrueRow ==
    LET got == IF astray THEN document
               ELSE IF subject.type = "npm" /\ ~subject.named THEN NotYet
               ELSE [doc |-> subject.document, reason |-> IF subject.document = NoDocument THEN "package-not-found" ELSE "none"]
        run == hookScriptRefs(ManifestToRead(subject, got.doc))
        asked == {ref \in run : subject.named /\ subject.pinned /\ ref \notin subject.unsafe}
        texts == [ref \in asked \cap DOMAIN subject.files |-> subject.files[ref]]
    IN  Row(subject, got, texts,
            [ref \in run \ DOMAIN texts |-> IF ref \in asked THEN "hook-script-not-published" ELSE "hook-script-path-not-requested"])

(* What build-index makes of it. *)
Judgement(r) ==
    LET block == [status |-> IF r.status # "audited" THEN "unmeasured" ELSE IF r.findings = {} THEN "clean" ELSE "findings",
                  findings |-> {f.severity : f \in r.findings}]
        evidence == [name \in {"registryDocument"} |-> block]
    IN  aggregateVerdict(evidence, "medium", executionFromBlocks(evidence))

(* Requests that fail make a package incomplete and nothing else: none is  *)
(* called clean, and none is accused, because of what the network did      *)
(* (mcp-audit.mjs, 411 and 459: "the first is about the package, the       *)
(* second is about this run").  A document from another address is judged  *)
(* as if it were the package's own.                                        *)
FaultsOnlyBlur == stage = "done" => Judgement(row) \in {"incomplete", Judgement(TrueRow)}

(* Evidence that is called complete would be the same with a network that  *)
(* answers everything, so it need not be asked for again.                  *)
CompleteIsFaultless == stage = "done" /\ row.complete => row.findings = TrueRow.findings

(* A package or a file that is reported as not there is not there          *)
(* (audit-packages.mjs, 54-60), the package at least when the address that *)
(* said so is the registry's.                                              *)
AbsenceIsTrue ==
    stage = "done" =>
        /\ row.reason = "package-not-found" /\ ~astray => subject.document = NoDocument
        /\ \A f \in row.findings :
              f.rule = "install-hook-script-missing-from-package" => f.about \notin DOMAIN subject.files

(* A package is called clean only over evidence that is complete.          *)
CleanMeansRead == stage = "done" /\ Judgement(row) = "clean" => row.complete

(* The audit is honest about what it could not see: failed requests blur a *)
(* verdict and do not change it, and neither absence nor cleanness is      *)
(* claimed without evidence.                                               *)
AuditIsHonest == AuditTypeOK /\ FaultsOnlyBlur /\ CompleteIsFaultless /\ AbsenceIsTrue /\ CleanMeansRead

--------------------------------------------------------------------------------

(* "The package is not on the registry" and "the registry did not answer   *)
(* us" are different facts: the first is about the package, the second is  *)
(* about this run (mcp-audit.mjs, 458-461).  Held against the code, where  *)
(* a 404 of whoever the request was sent on to is a fact about the package. *)
AbsenceIsThePackages ==
    stage = "done" /\ row.reason = "package-not-found" => subject.document = NoDocument

(* The finding on a missing file says that "unpkg and jsdelivr both return *)
(* 404", and a test that one 404 and no answer prove nothing.  Held        *)
(* against the code, where a redirect is no answer either.                 *)
AbsenceIsChecked ==
    \A f \in row.findings :
        f.rule = "install-hook-script-missing-from-package" =>
            \A i \in 1..2 : heard[f.about][i].status = 404 /\ ~heard[f.about][i].redirected
================================================================================
