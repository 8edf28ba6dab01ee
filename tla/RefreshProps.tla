------------------------------ MODULE RefreshProps ------------------------------
(* What the trust index promises, and the mutants that break it.           *)
EXTENDS Refresh

(* Type invariant of Refresh. *)
TypeOK ==
    /\ registry \in [Server -> Version]
    /\ file.census \in {NoFile, Torn} \cup SUBSET Row
    /\ file.guard \in {NoFile, Torn} \cup SUBSET Result
    /\ file.github \in {Torn, Repo}
    /\ file.packageAudit \in {NoFile, Torn} \cup SUBSET Repo
    /\ Readable("index") => \A r \in file.index : IsRecord(r)
    /\ \A j \in Job :
         /\ job[j].pc \in {"idle", "audit", "guard", "scan", "rows", "results", "repos", "write", "fill"}
         /\ job[j].out \in {"none", "census", "guard", "packageAudit", "index"}
         /\ job[j].todo \subseteq Server \X Version
         /\ job[j].rows \subseteq Row /\ job[j].results \subseteq Result
         /\ job[j].repos \subseteq Repo /\ job[j].audited \subseteq Repo
    /\ faults \in 0..MaxFaults

(* README.md: "clean" is emitted only when every check ran.  Whatever runs *)
(* overlap, fail or are killed, and whichever generations of the artifacts *)
(* an index was joined from, a record is clean only if each of its checks  *)
(* was carried out on the very release it names, and found nothing at the  *)
(* threshold.                                                              *)
Needed(s) == {"registryDocument"} \cup (IF Kind[s] = "npm" THEN {"packageManifest"} ELSE {})
Truth(s, v) == Document[<<PackageOf[s], v>>]
                  \cup (IF Kind[s] = "npm" THEN Manifest[<<PackageOf[s], v>>] ELSE {})
CleanRecordMeasured(r) ==
    /\ r.server \in Server
    /\ \A b \in Needed(r.server) : <<b, r.server, r.version>> \in measured
    /\ ~Notable(Truth(r.server, r.version), Threshold)
CleanMeansMeasured ==
    Readable("index") =>
        \A r \in file.index : r.verdict = "clean" => CleanRecordMeasured(r)

(* Every verdict has its reason in the record itself, which is what whoever *)
(* recounts the index goes by (coverage.mjs): "clean" a complete execution  *)
(* and nothing that could not be told, "findings" a finding at the         *)
(* threshold, "incomplete" a check that did not finish or could not tell.  *)
(* A finding needs no complete execution (build-index.mjs, lines 47-56).   *)
Reasoned(r) ==
    /\ r.verdict = "clean" => /\ Complete(r.execution)
                              /\ FindingsOf(r.evidence) \subseteq DOMAIN RANK
    /\ r.verdict = "findings" => Notable(FindingsOf(r.evidence), Threshold)
    /\ r.verdict = "incomplete" => \/ ~Complete(r.execution)
                                   \/ "unknown" \in FindingsOf(r.evidence)
VerdictsAreReasoned == Readable("index") => \A r \in file.index : Reasoned(r)

(* "A problem we found is a problem we found, whether or not the other     *)
(* scanners finished" (build-index.mjs, lines 52-53): a server's record    *)
(* with a finding at the threshold is one of those with findings.  It is   *)
(* not: deriveVerdict looks for an unmeasured block first, and the census  *)
(* finding of a package guard-scan did not reach is in a record that is    *)
(* "incomplete".                                                           *)
FoundIsFound ==
    Readable("index") =>
        \A r \in file.index :
            r.server \in Server /\ Notable(FindingsOf(r.evidence), Threshold)
                => r.verdict = "findings"

(* Two readers of an index may not be told two things: an index has one    *)
(* record per server, and none for a repository that a server's entry      *)
(* names already (repository-records.mjs, the header).                     *)
OneRecordEach ==
    Readable("index") =>
        \A r, q \in file.index :
            /\ r.server = q.server => r = q
            /\ r.server \in Server => q.server \notin RepoOf[r.server]

(* A torn, stale or unmeasured index is not for ever: again and again the  *)
(* index is a whole one with measured evidence for the current version of  *)
(* every package guard-scan considers.                                     *)
Current(s) ==
    \E r \in file.index :
        /\ r.server = s /\ r.version = registry[s]
        /\ \A b \in DOMAIN r.evidence : Measured(r.evidence[b])
FirstPackages ==
    {s \in Server : /\ Kind[s] = "npm"
                    /\ Cardinality({t \in Server : Kind[t] = "npm" /\ Position(t) < Position(s)}) < Max}
IndexComesBack == []<>(Readable("index") /\ \A s \in FirstPackages : Current(s))

(* Whoever rebuilt it, an index is consistent in itself: of its types, one *)
(* record for each server, and for each verdict its reason.                *)
IndexIsConsistent == TypeOK /\ VerdictsAreReasoned /\ OneRecordEach
================================================================================
