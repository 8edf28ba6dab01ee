----------------------------- MODULE RepositoryChain -----------------------------
(***************************************************************************)
(* scripts/repository-chain.sh: classify-repositories.mjs lists the files  *)
(* of each repository, fetch-manifests.mjs reads the manifest among them,  *)
(* audit-packages.mjs audits the package it declares.  Each step reads the *)
(* file of the step before and its own file of the last run, keeps what    *)
(* may be kept, asks for the rest with a pool of workers, in any order,    *)
(* and overwrites its file.                                                *)
(*                                                                         *)
(* A repository is at a revision, which is also its push date.  The census *)
(* tells the revision it saw; requests are answered from the present one.  *)
(***************************************************************************)
EXTENDS Integers, FiniteSets, Functions

CONSTANTS
    Repo,
    Tree,            \* <<repository, revision>> -> the path of its manifest, or NoPath
    Package,         \* <<repository, revision>> -> the package the manifest declares, or NoPackage
    NoPath,
    NoPackage,       \* no manifest, no name in it, or a registry that is not audited
    Ttl,             \* how long an observation may be kept (24 hours)
    CheckpointEvery, \* answers per checkpoint
    Torn, NoFile, NoEntry,
    Tears,           \* whether a kill may cut a write short
    MaxRevision,     \* bound: revisions of a repository
    LastTick,        \* bound: the clock
    MaxDeploys,      \* bound: deployments of new code
    MaxChanges,      \* bound: pushes and deployments together
    MaxFaults        \* bound: failed requests, kills, and clocks put back

Revision == 1..MaxRevision
Tick == 0..LastTick
Code == 0..MaxDeploys
Path == {Tree[x] : x \in Repo \X Revision} \ {NoPath}
PackageOrNone == {Package[x] : x \in Repo \X Revision} \cup {NoPackage}

(* What each step writes about a repository.                               *)
TreeEntry == [path : Path \cup {NoPath}, revision : Revision]
CoordKey == [path : Path, revision : Revision, code : Code]
Coordinates == [status : {"read", "unreadable"}, key : CoordKey, at : Tick,
                revision : Revision, package : PackageOrNone]
AuditEntry == [status : {"audited", "metadata-unavailable", "failed"}, at : Tick, revision : Revision,
               key : [package : PackageOrNone, coords : CoordKey, code : Code]]
              \cup [status : {"not-audited"}]

ASSUME RepositoryChainAssumption ==
    /\ DOMAIN Tree = Repo \X Revision /\ DOMAIN Package = Repo \X Revision
    /\ \A x \in Repo \X Revision : Tree[x] = NoPath => Package[x] = NoPackage
    /\ {Ttl, CheckpointEvery, MaxRevision} \subseteq Nat \ {0}
    /\ {LastTick, MaxDeploys, MaxChanges, MaxFaults} \subseteq Nat
    /\ NoEntry \notin TreeEntry \cup Coordinates \cup AuditEntry
    /\ Tears \in BOOLEAN

VARIABLES
    clock, code,     \* the time and the code that a step is started with
    github,          \* the revision each repository is at
    census,          \* the revision the census saw
    file,            \* the file of each step
    partial,         \* the checkpoint of each step; nothing reads one
    run,             \* the run of the chain
    faults

world == <<clock, code, github, census>>
vars == <<world, file, partial, run, faults>>

Steps == {"classification", "coordinates", "audit"}

(* What a run of a step knows: its inputs, its work, its results; asked    *)
(* (whom it asked) and began (when) only serve the properties.             *)
Idle == [pc |-> "idle", step |-> "classification", todo |-> {}, results |-> [r \in Repo |-> NoEntry],
         input |-> [r \in Repo |-> NoEntry], census |-> [r \in Repo |-> 1], code |-> 0,
         asked |-> {}, began |-> 0]

Readable(name) == file[name] \notin {NoFile, Torn}
Entries(name) == IF Readable(name) THEN file[name] ELSE Idle.results
Known(entries) == {r \in Repo : entries[r] # NoEntry}

Init ==
    /\ clock = 0 /\ code = 0
    /\ github = [r \in Repo |-> 1] /\ census = github
    /\ file = [s \in Steps |-> NoFile]
    /\ partial = file
    /\ run = Idle
    /\ faults = 0

--------------------------------------------------------------------------------
(* src/cache.mjs *)

(* Mutant: an observation that was made in the future is kept. *)
MutReusable(entry, key) == entry.key = key /\ clock < entry.at + Ttl

(* Unknown, future-dated and expired observations are not kept. *)
Reusable(entry, key) == entry.key = key /\ entry.at <= clock /\ clock < entry.at + Ttl

(* Mutant: the key has the path and the code, not the revision. *)
MutManifestKey(r, entries, seen) == [path |-> entries[r].path, revision |-> 1, code |-> code]

ManifestKey(r, entries, seen) == [path |-> entries[r].path, revision |-> seen[r], code |-> code]

AuditKey(coords) == [package |-> coords.package, coords |-> coords.key, code |-> code]

--------------------------------------------------------------------------------
(* The start of each step.  A file of the last run that does not parse     *)
(* throws, and set -e ends the chain.                                      *)

Begin(step, input, kept, todo) ==
    run' = IF file[step] = Torn THEN Idle
           ELSE [pc |-> "work", step |-> step, todo |-> todo, results |-> kept, input |-> input,
                 census |-> census, code |-> code,
                 asked |-> {}, began |-> clock]

Keep(entries, kept) == [r \in Repo |-> IF r \in kept THEN entries[r] ELSE NoEntry]

(* planIncremental: whatever was pushed when it was classified is kept. *)
Classify ==
    LET previous == Entries("classification")
        kept == {r \in Known(previous) : previous[r].revision = census[r]}
    IN  /\ run.pc = "idle"
        /\ Begin("classification", previous, Keep(previous, kept), Repo \ kept)
        /\ UNCHANGED <<world, file, partial, faults>>

(* "Zero out of seventeen thousand is a bug until proven otherwise." *)
CheckManifests ==
    /\ run.step = "classification"
    /\ \/ Known(file.classification) = {}
       \/ \E r \in Known(file.classification) : file.classification[r].path # NoPath

StopWithoutManifests ==
    /\ run.pc = "next" /\ run.step = "classification" /\ ~CheckManifests
    /\ run' = Idle
    /\ UNCHANGED <<world, file, partial, faults>>

(* Mutant: whatever the last run wrote is kept. *)
MutKeptManifests(entries, previous, work) == work \cap Known(previous)

KeptManifests(entries, previous, work) ==
    {r \in work \cap Known(previous) :
        /\ previous[r].status = "read"
        /\ Reusable(previous[r], ManifestKey(r, entries, census))}

FetchManifests ==
    LET entries == file.classification
        previous == Entries("coordinates")
        work == {r \in Known(entries) : entries[r].path # NoPath}
        kept == KeptManifests(entries, previous, work)
    IN  /\ run.pc = "next" /\ CheckManifests
        /\ Begin("coordinates", entries, Keep(previous, kept), work \ kept)
        /\ UNCHANGED <<world, file, partial, faults>>

Auditable(coords) == coords.status = "read" /\ coords.package # NoPackage

(* What cannot be audited is written down too. *)
NotAudited(entries) ==
    [r \in Repo |-> IF r \in Known(entries) /\ ~Auditable(entries[r])
                    THEN [status |-> "not-audited"] ELSE NoEntry]

(* Only what was audited is kept, so whatever failed is asked for again. *)
AuditPackages ==
    LET entries == file.coordinates
        previous == Entries("audit")
        kept == {r \in Known(entries) \cap Known(previous) :
                    /\ previous[r].status = "audited"
                    /\ Reusable(previous[r], AuditKey(entries[r]))}
        skipped == NotAudited(entries)
    IN  /\ run.pc = "next" /\ run.step = "coordinates"
        /\ Begin("audit", entries,
                 [r \in Repo |-> IF skipped[r] # NoEntry THEN skipped[r] ELSE Keep(previous, kept)[r]],
                 {r \in Known(entries) : Auditable(entries[r])} \ kept)
        /\ UNCHANGED <<world, file, partial, faults>>

--------------------------------------------------------------------------------
(* The workers.  One answer is recorded, or the lack of one. *)

Answer(r, entry, failed) ==
    /\ run.pc = "work" /\ r \in run.todo
    /\ ~failed \/ faults < MaxFaults
    /\ faults' = IF failed THEN faults + 1 ELSE faults
    /\ run' = [run EXCEPT !.todo = @ \ {r}, !.asked = @ \cup {r}, !.results[r] = entry]
    /\ partial' = IF Cardinality(run'.asked) % CheckpointEvery = 0
                  THEN [partial EXCEPT ![run.step] = run'.results] ELSE partial
    /\ UNCHANGED <<world, file>>

(* Three attempts; a tree that cannot be had is recorded with its push     *)
(* date all the same.                                                      *)
ReadTree(r) ==
    /\ run.step = "classification"
    /\ \E failed \in BOOLEAN :
          Answer(r, [path |-> IF failed THEN NoPath ELSE Tree[<<r, github[r]>>],
                     revision |-> run.census[r]], failed)

(* One attempt.  A file that has moved since the tree was listed is not    *)
(* there any more.                                                         *)
ReadManifest(r) ==
    /\ run.step = "coordinates"
    /\ \E failed \in BOOLEAN :
          LET read == ~failed /\ Tree[<<r, github[r]>>] = run.input[r].path
          IN  Answer(r, [status |-> IF read THEN "read" ELSE "unreadable",
                         key |-> [path |-> run.input[r].path, revision |-> run.census[r],
                                  code |-> run.code],
                         at |-> clock, revision |-> github[r],
                         package |-> IF read THEN Package[<<r, github[r]>>] ELSE NoPackage], failed)

(* auditOne: the registry has no such package, does not answer, or the     *)
(* audit throws; the entry carries the key either way.                     *)
AuditOne(r) ==
    /\ run.step = "audit"
    /\ \E status \in {"audited", "metadata-unavailable", "failed"} :
          LET coords == run.input[r]
          IN  Answer(r, [status |-> status,
                         key |-> [package |-> coords.package, coords |-> coords.key, code |-> run.code],
                         at |-> clock, revision |-> coords.revision], status # "audited")

--------------------------------------------------------------------------------
(* The end of a step. *)

Truncate ==
    /\ run.pc = "work" /\ run.todo = {}
    /\ run' = [run EXCEPT !.pc = "fill"]
    /\ file' = [file EXCEPT ![run.step] = Torn]
    /\ UNCHANGED <<world, partial, faults>>

Fill ==
    /\ run.pc = "fill"
    /\ run' = IF run.step = "audit" THEN Idle ELSE [Idle EXCEPT !.pc = "next", !.step = run.step]
    /\ file' = [file EXCEPT ![run.step] = run.results]
    /\ UNCHANGED <<world, partial, faults>>

Work(r) == ReadTree(r) \/ ReadManifest(r) \/ AuditOne(r)
Step == \/ StopWithoutManifests \/ FetchManifests \/ AuditPackages
        \/ (\E r \in Repo : Work(r)) \/ Truncate \/ Fill

Kill ==
    /\ run.pc # "idle" /\ faults < MaxFaults
    /\ run.pc = "fill" => Tears
    /\ run' = Idle
    /\ faults' = faults + 1
    /\ UNCHANGED <<world, file, partial>>

--------------------------------------------------------------------------------
(* The world goes on: pushes, a census, time, new code, a clock put back. *)

Changes == code + FoldFunction(+, 0, github) - Cardinality(Repo)

Push(r) ==
    /\ github[r] < MaxRevision /\ Changes < MaxChanges
    /\ github' = [github EXCEPT ![r] = @ + 1]
    /\ UNCHANGED <<clock, code, census, file, partial, run, faults>>

Census ==
    /\ census' = github
    /\ UNCHANGED <<clock, code, github, file, partial, run, faults>>

Wait ==
    /\ clock < LastTick
    /\ clock' = clock + 1
    /\ UNCHANGED <<code, github, census, file, partial, run, faults>>

Deploy ==
    /\ code < MaxDeploys /\ Changes < MaxChanges
    /\ code' = code + 1
    /\ UNCHANGED <<clock, github, census, file, partial, run, faults>>

ClockBack ==
    /\ clock > 0 /\ faults < MaxFaults
    /\ clock' = clock - 1
    /\ faults' = faults + 1
    /\ UNCHANGED <<code, github, census, file, partial, run>>

World == (\E r \in Repo : Push(r)) \/ Census \/ Wait \/ Deploy \/ ClockBack

Next == Classify \/ Step \/ Kill \/ World

Spec == Init /\ [][Next]_vars

(* A run that was started goes on; nobody promises to start one. *)
FairSpec == Spec /\ WF_vars(Step)

--------------------------------------------------------------------------------
(* What the repository chain promises. *)

(* The files and the run hold what the steps put there. *)
TypeOK ==
    /\ clock \in Tick /\ code \in Code /\ faults \in 0..MaxFaults
    /\ github \in [Repo -> Revision] /\ census \in [Repo -> Revision]
    /\ \A r \in Known(Entries("classification")) : file.classification[r] \in TreeEntry
    /\ \A r \in Known(Entries("coordinates")) : file.coordinates[r] \in Coordinates
    /\ \A r \in Known(Entries("audit")) : file.audit[r] \in AuditEntry
    /\ run.pc \in {"idle", "work", "fill", "next"} /\ run.step \in Steps
    /\ run.todo \subseteq Repo /\ run.asked \subseteq Repo

Published(name) == Readable(name)' /\ file'[name] # file[name]

(* "Unknown, future-dated and expired observations must be re-read, not    *)
(* re-dated": what a step publishes without having asked for it was seen   *)
(* by the same code, not after the step began, and at most Ttl before.     *)
FreshEvidence ==
    [][ \A name \in {"coordinates", "audit"} : Published(name) =>
        \A r \in Known(file'[name]) \ run.asked :
            LET e == file'[name][r]
            IN  e.status # "not-audited" =>
                    /\ e.at <= run.began /\ run.began < e.at + Ttl
                    /\ e.key.code = run.code ]_vars

(* Through two caches, however the steps were interrupted: the manifests   *)
(* published are of the revision the census saw, or a later one, and the   *)
(* audits are of the packages that those manifests name.                   *)
NotOlderThanCensus ==
    [][ /\ Published("coordinates") =>
            \A r \in Known(file'.coordinates) :
                file'.coordinates[r].status = "read" =>
                    file'.coordinates[r].revision >= run.census[r]
        /\ Published("audit") =>
            \A r \in Known(file'.audit) :
                file'.audit[r].status = "audited" =>
                    Package[<<r, file'.audit[r].revision>>] = file.coordinates[r].package ]_vars

(* A run whose classification has no manifest at all leaves the artifacts  *)
(* of the last one as they are.                                            *)
EmptyStops ==
    [][ Published("coordinates") =>
        \E r \in Known(file.classification) : file.classification[r].path # NoPath ]_vars

(* "We did not audit it" and "we never saw it" are told apart: an audit    *)
(* has an entry for each of the coordinates it was made from, no other.    *)
EveryCoordinateAccountedFor ==
    [][ Published("audit") => Known(file'.audit) = Known(file.coordinates) ]_vars

(* --- liveness --- *)

Started == run.pc = "work" /\ run.step = "classification"

(* The classification knows where the manifest of r is.                    *)
Classified(r) ==
    Readable("classification") =>
        /\ r \in Known(file.classification)
        /\ file.classification[r].path = Tree[<<r, github[r]>>]
        /\ Package[<<r, github[r]>>] # NoPackage

Audited(r) == Readable("audit") /\ r \in Known(file.audit) /\ file.audit[r].status = "audited"

(* Whatever failed, was cut short or is stale, is asked for again: while   *)
(* the chain goes on being started, a package of a repository that is      *)
(* rightly classified is audited in the end.                               *)
EventuallyAudited ==
    \A r \in Repo : ([]<>Started /\ <>[]Classified(r)) => []<>Audited(r)

(* No step replaces evidence by less or by other evidence: manifests and   *)
(* audits belong to what the census saw, a run without manifests stops,    *)
(* and no coordinate gets lost.                                            *)
EvidenceIsNotLost ==
    /\ []TypeOK
    /\ NotOlderThanCensus
    /\ EmptyStops
    /\ EveryCoordinateAccountedFor
================================================================================
