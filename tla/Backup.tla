--------------------------------- MODULE Backup ---------------------------------
(***************************************************************************)
(* The nightly backup, its pruning and the restore drill: scripts/backup   *)
(* .mjs and restore-drill.mjs over packages/backup/src/backup.mjs.         *)
(*                                                                         *)
(* The data directory is an index and a ledger, which other jobs rewrite   *)
(* while the backup reads them.  An index is the number of its records, or *)
(* Torn while it is being rewritten; a ledger only grows.  A digest is     *)
(* modelled as injective: a file is its own digest.  A day is a step of    *)
(* Night, and there is at most one backup a night.                         *)
(***************************************************************************)
EXTENDS Integers, Sequences, SequencesExt

CONSTANTS
    Sizes,      \* numbers of records an index can have
    KeepDays,     \* --keep-days
    MaxCaptures,  \* bound: captures of the ledger
    MaxFaults,    \* bound: kills, failing tars and torn ledgers
    MaxNights,    \* bound: nights
    MaxRewrites,  \* bound: rewrites of the index
    Torn, NoIndex, Partial

ASSUME BackupAssumption ==
    /\ Sizes \subseteq Nat \ {0} /\ KeepDays \in Nat /\ MaxCaptures \in Nat
    /\ MaxFaults \in Nat /\ MaxNights \in Nat /\ MaxRewrites \in Nat
    /\ {Torn, NoIndex} \cap Sizes = {} /\ Torn # NoIndex

VARIABLES
    index,        \* data/index.json
    ledger,       \* data/history: how many captures, and whether a line is torn
    archives,     \* the agentgate-*.tgz of the backup directory, by name
    job,          \* the backup that is running
    due,          \* cron has not started the backup of this night
    drill,        \* how the last drill ended
    faults,
    nights,
    rewrites

backupVars == <<index, ledger, archives, job, due, drill, faults, nights, rewrites>>

Captures == 0..MaxCaptures
Ledger == [captures : Captures, torn : BOOLEAN]
Stored == [index : Sizes \cup {Torn, NoIndex}, ledger : Ledger]
Manifest == [records : Sizes, captures : Captures, digest : Stored]
Body == [content : Stored, manifest : Manifest]

(* What tar has not finished does not unpack to a data directory. *)
ASSUME PartialAssumption == Partial \notin Body

Archive == [stamped : BOOLEAN, age : 0..KeepDays + 1, quiet : BOOLEAN, body : Body \cup {Partial}]

NoJob == [step |-> "idle", records |-> 0, captures |-> 0, todo |-> {}, quiet |-> TRUE,
          staged |-> [index |-> NoIndex, ledger |-> [captures |-> 0, torn |-> FALSE]]]

(* An archive somebody made by hand and named so that it fits the pattern. *)
HandMade(r) ==
    LET kept == [index |-> r, ledger |-> [captures |-> 0, torn |-> FALSE]]
    IN  [stamped |-> FALSE, age |-> KeepDays + 1, quiet |-> TRUE,
         body |-> [content |-> kept, manifest |-> [records |-> r, captures |-> 0, digest |-> kept]]]

BackupInit ==
    /\ index \in Sizes \cup {NoIndex}
    /\ ledger = [captures |-> 0, torn |-> FALSE]
    /\ archives \in {<<>>} \cup {<<HandMade(r)>> : r \in Sizes}
    /\ job = NoJob /\ due = TRUE /\ drill = "none"
    /\ faults = 0 /\ nights = 0 /\ rewrites = 0

(***************************************************************************)
(* The jobs that own the data directory.                                   *)
(***************************************************************************)
Disturb(files) == job' = [job EXCEPT !.quiet = @ /\ job.todo \cap files = {} /\ job.step # "counting"]

BeginRewrite ==
    /\ index # Torn /\ index' = Torn
    /\ rewrites < MaxRewrites /\ rewrites' = rewrites + 1
    /\ Disturb({"index"})
    /\ UNCHANGED <<ledger, archives, due, drill, faults, nights>>

EndRewrite ==
    /\ index \in {Torn, NoIndex} /\ index' \in Sizes
    /\ Disturb({"index"})
    /\ UNCHANGED <<ledger, archives, due, drill, faults, nights, rewrites>>

Capture ==
    /\ ledger.captures < MaxCaptures
    /\ ledger' = [ledger EXCEPT !.captures = @ + 1]
    /\ UNCHANGED <<index, archives, job, due, drill, faults, nights, rewrites>>

TearLedger ==
    /\ ~ledger.torn /\ faults < MaxFaults
    /\ ledger' = [ledger EXCEPT !.torn = TRUE]
    /\ Disturb({"ledger"})
    /\ faults' = faults + 1
    /\ UNCHANGED <<index, archives, due, drill, nights, rewrites>>

(***************************************************************************)
(* backup.mjs                                                              *)
(***************************************************************************)
(* No index, or one that does not parse, and the run ends without archive. *)
RefuseBackup ==
    /\ job.step = "idle" /\ due /\ index \in {NoIndex, Torn}
    /\ due' = FALSE
    /\ UNCHANGED <<index, ledger, archives, job, drill, faults, nights, rewrites>>

StartBackup ==
    /\ job.step = "idle" /\ due /\ index \in Sizes
    /\ due' = FALSE
    /\ job' = [NoJob EXCEPT !.step = "counting", !.records = index]
    /\ UNCHANGED <<index, ledger, archives, drill, faults, nights, rewrites>>

(* summarize reads the ledger, and throws at a torn line. *)
CountCaptures ==
    /\ job.step = "counting"
    /\ job' = IF ledger.torn THEN NoJob
              ELSE [job EXCEPT !.step = "copying", !.todo = {"index", "ledger"}, !.captures = ledger.captures]
    /\ UNCHANGED <<index, ledger, archives, due, drill, faults, nights, rewrites>>

(* cpSync, file by file; the order is the directory's. *)
Copy ==
    /\ job.step = "copying"
    /\ \E file \in job.todo :
          job' = [job EXCEPT !.todo = @ \ {file},
                             !.staged.index = IF file = "index" THEN index ELSE @,
                             !.staged.ledger = IF file = "ledger" THEN ledger ELSE @]
    /\ UNCHANGED <<index, ledger, archives, due, drill, faults, nights, rewrites>>

(* The staged copies are hashed; the two counts are of before the copy. *)
BuildManifest == [records |-> job.records, captures |-> job.captures, digest |-> job.staged]

(* tar opens the file under its final name and starts to fill it. *)
TarBegins ==
    /\ job.step = "copying" /\ job.todo = {}
    /\ archives' = Append(archives, [stamped |-> TRUE, age |-> 0, quiet |-> job.quiet, body |-> Partial])
    /\ job' = [job EXCEPT !.step = "tar"]
    /\ UNCHANGED <<index, ledger, due, drill, faults, nights, rewrites>>

TarEnds ==
    /\ job.step = "tar"
    /\ archives' = [archives EXCEPT ![Len(archives)].body = [content |-> job.staged, manifest |-> BuildManifest]]
    /\ job' = [job EXCEPT !.step = "prune"]
    /\ UNCHANGED <<index, ledger, due, drill, faults, nights, rewrites>>

(* Mutant: the run goes on to prune after a tar that failed. *)
MutTarFails ==
    /\ job.step = "tar" /\ faults < MaxFaults
    /\ job' = [job EXCEPT !.step = "prune"]
    /\ faults' = faults + 1
    /\ UNCHANGED <<index, ledger, archives, due, drill, nights, rewrites>>

(* The run exits 1 and leaves behind what tar had written. *)
TarFails ==
    /\ job.step = "tar" /\ faults < MaxFaults
    /\ job' = NoJob
    /\ faults' = faults + 1
    /\ UNCHANGED <<index, ledger, archives, due, drill, nights, rewrites>>

(* pruneArchives: not the newest by its stamp, not one without a stamp. *)
Expired ==
    {i \in DOMAIN archives :
        /\ archives[i].stamped /\ archives[i].age > KeepDays
        /\ \E j \in DOMAIN archives : j > i /\ archives[j].stamped}

Prune ==
    /\ job.step = "prune" /\ Expired # {}
    /\ \E i \in Expired : archives' = RemoveAt(archives, i)
    /\ UNCHANGED <<index, ledger, job, due, drill, faults, nights, rewrites>>

EndBackup ==
    /\ job.step = "prune" /\ Expired = {}
    /\ job' = NoJob
    /\ UNCHANGED <<index, ledger, archives, due, drill, faults, nights, rewrites>>

KillBackup ==
    /\ job.step # "idle" /\ faults < MaxFaults
    /\ job' = NoJob
    /\ faults' = faults + 1
    /\ UNCHANGED <<index, ledger, archives, due, drill, nights, rewrites>>

(***************************************************************************)
(* restore-drill.mjs                                                       *)
(***************************************************************************)
(* newestArchive goes by name, and a letter sorts after every stamp. *)
NewestByName ==
    IF \E i \in DOMAIN archives : ~archives[i].stamped
    THEN CHOOSE i \in DOMAIN archives : ~archives[i].stamped
    ELSE Len(archives)

verifyRestored(body) == body.content = body.manifest.digest

(* verifyLedger throws at a torn line; the drill then ends unsuccessfully. *)
LedgerPasses(body) == body.manifest.captures > 0 => ~body.content.ledger.torn

(* The service starts from the restored index, with no sample to fall back on. *)
ServiceAgrees(body) == body.content.index = body.manifest.records

Passes(body) ==
    /\ body # Partial
    /\ verifyRestored(body) /\ LedgerPasses(body) /\ ServiceAgrees(body)

Drill ==
    /\ archives # <<>>
    /\ drill' = IF Passes(archives[NewestByName].body) THEN "passed" ELSE "failed"
    /\ UNCHANGED <<index, ledger, archives, job, due, faults, nights, rewrites>>

Night ==
    /\ job.step = "idle" /\ nights < MaxNights
    /\ nights' = nights + 1
    /\ due' = TRUE
    /\ drill' = "none"
    /\ archives' = [i \in DOMAIN archives |->
                      [archives[i] EXCEPT !.age = IF @ > KeepDays THEN @ ELSE @ + 1]]
    /\ UNCHANGED <<index, ledger, job, faults, rewrites>>

BackupNext ==
    \/ BeginRewrite \/ EndRewrite \/ Capture \/ TearLedger
    \/ RefuseBackup \/ StartBackup \/ CountCaptures \/ Copy
    \/ TarBegins \/ TarEnds \/ TarFails \/ Prune \/ EndBackup \/ KillBackup
    \/ Drill \/ Night

BackupSpec == BackupInit /\ [][BackupNext]_backupVars

--------------------------------------------------------------------------------
(* What the nightly backup should satisfy.                                 *)

(* The data directory, the archives and the running job keep their types. *)
BackupTypeOK ==
    /\ index \in Sizes \cup {Torn, NoIndex}
    /\ ledger \in Ledger
    /\ \A i \in DOMAIN archives : archives[i] \in Archive
    /\ job.step \in {"idle", "counting", "copying", "tar", "prune"}
    /\ job.staged \in Stored /\ job.quiet \in BOOLEAN /\ job.todo \subseteq {"index", "ledger"}
    /\ due \in BOOLEAN /\ drill \in {"none", "passed", "failed"} /\ faults \in 0..MaxFaults

(* What an archive is for: it has an index that can be served, and every   *)
(* capture that the ledger had when the copy was about to begin.           *)
Restorable(a) ==
    /\ a.body # Partial
    /\ a.body.content.index \in Sizes
    /\ a.body.content.ledger.captures >= a.body.manifest.captures
    /\ ~a.body.content.ledger.torn

SomeRestorable(all) == \E i \in DOMAIN all : Restorable(all[i])

(* An archive that the drill passes can be served and has all the captures *)
(* counted before the copy, however the index and the ledger moved while   *)
(* they were being copied (restore-drill.mjs, 58-97).  The drill compares  *)
(* the number of records, and of the captures only that they verify.       *)
DrillIsProof ==
    \A i \in DOMAIN archives :
        Passes(archives[i].body) /\ archives[i].body.manifest.captures > 0 => Restorable(archives[i])

(* A complete archive of a night on which nothing rewrote a file between   *)
(* its count and its copy passes the drill: a drill that fails then means  *)
(* something (backup.mjs hashes the staged copies, lines 81-87).           *)
QuietBackupPasses ==
    \A i \in DOMAIN archives :
        archives[i].quiet /\ archives[i].body # Partial => Passes(archives[i].body)

(* Pruning takes the last archive that could restore the service only when *)
(* the archive just made was disturbed while it was copied; a tar that     *)
(* failed or was killed never costs an older archive (backup.mjs, 138-141).*)
LastRestorableKept ==
    [][SomeRestorable(archives) /\ ~SomeRestorable(archives') => ~job.quiet]_backupVars

(* Whatever is removed is stamped and older than the window, and a newer   *)
(* archive than it stays: nights without a backup remove nothing.          *)
OnlyExpiredRemoved ==
    [][\A i \in DOMAIN archives :
          (Len(archives') < Len(archives) /\ archives' = RemoveAt(archives, i)) =>
              /\ archives[i].age > KeepDays
              /\ \E j \in DOMAIN archives : j > i]_backupVars

(* A backup is worth what it costs: an archive that the drill passes       *)
(* restores the service, a drill that fails after a quiet night means      *)
(* something, and neither pruning nor a tar that fails takes what could    *)
(* still be restored.                                                      *)
BackupsRestore ==
    /\ [](BackupTypeOK /\ DrillIsProof /\ QuietBackupPasses)
    /\ LastRestorableKept
    /\ OnlyExpiredRemoved
===============================================================================
