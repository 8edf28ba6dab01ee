------------------------------ MODULE DailySnapshot ------------------------------
(***************************************************************************)
(* scripts/daily-job.sh: a refresh that rewrites data/index.json, then one *)
(* day of history (scripts/daily-snapshot.mjs with appendCapture of        *)
(* ledger.mjs).  Cron starts the job several times a day; nothing locks    *)
(* the files, so a job may overlap another one.  Every read and write of a *)
(* file is a step of its own: the index is read again for the digest, for  *)
(* the snapshot, for the day archive and for previous.json.                *)
(*                                                                         *)
(* The chain of the repositories and a refresh by hand rewrite the same    *)
(* index when they like, between any two of those reads.                   *)
(*                                                                         *)
(* A job may be killed between any two steps.  A write that is cut short   *)
(* leaves a torn file, for the files in Tears.                             *)
(***************************************************************************)
EXTENDS Ledger

CONSTANTS
    Jobs,         \* the runs of daily-job.sh that can be under way at once
    LastDay,      \* bound: the days of the history
    MaxRefreshes, \* bound: refreshes that rewrite the index
    MaxRewrites,  \* bound: rewrites of the index by anything but the jobs
    MaxCrashes,   \* bound: jobs killed
    Tears         \* the files a killed write leaves torn

ASSUME DailySnapshotAssumption ==
    /\ LastDay \in Nat \ {0}
    /\ MaxRefreshes \in Nat /\ MaxRewrites \in Nat /\ MaxCrashes \in Nat
    /\ Tears \subseteq {"snapshot", "ledger", "archive", "previous"}

VARIABLES
    clock,        \* the day
    index,        \* data/index.json
    previous,     \* data/history/previous.json
    ledger,       \* data/history/ledger.jsonl
    snapshots,    \* data/history/snapshots/<sha>.json
    archive,      \* data/history/<day>.json
    diff,         \* data/history/diff-<day>.md: the two versions it compares
    job,          \* what each job is doing and what it has read
    other,        \* is something else rewriting the index
    mixed,        \* what was written by a run under which the index was rewritten
    refreshes,    \* refreshes so far
    rewrites,     \* rewrites by something else so far
    crashes       \* jobs killed so far

disk == <<index, previous, ledger, snapshots, archive, diff>>
counters == <<refreshes, rewrites, crashes>>
vars == <<clock, disk, job, other, mixed, counters>>

Days == 1..LastDay
NoDiff == <<>>

(* What a run can have mixed: a line of the ledger, the archive of a day,  *)
(* previous.json.                                                          *)
LineAt(i) == <<"line", i>>
ArchiveOf(day) == <<"archive", day>>
PreviousFile == <<"previous", 0>>
Traces == ({"line"} \X Nat) \cup ({"archive"} \X Days) \cup {PreviousFile}

(* The local variables of a run, with the file operation it is at; steady  *)
(* says that nobody has rewritten the index since the run parsed it.       *)
Steps == {"idle", "refresh", "rewrite", "read", "diff", "digest", "snapshot", "readLedger",
          "append", "archive", "previous"}
Idle == [at |-> "idle", date |-> 1, today |-> NoFile, digest |-> NoFile, prev |-> <<>>,
         steady |-> FALSE]

Goto(j, step) == job' = [job EXCEPT ![j].at = step]
At(j, step) == job[j].at = step

(* Every run finds another index under it from here on. *)
Unsteady == [j \in Jobs |-> [job[j] EXCEPT !.steady = FALSE]]

(* What the run of j writes now is marked unless the run is steady. *)
Mark(j, trace) == mixed' = IF job[j].steady THEN mixed \ {trace} ELSE mixed \cup {trace}

Init ==
    /\ clock = 1
    /\ index \in Versions \cup {NoFile}
    /\ previous = NoFile
    /\ ledger = <<>>
    /\ snapshots = [sha \in Digest |-> NoFile]
    /\ archive = [day \in Days |-> NoFile]
    /\ diff = [day \in Days |-> NoDiff]
    /\ job = [j \in Jobs |-> Idle]
    /\ other = "idle" /\ mixed = {}
    /\ refreshes = 0 /\ rewrites = 0 /\ crashes = 0

(* Cron starts the job. *)
Start(j) ==
    /\ At(j, "idle")
    /\ Goto(j, "refresh")
    /\ UNCHANGED <<clock, other, mixed, disk, counters>>

(* The refresh ends by rewriting the index in place, so for a while the    *)
(* file is cut short; when the refresh fails the index on disk is captured. *)
BeginRewrite(j) ==
    /\ At(j, "refresh")
    /\ refreshes < MaxRefreshes \/ index = Torn
    /\ index' = Torn
    /\ refreshes' = refreshes + 1
    /\ job' = [Unsteady EXCEPT ![j].at = "rewrite"]
    /\ UNCHANGED <<clock, other, mixed, previous, ledger, snapshots, archive, diff, rewrites,
                   crashes>>

EndRewrite(j) ==
    /\ At(j, "rewrite")
    /\ \E v \in Versions : index' = v
    /\ job' = [Unsteady EXCEPT ![j].at = "read"]
    /\ UNCHANGED <<clock, other, mixed, previous, ledger, snapshots, archive, diff, counters>>

(* So does the chain when it has audited the repositories, and a refresh   *)
(* by hand; the one that is killed half-way leaves the file cut short.     *)
OtherBegins ==
    /\ other = "idle" /\ rewrites < MaxRewrites
    /\ other' = "rewriting"
    /\ index' = Torn
    /\ job' = Unsteady
    /\ rewrites' = rewrites + 1
    /\ UNCHANGED <<clock, mixed, previous, ledger, snapshots, archive, diff, refreshes, crashes>>

OtherEnds ==
    /\ other = "rewriting"
    /\ other' = "idle"
    /\ \E v \in Versions : index' = v
    /\ job' = Unsteady
    /\ UNCHANGED <<clock, mixed, previous, ledger, snapshots, archive, diff, counters>>

RefreshFails(j) ==
    /\ At(j, "refresh")
    /\ Goto(j, "read")
    /\ UNCHANGED <<clock, other, mixed, disk, counters>>

(* Mutant of ReadIndex: an index that does not parse is taken as it is. *)
MutReadIndex(j) ==
    /\ At(j, "read")
    /\ IF index # NoFile
       THEN job' = [job EXCEPT ![j] = [Idle EXCEPT !.at = "diff", !.date = clock,
                                                   !.today = index, !.steady = TRUE]]
       ELSE job' = [job EXCEPT ![j] = Idle]
    /\ UNCHANGED <<clock, other, mixed, disk, counters>>

(* daily-snapshot.mjs: no index or an unreadable one is exit 1; the date is *)
(* today's.                                                                 *)
ReadIndex(j) ==
    /\ At(j, "read")
    /\ IF index \in Versions
       THEN job' = [job EXCEPT ![j] = [Idle EXCEPT !.at = "diff", !.date = clock,
                                                   !.today = index, !.steady = TRUE]]
       ELSE job' = [job EXCEPT ![j] = Idle]
    /\ UNCHANGED <<clock, other, mixed, disk, counters>>

(* Mutant of WriteDiff: with no previous.json to read the run throws. *)
MutWriteDiffThrows(j) ==
    /\ At(j, "diff")
    /\ IF previous \in Versions
       THEN /\ diff' = [diff EXCEPT ![job[j].date] = <<previous, job[j].today>>]
            /\ Goto(j, "digest")
       ELSE job' = [job EXCEPT ![j] = Idle] /\ UNCHANGED diff
    /\ UNCHANGED <<clock, other, mixed, index, previous, ledger, snapshots, archive, counters>>

(* Mutant of WriteDiff: previous.json moves as soon as the diff is written. *)
MutWriteDiffMoves(j) ==
    /\ At(j, "diff") /\ previous # Torn
    /\ diff' = IF previous = NoFile THEN diff
               ELSE [diff EXCEPT ![job[j].date] = <<previous, job[j].today>>]
    /\ previous' = index
    /\ Mark(j, PreviousFile)
    /\ Goto(j, "digest")
    /\ UNCHANGED <<clock, other, index, ledger, snapshots, archive, counters>>

(* With a previous.json, the diff of the day is written; one that does not *)
(* parse throws, and the run ends.                                         *)
WriteDiff(j) ==
    /\ At(j, "diff")
    /\ CASE previous = NoFile -> Goto(j, "digest") /\ UNCHANGED diff
         [] previous = Torn -> job' = [job EXCEPT ![j] = Idle] /\ UNCHANGED diff
         [] previous \in Versions ->
                /\ diff' = [diff EXCEPT ![job[j].date] = <<previous, job[j].today>>]
                /\ Goto(j, "digest")
    /\ UNCHANGED <<clock, other, mixed, index, previous, ledger, snapshots, archive, counters>>

(* Mutant of CompareLast: one line per run. *)
MutCompareLastAlways(j) ==
    /\ At(j, "digest")
    /\ IF ~Readable(ledger) THEN job' = [job EXCEPT ![j] = Idle]
       ELSE job' = [job EXCEPT ![j].digest = index, ![j].at = "snapshot"]
    /\ UNCHANGED <<clock, other, mixed, disk, counters>>

(* The digest of the index as it is now, against the last line. *)
CompareLast(j) ==
    /\ At(j, "digest")
    /\ IF ~Readable(ledger) THEN job' = [job EXCEPT ![j] = Idle]
       ELSE job' = [job EXCEPT ![j].digest = index,
                               ![j].at = IF Unchanged(ledger, job[j].date, index)
                                         THEN "previous" ELSE "snapshot"]
    /\ UNCHANGED <<clock, other, mixed, disk, counters>>

(* Mutant of KeepSnapshot: a snapshot is written over an existing one only. *)
MutKeepSnapshot(j) ==
    /\ At(j, "snapshot")
    /\ snapshots' = IF snapshots[index] # NoFile THEN [snapshots EXCEPT ![index] = index]
                                                 ELSE snapshots
    /\ job' = [job EXCEPT ![j].digest = index, ![j].at = "readLedger"]
    /\ UNCHANGED <<clock, other, mixed, index, previous, ledger, archive, diff, counters>>

(* appendCapture: the bytes are read, and kept under their digest unless a *)
(* file with that name is there.                                           *)
KeepSnapshot(j) ==
    /\ At(j, "snapshot")
    /\ snapshots' = IF snapshots[index] = NoFile THEN [snapshots EXCEPT ![index] = index]
                                                 ELSE snapshots
    /\ job' = [job EXCEPT ![j].digest = index, ![j].at = "readLedger"]
    /\ UNCHANGED <<clock, other, mixed, index, previous, ledger, archive, diff, counters>>

ReadLedger(j) ==
    /\ At(j, "readLedger")
    /\ job' = [job EXCEPT ![j] = IF Readable(ledger)
                                 THEN [@ EXCEPT !.prev = LastHash(ledger), !.at = "append"]
                                 ELSE Idle]
    /\ UNCHANGED <<clock, other, mixed, disk, counters>>

(* Mutant of NewLine: the parsed index is not passed on, so counts are 0. *)
MutNewLine(j) == [capture |-> [day |-> job[j].date, sha |-> job[j].digest, counts |-> 0],
                  prev |-> job[j].prev]

NewLine(j) == [capture |-> [day |-> job[j].date, sha |-> job[j].digest,
                            counts |-> CountsOf[job[j].today]],
               prev |-> job[j].prev]

(* The line is appended; behind a torn line, which has no newline, it is   *)
(* glued to it.                                                            *)
AppendLine(j) ==
    /\ At(j, "append")
    /\ ledger' = IF Readable(ledger) THEN Append(ledger, NewLine(j)) ELSE ledger
    /\ IF Readable(ledger) THEN Mark(j, LineAt(Len(ledger) + 1)) ELSE UNCHANGED mixed
    /\ Goto(j, "archive")
    /\ UNCHANGED <<clock, other, index, previous, snapshots, archive, diff, counters>>

(* Mutant of ArchiveDay: the archive is named after the clock, not the run. *)
MutArchiveDay(j) ==
    /\ At(j, "archive")
    /\ archive' = IF archive[clock] = NoFile THEN [archive EXCEPT ![clock] = index] ELSE archive
    /\ IF archive[clock] = NoFile THEN Mark(j, ArchiveOf(clock)) ELSE UNCHANGED mixed
    /\ Goto(j, "previous")
    /\ UNCHANGED <<clock, other, index, previous, ledger, snapshots, diff, counters>>

(* The day archive is written once. *)
ArchiveDay(j) ==
    /\ At(j, "archive")
    /\ archive' = IF archive[job[j].date] = NoFile THEN [archive EXCEPT ![job[j].date] = index]
                                                   ELSE archive
    /\ IF archive[job[j].date] = NoFile THEN Mark(j, ArchiveOf(job[j].date)) ELSE UNCHANGED mixed
    /\ Goto(j, "previous")
    /\ UNCHANGED <<clock, other, index, previous, ledger, snapshots, diff, counters>>

(* previous.json moves last. *)
MovePrevious(j) ==
    /\ At(j, "previous")
    /\ previous' = index
    /\ Mark(j, PreviousFile)
    /\ job' = [job EXCEPT ![j] = Idle]
    /\ UNCHANGED <<clock, other, index, ledger, snapshots, archive, diff, counters>>

(* A job is killed; the write it was at may have been cut short. *)
Crash(j) ==
    /\ ~At(j, "idle") /\ crashes < MaxCrashes
    /\ job' = [job EXCEPT ![j] = Idle]
    /\ crashes' = crashes + 1
    /\ \/ UNCHANGED disk
       \/ /\ At(j, "snapshot") /\ "snapshot" \in Tears
          /\ snapshots[index] = NoFile
          /\ snapshots' = [snapshots EXCEPT ![index] = Torn]
          /\ UNCHANGED <<index, previous, ledger, archive, diff>>
       \/ /\ At(j, "append") /\ "ledger" \in Tears
          /\ ledger' = Append(ledger, TornLine)
          /\ UNCHANGED <<index, previous, snapshots, archive, diff>>
       \/ /\ At(j, "archive") /\ "archive" \in Tears /\ archive[job[j].date] = NoFile
          /\ archive' = [archive EXCEPT ![job[j].date] = Torn]
          /\ UNCHANGED <<index, previous, ledger, snapshots, diff>>
       \/ /\ At(j, "previous") /\ "previous" \in Tears /\ previous' = Torn
          /\ UNCHANGED <<index, ledger, snapshots, archive, diff>>
    /\ UNCHANGED <<clock, other, mixed, refreshes, rewrites>>

NextDay ==
    /\ clock < LastDay
    /\ clock' = clock + 1
    /\ UNCHANGED <<disk, job, other, mixed, counters>>

Step(j) ==
    \/ BeginRewrite(j) \/ EndRewrite(j) \/ RefreshFails(j)
    \/ ReadIndex(j) \/ WriteDiff(j) \/ CompareLast(j) \/ KeepSnapshot(j)
    \/ ReadLedger(j) \/ AppendLine(j) \/ ArchiveDay(j) \/ MovePrevious(j)

Next ==
    \/ \E j \in Jobs : Start(j) \/ Step(j) \/ Crash(j)
    \/ OtherBegins \/ OtherEnds \/ NextDay

Spec == Init /\ [][Next]_vars

(* Cron keeps starting the job, a job that is not killed goes on, and not  *)
(* every refresh fails.  Nothing else that rewrites the index need end.    *)
Fairness == \A j \in Jobs : WF_vars(Start(j)) /\ WF_vars(Step(j)) /\ SF_vars(BeginRewrite(j))

FairSpec == Spec /\ Fairness
================================================================================
