---------------------------- MODULE DailySnapshotProps ----------------------------
(***************************************************************************)
(* What the history must survive: jobs killed between any two steps, days  *)
(* that change under a run, refreshes that fail, an index that something   *)
(* else rewrites under a run.  What such a run writes is in `mixed`, and   *)
(* nothing but that may disagree with the rest.                            *)
(***************************************************************************)
EXTENDS DailySnapshot

(* The types of the files and of what a run has read. *)
TypeOK ==
    /\ clock \in Days
    /\ index \in File /\ previous \in File
    /\ ledger \in Seq(Line \cup {TornLine})
    /\ snapshots \in [Digest -> File]
    /\ archive \in [Days -> File]
    /\ diff \in [Days -> {NoDiff} \cup (Versions \X Versions)]
    /\ job \in [Jobs -> [at : Steps, date : Days, today : Versions \cup {NoFile},
                         digest : File, prev : Hash, steady : BOOLEAN]]
    /\ other \in {"idle", "rewriting"}
    /\ mixed \subseteq Traces
    /\ refreshes \in Nat /\ rewrites \in Nat /\ crashes \in Nat

(* "A snapshot whose bytes no longer match, or a line whose prev does not   *)
(* match the line before it, is tampering" (ledger.mjs:156): nobody tampers *)
(* with the files here, so verification finds the chain whole, whoever      *)
(* rewrites the index,                                                      *)
NoChainBreak == Readable(ledger) => ChainBreaks(ledger) = {}

(* and every retained snapshot in agreement with its line: one rewritten   *)
(* index spoils the line of the run it happened to, and no line after it.  *)
MixedLines == {i \in DOMAIN ledger : LineAt(i) \in mixed}
NoEvidenceProblem == Readable(ledger) => EvidenceProblems(ledger, snapshots) \subseteq MixedLines

(* As the comment says it, without the exception: the parsed index and the *)
(* bytes that are kept (daily-snapshot.mjs:35, ledger.mjs:61-69) are two   *)
(* reads, and a line that disagrees with its snapshot is not tampering.    *)
NothingLooksTampered == Readable(ledger) => EvidenceProblems(ledger, snapshots) = {}

(* The evidence is on disk before the line that refers to it.  *)
EvidenceKept == \A i \in DOMAIN ledger :
    ledger[i] # TornLine => snapshots[ledger[i].capture.sha] = ledger[i].capture.sha

(* "The capture is appended to a chained ledger before previous.json moves" *)
(* (daily-snapshot.mjs:53): what the next diff compares against is always a *)
(* recorded capture, wherever the job was killed, unless the run that moved *)
(* it had the index rewritten under it; the next steady run moves it back.  *)
PreviousIsRecorded == previous # NoFile /\ PreviousFile \notin mixed =>
    \E i \in DOMAIN ledger : ledger[i].capture.sha = previous

(* A day archive is a capture the ledger records for that very day, even   *)
(* for a run that goes past midnight (unless its write was cut short, or   *)
(* the index was rewritten under the run that wrote it).                   *)
ArchiveIsACapture == \A day \in Days :
    archive[day] \notin {NoFile, Torn} /\ ArchiveOf(day) \notin mixed =>
        \E i \in DOMAIN ledger : /\ ledger[i].capture.day = day
                                 /\ ledger[i].capture.sha = archive[day]

(* "One line per capture, not per run" (daily-snapshot.mjs:57), and an     *)
(* append-only record: the ledger implements the abstract log, in which    *)
(* only a mixed line may repeat the one before it or have the digest of    *)
(* one index and the counts of another.                                    *)
RecordedCaptures == [i \in DOMAIN ledger |-> ledger[i].capture]
AnyCaptures == [day : Days, sha : Digest, counts : {CountsOf[v] : v \in Versions}]
DayCaptures == {c \in AnyCaptures : c.sha \in Versions /\ c.counts = CountsOf[c.sha]}
Log == INSTANCE CaptureLog WITH Captures <- DayCaptures, MixedCaptures <- AnyCaptures,
                                log <- RecordedCaptures, mixed <- MixedLines
LogSpec == Log!Spec

(* "A failed 04:17 then costs a few hours instead of a day"                *)
(* (daily-snapshot.mjs:58): as long as the job keeps being started, a day  *)
(* that lasts gets its capture, whatever was killed or rewritten before,   *)
(* unless a half-written index has become previous.json.                   *)
Captured(day) == \E i \in DOMAIN ledger :
    ledger[i] # TornLine /\ ledger[i].capture.day = day
DayCaptured == \A day \in Days :
    clock = day ~> clock # day \/ Captured(day) \/ previous = Torn

(* As the comment says it, without the exception: with a previous.json     *)
(* that does not parse every run throws before it captures                 *)
(* (daily-snapshot.mjs:42), and copyFileSync copies whatever is there.     *)
EveryDayCaptured == \A day \in Days : clock = day ~> clock # day \/ Captured(day)
================================================================================
