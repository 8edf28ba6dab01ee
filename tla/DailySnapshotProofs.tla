--------------------------- MODULE DailySnapshotProofs ---------------------------
(***************************************************************************)
(* For every set of versions and days and any number of refreshes, kills   *)
(* and rewrites of the index by anything else.  Most of it holds for jobs  *)
(* that overlap as well; the chain and the log need the jobs to be one at  *)
(* a time (OneJob).                                                        *)
(***************************************************************************)
EXTENDS DailySnapshotProps, SequenceTheorems, TLAPS

JobState == [at : Steps, date : Days, today : Versions \cup {NoFile}, digest : File,
             prev : Hash, steady : BOOLEAN]

(* The steps after the index was parsed, and after its digest was taken.   *)
AfterRead == {"diff", "digest", "snapshot", "readLedger", "append", "archive", "previous"}
AfterDigest == {"snapshot", "readLedger", "append", "archive", "previous"}

JobInv ==
    /\ \A j \in Jobs : job[j].at \in AfterRead => job[j].today \in Versions /\ index # NoFile
    /\ \A j \in Jobs : job[j].at \in AfterDigest => job[j].digest \in Digest

TInv == TypeOK /\ JobInv

(* An append stays over the same set. *)
LEMMA AppendStays ==
  ASSUME NEW S, NEW s \in Seq(S), NEW e \in S
  PROVE  Append(s, e) \in Seq(S)
OBVIOUS

(* The hash of the last line of a readable ledger is a hash. *)
LEMMA LastHashType ==
  ASSUME ledger \in Seq(Line \cup {TornLine}), Readable(ledger)
  PROVE  LastHash(ledger) \in Hash
<1>1. CASE ledger = <<>>
  BY <1>1 DEF LastHash, Hash
<1>2. CASE ledger # <<>>
  <2>1. ledger[Len(ledger)] \in Line
    BY <1>2 DEF Readable
  <2>2. PICK line \in Line : line = ledger[Len(ledger)]
    BY <2>1
  <2>3. line.prev \in Seq(Capture) /\ line.capture \in Capture
    BY <2>2 DEF Line, Hash
  <2>4. Append(line.prev, line.capture) \in Seq(Capture)
    BY <2>3, AppendStays
  <2>5. QED
    BY <1>2, <2>2, <2>4 DEF LastHash, HashOf, Hash
<1>3. QED
  BY <1>1, <1>2

(* The line a job appends is a line. *)
LEMMA NewLineType ==
  ASSUME TInv, NEW j \in Jobs, job[j].at = "append"
  PROVE  NewLine(j) \in Line
<1>1. job[j] \in JobState
  BY DEF TInv, TypeOK, JobState
<1>2. job[j].today \in Versions /\ job[j].digest \in Digest
  BY DEF TInv, JobInv, AfterRead, AfterDigest
<1>3. job[j].date \in Nat /\ job[j].prev \in Hash
  BY <1>1, DailySnapshotAssumption DEF JobState, Days
<1>4. CountsOf[job[j].today] \in Nat
  BY <1>2, LedgerAssumption
<1>5. [day |-> job[j].date, sha |-> job[j].digest, counts |-> CountsOf[job[j].today]] \in Capture
  BY <1>2, <1>3, <1>4 DEF Capture
<1>6. QED
  BY <1>3, <1>5 DEF NewLine, Line

(* The invariant holds when nothing has run yet. *)
LEMMA InitTInv == Init => TInv
<1> SUFFICES ASSUME Init PROVE TInv
  OBVIOUS
<1>1. 1 \in Days
  BY DailySnapshotAssumption DEF Days
<1>2. Idle \in JobState
  BY <1>1 DEF Idle, JobState, Steps, File, Hash
<1>3. job \in [Jobs -> JobState] /\ \A j \in Jobs : job[j].at = "idle"
  BY <1>2 DEF Init, Idle
<1>4. JobInv
  BY <1>3 DEF JobInv, AfterRead, AfterDigest
<1>5. TypeOK
  BY <1>1, <1>3 DEF Init, TypeOK, JobState, File, Digest
<1>6. QED
  BY <1>4, <1>5 DEF TInv

(* Sending a job to a step that needs nothing more than it has. *)
LEMMA GotoKeeps ==
  ASSUME TInv, NEW j \in Jobs, NEW step \in Steps, Goto(j, step),
         step \in AfterRead => job[j].at \in AfterRead,
         step \in AfterDigest => job[j].at \in AfterDigest,
         index # NoFile => index' # NoFile
  PROVE  job' \in [Jobs -> JobState] /\ JobInv'
<1>1. job \in [Jobs -> JobState] /\ job[j] \in JobState
  BY DEF TInv, TypeOK, JobState
<1>2. PICK r : r = [job[j] EXCEPT !.at = step]
  OBVIOUS
<1>3. r \in JobState /\ r.at = step /\ r.today = job[j].today /\ r.digest = job[j].digest
  BY <1>1, <1>2 DEF JobState
<1>4. job' = [job EXCEPT ![j] = r]
  BY <1>2 DEF Goto
<1>5. QED
  BY <1>1, <1>3, <1>4 DEF TInv, JobInv

(* Ending a run. *)
LEMMA IdleKeeps ==
  ASSUME TInv, NEW j \in Jobs, job' = [job EXCEPT ![j] = Idle], index # NoFile => index' # NoFile
  PROVE  job' \in [Jobs -> JobState] /\ JobInv'
<1>1. job \in [Jobs -> JobState]
  BY DEF TInv, TypeOK, JobState
<1>2. Idle \in JobState /\ Idle.at = "idle"
  BY DailySnapshotAssumption DEF Idle, JobState, Steps, File, Hash, Days
<1>3. QED
  BY <1>1, <1>2 DEF TInv, JobInv, AfterRead, AfterDigest

(* Taking the steadiness of the runs away, and moving one that has not     *)
(* parsed the index.                                                       *)
LEMMA UnsteadyKeeps ==
  ASSUME TInv, index # NoFile => index' # NoFile,
         \/ job' = Unsteady
         \/ \E j \in Jobs, step \in {"rewrite", "read"} : job' = [Unsteady EXCEPT ![j].at = step]
  PROVE  job' \in [Jobs -> JobState] /\ JobInv'
<1>1. job \in [Jobs -> JobState]
  BY DEF TInv, TypeOK, JobState
<1>2. Unsteady \in [Jobs -> JobState]
  BY <1>1 DEF Unsteady, JobState
<1>3. \A k \in Jobs : /\ Unsteady[k].at = job[k].at /\ Unsteady[k].today = job[k].today
                      /\ Unsteady[k].digest = job[k].digest
  BY <1>1 DEF Unsteady, JobState
<1>4. CASE job' = Unsteady
  BY <1>2, <1>3, <1>4 DEF TInv, JobInv
<1>5. ASSUME NEW j \in Jobs, NEW step \in {"rewrite", "read"}, job' = [Unsteady EXCEPT ![j].at = step]
      PROVE  job' \in [Jobs -> JobState] /\ JobInv'
  <2>1. PICK r : r = [Unsteady[j] EXCEPT !.at = step]
    OBVIOUS
  <2>2. r \in JobState /\ r.at = step
    BY <1>2, <2>1 DEF JobState, Steps
  <2>3. job' = [Unsteady EXCEPT ![j] = r]
    BY <1>5, <2>1
  <2>4. job' \in [Jobs -> JobState]
    BY <1>2, <2>2, <2>3
  <2>5. job'[j].at = step /\ \A k \in Jobs : k # j => job'[k] = Unsteady[k]
    BY <1>2, <2>2, <2>3
  <2>6. \A k \in Jobs : job'[k].at \in AfterRead => k # j
    BY <2>5 DEF AfterRead
  <2>7. JobInv'
    BY <1>3, <2>5, <2>6 DEF TInv, JobInv, AfterRead, AfterDigest
  <2>8. QED
    BY <2>4, <2>7
<1>6. QED
  BY <1>4, <1>5

(* What a run marks is one of its traces. *)
LEMMA MarkKeeps ==
  ASSUME TInv, NEW j \in Jobs, NEW trace \in Traces, Mark(j, trace)
  PROVE  mixed' \subseteq Traces
BY DEF Mark, TInv, TypeOK

LEMMA TracesExist ==
  /\ \A i \in Nat : LineAt(i) \in Traces
  /\ \A day \in Days : ArchiveOf(day) \in Traces
  /\ PreviousFile \in Traces
BY DEF LineAt, ArchiveOf, PreviousFile, Traces

(* The index of a job that has parsed it stays a file. *)
LEMMA IndexIsAFile ==
  ASSUME TInv, NEW j \in Jobs, job[j].at \in AfterRead
  PROVE  index \in Digest /\ index # NoFile
BY DEF TInv, TypeOK, JobInv, File

(* No step of a run changes a type. *)
LEMMA StepKeepsTypes ==
  ASSUME TInv, NEW j \in Jobs, Start(j) \/ Step(j)
  PROVE  TInv'
<1>0. NoFile \notin Digest
  BY LedgerAssumption DEF Digest
<1>1. CASE Start(j)
  <2>1. job' \in [Jobs -> JobState] /\ JobInv'
    BY <1>1, GotoKeeps DEF Start, Steps, AfterRead, AfterDigest, disk
  <2>2. QED
    BY <1>1, <2>1 DEF Start, TInv, TypeOK, JobState, disk, counters
<1>2. CASE BeginRewrite(j)
  <2>1. job' \in [Jobs -> JobState] /\ JobInv'
    BY <1>0, <1>2, UnsteadyKeeps DEF BeginRewrite, Digest
  <2>2. QED
    BY <1>2, <2>1 DEF BeginRewrite, TInv, TypeOK, JobState, File, Digest
<1>3. CASE EndRewrite(j)
  <2>1. job' \in [Jobs -> JobState] /\ JobInv'
    BY <1>0, <1>3, UnsteadyKeeps DEF EndRewrite, Digest
  <2>2. QED
    <3>1. index' \in File
      BY <1>3 DEF EndRewrite, File, Digest
    <3>2. QED
      BY <1>3, <2>1, <3>1 DEF EndRewrite, TInv, TypeOK, JobState, counters
<1>4. CASE RefreshFails(j)
  <2>1. job' \in [Jobs -> JobState] /\ JobInv'
    BY <1>4, GotoKeeps DEF RefreshFails, Steps, AfterRead, AfterDigest, disk
  <2>2. QED
    BY <1>4, <2>1 DEF RefreshFails, TInv, TypeOK, JobState, disk, counters
<1>5. CASE ReadIndex(j)
  <2>1. CASE index \in Versions
    <3>1. PICK r : r = [Idle EXCEPT !.at = "diff", !.date = clock, !.today = index, !.steady = TRUE]
      OBVIOUS
    <3>2. r \in JobState /\ r.at = "diff" /\ r.today = index
      <4>1. r = [at |-> "diff", date |-> clock, today |-> index, digest |-> NoFile, prev |-> <<>>,
                 steady |-> TRUE]
        BY <3>1 DEF Idle
      <4>2. clock \in Days /\ <<>> \in Hash /\ NoFile \in File /\ "diff" \in Steps
        BY DEF TInv, TypeOK, Hash, File, Steps
      <4>3. QED
        BY <2>1, <4>1, <4>2 DEF JobState
    <3>3. job' = [job EXCEPT ![j] = r] /\ index' = index
      BY <1>5, <2>1, <3>1 DEF ReadIndex, disk
    <3>4. job' \in [Jobs -> JobState] /\ JobInv'
      BY <2>1, <3>2, <3>3, LedgerAssumption DEF TInv, TypeOK, JobState, JobInv, AfterDigest
    <3>5. QED
      BY <1>5, <3>4 DEF ReadIndex, TInv, TypeOK, JobState, disk, counters
  <2>2. CASE index \notin Versions
    <3>1. job' \in [Jobs -> JobState] /\ JobInv'
      BY <1>5, <2>2, IdleKeeps DEF ReadIndex, disk
    <3>2. QED
      BY <1>5, <3>1 DEF ReadIndex, TInv, TypeOK, JobState, disk, counters
  <2>3. QED
    BY <2>1, <2>2
<1>6. CASE WriteDiff(j)
  <2>0. index' = index /\ job[j].at = "diff" /\ previous \in File
    BY <1>6 DEF WriteDiff, At, TInv, TypeOK
  <2>1. CASE previous = Torn
    <3>1. job' = [job EXCEPT ![j] = Idle] /\ diff' = diff
      BY <1>6, <2>1, LedgerAssumption DEF WriteDiff
    <3>2. job' \in [Jobs -> JobState] /\ JobInv'
      BY <3>1, <2>0, IdleKeeps
    <3>3. QED
      BY <1>6, <3>1, <3>2 DEF WriteDiff, TInv, TypeOK, JobState, counters
  <2>2. CASE previous # Torn
    <3>1. Goto(j, "digest") /\ (diff' = diff \/ /\ previous \in Versions
                                                /\ diff' = [diff EXCEPT ![job[j].date] = <<previous, job[j].today>>])
      BY <1>6, <2>0, <2>2 DEF WriteDiff, File, Digest
    <3>2. job' \in [Jobs -> JobState] /\ JobInv'
      BY <3>1, <2>0, GotoKeeps DEF Steps, AfterRead, AfterDigest
    <3>3. job[j].today \in Versions
      BY <2>0 DEF TInv, JobInv, AfterRead
    <3>4. diff' \in [Days -> {NoDiff} \cup (Versions \X Versions)]
      <4>1. diff \in [Days -> {NoDiff} \cup (Versions \X Versions)] /\ job[j].date \in Days
        BY DEF TInv, TypeOK
      <4>2. CASE previous \in Versions
        <5>1. PICK d \in Versions \X Versions : d = <<previous, job[j].today>>
          BY <3>3, <4>2
        <5>2. QED
          BY ONLY <3>1, <4>1, <5>1
      <4>3. QED
        BY <3>1, <4>1, <4>2
    <3>5. QED
      BY <1>6, <3>2, <3>4 DEF WriteDiff, TInv, TypeOK, JobState, counters
  <2>3. QED
    BY <2>1, <2>2
<1>7. CASE CompareLast(j)
  <2>0. index' = index /\ job[j].at = "digest" /\ index \in Digest
    BY <1>7, IndexIsAFile DEF CompareLast, At, disk, AfterRead
  <2>1. job' \in [Jobs -> JobState] /\ JobInv'
    <3>1. CASE ~Readable(ledger)
      BY <1>7, <2>0, <3>1, IdleKeeps DEF CompareLast
    <3>2. CASE Readable(ledger)
      <4>1. PICK step \in {"previous", "snapshot"} : job' = [job EXCEPT ![j].digest = index, ![j].at = step]
        BY <1>7, <3>2, Zenon DEF CompareLast
      <4>2. PICK r : r = [job[j] EXCEPT !.digest = index, !.at = step]
        OBVIOUS
      <4>3. job[j] \in JobState /\ job \in [Jobs -> JobState]
        BY DEF TInv, TypeOK, JobState
      <4>4. r \in JobState /\ r.at = step /\ r.digest = index /\ r.today = job[j].today
        BY <2>0, <4>2, <4>3 DEF JobState, Steps, File
      <4>5. job' = [job EXCEPT ![j] = r]
        BY <4>1, <4>2, <4>3 DEF JobState
      <4>6. QED
        BY <2>0, <4>3, <4>4, <4>5 DEF TInv, JobInv, AfterRead
    <3>3. QED
      BY <3>1, <3>2
  <2>2. QED
    BY <1>7, <2>1 DEF CompareLast, TInv, TypeOK, JobState, disk, counters
<1>8. CASE KeepSnapshot(j)
  <2>0. index' = index /\ job[j].at = "snapshot" /\ index \in Digest
    BY <1>8, IndexIsAFile DEF KeepSnapshot, At, AfterRead
  <2>1. job' \in [Jobs -> JobState] /\ JobInv'
    <3>2. PICK r : r = [job[j] EXCEPT !.digest = index, !.at = "readLedger"]
      OBVIOUS
    <3>3. job[j] \in JobState /\ job \in [Jobs -> JobState]
      BY DEF TInv, TypeOK, JobState
    <3>4. r \in JobState /\ r.at = "readLedger" /\ r.digest = index /\ r.today = job[j].today
      BY <2>0, <3>2, <3>3 DEF JobState, Steps, File
    <3>5. job' = [job EXCEPT ![j] = r]
      BY <1>8, <3>2, <3>3 DEF JobState, KeepSnapshot
    <3>6. QED
      BY <2>0, <3>3, <3>4, <3>5 DEF TInv, JobInv, AfterRead
  <2>2. snapshots' \in [Digest -> File]
    BY <1>8, <2>0 DEF KeepSnapshot, TInv, TypeOK, File
  <2>3. QED
    BY <1>8, <2>1, <2>2 DEF KeepSnapshot, TInv, TypeOK, JobState, counters
<1>9. CASE ReadLedger(j)
  <2>0. index' = index /\ job[j].at = "readLedger"
    BY <1>9 DEF ReadLedger, At, disk
  <2>1. job' \in [Jobs -> JobState] /\ JobInv'
    <3>1. CASE ~Readable(ledger)
      BY <1>9, <2>0, <3>1, IdleKeeps DEF ReadLedger
    <3>2. CASE Readable(ledger)
      <4>1. PICK h \in Hash : h = LastHash(ledger)
        BY <3>2, LastHashType DEF TInv, TypeOK
      <4>2. PICK r : r = [job[j] EXCEPT !.prev = h, !.at = "append"]
        OBVIOUS
      <4>3. job[j] \in JobState /\ job \in [Jobs -> JobState]
        BY DEF TInv, TypeOK, JobState
      <4>4. r \in JobState /\ r.at = "append" /\ r.digest = job[j].digest /\ r.today = job[j].today
        BY <2>0, <4>2, <4>3 DEF JobState, Steps, File
      <4>5. job' = [job EXCEPT ![j] = r]
        BY <1>9, <3>2, <4>1, <4>2, <4>3 DEF JobState, ReadLedger
      <4>6. QED
        BY <2>0, <4>3, <4>4, <4>5 DEF TInv, JobInv, AfterRead, AfterDigest
    <3>3. QED
      BY <3>1, <3>2
  <2>2. QED
    BY <1>9, <2>1 DEF ReadLedger, TInv, TypeOK, JobState, disk, counters
<1>10. CASE AppendLine(j)
  <2>1. job' \in [Jobs -> JobState] /\ JobInv'
    BY <1>10, GotoKeeps DEF AppendLine, At, Steps, AfterRead, AfterDigest
  <2>2. NewLine(j) \in Line \cup {TornLine}
    BY <1>10, NewLineType DEF AppendLine, At
  <2>3. ledger' \in Seq(Line \cup {TornLine})
    BY <1>10, <2>2, AppendStays DEF AppendLine, TInv, TypeOK
  <2>4. mixed' \subseteq Traces
    <3>1. LineAt(Len(ledger) + 1) \in Traces
      BY TracesExist DEF TInv, TypeOK
    <3>2. QED
      BY <1>10, <3>1, MarkKeeps DEF AppendLine, TInv, TypeOK
  <2>5. QED
    BY <1>10, <2>1, <2>3, <2>4 DEF AppendLine, TInv, TypeOK, JobState, counters
<1>11. CASE ArchiveDay(j)
  <2>1. job' \in [Jobs -> JobState] /\ JobInv'
    BY <1>11, GotoKeeps DEF ArchiveDay, At, Steps, AfterRead, AfterDigest
  <2>2. mixed' \subseteq Traces
    <3>1. ArchiveOf(job[j].date) \in Traces
      BY TracesExist DEF TInv, TypeOK
    <3>2. QED
      BY <1>11, <3>1, MarkKeeps DEF ArchiveDay, TInv, TypeOK
  <2>3. QED
    BY <1>11, <2>1, <2>2 DEF ArchiveDay, TInv, TypeOK, JobState, counters
<1>12. CASE MovePrevious(j)
  <2>1. job' \in [Jobs -> JobState] /\ JobInv'
    BY <1>12, IdleKeeps DEF MovePrevious
  <2>2. mixed' \subseteq Traces
    BY <1>12, MarkKeeps, TracesExist DEF MovePrevious
  <2>3. QED
    BY <1>12, <2>1, <2>2 DEF MovePrevious, TInv, TypeOK, JobState, counters
<1>13. QED
  BY <1>1, <1>2, <1>3, <1>4, <1>5, <1>6, <1>7, <1>8, <1>9, <1>10, <1>11, <1>12 DEF Step

(* Nor does a kill, whatever it tears. *)
LEMMA CrashKeepsTypes ==
  ASSUME TInv, NEW j \in Jobs, Crash(j)
  PROVE  TInv'
<1>1. job' \in [Jobs -> JobState] /\ JobInv'
  BY IdleKeeps DEF Crash, disk
<1>2. /\ clock' \in Days /\ crashes' \in Nat /\ refreshes' \in Nat /\ rewrites' \in Nat
      /\ index' \in File /\ other' \in {"idle", "rewriting"} /\ mixed' \subseteq Traces
  BY DEF Crash, TInv, TypeOK, disk
<1>3. previous' \in File /\ diff' \in [Days -> {NoDiff} \cup (Versions \X Versions)]
  BY DEF Crash, TInv, TypeOK, disk, File, Digest
<1>4. snapshots' \in [Digest -> File] /\ archive' \in [Days -> File]
  BY DEF Crash, TInv, TypeOK, disk, File, Digest
<1>5. ledger' \in Seq(Line \cup {TornLine})
  <2>1. ledger' = ledger \/ ledger' = Append(ledger, TornLine)
    BY DEF Crash, disk
  <2>2. QED
    BY <2>1, AppendStays, SMTT(40) DEF TInv, TypeOK
<1>6. QED
  BY <1>1, <1>2, <1>3, <1>4, <1>5 DEF TInv, TypeOK, JobState

(* Nor does what rewrites the index without being a job. *)
LEMMA OtherKeepsTypes ==
  ASSUME TInv, OtherBegins \/ OtherEnds
  PROVE  TInv'
<1>1. index' \in Digest /\ NoFile \notin Digest
  BY LedgerAssumption DEF OtherBegins, OtherEnds, Digest
<1>2. job' \in [Jobs -> JobState] /\ JobInv'
  BY <1>1, UnsteadyKeeps DEF OtherBegins, OtherEnds
<1>3. QED
  BY <1>1, <1>2 DEF OtherBegins, OtherEnds, TInv, TypeOK, JobState, File, counters

(* The types are inductive. *)
LEMMA NextTInv == TInv /\ [Next]_vars => TInv'
<1> SUFFICES ASSUME TInv, [Next]_vars PROVE TInv'
  OBVIOUS
<1>1. CASE \E j \in Jobs : Start(j) \/ Step(j) \/ Crash(j)
  BY <1>1, StepKeepsTypes, CrashKeepsTypes
<1>2. CASE NextDay
  BY <1>2, DailySnapshotAssumption DEF NextDay, TInv, TypeOK, JobInv, disk, counters, Days
<1>3. CASE UNCHANGED vars
  BY <1>3 DEF vars, TInv, TypeOK, JobInv, disk, counters
<1>4. CASE OtherBegins \/ OtherEnds
  BY <1>4, OtherKeepsTypes
<1>5. QED
  BY <1>1, <1>2, <1>3, <1>4 DEF Next

(* The files and what the runs have read have their types, however many    *)
(* runs overlap and wherever they are killed (daily-snapshot.mjs).         *)
THEOREM TypesCorrect == Spec => []TypeOK
<1>1. TInv => TypeOK
  BY DEF TInv
<1>2. QED
  BY <1>1, InitTInv, NextTInv, PTL DEF Spec

--------------------------------------------------------------------------------
(* Evidence before claims, for runs that may overlap. *)
SnapshotsWhole == \A d \in Digest : snapshots[d] \in {NoFile, d}
DigestKept == \A j \in Jobs :
    job[j].at \in {"readLedger", "append"} => snapshots[job[j].digest] = job[j].digest

EInv == TInv /\ SnapshotsWhole /\ EvidenceKept /\ DigestKept

(* What a job that is not at one of the steps below changes of itself. *)
QuietStep(j) == Start(j) \/ BeginRewrite(j) \/ EndRewrite(j) \/ RefreshFails(j) \/ ReadIndex(j)
                \/ WriteDiff(j) \/ CompareLast(j) \/ ArchiveDay(j) \/ MovePrevious(j)

(* A quiet step touches neither the ledger nor the snapshots, and does not *)
(* bring a job to the reading of the ledger or to the append.              *)
SameWork(k) == job'[k].at = job[k].at /\ job'[k].digest = job[k].digest
Elsewhere(k) == job'[k].at \notin {"readLedger", "append"}
LEMMA QuietStepFrame ==
  ASSUME TInv, NEW j \in Jobs, QuietStep(j)
  PROVE  /\ ledger' = ledger /\ snapshots' = snapshots
         /\ \A k \in Jobs : SameWork(k) \/ Elsewhere(k)
<1>0. job \in [Jobs -> JobState] /\ Idle.at = "idle"
  BY DEF TInv, TypeOK, JobState, Idle
<1>1. ASSUME NEW step \in Steps \ {"readLedger", "append"}, Goto(j, step)
      PROVE  \A k \in Jobs : SameWork(k) \/ Elsewhere(k)
  BY <1>0, <1>1 DEF Goto, JobState, SameWork, Elsewhere
<1>2. ASSUME job' = [job EXCEPT ![j] = Idle]
      PROVE  \A k \in Jobs : SameWork(k) \/ Elsewhere(k)
  BY <1>0, <1>2 DEF SameWork, Elsewhere
<1>3. CASE Start(j) \/ RefreshFails(j) \/ ArchiveDay(j)
  BY <1>1, <1>3 DEF Start, RefreshFails, ArchiveDay, disk, Steps
<1>4. CASE MovePrevious(j)
  BY <1>2, <1>4 DEF MovePrevious
<1>5. CASE ReadIndex(j)
  <2>1. CASE index \in Versions
    <3>1. PICK r : r = [Idle EXCEPT !.at = "diff", !.date = clock, !.today = index, !.steady = TRUE]
      OBVIOUS
    <3>2. r.at = "diff"
      BY <3>1 DEF Idle
    <3>3. job' = [job EXCEPT ![j] = r]
      BY <1>5, <2>1, <3>1 DEF ReadIndex
    <3>4. QED
      BY <1>0, <1>5, <3>2, <3>3 DEF ReadIndex, disk, SameWork, Elsewhere
  <2>2. CASE index \notin Versions
    BY <1>2, <1>5, <2>2 DEF ReadIndex, disk
  <2>3. QED
    BY <2>1, <2>2
<1>6. CASE WriteDiff(j)
  <2>1. previous = NoFile \/ previous = Torn \/ previous \in Versions
    BY DEF TInv, TypeOK, File, Digest
  <2>2. Goto(j, "digest") \/ job' = [job EXCEPT ![j] = Idle]
    BY <1>6, <2>1 DEF WriteDiff
  <2>3. QED
    BY <1>1, <1>2, <1>6, <2>2 DEF WriteDiff, Steps
<1>7. CASE CompareLast(j)
  <2>1. CASE Readable(ledger)
    <3>1. PICK step \in {"previous", "snapshot"} : job' = [job EXCEPT ![j].digest = index, ![j].at = step]
      BY <1>7, <2>1, Zenon DEF CompareLast
    <3>2. QED
      BY <1>0, <1>7, <3>1 DEF CompareLast, disk, JobState, SameWork, Elsewhere
  <2>2. CASE ~Readable(ledger)
    BY <1>2, <1>7, <2>2 DEF CompareLast, disk
  <2>3. QED
    BY <2>1, <2>2
<1>8. CASE BeginRewrite(j) \/ EndRewrite(j)
  <2>1. PICK step \in {"rewrite", "read"} : job' = [Unsteady EXCEPT ![j].at = step]
    BY <1>8 DEF BeginRewrite, EndRewrite
  <2>2. \A k \in Jobs : job'[k].at = (IF k = j THEN step ELSE job[k].at) /\ job'[k].digest = job[k].digest
    BY <1>0, <2>1 DEF Unsteady, JobState
  <2>3. QED
    BY <1>8, <2>2 DEF BeginRewrite, EndRewrite, SameWork, Elsewhere
<1>9. QED
  BY <1>3, <1>4, <1>5, <1>6, <1>7, <1>8 DEF QuietStep

(* Every step is quiet, or one of the three that are not. *)
LEMMA NextIsQuietOr ==
  ASSUME NEW j \in Jobs, Start(j) \/ Step(j)
  PROVE  QuietStep(j) \/ KeepSnapshot(j) \/ ReadLedger(j) \/ AppendLine(j)
BY DEF Step, QuietStep

(* The files a killed run leaves behind, when it tears no snapshot. *)
LEMMA CrashFrame ==
  ASSUME TInv, NEW j \in Jobs, Crash(j), "snapshot" \notin Tears
  PROVE  /\ snapshots' = snapshots
         /\ ledger' = ledger \/ ledger' = Append(ledger, TornLine)
         /\ \A k \in Jobs : job'[k] = job[k] \/ job'[k].at = "idle"
         /\ index' = index
BY DEF Crash, disk, TInv, TypeOK, Idle

(* Nothing is claimed at the start. *)
LEMMA InitEInv == Init => EInv
<1> SUFFICES ASSUME Init PROVE EInv
  OBVIOUS
<1>1. TInv
  BY InitTInv
<1>2. QED
  BY <1>1 DEF Init, EInv, SnapshotsWhole, EvidenceKept, DigestKept, Idle

(* Evidence before claims is inductive. *)
LEMMA NextEInv ==
  ASSUME "snapshot" \notin Tears, EInv, [Next]_vars
  PROVE  EInv'
<1>0. TInv'
  BY NextTInv DEF EInv
<1>t. /\ ledger \in Seq(Line \cup {TornLine}) /\ job \in [Jobs -> JobState]
      /\ snapshots \in [Digest -> File] /\ NoFile \notin Digest /\ TInv
  BY LedgerAssumption DEF EInv, TInv, TypeOK, JobState, Digest
<1>1. ASSUME NEW j \in Jobs, QuietStep(j) PROVE EInv'
  <2>1. DigestKept'
    BY <1>1, <1>t, QuietStepFrame DEF EInv, DigestKept, SameWork, Elsewhere
  <2>2. QED
    BY <1>0, <1>1, <1>t, <2>1, QuietStepFrame DEF EInv, SnapshotsWhole, EvidenceKept
<1>2. ASSUME NEW j \in Jobs, KeepSnapshot(j) PROVE EInv'
  <2>1. index \in Digest /\ ledger' = ledger
    BY <1>2, <1>t, IndexIsAFile DEF KeepSnapshot, At, AfterRead
  <2>2. \A d \in Digest : snapshots'[d] = IF d = index THEN index ELSE snapshots[d]
    BY <1>2, <1>t, <2>1 DEF KeepSnapshot, EInv, SnapshotsWhole
  <2>3. \A d \in Digest : snapshots[d] = d => snapshots'[d] = d
    BY <2>2
  <2>4. SnapshotsWhole'
    BY <2>2 DEF EInv, SnapshotsWhole
  <2>5. \A i \in DOMAIN ledger : ledger[i] # TornLine => ledger[i].capture.sha \in Digest
    BY <1>t DEF Line, Capture
  <2>6. EvidenceKept'
    BY <2>1, <2>3, <2>5 DEF EInv, EvidenceKept
  <2>7. DigestKept'
    <3>1. job' = [job EXCEPT ![j] = [job[j] EXCEPT !.digest = index, !.at = "readLedger"]]
      BY <1>2, <1>t DEF KeepSnapshot, JobState
    <3>2. job'[j].digest = index /\ \A k \in Jobs : k # j => job'[k] = job[k]
      BY <1>t, <3>1 DEF JobState
    <3>3. \A k \in Jobs : job[k].at \in {"readLedger", "append"} => job[k].digest \in Digest
      BY <1>t DEF TInv, JobInv, AfterDigest
    <3>4. QED
      BY <2>1, <2>2, <2>3, <3>2, <3>3 DEF EInv, DigestKept
  <2>8. QED
    BY <1>0, <2>4, <2>6, <2>7 DEF EInv
<1>3. ASSUME NEW j \in Jobs, ReadLedger(j) PROVE EInv'
  <2>1. \A k \in Jobs : \/ job'[k] = job[k]
                        \/ k = j /\ (job'[k].at = "idle" \/ job'[k].digest = job[k].digest)
    BY <1>3, <1>t DEF ReadLedger, Idle, JobState
  <2>2. snapshots' = snapshots /\ ledger' = ledger /\ job[j].at = "readLedger"
    BY <1>3 DEF ReadLedger, disk, At
  <2>3. DigestKept'
    BY <2>1, <2>2 DEF EInv, DigestKept
  <2>4. QED
    BY <1>0, <2>2, <2>3 DEF EInv, SnapshotsWhole, EvidenceKept
<1>4. ASSUME NEW j \in Jobs, AppendLine(j) PROVE EInv'
  <2>1. PICK line \in Line : line = NewLine(j)
    BY <1>4, <1>t, NewLineType DEF AppendLine, At
  <2>2. line.capture.sha = job[j].digest /\ snapshots[job[j].digest] = job[j].digest
    BY <1>4, <2>1 DEF NewLine, AppendLine, At, EInv, DigestKept
  <2>3. ledger' = Append(ledger, line) \/ ledger' = ledger
    BY <1>4, <2>1 DEF AppendLine
  <2>4. snapshots' = snapshots
    BY <1>4 DEF AppendLine
  <2>5. EvidenceKept'
    BY <1>t, <2>2, <2>3, <2>4 DEF EInv, EvidenceKept
  <2>6. \A k \in Jobs : job'[k] = job[k] \/ job'[k].at = "archive"
    BY <1>4, <1>t DEF AppendLine, Goto, JobState
  <2>7. QED
    BY <1>0, <2>4, <2>5, <2>6 DEF EInv, SnapshotsWhole, DigestKept
<1>5. ASSUME NEW j \in Jobs, Crash(j) PROVE EInv'
  <2>1. EvidenceKept'
    BY <1>5, <1>t, CrashFrame, SMTT(40) DEF EInv, EvidenceKept
  <2>2. QED
    BY <1>0, <1>5, <1>t, <2>1, CrashFrame DEF EInv, SnapshotsWhole, DigestKept
<1>6. CASE NextDay \/ UNCHANGED vars
  BY <1>0, <1>6 DEF NextDay, vars, disk, EInv, SnapshotsWhole, EvidenceKept, DigestKept
<1>7. CASE OtherBegins \/ OtherEnds
  <2>1. \A k \in Jobs : SameWork(k)
    BY <1>7, <1>t DEF OtherBegins, OtherEnds, Unsteady, JobState, SameWork
  <2>2. ledger' = ledger /\ snapshots' = snapshots
    BY <1>7 DEF OtherBegins, OtherEnds
  <2>3. QED
    BY <1>0, <2>1, <2>2 DEF EInv, SnapshotsWhole, EvidenceKept, DigestKept, SameWork
<1>8. QED
  BY <1>1, <1>2, <1>3, <1>4, <1>5, <1>6, <1>7, NextIsQuietOr DEF Next

(* Every line of the ledger that is whole refers to a snapshot that is on  *)
(* disk, however many runs overlap and wherever they are killed, as long   *)
(* as no kill tears a snapshot (appendCapture, ledger.mjs:68-88).          *)
THEOREM EvidenceBeforeClaims ==
  ASSUME "snapshot" \notin Tears
  PROVE  Spec => []EvidenceKept
<1>1. Init => EInv
  BY InitEInv
<1>2. EInv /\ [Next]_vars => EInv'
  BY NextEInv
<1>3. EInv => EvidenceKept
  BY DEF EInv
<1>4. QED
  BY <1>1, <1>2, <1>3, PTL DEF Spec

--------------------------------------------------------------------------------
(* What a step does to the run that takes it and to the others.            *)
Early == {"idle", "refresh", "rewrite", "read"}
Goes(j, from, to) == job[j].at = from /\ job'[j].at = to
Keeps(j) == /\ job'[j].date = job[j].date /\ job'[j].today = job[j].today
            /\ job'[j].steady = job[j].steady /\ index' = index

RunMoves(j) ==
    \/ job'[j].at \in Early /\ ledger' = ledger
    \/ job'[j].at = "diff" /\ job'[j].today = index /\ index' = index /\ ledger' = ledger
    \/ /\ Keeps(j) /\ ledger' = ledger
       /\ \/ Goes(j, "diff", "digest")
          \/ /\ Readable(ledger) /\ job'[j].digest = index
             /\ Goes(j, "digest", IF Unchanged(ledger, job[j].date, index) THEN "previous" ELSE "snapshot")
          \/ job'[j].digest = index /\ Goes(j, "snapshot", "readLedger")
          \/ /\ Readable(ledger) /\ job'[j].prev = LastHash(ledger)
             /\ job'[j].digest = job[j].digest /\ Goes(j, "readLedger", "append")
          \/ job'[j].digest = job[j].digest /\ Goes(j, "archive", "previous")
    \/ /\ Keeps(j) /\ job'[j].digest = job[j].digest /\ Goes(j, "append", "archive")
       /\ ledger' = IF Readable(ledger) THEN Append(ledger, NewLine(j)) ELSE ledger

(* A run that does not move at most loses its steadiness. *)
Stays(k) ==
    /\ job'[k].at = job[k].at /\ job'[k].date = job[k].date /\ job'[k].today = job[k].today
    /\ job'[k].digest = job[k].digest /\ job'[k].prev = job[k].prev
    /\ job'[k].steady => job[k].steady

IndexOrUnsteady == index' = index \/ \A k \in Jobs : ~job'[k].steady

(* A step to another place moves the run, and leaves the others.           *)
LEMMA GotoView ==
  ASSUME TInv, NEW j \in Jobs, NEW step \in Steps, Goto(j, step)
  PROVE  /\ job'[j].at = step /\ job'[j].today = job[j].today /\ job'[j].date = job[j].date
         /\ job'[j].digest = job[j].digest /\ job'[j].prev = job[j].prev
         /\ job'[j].steady = job[j].steady
<1>1. job \in [Jobs -> JobState]
  BY DEF TInv, TypeOK, JobState
<1>2. QED
  BY <1>1 DEF Goto, JobState

LEMMA StepMoves ==
  ASSUME TInv, NEW j \in Jobs, Start(j) \/ Step(j)
  PROVE  RunMoves(j)
<1>t. job \in [Jobs -> JobState] /\ Idle.at = "idle" /\ "idle" \in Early
  BY DEF TInv, TypeOK, JobState, Idle, Early
<1>1. CASE Start(j) \/ RefreshFails(j)
  <2>1. PICK step \in {"refresh", "read"} : Goto(j, step)
    BY <1>1 DEF Start, RefreshFails
  <2>2. job'[j].at = step
    BY <2>1, GotoView DEF Steps
  <2>3. QED
    BY <1>1, <2>2 DEF Start, RefreshFails, disk, RunMoves, Early
<1>2. CASE BeginRewrite(j) \/ EndRewrite(j)
  <2>1. PICK step \in {"rewrite", "read"} : job' = [Unsteady EXCEPT ![j].at = step]
    BY <1>2 DEF BeginRewrite, EndRewrite
  <2>2. job'[j].at = step
    BY <1>t, <2>1 DEF Unsteady, JobState
  <2>3. QED
    BY <1>2, <2>2 DEF BeginRewrite, EndRewrite, RunMoves, Early
<1>3. ASSUME job' = [job EXCEPT ![j] = Idle], ledger' = ledger PROVE RunMoves(j)
  <2>1. job'[j].at = "idle"
    BY <1>t, <1>3
  <2>2. QED
    BY <1>t, <1>3, <2>1 DEF RunMoves
<1>4. CASE ReadIndex(j)
  <2>1. index' = index /\ ledger' = ledger
    BY <1>4 DEF ReadIndex, disk
  <2>2. CASE index \in Versions
    <3>1. PICK r : r = [Idle EXCEPT !.at = "diff", !.date = clock, !.today = index, !.steady = TRUE]
      OBVIOUS
    <3>2. r.at = "diff" /\ r.today = index
      BY <3>1 DEF Idle
    <3>3. job' = [job EXCEPT ![j] = r]
      BY <1>4, <2>2, <3>1 DEF ReadIndex
    <3>4. job'[j] = r
      BY <1>t, <3>3
    <3>5. QED
      BY <2>1, <3>2, <3>4 DEF RunMoves
  <2>3. CASE index \notin Versions
    BY <1>3, <1>4, <2>1, <2>3 DEF ReadIndex
  <2>4. QED
    BY <2>2, <2>3
<1>5. CASE WriteDiff(j)
  <2>1. previous = NoFile \/ previous = Torn \/ previous \in Versions
    BY DEF TInv, TypeOK, File, Digest
  <2>2. Goto(j, "digest") \/ job' = [job EXCEPT ![j] = Idle]
    BY <1>5, <2>1 DEF WriteDiff
  <2>3. index' = index /\ ledger' = ledger /\ job[j].at = "diff"
    BY <1>5 DEF WriteDiff, At
  <2>4. CASE Goto(j, "digest")
    BY <2>3, <2>4, GotoView DEF Steps, RunMoves, Goes, Keeps
  <2>5. QED
    BY <1>3, <2>2, <2>3, <2>4
<1>6. CASE CompareLast(j)
  <2>1. index' = index /\ ledger' = ledger /\ job[j].at = "digest"
    BY <1>6 DEF CompareLast, At, disk
  <2>2. CASE ~Readable(ledger)
    BY <1>3, <1>6, <2>1, <2>2 DEF CompareLast
  <2>3. CASE Readable(ledger)
    <3>1. PICK to : to = IF Unchanged(ledger, job[j].date, index) THEN "previous" ELSE "snapshot"
      OBVIOUS
    <3>2. job' = [job EXCEPT ![j].digest = index, ![j].at = to]
      BY <1>6, <2>3, <3>1 DEF CompareLast
    <3>3. /\ job'[j].at = to /\ job'[j].digest = index /\ job'[j].today = job[j].today
          /\ job'[j].date = job[j].date /\ job'[j].steady = job[j].steady
      BY <1>t, <3>2 DEF JobState
    <3>4. QED
      BY <2>1, <2>3, <3>1, <3>3 DEF RunMoves, Goes, Keeps
  <2>4. QED
    BY <2>2, <2>3
<1>7. CASE KeepSnapshot(j)
  <2>1. index' = index /\ ledger' = ledger /\ job[j].at = "snapshot"
    BY <1>7 DEF KeepSnapshot, At
  <2>2. /\ job'[j].at = "readLedger" /\ job'[j].digest = index /\ job'[j].today = job[j].today
        /\ job'[j].date = job[j].date /\ job'[j].steady = job[j].steady
    BY <1>7, <1>t DEF KeepSnapshot, JobState
  <2>3. QED
    BY <2>1, <2>2 DEF RunMoves, Goes, Keeps
<1>8. CASE ReadLedger(j)
  <2>1. index' = index /\ ledger' = ledger /\ job[j].at = "readLedger"
    BY <1>8 DEF ReadLedger, At, disk
  <2>2. CASE ~Readable(ledger)
    BY <1>3, <1>8, <2>1, <2>2 DEF ReadLedger
  <2>3. CASE Readable(ledger)
    <3>1. PICK h : h = LastHash(ledger)
      OBVIOUS
    <3>2. PICK r : r = [job[j] EXCEPT !.prev = h, !.at = "append"]
      OBVIOUS
    <3>3. /\ r.at = "append" /\ r.prev = h /\ r.digest = job[j].digest /\ r.today = job[j].today
          /\ r.date = job[j].date /\ r.steady = job[j].steady
      BY <1>t, <3>2 DEF JobState
    <3>4. job'[j] = r
      BY <1>8, <1>t, <2>3, <3>1, <3>2 DEF ReadLedger
    <3>5. QED
      BY <2>1, <2>3, <3>1, <3>3, <3>4 DEF RunMoves, Goes, Keeps
  <2>4. QED
    BY <2>2, <2>3
<1>9. CASE AppendLine(j)
  <2>1. job[j].at = "append" /\ index' = index /\ Goto(j, "archive")
        /\ ledger' = IF Readable(ledger) THEN Append(ledger, NewLine(j)) ELSE ledger
    BY <1>9 DEF AppendLine, At
  <2>2. QED
    BY <2>1, GotoView DEF Steps, RunMoves, Goes, Keeps
<1>10. CASE ArchiveDay(j)
  <2>1. job[j].at = "archive" /\ index' = index /\ ledger' = ledger /\ Goto(j, "previous")
    BY <1>10 DEF ArchiveDay, At
  <2>2. QED
    BY <2>1, GotoView DEF Steps, RunMoves, Goes, Keeps
<1>11. CASE MovePrevious(j)
  BY <1>3, <1>11 DEF MovePrevious
<1>12. QED
  BY <1>1, <1>2, <1>4, <1>5, <1>6, <1>7, <1>8, <1>9, <1>10, <1>11 DEF Step

(* The other runs stay where they are. *)
LEMMA OthersStay ==
  ASSUME TInv, NEW j \in Jobs, Start(j) \/ Step(j) \/ Crash(j), NEW k \in Jobs, k # j
  PROVE  Stays(k)
<1>t. job \in [Jobs -> JobState]
  BY DEF TInv, TypeOK, JobState
<1>1. CASE BeginRewrite(j) \/ EndRewrite(j)
  <2>1. PICK step \in {"rewrite", "read"} : job' = [Unsteady EXCEPT ![j].at = step]
    BY <1>1 DEF BeginRewrite, EndRewrite
  <2>2. Unsteady \in [Jobs -> JobState] /\ Unsteady[k] = [job[k] EXCEPT !.steady = FALSE]
    BY <1>t DEF Unsteady, JobState
  <2>3. job'[k] = Unsteady[k]
    BY <2>1, <2>2
  <2>4. QED
    BY <1>t, <2>2, <2>3 DEF JobState, Stays
<1>2. ASSUME job'[k] = job[k] PROVE Stays(k)
  BY <1>2 DEF Stays
<1>3. CASE Start(j) \/ RefreshFails(j) \/ ReadIndex(j) \/ WriteDiff(j) \/ CompareLast(j)
  <2>1. CASE WriteDiff(j)
    <3>1. previous = NoFile \/ previous = Torn \/ previous \in Versions
      BY DEF TInv, TypeOK, File, Digest
    <3>2. Goto(j, "digest") \/ job' = [job EXCEPT ![j] = Idle]
      BY <2>1, <3>1 DEF WriteDiff
    <3>3. QED
      BY <1>t, <1>2, <3>2 DEF Goto
  <2>2. CASE CompareLast(j)
    <3>1. \/ job' = [job EXCEPT ![j] = Idle]
          \/ \E step \in {"previous", "snapshot"} : job' = [job EXCEPT ![j].digest = index, ![j].at = step]
      BY <2>2, Zenon DEF CompareLast
    <3>2. job'[k] = job[k]
      BY <1>t, <3>1
    <3>3. QED
      BY <1>2, <3>2
  <2>3. QED
    BY <1>t, <1>2, <1>3, <2>1, <2>2 DEF Start, RefreshFails, ReadIndex, Goto
<1>4. CASE KeepSnapshot(j) \/ AppendLine(j) \/ ArchiveDay(j) \/ MovePrevious(j) \/ Crash(j)
  BY <1>t, <1>2, <1>4 DEF KeepSnapshot, AppendLine, ArchiveDay, MovePrevious, Crash, Goto
<1>5. CASE ReadLedger(j)
  BY <1>t, <1>2, <1>5 DEF ReadLedger
<1>6. QED
  BY <1>1, <1>3, <1>4, <1>5 DEF Step

(* Whoever rewrites the index takes the steadiness of the runs.            *)
LEMMA NextIndex == TInv /\ [Next]_vars => IndexOrUnsteady
<1> SUFFICES ASSUME TInv, [Next]_vars PROVE IndexOrUnsteady
  OBVIOUS
<1>t. job \in [Jobs -> JobState]
  BY DEF TInv, TypeOK, JobState
<1>1. ASSUME NEW j \in Jobs, BeginRewrite(j) \/ EndRewrite(j) PROVE IndexOrUnsteady
  <2>1. PICK step \in {"rewrite", "read"} : job' = [Unsteady EXCEPT ![j].at = step]
    BY <1>1 DEF BeginRewrite, EndRewrite
  <2>2. \A k \in Jobs : ~job'[k].steady
    BY <1>t, <2>1 DEF Unsteady, JobState
  <2>3. QED
    BY <2>2 DEF IndexOrUnsteady
<1>2. ASSUME NEW j \in Jobs, Start(j) \/ Step(j), ~BeginRewrite(j), ~EndRewrite(j) PROVE index' = index
  BY <1>2 DEF Start, Step, RefreshFails, ReadIndex, WriteDiff, CompareLast, KeepSnapshot, ReadLedger,
              AppendLine, ArchiveDay, MovePrevious, disk
<1>3. ASSUME NEW j \in Jobs, Crash(j) PROVE index' = index
  BY <1>3 DEF Crash, disk
<1>4. CASE OtherBegins \/ OtherEnds
  BY <1>t, <1>4 DEF OtherBegins, OtherEnds, Unsteady, JobState, IndexOrUnsteady
<1>5. NextDay \/ UNCHANGED vars => index' = index
  BY DEF NextDay, vars, disk
<1>6. QED
  BY <1>1, <1>2, <1>3, <1>4, <1>5 DEF Next, IndexOrUnsteady

(* The five things that can happen to one run. *)
LEMMA RunStep ==
  ASSUME TInv, [Next]_vars, NEW k \in Jobs
  PROVE  \/ RunMoves(k)
         \/ Stays(k)
         \/ job'[k].at = "idle"
<1>1. ASSUME NEW j \in Jobs, Start(j) \/ Step(j) \/ Crash(j)
      PROVE  RunMoves(k) \/ Stays(k) \/ job'[k].at = "idle"
  <2>1. CASE k # j
    BY <1>1, <2>1, OthersStay
  <2>2. CASE k = j /\ (Start(j) \/ Step(j))
    BY <2>2, StepMoves
  <2>3. CASE k = j /\ Crash(j)
    BY <2>3 DEF Crash, Idle, TInv, TypeOK
  <2>4. QED
    BY <1>1, <2>1, <2>2, <2>3
<1>2. CASE OtherBegins \/ OtherEnds
  BY <1>2 DEF OtherBegins, OtherEnds, Unsteady, TInv, TypeOK, Stays
<1>3. CASE NextDay \/ UNCHANGED vars
  BY <1>3 DEF NextDay, vars, Stays
<1>4. QED
  BY <1>1, <1>2, <1>3 DEF Next

--------------------------------------------------------------------------------
(* The ledger only grows, and what it records it keeps. *)
RecordedOn(lines, day, sha) == \E i \in DOMAIN lines : lines[i].capture.day = day /\ lines[i].capture.sha = sha
LedgerGrows == ledger' = ledger \/ \E line : ledger' = Append(ledger, line)

(* Whatever runs overlap, the ledger only grows. *)
LEMMA NextGrows == [Next]_vars => LedgerGrows
<1>1. ASSUME NEW j \in Jobs, Start(j) \/ Step(j) PROVE LedgerGrows
  BY <1>1 DEF LedgerGrows, Start, Step, BeginRewrite, EndRewrite, RefreshFails, ReadIndex, WriteDiff,
              CompareLast, KeepSnapshot, ReadLedger, AppendLine, ArchiveDay, MovePrevious, disk
<1>2. ASSUME NEW j \in Jobs, Crash(j) PROVE LedgerGrows
  BY <1>2 DEF LedgerGrows, Crash, disk
<1>3. NextDay \/ OtherBegins \/ OtherEnds \/ UNCHANGED vars => LedgerGrows
  BY DEF LedgerGrows, NextDay, OtherBegins, OtherEnds, vars, disk
<1>4. QED
  BY <1>1, <1>2, <1>3 DEF Next

(* A capture that was recorded stays recorded as the ledger grows. *)
LEMMA RecordedStays ==
  ASSUME TInv, LedgerGrows, NEW day, NEW sha, RecordedOn(ledger, day, sha)
  PROVE  RecordedOn(ledger', day, sha)
<1>1. ledger \in Seq(Line \cup {TornLine})
  BY DEF TInv, TypeOK
<1>2. DOMAIN ledger \subseteq DOMAIN ledger' /\ \A i \in DOMAIN ledger : ledger'[i] = ledger[i]
  BY <1>1 DEF LedgerGrows
<1>3. QED
  BY <1>2 DEF RecordedOn

(* A mark says what the run was, and touches no other mark.                *)
LEMMA MarkSays ==
  ASSUME TInv, NEW j \in Jobs, NEW trace, Mark(j, trace)
  PROVE  /\ trace \notin mixed' => job[j].steady
         /\ job[j].steady => trace \notin mixed'
         /\ \A t : t # trace => (t \in mixed' <=> t \in mixed)
BY DEF Mark, TInv, TypeOK

LEMMA TracesDiffer ==
  /\ \A i, k : LineAt(i) = LineAt(k) => i = k
  /\ \A d, e : ArchiveOf(d) = ArchiveOf(e) => d = e
  /\ \A i, d : LineAt(i) # ArchiveOf(d) /\ LineAt(i) # PreviousFile /\ ArchiveOf(d) # PreviousFile
BY DEF LineAt, ArchiveOf, PreviousFile

(* Only the three writes mark anything. *)
LEMMA MarksStay ==
  ASSUME [Next]_vars,
         ~\E j \in Jobs : AppendLine(j) \/ ArchiveDay(j) \/ MovePrevious(j)
  PROVE  mixed' = mixed
<1>1. ASSUME NEW j \in Jobs, Start(j) \/ Step(j) PROVE mixed' = mixed
  BY <1>1 DEF Start, Step, BeginRewrite, EndRewrite, RefreshFails, ReadIndex, WriteDiff, CompareLast,
              KeepSnapshot, ReadLedger
<1>2. ASSUME NEW j \in Jobs, Crash(j) PROVE mixed' = mixed
  BY <1>2 DEF Crash
<1>3. NextDay \/ OtherBegins \/ OtherEnds \/ UNCHANGED vars => mixed' = mixed
  BY DEF NextDay, OtherBegins, OtherEnds, vars
<1>4. QED
  BY <1>1, <1>2, <1>3 DEF Next

--------------------------------------------------------------------------------
(* A run that is still steady has seen one index: what it parsed and what  *)
(* it kept are what is on disk.                                            *)
OneJob == \A p, q \in Jobs : p = q

Sees(k) ==
    /\ job[k].at \in AfterRead /\ job[k].steady => index = job[k].today
    /\ job[k].at \in AfterDigest /\ job[k].steady => job[k].digest = index

VInv == TInv /\ \A k \in Jobs : Sees(k)

LEMMA SeesStep ==
  ASSUME VInv, [Next]_vars, NEW k \in Jobs
  PROVE  Sees(k)'
<1>1. TInv /\ IndexOrUnsteady /\ Sees(k)
  BY NextIndex DEF VInv
<1>2. SUFFICES ASSUME job'[k].steady PROVE Sees(k)'
  BY DEF Sees
<1>3. index' = index
  BY <1>1, <1>2 DEF IndexOrUnsteady
<1>4. CASE Stays(k)
  BY <1>1, <1>2, <1>3, <1>4 DEF Stays, Sees
<1>5. CASE job'[k].at \in Early \/ job'[k].at = "idle"
  BY <1>5 DEF Sees, Early, AfterRead, AfterDigest
<1>6. CASE RunMoves(k)
  BY <1>1, <1>2, <1>3, <1>5, <1>6 DEF RunMoves, Keeps, Goes, Sees, AfterRead, AfterDigest
<1>7. QED
  BY <1>1, <1>4, <1>5, <1>6, RunStep

LEMMA NextVInv == VInv /\ [Next]_vars => VInv'
BY NextTInv, SeesStep DEF VInv

LEMMA InitVInv == Init => VInv
BY InitTInv DEF Init, VInv, Sees, Idle, AfterRead, AfterDigest

(* A ledger no append of which was cut short is readable; with one job it  *)
(* is still readable when the job that read it appends.                    *)
RInv == /\ "ledger" \notin Tears => Readable(ledger)
        /\ OneJob => \A k \in Jobs : job[k].at = "append" => Readable(ledger)

LEMMA LedgerStep ==
  ASSUME TInv, [Next]_vars
  PROVE  \/ ledger' = ledger
         \/ \E j \in Jobs : AppendLine(j) /\ Readable(ledger) /\ ledger' = Append(ledger, NewLine(j))
         \/ \E j \in Jobs : Crash(j) /\ "ledger" \in Tears /\ ledger' = Append(ledger, TornLine)
<1>1. ASSUME NEW j \in Jobs, AppendLine(j)
      PROVE  ledger' = ledger \/ (Readable(ledger) /\ ledger' = Append(ledger, NewLine(j)))
  BY <1>1 DEF AppendLine
<1>2. ASSUME NEW j \in Jobs, Start(j) \/ Step(j), ~AppendLine(j) PROVE ledger' = ledger
  BY <1>2 DEF Start, Step, BeginRewrite, EndRewrite, RefreshFails, ReadIndex, WriteDiff,
              CompareLast, KeepSnapshot, ReadLedger, ArchiveDay, MovePrevious, disk
<1>3. ASSUME NEW j \in Jobs, Crash(j)
      PROVE  ledger' = ledger \/ ("ledger" \in Tears /\ ledger' = Append(ledger, TornLine))
  BY <1>3 DEF Crash, disk
<1>4. NextDay \/ OtherBegins \/ OtherEnds \/ UNCHANGED vars => ledger' = ledger
  BY DEF NextDay, OtherBegins, OtherEnds, vars, disk
<1>5. QED
  BY <1>1, <1>2, <1>3, <1>4 DEF Next

(* The line a run appends is a whole line. *)
LEMMA AppendedLine ==
  ASSUME TInv, NEW j \in Jobs, AppendLine(j)
  PROVE  job[j].at = "append" /\ NewLine(j) \in Line /\ NewLine(j) # TornLine
<1>1. job[j].at = "append"
  BY DEF AppendLine, At
<1>2. NewLine(j) \in Line
  BY <1>1, NewLineType
<1>3. QED
  BY <1>1, <1>2, LedgerAssumption

LEMMA NextRInv ==
  ASSUME TInv, RInv, [Next]_vars
  PROVE  RInv'
<1>1. ledger \in Seq(Line \cup {TornLine})
  BY DEF TInv, TypeOK
<1>2. ASSUME NEW j \in Jobs, AppendLine(j), Readable(ledger), ledger' = Append(ledger, NewLine(j))
      PROVE  Readable(ledger')
  <2>1. PICK line \in Line : line = NewLine(j) /\ line # TornLine
    BY <1>2, AppendedLine
  <2>2. QED
    BY <1>1, <1>2, <2>1 DEF Readable
<1>3. "ledger" \notin Tears => Readable(ledger')
  BY <1>2, LedgerStep DEF RInv
<1>4. ASSUME OneJob, NEW k \in Jobs, job'[k].at = "append"
      PROVE  Readable(ledger')
  <2>1. CASE ledger' = ledger
    <3>1. CASE Stays(k)
      BY <1>4, <2>1, <3>1 DEF RInv, Stays
    <3>2. CASE RunMoves(k)
      BY <1>4, <2>1, <3>2 DEF RInv, RunMoves, Goes, Early
    <3>3. QED
      BY <1>4, <3>1, <3>2, RunStep
  <2>2. ASSUME NEW j \in Jobs, Crash(j) PROVE FALSE
    <3>1. j = k /\ job'[k].at = "idle"
      BY <1>4, <2>2 DEF OneJob, Crash, Idle, TInv, TypeOK
    <3>2. QED
      BY <1>4, <3>1
  <2>3. QED
    BY <1>2, <2>1, <2>2, LedgerStep
<1>5. QED
  BY <1>3, <1>4 DEF RInv

LEMMA InitRInv == Init => RInv
BY DEF Init, RInv, Readable, Idle

--------------------------------------------------------------------------------
(* A line chained to the last one keeps the chain whole. *)
LEMMA AppendKeepsChain ==
  ASSUME ledger \in Seq(Line \cup {TornLine}), Readable(ledger), ChainBreaks(ledger) = {},
         NEW line \in Line, line.prev = LastHash(ledger), ledger' = Append(ledger, line)
  PROVE  ChainBreaks(ledger') = {}
<1>1. PICK n \in Nat : n = Len(ledger)
  OBVIOUS
<1>2. DOMAIN ledger' = 1..n + 1 /\ (\A i \in 1..n : ledger'[i] = ledger[i]) /\ ledger'[n + 1] = line
      /\ DOMAIN ledger = 1..n
  BY <1>1
<1>3. \A i \in 1..n : ledger[i].prev = IF i = 1 THEN <<>> ELSE HashOf(ledger[i - 1])
  BY <1>2 DEF ChainBreaks
<1>4. line.prev = IF n = 0 THEN <<>> ELSE HashOf(ledger[n])
  BY <1>1 DEF LastHash
<1>5. ASSUME NEW i \in 1..n + 1
      PROVE  ledger'[i].prev = IF i = 1 THEN <<>> ELSE HashOf(ledger'[i - 1])
  <2>1. CASE i \in 1..n
    <3>1. i # 1 => ledger'[i - 1] = ledger[i - 1]
      BY <1>2, <2>1
    <3>2. ledger'[i] = ledger[i]
      BY <1>2, <2>1
    <3>3. ledger[i].prev = IF i = 1 THEN <<>> ELSE HashOf(ledger[i - 1])
      BY <1>3, <2>1
    <3>4. CASE i = 1
      BY <3>2, <3>3, <3>4
    <3>5. CASE i # 1
      BY <3>1, <3>2, <3>3, <3>5
    <3>6. QED
      BY <3>4, <3>5
  <2>2. CASE i = n + 1
    <3>1. i - 1 = n /\ (i = 1 <=> n = 0) /\ ledger'[i] = line
      BY <1>2, <2>2
    <3>2. CASE n = 0
      BY <1>4, <3>1, <3>2
    <3>3. CASE n # 0
      <4>1. ledger'[i - 1] = ledger[n]
        BY <1>2, <3>1, <3>3
      <4>2. QED
        BY <1>4, <3>1, <3>3, <4>1
    <3>4. QED
      BY <3>2, <3>3
  <2>3. i \in 1..n \/ i = n + 1
    OBVIOUS
  <2>4. QED
    BY <2>1, <2>2, <2>3, Zenon
<1>6. QED
  BY <1>2, <1>5 DEF ChainBreaks

(* With one job the ledger it read is the one it appends to. *)
Chained(k) == job[k].at = "append" => Readable(ledger) /\ job[k].prev = LastHash(ledger)
CInv == TInv /\ NoChainBreak /\ \A k \in Jobs : Chained(k)

LEMMA NextCInv ==
  ASSUME OneJob, CInv, [Next]_vars
  PROVE  CInv'
<1>1. TInv /\ TInv' /\ ledger \in Seq(Line \cup {TornLine})
  BY NextTInv DEF CInv, TInv, TypeOK
<1>2. CASE ledger' = ledger
  <2>1. ASSUME NEW k \in Jobs PROVE Chained(k)'
    <3>1. CASE Stays(k)
      BY <1>2, <3>1 DEF CInv, Chained, Stays
    <3>2. CASE RunMoves(k)
      BY <1>2, <3>2 DEF Chained, RunMoves, Goes, Early
    <3>3. CASE job'[k].at = "idle"
      BY <3>3 DEF Chained
    <3>4. QED
      BY <1>1, <3>1, <3>2, <3>3, RunStep
  <2>2. QED
    BY <1>1, <1>2, <2>1 DEF CInv, NoChainBreak
<1>3. ASSUME NEW j \in Jobs, AppendLine(j), ledger' = Append(ledger, NewLine(j)) PROVE CInv'
  <2>1. job[j].at = "append" /\ Readable(ledger) /\ job[j].prev = LastHash(ledger)
    BY <1>3 DEF AppendLine, At, CInv, Chained
  <2>2. PICK line \in Line : line = NewLine(j)
    BY <1>1, <1>3, AppendedLine
  <2>3. line.prev = LastHash(ledger)
    BY <2>1, <2>2 DEF NewLine
  <2>4. NoChainBreak'
    BY <1>1, <1>3, <2>1, <2>2, <2>3, AppendKeepsChain DEF CInv, NoChainBreak
  <2>5. \A k \in Jobs : job'[k].at = "archive"
    BY <1>1, <1>3, GotoView DEF OneJob, AppendLine, Steps
  <2>6. QED
    BY <1>1, <2>4, <2>5 DEF CInv, Chained
<1>4. ASSUME NEW j \in Jobs, Crash(j), ledger' = Append(ledger, TornLine) PROVE CInv'
  <2>1. NoChainBreak'
    BY <1>1, <1>4 DEF NoChainBreak, Readable
  <2>2. \A k \in Jobs : job'[k].at = "idle"
    BY <1>1, <1>4 DEF OneJob, Crash, Idle, TInv, TypeOK
  <2>3. QED
    BY <1>1, <2>1, <2>2 DEF CInv, Chained
<1>5. QED
  BY <1>1, <1>2, <1>3, <1>4, LedgerStep

(* With one job at a time verification never finds a broken chain, over    *)
(* any number of days, refreshes and kills, torn files included, whatever  *)
(* else rewrites the index (appendCapture and verifyLedger,                *)
(* ledger.mjs:75-90, 174-182).                                             *)
THEOREM OneJobKeepsTheChain ==
  ASSUME OneJob
  PROVE  Spec => []NoChainBreak
<1>1. CInv /\ [Next]_vars => CInv'
  BY NextCInv
<1>2. CInv => NoChainBreak
  BY DEF CInv
<1>3. Init => CInv
  BY InitTInv DEF Init, CInv, NoChainBreak, ChainBreaks, Chained, Idle
<1>4. QED
  BY <1>1, <1>2, <1>3, PTL DEF Spec

--------------------------------------------------------------------------------
(* A line that is not marked has the counts of the index it names. *)
LinesAgree == \A i \in DOMAIN ledger : ledger[i] # TornLine /\ LineAt(i) \notin mixed =>
    /\ ledger[i].capture.sha \in Versions
    /\ ledger[i].capture.counts = CountsOf[ledger[i].capture.sha]

(* What the marks of the lines become when the ledger does. *)
LEMMA LineMarks ==
  ASSUME TInv, [Next]_vars, NEW i \in DOMAIN ledger
  PROVE  LineAt(i) \in mixed' <=> LineAt(i) \in mixed
<1>1. i # Len(ledger) + 1
  BY DEF TInv, TypeOK
<1>2. ASSUME NEW j \in Jobs, AppendLine(j) PROVE LineAt(i) \in mixed' <=> LineAt(i) \in mixed
  <2>1. LineAt(i) # LineAt(Len(ledger) + 1)
    BY <1>1, TracesDiffer
  <2>2. CASE Readable(ledger)
    BY <1>2, <2>1, <2>2, MarkSays DEF AppendLine
  <2>3. CASE ~Readable(ledger)
    BY <1>2, <2>3 DEF AppendLine
  <2>4. QED
    BY <2>2, <2>3
<1>3. ASSUME NEW j \in Jobs, ArchiveDay(j) PROVE LineAt(i) \in mixed' <=> LineAt(i) \in mixed
  <2>1. LineAt(i) # ArchiveOf(job[j].date)
    BY TracesDiffer
  <2>2. CASE archive[job[j].date] = NoFile
    BY <1>3, <2>1, <2>2, MarkSays DEF ArchiveDay
  <2>3. CASE archive[job[j].date] # NoFile
    BY <1>3, <2>3 DEF ArchiveDay
  <2>4. QED
    BY <2>2, <2>3
<1>4. ASSUME NEW j \in Jobs, MovePrevious(j) PROVE LineAt(i) \in mixed' <=> LineAt(i) \in mixed
  <2>1. LineAt(i) # PreviousFile
    BY TracesDiffer
  <2>2. QED
    BY <1>4, <2>1, MarkSays DEF MovePrevious
<1>5. QED
  BY <1>2, <1>3, <1>4, MarksStay

(* The line a run appends is marked unless the run is steady, and then it  *)
(* names the index that was parsed.                                        *)
LEMMA AppendedMark ==
  ASSUME VInv, NEW j \in Jobs, AppendLine(j), Readable(ledger)
  PROVE  /\ LineAt(Len(ledger) + 1) \in mixed' <=> ~job[j].steady
         /\ job[j].steady => /\ job[j].digest = index /\ job[j].today = index
                             /\ index \in Versions
<1>1. TInv /\ Sees(j) /\ job[j].at = "append"
  BY DEF VInv, AppendLine, At
<1>2. LineAt(Len(ledger) + 1) \in mixed' <=> ~job[j].steady
  BY <1>1, MarkSays DEF AppendLine
<1>3. job[j].today \in Versions
  BY <1>1 DEF TInv, JobInv, AfterRead
<1>4. QED
  BY <1>1, <1>2, <1>3 DEF Sees, AfterRead, AfterDigest

LEMMA LinesStep ==
  ASSUME VInv, LinesAgree, [Next]_vars
  PROVE  LinesAgree'
<1>1. TInv /\ ledger \in Seq(Line \cup {TornLine})
  BY DEF VInv, TInv, TypeOK
<1>2. SUFFICES ASSUME NEW i \in DOMAIN ledger', ledger'[i] # TornLine, LineAt(i) \notin mixed'
               PROVE  /\ ledger'[i].capture.sha \in Versions
                      /\ ledger'[i].capture.counts = CountsOf[ledger'[i].capture.sha]
  BY DEF LinesAgree
<1>3. CASE i \in DOMAIN ledger /\ ledger'[i] = ledger[i]
  BY <1>1, <1>2, <1>3, LineMarks DEF LinesAgree
<1>4. ASSUME NEW j \in Jobs, AppendLine(j), Readable(ledger), ledger' = Append(ledger, NewLine(j)),
             i = Len(ledger) + 1
      PROVE  /\ ledger'[i].capture.sha \in Versions
             /\ ledger'[i].capture.counts = CountsOf[ledger'[i].capture.sha]
  <2>1. ledger'[i] = NewLine(j)
    BY <1>1, <1>4
  <2>2. job[j].digest = index /\ job[j].today = index /\ index \in Versions
    BY <1>2, <1>4, AppendedMark
  <2>3. NewLine(j).capture.sha = index /\ NewLine(j).capture.counts = CountsOf[index]
    BY <2>2 DEF NewLine
  <2>4. QED
    BY <2>1, <2>2, <2>3
<1>5. CASE ledger' = ledger
  BY <1>3, <1>5
<1>6. ASSUME NEW line, ledger' = Append(ledger, line), i # Len(ledger) + 1
      PROVE  i \in DOMAIN ledger /\ ledger'[i] = ledger[i]
  BY <1>1, <1>6
<1>7. ASSUME ledger' = Append(ledger, TornLine), i = Len(ledger) + 1 PROVE FALSE
  BY <1>1, <1>2, <1>7
<1>8. QED
  BY <1>1, <1>3, <1>4, <1>5, <1>6, <1>7, LedgerStep

(* However many runs overlap, are killed or have the index rewritten under *)
(* them, and as long as no snapshot is torn: every retained snapshot       *)
(* agrees, in digest and counts, with the lines of the runs that saw one   *)
(* index, so one mixed run spoils no line but its own.                     *)
THEOREM SteadyRunsKeepTheEvidence ==
  ASSUME "snapshot" \notin Tears
  PROVE  Spec => []NoEvidenceProblem
<1>1. VInv /\ LinesAgree /\ [Next]_vars => (VInv /\ LinesAgree)'
  BY NextVInv, LinesStep
<1>2. EInv /\ [Next]_vars => EInv'
  BY NextEInv
<1>3. Init => EInv /\ VInv /\ LinesAgree
  BY InitEInv, InitVInv DEF Init, LinesAgree
<1>4. LinesAgree /\ EInv => NoEvidenceProblem
  <2> SUFFICES ASSUME LinesAgree, EInv, Readable(ledger), NEW i \in DOMAIN ledger, LineAt(i) \notin mixed
               PROVE  i \notin EvidenceProblems(ledger, snapshots)
    BY DEF NoEvidenceProblem, EvidenceProblems, MixedLines
  <2>1. ledger[i] # TornLine
    BY DEF Readable
  <2>2. PICK sha \in Versions : sha = ledger[i].capture.sha /\ ledger[i].capture.counts = CountsOf[sha]
    BY <2>1 DEF LinesAgree
  <2>3. snapshots[sha] \in {NoFile, sha} /\ sha # Torn
    BY <2>2, LedgerAssumption DEF EInv, SnapshotsWhole, Digest
  <2>4. QED
    BY <2>2, <2>3 DEF EvidenceProblems
<1>5. QED
  BY <1>1, <1>2, <1>3, <1>4, PTL DEF Spec

--------------------------------------------------------------------------------
(* What a steady run is about to archive and to copy to previous.json is   *)
(* recorded for the day of the run.                                        *)
Records(k) == job[k].at \in {"archive", "previous"} /\ job[k].steady =>
    RecordedOn(ledger, job[k].date, index)

WInv == VInv /\ RInv /\ \A k \in Jobs : Records(k)

LEMMA RecordsStep ==
  ASSUME OneJob \/ "ledger" \notin Tears, WInv, [Next]_vars, NEW k \in Jobs
  PROVE  Records(k)'
<1>1. /\ TInv /\ IndexOrUnsteady /\ LedgerGrows /\ VInv /\ RInv /\ Records(k)
      /\ ledger \in Seq(Line \cup {TornLine})
  BY NextIndex, NextGrows DEF WInv, VInv, TInv, TypeOK
<1>2. SUFFICES ASSUME job'[k].at \in {"archive", "previous"}, job'[k].steady
               PROVE  RecordedOn(ledger', job'[k].date, index')
  BY DEF Records
<1>3. index' = index
  BY <1>1, <1>2 DEF IndexOrUnsteady
<1>4. CASE job[k].at \in {"archive", "previous"} /\ job[k].steady /\ job'[k].date = job[k].date
  <2>1. RecordedOn(ledger, job[k].date, index)
    BY <1>1, <1>4 DEF Records
  <2>2. RecordedOn(ledger', job[k].date, index)
    BY <1>1, <2>1, RecordedStays
  <2>3. QED
    BY <1>3, <1>4, <2>2 DEF RecordedOn
<1>5. CASE Stays(k)
  BY <1>2, <1>4, <1>5 DEF Stays
<1>6. CASE Keeps(k) /\ Goes(k, "digest", "previous") /\ ledger' = ledger /\ Unchanged(ledger, job[k].date, index)
  <2>1. Len(ledger) \in DOMAIN ledger
    BY <1>1, <1>6 DEF Unchanged
  <2>2. RecordedOn(ledger, job[k].date, index)
    BY <1>6, <2>1 DEF Unchanged, RecordedOn
  <2>3. QED
    BY <1>3, <1>6, <2>2 DEF Keeps, RecordedOn
<1>7. CASE /\ Keeps(k) /\ Goes(k, "append", "archive")
           /\ ledger' = IF Readable(ledger) THEN Append(ledger, NewLine(k)) ELSE ledger
  <2>1. Readable(ledger)
    BY <1>1, <1>7 DEF RInv, Goes
  <2>2. job[k].digest = index
    BY <1>1, <1>2, <1>7 DEF VInv, Sees, AfterDigest, Keeps, Goes
  <2>3. NewLine(k).capture.day = job[k].date /\ NewLine(k).capture.sha = index
    BY <2>2 DEF NewLine
  <2>4. Len(ledger) + 1 \in DOMAIN ledger' /\ ledger'[Len(ledger) + 1] = NewLine(k)
    BY <1>1, <1>7, <2>1
  <2>5. QED
    BY <1>3, <1>7, <2>3, <2>4 DEF Keeps, RecordedOn
<1>8. CASE RunMoves(k)
  BY <1>2, <1>4, <1>6, <1>7, <1>8 DEF RunMoves, Early, Keeps, Goes
<1>9. QED
  BY <1>1, <1>2, <1>5, <1>8, RunStep

LEMMA NextWInv ==
  ASSUME OneJob \/ "ledger" \notin Tears, WInv, [Next]_vars
  PROVE  WInv'
<1>1. TInv
  BY DEF WInv, VInv
<1>2. QED
  BY <1>1, NextVInv, NextRInv, RecordsStep DEF WInv

LEMMA InitWInv == Init => WInv
BY InitVInv, InitRInv DEF Init, WInv, Records, Idle

(* If runs do not overlap, or no append is torn, and previous.json is not  *)
(* torn by a kill: what the next diff compares against is a recorded       *)
(* capture, unless the index was rewritten under the run that moved it     *)
(* (daily-snapshot.mjs:53-65).                                             *)
THEOREM PreviousMovesLast ==
  ASSUME OneJob \/ "ledger" \notin Tears, "previous" \notin Tears
  PROVE  Spec => []PreviousIsRecorded
<1> DEFINE KnownOn(lines, sha) == \E i \in DOMAIN lines : lines[i].capture.sha = sha
           PInv == WInv /\ (previous # NoFile /\ PreviousFile \notin mixed => KnownOn(ledger, previous))
<1>1. PInv /\ [Next]_vars => PInv'
  <2> SUFFICES ASSUME PInv, [Next]_vars, previous' # NoFile, PreviousFile \notin mixed'
               PROVE  KnownOn(ledger', previous')
    BY NextWInv
  <2>1. TInv /\ LedgerGrows /\ ledger \in Seq(Line \cup {TornLine})
    BY NextGrows DEF WInv, VInv, TInv, TypeOK
  <2>2. ASSUME NEW j \in Jobs, MovePrevious(j) PROVE KnownOn(ledger', previous')
    <3>1. job[j].at = "previous" /\ previous' = index /\ ledger' = ledger
      BY <2>2 DEF MovePrevious, At
    <3>2. job[j].steady
      BY <2>1, <2>2, MarkSays DEF MovePrevious
    <3>3. RecordedOn(ledger, job[j].date, index)
      BY <3>1, <3>2 DEF WInv, Records
    <3>4. QED
      BY <3>1, <3>3 DEF RecordedOn
  <2>3. CASE previous' = previous /\ PreviousFile \notin mixed
    <3>1. KnownOn(ledger, previous)
      BY <2>3
    <3>2. DOMAIN ledger \subseteq DOMAIN ledger' /\ \A i \in DOMAIN ledger : ledger'[i] = ledger[i]
      BY <2>1 DEF LedgerGrows
    <3>3. QED
      BY <2>3, <3>1, <3>2
  <2>4. ASSUME NEW j \in Jobs, AppendLine(j) \/ ArchiveDay(j)
        PROVE  previous' = previous /\ PreviousFile \notin mixed
    <3>1. /\ PreviousFile # LineAt(Len(ledger) + 1)
          /\ PreviousFile # ArchiveOf(job[j].date)
      BY TracesDiffer
    <3>2. CASE mixed' = mixed
      BY <2>4, <3>2 DEF AppendLine, ArchiveDay
    <3>3. CASE Mark(j, LineAt(Len(ledger) + 1)) \/ Mark(j, ArchiveOf(job[j].date))
      BY <2>1, <2>4, <3>1, <3>3, MarkSays DEF AppendLine, ArchiveDay
    <3>4. QED
      BY <2>4, <3>2, <3>3 DEF AppendLine, ArchiveDay
  <2>5. ASSUME NEW j \in Jobs, Start(j) \/ Step(j), ~MovePrevious(j) PROVE previous' = previous
    BY <2>5 DEF Start, Step, BeginRewrite, EndRewrite, RefreshFails, ReadIndex, WriteDiff, CompareLast,
                KeepSnapshot, ReadLedger, AppendLine, ArchiveDay, disk
  <2>6. ASSUME NEW j \in Jobs, Crash(j) PROVE previous' = previous
    BY <2>6 DEF Crash, disk
  <2>7. NextDay \/ OtherBegins \/ OtherEnds \/ UNCHANGED vars => previous' = previous
    BY DEF NextDay, OtherBegins, OtherEnds, vars, disk
  <2>8. CASE ~\E j \in Jobs : AppendLine(j) \/ ArchiveDay(j) \/ MovePrevious(j)
    <3>1. mixed' = mixed
      BY <2>8, MarksStay
    <3>2. previous' = previous
      BY <2>5, <2>6, <2>7, <2>8 DEF Next
    <3>3. QED
      BY <2>3, <3>1, <3>2
  <2>9. QED
    BY <2>2, <2>3, <2>4, <2>8
<1>2. Init => PInv
  BY InitWInv DEF Init
<1>3. PInv => PreviousIsRecorded
  BY DEF PreviousIsRecorded
<1>4. QED
  BY <1>1, <1>2, <1>3, PTL DEF Spec

--------------------------------------------------------------------------------
(* A step of a run writes an archive from what is recorded, or marks it.   *)
LEMMA ArchiveStep ==
  ASSUME WInv, ArchiveIsACapture, [Next]_vars, NEW day \in Days,
         archive'[day] \notin {NoFile, Torn}, ArchiveOf(day) \notin mixed'
  PROVE  RecordedOn(ledger', day, archive'[day])
<1>1. TInv /\ archive \in [Days -> File] /\ LedgerGrows
  BY NextGrows DEF WInv, VInv, TInv, TypeOK
<1>2. CASE archive'[day] = archive[day] /\ ArchiveOf(day) \notin mixed
  <2>1. RecordedOn(ledger, day, archive[day])
    BY <1>2 DEF ArchiveIsACapture, RecordedOn
  <2>2. RecordedOn(ledger', day, archive[day])
    BY <1>1, <2>1, RecordedStays
  <2>3. QED
    BY <1>2, <2>2 DEF RecordedOn
<1>3. ASSUME NEW j \in Jobs, ArchiveDay(j) PROVE RecordedOn(ledger', day, archive'[day])
  <2>1. job[j].at = "archive" /\ ledger' = ledger
    BY <1>3 DEF ArchiveDay, At
  <2>2. CASE day = job[j].date /\ archive[day] = NoFile
    <3>1. archive'[day] = index /\ Mark(j, ArchiveOf(day))
      BY <1>1, <1>3, <2>2 DEF ArchiveDay
    <3>2. job[j].steady
      BY <1>1, <3>1, MarkSays
    <3>3. RecordedOn(ledger, day, index)
      BY <2>1, <2>2, <3>2 DEF WInv, Records
    <3>4. QED
      BY <2>1, <3>1, <3>3 DEF RecordedOn
  <2>3. CASE archive[job[j].date] # NoFile
    BY <1>2, <1>3, <2>3 DEF ArchiveDay
  <2>4. CASE day # job[j].date /\ archive[job[j].date] = NoFile
    <3>1. archive'[day] = archive[day] /\ Mark(j, ArchiveOf(job[j].date))
      BY <1>1, <1>3, <2>4 DEF ArchiveDay
    <3>2. ArchiveOf(day) # ArchiveOf(job[j].date)
      BY <2>4, TracesDiffer
    <3>3. ArchiveOf(day) \notin mixed
      BY <1>1, <3>1, <3>2, MarkSays
    <3>4. QED
      BY <1>2, <3>1, <3>3
  <2>5. QED
    BY <2>2, <2>3, <2>4
<1>4. ASSUME NEW j \in Jobs, AppendLine(j) \/ MovePrevious(j)
      PROVE  archive' = archive /\ ArchiveOf(day) \notin mixed
  <2>1. ArchiveOf(day) # LineAt(Len(ledger) + 1) /\ ArchiveOf(day) # PreviousFile
    BY TracesDiffer
  <2>2. CASE mixed' = mixed
    BY <1>4, <2>2 DEF AppendLine, MovePrevious
  <2>3. CASE Mark(j, LineAt(Len(ledger) + 1)) \/ Mark(j, PreviousFile)
    BY <1>1, <1>4, <2>1, <2>3, MarkSays DEF AppendLine, MovePrevious
  <2>4. QED
    BY <1>4, <2>2, <2>3 DEF AppendLine, MovePrevious
<1>5. ASSUME NEW j \in Jobs, Start(j) \/ Step(j), ~ArchiveDay(j) PROVE archive' = archive
  BY <1>5 DEF Start, Step, BeginRewrite, EndRewrite, RefreshFails, ReadIndex, WriteDiff,
     CompareLast, KeepSnapshot, ReadLedger, AppendLine, MovePrevious, disk
<1>6. ASSUME NEW j \in Jobs, Crash(j) PROVE archive'[day] = archive[day]
  BY <1>1, <1>6 DEF Crash, disk
<1>7. NextDay \/ OtherBegins \/ OtherEnds \/ UNCHANGED vars => archive' = archive
  BY DEF NextDay, OtherBegins, OtherEnds, vars, disk
<1>8. CASE ~\E j \in Jobs : AppendLine(j) \/ ArchiveDay(j) \/ MovePrevious(j)
  <2>1. mixed' = mixed
    BY <1>8, MarksStay
  <2>2. archive'[day] = archive[day]
    BY <1>5, <1>6, <1>7, <1>8 DEF Next
  <2>3. QED
    BY <1>2, <2>1, <2>2
<1>9. QED
  BY <1>2, <1>3, <1>4, <1>8

(* If runs do not overlap, or no append is torn: a day archive is a        *)
(* capture that the ledger records for that very day, wherever jobs are    *)
(* killed and however long a run goes on past midnight, unless the index   *)
(* was rewritten under the run that wrote it (ledger.mjs:93-97).           *)
THEOREM ArchiveIsRecorded ==
  ASSUME OneJob \/ "ledger" \notin Tears
  PROVE  Spec => []ArchiveIsACapture
<1>1. WInv /\ ArchiveIsACapture /\ [Next]_vars => (WInv /\ ArchiveIsACapture)'
  <2> SUFFICES ASSUME WInv, ArchiveIsACapture, [Next]_vars PROVE WInv' /\ ArchiveIsACapture'
    OBVIOUS
  <2>1. WInv'
    BY NextWInv
  <2>2. ArchiveIsACapture'
    BY ArchiveStep DEF ArchiveIsACapture, RecordedOn
  <2>3. QED
    BY <2>1, <2>2
<1>2. Init => WInv /\ ArchiveIsACapture
  BY InitWInv DEF Init, ArchiveIsACapture
<1>3. QED
  BY <1>1, <1>2, PTL DEF Spec

--------------------------------------------------------------------------------
(* The ledger is the abstract log: what a steady run is about to record is *)
(* not what the log ends with.                                             *)
AboutToRecord == {"snapshot", "readLedger", "append"}
IsNews(k) == job[k].at \in AboutToRecord /\ job[k].steady => ~Unchanged(ledger, job[k].date, index)
LInv == VInv /\ Readable(ledger) /\ \A k \in Jobs : IsNews(k)

(* What a job is about to record stays news: no other job records before   *)
(* it.                                                                     *)
LEMMA NewsStep ==
  ASSUME OneJob, LInv, [Next]_vars, "ledger" \notin Tears, NEW k \in Jobs
  PROVE  IsNews(k)'
<1>1. TInv /\ IndexOrUnsteady
  BY NextIndex DEF LInv, VInv
<1>2. SUFFICES ASSUME job'[k].at \in AboutToRecord, job'[k].steady
               PROVE  ~Unchanged(ledger', job'[k].date, index')
  BY DEF IsNews
<1>3. index' = index
  BY <1>1, <1>2 DEF IndexOrUnsteady
<1>4. ledger' = ledger
  <2>1. ASSUME NEW j \in Jobs, AppendLine(j) PROVE FALSE
    <3>1. j = k /\ job'[k].at = "archive"
      BY <1>1, <2>1, GotoView DEF OneJob, AppendLine, Steps
    <3>2. QED
      BY <1>2, <3>1 DEF AboutToRecord
  <2>2. QED
    BY <1>1, <2>1, LedgerStep
<1>5. CASE job[k].at \in AboutToRecord /\ job[k].steady /\ job'[k].date = job[k].date
  BY <1>3, <1>4, <1>5 DEF LInv, IsNews
<1>6. CASE Stays(k)
  BY <1>2, <1>5, <1>6 DEF Stays
<1>7. CASE Keeps(k) /\ Goes(k, "digest", IF Unchanged(ledger, job[k].date, index) THEN "previous" ELSE "snapshot")
  BY <1>2, <1>3, <1>4, <1>7 DEF Keeps, Goes, AboutToRecord
<1>8. CASE RunMoves(k)
  BY <1>2, <1>5, <1>7, <1>8 DEF RunMoves, Early, Keeps, Goes, AboutToRecord
<1>9. QED
  BY <1>1, <1>2, <1>6, <1>8, RunStep DEF AboutToRecord

(* With one job and no torn append the ledger stays a log of whole lines.  *)
LEMMA NextLInv ==
  ASSUME OneJob, LInv, [Next]_vars, "ledger" \notin Tears
  PROVE  LInv'
<1>1. VInv' /\ \A k \in Jobs : IsNews(k)'
  BY NextVInv, NewsStep DEF LInv
<1>2. TInv /\ ledger \in Seq(Line \cup {TornLine})
  BY DEF LInv, VInv, TInv, TypeOK
<1>3. CASE ledger' = ledger
  BY <1>1, <1>3 DEF LInv, Readable
<1>4. ASSUME NEW j \in Jobs, AppendLine(j), ledger' = Append(ledger, NewLine(j)) PROVE LInv'
  <2>1. PICK line \in Line : line = NewLine(j) /\ line # TornLine
    BY <1>2, <1>4, AppendedLine
  <2>2. Readable(ledger')
    BY <1>2, <1>4, <2>1 DEF LInv, Readable
  <2>3. QED
    BY <1>1, <2>2 DEF LInv
<1>5. QED
  BY <1>2, <1>3, <1>4, LedgerStep

(* When the ledger stays, so does the log it is. *)
LEMMA LogStutters ==
  ASSUME TInv, [Next]_vars, ledger' = ledger
  PROVE  UNCHANGED <<RecordedCaptures, MixedLines>>
<1>1. \A i \in DOMAIN ledger : LineAt(i) \in mixed' <=> LineAt(i) \in mixed
  BY LineMarks
<1>2. QED
  BY <1>1 DEF RecordedCaptures, MixedLines

(* A line more is a capture more. *)
LEMMA LogAppends ==
  ASSUME TInv, NEW j \in Jobs, ledger' = Append(ledger, NewLine(j))
  PROVE  /\ RecordedCaptures' = Append(RecordedCaptures, NewLine(j).capture)
         /\ Len(RecordedCaptures) = Len(ledger)
<1> DEFINE c == NewLine(j).capture
           n == Len(ledger)
<1>0. ledger \in Seq(Line \cup {TornLine})
  BY DEF TInv, TypeOK
<1>1. /\ n \in Nat /\ DOMAIN ledger = 1..n /\ Len(RecordedCaptures) = n
      /\ RecordedCaptures \in Seq({l.capture : l \in Line \cup {TornLine}})
  <2>1. n \in Nat /\ DOMAIN ledger = 1..n /\ \A i \in 1..n : ledger[i] \in Line \cup {TornLine}
    BY <1>0
  <2>2. RecordedCaptures \in [1..n -> {l.capture : l \in Line \cup {TornLine}}]
    BY <2>1 DEF RecordedCaptures
  <2>3. QED
    BY <2>1, <2>2
<1>2. /\ Len(ledger') = n + 1 /\ DOMAIN ledger' = 1..n + 1 /\ ledger'[n + 1] = NewLine(j)
      /\ \A i \in 1..n : ledger'[i] = ledger[i]
  BY <1>0, <1>1
<1>3. RecordedCaptures' = [i \in 1..n + 1 |-> ledger'[i].capture]
  BY <1>2 DEF RecordedCaptures
<1>4. Append(RecordedCaptures, c) = [i \in 1..n + 1 |-> IF i <= n THEN RecordedCaptures[i] ELSE c]
  BY <1>1
<1>5. \A i \in 1..n + 1 : ledger'[i].capture = IF i <= n THEN RecordedCaptures[i] ELSE c
  BY <1>1, <1>2 DEF RecordedCaptures
<1>6. QED
  BY <1>1, <1>3, <1>4, <1>5, Zenon

(* A step of the job is a step of the abstract log, or none. *)
LEMMA RecordsOrStutters ==
  ASSUME OneJob, LInv, [Next]_vars, "ledger" \notin Tears
  PROVE  [Log!Next]_<<RecordedCaptures, MixedLines>>
<1>1. TInv /\ VInv /\ ledger \in Seq(Line \cup {TornLine}) /\ job \in [Jobs -> JobState]
  BY DEF LInv, VInv, TInv, TypeOK, JobState
<1>2. ASSUME NEW j \in Jobs, AppendLine(j), Readable(ledger), ledger' = Append(ledger, NewLine(j))
      PROVE  Log!Next
  <2> DEFINE c == NewLine(j).capture
             n == Len(ledger)
  <2>1. job[j].at = "append"
    BY <1>2 DEF AppendLine, At
  <2>2. c = [day |-> job[j].date, sha |-> job[j].digest, counts |-> CountsOf[job[j].today]]
    BY DEF NewLine
  <2>3. c \in AnyCaptures
    <3>1. job[j].date \in Days /\ job[j].digest \in Digest /\ job[j].today \in Versions
      BY <1>1, <2>1 DEF JobState, TInv, JobInv, AfterRead, AfterDigest
    <3>2. QED
      BY <2>2, <3>1 DEF AnyCaptures
  <2>4. RecordedCaptures' = Append(RecordedCaptures, c) /\ Len(RecordedCaptures) = n
    BY <1>1, <1>2, LogAppends
  <2>5. LineAt(n + 1) \in mixed' <=> ~job[j].steady
    BY <1>1, <1>2, AppendedMark
  <2>6. MixedLines' = IF job[j].steady THEN MixedLines ELSE MixedLines \cup {n + 1}
    <3>1. DOMAIN ledger' = DOMAIN ledger \cup {n + 1}
      BY <1>1, <1>2
    <3>2. \A i \in DOMAIN ledger : LineAt(i) \in mixed' <=> LineAt(i) \in mixed
      BY <1>1, LineMarks
    <3> HIDE DEF n
    <3>3. QED
      BY <2>5, <3>1, <3>2 DEF MixedLines
  <2>7. CASE ~job[j].steady
    <3>1. Log!RecordMixed(c)
      BY <2>4, <2>6, <2>7 DEF Log!RecordMixed
    <3>2. QED
      BY <2>3, <3>1 DEF Log!Next
  <2>8. CASE job[j].steady
    <3>1. job[j].digest = index /\ job[j].today = index /\ index \in Versions
      BY <1>1, <1>2, <2>8, AppendedMark
    <3>2. c.sha = index /\ c.counts = CountsOf[index] /\ c.day = job[j].date
      BY <2>2, <3>1
    <3>3. c \in DayCaptures
      BY <2>3, <3>1, <3>2 DEF DayCaptures
    <3>4. RecordedCaptures = <<>> \/ RecordedCaptures[Len(RecordedCaptures)] # c
      <4>1. SUFFICES ASSUME RecordedCaptures # <<>>, RecordedCaptures[n] = c PROVE FALSE
        BY <2>4
      <4>2. n # 0 /\ ledger # <<>>
        BY <1>1, <4>1 DEF RecordedCaptures
      <4>3. n \in DOMAIN ledger /\ ledger[n].capture = c
        BY <1>1, <4>1, <4>2 DEF RecordedCaptures
      <4>4. Unchanged(ledger, job[j].date, index)
        BY <3>2, <4>2, <4>3 DEF Unchanged
      <4>5. QED
        BY <2>1, <2>8, <4>4 DEF LInv, IsNews, AboutToRecord
    <3>5. Log!Record(c)
      BY <2>4, <2>6, <2>8, <3>4 DEF Log!Record
    <3>6. QED
      BY <3>3, <3>5 DEF Log!Next
  <2>9. QED
    BY <2>7, <2>8
<1>3. QED
  BY <1>1, <1>2, LedgerStep, LogStutters

(* With one job at a time, and no append cut short, the ledger of          *)
(* ledger.mjs is the append-only log it promises: one capture more at a    *)
(* time, nothing taken back, and, unless the index was rewritten under the *)
(* run, the counts of the index it names and never the capture it ends     *)
(* with, wherever jobs are killed ("one line per capture, not per run").   *)
THEOREM OneJobImplementsTheLog ==
  ASSUME OneJob, "ledger" \notin Tears
  PROVE  Spec => LogSpec
<1>1. LInv /\ [Next]_vars => LInv'
  BY NextLInv
<1>2. LInv /\ [Next]_vars => [Log!Next]_<<RecordedCaptures, MixedLines>>
  BY RecordsOrStutters
<1>3. Init => LInv /\ Log!Init
  <2> SUFFICES ASSUME Init PROVE LInv /\ Log!Init
    OBVIOUS
  <2>1. (\A j \in Jobs : job[j].at = "idle") /\ ledger = <<>> /\ mixed = {}
    BY DEF Init, Idle
  <2>2. Log!Init
    BY <2>1 DEF Log!Init, RecordedCaptures, MixedLines
  <2>3. QED
    BY <2>1, <2>2, InitVInv DEF LInv, Readable, IsNews, AboutToRecord
<1>4. QED
  BY <1>1, <1>2, <1>3, PTL DEF Spec, LogSpec, Log!Spec
================================================================================
