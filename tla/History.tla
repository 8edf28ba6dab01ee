-------------------------------- MODULE History --------------------------------
(***************************************************************************)
(* "agentgate history": the verification of the capture ledger, and its    *)
(* rebuilding from the day archives (packages/history/src/ledger.mjs).     *)
(* The daily job goes on capturing; lines, archives and snapshots get      *)
(* lost, damaged or pruned, and an older copy of the ledger is put back.   *)
(*                                                                         *)
(* An index is the time it was built and a number; a line is referenced by *)
(* all that is on it (SHA-256 is injective).  Time is counted in days.     *)
(***************************************************************************)
EXTENDS Integers, Sequences, FiniteSets, SequencesExt

CONSTANTS
    LastDay, MaxVersions, MaxAccidents,  \* bounds
    MaxLineAge,    \* --max-age
    NoLine, NoIndexYet, TornArchive, NoRebuild, NoVerdict

ASSUME HistoryAssumption ==
    /\ LastDay \in Nat \ {0} /\ {MaxVersions, MaxAccidents, MaxLineAge} \subseteq Nat

VARIABLES
    today,
    built,         \* data/index.json: [at, n]
    ledgerFile,    \* its lines; which were changed with a line after them; is the last one torn
    archive,       \* day -> the first index captured that day
    snapshot,      \* index -> "kept", "damaged" or "pruned"
    copy,          \* a copy of the ledger someone made
    backfilling,   \* the run of --backfill: the archives it listed and has to read
    verdict,       \* what a history command said that has just ended
    made,          \* history: <<day, index>> captured
    accidents

historyVars == <<today, built, ledgerFile, archive, snapshot, copy, backfilling, verdict, made, accidents>>

Day == 1..LastDay
With(f, k, v) == [x \in DOMAIN f \cup {k} |-> IF x = k THEN v ELSE f[x]]
Without(f, k) == [x \in DOMAIN f \ {k} |-> f[x]]
DaysOf(lines) == {lines[i].day : i \in DOMAIN lines}

(***************************************************************************)
(* The ledger.                                                             *)
(***************************************************************************)
Empty == [lines |-> <<>>, changed |-> {}, torn |-> FALSE]

(* appendCapture: a line of this day, about the index in that file. *)
NewLineOf(lines, day, index) ==
    [day |-> day, at |-> index.at, sha |-> index, counts |-> index.n, scanner |-> "s",
     prev |-> IF lines = <<>> THEN NoLine ELSE Last(lines)]

AppendCapture(day, index) ==
    /\ ledgerFile' = [ledgerFile EXCEPT !.lines = Append(@, NewLineOf(@, day, index))]
    /\ snapshot' = IF index \in DOMAIN snapshot /\ snapshot[index] # "pruned" THEN snapshot ELSE With(snapshot, index, "kept")
    /\ archive' = IF day \in DOMAIN archive THEN archive ELSE With(archive, day, index)

(* coverageOf: the days between the first and the last that have no line.  *)
Gaps(lines) ==
    LET days == DaysOf(lines)
    IN  {d \in Day : d \notin days /\ (\E e \in days : e < d) /\ \E e \in days : d < e}

Chained(lines) == \A i \in DOMAIN lines : lines[i].prev = IF i = 1 THEN NoLine ELSE lines[i - 1]

(* A retained snapshot is hashed, and its numbers are held against the     *)
(* line.                                                                   *)
EvidenceHolds(lines) ==
    \A i \in DOMAIN lines :
        snapshot[lines[i].sha] # "pruned" => snapshot[lines[i].sha] = "kept" /\ lines[i].counts = lines[i].sha.n

(* The age of the line that is last in the file, whatever its day is.      *)
Stale(lines) == lines # <<>> /\ today - Last(lines).at > MaxLineAge

verifyLedger(lines) ==
    [ok |-> Chained(lines) /\ EvidenceHolds(lines) /\ ~Stale(lines),
     stale |-> Stale(lines), captures |-> Len(lines), gaps |-> Gaps(lines),
     notRetained |-> {i \in DOMAIN lines : snapshot[lines[i].sha] = "pruned"}]

(***************************************************************************)
(* The daily job, the calendar and whoever keeps the directory.            *)
(***************************************************************************)
HistoryInit ==
    /\ today = 1 /\ built = NoIndexYet /\ ledgerFile = Empty /\ archive = <<>> /\ snapshot = <<>>
    /\ copy = Empty /\ backfilling = NoRebuild /\ verdict = NoVerdict /\ made = {} /\ accidents = 0

Build ==
    /\ LET n == IF built = NoIndexYet THEN 1 ELSE built.n + 1
       IN  n <= MaxVersions /\ built' = [at |-> today, n |-> n]
    /\ UNCHANGED <<today, ledgerFile, archive, snapshot, copy, backfilling, made, accidents>>

NextMorning ==
    /\ today < LastDay /\ today' = today + 1
    /\ UNCHANGED <<built, ledgerFile, archive, snapshot, copy, backfilling, made, accidents>>

(* Nothing is added when the last line is of this day and this index. *)
DailyCapture ==
    /\ built # NoIndexYet /\ ~ledgerFile.torn
    /\ ledgerFile.lines # <<>> => Last(ledgerFile.lines).day # today \/ Last(ledgerFile.lines).sha # built
    /\ AppendCapture(today, built)
    /\ made' = made \cup {<<today, built>>}
    /\ UNCHANGED <<today, built, copy, backfilling, accidents>>

CopyLedger ==
    /\ copy' = ledgerFile /\ copy # ledgerFile /\ ~ledgerFile.torn
    /\ UNCHANGED <<today, built, ledgerFile, archive, snapshot, backfilling, made, accidents>>

(* The ledger is lost, or the copy is put back in its place, while no      *)
(* backfill runs.                                                          *)
PutBack ==
    /\ backfilling = NoRebuild
    /\ ledgerFile' \in {Empty, copy} /\ ledgerFile' # ledgerFile
    /\ UNCHANGED <<today, built, archive, snapshot, copy, backfilling, made>>

LoseArchive ==
    /\ \E d \in DOMAIN archive : archive' \in {Without(archive, d), With(archive, d, TornArchive)}
    /\ UNCHANGED <<today, built, ledgerFile, snapshot, copy, backfilling, made>>

LoseSnapshot ==
    /\ \E index \in DOMAIN snapshot, as \in {"damaged", "pruned"} : snapshot' = With(snapshot, index, as)
    /\ UNCHANGED <<today, built, ledgerFile, archive, copy, backfilling, made>>

(* A line is changed in the file, or the append of one is cut short. *)
ChangeLine ==
    /\ ~ledgerFile.torn
    /\ \E i \in DOMAIN ledgerFile.lines :
          /\ ledgerFile.lines[i].scanner = "s"
          /\ ledgerFile' = [ledgerFile EXCEPT !.lines[i].scanner = "t",
                                      !.changed = IF i < Len(ledgerFile.lines) THEN @ \cup {i} ELSE @]
    /\ UNCHANGED <<today, built, archive, snapshot, copy, backfilling, made>>

TearLine ==
    /\ ~ledgerFile.torn /\ ledgerFile' = [ledgerFile EXCEPT !.torn = TRUE]
    /\ UNCHANGED <<today, built, archive, snapshot, copy, backfilling, made>>

Accident ==
    /\ accidents < MaxAccidents /\ accidents' = accidents + 1
    /\ PutBack \/ LoseArchive \/ LoseSnapshot \/ ChangeLine \/ TearLine

(***************************************************************************)
(* The command.  A torn line makes every reading of the ledger throw.      *)
(***************************************************************************)
Verify ==
    /\ backfilling = NoRebuild /\ ~ledgerFile.torn
    /\ verdict' = [said |-> verifyLedger(ledgerFile.lines), now |-> today, listed |-> {}]
    /\ UNCHANGED <<today, built, ledgerFile, archive, snapshot, copy, backfilling, made, accidents>>

(* Mutant: only what is newer than the last line is added. *)
MutBeginBackfill ==
    /\ backfilling = NoRebuild /\ ~ledgerFile.torn
    /\ backfilling' = [listed |-> DOMAIN archive,
                       todo |-> {d \in DOMAIN archive : \A e \in DaysOf(ledgerFile.lines) : e < d}]
    /\ UNCHANGED <<today, built, ledgerFile, archive, snapshot, copy, made, accidents>>

(* The days that have a line are read once, before the first is added.     *)
BeginBackfill ==
    /\ backfilling = NoRebuild /\ ~ledgerFile.torn
    /\ backfilling' = [listed |-> DOMAIN archive, todo |-> DOMAIN archive \ DaysOf(ledgerFile.lines)]
    /\ UNCHANGED <<today, built, ledgerFile, archive, snapshot, copy, made, accidents>>

BackfillDay ==
    /\ backfilling # NoRebuild /\ backfilling.todo # {} /\ ~ledgerFile.torn
    /\ LET day == CHOOSE d \in backfilling.todo : \A e \in backfilling.todo : d <= e
       IN  /\ day \in DOMAIN archive /\ archive[day] # TornArchive
           /\ AppendCapture(day, archive[day])
           /\ backfilling' = [backfilling EXCEPT !.todo = @ \ {day}]
    /\ UNCHANGED <<today, built, copy, made, accidents>>

(* An archive that is gone or does not parse, a torn line or a kill. *)
BackfillFails ==
    /\ backfilling # NoRebuild
    /\ \/ accidents < MaxAccidents /\ accidents' = accidents + 1
       \/ /\ ledgerFile.torn \/ \E d \in backfilling.todo : d \in DOMAIN archive => archive[d] = TornArchive
          /\ UNCHANGED accidents
    /\ backfilling' = NoRebuild
    /\ UNCHANGED <<today, built, ledgerFile, archive, snapshot, copy, made>>

EndBackfill ==
    /\ backfilling # NoRebuild /\ backfilling.todo = {} /\ ~ledgerFile.torn
    /\ verdict' = [said |-> verifyLedger(ledgerFile.lines), now |-> today, listed |-> backfilling.listed]
    /\ backfilling' = NoRebuild
    /\ UNCHANGED <<today, built, ledgerFile, archive, snapshot, copy, made, accidents>>

HistoryNext ==
    \/ /\ Build \/ NextMorning \/ DailyCapture \/ CopyLedger \/ Accident
          \/ BeginBackfill \/ BackfillDay \/ BackfillFails
       /\ verdict' = NoVerdict
    \/ Verify \/ EndBackfill

HistorySpec == HistoryInit /\ [][HistoryNext]_historyVars

--------------------------------------------------------------------------------
(* What the history may say of the captures that were made.                *)

(* The directory, the runs and what they said keep their types. *)
HistoryTypeOK ==
    /\ today \in Day /\ DOMAIN archive \subseteq Day
    /\ ledgerFile.changed \subseteq DOMAIN ledgerFile.lines
    /\ \A i \in DOMAIN ledgerFile.lines : ledgerFile.lines[i].sha \in DOMAIN snapshot
    /\ backfilling # NoRebuild => backfilling.todo \subseteq backfilling.listed
    /\ \A index \in DOMAIN snapshot : snapshot[index] \in {"kept", "damaged", "pruned"}

(* Whatever is lost, put back and rebuilt, a line tells of a capture that  *)
(* was made on that day, of that index (ledger.mjs, 100-107).              *)
NothingInvented ==
    \A i \in DOMAIN ledgerFile.lines : <<ledgerFile.lines[i].day, ledgerFile.lines[i].sha>> \in made

(* A backfill that ends has a line for every day whose archive it found:   *)
(* the days it reports as missing are those whose archive is gone too.     *)
MissingMeansLost ==
    verdict # NoVerdict => verdict.said.gaps \cap verdict.listed = {}

(* A history that is not stale tells of an index built that recently,      *)
(* which a capture was made of (ledger.mjs, 206-217).                      *)
FreshIsFresh ==
    verdict # NoVerdict /\ verdict.said.captures > 0 /\ ~verdict.said.stale =>
        \E c \in made : c[2].at >= verdict.now - MaxLineAge

(* A history is not verified if a line was changed after another was       *)
(* chained to it, or if a snapshot it still has is damaged.                *)
ChangeIsSeen ==
    [][verdict' # NoVerdict /\ verdict'.said.ok =>
        /\ ledgerFile.changed = {}
        /\ \A i \in DOMAIN ledgerFile.lines : snapshot[ledgerFile.lines[i].sha] # "damaged"]_historyVars

(* The history is true whatever is lost, put back or rebuilt: no line      *)
(* without its capture, no gap where an archive is left, no freshness      *)
(* without a fresh index, no verification over a change.                   *)
HistoryIsTrue ==
    /\ [](HistoryTypeOK /\ NothingInvented /\ MissingMeansLost /\ FreshIsFresh)
    /\ ChangeIsSeen
================================================================================
