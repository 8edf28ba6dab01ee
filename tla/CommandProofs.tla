------------------------------ MODULE CommandProofs ------------------------------
(***************************************************************************)
(* Proofs about what the commands keep beside the index: the archive of    *)
(* captures, the evidence pack, the history and the backups; of what the   *)
(* inventory page shows, what a green review of findings means and what    *)
(* the MCP server answers.  Whatever is killed, lost, damaged, pruned, cut *)
(* or late, each of them is what it says it is.                            *)
(***************************************************************************)
EXTENDS WatchArchive, EvidencePack, History, Backup, InventoryPage, ReviewCriticals, McpServer,
        SequenceTheorems, FiniteSetTheorems, TLAPS

--------------------------------------------------------------------------------
(* The archive of captures.                                                *)

(* A torn line is the last one, and each line before it holds the hash of  *)
(* the one before.                                                         *)
LinesTrue ==
    /\ lines \in Seq(WatchLine \cup {TornText})
    /\ \A i \in 1..Len(lines) - 1 : lines[i] # TornText
    /\ \A i \in 1..Len(lines) : lines[i] # TornText => lines[i].prev = PrevAt(i)

(* A projection is under its own digest, whole or torn; a line has its     *)
(* snapshot unless it was pruned; and what was pushed has its line.        *)
SnapshotsTrue ==
    /\ \A k \in DOMAIN snapshots : k \in Projections /\ snapshots[k] \in {k, TornText}
    /\ pruned \subseteq Projections /\ pushes \subseteq Projections
    /\ \A i \in 1..Len(lines) : lines[i] # TornText => lines[i].snapshot \in DOMAIN snapshots \cup pruned
    /\ \A p \in pushes : \E i \in 1..Len(lines) : lines[i] # TornText /\ lines[i].snapshot = p

(* A run goes by the archive as it still is: there is one writer. *)
RunTrue ==
    /\ DOMAIN run = {"step", "now", "prev", "first", "before"}
    /\ run.step \in {"idle", "snapshot", "line", "push"}
    /\ run.now \in Projections \cup {NoProjection}
    /\ run.step # "idle" => run.now \in Projections
    /\ run.step \in {"snapshot", "line"} => ~Unreadable
    /\ run.step \in {"snapshot", "line"} =>
         /\ run.first = (Len(lines) = 0)
         /\ run.prev = PrevAt(Len(lines) + 1)
         /\ run.before # <<>> => Len(lines) > 0 /\ run.before = <<lines[Len(lines)].snapshot>>
    /\ run.step = "line" => run.now \in DOMAIN snapshots
    /\ run.step = "push" =>
         Len(lines) > 0 /\ lines[Len(lines)] # TornText /\ lines[Len(lines)].snapshot = run.now

SaidTrue ==
    /\ said.words \in {"nothing", "first", "no change", "changes", "cannot compare"}
    /\ said.words \in {"no change", "changes"} =>
         /\ said.at \in 2..Len(lines)
         /\ lines[said.at - 1] # TornText
         /\ (said.words = "no change") <=> (lines[said.at - 1].snapshot = said.now)

(* Before anything goes wrong all is there. *)
MishapsCounted ==
    /\ mishaps \in 0..MaxMishaps
    /\ mishaps = 0 =>
         /\ ~Unreadable /\ ending = "whole"
         /\ \A k \in DOMAIN snapshots : snapshots[k] = k
         /\ \A i \in 1..Len(lines) : lines[i].snapshot \in DOMAIN snapshots

(* A line without a newline is there, and so are the two of a glued one. *)
EndingTrue == ending \in {"whole", "unended", "glued"} /\ (ending # "whole" => Len(lines) > 0)

IInv == LinesTrue /\ EndingTrue /\ SnapshotsTrue /\ RunTrue /\ SaidTrue /\ MishapsCounted

--------------------------------------------------------------------------------
(* Two lists without a difference are the same list, copy by copy. *)
LEMMA NoDifference ==
  ASSUME NEW p \in [Rows -> Nat], NEW q \in [Rows -> Nat]
  PROVE  LET d == diffProjections(p, q)
         IN  d.added \cup d.removed \cup d.changed = {} <=> p = q
<1> DEFINE d == diffProjections(p, q)
<1>1. /\ d.added = Identities(q) \ Identities(p)
      /\ d.removed = Identities(p) \ Identities(q)
      /\ d.changed = {id \in Identities(q) \cap Identities(p) : Group(q, id) # Group(p, id)}
  BY DEF diffProjections
<1> HIDE DEF d
<1>2. p = q => d.added \cup d.removed \cup d.changed = {}
  BY <1>1
<1>3. ASSUME d.added \cup d.removed \cup d.changed = {} PROVE p = q
  <2>1. SUFFICES ASSUME NEW r \in Rows, p[r] # q[r] PROVE FALSE
    OBVIOUS
  <2> DEFINE id == r.identity
  <2>2. p[r] > 0 \/ q[r] > 0
    BY <2>1
  <2>3. id \in Identities(p) \/ id \in Identities(q)
    BY <2>2 DEF Identities
  <2>4. id \in Identities(q) \cap Identities(p)
    BY <1>1, <1>3, <2>3
  <2>5. Group(q, id) = Group(p, id)
    BY <1>1, <1>3, <2>4
  <2>6. CASE p[r] > 0
    <3>1. <<r, p[r]>> \in Group(q, id)
      BY <2>5, <2>6 DEF Group
    <3>2. QED
      BY <2>1, <3>1 DEF Group
  <2>7. CASE q[r] > 0
    <3>1. <<r, q[r]>> \in Group(p, id)
      BY <2>5, <2>7 DEF Group
    <3>2. QED
      BY <2>1, <3>1 DEF Group
  <2>8. QED
    BY <2>2, <2>6, <2>7
<1>4. QED
  BY <1>2, <1>3 DEF d

(* What is said of a change is the truth about the list before. *)
LEMMA SummaryIsTrue ==
  ASSUME NEW first \in BOOLEAN, NEW before, NEW latest \in Projections,
         before # <<>> => before[1] \in Projections
  PROVE  /\ summarize(first, before, latest) \in {"first", "no change", "changes", "cannot compare"}
         /\ summarize(first, before, latest) \in {"no change", "changes"} =>
              /\ ~first /\ before # <<>>
              /\ summarize(first, before, latest) = "no change" <=> before[1] = latest
<1>1. CASE first
  BY <1>1 DEF summarize
<1>2. CASE ~first /\ before = <<>>
  BY <1>2 DEF summarize
<1>3. CASE ~first /\ before # <<>>
  <2> DEFINE d == diffProjections(before[1], latest)
  <2>1. before[1] \in [Rows -> Nat] /\ latest \in [Rows -> Nat]
    BY <1>3, WatchAssumption
  <2>2. d.added \cup d.removed \cup d.changed = {} <=> before[1] = latest
    BY <2>1, NoDifference
  <2>3. summarize(first, before, latest) =
          IF d.added \cup d.removed \cup d.changed = {} THEN "no change" ELSE "changes"
    BY <1>3 DEF summarize
  <2> HIDE DEF d
  <2>4. QED
    BY <1>3, <2>2, <2>3
<1>4. QED
  BY <1>1, <1>2, <1>3

--------------------------------------------------------------------------------
(* The lines *)

(* The hash the next line points at is one. *)
LEMMA PrevIsHash ==
  ASSUME LinesTrue, ~Unreadable
  PROVE  PrevAt(Len(lines) + 1) \in Hash
<1>1. Len(lines) \in Nat
  BY DEF LinesTrue
<1>2. CASE Len(lines) = 0
  BY <1>2 DEF PrevAt, Hash
<1>3. CASE Len(lines) > 0
  <2>1. lines[Len(lines)] \in WatchLine
    BY <1>1, <1>3 DEF LinesTrue, Unreadable
  <2>2. HashOf(lines[Len(lines)]) \in Hash
    BY <2>1 DEF HashOf, WatchLine, Hash
  <2>3. Len(lines) + 1 # 1 /\ Len(lines) + 1 - 1 = Len(lines)
    BY <1>1, <1>3
  <2>4. QED
    BY <2>2, <2>3 DEF PrevAt
<1>4. QED
  BY <1>1, <1>2, <1>3

(* A line, whole or torn, is put after those that can be read. *)
LEMMA AppendKeeps ==
  ASSUME LinesTrue, ~Unreadable, NEW e, lines' = Append(lines, e),
         e # TornText => e \in WatchLine /\ e.prev = PrevAt(Len(lines) + 1)
  PROVE  /\ LinesTrue'
         /\ Len(lines) \in Nat /\ Len(lines') = Len(lines) + 1
         /\ lines'[Len(lines')] = e
         /\ \A i \in 1..Len(lines) : lines'[i] = lines[i] /\ lines[i] \in WatchLine /\ lines[i] # TornText
<1>1. lines \in Seq(WatchLine \cup {TornText}) /\ Len(lines) \in Nat
  BY DEF LinesTrue
<1>2. lines' \in Seq(WatchLine \cup {TornText}) /\ Len(lines') = Len(lines) + 1
  BY <1>1
<1>3. lines'[Len(lines) + 1] = e /\ \A i \in 1..Len(lines) : lines'[i] = lines[i]
  BY <1>1
<1>4. \A i \in 1..Len(lines) : lines[i] # TornText /\ lines[i] \in WatchLine
  BY <1>1 DEF Unreadable
<1>5. ASSUME NEW i \in 1..Len(lines) + 1 PROVE PrevAt(i)' = PrevAt(i)
  <2>1. i # 1 => i - 1 \in 1..Len(lines)
    BY <1>1
  <2>2. QED
    BY <1>3, <2>1 DEF PrevAt
<1>6. ASSUME NEW i \in 1..Len(lines'), lines'[i] # TornText PROVE lines'[i].prev = PrevAt(i)'
  <2>1. CASE i = Len(lines) + 1
    BY <1>3, <1>5, <1>6, <2>1
  <2>2. CASE i \in 1..Len(lines)
    BY <1>1, <1>3, <1>4, <1>5, <2>2 DEF LinesTrue
  <2>3. QED
    BY <1>1, <1>2, <2>1, <2>2
<1>7. \A i \in 1..Len(lines') - 1 : lines'[i] # TornText
  BY <1>1, <1>2, <1>3, <1>4
<1>8. LinesTrue'
  BY <1>2, <1>6, <1>7 DEF LinesTrue
<1>9. QED
  BY <1>1, <1>2, <1>3, <1>4, <1>8

(* The lines stay, and with them what was read from them. *)
LEMMA LinesStay ==
  ASSUME lines' = lines, ending' = ending
  PROVE  /\ LinesTrue' <=> LinesTrue
         /\ EndingTrue' <=> EndingTrue
         /\ \A i : PrevAt(i)' = PrevAt(i)
         /\ Unreadable' <=> Unreadable
BY DEF LinesTrue, EndingTrue, PrevAt, Unreadable

(* The lines and the snapshots stay; a digest may be pushed that has its   *)
(* line.                                                                   *)
LEMMA ArchiveStays ==
  ASSUME IInv, lines' = lines, ending' = ending, snapshots' = snapshots, pruned' = pruned, said' = said,
         mishaps' \in 0..MaxMishaps, mishaps' = 0 => mishaps = 0,
         \A p \in pushes' \ pushes :
            p \in Projections /\ \E i \in 1..Len(lines) : lines[i] # TornText /\ lines[i].snapshot = p
  PROVE  LinesTrue' /\ EndingTrue' /\ SnapshotsTrue' /\ SaidTrue' /\ MishapsCounted'
<1>1. LinesTrue' /\ EndingTrue'
  BY LinesStay DEF IInv
<1>2. SnapshotsTrue'
  BY DEF IInv, SnapshotsTrue
<1>3. SaidTrue'
  BY DEF IInv, SaidTrue
<1>4. MishapsCounted'
  BY LinesStay DEF IInv, MishapsCounted
<1>5. QED
  BY <1>1, <1>2, <1>3, <1>4

(* A run that ended claims nothing. *)
LEMMA IdleIsTrue ==
  ASSUME run' = NoRun
  PROVE  RunTrue'
BY DEF RunTrue, NoRun

--------------------------------------------------------------------------------
(* Every step keeps the invariant. *)

(* The invariant holds of an empty archive. *)
LEMMA InitIInv == WatchInit => IInv
<1> SUFFICES ASSUME WatchInit PROVE IInv
  OBVIOUS
<1>1. LinesTrue /\ EndingTrue
  BY DEF WatchInit, LinesTrue, EndingTrue
<1>2. SnapshotsTrue
  BY DEF WatchInit, SnapshotsTrue
<1>3. RunTrue
  BY DEF WatchInit, RunTrue, NoRun
<1>4. SaidTrue
  BY DEF WatchInit, SaidTrue, Nothing
<1>5. MishapsCounted
  BY WatchAssumption DEF WatchInit, MishapsCounted, Unreadable
<1>6. QED
  BY <1>1, <1>2, <1>3, <1>4, <1>5 DEF IInv

(* A run that starts reads the archive it will append to. *)
LEMMA BeginKeeps ==
  ASSUME IInv, NEW latest \in Projections, Begin(latest)
  PROVE  IInv'
<1> DEFINE last == Len(lines)
           kept == /\ last > 0 /\ lines[last].snapshot \in DOMAIN snapshots
                   /\ snapshots[lines[last].snapshot] # TornText
           before == IF kept THEN <<snapshots[lines[last].snapshot]>> ELSE <<>>
<1>1. /\ ~Unreadable /\ UNCHANGED <<lines, ending, snapshots, said, pushes, pruned, mishaps>>
      /\ run' = [step |-> "snapshot", now |-> latest, first |-> last = 0, prev |-> PrevAt(last + 1),
                 before |-> before]
  BY DEF Begin
<1>2. LinesTrue' /\ EndingTrue' /\ SnapshotsTrue' /\ SaidTrue' /\ MishapsCounted'
  BY <1>1, ArchiveStays DEF IInv, MishapsCounted
<1>3. before # <<>> => last > 0 /\ before = <<lines[last].snapshot>>
  BY DEF IInv, SnapshotsTrue
<1> HIDE DEF kept, before
<1>4. /\ run'.step = "snapshot" /\ run'.now = latest /\ run'.first = (last = 0)
      /\ DOMAIN run' = {"step", "now", "prev", "first", "before"}
      /\ run'.prev = PrevAt(last + 1) /\ run'.before = before
  BY <1>1
<1>5. RunTrue'
  BY <1>1, <1>3, <1>4, LinesStay DEF RunTrue
<1>6. QED
  BY <1>2, <1>5 DEF IInv

(* A file of snapshots is written, whole or torn: what is said of the      *)
(* lines stays true.                                                       *)
LEMMA PutKeeps ==
  ASSUME IInv, NEW key \in Projections, NEW value \in {key, TornText}, snapshots' = Put(snapshots, key, value),
         UNCHANGED <<lines, ending, said, pushes, pruned>>
  PROVE  /\ LinesTrue' /\ EndingTrue' /\ SnapshotsTrue' /\ SaidTrue'
         /\ DOMAIN snapshots' = DOMAIN snapshots \cup {key}
         /\ \A k \in DOMAIN snapshots' : snapshots'[k] = IF k = key THEN value ELSE snapshots[k]
<1>1. /\ DOMAIN snapshots' = DOMAIN snapshots \cup {key}
      /\ \A k \in DOMAIN snapshots' : snapshots'[k] = IF k = key THEN value ELSE snapshots[k]
  BY DEF Put
<1>2. LinesTrue' /\ EndingTrue'
  BY LinesStay DEF IInv
<1>3. SaidTrue'
  BY DEF IInv, SaidTrue
<1>4. SnapshotsTrue'
  BY <1>1 DEF IInv, SnapshotsTrue
<1>5. QED
  BY <1>1, <1>2, <1>3, <1>4

(* A snapshot is written under the digest of what it holds. *)
LEMMA WriteSnapshotKeeps ==
  ASSUME IInv, WriteSnapshot
  PROVE  IInv'
<1>1. /\ run.step = "snapshot" /\ run' = [run EXCEPT !.step = "line"]
      /\ UNCHANGED <<lines, ending, said, pushes, pruned, mishaps>>
      /\ snapshots' = IF run.now \in DOMAIN snapshots THEN snapshots ELSE Put(snapshots, run.now, run.now)
  BY DEF WriteSnapshot
<1>2. run.now \in Projections
  BY <1>1 DEF IInv, RunTrue
<1>3. /\ LinesTrue' /\ EndingTrue' /\ SnapshotsTrue' /\ SaidTrue' /\ MishapsCounted'
      /\ run.now \in DOMAIN snapshots'
  <2>1. CASE run.now \in DOMAIN snapshots
    BY <1>1, <2>1, ArchiveStays DEF IInv, MishapsCounted
  <2>2. CASE run.now \notin DOMAIN snapshots
    <3>1. snapshots' = Put(snapshots, run.now, run.now)
      BY <1>1, <2>2
    <3>2. /\ LinesTrue' /\ EndingTrue' /\ SnapshotsTrue' /\ SaidTrue'
          /\ DOMAIN snapshots' = DOMAIN snapshots \cup {run.now}
          /\ \A k \in DOMAIN snapshots' : snapshots'[k] = IF k = run.now THEN run.now ELSE snapshots[k]
      BY <1>1, <1>2, <3>1, PutKeeps
    <3>3. MishapsCounted'
      BY <1>1, <3>2, LinesStay DEF IInv, MishapsCounted
    <3>4. QED
      BY <3>2, <3>3
  <2>3. QED
    BY <2>1, <2>2
<1>4. RunTrue'
  BY <1>1, <1>2, <1>3, LinesStay DEF IInv, RunTrue
<1>5. QED
  BY <1>3, <1>4 DEF IInv

(* The line of a run continues the chain and has its snapshot. *)
LEMMA EntryKeeps ==
  ASSUME IInv, run.step = "line", lines' = Append(lines, Entry), UNCHANGED <<snapshots, pushes, pruned>>
  PROVE  /\ LinesTrue' /\ SnapshotsTrue'
         /\ Len(lines) \in Nat /\ Len(lines') = Len(lines) + 1
         /\ lines'[Len(lines')] = Entry /\ Entry # TornText
         /\ Entry.snapshot = run.now /\ run.now \in DOMAIN snapshots
         /\ \A i \in 1..Len(lines) : lines'[i] = lines[i] /\ lines[i] \in WatchLine /\ lines[i] # TornText
<1>1. lines' = Append(lines, Entry) /\ UNCHANGED <<snapshots, pushes, pruned>>
  OBVIOUS
<1>2. /\ ~Unreadable /\ run.now \in Projections /\ run.now \in DOMAIN snapshots
      /\ run.prev = PrevAt(Len(lines) + 1)
  BY DEF IInv, RunTrue
<1>3. LinesTrue
  BY DEF IInv
<1>4. Entry.snapshot = run.now /\ Entry.prev = PrevAt(Len(lines) + 1) /\ Entry \in WatchLine /\ Entry # TornText
  <2>1. PrevAt(Len(lines) + 1) \in Hash
    BY <1>2, <1>3, PrevIsHash
  <2>2. QED
    BY <1>2, <2>1, WatchAssumption DEF Entry, WatchLine
<1>5. /\ LinesTrue'
      /\ Len(lines) \in Nat /\ Len(lines') = Len(lines) + 1
      /\ lines'[Len(lines')] = Entry
      /\ \A i \in 1..Len(lines) : lines'[i] = lines[i] /\ lines[i] \in WatchLine /\ lines[i] # TornText
  BY <1>1, <1>2, <1>3, <1>4, AppendKeeps
<1>6. SnapshotsTrue'
  <2>1. ASSUME NEW i \in 1..Len(lines') PROVE lines'[i].snapshot \in DOMAIN snapshots \cup pruned
    <3>1. CASE i = Len(lines')
      BY <1>2, <1>4, <1>5, <3>1
    <3>2. CASE i \in 1..Len(lines)
      BY <1>5, <3>2 DEF IInv, SnapshotsTrue
    <3>3. QED
      BY <1>5, <3>1, <3>2
  <2>2. ASSUME NEW p \in pushes PROVE \E i \in 1..Len(lines') : lines'[i] # TornText /\ lines'[i].snapshot = p
    <3>1. PICK i \in 1..Len(lines) : lines[i] # TornText /\ lines[i].snapshot = p
      BY DEF IInv, SnapshotsTrue
    <3>2. i \in 1..Len(lines') /\ lines'[i] = lines[i]
      BY <1>5
    <3>3. QED
      BY <3>1, <3>2
  <2>3. QED
    BY <1>1, <2>1, <2>2 DEF IInv, SnapshotsTrue
<1>7. QED
  BY <1>2, <1>4, <1>5, <1>6

(* A line that is appended is what the run says, and what it will push.    *)
LEMMA AppendLineKeeps ==
  ASSUME IInv, AppendLine
  PROVE  IInv'
<1>1. /\ run.step = "line" /\ lines' = Append(lines, Entry) /\ ending' = EndingOf("whole")
      /\ said' = [words |-> summarize(run.first, run.before, run.now), now |-> run.now, at |-> Len(lines) + 1]
      /\ run' = [run EXCEPT !.step = "push"]
      /\ UNCHANGED <<snapshots, pushes, pruned, mishaps>>
  BY DEF AppendLine
<1>2. /\ run.now \in Projections /\ run.first = (Len(lines) = 0)
      /\ run.before # <<>> => Len(lines) > 0 /\ run.before = <<lines[Len(lines)].snapshot>>
      /\ DOMAIN run = {"step", "now", "prev", "first", "before"}
  BY <1>1 DEF IInv, RunTrue
<1>3. /\ LinesTrue' /\ SnapshotsTrue'
      /\ Len(lines) \in Nat /\ Len(lines') = Len(lines) + 1
      /\ lines'[Len(lines')] = Entry /\ Entry # TornText
      /\ Entry.snapshot = run.now /\ run.now \in DOMAIN snapshots
      /\ \A i \in 1..Len(lines) : lines'[i] = lines[i] /\ lines[i] \in WatchLine /\ lines[i] # TornText
  BY <1>1, EntryKeeps
<1>4. EndingTrue'
  BY <1>1, <1>3 DEF EndingTrue, EndingOf
<1>5. RunTrue'
  <2>1. /\ run'.step = "push" /\ run'.now = run.now
        /\ DOMAIN run' = {"step", "now", "prev", "first", "before"}
    BY <1>1, <1>2
  <2>2. Len(lines') > 0 /\ lines'[Len(lines')] # TornText /\ lines'[Len(lines')].snapshot = run'.now
    BY <1>3, <2>1
  <2>3. QED
    BY <1>2, <2>1, <2>2 DEF RunTrue
<1>6. SaidTrue'
  <2> DEFINE words == summarize(run.first, run.before, run.now)
  <2>1. run.before # <<>> =>
          /\ Len(lines) \in 1..Len(lines) /\ run.before[1] = lines[Len(lines)].snapshot
          /\ run.before[1] \in Projections
    BY <1>2, <1>3 DEF WatchLine
  <2>2. /\ words \in {"first", "no change", "changes", "cannot compare"}
        /\ words \in {"no change", "changes"} =>
             /\ ~run.first /\ run.before # <<>>
             /\ words = "no change" <=> run.before[1] = run.now
    <3>1. run.first \in BOOLEAN
      BY <1>2
    <3>2. QED
      BY <1>2, <2>1, <3>1, SummaryIsTrue
  <2> HIDE DEF words
  <2>3. said'.words = words /\ said'.now = run.now /\ said'.at = Len(lines) + 1
    BY <1>1 DEF words
  <2>4. ASSUME words \in {"no change", "changes"}
        PROVE  /\ said'.at \in 2..Len(lines') /\ said'.at - 1 = Len(lines)
               /\ lines'[Len(lines)] = lines[Len(lines)] /\ lines[Len(lines)] # TornText
               /\ words = "no change" <=> lines[Len(lines)].snapshot = run.now
    <3>1. Len(lines) \in 1..Len(lines) /\ run.before[1] = lines[Len(lines)].snapshot
      BY <2>1, <2>2, <2>4
    <3>2. said'.at \in 2..Len(lines') /\ said'.at - 1 = Len(lines)
      BY <1>3, <2>3, <3>1
    <3>3. lines'[Len(lines)] = lines[Len(lines)] /\ lines[Len(lines)] # TornText
      BY <1>3, <3>1
    <3>4. words = "no change" <=> lines[Len(lines)].snapshot = run.now
      BY <2>2, <2>4, <3>1
    <3>5. QED
      BY <3>2, <3>3, <3>4
  <2>5. QED
    BY <2>2, <2>3, <2>4 DEF SaidTrue
<1>7. MishapsCounted'
  <2>1. ASSUME mishaps = 0, NEW i \in 1..Len(lines') PROVE lines'[i].snapshot \in DOMAIN snapshots
    <3>1. CASE i = Len(lines')
      BY <1>3, <3>1
    <3>2. CASE i \in 1..Len(lines)
      BY <1>3, <2>1, <3>2 DEF IInv, MishapsCounted
    <3>3. QED
      BY <1>3, <3>1, <3>2
  <2>2. ASSUME mishaps = 0 PROVE ~Unreadable' /\ ending' = "whole"
    <3>1. ending' = "whole"
      BY <1>1, <2>2 DEF IInv, MishapsCounted, EndingOf
    <3>2. \A i \in 1..Len(lines') : lines'[i] # TornText
      BY <1>3
    <3>3. DOMAIN lines' = 1..Len(lines')
      BY <1>3 DEF LinesTrue
    <3>4. QED
      BY <3>1, <3>2, <3>3 DEF Unreadable
  <2>3. QED
    BY <1>1, <2>1, <2>2 DEF IInv, MishapsCounted
<1>8. QED
  BY <1>3, <1>4, <1>5, <1>6, <1>7 DEF IInv

(* A push, or the end of a run: what is pushed is the line just written. *)
LEMMA PushKeeps ==
  ASSUME IInv, Push \/ Kill
  PROVE  IInv'
<1>1. run' = NoRun /\ UNCHANGED <<lines, ending, snapshots, said, pruned>>
  BY DEF Push, Kill
<1>2. mishaps' \in 0..MaxMishaps /\ (mishaps' = 0 => mishaps = 0)
  BY WatchAssumption DEF Push, Kill, Mishap, IInv, MishapsCounted
<1>3. ASSUME NEW p \in pushes' \ pushes
      PROVE  p \in Projections /\ \E i \in 1..Len(lines) : lines[i] # TornText /\ lines[i].snapshot = p
  <2>1. Push /\ p = run.now
    BY <1>3 DEF Push, Kill
  <2>2. /\ run.now \in Projections /\ Len(lines) > 0
        /\ lines[Len(lines)] # TornText /\ lines[Len(lines)].snapshot = run.now
    BY <2>1 DEF Push, IInv, RunTrue
  <2>3. Len(lines) \in 1..Len(lines)
    BY <2>2 DEF IInv, LinesTrue
  <2>4. QED
    BY <2>1, <2>2, <2>3
<1>4. LinesTrue' /\ EndingTrue' /\ SnapshotsTrue' /\ SaidTrue' /\ MishapsCounted'
  BY <1>1, <1>2, <1>3, ArchiveStays
<1>5. QED
  BY <1>1, <1>4, IdleIsTrue DEF IInv

(* A kill while a snapshot is written leaves it torn, and no line for it. *)
LEMMA KillInSnapshotKeeps ==
  ASSUME IInv, KillInSnapshot
  PROVE  IInv'
<1>1. /\ run.step = "snapshot" /\ run' = NoRun /\ snapshots' = Put(snapshots, run.now, TornText)
      /\ UNCHANGED <<lines, ending, said, pushes, pruned>>
      /\ mishaps < MaxMishaps /\ mishaps' = mishaps + 1
  BY DEF KillInSnapshot, Mishap
<1>2. run.now \in Projections
  BY <1>1 DEF IInv, RunTrue
<1>3. LinesTrue' /\ EndingTrue' /\ SnapshotsTrue' /\ SaidTrue'
  BY <1>1, <1>2, PutKeeps
<1>4. mishaps' \in 0..MaxMishaps /\ mishaps' # 0
  BY <1>1, WatchAssumption DEF IInv, MishapsCounted
<1>5. MishapsCounted'
  BY <1>4 DEF MishapsCounted
<1>6. QED
  BY <1>1, <1>3, <1>5, IdleIsTrue DEF IInv

(* A kill while a line is appended leaves it torn, as the last one. *)
LEMMA KillInLineKeeps ==
  ASSUME IInv, KillInLine
  PROVE  IInv'
<1>1. /\ run.step = "line" /\ run' = NoRun /\ lines' = Append(lines, TornText)
      /\ UNCHANGED <<ending, snapshots, said, pushes, pruned>>
      /\ mishaps < MaxMishaps /\ mishaps' = mishaps + 1
  BY DEF KillInLine, Mishap
<1>2. ~Unreadable /\ LinesTrue
  BY <1>1 DEF IInv, RunTrue
<1>3. /\ LinesTrue'
      /\ Len(lines) \in Nat /\ Len(lines') = Len(lines) + 1
      /\ lines'[Len(lines')] = TornText
      /\ \A i \in 1..Len(lines) : lines'[i] = lines[i] /\ lines[i] \in WatchLine /\ lines[i] # TornText
  BY <1>1, <1>2, AppendKeeps
<1>4. \A i \in 1..Len(lines') : lines'[i] # TornText => i \in 1..Len(lines)
  BY <1>3
<1>5. SnapshotsTrue'
  <2>1. ASSUME NEW i \in 1..Len(lines'), lines'[i] # TornText
        PROVE  lines'[i].snapshot \in DOMAIN snapshots \cup pruned
    BY <1>3, <1>4, <2>1 DEF IInv, SnapshotsTrue
  <2>2. ASSUME NEW p \in pushes PROVE \E i \in 1..Len(lines') : lines'[i] # TornText /\ lines'[i].snapshot = p
    <3>1. PICK i \in 1..Len(lines) : lines[i] # TornText /\ lines[i].snapshot = p
      BY DEF IInv, SnapshotsTrue
    <3>2. i \in 1..Len(lines') /\ lines'[i] = lines[i]
      BY <1>3
    <3>3. QED
      BY <3>1, <3>2
  <2>3. QED
    BY <1>1, <2>1, <2>2 DEF IInv, SnapshotsTrue
<1>6. SaidTrue'
  <2>1. said.at \in 2..Len(lines) => said.at \in 2..Len(lines') /\ lines'[said.at - 1] = lines[said.at - 1]
    BY <1>3
  <2>2. QED
    BY <1>1, <2>1 DEF IInv, SaidTrue
<1>7. mishaps' \in 0..MaxMishaps /\ mishaps' # 0
  BY <1>1, WatchAssumption DEF IInv, MishapsCounted
<1>8. MishapsCounted'
  BY <1>7 DEF MishapsCounted
<1>9. EndingTrue'
  BY <1>1, <1>3 DEF IInv, EndingTrue
<1>10. QED
  BY <1>1, <1>3, <1>5, <1>6, <1>8, <1>9, IdleIsTrue DEF IInv

(* A kill before the newline leaves the line, and no claim of the run. *)
LEMMA KillBeforeNewlineKeeps ==
  ASSUME IInv, KillBeforeNewline
  PROVE  IInv'
<1>1. /\ run.step = "line" /\ run' = NoRun /\ lines' = Append(lines, Entry) /\ ending' = EndingOf("unended")
      /\ UNCHANGED <<snapshots, said, pushes, pruned>>
      /\ mishaps < MaxMishaps /\ mishaps' = mishaps + 1
  BY DEF KillBeforeNewline, Mishap
<1>2. /\ LinesTrue' /\ SnapshotsTrue'
      /\ Len(lines) \in Nat /\ Len(lines') = Len(lines) + 1
      /\ \A i \in 1..Len(lines) : lines'[i] = lines[i]
  BY <1>1, EntryKeeps
<1>3. EndingTrue'
  BY <1>1, <1>2 DEF EndingTrue, EndingOf
<1>4. SaidTrue'
  <2>1. said.at \in 2..Len(lines) => said.at \in 2..Len(lines') /\ lines'[said.at - 1] = lines[said.at - 1]
    BY <1>2
  <2>2. QED
    BY <1>1, <2>1 DEF IInv, SaidTrue
<1>5. mishaps' \in 0..MaxMishaps /\ mishaps' # 0
  BY <1>1, WatchAssumption DEF IInv, MishapsCounted
<1>6. MishapsCounted'
  BY <1>5 DEF MishapsCounted
<1>7. QED
  BY <1>1, <1>2, <1>3, <1>4, <1>6, IdleIsTrue DEF IInv

(* A pruned snapshot leaves the line that names it. *)
LEMMA PruneSnapshotKeeps ==
  ASSUME IInv, NEW name \in DOMAIN snapshots, PruneSnapshot(name)
  PROVE  IInv'
<1>1. /\ run.step = "idle" /\ pruned' = pruned \cup {name}
      /\ snapshots' = [k \in DOMAIN snapshots \ {name} |-> snapshots[k]]
      /\ UNCHANGED <<lines, ending, run, said, pushes>>
      /\ mishaps < MaxMishaps /\ mishaps' = mishaps + 1
  BY DEF PruneSnapshot, Mishap
<1>2. LinesTrue' /\ EndingTrue' /\ (Unreadable' <=> Unreadable)
  BY <1>1, LinesStay DEF IInv
<1>3. SnapshotsTrue'
  BY <1>1 DEF IInv, SnapshotsTrue
<1>4. SaidTrue'
  BY <1>1 DEF IInv, SaidTrue
<1>5. RunTrue'
  BY <1>1 DEF IInv, RunTrue
<1>6. mishaps' \in 0..MaxMishaps /\ mishaps' # 0
  BY <1>1, WatchAssumption DEF IInv, MishapsCounted
<1>7. MishapsCounted'
  BY <1>6 DEF MishapsCounted
<1>8. QED
  BY <1>2, <1>3, <1>4, <1>5, <1>7 DEF IInv

(* The invariant holds in every reachable state. *)
LEMMA SpecIInv == WatchSpec => []IInv
<1>1. ASSUME IInv, UNCHANGED watchVars PROVE IInv'
  <2>1. UNCHANGED <<lines, ending, snapshots, run, said, pushes, pruned, mishaps>>
    BY <1>1 DEF watchVars
  <2>2. LinesTrue' /\ EndingTrue' /\ SnapshotsTrue' /\ SaidTrue' /\ MishapsCounted'
    BY <1>1, <2>1, ArchiveStays DEF IInv, MishapsCounted
  <2>3. RunTrue'
    BY <1>1, <2>1, LinesStay DEF IInv, RunTrue
  <2>4. QED
    BY <2>2, <2>3 DEF IInv
<1>2. IInv /\ [WatchNext]_watchVars => IInv'
  BY <1>1, BeginKeeps, WriteSnapshotKeeps, AppendLineKeeps, PushKeeps, KillInSnapshotKeeps, KillInLineKeeps,
     KillBeforeNewlineKeeps, PruneSnapshotKeeps DEF WatchNext
<1>3. QED
  BY <1>2, InitIInv, PTL DEF WatchSpec

(* For any lists, and any number of captures, kills and prunings, the      *)
(* archive of agentgate watch is true (watch.mjs): the chain of its lines  *)
(* holds and verify says "pruned" only of what was pruned, "no change" is  *)
(* said of a list that is the one archived just before, and of no other,   *)
(* and what was pushed to a chat has its line.                             *)
THEOREM ArchiveIsTrue == WatchSpec => []WatchIsTrue
<1>1. ASSUME IInv PROVE lines \in Seq(WatchLine \cup {TornText}) /\ DOMAIN lines = 1..Len(lines)
  BY <1>1 DEF IInv, LinesTrue
<1>2. ASSUME IInv PROVE WatchTypeOK
  <2>1. ASSUME NEW i \in DOMAIN lines PROVE lines[i] = TornText \/ lines[i].snapshot \in Projections
    BY <1>1, <1>2 DEF WatchLine
  <2>2. ending # "whole" => lines # <<>>
    BY <1>1, <1>2 DEF IInv, EndingTrue
  <2>3. QED
    BY <1>2, <2>1, <2>2 DEF IInv, LinesTrue, EndingTrue, SnapshotsTrue, RunTrue, SaidTrue, MishapsCounted, WatchTypeOK
<1>3. ASSUME IInv PROVE WatchChainHolds
  <2>1. ASSUME ~Unreadable, NEW i \in DOMAIN lines PROVE lines[i].prev = PrevAt(i)
    BY <1>1, <1>3, <2>1 DEF IInv, LinesTrue, Unreadable
  <2>2. ~Unreadable => "chain" \notin verifyWatch
    BY <2>1 DEF verifyWatch, LineProblems
  <2>3. ASSUME mishaps = 0 PROVE verifyWatch = {}
    <3>1. ~Unreadable
      BY <1>3, <2>3 DEF IInv, MishapsCounted
    <3>2. ASSUME NEW i \in DOMAIN lines PROVE LineProblems(i) = {}
      <4>1. lines[i].snapshot \in DOMAIN snapshots
        BY <1>1, <1>3, <2>3 DEF IInv, MishapsCounted
      <4>2. snapshots[lines[i].snapshot] = lines[i].snapshot
        BY <1>3, <2>3, <4>1 DEF IInv, MishapsCounted
      <4>3. QED
        BY <2>1, <3>1, <4>1, <4>2 DEF LineProblems
    <3>3. QED
      BY <3>1, <3>2 DEF verifyWatch
  <2>4. QED
    BY <2>2, <2>3 DEF WatchChainHolds
<1>4. ASSUME IInv PROVE LineHasItsSnapshot /\ PushedIsArchived
  BY <1>1, <1>4 DEF IInv, SnapshotsTrue, LineHasItsSnapshot, PushedIsArchived
<1>5. ASSUME IInv PROVE NoChangeIsTrue
  <2>1. \A i \in 2..Len(lines) : i > 1
    BY <1>1, <1>5
  <2>2. QED
    BY <1>5, <2>1 DEF IInv, SaidTrue, NoChangeIsTrue
<1>6. IInv => WatchIsTrue
  BY <1>2, <1>3, <1>4, <1>5 DEF WatchIsTrue
<1>7. QED
  BY <1>6, SpecIInv, PTL

--------------------------------------------------------------------------------
(* The evidence pack.                                                      *)

(* What a run has written when it comes to a file. *)
Before(step) ==
    CASE step = "answers.aicaiq.md" -> {}
      [] step = "pack.html" -> {"answers.aicaiq.md"}
      [] step = "pack.json" -> {"answers.aicaiq.md", "pack.html"}
      [] step = "manifest.txt" -> ContentFiles
      [] step = "manifest.sha256" -> ContentFiles \cup {"manifest.txt"}

DirectoryTyped ==
    /\ DOMAIN files = Names
    /\ task \in [step : Names \cup {"idle"}, input : PackInputs \cup {Gone}]
    /\ packExit \in -1..3 /\ verified \in -1..2 /\ intact \in BOOLEAN
    /\ damage \in 0..MaxDamage /\ packs \in 0..MaxPacks

(* A run finds what it has written, of its own input, and nothing else. *)
RunFindsItsOwn ==
    task.step # "idle" =>
        /\ task.input \in PackInputs
        /\ \A f \in Names \ Before(task.step) : files[f] = Gone
        /\ \A f \in ContentFiles \cap Before(task.step) : files[f] = Content(task.input, f)
        /\ "manifest.txt" \in Before(task.step) => files["manifest.txt"] = Whole(task.input)

(* A manifest that is whole was written by one run, of one input. *)
ManifestIsOfOneRun ==
    \/ files["manifest.txt"] \in {Gone, Half, Changed}
    \/ \E given \in PackInputs : files["manifest.txt"] = Whole(given)

(* A pack that nothing happened to is whole and sealed. *)
IntactIsWhole ==
    intact =>
        /\ task.step = "idle" /\ verified \in {-1, 0}
        /\ \E given \in PackInputs :
              /\ \A f \in ContentFiles : files[f] = Content(given, f)
              /\ files["manifest.txt"] = Whole(given) /\ files["manifest.sha256"] = Whole(given)

ExitIsOfItsInput == packExit = 0 => packFor \in PackInputs /\ PackCode(packFor) = 0

PackInv ==
    DirectoryTyped /\ RunFindsItsOwn /\ ManifestIsOfOneRun /\ IntactIsWhole /\ VerifiedIsWhole /\ ExitIsOfItsInput

(* What a step writes is not there before, and is there after. *)
LEMMA AfterIsLater ==
  ASSUME NEW step \in Names \ {"manifest.sha256"}
  PROVE  /\ After(step) \in Names /\ Before(After(step)) = Before(step) \cup {step}
         /\ step \notin Before(step)
BY DEF After, Before, Names, ContentFiles

LEMMA PackInitInv == PackInit => PackInv
<1> SUFFICES ASSUME PackInit PROVE PackInv
  OBVIOUS
<1>1. /\ files = [f \in Names |-> Gone] /\ task = [step |-> "idle", input |-> Gone] /\ packExit = -1
      /\ verified = -1 /\ intact = FALSE /\ damage = 0 /\ packs = 0
  BY DEF PackInit, Idle
<1>2. DirectoryTyped
  <2>1. DOMAIN files = Names
    BY <1>1
  <2>2. task \in [step : Names \cup {"idle"}, input : PackInputs \cup {Gone}]
    BY <1>1
  <2>3. packExit \in -1..3 /\ verified \in -1..2 /\ intact \in BOOLEAN
    <3>1. intact \in BOOLEAN
      BY <1>1, Zenon
    <3>2. packExit = -1 /\ verified = -1
      BY <1>1, Zenon
    <3>3. packExit \in -1..3 /\ verified \in -1..2
      BY ONLY <3>2
    <3>4. QED
      BY <3>1, <3>3, Zenon
  <2>4. damage \in 0..MaxDamage /\ packs \in 0..MaxPacks
    BY <1>1, PackAssumption
  <2>5. QED
    BY <2>1, <2>2, <2>3, <2>4 DEF DirectoryTyped
<1>3. "manifest.txt" \in Names
  BY DEF Names
<1>4. ManifestIsOfOneRun
  BY <1>1, <1>3 DEF ManifestIsOfOneRun
<1>5. RunFindsItsOwn /\ IntactIsWhole /\ VerifiedIsWhole /\ ExitIsOfItsInput
  BY <1>1 DEF RunFindsItsOwn, IntactIsWhole, VerifiedIsWhole, ExitIsOfItsInput
<1>6. QED
  BY <1>2, <1>4, <1>5 DEF PackInv

(* A run begins in an empty directory or not at all. *)
LEMMA BeginPackKeeps ==
  ASSUME PackInv, NEW given \in PackInputs, BeginPack(given)
  PROVE  PackInv'
<1>1. /\ task.step = "idle" /\ packs' = packs + 1 /\ packs < MaxPacks
      /\ UNCHANGED <<files, intact, damage, verified>>
  BY DEF BeginPack, Stays
<1>2. CASE \E f \in Names : Written(f)
  <2>1. packExit' = 3 /\ task' = task
    BY <1>2 DEF BeginPack
  <2>2. DirectoryTyped'
    BY <1>1, <2>1, PackAssumption DEF PackInv, DirectoryTyped
  <2>3. ManifestIsOfOneRun' /\ IntactIsWhole' /\ VerifiedIsWhole' /\ RunFindsItsOwn' /\ ExitIsOfItsInput'
    BY <1>1, <2>1 DEF PackInv, RunFindsItsOwn, ManifestIsOfOneRun, IntactIsWhole, VerifiedIsWhole, ExitIsOfItsInput
  <2>4. QED
    BY <2>2, <2>3 DEF PackInv
<1>3. CASE ~\E f \in Names : Written(f)
  <2>1. task' = [step |-> "answers.aicaiq.md", input |-> given] /\ packExit' = packExit /\ packFor' = packFor
    BY <1>3 DEF BeginPack, Stays
  <2>2. \A f \in Names : files[f] = Gone
    BY <1>3 DEF Written
  <2>3. DirectoryTyped'
    BY <1>1, <2>1, PackAssumption DEF PackInv, DirectoryTyped, Names, ContentFiles
  <2>4. RunFindsItsOwn'
    <3>1. Before(task'.step) = {} /\ task'.input \in PackInputs
      BY <2>1 DEF Before
    <3>2. QED
      BY <1>1, <2>2, <3>1 DEF RunFindsItsOwn
  <2>5. ~intact
    <3>1. "manifest.txt" \in Names
      BY DEF Names
    <3>2. QED
      BY <2>2, <3>1, ManifestAssumption DEF PackInv, IntactIsWhole
  <2>6. ManifestIsOfOneRun' /\ IntactIsWhole' /\ VerifiedIsWhole' /\ ExitIsOfItsInput'
    BY <1>1, <2>1, <2>5 DEF PackInv, ManifestIsOfOneRun, IntactIsWhole, VerifiedIsWhole, ExitIsOfItsInput
  <2>7. QED
    BY <2>3, <2>4, <2>6 DEF PackInv
<1>4. QED
  BY <1>2, <1>3

(* The manifest a run writes lists its own three files. *)
LEMMA ManifestIsWhole ==
  ASSUME PackInv, task.step \in {"manifest.txt", "manifest.sha256"}
  PROVE  Text(task.step) = Whole(task.input)
<1>1. \A f \in ContentFiles : files[f] = Content(task.input, f)
  BY DEF PackInv, RunFindsItsOwn, Before, ContentFiles
<1>2. CASE task.step = "manifest.txt"
  BY <1>1, <1>2 DEF Text, Whole, ContentFiles
<1>3. CASE task.step = "manifest.sha256"
  <2>1. "manifest.txt" \in Before(task.step)
    BY <1>3 DEF Before
  <2>2. Text(task.step) = files["manifest.txt"]
    BY <1>3 DEF Text, ContentFiles
  <2>3. QED
    BY <1>3, <2>1, <2>2 DEF PackInv, RunFindsItsOwn
<1>4. QED
  BY <1>2, <1>3

LEMMA WriteFileKeeps ==
  ASSUME PackInv, WriteFile
  PROVE  PackInv'
<1> DEFINE step == task.step
<1>1. /\ step \in Names \ {"manifest.sha256"} /\ files' = [files EXCEPT ![step] = Text(step)]
      /\ task' = [task EXCEPT !.step = After(step)] /\ verified' = -1
      /\ UNCHANGED <<packExit, packFor, intact, damage, packs>>
  BY DEF WriteFile
<1>2. /\ After(step) \in Names /\ Before(After(step)) = Before(step) \cup {step} /\ step \notin Before(step)
  BY <1>1, AfterIsLater
<1>3. /\ DirectoryTyped /\ task.input \in PackInputs /\ step # "idle"
      /\ \A f \in Names \ Before(step) : files[f] = Gone
      /\ \A f \in ContentFiles \cap Before(step) : files[f] = Content(task.input, f)
      /\ "manifest.txt" \in Before(step) => files["manifest.txt"] = Whole(task.input)
  BY <1>1 DEF PackInv, RunFindsItsOwn, Names, ContentFiles
<1>4. task' = [step |-> After(step), input |-> task.input]
  BY <1>1, <1>3 DEF DirectoryTyped
<1>5. /\ DOMAIN files' = Names
      /\ files'[step] = Text(step) /\ \A f \in Names \ {step} : files'[f] = files[f]
  BY <1>1, <1>3 DEF DirectoryTyped
<1>6. DirectoryTyped'
  BY <1>1, <1>2, <1>3, <1>4, <1>5 DEF DirectoryTyped
<1>7. ContentFiles \subseteq Names /\ "manifest.txt" \in Names /\ "manifest.txt" \notin ContentFiles
  BY DEF Names, ContentFiles
<1>8. step \in ContentFiles => Text(step) = Content(task.input, step)
  BY DEF Text
<1>9. step = "manifest.txt" => Text(step) = Whole(task.input)
  BY ManifestIsWhole
<1>10. RunFindsItsOwn'
  <2>1. task'.input = task.input /\ Before(task'.step) = Before(step) \cup {step}
    BY <1>2, <1>4
  <2>2. \A f \in Names \ (Before(step) \cup {step}) : files'[f] = Gone
    BY <1>3, <1>5
  <2>3. \A f \in ContentFiles \cap (Before(step) \cup {step}) : files'[f] = Content(task.input, f)
    BY <1>3, <1>5, <1>7, <1>8
  <2>4. "manifest.txt" \in Before(step) \cup {step} => files'["manifest.txt"] = Whole(task.input)
    BY <1>2, <1>3, <1>5, <1>7, <1>9
  <2>5. QED
    BY <1>3, <2>1, <2>2, <2>3, <2>4 DEF RunFindsItsOwn
<1>11. ManifestIsOfOneRun'
  <2>1. CASE step = "manifest.txt"
    BY <1>3, <1>5, <1>9, <2>1 DEF ManifestIsOfOneRun
  <2>2. CASE step # "manifest.txt"
    <3>1. files'["manifest.txt"] = files["manifest.txt"]
      BY <1>5, <1>7, <2>2
    <3>2. QED
      BY <3>1 DEF PackInv, ManifestIsOfOneRun
  <2>3. QED
    BY <2>1, <2>2
<1>12. IntactIsWhole' /\ VerifiedIsWhole' /\ ExitIsOfItsInput'
  BY <1>1, <1>3 DEF PackInv, IntactIsWhole, VerifiedIsWhole, ExitIsOfItsInput
<1>13. QED
  BY <1>6, <1>10, <1>11, <1>12 DEF PackInv

(* The seal is written last, and makes the pack. *)
LEMMA WriteSealKeeps ==
  ASSUME PackInv, WriteSeal
  PROVE  PackInv'
<1>1. /\ task.step = "manifest.sha256" /\ files' = [files EXCEPT !["manifest.sha256"] = Whole(task.input)]
      /\ packExit' = PackCode(task.input) /\ packFor' = task.input /\ task' = [step |-> "idle", input |-> Gone]
      /\ intact' = TRUE /\ verified' = -1 /\ UNCHANGED <<damage, packs>>
  BY ManifestIsWhole DEF WriteSeal, Idle
<1>2. Before("manifest.sha256") = ContentFiles \cup {"manifest.txt"}
  BY DEF Before
<1>3. /\ DirectoryTyped /\ task.input \in PackInputs
      /\ \A f \in ContentFiles : files[f] = Content(task.input, f)
      /\ files["manifest.txt"] = Whole(task.input)
  BY <1>1, <1>2 DEF PackInv, RunFindsItsOwn
<1>4. /\ ContentFiles \subseteq Names /\ {"manifest.txt", "manifest.sha256"} \subseteq Names
      /\ {"manifest.txt", "manifest.sha256"} \cap ContentFiles = {}
  BY DEF Names, ContentFiles
<1>5. /\ DOMAIN files' = Names
      /\ files'["manifest.sha256"] = Whole(task.input)
      /\ files'["manifest.txt"] = Whole(task.input)
      /\ \A f \in ContentFiles : files'[f] = Content(task.input, f)
  BY <1>1, <1>3, <1>4 DEF DirectoryTyped
<1>6. PackCode(task.input) \in {0, 1, 2}
  BY DEF PackCode
<1>7. DirectoryTyped'
  BY <1>1, <1>3, <1>5, <1>6 DEF DirectoryTyped
<1>8. RunFindsItsOwn' /\ VerifiedIsWhole'
  BY <1>1 DEF RunFindsItsOwn, VerifiedIsWhole
<1>9. ManifestIsOfOneRun'
  BY <1>3, <1>5 DEF ManifestIsOfOneRun
<1>10. IntactIsWhole'
  BY <1>1, <1>3, <1>5 DEF IntactIsWhole
<1>11. ExitIsOfItsInput'
  BY <1>1, <1>3 DEF ExitIsOfItsInput
<1>12. QED
  BY <1>7, <1>8, <1>9, <1>10, <1>11 DEF PackInv

(* A kill leaves a file that was written, is half there or is not there:   *)
(* a manifest of the run's own files, or no manifest.                      *)
LEMMA KillPackKeeps ==
  ASSUME PackInv, KillPack
  PROVE  PackInv'
<1> DEFINE step == task.step
<1>1. PICK left \in {files[step], Half, Text(step)} :
         /\ files' = [files EXCEPT ![step] = left] /\ task' = [step |-> "idle", input |-> Gone] /\ step # "idle"
         /\ damage < MaxDamage /\ damage' = damage + 1 /\ verified' = -1
         /\ UNCHANGED <<packExit, packFor, intact, packs>>
  BY DEF KillPack, Damaged, Idle
<1>2. DirectoryTyped /\ task.input \in PackInputs /\ step \in Names
  BY <1>1 DEF PackInv, RunFindsItsOwn, DirectoryTyped
<1>3. /\ DOMAIN files' = Names
      /\ files'[step] = left /\ \A f \in Names \ {step} : files'[f] = files[f]
  BY <1>1, <1>2 DEF DirectoryTyped
<1>4. DirectoryTyped'
  BY <1>1, <1>2, <1>3, PackAssumption DEF DirectoryTyped
<1>5. ManifestIsOfOneRun'
  <2>1. CASE step = "manifest.txt"
    <3>1. Text(step) = Whole(task.input)
      BY <2>1, ManifestIsWhole
    <3>2. files'["manifest.txt"] = files["manifest.txt"] \/ files'["manifest.txt"] = Half
            \/ files'["manifest.txt"] = Whole(task.input)
      BY <1>3, <2>1, <3>1
    <3>3. QED
      BY <1>2, <3>2 DEF PackInv, ManifestIsOfOneRun
  <2>2. CASE step # "manifest.txt"
    <3>1. files'["manifest.txt"] = files["manifest.txt"]
      BY <1>3, <2>2 DEF Names
    <3>2. QED
      BY <3>1 DEF PackInv, ManifestIsOfOneRun
  <2>3. QED
    BY <2>1, <2>2
<1>6. RunFindsItsOwn' /\ IntactIsWhole' /\ VerifiedIsWhole' /\ ExitIsOfItsInput'
  BY <1>1 DEF PackInv, RunFindsItsOwn, IntactIsWhole, VerifiedIsWhole, ExitIsOfItsInput
<1>7. QED
  BY <1>4, <1>5, <1>6 DEF PackInv

LEMMA LoseFileKeeps ==
  ASSUME PackInv, NEW f \in Names, NEW left \in {Gone, Changed}, LoseFile(f, left)
  PROVE  PackInv'
<1>1. /\ files' = [files EXCEPT ![f] = left] /\ task' = task /\ task.step = "idle" /\ intact' = FALSE
      /\ damage < MaxDamage /\ damage' = damage + 1 /\ verified' = -1
      /\ UNCHANGED <<packExit, packFor, packs>>
  BY DEF LoseFile, Damaged
<1>2. /\ DOMAIN files' = Names
      /\ files'[f] = left /\ \A g \in Names \ {f} : files'[g] = files[g]
  BY <1>1 DEF PackInv, DirectoryTyped
<1>3. DirectoryTyped'
  <2>1. DirectoryTyped /\ MaxDamage \in Nat
    BY PackAssumption DEF PackInv
  <2>2. damage' \in 0..MaxDamage /\ verified' \in -1..2
    BY <1>1, <2>1 DEF DirectoryTyped
  <2>3. QED
    BY <1>1, <1>2, <2>1, <2>2 DEF DirectoryTyped
<1>4. ManifestIsOfOneRun'
  <2>1. files'["manifest.txt"] = files["manifest.txt"] \/ files'["manifest.txt"] \in {Gone, Changed}
    BY <1>2 DEF Names
  <2>2. QED
    BY <2>1 DEF PackInv, ManifestIsOfOneRun
<1>5. RunFindsItsOwn' /\ IntactIsWhole' /\ VerifiedIsWhole' /\ ExitIsOfItsInput'
  BY <1>1 DEF PackInv, RunFindsItsOwn, IntactIsWhole, VerifiedIsWhole, ExitIsOfItsInput
<1>6. QED
  BY <1>3, <1>4, <1>5 DEF PackInv

LEMMA EmptyDirectoryKeeps ==
  ASSUME PackInv, EmptyDirectory
  PROVE  PackInv'
<1>1. /\ files' = [f \in Names |-> Gone] /\ task' = task /\ task.step = "idle" /\ intact' = FALSE /\ verified' = -1
      /\ UNCHANGED <<packExit, packFor, damage, packs>>
  BY DEF EmptyDirectory
<1>2. DirectoryTyped'
  <2>1. DOMAIN files' = Names
    BY <1>1
  <2>2. intact' \in BOOLEAN /\ UNCHANGED <<task, packExit, damage, packs>>
    BY <1>1, Zenon
  <2>3. verified' = -1
    BY <1>1, Zenon
  <2>4. verified' \in -1..2
    BY ONLY <2>3
  <2>5. QED
    BY <2>1, <2>2, <2>4, Zenon DEF PackInv, DirectoryTyped
<1>3. ManifestIsOfOneRun'
  BY <1>1 DEF ManifestIsOfOneRun, Names
<1>4. RunFindsItsOwn' /\ IntactIsWhole' /\ VerifiedIsWhole' /\ ExitIsOfItsInput'
  BY <1>1 DEF PackInv, RunFindsItsOwn, IntactIsWhole, VerifiedIsWhole, ExitIsOfItsInput
<1>5. QED
  BY <1>2, <1>3, <1>4 DEF PackInv

(* What verifies has a seal over a manifest that is whole, and the files   *)
(* that it lists.                                                          *)
LEMMA VerifyPackKeeps ==
  ASSUME PackInv, VerifyPack
  PROVE  PackInv'
<1>1. PICK listed \in SUBSET {f \in ContentFiles : Written(f)} : verified' = verifyCode(listed)
  BY DEF VerifyPack
<1>2. task.step = "idle" /\ UNCHANGED <<files, task, packExit, packFor, intact, damage, packs>>
  BY DEF VerifyPack
<1>3. verified' \in {0, 1, 2}
  BY <1>1 DEF verifyCode
<1>4. ASSUME verified' = 0
      PROVE  /\ \E given \in PackInputs : \A f \in ContentFiles : files[f] = Content(given, f)
             /\ files["manifest.txt"] = [f \in ContentFiles |-> files[f]]
  <2>1. /\ files["manifest.txt"] # Gone /\ files["manifest.sha256"] # Gone
        /\ ~SealProblem /\ ~HashProblem(listed)
    BY <1>1, <1>4 DEF verifyCode, Written
  <2>2. files["manifest.txt"] \notin {Gone, Half, Changed}
    BY <2>1 DEF SealProblem, Written
  <2>3. PICK given \in PackInputs : files["manifest.txt"] = Whole(given)
    BY <2>2 DEF PackInv, ManifestIsOfOneRun
  <2>4. Listed(listed) = Whole(given)
    BY <2>2, <2>3 DEF Listed
  <2>5. \A f \in ContentFiles : files[f] = Content(given, f)
    BY <2>1, <2>4 DEF HashProblem, Whole
  <2>6. files["manifest.txt"] = [f \in ContentFiles |-> files[f]]
    BY <2>3, <2>5 DEF Whole
  <2>7. QED
    BY <2>5, <2>6
<1>5. ASSUME intact PROVE verified' = 0
  <2>1. PICK given \in PackInputs :
           /\ \A f \in ContentFiles : files[f] = Content(given, f)
           /\ files["manifest.txt"] = Whole(given) /\ files["manifest.sha256"] = Whole(given)
    BY <1>5 DEF PackInv, IntactIsWhole
  <2>2. Whole(given) \notin {Gone, Half, Changed}
    BY ManifestAssumption
  <2>3. Listed(listed) = Whole(given)
    BY <2>1, <2>2 DEF Listed
  <2>4. DOMAIN Listed(listed) = ContentFiles /\ ContentFiles # {}
    BY <2>3 DEF Whole, ContentFiles
  <2>5. ~HashProblem(listed)
    BY <2>1, <2>3 DEF HashProblem, Whole
  <2>6. ~SealProblem
    BY <2>1, <2>2 DEF SealProblem
  <2>7. Written("manifest.txt") /\ Written("manifest.sha256")
    BY <2>1, <2>2 DEF Written
  <2>8. QED
    BY <1>1, <2>4, <2>5, <2>6, <2>7 DEF verifyCode
<1>6. DirectoryTyped'
  BY <1>2, <1>3 DEF PackInv, DirectoryTyped
<1>7. VerifiedIsWhole'
  BY <1>2, <1>4 DEF VerifiedIsWhole
<1>8. IntactIsWhole'
  BY <1>2, <1>5 DEF PackInv, IntactIsWhole
<1>9. RunFindsItsOwn' /\ ManifestIsOfOneRun' /\ ExitIsOfItsInput'
  BY <1>2 DEF PackInv, RunFindsItsOwn, ManifestIsOfOneRun, ExitIsOfItsInput
<1>10. QED
  BY <1>6, <1>7, <1>8, <1>9 DEF PackInv

LEMMA PackSpecInv == PackSpec => []PackInv
<1>1. PackInv /\ [PackNext]_packVars => PackInv'
  <2> SUFFICES ASSUME PackInv, [PackNext]_packVars PROVE PackInv'
    OBVIOUS
  <2>1. CASE \E given \in PackInputs : BeginPack(given)
    BY <2>1, BeginPackKeeps
  <2>2. CASE WriteFile
    BY <2>2, WriteFileKeeps
  <2>3. CASE WriteSeal
    BY <2>3, WriteSealKeeps
  <2>4. CASE KillPack
    BY <2>4, KillPackKeeps
  <2>5. CASE EmptyDirectory
    BY <2>5, EmptyDirectoryKeeps
  <2>6. CASE VerifyPack
    BY <2>6, VerifyPackKeeps
  <2>7. CASE \E f \in Names, left \in {Gone, Changed} : LoseFile(f, left)
    BY <2>7, LoseFileKeeps
  <2>8. CASE UNCHANGED packVars
    BY <2>8 DEF packVars, PackInv, DirectoryTyped, RunFindsItsOwn, ManifestIsOfOneRun, IntactIsWhole,
                VerifiedIsWhole, ExitIsOfItsInput
  <2>9. QED
    BY <2>1, <2>2, <2>3, <2>4, <2>5, <2>6, <2>7, <2>8 DEF PackNext
<1>2. QED
  BY <1>1, PackInitInv, PTL DEF PackSpec

(* Exit 0 is said of a list on which all that is ours was measured. *)
LEMMA ZeroWasMeasured ==
  ASSUME NEW given \in PackInputs, PackCode(given) = 0
  PROVE  /\ given.items # <<>>
         /\ \A i \in DOMAIN given.items :
               /\ given.items[i].selected /\ ~given.items[i].severe
               /\ \A q \in Questions : \A class \in q.classes : q.owner = "we" =>
                     IF class \in ItemClasses THEN HoldsForItem(class, given.items[i]) ELSE HoldsInContext(class, given)
<1>1. ~Severe(given) /\ \A q \in Questions : AnswerState(q, given) \notin {"partial", "unmeasured"}
  BY DEF PackCode
<1>2. ASSUME NEW q \in Questions, q.owner = "we", NEW class \in q.classes
      PROVE  Backing(class, given) # {} /\ Backing(class, given) = DOMAIN given.items
  <2> DEFINE states == {ClassState(c, given) : c \in q.classes}
  <2>1. states = {"measured"}
    BY <1>1, <1>2 DEF AnswerState
  <2>2. ClassState(class, given) \in states
    OBVIOUS
  <2>3. ClassState(class, given) = "measured"
    BY <2>1, <2>2
  <2>4. QED
    BY <2>3 DEF ClassState
<1>3. ASSUME NEW q \in Questions, q.owner = "we", NEW class \in q.classes, NEW i \in DOMAIN given.items
      PROVE  IF class \in ItemClasses THEN HoldsForItem(class, given.items[i])
             ELSE HoldsInContext(class, given) /\ given.items[i].selected
  <2>1. i \in Backing(class, given)
    BY <1>2, <1>3
  <2>2. QED
    BY <2>1 DEF Backing
<1>a. PICK q \in Questions : q.owner = "we" /\ q.classes \cap ({"tool-identity"} \cup ContextClasses) # {}
  BY FrameworkAssumption
<1>4. PICK class \in q.classes : q.owner = "we" /\ class \in {"tool-identity"} \cup ContextClasses
  BY <1>a
<1>5. given.items # <<>>
  <2>1. DOMAIN given.items # {}
    BY <1>2, <1>4
  <2>2. DOMAIN <<>> = {}
    OBVIOUS
  <2>3. QED
    BY <2>1, <2>2
<1>6. ASSUME NEW i \in DOMAIN given.items PROVE given.items[i].selected
  <2>1. CASE class = "tool-identity"
    <3>1. class \in ItemClasses
      BY <2>1 DEF ItemClasses
    <3>2. HoldsForItem(class, given.items[i])
      BY <1>3, <1>4, <3>1
    <3>3. QED
      BY <2>1, <3>2 DEF HoldsForItem
  <2>2. CASE class \in ContextClasses
    <3>1. class \notin ItemClasses
      BY <2>2 DEF ItemClasses, ContextClasses
    <3>2. QED
      BY <1>3, <1>4, <3>1
  <2>3. QED
    BY <1>4, <2>1, <2>2
<1>7. ASSUME NEW i \in DOMAIN given.items PROVE ~given.items[i].severe
  BY <1>1 DEF Severe
<1>8. QED
  BY <1>3, <1>5, <1>6, <1>7

(* No step of a run changes what is there: it writes where nothing is. *)
LEMMA RunOverwritesNothing ==
  ASSUME PackInv, PackNext
  PROVE  \A f \in Names : files[f] # Gone /\ files'[f] # files[f] =>
            damage' # damage \/ \A g \in Names : files'[g] = Gone
<1>1. CASE (\E given \in PackInputs : BeginPack(given)) \/ VerifyPack
  BY <1>1 DEF BeginPack, VerifyPack
<1>2. CASE WriteFile \/ WriteSeal
  <2>1. task.step \in Names /\ files' = [files EXCEPT ![task.step] = Text(task.step)]
    BY <1>2 DEF WriteFile, WriteSeal, Names
  <2>2. files[task.step] = Gone
    <3>1. task.step \notin Before(task.step) /\ task.step # "idle"
      BY <2>1 DEF Before, Names, ContentFiles
    <3>2. QED
      BY <2>1, <3>1 DEF PackInv, RunFindsItsOwn
  <2>3. QED
    BY <2>1, <2>2 DEF PackInv, DirectoryTyped
<1>3. CASE KillPack \/ \E f \in Names, left \in {Gone, Changed} : LoseFile(f, left)
  <2>1. damage' = damage + 1
    BY <1>3 DEF KillPack, LoseFile, Damaged
  <2>2. damage \in Nat
    BY PackAssumption DEF PackInv, DirectoryTyped
  <2>3. QED
    BY <2>1, <2>2
<1>4. CASE EmptyDirectory
  BY <1>4 DEF EmptyDirectory
<1>5. QED
  BY <1>1, <1>2, <1>3, <1>4 DEF PackNext

(* Whatever list a pack is made of, wherever a run is killed and whatever  *)
(* is lost or damaged afterwards: a pack that verifies is the whole of one *)
(* run, one that nothing happened to verifies, exit 0 says that everything *)
(* we claim was measured on every tool, and no run writes over a pack.     *)
THEOREM PackIsAlwaysProof == PackSpec => PackIsProof
<1>1. ASSUME PackInv PROVE PackTypeOK
  <2>1. ASSUME NEW i \in DOMAIN Steps, task.step = Steps[i], NEW k \in i..Len(Steps)
        PROVE  files[Steps[k]] = Gone
    <3>1. i \in 1..5 /\ k \in i..5
      BY <2>1 DEF Steps
    <3>2. Steps[k] \in Names \ Before(Steps[i]) /\ Steps[i] # "idle"
      BY <3>1 DEF Steps, Before, Names, ContentFiles
    <3>3. QED
      BY <1>1, <2>1, <3>2 DEF PackInv, RunFindsItsOwn
  <2>2. QED
    BY <1>1, <2>1 DEF PackInv, DirectoryTyped, PackTypeOK
<1>2. ASSUME PackInv PROVE IntactVerifies
  BY <1>2 DEF PackInv, IntactIsWhole, IntactVerifies
<1>3. ASSUME PackInv PROVE ZeroIsMeasured
  BY <1>3, ZeroWasMeasured DEF PackInv, ExitIsOfItsInput, ZeroIsMeasured
<1>4. PackInv => PackTypeOK /\ VerifiedIsWhole /\ IntactVerifies /\ ZeroIsMeasured
  BY <1>1, <1>2, <1>3 DEF PackInv
<1>5. PackInv /\ [PackNext]_packVars =>
         [\A f \in Names : files[f] # Gone /\ files'[f] # files[f] =>
            damage' # damage \/ \A g \in Names : files'[g] = Gone]_packVars
  BY RunOverwritesNothing
<1>6. QED
  BY <1>4, <1>5, PackSpecInv, PTL DEF PackSpec, PackIsProof, NothingOverwritten

--------------------------------------------------------------------------------
(* The history of captures.                                                *)

ASequence(s) == \E S : s \in Seq(S)

(* A line is of a capture that was made, and of the index on it. *)
LineTrue(line) ==
    /\ line = [day |-> line.day, at |-> line.at, sha |-> line.sha, counts |-> line.counts,
               scanner |-> line.scanner, prev |-> line.prev]
    /\ line.at = line.sha.at /\ line.sha \in DOMAIN snapshot /\ <<line.day, line.sha>> \in made

(* Each line holds the one before it as that was first written; one that   *)
(* was changed with a line after it is not what that line holds.           *)
LinksTrue(rows, changed) ==
    /\ \A i \in 1..Len(rows) - 1 : rows[i].scanner = "s" => rows[i + 1].prev = rows[i]
    /\ \A i \in changed : /\ i \in 1..Len(rows) - 1 /\ rows[i].scanner # "s"
                          /\ rows[i + 1].prev.scanner = "s"

LedgerTrue(file) ==
    /\ file = [lines |-> file.lines, changed |-> file.changed, torn |-> file.torn]
    /\ ASequence(file.lines) /\ \A i \in 1..Len(file.lines) : LineTrue(file.lines[i])
    /\ LinksTrue(file.lines, file.changed)

ArchivesTrue ==
    /\ DOMAIN archive \subseteq Day
    /\ \A d \in DOMAIN archive : archive[d] # TornArchive => <<d, archive[d]>> \in made
    /\ \A sample \in DOMAIN snapshot : snapshot[sample] \in {"kept", "damaged", "pruned"}

TimesTrue ==
    /\ today \in Day /\ (built # NoIndexYet => built.at \in Nat)
    /\ \A capture \in made : capture[2].at \in Nat

(* What a backfill has done of what it listed has a line. *)
BackfillTrue ==
    backfilling # NoRebuild =>
        /\ backfilling = [listed |-> backfilling.listed, todo |-> backfilling.todo]
        /\ backfilling.todo \subseteq backfilling.listed
        /\ backfilling.listed \ backfilling.todo \subseteq DaysOf(ledgerFile.lines)

FilesTrue == LedgerTrue(ledgerFile) /\ LedgerTrue(copy) /\ ArchivesTrue /\ TimesTrue /\ BackfillTrue
HistoryInv == FilesTrue /\ MissingMeansLost /\ FreshIsFresh

--------------------------------------------------------------------------------
LEMMA HistorySeqFacts ==
  ASSUME NEW s, ASequence(s)
  PROVE  Len(s) \in Nat /\ DOMAIN s = 1..Len(s) /\ (s = <<>> <=> Len(s) = 0)
<1>1. PICK S : s \in Seq(S)
  BY DEF ASequence
<1>2. QED
  BY <1>1

LEMMA FilesStay ==
  ASSUME FilesTrue, UNCHANGED <<ledgerFile, copy, archive, backfilling>>, DOMAIN snapshot' = DOMAIN snapshot,
         \A sample \in DOMAIN snapshot' : snapshot'[sample] \in {"kept", "damaged", "pruned"},
         made' = made, TimesTrue'
  PROVE  FilesTrue'
<1>1. LedgerTrue(ledgerFile)' /\ LedgerTrue(copy)'
  <2>1. LedgerTrue(ledgerFile) /\ LedgerTrue(copy)
    BY DEF FilesTrue
  <2>2. QED
    BY <2>1 DEF LedgerTrue, LineTrue, LinksTrue
<1>2. ArchivesTrue'
  BY DEF FilesTrue, ArchivesTrue
<1>3. BackfillTrue'
  BY DEF FilesTrue, BackfillTrue, DaysOf
<1>4. QED
  BY <1>1, <1>2, <1>3 DEF FilesTrue

LEMMA EmptyLedgerTrue == LedgerTrue(Empty)
<1>1. <<>> \in Seq({}) /\ Len(<<>>) = 0
  OBVIOUS
<1>2. ASequence(<<>>)
  BY <1>1 DEF ASequence
<1>3. LinksTrue(<<>>, {})
  BY <1>1 DEF LinksTrue
<1>4. QED
  BY <1>1, <1>2, <1>3 DEF LedgerTrue, Empty

LEMMA HistoryInitInv == HistoryInit => HistoryInv
<1> SUFFICES ASSUME HistoryInit PROVE HistoryInv
  OBVIOUS
<1>1. /\ ledgerFile = [lines |-> <<>>, changed |-> {}, torn |-> FALSE] /\ copy = ledgerFile
      /\ archive = <<>> /\ snapshot = <<>> /\ made = {} /\ today = 1 /\ built = NoIndexYet
      /\ backfilling = NoRebuild /\ verdict = NoVerdict
  BY DEF HistoryInit, Empty
<1>2. DOMAIN <<>> = {}
  OBVIOUS
<1>3. LedgerTrue(ledgerFile) /\ LedgerTrue(copy)
  BY <1>1, EmptyLedgerTrue DEF Empty
<1>4. ArchivesTrue
  BY <1>1, <1>2 DEF ArchivesTrue
<1>5. TimesTrue /\ BackfillTrue
  BY <1>1, HistoryAssumption DEF TimesTrue, BackfillTrue, Day
<1>6. QED
  BY <1>1, <1>3, <1>4, <1>5 DEF HistoryInv, FilesTrue, MissingMeansLost, FreshIsFresh

(* A capture adds a line that is true, and keeps what is there. *)
LEMMA CaptureKeeps ==
  ASSUME FilesTrue, NEW date \in Day, NEW sample, AppendCapture(date, sample),
         made \subseteq made', <<date, sample>> \in made', UNCHANGED <<today, built, copy>>,
         \A capture \in made' : capture[2].at \in Nat
  PROVE  /\ LedgerTrue(ledgerFile)' /\ LedgerTrue(copy)' /\ ArchivesTrue' /\ TimesTrue'
         /\ DaysOf(ledgerFile.lines)' = DaysOf(ledgerFile.lines) \cup {date}
<1>1. LedgerTrue(ledgerFile) /\ LedgerTrue(copy)
  BY DEF FilesTrue
<1>a. PICK rows, changed : rows = ledgerFile.lines /\ changed = ledgerFile.changed
  OBVIOUS
<1>b. PICK line : line = NewLineOf(rows, date, sample)
  OBVIOUS
<1>c. PICK more : more = Append(rows, line)
  OBVIOUS
<1>2. ledgerFile' = [lines |-> more, changed |-> changed, torn |-> ledgerFile.torn]
  BY <1>1, <1>a, <1>b, <1>c DEF AppendCapture, LedgerTrue
<1>3. /\ line = [day |-> date, at |-> sample.at, sha |-> sample, counts |-> sample.n, scanner |-> "s", prev |-> line.prev]
      /\ line.prev = IF rows = <<>> THEN NoLine ELSE rows[Len(rows)]
  BY <1>b DEF NewLineOf, Last
<1>4. /\ DOMAIN snapshot' = DOMAIN snapshot \cup {sample}
      /\ \A k \in DOMAIN snapshot' : snapshot'[k] \in {"kept", "damaged", "pruned"}
  <2>1. \A k \in DOMAIN snapshot : snapshot[k] \in {"kept", "damaged", "pruned"}
    BY DEF FilesTrue, ArchivesTrue
  <2>2. CASE sample \in DOMAIN snapshot /\ snapshot[sample] # "pruned"
    BY <2>1, <2>2 DEF AppendCapture
  <2>3. CASE ~(sample \in DOMAIN snapshot /\ snapshot[sample] # "pruned")
    BY <2>1, <2>3 DEF AppendCapture, With
  <2>4. QED
    BY <2>2, <2>3
<1>5. LineTrue(line)'
  BY <1>3, <1>4 DEF LineTrue
<1>6. /\ ASequence(rows) /\ Len(rows) \in Nat /\ DOMAIN rows = 1..Len(rows) /\ (rows = <<>> <=> Len(rows) = 0)
      /\ ASequence(more) /\ Len(more) = Len(rows) + 1 /\ DOMAIN more = 1..Len(more) /\ more[Len(rows) + 1] = line
      /\ \A i \in 1..Len(rows) : more[i] = rows[i]
  <2>1. ASequence(rows)
    BY <1>1, <1>a DEF LedgerTrue
  <2>2. Len(rows) \in Nat /\ DOMAIN rows = 1..Len(rows) /\ (rows = <<>> <=> Len(rows) = 0)
    BY <2>1, HistorySeqFacts, Zenon
  <2>3. /\ ASequence(more) /\ Len(more) = Len(rows) + 1 /\ more[Len(rows) + 1] = line
        /\ \A i \in 1..Len(rows) : more[i] = rows[i]
    <3>1. PICK S : rows \in Seq(S)
      BY <2>1 DEF ASequence
    <3>2. PICK U : U = S \cup {line}
      OBVIOUS
    <3>3. rows \in Seq(U) /\ line \in U
      BY ONLY <3>1, <3>2
    <3>4. /\ more \in Seq(U) /\ Len(more) = Len(rows) + 1 /\ more[Len(rows) + 1] = line
          /\ \A i \in 1..Len(rows) : more[i] = rows[i]
      BY ONLY <3>3, <1>c
    <3>5. QED
      BY ONLY <3>4 DEF ASequence
  <2>4. DOMAIN more = 1..Len(more)
    BY <2>3, HistorySeqFacts, Zenon
  <2>5. QED
    BY <2>1, <2>2, <2>3, <2>4, Zenon
<1>7. ledgerFile'.lines = more /\ ledgerFile'.changed = changed
  BY <1>2
<1>8. \A i \in 1..Len(more) : LineTrue(more[i])'
  <2>1. \A i \in 1..Len(rows) : LineTrue(rows[i])'
    BY <1>1, <1>4, <1>a DEF LedgerTrue, LineTrue
  <2>2. \A i \in 1..Len(more) : i \in 1..Len(rows) \/ i = Len(rows) + 1
    BY <1>6
  <2>3. ASSUME NEW i \in 1..Len(more) PROVE LineTrue(more[i])'
    <3>1. CASE i \in 1..Len(rows)
      <4>1. more[i] = rows[i]
        BY <1>6, <3>1, Zenon
      <4>2. QED
        BY <2>1, <3>1, <4>1
    <3>2. CASE i = Len(rows) + 1
      BY <1>5, <1>6, <3>2
    <3>3. QED
      BY <2>2, <3>1, <3>2
  <2>4. QED
    BY <2>3
<1>9. LinksTrue(more, changed)
  <2>1. LinksTrue(rows, changed)
    BY <1>1, <1>a DEF LedgerTrue
  <2>2. ASSUME NEW i \in 1..Len(more) - 1, more[i].scanner = "s" PROVE more[i + 1].prev = more[i]
    <3>1. i \in 1..Len(rows) /\ more[i] = rows[i]
      BY <1>6
    <3>2. CASE i < Len(rows)
      <4>1. i \in 1..Len(rows) - 1 /\ more[i + 1] = rows[i + 1]
        BY <1>6, <3>1, <3>2
      <4>2. QED
        BY <2>1, <2>2, <3>1, <4>1 DEF LinksTrue
    <3>3. CASE i = Len(rows)
      <4>1. rows # <<>> /\ more[i + 1] = line
        BY <1>6, <3>1, <3>3
      <4>2. QED
        BY <1>3, <3>1, <3>3, <4>1
    <3>4. i < Len(rows) \/ i = Len(rows)
      <4>1. Len(rows) \in Nat /\ i \in 1..Len(rows)
        BY <1>6, <3>1, Zenon
      <4>2. QED
        BY ONLY <4>1
    <3>5. QED
      BY <3>2, <3>3, <3>4
  <2>3. ASSUME NEW i \in changed
        PROVE  i \in 1..Len(more) - 1 /\ more[i].scanner # "s" /\ more[i + 1].prev.scanner = "s"
    <3>1. i \in 1..Len(rows) - 1 /\ rows[i].scanner # "s" /\ rows[i + 1].prev.scanner = "s"
      BY <2>1 DEF LinksTrue
    <3>2. i \in 1..Len(more) - 1 /\ more[i] = rows[i] /\ more[i + 1] = rows[i + 1]
      BY <1>6, <3>1
    <3>3. QED
      BY <3>1, <3>2
  <2>4. QED
    BY <2>2, <2>3 DEF LinksTrue
<1>10. LedgerTrue(ledgerFile)'
  BY <1>2, <1>6, <1>7, <1>8, <1>9 DEF LedgerTrue, LineTrue, LinksTrue
<1>11. LedgerTrue(copy)'
  BY <1>1, <1>4 DEF LedgerTrue, LineTrue, LinksTrue
<1>12. ArchivesTrue'
  <2>1. CASE date \in DOMAIN archive
    BY <1>4, <2>1 DEF AppendCapture, FilesTrue, ArchivesTrue
  <2>2. CASE date \notin DOMAIN archive
    <3>1. archive' = With(archive, date, sample)
      BY <2>2 DEF AppendCapture
    <3>2. /\ DOMAIN archive' = DOMAIN archive \cup {date} /\ archive'[date] = sample
          /\ \A d \in DOMAIN archive : archive'[d] = archive[d]
      BY <2>2, <3>1 DEF With
    <3>3. QED
      BY <1>4, <3>2 DEF FilesTrue, ArchivesTrue
  <2>3. QED
    BY <2>1, <2>2
<1>13. TimesTrue'
  BY DEF FilesTrue, TimesTrue
<1>14. DaysOf(ledgerFile.lines)' = DaysOf(ledgerFile.lines) \cup {date}
  <2>1. {more[i].day : i \in DOMAIN more} = {rows[i].day : i \in DOMAIN rows} \cup {line.day}
    BY <1>6
  <2>2. line.day = date
    BY <1>3
  <2>3. QED
    BY <1>7, <1>a, <2>1, <2>2 DEF DaysOf
<1>15. QED
  BY <1>10, <1>11, <1>12, <1>13, <1>14

LEMMA DailyCaptureKeeps ==
  ASSUME FilesTrue, DailyCapture
  PROVE  FilesTrue'
<1>1. /\ AppendCapture(today, built) /\ made' = made \cup {<<today, built>>} /\ built # NoIndexYet
      /\ UNCHANGED <<today, built, copy, backfilling>>
  BY DEF DailyCapture
<1>2. today \in Day /\ built.at \in Nat /\ \A capture \in made : capture[2].at \in Nat
  BY <1>1 DEF FilesTrue, TimesTrue
<1>3. \A capture \in made' : capture[2].at \in Nat
  BY <1>1, <1>2
<1>4. /\ LedgerTrue(ledgerFile)' /\ LedgerTrue(copy)' /\ ArchivesTrue' /\ TimesTrue'
      /\ DaysOf(ledgerFile.lines)' = DaysOf(ledgerFile.lines) \cup {today}
  BY <1>1, <1>2, <1>3, CaptureKeeps
<1>5. BackfillTrue'
  BY <1>1, <1>4 DEF FilesTrue, BackfillTrue
<1>6. QED
  BY <1>4, <1>5 DEF FilesTrue

LEMMA BackfillDayKeeps ==
  ASSUME FilesTrue, BackfillDay
  PROVE  FilesTrue'
<1>1. PICK date : /\ date \in DOMAIN archive /\ archive[date] # TornArchive /\ AppendCapture(date, archive[date])
                  /\ backfilling' = [backfilling EXCEPT !.todo = @ \ {date}]
  BY DEF BackfillDay
<1>2. UNCHANGED <<today, built, copy, made>> /\ backfilling # NoRebuild
  BY DEF BackfillDay
<1>3. date \in Day /\ <<date, archive[date]>> \in made /\ \A capture \in made : capture[2].at \in Nat
  BY <1>1 DEF FilesTrue, ArchivesTrue, TimesTrue
<1>4. /\ LedgerTrue(ledgerFile)' /\ LedgerTrue(copy)' /\ ArchivesTrue' /\ TimesTrue'
      /\ DaysOf(ledgerFile.lines)' = DaysOf(ledgerFile.lines) \cup {date}
  BY <1>1, <1>2, <1>3, CaptureKeeps
<1>5. BackfillTrue'
  <2>1. /\ backfilling = [listed |-> backfilling.listed, todo |-> backfilling.todo]
        /\ backfilling.todo \subseteq backfilling.listed
        /\ backfilling.listed \ backfilling.todo \subseteq DaysOf(ledgerFile.lines)
    BY <1>2 DEF FilesTrue, BackfillTrue
  <2>2. backfilling' = [listed |-> backfilling.listed, todo |-> backfilling.todo \ {date}]
    BY <1>1, <2>1
  <2>3. QED
    BY <1>4, <2>1, <2>2 DEF BackfillTrue
<1>6. QED
  BY <1>4, <1>5 DEF FilesTrue

(* A line is changed where it is: what holds it holds what it was. *)
LEMMA ChangeLineKeeps ==
  ASSUME FilesTrue, ChangeLine
  PROVE  FilesTrue'
<1>a. PICK rows : rows = ledgerFile.lines
  OBVIOUS
<1>1. PICK i \in DOMAIN rows :
         /\ rows[i].scanner = "s"
         /\ ledgerFile' = [ledgerFile EXCEPT !.lines[i].scanner = "t",
                              !.changed = IF i < Len(ledgerFile.lines) THEN @ \cup {i} ELSE @]
  BY <1>a DEF ChangeLine
<1>2. UNCHANGED <<today, built, archive, snapshot, copy, backfilling, made>>
  BY DEF ChangeLine
<1>3. LedgerTrue(ledgerFile) /\ LedgerTrue(copy)
  BY DEF FilesTrue
<1>4. PICK line : line = [rows[i] EXCEPT !.scanner = "t"]
  OBVIOUS
<1>5. PICK after : after = [rows EXCEPT ![i] = line]
  OBVIOUS
<1>6. PICK changed : changed = IF i < Len(rows) THEN ledgerFile.changed \cup {i} ELSE ledgerFile.changed
  OBVIOUS
<1>7. ledgerFile' = [lines |-> after, changed |-> changed, torn |-> ledgerFile.torn]
  BY <1>1, <1>3, <1>4, <1>5, <1>6, <1>a DEF LedgerTrue
<1>8. ASequence(rows) /\ Len(rows) \in Nat /\ DOMAIN rows = 1..Len(rows) /\ i \in 1..Len(rows)
  BY <1>1, <1>3, <1>a, HistorySeqFacts DEF LedgerTrue
<1>9. /\ ASequence(after) /\ Len(after) = Len(rows) /\ after[i] = line
      /\ \A k \in 1..Len(rows) : k # i => after[k] = rows[k]
  <2>1. PICK S : rows \in Seq(S)
    BY <1>8 DEF ASequence
  <2>2. PICK U : U = S \cup {line}
    OBVIOUS
  <2>3. rows \in Seq(U) /\ line \in U
    BY ONLY <2>1, <2>2
  <2>4. i \in 1..Len(rows)
    BY <1>8, Zenon
  <2>5. /\ after \in Seq(U) /\ Len(after) = Len(rows) /\ after[i] = line
        /\ \A k \in 1..Len(rows) : k # i => after[k] = rows[k]
    BY ONLY <2>3, <2>4, <1>5
  <2>6. QED
    BY ONLY <2>5 DEF ASequence
<1>10. /\ LineTrue(rows[i]) /\ \A k \in 1..Len(rows) : LineTrue(rows[k])
       /\ LinksTrue(rows, ledgerFile.changed)
  BY <1>3, <1>8, <1>a DEF LedgerTrue
<1>11. /\ line = [day |-> rows[i].day, at |-> rows[i].at, sha |-> rows[i].sha, counts |-> rows[i].counts,
                  scanner |-> "t", prev |-> rows[i].prev]
       /\ LineTrue(line)
  BY <1>4, <1>10 DEF LineTrue
<1>12. \A k \in 1..Len(rows) : /\ LineTrue(after[k]) /\ after[k].day = rows[k].day /\ after[k].prev = rows[k].prev
                                /\ after[k].scanner = IF k = i THEN "t" ELSE rows[k].scanner
  BY <1>9, <1>10, <1>11
<1>13. LinksTrue(after, changed)
  <2>1. ASSUME NEW k \in 1..Len(after) - 1, after[k].scanner = "s" PROVE after[k + 1].prev = after[k]
    <3>1. k \in 1..Len(rows) /\ k + 1 \in 1..Len(rows) /\ k \in 1..Len(rows) - 1
      BY <1>8, <1>9
    <3>2. k # i
      BY <1>12, <2>1, <3>1
    <3>3. after[k] = rows[k] /\ rows[k].scanner = "s"
      BY <1>9, <2>1, <3>1, <3>2
    <3>4. rows[k + 1].prev = rows[k]
      BY <1>10, <3>1, <3>3 DEF LinksTrue
    <3>5. QED
      BY <1>12, <3>1, <3>3, <3>4
  <2>2. ASSUME NEW k \in changed
        PROVE  k \in 1..Len(after) - 1 /\ after[k].scanner # "s" /\ after[k + 1].prev.scanner = "s"
    <3>1. CASE k \in ledgerFile.changed
      <4>1. k \in 1..Len(rows) - 1 /\ rows[k].scanner # "s" /\ rows[k + 1].prev.scanner = "s"
        BY <1>10, <3>1 DEF LinksTrue
      <4>2. k \in 1..Len(rows) /\ k + 1 \in 1..Len(rows)
        BY <1>8, <4>1
      <4>3. after[k + 1].prev = rows[k + 1].prev /\ after[k].scanner # "s"
        BY <1>12, <4>1, <4>2
      <4>4. QED
        BY <1>9, <4>1, <4>3
    <3>2. CASE k = i /\ i < Len(rows)
      <4>1. k \in 1..Len(rows) - 1 /\ k + 1 \in 1..Len(rows)
        BY <1>8, <3>2
      <4>2. rows[k + 1].prev = rows[k]
        BY <1>1, <1>10, <3>2, <4>1 DEF LinksTrue
      <4>3. after[k + 1].prev.scanner = "s"
        BY <1>1, <1>12, <3>2, <4>1, <4>2
      <4>4. QED
        BY <1>8, <1>9, <1>12, <3>2, <4>1, <4>3
    <3>3. QED
      BY <1>6, <3>1, <3>2
  <2>3. QED
    BY <2>1, <2>2 DEF LinksTrue
<1>14. LedgerTrue(ledgerFile)'
  <2>1. ledgerFile'.lines = after /\ ledgerFile'.changed = changed
    BY <1>7
  <2>2. \A k \in 1..Len(after) : LineTrue(after[k])'
    BY <1>2, <1>9, <1>12 DEF LineTrue
  <2>3. QED
    BY <1>7, <1>9, <1>13, <2>1, <2>2 DEF LedgerTrue, LineTrue, LinksTrue
<1>15. DaysOf(ledgerFile'.lines) = DaysOf(ledgerFile.lines)
  <2>1. DOMAIN after = DOMAIN rows
    BY <1>5
  <2>2. {after[k].day : k \in DOMAIN after} = {rows[k].day : k \in DOMAIN rows}
    BY <1>8, <1>12, <2>1
  <2>3. ledgerFile'.lines = after
    BY <1>7
  <2>4. DaysOf(after) = DaysOf(rows)
    BY ONLY <2>2 DEF DaysOf
  <2>5. QED
    BY <1>a, <2>3, <2>4, Zenon
<1>16. LedgerTrue(copy)' /\ ArchivesTrue' /\ TimesTrue'
  BY <1>2, <1>3 DEF FilesTrue, LedgerTrue, LineTrue, LinksTrue, ArchivesTrue, TimesTrue
<1>17. BackfillTrue'
  BY <1>2, <1>15 DEF FilesTrue, BackfillTrue
<1>18. QED
  BY <1>14, <1>16, <1>17 DEF FilesTrue

(* What the directory loses, and what is copied and put back. *)
LEMMA KeepersKeep ==
  ASSUME FilesTrue, CopyLedger \/ PutBack \/ LoseArchive \/ LoseSnapshot \/ TearLine
  PROVE  FilesTrue'
<1>1. LedgerTrue(ledgerFile) /\ LedgerTrue(copy)
  BY DEF FilesTrue
<1>2. CASE CopyLedger
  <2>1. copy' = ledgerFile /\ UNCHANGED <<today, built, ledgerFile, archive, snapshot, backfilling, made>>
    BY <1>2 DEF CopyLedger
  <2>2. LedgerTrue(ledgerFile)' /\ LedgerTrue(copy)'
    BY <1>1, <2>1 DEF LedgerTrue, LineTrue, LinksTrue
  <2>3. ArchivesTrue' /\ TimesTrue' /\ BackfillTrue'
    BY <2>1 DEF FilesTrue, ArchivesTrue, TimesTrue, BackfillTrue, DaysOf
  <2>4. QED
    BY <2>2, <2>3 DEF FilesTrue
<1>3. CASE PutBack
  <2>1. /\ backfilling = NoRebuild /\ ledgerFile' \in {Empty, copy}
        /\ UNCHANGED <<today, built, archive, snapshot, copy, backfilling, made>>
    BY <1>3 DEF PutBack
  <2>2. LedgerTrue(Empty)
    BY EmptyLedgerTrue
  <2>3. LedgerTrue(ledgerFile)' /\ LedgerTrue(copy)'
    <3>1. LedgerTrue(copy)'
      BY <1>1, <2>1 DEF LedgerTrue, LineTrue, LinksTrue
    <3>2. CASE ledgerFile' = copy
      <4>1. ledgerFile' = copy'
        BY <2>1, <3>2
      <4>2. QED
        BY <3>1, <4>1
    <3>3. CASE ledgerFile' = Empty
      <4>1. LedgerTrue(Empty)'
        BY <2>1, <2>2 DEF LedgerTrue, LineTrue, LinksTrue, Empty
      <4>2. QED
        BY <3>1, <3>3, <4>1
    <3>4. QED
      BY <2>1, <3>2, <3>3
  <2>4. ArchivesTrue' /\ TimesTrue' /\ BackfillTrue'
    BY <2>1 DEF FilesTrue, ArchivesTrue, TimesTrue, BackfillTrue
  <2>5. QED
    BY <2>3, <2>4 DEF FilesTrue
<1>4. CASE LoseArchive
  <2>1. PICK d \in DOMAIN archive : archive' = Without(archive, d) \/ archive' = With(archive, d, TornArchive)
    BY <1>4 DEF LoseArchive
  <2>2. UNCHANGED <<today, built, ledgerFile, snapshot, copy, backfilling, made>>
    BY <1>4 DEF LoseArchive
  <2>3. /\ DOMAIN archive' \subseteq DOMAIN archive
        /\ \A e \in DOMAIN archive' : archive'[e] = archive[e] \/ archive'[e] = TornArchive
    BY <2>1 DEF Without, With
  <2>4. ArchivesTrue'
    BY <2>2, <2>3 DEF FilesTrue, ArchivesTrue
  <2>5. LedgerTrue(ledgerFile)' /\ LedgerTrue(copy)'
    BY <1>1, <2>2 DEF LedgerTrue, LineTrue, LinksTrue
  <2>6. TimesTrue' /\ BackfillTrue'
    BY <2>2 DEF FilesTrue, TimesTrue, BackfillTrue, DaysOf
  <2>7. QED
    BY <2>4, <2>5, <2>6 DEF FilesTrue
<1>5. CASE LoseSnapshot
  <2>1. PICK sample \in DOMAIN snapshot, as \in {"damaged", "pruned"} : snapshot' = With(snapshot, sample, as)
    BY <1>5 DEF LoseSnapshot
  <2>2. UNCHANGED <<today, built, ledgerFile, archive, copy, backfilling, made>>
    BY <1>5 DEF LoseSnapshot
  <2>3. /\ DOMAIN snapshot' = DOMAIN snapshot
        /\ \A k \in DOMAIN snapshot' : snapshot'[k] = snapshot[k] \/ snapshot'[k] \in {"damaged", "pruned"}
    BY <2>1 DEF With
  <2>4. \A k \in DOMAIN snapshot' : snapshot'[k] \in {"kept", "damaged", "pruned"}
    BY <2>3 DEF FilesTrue, ArchivesTrue
  <2>5. TimesTrue'
    BY <2>2 DEF FilesTrue, TimesTrue
  <2>6. QED
    BY <2>2, <2>3, <2>4, <2>5, FilesStay
<1>6. CASE TearLine
  <2>1. /\ ledgerFile' = [ledgerFile EXCEPT !.torn = TRUE]
        /\ UNCHANGED <<today, built, archive, snapshot, copy, backfilling, made>>
    BY <1>6 DEF TearLine
  <2>2. ledgerFile' = [lines |-> ledgerFile.lines, changed |-> ledgerFile.changed, torn |-> TRUE]
    BY <1>1, <2>1 DEF LedgerTrue
  <2>3. LedgerTrue(ledgerFile)' /\ LedgerTrue(copy)'
    <3>1. ledgerFile'.lines = ledgerFile.lines /\ ledgerFile'.changed = ledgerFile.changed
      BY <2>2
    <3>2. LedgerTrue(copy)'
      BY <1>1, <2>1 DEF LedgerTrue, LineTrue, LinksTrue
    <3>3. /\ ASequence(ledgerFile.lines) /\ LinksTrue(ledgerFile.lines, ledgerFile.changed)
          /\ \A i \in 1..Len(ledgerFile.lines) : LineTrue(ledgerFile.lines[i])
      BY <1>1 DEF LedgerTrue
    <3>4. ASequence(ledgerFile.lines)' /\ LinksTrue(ledgerFile.lines, ledgerFile.changed)'
      BY <3>1, <3>3 DEF LinksTrue
    <3>5. \A i \in 1..Len(ledgerFile'.lines) : LineTrue(ledgerFile.lines[i])'
      BY <2>1, <3>1, <3>3 DEF LineTrue
    <3>6. ledgerFile' = [lines |-> ledgerFile'.lines, changed |-> ledgerFile'.changed, torn |-> ledgerFile'.torn]
      BY <2>2
    <3>7. QED
      BY <3>2, <3>4, <3>5, <3>6 DEF LedgerTrue
  <2>4. ArchivesTrue' /\ TimesTrue' /\ BackfillTrue'
    BY <2>1, <2>2 DEF FilesTrue, ArchivesTrue, TimesTrue, BackfillTrue, DaysOf
  <2>5. QED
    BY <2>3, <2>4 DEF FilesTrue
<1>7. QED
  BY <1>2, <1>3, <1>4, <1>5, <1>6

LEMMA CalendarKeeps ==
  ASSUME FilesTrue, Build \/ NextMorning
  PROVE  FilesTrue'
<1>1. UNCHANGED <<ledgerFile, archive, snapshot, copy, backfilling, made>>
  BY DEF Build, NextMorning
<1>2. TimesTrue'
  <2>1. CASE Build
    BY <1>1, <2>1, HistoryAssumption DEF Build, FilesTrue, TimesTrue, Day
  <2>2. CASE NextMorning
    BY <1>1, <2>2, HistoryAssumption DEF NextMorning, FilesTrue, TimesTrue, Day
  <2>3. QED
    BY <2>1, <2>2
<1>3. \A sample \in DOMAIN snapshot' : snapshot'[sample] \in {"kept", "damaged", "pruned"}
  BY <1>1 DEF FilesTrue, ArchivesTrue
<1>4. QED
  BY <1>1, <1>2, <1>3, FilesStay

(* The days that have a line are not to do. *)
LEMMA BackfillKeeps ==
  ASSUME FilesTrue, BeginBackfill \/ BackfillFails \/ EndBackfill \/ Verify
  PROVE  FilesTrue'
<1>1. UNCHANGED <<today, built, ledgerFile, archive, snapshot, copy, made>>
  BY DEF BeginBackfill, BackfillFails, EndBackfill, Verify
<1>2. LedgerTrue(ledgerFile)' /\ LedgerTrue(copy)' /\ ArchivesTrue' /\ TimesTrue'
  BY <1>1 DEF FilesTrue, LedgerTrue, LineTrue, LinksTrue, ArchivesTrue, TimesTrue
<1>3. BackfillTrue'
  <2>1. CASE BeginBackfill
    <3>1. backfilling' = [listed |-> DOMAIN archive, todo |-> DOMAIN archive \ DaysOf(ledgerFile.lines)]
      BY <2>1 DEF BeginBackfill
    <3>2. DaysOf(ledgerFile'.lines) = DaysOf(ledgerFile.lines)
      BY <1>1
    <3>3. QED
      BY <3>1, <3>2 DEF BackfillTrue
  <2>2. CASE BackfillFails \/ EndBackfill
    BY <2>2 DEF BackfillFails, EndBackfill, BackfillTrue
  <2>3. CASE Verify
    BY <1>1, <2>3 DEF Verify, FilesTrue, BackfillTrue, DaysOf
  <2>4. QED
    BY <2>1, <2>2, <2>3
<1>4. QED
  BY <1>2, <1>3 DEF FilesTrue

(* What a command says of the ledger that it read. *)
LEMMA SaidIsTrue ==
  ASSUME FilesTrue, NEW listed, listed \subseteq DaysOf(ledgerFile.lines),
         verdict' = [said |-> verifyLedger(ledgerFile.lines), now |-> today, listed |-> listed],
         UNCHANGED <<today, ledgerFile, made>>
  PROVE  MissingMeansLost' /\ FreshIsFresh'
<1>1. PICK rows, words : rows = ledgerFile.lines /\ words = verifyLedger(rows)
  OBVIOUS
<1>2. verdict' = [said |-> words, now |-> today, listed |-> listed]
  BY <1>1
<1>3. words.gaps = Gaps(rows) /\ words.captures = Len(rows) /\ words.stale = Stale(rows)
  BY <1>1 DEF verifyLedger
<1>4. words.gaps \cap listed = {}
  BY <1>1, <1>3 DEF Gaps
<1>5. ASSUME words.captures > 0, ~words.stale
      PROVE  \E capture \in made : capture[2].at >= today - MaxLineAge
  <2>1. ASequence(rows) /\ \A i \in 1..Len(rows) : LineTrue(rows[i])
    BY <1>1 DEF FilesTrue, LedgerTrue
  <2>2. Len(rows) \in Nat /\ (rows = <<>> <=> Len(rows) = 0)
    BY <2>1, HistorySeqFacts
  <2>3. rows # <<>> /\ Len(rows) \in 1..Len(rows)
    BY <1>3, <1>5, <2>2
  <2>4. PICK last : last = rows[Len(rows)]
    OBVIOUS
  <2>5. LineTrue(last)
    BY <2>1, <2>3, <2>4
  <2>6. ~(today - last.at > MaxLineAge)
    BY <1>3, <1>5, <2>3, <2>4 DEF Stale, Last
  <2>7. last.at = last.sha.at /\ <<last.day, last.sha>> \in made
    BY <2>5 DEF LineTrue
  <2>8. today \in Nat /\ MaxLineAge \in Nat /\ \A capture \in made : capture[2].at \in Nat
    BY HistoryAssumption DEF FilesTrue, TimesTrue, Day
  <2>9. PICK capture \in made : capture = <<last.day, last.sha>>
    BY <2>7
  <2>10. capture[2].at = last.at /\ capture[2].at \in Nat
    BY <2>7, <2>8, <2>9
  <2>11. capture[2].at >= today - MaxLineAge
    BY <2>6, <2>8, <2>10
  <2>12. QED
    BY <2>11
<1>6. MissingMeansLost'
  BY <1>2, <1>4 DEF MissingMeansLost
<1>7. FreshIsFresh'
  BY <1>2, <1>5 DEF FreshIsFresh
<1>8. QED
  BY <1>6, <1>7

LEMMA HistorySpecInv == HistorySpec => []HistoryInv
<1>1. HistoryInv /\ [HistoryNext]_historyVars => HistoryInv'
  <2> SUFFICES ASSUME HistoryInv, [HistoryNext]_historyVars PROVE HistoryInv'
    OBVIOUS
  <2>1. FilesTrue /\ MissingMeansLost /\ FreshIsFresh
    BY DEF HistoryInv
  <2>2. CASE /\ verdict' = NoVerdict
             /\ Build \/ NextMorning \/ DailyCapture \/ CopyLedger \/ Accident
                   \/ BeginBackfill \/ BackfillDay \/ BackfillFails
    <3>1. FilesTrue'
      <4>1. CASE Build \/ NextMorning
        BY <2>1, <4>1, CalendarKeeps
      <4>2. CASE DailyCapture
        BY <2>1, <4>2, DailyCaptureKeeps
      <4>3. CASE CopyLedger
        BY <2>1, <4>3, KeepersKeep
      <4>4. CASE Accident
        BY <2>1, <4>4, KeepersKeep, ChangeLineKeeps DEF Accident
      <4>5. CASE BeginBackfill \/ BackfillFails
        BY <2>1, <4>5, BackfillKeeps
      <4>6. CASE BackfillDay
        BY <2>1, <4>6, BackfillDayKeeps
      <4>7. QED
        BY <2>2, <4>1, <4>2, <4>3, <4>4, <4>5, <4>6
    <3>2. MissingMeansLost' /\ FreshIsFresh'
      BY <2>2 DEF MissingMeansLost, FreshIsFresh
    <3>3. QED
      BY <3>1, <3>2 DEF HistoryInv
  <2>3. CASE Verify
    <3>1. FilesTrue'
      BY <2>1, <2>3, BackfillKeeps
    <3>2. MissingMeansLost' /\ FreshIsFresh'
      <4>1. PICK listed : listed = {}
        OBVIOUS
      <4>2. /\ verdict' = [said |-> verifyLedger(ledgerFile.lines), now |-> today, listed |-> listed]
            /\ UNCHANGED <<today, ledgerFile, made>> /\ listed \subseteq DaysOf(ledgerFile.lines)
        BY <2>3, <4>1 DEF Verify
      <4>3. QED
        BY <2>1, <4>2, SaidIsTrue
    <3>3. QED
      BY <3>1, <3>2 DEF HistoryInv
  <2>4. CASE EndBackfill
    <3>1. FilesTrue'
      BY <2>1, <2>4, BackfillKeeps
    <3>2. MissingMeansLost' /\ FreshIsFresh'
      <4>1. PICK listed : listed = backfilling.listed
        OBVIOUS
      <4>2. listed \subseteq DaysOf(ledgerFile.lines)
        BY <2>1, <2>4, <4>1 DEF EndBackfill, FilesTrue, BackfillTrue
      <4>3. /\ verdict' = [said |-> verifyLedger(ledgerFile.lines), now |-> today, listed |-> listed]
            /\ UNCHANGED <<today, ledgerFile, made>>
        BY <2>4, <4>1 DEF EndBackfill
      <4>4. QED
        BY <2>1, <4>2, <4>3, SaidIsTrue
    <3>3. QED
      BY <3>1, <3>2 DEF HistoryInv
  <2>5. CASE UNCHANGED historyVars
    <3>1. UNCHANGED <<today, built, ledgerFile, archive, snapshot, copy, backfilling, verdict, made>>
      BY <2>5 DEF historyVars
    <3>2. MissingMeansLost' /\ FreshIsFresh'
      BY <2>1, <3>1 DEF MissingMeansLost, FreshIsFresh
    <3>3. FilesTrue'
      <4>1. LedgerTrue(ledgerFile)' /\ LedgerTrue(copy)'
        BY <2>1, <3>1 DEF FilesTrue, LedgerTrue, LineTrue, LinksTrue
      <4>2. ArchivesTrue' /\ TimesTrue'
        BY <2>1, <3>1 DEF FilesTrue, ArchivesTrue, TimesTrue
      <4>3. BackfillTrue'
        BY <2>1, <3>1 DEF FilesTrue, BackfillTrue, DaysOf
      <4>4. QED
        BY <4>1, <4>2, <4>3 DEF FilesTrue
    <3>4. QED
      BY <3>2, <3>3 DEF HistoryInv
  <2>6. QED
    BY <2>2, <2>3, <2>4, <2>5 DEF HistoryNext
<1>2. QED
  BY <1>1, HistoryInitInv, PTL DEF HistorySpec

(* A ledger with a changed line does not chain, and one with a damaged     *)
(* snapshot does not hold.                                                 *)
LEMMA ChangeBreaks ==
  ASSUME FilesTrue, verifyLedger(ledgerFile.lines).ok
  PROVE  /\ ledgerFile.changed = {}
         /\ \A i \in DOMAIN ledgerFile.lines : snapshot[ledgerFile.lines[i].sha] # "damaged"
<1>1. PICK rows, changed : rows = ledgerFile.lines /\ changed = ledgerFile.changed
  OBVIOUS
<1>2. Chained(rows) /\ EvidenceHolds(rows)
  BY <1>1 DEF verifyLedger
<1>3. LinksTrue(rows, changed) /\ ASequence(rows)
  BY <1>1 DEF FilesTrue, LedgerTrue
<1>4. Len(rows) \in Nat /\ DOMAIN rows = 1..Len(rows)
  BY <1>3, HistorySeqFacts
<1>5. ASSUME NEW i \in changed PROVE FALSE
  <2>1. i \in 1..Len(rows) - 1 /\ rows[i].scanner # "s" /\ rows[i + 1].prev.scanner = "s"
    BY <1>3 DEF LinksTrue
  <2>2. i + 1 \in DOMAIN rows /\ i + 1 # 1 /\ (i + 1) - 1 = i
    BY <1>4, <2>1
  <2>3. rows[i + 1].prev = rows[i]
    BY <1>2, <2>2 DEF Chained
  <2>4. QED
    BY <2>1, <2>3
<1>6. \A i \in DOMAIN rows : snapshot[rows[i].sha] # "damaged"
  BY <1>2 DEF EvidenceHolds
<1>7. QED
  BY <1>1, <1>5, <1>6

(* Whatever is lost, put back and rebuilt: no line without its capture, no *)
(* gap where an archive was found, no freshness without a fresh index, and *)
(* no verification over a change.                                          *)
THEOREM HistoryIsAlwaysTrue == HistorySpec => HistoryIsTrue
<1>1. ASSUME HistoryInv PROVE HistoryTypeOK /\ NothingInvented
  <2>1. PICK rows, changed : rows = ledgerFile.lines /\ changed = ledgerFile.changed
    OBVIOUS
  <2>2. /\ ASequence(rows) /\ \A i \in 1..Len(rows) : LineTrue(rows[i])
        /\ LinksTrue(rows, changed)
    BY <1>1, <2>1 DEF HistoryInv, FilesTrue, LedgerTrue
  <2>3. Len(rows) \in Nat /\ DOMAIN rows = 1..Len(rows)
    BY <2>2, HistorySeqFacts
  <2>4. changed \subseteq DOMAIN rows
    BY <2>2, <2>3 DEF LinksTrue
  <2>5. \A i \in DOMAIN rows : rows[i].sha \in DOMAIN snapshot /\ <<rows[i].day, rows[i].sha>> \in made
    BY <2>2, <2>3 DEF LineTrue
  <2>6. NothingInvented
    BY <2>1, <2>5 DEF NothingInvented
  <2>7. HistoryTypeOK
    BY <1>1, <2>1, <2>4, <2>5 DEF HistoryInv, FilesTrue, ArchivesTrue, TimesTrue, BackfillTrue, HistoryTypeOK
  <2>8. QED
    BY <2>6, <2>7
<1>2. HistoryInv => HistoryTypeOK /\ NothingInvented /\ MissingMeansLost /\ FreshIsFresh
  BY <1>1 DEF HistoryInv
<1>3. HistoryInv /\ [HistoryNext]_historyVars =>
         [verdict' # NoVerdict /\ verdict'.said.ok =>
            /\ ledgerFile.changed = {}
            /\ \A i \in DOMAIN ledgerFile.lines : snapshot[ledgerFile.lines[i].sha] # "damaged"]_historyVars
  <2> SUFFICES ASSUME HistoryInv, HistoryNext, verdict' # NoVerdict, verdict'.said.ok
               PROVE  /\ ledgerFile.changed = {}
                      /\ \A i \in DOMAIN ledgerFile.lines : snapshot[ledgerFile.lines[i].sha] # "damaged"
    OBVIOUS
  <2>1. Verify \/ EndBackfill
    BY DEF HistoryNext
  <2>2. verdict'.said = verifyLedger(ledgerFile.lines)
    BY <2>1 DEF Verify, EndBackfill
  <2>3. FilesTrue
    BY DEF HistoryInv
  <2>4. QED
    BY <2>2, <2>3, ChangeBreaks
<1>4. QED
  BY <1>2, <1>3, HistorySpecInv, PTL DEF HistorySpec, HistoryIsTrue, ChangeIsSeen

--------------------------------------------------------------------------------
(* The nightly backup.                                                     *)

BackupTyped ==
    /\ index \in Sizes \cup {Torn, NoIndex} /\ ledger \in Ledger
    /\ archives \in Seq(Archive)
    /\ job \in [step : {"idle", "counting", "copying", "tar", "prune"}, records : Sizes \cup {0},
                captures : Captures, todo : SUBSET {"index", "ledger"}, quiet : BOOLEAN, staged : Stored]
    /\ due \in BOOLEAN /\ drill \in {"none", "passed", "failed"} /\ faults \in 0..MaxFaults

(* A whole archive holds what was counted, and its own digest; one of a    *)
(* quiet night is of the very index and of a ledger without a torn line.   *)
BodyTrue(a) ==
    a.body # Partial =>
        /\ a.body.content = a.body.manifest.digest
        /\ a.body.content.ledger.captures >= a.body.manifest.captures
        /\ a.quiet => /\ a.body.content.index = a.body.manifest.records
                      /\ ~a.body.content.ledger.torn

BodiesTrue == \A i \in 1..Len(archives) : BodyTrue(archives[i])

(* A file that is still to be copied is as it was counted, if the night is *)
(* quiet, and one that was copied was so; captures only come on top.       *)
CopyTrue ==
    /\ LET there == IF "ledger" \in job.todo THEN ledger ELSE job.staged.ledger
       IN  there.captures >= job.captures /\ (job.quiet => ~there.torn)
    /\ job.quiet => job.records = IF "index" \in job.todo THEN index ELSE job.staged.index

JobTrue ==
    /\ job.step # "idle" => ~due /\ job.records \in Sizes
    /\ job.step = "counting" /\ job.quiet => index = job.records
    /\ job.step \in {"copying", "tar", "prune"} => CopyTrue
    /\ job.step \in {"tar", "prune"} => job.todo = {}

(* The archive that is being made, and that is there when pruning begins. *)
LastTrue ==
    job.step \in {"tar", "prune"} =>
        /\ archives # <<>>
        /\ LET a == archives[Len(archives)]
           IN  /\ a.stamped /\ a.age = 0 /\ a.quiet = job.quiet
               /\ a.body = Partial <=> job.step = "tar"

(* The archives are listed by age, and none is of this night before tar    *)
(* has begun.                                                              *)
AgesTrue ==
    /\ \A i, k \in 1..Len(archives) :
          i < k => archives[i].age > archives[k].age \/ archives[i].age = KeepDays + 1
    /\ due \/ job.step \in {"counting", "copying"} =>
          \A i \in 1..Len(archives) : archives[i].age >= 1

BackupInv == BackupTyped /\ BodiesTrue /\ JobTrue /\ LastTrue /\ AgesTrue

--------------------------------------------------------------------------------
(* RemoveAt closes the gap. *)
LEMMA RemoveAtFacts ==
  ASSUME NEW S, NEW s \in Seq(S), NEW i \in 1..Len(s), NEW t, t = RemoveAt(s, i)
  PROVE  /\ t \in Seq(S) /\ Len(t) = Len(s) - 1
         /\ \A k \in 1..Len(t) : t[k] = IF k < i THEN s[k] ELSE s[k + 1]
<1>1. PICK n : n = Len(s) /\ n \in Nat
  OBVIOUS
<1>2. PICK a : a = SubSeq(s, 1, i - 1)
  OBVIOUS
<1>3. PICK b : b = SubSeq(s, i + 1, n)
  OBVIOUS
<1>4. i \in 1..n /\ \A k \in 1..n : s[k] \in S
  BY <1>1
<1>5. a \in Seq(S) /\ Len(a) = i - 1 /\ \A k \in 1..i - 1 : a[k] = s[k]
  <2>1. \A k \in 1..i - 1 : s[k] \in S
    BY <1>1, <1>4
  <2>2. /\ SubSeq(s, 1, i - 1) \in Seq(S)
        /\ Len(SubSeq(s, 1, i - 1)) = IF 1 <= i - 1 THEN (i - 1) - 1 + 1 ELSE 0
        /\ \A k \in 1..(i - 1) - 1 + 1 : SubSeq(s, 1, i - 1)[k] = s[1 + k - 1]
    BY <1>1, <1>4, <2>1, SubSeqProperties
  <2>3. QED
    BY <1>1, <1>2, <1>4, <2>2
<1>6. b \in Seq(S) /\ Len(b) = n - i /\ \A k \in 1..n - i : b[k] = s[k + i]
  <2>1. \A k \in i + 1..n : s[k] \in S
    BY <1>1, <1>4
  <2>2. /\ SubSeq(s, i + 1, n) \in Seq(S)
        /\ Len(SubSeq(s, i + 1, n)) = IF i + 1 <= n THEN n - (i + 1) + 1 ELSE 0
        /\ \A k \in 1..n - (i + 1) + 1 : SubSeq(s, i + 1, n)[k] = s[(i + 1) + k - 1]
    BY <1>1, <1>4, <2>1, SubSeqProperties
  <2>3. QED
    BY <1>1, <1>3, <1>4, <2>2
<1>7. t = a \o b
  BY <1>1, <1>2, <1>3 DEF RemoveAt
<1>8. /\ t \in Seq(S) /\ Len(t) = Len(a) + Len(b)
      /\ \A k \in 1..Len(a) + Len(b) : t[k] = IF k <= Len(a) THEN a[k] ELSE b[k - Len(a)]
  BY <1>5, <1>6, <1>7, ConcatProperties
<1>9. Len(t) = n - 1
  BY <1>1, <1>4, <1>5, <1>6, <1>8
<1>10. ASSUME NEW k \in 1..Len(t) PROVE t[k] = IF k < i THEN s[k] ELSE s[k + 1]
  <2>1. k \in 1..n - 1 /\ i \in 1..n /\ n \in Nat
    BY <1>1, <1>4, <1>9
  <2>2. CASE k < i
    BY <1>5, <1>6, <1>8, <2>1, <2>2
  <2>3. CASE ~(k < i)
    <3>1. t[k] = b[k - (i - 1)]
      BY <1>5, <1>6, <1>8, <2>1, <2>3
    <3>2. k - (i - 1) \in 1..n - i /\ (k - (i - 1)) + i = k + 1
      BY <2>1, <2>3
    <3>3. b[k - (i - 1)] = s[k + 1]
      BY <1>6, <3>2
    <3>4. QED
      BY <2>3, <3>1, <3>3
  <2>4. QED
    BY <2>2, <2>3
<1>11. QED
  BY <1>1, <1>8, <1>9, <1>10

LEMMA BackupInitInv == BackupInit => BackupInv
<1> SUFFICES ASSUME BackupInit PROVE BackupInv
  OBVIOUS
<1>1. /\ index \in Sizes \cup {NoIndex} /\ ledger = [captures |-> 0, torn |-> FALSE]
      /\ job = NoJob /\ due = TRUE /\ drill = "none" /\ faults = 0
  BY DEF BackupInit
<1>2. ledger \in Ledger /\ job.step = "idle" /\ 0 \in Captures
  BY <1>1, BackupAssumption DEF Ledger, Captures, NoJob
<1>3. job \in [step : {"idle", "counting", "copying", "tar", "prune"}, records : Sizes \cup {0},
               captures : Captures, todo : SUBSET {"index", "ledger"}, quiet : BOOLEAN, staged : Stored]
  BY <1>1, <1>2 DEF NoJob, Stored
<1>4. /\ archives \in Seq(Archive)
      /\ Len(archives) \in 0..1
      /\ \A i \in 1..Len(archives) : BodyTrue(archives[i]) /\ archives[i].age = KeepDays + 1
  <2>1. CASE archives = <<>>
    BY <2>1
  <2>2. ASSUME NEW r \in Sizes, archives = <<HandMade(r)>>
        PROVE  /\ archives \in Seq(Archive) /\ Len(archives) \in 0..1
               /\ \A i \in 1..Len(archives) : BodyTrue(archives[i]) /\ archives[i].age = KeepDays + 1
    <3>1. PICK kept : kept = [index |-> r, ledger |-> [captures |-> 0, torn |-> FALSE]]
      OBVIOUS
    <3>2. PICK body : body = [content |-> kept, manifest |-> [records |-> r, captures |-> 0, digest |-> kept]]
      OBVIOUS
    <3>3. PICK a : a = HandMade(r)
      OBVIOUS
    <3>4. a = [stamped |-> FALSE, age |-> KeepDays + 1, quiet |-> TRUE, body |-> body]
      BY <3>1, <3>2, <3>3 DEF HandMade
    <3>5. kept \in Stored
      BY <1>2, <3>1 DEF Stored, Ledger
    <3>6. body \in Body
      BY <1>2, <3>2, <3>5 DEF Body, Manifest
    <3>7. KeepDays + 1 \in 0..KeepDays + 1
      BY BackupAssumption
    <3>8. a \in Archive
      BY <3>4, <3>6, <3>7 DEF Archive
    <3>9. BodyTrue(a) /\ a.age = KeepDays + 1
      <4>1. a.age = KeepDays + 1 /\ a.body = body
        BY <3>4
      <4>2. /\ body.content = kept /\ body.manifest.digest = kept
            /\ body.manifest.records = r /\ body.manifest.captures = 0
        BY <3>2
      <4>3. kept.index = r /\ kept.ledger.captures = 0 /\ ~kept.ledger.torn
        BY <3>1
      <4>4. QED
        BY <4>1, <4>2, <4>3 DEF BodyTrue
    <3>10. archives = <<a>>
      BY <2>2, <3>3
    <3>11. QED
      BY <3>8, <3>9, <3>10
  <2>3. QED
    BY <2>1, <2>2 DEF BackupInit
<1>5. BackupTyped
  BY <1>1, <1>2, <1>3, <1>4, BackupAssumption DEF BackupTyped
<1>6. BodiesTrue
  BY <1>4 DEF BodiesTrue
<1>7. JobTrue /\ LastTrue
  BY <1>2 DEF JobTrue, LastTrue
<1>8. AgesTrue
  <2>1. \A i, k \in 1..Len(archives) : ~(i < k)
    BY <1>4
  <2>2. \A i \in 1..Len(archives) : archives[i].age >= 1
    BY <1>4, BackupAssumption
  <2>3. QED
    BY <2>1, <2>2 DEF AgesTrue
<1>9. QED
  BY <1>5, <1>6, <1>7, <1>8 DEF BackupInv

--------------------------------------------------------------------------------
(* The steps, part by part. *)

(* A step that leaves the archives and the job as they are to LastTrue and *)
(* AgesTrue. *)
LEMMA ArchivesStay ==
  ASSUME BackupInv, UNCHANGED archives, job'.step = job.step \/ job'.step = "idle",
         job.step \in {"tar", "prune"} => job'.quiet = job.quiet,
         due' => due
  PROVE  BodiesTrue' /\ LastTrue' /\ AgesTrue'
<1>1. BodiesTrue'
  BY DEF BackupInv, BodiesTrue, BodyTrue
<1>2. LastTrue'
  BY DEF BackupInv, LastTrue
<1>3. AgesTrue'
  BY DEF BackupInv, AgesTrue
<1>4. QED
  BY <1>1, <1>2, <1>3

(* The jobs that own the data directory. *)
LEMMA DirectoryKeeps ==
  ASSUME BackupInv, BeginRewrite \/ EndRewrite \/ Capture \/ TearLedger
  PROVE  BackupInv'
<1>1. /\ job \in [step : {"idle", "counting", "copying", "tar", "prune"}, records : Sizes \cup {0},
                  captures : Captures, todo : SUBSET {"index", "ledger"}, quiet : BOOLEAN, staged : Stored]
      /\ index \in Sizes \cup {Torn, NoIndex} /\ ledger \in Ledger
  BY DEF BackupInv, BackupTyped
<1>2. ledger = [captures |-> ledger.captures, torn |-> ledger.torn] /\ ledger.captures \in Captures /\ ledger.torn \in BOOLEAN
  BY <1>1 DEF Ledger
<1>3. UNCHANGED <<archives, due, drill>> /\ faults' \in 0..MaxFaults
  BY BackupAssumption DEF BackupInv, BackupTyped, BeginRewrite, EndRewrite, Capture, TearLedger
<1>4. PICK quiet : quiet \in BOOLEAN /\ job' = [job EXCEPT !.quiet = quiet]
  <2>1. ASSUME NEW these, Disturb(these)
        PROVE  \E quiet \in BOOLEAN : job' = [job EXCEPT !.quiet = quiet]
    <3>1. PICK quiet : quiet = (job.quiet /\ job.todo \cap these = {} /\ job.step # "counting")
      OBVIOUS
    <3>2. quiet \in BOOLEAN
      BY <3>1
    <3>3. job' = [job EXCEPT !.quiet = quiet]
      <4>1. job' = [job EXCEPT !.quiet = job.quiet /\ job.todo \cap these = {} /\ job.step # "counting"]
        BY <2>1, Zenon DEF Disturb
      <4>2. QED
        BY ONLY <3>1, <4>1, Zenon
    <3>4. QED
      BY <3>2, <3>3
  <2>2. CASE BeginRewrite \/ EndRewrite
    BY <2>1, <2>2 DEF BeginRewrite, EndRewrite
  <2>3. CASE Capture
    <3>1. job' = [job EXCEPT !.quiet = job.quiet] /\ job.quiet \in BOOLEAN
      BY <1>1, <2>3 DEF Capture
    <3>2. QED
      BY <3>1
  <2>4. CASE TearLedger
    BY <2>1, <2>4 DEF TearLedger
  <2>5. QED
    BY <2>2, <2>3, <2>4
<1>5. /\ job'.step = job.step /\ job'.records = job.records /\ job'.captures = job.captures /\ job'.todo = job.todo
      /\ job'.staged = job.staged /\ job'.quiet = quiet
      /\ job' \in [step : {"idle", "counting", "copying", "tar", "prune"}, records : Sizes \cup {0},
                   captures : Captures, todo : SUBSET {"index", "ledger"}, quiet : BOOLEAN, staged : Stored]
  BY <1>1, <1>4
<1>6. /\ index' \in Sizes \cup {Torn, NoIndex}
      /\ index' # index => quiet = (job.quiet /\ "index" \notin job.todo /\ job.step # "counting")
  <2>1. CASE BeginRewrite \/ EndRewrite
    <3>1. Disturb({"index"}) /\ index' \in Sizes \cup {Torn}
      BY <2>1 DEF BeginRewrite, EndRewrite
    <3>2. job'.quiet = (job.quiet /\ job.todo \cap {"index"} = {} /\ job.step # "counting")
      BY <1>1, <3>1 DEF Disturb
    <3>3. QED
      BY <1>5, <3>1, <3>2
  <2>2. CASE Capture \/ TearLedger
    BY <1>1, <2>2 DEF Capture, TearLedger
  <2>3. QED
    BY <2>1, <2>2
<1>7. /\ ledger' \in Ledger /\ ledger'.captures >= ledger.captures
      /\ ledger'.torn # ledger.torn => quiet = (job.quiet /\ "ledger" \notin job.todo /\ job.step # "counting")
  <2>1. ledger.captures \in Nat /\ MaxCaptures \in Nat /\ ledger.captures \in 0..MaxCaptures
    BY <1>2, BackupAssumption DEF Captures
  <2>2. CASE BeginRewrite \/ EndRewrite
    BY <1>1, <2>1, <2>2 DEF BeginRewrite, EndRewrite
  <2>3. CASE Capture
    <3>1. ledger' = [captures |-> ledger.captures + 1, torn |-> ledger.torn] /\ ledger.captures < MaxCaptures
      BY <1>2, <2>3 DEF Capture
    <3>2. ledger'.captures = ledger.captures + 1 /\ ledger'.torn = ledger.torn
      BY <3>1
    <3>3. ledger.captures + 1 \in Captures /\ ledger.captures + 1 >= ledger.captures
      BY <2>1, <3>1 DEF Captures
    <3>4. ledger' \in Ledger
      BY <1>2, <3>1, <3>3 DEF Ledger
    <3>5. QED
      BY <3>2, <3>3, <3>4
  <2>4. CASE TearLedger
    <3>1. ledger' = [captures |-> ledger.captures, torn |-> TRUE] /\ Disturb({"ledger"})
      BY <1>2, <2>4 DEF TearLedger
    <3>2. job'.quiet = (job.quiet /\ job.todo \cap {"ledger"} = {} /\ job.step # "counting")
      BY <1>1, <3>1 DEF Disturb
    <3>3. ledger' \in Ledger /\ ledger'.captures >= ledger.captures
      BY <1>2, <2>1, <3>1 DEF Ledger
    <3>4. QED
      BY <1>5, <3>2, <3>3
  <2>5. QED
    BY <2>2, <2>3, <2>4
<1>8. quiet => job.quiet
  <2>1. ASSUME NEW these, Disturb(these) PROVE job'.quiet => job.quiet
    BY <1>1, <2>1 DEF Disturb
  <2>2. QED
    BY <1>5, <2>1 DEF BeginRewrite, EndRewrite, Capture, TearLedger
<1>9. job.step \in {"tar", "prune"} => quiet = job.quiet
  <2>1. CASE job.step \in {"tar", "prune"}
    <3>1. job.todo = {} /\ job.step # "counting"
      BY <2>1 DEF BackupInv, JobTrue
    <3>2. ASSUME NEW these, Disturb(these) PROVE job'.quiet = job.quiet
      BY <1>1, <3>1, <3>2 DEF Disturb
    <3>3. QED
      BY <1>5, <3>2 DEF BeginRewrite, EndRewrite, Capture, TearLedger
  <2>2. QED
    BY <2>1
<1>10. BackupTyped'
  BY <1>3, <1>5, <1>6, <1>7 DEF BackupInv, BackupTyped
<1>11. JobTrue'
  <2>1. job.step # "idle" => ~due' /\ job'.records \in Sizes
    BY <1>3, <1>5 DEF BackupInv, JobTrue
  <2>2. job.step = "counting" /\ quiet => index' = job.records
    BY <1>6, <1>8 DEF BackupInv, JobTrue
  <2>3. ASSUME CopyTrue PROVE CopyTrue'
    <3>1. PICK there : there = IF "ledger" \in job.todo THEN ledger ELSE job.staged.ledger
      OBVIOUS
    <3>2. PICK later : later = IF "ledger" \in job'.todo THEN ledger' ELSE job'.staged.ledger
      OBVIOUS
    <3>3. there.captures >= job.captures /\ (job.quiet => ~there.torn)
      BY <2>3, <3>1 DEF CopyTrue
    <3>4. later.captures >= there.captures
      <4>1. there.captures \in Nat
        BY <1>1, <3>1, BackupAssumption DEF Stored, Ledger, Captures
      <4>2. QED
        BY <1>5, <1>7, <3>1, <3>2, <4>1
    <3>5. quiet => ~later.torn
      BY <1>5, <1>7, <1>8, <3>1, <3>2, <3>3
    <3>6. later.captures >= job.captures
      <4>1. there.captures \in Int /\ later.captures \in Int /\ job.captures \in Int
        BY <1>1, <1>5, <1>7, <3>1, <3>2, BackupAssumption DEF Stored, Ledger, Captures
      <4>2. QED
        BY <3>3, <3>4, <4>1
    <3>7. quiet => job.records = IF "index" \in job'.todo THEN index' ELSE job'.staged.index
      BY <1>5, <1>6, <1>8, <2>3 DEF CopyTrue
    <3>8. QED
      BY <1>5, <3>2, <3>5, <3>6, <3>7 DEF CopyTrue
  <2>4. job.step \in {"copying", "tar", "prune"} => CopyTrue'
    BY <2>3 DEF BackupInv, JobTrue
  <2>5. job.step \in {"tar", "prune"} => job'.todo = {}
    BY <1>5 DEF BackupInv, JobTrue
  <2>6. QED
    BY <1>5, <2>1, <2>2, <2>4, <2>5 DEF JobTrue
<1>12. BodiesTrue' /\ LastTrue' /\ AgesTrue'
  BY <1>3, <1>5, <1>9, ArchivesStay
<1>13. QED
  BY <1>10, <1>11, <1>12 DEF BackupInv

(* What ends a run, refuses one or only reads. *)
LEMMA EndsKeep ==
  ASSUME BackupInv, RefuseBackup \/ TarFails \/ EndBackup \/ KillBackup \/ Drill
  PROVE  BackupInv'
<1>1. UNCHANGED <<index, ledger, archives>> /\ job' \in {job, NoJob} /\ (due' => due)
      /\ (job.step = "idle" => job' = job) /\ (due' = due \/ job' = job)
  BY DEF RefuseBackup, TarFails, EndBackup, KillBackup, Drill
<1>2. /\ due' \in BOOLEAN /\ drill' \in {"none", "passed", "failed"} /\ faults' \in 0..MaxFaults
  <2>1. due \in BOOLEAN /\ drill \in {"none", "passed", "failed"} /\ faults \in 0..MaxFaults /\ MaxFaults \in Nat
    BY BackupAssumption DEF BackupInv, BackupTyped
  <2>2. (due' = due \/ due' = FALSE) /\ (faults' = faults \/ (faults < MaxFaults /\ faults' = faults + 1))
    <3>1. CASE RefuseBackup
      BY <3>1 DEF RefuseBackup
    <3>2. CASE TarFails \/ KillBackup
      BY <3>2 DEF TarFails, KillBackup
    <3>3. CASE EndBackup \/ Drill
      BY <3>3 DEF EndBackup, Drill
    <3>4. QED
      BY <3>1, <3>2, <3>3
  <2>3. drill' = drill \/ drill' \in {"passed", "failed"}
    BY DEF RefuseBackup, TarFails, EndBackup, KillBackup, Drill
  <2>4. due' \in BOOLEAN /\ drill' \in {"none", "passed", "failed"}
    BY <2>1, <2>2, <2>3
  <2>5. faults' \in 0..MaxFaults
    BY <2>1, <2>2
  <2>6. QED
    BY <2>4, <2>5
<1>3. /\ NoJob \in [step : {"idle", "counting", "copying", "tar", "prune"}, records : Sizes \cup {0},
                    captures : Captures, todo : SUBSET {"index", "ledger"}, quiet : BOOLEAN, staged : Stored]
      /\ NoJob.step = "idle"
  <2>1. 0 \in Captures
    BY BackupAssumption DEF Captures
  <2>2. QED
    BY <2>1 DEF NoJob, Stored, Ledger
<1>4. BackupTyped'
  BY <1>1, <1>2, <1>3 DEF BackupInv, BackupTyped
<1>5. JobTrue'
  <2>1. CASE job' = job
    <3>1. JobTrue
      BY DEF BackupInv
    <3>2. job.step # "idle" => ~due'
      BY <1>1, <3>1 DEF JobTrue
    <3>3. QED
      BY <1>1, <2>1, <3>1, <3>2 DEF JobTrue, CopyTrue
  <2>2. CASE job' = NoJob
    BY <1>3, <2>2 DEF JobTrue
  <2>3. QED
    BY <1>1, <2>1, <2>2
<1>6. BodiesTrue' /\ LastTrue' /\ AgesTrue'
  <2>1. (job'.step = job.step /\ job'.quiet = job.quiet) \/ job'.step = "idle"
    BY <1>1, <1>3
  <2>2. BodiesTrue'
    BY <1>1 DEF BackupInv, BodiesTrue, BodyTrue
  <2>3. LastTrue'
    BY <1>1, <2>1 DEF BackupInv, LastTrue
  <2>4. AgesTrue'
    BY <1>1, <2>1 DEF BackupInv, AgesTrue
  <2>5. QED
    BY <2>2, <2>3, <2>4
<1>7. QED
  BY <1>4, <1>5, <1>6 DEF BackupInv

(* The run that begins: the index is counted, then the ledger. *)
LEMMA CountKeeps ==
  ASSUME BackupInv, StartBackup \/ CountCaptures
  PROVE  BackupInv'
<1>1. UNCHANGED <<index, ledger, archives, drill, faults>> /\ due' = FALSE
  BY DEF BackupInv, JobTrue, StartBackup, CountCaptures
<1>2. index \in Sizes \cup {Torn, NoIndex} /\ ledger \in Ledger /\ 0 \in Captures
  BY BackupAssumption DEF BackupInv, BackupTyped, Captures
<1>3. PICK staged : staged = [index |-> NoIndex, ledger |-> [captures |-> 0, torn |-> FALSE]]
  OBVIOUS
<1>4. staged \in Stored
  BY <1>2, <1>3 DEF Stored, Ledger
<1>5. NoJob = [step |-> "idle", records |-> 0, captures |-> 0, todo |-> {}, quiet |-> TRUE, staged |-> staged]
  BY <1>3 DEF NoJob
<1>6. /\ job' \in [step : {"idle", "counting", "copying", "tar", "prune"}, records : Sizes \cup {0},
                   captures : Captures, todo : SUBSET {"index", "ledger"}, quiet : BOOLEAN, staged : Stored]
      /\ JobTrue'
      /\ job'.step \in {"counting", "copying"} => due \/ job.step \in {"counting", "copying"}
      /\ job'.step \notin {"tar", "prune"}
  <2>1. CASE StartBackup
    <3>1. /\ job' = [step |-> "counting", records |-> index, captures |-> 0, todo |-> {}, quiet |-> TRUE,
                     staged |-> staged]
          /\ due /\ index \in Sizes
      BY <1>5, <2>1 DEF StartBackup
    <3>2. JobTrue'
      BY <1>1, <3>1 DEF JobTrue
    <3>3. QED
      BY <1>2, <1>4, <3>1, <3>2
  <2>2. CASE CountCaptures /\ ledger.torn
    <3>1. job' = [step |-> "idle", records |-> 0, captures |-> 0, todo |-> {}, quiet |-> TRUE, staged |-> staged]
      BY <1>5, <2>2 DEF CountCaptures
    <3>2. JobTrue'
      BY <3>1 DEF JobTrue
    <3>3. QED
      BY <1>2, <1>4, <3>1, <3>2
  <2>3. CASE CountCaptures /\ ~ledger.torn
    <3>1. /\ job \in [step : {"idle", "counting", "copying", "tar", "prune"}, records : Sizes \cup {0},
                      captures : Captures, todo : SUBSET {"index", "ledger"}, quiet : BOOLEAN, staged : Stored]
          /\ job.records \in Sizes /\ (job.quiet => index = job.records) /\ job.step = "counting"
      BY <2>3 DEF BackupInv, BackupTyped, JobTrue, CountCaptures
    <3>2. job' = [step |-> "copying", records |-> job.records, captures |-> ledger.captures,
                  todo |-> {"index", "ledger"}, quiet |-> job.quiet, staged |-> job.staged]
      BY <2>3, <3>1 DEF CountCaptures
    <3>3. ledger.captures \in Captures /\ ledger.captures >= ledger.captures
      BY <1>2, BackupAssumption DEF Ledger, Captures
    <3>4. CopyTrue'
      BY <1>1, <2>3, <3>1, <3>2, <3>3 DEF CopyTrue
    <3>5. JobTrue'
      BY <1>1, <3>1, <3>2, <3>4 DEF JobTrue
    <3>6. QED
      BY <3>1, <3>2, <3>3, <3>5
  <2>4. QED
    BY <2>1, <2>2, <2>3
<1>7. BackupTyped'
  BY <1>1, <1>6 DEF BackupInv, BackupTyped
<1>8. BodiesTrue' /\ LastTrue' /\ AgesTrue'
  <2>1. BodiesTrue'
    BY <1>1 DEF BackupInv, BodiesTrue, BodyTrue
  <2>2. LastTrue'
    BY <1>6 DEF LastTrue
  <2>3. AgesTrue'
    BY <1>1, <1>6 DEF BackupInv, AgesTrue
  <2>4. QED
    BY <2>1, <2>2, <2>3
<1>9. QED
  BY <1>6, <1>7, <1>8 DEF BackupInv

(* A file that is copied is copied as it is. *)
LEMMA CopyKeeps ==
  ASSUME BackupInv, Copy
  PROVE  BackupInv'
<1>1. UNCHANGED <<index, ledger, archives, due, drill, faults>> /\ job.step = "copying"
  BY DEF Copy
<1>2. /\ job \in [step : {"idle", "counting", "copying", "tar", "prune"}, records : Sizes \cup {0},
                  captures : Captures, todo : SUBSET {"index", "ledger"}, quiet : BOOLEAN, staged : Stored]
      /\ index \in Sizes \cup {Torn, NoIndex} /\ ledger \in Ledger
  BY DEF BackupInv, BackupTyped
<1>3. PICK file \in job.todo :
         job' = [job EXCEPT !.todo = @ \ {file},
                            !.staged.index = IF file = "index" THEN index ELSE @,
                            !.staged.ledger = IF file = "ledger" THEN ledger ELSE @]
  BY DEF Copy
<1>4. PICK staged : staged = [index |-> IF file = "index" THEN index ELSE job.staged.index,
                              ledger |-> IF file = "ledger" THEN ledger ELSE job.staged.ledger]
  OBVIOUS
<1>5. job.staged = [index |-> job.staged.index, ledger |-> job.staged.ledger] /\ job.staged \in Stored
  BY <1>2 DEF Stored
<1>6. job' = [step |-> job.step, records |-> job.records, captures |-> job.captures, todo |-> job.todo \ {file},
              quiet |-> job.quiet, staged |-> staged]
  BY <1>2, <1>3, <1>4, <1>5
<1>7. staged \in Stored
  BY <1>2, <1>4, <1>5 DEF Stored
<1>8. BackupTyped'
  BY <1>1, <1>2, <1>6, <1>7 DEF BackupInv, BackupTyped
<1>9. CopyTrue /\ job.records \in Sizes /\ ~due
  BY <1>1 DEF BackupInv, JobTrue
<1>10. (IF "ledger" \in job'.todo THEN ledger' ELSE job'.staged.ledger)
        = IF "ledger" \in job.todo THEN ledger ELSE job.staged.ledger
  BY <1>1, <1>4, <1>6
<1>11. (IF "index" \in job'.todo THEN index' ELSE job'.staged.index)
        = IF "index" \in job.todo THEN index ELSE job.staged.index
  BY <1>1, <1>4, <1>6
<1>12. job'.quiet = job.quiet /\ job'.captures = job.captures /\ job'.records = job.records /\ job'.step = "copying"
  BY <1>1, <1>6
<1>13. CopyTrue'
  BY <1>9, <1>10, <1>11, <1>12 DEF CopyTrue
<1>14. JobTrue'
  BY <1>1, <1>9, <1>12, <1>13 DEF JobTrue
<1>15. BodiesTrue' /\ LastTrue' /\ AgesTrue'
  BY <1>1, <1>12, ArchivesStay
<1>16. QED
  BY <1>8, <1>14, <1>15 DEF BackupInv

(* tar puts a new archive last, which is of this night. *)
LEMMA TarBeginsKeeps ==
  ASSUME BackupInv, TarBegins
  PROVE  BackupInv'
<1>1. /\ UNCHANGED <<index, ledger, due, drill, faults>> /\ job.step = "copying" /\ job.todo = {}
      /\ job' = [job EXCEPT !.step = "tar"]
      /\ archives' = Append(archives, [stamped |-> TRUE, age |-> 0, quiet |-> job.quiet, body |-> Partial])
  BY DEF TarBegins
<1>2. /\ job \in [step : {"idle", "counting", "copying", "tar", "prune"}, records : Sizes \cup {0},
                  captures : Captures, todo : SUBSET {"index", "ledger"}, quiet : BOOLEAN, staged : Stored]
      /\ archives \in Seq(Archive)
  BY DEF BackupInv, BackupTyped
<1>3. PICK a : a = [stamped |-> TRUE, age |-> 0, quiet |-> job.quiet, body |-> Partial]
  OBVIOUS
<1>4. a \in Archive
  BY <1>2, <1>3, BackupAssumption DEF Archive
<1>5. PICK n : n = Len(archives) /\ n \in Nat
  BY <1>2
<1>6. archives' = Append(archives, a)
  BY <1>1, <1>3
<1>7. /\ archives' \in Seq(Archive) /\ Len(archives') = n + 1 /\ archives'[n + 1] = a
      /\ \A i \in 1..n : archives'[i] = archives[i]
  BY <1>2, <1>4, <1>5, <1>6
<1>8. job' = [step |-> "tar", records |-> job.records, captures |-> job.captures, todo |-> job.todo,
              quiet |-> job.quiet, staged |-> job.staged]
  BY <1>1, <1>2
<1>9. BackupTyped'
  BY <1>1, <1>2, <1>7, <1>8 DEF BackupInv, BackupTyped
<1>10. \A i \in 1..n + 1 : i \in 1..n \/ i = n + 1
  BY <1>5
<1>11. BodiesTrue'
  <2>1. BodyTrue(a)
    BY <1>3 DEF BodyTrue
  <2>2. \A i \in 1..n : BodyTrue(archives[i])
    BY <1>5 DEF BackupInv, BodiesTrue
  <2>3. \A i \in 1..n + 1 : BodyTrue(archives'[i])
    BY <1>7, <1>10, <2>1, <2>2
  <2>4. QED
    BY <1>7, <2>3 DEF BodiesTrue, BodyTrue
<1>12. JobTrue'
  <2>1. CopyTrue /\ job.records \in Sizes /\ ~due
    BY <1>1 DEF BackupInv, JobTrue
  <2>2. CopyTrue'
    BY <1>1, <1>8, <2>1 DEF CopyTrue
  <2>3. QED
    BY <1>1, <1>8, <2>1, <2>2 DEF JobTrue
<1>13. LastTrue'
  <2>1. archives' # <<>> /\ archives'[Len(archives')] = a
    BY <1>5, <1>7
  <2>2. a.stamped /\ a.age = 0 /\ a.quiet = job'.quiet /\ a.body = Partial /\ job'.step = "tar"
    BY <1>3, <1>8
  <2>3. QED
    BY <2>1, <2>2 DEF LastTrue
<1>14. AgesTrue'
  <2>1. /\ \A i, k \in 1..n : i < k => archives[i].age > archives[k].age \/ archives[i].age = KeepDays + 1
        /\ \A i \in 1..n : archives[i].age >= 1
    BY <1>1, <1>5 DEF BackupInv, AgesTrue
  <2>2. a.age = 0
    BY <1>3
  <2>3. \A i \in 1..n : archives[i].age \in Int
    <3>1. \A i \in 1..n : archives[i] \in Archive
      BY <1>2, <1>5
    <3>2. \A b \in Archive : b.age \in 0..KeepDays + 1
      BY DEF Archive
    <3>3. 0..KeepDays + 1 \subseteq Int
      BY BackupAssumption
    <3>4. QED
      BY <3>1, <3>2, <3>3
  <2>4. ASSUME NEW i \in 1..n + 1, NEW k \in 1..n + 1, i < k
        PROVE  archives'[i].age > archives'[k].age \/ archives'[i].age = KeepDays + 1
    <3>1. i \in 1..n
      BY <1>5, <2>4
    <3>2. CASE k \in 1..n
      BY <1>7, <2>1, <2>4, <3>1, <3>2
    <3>3. CASE k = n + 1
      <4>1. archives'[k].age = 0 /\ archives'[i].age >= 1 /\ archives'[i].age \in Int
        BY <1>7, <2>1, <2>2, <2>3, <3>1, <3>3
      <4>2. QED
        BY <4>1
    <3>4. QED
      BY <1>10, <3>2, <3>3
  <2>5. ~due' /\ job'.step = "tar"
    BY <1>1, <1>8 DEF BackupInv, JobTrue
  <2>6. QED
    BY <1>7, <2>4, <2>5 DEF AgesTrue
<1>15. QED
  BY <1>9, <1>11, <1>12, <1>13, <1>14 DEF BackupInv

(* tar ends, and the archive is of what was staged. *)
LEMMA TarEndsKeeps ==
  ASSUME BackupInv, TarEnds
  PROVE  BackupInv'
<1>1. PICK n : n = Len(archives)
  OBVIOUS
<1>2. PICK body : body = [content |-> job.staged, manifest |-> BuildManifest]
  OBVIOUS
<1>3. /\ UNCHANGED <<index, ledger, due, drill, faults>> /\ job.step = "tar"
      /\ job' = [job EXCEPT !.step = "prune"]
      /\ archives' = [archives EXCEPT ![n].body = body]
  BY <1>1, <1>2 DEF TarEnds
<1>4. /\ job \in [step : {"idle", "counting", "copying", "tar", "prune"}, records : Sizes \cup {0},
                  captures : Captures, todo : SUBSET {"index", "ledger"}, quiet : BOOLEAN, staged : Stored]
      /\ archives \in Seq(Archive)
  BY DEF BackupInv, BackupTyped
<1>5. /\ CopyTrue /\ job.records \in Sizes /\ ~due /\ job.todo = {}
      /\ archives # <<>> /\ archives[n].stamped /\ archives[n].age = 0 /\ archives[n].quiet = job.quiet
  BY <1>1, <1>3 DEF BackupInv, JobTrue, LastTrue
<1>6. n \in Nat /\ n \in 1..n /\ n \in DOMAIN archives
  BY <1>1, <1>4, <1>5
<1>7. PICK old : old = archives[n]
  OBVIOUS
<1>8. PICK a : a = [old EXCEPT !.body = body]
  OBVIOUS
<1>9. old \in Archive
  BY <1>1, <1>4, <1>6, <1>7
<1>10. /\ body.content = job.staged /\ body.manifest.digest = job.staged
       /\ body.manifest.records = job.records /\ body.manifest.captures = job.captures
       /\ body \in Body
  <2>1. BuildManifest \in Manifest
    BY <1>4, <1>5 DEF BuildManifest, Manifest
  <2>2. body \in Body
    BY <1>2, <1>4, <2>1 DEF Body
  <2>3. QED
    BY <1>2, <2>2 DEF BuildManifest
<1>11. body # Partial
  BY <1>10, PartialAssumption
<1>12. /\ a = [stamped |-> old.stamped, age |-> old.age, quiet |-> old.quiet, body |-> body]
       /\ a \in Archive
  BY <1>8, <1>9, <1>10 DEF Archive
<1>13. a.stamped /\ a.age = 0 /\ a.quiet = job.quiet /\ a.body = body
  BY <1>5, <1>7, <1>12
<1>14. archives' = [archives EXCEPT ![n] = a]
  BY <1>3, <1>7, <1>8
<1>15. /\ archives' \in Seq(Archive) /\ Len(archives') = n /\ archives'[n] = a
       /\ \A i \in 1..n : i # n => archives'[i] = archives[i]
  BY <1>1, <1>4, <1>6, <1>12, <1>14
<1>16. job' = [step |-> "prune", records |-> job.records, captures |-> job.captures, todo |-> job.todo,
               quiet |-> job.quiet, staged |-> job.staged]
  BY <1>3, <1>4
<1>17. BackupTyped'
  BY <1>3, <1>4, <1>15, <1>16 DEF BackupInv, BackupTyped
<1>18. BodiesTrue'
  <2>1. BodyTrue(a)
    <3>1. job.staged.ledger.captures >= job.captures /\ (job.quiet => ~job.staged.ledger.torn)
      BY <1>5 DEF CopyTrue
    <3>2. job.quiet => job.records = job.staged.index
      BY <1>5 DEF CopyTrue
    <3>3. QED
      BY <1>10, <1>13, <3>1, <3>2 DEF BodyTrue
  <2>2. \A i \in 1..n : BodyTrue(archives[i])
    BY <1>1 DEF BackupInv, BodiesTrue
  <2>3. \A i \in 1..n : BodyTrue(archives'[i])
    BY <1>15, <2>1, <2>2
  <2>4. QED
    BY <1>15, <2>3 DEF BodiesTrue, BodyTrue
<1>19. JobTrue'
  <2>1. CopyTrue'
    BY <1>3, <1>5, <1>16 DEF CopyTrue
  <2>2. QED
    BY <1>3, <1>5, <1>16, <2>1 DEF JobTrue
<1>20. LastTrue'
  <2>1. archives' # <<>> /\ archives'[Len(archives')] = a /\ job'.quiet = job.quiet /\ job'.step = "prune"
    BY <1>6, <1>15, <1>16
  <2>2. QED
    BY <1>11, <1>13, <2>1 DEF LastTrue
<1>21. AgesTrue'
  <2>1. \A i, k \in 1..n : i < k => archives[i].age > archives[k].age \/ archives[i].age = KeepDays + 1
    BY <1>1 DEF BackupInv, AgesTrue
  <2>2. \A i \in 1..n : archives'[i].age = archives[i].age
    BY <1>5, <1>13, <1>15
  <2>3. ~due' /\ job'.step = "prune"
    BY <1>3, <1>5, <1>16
  <2>4. QED
    BY <1>15, <2>1, <2>2, <2>3 DEF AgesTrue
<1>22. QED
  BY <1>17, <1>18, <1>19, <1>20, <1>21 DEF BackupInv

(* What is pruned is stamped and too old, and the archive just made stays. *)
LEMMA PruneKeeps ==
  ASSUME BackupInv, Prune
  PROVE  BackupInv'
<1>1. PICK i \in Expired : archives' = RemoveAt(archives, i)
  BY DEF Prune
<1>2. UNCHANGED <<index, ledger, job, due, drill, faults>> /\ job.step = "prune"
  BY DEF Prune
<1>3. archives \in Seq(Archive)
  BY DEF BackupInv, BackupTyped
<1>4. PICK n : n = Len(archives) /\ n \in Nat
  BY <1>3
<1>5. i \in 1..n /\ \E k \in 1..n : k > i
  BY <1>1, <1>3, <1>4 DEF Expired
<1>6. i < n /\ n - 1 \in Nat
  BY <1>4, <1>5
<1>7. /\ archives' \in Seq(Archive) /\ Len(archives') = n - 1
      /\ \A k \in 1..n - 1 : archives'[k] = IF k < i THEN archives[k] ELSE archives[k + 1]
  <2>1. PICK after : after = archives'
    OBVIOUS
  <2>2. after = RemoveAt(archives, i) /\ i \in 1..Len(archives)
    BY <1>1, <1>4, <1>5, <2>1
  <2>3. /\ after \in Seq(Archive) /\ Len(after) = Len(archives) - 1
        /\ \A k \in 1..Len(after) : after[k] = IF k < i THEN archives[k] ELSE archives[k + 1]
    BY ONLY <1>3, <2>2, RemoveAtFacts, SMTT(40)
  <2>4. QED
    BY <1>4, <2>1, <2>3
<1>8. BackupTyped'
  BY <1>2, <1>7 DEF BackupInv, BackupTyped
<1>9. ASSUME NEW k \in 1..n - 1
      PROVE  \E j \in 1..n : /\ archives'[k] = archives[j] /\ j = IF k < i THEN k ELSE k + 1
  <2>1. CASE k < i
    <3>1. k \in 1..n /\ archives'[k] = archives[k]
      BY <1>4, <1>7, <1>9, <2>1
    <3>2. QED
      BY <2>1, <3>1
  <2>2. CASE ~(k < i)
    <3>1. k + 1 \in 1..n /\ archives'[k] = archives[k + 1]
      BY <1>4, <1>7, <1>9, <2>2
    <3>2. QED
      BY <2>2, <3>1
  <2>3. QED
    BY <2>1, <2>2
<1>10. BodiesTrue'
  <2>1. \A k \in 1..n : BodyTrue(archives[k])
    BY <1>4 DEF BackupInv, BodiesTrue
  <2>2. \A k \in 1..n - 1 : BodyTrue(archives'[k])
    BY <1>9, <2>1
  <2>3. QED
    BY <1>7, <2>2 DEF BodiesTrue, BodyTrue
<1>11. JobTrue'
  BY <1>2 DEF BackupInv, JobTrue, CopyTrue
<1>12. LastTrue'
  <2>1. n - 1 \in 1..n - 1 /\ ~(n - 1 < i) /\ (n - 1) + 1 = n
    BY <1>4, <1>5, <1>6
  <2>2. archives'[n - 1] = archives[n]
    BY <1>7, <2>1
  <2>3. archives' # <<>>
    BY <1>7, <2>1
  <2>4. QED
    BY <1>2, <1>4, <1>7, <2>2, <2>3 DEF BackupInv, LastTrue
<1>13. AgesTrue'
  <2>1. \A j, k \in 1..n : j < k => archives[j].age > archives[k].age \/ archives[j].age = KeepDays + 1
    BY <1>4 DEF BackupInv, AgesTrue
  <2>2. ASSUME NEW j \in 1..n - 1, NEW k \in 1..n - 1, j < k
        PROVE  archives'[j].age > archives'[k].age \/ archives'[j].age = KeepDays + 1
    <3>1. PICK a \in 1..n : archives'[j] = archives[a] /\ a = IF j < i THEN j ELSE j + 1
      BY <1>9
    <3>2. PICK b \in 1..n : archives'[k] = archives[b] /\ b = IF k < i THEN k ELSE k + 1
      BY <1>9
    <3>3. a < b
      BY <1>4, <1>5, <2>2, <3>1, <3>2
    <3>4. QED
      BY <2>1, <3>1, <3>2, <3>3
  <2>3. ~due
    BY <1>2 DEF BackupInv, JobTrue
  <2>4. QED
    BY <1>2, <1>7, <2>2, <2>3 DEF AgesTrue
<1>14. QED
  BY <1>8, <1>10, <1>11, <1>12, <1>13 DEF BackupInv

(* Every archive gets a day older, up to the age at which it is too old. *)
LEMMA NightKeeps ==
  ASSUME BackupInv, Night
  PROVE  BackupInv'
<1>1. PICK n : n = Len(archives)
  OBVIOUS
<1>2. /\ UNCHANGED <<index, ledger, job, faults>> /\ job.step = "idle" /\ due' = TRUE /\ drill' = "none"
      /\ archives' = [i \in DOMAIN archives |->
                        [archives[i] EXCEPT !.age = IF @ > KeepDays THEN @ ELSE @ + 1]]
  BY DEF Night
<1>3. archives \in Seq(Archive) /\ KeepDays \in Nat
  BY BackupAssumption DEF BackupInv, BackupTyped
<1>4. n \in Nat /\ DOMAIN archives = 1..n /\ \A i \in 1..n : archives[i] \in Archive
  BY <1>1, <1>3
<1>5. ASSUME NEW i \in 1..n
      PROVE  /\ archives'[i] \in Archive
             /\ archives'[i].quiet = archives[i].quiet /\ archives'[i].body = archives[i].body
             /\ archives'[i].age = IF archives[i].age > KeepDays THEN archives[i].age ELSE archives[i].age + 1
             /\ archives[i].age \in 0..KeepDays + 1
  <2>1. PICK a : a = archives[i]
    OBVIOUS
  <2>2. PICK age : age = IF a.age > KeepDays THEN a.age ELSE a.age + 1
    OBVIOUS
  <2>3. a \in Archive /\ a.age \in 0..KeepDays + 1
    BY <1>4, <2>1 DEF Archive
  <2>4. age \in 0..KeepDays + 1
    BY <1>3, <2>2, <2>3
  <2>5. archives'[i] = [stamped |-> a.stamped, age |-> age, quiet |-> a.quiet, body |-> a.body]
    BY <1>2, <1>4, <2>1, <2>2, <2>3 DEF Archive
  <2>6. archives'[i] \in Archive
    BY <2>3, <2>4, <2>5 DEF Archive
  <2>7. QED
    BY <2>1, <2>2, <2>3, <2>5, <2>6
<1>6. archives' \in Seq(Archive) /\ Len(archives') = n
  <2>1. PICK f : f = archives'
    OBVIOUS
  <2>2. f = [i \in 1..n |-> f[i]]
    BY <1>2, <1>4, <2>1
  <2>3. \A i \in 1..n : f[i] \in Archive
    BY <1>5, <2>1
  <2>4. f \in Seq(Archive) /\ Len(f) = n
    BY ONLY <1>4, <2>2, <2>3
  <2>5. QED
    BY <2>1, <2>4
<1>7. BackupTyped'
  BY <1>2, <1>6 DEF BackupInv, BackupTyped
<1>8. BodiesTrue'
  <2>1. \A i \in 1..n : BodyTrue(archives[i])
    BY <1>1 DEF BackupInv, BodiesTrue
  <2>2. \A i \in 1..n : BodyTrue(archives'[i])
    BY <1>5, <2>1 DEF BodyTrue
  <2>3. QED
    BY <1>6, <2>2 DEF BodiesTrue, BodyTrue
<1>9. JobTrue' /\ LastTrue'
  BY <1>2 DEF JobTrue, LastTrue
<1>10. AgesTrue'
  <2>1. \A i, k \in 1..n : i < k => archives[i].age > archives[k].age \/ archives[i].age = KeepDays + 1
    BY <1>1 DEF BackupInv, AgesTrue
  <2>2. ASSUME NEW i \in 1..n, NEW k \in 1..n, i < k
        PROVE  archives'[i].age > archives'[k].age \/ archives'[i].age = KeepDays + 1
    <3>1. PICK p, q : p = archives[i].age /\ q = archives[k].age
      OBVIOUS
    <3>2. p \in 0..KeepDays + 1 /\ q \in 0..KeepDays + 1 /\ (p > q \/ p = KeepDays + 1)
      BY <1>5, <2>1, <2>2, <3>1
    <3>3. /\ archives'[i].age = IF p > KeepDays THEN p ELSE p + 1
          /\ archives'[k].age = IF q > KeepDays THEN q ELSE q + 1
      BY <1>5, <3>1
    <3>4. QED
      BY <1>3, <3>2, <3>3
  <2>3. \A i \in 1..n : archives'[i].age >= 1
    BY <1>3, <1>5
  <2>4. QED
    BY <1>6, <2>2, <2>3 DEF AgesTrue
<1>11. QED
  BY <1>7, <1>8, <1>9, <1>10 DEF BackupInv

LEMMA BackupSpecInv == BackupSpec => []BackupInv
<1>1. BackupInv /\ [BackupNext]_backupVars => BackupInv'
  <2> SUFFICES ASSUME BackupInv, [BackupNext]_backupVars PROVE BackupInv'
    OBVIOUS
  <2>1. CASE BeginRewrite \/ EndRewrite \/ Capture \/ TearLedger
    BY <2>1, DirectoryKeeps
  <2>2. CASE RefuseBackup \/ TarFails \/ EndBackup \/ KillBackup \/ Drill
    BY <2>2, EndsKeep
  <2>3. CASE StartBackup \/ CountCaptures
    BY <2>3, CountKeeps
  <2>4. CASE Copy
    BY <2>4, CopyKeeps
  <2>5. CASE TarBegins
    BY <2>5, TarBeginsKeeps
  <2>6. CASE TarEnds
    BY <2>6, TarEndsKeeps
  <2>7. CASE Prune
    BY <2>7, PruneKeeps
  <2>8. CASE Night
    BY <2>8, NightKeeps
  <2>9. CASE UNCHANGED backupVars
    <3>1. UNCHANGED <<index, ledger, archives, job, due, drill, faults>>
      BY <2>9 DEF backupVars
    <3>2. BodiesTrue' /\ LastTrue' /\ AgesTrue'
      BY <3>1, ArchivesStay
    <3>3. BackupTyped' /\ JobTrue'
      BY <3>1 DEF BackupInv, BackupTyped, JobTrue, CopyTrue
    <3>4. QED
      BY <3>2, <3>3 DEF BackupInv
  <2>10. QED
    BY <2>1, <2>2, <2>3, <2>4, <2>5, <2>6, <2>7, <2>8, <2>9 DEF BackupNext
<1>2. QED
  BY <1>1, BackupInitInv, PTL DEF BackupSpec

--------------------------------------------------------------------------------
(* What the archives are worth. *)

LEMMA ArchivesAreWorth ==
  ASSUME BackupInv
  PROVE  BackupTypeOK /\ DrillIsProof /\ QuietBackupPasses
<1>1. PICK n : n = Len(archives) /\ n \in Nat /\ DOMAIN archives = 1..n
  BY DEF BackupInv, BackupTyped
<1>2. \A i \in 1..n : BodyTrue(archives[i]) /\ archives[i] \in Archive
  BY <1>1 DEF BackupInv, BackupTyped, BodiesTrue
<1>3. BackupTypeOK
  BY <1>1, <1>2 DEF BackupInv, BackupTyped, BackupTypeOK
<1>4. ASSUME NEW a \in Archive, a.body # Partial PROVE a.body.manifest.records \in Sizes
  BY <1>4 DEF Archive, Body, Manifest
<1>5. DrillIsProof
  <2>1. ASSUME NEW i \in 1..n, Passes(archives[i].body), archives[i].body.manifest.captures > 0
        PROVE  Restorable(archives[i])
    BY <1>2, <1>4, <2>1 DEF BodyTrue, Passes, LedgerPasses, ServiceAgrees, Restorable
  <2>2. QED
    BY <1>1, <2>1 DEF DrillIsProof
<1>6. QuietBackupPasses
  BY <1>1, <1>2 DEF QuietBackupPasses, BodyTrue, Passes, verifyRestored, LedgerPasses, ServiceAgrees
<1>7. QED
  BY <1>3, <1>5, <1>6

(* The archive just made is restorable, unless the copy was disturbed, and *)
(* pruning leaves it. *)
LEMMA PruneLeavesOne ==
  ASSUME BackupInv, BackupNext, SomeRestorable(archives), ~SomeRestorable(archives')
  PROVE  ~job.quiet
<1>1. PICK n : n = Len(archives) /\ n \in Nat /\ DOMAIN archives = 1..n
  BY DEF BackupInv, BackupTyped
<1>2. archives \in Seq(Archive) /\ \A i \in 1..n : archives[i] \in Archive
  BY <1>1 DEF BackupInv, BackupTyped
<1>3. PICK i \in 1..n : Restorable(archives[i])
  BY <1>1 DEF SomeRestorable
<1>4. archives' # archives
  BY DEF SomeRestorable
<1>5. CASE TarBegins
  <2>1. PICK a : archives' = Append(archives, a) /\ a = [stamped |-> TRUE, age |-> 0, quiet |-> job.quiet, body |-> Partial]
    BY <1>5 DEF TarBegins
  <2>2. PICK U : U = Archive \cup {a}
    OBVIOUS
  <2>3. archives \in Seq(U) /\ a \in U
    BY <1>2, <2>2
  <2>4. i \in DOMAIN archives' /\ archives'[i] = archives[i]
    BY <1>1, <2>1, <2>3
  <2>5. QED
    BY <1>3, <2>4 DEF SomeRestorable
<1>6. CASE TarEnds
  <2>1. PICK body : archives' = [archives EXCEPT ![n].body = body]
    BY <1>1, <1>6 DEF TarEnds
  <2>2. i # n
    BY <1>1, <1>3, <1>6 DEF BackupInv, LastTrue, TarEnds, Restorable
  <2>3. i \in DOMAIN archives' /\ archives'[i] = archives[i]
    BY <1>1, <2>1, <2>2
  <2>4. QED
    BY <1>3, <2>3 DEF SomeRestorable
<1>7. CASE Prune
  <2>1. PICK k \in Expired : archives' = RemoveAt(archives, k)
    BY <1>7 DEF Prune
  <2>2. k \in 1..n /\ k < n
    BY <1>1, <2>1 DEF Expired
  <2>3. PICK after : after = archives' /\ after = RemoveAt(archives, k) /\ k \in 1..Len(archives)
    BY <1>1, <2>1, <2>2
  <2>4. /\ after \in Seq(Archive) /\ Len(after) = Len(archives) - 1
        /\ \A j \in 1..Len(after) : after[j] = IF j < k THEN archives[j] ELSE archives[j + 1]
    BY ONLY <1>2, <2>3, RemoveAtFacts, SMTT(40)
  <2>5. after[n - 1] = archives[n] /\ n - 1 \in DOMAIN after /\ n \in 1..n
    BY <1>1, <2>2, <2>4
  <2>6. ~Restorable(archives[n])
    BY <2>3, <2>5 DEF SomeRestorable
  <2>7. archives[n].quiet = job.quiet /\ archives[n].body # Partial
    BY <1>1, <1>7 DEF BackupInv, LastTrue, Prune
  <2>8. BodyTrue(archives[n]) /\ archives[n] \in Archive
    BY <1>1, <1>2, <2>5 DEF BackupInv, BodiesTrue
  <2>9. archives[n].body.manifest.records \in Sizes
    BY <2>7, <2>8 DEF Archive, Body, Manifest
  <2>10. QED
    BY <2>6, <2>7, <2>8, <2>9 DEF BodyTrue, Restorable
<1>8. CASE Night
  <2>1. i \in DOMAIN archives' /\ archives'[i].body = archives[i].body
    BY <1>1, <1>2, <1>8 DEF Night, Archive
  <2>2. QED
    BY <1>3, <2>1 DEF SomeRestorable, Restorable
<1>9. QED
  BY <1>4, <1>5, <1>6, <1>7, <1>8
     DEF BackupNext, BeginRewrite, EndRewrite, Capture, TearLedger, RefuseBackup, StartBackup, CountCaptures,
         Copy, TarFails, EndBackup, KillBackup, Drill

(* Where two removals leave the same, the archives next to it are the same. *)
LEMMA SameLeft ==
  ASSUME NEW s \in Seq(Archive), NEW r \in 1..Len(s), NEW i \in 1..Len(s), r < i
  PROVE  RemoveAt(s, r) = RemoveAt(s, i) => s[i] = s[i - 1] /\ i - 1 \in 1..Len(s)
<1>1. PICK t : t = RemoveAt(s, r)
  OBVIOUS
<1>2. PICK u : u = RemoveAt(s, i)
  OBVIOUS
<1>3. /\ t \in Seq(Archive) /\ Len(t) = Len(s) - 1
      /\ \A k \in 1..Len(t) : t[k] = IF k < r THEN s[k] ELSE s[k + 1]
  BY ONLY <1>1, RemoveAtFacts, SMTT(40)
<1>4. /\ u \in Seq(Archive) /\ Len(u) = Len(s) - 1
      /\ \A k \in 1..Len(u) : u[k] = IF k < i THEN s[k] ELSE s[k + 1]
  BY ONLY <1>2, RemoveAtFacts, SMTT(40)
<1>5. PICK n : n = Len(s) /\ n \in Nat
  OBVIOUS
<1>6. i - 1 \in 1..Len(t) /\ i - 1 \in 1..Len(u) /\ ~(i - 1 < r) /\ i - 1 < i /\ (i - 1) + 1 = i /\ i - 1 \in 1..n
  BY <1>3, <1>4, <1>5
<1>7. t[i - 1] = s[i] /\ u[i - 1] = s[i - 1]
  BY <1>3, <1>4, <1>6
<1>8. QED
  BY <1>1, <1>2, <1>5, <1>6, <1>7

(* The one archive that could have been removed is the one too old, or one *)
(* of the same age that is as it is. *)
LEMMA RemovedIsExpired ==
  ASSUME BackupInv, BackupNext, NEW i \in DOMAIN archives,
         Len(archives') < Len(archives), archives' = RemoveAt(archives, i)
  PROVE  /\ archives[i].age > KeepDays
         /\ \E j \in DOMAIN archives : j > i
<1>1. PICK n : n = Len(archives) /\ n \in Nat /\ DOMAIN archives = 1..n
  BY DEF BackupInv, BackupTyped
<1>2. archives \in Seq(Archive) /\ KeepDays \in Nat /\ i \in 1..n
  BY <1>1, BackupAssumption DEF BackupInv, BackupTyped
<1>3. \A k \in 1..n : archives[k].age \in 0..KeepDays + 1
  <2>1. \A k \in 1..n : archives[k] \in Archive
    BY <1>1, <1>2
  <2>2. QED
    BY <2>1 DEF Archive
<1>4. Prune
  <2>1. ~Night
    <3>1. Night => archives' = [k \in 1..n |-> archives'[k]]
      BY <1>1 DEF Night
    <3>2. Night => Len(archives') = n
      BY <1>1, <3>1
    <3>3. QED
      BY <1>1, <3>2
  <2>2. ~TarBegins
    <3>1. ASSUME NEW a, archives' = Append(archives, a) PROVE Len(archives') = n + 1
      <4>1. PICK U : U = Archive \cup {a}
        OBVIOUS
      <4>2. archives \in Seq(U) /\ a \in U
        BY <1>2, <4>1
      <4>3. QED
        BY <1>1, <3>1, <4>2
    <3>2. QED
      BY <1>1, <3>1 DEF TarBegins
  <2>3. ~TarEnds
    <3>1. TarEnds => Len(archives') = n
      BY <1>1, <1>2 DEF TarEnds
    <3>2. QED
      BY <1>1, <3>1
  <2>4. archives' # archives
    BY <1>1
  <2>5. QED
    BY <2>1, <2>2, <2>3, <2>4
       DEF BackupNext, BeginRewrite, EndRewrite, Capture, TearLedger, RefuseBackup, StartBackup, CountCaptures,
           Copy, TarFails, EndBackup, KillBackup, Drill
<1>5. PICK r \in Expired : archives' = RemoveAt(archives, r)
  BY <1>4 DEF Prune
<1>6. r \in 1..n /\ r < n /\ archives[r].age = KeepDays + 1
  <2>1. r \in 1..n /\ archives[r].age > KeepDays /\ \E j \in 1..n : j > r
    BY <1>1, <1>5 DEF Expired
  <2>2. QED
    BY <1>1, <1>2, <1>3, <2>1
<1>7. \A j, k \in 1..n : j < k => archives[j].age > archives[k].age \/ archives[j].age = KeepDays + 1
  BY <1>1 DEF BackupInv, AgesTrue
<1>8. CASE i < r
  <2>1. archives[i].age = KeepDays + 1
    BY <1>2, <1>3, <1>6, <1>7, <1>8
  <2>2. QED
    BY <1>1, <1>2, <1>6, <1>8, <2>1
<1>9. CASE i = r
  BY <1>1, <1>2, <1>6, <1>9
<1>10. CASE i > r
  <2>1. /\ r \in 1..Len(archives) /\ i \in 1..Len(archives) /\ r < i
        /\ RemoveAt(archives, i) = RemoveAt(archives, r)
    BY <1>1, <1>2, <1>5, <1>6, <1>10
  <2>2. archives[i] = archives[i - 1] /\ i - 1 \in 1..Len(archives)
    BY <1>2, <2>1, SameLeft
  <2>3. i - 1 \in 1..n /\ i - 1 < i
    BY <1>1, <1>2, <2>2
  <2>4. archives[i - 1] = archives[i]
    BY <2>2
  <2>5. archives[i - 1].age > archives[i].age \/ archives[i - 1].age = KeepDays + 1
    BY <1>2, <1>7, <2>3
  <2>6. archives[i].age = KeepDays + 1
    <3>1. PICK p, q : p = archives[i - 1].age /\ q = archives[i].age
      OBVIOUS
    <3>2. p \in 0..KeepDays + 1 /\ q \in 0..KeepDays + 1
      BY <1>2, <1>3, <2>3, <3>1
    <3>3. p = q /\ (p > q \/ p = KeepDays + 1)
      BY <2>4, <2>5, <3>1
    <3>4. QED
      BY <1>2, <3>1, <3>2, <3>3
  <2>7. archives[n].age = 0
    BY <1>1, <1>4 DEF BackupInv, LastTrue, Prune
  <2>8. i < n
    BY <1>1, <1>2, <2>6, <2>7
  <2>9. QED
    BY <1>1, <1>2, <2>6, <2>8
<1>11. QED
  BY <1>1, <1>2, <1>6, <1>8, <1>9, <1>10

(* However the index and the ledger move while they are copied, and        *)
(* whatever tar and cron do: a drill that passes proves the archive, a     *)
(* quiet night gives one that passes, and pruning takes only what is too   *)
(* old and never the last that restores, unless the copy was disturbed.    *)
THEOREM BackupsAlwaysRestore == BackupSpec => BackupsRestore
<1>1. BackupInv => BackupTypeOK /\ DrillIsProof /\ QuietBackupPasses
  BY ArchivesAreWorth
<1>2. BackupInv /\ [BackupNext]_backupVars =>
         [SomeRestorable(archives) /\ ~SomeRestorable(archives') => ~job.quiet]_backupVars
  BY PruneLeavesOne
<1>3. BackupInv /\ [BackupNext]_backupVars =>
         [\A i \in DOMAIN archives :
            (Len(archives') < Len(archives) /\ archives' = RemoveAt(archives, i)) =>
                /\ archives[i].age > KeepDays
                /\ \E j \in DOMAIN archives : j > i]_backupVars
  BY RemovedIsExpired
<1>4. QED
  BY <1>1, <1>2, <1>3, BackupSpecInv, PTL DEF BackupSpec, BackupsRestore, LastRestorableKept, OnlyExpiredRemoved

--------------------------------------------------------------------------------
(* The inventory page.                                                     *)

(* What an item says of its entry. *)
LEMMA ItemFacts ==
  ASSUME NEW entry, NEW all, NEW of, NEW selection, NEW item, item = ItemOf(entry, all, of, selection)
  PROVE  /\ item.id = entry.id /\ item.input = entry.input
         /\ item.state = "matched" =>
              /\ ~Duplicate(entry, all)
              /\ SelectedState(entry.input, item.selected, of) = "matched"
         /\ item.selected # Nil =>
              LET matches == candidatesFor(entry.input, of)
              IN  \/ selection # Nil /\ item.selected = selection
                  \/ item.selected \in Automatic(entry.input, matches)
<1>1. PICK matches : matches = candidatesFor(entry.input, of)
  OBVIOUS
<1>2. PICK chosen : chosen = IF selection = Nil THEN Automatic(entry.input, matches) ELSE matches.candidates \cap {selection}
  OBVIOUS
<1>3. PICK candidate : candidate = CHOOSE c \in chosen : TRUE
  OBVIOUS
<1>4. CASE ~Duplicate(entry, all) /\ matches.candidates # {} /\ chosen # {}
  <2>1. PICK first : first = of.records[CHOOSE i \in RecordsOf(of, candidate) : \A j \in RecordsOf(of, candidate) : i <= j]
    OBVIOUS
  <2>2. PICK findings : findings = UNION {block.findings : block \in first.blocks}
    OBVIOUS
  <2>3. item = Item(entry, SelectedState(entry.input, candidate, of), matches.candidates, candidate, findings)
    BY <1>1, <1>2, <1>3, <1>4, <2>1, <2>2 DEF ItemOf
  <2>4. /\ item.id = entry.id /\ item.input = entry.input
        /\ item.state = SelectedState(entry.input, candidate, of) /\ item.selected = candidate
    BY <2>3 DEF Item
  <2>5. candidate \in chosen
    BY <1>3, <1>4
  <2>6. QED
    BY <1>1, <1>2, <1>4, <2>4, <2>5
<1>5. CASE ~(~Duplicate(entry, all) /\ matches.candidates # {} /\ chosen # {})
  <2>1. \/ item = Item(entry, "insufficient", {}, Nil, {}) \/ item = Item(entry, "unmatched", {}, Nil, {})
        \/ item = Item(entry, "ambiguous", matches.candidates, Nil, {})
    BY <1>1, <1>2, <1>5 DEF ItemOf
  <2>2. QED
    BY <2>1 DEF Item
<1>6. QED
  BY <1>4, <1>5

(* A record that gives no problem proves what is said of the candidate. *)
LEMMA MatchedIsProved ==
  ASSUME NEW wanted, NEW candidate, NEW of, SelectedState(wanted, candidate, of) = "matched",
         NEW item, item.input = wanted, item.selected = candidate
  PROVE  /\ ~of.sample /\ Cardinality(RecordsOf(of, candidate)) = 1
         /\ wanted.version = candidate.version /\ <<candidate.registry, wanted.version>> \in ExactVersions
         /\ \A k \in RecordsOf(of, candidate) : Proves(of.records[k], item)
<1>1. /\ Cardinality(RecordsOf(of, candidate)) = 1
      /\ exactVersion(candidate.version, candidate.registry)
      /\ wanted.version = candidate.version /\ ~of.sample
      /\ \A k \in RecordsOf(of, candidate) : ~bindingProblem(of.records[k], candidate)
  BY DEF SelectedState
<1>2. ASSUME NEW record, ~bindingProblem(record, candidate) PROVE Proves(record, item)
  <2>1. record.verdict # "incomplete"
    BY <1>2, InventoryAssumption DEF bindingProblem
  <2>2. record.coverage = Nil \/ record.coverage.state = "complete"
    BY <1>2 DEF bindingProblem, coverageProblem
  <2>3. record.blocks # {} /\ \A block \in record.blocks : ~blockProblem(block, candidate)
    BY <1>2 DEF bindingProblem
  <2>4. ASSUME NEW block \in record.blocks
        PROVE  /\ block.status \in {"clean", "findings"} /\ block.provenance # Nil
               /\ block.provenance.complete /\ block.provenance.package.version = item.input.version
               /\ block.provenance.package.name = item.selected.package
    <3>1. /\ block.status \in {"clean", "findings"} /\ block.provenance # Nil /\ block.provenance.complete
          /\ block.provenance.package =
                [registry |-> candidate.registry, name |-> candidate.package, version |-> candidate.version]
      BY <2>3 DEF blockProblem
    <3>2. QED
      BY <1>1, <3>1
  <2>5. QED
    BY <2>1, <2>2, <2>3, <2>4 DEF Proves
<1>3. QED
  BY <1>1, <1>2 DEF exactVersion

(* What is taken without a choice has the name that was asked for. *)
LEMMA AutomaticIsNamed ==
  ASSUME NEW wanted, wanted.name # Nil, NEW of, NEW candidate \in Automatic(wanted, candidatesFor(wanted, of))
  PROVE  ({candidate.server, candidate.package} \cap {wanted.server, wanted.package, wanted.name}) \ {Nil} # {}
<1>1. PICK pool : pool = {c \in candidateGroups(of) : Same(c.registry, wanted.registry)}
  OBVIOUS
<1>2. PICK exact : exact = ExactCandidates(wanted, pool)
  OBVIOUS
<1>3. candidatesFor(wanted, of) = IF exact # {} THEN [candidates |-> exact, exact |-> TRUE]
                                  ELSE [candidates |-> {c \in pool : Named(c, wanted, "like")}, exact |-> FALSE]
  BY <1>1, <1>2 DEF candidatesFor
<1>4. candidatesFor(wanted, of).exact /\ candidate \in candidatesFor(wanted, of).candidates
  BY DEF Automatic
<1>5. candidate \in exact
  BY <1>3, <1>4
<1>6. CASE candidate.server = wanted.name
  BY <1>6
<1>7. CASE Named(candidate, wanted, "exact")
  <2>1. CASE wanted.server # Nil
    BY <1>7, <2>1 DEF Named, Agrees, Same
  <2>2. CASE wanted.package # Nil
    BY <1>7, <2>2 DEF Named, Agrees, Same
  <2>3. CASE wanted.server = Nil /\ wanted.package = Nil
    BY <1>7, <2>3 DEF Named, Agrees, Same
  <2>4. QED
    BY <2>1, <2>2, <2>3
<1>8. QED
  BY <1>2, <1>5, <1>6, <1>7 DEF ExactCandidates

(* What is parsed is the list of its lines, each with a name. *)
LEMMA ParsedFacts ==
  ASSUME NEW text, GoodText(text), NEW parsed, parsed = parseInventory(text), parsed # Bad
  PROVE  /\ ASequence(parsed) /\ Len(parsed) = Len(text) /\ DOMAIN parsed = 1..Len(text)
         /\ \A i \in DOMAIN parsed :
              /\ parsed[i] = [id |-> i, input |-> normalizeInput(text[i])]
              /\ normalizeInput(text[i]).name # Nil
              /\ normalizeInput(text[i]) = [name |-> normalizeInput(text[i]).name, server |-> normalizeInput(text[i]).server,
                     package |-> normalizeInput(text[i]).package, registry |-> normalizeInput(text[i]).registry,
                     version |-> normalizeInput(text[i]).version]
<1>1. PICK n : n = Len(text) /\ n \in Nat /\ DOMAIN text = 1..n
  BY DEF GoodText
<1>2. /\ parsed = [i \in 1..n |-> [id |-> i, input |-> normalizeInput(text[i])]]
      /\ \A i \in 1..n : normalizeInput(text[i]) # Bad
  BY <1>1 DEF parseInventory
<1>3. ASequence(parsed) /\ Len(parsed) = n
  <2>1. PICK S : S = {parsed[i] : i \in 1..n}
    OBVIOUS
  <2>2. parsed = [i \in 1..n |-> parsed[i]]
    BY <1>2
  <2>3. \A i \in 1..n : parsed[i] \in S
    BY <2>1
  <2>4. parsed \in Seq(S) /\ Len(parsed) = n
    BY ONLY <1>1, <2>2, <2>3
  <2>5. QED
    BY <2>4 DEF ASequence
<1>4. ASSUME NEW i \in 1..n
      PROVE  LET got == normalizeInput(text[i])
             IN  /\ got.name # Nil
                 /\ got = [name |-> got.name, server |-> got.server, package |-> got.package,
                           registry |-> got.registry, version |-> got.version]
  <2>1. PICK raw : raw = text[i]
    OBVIOUS
  <2>2. normalizeInput(raw) # Bad /\ (raw.form \in {"plain", "npm", "qualified"} => raw.name # Nil)
    BY <1>1, <1>2, <2>1 DEF GoodText
  <2>3. CASE raw.form \in {"plain", "npm", "qualified"}
    <3>1. normalizeInput(raw) = fromName(raw) /\ raw.name # Nil
      BY <2>2, <2>3 DEF normalizeInput
    <3>2. QED
      BY <2>1, <3>1 DEF fromName
  <2>4. CASE raw.form \notin {"plain", "npm", "qualified"}
    <3>1. PICK name : name = FirstOf(<<raw.name, raw.server, raw.package>>)
      OBVIOUS
    <3>2. /\ normalizeInput(raw) = [name |-> name, server |-> raw.server, package |-> raw.package,
                                   registry |-> raw.registry, version |-> raw.version]
          /\ name # Nil
      BY <2>2, <2>4, <3>1 DEF normalizeInput
    <3>3. QED
      BY <2>1, <3>2
  <2>5. QED
    BY <2>3, <2>4
<1>5. QED
  BY <1>1, <1>2, <1>3, <1>4

(* A function over 1..n is a sequence of that length. *)
LEMMA FunctionIsSequence ==
  ASSUME NEW f, NEW n \in Nat, f = [k \in 1..n |-> f[k]]
  PROVE  ASequence(f) /\ Len(f) = n /\ DOMAIN f = 1..n
<1>1. PICK S : S = {f[k] : k \in 1..n}
  OBVIOUS
<1>2. \A k \in 1..n : f[k] \in S
  BY <1>1
<1>3. f \in Seq(S) /\ Len(f) = n /\ DOMAIN f = 1..n
  BY ONLY n \in Nat, f = [k \in 1..n |-> f[k]], <1>2
<1>4. QED
  BY <1>3 DEF ASequence

(* A report has one item for each entry, made of that entry. *)
LEMMA ReportFacts ==
  ASSUME NEW all, ASequence(all), NEW of, NEW chosen, NEW compared, compared = createInventoryReport(all, of, chosen)
  PROVE  /\ Len(compared.items) = Len(all) /\ DOMAIN compared.items = DOMAIN all
         /\ \A i \in DOMAIN all : compared.items[i] = ItemOf(all[i], all, of, chosen[i])
<1>1. PICK items : items = [i \in DOMAIN all |-> ItemOf(all[i], all, of, chosen[i])]
  OBVIOUS
<1>2. compared.items = items
  BY <1>1 DEF createInventoryReport
<1>3. Len(all) \in Nat /\ DOMAIN all = 1..Len(all)
  BY HistorySeqFacts
<1>4. Len(items) = Len(all)
  BY <1>1, <1>3, FunctionIsSequence
<1>5. QED
  BY <1>1, <1>2, <1>4

(* A tool as it is kept: five fields, and a name. *)
Tool(tool) ==
    /\ tool = [name |-> tool.name, server |-> tool.server, package |-> tool.package,
               registry |-> tool.registry, version |-> tool.version]
    /\ tool.name # Nil

EntriesTrue ==
    /\ ASequence(entries) /\ DOMAIN selections = DOMAIN entries
    /\ \A i \in DOMAIN entries : entries[i] = [id |-> i, input |-> entries[i].input] /\ Tool(entries[i].input)

(* A file that is read for the list as it is has nothing to replace, and   *)
(* is the only one.                                                        *)
ReadingTrue ==
    /\ \A read \in reading :
         /\ read.file \in Files /\ read.revision \in 1..revision
         /\ read.revision = revision => read.input = input /\ entries = <<>> /\ reportHtml = NoReport
    /\ \A one, two \in reading : one.revision = two.revision => one = two

ReportTrue ==
    IF entries = <<>> THEN report = NoReport
    ELSE report.list = createInventoryReport(entries, pageIndex, selections)

PreviewTrue ==
    reportHtml # NoReport => entries # <<>> /\ reportHtml = Rebuilt(entries, selections)

InputTrue == input = Bad \/ GoodText(input)

PageInv ==
    /\ pageIndex \in PageIndexes \cup {Nil} /\ demonstration \in BOOLEAN /\ events \in 0..MaxEvents /\ revision \in Nat
    /\ InputTrue /\ EntriesTrue /\ ReadingTrue /\ ReportTrue /\ PreviewTrue /\ ResultsOfTheText

LEMMA ExampleIsGood == GoodText(ExampleText)
<1>1. ExampleText = <<ExampleText[1], ExampleText[2]>>
  BY DEF ExampleText
<1>2. PICK named : named = SelectSeq(pageIndex.records, LAMBDA r : \E p \in r.packages : p.name # Nil)
  OBVIOUS
<1>3. PICK version : version = (CHOOSE p \in named[1].packages : p.name # Nil).version
  OBVIOUS
<1>4. ExampleText[1].form = "object"
  BY <1>2, <1>3 DEF ExampleText
<1>5. ExampleText[2].form = "object"
  BY DEF ExampleText
<1>6. PICK text : text = ExampleText
  OBVIOUS
<1>7. text \in Seq({text[1], text[2]}) /\ Len(text) = 2
  BY <1>1, <1>6
<1>8. QED
  BY <1>4, <1>5, <1>6, <1>7 DEF GoodText

LEMMA NothingIsShown ==
  ASSUME entries = <<>>, selections = <<>>, report = NoReport, reportHtml = NoReport
  PROVE  EntriesTrue /\ ReportTrue /\ PreviewTrue /\ ResultsOfTheText
<1>1. <<>> \in Seq({})
  OBVIOUS
<1>2. QED
  BY <1>1 DEF EntriesTrue, ReportTrue, PreviewTrue, ResultsOfTheText, ASequence

LEMMA PageStarts == PageInit => PageInv
<1>1. SUFFICES ASSUME PageInit PROVE PageInv
  OBVIOUS
<1>2. GoodText(<<>>)
  BY DEF GoodText
<1>3. EntriesTrue /\ ReportTrue /\ PreviewTrue /\ ResultsOfTheText
  BY <1>1, NothingIsShown DEF PageInit
<1>4. ReadingTrue /\ InputTrue
  BY <1>1, <1>2 DEF PageInit, ReadingTrue, InputTrue
<1>5. pageIndex \in PageIndexes \cup {Nil} /\ demonstration \in BOOLEAN
  BY <1>1 DEF PageInit
<1>6. events \in 0..MaxEvents /\ revision \in Nat
  BY <1>1, PageAssumption DEF PageInit
<1>7. QED
  BY <1>1, <1>3, <1>4, <1>5, <1>6 DEF PageInit, PageInv

(* What was being read for the list as it was is not current any more. *)
LEMMA ReadingGetsOld ==
  ASSUME ReadingTrue, revision \in Nat, reading' = reading, revision' = revision + 1
  PROVE  ReadingTrue'
<1>1. \A read \in reading : read.file \in Files /\ read.revision \in 1..revision' /\ read.revision # revision'
  BY DEF ReadingTrue
<1>2. QED
  BY <1>1 DEF ReadingTrue

LEMMA ListIsDropped ==
  ASSUME PageInv, Event, invalidateInput, pageIndex' = pageIndex, demonstration' \in BOOLEAN, InputTrue', ReadingTrue'
  PROVE  PageInv'
<1>1. entries' = <<>> /\ selections' = <<>> /\ report' = NoReport /\ reportHtml' = NoReport /\ revision' = revision + 1
  BY DEF invalidateInput, Forget, invalidatePreview
<1>2. EntriesTrue'
  <2>1. <<>> \in Seq({})
    OBVIOUS
  <2>2. ASequence(<<>>)
    BY <2>1 DEF ASequence
  <2>3. QED
    BY <1>1, <2>2 DEF EntriesTrue
<1>3. ReportTrue' /\ PreviewTrue' /\ ResultsOfTheText'
  BY <1>1 DEF ReportTrue, PreviewTrue, ResultsOfTheText
<1>4. events' \in 0..MaxEvents /\ revision' \in Nat
  BY <1>1, PageAssumption DEF PageInv, Event
<1>5. pageIndex' \in PageIndexes \cup {Nil}
  BY DEF PageInv
<1>6. QED
  BY <1>2, <1>3, <1>4, <1>5 DEF PageInv

LEMMA TypeInputKeeps ==
  ASSUME PageInv, NEW text \in Texts, TypeInput(text)
  PROVE  PageInv'
<1>1. InputTrue'
  BY TextAssumption DEF TypeInput, InputTrue
<1>2. ReadingTrue'
  BY ReadingGetsOld DEF TypeInput, PageInv, invalidateInput, Forget
<1>3. demonstration' \in BOOLEAN /\ pageIndex' = pageIndex /\ Event /\ invalidateInput
  BY DEF TypeInput, PageInv
<1>4. QED
  BY <1>1, <1>2, <1>3, ListIsDropped

LEMMA ChooseFileKeeps ==
  ASSUME PageInv, NEW file \in Files, ChooseFile(file)
  PROVE  PageInv'
<1>1. /\ invalidateInput /\ Event /\ pageIndex' = pageIndex /\ input' = input /\ demonstration' = demonstration
      /\ revision' = revision + 1 /\ revision \in Nat /\ ReadingTrue
      /\ entries' = <<>> /\ reportHtml' = NoReport
  BY DEF ChooseFile, PageInv, invalidateInput, Forget, invalidatePreview
<1>2. InputTrue'
  BY <1>1 DEF PageInv, InputTrue
<1>3. ReadingTrue'
  <2>1. CASE reading' = reading
    BY <1>1, <2>1, ReadingGetsOld
  <2>2. CASE reading' = reading \cup {[file |-> file, revision |-> revision + 1, input |-> input]}
    <3>1. PICK new : new = [file |-> file, revision |-> revision + 1, input |-> input]
      OBVIOUS
    <3>2. new.file \in Files /\ new.revision = revision' /\ new.revision \in 1..revision' /\ new.input = input'
      BY <1>1, <3>1
    <3>3. \A read \in reading : read.file \in Files /\ read.revision \in 1..revision' /\ read.revision # revision'
      BY <1>1 DEF ReadingTrue
    <3>4. \A read \in reading' : read \in reading \/ read = new
      BY <2>2, <3>1
    <3>5. \A read \in reading' :
             /\ read.file \in Files /\ read.revision \in 1..revision'
             /\ read.revision = revision' => read.input = input' /\ entries' = <<>> /\ reportHtml' = NoReport
      BY <1>1, <3>2, <3>3, <3>4
    <3>6. \A one, two \in reading' : one.revision = two.revision => one = two
      BY <1>1, <3>2, <3>3, <3>4 DEF ReadingTrue
    <3>7. QED
      BY <3>5, <3>6 DEF ReadingTrue
  <2>3. QED
    BY <2>1, <2>2 DEF ChooseFile
<1>4. demonstration' \in BOOLEAN
  BY <1>1 DEF PageInv
<1>5. QED
  BY <1>1, <1>2, <1>3, <1>4, ListIsDropped

LEMMA ExampleKeeps ==
  ASSUME PageInv, Example
  PROVE  PageInv'
<1>1. InputTrue'
  BY ExampleIsGood DEF Example, InputTrue
<1>2. ReadingTrue'
  BY ReadingGetsOld DEF Example, PageInv, invalidateInput, Forget
<1>3. demonstration' \in BOOLEAN /\ pageIndex' = pageIndex /\ Event /\ invalidateInput
  BY DEF Example
<1>4. QED
  BY <1>1, <1>2, <1>3, ListIsDropped

LEMMA ResetKeeps ==
  ASSUME PageInv, Reset
  PROVE  PageInv'
<1>1. InputTrue'
  <2>1. GoodText(<<>>)
    BY DEF GoodText
  <2>2. QED
    BY <2>1 DEF Reset, InputTrue
<1>2. ReadingTrue'
  BY ReadingGetsOld DEF Reset, PageInv, invalidateInput, Forget
<1>3. demonstration' \in BOOLEAN /\ pageIndex' = pageIndex /\ Event /\ invalidateInput
  BY DEF Reset
<1>4. QED
  BY <1>1, <1>2, <1>3, ListIsDropped

LEMMA FileReadKeeps ==
  ASSUME PageInv, NEW read \in reading, FileRead(read)
  PROVE  /\ PageInv'
         /\ input' # input => input = read.input /\ entries = <<>> /\ reportHtml = NoReport
<1>1. /\ reading' = reading \ {read} /\ pageIndex' = pageIndex /\ revision' = revision /\ entries' = entries
      /\ selections' = selections /\ report' = report /\ reportHtml' = reportHtml /\ events' = events
  BY DEF FileRead
<1>2. EntriesTrue' /\ ReportTrue'
  BY <1>1 DEF PageInv, EntriesTrue, ReportTrue
<1>3. /\ pageIndex' \in PageIndexes \cup {Nil} /\ events' \in 0..MaxEvents /\ revision' \in Nat
  BY <1>1 DEF PageInv
<1>4. CASE read.revision = revision
  <2>1. input = read.input /\ entries = <<>> /\ reportHtml = NoReport /\ read.file \in Files
    BY <1>4 DEF PageInv, ReadingTrue
  <2>2. input' = read.file.text /\ demonstration' = FALSE
    BY <1>4 DEF FileRead
  <2>3. InputTrue'
    BY <2>1, <2>2, TextAssumption DEF InputTrue
  <2>4. PreviewTrue' /\ ResultsOfTheText'
    BY <1>1, <2>1 DEF PreviewTrue, ResultsOfTheText
  <2>5. ReadingTrue'
    <3>1. \A other \in reading' : other \in reading /\ other.revision # revision
      BY <1>1, <1>4 DEF PageInv, ReadingTrue
    <3>2. QED
      BY <1>1, <3>1 DEF PageInv, ReadingTrue
  <2>6. demonstration' \in BOOLEAN
    BY <2>2
  <2>7. QED
    BY <1>2, <1>3, <2>1, <2>3, <2>4, <2>5, <2>6 DEF PageInv
<1>5. CASE read.revision # revision
  <2>1. input' = input /\ demonstration' = demonstration
    BY <1>5 DEF FileRead
  <2>2. InputTrue' /\ PreviewTrue' /\ ResultsOfTheText'
    BY <1>1, <2>1 DEF PageInv, InputTrue, PreviewTrue, ResultsOfTheText, Rebuilt
  <2>3. ReadingTrue'
    BY <1>1, <2>1 DEF PageInv, ReadingTrue
  <2>4. demonstration' \in BOOLEAN
    BY <2>1 DEF PageInv
  <2>5. QED
    BY <1>2, <1>3, <2>1, <2>2, <2>3, <2>4 DEF PageInv
<1>6. QED
  BY <1>4, <1>5

LEMMA FileFailsKeeps ==
  ASSUME PageInv, NEW read \in reading, FileFails(read)
  PROVE  PageInv'
<1>1. /\ reading' \subseteq reading /\ pageIndex' = pageIndex /\ revision' = revision /\ entries' = entries
      /\ selections' = selections /\ report' = report /\ reportHtml' = reportHtml /\ events' = events
      /\ input' = input /\ demonstration' = demonstration
  BY DEF FileFails
<1>2. ReadingTrue'
  BY <1>1 DEF PageInv, ReadingTrue
<1>3. EntriesTrue' /\ ReportTrue' /\ InputTrue' /\ PreviewTrue' /\ ResultsOfTheText'
  BY <1>1 DEF PageInv, EntriesTrue, ReportTrue, InputTrue, PreviewTrue, ResultsOfTheText, Rebuilt
<1>4. demonstration' \in BOOLEAN
  BY <1>1 DEF PageInv
<1>5. QED
  BY <1>1, <1>2, <1>3, <1>4 DEF PageInv

LEMMA SubmitPageKeeps ==
  ASSUME PageInv, SubmitPage
  PROVE  PageInv'
<1>1. PICK parsed, good, none : /\ parsed = parseInventory(input) /\ good = (parsed # Bad /\ parsed # <<>>)
                                /\ none = [i \in DOMAIN parsed |-> Nil]
  OBVIOUS
<1>2. /\ entries' = (IF good THEN parsed ELSE <<>>) /\ selections' = (IF good THEN none ELSE <<>>)
      /\ report' = (IF good THEN Rebuilt(parsed, none) ELSE NoReport)
  BY <1>1 DEF SubmitPage
<1>3. /\ Event /\ revision' = revision + 1 /\ reportHtml' = NoReport /\ pageIndex' = pageIndex /\ input' = input
      /\ reading' = reading /\ demonstration' = demonstration
  BY DEF SubmitPage, Forget, invalidatePreview
<1>4. /\ pageIndex' \in PageIndexes \cup {Nil} /\ events' \in 0..MaxEvents /\ revision' \in Nat
  BY <1>3, PageAssumption DEF PageInv, Event
<1>5. demonstration' \in BOOLEAN
  BY <1>3 DEF PageInv
<1>6. InputTrue' /\ PreviewTrue' /\ ReadingTrue'
  BY <1>3, ReadingGetsOld DEF PageInv, InputTrue, PreviewTrue
<1>7. EntriesTrue' /\ ReportTrue' /\ ResultsOfTheText'
  <2>1. CASE ~good
    <3>1. <<>> \in Seq({})
      OBVIOUS
    <3>2. ASequence(<<>>)
      BY <3>1 DEF ASequence
    <3>3. entries' = <<>> /\ selections' = <<>> /\ report' = NoReport
      BY <1>2, <2>1
    <3>4. QED
      BY <3>2, <3>3 DEF EntriesTrue, ReportTrue, ResultsOfTheText
  <2>2. CASE good
    <3>1. entries' = parsed /\ selections' = none /\ report' = Rebuilt(parsed, none) /\ parsed # Bad /\ parsed # <<>>
      BY <1>1, <1>2, <2>2
    <3>2. input # Bad
      BY <1>1, <3>1 DEF parseInventory
    <3>3. GoodText(input)
      BY <3>2 DEF PageInv, InputTrue
    <3>4. /\ ASequence(parsed)
          /\ \A i \in DOMAIN parsed :
               /\ parsed[i] = [id |-> i, input |-> normalizeInput(input[i])]
               /\ Tool(normalizeInput(input[i]))
      BY <1>1, <3>1, <3>3, ParsedFacts DEF Tool
    <3>5. \A i \in DOMAIN parsed : parsed[i] = [id |-> i, input |-> parsed[i].input] /\ Tool(parsed[i].input)
      BY <3>4
    <3>6. EntriesTrue'
      BY <1>1, <3>1, <3>4, <3>5 DEF EntriesTrue
    <3>7. ReportTrue'
      BY <1>3, <3>1 DEF ReportTrue, Rebuilt
    <3>8. ResultsOfTheText'
      BY <1>1, <1>3, <3>1 DEF ResultsOfTheText
    <3>9. QED
      BY <3>6, <3>7, <3>8
  <2>3. QED
    BY <2>1, <2>2
<1>8. QED
  BY <1>4, <1>5, <1>6, <1>7 DEF PageInv

(* What is done with a list that is shown reads no file. *)
LEMMA ShownIsNotRead ==
  ASSUME PageInv, entries # <<>>, entries' # <<>>, reading' = reading, revision' = revision
  PROVE  ReadingTrue'
<1>1. \A read \in reading : read.revision # revision
  BY DEF PageInv, ReadingTrue
<1>2. QED
  BY <1>1 DEF PageInv, ReadingTrue

LEMMA SelectCandidateKeeps ==
  ASSUME PageInv, NEW i \in DOMAIN entries, NEW candidate, SelectCandidate(i, candidate)
  PROVE  PageInv'
<1>1. entries # <<>>
  OBVIOUS
<1>2. /\ Event /\ revision' = revision /\ reportHtml' = NoReport /\ pageIndex' = pageIndex /\ input' = input
      /\ reading' = reading /\ demonstration' = demonstration /\ entries' = entries
      /\ selections' = [selections EXCEPT ![i] = candidate] /\ report' = Rebuilt(entries, selections')
  BY DEF SelectCandidate, invalidatePreview
<1>3. /\ pageIndex' \in PageIndexes \cup {Nil} /\ events' \in 0..MaxEvents /\ revision' \in Nat
  BY <1>2, PageAssumption DEF PageInv, Event
<1>4. demonstration' \in BOOLEAN
  BY <1>2 DEF PageInv
<1>5. ReadingTrue'
  BY <1>1, <1>2, ShownIsNotRead
<1>6. InputTrue' /\ PreviewTrue' /\ ResultsOfTheText'
  BY <1>2 DEF PageInv, InputTrue, PreviewTrue, ResultsOfTheText
<1>7. EntriesTrue'
  BY <1>2 DEF PageInv, EntriesTrue
<1>8. ReportTrue'
  BY <1>1, <1>2 DEF ReportTrue, Rebuilt
<1>9. QED
  BY <1>3, <1>4, <1>5, <1>6, <1>7, <1>8 DEF PageInv

LEMMA EditVersionKeeps ==
  ASSUME PageInv, NEW i \in DOMAIN entries, NEW version, EditVersion(i, version)
  PROVE  PageInv'
<1>1. PICK n : n = Len(entries) /\ n \in Nat /\ DOMAIN entries = 1..n
  BY HistorySeqFacts DEF PageInv, EntriesTrue
<1>2. /\ Event /\ revision' = revision /\ reportHtml' = NoReport /\ pageIndex' = pageIndex /\ input' = input
      /\ reading' = reading /\ demonstration' = demonstration /\ selections' = selections
      /\ entries' = [entries EXCEPT ![i].input.version = version] /\ report' = Rebuilt(entries', selections)
  BY DEF EditVersion, invalidatePreview
<1>3. PICK tool : tool = [entries[i].input EXCEPT !.version = version]
  OBVIOUS
<1>4. Tool(tool) /\ [tool EXCEPT !.version = Nil] = [entries[i].input EXCEPT !.version = Nil]
  <2>1. PICK old : old = entries[i].input /\ Tool(old)
    BY DEF PageInv, EntriesTrue
  <2>2. tool = [name |-> old.name, server |-> old.server, package |-> old.package,
                registry |-> old.registry, version |-> version] /\ old.name # Nil
    BY <1>3, <2>1 DEF Tool
  <2>3. [tool EXCEPT !.version = Nil] = [old EXCEPT !.version = Nil]
    BY <2>1, <2>2 DEF Tool
  <2>4. QED
    BY <2>1, <2>2, <2>3 DEF Tool
<1>5. entries[i] = [id |-> i, input |-> entries[i].input]
  BY DEF PageInv, EntriesTrue
<1>6. DOMAIN entries' = DOMAIN entries /\ entries' = [k \in 1..n |-> entries'[k]]
  BY <1>1, <1>2
<1>7. entries'[i] = [id |-> i, input |-> tool]
  BY <1>1, <1>2, <1>3, <1>5
<1>8. \A k \in DOMAIN entries \ {i} : entries'[k] = entries[k]
  BY <1>1, <1>2
<1>9. ASequence(entries') /\ Len(entries') = n
  BY <1>1, <1>6, FunctionIsSequence
<1>10. entries # <<>> /\ entries' # <<>>
  <2>1. i \in DOMAIN entries /\ i \in DOMAIN entries'
    BY <1>6
  <2>2. DOMAIN <<>> = {}
    OBVIOUS
  <2>3. QED
    BY ONLY <2>1, <2>2
<1>11. EntriesTrue'
  <2>1. ASSUME NEW k \in DOMAIN entries
        PROVE  entries'[k] = [id |-> k, input |-> entries'[k].input] /\ Tool(entries'[k].input)
    BY <1>4, <1>7, <1>8 DEF PageInv, EntriesTrue
  <2>2. DOMAIN selections' = DOMAIN entries'
    BY <1>2, <1>6 DEF PageInv, EntriesTrue
  <2>3. QED
    BY <1>6, <1>9, <2>1, <2>2 DEF EntriesTrue
<1>12. ResultsOfTheText'
  <2>1. PICK parsed : parsed = parseInventory(input)
    OBVIOUS
  <2>2. /\ parsed # Bad /\ Len(parsed) = n
        /\ \A k \in DOMAIN entries : [entries[k].input EXCEPT !.version = Nil] = [parsed[k].input EXCEPT !.version = Nil]
    BY <1>1, <1>10, <2>1 DEF PageInv, ResultsOfTheText
  <2>3. \A k \in DOMAIN entries : [entries'[k].input EXCEPT !.version = Nil] = [entries[k].input EXCEPT !.version = Nil]
    <3>1. ASSUME NEW k \in DOMAIN entries \ {i}
          PROVE  [entries'[k].input EXCEPT !.version = Nil] = [entries[k].input EXCEPT !.version = Nil]
      BY ONLY <1>8, <3>1
    <3>2. entries'[i].input = tool
      BY <1>7
    <3>3. [entries'[i].input EXCEPT !.version = Nil] = [entries[i].input EXCEPT !.version = Nil]
      BY ONLY <1>4, <3>2
    <3>4. QED
      BY <3>1, <3>3
  <2>4. \A k \in DOMAIN entries' : [entries'[k].input EXCEPT !.version = Nil] = [parsed[k].input EXCEPT !.version = Nil]
    BY <1>6, <2>2, <2>3
  <2>5. QED
    BY <1>2, <1>9, <2>1, <2>2, <2>4 DEF ResultsOfTheText
<1>13. /\ pageIndex' \in PageIndexes \cup {Nil} /\ events' \in 0..MaxEvents /\ revision' \in Nat
  BY <1>2, PageAssumption DEF PageInv, Event
<1>14. demonstration' \in BOOLEAN
  BY <1>2 DEF PageInv
<1>15. ReadingTrue'
  BY <1>2, <1>10, ShownIsNotRead
<1>16. InputTrue' /\ PreviewTrue'
  BY <1>2 DEF PageInv, InputTrue, PreviewTrue
<1>17. ReportTrue'
  BY <1>2, <1>10 DEF ReportTrue, Rebuilt
<1>18. QED
  BY <1>11, <1>12, <1>13, <1>14, <1>15, <1>16, <1>17 DEF PageInv

LEMMA PreviewKeeps ==
  ASSUME PageInv, Preview
  PROVE  PageInv'
<1>1. /\ Event /\ revision' = revision /\ pageIndex' = pageIndex /\ input' = input /\ entries # <<>>
      /\ reading' = reading /\ demonstration' = demonstration /\ entries' = entries
      /\ selections' = selections /\ report' = Rebuilt(entries, selections) /\ reportHtml' = report'
  BY DEF Preview
<1>2. /\ pageIndex' \in PageIndexes \cup {Nil} /\ events' \in 0..MaxEvents /\ revision' \in Nat
  BY <1>1, PageAssumption DEF PageInv, Event
<1>3. demonstration' \in BOOLEAN
  BY <1>1 DEF PageInv
<1>4. ReadingTrue'
  BY <1>1, ShownIsNotRead
<1>5. InputTrue' /\ ResultsOfTheText' /\ EntriesTrue'
  BY <1>1 DEF PageInv, InputTrue, ResultsOfTheText, EntriesTrue
<1>6. ReportTrue' /\ PreviewTrue'
  BY <1>1 DEF ReportTrue, PreviewTrue, Rebuilt
<1>7. QED
  BY <1>2, <1>3, <1>4, <1>5, <1>6 DEF PageInv

LEMMA PageSteps ==
  ASSUME PageInv, [PageNext]_pageVars
  PROVE  PageInv'
<1>1. CASE UNCHANGED pageVars
  BY <1>1 DEF PageInv, InputTrue, EntriesTrue, ReadingTrue, ReportTrue, PreviewTrue, ResultsOfTheText, Rebuilt, pageVars
<1>2. CASE SubmitPage
  BY <1>2, SubmitPageKeeps
<1>3. CASE Example \/ Reset
  BY <1>3, ExampleKeeps, ResetKeeps
<1>4. CASE Preview
  BY <1>4, PreviewKeeps
<1>5. CASE \E text \in Texts : TypeInput(text)
  BY <1>5, TypeInputKeeps
<1>6. CASE \E file \in Files : ChooseFile(file)
  BY <1>6, ChooseFileKeeps
<1>7. CASE \E read \in reading : FileRead(read) \/ FileFails(read)
  BY <1>7, FileReadKeeps, FileFailsKeeps
<1>8. ASSUME NEW i \in DOMAIN entries,
             \/ \E candidate \in report.list.items[i].candidates \cup {Nil} : SelectCandidate(i, candidate)
             \/ \E version \in Versions : EditVersion(i, version)
      PROVE  PageInv'
  BY <1>8, SelectCandidateKeeps, EditVersionKeeps
<1>9. QED
  BY <1>1, <1>2, <1>3, <1>4, <1>5, <1>6, <1>7, <1>8 DEF PageNext

(* A file that comes late replaces nothing: only its own text, which was   *)
(* asked for over this input, comes in.                                    *)
LEMMA LateFilesReplaceNothing ==
  ASSUME PageInv, [PageNext]_pageVars, NEW read \in reading \ reading', input' # input
  PROVE  input = read.input /\ entries = <<>> /\ reportHtml = NoReport
<1>1. CASE reading \subseteq reading'
  BY <1>1
<1>2. PICK other \in reading : FileRead(other) \/ FileFails(other)
  <2>1. CASE UNCHANGED pageVars
    BY <2>1 DEF pageVars
  <2>2. CASE SubmitPage \/ Example \/ Reset \/ Preview
    BY <2>2 DEF SubmitPage, Example, Reset, Preview
  <2>3. CASE \E text \in Texts : TypeInput(text)
    BY <2>3 DEF TypeInput
  <2>4. CASE \E file \in Files : ChooseFile(file)
    BY <2>4 DEF ChooseFile
  <2>5. ASSUME NEW i \in DOMAIN entries,
             \/ \E candidate \in report.list.items[i].candidates \cup {Nil} : SelectCandidate(i, candidate)
             \/ \E version \in Versions : EditVersion(i, version)
        PROVE  FALSE
    BY <2>5 DEF SelectCandidate, EditVersion
  <2>6. QED
    BY <2>1, <2>2, <2>3, <2>4, <2>5 DEF PageNext
<1>3. FileRead(other)
  BY <1>2 DEF FileFails
<1>4. read = other
  BY <1>3 DEF FileRead
<1>5. QED
  BY <1>3, <1>4, FileReadKeeps

(* What the report says of an entry is what createInventoryReport makes of it. *)
LEMMA ShownItems ==
  ASSUME PageInv
  PROVE  /\ Len(Items) = Len(entries) /\ DOMAIN Items = DOMAIN entries /\ (report = NoReport <=> entries = <<>>)
         /\ \A i \in DOMAIN entries : Items[i] = ItemOf(entries[i], entries, pageIndex, selections[i])
<1>1. CASE entries = <<>>
  <2>1. report = NoReport
    BY <1>1 DEF PageInv, ReportTrue
  <2>2. Items = <<>>
    BY <2>1 DEF Items, NoReport
  <2>3. QED
    BY <1>1, <2>1, <2>2
<1>2. CASE entries # <<>>
  <2>1. report.list = createInventoryReport(entries, pageIndex, selections) /\ ASequence(entries)
    BY <1>2 DEF PageInv, ReportTrue, EntriesTrue
  <2>2. /\ Len(Items) = Len(entries) /\ DOMAIN Items = DOMAIN entries
        /\ \A i \in DOMAIN entries : Items[i] = ItemOf(entries[i], entries, pageIndex, selections[i])
    BY <2>1, ReportFacts DEF Items
  <2>3. DOMAIN entries # {}
    BY <1>2, <2>1, HistorySeqFacts
  <2>4. report # NoReport
    BY <2>2, <2>3 DEF Items, NoReport
  <2>5. QED
    BY <1>2, <2>2, <2>4
<1>3. QED
  BY <1>1, <1>2

LEMMA ShownIsEvidence ==
  ASSUME PageInv
  PROVE  MatchedIsEvidence /\ NothingGuessed
<1>1. ASSUME NEW i \in DOMAIN Items
      PROVE  /\ i \in DOMAIN entries /\ Items[i] = ItemOf(entries[i], entries, pageIndex, selections[i])
             /\ entries[i].id = i /\ entries[i].input.name # Nil
             /\ \A k \in DOMAIN entries : entries[k].id = k
  <2>1. DOMAIN Items = DOMAIN entries
    BY ShownItems
  <2>2. Items[i] = ItemOf(entries[i], entries, pageIndex, selections[i])
    BY <2>1, ShownItems
  <2>3. \A k \in DOMAIN entries : entries[k] = [id |-> k, input |-> entries[k].input] /\ entries[k].input.name # Nil
    BY DEF PageInv, EntriesTrue, Tool
  <2>4. \A k \in DOMAIN entries : entries[k].id = k
    <3>1. ASSUME NEW k \in DOMAIN entries PROVE entries[k].id = k
      <4>1. PICK tool : entries[k] = [id |-> k, input |-> tool]
        BY <2>3
      <4>2. QED
        BY ONLY <4>1
    <3>2. QED
      BY <3>1
  <2>5. QED
    BY <2>1, <2>2, <2>3, <2>4
<1>2. ASSUME NEW i \in DOMAIN Items, Items[i].state = "matched"
      PROVE  LET item == Items[i]
                 of == RecordsOf(pageIndex, item.selected)
             IN  /\ ~pageIndex.sample /\ Cardinality(of) = 1
                 /\ item.input.version = item.selected.version
                 /\ <<item.selected.registry, item.input.version>> \in ExactVersions
                 /\ \A k \in of : Proves(pageIndex.records[k], item)
                 /\ \A k \in DOMAIN entries \ {i} : KeyOf(entries[k].input) # KeyOf(item.input)
  <2>1. PICK item : item = Items[i]
    OBVIOUS
  <2>2. /\ item.input = entries[i].input /\ ~Duplicate(entries[i], entries)
        /\ SelectedState(entries[i].input, item.selected, pageIndex) = "matched"
    BY <1>1, <1>2, <2>1, ItemFacts
  <2>3. /\ ~pageIndex.sample /\ Cardinality(RecordsOf(pageIndex, item.selected)) = 1
        /\ item.input.version = item.selected.version
        /\ <<item.selected.registry, item.input.version>> \in ExactVersions
        /\ \A k \in RecordsOf(pageIndex, item.selected) : Proves(pageIndex.records[k], item)
    BY <2>2, MatchedIsProved
  <2>4. \A k \in DOMAIN entries \ {i} : KeyOf(entries[k].input) # KeyOf(item.input)
    BY <1>1, <2>2 DEF Duplicate
  <2>5. QED
    BY <2>1, <2>3, <2>4
<1>3. ASSUME NEW i \in DOMAIN Items, Items[i].selected # Nil
      PROVE  \/ selections[i] = Items[i].selected
             \/ LET tool == Items[i].input
                    names == {tool.server, tool.package, tool.name}
                IN  ({Items[i].selected.server, Items[i].selected.package} \cap names) \ {Nil} # {}
  <2>1. PICK item : item = Items[i]
    OBVIOUS
  <2>2. /\ item.input = entries[i].input
        /\ \/ item.selected = selections[i]
           \/ item.selected \in Automatic(entries[i].input, candidatesFor(entries[i].input, pageIndex))
    BY <1>1, <1>3, <2>1, ItemFacts
  <2>3. ASSUME item.selected \in Automatic(entries[i].input, candidatesFor(entries[i].input, pageIndex))
        PROVE  ({item.selected.server, item.selected.package}
                  \cap {item.input.server, item.input.package, item.input.name}) \ {Nil} # {}
    BY <1>1, <2>2, <2>3, AutomaticIsNamed
  <2>4. QED
    BY <2>1, <2>2, <2>3
<1>4. QED
  BY <1>2, <1>3 DEF MatchedIsEvidence, NothingGuessed

LEMMA PageIsTrue ==
  ASSUME PageInv
  PROVE  PageTypeOK /\ MatchedIsEvidence /\ NothingGuessed /\ PreviewIsCurrent /\ ResultsOfTheText
<1>1. MatchedIsEvidence /\ NothingGuessed
  BY ShownIsEvidence
<1>2. PreviewIsCurrent
  BY DEF PageInv, PreviewTrue, PreviewIsCurrent, Rebuilt
<1>3. PageTypeOK
  <2>1. DOMAIN selections = DOMAIN entries
    BY DEF PageInv, EntriesTrue
  <2>2. (report = NoReport <=> entries = <<>>) /\ Len(Items) = Len(entries) /\ (reportHtml # NoReport => report # NoReport)
    BY ShownItems DEF PageInv, PreviewTrue
  <2>3. \A read \in reading : read.revision \in 1..revision /\ read.file \in Files
    BY DEF PageInv, ReadingTrue
  <2>4. pageIndex \in PageIndexes \cup {Nil} /\ demonstration \in BOOLEAN /\ events \in 0..MaxEvents
    BY DEF PageInv
  <2>5. QED
    BY <2>1, <2>2, <2>3, <2>4 DEF PageTypeOK
<1>4. ResultsOfTheText
  BY DEF PageInv
<1>5. QED
  BY <1>1, <1>2, <1>3, <1>4

(***************************************************************************)
(* The page shows evidence for the list that is in the box: a match is     *)
(* proved by the index, nothing is chosen by likeness alone, the preview   *)
(* and the results are of what is on the screen, and a file that is read   *)
(* late replaces nothing newer (invalidateInput, the revision of a read    *)
(* and createInventoryReport).                                             *)
(***************************************************************************)
THEOREM PageAlwaysShowsEvidence == PageSpec => PageShowsEvidence
<1>1. PageInit => PageInv
  BY PageStarts
<1>2. PageInv /\ [PageNext]_pageVars => PageInv'
  BY PageSteps
<1>3. PageInv => PageTypeOK /\ MatchedIsEvidence /\ NothingGuessed /\ PreviewIsCurrent /\ ResultsOfTheText
  BY PageIsTrue
<1>4. PageInv /\ [PageNext]_pageVars =>
        [\A read \in reading \ reading' :
            input' # input => input = read.input /\ entries = <<>> /\ reportHtml = NoReport]_pageVars
  BY LateFilesReplaceNothing
<1>5. QED
  BY <1>1, <1>2, <1>3, <1>4, PTL DEF PageSpec, PageShowsEvidence, FileReplacesNothingNewer

--------------------------------------------------------------------------------
(* The least of some natural numbers. *)
LEMMA LeastExists ==
  ASSUME NEW T, T \subseteq Nat, T # {}
  PROVE  \E m \in T : \A k \in T : m <= k
<1>1. PICK R : R = OpToRel(<, Nat)
  OBVIOUS
<1>2. \A i, j \in Nat : i < j => <<i, j>> \in R
  BY <1>1 DEF OpToRel
<1>3. IsWellFoundedOn(R, Nat)
  BY <1>1, NatLessThanWellFounded
<1>4. PICK m \in T : \A k \in T : ~(<<k, m>> \in R)
  BY <1>3, WFMin
<1>5. ASSUME NEW k \in T PROVE m <= k
  <2>1. k \in Nat /\ m \in Nat /\ ~(k < m)
    BY <1>2, <1>4
  <2>2. QED
    BY <2>1
<1>6. QED
  BY <1>5

(* What is defined from the value before it, number by number, is defined. *)
InSteps(f, n, S, base, step) == f \in [0..n -> S] /\ f[0] = base /\ \A k \in 1..n : f[k] = step[k][f[k - 1]]
SomeSteps(n, S, base, step) == \E f : InSteps(f, n, S, base, step)

LEMMA StepsExist ==
  ASSUME NEW n \in Nat, NEW S, NEW base \in S, NEW step \in [1..n -> [S -> S]]
  PROVE  SomeSteps(n, S, base, step)
<1> DEFINE Good(m) == \E f \in [0..m -> S] : f[0] = base /\ \A k \in 1..m : f[k] = step[k][f[k - 1]]
           Missing == {m \in 0..n : ~Good(m)}
<1>1. Good(0)
  <2>1. PICK f : f = [k \in 0..0 |-> base]
    OBVIOUS
  <2>2. f \in [0..0 -> S] /\ f[0] = base
    BY <2>1
  <2>3. 1..0 = {}
    OBVIOUS
  <2>4. QED
    BY <2>2, <2>3
<1>2. ASSUME NEW m \in 1..n, Good(m - 1) PROVE Good(m)
  <2>1. PICK f \in [0..m - 1 -> S] : f[0] = base /\ \A k \in 1..m - 1 : f[k] = step[k][f[k - 1]]
    BY <1>2
  <2>2. PICK last : last = step[m][f[m - 1]] /\ last \in S
    <3>1. m - 1 \in 0..m - 1 /\ f[m - 1] \in S
      OBVIOUS
    <3>2. step[m] \in [S -> S]
      BY <3>1
    <3>3. step[m][f[m - 1]] \in S
      BY <3>2
    <3>4. QED
      BY <3>3
  <2>3. PICK g : g = [k \in 0..m |-> IF k = m THEN last ELSE f[k]]
    OBVIOUS
  <2>4. g \in [0..m -> S]
    BY <2>2, <2>3
  <2>5. \A k \in 0..m - 1 : g[k] = f[k]
    BY <2>3
  <2>6. g[m] = last
    BY <2>3
  <2>7. ASSUME NEW k \in 1..m PROVE g[k] = step[k][g[k - 1]]
    <3>1. g[k - 1] = f[k - 1]
      BY <2>5
    <3>2. CASE k = m
      BY <2>2, <2>6, <3>1, <3>2
    <3>3. CASE k # m
      <4>1. k \in 1..m - 1 /\ g[k] = f[k]
        BY <2>5, <3>3
      <4>2. QED
        BY <2>1, <3>1, <4>1
    <3>4. QED
      BY <3>2, <3>3
  <2>8. g[0] = base
    BY <2>1, <2>5
  <2>9. QED
    BY <2>4, <2>7, <2>8
<1>3. Missing = {}
  <2>1. SUFFICES ASSUME Missing # {} PROVE FALSE
    OBVIOUS
  <2>2. PICK m \in Missing : \A k \in Missing : m <= k
    <3> HIDE DEF Good
    <3>1. Missing \subseteq Nat
      OBVIOUS
    <3> HIDE DEF Missing
    <3>2. QED
      BY <2>1, <3>1, LeastExists
  <2> HIDE DEF Good
  <2>3. m \in 1..n
    BY <1>1
  <2>4. m - 1 \in 0..n /\ m - 1 \notin Missing
    BY <2>2, <2>3
  <2>5. Good(m - 1)
    BY <2>4
  <2>6. QED
    BY <1>2, <2>2, <2>3, <2>5
<1>4. Good(n)
  <2> HIDE DEF Good
  <2>1. n \in 0..n /\ n \notin Missing
    BY <1>3
  <2>2. QED
    BY <2>1
<1>5. PICK f \in [0..n -> S] : f[0] = base /\ \A k \in 1..n : f[k] = step[k][f[k - 1]]
  BY <1>4
<1>6. QED
  BY <1>5 DEF SomeSteps, InSteps

(* What holds at first and is handed on holds of each number. *)
LEMMA StepByStep ==
  ASSUME NEW n \in Nat, NEW T, 0 \in T, \A k \in 1..n : k - 1 \in T => k \in T
  PROVE  0..n \subseteq T
<1>1. SUFFICES ASSUME (0..n) \ T # {} PROVE FALSE
  OBVIOUS
<1>2. PICK Missing : Missing = (0..n) \ T
  OBVIOUS
<1>3. Missing \subseteq Nat /\ Missing # {}
  BY <1>1, <1>2
<1>4. PICK m \in Missing : \A k \in Missing : m <= k
  BY <1>3, LeastExists
<1>5. m \in 1..n
  BY <1>2, <1>4
<1>6. m - 1 \in 0..n /\ m - 1 \notin Missing
  BY <1>2, <1>4, <1>5
<1>7. QED
  BY <1>2, <1>5, <1>6

--------------------------------------------------------------------------------
(* The review of critical findings.                                        *)

Numbered(some) == Len(some) \in Nat /\ DOMAIN some = 1..Len(some)

Given(findings, all) == [DOMAIN findings -> {0} \cup DOMAIN all]

Taken(some) == {some[k] : k \in DOMAIN some} \ {0}

Gave(after, before, i, findings, all, fits) ==
    /\ after \in Given(findings, all) /\ \A k \in DOMAIN findings \ {i} : after[k] = before[k]
    /\ before[i] # 0 => after = before
    /\ before[i] = 0 =>
         \/ after[i] = 0 /\ Free(findings[i], all, Taken(before)) \cap fits[i] = {}
         \/ after[i] \in Free(findings[i], all, Taken(before)) \cap fits[i]

(* What a finding takes is free and fits it; it takes nothing only when    *)
(* nothing is.                                                             *)
LEMMA GiveFacts ==
  ASSUME NEW findings, Numbered(findings), NEW all, DOMAIN all \subseteq Nat \ {0}, NEW fits,
         NEW before \in Given(findings, all), NEW i \in DOMAIN findings
  PROVE  Gave(Give(before, i, findings, all, fits), before, i, findings, all, fits)
<1>a. PICK after : after = Give(before, i, findings, all, fits)
  OBVIOUS
<1>1. PICK used : used = Taken(before) /\ used = {before[k] : k \in DOMAIN findings} \ {0}
  BY DEF Taken, Given
<1>2. PICK free : free = Free(findings[i], all, used) \cap fits[i]
  OBVIOUS
<1>3. PICK first : first = FirstFree(findings[i], all, used, fits[i])
  OBVIOUS
<1>4. free \subseteq DOMAIN all /\ free \subseteq Nat
  BY <1>2 DEF Free
<1>5. IF free = {} THEN first = 0 ELSE first \in free
  <2>1. CASE free = {}
    BY <1>2, <1>3, <2>1 DEF FirstFree
  <2>2. CASE free # {}
    <3>1. first = Min(free)
      BY <1>2, <1>3, <2>2 DEF FirstFree
    <3>2. \E m \in free : \A k \in free : m <= k
      BY <1>4, <2>2, LeastExists
    <3>3. QED
      BY <2>2, <3>1, <3>2 DEF Min
  <2>3. QED
    BY <2>1, <2>2
<1>6. after = IF before[i] # 0 THEN before ELSE [before EXCEPT ![i] = first]
  BY <1>1, <1>3, <1>a DEF Give
<1>7. CASE before[i] # 0
  BY <1>6, <1>7, <1>a DEF Gave, Given
<1>8. CASE before[i] = 0
  <2>1. after = [before EXCEPT ![i] = first] /\ first \in {0} \cup DOMAIN all
    BY <1>4, <1>5, <1>6, <1>8
  <2>2. /\ after \in [DOMAIN findings -> {0} \cup DOMAIN all] /\ after[i] = first
        /\ \A k \in DOMAIN findings \ {i} : after[k] = before[k]
    BY <2>1 DEF Given
  <2>3. QED
    BY <1>1, <1>2, <1>5, <1>8, <1>a, <2>2 DEF Gave, Given
<1>9. QED
  BY <1>7, <1>8, <1>a

AssignedInSteps(findings, all, taken, fits) ==
    \E g \in [0..Len(findings) -> Given(findings, all)] :
        /\ g[0] = taken /\ \A k \in 1..Len(findings) : g[k] = Give(g[k - 1], k, findings, all, fits)
        /\ g[Len(findings)] = Assign(findings, all, taken, fits)

LEMMA AssignIsInSteps ==
  ASSUME NEW findings, Numbered(findings), NEW all, DOMAIN all \subseteq Nat \ {0}, NEW fits,
         NEW taken \in Given(findings, all)
  PROVE  AssignedInSteps(findings, all, taken, fits)
<1>a. PICK n : n = Len(findings) /\ n \in Nat /\ DOMAIN findings = 1..n
  BY DEF Numbered
<1>1. PICK step : step = [k \in 1..n |-> [s \in Given(findings, all) |-> Give(s, k, findings, all, fits)]]
  OBVIOUS
<1>2. step \in [1..n -> [Given(findings, all) -> Given(findings, all)]]
  <2>1. ASSUME NEW k \in 1..n, NEW s \in Given(findings, all)
        PROVE  Give(s, k, findings, all, fits) \in Given(findings, all)
    BY <1>a, GiveFacts DEF Gave
  <2>2. QED
    BY <1>1, <2>1
<1>3. PICK g \in [0..n -> Given(findings, all)] : g[0] = taken /\ \A k \in 1..n : g[k] = step[k][g[k - 1]]
  <2>1. n \in Nat
    BY <1>a
  <2>2. PICK S : S = Given(findings, all)
    OBVIOUS
  <2>3. taken \in S /\ step \in [1..n -> [S -> S]]
    BY <1>2, <2>2
  <2>4. SomeSteps(n, S, taken, step)
    BY ONLY <2>1, <2>3, StepsExist
  <2>5. QED
    BY <2>2, <2>4 DEF SomeSteps, InSteps
<1>4. \A k \in 1..n : g[k] = Give(g[k - 1], k, findings, all, fits)
  <2>1. ASSUME NEW k \in 1..n PROVE g[k] = Give(g[k - 1], k, findings, all, fits)
    <3>1. k - 1 \in 0..n
      BY <1>a
    <3>2. g[k - 1] \in Given(findings, all)
      BY <3>1
    <3>3. QED
      BY <1>1, <1>3, <3>2
  <2>2. QED
    BY <2>1
<1>5. g = [i \in 0..n |-> IF i = 0 THEN taken ELSE Give(g[i - 1], i, findings, all, fits)]
  BY <1>3, <1>4, <1>a
<1> DEFINE Defined(h) == h = [i \in 0..Len(findings) |-> IF i = 0 THEN taken ELSE Give(h[i - 1], i, findings, all, fits)]
<1>6. PICK h : h = CHOOSE x : Defined(x)
  OBVIOUS
<1>7. Assign(findings, all, taken, fits) = h[n]
  BY <1>6, <1>a DEF Assign
<1>8. Defined(h)
  BY <1>5, <1>6, <1>a
<1> HIDE DEF Defined
<1>9. \A k \in 0..n : h[k] = IF k = 0 THEN taken ELSE Give(h[k - 1], k, findings, all, fits)
  BY <1>8, <1>a DEF Defined
<1>10. PICK T : T = {k \in 0..n : h[k] = g[k]}
  OBVIOUS
<1>11. 0 \in T
  BY <1>3, <1>9, <1>10, <1>a
<1>12. ASSUME NEW k \in 1..n, k - 1 \in T PROVE k \in T
  BY <1>4, <1>9, <1>10, <1>12, <1>a
<1>13. n \in T
  <2>1. 0..n \subseteq T
    BY <1>11, <1>12, <1>a, StepByStep
  <2>2. QED
    BY <2>1, <1>a
<1>14. QED
  BY <1>3, <1>4, <1>7, <1>10, <1>13, <1>a DEF AssignedInSteps

OneEach(some) == \A i, k \in DOMAIN some : some[i] = some[k] /\ some[i] # 0 => i = k

Suits(j, i, findings, all, fits) == j \in DOMAIN all \cap fits[i] /\ all[j].finding.key = findings[i].key

(* After the first k: the others are as they were, and who has nothing     *)
(* would have had to take what another has.                                *)
Right(k, some, findings, all, taken, fits) ==
    /\ \A i \in DOMAIN some : taken[i] # 0 \/ i > k => some[i] = taken[i]
    /\ \A i \in DOMAIN some : taken[i] = 0 /\ some[i] # 0 => Suits(some[i], i, findings, all, fits)
    /\ OneEach(taken) => OneEach(some)
    /\ \A i \in DOMAIN some : i <= k /\ some[i] = 0 =>
            \A j \in DOMAIN all : Suits(j, i, findings, all, fits) => j \in Taken(some)

LEMMA GivingStaysRight ==
  ASSUME NEW findings, Numbered(findings), NEW all, DOMAIN all \subseteq Nat \ {0}, NEW fits,
         NEW taken \in Given(findings, all), NEW before \in Given(findings, all), NEW k \in DOMAIN findings,
         Right(k - 1, before, findings, all, taken, fits)
  PROVE  Right(k, Give(before, k, findings, all, fits), findings, all, taken, fits)
<1>1. PICK after : after = Give(before, k, findings, all, fits)
  OBVIOUS
<1>2. PICK n : n \in Nat /\ DOMAIN findings = 1..n /\ DOMAIN before = 1..n /\ DOMAIN taken = 1..n /\ k \in 1..n
  BY DEF Given, Numbered
<1>b. Gave(after, before, k, findings, all, fits)
  BY <1>1, GiveFacts
<1>a. /\ after \in Given(findings, all) /\ \A i \in (1..n) \ {k} : after[i] = before[i]
      /\ before[k] # 0 => after = before
      /\ before[k] = 0 =>
           \/ after[k] = 0 /\ Free(findings[k], all, Taken(before)) \cap fits[k] = {}
           \/ after[k] \in Free(findings[k], all, Taken(before)) \cap fits[k]
  BY <1>b, <1>2 DEF Gave
<1>3. before[k] = taken[k]
  BY <1>2 DEF Right
<1>4. CASE before[k] # 0
  <2>1. after = before
    BY <1>4, <1>a
  <2>2. \A i \in 1..n : i <= k /\ before[i] = 0 => i <= k - 1
    BY <1>2, <1>4
  <2>3. \A i \in 1..n : i > k => i > k - 1
    BY <1>2
  <2>4. QED
    BY <1>1, <1>2, <2>1, <2>2, <2>3 DEF Right
<1>5. CASE before[k] = 0
  <2>1. /\ after \in Given(findings, all) /\ \A i \in (1..n) \ {k} : after[i] = before[i]
        /\ \/ after[k] = 0 /\ Free(findings[k], all, Taken(before)) \cap fits[k] = {}
           \/ after[k] \in Free(findings[k], all, Taken(before)) \cap fits[k]
    BY <1>5, <1>a
  <2>2. DOMAIN after = 1..n
    BY <1>2, <2>1 DEF Given
  <2>3. after[k] # 0 => Suits(after[k], k, findings, all, fits) /\ after[k] \notin Taken(before)
    BY <2>1 DEF Free, Suits
  <2>4. Taken(before) \subseteq Taken(after)
    <3>1. ASSUME NEW j \in Taken(before) PROVE j \in Taken(after)
      <4>1. PICK i \in 1..n : before[i] = j /\ j # 0
        BY <1>2 DEF Taken
      <4>2. after[i] = j
        BY <1>5, <2>1, <4>1
      <4>3. QED
        BY <2>2, <4>1, <4>2 DEF Taken
    <3>2. QED
      BY <3>1
  <2>5. \A i \in 1..n : taken[i] # 0 \/ i > k => after[i] = taken[i]
    BY <1>2, <1>3, <1>5, <2>1 DEF Right
  <2>6. \A i \in 1..n : taken[i] = 0 /\ after[i] # 0 => Suits(after[i], i, findings, all, fits)
    BY <1>2, <2>1, <2>3 DEF Right
  <2>7. ASSUME OneEach(taken), NEW i \in 1..n, NEW l \in 1..n, after[i] = after[l], after[i] # 0
        PROVE  i = l
    <3>1. OneEach(before)
      BY <2>7 DEF Right
    <3>2. \A m \in 1..n : before[m] # 0 => before[m] \in Taken(before)
      BY <1>2 DEF Taken
    <3>3. CASE i = k \/ l = k
      BY <2>1, <2>3, <2>7, <3>2, <3>3
    <3>4. CASE i # k /\ l # k
      BY <1>2, <2>1, <2>7, <3>1, <3>4 DEF OneEach
    <3>5. QED
      BY <3>3, <3>4
  <2>8. ASSUME NEW i \in 1..n, i <= k, after[i] = 0, NEW j \in DOMAIN all, Suits(j, i, findings, all, fits)
        PROVE  j \in Taken(after)
    <3>1. CASE i = k
      <4>1. Free(findings[k], all, Taken(before)) \cap fits[k] = {}
        BY <2>1, <2>8, <3>1, 0 \notin DOMAIN all DEF Free
      <4>2. j \in Taken(before)
        BY <2>8, <3>1, <4>1 DEF Free, Suits
      <4>3. QED
        BY <2>4, <4>2
    <3>2. CASE i # k
      <4>1. i <= k - 1 /\ before[i] = 0
        BY <1>2, <2>1, <2>8, <3>2
      <4>2. j \in Taken(before)
        BY <1>2, <2>8, <4>1 DEF Right
      <4>3. QED
        BY <2>4, <4>2
    <3>3. QED
      BY <3>1, <3>2
  <2>9. OneEach(taken) => OneEach(after)
    BY <2>2, <2>7 DEF OneEach
  <2>10. QED
    BY <1>1, <2>2, <2>5, <2>6, <2>8, <2>9 DEF Right
<1>6. QED
  BY <1>4, <1>5

(* What the whole assignment gives, in whatever order the findings come. *)
LEMMA AssignFacts ==
  ASSUME NEW findings, Numbered(findings), NEW all, DOMAIN all \subseteq Nat \ {0}, NEW fits,
         NEW taken \in Given(findings, all)
  PROVE  /\ Assign(findings, all, taken, fits) \in Given(findings, all)
         /\ Right(Len(findings), Assign(findings, all, taken, fits), findings, all, taken, fits)
<1>1. PICK n : n = Len(findings) /\ n \in Nat /\ DOMAIN findings = 1..n
  BY DEF Numbered
<1>2. AssignedInSteps(findings, all, taken, fits)
  BY AssignIsInSteps
<1>3. PICK g \in [0..n -> Given(findings, all)] :
         /\ g[0] = taken /\ \A k \in 1..n : g[k] = Give(g[k - 1], k, findings, all, fits)
         /\ g[n] = Assign(findings, all, taken, fits)
  BY <1>1, <1>2 DEF AssignedInSteps
<1>4. PICK T : T = {k \in 0..n : Right(k, g[k], findings, all, taken, fits)}
  OBVIOUS
<1>5. 0 \in T
  <2>1. DOMAIN taken = 1..n
    BY <1>1 DEF Given
  <2>2. Right(0, taken, findings, all, taken, fits)
    BY <2>1 DEF Right
  <2>3. QED
    BY <1>1, <1>3, <1>4, <2>2
<1>6. ASSUME NEW k \in 1..n, k - 1 \in T PROVE k \in T
  <2>1. k - 1 \in 0..n /\ k \in 0..n
    BY <1>1
  <2>2. Right(k - 1, g[k - 1], findings, all, taken, fits) /\ g[k - 1] \in Given(findings, all)
    BY <1>4, <1>6, <2>1
  <2>3. Right(k, Give(g[k - 1], k, findings, all, fits), findings, all, taken, fits)
    BY <1>1, <2>2, GivingStaysRight
  <2>4. QED
    BY <1>3, <1>4, <2>1, <2>3
<1>7. 0..n \subseteq T
  BY <1>1, <1>5, <1>6, StepByStep
<1>8. n \in T /\ n \in 0..n
  BY <1>1, <1>7
<1>9. QED
  BY <1>1, <1>3, <1>4, <1>8

(* What a finding is matched with is a review of that very finding, of     *)
(* which no other has it; and none is left over for one that has nothing.  *)
MatchedRight(findings, all) ==
    LET given == Matched(findings, all)
    IN  /\ given \in Given(findings, all) /\ OneEach(given)
        /\ \A i \in DOMAIN findings : given[i] # 0 =>
              given[i] \in DOMAIN all /\ matchesReview(findings[i], all[given[i]]) /\ all[given[i]].finding.key = findings[i].key
        /\ \A i \in DOMAIN findings : given[i] = 0 =>
              \A j \in DOMAIN all :
                 matchesReview(findings[i], all[j]) /\ all[j].finding.key = findings[i].key => j \in Taken(given)

LEMMA MatchedFacts ==
  ASSUME NEW findings, Numbered(findings), NEW all, Numbered(all)
  PROVE  MatchedRight(findings, all)
<1>1. PICK n : n = Len(findings) /\ n \in Nat /\ DOMAIN findings = 1..n
  BY DEF Numbered
<1>2. DOMAIN all \subseteq Nat \ {0}
  BY DEF Numbered
<1>3. PICK fits : fits = Matching(findings, all)
  OBVIOUS
<1>4. PICK taken : taken = NoneTaken(findings)
  OBVIOUS
<1>5. PICK given : given = Matched(findings, all) /\ given = Assign(findings, all, taken, fits)
  BY <1>3, <1>4 DEF Matched
<1>6. taken \in Given(findings, all) /\ \A i \in DOMAIN findings : taken[i] = 0
  BY <1>4 DEF NoneTaken, Given
<1>7. given \in Given(findings, all) /\ Right(n, given, findings, all, taken, fits)
  BY <1>1, <1>2, <1>5, <1>6, AssignFacts
<1>8. DOMAIN given = 1..n /\ DOMAIN taken = 1..n
  BY <1>1, <1>6, <1>7 DEF Given
<1>9. OneEach(taken)
  BY <1>1, <1>6, <1>8 DEF OneEach
<1>10. OneEach(given)
  BY <1>7, <1>9 DEF Right
<1>11. \A i \in 1..n : fits[i] = {j \in DOMAIN all : matchesReview(findings[i], all[j])}
  BY <1>1, <1>3 DEF Matching
<1>12. ASSUME NEW i \in 1..n, given[i] # 0
       PROVE  given[i] \in DOMAIN all /\ matchesReview(findings[i], all[given[i]]) /\ all[given[i]].finding.key = findings[i].key
  <2>1. Suits(given[i], i, findings, all, fits)
    BY <1>1, <1>6, <1>7, <1>8, <1>12 DEF Right
  <2>2. QED
    BY <1>11, <2>1 DEF Suits
<1>13. ASSUME NEW i \in 1..n, given[i] = 0, NEW j \in DOMAIN all,
              matchesReview(findings[i], all[j]), all[j].finding.key = findings[i].key
       PROVE  j \in Taken(given)
  <2>1. Suits(j, i, findings, all, fits)
    BY <1>11, <1>13 DEF Suits
  <2>2. i <= n
    BY <1>1
  <2>3. QED
    BY <1>7, <1>8, <1>13, <2>1, <2>2 DEF Right
<1>14. QED
  BY <1>1, <1>5, <1>7, <1>10, <1>12, <1>13 DEF MatchedRight

(* What is reviewed is bound, and is of a day that has been. *)
EntriesReal ==
    /\ Numbered(Entries)
    /\ \A j \in DOMAIN Entries :
         /\ Entries[j].finding \in Findings /\ Entries[j].finding.bound /\ Entries[j].reviewedAt \in 0..day
         /\ [finding |-> Entries[j].finding, day |-> Entries[j].reviewedAt] \in attested

ReviewInv ==
    /\ current \in Indexes /\ day \in 0..MaxDay /\ builds \in 0..MaxBuilds /\ reviewExit \in -1..1
    /\ attested \subseteq [finding : Findings, day : 0..MaxDay]
    /\ EntriesReal
    /\ reviewExit = 0 => baseline # TornBaseline /\ ReviewCode = 0

LEMMA CurrentIsNumbered ==
  ASSUME current \in Indexes
  PROVE  Numbered(current) /\ \A i \in DOMAIN current : current[i] \in Findings
<1>1. PICK n \in 0..MaxFindings : current \in [1..n -> Findings]
  BY DEF Indexes, BoundedSeq, SeqOf
<1>2. n \in Nat
  BY ReviewAssumption
<1>3. current \in Seq(Findings) /\ Len(current) = n /\ DOMAIN current = 1..n
  BY <1>1, <1>2
<1>4. QED
  BY <1>1, <1>2, <1>3 DEF Numbered

(* A finding of the index and the finding of the entry it is matched with  *)
(* are the same.                                                           *)
LEMMA MatchedIsSame ==
  ASSUME ReviewInv, NEW i \in DOMAIN current, Matched(current, Entries)[i] # 0
  PROVE  /\ Matched(current, Entries)[i] \in DOMAIN Entries /\ current[i].bound
         /\ Entries[Matched(current, Entries)[i]].finding = current[i]
<1>1. PICK given : given = Matched(current, Entries)
  OBVIOUS
<1>2. MatchedRight(current, Entries) /\ current[i] \in Findings
  BY CurrentIsNumbered, MatchedFacts DEF ReviewInv, EntriesReal
<1>3. PICK j \in DOMAIN Entries : j = given[i] /\ matchesReview(current[i], Entries[j]) /\ Entries[j].finding.key = current[i].key
  BY <1>1, <1>2 DEF MatchedRight
<1>4. PICK f, g : f = current[i] /\ g = Entries[j].finding
  OBVIOUS
<1>5. f \in Findings /\ g \in Findings /\ g.bound /\ f.bound /\ g.evidence = f.evidence /\ g.provenance = f.provenance /\ g.key = f.key
  BY <1>2, <1>3, <1>4 DEF ReviewInv, EntriesReal, matchesReview
<1>6. g.bound = f.bound
  BY <1>5, ReviewAssumption
<1>7. f = g
  BY <1>5, <1>6, ReviewAssumption
<1>8. QED
  BY <1>1, <1>3, <1>4, <1>5, <1>7

CopiesOf(f) == {i \in DOMAIN current : current[i] = f}
ReviewsOf(f) == {j \in DOMAIN Entries : Entries[j].finding = f}
MatchedOf(f) == {i \in DOMAIN current : current[i] = f /\ Matched(current, Entries)[i] # 0}

Counted(f) ==
    /\ Cardinality(MatchedOf(f)) \in Nat /\ Cardinality(CopiesOf(f)) \in Nat /\ Cardinality(ReviewsOf(f)) \in Nat
    /\ Cardinality(MatchedOf(f)) <= Cardinality(ReviewsOf(f)) /\ Cardinality(MatchedOf(f)) <= Cardinality(CopiesOf(f))
    /\ f.bound => MatchedOf(f) = CopiesOf(f) \/ Cardinality(MatchedOf(f)) = Cardinality(ReviewsOf(f))

(* Of a bound finding, all copies are matched or all reviews are taken. *)
LEMMA ReviewsAreTaken ==
  ASSUME ReviewInv, NEW f
  PROVE  Counted(f)
<1>a. PICK C, R, X : C = CopiesOf(f) /\ R = ReviewsOf(f) /\ X = MatchedOf(f)
  OBVIOUS
<1>b. /\ C = {i \in DOMAIN current : current[i] = f} /\ R = {j \in DOMAIN Entries : Entries[j].finding = f}
      /\ X = {i \in DOMAIN current : current[i] = f /\ Matched(current, Entries)[i] # 0}
  BY <1>a DEF CopiesOf, ReviewsOf, MatchedOf
<1>1. PICK given : given = Matched(current, Entries)
  OBVIOUS
<1>2. Numbered(current) /\ Numbered(Entries) /\ MatchedRight(current, Entries)
  BY CurrentIsNumbered, MatchedFacts DEF ReviewInv, EntriesReal
<1>3. IsFiniteSet(DOMAIN current) /\ IsFiniteSet(DOMAIN Entries)
  BY <1>2, FS_Interval DEF Numbered
<1>4. IsFiniteSet(C) /\ IsFiniteSet(R) /\ IsFiniteSet(X) /\ Cardinality(X) <= Cardinality(C)
  <2>1. IsFiniteSet(C)
    BY <1>3, <1>b, FS_Subset
  <2>2. IsFiniteSet(R)
    BY <1>3, <1>b, FS_Subset
  <2>3. X \subseteq C
    BY <1>b
  <2>4. QED
    BY <2>1, <2>2, <2>3, FS_Subset
<1>5. PICK h : h = [i \in X |-> given[i]]
  OBVIOUS
<1>6. DOMAIN given = DOMAIN current /\ OneEach(given)
  BY <1>1, <1>2 DEF MatchedRight, Given
<1>7. h \in Injection(X, R)
  <2>1. \A i \in X : given[i] \in R
    BY <1>1, <1>b, MatchedIsSame
  <2>2. h \in [X -> R]
    BY <1>5, <2>1
  <2>3. \A i, k \in X : h[i] = h[k] => i = k
    BY <1>1, <1>5, <1>6, <1>b DEF OneEach
  <2>4. QED
    BY <2>2, <2>3 DEF Injection, IsInjective
<1>8. Cardinality(X) <= Cardinality(R) /\ (h \in Surjection(X, R) => Cardinality(X) = Cardinality(R))
  BY <1>4, <1>7, FS_Injection
<1>9. ASSUME f.bound, X # C PROVE h \in Surjection(X, R)
  <2>1. PICK i \in DOMAIN current : current[i] = f /\ given[i] = 0
    BY <1>1, <1>9, <1>b
  <2>2. ASSUME NEW j \in R PROVE \E k \in X : h[k] = j
    <3>1. matchesReview(current[i], Entries[j]) /\ Entries[j].finding.key = current[i].key
      BY <1>9, <1>b, <2>1 DEF matchesReview
    <3>2. j \in Taken(given)
      BY <1>1, <1>2, <1>b, <2>1, <3>1 DEF MatchedRight
    <3>3. PICK k \in DOMAIN current : given[k] = j /\ j # 0
      BY <1>6, <3>2 DEF Taken
    <3>4. current[k] = f
      BY <1>1, <1>b, <3>3, MatchedIsSame
    <3>5. QED
      BY <1>1, <1>5, <1>b, <3>3, <3>4
  <2>3. h \in [X -> R]
    BY <1>7 DEF Injection
  <2>4. QED
    BY <2>2, <2>3 DEF Surjection
<1>10. Cardinality(X) \in Nat /\ Cardinality(C) \in Nat /\ Cardinality(R) \in Nat
  BY <1>4, FS_CardinalityType
<1>11. QED
  BY <1>4, <1>8, <1>9, <1>10, <1>a DEF Counted

LEMMA MinOfTwo ==
  ASSUME NEW a \in Int, NEW b \in Int
  PROVE  Min({a, b}) \in {a, b} /\ Min({a, b}) <= a /\ Min({a, b}) <= b
<1>1. \E x \in {a, b} : \A y \in {a, b} : x <= y
  <2>1. CASE a <= b
    BY <2>1
  <2>2. CASE b <= a
    BY <2>2
  <2>3. QED
    BY <2>1, <2>2
<1>2. PICK m : m = Min({a, b})
  OBVIOUS
<1>3. m \in {a, b} /\ \A y \in {a, b} : m <= y
  BY <1>1, <1>2 DEF Min
<1>4. QED
  BY <1>2, <1>3

LEMMA ReviewIsReal ==
  ASSUME ReviewInv
  PROVE  ReviewTypeOK /\ GreenMeansReviewed /\ DatesAreReal /\ OrderErasesNothing
<1>1. ReviewTypeOK
  BY DEF ReviewInv, ReviewTypeOK, EntriesReal
<1>2. DatesAreReal
  BY DEF ReviewInv, EntriesReal, DatesAreReal
<1>3. GreenMeansReviewed
  <2>1. SUFFICES ASSUME reviewExit = 0, NEW i \in DOMAIN current
                 PROVE  /\ current[i].bound /\ Copies(current[i]) <= Reviews(current[i])
                        /\ \E a \in attested : a.finding = current[i]
    BY DEF GreenMeansReviewed
  <2>2. FreshFindings = {} /\ ChangedEvidence = {} /\ baseline # TornBaseline
    BY <2>1 DEF ReviewInv, ReviewCode
  <2>3. Prior = Entries
    BY <2>2 DEF Prior, Entries
  <2>4. \A k \in DOMAIN current : Matched(current, Entries)[k] # 0
    BY <2>2, <2>3 DEF FreshFindings, ChangedEvidence
  <2>5. /\ Matched(current, Entries)[i] \in DOMAIN Entries /\ current[i].bound
        /\ Entries[Matched(current, Entries)[i]].finding = current[i]
    BY <2>4, MatchedIsSame
  <2>6. \E a \in attested : a.finding = current[i]
    <3>1. PICK j \in DOMAIN Entries : Entries[j].finding = current[i]
      BY <2>5
    <3>2. PICK a : a = [finding |-> Entries[j].finding, day |-> Entries[j].reviewedAt]
      OBVIOUS
    <3>3. a \in attested /\ a.finding = current[i]
      BY <3>1, <3>2 DEF ReviewInv, EntriesReal
    <3>4. QED
      BY <3>3
  <2>7. Copies(current[i]) <= Reviews(current[i])
    <3>1. MatchedOf(current[i]) = CopiesOf(current[i]) /\ Counted(current[i])
      BY <2>4, ReviewsAreTaken DEF MatchedOf, CopiesOf
    <3>2. QED
      BY <3>1 DEF Copies, Reviews, CopiesOf, ReviewsOf, Counted
  <2>8. QED
    BY <2>5, <2>6, <2>7
<1>4. OrderErasesNothing
  <2>1. SUFFICES ASSUME NEW f \in {current[i] : i \in DOMAIN current}, f.bound
                 PROVE  Cardinality({i \in DOMAIN current : current[i] = f /\ Matched(current, Entries)[i] # 0})
                          = Min({Copies(f), Reviews(f)})
    BY DEF OrderErasesNothing
  <2>2. Counted(f)
    BY ReviewsAreTaken
  <2>3. PICK c, r, x : c = Copies(f) /\ r = Reviews(f) /\ x = Cardinality(MatchedOf(f))
    OBVIOUS
  <2>4. c = Cardinality(CopiesOf(f)) /\ r = Cardinality(ReviewsOf(f))
    BY <2>3 DEF Copies, Reviews, CopiesOf, ReviewsOf
  <2>5. x <= c /\ x <= r /\ (x = c \/ x = r) /\ x \in Int /\ c \in Int /\ r \in Int
    BY <2>1, <2>2, <2>3, <2>4 DEF Counted
  <2>6. Min({c, r}) \in {c, r} /\ Min({c, r}) <= c /\ Min({c, r}) <= r
    BY <2>5, MinOfTwo
  <2>7. x = Min({c, r})
    BY <2>5, <2>6
  <2>8. QED
    BY <2>3, <2>7 DEF MatchedOf
<1>5. QED
  BY <1>1, <1>2, <1>3, <1>4

LEMMA NothingReviewed ==
  ASSUME NEW none, none = <<>>
  PROVE  Numbered(none) /\ DOMAIN none = {}
BY DEF Numbered

LEMMA ReviewStarts == ReviewInit => ReviewInv
<1>1. SUFFICES ASSUME ReviewInit PROVE ReviewInv
  OBVIOUS
<1>2. Entries = <<>>
  BY <1>1 DEF ReviewInit, Entries
<1>3. EntriesReal
  BY <1>2, NothingReviewed DEF EntriesReal
<1>4. QED
  BY <1>1, <1>3, ReviewAssumption DEF ReviewInit, ReviewInv

(* What is written by an acceptance is the index, finding by finding. *)
LEMMA AcceptKeeps ==
  ASSUME ReviewInv, Accept
  PROVE  /\ ReviewInv'
         /\ \A i \in DOMAIN current : [finding |-> current[i], day |-> day] \in attested'
         /\ Entries' # <<>> => Len(Entries') = Len(current)
<1>1. /\ baseline # TornBaseline /\ Incomplete = {} /\ reviewExit' = -1
      /\ current' = current /\ day' = day /\ builds' = builds
      /\ baseline' = [i \in DOMAIN current |-> Accepted(i)]
      /\ attested' = attested \cup {[finding |-> current[i], day |-> day] : i \in DOMAIN current}
  BY DEF Accept, MayAccept
<1>2. Prior = Entries
  BY <1>1 DEF Prior, Entries
<1>3. PICK n : n \in Nat /\ n = Len(current) /\ DOMAIN current = 1..n
  BY CurrentIsNumbered DEF ReviewInv, Numbered
<1>4. \A i \in 1..n : current[i] \in Findings /\ current[i].bound
  BY <1>1, <1>3, CurrentIsNumbered DEF ReviewInv, Incomplete
<1>5. day \in 0..MaxDay /\ day \in 0..day /\ day \in Nat
  BY ReviewAssumption DEF ReviewInv
<1>6. ASSUME NEW i \in 1..n
      PROVE  /\ baseline'[i].finding = current[i] /\ baseline'[i].reviewedAt \in 0..day
             /\ [finding |-> current[i], day |-> baseline'[i].reviewedAt] \in attested'
  <2>1. PICK was : was = Matched(current, Entries)[i]
    OBVIOUS
  <2>2. baseline'[i] = [finding |-> current[i], reviewedAt |-> IF was # 0 THEN Entries[was].reviewedAt ELSE day]
    BY <1>1, <1>2, <1>3, <2>1 DEF Accepted
  <2>3. CASE was = 0
    <3>1. baseline'[i].finding = current[i] /\ baseline'[i].reviewedAt = day
      BY <2>2, <2>3
    <3>2. QED
      BY <1>1, <1>3, <1>5, <3>1
  <2>4. CASE was # 0
    <3>1. baseline'[i].finding = current[i] /\ baseline'[i].reviewedAt = Entries[was].reviewedAt
      BY <2>2, <2>4
    <3>2. was \in DOMAIN Entries /\ Entries[was].finding = current[i]
      BY <1>3, <2>1, <2>4, MatchedIsSame
    <3>3. /\ Entries[was].reviewedAt \in 0..day
          /\ [finding |-> Entries[was].finding, day |-> Entries[was].reviewedAt] \in attested
      BY <3>2 DEF ReviewInv, EntriesReal
    <3>4. [finding |-> current[i], day |-> Entries[was].reviewedAt] \in attested'
      BY <1>1, <3>2, <3>3
    <3>5. QED
      BY <3>1, <3>3, <3>4
  <2>5. QED
    BY <2>3, <2>4
<1>7. \A i \in DOMAIN current : [finding |-> current[i], day |-> day] \in attested'
  BY <1>1
<1>8. attested' \subseteq [finding : Findings, day : 0..MaxDay]
  BY <1>1, <1>3, <1>4, <1>5 DEF ReviewInv
<1>9. /\ EntriesReal'
      /\ Entries' # <<>> => Len(Entries') = Len(current)
  <2>1. CASE Entries' = <<>>
    BY <2>1, NothingReviewed DEF EntriesReal
  <2>2. CASE Entries' # <<>>
    <3>1. Entries' = baseline'
      BY <2>2 DEF Entries
    <3>2. PICK S : S = {baseline'[i] : i \in 1..n}
      OBVIOUS
    <3>3. baseline' \in [1..n -> S]
      BY <1>1, <1>3, <3>2
    <3>4. Len(baseline') = n /\ DOMAIN baseline' = 1..n
      BY ONLY <1>3, <3>3
    <3>5. Numbered(Entries')
      BY <1>3, <3>1, <3>4 DEF Numbered
    <3>6. ASSUME NEW j \in DOMAIN Entries'
          PROVE  /\ Entries'[j].finding \in Findings /\ Entries'[j].finding.bound /\ Entries'[j].reviewedAt \in 0..day'
                 /\ [finding |-> Entries'[j].finding, day |-> Entries'[j].reviewedAt] \in attested'
      BY <1>1, <1>4, <1>6, <3>1, <3>4
    <3>7. QED
      BY <1>3, <3>1, <3>4, <3>5, <3>6 DEF EntriesReal
  <2>3. QED
    BY <2>1, <2>2
<1>10. current' \in Indexes /\ day' \in 0..MaxDay /\ builds' \in 0..MaxBuilds
  BY <1>1 DEF ReviewInv
<1>11. ReviewInv'
  BY <1>1, <1>8, <1>9, <1>10 DEF ReviewInv
<1>12. QED
  BY <1>7, <1>9, <1>11

LEMMA OthersKeep ==
  ASSUME ReviewInv, ReportReview \/ KillAccept \/ RestoreBaseline \/ Rebuild \/ NextDay \/ UNCHANGED reviewVars
  PROVE  ReviewInv' /\ (Entries' = Entries \/ Entries' = <<>>)
<1>1. CASE UNCHANGED reviewVars
  <2>1. /\ current' = current /\ day' = day /\ builds' = builds /\ reviewExit' = reviewExit /\ attested' = attested
        /\ baseline' = baseline
    BY <1>1 DEF reviewVars
  <2>2. Entries' = Entries /\ Prior' = Prior
    BY <2>1 DEF Entries, Prior
  <2>3. EntriesReal'
    BY <2>1, <2>2 DEF ReviewInv, EntriesReal
  <2>4. ReviewCode' = ReviewCode
    BY <2>1, <2>2 DEF ReviewCode, FreshFindings, ChangedEvidence
  <2>5. QED
    BY <2>1, <2>2, <2>3, <2>4 DEF ReviewInv
<1>2. CASE ReportReview
  <2>1. /\ current' = current /\ day' = day /\ builds' = builds /\ attested' = attested /\ baseline' = baseline
        /\ reviewExit' = IF baseline = TornBaseline THEN 1 ELSE ReviewCode
    BY <1>2 DEF ReportReview
  <2>2. Entries' = Entries /\ Prior' = Prior
    BY <2>1 DEF Entries, Prior
  <2>3. EntriesReal'
    BY <2>1, <2>2 DEF ReviewInv, EntriesReal
  <2>4. ReviewCode' = ReviewCode /\ ReviewCode \in {0, 1}
    BY <2>1, <2>2 DEF ReviewCode, FreshFindings, ChangedEvidence
  <2>5. QED
    BY <2>1, <2>2, <2>3, <2>4 DEF ReviewInv
<1>3. CASE KillAccept
  <2>1. /\ current' = current /\ day' = day /\ builds' = builds /\ attested' = attested
        /\ baseline' = TornBaseline /\ reviewExit' = -1
    BY <1>3 DEF KillAccept
  <2>2. Entries' = <<>>
    BY <2>1 DEF Entries
  <2>3. EntriesReal'
    BY <2>2, NothingReviewed DEF EntriesReal
  <2>4. QED
    BY <2>1, <2>2, <2>3 DEF ReviewInv
<1>4. CASE RestoreBaseline
  <2>1. /\ current' = current /\ day' = day /\ builds' = builds /\ attested' = attested
        /\ baseline = TornBaseline /\ baseline' = NoBaseline /\ reviewExit' = reviewExit
    BY <1>4 DEF RestoreBaseline
  <2>2. Entries' = <<>>
    BY <2>1 DEF Entries
  <2>3. EntriesReal'
    BY <2>2, NothingReviewed DEF EntriesReal
  <2>4. reviewExit' # 0
    BY <2>1 DEF ReviewInv
  <2>5. QED
    BY <2>1, <2>2, <2>3, <2>4 DEF ReviewInv
<1>5. CASE Rebuild
  <2>1. /\ current' \in Indexes /\ day' = day /\ builds' = builds + 1 /\ builds < MaxBuilds /\ attested' = attested
        /\ baseline' = baseline /\ reviewExit' = -1
    BY <1>5 DEF Rebuild
  <2>2. Entries' = Entries
    BY <2>1 DEF Entries
  <2>3. EntriesReal'
    BY <2>1, <2>2 DEF ReviewInv, EntriesReal
  <2>4. builds' \in 0..MaxBuilds
    BY <2>1, ReviewAssumption DEF ReviewInv
  <2>5. QED
    BY <2>1, <2>2, <2>3, <2>4 DEF ReviewInv
<1>6. CASE NextDay
  <2>1. /\ current' = current /\ day' = day + 1 /\ day < MaxDay /\ builds' = builds /\ attested' = attested
        /\ baseline' = baseline /\ reviewExit' = reviewExit
    BY <1>6 DEF NextDay
  <2>2. Entries' = Entries /\ Prior' = Prior
    BY <2>1 DEF Entries, Prior
  <2>3. day \in Nat /\ day' \in 0..MaxDay
    BY <2>1, ReviewAssumption DEF ReviewInv
  <2>4. EntriesReal'
    <3>1. \A x \in 0..day : x \in 0..day'
      BY <2>1, <2>3
    <3>2. QED
      BY <2>1, <2>2, <3>1 DEF ReviewInv, EntriesReal
  <2>5. ReviewCode' = ReviewCode
    BY <2>1, <2>2 DEF ReviewCode, FreshFindings, ChangedEvidence
  <2>6. QED
    BY <2>1, <2>2, <2>3, <2>4, <2>5 DEF ReviewInv
<1>7. QED
  BY <1>1, <1>2, <1>3, <1>4, <1>5, <1>6

(***************************************************************************)
(* Reviews are real: green means that a person accepted this very evidence *)
(* of each finding, copy by copy, on the day that is written; no order of  *)
(* the findings loses a review, and only an acceptance makes one           *)
(* (review-criticals.mjs: the matching, --accept, the exit code).          *)
(***************************************************************************)
THEOREM ReviewsAreAlwaysReal == ReviewSpec => ReviewsAreReal
<1>1. ReviewInit => ReviewInv
  BY ReviewStarts
<1>2. ReviewInv /\ [ReviewNext]_reviewVars => ReviewInv'
  BY AcceptKeeps, OthersKeep DEF ReviewNext
<1>3. ReviewInv => ReviewTypeOK /\ GreenMeansReviewed /\ DatesAreReal /\ OrderErasesNothing
  BY ReviewIsReal
<1>4. ReviewInv /\ [ReviewNext]_reviewVars =>
        [Entries' # Entries /\ Entries' # <<>> =>
           /\ \A i \in DOMAIN current : [finding |-> current[i], day |-> day] \in attested'
           /\ Len(Entries') = Len(current)]_reviewVars
  BY AcceptKeeps, OthersKeep DEF ReviewNext
<1>5. QED
  BY <1>1, <1>2, <1>3, <1>4, PTL DEF ReviewSpec, ReviewsAreReal, OnlyAPersonReviews

--------------------------------------------------------------------------------
(* The MCP server.                                                         *)

(* The pieces of what is written follow each other; where the input ends,  *)
(* or a line without its newline does, is the piece that would come next.  *)
PieceAfter(p) ==
    IF p[2] = 0 THEN <<p[1] + 1, 1>> ELSE IF p[2] = written[p[1]].size THEN <<p[1], 0>> ELSE <<p[1], p[2] + 1>>
InputEnd == IF hungUp = "in a line" THEN <<Len(written), 0>> ELSE <<Len(written) + 1, 1>>
IsPiece(p) == p = <<p[1], p[2]>> /\ p[1] \in 1..Len(written) /\ p[2] \in 0..written[p[1]].size

InputIsTrue ==
    /\ written \in Seq(ClientLines) /\ hungUp \in {"no", "after a line", "in a line"} /\ stopped \in BOOLEAN
    /\ hungUp = "in a line" => Len(written) > 0
    /\ pipe \in Seq(Nat \X Nat) /\ \A j \in 1..Len(pipe) : IsPiece(pipe[j])
    /\ \A j \in 1..Len(pipe) : PieceAfter(pipe[j]) = IF j = Len(pipe) THEN InputEnd ELSE pipe[j + 1]

(* What is kept is the part of one line that comes before the next piece,  *)
(* and begins where the line does unless that is over the limit.           *)
KeptTrue(kept, next) ==
    /\ kept \in Seq(Nat \X Nat)
    /\ \A j \in 1..Len(kept) :
         /\ IsPiece(kept[j]) /\ kept[j][2] # 0 /\ kept[j][1] = next[1]
         /\ kept[j][2] = kept[1][2] + j - 1
         /\ j = Len(kept) => PieceAfter(kept[j]) = next
    /\ (IF kept = <<>> THEN next[2] ELSE kept[1][2]) = 1 \/ (IsPiece(next) /\ ~Small(next[1]))

AtOnce(i, code) == Answer(i, Absent, code, NoBody)
Understood(i) == ReadAs(i).form \notin {"garbage", "blank"}

(* Each answer is a refusal of what is no message, or the one to a message *)
(* that fits; what waits is such a message.                                *)
AnswerTrue(answer, at) ==
    LET i == answer.line
    IN  /\ i \in 1..Len(written) /\ i <= at /\ (Small(i) => i < at)
        /\ \/ answer = AtOnce(i, "TOO_LARGE") /\ ~Small(i)
           \/ answer = AtOnce(i, "PARSE") /\ (Small(i) => ReadAs(i).form = "garbage")
           \/ <<answer>> = handleMessage(i, ReadAs(i)) /\ Small(i) /\ Understood(i)

TaskTrue(waiting, at) ==
    /\ waiting = [line |-> waiting.line, promises |-> waiting.promises]
    /\ waiting.line \in 1..Len(written) /\ waiting.line < at /\ Small(waiting.line) /\ Understood(waiting.line)
    /\ waiting.promises \in 0..Promises(ReadAs(waiting.line))

OneTime(answers, tasks) ==
    /\ \A k, l \in 1..Len(answers) : Small(answers[k].line) /\ answers[k].line = answers[l].line => k = l
    /\ \A k, l \in 1..Len(tasks) : tasks[k].line = tasks[l].line => k = l
    /\ \A k \in 1..Len(answers), l \in 1..Len(tasks) : answers[k].line # tasks[l].line

(* A line that was read has what is due to it, or its message waits.       *)
Settled(i, answers, tasks) ==
    \/ \E k \in 1..Len(answers) : answers[k].line = i
    \/ ReadAs(i).form # "garbage" /\ handleMessage(i, ReadAs(i)) = <<>>
    \/ \E l \in 1..Len(tasks) : tasks[l].line = i
AllSettled(answers, tasks, at) ==
    \A i \in 1..Len(written) : i < at /\ Small(i) /\ ReadAs(i).form # "blank" => Settled(i, answers, tasks)

(* Who needs no tool is answered before later ones, and so is, of those    *)
(* that need one, who has had a turn.                                      *)
IsCall(waiting) == Promises(ReadAs(waiting.line)) = 1
KindOfTask(waiting) == IF IsCall(waiting) THEN "tool" ELSE "plain"
InTurn(answers, tasks) ==
    /\ \A k, l \in 1..Len(answers) : k < l /\ Kind(answers[k]) = Kind(answers[l]) => answers[k].line <= answers[l].line
    /\ \A k \in 1..Len(answers), l \in 1..Len(tasks) :
         Kind(answers[k]) = KindOfTask(tasks[l]) => answers[k].line < tasks[l].line
    /\ \A k, l \in 1..Len(tasks) : k < l /\ IsCall(tasks[k]) = IsCall(tasks[l]) =>
         /\ tasks[k].promises = tasks[l].promises => tasks[k].line < tasks[l].line
         /\ tasks[k].promises # tasks[l].promises => tasks[k].promises = 1 /\ tasks[l].line < tasks[k].line

BooksTrue(answers, tasks, at) ==
    /\ ASequence(answers) /\ \A k \in 1..Len(answers) : AnswerTrue(answers[k], at)
    /\ ASequence(tasks) /\ \A l \in 1..Len(tasks) : TaskTrue(tasks[l], at)
    /\ OneTime(answers, tasks) /\ AllSettled(answers, tasks, at) /\ InTurn(answers, tasks)

(* All that was said above, of the input as it is.                         *)
NextPiece == IF pipe = <<>> THEN InputEnd ELSE pipe[1]
CutTrue == \A piece \in cut : piece[1] \in 1..Len(written) /\ InCharacter(piece)
McpInv ==
    /\ InputIsTrue /\ CutTrue /\ Len(buffer) <= MaxBytes
    /\ KeptTrue(buffer, NextPiece) /\ BooksTrue(output, queue, NextPiece[1])

(* Lists of whatever elements, by their indices.                           *)
LEMMA ListFacts ==
  ASSUME NEW s, ASequence(s)
  PROVE  Len(s) \in Nat /\ DOMAIN s = 1..Len(s) /\ (s = <<>> <=> Len(s) = 0) /\ s \o <<>> = s
<1>1. PICK S : s \in Seq(S)
  BY DEF ASequence
<1>2. QED
  BY <1>1

IsAppended(t, s, e) ==
    /\ ASequence(t) /\ Len(t) = Len(s) + 1 /\ t[Len(s) + 1] = e
    /\ \A k \in 1..Len(s) : t[k] = s[k]

LEMMA ListAppended ==
  ASSUME NEW s, ASequence(s), NEW e
  PROVE  IsAppended(Append(s, e), s, e) /\ s \o <<e>> = Append(s, e)
<1>t. PICK t : t = Append(s, e)
  OBVIOUS
<1>1. PICK S : s \in Seq(S)
  BY DEF ASequence
<1>2. PICK U : U = S \cup {e}
  OBVIOUS
<1>3. s \in Seq(U) /\ e \in U
  <2>1. S \subseteq U
    BY <1>2
  <2>2. QED
    BY <1>1, <1>2, <2>1
<1>4. t \in Seq(U) /\ Len(t) = Len(s) + 1 /\ t[Len(s) + 1] = e /\ \A k \in 1..Len(s) : t[k] = s[k]
  BY <1>3, <1>t
<1>5. s \o <<e>> = t
  BY <1>3, <1>t
<1>6. QED
  BY <1>4, <1>5, <1>t DEF ASequence, IsAppended

IsRest(t, s) ==
    /\ ASequence(t) /\ Len(t) = Len(s) - 1 /\ Head(s) = s[1] /\ Len(s) \in Nat \ {0}
    /\ \A k \in 1..Len(s) - 1 : t[k] = s[k + 1]

LEMMA ListRest ==
  ASSUME NEW s, ASequence(s), s # <<>>
  PROVE  IsRest(Tail(s), s)
<1>t. PICK t : t = Tail(s)
  OBVIOUS
<1>1. PICK S : s \in Seq(S)
  BY DEF ASequence
<1>2. t \in Seq(S) /\ Len(t) = Len(s) - 1 /\ Head(s) = s[1] /\ Len(s) \in Nat \ {0}
  BY <1>1, <1>t
<1>3. \A k \in 1..Len(s) - 1 : t[k] = s[k + 1]
  BY <1>1, <1>t
<1>4. QED
  BY <1>2, <1>3, <1>t DEF ASequence, IsRest

--------------------------------------------------------------------------------
(* What the tools say.                                                     *)

(* Reports as coverage_report adds them up.                                *)
Tallies ==
    [error : BOOLEAN, total : Nat, states : [States -> Nat], requiredRuns : Nat, completedRuns : Nat,
     findingsTotal : Nat, problems : Nat]

(* What one record adds.                                                   *)
LEMMA RecordFacts ==
  ASSUME Records # NotLoaded, NEW i \in DOMAIN Records, NEW record, record = Records[i]
  PROVE  /\ StateOf(record) \in States /\ Len(record.findings) \in Nat
         /\ Cardinality(RequiredScans(record)) \in Nat /\ Cardinality(CompletedScans(record)) \in Nat
         /\ Cardinality(CompletedScans(record)) <= Cardinality(RequiredScans(record))
         /\ Cardinality(Problems(record)) \in Nat
         /\ Contradicts(record) => Cardinality(Problems(record)) >= 1
<1>1. StateOf(record) \in States /\ Len(record.findings) \in Nat
  BY RecordsAssumption DEF StateOf, States
<1>2. IsFiniteSet(RequiredScans(record))
  <2>1. CASE record.execution = Absent
    BY <2>1, FS_EmptySet DEF RequiredScans
  <2>2. CASE record.execution # Absent
    <3>1. PICK n \in Nat : DOMAIN record.execution.scans = 1..n
      BY <2>2, RecordsAssumption
    <3>2. IsFiniteSet(1..n) /\ RequiredScans(record) \subseteq 1..n
      BY <2>2, <3>1, FS_Interval DEF RequiredScans
    <3>3. QED
      BY <3>2, FS_Subset
  <2>3. QED
    BY <2>1, <2>2
<1>3. CompletedScans(record) \subseteq RequiredScans(record)
  BY DEF CompletedScans
<1>4. /\ Cardinality(RequiredScans(record)) \in Nat /\ Cardinality(CompletedScans(record)) \in Nat
      /\ Cardinality(CompletedScans(record)) <= Cardinality(RequiredScans(record))
  <2>1. IsFiniteSet(CompletedScans(record)) /\ Cardinality(CompletedScans(record)) <= Cardinality(RequiredScans(record))
    BY <1>2, <1>3, FS_Subset
  <2>2. QED
    BY <1>2, <2>1, FS_CardinalityType
<1>5. PICK both : both = {"not finished", "not complete"}
  OBVIOUS
<1>6. IsFiniteSet(both)
  <2>1. IsFiniteSet({"not finished"})
    BY FS_Singleton
  <2>2. IsFiniteSet({"not finished"} \cup {"not complete"})
    BY <2>1, FS_AddElement
  <2>3. both = {"not finished"} \cup {"not complete"}
    BY <1>5
  <2>4. QED
    BY <2>2, <2>3
<1>7. Problems(record) \subseteq both
  BY <1>5 DEF Problems
<1>8. IsFiniteSet(Problems(record))
  BY <1>6, <1>7, FS_Subset
<1>9. Cardinality(Problems(record)) \in Nat /\ (Cardinality(Problems(record)) = 0 <=> Problems(record) = {})
  BY <1>8, FS_CardinalityType, FS_EmptySet
<1>10. Contradicts(record) => Problems(record) # {}
  <2>1. CASE record.execution = Absent \/ record.execution.state # "complete"
    BY <2>1 DEF Contradicts, Problems, StateOf
  <2>2. CASE record.execution # Absent /\ record.execution.state = "complete"
    <3>1. SUFFICES ASSUME Contradicts(record) PROVE CompletedScans(record) # RequiredScans(record)
      BY <2>2 DEF Problems, StateOf
    <3>2. PICK k \in DOMAIN record.execution.scans :
            record.execution.scans[k].required /\ record.execution.scans[k].status # "completed"
      BY <2>2, <3>1 DEF Contradicts
    <3>3. k \in RequiredScans(record)
      BY <2>2, <3>2 DEF RequiredScans
    <3>4. k \notin CompletedScans(record)
      BY <3>2 DEF CompletedScans, Finished
    <3>5. QED
      BY <3>3, <3>4
  <2>3. QED
    BY <2>1, <2>2
<1>11. QED
  BY <1>1, <1>4, <1>9, <1>10

LEMMA TallyType ==
  ASSUME Records # NotLoaded, NEW i \in DOMAIN Records, NEW stats \in Tallies
  PROVE  Tally(stats, Records[i]) \in Tallies
<1>1. PICK record : record = Records[i]
  OBVIOUS
<1>2. /\ StateOf(record) \in States /\ Len(record.findings) \in Nat
      /\ Cardinality(RequiredScans(record)) \in Nat /\ Cardinality(CompletedScans(record)) \in Nat
      /\ Cardinality(Problems(record)) \in Nat
  BY <1>1, RecordFacts
<1>3. PICK state, r, c, p, f : /\ state = StateOf(record) /\ r = Cardinality(RequiredScans(record))
                               /\ c = Cardinality(CompletedScans(record)) /\ p = Cardinality(Problems(record))
                               /\ f = Len(record.findings)
  OBVIOUS
<1>4. /\ stats.total \in Nat /\ stats.states \in [States -> Nat] /\ stats.requiredRuns \in Nat
      /\ stats.completedRuns \in Nat /\ stats.findingsTotal \in Nat /\ stats.problems \in Nat
  BY DEF Tallies
<1>5. PICK states : states = [stats.states EXCEPT ![state] = stats.states[state] + 1]
  OBVIOUS
<1>6. states \in [States -> Nat]
  BY <1>2, <1>3, <1>4, <1>5
<1>7. Tally(stats, record) =
        [error |-> FALSE, total |-> stats.total + 1, states |-> states, requiredRuns |-> stats.requiredRuns + r,
         completedRuns |-> stats.completedRuns + c, findingsTotal |-> stats.findingsTotal + f,
         problems |-> stats.problems + p]
  BY <1>3, <1>5 DEF Tally
<1>8. /\ stats.total + 1 \in Nat /\ stats.requiredRuns + r \in Nat /\ stats.completedRuns + c \in Nat
      /\ stats.findingsTotal + f \in Nat /\ stats.problems + p \in Nat
  <2>1. r \in Nat /\ c \in Nat /\ p \in Nat /\ f \in Nat
    BY <1>2, <1>3
  <2>2. QED
    BY <1>4, <2>1
<1>9. QED
  BY <1>1, <1>6, <1>7, <1>8 DEF Tallies

TalliedInSteps ==
    \E g \in [0..Len(Records) -> Tallies] :
        /\ g[0] = NothingTallied /\ \A k \in 1..Len(Records) : g[k] = Tally(g[k - 1], Records[k])
        /\ g[Len(Records)] = computeCoverage(Records)

LEMMA CoverageIsInSteps == Records # NotLoaded => TalliedInSteps
<1> SUFFICES ASSUME Records # NotLoaded PROVE TalliedInSteps
  OBVIOUS
<1>a. PICK n : n = Len(Records) /\ n \in Nat /\ DOMAIN Records = 1..n
  BY RecordsAssumption
<1>1. PICK step : step = [k \in 1..n |-> [s \in Tallies |-> Tally(s, Records[k])]]
  OBVIOUS
<1>2. step \in [1..n -> [Tallies -> Tallies]]
  <2>1. \A k \in 1..n, s \in Tallies : Tally(s, Records[k]) \in Tallies
    BY <1>a, TallyType
  <2>2. QED
    BY <1>1, <2>1
<1>b. NothingTallied \in Tallies
  BY DEF NothingTallied, Tallies
<1>3. PICK g \in [0..n -> Tallies] : g[0] = NothingTallied /\ \A k \in 1..n : g[k] = step[k][g[k - 1]]
  <2>1. n \in Nat
    BY <1>a
  <2>2. PICK S : S = Tallies
    OBVIOUS
  <2>3. NothingTallied \in S /\ step \in [1..n -> [S -> S]]
    BY <1>2, <1>b, <2>2
  <2>4. PICK nothing : nothing = NothingTallied
    OBVIOUS
  <2>5. nothing \in S
    BY <2>3, <2>4
  <2>6. SomeSteps(n, S, nothing, step)
    BY ONLY <2>1, <2>3, <2>5, StepsExist
  <2>7. QED
    BY <2>2, <2>4, <2>6 DEF SomeSteps, InSteps
<1>4. \A k \in 1..n : g[k] = Tally(g[k - 1], Records[k])
  <2>1. ASSUME NEW k \in 1..n PROVE g[k] = Tally(g[k - 1], Records[k])
    <3>1. k - 1 \in 0..n
      BY <1>a
    <3>2. g[k - 1] \in Tallies
      BY <3>1
    <3>3. QED
      BY <1>1, <1>3, <3>2
  <2>2. QED
    BY <2>1
<1>5. g = [i \in 0..n |-> IF i = 0 THEN NothingTallied ELSE Tally(g[i - 1], Records[i])]
  BY <1>3, <1>4, <1>a
<1> DEFINE Defined(h) == h = [i \in 0..Len(Records) |-> IF i = 0 THEN NothingTallied ELSE Tally(h[i - 1], Records[i])]
<1>6. PICK h : h = CHOOSE x : Defined(x)
  OBVIOUS
<1>7. computeCoverage(Records) = h[n]
  BY <1>6, <1>a DEF computeCoverage
<1>8. Defined(h)
  BY <1>5, <1>6, <1>a
<1> HIDE DEF Defined
<1>9. \A k \in 0..n : h[k] = IF k = 0 THEN NothingTallied ELSE Tally(h[k - 1], Records[k])
  BY <1>8, <1>a DEF Defined
<1>10. PICK T : T = {k \in 0..n : h[k] = g[k]}
  OBVIOUS
<1>11. 0 \in T
  BY <1>3, <1>9, <1>10, <1>a
<1>12. ASSUME NEW k \in 1..n, k - 1 \in T PROVE k \in T
  BY <1>4, <1>9, <1>10, <1>12, <1>a
<1>13. n \in T
  <2>1. 0..n \subseteq T
    BY <1>11, <1>12, <1>a, StepByStep
  <2>2. QED
    BY <2>1, <1>a
<1>14. QED
  BY <1>3, <1>4, <1>7, <1>10, <1>13, <1>a DEF TalliedInSteps

(* Every record that contradicts itself is noticed, every record counted.  *)
ContradictsUpTo(n) == {i \in 1..n : Contradicts(Records[i])}
TalliedRight(stats, n) ==
    /\ stats.completedRuns <= stats.requiredRuns
    /\ stats.states["complete"] + stats.states["incomplete"] + stats.states["absent"] = n
    /\ stats.problems >= Cardinality(ContradictsUpTo(n))

LEMMA TallyKeeps ==
  ASSUME Records # NotLoaded, NEW n \in Nat, n + 1 \in DOMAIN Records, NEW stats \in Tallies, TalliedRight(stats, n)
  PROVE  TalliedRight(Tally(stats, Records[n + 1]), n + 1)
<1>1. PICK record : record = Records[n + 1]
  OBVIOUS
<1>2. PICK r, c, p, state : r = Cardinality(RequiredScans(record)) /\ c = Cardinality(CompletedScans(record))
                            /\ p = Cardinality(Problems(record)) /\ state = StateOf(record)
  OBVIOUS
<1>3. /\ state \in States /\ r \in Nat /\ c \in Nat /\ c <= r /\ p \in Nat /\ Len(record.findings) \in Nat
      /\ Contradicts(record) => p >= 1
  BY <1>1, <1>2, RecordFacts
<1>4. PICK after : after = Tally(stats, record)
  OBVIOUS
<1>5. /\ after.requiredRuns = stats.requiredRuns + r /\ after.completedRuns = stats.completedRuns + c
      /\ after.problems = stats.problems + p
      /\ after.states = [stats.states EXCEPT ![state] = @ + 1]
  BY <1>2, <1>4 DEF Tally, Tallies
<1>6. /\ stats.requiredRuns \in Nat /\ stats.completedRuns \in Nat /\ stats.problems \in Nat
      /\ stats.states \in [States -> Nat]
  BY DEF Tallies
<1>7. after.completedRuns <= after.requiredRuns
  BY <1>3, <1>5, <1>6 DEF TalliedRight
<1>8. after.states["complete"] + after.states["incomplete"] + after.states["absent"] = n + 1
  <2>1. PICK counts : counts = stats.states
    OBVIOUS
  <2>2. /\ counts \in [{"complete", "incomplete", "absent"} -> Nat]
        /\ counts["complete"] + counts["incomplete"] + counts["absent"] = n
        /\ after.states = [counts EXCEPT ![state] = counts[state] + 1] /\ state \in {"complete", "incomplete", "absent"}
    BY <1>3, <1>5, <1>6, <2>1 DEF TalliedRight, States
  <2>3. CASE state = "complete"
    BY <2>2, <2>3
  <2>4. CASE state = "incomplete"
    BY <2>2, <2>4
  <2>5. CASE state = "absent"
    BY <2>2, <2>5
  <2>6. QED
    BY <2>2, <2>3, <2>4, <2>5
<1>9. after.problems >= Cardinality(ContradictsUpTo(n + 1))
  <2>1. IsFiniteSet(ContradictsUpTo(n)) /\ Cardinality(ContradictsUpTo(n)) \in Nat
    <3>1. IsFiniteSet(1..n) /\ ContradictsUpTo(n) \subseteq 1..n
      BY FS_Interval DEF ContradictsUpTo
    <3>2. QED
      BY <3>1, FS_Subset, FS_CardinalityType
  <2>2. CASE Contradicts(record)
    <3>1. ContradictsUpTo(n + 1) = ContradictsUpTo(n) \cup {n + 1} /\ n + 1 \notin ContradictsUpTo(n)
      BY <1>1, <2>2 DEF ContradictsUpTo
    <3>2. Cardinality(ContradictsUpTo(n + 1)) = Cardinality(ContradictsUpTo(n)) + 1
      BY <2>1, <3>1, FS_AddElement
    <3>3. QED
      BY <1>3, <1>5, <1>6, <2>1, <2>2, <3>2 DEF TalliedRight
  <2>3. CASE ~Contradicts(record)
    <3>1. ContradictsUpTo(n + 1) = ContradictsUpTo(n)
      BY <1>1, <2>3 DEF ContradictsUpTo
    <3>2. QED
      BY <1>3, <1>5, <1>6, <2>1, <3>1 DEF TalliedRight
  <2>4. QED
    BY <2>2, <2>3
<1>10. QED
  BY <1>1, <1>4, <1>7, <1>8, <1>9 DEF TalliedRight

LEMMA CoverageFacts ==
  ASSUME Records # NotLoaded
  PROVE  computeCoverage(Records) \in Tallies /\ TalliedRight(computeCoverage(Records), Len(Records))
<1>1. PICK n : n = Len(Records) /\ n \in Nat /\ DOMAIN Records = 1..n
  BY RecordsAssumption
<1>2. PICK g \in [0..n -> Tallies] :
         /\ g[0] = NothingTallied /\ \A k \in 1..n : g[k] = Tally(g[k - 1], Records[k])
         /\ g[n] = computeCoverage(Records)
  BY <1>1, CoverageIsInSteps DEF TalliedInSteps
<1>3. PICK T : T = {k \in 0..n : TalliedRight(g[k], k)}
  OBVIOUS
<1>4. 0 \in T
  <2>1. ContradictsUpTo(0) = {}
    BY DEF ContradictsUpTo
  <2>2. Cardinality(ContradictsUpTo(0)) = 0
    BY <2>1, FS_EmptySet
  <2>3. TalliedRight(NothingTallied, 0)
    BY <2>2 DEF TalliedRight, NothingTallied, States
  <2>4. QED
    BY <1>1, <1>2, <1>3, <2>3
<1>5. ASSUME NEW k \in 1..n, k - 1 \in T PROVE k \in T
  <2>1. k - 1 \in 0..n /\ k \in 0..n /\ k - 1 \in Nat /\ (k - 1) + 1 = k
    BY <1>1
  <2>2. TalliedRight(g[k - 1], k - 1) /\ g[k - 1] \in Tallies
    BY <1>3, <1>5, <2>1
  <2>3. TalliedRight(Tally(g[k - 1], Records[(k - 1) + 1]), (k - 1) + 1)
    BY <1>1, <2>1, <2>2, TallyKeeps
  <2>4. QED
    BY <1>2, <1>3, <2>1, <2>3
<1>6. 0..n \subseteq T
  BY <1>1, <1>4, <1>5, StepByStep
<1>7. n \in T /\ n \in 0..n
  BY <1>1, <1>6
<1>8. QED
  BY <1>1, <1>2, <1>3, <1>7

(* Of so many numbers there is an n-th.                                    *)
UpTo(M, i) == {k \in M : k <= i}

LEMMA NthExists ==
  ASSUME NEW len \in Nat, NEW M, M \subseteq 1..len, NEW n \in Nat, 1 <= n, n <= Cardinality(M)
  PROVE  \E i \in M : Cardinality(UpTo(M, i)) = n
<1>1. \A i \in 0..len : IsFiniteSet(UpTo(M, i)) /\ Cardinality(UpTo(M, i)) \in Nat
  <2>1. IsFiniteSet(M)
    <3>1. IsFiniteSet(1..len)
      BY FS_Interval
    <3>2. QED
      BY <3>1, FS_Subset
  <2>2. \A i \in 0..len : UpTo(M, i) \subseteq M
    BY DEF UpTo
  <2>3. QED
    BY <2>1, <2>2, FS_Subset, FS_CardinalityType
<1>2. PICK T : T = {i \in 0..len : Cardinality(UpTo(M, i)) >= n}
  OBVIOUS
<1>3. len \in T
  <2>1. UpTo(M, len) = M
    <3>1. \A k \in M : k <= len
      OBVIOUS
    <3>2. QED
      BY <3>1 DEF UpTo
  <2>2. Cardinality(M) \in Nat
    BY <1>1, <2>1
  <2>3. QED
    BY <1>2, <2>1, <2>2
<1>4. T \subseteq Nat /\ T # {}
  BY <1>2, <1>3
<1>5. PICK i \in T : \A k \in T : i <= k
  BY <1>4, LeastExists
<1>6. n \in Nat /\ n >= 1
  OBVIOUS
<1>7. i # 0
  <2>1. UpTo(M, 0) = {}
    <3>1. \A k \in M : ~(k <= 0)
      OBVIOUS
    <3>2. QED
      BY <3>1 DEF UpTo
  <2>2. Cardinality(UpTo(M, 0)) = 0
    BY <2>1, FS_EmptySet
  <2>3. QED
    BY <1>2, <1>6, <2>2
<1>8. i - 1 \in 0..len /\ i \in 1..len /\ i - 1 \notin T
  BY <1>2, <1>5, <1>7
<1>9. Cardinality(UpTo(M, i - 1)) < n /\ Cardinality(UpTo(M, i)) >= n
  BY <1>1, <1>2, <1>6, <1>8
<1>10. CASE i \notin M
  <2>1. UpTo(M, i) = UpTo(M, i - 1)
    <3>1. \A k \in M : k <= i <=> k <= i - 1
      BY <1>8, <1>10
    <3>2. QED
      BY <3>1 DEF UpTo
  <2>2. QED
    BY <1>1, <1>6, <1>8, <1>9, <2>1
<1>11. CASE i \in M
  <2>1. UpTo(M, i) = UpTo(M, i - 1) \cup {i} /\ i \notin UpTo(M, i - 1)
    <3>1. \A k \in M : k <= i <=> k <= i - 1 \/ k = i
      BY <1>8, <1>11
    <3>2. ~(i <= i - 1)
      BY <1>8
    <3>3. QED
      BY <1>11, <3>1, <3>2 DEF UpTo
  <2>2. Cardinality(UpTo(M, i)) = Cardinality(UpTo(M, i - 1)) + 1
    BY <1>1, <1>8, <2>1, FS_AddElement
  <2>3. Cardinality(UpTo(M, i)) = n
    BY <1>1, <1>6, <1>8, <1>9, <2>2
  <2>4. QED
    BY <1>11, <2>3
<1>12. QED
  BY <1>10, <1>11

WantedRecords(args) == {i \in DOMAIN Records : Wanted(Records[i], args)}
LookupRight(body, args) ==
    /\ body.found <=> WantedRecords(args) # {}
    /\ body.multiple <=> Cardinality(WantedRecords(args)) > 1
    /\ \A i \in DOMAIN body.records : \E w \in WantedRecords(args) : body.records[i] = describeRecord(Records[w])

LEMMA LookupFacts ==
  ASSUME NEW args
  PROVE  \/ lookupServer(args).error = TRUE
         \/ LookupRight(lookupServer(args), args) /\ lookupServer(args) # NoBody
<1>1. CASE (args.server = Absent /\ args.package = Absent) \/ Records = NotLoaded
  BY <1>1 DEF lookupServer, Throws
<1>2. CASE ~(args.server = Absent /\ args.package = Absent) /\ Records # NotLoaded
  <2>1. PICK M : M = Asked(args)
    OBVIOUS
  <2>2. M = WantedRecords(args)
    BY <2>1 DEF Asked, WantedRecords, Matches, Wanted
  <2>3. PICK len \in Nat : DOMAIN Records = 1..len
    BY <1>2, RecordsAssumption
  <2>4. M \subseteq 1..len
    BY <2>1, <2>3 DEF Asked
  <2>5. IsFiniteSet(M) /\ Cardinality(M) \in Nat /\ (Cardinality(M) = 0 <=> M = {})
    <3>1. IsFiniteSet(1..len)
      BY FS_Interval
    <3>2. IsFiniteSet(M)
      BY <2>4, <3>1, FS_Subset
    <3>3. QED
      BY <3>2, FS_CardinalityType, FS_EmptySet
  <2>6. PICK some : some = [n \in {k \in 1..10 : k <= Cardinality(M)} |-> describeRecord(Records[NthAsked(args, n)])]
    OBVIOUS
  <2>7. lookupServer(args) =
          [error |-> FALSE, found |-> Cardinality(M) > 0, multiple |-> Cardinality(M) > 1, records |-> some]
    BY <1>2, <2>1, <2>6 DEF lookupServer
  <2>8. ASSUME NEW n \in DOMAIN some PROVE \E w \in M : some[n] = describeRecord(Records[w])
    <3>1. n \in Nat /\ 1 <= n /\ n <= Cardinality(M)
      BY <2>5, <2>6
    <3>2. \E i \in M : Cardinality(UpTo(M, i)) = n
      BY <2>3, <2>4, <3>1, NthExists
    <3>3. NthAsked(args, n) \in M
      BY <2>1, <3>2 DEF NthAsked, UpTo
    <3>4. some[n] = describeRecord(Records[NthAsked(args, n)])
      BY <2>6
    <3>5. QED
      BY <3>3, <3>4
  <2>9. PICK body : body = lookupServer(args)
    OBVIOUS
  <2>10. (body.found <=> Cardinality(M) > 0) /\ (body.multiple <=> Cardinality(M) > 1) /\ body.records = some
    <3>1. PICK yes, many : yes = (Cardinality(M) > 0) /\ many = (Cardinality(M) > 1)
      OBVIOUS
    <3>2. lookupServer(args) = [error |-> FALSE, found |-> yes, multiple |-> many, records |-> some]
      BY <2>7, <3>1, Zenon
    <3>3. body.found = yes /\ body.multiple = many /\ body.records = some
      BY <2>9, <3>2
    <3>4. QED
      BY <3>1, <3>3, Zenon
  <2>11. body.found <=> M # {}
    <3>1. Cardinality(M) > 0 <=> M # {}
      BY <2>5
    <3>2. QED
      BY <2>10, <3>1
  <2>12. LookupRight(body, args)
    BY <2>2, <2>8, <2>10, <2>11 DEF LookupRight
  <2>13. body # NoBody
    <3>1. "found" \in DOMAIN body
      BY <2>7, <2>9
    <3>2. "found" \notin DOMAIN NoBody
      BY DEF NoBody
    <3>3. QED
      BY <3>1, <3>2
  <2>14. QED
    BY <2>9, <2>12, <2>13
<1>3. QED
  BY <1>1, <1>2

(* What a tool says is an error, or has something in it.                   *)
LEMMA CallFacts ==
  ASSUME NEW name \in ToolNames, NEW args
  PROVE  callTool(name, args).error = TRUE \/ callTool(name, args) # NoBody
<1>1. CASE name = "lookup_server"
  <2>1. callTool(name, args) = lookupServer(args)
    BY <1>1 DEF callTool
  <2>2. QED
    BY <2>1, LookupFacts
<1>2. CASE name = "inventory_tools"
  <2>1. callTool(name, args) = inventoryTools(args)
    BY <1>2 DEF callTool
  <2>2. inventoryTools(args).error = TRUE \/ inventoryTools(args) = [error |-> FALSE, items |-> args.tools]
    <3>1. \A why : Throws(why).error = TRUE
      BY DEF Throws
    <3>2. (\E why : inventoryTools(args) = Throws(why)) \/ inventoryTools(args) = [error |-> FALSE, items |-> args.tools]
      BY DEF inventoryTools
    <3>3. QED
      BY <3>1, <3>2
  <2>3. [error |-> FALSE, items |-> args.tools] # NoBody
    <3>1. "items" \in DOMAIN [error |-> FALSE, items |-> args.tools] /\ "items" \notin DOMAIN NoBody
      BY DEF NoBody
    <3>2. QED
      BY <3>1
  <2>4. QED
    BY <2>1, <2>2, <2>3
<1>3. CASE name = "coverage_report"
  <2>1. callTool(name, args) = coverageReport
    BY <1>3 DEF callTool
  <2>2. coverageReport.error = TRUE \/ (Records # NotLoaded /\ coverageReport = computeCoverage(Records))
    BY DEF coverageReport, Throws
  <2>3. Records # NotLoaded => computeCoverage(Records) # NoBody
    <3>1. \A stats \in Tallies : "total" \in DOMAIN stats
      BY DEF Tallies
    <3>2. "total" \notin DOMAIN NoBody
      BY DEF NoBody
    <3>3. Records # NotLoaded => computeCoverage(Records) \in Tallies
      BY CoverageFacts
    <3>4. QED
      BY <3>1, <3>2, <3>3
  <2>4. QED
    BY <2>1, <2>2, <2>3
<1>4. CASE name = "check_project"
  <2>1. callTool(name, args) = checkProject(args)
    BY <1>4 DEF callTool
  <2>2. \E n : checkProject(args).error = TRUE \/ checkProject(args) = [error |-> FALSE, related |-> n]
    BY DEF checkProject, Throws
  <2>3. \A n : [error |-> FALSE, related |-> n] # NoBody
    <3>1. \A n : "related" \in DOMAIN [error |-> FALSE, related |-> n]
      OBVIOUS
    <3>2. "related" \notin DOMAIN NoBody
      BY DEF NoBody
    <3>3. QED
      BY <3>1, <3>2
  <2>4. QED
    BY <2>1, <2>2, <2>3
<1>5. QED
  BY <1>1, <1>2, <1>3, <1>4 DEF ToolNames

(* What a message is answered with.                                        *)
AnswerOf(a, i, line) ==
    /\ a = Answer(i, a.id, a.code, a.body) /\ a.line = i /\ a.id = IdOf(line)
    /\ a.code \notin {"TOO_LARGE", "PARSE"} /\ Kind(a) = IF Promises(line) = 1 THEN "tool" ELSE "plain"
Handled(i, line) ==
    \/ handleMessage(i, line) = <<>> /\ ~Expected(line)
    \/ Expected(line) /\ \E a : handleMessage(i, line) = <<a>> /\ AnswerOf(a, i, line)

LEMMA HandleFacts ==
  ASSUME NEW i, NEW line, line.form \in {"request", "batch", "foreign"}
  PROVE  Handled(i, line) /\ Promises(line) \in {0, 1}
<1>1. Promises(line) \in {0, 1}
  BY DEF Promises
<1>p. ASSUME NEW id, NEW code \in {"INVALID_REQUEST", "INVALID_PARAMS", "METHOD_NOT_FOUND", "result"}, id = IdOf(line),
             Promises(line) = 0
      PROVE  AnswerOf(Answer(i, id, code, NoBody), i, line)
  BY <1>p DEF AnswerOf, Answer, Kind
<1>2. CASE line.form = "batch"
  <2>1. handleMessage(i, line) = <<Answer(i, Absent, "INVALID_REQUEST", NoBody)>>
    BY <1>2 DEF handleMessage
  <2>2. Absent = IdOf(line) /\ Promises(line) = 0 /\ Expected(line)
    BY <1>2 DEF IdOf, Promises, Expected
  <2>3. QED
    BY <1>1, <1>p, <2>1, <2>2 DEF Handled
<1>3. CASE line.form = "foreign"
  <2>1. handleMessage(i, line) = <<Answer(i, line.id, "INVALID_REQUEST", NoBody)>>
    BY <1>3 DEF handleMessage
  <2>2. line.id = IdOf(line) /\ Promises(line) = 0 /\ Expected(line)
    BY <1>3 DEF IdOf, Promises, Expected
  <2>3. QED
    BY <1>1, <1>p, <2>1, <2>2 DEF Handled
<1>4. CASE line.form = "request" /\ line.id = Absent
  BY <1>1, <1>4 DEF handleMessage, Expected, Handled
<1>5. CASE line.form = "request" /\ line.id # Absent
  <2>1. Expected(line) /\ line.id = IdOf(line)
    BY <1>5 DEF Expected, IdOf
  <2>2. CASE line.method \in {"initialize", "ping", "tools/list"}
    <3>1. handleMessage(i, line) = <<Answer(i, line.id, "result", NoBody)>> /\ Promises(line) = 0
      BY <1>5, <2>2 DEF handleMessage, Promises
    <3>2. QED
      BY <1>1, <1>p, <2>1, <3>1 DEF Handled
  <2>3. CASE line.method = "tools/call" /\ line.name \notin ToolNames
    <3>1. handleMessage(i, line) = <<Answer(i, line.id, "INVALID_PARAMS", NoBody)>> /\ Promises(line) = 0
      BY <1>5, <2>3 DEF handleMessage, Promises
    <3>2. QED
      BY <1>1, <1>p, <2>1, <3>1 DEF Handled
  <2>4. CASE line.method = "tools/call" /\ line.name \in ToolNames
    <3>1. handleMessage(i, line) = <<Called(i, line)>> /\ Promises(line) = 1
      BY <1>5, <2>4 DEF handleMessage, Promises
    <3>2. PICK out : out = callTool(line.name, line.args)
      OBVIOUS
    <3>3. out.error = TRUE \/ out # NoBody
      BY <2>4, <3>2, CallFacts
    <3>4. PICK code : code = IF out.error THEN "isError" ELSE "result"
      OBVIOUS
    <3>5. Called(i, line) = Answer(i, line.id, code, out)
      BY <3>2, <3>4 DEF Called
    <3>6. code \in {"isError", "result"} /\ (out.error = TRUE => code = "isError")
      BY <3>4
    <3>7. Kind(Answer(i, line.id, code, out)) = "tool"
      BY <3>3, <3>6 DEF Kind, Answer
    <3>8. AnswerOf(Answer(i, line.id, code, out), i, line)
      BY <2>1, <3>1, <3>6, <3>7 DEF AnswerOf, Answer
    <3>9. QED
      BY <1>1, <2>1, <3>1, <3>5, <3>8 DEF Handled
  <2>5. CASE line.method \notin {"initialize", "ping", "tools/list", "tools/call"}
    <3>1. handleMessage(i, line) = <<Answer(i, line.id, "METHOD_NOT_FOUND", NoBody)>> /\ Promises(line) = 0
      BY <1>5, <2>5 DEF handleMessage, Promises
    <3>2. QED
      BY <1>1, <1>p, <2>1, <3>1 DEF Handled
  <2>6. QED
    BY <2>2, <2>3, <2>4, <2>5
<1>6. QED
  BY <1>2, <1>3, <1>4, <1>5

--------------------------------------------------------------------------------
(* What is answered and what waits.                                        *)

(* What a line may be read as.                                             *)
LEMMA ReadingFacts ==
  ASSUME NEW line, NEW text \in Readings(line)
  PROVE  /\ text.form \in {line.form, "garbage"}
         /\ text.form # "garbage" => text.method = line.method /\ text.name = line.name
<1>1. CASE text = line
  BY <1>1
<1>2. CASE line \in DOMAIN Garbled /\ text = Garbled[line].text
  BY <1>2, GarbledAssumption
<1>3. QED
  BY <1>1, <1>2 DEF Readings

LEMMA LineFacts ==
  ASSUME written \in Seq(ClientLines), NEW i \in 1..Len(written)
  PROVE  /\ written[i].size \in Nat \ {0} /\ ReadAs(i) \in Readings(written[i])
         /\ ReadAs(i).form \in {"request", "batch", "foreign", "garbage", "blank"}
         /\ Promises(ReadAs(i)) \in {0, 1}
         /\ Understood(i) => Handled(i, ReadAs(i))
<1>1. written[i] \in ClientLines
  OBVIOUS
<1>r. ReadAs(i) \in Readings(written[i])
  BY DEF ReadAs, Readings
<1>2. written[i].size \in Nat \ {0} /\ ReadAs(i).form \in {"request", "batch", "foreign", "garbage", "blank"}
  <2>1. written[i].size \in Nat \ {0} /\ written[i].form \in {"request", "batch", "foreign", "garbage", "blank"}
    BY <1>1, McpAssumption
  <2>2. ReadAs(i).form \in {written[i].form, "garbage"}
    BY <1>r, ReadingFacts
  <2>3. QED
    BY <2>1, <2>2
<1>3. Promises(ReadAs(i)) \in {0, 1}
  BY DEF Promises
<1>4. ASSUME Understood(i) PROVE Handled(i, ReadAs(i))
  <2>1. ReadAs(i).form \in {"request", "batch", "foreign"}
    BY <1>2, <1>4 DEF Understood
  <2>2. QED
    BY <2>1, HandleFacts
<1>5. QED
  BY <1>r, <1>2, <1>3, <1>4

(* The kind of an answer tells how it came about.                          *)
LEMMA KindFacts ==
  ASSUME NEW i, NEW code \in {"TOO_LARGE", "PARSE"}
  PROVE  Kind(AtOnce(i, code)) = "at once" /\ AtOnce(i, code).line = i
BY DEF Kind, AtOnce, Answer

BooksTyped(answers, tasks) ==
    /\ Len(answers) \in Nat /\ Len(tasks) \in Nat
    /\ \A k \in 1..Len(answers) : answers[k].line \in Nat
    /\ \A l \in 1..Len(tasks) : tasks[l].line \in Nat /\ KindOfTask(tasks[l]) # "at once" /\ tasks[l].promises \in {0, 1}

LEMMA BooksFacts ==
  ASSUME written \in Seq(ClientLines), NEW answers, NEW tasks, NEW at, BooksTrue(answers, tasks, at)
  PROVE  BooksTyped(answers, tasks)
<1>1. Len(answers) \in Nat /\ Len(tasks) \in Nat
  BY ListFacts DEF BooksTrue
<1>2. \A k \in 1..Len(answers) : answers[k].line \in 1..Len(written)
  BY DEF BooksTrue, AnswerTrue
<1>3. ASSUME NEW l \in 1..Len(tasks)
      PROVE  tasks[l].line \in Nat /\ KindOfTask(tasks[l]) # "at once" /\ tasks[l].promises \in {0, 1}
  <2>1. tasks[l].line \in 1..Len(written) /\ tasks[l].promises \in 0..Promises(ReadAs(tasks[l].line))
    BY <1>3 DEF BooksTrue, TaskTrue
  <2>2. Promises(ReadAs(tasks[l].line)) \in {0, 1}
    BY <2>1, LineFacts
  <2>3. QED
    BY <2>1, <2>2 DEF KindOfTask
<1>4. \A k \in 1..Len(answers) : answers[k].line \in Nat
  BY <1>2
<1>5. QED
  BY <1>1, <1>3, <1>4 DEF BooksTyped

(* An answer at once, to the line that is being read.                      *)
LEMMA BooksRefuse ==
  ASSUME written \in Seq(ClientLines), NEW answers, NEW tasks, NEW at \in 1..Len(written), BooksTrue(answers, tasks, at),
         NEW code \in {"TOO_LARGE", "PARSE"}, NEW to \in {at, at + 1},
         Small(at) => to = at + 1 /\ code = "PARSE" /\ ReadAs(at).form = "garbage"
  PROVE  BooksTrue(Append(answers, AtOnce(at, code)), tasks, to)
<1>1. PICK n, answer, more : n = Len(answers) /\ answer = AtOnce(at, code) /\ more = Append(answers, answer)
  OBVIOUS
<1>a. BooksTyped(answers, tasks)
  BY BooksFacts
<1>b. at \in Nat
  OBVIOUS
<1>2. BooksTyped(answers, tasks) /\ n \in Nat /\ at \in Nat
  BY <1>1, <1>a, <1>b DEF BooksTyped
<1>3. /\ ASequence(more) /\ Len(more) = n + 1 /\ more[n + 1] = answer /\ \A k \in 1..n : more[k] = answers[k]
  <2>1. ASequence(answers)
    BY DEF BooksTrue
  <2>2. IsAppended(more, answers, answer)
    BY <1>1, <2>1, ListAppended
  <2>3. QED
    BY <1>1, <2>2 DEF IsAppended
<1>4. answer.line = at /\ Kind(answer) = "at once"
  BY <1>1, KindFacts
<1>5. \A k \in 1..n : AnswerTrue(answers[k], at) /\ answers[k].line \in Nat /\ answers[k].line <= at /\ (Small(answers[k].line) => answers[k].line < at)
  BY <1>1, <1>2 DEF BooksTrue, BooksTyped, AnswerTrue
<1>6. \A l \in 1..Len(tasks) : TaskTrue(tasks[l], at) /\ tasks[l].line \in Nat /\ tasks[l].line < at
  BY <1>2 DEF BooksTrue, BooksTyped, TaskTrue
<1>7. ASSUME NEW k \in 1..n + 1 PROVE AnswerTrue(more[k], to)
  <2>1. CASE k = n + 1
    <3>1. at <= to /\ (Small(at) => at < to)
      BY <1>2
    <3>2. (answer = AtOnce(at, "TOO_LARGE") /\ ~Small(at)) \/ (answer = AtOnce(at, "PARSE") /\ (Small(at) => ReadAs(at).form = "garbage"))
      BY <1>1
    <3>3. QED
      BY <1>3, <1>4, <2>1, <3>1, <3>2 DEF AnswerTrue
  <2>2. CASE k # n + 1
    <3>1. k \in 1..n /\ more[k] = answers[k]
      BY <1>2, <1>3, <2>2
    <3>2. AnswerTrue(answers[k], at) /\ answers[k].line <= to /\ (Small(answers[k].line) => answers[k].line < to)
      BY <1>2, <1>5, <3>1
    <3>3. QED
      BY <3>1, <3>2 DEF AnswerTrue
  <2>3. QED
    BY <2>1, <2>2
<1>8. \A l \in 1..Len(tasks) : TaskTrue(tasks[l], to)
  <2>1. \A l \in 1..Len(tasks) : tasks[l].line < to
    BY <1>2, <1>6
  <2>2. QED
    BY <1>6, <2>1 DEF TaskTrue
<1>9. OneTime(more, tasks)
  <2>1. OneTime(answers, tasks)
    BY DEF BooksTrue
  <2>2. ASSUME NEW k \in 1..n + 1, NEW l \in 1..n + 1, Small(more[k].line), more[k].line = more[l].line PROVE k = l
    <3>1. CASE k \in 1..n /\ l \in 1..n
      BY <1>1, <1>3, <2>1, <2>2, <3>1 DEF OneTime
    <3>2. CASE k = n + 1 /\ l \in 1..n
      <4>1. more[l] = answers[l] /\ answers[l].line = at /\ Small(at)
        BY <1>3, <1>4, <2>2, <3>2
      <4>2. QED
        BY <1>2, <1>5, <3>2, <4>1
    <3>3. CASE k \in 1..n /\ l = n + 1
      <4>1. more[k] = answers[k] /\ answers[k].line = at /\ Small(at)
        BY <1>3, <1>4, <2>2, <3>3
      <4>2. QED
        BY <1>2, <1>5, <3>3, <4>1
    <3>4. QED
      BY <1>2, <3>1, <3>2, <3>3
  <2>3. ASSUME NEW k \in 1..n + 1, NEW l \in 1..Len(tasks) PROVE more[k].line # tasks[l].line
    <3>1. CASE k \in 1..n
      BY <1>1, <1>3, <2>1, <3>1 DEF OneTime
    <3>2. CASE k = n + 1
      <4>1. more[k].line = at
        BY <1>3, <1>4, <3>2
      <4>2. tasks[l].line < at /\ tasks[l].line \in Nat
        BY <1>6
      <4>3. QED
        BY <1>2, <4>1, <4>2
    <3>3. QED
      BY <1>2, <3>1, <3>2
  <2>4. QED
    BY <1>3, <2>1, <2>2, <2>3 DEF OneTime
<1>10. AllSettled(more, tasks, to)
  <2>1. SUFFICES ASSUME NEW i \in 1..Len(written), i < to, Small(i), ReadAs(i).form # "blank"
                 PROVE  Settled(i, more, tasks)
    BY DEF AllSettled
  <2>2. CASE i = at
    <3>1. n + 1 \in 1..Len(more) /\ more[n + 1].line = i
      <4>1. n + 1 \in 1..n + 1
        BY <1>2
      <4>2. QED
        BY <1>3, <1>4, <2>2, <4>1
    <3>2. QED
      BY <3>1 DEF Settled
  <2>3. CASE i # at
    <3>1. i < at
      BY <1>2, <2>1, <2>3
    <3>2. Settled(i, answers, tasks)
      BY <2>1, <3>1 DEF BooksTrue, AllSettled
    <3>3. \A k \in 1..Len(answers) : k \in 1..Len(more) /\ more[k] = answers[k]
      BY <1>1, <1>2, <1>3
    <3>4. QED
      BY <3>2, <3>3 DEF Settled
  <2>4. QED
    BY <2>2, <2>3
<1>11. InTurn(more, tasks)
  <2>1. InTurn(answers, tasks)
    BY DEF BooksTrue
  <2>2. ASSUME NEW k \in 1..n + 1, NEW l \in 1..n + 1, k < l, Kind(more[k]) = Kind(more[l])
        PROVE  more[k].line <= more[l].line
    <3>1. k \in 1..n /\ more[k] = answers[k]
      BY <1>2, <1>3, <2>2
    <3>2. CASE l = n + 1
      BY <1>3, <1>4, <1>5, <3>1, <3>2
    <3>3. CASE l # n + 1
      <4>1. l \in 1..n /\ more[l] = answers[l]
        BY <1>2, <1>3, <3>3
      <4>2. QED
        BY <1>1, <2>1, <2>2, <3>1, <4>1 DEF InTurn
    <3>4. QED
      BY <3>2, <3>3
  <2>3. ASSUME NEW k \in 1..n + 1, NEW l \in 1..Len(tasks), Kind(more[k]) = KindOfTask(tasks[l])
        PROVE  more[k].line < tasks[l].line
    <3>1. k # n + 1
      BY <1>2, <1>3, <1>4, <2>3 DEF BooksTyped
    <3>2. k \in 1..n /\ more[k] = answers[k]
      BY <1>2, <1>3, <3>1
    <3>3. QED
      BY <1>1, <2>1, <2>3, <3>2 DEF InTurn
  <2>4. QED
    BY <1>3, <2>1, <2>2, <2>3 DEF InTurn
<1>12. QED
  BY <1>1, <1>3, <1>7, <1>8, <1>9, <1>10, <1>11 DEF BooksTrue

(* A line to which nothing is due.                                         *)
LEMMA BooksPass ==
  ASSUME written \in Seq(ClientLines), NEW answers, NEW tasks, NEW at \in Nat, BooksTrue(answers, tasks, at),
         at \in 1..Len(written) /\ Small(at) => ReadAs(at).form = "blank"
  PROVE  BooksTrue(answers, tasks, at + 1)
<1>1. BooksTyped(answers, tasks)
  BY BooksFacts
<1>2. ASSUME NEW k \in 1..Len(answers) PROVE AnswerTrue(answers[k], at + 1)
  <2>1. AnswerTrue(answers[k], at) /\ answers[k].line \in Nat
    BY <1>1 DEF BooksTrue, BooksTyped
  <2>2. answers[k].line <= at + 1 /\ (Small(answers[k].line) => answers[k].line < at + 1)
    BY <2>1 DEF AnswerTrue
  <2>3. QED
    BY <2>1, <2>2 DEF AnswerTrue
<1>3. ASSUME NEW l \in 1..Len(tasks) PROVE TaskTrue(tasks[l], at + 1)
  <2>1. TaskTrue(tasks[l], at) /\ tasks[l].line \in Nat
    BY <1>1 DEF BooksTrue, BooksTyped
  <2>2. tasks[l].line < at + 1
    BY <2>1 DEF TaskTrue
  <2>3. QED
    BY <2>1, <2>2 DEF TaskTrue
<1>4. AllSettled(answers, tasks, at + 1)
  <2>1. SUFFICES ASSUME NEW i \in 1..Len(written), i < at + 1, Small(i), ReadAs(i).form # "blank"
                 PROVE  Settled(i, answers, tasks)
    BY DEF AllSettled
  <2>2. i # at
    BY <2>1
  <2>3. i < at
    BY <2>1, <2>2
  <2>4. QED
    BY <2>1, <2>3 DEF BooksTrue, AllSettled
<1>5. QED
  BY <1>2, <1>3, <1>4 DEF BooksTrue

(* What is new waits for all its turns. *)
Fresh(tasks) == \A l \in 1..Len(tasks) : tasks[l].promises = Promises(ReadAs(tasks[l].line))
NewTask(i) == [line |-> i, promises |-> Promises(ReadAs(i))]

(* A message that fits waits from now on.                                  *)
LEMMA BooksQueue ==
  ASSUME written \in Seq(ClientLines), NEW answers, NEW tasks, NEW at \in 1..Len(written), BooksTrue(answers, tasks, at),
         Small(at), Understood(at), Fresh(tasks)
  PROVE  BooksTrue(answers, Append(tasks, NewTask(at)), at + 1) /\ Fresh(Append(tasks, NewTask(at)))
<1>1. PICK n, waiting, more : n = Len(tasks) /\ waiting = NewTask(at) /\ more = Append(tasks, waiting)
  OBVIOUS
<1>a. BooksTyped(answers, tasks)
  BY BooksFacts
<1>b. at \in Nat
  OBVIOUS
<1>2. Len(answers) \in Nat /\ n \in Nat /\ at \in Nat
  BY <1>1, <1>a, <1>b DEF BooksTyped
<1>3. /\ ASequence(more) /\ Len(more) = n + 1 /\ more[n + 1] = waiting /\ \A k \in 1..n : more[k] = tasks[k]
  <2>1. ASequence(tasks)
    BY DEF BooksTrue
  <2>2. IsAppended(more, tasks, waiting)
    BY <1>1, <2>1, ListAppended
  <2>3. QED
    BY <1>1, <2>2 DEF IsAppended
<1>4. waiting.line = at /\ waiting.promises = Promises(ReadAs(at)) /\ waiting = [line |-> waiting.line, promises |-> waiting.promises]
  BY <1>1 DEF NewTask
<1>5. Promises(ReadAs(at)) \in {0, 1}
  BY LineFacts
<1>6. \A l \in 1..n : /\ TaskTrue(tasks[l], at) /\ tasks[l].line \in Nat /\ tasks[l].line < at /\ tasks[l].promises = Promises(ReadAs(tasks[l].line))
  BY <1>1, <1>a DEF BooksTrue, BooksTyped, TaskTrue, Fresh
<1>7. \A k \in 1..Len(answers) : answers[k].line \in Nat /\ answers[k].line <= at /\ (Small(answers[k].line) => answers[k].line < at)
  BY <1>a DEF BooksTrue, BooksTyped, AnswerTrue
<1>8. \A k \in 1..Len(answers) : answers[k].line \in Nat /\ answers[k].line < at
  BY <1>2, <1>7
<1>9. ASSUME NEW k \in 1..Len(answers) PROVE AnswerTrue(answers[k], at + 1)
  <2>1. answers[k].line <= at + 1 /\ answers[k].line < at + 1
    BY <1>2, <1>8
  <2>2. AnswerTrue(answers[k], at)
    BY DEF BooksTrue
  <2>3. QED
    BY <2>1, <2>2 DEF AnswerTrue
<1>10. ASSUME NEW l \in 1..n + 1 PROVE TaskTrue(more[l], at + 1) /\ more[l].promises = Promises(ReadAs(more[l].line))
  <2>1. CASE l \in 1..n
    <3>1. more[l] = tasks[l] /\ tasks[l].line < at + 1
      BY <1>2, <1>3, <1>6, <2>1
    <3>2. QED
      BY <1>6, <2>1, <3>1 DEF TaskTrue
  <2>2. CASE l = n + 1
    <3>1. more[l] = waiting /\ at < at + 1 /\ Promises(ReadAs(at)) \in 0..Promises(ReadAs(at))
      BY <1>2, <1>3, <1>5, <2>2
    <3>2. QED
      BY <1>4, <3>1 DEF TaskTrue
  <2>3. QED
    BY <1>2, <2>1, <2>2
<1>11. OneTime(answers, more)
  <2>1. OneTime(answers, tasks)
    BY DEF BooksTrue
  <2>2. ASSUME NEW k \in 1..n + 1, NEW l \in 1..n + 1, more[k].line = more[l].line PROVE k = l
    <3>1. CASE k \in 1..n /\ l \in 1..n
      <4>1. more[k] = tasks[k] /\ more[l] = tasks[l]
        BY <1>3, <3>1
      <4>2. QED
        BY <1>1, <2>1, <2>2, <3>1, <4>1 DEF OneTime
    <3>2. CASE k = n + 1 /\ l \in 1..n
      BY <1>2, <1>3, <1>4, <1>6, <2>2, <3>2
    <3>3. CASE k \in 1..n /\ l = n + 1
      BY <1>2, <1>3, <1>4, <1>6, <2>2, <3>3
    <3>4. QED
      BY <1>2, <3>1, <3>2, <3>3
  <2>3. ASSUME NEW k \in 1..Len(answers), NEW l \in 1..n + 1 PROVE answers[k].line # more[l].line
    <3>1. CASE l \in 1..n
      BY <1>1, <1>3, <2>1, <3>1 DEF OneTime
    <3>2. CASE l = n + 1
      <4>1. more[l].line = at /\ answers[k].line \in Nat /\ answers[k].line < at
        BY <1>3, <1>4, <1>8, <3>2
      <4>2. QED
        BY <1>2, <4>1
    <3>3. QED
      BY <1>2, <3>1, <3>2
  <2>4. QED
    BY <1>3, <2>1, <2>2, <2>3 DEF OneTime
<1>12. AllSettled(answers, more, at + 1)
  <2>1. SUFFICES ASSUME NEW i \in 1..Len(written), i < at + 1, Small(i), ReadAs(i).form # "blank"
                 PROVE  Settled(i, answers, more)
    BY DEF AllSettled
  <2>2. CASE i = at
    <3>1. n + 1 \in 1..Len(more) /\ more[n + 1].line = i
      <4>1. n + 1 \in 1..n + 1
        BY <1>2
      <4>2. QED
        BY <1>3, <1>4, <2>2, <4>1
    <3>2. QED
      BY <3>1 DEF Settled
  <2>3. CASE i # at
    <3>1. i < at
      BY <1>2, <2>1, <2>3
    <3>2. Settled(i, answers, tasks)
      BY <2>1, <3>1 DEF BooksTrue, AllSettled
    <3>3. \A l \in 1..Len(tasks) : l \in 1..Len(more) /\ more[l] = tasks[l]
      BY <1>1, <1>2, <1>3
    <3>4. QED
      BY <3>2, <3>3 DEF Settled
  <2>4. QED
    BY <2>2, <2>3
<1>13. InTurn(answers, more)
  <2>1. InTurn(answers, tasks)
    BY DEF BooksTrue
  <2>2. ASSUME NEW k \in 1..Len(answers), NEW l \in 1..n + 1, Kind(answers[k]) = KindOfTask(more[l])
        PROVE  answers[k].line < more[l].line
    <3>1. CASE l \in 1..n
      <4>1. more[l] = tasks[l]
        BY <1>3, <3>1
      <4>2. QED
        BY <1>1, <2>1, <2>2, <3>1, <4>1 DEF InTurn
    <3>2. CASE l = n + 1
      BY <1>3, <1>4, <1>8, <3>2
    <3>3. QED
      BY <1>2, <3>1, <3>2
  <2>3. ASSUME NEW k \in 1..n + 1, NEW l \in 1..n + 1, k < l, IsCall(more[k]) = IsCall(more[l])
        PROVE  /\ more[k].promises = more[l].promises => more[k].line < more[l].line
               /\ more[k].promises # more[l].promises => more[k].promises = 1 /\ more[l].line < more[k].line
    <3>1. k \in 1..n /\ more[k] = tasks[k]
      BY <1>2, <1>3, <2>3
    <3>2. CASE l \in 1..n
      <4>1. more[l] = tasks[l]
        BY <1>3, <3>2
      <4>2. QED
        BY <1>1, <2>1, <2>3, <3>1, <3>2, <4>1 DEF InTurn
    <3>3. CASE l = n + 1
      <4>1. more[k].line < more[l].line
        BY <1>3, <1>4, <1>6, <3>1, <3>3
      <4>2. more[k].promises = Promises(ReadAs(more[k].line)) /\ more[l].promises = Promises(ReadAs(more[l].line))
        BY <1>10
      <4>3. Promises(ReadAs(more[k].line)) \in {0, 1} /\ Promises(ReadAs(more[l].line)) \in {0, 1}
        BY DEF Promises
      <4>4. more[k].promises = more[l].promises
        BY <2>3, <4>2, <4>3 DEF IsCall
      <4>5. QED
        BY <4>1, <4>4
    <3>4. QED
      BY <1>2, <3>2, <3>3
  <2>4. QED
    BY <1>3, <2>1, <2>2, <2>3 DEF InTurn
<1>14. BooksTrue(answers, more, at + 1)
  BY <1>3, <1>9, <1>10, <1>11, <1>12, <1>13 DEF BooksTrue
<1>15. Fresh(more)
  BY <1>3, <1>10 DEF Fresh
<1>16. QED
  BY <1>1, <1>14, <1>15

(* The call that is first in the queue has its turn. *)
LEMMA BooksTurn ==
  ASSUME written \in Seq(ClientLines), NEW answers, NEW tasks, NEW at, BooksTrue(answers, tasks, at),
         tasks # <<>>, Head(tasks).promises > 0
  PROVE  BooksTrue(answers, Append(Tail(tasks), [Head(tasks) EXCEPT !.promises = @ - 1]), at)
<1>1. PICK n, first, waiting, rest, more :
        /\ n = Len(tasks) /\ first = Head(tasks) /\ waiting = [first EXCEPT !.promises = @ - 1]
        /\ rest = Tail(tasks) /\ more = Append(rest, waiting)
  OBVIOUS
<1>2. BooksTyped(answers, tasks) /\ ASequence(tasks)
  BY BooksFacts DEF BooksTrue
<1>3. /\ first = tasks[1] /\ n \in Nat \ {0} /\ ASequence(rest) /\ Len(rest) = n - 1
      /\ \A k \in 1..n - 1 : rest[k] = tasks[k + 1]
  <2>1. IsRest(rest, tasks)
    BY <1>1, <1>2, ListRest
  <2>2. QED
    BY <1>1, <2>1 DEF IsRest
<1>4. ASequence(more) /\ Len(more) = n /\ more[n] = waiting /\ \A k \in 1..n - 1 : k + 1 \in 1..n /\ more[k] = tasks[k + 1]
  <2>1. IsAppended(more, rest, waiting)
    BY <1>1, <1>3, ListAppended
  <2>2. \A k \in 1..n - 1 : more[k] = rest[k]
    BY <1>3, <2>1 DEF IsAppended
  <2>3. ASequence(more) /\ Len(more) = n /\ more[n] = waiting
    BY <1>3, <2>1 DEF IsAppended
  <2>4. \A k \in 1..n - 1 : k + 1 \in 1..n
    BY <1>3
  <2>5. QED
    BY <1>3, <2>2, <2>3, <2>4
<1>5. TaskTrue(first, at) /\ 1 \in 1..n
  <2>1. 1 \in 1..n
    BY <1>3
  <2>2. QED
    BY <1>1, <1>3, <2>1 DEF BooksTrue
<1>6. /\ first = [line |-> first.line, promises |-> 1] /\ first.promises = 1 /\ first.line \in Nat
      /\ first.line \in 1..Len(written) /\ first.line < at /\ Small(first.line) /\ Understood(first.line)
      /\ Promises(ReadAs(first.line)) = 1
  <2>1. first.line \in 1..Len(written) /\ first.promises \in 0..Promises(ReadAs(first.line)) /\ first.promises > 0
    BY <1>1, <1>5 DEF TaskTrue
  <2>2. Promises(ReadAs(first.line)) \in {0, 1}
    BY <2>1, LineFacts
  <2>3. first.promises = 1 /\ Promises(ReadAs(first.line)) = 1 /\ first.line \in Nat
    BY <2>1, <2>2
  <2>4. QED
    BY <1>5, <2>3 DEF TaskTrue
<1>7. waiting = [line |-> first.line, promises |-> 0] /\ waiting.line = first.line /\ waiting.promises = 0
  <2>1. PICK i : i = first.line
    OBVIOUS
  <2>2. first = [line |-> i, promises |-> 1]
    BY <1>6, <2>1
  <2>3. waiting = [line |-> i, promises |-> 0]
    BY <1>1, <2>2
  <2>4. QED
    BY <2>1, <2>3
<1>8. TaskTrue(waiting, at)
  <2>1. waiting.promises \in 0..Promises(ReadAs(waiting.line))
    BY <1>6, <1>7
  <2>2. QED
    BY <1>6, <1>7, <2>1 DEF TaskTrue
<1>9. \A l \in 1..n : TaskTrue(tasks[l], at) /\ tasks[l].line \in Nat /\ tasks[l].promises \in {0, 1}
  BY <1>1, <1>2 DEF BooksTrue, BooksTyped
<1>10. \A l \in 1..n : TaskTrue(more[l], at)
  <2>1. \A l \in 1..n : l # n => l \in 1..n - 1
    BY <1>3
  <2>2. QED
    BY <1>4, <1>8, <1>9, <2>1
<1>11. IsCall(waiting) = IsCall(first) /\ KindOfTask(waiting) = KindOfTask(first)
  BY <1>7 DEF IsCall, KindOfTask
<1>12. OneTime(answers, more)
  <2>1. OneTime(answers, tasks)
    BY DEF BooksTrue
  <2>2. ASSUME NEW k \in 1..n, NEW l \in 1..n, more[k].line = more[l].line PROVE k = l
    <3>1. CASE k \in 1..n - 1 /\ l \in 1..n - 1
      <4>1. k + 1 \in 1..n /\ l + 1 \in 1..n /\ tasks[k + 1].line = tasks[l + 1].line
        BY <1>4, <2>2, <3>1
      <4>2. k + 1 = l + 1
        BY <1>1, <2>1, <4>1 DEF OneTime
      <4>3. QED
        BY <1>3, <3>1, <4>2
    <3>2. CASE k = n /\ l \in 1..n - 1
      <4>1. l + 1 \in 1..n /\ tasks[1].line = tasks[l + 1].line
        BY <1>3, <1>4, <1>7, <2>2, <3>2
      <4>2. 1 = l + 1
        BY <1>1, <1>5, <2>1, <4>1 DEF OneTime
      <4>3. QED
        BY <1>3, <3>2, <4>2
    <3>3. CASE k \in 1..n - 1 /\ l = n
      <4>1. k + 1 \in 1..n /\ tasks[1].line = tasks[k + 1].line
        BY <1>3, <1>4, <1>7, <2>2, <3>3
      <4>2. 1 = k + 1
        BY <1>1, <1>5, <2>1, <4>1 DEF OneTime
      <4>3. QED
        BY <1>3, <3>3, <4>2
    <3>4. QED
      BY <1>3, <3>1, <3>2, <3>3
  <2>3. ASSUME NEW k \in 1..Len(answers), NEW l \in 1..n PROVE answers[k].line # more[l].line
    <3>1. PICK j \in 1..n : more[l].line = tasks[j].line
      <4>1. CASE l = n
        BY <1>3, <1>4, <1>5, <1>7, <4>1
      <4>2. CASE l # n
        <5>1. l \in 1..n - 1
          BY <1>3, <4>2
        <5>2. QED
          BY <1>4, <5>1
      <4>3. QED
        BY <4>1, <4>2
    <3>2. QED
      BY <1>1, <2>1, <3>1 DEF OneTime
  <2>4. QED
    BY <1>4, <2>1, <2>2, <2>3 DEF OneTime
<1>13. AllSettled(answers, more, at)
  <2>1. SUFFICES ASSUME NEW i \in 1..Len(written), i < at, Small(i), ReadAs(i).form # "blank"
                 PROVE  Settled(i, answers, more)
    BY DEF AllSettled
  <2>2. Settled(i, answers, tasks)
    BY <2>1 DEF BooksTrue, AllSettled
  <2>3. ASSUME NEW l \in 1..n PROVE \E j \in 1..n : more[j].line = tasks[l].line
    <3>1. CASE l = 1
      <4>1. n \in 1..n /\ more[n].line = tasks[l].line
        BY <1>3, <1>4, <1>7, <3>1
      <4>2. QED
        BY <4>1
    <3>2. CASE l # 1
      <4>1. l - 1 \in 1..n - 1 /\ (l - 1) + 1 = l /\ l - 1 \in 1..n
        BY <1>3, <3>2
      <4>2. more[l - 1] = tasks[l]
        BY <1>4, <4>1
      <4>3. QED
        BY <4>1, <4>2
    <3>3. QED
      BY <3>1, <3>2
  <2>4. (\E l \in 1..Len(tasks) : tasks[l].line = i) => \E j \in 1..Len(more) : more[j].line = i
    <3>1. (\E l \in 1..n : tasks[l].line = i) => \E j \in 1..n : more[j].line = i
      BY <2>3
    <3>2. QED
      BY <1>1, <1>4, <3>1
  <2>5. QED
    BY <2>2, <2>4 DEF Settled
<1>14. InTurn(answers, more)
  <2>1. InTurn(answers, tasks)
    BY DEF BooksTrue
  <2>2. ASSUME NEW k \in 1..Len(answers), NEW l \in 1..n, Kind(answers[k]) = KindOfTask(more[l])
        PROVE  answers[k].line < more[l].line
    <3>1. PICK j \in 1..n : more[l].line = tasks[j].line /\ KindOfTask(more[l]) = KindOfTask(tasks[j])
      <4>1. CASE l = n
        BY <1>3, <1>4, <1>5, <1>7, <1>11, <4>1
      <4>2. CASE l # n
        <5>1. l \in 1..n - 1
          BY <1>3, <4>2
        <5>2. QED
          BY <1>4, <5>1
      <4>3. QED
        BY <4>1, <4>2
    <3>2. QED
      BY <1>1, <2>1, <2>2, <3>1 DEF InTurn
  <2>3. ASSUME NEW k \in 1..n, NEW l \in 1..n, k < l, IsCall(more[k]) = IsCall(more[l])
        PROVE  /\ more[k].promises = more[l].promises => more[k].line < more[l].line
               /\ more[k].promises # more[l].promises => more[k].promises = 1 /\ more[l].line < more[k].line
    <3>1. k \in 1..n - 1 /\ k + 1 \in 1..n /\ more[k] = tasks[k + 1]
      <4>1. k \in 1..n - 1
        BY <1>3, <2>3
      <4>2. QED
        BY <1>4, <4>1
    <3>2. CASE l # n
      <4>1. l \in 1..n - 1 /\ k + 1 < l + 1
        BY <1>3, <2>3, <3>2
      <4>2. l + 1 \in 1..n /\ more[l] = tasks[l + 1]
        BY <1>4, <4>1
      <4>3. IsCall(tasks[k + 1]) = IsCall(tasks[l + 1])
        BY <2>3, <3>1, <4>2
      <4>4. /\ tasks[k + 1].promises = tasks[l + 1].promises => tasks[k + 1].line < tasks[l + 1].line
            /\ tasks[k + 1].promises # tasks[l + 1].promises =>
                 tasks[k + 1].promises = 1 /\ tasks[l + 1].line < tasks[k + 1].line
        BY <1>1, <2>1, <3>1, <4>1, <4>2, <4>3 DEF InTurn
      <4>5. QED
        BY <3>1, <4>2, <4>4
    <3>3. CASE l = n
      <4>1. 1 < k + 1 /\ IsCall(tasks[1]) = IsCall(tasks[k + 1])
        <5>1. 1 < k + 1
          BY <1>3, <3>1
        <5>2. QED
          BY <1>3, <1>4, <1>11, <2>3, <3>1, <3>3, <5>1
      <4>2. /\ tasks[1].promises = tasks[k + 1].promises => tasks[1].line < tasks[k + 1].line
            /\ tasks[1].promises # tasks[k + 1].promises => tasks[k + 1].line < tasks[1].line
        BY <1>1, <1>5, <2>1, <3>1, <4>1 DEF InTurn
      <4>3. tasks[1].promises = 1 /\ more[l].promises = 0 /\ more[l].line = tasks[1].line /\ tasks[k + 1].promises \in {0, 1}
        BY <1>3, <1>4, <1>6, <1>7, <1>9, <3>1, <3>3
      <4>4. QED
        BY <3>1, <4>2, <4>3
    <3>4. QED
      BY <3>2, <3>3
  <2>4. QED
    BY <1>4, <2>1, <2>2, <2>3 DEF InTurn
<1>15. BooksTrue(answers, more, at)
  BY <1>4, <1>10, <1>12, <1>13, <1>14 DEF BooksTrue
<1>16. QED
  BY <1>1, <1>15

(* The message that is first in the queue is answered, if it wants it.     *)
LEMMA BooksAnswer ==
  ASSUME written \in Seq(ClientLines), NEW answers, NEW tasks, NEW at \in Nat, BooksTrue(answers, tasks, at),
         tasks # <<>>, ~(Head(tasks).promises > 0)
  PROVE  BooksTrue(answers \o handleMessage(Head(tasks).line, ReadAs(Head(tasks).line)), Tail(tasks), at)
<1>1. PICK n, m, first, rest, i : n = Len(tasks) /\ m = Len(answers) /\ first = Head(tasks) /\ rest = Tail(tasks) /\ i = first.line
  OBVIOUS
<1>2. BooksTyped(answers, tasks) /\ ASequence(tasks) /\ ASequence(answers)
  BY BooksFacts DEF BooksTrue
<1>3. /\ first = tasks[1] /\ n \in Nat \ {0} /\ m \in Nat /\ ASequence(rest) /\ Len(rest) = n - 1
      /\ \A k \in 1..n - 1 : rest[k] = tasks[k + 1]
  <2>1. IsRest(rest, tasks)
    BY <1>1, <1>2, ListRest
  <2>2. QED
    BY <1>1, <1>2, <2>1 DEF IsRest, BooksTyped
<1>4. 1 \in 1..n /\ TaskTrue(first, at)
  <2>1. 1 \in 1..n
    BY <1>3
  <2>2. QED
    BY <1>1, <1>3, <2>1 DEF BooksTrue
<1>5. \A l \in 1..n - 1 : l + 1 \in 1..n /\ 1 < l + 1
  BY <1>3
<1>6. first.promises = 0 /\ i \in Nat /\ i \in 1..Len(written) /\ i < at /\ Small(i) /\ Understood(i) /\ Handled(i, ReadAs(i))
  <2>1. first.promises \in {0, 1}
    BY <1>1, <1>2, <1>3, <1>4 DEF BooksTyped
  <2>2. i \in 1..Len(written) /\ i < at /\ Small(i) /\ Understood(i)
    BY <1>1, <1>4 DEF TaskTrue
  <2>3. QED
    BY <1>1, <2>1, <2>2, LineFacts
<1>7. OneTime(answers, tasks) /\ AllSettled(answers, tasks, at) /\ InTurn(answers, tasks)
  BY DEF BooksTrue
<1>8. \A l \in 1..n - 1 : TaskTrue(rest[l], at) /\ rest[l].line # i
  <2>1. \A l \in 1..n - 1 : TaskTrue(rest[l], at)
    BY <1>1, <1>3, <1>5 DEF BooksTrue
  <2>2. ASSUME NEW l \in 1..n - 1, rest[l].line = i PROVE FALSE
    <3>1. tasks[l + 1].line = tasks[1].line /\ l + 1 \in 1..n
      BY <1>1, <1>3, <1>5, <2>2
    <3>2. l + 1 = 1
      BY <1>1, <1>4, <1>7, <3>1 DEF OneTime
    <3>3. QED
      BY <1>3, <3>2
  <2>3. QED
    BY <2>1, <2>2
<1>9. \A k, l \in 1..n - 1 : rest[k].line = rest[l].line => k = l
  <2>1. SUFFICES ASSUME NEW k \in 1..n - 1, NEW l \in 1..n - 1, rest[k].line = rest[l].line PROVE k = l
    OBVIOUS
  <2>2. tasks[k + 1].line = tasks[l + 1].line
    BY <1>3, <2>1
  <2>3. k + 1 = l + 1
    BY <1>1, <1>5, <1>7, <2>2 DEF OneTime
  <2>4. QED
    BY <1>3, <2>3
<1>10. \A k \in 1..m, l \in 1..n - 1 : answers[k].line # rest[l].line
  BY <1>1, <1>3, <1>5, <1>7 DEF OneTime
<1>11. \A k \in 1..m : answers[k].line # i
  BY <1>1, <1>3, <1>4, <1>7 DEF OneTime
<1>12. \A k \in 1..m, l \in 1..n - 1 : Kind(answers[k]) = KindOfTask(rest[l]) => answers[k].line < rest[l].line
  BY <1>1, <1>3, <1>5, <1>7 DEF InTurn
<1>13. \A k, l \in 1..n - 1 : k < l /\ IsCall(rest[k]) = IsCall(rest[l]) =>
         /\ rest[k].promises = rest[l].promises => rest[k].line < rest[l].line
         /\ rest[k].promises # rest[l].promises => rest[k].promises = 1 /\ rest[l].line < rest[k].line
  <2>1. SUFFICES ASSUME NEW k \in 1..n - 1, NEW l \in 1..n - 1, k < l, IsCall(rest[k]) = IsCall(rest[l])
                 PROVE  /\ rest[k].promises = rest[l].promises => rest[k].line < rest[l].line
                        /\ rest[k].promises # rest[l].promises => rest[k].promises = 1 /\ rest[l].line < rest[k].line
    OBVIOUS
  <2>2. rest[k] = tasks[k + 1] /\ rest[l] = tasks[l + 1] /\ k + 1 \in 1..n /\ l + 1 \in 1..n
    BY <1>3, <1>5
  <2>3. k + 1 < l + 1
    BY <1>3, <2>1
  <2>4. QED
    BY <1>1, <1>7, <2>1, <2>2, <2>3 DEF InTurn
<1>14. ASSUME NEW j \in 1..Len(written), NEW more, Settled(j, answers, tasks), j # i \/ handleMessage(i, ReadAs(i)) = <<>>,
              \A k \in 1..m : k \in 1..Len(more) /\ more[k] = answers[k]
       PROVE  Settled(j, more, rest)
  <2>1. CASE \E k \in 1..Len(answers) : answers[k].line = j
    BY <1>1, <1>14, <2>1 DEF Settled
  <2>2. CASE ReadAs(j).form # "garbage" /\ handleMessage(j, ReadAs(j)) = <<>>
    BY <2>2 DEF Settled
  <2>3. ASSUME NEW l \in 1..n, tasks[l].line = j PROVE Settled(j, more, rest)
    <3>1. CASE l = 1
      <4>1. j = i
        BY <1>1, <1>3, <2>3, <3>1
      <4>2. ReadAs(j).form # "garbage" /\ handleMessage(j, ReadAs(j)) = <<>>
        BY <1>6, <1>14, <4>1 DEF Understood
      <4>3. QED
        BY <4>2 DEF Settled
    <3>2. CASE l # 1
      <4>1. l - 1 \in 1..n - 1 /\ (l - 1) + 1 = l
        BY <1>3, <3>2
      <4>2. rest[l - 1] = tasks[l]
        BY <1>3, <4>1
      <4>3. l - 1 \in 1..Len(rest) /\ rest[l - 1].line = j
        BY <1>3, <2>3, <4>1, <4>2
      <4>4. QED
        BY <4>3 DEF Settled
    <3>3. QED
      BY <3>1, <3>2
  <2>4. QED
    BY <1>1, <1>14, <2>1, <2>2, <2>3 DEF Settled
<1>15. CASE handleMessage(i, ReadAs(i)) = <<>>
  <2>1. answers \o handleMessage(i, ReadAs(i)) = answers
    BY <1>2, <1>15, ListFacts
  <2>2. OneTime(answers, rest)
    BY <1>1, <1>3, <1>7, <1>9, <1>10 DEF OneTime
  <2>3. AllSettled(answers, rest, at)
    <3>1. \A k \in 1..m : k \in 1..Len(answers) /\ answers[k] = answers[k]
      BY <1>1
    <3>2. \A j \in 1..Len(written) : Settled(j, answers, tasks) => Settled(j, answers, rest)
      BY <1>14, <1>15, <3>1
    <3>3. QED
      BY <1>7, <3>2 DEF AllSettled
  <2>4. InTurn(answers, rest)
    BY <1>1, <1>3, <1>7, <1>12, <1>13 DEF InTurn
  <2>5. BooksTrue(answers, rest, at)
    BY <1>2, <1>3, <1>8, <2>2, <2>3, <2>4 DEF BooksTrue
  <2>6. QED
    BY <1>1, <2>1, <2>5
<1>16. CASE handleMessage(i, ReadAs(i)) # <<>>
  <2>1. PICK a : handleMessage(i, ReadAs(i)) = <<a>> /\ AnswerOf(a, i, ReadAs(i))
    BY <1>6, <1>16 DEF Handled
  <2>2. PICK more : more = Append(answers, a)
    OBVIOUS
  <2>3. answers \o handleMessage(i, ReadAs(i)) = more
    BY <1>2, <2>1, <2>2, ListAppended
  <2>4. ASequence(more) /\ Len(more) = m + 1 /\ more[m + 1] = a /\ \A k \in 1..m : more[k] = answers[k]
    <3>1. IsAppended(more, answers, a)
      BY <1>2, <2>2, ListAppended
    <3>2. QED
      BY <1>1, <3>1 DEF IsAppended
  <2>5. a.line = i /\ Kind(a) = KindOfTask(first) /\ Kind(a) # "at once"
    BY <1>1, <2>1 DEF AnswerOf, KindOfTask, IsCall
  <2>6. AnswerTrue(a, at)
    <3>1. i <= at
      BY <1>6
    <3>2. QED
      BY <1>6, <2>1, <2>5, <3>1 DEF AnswerTrue
  <2>7. \A k \in 1..m + 1 : k # m + 1 => k \in 1..m
    BY <1>3
  <2>8. \A k \in 1..m + 1 : AnswerTrue(more[k], at)
    BY <1>1, <2>4, <2>6, <2>7 DEF BooksTrue
  <2>9. OneTime(more, rest)
    <3>1. ASSUME NEW k \in 1..m + 1, NEW l \in 1..m + 1, Small(more[k].line), more[k].line = more[l].line PROVE k = l
      <4>1. CASE k \in 1..m /\ l \in 1..m
        <5>1. more[k] = answers[k] /\ more[l] = answers[l]
          BY <2>4, <4>1
        <5>2. QED
          BY <1>1, <1>7, <3>1, <4>1, <5>1 DEF OneTime
      <4>2. CASE k = m + 1 /\ l \in 1..m
        BY <1>11, <2>4, <2>5, <3>1, <4>2
      <4>3. CASE k \in 1..m /\ l = m + 1
        BY <1>11, <2>4, <2>5, <3>1, <4>3
      <4>4. QED
        BY <2>7, <4>1, <4>2, <4>3
    <3>2. ASSUME NEW k \in 1..m + 1, NEW l \in 1..n - 1 PROVE more[k].line # rest[l].line
      <4>1. CASE k \in 1..m
        BY <1>10, <2>4, <4>1
      <4>2. CASE k = m + 1
        BY <1>8, <2>4, <2>5, <4>2
      <4>3. QED
        BY <2>7, <4>1, <4>2
    <3>3. QED
      BY <1>3, <1>9, <2>4, <3>1, <3>2 DEF OneTime
  <2>10. AllSettled(more, rest, at)
    <3>1. SUFFICES ASSUME NEW j \in 1..Len(written), j < at, Small(j), ReadAs(j).form # "blank"
                   PROVE  Settled(j, more, rest)
      BY DEF AllSettled
    <3>2. CASE j = i
      <4>1. m + 1 \in 1..Len(more) /\ more[m + 1].line = j
        <5>1. m + 1 \in 1..m + 1
          BY <1>3
        <5>2. QED
          BY <2>4, <2>5, <3>2, <5>1
      <4>2. QED
        BY <4>1 DEF Settled
    <3>3. CASE j # i
      <4>1. \A k \in 1..m : k \in 1..Len(more) /\ more[k] = answers[k]
        BY <1>3, <2>4
      <4>2. Settled(j, answers, tasks)
        BY <1>7, <3>1 DEF AllSettled
      <4>3. QED
        BY <1>14, <3>3, <4>1, <4>2
    <3>4. QED
      BY <3>2, <3>3
  <2>11. \A k \in 1..m : Kind(answers[k]) = Kind(a) => answers[k].line < i
    BY <1>1, <1>3, <1>4, <1>7, <2>5 DEF InTurn
  <2>12. \A k \in 1..m : answers[k].line \in Nat
    BY <1>1, <1>2 DEF BooksTyped
  <2>13. \A l \in 1..n - 1 : KindOfTask(rest[l]) = Kind(a) => i < rest[l].line
    <3>1. SUFFICES ASSUME NEW l \in 1..n - 1, KindOfTask(rest[l]) = Kind(a) PROVE i < rest[l].line
      OBVIOUS
    <3>2. rest[l] = tasks[l + 1] /\ l + 1 \in 1..n /\ 1 < l + 1
      BY <1>3, <1>5
    <3>3. IsCall(tasks[1]) = IsCall(tasks[l + 1])
      <4>1. KindOfTask(tasks[1]) = KindOfTask(tasks[l + 1])
        BY <1>3, <2>5, <3>1, <3>2
      <4>2. IsCall(tasks[1]) \in BOOLEAN /\ IsCall(tasks[l + 1]) \in BOOLEAN
        BY DEF IsCall
      <4>3. QED
        BY <4>1, <4>2 DEF KindOfTask
    <3>4. /\ tasks[1].promises = tasks[l + 1].promises => tasks[1].line < tasks[l + 1].line
          /\ tasks[1].promises # tasks[l + 1].promises => tasks[1].promises = 1
      BY <1>1, <1>4, <1>7, <3>2, <3>3 DEF InTurn
    <3>5. tasks[1].promises = 0 /\ tasks[1].line = i
      BY <1>1, <1>3, <1>6
    <3>6. QED
      BY <3>2, <3>4, <3>5
  <2>14. InTurn(more, rest)
    <3>1. ASSUME NEW k \in 1..m + 1, NEW l \in 1..m + 1, k < l, Kind(more[k]) = Kind(more[l])
          PROVE  more[k].line <= more[l].line
      <4>0. k \in 1..m
        BY <1>3, <3>1
      <4>1. k \in 1..m /\ more[k] = answers[k]
        BY <2>4, <4>0
      <4>2. CASE l \in 1..m
        <5>1. more[l] = answers[l]
          BY <2>4, <4>2
        <5>2. QED
          BY <1>1, <1>7, <3>1, <4>1, <4>2, <5>1 DEF InTurn
      <4>3. CASE l = m + 1
        <5>1. more[l] = a /\ answers[k].line < i /\ answers[k].line \in Nat
          BY <2>4, <2>11, <2>12, <3>1, <4>1, <4>3
        <5>2. answers[k].line <= i
          BY <1>6, <5>1
        <5>3. QED
          BY <2>5, <4>1, <5>1, <5>2
      <4>4. QED
        BY <2>7, <4>2, <4>3
    <3>2. ASSUME NEW k \in 1..m + 1, NEW l \in 1..n - 1, Kind(more[k]) = KindOfTask(rest[l])
          PROVE  more[k].line < rest[l].line
      <4>1. CASE k \in 1..m
        BY <1>12, <2>4, <3>2, <4>1
      <4>2. CASE k = m + 1
        BY <2>4, <2>5, <2>13, <3>2, <4>2
      <4>3. QED
        BY <2>7, <4>1, <4>2
    <3>3. QED
      BY <1>3, <1>13, <2>4, <3>1, <3>2 DEF InTurn
  <2>15. BooksTrue(more, rest, at)
    BY <1>3, <1>8, <2>4, <2>8, <2>9, <2>10, <2>14 DEF BooksTrue
  <2>16. QED
    BY <1>1, <2>3, <2>15
<1>17. QED
  BY <1>15, <1>16

--------------------------------------------------------------------------------
(* What is read, piece by piece.                                           *)

Server(kept, answers, tasks) == [buffer |-> kept, output |-> answers, queue |-> tasks]
(* In the midst of a callback, before the piece next. *)
ServerTrue(server, next) ==
    /\ server = Server(server.buffer, server.output, server.queue)
    /\ KeptTrue(server.buffer, next) /\ BooksTrue(server.output, server.queue, next[1]) /\ Fresh(server.queue)

LEMMA PieceFacts ==
  ASSUME written \in Seq(ClientLines), NEW p, IsPiece(p)
  PROVE  /\ p \in Nat \X Nat /\ p[1] \in Nat /\ p[2] \in Nat
         /\ p[2] = 0 => PieceAfter(p) = <<p[1] + 1, 1>> /\ PieceAfter(p)[1] = p[1] + 1 /\ PieceAfter(p)[2] = 1
         /\ p[2] # 0 => /\ IsPiece(PieceAfter(p)) /\ PieceAfter(p)[1] = p[1]
                        /\ PieceAfter(p)[2] = IF p[2] = written[p[1]].size THEN 0 ELSE p[2] + 1
<1>1. PICK i, k : p = <<i, k>>
  BY DEF IsPiece
<1>2. PICK size : size = written[i].size
  OBVIOUS
<1>3. i \in 1..Len(written) /\ k \in 0..size /\ size \in Nat
  BY <1>1, <1>2, LineFacts DEF IsPiece
<1>4. CASE k = 0
  <2>1. PieceAfter(p) = <<i + 1, 1>>
    BY <1>1, <1>4 DEF PieceAfter
  <2>2. QED
    BY <1>1, <1>3, <1>4, <2>1
<1>5. CASE k # 0
  <2>1. CASE k = size
    <3>1. PieceAfter(p) = <<i, 0>>
      BY <1>1, <1>2, <1>5, <2>1 DEF PieceAfter
    <3>2. QED
      BY <1>1, <1>2, <1>3, <1>5, <2>1, <3>1 DEF IsPiece
  <2>2. CASE k # size
    <3>1. PieceAfter(p) = <<i, k + 1>>
      BY <1>1, <1>2, <1>5, <2>2 DEF PieceAfter
    <3>2. k + 1 \in 0..size
      BY <1>3, <2>2
    <3>3. QED
      BY <1>1, <1>2, <1>3, <1>5, <2>2, <3>1, <3>2 DEF IsPiece
  <2>3. QED
    BY <2>1, <2>2
<1>6. QED
  BY <1>4, <1>5

(* What is kept is of one line, and all of what it has so far if that fits.*)
WholeTrue(kept, next) ==
    /\ kept \in Seq(Nat \X Nat) /\ Len(kept) \in Nat \ {0} /\ next \in Nat \X Nat
    /\ kept[1][1] = next[1] /\ next[1] \in 1..Len(written) /\ IsPiece(next)
    /\ kept[1][2] = 1 \/ ~Small(next[1])
    /\ kept[1][2] = 1 => /\ Len(kept) <= written[next[1]].size
                         /\ next[2] = IF Len(kept) = written[next[1]].size THEN 0 ELSE Len(kept) + 1
    /\ next[2] # 0 => next[2] = kept[1][2] + Len(kept)

LEMMA KeptFacts ==
  ASSUME written \in Seq(ClientLines), NEW kept, NEW next, KeptTrue(kept, next), kept # <<>>
  PROVE  WholeTrue(kept, next)
<1>1. PICK n : n = Len(kept)
  OBVIOUS
<1>2. kept \in Seq(Nat \X Nat) /\ n \in Nat \ {0} /\ 1 \in 1..n /\ n \in 1..n
  BY <1>1 DEF KeptTrue
<1>3. PICK first, last : first = kept[1] /\ last = kept[n]
  OBVIOUS
<1>4. /\ IsPiece(first) /\ first[2] # 0 /\ first[1] = next[1]
      /\ IsPiece(last) /\ last[2] # 0 /\ last[1] = next[1] /\ last[2] = first[2] + n - 1 /\ PieceAfter(last) = next
  BY <1>1, <1>2, <1>3 DEF KeptTrue
<1>5. /\ first[1] \in Nat /\ first[2] \in Nat /\ last[2] \in Nat
      /\ IsPiece(next) /\ next[2] = IF last[2] = written[last[1]].size THEN 0 ELSE last[2] + 1
  BY <1>4, PieceFacts
<1>6. next \in Nat \X Nat /\ next[1] \in 1..Len(written)
  BY <1>5, PieceFacts DEF IsPiece
<1>7. last[2] <= written[next[1]].size /\ written[next[1]].size \in Nat
  BY <1>4, <1>6, LineFacts DEF IsPiece
<1>8. first[2] = 1 \/ ~Small(next[1])
  BY <1>2, <1>3 DEF KeptTrue
<1>9. ASSUME first[2] = 1
      PROVE  n <= written[next[1]].size /\ next[2] = IF n = written[next[1]].size THEN 0 ELSE n + 1
  <2>1. last[2] = n
    BY <1>2, <1>4, <1>9
  <2>2. QED
    BY <1>4, <1>5, <1>7, <2>1
<1>10. next[2] # 0 => next[2] = first[2] + n
  BY <1>2, <1>4, <1>5
<1>11. QED
  BY <1>1, <1>2, <1>3, <1>4, <1>5, <1>6, <1>8, <1>9, <1>10 DEF WholeTrue

LEMMA FedFacts ==
  ASSUME NEW kept, NEW answers, NEW tasks, NEW p, NEW fed, fed = Feed(p, Server(kept, answers, tasks))
  PROVE  /\ p[2] # 0 => fed = Server(Append(kept, p), answers, tasks)
         /\ p[2] = 0 /\ Blank(kept) => fed = Server(<<>>, answers, tasks)
         /\ p[2] = 0 /\ ~Blank(kept) =>
              \/ Len(kept) > MaxBytes /\ fed = Server(<<>>, Append(answers, AtOnce(kept[1][1], "TOO_LARGE")), tasks)
              \/ /\ ~(Len(kept) > MaxBytes) /\ ~Parses(kept)
                 /\ fed = Server(<<>>, Append(answers, AtOnce(kept[1][1], "PARSE")), tasks)
              \/ /\ ~(Len(kept) > MaxBytes) /\ Parses(kept)
                 /\ fed = Server(<<>>, answers, Append(tasks, NewTask(kept[1][1])))
<1>1. PICK server : server = Server(kept, answers, tasks)
  OBVIOUS
<1>2. server.buffer = kept /\ server.queue = tasks /\ server.output = answers
  BY <1>1 DEF Server
<1>3. CASE p[2] # 0
  <2>1. fed = [server EXCEPT !.buffer = Append(kept, p)]
    BY <1>1, <1>2, <1>3 DEF Feed, IsNewline
  <2>2. QED
    BY <1>1, <1>3, <2>1 DEF Server
<1>4. CASE p[2] = 0
  <2>1. PICK emptied : emptied = Server(<<>>, answers, tasks)
    OBVIOUS
  <2>2. [server EXCEPT !.buffer = <<>>] = emptied
    BY <1>1, <2>1 DEF Server
  <2>3. fed = IF Blank(kept) THEN emptied ELSE Receive(kept, emptied)
    BY <1>1, <1>2, <1>4, <2>2 DEF Feed, IsNewline
  <2>4. emptied.output = answers /\ emptied.queue = tasks
    BY <2>1 DEF Server
  <2>5. ASSUME NEW code PROVE Refuse(kept, code, emptied) = Server(<<>>, Append(answers, AtOnce(kept[1][1], code)), tasks)
    <3>1. Refuse(kept, code, emptied) = [emptied EXCEPT !.output = Append(answers, AtOnce(kept[1][1], code))]
      BY <2>4 DEF Refuse, AtOnce
    <3>2. QED
      BY <2>1, <3>1 DEF Server
  <2>6. Later(kept[1][1], emptied) = Server(<<>>, answers, Append(tasks, NewTask(kept[1][1])))
    <3>1. Later(kept[1][1], emptied) = [emptied EXCEPT !.queue = Append(tasks, NewTask(kept[1][1]))]
      BY <2>4 DEF Later, NewTask
    <3>2. QED
      BY <2>1, <3>1 DEF Server
  <2>7. QED
    BY <1>4, <2>1, <2>3, <2>5, <2>6 DEF Receive
<1>5. QED
  BY <1>3, <1>4

LEMMA KeptAppends ==
  ASSUME written \in Seq(ClientLines), NEW p, IsPiece(p), p[2] # 0, NEW kept, KeptTrue(kept, p)
  PROVE  KeptTrue(Append(kept, p), PieceAfter(p))
<1>1. PICK n, more, next : n = Len(kept) /\ more = Append(kept, p) /\ next = PieceAfter(p)
  OBVIOUS
<1>2. kept \in Seq(Nat \X Nat) /\ n \in Nat /\ p \in Nat \X Nat /\ p[1] \in Nat /\ p[2] \in Nat
  BY <1>1, PieceFacts DEF KeptTrue
<1>3. more \in Seq(Nat \X Nat) /\ Len(more) = n + 1 /\ more[n + 1] = p /\ \A k \in 1..n : more[k] = kept[k]
  BY <1>1, <1>2
<1>4. IsPiece(next) /\ next[1] = p[1]
  BY <1>1, PieceFacts
<1>5. CASE kept = <<>>
  <2>1. n = 0 /\ more[1] = p /\ (p[2] = 1 \/ ~Small(p[1]))
    BY <1>1, <1>2, <1>3, <1>5 DEF KeptTrue
  <2>2. \A j \in 1..Len(more) : j = 1
    BY <1>3, <2>1
  <2>3. \A j \in 1..Len(more) :
           /\ IsPiece(more[j]) /\ more[j][2] # 0 /\ more[j][1] = next[1]
           /\ more[j][2] = more[1][2] + j - 1
           /\ j = Len(more) => PieceAfter(more[j]) = next
    BY <1>1, <1>2, <1>4, <2>1, <2>2
  <2>4. more # <<>>
    BY <1>3, <2>1
  <2>5. KeptTrue(more, next)
    BY <1>3, <1>4, <2>1, <2>3, <2>4 DEF KeptTrue
  <2>6. QED
    BY <1>1, <2>5
<1>6. CASE kept # <<>>
  <2>1. WholeTrue(kept, p)
    BY <1>6, KeptFacts
  <2>2. n \in Nat \ {0} /\ p[2] = kept[1][2] + n /\ (kept[1][2] = 1 \/ ~Small(p[1])) /\ more[1] = kept[1] /\ more # <<>>
    <3>1. n \in Nat \ {0}
      BY <1>1, <2>1 DEF WholeTrue
    <3>2. more[1] = kept[1] /\ more # <<>>
      BY <1>3, <3>1
    <3>3. QED
      BY <1>1, <2>1, <3>1, <3>2 DEF WholeTrue
  <2>3. ASSUME NEW j \in 1..Len(more)
        PROVE  /\ IsPiece(more[j]) /\ more[j][2] # 0 /\ more[j][1] = next[1]
               /\ more[j][2] = more[1][2] + j - 1
               /\ j = Len(more) => PieceAfter(more[j]) = next
    <3>1. CASE j = n + 1
      <4>1. more[j] = p
        BY <1>3, <3>1
      <4>2. p[2] = kept[1][2] + (n + 1) - 1
        <5>1. kept[1][2] \in Nat
          BY <1>1, <1>2, <2>2
        <5>2. QED
          BY <1>2, <2>2, <5>1
      <4>3. QED
        BY <1>1, <1>4, <2>2, <3>1, <4>1, <4>2
    <3>2. CASE j # n + 1
      <4>1. j \in 1..n /\ more[j] = kept[j] /\ j # Len(more)
        <5>1. j \in 1..n + 1 /\ j # Len(more)
          BY <1>3, <3>2
        <5>2. j \in 1..n
          BY <1>2, <3>2, <5>1
        <5>3. QED
          BY <1>3, <5>1, <5>2
      <4>2. IsPiece(kept[j]) /\ kept[j][2] # 0 /\ kept[j][1] = p[1] /\ kept[j][2] = kept[1][2] + j - 1
        BY <1>1, <4>1 DEF KeptTrue
      <4>3. QED
        BY <1>4, <2>2, <4>1, <4>2
    <3>3. QED
      BY <3>1, <3>2
  <2>4. KeptTrue(more, next)
    BY <1>3, <1>4, <2>2, <2>3 DEF KeptTrue
  <2>5. QED
    BY <1>1, <2>4
<1>7. QED
  BY <1>5, <1>6

(* A piece keeps the server's books true. *)
LEMMA FeedKeeps ==
  ASSUME written \in Seq(ClientLines), NEW p, IsPiece(p), NEW server, ServerTrue(server, p)
  PROVE  ServerTrue(Feed(p, server), PieceAfter(p))
<1>1. PICK kept, answers, tasks, fed, next, i :
        /\ kept = server.buffer /\ answers = server.output /\ tasks = server.queue /\ fed = Feed(p, server)
        /\ next = PieceAfter(p) /\ i = p[1]
  OBVIOUS
<1>2. server = Server(kept, answers, tasks) /\ KeptTrue(kept, p) /\ BooksTrue(answers, tasks, i) /\ Fresh(tasks)
  BY <1>1 DEF ServerTrue
<1>3. i \in 1..Len(written) /\ i \in Nat
  BY <1>1 DEF IsPiece
<1>4. ASSUME NEW k, NEW a, NEW t, fed = Server(k, a, t), KeptTrue(k, next), BooksTrue(a, t, next[1]), Fresh(t)
      PROVE  ServerTrue(fed, next)
  <2>1. fed.buffer = k /\ fed.output = a /\ fed.queue = t
    BY <1>4 DEF Server
  <2>2. QED
    BY <1>4, <2>1 DEF ServerTrue
<1>5. CASE p[2] # 0
  <2>1. fed = Server(Append(kept, p), answers, tasks)
    BY <1>1, <1>2, <1>5, FedFacts
  <2>2. KeptTrue(Append(kept, p), next)
    BY <1>1, <1>2, <1>5, KeptAppends
  <2>3. next[1] = i
    BY <1>1, <1>5, PieceFacts
  <2>4. ServerTrue(fed, next)
    BY <1>2, <1>4, <2>1, <2>2, <2>3
  <2>5. QED
    BY <1>1, <2>4
<1>6. CASE p[2] = 0
  <2>1. next[1] = i + 1 /\ next[2] = 1
    BY <1>1, <1>6, PieceFacts
  <2>2. KeptTrue(<<>>, next)
    BY <2>1 DEF KeptTrue
  <2>3. kept = <<>> => ~Small(i)
    <3>1. (IF kept = <<>> THEN p[2] ELSE kept[1][2]) = 1 \/ ~Small(p[1])
      BY <1>2 DEF KeptTrue
    <3>2. QED
      BY <1>1, <1>6, <3>1
  <2>4. ASSUME kept # <<>>
        PROVE  /\ kept[1][1] = i /\ Len(kept) \in Nat /\ written[i].size \in Nat
               /\ Small(i) => kept[1][2] = 1 /\ Len(kept) = written[i].size
               /\ kept[1][2] = 1 => Len(kept) = written[i].size
    <3>1. WholeTrue(kept, p)
      BY <1>2, <2>4, KeptFacts
    <3>2. Len(kept) \in Nat /\ written[i].size \in Nat
      BY <1>3, <3>1, LineFacts DEF WholeTrue
    <3>3. kept[1][2] = 1 => Len(kept) = written[i].size
      BY <1>1, <1>6, <3>1, <3>2 DEF WholeTrue
    <3>4. QED
      BY <1>1, <3>1, <3>2, <3>3 DEF WholeTrue
  <2>5. MaxBytes \in Nat
    BY McpAssumption
  <2>6. CASE Blank(kept)
    <3>1. Small(i) => ReadAs(i).form = "blank"
      BY <2>3, <2>4, <2>6 DEF Blank
    <3>2. BooksTrue(answers, tasks, i + 1)
      BY <1>2, <1>3, <3>1, BooksPass
    <3>3. fed = Server(<<>>, answers, tasks)
      BY <1>1, <1>2, <1>6, <2>6, FedFacts
    <3>4. ServerTrue(fed, next)
      BY <1>2, <1>4, <2>1, <2>2, <3>2, <3>3
    <3>5. QED
      BY <1>1, <3>4
  <2>7. CASE ~Blank(kept)
    <3>1. kept # <<>> /\ kept[1][1] = i /\ ReadAs(i).form # "blank"
      BY <2>4, <2>7 DEF Blank
    <3>2. CASE Len(kept) > MaxBytes /\ fed = Server(<<>>, Append(answers, AtOnce(i, "TOO_LARGE")), tasks)
      <4>1. ~Small(i)
        BY <2>4, <2>5, <3>1, <3>2 DEF Small
      <4>2. i + 1 \in {i, i + 1}
        OBVIOUS
      <4>3. BooksTrue(Append(answers, AtOnce(i, "TOO_LARGE")), tasks, i + 1)
        BY <1>2, <1>3, <4>1, <4>2, BooksRefuse
      <4>4. ServerTrue(fed, next)
        BY <1>2, <1>4, <2>1, <2>2, <3>2, <4>3
      <4>5. QED
        BY <1>1, <4>4
    <3>3. CASE ~Parses(kept) /\ fed = Server(<<>>, Append(answers, AtOnce(i, "PARSE")), tasks)
      <4>1. Small(i) => ReadAs(i).form = "garbage"
        BY <2>4, <3>1, <3>3 DEF Parses
      <4>2. i + 1 \in {i, i + 1}
        OBVIOUS
      <4>3. BooksTrue(Append(answers, AtOnce(i, "PARSE")), tasks, i + 1)
        BY <1>2, <1>3, <4>1, <4>2, BooksRefuse
      <4>4. ServerTrue(fed, next)
        BY <1>2, <1>4, <2>1, <2>2, <3>3, <4>3
      <4>5. QED
        BY <1>1, <4>4
    <3>4. CASE ~(Len(kept) > MaxBytes) /\ Parses(kept) /\ fed = Server(<<>>, answers, Append(tasks, NewTask(i)))
      <4>1. Len(kept) = written[i].size /\ ReadAs(i).form # "garbage"
        BY <3>1, <3>4 DEF Parses
      <4>2. Small(i) /\ Understood(i)
        BY <2>4, <2>5, <3>1, <3>4, <4>1 DEF Small, Understood
      <4>3. BooksTrue(answers, Append(tasks, NewTask(i)), i + 1) /\ Fresh(Append(tasks, NewTask(i)))
        BY <1>2, <1>3, <4>2, BooksQueue
      <4>4. ServerTrue(fed, next)
        BY <1>4, <2>1, <2>2, <3>4, <4>3
      <4>5. QED
        BY <1>1, <4>4
    <3>5. fed = Feed(p, Server(kept, answers, tasks))
      BY <1>1, <1>2
    <3>6. QED
      BY <1>6, <2>7, <3>1, <3>2, <3>3, <3>4, <3>5, FedFacts
  <2>8. QED
    BY <2>6, <2>7
<1>7. QED
  BY <1>5, <1>6

(* So does giving up what never ends; what is kept then is within bounds.  *)
LEMMA OverflowKeeps ==
  ASSUME written \in Seq(ClientLines), NEW server, NEW next, ServerTrue(server, next)
  PROVE  LET pushed == Overflow(server)
         IN  /\ KeptTrue(pushed.buffer, next) /\ BooksTrue(pushed.output, pushed.queue, next[1])
             /\ Len(pushed.buffer) <= MaxBytes
<1>1. PICK kept, answers, tasks, pushed :
        /\ kept = server.buffer /\ answers = server.output /\ tasks = server.queue /\ pushed = Overflow(server)
  OBVIOUS
<1>2. server = Server(kept, answers, tasks) /\ KeptTrue(kept, next) /\ BooksTrue(answers, tasks, next[1])
  BY <1>1 DEF ServerTrue
<1>3. MaxBytes \in Nat
  BY McpAssumption
<1>4. CASE Len(kept) <= MaxBytes
  <2>1. pushed = server
    BY <1>1, <1>4 DEF Overflow
  <2>2. QED
    BY <1>1, <1>2, <1>4, <2>1
<1>5. CASE ~(Len(kept) <= MaxBytes)
  <2>1. kept # <<>>
    <3>1. Len(<<>>) = 0
      OBVIOUS
    <3>2. QED
      BY <1>3, <1>5, <3>1
  <2>2. WholeTrue(kept, next)
    BY <1>2, <2>1, KeptFacts
  <2>3. next[1] \in 1..Len(written) /\ kept[1][1] = next[1] /\ IsPiece(next) /\ Len(kept) \in Nat
    BY <2>2 DEF WholeTrue
  <2>4. ~Small(next[1])
    <3>1. written[next[1]].size \in Nat
      BY <2>3, LineFacts
    <3>2. QED
      BY <1>3, <1>5, <2>2, <2>3, <3>1 DEF WholeTrue, Small
  <2>5. pushed = Server(<<>>, Append(answers, AtOnce(next[1], "TOO_LARGE")), tasks)
    <3>1. PICK emptied : emptied = Server(<<>>, answers, tasks)
      OBVIOUS
    <3>2. [server EXCEPT !.buffer = <<>>] = emptied /\ emptied.output = answers
      BY <1>2, <3>1 DEF Server
    <3>3. pushed = [emptied EXCEPT !.output = Append(answers, AtOnce(next[1], "TOO_LARGE"))]
      BY <1>1, <1>5, <2>3, <3>2 DEF Overflow, Refuse, AtOnce
    <3>4. QED
      BY <3>1, <3>3 DEF Server
  <2>6. BooksTrue(Append(answers, AtOnce(next[1], "TOO_LARGE")), tasks, next[1])
    BY <1>2, <2>3, <2>4, BooksRefuse
  <2>7. pushed.buffer = <<>> /\ pushed.output = Append(answers, AtOnce(next[1], "TOO_LARGE")) /\ pushed.queue = tasks
    BY <2>5 DEF Server
  <2>8. KeptTrue(<<>>, next)
    BY <2>3, <2>4 DEF KeptTrue
  <2>9. Len(<<>>) <= MaxBytes
    BY <1>3
  <2>10. QED
    BY <1>1, <2>6, <2>7, <2>8, <2>9
<1>6. QED
  BY <1>4, <1>5

(* A chunk is handled piece by piece. *)
PushedInSteps(chunk) ==
    \E g : /\ g[0] = Server(buffer, output, queue) /\ \A k \in 1..Len(chunk) : g[k] = Feed(chunk[k], g[k - 1])
           /\ push(chunk) = Overflow(g[Len(chunk)])

LEMMA PushIsInSteps ==
  ASSUME NEW chunk \in Seq(Nat \X Nat), buffer \in Seq(Nat \X Nat), ASequence(output), queue = <<>>
  PROVE  PushedInSteps(chunk)
<1>1. PICK A : output \in Seq(A)
  BY DEF ASequence
<1>a. PICK B : B = A \cup [line : Nat, id : {Absent}, code : {"TOO_LARGE", "PARSE"}, body : {NoBody}]
  OBVIOUS
<1>b. PICK P, T : P = Nat \X Nat /\ T = [line : Nat, promises : {0, 1}]
  OBVIOUS
<1>c. PICK S : S = [buffer : Seq(P), output : Seq(B), queue : Seq(T)]
  OBVIOUS
<1>d. PICK n, start : n = Len(chunk) /\ start = Server(buffer, output, queue)
  OBVIOUS
<1>3. n \in Nat /\ \A k \in 1..n : chunk[k] \in P
  BY <1>b, <1>d
<1>4. start \in S
  <2>1. output \in Seq(B)
    BY <1>1, <1>a
  <2>2. buffer \in Seq(P) /\ queue \in Seq(T)
    BY <1>b
  <2>3. QED
    BY <1>c, <1>d, <2>1, <2>2 DEF Server
<1>5. ASSUME NEW p \in P, NEW s \in S PROVE Feed(p, s) \in S
  <2>1. PICK kept \in Seq(P), answers \in Seq(B), tasks \in Seq(T) : s = Server(kept, answers, tasks)
    BY <1>c DEF Server
  <2>2. PICK fed : fed = Feed(p, s)
    OBVIOUS
  <2>3. ASSUME NEW k \in Seq(P), NEW a \in Seq(B), NEW t \in Seq(T) PROVE Server(k, a, t) \in S
    BY <1>c DEF Server
  <2>4. CASE p[2] # 0
    <3>1. fed = Server(Append(kept, p), answers, tasks) /\ Append(kept, p) \in Seq(P)
      BY <2>1, <2>2, <2>4, FedFacts
    <3>2. QED
      BY <2>2, <2>3, <3>1
  <2>5. <<>> \in Seq(P)
    OBVIOUS
  <2>6. CASE p[2] = 0 /\ Blank(kept)
    <3>1. fed = Server(<<>>, answers, tasks)
      BY <2>1, <2>2, <2>6, FedFacts
    <3>2. QED
      BY <2>2, <2>3, <2>5, <3>1
  <2>7. CASE p[2] = 0 /\ ~Blank(kept)
    <3>1. PICK i : i = kept[1][1]
      OBVIOUS
    <3>2. i \in Nat
      <4>1. kept # <<>>
        BY <2>7 DEF Blank
      <4>2. kept[1] \in P
        BY <4>1
      <4>3. QED
        BY <1>b, <3>1, <4>2
    <3>3. ASSUME NEW code \in {"TOO_LARGE", "PARSE"} PROVE Append(answers, AtOnce(i, code)) \in Seq(B)
      <4>1. AtOnce(i, code) \in B
        BY <1>a, <3>2 DEF AtOnce, Answer
      <4>2. QED
        BY <4>1
    <3>4. Append(tasks, NewTask(i)) \in Seq(T)
      <4>1. Promises(ReadAs(i)) \in {0, 1}
        BY DEF Promises
      <4>2. NewTask(i) \in T
        BY <1>b, <3>2, <4>1 DEF NewTask
      <4>3. QED
        BY <4>2
    <3>5. \/ fed = Server(<<>>, Append(answers, AtOnce(i, "TOO_LARGE")), tasks)
          \/ fed = Server(<<>>, Append(answers, AtOnce(i, "PARSE")), tasks)
          \/ fed = Server(<<>>, answers, Append(tasks, NewTask(i)))
      BY <2>1, <2>2, <2>7, <3>1, FedFacts
    <3>6. QED
      BY <2>2, <2>3, <2>5, <3>3, <3>4, <3>5
  <2>8. QED
    BY <2>4, <2>6, <2>7
<1>6. PICK step : step = [k \in 1..n |-> [s \in S |-> Feed(chunk[k], s)]]
  OBVIOUS
<1>7. step \in [1..n -> [S -> S]]
  <2>1. \A k \in 1..n, s \in S : Feed(chunk[k], s) \in S
    BY <1>3, <1>5
  <2>2. QED
    BY <1>6, <2>1
<1>8. PICK g \in [0..n -> S] : g[0] = start /\ \A k \in 1..n : g[k] = step[k][g[k - 1]]
  <2>1. SomeSteps(n, S, start, step)
    BY ONLY <1>3, <1>4, <1>7, StepsExist
  <2>2. QED
    BY <2>1 DEF SomeSteps, InSteps
<1>9. \A k \in 1..n : g[k] = Feed(chunk[k], g[k - 1])
  <2>1. ASSUME NEW k \in 1..n PROVE g[k] = Feed(chunk[k], g[k - 1])
    <3>1. k - 1 \in 0..n
      BY <1>3
    <3>2. g[k - 1] \in S
      BY <3>1
    <3>3. QED
      BY <1>6, <1>8, <3>2
  <2>2. QED
    BY <2>1
<1>10. g = [k \in 0..n |-> IF k = 0 THEN start ELSE Feed(chunk[k], g[k - 1])]
  <2>1. \A k \in 0..n : k # 0 => k \in 1..n
    BY <1>3
  <2>2. QED
    BY <1>8, <1>9, <2>1
<1> DEFINE Defined(h) == h = [k \in 0..Len(chunk) |-> IF k = 0 THEN start ELSE Feed(chunk[k], h[k - 1])]
<1>11. PICK h : h = CHOOSE x : Defined(x)
  OBVIOUS
<1>12. push(chunk) = Overflow(h[n])
  BY <1>d, <1>11 DEF push, Server
<1>13. Defined(h)
  BY <1>d, <1>10, <1>11
<1> HIDE DEF Defined
<1>14. \A k \in 0..n : h[k] = IF k = 0 THEN start ELSE Feed(chunk[k], h[k - 1])
  BY <1>d, <1>13 DEF Defined
<1>15. PICK Agreed : Agreed = {k \in 0..n : h[k] = g[k]}
  OBVIOUS
<1>16. 0 \in Agreed
  BY <1>3, <1>8, <1>14, <1>15
<1>17. ASSUME NEW k \in 1..n, k - 1 \in Agreed PROVE k \in Agreed
  <2>1. k \in 0..n /\ k # 0 /\ h[k - 1] = g[k - 1]
    BY <1>3, <1>15, <1>17
  <2>2. h[k] = g[k]
    BY <1>9, <1>14, <2>1
  <2>3. QED
    BY <1>15, <2>1, <2>2
<1>18. n \in Agreed
  <2>1. 0..n \subseteq Agreed
    BY <1>3, <1>16, <1>17, StepByStep
  <2>2. QED
    BY <1>3, <2>1
<1>19. QED
  BY <1>d, <1>8, <1>9, <1>12, <1>15, <1>18 DEF PushedInSteps

(* After a chunk, the books are those of the piece that comes then. *)
LEMMA ChunkKeeps ==
  ASSUME McpInv, queue = <<>>, NEW n \in 1..Len(pipe)
  PROVE  LET pushed == push(SubSeq(pipe, 1, n))
             next == IF n = Len(pipe) THEN InputEnd ELSE pipe[n + 1]
         IN  /\ KeptTrue(pushed.buffer, next) /\ BooksTrue(pushed.output, pushed.queue, next[1])
             /\ Len(pushed.buffer) <= MaxBytes
<1>1. /\ written \in Seq(ClientLines) /\ pipe \in Seq(Nat \X Nat) /\ Len(pipe) \in Nat
      /\ \A j \in 1..Len(pipe) : IsPiece(pipe[j])
      /\ \A j \in 1..Len(pipe) : PieceAfter(pipe[j]) = IF j = Len(pipe) THEN InputEnd ELSE pipe[j + 1]
  <2>1. written \in Seq(ClientLines) /\ pipe \in Seq(Nat \X Nat) /\ \A j \in 1..Len(pipe) : IsPiece(pipe[j])
    BY DEF McpInv, InputIsTrue
  <2>2. \A j \in 1..Len(pipe) : PieceAfter(pipe[j]) = IF j = Len(pipe) THEN InputEnd ELSE pipe[j + 1]
    BY DEF McpInv, InputIsTrue
  <2>3. Len(pipe) \in Nat
    BY <2>1
  <2>4. QED
    BY <2>1, <2>2, <2>3
<1>2. PICK chunk : chunk = SubSeq(pipe, 1, n)
  OBVIOUS
<1>3. n \in Nat /\ chunk \in Seq(Nat \X Nat) /\ Len(chunk) = n /\ \A k \in 1..n : chunk[k] = pipe[k] /\ k \in 1..Len(pipe)
  BY <1>1, <1>2
<1>4. PushedInSteps(chunk)
  BY <1>3, PushIsInSteps DEF McpInv, KeptTrue, BooksTrue
<1>5. PICK g : /\ g[0] = Server(buffer, output, queue) /\ \A k \in 1..n : g[k] = Feed(chunk[k], g[k - 1])
               /\ push(chunk) = Overflow(g[n])
  BY <1>3, <1>4 DEF PushedInSteps
<1> DEFINE Then(k) == IF k = Len(pipe) THEN InputEnd ELSE pipe[k + 1]
<1>6. PICK T : T = {k \in 0..n : ServerTrue(g[k], Then(k))}
  OBVIOUS
<1>7. 0 \in T
  <2>1. g[0].buffer = buffer /\ g[0].output = output /\ g[0].queue = queue
    BY <1>5 DEF Server
  <2>2. Then(0) = NextPiece
    <3>1. pipe # <<>> /\ 0 # Len(pipe)
      BY <1>1
    <3>2. QED
      BY <3>1 DEF NextPiece
  <2>3. Fresh(queue)
    <3>1. Len(queue) = 0
      OBVIOUS
    <3>2. QED
      BY <3>1 DEF Fresh
  <2>4. ServerTrue(g[0], NextPiece)
    BY <1>5, <2>1, <2>3 DEF ServerTrue, McpInv
  <2>5. 0 \in 0..n
    BY <1>3
  <2>6. QED
    BY <1>6, <2>2, <2>4, <2>5
<1>8. ASSUME NEW k \in 1..n, k - 1 \in T PROVE k \in T
  <2>1. k \in 1..Len(pipe) /\ k - 1 # Len(pipe) /\ (k - 1) + 1 = k /\ k \in 0..n
    BY <1>1, <1>3
  <2>2. Then(k - 1) = pipe[k]
    BY <2>1
  <2>3. ServerTrue(g[k - 1], pipe[k])
    BY <1>6, <1>8, <2>2
  <2>4. g[k] = Feed(pipe[k], g[k - 1])
    BY <1>3, <1>5
  <2>5. PieceAfter(pipe[k]) = Then(k)
    BY <1>1, <2>1
  <2>6. IsPiece(pipe[k])
    BY <1>1, <2>1
  <2> HIDE DEF Then
  <2>7. ServerTrue(g[k], Then(k))
    BY <1>1, <2>3, <2>4, <2>5, <2>6, FeedKeeps
  <2>8. QED
    BY <1>6, <2>1, <2>7
<1>9. ServerTrue(g[n], Then(n))
  <2> HIDE DEF Then
  <2>1. 0..n \subseteq T
    BY <1>3, <1>7, <1>8, StepByStep
  <2>2. n \in T
    BY <1>3, <2>1
  <2>3. QED
    BY <1>6, <2>2
<1>10. PICK pushed, next : pushed = push(chunk) /\ next = Then(n)
  OBVIOUS
<1>11. KeptTrue(pushed.buffer, next) /\ BooksTrue(pushed.output, pushed.queue, next[1]) /\ Len(pushed.buffer) <= MaxBytes
  BY <1>1, <1>5, <1>9, <1>10, OverflowKeeps
<1>12. QED
  BY <1>2, <1>10, <1>11

--------------------------------------------------------------------------------
(* Every step.                                                             *)

(* The lines that were written stay. *)
WrittenStays ==
    /\ written \in Seq(ClientLines) /\ written' \in Seq(ClientLines) /\ Len(written) <= Len(written')
    /\ \A i \in 1..Len(written) : i \in 1..Len(written') /\ written'[i] = written[i]

LEMMA PiecesStay ==
  ASSUME WrittenStays, NEW p, IsPiece(p)
  PROVE  IsPiece(p)' /\ PieceAfter(p)' = PieceAfter(p)
BY DEF WrittenStays, IsPiece, PieceAfter

LEMMA KeptStays ==
  ASSUME WrittenStays, NEW kept, NEW next, KeptTrue(kept, next)
  PROVE  KeptTrue(kept, next)'
<1>1. ASSUME NEW j \in 1..Len(kept)
      PROVE  /\ IsPiece(kept[j])' /\ kept[j][2] # 0 /\ kept[j][1] = next[1]
             /\ kept[j][2] = kept[1][2] + j - 1
             /\ j = Len(kept) => (PieceAfter(kept[j]) = next)'
  <2>1. PICK p : p = kept[j]
    OBVIOUS
  <2>2. IsPiece(p) /\ (j = Len(kept) => PieceAfter(p) = next)
    BY <2>1 DEF KeptTrue
  <2>3. IsPiece(p)' /\ PieceAfter(p)' = PieceAfter(p)
    BY <2>2, PiecesStay
  <2>4. kept[j][2] # 0 /\ kept[j][1] = next[1] /\ kept[j][2] = kept[1][2] + j - 1
    BY DEF KeptTrue
  <2>5. QED
    BY <2>1, <2>2, <2>3, <2>4
<1>2. IsPiece(next) /\ ~Small(next[1]) => IsPiece(next)' /\ ~Small(next[1])'
  BY PiecesStay DEF WrittenStays, IsPiece, Small
<1>3. kept \in Seq(Nat \X Nat) /\ ((IF kept = <<>> THEN next[2] ELSE kept[1][2]) = 1 \/ (IsPiece(next) /\ ~Small(next[1])))
  BY DEF KeptTrue
<1>4. QED
  BY <1>1, <1>2, <1>3 DEF KeptTrue

(* A line that was read to its end is read as it was, and what was cut is. *)
ReadingsStay(at) == \A i \in 1..Len(written) : i < at => ReadAs(i)' = ReadAs(i)

LEMMA ReadingsStayWhole ==
  ASSUME WrittenStays, cut' = cut, NEW at, CutTrue
  PROVE  ReadingsStay(at) /\ CutTrue'
<1>1. ReadingsStay(at)
  BY DEF WrittenStays, ReadingsStay, ReadAs
<1>2. QED
  BY <1>1 DEF WrittenStays, CutTrue, InCharacter

LEMMA BooksStay ==
  ASSUME WrittenStays, NEW answers, NEW tasks, NEW at \in Nat, at <= Len(written) + 1, BooksTrue(answers, tasks, at),
         ReadingsStay(at)
  PROVE  BooksTrue(answers, tasks, at)'
<1>1. \A i \in 1..Len(written) : /\ i \in 1..Len(written') /\ (Small(i)' <=> Small(i))
                                 /\ i < at => ReadAs(i)' = ReadAs(i) /\ (Understood(i)' <=> Understood(i))
  BY DEF WrittenStays, Small, Understood, ReadingsStay
<1>2. ASSUME NEW k \in 1..Len(answers) PROVE AnswerTrue(answers[k], at)'
  <2>1. PICK answer, i : answer = answers[k] /\ i = answer.line
    OBVIOUS
  <2>2. AnswerTrue(answer, at)
    BY <2>1 DEF BooksTrue
  <2>3. i \in 1..Len(written)
    BY <2>1, <2>2 DEF AnswerTrue
  <2>4. PICK l, m : l = ReadAs(i) /\ m = ReadAs(i)' /\ (i < at => m = l /\ (Understood(i)' <=> Understood(i)))
    BY <1>1, <2>3
  <2>5. /\ i \in 1..Len(written) /\ i <= at /\ (Small(i) => i < at)
        /\ \/ answer = AtOnce(i, "TOO_LARGE") /\ ~Small(i)
           \/ answer = AtOnce(i, "PARSE") /\ (Small(i) => l.form = "garbage")
           \/ <<answer>> = handleMessage(i, l) /\ Small(i) /\ Understood(i)
    BY <2>1, <2>2, <2>4 DEF AnswerTrue
  <2>6. /\ i \in 1..Len(written') /\ i <= at /\ (Small(i)' => i < at)
        /\ \/ answer = AtOnce(i, "TOO_LARGE") /\ ~Small(i)'
           \/ answer = AtOnce(i, "PARSE") /\ (Small(i)' => m.form = "garbage")
           \/ <<answer>> = handleMessage(i, m) /\ Small(i)' /\ Understood(i)'
    BY <1>1, <2>3, <2>4, <2>5
  <2>7. AnswerTrue(answer, at)'
    BY <2>1, <2>4, <2>6 DEF AnswerTrue
  <2>8. QED
    BY <2>1, <2>7
<1>3. ASSUME NEW l \in 1..Len(tasks)
      PROVE  TaskTrue(tasks[l], at)' /\ (IsCall(tasks[l])' <=> IsCall(tasks[l])) /\ KindOfTask(tasks[l])' = KindOfTask(tasks[l])
  <2>1. PICK waiting, i : waiting = tasks[l] /\ i = waiting.line
    OBVIOUS
  <2>2. TaskTrue(waiting, at)
    BY <2>1 DEF BooksTrue
  <2>3. i \in 1..Len(written) /\ i \in 1..Len(written') /\ ReadAs(i)' = ReadAs(i)
    BY <1>1, <2>1, <2>2 DEF TaskTrue
  <2>4. TaskTrue(waiting, at)'
    BY <1>1, <2>1, <2>2, <2>3 DEF TaskTrue
  <2>5. (IsCall(waiting)' <=> IsCall(waiting)) /\ KindOfTask(waiting)' = KindOfTask(waiting)
    BY <2>1, <2>3 DEF IsCall, KindOfTask
  <2>6. QED
    BY <2>1, <2>4, <2>5
<1>4. \A k \in 1..Len(answers) : answers[k].line \in 1..Len(written)
  BY DEF BooksTrue, AnswerTrue
<1>5. OneTime(answers, tasks)'
  <2>1. \A k \in 1..Len(answers) : Small(answers[k].line)' <=> Small(answers[k].line)
    BY <1>1, <1>4
  <2>2. OneTime(answers, tasks)
    BY DEF BooksTrue
  <2>3. QED
    BY <2>1, <2>2 DEF OneTime
<1>6. AllSettled(answers, tasks, at)'
  <2>1. SUFFICES ASSUME NEW i \in 1..Len(written'), i < at, Small(i)', ReadAs(i)'.form # "blank"
                 PROVE  Settled(i, answers, tasks)'
    BY DEF AllSettled
  <2>2. i \in 1..Len(written) /\ ReadAs(i)' = ReadAs(i) /\ Small(i)
    <3>1. Len(written) \in Nat /\ Len(written') \in Nat
      BY DEF WrittenStays
    <3>2. i \in 1..Len(written)
      BY <2>1, <3>1
    <3>3. QED
      BY <1>1, <2>1, <3>2
  <2>3. Settled(i, answers, tasks)
    BY <2>1, <2>2 DEF BooksTrue, AllSettled
  <2>4. QED
    BY <2>2, <2>3 DEF Settled
<1>7. InTurn(answers, tasks)'
  <2>1. InTurn(answers, tasks)
    BY DEF BooksTrue
  <2>2. ASSUME NEW k \in 1..Len(tasks), NEW l \in 1..Len(tasks), k < l, (IsCall(tasks[k]) = IsCall(tasks[l]))'
        PROVE  /\ tasks[k].promises = tasks[l].promises => tasks[k].line < tasks[l].line
               /\ tasks[k].promises # tasks[l].promises => tasks[k].promises = 1 /\ tasks[l].line < tasks[k].line
    <3>1. IsCall(tasks[k]) = IsCall(tasks[l])
      <4>1. (IsCall(tasks[k])' <=> IsCall(tasks[k])) /\ (IsCall(tasks[l])' <=> IsCall(tasks[l]))
        BY <1>3
      <4>2. IsCall(tasks[k]) \in BOOLEAN /\ IsCall(tasks[l]) \in BOOLEAN /\ IsCall(tasks[k])' \in BOOLEAN /\ IsCall(tasks[l])' \in BOOLEAN
        BY DEF IsCall
      <4>3. QED
        BY <2>2, <4>1, <4>2
    <3>2. QED
      BY <2>1, <2>2, <3>1 DEF InTurn
  <2>3. ASSUME NEW k \in 1..Len(answers), NEW l \in 1..Len(tasks), Kind(answers[k]) = KindOfTask(tasks[l])'
        PROVE  answers[k].line < tasks[l].line
    BY <1>3, <2>1, <2>3 DEF InTurn
  <2>4. \A k, l \in 1..Len(answers) : k < l /\ Kind(answers[k]) = Kind(answers[l]) => answers[k].line <= answers[l].line
    BY <2>1 DEF InTurn
  <2>5. QED
    BY <2>2, <2>3, <2>4 DEF InTurn
<1>8. ASequence(answers) /\ ASequence(tasks)
  BY DEF BooksTrue
<1>9. QED
  BY <1>2, <1>3, <1>5, <1>6, <1>7, <1>8 DEF BooksTrue

LEMMA NextFacts ==
  ASSUME InputIsTrue
  PROVE  /\ InputEnd[1] \in Nat /\ InputEnd[1] <= Len(written) + 1
         /\ NextPiece[1] \in Nat /\ NextPiece[1] <= Len(written) + 1
<1>1. Len(written) \in Nat /\ pipe \in Seq(Nat \X Nat) /\ \A j \in 1..Len(pipe) : IsPiece(pipe[j])
  <2>1. written \in Seq(ClientLines) /\ pipe \in Seq(Nat \X Nat) /\ \A j \in 1..Len(pipe) : IsPiece(pipe[j])
    BY DEF InputIsTrue
  <2>2. QED
    BY <2>1
<1>e. InputEnd[1] \in Nat /\ InputEnd[1] <= Len(written) + 1
  <2>1. InputEnd = <<Len(written), 0>> \/ InputEnd = <<Len(written) + 1, 1>>
    BY DEF InputEnd
  <2>2. InputEnd[1] = Len(written) \/ InputEnd[1] = Len(written) + 1
    BY <2>1
  <2>3. QED
    BY <1>1, <2>2
<1>2. CASE pipe = <<>>
  BY <1>2, <1>e DEF NextPiece
<1>3. CASE pipe # <<>>
  <2>1. 1 \in 1..Len(pipe)
    BY <1>1, <1>3
  <2>2. pipe[1][1] \in 1..Len(written)
    BY <1>1, <2>1 DEF IsPiece
  <2>3. NextPiece = pipe[1]
    BY <1>3 DEF NextPiece
  <2>4. NextPiece[1] \in 1..Len(written)
    BY <2>2, <2>3
  <2>5. QED
    BY <1>1, <1>e, <2>4
<1>4. QED
  BY <1>2, <1>3, <1>e

(* What is neither read nor answered leaves the server's part as it is.    *)
LEMMA UnreadKeeps ==
  ASSUME McpInv, WrittenStays, InputIsTrue', NextPiece' = NextPiece, UNCHANGED <<buffer, cut, queue, output>>
  PROVE  McpInv'
<1>1. PICK next, kept, answers, tasks : next = NextPiece /\ kept = buffer /\ answers = output /\ tasks = queue
  OBVIOUS
<1>2. InputIsTrue /\ Len(buffer) <= MaxBytes /\ KeptTrue(kept, next) /\ BooksTrue(answers, tasks, next[1])
  BY <1>1 DEF McpInv
<1>3. next[1] \in Nat /\ next[1] <= Len(written) + 1
  BY <1>1, <1>2, NextFacts
<1>4. KeptTrue(kept, next)'
  BY <1>2, KeptStays
<1>r. ReadingsStay(next[1]) /\ CutTrue'
  BY ReadingsStayWhole DEF McpInv
<1>5. BooksTrue(answers, tasks, next[1])'
  BY <1>2, <1>3, <1>r, BooksStay
<1>6. kept = buffer' /\ answers = output' /\ tasks = queue' /\ next = NextPiece'
  BY <1>1
<1>7. KeptTrue(buffer, NextPiece)'
  BY <1>4, <1>6
<1>8. BooksTrue(output, queue, NextPiece[1])'
  BY <1>5, <1>6
<1>9. Len(buffer') <= MaxBytes
  BY <1>2
<1>10. QED
  BY <1>r, <1>7, <1>8, <1>9 DEF McpInv

(* A line, with its newline or without, is appended to what can be read. *)
Grown(line, i, t) ==
    /\ hungUp = "no" /\ written' = Append(written, line) /\ stopped' = stopped /\ pipe' = pipe \o t
    /\ i = Len(written) + 1 /\ t \in Seq(Nat \X Nat) /\ \A k \in 1..line.size : t[k] = <<i, k>>
    /\ \/ Len(t) = line.size /\ hungUp' = "in a line"
       \/ Len(t) = line.size + 1 /\ t[line.size + 1] = <<i, 0>> /\ hungUp' = "no"

LEMMA InputGrows ==
  ASSUME InputIsTrue, NEW line \in ClientLines, NEW i, NEW t, Grown(line, i, t)
  PROVE  WrittenStays /\ InputIsTrue' /\ NextPiece' = NextPiece
<1>1. PICK n, m, size : n = Len(pipe) /\ m = Len(t) /\ size = line.size
  OBVIOUS
<1>a. /\ written \in Seq(ClientLines) /\ pipe \in Seq(Nat \X Nat) /\ stopped \in BOOLEAN
      /\ \A j \in 1..Len(pipe) : IsPiece(pipe[j])
      /\ \A j \in 1..Len(pipe) : PieceAfter(pipe[j]) = IF j = Len(pipe) THEN InputEnd ELSE pipe[j + 1]
  BY DEF InputIsTrue
<1>b. /\ hungUp = "no" /\ written' = Append(written, line) /\ stopped' = stopped /\ pipe' = pipe \o t
      /\ i = Len(written) + 1 /\ t \in Seq(Nat \X Nat)
  BY DEF Grown
<1>6. /\ \A k \in 1..size : t[k] = <<i, k>>
      /\ \/ m = size /\ hungUp' = "in a line"
         \/ m = size + 1 /\ t[m] = <<i, 0>> /\ hungUp' = "no"
  BY <1>1 DEF Grown
<1>2. size \in Nat /\ size # 0 /\ (m = size \/ m = size + 1) /\ n \in Nat /\ i \in Nat /\ i # 0 /\ m \in Nat /\ m # 0
  <2>1. size \in Nat /\ size # 0
    BY <1>1, McpAssumption
  <2>2. n \in Nat /\ i \in Nat /\ i # 0
    <3>1. Len(written) \in Nat /\ Len(pipe) \in Nat
      BY <1>a
    <3>2. QED
      BY <1>1, <1>b, <3>1
  <2>3. m = size \/ m = size + 1
    BY <1>6
  <2>4. QED
    BY <2>1, <2>2, <2>3
<1>3. /\ written' \in Seq(ClientLines) /\ Len(written') = i /\ written'[i] = line
      /\ \A j \in 1..Len(written) : j \in 1..Len(written') /\ written'[j] = written[j]
  <2>1. written \in Seq(ClientLines) /\ line \in ClientLines
    BY <1>a
  <2>2. QED
    BY <1>b, <2>1
<1>4. WrittenStays
  <2>1. Len(written) \in Nat /\ Len(written) <= Len(written')
    <3>1. Len(written) \in Nat
      BY <1>a
    <3>2. QED
      BY <1>3, <1>b, <3>1
  <2>2. QED
    BY <1>3, <1>a, <2>1 DEF WrittenStays
<1>5. /\ pipe' \in Seq(Nat \X Nat) /\ Len(pipe') = n + m /\ \A j \in 1..n : pipe'[j] = pipe[j]
      /\ \A j \in 1..m : pipe'[n + j] = t[j]
  <2>1. PICK P, old, new : P = Nat \X Nat /\ old = pipe /\ new = pipe'
    OBVIOUS
  <2>2. old \in Seq(P) /\ t \in Seq(P) /\ new = old \o t /\ n = Len(old) /\ m = Len(t)
    BY <1>1, <1>a, <1>b, <2>1
  <2>3. new \in Seq(P) /\ Len(new) = n + m /\ (\A j \in 1..n : new[j] = old[j]) /\ \A j \in 1..m : new[n + j] = t[j]
    BY ONLY <2>2
  <2>4. QED
    BY <2>1, <2>3
<1>7. /\ InputEnd = <<i, 1>>
      /\ (m = size => InputEnd' = <<i, 0>>) /\ (m = size + 1 => InputEnd' = <<i + 1, 1>>)
      /\ hungUp' \in {"no", "in a line"}
  <2>1. InputEnd = <<i, 1>>
    BY <1>b DEF InputEnd
  <2>2. size # size + 1
    BY <1>2
  <2>3. QED
    BY <1>3, <1>6, <2>1, <2>2 DEF InputEnd
<1>c. \A k : k \in 1..size => t[k] = <<i, k>>
  BY <1>6
<1>d. m = size + 1 => t[m] = <<i, 0>>
  <2>1. size # size + 1
    BY <1>2
  <2>2. m = size \/ t[m] = <<i, 0>>
    BY <1>6
  <2>3. QED
    BY <2>1, <2>2
<1>8. \A k \in 0..size : /\ IsPiece(<<i, k>>)' /\ (k = 0 => (PieceAfter(<<i, k>>) = <<i + 1, 1>>)')
                         /\ (k = size => (PieceAfter(<<i, k>>) = <<i, 0>>)')
                         /\ (k # 0 /\ k # size => (PieceAfter(<<i, k>>) = <<i, k + 1>>)')
  <2>1. i \in 1..Len(written') /\ written'[i].size = size
    <3>1. i \in 1..i
      BY <1>2
    <3>2. QED
      BY <1>1, <1>3, <3>1
  <2>2. QED
    BY <1>2, <2>1 DEF IsPiece, PieceAfter
<1>9. ASSUME NEW j \in 1..n
      PROVE  IsPiece(pipe[j])' /\ PieceAfter(pipe[j])' = IF j = n + m THEN InputEnd' ELSE pipe'[j + 1]
  <2>1. PICK p : p = pipe[j] /\ p = pipe'[j]
    BY <1>5
  <2>2. IsPiece(p) /\ PieceAfter(p) = IF j = n THEN <<i, 1>> ELSE pipe[j + 1]
    BY <1>1, <1>7, <1>a, <2>1
  <2>3. IsPiece(p)' /\ PieceAfter(p)' = PieceAfter(p)
    BY <1>4, <2>2, PiecesStay
  <2>4. IF j = n THEN pipe'[j + 1] = <<i, 1>> ELSE pipe'[j + 1] = pipe[j + 1]
    <3>1. 1 \in 1..m /\ 1 \in 1..size /\ (j # n => j + 1 \in 1..n)
      BY <1>2
    <3>2. QED
      BY <1>5, <1>6, <3>1
  <2>5. j # n + m
    BY <1>2
  <2>6. QED
    BY <2>1, <2>2, <2>3, <2>4, <2>5
<1>10. ASSUME NEW k \in 1..m
       PROVE  IsPiece(pipe[n + k])' /\ PieceAfter(pipe[n + k])' = IF n + k = n + m THEN InputEnd' ELSE pipe'[(n + k) + 1]
  <2>1. pipe'[n + k] = t[k]
    BY <1>5
  <2>2. CASE k = m /\ m = size + 1
    <3>0. 0 \in 0..size
      BY <1>2
    <3>1. pipe'[n + k] = <<i, 0>> /\ InputEnd' = <<i + 1, 1>> /\ 0 \in 0..size
      BY <1>d, <1>7, <2>1, <2>2, <3>0
    <3>2. QED
      BY <1>8, <2>2, <3>1
  <2>3. CASE k = m /\ m = size
    <3>0. k \in 0..size /\ k \in 1..size
      BY <1>2, <2>3
    <3>1. pipe'[n + k] = <<i, k>> /\ InputEnd' = <<i, 0>>
      BY <1>c, <1>7, <2>1, <2>3, <3>0
    <3>2. QED
      BY <1>8, <2>3, <3>0, <3>1
  <2>4. CASE k # m
    <3>1. k \in 1..size /\ k \in 0..size /\ k + 1 \in 1..m /\ n + k # n + m /\ k # 0
      BY <1>2, <2>4
    <3>2. pipe'[n + k] = <<i, k>> /\ pipe'[n + (k + 1)] = t[k + 1] /\ n + (k + 1) = (n + k) + 1
      <4>1. pipe'[n + k] = <<i, k>> /\ pipe'[n + (k + 1)] = t[k + 1]
        BY <1>5, <1>c, <2>1, <3>1
      <4>2. n + (k + 1) = (n + k) + 1
        BY <1>2, <3>1
      <4>3. QED
        BY <4>1, <4>2
    <3>3. CASE k = size
      <4>1. m = size + 1 /\ k + 1 = m
        BY <1>2, <2>4, <3>1, <3>3
      <4>2. t[k + 1] = <<i, 0>>
        BY <1>d, <4>1
      <4>3. QED
        BY <1>8, <3>1, <3>2, <3>3, <4>2
    <3>4. CASE k # size
      <4>1. k + 1 \in 1..size
        BY <1>2, <3>1, <3>4
      <4>2. t[k + 1] = <<i, k + 1>>
        BY <1>c, <4>1
      <4>3. QED
        BY <1>8, <3>1, <3>2, <3>4, <4>2
    <3>5. QED
      BY <3>3, <3>4
  <2>5. QED
    BY <1>2, <2>2, <2>3, <2>4
<1>11. ASSUME NEW j \in 1..n + m
       PROVE  IsPiece(pipe[j])' /\ PieceAfter(pipe[j])' = IF j = n + m THEN InputEnd' ELSE pipe'[j + 1]
  <2>1. CASE j \in 1..n
    BY <1>9, <2>1
  <2>2. CASE j \notin 1..n
    <3>1. PICK k \in 1..m : j = n + k
      <4>1. j - n \in 1..m /\ j = n + (j - n)
        BY <1>2, <2>2
      <4>2. QED
        BY <4>1
    <3>2. QED
      BY <1>10, <3>1
  <2>3. QED
    BY <2>1, <2>2
<1>12. InputIsTrue'
  <2>1. Len(written') > 0
    BY <1>2, <1>3
  <2>2. \A j \in 1..Len(pipe') : IsPiece(pipe[j])'
    BY <1>5, <1>11
  <2>3. \A j \in 1..Len(pipe') : PieceAfter(pipe[j])' = IF j = Len(pipe') THEN InputEnd' ELSE pipe'[j + 1]
    BY <1>5, <1>11
  <2>4. written' \in Seq(ClientLines) /\ hungUp' \in {"no", "in a line"} /\ stopped' \in BOOLEAN /\ pipe' \in Seq(Nat \X Nat)
    BY <1>3, <1>5, <1>7, <1>a, <1>b
  <2>5. QED
    BY <2>1, <2>2, <2>3, <2>4 DEF InputIsTrue
<1>13. NextPiece' = NextPiece
  <2>1. pipe' # <<>> /\ NextPiece' = pipe'[1]
    <3>1. pipe' # <<>>
      BY <1>2, <1>5
    <3>2. QED
      BY <3>1 DEF NextPiece
  <2>2. CASE pipe = <<>>
    <3>1. n = 0 /\ 1 \in 1..m /\ 1 \in 1..size /\ 0 + 1 = 1
      BY <1>1, <1>2, <2>2
    <3>2. pipe'[1] = <<i, 1>>
      BY <1>5, <1>6, <3>1
    <3>3. QED
      BY <1>7, <2>1, <2>2, <3>2 DEF NextPiece
  <2>3. CASE pipe # <<>>
    <3>1. 1 \in 1..n
      BY <1>1, <1>2, <1>a, <2>3
    <3>2. QED
      BY <1>5, <2>1, <2>3, <3>1 DEF NextPiece
  <2>4. QED
    BY <2>2, <2>3
<1>14. QED
  BY <1>4, <1>12, <1>13

LEMMA WritingKeeps ==
  ASSUME McpInv, NEW line \in ClientLines, WriteLine(line) \/ HangUpInLine(line)
  PROVE  McpInv'
<1>1. PICK i, size, pieces : i = Len(written) + 1 /\ size = line.size /\ pieces = Pieces(i, line)
  OBVIOUS
<1>2. InputIsTrue /\ size \in Nat \ {0} /\ i \in Nat
  <2>1. InputIsTrue
    BY DEF McpInv
  <2>2. written \in Seq(ClientLines)
    BY <2>1 DEF InputIsTrue
  <2>3. QED
    BY <1>1, <2>1, <2>2, McpAssumption
<1>3. pieces \in Seq(Nat \X Nat) /\ Len(pieces) = size /\ \A k \in 1..size : pieces[k] = <<i, k>>
  <2>1. pieces = [k \in 1..size |-> <<i, k>>]
    BY <1>1 DEF Pieces
  <2>2. size \in Nat /\ \A k \in 1..size : <<i, k>> \in Nat \X Nat
    BY <1>2
  <2>3. QED
    BY ONLY <2>1, <2>2
<1>4. CASE WriteLine(line)
  <2>1. PICK t : t = Append(pieces, <<i, 0>>)
    OBVIOUS
  <2>2. t \in Seq(Nat \X Nat) /\ Len(t) = size + 1 /\ t[size + 1] = <<i, 0>> /\ \A k \in 1..size : t[k] = <<i, k>>
    <3>1. <<i, 0>> \in Nat \X Nat
      BY <1>2
    <3>2. QED
      BY <1>2, <1>3, <2>1, <3>1
  <2>3. /\ hungUp = "no" /\ hungUp' = "no" /\ written' = Append(written, line) /\ stopped' = stopped /\ pipe' = pipe \o t
        /\ UNCHANGED <<buffer, cut, queue, output>>
    BY <1>1, <1>4, <2>1 DEF WriteLine
  <2>5. WrittenStays /\ InputIsTrue' /\ NextPiece' = NextPiece
    <3>1. Grown(line, i, t)
      BY <1>1, <2>2, <2>3 DEF Grown
    <3>2. QED
      BY <1>2, <3>1, InputGrows
  <2>6. QED
    BY <2>3, <2>5, UnreadKeeps
<1>5. CASE HangUpInLine(line)
  <2>1. /\ hungUp = "no" /\ hungUp' = "in a line" /\ written' = Append(written, line) /\ stopped' = stopped
        /\ pipe' = pipe \o pieces /\ UNCHANGED <<buffer, cut, queue, output>>
    BY <1>1, <1>5 DEF HangUpInLine
  <2>3. WrittenStays /\ InputIsTrue' /\ NextPiece' = NextPiece
    <3>1. Grown(line, i, pieces)
      BY <1>1, <1>3, <2>1 DEF Grown
    <3>2. QED
      BY <1>2, <3>1, InputGrows
  <2>4. QED
    BY <2>1, <2>3, UnreadKeeps
<1>6. QED
  BY <1>4, <1>5

(* Where nothing is written, nothing changes about the lines. *)
LEMMA NothingWritten ==
  ASSUME InputIsTrue, written' = written
  PROVE  WrittenStays
<1>1. written \in Seq(ClientLines)
  BY DEF InputIsTrue
<1>2. Len(written) \in Nat
  BY <1>1
<1>3. QED
  BY <1>1, <1>2 DEF WrittenStays

LEMMA HangUpKeeps ==
  ASSUME McpInv, (HangUp \/ Stop \/ UNCHANGED mcpVars)
  PROVE  McpInv'
<1>1. /\ written' = written /\ pipe' = pipe /\ UNCHANGED <<buffer, cut, queue, output>>
      /\ stopped' = stopped \/ stopped' = TRUE
      /\ hungUp' = hungUp \/ (hungUp = "no" /\ hungUp' = "after a line")
  BY DEF HangUp, Stop, mcpVars
<1>2. InputIsTrue /\ WrittenStays
  BY <1>1, NothingWritten DEF McpInv
<1>3. InputEnd' = InputEnd
  BY <1>1 DEF InputEnd
<1>4. NextPiece' = NextPiece
  BY <1>1, <1>3 DEF NextPiece
<1>5. InputIsTrue'
  <2>1. ASSUME NEW j \in 1..Len(pipe)
        PROVE  IsPiece(pipe[j])' /\ PieceAfter(pipe[j])' = IF j = Len(pipe) THEN InputEnd' ELSE pipe'[j + 1]
    <3>1. PICK p : p = pipe[j] /\ p = pipe'[j]
      BY <1>1
    <3>2. IsPiece(p) /\ PieceAfter(p) = IF j = Len(pipe) THEN InputEnd ELSE pipe[j + 1]
      BY <1>2, <3>1 DEF InputIsTrue
    <3>3. IsPiece(p)' /\ PieceAfter(p)' = PieceAfter(p)
      BY <1>2, <3>2, PiecesStay
    <3>4. QED
      BY <1>1, <1>3, <3>1, <3>2, <3>3
  <2>2. /\ written' \in Seq(ClientLines) /\ hungUp' \in {"no", "after a line", "in a line"} /\ stopped' \in BOOLEAN
        /\ hungUp' = "in a line" => Len(written') > 0
        /\ pipe' \in Seq(Nat \X Nat)
    BY <1>1, <1>2 DEF InputIsTrue
  <2>3. \A j \in 1..Len(pipe') : IsPiece(pipe[j])' /\ PieceAfter(pipe[j])' = IF j = Len(pipe') THEN InputEnd' ELSE pipe'[j + 1]
    BY <1>1, <2>1
  <2>4. QED
    BY <2>2, <2>3 DEF InputIsTrue
<1>6. QED
  BY <1>1, <1>2, <1>4, <1>5, UnreadKeeps

LEMMA MicrotaskKeeps ==
  ASSUME McpInv, Microtask
  PROVE  McpInv'
<1>1. PICK next, kept, answers, tasks : next = NextPiece /\ kept = buffer /\ answers = output /\ tasks = queue
  OBVIOUS
<1>2. InputIsTrue /\ Len(kept) <= MaxBytes /\ KeptTrue(kept, next) /\ BooksTrue(answers, tasks, next[1]) /\ written \in Seq(ClientLines)
  BY <1>1 DEF McpInv, InputIsTrue
<1>3. next[1] \in Nat /\ next[1] <= Len(written) + 1
  BY <1>1, <1>2, NextFacts
<1>4. UNCHANGED <<written, pipe, buffer, cut, hungUp, stopped>> /\ tasks # <<>>
  BY <1>1 DEF Microtask
<1>5. WrittenStays
  BY <1>2, <1>4, NothingWritten
<1>6. InputIsTrue'
  BY <1>2, <1>4 DEF InputIsTrue, IsPiece, PieceAfter, InputEnd
<1>7. NextPiece' = NextPiece
  BY <1>4 DEF NextPiece, InputEnd
<1>8. PICK more, rest : more = output' /\ rest = queue'
  OBVIOUS
<1>9. BooksTrue(more, rest, next[1])
  <2>1. CASE Head(tasks).promises > 0
    <3>1. more = answers /\ rest = Append(Tail(tasks), [Head(tasks) EXCEPT !.promises = @ - 1])
      BY <1>1, <1>8, <2>1 DEF Microtask
    <3>2. QED
      BY <1>2, <1>4, <2>1, <3>1, BooksTurn
  <2>2. CASE ~(Head(tasks).promises > 0)
    <3>1. more = answers \o handleMessage(Head(tasks).line, ReadAs(Head(tasks).line)) /\ rest = Tail(tasks)
      BY <1>1, <1>8, <2>2 DEF Microtask
    <3>2. QED
      BY <1>2, <1>3, <1>4, <2>2, <3>1, BooksAnswer
  <2>3. QED
    BY <2>1, <2>2
<1>r. ReadingsStay(next[1]) /\ CutTrue'
  BY <1>4, <1>5, ReadingsStayWhole DEF McpInv
<1>10. BooksTrue(more, rest, next[1])' /\ KeptTrue(kept, next)'
  BY <1>2, <1>3, <1>5, <1>9, <1>r, BooksStay, KeptStays
<1>11. more = output' /\ rest = queue' /\ kept = buffer' /\ next = NextPiece'
  BY <1>1, <1>4, <1>7, <1>8
<1>12. BooksTrue(output, queue, NextPiece[1])' /\ KeptTrue(buffer, NextPiece)'
  BY <1>10, <1>11
<1>13. Len(buffer') <= MaxBytes
  BY <1>2, <1>11
<1>14. QED
  BY <1>r, <1>6, <1>12, <1>13 DEF McpInv

LEMMA OnDataKeeps ==
  ASSUME McpInv, NEW n \in 1..Len(pipe), OnData(n)
  PROVE  McpInv'
<1>1. PICK next, pushed : next = (IF n = Len(pipe) THEN InputEnd ELSE pipe[n + 1]) /\ pushed = push(SubSeq(pipe, 1, n))
  OBVIOUS
<1>2. /\ InputIsTrue /\ written \in Seq(ClientLines) /\ pipe \in Seq(Nat \X Nat)
      /\ \A j \in 1..Len(pipe) : IsPiece(pipe[j])
      /\ \A j \in 1..Len(pipe) : PieceAfter(pipe[j]) = IF j = Len(pipe) THEN InputEnd ELSE pipe[j + 1]
  BY DEF McpInv, InputIsTrue
<1>3. /\ buffer' = pushed.buffer /\ output' = pushed.output /\ queue' = pushed.queue
      /\ pipe' = SubSeq(pipe, n + 1, Len(pipe)) /\ UNCHANGED <<written, hungUp, stopped>> /\ queue = <<>>
  BY <1>1 DEF OnData
<1>4. PICK m, len : len = Len(pipe) /\ m = len - n
  OBVIOUS
<1>5. /\ n \in Nat /\ n >= 1 /\ len \in Nat /\ m \in Nat /\ n + m = len
      /\ pipe' \in Seq(Nat \X Nat) /\ Len(pipe') = m /\ \A j \in 1..m : n + j \in 1..len /\ pipe'[j] = pipe[n + j]
  <2>1. len \in Nat
    BY <1>2, <1>4
  <2>2. n \in Nat /\ n >= 1 /\ m \in Nat /\ n + m = len /\ \A j \in 1..m : n + j \in 1..len
    BY <1>4, <2>1
  <2>3. PICK old, new, P : old = pipe /\ new = pipe' /\ P = Nat \X Nat
    OBVIOUS
  <2>4. old \in Seq(P) /\ len = Len(old) /\ new = SubSeq(old, n + 1, len)
    BY <1>2, <1>3, <1>4, <2>3
  <2>5. new \in Seq(P) /\ Len(new) = m /\ \A j \in 1..m : new[j] = old[n + j]
    BY ONLY <2>2, <2>4
  <2>6. QED
    BY <2>1, <2>2, <2>3, <2>5
<1>6. WrittenStays
  BY <1>2, <1>3, NothingWritten
<1>7. InputEnd' = InputEnd
  BY <1>3 DEF InputEnd
<1>8. NextPiece' = next
  <2>1. CASE n = len
    <3>1. m = 0
      BY <1>5, <2>1
    <3>2. pipe' = <<>>
      BY <1>5, <3>1
    <3>3. QED
      BY <1>1, <1>4, <1>7, <2>1, <3>2 DEF NextPiece
  <2>2. CASE n # len
    <3>1. 1 \in 1..m
      BY <1>5, <2>2
    <3>2. pipe' # <<>>
      BY <1>5, <3>1
    <3>3. pipe'[1] = pipe[n + 1]
      BY <1>5, <3>1
    <3>4. QED
      BY <1>1, <1>4, <2>2, <3>2, <3>3 DEF NextPiece
  <2>3. QED
    BY <2>1, <2>2
<1>9. InputIsTrue'
  <2>1. ASSUME NEW j \in 1..m
        PROVE  IsPiece(pipe[j])' /\ PieceAfter(pipe[j])' = IF j = m THEN InputEnd' ELSE pipe'[j + 1]
    <3>1. PICK p : p = pipe[n + j] /\ p = pipe'[j]
      BY <1>5
    <3>2. IsPiece(p) /\ PieceAfter(p) = IF n + j = len THEN InputEnd ELSE pipe[(n + j) + 1]
      BY <1>2, <1>4, <1>5, <3>1
    <3>3. IsPiece(p)' /\ PieceAfter(p)' = PieceAfter(p)
      BY <1>6, <3>2, PiecesStay
    <3>4. (n + j = len <=> j = m) /\ (j # m => j + 1 \in 1..m /\ n + (j + 1) = (n + j) + 1)
      BY <1>5
    <3>5. j # m => pipe'[j + 1] = pipe[(n + j) + 1]
      BY <1>5, <3>4
    <3>6. QED
      BY <1>7, <3>1, <3>2, <3>3, <3>4, <3>5
  <2>2. /\ written' \in Seq(ClientLines) /\ hungUp' \in {"no", "after a line", "in a line"} /\ stopped' \in BOOLEAN
        /\ hungUp' = "in a line" => Len(written') > 0
    BY <1>2, <1>3 DEF InputIsTrue
  <2>3. \A j \in 1..Len(pipe') : IsPiece(pipe[j])' /\ PieceAfter(pipe[j])' = IF j = Len(pipe') THEN InputEnd' ELSE pipe'[j + 1]
    BY <1>5, <2>1
  <2>4. QED
    BY <1>5, <2>2, <2>3 DEF InputIsTrue
<1>10. KeptTrue(pushed.buffer, next) /\ BooksTrue(pushed.output, pushed.queue, next[1]) /\ Len(pushed.buffer) <= MaxBytes
  BY <1>1, <1>3, ChunkKeeps
<1>11. PICK kept, answers, tasks : kept = buffer' /\ answers = output' /\ tasks = queue'
  OBVIOUS
<1>12. KeptTrue(kept, next) /\ BooksTrue(answers, tasks, next[1]) /\ Len(kept) <= MaxBytes
  BY <1>3, <1>10, <1>11
<1>13. next[1] \in Nat /\ next[1] <= Len(written) + 1
  <2>1. CASE n = len
    BY <1>1, <1>2, <1>4, <2>1, NextFacts
  <2>2. CASE n # len
    <3>1. n + 1 \in 1..len /\ next = pipe[n + 1]
      BY <1>1, <1>4, <1>5, <2>2
    <3>2. next[1] \in 1..Len(written)
      BY <1>2, <1>4, <3>1 DEF IsPiece
    <3>3. Len(written) \in Nat
      BY <1>2
    <3>4. QED
      BY <3>2, <3>3
  <2>3. QED
    BY <2>1, <2>2
<1>c. CutTrue' /\ cut' = cut \cup {piece \in {pipe[n]} : InCharacter(piece)}
  <2>1. cut' = cut \cup {piece \in {pipe[n]} : InCharacter(piece)} /\ written' = written
    BY DEF OnData
  <2>2. CutTrue /\ IsPiece(pipe[n])
    BY <1>2 DEF McpInv
  <2>3. QED
    BY <2>1, <2>2 DEF CutTrue, InCharacter, IsPiece
<1>r. ReadingsStay(next[1])
  <2>1. SUFFICES ASSUME NEW i \in 1..Len(written), i < next[1] PROVE ReadAs(i)' = ReadAs(i)
    BY DEF ReadingsStay
  <2>2. PICK line, p : line = written[i] /\ p = pipe[n]
    OBVIOUS
  <2>3. written' = written /\ \A at : <<i, at>> \in cut' <=> <<i, at>> \in cut \/ (<<i, at>> = p /\ InCharacter(p))
    BY <1>3, <1>c, <2>2
  <2>4. ASSUME line \in DOMAIN Garbled, <<i, Garbled[line].at>> = p PROVE FALSE
    <3>1. PICK at : at = Garbled[line].at
      OBVIOUS
    <3>2. p[1] = i /\ p[2] = at /\ at \in 1..(line.size - 1)
      BY <2>4, <3>1, GarbledAssumption
    <3>3. line.size \in Nat \ {0}
      <4>1. line \in ClientLines
        BY <1>2, <2>2
      <4>2. QED
        BY <4>1, McpAssumption
    <3>4. p[2] # 0 /\ p[2] # line.size
      BY <3>2, <3>3
    <3>5. PieceAfter(p) = <<i, at + 1>>
      BY <2>2, <3>2, <3>4 DEF PieceAfter
    <3>6. PieceAfter(p) = next
      BY <1>1, <1>2, <2>2
    <3>7. next[1] = i
      BY <3>5, <3>6
    <3>8. QED
      BY <2>1, <3>7
  <2>5. line \in DOMAIN Garbled => (<<i, Garbled[line].at>> \in cut' <=> <<i, Garbled[line].at>> \in cut)
    BY <2>3, <2>4
  <2>6. QED
    BY <2>2, <2>3, <2>5 DEF ReadAs
<1>14. BooksTrue(answers, tasks, next[1])' /\ KeptTrue(kept, next)'
  BY <1>6, <1>12, <1>13, <1>r, BooksStay, KeptStays
<1>15. BooksTrue(output, queue, NextPiece[1])' /\ KeptTrue(buffer, NextPiece)'
  <2>1. kept = buffer' /\ answers = output' /\ tasks = queue' /\ next = NextPiece'
    BY <1>8, <1>11
  <2>2. QED
    BY <1>14, <2>1
<1>16. Len(buffer') <= MaxBytes
  BY <1>3, <1>10
<1>17. QED
  BY <1>c, <1>9, <1>15, <1>16 DEF McpInv

LEMMA McpInitInv == McpInit => McpInv
<1> SUFFICES ASSUME McpInit PROVE McpInv
  OBVIOUS
<1>1. /\ written = <<>> /\ pipe = <<>> /\ buffer = <<>> /\ cut = {} /\ queue = <<>> /\ output = <<>>
      /\ hungUp = "no" /\ stopped = FALSE
  BY DEF McpInit
<1>2. Len(<<>>) = 0 /\ <<>> \in Seq(ClientLines) /\ <<>> \in Seq(Nat \X Nat) /\ ASequence(<<>>) /\ 1..0 = {}
  <2>1. <<>> \in Seq(ClientLines)
    OBVIOUS
  <2>2. QED
    BY <2>1 DEF ASequence
<1>3. InputIsTrue
  BY <1>1, <1>2 DEF InputIsTrue
<1>4. NextPiece = <<1, 1>> /\ NextPiece[1] = 1 /\ NextPiece[2] = 1
  BY <1>1, <1>2 DEF NextPiece, InputEnd
<1>5. KeptTrue(buffer, NextPiece)
  BY <1>1, <1>2, <1>4 DEF KeptTrue
<1>6. BooksTrue(output, queue, NextPiece[1])
  BY <1>1, <1>2 DEF BooksTrue, OneTime, AllSettled, InTurn
<1>7. Len(buffer) <= MaxBytes
  BY <1>1, <1>2, McpAssumption
<1>8. QED
  BY <1>1, <1>3, <1>5, <1>6, <1>7 DEF McpInv, CutTrue

LEMMA McpNextInv == McpInv /\ [McpNext]_mcpVars => McpInv'
<1> SUFFICES ASSUME McpInv, [McpNext]_mcpVars PROVE McpInv'
  OBVIOUS
<1>1. ASSUME NEW line \in ClientLines, WriteLine(line) \/ HangUpInLine(line) PROVE McpInv'
  BY <1>1, WritingKeeps
<1>2. CASE HangUp \/ Stop \/ UNCHANGED mcpVars
  BY <1>2, HangUpKeeps
<1>3. CASE Microtask
  BY <1>3, MicrotaskKeeps
<1>4. ASSUME NEW n \in 1..Len(pipe), OnData(n) PROVE McpInv'
  BY <1>4, OnDataKeeps
<1>5. QED
  BY <1>1, <1>2, <1>3, <1>4 DEF McpNext

--------------------------------------------------------------------------------
(* What the clients rely on.                                               *)

(* A result is that of its method, or of its tool. *)
ToolSaid(a, line) ==
    /\ line.method = "tools/call" /\ line.name \in ToolNames
    /\ a.body = callTool(line.name, line.args) /\ callTool(line.name, line.args).error # TRUE

LEMMA ResultFacts ==
  ASSUME NEW i, NEW line, line.form \in {"request", "batch", "foreign"}, NEW a,
         <<a>> = handleMessage(i, line), a.code = "result"
  PROVE  (a.body = NoBody /\ line.method # "tools/call") \/ ToolSaid(a, line)
<1>1. ASSUME NEW id, NEW code, NEW body, <<a>> = <<Answer(i, id, code, body)>> PROVE a.code = code /\ a.body = body
  BY <1>1 DEF Answer
<1>2. CASE line.form # "request"
  <2>1. \E id : <<a>> = <<Answer(i, id, "INVALID_REQUEST", NoBody)>>
    BY <1>2 DEF handleMessage
  <2>2. QED
    BY <1>1, <2>1
<1>3. CASE line.form = "request" /\ line.id = Absent
  <2>1. <<a>> = <<>>
    BY <1>3 DEF handleMessage
  <2>2. Len(<<a>>) = 1 /\ Len(<<>>) = 0
    OBVIOUS
  <2>3. QED
    BY <2>1, <2>2
<1>4. CASE line.form = "request" /\ line.id # Absent
  <2>1. CASE line.method \in {"initialize", "ping", "tools/list"}
    <3>1. <<a>> = <<Answer(i, line.id, "result", NoBody)>>
      BY <1>4, <2>1 DEF handleMessage
    <3>2. QED
      BY <1>1, <2>1, <3>1
  <2>2. CASE line.method = "tools/call" /\ line.name \notin ToolNames
    <3>1. <<a>> = <<Answer(i, line.id, "INVALID_PARAMS", NoBody)>>
      BY <1>4, <2>2 DEF handleMessage
    <3>2. QED
      BY <1>1, <3>1
  <2>3. CASE line.method = "tools/call" /\ line.name \in ToolNames
    <3>1. PICK out : out = callTool(line.name, line.args)
      OBVIOUS
    <3>2. <<a>> = <<Answer(i, line.id, IF out.error THEN "isError" ELSE "result", out)>>
      BY <1>4, <2>3, <3>1 DEF handleMessage, Called
    <3>3. a.code = (IF out.error THEN "isError" ELSE "result") /\ a.body = out
      BY <1>1, <3>2
    <3>4. out.error # TRUE
      BY <3>3
    <3>5. QED
      BY <2>3, <3>1, <3>3, <3>4 DEF ToolSaid
  <2>4. CASE line.method \notin {"initialize", "ping", "tools/list", "tools/call"}
    <3>1. <<a>> = <<Answer(i, line.id, "METHOD_NOT_FOUND", NoBody)>>
      BY <1>4, <2>4 DEF handleMessage
    <3>2. QED
      BY <1>1, <3>1
  <2>5. QED
    BY <2>1, <2>2, <2>3, <2>4
<1>5. QED
  BY <1>2, <1>3, <1>4

LEMMA InvFacts ==
  ASSUME McpInv
  PROVE  /\ InputIsTrue /\ written \in Seq(ClientLines) /\ DOMAIN written = 1..Len(written) /\ Len(written) \in Nat
         /\ DOMAIN pipe = 1..Len(pipe) /\ DOMAIN buffer = 1..Len(buffer) /\ DOMAIN output = 1..Len(output)
         /\ DOMAIN queue = 1..Len(queue) /\ Len(output) \in Nat /\ Len(buffer) \in Nat
<1>1. InputIsTrue /\ written \in Seq(ClientLines) /\ pipe \in Seq(Nat \X Nat)
  BY DEF McpInv, InputIsTrue
<1>2. buffer \in Seq(Nat \X Nat)
  BY DEF McpInv, KeptTrue
<1>3. DOMAIN output = 1..Len(output) /\ DOMAIN queue = 1..Len(queue) /\ Len(output) \in Nat
  BY ListFacts DEF McpInv, BooksTrue
<1>4. DOMAIN written = 1..Len(written) /\ Len(written) \in Nat
  BY <1>1
<1>5. DOMAIN pipe = 1..Len(pipe)
  BY <1>1
<1>6. DOMAIN buffer = 1..Len(buffer) /\ Len(buffer) \in Nat
  BY <1>2
<1>7. QED
  BY <1>1, <1>3, <1>4, <1>5, <1>6

LEMMA TypesFollow == McpInv => McpTypeOK
<1> SUFFICES ASSUME McpInv PROVE McpTypeOK
  OBVIOUS
<1>1. InputIsTrue /\ written \in Seq(ClientLines) /\ DOMAIN written = 1..Len(written)
  BY InvFacts
<1>2. \A i \in DOMAIN pipe : pipe[i][1] \in DOMAIN written /\ pipe[i][2] \in 0..written[pipe[i][1]].size
  BY <1>1, InvFacts DEF InputIsTrue, IsPiece
<1>3. \A i \in DOMAIN buffer : buffer[i][2] # 0 /\ buffer[i][1] = buffer[1][1]
  <2>1. \A i \in 1..Len(buffer) : 1 \in 1..Len(buffer)
    BY InvFacts
  <2>2. \A i \in 1..Len(buffer) : buffer[i][2] # 0 /\ buffer[i][1] = NextPiece[1]
    BY DEF McpInv, KeptTrue
  <2>3. QED
    BY <2>1, <2>2, InvFacts
<1>4. \A i \in DOMAIN queue : Small(queue[i].line) /\ queue[i].promises \in 0..1
  <2>1. ASSUME NEW i \in 1..Len(queue) PROVE Small(queue[i].line) /\ queue[i].promises \in 0..1
    <3>1. TaskTrue(queue[i], NextPiece[1])
      BY DEF McpInv, BooksTrue
    <3>2. Promises(ReadAs(queue[i].line)) \in {0, 1} /\ queue[i].promises \in 0..Promises(ReadAs(queue[i].line))
      BY <1>1, <3>1, LineFacts DEF TaskTrue
    <3>3. queue[i].promises \in 0..1
      BY <3>2
    <3>4. QED
      BY <3>1, <3>3 DEF TaskTrue
  <2>2. QED
    BY <2>1, InvFacts
<1>5. \A i \in DOMAIN output : output[i].line \in DOMAIN written
  BY <1>1, InvFacts DEF McpInv, BooksTrue, AnswerTrue
<1>6. written \in Seq(ClientLines) /\ hungUp \in {"no", "after a line", "in a line"} /\ stopped \in BOOLEAN
  BY <1>1 DEF InputIsTrue
<1>7. \A piece \in cut : piece[1] \in DOMAIN written /\ InCharacter(piece)
  BY <1>1 DEF McpInv, CutTrue
<1>8. QED
  BY <1>2, <1>3, <1>4, <1>5, <1>6, <1>7 DEF McpTypeOK

(* Where the input goes on, every line before was ended. *)
LEMMA EndedBefore ==
  ASSUME McpInv, NEW i \in 1..Len(written)
  PROVE  (i < NextPiece[1] => Ended(i)) /\ (pipe = <<>> /\ Ended(i) => i < NextPiece[1])
<1>1. InputIsTrue /\ Len(written) \in Nat /\ i \in Nat /\ i <= Len(written)
  <2>1. InputIsTrue /\ Len(written) \in Nat
    BY InvFacts
  <2>2. QED
    BY <2>1
<1>2. CASE pipe = <<>>
  <2>1. NextPiece = InputEnd
    BY <1>2 DEF NextPiece
  <2>2. CASE hungUp = "in a line"
    <3>1. NextPiece[1] = Len(written)
      BY <2>1, <2>2 DEF InputEnd
    <3>2. i < NextPiece[1] <=> i < Len(written)
      BY <3>1
    <3>3. QED
      BY <1>1, <2>2, <3>2 DEF Ended
  <2>3. CASE hungUp # "in a line"
    <3>1. NextPiece[1] = Len(written) + 1
      BY <2>1, <2>3 DEF InputEnd
    <3>2. i < NextPiece[1]
      BY <1>1, <3>1
    <3>3. QED
      BY <1>1, <2>3, <3>2 DEF Ended
  <2>4. QED
    BY <2>2, <2>3
<1>3. CASE pipe # <<>>
  <2>1. 1 \in 1..Len(pipe)
    <3>1. pipe \in Seq(Nat \X Nat)
      BY <1>1 DEF InputIsTrue
    <3>2. QED
      BY <1>3, <3>1
  <2>2. NextPiece[1] \in 1..Len(written)
    BY <1>1, <1>3, <2>1 DEF NextPiece, InputIsTrue, IsPiece
  <2>3. i < NextPiece[1] => i < Len(written)
    BY <1>1, <2>2
  <2>4. QED
    BY <1>1, <1>3, <2>3 DEF Ended
<1>4. QED
  BY <1>2, <1>3

LEMMA OnceEachFollows == McpInv => AnsweredOnceEach
<1>s. \A i \in DOMAIN written : ReadAs(i) \in Readings(written[i])
  BY DEF ReadAs, Readings
<1> SUFFICES ASSUME McpInv, NEW i \in DOMAIN written, Small(i)
             PROVE  /\ Cardinality(AnswersTo(i)) <= (IF Expected(ReadAs(i)) /\ Ended(i) THEN 1 ELSE 0)
                    /\ \A k \in AnswersTo(i) : output[k].id = IdOf(ReadAs(i))
                    /\ pipe = <<>> /\ queue = <<>> /\ Expected(ReadAs(i)) /\ Ended(i) => Cardinality(AnswersTo(i)) = 1
  BY <1>s DEF AnsweredOnceEach
<1>1. i \in 1..Len(written) /\ DOMAIN output = 1..Len(output) /\ written \in Seq(ClientLines)
  BY InvFacts
<1>2. Understood(i) => Handled(i, ReadAs(i))
  BY <1>1, LineFacts
<1>3. BooksTrue(output, queue, NextPiece[1])
  BY DEF McpInv
<1>4. ASSUME NEW k \in AnswersTo(i) PROVE Expected(ReadAs(i)) /\ Ended(i) /\ output[k].id = IdOf(ReadAs(i))
  <2>1. k \in 1..Len(output) /\ output[k].line = i
    BY <1>1 DEF AnswersTo
  <2>2. AnswerTrue(output[k], NextPiece[1])
    BY <1>3, <2>1 DEF BooksTrue
  <2>3. Ended(i)
    <3>1. i < NextPiece[1]
      BY <2>1, <2>2 DEF AnswerTrue
    <3>2. QED
      BY <1>1, <3>1, EndedBefore
  <2>4. CASE output[k] = AtOnce(i, "PARSE") /\ ReadAs(i).form = "garbage"
    BY <2>3, <2>4 DEF AtOnce, Answer, Expected, IdOf
  <2>5. CASE <<output[k]>> = handleMessage(i, ReadAs(i)) /\ Understood(i)
    <3>1. handleMessage(i, ReadAs(i)) # <<>>
      <4>1. Len(<<output[k]>>) = 1 /\ Len(<<>>) = 0
        OBVIOUS
      <4>2. QED
        BY <2>5, <4>1
    <3>2. PICK a : Expected(ReadAs(i)) /\ handleMessage(i, ReadAs(i)) = <<a>> /\ AnswerOf(a, i, ReadAs(i))
      BY <1>2, <2>5, <3>1 DEF Handled
    <3>3. output[k] = a
      BY <2>5, <3>2
    <3>4. QED
      BY <2>3, <3>2, <3>3 DEF AnswerOf
  <2>6. QED
    BY <2>1, <2>2, <2>4, <2>5 DEF AnswerTrue
<1>5. \A k, l \in AnswersTo(i) : k = l
  <2>1. \A k \in AnswersTo(i) : k \in 1..Len(output) /\ output[k].line = i
    BY <1>1 DEF AnswersTo
  <2>2. QED
    BY <1>3, <2>1 DEF BooksTrue, OneTime
<1>6. AnswersTo(i) = {} \/ \E k : AnswersTo(i) = {k}
  BY <1>5
<1>7. Cardinality(AnswersTo(i)) = IF AnswersTo(i) = {} THEN 0 ELSE 1
  BY <1>6, FS_EmptySet, FS_Singleton
<1>8. ASSUME pipe = <<>>, queue = <<>>, Expected(ReadAs(i)), Ended(i) PROVE AnswersTo(i) # {}
  <2>1. i < NextPiece[1] /\ ReadAs(i).form # "blank"
    BY <1>1, <1>8, EndedBefore DEF Expected
  <2>2. Settled(i, output, queue)
    BY <1>1, <1>3, <2>1 DEF BooksTrue, AllSettled
  <2>3. Len(queue) = 0
    BY <1>8
  <2>4. ~(ReadAs(i).form # "garbage" /\ handleMessage(i, ReadAs(i)) = <<>>)
    <3>1. SUFFICES ASSUME ReadAs(i).form # "garbage", handleMessage(i, ReadAs(i)) = <<>> PROVE FALSE
      OBVIOUS
    <3>2. PICK a : handleMessage(i, ReadAs(i)) = <<a>>
      BY <1>2, <1>8, <2>1, <3>1 DEF Handled, Understood
    <3>3. Len(<<a>>) = 1 /\ Len(<<>>) = 0
      OBVIOUS
    <3>4. QED
      BY <3>1, <3>2, <3>3
  <2>5. PICK k \in 1..Len(output) : output[k].line = i
    BY <2>2, <2>3, <2>4 DEF Settled
  <2>6. QED
    BY <1>1, <2>5 DEF AnswersTo
<1>9. QED
  BY <1>4, <1>7, <1>8

LEMMA OversizeFollows == McpInv => OversizeNeverRuns
<1> SUFFICES ASSUME McpInv, NEW k \in DOMAIN output, ~Small(output[k].line)
             PROVE  output[k].code \in {"TOO_LARGE", "PARSE"} /\ output[k].id = Absent
  BY DEF OversizeNeverRuns
<1>1. PICK i : i = output[k].line
  OBVIOUS
<1>2. AnswerTrue(output[k], NextPiece[1])
  BY InvFacts DEF McpInv, BooksTrue
<1>3. \E code \in {"TOO_LARGE", "PARSE"} : output[k] = AtOnce(i, code)
  BY <1>1, <1>2 DEF AnswerTrue
<1>4. QED
  BY <1>3 DEF AtOnce, Answer

LEMMA OrderFollows == McpInv => KindsInOrder
BY InvFacts DEF McpInv, BooksTrue, InTurn, KindsInOrder

(* The message that a result answers. *)
LEMMA ResultOf ==
  ASSUME McpInv, NEW k \in DOMAIN output, output[k].code = "result", NEW i, i = output[k].line
  PROVE  /\ ReadAs(i).form \in {"request", "batch", "foreign"} /\ <<output[k]>> = handleMessage(i, ReadAs(i))
         /\ ReadAs(i) \in Readings(written[i]) /\ ReadAs(i).method = written[i].method /\ ReadAs(i).name = written[i].name
<1>1. AnswerTrue(output[k], NextPiece[1]) /\ written \in Seq(ClientLines)
  BY InvFacts DEF McpInv, BooksTrue
<1>2. \A code \in {"TOO_LARGE", "PARSE"} : output[k] # AtOnce(i, code)
  BY DEF AtOnce, Answer
<1>3. i \in 1..Len(written) /\ <<output[k]>> = handleMessage(i, ReadAs(i)) /\ Understood(i)
  BY <1>1, <1>2 DEF AnswerTrue
<1>4. ReadAs(i).form \in {"request", "batch", "foreign"} /\ ReadAs(i) \in Readings(written[i])
  BY <1>1, <1>3, LineFacts DEF Understood
<1>5. QED
  BY <1>3, <1>4, ReadingFacts

LEMMA LookupFollows == McpInv => LookupHonest
<1> SUFFICES ASSUME McpInv, NEW k \in DOMAIN output, IsLookup(k)
             PROVE  \E text \in Readings(written[output[k].line]) :
                        output[k].id = text.id /\ LookupRight(output[k].body, text.args)
  BY DEF LookupHonest, LookupRight, WantedRecords
<1>1. PICK i, body, line : i = output[k].line /\ body = output[k].body /\ line = ReadAs(i)
  OBVIOUS
<1>2. /\ line.form \in {"request", "batch", "foreign"} /\ <<output[k]>> = handleMessage(i, line)
      /\ line \in Readings(written[i]) /\ line.method = "tools/call" /\ line.name = "lookup_server"
      /\ output[k].code = "result"
  BY <1>1, ResultOf DEF IsLookup
<1>3. body = callTool("lookup_server", line.args) /\ callTool("lookup_server", line.args).error # TRUE
  <2>1. PICK a : a = output[k] /\ a.code = "result" /\ a.body = body
    BY <1>1, <1>2
  <2>2. <<a>> = handleMessage(i, line)
    BY <1>2, <2>1
  <2>3. ToolSaid(a, line)
    BY <1>2, <2>1, <2>2, ResultFacts
  <2>4. QED
    BY <1>2, <2>1, <2>3 DEF ToolSaid
<1>4. callTool("lookup_server", line.args) = lookupServer(line.args)
  BY DEF callTool
<1>5. output[k].id = line.id
  <2>1. PICK a : a = output[k] /\ <<a>> = handleMessage(i, line)
    BY <1>2
  <2>2. handleMessage(i, line) # <<>>
    <3>1. Len(<<a>>) = 1 /\ Len(<<>>) = 0
      OBVIOUS
    <3>2. QED
      BY <2>1, <3>1
  <2>3. PICK b : handleMessage(i, line) = <<b>> /\ AnswerOf(b, i, line)
    BY <1>2, <2>2, HandleFacts DEF Handled
  <2>4. a = b /\ a.id = IdOf(line)
    BY <2>1, <2>3 DEF AnswerOf
  <2>5. line.form # "batch"
    <3>1. SUFFICES ASSUME line.form = "batch" PROVE FALSE
      OBVIOUS
    <3>2. handleMessage(i, line) = <<Answer(i, Absent, "INVALID_REQUEST", NoBody)>>
      BY <3>1 DEF handleMessage
    <3>3. a.code = "INVALID_REQUEST"
      BY <2>1, <3>2 DEF Answer
    <3>4. QED
      BY <1>2, <2>1, <3>3
  <2>6. QED
    BY <1>2, <2>1, <2>4, <2>5 DEF IdOf
<1>6. LookupRight(body, line.args)
  BY <1>3, <1>4, LookupFacts
<1>7. QED
  BY <1>1, <1>2, <1>5, <1>6

LEMMA CoverageFollows == McpInv => CoverageNotices
<1> SUFFICES ASSUME McpInv, NEW k \in DOMAIN output, NEW body, body = output[k].body, output[k].code = "result",
                    written[output[k].line].name = "coverage_report", body # NoBody
             PROVE  /\ body.problems >= Cardinality({i \in DOMAIN Records : Contradicts(Records[i])})
                    /\ body.completedRuns <= body.requiredRuns
                    /\ body.states["complete"] + body.states["incomplete"] + body.states["absent"] = Len(Records)
  BY DEF CoverageNotices
<1>1. PICK i, line : i = output[k].line /\ line = ReadAs(i)
  OBVIOUS
<1>2. /\ line.form \in {"request", "batch", "foreign"} /\ <<output[k]>> = handleMessage(i, line)
      /\ line.name = "coverage_report"
  BY <1>1, ResultOf
<1>3. body = callTool("coverage_report", line.args) /\ callTool("coverage_report", line.args).error # TRUE
  <2>1. PICK a : a = output[k] /\ a.code = "result" /\ a.body = body
    OBVIOUS
  <2>2. <<a>> = handleMessage(i, line)
    BY <1>2, <2>1
  <2>3. ToolSaid(a, line)
    BY <1>2, <2>1, <2>2, ResultFacts
  <2>4. line.name = "coverage_report"
    BY <1>2
  <2>5. QED
    BY <2>1, <2>3, <2>4 DEF ToolSaid
<1>4. callTool("coverage_report", line.args) = coverageReport
  BY DEF callTool
<1>5. Records # NotLoaded /\ body = computeCoverage(Records)
  <2>1. Throws("no evidence index is loaded").error = TRUE
    BY DEF Throws
  <2>2. coverageReport.error # TRUE /\ body = coverageReport
    BY <1>3, <1>4
  <2>3. QED
    BY <2>1, <2>2 DEF coverageReport
<1>6. TalliedRight(body, Len(Records))
  BY <1>5, CoverageFacts
<1>7. ContradictsUpTo(Len(Records)) = {j \in DOMAIN Records : Contradicts(Records[j])}
  BY <1>5, RecordsAssumption DEF ContradictsUpTo
<1>8. QED
  BY <1>6, <1>7 DEF TalliedRight

(***************************************************************************)
(* However the pipe cuts what the client writes, and wherever the client   *)
(* goes away: answers are right and in order (createLineReader, onData,    *)
(* answer and the tools of packages/mcp).                                  *)
(***************************************************************************)
THEOREM AnswersAreAlwaysRight == McpSpec => []AnswersAreRight
<1>1. McpInit => McpInv
  BY McpInitInv
<1>2. McpInv /\ [McpNext]_mcpVars => McpInv'
  BY McpNextInv
<1>3. McpInv => AnswersAreRight
  BY TypesFollow, OnceEachFollows, OversizeFollows, OrderFollows, LookupFollows, CoverageFollows
  DEF AnswersAreRight, BufferBounded, McpInv
<1>4. QED
  BY <1>1, <1>2, <1>3, PTL DEF McpSpec
================================================================================
