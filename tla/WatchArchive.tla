------------------------------ MODULE WatchArchive ------------------------------
(***************************************************************************)
(* agentgate watch: one chained line per capture of a tool list, and its   *)
(* projection under its own digest: packages/watch/src/watch.mjs and       *)
(* watchCommand of bin/agentgate.mjs.                                      *)
(*                                                                         *)
(* A projection is a bag of rows, [identity, content]; a digest is         *)
(* injective, so a projection is its own digest, and the hash of a line,   *)
(* which commits to the line before it, is the sequence of what was        *)
(* recorded up to it.  A kill may come between any two steps, and in a     *)
(* write.                                                                  *)
(***************************************************************************)
EXTENDS Integers, FiniteSets, Sequences, SequencesExt

CONSTANTS
    Projections,  \* what the reports of the lists may come to
    Rows,         \* the rows of the projections
    TornText,     \* a file or a line that was not written to its end
    MaxLineCount, \* bound: lines of watch.jsonl
    MaxMishaps    \* bound: kills and prunings

Hash == Seq(Projections)
WatchLine == [snapshot : Projections, prev : Hash]

ASSUME WatchAssumption ==
    /\ \A p \in Projections : p \in [Rows -> Nat]
    /\ TornText \notin Projections \cup WatchLine /\ MaxLineCount \in Nat /\ MaxMishaps \in Nat

VARIABLES
    lines,        \* watch.jsonl, as it was written
    ending,       \* of its last line: "whole", "unended" (no newline), or "glued" to the one before
    snapshots,    \* snapshots/, by digest
    run,          \* the command that is running
    said,         \* what the last command said of the change, and of what
    pushes,       \* digests whose summary was sent to the webhook
    pruned,       \* snapshots that were removed by hand
    mishaps

watchVars == <<lines, ending, snapshots, run, said, pushes, pruned, mishaps>>

NoProjection == [r \in Rows |-> 0]
NoRun == [step |-> "idle", now |-> NoProjection, prev |-> <<>>, first |-> FALSE, before |-> <<>>]
Nothing == [words |-> "nothing", now |-> NoProjection, at |-> 0]
Put(map, key, value) == [k \in DOMAIN map \cup {key} |-> IF k = key THEN value ELSE map[k]]

WatchInit ==
    /\ lines = <<>> /\ ending = "whole" /\ snapshots = <<>> /\ run = NoRun /\ said = Nothing
    /\ pushes = {} /\ pruned = {} /\ mishaps = 0

(***************************************************************************)
(* diffProjections and summarize.                                          *)
(***************************************************************************)
Identities(p) == {r.identity : r \in {row \in Rows : p[row] > 0}}
Group(p, id) == {<<r, p[r]>> : r \in {row \in Rows : row.identity = id /\ p[row] > 0}}

diffProjections(previous, current) ==
    [added |-> Identities(current) \ Identities(previous),
     removed |-> Identities(previous) \ Identities(current),
     changed |-> {id \in Identities(current) \cap Identities(previous) :
                    Group(current, id) # Group(previous, id)}]

summarize(first, before, current) ==
    IF first THEN "first"
    ELSE IF before = <<>> THEN "cannot compare"
    ELSE LET d == diffProjections(before[1], current)
         IN  IF d.added \cup d.removed \cup d.changed = {} THEN "no change" ELSE "changes"

(***************************************************************************)
(* appendWatch.                                                            *)
(***************************************************************************)
(* hashOfLine.  The first line has prev null, the empty hash. *)
HashOf(line) == Append(line.prev, line.snapshot)
PrevAt(i) == IF i = 1 THEN <<>> ELSE HashOf(lines[i - 1])
Unreadable == ending = "glued" \/ \E i \in DOMAIN lines : lines[i] = TornText

(* A line that does not parse ends the command before anything is written. *)
Begin(current) ==
    /\ run.step = "idle" /\ Len(lines) < MaxLineCount /\ ~Unreadable
    /\ LET last == Len(lines)
           kept == last > 0 /\ lines[last].snapshot \in DOMAIN snapshots
                   /\ snapshots[lines[last].snapshot] # TornText
       IN  run' = [step |-> "snapshot", now |-> current, first |-> last = 0,
                   prev |-> PrevAt(last + 1),
                   before |-> IF kept THEN <<snapshots[lines[last].snapshot]>> ELSE <<>>]
    /\ UNCHANGED <<lines, ending, snapshots, said, pushes, pruned, mishaps>>

(* Mutant: the line goes first. *)
MutWriteSnapshot ==
    /\ run.step = "snapshot" /\ run' = [run EXCEPT !.step = "line"]
    /\ UNCHANGED <<lines, ending, snapshots, said, pushes, pruned, mishaps>>

(* A file that is there is taken for the projection of its name. *)
WriteSnapshot ==
    /\ run.step = "snapshot" /\ run' = [run EXCEPT !.step = "line"]
    /\ snapshots' = IF run.now \in DOMAIN snapshots THEN snapshots ELSE Put(snapshots, run.now, run.now)
    /\ UNCHANGED <<lines, ending, said, pushes, pruned, mishaps>>

Entry == [snapshot |-> run.now, prev |-> run.prev]

(* What is appended to a line without a newline becomes part of it. *)
EndingOf(written) == IF ending = "unended" THEN "glued" ELSE written

AppendLine ==
    /\ run.step = "line" /\ lines' = Append(lines, Entry) /\ ending' = EndingOf("whole")
    /\ said' = [words |-> summarize(run.first, run.before, run.now), now |-> run.now, at |-> Len(lines) + 1]
    /\ run' = [run EXCEPT !.step = "push"]
    /\ UNCHANGED <<snapshots, pushes, pruned, mishaps>>

(***************************************************************************)
(* watchCommand: the archive is written before the push, which may fail.   *)
(***************************************************************************)
Push ==
    /\ run.step = "push" /\ run' = NoRun
    /\ pushes' \in {pushes, pushes \cup {run.now}}
    /\ UNCHANGED <<lines, ending, snapshots, said, pruned, mishaps>>

Mishap == mishaps < MaxMishaps /\ mishaps' = mishaps + 1

Kill ==
    /\ Mishap /\ run.step # "idle" /\ run' = NoRun
    /\ UNCHANGED <<lines, ending, snapshots, said, pushes, pruned>>

KillInSnapshot ==
    /\ Mishap /\ run.step = "snapshot" /\ run.now \notin DOMAIN snapshots /\ run' = NoRun
    /\ snapshots' = Put(snapshots, run.now, TornText)
    /\ UNCHANGED <<lines, ending, said, pushes, pruned>>

KillInLine ==
    /\ Mishap /\ run.step = "line" /\ run' = NoRun
    /\ lines' = Append(lines, TornText)
    /\ UNCHANGED <<ending, snapshots, said, pushes, pruned>>

(* All of the line was written but its newline: it can be read, and the    *)
(* next one is glued to it.                                                *)
KillBeforeNewline ==
    /\ Mishap /\ run.step = "line" /\ run' = NoRun
    /\ lines' = Append(lines, Entry) /\ ending' = EndingOf("unended")
    /\ UNCHANGED <<snapshots, said, pushes, pruned>>

(* Dropping old snapshots is a storage decision. *)
PruneSnapshot(name) ==
    /\ Mishap /\ run.step = "idle"
    /\ snapshots' = [k \in DOMAIN snapshots \ {name} |-> snapshots[k]]
    /\ pruned' = pruned \cup {name}
    /\ UNCHANGED <<lines, ending, run, said, pushes>>

WatchNext ==
    \/ \E current \in Projections : Begin(current)
    \/ WriteSnapshot \/ AppendLine \/ Push
    \/ Kill \/ KillInSnapshot \/ KillInLine \/ KillBeforeNewline
    \/ \E name \in DOMAIN snapshots : PruneSnapshot(name)

WatchSpec == WatchInit /\ [][WatchNext]_watchVars

(***************************************************************************)
(* verifyWatch.                                                            *)
(***************************************************************************)
LineProblems(i) ==
    LET line == lines[i]
    IN  (IF line.prev # PrevAt(i) THEN {"chain"} ELSE {})
        \cup (IF line.snapshot \notin DOMAIN snapshots THEN {"pruned"}
              ELSE IF snapshots[line.snapshot] # line.snapshot THEN {"snapshot"} ELSE {})

(* It does not get past a line that does not parse. *)
verifyWatch ==
    IF Unreadable THEN {"unreadable"} ELSE UNION {LineProblems(i) : i \in DOMAIN lines}

--------------------------------------------------------------------------------
(* What an archive of captures is worth.                                   *)

(***************************************************************************)
(* Types; a torn line is the last one, nothing is appended after it, and a *)
(* line is glued to another at most once.                                  *)
(***************************************************************************)
WatchTypeOK ==
    /\ \A i \in DOMAIN lines : lines[i] = TornText \/ lines[i].snapshot \in Projections
    /\ \A i \in 1..Len(lines) - 1 : lines[i] # TornText
    /\ ending \in {"whole", "unended", "glued"} /\ (ending # "whole" => lines # <<>>)
    /\ \A k \in DOMAIN snapshots : k \in Projections /\ snapshots[k] \in {k, TornText}
    /\ run.step \in {"idle", "snapshot", "line", "push"} /\ run.now \in Projections \cup {NoProjection}
    /\ said.words \in {"nothing", "first", "no change", "changes", "cannot compare"}
    /\ pushes \subseteq Projections /\ pruned \subseteq Projections /\ mishaps \in 0..MaxMishaps

(***************************************************************************)
(* Whatever was killed and pruned, the chain of the lines that can be read *)
(* holds; and where nothing was, verify finds nothing.                     *)
(***************************************************************************)
WatchChainHolds ==
    /\ ~Unreadable => "chain" \notin verifyWatch
    /\ mishaps = 0 => verifyWatch = {}

(***************************************************************************)
(* A line names a snapshot that was written before it: only a pruning, and *)
(* no crash, leaves a line without its snapshot, so that "pruned" in the   *)
(* report of verify is the truth.                                          *)
(***************************************************************************)
LineHasItsSnapshot ==
    \A i \in DOMAIN lines :
        lines[i] # TornText => lines[i].snapshot \in DOMAIN snapshots \cup pruned

(***************************************************************************)
(* "No change" is only said of a list whose projection is, row by row and  *)
(* copy by copy, the one archived just before, and "changes" never of such *)
(* a list.  (watch.mjs: it says so "instead of printing "no changes",      *)
(* which would read as "verified"")                                        *)
(***************************************************************************)
NoChangeIsTrue ==
    said.words \in {"no change", "changes"} =>
        /\ said.at > 1
        /\ (said.words = "no change") <=> (lines[said.at - 1].snapshot = said.now)

(***************************************************************************)
(* What was pushed to a chat is in the archive, also after a crash (on a   *)
(* line that cannot be read, if it was glued to the one before).           *)
(***************************************************************************)
PushedIsArchived ==
    \A p \in pushes : \E i \in DOMAIN lines : lines[i] # TornText /\ lines[i].snapshot = p

(* The archive of captures is true whatever was killed and pruned: its     *)
(* chain holds, each line has its snapshot, "no change" is said of the     *)
(* same list, and what was pushed is there.                                *)
WatchIsTrue == WatchTypeOK /\ WatchChainHolds /\ LineHasItsSnapshot /\ NoChangeIsTrue /\ PushedIsArchived
================================================================================
