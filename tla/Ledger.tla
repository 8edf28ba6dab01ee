--------------------------------- MODULE Ledger ---------------------------------
(***************************************************************************)
(* The chained record of captures, packages/history/src/ledger.mjs: what a *)
(* line is, what it is referenced by, and what verifyLedger says.          *)
(*                                                                         *)
(* SHA-256 is modelled as injective.  An index version is its own digest;  *)
(* the hash of a line, computed over its bytes, commits to the line before *)
(* it through prev, so it is the sequence of all the captures up to it.    *)
(***************************************************************************)
EXTENDS Naturals, Sequences

CONSTANTS
    Versions,     \* contents data/index.json can have
    CountsOf,     \* version -> its records and counts, as countsOf computes them
    Torn,         \* the content of a file whose write was cut short
    NoFile,       \* a path with no file
    TornLine      \* a line of the ledger whose append was cut short

Digest == Versions \cup {Torn}
File == Digest \cup {NoFile}
Capture == [day : Nat, sha : Digest, counts : Nat]
Hash == Seq(Capture)
Line == [capture : Capture, prev : Hash]

ASSUME LedgerAssumption ==
    /\ Torn \notin Versions /\ NoFile \notin Versions /\ Torn # NoFile
    /\ TornLine \notin Line
    /\ CountsOf \in [Versions -> Nat]

(* hashOfLine.  The first line of a ledger has prev null, the empty hash.  *)
HashOf(line) == Append(line.prev, line.capture)

(* Mutant of LastHash: prev is taken from the first line. *)
MutLastHash(ledger) == IF ledger = <<>> THEN <<>> ELSE HashOf(ledger[1])

(* The prev appendCapture gives to the line it appends to these. *)
LastHash(ledger) == IF ledger = <<>> THEN <<>> ELSE HashOf(ledger[Len(ledger)])

(* readLedger parses every line, so one torn line makes it throw. *)
Readable(ledger) == \A i \in DOMAIN ledger : ledger[i] # TornLine

(* daily-snapshot.mjs: nothing is recorded when the last line has this day *)
(* and this digest.                                                        *)
Unchanged(ledger, day, sha) ==
    /\ ledger # <<>>
    /\ ledger[Len(ledger)].capture.day = day
    /\ ledger[Len(ledger)].capture.sha = sha

(* verifyLedger, line by line: is prev the hash of the line before; is the *)
(* retained snapshot what was recorded, is it readable, and does it have   *)
(* the counts on the line.  A snapshot that is gone is not a problem.      *)
ChainBreaks(ledger) ==
    {i \in DOMAIN ledger : ledger[i].prev # IF i = 1 THEN <<>> ELSE HashOf(ledger[i - 1])}
EvidenceProblems(ledger, snapshots) ==
    {i \in DOMAIN ledger :
        LET recorded == ledger[i].capture
            retained == snapshots[recorded.sha]
        IN  /\ retained # NoFile
            /\ \/ retained # recorded.sha
               \/ retained = Torn
               \/ CountsOf[retained] # recorded.counts}
===============================================================================
