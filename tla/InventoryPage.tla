----------------------------- MODULE InventoryPage -----------------------------
(***************************************************************************)
(* The inventory page: site/inventory-page.mjs over Inventory.             *)
(*                                                                         *)
(* Everything is an event handler and runs to its end, but for the reading *)
(* of a file, whose text comes later: other events may be handled between. *)
(***************************************************************************)
EXTENDS Inventory

CONSTANTS
    PageIndexes,  \* indexes the page may have been built with
    Texts,        \* texts a user may type, as the lines in them; <<>> is empty
    Files,        \* [text, fits]: files a user may choose
    Versions,     \* what may be typed as a version
    MaxEvents     \* bound: events of the user

ASSUME PageAssumption == <<>> \in Texts /\ MaxEvents \in Nat /\ Nil \notin PageIndexes

(* A text is a sequence of lines; they are trimmed and the empty ones are  *)
(* dropped, so that a line that is a name has one.                         *)
GoodText(text) ==
    /\ Len(text) \in Nat /\ DOMAIN text = 1..Len(text)
    /\ \A i \in DOMAIN text : text[i].form \in {"plain", "npm", "qualified"} => text[i].name # Nil

ASSUME TextAssumption == \A text \in Texts \cup {file.text : file \in Files} : text = Bad \/ GoodText(text)

VARIABLES
    pageIndex,    \* the index of the page, or Nil
    input,        \* the text of the list
    reading,      \* files being read: [file, revision, input]
    revision,
    entries, selections, report,
    reportHtml,   \* the preview
    demonstration,
    events

pageVars == <<pageIndex, input, reading, revision, entries, selections, report, reportHtml, demonstration, events>>

ExampleText ==
    LET named == SelectSeq(pageIndex.records, LAMBDA r : \E p \in r.packages : p.name # Nil)
        Plain(name) == [form |-> "object", name |-> name, server |-> Nil, package |-> Nil, registry |-> Nil, version |-> Nil]
    IN  <<IF named = <<>> THEN Plain("demo/example-tool")
          ELSE [Plain(named[1].server) EXCEPT !.version = (CHOOSE p \in named[1].packages : p.name # Nil).version],
          Plain("demo/not-in-this-directory")>>

(* null, in the code: no list was compared. *)
NoReport == [list |-> [items |-> <<>>, matched |-> 0, needsAttention |-> 0], demonstration |-> FALSE]

PageInit ==
    /\ pageIndex \in PageIndexes \cup {Nil} /\ input = <<>> /\ reading = {} /\ revision = 0
    /\ entries = <<>> /\ selections = <<>> /\ report = NoReport /\ reportHtml = NoReport
    /\ demonstration = FALSE /\ events = 0

Event == events < MaxEvents /\ events' = events + 1

(* The preview goes with every change of what it was made of; the results  *)
(* go with a change of the list.                                           *)
invalidatePreview == reportHtml' = NoReport
Forget == revision' = revision + 1 /\ invalidatePreview

invalidateInput == Forget /\ entries' = <<>> /\ selections' = <<>> /\ report' = NoReport

Rebuilt(someEntries, someSelections) ==
    [list |-> createInventoryReport(someEntries, pageIndex, someSelections), demonstration |-> demonstration]

--------------------------------------------------------------------------------
SubmitPage ==
    /\ Event /\ pageIndex # Nil /\ Forget
    /\ LET parsed == parseInventory(input)
           good == parsed # Bad /\ parsed # <<>>
           none == [i \in DOMAIN parsed |-> Nil]
       IN  /\ entries' = IF good THEN parsed ELSE <<>>
           /\ selections' = IF good THEN none ELSE <<>>
           /\ report' = IF good THEN Rebuilt(parsed, none) ELSE NoReport
    /\ UNCHANGED <<pageIndex, input, reading, demonstration>>

TypeInput(text) ==
    /\ Event /\ text # input /\ input' = text /\ invalidateInput
    /\ UNCHANGED <<pageIndex, reading, demonstration>>

(* A file of another kind or too large is refused before it is read. *)
ChooseFile(file) ==
    /\ Event /\ invalidateInput
    /\ reading' = IF file.fits THEN reading \cup {[file |-> file, revision |-> revision + 1, input |-> input]} ELSE reading
    /\ UNCHANGED <<pageIndex, input, demonstration>>

(* Mutant: the text of a file is taken whenever it comes. *)
MutFileRead(read) ==
    /\ reading' = reading \ {read} /\ input' = read.file.text /\ demonstration' = FALSE
    /\ UNCHANGED <<pageIndex, revision, entries, selections, report, reportHtml, events>>

(* It is dropped when anything has been compared or changed since. *)
FileRead(read) ==
    /\ reading' = reading \ {read}
    /\ IF read.revision = revision THEN input' = read.file.text /\ demonstration' = FALSE
       ELSE UNCHANGED <<input, demonstration>>
    /\ UNCHANGED <<pageIndex, revision, entries, selections, report, reportHtml, events>>

FileFails(read) ==
    /\ reading' = reading \ {read}
    /\ UNCHANGED <<pageIndex, input, revision, entries, selections, report, reportHtml, demonstration, events>>

Example ==
    /\ Event /\ pageIndex # Nil /\ invalidateInput
    /\ input' = ExampleText /\ demonstration' = TRUE
    /\ UNCHANGED <<pageIndex, reading>>

Reset ==
    /\ Event /\ invalidateInput /\ input' = <<>> /\ demonstration' = FALSE
    /\ UNCHANGED <<pageIndex, reading>>

SelectCandidate(i, candidate) ==
    /\ Event /\ invalidatePreview
    /\ selections' = [selections EXCEPT ![i] = candidate]
    /\ report' = Rebuilt(entries, selections')
    /\ UNCHANGED <<pageIndex, input, reading, revision, entries, demonstration>>

EditVersion(i, version) ==
    /\ Event /\ invalidatePreview
    /\ entries' = [entries EXCEPT ![i].input.version = version]
    /\ report' = Rebuilt(entries', selections)
    /\ UNCHANGED <<pageIndex, input, reading, revision, selections, demonstration>>

(* What is downloaded is the preview. *)
Preview ==
    /\ Event /\ entries # <<>>
    /\ report' = Rebuilt(entries, selections) /\ reportHtml' = report'
    /\ UNCHANGED <<pageIndex, input, reading, revision, entries, selections, demonstration>>

PageNext ==
    \/ SubmitPage \/ Example \/ Reset \/ Preview
    \/ \E text \in Texts : TypeInput(text)
    \/ \E file \in Files : ChooseFile(file)
    \/ \E read \in reading : FileRead(read) \/ FileFails(read)
    \/ \E i \in DOMAIN entries :
        \/ \E candidate \in report.list.items[i].candidates \cup {Nil} : SelectCandidate(i, candidate)
        \/ \E version \in Versions : EditVersion(i, version)

PageSpec == PageInit /\ [][PageNext]_pageVars

--------------------------------------------------------------------------------
(* What a reader of an inventory report may take from it.                  *)

Items == report.list.items
Proves(record, item) ==
    /\ record.verdict # "incomplete" /\ record.blocks # {}
    /\ record.coverage = Nil \/ record.coverage.state = "complete"
    /\ \A block \in record.blocks :
            /\ block.status \in {"clean", "findings"} /\ block.provenance # Nil
            /\ block.provenance.complete /\ block.provenance.package.version = item.input.version
            /\ block.provenance.package.name = item.selected.package

(***************************************************************************)
(* Types: one report for one list, and no file read from the future.       *)
(***************************************************************************)
PageTypeOK ==
    /\ pageIndex \in PageIndexes \cup {Nil} /\ demonstration \in BOOLEAN /\ events \in 0..MaxEvents
    /\ DOMAIN selections = DOMAIN entries /\ (report = NoReport <=> entries = <<>>)
    /\ Len(Items) = Len(entries) /\ (reportHtml # NoReport => report # NoReport)
    /\ \A read \in reading : read.revision \in 1..revision /\ read.file \in Files

(***************************************************************************)
(* "Matched" is said of a tool only when one record of a current index has *)
(* its package, the user's own exact version is that record's, every block *)
(* of it was measured on that very version, what it says of its coverage   *)
(* is that all was measured, and the list has the tool once.               *)
(***************************************************************************)
MatchedIsEvidence ==
    \A i \in DOMAIN Items : Items[i].state = "matched" =>
        LET item == Items[i]
            of == RecordsOf(pageIndex, item.selected)
        IN  /\ ~pageIndex.sample /\ Cardinality(of) = 1
            /\ item.input.version = item.selected.version
            /\ <<item.selected.registry, item.input.version>> \in ExactVersions
            /\ \A k \in of : Proves(pageIndex.records[k], item)
            /\ \A k \in DOMAIN entries \ {i} : KeyOf(entries[k].input) # KeyOf(item.input)

(***************************************************************************)
(* A record is put to a tool only because the tool was named so, or        *)
(* because the user chose it: a likeness of names is never enough.         *)
(***************************************************************************)
NothingGuessed ==
    \A i \in DOMAIN Items : Items[i].selected # Nil =>
        \/ selections[i] = Items[i].selected
        \/ LET tool == Items[i].input
               names == {tool.server, tool.package, tool.name}
           IN  ({Items[i].selected.server, Items[i].selected.package} \cap names) \ {Nil} # {}

(***************************************************************************)
(* The preview, and with it the file that is downloaded, is the report of  *)
(* the list, the choices, the versions and the mark on the screen.         *)
(***************************************************************************)
PreviewIsCurrent ==
    reportHtml # NoReport =>
        /\ reportHtml.list = createInventoryReport(entries, pageIndex, selections)
        /\ reportHtml.demonstration = demonstration

(***************************************************************************)
(* The results shown are those of the text in the box, but for the         *)
(* versions the user has filled in.                                        *)
(***************************************************************************)
ResultsOfTheText ==
    entries # <<>> =>
        LET parsed == parseInventory(input)
        IN  /\ parsed # Bad /\ Len(parsed) = Len(entries)
            /\ \A i \in DOMAIN entries :
                    [entries[i].input EXCEPT !.version = Nil] = [parsed[i].input EXCEPT !.version = Nil]

(***************************************************************************)
(* The text of a file that comes late replaces nothing the user has typed  *)
(* or compared since choosing it, whatever the order in which the files    *)
(* are read.                                                               *)
(***************************************************************************)
FileReplacesNothingNewer ==
    [][\A read \in reading \ reading' :
            input' # input => input = read.input /\ entries = <<>> /\ reportHtml = NoReport]_pageVars

(* The page shows evidence for the list that is in the box now: no match   *)
(* that is not proved or named by the user, no results or preview of a     *)
(* list that has changed, no file that replaces what is newer.             *)
PageShowsEvidence ==
    /\ [](PageTypeOK /\ MatchedIsEvidence /\ NothingGuessed /\ PreviewIsCurrent /\ ResultsOfTheText)
    /\ FileReplacesNothingNewer
================================================================================
