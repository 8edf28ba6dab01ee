------------------------------- MODULE Inventory -------------------------------
(***************************************************************************)
(* Matching a list of tools with the evidence of an index:                 *)
(* packages/inventory/src/inventory.mjs.                                   *)
(*                                                                         *)
(* An index is [records, sample, truncated, dated]; a record has a server, *)
(* packages, a verdict, the scans of its coverage block and its evidence   *)
(* blocks; a package is [registry, name, version].                         *)
(***************************************************************************)
EXTENDS Integers, FiniteSets, Sequences, SequencesExt

CONSTANTS
    Nil,          \* a field that is missing
    Bad,          \* what cannot be parsed
    ExactVersions,\* pairs of a registry and a version that is exact there
    NpmNames,     \* the names npm allows
    Includes,     \* pairs of texts of which the first includes the second
    MaxEntries    \* 500

ASSUME InventoryAssumption ==
    MaxEntries \in Nat /\ (\A pair \in ExactVersions : pair[2] # Nil) /\ Nil # "incomplete"

exactVersion(version, registry) == <<registry, version>> \in ExactVersions

(***************************************************************************)
(* parseInventory: a line or element is [form, name, server, package,      *)
(* registry, version], its form that of the text it was written in.        *)
(***************************************************************************)
fromName(raw) ==
    IF raw.form = "plain"
    THEN [name |-> raw.name, server |-> Nil, package |-> Nil, registry |-> Nil, version |-> Nil]
    ELSE [name |-> raw.name, server |-> Nil, package |-> raw.package, version |-> raw.version,
          registry |-> IF raw.form = "qualified" THEN raw.registry ELSE "npm"]

FirstOf(values) == IF \E i \in DOMAIN values : values[i] # Nil
                   THEN SelectSeq(values, LAMBDA v : v # Nil)[1] ELSE Nil

(* No launch configuration and nothing without a name is taken. *)
normalizeInput(raw) ==
    IF raw.form \in {"plain", "npm", "qualified"} THEN fromName(raw)
    ELSE IF raw.form # "object" \/ FirstOf(<<raw.name, raw.server, raw.package>>) = Nil THEN Bad
    ELSE [name |-> FirstOf(<<raw.name, raw.server, raw.package>>), server |-> raw.server,
          package |-> raw.package, registry |-> raw.registry, version |-> raw.version]

parseInventory(text) ==
    IF text = Bad \/ Len(text) > MaxEntries \/ \E i \in DOMAIN text : normalizeInput(text[i]) = Bad THEN Bad
    ELSE [i \in DOMAIN text |-> [id |-> i, input |-> normalizeInput(text[i])]]

(***************************************************************************)
(* Candidates: what the records call themselves.                           *)
(***************************************************************************)
CandidatesOf(record) ==
    IF record.packages = {} THEN {[server |-> record.server, registry |-> Nil, package |-> Nil, version |-> Nil]}
    ELSE {[server |-> record.server, registry |-> p.registry, package |-> p.name, version |-> p.version] :
            p \in record.packages}
candidateGroups(index) == UNION {CandidatesOf(index.records[i]) : i \in DOMAIN index.records}
RecordsOf(index, candidate) == {i \in DOMAIN index.records : candidate \in CandidatesOf(index.records[i])}

(* Titles, which only make more records look alike, are left out.          *)
Same(value, wanted) == wanted = Nil \/ value = wanted
Like(value, wanted) == wanted = Nil \/ <<value, wanted>> \in Includes
Agrees(how, value, wanted) == IF how = "exact" THEN Same(value, wanted) ELSE Like(value, wanted)
Named(c, input, how) ==
    IF input.server # Nil \/ input.package # Nil
    THEN Agrees(how, c.server, input.server) /\ Agrees(how, c.package, input.package)
    ELSE Agrees(how, c.server, input.name) \/ Agrees(how, c.package, input.name)

ExactCandidates(input, pool) ==
    LET servers == {c \in pool : c.server = input.name}
    IN  IF input.server = Nil /\ input.package = Nil /\ servers # {} THEN servers
        ELSE {c \in pool : Named(c, input, "exact")}

candidatesFor(input, index) ==
    LET pool == {c \in candidateGroups(index) : Same(c.registry, input.registry)}
        exact == ExactCandidates(input, pool)
    IN  IF exact # {} THEN [candidates |-> exact, exact |-> TRUE]
        ELSE [candidates |-> {c \in pool : Named(c, input, "like")}, exact |-> FALSE]

(***************************************************************************)
(* Whether a record proves anything of the candidate.  A coverage block    *)
(* with no counts at all is not held to them.  The finding "unknown" has a *)
(* severity that nobody knows, or no text.                                 *)
(***************************************************************************)
coverageProblem(coverage) ==
    /\ coverage # Nil
    /\ LET required == SelectSeq(coverage.scans, LAMBDA s : s.required)
           finished == SelectSeq(required, LAMBDA s : s.finished)
           counts == <<coverage.required, coverage.completed, coverage.failed>>
       IN  \/ counts \notin {<<Nil, Nil, Nil>>, <<Len(required), Len(finished), Len(required) - Len(finished)>>}
           \/ coverage.state # "complete" \/ required = <<>> \/ finished # required
           \/ coverage.digest = "differs"

blockProblem(block, candidate) ==
    \/ block.status \notin {"clean", "findings"} \/ block.source = Nil \/ block.reason
    \/ (block.status = "clean") # (block.findings = {}) \/ "unknown" \in block.findings
    \/ block.provenance = Nil \/ ~block.provenance.complete \/ ~block.provenance.digest
    \/ block.provenance.package # [registry |-> candidate.registry, name |-> candidate.package, version |-> candidate.version]

bindingProblem(record, candidate) ==
    \/ \E p \in record.packages : p.name = Nil \/ p.registry = Nil \/ ~exactVersion(p.version, p.registry)
    \/ candidate.registry = "npm" /\ candidate.package \notin NpmNames
    \/ record.verdict \notin {"clean", "findings", Nil}
    \/ coverageProblem(record.coverage)
    \/ record.blocks = {} \/ \E block \in record.blocks : blockProblem(block, candidate)

(***************************************************************************)
(* createInventoryReport.                                                  *)
(***************************************************************************)
KeyOf(input) == IF input.server = Nil /\ input.package = Nil THEN input ELSE [input EXCEPT !.name = Nil]
Duplicate(entry, entries) ==
    \E i \in DOMAIN entries : entries[i].id # entry.id /\ KeyOf(entries[i].input) = KeyOf(entry.input)

(* What is taken without a choice of the user: a candidate of that very    *)
(* name, when there is one, or one of that version.                        *)
Automatic(input, matches) ==
    LET same == {c \in matches.candidates : exactVersion(input.version, c.registry) /\ input.version = c.version}
        choices == IF same # {} THEN same ELSE matches.candidates
    IN  IF matches.exact /\ Cardinality(choices) = 1 THEN choices ELSE {}

SelectedState(input, candidate, index) ==
    IF \/ Cardinality(RecordsOf(index, candidate)) # 1
       \/ candidate.package = Nil \/ candidate.registry = Nil
       \/ ~exactVersion(candidate.version, candidate.registry) THEN "insufficient"
    ELSE IF ~exactVersion(input.version, candidate.registry) THEN "version_missing"
    ELSE IF input.version # candidate.version THEN "version_mismatch"
    ELSE IF index.sample \/ ~index.dated
            \/ \E i \in RecordsOf(index, candidate) : bindingProblem(index.records[i], candidate) THEN "insufficient"
    ELSE "matched"

Item(entry, state, candidates, selected, findings) ==
    [id |-> entry.id, input |-> entry.input, state |-> state, candidates |-> candidates,
     selected |-> selected, findings |-> findings]

ItemOf(entry, entries, index, selection) ==
    LET matches == candidatesFor(entry.input, index)
        chosen == IF selection = Nil THEN Automatic(entry.input, matches) ELSE matches.candidates \cap {selection}
    IN  IF Duplicate(entry, entries) THEN Item(entry, "insufficient", {}, Nil, {})
        ELSE IF matches.candidates = {} THEN Item(entry, "unmatched", {}, Nil, {})
        ELSE IF chosen = {} THEN Item(entry, "ambiguous", matches.candidates, Nil, {})
        ELSE LET candidate == CHOOSE c \in chosen : TRUE
                 first == index.records[CHOOSE i \in RecordsOf(index, candidate) : \A j \in RecordsOf(index, candidate) : i <= j]
             IN  Item(entry, SelectedState(entry.input, candidate, index), matches.candidates, candidate,
                      UNION {block.findings : block \in first.blocks})

NeedsAttention(item) == item.state # "matched" \/ item.findings # {}

createInventoryReport(entries, index, selections) ==
    LET items == [i \in DOMAIN entries |-> ItemOf(entries[i], entries, index, selections[i])]
    IN  [items |-> items, matched |-> Len(SelectSeq(items, LAMBDA item : item.state = "matched")),
         needsAttention |-> Len(SelectSeq(items, NeedsAttention))]
================================================================================
