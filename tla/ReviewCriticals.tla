---------------------------- MODULE ReviewCriticals ----------------------------
(***************************************************************************)
(* The gate on unreviewed findings: scripts/review-criticals.mjs.          *)
(*                                                                         *)
(* A high or critical finding of the index has a key (server, block, rule, *)
(* file, severity), an evidence text and the provenance of what was        *)
(* scanned; bound says that bindingProblems found nothing.  The index is   *)
(* rebuilt by others; the baseline changes only by --accept, which a       *)
(* person runs after having read what the index says.                      *)
(***************************************************************************)
EXTENDS Integers, FiniteSets, Sequences, SequencesExt, FiniteSetsExt

CONSTANTS
    Findings,     \* [key, evidence, provenance, bound]
    MaxFindings,  \* bound: findings of an index
    MaxDay,       \* bound: days
    MaxBuilds,    \* bound: builds of the index
    NoBaseline, LegacyBaseline, TornBaseline

ASSUME ReviewAssumption ==
    /\ MaxFindings \in Nat /\ MaxDay \in Nat /\ MaxBuilds \in Nat
    /\ \A f \in Findings :
        /\ f = [key |-> f.key, evidence |-> f.evidence, provenance |-> f.provenance, bound |-> f.bound]
        /\ f.bound \in BOOLEAN

VARIABLES
    current,      \* reviewableFindingsOf(index): their order is the index's
    baseline,     \* reviewed-criticals.json
    day,
    attested,     \* what a person accepted: [finding, day]
    reviewExit,   \* the last exit code of a run without --accept, or -1
    builds

reviewVars == <<current, baseline, day, attested, reviewExit, builds>>

Indexes == BoundedSeq(Findings, MaxFindings)

ReviewInit ==
    /\ current \in Indexes /\ baseline \in {NoBaseline, LegacyBaseline}
    /\ day = 0 /\ attested = {} /\ reviewExit = -1 /\ builds = 0

--------------------------------------------------------------------------------
(* The entries a run goes by: none of a baseline without the binding.      *)
Prior == IF baseline \in {NoBaseline, LegacyBaseline} THEN <<>> ELSE baseline

matchesReview(now, was) ==
    now.bound /\ was.finding.evidence = now.evidence /\ was.finding.provenance = now.provenance

Free(now, entries, used) == {j \in DOMAIN entries \ used : entries[j].finding.key = now.key}
FirstFree(now, entries, used, fitting) ==
    LET free == Free(now, entries, used) \cap fitting
    IN  IF free = {} THEN 0 ELSE Min(free)

(* For each finding the entry it takes of those that fit it, in the order  *)
(* of the index; those that have one keep it.                              *)
Give(before, i, findings, entries, fits) ==
    IF before[i] # 0 THEN before
    ELSE [before EXCEPT ![i] = FirstFree(findings[i], entries, {before[k] : k \in DOMAIN findings} \ {0}, fits[i])]

Assign(findings, entries, taken, fits) ==
    LET given[i \in 0..Len(findings)] == IF i = 0 THEN taken ELSE Give(given[i - 1], i, findings, entries, fits)
    IN  given[Len(findings)]

NoneTaken(findings) == [i \in DOMAIN findings |-> 0]
AnyEntry(findings, entries) == [i \in DOMAIN findings |-> DOMAIN entries]
Matching(findings, entries) ==
    [i \in DOMAIN findings |-> {j \in DOMAIN entries : matchesReview(findings[i], entries[j])}]

(* Mutant: one pass, in which a changed finding may take the review of an  *)
(* unchanged one that comes later.                                         *)
MutMatched(findings, entries) ==
    LET given == Assign(findings, entries, NoneTaken(findings), AnyEntry(findings, entries))
    IN  [i \in DOMAIN findings |->
            IF given[i] # 0 /\ matchesReview(findings[i], entries[given[i]]) THEN given[i] ELSE 0]

(* Every unchanged occurrence is matched before any changed one. *)
Matched(findings, entries) == Assign(findings, entries, NoneTaken(findings), Matching(findings, entries))

Previous(findings, entries) ==
    Assign(findings, entries, Matched(findings, entries), AnyEntry(findings, entries))

FreshFindings == {i \in DOMAIN current : Previous(current, Prior)[i] = 0}
ChangedEvidence == {i \in DOMAIN current : Previous(current, Prior)[i] # 0 /\ Matched(current, Prior)[i] = 0}
Cleared == DOMAIN Prior \ {Previous(current, Prior)[i] : i \in DOMAIN current}
Incomplete == {i \in DOMAIN current : ~current[i].bound}

--------------------------------------------------------------------------------
ReviewCode == IF FreshFindings = {} /\ ChangedEvidence = {} THEN 0 ELSE 1

(* A baseline that does not parse ends the run like an unreviewed finding. *)
ReportReview ==
    /\ reviewExit' = IF baseline = TornBaseline THEN 1 ELSE ReviewCode
    /\ UNCHANGED <<current, baseline, day, attested, builds>>

(* An unchanged finding keeps the day on which it was reviewed. *)
Accepted(i) ==
    LET was == Matched(current, Prior)[i]
    IN  [finding |-> current[i], reviewedAt |-> IF was # 0 THEN Prior[was].reviewedAt ELSE day]

MayAccept == baseline # TornBaseline /\ Incomplete = {}

Accept ==
    /\ MayAccept
    /\ baseline' = [i \in DOMAIN current |-> Accepted(i)]
    /\ attested' = attested \cup {[finding |-> current[i], day |-> day] : i \in DOMAIN current}
    /\ reviewExit' = -1
    /\ UNCHANGED <<current, day, builds>>

(* The baseline is rewritten in place. *)
KillAccept ==
    /\ MayAccept /\ baseline' = TornBaseline
    /\ reviewExit' = -1
    /\ UNCHANGED <<current, day, attested, builds>>

(* Somebody restores it, or starts again without one. *)
RestoreBaseline ==
    /\ baseline = TornBaseline /\ baseline' = NoBaseline
    /\ UNCHANGED <<current, day, attested, reviewExit, builds>>

Rebuild ==
    /\ builds < MaxBuilds /\ builds' = builds + 1
    /\ current' \in Indexes \ {current} /\ reviewExit' = -1
    /\ UNCHANGED <<baseline, day, attested>>

NextDay ==
    /\ day < MaxDay /\ day' = day + 1
    /\ UNCHANGED <<current, baseline, attested, reviewExit, builds>>

ReviewNext ==
    ReportReview \/ Accept \/ KillAccept \/ RestoreBaseline \/ Rebuild \/ NextDay

ReviewSpec == ReviewInit /\ [][ReviewNext]_reviewVars

--------------------------------------------------------------------------------
(* What it means that the gate on critical findings is green.              *)

Entries == IF baseline \in {NoBaseline, LegacyBaseline, TornBaseline} THEN <<>> ELSE baseline
Copies(finding) == Cardinality({i \in DOMAIN current : current[i] = finding})
Reviews(finding) == Cardinality({j \in DOMAIN Entries : Entries[j].finding = finding})

(***************************************************************************)
(* Types; what is in the baseline was bound to scanned content.            *)
(***************************************************************************)
ReviewTypeOK ==
    /\ current \in Indexes /\ day \in 0..MaxDay /\ builds \in 0..MaxBuilds /\ reviewExit \in -1..1
    /\ attested \subseteq [finding : Findings, day : 0..MaxDay]
    /\ \A j \in DOMAIN Entries :
            Entries[j].finding \in Findings /\ Entries[j].finding.bound /\ Entries[j].reviewedAt \in 0..day

(***************************************************************************)
(* Green means read: every finding of the index has, copy by copy, a       *)
(* review of the very same evidence and provenance, which a person         *)
(* accepted on some day.                                                   *)
(***************************************************************************)
GreenMeansReviewed ==
    reviewExit = 0 =>
        \A i \in DOMAIN current :
            /\ current[i].bound /\ Copies(current[i]) <= Reviews(current[i])
            /\ \E a \in attested : a.finding = current[i]

(***************************************************************************)
(* The date of a review is a day on which that evidence was accepted: no   *)
(* change of evidence inherits the date of what it replaced.               *)
(***************************************************************************)
DatesAreReal ==
    \A j \in DOMAIN Entries : [finding |-> Entries[j].finding, day |-> Entries[j].reviewedAt] \in attested

(***************************************************************************)
(* Two findings of one key are told apart whatever their order: as many    *)
(* are found reviewed as there are reviews of them.  (review-criticals.mjs *)
(* "their ordering must not erase a review")                               *)
(***************************************************************************)
OrderErasesNothing ==
    \A f \in {current[i] : i \in DOMAIN current} :
        f.bound => Cardinality({i \in DOMAIN current : current[i] = f /\ Matched(current, Entries)[i] # 0})
                   = Min({Copies(f), Reviews(f)})

(***************************************************************************)
(* The baseline changes by a person's acceptance of all that the index     *)
(* says, or is lost: no run of the report, no rebuild and no passing of    *)
(* time makes a review.                                                    *)
(***************************************************************************)
OnlyAPersonReviews ==
    [][Entries' # Entries /\ Entries' # <<>> =>
         /\ \A i \in DOMAIN current : [finding |-> current[i], day |-> day] \in attested'
         /\ Len(Entries') = Len(current)]_reviewVars

(* Reviews are real: green means that a person accepted this very          *)
(* evidence, on the day that is written, in whatever order findings come,  *)
(* and nothing but a person makes a review.                                *)
ReviewsAreReal ==
    /\ [](ReviewTypeOK /\ GreenMeansReviewed /\ DatesAreReal /\ OrderErasesNothing)
    /\ OnlyAPersonReviews
================================================================================
