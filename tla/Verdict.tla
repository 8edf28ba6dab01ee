-------------------------------- MODULE Verdict --------------------------------
(***************************************************************************)
(* What may be called clean: the verdict of build-index.mjs and the        *)
(* execution record of execution.mjs.                                      *)
(*                                                                         *)
(* A finding is its severity; a block is [status, findings]; the evidence  *)
(* of a record is a function from block names to blocks; an execution is   *)
(* a function from component names to [required, status].                  *)
(***************************************************************************)
EXTENDS Naturals

(* The severities that have a rank.  Any other, "unknown" among them, says *)
(* that a check ran and could not tell.                                    *)
RANK == [critical |-> 4, high |-> 3, medium |-> 2, low |-> 1, info |-> 0]
Severity == DOMAIN RANK \cup {"unknown"}

Block == [status : {"clean", "findings", "unmeasured"}, findings : SUBSET Severity]

(* A block whose check ran; a count of findings without one is no answer.  *)
Measured(block) == block.status \in {"clean", "findings"}
Usable(block) == Measured(block) /\ (block.status = "findings" => block.findings # {})

FindingsOf(evidence) == UNION {evidence[b].findings : b \in DOMAIN evidence}
Notable(findings, threshold) ==
    \E s \in findings \cap DOMAIN RANK : RANK[s] >= RANK[threshold]

(* Mutant: a severity without a rank counts as the lowest. *)
MutDeriveVerdict(evidence, threshold) ==
    IF DOMAIN evidence = {} \/ \E b \in DOMAIN evidence : ~Usable(evidence[b])
    THEN "incomplete"
    ELSE IF Notable(FindingsOf(evidence), threshold) THEN "findings" ELSE "clean"

deriveVerdict(evidence, threshold) ==
    IF \/ DOMAIN evidence = {}
       \/ \E b \in DOMAIN evidence : ~Usable(evidence[b])
       \/ ~(FindingsOf(evidence) \subseteq DOMAIN RANK)
    THEN "incomplete"
    ELSE IF Notable(FindingsOf(evidence), threshold) THEN "findings" ELSE "clean"

--------------------------------------------------------------------------------

Component == [required : BOOLEAN, status : {"completed", "failed", "skipped"}]

(* A completed component's output was present, parseable and consistent:   *)
(* the code derives the three from the same condition.                     *)
componentComplete(component) == component.status = "completed"

RequiredOf(execution) == {c \in DOMAIN execution : execution[c].required}

(* Nothing required is not a pass. *)
Complete(execution) ==
    /\ RequiredOf(execution) # {}
    /\ \A c \in RequiredOf(execution) : componentComplete(execution[c])

executionFromBlocks(evidence) ==
    [b \in DOMAIN evidence |->
        [required |-> TRUE,
         status |-> IF Measured(evidence[b]) THEN "completed" ELSE "failed"]]

aggregateVerdict(evidence, threshold, execution) ==
    IF deriveVerdict(evidence, threshold) = "clean" /\ ~Complete(execution)
    THEN "incomplete"
    ELSE deriveVerdict(evidence, threshold)
================================================================================
