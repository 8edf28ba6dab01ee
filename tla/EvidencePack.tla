------------------------------ MODULE EvidencePack ------------------------------
(***************************************************************************)
(* The evidence pack: packages/pack/src and packCommand of                 *)
(* bin/agentgate.mjs.                                                      *)
(*                                                                         *)
(* What is answered is computed from the items of a report, the archive of *)
(* captures and the log of the gateway; it is written file by file, each   *)
(* with its digest in the manifest and the manifest's in the seal.  A      *)
(* digest is injective: a file is its own.                                 *)
(***************************************************************************)
EXTENDS Integers, FiniteSets, Sequences, SequencesExt, FiniteSetsExt

CONSTANTS
    PackInputs,   \* [items, archive, calls]
    Questions,    \* the entries of the framework: [owner, classes]
    MaxDamage,    \* bound: kills, and files damaged or lost
    MaxPacks,     \* bound: runs
    Gone, Half, Changed

ASSUME PackAssumption ==
    /\ MaxDamage \in Nat /\ MaxPacks \in Nat /\ Cardinality({Gone, Half, Changed}) = 3
    /\ \A q \in Questions : q.owner = "we" => q.classes # {}

VARIABLES
    files,        \* the files of the directory: what is in each, or Gone
    task,         \* the run that is writing: [step, input]
    packExit,     \* the exit code of the last run that finished, or -1
    packFor,      \* what it was run on
    verified,     \* the code verify returned for the directory as it is, or -1
    intact,       \* the directory is as a finished run left it
    damage, packs

packVars == <<files, task, packExit, packFor, verified, intact, damage, packs>>

ContentFiles == {"pack.json", "pack.html", "answers.aicaiq.md"}
Names == ContentFiles \cup {"manifest.txt", "manifest.sha256"}
Idle == [step |-> "idle", input |-> Gone]

PackInit ==
    /\ files = [f \in Names |-> Gone] /\ task = Idle /\ packExit = -1 /\ packFor = Gone
    /\ verified = -1 /\ intact = FALSE /\ damage = 0 /\ packs = 0

(***************************************************************************)
(* evaluateClasses.  An item is [state, selected, digest, metadata,        *)
(* execution, severe].                                                     *)
(***************************************************************************)
ItemClasses == {"tool-identity", "exact-version", "content-digest", "package-metadata", "scan-execution"}
ContextClasses == {"change-history", "archive-integrity", "coverage-accounting", "gateway-decisions"}

(* Each framework has a question of ours about each tool as a tool. *)
ASSUME FrameworkAssumption ==
    \E q \in Questions : q.owner = "we" /\ q.classes \cap ({"tool-identity"} \cup ContextClasses) # {}

HoldsForItem(class, item) ==
    CASE class = "tool-identity" -> item.selected
      [] class = "exact-version" -> item.state = "matched"
      [] class = "content-digest" -> item.digest
      [] class = "package-metadata" -> item.metadata
      [] class = "scan-execution" -> item.execution

(* An archive is [captures, verified], a log the number of its decisions.  *)
HoldsInContext(class, input) ==
    CASE class = "change-history" -> input.archive # Gone /\ input.archive.captures >= 2
      [] class = "archive-integrity" -> input.archive # Gone /\ input.archive.captures > 0 /\ input.archive.verified
      [] class = "coverage-accounting" -> input.items # <<>>
      [] class = "gateway-decisions" -> input.calls > 0

(* The items a class can show something for; history is never claimed for  *)
(* a tool that was not identified.                                         *)
Backing(class, input) ==
    {i \in DOMAIN input.items :
        IF class \in ItemClasses THEN HoldsForItem(class, input.items[i])
        ELSE HoldsInContext(class, input) /\ input.items[i].selected}

ClassState(class, input) ==
    IF Backing(class, input) = {} THEN "unmeasured"
    ELSE IF Backing(class, input) = DOMAIN input.items THEN "measured" ELSE "partial"

(* The state of an answer: buildPack. *)
AnswerState(question, input) ==
    LET states == {ClassState(class, input) : class \in question.classes}
    IN  IF question.owner # "we" THEN "not-ours"
        ELSE IF states = {} THEN "unmeasured"
        ELSE IF states = {"measured"} THEN "measured"
        ELSE IF states = {"unmeasured"} THEN "unmeasured" ELSE "partial"

buildPack(input) == [input |-> input, answers |-> [q \in Questions |-> AnswerState(q, input)]]

Severe(input) == \E i \in DOMAIN input.items : input.items[i].severe
PackCode(input) ==
    IF \E q \in Questions : AnswerState(q, input) \in {"partial", "unmeasured"} THEN 2
    ELSE IF Severe(input) THEN 1 ELSE 0

(***************************************************************************)
(* writePack.                                                              *)
(***************************************************************************)
Content(input, name) == <<name, buildPack(input)>>
Whole(input) == [f \in ContentFiles |-> Content(input, f)]

(* A manifest is none of the marks for what is lost or damaged. *)
ASSUME ManifestAssumption == \A input \in PackInputs : Whole(input) \notin {Gone, Half, Changed}

Written(name) == files[name] # Gone
Stays == UNCHANGED <<packExit, packFor, verified>>

BeginPack(input) ==
    /\ task.step = "idle" /\ packs < MaxPacks /\ packs' = packs + 1
    /\ IF \E f \in Names : Written(f)
       THEN packExit' = 3 /\ packFor' = Gone /\ UNCHANGED <<task, verified>>
       ELSE task' = [step |-> "answers.aicaiq.md", input |-> input] /\ Stays
    /\ UNCHANGED <<files, intact, damage>>

(* In the order of PACK_CONTENT_FILES. *)
After(step) == CASE step = "answers.aicaiq.md" -> "pack.html" [] step = "pack.html" -> "pack.json"
                 [] step = "pack.json" -> "manifest.txt" [] step = "manifest.txt" -> "manifest.sha256"

(* What a file says: the manifest lists what is in the files by now.       *)
Text(step) ==
    IF step \in ContentFiles THEN Content(task.input, step)
    ELSE IF step = "manifest.txt" THEN [f \in ContentFiles |-> files[f]]
    ELSE files["manifest.txt"]

WriteFile ==
    /\ task.step \in Names \ {"manifest.sha256"}
    /\ files' = [files EXCEPT ![task.step] = Text(task.step)]
    /\ task' = [task EXCEPT !.step = After(task.step)]
    /\ verified' = -1 /\ UNCHANGED <<packExit, packFor, intact, damage, packs>>

WriteSeal ==
    /\ task.step = "manifest.sha256"
    /\ files' = [files EXCEPT ![task.step] = Text(task.step)]
    /\ packExit' = PackCode(task.input) /\ packFor' = task.input /\ task' = Idle
    /\ intact' = TRUE /\ verified' = -1 /\ UNCHANGED <<damage, packs>>

(***************************************************************************)
(* What happens to the directory.                                          *)
(***************************************************************************)
Damaged == damage < MaxDamage /\ damage' = damage + 1 /\ verified' = -1

(* Killed before, in or after the write of a file. *)
KillPack ==
    /\ Damaged /\ task.step # "idle" /\ task' = Idle
    /\ \E left \in {files[task.step], Half, Text(task.step)} : files' = [files EXCEPT ![task.step] = left]
    /\ UNCHANGED <<packExit, packFor, intact, packs>>

LoseFile(f, left) ==
    /\ Damaged /\ task.step = "idle" /\ Written(f) /\ files[f] # left
    /\ files' = [files EXCEPT ![f] = left] /\ intact' = FALSE
    /\ UNCHANGED <<task, packExit, packFor, packs>>

EmptyDirectory ==
    /\ task.step = "idle" /\ \E f \in Names : Written(f)
    /\ files' = [f \in Names |-> Gone] /\ intact' = FALSE /\ verified' = -1
    /\ UNCHANGED <<task, packExit, packFor, damage, packs>>

(***************************************************************************)
(* verifyPack.                                                             *)
(***************************************************************************)
(* A manifest that is half there lists some of the files, or none.         *)
Listed(lines) ==
    IF files["manifest.txt"] \in {Half, Changed} THEN [f \in lines |-> files[f]] ELSE files["manifest.txt"]

SealProblem ==
    Written("manifest.sha256") /\ (files["manifest.sha256"] # files["manifest.txt"] \/ files["manifest.txt"] \in {Half, Changed})
HashProblem(lines) == \E f \in DOMAIN Listed(lines) : files[f] # Listed(lines)[f]

(* Mutant: a pack without a seal is compared with its manifest only. *)
MutverifyCode(lines) ==
    IF ~Written("manifest.txt") THEN 2
    ELSE IF SealProblem \/ HashProblem(lines) THEN 1
    ELSE IF DOMAIN Listed(lines) = {} THEN 2 ELSE 0

verifyCode(lines) ==
    IF ~Written("manifest.txt") THEN 2
    ELSE IF SealProblem \/ HashProblem(lines) THEN 1
    ELSE IF ~Written("manifest.sha256") \/ DOMAIN Listed(lines) = {} THEN 2 ELSE 0

VerifyPack ==
    /\ task.step = "idle"
    /\ \E lines \in SUBSET {f \in ContentFiles : Written(f)} : verified' = verifyCode(lines)
    /\ UNCHANGED <<files, task, packExit, packFor, intact, damage, packs>>

PackNext ==
    \/ \E input \in PackInputs : BeginPack(input)
    \/ WriteFile \/ WriteSeal \/ KillPack \/ EmptyDirectory \/ VerifyPack
    \/ \E f \in Names, left \in {Gone, Changed} : LoseFile(f, left)

PackSpec == PackInit /\ [][PackNext]_packVars

--------------------------------------------------------------------------------
(* What the reviewer who is handed a pack may take from it.                *)

Steps == <<"answers.aicaiq.md", "pack.html", "pack.json", "manifest.txt", "manifest.sha256">>

(***************************************************************************)
(* Types; what a run has still to write is not there, so that nothing in a *)
(* pack is older than the run that made it.                                *)
(***************************************************************************)
PackTypeOK ==
    /\ DOMAIN files = Names /\ task.step \in Names \cup {"idle"} /\ packExit \in -1..3
    /\ verified \in -1..2 /\ intact \in BOOLEAN /\ damage \in 0..MaxDamage /\ packs \in 0..MaxPacks
    /\ \A i \in DOMAIN Steps : task.step = Steps[i] => \A k \in i..Len(Steps) : files[Steps[k]] = Gone

(***************************************************************************)
(* A pack that verifies is the whole of one run: all three files, made of  *)
(* the same input, and a manifest that lists them, wherever a run was      *)
(* killed and whatever was lost or damaged since.                          *)
(***************************************************************************)
VerifiedIsWhole ==
    verified = 0 =>
        /\ \E input \in PackInputs : \A f \in ContentFiles : files[f] = Content(input, f)
        /\ files["manifest.txt"] = [f \in ContentFiles |-> files[f]]

(***************************************************************************)
(* A pack that is as its run left it verifies.                             *)
(***************************************************************************)
IntactVerifies == intact /\ verified # -1 => verified = 0

(***************************************************************************)
(* Exit 0 says that everything we claim was measured on every tool of the  *)
(* list: each was identified, nothing severe was found, and each class a   *)
(* question of ours names holds of each tool.  (bin/agentgate.mjs: "2 when *)
(* something we claim is unmeasured")                                      *)
(***************************************************************************)
ZeroIsMeasured ==
    packExit = 0 =>
        /\ packFor.items # <<>>
        /\ \A i \in DOMAIN packFor.items :
            LET item == packFor.items[i]
                ours == UNION {q.classes : q \in {question \in Questions : question.owner = "we"}}
            IN  /\ item.selected /\ ~item.severe
                /\ \A class \in ours :
                    IF class \in ItemClasses THEN HoldsForItem(class, item) ELSE HoldsInContext(class, packFor)

(***************************************************************************)
(* A run writes into an empty directory or not at all: what is there is    *)
(* changed by damage and by emptying it, never by another run.             *)
(***************************************************************************)
NothingOverwritten ==
    [][\A f \in Names : files[f] # Gone /\ files'[f] # files[f] =>
            damage' # damage \/ \A g \in Names : files'[g] = Gone]_packVars

(* A pack is proof: what verifies is the whole of one run, what a run      *)
(* finished verifies until it is damaged, exit 0 means that all was        *)
(* measured, and no run writes over another's pack.                        *)
PackIsProof ==
    /\ [](PackTypeOK /\ VerifiedIsWhole /\ IntactVerifies /\ ZeroIsMeasured)
    /\ NothingOverwritten
================================================================================
