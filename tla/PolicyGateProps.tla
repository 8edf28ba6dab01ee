---------------------------- MODULE PolicyGateProps ----------------------------
(* What the exit code of a check or an audit tells a build.                *)
EXTENDS PolicyGate

(* Type invariant of PolicyGate. *)
TypeOK ==
    /\ next \in 1..NumRoots + 1
    /\ check \in 1..Len(ALL_CHECKS) + 1
    /\ scan.findings \subseteq [file : Files, severity : DOMAIN RANK]
    /\ scan.checksRun \subseteq requested /\ scan.checksFailed \subseteq requested
    /\ scan.checksRun \cap scan.checksFailed = {}
    /\ scan.unparsed \subseteq Files
    /\ \A e \in Range(entries) : e.verdict \in {"clean", "findings", "incomplete"} /\ e.exitCode \in 0..2
    /\ exit \in {NoExit} \cup 0..3

Exists(r) == ~Skips(r)
Readable(c, r) == \A f \in Reads[c] : Content(r).files[f] # Unreadable
Scanned == {Roots[i] : i \in 1..NumRoots}

(* engine.mjs: "clean" is never emitted when a check failed to run, and    *)
(* evaluate.mjs: a partial answer is not a pass.  A build passes only if   *)
(* every root of an audit was there, policies and indexes could be read,   *)
(* no check of the run was kept from its files, every record that says     *)
(* what ran had all of it finish, and what the policy asks for was         *)
(* measured; of a record whose execution is the one build-index.mjs        *)
(* derives, every block.                                                   *)
Supports(q, p) ==
    /\ \A b \in p.measured : b \in DOMAIN q.evidence /\ Measured(q.evidence[b])
    /\ \A c \in p.scanners : RanIn(q.execution, c)
    /\ q.execution # Absent =>
          /\ \A c \in RequiredOf(q.execution) : RanIn(q.execution, c)
          /\ q.execution = executionFromBlocks(q.evidence) =>
                \A b \in DOMAIN q.evidence : Measured(q.evidence[b])
PartialNeverPasses ==
    exit = 0 =>
        \A r \in Scanned :
            /\ Exists(r) /\ policy[r] # Malformed /\ Content(r).records # Malformed
            /\ \A c \in requested : Way[c] # "json" => Readable(c, r)
            /\ \A q \in Content(r).records : Supports(q, policy[r])
            /\ policy[r].measured \cup policy[r].scanners # {} => Content(r).records # {}

(* A finding is not lost between the check that made it and the exit code: *)
(* a build passes only if no check of the run could see, in any root, what *)
(* the policy refuses, and no record is of a refused server.               *)
RefusedNeverPasses ==
    exit = 0 =>
        \A r \in Scanned :
            /\ \A c \in requested, f \in Files \ Excluded :
                 f \in Reads[c] =>
                    \A s \in DOMAIN RANK :
                        RANK[s] >= RANK[policy[r].threshold] \/ s \in policy[r].severities =>
                            Content(r).files[f] \in {Absent, Unreadable, Unparsed} \/ s \notin Content(r).files[f]
            /\ \A q \in Content(r).records : q.server \notin policy[r].servers

(* audit.mjs takes the verdict by priority and the exit code as a maximum, *)
(* and says the two agree: incomplete, 2, outranks findings, 1, and both   *)
(* outrank clean, over all the roots and no root left out.                 *)
ExitAgrees ==
    exit \in 0..2 =>
        /\ exit = exitCodeFor(aggregateAudit(entries))
        /\ {entries[i].root : i \in DOMAIN entries} = Scanned

(* The verdict on a root is its own: what was found or failed in another   *)
(* root neither helps nor hurts it.                                        *)
Seen(r) ==
    {x \in [file : Files, severity : DOMAIN RANK] :
        \E c \in requested :
            x.file \in Assessed(c, Content(r)) /\ x \in FindingsIn(c, x.file, Content(r).files[x.file])}
OwnVerdict(r) ==
    IF \/ ~Exists(r)
       \/ \E c \in requested : Throws(c, Content(r))
       \/ EvidenceMissing(policy[r], Content(r).records)
       \/ ExecutionIncomplete(policy[r], Content(r).records)
    THEN "incomplete"
    ELSE IF \/ RefusedFindings(policy[r], [findings |-> Seen(r)]) # {}
            \/ ForbiddenServers(policy[r], Content(r).records) # {}
    THEN "findings" ELSE "clean"
EntryIsItsOwn ==
    \A i \in DOMAIN entries : entries[i].verdict = OwnVerdict(entries[i].root)

(* The verdicts and the exit code hang together: each root has its own     *)
(* verdict, and the code is that of all of them.                           *)
VerdictsAgree == TypeOK /\ ExitAgrees /\ EntryIsItsOwn

--------------------------------------------------------------------------------

(* fs-scan.mjs: a file that is too large to read fails its check, because  *)
(* skipping it silently would report "clean" about something that was      *)
(* never read; README.md: anything that could not be measured makes the    *)
(* artefact incomplete.  Held against the code: a build passes only if     *)
(* every file a check of the run opens was read and, where it is read as   *)
(* JSON, parsed.                                                           *)
CleanMeansAssessed ==
    exit = 0 =>
        \A r \in Scanned, c \in requested :
            /\ Readable(c, r)
            /\ Way[c] # "text" => \A f \in Reads[c] : Content(r).files[f] # Unparsed
================================================================================
