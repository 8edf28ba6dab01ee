----------------------------- MODULE MCPolicyGate ------------------------------
(* Four checks, one of each way of reading, over three files; the first    *)
(* two read the same one, as mcp-config and transport do.                  *)
EXTENDS PolicyGateProps, TLC

CONSTANTS config, fixed, text, json, cfg, doc, card, r1, r2

MCChecks == <<config, fixed, text, json>>
MCWay == config :> "config" @@ fixed :> "fixed" @@ text :> "text" @@ json :> "json"
MCReads == config :> {cfg} @@ fixed :> {cfg} @@ text :> {doc} @@ json :> {card}
MCRoots == <<r1, r2>>

Clean == [status |-> "clean", findings |-> {}]
Unmeasured == [status |-> "unmeasured", findings |-> {}]
Both(b) == [n \in BlockName |-> IF n = "registryDocument" THEN Clean ELSE b]
Joined(server, pinned, evidence) ==
    [server |-> server, pinned |-> pinned, evidence |-> evidence,
     execution |-> executionFromBlocks(evidence)]
Complete2 == Joined("plain", TRUE, Both(Clean))
Partial == Joined("plain", TRUE, Both(Unmeasured))
Refused == Joined("refused", FALSE, Both(Clean))
NoManifest == Joined("plain", TRUE, [n \in {"registryDocument"} |-> Clean])
Silent == [Partial EXCEPT !.execution = Absent]
Optional == [Partial EXCEPT !.execution["packageManifest"] = [required |-> FALSE, status |-> "skipped"]]
RecordSets == {{}, {Complete2}, {Complete2, Partial}, {Refused}, {NoManifest}, {Silent}, {Optional}}

FileStates == {Absent, Unreadable, Unparsed, {}, {"low"}, {"high"}}
SomeFiles == {f \in [Files -> FileStates] : f[doc] # Unparsed /\ f[card] # {"low"}}
FineFiles == [f \in Files |-> {}]
First == [files : SomeFiles, records : RecordSets]
Second == {Absent, [files |-> FineFiles, records |-> {Complete2}], [files |-> FineFiles, records |-> Malformed],
           [files |-> [FineFiles EXCEPT ![doc] = {"high"}], records |-> {Complete2}]}
MCWorlds == {r1 :> p @@ r2 :> q : p \in First \cup {Absent}, q \in Second}

Policy0 == [threshold |-> "medium", measured |-> {}, scanners |-> {}, pinned |-> FALSE,
            severities |-> {}, servers |-> {}]
Policy1 == [Policy0 EXCEPT !.measured = {"packageManifest"}, !.threshold = "critical", !.severities = {"low"}]
Policy2 == [Policy0 EXCEPT !.scanners = {"packageManifest"}, !.pinned = TRUE, !.servers = {"refused"}]
MCPolicies == {r1 :> p @@ r2 :> q : p \in {Policy0, Policy1, Policy2}, q \in {Policy0, Malformed}}
MCRequests == {{config, fixed, text, json}, {fixed, text}}
================================================================================
