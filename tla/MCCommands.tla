------------------------------- MODULE MCCommands -------------------------------
(***************************************************************************)
(* Small instances of the commands a person or cron starts one at a time,  *)
(* each with the files it keeps: the backup, the health check, the history *)
(* of captures, the audit of a package, the watch archive, the review of   *)
(* critical findings, the inventory page, the evidence pack and the MCP    *)
(* server.  They share no state, so their specifications are added up: a   *)
(* behaviour belongs to one program, chosen in its first state, and the    *)
(* variables of the others stay as they were.                              *)
(***************************************************************************)
EXTENDS
    Backup, WatchArchive, ReviewCriticals, InventoryPage, EvidencePack, McpServer,
    HealthCheck, History, MCRegistryAudit

VARIABLE program

---------------------------------------------------------------------------------
(* Captures of a tool list: the same rows twice, and a row more and one
   less. *)
ToolRow(id, c) == [identity |-> id, content |-> c]
MCRows == {ToolRow("i", 1), ToolRow("i", 2), ToolRow("j", 1)}
Bag(a, b, c) == [r \in MCRows |-> CASE r = ToolRow("i", 1) -> a [] r = ToolRow("i", 2) -> b [] OTHER -> c]
MCProjections == {Bag(1, 0, 0), Bag(2, 0, 0), Bag(0, 1, 1)}

---------------------------------------------------------------------------------
(* Findings: two evidences of one key, one of them unbound too, and a key
   more. *)
ReviewFinding(key, evidence, bound) == [key |-> key, evidence |-> evidence, provenance |-> "p", bound |-> bound]
MCFindings == {ReviewFinding("k", "e1", TRUE), ReviewFinding("k", "e2", TRUE), ReviewFinding("k", "e1", FALSE), ReviewFinding("l", "e1", TRUE)}

---------------------------------------------------------------------------------
(* Indexes, lists and files for the page. *)
Pkg(v) == [registry |-> "npm", name |-> "p", version |-> v]
Proof(v) == [complete |-> TRUE, digest |-> TRUE, package |-> Pkg(v)]
PageBlock(v, severities) == [status |-> IF severities = {} THEN "clean" ELSE "findings", source |-> "npm", reason |-> FALSE, findings |-> severities, provenance |-> Proof(v)]
Covered(word) == [state |-> word, required |-> 1, completed |-> 1, failed |-> 0, digest |-> "same", scans |-> <<[required |-> TRUE, finished |-> TRUE]>>]
IndexRecord(server, v, proved, severities) ==
    [server |-> server, packages |-> {Pkg(v)}, verdict |-> "clean", coverage |-> Covered("complete"), blocks |-> {PageBlock(proved, severities)}]
Index(records, sample) == [records |-> records, sample |-> sample, truncated |-> FALSE, dated |-> TRUE]
MCPageIndexes == {
    Index(<<IndexRecord("s", "1", "1", {}), IndexRecord("s", "2", "1", {"low"})>>, FALSE),
    Index(<<IndexRecord("s", "1", "1", {})>>, TRUE),
    Index(<<IndexRecord("s", "1", "1", {}), [IndexRecord("t", "1", "1", {}) EXCEPT !.packages = {}],
            [IndexRecord("u", "2", "2", {}) EXCEPT !.coverage = Covered("incomplete")]>>, FALSE) }
MCExactVersions == {<<"npm", "1">>, <<"npm", "2">>}
MCNpmNames == {"p"}
MCIncludes == {<<"s", "like s">>, <<"p", "like s">>, <<"s", "s">>, <<"p", "p">>}
ListEntry(form, name, v) == [form |-> form, name |-> name, server |-> Nil, package |-> "p", registry |-> "npm", version |-> v]
MCTexts == { <<>>, <<ListEntry("npm", "p@1", "1"), ListEntry("npm", "p@2", "2")>>, <<ListEntry("plain", "like s", Nil)>>, <<ListEntry("foreign", "x", Nil)>> }
MCFiles == {[text |-> <<ListEntry("plain", "s", Nil), ListEntry("npm", "p@1", "1")>>, fits |-> TRUE], [text |-> <<>>, fits |-> FALSE]}

---------------------------------------------------------------------------------
(* Lists, archives and logs for the pack, and questions of ours and not. *)
ToolItem(match, selected, severe) ==
    [state |-> match, selected |-> selected, digest |-> selected, metadata |-> selected, execution |-> selected, severe |-> severe]
ToolList(items, n) == [items |-> items, archive |-> IF n = 0 THEN Gone ELSE [captures |-> n, verified |-> TRUE], calls |-> n]
MCPackInputs == {
    ToolList(<<>>, 2), ToolList(<<ToolItem("matched", TRUE, FALSE)>>, 2), ToolList(<<ToolItem("matched", TRUE, TRUE)>>, 2),
    ToolList(<<ToolItem("matched", TRUE, FALSE), ToolItem("unmatched", FALSE, FALSE)>>, 2),
    ToolList(<<ToolItem("matched", TRUE, FALSE)>>, 1), ToolList(<<ToolItem("version_mismatch", TRUE, FALSE)>>, 0) }
MCQuestions == {[owner |-> "we", classes |-> {"tool-identity", "coverage-accounting"}],
    [owner |-> "we", classes |-> {"change-history", "archive-integrity", "gateway-decisions"}], [owner |-> "customer", classes |-> {}]}

---------------------------------------------------------------------------------
(* Lines and an index for the MCP server: a package in two versions, one
   of them called clean without a measurement, and a record that
   contradicts itself. *)
P(v) == [name |-> "p", version |-> v]
Scan(required, status) == [required |-> required, status |-> status]
MCRecords == <<
    [server |-> "s", packages |-> {P("1")}, verdict |-> "clean", findings |-> <<>>,
     execution |-> [state |-> "complete", scans |-> <<Scan(TRUE, "completed"), Scan(FALSE, "skipped")>>]],
    [server |-> "s", packages |-> {P("2")}, verdict |-> "clean", findings |-> <<>>, execution |-> Absent],
    [server |-> "t", packages |-> {}, verdict |-> "incomplete", findings |-> <<"high", "unrecorded">>,
     execution |-> [state |-> "complete", scans |-> <<Scan(TRUE, "failed")>>]] >>

NoArgs == [server |-> Absent, package |-> Absent, version |-> Absent, tools |-> 0, directory |-> FALSE]
Req(size, id, method, name, args) ==
    [form |-> "request", size |-> size, id |-> id, method |-> method, name |-> name, args |-> args]
Call(size, id, name, args) == Req(size, id, "tools/call", name, args)
Other(form, size) == [form |-> form, size |-> size, id |-> "b", method |-> "other", name |-> "none", args |-> NoArgs]
MCClientLines == {
    Call(2, "a", "lookup_server", [NoArgs EXCEPT !.package = "p", !.version = "1"]),
    Call(1, "b", "coverage_report", NoArgs),
    Call(3, "a", "check_project", [NoArgs EXCEPT !.directory = TRUE]),
    Other("blank", 1),
    Req(1, "b", "other", "none", NoArgs), Req(1, Absent, "ping", "none", NoArgs),
    Other("batch", 1), Other("garbage", 1) }
(* The id and the name of the package may be cut in two. *)
MCGarbled == [line \in {l \in MCClientLines : l.name = "lookup_server"} |->
    [at |-> 1, text |-> [line EXCEPT !.id = "a?", !.args.package = "p?"]]]

---------------------------------------------------------------------------------
(* What the health check may find: a service that is well, and one that
   does not answer. *)
Fine == [captures |-> 1, age |-> 1, stale |-> FALSE, gaps |-> 0]
HealthBody(ok, records, dated, history) == [ok |-> ok, records |-> records, dated |-> dated, history |-> history]
SomeAnswers == {Unreachable,
                HealthBody(TRUE, "positive", TRUE, Fine)}
SomeArchives == {{[archive |-> TRUE, age |-> BackupMaxAge], [archive |-> FALSE, age |-> 0]}, {}}
OneSite == {[site \in {"index"} |-> 200]}

---------------------------------------------------------------------------------
Programs == {"backup", "check", "history", "audit", "watch", "review", "page", "pack", "mcp"}

(* What a program that is not run would find is as small as it can be, and *)
(* nothing is wrong with it.  The two sizes of an index are alike, so an   *)
(* archive that is there at the start is of the first.                     *)
AWorld == CHOOSE w \in Worlds : BadSources(w) = {}
ASubject == CHOOSE s \in Subjects : TRUE

CommandsInit ==
    /\ program \in Programs
    /\ BackupInit /\ archives # <<HandMade(2)>> /\ (program # "backup" => index = NoIndex /\ archives = <<>>)
    /\ HealthInit /\ (program # "check" => configured /\ world = AWorld)
    /\ HistoryInit
    /\ AuditInit /\ (program # "audit" => subject = ASubject)
    /\ WatchInit
    /\ ReviewInit /\ (program # "review" => current = <<>> /\ baseline = NoBaseline)
    /\ PageInit /\ (program # "page" => pageIndex = Nil)
    /\ PackInit
    /\ McpInit

CommandsNext ==
    /\ program' = program
    /\ IF program = "backup" THEN BackupNext ELSE UNCHANGED backupVars
    /\ IF program = "check" THEN HealthNext ELSE UNCHANGED healthVars
    /\ IF program = "history" THEN HistoryNext ELSE UNCHANGED historyVars
    /\ IF program = "audit" THEN AuditNext ELSE UNCHANGED auditVars
    /\ IF program = "watch" THEN WatchNext ELSE UNCHANGED watchVars
    /\ IF program = "review" THEN ReviewNext ELSE UNCHANGED reviewVars
    /\ IF program = "page" THEN PageNext ELSE UNCHANGED pageVars
    /\ IF program = "pack" THEN PackNext ELSE UNCHANGED packVars
    /\ IF program = "mcp" THEN McpNext ELSE UNCHANGED mcpVars

commandsVars == <<program, backupVars, healthVars, historyVars, auditVars, watchVars, reviewVars, pageVars, packVars, mcpVars>>

CommandsSpec ==
    /\ CommandsInit /\ [][CommandsNext]_commandsVars
    /\ McpFairness
    /\ RunFairness
    /\ WF_healthVars(program = "check" /\ Start) /\ WF_healthVars(program = "check" /\ Hour)
=================================================================================
