------------------------------ MODULE IndexQueries ------------------------------
(***************************************************************************)
(* What the routes of packages/service/src/server.mjs answer from an       *)
(* index.  A name is a model value; which names contain which, ignoring    *)
(* case, is a constant.                                                    *)
(***************************************************************************)
EXTENDS Integers, Sequences, SequencesExt

CONSTANTS
    Within,       \* pairs <<a, b>>: the name a occurs in the name b
    NoName        \* a record whose server is not a string

Reasons == {"failed", "not_run"}
Known == {"clean", "findings", "incomplete"}
Verdicts == Known \cup {"other"}
Executions == {"complete", "incomplete", "absent"}

Record == [server : {pair[1] : pair \in Within} \cup {NoName}, kind : {"registry", "repositories"},
           verdict : Verdicts, execution : Executions, missing : Seq(Reasons)]

matchRecords(records, q) ==
    LET usable == SelectSeq(records, LAMBDA r : r.server # NoName)
        exact == SelectSeq(usable, LAMBDA r : r.server = q)
    IN  IF exact # <<>> THEN exact ELSE SelectSeq(usable, LAMBDA r : <<q, r.server>> \in Within)

Counts(records) ==
    [count |-> Len(records),
     verdicts |-> [v \in Verdicts |-> Len(SelectSeq(records, LAMBDA r : r.verdict = v))],
     execution |-> [e \in Executions |-> Len(SelectSeq(records, LAMBDA r : r.execution = e))]]

(* Only the components of an incomplete execution are asked for a reason.  *)
ByReason(records) ==
    LET missing == FlattenSeq([i \in DOMAIN records |->
                       IF records[i].execution = "incomplete" THEN records[i].missing ELSE <<>>])
    IN  [reason \in Reasons |-> Len(SelectSeq(missing, LAMBDA x : x = reason))]

Summary(index) ==
    [all |-> Counts(index.records),
     byReason |-> ByReason(index.records),
     sources |-> [kind \in {"registry", "repositories"} |->
                    Counts(SelectSeq(index.records, LAMBDA r : r.kind = kind))]]

(* limit is what Number() made of the parameter; zero and NaN become 50.   *)
(* slice(0, n) with a negative n leaves out the last ones.                 *)
Listed(records, limit) ==
    LET most == IF limit = 0 THEN 50 ELSE IF limit > 500 THEN 500 ELSE limit
        shown == IF most < 0 THEN Len(records) + most ELSE most
    IN  [count |-> Len(records),
         returned |-> IF Len(records) < most THEN Len(records) ELSE most,
         rows |-> SubSeq(records, 1, IF shown < Len(records) THEN shown ELSE Len(records))]

ListServers(index, query) ==
    LET matching == IF query.name = NoName THEN index.records ELSE matchRecords(index.records, query.name)
    IN  Listed(IF query.verdict = "any" THEN matching
               ELSE SelectSeq(matching, LAMBDA r : r.verdict = query.verdict), query.limit)

(* Status and body. *)
Server(index, name) ==
    LET matching == matchRecords(index.records, name)
    IN  CASE Len(matching) = 0 -> [status |-> 404, body |-> [matches |-> <<>>]]
          [] Len(matching) > 1 -> [status |-> 300, body |-> [matches |-> SubSeq(matching, 1, IF Len(matching) < 25 THEN Len(matching) ELSE 25)]]
          [] OTHER -> [status |-> 200, body |-> [matches |-> matching]]

(* The word on the badge. *)
Badge(index, name) ==
    LET matching == matchRecords(index.records, name)
    IN  IF Len(matching) = 1 /\ matching[1].verdict \in Known THEN matching[1].verdict ELSE "unknown"
===============================================================================
