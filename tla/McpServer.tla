------------------------------- MODULE McpServer -------------------------------
(***************************************************************************)
(* The MCP server on stdio: packages/mcp/src/server.mjs and protocol.mjs.  *)
(*                                                                         *)
(* A line is cut into pieces by the pipe; the piece k of the i-th line is  *)
(* <<i, k>>, its newline <<i, 0>>.  What a chunk brings is handled in one  *)
(* callback; the answers to messages are microtasks, which all run before  *)
(* the next chunk or the end of the input is seen.  Each chunk is decoded  *)
(* on its own (chunk.toString()): a character of several bytes that lies   *)
(* in two chunks becomes other characters, and the line another text.      *)
(***************************************************************************)
EXTENDS McpTools

CONSTANTS
    ClientLines,  \* lines a client may write
    Garbled,      \* those with a character that lies in two of its pieces, at and
                  \* at + 1 -> the text the line becomes when a chunk ends between
    MaxBytes,     \* the limit on a line, in pieces
    MaxLines      \* bound: lines written

ASSUME McpAssumption ==
    /\ MaxBytes \in Nat \ {0} /\ MaxLines \in Nat
    /\ \A line \in ClientLines :
        line.size \in Nat \ {0} /\ line.form \in {"request", "batch", "foreign", "garbage", "blank"}

(* Such a character is inside a string, where only the id and the          *)
(* arguments matter (the names of methods and tools have none), or it is   *)
(* outside of one (a byte-order mark, a space), and the text no JSON.      *)
ASSUME GarbledAssumption ==
    \A line \in DOMAIN Garbled : LET g == Garbled[line] IN
        /\ g.at \in 1..(line.size - 1)
        /\ g.text.size = line.size
        /\ \/ g.text.form = "garbage"
           \/ /\ g.text.form = line.form /\ (g.text.id = Absent <=> line.id = Absent)
              /\ g.text.method = line.method /\ g.text.name = line.name

VARIABLES
    written,      \* the lines the client has written, in order
    pipe,         \* pieces that are written and not read
    buffer,       \* what createLineReader keeps
    cut,          \* pieces with which a chunk ended inside a character
    queue,        \* microtasks: the line of each, and its promises to go
    output,       \* answers, each with the number of the line it answers
    hungUp,       \* whether the client has closed its end, and where
    stopped       \* the end of the input was seen

mcpVars == <<written, pipe, buffer, cut, queue, output, hungUp, stopped>>

(* A line: its form, its length, and the message in it.                    *)
Line == [form : {"request", "batch", "foreign", "garbage", "blank"}, size : Nat \ {0},
         id : {"a", "b", Absent}, method : {"initialize", "ping", "tools/list", "tools/call", "other"},
         name : {"lookup_server", "inventory_tools", "coverage_report", "check_project", "none", "unknown"}]

ToolNames == {"lookup_server", "inventory_tools", "coverage_report", "check_project"}
NoBody == [error |-> FALSE]
Answer(line, id, code, body) == [line |-> line, id |-> id, code |-> code, body |-> body]

McpInit ==
    /\ written = <<>> /\ pipe = <<>> /\ buffer = <<>> /\ cut = {} /\ queue = <<>> /\ output = <<>>
    /\ hungUp = "no" /\ stopped = FALSE

(***************************************************************************)
(* The client.                                                             *)
(***************************************************************************)
Pieces(i, line) == [k \in 1..line.size |-> <<i, k>>]

WriteLine(line) ==
    /\ hungUp = "no" /\ Len(written) < MaxLines
    /\ written' = Append(written, line)
    /\ pipe' = pipe \o Append(Pieces(Len(written) + 1, line), <<Len(written) + 1, 0>>)
    /\ UNCHANGED <<buffer, cut, queue, output, hungUp, stopped>>

HangUp ==
    /\ hungUp = "no"
    /\ hungUp' = "after a line"
    /\ UNCHANGED <<written, pipe, buffer, cut, queue, output, stopped>>

(* It goes away in the middle of a line. *)
HangUpInLine(line) ==
    /\ hungUp = "no" /\ Len(written) < MaxLines
    /\ hungUp' = "in a line"
    /\ pipe' = pipe \o Pieces(Len(written) + 1, line)
    /\ written' = Append(written, line)
    /\ UNCHANGED <<buffer, cut, queue, output, stopped>>

(***************************************************************************)
(* handleMessage: the answer to a message, or none.                        *)
(***************************************************************************)
Called(i, line) ==
    LET out == callTool(line.name, line.args)
    IN  Answer(i, line.id, IF out.error THEN "isError" ELSE "result", out)

(* Mutant: a message without an id is answered too. *)
MuthandleMessage(i, line) ==
    IF line.form # "request" THEN <<Answer(i, IF line.form = "foreign" THEN line.id ELSE Absent, "INVALID_REQUEST", NoBody)>>
    ELSE <<IF line.method = "tools/call" /\ line.name \in ToolNames THEN Called(i, line)
           ELSE Answer(i, line.id, "result", NoBody)>>

handleMessage(i, line) ==
    IF line.form = "batch" THEN <<Answer(i, Absent, "INVALID_REQUEST", NoBody)>>
    ELSE IF line.form = "foreign" THEN <<Answer(i, line.id, "INVALID_REQUEST", NoBody)>>
    ELSE IF line.id = Absent THEN <<>>
    ELSE <<CASE line.method \in {"initialize", "ping", "tools/list"} -> Answer(i, line.id, "result", NoBody)
             [] line.method = "tools/call" /\ line.name \notin ToolNames -> Answer(i, line.id, "INVALID_PARAMS", NoBody)
             [] line.method = "tools/call" /\ line.name \in ToolNames -> Called(i, line)
             [] OTHER -> Answer(i, line.id, "METHOD_NOT_FOUND", NoBody)>>

(* A call of a tool is awaited: one promise more than other messages.      *)
Promises(line) == IF line.form = "request" /\ line.id # Absent /\ line.method = "tools/call" /\ line.name \in ToolNames
                  THEN 1 ELSE 0

(***************************************************************************)
(* The server, and createLineReader: what a chunk brings is handled piece  *)
(* by piece, and nothing else runs before all of it is.  A server here is  *)
(* [buffer, output, queue].                                                *)
(***************************************************************************)
IsNewline(piece) == piece[2] = 0

(* What a line may be read as, and what it is read as.                     *)
Readings(line) == {line} \cup {Garbled[l].text : l \in {line} \cap DOMAIN Garbled}
InCharacter(piece) ==
    LET line == written[piece[1]] IN line \in DOMAIN Garbled /\ piece[2] = Garbled[line].at
ReadAs(i) ==
    LET line == written[i]
    IN  IF line \in DOMAIN Garbled /\ <<i, Garbled[line].at>> \in cut THEN Garbled[line].text ELSE line

Blank(raw) == raw = <<>> \/ ReadAs(raw[1][1]).form = "blank"
Parses(raw) == raw[1][2] = 1 /\ Len(raw) = written[raw[1][1]].size /\ ReadAs(raw[1][1]).form # "garbage"

(* onData: what is too large or no JSON is answered at once.               *)
Refuse(raw, code, server) == [server EXCEPT !.output = Append(@, Answer(raw[1][1], Absent, code, NoBody))]
Later(i, server) == [server EXCEPT !.queue = Append(@, [line |-> i, promises |-> Promises(ReadAs(i))])]
Receive(raw, server) ==
    IF Len(raw) > MaxBytes THEN Refuse(raw, "TOO_LARGE", server)
    ELSE IF ~Parses(raw) THEN Refuse(raw, "PARSE", server)
    ELSE Later(raw[1][1], server)

(* One piece: it is kept, or ends the line that was kept, which is passed  *)
(* on unless it is blank.                                                  *)
Feed(piece, server) ==
    IF ~IsNewline(piece) THEN [server EXCEPT !.buffer = Append(@, piece)]
    ELSE LET emptied == [server EXCEPT !.buffer = <<>>]
         IN  IF Blank(server.buffer) THEN emptied ELSE Receive(server.buffer, emptied)

(* What never ends is given up.                                            *)
Overflow(server) ==
    IF Len(server.buffer) <= MaxBytes THEN server
    ELSE Refuse(server.buffer, "TOO_LARGE", [server EXCEPT !.buffer = <<>>])

push(chunk) ==
    LET fed[k \in 0..Len(chunk)] ==
            IF k = 0 THEN [buffer |-> buffer, output |-> output, queue |-> queue] ELSE Feed(chunk[k], fed[k - 1])
    IN  Overflow(fed[Len(chunk)])

OnData(n) ==
    /\ ~stopped /\ queue = <<>> /\ n \in 1..Len(pipe)
    /\ LET pushed == push(SubSeq(pipe, 1, n))
       IN  buffer' = pushed.buffer /\ output' = pushed.output /\ queue' = pushed.queue
    /\ cut' = cut \cup {piece \in {pipe[n]} : InCharacter(piece)}
    /\ pipe' = SubSeq(pipe, n + 1, Len(pipe))
    /\ UNCHANGED <<written, hungUp, stopped>>

(* answer *)
Microtask ==
    /\ queue # <<>>
    /\ LET task == Head(queue)
       IN  IF task.promises > 0
           THEN /\ queue' = Append(Tail(queue), [task EXCEPT !.promises = @ - 1])
                /\ output' = output
           ELSE /\ queue' = Tail(queue)
                /\ output' = output \o handleMessage(task.line, ReadAs(task.line))
    /\ UNCHANGED <<written, pipe, buffer, cut, hungUp, stopped>>

(* Mutant: it stops as soon as the client hangs up. *)
MutStop ==
    /\ hungUp # "no" /\ queue = <<>> /\ ~stopped
    /\ stopped' = TRUE
    /\ UNCHANGED <<written, pipe, buffer, cut, queue, output, hungUp>>

(* A line that was never finished is dropped. *)
Stop ==
    /\ hungUp # "no" /\ pipe = <<>> /\ queue = <<>> /\ ~stopped
    /\ stopped' = TRUE
    /\ UNCHANGED <<written, pipe, buffer, cut, queue, output, hungUp>>

McpNext ==
    \/ \E line \in ClientLines : WriteLine(line) \/ HangUpInLine(line)
    \/ HangUp \/ Stop \/ Microtask
    \/ \E n \in 1..Len(pipe) : OnData(n)

(* node reads what is in the pipe, and runs its microtasks.                *)
McpFairness ==
    /\ WF_mcpVars(\E n \in 1..Len(pipe) : OnData(n)) /\ WF_mcpVars(Microtask)

McpSpec == McpInit /\ [][McpNext]_mcpVars /\ McpFairness

--------------------------------------------------------------------------------
(* What a client of the MCP server may rely on.                            *)

Small(i) == written[i].size <= MaxBytes
(* The client ended every line, but for the one in which it went away.     *)
Ended(i) == i <= Len(written) /\ (i < Len(written) \/ hungUp # "in a line")
AnswersTo(i) == {k \in DOMAIN output : output[k].line = i}
Expected(line) == line.form # "blank" /\ (line.form = "request" => line.id # Absent)
IdOf(line) == IF line.form \in {"request", "foreign"} THEN line.id ELSE Absent

Kind(answer) ==
    IF answer.code \in {"TOO_LARGE", "PARSE"} THEN "at once"
    ELSE IF answer.code \in {"isError"} \/ answer.body # NoBody THEN "tool" ELSE "plain"

(***************************************************************************)
(* Types; the messages that wait for their microtask are lines that fit.   *)
(***************************************************************************)
McpTypeOK ==
    /\ written \in Seq(ClientLines) /\ \A piece \in cut : piece[1] \in DOMAIN written /\ InCharacter(piece)
    /\ hungUp \in {"no", "after a line", "in a line"} /\ stopped \in BOOLEAN
    /\ \A i \in DOMAIN pipe : pipe[i][1] \in DOMAIN written /\ pipe[i][2] \in 0..written[pipe[i][1]].size
    /\ \A i \in DOMAIN buffer : buffer[i][2] # 0 /\ buffer[i][1] = buffer[1][1]
    /\ \A i \in DOMAIN queue : Small(queue[i].line) /\ queue[i].promises \in 0..1
    /\ \A i \in DOMAIN output : output[i].line \in DOMAIN written

(***************************************************************************)
(* However the pipe cuts the lines, each that fits the limit is taken for  *)
(* one of its readings and by that answered at most once and with its own  *)
(* id, a notification, an empty line and a line that never ended not at    *)
(* all; when nothing is under way, each that wants an answer has had it.   *)
(* (protocol.mjs: "a client that gets no answer waits forever")            *)
(***************************************************************************)
AnsweredOnceEach ==
    \A i \in DOMAIN written : Small(i) => \E text \in Readings(written[i]) :
        /\ Cardinality(AnswersTo(i)) <= (IF Expected(text) /\ Ended(i) THEN 1 ELSE 0)
        /\ \A k \in AnswersTo(i) : output[k].id = IdOf(text)
        /\ pipe = <<>> /\ queue = <<>> /\ Expected(text) /\ Ended(i) => Cardinality(AnswersTo(i)) = 1

(***************************************************************************)
(* A line above the limit is refused without its message ever being acted  *)
(* on, in whatever pieces it arrives.                                      *)
(***************************************************************************)
OversizeNeverRuns ==
    \A k \in DOMAIN output : ~Small(output[k].line) => output[k].code \in {"TOO_LARGE", "PARSE"} /\ output[k].id = Absent

(***************************************************************************)
(* Answers of one kind keep the order of their lines: refusals, answers    *)
(* that need no tool, and answers of tools each among themselves.          *)
(***************************************************************************)
KindsInOrder ==
    \A k, l \in DOMAIN output : k < l /\ Kind(output[k]) = Kind(output[l]) => output[k].line <= output[l].line

(***************************************************************************)
(* A line that never ends does not make the buffer grow past the limit     *)
(* between two reads.                                                      *)
(***************************************************************************)
BufferBounded == Len(buffer) <= MaxBytes

(***************************************************************************)
(* lookup_server: what it lists is what the line, as it was read, asks     *)
(* for, version and all, each record as the index has it, its verdict and  *)
(* its coverage; it says "not found" only when no record has the name, and *)
(* a single one only when there is no second.                              *)
(***************************************************************************)
Wanted(record, args) ==
    /\ args.server \in {Absent, record.server}
    /\ args.package # Absent => {p \in record.packages : p.name = args.package /\ args.version \in {Absent, p.version}} # {}
IsLookup(k) ==
    LET line == written[output[k].line]
    IN  output[k].code = "result" /\ line.method = "tools/call" /\ line.name = "lookup_server"
LookupHonest ==
    \A k \in DOMAIN output :
        LET body == output[k].body
            wanted(text) == {i \in DOMAIN Records : Wanted(Records[i], text.args)}
        IN  IsLookup(k) => \E text \in Readings(written[output[k].line]) :
                /\ output[k].id = text.id
                /\ body.found <=> wanted(text) # {}
                /\ body.multiple <=> Cardinality(wanted(text)) > 1
                /\ \A i \in DOMAIN body.records : \E w \in wanted(text) : body.records[i] = describeRecord(Records[w])

(***************************************************************************)
(* coverage_report: every record that contradicts itself is noticed: one   *)
(* that is called clean or is said to have findings without a complete     *)
(* measurement, and one that is called complete with a required scan that  *)
(* did not finish.  The states add up to the records.                      *)
(***************************************************************************)
Contradicts(record) ==
    IF record.execution = Absent \/ record.execution.state # "complete" THEN record.verdict \in {"clean", "findings"}
    ELSE \E i \in DOMAIN record.execution.scans :
            record.execution.scans[i].required /\ record.execution.scans[i].status # "completed"
CoverageNotices ==
    \A k \in DOMAIN output :
        output[k].code = "result" /\ written[output[k].line].name = "coverage_report" /\ output[k].body # NoBody =>
            LET body == output[k].body
            IN  /\ body.problems >= Cardinality({i \in DOMAIN Records : Contradicts(Records[i])})
                /\ body.completedRuns <= body.requiredRuns
                /\ body.states["complete"] + body.states["incomplete"] + body.states["absent"] = Len(Records)

(***************************************************************************)
(* Every line that fits, was ended and wants an answer is answered in the  *)
(* end, also when the client closed its end right after writing it.  (A    *)
(* line once written and an answer once given stay.)                       *)
(***************************************************************************)
AnswerComes ==
    \A i \in 1..MaxLines :
        []<>(i \in DOMAIN written /\ Ended(i) /\ Small(i) /\ Expected(written[i]) => AnswersTo(i) # {})

(* Answers are the right ones: one for each line that wants it, in order,  *)
(* none for a line over the limit but its refusal, and what the tools say  *)
(* of the index is what it holds.                                          *)
AnswersAreRight ==
    /\ McpTypeOK
    /\ AnsweredOnceEach /\ OversizeNeverRuns /\ KindsInOrder /\ BufferBounded
    /\ LookupHonest /\ CoverageNotices
===============================================================================
