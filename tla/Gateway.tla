-------------------------------- MODULE Gateway --------------------------------
(***************************************************************************)
(* The stdio gateway of packages/gateway: proxy.mjs in front of an MCP     *)
(* server, deciding with decide.mjs.                                       *)
(*                                                                         *)
(* Two byte streams run through it.  A stream is a sequence of fragments:  *)
(* a line is written as its first half and then its second half, the one   *)
(* that carries the newline, and a data event delivers any number of       *)
(* fragments, so a chunk may end inside a line or hold several.  Each      *)
(* chunk is decoded on its own (chunk.toString()), so where the halves of  *)
(* a line meet inside a character of several bytes, a chunk that ends      *)
(* there makes another text of it (ClientGarbled, ServerGarbled).  A blank *)
(* line is skipped by both loops and counts here as a part of the line     *)
(* after it.  A data event runs to completion: its loop takes every        *)
(* complete line out of the buffer (HandleClientLine, HandleServerLine)    *)
(* and the effects of a line are carried out one by one (Effect) before    *)
(* any other event is served; only the death of the process can come in    *)
(* between.                                                                *)
(***************************************************************************)
EXTENDS Naturals, Sequences, SequencesExt

CONSTANTS
    Tools,          \* tool names
    NoName,         \* a call whose name is missing, empty or not a string
    Patterns,       \* the patterns of policy.forbiddenTools
    Matches,        \* pattern -> the tools it matches
    ClientLines,    \* lines the client may write
    ServerLines,    \* lines the server may write
    ClientGarbled,  \* the client's lines whose halves meet inside a character ->
                    \* the text each becomes when its halves are decoded apart
    ServerGarbled,  \* the same of the server's lines
    LogFails,       \* TRUE: an append to the log may fail
    MaxClient,      \* bound: lines written by the client
    MaxServer       \* bound: lines written by the server

(* A client message is [method, tool, id]; a server message is the set of  *)
(* tools it advertises, empty unless it is a tools/list result; a line is  *)
(* unparseable, one message, or a batch.                                   *)
ClientMsg == [method : {"tools/call", "other"}, tool : Tools \cup {NoName}, id : Nat]
ClientLine == [kind : {"junk", "single", "batch"}, msgs : Seq(ClientMsg)]
ServerLine == [kind : {"junk", "single", "batch"}, msgs : Seq(SUBSET Tools)]

ASSUME GatewayAssumption ==
    /\ IsFiniteSet(Tools)
    /\ Matches \in [Patterns -> SUBSET Tools]
    /\ ClientLines \subseteq ClientLine
    /\ ServerLines \subseteq ServerLine
    /\ \A line \in DOMAIN ClientGarbled : ClientGarbled[line] \in ClientLine
    /\ \A line \in DOMAIN ServerGarbled : ServerGarbled[line] \in ServerLine
    /\ LogFails \in BOOLEAN
    /\ NoName \notin Tools

VARIABLES
    up,             \* the gateway process is running
    serverUp,       \* the spawned server is running
    clientPipe,     \* fragments the client wrote, not read yet
    clientBuffer,   \* clientBuffer of the code
    serverPipe,     \* fragments the server wrote, not read yet
    serverBuffer,   \* serverBuffer of the code
    todo,           \* effects of the line being handled, not carried out yet
    toServer,       \* lines written to the server's stdin
    toClient,       \* what was written to the client
    callLog,        \* the call log on disk
    stats,          \* the counters handed to onExit
    sent,           \* history: lines the client wrote
    served          \* history: lines the server wrote

streams == <<clientPipe, serverPipe, sent, served>>
vars == <<up, serverUp, clientPipe, clientBuffer, serverPipe, serverBuffer, todo,
          toServer, toClient, callLog, stats, sent, served>>

--------------------------------------------------------------------------------
(* decide.mjs *)

Forbidden == UNION {Matches[p] : p \in Patterns}

(* decideToolCall: a call without a tool name is refused as well. *)
Allowed(tool) == tool # NoName /\ tool \notin Forbidden

(* filterTools keeps what decideToolCall allows. *)
FilterTools(tools) == {t \in tools : Allowed(t)}

--------------------------------------------------------------------------------
(* proxy.mjs *)

(* Mutant of Calls: a batch has no method, so no call is seen in it. *)
MutCalls(line) ==
    IF line.kind = "batch" THEN {}
    ELSE {<<i, line.msgs[i].tool>> :
             i \in {j \in DOMAIN line.msgs : line.msgs[j].method = "tools/call"}}

(* Where a line carries tool calls, with the tool each one names. *)
Calls(line) ==
    {<<i, line.msgs[i].tool>> : i \in {j \in DOMAIN line.msgs : line.msgs[j].method = "tools/call"}}

Passes(line) == \A call \in Calls(line) : Allowed(call[2])

Log(decision, tool) == [sink |-> "log", decision |-> decision, tool |-> tool]
Forward(line) == [sink |-> "server", request |-> line]
Refuse(line) == [sink |-> "refusal", request |-> line]
PassOn(line) == [sink |-> "client", response |-> line]

(* One log entry for each <<position, tool>>. *)
LogEach(decision, positions) ==
    LET s == SetToSeq(positions) IN [k \in 1..Len(s) |-> Log(decision, s[k][2])]

(* Mutant of ClientEffects: the line is forwarded before it is logged. *)
MutClientEffects(line) ==
    IF Passes(line)
    THEN <<Forward(line)>> \o LogEach("allowed", Calls(line))
    ELSE LogEach("refused", Calls(line))
         \o (IF line.kind = "batch" THEN <<Log("refused batch", NoName)>> ELSE <<>>)
         \o <<Refuse(line)>>

(* handleClientLine, as the effects it has, in order: an unparseable line  *)
(* is forwarded as it is; a refused line is logged and answered; an        *)
(* allowed one is logged and then forwarded.                               *)
ClientEffects(line) ==
    IF Passes(line)
    THEN LogEach("allowed", Calls(line)) \o <<Forward(line)>>
    ELSE LogEach("refused", Calls(line))
         \o (IF line.kind = "batch" THEN <<Log("refused batch", NoName)>> ELSE <<>>)
         \o <<Refuse(line)>>

(* Mutant of Filtered: only a response that is not in a batch is filtered. *)
MutFiltered(line) ==
    IF line.kind = "batch" THEN line
    ELSE [line EXCEPT !.msgs = [i \in DOMAIN line.msgs |-> FilterTools(line.msgs[i])]]

(* filterMessage on every member of what the server sent. *)
Filtered(line) ==
    [line EXCEPT !.msgs = [i \in DOMAIN line.msgs |-> FilterTools(line.msgs[i])]]

RemovedTools(line) ==
    {p \in (DOMAIN line.msgs) \X Tools : p[2] \in line.msgs[p[1]] /\ ~Allowed(p[2])}

(* handleServerLine: the removals are logged, the rest is passed on. *)
ServerEffects(line) ==
    LogEach("removed", RemovedTools(line)) \o <<PassOn(Filtered(line))>>

(* Lines as fragments; what a chunk of them is decoded to; what a line can *)
(* be read as; and the first complete line of a buffer.                    *)
Fragments(line) == <<[line |-> line, newline |-> FALSE], [line |-> line, newline |-> TRUE]>>
Decoded(chunk, garbled) ==
    IF chunk[1].newline /\ chunk[1].line \in DOMAIN garbled
    THEN [chunk EXCEPT ![1].line = garbled[@]] ELSE chunk
Readings(line, garbled) == {line} \cup {garbled[l] : l \in {line} \cap DOMAIN garbled}
HasLine(buffer) == \E i \in DOMAIN buffer : buffer[i].newline
NewlineAt(buffer) == CHOOSE i \in DOMAIN buffer :
    /\ buffer[i].newline
    /\ \A j \in 1..(i - 1) : ~buffer[j].newline
Truncated == [kind |-> "truncated", msgs |-> <<>>]
FirstLine(buffer, garbled) ==
    LET k == NewlineAt(buffer)
    IN  IF k = 2 /\ buffer[k].line \in Readings(buffer[1].line, garbled)
        THEN buffer[k].line ELSE Truncated
(* Mutant of Rest: what follows the first line of a chunk is dropped. *)
MutRest(buffer) == <<>>
Rest(buffer) == SubSeq(buffer, NewlineAt(buffer) + 1, Len(buffer))

Idle == up /\ todo = <<>> /\ ~HasLine(clientBuffer) /\ ~HasLine(serverBuffer)

--------------------------------------------------------------------------------
(* Mutant of Init: the counters start without toolsRemoved. *)
MutInit ==
    /\ up = TRUE /\ serverUp = TRUE
    /\ clientPipe = <<>> /\ clientBuffer = <<>>
    /\ serverPipe = <<>> /\ serverBuffer = <<>>
    /\ todo = <<>> /\ toServer = <<>> /\ toClient = <<>> /\ callLog = <<>>
    /\ stats = [allowed |-> 0, refused |-> 0]
    /\ sent = <<>> /\ served = <<>>

Init ==
    /\ up = TRUE /\ serverUp = TRUE
    /\ clientPipe = <<>> /\ clientBuffer = <<>>
    /\ serverPipe = <<>> /\ serverBuffer = <<>>
    /\ todo = <<>> /\ toServer = <<>> /\ toClient = <<>> /\ callLog = <<>>
    /\ stats = [allowed |-> 0, refused |-> 0, toolsRemoved |-> 0]
    /\ sent = <<>> /\ served = <<>>

(* The client writes one line. *)
ClientWrite(line) ==
    /\ Len(sent) < MaxClient
    /\ clientPipe' = clientPipe \o Fragments(line)
    /\ sent' = Append(sent, line)
    /\ UNCHANGED <<up, serverUp, clientBuffer, serverPipe, serverBuffer, todo,
                   toServer, toClient, callLog, stats, served>>

(* The server writes one line, whatever it was or was not asked. *)
ServerWrite(line) ==
    /\ serverUp /\ Len(served) < MaxServer
    /\ serverPipe' = serverPipe \o Fragments(line)
    /\ served' = Append(served, line)
    /\ UNCHANGED <<up, serverUp, clientPipe, clientBuffer, serverBuffer, todo,
                   toServer, toClient, callLog, stats, sent>>

(* onClientData: a chunk of n fragments is decoded and joins the buffer. *)
ClientData(n) ==
    /\ Idle
    /\ clientBuffer' = clientBuffer \o Decoded(SubSeq(clientPipe, 1, n), ClientGarbled)
    /\ clientPipe' = SubSeq(clientPipe, n + 1, Len(clientPipe))
    /\ UNCHANGED <<up, serverUp, serverPipe, serverBuffer, todo, toServer,
                   toClient, callLog, stats, sent, served>>

(* Mutant of ServerData: the chunk replaces the buffer. *)
MutServerData(n) ==
    /\ Idle
    /\ serverBuffer' = Decoded(SubSeq(serverPipe, 1, n), ServerGarbled)
    /\ serverPipe' = SubSeq(serverPipe, n + 1, Len(serverPipe))
    /\ UNCHANGED <<up, serverUp, clientPipe, clientBuffer, todo, toServer,
                   toClient, callLog, stats, sent, served>>

(* onServerData *)
ServerData(n) ==
    /\ Idle
    /\ serverBuffer' = serverBuffer \o Decoded(SubSeq(serverPipe, 1, n), ServerGarbled)
    /\ serverPipe' = SubSeq(serverPipe, n + 1, Len(serverPipe))
    /\ UNCHANGED <<up, serverUp, clientPipe, clientBuffer, todo, toServer,
                   toClient, callLog, stats, sent, served>>

(* One turn of the loop in onClientData: the next complete line leaves the *)
(* buffer and handleClientLine counts it; its effects are in todo.         *)
HandleClientLine ==
    /\ up /\ todo = <<>> /\ HasLine(clientBuffer)
    /\ clientBuffer' = Rest(clientBuffer)
    /\ LET line == FirstLine(clientBuffer, ClientGarbled)
           n == Cardinality(Calls(line))
       IN  /\ todo' = ClientEffects(line)
           /\ stats' = IF Passes(line) THEN [stats EXCEPT !.allowed = @ + n]
                                       ELSE [stats EXCEPT !.refused = @ + n]
    /\ UNCHANGED <<up, serverUp, serverBuffer, toServer, toClient, callLog, streams>>

(* One turn of the loop in onServerData. *)
HandleServerLine ==
    /\ up /\ todo = <<>> /\ HasLine(serverBuffer)
    /\ serverBuffer' = Rest(serverBuffer)
    /\ LET line == FirstLine(serverBuffer, ServerGarbled)
       IN  /\ todo' = ServerEffects(line)
           /\ stats' = [stats EXCEPT !.toolsRemoved = @ + Cardinality(RemovedTools(line))]
    /\ UNCHANGED <<up, serverUp, clientBuffer, toServer, toClient, callLog, streams>>

(* log(): a failed append is swallowed. *)
AppendLog(effect) ==
    /\ \/ callLog' = Append(callLog, [decision |-> effect.decision, tool |-> effect.tool])
       \/ LogFails /\ UNCHANGED callLog
    /\ UNCHANGED <<toServer, toClient>>

(* The next effect of the line being handled. *)
Effect ==
    /\ up /\ todo # <<>>
    /\ LET effect == Head(todo)
       IN  CASE effect.sink = "log" -> AppendLog(effect)
             [] effect.sink = "server" ->
                    toServer' = Append(toServer, effect.request) /\ UNCHANGED <<toClient, callLog>>
             [] effect.sink = "refusal" ->
                    /\ toClient' = Append(toClient, [from |-> "gateway", request |-> effect.request])
                    /\ UNCHANGED <<toServer, callLog>>
             [] effect.sink = "client" ->
                    /\ toClient' = Append(toClient, [from |-> "server", response |-> effect.response])
                    /\ UNCHANGED <<toServer, callLog>>
    /\ todo' = Tail(todo)
    /\ UNCHANGED <<up, serverUp, clientBuffer, serverBuffer, stats, streams>>

(* The server's process ends on its own. *)
ServerExit ==
    /\ serverUp /\ serverUp' = FALSE
    /\ UNCHANGED <<up, clientPipe, clientBuffer, serverPipe, serverBuffer, todo,
                   toServer, toClient, callLog, stats, sent, served>>

(* child.on("exit"): the exit is logged and onExit ends the gateway.  Node *)
(* raises "exit" when the process is gone, which may be before its stdout  *)
(* has been read to the end.                                               *)
OnChildExit ==
    /\ Idle /\ ~serverUp
    /\ up' = FALSE
    /\ \/ callLog' = Append(callLog, [decision |-> "exit", tool |-> NoName])
       \/ LogFails /\ UNCHANGED callLog
    /\ UNCHANGED <<serverUp, clientPipe, clientBuffer, serverPipe, serverBuffer,
                   todo, toServer, toClient, stats, sent, served>>

(* The gateway is killed, possibly between two effects of one line. *)
Killed ==
    /\ up /\ up' = FALSE
    /\ UNCHANGED <<serverUp, clientPipe, clientBuffer, serverPipe, serverBuffer,
                   todo, toServer, toClient, callLog, stats, sent, served>>

Next ==
    \/ \E line \in ClientLines : ClientWrite(line)
    \/ \E line \in ServerLines : ServerWrite(line)
    \/ \E n \in 1..Len(clientPipe) : ClientData(n)
    \/ \E n \in 1..Len(serverPipe) : ServerData(n)
    \/ HandleClientLine \/ HandleServerLine \/ Effect
    \/ ServerExit \/ OnChildExit \/ Killed

Spec == Init /\ [][Next]_vars

(* Node serves every stream that has data, and runs a handler to its end;  *)
(* nothing obliges the client or the server to write, or to stop.          *)
Fairness ==
    /\ SF_vars(\E n \in 1..Len(clientPipe) : ClientData(n))
    /\ SF_vars(\E n \in 1..Len(serverPipe) : ServerData(n))
    /\ WF_vars(HandleClientLine) /\ WF_vars(HandleServerLine) /\ WF_vars(Effect)
    /\ WF_vars(OnChildExit)

FairSpec == Spec /\ Fairness
================================================================================
