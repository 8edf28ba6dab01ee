------------------------------ MODULE GatewayProps ------------------------------
(***************************************************************************)
(* What the gateway must never do, whatever the chunks, the interleaving   *)
(* of the two streams and the moment it dies.                              *)
(***************************************************************************)
EXTENDS Gateway

(* What the lines of either side can be read as.                           *)
ClientReadings(line) == Readings(line, ClientGarbled)
ServerReadings(line) == Readings(line, ServerGarbled)
Texts(lines, garbled) == UNION {Readings(line, garbled) : line \in lines}
ClientTexts == Texts(ClientLines, ClientGarbled)
ServerTexts == Texts(ServerLines, ServerGarbled)

Effects == [sink : {"log"}, decision : {"allowed", "refused", "refused batch", "removed"},
            tool : Tools \cup {NoName}]
           \cup [sink : {"server", "refusal"}, request : ClientTexts]
           \cup [sink : {"client"}, response : ServerLine]

Fragment(lines) == [line : lines, newline : BOOLEAN]

(* The types of the gateway's state; toServer only ever holds whole lines  *)
(* the client wrote, or what a chunk that cut a character made of one.     *)
TypeOK ==
    /\ up \in BOOLEAN /\ serverUp \in BOOLEAN
    /\ clientPipe \in Seq(Fragment(ClientLines))
    /\ clientBuffer \in Seq(Fragment(ClientTexts))
    /\ serverPipe \in Seq(Fragment(ServerLines))
    /\ serverBuffer \in Seq(Fragment(ServerTexts))
    /\ todo \in Seq(Effects)
    /\ toServer \in Seq(ClientTexts)
    /\ toClient \in Seq([from : {"gateway"}, request : ClientTexts]
                        \cup [from : {"server"}, response : ServerLine])
    /\ callLog \in Seq([decision : {"allowed", "refused", "refused batch", "removed", "exit"},
                        tool : Tools \cup {NoName}])
    /\ stats \in [allowed : Nat, refused : Nat, toolsRemoved : Nat]
    /\ sent \in Seq(ClientLines)
    /\ served \in Seq(ServerLines)

(* "a forbidden call never reaches the server" (proxy.test.mjs): no line   *)
(* written to the server's stdin carries a call the policy refuses, alone  *)
(* or inside a batch, however the client's bytes were chunked.             *)
CarriesRefused(line) ==
    \E j \in DOMAIN line.msgs : line.msgs[j].method = "tools/call" /\ ~Allowed(line.msgs[j].tool)
NoForbiddenReachesServer == \A i \in DOMAIN toServer : ~CarriesRefused(toServer[i])

(* No tool the policy forbids is ever advertised to the client, in a       *)
(* response or in a batch of responses.                                    *)
NoForbiddenAdvertised ==
    \A i \in DOMAIN toClient : toClient[i].from = "server" =>
        \A j \in DOMAIN toClient[i].response.msgs :
            \A t \in toClient[i].response.msgs[j] : Allowed(t)

(* The messages of a stream that come from one side, in their order.       *)
Of(stream, side) == {i \in DOMAIN stream : stream[i].from = side}
Rank(stream, side, i) == Cardinality({k \in Of(stream, side) : k <= i})
Nth(stream, side, n) == CHOOSE i \in Of(stream, side) : Rank(stream, side, i) = n
Selected(stream, side) ==
    [n \in 1..Cardinality(Of(stream, side)) |-> stream[Nth(stream, side, n)]]

(* How often a decision about a tool is in the log; the calls that the     *)
(* lines of a stream carry, each at its place, and those of a tool.        *)
Logged(decision, tool) ==
    Cardinality({i \in DOMAIN callLog : callLog[i] = [decision |-> decision, tool |-> tool]})
CallsIn(stream) == UNION {{i} \X Calls(stream[i]) : i \in DOMAIN stream}
CallsOf(stream, tool) == Cardinality({call \in CallsIn(stream) : call[2][2] = tool})
Answers == Selected(toClient, "gateway")
Refusals == [i \in DOMAIN Answers |-> Answers[i].request]

(* The log is written ahead: whenever a call has reached the server, or a  *)
(* refusal the client, the log already holds a decision for it, even if    *)
(* the gateway dies between two effects; and the log never runs ahead by   *)
(* more than the line being handled.  Of appends that succeed (~LogFails). *)
LogWrittenAhead ==
    \A tool \in Tools \cup {NoName} :
        /\ CallsOf(toServer, tool) <= Logged("allowed", tool)
        /\ CallsOf(Refusals, tool) <= Logged("refused", tool)
        /\ todo = <<>> => /\ CallsOf(toServer, tool) = Logged("allowed", tool)
                          /\ CallsOf(Refusals, tool) = Logged("refused", tool)

(* The counters handed to onExit agree with the streams once a line is     *)
(* done with: allowed counts the calls forwarded, refused every call of a  *)
(* refused line (a refused batch counts its allowed members too).          *)
CallCount(stream) == Cardinality(CallsIn(stream))
StatsAgree ==
    todo = <<>> => /\ stats.allowed = CallCount(toServer)
                   /\ stats.refused = CallCount(Refusals)

(* The gateway is the policy's filter: every line is forwarded or answered *)
(* exactly once, in order, as it was read and by the verdict on what was   *)
(* read, which is the line itself unless it has a character of several     *)
(* bytes.  A line is pending in the abstract filter until its last effect  *)
(* is carried out.                                                         *)
Decided == Len(toServer) + Len(Refusals)
Filter == INSTANCE PolicyFilter
    WITH Lines <- ClientLines, Readings <- ClientReadings,
         Passing <- {text \in ClientTexts : ~CarriesRefused(text)},
         pending <- SubSeq(sent, Decided + 1, Len(sent)),
         delivered <- toServer, refused <- Refusals
FilterSpec == Filter!Spec

(* What was read of the server's lines reaches the client filtered, in     *)
(* order, once.                                                            *)
FromServer == Selected(toClient, "server")
ServerStreamFiltered ==
    /\ Len(FromServer) <= Len(served)
    /\ \A i \in DOMAIN FromServer : \E text \in ServerReadings(served[i]) : FromServer[i].response = Filtered(text)

(* "forwards the conversation, and intervenes in exactly two places"       *)
(* (proxy.mjs): what reaches the server is what the client wrote.  Not so  *)
(* when a chunk ends inside a character.                                   *)
ForwardedAsWritten == \A i \in DOMAIN toServer : \E j \in DOMAIN sent : toServer[i] = sent[j]

(* Every line the client finished is decided, unless the gateway dies.     *)
EveryLineDecided == \A n \in 1..MaxClient : Len(sent) >= n ~> Decided >= n \/ ~up

(* What was decided, what was logged and what was counted agree: the log   *)
(* is written ahead of every effect and the counters match the streams.    *)
LogAndStatsAgree == LogWrittenAhead /\ StatsAgree
================================================================================
