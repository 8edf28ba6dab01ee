------------------------------ MODULE IndexService ------------------------------
(***************************************************************************)
(* The HTTP service: start.mjs, loadIndex and the routes of server.mjs,    *)
(* the limits and the shutdown of observability.mjs.                       *)
(*                                                                         *)
(* A request is handled in one turn of the event loop, so no other request *)
(* is served in between; the index file does change between the stat and   *)
(* the read of one turn, because other processes write it.  A connection   *)
(* has one request at a time.                                              *)
(***************************************************************************)
EXTENDS RateLimiter, IndexQueries

CONSTANTS
    Clients,      \* addresses, with one connection each
    Local,        \* those of them that are loopback
    Versions,     \* contents of the index
    IndexOf,      \* version -> its records
    SizeOf,       \* version -> bytes, never 0
    Sample,       \* the committed sample: a version, or NoFile
    Requests,     \* requests a client may send
    CoarseClock,  \* two writes of the index may get one modification time
    MaxWrites, MaxRequests, MaxClock,  \* bounds
    NoFile, Torn, NoRequest

ASSUME ServiceAssumption ==
    /\ Local \subseteq Clients
    /\ DOMAIN IndexOf = (Versions \cup {Sample}) \ {NoFile}
    /\ \A v \in DOMAIN IndexOf : IndexOf[v].records \in Seq(Record)
    /\ SizeOf \in [Versions -> Nat \ {0}]
    /\ {NoFile, Torn} \cap Versions = {} /\ NoFile # Torn /\ Sample \notin Versions
    /\ NoRequest \notin Clients /\ NoRequest \notin Requests /\ NoRequest \notin {0, 1}
    /\ CoarseClock \in BOOLEAN
    /\ {MaxWrites, MaxRequests, MaxClock} \subseteq Nat

VARIABLES
    file,         \* the index file: its content, and the stamp (mtime, size)
    cache,        \* the cached index and the stamp it was cached under
    conn,         \* what each connection is doing, and its request
    turn,         \* the request being handled
    answer,       \* the answer that was given last, until it is out
    buckets, clock,
    closing, exit,
    writes, requests,
    during,       \* contents the file had since the turn began
    granted       \* per address: answers allowed by its bucket, and since when

serviceVars == <<file, cache, conn, turn, answer, buckets, clock, closing, exit,
                 writes, requests, during, granted>>
netVars == <<closing, exit>>
countVars == <<writes, requests>>

Stamp == [mtime : 0..MaxWrites * 2, size : Nat]
NoTurn == [client |-> NoRequest, stamp |-> NoFile]
NoCache == [stamp |-> NoFile, data |-> NoFile]
Nothing == [nothing |-> TRUE]
Closed == [state |-> "closed", request |-> NoRequest]

ServiceInit ==
    /\ file \in {[content |-> NoFile, mtime |-> 0]} \cup {[content |-> v, mtime |-> 0] : v \in Versions}
    /\ cache = NoCache
    /\ conn = [c \in Clients |-> Closed]
    /\ turn = NoTurn /\ answer = NoRequest
    /\ buckets = [k \in {} |-> 0] /\ clock = 0
    /\ closing = FALSE /\ exit = NoRequest
    /\ writes = 0 /\ requests = 0
    /\ during = {} /\ granted = [k \in {} |-> 0]

Running == exit = NoRequest
Move(c, from, to) == conn[c].state \in from /\ conn' = [conn EXCEPT ![c].state = to]

(***************************************************************************)
(* The file, which a refresh truncates and fills again.                    *)
(***************************************************************************)
StampOf(f) == [mtime |-> f.mtime, size |-> IF f.content = Torn THEN 0 ELSE SizeOf[f.content]]

Write(content, mtime) ==
    /\ file' = [content |-> content, mtime |-> mtime]
    /\ during' = IF turn = NoTurn THEN {} ELSE during \cup {content}
    /\ UNCHANGED <<cache, conn, turn, answer, buckets, clock, granted, requests>>
    /\ UNCHANGED netVars

TruncateIndex ==
    /\ file.content # Torn /\ writes < MaxWrites
    /\ writes' = writes + 1
    /\ Write(Torn, file.mtime + 1)

FillIndex ==
    /\ file.content = Torn
    /\ \E v \in Versions : \E mtime \in IF CoarseClock THEN {file.mtime - 1, file.mtime} ELSE {file.mtime} :
          Write(v, mtime)
    /\ UNCHANGED writes

(***************************************************************************)
(* Connections.                                                            *)
(***************************************************************************)
NetStep == UNCHANGED <<file, cache, turn, buckets, clock, during, granted, writes>> /\ UNCHANGED netVars

Connect(c) == ~closing /\ Running /\ Move(c, {"closed"}, "asking") /\ NetStep /\ UNCHANGED <<answer, requests>>

(* The next request of a connection that was kept alive. *)
AskAgain(c) == Running /\ Move(c, {"idle"}, "asking") /\ NetStep /\ UNCHANGED <<answer, requests>>

Ask(c) ==
    /\ Running /\ conn[c].state = "asking" /\ requests < MaxRequests
    /\ \E r \in Requests : conn' = [conn EXCEPT ![c] = [state |-> "asked", request |-> r]]
    /\ requests' = requests + 1
    /\ NetStep /\ UNCHANGED answer

(* The client goes away, or headersTimeout ends a request that stays half. *)
Leave(c) ==
    /\ Running /\ conn[c].state \in {"idle", "asking", "reading"}
    /\ conn' = [conn EXCEPT ![c] = Closed]
    /\ answer' = NoRequest
    /\ NetStep /\ UNCHANGED requests

(* The answer is out; a server that is closing keeps no connection alive.  *)
Flushed(c) ==
    /\ Running /\ conn[c].state = "reading"
    /\ conn' = [conn EXCEPT ![c] = IF closing THEN Closed ELSE [Closed EXCEPT !.state = "idle"]]
    /\ answer' = NoRequest
    /\ NetStep /\ UNCHANGED requests

Tick ==
    /\ Running /\ turn = NoTurn /\ clock < MaxClock
    /\ clock' = clock + 1
    /\ UNCHANGED <<file, cache, conn, turn, answer, buckets, during, granted>> /\ UNCHANGED netVars /\ UNCHANGED countVars

(***************************************************************************)
(* A request.                                                              *)
(***************************************************************************)
(* The limiter is not asked about /metrics.                                *)
Limited(r) == Rate > 0 /\ r.route # "metrics"

Refusal(c, r) ==
    IF r.body THEN 413
    ELSE IF Limited(r) /\ ~Allowed(buckets, c, clock) THEN 429
    ELSE IF r.route = "metrics" /\ c \notin Local THEN 404
    ELSE IF r.route = "metrics" THEN 0
    ELSE IF r.route = "malformed" THEN 500
    ELSE IF r.method \notin {"GET", "HEAD"} THEN 405
    ELSE 0

(* /metrics turns an index that is not there into a 200.                   *)
gaugeSnapshot(version) ==
    IF version = NoFile THEN [health_ok |-> 0] ELSE [health_ok |-> 1, records |-> Len(IndexOf[version].records)]

(* What a route answers from an index. *)
Route(r, index) ==
    CASE r.route \in {"health", "inventory"} -> [status |-> 200, body |-> [records |-> Len(index.records)]]
      [] r.route = "summary" -> [status |-> 200, body |-> Summary(index)]
      [] r.route = "servers" -> [status |-> 200, body |-> ListServers(index, r)]
      [] r.route = "server" -> Server(index, r.name)
      [] r.route = "badge" -> [status |-> 200, body |-> [word |-> Badge(index, r.name)]]
      [] OTHER -> [status |-> 404, body |-> Nothing]

Respond(c, from, reply) ==
    /\ conn' = [conn EXCEPT ![c] = [Closed EXCEPT !.state = "reading"]]
    /\ answer' = [request |-> conn[c].request, from |-> from, status |-> reply.status, body |-> reply.body]
    /\ turn' = NoTurn

RespondFrom(c, version) ==
    LET r == conn[c].request
    IN  Respond(c, version,
                CASE r.route = "metrics" -> [status |-> 200, body |-> gaugeSnapshot(version)]
                  [] r.route # "metrics" /\ version = NoFile -> [status |-> 503, body |-> Nothing]
                  [] OTHER -> Route(r, IndexOf[version]))

(* The bucket is charged, and what it grants is counted since it exists.   *)
Charge(c, r) ==
    IF r.body \/ ~Limited(r) THEN UNCHANGED <<buckets, granted>>
    ELSE LET grant == IF Allowed(buckets, c, clock) THEN 1 ELSE 0
             after == allow(buckets, c, clock)
         IN  /\ buckets' = after
             /\ granted' = [k \in DOMAIN after |->
                   IF k # c THEN granted[k]
                   ELSE IF c \in DOMAIN buckets THEN [granted[c] EXCEPT !.n = @ + grant]
                   ELSE [n |-> grant, since |-> clock]]

BeginTurn(c) ==
    /\ Running /\ turn = NoTurn /\ conn[c].state = "asked"
    /\ LET r == conn[c].request
       IN  /\ Charge(c, r)
           /\ IF Refusal(c, r) # 0
              THEN /\ Respond(c, NoFile, [status |-> Refusal(c, r), body |-> Nothing])
                   /\ during' = {}
              ELSE /\ turn' = [client |-> c, stamp |-> NoFile]
                   /\ during' = {file.content}
                   /\ UNCHANGED <<conn, answer>>
    /\ UNCHANGED <<file, cache, clock>> /\ UNCHANGED netVars /\ UNCHANGED countVars

TurnStep == UNCHANGED <<file, buckets, clock, granted>> /\ UNCHANGED netVars /\ UNCHANGED countVars

(* Mutant: the cache is revalidated by the size alone. *)
MutHit == cache # NoCache /\ cache.stamp.size = StampOf(file).size

Hit == cache # NoCache /\ cache.stamp = StampOf(file)

(* loadIndex: the sample is the other candidate. *)
Stat ==
    /\ turn # NoTurn /\ turn.stamp = NoFile
    /\ IF file.content = NoFile THEN RespondFrom(turn.client, Sample) /\ during' = {file.content}
       ELSE IF Hit THEN RespondFrom(turn.client, cache.data) /\ UNCHANGED during
       ELSE turn' = [turn EXCEPT !.stamp = StampOf(file)] /\ UNCHANGED <<conn, answer, during>>
    /\ UNCHANGED cache /\ TurnStep

(* Mutant: an index that does not parse is read again. *)
MutRead ==
    /\ turn # NoTurn /\ turn.stamp # NoFile /\ file.content # Torn
    /\ cache' = [stamp |-> turn.stamp, data |-> file.content] /\ RespondFrom(turn.client, file.content)
    /\ UNCHANGED during /\ TurnStep

(* What is read is cached under the stamp of before the read.              *)
Read ==
    /\ turn # NoTurn /\ turn.stamp # NoFile
    /\ IF file.content = Torn
       THEN cache' = NoCache /\ RespondFrom(turn.client, Sample)
       ELSE cache' = [stamp |-> turn.stamp, data |-> file.content] /\ RespondFrom(turn.client, file.content)
    /\ UNCHANGED during /\ TurnStep

(***************************************************************************)
(* installShutdown.                                                        *)
(***************************************************************************)
(* server.close ends the idle connections and takes no new one. *)
Signal ==
    /\ Running /\ ~closing /\ turn = NoTurn
    /\ closing' = TRUE
    /\ conn' = [c \in Clients |-> IF conn[c].state = "idle" THEN Closed ELSE conn[c]]
    /\ UNCHANGED <<file, cache, turn, answer, buckets, clock, during, granted, exit>> /\ UNCHANGED countVars

Exit(code) ==
    /\ Running /\ closing /\ turn = NoTurn
    /\ exit' = code
    /\ UNCHANGED <<file, cache, conn, turn, answer, buckets, clock, during, granted, closing>> /\ UNCHANGED countVars

(* Mutant: the server is closed once no request waits for its turn. *)
MutServerClosed == (\A c \in Clients : conn[c].state # "asked") /\ Exit(0)

ServerClosed == (\A c \in Clients : conn[c].state = "closed") /\ Exit(0)

Deadline == Exit(1)

ServiceNext ==
    \/ TruncateIndex \/ FillIndex
    \/ \E c \in Clients : Connect(c) \/ AskAgain(c) \/ Ask(c) \/ Leave(c) \/ Flushed(c) \/ BeginTurn(c)
    \/ Stat \/ Read \/ Tick
    \/ Signal \/ ServerClosed \/ Deadline

(* The event loop takes every request that is complete, and its timers     *)
(* fire; clients, writers and the signal promise nothing.                  *)
ServiceFairness ==
    /\ \A c \in Clients : SF_serviceVars(BeginTurn(c))
    /\ WF_serviceVars(Stat) /\ WF_serviceVars(Read)
    /\ SF_serviceVars(Deadline)

ServiceSpec == ServiceInit /\ [][ServiceNext]_serviceVars /\ ServiceFairness

--------------------------------------------------------------------------------
(* What the HTTP service should satisfy.                                   *)

(* File, cache, connections, turn, buckets and shutdown keep their types. *)
ServiceTypeOK ==
    /\ file.content \in Versions \cup {NoFile, Torn} /\ file.mtime \in 0..MaxWrites
    /\ cache = NoCache \/ (cache.data \in Versions /\ cache.stamp \in Stamp)
    /\ \A c \in Clients :
          /\ conn[c].state \in {"closed", "idle", "asking", "asked", "reading"}
          /\ conn[c].request \in Requests \cup {NoRequest}
    /\ turn.client \in Clients \cup {NoRequest}
    /\ DOMAIN buckets \subseteq Clients /\ DOMAIN granted = DOMAIN buckets
    /\ \A k \in DOMAIN buckets : buckets[k].tokens \in 0..Capacity /\ buckets[k].at \in 0..MaxClock
    /\ closing \in BOOLEAN /\ exit \in {NoRequest, 0, 1}

(* An answer is from an index that the file had while the request was      *)
(* handled; the sample, or no index, only if the file was half written or  *)
(* absent then.  So a refresh takes effect without a restart (server.mjs,  *)
(* 29-32), unless two writes share one modification time and one size.     *)
AnswerIsCurrent ==
    [][turn # NoTurn /\ turn' = NoTurn /\ ~CoarseClock =>
          \/ answer'.from \in during
          \/ answer'.from \in {Sample, NoFile} /\ during \cap {Torn, NoFile} # {}]_serviceVars

Is(route) == answer # NoRequest /\ answer.from # NoFile /\ answer.request.route = route
        /\ ~answer.request.body /\ answer.status # 429

(* A server that is asked for by its own name is answered for, however     *)
(* many others have that name in theirs (matchRecords, server.mjs 57-63),  *)
(* and its badge is its verdict.                                           *)
ExactNameAnswered ==
    /\ Is("server") => LET named == {r \in {IndexOf[answer.from].records[i] : i \in DOMAIN IndexOf[answer.from].records} :
                                        r.server = answer.request.name}
                       IN  named # {} => answer.status = 200 /\ answer.body.matches[1] \in named
    /\ Is("badge") => \A i \in DOMAIN IndexOf[answer.from].records :
                          LET r == IndexOf[answer.from].records[i]
                          IN  r.server = answer.request.name /\ r.verdict \in Known => answer.body.word = r.verdict

(* The summary counts each record once in every table, those that were     *)
(* never measured included, and the two sources make up the whole          *)
(* (server.mjs, 119-152).                                                  *)
SummaryAddsUp ==
    Is("summary") =>
        LET tables == {answer.body.all} \cup {answer.body.sources[k] : k \in DOMAIN answer.body.sources}
            Registry == answer.body.sources["registry"]
            Repositories == answer.body.sources["repositories"]
        IN  /\ \A t \in tables :
                  /\ MapThenSumSet(LAMBDA v : t.verdicts[v], Verdicts) = t.count
                  /\ MapThenSumSet(LAMBDA e : t.execution[e], Executions) = t.count
            /\ \A e \in Executions : answer.body.all.execution[e] = Registry.execution[e] + Repositories.execution[e]

(* As long as an address keeps its bucket, it is allowed no more than the  *)
(* burst and the rate for the time since (limits.mjs, 34-53), whatever it  *)
(* was refused in between.                                                 *)
BudgetKept ==
    \A k \in DOMAIN granted : granted[k].n <= Capacity + Rate * (clock - granted[k].since)

(* A process that exits with 0 has answered every request it had taken     *)
(* (observability.mjs: "Finish what is in flight, then leave").            *)
CleanExitAnswersAll ==
    exit = 0 => \A c \in Clients : conn[c].state \notin {"asked", "reading"} 

(* A shutdown ends, however slow the clients are: "a stuck request must    *)
(* not keep a deploy from completing, so there is a deadline".             *)
ShutdownEnds == closing ~> ~Running

(* A complete request is answered, or the process is on its way out.       *)
EveryRequestAnswered ==
    \A c \in Clients : conn[c].state = "asked" ~> conn[c].state # "asked" \/ ~Running

(* What the service keeps right whatever it is asked: its state, the rate  *)
(* of every address, and that exit 0 leaves no request without its answer. *)
ServiceIsRight == ServiceTypeOK /\ BudgetKept /\ CleanExitAnswersAll

(* Everyone is served and everything ends: a request is answered unless    *)
(* the process is leaving, an exact name by what it names, the summary by  *)
(* tables that add up; and a shutdown ends.                                *)
EveryoneIsServed == EveryRequestAnswered /\ ShutdownEnds /\ []ExactNameAnswered /\ []SummaryAddsUp
===============================================================================
