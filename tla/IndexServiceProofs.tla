--------------------------- MODULE IndexServiceProofs ---------------------------
(***************************************************************************)
(* The service for any number of clients, indexes, writes and requests, and *)
(* any rate and capacity: its state keeps its types, no address is granted *)
(* more than its budget, exit 0 leaves no request behind, and an answer is *)
(* from an index the file had while the request was handled.               *)
(*                                                                         *)
(* The last rests on CInv: a cached index under the file's present stamp   *)
(* is what the file holds, although it may have been read after another    *)
(* write than the one it was stamped with.                                 *)
(***************************************************************************)
EXTENDS IndexService, FiniteSetTheorems, TLAPS

(* The state, with the types of what it is made of; the times the file can *)
(* have had, and that nothing is read or cached before it is there.        *)
Contents == Versions \cup {NoFile, Torn}
States == {"closed", "idle", "asking", "asked", "reading"}
TInv ==
    /\ file \in [content : Contents, mtime : 0..MaxWrites]
    /\ writes \in 0..MaxWrites /\ file.mtime <= writes /\ (file.content = Torn => file.mtime >= 1)
    /\ cache \in {NoCache} \cup [stamp : Stamp, data : Versions]
    /\ conn \in [Clients -> [state : States, request : Requests \cup {NoRequest}]]
    /\ turn \in [client : Clients \cup {NoRequest}, stamp : Stamp \cup {NoFile}]
    /\ turn # NoTurn => turn.client \in Clients
    /\ turn.stamp # NoFile \/ cache # NoCache => file.content # NoFile
    /\ clock \in 0..MaxClock
    /\ closing \in BOOLEAN /\ exit \in {NoRequest, 0, 1}

(* A bucket and what it granted: what it has left can still be granted.    *)
Buckets == [tokens : 0..Capacity, at : 0..MaxClock]
Grants == [n : Nat, since : Nat]
Covers(bucket, grant) ==
    /\ bucket.at <= clock /\ grant.since <= bucket.at
    /\ grant.n + bucket.tokens <= Capacity + Rate * (bucket.at - grant.since)
BInv ==
    /\ DOMAIN buckets \subseteq Clients /\ DOMAIN granted = DOMAIN buckets
    /\ \A k \in DOMAIN buckets :
          buckets[k] \in Buckets /\ granted[k] \in Grants /\ Covers(buckets[k], granted[k])

(* A process that has left serves nobody.                                  *)
EInv == exit # NoRequest => /\ turn = NoTurn
                            /\ exit = 0 => \A c \in Clients : conn[c].state = "closed"

(* A stamp that was taken is not later than the file, and tells one of the *)
(* contents of its time from the others.                                   *)
Taken(stamp) ==
    /\ stamp.mtime <= file.mtime
    /\ stamp.mtime = file.mtime => stamp.size = 0 \/ stamp.size = StampOf(file).size
(* What is cached under the present stamp is what the file holds, and the  *)
(* turn has seen it.                                                       *)
CInv ==
    /\ turn # NoTurn => file.content \in during
    /\ turn.stamp # NoFile => Taken(turn.stamp)
    /\ cache # NoCache => /\ Taken(cache.stamp)
                          /\ file.content = Torn => cache.stamp.mtime < file.mtime
                          /\ cache.stamp = StampOf(file) => cache.data = file.content
IInv == TInv /\ BInv /\ EInv /\ (~CoarseClock => CInv)

--------------------------------------------------------------------------------
(* The invariant holds at the start. *)
LEMMA InitIInv == ServiceInit => IInv
<1> SUFFICES ASSUME ServiceInit PROVE IInv
  OBVIOUS
<1>1. /\ file.mtime = 0 /\ file.content \in Versions \cup {NoFile} /\ file \in [content : Contents, mtime : {0}]
      /\ cache = NoCache /\ turn = NoTurn /\ conn = [c \in Clients |-> Closed]
      /\ DOMAIN buckets = {} /\ DOMAIN granted = {} /\ clock = 0 /\ closing = FALSE /\ exit = NoRequest /\ writes = 0
  BY DEF ServiceInit, Contents
<1>2. MaxWrites \in Nat /\ MaxClock \in Nat /\ Torn \notin Versions /\ NoFile # Torn
  BY ServiceAssumption
<1>3. TInv
  <2>1. file \in [content : Contents, mtime : 0..MaxWrites]
    BY <1>1, <1>2
  <2>2. conn \in [Clients -> [state : States, request : Requests \cup {NoRequest}]]
    BY <1>1 DEF Closed, States
  <2>3. turn \in [client : Clients \cup {NoRequest}, stamp : Stamp \cup {NoFile}] /\ turn.stamp = NoFile
    BY <1>1 DEF NoTurn
  <2>4. writes \in 0..MaxWrites /\ file.mtime <= writes /\ clock \in 0..MaxClock /\ file.content # Torn
    BY <1>1, <1>2
  <2>5. closing \in BOOLEAN /\ exit \in {NoRequest, 0, 1} /\ cache \in {NoCache} \cup [stamp : Stamp, data : Versions]
    BY <1>1
  <2>6. QED
    BY <1>1, <2>1, <2>2, <2>3, <2>4, <2>5, Zenon DEF TInv
<1>4. BInv /\ EInv
  BY <1>1 DEF BInv, EInv
<1>5. CInv
  BY <1>1 DEF CInv, NoTurn
<1>6. QED
  BY <1>3, <1>4, <1>5 DEF IInv

(* The stamp of a file that is there. *)
LEMMA StampType ==
  ASSUME TInv, file.content # NoFile
  PROVE  StampOf(file) \in Stamp
<1>1. file.content \in Versions \cup {Torn} /\ file.mtime \in 0..MaxWrites /\ MaxWrites \in Nat
  BY ServiceAssumption DEF TInv, Contents
<1>2. SizeOf \in [Versions -> Nat \ {0}]
  BY ServiceAssumption
<1>3. (IF file.content = Torn THEN 0 ELSE SizeOf[file.content]) \in Nat
  BY <1>1, <1>2
<1>4. file.mtime \in 0..MaxWrites * 2
  BY <1>1
<1>5. QED
  BY <1>3, <1>4 DEF StampOf, Stamp

--------------------------------------------------------------------------------
(* Types. *)

(* An answer frees the turn and leaves the connection reading. *)
LEMMA RespondTypes ==
  ASSUME TInv, NEW c, NEW from, NEW reply, Respond(c, from, reply)
  PROVE  /\ conn' \in [Clients -> [state : States, request : Requests \cup {NoRequest}]]
         /\ turn' \in [client : Clients \cup {NoRequest}, stamp : Stamp \cup {NoFile}] /\ turn'.stamp = NoFile
         /\ turn' = NoTurn
<1>1. conn' = [conn EXCEPT ![c] = [Closed EXCEPT !.state = "reading"]] /\ turn' = NoTurn
  BY DEF Respond
<1>2. [Closed EXCEPT !.state = "reading"] \in [state : States, request : Requests \cup {NoRequest}]
  BY DEF Closed, States
<1>3. conn \in [Clients -> [state : States, request : Requests \cup {NoRequest}]]
  BY DEF TInv
<1>4. QED
  BY <1>1, <1>2, <1>3 DEF NoTurn

(* A write of the file. *)
LEMMA WriteTypes ==
  ASSUME TInv, TruncateIndex \/ FillIndex
  PROVE  TInv'
<1>1. /\ UNCHANGED <<cache, conn, turn, clock, closing, exit>>
      /\ file' = [content |-> file'.content, mtime |-> file'.mtime]
      /\ file'.content \in Versions \cup {Torn}
      /\ file'.mtime \in 0..MaxWrites /\ writes' \in 0..MaxWrites /\ file'.mtime <= writes'
      /\ file'.content = Torn => file'.mtime >= 1
  <2>0. /\ file.mtime \in 0..MaxWrites /\ writes \in 0..MaxWrites /\ file.mtime <= writes
        /\ file.content = Torn => file.mtime >= 1
        /\ MaxWrites \in Nat /\ Torn \notin Versions
    BY ServiceAssumption DEF TInv
  <2>1. CASE TruncateIndex
    <3>1. /\ writes < MaxWrites /\ writes' = writes + 1
          /\ file' = [content |-> Torn, mtime |-> file.mtime + 1]
          /\ UNCHANGED <<cache, conn, turn, clock, closing, exit>>
      BY <2>1 DEF TruncateIndex, Write, netVars
    <3>2. QED
      BY <2>0, <3>1
  <2>2. CASE FillIndex
    <3>1. PICK v \in Versions, mtime \in {file.mtime - 1, file.mtime} :
            /\ file.content = Torn /\ writes' = writes
            /\ file' = [content |-> v, mtime |-> mtime]
            /\ UNCHANGED <<cache, conn, turn, clock, closing, exit>>
      BY <2>2 DEF FillIndex, Write, netVars
    <3>2. QED
      BY <2>0, <3>1
  <2>3. QED
    BY <2>1, <2>2
<1>2. file' \in [content : Contents, mtime : 0..MaxWrites]
  BY <1>1 DEF Contents
<1>3. file'.content # NoFile
  BY <1>1, ServiceAssumption
<1>4. QED
  BY <1>1, <1>2, <1>3 DEF TInv

(* What a client does. *)
LEMMA ClientTypes ==
  ASSUME TInv, NEW c \in Clients, Connect(c) \/ AskAgain(c) \/ Ask(c) \/ Leave(c) \/ Flushed(c)
  PROVE  TInv'
<1>1. UNCHANGED <<file, cache, turn, clock, writes, closing, exit>>
  BY DEF Connect, AskAgain, Ask, Leave, Flushed, NetStep, netVars
<1>2. PICK f : conn' = [conn EXCEPT ![c] = f] /\ f \in [state : States, request : Requests \cup {NoRequest}]
  <2>1. conn[c] \in [state : States, request : Requests \cup {NoRequest}] /\ conn \in [Clients -> [state : States, request : Requests \cup {NoRequest}]]
    BY DEF TInv
  <2>2. CASE Connect(c) \/ AskAgain(c)
    <3>1. conn' = [conn EXCEPT ![c] = [conn[c] EXCEPT !.state = "asking"]]
      BY <2>1, <2>2 DEF Connect, AskAgain, Move
    <3>2. [conn[c] EXCEPT !.state = "asking"] \in [state : States, request : Requests \cup {NoRequest}]
      BY <2>1 DEF States
    <3>3. QED
      BY <3>1, <3>2
  <2>3. CASE Ask(c)
    <3>1. PICK r \in Requests : conn' = [conn EXCEPT ![c] = [state |-> "asked", request |-> r]]
      BY <2>3 DEF Ask
    <3>2. [state |-> "asked", request |-> r] \in [state : States, request : Requests \cup {NoRequest}]
      BY DEF States
    <3>3. QED
      BY <3>1, <3>2, Zenon
  <2>4. CASE Leave(c) \/ Flushed(c)
    <3>1. Closed \in [state : States, request : Requests \cup {NoRequest}]
          /\ [Closed EXCEPT !.state = "idle"] \in [state : States, request : Requests \cup {NoRequest}]
      BY DEF Closed, States
    <3>2. conn' = [conn EXCEPT ![c] = Closed] \/ conn' = [conn EXCEPT ![c] = [Closed EXCEPT !.state = "idle"]]
      BY <2>4 DEF Leave, Flushed
    <3>3. QED
      BY <3>1, <3>2
  <2>5. QED
    BY <2>2, <2>3, <2>4
<1>3. conn' \in [Clients -> [state : States, request : Requests \cup {NoRequest}]]
  BY <1>2 DEF TInv
<1>4. QED
  BY <1>1, <1>3 DEF TInv

(* A request that is refused is answered; another one takes the turn. *)
LEMMA BeginTypes ==
  ASSUME TInv, NEW c \in Clients, BeginTurn(c)
  PROVE  TInv'
<1>1. UNCHANGED <<file, cache, clock, writes, closing, exit>> /\ turn = NoTurn
  BY DEF BeginTurn, netVars, countVars
<1>2. CASE Refusal(c, conn[c].request) # 0
  <2>1. Respond(c, NoFile, [status |-> Refusal(c, conn[c].request), body |-> Nothing])
    BY <1>2 DEF BeginTurn
  <2>2. QED
    BY <1>1, <2>1, RespondTypes DEF TInv
<1>3. CASE Refusal(c, conn[c].request) = 0
  <2>1. turn' = [client |-> c, stamp |-> NoFile] /\ conn' = conn
    BY <1>3 DEF BeginTurn
  <2>2. QED
    BY <1>1, <2>1 DEF TInv
<1>4. QED
  BY <1>2, <1>3

(* The index is looked for, and read. *)
LEMMA ReadTypes ==
  ASSUME TInv, Stat \/ Read
  PROVE  TInv'
<1>1. UNCHANGED <<file, clock, writes, closing, exit>>
  BY DEF Stat, Read, TurnStep, netVars, countVars
<1>2. CASE Stat
  <2>1. cache' = cache
    BY <1>2 DEF Stat
  <2>2. CASE RespondFrom(turn.client, Sample) \/ RespondFrom(turn.client, cache.data)
    <3>1. PICK from, reply : Respond(turn.client, from, reply)
      BY <2>2 DEF RespondFrom
    <3>2. QED
      BY <1>1, <2>1, <3>1, RespondTypes DEF TInv
  <2>3. CASE /\ file.content # NoFile
             /\ turn' = [turn EXCEPT !.stamp = StampOf(file)] /\ conn' = conn
    <3>1. StampOf(file) \in Stamp
      BY <2>3, StampType
    <3>2. turn' \in [client : Clients \cup {NoRequest}, stamp : Stamp \cup {NoFile}]
      BY <2>3, <3>1 DEF TInv
    <3>3. turn'.client \in Clients
      BY <1>2, <2>3 DEF Stat, TInv
    <3>4. QED
      BY <1>1, <2>1, <2>3, <3>2, <3>3 DEF TInv
  <2>4. QED
    BY <1>2, <2>2, <2>3 DEF Stat
<1>3. CASE Read
  <2>1. PICK from, reply : Respond(turn.client, from, reply)
    BY <1>3 DEF Read, RespondFrom
  <2>2. turn.stamp # NoFile /\ turn.stamp \in Stamp /\ file.content # NoFile
    BY <1>3 DEF Read, TInv
  <2>3. cache' \in {NoCache} \cup [stamp : Stamp, data : Versions]
    <3>1. file.content \in Versions \cup {Torn}
      BY <2>2 DEF TInv, Contents
    <3>2. cache' = NoCache \/ (file.content # Torn /\ cache' = [stamp |-> turn.stamp, data |-> file.content])
      BY <1>3 DEF Read
    <3>3. QED
      BY <2>2, <3>1, <3>2
  <2>4. QED
    BY <1>1, <2>1, <2>2, <2>3, RespondTypes DEF TInv
<1>4. QED
  BY <1>2, <1>3

(* The shutdown, and time. *)
LEMMA EndTypes ==
  ASSUME TInv, Tick \/ Signal \/ ServerClosed \/ Deadline
  PROVE  TInv'
<1>1. UNCHANGED <<file, cache, turn, writes>>
  BY DEF Tick, Signal, ServerClosed, Deadline, Exit, netVars, countVars
<1>2. CASE Tick
  <2>1. clock < MaxClock /\ clock' = clock + 1 /\ UNCHANGED <<conn, closing, exit>>
    BY <1>2 DEF Tick, netVars
  <2>2. clock' \in 0..MaxClock
    BY <2>1, ServiceAssumption DEF TInv
  <2>3. QED
    BY <1>1, <2>1, <2>2 DEF TInv
<1>3. CASE Signal
  <2>1. /\ closing' = TRUE /\ UNCHANGED <<clock, exit>>
        /\ conn' = [c \in Clients |-> IF conn[c].state = "idle" THEN Closed ELSE conn[c]]
    BY <1>3 DEF Signal
  <2>2. Closed \in [state : States, request : Requests \cup {NoRequest}]
    BY DEF Closed, States
  <2>3. conn' \in [Clients -> [state : States, request : Requests \cup {NoRequest}]]
    BY <2>1, <2>2 DEF TInv
  <2>4. QED
    BY <1>1, <2>1, <2>3 DEF TInv
<1>4. CASE ServerClosed \/ Deadline
  <2>1. exit' \in {0, 1} /\ UNCHANGED <<conn, clock, closing>>
    BY <1>4 DEF ServerClosed, Deadline, Exit
  <2>2. QED
    BY <1>1, <2>1 DEF TInv
<1>5. QED
  BY <1>2, <1>3, <1>4

--------------------------------------------------------------------------------
(* The budget. *)

(* A bucket that is looked at is refilled by no more than the time gives. *)
LEMMA RefillCovers ==
  ASSUME NEW bucket \in Buckets, NEW grant \in Grants, clock \in 0..MaxClock, Covers(bucket, grant)
  PROVE  /\ Refilled(bucket, clock).at = clock
         /\ Refilled(bucket, clock).tokens \in 0..Capacity
         /\ grant.n + Refilled(bucket, clock).tokens <= Capacity + Rate * (clock - grant.since)
<1>1. /\ bucket.tokens \in 0..Capacity /\ bucket.at \in Nat /\ clock \in Nat /\ bucket.at <= clock
      /\ grant.n \in Nat /\ grant.since \in Nat /\ Rate \in Nat /\ Capacity \in Nat
      /\ grant.n + bucket.tokens <= Capacity + Rate * (bucket.at - grant.since)
  BY RateAssumption, ServiceAssumption DEF Buckets, Grants, Covers
<1>2. PICK e : e = clock - bucket.at /\ e \in Nat
  BY <1>1
<1>3. PICK gain : gain = e * Rate /\ gain \in Nat
  BY <1>1, <1>2
<1>4. Max({0, clock - bucket.at}) = e
  <2>1. \A y \in {0, e} : e >= y
    BY <1>2
  <2>2. \A x \in {0, e} : (\A y \in {0, e} : x >= y) => x = e
    BY <1>2
  <2>3. Max({0, e}) = e
    BY <2>1, <2>2, Zenon DEF Max
  <2>4. QED
    BY <1>2, <2>3
<1>5. PICK filled : filled = Min({Capacity, bucket.tokens + gain})
  OBVIOUS
<1>6. filled \in 0..Capacity /\ filled <= bucket.tokens + gain
  <2>1. \E x \in {Capacity, bucket.tokens + gain} : \A y \in {Capacity, bucket.tokens + gain} : x <= y
    BY <1>1, <1>3
  <2>2. filled \in {Capacity, bucket.tokens + gain} /\ \A y \in {Capacity, bucket.tokens + gain} : filled <= y
    BY <1>5, <2>1, Zenon DEF Min
  <2>3. QED
    BY <1>1, <1>3, <2>2
<1>7. Refilled(bucket, clock) = [tokens |-> filled, at |-> clock]
  BY <1>2, <1>3, <1>4, <1>5 DEF Refilled
<1>8. Rate * (clock - grant.since) = Rate * (bucket.at - grant.since) + gain
  BY <1>1, <1>2, <1>3
<1>9. Rate * (bucket.at - grant.since) \in Int
  BY <1>1
<1>10. QED
  BY <1>1, <1>3, <1>6, <1>7, <1>8, <1>9

(* Eviction leaves the buckets it keeps as they were. *)
LEMMA AllowKeepsOthers ==
  ASSUME NEW c, NEW after, after = allow(buckets, c, clock),
         NEW looked, looked = Looked(buckets, c, clock)
  PROVE  /\ DOMAIN looked = DOMAIN buckets \cup {c}
         /\ after = [k \in DOMAIN after |-> after[k]] /\ DOMAIN after \subseteq DOMAIN buckets \cup {c}
         /\ \A k \in DOMAIN after : k # c => after[k] = buckets[k]
         /\ c \in DOMAIN after =>
               after[c] = [looked[c] EXCEPT !.tokens = IF @ >= 1 THEN @ - 1 ELSE @]
<1> DEFINE spent == [looked EXCEPT ![c].tokens = IF @ >= 1 THEN @ - 1 ELSE @]
<1>1. /\ DOMAIN looked = DOMAIN buckets \cup {c}
      /\ \A k \in DOMAIN buckets : k # c => looked[k] = buckets[k]
  BY DEF Looked
<1>2. /\ DOMAIN spent = DOMAIN buckets \cup {c} /\ spent = [k \in DOMAIN spent |-> spent[k]]
      /\ \A k \in DOMAIN buckets : k # c => spent[k] = buckets[k]
      /\ spent[c] = [looked[c] EXCEPT !.tokens = IF @ >= 1 THEN @ - 1 ELSE @]
  BY <1>1 DEF Looked
<1>3. after = spent \/ after = evict(spent, c, clock)
  BY DEF allow
<1> HIDE DEF spent
<1>4. \A b, keys : /\ DOMAIN Without(b, keys) \subseteq DOMAIN b
                   /\ Without(b, keys) = [k \in DOMAIN Without(b, keys) |-> Without(b, keys)[k]]
                   /\ \A k \in DOMAIN Without(b, keys) : Without(b, keys)[k] = b[k]
  BY DEF Without
<1>5. CASE after = evict(spent, c, clock)
  <2>1. PICK kept, keys : /\ kept = Without(spent, {k \in DOMAIN spent : clock - spent[k].at > IdleTime})
                          /\ after = kept \/ after = Without(kept, keys)
    BY <1>5 DEF evict
  <2>2. /\ DOMAIN kept \subseteq DOMAIN spent /\ kept = [k \in DOMAIN kept |-> kept[k]]
        /\ \A k \in DOMAIN kept : kept[k] = spent[k]
    <3> DEFINE idle == {k \in DOMAIN spent : clock - spent[k].at > IdleTime}
    <3>1. kept = Without(spent, idle)
      BY <2>1, Zenon
    <3> HIDE DEF idle
    <3>2. QED
      BY ONLY <1>4, <3>1
  <2>3. /\ DOMAIN after \subseteq DOMAIN kept /\ after = [k \in DOMAIN after |-> after[k]]
        /\ \A k \in DOMAIN after : after[k] = kept[k]
    <3>1. CASE after = kept
      BY <2>2, <3>1
    <3>2. CASE after = Without(kept, keys)
      <4>1. /\ DOMAIN Without(kept, keys) \subseteq DOMAIN kept
            /\ \A k \in DOMAIN Without(kept, keys) : Without(kept, keys)[k] = kept[k]
        BY <1>4
      <4>2. Without(kept, keys) = [k \in DOMAIN Without(kept, keys) |-> Without(kept, keys)[k]]
        BY DEF Without
      <4>3. QED
        BY <3>2, <4>1, <4>2
    <3>3. QED
      BY <2>1, <3>1, <3>2
  <2>4. QED
    BY <1>1, <1>2, <2>2, <2>3
<1>6. QED
  BY <1>1, <1>2, <1>3, <1>5

(* What a request is charged keeps every address within its budget. *)
LEMMA ChargeCovers ==
  ASSUME TInv, BInv, NEW c \in Clients, NEW r, Charge(c, r), clock' = clock
  PROVE  BInv'
<1>1. CASE UNCHANGED <<buckets, granted>>
  BY <1>1 DEF BInv, Covers
<1>2. CASE ~(r.body \/ ~Limited(r))
  <2> DEFINE after == allow(buckets, c, clock)
             looked == Looked(buckets, c, clock)
             grant == IF Allowed(buckets, c, clock) THEN 1 ELSE 0
             count(k) == IF k # c THEN granted[k]
                         ELSE IF c \in DOMAIN buckets THEN [granted[c] EXCEPT !.n = @ + grant]
                         ELSE [n |-> grant, since |-> clock]
  <2>1. buckets' = after /\ granted' = [k \in DOMAIN after |-> count(k)]
    BY <1>2 DEF Charge
  <2>2. /\ DOMAIN after \subseteq DOMAIN buckets \cup {c}
        /\ \A k \in DOMAIN after : k # c => after[k] = buckets[k]
        /\ c \in DOMAIN after => after[c] = [looked[c] EXCEPT !.tokens = IF @ >= 1 THEN @ - 1 ELSE @]
    BY AllowKeepsOthers
  <2>3. grant = IF looked[c].tokens >= 1 THEN 1 ELSE 0
    BY DEF Allowed
  <2>4. clock \in 0..MaxClock /\ clock \in Nat /\ Capacity \in Nat \ {0} /\ Rate \in Nat /\ MaxClock \in Nat
    BY RateAssumption, ServiceAssumption DEF TInv
  <2>5. looked[c] = IF c \in DOMAIN buckets THEN Refilled(buckets[c], clock)
                    ELSE [tokens |-> Capacity, at |-> clock]
    BY DEF Looked
  <2> HIDE DEF after, looked
  <2>6. ASSUME c \in DOMAIN buckets
        PROVE  c \in DOMAIN after => after[c] \in Buckets /\ count(c) \in Grants /\ Covers(after[c], count(c))
    <3>1. buckets[c] \in Buckets /\ granted[c] \in Grants /\ Covers(buckets[c], granted[c])
      BY <2>6 DEF BInv
    <3>2. /\ looked[c].at = clock /\ looked[c].tokens \in 0..Capacity
          /\ granted[c].n + looked[c].tokens <= Capacity + Rate * (clock - granted[c].since)
      BY <2>4, <2>5, <2>6, <3>1, RefillCovers
    <3>3. looked[c] = [tokens |-> looked[c].tokens, at |-> looked[c].at]
      BY <2>5, <2>6 DEF Refilled
    <3>4. granted[c].n \in Nat /\ granted[c].since \in Nat /\ granted[c].since <= clock
      BY <2>4, <3>1 DEF Grants, Covers, Buckets
    <3>5. /\ count(c) \in Grants /\ count(c).n = granted[c].n + grant /\ count(c).since = granted[c].since
      BY <2>3, <2>6, <3>1, <3>4 DEF Grants
    <3>6. PICK left : /\ left = looked[c].tokens - grant /\ left \in 0..Capacity
                      /\ [looked[c] EXCEPT !.tokens = IF @ >= 1 THEN @ - 1 ELSE @] = [tokens |-> left, at |-> clock]
      <4>1. PICK t : t = looked[c].tokens
        OBVIOUS
      <4>2. looked[c] = [tokens |-> t, at |-> clock] /\ t \in 0..Capacity
        BY <3>2, <3>3, <4>1
      <4>3. t - grant \in 0..Capacity /\ (IF t >= 1 THEN t - 1 ELSE t) = t - grant
        BY <2>3, <2>4, <4>1, <4>2
      <4>4. [looked[c] EXCEPT !.tokens = IF @ >= 1 THEN @ - 1 ELSE @]
            = [tokens |-> IF t >= 1 THEN t - 1 ELSE t, at |-> clock]
        BY ONLY <4>2
      <4>5. QED
        BY <4>1, <4>3, <4>4
    <3>7. c \in DOMAIN after => after[c] \in Buckets /\ Covers(after[c], count(c))
      <4>1. PICK span : span = Rate * (clock - granted[c].since) /\ span \in Int
        BY <2>4, <3>4
      <4>2. granted[c].n + grant + left <= Capacity + span
        BY <2>3, <2>4, <3>2, <3>4, <3>6, <4>1
      <4>3. [tokens |-> left, at |-> clock] \in Buckets
        BY <2>4, <3>6 DEF Buckets
      <4> HIDE DEF count
      <4>4. QED
        BY <2>2, <2>4, <3>4, <3>5, <3>6, <4>1, <4>2, <4>3 DEF Covers
    <3>8. QED
      BY <3>5, <3>7
  <2>7. ASSUME c \notin DOMAIN buckets
        PROVE  c \in DOMAIN after => after[c] \in Buckets /\ count(c) \in Grants /\ Covers(after[c], count(c))
    <3>1. looked[c] = [tokens |-> Capacity, at |-> clock] /\ grant = 1
      BY <2>3, <2>4, <2>5, <2>7
    <3>2. count(c) = [n |-> 1, since |-> clock]
      BY <2>7, <3>1
    <3>3. [looked[c] EXCEPT !.tokens = IF @ >= 1 THEN @ - 1 ELSE @] = [tokens |-> Capacity - 1, at |-> clock]
      BY <2>4, <3>1
    <3>4. count(c) \in Grants /\ [tokens |-> Capacity - 1, at |-> clock] \in Buckets
      BY <2>4, <3>2 DEF Grants, Buckets
    <3>5. Rate * (clock - clock) = 0
      BY <2>4
    <3> HIDE DEF count
    <3>6. c \in DOMAIN after => after[c] \in Buckets /\ Covers(after[c], count(c))
      BY <2>2, <2>4, <3>2, <3>3, <3>4, <3>5 DEF Covers
    <3>7. QED
      BY <3>4, <3>6
  <2>8. c \in DOMAIN after => after[c] \in Buckets /\ count(c) \in Grants /\ Covers(after[c], count(c))
    BY <2>6, <2>7
  <2>9. ASSUME NEW k \in DOMAIN after
        PROVE  k \in Clients /\ after[k] \in Buckets /\ count(k) \in Grants /\ Covers(after[k], count(k))
    <3>1. CASE k = c
      BY <2>8, <3>1
    <3>2. CASE k # c
      <4>1. k \in DOMAIN buckets /\ after[k] = buckets[k] /\ count(k) = granted[k]
        BY <2>2, <3>2
      <4> HIDE DEF count
      <4>2. QED
        BY <4>1 DEF BInv
    <3>3. QED
      BY <3>1, <3>2
  <2> HIDE DEF count
  <2>10. /\ DOMAIN buckets' = DOMAIN after /\ DOMAIN granted' = DOMAIN after
         /\ \A k \in DOMAIN after : buckets'[k] = after[k] /\ granted'[k] = count(k)
    BY <2>1
  <2>11. QED
    BY <2>9, <2>10 DEF BInv, Covers
<1>3. QED
  BY <1>1, <1>2 DEF Charge

(* Time only adds to the budget; nothing else touches it. *)
LEMMA NextBInv ==
  ASSUME TInv, BInv, [ServiceNext]_serviceVars
  PROVE  BInv'
<1>1. CASE \E c \in Clients : BeginTurn(c)
  BY <1>1, ChargeCovers DEF BeginTurn
<1>2. CASE ~\E c \in Clients : BeginTurn(c)
  <2>1. UNCHANGED <<buckets, granted>> /\ clock' \in {clock, clock + 1} /\ clock \in Nat
    <3>1. clock \in Nat
      BY ServiceAssumption DEF TInv
    <3>2. QED
      BY <1>2, <3>1 DEF ServiceNext, serviceVars, TruncateIndex, FillIndex, Write, Connect, AskAgain, Ask, Leave,
         Flushed, NetStep, Stat, Read, TurnStep, Tick, Signal, ServerClosed, Deadline, Exit
  <2>2. \A k \in DOMAIN buckets : buckets[k].at \in Nat
    BY ServiceAssumption DEF BInv, Buckets
  <2>3. \A k \in DOMAIN buckets : Covers(buckets[k], granted[k])'
    BY <2>1, <2>2 DEF BInv, Covers
  <2>4. QED
    BY <2>1, <2>3 DEF BInv
<1>3. QED
  BY <1>1, <1>2

--------------------------------------------------------------------------------
(* Every step keeps the types. *)
LEMMA NextTInv ==
  ASSUME TInv, [ServiceNext]_serviceVars
  PROVE  TInv'
<1>1. CASE TruncateIndex \/ FillIndex
  BY <1>1, WriteTypes
<1>2. CASE \E c \in Clients : Connect(c) \/ AskAgain(c) \/ Ask(c) \/ Leave(c) \/ Flushed(c)
  BY <1>2, ClientTypes
<1>3. CASE \E c \in Clients : BeginTurn(c)
  BY <1>3, BeginTypes
<1>4. CASE Stat \/ Read
  BY <1>4, ReadTypes
<1>5. CASE Tick \/ Signal \/ ServerClosed \/ Deadline
  BY <1>5, EndTypes
<1>6. CASE UNCHANGED serviceVars
  BY <1>6 DEF serviceVars, TInv
<1>7. QED
  BY <1>1, <1>2, <1>3, <1>4, <1>5, <1>6 DEF ServiceNext

(* A process that has left stays as it left. *)
LEMMA NextEInv ==
  ASSUME EInv, [ServiceNext]_serviceVars
  PROVE  EInv'
<1>1. CASE UNCHANGED <<turn, conn, exit>>
  BY <1>1 DEF EInv
<1>2. CASE exit = NoRequest /\ exit' = exit
  BY <1>2 DEF EInv
<1>3. CASE ServerClosed
  BY <1>3 DEF ServerClosed, Exit, EInv
<1>4. CASE Deadline
  <2>1. exit' = 1 /\ turn' = NoTurn
    BY <1>4 DEF Deadline, Exit
  <2>2. QED
    BY <2>1 DEF EInv
<1>5. CASE TruncateIndex \/ FillIndex \/ UNCHANGED serviceVars
  BY <1>1, <1>5 DEF TruncateIndex, FillIndex, Write, netVars, serviceVars
<1>6. CASE \E c \in Clients : Connect(c) \/ AskAgain(c) \/ Ask(c) \/ Leave(c) \/ Flushed(c) \/ BeginTurn(c)
  BY <1>2, <1>6 DEF Connect, AskAgain, Ask, Leave, Flushed, BeginTurn, NetStep, netVars, Running
<1>7. CASE Stat \/ Read
  <2>1. turn # NoTurn /\ exit' = exit
    BY <1>7 DEF Stat, Read, TurnStep, netVars
  <2>2. QED
    BY <1>2, <2>1 DEF EInv
<1>8. CASE Tick \/ Signal
  BY <1>2, <1>8 DEF Tick, Signal, netVars, Running
<1>9. QED
  BY <1>3, <1>4, <1>5, <1>6, <1>7, <1>8 DEF ServiceNext

--------------------------------------------------------------------------------
(* The cache. *)

(* A stamp of size 0 is that of a half-written file only. *)
LEMMA SizeTells ==
  ASSUME TInv
  PROVE  /\ StampOf(file).mtime = file.mtime
         /\ file.content = Torn => StampOf(file).size = 0
         /\ file.content \in Versions => StampOf(file).size # 0
<1>1. \A v \in Versions : SizeOf[v] # 0 /\ v # Torn
  BY ServiceAssumption
<1>2. QED
  BY <1>1 DEF StampOf

(* A write makes the stamps that were taken older, or fills the file of    *)
(* which only the empty size was seen.                                     *)
LEMMA WriteCache ==
  ASSUME TInv, CInv, ~CoarseClock, TruncateIndex \/ FillIndex
  PROVE  CInv'
<1>1. UNCHANGED <<cache, turn>> /\ (turn # NoTurn => file'.content \in during')
  BY DEF TruncateIndex, FillIndex, Write
<1>2. /\ file.mtime \in Nat /\ file'.mtime \in Nat
      /\ turn.stamp # NoFile => turn.stamp \in Stamp
      /\ cache # NoCache => cache.stamp \in Stamp
  <2>1. TInv'
    BY WriteTypes
  <2>2. QED
    BY <2>1, ServiceAssumption DEF TInv
<1>3. \A stamp \in Stamp : stamp.mtime \in Nat /\ stamp.size \in Nat
  BY ServiceAssumption DEF Stamp
<1>4. CASE TruncateIndex
  <2>1. file'.mtime = file.mtime + 1
    BY <1>4 DEF TruncateIndex, Write
  <2>2. \A stamp \in Stamp : Taken(stamp) => Taken(stamp)' /\ stamp.mtime < file'.mtime
    BY <1>2, <1>3, <2>1 DEF Taken
  <2>3. cache # NoCache => cache.stamp # StampOf(file)'
    <3>1. StampOf(file)'.mtime = file'.mtime
      BY DEF StampOf
    <3>2. QED
      BY <1>2, <1>3, <2>2, <3>1 DEF CInv
  <2>4. QED
    BY <1>1, <1>2, <2>2, <2>3 DEF CInv
<1>5. CASE FillIndex
  <2>1. file.content = Torn /\ file'.mtime = file.mtime /\ file'.content \in Versions
    BY <1>5 DEF FillIndex, Write
  <2>2. \A stamp \in Stamp : Taken(stamp) => Taken(stamp)'
    BY <1>2, <1>3, <2>1, SizeTells DEF Taken
  <2>3. cache # NoCache => cache.stamp.mtime < file'.mtime
    BY <2>1 DEF CInv
  <2>4. cache # NoCache => cache.stamp # StampOf(file)'
    <3>1. StampOf(file)'.mtime = file'.mtime
      BY DEF StampOf
    <3>2. QED
      BY <1>2, <1>3, <2>3, <3>1
  <2>5. QED
    BY <1>1, <1>2, <2>2, <2>3, <2>4 DEF CInv
<1>6. QED
  BY <1>4, <1>5

(* What is read is kept under the stamp of before the read. *)
LEMMA ReadCache ==
  ASSUME TInv, CInv, Stat \/ Read
  PROVE  CInv'
<1>1. file' = file
  BY DEF Stat, Read, TurnStep
<1>2. \A stamp : Taken(stamp)' = Taken(stamp)
  BY <1>1 DEF Taken, StampOf
<1>3. CASE Stat
  <2>1. cache' = cache /\ turn # NoTurn
    BY <1>3 DEF Stat
  <2>2. CASE turn' = NoTurn
    BY <1>1, <1>2, <2>1, <2>2 DEF CInv, NoTurn, StampOf
  <2>3. CASE /\ turn' = [turn EXCEPT !.stamp = StampOf(file)] /\ during' = during
             /\ file.content # NoFile
    <3>1. turn'.stamp = StampOf(file)
      BY <2>3 DEF TInv
    <3>2. Taken(StampOf(file))
      <4>1. file.mtime \in Nat /\ StampOf(file).mtime = file.mtime
        BY ServiceAssumption, SizeTells DEF TInv
      <4>2. QED
        BY <4>1 DEF Taken
    <3>3. QED
      BY <1>1, <1>2, <2>1, <2>3, <3>1, <3>2 DEF CInv, StampOf
  <2>4. QED
    BY <1>3, <2>2, <2>3 DEF Stat, RespondFrom, Respond
<1>4. CASE Read
  <2>1. turn' = NoTurn /\ turn.stamp # NoFile /\ Taken(turn.stamp)
    BY <1>4 DEF Read, RespondFrom, Respond, CInv
  <2>2. cache' = NoCache \/ (file.content # Torn /\ cache' = [stamp |-> turn.stamp, data |-> file.content])
    BY <1>4 DEF Read
  <2>3. QED
    BY <1>1, <1>2, <2>1, <2>2 DEF CInv, NoTurn
<1>5. QED
  BY <1>3, <1>4

(* Every step keeps the cache true, if no two writes share a time. *)
LEMMA NextCInv ==
  ASSUME TInv, CInv, ~CoarseClock, [ServiceNext]_serviceVars
  PROVE  CInv'
<1>1. CASE TruncateIndex \/ FillIndex
  BY <1>1, WriteCache
<1>2. CASE Stat \/ Read
  BY <1>2, ReadCache
<1>3. CASE \E c \in Clients : BeginTurn(c)
  <2>1. UNCHANGED <<file, cache>>
    BY <1>3 DEF BeginTurn
  <2>2. turn'.stamp = NoFile /\ (turn' # NoTurn => during' = {file.content})
    BY <1>3 DEF BeginTurn, Respond, NoTurn
  <2>3. QED
    BY <2>1, <2>2 DEF CInv, Taken, StampOf
<1>4. CASE ~(\/ TruncateIndex \/ FillIndex \/ Stat \/ Read
             \/ \E c \in Clients : BeginTurn(c))
  <2>1. UNCHANGED <<file, cache, turn, during>>
    BY <1>4 DEF ServiceNext, serviceVars, Connect, AskAgain, Ask, Leave, Flushed, NetStep, Tick, Signal,
       ServerClosed, Deadline, Exit
  <2>2. QED
    BY <2>1 DEF CInv, Taken, StampOf
<1>5. QED
  BY <1>1, <1>2, <1>3, <1>4

--------------------------------------------------------------------------------
(* The invariant is inductive. *)
LEMMA NextIInv == IInv /\ [ServiceNext]_serviceVars => IInv'
BY NextTInv, NextBInv, NextEInv, NextCInv DEF IInv

(* The invariant holds in every reachable state. *)
LEMMA SpecIInv == ServiceSpec => []IInv
BY InitIInv, NextIInv, PTL DEF ServiceSpec

(* Types, budget and exit, for every number of clients and requests: no    *)
(* address is ever granted more than its burst and what its rate gives     *)
(* since it has its bucket (allow), and a process that leaves with 0 has   *)
(* answered everything it had taken (installShutdown).                     *)
THEOREM ServiceKeepsItsWord == ServiceSpec => []ServiceIsRight
<1>1. IInv => ServiceIsRight
  <2> SUFFICES ASSUME IInv PROVE ServiceTypeOK /\ BudgetKept /\ CleanExitAnswersAll
    BY DEF ServiceIsRight
  <2>1. TInv /\ BInv /\ EInv
    BY DEF IInv
  <2>2. ServiceTypeOK
    <3>1. file.content \in Contents /\ file.mtime \in 0..MaxWrites
      BY <2>1 DEF TInv
    <3>2. cache = NoCache \/ (cache.data \in Versions /\ cache.stamp \in Stamp)
      BY <2>1 DEF TInv
    <3>3. \A c \in Clients : conn[c].state \in States /\ conn[c].request \in Requests \cup {NoRequest}
      BY <2>1 DEF TInv
    <3>4. turn.client \in Clients \cup {NoRequest}
      BY <2>1 DEF TInv
    <3>5. \A k \in DOMAIN buckets : buckets[k].tokens \in 0..Capacity /\ buckets[k].at \in 0..MaxClock
      BY <2>1 DEF BInv, Buckets
    <3>6. DOMAIN buckets \subseteq Clients /\ DOMAIN granted = DOMAIN buckets
      BY <2>1 DEF BInv
    <3>7. closing \in BOOLEAN /\ exit \in {NoRequest, 0, 1}
      BY <2>1 DEF TInv
    <3>8. QED
      BY <3>1, <3>2, <3>3, <3>4, <3>5, <3>6, <3>7 DEF ServiceTypeOK, Contents, States
  <2>3. BudgetKept
    <3> SUFFICES ASSUME NEW k \in DOMAIN granted
                 PROVE  granted[k].n <= Capacity + Rate * (clock - granted[k].since)
      BY DEF BudgetKept
    <3>1. buckets[k] \in Buckets /\ granted[k] \in Grants /\ Covers(buckets[k], granted[k])
      BY <2>1 DEF BInv
    <3>2. clock \in 0..MaxClock /\ clock \in Nat /\ Capacity \in Nat
      BY <2>1, RateAssumption, ServiceAssumption DEF TInv
    <3>3. /\ Refilled(buckets[k], clock).tokens \in 0..Capacity
          /\ granted[k].n + Refilled(buckets[k], clock).tokens <= Capacity + Rate * (clock - granted[k].since)
      BY <3>1, <3>2, RefillCovers
    <3>4. granted[k].n \in Nat /\ granted[k].since \in Nat /\ Rate \in Nat
      BY <3>1, RateAssumption DEF Grants
    <3>5. Rate * (clock - granted[k].since) \in Int
      BY <3>2, <3>4
    <3>6. QED
      BY <3>2, <3>3, <3>4, <3>5
  <2>4. CleanExitAnswersAll
    <3>1. NoRequest # 0
      BY ServiceAssumption
    <3>2. QED
      BY <2>1, <3>1 DEF EInv, CleanExitAnswersAll
  <2>5. QED
    BY <2>2, <2>3, <2>4
<1>2. QED
  BY <1>1, SpecIInv, PTL

(* An answer is from an index that the file had while the request was      *)
(* handled, whatever was written between the stat and the read (loadIndex). *)
THEOREM AnswersAreCurrent == ServiceSpec => AnswerIsCurrent
<1> DEFINE Current == turn # NoTurn /\ turn' = NoTurn /\ ~CoarseClock =>
          \/ answer'.from \in during
          \/ answer'.from \in {Sample, NoFile} /\ during \cap {Torn, NoFile} # {}
<1>1. IInv /\ [ServiceNext]_serviceVars => [Current]_serviceVars
  <2> SUFFICES ASSUME IInv, ServiceNext, turn # NoTurn, turn' = NoTurn, ~CoarseClock
               PROVE  \/ answer'.from \in during
                      \/ answer'.from \in {Sample, NoFile} /\ during \cap {Torn, NoFile} # {}
    OBVIOUS
  <2>1. TInv /\ CInv /\ file.content \in during
    BY DEF IInv, CInv
  <2>2. Stat \/ Read
    BY DEF ServiceNext, TruncateIndex, FillIndex, Write, Connect, AskAgain, Ask, Leave, Flushed, NetStep,
       BeginTurn, Tick, Signal, ServerClosed, Deadline, Exit
  <2>3. \A c, version : RespondFrom(c, version) => answer'.from = version
    BY DEF RespondFrom, Respond
  <2>4. CASE Stat
    <3>1. CASE file.content = NoFile
      BY <2>1, <2>3, <2>4, <3>1 DEF Stat
    <3>2. CASE file.content # NoFile /\ Hit
      BY <2>1, <2>3, <2>4, <3>2 DEF Stat, Hit, CInv
    <3>3. CASE turn' = [turn EXCEPT !.stamp = StampOf(file)]
      <4>1. turn'.client = turn.client /\ turn.client \in Clients
        BY <2>1, <3>3 DEF TInv
      <4>2. QED
        BY <4>1, ServiceAssumption DEF NoTurn
    <3>4. QED
      BY <2>4, <3>1, <3>2, <3>3 DEF Stat
  <2>5. CASE Read
    BY <2>1, <2>3, <2>5 DEF Read
  <2>6. QED
    BY <2>2, <2>4, <2>5
<1>2. QED
  BY <1>1, SpecIInv, PTL DEF ServiceSpec, AnswerIsCurrent
================================================================================
