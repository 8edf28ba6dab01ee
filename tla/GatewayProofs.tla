----------------------------- MODULE GatewayProofs -----------------------------
(***************************************************************************)
(* For every policy, every set of lines and every number of them: the      *)
(* types, that no refused call ever reaches the server, and that the       *)
(* gateway implements the policy's filter.                                 *)
(*                                                                         *)
(* The types need the framing of the streams: that the first newline of a  *)
(* buffer always closes a whole line is what makes toServer a sequence of  *)
(* what the client's lines were read as and never of pieces of them: a     *)
(* chunk that ends inside a character changes the text of a second half    *)
(* and leaves every newline and every first half (SameHalves), so the      *)
(* lines stay countable whatever became of them.  The filter needs the     *)
(* order as well (RInv): what is still in the pipe and the buffer is the   *)
(* lines after those decided, and the line in hand is the next one.  That  *)
(* the log is written ahead needs the books on top (KInv): with what of    *)
(* the line in hand is due to be logged, log and streams agree.            *)
(***************************************************************************)
EXTENDS GatewayProps, FiniteSetTheorems, FunctionTheorems, SequenceTheorems, TLAPS

Names == Tools \cup {NoName}
LogEffects == [sink : {"log"}, decision : {"allowed", "refused", "refused batch", "removed"},
               tool : Names]

(* What a line can be read as is a line. *)
LEMMA TextsAreLines ==
  /\ IsFiniteSet(Tools) /\ ClientTexts \subseteq ClientLine /\ ServerTexts \subseteq ServerLine
  /\ ClientLines \subseteq ClientTexts /\ ServerLines \subseteq ServerTexts
<1>1. /\ IsFiniteSet(Tools) /\ ClientLines \subseteq ClientLine /\ ServerLines \subseteq ServerLine
      /\ \A line \in DOMAIN ClientGarbled : ClientGarbled[line] \in ClientLine
      /\ \A line \in DOMAIN ServerGarbled : ServerGarbled[line] \in ServerLine
  BY GatewayAssumption, Zenon
<1>2. ASSUME NEW lines, NEW garbled, NEW S, lines \subseteq S, \A line \in DOMAIN garbled : garbled[line] \in S
      PROVE  Texts(lines, garbled) \subseteq S /\ lines \subseteq Texts(lines, garbled)
  <2>1. \A line \in lines : Readings(line, garbled) \subseteq S /\ line \in Readings(line, garbled)
    BY <1>2 DEF Readings
  <2>2. QED
    BY <2>1 DEF Texts
<1>3. ClientTexts \subseteq ClientLine /\ ClientLines \subseteq ClientTexts
  BY <1>1, <1>2, Zenon DEF ClientTexts
<1>4. ServerTexts \subseteq ServerLine /\ ServerLines \subseteq ServerTexts
  BY <1>1, <1>2, Zenon DEF ServerTexts
<1>5. QED
  BY <1>1, <1>3, <1>4

(* SetToSeq enumerates a finite set.  *)
LEMMA SetToSeqIsSeq ==
  ASSUME NEW S, IsFiniteSet(S)
  PROVE  SetToSeq(S) \in Seq(S)
<1>1. Cardinality(S) \in Nat /\ ExistsBijection(1..Cardinality(S), S)
  BY FS_CardinalityType
<1>2. \E f \in [1..Cardinality(S) -> S] : IsInjective(f)
  BY <1>1, Zenon DEF ExistsBijection, Bijection, Injection
<1>3. SetToSeq(S) \in [1..Cardinality(S) -> S]
  BY <1>2, Zenon DEF SetToSeq
<1>4. QED
  BY <1>1, <1>3, SeqDef

(* The elements of a sequence over S, and a sequence given by its elements. *)
LEMMA SeqElements ==
  ASSUME NEW S, NEW s, s \in Seq(S)
  PROVE  Len(s) \in Nat /\ \A k \in 1..Len(s) : s[k] \in S
OBVIOUS

(* A function on 1..n is a sequence. *)
LEMMA SeqByElements ==
  ASSUME NEW S, NEW n \in Nat, NEW s \in [1..n -> S]
  PROVE  s \in Seq(S)
OBVIOUS

(* The entries logged for a line are log effects. *)
LEMMA LogEachType ==
  ASSUME NEW decision \in {"allowed", "refused", "refused batch", "removed"},
         NEW positions \in SUBSET (Nat \X Names), IsFiniteSet(positions)
  PROVE  LogEach(decision, positions) \in Seq(LogEffects)
<1>1. PICK s : s = SetToSeq(positions)
  OBVIOUS
<1>2. s \in Seq(positions)
  BY <1>1, SetToSeqIsSeq
<1>3. Len(s) \in Nat /\ \A k \in 1..Len(s) : s[k] \in positions
  BY <1>2, SeqElements
<1>4. \A k \in 1..Len(s) : s[k][2] \in Names
  BY <1>3
<1>5. \A k \in 1..Len(s) : Log(decision, s[k][2]) \in LogEffects
  BY <1>4 DEF Log, LogEffects
<1>6. [k \in 1..Len(s) |-> Log(decision, s[k][2])] \in Seq(LogEffects)
  <2>1. [k \in 1..Len(s) |-> Log(decision, s[k][2])] \in [1..Len(s) -> LogEffects]
    BY <1>5, Zenon
  <2>2. QED
    BY <1>3, <2>1, SeqByElements
<1>7. QED
  BY <1>1, <1>6 DEF LogEach

(* The positions of the calls of a client line. *)
LEMMA CallsType ==
  ASSUME NEW line \in ClientLine
  PROVE  Calls(line) \in SUBSET (Nat \X Names) /\ IsFiniteSet(Calls(line))
<1>1. line.msgs \in Seq(ClientMsg) /\ DOMAIN line.msgs = 1..Len(line.msgs)
      /\ Len(line.msgs) \in Nat
  BY DEF ClientLine
<1>2. \A i \in DOMAIN line.msgs : line.msgs[i].tool \in Names
  <2>1. \A i \in DOMAIN line.msgs : line.msgs[i] \in ClientMsg
    BY <1>1, SeqElements
  <2>2. QED
    BY <2>1 DEF ClientMsg, Names
<1>3. Calls(line) \subseteq (1..Len(line.msgs)) \X Names
  BY <1>1, <1>2 DEF Calls
<1>4. IsFiniteSet(1..Len(line.msgs)) /\ IsFiniteSet(Names)
  <2>1. IsFiniteSet(Tools)
    BY TextsAreLines
  <2>2. IsFiniteSet(Names)
    BY <2>1, FS_AddElement DEF Names
  <2>3. QED
    BY <1>1, <2>2, FS_Interval
<1>5. IsFiniteSet((1..Len(line.msgs)) \X Names)
  BY <1>4, FS_Product
<1>6. QED
  BY <1>1, <1>3, <1>5, FS_Subset

(* The positions of the forbidden tools of a server line. *)
LEMMA RemovedType ==
  ASSUME NEW line \in ServerLine
  PROVE  RemovedTools(line) \in SUBSET (Nat \X Names) /\ IsFiniteSet(RemovedTools(line))
<1>1. DOMAIN line.msgs = 1..Len(line.msgs) /\ Len(line.msgs) \in Nat
  BY DEF ServerLine
<1>2. RemovedTools(line) \subseteq (1..Len(line.msgs)) \X Tools
  BY <1>1 DEF RemovedTools
<1>3. IsFiniteSet((1..Len(line.msgs)) \X Tools)
  <2>1. IsFiniteSet(1..Len(line.msgs)) /\ IsFiniteSet(Tools)
    BY <1>1, FS_Interval, TextsAreLines
  <2>2. QED
    BY <2>1, FS_Product
<1>4. IsFiniteSet(RemovedTools(line))
  BY <1>2, <1>3, FS_Subset
<1>5. RemovedTools(line) \subseteq Nat \X Names
  BY <1>1, <1>2 DEF Names
<1>6. QED
  BY <1>4, <1>5

--------------------------------------------------------------------------------
(* Effects that obey the policy, and what they leave behind. *)
Clean(response) == \A j \in DOMAIN response.msgs : \A t \in response.msgs[j] : Allowed(t)
SafeEffects == {e \in Effects : /\ e.sink = "server" => Passes(e.request)
                                /\ e.sink = "client" => Clean(e.response)}
SafeLines == {line \in ClientTexts : Passes(line)}
Answer == [from : {"gateway"}, request : ClientTexts] \cup [from : {"server"}, response : ServerLine]
SafeAnswers == {m \in Answer : m.from = "server" => Clean(m.response)}

(* A concatenation stays over the same set. *)
LEMMA SeqConcat ==
  ASSUME NEW S, NEW s \in Seq(S), NEW t \in Seq(S)
  PROVE  s \o t \in Seq(S)
OBVIOUS

(* A sequence of one element. *)
LEMMA SeqOfOne ==
  ASSUME NEW S, NEW e \in S
  PROVE  <<e>> \in Seq(S)
OBVIOUS

(* A sequence of length two is the pair of its elements. *)
LEMMA PairByElements ==
  ASSUME NEW S, NEW s \in Seq(S), Len(s) = 2, NEW x, NEW y, s[1] = x, s[2] = y
  PROVE  s = <<x, y>>
OBVIOUS

(* What is left of a sequence after its first k elements. *)
LEMMA SuffixFacts ==
  ASSUME NEW S, NEW s \in Seq(S), NEW k \in 0..Len(s), NEW t, t = SubSeq(s, k + 1, Len(s))
  PROVE  t \in Seq(S) /\ Len(t) = Len(s) - k /\ \A j \in 1..Len(s) - k : t[j] = s[j + k]
<1>1. Len(s) \in Nat /\ \A i \in 1..Len(s) : s[i] \in S
  OBVIOUS
<1>2. k + 1 \in Int /\ Len(s) \in Int /\ \A i \in (k + 1)..Len(s) : s[i] \in S
  BY <1>1
<1>3. /\ t \in Seq(S) /\ Len(t) = (IF k + 1 <= Len(s) THEN Len(s) - (k + 1) + 1 ELSE 0)
      /\ \A j \in 1..Len(s) - (k + 1) + 1 : t[j] = s[k + 1 + j - 1]
  BY <1>2, SubSeqProperties
<1>4. QED
  BY <1>1, <1>3

(* Log entries are no writes to either side. *)
LEMMA LogEffectsSafe == LogEffects \subseteq SafeEffects
<1>1. \A e \in LogEffects : e \in Effects /\ e.sink = "log"
  BY DEF LogEffects, Effects, Names
<1>2. QED
  BY <1>1 DEF SafeEffects

(* An effect of a client line on the server is a line the policy allows. *)
LEMMA ClientEffectsSafe ==
  ASSUME NEW line \in ClientTexts
  PROVE  ClientEffects(line) \in Seq(SafeEffects)
<1>1. line \in ClientLine
  BY TextsAreLines
<1>2. \A d \in {"allowed", "refused"} : LogEach(d, Calls(line)) \in Seq(SafeEffects)
  <2> TAKE d \in {"allowed", "refused"}
  <2>1. LogEach(d, Calls(line)) \in Seq(LogEffects)
    BY <1>1, CallsType, LogEachType
  <2>2. QED
    BY <2>1, SeqMonotonic, LogEffectsSafe
<1>3. CASE Passes(line)
  <2>1. Forward(line) \in SafeEffects
    BY <1>3 DEF Forward, SafeEffects, Effects
  <2>2. QED
    BY <1>2, <1>3, <2>1 DEF ClientEffects
<1>4. CASE ~Passes(line)
  <2>1. Refuse(line) \in SafeEffects
    BY DEF Refuse, SafeEffects, Effects
  <2>2. Log("refused batch", NoName) \in SafeEffects
    BY LogEffectsSafe DEF Log, LogEffects, Names
  <2>3. (IF line.kind = "batch" THEN <<Log("refused batch", NoName)>> ELSE <<>>) \in Seq(SafeEffects)
    <3>1. <<Log("refused batch", NoName)>> \in Seq(SafeEffects)
      BY <2>2, SeqOfOne
    <3>2. <<>> \in Seq(SafeEffects)
      BY EmptySeq
    <3>3. QED
      BY <3>1, <3>2, Zenon
  <2>4. LogEach("refused", Calls(line)) \o (IF line.kind = "batch" THEN <<Log("refused batch", NoName)>> ELSE <<>>)
        \in Seq(SafeEffects)
    BY <1>2, <2>3, SeqConcat
  <2>5. QED
    BY <1>4, <2>1, <2>4, SeqConcat, SeqOfOne DEF ClientEffects
<1>5. QED
  BY <1>3, <1>4

(* What is left of a response advertises nothing the policy forbids. *)
LEMMA ServerEffectsSafe ==
  ASSUME NEW line \in ServerTexts
  PROVE  ServerEffects(line) \in Seq(SafeEffects)
<1>1. line \in ServerLine
  BY TextsAreLines
<1>2. LogEach("removed", RemovedTools(line)) \in Seq(LogEffects)
  BY <1>1, RemovedType, LogEachType
<1>3. Filtered(line) \in ServerLine /\ Clean(Filtered(line))
  <2>1. line.msgs \in Seq(SUBSET Tools) /\ Len(line.msgs) \in Nat /\ DOMAIN line.msgs = 1..Len(line.msgs)
    BY <1>1 DEF ServerLine
  <2>2. \A i \in 1..Len(line.msgs) : FilterTools(line.msgs[i]) \in SUBSET Tools
    BY <2>1, SeqElements DEF FilterTools
  <2>3. [i \in DOMAIN line.msgs |-> FilterTools(line.msgs[i])] \in [1..Len(line.msgs) -> SUBSET Tools]
    BY <2>1, <2>2
  <2>4. [i \in DOMAIN line.msgs |-> FilterTools(line.msgs[i])] \in Seq(SUBSET Tools)
    BY <2>1, <2>3, SeqByElements
  <2>5. Filtered(line) \in ServerLine
    BY <1>1, <2>4 DEF Filtered, ServerLine
  <2>6. Filtered(line).msgs = [i \in DOMAIN line.msgs |-> FilterTools(line.msgs[i])]
    BY <1>1 DEF Filtered, ServerLine
  <2>7. Clean(Filtered(line))
    BY <2>6 DEF Clean, FilterTools
  <2>8. QED
    BY <2>5, <2>7
<1>4. PassOn(Filtered(line)) \in SafeEffects
  BY <1>3 DEF PassOn, SafeEffects, Effects
<1>5. QED
  BY <1>2, <1>4, SeqMonotonic, LogEffectsSafe DEF ServerEffects

--------------------------------------------------------------------------------
(* A stream is framed when every newline follows the first half of its own *)
(* line, read as such, and every first half is followed by its newline;    *)
(* what was not read yet is as it was written.                             *)
Framed(stream, read, garbled) == \A i \in 1..Len(stream) :
    /\ stream[i].newline => /\ i > 1 /\ ~stream[i - 1].newline
                            /\ stream[i].line \in Readings(stream[i - 1].line, garbled)
                            /\ i > read => stream[i].line = stream[i - 1].line
    /\ ~stream[i].newline => i < Len(stream) /\ stream[i + 1].newline

(* What the writing of a line adds to a stream, and its reading takes; and *)
(* what of a stream a chunk leaves alone.                                  *)
AddsTwo(old, new, line) ==
    /\ Len(new) = Len(old) + 2 /\ \A i \in 1..Len(old) : new[i] = old[i]
    /\ new[Len(old) + 1] = [line |-> line, newline |-> FALSE]
    /\ new[Len(old) + 2] = [line |-> line, newline |-> TRUE]
DropsTwo(old, new) ==
    /\ Len(old) \in Nat /\ Len(old) >= 2 /\ Len(new) = Len(old) - 2
    /\ \A i \in 1..Len(new) : new[i] = old[i + 2]
SameHalves(old, new) ==
    /\ Len(new) = Len(old)
    /\ \A i \in 1..Len(old) : new[i].newline = old[i].newline /\ (~old[i].newline => new[i] = old[i])

(* Decoding a chunk changes at most the text of a second half it begins    *)
(* with.                                                                   *)
LEMMA DecodedFacts ==
  ASSUME NEW L, NEW garbled, NEW T, T = Texts(L, garbled),
         NEW chunk \in Seq(Fragment(L)), chunk # <<>>, NEW d, d = Decoded(chunk, garbled)
  PROVE  /\ d \in Seq(Fragment(T)) /\ Len(d) = Len(chunk) /\ \A i \in 2..Len(chunk) : d[i] = chunk[i]
         /\ d[1].newline = chunk[1].newline /\ (~chunk[1].newline => d[1] = chunk[1])
         /\ d[1].line \in Readings(chunk[1].line, garbled)
<1>1. /\ Len(chunk) \in Nat /\ 1 \in 1..Len(chunk) /\ DOMAIN chunk = 1..Len(chunk)
      /\ \A i \in 1..Len(chunk) : chunk[i] \in Fragment(L)
  OBVIOUS
<1>2. \A line \in L : Readings(line, garbled) \subseteq T /\ line \in Readings(line, garbled)
  BY DEF Readings, Texts
<1>3. Fragment(L) \subseteq Fragment(T)
  BY <1>2 DEF Fragment
<1>4. CASE ~(chunk[1].newline /\ chunk[1].line \in DOMAIN garbled)
  <2>1. d = chunk
    BY <1>4, Zenon DEF Decoded
  <2>2. chunk \in Seq(Fragment(T))
    BY <1>3, SeqMonotonic
  <2>3. chunk[1].line \in Readings(chunk[1].line, garbled)
    BY DEF Readings
  <2>4. QED
    BY <2>1, <2>2, <2>3
<1>5. CASE chunk[1].newline /\ chunk[1].line \in DOMAIN garbled
  <2>1. d = [chunk EXCEPT ![1].line = garbled[@]]
    BY <1>5, Zenon DEF Decoded
  <2>2. PICK text : text = garbled[chunk[1].line]
    OBVIOUS
  <2>3. text \in Readings(chunk[1].line, garbled)
    BY <1>5, <2>2 DEF Readings
  <2>4. chunk[1] \in Fragment(L) /\ chunk[1].line \in L
    BY <1>1 DEF Fragment
  <2>5. text \in T
    BY <1>2, <2>3, <2>4, Zenon
  <2>6. PICK first : first = [chunk[1] EXCEPT !.line = text]
    OBVIOUS
  <2>7. first \in Fragment(T) /\ first.newline = chunk[1].newline /\ first.line = text
    BY <2>4, <2>5, <2>6 DEF Fragment
  <2>8. d = [chunk EXCEPT ![1] = first]
    BY <2>1, <2>2, <2>6, <1>1
  <2>9. d = [i \in 1..Len(chunk) |-> IF i = 1 THEN first ELSE chunk[i]]
    BY <2>8, <1>1
  <2>10. d \in [1..Len(chunk) -> Fragment(T)]
    BY <2>9, <2>7, <1>1, <1>3
  <2>11. d \in Seq(Fragment(T)) /\ Len(d) = Len(chunk)
    BY <1>1, <2>10, SeqByElements
  <2>12. d[1] = first /\ \A i \in 2..Len(chunk) : d[i] = chunk[i]
    BY <1>1, <2>9
  <2>13. QED
    BY <1>5, <2>3, <2>7, <2>11, <2>12, Zenon
<1>6. QED
  BY <1>4, <1>5, Zenon

(* A chunk moves the border between the buffer and the pipe, and decodes   *)
(* what it moves.                                                          *)
LEMMA ChunkKeepsStream ==
  ASSUME NEW L, NEW garbled, NEW buffer \in Seq(Fragment(Texts(L, garbled))),
         NEW pipe \in Seq(Fragment(L)), NEW n \in 1..Len(pipe),
         Framed(buffer \o pipe, Len(buffer), garbled)
  PROVE  LET more == buffer \o Decoded(SubSeq(pipe, 1, n), garbled)
             rest == SubSeq(pipe, n + 1, Len(pipe))
         IN  /\ more \in Seq(Fragment(Texts(L, garbled))) /\ rest \in Seq(Fragment(L))
             /\ Framed(more \o rest, Len(more), garbled)
             /\ SameHalves(buffer \o pipe, more \o rest)
<1> SUFFICES ASSUME NEW T, T = Texts(L, garbled), buffer \in Seq(Fragment(T)),
                    NEW more, more = buffer \o Decoded(SubSeq(pipe, 1, n), garbled),
                    NEW rest, rest = SubSeq(pipe, n + 1, Len(pipe))
             PROVE  /\ more \in Seq(Fragment(T)) /\ rest \in Seq(Fragment(L))
                    /\ Framed(more \o rest, Len(more), garbled)
                    /\ SameHalves(buffer \o pipe, more \o rest)
  BY Zenon
<1> DEFINE chunk == SubSeq(pipe, 1, n)
           d == Decoded(chunk, garbled)
           old == buffer \o pipe
           new == more \o rest
           read == Len(buffer)
<1>1. /\ Len(pipe) \in Nat /\ n \in Nat /\ n >= 1 /\ n <= Len(pipe) /\ read \in Nat
      /\ \A i \in 1..Len(pipe) : pipe[i] \in Fragment(L)
  OBVIOUS
<1>2. /\ chunk \in Seq(Fragment(L)) /\ Len(chunk) = n /\ chunk # <<>>
      /\ \A i \in 1..n : chunk[i] = pipe[i]
  <2>1. 1 \in Int /\ n \in Int /\ \A i \in 1..n : pipe[i] \in Fragment(L)
    BY <1>1
  <2>2. /\ chunk \in Seq(Fragment(L)) /\ Len(chunk) = (IF 1 <= n THEN n - 1 + 1 ELSE 0)
        /\ \A i \in 1..n - 1 + 1 : chunk[i] = pipe[1 + i - 1]
    BY <2>1, SubSeqProperties
  <2> HIDE DEF chunk
  <2>3. Len(chunk) = n /\ \A i \in 1..n : chunk[i] = pipe[i]
    BY <1>1, <2>2
  <2>4. chunk # <<>>
    BY <1>1, <2>3
  <2>5. QED
    BY <2>2, <2>3, <2>4
<1>3. /\ rest \in Seq(Fragment(L)) /\ Len(rest) = Len(pipe) - n
      /\ \A j \in 1..Len(pipe) - n : rest[j] = pipe[j + n]
  <2>1. n \in 0..Len(pipe)
    BY <1>1
  <2>2. QED
    BY <2>1, SuffixFacts
<1> HIDE DEF chunk
<1>4. /\ d \in Seq(Fragment(T)) /\ Len(d) = n /\ \A i \in 2..n : d[i] = chunk[i]
      /\ d[1].newline = chunk[1].newline /\ (~chunk[1].newline => d[1] = chunk[1])
      /\ d[1].line \in Readings(chunk[1].line, garbled)
  <2>1. PICK e : e = d
    OBVIOUS
  <2>2. /\ e \in Seq(Fragment(T)) /\ Len(e) = Len(chunk) /\ \A i \in 2..Len(chunk) : e[i] = chunk[i]
        /\ e[1].newline = chunk[1].newline /\ (~chunk[1].newline => e[1] = chunk[1])
        /\ e[1].line \in Readings(chunk[1].line, garbled)
    <3>1. chunk \in Seq(Fragment(L)) /\ chunk # <<>> /\ e = Decoded(chunk, garbled) /\ T = Texts(L, garbled)
      BY <1>2, <2>1
    <3>2. QED
      BY ONLY <3>1, DecodedFacts
  <2> HIDE DEF d
  <2>3. QED
    BY <1>2, <2>1, <2>2, Zenon
<1>5. more = buffer \o d
  BY Zenon DEF chunk
<1> HIDE DEF d
<1>6. /\ more \in Seq(Fragment(T)) /\ Len(more) = read + n
      /\ \A i \in 1..read + n : more[i] = IF i <= read THEN buffer[i] ELSE d[i - read]
  <2>1. PICK e \in Seq(Fragment(T)) : e = d
    BY <1>4
  <2>2. Len(e) = n /\ more = buffer \o e
    BY <1>4, <1>5, <2>1, Zenon
  <2>3. /\ more \in Seq(Fragment(T)) /\ Len(more) = Len(buffer) + Len(e)
        /\ \A i \in 1..Len(buffer) + Len(e) : more[i] = IF i <= Len(buffer) THEN buffer[i] ELSE e[i - Len(buffer)]
    BY ONLY buffer \in Seq(Fragment(T)), e \in Seq(Fragment(T)), <2>2, ConcatProperties
  <2>4. QED
    BY <2>1, <2>2, <2>3, Zenon
<1>7. Fragment(L) \subseteq Fragment(T)
  <2>1. L \subseteq T
    BY DEF Readings, Texts
  <2>2. QED
    BY <2>1 DEF Fragment
<1>8. rest \in Seq(Fragment(T)) /\ pipe \in Seq(Fragment(T))
  BY <1>3, <1>7, SeqMonotonic
<1>9. /\ Len(new) = read + Len(pipe)
      /\ \A i \in 1..read + Len(pipe) : new[i] = IF i <= read + n THEN more[i] ELSE rest[i - (read + n)]
  <2>1. /\ Len(new) = Len(more) + Len(rest)
        /\ \A i \in 1..Len(more) + Len(rest) : new[i] = IF i <= Len(more) THEN more[i] ELSE rest[i - Len(more)]
    BY ONLY <1>6, <1>8, ConcatProperties
  <2>2. Len(more) + Len(rest) = read + Len(pipe)
    <3>1. Len(more) = read + n /\ Len(rest) = Len(pipe) - n
      BY <1>3, <1>6, Zenon
    <3>2. QED
      BY ONLY <1>1, <3>1
  <2>3. QED
    BY <1>6, <2>1, <2>2, Zenon
<1>10. /\ Len(old) = read + Len(pipe)
       /\ \A i \in 1..read + Len(pipe) : old[i] = IF i <= read THEN buffer[i] ELSE pipe[i - read]
  BY ONLY <1>8, buffer \in Seq(Fragment(T)), ConcatProperties
<1>11. Framed(old, read, garbled)
  OBVIOUS
<1> HIDE DEF old, new, read
<1>12. ASSUME NEW i \in 1..read + Len(pipe), i # read + 1 PROVE new[i] = old[i]
  <2>1. CASE i <= read
    <3>1. i \in 1..read + n /\ i <= read + n
      BY <1>1, <2>1
    <3>2. new[i] = more[i] /\ more[i] = buffer[i] /\ old[i] = buffer[i]
      BY <1>6, <1>9, <1>10, <2>1, <3>1, Zenon
    <3>3. QED
      BY <3>2
  <2>2. CASE i > read + 1 /\ i <= read + n
    <3>1. i - read \in 2..n /\ i - read \in 1..n /\ i \in 1..read + n /\ ~(i <= read)
      BY <1>1, <2>2
    <3>2. new[i] = d[i - read] /\ old[i] = pipe[i - read]
      BY <1>6, <1>9, <1>10, <2>2, <3>1
    <3>3. d[i - read] = pipe[i - read]
      BY <1>2, <1>4, <3>1
    <3>4. QED
      BY <3>2, <3>3
  <2>3. CASE i > read + n
    <3>1. i - (read + n) \in 1..Len(pipe) - n /\ i - (read + n) + n = i - read /\ ~(i <= read + n) /\ ~(i <= read)
      BY <1>1, <2>3
    <3>2. new[i] = rest[i - (read + n)] /\ old[i] = pipe[i - read]
      BY <1>9, <1>10, <3>1
    <3>3. QED
      BY <1>3, <3>1, <3>2
  <2>4. QED
    BY <1>1, <1>12, <2>1, <2>2, <2>3
<1>13. /\ read + 1 \in 1..read + Len(pipe) /\ new[read + 1].newline = old[read + 1].newline
       /\ ~old[read + 1].newline => new[read + 1] = old[read + 1]
       /\ new[read + 1].line \in Readings(old[read + 1].line, garbled)
  <2>1. PICK k \in 1..read + Len(pipe) : k = read + 1
    BY <1>1
  <2>2. k \in 1..read + n /\ k <= read + n /\ ~(k <= read) /\ k - read = 1 /\ 1 \in 1..n
    BY <1>1, <2>1
  <2>3. new[k] = d[1] /\ old[k] = pipe[1] /\ pipe[1] = chunk[1]
    BY <1>2, <1>6, <1>9, <1>10, <2>2
  <2>4. QED
    BY <1>4, <2>1, <2>3
<1>14. ASSUME NEW i \in 1..read + Len(pipe)
       PROVE  new[i].newline = old[i].newline /\ (~old[i].newline => new[i] = old[i])
  <2>1. CASE i = read + 1
    BY <1>13, <2>1
  <2>2. CASE i # read + 1
    BY <1>12, <2>2
  <2>3. QED
    BY <2>1, <2>2
<1>15. SameHalves(old, new)
  BY <1>9, <1>10, <1>14, Zenon DEF SameHalves
<1>16. ASSUME NEW i \in 1..Len(new)
       PROVE  /\ new[i].newline => /\ i > 1 /\ ~new[i - 1].newline
                                   /\ new[i].line \in Readings(new[i - 1].line, garbled)
                                   /\ i > read + n => new[i].line = new[i - 1].line
              /\ ~new[i].newline => i < Len(new) /\ new[i + 1].newline
  <2>1. i \in 1..read + Len(pipe) /\ i \in 1..Len(old) /\ i \in Nat /\ Len(new) = Len(old)
    BY <1>1, <1>9, <1>10
  <2>2. /\ old[i].newline => /\ i > 1 /\ ~old[i - 1].newline
                             /\ old[i].line \in Readings(old[i - 1].line, garbled)
                             /\ i > read => old[i].line = old[i - 1].line
        /\ ~old[i].newline => i < Len(old) /\ old[i + 1].newline
    BY <1>11, <2>1, Zenon DEF Framed
  <2>3. i > 1 => i - 1 \in 1..read + Len(pipe)
    BY <1>1, <2>1
  <2>4. i < Len(old) => i + 1 \in 1..read + Len(pipe)
    BY <1>1, <1>10, <2>1
  <2>5. CASE ~new[i].newline
    <3>1. i < Len(old) /\ old[i + 1].newline
      BY <1>14, <2>1, <2>2, <2>5
    <3>2. new[i + 1].newline
      BY <1>14, <2>4, <3>1
    <3>3. QED
      BY <2>1, <2>5, <3>1, <3>2
  <2>6. CASE new[i].newline
    <3>1. /\ i > 1 /\ ~old[i - 1].newline /\ old[i].line \in Readings(old[i - 1].line, garbled)
          /\ i > read => old[i].line = old[i - 1].line
      BY <1>14, <2>1, <2>2, <2>6
    <3>2. new[i - 1] = old[i - 1]
      BY <1>14, <2>3, <3>1
    <3>3. CASE i # read + 1
      <4>1. new[i] = old[i]
        BY <1>12, <2>1, <3>3
      <4>2. i > read + n => i > read
        BY <1>1, <2>1
      <4>3. QED
        BY <2>6, <3>1, <3>2, <4>1, <4>2
    <3>4. CASE i = read + 1
      <4>1. i > read /\ ~(i > read + n)
        BY <1>1, <3>4
      <4>2. new[i].line \in Readings(old[i - 1].line, garbled)
        BY <1>13, <3>1, <3>4, <4>1
      <4>3. QED
        BY <2>6, <3>1, <3>2, <4>1, <4>2
    <3>5. QED
      BY <3>3, <3>4
  <2>7. QED
    BY <2>5, <2>6
<1>17. Framed(new, Len(more), garbled)
  BY <1>6, <1>16, Zenon DEF Framed
<1>18. QED
  BY <1>3, <1>6, <1>15, <1>17 DEF old, new

(* A chunk of the client. *)
LEMMA ClientChunkKeepsStream ==
  ASSUME NEW buffer \in Seq(Fragment(ClientTexts)), NEW pipe \in Seq(Fragment(ClientLines)), NEW n \in 1..Len(pipe),
         Framed(buffer \o pipe, Len(buffer), ClientGarbled)
  PROVE  LET more == buffer \o Decoded(SubSeq(pipe, 1, n), ClientGarbled)
             rest == SubSeq(pipe, n + 1, Len(pipe))
         IN  /\ more \in Seq(Fragment(ClientTexts)) /\ rest \in Seq(Fragment(ClientLines))
             /\ Framed(more \o rest, Len(more), ClientGarbled)
             /\ SameHalves(buffer \o pipe, more \o rest)
<1>1. ClientTexts = Texts(ClientLines, ClientGarbled)
  BY DEF ClientTexts
<1>2. buffer \in Seq(Fragment(Texts(ClientLines, ClientGarbled)))
  BY <1>1, Zenon
<1>3. LET more == buffer \o Decoded(SubSeq(pipe, 1, n), ClientGarbled)
          rest == SubSeq(pipe, n + 1, Len(pipe))
      IN  /\ more \in Seq(Fragment(Texts(ClientLines, ClientGarbled))) /\ rest \in Seq(Fragment(ClientLines))
          /\ Framed(more \o rest, Len(more), ClientGarbled)
          /\ SameHalves(buffer \o pipe, more \o rest)
  BY <1>2, ChunkKeepsStream, Zenon
<1>4. QED
  BY <1>1, <1>3, Zenon

(* A chunk of the server. *)
LEMMA ServerChunkKeepsStream ==
  ASSUME NEW buffer \in Seq(Fragment(ServerTexts)), NEW pipe \in Seq(Fragment(ServerLines)), NEW n \in 1..Len(pipe),
         Framed(buffer \o pipe, Len(buffer), ServerGarbled)
  PROVE  LET more == buffer \o Decoded(SubSeq(pipe, 1, n), ServerGarbled)
             rest == SubSeq(pipe, n + 1, Len(pipe))
         IN  /\ more \in Seq(Fragment(ServerTexts)) /\ rest \in Seq(Fragment(ServerLines))
             /\ Framed(more \o rest, Len(more), ServerGarbled)
             /\ SameHalves(buffer \o pipe, more \o rest)
<1>1. ServerTexts = Texts(ServerLines, ServerGarbled)
  BY DEF ServerTexts
<1>2. buffer \in Seq(Fragment(Texts(ServerLines, ServerGarbled)))
  BY <1>1, Zenon
<1>3. LET more == buffer \o Decoded(SubSeq(pipe, 1, n), ServerGarbled)
          rest == SubSeq(pipe, n + 1, Len(pipe))
      IN  /\ more \in Seq(Fragment(Texts(ServerLines, ServerGarbled))) /\ rest \in Seq(Fragment(ServerLines))
          /\ Framed(more \o rest, Len(more), ServerGarbled)
          /\ SameHalves(buffer \o pipe, more \o rest)
  BY <1>2, ChunkKeepsStream, Zenon
<1>4. QED
  BY <1>1, <1>3, Zenon

(* A line is written as fragments of lines. *)
LEMMA WriteKeepsType ==
  ASSUME NEW S, NEW pipe \in Seq(Fragment(S)), NEW line \in S
  PROVE  pipe \o Fragments(line) \in Seq(Fragment(S))
<1>1. Fragments(line) \in Seq(Fragment(S))
  BY DEF Fragments, Fragment
<1>2. QED
  BY <1>1, SeqConcat

(* Writing a whole line keeps the stream framed. *)
LEMMA WriteKeepsFraming ==
  ASSUME NEW S, NEW buffer \in Seq(Fragment(S)), NEW pipe \in Seq(Fragment(S)),
         NEW read, NEW garbled, Framed(buffer \o pipe, read, garbled), NEW line \in S
  PROVE  /\ Framed(buffer \o (pipe \o Fragments(line)), read, garbled)
         /\ AddsTwo(buffer \o pipe, buffer \o (pipe \o Fragments(line)), line)
<1>1. Fragments(line) \in Seq(Fragment(S)) /\ line \in Readings(line, garbled)
  BY DEF Fragments, Fragment, Readings
<1>2. PICK f \in Seq(Fragment(S)) : f = Fragments(line)
  BY <1>1
<1>3. /\ Len(f) = 2
      /\ f[1] = [line |-> line, newline |-> FALSE] /\ f[2] = [line |-> line, newline |-> TRUE]
  BY <1>2 DEF Fragments
<1>5. PICK old \in Seq(Fragment(S)) : old = buffer \o pipe
  BY SeqConcat
<1>6. PICK new : new = buffer \o (pipe \o f)
  OBVIOUS
<1>7. new = old \o f
  BY <1>5, <1>6, ConcatAssociative, SMTT(40)
<1>8. PICK n \in Nat : n = Len(old)
  OBVIOUS
<1>9. Len(new) = n + 2 /\ (\A i \in 1..n : new[i] = old[i]) /\ new[n + 1] = f[1] /\ new[n + 2] = f[2]
  <2>1. /\ Len(old \o f) = Len(old) + Len(f)
        /\ \A i \in 1..Len(old) + Len(f) : (old \o f)[i] = IF i <= Len(old) THEN old[i] ELSE f[i - Len(old)]
    BY ONLY old \in Seq(Fragment(S)), f \in Seq(Fragment(S)), ConcatProperties
  <2>2. Len(new) = n + 2 /\ \A i \in 1..n + 2 : new[i] = IF i <= n THEN old[i] ELSE f[i - n]
    BY <2>1, <1>3, <1>7, <1>8, Zenon
  <2>3. n + 1 \in 1..n + 2 /\ n + 2 \in 1..n + 2 /\ ~(n + 1 <= n) /\ ~(n + 2 <= n)
        /\ n + 1 - n = 1 /\ n + 2 - n = 2 /\ \A i \in 1..n : i \in 1..n + 2 /\ i <= n
    OBVIOUS
  <2>4. new[n + 1] = IF n + 1 <= n THEN old[n + 1] ELSE f[n + 1 - n]
    <3>1. PICK m \in 1..n + 2 : m = n + 1
      OBVIOUS
    <3>2. new[m] = IF m <= n THEN old[m] ELSE f[m - n]
      BY <2>2
    <3>3. QED
      BY <3>1, <3>2
  <2>5. new[n + 2] = IF n + 2 <= n THEN old[n + 2] ELSE f[n + 2 - n]
    <3>1. PICK m \in 1..n + 2 : m = n + 2
      OBVIOUS
    <3>2. new[m] = IF m <= n THEN old[m] ELSE f[m - n]
      BY <2>2
    <3>3. QED
      BY <3>1, <3>2
  <2>6. \A i \in 1..n : new[i] = old[i]
    BY <2>2, <2>3, Zenon
  <2>7. QED
    BY <2>2, <2>3, <2>4, <2>5, <2>6
<1>10. Framed(old, read, garbled)
  BY <1>5
<1>11. ASSUME NEW i \in 1..Len(new)
       PROVE  /\ new[i].newline => /\ i > 1 /\ ~new[i - 1].newline
                                   /\ new[i].line \in Readings(new[i - 1].line, garbled)
                                   /\ i > read => new[i].line = new[i - 1].line
              /\ ~new[i].newline => i < Len(new) /\ new[i + 1].newline
  <2>1. CASE i \in 1..n
    <3>1. /\ old[i].newline => /\ i > 1 /\ ~old[i - 1].newline
                               /\ old[i].line \in Readings(old[i - 1].line, garbled)
                               /\ i > read => old[i].line = old[i - 1].line
          /\ ~old[i].newline => i < n /\ old[i + 1].newline
      BY <2>1, <1>8, <1>10, Zenon DEF Framed
    <3>2. /\ i > 1 => i - 1 \in 1..n /\ new[i - 1] = old[i - 1]
          /\ i < n => i + 1 \in 1..n /\ new[i + 1] = old[i + 1] /\ i < n + 2
      BY <2>1, <1>9, SMTT(40)
    <3>3. new[i] = old[i]
      BY <2>1, <1>9
    <3>4. QED
      BY <3>1, <3>2, <3>3, <1>9
  <2>2. CASE i = n + 1
    <3>1. ~new[i].newline /\ i < Len(new) /\ i + 1 = n + 2
      BY <2>2, <1>3, <1>9
    <3>2. QED
      BY <3>1, <1>3, <1>9
  <2>3. CASE i = n + 2
    <3>1. new[i].newline /\ new[i].line = line /\ i - 1 = n + 1 /\ i > 1
      BY <2>3, <1>3, <1>9
    <3>2. ~new[n + 1].newline /\ new[n + 1].line = line
      BY <1>3, <1>9
    <3>3. QED
      BY <1>1, <3>1, <3>2
  <2>4. QED
    BY <2>1, <2>2, <2>3, <1>9
<1>12. Framed(new, read, garbled)
  BY <1>11, Zenon DEF Framed
<1>13. AddsTwo(old, new, line)
  BY <1>3, <1>8, <1>9 DEF AddsTwo
<1>14. QED
  BY <1>2, <1>5, <1>6, <1>12, <1>13, Zenon

(* The first newline of a buffer closes a whole line, as it was read. *)
LEMMA FirstLineIsWhole ==
  ASSUME NEW S, NEW buffer \in Seq(Fragment(S)), NEW pipe \in Seq(Fragment(S)), NEW garbled,
         Framed(buffer \o pipe, Len(buffer), garbled), HasLine(buffer)
  PROVE  /\ FirstLine(buffer, garbled) \in S
         /\ FirstLine(buffer, garbled) \in Readings((buffer \o pipe)[1].line, garbled)
         /\ Rest(buffer) \in Seq(Fragment(S))
         /\ Framed(Rest(buffer) \o pipe, Len(Rest(buffer)), garbled)
         /\ DropsTwo(buffer \o pipe, Rest(buffer) \o pipe)
<1>1. PICK n \in 1..Len(buffer) : buffer[n].newline
  BY DEF HasLine
<1>2. \A j \in 1..Len(buffer) : (buffer \o pipe)[j] = buffer[j] /\ j \in 1..Len(buffer \o pipe)
  OBVIOUS
<1>3. n > 1
  BY <1>1, <1>2 DEF Framed
<1>4. 1 \in 1..Len(buffer) /\ 2 \in 1..Len(buffer)
  BY <1>1, <1>3
<1>5. ~buffer[1].newline
  BY <1>2, <1>4 DEF Framed
<1>6. buffer[2].newline /\ buffer[2].line \in Readings(buffer[1].line, garbled)
  BY <1>2, <1>4, <1>5 DEF Framed
<1>7. NewlineAt(buffer) = 2
  <2>1. \A k \in DOMAIN buffer : buffer[k].newline /\ (\A j \in 1..(k - 1) : ~buffer[j].newline) <=> k = 2
    BY <1>4, <1>5, <1>6
  <2>2. QED
    BY <2>1, <1>4 DEF NewlineAt
<1>8. FirstLine(buffer, garbled) \in S /\ FirstLine(buffer, garbled) \in Readings(buffer[1].line, garbled)
  <2>1. buffer[2].line \in S
    <3>1. buffer[2] \in Fragment(S)
      BY <1>4
    <3>2. QED
      BY <3>1 DEF Fragment
  <2>2. QED
    BY <1>6, <1>7, <2>1 DEF FirstLine
<1>9. Rest(buffer) \in Seq(Fragment(S))
  BY <1>7 DEF Rest
<1>10. Framed(Rest(buffer) \o pipe, Len(Rest(buffer)), garbled) /\ DropsTwo(buffer \o pipe, Rest(buffer) \o pipe)
  <2>1. PICK old : old = buffer \o pipe
    OBVIOUS
  <2>2. PICK new : new = Rest(buffer) \o pipe
    OBVIOUS
  <2>3. Rest(buffer) = SubSeq(buffer, 3, Len(buffer)) /\ Len(buffer) \in Nat /\ Len(buffer) >= 2
    BY <1>4, <1>7 DEF Rest
  <2>4. /\ Len(Rest(buffer)) = Len(buffer) - 2
        /\ \A j \in 1..Len(buffer) - 2 : Rest(buffer)[j] = buffer[j + 2]
    <3>0. PICK k \in 0..Len(buffer) : k = 2
      BY <2>3
    <3>1. PICK t : t = SubSeq(buffer, k + 1, Len(buffer))
      OBVIOUS
    <3>2. Len(t) = Len(buffer) - 2 /\ \A j \in 1..Len(buffer) - 2 : t[j] = buffer[j + 2]
      <4>1. Len(t) = Len(buffer) - k /\ \A j \in 1..Len(buffer) - k : t[j] = buffer[j + k]
        <5>1. PICK F : F = Fragment(S)
          OBVIOUS
        <5>2. buffer \in Seq(F)
          BY <5>1, Zenon
        <5>3. t \in Seq(F) /\ Len(t) = Len(buffer) - k /\ \A j \in 1..Len(buffer) - k : t[j] = buffer[j + k]
          BY ONLY <5>2, k \in 0..Len(buffer), <3>1, SuffixFacts, SMT
        <5>4. QED
          BY <5>3, Zenon
      <4>2. QED
        BY <4>1, <3>0, Zenon
    <3>3. Rest(buffer) = t
      BY <2>3, <3>0, <3>1
    <3>4. QED
      BY <3>2, <3>3, Zenon
  <2>5. /\ Len(old) = Len(buffer) + Len(pipe) /\ Len(pipe) \in Nat
        /\ \A j \in 1..Len(old) : old[j] = IF j <= Len(buffer) THEN buffer[j] ELSE pipe[j - Len(buffer)]
    BY <2>1
  <2>6. /\ Len(new) = Len(Rest(buffer)) + Len(pipe)
        /\ \A j \in 1..Len(new) : new[j] = IF j <= Len(Rest(buffer)) THEN Rest(buffer)[j]
                                            ELSE pipe[j - Len(Rest(buffer))]
    BY <1>9, <2>2
  <2>7. Len(new) = Len(old) - 2 /\ \A j \in 1..Len(new) : new[j] = old[j + 2]
    <3>1. Len(new) = Len(old) - 2
      BY <2>3, <2>4, <2>5, <2>6
    <3>2. ASSUME NEW j \in 1..Len(new) PROVE new[j] = old[j + 2]
      <4>1. CASE j <= Len(buffer) - 2
        <5>1. /\ j \in 1..Len(buffer) - 2 /\ j <= Len(Rest(buffer)) /\ j + 2 \in 1..Len(old)
              /\ j + 2 <= Len(buffer)
          BY <4>1, <3>1, <2>3, <2>4, <2>5
        <5>2. new[j] = Rest(buffer)[j] /\ old[j + 2] = buffer[j + 2]
          BY <5>1, <2>5, <2>6
        <5>3. QED
          BY <2>4, <5>1, <5>2
      <4>2. CASE j > Len(buffer) - 2
        <5>1. /\ j \in 1..Len(new) /\ ~(j <= Len(Rest(buffer))) /\ j + 2 \in 1..Len(old)
              /\ ~(j + 2 <= Len(buffer)) /\ (j + 2) - Len(buffer) = j - Len(Rest(buffer))
          <6>0. PICK a, b, c, d :
                   a = Len(buffer) /\ b = Len(Rest(buffer)) /\ c = Len(pipe) /\ d = Len(new)
            OBVIOUS
          <6>1. a \in Nat /\ b \in Nat /\ c \in Nat /\ d \in Nat
            <7>1. a \in Nat /\ a >= 2 /\ b = a - 2 /\ c \in Nat /\ d = b + c
              BY <6>0, <2>3, <2>4, <2>5, <2>6
            <7>2. QED
              BY ONLY <7>1
          <6>2. b = a - 2 /\ d = b + c /\ Len(old) = a + c /\ j \in 1..d /\ j > a - 2
            BY <4>2, <6>0, <2>4, <2>5, <2>6
          <6>3. j \in 1..d /\ ~(j <= b) /\ j + 2 \in 1..(a + c) /\ ~(j + 2 <= a) /\ (j + 2) - a = j - b
            BY ONLY <6>1, <6>2
          <6>4. QED
            BY <6>0, <6>2, <6>3
        <5>2. new[j] = pipe[j - Len(Rest(buffer))]
          BY <5>1, <2>6
        <5>3. old[j + 2] = pipe[(j + 2) - Len(buffer)]
          BY <5>1, <2>5
        <5>4. QED
          BY <5>1, <5>2, <5>3
      <4>3. QED
        BY <4>1, <4>2, <2>3
    <3>3. QED
      BY <3>1, <3>2
  <2>8. old[2].newline /\ Framed(old, Len(buffer), garbled)
    BY <1>2, <1>4, <1>6, <2>1
  <2>9. ASSUME NEW i \in 1..Len(new)
        PROVE  /\ new[i].newline => /\ i > 1 /\ ~new[i - 1].newline
                                    /\ new[i].line \in Readings(new[i - 1].line, garbled)
                                    /\ i > Len(Rest(buffer)) => new[i].line = new[i - 1].line
               /\ ~new[i].newline => i < Len(new) /\ new[i + 1].newline
    <3>1. i + 2 \in 1..Len(old) /\ new[i] = old[i + 2] /\ i \in Nat
      BY <2>3, <2>5, <2>7
    <3>2. /\ old[i + 2].newline => /\ ~old[i + 1].newline
                                   /\ old[i + 2].line \in Readings(old[i + 1].line, garbled)
                                   /\ i > Len(Rest(buffer)) => old[i + 2].line = old[i + 1].line
          /\ ~old[i + 2].newline => i + 2 < Len(old) /\ old[i + 3].newline
      <4>1. PICK m \in 1..Len(old) : m = i + 2
        BY <3>1
      <4>2. /\ old[m].newline => /\ ~old[m - 1].newline
                                 /\ old[m].line \in Readings(old[m - 1].line, garbled)
                                 /\ m > Len(buffer) => old[m].line = old[m - 1].line
            /\ ~old[m].newline => m < Len(old) /\ old[m + 1].newline
        BY <2>8, Zenon DEF Framed
      <4>3. m - 1 = i + 1 /\ m + 1 = i + 3 /\ (i > Len(Rest(buffer)) => m > Len(buffer))
        BY <2>3, <2>4, <3>1, <4>1
      <4>4. QED
        BY <4>1, <4>2, <4>3, Zenon
    <3>3. i > 1 => new[i - 1] = old[i + 1]
      BY <2>7, <3>1, SMTT(40)
    <3>4. i < Len(new) => new[i + 1] = old[i + 3]
      BY <2>7, <3>1, SMTT(40)
    <3>5. i = 1 => ~old[i + 2].newline
      <4>1. 3 \in 1..Len(old) /\ old[3].newline => ~old[3 - 1].newline
        BY <2>8 DEF Framed
      <4>2. QED
        BY <4>1, <3>1, <2>8
    <3>6. i > 1 \/ i = 1
      BY <3>1
    <3>7. i + 2 < Len(old) => i < Len(new)
      BY <3>1, <2>3, <2>5, <2>7
    <3>8. QED
      BY <3>1, <3>2, <3>3, <3>4, <3>5, <3>6, <3>7, Zenon
  <2>10. Framed(new, Len(Rest(buffer)), garbled)
    BY <2>9, Zenon DEF Framed
  <2>11. DropsTwo(old, new)
    BY <2>3, <2>5, <2>7 DEF DropsTwo
  <2>12. QED
    BY <2>1, <2>2, <2>10, <2>11, Zenon
<1>11. FirstLine(buffer, garbled) \in Readings((buffer \o pipe)[1].line, garbled)
  BY <1>2, <1>4, <1>8
<1>12. QED
  BY <1>8, <1>9, <1>10, <1>11, Zenon

--------------------------------------------------------------------------------
(* The inductive invariant. *)
IInv ==
    /\ TypeOK
    /\ Framed(clientBuffer \o clientPipe, Len(clientBuffer), ClientGarbled)
    /\ Framed(serverBuffer \o serverPipe, Len(serverBuffer), ServerGarbled)
    /\ todo \in Seq(SafeEffects)
    /\ toServer \in Seq(SafeLines)
    /\ toClient \in Seq(SafeAnswers)

(* The invariant holds when the gateway starts. *)
LEMMA InitIInv == Init => IInv
<1> SUFFICES ASSUME Init PROVE IInv
  OBVIOUS
<1>1. \A S : <<>> \in Seq(S)
  BY EmptySeq
<1>2. \A garbled : Framed(<<>>, Len(<<>>), garbled)
  BY DEF Framed
<1>3. <<>> \o <<>> = <<>>
  BY <1>1, ConcatEmptySeq
<1>4. TypeOK
  BY <1>1 DEF Init, TypeOK
<1>5. QED
  BY <1>1, <1>2, <1>3, <1>4 DEF Init, IInv

(* An append stays over the same set. *)
LEMMA AppendSafe ==
  ASSUME NEW S, NEW s \in Seq(S), NEW e \in S
  PROVE  Append(s, e) \in Seq(S)
OBVIOUS

(* What was not read yet are texts too. *)
LEMMA PipesAreTexts ==
  ASSUME IInv
  PROVE  /\ clientPipe \in Seq(Fragment(ClientTexts)) /\ serverPipe \in Seq(Fragment(ServerTexts))
         /\ ClientLines \subseteq ClientTexts /\ ServerLines \subseteq ServerTexts
<1>1. ClientLines \subseteq ClientTexts /\ ServerLines \subseteq ServerTexts
  BY TextsAreLines
<1>2. Fragment(ClientLines) \subseteq Fragment(ClientTexts) /\ Fragment(ServerLines) \subseteq Fragment(ServerTexts)
  BY <1>1 DEF Fragment
<1>3. clientPipe \in Seq(Fragment(ClientLines)) /\ serverPipe \in Seq(Fragment(ServerLines))
  BY DEF IInv, TypeOK
<1>4. QED
  BY <1>1, <1>2, <1>3, SeqMonotonic

(* A line the client writes keeps its stream framed. *)
LEMMA ClientWriteKeeps ==
  ASSUME IInv, NEW line \in ClientLines, ClientWrite(line)
  PROVE  IInv'
<1> USE DEF IInv, TypeOK, ClientWrite
<1>1. /\ clientPipe' \in Seq(Fragment(ClientLines))
      /\ Framed(clientBuffer \o clientPipe', Len(clientBuffer), ClientGarbled)
  BY PipesAreTexts, WriteKeepsType, WriteKeepsFraming
<1>2. sent' \in Seq(ClientLines)
  BY AppendSafe
<1>3. QED
  BY <1>1, <1>2

(* A line the server writes keeps its stream framed. *)
LEMMA ServerWriteKeeps ==
  ASSUME IInv, NEW line \in ServerLines, ServerWrite(line)
  PROVE  IInv'
<1> USE DEF IInv, TypeOK, ServerWrite
<1>1. /\ serverPipe' \in Seq(Fragment(ServerLines))
      /\ Framed(serverBuffer \o serverPipe', Len(serverBuffer), ServerGarbled)
  BY PipesAreTexts, WriteKeepsType, WriteKeepsFraming
<1>2. served' \in Seq(ServerLines)
  BY AppendSafe
<1>3. QED
  BY <1>1, <1>2

(* A chunk of the client keeps the invariant. *)
LEMMA ClientDataKeeps ==
  ASSUME IInv, NEW n \in 1..Len(clientPipe), ClientData(n)
  PROVE  IInv'
<1> USE DEF IInv, TypeOK, ClientData
<1>1. /\ clientBuffer' \in Seq(Fragment(ClientTexts)) /\ clientPipe' \in Seq(Fragment(ClientLines))
      /\ Framed(clientBuffer' \o clientPipe', Len(clientBuffer'), ClientGarbled)
  <2>1. /\ clientBuffer \in Seq(Fragment(ClientTexts)) /\ clientPipe \in Seq(Fragment(ClientLines))
        /\ Framed(clientBuffer \o clientPipe, Len(clientBuffer), ClientGarbled)
    OBVIOUS
  <2>2. /\ clientBuffer' = clientBuffer \o Decoded(SubSeq(clientPipe, 1, n), ClientGarbled)
        /\ clientPipe' = SubSeq(clientPipe, n + 1, Len(clientPipe))
    OBVIOUS
  <2>3. QED
    BY ONLY <2>1, <2>2, n \in 1..Len(clientPipe), ClientChunkKeepsStream, ZenonT(40)
<1>2. QED
  BY <1>1

(* A chunk of the server keeps the invariant. *)
LEMMA ServerDataKeeps ==
  ASSUME IInv, NEW n \in 1..Len(serverPipe), ServerData(n)
  PROVE  IInv'
<1> USE DEF IInv, TypeOK, ServerData
<1>1. /\ serverBuffer' \in Seq(Fragment(ServerTexts)) /\ serverPipe' \in Seq(Fragment(ServerLines))
      /\ Framed(serverBuffer' \o serverPipe', Len(serverBuffer'), ServerGarbled)
  <2>1. /\ serverBuffer \in Seq(Fragment(ServerTexts)) /\ serverPipe \in Seq(Fragment(ServerLines))
        /\ Framed(serverBuffer \o serverPipe, Len(serverBuffer), ServerGarbled)
    OBVIOUS
  <2>2. /\ serverBuffer' = serverBuffer \o Decoded(SubSeq(serverPipe, 1, n), ServerGarbled)
        /\ serverPipe' = SubSeq(serverPipe, n + 1, Len(serverPipe))
    OBVIOUS
  <2>3. QED
    BY ONLY <2>1, <2>2, n \in 1..Len(serverPipe), ServerChunkKeepsStream, ZenonT(40)
<1>2. QED
  BY <1>1

(* Safe effects are effects. *)
LEMMA SafeEffectsAreEffects ==
  ASSUME NEW s \in Seq(SafeEffects)
  PROVE  s \in Seq(Effects)
<1>1. SafeEffects \subseteq Effects
  BY DEF SafeEffects
<1>2. QED
  BY <1>1, SeqMonotonic

(* A client line leaves only safe effects to carry out. *)
LEMMA HandleClientLineKeeps ==
  ASSUME IInv, HandleClientLine
  PROVE  IInv'
<1> USE DEF IInv, TypeOK, HandleClientLine, streams
<1>1. PICK line \in ClientTexts : line = FirstLine(clientBuffer, ClientGarbled)
  BY PipesAreTexts, FirstLineIsWhole
<1>2. clientBuffer' \in Seq(Fragment(ClientTexts)) /\ Framed(clientBuffer' \o clientPipe, Len(clientBuffer'), ClientGarbled)
  BY PipesAreTexts, FirstLineIsWhole
<1>3. todo' \in Seq(SafeEffects) /\ todo' \in Seq(Effects)
  BY <1>1, ClientEffectsSafe, SafeEffectsAreEffects
<1>4. PICK c \in Nat : c = Cardinality(Calls(line))
  BY CallsType, FS_CardinalityType, TextsAreLines
<1>5. stats' \in [allowed : Nat, refused : Nat, toolsRemoved : Nat]
  <2>1. stats' = [stats EXCEPT !.allowed = @ + c] \/ stats' = [stats EXCEPT !.refused = @ + c]
    BY <1>1, <1>4, Zenon
  <2>2. stats \in [allowed : Nat, refused : Nat, toolsRemoved : Nat]
    OBVIOUS
  <2>3. QED
    BY ONLY <2>1, <2>2, c \in Nat
<1>6. QED
  BY <1>2, <1>3, <1>5

(* A server line leaves only safe effects to carry out. *)
LEMMA HandleServerLineKeeps ==
  ASSUME IInv, HandleServerLine
  PROVE  IInv'
<1> USE DEF IInv, TypeOK, HandleServerLine, streams
<1>1. PICK line \in ServerTexts : line = FirstLine(serverBuffer, ServerGarbled)
  BY PipesAreTexts, FirstLineIsWhole
<1>2. serverBuffer' \in Seq(Fragment(ServerTexts)) /\ Framed(serverBuffer' \o serverPipe, Len(serverBuffer'), ServerGarbled)
  BY PipesAreTexts, FirstLineIsWhole
<1>3. todo' \in Seq(SafeEffects) /\ todo' \in Seq(Effects)
  BY <1>1, ServerEffectsSafe, SafeEffectsAreEffects
<1>4. PICK c \in Nat : c = Cardinality(RemovedTools(line))
  BY RemovedType, FS_CardinalityType, TextsAreLines
<1>5. stats' \in [allowed : Nat, refused : Nat, toolsRemoved : Nat]
  <2>1. stats' = [stats EXCEPT !.toolsRemoved = @ + c]
    BY <1>1, <1>4, Zenon
  <2>2. stats \in [allowed : Nat, refused : Nat, toolsRemoved : Nat]
    OBVIOUS
  <2>3. QED
    BY ONLY <2>1, <2>2, c \in Nat
<1>6. QED
  BY <1>2, <1>3, <1>5

LogEntries == [decision : {"allowed", "refused", "refused batch", "removed", "exit"}, tool : Names]

(* Carrying out a safe effect leaves safe streams. *)
LEMMA EffectKeeps ==
  ASSUME IInv, Effect
  PROVE  IInv'
<1> USE DEF IInv, TypeOK, Effect, streams
<1> DEFINE effect == Head(todo)
<1>1. effect \in SafeEffects /\ todo' \in Seq(SafeEffects) /\ todo' \in Seq(Effects)
  BY HeadTailProperties, SafeEffectsAreEffects
<1>2. effect \in Effects
  BY <1>1 DEF SafeEffects
<1>3. CASE effect.sink = "log"
  <2>1. effect \in LogEffects
    BY <1>2, <1>3 DEF Effects, LogEffects, Names
  <2>2. PICK entry \in LogEntries : entry = [decision |-> effect.decision, tool |-> effect.tool]
    BY <2>1 DEF LogEffects, LogEntries
  <2>3. callLog' \in Seq(LogEntries)
    <3>1. callLog' = Append(callLog, entry) \/ callLog' = callLog
      BY <1>3, <2>2 DEF AppendLog
    <3>2. callLog \in Seq(LogEntries)
      BY DEF LogEntries, Names
    <3>3. QED
      BY ONLY entry \in LogEntries, <3>1, <3>2, AppendSafe
  <2>4. UNCHANGED <<toServer, toClient>>
    BY <1>3 DEF AppendLog
  <2>5. QED
    BY <1>1, <2>3, <2>4 DEF LogEntries, Names
<1>4. CASE effect.sink = "server"
  <2>1. effect.request \in SafeLines
    BY <1>1, <1>2, <1>4 DEF SafeEffects, SafeLines, Effects
  <2>2. toServer' \in Seq(SafeLines) /\ toServer' \in Seq(ClientTexts)
    <3>1. toServer' = Append(toServer, effect.request)
      BY <1>4
    <3>2. SafeLines \subseteq ClientTexts
      BY DEF SafeLines
    <3>3. QED
      BY <2>1, <3>1, <3>2, AppendSafe, SeqMonotonic
  <2>3. QED
    BY <1>1, <1>4, <2>2
<1>5. CASE effect.sink = "refusal"
  <2>1. effect.request \in ClientTexts
    BY <1>2, <1>5 DEF Effects
  <2>2. [from |-> "gateway", request |-> effect.request] \in SafeAnswers
    BY <2>1 DEF SafeAnswers, Answer
  <2>3. toClient' \in Seq(SafeAnswers) /\ toClient' \in Seq(Answer)
    <3>1. toClient' = Append(toClient, [from |-> "gateway", request |-> effect.request])
      BY <1>5
    <3>2. SafeAnswers \subseteq Answer
      BY DEF SafeAnswers
    <3>3. QED
      BY <2>2, <3>1, <3>2, AppendSafe, SeqMonotonic
  <2>4. QED
    BY <1>1, <1>5, <2>3 DEF Answer
<1>6. CASE effect.sink = "client"
  <2>1. effect.response \in ServerLine /\ Clean(effect.response)
    BY <1>1, <1>2, <1>6 DEF SafeEffects, Effects
  <2>2. [from |-> "server", response |-> effect.response] \in SafeAnswers
    BY <2>1 DEF SafeAnswers, Answer
  <2>3. toClient' \in Seq(SafeAnswers) /\ toClient' \in Seq(Answer)
    <3>1. toClient' = Append(toClient, [from |-> "server", response |-> effect.response])
      BY <1>6
    <3>2. SafeAnswers \subseteq Answer
      BY DEF SafeAnswers
    <3>3. QED
      BY <2>2, <3>1, <3>2, AppendSafe, SeqMonotonic
  <2>4. QED
    BY <1>1, <1>6, <2>3 DEF Answer
<1>7. effect.sink \in {"log", "server", "refusal", "client"}
  BY <1>2 DEF Effects
<1>8. QED
  BY <1>3, <1>4, <1>5, <1>6, <1>7

(* Death changes no stream. *)
LEMMA EndKeeps ==
  ASSUME IInv, ServerExit \/ OnChildExit \/ Killed
  PROVE  IInv'
<1>1. CASE ServerExit
  BY <1>1 DEF IInv, TypeOK, ServerExit
<1>2. CASE OnChildExit
  <2>1. [decision |-> "exit", tool |-> NoName] \in LogEntries
    BY DEF LogEntries, Names
  <2>2. callLog' \in Seq(LogEntries)
    <3>1. \/ callLog' = Append(callLog, [decision |-> "exit", tool |-> NoName])
          \/ callLog' = callLog
      BY <1>2 DEF OnChildExit
    <3>2. callLog \in Seq(LogEntries)
      BY DEF LogEntries, Names, IInv, TypeOK
    <3>3. QED
      BY <2>1, <3>1, <3>2, AppendSafe
  <2>3. QED
    BY <1>2, <2>2 DEF IInv, TypeOK, OnChildExit, LogEntries, Names
<1>3. CASE Killed
  BY <1>3 DEF IInv, TypeOK, Killed
<1>4. QED
  BY <1>1, <1>2, <1>3

(* The invariant is inductive. *)
LEMMA NextIInv == IInv /\ [Next]_vars => IInv'
<1> SUFFICES ASSUME IInv, [Next]_vars PROVE IInv'
  OBVIOUS
<1>1. CASE \E line \in ClientLines : ClientWrite(line)
  BY <1>1, ClientWriteKeeps
<1>2. CASE \E line \in ServerLines : ServerWrite(line)
  BY <1>2, ServerWriteKeeps
<1>3. CASE \E n \in 1..Len(clientPipe) : ClientData(n)
  BY <1>3, ClientDataKeeps
<1>4. CASE \E n \in 1..Len(serverPipe) : ServerData(n)
  BY <1>4, ServerDataKeeps
<1>5. CASE HandleClientLine \/ HandleServerLine \/ Effect
  BY <1>5, HandleClientLineKeeps, HandleServerLineKeeps, EffectKeeps
<1>6. CASE ServerExit \/ OnChildExit \/ Killed
  BY <1>6, EndKeeps
<1>7. CASE UNCHANGED vars
  BY <1>7 DEF IInv, TypeOK, vars
<1>8. QED
  BY <1>1, <1>2, <1>3, <1>4, <1>5, <1>6, <1>7 DEF Next

(* The invariant holds in every reachable state. *)
LEMMA SpecIInv == Spec => []IInv
BY InitIInv, NextIInv, PTL DEF Spec

(* The state has its types: in particular toServer only ever holds whole   *)
(* lines the client wrote, or what such a line was read as where a chunk   *)
(* ended inside a character, never a piece of one (onClientData).          *)
THEOREM TypesCorrect == Spec => []TypeOK
<1>1. IInv => TypeOK
  BY DEF IInv
<1>2. QED
  BY <1>1, SpecIInv, PTL

(* No line with a call the policy refuses ever reaches the server's stdin: *)
(* for every policy, every lines, every chunking, and a kill at any step.  *)
THEOREM ForbiddenNeverReachesServer == Spec => []NoForbiddenReachesServer
<1>1. IInv => NoForbiddenReachesServer
  <2> SUFFICES ASSUME IInv, NEW i \in DOMAIN toServer
               PROVE  ~CarriesRefused(toServer[i])
    BY DEF NoForbiddenReachesServer
  <2>1. toServer[i] \in SafeLines
    BY DEF IInv
  <2>2. Passes(toServer[i])
    BY <2>1 DEF SafeLines
  <2>3. ASSUME NEW j \in DOMAIN toServer[i].msgs, toServer[i].msgs[j].method = "tools/call"
        PROVE  Allowed(toServer[i].msgs[j].tool)
    <3>1. <<j, toServer[i].msgs[j].tool>> \in Calls(toServer[i])
      BY <2>3 DEF Calls
    <3>2. Allowed(<<j, toServer[i].msgs[j].tool>>[2])
      BY <2>2, <3>1 DEF Passes
    <3>3. QED
      BY <3>2
  <2>4. QED
    BY <2>3 DEF CarriesRefused
<1>2. QED
  BY <1>1, SpecIInv, PTL

(* No tool the policy forbids is ever advertised to the client, whatever   *)
(* the server answers and however it batches it (filterMessage).           *)
THEOREM ForbiddenNeverAdvertised == Spec => []NoForbiddenAdvertised
<1>1. IInv => NoForbiddenAdvertised
  <2> SUFFICES ASSUME IInv, NEW i \in DOMAIN toClient, toClient[i].from = "server"
               PROVE  Clean(toClient[i].response)
    BY DEF NoForbiddenAdvertised, Clean
  <2>1. toClient[i] \in SafeAnswers
    BY DEF IInv
  <2>2. QED
    BY <2>1 DEF SafeAnswers
<1>2. QED
  BY <1>1, SpecIInv, PTL
--------------------------------------------------------------------------------
(* Selecting the messages of one side: an append adds its message to the   *)
(* selection of its side and leaves the other as it was.                   *)

(* Every rank is some message's. *)
Dense(stream, side) ==
    \A n \in 1..Cardinality(Of(stream, side)) : \E i \in Of(stream, side) : Rank(stream, side, i) = n

(* The places of a side are some of a finite sequence. *)
LEMMA OfIsFinite ==
  ASSUME NEW S, NEW stream \in Seq(S), NEW side
  PROVE  /\ Of(stream, side) \subseteq 1..Len(stream) /\ IsFiniteSet(Of(stream, side))
         /\ Cardinality(Of(stream, side)) \in Nat
<1>1. DOMAIN stream = 1..Len(stream) /\ Len(stream) \in Nat
  OBVIOUS
<1>2. Of(stream, side) \subseteq 1..Len(stream)
  BY <1>1 DEF Of
<1>3. IsFiniteSet(1..Len(stream))
  BY <1>1, FS_Interval
<1>4. QED
  BY <1>2, <1>3, FS_Subset, FS_CardinalityType

(* Of two messages of a side, the later one has the higher rank. *)
LEMMA RanksGrow ==
  ASSUME NEW S, NEW stream \in Seq(S), NEW side,
         NEW i \in Of(stream, side), NEW j \in Of(stream, side), i < j
  PROVE  Rank(stream, side, i) # Rank(stream, side, j)
<1> DEFINE upto(m) == {k \in Of(stream, side) : k <= m}
<1>1. i \in Nat /\ j \in Nat /\ \A k \in Of(stream, side) : k \in Nat
  BY OfIsFinite
<1>2. upto(i) \subseteq upto(j) /\ j \in upto(j) /\ j \notin upto(i)
  <2>1. \A k \in Of(stream, side) : k <= i => k <= j
    BY <1>1
  <2>2. j <= j /\ ~(j <= i)
    BY <1>1
  <2>3. QED
    BY <2>1, <2>2, Zenon
<1>3. upto(j) \subseteq Of(stream, side)
  OBVIOUS
<1>4. IsFiniteSet(upto(j))
  BY <1>3, OfIsFinite, FS_Subset
<1>5. Rank(stream, side, i) = Cardinality(upto(i)) /\ Rank(stream, side, j) = Cardinality(upto(j))
  BY DEF Rank
<1> HIDE DEF upto
<1>6. Cardinality(upto(j)) = Cardinality(upto(i)) => upto(j) = upto(i)
  BY <1>2, <1>4, FS_Subset
<1>7. QED
  BY <1>2, <1>5, <1>6

(* No two messages of a side have the same rank. *)
LEMMA RankIsUnique ==
  ASSUME NEW S, NEW stream \in Seq(S), NEW side,
         NEW i \in Of(stream, side), NEW j \in Of(stream, side),
         Rank(stream, side, i) = Rank(stream, side, j)
  PROVE  i = j
<1>1. i \in Int /\ j \in Int
  BY OfIsFinite
<1>2. ~(i < j) /\ ~(j < i)
  BY RanksGrow
<1>3. QED
  BY <1>1, <1>2

(* The message of a rank is the one that has it. *)
LEMMA NthIs ==
  ASSUME NEW S, NEW stream \in Seq(S), NEW side, NEW i \in Of(stream, side)
  PROVE  Nth(stream, side, Rank(stream, side, i)) = i
<1>1. \A j \in Of(stream, side) : Rank(stream, side, j) = Rank(stream, side, i) => j = i
  BY RankIsUnique
<1>2. QED
  BY <1>1 DEF Nth

(* What an append does to the places and the ranks. *)
LEMMA AppendRanks ==
  ASSUME NEW S, NEW stream \in Seq(S), NEW m \in S, NEW side
  PROVE  LET more == Append(stream, m)
             last == Len(stream) + 1
         IN  /\ Of(more, side) = IF m.from = side THEN Of(stream, side) \cup {last} ELSE Of(stream, side)
             /\ \A i \in Of(stream, side) : Rank(more, side, i) = Rank(stream, side, i)
             /\ m.from = side => /\ Rank(more, side, last) = Cardinality(Of(stream, side)) + 1
                                 /\ Cardinality(Of(more, side)) = Cardinality(Of(stream, side)) + 1
<1> DEFINE more == Append(stream, m)
           last == Len(stream) + 1
           old == Of(stream, side)
           new == Of(more, side)
<1>1. /\ Len(stream) \in Nat /\ last = Len(stream) + 1 /\ DOMAIN stream = 1..Len(stream) /\ DOMAIN more = 1..last
      /\ more[last] = m /\ \A i \in 1..Len(stream) : more[i] = stream[i]
  OBVIOUS
<1>2. \A i \in old : i \in 1..Len(stream) /\ i < last
  BY <1>1, OfIsFinite
<1> HIDE DEF more, last
<1>3. new = IF m.from = side THEN old \cup {last} ELSE old
  BY <1>1 DEF Of
<1>4. IsFiniteSet(old) /\ Cardinality(old) \in Nat /\ last \notin old
  BY <1>2, OfIsFinite, <1>1
<1>5. ASSUME NEW i \in old PROVE Rank(more, side, i) = Rank(stream, side, i)
  <2>1. {k \in new : k <= i} = {k \in old : k <= i}
    BY <1>1, <1>2, <1>3
  <2>2. QED
    BY <2>1 DEF Rank
<1>6. ASSUME m.from = side
      PROVE  Rank(more, side, last) = Cardinality(old) + 1 /\ Cardinality(new) = Cardinality(old) + 1
  <2>1. new = old \cup {last}
    BY <1>3, <1>6
  <2>2. {k \in new : k <= last} = new
    BY <1>1, <1>2, <2>1
  <2>3. Rank(more, side, last) = Cardinality(new)
    BY <2>2 DEF Rank
  <2> HIDE DEF old, new
  <2>4. QED
    BY <1>4, <2>1, <2>3, FS_AddElement
<1>7. QED
  BY <1>3, <1>5, <1>6 DEF more, last

(* A message of the other side does not change a selection. *)
LEMMA SelectOther ==
  ASSUME NEW S, NEW stream \in Seq(S), NEW m \in S, NEW side, m.from # side, Dense(stream, side)
  PROVE  /\ Selected(Append(stream, m), side) = Selected(stream, side)
         /\ Dense(Append(stream, m), side)
<1> DEFINE more == Append(stream, m)
           old == Of(stream, side)
<1>1. Of(more, side) = old /\ \A i \in old : Rank(more, side, i) = Rank(stream, side, i)
  BY AppendRanks
<1>2. more \in Seq(S) /\ \A i \in old : more[i] = stream[i]
  BY OfIsFinite
<1> HIDE DEF more
<1>3. \A n \in 1..Cardinality(old) : more[Nth(more, side, n)] = stream[Nth(stream, side, n)]
  BY <1>1, <1>2, NthIs DEF Dense
<1>4. Selected(more, side) = Selected(stream, side)
  BY <1>1, <1>3 DEF Selected
<1>5. Dense(more, side)
  BY <1>1 DEF Dense
<1>6. QED
  BY <1>4, <1>5 DEF more

(* A message of the side itself is added at the end of the selection. *)
LEMMA SelectSame ==
  ASSUME NEW S, NEW stream \in Seq(S), NEW m \in S, NEW side, m.from = side, Dense(stream, side)
  PROVE  /\ Selected(Append(stream, m), side) = Append(Selected(stream, side), m)
         /\ Dense(Append(stream, m), side)
<1> DEFINE more == Append(stream, m)
           last == Len(stream) + 1
           old == Of(stream, side)
           new == Of(more, side)
           n == Cardinality(old)
<1>1. /\ new = old \cup {last} /\ Rank(more, side, last) = n + 1 /\ Cardinality(new) = n + 1
      /\ \A i \in old : Rank(more, side, i) = Rank(stream, side, i)
  BY AppendRanks
<1>2. more \in Seq(S) /\ (\A i \in old : more[i] = stream[i]) /\ more[last] = m /\ n \in Nat
  BY OfIsFinite
<1> HIDE DEF more, last, old, new, n
<1>3. ASSUME NEW k \in 1..n PROVE more[Nth(more, side, k)] = stream[Nth(stream, side, k)]
  <2>1. PICK i \in old : Rank(stream, side, i) = k
    BY DEF Dense, n, old
  <2>2. Nth(stream, side, k) = i
    BY <2>1, NthIs DEF old
  <2>3. i \in new /\ Rank(more, side, i) = k
    BY <1>1, <2>1
  <2>4. Nth(more, side, k) = i
    BY <1>2, <2>3, NthIs DEF new
  <2>5. QED
    BY <1>2, <2>2, <2>4
<1>4. more[Nth(more, side, n + 1)] = m
  <2>1. last \in new
    BY <1>1
  <2>2. Nth(more, side, n + 1) = last
    BY <1>1, <1>2, <2>1, NthIs DEF new
  <2>3. QED
    BY <1>2, <2>2
<1>5. Selected(more, side) = Append(Selected(stream, side), m)
  <2>1. Selected(more, side) = [k \in 1..n + 1 |-> more[Nth(more, side, k)]]
    BY <1>1 DEF Selected, new
  <2>2. Selected(stream, side) = [k \in 1..n |-> stream[Nth(stream, side, k)]]
    BY DEF Selected, n, old
  <2>3. PICK s : s = Selected(stream, side)
    OBVIOUS
  <2>4. s = [k \in 1..n |-> stream[Nth(stream, side, k)]]
    BY <2>2, <2>3
  <2>5. Append(s, m) = [k \in 1..n + 1 |-> IF k <= n THEN s[k] ELSE m]
    BY <1>2, <2>4
  <2>6. ASSUME NEW k \in 1..n + 1 PROVE more[Nth(more, side, k)] = IF k <= n THEN s[k] ELSE m
    <3>1. CASE k <= n
      <4>1. k \in 1..n
        BY <1>2, <3>1
      <4>2. s[k] = stream[Nth(stream, side, k)]
        BY <2>4, <4>1, Zenon
      <4>3. QED
        BY <1>3, <3>1, <4>1, <4>2, Zenon
    <3>2. CASE ~(k <= n)
      <4>1. k = n + 1
        BY <1>2, <3>2
      <4>2. QED
        BY <1>4, <3>2, <4>1, Zenon
    <3>3. QED
      BY <3>1, <3>2
  <2>7. QED
    BY <2>1, <2>3, <2>5, <2>6, Zenon
<1>6. Dense(more, side)
  <2>1. ASSUME NEW k \in 1..n + 1 PROVE \E i \in new : Rank(more, side, i) = k
    <3>1. CASE k = n + 1
      BY <1>1, <3>1
    <3>2. CASE k \in 1..n
      <4>1. PICK i \in old : Rank(stream, side, i) = k
        BY <3>2 DEF Dense, n, old
      <4>2. QED
        BY <1>1, <4>1
    <3>3. QED
      BY <1>2, <3>1, <3>2
  <2>2. QED
    BY <1>1, <2>1 DEF Dense, new
<1>7. QED
  BY <1>5, <1>6 DEF more

(* Nothing is selected of nothing. *)
LEMMA SelectNone ==
  ASSUME NEW side
  PROVE  Selected(<<>>, side) = <<>> /\ Dense(<<>>, side)
<1>1. Of(<<>>, side) = {}
  BY DEF Of
<1>2. Cardinality(Of(<<>>, side)) = 0
  BY <1>1, FS_EmptySet
<1>3. QED
  BY <1>2 DEF Selected, Dense
--------------------------------------------------------------------------------
(* What is still to be read of a side are its lines after the first n.     *)
Holds(stream, lines, n) ==
    /\ n \in 0..Len(lines) /\ Len(stream) = 2 * (Len(lines) - n)
    /\ \A k \in 1..Len(lines) - n : stream[2 * k - 1] = [line |-> lines[n + k], newline |-> FALSE]

(* A line that is written is one more line to be read. *)
LEMMA HoldsWritten ==
  ASSUME NEW S, NEW lines \in Seq(S), NEW line \in S, NEW n, NEW old, NEW new,
         AddsTwo(old, new, line), Holds(old, lines, n)
  PROVE  Holds(new, Append(lines, line), n)
<1>1. PICK more : more = Append(lines, line)
  OBVIOUS
<1>2. /\ Len(lines) \in Nat /\ Len(more) = Len(lines) + 1 /\ more[Len(lines) + 1] = line
      /\ \A i \in 1..Len(lines) : more[i] = lines[i]
  BY <1>1
<1>3. n \in 0..Len(more) /\ Len(new) = 2 * (Len(more) - n)
  <2>1. n \in 0..Len(lines) /\ Len(old) = 2 * (Len(lines) - n)
    BY Zenon DEF Holds
  <2>2. Len(new) = Len(old) + 2
    BY DEF AddsTwo
  <2>3. QED
    BY ONLY <1>2, <2>1, <2>2
<1>4. ASSUME NEW k \in 1..Len(more) - n PROVE new[2 * k - 1] = [line |-> more[n + k], newline |-> FALSE]
  <2>1. CASE k <= Len(lines) - n
    <3>1. n \in Nat /\ k \in 1..Len(lines) - n /\ Len(old) = 2 * (Len(lines) - n)
      BY ONLY <1>2, <1>3, <2>1, k \in 1..Len(more) - n, Holds(old, lines, n) DEF Holds
    <3>2. 2 * k - 1 \in 1..Len(old) /\ n + k \in 1..Len(lines)
      BY ONLY <1>2, <3>1
    <3>3. new[2 * k - 1] = old[2 * k - 1]
      BY <3>2, Zenon DEF AddsTwo
    <3>4. more[n + k] = lines[n + k]
      BY <1>2, <3>2, Zenon
    <3>5. old[2 * k - 1] = [line |-> lines[n + k], newline |-> FALSE]
      BY <3>1, Zenon DEF Holds
    <3>6. QED
      BY <3>3, <3>4, <3>5, Zenon
  <2>2. CASE k = Len(lines) - n + 1
    <3>1. 2 * k - 1 = Len(old) + 1 /\ n + k = Len(lines) + 1
      BY <1>2, <2>2 DEF Holds
    <3>2. QED
      BY <1>2, <3>1 DEF AddsTwo
  <2>3. k <= Len(lines) - n \/ k = Len(lines) - n + 1
    BY ONLY <1>2, <1>3, k \in 1..Len(more) - n
  <2>4. QED
    BY <2>1, <2>2, <2>3, Zenon
<1>5. QED
  BY <1>1, <1>3, <1>4 DEF Holds

(* The line that is read is the next one, and the rest are those after it. *)
LEMMA HoldsRead ==
  ASSUME NEW S, NEW lines \in Seq(S), NEW n, NEW old, NEW new,
         DropsTwo(old, new), Holds(old, lines, n)
  PROVE  n < Len(lines) /\ old[1].line = lines[n + 1] /\ Holds(new, lines, n + 1)
<1>1. Len(lines) \in Nat /\ n \in Nat /\ n < Len(lines)
  BY DEF Holds, DropsTwo
<1>2. old[1].line = lines[n + 1]
  <2>1. PICK k \in 1..Len(lines) - n : k = 1
    BY <1>1
  <2>2. old[2 * k - 1] = [line |-> lines[n + k], newline |-> FALSE]
    BY Zenon DEF Holds
  <2>3. 2 * k - 1 = 1 /\ n + k = n + 1
    BY <1>1, <2>1
  <2>4. QED
    BY <2>2, <2>3
<1>3. Len(new) = 2 * (Len(lines) - (n + 1)) /\ n + 1 \in 0..Len(lines)
  BY <1>1 DEF Holds, DropsTwo
<1>4. ASSUME NEW k \in 1..Len(lines) - (n + 1)
      PROVE  new[2 * k - 1] = [line |-> lines[n + 1 + k], newline |-> FALSE]
  <2>1. 2 * k - 1 \in 1..Len(new) /\ 2 * k - 1 + 2 = 2 * (k + 1) - 1 /\ n + 1 + k = n + (k + 1)
        /\ k + 1 \in 1..Len(lines) - n
    BY <1>1, <1>3
  <2>2. new[2 * k - 1] = old[2 * (k + 1) - 1]
    BY <2>1 DEF DropsTwo
  <2>3. old[2 * (k + 1) - 1] = [line |-> lines[n + (k + 1)], newline |-> FALSE]
    BY <2>1 DEF Holds
  <2>4. QED
    BY <2>1, <2>2, <2>3
<1>5. QED
  BY <1>1, <1>2, <1>3, <1>4 DEF Holds

(* What a chunk makes of the texts leaves the lines to be read the same.   *)
LEMMA HoldsDecoded ==
  ASSUME NEW lines, Len(lines) \in Nat, NEW n, NEW old, NEW new, SameHalves(old, new), Holds(old, lines, n)
  PROVE  Holds(new, lines, n)
<1>1. n \in 0..Len(lines) /\ Len(old) = 2 * (Len(lines) - n) /\ Len(new) = Len(old)
  BY Zenon DEF Holds, SameHalves
<1>2. ASSUME NEW k \in 1..Len(lines) - n
      PROVE  new[2 * k - 1] = [line |-> lines[n + k], newline |-> FALSE]
  <2>1. 2 * k - 1 \in 1..Len(old)
    BY <1>1
  <2>2. old[2 * k - 1] = [line |-> lines[n + k], newline |-> FALSE]
    BY Zenon DEF Holds
  <2>3. ~old[2 * k - 1].newline
    BY <2>2
  <2>4. new[2 * k - 1] = old[2 * k - 1]
    BY <2>1, <2>3, Zenon DEF SameHalves
  <2>5. QED
    BY <2>2, <2>4, Zenon
<1>3. QED
  BY <1>1, <1>2, Zenon DEF Holds

(* The decision in hand: the last effect of the line being handled.        *)
InHand == IF todo = <<>> THEN "none" ELSE todo[Len(todo)].sink
Decision == todo[Len(todo)]
Taken(sinks) == IF InHand \in sinks THEN 1 ELSE 0

(* Every line is decided by its own effect, in its turn; what was passed   *)
(* on of the server is what was read of it, filtered.                      *)
OfClient == {"server", "refusal"}
Turns ==
    /\ \A i \in 1..Len(todo) : todo[i].sink = "log" <=> i < Len(todo)
    /\ InHand \in OfClient => Decision.request \in ClientReadings(sent[Decided + 1])
    /\ InHand = "server" => Passes(Decision.request)
    /\ InHand = "refusal" => ~Passes(Decision.request)
    /\ InHand = "client" =>
           \E text \in ServerReadings(served[Len(FromServer) + 1]) : Decision.response = Filtered(text)
PassedOn ==
    /\ Dense(toClient, "gateway") /\ Dense(toClient, "server")
    /\ \A i \in DOMAIN FromServer :
           \E text \in ServerReadings(served[i]) : FromServer[i].response = Filtered(text)
Order ==
    /\ Turns /\ PassedOn
    /\ Holds(clientBuffer \o clientPipe, sent, Decided + Taken(OfClient))
    /\ Holds(serverBuffer \o serverPipe, served, Len(FromServer) + Taken({"client"}))
RInv == IInv /\ Order

(* A selection is over the same set as its stream. *)
LEMMA SelectedType ==
  ASSUME NEW S, NEW stream \in Seq(S), NEW side, Dense(stream, side)
  PROVE  Selected(stream, side) \in Seq(S)
<1> DEFINE n == Cardinality(Of(stream, side))
<1>1. n \in Nat /\ Of(stream, side) \subseteq 1..Len(stream)
  BY OfIsFinite
<1>2. ASSUME NEW k \in 1..n PROVE stream[Nth(stream, side, k)] \in S
  <2>1. PICK i \in Of(stream, side) : Rank(stream, side, i) = k
    BY DEF Dense
  <2>2. Nth(stream, side, k) = i
    BY <2>1, NthIs
  <2>3. QED
    BY <1>1, <2>2
<1>3. Selected(stream, side) = [k \in 1..n |-> stream[Nth(stream, side, k)]]
  BY DEF Selected
<1> HIDE DEF n
<1>4. Selected(stream, side) \in [1..n -> S]
  BY <1>2, <1>3
<1>5. QED
  BY <1>1, <1>4, SeqByElements

(* The answers, the refusals and the lines decided are well typed. *)
LEMMA RefusalsType ==
  ASSUME RInv
  PROVE  /\ Answers \in Seq(Answer) /\ FromServer \in Seq(Answer)
         /\ Len(Refusals) = Len(Answers) /\ DOMAIN Refusals = 1..Len(Answers)
         /\ Len(Refusals) \in Nat /\ Decided \in Nat /\ Len(FromServer) \in Nat
<1>1. toClient \in Seq(Answer) /\ toServer \in Seq(ClientTexts)
  BY DEF RInv, IInv, TypeOK, Answer
<1>2. Answers \in Seq(Answer) /\ FromServer \in Seq(Answer)
  BY <1>1, SelectedType DEF RInv, Order, PassedOn, Answers, FromServer
<1>3. Refusals = [i \in 1..Len(Answers) |-> Answers[i].request]
  BY <1>2 DEF Refusals
<1>4. QED
  BY <1>1, <1>2, <1>3 DEF Decided

(* The effects of a line end with its decision; before it come log entries *)
(* only.                                                                   *)
LEMMA DecisionIsLast ==
  ASSUME NEW logged \in Seq(LogEffects), NEW decision, decision.sink # "log",
         NEW effects, effects = logged \o <<decision>>
  PROVE  /\ effects # <<>> /\ effects[Len(effects)] = decision
         /\ \A i \in 1..Len(effects) : effects[i].sink = "log" <=> i < Len(effects)
<1>1. /\ Len(logged) \in Nat /\ Len(effects) = Len(logged) + 1 /\ effects[Len(logged) + 1] = decision
      /\ \A i \in 1..Len(logged) : effects[i] = logged[i] /\ logged[i] \in LogEffects
  BY ConcatProperties
<1>2. \A i \in 1..Len(logged) : effects[i].sink = "log"
  BY <1>1 DEF LogEffects
<1>3. QED
  BY <1>1, <1>2

(* The decision on a client line is the policy's. *)
LEMMA ClientDecision ==
  ASSUME NEW line \in ClientTexts
  PROVE  LET effects == ClientEffects(line)
         IN  /\ effects # <<>>
             /\ effects[Len(effects)] = IF Passes(line) THEN Forward(line) ELSE Refuse(line)
             /\ \A i \in 1..Len(effects) : effects[i].sink = "log" <=> i < Len(effects)
<1>1. \A d \in {"allowed", "refused"} : LogEach(d, Calls(line)) \in Seq(LogEffects)
  BY CallsType, LogEachType, TextsAreLines
<1>2. CASE Passes(line)
  <2>1. Forward(line).sink # "log"
    BY DEF Forward
  <2> DEFINE logged == LogEach("allowed", Calls(line))
             effects == ClientEffects(line)
  <2>2. effects = logged \o <<Forward(line)>> /\ logged \in Seq(LogEffects)
    BY <1>1, <1>2 DEF ClientEffects
  <2> HIDE DEF logged, effects
  <2>3. /\ effects # <<>> /\ effects[Len(effects)] = Forward(line)
        /\ \A i \in 1..Len(effects) : effects[i].sink = "log" <=> i < Len(effects)
    BY ONLY <2>1, <2>2, DecisionIsLast
  <2>4. QED
    BY <1>2, <2>3, Zenon DEF effects
<1>3. CASE ~Passes(line)
  <2> DEFINE whole == IF line.kind = "batch" THEN <<Log("refused batch", NoName)>> ELSE <<>>
             logged == LogEach("refused", Calls(line)) \o whole
  <2>1. Refuse(line).sink # "log"
    BY DEF Refuse
  <2>2. Log("refused batch", NoName) \in LogEffects
    BY DEF Log, LogEffects, Names
  <2>3. <<Log("refused batch", NoName)>> \in Seq(LogEffects) /\ <<>> \in Seq(LogEffects)
    BY <2>2, SeqOfOne, EmptySeq
  <2>4. whole \in Seq(LogEffects)
    BY <2>3, Zenon
  <2>5. ClientEffects(line) = logged \o <<Refuse(line)>>
    BY <1>3 DEF ClientEffects
  <2> HIDE DEF whole
  <2>6. logged \in Seq(LogEffects)
    BY <1>1, <2>4, SeqConcat
  <2> DEFINE effects == ClientEffects(line)
  <2>7. effects = logged \o <<Refuse(line)>>
    BY <2>5, Zenon
  <2> HIDE DEF logged, effects
  <2>8. /\ effects # <<>> /\ effects[Len(effects)] = Refuse(line)
        /\ \A i \in 1..Len(effects) : effects[i].sink = "log" <=> i < Len(effects)
    BY ONLY <2>1, <2>6, <2>7, DecisionIsLast
  <2>9. QED
    BY <1>3, <2>8, Zenon DEF effects
<1>4. QED
  BY <1>2, <1>3

(* What is passed on of a server line is the line, filtered. *)
LEMMA ServerDecision ==
  ASSUME NEW line \in ServerTexts
  PROVE  LET effects == ServerEffects(line)
         IN  /\ effects # <<>> /\ effects[Len(effects)] = PassOn(Filtered(line))
             /\ \A i \in 1..Len(effects) : effects[i].sink = "log" <=> i < Len(effects)
<1>1. LogEach("removed", RemovedTools(line)) \in Seq(LogEffects)
  BY RemovedType, LogEachType, TextsAreLines
<1>2. PassOn(Filtered(line)).sink # "log"
  BY DEF PassOn
<1> DEFINE logged == LogEach("removed", RemovedTools(line))
           effects == ServerEffects(line)
<1>3. effects = logged \o <<PassOn(Filtered(line))>>
  BY DEF ServerEffects
<1>4. logged \in Seq(LogEffects)
  BY <1>1, Zenon
<1> HIDE DEF logged, effects
<1>5. /\ effects # <<>> /\ effects[Len(effects)] = PassOn(Filtered(line))
      /\ \A i \in 1..Len(effects) : effects[i].sink = "log" <=> i < Len(effects)
  BY ONLY <1>2, <1>3, <1>4, DecisionIsLast
<1>6. QED
  BY <1>5, Zenon DEF effects

--------------------------------------------------------------------------------
(* The order is kept by every step. *)
LEMMA InitOrder == Init => Order
<1> SUFFICES ASSUME Init PROVE Order
  OBVIOUS
<1>1. /\ clientPipe = <<>> /\ clientBuffer = <<>> /\ serverPipe = <<>> /\ serverBuffer = <<>>
      /\ todo = <<>> /\ toServer = <<>> /\ toClient = <<>> /\ sent = <<>> /\ served = <<>>
  BY DEF Init
<1>2. /\ Answers = <<>> /\ FromServer = <<>> /\ Dense(toClient, "gateway") /\ Dense(toClient, "server")
  BY <1>1, SelectNone DEF Answers, FromServer
<1>3. InHand = "none" /\ Taken(OfClient) = 0 /\ Taken({"client"}) = 0
  BY <1>1 DEF InHand, Taken, OfClient
<1>4. Len(Refusals) = 0 /\ Len(FromServer) = 0 /\ Decided = 0
  <2>1. Refusals = [i \in DOMAIN <<>> |-> Answers[i].request]
    BY <1>2 DEF Refusals
  <2>2. Len(Refusals) = 0
    BY <2>1
  <2>3. QED
    BY <1>1, <1>2, <2>2 DEF Decided
<1>5. Turns /\ PassedOn
  BY <1>1, <1>2, <1>3 DEF Turns, PassedOn, OfClient
<1>6. Holds(<<>> \o <<>>, <<>>, 0)
  <2>1. Len(<<>> \o <<>>) = 0 /\ Len(<<>>) = 0
    OBVIOUS
  <2>2. QED
    BY <2>1 DEF Holds
<1>7. QED
  BY <1>1, <1>3, <1>4, <1>5, <1>6 DEF Order

(* What the order is stated with does not change when its variables do not. *)
LEMMA SameHand ==
  ASSUME todo' = todo
  PROVE  InHand' = InHand /\ (\A s : Taken(s)' = Taken(s)) /\ Decision' = Decision
BY DEF InHand, Taken, Decision

(* Nor does what is read off the output when nothing is written. *)
LEMMA SameOutput ==
  ASSUME UNCHANGED <<toServer, toClient>>
  PROVE  /\ Answers' = Answers /\ FromServer' = FromServer /\ Refusals' = Refusals /\ Decided' = Decided
         /\ Dense(toClient, "gateway")' = Dense(toClient, "gateway")
         /\ Dense(toClient, "server")' = Dense(toClient, "server")
BY DEF Answers, FromServer, Refusals, Decided

(* A line the client writes is the last to be decided. *)
LEMMA ClientWriteOrder ==
  ASSUME RInv, NEW line \in ClientLines, ClientWrite(line)
  PROVE  Order'
<1>1. /\ UNCHANGED <<clientBuffer, serverPipe, serverBuffer, todo, toServer, toClient, served>>
      /\ clientPipe' = clientPipe \o Fragments(line) /\ sent' = Append(sent, line)
  BY DEF ClientWrite
<1>2. /\ InHand' = InHand /\ (\A s : Taken(s)' = Taken(s)) /\ Decision' = Decision
      /\ Answers' = Answers /\ FromServer' = FromServer /\ Refusals' = Refusals /\ Decided' = Decided
      /\ Dense(toClient, "gateway")' = Dense(toClient, "gateway")
      /\ Dense(toClient, "server")' = Dense(toClient, "server")
  BY <1>1, SameHand, SameOutput
<1>3. Holds(clientBuffer \o clientPipe', sent', Decided + Taken(OfClient))
  <2>1. AddsTwo(clientBuffer \o clientPipe, clientBuffer \o clientPipe', line)
    BY <1>1, PipesAreTexts, WriteKeepsFraming DEF RInv, IInv, TypeOK
  <2>2. QED
    BY <1>1, <2>1, HoldsWritten DEF RInv, IInv, TypeOK, Order
<1>4. Turns'
  <2>1. InHand \in OfClient => sent'[Decided + 1] = sent[Decided + 1]
    <3>1. InHand \in OfClient => Decided + 1 \in 0..Len(sent)
      BY DEF RInv, Order, Holds, Taken
    <3>2. Decided \in Nat /\ sent \in Seq(ClientLines)
      BY RefusalsType DEF RInv, IInv, TypeOK
    <3>3. QED
      BY <1>1, <3>1, <3>2
  <2>2. QED
    BY <1>1, <1>2, <2>1 DEF RInv, Order, Turns
<1>5. PassedOn'
  BY <1>1, <1>2 DEF RInv, Order, PassedOn
<1>6. QED
  BY <1>1, <1>2, <1>3, <1>4, <1>5 DEF RInv, Order

(* A line the server writes is the last to be passed on. *)
LEMMA ServerWriteOrder ==
  ASSUME RInv, NEW line \in ServerLines, ServerWrite(line)
  PROVE  Order'
<1>1. /\ UNCHANGED <<clientPipe, clientBuffer, serverBuffer, todo, toServer, toClient, sent>>
      /\ serverPipe' = serverPipe \o Fragments(line) /\ served' = Append(served, line)
  BY DEF ServerWrite
<1>2. /\ InHand' = InHand /\ (\A s : Taken(s)' = Taken(s)) /\ Decision' = Decision
      /\ Answers' = Answers /\ FromServer' = FromServer /\ Refusals' = Refusals /\ Decided' = Decided
      /\ Dense(toClient, "gateway")' = Dense(toClient, "gateway")
      /\ Dense(toClient, "server")' = Dense(toClient, "server")
  BY <1>1, SameHand, SameOutput
<1>3. Holds(serverBuffer \o serverPipe', served', Len(FromServer) + Taken({"client"}))
  <2>1. AddsTwo(serverBuffer \o serverPipe, serverBuffer \o serverPipe', line)
    BY <1>1, PipesAreTexts, WriteKeepsFraming DEF RInv, IInv, TypeOK
  <2>2. QED
    BY <1>1, <2>1, HoldsWritten DEF RInv, IInv, TypeOK, Order
<1>4. \A i \in 1..Len(served) : served'[i] = served[i]
  <2>1. served \in Seq(ServerLines) /\ served' = Append(served, line)
    BY <1>1 DEF RInv, IInv, TypeOK
  <2>2. QED
    BY ONLY <2>1, line \in ServerLines
<1>5. /\ InHand = "client" => Len(FromServer) + 1 \in 1..Len(served)
      /\ Len(FromServer) <= Len(served)
  <2>1. Holds(serverBuffer \o serverPipe, served, Len(FromServer) + Taken({"client"}))
    BY Zenon DEF RInv, Order
  <2>2. Len(FromServer) + Taken({"client"}) \in 0..Len(served)
    BY <2>1, Zenon DEF Holds
  <2>3. Taken({"client"}) \in {0, 1} /\ (InHand = "client" => Taken({"client"}) = 1)
    BY DEF Taken
  <2>4. Len(FromServer) \in Nat /\ Len(served) \in Nat
    <3>1. served \in Seq(ServerLines)
      BY Zenon DEF RInv, IInv, TypeOK
    <3>2. Len(served) \in Nat
      BY ONLY <3>1
    <3>3. QED
      BY <3>2, RefusalsType, Zenon
  <2>5. QED
    BY ONLY <2>2, <2>3, <2>4
<1>6. Turns'
  BY <1>1, <1>2, <1>4, <1>5 DEF RInv, Order, Turns
<1>7. PassedOn'
  <2>1. DOMAIN FromServer = 1..Len(FromServer) /\ Len(FromServer) \in Nat /\ Len(served) \in Nat
    <3>1. FromServer \in Seq(Answer) /\ served \in Seq(ServerLines)
      BY RefusalsType DEF RInv, IInv, TypeOK
    <3>2. QED
      BY ONLY <3>1
  <2>2. \A i \in DOMAIN FromServer : served'[i] = served[i]
    BY <1>4, <1>5, <2>1
  <2>3. QED
    BY <1>1, <1>2, <2>2 DEF RInv, Order, PassedOn
<1>8. QED
  BY <1>1, <1>2, <1>3, <1>6, <1>7 DEF RInv, Order

(* A step that only moves bytes keeps the order. *)
LEMMA DataOrder ==
  ASSUME RInv, UNCHANGED <<todo, toServer, toClient, sent, served>>,
         SameHalves(clientBuffer \o clientPipe, clientBuffer' \o clientPipe'),
         SameHalves(serverBuffer \o serverPipe, serverBuffer' \o serverPipe')
  PROVE  Order'
<1>1. /\ InHand' = InHand /\ (\A s : Taken(s)' = Taken(s)) /\ Decision' = Decision
      /\ Answers' = Answers /\ FromServer' = FromServer /\ Refusals' = Refusals /\ Decided' = Decided
      /\ Dense(toClient, "gateway")' = Dense(toClient, "gateway")
      /\ Dense(toClient, "server")' = Dense(toClient, "server")
  BY SameHand, SameOutput
<1>2. Turns' /\ PassedOn'
  BY <1>1 DEF RInv, Order, Turns, PassedOn
<1>3. sent \in Seq(ClientLines) /\ served \in Seq(ServerLines)
  BY DEF RInv, IInv, TypeOK
<1>4. Len(sent) \in Nat /\ Len(served) \in Nat
  BY ONLY <1>3
<1>5. /\ Holds(clientBuffer' \o clientPipe', sent, Decided + Taken(OfClient))
      /\ Holds(serverBuffer' \o serverPipe', served, Len(FromServer) + Taken({"client"}))
  BY <1>4, HoldsDecoded, Zenon DEF RInv, Order
<1>6. QED
  BY <1>1, <1>2, <1>5 DEF RInv, Order

(* A stream that is left alone keeps its halves. *)
LEMMA SameStream ==
  ASSUME NEW old, NEW new, new = old
  PROVE  SameHalves(old, new)
BY DEF SameHalves

(* A chunk of the client only moves bytes. *)
LEMMA ClientDataOrder ==
  ASSUME RInv, NEW n \in 1..Len(clientPipe), ClientData(n)
  PROVE  Order'
<1>1. /\ clientBuffer \in Seq(Fragment(ClientTexts)) /\ clientPipe \in Seq(Fragment(ClientLines))
      /\ Framed(clientBuffer \o clientPipe, Len(clientBuffer), ClientGarbled)
  BY DEF RInv, IInv, TypeOK
<1>2. /\ clientBuffer' = clientBuffer \o Decoded(SubSeq(clientPipe, 1, n), ClientGarbled)
      /\ clientPipe' = SubSeq(clientPipe, n + 1, Len(clientPipe))
      /\ UNCHANGED <<serverPipe, serverBuffer, todo, toServer, toClient, sent, served>>
  BY DEF ClientData
<1>3. SameHalves(clientBuffer \o clientPipe, clientBuffer' \o clientPipe')
  BY ONLY <1>1, <1>2, n \in 1..Len(clientPipe), ClientChunkKeepsStream, ZenonT(40)
<1>4. SameHalves(serverBuffer \o serverPipe, serverBuffer' \o serverPipe')
  BY <1>2, SameStream
<1>5. QED
  BY <1>2, <1>3, <1>4, DataOrder

(* A chunk of the server only moves bytes. *)
LEMMA ServerDataOrder ==
  ASSUME RInv, NEW n \in 1..Len(serverPipe), ServerData(n)
  PROVE  Order'
<1>1. /\ serverBuffer \in Seq(Fragment(ServerTexts)) /\ serverPipe \in Seq(Fragment(ServerLines))
      /\ Framed(serverBuffer \o serverPipe, Len(serverBuffer), ServerGarbled)
  BY DEF RInv, IInv, TypeOK
<1>2. /\ serverBuffer' = serverBuffer \o Decoded(SubSeq(serverPipe, 1, n), ServerGarbled)
      /\ serverPipe' = SubSeq(serverPipe, n + 1, Len(serverPipe))
      /\ UNCHANGED <<clientPipe, clientBuffer, todo, toServer, toClient, sent, served>>
  BY DEF ServerData
<1>3. SameHalves(serverBuffer \o serverPipe, serverBuffer' \o serverPipe')
  BY ONLY <1>1, <1>2, n \in 1..Len(serverPipe), ServerChunkKeepsStream, ZenonT(40)
<1>4. SameHalves(clientBuffer \o clientPipe, clientBuffer' \o clientPipe')
  BY <1>2, SameStream
<1>5. QED
  BY <1>2, <1>3, <1>4, DataOrder

(* A client line is taken in hand in its turn. *)
LEMMA HandleClientLineOrder ==
  ASSUME RInv, HandleClientLine
  PROVE  Order'
<1>1. /\ todo = <<>> /\ HasLine(clientBuffer) /\ clientBuffer' = Rest(clientBuffer)
      /\ todo' = ClientEffects(FirstLine(clientBuffer, ClientGarbled))
      /\ UNCHANGED <<serverBuffer, toServer, toClient, clientPipe, serverPipe, sent, served>>
  BY DEF HandleClientLine, streams
<1>2. /\ Answers' = Answers /\ FromServer' = FromServer /\ Refusals' = Refusals /\ Decided' = Decided
      /\ Dense(toClient, "gateway")' = Dense(toClient, "gateway")
      /\ Dense(toClient, "server")' = Dense(toClient, "server")
  BY <1>1, SameOutput
<1>3. PICK line \in ClientTexts : /\ line = FirstLine(clientBuffer, ClientGarbled)
                               /\ line \in ClientReadings((clientBuffer \o clientPipe)[1].line)
  BY <1>1, PipesAreTexts, FirstLineIsWhole DEF RInv, IInv, TypeOK, ClientReadings
<1>4. DropsTwo(clientBuffer \o clientPipe, clientBuffer' \o clientPipe')
  BY <1>1, PipesAreTexts, FirstLineIsWhole DEF RInv, IInv, TypeOK
<1>5. InHand = "none" /\ Taken(OfClient) = 0 /\ Taken({"client"}) = 0 /\ Decided \in Nat /\ Len(FromServer) \in Nat
  BY <1>1, RefusalsType DEF InHand, Taken, OfClient
<1>6. line \in ClientReadings(sent[Decided + 1]) /\ Holds(clientBuffer' \o clientPipe', sent, Decided + 1)
  <2>1. Holds(clientBuffer \o clientPipe, sent, Decided + Taken(OfClient))
    BY DEF RInv, Order
  <2>2. Holds(clientBuffer \o clientPipe, sent, Decided)
    <3>1. Decided + Taken(OfClient) = Decided
      BY <1>5
    <3>2. QED
      BY <2>1, <3>1, Zenon
  <2>3. sent \in Seq(ClientLines)
    BY DEF RInv, IInv, TypeOK
  <2>4. QED
    BY <1>3, <1>4, <2>2, <2>3, HoldsRead, Zenon
<1>7. /\ todo' # <<>> /\ Decision' = IF Passes(line) THEN Forward(line) ELSE Refuse(line)
      /\ \A i \in 1..Len(todo') : todo'[i].sink = "log" <=> i < Len(todo')
  BY <1>1, <1>3, ClientDecision DEF Decision
<1>8. /\ InHand' = (IF Passes(line) THEN "server" ELSE "refusal") /\ Decision'.request = line
  BY <1>7 DEF InHand, Decision, Forward, Refuse
<1>9. Taken(OfClient)' = 1 /\ Taken({"client"})' = 0
  BY <1>8 DEF Taken, OfClient
<1>10. Turns'
  BY <1>1, <1>2, <1>6, <1>7, <1>8 DEF Turns, OfClient
<1>11. PassedOn'
  BY <1>1, <1>2 DEF RInv, Order, PassedOn
<1>12. QED
  BY <1>1, <1>2, <1>5, <1>6, <1>9, <1>10, <1>11 DEF RInv, Order

(* A server line is taken in hand in its turn. *)
LEMMA HandleServerLineOrder ==
  ASSUME RInv, HandleServerLine
  PROVE  Order'
<1>1. /\ todo = <<>> /\ HasLine(serverBuffer) /\ serverBuffer' = Rest(serverBuffer)
      /\ todo' = ServerEffects(FirstLine(serverBuffer, ServerGarbled))
      /\ UNCHANGED <<clientBuffer, toServer, toClient, clientPipe, serverPipe, sent, served>>
  BY DEF HandleServerLine, streams
<1>2. /\ Answers' = Answers /\ FromServer' = FromServer /\ Refusals' = Refusals /\ Decided' = Decided
      /\ Dense(toClient, "gateway")' = Dense(toClient, "gateway")
      /\ Dense(toClient, "server")' = Dense(toClient, "server")
  BY <1>1, SameOutput
<1>3. PICK line \in ServerTexts : /\ line = FirstLine(serverBuffer, ServerGarbled)
                               /\ line \in ServerReadings((serverBuffer \o serverPipe)[1].line)
  BY <1>1, PipesAreTexts, FirstLineIsWhole DEF RInv, IInv, TypeOK, ServerReadings
<1>4. DropsTwo(serverBuffer \o serverPipe, serverBuffer' \o serverPipe')
  BY <1>1, PipesAreTexts, FirstLineIsWhole DEF RInv, IInv, TypeOK
<1>5. InHand = "none" /\ Taken(OfClient) = 0 /\ Taken({"client"}) = 0 /\ Decided \in Nat /\ Len(FromServer) \in Nat
  BY <1>1, RefusalsType DEF InHand, Taken, OfClient
<1>6. line \in ServerReadings(served[Len(FromServer) + 1]) /\ Holds(serverBuffer' \o serverPipe', served, Len(FromServer) + 1)
  <2>1. Holds(serverBuffer \o serverPipe, served, Len(FromServer) + Taken({"client"}))
    BY DEF RInv, Order
  <2>2. Holds(serverBuffer \o serverPipe, served, Len(FromServer))
    <3>1. Len(FromServer) + Taken({"client"}) = Len(FromServer)
      BY <1>5
    <3>2. QED
      BY <2>1, <3>1, Zenon
  <2>3. served \in Seq(ServerLines)
    BY DEF RInv, IInv, TypeOK
  <2>4. QED
    BY <1>3, <1>4, <2>2, <2>3, HoldsRead, Zenon
<1>7. /\ todo' # <<>> /\ Decision' = PassOn(Filtered(line))
      /\ \A i \in 1..Len(todo') : todo'[i].sink = "log" <=> i < Len(todo')
  BY <1>1, <1>3, ServerDecision DEF Decision
<1>8. InHand' = "client" /\ Decision'.response = Filtered(line)
  BY <1>7 DEF InHand, Decision, PassOn
<1>9. Taken(OfClient)' = 0 /\ Taken({"client"})' = 1
  BY <1>8 DEF Taken, OfClient
<1>10. Turns'
  BY <1>1, <1>2, <1>6, <1>7, <1>8 DEF Turns, OfClient
<1>11. PassedOn'
  BY <1>1, <1>2 DEF RInv, Order, PassedOn
<1>12. QED
  BY <1>1, <1>2, <1>5, <1>6, <1>9, <1>10, <1>11 DEF RInv, Order

(* An answer of the gateway adds its request to the refusals. *)
LEMMA RefusalsGrow ==
  ASSUME NEW answers \in Seq(Answer), NEW answer \in Answer, NEW more, more = Append(answers, answer)
  PROVE  [i \in DOMAIN more |-> more[i].request]
         = Append([i \in DOMAIN answers |-> answers[i].request], answer.request)
<1>1. PICK r : r = [i \in DOMAIN answers |-> answers[i].request]
  OBVIOUS
<1>2. /\ Len(answers) \in Nat /\ DOMAIN answers = 1..Len(answers)
      /\ DOMAIN more = 1..Len(answers) + 1 /\ more[Len(answers) + 1] = answer
      /\ \A i \in 1..Len(answers) : more[i] = answers[i]
  OBVIOUS
<1>3. r = [i \in 1..Len(answers) |-> answers[i].request] /\ Len(r) = Len(answers)
  BY <1>1, <1>2
<1>4. Append(r, answer.request)
      = [i \in 1..Len(answers) + 1 |-> IF i <= Len(answers) THEN r[i] ELSE answer.request]
  BY <1>2, <1>3
<1>5. \A i \in 1..Len(answers) + 1 :
          more[i].request = IF i <= Len(answers) THEN r[i] ELSE answer.request
  BY <1>2, <1>3
<1>6. QED
  BY <1>1, <1>2, <1>4, <1>5, Zenon

(* Only the last effect of a line is no log entry. *)
LEMMA LogEffectOrder ==
  ASSUME RInv, Effect, Head(todo).sink = "log"
  PROVE  UNCHANGED <<toServer, toClient, sent>> /\ InHand' = InHand /\ Decision' = Decision /\ Order'
<1>1. /\ todo # <<>> /\ todo' = Tail(todo)
      /\ UNCHANGED <<clientBuffer, clientPipe, serverBuffer, serverPipe, sent, served>>
  BY DEF Effect, streams
<1>2. UNCHANGED <<toServer, toClient>>
  BY DEF Effect, AppendLog
<1>3. todo \in Seq(SafeEffects)
  BY DEF RInv, IInv
<1>4. /\ Len(todo) \in Nat /\ Len(todo) >= 1 /\ Head(todo) = todo[1]
      /\ Len(todo') = Len(todo) - 1 /\ \A i \in 1..Len(todo) - 1 : todo'[i] = todo[i + 1]
  BY ONLY <1>1, <1>3
<1>5. \A i \in 1..Len(todo) : todo[i].sink = "log" <=> i < Len(todo)
  BY DEF RInv, Order, Turns
<1>6. 1 < Len(todo)
  BY <1>4, <1>5
<1>7. Decision' = Decision /\ todo' # <<>>
  <2>1. Len(todo) - 1 \in 1..Len(todo) - 1 /\ Len(todo) - 1 + 1 = Len(todo)
    BY <1>4, <1>6
  <2>2. todo'[Len(todo')] = todo[Len(todo)]
    BY <1>4, <2>1
  <2>3. QED
    BY <1>4, <1>6, <2>2 DEF Decision
<1>8. InHand' = InHand /\ \A s : Taken(s)' = Taken(s)
  BY <1>1, <1>7 DEF InHand, Taken, Decision
<1>9. \A i \in 1..Len(todo') : todo'[i].sink = "log" <=> i < Len(todo')
  <2> TAKE i \in 1..Len(todo')
  <2>1. i \in 1..Len(todo) - 1 /\ i + 1 \in 1..Len(todo) /\ (i + 1 < Len(todo) <=> i < Len(todo'))
    BY <1>4
  <2>2. QED
    BY <1>4, <1>5, <2>1
<1>10. /\ Answers' = Answers /\ FromServer' = FromServer /\ Refusals' = Refusals /\ Decided' = Decided
       /\ Dense(toClient, "gateway")' = Dense(toClient, "gateway")
       /\ Dense(toClient, "server")' = Dense(toClient, "server")
  BY <1>2, SameOutput
<1>11. Turns'
  BY <1>1, <1>7, <1>8, <1>9, <1>10 DEF RInv, Order, Turns
<1>12. PassedOn'
  BY <1>1, <1>2, <1>10 DEF RInv, Order, PassedOn
<1>13. Order'
  BY <1>1, <1>2, <1>8, <1>10, <1>11, <1>12 DEF RInv, Order
<1>14. QED
  BY <1>1, <1>2, <1>7, <1>8, <1>13

(* The last effect is the decision, and leaves nothing in hand. *)
LEMMA LastEffect ==
  ASSUME RInv, Effect, Head(todo).sink # "log"
  PROVE  /\ Decision = Head(todo) /\ InHand = Head(todo).sink /\ todo' = <<>>
         /\ Taken(OfClient)' = 0 /\ Taken({"client"})' = 0
         /\ Turns'
<1>1. todo # <<>> /\ todo' = Tail(todo)
  BY DEF Effect
<1>2. todo \in Seq(SafeEffects)
  BY DEF RInv, IInv
<1>3. Len(todo) \in Nat /\ Len(todo) >= 1 /\ Head(todo) = todo[1]
  BY ONLY <1>1, <1>2
<1>4. Len(todo) = 1
  <2>1. \A i \in 1..Len(todo) : todo[i].sink = "log" <=> i < Len(todo)
    BY DEF RInv, Order, Turns
  <2>2. todo[1].sink # "log" /\ 1 \in 1..Len(todo)
    BY <1>3
  <2>3. ~(1 < Len(todo))
    BY <2>1, <2>2, Zenon
  <2>4. QED
    BY <1>3, <2>3
<1>5. todo' = <<>>
  BY <1>1, <1>2, <1>4, EmptySeq
<1>6. Decision = Head(todo) /\ InHand = Head(todo).sink
  BY <1>1, <1>3, <1>4 DEF Decision, InHand
<1>7. InHand' = "none"
  BY <1>5 DEF InHand
<1>8. Taken(OfClient)' = 0 /\ Taken({"client"})' = 0
  BY <1>7 DEF Taken, OfClient
<1>9. Turns'
  BY <1>5, <1>7 DEF Turns, OfClient
<1>10. QED
  BY <1>5, <1>6, <1>8, <1>9

(* What is forwarded or refused is something that was read. *)
LEMMA RequestsAreTexts ==
  ASSUME RInv, Effect, Head(todo).sink \in {"server", "refusal"}
  PROVE  Head(todo).request \in ClientTexts
<1>1. todo \in Seq(Effects) /\ todo # <<>>
  BY DEF RInv, IInv, TypeOK, Effect
<1>2. Head(todo) \in Effects
  BY ONLY <1>1
<1>3. QED
  BY <1>2 DEF Effects

(* A line that was let through reaches the server as the next one. *)
LEMMA ServerEffectOrder ==
  ASSUME RInv, Effect, Head(todo).sink = "server"
  PROVE  /\ Decided + 1 \in 1..Len(sent)
         /\ \E text \in ClientReadings(sent[Decided + 1]) :
               text \in ClientTexts /\ Passes(text) /\ toServer' = Append(toServer, text)
         /\ Refusals' = Refusals /\ Decided' = Decided + 1 /\ sent' = sent
         /\ Order'
<1>1. /\ UNCHANGED <<clientBuffer, clientPipe, serverBuffer, serverPipe, sent, served, toClient>>
      /\ toServer' = Append(toServer, Head(todo).request)
  BY DEF Effect, streams
<1>2. /\ Decision = Head(todo) /\ InHand = "server"
      /\ Taken(OfClient)' = 0 /\ Taken({"client"})' = 0 /\ Turns'
  BY LastEffect
<1>3. Taken(OfClient) = 1 /\ Taken({"client"}) = 0
  BY <1>2 DEF Taken, OfClient
<1>4. /\ Head(todo).request \in ClientReadings(sent[Decided + 1]) /\ Passes(Head(todo).request)
      /\ Head(todo).request \in ClientTexts
  BY <1>2, RequestsAreTexts DEF RInv, Order, Turns, OfClient
<1>5. /\ Answers' = Answers /\ FromServer' = FromServer /\ Refusals' = Refusals
      /\ Dense(toClient, "gateway")' = Dense(toClient, "gateway")
      /\ Dense(toClient, "server")' = Dense(toClient, "server")
  BY <1>1 DEF Answers, FromServer, Refusals
<1>6. Decided \in Nat /\ Len(Refusals) \in Nat /\ Len(FromServer) \in Nat
  BY RefusalsType
<1>7. Decided' = Decided + 1
  <2>1. toServer \in Seq(ClientTexts)
    BY DEF RInv, IInv, TypeOK
  <2>2. Len(toServer') = Len(toServer) + 1 /\ Len(toServer) \in Nat
    BY ONLY <1>1, <2>1
  <2>3. QED
    BY <1>5, <1>6, <2>2 DEF Decided
<1>8. Holds(clientBuffer \o clientPipe, sent, Decided + 1)
  BY <1>3 DEF RInv, Order
<1>9. Decided + 1 \in 1..Len(sent)
  BY <1>6, <1>8 DEF Holds
<1>10. Holds((clientBuffer \o clientPipe)', sent', Decided' + Taken(OfClient)')
  <2>1. Decided' + Taken(OfClient)' = Decided + 1
    BY <1>2, <1>6, <1>7
  <2>2. QED
    BY <1>1, <1>8, <2>1, Zenon
<1>11. Holds((serverBuffer \o serverPipe)', served', Len(FromServer') + Taken({"client"})')
  BY <1>1, <1>2, <1>3, <1>5 DEF RInv, Order
<1>12. PassedOn'
  BY <1>1, <1>5 DEF RInv, Order, PassedOn
<1>13. QED
  BY <1>1, <1>2, <1>4, <1>5, <1>7, <1>9, <1>10, <1>11, <1>12 DEF Order

(* A line that was refused is answered as the next one. *)
LEMMA RefusalEffectOrder ==
  ASSUME RInv, Effect, Head(todo).sink = "refusal"
  PROVE  /\ Decided + 1 \in 1..Len(sent)
         /\ \E text \in ClientReadings(sent[Decided + 1]) :
               /\ text \in ClientTexts /\ ~Passes(text) /\ text = Head(todo).request
               /\ Refusals' = Append(Refusals, text)
         /\ toServer' = toServer /\ Decided' = Decided + 1 /\ sent' = sent
         /\ Order'
<1> DEFINE answer == [from |-> "gateway", request |-> Head(todo).request]
<1>1. /\ UNCHANGED <<clientBuffer, clientPipe, serverBuffer, serverPipe, sent, served, toServer>>
      /\ toClient' = Append(toClient, answer)
  BY DEF Effect, streams
<1>2. /\ Decision = Head(todo) /\ InHand = "refusal"
      /\ Taken(OfClient)' = 0 /\ Taken({"client"})' = 0 /\ Turns'
  BY LastEffect
<1>3. Taken(OfClient) = 1 /\ Taken({"client"}) = 0
  BY <1>2 DEF Taken, OfClient
<1>4. PICK text \in ClientReadings(sent[Decided + 1]) :
          text = Head(todo).request /\ text \in ClientTexts /\ ~Passes(text)
  <2>1. Head(todo).request \in ClientReadings(sent[Decided + 1]) /\ ~Passes(Head(todo).request)
    BY <1>2 DEF RInv, Order, Turns, OfClient
  <2>2. QED
    BY <2>1, RequestsAreTexts
<1>5. Decided \in Nat /\ Len(Refusals) \in Nat /\ Len(FromServer) \in Nat
  BY RefusalsType
<1>6. Holds(clientBuffer \o clientPipe, sent, Decided + 1)
  BY <1>3 DEF RInv, Order
<1>7. Decided + 1 \in 1..Len(sent)
  BY <1>5, <1>6 DEF Holds
<1>8. answer \in Answer /\ answer.from = "gateway" /\ answer.request = text
  BY <1>4 DEF Answer
<1> HIDE DEF answer
<1>9. toClient \in Seq(Answer) /\ Dense(toClient, "gateway") /\ Dense(toClient, "server")
  BY DEF RInv, IInv, TypeOK, Answer, Order, PassedOn
<1>10. /\ Answers' = Append(Answers, answer) /\ FromServer' = FromServer
       /\ Dense(toClient, "gateway")' /\ Dense(toClient, "server")'
  BY <1>1, <1>8, <1>9, SelectSame, SelectOther DEF Answers, FromServer
<1>11. Refusals' = Append(Refusals, text)
  BY <1>8, <1>10, RefusalsType, RefusalsGrow DEF Refusals
<1>12. Decided' = Decided + 1
  <2>1. Len(Refusals') = Len(Refusals) + 1
    BY <1>11, RefusalsType
  <2>2. toServer \in Seq(ClientTexts)
    BY DEF RInv, IInv, TypeOK
  <2>3. Len(toServer) \in Nat
    BY ONLY <2>2
  <2>4. QED
    BY <1>1, <1>5, <2>1, <2>3 DEF Decided
<1>13. Holds((clientBuffer \o clientPipe)', sent', Decided' + Taken(OfClient)')
  <2>1. Decided' + Taken(OfClient)' = Decided + 1
    BY <1>2, <1>5, <1>12
  <2>2. QED
    BY <1>1, <1>6, <2>1, Zenon
<1>14. Holds((serverBuffer \o serverPipe)', served', Len(FromServer') + Taken({"client"})')
  BY <1>1, <1>2, <1>3, <1>10 DEF RInv, Order
<1>15. PassedOn'
  BY <1>1, <1>10 DEF RInv, Order, PassedOn
<1>16. QED
  BY <1>1, <1>2, <1>4, <1>7, <1>11, <1>12, <1>13, <1>14, <1>15 DEF Order

(* What the server wrote is passed on, filtered, as the next one. *)
LEMMA ClientEffectOrder ==
  ASSUME RInv, Effect, Head(todo).sink = "client"
  PROVE  Refusals' = Refusals /\ toServer' = toServer /\ sent' = sent /\ Order'
<1> DEFINE answer == [from |-> "server", response |-> Head(todo).response]
<1>1. /\ UNCHANGED <<clientBuffer, clientPipe, serverBuffer, serverPipe, sent, served, toServer>>
      /\ toClient' = Append(toClient, answer)
  BY DEF Effect, streams
<1>2. /\ Decision = Head(todo) /\ InHand = "client"
      /\ Taken(OfClient)' = 0 /\ Taken({"client"})' = 0 /\ Turns'
  BY LastEffect
<1>3. Taken(OfClient) = 0 /\ Taken({"client"}) = 1
  BY <1>2 DEF Taken, OfClient
<1>4. PICK text \in ServerReadings(served[Len(FromServer) + 1]) : Head(todo).response = Filtered(text)
  BY <1>2 DEF RInv, Order, Turns
<1>5. FromServer \in Seq(Answer) /\ Len(FromServer) \in Nat
  BY RefusalsType
<1>6. answer \in Answer /\ answer.from = "server"
      /\ answer.response = Filtered(text)
  <2>1. Head(todo) \in Effects
    <3>1. todo \in Seq(Effects) /\ todo # <<>>
      BY DEF RInv, IInv, TypeOK, Effect
    <3>2. QED
      BY ONLY <3>1
  <2>2. Head(todo).response \in ServerLine
    BY <2>1 DEF Effects
  <2>3. QED
    BY <1>4, <2>2 DEF Answer
<1> HIDE DEF answer
<1>7. toClient \in Seq(Answer) /\ Dense(toClient, "gateway") /\ Dense(toClient, "server")
  BY DEF RInv, IInv, TypeOK, Answer, Order, PassedOn
<1>8. /\ Answers' = Answers /\ FromServer' = Append(FromServer, answer)
      /\ Dense(toClient, "gateway")' /\ Dense(toClient, "server")'
  BY <1>1, <1>6, <1>7, SelectSame, SelectOther DEF Answers, FromServer
<1>9. Refusals' = Refusals /\ Decided' = Decided
  <2>1. Refusals' = Refusals
    BY <1>8 DEF Refusals
  <2>2. QED
    BY <1>1, <2>1 DEF Decided
<1>10. /\ Len(FromServer') = Len(FromServer) + 1 /\ DOMAIN FromServer' = 1..Len(FromServer) + 1
       /\ FromServer'[Len(FromServer) + 1] = answer
       /\ \A i \in 1..Len(FromServer) : FromServer'[i] = FromServer[i]
  <2>1. FromServer' = Append(FromServer, answer) /\ answer \in Answer
    BY <1>6, <1>8
  <2>2. QED
    BY ONLY <1>5, <2>1
<1>11. PassedOn'
  <2>1. DOMAIN FromServer = 1..Len(FromServer)
    BY ONLY <1>5
  <2>2. \A i \in 1..Len(FromServer) :
            \E t \in ServerReadings(served[i]) : FromServer[i].response = Filtered(t)
    BY <2>1 DEF RInv, Order, PassedOn
  <2>3. ASSUME NEW i \in 1..Len(FromServer) + 1
        PROVE  \E t \in ServerReadings(served[i]) : FromServer'[i].response = Filtered(t)
    <3>1. CASE i \in 1..Len(FromServer)
      BY <1>10, <2>2, <3>1
    <3>2. CASE i = Len(FromServer) + 1
      BY <1>4, <1>6, <1>10, <3>2
    <3>3. QED
      BY <1>5, <3>1, <3>2
  <2>4. QED
    BY <1>1, <1>8, <1>10, <2>3 DEF PassedOn
<1>12. Holds((serverBuffer \o serverPipe)', served', Len(FromServer') + Taken({"client"})')
  <2>1. Holds(serverBuffer \o serverPipe, served, Len(FromServer) + 1)
    BY <1>3 DEF RInv, Order
  <2>2. Len(FromServer') + Taken({"client"})' = Len(FromServer) + 1
    BY <1>2, <1>5, <1>10
  <2>3. QED
    BY <1>1, <2>1, <2>2, Zenon
<1>13. Holds((clientBuffer \o clientPipe)', sent', Decided' + Taken(OfClient)')
  BY <1>1, <1>2, <1>3, <1>9 DEF RInv, Order
<1>14. QED
  BY <1>1, <1>2, <1>9, <1>11, <1>12, <1>13 DEF Order

(* The death of either side changes no stream. *)
LEMMA EndOrder ==
  ASSUME RInv, ServerExit \/ OnChildExit \/ Killed \/ UNCHANGED vars
  PROVE  UNCHANGED <<toServer, toClient, sent>> /\ Order'
<1>1. UNCHANGED <<clientPipe, clientBuffer, serverPipe, serverBuffer, todo, toServer, toClient, sent, served>>
  BY DEF ServerExit, OnChildExit, Killed, vars
<1>2. QED
  BY <1>1, SameStream, DataOrder

(* Effects go to one of four sinks. *)
LEMMA Sinks ==
  ASSUME RInv, Effect
  PROVE  Head(todo).sink \in {"log", "server", "refusal", "client"}
<1>1. todo \in Seq(Effects) /\ todo # <<>>
  BY DEF RInv, IInv, TypeOK, Effect
<1>2. Head(todo) \in Effects
  BY ONLY <1>1
<1>3. QED
  BY <1>2 DEF Effects

(* The order is inductive. *)
LEMMA NextRInv == RInv /\ [Next]_vars => RInv'
<1> SUFFICES ASSUME RInv, [Next]_vars PROVE Order'
  BY NextIInv DEF RInv
<1>1. CASE \E line \in ClientLines : ClientWrite(line)
  BY <1>1, ClientWriteOrder
<1>2. CASE \E line \in ServerLines : ServerWrite(line)
  BY <1>2, ServerWriteOrder
<1>3. CASE \E n \in 1..Len(clientPipe) : ClientData(n)
  BY <1>3, ClientDataOrder
<1>4. CASE \E n \in 1..Len(serverPipe) : ServerData(n)
  BY <1>4, ServerDataOrder
<1>5. CASE HandleClientLine
  BY <1>5, HandleClientLineOrder
<1>6. CASE HandleServerLine
  BY <1>6, HandleServerLineOrder
<1>7. CASE Effect
  BY <1>7, Sinks, LogEffectOrder, ServerEffectOrder, RefusalEffectOrder, ClientEffectOrder
<1>8. CASE ServerExit \/ OnChildExit \/ Killed \/ UNCHANGED vars
  BY <1>8, EndOrder
<1>9. QED
  BY <1>1, <1>2, <1>3, <1>4, <1>5, <1>6, <1>7, <1>8 DEF Next

(* The order holds in every reachable state. *)
LEMMA SpecRInv == Spec => []RInv
<1>1. Init => RInv
  BY InitIInv, InitOrder DEF RInv
<1>2. QED
  BY <1>1, NextRInv, PTL DEF Spec

(* What was read of the server's lines reaches the client filtered, in     *)
(* order and once, wherever the chunks end, also inside a character, and   *)
(* whatever the gateway itself answers in between (onServerData).          *)
THEOREM ServerStreamIsFiltered == Spec => []ServerStreamFiltered
<1>1. RInv => ServerStreamFiltered
  <2> SUFFICES ASSUME RInv PROVE ServerStreamFiltered
    OBVIOUS
  <2>1. Holds(serverBuffer \o serverPipe, served, Len(FromServer) + Taken({"client"})) /\ PassedOn
    BY DEF RInv, Order
  <2>2. Len(FromServer) \in Nat /\ Taken({"client"}) \in {0, 1} /\ Len(served) \in Nat
    <3>1. served \in Seq(ServerLines)
      BY DEF RInv, IInv, TypeOK
    <3>2. Len(served) \in Nat
      BY <3>1, SeqElements
    <3>3. QED
      BY <3>2, RefusalsType DEF Taken
  <2>3. Len(FromServer) + Taken({"client"}) \in 0..Len(served)
    BY <2>1 DEF Holds
  <2>4. Len(FromServer) <= Len(served)
    BY <2>2, <2>3
  <2>5. QED
    BY <2>1, <2>4 DEF ServerStreamFiltered, PassedOn
<1>2. QED
  BY <1>1, SpecRInv, PTL

--------------------------------------------------------------------------------
(* The gateway is the policy's filter. *)

(* What is left of a sequence after its first k elements, when one is      *)
(* added behind it and when the next one is taken.                         *)
LEMMA SuffixGrows ==
  ASSUME NEW S, NEW s \in Seq(S), NEW k \in 0..Len(s), NEW e \in S, NEW more, more = Append(s, e)
  PROVE  SubSeq(more, k + 1, Len(more)) = Append(SubSeq(s, k + 1, Len(s)), e)
<1>1. /\ Len(s) \in Nat /\ k \in Nat /\ more \in Seq(S) /\ Len(more) = Len(s) + 1
      /\ more[Len(s) + 1] = e /\ \A i \in 1..Len(s) : more[i] = s[i]
  OBVIOUS
<1>2. PICK t : t = SubSeq(s, k + 1, Len(s))
  OBVIOUS
<1>3. t \in Seq(S) /\ Len(t) = Len(s) - k /\ \A j \in 1..Len(s) - k : t[j] = s[j + k]
  BY <1>2, SuffixFacts
<1>4. PICK u : u = SubSeq(more, k + 1, Len(more))
  OBVIOUS
<1>5. u \in Seq(S) /\ Len(u) = Len(s) + 1 - k /\ \A j \in 1..Len(s) + 1 - k : u[j] = more[j + k]
  <2>1. k \in 0..Len(more)
    BY <1>1
  <2>2. u \in Seq(S) /\ Len(u) = Len(more) - k /\ \A j \in 1..Len(more) - k : u[j] = more[j + k]
    BY <1>1, <1>4, <2>1, SuffixFacts
  <2>3. QED
    BY <1>1, <2>2
<1>6. PICK w : w = Append(t, e)
  OBVIOUS
<1>7. /\ w \in Seq(S) /\ Len(w) = Len(t) + 1 /\ w[Len(t) + 1] = e
      /\ \A j \in 1..Len(t) : w[j] = t[j]
  BY ONLY <1>3, <1>6, e \in S
<1>8. ASSUME NEW j \in 1..Len(u) PROVE u[j] = w[j]
  <2>1. CASE j \in 1..Len(t)
    <3>1. j + k \in 1..Len(s) /\ j \in 1..Len(s) - k /\ j \in 1..Len(s) + 1 - k
      BY <1>1, <1>3, <2>1
    <3>2. QED
      BY <1>1, <1>3, <1>5, <1>7, <2>1, <3>1
  <2>2. CASE j = Len(t) + 1
    <3>1. j + k = Len(s) + 1 /\ j \in 1..Len(s) + 1 - k
      BY <1>1, <1>3, <2>2
    <3>2. u[j] = more[j + k]
      BY <1>5, <3>1
    <3>3. more[j + k] = e
      BY <1>1, <3>1
    <3>4. w[j] = e
      <4>1. w[Len(t) + 1] = e
        BY <1>7
      <4>2. QED
        BY ONLY <2>2, <4>1
    <3>5. QED
      BY <3>2, <3>3, <3>4
  <2>3. Len(t) \in Nat /\ Len(u) = Len(t) + 1
    BY <1>1, <1>3, <1>5
  <2>4. j \in 1..Len(t) \/ j = Len(t) + 1
    BY ONLY <2>3, j \in 1..Len(u)
  <2>5. QED
    BY <2>1, <2>2, <2>4, Zenon
<1>9. u = w
  <2>1. Len(u) = Len(w)
    BY <1>1, <1>3, <1>5, <1>7
  <2>2. QED
    BY ONLY <1>5, <1>7, <1>8, <2>1, SeqEqual
<1>10. QED
  BY <1>2, <1>4, <1>6, <1>9

(* The first of what is left, and what is left after it. *)
LEMMA SuffixShrinks ==
  ASSUME NEW S, NEW s \in Seq(S), NEW k \in Nat, k + 1 \in 1..Len(s)
  PROVE  LET t == SubSeq(s, k + 1, Len(s))
         IN  t # <<>> /\ Head(t) = s[k + 1] /\ Tail(t) = SubSeq(s, k + 2, Len(s))
<1>1. Len(s) \in Nat /\ k \in 0..Len(s) /\ k + 1 \in 0..Len(s) /\ k + 1 + 1 = k + 2
  OBVIOUS
<1>2. PICK t : t = SubSeq(s, k + 1, Len(s))
  OBVIOUS
<1>3. t \in Seq(S) /\ Len(t) = Len(s) - k /\ \A j \in 1..Len(s) - k : t[j] = s[j + k]
  BY <1>1, <1>2, SuffixFacts
<1>4. PICK u : u = SubSeq(s, k + 2, Len(s))
  OBVIOUS
<1>5. u \in Seq(S) /\ Len(u) = Len(s) - (k + 1) /\ \A j \in 1..Len(s) - (k + 1) : u[j] = s[j + (k + 1)]
  <2>1. u = SubSeq(s, (k + 1) + 1, Len(s))
    BY <1>1, <1>4
  <2>2. QED
    BY <1>1, <2>1, SuffixFacts
<1>6. t # <<>> /\ Len(t) >= 1 /\ Head(t) = t[1]
  BY ONLY <1>1, <1>3, k + 1 \in 1..Len(s)
<1>7. t[1] = s[k + 1]
  <2>1. 1 \in 1..Len(s) - k /\ 1 + k = k + 1
    BY <1>1
  <2>2. QED
    BY <1>3, <2>1
<1>8. PICK w : w = Tail(t)
  OBVIOUS
<1>9. w \in Seq(S) /\ Len(w) = Len(t) - 1 /\ \A j \in 1..Len(t) - 1 : w[j] = t[j + 1]
  BY ONLY <1>3, <1>6, <1>8
<1>10. Len(u) = Len(w) /\ Len(u) \in Nat
  BY <1>1, <1>3, <1>5, <1>9
<1>11. ASSUME NEW j \in 1..Len(u) PROVE u[j] = w[j]
  <2>1. /\ j \in 1..Len(s) - (k + 1) /\ j \in 1..Len(t) - 1 /\ j + 1 \in 1..Len(s) - k
        /\ j + 1 + k = j + (k + 1)
    BY <1>1, <1>3, <1>5
  <2>2. t[j + 1] = s[j + 1 + k]
    BY <1>3, <2>1
  <2>3. QED
    BY <1>5, <1>9, <2>1, <2>2
<1>12. u = w
  BY ONLY <1>5, <1>9, <1>10, <1>11, SeqEqual
<1>13. QED
  BY <1>2, <1>4, <1>6, <1>7, <1>8, <1>12

(* The verdict on a line is the policy's on the calls it carries. *)
LEMMA PassesIsPolicy ==
  ASSUME NEW line
  PROVE  Passes(line) <=> ~CarriesRefused(line)
<1>1. ASSUME NEW call \in Calls(line), ~Allowed(call[2]) PROVE CarriesRefused(line)
  <2>1. PICK i \in DOMAIN line.msgs : line.msgs[i].method = "tools/call" /\ call = <<i, line.msgs[i].tool>>
    BY DEF Calls
  <2>2. call[2] = line.msgs[i].tool
    BY <2>1
  <2>3. QED
    BY <1>1, <2>1, <2>2 DEF CarriesRefused
<1>2. ASSUME NEW i \in DOMAIN line.msgs, line.msgs[i].method = "tools/call", ~Allowed(line.msgs[i].tool)
      PROVE  ~Passes(line)
  <2>1. <<i, line.msgs[i].tool>> \in Calls(line)
    BY <1>2 DEF Calls
  <2>2. <<i, line.msgs[i].tool>>[2] = line.msgs[i].tool
    OBVIOUS
  <2>3. QED
    BY <1>2, <2>1, <2>2 DEF Passes
<1>3. QED
  BY <1>1, <1>2 DEF Passes, CarriesRefused

(* The lines the filter has not decided yet. *)
Pending == SubSeq(sent, Decided + 1, Len(sent))

(* A line that is decided is the next one of the filter. *)
LEMMA NextPending ==
  ASSUME RInv, Decided + 1 \in 1..Len(sent), sent' = sent, Decided' = Decided + 1
  PROVE  Pending # <<>> /\ Head(Pending) = sent[Decided + 1] /\ Pending' = Tail(Pending)
<1>1. sent \in Seq(ClientLines) /\ Decided \in Nat
  BY RefusalsType DEF RInv, IInv, TypeOK
<1>2. PICK d \in Nat : d = Decided
  BY <1>1
<1>3. Pending = SubSeq(sent, d + 1, Len(sent)) /\ Pending' = SubSeq(sent, d + 2, Len(sent))
  <2>1. d + 1 + 1 = d + 2
    OBVIOUS
  <2>2. QED
    BY <1>2, <2>1 DEF Pending
<1>4. QED
  BY <1>1, <1>2, <1>3, SuffixShrinks

(* Every step of the gateway is a step of the filter or none. *)
LEMMA FiltersOrStutters ==
  ASSUME RInv, [Next]_vars
  PROVE  [Filter!Next]_(Filter!filterVars)
<1> USE DEF Filter!filterVars
<1>1. CASE \E line \in ClientLines : ClientWrite(line)
  <2>1. PICK line \in ClientLines : ClientWrite(line)
    BY <1>1
  <2>2. sent' = Append(sent, line) /\ UNCHANGED <<toServer, toClient>>
    BY <2>1 DEF ClientWrite
  <2>3. Refusals' = Refusals /\ Decided' = Decided
    BY <2>2, SameOutput
  <2>4. sent \in Seq(ClientLines) /\ Decided \in 0..Len(sent)
    <3>1. sent \in Seq(ClientLines) /\ Decided \in Nat
      BY RefusalsType DEF RInv, IInv, TypeOK
    <3>2. Decided + Taken(OfClient) \in 0..Len(sent) /\ Taken(OfClient) \in {0, 1}
      BY DEF RInv, Order, Holds, Taken
    <3>3. PICK taken \in {0, 1} : Decided + taken \in 0..Len(sent)
      BY <3>2
    <3>4. Len(sent) \in Nat
      BY <3>1, SeqElements
    <3>5. QED
      BY <3>1, <3>3, <3>4
  <2>5. Pending' = Append(Pending, line)
    <3>1. PICK k \in 0..Len(sent) : k = Decided
      BY <2>4
    <3>2. Pending = SubSeq(sent, k + 1, Len(sent)) /\ Pending' = SubSeq(sent', k + 1, Len(sent'))
      BY <2>3, <3>1 DEF Pending
    <3>3. QED
      BY <2>2, <2>4, <3>2, SuffixGrows, Zenon
  <2>6. Filter!Write(line)
    BY <2>2, <2>3, <2>5 DEF Filter!Write, Pending
  <2>7. QED
    BY <2>6 DEF Filter!Next
<1>2. CASE Effect
  <2>1. CASE Head(todo).sink \in {"log", "client"}
    <3>1. toServer' = toServer /\ sent' = sent /\ Refusals' = Refusals
      BY <1>2, <2>1, LogEffectOrder, ClientEffectOrder, SameOutput
    <3>2. QED
      BY <3>1 DEF Decided
  <2>2. CASE Head(todo).sink = "server"
    <3>1. /\ Decided + 1 \in 1..Len(sent)
          /\ Refusals' = Refusals /\ Decided' = Decided + 1 /\ sent' = sent
      BY <1>2, <2>2, ServerEffectOrder
    <3>2. Pending # <<>> /\ Head(Pending) = sent[Decided + 1] /\ Pending' = Tail(Pending)
      BY <3>1, NextPending
    <3>3. \E text \in ClientReadings(sent[Decided + 1]) :
              text \in ClientTexts /\ ~CarriesRefused(text) /\ toServer' = Append(toServer, text)
      BY <1>2, <2>2, ServerEffectOrder, PassesIsPolicy
    <3>4. Filter!Deliver
      BY <3>1, <3>2, <3>3 DEF Filter!Deliver, Pending
    <3>5. QED
      BY <3>4 DEF Filter!Next
  <2>3. CASE Head(todo).sink = "refusal"
    <3>1. /\ Decided + 1 \in 1..Len(sent)
          /\ toServer' = toServer /\ Decided' = Decided + 1 /\ sent' = sent
      BY <1>2, <2>3, RefusalEffectOrder
    <3>2. Pending # <<>> /\ Head(Pending) = sent[Decided + 1] /\ Pending' = Tail(Pending)
      BY <3>1, NextPending
    <3>3. \E text \in ClientReadings(sent[Decided + 1]) :
              CarriesRefused(text) /\ Refusals' = Append(Refusals, text)
      BY <1>2, <2>3, RefusalEffectOrder, PassesIsPolicy
    <3>4. Filter!Refuse
      BY <3>1, <3>2, <3>3 DEF Filter!Refuse, Pending
    <3>5. QED
      BY <3>4 DEF Filter!Next
  <2>4. QED
    BY <1>2, <2>1, <2>2, <2>3, Sinks
<1>3. CASE \/ \E line \in ServerLines : ServerWrite(line)
           \/ \E n \in 1..Len(clientPipe) : ClientData(n)
           \/ \E n \in 1..Len(serverPipe) : ServerData(n)
           \/ HandleClientLine \/ HandleServerLine
           \/ ServerExit \/ OnChildExit \/ Killed \/ UNCHANGED vars
  <2>1. UNCHANGED <<toServer, toClient, sent>>
    BY <1>3 DEF ServerWrite, ClientData, ServerData, HandleClientLine, HandleServerLine,
                ServerExit, OnChildExit, Killed, vars, streams
  <2>2. QED
    BY <2>1, SameOutput
<1>4. QED
  BY <1>1, <1>2, <1>3 DEF Next

(* The proxy implements the filter of PolicyFilter: every line the client  *)
(* finishes is forwarded or answered exactly once, in the order it was     *)
(* written, as the text it was read as and by the policy's verdict on that *)
(* text, for every policy, every lines, every chunking, also inside a      *)
(* character, and whenever the gateway is killed.                          *)
THEOREM GatewayImplementsTheFilter == Spec => FilterSpec
<1>1. Init => RInv /\ Filter!Init
  <2> SUFFICES ASSUME Init PROVE RInv /\ Filter!Init
    OBVIOUS
  <2>1. RInv
    BY InitIInv, InitOrder DEF RInv
  <2>2. sent = <<>> /\ toServer = <<>> /\ toClient = <<>>
    BY DEF Init
  <2>3. Answers = <<>>
    BY <2>2, SelectNone DEF Answers
  <2>4. Refusals = <<>> /\ Decided = 0
    <3>1. Refusals = [i \in DOMAIN <<>> |-> Answers[i].request]
      BY <2>3 DEF Refusals
    <3>2. Refusals = <<>>
      BY <3>1
    <3>3. QED
      BY <2>2, <3>2 DEF Decided
  <2>5. SubSeq(sent, Decided + 1, Len(sent)) = <<>>
    BY <2>2, <2>4
  <2>6. QED
    BY <2>1, <2>2, <2>4, <2>5 DEF Filter!Init
<1>2. RInv /\ [Next]_vars => [Filter!Next]_(Filter!filterVars)
  BY FiltersOrStutters
<1>3. QED
  BY <1>1, <1>2, NextRInv, PTL DEF Spec, FilterSpec, Filter!Spec

--------------------------------------------------------------------------------
(* The log and the counters. *)

(* Where a sequence has an element, and what an append, a tail and a log   *)
(* of calls do to the number of those places.                              *)
Places(s, x) == {i \in DOMAIN s : s[i] = x}

(* The places in a sequence are finitely many. *)
LEMMA PlacesFinite ==
  ASSUME NEW S, NEW s \in Seq(S), NEW x
  PROVE  IsFiniteSet(Places(s, x)) /\ Cardinality(Places(s, x)) \in Nat
<1>1. DOMAIN s = 1..Len(s) /\ Len(s) \in Nat
  OBVIOUS
<1>2. Places(s, x) \subseteq 1..Len(s)
  BY <1>1 DEF Places
<1>3. IsFiniteSet(1..Len(s))
  BY <1>1, FS_Interval
<1> HIDE DEF Places
<1>4. IsFiniteSet(Places(s, x))
  BY <1>2, <1>3, FS_Subset
<1>5. QED
  BY <1>4, FS_CardinalityType

(* An append adds a place for its own element only. *)
LEMMA PlacesAppend ==
  ASSUME NEW S, NEW s \in Seq(S), NEW e, NEW x
  PROVE  Cardinality(Places(Append(s, e), x))
         = IF e = x THEN Cardinality(Places(s, x)) + 1 ELSE Cardinality(Places(s, x))
<1> DEFINE more == Append(s, e)
           last == Len(s) + 1
<1>1. /\ Len(s) \in Nat /\ DOMAIN s = 1..Len(s) /\ DOMAIN more = 1..last /\ more[last] = e
      /\ last \notin DOMAIN s /\ \A i \in 1..Len(s) : more[i] = s[i]
  <2>1. s \in Seq(S \cup {e}) /\ e \in S \cup {e}
    BY SeqMonotonic
  <2>2. QED
    BY ONLY <2>1
<1>2. DOMAIN more = DOMAIN s \cup {last}
  BY <1>1
<1> HIDE DEF more, last
<1>3. CASE e = x
  <2>1. Places(more, x) = Places(s, x) \cup {last}
    BY <1>1, <1>2, <1>3 DEF Places
  <2>2. last \notin Places(s, x)
    BY <1>1 DEF Places
  <2>3. QED
    BY <1>3, <2>1, <2>2, PlacesFinite, FS_AddElement DEF more
<1>4. CASE e # x
  <2>1. Places(more, x) = Places(s, x)
    BY <1>1, <1>2, <1>4 DEF Places
  <2>2. QED
    BY <1>4, <2>1 DEF more
<1>5. QED
  BY <1>3, <1>4

(* And none for another. *)
LEMMA PlacesOther ==
  ASSUME NEW S, NEW s \in Seq(S), NEW e, NEW x, e # x
  PROVE  Cardinality(Places(Append(s, e), x)) = Cardinality(Places(s, x))
BY PlacesAppend

(* A tail has one place less for the head only. *)
LEMMA PlacesTail ==
  ASSUME NEW S, NEW s \in Seq(S), s # <<>>, NEW x
  PROVE  Cardinality(Places(s, x))
         = IF Head(s) = x THEN Cardinality(Places(Tail(s), x)) + 1 ELSE Cardinality(Places(Tail(s), x))
<1> DEFINE t == Tail(s)
           later == {i \in Places(s, x) : i # 1}
           f == [i \in Places(t, x) |-> i + 1]
<1>1. /\ Len(s) \in Nat /\ Len(s) >= 1 /\ DOMAIN s = 1..Len(s) /\ Head(s) = s[1]
      /\ t \in Seq(S) /\ DOMAIN t = 1..Len(s) - 1 /\ \A i \in 1..Len(s) - 1 : t[i] = s[i + 1]
  OBVIOUS
<1> HIDE DEF t
<1>2. \A i \in Places(t, x) : i \in 1..Len(s) - 1 /\ s[i + 1] = x /\ i + 1 \in later
  BY <1>1 DEF Places
<1>3. \A i \in later : i - 1 \in Places(t, x) /\ i = (i - 1) + 1
  <2> TAKE i \in later
  <2>1. i \in 1..Len(s) /\ i # 1 /\ s[i] = x
    BY <1>1 DEF Places
  <2>2. i - 1 \in 1..Len(s) - 1 /\ i = (i - 1) + 1
    BY <1>1, <2>1
  <2>3. t[i - 1] = s[i]
    BY <1>1, <2>2
  <2>4. QED
    BY <1>1, <2>1, <2>2, <2>3 DEF Places
<1> HIDE DEF later
<1>4. f \in Bijection(Places(t, x), later)
  <2>1. f \in [Places(t, x) -> later]
    BY <1>2
  <2>2. \A i, j \in Places(t, x) : f[i] = f[j] => i = j
    BY <1>2
  <2>3. \A k \in later : \E i \in Places(t, x) : f[i] = k
    BY <1>3
  <2> HIDE DEF f
  <2>4. QED
    BY <2>1, <2>2, <2>3, Fun_IsBij
<1>5. IsFiniteSet(later) /\ Cardinality(later) = Cardinality(Places(t, x)) /\ Cardinality(later) \in Nat
  <2>1. IsFiniteSet(Places(t, x)) /\ Cardinality(Places(t, x)) \in Nat
    BY <1>1, PlacesFinite
  <2>2. ExistsBijection(Places(t, x), later)
    BY <1>4 DEF ExistsBijection
  <2>3. QED
    BY <2>1, <2>2, FS_Bijection
<1>6. Places(s, x) = IF Head(s) = x THEN later \cup {1} ELSE later
  BY <1>1 DEF Places, later
<1>7. 1 \notin later
  BY DEF later
<1>8. QED
  BY <1>5, <1>6, <1>7, FS_AddElement DEF t

(* The calls that name a tool, and how many a line has. *)
Named(calls, tool) == {call \in calls : call[2] = tool}
Mine(line, tool) == Cardinality(Named(Calls(line), tool))

(* The log entries made for calls are as many as the calls, of each tool.  *)
LEMMA LogEachCounts ==
  ASSUME NEW calls \in SUBSET (Nat \X Names), IsFiniteSet(calls), NEW decision, NEW tool
  PROVE  /\ Cardinality(Places(LogEach(decision, calls), Log(decision, tool)))
            = Cardinality(Named(calls, tool))
         /\ \A other : other # decision => Cardinality(Places(LogEach(decision, calls), Log(other, tool))) = 0
<1> DEFINE n == Cardinality(calls)
           s == SetToSeq(calls)
           entries == LogEach(decision, calls)
           places == {k \in 1..n : s[k][2] = tool}
           mine == Named(calls, tool)
           f == [k \in places |-> s[k]]
<1>1. n \in Nat /\ \E g \in [1..n -> calls] : IsInjective(g)
  <2>1. n \in Nat /\ ExistsBijection(1..n, calls)
    BY FS_CardinalityType
  <2>2. QED
    BY <2>1, Zenon DEF ExistsBijection, Bijection, Injection
<1>2. s \in [1..n -> calls] /\ IsInjective(s)
  BY <1>1, Zenon DEF SetToSeq
<1>3. s \in Injection(1..n, calls)
  BY <1>2 DEF Injection
<1>4. \A call \in calls : \E k \in 1..n : s[k] = call
  <2>1. Cardinality(1..n) = n
    BY <1>1, FS_Interval
  <2>2. s \in Surjection(1..n, calls)
    BY <1>3, <2>1, FS_Injection
  <2>3. QED
    BY <2>2 DEF Surjection
<1>5. entries = [k \in 1..n |-> Log(decision, s[k][2])]
  <2>1. Len(s) = n
    BY <1>1, <1>2, SeqByElements
  <2>2. QED
    BY <2>1 DEF LogEach
<1> HIDE DEF n, s, entries
<1>6. DOMAIN entries = 1..n /\ \A k \in 1..n : entries[k] = Log(decision, s[k][2])
  BY <1>5
<1>7. Places(entries, Log(decision, tool)) = places
  <2>1. \A k \in 1..n : Log(decision, s[k][2]) = Log(decision, tool) <=> s[k][2] = tool
    BY DEF Log
  <2>2. QED
    BY <1>6, <2>1 DEF Places
<1>8. f \in Bijection(places, mine)
  <2>1. f \in [places -> mine]
    BY <1>2 DEF Named
  <2>2. \A i, j \in places : f[i] = f[j] => i = j
    BY <1>2 DEF IsInjective
  <2>3. \A call \in mine : \E k \in places : f[k] = call
    BY <1>4 DEF Named
  <2> HIDE DEF f, places, mine
  <2>4. QED
    BY <2>1, <2>2, <2>3, Fun_IsBij
<1>9. Cardinality(places) = Cardinality(mine)
  <2>1. IsFiniteSet(places)
    <3>1. 1 \in Int /\ n \in Int
      BY <1>1
    <3>2. IsFiniteSet(1..n)
      BY ONLY <3>1, FS_Interval
    <3>3. QED
      BY <3>2, FS_Subset
  <2>2. ExistsBijection(places, mine)
    BY <1>8 DEF ExistsBijection
  <2>3. QED
    BY <2>1, <2>2, FS_Bijection
<1>10. ASSUME NEW other, other # decision
       PROVE  Places(entries, Log(other, tool)) = {}
  <2>1. \A k \in 1..n : entries[k] # Log(other, tool)
    BY <1>6, <1>10 DEF Log
  <2>2. QED
    BY <1>6, <2>1 DEF Places
<1>11. QED
  BY <1>7, <1>9, <1>10, FS_EmptySet DEF entries

(* The calls of a stream are finitely many. *)
LEMMA CallsInFinite ==
  ASSUME NEW stream \in Seq(ClientTexts)
  PROVE  IsFiniteSet(CallsIn(stream))
<1>1. DOMAIN stream = 1..Len(stream) /\ Len(stream) \in Nat
      /\ \A i \in 1..Len(stream) : stream[i] \in ClientLine
  BY SeqElements, TextsAreLines
<1> DEFINE f == [i \in 1..Len(stream) |-> {i} \X Calls(stream[i])]
           parts == {{i} \X Calls(stream[i]) : i \in 1..Len(stream)}
<1>2. f \in Surjection(1..Len(stream), parts)
  BY DEF Surjection
<1>3. \A i \in 1..Len(stream) : IsFiniteSet({i} \X Calls(stream[i]))
  <2> TAKE i \in 1..Len(stream)
  <2>1. IsFiniteSet({i}) /\ IsFiniteSet(Calls(stream[i]))
    BY <1>1, CallsType, FS_Singleton
  <2>2. QED
    BY <2>1, FS_Product
<1>4. CallsIn(stream) = UNION parts
  BY <1>1 DEF CallsIn
<1>5. \A part \in parts : IsFiniteSet(part)
  BY <1>3
<1> HIDE DEF f, parts
<1>6. IsFiniteSet(parts)
  <2>1. IsFiniteSet(1..Len(stream))
    BY <1>1, FS_Interval
  <2>2. QED
    BY <1>2, <2>1, FS_Surjection
<1>7. QED
  BY <1>4, <1>5, <1>6, FS_UNION

(* A line added to a stream adds its calls. *)
LEMMA CallsInAppend ==
  ASSUME NEW stream \in Seq(ClientTexts), NEW line \in ClientTexts,
         NEW more, more = Append(stream, line)
  PROVE  /\ CallCount(more) = CallCount(stream) + Cardinality(Calls(line))
         /\ \A tool : CallsOf(more, tool) = CallsOf(stream, tool) + Mine(line, tool)
<1> DEFINE last == Len(stream) + 1
<1>1. /\ Len(stream) \in Nat /\ DOMAIN stream = 1..Len(stream) /\ DOMAIN more = 1..Len(stream) + 1
      /\ more[last] = line /\ \A i \in 1..Len(stream) : more[i] = stream[i]
  OBVIOUS
<1>2. DOMAIN more = DOMAIN stream \cup {last} /\ last \notin DOMAIN stream
  BY <1>1
<1>3. \A i \in DOMAIN stream : more[i] = stream[i]
  BY <1>1
<1> HIDE DEF last
<1>4. CallsIn(more) = CallsIn(stream) \cup ({last} \X Calls(line))
  <2>1. CallsIn(more) = (UNION {{i} \X Calls(more[i]) : i \in DOMAIN stream}) \cup ({last} \X Calls(more[last]))
    BY <1>2 DEF CallsIn
  <2>2. {{i} \X Calls(more[i]) : i \in DOMAIN stream} = {{i} \X Calls(stream[i]) : i \in DOMAIN stream}
    BY <1>3
  <2>3. QED
    BY <1>1, <2>1, <2>2 DEF CallsIn
<1>5. \A call \in CallsIn(stream) : call[1] # last
  BY <1>2 DEF CallsIn
<1>6. IsFiniteSet(CallsIn(stream)) /\ IsFiniteSet(Calls(line)) /\ Calls(line) \subseteq Nat \X Names
  BY CallsInFinite, CallsType, TextsAreLines
<1>7. ASSUME NEW old \in SUBSET CallsIn(stream), NEW new \in SUBSET Calls(line)
      PROVE  Cardinality(old \cup ({last} \X new)) = Cardinality(old) + Cardinality(new)
  <2>1. IsFiniteSet(old) /\ IsFiniteSet(new) /\ IsFiniteSet({last}) /\ Cardinality({last}) = 1
    BY <1>6, FS_Subset, FS_Singleton
  <2>2. IsFiniteSet({last} \X new) /\ Cardinality({last} \X new) = 1 * Cardinality(new)
    BY <2>1, FS_Product
  <2>3. old \cap ({last} \X new) = {}
    BY <1>5
  <2>4. Cardinality(old) \in Nat /\ Cardinality(new) \in Nat
    BY <2>1, FS_CardinalityType
  <2>5. Cardinality(old \cup ({last} \X new))
        = Cardinality(old) + Cardinality({last} \X new) - Cardinality(old \cap ({last} \X new))
    BY <2>1, <2>2, FS_Union
  <2>6. Cardinality(old \cap ({last} \X new)) = 0
    BY <2>3, FS_EmptySet
  <2>7. QED
    BY <2>2, <2>4, <2>5, <2>6
<1>8. CallCount(more) = CallCount(stream) + Cardinality(Calls(line))
  BY <1>4, <1>7 DEF CallCount
<1>9. ASSUME NEW tool
      PROVE  CallsOf(more, tool) = CallsOf(stream, tool) + Mine(line, tool)
  <2> DEFINE old == {call \in CallsIn(stream) : call[2][2] = tool}
             new == Named(Calls(line), tool)
  <2>1. {call \in CallsIn(more) : call[2][2] = tool} = old \cup ({last} \X new)
    <3>1. \A call \in {last} \X Calls(line) : call[2][2] = tool <=> call \in {last} \X new
      BY DEF Named
    <3>2. {last} \X new \subseteq {last} \X Calls(line)
      BY DEF Named
    <3> HIDE DEF new
    <3>3. QED
      BY <1>4, <3>1, <3>2
  <2> HIDE DEF old, new
  <2>2. old \subseteq CallsIn(stream) /\ new \subseteq Calls(line)
    BY DEF old, new, Named
  <2>3. Cardinality(old \cup ({last} \X new)) = Cardinality(old) + Cardinality(new)
    BY <1>7, <2>2
  <2>4. QED
    BY <2>1, <2>3 DEF CallsOf, Mine, old, new
<1>10. QED
  BY <1>8, <1>9

(* One element concatenated is appended. *)
LEMMA AddOne ==
  ASSUME NEW S, NEW s \in Seq(S), NEW e
  PROVE  s \o <<e>> = Append(s, e)
<1>1. s \in Seq(S \cup {e}) /\ e \in S \cup {e}
  BY SeqMonotonic
<1>2. QED
  BY ONLY <1>1, AppendIsConcat

(* And of no other decision. *)
LEMMA LogEachNoOther ==
  ASSUME NEW calls \in SUBSET (Nat \X Names), IsFiniteSet(calls), NEW decision, NEW tool,
         NEW other, other # decision
  PROVE  Cardinality(Places(LogEach(decision, calls), Log(other, tool))) = 0
BY LogEachCounts

(* What is logged of a client line: its calls, with the decision made. *)
LEMMA ClientLineLogs ==
  ASSUME NEW line \in ClientTexts, NEW tool
  PROVE  /\ Cardinality(Places(ClientEffects(line), Log("allowed", tool)))
            = IF Passes(line) THEN Mine(line, tool) ELSE 0
         /\ Cardinality(Places(ClientEffects(line), Log("refused", tool)))
            = IF Passes(line) THEN 0 ELSE Mine(line, tool)
<1>1. Calls(line) \in SUBSET (Nat \X Names) /\ IsFiniteSet(Calls(line))
  BY CallsType, TextsAreLines
<1>2. \A d \in {"allowed", "refused"} : LogEach(d, Calls(line)) \in Seq(LogEffects)
  BY <1>1, LogEachType
<1>3. /\ \A d : Forward(line) # Log(d, tool) /\ Refuse(line) # Log(d, tool)
      /\ Log("refused batch", NoName) # Log("refused", tool)
      /\ Log("refused batch", NoName) # Log("allowed", tool)
  <2>1. \A d : Forward(line).sink # Log(d, tool).sink /\ Refuse(line).sink # Log(d, tool).sink
    BY DEF Forward, Refuse, Log
  <2>2. \A d : d # "refused batch" => Log("refused batch", NoName).decision # Log(d, tool).decision
    BY DEF Log
  <2>3. QED
    BY <2>1, <2>2
<1>4. CASE Passes(line)
  <2> DEFINE logged == LogEach("allowed", Calls(line))
  <2>1. ClientEffects(line) = logged \o <<Forward(line)>>
    BY <1>4 DEF ClientEffects
  <2>2. /\ Cardinality(Places(logged, Log("allowed", tool))) = Mine(line, tool)
        /\ Cardinality(Places(logged, Log("refused", tool))) = 0
    <3>1. Cardinality(Places(logged, Log("allowed", tool))) = Mine(line, tool)
      BY <1>1, LogEachCounts DEF Mine
    <3>2. Cardinality(Places(logged, Log("refused", tool))) = 0
      BY <1>1, "allowed" # "refused", LogEachNoOther
    <3>3. QED
      BY <3>1, <3>2
  <2>3. logged \in Seq(LogEffects)
    BY <1>2
  <2> HIDE DEF logged
  <2>4. ClientEffects(line) = Append(logged, Forward(line))
    BY <2>1, <2>3, AddOne
  <2>5. \A d : Cardinality(Places(ClientEffects(line), Log(d, tool))) = Cardinality(Places(logged, Log(d, tool)))
    <3> TAKE d
    <3>1. Forward(line) # Log(d, tool)
      BY <1>3
    <3>2. QED
      BY <2>3, <2>4, <3>1, PlacesOther
  <2>6. QED
    BY <1>4, <2>2, <2>5
<1>5. CASE ~Passes(line)
  <2> DEFINE logged == LogEach("refused", Calls(line))
             whole == Log("refused batch", NoName)
             all == IF line.kind = "batch" THEN logged \o <<whole>> ELSE logged \o <<>>
  <2>1. ClientEffects(line) = all \o <<Refuse(line)>>
    <3>1. ClientEffects(line)
          = logged \o (IF line.kind = "batch" THEN <<whole>> ELSE <<>>) \o <<Refuse(line)>>
      BY <1>5 DEF ClientEffects
    <3> HIDE DEF logged, whole
    <3>2. QED
      BY <3>1
  <2>2. /\ Cardinality(Places(logged, Log("refused", tool))) = Mine(line, tool)
        /\ Cardinality(Places(logged, Log("allowed", tool))) = 0
    <3>1. Cardinality(Places(logged, Log("refused", tool))) = Mine(line, tool)
      BY <1>1, LogEachCounts DEF Mine
    <3>2. Cardinality(Places(logged, Log("allowed", tool))) = 0
      BY <1>1, "refused" # "allowed", LogEachNoOther
    <3>3. QED
      BY <3>1, <3>2
  <2>3. logged \in Seq(LogEffects)
    BY <1>2
  <2>4. whole \in LogEffects
    BY DEF Log, LogEffects, Names
  <2>5. whole # Log("refused", tool) /\ whole # Log("allowed", tool)
    BY <1>3
  <2> HIDE DEF logged, whole
  <2>6. all = (IF line.kind = "batch" THEN Append(logged, whole) ELSE logged) /\ all \in Seq(LogEffects)
    <3>1. logged \o <<whole>> = Append(logged, whole) /\ Append(logged, whole) \in Seq(LogEffects)
      BY <2>3, <2>4, AddOne, AppendSafe
    <3>2. logged \o <<>> = logged
      BY <2>3, ConcatEmptySeq
    <3>3. QED
      BY <2>3, <3>1, <3>2
  <2>7. \A d \in {"allowed", "refused"} :
            Cardinality(Places(all, Log(d, tool))) = Cardinality(Places(logged, Log(d, tool)))
    BY <2>3, <2>5, <2>6, PlacesOther
  <2> HIDE DEF all
  <2>8. ClientEffects(line) = Append(all, Refuse(line))
    BY <2>1, <2>6, AddOne
  <2>9. \A d : Cardinality(Places(ClientEffects(line), Log(d, tool))) = Cardinality(Places(all, Log(d, tool)))
    <3> TAKE d
    <3>1. Refuse(line) # Log(d, tool)
      BY <1>3
    <3>2. all \in Seq(LogEffects)
      BY <2>6
    <3>3. QED
      BY <2>8, <3>1, <3>2, PlacesOther
  <2>10. QED
    BY <1>5, <2>2, <2>7, <2>9
<1>6. QED
  BY <1>4, <1>5

(* What is logged of a server line is neither. *)
LEMMA ServerLineLogs ==
  ASSUME NEW line \in ServerTexts, NEW tool, NEW decision, decision # "removed"
  PROVE  Cardinality(Places(ServerEffects(line), Log(decision, tool))) = 0
<1> DEFINE logged == LogEach("removed", RemovedTools(line))
<1>1. RemovedTools(line) \in SUBSET (Nat \X Names) /\ IsFiniteSet(RemovedTools(line))
  BY RemovedType, TextsAreLines
<1>2. logged \in Seq(LogEffects) /\ Cardinality(Places(logged, Log(decision, tool))) = 0
  <2>1. logged \in Seq(LogEffects)
    BY <1>1, LogEachType
  <2>2. Cardinality(Places(logged, Log(decision, tool))) = 0
    BY <1>1, LogEachNoOther
  <2>3. QED
    BY <2>1, <2>2
<1>3. PassOn(Filtered(line)) # Log(decision, tool)
  <2>1. PassOn(Filtered(line)).sink # Log(decision, tool).sink
    BY DEF PassOn, Log
  <2>2. QED
    BY <2>1
<1>4. ServerEffects(line) = logged \o <<PassOn(Filtered(line))>>
  BY DEF ServerEffects
<1> HIDE DEF logged
<1>5. ServerEffects(line) = Append(logged, PassOn(Filtered(line)))
  BY <1>2, <1>4, AddOne
<1>6. QED
  BY <1>2, <1>3, <1>5, PlacesOther

--------------------------------------------------------------------------------
(* The books are kept: with what of the line in hand is still to be logged, *)
(* the log has the calls of the lines decided and of the line in hand.      *)
Due(decision, tool) == Cardinality(Places(todo, Log(decision, tool)))
InLine(sink, tool) == IF InHand = sink THEN Mine(Decision.request, tool) ELSE 0
Balanced(decision, sink, stream, tool) ==
    /\ Logged(decision, tool) + Due(decision, tool) = CallsOf(stream, tool) + InLine(sink, tool)
    /\ Due(decision, tool) <= InLine(sink, tool)
Counted(sink, stream) ==
    CallCount(stream) + (IF InHand = sink THEN Cardinality(Calls(Decision.request)) ELSE 0)
BookKept ==
    /\ Refusals \in Seq(ClientTexts)
    /\ \A tool \in Names : /\ Balanced("allowed", "server", toServer, tool)
                           /\ Balanced("refused", "refusal", Refusals, tool)
    /\ stats.allowed = Counted("server", toServer)
    /\ stats.refused = Counted("refusal", Refusals)
KInv == RInv /\ BookKept

(* What a line calls of a tool is a number. *)
LEMMA MineType ==
  ASSUME NEW line \in ClientTexts, NEW tool
  PROVE  Mine(line, tool) \in Nat /\ Cardinality(Calls(line)) \in Nat
<1>1. IsFiniteSet(Calls(line)) /\ Named(Calls(line), tool) \subseteq Calls(line)
  BY CallsType, TextsAreLines DEF Named
<1>2. IsFiniteSet(Named(Calls(line), tool))
  BY <1>1, FS_Subset
<1>3. QED
  BY <1>1, <1>2, FS_CardinalityType DEF Mine

(* So is what a stream does. *)
LEMMA CallsOfType ==
  ASSUME NEW stream \in Seq(ClientTexts), NEW tool
  PROVE  CallsOf(stream, tool) \in Nat /\ CallCount(stream) \in Nat
<1> DEFINE mine == {call \in CallsIn(stream) : call[2][2] = tool}
<1>1. IsFiniteSet(CallsIn(stream)) /\ mine \subseteq CallsIn(stream)
  BY CallsInFinite
<1> HIDE DEF mine
<1>2. IsFiniteSet(mine)
  BY <1>1, FS_Subset
<1>3. Cardinality(mine) \in Nat /\ Cardinality(CallsIn(stream)) \in Nat
  BY <1>1, <1>2, FS_CardinalityType
<1>4. QED
  BY <1>3 DEF CallsOf, CallCount, mine

(* The line in hand is one of the client's. *)
LEMMA LineInHand ==
  ASSUME IInv, InHand \in OfClient
  PROVE  Decision.request \in ClientTexts
<1>1. todo # <<>> /\ Decision.sink \in OfClient
  BY DEF InHand, OfClient, Decision
<1>2. todo \in Seq(Effects)
  BY DEF IInv, TypeOK
<1>3. todo[Len(todo)] \in Effects
  BY ONLY <1>1, <1>2
<1>4. QED
  BY <1>1, <1>3 DEF Decision, Effects, OfClient

(* The books are numbers. *)
LEMMA BookTypes ==
  ASSUME IInv, NEW tool, NEW decision, NEW sink \in OfClient
  PROVE  /\ Logged(decision, tool) \in Nat /\ Due(decision, tool) \in Nat /\ InLine(sink, tool) \in Nat
         /\ Logged(decision, tool) = Cardinality(Places(callLog, [decision |-> decision, tool |-> tool]))
<1>1. callLog \in Seq(LogEntries) /\ todo \in Seq(Effects)
  BY DEF IInv, TypeOK, LogEntries, Names
<1>2. Due(decision, tool) \in Nat
  BY <1>1, PlacesFinite DEF Due
<1>3. Logged(decision, tool) = Cardinality(Places(callLog, [decision |-> decision, tool |-> tool]))
  BY DEF Logged, Places
<1>4. Logged(decision, tool) \in Nat
  BY <1>1, <1>3, PlacesFinite
<1>5. InLine(sink, tool) \in Nat
  BY LineInHand, MineType DEF InLine
<1>6. QED
  BY <1>2, <1>3, <1>4, <1>5

(* The books are kept when the gateway starts. *)
LEMMA InitBooks == Init => BookKept
<1> SUFFICES ASSUME Init PROVE BookKept
  OBVIOUS
<1>1. todo = <<>> /\ toServer = <<>> /\ toClient = <<>> /\ callLog = <<>>
      /\ stats.allowed = 0 /\ stats.refused = 0
  BY DEF Init
<1>2. Answers = <<>>
  BY <1>1, SelectNone DEF Answers
<1>3. Refusals = <<>> /\ <<>> \in Seq(ClientTexts)
  BY <1>2, EmptySeq DEF Refusals
<1>4. \A x : Places(<<>>, x) = {} /\ CallsIn(<<>>) = {}
  BY DEF Places, CallsIn
<1>5. \A d, t : Logged(d, t) = 0 /\ Due(d, t) = 0 /\ CallsOf(<<>>, t) = 0 /\ CallCount(<<>>) = 0
  <2> TAKE d, t
  <2>1. Logged(d, t) = 0
    BY <1>1, FS_EmptySet DEF Logged
  <2>2. Due(d, t) = 0
    BY <1>1, <1>4, FS_EmptySet DEF Due
  <2>3. CallCount(<<>>) = 0
    BY <1>4, FS_EmptySet DEF CallCount
  <2>4. {call \in CallsIn(<<>>) : call[2][2] = t} = {}
    BY <1>4
  <2>5. CallsOf(<<>>, t) = 0
    BY <2>4, FS_EmptySet DEF CallsOf
  <2>6. QED
    BY <2>1, <2>2, <2>3, <2>5
<1>6. InHand = "none"
  BY <1>1 DEF InHand
<1>7. QED
  BY <1>1, <1>3, <1>5, <1>6 DEF BookKept, Balanced, InLine, Counted

(* Steps that touch neither the books nor the line in hand. *)
LEMMA SameBooks ==
  ASSUME KInv, UNCHANGED <<todo, callLog, stats, toServer, toClient>>
  PROVE  BookKept'
<1>1. Refusals' = Refusals /\ InHand' = InHand /\ Decision' = Decision
  BY SameOutput, SameHand
<1>2. \A d, t : Logged(d, t)' = Logged(d, t) /\ Due(d, t)' = Due(d, t)
  BY DEF Logged, Due
<1>3. QED
  BY <1>1, <1>2 DEF KInv, BookKept, Balanced, InLine, Counted

(* The exit line is no decision. *)
LEMMA OnChildExitBooks ==
  ASSUME KInv, OnChildExit
  PROVE  BookKept'
<1>1. UNCHANGED <<todo, stats, toServer, toClient>>
  BY DEF OnChildExit
<1>2. Refusals' = Refusals /\ InHand' = InHand /\ Decision' = Decision
  BY <1>1, SameOutput, SameHand
<1>3. \A d, t : Due(d, t)' = Due(d, t)
  BY <1>1 DEF Due
<1>4. ASSUME NEW d \in {"allowed", "refused"}, NEW t
      PROVE  Logged(d, t)' = Logged(d, t)
  <2> DEFINE exit == [decision |-> "exit", tool |-> NoName]
             entry == [decision |-> d, tool |-> t]
  <2>1. callLog' = Append(callLog, exit) \/ callLog' = callLog
    BY DEF OnChildExit
  <2>2. exit.decision # entry.decision
    OBVIOUS
  <2>3. callLog \in Seq(LogEntries)
    BY DEF KInv, RInv, IInv, TypeOK, LogEntries, Names
  <2>4. Logged(d, t) = Cardinality(Places(callLog, entry)) /\ Logged(d, t)' = Cardinality(Places(callLog', entry))
    BY DEF Logged, Places
  <2> HIDE DEF exit, entry
  <2>5. exit # entry
    BY <2>2
  <2>6. Cardinality(Places(Append(callLog, exit), entry)) = Cardinality(Places(callLog, entry))
    BY <2>3, <2>5, PlacesOther
  <2>7. QED
    BY <2>1, <2>4, <2>6
<1>5. QED
  BY <1>1, <1>2, <1>3, <1>4 DEF KInv, BookKept, Balanced, InLine, Counted

(* A client line taken in hand is counted, and due to be logged. *)
LEMMA HandleClientLineBooks ==
  ASSUME KInv, HandleClientLine
  PROVE  BookKept'
<1>1. /\ todo = <<>> /\ HasLine(clientBuffer) /\ todo' = ClientEffects(FirstLine(clientBuffer, ClientGarbled))
      /\ UNCHANGED <<toServer, toClient, callLog>>
  BY DEF HandleClientLine, streams
<1>2. PICK line \in ClientTexts : line = FirstLine(clientBuffer, ClientGarbled)
  BY <1>1, PipesAreTexts, FirstLineIsWhole DEF KInv, RInv, IInv, TypeOK
<1>3. Refusals' = Refusals
  BY <1>1, SameOutput
<1>4. todo' # <<>> /\ Decision' = IF Passes(line) THEN Forward(line) ELSE Refuse(line)
  BY <1>1, <1>2, ClientDecision DEF Decision
<1>5. InHand' = (IF Passes(line) THEN "server" ELSE "refusal") /\ Decision'.request = line
  BY <1>4 DEF InHand, Decision, Forward, Refuse
<1>6. ASSUME NEW tool \in Names
      PROVE  Balanced("allowed", "server", toServer, tool)' /\ Balanced("refused", "refusal", Refusals, tool)'
  <2>1. /\ Due("allowed", tool)' = (IF Passes(line) THEN Mine(line, tool) ELSE 0)
        /\ Due("refused", tool)' = (IF Passes(line) THEN 0 ELSE Mine(line, tool))
    BY <1>1, <1>2, ClientLineLogs DEF Due
  <2>2. /\ InLine("server", tool)' = (IF Passes(line) THEN Mine(line, tool) ELSE 0)
        /\ InLine("refusal", tool)' = (IF Passes(line) THEN 0 ELSE Mine(line, tool))
    BY <1>5 DEF InLine
  <2>3. Mine(line, tool) \in Nat
    BY MineType
  <2>4. Logged("allowed", tool)' = Logged("allowed", tool) /\ Logged("refused", tool)' = Logged("refused", tool)
    BY <1>1 DEF Logged
  <2>5. /\ Due("allowed", tool) = 0 /\ Due("refused", tool) = 0
        /\ InLine("server", tool) = 0 /\ InLine("refusal", tool) = 0
    <3>1. \A x : Places(<<>>, x) = {}
      BY DEF Places
    <3>2. QED
      BY <1>1, <3>1, FS_EmptySet DEF Due, InLine, InHand
  <2>6. /\ CallsOf(toServer, tool) \in Nat /\ CallsOf(Refusals, tool) \in Nat
        /\ Logged("allowed", tool) \in Nat /\ Logged("refused", tool) \in Nat
    BY BookTypes, CallsOfType DEF KInv, RInv, IInv, TypeOK, BookKept, OfClient
  <2>7. Logged("allowed", tool) = CallsOf(toServer, tool) /\ Logged("refused", tool) = CallsOf(Refusals, tool)
    BY <2>5, <2>6 DEF KInv, BookKept, Balanced
  <2>8. QED
    BY <1>1, <1>3, <2>1, <2>2, <2>3, <2>4, <2>6, <2>7 DEF Balanced
<1>7. stats.allowed' = Counted("server", toServer)' /\ stats.refused' = Counted("refusal", Refusals)'
  <2> DEFINE n == Cardinality(Calls(line))
  <2>1. stats \in [allowed : Nat, refused : Nat, toolsRemoved : Nat]
        /\ stats' = IF Passes(line) THEN [stats EXCEPT !.allowed = @ + n] ELSE [stats EXCEPT !.refused = @ + n]
    BY <1>2 DEF HandleClientLine, KInv, RInv, IInv, TypeOK
  <2>2. /\ Counted("server", toServer)' = CallCount(toServer) + (IF Passes(line) THEN n ELSE 0)
        /\ Counted("refusal", Refusals)' = CallCount(Refusals) + (IF Passes(line) THEN 0 ELSE n)
    BY <1>1, <1>3, <1>5 DEF Counted
  <2>3. n \in Nat
    BY MineType
  <2>4. CallCount(toServer) \in Nat /\ CallCount(Refusals) \in Nat
    BY CallsOfType DEF KInv, RInv, IInv, TypeOK, BookKept
  <2>5. InHand = "none"
    BY <1>1 DEF InHand
  <2>6. stats.allowed = CallCount(toServer) /\ stats.refused = CallCount(Refusals)
    BY <2>4, <2>5 DEF KInv, BookKept, Counted
  <2> HIDE DEF n
  <2>7. /\ stats'.allowed = stats.allowed + (IF Passes(line) THEN n ELSE 0)
        /\ stats'.refused = stats.refused + (IF Passes(line) THEN 0 ELSE n)
    BY <2>1, <2>3
  <2>8. QED
    BY <2>2, <2>6, <2>7
<1>8. QED
  BY <1>3, <1>6, <1>7 DEF KInv, BookKept

(* A server line is no decision about a call. *)
LEMMA HandleServerLineBooks ==
  ASSUME KInv, HandleServerLine
  PROVE  BookKept'
<1>1. /\ todo = <<>> /\ HasLine(serverBuffer) /\ todo' = ServerEffects(FirstLine(serverBuffer, ServerGarbled))
      /\ UNCHANGED <<toServer, toClient, callLog>>
  BY DEF HandleServerLine, streams
<1>2. PICK line \in ServerTexts : line = FirstLine(serverBuffer, ServerGarbled)
  BY <1>1, PipesAreTexts, FirstLineIsWhole DEF KInv, RInv, IInv, TypeOK
<1>3. Refusals' = Refusals
  BY <1>1, SameOutput
<1>4. InHand = "none" /\ InHand' = "client"
  <2>1. todo' # <<>> /\ Decision' = PassOn(Filtered(line))
    BY <1>1, <1>2, ServerDecision DEF Decision
  <2>2. QED
    BY <1>1, <2>1 DEF InHand, Decision, PassOn
<1>5. ASSUME NEW tool \in Names, NEW d \in {"allowed", "refused"}
      PROVE  Logged(d, tool)' = Logged(d, tool) /\ Due(d, tool)' = Due(d, tool)
  <2>1. Logged(d, tool)' = Logged(d, tool)
    BY <1>1 DEF Logged
  <2>2. Places(<<>>, Log(d, tool)) = {}
    BY DEF Places
  <2>3. Due(d, tool) = 0
    BY <1>1, <2>2, FS_EmptySet DEF Due
  <2>4. Due(d, tool)' = 0
    <3>1. d # "removed"
      OBVIOUS
    <3>2. QED
      BY <1>1, <1>2, <3>1, ServerLineLogs DEF Due
  <2>5. QED
    BY <2>1, <2>3, <2>4
<1>6. stats'.allowed = stats.allowed /\ stats'.refused = stats.refused
  BY DEF HandleServerLine, KInv, RInv, IInv, TypeOK
<1>7. QED
  BY <1>1, <1>3, <1>4, <1>5, <1>6 DEF KInv, BookKept, Balanced, InLine, Counted

(* A log entry made is one less to make. *)
LEMMA LogEffectBooks ==
  ASSUME KInv, Effect, Head(todo).sink = "log", ~LogFails
  PROVE  BookKept'
<1>1. /\ todo # <<>> /\ todo' = Tail(todo) /\ stats' = stats
      /\ callLog' = Append(callLog, [decision |-> Head(todo).decision, tool |-> Head(todo).tool])
  BY DEF Effect, AppendLog
<1>2. UNCHANGED <<toServer, toClient>> /\ InHand' = InHand /\ Decision' = Decision
  BY LogEffectOrder DEF KInv
<1>3. Refusals' = Refusals
  BY <1>2, SameOutput
<1>4. todo \in Seq(Effects) /\ callLog \in Seq(LogEntries)
  BY DEF KInv, RInv, IInv, TypeOK, LogEntries, Names
<1>5. PICK d0, t0 : Head(todo) = Log(d0, t0) /\ callLog' = Append(callLog, [decision |-> d0, tool |-> t0])
  <2>1. Head(todo) \in Effects
    BY ONLY <1>1, <1>4
  <2>2. Head(todo) \in LogEffects
    BY <2>1 DEF Effects, LogEffects, Names
  <2>3. Head(todo) = Log(Head(todo).decision, Head(todo).tool)
    BY <2>2 DEF LogEffects, Log
  <2>4. QED
    BY <1>1, <2>3
<1>6. ASSUME NEW tool \in Names, NEW d
      PROVE  /\ Logged(d, tool)' + Due(d, tool)' = Logged(d, tool) + Due(d, tool)
             /\ Due(d, tool)' <= Due(d, tool)
             /\ Due(d, tool)' \in Nat /\ Due(d, tool) \in Nat
  <2> DEFINE made == [decision |-> d0, tool |-> t0]
             entry == [decision |-> d, tool |-> tool]
  <2>1. Logged(d, tool) = Cardinality(Places(callLog, entry)) /\ Logged(d, tool)' = Cardinality(Places(callLog', entry))
    BY DEF Logged, Places
  <2>2. Log(d0, t0) = Log(d, tool) <=> made = entry
    <3>1. \A a, b : Log(a, b).decision = a /\ Log(a, b).tool = b
      BY DEF Log
    <3>2. made.decision = d0 /\ made.tool = t0 /\ entry.decision = d /\ entry.tool = tool
      OBVIOUS
    <3>3. QED
      BY <3>1, <3>2
  <2> HIDE DEF made, entry
  <2>3. Cardinality(Places(callLog', entry))
        = IF made = entry THEN Cardinality(Places(callLog, entry)) + 1 ELSE Cardinality(Places(callLog, entry))
    BY <1>4, <1>5, PlacesAppend DEF made
  <2>4. Cardinality(Places(todo, Log(d, tool)))
        = IF Head(todo) = Log(d, tool) THEN Cardinality(Places(Tail(todo), Log(d, tool))) + 1
                                       ELSE Cardinality(Places(Tail(todo), Log(d, tool)))
    BY <1>1, <1>4, PlacesTail
  <2>5. Due(d, tool) = IF made = entry THEN Due(d, tool)' + 1 ELSE Due(d, tool)'
    BY <1>1, <1>5, <2>2, <2>4 DEF Due
  <2>6. Due(d, tool)' \in Nat /\ Logged(d, tool) \in Nat
    <3>1. todo' \in Seq(Effects)
      BY ONLY <1>1, <1>4
    <3>2. QED
      BY <1>4, <2>1, <3>1, PlacesFinite DEF Due
  <2>7. QED
    BY <2>1, <2>3, <2>5, <2>6
<1>7. ASSUME NEW tool \in Names, NEW d, NEW sink \in OfClient, NEW stream, Balanced(d, sink, stream, tool)
      PROVE  /\ Logged(d, tool)' + Due(d, tool)' = CallsOf(stream, tool) + InLine(sink, tool)'
             /\ Due(d, tool)' <= InLine(sink, tool)'
  <2>1. InLine(sink, tool)' = InLine(sink, tool) /\ InLine(sink, tool) \in Nat
    BY <1>2, BookTypes DEF InLine, KInv, RInv
  <2>2. QED
    BY <1>6, <1>7, <2>1 DEF Balanced
<1>8. ASSUME NEW tool \in Names
      PROVE  Balanced("allowed", "server", toServer, tool)' /\ Balanced("refused", "refusal", Refusals, tool)'
  <2>1. Balanced("allowed", "server", toServer, tool) /\ Balanced("refused", "refusal", Refusals, tool)
    BY DEF KInv, BookKept
  <2>2. toServer' = toServer /\ Refusals' = Refusals /\ "server" \in OfClient /\ "refusal" \in OfClient
    BY <1>2, <1>3 DEF OfClient
  <2>3. QED
    BY <1>7, <2>1, <2>2 DEF Balanced
<1>9. QED
  BY <1>1, <1>2, <1>3, <1>8 DEF KInv, BookKept, Counted

(* When the decision is carried out, everything due has been logged. *)
LEMMA NothingDue ==
  ASSUME KInv, Effect, Head(todo).sink # "log"
  PROVE  /\ InHand = Head(todo).sink /\ Decision = Head(todo) /\ InHand' = "none"
         /\ callLog' = callLog /\ stats' = stats
         /\ \A d, t : Due(d, t) = 0 /\ Due(d, t)' = 0 /\ Logged(d, t)' = Logged(d, t)
<1>1. InHand = Head(todo).sink /\ Decision = Head(todo) /\ todo' = <<>>
  BY LastEffect DEF KInv
<1>2. InHand' = "none"
  BY <1>1 DEF InHand
<1>3. callLog' = callLog /\ stats' = stats /\ todo # <<>> /\ todo' = Tail(todo)
  BY Sinks DEF Effect, KInv
<1>4. todo \in Seq(Effects)
  BY DEF KInv, RInv, IInv, TypeOK
<1>5. ASSUME NEW d, NEW t
      PROVE  Due(d, t) = 0 /\ Due(d, t)' = 0 /\ Logged(d, t)' = Logged(d, t)
  <2>1. Head(todo) # Log(d, t)
    BY DEF Log
  <2>2. Due(d, t) = Due(d, t)'
    BY <1>3, <1>4, <2>1, PlacesTail DEF Due
  <2>3. Places(<<>>, Log(d, t)) = {}
    BY DEF Places
  <2>4. Due(d, t)' = 0
    BY <1>1, <2>3, FS_EmptySet DEF Due
  <2>5. QED
    BY <1>3, <2>2, <2>4 DEF Logged
<1>6. QED
  BY <1>1, <1>2, <1>3, <1>5

(* A line that reaches the server was logged before. *)
LEMMA ServerEffectBooks ==
  ASSUME KInv, Effect, Head(todo).sink = "server"
  PROVE  BookKept'
<1>1. toServer' = Append(toServer, Decision.request) /\ Refusals' = Refusals
  <2>1. toServer' = Append(toServer, Head(todo).request)
    BY DEF Effect
  <2>2. Refusals' = Refusals
    BY ServerEffectOrder DEF KInv
  <2>3. QED
    BY <2>1, <2>2, NothingDue
<1>2. /\ InHand = "server" /\ InHand' = "none" /\ stats' = stats
      /\ \A d, t : Due(d, t) = 0 /\ Due(d, t)' = 0 /\ Logged(d, t)' = Logged(d, t)
  BY NothingDue
<1>3. Decision.request \in ClientTexts /\ toServer \in Seq(ClientTexts)
  <2>1. IInv /\ TypeOK
    BY Zenon DEF KInv, RInv, IInv
  <2>2. InHand \in OfClient
    BY <1>2, Zenon DEF OfClient
  <2>3. Decision.request \in ClientTexts
    BY <2>1, <2>2, LineInHand, Zenon
  <2>4. toServer \in Seq(ClientTexts)
    BY <2>1, Zenon DEF TypeOK
  <2>5. QED
    BY <2>3, <2>4, Zenon
<1>4. /\ CallCount(toServer') = CallCount(toServer) + Cardinality(Calls(Decision.request))
      /\ \A t : CallsOf(toServer', t) = CallsOf(toServer, t) + Mine(Decision.request, t)
  BY ONLY <1>1, <1>3, CallsInAppend, ZenonT(40)
<1>5. ASSUME NEW tool \in Names
      PROVE  Balanced("allowed", "server", toServer, tool)' /\ Balanced("refused", "refusal", Refusals, tool)'
  <2>1. Balanced("allowed", "server", toServer, tool) /\ Balanced("refused", "refusal", Refusals, tool)
    BY DEF KInv, BookKept
  <2>2. /\ InLine("server", tool) = Mine(Decision.request, tool) /\ InLine("server", tool)' = 0
        /\ InLine("refusal", tool) = 0 /\ InLine("refusal", tool)' = 0
    BY <1>2 DEF InLine
  <2>3. CallsOf(toServer', tool) = CallsOf(toServer, tool) + Mine(Decision.request, tool)
    BY <1>4
  <2>4. CallsOf(toServer, tool) \in Nat /\ Mine(Decision.request, tool) \in Nat
    BY <1>3, CallsOfType, MineType
  <2>5. Balanced("allowed", "server", toServer, tool)'
    BY <1>2, <2>1, <2>2, <2>3, <2>4 DEF Balanced
  <2>6. Balanced("refused", "refusal", Refusals, tool)'
    BY <1>1, <1>2, <2>1, <2>2 DEF Balanced
  <2>7. QED
    BY <2>5, <2>6
<1>6. stats.allowed' = Counted("server", toServer)' /\ stats.refused' = Counted("refusal", Refusals)'
  <2>1. stats.allowed = Counted("server", toServer) /\ stats.refused = Counted("refusal", Refusals)
    BY DEF KInv, BookKept
  <2>2. CallCount(toServer) \in Nat /\ Cardinality(Calls(Decision.request)) \in Nat
    BY <1>3, CallsOfType, MineType
  <2>3. QED
    BY <1>1, <1>2, <1>4, <2>1, <2>2 DEF Counted
<1>7. QED
  BY <1>1, <1>5, <1>6 DEF KInv, BookKept

(* So was a line that is answered with a refusal. *)
LEMMA RefusalEffectBooks ==
  ASSUME KInv, Effect, Head(todo).sink = "refusal"
  PROVE  BookKept'
<1>1. Refusals' = Append(Refusals, Decision.request) /\ toServer' = toServer
  <2>1. Refusals' = Append(Refusals, Head(todo).request) /\ toServer' = toServer
    BY RefusalEffectOrder DEF KInv
  <2>2. RInv
    BY DEF KInv
  <2>3. Decision = Head(todo)
    BY <2>2, LastEffect
  <2>4. QED
    BY <2>1, <2>3
<1>2. /\ InHand = "refusal" /\ InHand' = "none" /\ stats' = stats
      /\ \A d, t : Due(d, t) = 0 /\ Due(d, t)' = 0 /\ Logged(d, t)' = Logged(d, t)
  BY NothingDue
<1>3. Decision.request \in ClientTexts /\ Refusals \in Seq(ClientTexts)
  <2>1. IInv /\ BookKept
    BY Zenon DEF KInv, RInv
  <2>2. InHand \in OfClient
    BY <1>2, Zenon DEF OfClient
  <2>3. Decision.request \in ClientTexts
    BY <2>1, <2>2, LineInHand, Zenon
  <2>4. Refusals \in Seq(ClientTexts)
    BY <2>1, Zenon DEF BookKept
  <2>5. QED
    BY <2>3, <2>4, Zenon
<1>4. /\ CallCount(Refusals') = CallCount(Refusals) + Cardinality(Calls(Decision.request))
      /\ \A t : CallsOf(Refusals', t) = CallsOf(Refusals, t) + Mine(Decision.request, t)
  BY ONLY <1>1, <1>3, CallsInAppend, ZenonT(40)
<1>5. ASSUME NEW tool \in Names
      PROVE  Balanced("allowed", "server", toServer, tool)' /\ Balanced("refused", "refusal", Refusals, tool)'
  <2>1. Balanced("allowed", "server", toServer, tool) /\ Balanced("refused", "refusal", Refusals, tool)
    BY DEF KInv, BookKept
  <2>2. /\ InLine("refusal", tool) = Mine(Decision.request, tool) /\ InLine("refusal", tool)' = 0
        /\ InLine("server", tool) = 0 /\ InLine("server", tool)' = 0
    BY <1>2 DEF InLine
  <2>3. CallsOf(Refusals', tool) = CallsOf(Refusals, tool) + Mine(Decision.request, tool)
    BY <1>4
  <2>4. CallsOf(Refusals, tool) \in Nat /\ Mine(Decision.request, tool) \in Nat
    BY <1>3, CallsOfType, MineType
  <2>5. Balanced("refused", "refusal", Refusals, tool)'
    BY <1>2, <2>1, <2>2, <2>3, <2>4 DEF Balanced
  <2>6. Balanced("allowed", "server", toServer, tool)'
    BY <1>1, <1>2, <2>1, <2>2 DEF Balanced
  <2>7. QED
    BY <2>5, <2>6
<1>6. stats.allowed' = Counted("server", toServer)' /\ stats.refused' = Counted("refusal", Refusals)'
  <2>1. stats.allowed = Counted("server", toServer) /\ stats.refused = Counted("refusal", Refusals)
    BY DEF KInv, BookKept
  <2>2. CallCount(Refusals) \in Nat /\ Cardinality(Calls(Decision.request)) \in Nat
    BY <1>3, CallsOfType, MineType
  <2>3. QED
    BY <1>1, <1>2, <1>4, <2>1, <2>2 DEF Counted
<1>7. Refusals' \in Seq(ClientTexts)
  BY <1>1, <1>3, AppendSafe
<1>8. QED
  BY <1>5, <1>6, <1>7 DEF BookKept

(* What the server wrote is no decision either. *)
LEMMA ClientEffectBooks ==
  ASSUME KInv, Effect, Head(todo).sink = "client"
  PROVE  BookKept'
<1>1. Refusals' = Refusals /\ toServer' = toServer
  BY ClientEffectOrder DEF KInv
<1>2. /\ InHand = "client" /\ InHand' = "none" /\ stats' = stats
      /\ \A d, t : Due(d, t)' = Due(d, t) /\ Logged(d, t)' = Logged(d, t)
  BY NothingDue
<1>3. QED
  BY <1>1, <1>2 DEF KInv, BookKept, Balanced, InLine, Counted

(* The books are kept by every step. *)
LEMMA NextKInv == KInv /\ [Next]_vars /\ ~LogFails => KInv'
<1> SUFFICES ASSUME KInv, [Next]_vars, ~LogFails PROVE BookKept'
  BY NextRInv DEF KInv
<1>1. CASE HandleClientLine
  BY <1>1, HandleClientLineBooks
<1>2. CASE HandleServerLine
  BY <1>2, HandleServerLineBooks
<1>3. CASE Effect
  <2>1. Head(todo).sink \in {"log", "server", "refusal", "client"}
    BY <1>3, Sinks DEF KInv
  <2>2. QED
    BY <1>3, <2>1, LogEffectBooks, ServerEffectBooks, RefusalEffectBooks, ClientEffectBooks
<1>4. CASE OnChildExit
  BY <1>4, OnChildExitBooks
<1>5. CASE \/ \E line \in ClientLines : ClientWrite(line)
           \/ \E line \in ServerLines : ServerWrite(line)
           \/ \E n \in 1..Len(clientPipe) : ClientData(n)
           \/ \E n \in 1..Len(serverPipe) : ServerData(n)
           \/ ServerExit \/ Killed \/ UNCHANGED vars
  <2>1. UNCHANGED <<todo, callLog, stats, toServer, toClient>>
    BY <1>5 DEF ClientWrite, ServerWrite, ClientData, ServerData, ServerExit, Killed, vars
  <2>2. QED
    BY <2>1, SameBooks
<1>6. QED
  BY <1>1, <1>2, <1>3, <1>4, <1>5 DEF Next

(* While appends to the log succeed, the log is written ahead of every     *)
(* forward and every refusal, for each tool, wherever the gateway dies, and *)
(* the counters handed to onExit are those of the streams (log, stats).    *)
THEOREM DecisionsAreLogged ==
  ASSUME ~LogFails
  PROVE  Spec => []LogAndStatsAgree
<1>1. Init => KInv
  BY InitIInv, InitOrder, InitBooks DEF KInv, RInv
<1>2. KInv => LogAndStatsAgree
  <2> SUFFICES ASSUME KInv PROVE LogWrittenAhead /\ StatsAgree
    BY DEF LogAndStatsAgree
  <2>1. toServer \in Seq(ClientTexts) /\ Refusals \in Seq(ClientTexts)
    BY DEF KInv, RInv, IInv, TypeOK, BookKept
  <2>2. \A x : Cardinality(Places(<<>>, x)) = 0
    <3>1. \A x : Places(<<>>, x) = {}
      BY DEF Places
    <3>2. QED
      BY <3>1, FS_EmptySet
  <2>3. ASSUME NEW d, NEW sink \in OfClient, NEW tool
        PROVE  todo = <<>> => Due(d, tool) = 0 /\ InLine(sink, tool) = 0
    BY <2>2 DEF Due, InLine, InHand, OfClient
  <2>4. ASSUME NEW tool \in Names
        PROVE  /\ CallsOf(toServer, tool) <= Logged("allowed", tool)
               /\ CallsOf(Refusals, tool) <= Logged("refused", tool)
               /\ todo = <<>> => /\ CallsOf(toServer, tool) = Logged("allowed", tool)
                                 /\ CallsOf(Refusals, tool) = Logged("refused", tool)
    <3>1. Balanced("allowed", "server", toServer, tool) /\ Balanced("refused", "refusal", Refusals, tool)
      BY DEF KInv, BookKept
    <3>2. "server" \in OfClient /\ "refusal" \in OfClient
      BY DEF OfClient
    <3>3. CallsOf(toServer, tool) \in Nat /\ CallsOf(Refusals, tool) \in Nat
      BY <2>1, CallsOfType
    <3>4. /\ Logged("allowed", tool) \in Nat /\ Due("allowed", tool) \in Nat /\ InLine("server", tool) \in Nat
          /\ Logged("refused", tool) \in Nat /\ Due("refused", tool) \in Nat /\ InLine("refusal", tool) \in Nat
      BY <3>2, BookTypes DEF KInv, RInv
    <3>5. todo = <<>> => /\ Due("allowed", tool) = 0 /\ InLine("server", tool) = 0
                         /\ Due("refused", tool) = 0 /\ InLine("refusal", tool) = 0
      BY <2>3, <3>2
    <3>6. QED
      BY <3>1, <3>3, <3>4, <3>5 DEF Balanced
  <2>5. StatsAgree
    <3>1. CallCount(toServer) \in Nat /\ CallCount(Refusals) \in Nat
      BY <2>1, CallsOfType
    <3>2. todo = <<>> => InHand = "none"
      BY DEF InHand
    <3>3. QED
      BY <3>1, <3>2 DEF StatsAgree, KInv, BookKept, Counted
  <2>6. QED
    BY <2>4, <2>5 DEF LogWrittenAhead, Names
<1>3. KInv /\ [Next]_vars => KInv'
  BY NextKInv
<1>4. QED
  BY <1>1, <1>2, <1>3, PTL DEF Spec
================================================================================
