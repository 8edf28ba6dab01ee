---------------------------- MODULE PolicyGateProofs ----------------------------
(***************************************************************************)
(* Proofs about the exit code of a check and an audit: for any checks,     *)
(* files, roots, policies and index records, what a build is told agrees   *)
(* with what was measured and found in each root on its own.               *)
(***************************************************************************)
EXTENDS PolicyGateProps, TLAPS

(* What does not change once the command has started. *)
InputsTyped ==
    /\ command \in {"check", "audit"}
    /\ world \in [Range(Roots) -> {Absent} \cup Root]
    /\ policy \in [Range(Roots) -> {Malformed} \cup Policy]
    /\ requested \in SUBSET Range(ALL_CHECKS)

(* The checks of the run that precede the n-th. *)
Before(n) == {ALL_CHECKS[k] : k \in 1..n - 1} \cap requested

(* What the checks in a set find in a root. *)
SeenBy(checks, root) ==
    {x \in [file : Files, severity : DOMAIN RANK] :
        \E c \in checks : x.file \in Assessed(c, root) /\ x \in FindingsIn(c, x.file, root.files[x.file])}

(* The scan under way has seen this root, and no other, with the checks    *)
(* that are done.                                                          *)
ScanIsOfRoot ==
    /\ next \in 1..NumRoots + 1
    /\ check \in 1..Len(ALL_CHECKS) + 1
    /\ next > NumRoots => check = 1
    /\ scan = [findings |-> scan.findings, checksRun |-> scan.checksRun,
               checksFailed |-> scan.checksFailed, unparsed |-> scan.unparsed]
    /\ scan.unparsed \subseteq Files
    /\ check = 1 => scan = NoScan
    /\ check > 1 =>
         LET root == Content(Roots[next])
         IN  /\ scan.checksFailed = {c \in Before(check) : Throws(c, root)}
             /\ scan.checksRun = {c \in Before(check) : ~Throws(c, root)}
             /\ scan.findings = SeenBy(scan.checksRun, root)

(* An entry is the verdict on its root, and nothing in the root was        *)
(* refused.                                                                *)
EntryOf(e, r) ==
    /\ e = [verdict |-> OwnVerdict(r), exitCode |-> exitCodeFor(OwnVerdict(r)), root |-> r]
    /\ Exists(r) => policy[r] # Malformed /\ Content(r).records # Malformed

EntriesTrue ==
    /\ entries \in Seq([verdict : {"clean", "findings", "incomplete"}, exitCode : 0..2, root : Range(Roots)])
    /\ Len(entries) = next - 1
    /\ \A i \in 1..next - 1 : EntryOf(entries[i], Roots[i])

(* The command ends refused, or with what all the entries say together. *)
ExitTrue ==
    \/ exit \in {NoExit, 3}
    \/ next > NumRoots /\ exit = aggregateExitCode(entries)

IInv == InputsTyped /\ ScanIsOfRoot /\ EntriesTrue /\ ExitTrue

--------------------------------------------------------------------------------
(* The roots and the checks *)

(* The root a scan is at is one of those that were given. *)
LEMMA RootInRange ==
  ASSUME InputsTyped, NEW i \in 1..NumRoots
  PROVE  /\ i \in 1..Len(Roots)
         /\ Roots[i] \in Range(Roots)
<1>1. Roots \in Seq(Range(Roots)) /\ Len(Roots) > 0
  BY PolicyGateAssumption
<1>2. NumRoots \in 1..Len(Roots) /\ Len(Roots) \in Nat
  BY <1>1 DEF NumRoots
<1>3. i \in 1..Len(Roots)
  BY <1>2
<1>4. QED
  BY <1>1, <1>3

(* There is at least one root to scan. *)
LEMMA NumRootsNat == NumRoots \in Nat \ {0}
<1>1. Roots \in Seq(Range(Roots)) /\ Len(Roots) > 0
  BY PolicyGateAssumption
<1>2. QED
  BY <1>1 DEF NumRoots

(* What a root holds has its types, present or absent. *)
LEMMA ContentTyped ==
  ASSUME InputsTyped, NEW r \in Range(Roots)
  PROVE  /\ Content(r).files \in [Files -> State]
         /\ Content(r).records \in {Malformed} \cup SUBSET IndexRecord
<1>1. CASE world[r] = Absent
  BY <1>1 DEF Content, State
<1>2. CASE world[r] # Absent
  <2>1. world[r] \in Root
    BY <1>2 DEF InputsTyped
  <2>2. QED
    BY <1>2, <2>1 DEF Content, Root
<1>3. QED
  BY <1>1, <1>2

(* What a check finds is about a file it read, and has a rank. *)
LEMMA FindingsTyped ==
  ASSUME NEW c \in Range(ALL_CHECKS), NEW root, root.files \in [Files -> State],
         NEW f \in Assessed(c, root), NEW x \in FindingsIn(c, f, root.files[f])
  PROVE  x \in [file : Files, severity : DOMAIN RANK] /\ x.file = f
<1>1. f \in Files
  BY PolicyGateAssumption DEF Assessed, Opens
<1>2. root.files[f] \in State \ {Absent, Unreadable}
  BY <1>1 DEF Assessed, Opens
<1>3. "low" \in DOMAIN RANK
  BY DEF RANK
<1>4. root.files[f] # Unparsed => root.files[f] \in SUBSET DOMAIN RANK
  BY <1>2 DEF State
<1> DEFINE severities == IF root.files[f] # Unparsed THEN root.files[f]
                         ELSE IF Way[c] = "config" THEN {"low"} ELSE {}
<1>5. severities \subseteq DOMAIN RANK
  BY <1>3, <1>4
<1>6. FindingsIn(c, f, root.files[f]) = {[file |-> f, severity |-> s] : s \in severities}
  BY DEF FindingsIn
<1> HIDE DEF severities
<1>7. PICK s \in severities : x = [file |-> f, severity |-> s]
  BY <1>6
<1>8. QED
  BY <1>1, <1>5, <1>7

(* The checks that precede the next one are those that preceded this one,  *)
(* and this one if it was asked for.                                       *)
LEMMA BeforeNext ==
  ASSUME InputsTyped, NEW n \in 1..Len(ALL_CHECKS)
  PROVE  /\ Before(n + 1) = Before(n) \cup ({ALL_CHECKS[n]} \cap requested)
         /\ ALL_CHECKS[n] \in Range(ALL_CHECKS)
<1>1. ALL_CHECKS \in Seq(Range(ALL_CHECKS))
  BY PolicyGateAssumption
<1>2. 1..(n + 1) - 1 = 1..n - 1 \cup {n}
  BY <1>1
<1>3. QED
  BY <1>1, <1>2 DEF Before

(* No check precedes the first. *)
LEMMA BeforeFirst == Before(1) = {}
<1>1. 1..1 - 1 = {}
  OBVIOUS
<1>2. QED
  BY <1>1 DEF Before

(* All that was requested precedes the end of the list. *)
LEMMA BeforeAll ==
  ASSUME InputsTyped
  PROVE  Before(Len(ALL_CHECKS) + 1) = requested
<1>1. ALL_CHECKS \in Seq(Range(ALL_CHECKS))
  BY PolicyGateAssumption
<1>2. Len(ALL_CHECKS) + 1 - 1 = Len(ALL_CHECKS) /\ DOMAIN ALL_CHECKS = 1..Len(ALL_CHECKS)
  BY <1>1
<1>3. Range(ALL_CHECKS) = {ALL_CHECKS[k] : k \in 1..Len(ALL_CHECKS) + 1 - 1}
  BY <1>2 DEF Range
<1>4. requested \subseteq Range(ALL_CHECKS)
  BY DEF InputsTyped
<1>5. QED
  BY <1>3, <1>4 DEF Before

(* One more check sees what the others saw and its own findings. *)
LEMMA SeenByOneMore ==
  ASSUME NEW c \in Range(ALL_CHECKS), NEW root, root.files \in [Files -> State], NEW checks
  PROVE  SeenBy(checks \cup {c}, root) =
           SeenBy(checks, root) \cup UNION {FindingsIn(c, f, root.files[f]) : f \in Assessed(c, root)}
<1>1. ASSUME NEW x \in SeenBy(checks \cup {c}, root), x \notin SeenBy(checks, root)
      PROVE  x \in UNION {FindingsIn(c, f, root.files[f]) : f \in Assessed(c, root)}
  BY <1>1 DEF SeenBy
<1>2. ASSUME NEW f \in Assessed(c, root), NEW x \in FindingsIn(c, f, root.files[f])
      PROVE  x \in SeenBy(checks \cup {c}, root)
  BY FindingsTyped DEF SeenBy
<1>3. SeenBy(checks, root) \subseteq SeenBy(checks \cup {c}, root)
  BY DEF SeenBy
<1>4. QED
  BY <1>1, <1>2, <1>3

--------------------------------------------------------------------------------
(* The verdict on a root, and on all of them *)

(* A root's own verdict is one of three words. *)
LEMMA OwnVerdictTyped ==
  ASSUME NEW r
  PROVE  OwnVerdict(r) \in {"clean", "findings", "incomplete"}
BY DEF OwnVerdict

(* With all its checks done, the scan of a root that is there decides what *)
(* its content decides.                                                    *)
LEMMA EvaluateIsOwn ==
  ASSUME IInv, next <= NumRoots, check > Len(ALL_CHECKS), Exists(Roots[next])
  PROVE  evaluate(policy[Roots[next]], scan, Content(Roots[next]).records) = OwnVerdict(Roots[next])
<1> DEFINE r == Roots[next]
<1>1. Len(ALL_CHECKS) \in Nat /\ NumRoots \in Nat
  BY PolicyGateAssumption, NumRootsNat
<1>2. check = Len(ALL_CHECKS) + 1 /\ Before(check) = requested
  BY <1>1, BeforeAll DEF IInv, ScanIsOfRoot
<1>3. /\ scan.checksFailed = {c \in Before(check) : Throws(c, Content(r))}
      /\ scan.checksRun = {c \in Before(check) : ~Throws(c, Content(r))}
      /\ scan.findings = SeenBy(scan.checksRun, Content(r))
  <2>1. CASE check > 1
    BY <2>1 DEF IInv, ScanIsOfRoot
  <2>2. CASE check = 1
    <3>1. Before(check) = {}
      BY <2>2, BeforeFirst
    <3>2. scan = NoScan
      BY <2>2 DEF IInv, ScanIsOfRoot
    <3>3. QED
      BY <3>1, <3>2 DEF NoScan, SeenBy
  <2>3. QED
    BY <1>1, <1>2, <2>1, <2>2
<1>4. scan.checksFailed # {} <=> \E c \in requested : Throws(c, Content(r))
  BY <1>2, <1>3
<1>5. ASSUME scan.checksFailed = {} PROVE scan.findings = Seen(r)
  <2>1. scan.checksRun = requested
    BY <1>2, <1>3, <1>5
  <2>2. QED
    BY <1>3, <2>1 DEF Seen, SeenBy
<1>6. ASSUME scan.checksFailed = {}
      PROVE  RefusedFindings(policy[r], scan) = RefusedFindings(policy[r], [findings |-> Seen(r)])
  BY <1>5, <1>6 DEF RefusedFindings
<1>7. QED
  BY <1>4, <1>6 DEF evaluate, OwnVerdict

(* The greatest of the exit codes is the code of the worst verdict. *)
LEMMA CodesAgree ==
  ASSUME NEW list, \A e \in Range(list) : /\ e.verdict \in {"clean", "findings", "incomplete"}
                                         /\ e.exitCode = exitCodeFor(e.verdict)
  PROVE  /\ aggregateExitCode(list) = exitCodeFor(aggregateAudit(list))
         /\ aggregateExitCode(list) \in 0..2
         /\ aggregateExitCode(list) = 0 => \A e \in Range(list) : e.verdict = "clean"
<1> DEFINE Greatest(code) == /\ \A e \in Range(list) : e.exitCode <= code
                             /\ code = 0 \/ \E e \in Range(list) : e.exitCode = code
           code == exitCodeFor(aggregateAudit(list))
<1>1. \A e \in Range(list) : /\ e.exitCode \in 0..2
                             /\ e.exitCode = 2 <=> e.verdict = "incomplete"
                             /\ e.exitCode = 1 <=> e.verdict = "findings"
                             /\ e.exitCode = 0 <=> e.verdict = "clean"
  BY DEF exitCodeFor
<1>2. code \in 0..2 /\ Greatest(code)
  <2>1. CASE \E e \in Range(list) : e.verdict = "incomplete"
    <3>1. code = 2
      BY <2>1 DEF aggregateAudit, exitCodeFor
    <3>2. QED
      BY <1>1, <2>1, <3>1
  <2>2. CASE /\ ~\E e \in Range(list) : e.verdict = "incomplete"
             /\ \E e \in Range(list) : e.verdict = "findings"
    <3>1. code = 1
      BY <2>2 DEF aggregateAudit, exitCodeFor
    <3>2. QED
      BY <1>1, <2>2, <3>1
  <2>3. CASE \A e \in Range(list) : e.verdict = "clean"
    <3>1. code = 0
      BY <2>3 DEF aggregateAudit, exitCodeFor
    <3>2. QED
      BY <1>1, <2>3, <3>1
  <2>4. QED
    BY <2>1, <2>2, <2>3
<1>3. aggregateExitCode(list) = CHOOSE n \in 0..2 : Greatest(n)
  BY DEF aggregateExitCode
<1>4. ASSUME NEW n \in 0..2, Greatest(n) PROVE n = code
  BY <1>1, <1>2, <1>4
<1> HIDE DEF Greatest, code
<1>5. aggregateExitCode(list) = code
  BY <1>2, <1>3, <1>4
<1>6. code = 0 => \A e \in Range(list) : e.verdict = "clean"
  BY <1>1, <1>2 DEF Greatest
<1>7. QED
  BY <1>2, <1>5, <1>6 DEF code

--------------------------------------------------------------------------------
(* Every step keeps the invariant. *)

(* What a root is and what its verdict is depends on the inputs only. *)
LEMMA InputsStay ==
  ASSUME IInv, UNCHANGED <<command, world, policy, requested>>
  PROVE  /\ InputsTyped' /\ NumRoots' = NumRoots
         /\ \A r : Content(r)' = Content(r)
         /\ \A n : Before(n)' = Before(n)
         /\ \A e, r : EntryOf(e, r)' <=> EntryOf(e, r)
<1>1. InputsTyped' /\ NumRoots' = NumRoots
  BY DEF IInv, InputsTyped, NumRoots
<1>2. \A r : Content(r)' = Content(r) /\ Skips(r)' = Skips(r)
  BY DEF Content, Skips
<1>3. \A n : Before(n)' = Before(n)
  BY DEF Before
<1>4. ASSUME NEW r PROVE OwnVerdict(r)' = OwnVerdict(r)
  BY <1>2 DEF OwnVerdict, Seen, Exists
<1>5. \A e, r : EntryOf(e, r)' <=> EntryOf(e, r)
  BY <1>2, <1>4 DEF EntryOf, Exists
<1>6. QED
  BY <1>1, <1>2, <1>3, <1>5

(* The invariant holds before the first check is run. *)
LEMMA InitIInv == Init => IInv
<1> SUFFICES ASSUME Init PROVE IInv
  OBVIOUS
<1>1. InputsTyped
  BY PolicyGateAssumption DEF Init, InputsTyped
<1>2. NumRoots \in Nat \ {0} /\ Len(ALL_CHECKS) \in Nat
  BY NumRootsNat, PolicyGateAssumption
<1>3. ScanIsOfRoot
  BY <1>2 DEF Init, ScanIsOfRoot, NoScan
<1>4. EntriesTrue
  BY DEF Init, EntriesTrue
<1>5. ExitTrue
  BY DEF Init, ExitTrue
<1>6. QED
  BY <1>1, <1>3, <1>4, <1>5 DEF IInv

(* A check adds what it assessed and found in the root under way. *)
LEMMA RunCheckKeeps ==
  ASSUME IInv, RunCheck
  PROVE  IInv'
<1> DEFINE c == ALL_CHECKS[check]
           r == Roots[next]
           root == Content(r)
<1>1. UNCHANGED <<command, world, policy, requested, next, entries, exit>> /\ check' = check + 1
  BY DEF RunCheck
<1>2. /\ InputsTyped' /\ NumRoots' = NumRoots
      /\ \A q : Content(q)' = Content(q)
      /\ \A n : Before(n)' = Before(n)
      /\ \A e, q : EntryOf(e, q)' <=> EntryOf(e, q)
  BY <1>1, InputsStay
<1>3. /\ NumRoots \in Nat \ {0} /\ Len(ALL_CHECKS) \in Nat
      /\ next \in 1..NumRoots /\ check \in 1..Len(ALL_CHECKS)
  BY NumRootsNat, PolicyGateAssumption DEF IInv, ScanIsOfRoot, RunCheck
<1>4. r \in Range(Roots) /\ root.files \in [Files -> State]
  BY <1>3, RootInRange, ContentTyped DEF IInv
<1>5. c \in Range(ALL_CHECKS) /\ Before(check + 1) = Before(check) \cup ({c} \cap requested)
  BY <1>3, BeforeNext DEF IInv
<1>6. /\ scan.checksFailed = {d \in Before(check) : Throws(d, root)}
      /\ scan.checksRun = {d \in Before(check) : ~Throws(d, root)}
      /\ scan.findings = SeenBy(scan.checksRun, root)
  <2>1. CASE check > 1
    BY <2>1 DEF IInv, ScanIsOfRoot
  <2>2. CASE check = 1
    <3>1. Before(check) = {}
      BY <2>2, BeforeFirst
    <3>2. scan = NoScan
      BY <2>2 DEF IInv, ScanIsOfRoot
    <3>3. QED
      BY <3>1, <3>2 DEF NoScan, SeenBy
  <2>3. QED
    BY <1>3, <2>1, <2>2
<1>7. /\ scan = [findings |-> scan.findings, checksRun |-> scan.checksRun,
                 checksFailed |-> scan.checksFailed, unparsed |-> scan.unparsed]
      /\ scan.unparsed \subseteq Files
  BY DEF IInv, ScanIsOfRoot
<1>8. /\ scan' = [findings |-> scan'.findings, checksRun |-> scan'.checksRun,
                  checksFailed |-> scan'.checksFailed, unparsed |-> scan'.unparsed]
      /\ scan'.unparsed \subseteq Files
      /\ scan'.checksFailed = {d \in Before(check + 1) : Throws(d, root)}
      /\ scan'.checksRun = {d \in Before(check + 1) : ~Throws(d, root)}
      /\ scan'.findings = SeenBy(scan'.checksRun, root)
  <2>1. CASE c \notin requested
    <3>1. scan' = scan /\ Before(check + 1) = Before(check)
      BY <1>5, <2>1 DEF RunCheck
    <3>2. QED
      BY <1>6, <1>7, <3>1
  <2>2. CASE c \in requested /\ Throws(c, root)
    <3>1. scan' = [scan EXCEPT !.checksFailed = @ \cup {c}]
      BY <2>2 DEF RunCheck
    <3>2. /\ scan'.findings = scan.findings /\ scan'.checksRun = scan.checksRun
          /\ scan'.checksFailed = scan.checksFailed \cup {c} /\ scan'.unparsed = scan.unparsed
          /\ scan' = [findings |-> scan'.findings, checksRun |-> scan'.checksRun,
                      checksFailed |-> scan'.checksFailed, unparsed |-> scan'.unparsed]
      BY <1>7, <3>1
    <3>3. Before(check + 1) = Before(check) \cup {c}
      BY <1>5, <2>2
    <3>4. QED
      BY <1>6, <1>7, <2>2, <3>2, <3>3
  <2>3. CASE c \in requested /\ ~Throws(c, root)
    <3> DEFINE found == UNION {FindingsIn(c, f, root.files[f]) : f \in Assessed(c, root)}
               noted == IF Way[c] # "config" THEN {} ELSE {f \in Opens(c, root) : root.files[f] = Unparsed}
    <3>1. scan' = [scan EXCEPT !.checksRun = @ \cup {c}, !.findings = @ \cup found,
                               !.unparsed = @ \cup noted]
      BY <2>3 DEF RunCheck
    <3>2. noted \subseteq Files
      BY <1>5, PolicyGateAssumption DEF Opens
    <3>3. SeenBy(scan.checksRun \cup {c}, root) = SeenBy(scan.checksRun, root) \cup found
      BY <1>4, <1>5, SeenByOneMore
    <3> HIDE DEF found, noted
    <3>4. /\ scan'.findings = scan.findings \cup found /\ scan'.checksRun = scan.checksRun \cup {c}
          /\ scan'.checksFailed = scan.checksFailed /\ scan'.unparsed = scan.unparsed \cup noted
          /\ scan' = [findings |-> scan'.findings, checksRun |-> scan'.checksRun,
                      checksFailed |-> scan'.checksFailed, unparsed |-> scan'.unparsed]
      BY <1>7, <3>1
    <3>5. Before(check + 1) = Before(check) \cup {c}
      BY <1>5, <2>3
    <3>6. scan'.findings = SeenBy(scan'.checksRun, root)
      BY <1>6, <3>3, <3>4
    <3>7. /\ scan'.checksFailed = {d \in Before(check + 1) : Throws(d, root)}
          /\ scan'.checksRun = {d \in Before(check + 1) : ~Throws(d, root)}
      BY <1>6, <2>3, <3>4, <3>5
    <3>8. scan'.unparsed \subseteq Files
      BY <1>7, <3>2, <3>4
    <3>9. QED
      BY <3>4, <3>6, <3>7, <3>8, Zenon
  <2>4. QED
    BY <2>1, <2>2, <2>3
<1> HIDE DEF root, c
<1>9. ScanIsOfRoot'
  <2>1. Content(Roots[next])' = root
    BY <1>1, <1>2 DEF root
  <2>2. Before(check)' = Before(check + 1)
    BY <1>1, <1>2
  <2>3. check' \in 1..Len(ALL_CHECKS) + 1 /\ check' # 1 /\ next' \in 1..NumRoots' /\ ~(next' > NumRoots')
    BY <1>1, <1>2, <1>3
  <2>4. QED
    BY <1>1, <1>2, <1>3, <1>8, <2>1, <2>2, <2>3 DEF ScanIsOfRoot
<1>10. EntriesTrue'
  BY <1>1, <1>2 DEF IInv, EntriesTrue
<1>11. ExitTrue'
  BY <1>1, <1>2 DEF IInv, ExitTrue
<1>12. QED
  BY <1>2, <1>9, <1>10, <1>11 DEF IInv

(* A root is finished with its own verdict, and the next one starts from   *)
(* nothing.                                                                *)
LEMMA NextRootKeeps ==
  ASSUME IInv, exit = NoExit, next <= NumRoots, NextRoot(Entry(OwnVerdict(Roots[next]))),
         Exists(Roots[next]) => /\ policy[Roots[next]] # Malformed
                                /\ Content(Roots[next]).records # Malformed
  PROVE  IInv'
<1> DEFINE r == Roots[next]
           e == Entry(OwnVerdict(r))
<1>1. /\ entries' = Append(entries, e) /\ next' = next + 1 /\ check' = 1 /\ scan' = NoScan
      /\ UNCHANGED <<command, world, policy, requested, exit>>
  BY DEF NextRoot
<1>2. /\ InputsTyped' /\ NumRoots' = NumRoots
      /\ \A f, q : EntryOf(f, q)' <=> EntryOf(f, q)
  BY <1>1, InputsStay
<1>3. /\ NumRoots \in Nat \ {0} /\ Len(ALL_CHECKS) \in Nat
      /\ next \in 1..NumRoots
  BY NumRootsNat, PolicyGateAssumption DEF IInv, ScanIsOfRoot
<1>4. r \in Range(Roots)
  BY <1>3, RootInRange DEF IInv
<1>5. EntryOf(e, r)
  BY DEF EntryOf, Entry
<1>6. e \in [verdict : {"clean", "findings", "incomplete"}, exitCode : 0..2, root : Range(Roots)]
  <2>1. OwnVerdict(r) \in {"clean", "findings", "incomplete"}
    BY OwnVerdictTyped
  <2>2. exitCodeFor(OwnVerdict(r)) \in 0..2
    BY <2>1 DEF exitCodeFor
  <2>3. QED
    BY <1>4, <2>1, <2>2 DEF Entry
<1>7. EntriesTrue'
  <2> HIDE DEF e, r
  <2>1. /\ entries \in Seq([verdict : {"clean", "findings", "incomplete"}, exitCode : 0..2, root : Range(Roots)])
        /\ Len(entries) = next - 1
        /\ \A i \in 1..next - 1 : EntryOf(entries[i], Roots[i])
    BY DEF IInv, EntriesTrue
  <2>2. entries' \in Seq([verdict : {"clean", "findings", "incomplete"}, exitCode : 0..2, root : Range(Roots)])
    BY <1>1, <1>6, <2>1
  <2>3. Len(entries') = next' - 1
    BY <1>1, <1>3, <2>1
  <2>4. ASSUME NEW i \in 1..next' - 1 PROVE EntryOf(entries'[i], Roots[i])
    <3>1. CASE i = next
      <4>1. entries'[i] = e /\ Roots[i] = r
        BY <1>1, <1>3, <2>1, <3>1 DEF r
      <4>2. QED
        BY <1>5, <4>1
    <3>2. CASE i # next
      <4>1. i \in 1..next - 1 /\ entries'[i] = entries[i]
        BY <1>1, <1>3, <2>1, <3>2
      <4>2. QED
        BY <2>1, <4>1
    <3>3. QED
      BY <3>1, <3>2
  <2>5. (\A i \in 1..next - 1 : EntryOf(entries[i], Roots[i]))'
    BY <1>2, <2>4
  <2>6. QED
    BY <2>2, <2>3, <2>5 DEF EntriesTrue
<1>8. ScanIsOfRoot'
  BY <1>1, <1>2, <1>3 DEF ScanIsOfRoot, NoScan
<1>9. ExitTrue'
  BY <1>1 DEF ExitTrue
<1>10. QED
  BY <1>2, <1>7, <1>8, <1>9 DEF IInv

(* A root that is missing is an entry of its own, incomplete. *)
LEMMA MissingRootKeeps ==
  ASSUME IInv, MissingRoot
  PROVE  IInv'
<1>1. ~Exists(Roots[next]) /\ OwnVerdict(Roots[next]) = "incomplete"
  BY DEF MissingRoot, Exists, OwnVerdict
<1>2. NextRoot(Entry(OwnVerdict(Roots[next])))
  BY <1>1 DEF MissingRoot
<1>3. exit = NoExit /\ next <= NumRoots
  BY DEF MissingRoot
<1>4. QED
  BY <1>1, <1>2, <1>3, NextRootKeeps

(* A root that is scanned gets an entry, judged on its own. *)
LEMMA EvaluateKeeps ==
  ASSUME IInv, Evaluate
  PROVE  IInv'
<1>1. /\ exit = NoExit /\ next <= NumRoots /\ check > Len(ALL_CHECKS)
      /\ Exists(Roots[next]) /\ policy[Roots[next]] # Malformed
      /\ Content(Roots[next]).records # Malformed
      /\ NextRoot(Entry(evaluate(policy[Roots[next]], scan, Content(Roots[next]).records)))
  BY DEF Evaluate, Exists
<1>2. evaluate(policy[Roots[next]], scan, Content(Roots[next]).records) = OwnVerdict(Roots[next])
  BY <1>1, EvaluateIsOwn
<1>3. NextRoot(Entry(OwnVerdict(Roots[next])))
  BY <1>1, <1>2
<1>4. QED
  BY <1>1, <1>3, NextRootKeeps

(* The command ends, or nothing happens: only the exit code may change. *)
LEMMA EndKeeps ==
  ASSUME IInv, FatalInput \/ Aggregate \/ UNCHANGED vars
  PROVE  IInv'
<1>1. UNCHANGED <<command, world, policy, requested, next, check, scan, entries>>
  BY DEF FatalInput, Aggregate, vars
<1>2. /\ InputsTyped' /\ NumRoots' = NumRoots
      /\ \A q : Content(q)' = Content(q)
      /\ \A n : Before(n)' = Before(n)
      /\ \A e, q : EntryOf(e, q)' <=> EntryOf(e, q)
  BY <1>1, InputsStay
<1>3. ScanIsOfRoot'
  <2>1. \A c, root : Throws(c, root)' <=> Throws(c, root)
    BY DEF Throws, Opens
  <2>2. QED
    BY <1>1, <1>2 DEF IInv, ScanIsOfRoot
<1>4. EntriesTrue'
  BY <1>1, <1>2 DEF IInv, EntriesTrue
<1>5. ExitTrue'
  BY <1>1, <1>2 DEF IInv, ExitTrue, FatalInput, Aggregate, vars
<1>6. QED
  BY <1>2, <1>3, <1>4, <1>5 DEF IInv

(* The invariant holds in every reachable state. *)
LEMMA SpecIInv == Spec => []IInv
<1>1. IInv /\ [Next]_vars => IInv'
  BY RunCheckKeeps, MissingRootKeeps, EvaluateKeeps, EndKeeps DEF Next
<1>2. QED
  BY <1>1, InitIInv, PTL DEF Spec

--------------------------------------------------------------------------------
(* What the invariant says of the exit code *)

(* The code of a command that was not refused is that of its entries, one  *)
(* for each root.                                                          *)
LEMMA ExitIsOfAll ==
  ASSUME IInv, exit \in 0..2
  PROVE  /\ exit = exitCodeFor(aggregateAudit(entries))
         /\ exit = 0 => \A e \in Range(entries) : e.verdict = "clean"
         /\ DOMAIN entries = 1..NumRoots
         /\ \A i \in 1..NumRoots : EntryOf(entries[i], Roots[i])
<1>1. next > NumRoots /\ exit = aggregateExitCode(entries)
  BY PolicyGateAssumption DEF IInv, ExitTrue
<1>2. NumRoots \in Nat \ {0} /\ next = NumRoots + 1
  BY <1>1, NumRootsNat DEF IInv, ScanIsOfRoot
<1>3. DOMAIN entries = 1..NumRoots /\ \A i \in 1..NumRoots : EntryOf(entries[i], Roots[i])
  BY <1>2 DEF IInv, EntriesTrue
<1>4. \A e \in Range(entries) : /\ e.verdict \in {"clean", "findings", "incomplete"}
                                /\ e.exitCode = exitCodeFor(e.verdict)
  <2>1. SUFFICES ASSUME NEW i \in 1..NumRoots
                 PROVE  /\ entries[i].verdict \in {"clean", "findings", "incomplete"}
                        /\ entries[i].exitCode = exitCodeFor(entries[i].verdict)
    BY <1>3 DEF Range
  <2>2. EntryOf(entries[i], Roots[i])
    BY <1>3
  <2>3. QED
    BY <2>2, OwnVerdictTyped DEF EntryOf
<1>5. QED
  BY <1>1, <1>3, <1>4, CodesAgree

(* A build passes only over roots that are there and clean on their own.   *)
LEMMA PassIsClean ==
  ASSUME IInv, exit = 0, NEW r \in Scanned
  PROVE  /\ r \in Range(Roots) /\ OwnVerdict(r) = "clean"
         /\ Exists(r) /\ policy[r] # Malformed /\ Content(r).records # Malformed
<1>1. PICK i \in 1..NumRoots : r = Roots[i]
  BY DEF Scanned
<1>2. r \in Range(Roots)
  BY <1>1, RootInRange DEF IInv
<1>3. EntryOf(entries[i], r) /\ entries[i] \in Range(entries)
  BY <1>1, ExitIsOfAll DEF Range
<1>4. entries[i].verdict = "clean"
  BY <1>3, ExitIsOfAll
<1>5. OwnVerdict(r) = "clean"
  BY <1>3, <1>4 DEF EntryOf
<1>6. Exists(r)
  BY <1>5 DEF OwnVerdict
<1>7. QED
  BY <1>2, <1>3, <1>5, <1>6 DEF EntryOf

(* A complete execution of a record's blocks has measured each of them. *)
LEMMA CompleteIsMeasured ==
  ASSUME NEW evidence, Complete(executionFromBlocks(evidence)), NEW b \in DOMAIN evidence
  PROVE  Measured(evidence[b])
<1> DEFINE execution == executionFromBlocks(evidence)
<1>1. DOMAIN execution = DOMAIN evidence /\ execution[b].required
  BY DEF executionFromBlocks
<1>2. execution[b].status = "completed"
  BY <1>1 DEF Complete, RequiredOf, componentComplete
<1>3. QED
  BY <1>2 DEF executionFromBlocks

(* "clean" is never emitted when a check failed to run (engine.mjs), and a *)
(* partial answer is not a pass (evaluate.mjs): whatever the checks, the   *)
(* roots, the policies and the index, a build passes only over roots that  *)
(* were all there, read and measured.                                      *)
THEOREM PartialIsNoPass == Spec => []PartialNeverPasses
<1>1. ASSUME IInv, exit = 0, NEW r \in Scanned
      PROVE  /\ Exists(r) /\ policy[r] # Malformed /\ Content(r).records # Malformed
             /\ \A c \in requested : Way[c] # "json" => Readable(c, r)
             /\ \A q \in Content(r).records : Supports(q, policy[r])
             /\ policy[r].measured \cup policy[r].scanners # {} => Content(r).records # {}
  <2>1. /\ OwnVerdict(r) = "clean"
        /\ Exists(r) /\ policy[r] # Malformed /\ Content(r).records # Malformed
    BY <1>1, PassIsClean
  <2>2. /\ \A c \in requested : ~Throws(c, Content(r))
        /\ ~EvidenceMissing(policy[r], Content(r).records)
        /\ ~ExecutionIncomplete(policy[r], Content(r).records)
    BY <2>1 DEF OwnVerdict
  <2>3. ASSUME NEW c \in requested, Way[c] # "json" PROVE Readable(c, r)
    BY <2>2, <2>3, PolicyGateAssumption DEF Throws, Opens, Readable
  <2>4. ASSUME NEW q \in Content(r).records
        PROVE  Supports(q, policy[r])
    <3>1. \A b \in policy[r].measured : b \in DOMAIN q.evidence /\ Measured(q.evidence[b])
      BY <2>2 DEF EvidenceMissing
    <3>2. /\ \A c \in policy[r].scanners : RanIn(q.execution, c)
          /\ q.execution # Absent => Complete(q.execution)
      BY <2>2 DEF ExecutionIncomplete
    <3>3. q.execution # Absent => \A c \in RequiredOf(q.execution) : RanIn(q.execution, c)
      BY <3>2 DEF Complete, RequiredOf, RanIn
    <3>4. ASSUME q.execution # Absent, q.execution = executionFromBlocks(q.evidence),
                 NEW b \in DOMAIN q.evidence
          PROVE  Measured(q.evidence[b])
      BY <3>2, <3>4, CompleteIsMeasured
    <3>5. QED
      BY <3>1, <3>2, <3>3, <3>4 DEF Supports
  <2>5. policy[r].measured \cup policy[r].scanners # {} => Content(r).records # {}
    BY <2>2 DEF EvidenceMissing
  <2>6. QED
    BY <2>1, <2>3, <2>4, <2>5
<1>2. IInv => PartialNeverPasses
  BY <1>1 DEF PartialNeverPasses
<1>3. QED
  BY <1>2, SpecIInv, PTL

(* A finding is not lost between the check that made it and the exit code: *)
(* if any check of the run could see in any root what that root's policy   *)
(* refuses, or a record is of a refused server, the build does not pass.   *)
THEOREM RefusedIsNoPass == Spec => []RefusedNeverPasses
<1>1. ASSUME IInv, exit = 0, NEW r \in Scanned
      PROVE  /\ \A c \in requested, f \in Files \ Excluded :
                  f \in Reads[c] =>
                     \A s \in DOMAIN RANK :
                         RANK[s] >= RANK[policy[r].threshold] \/ s \in policy[r].severities =>
                             \/ Content(r).files[f] \in {Absent, Unreadable, Unparsed}
                             \/ s \notin Content(r).files[f]
             /\ \A q \in Content(r).records : q.server \notin policy[r].servers
  <2>1. OwnVerdict(r) = "clean"
    BY <1>1, PassIsClean
  <2>2. /\ RefusedFindings(policy[r], [findings |-> Seen(r)]) = {}
        /\ ForbiddenServers(policy[r], Content(r).records) = {}
    BY <2>1 DEF OwnVerdict
  <2>3. SUFFICES ASSUME NEW c \in requested, NEW f \in Files \ Excluded, f \in Reads[c], NEW s \in DOMAIN RANK,
                        RANK[s] >= RANK[policy[r].threshold] \/ s \in policy[r].severities,
                        Content(r).files[f] \notin {Absent, Unreadable, Unparsed},
                        s \in Content(r).files[f]
                 PROVE  FALSE
    BY <2>2 DEF ForbiddenServers
  <2> DEFINE x == [file |-> f, severity |-> s]
  <2>4. f \in Assessed(c, Content(r))
    BY <2>3 DEF Assessed, Opens
  <2>5. x \in FindingsIn(c, f, Content(r).files[f])
    BY <2>3 DEF FindingsIn
  <2>6. x \in Seen(r)
    BY <2>4, <2>5 DEF Seen
  <2>7. x \in RefusedFindings(policy[r], [findings |-> Seen(r)])
    BY <2>3, <2>6 DEF RefusedFindings
  <2>8. QED
    BY <2>2, <2>7
<1>2. IInv => RefusedNeverPasses
  BY <1>1 DEF RefusedNeverPasses
<1>3. QED
  BY <1>2, SpecIInv, PTL

(* The state keeps its types; each root has the verdict of its own files,  *)
(* policy and records, whatever was found or failed in the roots before it *)
(* (the scan is per root, agentgate.mjs); and the exit code, a maximum in  *)
(* audit.mjs, is that of the aggregate verdict, a priority there.          *)
THEOREM VerdictsAlwaysAgree == Spec => []VerdictsAgree
<1>1. ASSUME IInv PROVE TypeOK
  <2>1. /\ next \in 1..NumRoots + 1 /\ check \in 1..Len(ALL_CHECKS) + 1 /\ scan.unparsed \subseteq Files
    BY <1>1 DEF IInv, ScanIsOfRoot
  <2>2. Before(check) \subseteq requested
    BY DEF Before
  <2>3. /\ scan.findings \subseteq [file : Files, severity : DOMAIN RANK]
        /\ scan.checksRun \subseteq requested /\ scan.checksFailed \subseteq requested
        /\ scan.checksRun \cap scan.checksFailed = {}
    <3>1. CASE check = 1
      BY <1>1, <3>1 DEF IInv, ScanIsOfRoot, NoScan
    <3>2. CASE check > 1
      BY <1>1, <2>2, <3>2 DEF IInv, ScanIsOfRoot, SeenBy
    <3>3. Len(ALL_CHECKS) \in Nat
      BY PolicyGateAssumption
    <3>4. QED
      BY <2>1, <3>1, <3>2, <3>3
  <2>4. \A e \in Range(entries) : e.verdict \in {"clean", "findings", "incomplete"} /\ e.exitCode \in 0..2
    <3> DEFINE Entries == [verdict : {"clean", "findings", "incomplete"}, exitCode : 0..2, root : Range(Roots)]
    <3>1. entries \in Seq(Entries)
      BY <1>1 DEF IInv, EntriesTrue
    <3>2. \A e \in Entries : e.verdict \in {"clean", "findings", "incomplete"} /\ e.exitCode \in 0..2
      OBVIOUS
    <3> HIDE DEF Entries
    <3>3. \A e \in Range(entries) : e \in Entries
      BY <3>1 DEF Range
    <3>4. QED
      BY <3>2, <3>3
  <2>5. exit \in {NoExit} \cup 0..3
    <3>1. CASE exit \in {NoExit, 3}
      BY <3>1
    <3>2. CASE exit = aggregateExitCode(entries)
      <4>1. ASSUME NEW e \in Range(entries)
            PROVE  e.verdict \in {"clean", "findings", "incomplete"} /\ e.exitCode = exitCodeFor(e.verdict)
        <5>1. PICK i \in 1..next - 1 : e = entries[i]
          BY <1>1, <2>1, NumRootsNat DEF IInv, EntriesTrue, Range
        <5>2. EntryOf(e, Roots[i])
          BY <1>1, <5>1 DEF IInv, EntriesTrue
        <5>3. QED
          BY <5>2, OwnVerdictTyped DEF EntryOf
      <4>2. aggregateExitCode(entries) \in 0..2
        BY <4>1, CodesAgree
      <4>3. QED
        BY <3>2, <4>2
    <3>3. QED
      BY <1>1, <3>1, <3>2 DEF IInv, ExitTrue
  <2>6. QED
    BY <2>1, <2>3, <2>4, <2>5 DEF TypeOK
<1>2. ASSUME IInv PROVE ExitAgrees
  <2>1. SUFFICES ASSUME exit \in 0..2
                 PROVE  /\ exit = exitCodeFor(aggregateAudit(entries))
                        /\ {entries[i].root : i \in DOMAIN entries} = Scanned
    BY DEF ExitAgrees
  <2>2. DOMAIN entries = 1..NumRoots /\ \A i \in 1..NumRoots : EntryOf(entries[i], Roots[i])
    BY <1>2, <2>1, ExitIsOfAll
  <2>3. \A i \in DOMAIN entries : entries[i].root = Roots[i]
    BY <2>2 DEF EntryOf
  <2>4. {entries[i].root : i \in DOMAIN entries} = Scanned
    <3>1. {entries[i].root : i \in DOMAIN entries} = {Roots[i] : i \in DOMAIN entries}
      BY <2>3
    <3>2. {Roots[i] : i \in DOMAIN entries} = Scanned
      BY <2>2 DEF Scanned
    <3>3. QED
      BY <3>1, <3>2
  <2>5. QED
    BY <1>2, <2>1, <2>4, ExitIsOfAll
<1>3. ASSUME IInv PROVE EntryIsItsOwn
  <2>1. SUFFICES ASSUME NEW i \in DOMAIN entries PROVE entries[i].verdict = OwnVerdict(entries[i].root)
    BY DEF EntryIsItsOwn
  <2>2. i \in 1..next - 1
    BY <1>3, NumRootsNat DEF IInv, EntriesTrue, ScanIsOfRoot
  <2>3. EntryOf(entries[i], Roots[i])
    BY <1>3, <2>2 DEF IInv, EntriesTrue
  <2>4. QED
    BY <2>3 DEF EntryOf
<1>4. IInv => VerdictsAgree
  BY <1>1, <1>2, <1>3 DEF VerdictsAgree
<1>5. QED
  BY <1>4, SpecIInv, PTL
================================================================================
