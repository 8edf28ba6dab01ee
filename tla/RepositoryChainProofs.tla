-------------------------- MODULE RepositoryChainProofs --------------------------
(***************************************************************************)
(* Proofs about the repository chain: whatever is pushed, deployed, killed *)
(* or put back between two steps, and through both caches, what it         *)
(* publishes belongs to what the census saw, is fresh, and is accounted    *)
(* for.                                                                    *)
(***************************************************************************)
EXTENDS RepositoryChain, TLAPS

Entry == TreeEntry \cup Coordinates \cup AuditEntry
RunState == [pc : {"idle", "work", "fill", "next"}, step : Steps, todo : SUBSET Repo,
             results : [Repo -> Entry \cup {NoEntry}], input : [Repo -> Entry \cup {NoEntry}],
             census : [Repo -> Revision], code : Code, asked : SUBSET Repo, began : Tick]

(* What a manifest and an audit say: the manifest is of a revision that is *)
(* not older than its key, the audit of the package its key names.         *)
ReadTrue(r, e) ==
    e.status = "read" => e.revision >= e.key.revision /\ e.package = Package[<<r, e.revision>>]
AuditTrue(r, e) == e.status = "audited" => e.key.package = Package[<<r, e.revision>>]

TreesTrue(f) == f \in [Repo -> TreeEntry \cup {NoEntry}]
CoordinatesTrue(f) ==
    f \in [Repo -> Coordinates \cup {NoEntry}] /\ \A r \in Known(f) : ReadTrue(r, f[r])
AuditsTrue(f) ==
    f \in [Repo -> AuditEntry \cup {NoEntry}] /\ \A r \in Known(f) : AuditTrue(r, f[r])
EntriesTrue(step, f) ==
    /\ step = "classification" => TreesTrue(f)
    /\ step = "coordinates" => CoordinatesTrue(f)
    /\ step = "audit" => AuditsTrue(f)

FilesTrue == DOMAIN file = Steps /\ \A s \in Steps : Readable(s) => EntriesTrue(s, file[s])

(* A manifest is somewhere, and that is why a run goes on.                 *)
HasManifest(trees) == \E r \in Known(trees) : trees[r].path # NoPath

(* What was asked for is in the results or still to do, and only that.     *)
WorkOf(step, input) ==
    IF step = "classification" THEN Repo
    ELSE IF step = "coordinates" THEN {r \in Known(input) : input[r].path # NoPath}
    ELSE {r \in Known(input) : Auditable(input[r])}
Accounted(x) ==
    /\ x.todo \subseteq WorkOf(x.step, x.input)
    /\ x.step = "classification" => Known(x.results) \cup x.todo = Repo
    /\ x.step = "audit" => Known(x.results) \cup x.todo = Known(x.input)

(* Each step goes by the file of the step before, which is still there.    *)
InputTrue(x) ==
    /\ x.step = "coordinates" => TreesTrue(x.input) /\ file.classification = x.input /\ (Repo # {} => HasManifest(x.input))
    /\ x.step = "audit" => CoordinatesTrue(x.input) /\ file.coordinates = x.input

(* What was kept is as good as what is asked for.                          *)
FreshAt(x, e) == e.status # "not-audited" => e.at <= x.began /\ x.began < e.at + Ttl /\ e.key.code = x.code
KeptTrue(x) ==
    /\ x.step # "classification" => \A r \in Known(x.results) \ x.asked : FreshAt(x, x.results[r])
    /\ x.step = "coordinates" =>
         \A r \in Known(x.results) : x.results[r].status = "read" => x.results[r].revision >= x.census[r]
    /\ x.step = "audit" =>
         \A r \in Known(x.results) : x.results[r].status = "audited" =>
             Package[<<r, x.results[r].revision>>] = x.input[r].package

Working == run.pc \in {"work", "fill"}
RunTrue ==
    /\ run \in RunState
    /\ Working => EntriesTrue(run.step, run.results) /\ InputTrue(run) /\ Accounted(run) /\ KeptTrue(run)
    /\ run.pc = "fill" => run.todo = {}
    /\ run.pc = "next" => /\ run.step # "audit"
                          /\ EntriesTrue(run.step, file[run.step])
                          /\ run.step = "classification" => Known(file.classification) = Repo

(* The census never saw more than there is.                                *)
WorldTrue ==
    /\ clock \in Tick /\ code \in Code /\ faults \in 0..MaxFaults
    /\ github \in [Repo -> Revision] /\ census \in [Repo -> Revision]
    /\ \A r \in Repo : census[r] <= github[r] /\ run.census[r] <= github[r]

IInv == WorldTrue /\ FilesTrue /\ RunTrue

--------------------------------------------------------------------------------
(* An idle run knows nothing, and everything there is of no entries is     *)
(* true.                                                                   *)
LEMMA IdleIsTyped ==
  /\ Idle \in RunState /\ Idle.pc = "idle" /\ \A r \in Repo : Idle.census[r] = 1
  /\ Idle.step = "classification" /\ Known(Idle.results) = {}
  /\ \A s \in Steps : EntriesTrue(s, Idle.results)
<1>1. 1 \in Revision /\ 0 \in Code /\ 0 \in Tick
  BY RepositoryChainAssumption DEF Revision, Code, Tick
<1>2. Idle \in RunState /\ Idle.pc = "idle" /\ (\A r \in Repo : Idle.census[r] = 1) /\ Idle.step = "classification"
  BY <1>1 DEF Idle, RunState, Steps
<1>3. Idle.results = [r \in Repo |-> NoEntry]
  BY DEF Idle
<1>4. Known(Idle.results) = {}
  BY <1>3 DEF Known
<1>5. \A s \in Steps : EntriesTrue(s, Idle.results)
  BY <1>3, <1>4 DEF EntriesTrue, TreesTrue, CoordinatesTrue, AuditsTrue
<1>6. QED
  BY <1>2, <1>4, <1>5

(* What a step reads of the last run is true, also when it is not there.   *)
LEMMA EntriesAreTrue ==
  ASSUME FilesTrue, NEW s \in Steps
  PROVE  EntriesTrue(s, Entries(s))
BY IdleIsTyped DEF FilesTrue, Entries

(* True entries are entries. *)
LEMMA TrueEntries ==
  ASSUME NEW s \in Steps, NEW f, EntriesTrue(s, f)
  PROVE  f \in [Repo -> Entry \cup {NoEntry}]
<1>1. CASE s = "classification"
  BY <1>1 DEF EntriesTrue, TreesTrue, Entry
<1>2. CASE s = "coordinates"
  BY <1>2 DEF EntriesTrue, CoordinatesTrue, Entry
<1>3. CASE s = "audit"
  BY <1>3 DEF EntriesTrue, AuditsTrue, Entry
<1>4. QED
  BY <1>1, <1>2, <1>3 DEF Steps

(* A run that moves while the files and the world stay. *)
LEMMA RunMoves ==
  ASSUME IInv, world' = world, file' = file, faults' \in 0..MaxFaults, RunTrue',
         \A r \in Repo : run'.census[r] <= github[r]
  PROVE  IInv'
<1>1. FilesTrue'
  BY DEF IInv, FilesTrue, Readable
<1>2. WorldTrue'
  BY DEF IInv, WorldTrue, world
<1>3. QED
  BY <1>1, <1>2 DEF IInv

(* A run that ends, wherever it was. *)
LEMMA IdleKeeps ==
  ASSUME IInv, run' = Idle, world' = world, file' = file, faults' \in 0..MaxFaults
  PROVE  IInv'
<1>1. RunTrue'
  BY IdleIsTyped DEF RunTrue, Working
<1>2. \A r \in Repo : run'.census[r] <= github[r]
  <2>1. \A r \in Repo : github[r] \in Revision
    BY DEF IInv, WorldTrue
  <2>2. QED
    BY <2>1, IdleIsTyped DEF Revision
<1>3. QED
  BY <1>1, <1>2, RunMoves

(* The beginning of a step, with the record it begins with. *)
Begun(step, input, kept, todo) ==
    [pc |-> "work", step |-> step, todo |-> todo, results |-> kept, input |-> input,
     census |-> census, code |-> code, asked |-> {}, began |-> clock]
LEMMA BeginKeeps ==
  ASSUME IInv, NEW step \in Steps, NEW input \in [Repo -> Entry \cup {NoEntry}], NEW kept,
         NEW todo \in SUBSET Repo,
         Begin(step, input, kept, todo), UNCHANGED <<world, file, faults>>, EntriesTrue(step, kept),
         InputTrue(Begun(step, input, kept, todo)), Accounted(Begun(step, input, kept, todo)),
         KeptTrue(Begun(step, input, kept, todo))
  PROVE  IInv'
<1>1. world' = world /\ file' = file /\ faults' \in 0..MaxFaults
  BY DEF IInv, WorldTrue
<1>2. CASE file[step] = Torn
  BY <1>1, <1>2, IdleKeeps DEF Begin
<1>3. CASE file[step] # Torn
  <2> DEFINE x == Begun(step, input, kept, todo)
  <2>1. run' = x
    BY <1>3 DEF Begin, Begun
  <2>2. x \in RunState
    BY TrueEntries DEF Begun, RunState, IInv, WorldTrue
  <2>3. x.pc = "work" /\ x.step = step /\ x.results = kept /\ x.census = census
    BY DEF Begun
  <2>4. InputTrue(x)'
    BY <1>1, <2>1 DEF InputTrue, Begun, world
  <2>5. RunTrue'
    <3>1. InputTrue(run') /\ InputTrue(run)'
      BY <1>1, <2>1 DEF InputTrue
    <3>2. EntriesTrue(run'.step, run'.results) /\ Accounted(run') /\ KeptTrue(run')
      BY <2>1, <2>3
    <3>3. Accounted(run)' /\ KeptTrue(run)' /\ EntriesTrue(run.step, run.results)'
      BY <3>2 DEF Accounted, KeptTrue, EntriesTrue, FreshAt
    <3>4. run' \in RunState /\ run'.pc = "work"
      BY <2>1, <2>2, <2>3
    <3>5. QED
      BY <3>1, <3>3, <3>4 DEF RunTrue, Working
  <2>6. \A r \in Repo : run'.census[r] <= github[r]
    BY <2>1, <2>3 DEF IInv, WorldTrue
  <2>7. QED
    BY <1>1, <2>5, <2>6, RunMoves
<1>4. QED
  BY <1>2, <1>3

--------------------------------------------------------------------------------
(* What is kept of true entries is true. *)
LEMMA KeepIs ==
  ASSUME NEW entries, NEW kept \in SUBSET Known(entries)
  PROVE  Known(Keep(entries, kept)) = kept /\ \A r \in kept : Keep(entries, kept)[r] = entries[r]
BY DEF Keep, Known

(* What is kept are entries of the same kind. *)
LEMMA KeepType ==
  ASSUME NEW S, NEW entries, entries \in [Repo -> S \cup {NoEntry}], NEW kept
  PROVE  Keep(entries, kept) \in [Repo -> S \cup {NoEntry}]
BY DEF Keep

(* So they are as true as they were. *)
LEMMA KeepIsTrue ==
  ASSUME NEW s \in Steps, NEW entries, EntriesTrue(s, entries), NEW kept \in SUBSET Known(entries)
  PROVE  EntriesTrue(s, Keep(entries, kept))
<1> DEFINE new == Keep(entries, kept)
<1>1. Known(new) = kept /\ \A r \in kept : new[r] = entries[r]
  BY KeepIs
<1>2. \A r \in Repo : new[r] = entries[r] \/ new[r] = NoEntry
  BY DEF Keep
<1>3. new = [r \in Repo |-> new[r]]
  BY DEF Keep
<1> HIDE DEF new
<1>4. ASSUME s = "classification" PROVE TreesTrue(new)
  BY <1>2, <1>3, <1>4 DEF EntriesTrue, TreesTrue
<1>5. ASSUME s = "coordinates" PROVE CoordinatesTrue(new)
  BY <1>1, <1>2, <1>3, <1>5 DEF EntriesTrue, CoordinatesTrue
<1>6. ASSUME s = "audit" PROVE AuditsTrue(new)
  BY <1>1, <1>2, <1>3, <1>6 DEF EntriesTrue, AuditsTrue
<1>7. QED
  BY <1>4, <1>5, <1>6 DEF EntriesTrue, new

(* Each step begins with what it may keep. *)
LEMMA ClassifyKeeps ==
  ASSUME IInv, Classify
  PROVE  IInv'
<1> DEFINE previous == Entries("classification")
           kept == {r \in Known(previous) : previous[r].revision = census[r]}
           x == Begun("classification", previous, Keep(previous, kept), Repo \ kept)
<1>1. "classification" \in Steps /\ EntriesTrue("classification", previous)
  BY EntriesAreTrue DEF IInv, Steps
<1>2. previous \in [Repo -> Entry \cup {NoEntry}] /\ kept \subseteq Known(previous) /\ kept \subseteq Repo
  BY <1>1, TrueEntries DEF Known
<1>3. Begin("classification", previous, Keep(previous, kept), Repo \ kept)
      /\ UNCHANGED <<world, file, faults>>
  BY DEF Classify
<1> HIDE DEF previous, kept
<1>4. EntriesTrue("classification", Keep(previous, kept)) /\ Known(Keep(previous, kept)) = kept
  <2>1. kept \in SUBSET Known(previous)
    BY <1>2
  <2>2. EntriesTrue("classification", Keep(previous, kept))
    BY <1>1, <2>1, KeepIsTrue, Zenon
  <2>3. Known(Keep(previous, kept)) = kept
    BY <2>1, KeepIs
  <2>4. QED
    BY <2>2, <2>3
<1>5. x.step = "classification" /\ x.todo = Repo \ kept /\ x.results = Keep(previous, kept)
  BY DEF Begun
<1>6. InputTrue(x) /\ Accounted(x) /\ KeptTrue(x)
  BY <1>2, <1>4, <1>5 DEF InputTrue, Accounted, KeptTrue, WorkOf
<1>7. QED
  BY <1>1, <1>2, <1>3, <1>4, <1>6, BeginKeeps

LEMMA StopKeeps ==
  ASSUME IInv, StopWithoutManifests
  PROVE  IInv'
<1>1. faults' \in 0..MaxFaults
  BY DEF IInv, WorldTrue, StopWithoutManifests
<1>2. QED
  BY <1>1, IdleKeeps DEF StopWithoutManifests

(* A manifest that is kept was read by this code, at the revision that the *)
(* census sees, and is not expired.                                        *)
LEMMA FetchManifestsKeeps ==
  ASSUME IInv, FetchManifests
  PROVE  IInv'
<1> DEFINE entries == file.classification
           previous == Entries("coordinates")
           work == {r \in Known(entries) : entries[r].path # NoPath}
           kept == KeptManifests(entries, previous, work)
           x == Begun("coordinates", entries, Keep(previous, kept), work \ kept)
<1>1. "coordinates" \in Steps /\ EntriesTrue("coordinates", previous)
  BY EntriesAreTrue DEF IInv, Steps
<1>2. previous \in [Repo -> Entry \cup {NoEntry}] /\ kept \subseteq Known(previous)
      /\ work \ kept \subseteq Repo
  BY <1>1, TrueEntries DEF Known, KeptManifests
<1>3. EntriesTrue("coordinates", Keep(previous, kept)) /\ Known(Keep(previous, kept)) = kept
      /\ \A r \in kept : Keep(previous, kept)[r] = previous[r]
  <2>1. kept \in SUBSET Known(previous)
    BY <1>2
  <2> HIDE DEF previous, kept
  <2>2. EntriesTrue("coordinates", Keep(previous, kept))
    BY <1>1, <2>1, KeepIsTrue, Zenon
  <2>3. Known(Keep(previous, kept)) = kept /\ \A r \in kept : Keep(previous, kept)[r] = previous[r]
    BY <2>1, KeepIs
  <2>4. QED
    BY <2>2, <2>3
<1>4. Begin("coordinates", entries, Keep(previous, kept), work \ kept)
      /\ UNCHANGED <<world, file, faults>> /\ CheckManifests /\ run.pc = "next"
  BY DEF FetchManifests
<1>5. TreesTrue(entries) /\ (Repo # {} => HasManifest(entries))
  BY <1>4 DEF IInv, RunTrue, CheckManifests, EntriesTrue, HasManifest
<1>6. \A r \in kept : /\ previous[r].at <= clock /\ clock < previous[r].at + Ttl
                      /\ previous[r].key.code = code /\ previous[r].key.revision = census[r]
  BY DEF KeptManifests, Reusable, ManifestKey
<1>7. \A r \in kept : previous[r].status = "read" => previous[r].revision >= census[r]
  <2>1. \A r \in kept : ReadTrue(r, previous[r])
    BY <1>1, <1>2 DEF EntriesTrue, CoordinatesTrue
  <2>2. QED
    BY <1>6, <2>1 DEF ReadTrue
<1>8. x.step = "coordinates" /\ x.todo = work \ kept /\ x.results = Keep(previous, kept) /\ x.input = entries
      /\ x.began = clock /\ x.code = code /\ x.census = census
  BY DEF Begun
<1>9. WorkOf("coordinates", entries) = work
  BY DEF WorkOf
<1> HIDE DEF entries, previous, work, kept, x
<1>10. InputTrue(x)
  BY <1>5, <1>8 DEF InputTrue, entries
<1>11. Accounted(x)
  BY <1>8, <1>9 DEF Accounted
<1>12. KeptTrue(x)
  BY <1>3, <1>6, <1>7, <1>8 DEF KeptTrue, FreshAt
<1>13. entries \in [Repo -> Entry \cup {NoEntry}]
  BY <1>5 DEF TreesTrue, Entry
<1>14. QED
  BY <1>1, <1>2, <1>3, <1>4, <1>10, <1>11, <1>12, <1>13, BeginKeeps DEF x

(* What cannot be audited is written down, and nothing else. *)
LEMMA NotAuditedIs ==
  ASSUME NEW entries
  PROVE  /\ NotAudited(entries) \in [Repo -> AuditEntry \cup {NoEntry}]
         /\ Known(NotAudited(entries)) = {r \in Known(entries) : ~Auditable(entries[r])}
         /\ \A r \in Known(NotAudited(entries)) : NotAudited(entries)[r].status = "not-audited"
<1>1. [status |-> "not-audited"] \in AuditEntry
  BY DEF AuditEntry
<1>2. [status |-> "not-audited"] # NoEntry
  BY <1>1, RepositoryChainAssumption
<1>3. QED
  BY <1>1, <1>2 DEF NotAudited, Known

(* An audit that is kept was made by this code, of the package that the    *)
(* manifest names now, and is not expired.                                 *)
LEMMA AuditPackagesKeeps ==
  ASSUME IInv, AuditPackages
  PROVE  IInv'
<1> DEFINE entries == file.coordinates
           previous == Entries("audit")
           kept == {r \in Known(entries) \cap Known(previous) :
                    /\ previous[r].status = "audited"
                    /\ Reusable(previous[r], AuditKey(entries[r]))}
           skipped == NotAudited(entries)
           old == Keep(previous, kept)
           results == [r \in Repo |-> IF skipped[r] # NoEntry THEN skipped[r] ELSE old[r]]
           todo == {r \in Known(entries) : Auditable(entries[r])} \ kept
           x == Begun("audit", entries, results, todo)
<1>1. "audit" \in Steps /\ EntriesTrue("audit", previous)
  BY EntriesAreTrue DEF IInv, Steps
<1>2. previous \in [Repo -> Entry \cup {NoEntry}] /\ kept \subseteq Known(previous)
      /\ todo \subseteq Repo
  BY <1>1, TrueEntries DEF Known
<1>3. Begin("audit", entries, results, todo) /\ UNCHANGED <<world, file, faults>> /\ run.pc = "next"
      /\ run.step = "coordinates"
  BY DEF AuditPackages
<1>4. CoordinatesTrue(entries)
  BY <1>3 DEF IInv, RunTrue, EntriesTrue
<1>5. /\ kept \subseteq Known(entries)
      /\ \A r \in kept : /\ previous[r].at <= clock /\ clock < previous[r].at + Ttl
                         /\ previous[r].key.code = code /\ previous[r].key.package = entries[r].package
                         /\ previous[r].status = "audited"
  BY DEF Reusable, AuditKey
<1>6. WorkOf("audit", entries) = {r \in Known(entries) : Auditable(entries[r])}
  BY DEF WorkOf
<1>7. x.step = "audit" /\ x.todo = todo /\ x.results = results /\ x.input = entries
      /\ x.began = clock /\ x.code = code /\ x.census = census
  BY DEF Begun
<1>8. /\ skipped \in [Repo -> AuditEntry \cup {NoEntry}]
      /\ Known(skipped) = {r \in Known(entries) : ~Auditable(entries[r])}
      /\ \A r \in Known(skipped) : skipped[r].status = "not-audited"
  BY NotAuditedIs
<1>9. previous \in [Repo -> AuditEntry \cup {NoEntry}] /\ \A r \in Known(previous) : AuditTrue(r, previous[r])
  BY <1>1 DEF EntriesTrue, AuditsTrue
<1> HIDE DEF previous, kept, skipped
<1>10. old \in [Repo -> AuditEntry \cup {NoEntry}] /\ Known(old) = kept /\ \A r \in kept : old[r] = previous[r]
  <2>1. Known(old) = kept /\ \A r \in kept : old[r] = previous[r]
    BY <1>2, KeepIs
  <2>2. QED
    BY <1>9, <2>1, KeepType
<1> HIDE DEF old
<1>11. /\ results \in [Repo -> AuditEntry \cup {NoEntry}]
       /\ Known(results) = Known(skipped) \cup kept
       /\ \A r \in Known(results) : results[r].status = "not-audited" \/ (r \in kept /\ results[r] = previous[r])
  BY <1>8, <1>10 DEF Known
<1> HIDE DEF results
<1>12. EntriesTrue("audit", results)
  <2>1. \A r \in Known(results) : AuditTrue(r, results[r])
    BY <1>2, <1>9, <1>11 DEF AuditTrue
  <2>2. QED
    BY <1>11, <2>1 DEF EntriesTrue, AuditsTrue
<1>13. Known(results) \cup todo = Known(entries)
  BY <1>5, <1>8, <1>11
<1> HIDE DEF entries, todo, x
<1>14. InputTrue(x)
  BY <1>4, <1>7 DEF InputTrue, entries
<1>15. Accounted(x)
  BY <1>6, <1>7, <1>13 DEF Accounted, todo
<1>16. KeptTrue(x)
  <2>1. \A r \in Known(results) : FreshAt(x, results[r])
    BY <1>5, <1>7, <1>11 DEF FreshAt
  <2>2. \A r \in Known(results) : results[r].status = "audited" =>
            Package[<<r, results[r].revision>>] = entries[r].package
    <3>1. SUFFICES ASSUME NEW r \in Known(results), results[r].status = "audited"
                   PROVE  Package[<<r, results[r].revision>>] = entries[r].package
      OBVIOUS
    <3>2. r \in kept /\ results[r] = previous[r]
      BY <1>11, <3>1
    <3>3. AuditTrue(r, previous[r])
      BY <1>2, <1>9, <3>2
    <3>4. QED
      BY <1>5, <3>1, <3>2, <3>3 DEF AuditTrue
  <2>3. QED
    BY <1>7, <2>1, <2>2 DEF KeptTrue
<1>17. entries \in [Repo -> Entry \cup {NoEntry}]
  BY <1>4 DEF CoordinatesTrue, Entry
<1>18. QED
  BY <1>1, <1>2, <1>3, <1>12, <1>14, <1>15, <1>16, <1>17, BeginKeeps DEF x

--------------------------------------------------------------------------------
(* The workers. *)

(* An answer that is true, of what its input says, and not older than what *)
(* the census saw.                                                         *)
Fits(r, entry) ==
    /\ run.step = "classification" => entry \in TreeEntry
    /\ run.step = "coordinates" =>
         /\ entry \in Coordinates /\ ReadTrue(r, entry)
         /\ entry.status = "read" => entry.revision >= run.census[r]
    /\ run.step = "audit" =>
         /\ entry \in AuditEntry /\ AuditTrue(r, entry)
         /\ entry.status = "audited" => Package[<<r, entry.revision>>] = run.input[r].package

(* The run after an answer, field by field. *)
LEMMA AnsweredRun ==
  ASSUME NEW x \in RunState, NEW r, NEW e
  PROVE  LET y == [x EXCEPT !.todo = @ \ {r}, !.asked = @ \cup {r}, !.results[r] = e]
         IN  /\ y = [pc |-> x.pc, step |-> x.step, todo |-> x.todo \ {r}, results |-> [x.results EXCEPT ![r] = e],
                     input |-> x.input, census |-> x.census, code |-> x.code, asked |-> x.asked \cup {r},
                     began |-> x.began]
<1> DEFINE y == [x EXCEPT !.todo = @ \ {r}, !.asked = @ \cup {r}, !.results[r] = e]
<1>1. DOMAIN x = {"pc", "step", "todo", "results", "input", "census", "code", "asked", "began"}
  BY DEF RunState
<1>2. y = [f \in DOMAIN x |-> y[f]]
  OBVIOUS
<1>3. /\ y.todo = x.todo \ {r} /\ y.asked = x.asked \cup {r} /\ y.results = [x.results EXCEPT ![r] = e]
      /\ y.pc = x.pc /\ y.step = x.step /\ y.input = x.input /\ y.census = x.census /\ y.code = x.code
      /\ y.began = x.began
  BY <1>1
<1> HIDE DEF y
<1>4. y = [pc |-> x.pc, step |-> x.step, todo |-> x.todo \ {r}, results |-> [x.results EXCEPT ![r] = e],
           input |-> x.input, census |-> x.census, code |-> x.code, asked |-> x.asked \cup {r}, began |-> x.began]
  BY <1>1, <1>2, <1>3
<1>5. QED
  BY <1>4 DEF y

(* Recording such an answer keeps everything true. *)
LEMMA AnswerKeeps ==
  ASSUME IInv, NEW r \in Repo, NEW entry, NEW failed \in BOOLEAN, Answer(r, entry, failed), Fits(r, entry)
  PROVE  IInv'
<1> DEFINE x == [run EXCEPT !.todo = @ \ {r}, !.asked = @ \cup {r}, !.results[r] = entry]
<1>1. /\ run' = x /\ world' = world /\ file' = file /\ faults' \in 0..MaxFaults
      /\ run.pc = "work" /\ r \in run.todo
  <2>1. run.pc = "work" /\ r \in run.todo /\ run' = x /\ world' = world /\ file' = file
    BY DEF Answer
  <2>2. faults \in 0..MaxFaults /\ MaxFaults \in Nat
    BY RepositoryChainAssumption DEF IInv, WorldTrue
  <2>3. faults' = faults \/ (faults < MaxFaults /\ faults' = faults + 1)
    BY DEF Answer
  <2>4. QED
    BY <2>1, <2>2, <2>3
<1>2. run \in RunState /\ EntriesTrue(run.step, run.results) /\ InputTrue(run) /\ Accounted(run) /\ KeptTrue(run)
  BY <1>1 DEF IInv, RunTrue, Working
<1>3. run.results \in [Repo -> Entry \cup {NoEntry}] /\ run.step \in Steps
  BY <1>2 DEF RunState
<1>4. entry \in Entry /\ entry # NoEntry
  BY <1>3, RepositoryChainAssumption DEF Fits, Entry, Steps
<1> DEFINE results == [run.results EXCEPT ![r] = entry]
<1>5. /\ x.pc = "work" /\ x.step = run.step /\ x.todo = run.todo \ {r} /\ x.results = results
      /\ x.input = run.input /\ x.census = run.census /\ x.code = run.code /\ x.asked = run.asked \cup {r}
      /\ x.began = run.began /\ x \in RunState
  <2>1. x = [pc |-> run.pc, step |-> run.step, todo |-> run.todo \ {r}, results |-> results, input |-> run.input,
             census |-> run.census, code |-> run.code, asked |-> run.asked \cup {r}, began |-> run.began]
    BY <1>2, AnsweredRun
  <2>2. results \in [Repo -> Entry \cup {NoEntry}]
    BY <1>3, <1>4
  <2>3. QED
    BY <1>1, <1>2, <2>1, <2>2 DEF RunState
<1>6. /\ Known(results) = Known(run.results) \cup {r}
      /\ results[r] = entry /\ \A q \in Repo \ {r} : results[q] = run.results[q]
  BY <1>3, <1>4 DEF Known
<1>7. EntriesTrue(run.step, results)
  <2>1. ASSUME run.step = "classification" PROVE TreesTrue(results)
    BY <1>2, <2>1 DEF EntriesTrue, TreesTrue, Fits
  <2>2. ASSUME run.step = "coordinates" PROVE CoordinatesTrue(results)
    <3>1. CoordinatesTrue(run.results) /\ entry \in Coordinates /\ ReadTrue(r, entry)
      BY <1>2, <2>2 DEF EntriesTrue, Fits
    <3>2. results \in [Repo -> Coordinates \cup {NoEntry}]
      BY <3>1 DEF CoordinatesTrue
    <3>3. \A q \in Known(results) : ReadTrue(q, results[q])
      BY <1>6, <3>1 DEF CoordinatesTrue, Known
    <3>4. QED
      BY <3>2, <3>3 DEF CoordinatesTrue
  <2>3. ASSUME run.step = "audit" PROVE AuditsTrue(results)
    <3>1. AuditsTrue(run.results) /\ entry \in AuditEntry /\ AuditTrue(r, entry)
      BY <1>2, <2>3 DEF EntriesTrue, Fits
    <3>2. results \in [Repo -> AuditEntry \cup {NoEntry}]
      BY <3>1 DEF AuditsTrue
    <3>3. \A q \in Known(results) : AuditTrue(q, results[q])
      BY <1>6, <3>1 DEF AuditsTrue, Known
    <3>4. QED
      BY <3>2, <3>3 DEF AuditsTrue
  <2>4. QED
    BY <2>1, <2>2, <2>3 DEF EntriesTrue
<1> HIDE DEF x, results
<1>8. InputTrue(x)
  BY <1>2, <1>5 DEF InputTrue
<1>9. Accounted(x)
  BY <1>1, <1>2, <1>5, <1>6 DEF Accounted
<1>10. KeptTrue(x)
  <2>1. ASSUME x.step # "classification", NEW q \in Known(results) \ x.asked PROVE FreshAt(x, results[q])
    <3>1. q \in Known(run.results) \ run.asked /\ results[q] = run.results[q]
      BY <1>5, <1>6, <2>1 DEF Known
    <3>2. FreshAt(run, run.results[q])
      BY <1>2, <1>5, <2>1, <3>1 DEF KeptTrue
    <3>3. QED
      BY <1>5, <3>1, <3>2 DEF FreshAt
  <2>2. ASSUME x.step = "coordinates", NEW q \in Known(results), results[q].status = "read"
        PROVE  results[q].revision >= x.census[q]
    BY <1>2, <1>5, <1>6, <2>2 DEF KeptTrue, Fits, Known
  <2>3. ASSUME x.step = "audit", NEW q \in Known(results), results[q].status = "audited"
        PROVE  Package[<<q, results[q].revision>>] = x.input[q].package
    BY <1>2, <1>5, <1>6, <2>3 DEF KeptTrue, Fits, Known
  <2>4. QED
    BY <1>5, <2>1, <2>2, <2>3 DEF KeptTrue
<1>11. RunTrue'
  <2>1. InputTrue(run') /\ EntriesTrue(run'.step, run'.results) /\ Accounted(run') /\ KeptTrue(run')
    BY <1>1, <1>5, <1>7, <1>8, <1>9, <1>10 DEF x
  <2>2. InputTrue(run)' /\ EntriesTrue(run.step, run.results)' /\ Accounted(run)' /\ KeptTrue(run)'
    BY <1>1, <2>1 DEF InputTrue, Accounted, KeptTrue, EntriesTrue, FreshAt
  <2>3. run' \in RunState /\ run'.pc = "work"
    BY <1>1, <1>5 DEF x
  <2>4. QED
    BY <2>2, <2>3 DEF RunTrue, Working
<1>12. \A q \in Repo : run'.census[q] <= github[q]
  BY <1>1, <1>5 DEF IInv, WorldTrue, x
<1>13. QED
  BY <1>1, <1>11, <1>12, RunMoves

(* The tree is listed as it is, under the revision that the census saw.    *)
LEMMA ReadTreeKeeps ==
  ASSUME IInv, NEW r \in Repo, ReadTree(r)
  PROVE  IInv'
<1>1. PICK failed \in BOOLEAN :
         Answer(r, [path |-> IF failed THEN NoPath ELSE Tree[<<r, github[r]>>],
                    revision |-> run.census[r]], failed)
  BY DEF ReadTree
<1>2. run.step = "classification"
  BY DEF ReadTree
<1>3. github[r] \in Revision /\ run.census[r] \in Revision
  BY DEF IInv, WorldTrue, RunTrue, RunState
<1>4. Tree[<<r, github[r]>>] \in Path \cup {NoPath}
  BY <1>3 DEF Path
<1>5. Fits(r, [path |-> IF failed THEN NoPath ELSE Tree[<<r, github[r]>>], revision |-> run.census[r]])
  BY <1>2, <1>3, <1>4 DEF Fits, TreeEntry
<1>6. QED
  BY <1>1, <1>5, AnswerKeeps

(* The manifest is read as it is, and a repository is never behind what    *)
(* the census saw of it.                                                   *)
LEMMA ReadManifestKeeps ==
  ASSUME IInv, NEW r \in Repo, ReadManifest(r)
  PROVE  IInv'
<1>1. PICK failed \in BOOLEAN :
         LET read == ~failed /\ Tree[<<r, github[r]>>] = run.input[r].path
         IN  Answer(r, [status |-> IF read THEN "read" ELSE "unreadable",
                        key |-> [path |-> run.input[r].path, revision |-> run.census[r], code |-> run.code],
                        at |-> clock, revision |-> github[r],
                        package |-> IF read THEN Package[<<r, github[r]>>] ELSE NoPackage], failed)
  BY DEF ReadManifest
<1> DEFINE read == ~failed /\ Tree[<<r, github[r]>>] = run.input[r].path
           entry == [status |-> IF read THEN "read" ELSE "unreadable",
                     key |-> [path |-> run.input[r].path, revision |-> run.census[r], code |-> run.code],
                     at |-> clock, revision |-> github[r],
                     package |-> IF read THEN Package[<<r, github[r]>>] ELSE NoPackage]
<1>2. Answer(r, entry, failed)
  BY <1>1
<1>3. run.step = "coordinates" /\ run.pc = "work" /\ r \in run.todo
  BY <1>2 DEF ReadManifest, Answer
<1>4. github[r] \in Revision /\ run.census[r] \in Revision /\ run.census[r] <= github[r]
      /\ run.code \in Code /\ clock \in Tick
  BY DEF IInv, WorldTrue, RunTrue, RunState
<1>5. run.input[r].path \in Path
  <2>1. TreesTrue(run.input) /\ run.todo \subseteq WorkOf("coordinates", run.input)
    BY <1>3 DEF IInv, RunTrue, Working, InputTrue, Accounted
  <2>2. run.input[r] \in TreeEntry /\ run.input[r].path # NoPath
    BY <1>3, <2>1 DEF WorkOf, TreesTrue, Known
  <2>3. QED
    BY <2>2 DEF TreeEntry
<1>6. Package[<<r, github[r]>>] \in PackageOrNone /\ NoPackage \in PackageOrNone
  BY <1>4 DEF PackageOrNone
<1>7. entry \in Coordinates
  BY <1>4, <1>5, <1>6 DEF Coordinates, CoordKey
<1>8. entry.status = "read" => entry.package = Package[<<r, entry.revision>>]
  OBVIOUS
<1>9. entry.revision = github[r] /\ entry.key.revision = run.census[r]
  OBVIOUS
<1> HIDE DEF entry
<1>10. Fits(r, entry)
  BY <1>3, <1>4, <1>7, <1>8, <1>9 DEF Fits, ReadTrue, Revision
<1>11. QED
  BY <1>2, <1>10, AnswerKeeps

(* An audit is of the package in the coordinates.                          *)
LEMMA AuditOneKeeps ==
  ASSUME IInv, NEW r \in Repo, AuditOne(r)
  PROVE  IInv'
<1> DEFINE entry(status) == [status |-> status,
        key |-> [package |-> run.input[r].package, coords |-> run.input[r].key, code |-> run.code],
        at |-> clock, revision |-> run.input[r].revision]
<1>1. PICK status \in {"audited", "metadata-unavailable", "failed"} : Answer(r, entry(status), status # "audited")
  BY DEF AuditOne
<1>2. run.step = "audit" /\ run.pc = "work" /\ r \in run.todo
  BY <1>1 DEF AuditOne, Answer
<1>3. CoordinatesTrue(run.input) /\ run.todo \subseteq WorkOf("audit", run.input)
  BY <1>2 DEF IInv, RunTrue, Working, InputTrue, Accounted
<1>4. r \in Known(run.input) /\ run.input[r].status = "read"
  BY <1>2, <1>3 DEF WorkOf, Auditable
<1>5. run.input[r] \in Coordinates /\ ReadTrue(r, run.input[r])
  BY <1>3, <1>4 DEF CoordinatesTrue, Known
<1>6. run.code \in Code /\ clock \in Tick
  BY DEF IInv, WorldTrue, RunTrue, RunState
<1>7. run.input[r].package = Package[<<r, run.input[r].revision>>]
  BY <1>4, <1>5 DEF ReadTrue
<1>8. entry(status) \in AuditEntry
  BY <1>5, <1>6 DEF AuditEntry, Coordinates
<1>9. entry(status).key.package = run.input[r].package /\ entry(status).revision = run.input[r].revision
  OBVIOUS
<1> HIDE DEF entry
<1>10. Fits(r, entry(status))
  BY <1>2, <1>7, <1>8, <1>9 DEF Fits, AuditTrue
<1>11. QED
  BY <1>1, <1>10, AnswerKeeps

--------------------------------------------------------------------------------
(* The end of a step, a kill, and the world. *)

(* A file that is being written is not readable; the others are as they    *)
(* were.                                                                   *)
LEMMA TruncateKeeps ==
  ASSUME IInv, Truncate
  PROVE  IInv'
<1>1. /\ run.pc = "work" /\ run.todo = {} /\ run' = [run EXCEPT !.pc = "fill"]
      /\ file' = [file EXCEPT ![run.step] = Torn] /\ world' = world /\ faults' = faults
  BY DEF Truncate
<1>2. run \in RunState /\ EntriesTrue(run.step, run.results) /\ InputTrue(run) /\ Accounted(run) /\ KeptTrue(run)
  BY <1>1 DEF IInv, RunTrue, Working
<1>3. DOMAIN file = Steps /\ run.step \in Steps
  BY <1>2 DEF IInv, FilesTrue, RunState
<1>4. /\ run'.pc = "fill" /\ run'.step = run.step /\ run'.todo = run.todo /\ run'.results = run.results
      /\ run'.input = run.input /\ run'.census = run.census /\ run'.code = run.code /\ run'.asked = run.asked
      /\ run'.began = run.began /\ run' \in RunState
  BY <1>1, <1>2 DEF RunState
<1>5. FilesTrue'
  <2>1. DOMAIN file' = Steps /\ \A s \in Steps : Readable(s)' => s # run.step /\ Readable(s) /\ file'[s] = file[s]
    BY <1>1, <1>3 DEF Readable
  <2>2. QED
    BY <2>1 DEF IInv, FilesTrue, EntriesTrue
<1>6. InputTrue(run)'
  <2>1. run.step = "coordinates" => file'["classification"] = file["classification"]
    BY <1>1, <1>3 DEF Steps
  <2>2. run.step = "audit" => file'["coordinates"] = file["coordinates"]
    BY <1>1, <1>3 DEF Steps
  <2>3. QED
    BY <1>2, <1>4, <2>1, <2>2 DEF InputTrue
<1>7. RunTrue'
  <2>1. EntriesTrue(run.step, run.results)' /\ Accounted(run)' /\ KeptTrue(run)'
    BY <1>2, <1>4 DEF EntriesTrue, Accounted, KeptTrue, FreshAt
  <2>2. run'.todo = {}
    BY <1>1, <1>4
  <2>3. QED
    BY <1>4, <1>6, <2>1, <2>2 DEF RunTrue, Working
<1>8. WorldTrue'
  BY <1>1, <1>4 DEF IInv, WorldTrue, world
<1>9. QED
  BY <1>5, <1>7, <1>8 DEF IInv

(* What is published is what the step found. *)
LEMMA FillKeeps ==
  ASSUME IInv, Fill
  PROVE  IInv'
<1>1. /\ run.pc = "fill" /\ file' = [file EXCEPT ![run.step] = run.results]
      /\ run' = IF run.step = "audit" THEN Idle ELSE [Idle EXCEPT !.pc = "next", !.step = run.step]
      /\ world' = world /\ faults' = faults
  BY DEF Fill
<1>2. run \in RunState /\ EntriesTrue(run.step, run.results) /\ Accounted(run) /\ run.todo = {}
  BY <1>1 DEF IInv, RunTrue, Working
<1>3. DOMAIN file = Steps /\ run.step \in Steps
  BY <1>2 DEF IInv, FilesTrue, RunState
<1>4. DOMAIN file' = Steps /\ file'[run.step] = run.results /\ \A s \in Steps \ {run.step} : file'[s] = file[s]
  BY <1>1, <1>3
<1>5. FilesTrue'
  <2>1. \A s \in Steps : s # run.step /\ Readable(s)' => Readable(s)
    BY <1>4 DEF Readable
  <2>2. \A s \in Steps : Readable(s)' => EntriesTrue(s, file'[s])
    BY <1>2, <1>4, <2>1 DEF IInv, FilesTrue
  <2>3. QED
    BY <1>4, <2>2 DEF FilesTrue, EntriesTrue
<1>6. /\ run' \in RunState /\ run'.census = Idle.census /\ run'.pc \in {"idle", "next"}
      /\ run'.pc = "next" => run.step # "audit" /\ run'.step = run.step
  BY <1>1, <1>3, IdleIsTyped DEF RunState
<1>7. RunTrue'
  <2>1. run'.pc = "next" => EntriesTrue(run'.step, file'[run'.step])
    BY <1>2, <1>4, <1>6
  <2>2. run.step = "classification" => Known(run.results) = Repo
    BY <1>2 DEF Accounted
  <2>3. run'.pc = "next" /\ run'.step = "classification" => Known(file'["classification"]) = Repo
    BY <1>4, <1>6, <2>2
  <2>4. run'.pc = "next" => run'.step # "audit"
    BY <1>6
  <2>5. run'.pc \notin {"work", "fill"}
    BY <1>6
  <2>6. EntriesTrue(run.step, file[run.step])' <=> EntriesTrue(run'.step, file'[run'.step])
    BY DEF EntriesTrue
  <2>7. QED
    BY <1>6, <2>1, <2>3, <2>4, <2>5, <2>6 DEF RunTrue, Working
<1>8. WorldTrue'
  <2>1. \A r \in Repo : github[r] \in Revision
    BY DEF IInv, WorldTrue
  <2>2. \A r \in Repo : run'.census[r] <= github[r]
    BY <1>6, <2>1, IdleIsTyped DEF Revision
  <2>3. QED
    BY <1>1, <2>2 DEF IInv, WorldTrue, world
<1>9. QED
  BY <1>5, <1>7, <1>8 DEF IInv

LEMMA KillKeeps ==
  ASSUME IInv, Kill
  PROVE  IInv'
<1>1. faults \in 0..MaxFaults /\ MaxFaults \in Nat /\ faults < MaxFaults /\ faults' = faults + 1
  BY RepositoryChainAssumption DEF IInv, WorldTrue, Kill
<1>2. faults' \in 0..MaxFaults
  BY <1>1
<1>3. QED
  BY <1>2, IdleKeeps DEF Kill

(* Pushes, a census, time and deployments touch neither the files nor the  *)
(* run, and a repository only moves on.                                    *)
LEMMA WorldKeeps ==
  ASSUME IInv, World
  PROVE  IInv'
<1>1. file' = file /\ run' = run
  BY DEF World, Push, Census, Wait, Deploy, ClockBack
<1>2. FilesTrue'
  BY <1>1 DEF IInv, FilesTrue, Readable
<1>3. RunTrue'
  BY <1>1 DEF IInv, RunTrue, Working, InputTrue
<1>4. /\ clock \in Tick /\ code \in Code /\ faults \in 0..MaxFaults
      /\ github \in [Repo -> Revision] /\ census \in [Repo -> Revision]
      /\ \A r \in Repo : census[r] <= github[r] /\ run.census[r] <= github[r]
  BY DEF IInv, WorldTrue
<1>5. {MaxRevision, LastTick, MaxDeploys, MaxFaults} \subseteq Nat
  BY RepositoryChainAssumption
<1>6. WorldTrue'
  <2>1. ASSUME NEW r \in Repo, Push(r) PROVE WorldTrue'
    <3>1. github' \in [Repo -> Revision] /\ \A q \in Repo : github[q] <= github'[q]
      BY <1>4, <1>5, <2>1 DEF Push, Revision
    <3>2. \A q \in Repo : /\ census[q] \in Int /\ github[q] \in Int /\ github'[q] \in Int /\ run.census[q] \in Int
      BY <1>4, <3>1 DEF IInv, RunTrue, RunState, Revision
    <3>3. QED
      BY <1>1, <1>4, <2>1, <3>1, <3>2 DEF Push, WorldTrue
  <2>2. CASE Census
    <3>1. \A q \in Repo : github[q] <= github[q]
      BY <1>4 DEF Revision
    <3>2. QED
      BY <1>1, <1>4, <2>2, <3>1 DEF Census, WorldTrue
  <2>3. CASE Wait
    BY <1>1, <1>4, <1>5, <2>3 DEF Wait, WorldTrue, Tick
  <2>4. CASE Deploy
    BY <1>1, <1>4, <1>5, <2>4 DEF Deploy, WorldTrue, Code
  <2>5. CASE ClockBack
    BY <1>1, <1>4, <1>5, <2>5 DEF ClockBack, WorldTrue, Tick
  <2>6. QED
    BY <2>1, <2>2, <2>3, <2>4, <2>5 DEF World
<1>7. QED
  BY <1>2, <1>3, <1>6 DEF IInv

--------------------------------------------------------------------------------
(* The invariant holds in every reachable state. *)
LEMMA InitIInv == Init => IInv
<1> SUFFICES ASSUME Init PROVE IInv
  OBVIOUS
<1>1. 1 \in Revision /\ 0 \in Code /\ 0 \in Tick /\ 0 \in 0..MaxFaults
  BY RepositoryChainAssumption DEF Revision, Code, Tick
<1>2. WorldTrue
  BY <1>1, IdleIsTyped DEF Init, WorldTrue
<1>3. FilesTrue
  BY DEF Init, FilesTrue, Readable
<1>4. RunTrue
  BY IdleIsTyped DEF Init, RunTrue, Working
<1>5. QED
  BY <1>2, <1>3, <1>4 DEF IInv

LEMMA NextIInv == IInv /\ [Next]_vars => IInv'
<1> SUFFICES ASSUME IInv, [Next]_vars PROVE IInv'
  OBVIOUS
<1>1. CASE UNCHANGED vars
  BY <1>1 DEF vars, world, IInv, WorldTrue, FilesTrue, Readable, RunTrue, Working, InputTrue
<1>2. CASE Step
  BY <1>2, StopKeeps, FetchManifestsKeeps, AuditPackagesKeeps, ReadTreeKeeps, ReadManifestKeeps, AuditOneKeeps,
     TruncateKeeps, FillKeeps DEF Step, Work
<1>3. QED
  BY <1>1, <1>2, ClassifyKeeps, KillKeeps, WorldKeeps DEF Next

LEMMA SpecIInv == Spec => []IInv
BY InitIInv, NextIInv, PTL DEF Spec

--------------------------------------------------------------------------------
(* A step publishes at its end, and nothing but its results. *)
LEMMA PublishedIsFilled ==
  ASSUME IInv, [Next]_vars, NEW name \in Steps, Published(name)
  PROVE  /\ run.step = name /\ run.pc = "fill" /\ file'[name] = run.results
         /\ EntriesTrue(name, run.results) /\ InputTrue(run) /\ Accounted(run) /\ KeptTrue(run)
<1>1. DOMAIN file = Steps
  BY DEF IInv, FilesTrue
<1>2. Readable(name)' /\ file' # file
  BY DEF Published
<1>3. Truncate \/ Fill
  BY <1>2 DEF Next, Step, Work, Classify, StopWithoutManifests, FetchManifests, AuditPackages,
     ReadTree, ReadManifest, AuditOne, Answer, Kill, World, Push, Census, Wait, Deploy, ClockBack, vars
<1>4. run.step \in Steps
  BY DEF IInv, RunTrue, RunState
<1>5. run.step = name
  BY <1>1, <1>3, <1>4 DEF Truncate, Fill, Published
<1>6. ~Truncate
  BY <1>1, <1>2, <1>5 DEF Truncate, Readable
<1>7. run.pc = "fill" /\ file'[name] = run.results
  BY <1>1, <1>3, <1>5, <1>6 DEF Fill
<1>8. QED
  BY <1>5, <1>7 DEF IInv, RunTrue, Working

(* Whatever a step publishes without having asked for it was seen by the   *)
(* same code, not after the step began, and is not expired, even when the  *)
(* clock was put back (cache.mjs, 12-16).                                  *)
THEOREM EvidenceIsFresh == Spec => FreshEvidence
<1> DEFINE Fresh == \A name \in {"coordinates", "audit"} : Published(name) =>
        \A r \in Known(file'[name]) \ run.asked :
            LET e == file'[name][r]
            IN  e.status # "not-audited" =>
                    /\ e.at <= run.began /\ run.began < e.at + Ttl
                    /\ e.key.code = run.code
<1>1. IInv /\ [Next]_vars => Fresh
  <2> SUFFICES ASSUME IInv, [Next]_vars, NEW name \in {"coordinates", "audit"}, Published(name),
                      NEW r \in Known(file'[name]) \ run.asked
               PROVE  FreshAt(run, file'[name][r])
    BY DEF FreshAt
  <2>1. name \in Steps
    BY DEF Steps
  <2>2. run.step = name /\ file'[name] = run.results /\ KeptTrue(run)
    BY <2>1, PublishedIsFilled
  <2>3. QED
    BY <2>2 DEF KeptTrue
<1>2. QED
  BY <1>1, SpecIInv, PTL DEF Spec, FreshEvidence

(* Through both caches: what is published belongs to what the census saw,  *)
(* a run that found no manifest replaces nothing, and every coordinate is  *)
(* accounted for (fetch-manifests.mjs, audit-packages.mjs, and the stop of *)
(* repository-chain.sh).  Only a census without any repository goes past   *)
(* that stop with nothing.                                                 *)
THEOREM EvidenceStays ==
  ASSUME Repo # {}
  PROVE  Spec => EvidenceIsNotLost
<1>1. IInv => TypeOK
  <2> SUFFICES ASSUME IInv PROVE TypeOK
    OBVIOUS
  <2>1. {"classification", "coordinates", "audit"} = Steps
    BY DEF Steps
  <2>2. \A s \in Steps : \/ Readable(s) /\ Entries(s) = file[s] /\ EntriesTrue(s, file[s])
                         \/ Known(Entries(s)) = {}
    BY IdleIsTyped DEF IInv, FilesTrue, Entries
  <2>3. \A r \in Known(Entries("classification")) : file.classification[r] \in TreeEntry
    BY <2>1, <2>2 DEF EntriesTrue, TreesTrue, Known
  <2>4. \A r \in Known(Entries("coordinates")) : file.coordinates[r] \in Coordinates
    BY <2>1, <2>2 DEF EntriesTrue, CoordinatesTrue, Known
  <2>5. \A r \in Known(Entries("audit")) : file.audit[r] \in AuditEntry
    BY <2>1, <2>2 DEF EntriesTrue, AuditsTrue, Known
  <2>6. /\ run.pc \in {"idle", "work", "fill", "next"} /\ run.step \in Steps
        /\ run.todo \subseteq Repo /\ run.asked \subseteq Repo
    BY DEF IInv, RunTrue, RunState
  <2>7. QED
    BY <2>3, <2>4, <2>5, <2>6 DEF IInv, WorldTrue, TypeOK
<1> DEFINE Current ==
        /\ Published("coordinates") =>
            \A r \in Known(file'.coordinates) :
                file'.coordinates[r].status = "read" =>
                    file'.coordinates[r].revision >= run.census[r]
        /\ Published("audit") =>
            \A r \in Known(file'.audit) :
                file'.audit[r].status = "audited" =>
                    Package[<<r, file'.audit[r].revision>>] = file.coordinates[r].package
           Stops == Published("coordinates") =>
                        \E r \in Known(file.classification) : file.classification[r].path # NoPath
           AllThere == Published("audit") => Known(file'.audit) = Known(file.coordinates)
<1>2. IInv /\ [Next]_vars => Current
  <2> SUFFICES ASSUME IInv, [Next]_vars PROVE Current
    OBVIOUS
  <2>1. ASSUME Published("coordinates"), NEW r \in Known(file'.coordinates),
               file'.coordinates[r].status = "read"
        PROVE  file'.coordinates[r].revision >= run.census[r]
    BY <2>1, PublishedIsFilled DEF KeptTrue, Steps
  <2>2. ASSUME Published("audit"), NEW r \in Known(file'.audit), file'.audit[r].status = "audited"
        PROVE  Package[<<r, file'.audit[r].revision>>] = file.coordinates[r].package
    <3>1. /\ run.step = "audit" /\ file'.audit = run.results /\ KeptTrue(run)
          /\ file.coordinates = run.input
      BY <2>2, PublishedIsFilled DEF InputTrue, Steps
    <3>2. QED
      BY <2>2, <3>1 DEF KeptTrue
  <2>3. QED
    BY <2>1, <2>2
<1>3. IInv /\ [Next]_vars => Stops
  BY PublishedIsFilled DEF InputTrue, HasManifest, Steps
<1>4. IInv /\ [Next]_vars => AllThere
  <2> SUFFICES ASSUME IInv, [Next]_vars, Published("audit") PROVE Known(file'.audit) = Known(file.coordinates)
    OBVIOUS
  <2>1. /\ run.step = "audit" /\ file'.audit = run.results /\ run.pc = "fill"
        /\ file.coordinates = run.input /\ Known(run.results) \cup run.todo = Known(run.input)
    BY PublishedIsFilled DEF InputTrue, Accounted, Steps
  <2>2. run.todo = {}
    BY <2>1 DEF IInv, RunTrue
  <2>3. QED
    BY <2>1, <2>2
<1>5. Spec => []TypeOK
  BY <1>1, SpecIInv, PTL
<1>6. Spec => NotOlderThanCensus
  BY <1>2, SpecIInv, PTL DEF Spec, NotOlderThanCensus
<1>7. Spec => EmptyStops
  BY <1>3, SpecIInv, PTL DEF Spec, EmptyStops
<1>8. Spec => EveryCoordinateAccountedFor
  BY <1>4, SpecIInv, PTL DEF Spec, EveryCoordinateAccountedFor
<1>9. QED
  BY <1>5, <1>6, <1>7, <1>8 DEF EvidenceIsNotLost
================================================================================
