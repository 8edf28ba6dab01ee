# AgentGate in TLA+

TLA+ models of AgentGate, the TLC runs that check them on small instances, and
theorems about them that TLAPS proves for every instance. Paths are relative to
the repository root as `src/...`; `PROJECT.json` maps each definition to the
lines it models and lists components, runs, mutants, findings, hazards and
theorems.

    tlc -config MCGateway.cfg MCGateway.tla      # a run
    tlapm GatewayProofs.tla                      # a proof module

Contents: 1 the system, 2 the modules, 3 the runs, 4 bounds, 5 fairness,
6 the proofs, 7 what disagrees with the documentation, 8 further deviations,
9 what is not modelled, 10 what could come next.

## 1. The system

AgentGate is a set of small node programs with one claim in common: *"clean" is
never said of something that was not measured*. They do not call each other.
They meet in the files of one data directory, which cron jobs rewrite and
nothing locks.

| Component | State it keeps | Operations | Meets the others through |
|---|---|---|---|
| Gateway proxy (`packages/gateway`) | two line buffers, counters, a call log | data events of two streams, exit of the server, kill | the policy file; the streams of a client and a server |
| Trust index pipeline (`packages/collect/scripts`, `src/repository-records.mjs`, `src/execution.mjs`) | `census.json`, `guard.json`, `index.json` | refresh = audit the registry, scan packages, join | the data directory |
| Topic census (`packages/collect/github-census.mjs`) | `github.json`, one checkpoint per mode | full and incremental census, split, checkpoint, resume | `github.json`, read by the classification and the join |
| Repository chain (`scripts/repository-chain.sh`) | classification, manifests, package audit, their caches | four steps, each incremental | the same data directory, the same `index.json` |
| Capture ledger, daily snapshot (`packages/history`, `scripts/daily-*`) | `ledger.jsonl`, `snapshots/`, day archives, diffs, `previous.json` | capture, verify, backfill | reads `index.json` while it is rewritten |
| Policy gate (`agentgate check`, `audit`) | none beyond the call | run the guard's checks, evaluate a policy, exit code | reads a tree, a policy and an index |
| HTTP service (`packages/service`) | index cache, token buckets, counters | requests, shutdown | reads `index.json` and the ledger |
| Health check (`service/src/healthcheck.mjs`) | a state file, mails | probe, compare, alert, repeat, recover | probes the service, verifies the ledger, dates the backups |
| MCP server (`packages/mcp`) | a line buffer | requests answered as they become ready | reads the index |
| Backup (`packages/backup`) | archives, manifests | copy, prune, restore drill | copies the data directory while jobs write it |
| Watch archive (`packages/watch`) | a chained log, snapshots | capture, push, prune, verify | the evidence pack reads it |
| Review of critical findings (`scripts/review-criticals.mjs`) | a baseline of reviews | report, accept | reads the index of a day |
| Inventory report and page (`packages/inventory`, `site/inventory-page.mjs`) | the page: text, files being read, results, choices, preview | compare, choose, reset, preview, download | reads an index |
| Evidence pack (`packages/pack`) | a directory of five files | write, verify | reads an inventory, the watch archive and the gateway's log |
| Diff, verify, guard rules, rendering, site | none beyond the call | pure functions over documents | read what the others wrote |

What is hard about it:

* **Interleaving over files.** `refresh`, the repository chain and the daily job
  overlap; a reader meets a file that was emptied and not filled yet, or
  artifacts of two different generations, or another file at its next read.
* **Kills between two steps.** Each job is a sequence of writes that a reboot or
  an out-of-memory kill can cut anywhere; what is written first decides what a
  later run believes.
* **Partial answers.** A request, a check or a file fails, and the absence of
  its answer must not turn into "nothing found".
* **Framing.** The gateway and the MCP server decide about lines, and the bytes come
  in chunks, each of which is decoded on its own.
* **Answers that come late or out of order.** Microtasks behind synchronous
  writes in the MCP server, a file being read while a person goes on, a deadline
  that races the last response.
* **Resuming and incrementality.** A census that picks up a checkpoint, or asks
  only for what changed, must end with what a full one would have.

What makes each component correct:

* gateway: no refused call reaches the server and no forbidden tool is
  advertised; every line is forwarded or answered once, in order; the log is
  ahead of the effect, the counters agree with it;
* pipeline: clean means measured on the release the record names; a verdict
  never outruns its execution record; one record per server; a bad index heals;
* census: complete or said to be truncated, across paging, splits, failures,
  kills and incremental runs; little of what was done is done again; it ends;
* chain: an audit is of what the repository declares, not older than the census
  that asked for it; nothing stale is published again as new; a failure is
  neither kept nor lost;
* ledger: a chain that verifies, evidence before claims, one line per capture,
  and a captured day for every day the job is being started;
* gate: exit code 0 only over what was measured and not refused, for every root;
* audit of a package: a network that fails makes it incomplete, and neither
  clean nor accused;
* history: whatever is lost, put back and rebuilt, lines tell of captures that
  were made, and "missing", "stale" and "verified" mean what they say;
* service: an answer is of an index the file had while it was made; a budget is
  never exceeded; a shutdown ends, and with 0 only if nothing was dropped;
* health check: what was not measured is a problem; a failure that lasts is told
  again and again, its end once;
* MCP server: one answer for each line that wants one, whatever the chunks;
* backup: what the drill passes can be restored, and pruning leaves such a one;
* watch, review, page, pack: "no change", "reviewed", "matched" and "verified"
  are never said of something else than what was compared.

## 2. The modules

A component has a module with its actions (`X.tla`). What it should satisfy is in
`XProps.tla` for the gateway, the gate, the daily job, the refresh and the census,
and at the end of `X.tla` for the others; an instance for TLC is in an `MC`
module with its `.cfg` files; proofs are in `XProofs.tla` (section 6). Operators whose name
begins with `Mut` are the mutants: how that definition would read with a plausible
bug. They stand next to the definition they vary and nothing else uses them.

| Module | Role | Checked in |
|---|---|---|
| `PolicyFilter` | abstract: lines arrive, each in its turn is delivered or refused | `MCGateway` |
| `Gateway` | `proxy.mjs` with `decide.mjs` | `MCGateway` |
| `CaptureLog` | abstract: an append-only log of captures, no two in a row the same | `MCDailySnapshot` |
| `Ledger` | the pure part of `ledger.mjs`: lines, hashes, verification | `MCDailySnapshot` |
| `DailySnapshot` (extends `Ledger`) | `daily-job.sh`, `daily-snapshot.mjs`, `appendCapture` | `MCDailySnapshot` |
| `History` | `agentgate history`: verification, gaps, age, backfill | `MCCommands` |
| `GithubCensus` | `github-census.mjs` | `MCGithubCensus` |
| `RepositoryChain` | `classify-repositories.mjs`, `fetch-manifests.mjs`, `audit-packages.mjs`, `cache.mjs`, `repository-chain.sh` | `MCRepositoryChain` |
| `Verdict` | the pure part of the join: what may be called clean | `MCRefresh` |
| `Refresh` (extends `Verdict`) | `mcp-audit`, `guard-scan`, `build-index`, the end of the chain | `MCRefresh` |
| `RegistryAudit` (extends `Verdict`) | how one package is judged: `mcp-audit.mjs`, `audit-packages.mjs`, `provenance.mjs` | `MCCommands`, `MCRegistryAudit` |
| `PolicyGate` (extends `Verdict`) | `check` and `audit` | `MCPolicyGate` |
| `RateLimiter`, `IndexQueries` | the token buckets; the routes over an index | `MCIndexService` |
| `IndexService` (extends both) | the HTTP service | `MCIndexService` |
| `HealthCheck` | the hourly check and its mails | `MCCommands` |
| `McpTools` | `lookup_server`, `coverage_report` | `MCCommands` |
| `McpServer` (extends `McpTools`) | the line reader and the order of answers | `MCCommands` |
| `Backup` | backup, pruning, restore drill | `MCCommands` |
| `WatchArchive` | `watch.mjs` | `MCCommands` |
| `ReviewCriticals` | `review-criticals.mjs` | `MCCommands` |
| `Inventory` | the join of a list of tools with an index | `MCCommands` |
| `InventoryPage` (extends `Inventory`) | the handlers of the page | `MCCommands` |
| `EvidencePack` | `pack.mjs`, `classes.mjs` | `MCCommands` |
| `GatewayProofs`, `DailySnapshotProofs`, `RefreshProofs`, `PolicyGateProofs`, `IndexServiceProofs`, `RepositoryChainProofs`, `CommandProofs`, `RegistryAuditProofs` | the theorems | TLAPS |

`MCCommands` adds up nine specifications that share nothing: a behaviour belongs
to one program, chosen in its first state, and the variables of the others do
not move.

### Gateway

A stream is a sequence of fragments. A line is written as two fragments, the
second of which carries the newline, so a chunk may end inside a line.
`ClientData` is the `data` event: it moves any number of fragments from the pipe
into `clientBuffer` (line 91 of `proxy.mjs`). The code decodes each chunk on its
own (`chunk.toString()`): where the two halves of a line meet inside a character of
several bytes, a chunk that ends there makes another text of it. Which lines have
their middle there, and what they become, is in `ClientGarbled` and
`ServerGarbled`; `Decoded` makes it when a chunk begins with the second half, and
`Readings` is what a line can be read as. A line is cut inside a character at most
once; how many bytes the replacement characters have is not weighed. A blank line,
which both loops skip, is part of the line after it.
`HandleClientLine` takes the first
complete line out of the buffer and puts into `todo` what `handleClientLine`
does with it, in the order the code does it: a log entry per call, then the
write to the server or the refusal. `Effect` carries one of them out. JavaScript
runs an event to its end, so no other event is served while `todo` is not empty;
a kill (`Killed`) does come in between, and that is why the effects are separate
steps. The server's side is the same with `HandleServerLine` (`handleServerLine`
and `filterMessage`). `OnChildExit`
is the `exit` event, which writes its log line and ends the gateway.

A request is the record `[method, tool, id]`, a response the set of tools it
advertises. Which tool names a policy pattern matches is the constant
`Matches`; a missing, empty or non-string name is `NoName`, which the code
refuses. With `LogFails` an append to the log may throw: the code swallows that
and goes on.

### DailySnapshot and Ledger

One action per file operation, in program order. A version of the index is its
own digest (the hash is injective); a hash of the chain is the sequence of the
captures it covers, which is what makes `prev` comparable. The index is read
five times in one run, as in the code, and may be another one each time, or one
that is only half written: `OtherBegins` and `OtherEnds` are its rewriting by
`repository-chain.sh` (80-82) or by a refresh that somebody starts, at any moment
and with no lock. `steady` of a run says that nobody has rewritten the index since
the run parsed it, and `mixed` is what runs have written that were not steady (a
line, an archive, `previous.json`): history, on which no step decides. A
file is `NoFile`, a version, or `Torn`. `Crash` ends a job; if it was in the
middle of a write to a file in `Tears`, that file is left torn. A torn ledger
line has no newline, so the next append is glued to it (`AppendLine`).
`daily-job.sh` runs the snapshot also when the refresh failed (`RefreshFails`).

### History

The same files as days go by, a capture being one step. An index is the day it
was built (`generatedAt`) and a number; a line is referenced by everything that
is on it, so a line that was changed is no longer what the next one names. What
befalls the directory is in `Accident`: the ledger is lost or an older copy is
put back, an archive is lost or torn, a snapshot damaged or pruned, a line
changed or its append cut short. `BeginBackfill`, `BackfillDay` and
`EndBackfill` are `backfill` and the verification after it; captures go on
between them. `Verify` is the command without it. `made` is history: what was
captured on which day.

### GithubCensus

GitHub is a function from repositories to the day of their last push; the search
answers from its present state, `Page` items at a time, and shows at most `Cap`
of a slice. `run` holds the locals of `collectTopic`. `Begin` takes the place of
the seed by the partial file if it can be read. `FetchPage`, `RequestFails` and
`GiveUp` are the three outcomes of a request; `FinishSlice` is the end of a
slice, with its checkpoint, its split, and the order the two have in the code.
The partial file is never deleted, and an incremental run has one of its own.

### RepositoryChain

A repository is at a revision, which is also its push date: the census knows
the revision it saw, a request is answered from the present one. What the tree
of a revision has for a manifest and which package that declares are the
constants `Tree` and `Package` (a package stands for the name, version and
digest that were read). The three steps have the same shape in the code and
share their actions here: `Begin` reads the inputs and the last output and
divides the work into what is kept and what is asked for (`Classify`,
`FetchManifests` and `AuditPackages` say how), `Answer` is one answer of the
pool with its checkpoint, in any order (`ReadTree`, `ReadManifest`, `AuditOne`
say which answers there are), `Truncate` and `Fill` overwrite the output. Between
the first two is the stop of the script. `asked` and `began`, and the revision in
a manifest entry and in an audit entry, are what was really read and when; no
step decides on them.

### Verdict and Refresh

A finding is its severity; a block of evidence is its status and its findings.
`Verdict` is `deriveVerdict`, the execution record and `aggregateVerdict`, with
the rule of `coverage.mjs` that a claim needs a complete execution. `Refresh`
runs any number of daily refreshes and chains at once. A run is in one of the
phases of its scripts; in the two phases with a worker pool it has a set of
things to do and takes them in any order. A file is emptied (`Truncate`) and
then filled (`Fill`). `Kill` loses what was in memory. The variable `measured`
is history: on which release of which server a check really ran. Of
`repository-chain.sh` only the last two steps are here; what its classification
says and which packages it could read are the constants `Repo` and `Declared`.

### PolicyGate

A check reads files in one of four ways (`Way`), which differ in what they do
with a file that is refused or does not parse. `RunCheck` runs the next check of
the next root: it completes, with findings and files noted as unparsed, or it
throws and is recorded as failed. `Evaluate` is the policy over the findings and
the index records of that root; `MissingRoot` is audit's answer to a root that
is not there; `FatalInput` is exit code 3; `Aggregate` is the end. `command`
says whether it is `check` (one root) or `audit` (all).

### RegistryAudit

A text is what the patterns see in it: marks in its code, and marks inside
strings and comments. `FetchDocument` and `FetchScript` are the requests, each of
which may be answered, refused, not answered, or answered from elsewhere; a file
is asked of two CDNs in turn. For a file an answer from elsewhere is thrown away. For
a document the code does not look where it comes from (`mcp-audit.mjs`, 471-476,
542-547): a 404 from there is a 404, and a document from there (`elsewhere` of the
subject) is the one that is judged; `astray` is history and says that this happened. `RefuseName` and `RefuseScript` are what is not
asked for. `Judge` makes the row: the rules (`auditPackage`, `auditPypiPackage`)
and whether the evidence is complete (`registryProvenance`). A subject carries
what is really published, which only the properties look at.

### IndexService, RateLimiter, IndexQueries

A request is handled in one turn of the event loop, in which `Stat` and `Read`
of the index are two steps, because other processes write the file
(`TruncateIndex`, `FillIndex`). `during` is history: the contents the file had
in this turn. A connection has one request at a time (`Ask`, `BeginTurn`,
`Flushed`, `AskAgain`, `Leave`). `Signal` begins the shutdown; `ServerClosed`
and `Deadline` are its two ends. `allow` and `evict` are the limiter.

### HealthCheck

What each source would answer now is the record `world`, which changes between
two probes. `Probe` asks the next source; `WriteState` decides and writes the
state file before the mail is sent, as the code does; `MailSent` and `MailFails`
end the run. `KillCheck` may leave a torn state file. Time is what passed since
the last alert, up to the interval of the repeats.

### McpTools and McpServer

The piece `k` of the `i`-th line is `<<i, k>>`, its newline `<<i, 0>>`. Chunks are
decoded one by one here too: a line of `Garbled` has its first two pieces meet inside
a character of several bytes, and `cut` remembers the lines of which a chunk held
only one of the two. Such a line is read as `Garbled` says (`ReadAs`). `OnData`
takes any number of pieces from the pipe and does all that one callback does:
refusals at once, messages as microtasks, of which one that calls a tool takes a
turn more. `Microtask` runs the next. `Stop` is the end of the input. `push`
feeds a server (what it keeps, its answers, its queue) the pieces one by one, and
`computeCoverage` tallies the records one by one: recursive functions, as the code's
loops. `lookupServer` and `countFindings` are by the positions of the records and
findings that are asked for.

### Backup

`CountCaptures`, `Copy` and the tar are steps between which other jobs rewrite
the index and append to the ledger; a digest is the file itself. A partial
archive has the final name. `Prune` and the drill look at names and ages as the
code does.

### WatchArchive, ReviewCriticals, InventoryPage, EvidencePack

`WatchArchive`: a run reads the log, writes the snapshot, the line, and pushes; a
kill is possible between and inside. One that cuts a line short leaves text that does
not parse (`KillInLine`), one that cuts only its newline leaves a line to which the
next is glued (`KillBeforeNewline`, `ending`). The hash of a line is the sequence of
what was recorded up to it (`HashOf`), so that equal hashes mean equal histories.
`ReviewCriticals`: the matching of findings
with reviews, the report and the acceptance, over days on which the index is
built again. `InventoryPage`: one action per handler, and a file whose text
comes when it comes. `EvidencePack`: the classes of evidence and the answers, the
five files in the order they are written, the seal, what may be lost, and
`verify`.

## 3. The runs

Passing runs. Each of their properties has a mutant that breaks it. Where several
statements are about one component, the run checks their conjunction under one
name, defined after its parts; the type invariant of the component is the first
of them.

* **gateway** (`MCGateway.cfg`, 179 000 states). Two lines from the client, of
  five kinds (not JSON, an allowed call, a refused call, two batches), and two
  from the server, chunked in every way, inside a character too, with a kill possible
  between any two effects. Where a property speaks of what was written it means what
  the gateway decoded of it, one text per line, and of a line that no chunk cut in a
  character that is what was written. `NoForbiddenReachesServer`, `NoForbiddenAdvertised`: the policy is
  enforced. `LogAndStatsAgree`: there is no moment at which a call is with the
  server, or a refusal with the client, and the log has no decision for it
  (`LogWrittenAhead`), and the counters agree with what was forwarded and refused
  (`StatsAgree`). `ServerStreamFiltered`: the server's lines, as they were read, arrive
  filtered, in order, once. `FilterSpec`: the gateway implements `PolicyFilter`.
  `EveryLineDecided`: a finished line is forwarded or answered, unless the gateway
  dies.
* **daily** (`MCDailySnapshot.cfg`, 1.14 million states, a minute and a half). One
  job at a time, two days, two refreshes, a rewrite of the index by something else at
  any step, a kill at any step, a torn day archive. `NoChainBreak` and
  `NoEvidenceProblem` are what `verifyLedger` looks for: the chain is whole whoever
  rewrites the index, and only the line of a run under which it was rewritten
  disagrees with its snapshot. `EvidenceKept`: a line
  never refers to a snapshot that is not there; `PreviousIsRecorded`: the next
  diff starts from a recorded capture; `ArchiveIsACapture`: an archive is a
  capture the ledger has for that day, even if the run passes midnight (both unless
  the index was rewritten under the run that wrote the file); `LogSpec`:
  the ledger implements `CaptureLog`; `DayCaptured`: a day that lasts is captured,
  unless a half-written index has become `previous.json`. What these leave out is
  told in section 8.
* **census** (`MCCensus.cfg`). A slice that overflows and splits, failing
  requests, a push between the runs, then an incremental census.
  `CompleteUnlessReported`: a census, full or incremental, is complete or says it
  is truncated; `RunsEnd`.
* **census_resume** (`MCCensusResume.cfg`, 105 000 states). Kills at any step and
  resumes, with torn files, no overflow. `ResumeLosesNothing`:
  `CheckpointHoldsItsSlices`: what the checkpoint calls done, it holds;
  `LittleIsRefetched`: of the slices a run has finished fewer than `CheckpointEvery`
  are not in the checkpoint and would be asked for again after a kill;
  `NothingKnownIsRefetched`: a slice that the checkpoint has is not asked for;
  `CompleteUnlessReported`.
* **chain** (`MCRepositoryChain.cfg`, 176 000 states). Runs of the chain without
  end over a repository whose manifest changes and one whose manifest moves; a
  push or a deployment between any two steps, an observation that expires, and two
  faults: failed requests, kills, a clock put back. `EvidenceIsNotLost`:
  `NotOlderThanCensus`: through both caches, what is published is of the revision
  that the census saw or of a later one, and an audit is of the package its
  manifest names. `EmptyStops`: a run that found no manifest at all leaves the
  artifacts alone; `EveryCoordinateAccountedFor`. `FreshEvidence`: what was not
  asked for is neither expired, nor dated in the future, nor by other code.
  `EventuallyAudited`: a failure is asked for again until there is an answer.
* **refresh** (`MCRefresh.cfg`, 217 000 states, about a minute). A refresh and a
  chain that overlap over one data directory, a server that publishes a new
  version in the middle, two servers that name the same package, one of which
  guard-scan takes; one failure or kill; `github.json` torn at any time.
  `CleanMeansMeasured`: whatever generations were joined, a clean record was
  measured, on its very release, and has nothing at the threshold.
  `IndexIsConsistent`: `VerdictsAreReasoned`: each verdict has its reason in the
  record itself, which is what recounts the index; `OneRecordEach`. `IndexComesBack`:
  again and again the index is whole and current.
* **gate** (`MCPolicyGate.cfg`, 807 000 states). `check` and `audit` over every
  combination of three files in six states, seven sets of records (among them one
  without an execution record), six pairs of policies and two selections of checks. `PartialNeverPasses`,
  `RefusedNeverPasses`: exit code 0 means all of it was read and measured, and
  nothing refused was there. `VerdictsAgree`: `ExitAgrees`: verdict and exit code
  of an audit, computed in two ways by the code, agree and no root is left out;
  `EntryIsItsOwn`: a root neither helps nor hurts another.
* **service** (`MCIndexService.cfg`, 86 000 states). Two addresses, one of them
  loopback, two requests, one rewrite of the index between any two steps.
  `AnswerIsCurrent`: an answer is from an index the file had while the request was
  handled; the sample only if the file was unreadable then. `ServiceIsRight`:
  `BudgetKept`: however buckets refill, idle and are evicted;
  `CleanExitAnswersAll`: exit 0 leaves no request without its answer.
  `EveryoneIsServed`: `EveryRequestAnswered` and `ShutdownEnds`, and what the
  routes say of that index, `ExactNameAnswered` and `SummaryAddsUp`.
* **commands** (`MCCommands.cfg`, 363 000 states, two minutes): the nine
  programs of `MCCommands`.
  * *Backup*, `BackupsRestore`: `DrillIsProof`: what the drill passes has an index
    that can be served and the captures counted before the copy;
    `QuietBackupPasses`: a failing drill means something; `LastRestorableKept`,
    `OnlyExpiredRemoved`: pruning.
  * *Health check*, `TroubleIsTold`: `OkIsMeasured`: exit 0 only if no source was
    bad all the while; `OneRecoveryEach`; `FailureIsToldAgain`.
  * *History*, `HistoryIsTrue`: `NothingInvented`: a line tells of a capture that
    was made on that day; `MissingMeansLost`: after a backfill a missing day is
    one whose archive is gone too; `FreshIsFresh`; `ChangeIsSeen`: a history is
    not verified when a line was changed after another was chained to it or a kept
    snapshot is damaged.
  * *Audit*, `AuditIsHonest`: `FaultsOnlyBlur`: what the network did makes a
    package incomplete, or nothing; `CompleteIsFaultless`: evidence called
    complete is what a faultless network would have given; `AbsenceIsTrue`;
    `CleanMeansRead`. Of the registry's document "true" is what came, from wherever
    the request was sent on to; that it need not be the package's is told in section 8.
  * *Watch*, `WatchIsTrue`: `WatchChainHolds`, `LineHasItsSnapshot`,
    `NoChangeIsTrue`, `PushedIsArchived`.
  * *Review*, `ReviewsAreReal`: `GreenMeansReviewed`, `DatesAreReal`,
    `OrderErasesNothing`, `OnlyAPersonReviews`.
  * *Page*, `PageShowsEvidence`: `MatchedIsEvidence`, `NothingGuessed`,
    `PreviewIsCurrent`, `ResultsOfTheText`, `FileReplacesNothingNewer`.
  * *Pack*, `PackIsProof`: `VerifiedIsWhole`, `IntactVerifies`, `ZeroIsMeasured`,
    `NothingOverwritten`.
  * *MCP server*, `AnswersAreRight`: `AnsweredOnceEach`, `OversizeNeverRuns`,
    `KindsInOrder`, `BufferBounded`, `LookupHonest`, `CoverageNotices`; and
    `AnswerComes`. An answer is to the line as the reader decoded it.

Runs that find the violation of something the repository says (section 7):
**census_killed_split**, **gate_assessed**, **audit_redirect**.

Deadlock is checked where the program goes on for ever (`MCDailySnapshot.cfg`,
`MCRepositoryChain.cfg`). The other configurations switch it off because the
program ends: the gateway dies, a gate exits, a service is stopped, the census and
the others use up their budget of runs, lines, days or faults.

## 4. Bounds, and why they are enough

| Bound | Value | Why the cases happen |
|---|---|---|
| `MaxClient`, `MaxServer` | 2 | a chunk with the end of one line and the start of the next needs two lines, as do order, loss and duplication |
| `LogFails` | FALSE | what the log holds is a question only for appends that succeed; the theorems hold for both values, but for `DecisionsAreLogged` |
| `LastDay` (daily) | 2 | a run past midnight, a day that ends before its capture |
| `MaxRefreshes`, `MaxRewrites`, `MaxCrashes` (daily) | 2, 1, 1 | two versions to capture, another in between, and a run that repairs what a killed one left |
| `ClientGarbled`, `ServerGarbled`, `Garbled` | one line each | a line that a chunk may cut inside a character, among lines it may not |
| `Page`, `Cap` | 1–2, 2–4 | `Cap` = 2 pages, a slice with 3 matches overflows; a last page that is full and one that is short |
| `CheckpointEvery` (census) | 2 | the code has 5; a checkpoint is then both written and skipped in a run of 3 slices |
| `Retries` | 1 | a request that fails and then answers, and one that does not |
| days of the census | up to 6 | a slice wide enough to split (`Floor` = 3 days) and one too narrow |
| `MaxFull`, `MaxSince`, `MaxKills`, `MaxPushes` | up to 3, 1, 2, 1 | a run, its killed continuation and the resumed one; one push between runs |
| `MaxSlices` | 5, 9 | five slices complete a census that splits once and cut short one that splits twice (`StopAtLimit`); nine never bite |
| `MaxRepos` | 9 | never bites (section 8) |
| `Ttl`, `LastTick` (chain) | 1, 1 | an observation expires, and is of the future when the clock is put back |
| `MaxRevision`, `MaxDeploys`, `MaxChanges`, `MaxFaults` (chain) | 2, 1, 1, 2 | one push or deployment anywhere; both trees unreadable; a failure and then a kill |
| `CheckpointEvery` (chain) | 3 | 100 in the code (50 for the audits); no property of `chain` depends on a checkpoint |
| `MaxVersion`, `MaxFaults`, `Max` (refresh) | 2, 1, 1 | a version that moves between audit and scan; one failure; a package that guard-scan leaves out |
| `Daily`, `Chain` | 1 each | two writers of the same `index.json`, one of which knows less |
| roots, files, checks (gate) | 2, 3, 4 | one check of each way of reading, two of them on the same file, as `mcp-config` and `transport` do |
| service: `MaxWrites`, `MaxRequests`, `MaxClock` | 1, 2, 1 | the index is rewritten inside a turn; a second request after a refusal or a refill |
| service: `Rate`, `Capacity`, `MaxKeys`, `IdleTime` | 1 each | two addresses: the second bucket is over the cap and one is evicted |
| backup: `Sizes`, `KeepDays`, `MaxNights` | {1, 2}, 1, 2 | an archive leaves the window; the index changes between count and copy |
| backup: `MaxCaptures`, `MaxRewrites`, `MaxFaults` | 1 each | one capture, rewrite, failing tar or kill anywhere |
| health: `MaxAge`, `BackupMaxAge`, `Repeat`, `MaxUpsets` | 2, 2, 2, 1 | two hours of silence before a repeat; one kill, torn state or clock put back |
| history: `LastDay`, `MaxVersions`, `MaxAccidents`, `MaxLineAge` | 3, 2, 1, 1 | a gap between two days, an index captured twice, one loss; with two accidents and the same days (1.1 million states) the properties hold too |
| audit: `MaxLosses` | 2 | both CDNs of a file, or the document and one file |
| watch: `MaxLineCount`, `MaxMishaps` | 3, 2 | a kill, the run after it, and another |
| review: `MaxFindings`, `MaxDay`, `MaxBuilds` | 2, 1, 2 | two findings of one key, reviews of two days |
| page: `MaxEntries`, `MaxEvents` | 2, 5 | two tools that are the same; a file chosen, something typed, compared, previewed, then the text |
| pack: `MaxDamage`, `MaxPacks` | 2, 3 | two files lost or changed, and runs over what is left |
| MCP: `MaxBytes`, `MaxLines` | 2, 3 | a line one piece over the limit; a line before and after it |

## 5. Fairness

* **Gateway**: weak fairness on handling lines, effects and the exit event
  (node's event loop runs what is ready); strong fairness on the two `data`
  events, which are interrupted each time the other stream is being handled.
  None on the client, the server or kills.
* **Daily**: weak fairness on starting (cron) and on each step of a job; strong
  fairness on a refresh that rewrites the index, that is, not every refresh
  fails. None on the clock: `DayCaptured` speaks of days that last.
* **Census**: weak fairness on the run's own steps. GitHub need not answer: the
  retries are bounded, and that is what ends a run.
* **Chain**: weak fairness on the steps of a run that was started. None on
  starting one: `EventuallyAudited` has that as its premise.
* **Refresh**: weak fairness on the daily runs; on a chain only once it was
  started (nobody promises to start one).
* **Service**: strong fairness on taking a complete request of each connection
  (the event loop serves every socket) and on the deadline (its timer fires);
  weak fairness on the two steps of a turn. None on clients, writers or the
  signal.
* **Health check**: weak fairness on the steps of a run, on its start by cron and
  on the hours. None on mail: `FailureIsToldAgain` says that another mail is
  tried.
* **MCP server**: weak fairness on reading what is in the pipe and on
  microtasks. None on the client, which may stop in the middle of a line.
* The gate, the audit, the history, the backup, watch, the review, the page and
  the pack have no liveness property.

## 6. The proofs

Proved by TLAPS, for every value of the constants that the modules' assumptions
allow; no theorem has an unproved leaf. Each is `Spec => []P` or `Spec => A` for a
property that a run checks too; the inductive invariants were checked by TLC on
those instances before they were proved. In each module a lemma per action shows
that the action keeps the invariant.

**`GatewayProofs`.** Three invariants, each on top of the one before. Nothing is
assumed of the policy, of the lines (batches of any length), of their number or of
the kills.

* `IInv`: *TypesCorrect*, *ForbiddenNeverReachesServer*,
  *ForbiddenNeverAdvertised*. That a forbidden call is not forwarded is not
  inductive: `Effect` writes whatever `todo` holds, and `todo` comes from a buffer
  that is cut at newlines. So both streams are well framed (buffer followed by
  pipe is halves of lines in order, the second half of a garbled one at most behind
  the first of the line it is, hence what is taken up to a newline is a text as
  which a line of the other side is read), pending effects are safe, and so is what
  was delivered.
* `RInv` adds the order: pipe and buffer hold the lines after those that were
  decided, and a line in hand is read from the next. From it, *ServerStreamIsFiltered* and
  *GatewayImplementsTheFilter*: `Spec => FilterSpec`, each step of the gateway
  being a step of `PolicyFilter` or a stutter.
* `KInv` adds the books: for each tool, the calls that were logged are those that
  are with the server or refused, plus those of the line in hand that were logged
  already. From it, *DecisionsAreLogged* (`LogAndStatsAgree`), which assumes
  `~LogFails`: the code swallows a failed append and forwards the call.

**`DailySnapshotProofs`**, with any number of rewrites of the index by something else.
*TypesCorrect* (`TInv`) and *EvidenceBeforeClaims* (`EInv`) hold for any number of jobs
that overlap; the latter needs that a kill tears no snapshot, because the code never
rewrites a snapshot that exists. So does *SteadyRunsKeepTheEvidence*: what a run holds
is of one index as long as it is steady (`VInv`), a line that is not in `mixed` was written by
such a run, and no later run changes a line or a snapshot. *PreviousMovesLast* and
*ArchiveIsRecorded* follow a steady run on: what it is about to copy is in the ledger,
under its own day, from the step at which it appended the line or found it there
(`WInv`). They hold for jobs that overlap if no append is torn, and for torn ones if
jobs do not overlap: a line that is glued to another run's torn one is lost. The
others assume that jobs do not overlap (`OneJob`), and they must: with
`Jobs = {j1, j2}` TLC finds a broken chain. *OneJobKeepsTheChain*: the ledger a job
read is the ledger it appends to (`CInv`), whatever becomes of the index. `LInv` adds
that what a steady job is about to record is not what the log ends with:
*OneJobImplementsTheLog*, `Spec => LogSpec`, which also assumes that no append is torn
(`"ledger" \notin Tears`), since a torn line is no line of the abstract log.

**`RefreshProofs`**, for any number of overlapping refreshes and chains.
*CleanIsMeasured* (`CleanMeansMeasured`) and *IndexStaysConsistent*
(`IndexIsConsistent`). An index is joined from rows and results that were read from
other files at another time, so truth is carried through every place one of them
can be: `RunsTrue` (what a run holds in memory) and `FilesTrue` (what is on disk)
say of each row and each result that it was measured on the release it names, or
says that it was not; `JoinIsTrue` is the lemma that the join of any such rows,
results and repositories, of whatever generations, claims no more. That a verdict
has its reason in its record needs no more than how a record is made.

**`PolicyGateProofs`**, for any checks, files, roots, policies and records.
*PartialIsNoPass*, *RefusedIsNoPass*, *VerdictsAlwaysAgree*. The invariant follows
the loops: the scan under way has seen this root, and no other, with the checks
that are done (`ScanIsOfRoot`), the entries are the verdicts on the roots that are
done (`EntriesTrue`), and the exit code is refused or what all of them say
together (`ExitTrue`).

**`IndexServiceProofs`**, for any clients, indexes, writes, rate and capacity.
*ServiceKeepsItsWord* (`ServiceIsRight`): a bucket's tokens with what it granted
never exceed what it could have (`BInv`; eviction takes bucket and account
together), and a process that has left holds no request (`EInv`).
*AnswersAreCurrent* (`AnswerIsCurrent`): `CInv` says that what is cached under the
file's present stamp is what the file holds, although it may have been read after
another write than the one it was stamped with. Two writes of one time and one size
would break it; the property, like its run, is about a clock that tells writes
apart (`~CoarseClock`).

**`RepositoryChainProofs`**, for any repositories, trees and packages. *EvidenceStays*
(`EvidenceIsNotLost`) and *EvidenceIsFresh* (`FreshEvidence`) are about two caches in
a row. The invariant says of an entry of a file, whichever run wrote it, that it
agrees with its own key: a manifest is not of an older revision than its key names
(`ReadTrue`), and an audit is of the package its key names (`AuditTrue`). A run then
has only to compare keys: what it keeps is as good as what it asks for (`KeptTrue`),
its input is the file of the step before and that file is still there (`InputTrue`),
and results and work together are all it has to account for (`Accounted`). A census
never sees more than there is, which is why what is read later is not older
(`WorldTrue`). *EvidenceStays* assumes that there is a repository: the stop of the
script (`[ "$2" -gt 0 ]`) lets an empty classification pass.

**`CommandProofs`**: what four of the commands keep, what the inventory page shows,
what a green review means, and what the MCP server answers, each with an invariant of its own.

* *ArchiveIsTrue* (`WatchIsTrue`, invariant `IInv`): only the last line can be torn
  or glued to the one before, every line holds the hash of the one before and has its snapshot unless that was
  pruned; a run goes by the archive as it still is, there being one writer
  (`RunTrue`); and "no change" needs that two lists without a difference are equal,
  copy by copy (`NoDifference`).
* *PackIsAlwaysProof* (`PackIsProof`, `PackInv`): a run finds in the directory what
  it has written itself and nothing else (`RunFindsItsOwn`), so a whole manifest is
  of one run and one input (`ManifestIsOfOneRun`); that is why a verification, which
  only compares files with each other, says something of the pack. A pack
  exits 0 only if every answer of ours in it was measured, and one of them is about
  each tool as a tool (`FrameworkAssumption`): so every tool of the list was
  identified and has the evidence (`ZeroWasMeasured`).
* *HistoryIsAlwaysTrue* (`HistoryIsTrue`, `HistoryInv`): a line is true of a capture
  (`LineTrue`) wherever the ledger is, in the file or in the copy, so that putting
  one back invents nothing; each line holds its predecessor as that was first
  written, and one that was changed since is not what its successor holds
  (`LinksTrue`): the chain breaks at the first change that has a line after it. What
  a backfill has done of its list has a line (`BackfillTrue`); `PutBack` waits for
  the backfill to end, without which this is false.
* *BackupsAlwaysRestore* (`BackupsRestore`, `BackupInv`): a file still to be copied
  is as it was counted, one that was copied was so, as long as the night is quiet
  (`CopyTrue`); a whole archive then is its own digest (`BodyTrue`). The archives are
  in the order of their ages, none of this night before tar has begun
  (`AgesTrue`), and the one just made is the last and not partial when pruning
  begins (`LastTrue`): so whatever `RemoveAt` took, which cannot be told from an
  equal neighbour (`SameLeft`), was too old and was not the last.
* *PageAlwaysShowsEvidence* (`PageShowsEvidence`, `PageInv`): a file that is being
  read for the present revision has nothing on the screen to replace, holds the
  input as it is, and is the only one (`ReadingTrue`); every handler that puts
  something on the screen was preceded by one that made a new revision. The report
  is what `createInventoryReport` makes of the entries and choices as they are
  (`ReportTrue`), so a match on the screen is one of `SelectedState`
  (`MatchedIsProved`), and what was taken without a choice had the very name that
  was asked for (`AutomaticIsNamed`), which every entry has (`EntriesTrue`,
  `TextAssumption`). That a choice is offered by the report is not needed:
  `ItemOf` takes none that is not a candidate.
* *ReviewsAreAlwaysReal* (`ReviewsAreReal`, `ReviewInv`): the baseline holds bound
  findings that were accepted on the day they bear (`EntriesReal`), and an exit code
  0 that is still to be seen is of the index and baseline as they are. What makes
  this say something is the matching, which takes entries one by one and is a
  recursive function over the findings. `AssignIsInSteps` gives its steps, and
  `AssignFacts` what holds after the last: no entry is taken twice, each suits who
  has it, and who has none would have had to take what another has (`Right`, kept by
  each step: `GivingStaysRight`). Hence a matched finding *is* the finding of its
  entry (`MatchedIsSame`), and of each bound finding all copies are matched or all
  reviews are taken (`ReviewsAreTaken`), whatever the order. The induction needs no
  theorem with an operator parameter: the set of numbers for which a step fails
  would have a least one (`LeastExists`, from the well-foundedness of `<` as a set
  of pairs; `StepByStep`), and that the recursive function is there at all is proved
  in the same way (`StepsExist`).
* *AnswersAreAlwaysRight* (`AnswersAreRight`, `McpInv`), for every index, every limit
  and all lines that have a size and a form, and whatever becomes of those that a
  chunk cuts inside a character, as long as an id stays an id (`GarbledAssumption`).
  The pieces that can be read are those that were written, one after the other
  (`InputIsTrue`); what the reader keeps is
  the part of one line before the next piece, from its beginning unless the line is over
  the limit, of which the beginning may have been given up (`KeptTrue`). The books are
  then true up to the line at which the reader is (`BooksTrue`): each line that fits and
  lies before it has its answer, or wants none, or is in the queue, once; an answer
  is a refusal of what is no message or what `handleMessage` gives. That answers keep
  the order of their lines needs to know of the queue that a call which had its turn
  stands behind those that had none and are later (`InTurn`). A callback is more than
  one piece, so this is proved of each (`FeedKeeps`), of the end (`OverflowKeeps`) and
  by steps of the chunk (`PushIsInSteps`). Of the tools: there is an n-th record of
  those that are asked for (`NthExists`), and the report of the coverage is right after
  each record (`TallyKeeps`, `CoverageIsInSteps`).

**`RegistryAuditProofs`**, for every package that can be published.
*AuditIsAlwaysHonest* (`AuditIsHonest`): each file of the hooks is still to be
read, or has its true text, or a reason, and only a file that is not there was ever
answered 404 (`HeardTrue`, `TextsTrue`). The document is the package's, or the one
that is at the address to which the request was sent on (`astray`). The rules are then compared with what they
would say over a faultless network: they blur at most (`BlurOnly`), and evidence
called complete is the true one (`CompleteIsReal`).

The assumptions on constants are the named `ASSUME` of the modules, which TLC
evaluates in the runs. They give types to the inputs and keep apart the model
values that stand for different things (`NoFile` and `Torn`, `NoRequest` and an exit
code, a torn text and a line, a partial archive and a body). `TextAssumption` says
of a list what `parseInventory` makes sure of: it drops empty lines. `FrameworkAssumption`
is a fact about the two frameworks in `framework.mjs`, aicaiq and eu-aia: each asks
something of ours about a tool as a tool. `ReviewAssumption` says that a finding has
the four fields by which findings are told apart, `RecordsAssumption` that records,
findings and scans are lists and that an execution is complete or not, `McpAssumption`
that a line has a length. None of them restricts what the environment does.

Only model-checked:

* liveness, and ENABLED, which the prover cannot reach: `DayCaptured`,
  `EveryLineDecided`, `RunsEnd`, `IndexComesBack`, `EventuallyAudited`,
  `FailureIsToldAgain`, `AnswerComes`, `ShutdownEnds`, `EveryRequestAnswered`;
* `ExactNameAnswered` and `SummaryAddsUp`: the routes select from a sequence of
  records and add up over it, with the folds of the community modules. Over them the
  prover has no induction; recursive functions in their place could be gone through
  step by step, as `computeCoverage` and the matching of reviews are. (The gateway's
  streams are selected by rank for that reason: `Nth` in `GatewayProps`);
* `TroubleIsTold` and the properties of the census: for these there is no proof yet.
  Section 10 says which to take first.

## 7. Where the code and its documentation disagree

Each is a run whose counterexample TLC finds; the quotations are in
`PROJECT.json`.

1. `census_killed_split`: a slice that overflowed is checkpointed as finished
   before its halves are queued, and the queue is not kept. A resumed run skips
   the slice, never asks for the halves and reports a complete census.
2. `gate_assessed`: an agent card or a tool description too large to read is
   passed over by a catch meant for JSON, its check counts as run, and the build
   passes.
3. `audit_redirect`: of two CDNs, one says 404 and the other answers from another
   address, which is left out of the statuses. The file is reported as missing
   from the package, with both CDNs named as having said 404, and the evidence as
   complete, so nobody asks again.

## 8. Further deviations

They have no run of their own. Where the model has them, a condition of a property, a
constant of its run or a bound leaves them out of the passing runs, and this list says
which.

Disagreements that the passing properties except. Each is in the model and happens in
the passing run that is named: put the definition in place of the properties of its
configuration, and TLC prints the trace.

* Chunks (`ForwardedAsWritten` in `MCGateway.cfg`). `proxy.mjs` "forwards the
  conversation" (lines 4-5), and decodes each chunk on its own (91, 100): a character
  of several bytes that two chunks share becomes replacement characters. What is
  decided, logged and forwarded is the same text, so no refused call passes by it, but
  it is not the one that was written. The passing properties speak of the text that
  was read.
* A rewritten index (`NothingLooksTampered` in `MCDailySnapshot.cfg`). A daily run
  parses the index (`daily-snapshot.mjs`, 35) and reads its bytes again later (60-65).
  The chain or a refresh by hand rewrites it in between, and the line has the counts of
  one index and the digest of another, which `ledger.mjs` (156) calls tampering. The
  passing properties except what that very run wrote.
* A half-written `previous.json` (`EveryDayCaptured` in `MCDailySnapshot.cfg`). The
  copy takes whatever the index is at that moment (65), and every later run throws
  before its capture (42), where a failed run "costs a few hours instead of a day"
  (58). `DayCaptured` excepts it.
* Checkpoints (`EachFinishedIsSaved` in `MCCensusResume.cfg`). "Each finished slice is
  checkpointed" (`github-census.mjs`, 14) is true of the first, of every fifth, and of
  those that overflowed (238); up to four finished ones are asked for again after a
  kill, which is what `LittleIsRefetched` counts.
* Hidden findings (`FoundIsFound` in `MCRefresh.cfg`). A finding at the threshold
  beside a block that was not measured makes a record incomplete (`build-index.mjs`,
  29), although "a problem we found is a problem we found" (52-53). The tests say both
  (`index.test.mjs`, 56-59 and 72-79). No passing property takes a side.
* Documents from elsewhere (`AbsenceIsThePackages` in `MCCommands.cfg`). The request
  for a document is sent on to another address, and what that says, a 404 too, is taken
  for the registry's answer (`mcp-audit.mjs`, 471-476 and 542-547), although "the
  package is not on the registry" and "the registry did not answer us" are "different
  facts" (458-461). `AuditIsHonest` judges the document that came.

Capture ledger and history:

* `appendCapture` reads the last hash and appends without a lock: two
  overlapping jobs write two lines with one `prev`, which verification calls
  tampering (modelled: `Jobs`; `NoChainBreak` fails with two).
* `history` on a ledger that is empty or lost exits 0, also with `--max-age`;
  only the health check's `history_empty` tells (modelled: `FreshIsFresh` asks
  for a capture).
* A backfilled line comes after newer ones, so the age of the last line makes the
  history stale until the next capture (modelled). A torn archive stops every
  backfill at that day (modelled: `BackfillFails`).
* A change of the last line's day, time or scanner is not seen by verification
  (modelled: `ChangeIsSeen` speaks of lines that have a successor). The age is
  that of the index, not of the capture.
* A kill in the copy to `previous.json` leaves a file that does not parse, and
  every later run throws before it captures (modelled: `Tears`).
* A kill that cuts only the newline of a ledger line leaves a line that can be read,
  and the next one is glued to it: the ledger then does not parse. `Ledger` and
  `History` have torn lines only of the kind that does not parse at once;
  `WatchArchive`, which is written in the same way, has both.

Gateway, gate, census, chain and join:

* The gateway ends on the server's `exit` event, which comes before the end of
  its output: an answer that the server wrote before exiting can be lost
  (modelled: `OnChildExit`). When the client goes away nothing ends the server.
* A repository whose tree could not be read is recorded with its push date and
  stays unreadable until it is pushed again; while no tree at all could be
  read, every run of the chain ends at the stop (modelled: `ReadTree`,
  `StopWithoutManifests`). An output that a kill left torn makes every later run
  of its step throw (modelled: `Tears`; `EventuallyAudited` fails with TRUE).
* `check`, unlike `audit`, does not ask whether its root exists: an empty tree
  exits 0 (modelled: `Skips`).
* A run restricted by `--checks` announces that it "measured less, and the
  verdict says so" (`agentgate.mjs`); the verdict is the same word (modelled:
  `requested`).
* A failed append to the call log does not stop the call (modelled: `LogFails`).
* The limit on repositories bites inside the last slice without being reported;
  the partial file outlives its run and decides what a later one skips;
  repositories pushed during a run slide between pages. These are modelled, and
  `CompleteUnlessReported` is violated by each of them: it is the bounds that keep
  them out of the passing runs, `MaxRepos` = 9 (never reached), `MaxFull` (in `census`
  one full run, which finds no partial file of an earlier one; `census_resume` has
  three, but nothing is pushed between them) and `Moving` = FALSE (no push during a
  run).
* A census of repositories caught half written drops every repository record
  from the index, and nothing in the index says why (modelled).
* A severity nobody knows ranks 0 for the gate and makes a record incomplete for
  the join.
* `walk` stops at `maxFiles` and skips a directory it cannot list, without a
  trace in the result.
* An incremental census finds a pushed repository and keeps the record it had,
  so the push date never moves (`github-census.mjs`, 163; modelled).
* The steps of the chain write a checkpoint that nothing reads, so a run that
  dies starts over (modelled: `Begin`).

Audit of a package:

* Only the first `node file` of a hook is looked at; a second file in the same
  command is not read and nothing says so. With three hooks the limit of five
  files (`HOOK_SCRIPT_LIMIT`) is never reached.
* A CDN that lags says 404 of a file that is shipped, which is taken for a fact.

Service:

* Two rewrites of the index that share a modification time and a size are served
  stale (modelled: `CoarseClock`, FALSE in the run). While the file is half
  written the sample is served (modelled).
* A bucket that was evicted starts full again (modelled: `BudgetKept` counts from
  when the bucket was made). A negative `limit` is answered with `returned: -1`.

Health check:

* A torn line of the ledger throws out of `verifyLedger` and ends the run: no
  state, no mail, until the line is mended (modelled: premise of
  `FailureIsToldAgain`).
* A mail that failed counts as told until the interval has passed; a recovery
  that failed is lost for ever (modelled). A clock put back mutes the repeats for
  as long (modelled). A torn state file is the first run again (modelled).
* A missed day is a problem for ever, until somebody backfills it. The body of
  `/health` has `gaps` as a list, so the gauge of it is never written.

Backup:

* A partial archive under the final name satisfies the health check (modelled on
  both sides). An archive somebody named by hand sorts after all digits and is
  the one the drill restores (modelled); names that do not parse are never
  pruned (modelled).
* A rewrite between the count and the copy fails the drill of an archive that is
  good; a disturbed new archive lets the last good old one be pruned (modelled:
  the conditions of `QuietBackupPasses` and `LastRestorableKept`).
* With no capture in the manifest the drill does not verify the ledger (modelled:
  the condition of `DrillIsProof`).

MCP server:

* Each chunk is decoded on its own (`protocol.mjs`, 46): a character that two chunks
  share becomes another text, in an id or a name too (modelled: `Garbled`;
  `AnswersAreRight` speaks of the line as it was read). A byte-order mark that two
  chunks share is not stripped, so a correct message is answered with a parse error,
  which lines 36-38 mean to prevent (`Garbled` may have it, the run does not).
* `lookup_server` passes on a verdict `clean` beside an incomplete execution
  (`tools.mjs`, 229), although its description says "reported as incomplete, never as
  clean" (6-7 and 142). No index that `build-index.mjs` makes has such a record
  (modelled: `LookupHonest` asks that the coverage is told beside the verdict).
* A line over the limit may be answered more than once, because what comes after
  the refusal is read as a new line (modelled: `AnsweredOnceEach` speaks of lines
  that fit). Answers of one chunk come in the order refusals, plain, tools
  (modelled: `KindsInOrder`).
* A version without a package is ignored by `lookup_server` (modelled).

Watch, page and pack:

* A torn line, or one that was glued to the line before, makes every later run and
  `verify` throw (modelled); a snapshot that a kill left torn is never rewritten
  (modelled).
* The mark of a demonstration stays when the demonstration's list is edited
  (modelled). Submitting while a file is being read drops the file without a word
  (modelled). The versions `""` and none are not seen as one.
* `pack verify` ignores what follows the digest in the seal line, although the
  help says that any changed byte exits non-zero, and files that are not in the
  manifest. A pruned snapshot makes an archive count as unverified.

## 9. What is not modelled

Of the modelled components: wording, the byte-order mark, the fields of a record
that no decision reads, pauses between requests, a star count that moves a
repository between two slices; `/v1/history` and `/v1/history/diff` (two files
handed out as they are), the counters of `/metrics` and a clock that goes back in
the limiter; the site directory as a second source of a backup; overlapping runs
of `watch`; a document that parses and is of another shape than the registry's;
in `History`, the snapshot without a line that a backfill leaves when the ledger
was torn under it. The bodies of the
MCP tools `inventory_tools` and `check_project` are those of `Inventory` and
`PolicyGate`; `McpServer` has when they are refused and that they answer. Of the
rest:

* *Pattern matching over text* (the guard's rules, discovery): a set of regular
  expressions has no states. `PolicyGate` has how each check reads its files, and
  `RegistryAudit` what the rules make of the patterns' answers.
* *Pure comparisons and rendering* (diff of two indexes, SARIF, HTML, control
  framework, site, package verification): one call, no state; a wrong column is
  a matter for the tests there are.
* *Scripts run by a person* (release, deployment, acceptance, research): a
  sequence of commands each of which stops the next one.

## 10. What could come next

Proofs, in this order.

1. `GithubCensus`: its types and `CheckpointHoldsItsSlices`.
2. `IndexQueries`: `ExactNameAnswered` and `SummaryAddsUp`, with recursive functions in
   place of the folds.

Compositions that share files and are modelled apart now: `RepositoryChain` with
`Refresh` (whose constants `Repo` and `Declared` it would replace) and with
`GithubCensus`; `HealthCheck` with `Backup` and `DailySnapshot`.
