------------------------------ MODULE HealthCheck ------------------------------
(***************************************************************************)
(* The hourly health check: scripts/healthcheck.mjs over the checks of     *)
(* packages/service/src/healthcheck.mjs and the mail of alert.mjs.         *)
(*                                                                         *)
(* What it looks at is the world, one record of what each source would     *)
(* answer now; the world changes between two looks.  Time is what has      *)
(* passed since the last alert, capped at the repeat interval.             *)
(***************************************************************************)
EXTENDS Integers, Sequences

CONSTANTS
    Answers,      \* bodies of /health the service may answer, or Unreachable
    Ledgers,      \* what verifyLedger finds: "whole", "broken", "absent", "torn"
    FreeDisks,    \* statfs: "free", "low", "unreadable"
    Archives,     \* backup directories: sets of [name, age]
    SiteAnswers,  \* functions from the sites that are asked to HTTP answers
    MaxAge,       \* of a capture, in hours (26)
    BackupMaxAge, \* of the newest archive, in hours (36)
    Repeat,       \* hours until a lasting failure is told again (6)
    MaxUpsets,    \* bound: kills, and steps back of the clock
    Unreachable, NoHistory, NoState, TornState

ASSUME HealthAssumption ==
    /\ MaxAge \in Nat /\ BackupMaxAge \in Nat /\ Repeat \in Nat \ {0} /\ MaxUpsets \in Nat
    /\ Unreachable \notin [ok : BOOLEAN, records : {"positive", "none", "absent"}]

VARIABLES
    world,        \* what each source would answer
    check,        \* the run: its step, and the problems it has found
    state,        \* data/healthcheck-state.json
    pending,      \* the mail that is to be sent: "none", "alert", "recovery"
    hourDue,      \* cron has not started the check of this hour
    configured,   \* the variables of the mail server are set
    upsets,
    outcome,      \* exit code of the last run
    lasting,      \* sources that have been bad since the run started
    found         \* a run recorded a failure since the last recovery mail

healthVars == <<world, check, state, pending, hourDue, configured, upsets, outcome, lasting, found>>

Sources == <<"health", "disk", "ledger", "urls", "backups">>
Worlds == [health : Answers, disk : FreeDisks, ledger : Ledgers, urls : SiteAnswers, backups : Archives]
Since == -1..Repeat
State == [status : {"ok", "fail"}, since : Since \cup {NoState}]

(***************************************************************************)
(* The checks: each is the set of the problems it names.                   *)
(***************************************************************************)
ProblemIf(condition, id) == IF condition THEN {id} ELSE {}

(* A ledger whose line is torn makes summarize throw: history is an error. *)
HistoryProblems(history) ==
    IF history = NoHistory THEN {"history_absent"}
    ELSE ProblemIf(history.captures = 0, "history_empty")
         \cup ProblemIf(history.age > MaxAge, "history_age")
         \cup ProblemIf(history.stale, "history_stale")
         \cup ProblemIf(history.gaps > 0, "history_gaps")

(* The script turns no answer into the body [ok: false], which has nothing *)
(* else to look at.                                                        *)
checkHealth(body) ==
    IF body = Unreachable \/ (~body.ok /\ body.records = "absent" /\ ~body.dated) THEN {"health_not_ok"}
    ELSE ProblemIf(~body.ok, "health_not_ok")
         \cup ProblemIf(body.records # "positive", "index_records")
         \cup ProblemIf(~body.dated, "index_generated_at")
         \cup HistoryProblems(body.history)

checkDisk(stat) ==
    ProblemIf(stat = "unreadable", "disk_unreadable") \cup ProblemIf(stat = "low", "disk_low")

checkLedger(result) == ProblemIf(result # "whole", "ledger_broken")

(* The newest is the one written last, whatever its name and content are. *)
checkBackups(files) ==
    LET list == {f \in files : f.archive}
    IN  ProblemIf(list = {}, "backup_absent")
        \cup ProblemIf(list # {} /\ \A f \in list : f.age > BackupMaxAge, "backup_age")

checkUrls(results) == ProblemIf(\E site \in DOMAIN results : results[site] # 200, "url")

ProblemsOf(source, w) ==
    CASE source = "health" -> checkHealth(w.health)
      [] source = "disk" -> checkDisk(w.disk)
      [] source = "ledger" -> checkLedger(w.ledger)
      [] source = "urls" -> checkUrls(w.urls)
      [] source = "backups" -> checkBackups(w.backups)

(***************************************************************************)
(* decideAlert: previous is the state file, or NoState if it is not there  *)
(* or does not parse.                                                      *)
(***************************************************************************)
(* Mutant: a failure that was told is never told again. *)
MutdecideAlert(previous, status) ==
    [action |-> IF status = "fail" /\ (previous = NoState \/ previous.status # "fail") THEN "alert"
                ELSE IF status = "ok" /\ previous # NoState /\ previous.status = "fail" THEN "recovery"
                ELSE "none",
     since |-> IF status = "fail" THEN 0 ELSE NoState]

decideAlert(previous, status) ==
    LET failed == previous # NoState /\ previous.status = "fail"
        again == previous.since = NoState \/ previous.since >= Repeat
    IN  IF status = "fail"
        THEN IF ~failed \/ again THEN [action |-> "alert", since |-> 0]
             ELSE [action |-> "none", since |-> previous.since]
        ELSE [action |-> IF failed THEN "recovery" ELSE "none", since |-> NoState]

(***************************************************************************)
(* The script.                                                             *)
(***************************************************************************)
NoCheck == [next |-> 0, problems |-> {}]

HealthInit ==
    /\ world \in Worlds
    /\ check = NoCheck /\ state = NoState /\ pending = "none" /\ hourDue = TRUE
    /\ configured \in BOOLEAN
    /\ upsets = 0 /\ outcome = 0 /\ lasting = {} /\ found = FALSE

Resting == check = NoCheck /\ pending = "none"
BadSources(w) == {s \in {"health", "disk", "ledger", "urls", "backups"} : ProblemsOf(s, w) # {}}

(* One thing of the world changes. *)
Change ==
    /\ \E source \in DOMAIN world : \E w \in Worlds :
          /\ \A other \in DOMAIN world \ {source} : w[other] = world[other]
          /\ w # world
          /\ world' = w
          /\ lasting' = lasting \cap BadSources(w)
    /\ UNCHANGED <<check, state, pending, hourDue, configured, upsets, outcome, found>>

Start ==
    /\ Resting /\ hourDue
    /\ hourDue' = FALSE
    /\ check' = [NoCheck EXCEPT !.next = 1]
    /\ lasting' = BadSources(world)
    /\ UNCHANGED <<world, state, pending, configured, upsets, outcome, found>>

(* The sources are asked one after the other.  A torn ledger line throws   *)
(* out of verifyLedger and ends the run, with nothing written or sent.     *)
Probe ==
    /\ check.next \in DOMAIN Sources
    /\ LET source == Sources[check.next]
       IN  IF source = "ledger" /\ world.ledger = "torn"
           THEN check' = NoCheck /\ outcome' = 1
           ELSE /\ check' = [next |-> check.next + 1,
                             problems |-> check.problems \cup ProblemsOf(source, world)]
                /\ outcome' = outcome
    /\ UNCHANGED <<world, state, pending, hourDue, configured, upsets, lasting, found>>

Probed == check.next = Len(Sources) + 1
Status == IF check.problems = {} THEN "ok" ELSE "fail"
ExitCode == IF check.problems = {} THEN 0 ELSE 1

(* The state is written before the mail is sent. *)
WriteState ==
    /\ Probed /\ pending = "none"
    /\ LET previous == IF state = TornState THEN NoState ELSE state
           decision == decideAlert(previous, Status)
       IN  /\ state' = [status |-> Status, since |-> decision.since]
           /\ pending' = decision.action
           /\ check' = IF decision.action = "none" THEN NoCheck ELSE check
           /\ outcome' = IF decision.action = "none" THEN ExitCode ELSE outcome
    /\ found' = (found \/ Status = "fail")
    /\ UNCHANGED <<world, hourDue, configured, upsets, lasting>>

EndsWith(code) ==
    /\ check' = NoCheck /\ pending' = "none" /\ outcome' = code
    /\ UNCHANGED <<world, state, hourDue, configured, upsets, lasting>>

MailSent ==
    /\ pending # "none" /\ configured
    /\ found' = (found /\ pending # "recovery")
    /\ EndsWith(ExitCode)

(* No configuration, or curl fails: exit 3, and the state says it was told. *)
MailFails ==
    /\ pending # "none"
    /\ EndsWith(3)
    /\ UNCHANGED found

(* A kill; between the truncation and the write it leaves a torn state.    *)
KillCheck ==
    /\ ~Resting /\ upsets < MaxUpsets
    /\ state' \in IF Probed /\ pending = "none" THEN {state, TornState} ELSE {state}
    /\ check' = NoCheck /\ pending' = "none" /\ outcome' = 2
    /\ upsets' = upsets + 1
    /\ UNCHANGED <<world, hourDue, configured, lasting, found>>

Older(by) ==
    state' = IF state \in {NoState, TornState} \/ state.since = NoState THEN state
             ELSE [state EXCEPT !.since = IF by = 1 THEN IF @ = Repeat THEN @ ELSE @ + 1 ELSE -1]

Hour ==
    /\ Resting
    /\ hourDue' = TRUE
    /\ Older(1)
    /\ UNCHANGED <<world, check, pending, configured, upsets, outcome, lasting, found>>

(* The clock is put back: the last alert is in the future. *)
ClockBack ==
    /\ Resting /\ upsets < MaxUpsets
    /\ Older(-1)
    /\ upsets' = upsets + 1
    /\ UNCHANGED <<world, check, pending, hourDue, configured, outcome, lasting, found>>

HealthNext ==
    \/ Change \/ Start \/ Probe \/ WriteState
    \/ MailSent \/ MailFails \/ KillCheck \/ Hour \/ ClockBack

(* A run goes on, whether its mail gets through or not; cron starts the    *)
(* check every hour.                                                       *)
RunFairness == WF_healthVars(Probe \/ WriteState \/ MailSent \/ MailFails)

HealthSpec ==
    /\ HealthInit /\ [][HealthNext]_healthVars
    /\ RunFairness /\ WF_healthVars(Start) /\ WF_healthVars(Hour)

--------------------------------------------------------------------------------
(* What the hourly check should satisfy.                                   *)

(* The world, the run, the state file and the mail keep their types. *)
HealthTypeOK ==
    /\ world \in Worlds
    /\ check.next \in 0..Len(Sources) + 1
    /\ state \in State \cup {NoState, TornState}
    /\ pending \in {"none", "alert", "recovery"}
    /\ hourDue \in BOOLEAN /\ configured \in BOOLEAN /\ upsets \in 0..MaxUpsets
    /\ outcome \in 0..3 /\ lasting \subseteq {"health", "disk", "ledger", "urls", "backups"} /\ found \in BOOLEAN

(* A run ends with 0 only if no source was bad all the while it ran: what  *)
(* could not be measured is a problem, not a pass (healthcheck.mjs, 6).    *)
OkIsMeasured ==
    [][check # NoCheck /\ check' = NoCheck /\ outcome' = 0 => lasting = {}]_healthVars

(* The end of a failure is told once: between two recovery mails a run     *)
(* recorded a failure, whatever kills, torn state files and lost mails     *)
(* there were in between (healthcheck.mjs, 124).                           *)
OneRecoveryEach ==
    [][pending = "recovery" /\ outcome' # 2 /\ outcome' # 3 /\ check' = NoCheck => found]_healthVars

(* A source that stays bad is told of again and again, however often the   *)
(* state file is lost or the clock goes back, if no torn ledger line stops *)
(* the runs: another mail is tried, whatever became of the last            *)
(* (healthcheck.mjs, 124-141: "a forgotten alert does not become a         *)
(* forgotten outage").                                                     *)
FailureIsToldAgain ==
    \A source \in UNION {BadSources(w) : w \in Worlds} :
        <>[](world.ledger # "torn" /\ source \in BadSources(world))
            => []<><<(MailSent \/ MailFails) /\ pending = "alert">>_healthVars

(* Trouble is told, and told truly: no run calls well what it found bad,   *)
(* the end of a failure is told once, and a failure that lasts is told     *)
(* again and again.                                                        *)
TroubleIsTold == []HealthTypeOK /\ OkIsMeasured /\ OneRecoveryEach /\ FailureIsToldAgain
===============================================================================
