------------------------------ MODULE GithubCensus ------------------------------
(***************************************************************************)
(* packages/collect/github-census.mjs: every repository of a topic, from a *)
(* search that refuses to page past Cap results.  The topic is sliced by   *)
(* stars; a slice that reports more than Cap is split by push date and its *)
(* halves are queued.  Finished slices are checkpointed to a partial file  *)
(* that a later run resumes from; nothing ever deletes that file.          *)
(*                                                                         *)
(* A run of `refresh --repositories` that finds a readable census asks     *)
(* only for what was pushed since the day before it was generated, and     *)
(* has a partial file of its own.                                          *)
(*                                                                         *)
(* GitHub is a function from repositories to the day of their last push.   *)
(* It answers from its present state, a page at a time, or not at all.     *)
(***************************************************************************)
EXTENDS Integers, Sequences, FiniteSets

CONSTANTS
    Repo,            \* repositories that may carry the topic
    ByStars,         \* the order of the search: most stars first
    Buckets,         \* planSlices: the star buckets, widest first
    BucketOf,        \* the bucket of each repository
    Page,            \* perPage
    Cap,             \* results the search can page to
    MaxSlices, MaxRepos,
    Retries,         \* retries of a request that failed
    CheckpointEvery, \* finished slices per checkpoint
    FirstDay, LastDay, \* bound: the days of the model, from the first run on
    Worlds,          \* the states GitHub may be in on the first day
    MaxFull, MaxSince, \* bound: runs started, of each mode
    MaxKills,        \* bound: runs killed
    MaxPushes,       \* bound: pushes
    Moving,          \* whether a repository may be pushed during a run
    Torn, NoFile

Days == 1..LastDay
Mode == {"full", "since"}
Never == 0      \* no push: the repository does not exist, or is not known

ASSUME GithubCensusAssumption ==
    /\ FirstDay \in Nat \ {0, 1} /\ LastDay \in Nat /\ FirstDay <= LastDay
    /\ Worlds \subseteq [Repo -> 0..FirstDay]
    /\ BucketOf \in [Repo -> {Buckets[i] : i \in DOMAIN Buckets}]
    /\ Page \in Nat \ {0} /\ Cap \in Nat \ {0} /\ Cap % Page = 0
    /\ MaxSlices \in Nat \ {0} /\ MaxRepos \in Nat \ {0} /\ Retries \in Nat
    /\ CheckpointEvery \in Nat \ {0, 1}
    /\ MaxFull \in Nat /\ MaxSince \in Nat /\ MaxKills \in Nat /\ MaxPushes \in Nat
    /\ Moving \in BOOLEAN

VARIABLES
    clock,
    github,     \* the day each repository was last pushed
    partial,    \* the partial file of each mode
    out,        \* the census
    run,        \* the run under way
    counts      \* runs of each mode, kills and pushes so far

vars == <<clock, github, partial, out, run, counts>>

-----------------------------------------------------------------------------
(* Slices.  An unsplit slice of a full run has no dates. *)

Slice == [stars : {Buckets[i] : i \in DOMAIN Buckets}, from : 0..LastDay, to : 0..LastDay]
Floor == 3      \* days: a narrower slice is not split

Known(repos) == {r \in Repo : repos[r] # Never}
None == [r \in Repo |-> Never]

planSlices(since, to) ==
    [i \in DOMAIN Buckets |-> [stars |-> Buckets[i], from |-> since, to |-> IF since = 0 THEN 0 ELSE to]]

Lower(slice) == IF slice.from = 0 THEN 1 ELSE slice.from
Upper(slice, to) == IF slice.to = 0 THEN to ELSE slice.to

splitByPushed(slice, to) ==
    LET mid == (Lower(slice) + Upper(slice, to)) \div 2
    IN  << [slice EXCEPT !.from = Lower(slice), !.to = mid],
           [slice EXCEPT !.from = mid, !.to = Upper(slice, to)] >>

(* What the search finds for a slice, in order; it pages to Cap of it. *)
Matches(world, slice) ==
    SelectSeq(ByStars, LAMBDA r : /\ world[r] # Never
                                  /\ BucketOf[r] = slice.stars
                                  /\ slice.from = 0 \/ world[r] \in slice.from .. slice.to)

Items(world, slice, page) ==
    LET found == Matches(world, slice)
        last == IF page * Page < Len(found) THEN page * Page ELSE Len(found)
    IN  SubSeq(found, (page - 1) * Page + 1, last)

(* The items of a page that are new, as long as there is room for them. *)
Merge(repos, items) ==
    LET new == SelectSeq(items, LAMBDA r : repos[r] = Never)
        room == MaxRepos - Cardinality(Known(repos))
    IN  [r \in Repo |-> IF \E i \in DOMAIN new : i <= room /\ new[i] = r
                        THEN github[r] ELSE repos[r]]

-----------------------------------------------------------------------------
Down == [at |-> "down", mode |-> "full", to |-> 0, queue |-> <<>>, done |-> {}, repos |-> None,
         slices |-> 0, truncated |-> FALSE, slice |-> [stars |-> Buckets[1], from |-> 0, to |-> 0],
         page |-> 1, total |-> 0, attempt |-> 0, world |-> None]

Readable(file) == file \notin {NoFile, Torn}

Init ==
    /\ clock = FirstDay
    /\ github \in Worlds
    /\ partial = [m \in Mode |-> NoFile]
    /\ out = NoFile
    /\ run = Down
    /\ counts = [full |-> 0, since |-> 0, kills |-> 0, pushes |-> 0]

(* A repository is created or pushed. *)
Push(r) ==
    /\ run.at = "down" \/ Moving
    /\ counts.pushes < MaxPushes
    /\ github[r] # clock
    /\ github' = [github EXCEPT ![r] = clock]
    /\ counts' = [counts EXCEPT !.pushes = @ + 1]
    /\ UNCHANGED <<clock, partial, out, run>>

Tomorrow ==
    /\ run.at = "down" /\ clock < LastDay
    /\ clock' = clock + 1
    /\ UNCHANGED <<github, partial, out, run, counts>>

(* The partial file, when it can be read, takes the place of the seed. *)
Begin(m, since, seed) ==
    LET resumed == Readable(partial[m])
        done == IF resumed THEN partial[m].done ELSE {}
    IN  run' = [Down EXCEPT !.at = "next", !.mode = m, !.to = clock,
                    !.queue = SelectSeq(planSlices(since, clock), LAMBDA s : s \notin done),
                    !.done = done,
                    !.repos = IF resumed THEN partial[m].repos ELSE seed,
                    !.world = github]

Started(m, limit) ==
    /\ run.at = "down" /\ counts[m] < limit
    /\ counts' = [counts EXCEPT ![m] = @ + 1]
    /\ UNCHANGED <<clock, github, partial, out>>

StartFull == Started("full", MaxFull) /\ Begin("full", 0, None)

(* refresh --repositories, with a census to go on from. *)
StartSince ==
    /\ Readable(out) /\ Started("since", MaxSince)
    /\ Begin("since", out.day - 1, out.repos)

(* The loop of collectTopic. *)
AtLimit == run.slices >= MaxSlices \/ Cardinality(Known(run.repos)) >= MaxRepos

StopAtLimit ==
    /\ run.at = "next" /\ run.queue # <<>> /\ AtLimit
    /\ run' = [run EXCEPT !.at = "write", !.truncated = TRUE]
    /\ UNCHANGED <<clock, github, partial, out, counts>>

NextSlice ==
    /\ run.at = "next" /\ run.queue # <<>> /\ ~AtLimit
    /\ run' = [run EXCEPT !.at = "page", !.slice = Head(run.queue), !.queue = Tail(run.queue),
                          !.page = 1, !.attempt = 0]
    /\ UNCHANGED <<clock, github, partial, out, counts>>

QueueEmpty ==
    /\ run.at = "next" /\ run.queue = <<>>
    /\ run' = [run EXCEPT !.at = "write"]
    /\ UNCHANGED <<clock, github, partial, out, counts>>

(* A page that answers; a short page, or the last the search has, ends it. *)
FetchPage ==
    LET items == Items(github, run.slice, run.page)
        last == Len(items) < Page \/ run.page >= Cap \div Page
    IN  /\ run.at = "page"
        /\ run' = [run EXCEPT !.repos = Merge(run.repos, items),
                              !.total = IF run.page = 1 THEN Len(Matches(github, run.slice)) ELSE @,
                              !.at = IF last THEN "slice" ELSE "page",
                              !.page = IF last THEN @ ELSE @ + 1, !.attempt = 0]
        /\ UNCHANGED <<clock, github, partial, out, counts>>

(* fetchWithRetry: status 0, 403, 429 or 5xx is tried again. *)
RequestFails ==
    /\ run.at = "page" /\ run.attempt < Retries
    /\ run' = [run EXCEPT !.attempt = @ + 1]
    /\ UNCHANGED <<clock, github, partial, out, counts>>

(* Mutant of GiveUp: the slice that failed goes back to the queue. *)
MutGiveUpRequeues ==
    /\ run.at = "page"
    /\ run' = [run EXCEPT !.at = "next", !.queue = Append(@, run.slice)]
    /\ UNCHANGED <<clock, github, partial, out, counts>>

(* Any other status, or the last attempt, ends the run. *)
GiveUp ==
    /\ run.at = "page"
    /\ run' = [run EXCEPT !.at = "write", !.truncated = TRUE, !.slices = @ + 1]
    /\ UNCHANGED <<clock, github, partial, out, counts>>

Halves(done) == SelectSeq(splitByPushed(run.slice, run.to), LAMBDA s : s \notin done)

Overflowed == run.total > Cap
TooNarrow == Upper(run.slice, run.to) - Lower(run.slice) < Floor

(* Mutant: the keys are written and the repositories of the slice are not. *)
MutCheckpoint(done) ==
    IF Cardinality(done) % CheckpointEvery = 1 \/ Overflowed
    THEN partial' = [partial EXCEPT ![run.mode] =
            [repos |-> IF Readable(@) THEN @.repos ELSE None, done |-> done]]
    ELSE UNCHANGED partial

(* onSlice: the checkpoint of the first slice and every fifth one after it, *)
(* and of each that overflowed.                                             *)
Checkpoint(done) ==
    IF Cardinality(done) % CheckpointEvery = 1 \/ Overflowed
    THEN partial' = [partial EXCEPT ![run.mode] = [repos |-> run.repos, done |-> done]]
    ELSE UNCHANGED partial

(* Mutant of FinishSlice: a slice too narrow to split is not reported. *)
MutFinishSlice ==
    LET done == run.done \cup {run.slice}
    IN  /\ run.at = "slice"
        /\ Checkpoint(done)
        /\ run' = [run EXCEPT !.at = "next", !.slices = @ + 1, !.done = done,
                       !.queue = IF Overflowed /\ ~TooNarrow THEN @ \o Halves(done) ELSE @]
        /\ UNCHANGED <<clock, github, out, counts>>

(* The end of a slice: finished, checkpointed, and split if it overflowed. *)
FinishSlice ==
    LET done == run.done \cup {run.slice}
    IN  /\ run.at = "slice"
        /\ Checkpoint(done)
        /\ run' = [run EXCEPT !.at = "next", !.slices = @ + 1, !.done = done,
                       !.truncated = @ \/ (Overflowed /\ TooNarrow),
                       !.queue = IF Overflowed /\ ~TooNarrow THEN @ \o Halves(done) ELSE @]
        /\ UNCHANGED <<clock, github, out, counts>>

(* The census is written whether or not the run was cut short. *)
WriteOut ==
    /\ run.at = "write"
    /\ out' = [repos |-> run.repos, truncated |-> run.truncated, day |-> clock]
    /\ run' = Down
    /\ UNCHANGED <<clock, github, partial, counts>>

(* A killed run keeps what is on disk; the file it was writing is cut short. *)
Kill ==
    /\ run.at # "down" /\ counts.kills < MaxKills
    /\ counts' = [counts EXCEPT !.kills = @ + 1]
    /\ run' = Down
    /\ IF run.at = "slice" THEN partial' \in {partial, [partial EXCEPT ![run.mode] = Torn]}
                           ELSE UNCHANGED partial
    /\ IF run.at = "write" THEN out' \in {out, Torn} ELSE UNCHANGED out
    /\ UNCHANGED <<clock, github>>

Work == \/ StopAtLimit \/ NextSlice \/ QueueEmpty
        \/ FetchPage \/ RequestFails \/ GiveUp
        \/ FinishSlice \/ WriteOut

Environment == (\E r \in Repo : Push(r)) \/ Tomorrow \/ Kill

Next == StartFull \/ StartSince \/ Work \/ Environment

Spec == Init /\ [][Next]_vars

(* The process runs on until it is killed; GitHub need not answer. *)
FairSpec == Spec /\ WF_vars(Work)
===============================================================================
