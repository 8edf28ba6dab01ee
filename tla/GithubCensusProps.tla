--------------------------- MODULE GithubCensusProps ---------------------------
(* What the census of a topic promises. *)
EXTENDS GithubCensus

Records == [Repo -> 0..LastDay]

(* The files and the run hold what the collector puts there. *)
TypeOK ==
    /\ clock \in FirstDay..LastDay
    /\ github \in Records
    /\ \A m \in Mode :
        Readable(partial[m]) => partial[m].repos \in Records /\ partial[m].done \subseteq Slice
    /\ Readable(out) => out.repos \in Records /\ out.truncated \in BOOLEAN /\ out.day \in Days
    /\ run.at \in {"down", "next", "page", "slice", "write"}
    /\ run.repos \in Records /\ run.done \subseteq Slice /\ run.slice \in Slice
    /\ \A i \in DOMAIN run.queue : run.queue[i] \in Slice
    /\ run.slices \in 0..MaxSlices /\ run.attempt \in 0..Retries /\ run.page \in 1..(Cap \div Page)
    /\ Cardinality(Known(run.repos)) <= MaxRepos

Published == out' # out /\ Readable(out')

(* A census that does not say it is truncated holds every repository that  *)
(* had the topic when the run began: "a silently truncated census is       *)
(* exactly the kind of number this project exists to publish honestly".    *)
(* So does an incremental one, made from a complete one: the day of        *)
(* overlap catches what was pushed after the last run looked.              *)
CompleteUnlessReported ==
    [][ /\ Published /\ ~out'.truncated
        /\ run.mode = "since" => Readable(out) /\ ~out.truncated
        => Known(run.world) \subseteq Known(out'.repos) ]_vars

(* The checkpoint includes what was collected: of every slice it calls     *)
(* done it holds all that the search shows.  (While nothing is pushed.)    *)
CheckpointHoldsItsSlices ==
    \A m \in Mode : Readable(partial[m]) =>
        \A slice \in partial[m].done : \A page \in 1..(Cap \div Page) :
            LET items == Items(github, slice, page)
            IN  \A i \in DOMAIN items : partial[m].repos[items[i]] # Never

(* What a run that is killed now would leave to the one that resumes it. *)
Saved == IF Readable(partial[run.mode]) THEN partial[run.mode].done ELSE {}

(* A slice that this run has finished, or found finished in the file it    *)
(* resumed from, is not requested again,                                   *)
NothingKnownIsRefetched ==
    [][run.at = "next" /\ run'.at = "page" => run'.slice \notin run.done]_vars

(* and a kill between two slices costs fewer finished slices than there    *)
(* are from one checkpoint to the next.                                    *)
LittleIsRefetched ==
    run.at \in {"next", "page", "write"} => Cardinality(run.done \ Saved) < CheckpointEvery

(* "Each finished slice is checkpointed" (github-census.mjs:14): line 238  *)
(* checkpoints the first, every fifth after it and those that overflowed.  *)
EachFinishedIsSaved == run.at = "next" => run.done \subseteq Saved

(* Every run ends, whatever GitHub answers and however often it splits. *)
RunsEnd == run.at # "down" ~> run.at = "down"

(* A run that is killed and resumed loses nothing: the checkpoint holds    *)
(* what it calls done, a census made over several runs is as complete as   *)
(* one made at once, and little is asked for again.                        *)
ResumeLosesNothing ==
    /\ [](TypeOK /\ CheckpointHoldsItsSlices /\ LittleIsRefetched)
    /\ CompleteUnlessReported
    /\ NothingKnownIsRefetched
=============================================================================
