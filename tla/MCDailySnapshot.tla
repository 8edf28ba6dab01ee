----------------------------- MODULE MCDailySnapshot -----------------------------
(* Small instances of the daily job. *)
EXTENDS DailySnapshotProps, TLC

CONSTANTS v1, v2, j1, j2

MCCountsOf == (v1 :> 1) @@ (v2 :> 2)
=================================================================================
