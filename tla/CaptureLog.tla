------------------------------- MODULE CaptureLog -------------------------------
(***************************************************************************)
(* What the history promises: a log of captures that only grows, by one    *)
(* capture at a time, and never repeats the capture it ends with.  An      *)
(* entry whose run was disturbed promises no more than to be appended.     *)
(***************************************************************************)
EXTENDS Naturals, Sequences

CONSTANTS
    Captures,       \* what an undisturbed run can record
    MixedCaptures   \* what a disturbed one can

VARIABLES
    log,            \* the captures
    mixed           \* which entries were recorded by a disturbed run

Init == log = <<>> /\ mixed = {}

Record(c) ==
    /\ log = <<>> \/ log[Len(log)] # c
    /\ log' = Append(log, c)
    /\ UNCHANGED mixed

RecordMixed(c) ==
    /\ log' = Append(log, c)
    /\ mixed' = mixed \cup {Len(log) + 1}

Next ==
    \/ \E c \in Captures : Record(c)
    \/ \E c \in MixedCaptures : RecordMixed(c)

Spec == Init /\ [][Next]_<<log, mixed>>
===============================================================================
