----------------------------- MODULE PolicyFilter -----------------------------
(***************************************************************************)
(* What a policy gateway promises its client, with no buffers, no chunks   *)
(* and no log: every line the client writes is decided exactly once, in    *)
(* the order it was written, and the decision is the policy's on the text  *)
(* that the line was read as, which is the text that is passed on.         *)
(***************************************************************************)
EXTENDS Sequences

CONSTANTS Lines,       \* the lines a client can write
          Readings(_), \* the texts a line can be read as
          Passing      \* the texts the policy lets through

VARIABLES pending,    \* written by the client, not decided yet
          delivered,  \* what the server has received
          refused     \* the lines answered in the server's place

filterVars == <<pending, delivered, refused>>

Init == pending = <<>> /\ delivered = <<>> /\ refused = <<>>

Write(line) ==
    /\ pending' = Append(pending, line)
    /\ UNCHANGED <<delivered, refused>>

Deliver ==
    /\ pending # <<>>
    /\ \E text \in Readings(Head(pending)) \cap Passing : delivered' = Append(delivered, text)
    /\ pending' = Tail(pending)
    /\ UNCHANGED refused

Refuse ==
    /\ pending # <<>>
    /\ \E text \in Readings(Head(pending)) \ Passing : refused' = Append(refused, text)
    /\ pending' = Tail(pending)
    /\ UNCHANGED delivered

Next == (\E line \in Lines : Write(line)) \/ Deliver \/ Refuse

Spec == Init /\ [][Next]_filterVars
===============================================================================
