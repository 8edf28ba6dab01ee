------------------------------- MODULE MCGateway -------------------------------
(* Small instances of the gateway: two tools and what the name of one of   *)
(* them becomes when a chunk cuts it, one pattern, and the lines that make *)
(* the cases of handleClientLine and handleServerLine.                     *)
EXTENDS GatewayProps

CONSTANTS read, delete, d_lete

MCMatches == [p \in Patterns |-> {delete}]

Call(tool, id) == [method |-> "tools/call", tool |-> tool, id |-> id]
Other(id) == [method |-> "other", tool |-> NoName, id |-> id]
Single(m) == [kind |-> "single", msgs |-> <<m>>]
Batch(ms) == [kind |-> "batch", msgs |-> ms]
Junk == [kind |-> "junk", msgs |-> <<>>]

MCClientLines == {Junk, Single(Call(read, 1)), Single(Call(delete, 2)),
                  Batch(<<Call(read, 4), Call(NoName, 5)>>), Batch(<<Other(6), Call(read, 7)>>)}
MCServerLines == {Single({read, delete}), Batch(<<{}, {delete}>>)}

(* A call whose tool is refused, and an answer that advertises it, in      *)
(* which a chunk may cut the name of the tool.                             *)
MCClientGarbled == [line \in {Single(Call(delete, 2))} |-> Single(Call(d_lete, 2))]
MCServerGarbled == [line \in {Single({read, delete})} |-> Single({read, d_lete})]
================================================================================
