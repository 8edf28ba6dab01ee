---------------------------- MODULE MCIndexService ----------------------------
(* A small instance of the service: two addresses, one of them loopback,   *)
(* two indexes of the same size.                                           *)
EXTENDS IndexService

CONSTANTS c1, c2, alpha, alphabet, old, new, sample

Occurs == {<<alpha, alpha>>, <<alpha, alphabet>>, <<alphabet, alphabet>>}
Row(server, kind, verdict, execution, missing) ==
    [server |-> server, kind |-> kind, verdict |-> verdict, execution |-> execution, missing |-> missing]
One == Row(alpha, "registry", "clean", "complete", <<>>)
Two == Row(alphabet, "repositories", "incomplete", "incomplete", <<"failed", "not_run">>)
Three == Row(NoName, "registry", "other", "absent", <<>>)
Indexes == [v \in {old, new, sample} |->
    [records |-> CASE v = old -> <<Two, One>> [] v = new -> <<Two, Three>> [] OTHER -> <<>>]]
Sizes == [v \in {old, new} |-> 2]
Get(route) == [method |-> "GET", body |-> FALSE, route |-> route, name |-> alpha, verdict |-> "any", limit |-> 50]
SomeRequests == {Get("server"), Get("summary"), [Get("metrics") EXCEPT !.method = "HEAD"],
                 Get("badge")}
===============================================================================
