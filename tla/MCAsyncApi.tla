----------------------------- MODULE MCAsyncApi -----------------------------
(* The one worker of qyutil_instance and one application thread; one       *)
(* request of each kind.                                                   *)
EXTENDS AsyncApi

CONSTANTS w1, c1, d1, q1, p1, t1, short, long

MCWorkers == {w1}
MCCallers == {c1}
MCTasks == {d1, q1, p1, t1}
MCKind == [k \in Tasks |-> CASE k = d1 -> "diagnosis" [] k = q1 -> "dns"
                             [] k = p1 -> "ping" [] k = t1 -> "trace"]
MCIps == {short, long}
MCLongIps == {long}
MCIpLists == {<<>>, <<long>>, <<short, long>>}
=============================================================================
