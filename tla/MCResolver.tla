------------------------------ MODULE MCResolver ------------------------------
(* Two callers on two sockets; the servers are the one the caller names or   *)
(* the ones the system names, which inet_pton may refuse, or none.           *)
EXTENDS Resolver

CONSTANTS c1, c2, s1, s2

MCCallers == {c1, c2}
MCOneCaller == {c1}
MCSockets == {s1, s2}
MCServers == {<<>>, <<"parsable">>, <<"unparsable">>}
MCParsable == {<<"parsable">>}
MCReplies == {<<>>, <<"CNAME", "A">>, <<"CNAME", "CNAME", "A">>}
=============================================================================
