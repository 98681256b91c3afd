----------------------------- MODULE MCMessages -----------------------------
(* What the program writes for others to read, and reads of what others    *)
(* wrote: DNS messages, pings, the output of the ping program; and the     *)
(* messages of its log.  The four have nothing to do with each other; a    *)
(* behaviour is one of them.                                               *)
EXTENDS DnsMessage, EchoPacket, PingCommand, LogMgr

(* Names of one and two labels; addresses with bytes that end a name or    *)
(* begin a pointer.                                                        *)
MCHosts == {<<<<97>>>>, <<<<97, 98>>, <<99>>>>}
MCLabels == {<<100>>}
MCAddresses == {<<192, 12, 0, 1>>, <<0, 1, 97, 255>>}

(* The threads that use the log are alike.                                 *)
ThreadSymmetry == Permutations(Threads)

VARIABLE part

MCInit ==
  /\ part \in {"dns", "echo", "tool", "log"}
  /\ MessageInit /\ EchoInit /\ ToolInit /\ LogInit
  /\ part # "dns" => host = <<<<97>>>> /\ ~rooted
  /\ part # "echo" => pid = 1 /\ size = 0
  /\ part # "tool" => tool = "trace"

MCNext ==
  \/ part = "dns" /\ MessageNext /\ UNCHANGED <<part, echoVars, toolVars, logVars>>
  \/ part = "echo" /\ EchoNext /\ UNCHANGED <<part, messageVars, toolVars, logVars>>
  \/ part = "tool" /\ ToolNext /\ UNCHANGED <<part, messageVars, echoVars, logVars>>
  \/ part = "log" /\ LogNext /\ UNCHANGED <<part, messageVars, echoVars, toolVars>>

MCSpec == MCInit /\ [][MCNext]_<<part, messageVars, echoVars, toolVars, logVars>>
=============================================================================
