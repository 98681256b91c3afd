------------------------------ MODULE Resolver ------------------------------
(***************************************************************************)
(* src/dnsquery/dnsquery.cpp: socket_gethostbyname, which any thread may   *)
(* call: one UDP socket, one query to one server, one wait of at most      *)
(* _timeout in RecvWithinTime, and whatever datagram comes first is the    *)
(* answer (neither its id nor its sender is looked at).                    *)
(*                                                                         *)
(* A socket stands for a descriptor and the local port bound to it: a      *)
(* reply that is still under way when its socket is closed reaches the     *)
(* next socket with that port.                                             *)
(***************************************************************************)
EXTENDS Integers, SequencesExt

CONSTANTS Callers,        \* threads inside or about to enter the function
          Sockets,        \* descriptors this process may have
          TimeoutArg,     \* _timeout, in clock ticks
          DefaultTimeout, \* DEFAULT_TIMEOUT
          Servers,        \* the servers a call may find: sequences of ServerKinds
          MaxIps,         \* SOCKET_MAX_IP_COUNT
          Replies,        \* the answers a server may send: sequences of record types
          TvUpdated,      \* select leaves the remaining time in tv (Linux: yes)
          Calls, Signals, \* bounds: calls made and signals caught
          NoSocket

ServerKinds == {"parsable", "unparsable"}

ASSUME ResolverAssumption ==
  /\ NoSocket \notin Sockets
  /\ DefaultTimeout \in Nat \ {0} /\ TimeoutArg \in Int
  /\ Servers \subseteq Seq(ServerKinds)
  /\ MaxIps \in Nat \ {0}
  /\ Replies \subseteq Seq({"A", "CNAME"})
  /\ TvUpdated \in BOOLEAN
  /\ Calls \in Nat /\ Signals \in Nat

Timeout == IF TimeoutArg <= 0 THEN DefaultTimeout ELSE TimeoutArg

VARIABLES pc,       \* where each caller is in the function
          call,     \* the number of the caller's current call
          servers,  \* dns_servers
          sock,     \* sock
          left,     \* tv
          waited,   \* ticks spent in RecvWithinTime
          ret,      \* the value returned
          size,     \* _ipinfo->size
          got,      \* history: the call whose answer was taken, 0 for none
          calls,    \* calls so far
          signals,  \* signals so far
          open,     \* descriptors in use
          lost,     \* history: descriptors no call will close
          wire,     \* queries under way and unanswered: [sock, call]
          inbox     \* datagrams queued on each open socket: [call, records]

locals == <<call, servers, sock, left, waited, ret, size, got>>
network == <<wire, inbox>>
vars == <<pc, call, servers, sock, left, waited, ret, size, got, calls,
          signals, open, lost, wire, inbox>>

Init == /\ pc = [c \in Callers |-> "idle"]
        /\ call = [c \in Callers |-> 0]
        /\ servers = [c \in Callers |-> <<>>]
        /\ sock = [c \in Callers |-> NoSocket]
        /\ left = [c \in Callers |-> 0]
        /\ waited = [c \in Callers |-> 0]
        /\ ret = [c \in Callers |-> -1]
        /\ size = [c \in Callers |-> 0]
        /\ got = [c \in Callers |-> 0]
        /\ calls = 0 /\ signals = 0
        /\ open = {} /\ lost = {}
        /\ wire = {} /\ inbox = [s \in Sockets |-> <<>>]

-----------------------------------------------------------------------------
(* The caller has set _ipinfo->size to 0; the list of servers is the one   *)
(* the caller named, or the system's.                                      *)
Call(c) ==
  /\ pc[c] = "idle" /\ calls < Calls
  /\ calls' = calls + 1
  /\ call' = [call EXCEPT ![c] = calls + 1]
  /\ \E s \in Servers : servers' = [servers EXCEPT ![c] = s]
  /\ ret' = [ret EXCEPT ![c] = -1]
  /\ size' = [size EXCEPT ![c] = 0]
  /\ got' = [got EXCEPT ![c] = 0]
  /\ waited' = [waited EXCEPT ![c] = 0]
  /\ left' = [left EXCEPT ![c] = Timeout]
  /\ pc' = [pc EXCEPT ![c] = "socket"]
  /\ UNCHANGED <<sock, signals, open, lost, network>>

Return(c) == pc' = [pc EXCEPT ![c] = "idle"]

(* socket() has no descriptor left.                                        *)
SocketFails(c) ==
  /\ pc[c] = "socket" /\ open = Sockets
  /\ Return(c)
  /\ UNCHANGED <<locals, calls, signals, open, lost, network>>

Unused_Any(s) == TRUE  \* faulty form: a descriptor in use (one socket for all calls)

Unused(s) == s \notin open

Refused_Never(server) == FALSE  \* faulty form: what inet_pton returns is not looked at

Refused(server) == server = "unparsable"

(* A socket is made and the first server's address is parsed.  Without a   *)
(* server the socket is closed again; with one that inet_pton refuses the  *)
(* function returns and leaves it open.                                    *)
Socket(c, s) ==
  /\ pc[c] = "socket" /\ Unused(s)
  /\ inbox' = [inbox EXCEPT ![s] = <<>>]
  /\ \/ /\ servers[c] = <<>>
        /\ Return(c) /\ UNCHANGED <<sock, open, lost>>
     \/ /\ servers[c] # <<>> /\ ~Refused(Head(servers[c]))
        /\ sock' = [sock EXCEPT ![c] = s]
        /\ open' = open \cup {s}
        /\ pc' = [pc EXCEPT ![c] = "send"]
        /\ UNCHANGED lost
     \/ /\ servers[c] # <<>> /\ Refused(Head(servers[c]))
        /\ open' = open \cup {s} /\ lost' = lost \cup {s}
        /\ Return(c) /\ UNCHANGED sock
  /\ UNCHANGED <<call, servers, left, waited, ret, size, got, calls, signals, wire>>

(* FreeAll and socket_close, then the return.                              *)
Leave_NoClose(c) ==  \* faulty form: the socket is not closed
  /\ Return(c)
  /\ sock' = [sock EXCEPT ![c] = NoSocket]
  /\ UNCHANGED open

Leave(c) ==
  /\ Return(c)
  /\ open' = open \ {sock[c]}
  /\ sock' = [sock EXCEPT ![c] = NoSocket]

Send(c) ==
  /\ pc[c] = "send"
  /\ wire' = wire \cup {[sock |-> sock[c], call |-> call[c]]}
  /\ pc' = [pc EXCEPT ![c] = "select"]
  /\ UNCHANGED <<call, servers, sock, left, waited, ret, size, got, calls, signals,
                 open, lost, inbox>>

SendFails(c) ==
  /\ pc[c] = "send"
  /\ Leave(c)
  /\ UNCHANGED <<call, servers, left, waited, ret, size, got, calls, signals,
                 lost, network>>

-----------------------------------------------------------------------------
(* RecvWithinTime.                                                         *)
Ready(c) == inbox[sock[c]] # <<>>

(* The records of the first MaxIps answers that hold an address.           *)
Addresses(list) ==
  Cardinality({i \in 1..Len(list) : i <= MaxIps /\ list[i] = "A"})

Found_All(list) == Min({MaxIps, Len(list)})  \* faulty form: other records are counted

Found(list) == Addresses(list)

(* The first datagram at the socket is the answer, whatever it is.  If it   *)
(* answers another name its records are found where those of this name     *)
(* would begin (line 207): what is read then is any list of records, as    *)
(* what is sent is.                                                        *)
Recv(c) ==
  /\ pc[c] = "select" /\ Ready(c)
  /\ LET answer == Head(inbox[sock[c]])
         n == Found(answer.records)
     IN /\ size' = [size EXCEPT ![c] = Addresses(answer.records)]
        /\ ret' = [ret EXCEPT ![c] = IF n > 0 THEN 0 ELSE -1]
        /\ got' = [got EXCEPT ![c] = answer.call]
  /\ inbox' = [inbox EXCEPT ![sock[c]] = Tail(@)]
  /\ Leave(c)
  /\ UNCHANGED <<call, servers, left, waited, calls, signals, lost, wire>>

TimesOut_Never(c) == FALSE  \* faulty form: select is given no timeout

(* tv ran out, or select or recvfrom failed: -1 either way.                *)
TimesOut(c) ==
  /\ pc[c] = "select" /\ ~Ready(c) /\ left[c] = 0
  /\ Leave(c)
  /\ UNCHANGED <<call, servers, left, waited, ret, size, got, calls, signals,
                 lost, network>>

RecvFails(c) ==
  /\ pc[c] = "select"
  /\ Leave(c)
  /\ UNCHANGED <<call, servers, left, waited, ret, size, got, calls, signals,
                 lost, network>>

TimeAgain_Full(c) == [left EXCEPT ![c] = Timeout]  \* faulty form: tv is set anew

TimeAgain(c) == IF TvUpdated THEN left ELSE [left EXCEPT ![c] = Timeout]

(* EINTR: the sets are filled again and select starts over with tv as it   *)
(* is: the time left where select writes it back, all of it elsewhere.     *)
Signal(c) ==
  /\ pc[c] = "select" /\ ~Ready(c) /\ signals < Signals
  /\ signals' = signals + 1
  /\ left' = TimeAgain(c)
  /\ UNCHANGED <<pc, call, servers, sock, waited, ret, size, got, calls, open,
                 lost, network>>

Tick(c) ==
  /\ pc[c] = "select" /\ ~Ready(c) /\ left[c] > 0
  /\ left' = [left EXCEPT ![c] = @ - 1]
  /\ waited' = [waited EXCEPT ![c] = @ + 1]
  /\ UNCHANGED <<pc, call, servers, sock, ret, size, got, calls, signals, open,
                 lost, network>>

-----------------------------------------------------------------------------
(* A server's answer arrives at the port the query came from: at the       *)
(* socket that has it now, or nowhere.                                     *)
Arrive(m) ==
  /\ wire' = wire \ {m}
  /\ \E r \in Replies :
       inbox' = IF m.sock \in open
                THEN [inbox EXCEPT ![m.sock] = Append(@, [call |-> m.call, records |-> r])]
                ELSE inbox
  /\ UNCHANGED <<pc, locals, calls, signals, open, lost>>

-----------------------------------------------------------------------------
Step(c) == \/ SocketFails(c) \/ Send(c) \/ SendFails(c) \/ Recv(c) \/ TimesOut(c)
           \/ Tick(c) \/ \E s \in Sockets : Socket(c, s)

Next == \/ \E c \in Callers : Call(c) \/ Step(c) \/ RecvFails(c) \/ Signal(c)
        \/ \E m \in wire : Arrive(m)

(* The threads run and time passes; the network owes nothing.              *)
Fairness == \A c \in Callers : WF_vars(Step(c))

Spec == Init /\ [][Next]_vars /\ Fairness

-----------------------------------------------------------------------------
(* Properties                                                              *)

Message == [sock : Sockets, call : 1..Calls]
Datagram == [call : 1..Calls, records : Replies]

(* Types, and which caller has a socket.                                   *)
ControlOK ==
  /\ pc \in [Callers -> {"idle", "socket", "send", "select"}]
  /\ servers \in [Callers -> Servers \cup {<<>>}]
  /\ sock \in [Callers -> Sockets \cup {NoSocket}]
  /\ \A c \in Callers : sock[c] # NoSocket <=> pc[c] \in {"send", "select"}
  /\ \A c \in Callers : sock[c] # NoSocket =>
       servers[c] # <<>> /\ Head(servers[c]) # "unparsable"

ResultsOK ==
  /\ call \in [Callers -> 0..Calls]
  /\ left \in [Callers -> 0..Timeout]
  /\ waited \in [Callers -> Nat]
  /\ ret \in [Callers -> {-1, 0}]
  /\ size \in [Callers -> Nat]
  /\ got \in [Callers -> 0..Calls]

CountersOK == /\ calls \in 0..Calls /\ signals \in 0..Signals
              /\ open \subseteq Sockets /\ lost \subseteq Sockets

NetworkOK == wire \subseteq Message /\ inbox \in [Sockets -> Seq(Datagram)]

TypeOK == ControlOK /\ ResultsOK /\ CountersOK /\ NetworkOK

(* Every open descriptor belongs to exactly one call in progress, which    *)
(* will close it, or was left open at line 171 -- the one return of the    *)
(* function without a socket_close behind a successful socket().           *)
DescriptorsAccounted ==
  /\ open = lost \cup ({sock[c] : c \in Callers} \ {NoSocket})
  /\ \A c \in Callers : sock[c] \notin lost
  /\ \A c, d \in Callers : c # d /\ sock[c] = sock[d] => sock[c] = NoSocket

(* 0 is returned exactly with at least one address and at most the array's *)
(* size, -1 exactly with none (lines 128, 225-231).                        *)
ReturnSound ==
  \A c \in Callers : /\ ret[c] = 0 <=> size[c] > 0
                     /\ size[c] <= MaxIps

(* Calls in progress never get each other's answers, although replies are  *)
(* matched by nothing but the port (lines 150, 190, 440).  A call that     *)
(* gave up is another matter: what was sent to it may still be taken by    *)
(* the next one with its port, as the answer to another name.              *)
NoCrossTalk ==
  \A c, d \in Callers :
    c # d /\ pc[c] = "select" /\ pc[d] # "idle" =>
      \A x \in Range(inbox[sock[c]]) : x.call # call[d]

(* RecvWithinTime waits no longer than _timeout, in spite of signals       *)
(* (lines 415-429): "_timeout: sets the query's time limit", dnsquery.h:37. *)
WithinTimeout == \A c \in Callers : waited[c] <= Timeout

(* Every call returns.                                                     *)
Returns == \A c \in Callers : pc[c] # "idle" ~> pc[c] = "idle"
=============================================================================
