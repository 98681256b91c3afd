---------------------------- MODULE TraceRouter ----------------------------
(***************************************************************************)
(* src/tracerouter/tracerouter.hpp, the socket version of TraceRouter: for *)
(* each TTL a line of up to three probes, each one followed by one wait    *)
(* for an ICMP message in RecvWithinTime.                                  *)
(*                                                                         *)
(* The route is a chain of routers; the one at distance h answers a probe  *)
(* of TTL h, and the host, at distance Distance, all greater ones.  The    *)
(* network loses and delays answers.  Strays are answers that come twice   *)
(* and every other ICMP message that the host receives, from anybody: the  *)
(* raw socket gets them all.                                               *)
(***************************************************************************)
EXTENDS Integers, SequencesExt

CONSTANTS MaxTraceTTL,         \* TTLs are 1 .. MaxTraceTTL - 1
          EveryTTLExpCount,    \* probes per TTL
          TraceRouterTimeOut,  \* in clock ticks
          Distance,            \* hops to the host
          ValidHost,           \* inet_pton takes the host for an address
          TvUpdated,           \* select leaves the remaining time in tv
          Senders,             \* addresses of others that send ICMP messages
          Strays, Signals      \* bounds: unrelated messages, signals caught

ASSUME TraceRouterAssumption ==
  /\ MaxTraceTTL \in Nat \ {0} /\ EveryTTLExpCount \in Nat \ {0}
  /\ TraceRouterTimeOut \in Nat \ {0} /\ Distance \in Nat \ {0}
  /\ ValidHost \in BOOLEAN /\ TvUpdated \in BOOLEAN
  /\ Senders \subseteq Nat /\ Strays \in Nat /\ Signals \in Nat

None == -1  \* no router.  That at distance h has the address h

VARIABLES pc,           \* control point
          sockets,      \* _socket_w and _socket_r: none, good, bad, closed
          ttl,          \* i
          times,        \* probes left on this line
          t_ip,         \* the router last shown on this line, None for none
          left,         \* tv
          report,       \* the output: an entry per probe, [ttl, of, hop, shown]
          outstanding,  \* probes whose answer is under way
          rcvbuf,       \* messages queued on _socket_r: the probe that each
                        \* answers, 0 for none, and its sender, [of, hop]
          strays, signals,
          elapsed       \* history: ticks spent waiting

network == <<outstanding, rcvbuf, strays>>
vars == <<pc, sockets, ttl, times, t_ip, left, report, network, signals, elapsed>>

Init == /\ pc = "open" /\ sockets = "none"
        /\ ttl = 0 /\ times = 0 /\ t_ip = None /\ left = 0
        /\ report = <<>>
        /\ outstanding = {} /\ rcvbuf = <<>> /\ strays = 0
        /\ signals = 0 /\ elapsed = 0

-----------------------------------------------------------------------------
(* Both sockets, and the options that fail on a bad one.                   *)
Open ==
  /\ pc = "open"
  /\ \E s \in {"good", "bad"} :
       /\ sockets' = s
       /\ pc' = IF s = "good" THEN "ttl" ELSE "done"
  /\ UNCHANGED <<ttl, times, t_ip, left, report, network, signals, elapsed>>

(* The loop over TTLs: IP_TTL is set and a line begun, unless this was the *)
(* last one or setsockopt fails.  An invalid host leaves the line at once. *)
BeginLine ==
  /\ pc = "ttl"
  /\ \/ /\ ttl + 1 < MaxTraceTTL
        /\ ttl' = ttl + 1
        /\ t_ip' = None
        /\ times' = EveryTTLExpCount
        /\ pc' = IF ValidHost THEN "probe" ELSE "line"
     \/ pc' = "done" /\ UNCHANGED <<ttl, t_ip, times>>
  /\ UNCHANGED <<sockets, left, report, network, signals, elapsed>>

(* The router's address is printed as a number (source_address() returns   *)
(* an int), while _host is in dotted form: they are never the same text.   *)
NumberText(hop) == <<"number", hop>>
DottedText(hop) == <<"dotted", hop>>

(* "t_ip == _host" after the line.                                         *)
EndLine ==
  /\ pc = "line"
  /\ pc' = IF NumberText(t_ip) = DottedText(Distance) THEN "done" ELSE "ttl"
  /\ UNCHANGED <<sockets, ttl, times, t_ip, left, report, network, signals, elapsed>>

(* The next of the line's probes; a sendto that fails ends the line, and   *)
(* only the line.  The router on the way that answers is the one at the    *)
(* distance of the TTL, or the host.                                       *)
Probe == Len(report) + 1

Answer_OneAhead(n) == [of |-> n, hop |-> Min({ttl + 1, Distance})]  \* faulty: IP_TTL is i + 1

Answer(n) == [of |-> n, hop |-> Min({ttl, Distance})]

Send ==
  /\ pc = "probe"
  /\ \/ times = 0 /\ pc' = "line" /\ UNCHANGED <<times, left, outstanding>>
     \/ /\ times > 0 /\ times' = times - 1
        /\ \/ /\ pc' = "recv" /\ left' = TraceRouterTimeOut
              /\ outstanding' = outstanding \cup {Answer(Probe)}
           \/ pc' = "line" /\ UNCHANGED <<left, outstanding>>
  /\ UNCHANGED <<sockets, ttl, t_ip, report, rcvbuf, strays, signals, elapsed>>

-----------------------------------------------------------------------------
(* RecvWithinTime, and what explore_router prints of its outcome.          *)
Star == [ttl |-> ttl, of |-> 0, hop |-> None, shown |-> FALSE]

(* The first message in the queue is this probe's answer, whatever it is;  *)
(* the address is printed when it is not the one last printed.             *)
Remember_Not(hop) == UNCHANGED t_ip  \* faulty form: t_ip is not set

Remember(hop) == t_ip' = hop

Rest_Peek(queue) == queue  \* faulty form: the message stays in the queue

Rest(queue) == Tail(queue)

Entry(m) == [ttl |-> ttl, of |-> m.of, hop |-> m.hop, shown |-> m.hop # t_ip]

Recv ==
  /\ pc = "recv" /\ rcvbuf # <<>>
  /\ report' = Append(report, Entry(Head(rcvbuf)))
  /\ Remember(Head(rcvbuf).hop)
  /\ rcvbuf' = Rest(rcvbuf)
  /\ pc' = "probe"
  /\ UNCHANGED <<sockets, ttl, times, left, outstanding, strays, signals, elapsed>>

Miss == /\ report' = Append(report, Star)
        /\ pc' = "probe"
        /\ UNCHANGED <<sockets, ttl, times, t_ip, left, network, signals, elapsed>>

TimesOut_WaitsAgain ==  \* faulty form: a timeout is treated as EINTR is
  /\ pc = "recv" /\ rcvbuf = <<>> /\ left = 0
  /\ left' = TraceRouterTimeOut
  /\ UNCHANGED <<pc, sockets, ttl, times, t_ip, report, network, signals, elapsed>>

TimesOut == pc = "recv" /\ rcvbuf = <<>> /\ left = 0 /\ Miss

(* select or recvfrom fails.                                               *)
RecvFails == pc = "recv" /\ Miss

(* EINTR: select starts over with tv as it is -- all of it where select    *)
(* does not write the rest back.                                           *)
Signal ==
  /\ pc = "recv" /\ rcvbuf = <<>> /\ signals < Signals
  /\ signals' = signals + 1
  /\ left' = IF TvUpdated THEN left ELSE TraceRouterTimeOut
  /\ UNCHANGED <<pc, sockets, ttl, times, t_ip, report, network, elapsed>>

Tick_Stuck == FALSE  \* faulty form: select is given no timeout

Tick ==
  /\ pc = "recv" /\ rcvbuf = <<>> /\ left > 0
  /\ left' = left - 1
  /\ elapsed' = elapsed + 1
  /\ UNCHANGED <<pc, sockets, ttl, times, t_ip, report, network, signals>>

(* The destructor.                                                         *)
Destroy ==
  /\ pc = "done"
  /\ pc' = "gone" /\ sockets' = "closed"
  /\ UNCHANGED <<ttl, times, t_ip, left, report, network, signals, elapsed>>

-----------------------------------------------------------------------------
(* A message under way arrives.  When it does so matters to a wait that    *)
(* has nothing else to read; until then it may as well be under way.       *)
Deliver ==
  /\ pc = "recv" /\ rcvbuf = <<>>
  /\ \E m \in outstanding : /\ rcvbuf' = Append(rcvbuf, m)
                            /\ outstanding' = outstanding \ {m}
  /\ UNCHANGED <<pc, sockets, ttl, times, t_ip, left, report, strays, signals, elapsed>>

(* An answer once more, or a message that answers no probe of this trace:  *)
(* other traces and processes have theirs, from routers of this route, of  *)
(* its part beyond the TTL, and of other routes.                           *)
Stray ==
  /\ pc = "recv" /\ rcvbuf = <<>> /\ strays < Strays
  /\ strays' = strays + 1
  /\ \E m \in outstanding \cup [of : {0}, hop : Senders] : rcvbuf' = Append(rcvbuf, m)
  /\ UNCHANGED <<pc, sockets, ttl, times, t_ip, left, report, outstanding, signals, elapsed>>

Run == Open \/ BeginLine \/ EndLine \/ Send \/ Recv \/ TimesOut \/ Destroy

Next == Run \/ RecvFails \/ Signal \/ Tick \/ Deliver \/ Stray

(* The thread runs and time passes; the network owes nothing.              *)
Fairness == WF_vars(Run) /\ WF_vars(Tick)

Spec == Init /\ [][Next]_vars /\ Fairness

-----------------------------------------------------------------------------
(* Properties                                                              *)

ControlOK ==
  /\ pc \in {"open", "ttl", "line", "probe", "recv", "done", "gone"}
  /\ sockets \in {"none", "good", "bad", "closed"}
  /\ pc \in {"ttl", "line", "probe", "recv"} => sockets = "good"
  /\ ttl \in 0..(MaxTraceTTL - 1)
  /\ pc \in {"line", "probe", "recv"} => ttl > 0
  /\ times \in 0..EveryTTLExpCount
  /\ pc = "recv" => times < EveryTTLExpCount
  /\ left \in 0..TraceRouterTimeOut

Message == [of : Nat, hop : Nat]

Entries == [ttl : 1..(MaxTraceTTL - 1), of : Nat, hop : Nat \cup {None}, shown : BOOLEAN]

OutputOK == t_ip \in Nat \cup {None} /\ report \in Seq(Entries)

NetworkOK ==
  /\ outstanding \subseteq Message /\ rcvbuf \in Seq(Message)
  /\ strays \in 0..Strays /\ signals \in 0..Signals /\ elapsed \in Nat

TypeOK == ControlOK /\ OutputOK /\ NetworkOK

Answered(i) == report[i].of # 0

(* Messages are matched with probes by nothing but their order ("TODO",    *)
(* line 215).  The trace is still right as long as nothing went wrong: on  *)
(* a route that answered every probe so far, each entry is the router at   *)
(* the distance of its line, or the host.                                  *)
HopsInStep ==
  strays = 0 =>
    \A i \in 1..Len(report) :
      (\A j \in 1..i : Answered(j)) =>
        report[i].of = i /\ report[i].hop = Min({report[i].ttl, Distance})

(* However late the answers are and whatever was lost: an entry that is an *)
(* answer to this trace is one to its own probe or an earlier one, and so  *)
(* shows no router that is farther away than its TTL, nor one beyond the   *)
(* host.  What an entry shows that is none (Answered) may be anybody: that *)
(* nothing is checked (lines 206-224) makes such entries possible.         *)
NotBeyond ==
  \A i \in 1..Len(report) : Answered(i) =>
    report[i].of <= i /\ report[i].hop <= report[i].ttl /\ report[i].hop <= Distance

(* The last address of the line before entry j is that of entry j.         *)
Repeats(entries, j) ==
  \E i \in 1..(j - 1) :
    /\ entries[i].ttl = entries[j].ttl /\ entries[i].hop = entries[j].hop
    /\ \A m \in (i + 1)..(j - 1) : entries[m].hop = None

(* Within a line a router's address is printed at its first answer and     *)
(* again only after another router's (lines 225-239): stars between two    *)
(* answers make no difference, nor does what earlier lines showed.         *)
PrintedOnChange ==
  \A j \in 1..Len(report) : report[j].hop # None => (report[j].shown <=> ~Repeats(report, j))

(* All the waiting is bounded by the probes and the signals caught: the    *)
(* timeout is per probe, and an interrupted wait costs one more at most.   *)
BoundedTime == elapsed <= TraceRouterTimeOut * (Len(report) + 1 + signals)

(* "the host is reached: leave the loop" (line 140): no line follows one   *)
(* that ended with the host's answer.                                      *)
StopsAtHost ==
  \A i \in 1..Len(report) : report[i].hop = Distance => ttl = report[i].ttl

(* start() ends, whatever the network does.                                *)
Terminates == <>(pc = "gone")
=============================================================================
