------------------------- MODULE TraceRouterProofs -------------------------
(***************************************************************************)
(* Proofs about TraceRouter, for any number of TTLs, probes, hops, stray   *)
(* messages and signals.  The inductive invariant has a part for each      *)
(* property: how far the messages under way can come from (Near), where    *)
(* the answer to the current probe is (Flight), which entry t_ip stands    *)
(* for (LastShown), and what the current wait has taken so far (Waited).   *)
(*                                                                         *)
(* The last parts are about PingCommand: the trace router that has no      *)
(* socket and starts the ping program for every probe, and the pinger that *)
(* reads that program's report.                                            *)
(***************************************************************************)
EXTENDS TraceRouter, PingCommand, SequenceLemmas

(* The helpers of Recv are written out below.                              *)
USE DEF Remember, Rest

-----------------------------------------------------------------------------
(* What is under way is the answer to no later probe than this, and comes  *)
(* from no router beyond the TTL or the host, unless it is no answer.      *)
Close(m, t, n) == m.of # 0 => m.of <= n /\ m.hop <= t /\ m.hop <= Distance

Near ==
  /\ \A m \in outstanding : Close(m, ttl, Probe)
  /\ \A i \in 1..Len(rcvbuf) : Close(rcvbuf[i], ttl, Probe)
  /\ \A i \in 1..Len(report) : report[i].ttl <= ttl

AllAnswered == \A j \in 1..Len(report) : Answered(j)

(* While every probe was answered, the only message there may be is the    *)
(* answer to the current one.                                              *)
Flight ==
  strays = 0 /\ AllAnswered =>
    IF pc = "recv"
    THEN \/ outstanding = {Answer(Probe)} /\ rcvbuf = <<>>
         \/ outstanding = {} /\ rcvbuf = <<Answer(Probe)>>
    ELSE outstanding = {} /\ rcvbuf = <<>>

(* t_ip is the address of the line's last entry that is not a star.        *)
LastShown ==
  /\ t_ip = None => \A i \in 1..Len(report) : report[i].ttl = ttl => report[i].hop = None
  /\ t_ip # None =>
       \E i \in 1..Len(report) :
         /\ report[i].ttl = ttl /\ report[i].hop = t_ip
         /\ \A k \in (i + 1)..Len(report) : report[k].hop = None

(* Every wait that ended took the timeout at most, each signal as much     *)
(* again, and the current wait what is missing from tv.                    *)
Waited ==
  elapsed <= TraceRouterTimeOut * (Len(report) + signals)
               + (IF pc = "recv" THEN TraceRouterTimeOut - left ELSE 0)

Inv == TypeOK /\ Near /\ NotBeyond /\ Flight /\ HopsInStep /\ LastShown /\ PrintedOnChange /\ Waited

(* What TypeOK says, in the form the provers need.                         *)
LEMMA Types ==
  ASSUME TypeOK
  PROVE  /\ ttl \in Nat /\ Len(report) \in Nat /\ Len(rcvbuf) \in Nat
         /\ \A i \in 1..Len(report) :
              /\ report[i] \in Entries
              /\ report[i].ttl \in Nat /\ report[i].of \in Nat /\ report[i].hop \in Int
         /\ \A i \in 1..Len(rcvbuf) :
              rcvbuf[i] \in Message /\ rcvbuf[i].of \in Nat /\ rcvbuf[i].hop \in Nat
         /\ \A m \in outstanding : m \in Message /\ m.of \in Nat /\ m.hop \in Nat
<1>1. \A i \in 1..Len(report) : report[i] \in Entries
  BY ElementOfSeq DEF TypeOK, OutputOK
<1>2. \A i \in 1..Len(rcvbuf) : rcvbuf[i] \in Message
  BY ElementOfSeq DEF TypeOK, NetworkOK
<1>3. ttl \in Nat /\ Len(report) \in Nat /\ Len(rcvbuf) \in Nat
  BY LenProperties, TraceRouterAssumption DEF TypeOK, ControlOK, OutputOK, NetworkOK
<1>4. \A e \in Entries : e.ttl \in Nat /\ e.of \in Nat /\ e.hop \in Int
  BY TraceRouterAssumption DEF Entries, None
<1> QED BY <1>1, <1>2, <1>3, <1>4 DEF TypeOK, NetworkOK, Message

(* An answer comes from the nearer of the TTL's router and the host.       *)
LEMMA AnswerClose ==
  ASSUME ttl \in Nat, NEW n \in Nat
  PROVE  /\ Answer(n) \in Message /\ Answer(n).of = n /\ Answer(n).hop = Min({ttl, Distance})
         /\ Answer(n).hop <= ttl /\ Answer(n).hop <= Distance
<1>1. PICK m \in {ttl, Distance} : \A x \in {ttl, Distance} : m <= x
  BY TraceRouterAssumption
<1>2. Min({ttl, Distance}) \in {ttl, Distance}
      /\ \A x \in {ttl, Distance} : Min({ttl, Distance}) <= x
  BY <1>1 DEF Min
<1> QED BY <1>2, TraceRouterAssumption DEF Answer, Message

(* What an entry adds to the report.                                       *)
LEMMA Appended ==
  ASSUME TypeOK, NEW e \in Entries, report' = Append(report, e)
  PROVE  /\ report' \in Seq(Entries) /\ Len(report') = Len(report) + 1
         /\ \A i \in 1..Len(report) : report'[i] = report[i]
         /\ report'[Len(report) + 1] = e
BY AppendProperties DEF TypeOK, OutputOK

(* The entries that steps append.                                          *)
LEMMA NewEntries ==
  ASSUME TypeOK, pc = "recv"
  PROVE  /\ Star \in Entries
         /\ \A m \in Message : Entry(m) \in Entries
<1>1. ttl \in 1..(MaxTraceTTL - 1)
  BY TraceRouterAssumption DEF TypeOK, ControlOK
<1> QED BY <1>1 DEF Star, Entry, Entries, Message, None

(* The head of the queue.                                                  *)
LEMMA Received ==
  ASSUME TypeOK, rcvbuf # <<>>
  PROVE  /\ Head(rcvbuf) \in Message /\ Head(rcvbuf) = rcvbuf[1] /\ 1 \in 1..Len(rcvbuf)
         /\ Tail(rcvbuf) \in Seq(Message) /\ Len(Tail(rcvbuf)) = Len(rcvbuf) - 1
         /\ \A i \in 1..Len(Tail(rcvbuf)) : Tail(rcvbuf)[i] = rcvbuf[i + 1]
BY HeadTailProperties, EmptySeq, LenProperties DEF TypeOK, NetworkOK

(* What a wait without an answer and the arrival of a message do.          *)
LEMMA StarPrinted ==
  ASSUME TimesOut \/ RecvFails
  PROVE  /\ pc = "recv" /\ pc' = "probe" /\ report' = Append(report, Star)
         /\ UNCHANGED <<sockets, ttl, times, t_ip, left, outstanding, rcvbuf, strays, signals, elapsed>>
BY DEF TimesOut, RecvFails, Miss, network

LEMMA Arrived ==
  ASSUME TypeOK, Deliver \/ Stray
  PROVE  /\ pc = "recv" /\ rcvbuf = <<>> /\ outstanding' \subseteq outstanding
         /\ strays' \in 0..Strays
         /\ \E m \in Message :
              rcvbuf' = <<m>> /\ (m \in outstanding \/ m.of = 0)
         /\ UNCHANGED <<pc, sockets, ttl, times, t_ip, left, report, signals, elapsed>>
<1>1. ASSUME NEW m \in [of : {0}, hop : Senders]
      PROVE  m \in Message /\ m.of = 0
  <2>1. m = [of |-> m.of, hop |-> m.hop] /\ m.of \in {0} /\ m.hop \in Senders
    OBVIOUS
  <2>2. m.of = 0 /\ m.hop \in Nat
    BY <2>1, TraceRouterAssumption
  <2> QED BY <2>1, <2>2 DEF Message
<1>2. \A m : Append(<<>>, m) = <<m>>
  OBVIOUS
<1>3. strays' \in 0..Strays
  BY TraceRouterAssumption DEF Deliver, Stray, TypeOK, NetworkOK
<1>4. CASE Deliver
  BY <1>2, <1>3, <1>4 DEF Deliver, TypeOK, NetworkOK
<1>5. CASE Stray
  BY <1>1, <1>2, <1>3, <1>5 DEF Stray, TypeOK, NetworkOK
<1> QED BY <1>4, <1>5

-----------------------------------------------------------------------------
LEMMA InitInv == Init => Inv
<1> SUFFICES ASSUME Init PROVE Inv
  OBVIOUS
<1> USE TraceRouterAssumption DEF Init
<1>1. TypeOK
  BY DEF TypeOK, ControlOK, OutputOK, NetworkOK, None
<1>2. Near /\ NotBeyond /\ Flight /\ HopsInStep /\ LastShown /\ PrintedOnChange
  BY DEF Near, NotBeyond, Flight, HopsInStep, LastShown, PrintedOnChange, None
<1>3. Waited
  BY DEF Waited
<1> QED BY <1>1, <1>2, <1>3 DEF Inv

(* Every step keeps the types.                                             *)
LEMMA TypeStep == Inv /\ [Next]_vars => TypeOK'
<1> SUFFICES ASSUME Inv, [Next]_vars PROVE TypeOK'
  OBVIOUS
<1>0. TypeOK /\ ControlOK /\ OutputOK /\ NetworkOK /\ ttl \in Nat /\ Len(report) \in Nat
  BY Types DEF Inv, TypeOK
<1> USE TraceRouterAssumption
<1>1. CASE Open \/ EndLine \/ Destroy
  <2>1. ControlOK'
    BY <1>0, <1>1 DEF Open, EndLine, Destroy, ControlOK
  <2> QED BY <1>0, <1>1, <2>1 DEF Open, EndLine, Destroy, TypeOK, OutputOK, NetworkOK, network
<1>2. CASE BeginLine
  <2>1. ControlOK'
    BY <1>0, <1>2 DEF BeginLine, ControlOK
  <2> QED BY <1>0, <1>2, <2>1 DEF BeginLine, TypeOK, OutputOK, NetworkOK, network
<1>3. CASE Send
  <2>1. ControlOK'
    BY <1>0, <1>3 DEF Send, ControlOK
  <2>2. outstanding' \subseteq Message
    BY <1>0, <1>3, AnswerClose DEF Send, NetworkOK, Probe
  <2> QED BY <1>0, <1>3, <2>1, <2>2 DEF Send, TypeOK, OutputOK, NetworkOK
<1>4. CASE Recv
  <2>1. Head(rcvbuf) \in Message /\ rcvbuf' \in Seq(Message)
    BY <1>0, <1>4, Received DEF Recv
  <2>2. report' \in Seq(Entries)
    BY <1>0, <1>4, <2>1, NewEntries, Appended DEF Recv
  <2>3. ControlOK'
    BY <1>0, <1>4 DEF Recv, ControlOK
  <2>4. t_ip' \in Nat \cup {None}
    BY <1>4, <2>1 DEF Recv, Message
  <2> QED BY <1>0, <1>4, <2>1, <2>2, <2>3, <2>4 DEF Recv, TypeOK, OutputOK, NetworkOK
<1>5. CASE TimesOut \/ RecvFails
  <2>1. report' \in Seq(Entries)
    BY <1>0, <1>5, StarPrinted, NewEntries, Appended
  <2>2. ControlOK'
    BY <1>0, <1>5, StarPrinted DEF ControlOK
  <2> QED BY <1>0, <1>5, <2>1, <2>2, StarPrinted DEF TypeOK, OutputOK, NetworkOK
<1>6. CASE Signal \/ Tick
  <2>1. ControlOK'
    BY <1>0, <1>6 DEF Signal, Tick, ControlOK
  <2>2. NetworkOK'
    BY <1>0, <1>6 DEF Signal, Tick, NetworkOK, network
  <2> QED BY <1>0, <1>6, <2>1, <2>2 DEF Signal, Tick, TypeOK, OutputOK
<1>7. CASE Deliver \/ Stray
  <2>1. ControlOK'
    BY <1>0, <1>7, Arrived DEF ControlOK
  <2>2. NetworkOK'
    <3>1. PICK m \in Message : rcvbuf' = <<m>>
      BY <1>0, <1>7, Arrived
    <3>2. outstanding' \subseteq outstanding /\ strays' \in 0..Strays /\ UNCHANGED <<signals, elapsed>>
      BY <1>0, <1>7, Arrived
    <3>3. rcvbuf' \in Seq(Message)
      BY <3>1
    <3> QED BY <1>0, <3>2, <3>3 DEF NetworkOK
  <2> QED BY <1>0, <1>7, <2>1, <2>2, Arrived DEF TypeOK, OutputOK
<1>8. CASE UNCHANGED vars
  BY <1>0, <1>8 DEF vars, network, TypeOK, ControlOK, OutputOK, NetworkOK
<1> QED BY <1>1, <1>2, <1>3, <1>4, <1>5, <1>6, <1>7, <1>8 DEF Next, Run

-----------------------------------------------------------------------------
(* Time and distance only grow, and an entry is as close as its message.   *)
LEMMA NearStep == Inv /\ [Next]_vars => Near' /\ NotBeyond'
<1> SUFFICES ASSUME Inv, [Next]_vars PROVE Near' /\ NotBeyond'
  OBVIOUS
<1>0. /\ TypeOK /\ Near /\ NotBeyond
      /\ ttl \in Nat /\ Len(report) \in Nat /\ Len(rcvbuf) \in Nat
      /\ \A i \in 1..Len(report) : report[i].ttl \in Nat /\ report[i].of \in Nat /\ report[i].hop \in Int
      /\ \A i \in 1..Len(rcvbuf) : rcvbuf[i].of \in Nat /\ rcvbuf[i].hop \in Nat
      /\ \A m \in outstanding : m.of \in Nat /\ m.hop \in Nat
  BY Types DEF Inv
<1> USE TraceRouterAssumption
<1>1. CASE Open \/ EndLine \/ Destroy \/ Signal \/ Tick \/ UNCHANGED vars
  <2>1. UNCHANGED <<ttl, report, outstanding, rcvbuf>>
    BY <1>1 DEF Open, EndLine, Destroy, Signal, Tick, vars, network
  <2> QED BY <1>0, <2>1 DEF Near, NotBeyond, Answered, Close, Probe
<1>2. CASE BeginLine
  <2>1. ttl' \in Nat /\ ttl <= ttl' /\ UNCHANGED <<report, outstanding, rcvbuf>>
    BY <1>0, <1>2 DEF BeginLine, network
  <2> QED BY <1>0, <2>1 DEF Near, NotBeyond, Answered, Close, Probe
<1>3. CASE Send
  <2>1. /\ \A m \in outstanding' : m \in outstanding \/ m = Answer(Probe)
        /\ UNCHANGED <<ttl, report, rcvbuf>>
    BY <1>3 DEF Send
  <2>2. Close(Answer(Probe), ttl, Probe)
    BY <1>0, AnswerClose DEF Close, Probe
  <2> QED BY <1>0, <2>1, <2>2 DEF Near, NotBeyond, Answered, Close, Probe
<1>4. CASE Recv
  <2> DEFINE m == Head(rcvbuf)
             e == Entry(m)
  <2>1. /\ m \in Message /\ m = rcvbuf[1] /\ 1 \in 1..Len(rcvbuf)
        /\ Len(rcvbuf') = Len(rcvbuf) - 1
        /\ \A i \in 1..Len(rcvbuf') : rcvbuf'[i] = rcvbuf[i + 1]
    BY <1>0, <1>4, Received DEF Recv
  <2>2. UNCHANGED <<ttl, outstanding>> /\ report' = Append(report, e) /\ pc = "recv"
    BY <1>4 DEF Recv
  <2>3. e \in Entries
    BY <1>0, <2>1, <2>2, NewEntries
  <2>4. /\ Len(report') = Len(report) + 1
        /\ \A i \in 1..Len(report) : report'[i] = report[i]
        /\ report'[Len(report) + 1] = e
    BY <1>0, <2>2, <2>3, Appended
  <2>5. /\ e.ttl = ttl /\ e.hop = m.hop /\ e.of = m.of
        /\ m.of # 0 => m.of <= Len(report) + 1 /\ m.hop <= ttl /\ m.hop <= Distance
    BY <1>0, <2>1 DEF Entry, Near, Close, Probe
  <2> HIDE DEF m, e
  <2>6. Near'
    <3>1. \A i \in 1..Len(rcvbuf') : i + 1 \in 1..Len(rcvbuf) /\ rcvbuf'[i] = rcvbuf[i + 1]
      BY <1>0, <2>1
    <3>2. ttl' = ttl /\ Probe' = Probe + 1 /\ Probe \in Nat
      BY <1>0, <2>2, <2>4 DEF Probe
    <3>3. \A x : x.of \in Nat /\ Close(x, ttl, Probe) => Close(x, ttl, Probe + 1)
      BY <3>2 DEF Close
    <3>4. \A i \in 1..Len(rcvbuf') : Close(rcvbuf'[i], ttl, Probe + 1)
      BY <1>0, <3>1, <3>3 DEF Near
    <3>5. \A x \in outstanding' : Close(x, ttl, Probe + 1)
      BY <1>0, <2>2, <3>3 DEF Near
    <3>6. \A i \in 1..Len(report') : report'[i].ttl <= ttl
      BY <1>0, <2>4, <2>5 DEF Near
    <3> QED BY <3>2, <3>4, <3>5, <3>6 DEF Near
  <2>7. NotBeyond'
    BY <1>0, <2>2, <2>4, <2>5 DEF NotBeyond, Answered
  <2> QED BY <2>6, <2>7
<1>5. CASE TimesOut \/ RecvFails
  <2>1. /\ UNCHANGED <<ttl, outstanding, rcvbuf>>
        /\ Len(report') = Len(report) + 1
        /\ \A i \in 1..Len(report) : report'[i] = report[i]
        /\ report'[Len(report) + 1] = Star
    BY <1>0, <1>5, StarPrinted, NewEntries, Appended
  <2>2. Star.ttl = ttl /\ Star.of = 0
    BY <1>0 DEF Star
  <2>3. Near'
    <3>1. ttl' = ttl /\ Probe' = Probe + 1 /\ Probe \in Nat
      BY <1>0, <2>1 DEF Probe
    <3>2. \A x : x.of \in Nat /\ Close(x, ttl, Probe) => Close(x, ttl, Probe + 1)
      BY <3>1 DEF Close
    <3>3. /\ \A x \in outstanding : Close(x, ttl, Probe + 1)
          /\ \A i \in 1..Len(rcvbuf) : Close(rcvbuf[i], ttl, Probe + 1)
      BY <1>0, <3>2 DEF Near
    <3>4. \A i \in 1..Len(report') : report'[i].ttl <= ttl
      BY <1>0, <2>1, <2>2 DEF Near
    <3> QED BY <2>1, <3>1, <3>3, <3>4 DEF Near
  <2>4. NotBeyond'
    BY <1>0, <2>1, <2>2 DEF NotBeyond, Answered
  <2> QED BY <2>3, <2>4
<1>6. CASE Deliver \/ Stray
  <2>1. PICK m \in Message : rcvbuf' = <<m>> /\ (m \in outstanding \/ m.of = 0)
    BY <1>0, <1>6, Arrived
  <2>2. outstanding' \subseteq outstanding /\ UNCHANGED <<ttl, report>>
    BY <1>0, <1>6, Arrived
  <2>3. Close(m, ttl, Probe)
    BY <1>0, <2>1 DEF Near, Close
  <2> QED BY <1>0, <2>1, <2>2, <2>3 DEF Near, NotBeyond, Answered, Close, Probe
<1> QED BY <1>1, <1>2, <1>3, <1>4, <1>5, <1>6 DEF Next, Run

-----------------------------------------------------------------------------
(* The current probe's answer, and the entries made of answers so far.     *)
LEMMA FlightStep == Inv /\ [Next]_vars => Flight' /\ HopsInStep'
<1> SUFFICES ASSUME Inv, [Next]_vars PROVE Flight' /\ HopsInStep'
  OBVIOUS
<1>0. /\ TypeOK /\ Flight /\ HopsInStep /\ strays \in Nat
      /\ ttl \in Nat /\ Len(report) \in Nat
  BY Types, TraceRouterAssumption DEF Inv, TypeOK, NetworkOK
<1>1. CASE Open \/ BeginLine \/ EndLine \/ Destroy \/ Signal \/ Tick \/ UNCHANGED vars
  <2>1. /\ UNCHANGED <<report, outstanding, rcvbuf, strays>>
        /\ pc = "recv" <=> pc' = "recv"
        /\ pc = "recv" => ttl' = ttl
    BY <1>1 DEF Open, BeginLine, EndLine, Destroy, Signal, Tick, vars, network
  <2>2. HopsInStep'
    BY <1>0, <2>1 DEF HopsInStep, Answered
  <2>3. Flight'
    BY <1>0, <2>1 DEF Flight, AllAnswered, Answered, Answer, Probe
  <2> QED BY <2>2, <2>3
<1>2. CASE Send
  <2>1. /\ pc = "probe" /\ UNCHANGED <<ttl, report, rcvbuf, strays>>
        /\ \/ pc' = "recv" /\ outstanding' = outstanding \cup {Answer(Probe)}
           \/ pc' = "line" /\ UNCHANGED outstanding
    BY <1>2 DEF Send
  <2>2. HopsInStep'
    BY <1>0, <2>1 DEF HopsInStep, Answered
  <2>3. Flight'
    BY <1>0, <2>1 DEF Flight, AllAnswered, Answered, Answer, Probe
  <2> QED BY <2>2, <2>3
<1>3. CASE Recv
  <2> DEFINE m == Head(rcvbuf)
             e == Entry(m)
             n == Len(report) + 1
  <2>1. /\ pc = "recv" /\ pc' = "probe" /\ rcvbuf' = Tail(rcvbuf) /\ report' = Append(report, e)
        /\ UNCHANGED <<ttl, outstanding, strays>>
    BY <1>3 DEF Recv
  <2>2. /\ Len(report') = n /\ report'[n] = e
        /\ \A i \in 1..Len(report) : report'[i] = report[i]
    <3>1. e \in Entries
      BY <1>0, <1>3, <2>1, Received, NewEntries DEF Recv
    <3> QED BY <1>0, <2>1, <3>1, Appended
  <2>3. e.of = m.of /\ e.hop = m.hop /\ e.ttl = ttl
    BY DEF Entry
  <2>4. ASSUME strays = 0, AllAnswered
        PROVE  rcvbuf' = <<>> /\ outstanding' = {} /\ m = Answer(n)
    <3>1. outstanding = {} /\ rcvbuf = <<Answer(Probe)>>
      BY <1>0, <1>3, <2>1, <2>4 DEF Flight, Recv
    <3>2. \A x : Tail(<<x>>) = <<>> /\ Head(<<x>>) = x
      OBVIOUS
    <3> QED BY <2>1, <3>1, <3>2 DEF Probe
  <2>5. Answer(n).of = n /\ Answer(n).hop = Min({ttl, Distance})
    <3>1. n \in Nat
      BY <1>0
    <3> HIDE DEF n
    <3> QED BY <1>0, <3>1, AnswerClose
  <2> HIDE DEF m, e
  <2>6. n = Len(report) + 1 /\ (\A j \in 1..Len(report) : report'[j].of # 0) => AllAnswered
    BY <2>2 DEF AllAnswered, Answered
  <2>7. HopsInStep'
    <3>1. ASSUME strays = 0, NEW i \in 1..Len(report), \A j \in 1..i : report'[j].of # 0
          PROVE  report'[i].of = i /\ report'[i].hop = Min({report'[i].ttl, Distance})
      <4>1. \A j \in 1..i : report[j].of # 0
        BY <1>0, <2>2, <3>1
      <4> QED BY <1>0, <2>2, <3>1, <4>1 DEF HopsInStep, Answered
    <3>2. ASSUME strays = 0, \A j \in 1..n : report'[j].of # 0
          PROVE  report'[n].of = n /\ report'[n].hop = Min({report'[n].ttl, Distance})
      BY <1>0, <2>2, <2>3, <2>4, <2>5, <2>6, <3>2
    <3>3. \A i \in 1..n : i = n \/ i \in 1..Len(report)
      BY <1>0
    <3> HIDE DEF n
    <3> QED BY <2>1, <2>2, <3>1, <3>2, <3>3 DEF HopsInStep, Answered
  <2>8. Flight'
    <3>1. ASSUME strays = 0, AllAnswered' PROVE rcvbuf' = <<>> /\ outstanding' = {}
      <4>1. \A j \in 1..Len(report) : report'[j].of # 0
        BY <1>0, <2>2, <3>1 DEF AllAnswered, Answered
      <4> QED BY <2>4, <2>6, <3>1, <4>1
    <3> QED BY <2>1, <3>1 DEF Flight
  <2> QED BY <2>7, <2>8
<1>4. CASE TimesOut \/ RecvFails
  <2> DEFINE n == Len(report) + 1
  <2>1. /\ UNCHANGED <<ttl, outstanding, rcvbuf, strays>>
        /\ Len(report') = n /\ report'[n] = Star
        /\ \A i \in 1..Len(report) : report'[i] = report[i]
    BY <1>0, <1>4, StarPrinted, NewEntries, Appended
  <2>2. report'[n].of = 0 /\ n \in 1..n
    BY <1>0, <2>1 DEF Star
  <2>3. HopsInStep'
    <3>1. ASSUME strays = 0, NEW i \in 1..Len(report), \A j \in 1..i : report'[j].of # 0
          PROVE  report'[i].of = i /\ report'[i].hop = Min({report'[i].ttl, Distance})
      <4>1. \A j \in 1..i : report[j].of # 0
        BY <1>0, <2>1, <3>1
      <4> QED BY <1>0, <2>1, <3>1, <4>1 DEF HopsInStep, Answered
    <3>2. \A i \in 1..n : i = n \/ i \in 1..Len(report)
      BY <1>0
    <3> QED BY <2>1, <2>2, <3>1, <3>2 DEF HopsInStep, Answered
  <2>4. Flight'
    BY <2>1, <2>2 DEF Flight, AllAnswered, Answered
  <2> QED BY <2>3, <2>4
<1>5. CASE Deliver
  <2>1. /\ pc = "recv" /\ rcvbuf = <<>> /\ UNCHANGED <<pc, ttl, report, strays>>
    BY <1>5 DEF Deliver
  <2>2. PICK m \in outstanding : rcvbuf' = <<m>> /\ outstanding' = outstanding \ {m}
    BY <1>5 DEF Deliver
  <2>3. HopsInStep'
    BY <1>0, <2>1 DEF HopsInStep, Answered
  <2>4. strays = 0 /\ AllAnswered => outstanding = {Answer(Probe)}
    <3>1. <<Answer(Probe)>> # <<>>
      OBVIOUS
    <3> QED BY <1>0, <2>1, <3>1 DEF Flight
  <2>5. Answer(Probe)' = Answer(Probe)
    BY <2>1 DEF Answer, Probe
  <2>6. AllAnswered' = AllAnswered
    BY <2>1 DEF AllAnswered, Answered
  <2> QED BY <2>1, <2>2, <2>3, <2>4, <2>5, <2>6 DEF Flight
<1>6. CASE Stray
  <2>1. strays' # 0 /\ UNCHANGED report
    BY <1>0, <1>6 DEF Stray
  <2> QED BY <2>1 DEF Flight, HopsInStep
<1> QED BY <1>1, <1>2, <1>3, <1>4, <1>5, <1>6 DEF Next, Run

-----------------------------------------------------------------------------
(* An address is printed when it differs from the line's last one.         *)
LEMMA ShownStep == Inv /\ [Next]_vars => LastShown' /\ PrintedOnChange'
<1> SUFFICES ASSUME Inv, [Next]_vars PROVE LastShown' /\ PrintedOnChange'
  OBVIOUS
<1>0. /\ TypeOK /\ Near /\ LastShown /\ PrintedOnChange
      /\ ttl \in Nat /\ Len(report) \in Nat
      /\ \A i \in 1..Len(report) : report[i].ttl \in Nat /\ report[i].ttl <= ttl
  BY Types DEF Inv, Near
<1> DEFINE n == Len(report) + 1
<1>1. CASE \/ Open \/ EndLine \/ Destroy \/ Signal \/ Tick \/ Send \/ Deliver \/ Stray
           \/ UNCHANGED vars
  <2>1. UNCHANGED <<ttl, t_ip, report>>
    BY <1>1 DEF Open, EndLine, Destroy, Signal, Tick, Send, Deliver, Stray, vars
  <2> QED BY <1>0, <2>1 DEF LastShown, PrintedOnChange
<1>2. CASE BeginLine
  <2>1. UNCHANGED report /\ (UNCHANGED <<ttl, t_ip>> \/ (ttl' = ttl + 1 /\ t_ip' = None))
    BY <1>2 DEF BeginLine
  <2>2. PrintedOnChange'
    BY <1>0, <2>1 DEF PrintedOnChange
  <2>3. CASE UNCHANGED <<ttl, t_ip>>
    BY <1>0, <2>1, <2>2, <2>3 DEF LastShown
  <2>4. CASE ttl' = ttl + 1 /\ t_ip' = None
    <3>1. \A i \in 1..Len(report) : report[i].ttl # ttl + 1
      BY <1>0
    <3> QED BY <2>1, <2>2, <2>4, <3>1 DEF LastShown
  <2> QED BY <2>1, <2>3, <2>4
<1>3. ASSUME NEW e \in Entries, report' = Append(report, e), e.ttl = ttl, ttl' = ttl,
             \/ e.hop = None /\ t_ip' = t_ip
             \/ e.hop # None /\ t_ip' = e.hop /\ (e.shown <=> e.hop # t_ip)
      PROVE  LastShown' /\ PrintedOnChange'
  <2>1. /\ Len(report') = n /\ report'[n] = e /\ n \in 1..n
        /\ \A i \in 1..Len(report) : report'[i] = report[i]
        /\ \A i \in 1..n : i = n \/ i \in 1..Len(report)
    BY <1>0, <1>3, Appended
  <2>2. n = Len(report) + 1
    OBVIOUS
  <2> HIDE DEF n
  <2>3. LastShown'
    <3>1. CASE e.hop = None /\ t_ip' = t_ip
      <4>1. CASE t_ip = None
        BY <1>0, <1>3, <2>1, <3>1, <4>1 DEF LastShown
      <4>2. CASE t_ip # None
        <5>1. PICK i \in 1..Len(report) :
                /\ report[i].ttl = ttl /\ report[i].hop = t_ip
                /\ \A k \in (i + 1)..Len(report) : report[k].hop = None
          BY <1>0, <4>2 DEF LastShown
        <5>2. i \in 1..n /\ report'[i].ttl = ttl /\ report'[i].hop = t_ip
          BY <1>0, <2>1, <2>2, <5>1
        <5>3. \A k \in (i + 1)..n : report'[k].hop = None
          BY <1>0, <2>1, <2>2, <3>1, <5>1
        <5> QED BY <1>3, <2>1, <3>1, <4>2, <5>2, <5>3 DEF LastShown
      <4> QED BY <4>1, <4>2
    <3>2. CASE e.hop # None /\ t_ip' = e.hop
      <4>1. \A k \in (n + 1)..n : report'[k].hop = None
        BY <1>0, <2>2
      <4> QED BY <1>3, <2>1, <3>2, <4>1 DEF LastShown
    <3> QED BY <1>3, <3>1, <3>2
  <2>4. PrintedOnChange'
    <3>1. ASSUME NEW j \in 1..Len(report)
          PROVE  Repeats(report', j) <=> Repeats(report, j)
      <4>1. \A i \in 1..j : report'[i] = report[i]
        BY <1>0, <2>1
      <4>2. \A i \in 1..(j - 1) : i \in 1..j /\ \A m \in (i + 1)..(j - 1) : m \in 1..j
        OBVIOUS
      <4>3. j \in 1..j
        OBVIOUS
      <4> QED BY <4>1, <4>2, <4>3 DEF Repeats
    <3>2. Repeats(report', n) <=> \E i \in 1..Len(report) :
                            /\ report[i].ttl = ttl /\ report[i].hop = e.hop
                            /\ \A k \in (i + 1)..Len(report) : report[k].hop = None
      <4>1. n - 1 = Len(report)
        BY <1>0, <2>2
      <4>2. \A i \in 1..Len(report) : \A k \in (i + 1)..Len(report) : report'[k] = report[k]
        BY <1>0, <2>1
      <4>3. Repeats(report', n) <=>
              \E i \in 1..Len(report) :
                /\ report'[i].ttl = e.ttl /\ report'[i].hop = e.hop
                /\ \A k \in (i + 1)..Len(report) : report'[k].hop = None
        BY <2>1, <4>1 DEF Repeats
      <4>4. \A i \in 1..Len(report) : report'[i] = report[i]
        BY <2>1
      <4> QED BY <1>3, <4>2, <4>3, <4>4
    <3>3. ASSUME e.hop # None PROVE e.shown <=> ~Repeats(report', n)
      <4>1. t_ip' = e.hop /\ (e.shown <=> e.hop # t_ip)
        BY <1>3, <3>3
      <4>2. CASE t_ip = None
        BY <1>0, <3>2, <3>3, <4>1, <4>2 DEF LastShown
      <4>3. CASE t_ip # None
        <5>1. PICK i \in 1..Len(report) :
                /\ report[i].ttl = ttl /\ report[i].hop = t_ip
                /\ \A k \in (i + 1)..Len(report) : report[k].hop = None
          BY <1>0, <4>3 DEF LastShown
        <5>2. CASE e.hop = t_ip
          BY <3>2, <4>1, <5>1, <5>2
        <5>3. ASSUME e.hop # t_ip, NEW m \in 1..Len(report), report[m].hop = e.hop,
                     \A k \in (m + 1)..Len(report) : report[k].hop = None
              PROVE  FALSE
          <6>1. m # i
            BY <5>1, <5>3
          <6>2. ~(i < m)
            BY <1>0, <3>3, <5>1, <5>3
          <6>3. ~(m < i)
            BY <1>0, <4>3, <5>1, <5>3
          <6> QED BY <1>0, <6>1, <6>2, <6>3
        <5> QED BY <3>2, <4>1, <5>2, <5>3
      <4> QED BY <4>2, <4>3
    <3>4. \A j \in 1..Len(report) : report'[j].hop # None => (report'[j].shown <=> ~Repeats(report', j))
      BY <1>0, <2>1, <3>1 DEF PrintedOnChange
    <3>5. report'[n].hop # None => (report'[n].shown <=> ~Repeats(report', n))
      BY <2>1, <3>3
    <3>6. \A j \in 1..Len(report') : j = n \/ j \in 1..Len(report)
      BY <2>1
    <3> QED BY <3>4, <3>5, <3>6 DEF PrintedOnChange
  <2> QED BY <2>3, <2>4
<1>4. CASE Recv
  <2>1. Head(rcvbuf) \in Message /\ Entry(Head(rcvbuf)) \in Entries
    BY <1>0, <1>4, Received, NewEntries DEF Recv
  <2>2. Head(rcvbuf).hop # None
    BY <2>1 DEF Message, None
  <2> QED BY <1>3, <1>4, <2>1, <2>2 DEF Recv, Entry
<1>5. CASE TimesOut \/ RecvFails
  <2>1. /\ Star \in Entries /\ report' = Append(report, Star)
        /\ ttl' = ttl /\ t_ip' = t_ip /\ Star.ttl = ttl /\ Star.hop = None
    BY <1>0, <1>5, StarPrinted, NewEntries DEF Star
  <2> QED BY <1>3, <2>1
<1> QED BY <1>1, <1>2, <1>4, <1>5 DEF Next, Run

-----------------------------------------------------------------------------
(* The time spent in select.                                               *)
LEMMA Waiting ==
  ASSUME NEW T \in Nat, NEW n \in Nat, NEW s \in Nat
  PROVE  /\ T * (n + s) \in Nat
         /\ T * (n + 1 + s) = T * (n + s) + T
         /\ T * (n + (s + 1)) = T * (n + s) + T
OBVIOUS

LEMMA WaitedStep == Inv /\ [Next]_vars => Waited'
<1> SUFFICES ASSUME Inv, [Next]_vars PROVE Waited'
  OBVIOUS
<1> DEFINE T == TraceRouterTimeOut
           n == Len(report)
           sofar == T * (n + signals)
<1>0. /\ TypeOK /\ T \in Nat /\ n \in Nat /\ signals \in Nat /\ elapsed \in Nat /\ left \in 0..T
      /\ elapsed <= sofar + (IF pc = "recv" THEN T - left ELSE 0)
  BY Types, TraceRouterAssumption DEF Inv, TypeOK, ControlOK, NetworkOK, Waited
<1>a. sofar \in Nat /\ T * (n + 1 + signals) = sofar + T /\ T * (n + (signals + 1)) = sofar + T
  <2> HIDE DEF T, n
  <2> QED BY <1>0, Waiting
<1>1. CASE \/ Open \/ BeginLine \/ EndLine \/ Destroy \/ Deliver \/ Stray \/ UNCHANGED vars
  <2>1. UNCHANGED <<report, signals, elapsed, left>> /\ (pc = "recv" <=> pc' = "recv")
    BY <1>1 DEF Open, BeginLine, EndLine, Destroy, Deliver, Stray, vars
  <2> QED BY <1>0, <2>1 DEF Waited
<1>2. CASE Send
  <2>1. /\ pc = "probe" /\ UNCHANGED <<report, signals, elapsed>>
        /\ \/ pc' = "recv" /\ left' = T
           \/ pc' = "line"
    BY <1>2 DEF Send
  <2>2. elapsed' <= T * (Len(report') + signals') + 0
    BY <1>0, <1>a, <2>1
  <2> QED BY <1>0, <2>1, <2>2 DEF Waited
<1>3. CASE Recv \/ TimesOut \/ RecvFails
  <2>1. pc = "recv" /\ pc' = "probe" /\ UNCHANGED <<signals, elapsed>>
    BY <1>3, StarPrinted DEF Recv
  <2>2. PICK e \in Entries : report' = Append(report, e)
    BY <1>0, <1>3, StarPrinted, Received, NewEntries DEF Recv
  <2>3. Len(report') = n + 1
    BY <1>0, <2>2, Appended
  <2>4. elapsed' <= T * (n + 1 + signals)
    BY <1>0, <1>a, <2>1
  <2> QED BY <2>1, <2>3, <2>4, <1>0, <1>a DEF Waited
<1>4. CASE Signal
  <2>1. /\ pc = "recv" /\ pc' = "recv" /\ UNCHANGED <<report, elapsed>>
        /\ signals' = signals + 1 /\ (left' = left \/ left' = T)
    BY <1>4 DEF Signal
  <2>2. elapsed' <= T * (n + (signals + 1)) + (T - left')
    BY <1>0, <1>a, <2>1
  <2> QED BY <2>1, <2>2 DEF Waited
<1>5. CASE Tick
  <2>1. /\ pc = "recv" /\ pc' = "recv" /\ UNCHANGED <<report, signals>>
        /\ left' = left - 1 /\ elapsed' = elapsed + 1
    BY <1>5 DEF Tick
  <2>2. elapsed' <= sofar + (T - left')
    BY <1>0, <1>a, <2>1
  <2> QED BY <2>1, <2>2 DEF Waited
<1> QED BY <1>1, <1>2, <1>3, <1>4, <1>5 DEF Next, Run

-----------------------------------------------------------------------------
(* The inductive invariant of the trace router.                            *)
THEOREM Invariance == Spec => []Inv
<1>1. Inv /\ [Next]_vars => Inv'
  BY TypeStep, NearStep, FlightStep, ShownStep, WaitedStep DEF Inv
<1> QED BY InitInv, <1>1, PTL DEF Spec

(* Every variable keeps its type.                                          *)
THEOREM TypeCorrect == Spec => []TypeOK
BY Invariance, PTL DEF Inv

(* As long as every probe was answered and nothing else arrived, entry i   *)
(* is the answer to probe i, from the router at its line's distance.       *)
THEOREM EntriesInStep == Spec => []HopsInStep
BY Invariance, PTL DEF Inv

(* However late the answers are, one to this trace is shown at the probe   *)
(* it answers or at a later one, so that no line shows a router beyond its *)
(* TTL or beyond the host because of it (lines 203-242).  Nothing of the   *)
(* kind is true of messages that answer no probe of this trace.            *)
THEOREM NothingBeyond == Spec => []NotBeyond
BY Invariance, PTL DEF Inv

(* An address is printed exactly when it is not the one that the line      *)
(* showed last (lines 225-239), for any number of probes.                  *)
THEOREM ChangesPrinted == Spec => []PrintedOnChange
BY Invariance, PTL DEF Inv

(* The trace waits for the timeout once per probe and once per signal.     *)
THEOREM TimeBounded == Spec => []BoundedTime
<1>1. ASSUME Inv PROVE BoundedTime
  <2> DEFINE T == TraceRouterTimeOut
             n == Len(report)
  <2>0. /\ T \in Nat /\ n \in Nat /\ signals \in Nat /\ elapsed \in Nat /\ left \in 0..T
        /\ elapsed <= T * (n + signals) + (IF pc = "recv" THEN T - left ELSE 0)
    BY <1>1, Types, TraceRouterAssumption DEF Inv, TypeOK, ControlOK, NetworkOK, Waited
  <2>1. T * (n + signals) \in Nat /\ T * (n + 1 + signals) = T * (n + signals) + T
    <3> HIDE DEF T, n
    <3> QED BY <2>0, Waiting
  <2> QED BY <2>0, <2>1 DEF BoundedTime
<1> QED BY <1>1, Invariance, PTL

-----------------------------------------------------------------------------
(* The Android trace router (PingCommand), for any route and any number of *)
(* lines.  What a run of the program says depends on its TTL and on        *)
(* whether it is answered, and what is left to be said and what was        *)
(* collected of it make it up.                                             *)
Said == {Title, AnswerLine(index), Loss(100, <<>>), Loss(0, <<>>)}

Output(who) ==
  IF who = NoAddress THEN <<Title, Loss(100, <<>>)>>
  ELSE <<Title, AnswerLine(index), Loss(IF index < HostAt THEN 100 ELSE 0, <<>>)>>

Running == step \in {"collect", "process"}
Current == answerers[Len(trace) + 1]

ProbeEntry == [ttl : Nat, ip : Nat, shown : BOOLEAN]

ProbeTypes ==
  /\ step \in {"run", "collect", "process", "crash", "end"}
  /\ index \in Nat \ {0} /\ shown_ip \in Nat
  /\ trace \in Seq(ProbeEntry) /\ answerers \in Seq(Nat)

Reported ==
  /\ Len(answerers) = Len(trace) + IF Running THEN 1 ELSE 0
  /\ Running =>
       /\ Current \in {NoAddress, AnswerLine(index).ip}
       /\ str_result \in Seq(Said) /\ pipe \in Seq(Said) /\ str_result \o pipe = Output(Current)
  /\ step = "process" => pipe = <<>>

(* t_ip is the address of the line, as soon as there was an answer.        *)
OfLine ==
  /\ \A i \in 1..Len(trace) : trace[i].ttl <= index
  /\ step # "end" =>
       /\ shown_ip \in {NoAddress, index}
       /\ shown_ip = NoAddress <=>
            \A i \in 1..Len(trace) : trace[i].ttl = index => trace[i].ip = NoAddress

ToolInv == IF tool = "trace" THEN ProbeTypes /\ Reported /\ OfLine /\ ProbeByProbe
           ELSE trace = <<>>

LEMMA ToolInitInv == ToolInit => ToolInv
BY EmptySeq DEF ToolInit, ToolInv, ProbeTypes, Reported, Running, OfLine, ProbeByProbe, NoAddress

(* Who answers a run: the router at its TTL, or the host.                  *)
LEMMA Answerer ==
  ASSUME index \in Nat \ {0}
  PROVE  /\ AnswerLine(index).ip \in Nat \ {0}
         /\ index < HostAt => AnswerLine(index).ip = index /\ Min({index, HostAt}) = index
<1>1. HostAt \in Nat \ {0}
  BY PingCommandAssumption
<1>2. ASSUME index < HostAt PROVE Min({index, HostAt}) = index
  <2>1. PICK m : m = Min({index, HostAt})
    OBVIOUS
  <2>2. \A x \in {index, HostAt} : index <= x
    BY <1>1, <1>2
  <2>3. m \in {index, HostAt} /\ \A x \in {index, HostAt} : m <= x
    BY <2>1, <2>2 DEF Min
  <2> QED BY <1>1, <2>1, <2>2, <2>3
<1> QED BY <1>1, <1>2 DEF AnswerLine

(* What is found in what a run says: the router that answered it, if one   *)
(* did; not the host.                                                      *)
LEMMA ProbeResult ==
  ASSUME NEW who \in {NoAddress, AnswerLine(index).ip}, str_result = Output(who),
         index \in Nat \ {0}
  PROVE  process_ping_result = IF who # NoAddress /\ index < HostAt THEN index ELSE NoAddress
<1> DEFINE at == {i \in DOMAIN str_result : str_result[i].is = "From"}
<1>1. Title.is = "title" /\ \A n : Loss(n, <<>>).is = "loss"
  BY DEF Title, Loss
<1>2. CASE who = NoAddress
  <2>1. at = {}
    BY <1>1, <1>2 DEF Output
  <2> QED BY <1>2, <2>1 DEF process_ping_result
<1>3. CASE who # NoAddress
  <2>1. /\ DOMAIN str_result = 1..3
        /\ str_result[1].is = "title" /\ str_result[2] = AnswerLine(index) /\ str_result[3].is = "loss"
    BY <1>1, <1>3 DEF Output
  <2>2. CASE index < HostAt
    <3>1. AnswerLine(index).is = "From" /\ AnswerLine(index).ip = index
      BY <2>2 DEF AnswerLine
    <3>2. at = {2}
      BY <2>1, <3>1
    <3>3. Min(at) = 2
      BY <3>2 DEF Min
    <3> QED BY <1>3, <2>1, <2>2, <3>1, <3>2, <3>3 DEF process_ping_result
  <2>3. CASE ~(index < HostAt)
    <3>1. AnswerLine(index).is = "from"
      BY <2>3 DEF AnswerLine
    <3>2. at = {}
      BY <2>1, <3>1
    <3> QED BY <2>3, <3>2 DEF process_ping_result
  <2> QED BY <2>2, <2>3
<1> QED BY <1>2, <1>3

(* Entries keep their answerers.                                           *)
LEMMA EntriesKept ==
  ASSUME ProbeByProbe, UNCHANGED trace, \A i \in DOMAIN trace : answerers'[i] = answerers[i]
  PROVE  ProbeByProbe'
BY DEF ProbeByProbe

LEMMA ProbeRun ==
  ASSUME ToolInv, tool = "trace", RunProbe
  PROVE  ToolInv'
<1>1. /\ ProbeTypes /\ Reported /\ OfLine /\ ProbeByProbe /\ step = "run"
      /\ UNCHANGED <<tool, index, shown_ip, trace>>
  BY DEF ToolInv, RunProbe
<1>2. CASE Fails
  BY <1>1, <1>2, EntriesKept DEF Fails, ToolInv, ProbeTypes, Reported, Running, OfLine
<1>3. ASSUME NEW who \in {NoAddress, AnswerLine(index).ip},
             step' = "collect", str_result' = Fresh, pipe' = Output(who),
             answerers' = Append(answerers, who)
      PROVE  ToolInv'
  <2>1. Fresh \in Seq(Said) /\ pipe' \in Seq(Said)
    <3>1. \A a, b, c \in Said : <<a, b>> \in Seq(Said) /\ <<a, b, c>> \in Seq(Said)
      OBVIOUS
    <3>2. /\ Title \in Said /\ AnswerLine(index) \in Said
          /\ Loss(100, <<>>) \in Said /\ Loss(IF index < HostAt THEN 100 ELSE 0, <<>>) \in Said
      BY DEF Said
    <3>3. Output(who) \in Seq(Said)
      BY <3>1, <3>2 DEF Output
    <3> QED BY <1>3, <3>3, EmptySeq DEF Fresh
  <2>2. Fresh \o pipe' = pipe'
    BY <2>1, ConcatEmptySeq DEF Fresh
  <2>3. Said' = Said /\ AnswerLine(index)' = AnswerLine(index) /\ Output(who)' = Output(who)
    BY <1>1 DEF Said, Output
  <2>4. /\ answerers \in Seq(Nat) /\ who \in Nat
        /\ Len(answerers) = Len(trace) /\ Len(trace) \in Nat
    BY <1>1, Answerer, LenProperties DEF ProbeTypes, Reported, Running, NoAddress
  <2>5. /\ answerers' \in Seq(Nat) /\ Len(answerers') = Len(trace) + 1
        /\ answerers'[Len(trace) + 1] = who
        /\ \A i \in 1..Len(trace) : answerers'[i] = answerers[i]
    BY <1>3, <2>4, AppendProperties
  <2>6. Running' /\ Current' = who
    BY <1>1, <1>3, <2>5 DEF Running, Current
  <2>7. Reported'
    BY <1>1, <1>3, <2>1, <2>2, <2>3, <2>5, <2>6 DEF Reported
  <2>8. ProbeByProbe'
    <3>1. DOMAIN trace = 1..Len(trace)
      BY <1>1 DEF ProbeTypes
    <3> QED BY <1>1, <2>5, <3>1, EntriesKept
  <2> QED BY <1>1, <1>3, <2>5, <2>7, <2>8 DEF ToolInv, ProbeTypes, OfLine
<1>4. AnswerLine(index).ip # NoAddress
  BY <1>1, Answerer DEF ProbeTypes, NoAddress
<1>5. CASE ~Fails
  <2>1. PICK who \in {NoAddress, AnswerLine(index).ip} :
          /\ step' = "collect" /\ str_result' = Fresh
          /\ pipe' = Output(who) /\ answerers' = Append(answerers, who)
    BY <1>4, <1>5 DEF RunProbe, Output
  <2> QED BY <1>3, <2>1
<1> QED BY <1>2, <1>5

LEMMA LineCollected ==
  ASSUME ToolInv, tool = "trace", Collect
  PROVE  ToolInv'
<1>1. /\ ProbeTypes /\ Reported /\ OfLine /\ ProbeByProbe /\ step = "collect"
      /\ UNCHANGED <<tool, index, shown_ip, trace, answerers>>
  BY DEF ToolInv, Collect
<1>2. Said' = Said /\ Current' = Current /\ AnswerLine(index)' = AnswerLine(index)
      /\ Output(Current)' = Output(Current)
  BY <1>1 DEF Said, Output, Current
<1>3. /\ Len(answerers) = Len(trace) + 1 /\ Current \in {NoAddress, AnswerLine(index).ip}
      /\ str_result \in Seq(Said) /\ pipe \in Seq(Said) /\ str_result \o pipe = Output(Current)
  BY <1>1 DEF Reported, Running
<1>4. Reported' /\ step' \in {"collect", "process"}
  <2>1. CASE pipe = <<>> /\ step' = "process" /\ UNCHANGED <<pipe, str_result>>
    BY <1>1, <1>2, <1>3, <2>1 DEF Reported, Running
  <2>2. CASE /\ pipe # <<>> /\ step' = "collect"
             /\ str_result' = Append(str_result, Head(pipe)) /\ pipe' = Tail(pipe)
    <3>1. Head(pipe) \in Said /\ pipe' \in Seq(Said)
      BY <1>3, <2>2, HeadTailProperties
    <3>2. str_result' \in Seq(Said) /\ str_result' \o pipe' = str_result \o pipe
      BY <1>3, <2>2, <3>1, HeadMoves, AppendProperties
    <3> QED BY <1>1, <1>2, <1>3, <2>2, <3>1, <3>2 DEF Reported, Running
  <2> QED BY <1>1, <2>1, <2>2 DEF Collect
<1>5. ProbeByProbe'
  BY <1>1, EntriesKept
<1> QED BY <1>1, <1>4, <1>5 DEF ToolInv, ProbeTypes, OfLine

LEMMA ProbeProcessed ==
  ASSUME ToolInv, tool = "trace", ProcessProbe
  PROVE  ToolInv'
<1>0. PICK ip, e : /\ ip = process_ping_result
                   /\ e = [ttl |-> index, ip |-> ip, shown |-> ip \notin {NoAddress, shown_ip}]
  OBVIOUS
<1>1. /\ ProbeTypes /\ Reported /\ OfLine /\ ProbeByProbe /\ step = "process" /\ step' = "run"
      /\ UNCHANGED <<tool, index, answerers>> /\ trace' = Append(trace, e)
      /\ shown_ip' = IF ip = NoAddress THEN shown_ip ELSE ip
  BY <1>0 DEF ToolInv, ProcessProbe
<1>a. PICK who : who = Current
  OBVIOUS
<1>2. /\ str_result = Output(who) /\ who \in {NoAddress, AnswerLine(index).ip}
      /\ Len(answerers) = Len(trace) + 1
  <2>1. /\ str_result \in Seq(Said) /\ pipe = <<>> /\ str_result \o pipe = Output(who)
        /\ who \in {NoAddress, AnswerLine(index).ip} /\ Len(answerers) = Len(trace) + 1
    BY <1>1, <1>a DEF Reported, Running
  <2> QED BY <2>1, ConcatEmptySeq
<1>3. /\ ip = IF who # NoAddress /\ index < HostAt THEN index ELSE NoAddress
      /\ index < HostAt => AnswerLine(index).ip = index /\ Min({index, HostAt}) = index
      /\ index \in Nat \ {0}
  <2>1. index \in Nat \ {0}
    BY <1>1 DEF ProbeTypes
  <2> QED BY <1>0, <1>2, <2>1, ProbeResult, Answerer
<1>4. e \in ProbeEntry /\ trace \in Seq(ProbeEntry)
  BY <1>0, <1>1, <1>3 DEF ProbeTypes, ProbeEntry, NoAddress
<1>5. /\ Len(trace') = Len(trace) + 1 /\ Len(trace) \in Nat
      /\ trace' \in Seq(ProbeEntry) /\ trace'[Len(trace) + 1] = e
      /\ \A i \in 1..Len(trace) : trace'[i] = trace[i]
      /\ DOMAIN trace = 1..Len(trace) /\ DOMAIN trace' = 1..(Len(trace) + 1)
  BY <1>1, <1>4, AppendProperties
<1>6. /\ shown_ip \in {NoAddress, index}
      /\ shown_ip = NoAddress <=>
           \A i \in 1..Len(trace) : trace[i].ttl = index => trace[i].ip = NoAddress
      /\ \A i \in 1..Len(trace) : trace[i].ttl <= index
  BY <1>1 DEF OfLine
<1>7. e.ttl = index /\ e.ip = ip /\ (e.shown <=> ip # NoAddress /\ ip # shown_ip)
  BY <1>0
<1>8. OfLine'
  <2>1. \A i \in 1..Len(trace') : trace'[i].ttl <= index'
    BY <1>1, <1>3, <1>5, <1>6, <1>7
  <2>2. shown_ip' \in {NoAddress, index'}
    BY <1>1, <1>3, <1>6
  <2>3. shown_ip' = NoAddress <=> \A i \in 1..Len(trace') : trace'[i].ttl = index' => trace'[i].ip = NoAddress
    BY <1>1, <1>3, <1>5, <1>6, <1>7 DEF NoAddress
  <2> QED BY <2>1, <2>2, <2>3 DEF OfLine
<1>9. ProbeByProbe'
  <2>1. ASSUME NEW i \in 1..Len(trace)
        PROVE  LET f == trace'[i] IN
                 /\ f.ip # NoAddress => f.ip = answerers[i] /\ f.ip = Min({f.ttl, HostAt})
                 /\ answerers[i] # NoAddress /\ f.ttl < HostAt => f.ip # NoAddress
                 /\ f.shown <=> /\ f.ip # NoAddress
                                /\ \A j \in 1..(i - 1) : trace'[j].ttl = f.ttl => trace'[j].ip = NoAddress
    <3>1. \A j \in 1..(i - 1) : trace'[j] = trace[j]
      BY <1>5
    <3>2. i \in DOMAIN trace /\ trace'[i] = trace[i]
      BY <1>5
    <3>3. LET f == trace[i] IN
            /\ f.ip # NoAddress => f.ip = answerers[i] /\ f.ip = Min({f.ttl, HostAt})
            /\ answerers[i] # NoAddress /\ f.ttl < HostAt => f.ip # NoAddress
            /\ f.shown <=> /\ f.ip # NoAddress
                           /\ \A j \in 1..(i - 1) : trace[j].ttl = f.ttl => trace[j].ip = NoAddress
      BY <1>1, <3>2, Zenon DEF ProbeByProbe
    <3> QED BY <3>1, <3>2, <3>3
  <2>2. /\ e.ip # NoAddress => e.ip = who /\ e.ip = Min({e.ttl, HostAt})
        /\ who # NoAddress /\ e.ttl < HostAt => e.ip # NoAddress
    BY <1>2, <1>3, <1>7 DEF NoAddress
  <2>3. e.shown <=> /\ e.ip # NoAddress
                    /\ \A j \in 1..Len(trace) : trace'[j].ttl = e.ttl => trace'[j].ip = NoAddress
    BY <1>3, <1>5, <1>6, <1>7
  <2>4. Len(trace) + 1 - 1 = Len(trace) /\ who = answerers[Len(trace) + 1]
    BY <1>5, <1>a DEF Current
  <2>5. \A i \in 1..(Len(trace) + 1) : i \in 1..Len(trace) \/ i = Len(trace) + 1
    BY <1>5
  <2>6. LET n == Len(trace) + 1 IN
          /\ trace'[n] = e
          /\ e.ip # NoAddress => e.ip = answerers[n] /\ e.ip = Min({e.ttl, HostAt})
          /\ answerers[n] # NoAddress /\ e.ttl < HostAt => e.ip # NoAddress
          /\ e.shown <=> /\ e.ip # NoAddress
                         /\ \A j \in 1..(n - 1) : trace'[j].ttl = e.ttl => trace'[j].ip = NoAddress
    BY <1>5, <2>2, <2>3, <2>4
  <2>7. answerers' = answerers /\ DOMAIN trace' = 1..(Len(trace) + 1)
    BY <1>1, <1>5
  <2>8. ASSUME NEW i \in DOMAIN trace'
        PROVE  LET f == trace'[i] IN
                 /\ f.ip # NoAddress => f.ip = answerers'[i] /\ f.ip = Min({f.ttl, HostAt})
                 /\ answerers'[i] # NoAddress /\ f.ttl < HostAt => f.ip # NoAddress
                 /\ f.shown <=> /\ f.ip # NoAddress
                                /\ \A j \in 1..(i - 1) : trace'[j].ttl = f.ttl => trace'[j].ip = NoAddress
    <3>1. CASE i \in 1..Len(trace)
      BY <2>1, <2>7, <3>1
    <3>2. CASE i = Len(trace) + 1
      BY <2>6, <2>7, <3>2
    <3> QED BY <2>5, <2>7, <3>1, <3>2
  <2> QED BY <2>8, Zenon DEF ProbeByProbe
<1>10. ProbeTypes' /\ Reported'
  BY <1>1, <1>2, <1>3, <1>5 DEF ProbeTypes, Reported, Running, NoAddress
<1> QED BY <1>1, <1>8, <1>9, <1>10 DEF ToolInv

LEMMA LineBegun ==
  ASSUME ToolInv, tool = "trace", NextLine
  PROVE  ToolInv'
<1>1. /\ ProbeTypes /\ OfLine /\ ProbeByProbe /\ step = "run" /\ shown_ip' = NoAddress
      /\ Reported /\ UNCHANGED <<tool, trace, answerers>>
      /\ \/ index' = index + 1 /\ step' = "run"
         \/ index' = index /\ step' = "end"
  BY DEF ToolInv, NextLine
<1>2. index \in Nat \ {0} /\ \A i \in 1..Len(trace) : trace[i].ttl \in Nat /\ trace[i].ttl <= index
  <2>1. index \in Nat \ {0} /\ trace \in Seq(ProbeEntry)
    BY <1>1 DEF ProbeTypes
  <2>2. \A i \in 1..Len(trace) : trace[i] \in ProbeEntry
    BY <2>1, ElementOfSeq
  <2> QED BY <1>1, <2>1, <2>2 DEF OfLine, ProbeEntry
<1>3. OfLine'
  BY <1>1, <1>2 DEF OfLine
<1>4. ProbeTypes' /\ Reported'
  BY <1>1, <1>2 DEF ProbeTypes, Reported, Running, NoAddress
<1>5. ProbeByProbe'
  BY <1>1, EntriesKept
<1> QED BY <1>1, <1>3, <1>4, <1>5 DEF ToolInv

(* An address that an Android trace shows is that of who answered the      *)
(* entry's own run of ping, a router's answer is always shown, and each    *)
(* address at its first entry on the line (explore_router and              *)
(* process_ping_result, lines 331-402).  Of the host's answers nothing is  *)
(* said: that they are not shown is the finding of StarIsTimeout.          *)
THEOREM EachProbeByItself == ToolSpec => []ProbeByProbe
<1>1. ToolInv /\ [ToolNext]_toolVars => ToolInv'
  <2> SUFFICES ASSUME ToolInv, [ToolNext]_toolVars PROVE ToolInv'
    OBVIOUS
  <2>1. tool' = tool
    BY DEF ToolNext, toolVars, RunPing, RunProbe, Collect, GetPingStatus, ProcessProbe, NextLine
  <2>2. CASE tool # "trace"
    <3>1. UNCHANGED trace
      BY <2>2 DEF ToolNext, toolVars, RunPing, RunProbe, Collect, GetPingStatus, ProcessProbe, NextLine
    <3> QED BY <2>1, <2>2, <3>1 DEF ToolInv
  <2>3. CASE tool = "trace"
    <3>1. ~RunPing /\ ~GetPingStatus
      BY <2>3 DEF RunPing, GetPingStatus
    <3>2. CASE UNCHANGED toolVars
      <4>1. UNCHANGED <<tool, step, pipe, str_result, index, shown_ip, trace, answerers>>
        BY <3>2 DEF toolVars
      <4> QED BY <4>1 DEF ToolInv, ProbeTypes, Reported, Running, Current, Said, Output, OfLine, ProbeByProbe
    <3> QED BY <2>3, <3>1, <3>2, ProbeRun, LineCollected, ProbeProcessed, LineBegun DEF ToolNext
  <2> QED BY <2>2, <2>3
<1>2. ToolInv => ProbeByProbe
  <2>1. CASE trace = <<>>
    BY <2>1 DEF ProbeByProbe
  <2> QED BY <2>1 DEF ToolInv
<1> QED BY <1>1, <1>2, ToolInitInv, PTL DEF ToolSpec

-----------------------------------------------------------------------------
(* The Android pinger (PingCommand), for any numbers and times.            *)

(* The fold over the lines, line by line.                                  *)
FoldLines(status, lines, w) == FoldLeft(LAMBDA s, i : ReadLine(s, i, lines[i]), status, w)

FoldsLines(status, lines, w, g) ==
  g = [s \in SUBSET (DOMAIN w) |->
         IF s = {} THEN status ELSE ReadLine(g[s \ {Max(s)}], w[Max(s)], lines[w[Max(s)]])]

LEMMA LinesFold ==
  ASSUME NEW lines, NEW status, NEW w, NEW g, FoldsLines(status, lines, w, g)
  PROVE  \E f : FoldsLines(status, lines, w, f) /\ FoldLines(status, lines, w) = f[DOMAIN w]
BY Zenon DEF FoldsLines, FoldLines, FoldLeft, MapThenFoldSet

LineByLine(status, lines, n, p) ==
  /\ p[0] = status /\ ReadLines(status, lines) = p[n]
  /\ \A k \in 1..n : p[k] = ReadLine(p[k - 1], k, lines[k])

LEMMA LinesRead ==
  ASSUME NEW V, NEW status \in V, NEW n \in Nat, NEW lines, DOMAIN lines = 1..n,
         \A k \in 1..n, s \in V : ReadLine(s, k, lines[k]) \in V
  PROVE  \E p : LineByLine(status, lines, n, p)
<1>1. PICK w : w = [i \in DOMAIN lines |-> i]
  OBVIOUS
<1>2. DOMAIN w = 1..n /\ \A k \in 1..n : w[k] = k
  BY <1>1
<1>3. PICK F : F = [k \in 1..n |-> [s \in V |-> ReadLine(s, k, lines[k])]]
  OBVIOUS
<1>4. F \in [1..n -> [V -> V]] /\ \A k \in 1..n, s \in V : F[k][s] = ReadLine(s, k, lines[k])
  BY <1>3
<1>5. PICK g : FoldFunctionOf(V, status, F, n, g)
  BY <1>4, FoldExists
<1>6. FoldsLines(status, lines, w, g)
  <2>1. g = [s \in SUBSET (1..n) |-> g[s]]
    BY <1>5 DEF FoldFunctionOf
  <2>2. ASSUME NEW s \in SUBSET (1..n), s # {}
        PROVE  g[s] = ReadLine(g[s \ {Max(s)}], w[Max(s)], lines[w[Max(s)]])
    <3>1. Max(s) \in 1..n /\ g[s] = F[Max(s)][g[s \ {Max(s)}]] /\ g[s \ {Max(s)}] \in V
      BY <1>5, <2>2 DEF FoldFunctionOf
    <3>2. w[Max(s)] = Max(s)
      BY <1>2, <3>1
    <3> QED BY <1>4, <3>1, <3>2
  <2>3. g[{}] = status
    BY <1>5 DEF FoldFunctionOf
  <2> QED BY <1>2, <2>1, <2>2, <2>3 DEF FoldsLines
<1>7. PICK f : FoldsLines(status, lines, w, f) /\ FoldLines(status, lines, w) = f[DOMAIN w]
  BY <1>6, LinesFold
<1>b. f[{}] = status
  BY <1>7 DEF FoldsLines
<1>c. ASSUME NEW s \in SUBSET (1..n), s # {}, Max(s) \in 1..n
      PROVE  f[s] = ReadLine(f[s \ {Max(s)}], Max(s), lines[Max(s)])
  <2>1. f[s] = ReadLine(f[s \ {Max(s)}], w[Max(s)], lines[w[Max(s)]])
    BY <1>2, <1>7, <1>c DEF FoldsLines
  <2> QED BY <1>2, <1>c, <2>1
<1>8. ASSUME NEW k \in 1..n, f[1..(k - 1)] \in V
      PROVE  f[1..k] = F[k][f[1..(k - 1)]]
  <2>1. 1..k \in SUBSET (1..n) /\ 1..k # {} /\ Max(1..k) = k /\ (1..k) \ {k} = 1..(k - 1)
    BY TopOfRange
  <2>2. f[1..k] = ReadLine(f[1..(k - 1)], k, lines[k])
    BY <1>c, <2>1
  <2> QED BY <1>4, <1>8, <2>2
<1>9. PICK p : Steps(V, status, F, n, p) /\ p[n] = f[1..n]
  <2>2. FollowsSteps(V, status, F, n, f)
    BY <1>8, <1>b DEF FollowsSteps
  <2>3. StepsTo(V, status, F, n, f[1..n])
    BY <1>4, <2>2, FoldSteps
  <2> QED BY <2>3 DEF StepsTo
<1>10. ASSUME NEW k \in 1..n PROVE p[k] = ReadLine(p[k - 1], k, lines[k])
  <2>1. p[k] = F[k][p[k - 1]] /\ p \in [0..n -> V] /\ k - 1 \in 0..n
    BY <1>9 DEF Steps
  <2>2. p[k - 1] \in V
    BY <2>1
  <2> QED BY <1>4, <2>1, <2>2
<1>a. ReadLines(status, lines) = FoldLines(status, lines, w)
  BY <1>1, Zenon DEF ReadLines, FoldLines
<1>11. p[0] = status /\ ReadLines(status, lines) = p[n]
  BY <1>2, <1>7, <1>9, <1>a DEF Steps
<1> QED BY <1>10, <1>11 DEF LineByLine

(* The digits of a percentage have it as their value.                      *)
LEMMA DigitsRead ==
  ASSUME NEW n \in Nat, n <= 100
  PROVE  LossRate(Digits(n)) = n
<1>1. PICK text, w : text = Digits(n) /\ w = [i \in DOMAIN text |-> text[Len(text) + 1 - i] * Power(i)]
  OBVIOUS
<1>2. LossRate(text) = AddUp(w)
  BY <1>1, Zenon DEF LossRate, AddUp
<1>3. Power(1) = 1 /\ Power(2) = 10 /\ Power(3) = 100
  BY DEF Power
<1>4. CASE n = 100
  <2>1. text = <<1, 0, 0>>
    BY <1>1, <1>4 DEF Digits
  <2>2. DOMAIN w = 1..3 /\ w[1] = 0 * Power(1) /\ w[2] = 0 * Power(2) /\ w[3] = 1 * Power(3)
    BY <1>1, <2>1
  <2>3. w[1] = 0 /\ w[2] = 0 /\ w[3] = 100
    BY <1>3, <2>2
  <2>4. \A i \in 1..3 : w[i] \in Nat
    BY <2>3
  <2>5. PICK p : RunningTotal(w, 3, p) /\ AddUp(w) = p[3]
    BY <2>2, <2>4, AddedUp
  <2>6. p[1] = p[0] + w[1] /\ p[2] = p[1] + w[2] /\ p[3] = p[2] + w[3] /\ p[0] = 0
    <3>1. 1 \in 1..3 /\ 2 \in 1..3 /\ 3 \in 1..3 /\ 1 - 1 = 0 /\ 2 - 1 = 1 /\ 3 - 1 = 2
      OBVIOUS
    <3> QED BY <2>5, <3>1 DEF RunningTotal
  <2> QED BY <1>1, <1>2, <1>4, <2>3, <2>5, <2>6
<1>5. CASE n < 10
  <2>1. text = <<n>>
    BY <1>1, <1>5 DEF Digits
  <2>2. DOMAIN w = 1..1 /\ w[1] = n * Power(1)
    BY <1>1, <2>1
  <2>3. w[1] = n
    BY <1>3, <2>2
  <2>4. \A i \in 1..1 : w[i] \in Nat
    BY <2>3
  <2>5. PICK p : RunningTotal(w, 1, p) /\ AddUp(w) = p[1]
    BY <2>2, <2>4, AddedUp
  <2>6. p[1] = p[0] + w[1] /\ p[0] = 0
    <3>1. 1 \in 1..1 /\ 1 - 1 = 0
      OBVIOUS
    <3> QED BY <2>5, <3>1 DEF RunningTotal
  <2> QED BY <1>1, <1>2, <2>3, <2>5, <2>6
<1>6. CASE n # 100 /\ ~(n < 10)
  <2>0. PICK a, b : a = n \div 10 /\ b = n % 10
    OBVIOUS
  <2>a. a \in Nat /\ b \in Nat /\ a * 10 + b = n
    <3>1. \A k \in Nat : k \div 10 \in Nat /\ k % 10 \in Nat /\ (k \div 10) * 10 + (k % 10) = k
      OBVIOUS
    <3> QED BY <2>0, <3>1
  <2>1. text = <<a, b>>
    BY <1>1, <1>6, <2>0 DEF Digits
  <2>2. DOMAIN w = 1..2 /\ w[1] = b * Power(1) /\ w[2] = a * Power(2)
    BY <1>1, <2>1
  <2>3. w[1] = b /\ w[2] = a * 10
    BY <1>3, <2>2, <2>a
  <2>4. \A i \in 1..2 : w[i] \in Nat
    BY <2>3, <2>a
  <2>5. PICK p : RunningTotal(w, 2, p) /\ AddUp(w) = p[2]
    BY <2>2, <2>4, AddedUp
  <2>6. p[1] = p[0] + w[1] /\ p[2] = p[1] + w[2] /\ p[0] = 0
    <3>1. 1 \in 1..2 /\ 2 \in 1..2 /\ 1 - 1 = 0 /\ 2 - 1 = 1
      OBVIOUS
    <3> QED BY <2>5, <3>1 DEF RunningTotal
  <2> QED BY <1>1, <1>2, <2>3, <2>5, <2>6, <2>a
<1> QED BY <1>4, <1>5, <1>6

(* Tuples put together.                                                    *)
LEMMA SecondPut ==
  ASSUME NEW a, NEW b
  PROVE  <<a>> \o <<b>> = <<a, b>>
<1>1. <<a>> \in Seq({a, b}) /\ b \in {a, b}
  OBVIOUS
<1>2. PICK u : u = Append(<<a>>, b)
  OBVIOUS
<1>3. u \in Seq({a, b}) /\ Len(u) = 2 /\ u[1] = a /\ u[2] = b
  BY <1>1, <1>2, AppendProperties
<1>4. u = <<a, b>>
  BY <1>3
<1> QED BY <1>1, <1>2, <1>4, AppendIsConcat

LEMMA ThirdPut ==
  ASSUME NEW a, NEW b, NEW c
  PROVE  <<a, b>> \o <<c>> = <<a, b, c>>
<1>1. <<a, b>> \in Seq({a, b, c}) /\ c \in {a, b, c}
  OBVIOUS
<1>2. PICK u : u = Append(<<a, b>>, c)
  OBVIOUS
<1>3. u \in Seq({a, b, c}) /\ Len(u) = 3 /\ u[1] = a /\ u[2] = b /\ u[3] = c
  BY <1>1, <1>2, AppendProperties
<1>4. u = <<a, b, c>>
  BY <1>3
<1> QED BY <1>1, <1>2, <1>4, AppendIsConcat

LEMMA FourthPut ==
  ASSUME NEW a, NEW b, NEW c, NEW d
  PROVE  <<a, b, c>> \o <<d>> = <<a, b, c, d>>
<1>1. <<a, b, c>> \in Seq({a, b, c, d}) /\ d \in {a, b, c, d}
  OBVIOUS
<1>2. PICK u : u = Append(<<a, b, c>>, d)
  OBVIOUS
<1>3. u \in Seq({a, b, c, d}) /\ Len(u) = 4 /\ u[1] = a /\ u[2] = b /\ u[3] = c /\ u[4] = d
  BY <1>1, <1>2, AppendProperties
<1>4. u = <<a, b, c, d>>
  BY <1>3
<1> QED BY <1>1, <1>2, <1>4, AppendIsConcat

(* A report as the program has it, and the lines that say it.              *)
Right(r) ==
  /\ r \in Reports /\ r.lost <= r.sent
  /\ r.sent \in Nat \ {0} /\ r.lost \in Nat

LossLine(r) == Loss((100 * r.lost) \div r.sent,
                    IF r.fraction /\ ~WholePercent(r) THEN <<Point, 3, 3>> ELSE <<>>)

TimesLine(r) == [is |-> "rtt", min |-> r.min, avg |-> r.avg, max |-> r.max]

LEMMA PrintedLines ==
  ASSUME NEW r, Right(r)
  PROVE  Printed(r) = IF r.lost < r.sent
                      THEN <<Title, AnswerLine(HostAt), LossLine(r), TimesLine(r)>>
                      ELSE <<Title, LossLine(r)>>
<1>1. PICK a, b, c, d : a = Title /\ b = AnswerLine(HostAt) /\ c = LossLine(r) /\ d = TimesLine(r)
  OBVIOUS
<1>2. Printed(r) = <<a>> \o (IF r.lost < r.sent THEN <<b>> ELSE <<>>) \o <<c>>
                     \o (IF r.lost < r.sent THEN <<d>> ELSE <<>>)
  BY <1>1, Zenon DEF Printed, LossLine, TimesLine
<1>3. <<a>> \o <<b>> \o <<c>> \o <<d>> = <<a, b, c, d>> /\ <<a>> \o <<>> \o <<c>> \o <<>> = <<a, c>>
  <2>1. <<a>> \o <<b>> = <<a, b>> /\ <<a, b>> \o <<c>> = <<a, b, c>>
        /\ <<a, b, c>> \o <<d>> = <<a, b, c, d>> /\ <<a>> \o <<c>> = <<a, c>>
    BY SecondPut, ThirdPut, FourthPut
  <2>4. <<a>> \o <<>> = <<a>>
    OBVIOUS
  <2>6. <<a, c>> \o <<>> = <<a, c>>
    OBVIOUS
  <2> QED BY <2>1, <2>4, <2>6, Zenon
<1> QED BY <1>1, <1>2, <1>3

(* A whole number of per cent is at most 100, and has its digits alone.    *)
LEMMA WholeLoss ==
  ASSUME NEW r, Right(r), WholePercent(r)
  PROVE  LossRate(LossLine(r).text) * r.sent = 100 * r.lost
<1>1. PICK percent : percent = (100 * r.lost) \div r.sent
  OBVIOUS
<1>2. percent \in Nat /\ percent <= 100 /\ percent * r.sent = 100 * r.lost
  <2>1. PICK s, l : s = r.sent /\ l = r.lost
    OBVIOUS
  <2>2. s \in Nat \ {0} /\ l \in Nat /\ l <= s /\ (100 * l) % s = 0 /\ percent = (100 * l) \div s
    BY <1>1, <2>1 DEF Right, WholePercent
  <2>3. PICK h \in Nat : h = 100 * l
    BY <2>2
  <2>4. percent = h \div s /\ h % s = 0 /\ h <= 100 * s
    BY <2>2, <2>3
  <2>5. percent \in Nat /\ h = s * percent + (h % s)
    BY <2>2, <2>3, <2>4
  <2>6. h = s * percent
    <3>1. PICK m, z : m = s * percent /\ z = h % s
      OBVIOUS
    <3>2. h = m + z /\ z = 0 /\ m \in Nat
      BY <2>2, <2>4, <2>5, <3>1
    <3> QED BY <3>1, <3>2
  <2>7. percent <= 100
    BY <2>2, <2>4, <2>5, <2>6
  <2> QED BY <2>1, <2>2, <2>3, <2>5, <2>6, <2>7
<1>3. LossLine(r).text = Digits(percent)
  <2>1. LossLine(r).text = Digits(percent) \o <<>>
    BY <1>1 DEF LossLine, Loss
  <2>2. Digits(percent) \in Seq(Nat)
    BY <1>2 DEF Digits
  <2> QED BY <2>1, <2>2, ConcatEmptySeq
<1> QED BY <1>2, <1>3, DigitsRead

(* What the pinger's program says, or nothing, is on its way or collected; *)
(* and nothing else happened to the status before it is looked at.         *)
ReportLines == {Title, AnswerLine(HostAt)}
  \cup {LossLine(r) : r \in Reports} \cup {TimesLine(r) : r \in Reports}

ReportOutput ==
  IF meant = <<>> THEN str_result \o pipe = <<>>
  ELSE meant = <<meant[1]>> /\ Right(meant[1]) /\ str_result \o pipe = Printed(meant[1])

PingerInv ==
  tool = "pinger" =>
    /\ step \in {"run", "collect", "process", "crash", "end"}
    /\ step # "end" => ping_status = NoStatus
    /\ step = "run" => pipe = <<>> /\ str_result = <<>> /\ meant = <<>>
    /\ step \in {"collect", "process"} =>
         str_result \in Seq(ReportLines) /\ pipe \in Seq(ReportLines) /\ ReportOutput
    /\ step = "process" => pipe = <<>>
    /\ ReportRead

(* A status, with whatever loss there is in the one line about it.         *)
Statuses(loss) ==
  [ip : {NoAddress, HostAt}, loss : {0, loss}, min : {0} \cup Rtts, avg : {0} \cup Rtts, max : {0} \cup Rtts]

(* What the lines of a report, all of them or none, make of the status.    *)
LEMMA ReportParsed ==
  ASSUME NEW r, Right(r)
  PROVE  LET status == ReadLines(NoStatus, Printed(r)) IN
           /\ status.ip = HostAt
           /\ WholePercent(r) => status.loss * r.sent = 100 * r.lost
           /\ r.lost < r.sent => <<status.min, status.avg, status.max>> = <<r.min, r.avg, r.max>>
           /\ r.lost = r.sent => <<status.min, status.avg, status.max>> = <<0, 0, 0>>
<1> DEFINE loss == LossRate(LossLine(r).text)
<1>1. NoStatus \in Statuses(loss)
  BY DEF NoStatus, Statuses
<1>2. /\ Title.is = "title" /\ Title.ip = HostAt /\ AnswerLine(HostAt).is = "from"
      /\ LossLine(r).is = "loss"
      /\ TimesLine(r).is = "rtt"
      /\ TimesLine(r).min = r.min /\ TimesLine(r).avg = r.avg /\ TimesLine(r).max = r.max
  BY PingCommandAssumption DEF Title, AnswerLine, LossLine, Loss, TimesLine
<1>3. r.min \in Rtts /\ r.avg \in Rtts /\ r.max \in Rtts /\ r.sent \in Nat /\ r.lost \in Nat /\ r.lost <= r.sent
  BY DEF Right, Reports
<1>4. \A s, n : /\ ReadLine(s, 1, Title) = [s EXCEPT !.ip = HostAt]
                /\ ReadLine(s, n, AnswerLine(HostAt)) = s
                /\ ReadLine(s, n, LossLine(r)) = [s EXCEPT !.loss = loss]
                /\ ReadLine(s, n, TimesLine(r)) = [s EXCEPT !.min = r.min, !.avg = r.avg, !.max = r.max]
  BY <1>2 DEF ReadLine
<1>5. WholePercent(r) => loss * r.sent = 100 * r.lost
  BY WholeLoss
<1> HIDE DEF loss
<1>a. ASSUME NEW s \in Statuses(loss), NEW n
      PROVE  /\ ReadLine(s, 1, Title) \in Statuses(loss)
             /\ ReadLine(s, n, AnswerLine(HostAt)) \in Statuses(loss)
             /\ ReadLine(s, n, LossLine(r)) \in Statuses(loss)
             /\ ReadLine(s, n, TimesLine(r)) \in Statuses(loss)
  <2>1. [s EXCEPT !.ip = HostAt] \in Statuses(loss) /\ [s EXCEPT !.loss = loss] \in Statuses(loss)
    BY DEF Statuses
  <2>2. [s EXCEPT !.min = r.min, !.avg = r.avg, !.max = r.max] \in Statuses(loss)
    BY <1>3 DEF Statuses
  <2> QED BY <1>4, <2>1, <2>2, Zenon
<1>b. ASSUME NEW s \in Statuses(loss), NEW n
      PROVE  LET t == ReadLine(s, n, TimesLine(r))
             IN t.ip = s.ip /\ t.loss = s.loss /\ t.min = r.min /\ t.avg = r.avg /\ t.max = r.max
  <2>1. PICK t : t = [s EXCEPT !.min = r.min, !.avg = r.avg, !.max = r.max]
    OBVIOUS
  <2>2. t.ip = s.ip /\ t.loss = s.loss /\ t.min = r.min /\ t.avg = r.avg /\ t.max = r.max
    BY <2>1 DEF Statuses
  <2> QED BY <1>4, <2>1, <2>2
<1>6. CASE r.lost < r.sent
  <2>1. PICK lines : lines = <<Title, AnswerLine(HostAt), LossLine(r), TimesLine(r)>> /\ lines = Printed(r)
    BY <1>6, PrintedLines
  <2>2. DOMAIN lines = 1..4 /\ lines[1] = Title /\ lines[2] = AnswerLine(HostAt) /\ lines[3] = LossLine(r)
        /\ lines[4] = TimesLine(r)
    BY <2>1
  <2>3. ASSUME NEW k \in 1..4, NEW s \in Statuses(loss) PROVE ReadLine(s, k, lines[k]) \in Statuses(loss)
    <3>1. CASE k = 1
      BY <1>a, <2>2, <3>1
    <3>2. CASE k = 2
      BY <1>a, <2>2, <3>2
    <3>3. CASE k = 3
      BY <1>a, <2>2, <3>3
    <3>4. CASE k = 4
      BY <1>a, <2>2, <3>4
    <3> QED BY <3>1, <3>2, <3>3, <3>4
  <2>4. PICK p : LineByLine(NoStatus, lines, 4, p)
    BY <1>1, <2>2, <2>3, LinesRead
  <2>5. /\ p[0] = NoStatus /\ p[1] = ReadLine(p[0], 1, Title) /\ p[2] = ReadLine(p[1], 2, AnswerLine(HostAt))
        /\ p[3] = ReadLine(p[2], 3, LossLine(r)) /\ p[4] = ReadLine(p[3], 4, TimesLine(r))
        /\ ReadLines(NoStatus, lines) = p[4]
    <3>1. /\ 1 \in 1..4 /\ 2 \in 1..4 /\ 3 \in 1..4 /\ 4 \in 1..4
          /\ 1 - 1 = 0 /\ 2 - 1 = 1 /\ 3 - 1 = 2 /\ 4 - 1 = 3
      OBVIOUS
    <3> QED BY <2>2, <2>4, <3>1 DEF LineByLine
  <2>6. p[2] = [NoStatus EXCEPT !.ip = HostAt]
    <3>1. \A s : ReadLine(s, 1, Title) = [s EXCEPT !.ip = HostAt]
      BY <1>4
    <3>2. \A s, n : ReadLine(s, n, AnswerLine(HostAt)) = s
      BY <1>4
    <3>3. p[1] = ReadLine(NoStatus, 1, Title) /\ p[2] = ReadLine(p[1], 2, AnswerLine(HostAt))
      BY <2>5
    <3> QED BY <3>1, <3>2, <3>3, Zenon
  <2>a. p[3] = [p[2] EXCEPT !.loss = loss]
    <3>1. \A s, n : ReadLine(s, n, LossLine(r)) = [s EXCEPT !.loss = loss]
      BY <1>4
    <3>2. p[3] = ReadLine(p[2], 3, LossLine(r))
      BY <2>5
    <3> QED BY <3>1, <3>2, Zenon
  <2>c. p[2] = [ip |-> HostAt, loss |-> 0, min |-> 0, avg |-> 0, max |-> 0]
    BY <2>6 DEF NoStatus
  <2>d. p[3] = [ip |-> HostAt, loss |-> loss, min |-> 0, avg |-> 0, max |-> 0]
    BY <2>a, <2>c
  <2>b. PICK s : s = p[3]
    OBVIOUS
  <2>e. s \in Statuses(loss) /\ s.ip = HostAt /\ s.loss = loss
    BY <1>3, <2>b, <2>d, PingCommandAssumption DEF Statuses
  <2>7. p[4].ip = HostAt /\ p[4].loss = loss /\ p[4].min = r.min /\ p[4].avg = r.avg /\ p[4].max = r.max
    BY <1>b, <2>5, <2>b, <2>e
  <2> QED BY <1>3, <1>5, <1>6, <2>1, <2>5, <2>7
<1>7. CASE ~(r.lost < r.sent)
  <2>1. PICK lines : lines = <<Title, LossLine(r)>> /\ lines = Printed(r)
    BY <1>7, PrintedLines
  <2>2. DOMAIN lines = 1..2 /\ lines[1] = Title /\ lines[2] = LossLine(r)
    BY <2>1
  <2>3. ASSUME NEW k \in 1..2, NEW s \in Statuses(loss) PROVE ReadLine(s, k, lines[k]) \in Statuses(loss)
    <3>1. CASE k = 1
      BY <1>a, <2>2, <3>1
    <3>2. CASE k = 2
      BY <1>a, <2>2, <3>2
    <3> QED BY <3>1, <3>2
  <2>4. PICK p : LineByLine(NoStatus, lines, 2, p)
    BY <1>1, <2>2, <2>3, LinesRead
  <2>5. /\ p[0] = NoStatus /\ p[1] = ReadLine(p[0], 1, Title) /\ p[2] = ReadLine(p[1], 2, LossLine(r))
        /\ ReadLines(NoStatus, lines) = p[2]
    <3>1. 1 \in 1..2 /\ 2 \in 1..2 /\ 1 - 1 = 0 /\ 2 - 1 = 1
      OBVIOUS
    <3> QED BY <2>2, <2>4, <3>1 DEF LineByLine
  <2>6. p[2] = [[NoStatus EXCEPT !.ip = HostAt] EXCEPT !.loss = loss]
    BY <1>4, <2>5, Zenon
  <2>7. p[2] = [ip |-> HostAt, loss |-> loss, min |-> 0, avg |-> 0, max |-> 0]
    BY <2>6 DEF NoStatus
  <2> QED BY <1>3, <1>5, <1>7, <2>1, <2>5, <2>7
<1> QED BY <1>6, <1>7

LEMMA NothingParsed == ReadLines(NoStatus, <<>>) = NoStatus
<1>1. DOMAIN <<>> = 1..0 /\ \A k \in 1..0, s \in {NoStatus} : ReadLine(s, k, <<>>[k]) \in {NoStatus}
  OBVIOUS
<1>2. PICK p : LineByLine(NoStatus, <<>>, 0, p)
  BY <1>1, LinesRead
<1> QED BY <1>2 DEF LineByLine

LEMMA PingerRun ==
  ASSUME PingerInv, tool = "pinger", RunPing
  PROVE  PingerInv'
<1>1. /\ step = "run" /\ ping_status = NoStatus /\ pipe = <<>> /\ str_result = <<>> /\ meant = <<>>
      /\ UNCHANGED <<tool, ping_status>>
  BY DEF PingerInv, RunPing
<1>2. CASE Fails
  BY <1>1, <1>2 DEF Fails, PingerInv, ReportRead
<1>3. CASE step' = "collect" /\ str_result' = <<>> /\ pipe' = <<>> /\ meant' = <<>>
  <2>1. <<>> \in Seq(ReportLines) /\ <<>> \o <<>> = <<>>
    BY EmptySeq
  <2> QED BY <1>1, <1>3, <2>1 DEF PingerInv, ReportRead, ReportOutput
<1>4. ASSUME NEW r \in Reports, r.lost <= r.sent, step' = "collect", str_result' = <<>>,
             pipe' = Printed(r), meant' = <<r>>
      PROVE  PingerInv'
  <2>1. Right(r)
    <3>1. r.sent \in Counts /\ r.lost \in UNION {0..c : c \in Counts}
      BY <1>4 DEF Reports
    <3>2. PICK c \in Counts : r.lost \in 0..c
      BY <3>1
    <3>3. Counts \subseteq Nat \ {0}
      BY PingCommandAssumption
    <3>4. r.sent \in Nat \ {0} /\ r.lost \in Nat
      <4>1. c \in Nat
        BY <3>3
      <4>2. \A l \in 0..c : l \in Nat
        BY <4>1
      <4> QED BY <3>1, <3>2, <3>3, <4>2
    <3> QED BY <1>4, <3>4 DEF Right
  <2>2. Printed(r) \in Seq(ReportLines)
    <3>1. Title \in ReportLines /\ AnswerLine(HostAt) \in ReportLines /\ LossLine(r) \in ReportLines /\ TimesLine(r) \in ReportLines
      BY DEF ReportLines
    <3>2. PICK a, b, c, d : a = Title /\ b = AnswerLine(HostAt) /\ c = LossLine(r) /\ d = TimesLine(r)
      OBVIOUS
    <3>3. <<a, b, c, d>> \in Seq(ReportLines) /\ <<a, c>> \in Seq(ReportLines)
      BY <3>1, <3>2
    <3> QED BY <2>1, <3>2, <3>3, PrintedLines
  <2>3. <<>> \in Seq(ReportLines) /\ <<>> \o Printed(r) = Printed(r)
    BY <2>2, EmptySeq, ConcatEmptySeq
  <2>4. ReportOutput'
    BY <1>4, <2>1, <2>3 DEF ReportOutput
  <2> QED BY <1>1, <1>4, <2>2, <2>3, <2>4 DEF PingerInv, ReportRead
<1> QED BY <1>1, <1>2, <1>3, <1>4 DEF RunPing

LEMMA PingerCollects ==
  ASSUME PingerInv, tool = "pinger", Collect
  PROVE  PingerInv'
<1>1. /\ step = "collect" /\ ping_status = NoStatus /\ UNCHANGED <<tool, ping_status, meant>>
      /\ str_result \in Seq(ReportLines) /\ pipe \in Seq(ReportLines) /\ ReportOutput
  BY DEF PingerInv, Collect
<1>2. CASE pipe = <<>> /\ step' = "process" /\ UNCHANGED <<pipe, str_result>>
  BY <1>1, <1>2 DEF PingerInv, ReportRead, ReportOutput
<1>3. CASE /\ pipe # <<>> /\ step' = "collect"
           /\ str_result' = Append(str_result, Head(pipe)) /\ pipe' = Tail(pipe)
  <2>1. Head(pipe) \in ReportLines /\ pipe' \in Seq(ReportLines)
    BY <1>1, <1>3, HeadTailProperties
  <2>2. str_result' \in Seq(ReportLines) /\ str_result' \o pipe' = str_result \o pipe
    BY <1>1, <1>3, <2>1, HeadMoves, AppendProperties
  <2>3. ReportOutput'
    BY <1>1, <2>2 DEF ReportOutput
  <2> QED BY <1>1, <1>3, <2>1, <2>2, <2>3 DEF PingerInv, ReportRead
<1> QED BY <1>1, <1>2, <1>3 DEF Collect

LEMMA PingerParses ==
  ASSUME PingerInv, tool = "pinger", GetPingStatus
  PROVE  PingerInv'
<1>1. /\ step = "process" /\ ping_status = NoStatus /\ step' = "end" /\ UNCHANGED <<tool, meant>>
      /\ ping_status' = ReadLines(NoStatus, str_result)
      /\ str_result \in Seq(ReportLines) /\ pipe = <<>> /\ ReportOutput
  BY DEF PingerInv, GetPingStatus
<1>2. str_result \o pipe = str_result
  BY <1>1, ConcatEmptySeq
<1>3. CASE meant = <<>>
  <2>1. ping_status' = NoStatus
    BY <1>1, <1>2, <1>3, NothingParsed DEF ReportOutput
  <2> QED BY <1>1, <1>3, <2>1 DEF PingerInv, ReportRead
<1>4. CASE meant # <<>>
  <2>1. PICK r : r = meant[1]
    OBVIOUS
  <2>2. Right(r) /\ ping_status' = ReadLines(NoStatus, Printed(r)) /\ meant' # <<>> /\ meant'[1] = r
    BY <1>1, <1>2, <1>4, <2>1 DEF ReportOutput
  <2>3. ReportRead'
    BY <1>1, <2>2, ReportParsed DEF ReportRead
  <2> QED BY <1>1, <2>3 DEF PingerInv
<1> QED BY <1>3, <1>4

(* For every report of the ping program -- any number of requests and of   *)
(* losses, any times -- GetPingStatus makes of its text what it says, the  *)
(* loss as long as it is a whole number of per cent; and of no report what *)
(* the status was constructed with (pinger.hpp, lines 246-308).            *)
THEOREM ReportParsedRight == ToolSpec => []ReportRead
<1>1. ToolInit => PingerInv
  BY DEF ToolInit, PingerInv, ReportRead
<1>2. PingerInv /\ [ToolNext]_toolVars => PingerInv'
  <2> SUFFICES ASSUME PingerInv, [ToolNext]_toolVars PROVE PingerInv'
    OBVIOUS
  <2>1. tool' = tool
    BY DEF ToolNext, toolVars, RunPing, RunProbe, Collect, GetPingStatus, ProcessProbe, NextLine
  <2>2. CASE tool # "pinger"
    BY <2>1, <2>2 DEF PingerInv
  <2>3. CASE tool = "pinger"
    <3>1. ~RunProbe /\ ~ProcessProbe /\ ~NextLine
      BY <2>3 DEF RunProbe, ProcessProbe, NextLine
    <3>2. CASE UNCHANGED toolVars
      BY <3>2 DEF toolVars, PingerInv, ReportRead, ReportOutput
    <3> QED BY <2>3, <3>1, <3>2, PingerRun, PingerCollects, PingerParses DEF ToolNext
  <2> QED BY <2>2, <2>3
<1>3. PingerInv => ReportRead
  BY DEF PingerInv, ReportRead
<1> QED BY <1>1, <1>2, <1>3, PTL DEF ToolSpec
=============================================================================
