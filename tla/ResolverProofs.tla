--------------------------- MODULE ResolverProofs ---------------------------
(***************************************************************************)
(* Proofs about Resolver, for any number of callers, descriptors, calls    *)
(* and signals.  Placement is the strengthening NoCrossTalk needs: while a *)
(* call is in progress, its query and its answer are at its own socket.    *)
(*                                                                         *)
(* And proofs about DnsMessage, for any names, addresses and length of the *)
(* answer: that the query has the name that was asked for, and that all    *)
(* names, records and addresses of an answer are read as they were meant.  *)
(***************************************************************************)
EXTENDS Resolver, DnsMessage, SequenceLemmas, FiniteSetTheorems

(* The helpers of Socket, Recv and Signal are written out below.           *)
USE DEF Unused, Refused, Found, TimeAgain

-----------------------------------------------------------------------------
(* Call numbers are used once, and nothing carries a number not yet used.  *)
Numbers ==
  /\ \A c \in Callers : call[c] <= calls /\ (pc[c] # "idle" => call[c] > 0)
  /\ \A c, d \in Callers : c # d /\ call[c] = call[d] => call[c] = 0
  /\ \A m \in wire : m.call <= calls
  /\ \A s \in Sockets : \A x \in Range(inbox[s]) : x.call <= calls

Placement ==
  \A d \in Callers : pc[d] # "idle" =>
    /\ \A m \in wire : m.call = call[d] => pc[d] = "select" /\ m.sock = sock[d]
    /\ \A s \in Sockets : \A x \in Range(inbox[s]) :
         x.call = call[d] => pc[d] = "select" /\ s = sock[d]

(* What select has left and what was waited make up the timeout.           *)
TimeLeft == TvUpdated => \A c \in Callers : left[c] + waited[c] <= Timeout

Inv == /\ TypeOK /\ DescriptorsAccounted /\ ReturnSound
       /\ Numbers /\ Placement /\ TimeLeft

LEMMA TimeoutPositive == Timeout \in Nat \ {0}
BY ResolverAssumption DEF Timeout

(* At most MaxIps records hold an address.                                 *)
LEMMA AddressesBounded ==
  ASSUME NEW list \in Seq({"A", "CNAME"})
  PROVE  Addresses(list) \in 0..MaxIps
<1> DEFINE R == {i \in 1..Len(list) : i <= MaxIps /\ list[i] = "A"}
<1>1. MaxIps \in Nat /\ R \subseteq 1..MaxIps
  BY ResolverAssumption
<1>2. IsFiniteSet(1..MaxIps) /\ Cardinality(1..MaxIps) = MaxIps
  BY <1>1, FS_Interval
<1>3. IsFiniteSet(R) /\ Cardinality(R) <= MaxIps
  BY <1>1, <1>2, FS_Subset
<1>4. Cardinality(R) \in Nat
  BY <1>3, FS_CardinalityType
<1> QED BY <1>1, <1>3, <1>4 DEF Addresses

-----------------------------------------------------------------------------
LEMMA InitInv == Init => Inv
<1> SUFFICES ASSUME Init PROVE Inv
  OBVIOUS
<1> USE ResolverAssumption, TimeoutPositive DEF Init
<1>1. TypeOK
  BY DEF TypeOK, ControlOK, ResultsOK, CountersOK, NetworkOK
<1>2. DescriptorsAccounted /\ ReturnSound
  BY DEF DescriptorsAccounted, ReturnSound
<1>3. Numbers /\ Placement /\ TimeLeft
  BY DEF Numbers, Placement, TimeLeft, Range
<1> QED BY <1>1, <1>2, <1>3 DEF Inv

(* Taking the first datagram: it is well-typed, and the rest was there.    *)
LEMMA TakeHead ==
  ASSUME TypeOK, NEW c \in Callers, pc[c] = "select", Ready(c)
  PROVE  /\ sock[c] \in Sockets
         /\ Head(inbox[sock[c]]) \in Datagram
         /\ Tail(inbox[sock[c]]) \in Seq(Datagram)
         /\ Range(Tail(inbox[sock[c]])) \subseteq Range(inbox[sock[c]])
<1>1. sock[c] \in Sockets /\ inbox[sock[c]] \in Seq(Datagram) /\ inbox[sock[c]] # <<>>
  BY DEF TypeOK, ControlOK, NetworkOK, Ready
<1> QED BY <1>1, HeadTailProperties, TailInjective

LEMMA TypeStep == Inv /\ [Next]_vars => TypeOK'
<1> SUFFICES ASSUME Inv, [Next]_vars PROVE TypeOK'
  OBVIOUS
<1>0. ControlOK /\ ResultsOK /\ CountersOK /\ NetworkOK
  BY DEF Inv, TypeOK
<1> USE ResolverAssumption, TimeoutPositive DEF network, locals
<1>1. ASSUME NEW c \in Callers, Call(c) PROVE TypeOK'
  <2>1. ControlOK'
    <3>1. PICK s \in Servers : servers' = [servers EXCEPT ![c] = s]
      BY <1>1 DEF Call
    <3> QED BY <1>0, <1>1, <3>1 DEF Call, ControlOK
  <2>2. calls' \in 0..Calls /\ calls' = calls + 1
    BY <1>0, <1>1 DEF Call, CountersOK
  <2>3. ResultsOK'
    BY <1>0, <1>1, <2>2 DEF Call, ResultsOK
  <2> QED BY <1>0, <1>1, <2>1, <2>2, <2>3 DEF Call, TypeOK, CountersOK, NetworkOK
<1>2. ASSUME NEW c \in Callers, SocketFails(c) PROVE TypeOK'
  <2>1. ControlOK'
    BY <1>0, <1>2 DEF SocketFails, Return, ControlOK
  <2> QED BY <1>0, <1>2, <2>1 DEF SocketFails, TypeOK, ResultsOK, CountersOK, NetworkOK
<1>3. ASSUME NEW c \in Callers, NEW s \in Sockets, Socket(c, s) PROVE TypeOK'
  <2>1. ControlOK'
    BY <1>0, <1>3 DEF Socket, Return, ControlOK
  <2>2. CountersOK'
    BY <1>0, <1>3 DEF Socket, CountersOK
  <2>3. NetworkOK'
    <3>1. <<>> \in Seq(Datagram)
      OBVIOUS
    <3> QED BY <1>0, <1>3, <3>1 DEF Socket, NetworkOK
  <2> QED BY <1>0, <1>3, <2>1, <2>2, <2>3 DEF Socket, TypeOK, ResultsOK
<1>4. ASSUME NEW c \in Callers, Send(c) PROVE TypeOK'
  <2>1. ControlOK'
    BY <1>0, <1>4 DEF Send, ControlOK
  <2>2. ResultsOK'
    BY <1>0, <1>4 DEF Send, ResultsOK
  <2>3. NetworkOK'
    <3>1. sock[c] \in Sockets
      BY <1>0, <1>4 DEF Send, ControlOK
    <3>2. call[c] \in 1..Calls
      <4>1. call[c] > 0
        BY <1>4 DEF Inv, Numbers, Send
      <4>2. call[c] \in 0..Calls
        BY <1>0 DEF ResultsOK
      <4> QED BY <4>1, <4>2
    <3> QED BY <1>0, <1>4, <3>1, <3>2 DEF Send, NetworkOK, Message
  <2> QED BY <1>0, <1>4, <2>1, <2>2, <2>3 DEF Send, TypeOK, CountersOK
<1>5. ASSUME NEW c \in Callers, SendFails(c) \/ TimesOut(c) \/ RecvFails(c) PROVE TypeOK'
  <2>1. ControlOK'
    BY <1>0, <1>5 DEF SendFails, TimesOut, RecvFails, Leave, Return, ControlOK
  <2>2. CountersOK'
    BY <1>0, <1>5 DEF SendFails, TimesOut, RecvFails, Leave, CountersOK
  <2> QED BY <1>0, <1>5, <2>1, <2>2
          DEF SendFails, TimesOut, RecvFails, TypeOK, ResultsOK, NetworkOK
<1>6. ASSUME NEW c \in Callers, Recv(c) PROVE TypeOK'
  <2> DEFINE answer == Head(inbox[sock[c]])
             n == Addresses(answer.records)
  <2>1. /\ sock[c] \in Sockets /\ answer \in Datagram
        /\ Tail(inbox[sock[c]]) \in Seq(Datagram)
    BY <1>6, TakeHead DEF Recv, Inv
  <2>2. answer.call \in 0..Calls /\ answer.records \in Seq({"A", "CNAME"})
    BY <2>1 DEF Datagram
  <2>3. n \in 0..MaxIps
    BY <2>2, AddressesBounded
  <2>4. ControlOK'
    BY <1>0, <1>6 DEF Recv, Leave, Return, ControlOK
  <2>5. CountersOK'
    BY <1>0, <1>6 DEF Recv, Leave, CountersOK
  <2>6. NetworkOK'
    BY <1>0, <1>6, <2>1 DEF Recv, NetworkOK
  <2>7. ResultsOK'
    <3>1. /\ size' = [size EXCEPT ![c] = n]
          /\ ret' = [ret EXCEPT ![c] = IF n > 0 THEN 0 ELSE -1]
          /\ got' = [got EXCEPT ![c] = answer.call]
          /\ UNCHANGED <<call, left, waited>>
      BY <1>6 DEF Recv
    <3>2. n \in Nat /\ answer.call \in 0..Calls
      BY <2>2, <2>3
    <3> HIDE DEF n, answer
    <3> QED BY <1>0, <3>1, <3>2 DEF ResultsOK
  <2> QED BY <2>4, <2>5, <2>6, <2>7 DEF TypeOK
<1>7. ASSUME NEW c \in Callers, Signal(c) PROVE TypeOK'
  <2>1. ResultsOK'
    BY <1>0, <1>7 DEF Signal, ResultsOK
  <2>2. CountersOK'
    BY <1>0, <1>7 DEF Signal, CountersOK
  <2> QED BY <1>0, <1>7, <2>1, <2>2 DEF Signal, TypeOK, ControlOK, NetworkOK
<1>8. ASSUME NEW c \in Callers, Tick(c) PROVE TypeOK'
  <2>1. ResultsOK'
    BY <1>0, <1>8 DEF Tick, ResultsOK
  <2> QED BY <1>0, <1>8, <2>1 DEF Tick, TypeOK, ControlOK, CountersOK, NetworkOK
<1>9. ASSUME NEW m \in wire, Arrive(m) PROVE TypeOK'
  <2>1. m.sock \in Sockets /\ m.call \in 1..Calls
    BY <1>0 DEF NetworkOK, Message
  <2>2. PICK r \in Replies :
          inbox' = IF m.sock \in open
                   THEN [inbox EXCEPT ![m.sock] = Append(@, [call |-> m.call, records |-> r])]
                   ELSE inbox
    BY <1>9 DEF Arrive
  <2>3. Append(inbox[m.sock], [call |-> m.call, records |-> r]) \in Seq(Datagram)
    <3>1. [call |-> m.call, records |-> r] \in Datagram
      BY <2>1 DEF Datagram
    <3>2. inbox[m.sock] \in Seq(Datagram)
      BY <1>0, <2>1 DEF NetworkOK
    <3> QED BY <3>1, <3>2, AppendProperties
  <2>4. NetworkOK'
    BY <1>0, <1>9, <2>2, <2>3 DEF Arrive, NetworkOK
  <2> QED BY <1>0, <1>9, <2>4 DEF Arrive, TypeOK, ControlOK, ResultsOK, CountersOK
<1>10. CASE UNCHANGED vars
  BY <1>0, <1>10 DEF vars, TypeOK, ControlOK, ResultsOK, CountersOK, NetworkOK
<1> QED BY <1>1, <1>2, <1>3, <1>4, <1>5, <1>6, <1>7, <1>8, <1>9, <1>10 DEF Next, Step

-----------------------------------------------------------------------------
(* Who owns which descriptor.                                              *)
LEMMA DescriptorStep == Inv /\ [Next]_vars => DescriptorsAccounted'
<1> SUFFICES ASSUME Inv, [Next]_vars PROVE DescriptorsAccounted'
  OBVIOUS
<1>0. DescriptorsAccounted /\ ControlOK
  BY DEF Inv, TypeOK
<1> USE ResolverAssumption
<1>1. ASSUME UNCHANGED <<sock, open, lost>> PROVE DescriptorsAccounted'
  BY <1>0, <1>1 DEF DescriptorsAccounted
<1>2. ASSUME NEW c \in Callers, NEW s \in Sockets, Socket(c, s)
      PROVE  DescriptorsAccounted'
  <2>1. sock[c] = NoSocket /\ s \notin open
    BY <1>0, <1>2 DEF Socket, ControlOK
  <2>2. CASE UNCHANGED <<sock, open, lost>>
    BY <1>1, <2>2
  <2>3. CASE sock' = [sock EXCEPT ![c] = s] /\ open' = open \cup {s} /\ UNCHANGED lost
    BY <1>0, <2>1, <2>3 DEF DescriptorsAccounted, ControlOK
  <2>4. CASE open' = open \cup {s} /\ lost' = lost \cup {s} /\ UNCHANGED sock
    BY <1>0, <2>1, <2>4 DEF DescriptorsAccounted, ControlOK
  <2> QED BY <1>2, <2>2, <2>3, <2>4 DEF Socket
<1>3. ASSUME NEW c \in Callers, Leave(c), UNCHANGED lost, sock[c] # NoSocket
      PROVE  DescriptorsAccounted'
  <2>1. sock' = [sock EXCEPT ![c] = NoSocket] /\ open' = open \ {sock[c]}
    BY <1>3 DEF Leave
  <2>2. \A d \in Callers : sock'[d] = IF d = c THEN NoSocket ELSE sock[d]
    BY <1>0, <2>1 DEF ControlOK
  <2>3. \A d \in Callers : d # c => sock[d] # sock[c]
    BY <1>0, <1>3 DEF DescriptorsAccounted
  <2>4. open' = lost' \cup ({sock'[d] : d \in Callers} \ {NoSocket})
    BY <1>0, <1>3, <2>1, <2>2, <2>3 DEF DescriptorsAccounted
  <2>5. NoSocket \notin lost
    BY DEF Inv, TypeOK, CountersOK
  <2>6. \A d \in Callers : sock'[d] \notin lost'
    BY <1>0, <1>3, <2>2, <2>5 DEF DescriptorsAccounted
  <2> QED BY <1>0, <2>2, <2>4, <2>6 DEF DescriptorsAccounted
<1>4. ASSUME NEW c \in Callers, SendFails(c) \/ TimesOut(c) \/ RecvFails(c) \/ Recv(c)
      PROVE  DescriptorsAccounted'
  <2>1. Leave(c) /\ UNCHANGED lost /\ pc[c] \in {"send", "select"}
    BY <1>4 DEF SendFails, TimesOut, RecvFails, Recv
  <2>2. sock[c] # NoSocket
    BY <1>0, <2>1 DEF ControlOK
  <2> QED BY <1>3, <2>1, <2>2
<1>5. ASSUME NEW c \in Callers,
             Call(c) \/ SocketFails(c) \/ Send(c) \/ Signal(c) \/ Tick(c)
      PROVE  DescriptorsAccounted'
  BY <1>1, <1>5 DEF Call, SocketFails, Send, Signal, Tick, locals
<1>6. ASSUME NEW m \in wire, Arrive(m) PROVE DescriptorsAccounted'
  BY <1>1, <1>6 DEF Arrive, locals
<1>7. CASE UNCHANGED vars
  BY <1>1, <1>7 DEF vars
<1> QED BY <1>2, <1>4, <1>5, <1>6, <1>7 DEF Next, Step

(* The value returned and the number of addresses.                         *)
LEMMA ReturnStep == Inv /\ [Next]_vars => ReturnSound'
<1> SUFFICES ASSUME Inv, [Next]_vars PROVE ReturnSound'
  OBVIOUS
<1>0. ReturnSound /\ ResultsOK
  BY DEF Inv, TypeOK
<1> USE ResolverAssumption
<1>1. ASSUME UNCHANGED <<ret, size>> PROVE ReturnSound'
  BY <1>0, <1>1 DEF ReturnSound
<1>2. ASSUME NEW c \in Callers, Call(c) PROVE ReturnSound'
  BY <1>0, <1>2 DEF Call, ReturnSound, ResultsOK
<1>3. ASSUME NEW c \in Callers, Recv(c) PROVE ReturnSound'
  <2> DEFINE answer == Head(inbox[sock[c]])
             n == Addresses(answer.records)
  <2>1. n \in 0..MaxIps
    <3>1. answer \in Datagram
      BY <1>3, TakeHead DEF Recv, Inv
    <3>2. answer.records \in Seq({"A", "CNAME"})
      BY <3>1 DEF Datagram
    <3> QED BY <3>2, AddressesBounded
  <2>2. /\ size' = [size EXCEPT ![c] = n]
        /\ ret' = [ret EXCEPT ![c] = IF n > 0 THEN 0 ELSE -1]
    BY <1>3 DEF Recv
  <2> HIDE DEF n
  <2> QED BY <1>0, <2>1, <2>2 DEF ReturnSound, ResultsOK
<1>4. ASSUME NEW c \in Callers, Step(c) \/ RecvFails(c) \/ Signal(c), ~Recv(c)
      PROVE  ReturnSound'
  BY <1>1, <1>4 DEF Step, SocketFails, Socket, Send, SendFails, TimesOut, Tick, RecvFails,
                    Signal, locals
<1>5. ASSUME NEW m \in wire, Arrive(m) PROVE ReturnSound'
  BY <1>1, <1>5 DEF Arrive, locals
<1>6. CASE UNCHANGED vars
  BY <1>1, <1>6 DEF vars
<1> QED BY <1>2, <1>3, <1>4, <1>5, <1>6 DEF Next

(* A step that starts no call and sends nothing: no queue gains a datagram, *)
(* and a call keeps its place, ends or gets its socket.                    *)
Shrinks == \A s \in Sockets : Range(inbox'[s]) \subseteq Range(inbox[s])

Stays(d) == \/ pc'[d] = pc[d] /\ sock'[d] = sock[d]
            \/ pc'[d] = "idle"
            \/ pc[d] = "socket" /\ pc'[d] = "send"

(* Where queries and answers are.                                          *)
LEMMA PlacementStep == Inv /\ [Next]_vars => Numbers' /\ Placement'
<1> DEFINE Goal == Numbers /\ Placement
<1> SUFFICES ASSUME Inv, [Next]_vars PROVE Goal'
  OBVIOUS
<1>0. Numbers /\ Placement /\ ControlOK /\ ResultsOK /\ CountersOK /\ NetworkOK
  BY DEF Inv, TypeOK
<1> USE ResolverAssumption
<1>1. ASSUME UNCHANGED <<call, calls, wire>>, Shrinks, \A d \in Callers : Stays(d)
      PROVE  Goal'
  <2>1. Numbers'
    BY <1>0, <1>1 DEF Numbers, Shrinks, Stays
  <2>2. Placement'
    BY <1>0, <1>1 DEF Placement, Shrinks, Stays
  <2> QED BY <2>1, <2>2
<1>2. ASSUME NEW c \in Callers, Call(c) PROVE Goal'
  <2>1. /\ pc[c] = "idle" /\ pc' = [pc EXCEPT ![c] = "socket"] /\ calls' = calls + 1
        /\ call' = [call EXCEPT ![c] = calls + 1] /\ UNCHANGED <<sock, wire, inbox>>
    BY <1>2 DEF Call, network
  <2>2. \A d \in Callers : /\ call'[d] = IF d = c THEN calls + 1 ELSE call[d]
                           /\ pc'[d] = IF d = c THEN "socket" ELSE pc[d]
    BY <1>0, <2>1 DEF ControlOK, ResultsOK
  <2>3. calls \in Nat /\ \A d \in Callers : call[d] \in Nat
    BY <1>0 DEF CountersOK, ResultsOK
  <2>4. /\ \A m \in wire : m.call \in Nat
        /\ \A s \in Sockets : \A x \in Range(inbox[s]) : x.call \in Nat
    <3>1. \A s \in Sockets : Range(inbox[s]) \subseteq Datagram
      BY <1>0, RangeOfSeq DEF NetworkOK
    <3> QED BY <1>0, <3>1 DEF NetworkOK, Message, Datagram
  <2>5. Numbers'
    BY <1>0, <2>1, <2>2, <2>3, <2>4 DEF Numbers
  <2>6. Placement'
    BY <1>0, <2>1, <2>2, <2>3, <2>4 DEF Numbers, Placement
  <2> QED BY <2>5, <2>6
<1>3. ASSUME NEW c \in Callers, NEW s \in Sockets, Socket(c, s) PROVE Goal'
  <2>1. /\ UNCHANGED <<call, calls, wire>> /\ pc[c] = "socket"
        /\ inbox' = [inbox EXCEPT ![s] = <<>>]
    BY <1>3 DEF Socket
  <2>2. \A d \in Callers : Stays(d)
    <3>1. \A d \in Callers : d # c => pc'[d] = pc[d] /\ sock'[d] = sock[d]
      BY <1>0, <1>3 DEF Socket, Return, ControlOK
    <3>2. pc'[c] = "idle" \/ pc'[c] = "send"
      BY <1>0, <1>3 DEF Socket, Return, ControlOK
    <3> QED BY <2>1, <3>1, <3>2 DEF Stays
  <2>3. Shrinks
    <3>1. Range(<<>>) = {}
      BY DEF Range
    <3> QED BY <1>0, <2>1, <3>1 DEF NetworkOK, Shrinks
  <2> QED BY <1>1, <2>1, <2>2, <2>3
<1>4. ASSUME NEW c \in Callers, Send(c) PROVE Goal'
  <2>1. /\ wire' \subseteq wire \cup {[sock |-> sock[c], call |-> call[c]]}
        /\ pc[c] = "send" /\ pc' = [pc EXCEPT ![c] = "select"]
        /\ UNCHANGED <<call, calls, sock, inbox>>
    BY <1>4 DEF Send
  <2>2. \A d \in Callers : pc'[d] = IF d = c THEN "select" ELSE pc[d]
    BY <1>0, <2>1 DEF ControlOK
  <2>3. Numbers'
    BY <1>0, <2>1, <2>2 DEF Numbers
  <2>4. Placement'
    BY <1>0, <2>1, <2>2 DEF Numbers, Placement
  <2> QED BY <2>3, <2>4
<1>5. ASSUME NEW c \in Callers,
             SocketFails(c) \/ SendFails(c) \/ TimesOut(c) \/ RecvFails(c) \/ Signal(c) \/ Tick(c)
      PROVE  Goal'
  <2>1. UNCHANGED <<call, calls, wire, inbox>>
    BY <1>5 DEF SocketFails, SendFails, TimesOut, RecvFails, Signal, Tick, locals, network
  <2>2. \A d \in Callers : Stays(d)
    BY <1>0, <1>5 DEF SocketFails, SendFails, TimesOut, RecvFails, Signal, Tick, Leave,
                      Return, locals, ControlOK, Stays
  <2>3. Shrinks
    BY <2>1 DEF Shrinks
  <2> QED BY <1>1, <2>1, <2>2, <2>3
<1>6. ASSUME NEW c \in Callers, Recv(c) PROVE Goal'
  <2>1. UNCHANGED <<call, calls, wire>>
    BY <1>6 DEF Recv
  <2>2. \A d \in Callers : Stays(d)
    BY <1>0, <1>6 DEF Recv, Leave, Return, ControlOK, Stays
  <2>3. Shrinks
    <3>1. inbox' = [inbox EXCEPT ![sock[c]] = Tail(inbox[sock[c]])] /\ pc[c] = "select" /\ Ready(c)
      BY <1>6 DEF Recv
    <3>2. Range(Tail(inbox[sock[c]])) \subseteq Range(inbox[sock[c]])
      BY <3>1, TakeHead DEF Inv
    <3> QED BY <1>0, <3>1, <3>2 DEF NetworkOK, Shrinks
  <2> QED BY <1>1, <2>1, <2>2, <2>3
<1>7. ASSUME NEW m \in wire, Arrive(m) PROVE Goal'
  <2>1. UNCHANGED <<pc, call, calls, sock>> /\ wire' = wire \ {m}
    BY <1>7 DEF Arrive, locals
  <2>2. PICK r \in Replies :
          inbox' = IF m.sock \in open
                   THEN [inbox EXCEPT ![m.sock] = Append(@, [call |-> m.call, records |-> r])]
                   ELSE inbox
    BY <1>7 DEF Arrive
  <2> DEFINE x == [call |-> m.call, records |-> r]
  <2>3. x \in Datagram /\ m.sock \in Sockets /\ x.call = m.call
    BY <1>0 DEF NetworkOK, Message, Datagram
  <2>4. Range(Append(inbox[m.sock], x)) = Range(inbox[m.sock]) \cup {x}
    <3>1. inbox[m.sock] \in Seq(Datagram)
      BY <1>0, <2>3 DEF NetworkOK
    <3> HIDE DEF x
    <3> QED BY <2>3, <3>1, RangeAppend
  <2> HIDE DEF x
  <2>5. \A s \in Sockets : \A y \in Range(inbox'[s]) :
          y \in Range(inbox[s]) \/ (s = m.sock /\ y = x)
    <3> SUFFICES ASSUME NEW s \in Sockets, NEW y \in Range(inbox'[s])
                 PROVE  y \in Range(inbox[s]) \/ (s = m.sock /\ y = x)
      OBVIOUS
    <3>1. inbox' = inbox \/ inbox' = [inbox EXCEPT ![m.sock] = Append(inbox[m.sock], x)]
      BY <2>2 DEF x
    <3>2. DOMAIN inbox = Sockets
      BY <1>0 DEF NetworkOK
    <3>3. inbox'[s] = inbox[s] \/ (s = m.sock /\ inbox'[s] = Append(inbox[m.sock], x))
      BY <3>1, <3>2
    <3>4. CASE inbox'[s] = inbox[s]
      BY <3>4
    <3>5. CASE s = m.sock /\ inbox'[s] = Append(inbox[m.sock], x)
      BY <2>4, <3>5
    <3> QED BY <3>3, <3>4, <3>5
  <2>6. Numbers'
    BY <1>0, <2>1, <2>3, <2>5 DEF Numbers
  <2>7. Placement'
    BY <1>0, <2>1, <2>3, <2>5 DEF Placement
  <2> QED BY <2>6, <2>7
<1>8. CASE UNCHANGED vars
  BY <1>0, <1>8 DEF vars, Numbers, Placement
<1> QED BY <1>2, <1>3, <1>4, <1>5, <1>6, <1>7, <1>8 DEF Next, Step

(* The clock: what is left and what was waited.                            *)
LEMMA TimeStep == Inv /\ [Next]_vars => TimeLeft'
<1> SUFFICES ASSUME Inv, [Next]_vars PROVE TimeLeft'
  OBVIOUS
<1>0. TimeLeft /\ ResultsOK
  BY DEF Inv, TypeOK
<1>1. ASSUME UNCHANGED <<left, waited>> PROVE TimeLeft'
  BY <1>0, <1>1 DEF TimeLeft
<1>2. ASSUME NEW c \in Callers, Call(c) PROVE TimeLeft'
  BY <1>0, <1>2, TimeoutPositive DEF Call, TimeLeft, ResultsOK
<1>3. ASSUME NEW c \in Callers, Tick(c) PROVE TimeLeft'
  BY <1>0, <1>3 DEF Tick, TimeLeft, ResultsOK
<1>4. ASSUME NEW c \in Callers, Signal(c) PROVE TimeLeft'
  BY <1>0, <1>4 DEF Signal, TimeLeft
<1>5. ASSUME NEW c \in Callers, Step(c) \/ RecvFails(c), ~Tick(c) PROVE TimeLeft'
  BY <1>1, <1>5 DEF Step, SocketFails, Socket, Send, SendFails, Recv, TimesOut, RecvFails, locals
<1>6. ASSUME NEW m \in wire, Arrive(m) PROVE TimeLeft'
  BY <1>1, <1>6 DEF Arrive, locals
<1>7. CASE UNCHANGED vars
  BY <1>1, <1>7 DEF vars
<1> QED BY <1>2, <1>3, <1>4, <1>5, <1>6, <1>7 DEF Next

-----------------------------------------------------------------------------
(* The inductive invariant of the resolver.                                *)
THEOREM Invariance == Spec => []Inv
<1>1. Inv /\ [Next]_vars => Inv'
  BY TypeStep, DescriptorStep, ReturnStep, PlacementStep, TimeStep DEF Inv
<1> QED BY InitInv, <1>1, PTL DEF Spec

(* Every variable keeps its type; a caller has a socket exactly between    *)
(* socket() and the return.                                                *)
THEOREM TypeCorrect == Spec => []TypeOK
BY Invariance, PTL DEF Inv

(* No descriptor is lost but the one of the return at line 171, and no two *)
(* calls ever share one.                                                   *)
THEOREM NoOtherLeak == Spec => []DescriptorsAccounted
BY Invariance, PTL DEF Inv

(* 0 means at least one address and no more than the array holds.          *)
THEOREM ReturnCorrect == Spec => []ReturnSound
BY Invariance, PTL DEF Inv

(* The answer to a call that is still in progress reaches no other call,   *)
(* for any number of calls on any number of descriptors.  (One to a call   *)
(* that has returned may, through a descriptor that is used again.)        *)
THEOREM CallsKeptApart == Spec => []NoCrossTalk
<1>1. ASSUME Inv PROVE NoCrossTalk
  <2> SUFFICES ASSUME NEW c \in Callers, NEW d \in Callers, c # d,
                      pc[c] = "select", pc[d] # "idle",
                      NEW x \in Range(inbox[sock[c]]), x.call = call[d]
               PROVE  FALSE
    BY DEF NoCrossTalk
  <2>1. sock[c] \in Sockets /\ sock[c] # NoSocket
    BY <1>1 DEF Inv, TypeOK, ControlOK
  <2>2. sock[c] = sock[d]
    BY <1>1, <2>1 DEF Inv, Placement
  <2> QED BY <1>1, <2>1, <2>2 DEF Inv, DescriptorsAccounted
<1> QED BY <1>1, Invariance, PTL

(* Where select writes back the time that is left, no call waits longer    *)
(* than its timeout.                                                       *)
THEOREM TimeoutKept == ASSUME TvUpdated PROVE Spec => []WithinTimeout
<1>1. Inv => WithinTimeout
  <2> SUFFICES ASSUME Inv, NEW c \in Callers PROVE waited[c] <= Timeout
    BY DEF WithinTimeout
  <2>1. left[c] \in 0..Timeout /\ waited[c] \in Nat
    BY DEF Inv, TypeOK, ResultsOK
  <2>2. left[c] + waited[c] <= Timeout
    BY TvUpdated DEF Inv, TimeLeft
  <2> QED BY <2>1, <2>2, TimeoutPositive
<1> QED BY <1>1, Invariance, PTL

-----------------------------------------------------------------------------
(* DnsMessage: the name in a query, and an answer as it is read.           *)
(*                                                                         *)
(* A name is a sequence of labels.  What the code does with one byte after *)
(* the other is a fold; the fold over a sequence with one more element is  *)
(* the fold over the sequence, and one more step (ScanMore, UnpackMore,    *)
(* TakeMore), so a fact about it is proved by induction over sequences.    *)
Name == Seq(Label)

LEMMA LabelBytes ==
  ASSUME NEW l \in Label
  PROVE  /\ l \in Seq(Nat) /\ Len(l) \in Nat /\ Len(l) > 0 /\ Len(l) < 64
         /\ \A i \in 1..Len(l) : l[i] \in Nat /\ l[i] > 0 /\ l[i] < 192 /\ l[i] # Dot
BY LenProperties, ElementOfSeq DEF Label

-----------------------------------------------------------------------------
(* The fold over the bytes of a name in dotted form, byte by byte.         *)
ScanStates == [out : Seq(Nat), label : Seq(Nat)]
NothingScanned == [out |-> <<>>, label |-> <<>>]

ScansTo(text, g) ==
  g = [s \in SUBSET (DOMAIN text) |->
         IF s = {} THEN NothingScanned ELSE ScanByte(g[s \ {Max(s)}], text[Max(s)])]

LEMMA ScanFolds ==
  ASSUME NEW text, NEW g, ScansTo(text, g)
  PROVE  \E f : ScansTo(text, f) /\ Scanned(text) = f[DOMAIN text]
BY Zenon DEF ScansTo, Scanned, NothingScanned, FoldLeft, MapThenFoldSet

LEMMA ScanTypes ==
  /\ NothingScanned \in ScanStates
  /\ \A s \in ScanStates, c \in Nat : ScanByte(s, c) \in ScanStates
<1>1. <<>> \in Seq(Nat)
  BY EmptySeq
<1>2. ASSUME NEW s \in ScanStates, NEW c \in Nat PROVE ScanByte(s, c) \in ScanStates
  <2>1. s.out \in Seq(Nat) /\ s.label \in Seq(Nat) /\ <<Len(s.label)>> \in Seq(Nat)
    BY LenProperties DEF ScanStates
  <2>2. CASE c = Dot
    <3>1. s.out \o <<Len(s.label)>> \o s.label \in Seq(Nat)
      BY <2>1, ConcatProperties
    <3> QED BY <1>1, <2>2, <3>1 DEF ScanByte, ScanStates, Rest
  <2>3. CASE c # Dot
    <3>1. Append(s.label, c) \in Seq(Nat)
      BY <2>1, AppendProperties
    <3> QED BY <2>1, <2>3, <3>1 DEF ScanByte, ScanStates
  <2> QED BY <2>2, <2>3
<1> QED BY <1>1, <1>2 DEF NothingScanned, ScanStates

ScanStep(text) == [k \in 1..Len(text) |-> [s \in ScanStates |-> ScanByte(s, text[k])]]

LEMMA ScanRuns ==
  ASSUME NEW text \in Seq(Nat)
  PROVE  StepsTo(ScanStates, NothingScanned, ScanStep(text), Len(text), Scanned(text))
<1>1. PICK n, F : n = Len(text) /\ F = ScanStep(text)
  OBVIOUS
<1>2. n \in Nat /\ DOMAIN text = 1..n /\ \A k \in 1..n : text[k] \in Nat
  BY <1>1, LenProperties, ElementOfSeq
<1>3. F \in [1..n -> [ScanStates -> ScanStates]]
  BY <1>1, <1>2, ScanTypes DEF ScanStep
<1>4. \A k \in 1..n, s \in ScanStates : F[k][s] = ScanByte(s, text[k])
  BY <1>1 DEF ScanStep
<1>5. PICK g : FoldFunctionOf(ScanStates, NothingScanned, F, n, g)
  BY <1>2, <1>3, ScanTypes, FoldExists
<1>6. ScansTo(text, g)
  <2>1. g = [s \in SUBSET (1..n) |-> g[s]]
    BY <1>5 DEF FoldFunctionOf
  <2>2. ASSUME NEW s \in SUBSET (1..n), s # {}
        PROVE  g[s] = ScanByte(g[s \ {Max(s)}], text[Max(s)])
    <3>1. Max(s) \in 1..n /\ g[s] = F[Max(s)][g[s \ {Max(s)}]] /\ g[s \ {Max(s)}] \in ScanStates
      BY <1>5, <2>2 DEF FoldFunctionOf
    <3> QED BY <1>4, <3>1
  <2>3. g[{}] = NothingScanned
    BY <1>5 DEF FoldFunctionOf
  <2> QED BY <1>2, <2>1, <2>2, <2>3 DEF ScansTo
<1>7. PICK f : ScansTo(text, f) /\ Scanned(text) = f[1..n]
  BY <1>2, <1>6, ScanFolds
<1>8. f[{}] = NothingScanned
  BY <1>7 DEF ScansTo
<1>9. ASSUME NEW s \in SUBSET (1..n), s # {}, Max(s) \in 1..n, f[s \ {Max(s)}] \in ScanStates
      PROVE  f[s] = F[Max(s)][f[s \ {Max(s)}]]
  <2>1. f[s] = ScanByte(f[s \ {Max(s)}], text[Max(s)])
    BY <1>2, <1>7, <1>9 DEF ScansTo
  <2> QED BY <1>4, <1>9, <2>1
<1>10. StepsTo(ScanStates, NothingScanned, F, n, f[1..n])
  BY <1>2, <1>3, <1>8, <1>9, ScanTypes, FoldRuns
<1> QED BY <1>1, <1>7, <1>10

LEMMA ScanNothing == Scanned(<<>>) = NothingScanned
<1>1. <<>> \in Seq(Nat) /\ Len(<<>>) = 0
  BY EmptySeq
<1>2. StepsTo(ScanStates, NothingScanned, ScanStep(<<>>), 0, Scanned(<<>>))
  BY <1>1, ScanRuns
<1> QED BY <1>2 DEF StepsTo, Steps

LEMMA ScanMore ==
  ASSUME NEW text \in Seq(Nat), NEW c \in Nat
  PROVE  Scanned(text) \in ScanStates /\ Scanned(Append(text, c)) = ScanByte(Scanned(text), c)
<1>1. PICK n, more : n = Len(text) /\ more = Append(text, c)
  OBVIOUS
<1>2. /\ n \in Nat /\ more \in Seq(Nat) /\ Len(more) = n + 1 /\ more[n + 1] = c
      /\ \A i \in 1..n : more[i] = text[i]
  BY <1>1, AppendProperties, LenProperties
<1>3. /\ StepsTo(ScanStates, NothingScanned, ScanStep(text), n, Scanned(text))
      /\ StepsTo(ScanStates, NothingScanned, ScanStep(more), n + 1, Scanned(more))
  BY <1>1, <1>2, ScanRuns
<1>4. \A k \in 1..n : ScanStep(more)[k] = ScanStep(text)[k]
  BY <1>1, <1>2 DEF ScanStep
<1>5. Scanned(text) \in ScanStates /\ Scanned(more) = ScanStep(more)[n + 1][Scanned(text)]
  <2>1. PICK F, G, r, t : F = ScanStep(text) /\ G = ScanStep(more) /\ r = Scanned(text) /\ t = Scanned(more)
    OBVIOUS
  <2>2. /\ StepsTo(ScanStates, NothingScanned, F, n, r) /\ StepsTo(ScanStates, NothingScanned, G, n + 1, t)
        /\ \A k \in 1..n : G[k] = F[k]
    BY <1>3, <1>4, <2>1
  <2>3. NothingScanned \in ScanStates /\ n \in Nat
    BY <1>2, ScanTypes
  <2>4. r \in ScanStates /\ t = G[n + 1][r]
    <3>1. StepsOnceMore(ScanStates, NothingScanned, F, G, n, r, t)
      BY <2>2, <2>3 DEF StepsOnceMore
    <3> QED BY <3>1, StepsOnce
  <2> QED BY <2>1, <2>4
<1>6. \A s \in ScanStates : ScanStep(more)[n + 1][s] = ScanByte(s, c)
  <2>1. n + 1 \in 1..(n + 1)
    BY <1>2
  <2> QED BY <1>2, <2>1 DEF ScanStep
<1> QED BY <1>1, <1>5, <1>6

-----------------------------------------------------------------------------
(* Names in the form of a message, and in dotted form.                     *)
Sized(l) == <<Len(l)>> \o l
Dots1(l) == <<Dot>> \o l
DotParts(labels) == FlattenSeq([i \in DOMAIN labels |-> <<Dot>> \o labels[i]])

LEMMA SizedLabel ==
  ASSUME NEW l \in Label
  PROVE  /\ Sized(l) \in Seq(Nat) /\ Dots1(l) \in Seq(Nat)
         /\ <<Len(l)>> \in Seq(Nat) /\ <<Dot>> \in Seq(Nat)
<1>1. l \in Seq(Nat) /\ Len(l) \in Nat
  BY LabelBytes
<1>2. <<Len(l)>> \in Seq(Nat) /\ <<Dot>> \in Seq(Nat)
  BY <1>1 DEF Dot
<1> QED BY <1>1, <1>2, ConcatProperties DEF Sized, Dots1

SizedAll(labels) == [i \in DOMAIN labels |-> Sized(labels[i])]
DotsAll(labels) == [i \in DOMAIN labels |-> Dots1(labels[i])]

LEMMA SequenceOf ==
  ASSUME NEW S, NEW n \in Nat, NEW s \in [1..n -> S]
  PROVE  s \in Seq(S) /\ Len(s) = n
OBVIOUS

LEMMA AllParts ==
  ASSUME NEW ls \in Name
  PROVE  /\ SizedAll(ls) \in Seq(Seq(Nat)) /\ Len(SizedAll(ls)) = Len(ls)
         /\ DotsAll(ls) \in Seq(Seq(Nat)) /\ Len(DotsAll(ls)) = Len(ls)
         /\ \A i \in 1..Len(ls) : SizedAll(ls)[i] = Sized(ls[i]) /\ DotsAll(ls)[i] = Dots1(ls[i])
<1>1. PICK n : n = Len(ls) /\ n \in Nat /\ DOMAIN ls = 1..n
  BY LenProperties DEF Name
<1>2. \A i \in 1..n : Sized(ls[i]) \in Seq(Nat) /\ Dots1(ls[i]) \in Seq(Nat)
  <2>1. \A i \in 1..n : ls[i] \in Label
    BY <1>1, ElementOfSeq DEF Name
  <2> QED BY <2>1, SizedLabel
<1>3. PICK a, b : a = SizedAll(ls) /\ b = DotsAll(ls)
  OBVIOUS
<1>4. a = [i \in 1..n |-> Sized(ls[i])] /\ b = [i \in 1..n |-> Dots1(ls[i])]
  BY <1>1, <1>3 DEF SizedAll, DotsAll
<1>5. a \in [1..n -> Seq(Nat)] /\ b \in [1..n -> Seq(Nat)]
  BY <1>2, <1>4
<1>6. a \in Seq(Seq(Nat)) /\ Len(a) = n
  BY <1>1, <1>5, SequenceOf
<1>7. b \in Seq(Seq(Nat)) /\ Len(b) = n
  BY <1>1, <1>5, SequenceOf
<1> QED BY <1>1, <1>3, <1>4, <1>6, <1>7

LEMMA OneMorePart ==
  ASSUME NEW ls \in Name, NEW l \in Label
  PROVE  /\ SizedAll(Append(ls, l)) = Append(SizedAll(ls), Sized(l))
         /\ DotsAll(Append(ls, l)) = Append(DotsAll(ls), Dots1(l))
<1>1. PICK n, more : n = Len(ls) /\ more = Append(ls, l)
  OBVIOUS
<1>2. /\ n \in Nat /\ more \in Name /\ Len(more) = n + 1 /\ more[n + 1] = l
      /\ \A i \in 1..n : more[i] = ls[i]
  BY <1>1, AppendProperties, LenProperties DEF Name
<1>3. Sized(l) \in Seq(Nat) /\ Dots1(l) \in Seq(Nat)
  BY SizedLabel
<1>4. PICK a, b, c, d : /\ a = SizedAll(more) /\ b = Append(SizedAll(ls), Sized(l))
                        /\ c = DotsAll(more) /\ d = Append(DotsAll(ls), Dots1(l))
  OBVIOUS
<1>5. /\ a \in Seq(Seq(Nat)) /\ Len(a) = n + 1 /\ \A i \in 1..(n + 1) : a[i] = Sized(more[i])
      /\ c \in Seq(Seq(Nat)) /\ Len(c) = n + 1 /\ \A i \in 1..(n + 1) : c[i] = Dots1(more[i])
  BY <1>2, <1>4, AllParts
<1>6. /\ b \in Seq(Seq(Nat)) /\ Len(b) = n + 1 /\ b[n + 1] = Sized(l)
      /\ \A i \in 1..n : b[i] = Sized(ls[i])
  <2>1. /\ SizedAll(ls) \in Seq(Seq(Nat)) /\ Len(SizedAll(ls)) = n
        /\ \A i \in 1..n : SizedAll(ls)[i] = Sized(ls[i])
    BY <1>1, AllParts
  <2> QED BY <1>3, <1>4, <2>1, AppendProperties
<1>7. /\ d \in Seq(Seq(Nat)) /\ Len(d) = n + 1 /\ d[n + 1] = Dots1(l)
      /\ \A i \in 1..n : d[i] = Dots1(ls[i])
  <2>1. /\ DotsAll(ls) \in Seq(Seq(Nat)) /\ Len(DotsAll(ls)) = n
        /\ \A i \in 1..n : DotsAll(ls)[i] = Dots1(ls[i])
    BY <1>1, AllParts
  <2> QED BY <1>3, <1>4, <2>1, AppendProperties
<1>8. ASSUME NEW i \in 1..(n + 1) PROVE a[i] = b[i] /\ c[i] = d[i]
  <2>1. CASE i = n + 1
    BY <1>2, <1>5, <1>6, <1>7, <2>1
  <2>2. CASE i # n + 1
    <3>1. i \in 1..n
      BY <1>2, <2>2
    <3> QED BY <1>2, <1>5, <1>6, <1>7, <3>1
  <2> QED BY <2>1, <2>2
<1>9. a = b
  BY <1>5, <1>6, <1>8, SeqEqual
<1>10. c = d
  BY <1>5, <1>7, <1>8, SeqEqual
<1> QED BY <1>1, <1>4, <1>9, <1>10

LEMMA WirePart == \A ls : Wire(ls) = FlattenSeq(SizedAll(ls))
BY DEF Wire, SizedAll, Sized

LEMMA DotPart == \A ls : DotParts(ls) = FlattenSeq(DotsAll(ls))
BY DEF DotParts, DotsAll, Dots1

LEMMA WireNothing == Wire(<<>>) = <<>> /\ DotParts(<<>>) = <<>>
<1>1. SizedAll(<<>>) = <<>> /\ DotsAll(<<>>) = <<>>
  BY DEF SizedAll, DotsAll
<1> QED BY <1>1, WirePart, DotPart, FlattenEmpty

LEMMA WireMore ==
  ASSUME NEW ls \in Name, NEW l \in Label
  PROVE  /\ Wire(Append(ls, l)) = Wire(ls) \o Sized(l) /\ Wire(ls) \in Seq(Nat)
         /\ DotParts(Append(ls, l)) = DotParts(ls) \o Dots1(l) /\ DotParts(ls) \in Seq(Nat)
<1>1. PICK a, b : a = SizedAll(ls) /\ b = DotsAll(ls)
  OBVIOUS
<1>2. a \in Seq(Seq(Nat)) /\ b \in Seq(Seq(Nat))
  BY <1>1, AllParts
<1>3. Sized(l) \in Seq(Nat) /\ Dots1(l) \in Seq(Nat)
  BY SizedLabel
<1>4. /\ FlattenSeq(Append(a, Sized(l))) = FlattenSeq(a) \o Sized(l) /\ FlattenSeq(a) \in Seq(Nat)
      /\ FlattenSeq(Append(b, Dots1(l))) = FlattenSeq(b) \o Dots1(l) /\ FlattenSeq(b) \in Seq(Nat)
  BY <1>2, <1>3, FlattenAppend
<1>5. SizedAll(Append(ls, l)) = Append(a, Sized(l)) /\ DotsAll(Append(ls, l)) = Append(b, Dots1(l))
  BY <1>1, OneMorePart
<1> QED BY <1>1, <1>4, <1>5, WirePart, DotPart

-----------------------------------------------------------------------------
(* Sequences of numbers, put together in other ways.                       *)
Num == Seq(Nat)

LEMMA Put == ASSUME NEW s \in Num, NEW t \in Num PROVE s \o t \in Num
BY ConcatProperties DEF Num

LEMMA PutOne == ASSUME NEW s \in Num, NEW c \in Nat PROVE Append(s, c) \in Num
BY AppendProperties DEF Num

LEMMA AppendBehind ==
  ASSUME NEW s \in Num, NEW t \in Num, NEW c \in Nat
  PROVE  Append(s \o t, c) = s \o Append(t, c)
<1>1. PICK a : a = s \o t
  OBVIOUS
<1>2. a \in Seq(Nat)
  BY <1>1, Put DEF Num
<1> QED BY <1>1, <1>2, AppendRight DEF Num

LEMMA TailBehind ==
  ASSUME NEW s \in Num, s # <<>>, NEW t \in Num
  PROVE  Tail(s \o t) = Tail(s) \o t /\ Tail(s) \in Num
<1>1. PICK a, b, u, m, n : /\ a = s \o t /\ b = Tail(a) /\ u = Tail(s) /\ m = Len(s) /\ n = Len(t)
  OBVIOUS
<1>2. m \in Nat /\ n \in Nat /\ m > 0
  <2>1. Len(s) \in Nat /\ Len(t) \in Nat
    BY LenProperties DEF Num
  <2>2. Len(s) # 0
    BY EmptySeq DEF Num
  <2> QED BY <1>1, <2>1, <2>2
<1>3. Joins(Nat, s, t, a)
  BY <1>1, Joined DEF Num
<1>4. /\ a \in Num /\ Len(a) = m + n /\ \A i \in 1..m : a[i] = s[i]
      /\ \A i \in 1..n : a[m + i] = t[i]
  BY <1>1, <1>3 DEF Joins, Num
<1>5. a # <<>>
  BY <1>2, <1>4, EmptySeq
<1>6. b \in Num /\ Len(b) = m + n - 1 /\ \A i \in 1..(m + n - 1) : b[i] = a[i + 1]
  BY <1>1, <1>4, <1>5, HeadTailProperties DEF Num
<1>7. u \in Num /\ Len(u) = m - 1 /\ \A i \in 1..(m - 1) : u[i] = s[i + 1]
  BY <1>1, HeadTailProperties DEF Num
<1>8. PICK c : c = u \o t
  OBVIOUS
<1>9. Joins(Nat, u, t, c)
  BY <1>7, <1>8, Joined DEF Num
<1>10. /\ c \in Num /\ Len(c) = m - 1 + n /\ \A i \in 1..(m - 1) : c[i] = u[i]
       /\ \A i \in 1..n : c[m - 1 + i] = t[i]
  BY <1>1, <1>7, <1>8, <1>9 DEF Joins, Num
<1>11. ASSUME NEW i \in 1..(m + n - 1) PROVE b[i] = c[i]
  <2>1. i \in Nat /\ b[i] = a[i + 1]
    BY <1>2, <1>6
  <2>2. CASE i < m
    <3>1. i \in 1..(m - 1) /\ i + 1 \in 1..m
      BY <1>2, <2>1, <2>2
    <3> QED BY <1>4, <1>7, <1>10, <2>1, <3>1
  <2>3. CASE ~ i < m
    <3>1. PICK j : j = i + 1 - m
      OBVIOUS
    <3>2. j \in 1..n /\ i + 1 = m + j /\ i = m - 1 + j
      BY <1>2, <2>1, <2>3, <3>1
    <3>3. c[i] = t[j] /\ a[i + 1] = t[j]
      BY <1>4, <1>10, <3>2
    <3> QED BY <2>1, <3>3
  <2> QED BY <2>2, <2>3
<1>12. Len(b) = Len(c)
  BY <1>2, <1>6, <1>10
<1>13. b = c
  BY <1>6, <1>10, <1>11, <1>12, SeqEqual DEF Num
<1> QED BY <1>1, <1>7, <1>8, <1>13

(* The bytes a name may have: none ends it, none looks like a pointer.     *)
Plain == {s \in Num : \A i \in 1..Len(s) : s[i] > 0 /\ s[i] < 192}

LEMMA PlainJoined ==
  ASSUME NEW s \in Plain, NEW t \in Plain
  PROVE  s \o t \in Plain
<1>1. PICK a, m, n : a = s \o t /\ m = Len(s) /\ n = Len(t)
  OBVIOUS
<1>2. /\ s \in Num /\ t \in Num /\ m \in Nat /\ n \in Nat
      /\ (\A i \in 1..m : s[i] > 0 /\ s[i] < 192) /\ (\A i \in 1..n : t[i] > 0 /\ t[i] < 192)
  BY <1>1, LenProperties DEF Plain, Num
<1>3. Joins(Nat, s, t, a)
  BY <1>1, <1>2, Joined DEF Num
<1>4. /\ a \in Num /\ Len(a) = m + n /\ \A i \in 1..m : a[i] = s[i]
      /\ \A i \in 1..n : a[m + i] = t[i]
  BY <1>1, <1>3 DEF Joins, Num
<1>5. ASSUME NEW i \in 1..(m + n) PROVE a[i] > 0 /\ a[i] < 192
  <2>1. CASE i <= m
    <3>1. i \in 1..m
      BY <1>2, <2>1
    <3> QED BY <1>2, <1>4, <3>1
  <2>2. CASE ~ i <= m
    <3>1. PICK j : j = i - m
      OBVIOUS
    <3>2. j \in 1..n /\ i = m + j
      BY <1>2, <2>2, <3>1
    <3> QED BY <1>2, <1>4, <3>2
  <2> QED BY <2>1, <2>2
<1> QED BY <1>1, <1>4, <1>5 DEF Plain

LEMMA PlainLabel ==
  ASSUME NEW l \in Label
  PROVE  l \in Plain /\ Sized(l) \in Plain /\ l \in Num /\ Len(l) \in Nat /\ Len(l) > 0
<1>1. /\ l \in Num /\ Len(l) \in Nat /\ Len(l) > 0 /\ Len(l) < 64
      /\ \A i \in 1..Len(l) : l[i] > 0 /\ l[i] < 192
  BY LabelBytes DEF Num
<1>2. l \in Plain
  BY <1>1 DEF Plain
<1>3. PICK s, k : s = <<Len(l)>> /\ k = Len(l)
  OBVIOUS
<1>4. s \in Num /\ Len(s) = 1 /\ s[1] = k /\ k > 0 /\ k < 192
  BY <1>1, <1>3 DEF Num
<1>5. s \in Plain
  <2>1. \A i \in 1..Len(s) : i = 1
    BY <1>4
  <2>2. \A i \in 1..Len(s) : s[i] > 0 /\ s[i] < 192
    BY <1>4, <2>1
  <2> QED BY <1>4, <2>2 DEF Plain
<1>6. s \o l \in Plain
  BY <1>2, <1>5, PlainJoined
<1> QED BY <1>1, <1>2, <1>3, <1>6 DEF Sized

LEMMA PlainWire == \A ls \in Name : Wire(ls) \in Plain
<1> DEFINE T == {ls \in Name : Wire(ls) \in Plain}
<1>1. <<>> \in T
  <2>1. <<>> \in Name /\ <<>> \in Num /\ Len(<<>>) = 0
    BY EmptySeq DEF Name, Num
  <2>2. <<>> \in Plain
    BY <2>1 DEF Plain
  <2> QED BY <2>1, <2>2, WireNothing
<1>2. ASSUME NEW ls \in Name, NEW l \in Label, ls \in T PROVE Append(ls, l) \in T
  <2>1. Append(ls, l) \in Name
    BY AppendProperties DEF Name
  <2>2. Wire(ls) \o Sized(l) \in Plain
    BY <1>2, PlainLabel, PlainJoined
  <2> QED BY <2>1, <2>2, WireMore
<1> HIDE DEF T
<1>3. Name \subseteq T
  BY <1>1, <1>2, SeqInduction DEF Name
<1> QED BY <1>3 DEF T

-----------------------------------------------------------------------------
(* A name with a dot behind each label, and what the scan makes of it.     *)
Ended(labels) == Tail(Append(DotParts(labels), Dot))

LEMMA DotIsNumber == Dot \in Nat
BY DEF Dot

LEMMA EndedNothing == Ended(<<>>) = <<>>
BY WireNothing DEF Ended

LEMMA EndedMore ==
  ASSUME NEW ls \in Name, NEW l \in Label
  PROVE  Ended(Append(ls, l)) = Append(Ended(ls) \o l, Dot) /\ Ended(ls) \in Num
<1>1. PICK p, q : p = DotParts(ls) /\ q = Append(p, Dot)
  OBVIOUS
<1>2. p \in Num /\ l \in Num /\ <<Dot>> \in Num /\ Dot \in Nat
  BY <1>1, WireMore, LabelBytes, SizedLabel, DotIsNumber DEF Num
<1>3. q \in Num /\ q # <<>> /\ q = p \o <<Dot>>
  BY <1>1, <1>2, AppendProperties, AppendIsConcat DEF Num
<1>4. p \o Dots1(l) = q \o l
  <2>1. Regroups(p, <<Dot>>, l)
    BY <1>2, Regrouped DEF Num
  <2> QED BY <1>3, <2>1 DEF Dots1, Regroups
<1>5. DotParts(Append(ls, l)) = q \o l
  BY <1>1, <1>4, WireMore
<1>6. Append(q \o l, Dot) = q \o Append(l, Dot)
  BY <1>2, <1>3, AppendBehind
<1>7. Append(l, Dot) \in Num
  BY <1>2, PutOne
<1>8. Tail(q \o Append(l, Dot)) = Tail(q) \o Append(l, Dot) /\ Tail(q) \in Num
  BY <1>3, <1>7, TailBehind
<1>9. Append(Tail(q) \o l, Dot) = Tail(q) \o Append(l, Dot)
  BY <1>2, <1>8, AppendBehind
<1> QED BY <1>1, <1>5, <1>6, <1>8, <1>9 DEF Ended

LEMMA EndedIsDotted ==
  ASSUME NEW ls \in Name, ls # <<>>
  PROVE  Ended(ls) = Append(Dotted(ls), Dot) /\ Dotted(ls) \in Num
<1>1. PICK front, last : front \in Name /\ last \in Label /\ ls = Append(front, last)
  <2>1. ls \in Seq(Label) /\ Len(ls) \in Nat /\ Len(ls) # 0
    BY LenProperties, EmptySeq DEF Name
  <2>2. PICK front, last : front = [i \in 1..(Len(ls) - 1) |-> ls[i]] /\ last = ls[Len(ls)]
    OBVIOUS
  <2>3. last \in Label /\ \A i \in 1..Len(ls) : ls[i] \in Label
    <3>1. Len(ls) \in 1..Len(ls)
      BY <2>1
    <3> QED BY <2>1, <2>2, <3>1, ElementOfSeq
  <2>4. front \in Seq(Label) /\ Len(front) = Len(ls) - 1 /\ \A i \in 1..(Len(ls) - 1) : front[i] = ls[i]
    <3>1. PICK n : n = Len(ls) - 1 /\ n \in Nat /\ 1..n \subseteq 1..Len(ls)
      BY <2>1
    <3>2. front \in [1..n -> Label]
      BY <2>2, <2>3, <3>1
    <3>3. front \in Seq(Label) /\ Len(front) = n
      BY <3>1, <3>2
    <3> QED BY <2>2, <3>1, <3>3
  <2>5. PICK a : a = Append(front, last)
    OBVIOUS
  <2>6. /\ a \in Seq(Label) /\ Len(a) = Len(front) + 1 /\ a[Len(front) + 1] = last
        /\ \A i \in 1..Len(front) : a[i] = front[i]
    BY <2>3, <2>4, <2>5, AppendProperties
  <2>7. ASSUME NEW i \in 1..Len(ls) PROVE ls[i] = a[i]
    <3>1. PICK n : n = Len(ls) - 1 /\ n \in Nat /\ Len(ls) = n + 1
      BY <2>1
    <3>2. CASE i = n + 1
      BY <2>2, <2>4, <2>6, <3>1, <3>2
    <3>3. CASE i # n + 1
      <4>1. i \in 1..n
        BY <3>1, <3>3
      <4> QED BY <2>4, <2>6, <3>1, <4>1
    <3> QED BY <3>2, <3>3
  <2>8. Len(ls) = Len(a)
    BY <2>1, <2>4, <2>6
  <2>9. ls = a
    BY <2>1, <2>6, <2>7, <2>8, SeqEqual
  <2> QED BY <2>3, <2>4, <2>5, <2>9 DEF Name
<1>2. PICK p : p = DotParts(ls)
  OBVIOUS
<1>3. DotParts(front) \in Num /\ Dots1(last) \in Num /\ p = DotParts(front) \o Dots1(last)
  BY <1>1, <1>2, WireMore, SizedLabel DEF Num
<1>4. p \in Num /\ Len(p) = Len(DotParts(front)) + Len(Dots1(last))
  BY <1>3, ConcatProperties DEF Num
<1>5. Len(Dots1(last)) = 1 + Len(last) /\ Len(last) \in Nat
  <2>1. <<Dot>> \in Seq(Nat) /\ last \in Seq(Nat) /\ Len(last) \in Nat /\ Len(<<Dot>>) = 1
    BY <1>1, SizedLabel, LabelBytes
  <2> QED BY <2>1, ConcatProperties DEF Dots1
<1>6. Len(DotParts(front)) \in Nat
  BY <1>3, LenProperties DEF Num
<1>7. p # <<>>
  BY <1>4, <1>5, <1>6, EmptySeq
<1>8. Dotted(ls) = Tail(p)
  BY <1>2 DEF Dotted, DotParts
<1>9. Tail(Append(p, Dot)) = Append(Tail(p), Dot) /\ Tail(p) \in Num
  BY <1>4, <1>7, DotIsNumber, HeadTailAppend, HeadTailProperties DEF Num
<1> QED BY <1>2, <1>8, <1>9 DEF Ended

(* Behind a dot, the bytes of a label are what was seen since.             *)
LEMMA ScanLabel ==
  ASSUME NEW text \in Num, Scanned(text).label = <<>>, NEW l \in Label
  PROVE  Scanned(text \o l).out = Scanned(text).out /\ Scanned(text \o l).label = l
<1> DEFINE NoDots(s) == \A i \in 1..Len(s) : s[i] # Dot
           Seen(s) == Scanned(text \o s).out = Scanned(text).out /\ Scanned(text \o s).label = s
           T == {s \in Num : NoDots(s) => Seen(s)}
<1>1. <<>> \in T
  <2>1. <<>> \in Num /\ text \o <<>> = text
    BY EmptySeq, ConcatEmptySeq DEF Num
  <2> QED BY <2>1
<1>2. ASSUME NEW s \in Num, NEW c \in Nat, s \in T PROVE Append(s, c) \in T
  <2>1. /\ Append(s, c) \in Num /\ Len(Append(s, c)) = Len(s) + 1 /\ Len(s) \in Nat
        /\ Append(s, c)[Len(s) + 1] = c /\ \A i \in 1..Len(s) : Append(s, c)[i] = s[i]
    BY AppendProperties, LenProperties DEF Num
  <2>2. ASSUME NoDots(Append(s, c)) PROVE Seen(Append(s, c))
    <3>1. c # Dot /\ NoDots(s)
      <4>1. Len(s) + 1 \in 1..(Len(s) + 1) /\ 1..Len(s) \subseteq 1..(Len(s) + 1)
        BY <2>1
      <4> QED BY <2>1, <2>2, <4>1
    <3>2. Seen(s)
      BY <1>2, <3>1
    <3>3. text \o s \in Num /\ text \o Append(s, c) = Append(text \o s, c)
      BY Put, AppendBehind
    <3>4. /\ Scanned(text \o s) \in ScanStates
          /\ Scanned(text \o Append(s, c)) = ScanByte(Scanned(text \o s), c)
      BY <3>3, ScanMore DEF Num
    <3>5. /\ ScanByte(Scanned(text \o s), c).out = Scanned(text \o s).out
          /\ ScanByte(Scanned(text \o s), c).label = Append(Scanned(text \o s).label, c)
      BY <3>1, <3>4 DEF ScanByte, ScanStates
    <3> QED BY <3>2, <3>4, <3>5
  <2> QED BY <2>1, <2>2
<1> HIDE DEF T
<1>3. Num \subseteq T
  BY <1>1, <1>2, SeqInduction DEF Num
<1>4. l \in T /\ NoDots(l)
  BY <1>3, LabelBytes DEF Num
<1> QED BY <1>4 DEF T

LEMMA ScanWire ==
  \A ls \in Name : Scanned(Ended(ls)).out = Wire(ls) /\ Scanned(Ended(ls)).label = <<>>
<1> DEFINE T == {ls \in Name : /\ Scanned(Ended(ls)).out = Wire(ls)
                              /\ Scanned(Ended(ls)).label = <<>>}
<1>1. <<>> \in T
  <2>1. <<>> \in Name
    BY EmptySeq DEF Name
  <2> QED BY <2>1, EndedNothing, WireNothing, ScanNothing DEF NothingScanned
<1>2. ASSUME NEW ls \in Name, NEW l \in Label, ls \in T PROVE Append(ls, l) \in T
  <2>1. Append(ls, l) \in Name
    BY AppendProperties DEF Name
  <2>2. PICK e : e = Ended(ls)
    OBVIOUS
  <2>3. /\ e \in Num /\ Ended(Append(ls, l)) = Append(e \o l, Dot) /\ l \in Num
        /\ Scanned(e).out = Wire(ls) /\ Scanned(e).label = <<>>
    BY <1>2, <2>2, EndedMore, LabelBytes DEF Num
  <2>4. /\ e \o l \in Num /\ Scanned(e \o l).out = Wire(ls) /\ Scanned(e \o l).label = l
    BY <2>3, Put, ScanLabel
  <2>5. Scanned(Append(e \o l, Dot)) = ScanByte(Scanned(e \o l), Dot)
    BY <2>4, DotIsNumber, ScanMore DEF Num
  <2>6. /\ ScanByte(Scanned(e \o l), Dot).out = (Wire(ls) \o <<Len(l)>>) \o l
        /\ ScanByte(Scanned(e \o l), Dot).label = <<>>
    BY <2>4 DEF ScanByte, Rest
  <2>7. (Wire(ls) \o <<Len(l)>>) \o l = Wire(ls) \o Sized(l)
    <3>1. Wire(ls) \in Num /\ <<Len(l)>> \in Num
      BY WireMore, SizedLabel DEF Num
    <3>2. Regroups(Wire(ls), <<Len(l)>>, l)
      BY <2>3, <3>1, Regrouped DEF Num
    <3> QED BY <3>2 DEF Sized, Regroups
  <2> QED BY <2>1, <2>3, <2>5, <2>6, <2>7, WireMore
<1> HIDE DEF T
<1>3. Name \subseteq T
  BY <1>1, <1>2, SeqInduction DEF Name
<1> QED BY <1>3 DEF T

-----------------------------------------------------------------------------
(* The query's name, up to its first NUL.                                  *)
LEMMA StrlenEnds ==
  ASSUME NEW w \in Plain, NEW bytes \in Num, SitsAt(bytes, 0, w \o << 0 >>)
  PROVE  Strlen(bytes) = Len(w) /\ SubSeq(bytes, 1, Strlen(bytes) + 1) = w \o << 0 >>
<1>1. PICK n, l, z : n = Len(w) /\ l = Len(bytes) /\ z = << 0 >>
  OBVIOUS
<1>2. w \in Num /\ n \in Nat /\ l \in Nat /\ z \in Num /\ Len(z) = 1 /\ DOMAIN bytes = 1..l
  BY <1>1, LenProperties DEF Plain, Num
<1>3. SitsAt(bytes, 0, w) /\ SitsAt(bytes, n, << 0 >>)
  <2>1. 0 \in Nat /\ SitsAt(bytes, 0, w \o z)
    BY <1>1
  <2>2. SitsAt(bytes, 0, w) /\ SitsAt(bytes, 0 + Len(w), z)
    BY <1>2, <2>1, SitsApart DEF Num
  <2> QED BY <1>1, <1>2, <2>2
<1>4. bytes[n + 1] = 0 /\ n + 1 <= l
  BY <1>1, <1>2, <1>3, SitsOne
<1>5. \A i \in 1..n : bytes[i] = w[i] /\ w[i] > 0
  <2>1. \A i \in 1..n : bytes[0 + i] = w[i] /\ w[i] > 0
    BY <1>1, <1>3 DEF SitsAt, Plain
  <2> QED BY <1>2, <2>1
<1>6. PICK S : S = {i \in 1..l : bytes[i] = 0}
  OBVIOUS
<1>7. n + 1 \in S /\ \A i \in S : i \in Nat /\ n + 1 <= i
  <2>1. n + 1 \in 1..l
    BY <1>2, <1>4
  <2>2. ASSUME NEW i \in S PROVE i \in Nat /\ n + 1 <= i
    <3>1. i \in 1..l /\ bytes[i] = 0
      BY <1>6
    <3>2. ~ i \in 1..n
      BY <1>5, <3>1
    <3> QED BY <1>2, <3>1, <3>2
  <2> QED BY <1>4, <1>6, <2>1, <2>2
<1>8. Min(S) \in S /\ Min(S) <= n + 1
  BY <1>7 DEF Min
<1>9. Min(S) = n + 1
  BY <1>2, <1>7, <1>8
<1>10. Strlen(bytes) = n
  <2>1. Strlen(bytes) = Min(S) - 1
    BY <1>2, <1>6 DEF Strlen
  <2> QED BY <1>2, <1>9, <2>1
<1>11. SubSeq(bytes, 1, n + 1) = w \o << 0 >>
  <2>1. PICK u : u = w \o z
    OBVIOUS
  <2>2. u \in Seq(Nat) /\ Len(u) = n + 1 /\ SitsAt(bytes, 0, u)
    BY <1>1, <1>2, <2>1, ConcatProperties DEF Num
  <2>3. SubSeq(bytes, 0 + 1, 0 + Len(u)) = u
    BY <2>2, SitsSub DEF Num
  <2> QED BY <1>1, <1>2, <2>1, <2>2, <2>3
<1> QED BY <1>1, <1>10, <1>11

LEMMA FormatStarts ==
  ASSUME NEW ls \in Name, ls # <<>>, NEW dot \in BOOLEAN
  PROVE  LET q == ChangetoDnsNameFormat(Dotted(ls) \o (IF dot THEN <<Dot>> ELSE <<>>))
         IN q \in Num /\ SitsAt(q, 0, Wire(ls) \o << 0 >>)
<1>1. PICK d, e, w, z : d = Dotted(ls) /\ e = Ended(ls) /\ w = Wire(ls) /\ z = << 0 >>
  OBVIOUS
<1>2. d \in Num /\ e = Append(d, Dot) /\ w \in Num /\ z \in Num /\ e \in Num
  <2>1. d \in Num /\ e = Append(d, Dot)
    BY <1>1, EndedIsDotted
  <2>2. w \in Num /\ z \in Num
    BY <1>1, PlainWire DEF Plain, Num
  <2>3. e \in Num
    BY <2>1, DotIsNumber, PutOne
  <2> QED BY <2>1, <2>2, <2>3
<1>3. Scanned(e) \in ScanStates /\ Scanned(e).out = w /\ Scanned(e).label = <<>>
  BY <1>1, <1>2, ScanWire, ScanMore, DotIsNumber DEF Num
<1>4. w \o z \in Num
  BY <1>2, Put
<1>5. CASE ~dot
  <2>1. d \o <<>> = d
    BY <1>2, ConcatEmptySeq DEF Num
  <2>2. ChangetoDnsNameFormat(d \o <<>>) = w \o z
    BY <1>1, <1>2, <1>3, <2>1 DEF ChangetoDnsNameFormat
  <2>3. SitsAt(w \o z, 0, w \o z)
    BY <1>4, SitsAtStart DEF Num
  <2> QED BY <1>1, <1>4, <1>5, <2>2, <2>3
<1>6. CASE dot
  <2>1. d \o <<Dot>> = e
    BY <1>2, DotIsNumber, AppendIsConcat DEF Num
  <2>2. Scanned(Append(e, Dot)) = ScanByte(Scanned(e), Dot)
    BY <1>2, DotIsNumber, ScanMore DEF Num
  <2>3. ScanByte(Scanned(e), Dot).out = w \o z
    <3>1. ScanByte(Scanned(e), Dot).out = (w \o <<Len(<<>>)>>) \o <<>>
      BY <1>3 DEF ScanByte
    <3>2. <<Len(<<>>)>> = z
      BY <1>1
    <3>3. (w \o z) \o <<>> = w \o z
      BY <1>4, ConcatEmptySeq DEF Num
    <3> QED BY <3>1, <3>2, <3>3
  <2>4. ChangetoDnsNameFormat(e) = (w \o z) \o z
    BY <1>1, <2>2, <2>3 DEF ChangetoDnsNameFormat
  <2>5. PICK q : q = (w \o z) \o z
    OBVIOUS
  <2>6. q \in Num
    BY <1>2, <1>4, <2>5, Put
  <2>7. SitsAt(q, 0, q) /\ 0 \in Nat
    BY <2>6, SitsAtStart DEF Num
  <2>8. SitsAt(q, 0, w \o z)
    BY <1>2, <1>4, <2>5, <2>6, <2>7, SitsApart DEF Num
  <2> QED BY <1>1, <1>6, <2>1, <2>4, <2>5, <2>6, <2>8
<1> QED BY <1>5, <1>6

-----------------------------------------------------------------------------
(* The fold over the bytes of a name in a message, byte by byte.           *)
UnpackStates == [left : Nat, out : Seq(Nat)]
NothingUnpacked == [left |-> 0, out |-> <<>>]

UnpacksTo(raw, g) ==
  g = [s \in SUBSET (DOMAIN raw) |->
         IF s = {} THEN NothingUnpacked ELSE UnpackByte(g[s \ {Max(s)}], raw[Max(s)])]

LEMMA UnpackFolds ==
  ASSUME NEW raw, NEW g, UnpacksTo(raw, g)
  PROVE  \E f : UnpacksTo(raw, f) /\ Unpacked(raw) = f[DOMAIN raw]
BY Zenon DEF UnpacksTo, Unpacked, NothingUnpacked, FoldLeft, MapThenFoldSet

LEMMA UnpackTypes ==
  /\ NothingUnpacked \in UnpackStates
  /\ \A s \in UnpackStates, b \in Nat : UnpackByte(s, b) \in UnpackStates
<1>1. <<>> \in Seq(Nat)
  BY EmptySeq
<1>2. ASSUME NEW s \in UnpackStates, NEW b \in Nat PROVE UnpackByte(s, b) \in UnpackStates
  <2>1. s.left \in Nat /\ s.out \in Seq(Nat) /\ Dot \in Nat
    BY DotIsNumber DEF UnpackStates
  <2>2. Append(s.out, Dot) \in Seq(Nat) /\ Append(s.out, b) \in Seq(Nat)
    BY <2>1, AppendProperties
  <2>3. CASE s.left = 0
    BY <1>1, <2>1, <2>2, <2>3 DEF UnpackByte, UnpackStates
  <2>4. CASE s.left # 0
    <3>1. s.left - 1 \in Nat
      BY <2>1, <2>4
    <3> QED BY <2>2, <2>4, <3>1 DEF UnpackByte, UnpackStates
  <2> QED BY <2>3, <2>4
<1> QED BY <1>1, <1>2 DEF NothingUnpacked, UnpackStates

UnpackStep(raw) == [k \in 1..Len(raw) |-> [s \in UnpackStates |-> UnpackByte(s, raw[k])]]

LEMMA UnpackRuns ==
  ASSUME NEW raw \in Seq(Nat)
  PROVE  StepsTo(UnpackStates, NothingUnpacked, UnpackStep(raw), Len(raw), Unpacked(raw))
<1>1. PICK n, F : n = Len(raw) /\ F = UnpackStep(raw)
  OBVIOUS
<1>2. n \in Nat /\ DOMAIN raw = 1..n /\ \A k \in 1..n : raw[k] \in Nat
  BY <1>1, LenProperties, ElementOfSeq
<1>3. F \in [1..n -> [UnpackStates -> UnpackStates]]
  BY <1>1, <1>2, UnpackTypes DEF UnpackStep
<1>4. \A k \in 1..n, s \in UnpackStates : F[k][s] = UnpackByte(s, raw[k])
  BY <1>1 DEF UnpackStep
<1>5. PICK g : FoldFunctionOf(UnpackStates, NothingUnpacked, F, n, g)
  BY <1>2, <1>3, UnpackTypes, FoldExists
<1>6. UnpacksTo(raw, g)
  <2>1. g = [s \in SUBSET (1..n) |-> g[s]]
    BY <1>5 DEF FoldFunctionOf
  <2>2. ASSUME NEW s \in SUBSET (1..n), s # {}
        PROVE  g[s] = UnpackByte(g[s \ {Max(s)}], raw[Max(s)])
    <3>1. Max(s) \in 1..n /\ g[s] = F[Max(s)][g[s \ {Max(s)}]] /\ g[s \ {Max(s)}] \in UnpackStates
      BY <1>5, <2>2 DEF FoldFunctionOf
    <3> QED BY <1>4, <3>1
  <2>3. g[{}] = NothingUnpacked
    BY <1>5 DEF FoldFunctionOf
  <2> QED BY <1>2, <2>1, <2>2, <2>3 DEF UnpacksTo
<1>7. PICK f : UnpacksTo(raw, f) /\ Unpacked(raw) = f[1..n]
  BY <1>2, <1>6, UnpackFolds
<1>8. f[{}] = NothingUnpacked
  BY <1>7 DEF UnpacksTo
<1>9. ASSUME NEW s \in SUBSET (1..n), s # {}, Max(s) \in 1..n, f[s \ {Max(s)}] \in UnpackStates
      PROVE  f[s] = F[Max(s)][f[s \ {Max(s)}]]
  <2>1. f[s] = UnpackByte(f[s \ {Max(s)}], raw[Max(s)])
    BY <1>2, <1>7, <1>9 DEF UnpacksTo
  <2> QED BY <1>4, <1>9, <2>1
<1>10. StepsTo(UnpackStates, NothingUnpacked, F, n, f[1..n])
  BY <1>2, <1>3, <1>8, <1>9, UnpackTypes, FoldRuns
<1> QED BY <1>1, <1>7, <1>10

LEMMA UnpackNothing == Unpacked(<<>>) = NothingUnpacked
<1>1. <<>> \in Seq(Nat) /\ Len(<<>>) = 0
  BY EmptySeq
<1>2. StepsTo(UnpackStates, NothingUnpacked, UnpackStep(<<>>), 0, Unpacked(<<>>))
  BY <1>1, UnpackRuns
<1> QED BY <1>2 DEF StepsTo, Steps

LEMMA UnpackMore ==
  ASSUME NEW raw \in Seq(Nat), NEW b \in Nat
  PROVE  Unpacked(raw) \in UnpackStates /\ Unpacked(Append(raw, b)) = UnpackByte(Unpacked(raw), b)
<1>1. PICK n, more : n = Len(raw) /\ more = Append(raw, b)
  OBVIOUS
<1>2. /\ n \in Nat /\ more \in Seq(Nat) /\ Len(more) = n + 1 /\ more[n + 1] = b
      /\ \A i \in 1..n : more[i] = raw[i]
  BY <1>1, AppendProperties, LenProperties
<1>3. /\ StepsTo(UnpackStates, NothingUnpacked, UnpackStep(raw), n, Unpacked(raw))
      /\ StepsTo(UnpackStates, NothingUnpacked, UnpackStep(more), n + 1, Unpacked(more))
  BY <1>1, <1>2, UnpackRuns
<1>4. \A k \in 1..n : UnpackStep(more)[k] = UnpackStep(raw)[k]
  BY <1>1, <1>2 DEF UnpackStep
<1>5. Unpacked(raw) \in UnpackStates /\ Unpacked(more) = UnpackStep(more)[n + 1][Unpacked(raw)]
  <2>1. PICK F, G, r, t : F = UnpackStep(raw) /\ G = UnpackStep(more) /\ r = Unpacked(raw) /\ t = Unpacked(more)
    OBVIOUS
  <2>2. /\ StepsTo(UnpackStates, NothingUnpacked, F, n, r) /\ StepsTo(UnpackStates, NothingUnpacked, G, n + 1, t)
        /\ \A k \in 1..n : G[k] = F[k]
    BY <1>3, <1>4, <2>1
  <2>3. NothingUnpacked \in UnpackStates /\ n \in Nat
    BY <1>2, UnpackTypes
  <2>4. r \in UnpackStates /\ t = G[n + 1][r]
    <3>1. StepsOnceMore(UnpackStates, NothingUnpacked, F, G, n, r, t)
      BY <2>2, <2>3 DEF StepsOnceMore
    <3> QED BY <3>1, StepsOnce
  <2> QED BY <2>1, <2>4
<1>6. \A s \in UnpackStates : UnpackStep(more)[n + 1][s] = UnpackByte(s, b)
  <2>1. n + 1 \in 1..(n + 1)
    BY <1>2
  <2> QED BY <1>2, <2>1 DEF UnpackStep
<1> QED BY <1>1, <1>5, <1>6


-----------------------------------------------------------------------------
(* What is read from the form of a message is the dotted form.             *)
LEMMA UnpackBytes ==
  ASSUME NEW raw \in Num, NEW l \in Num, NEW k \in Nat, Unpacked(raw).left = k + Len(l)
  PROVE  /\ Unpacked(raw \o l).left = k
         /\ Unpacked(raw \o l).out = Unpacked(raw).out \o l
<1>1. PICK u, n : u = Unpacked(raw) /\ n = k + Len(l)
  OBVIOUS
<1>2. u \in UnpackStates
  <2>1. 0 \in Nat
    OBVIOUS
  <2> QED BY <1>1, <2>1, UnpackMore DEF Num
<1>3. u.out \in Num /\ u.left \in Nat /\ u.left = n /\ n \in Nat /\ Len(l) \in Nat /\ Len(l) <= n
  BY <1>1, <1>2, LenProperties DEF UnpackStates, Num
<1> DEFINE Seen(s) == Unpacked(raw \o s).left = n - Len(s) /\ Unpacked(raw \o s).out = u.out \o s
           T == {s \in Num : Len(s) <= n => Seen(s)}
<1>4. <<>> \in T
  <2>1. <<>> \in Num /\ raw \o <<>> = raw /\ u.out \o <<>> = u.out /\ Len(<<>>) = 0
    BY <1>3, EmptySeq, ConcatEmptySeq DEF Num
  <2>2. n - Len(<<>>) = u.left
    BY <1>3, <2>1
  <2>3. Seen(<<>>)
    BY <1>1, <2>1, <2>2
  <2> QED BY <2>1, <2>3
<1>5. ASSUME NEW s \in Num, NEW b \in Nat, s \in T PROVE Append(s, b) \in T
  <2>1. Append(s, b) \in Num /\ Len(Append(s, b)) = Len(s) + 1 /\ Len(s) \in Nat
    BY AppendProperties, LenProperties DEF Num
  <2>2. ASSUME Len(s) + 1 <= n PROVE Seen(Append(s, b))
    <3>1. Seen(s) /\ n - Len(s) # 0 /\ (n - Len(s)) - 1 = n - (Len(s) + 1)
      BY <1>3, <1>5, <2>1, <2>2
    <3>2. raw \o s \in Num /\ raw \o Append(s, b) = Append(raw \o s, b)
      BY Put, AppendBehind
    <3>3. /\ Unpacked(raw \o s) \in UnpackStates
          /\ Unpacked(raw \o Append(s, b)) = UnpackByte(Unpacked(raw \o s), b)
      BY <3>2, UnpackMore DEF Num
    <3>4. /\ UnpackByte(Unpacked(raw \o s), b).left = (n - Len(s)) - 1
          /\ UnpackByte(Unpacked(raw \o s), b).out = Append(u.out \o s, b)
      BY <3>1 DEF UnpackByte
    <3>5. Append(u.out \o s, b) = u.out \o Append(s, b)
      BY <1>3, AppendBehind
    <3> QED BY <2>1, <3>1, <3>3, <3>4, <3>5
  <2> QED BY <2>1, <2>2
<1> HIDE DEF T
<1>6. Num \subseteq T
  BY <1>4, <1>5, SeqInduction DEF Num
<1>7. l \in T
  BY <1>6
<1>8. Seen(l)
  BY <1>3, <1>7 DEF T
<1>9. n - Len(l) = k
  BY <1>1, <1>3
<1> QED BY <1>1, <1>8, <1>9

LEMMA DottedMore ==
  ASSUME NEW ls \in Name, NEW l \in Label
  PROVE  Dotted(Append(ls, l)) = Ended(ls) \o l /\ Ended(ls) \o l # <<>> /\ Ended(ls) \in Num
<1>1. PICK p, q : p = DotParts(ls) /\ q = Append(p, Dot)
  OBVIOUS
<1>2. p \in Num /\ l \in Num /\ <<Dot>> \in Num /\ Dot \in Nat
  BY <1>1, WireMore, LabelBytes, SizedLabel, DotIsNumber DEF Num
<1>3. q \in Num /\ q # <<>> /\ q = p \o <<Dot>>
  BY <1>1, <1>2, AppendProperties, AppendIsConcat DEF Num
<1>4. p \o Dots1(l) = q \o l
  <2>1. Regroups(p, <<Dot>>, l)
    BY <1>2, Regrouped DEF Num
  <2> QED BY <1>3, <2>1 DEF Dots1, Regroups
<1>5. DotParts(Append(ls, l)) = q \o l
  BY <1>1, <1>4, WireMore
<1>6. Tail(q \o l) = Tail(q) \o l /\ Tail(q) \in Num
  BY <1>2, <1>3, TailBehind
<1>7. Dotted(Append(ls, l)) = Tail(q) \o l
  BY <1>5, <1>6 DEF Dotted, DotParts
<1>8. Tail(q) \o l # <<>>
  <2>1. l # <<>>
    BY PlainLabel, EmptySeq
  <2> QED BY <1>2, <1>6, <2>1, ConcatEqualIffEmpty DEF Num
<1> QED BY <1>1, <1>6, <1>7, <1>8 DEF Ended

LEMMA UnpackWire ==
  \A ls \in Name :
    /\ Unpacked(Wire(ls)).left = 0
    /\ IF ls = <<>> THEN Unpacked(Wire(ls)).out = <<>>
       ELSE Unpacked(Wire(ls)).out = Dotted(ls) /\ Dotted(ls) # <<>>
<1> DEFINE P(ls) == /\ Unpacked(Wire(ls)).left = 0
                    /\ IF ls = <<>> THEN Unpacked(Wire(ls)).out = <<>>
                       ELSE Unpacked(Wire(ls)).out = Dotted(ls) /\ Dotted(ls) # <<>>
           T == {ls \in Name : P(ls)}
<1>1. <<>> \in T
  <2>1. <<>> \in Name
    BY EmptySeq DEF Name
  <2> QED BY <2>1, WireNothing, UnpackNothing DEF NothingUnpacked
<1>2. ASSUME NEW ls \in Name, NEW l \in Label, ls \in T PROVE Append(ls, l) \in T
  <2>1. Append(ls, l) \in Name /\ Append(ls, l) # <<>>
    BY AppendProperties DEF Name
  <2>2. PICK w, v, d : w = Wire(ls) /\ v = Append(w, Len(l)) /\ d = Ended(ls)
    OBVIOUS
  <2>3. w \in Num /\ l \in Num /\ Len(l) \in Nat /\ v \in Num /\ <<Len(l)>> \in Num
    <3>1. w \in Num
      BY <2>2, WireMore DEF Num
    <3> QED BY <2>2, <3>1, PlainLabel, SizedLabel, PutOne DEF Num
  <2>4. Unpacked(v) = UnpackByte(Unpacked(w), Len(l)) /\ Unpacked(w).left = 0
    BY <1>2, <2>2, <2>3, UnpackMore DEF Num
  <2>5. d = IF Unpacked(w).out = <<>> THEN <<>> ELSE Append(Unpacked(w).out, Dot)
    BY <1>2, <2>2, EndedNothing, EndedIsDotted
  <2>6. Unpacked(v).left = Len(l) /\ Unpacked(v).out = d
    BY <2>4, <2>5 DEF UnpackByte
  <2>7. Unpacked(v \o l).left = 0 /\ Unpacked(v \o l).out = d \o l
    <3>1. Unpacked(v).left = 0 + Len(l) /\ 0 \in Nat
      BY <2>3, <2>6
    <3> QED BY <2>3, <2>6, <3>1, UnpackBytes
  <2>8. v \o l = Wire(Append(ls, l))
    <3>1. v = w \o <<Len(l)>>
      BY <2>2, <2>3, AppendIsConcat DEF Num
    <3>2. v \o l = w \o Sized(l)
      <4>1. Regroups(w, <<Len(l)>>, l)
        BY <2>3, Regrouped DEF Num
      <4> QED BY <3>1, <4>1 DEF Sized, Regroups
    <3> QED BY <2>2, <3>2, WireMore
  <2> QED BY <2>1, <2>2, <2>7, <2>8, DottedMore
<1> HIDE DEF T
<1>3. Name \subseteq T
  BY <1>1, <1>2, SeqInduction DEF Name
<1> QED BY <1>3 DEF T

(* What is pointed to is a part of the form of the whole name.             *)
LEMMA WireApart ==
  ASSUME NEW a \in Name
  PROVE  \A b \in Name : Wire(a \o b) = Wire(a) \o Wire(b) /\ a \o b \in Name
<1> DEFINE T == {b \in Name : Wire(a \o b) = Wire(a) \o Wire(b) /\ a \o b \in Name}
<1>1. <<>> \in T
  <2>1. <<>> \in Name /\ a \o <<>> = a /\ Wire(a) \in Seq(Nat)
    BY EmptySeq, ConcatEmptySeq, PlainWire DEF Name, Plain, Num
  <2>2. Wire(a) \o <<>> = Wire(a)
    BY <2>1, ConcatEmptySeq
  <2> QED BY <2>1, <2>2, WireNothing
<1>2. ASSUME NEW b \in Name, NEW l \in Label, b \in T PROVE Append(b, l) \in T
  <2>1. Append(b, l) \in Name
    BY AppendProperties DEF Name
  <2>2. PICK c : c = a \o b
    OBVIOUS
  <2>3. c \in Name /\ Wire(c) = Wire(a) \o Wire(b)
    BY <1>2, <2>2
  <2>4. Append(c, l) = a \o Append(b, l)
    BY <2>2, <2>3, AppendRight DEF Name
  <2>5. Append(c, l) \in Name
    BY <2>3, AppendProperties DEF Name
  <2>6. Wire(Append(c, l)) = (Wire(a) \o Wire(b)) \o Sized(l)
    BY <2>3, WireMore
  <2>7. Wire(Append(b, l)) = Wire(b) \o Sized(l)
    BY WireMore
  <2>8. (Wire(a) \o Wire(b)) \o Sized(l) = Wire(a) \o (Wire(b) \o Sized(l))
    <3>1. Wire(a) \in Num /\ Wire(b) \in Num /\ Sized(l) \in Num
      BY PlainWire, PlainLabel DEF Plain
    <3>2. Regroups(Wire(a), Wire(b), Sized(l))
      BY <3>1, Regrouped DEF Num
    <3> QED BY <3>2 DEF Regroups
  <2> QED BY <2>1, <2>4, <2>5, <2>6, <2>7, <2>8
<1> HIDE DEF T
<1>3. Name \subseteq T
  BY <1>1, <1>2, SeqInduction DEF Name
<1> QED BY <1>3 DEF T

-----------------------------------------------------------------------------
(* ReadName's walk over a message, step by step: where a walk has arrived. *)
Reader(at, raw, jumped, count) == [at |-> at, raw |-> raw, jumped |-> jumped, count |-> count]

WalkOf(m, reader, w) ==
  w = [n \in 0..Len(m) |->
         IF n = 0 THEN [at |-> reader, raw |-> <<>>, jumped |-> FALSE, count |-> 1]
         ELSE Follow(m, w[n - 1])]

Walks(m, w) == \A n \in Nat : n < Len(m) => w[n + 1] = Follow(m, w[n])

Arrived(m, w, n, at, raw, jumped, count) ==
  /\ Walks(m, w) /\ n \in Nat /\ w[n] = Reader(at, raw, jumped, count)
  /\ at \in Nat /\ raw \in Num /\ jumped \in BOOLEAN /\ count \in Nat

LEMMA FollowedAlong ==
  ASSUME NEW m, NEW reader, NEW g, WalkOf(m, reader, g)
  PROVE  \E w : WalkOf(m, reader, w) /\ Followed(m, reader) = w[Len(m)]
BY Zenon DEF Followed, WalkOf

LEMMA FollowedWalk ==
  ASSUME NEW m \in Num, NEW reader \in Nat
  PROVE  \E w : Arrived(m, w, 0, reader, <<>>, FALSE, 1) /\ Followed(m, reader) = w[Len(m)]
<1>1. PICK l, b : l = Len(m) /\ b = Reader(reader, <<>>, FALSE, 1)
  OBVIOUS
<1>2. l \in Nat
  BY <1>1, LenProperties DEF Num
<1> DEFINE Walk(k, p) == p = [n \in 0..k |-> IF n = 0 THEN b ELSE Follow(m, p[n - 1])]
           T == {k \in Nat : \E p : Walk(k, p)}
<1>3. 0 \in T
  <2>1. PICK p : p = [n \in 0..0 |-> b]
    OBVIOUS
  <2>2. Walk(0, p)
    BY <2>1
  <2> QED BY <2>2
<1>4. ASSUME NEW k \in Nat, k \in T PROVE k + 1 \in T
  <2>1. PICK p : Walk(k, p)
    BY <1>4
  <2>2. PICK q : q = [n \in 0..(k + 1) |-> IF n = k + 1 THEN Follow(m, p[k]) ELSE p[n]]
    OBVIOUS
  <2>3. ASSUME NEW n \in 0..(k + 1) PROVE q[n] = IF n = 0 THEN b ELSE Follow(m, q[n - 1])
    <3>1. CASE n = 0
      <4>1. q[0] = p[0] /\ p[0] = b
        BY <2>1, <2>2
      <4> QED BY <3>1, <4>1
    <3>2. CASE n = k + 1
      <4>1. n # 0 /\ n - 1 = k /\ k \in 0..(k + 1) /\ k # k + 1
        BY <3>2
      <4>2. q[k] = p[k] /\ q[n] = Follow(m, p[k])
        BY <2>2, <3>2, <4>1
      <4> QED BY <4>1, <4>2
    <3>3. CASE n # 0 /\ n # k + 1
      <4>1. n \in 0..k /\ n - 1 \in 0..(k + 1) /\ n - 1 # k + 1
        BY <3>3
      <4>2. q[n] = p[n] /\ q[n - 1] = p[n - 1] /\ p[n] = Follow(m, p[n - 1])
        BY <2>1, <2>2, <3>3, <4>1
      <4> QED BY <3>3, <4>2
    <3> QED BY <3>1, <3>2, <3>3
  <2>4. Walk(k + 1, q)
    <3>1. q = [n \in 0..(k + 1) |-> q[n]]
      BY <2>2
    <3> QED BY <2>3, <3>1
  <2> QED BY <2>4
<1> HIDE DEF T
<1>5. Nat \subseteq T
  BY <1>3, <1>4, InductionOnNat
<1>6. PICK g : Walk(l, g)
  BY <1>2, <1>5 DEF T
<1>7. WalkOf(m, reader, g)
  BY <1>1, <1>6 DEF WalkOf, Reader
<1>8. PICK w : WalkOf(m, reader, w) /\ Followed(m, reader) = w[l]
  BY <1>1, <1>7, FollowedAlong
<1>9. w[0] = b /\ \A n \in 1..l : w[n] = Follow(m, w[n - 1])
  <2>1. \A n \in 0..l : w[n] = IF n = 0 THEN b ELSE Follow(m, w[n - 1])
    <3>1. w = [n \in 0..l |-> IF n = 0 THEN b ELSE Follow(m, w[n - 1])]
      BY <1>1, <1>8 DEF WalkOf, Reader
    <3> QED BY <3>1
  <2>2. 0 \in 0..l /\ \A n \in 1..l : n \in 0..l /\ n # 0
    BY <1>2
  <2> QED BY <2>1, <2>2
<1>10. ASSUME NEW n \in Nat, n < l PROVE w[n + 1] = Follow(m, w[n])
  <2>1. n + 1 \in 1..l /\ (n + 1) - 1 = n
    BY <1>2, <1>10
  <2>2. w[n + 1] = Follow(m, w[(n + 1) - 1])
    BY <1>9, <2>1
  <2> QED BY <2>1, <2>2
<1>11. Walks(m, w)
  BY <1>1, <1>10 DEF Walks
<1>12. <<>> \in Num /\ 0 \in Nat /\ 1 \in Nat
  BY EmptySeq DEF Num
<1>13. Arrived(m, w, 0, reader, <<>>, FALSE, 1)
  BY <1>1, <1>9, <1>11, <1>12 DEF Arrived
<1> QED BY <1>1, <1>8, <1>13

LEMMA FollowByte ==
  ASSUME NEW m, NEW at, NEW raw, NEW jumped, NEW count, NEW b \in Nat, b > 0, b < 192, m[at + 1] = b
  PROVE  Follow(m, Reader(at, raw, jumped, count)) =
           Reader(at + 1, Append(raw, b), jumped, IF jumped THEN count ELSE count + 1)
<1>1. b # 0 /\ ~ b >= 192
  OBVIOUS
<1> QED BY <1>1 DEF Follow, Reader

LEMMA FollowEnd ==
  ASSUME NEW m, NEW at, NEW raw, NEW jumped, NEW count, m[at + 1] = 0
  PROVE  Follow(m, Reader(at, raw, jumped, count)) = Reader(at, raw, jumped, count)
BY DEF Follow, Reader

LEMMA PointerBytesOf ==
  ASSUME NEW o \in Nat, NEW a, NEW b, a = (PointerMark + o) \div 256, b = (PointerMark + o) % 256
  PROVE  a \in Nat /\ b \in Nat /\ a >= 192 /\ a # 0 /\ a * 256 + b - PointerMark = o
BY SMT DEF PointerMark

(* A pointer: the walk goes on where it points to.                         *)
PointsTo(m, at, o) ==
  m[at + 1] = (PointerMark + o) \div 256 /\ m[at + 2] = (PointerMark + o) % 256

(* A name of its own, for the provers.                                     *)
Jumped == TRUE

LEMMA FollowPointer ==
  ASSUME NEW m, NEW at, NEW raw, NEW count, NEW f, NEW o \in Nat,
         PointsTo(m, at, o)
  PROVE  Follow(m, Reader(at, raw, f, count)) = Reader(o, raw, Jumped, count)
<1>1. PICK a, b : a = m[at + 1] /\ b = m[at + 2]
  OBVIOUS
<1>2. a >= 192 /\ a # 0 /\ a * 256 + b - PointerMark = o
  <2>1. a = (PointerMark + o) \div 256 /\ b = (PointerMark + o) % 256
    BY <1>1 DEF PointsTo
  <2> QED BY <2>1, PointerBytesOf
<1>3. PICK s : s = Reader(at, raw, f, count)
  OBVIOUS
<1>4. s.at = at
  BY <1>3 DEF Reader
<1>5. Follow(m, s) = [s EXCEPT !.at = a * 256 + b - PointerMark, !.jumped = TRUE]
  BY <1>1, <1>2, <1>4 DEF Follow
<1>6. Follow(m, s) = [s EXCEPT !.at = o, !.jumped = TRUE]
  BY <1>2, <1>5
<1> QED BY <1>3, <1>6 DEF Reader, Jumped

LEMMA WalkPlain ==
  ASSUME NEW m \in Num, NEW w, NEW n, NEW at, NEW raw, NEW jumped, NEW count,
         Arrived(m, w, n, at, raw, jumped, count),
         NEW p \in Plain, SitsAt(m, at, p), n + Len(p) <= Len(m)
  PROVE  Arrived(m, w, n + Len(p), at + Len(p), raw \o p, jumped,
                 IF jumped THEN count ELSE count + Len(p))
<1>0. /\ Walks(m, w) /\ n \in Nat /\ w[n] = Reader(at, raw, jumped, count)
      /\ at \in Nat /\ raw \in Num /\ jumped \in BOOLEAN /\ count \in Nat
  BY DEF Arrived
<1>1. PICK l, k : l = Len(m) /\ k = Len(p)
  OBVIOUS
<1>2. l \in Nat /\ k \in Nat /\ p \in Num
  BY <1>1, LenProperties DEF Plain, Num
<1> DEFINE Come(i) == w[n + i] = Reader(at + i, raw \o SubSeq(p, 1, i), jumped,
                                        IF jumped THEN count ELSE count + i)
           T == {i \in Nat : i <= k => Come(i)}
<1>3. 0 \in T
  <2>1. SubSeq(p, 1, 0) = <<>> /\ raw \o <<>> = raw
    BY <1>0, SubSeqEmpty, ConcatEmptySeq DEF Num
  <2>2. n + 0 = n /\ at + 0 = at /\ count + 0 = count
    BY <1>0
  <2>3. Come(0)
    BY <1>0, <2>1, <2>2
  <2> QED BY <2>3
<1>4. ASSUME NEW i \in Nat, i \in T PROVE i + 1 \in T
  <2> SUFFICES ASSUME i + 1 <= k PROVE Come(i + 1)
    OBVIOUS
  <2>1. Come(i)
    BY <1>2, <1>4
  <2>2. i + 1 \in 1..k
    BY <1>2
  <2>3. PICK b : b = p[i + 1]
    OBVIOUS
  <2>4. b \in Nat /\ b > 0 /\ b < 192 /\ m[(at + i) + 1] = b
    <3>1. m[at + (i + 1)] = p[i + 1]
      BY <1>1, <2>2 DEF SitsAt
    <3>2. b \in Nat
      BY <1>1, <1>2, <2>2, <2>3, ElementOfSeq DEF Num
    <3>3. b > 0 /\ b < 192
      BY <1>1, <2>2, <2>3 DEF Plain
    <3>4. at + (i + 1) = (at + i) + 1
      BY <1>0
    <3> QED BY <2>3, <3>1, <3>2, <3>3, <3>4
  <2>5. PICK c : c = IF jumped THEN count ELSE count + i
    OBVIOUS
  <2>6. PICK u, v : u = SubSeq(p, 1, i) /\ v = raw \o u
    OBVIOUS
  <2>7. w[(n + i) + 1] = Follow(m, w[n + i])
    <3>1. n + i \in Nat /\ n + i < l
      BY <1>0, <1>1, <1>2
    <3> QED BY <1>0, <1>1, <3>1 DEF Walks
  <2>8. w[n + i] = Reader(at + i, v, jumped, c)
    BY <2>1, <2>5, <2>6
  <2>9. Follow(m, Reader(at + i, v, jumped, c)) =
          Reader((at + i) + 1, Append(v, b), jumped, IF jumped THEN c ELSE c + 1)
    BY <2>4, FollowByte
  <2>10. Append(v, b) = raw \o SubSeq(p, 1, i + 1)
    <3>1. u \in Num /\ Len(u) = i /\ \A j \in 1..i : u[j] = p[j]
      <4>1. \A j \in 1..i : p[j] \in Nat
        BY <1>1, <1>2, <2>2, ElementOfSeq DEF Num
      <4>2. u \in Seq(Nat) /\ Len(u) = (IF 1 <= i THEN i - 1 + 1 ELSE 0)
            /\ \A j \in 1..(i - 1 + 1) : u[j] = p[1 + j - 1]
        BY <2>6, <4>1, SubSeqProperties
      <4> QED BY <4>2 DEF Num
    <3>2. PICK x, y, a : x = Append(u, b) /\ a = i + 1 /\ y = SubSeq(p, 1, a)
      OBVIOUS
    <3>3. x \in Num /\ Len(x) = i + 1 /\ x[i + 1] = b /\ \A j \in 1..i : x[j] = p[j]
      <4>1. /\ x \in Seq(Nat) /\ Len(x) = Len(u) + 1 /\ x[Len(u) + 1] = b
            /\ \A j \in 1..Len(u) : x[j] = u[j]
        BY <2>4, <3>1, <3>2, AppendProperties DEF Num
      <4> QED BY <3>1, <4>1 DEF Num
    <3>4. y \in Num /\ Len(y) = i + 1 /\ \A j \in 1..(i + 1) : y[j] = p[j]
      <4>1. \A j \in 1..a : p[j] \in Nat
        <5>1. a \in Nat /\ 1..a \subseteq 1..k
          BY <1>2, <2>2, <3>2
        <5> QED BY <1>1, <1>2, <5>1, ElementOfSeq DEF Num
      <4>2. y \in Seq(Nat) /\ Len(y) = (IF 1 <= a THEN a - 1 + 1 ELSE 0)
            /\ \A j \in 1..(a - 1 + 1) : y[j] = p[1 + j - 1]
        BY <3>2, <4>1, SubSeqProperties
      <4>3. a \in Nat /\ 1 <= a
        BY <3>2
      <4>4. Len(y) = a /\ \A j \in 1..a : y[j] = p[j]
        BY <4>2, <4>3
      <4> QED BY <3>2, <4>2, <4>4 DEF Num
    <3>5. ASSUME NEW j \in 1..(i + 1) PROVE x[j] = y[j]
      <4>1. CASE j = i + 1
        BY <2>3, <3>3, <3>4, <4>1
      <4>2. CASE j # i + 1
        <5>1. j \in 1..i
          BY <4>2
        <5> QED BY <3>3, <3>4, <5>1
      <4> QED BY <4>1, <4>2
    <3>6. x = y
      BY <3>3, <3>4, <3>5, SeqEqual DEF Num
    <3>7. Append(v, b) = raw \o x
      BY <1>0, <2>4, <2>6, <3>1, <3>2, AppendBehind
    <3> QED BY <3>2, <3>6, <3>7
  <2>11. (IF jumped THEN c ELSE c + 1) = (IF jumped THEN count ELSE count + (i + 1))
    BY <1>0, <2>5
  <2>12. (n + i) + 1 = n + (i + 1) /\ (at + i) + 1 = at + (i + 1)
    BY <1>0
  <2> QED BY <2>7, <2>8, <2>9, <2>10, <2>11, <2>12
<1> HIDE DEF T
<1>5. Nat \subseteq T
  BY <1>3, <1>4, InductionOnNat
<1>6. Come(k)
  BY <1>2, <1>5 DEF T
<1>7. SubSeq(p, 1, k) = p
  <2>1. PICK u : u = SubSeq(p, 1, k)
    OBVIOUS
  <2>2. \A j \in 1..k : p[j] \in Nat
    BY <1>1, <1>2, ElementOfSeq DEF Num
  <2>3. u \in Seq(Nat) /\ Len(u) = (IF 1 <= k THEN k - 1 + 1 ELSE 0)
        /\ \A j \in 1..(k - 1 + 1) : u[j] = p[1 + j - 1]
    BY <1>2, <2>1, <2>2, SubSeqProperties
  <2>4. Len(u) = k /\ \A j \in 1..k : u[j] = p[j]
    BY <1>2, <2>3
  <2> QED BY <1>1, <1>2, <2>1, <2>3, <2>4, SeqEqual DEF Num
<1>8. /\ n + k \in Nat /\ at + k \in Nat /\ raw \o p \in Num
      /\ (IF jumped THEN count ELSE count + k) \in Nat
  BY <1>0, <1>2, Put
<1> QED BY <1>0, <1>1, <1>6, <1>7, <1>8 DEF Arrived

LEMMA WalkStops ==
  ASSUME NEW m \in Num, NEW w, NEW n, NEW at, NEW raw, NEW jumped, NEW count,
         Arrived(m, w, n, at, raw, jumped, count), m[at + 1] = 0, n <= Len(m)
  PROVE  w[Len(m)] = Reader(at, raw, jumped, count)
<1>0. Walks(m, w) /\ n \in Nat /\ w[n] = Reader(at, raw, jumped, count)
  BY DEF Arrived
<1>1. PICK l, s : l = Len(m) /\ s = Reader(at, raw, jumped, count)
  OBVIOUS
<1>2. l \in Nat
  BY <1>1, LenProperties DEF Num
<1> DEFINE T == {i \in Nat : n + i <= l => w[n + i] = s}
<1>3. 0 \in T
  <2>1. n + 0 = n
    BY <1>0
  <2> QED BY <1>0, <1>1, <2>1
<1>4. ASSUME NEW i \in Nat, i \in T PROVE i + 1 \in T
  <2> SUFFICES ASSUME n + (i + 1) <= l PROVE w[n + (i + 1)] = s
    OBVIOUS
  <2>1. w[n + i] = s /\ n + i \in Nat /\ n + i < l /\ (n + i) + 1 = n + (i + 1)
    BY <1>0, <1>2, <1>4
  <2>2. w[(n + i) + 1] = Follow(m, s)
    BY <1>0, <1>1, <2>1 DEF Walks
  <2>3. Follow(m, s) = s
    BY <1>1, FollowEnd
  <2> QED BY <2>1, <2>2, <2>3
<1> HIDE DEF T
<1>5. Nat \subseteq T
  BY <1>3, <1>4, InductionOnNat
<1>6. l - n \in Nat /\ n + (l - n) = l /\ n + (l - n) <= l
  BY <1>0, <1>1, <1>2
<1>7. w[n + (l - n)] = s
  BY <1>5, <1>6 DEF T
<1> QED BY <1>1, <1>6, <1>7

(* A name that is written out, and one whose end is pointed to.            *)
NameSits(m, k, p) == SitsAt(m, k, p) /\ SitsAt(m, k + Len(p), << 0 >>)

LEMMA FollowPlain ==
  ASSUME NEW m \in Num, NEW k \in Nat, NEW p \in Plain, NameSits(m, k, p)
  PROVE  Followed(m, k) = Reader(k + Len(p), p, FALSE, 1 + Len(p))
<1>1. PICK w : Arrived(m, w, 0, k, <<>>, FALSE, 1) /\ Followed(m, k) = w[Len(m)]
  BY FollowedWalk
<1>2. PICK l, n : l = Len(m) /\ n = Len(p)
  OBVIOUS
<1>3. l \in Nat /\ n \in Nat /\ p \in Num
  BY <1>2, LenProperties DEF Plain, Num
<1>4. SitsAt(m, k, p) /\ m[(k + n) + 1] = 0 /\ (k + n) + 1 <= l
  <2>1. PICK a : a = k + n /\ a \in Nat
    BY <1>3
  <2>2. SitsAt(m, a, << 0 >>) /\ SitsAt(m, k, p)
    BY <1>2, <2>1 DEF NameSits
  <2>3. m[a + 1] = 0 /\ a + 1 <= Len(m)
    BY <2>1, <2>2, SitsOne
  <2> QED BY <1>2, <2>1, <2>2, <2>3
<1>5. 0 + n <= l /\ n <= l /\ 0 + n = n /\ <<>> \o p = p
  BY <1>3, <1>4, ConcatEmptySeq DEF Num
<1>6. Arrived(m, w, 0 + n, k + n, <<>> \o p, FALSE, IF FALSE THEN 1 ELSE 1 + n)
  BY <1>1, <1>2, <1>4, <1>5, WalkPlain
<1>7. Arrived(m, w, n, k + n, p, FALSE, 1 + n)
  BY <1>5, <1>6
<1>8. w[l] = Reader(k + n, p, FALSE, 1 + n)
  <2>1. PICK a, c, z : a = k + n /\ c = 1 + n /\ z = FALSE
    OBVIOUS
  <2>2. Arrived(m, w, n, a, p, z, c) /\ m[a + 1] = 0 /\ n <= Len(m)
    BY <1>2, <1>4, <1>5, <1>7, <2>1
  <2>3. w[Len(m)] = Reader(a, p, z, c)
    BY <2>2, WalkStops
  <2> QED BY <1>2, <2>1, <2>3
<1> QED BY <1>1, <1>2, <1>8

LEMMA WordSits ==
  ASSUME NEW m, NEW k \in Nat, NEW n \in Nat, SitsAt(m, k, Word16(n))
  PROVE  /\ m[k + 1] = n \div 256 /\ m[k + 2] = n % 256 /\ k + 2 <= Len(m)
         /\ Ntohs(m, k) = n
<1>1. PICK a, b : a = n \div 256 /\ b = n % 256
  OBVIOUS
<1>2. SitsAt(m, k, <<a, b>>)
  BY <1>1 DEF Word16
<1>3. m[k + 1] = a /\ m[k + 2] = b /\ k + 2 <= Len(m)
  BY <1>2, SitsTwo
<1>4. a * 256 + b = n
  BY <1>1, SMT
<1> QED BY <1>1, <1>3, <1>4 DEF Ntohs

WordAt(m, k, n) == m[k + 1] = n \div 256 /\ m[k + 2] = n % 256 /\ k + 2 <= Len(m)

LEMMA WordPlaced ==
  ASSUME NEW m, NEW k \in Nat, NEW n \in Nat, SitsAt(m, k, Word16(n))
  PROVE  WordAt(m, k, n)
<1>1. PICK a, b : a = n \div 256 /\ b = n % 256
  OBVIOUS
<1>2. SitsAt(m, k, <<a, b>>)
  BY <1>1 DEF Word16
<1>3. m[k + 1] = a /\ m[k + 2] = b /\ k + 2 <= Len(m)
  BY <1>2, SitsTwo
<1> QED BY <1>1, <1>3 DEF WordAt

LEMMA WordTyped ==
  ASSUME NEW n \in Nat
  PROVE  Word16(n) \in Num /\ Len(Word16(n)) = 2
<1>1. PICK a, b : a = n \div 256 /\ b = n % 256
  OBVIOUS
<1>2. a \in Nat /\ b \in Nat
  BY <1>1, SMT
<1>3. <<a, b>> \in Seq(Nat) /\ Len(<<a, b>>) = 2
  BY <1>2
<1> QED BY <1>1, <1>3 DEF Word16, Num

LEMMA PointerIsNumber == PointerMark \in Nat
BY DEF PointerMark

PointedSits(m, k, p, o, q) ==
  /\ m \in Num /\ k \in Nat /\ p \in Plain /\ o \in Nat /\ q \in Plain
  /\ SitsAt(m, k, p) /\ SitsAt(m, k + Len(p), Word16(PointerMark + o))
  /\ NameSits(m, o, q) /\ o + Len(q) < k

LEMMA FollowPointed ==
  ASSUME NEW m, NEW k, NEW p, NEW o, NEW q, PointedSits(m, k, p, o, q)
  PROVE  Followed(m, k) = Reader(o + Len(q), p \o q, Jumped, 1 + Len(p))
<1>0. /\ m \in Num /\ k \in Nat /\ p \in Plain /\ o \in Nat /\ q \in Plain
      /\ SitsAt(m, k, p) /\ SitsAt(m, k + Len(p), Word16(PointerMark + o))
      /\ NameSits(m, o, q) /\ o + Len(q) < k
  BY DEF PointedSits
<1> USE <1>0
<1>1. PICK w : Arrived(m, w, 0, k, <<>>, FALSE, 1) /\ Followed(m, k) = w[Len(m)]
  BY FollowedWalk
<1>2. PICK l, n, r, v : l = Len(m) /\ n = Len(p) /\ r = Len(q) /\ v = PointerMark + o
  OBVIOUS
<1>3. l \in Nat /\ n \in Nat /\ r \in Nat /\ p \in Num /\ q \in Num /\ v \in Nat
  <2>1. v \in Nat
    BY <1>2, PointerIsNumber
  <2> QED BY <1>2, <2>1, LenProperties DEF Plain, Num
<1>4. PICK a : a = k + n /\ a \in Nat
  BY <1>3
<1>5. m[a + 1] = v \div 256 /\ m[a + 2] = v % 256 /\ a + 2 <= l
  <2>1. SitsAt(m, a, Word16(v))
    BY <1>2, <1>4
  <2>2. m[a + 1] = v \div 256 /\ m[a + 2] = v % 256 /\ a + 2 <= Len(m)
    <3>1. a \in Nat /\ v \in Nat
      BY <1>3, <1>4
    <3> HIDE <1>0, <1>2
    <3>2. WordAt(m, a, v)
      BY <2>1, <3>1, WordPlaced
    <3> QED BY <3>2 DEF WordAt
  <2> QED BY <1>2, <2>2
<1>6. SitsAt(m, o, q) /\ m[(o + r) + 1] = 0
  <2>1. PICK e : e = o + r /\ e \in Nat
    BY <1>3
  <2>2. SitsAt(m, e, << 0 >>) /\ SitsAt(m, o, q)
    BY <1>2, <2>1 DEF NameSits
  <2>3. m[e + 1] = 0
    BY <2>1, <2>2, SitsOne
  <2> QED BY <2>1, <2>2, <2>3
<1>7. /\ 0 + n <= l /\ 0 + n = n /\ n < l /\ <<>> \o p = p
      /\ n + 1 \in Nat /\ (n + 1) + r <= l /\ (n + 1) + r \in Nat
  <2>1. <<>> \o p = p
    BY <1>3, ConcatEmptySeq DEF Num
  <2>2. o + r < k
    BY <1>2
  <2> QED BY <1>3, <1>4, <1>5, <2>1, <2>2
<1>8. Arrived(m, w, 0 + n, k + n, <<>> \o p, FALSE, IF FALSE THEN 1 ELSE 1 + n)
  BY <1>1, <1>2, <1>7, WalkPlain
<1>9. Arrived(m, w, n, a, p, FALSE, 1 + n)
  BY <1>4, <1>7, <1>8
<1>10. Walks(m, w) /\ w[n] = Reader(a, p, FALSE, 1 + n) /\ 1 + n \in Nat
  BY <1>9 DEF Arrived
<1>11. w[n + 1] = Follow(m, w[n])
  BY <1>2, <1>3, <1>7, <1>10 DEF Walks
<1>12. Follow(m, Reader(a, p, FALSE, 1 + n)) = Reader(o, p, TRUE, 1 + n)
  <2>1. PointsTo(m, a, o)
    BY <1>2, <1>5 DEF PointsTo
  <2>2. PICK c, f : c = 1 + n /\ f = FALSE
    OBVIOUS
  <2>3. Follow(m, Reader(a, p, f, c)) = Reader(o, p, Jumped, c)
    BY <2>1, FollowPointer
  <2> QED BY <2>2, <2>3 DEF Jumped
<1>13. Arrived(m, w, n + 1, o, p, TRUE, 1 + n)
  BY <1>3, <1>7, <1>10, <1>11, <1>12 DEF Arrived
<1>14. Arrived(m, w, (n + 1) + r, o + r, p \o q, TRUE, IF TRUE THEN 1 + n ELSE (1 + n) + r)
  BY <1>2, <1>6, <1>7, <1>13, WalkPlain
<1>15. Arrived(m, w, (n + 1) + r, o + r, p \o q, TRUE, 1 + n)
  BY <1>14
<1>16. w[l] = Reader(o + r, p \o q, TRUE, 1 + n)
  <2>1. PICK e, c, h, u, z :
          e = o + r /\ c = 1 + n /\ h = (n + 1) + r /\ u = p \o q /\ z = TRUE
    OBVIOUS
  <2>2. Arrived(m, w, h, e, u, z, c) /\ m[e + 1] = 0 /\ h <= Len(m)
    BY <1>2, <1>6, <1>7, <1>15, <2>1
  <2>3. w[Len(m)] = Reader(e, u, z, c)
    BY <2>2, WalkStops
  <2> QED BY <1>2, <2>1, <2>3
<1> QED BY <1>1, <1>2, <1>16 DEF Jumped

-----------------------------------------------------------------------------
(* The names of an answer.                                                 *)
LEMMA PutLength == ASSUME NEW s \in Num, NEW t \in Num PROVE Len(s \o t) = Len(s) + Len(t)
BY ConcatProperties DEF Num

(* The question's name is behind the header, and the reader behind it, so  *)
(* a pointer leads back.                                                   *)
HostSits(m) == m \in Num /\ NameSits(m, HeaderLen, Wire(host))
Behind(k) == k \in Nat /\ HeaderLen + Len(Wire(host)) < k

LEMMA DotsOfWire ==
  ASSUME NEW ls \in Name, ls # <<>>
  PROVE  Dots(Wire(ls)) = Dotted(ls)
BY UnpackWire DEF Dots

LEMMA HostSplit ==
  ASSUME host \in Name, NEW r \in 0..Len(host)
  PROVE  /\ SubSeq(host, 1, r) \in Name /\ SubSeq(host, r + 1, Len(host)) \in Name
         /\ host = SubSeq(host, 1, r) \o SubSeq(host, r + 1, Len(host))
         /\ Len(SubSeq(host, r + 1, Len(host))) = Len(host) - r
         /\ Len(SubSeq(host, 1, r)) = r
<1>1. PICK n, a, b : n = Len(host) /\ a = SubSeq(host, 1, r) /\ b = SubSeq(host, r + 1, n)
  OBVIOUS
<1>2. n \in Nat /\ r \in Nat /\ r <= n /\ \A i \in 1..n : host[i] \in Label
  BY <1>1, LenProperties, ElementOfSeq DEF Name
<1>3. Parts(Label, host, 0, r, a)
  <2>1. a = SubSeq(host, 0 + 1, r) /\ 0 \in Nat /\ 0 <= r /\ r <= Len(host) /\ host \in Seq(Label)
    BY <1>1, <1>2 DEF Name
  <2> QED BY <1>2, <2>1, Parted
<1>4. Parts(Label, host, r, n, b)
  <2>1. r <= n /\ n <= Len(host) /\ host \in Seq(Label)
    BY <1>1, <1>2 DEF Name
  <2> QED BY <1>1, <1>2, <2>1, Parted
<1>5. a \in Name /\ Len(a) = r /\ \A i \in 1..r : a[i] = host[i]
  BY <1>2, <1>3 DEF Parts, Name
<1>6. b \in Name /\ Len(b) = n - r /\ \A i \in 1..(n - r) : b[i] = host[r + i]
  BY <1>2, <1>4 DEF Parts, Name
<1>7. PICK c : c = a \o b
  OBVIOUS
<1>8. Joins(Label, a, b, c)
  BY <1>5, <1>6, <1>7, Joined DEF Name
<1>9. /\ c \in Name /\ Len(c) = n /\ \A i \in 1..r : c[i] = host[i]
      /\ \A i \in 1..(n - r) : c[r + i] = host[r + i]
  <2>1. /\ c \in Seq(Label) /\ Len(c) = Len(a) + Len(b) /\ \A i \in 1..Len(a) : c[i] = a[i]
        /\ \A i \in 1..Len(b) : c[Len(a) + i] = b[i]
    BY <1>8 DEF Joins
  <2>2. Len(c) = n
    BY <1>2, <1>5, <1>6, <2>1
  <2>3. \A i \in 1..r : c[i] = host[i]
    BY <1>5, <2>1
  <2>4. \A i \in 1..(n - r) : c[r + i] = host[r + i]
    BY <1>5, <1>6, <2>1
  <2> QED BY <2>1, <2>2, <2>3, <2>4 DEF Name
<1>10. ASSUME NEW i \in 1..n PROVE host[i] = c[i]
  <2>1. CASE i <= r
    <3>1. i \in 1..r
      BY <1>2, <2>1
    <3> QED BY <1>9, <3>1
  <2>2. CASE ~ i <= r
    <3>1. PICK j : j = i - r
      OBVIOUS
    <3>2. j \in 1..(n - r) /\ i = r + j
      BY <1>2, <2>2, <3>1
    <3> QED BY <1>9, <3>2
  <2> QED BY <2>1, <2>2
<1>11. host = c
  BY <1>1, <1>9, <1>10, SeqEqual DEF Name
<1> QED BY <1>1, <1>5, <1>6, <1>7, <1>11

LEMMA FormTyped ==
  ASSUME host \in Name, NEW f \in Forms
  PROVE  /\ f.labels \in Name /\ f.rest \in 0..Len(host)
         /\ Whole(f) \in Name /\ Whole(f) # <<>> /\ Encode(f) \in Num
<1>1. PICK ls, r, a, b : /\ ls = f.labels /\ r = f.rest
                         /\ a = SubSeq(host, 1, r) /\ b = SubSeq(host, r + 1, Len(host))
  OBVIOUS
<1>2. f.labels \in {<<>>} \cup {<<l>> : l \in Labels} /\ r \in 0..Len(host) /\ (ls # <<>> \/ r < Len(host))
  BY <1>1 DEF Forms
<1>3. ls \in Name
  <2>1. <<>> \in Seq(Label)
    BY EmptySeq
  <2>2. \A l \in Labels : <<l>> \in Seq(Label)
    <3>1. Labels \subseteq Label
      BY DnsMessageAssumption
    <3> QED BY <3>1
  <2> QED BY <1>1, <1>2, <2>1, <2>2 DEF Name
<1>4. a \in Name /\ b \in Name /\ Len(b) = Len(host) - r /\ Len(host) \in Nat
  BY <1>1, <1>2, HostSplit, LenProperties DEF Name
<1>5. Whole(f) = ls \o b
  BY <1>1 DEF Whole
<1>6. Whole(f) \in Name
  BY <1>3, <1>4, <1>5, WireApart
<1>7. Whole(f) # <<>>
  <2>1. ls # <<>> \/ b # <<>>
    <3>1. CASE r < Len(host)
      <4>1. Len(b) # 0
        BY <1>2, <1>4, <3>1
      <4> QED BY <4>1, EmptySeq
    <3> QED BY <1>2, <3>1
  <2> QED BY <1>3, <1>4, <1>5, <2>1, ConcatEqualIffEmpty DEF Name
<1>8. Encode(f) \in Num
  <2>1. Wire(ls) \in Num /\ Wire(a) \in Num /\ << 0 >> \in Num
    <3>1. Wire(ls) \in Plain /\ Wire(a) \in Plain
      BY <1>3, <1>4, PlainWire
    <3> QED BY <3>1 DEF Plain, Num
  <2>2. PICK v : v = PointerMark + HeaderLen + Len(Wire(a))
    OBVIOUS
  <2>3. v \in Nat
    <3>1. Len(Wire(a)) \in Nat /\ HeaderLen \in Nat
      BY <2>1, LenProperties DEF Num, HeaderLen
    <3> QED BY <2>2, <3>1, PointerIsNumber
  <2>4. Word16(v) \in Num
    BY <2>3, WordTyped
  <2>5. Encode(f) = Wire(ls) \o (IF r = Len(host) THEN << 0 >> ELSE Word16(v))
    BY <1>1, <2>2 DEF Encode
  <2> QED BY <2>1, <2>4, <2>5, Put
<1> QED BY <1>1, <1>2, <1>3, <1>6, <1>7, <1>8

NameOf(f) == [name |-> Dotted(Whole(f)), count |-> Len(Encode(f))]

LEMMA ReadWritten ==
  ASSUME host \in Name, NEW f \in Forms, f.rest = Len(host), NEW m, HostSits(m),
         NEW k \in Nat, SitsAt(m, k, Encode(f))
  PROVE  ReadName(m, k) = NameOf(f)
<1>1. PICK ls, p, z : ls = f.labels /\ p = Wire(ls) /\ z = << 0 >>
  OBVIOUS
<1>2. m \in Num /\ ls \in Name /\ p \in Plain /\ p \in Num /\ z \in Num /\ Len(z) = 1 /\ Len(p) \in Nat
  <2>1. m \in Num /\ ls \in Name
    BY <1>1, FormTyped DEF HostSits
  <2>2. p \in Plain
    BY <1>1, <2>1, PlainWire
  <2> QED BY <1>1, <2>1, <2>2, LenProperties DEF Plain, Num
<1>3. Whole(f) = ls /\ ls # <<>>
  <2>1. Len(host) \in Nat
    BY LenProperties DEF Name
  <2>2. SubSeq(host, Len(host) + 1, Len(host)) = <<>>
    BY <2>1, SubSeqEmpty
  <2>3. ls \o <<>> = ls
    BY <1>2, ConcatEmptySeq DEF Name
  <2>4. Whole(f) = ls
    BY <1>1, <2>2, <2>3 DEF Whole
  <2> QED BY <2>4, FormTyped
<1>4. Encode(f) = p \o z
  BY <1>1 DEF Encode
<1>5. NameSits(m, k, p)
  <2>1. SitsAt(m, k, p \o z)
    BY <1>4
  <2>2. SitsAt(m, k, p) /\ SitsAt(m, k + Len(p), z)
    BY <1>2, <2>1, SitsApart DEF Num
  <2> QED BY <1>1, <2>2 DEF NameSits
<1>6. Followed(m, k) = Reader(k + Len(p), p, FALSE, 1 + Len(p))
  BY <1>2, <1>5, FollowPlain
<1>7. Len(Encode(f)) = Len(p) + 1
  <2>1. Len(p \o z) = Len(p) + Len(z)
    BY <1>2, PutLength
  <2> QED BY <1>2, <1>4, <2>1
<1>8. ReadName(m, k) = [name |-> Dots(p), count |-> (1 + Len(p)) + 0]
  BY <1>6 DEF ReadName, Reader, PointerBytes
<1>9. (1 + Len(p)) + 0 = Len(p) + 1
  BY <1>2
<1>10. Dots(p) = Dotted(Whole(f))
  BY <1>1, <1>2, <1>3, DotsOfWire
<1> QED BY <1>7, <1>8, <1>9, <1>10 DEF NameOf

LEMMA ReadPointed ==
  ASSUME host \in Name, NEW f \in Forms, f.rest # Len(host), NEW m, HostSits(m),
         NEW k, Behind(k), SitsAt(m, k, Encode(f))
  PROVE  ReadName(m, k) = NameOf(f)
<1>1. PICK ls, r, a, b : /\ ls = f.labels /\ r = f.rest
                         /\ a = SubSeq(host, 1, r) /\ b = SubSeq(host, r + 1, Len(host))
  OBVIOUS
<1>2. PICK p, x, q, h, z : p = Wire(ls) /\ x = Wire(a) /\ q = Wire(b) /\ h = Wire(host) /\ z = << 0 >>
  OBVIOUS
<1>3. ls \in Name /\ a \in Name /\ b \in Name /\ host = a \o b
  BY <1>1, FormTyped, HostSplit
<1>4. p \in Plain /\ x \in Plain /\ q \in Plain /\ h \in Plain
  BY <1>2, <1>3, PlainWire
<1>5. p \in Num /\ x \in Num /\ q \in Num /\ h \in Num /\ z \in Num
  BY <1>2, <1>4 DEF Plain, Num
<1>6. PICK np, nx, nq, o : np = Len(p) /\ nx = Len(x) /\ nq = Len(q) /\ o = HeaderLen + nx
  OBVIOUS
<1>7. np \in Nat /\ nx \in Nat /\ nq \in Nat /\ HeaderLen \in Nat /\ o \in Nat
  BY <1>5, <1>6, LenProperties DEF Num, HeaderLen
<1>8. h = x \o q /\ Len(h) = nx + nq
  <2>1. h = x \o q
    BY <1>2, <1>3, WireApart
  <2> QED BY <1>5, <1>6, <2>1, ConcatProperties DEF Num
<1>9. NameSits(m, o, q)
  <2>1. SitsAt(m, HeaderLen, x \o q) /\ SitsAt(m, HeaderLen + Len(h), << 0 >>) /\ m \in Seq(Nat)
    BY <1>2, <1>8 DEF HostSits, NameSits, Num
  <2>2. SitsAt(m, HeaderLen + Len(x), q)
    BY <1>5, <1>7, <2>1, SitsApart DEF Num
  <2>3. HeaderLen + Len(h) = o + nq
    BY <1>6, <1>7, <1>8
  <2>4. SitsAt(m, o + nq, << 0 >>)
    BY <2>1, <2>3
  <2> QED BY <1>6, <2>2, <2>4 DEF NameSits
<1>10. PICK v : v = Word16(PointerMark + o)
  OBVIOUS
<1>11. v \in Num /\ Len(v) = 2
  <2>1. PointerMark + o \in Nat
    BY <1>7, PointerIsNumber
  <2> QED BY <1>10, <2>1, WordTyped
<1>12. Encode(f) = p \o v
  <2>1. Encode(f) = p \o Word16(PointerMark + HeaderLen + nx)
    BY <1>1, <1>2, <1>6 DEF Encode
  <2>2. PointerMark + HeaderLen + nx = PointerMark + o
    BY <1>6, <1>7, PointerIsNumber
  <2> QED BY <1>10, <2>1, <2>2
<1>13. SitsAt(m, k, p) /\ SitsAt(m, k + Len(p), Word16(PointerMark + o)) /\ k \in Nat /\ m \in Num
  <2>1. SitsAt(m, k, p \o v) /\ k \in Nat /\ m \in Seq(Nat)
    BY <1>12 DEF Behind, HostSits, Num
  <2>2. SitsAt(m, k, p) /\ SitsAt(m, k + Len(p), v)
    BY <1>5, <1>11, <2>1, SitsApart DEF Num
  <2> QED BY <1>10, <2>1, <2>2 DEF Num
<1>14. o + Len(q) < k
  <2>1. HeaderLen + Len(h) < k
    BY <1>2 DEF Behind
  <2> QED BY <1>6, <1>7, <1>8, <1>13, <2>1
<1>15. Followed(m, k) = Reader(o + Len(q), p \o q, Jumped, 1 + Len(p))
  <2>1. PointedSits(m, k, p, o, q)
    BY <1>4, <1>7, <1>9, <1>13, <1>14 DEF PointedSits
  <2> QED BY <2>1, FollowPointed
<1>16. ReadName(m, k) = [name |-> Dots(p \o q), count |-> (1 + np) + 1]
  BY <1>6, <1>15 DEF ReadName, Reader, PointerBytes, Jumped
<1>17. Dots(p \o q) = Dotted(Whole(f))
  <2>1. Whole(f) = ls \o b
    BY <1>1 DEF Whole
  <2>2. p \o q = Wire(Whole(f))
    <3>1. Wire(ls \o b) = Wire(ls) \o Wire(b)
      BY <1>3, WireApart
    <3> QED BY <1>2, <2>1, <3>1
  <2> QED BY <2>2, FormTyped, DotsOfWire
<1>18. Len(Encode(f)) = np + 2
  <2>1. Len(p \o v) = Len(p) + Len(v)
    BY <1>5, <1>11, PutLength
  <2> QED BY <1>6, <1>11, <1>12, <2>1
<1>19. (1 + np) + 1 = np + 2
  BY <1>7
<1> QED BY <1>16, <1>17, <1>18, <1>19 DEF NameOf

LEMMA ReadForm ==
  ASSUME host \in Name, NEW f \in Forms, NEW m, HostSits(m), NEW k, Behind(k), SitsAt(m, k, Encode(f))
  PROVE  ReadName(m, k) = NameOf(f)
BY ReadWritten, ReadPointed DEF Behind

-----------------------------------------------------------------------------
(* One record of an answer.                                                *)
(* The records a server may add, their data, and what they mean.           *)
RecordSet == {r \in [name : Forms, type : {1, 5}, data : HostAddresses \cup Forms] :
                IF r.type = 1 THEN r.data \in HostAddresses ELSE r.data \in Forms}

Data(r) == IF r.type = 1 THEN r.data ELSE Encode(r.data)

Meant(r) == [name |-> Dotted(Whole(r.name)), type |-> r.type,
             rdata |-> IF r.type = 1 THEN r.data ELSE Dotted(Whole(r.data))]

LEMMA RecordTyped ==
  ASSUME host \in Name, NEW r \in RecordSet
  PROVE  Encode(r.name) \in Num /\ Data(r) \in Num /\ Record(r) \in Num
         /\ r.name \in Forms /\ r.type \in Nat
<1>1. r.name \in Forms /\ r.type \in {1, 5}
  BY DEF RecordSet
<1>2. Encode(r.name) \in Num
  BY <1>1, FormTyped
<1>3. Data(r) \in Num
  <2>1. CASE r.type = 1
    <3>1. r.data \in HostAddresses
      BY <2>1 DEF RecordSet
    <3>2. r.data \in Seq(Byte)
      BY <3>1, DnsMessageAssumption
    <3>3. Byte \subseteq Nat
      BY DEF Byte
    <3>4. r.data \in Seq(Nat)
      <4>1. PICK n, u : n = Len(r.data) /\ u = r.data
        OBVIOUS
      <4>2. n \in Nat /\ u \in [1..n -> Byte]
        BY <3>2, <4>1, LenProperties
      <4>3. u \in [1..n -> Nat]
        BY <3>3, <4>2
      <4> QED BY <4>1, <4>2, <4>3
    <3> QED BY <2>1, <3>4 DEF Data, Num
  <2>2. CASE r.type # 1
    <3>1. r.data \in Forms
      BY <2>2 DEF RecordSet
    <3> QED BY <2>2, <3>1, FormTyped DEF Data
  <2> QED BY <2>1, <2>2
<1>4. PICK e, t, c, l, z, d : /\ e = Encode(r.name) /\ t = Word16(r.type) /\ c = Word16(1)
                              /\ l = <<0, 0, 1, 44>> /\ z = Word16(Len(Data(r))) /\ d = Data(r)
  OBVIOUS
<1>5. /\ e \in Num /\ t \in Num /\ c \in Num /\ l \in Num /\ z \in Num /\ d \in Num
  <2>1. Len(Data(r)) \in Nat /\ r.type \in Nat /\ 1 \in Nat
    BY <1>1, <1>3, LenProperties DEF Num
  <2>2. l \in Num
    BY <1>4 DEF Num
  <2> QED BY <1>2, <1>3, <1>4, <2>1, <2>2, WordTyped
<1>6. Record(r) = ((((e \o t) \o c) \o l) \o z) \o d
  BY <1>4 DEF Record, Data
<1>7. Record(r) \in Num
  <2>1. e \o t \in Num
    BY <1>5, Put
  <2>2. (e \o t) \o c \in Num
    BY <1>5, <2>1, Put
  <2>3. ((e \o t) \o c) \o l \in Num
    BY <1>5, <2>2, Put
  <2>4. (((e \o t) \o c) \o l) \o z \in Num
    BY <1>5, <2>3, Put
  <2> QED BY <1>5, <1>6, <2>4, Put
<1> QED BY <1>1, <1>2, <1>3, <1>7

LEMMA Apart ==
  ASSUME NEW m \in Num, NEW k \in Nat, NEW s \in Num, NEW t \in Num, SitsAt(m, k, s \o t)
  PROVE  SitsAt(m, k, s) /\ SitsAt(m, k + Len(s), t)
BY SitsApart DEF Num

LEMMA ReadRecordRight ==
  ASSUME host \in Name, NEW r \in RecordSet, NEW m, HostSits(m), NEW k, Behind(k),
         SitsAt(m, k, Record(r)), NEW found
  PROVE  /\ ReadRecord(m, [at |-> k, found |-> found]) =
              [at |-> k + Len(Record(r)), found |-> Append(found, Meant(r))]
         /\ Behind(k + Len(Record(r)))
<1>1. PICK e, t, c, l, z, d : /\ e = Encode(r.name) /\ t = Word16(r.type) /\ c = Word16(1)
                              /\ l = <<0, 0, 1, 44>> /\ z = Word16(Len(d)) /\ d = Data(r)
  OBVIOUS
<1>2. PICK ne, nd : ne = Len(e) /\ nd = Len(d)
  OBVIOUS
<1>3. m \in Num /\ k \in Nat /\ r.name \in Forms /\ r.type \in Nat
  BY RecordTyped DEF HostSits, Behind
<1>4. /\ e \in Num /\ t \in Num /\ c \in Num /\ l \in Num /\ z \in Num /\ d \in Num
      /\ ne \in Nat /\ nd \in Nat /\ Len(t) = 2 /\ Len(c) = 2 /\ Len(l) = 4 /\ Len(z) = 2
  <2>1. e \in Num /\ d \in Num
    BY <1>1, RecordTyped
  <2>2. ne \in Nat /\ nd \in Nat /\ 1 \in Nat
    BY <1>2, <2>1, LenProperties DEF Num
  <2>3. l \in Num /\ Len(l) = 4
    BY <1>1 DEF Num
  <2>4. t \in Num /\ Len(t) = 2
    BY <1>1, <1>3, WordTyped
  <2>5. c \in Num /\ Len(c) = 2
    BY <1>1, <2>2, WordTyped
  <2>6. z \in Num /\ Len(z) = 2
    BY <1>1, <1>2, <2>2, WordTyped
  <2> QED BY <2>1, <2>2, <2>3, <2>4, <2>5, <2>6
<1>5. PICK p1, p2, p3, p4 : p1 = e \o t /\ p2 = p1 \o c /\ p3 = p2 \o l /\ p4 = p3 \o z
  OBVIOUS
<1>6. p1 \in Num /\ Len(p1) = ne + 2
  <2>1. Len(e \o t) = Len(e) + Len(t)
    BY <1>4, PutLength
  <2> QED BY <1>2, <1>4, <1>5, <2>1, Put
<1>7. p2 \in Num /\ Len(p2) = ne + 4
  <2>1. Len(p1 \o c) = Len(p1) + Len(c)
    BY <1>4, <1>6, PutLength
  <2>2. p2 \in Num
    BY <1>4, <1>5, <1>6, Put
  <2> QED BY <1>4, <1>5, <1>6, <2>1, <2>2
<1>8. p3 \in Num /\ Len(p3) = ne + 8
  <2>1. Len(p2 \o l) = Len(p2) + Len(l)
    BY <1>4, <1>7, PutLength
  <2>2. p3 \in Num
    BY <1>4, <1>5, <1>7, Put
  <2> QED BY <1>4, <1>5, <1>7, <2>1, <2>2
<1>9. p4 \in Num /\ Len(p4) = ne + 10
  <2>1. Len(p3 \o z) = Len(p3) + Len(z)
    BY <1>4, <1>8, PutLength
  <2>2. p4 \in Num
    BY <1>4, <1>5, <1>8, Put
  <2> QED BY <1>4, <1>5, <1>8, <2>1, <2>2
<1>10. Record(r) = p4 \o d /\ Len(Record(r)) = (ne + 10) + nd
  <2>1. Record(r) = p4 \o d
    BY <1>1, <1>5 DEF Record, Data
  <2>2. Len(p4 \o d) = Len(p4) + Len(d)
    BY <1>4, <1>9, PutLength
  <2> QED BY <1>2, <1>9, <2>1, <2>2
<1>11. SitsAt(m, k, p4) /\ SitsAt(m, k + (ne + 10), d)
  <2>1. SitsAt(m, k, p4 \o d)
    BY <1>10
  <2>2. SitsAt(m, k, p4) /\ SitsAt(m, k + Len(p4), d)
    BY <1>3, <1>4, <1>9, <2>1, Apart
  <2> QED BY <1>9, <2>2
<1>12. SitsAt(m, k, p3) /\ SitsAt(m, k + (ne + 8), z)
  BY <1>3, <1>4, <1>5, <1>8, <1>11, Apart
<1>13. SitsAt(m, k, p2)
  BY <1>3, <1>4, <1>5, <1>7, <1>12, Apart
<1>14. SitsAt(m, k, p1)
  BY <1>3, <1>4, <1>5, <1>6, <1>13, Apart
<1>15. SitsAt(m, k, e) /\ SitsAt(m, k + ne, t)
  BY <1>2, <1>3, <1>4, <1>5, <1>14, Apart
<1>16. PICK resource, at : resource = k + ne /\ at = resource + ResourceLen
  OBVIOUS
<1>17. resource \in Nat /\ resource + 8 = k + (ne + 8) /\ at = k + (ne + 10) /\ at \in Nat
  BY <1>3, <1>4, <1>16 DEF ResourceLen
<1>18. ReadName(m, k) = NameOf(r.name)
  BY <1>1, <1>3, <1>15, ReadForm
<1>19. Ntohs(m, resource) = r.type
  <2>1. SitsAt(m, resource, Word16(r.type))
    BY <1>1, <1>15, <1>16
  <2> QED BY <1>3, <1>17, <2>1, WordSits
<1>20. Ntohs(m, resource + 8) = nd
  <2>1. PICK b : b = resource + 8 /\ b \in Nat
    BY <1>17
  <2>2. SitsAt(m, b, Word16(nd))
    BY <1>1, <1>2, <1>12, <1>17, <2>1
  <2>3. Ntohs(m, b) = nd
    BY <1>4, <2>1, <2>2, WordSits
  <2> QED BY <2>1, <2>3
<1>21. Behind(at) /\ Behind(k + Len(Record(r)))
  <2>1. Len(Wire(host)) \in Nat
    <3>1. Wire(host) \in Plain
      BY PlainWire
    <3> QED BY <3>1, LenProperties DEF Plain, Num
  <2> QED BY <1>3, <1>4, <1>10, <1>17, <2>1 DEF Behind, HeaderLen
<1>22. at + nd = k + Len(Record(r))
  BY <1>3, <1>4, <1>10, <1>17
<1>23. PICK s : s = [at |-> k, found |-> found]
  OBVIOUS
<1>24. /\ s.at = k /\ s.found = found
       /\ ReadName(m, s.at).name = Dotted(Whole(r.name)) /\ ReadName(m, s.at).count = ne
  BY <1>1, <1>2, <1>18, <1>23 DEF NameOf
<1>25. CASE r.type = 1
  <2>1. SubSeq(m, at + 1, at + nd) = d
    <3>1. SitsAt(m, at, d) /\ m \in Seq(Nat) /\ d \in Seq(Nat)
      BY <1>3, <1>4, <1>11, <1>17 DEF Num
    <3>2. SubSeq(m, at + 1, at + Len(d)) = d
      BY <1>17, <3>1, SitsSub
    <3> QED BY <1>2, <3>2
  <2>2. ReadRecord(m, s) =
          [at |-> at + nd,
           found |-> Append(found, [name |-> Dotted(Whole(r.name)), type |-> r.type, rdata |-> d])]
    BY <1>16, <1>19, <1>20, <1>24, <1>25, <2>1 DEF ReadRecord, IsAddress
  <2>3. Meant(r) = [name |-> Dotted(Whole(r.name)), type |-> r.type, rdata |-> d]
    BY <1>1, <1>25 DEF Meant, Data
  <2> QED BY <1>21, <1>22, <1>23, <2>2, <2>3
<1>26. CASE r.type # 1
  <2>1. r.data \in Forms /\ d = Encode(r.data)
    BY <1>1, <1>26 DEF RecordSet, Data
  <2>2. SitsAt(m, at, Encode(r.data))
    BY <1>11, <1>17, <2>1
  <2>3. ReadName(m, at) = NameOf(r.data)
    BY <1>21, <2>1, <2>2, ReadForm
  <2>4. ReadName(m, at).name = Dotted(Whole(r.data)) /\ ReadName(m, at).count = nd
    BY <1>2, <2>1, <2>3 DEF NameOf
  <2>5. ReadRecord(m, s) =
          [at |-> at + nd,
           found |-> Append(found, [name |-> Dotted(Whole(r.name)), type |-> r.type,
                                    rdata |-> Dotted(Whole(r.data))])]
    BY <1>16, <1>19, <1>24, <1>26, <2>4 DEF ReadRecord, IsAddress
  <2>6. Meant(r) = [name |-> Dotted(Whole(r.name)), type |-> r.type,
                    rdata |-> Dotted(Whole(r.data))]
    BY <1>26 DEF Meant
  <2> QED BY <1>21, <1>22, <1>23, <2>5, <2>6
<1> QED BY <1>25, <1>26

-----------------------------------------------------------------------------
(* All records of an answer, one after the other.                          *)
RecordWalkOf(m, reader, count, w) ==
  w = [n \in 0..count |->
         IF n = 0 THEN [at |-> reader, found |-> <<>>] ELSE ReadRecord(m, w[n - 1])]

RecordWalks(m, reader, count, w) ==
  /\ w[0] = [at |-> reader, found |-> <<>>]
  /\ \A n \in Nat : n < count => w[n + 1] = ReadRecord(m, w[n])

LEMMA ReadAlong ==
  ASSUME NEW m, NEW reader, NEW count, NEW g, RecordWalkOf(m, reader, count, g)
  PROVE  \E w : RecordWalkOf(m, reader, count, w) /\ ReadRecords(m, reader, count) = w[count].found
BY Zenon DEF ReadRecords, RecordWalkOf

LEMMA ReadWalk ==
  ASSUME NEW m, NEW reader, NEW count \in Nat
  PROVE  \E w : RecordWalks(m, reader, count, w) /\ ReadRecords(m, reader, count) = w[count].found
<1>1. PICK b : b = [at |-> reader, found |-> <<>>]
  OBVIOUS
<1> DEFINE Walk(k, p) == p = [n \in 0..k |-> IF n = 0 THEN b ELSE ReadRecord(m, p[n - 1])]
           T == {k \in Nat : \E p : Walk(k, p)}
<1>2. 0 \in T
  <2>1. PICK p : p = [n \in 0..0 |-> b]
    OBVIOUS
  <2>2. Walk(0, p)
    BY <2>1
  <2> QED BY <2>2
<1>3. ASSUME NEW k \in Nat, k \in T PROVE k + 1 \in T
  <2>1. PICK p : Walk(k, p)
    BY <1>3
  <2>2. PICK q : q = [n \in 0..(k + 1) |-> IF n = k + 1 THEN ReadRecord(m, p[k]) ELSE p[n]]
    OBVIOUS
  <2>3. ASSUME NEW n \in 0..(k + 1) PROVE q[n] = IF n = 0 THEN b ELSE ReadRecord(m, q[n - 1])
    <3>1. CASE n = 0
      <4>1. q[0] = p[0] /\ p[0] = b
        BY <2>1, <2>2
      <4> QED BY <3>1, <4>1
    <3>2. CASE n = k + 1
      <4>1. n # 0 /\ n - 1 = k /\ k \in 0..(k + 1) /\ k # k + 1
        BY <3>2
      <4>2. q[k] = p[k] /\ q[n] = ReadRecord(m, p[k])
        BY <2>2, <3>2, <4>1
      <4> QED BY <4>1, <4>2
    <3>3. CASE n # 0 /\ n # k + 1
      <4>1. n \in 0..k /\ n - 1 \in 0..(k + 1) /\ n - 1 # k + 1
        BY <3>3
      <4>2. q[n] = p[n] /\ q[n - 1] = p[n - 1] /\ p[n] = ReadRecord(m, p[n - 1])
        BY <2>1, <2>2, <3>3, <4>1
      <4> QED BY <3>3, <4>2
    <3> QED BY <3>1, <3>2, <3>3
  <2>4. Walk(k + 1, q)
    <3>1. q = [n \in 0..(k + 1) |-> q[n]]
      BY <2>2
    <3> QED BY <2>3, <3>1
  <2> QED BY <2>4
<1> HIDE DEF T
<1>4. Nat \subseteq T
  BY <1>2, <1>3, InductionOnNat
<1>5. PICK g : Walk(count, g)
  BY <1>4 DEF T
<1>6. RecordWalkOf(m, reader, count, g)
  BY <1>1, <1>5 DEF RecordWalkOf
<1>7. PICK w : RecordWalkOf(m, reader, count, w) /\ ReadRecords(m, reader, count) = w[count].found
  BY <1>6, ReadAlong
<1>8. w[0] = b /\ \A n \in 1..count : w[n] = ReadRecord(m, w[n - 1])
  <2>1. \A n \in 0..count : w[n] = IF n = 0 THEN b ELSE ReadRecord(m, w[n - 1])
    <3>1. w = [n \in 0..count |-> IF n = 0 THEN b ELSE ReadRecord(m, w[n - 1])]
      BY <1>1, <1>7 DEF RecordWalkOf
    <3> QED BY <3>1
  <2>2. 0 \in 0..count /\ \A n \in 1..count : n \in 0..count /\ n # 0
    OBVIOUS
  <2> QED BY <2>1, <2>2
<1>9. ASSUME NEW n \in Nat, n < count PROVE w[n + 1] = ReadRecord(m, w[n])
  <2>1. n + 1 \in 1..count /\ (n + 1) - 1 = n
    BY <1>9
  <2>2. w[n + 1] = ReadRecord(m, w[(n + 1) - 1])
    BY <1>8, <2>1
  <2> QED BY <2>1, <2>2
<1>10. RecordWalks(m, reader, count, w)
  BY <1>1, <1>8, <1>9 DEF RecordWalks
<1> QED BY <1>7, <1>10

(* The records in the answer, and what they mean, for a list of them.      *)
Lists == Seq(RecordSet)
Each(list) == [i \in DOMAIN list |-> Record(list[i])]
Flat(list) == FlattenSeq(Each(list))
All(list) == [i \in DOMAIN list |-> Meant(list[i])]

LEMMA EachTyped ==
  ASSUME host \in Name, NEW list \in Lists
  PROVE  /\ Each(list) \in Seq(Num) /\ Len(Each(list)) = Len(list)
         /\ \A i \in 1..Len(list) : Each(list)[i] = Record(list[i])
<1>1. PICK n, u : n = Len(list) /\ u = Each(list)
  OBVIOUS
<1>2. n \in Nat /\ DOMAIN list = 1..n /\ \A i \in 1..n : list[i] \in RecordSet
  BY <1>1, LenProperties, ElementOfSeq DEF Lists
<1>3. \A i \in 1..n : Record(list[i]) \in Num
  BY <1>2, RecordTyped
<1>4. u = [i \in 1..n |-> Record(list[i])]
  BY <1>1, <1>2 DEF Each
<1>5. u \in [1..n -> Num]
  BY <1>3, <1>4
<1>6. u \in Seq(Num) /\ Len(u) = n
  BY <1>2, <1>5
<1> QED BY <1>1, <1>4, <1>6

LEMMA EachMore ==
  ASSUME host \in Name, NEW list \in Lists, NEW r \in RecordSet
  PROVE  /\ Flat(Append(list, r)) = Flat(list) \o Record(r) /\ Flat(list) \in Num
         /\ All(Append(list, r)) = Append(All(list), Meant(r))
<1>1. PICK n, more : n = Len(list) /\ more = Append(list, r)
  OBVIOUS
<1>2. /\ n \in Nat /\ more \in Lists /\ Len(more) = n + 1 /\ more[n + 1] = r
      /\ DOMAIN more = 1..(n + 1) /\ DOMAIN list = 1..n
      /\ \A i \in 1..n : more[i] = list[i]
  <2>1. /\ n \in Nat /\ more \in Lists /\ Len(more) = n + 1 /\ more[n + 1] = r
        /\ \A i \in 1..n : more[i] = list[i]
    BY <1>1, AppendProperties, LenProperties DEF Lists
  <2> QED BY <1>1, <2>1, LenProperties DEF Lists
<1>3. Record(r) \in Num
  BY RecordTyped
<1>4. PICK a, b : a = Each(more) /\ b = Append(Each(list), Record(r))
  OBVIOUS
<1>5. a \in Seq(Num) /\ Len(a) = n + 1 /\ \A i \in 1..(n + 1) : a[i] = Record(more[i])
  BY <1>2, <1>4, EachTyped
<1>6. /\ b \in Seq(Num) /\ Len(b) = n + 1 /\ b[n + 1] = Record(r)
      /\ \A i \in 1..n : b[i] = Record(list[i])
  <2>1. Each(list) \in Seq(Num) /\ Len(Each(list)) = n /\ \A i \in 1..n : Each(list)[i] = Record(list[i])
    BY <1>1, EachTyped
  <2> QED BY <1>3, <1>4, <2>1, AppendProperties
<1>7. ASSUME NEW i \in 1..(n + 1) PROVE a[i] = b[i]
  <2>1. CASE i = n + 1
    BY <1>2, <1>5, <1>6, <2>1
  <2>2. CASE i # n + 1
    <3>1. i \in 1..n
      BY <1>2, <2>2
    <3> QED BY <1>2, <1>5, <1>6, <3>1
  <2> QED BY <2>1, <2>2
<1>8. a = b
  BY <1>5, <1>6, <1>7, SeqEqual
<1>9. Flat(more) = Flat(list) \o Record(r) /\ Flat(list) \in Num
  <2>1. PICK c : c = Each(list)
    OBVIOUS
  <2>2. c \in Seq(Seq(Nat)) /\ Record(r) \in Seq(Nat)
    BY <1>3, <2>1, EachTyped DEF Num
  <2>3. FlattenSeq(Append(c, Record(r))) = FlattenSeq(c) \o Record(r) /\ FlattenSeq(c) \in Seq(Nat)
    BY <2>2, FlattenAppend
  <2> QED BY <1>4, <1>8, <2>1, <2>3 DEF Flat, Num
<1>10. All(more) = Append(All(list), Meant(r))
  <2>1. PICK S : S = {Meant(x) : x \in RecordSet}
    OBVIOUS
  <2>2. PICK f, g, h : f = All(list) /\ g = All(more) /\ h = Append(f, Meant(r))
    OBVIOUS
  <2>3. /\ f = [i \in 1..n |-> Meant(list[i])]
        /\ g = [i \in 1..(n + 1) |-> Meant(more[i])]
    BY <1>2, <2>2 DEF All
  <2>4. /\ \A i \in 1..n : Meant(list[i]) \in S
        /\ \A i \in 1..(n + 1) : Meant(more[i]) \in S
        /\ Meant(r) \in S
    <3>1. \A i \in 1..n : list[i] \in RecordSet
      BY <1>1, ElementOfSeq DEF Lists
    <3>2. \A i \in 1..(n + 1) : more[i] \in RecordSet
      BY <1>2, ElementOfSeq DEF Lists
    <3> QED BY <2>1, <3>1, <3>2
  <2>5. f \in [1..n -> S] /\ g \in [1..(n + 1) -> S] /\ n + 1 \in Nat
    BY <1>2, <2>3, <2>4
  <2>6. f \in Seq(S) /\ Len(f) = n /\ g \in Seq(S) /\ Len(g) = n + 1
    BY <1>2, <2>5
  <2>7. /\ h \in Seq(S) /\ Len(h) = n + 1 /\ h[n + 1] = Meant(r)
        /\ \A i \in 1..n : h[i] = f[i]
    BY <2>2, <2>4, <2>6, AppendProperties
  <2>8. ASSUME NEW i \in 1..(n + 1) PROVE g[i] = h[i]
    <3>1. CASE i = n + 1
      BY <1>2, <2>3, <2>7, <3>1
    <3>2. CASE i # n + 1
      <4>1. i \in 1..n
        BY <1>2, <3>2
      <4> QED BY <1>2, <2>3, <2>7, <4>1
    <3> QED BY <3>1, <3>2
  <2>9. g = h
    BY <2>6, <2>7, <2>8, SeqEqual
  <2> QED BY <2>2, <2>9
<1> QED BY <1>1, <1>9, <1>10

LEMMA EachNothing == Flat(<<>>) = <<>> /\ All(<<>>) = <<>>
<1>1. Each(<<>>) = <<>> /\ All(<<>>) = <<>>
  BY DEF Each, All
<1> QED BY <1>1, FlattenEmpty DEF Flat

(* After the first records the reader is at the next one.                  *)
LEMMA WalkRecords ==
  ASSUME host \in Name, NEW m, HostSits(m), NEW k, Behind(k), NEW count \in Nat,
         NEW w, RecordWalks(m, k, count, w)
  PROVE  \A list \in Lists :
           SitsAt(m, k, Flat(list)) /\ Len(list) <= count =>
             w[Len(list)] = [at |-> k + Len(Flat(list)), found |-> All(list)]
<1>1. PICK S : S = RecordSet
  OBVIOUS
<1>2. k \in Nat /\ m \in Num
  BY DEF Behind, HostSits
<1> DEFINE There(list) ==
             /\ w[Len(list)] = [at |-> k + Len(Flat(list)), found |-> All(list)]
             /\ Behind(k + Len(Flat(list)))
           T == {list \in Lists : SitsAt(m, k, Flat(list)) /\ Len(list) <= count => There(list)}
<1>3. <<>> \in T
  <2>1. <<>> \in Lists /\ Len(<<>>) = 0 /\ k + 0 = k
    BY <1>2, EmptySeq DEF Lists
  <2>2. w[0] = [at |-> k, found |-> <<>>]
    BY DEF RecordWalks
  <2>3. There(<<>>)
    BY <2>1, <2>2, EachNothing
  <2> QED BY <2>1, <2>3
<1>4. ASSUME NEW list \in Lists, NEW r \in RecordSet, list \in T PROVE Append(list, r) \in T
  <2>1. PICK more, n, f, x : /\ more = Append(list, r) /\ n = Len(list)
                             /\ f = Flat(list) /\ x = Record(r)
    OBVIOUS
  <2>2. more \in Lists /\ Len(more) = n + 1 /\ n \in Nat
    BY <2>1, AppendProperties, LenProperties DEF Lists
  <2>3. Flat(more) = f \o x /\ f \in Num /\ x \in Num /\ All(more) = Append(All(list), Meant(r))
    BY <2>1, EachMore, RecordTyped
  <2>4. ASSUME SitsAt(m, k, Flat(more)), Len(more) <= count PROVE There(more)
    <3>1. SitsAt(m, k, f \o x)
      BY <2>3, <2>4
    <3>2. SitsAt(m, k, f) /\ SitsAt(m, k + Len(f), x)
      BY <1>2, <2>3, <3>1, Apart
    <3>3. n < count /\ n <= count
      BY <2>2, <2>4
    <3>4. There(list)
      BY <1>4, <2>1, <3>2, <3>3
    <3>5. PICK at : at = k + Len(f)
      OBVIOUS
    <3>6. w[n] = [at |-> at, found |-> All(list)] /\ Behind(at)
      BY <2>1, <3>4, <3>5
    <3>7. w[n + 1] = ReadRecord(m, w[n])
      BY <2>2, <3>3 DEF RecordWalks
    <3>8. /\ ReadRecord(m, [at |-> at, found |-> All(list)]) =
               [at |-> at + Len(x), found |-> Append(All(list), Meant(r))]
          /\ Behind(at + Len(x))
      BY <2>1, <3>2, <3>5, <3>6, ReadRecordRight
    <3>9. at + Len(x) = k + Len(Flat(more))
      <4>1. Len(f \o x) = Len(f) + Len(x) /\ Len(f) \in Nat /\ Len(x) \in Nat
        BY <2>3, PutLength, LenProperties DEF Num
      <4> QED BY <1>2, <2>3, <3>5, <4>1
    <3> QED BY <2>2, <2>3, <3>6, <3>7, <3>8, <3>9
  <2> QED BY <2>1, <2>2, <2>4
<1> HIDE DEF T
<1>5. Lists \subseteq T
  <2>1. <<>> \in T /\ \A s \in Seq(S) : \A e \in S : s \in T => Append(s, e) \in T
    BY <1>1, <1>3, <1>4 DEF Lists
  <2>2. Seq(S) \subseteq T
    BY <2>1, SeqInduction
  <2> QED BY <1>1, <2>2 DEF Lists
<1> QED BY <1>5 DEF T

-----------------------------------------------------------------------------
(* The answer: its header, the question again, and the records.            *)
Start == HeaderLen + Len(Wire(host)) + 1 + QuestionLen

LEMMA AnswerLaid ==
  ASSUME host \in Name, NEW list \in Lists, NEW m, m = Answer(list)
  PROVE  /\ HostSits(m) /\ Behind(Start) /\ Ntohs(m, 6) = Len(list)
         /\ SitsAt(m, Start, Flat(list))
<1>1. PICK i, q, c, e, h, z, t, d, f :
        /\ i = <<1, 2, 129, 128>> /\ q = Word16(1) /\ c = Word16(Len(list))
        /\ e = <<0, 0, 0, 0>> /\ h = Wire(host) /\ z = << 0 >>
        /\ t = Word16(1) /\ d = Word16(1) /\ f = Flat(list)
  OBVIOUS
<1>2. PICK nh : nh = Len(h)
  OBVIOUS
<1>3. /\ i \in Num /\ Len(i) = 4 /\ q \in Num /\ Len(q) = 2 /\ c \in Num /\ Len(c) = 2
      /\ e \in Num /\ Len(e) = 4 /\ z \in Num /\ Len(z) = 1
      /\ t \in Num /\ Len(t) = 2 /\ d \in Num /\ Len(d) = 2
  <2>1. i \in Num /\ Len(i) = 4 /\ e \in Num /\ Len(e) = 4 /\ z \in Num /\ Len(z) = 1
    BY <1>1 DEF Num
  <2>2. q \in Num /\ Len(q) = 2 /\ t \in Num /\ Len(t) = 2 /\ d \in Num /\ Len(d) = 2
    <3>1. 1 \in Nat
      OBVIOUS
    <3> QED BY <1>1, <3>1, WordTyped
  <2>3. c \in Num /\ Len(c) = 2
    <3>1. Len(list) \in Nat
      BY LenProperties DEF Lists
    <3> QED BY <1>1, <3>1, WordTyped
  <2> QED BY <2>1, <2>2, <2>3
<1>4. h \in Num /\ nh \in Nat /\ f \in Num
  <2>1. h \in Num
    <3>1. h \in Plain
      BY <1>1, PlainWire
    <3> QED BY <3>1 DEF Plain
  <2>2. f \in Num
    <3>1. Each(list) \in Seq(Seq(Nat)) /\ <<>> \in Seq(Nat)
      BY EachTyped, EmptySeq DEF Num
    <3>2. FlattenSeq(Each(list)) \in Seq(Nat)
      BY <3>1, FlattenAppend
    <3> QED BY <1>1, <3>2 DEF Flat, Num
  <2> QED BY <1>2, <2>1, <2>2, LenProperties DEF Num
<1>5. PICK p1, p2, p3, p4, p5, p6, p7 :
        /\ p1 = i \o q /\ p2 = p1 \o c /\ p3 = p2 \o e /\ p4 = p3 \o h
        /\ p5 = p4 \o z /\ p6 = p5 \o t /\ p7 = p6 \o d
  OBVIOUS
<1>6. p1 \in Num /\ Len(p1) = 6
  <2>1. Len(i \o q) = Len(i) + Len(q) /\ i \o q \in Num
    BY <1>3, PutLength, Put
  <2> QED BY <1>3, <1>5, <2>1
<1>7. p2 \in Num /\ Len(p2) = 8
  <2>1. Len(p1 \o c) = Len(p1) + Len(c) /\ p1 \o c \in Num
    BY <1>3, <1>6, PutLength, Put
  <2> QED BY <1>3, <1>5, <1>6, <2>1
<1>8. p3 \in Num /\ Len(p3) = HeaderLen
  <2>1. Len(p2 \o e) = Len(p2) + Len(e) /\ p2 \o e \in Num
    BY <1>3, <1>7, PutLength, Put
  <2> QED BY <1>3, <1>5, <1>7, <2>1 DEF HeaderLen
<1>9. p4 \in Num /\ Len(p4) = HeaderLen + nh
  <2>1. Len(p3 \o h) = Len(p3) + Len(h) /\ p3 \o h \in Num
    BY <1>4, <1>8, PutLength, Put
  <2> QED BY <1>2, <1>5, <1>8, <2>1
<1>10. HeaderLen \in Nat /\ HeaderLen + nh \in Nat
  BY <1>4 DEF HeaderLen
<1>11. p5 \in Num /\ Len(p5) = HeaderLen + nh + 1
  <2>1. Len(p4 \o z) = Len(p4) + Len(z) /\ p4 \o z \in Num
    BY <1>3, <1>9, PutLength, Put
  <2> QED BY <1>3, <1>5, <1>9, <2>1
<1>12. p6 \in Num /\ Len(p6) = HeaderLen + nh + 1 + 2
  <2>1. Len(p5 \o t) = Len(p5) + Len(t) /\ p5 \o t \in Num
    BY <1>3, <1>11, PutLength, Put
  <2> QED BY <1>3, <1>5, <1>11, <2>1
<1>13. p7 \in Num /\ Len(p7) = HeaderLen + nh + 1 + 4
  <2>1. Len(p6 \o d) = Len(p6) + Len(d) /\ p6 \o d \in Num
    BY <1>3, <1>12, PutLength, Put
  <2> QED BY <1>3, <1>5, <1>10, <1>12, <2>1
<1>14. m = p7 \o f
  BY <1>1, <1>5 DEF Answer, Flat, Each
<1>15. m \in Num
  BY <1>4, <1>13, <1>14, Put
<1>16. SitsAt(m, 0, p7 \o f) /\ 0 \in Nat
  BY <1>14, <1>15, SitsAtStart DEF Num
<1>17. SitsAt(m, 0, p7) /\ SitsAt(m, 0 + Len(p7), f)
  BY <1>4, <1>13, <1>15, <1>16, Apart
<1>18. SitsAt(m, 0, p6 \o d) /\ SitsAt(m, 0, p5 \o t)
  <2>1. SitsAt(m, 0, p6 \o d)
    BY <1>5, <1>17
  <2>2. SitsAt(m, 0, p6)
    BY <1>3, <1>12, <1>15, <1>16, <2>1, Apart
  <2> QED BY <1>5, <2>1, <2>2
<1>19. SitsAt(m, 0, p4) /\ SitsAt(m, 0 + Len(p4), z)
  <2>1. SitsAt(m, 0, p5)
    BY <1>3, <1>11, <1>15, <1>16, <1>18, Apart
  <2>2. SitsAt(m, 0, p4 \o z)
    BY <1>5, <2>1
  <2> QED BY <1>3, <1>9, <1>15, <1>16, <2>2, Apart
<1>20. SitsAt(m, 0, p3) /\ SitsAt(m, 0 + Len(p3), h)
  <2>1. SitsAt(m, 0, p3 \o h)
    BY <1>5, <1>19
  <2> QED BY <1>4, <1>8, <1>15, <1>16, <2>1, Apart
<1>21. SitsAt(m, 0 + Len(p1), c)
  <2>1. SitsAt(m, 0, p2 \o e)
    BY <1>5, <1>20
  <2>2. SitsAt(m, 0, p2)
    BY <1>3, <1>7, <1>15, <1>16, <2>1, Apart
  <2>3. SitsAt(m, 0, p1 \o c)
    BY <1>5, <2>2
  <2> QED BY <1>3, <1>6, <1>15, <1>16, <2>3, Apart
<1>22. HostSits(m)
  <2>1. 0 + Len(p3) = HeaderLen /\ 0 + Len(p4) = HeaderLen + nh
    BY <1>8, <1>9, <1>10
  <2>2. SitsAt(m, HeaderLen, h) /\ SitsAt(m, HeaderLen + nh, z)
    BY <1>19, <1>20, <2>1
  <2> QED BY <1>1, <1>2, <1>15, <2>2 DEF HostSits, NameSits
<1>23. Start = HeaderLen + nh + 1 + 4 /\ Behind(Start)
  <2>1. Start = HeaderLen + nh + 1 + 4
    BY <1>1, <1>2 DEF Start, QuestionLen
  <2> QED BY <1>1, <1>2, <1>4, <1>10, <2>1 DEF Behind
<1>24. SitsAt(m, Start, Flat(list))
  <2>1. 0 + Len(p7) = Start
    BY <1>4, <1>10, <1>13, <1>23
  <2> QED BY <1>1, <1>17, <2>1
<1>25. Ntohs(m, 6) = Len(list)
  <2>1. 0 + Len(p1) = 6 /\ 6 \in Nat /\ Len(list) \in Nat
    BY <1>6, LenProperties DEF Lists
  <2>2. SitsAt(m, 6, Word16(Len(list)))
    BY <1>1, <1>21, <2>1
  <2> QED BY <2>1, <2>2, WordSits
<1> QED BY <1>22, <1>23, <1>24, <1>25

LEMMA MinOfTwo ==
  ASSUME NEW a \in Nat, NEW b \in Nat
  PROVE  Min({a, b}) \in Nat /\ Min({a, b}) <= a /\ Min({a, b}) <= b
<1>1. PICK S : S = {a, b}
  OBVIOUS
<1>2. PICK x \in S : \A y \in S : x <= y
  <2>1. CASE a <= b
    <3>1. a \in S /\ \A y \in S : a <= y
      BY <1>1, <2>1
    <3> QED BY <3>1
  <2>2. CASE ~ a <= b
    <3>1. b \in S /\ \A y \in S : b <= y
      BY <1>1, <2>2
    <3> QED BY <3>1
  <2> QED BY <2>1, <2>2
<1>3. Min(S) \in S /\ \A y \in S : Min(S) <= y
  BY <1>2 DEF Min
<1> QED BY <1>1, <1>3

(* The first MaxAddresses records are read as they are meant.              *)
LEMMA AllRead ==
  ASSUME host \in Name, NEW list \in Lists, NEW m, m = Answer(list),
         NEW n, n = Min({MaxAddresses, Len(list)})
  PROVE  /\ ReadRecvAnswer(m, Start) = All(SubSeq(list, 1, n))
         /\ n \in Nat /\ n <= Len(list) /\ SubSeq(list, 1, n) \in Lists
         /\ Len(SubSeq(list, 1, n)) = n /\ \A i \in 1..n : SubSeq(list, 1, n)[i] = list[i]
<1>1. PICK l, a, b : l = Len(list) /\ a = SubSeq(list, 1, n) /\ b = SubSeq(list, n + 1, l)
  OBVIOUS
<1>2. l \in Nat /\ n \in Nat /\ n <= l
  <2>1. l \in Nat /\ MaxAddresses \in Nat
    BY <1>1, LenProperties, DnsMessageAssumption DEF Lists
  <2> QED BY <1>1, <2>1, MinOfTwo
<1>3. Parts(RecordSet, list, 0, n, a)
  <2>1. a = SubSeq(list, 0 + 1, n) /\ 0 \in Nat /\ 0 <= n /\ n <= Len(list) /\ list \in Seq(RecordSet)
    BY <1>1, <1>2 DEF Lists
  <2> QED BY <1>2, <2>1, Parted
<1>4. Parts(RecordSet, list, n, l, b)
  <2>1. n <= l /\ l <= Len(list) /\ list \in Seq(RecordSet)
    BY <1>1, <1>2 DEF Lists
  <2> QED BY <1>1, <1>2, <2>1, Parted
<1>5. a \in Lists /\ Len(a) = n /\ \A i \in 1..n : a[i] = list[i]
  <2>1. a \in Seq(RecordSet) /\ Len(a) = n - 0 /\ \A i \in 1..(n - 0) : a[i] = list[0 + i]
    BY <1>3 DEF Parts
  <2>2. n - 0 = n /\ \A i \in 1..n : 0 + i = i
    BY <1>2
  <2> QED BY <2>1, <2>2 DEF Lists
<1>6. b \in Lists /\ Len(b) = l - n /\ \A i \in 1..(l - n) : b[i] = list[n + i]
  BY <1>2, <1>4 DEF Parts, Lists
<1>7. Flat(list) = Flat(a) \o Flat(b) /\ Flat(a) \in Num /\ Flat(b) \in Num
  <2>1. PICK s, t, u : s = Each(a) /\ t = Each(b) /\ u = Each(list)
    OBVIOUS
  <2>2. /\ s \in Seq(Num) /\ Len(s) = n /\ t \in Seq(Num) /\ Len(t) = l - n
        /\ u \in Seq(Num) /\ Len(u) = l
        /\ \A i \in 1..n : s[i] = Record(a[i])
        /\ \A i \in 1..(l - n) : t[i] = Record(b[i])
        /\ \A i \in 1..l : u[i] = Record(list[i])
    BY <1>1, <1>5, <1>6, <2>1, EachTyped
  <2>3. PICK v : v = s \o t
    OBVIOUS
  <2>4. Joins(Num, s, t, v)
    BY <2>2, <2>3, Joined
  <2>5. /\ v \in Seq(Num) /\ Len(v) = Len(s) + Len(t)
        /\ \A i \in 1..Len(s) : v[i] = s[i]
        /\ \A i \in 1..Len(t) : v[Len(s) + i] = t[i]
    BY <2>4 DEF Joins
  <2>6. ASSUME NEW i \in 1..l PROVE u[i] = v[i]
    <3>1. CASE i <= n
      <4>1. i \in 1..n
        BY <1>2, <3>1
      <4>2. u[i] = Record(list[i]) /\ s[i] = Record(a[i]) /\ a[i] = list[i] /\ v[i] = s[i]
        BY <1>5, <2>2, <2>5, <4>1
      <4> QED BY <4>2
    <3>2. CASE ~ i <= n
      <4>1. PICK j : j = i - n
        OBVIOUS
      <4>2. j \in 1..(l - n) /\ i = n + j
        BY <1>2, <3>2, <4>1
      <4>3. u[i] = Record(list[n + j]) /\ t[j] = Record(b[j]) /\ b[j] = list[n + j] /\ v[n + j] = t[j]
        BY <1>6, <2>2, <2>5, <4>2
      <4> QED BY <4>2, <4>3
    <3> QED BY <3>1, <3>2
  <2>7. u = v
    <3>1. Len(u) = Len(v)
      BY <1>2, <2>2, <2>5
    <3> QED BY <2>2, <2>5, <2>6, <3>1, SeqEqual
  <2>8. s \in Seq(Seq(Nat)) /\ t \in Seq(Seq(Nat)) /\ <<>> \in Seq(Nat)
    BY <2>2, EmptySeq DEF Num
  <2>9. FlattenSeq(s \o t) = FlattenSeq(s) \o FlattenSeq(t)
    BY <2>8, FlattenConcat
  <2>10. FlattenSeq(s) \in Seq(Nat) /\ FlattenSeq(t) \in Seq(Nat)
    BY <2>8, FlattenAppend
  <2> QED BY <2>1, <2>3, <2>7, <2>9, <2>10 DEF Flat, Num
<1>8. HostSits(m) /\ Behind(Start) /\ Ntohs(m, 6) = l /\ SitsAt(m, Start, Flat(list))
  BY <1>1, AnswerLaid
<1>9. SitsAt(m, Start, Flat(a))
  <2>1. m \in Num /\ Start \in Nat /\ SitsAt(m, Start, Flat(a) \o Flat(b))
    BY <1>7, <1>8 DEF HostSits, Behind
  <2> QED BY <1>7, <2>1, Apart
<1>10. PICK w : RecordWalks(m, Start, n, w) /\ ReadRecords(m, Start, n) = w[n].found
  BY <1>2, ReadWalk
<1>11. w[Len(a)] = [at |-> Start + Len(Flat(a)), found |-> All(a)]
  <2>1. Len(a) <= n
    BY <1>2, <1>5
  <2> QED BY <1>2, <1>5, <1>8, <1>9, <1>10, <2>1, WalkRecords
<1>12. ReadRecvAnswer(m, Start) = ReadRecords(m, Start, n)
  BY <1>1, <1>8 DEF ReadRecvAnswer
<1>13. ReadRecvAnswer(m, Start) = All(a)
  BY <1>5, <1>10, <1>11, <1>12
<1> QED BY <1>1, <1>2, <1>5, <1>13


-----------------------------------------------------------------------------
(* What is in the query, and in the answer and what was read from it.      *)
QueryInv ==
  /\ host \in Name /\ host # <<>> /\ rooted \in BOOLEAN
  /\ phase # "query" =>
       qname = ChangetoDnsNameFormat(Dotted(host) \o (IF rooted THEN <<Dot>> ELSE <<>>))

LEMMA QueryInvInductive == MessageSpec => []QueryInv
<1>1. MessageInit => QueryInv
  BY DnsMessageAssumption DEF MessageInit, QueryInv, Name
<1>2. QueryInv /\ [MessageNext]_messageVars => QueryInv'
  BY DEF QueryInv, MessageNext, messageVars, PrepareDnsQueryPacket, AddRecord, Reply, Read
<1> QED BY <1>1, <1>2, PTL DEF MessageSpec

(* The query asks for the name that was meant: ChangetoDnsNameFormat, for  *)
(* every name of labels, with a dot at its end or without.                 *)
THEOREM QueryNameCorrect == MessageSpec => []QueryNameRight
<1>1. QueryInv => QueryNameRight
  <2> SUFFICES ASSUME QueryInv, phase # "query"
               PROVE  SubSeq(qname, 1, Strlen(qname) + 1) = Wire(host) \o << 0 >>
    BY DEF QueryNameRight
  <2>1. qname \in Num /\ SitsAt(qname, 0, Wire(host) \o << 0 >>)
    BY FormatStarts DEF QueryInv
  <2>2. Wire(host) \in Plain
    BY PlainWire DEF QueryInv
  <2> QED BY <2>1, <2>2, StrlenEnds
<1> QED BY <1>1, QueryInvInductive, PTL
-----------------------------------------------------------------------------
(* The inductive invariant of the message module.                          *)
MessageInv ==
  /\ QueryInv
  /\ phase \in {"query", "server", "read", "done"}
  /\ records \in Lists
  /\ phase \in {"read", "done"} => message = Answer(records)
  /\ phase = "done" =>
       answers = ReadRecvAnswer(message, HeaderLen + Strlen(qname) + 1 + QuestionLen)

LEMMA AddedRecords ==
  ASSUME records \in Lists, AddRecord
  PROVE  records' \in Lists
<1>1. PICK r \in RecordSet : records' = Append(records, r)
  <2>1. PICK name \in Forms :
          \/ \E a \in HostAddresses :
               records' = Append(records, [name |-> name, type |-> 1, data |-> a])
          \/ \E f \in Forms : records' = Append(records, [name |-> name, type |-> 5, data |-> f])
    BY DEF AddRecord
  <2>2. CASE \E a \in HostAddresses :
               records' = Append(records, [name |-> name, type |-> 1, data |-> a])
    <3>1. PICK a \in HostAddresses :
            records' = Append(records, [name |-> name, type |-> 1, data |-> a])
      BY <2>2
    <3>2. [name |-> name, type |-> 1, data |-> a] \in RecordSet
      BY DEF RecordSet
    <3> QED BY <3>1, <3>2
  <2>3. CASE \E f \in Forms : records' = Append(records, [name |-> name, type |-> 5, data |-> f])
    <3>1. PICK f \in Forms : records' = Append(records, [name |-> name, type |-> 5, data |-> f])
      BY <2>3
    <3>2. [name |-> name, type |-> 5, data |-> f] \in RecordSet
      BY DEF RecordSet
    <3> QED BY <3>1, <3>2
  <2> QED BY <2>1, <2>2, <2>3
<1>2. Append(records, r) \in Lists
  BY AppendProperties DEF Lists
<1>3. host' = host
  BY DEF AddRecord
<1>4. Lists' = Lists
  BY <1>3 DEF Lists, RecordSet, Forms
<1> QED BY <1>1, <1>2, <1>4

LEMMA MessageInvInductive == MessageSpec => []MessageInv
<1>1. MessageInit => MessageInv
  <2> SUFFICES ASSUME MessageInit PROVE MessageInv
    OBVIOUS
  <2>1. QueryInv
    BY DnsMessageAssumption DEF MessageInit, QueryInv, Name
  <2>2. records \in Lists
    BY EmptySeq DEF MessageInit, Lists
  <2> QED BY <2>1, <2>2 DEF MessageInit, MessageInv
<1>2. ASSUME MessageInv, [MessageNext]_messageVars PROVE MessageInv'
  <2>1. QueryInv'
    BY <1>2 DEF MessageInv, QueryInv, MessageNext, messageVars, PrepareDnsQueryPacket,
                AddRecord, Reply, Read
  <2>2. host' = host /\ (records' # records => AddRecord)
    BY <1>2 DEF MessageNext, messageVars, PrepareDnsQueryPacket, AddRecord, Reply, Read
  <2>3. records' \in Lists'
    <3>1. CASE AddRecord
      <4>1. records' \in Lists
        BY <1>2, <3>1, AddedRecords DEF MessageInv
      <4>2. Lists' = Lists
        BY <2>2 DEF Lists, RecordSet, Forms
      <4> QED BY <4>1, <4>2
    <3>2. CASE ~AddRecord
      <4>1. records' = records /\ Lists' = Lists
        BY <2>2, <3>2 DEF Lists, RecordSet, Forms
      <4> QED BY <1>2, <4>1 DEF MessageInv
    <3> QED BY <3>1, <3>2
  <2>4. Answer(records)' = Answer(records')
    BY <2>2 DEF Answer, Record, Encode
  <2>5. /\ phase' \in {"query", "server", "read", "done"}
        /\ (phase' \in {"read", "done"} => message' = Answer(records)')
        /\ (phase' = "done" =>
              answers' = ReadRecvAnswer(message', HeaderLen + Strlen(qname') + 1 + QuestionLen))
    <3>1. CASE PrepareDnsQueryPacket
      BY <3>1 DEF PrepareDnsQueryPacket
    <3>2. CASE AddRecord
      BY <3>2 DEF AddRecord
    <3>3. CASE Reply
      BY <2>2, <3>3 DEF Reply, Answer, Record, Encode
    <3>4. CASE Read
      <4>1. message' = message /\ records' = records /\ message = Answer(records)
        BY <1>2, <3>4 DEF Read, MessageInv
      <4>2. message' = Answer(records)'
        BY <2>4, <4>1
      <4> QED BY <3>4, <4>2 DEF Read
    <3>5. CASE UNCHANGED messageVars
      <4>1. /\ message' = message /\ records' = records /\ phase' = phase /\ qname' = qname
            /\ answers' = answers
        BY <3>5 DEF messageVars
      <4>2. phase \in {"read", "done"} => message' = Answer(records)'
        <5>1. phase \in {"read", "done"} => message = Answer(records)
          BY <1>2 DEF MessageInv
        <5> QED BY <2>4, <4>1, <5>1
      <4> QED BY <1>2, <4>1, <4>2 DEF MessageInv
    <3> QED BY <1>2, <3>1, <3>2, <3>3, <3>4, <3>5 DEF MessageNext
  <2> QED BY <2>1, <2>3, <2>5 DEF MessageInv
<1> QED BY <1>1, <1>2, PTL DEF MessageSpec

LEMMA MessageFound ==
  ASSUME MessageInv, phase = "done", NEW n, n = Min({MaxAddresses, Len(records)})
  PROVE  /\ n \in Nat /\ n <= Len(records) /\ records \in Lists /\ host \in Name
         /\ Len(answers) = n /\ answers = [i \in 1..n |-> Meant(records[i])]
<1>1. /\ host \in Name /\ host # <<>> /\ records \in Lists /\ message = Answer(records)
      /\ answers = ReadRecvAnswer(message, HeaderLen + Strlen(qname) + 1 + QuestionLen)
      /\ rooted \in BOOLEAN /\ QueryInv
  BY DEF MessageInv, QueryInv
<1>2. Strlen(qname) = Len(Wire(host))
  <2>1. qname \in Num /\ SitsAt(qname, 0, Wire(host) \o << 0 >>)
    BY <1>1, FormatStarts DEF QueryInv
  <2> QED BY <1>1, <2>1, PlainWire, StrlenEnds
<1>3. answers = ReadRecvAnswer(message, Start)
  BY <1>1, <1>2 DEF Start
<1>4. PICK a : a = SubSeq(records, 1, n)
  OBVIOUS
<1>5. /\ answers = All(a) /\ n \in Nat /\ n <= Len(records)
      /\ a \in Lists /\ Len(a) = n /\ \A i \in 1..n : a[i] = records[i]
  BY <1>1, <1>3, <1>4, AllRead
<1>6. DOMAIN a = 1..n
  BY <1>5, LenProperties DEF Lists
<1>7. answers = [i \in 1..n |-> Meant(records[i])]
  <2>1. answers = [i \in 1..n |-> Meant(a[i])]
    BY <1>5, <1>6 DEF All
  <2> QED BY <1>5, <2>1
<1>8. Len(answers) = n
  <2>1. PICK S : S = {Meant(records[i]) : i \in 1..n}
    OBVIOUS
  <2>2. answers \in [1..n -> S]
    BY <1>7, <2>1
  <2> QED BY <1>5, <2>2
<1> QED BY <1>1, <1>5, <1>7, <1>8

(* ReadName and ReadRecvAnswer find every name of an answer as the server  *)
(* meant it, however long the answer is and whichever part of the          *)
(* question's name its pointers lead to.                                   *)
THEOREM NamesReadRight == MessageSpec => []NamesRead
<1>1. ASSUME MessageInv PROVE NamesRead
  <2> SUFFICES ASSUME phase = "done" PROVE NamesRead
    BY DEF NamesRead
  <2>1. PICK n : n = Min({MaxAddresses, Len(records)})
    OBVIOUS
  <2>2. /\ n \in Nat /\ n <= Len(records) /\ records \in Lists
        /\ Len(answers) = n /\ answers = [i \in 1..n |-> Meant(records[i])]
    BY <1>1, <2>1, MessageFound
  <2>3. ASSUME NEW i \in 1..n
        PROVE  /\ answers[i].name = Dotted(Whole(records[i].name))
               /\ answers[i].type = records[i].type
               /\ answers[i].type = 5 => answers[i].rdata = Dotted(Whole(records[i].data))
    BY <2>2, <2>3 DEF Meant
  <2> QED BY <2>1, <2>2, <2>3 DEF NamesRead
<1> QED BY <1>1, MessageInvInductive, PTL

-----------------------------------------------------------------------------
(* The fold over the answers that takes their addresses, one by one.       *)
Taken(found) == FoldLeft(TakeAddress, <<>>, found)

TakeStates(E) == Seq({e.rdata : e \in E})

TakesTo(found, g) ==
  g = [s \in SUBSET (DOMAIN found) |->
         IF s = {} THEN <<>> ELSE TakeAddress(g[s \ {Max(s)}], found[Max(s)])]

LEMMA TakeFolds ==
  ASSUME NEW found, NEW g, TakesTo(found, g)
  PROVE  \E f : TakesTo(found, f) /\ Taken(found) = f[DOMAIN found]
BY Zenon DEF TakesTo, Taken, FoldLeft, MapThenFoldSet

LEMMA TakeTypes ==
  ASSUME NEW E
  PROVE  /\ <<>> \in TakeStates(E)
         /\ \A s \in TakeStates(E), e \in E : TakeAddress(s, e) \in TakeStates(E)
<1>1. ASSUME NEW s \in TakeStates(E), NEW e \in E PROVE TakeAddress(s, e) \in TakeStates(E)
  <2>1. e.rdata \in {x.rdata : x \in E} /\ s \in Seq({x.rdata : x \in E})
    BY DEF TakeStates
  <2>2. Append(s, e.rdata) \in Seq({x.rdata : x \in E})
    BY <2>1, AppendProperties
  <2> QED BY <2>1, <2>2 DEF TakeAddress, TakeStates
<1>2. <<>> \in TakeStates(E)
  BY EmptySeq DEF TakeStates
<1> QED BY <1>1, <1>2

TakeStep(E, found) == [k \in 1..Len(found) |-> [s \in TakeStates(E) |-> TakeAddress(s, found[k])]]

LEMMA TakeRuns ==
  ASSUME NEW E, NEW found \in Seq(E)
  PROVE  StepsTo(TakeStates(E), <<>>, TakeStep(E, found), Len(found), Taken(found))
<1>1. PICK n, F : n = Len(found) /\ F = TakeStep(E, found)
  OBVIOUS
<1>2. n \in Nat /\ DOMAIN found = 1..n /\ \A k \in 1..n : found[k] \in E
  BY <1>1, LenProperties, ElementOfSeq
<1>3. F \in [1..n -> [TakeStates(E) -> TakeStates(E)]]
  BY <1>1, <1>2, TakeTypes DEF TakeStep
<1>4. \A k \in 1..n, s \in TakeStates(E) : F[k][s] = TakeAddress(s, found[k])
  BY <1>1 DEF TakeStep
<1>5. PICK g : FoldFunctionOf(TakeStates(E), <<>>, F, n, g)
  BY <1>2, <1>3, TakeTypes, FoldExists
<1>6. TakesTo(found, g)
  <2>1. g = [s \in SUBSET (1..n) |-> g[s]]
    BY <1>5 DEF FoldFunctionOf
  <2>2. ASSUME NEW s \in SUBSET (1..n), s # {}
        PROVE  g[s] = TakeAddress(g[s \ {Max(s)}], found[Max(s)])
    <3>1. Max(s) \in 1..n /\ g[s] = F[Max(s)][g[s \ {Max(s)}]] /\ g[s \ {Max(s)}] \in TakeStates(E)
      BY <1>5, <2>2 DEF FoldFunctionOf
    <3> QED BY <1>4, <3>1
  <2>3. g[{}] = <<>>
    BY <1>5 DEF FoldFunctionOf
  <2> QED BY <1>2, <2>1, <2>2, <2>3 DEF TakesTo
<1>7. PICK f : TakesTo(found, f) /\ Taken(found) = f[1..n]
  BY <1>2, <1>6, TakeFolds
<1>8. f[{}] = <<>>
  BY <1>7 DEF TakesTo
<1>9. ASSUME NEW s \in SUBSET (1..n), s # {}, Max(s) \in 1..n, f[s \ {Max(s)}] \in TakeStates(E)
      PROVE  f[s] = F[Max(s)][f[s \ {Max(s)}]]
  <2>1. f[s] = TakeAddress(f[s \ {Max(s)}], found[Max(s)])
    BY <1>2, <1>7, <1>9 DEF TakesTo
  <2> QED BY <1>4, <1>9, <2>1
<1>10. StepsTo(TakeStates(E), <<>>, F, n, f[1..n])
  BY <1>2, <1>3, <1>8, <1>9, TakeTypes, FoldRuns
<1> QED BY <1>1, <1>7, <1>10

LEMMA TakeNothing == Taken(<<>>) = <<>>
<1>0. PICK E : E = Nat
  OBVIOUS
<1>1. <<>> \in Seq(E) /\ Len(<<>>) = 0
  BY EmptySeq
<1>2. StepsTo(TakeStates(E), <<>>, TakeStep(E, <<>>), 0, Taken(<<>>))
  BY <1>1, TakeRuns
<1> QED BY <1>2 DEF StepsTo, Steps

LEMMA TakeMore ==
  ASSUME NEW E, NEW found \in Seq(E), NEW e \in E
  PROVE  Taken(found) \in TakeStates(E) /\ Taken(Append(found, e)) = TakeAddress(Taken(found), e)
<1>1. PICK n, more : n = Len(found) /\ more = Append(found, e)
  OBVIOUS
<1>2. /\ n \in Nat /\ more \in Seq(E) /\ Len(more) = n + 1 /\ more[n + 1] = e
      /\ \A i \in 1..n : more[i] = found[i]
  BY <1>1, AppendProperties, LenProperties
<1>3. /\ StepsTo(TakeStates(E), <<>>, TakeStep(E, found), n, Taken(found))
      /\ StepsTo(TakeStates(E), <<>>, TakeStep(E, more), n + 1, Taken(more))
  BY <1>1, <1>2, TakeRuns
<1>4. \A k \in 1..n : TakeStep(E, more)[k] = TakeStep(E, found)[k]
  BY <1>1, <1>2 DEF TakeStep
<1>5. Taken(found) \in TakeStates(E) /\ Taken(more) = TakeStep(E, more)[n + 1][Taken(found)]
  <2>1. PICK F, G, r, t : F = TakeStep(E, found) /\ G = TakeStep(E, more) /\ r = Taken(found) /\ t = Taken(more)
    OBVIOUS
  <2>2. /\ StepsTo(TakeStates(E), <<>>, F, n, r) /\ StepsTo(TakeStates(E), <<>>, G, n + 1, t)
        /\ \A k \in 1..n : G[k] = F[k]
    BY <1>3, <1>4, <2>1
  <2>3. <<>> \in TakeStates(E) /\ n \in Nat
    BY <1>2, TakeTypes
  <2>4. r \in TakeStates(E) /\ t = G[n + 1][r]
    <3>1. StepsOnceMore(TakeStates(E), <<>>, F, G, n, r, t)
      BY <2>2, <2>3 DEF StepsOnceMore
    <3> QED BY <3>1, StepsOnce
  <2> QED BY <2>1, <2>4
<1>6. \A s \in TakeStates(E) : TakeStep(E, more)[n + 1][s] = TakeAddress(s, e)
  <2>1. n + 1 \in 1..(n + 1)
    BY <1>2
  <2> QED BY <1>2, <2>1 DEF TakeStep
<1> QED BY <1>1, <1>5, <1>6


-----------------------------------------------------------------------------
(* Which of the answers an address of the result comes from.               *)
Ones(found) == {i \in 1..Len(found) : found[i].type = 1}
UpTo(S, i) == {j \in S : j <= i}

Kept(found) ==
  /\ Len(Taken(found)) = Cardinality(Ones(found))
  /\ \A i \in Ones(found) : Taken(found)[Cardinality(UpTo(Ones(found), i))] = found[i].rdata

LEMMA OnesFinite ==
  ASSUME NEW n \in Nat, NEW S, S \subseteq 1..n
  PROVE  /\ IsFiniteSet(S) /\ Cardinality(S) \in Nat
         /\ \A i \in S : Cardinality(UpTo(S, i)) \in 1..Cardinality(S)
<1>1. IsFiniteSet(1..n)
  BY FS_Interval
<1>2. IsFiniteSet(S) /\ Cardinality(S) \in Nat
  BY <1>1, FS_Subset, FS_CardinalityType
<1>3. ASSUME NEW i \in S PROVE Cardinality(UpTo(S, i)) \in 1..Cardinality(S)
  <2>1. PICK U : U = UpTo(S, i)
    OBVIOUS
  <2>2. U \subseteq S /\ i \in U
    BY <2>1 DEF UpTo
  <2>3. IsFiniteSet(U) /\ Cardinality(U) <= Cardinality(S)
    BY <1>2, <2>2, FS_Subset
  <2>4. Cardinality(U) \in Nat /\ Cardinality(U) # 0
    BY <2>2, <2>3, FS_CardinalityType, FS_EmptySet
  <2> QED BY <1>2, <2>1, <2>3, <2>4
<1> QED BY <1>2, <1>3

LEMMA KeptAll ==
  ASSUME NEW E
  PROVE  \A found \in Seq(E) : Kept(found)
<1> DEFINE T == {found \in Seq(E) : Kept(found)}
<1>1. <<>> \in T
  <2>1. <<>> \in Seq(E) /\ Len(<<>>) = 0
    BY EmptySeq
  <2>2. Ones(<<>>) = {}
    BY <2>1 DEF Ones
  <2>3. Taken(<<>>) = <<>> /\ Cardinality({}) = 0
    BY TakeNothing, FS_EmptySet
  <2> QED BY <2>1, <2>2, <2>3 DEF Kept
<1>2. ASSUME NEW found \in Seq(E), NEW e \in E, found \in T PROVE Append(found, e) \in T
  <2>1. PICK more, n, t, u, S, R :
          /\ more = Append(found, e) /\ n = Len(found) /\ t = Taken(found) /\ u = Taken(more)
          /\ S = Ones(found) /\ R = Ones(more)
    OBVIOUS
  <2>2. /\ n \in Nat /\ more \in Seq(E) /\ Len(more) = n + 1 /\ more[n + 1] = e
        /\ \A i \in 1..n : more[i] = found[i]
    BY <2>1, AppendProperties, LenProperties
  <2>3. t \in TakeStates(E) /\ u = TakeAddress(t, e)
    BY <2>1, TakeMore
  <2>4. S \subseteq 1..n /\ \A i \in 1..n : i \in S <=> found[i].type = 1
    BY <2>1 DEF Ones
  <2>5. R \subseteq 1..(n + 1) /\ \A i \in 1..(n + 1) : i \in R <=> more[i].type = 1
    BY <2>1, <2>2 DEF Ones
  <2>6. /\ Len(t) = Cardinality(S)
        /\ \A i \in S : t[Cardinality(UpTo(S, i))] = found[i].rdata
    BY <1>2, <2>1 DEF Kept
  <2>7. IsFiniteSet(S) /\ Cardinality(S) \in Nat /\ \A i \in S : Cardinality(UpTo(S, i)) \in 1..Cardinality(S)
    BY <2>2, <2>4, OnesFinite
  <2>8. \A i \in 1..n : i \in R <=> i \in S
    BY <2>2, <2>4, <2>5
  <2>9. n + 1 \in R <=> e.type = 1
    BY <2>2, <2>5
  <2>10. R \subseteq S \cup {n + 1} /\ S \subseteq R
    <3>1. ASSUME NEW i \in R PROVE i \in S \/ i = n + 1
      <4>1. i \in 1..n \/ i = n + 1
        BY <2>2, <2>5
      <4> QED BY <2>8, <4>1
    <3>2. ASSUME NEW i \in S PROVE i \in R
      BY <2>4, <2>8
    <3> QED BY <3>1, <3>2
  <2>11. n + 1 \notin S
    BY <2>2, <2>4
  <2>12. Kept(more)
    <3>1. CASE e.type # 1
      <4>1. R = S
        BY <2>9, <2>10, <3>1
      <4>2. u = t
        BY <2>3, <3>1 DEF TakeAddress
      <4>3. \A i \in R : more[i] = found[i]
        BY <2>2, <2>4, <4>1
      <4>4. Len(u) = Cardinality(R)
        BY <2>6, <4>1, <4>2
      <4>5. ASSUME NEW i \in R PROVE u[Cardinality(UpTo(R, i))] = more[i].rdata
        BY <2>6, <4>1, <4>2, <4>3
      <4> QED BY <2>1, <4>4, <4>5 DEF Kept
    <3>2. CASE e.type = 1
      <4>1. R = S \cup {n + 1} /\ n + 1 \notin S
        BY <2>9, <2>10, <2>11, <3>2
      <4>2. Cardinality(R) = Cardinality(S) + 1
        BY <2>7, <4>1, FS_AddElement
      <4>3. u = Append(t, e.rdata)
        BY <2>3, <3>2 DEF TakeAddress
      <4>4. PICK c : c = Cardinality(S)
        OBVIOUS
      <4>5. /\ Len(u) = c + 1 /\ u[c + 1] = e.rdata /\ c \in Nat
            /\ \A k \in 1..c : u[k] = t[k]
        <5>1. t \in Seq({x.rdata : x \in E}) /\ e.rdata \in {x.rdata : x \in E} /\ Len(t) = c
          BY <2>3, <2>6, <4>4 DEF TakeStates
        <5> QED BY <2>7, <4>3, <4>4, <5>1, AppendProperties
      <4>6. ASSUME NEW i \in R PROVE u[Cardinality(UpTo(R, i))] = more[i].rdata
        <5>1. CASE i \in S
          <6>1. i \in 1..n
            BY <2>4, <5>1
          <6>2. UpTo(R, i) = UpTo(S, i)
            BY <2>2, <2>4, <4>1, <6>1 DEF UpTo
          <6>3. PICK k : k = Cardinality(UpTo(S, i))
            OBVIOUS
          <6>4. k \in 1..c /\ t[k] = found[i].rdata
            BY <2>6, <2>7, <4>4, <5>1, <6>3
          <6>5. u[k] = found[i].rdata
            BY <4>5, <6>4
          <6> QED BY <2>2, <6>1, <6>2, <6>3, <6>5
        <5>2. CASE i = n + 1
          <6>1. UpTo(R, i) = R
            <7>1. \A j \in R : j <= i
              BY <2>2, <2>5, <5>2
            <7> QED BY <7>1 DEF UpTo
          <6> QED BY <2>2, <4>2, <4>4, <4>5, <5>2, <6>1
        <5> QED BY <4>1, <5>1, <5>2
      <4> QED BY <2>1, <4>2, <4>4, <4>5, <4>6 DEF Kept
    <3> QED BY <3>1, <3>2
  <2> QED BY <2>1, <2>2, <2>12
<1> HIDE DEF T
<1>3. Seq(E) \subseteq T
  BY <1>1, <1>2, SeqInduction
<1> QED BY <1>3 DEF T

(* The result has the addresses of the answer, in their order.             *)
THEOREM AddressesReadRight == MessageSpec => []AddressesRead
<1>1. ASSUME MessageInv PROVE AddressesRead
  <2> SUFFICES ASSUME phase = "done" PROVE AddressesRead
    BY DEF AddressesRead
  <2>1. PICK n, S : /\ n = Min({MaxAddresses, Len(records)})
                    /\ S = {i \in 1..n : records[i].type = 1}
    OBVIOUS
  <2>2. /\ n \in Nat /\ Len(answers) = n /\ answers = [i \in 1..n |-> Meant(records[i])]
    BY <1>1, <2>1, MessageFound
  <2>3. PICK E : E = {Meant(records[i]) : i \in 1..n}
    OBVIOUS
  <2>4. answers \in Seq(E)
    <3>1. answers \in [1..n -> E]
      BY <2>2, <2>3
    <3> QED BY <2>2, <3>1
  <2>5. Kept(answers)
    BY <2>4, KeptAll
  <2>6. \A i \in 1..n : answers[i].type = records[i].type
    BY <2>2 DEF Meant
  <2>7. Ones(answers) = S
    BY <2>1, <2>2, <2>6 DEF Ones
  <2>8. \A i \in S : answers[i].rdata = records[i].data
    BY <2>1, <2>2 DEF Meant
  <2>9. Ips = Taken(answers)
    BY DEF Ips, Taken
  <2>10. /\ Len(Ips) = Cardinality(S)
         /\ \A i \in S : Ips[Cardinality(UpTo(S, i))] = records[i].data
    BY <2>5, <2>7, <2>8, <2>9 DEF Kept
  <2>11. \A i \in S : UpTo(S, i) = {j \in S : j <= i}
    BY DEF UpTo
  <2>12. \A i \in S : Ips[Cardinality({j \in S : j <= i})] = records[i].data
    BY <2>10, <2>11
  <2> QED BY <2>1, <2>10, <2>12 DEF AddressesRead
<1> QED BY <1>1, MessageInvInductive, PTL
=============================================================================
