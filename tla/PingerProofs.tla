---------------------------- MODULE PingerProofs ----------------------------
(***************************************************************************)
(* Proofs about Pinger, for any number of rounds, any interval and any     *)
(* number of stray messages.  Besides the types, the inductive invariant   *)
(* says where each request's reply is (Flight) and what statistics() has   *)
(* summed up so far (Sums).  The last parts are about EchoPacket: what is  *)
(* recognised as the reply to a request, and the checksum of a request,    *)
(* with the sum of the words unfolded step by step (SequenceLemmas).       *)
(***************************************************************************)
EXTENDS Pinger, EchoPacket, SequenceLemmas, FiniteSetTheorems

(* The helpers of Send, Read and Account are written out below.            *)
USE DEF NextNumber, Rest, Lower

-----------------------------------------------------------------------------
AllCounted == \A j \in 1..Len(result) : result[j].recv

(* Only requests that were sent have replies.  Without strays each reply   *)
(* is in one place: on its way, in the queue, or counted in one round; and *)
(* while every round was counted, only the current one's is not counted.   *)
Flight ==
  /\ outstanding \subseteq 1..sequence_number
  /\ Range(rcvbuf) \subseteq 0..sequence_number
  /\ strays = 0 =>
       /\ IsInjective(rcvbuf)
       /\ outstanding \cap Range(rcvbuf) = {}
       /\ \A i \in 1..Len(result) :
            result[i].recv => credit[i] \notin outstanding \cup Range(rcvbuf)
       /\ AllCounted =>
            outstanding \cup Range(rcvbuf) \subseteq IF pc = "read" THEN {sequence_number} ELSE {}

IsMaxOf(m, S) == m \in S /\ \A c \in S : c <= m
IsMinOf(m, S) == m \in S /\ \A c \in S : m <= c

(* The sums are those of the rounds gone through.                          *)
Sums ==
  /\ status.loss = 2 * (Rounds - Cardinality(Received(at)))
  /\ IsMaxOf(status.max, Costs(at) \cup {0})
  /\ IsMinOf(status.min, Costs(at) \cup {Interval})

Inv == TypeOK /\ InStep /\ NeverAhead /\ CountedOnce /\ Flight /\ Sums

LEMMA RoundsPositive == Rounds \in Nat \ {0}
BY PingerAssumption DEF Rounds

-----------------------------------------------------------------------------
LEMMA InitInv == Init => Inv
<1> SUFFICES ASSUME Init PROVE Inv
  OBVIOUS
<1> USE PingerAssumption, RoundsPositive DEF Init
<1>1. TypeOK
  BY DEF TypeOK, HistoryOK, NetworkOK, ControlOK, StatusOK, Stages, NoRounds
<1>2. InStep /\ NeverAhead /\ CountedOnce
  BY DEF InStep, NeverAhead, CountedOnce
<1>3. Flight
  BY DEF Flight, IsInjective, Range
<1>4. Received(0) = {} /\ Costs(0) = {}
  BY DEF Received, Costs
<1>5. Sums
  <2>1. status = NoRounds /\ at = 0
    OBVIOUS
  <2>2. status.loss = 2 * Rounds /\ status.max = 0 /\ status.min = Interval
    BY <2>1 DEF NoRounds
  <2>3. Cardinality(Received(at)) = 0
    BY <1>4, <2>1, FS_EmptySet
  <2>4. 2 * (Rounds - 0) = 2 * Rounds /\ Interval <= Interval
    BY RoundsPositive
  <2>5. status.loss = 2 * (Rounds - Cardinality(Received(at)))
    BY <2>2, <2>3, <2>4
  <2>6. IsMaxOf(status.max, Costs(at) \cup {0})
    BY <1>4, <2>1, <2>2 DEF IsMaxOf
  <2>7. IsMinOf(status.min, Costs(at) \cup {Interval})
    BY <1>4, <2>1, <2>2, <2>4 DEF IsMinOf
  <2> QED BY <2>5, <2>6, <2>7 DEF Sums
<1> QED BY <1>1, <1>2, <1>3, <1>5 DEF Inv

(* What the end of a round does to the histories.                          *)
LEMMA RoundEnds ==
  ASSUME TypeOK, NEW recv \in BOOLEAN, NEW cost \in 0..(Interval + Slack),
         NEW msg \in -1..Rounds, EndRound(recv, cost, msg)
  PROVE  /\ HistoryOK' /\ Len(result) \in Nat /\ Len(result') = Len(result) + 1
         /\ \A i \in 1..Len(result) : result'[i] = result[i] /\ credit'[i] = credit[i]
         /\ result'[Len(result) + 1] = [recv |-> recv, cost |-> cost]
         /\ credit'[Len(result) + 1] = msg
<1>1. [recv |-> recv, cost |-> cost] \in [recv : BOOLEAN, cost : 0..(Interval + Slack)]
  OBVIOUS
<1> QED BY <1>1, AppendProperties DEF EndRound, TypeOK, HistoryOK

(* Every step keeps the types.                                             *)
LEMMA TypeStep == Inv /\ [Next]_vars => TypeOK'
<1> SUFFICES ASSUME Inv, [Next]_vars PROVE TypeOK'
  OBVIOUS
<1>0. HistoryOK /\ NetworkOK /\ ControlOK /\ StatusOK /\ Len(result) \in Nat
  BY LenProperties DEF Inv, TypeOK, HistoryOK
<1> USE PingerAssumption, RoundsPositive
<1>a. -1 \in -1..Rounds /\ 0 \in 0..(Interval + Slack)
  OBVIOUS
<1>1. CASE Open
  <2>1. ControlOK'
    BY <1>0, <1>1 DEF Open, ControlOK, Stages
  <2> QED BY <1>0, <1>1, <2>1 DEF Open, TypeOK, HistoryOK, NetworkOK, StatusOK, network
<1>2. CASE Send
  <2>1. sequence_number' = sequence_number + 1 /\ sequence_number' \in 1..Rounds
    BY <1>0, <1>2 DEF Send, ControlOK
  <2>2. CASE sock = "good" /\ pc' = "read" /\ UNCHANGED <<result, credit, waited>>
             /\ outstanding' = outstanding \cup {sequence_number'}
    <3>1. ControlOK'
      BY <1>0, <1>2, <2>1, <2>2 DEF Send, ControlOK, Stages
    <3>2. NetworkOK'
      BY <1>0, <1>2, <2>1, <2>2 DEF Send, NetworkOK
    <3> QED BY <1>0, <1>2, <2>2, <3>1, <3>2 DEF Send, TypeOK, HistoryOK, StatusOK
  <2>3. CASE EndRound(FALSE, 0, -1) /\ UNCHANGED outstanding
    <3>1. HistoryOK' /\ Len(result') = Len(result) + 1
      BY <1>0, <1>a, <2>3, RoundEnds DEF Inv
    <3>2. ControlOK'
      BY <1>0, <1>2, <2>1, <2>3, <3>1 DEF Send, EndRound, ControlOK, Stages
    <3> QED BY <1>0, <1>2, <2>3, <3>1, <3>2 DEF Send, TypeOK, NetworkOK, StatusOK
  <2> QED BY <1>2, <2>2, <2>3 DEF Send
<1>3. CASE Read
  <2>1. PICK d \in 0..Slack : EndRound(TRUE, waited + d, Head(rcvbuf))
    BY <1>3 DEF Read
  <2>2. /\ waited + d \in 0..(Interval + Slack)
        /\ Head(rcvbuf) \in -1..Rounds /\ Tail(rcvbuf) \in Seq(0..Rounds)
    BY <1>0, <1>3, HeadTailProperties DEF Read, ControlOK, NetworkOK
  <2>3. HistoryOK' /\ Len(result') = Len(result) + 1
    BY <2>1, <2>2, RoundEnds DEF Inv
  <2>4. ControlOK'
    BY <1>0, <1>3, <2>1, <2>3 DEF Read, EndRound, ControlOK, Stages
  <2> QED BY <1>0, <1>3, <2>2, <2>3, <2>4 DEF Read, TypeOK, NetworkOK, StatusOK
<1>4. CASE ReadFails \/ Interrupted
  <2>1. EndRound(FALSE, 0, -1)
    BY <1>4 DEF ReadFails, Interrupted
  <2>2. HistoryOK' /\ Len(result') = Len(result) + 1
    BY <1>a, <2>1, RoundEnds DEF Inv
  <2>3. ControlOK'
    BY <1>0, <1>4, <2>1, <2>2 DEF ReadFails, Interrupted, EndRound, ControlOK, Stages
  <2> QED BY <1>0, <1>4, <2>2, <2>3
          DEF ReadFails, Interrupted, TypeOK, NetworkOK, StatusOK, network
<1>5. CASE Statistics
  <2>1. at + 1 \in 1..Len(result)
    BY <1>0, <1>5 DEF Statistics, ControlOK
  <2>2. result[at + 1] \in [recv : BOOLEAN, cost : 0..(Interval + Slack)]
    BY <1>0, <2>1, ElementOfSeq DEF HistoryOK
  <2>3. StatusOK'
    BY <1>0, <1>5, <2>2 DEF Statistics, Account, StatusOK
  <2>4. ControlOK'
    BY <1>0, <1>5 DEF Statistics, ControlOK, Stages
  <2> QED BY <1>0, <1>5, <2>3, <2>4 DEF Statistics, TypeOK, HistoryOK, NetworkOK, network
<1>6. CASE Publish \/ Destroy
  <2>1. ControlOK'
    BY <1>0, <1>6 DEF Publish, Destroy, ControlOK, Stages
  <2> QED BY <1>0, <1>6, <2>1
          DEF Publish, Destroy, TypeOK, HistoryOK, NetworkOK, StatusOK, network
<1>7. CASE Deliver \/ Stray
  <2>1. PICK n \in 0..Rounds : rcvbuf' = Append(rcvbuf, n)
    BY <1>0, <1>7 DEF Deliver, Stray, NetworkOK
  <2>2. rcvbuf' \in Seq(0..Rounds)
    BY <1>0, <2>1, AppendProperties DEF NetworkOK
  <2>3. ControlOK'
    BY <1>0, <1>7 DEF Deliver, Stray, ControlOK, Stages
  <2>4. outstanding' \subseteq outstanding
    BY <1>7 DEF Deliver, Stray
  <2>5. strays' \in 0..Strays
    BY <1>0, <1>7 DEF Deliver, Stray, NetworkOK
  <2>6. NetworkOK'
    BY <1>0, <2>2, <2>4, <2>5 DEF NetworkOK
  <2> QED BY <1>0, <1>7, <2>3, <2>6 DEF Deliver, Stray, TypeOK, HistoryOK, StatusOK
<1>8. CASE Tick
  <2>1. ControlOK'
    BY <1>0, <1>8 DEF Tick, ControlOK, Stages
  <2> QED BY <1>0, <1>8, <2>1 DEF Tick, TypeOK, HistoryOK, NetworkOK, StatusOK, network
<1>9. CASE UNCHANGED vars
  BY <1>0, <1>9 DEF vars, TypeOK, HistoryOK, NetworkOK, ControlOK, StatusOK
<1> QED BY <1>1, <1>2, <1>3, <1>4, <1>5, <1>6, <1>7, <1>8, <1>9 DEF Next, Run

-----------------------------------------------------------------------------
(* Where the replies are, and which one each round counted.                *)
Rounded == InStep /\ NeverAhead /\ CountedOnce /\ Flight

(* The counts in Flight and in the properties, for use by the provers.     *)
LEMMA Counts ==
  ASSUME Inv
  PROVE  /\ Len(result) \in Nat /\ sequence_number \in Nat
         /\ sequence_number = Len(result) + (IF pc = "read" THEN 1 ELSE 0)
         /\ \A i \in 1..Len(result) : result[i].recv \in BOOLEAN /\ credit[i] \in Int
         /\ outstanding \subseteq 1..Rounds /\ rcvbuf \in Seq(0..Rounds)
         /\ strays \in Nat
<1>1. \A i \in 1..Len(result) :
        /\ result[i] \in [recv : BOOLEAN, cost : 0..(Interval + Slack)]
        /\ credit[i] \in -1..Rounds
  BY ElementOfSeq DEF Inv, TypeOK, HistoryOK
<1>2. Rounds \in Nat
  BY RoundsPositive
<1> QED BY <1>1, <1>2, LenProperties, PingerAssumption
        DEF Inv, TypeOK, HistoryOK, ControlOK, NetworkOK

LEMMA QueueGrows ==
  ASSUME rcvbuf \in Seq(0..Rounds), NEW n \in 0..Rounds, rcvbuf' = Append(rcvbuf, n)
  PROVE  Range(rcvbuf') = Range(rcvbuf) \cup {n}
<1> DEFINE S == 0..Rounds
<1>1. rcvbuf \in Seq(S) /\ n \in S
  OBVIOUS
<1> HIDE DEF S
<1> QED BY <1>1, RangeAppend

(* A round that counts nothing disturbs nothing.                           *)
LEMMA EmptyRound ==
  ASSUME Inv, EndRound(FALSE, 0, -1), UNCHANGED network,
         sequence_number' = Len(result) + 1, pc' # "read",
         sequence_number' >= sequence_number
  PROVE  Rounded'
<1>1. /\ Len(result') = Len(result) + 1
      /\ \A i \in 1..Len(result) : result'[i] = result[i] /\ credit'[i] = credit[i]
      /\ ~result'[Len(result) + 1].recv /\ credit'[Len(result) + 1] = -1
  <2>1. -1 \in -1..Rounds /\ 0 \in 0..(Interval + Slack)
    BY RoundsPositive, PingerAssumption
  <2>2. /\ Len(result') = Len(result) + 1
        /\ \A i \in 1..Len(result) : result'[i] = result[i] /\ credit'[i] = credit[i]
        /\ result'[Len(result) + 1] = [recv |-> FALSE, cost |-> 0]
        /\ credit'[Len(result) + 1] = -1
    BY <2>1, RoundEnds DEF Inv
  <2> QED BY <2>2
<1>2. Len(result) \in Nat /\ sequence_number \in Nat
  BY Counts
<1>3. ~AllCounted'
  BY <1>1, <1>2 DEF AllCounted
<1>4. InStep' /\ NeverAhead' /\ CountedOnce'
  <2>1. strays' = strays /\ \A i \in 1..Len(result') : i \in 1..Len(result) \/ i = Len(result) + 1
    BY <1>1, <1>2 DEF network
  <2>2. InStep'
    BY <1>1, <1>2, <2>1 DEF Inv, InStep
  <2>3. NeverAhead'
    BY <1>1, <1>2, <2>1 DEF Inv, NeverAhead
  <2>4. CountedOnce'
    BY <1>1, <1>2, <2>1 DEF Inv, CountedOnce
  <2> QED BY <2>2, <2>3, <2>4
<1>5. Flight'
  <2>1. outstanding' \subseteq 1..sequence_number' /\ Range(rcvbuf') \subseteq 0..sequence_number'
    BY <1>2, Counts DEF network, Inv, Flight
  <2> QED BY <1>1, <1>2, <1>3, <2>1 DEF network, Inv, Flight
<1> QED BY <1>4, <1>5 DEF Rounded

LEMMA RoundStep == Inv /\ [Next]_vars => Rounded'
<1> SUFFICES ASSUME Inv, [Next]_vars PROVE Rounded'
  OBVIOUS
<1>0. /\ Len(result) \in Nat /\ sequence_number \in Nat
      /\ sequence_number = Len(result) + (IF pc = "read" THEN 1 ELSE 0)
      /\ \A i \in 1..Len(result) : result[i].recv \in BOOLEAN /\ credit[i] \in Int
      /\ outstanding \subseteq 1..Rounds /\ rcvbuf \in Seq(0..Rounds)
      /\ strays \in Nat
  BY Counts
<1>1. CASE Open \/ Statistics \/ Publish \/ Destroy \/ Tick \/ UNCHANGED vars
  <2>1. /\ UNCHANGED <<sequence_number, result, outstanding, rcvbuf, strays, credit>>
        /\ pc = "read" <=> pc' = "read"
    BY <1>1 DEF Open, Statistics, Publish, Destroy, Tick, vars, network
  <2> QED BY <2>1 DEF Inv, Rounded, InStep, NeverAhead, CountedOnce, Flight, AllCounted
<1>2. CASE Send
  <2>1. CASE EndRound(FALSE, 0, -1) /\ UNCHANGED outstanding
    BY <1>0, <1>2, <2>1, EmptyRound DEF Send, EndRound, network
  <2>2. CASE sock = "good" /\ pc' = "read" /\ UNCHANGED <<result, credit, waited>>
             /\ outstanding' = outstanding \cup {sequence_number'}
    <3> DEFINE n == Len(result) + 1
    <3>1. /\ sequence_number = Len(result) /\ sequence_number' = n
          /\ UNCHANGED <<result, credit, rcvbuf, strays>>
      BY <1>0, <1>2, <2>2 DEF Send
    <3>2. /\ n \notin outstanding \cup Range(rcvbuf)
          /\ \A i \in 1..Len(result) : credit[i] # n
      BY <1>0, <3>1 DEF Inv, Flight, NeverAhead
    <3>3. InStep' /\ NeverAhead' /\ CountedOnce'
      BY <3>1 DEF Inv, InStep, NeverAhead, CountedOnce
    <3>4. outstanding' \subseteq 1..sequence_number' /\ Range(rcvbuf') \subseteq 0..sequence_number'
      <4>1. outstanding \subseteq 1..sequence_number /\ Range(rcvbuf) \subseteq 0..sequence_number
        BY DEF Inv, Flight
      <4>2. sequence_number' = sequence_number + 1 /\ rcvbuf' = rcvbuf
        BY <3>1
      <4>3. 1..sequence_number \cup {sequence_number + 1} \subseteq 1..(sequence_number + 1)
        BY <1>0
      <4>4. 0..sequence_number \subseteq 0..(sequence_number + 1)
        BY <1>0
      <4> QED BY <2>2, <4>1, <4>2, <4>3, <4>4
    <3>5. AllCounted' /\ strays = 0 => outstanding \cup Range(rcvbuf) = {}
      BY <1>2, <3>1 DEF Inv, Flight, AllCounted, Send
    <3> HIDE DEF n
    <3> QED BY <2>2, <3>1, <3>2, <3>3, <3>4, <3>5 DEF Inv, Rounded, Flight
  <2> QED BY <1>2, <2>1, <2>2 DEF Send
<1>3. CASE Read
  <2> DEFINE n == Len(result) + 1
             m == Head(rcvbuf)
  <2>1. PICK d \in 0..Slack : EndRound(TRUE, waited + d, m)
    BY <1>3 DEF Read
  <2>2. waited + d \in 0..(Interval + Slack) /\ m \in -1..Rounds /\ Tail(rcvbuf) \in Seq(0..Rounds)
    <3>1. waited \in 0..Interval
      BY DEF Inv, TypeOK, ControlOK
    <3>2. m \in 0..Rounds /\ Tail(rcvbuf) \in Seq(0..Rounds)
      BY <1>0, <1>3, HeadTailProperties DEF Read
    <3> QED BY <3>1, <3>2, PingerAssumption, RoundsPositive
  <2>3. /\ Len(result') = n
        /\ \A i \in 1..Len(result) : result'[i] = result[i] /\ credit'[i] = credit[i]
        /\ result'[n].recv /\ credit'[n] = m
    <3> HIDE DEF m
    <3>1. /\ Len(result') = n
          /\ \A i \in 1..Len(result) : result'[i] = result[i] /\ credit'[i] = credit[i]
          /\ result'[n] = [recv |-> TRUE, cost |-> waited + d]
          /\ credit'[n] = m
      BY <2>1, <2>2, RoundEnds DEF Inv
    <3> QED BY <3>1
  <2>4. /\ Range(rcvbuf) = Range(rcvbuf') \cup {m}
        /\ IsInjective(rcvbuf) => IsInjective(rcvbuf') /\ m \notin Range(rcvbuf')
    BY <1>0, <1>3, TailInjective DEF Read
  <2>5. /\ sequence_number = n /\ pc = "read" /\ pc' # "read"
        /\ UNCHANGED <<sequence_number, outstanding, strays>>
    BY <1>0, <1>3, <2>1 DEF Read, EndRound
  <2>6. m \in 0..n
    BY <2>4, <2>5 DEF Inv, Flight
  <2>7. strays = 0 =>
          /\ IsInjective(rcvbuf') /\ m \notin Range(rcvbuf') \cup outstanding
          /\ \A i \in 1..Len(result) : result[i].recv => credit[i] # m
          /\ AllCounted => m = n /\ outstanding \cup Range(rcvbuf') = {}
    BY <2>4, <2>5 DEF Inv, Flight
  <2>8. AllCounted' => AllCounted
    BY <1>0, <2>3 DEF AllCounted
  <2> HIDE DEF n, m
  <2>n. n = Len(result) + 1
    BY DEF n
  <2>9. NeverAhead'
    BY <1>0, <2>3, <2>6, <2>n DEF Inv, NeverAhead
  <2>10. InStep'
    <3>1. \A i \in 1..Len(result) :
            result'[i].recv /\ strays' = 0 /\ (\A j \in 1..(i - 1) : result'[j].recv)
              => credit'[i] = i
      <4> SUFFICES ASSUME NEW i \in 1..Len(result), result'[i].recv, strays' = 0,
                          \A j \in 1..(i - 1) : result'[j].recv
                   PROVE  credit'[i] = i
        OBVIOUS
      <4>1. \A j \in 1..(i - 1) : j \in 1..Len(result)
        BY <2>1
      <4>2. /\ result[i].recv /\ strays = 0 /\ credit'[i] = credit[i]
            /\ \A j \in 1..(i - 1) : result[j].recv
        BY <2>3, <2>5, <4>1
      <4> QED BY <1>0, <4>2 DEF Inv, InStep
    <3>2. strays' = 0 /\ (\A j \in 1..(n - 1) : result'[j].recv) => credit'[n] = n
      BY <1>0, <2>3, <2>5, <2>7, <2>n DEF AllCounted
    <3> QED BY <1>0, <2>3, <2>n, <3>1, <3>2 DEF InStep
  <2>11. CountedOnce'
    BY <1>0, <2>3, <2>5, <2>7, <2>n DEF Inv, CountedOnce
  <2>12. Flight'
    <3>1. outstanding' \subseteq 1..sequence_number' /\ Range(rcvbuf') \subseteq 0..sequence_number'
      BY <2>4, <2>5 DEF Inv, Flight
    <3>2. strays' = 0 => outstanding' \cap Range(rcvbuf') = {}
      BY <2>4, <2>5 DEF Inv, Flight
    <3>3. strays' = 0 => \A i \in 1..Len(result') :
            result'[i].recv => credit'[i] \notin outstanding' \cup Range(rcvbuf')
      BY <1>0, <2>3, <2>4, <2>5, <2>7, <2>n DEF Inv, Flight
    <3> QED BY <2>5, <2>7, <2>8, <3>1, <3>2, <3>3 DEF Flight
  <2> QED BY <2>9, <2>10, <2>11, <2>12 DEF Rounded
<1>4. CASE ReadFails \/ Interrupted
  <2>1. EndRound(FALSE, 0, -1) /\ UNCHANGED network /\ pc = "read" /\ UNCHANGED sequence_number
    BY <1>4 DEF ReadFails, Interrupted
  <2> QED BY <1>0, <2>1, EmptyRound DEF EndRound
<1>5. CASE Deliver
  <2>1. PICK n \in outstanding : rcvbuf' = Append(rcvbuf, n) /\ outstanding' = outstanding \ {n}
    BY <1>5 DEF Deliver
  <2>2. n \in 0..Rounds
    BY <1>0
  <2>3. Range(rcvbuf') = Range(rcvbuf) \cup {n}
    BY <1>0, <2>1, <2>2, QueueGrows
  <2>4. strays = 0 => IsInjective(rcvbuf')
    BY <1>0, <2>1, <2>2, InjectiveAppend DEF Inv, Flight
  <2>5. UNCHANGED <<pc, sequence_number, result, credit, strays>>
    BY <1>5 DEF Deliver
  <2>6. InStep' /\ NeverAhead' /\ CountedOnce'
    BY <2>5 DEF Inv, InStep, NeverAhead, CountedOnce
  <2>7. Flight'
    BY <2>1, <2>3, <2>4, <2>5 DEF Inv, Flight, AllCounted
  <2> QED BY <2>6, <2>7 DEF Rounded
<1>6. CASE Stray
  <2>1. PICK n \in outstanding \cup {0} : rcvbuf' = Append(rcvbuf, n)
    BY <1>6 DEF Stray
  <2>2. Range(rcvbuf') = Range(rcvbuf) \cup {n}
    <3>1. n \in 0..Rounds
      BY <1>0, RoundsPositive
    <3> QED BY <1>0, <2>1, <3>1, QueueGrows
  <2>3. strays' # 0 /\ UNCHANGED <<sequence_number, result, credit, outstanding>>
    BY <1>0, <1>6 DEF Stray
  <2>4. InStep' /\ NeverAhead' /\ CountedOnce'
    BY <2>3 DEF Inv, InStep, NeverAhead, CountedOnce
  <2>5. Flight'
    BY <1>0, <2>1, <2>2, <2>3 DEF Inv, Flight
  <2> QED BY <2>4, <2>5 DEF Rounded
<1> QED BY <1>1, <1>2, <1>3, <1>4, <1>5, <1>6 DEF Next, Run

-----------------------------------------------------------------------------
(* What statistics() sums up: each turn of its loop adds one round.        *)
LEMMA SumsStep == Inv /\ [Next]_vars => Sums'
<1> SUFFICES ASSUME Inv, [Next]_vars PROVE Sums'
  OBVIOUS
<1>0. /\ at \in Nat /\ Len(result) \in Nat /\ at <= Len(result)
      /\ \A i \in 1..Len(result) : result[i] \in [recv : BOOLEAN, cost : 0..(Interval + Slack)]
      /\ status \in [loss : Int, max : Nat, sum : Nat, min : Nat]
      /\ Rounds \in Nat
  <2>1. Len(result) \in Nat
    BY Counts
  <2>2. \A i \in 1..Len(result) : result[i] \in [recv : BOOLEAN, cost : 0..(Interval + Slack)]
    BY ElementOfSeq DEF Inv, TypeOK, HistoryOK
  <2>3. at \in 0..Len(result)
    BY DEF Inv, TypeOK, ControlOK
  <2>4. status \in [loss : Int, max : Nat, sum : Nat, min : Nat]
    BY DEF Inv, TypeOK, StatusOK
  <2> QED BY <2>1, <2>2, <2>3, <2>4, RoundsPositive
<1>1. ASSUME UNCHANGED <<at, status>>,
             \A i \in 1..at : result'[i] = result[i]
      PROVE  Sums'
  <2>1. Received(at)' = Received(at)
    BY <1>1 DEF Received
  <2>2. Costs(at)' = Costs(at)
    BY <1>1, <2>1 DEF Costs, Received
  <2> QED BY <1>1, <2>1, <2>2 DEF Inv, Sums, IsMaxOf, IsMinOf
<1>2. ASSUME UNCHANGED <<at, status, result>> PROVE Sums'
  BY <1>1, <1>2
<1>3. CASE Open \/ Publish \/ Destroy \/ Deliver \/ Stray \/ Tick \/ UNCHANGED vars
  BY <1>2, <1>3 DEF Open, Publish, Destroy, Deliver, Stray, Tick, vars
<1>4. CASE Send \/ Read \/ ReadFails \/ Interrupted
  <2>1. UNCHANGED <<at, status>> /\ pc \in {"send", "read"}
    BY <1>4 DEF Send, Read, ReadFails, Interrupted
  <2>2. at = 0
    BY <2>1 DEF Inv, TypeOK, ControlOK
  <2> QED BY <1>1, <2>1, <2>2
<1>5. CASE Statistics
  <2> DEFINE n == at + 1
             c == result[n].cost
  <2>1. n \in 1..Len(result) /\ at' = n /\ result' = result /\ status' = Account(status, result[n])
    BY <1>0, <1>5 DEF Statistics
  <2>2. c \in Nat /\ result[n].recv \in BOOLEAN
    BY <1>0, <2>1, PingerAssumption
  <2>3. Received(at)' = IF result[n].recv THEN Received(at) \cup {n} ELSE Received(at)
    BY <1>0, <2>1 DEF Received
  <2>4. IsFiniteSet(Received(at)) /\ n \notin Received(at) /\ Cardinality(Received(at)) \in Nat
    <3>1. IsFiniteSet(1..at)
      BY <1>0, 1 \in Int, FS_Interval
    <3>2. IsFiniteSet(Received(at))
      BY <3>1, FS_Subset DEF Received
    <3> QED BY <1>0, <3>2, FS_CardinalityType DEF Received
  <2>5. CASE ~result[n].recv
    <3>1. status' = status /\ Received(at)' = Received(at)
      BY <2>1, <2>3, <2>5 DEF Account
    <3>2. Costs(at)' = Costs(at)
      BY <2>1, <3>1 DEF Costs
    <3> QED BY <3>1, <3>2 DEF Inv, Sums, IsMaxOf, IsMinOf
  <2>6. CASE result[n].recv
    <3>1. Costs(at)' = Costs(at) \cup {c}
      BY <2>1, <2>3, <2>6 DEF Costs
    <3>2. Cardinality(Received(at)') = Cardinality(Received(at)) + 1
      BY <2>3, <2>4, <2>6, FS_AddElement
    <3>3. /\ status'.loss = status.loss - 2
          /\ status'.max = IF status.max < c THEN c ELSE status.max
          /\ status'.min = IF status.min > c THEN c ELSE status.min
      BY <2>1, <2>6 DEF Account
    <3>4. status'.loss = 2 * (Rounds - Cardinality(Received(at)'))
      BY <1>0, <2>4, <3>2, <3>3 DEF Inv, Sums
    <3>5. \A x \in Costs(at) : x \in Nat
      BY <1>0, PingerAssumption DEF Costs, Received
    <3> HIDE DEF n, c
    <3>6. IsMaxOf(status'.max, Costs(at)' \cup {0})
      BY <1>0, <2>2, <3>1, <3>3, <3>5 DEF Inv, Sums, IsMaxOf
    <3>7. IsMinOf(status'.min, Costs(at)' \cup {Interval})
      BY <1>0, <2>2, <3>1, <3>3, <3>5, PingerAssumption DEF Inv, Sums, IsMinOf
    <3> QED BY <3>4, <3>6, <3>7 DEF Sums
  <2> QED BY <2>5, <2>6
<1> QED BY <1>3, <1>4, <1>5 DEF Next, Run

-----------------------------------------------------------------------------
(* The inductive invariant of the pinger.                                  *)
THEOREM Invariance == Spec => []Inv
<1>1. Inv /\ [Next]_vars => Inv'
  BY TypeStep, RoundStep, SumsStep DEF Inv, Rounded
<1> QED BY InitInv, <1>1, PTL DEF Spec

(* Every variable keeps its type; one round, one PingState, one sequence   *)
(* number.                                                                 *)
THEOREM TypeCorrect == Spec => []TypeOK
BY Invariance, PTL DEF Inv

(* Rounds and requests get out of step only after a round without a reply  *)
(* or a stray message.                                                     *)
THEOREM RoundsInStep == Spec => []InStep
BY Invariance, PTL DEF Inv

(* No round counts the reply to a later round's request.                   *)
THEOREM NoReplyFromTheFuture == Spec => []NeverAhead
BY Invariance, PTL DEF Inv

(* No reply is counted in two rounds, however late the replies come.       *)
THEOREM RepliesCountedOnce == Spec => []CountedOnce
BY Invariance, PTL DEF Inv

(* The reported loss, least and greatest times are those of the rounds,    *)
(* for every number of rounds.                                             *)
THEOREM StatisticsSound == Spec => []StatusSound
<1>1. ASSUME Inv, pc \in {"done", "gone"} PROVE StatusSound
  <2>1. at = Len(result)
    BY <1>1 DEF Inv, TypeOK, ControlOK
  <2>2. status \in [loss : Int, max : Nat, sum : Nat, min : Nat]
    BY <1>1 DEF Inv, TypeOK, StatusOK
  <2>3. Costs(at) \subseteq Nat
    <3>1. \A i \in 1..Len(result) : result[i] \in [recv : BOOLEAN, cost : 0..(Interval + Slack)]
      BY <1>1, ElementOfSeq DEF Inv, TypeOK, HistoryOK
    <3> QED BY <2>1, <3>1, PingerAssumption DEF Costs, Received
  <2>4. status.max = Max(Costs(at) \cup {0})
    BY <1>1, <2>2, <2>3 DEF Inv, Sums, IsMaxOf, Max
  <2>5. status.min = Min(Costs(at) \cup {Interval})
    BY <1>1, <2>2, <2>3, PingerAssumption DEF Inv, Sums, IsMinOf, Min
  <2> QED BY <1>1, <2>1, <2>4, <2>5 DEF Inv, Sums, StatusSound
<1>2. Inv => StatusSound
  BY <1>1 DEF StatusSound
<1> QED BY <1>2, Invariance, PTL

-----------------------------------------------------------------------------
(* Which datagram is taken for the reply (EchoPacket), for any pids, sizes,*)
(* options and cuts.  The checksum is left as it is: the proof needs its   *)
(* place only.                                                             *)
LEMMA MinOfTwo ==
  ASSUME NEW a \in Nat, NEW b \in Nat
  PROVE  Min({a, b}) = IF a <= b THEN a ELSE b
BY DEF Min

(* istream::read, as long as it does not fail.                             *)
Reads(S, s, rep, from, n, r) ==
  /\ r.bytes \in Seq(S) /\ r.ok \in BOOLEAN /\ DOMAIN r.rep = DOMAIN rep
  /\ r.ok <=> s.ok /\ n <= Len(s.bytes)
  /\ r.ok => /\ Len(r.bytes) = Len(s.bytes) - n
             /\ \A j \in 1..(Len(s.bytes) - n) : r.bytes[j] = s.bytes[n + j]
             /\ \A i \in DOMAIN rep : i - from \in 1..n => r.rep[i] = s.bytes[i - from]

LEMMA ReadIntoReads ==
  ASSUME NEW S, NEW s, s.bytes \in Seq(S), s.ok \in BOOLEAN,
         NEW rep, NEW from \in Nat, NEW n \in Nat
  PROVE  Reads(S, s, rep, from, n, ReadInto(s, rep, from, n))
<1>0. PICK r : r = ReadInto(s, rep, from, n)
  OBVIOUS
<1> DEFINE count == IF s.ok THEN Min({n, Len(s.bytes)}) ELSE 0
<1>1. /\ Len(s.bytes) \in Nat
      /\ r.rep = [i \in DOMAIN rep |-> IF i - from \in 1..count THEN s.bytes[i - from] ELSE rep[i]]
      /\ r.bytes = SubSeq(s.bytes, count + 1, Len(s.bytes))
      /\ r.ok = (s.ok /\ count = n)
  BY <1>0, LenProperties DEF ReadInto
<1>2. /\ count \in 0..Len(s.bytes)
      /\ s.ok /\ count = n <=> s.ok /\ n <= Len(s.bytes)
  <2>1. PICK m : m = Len(s.bytes) /\ m \in Nat
    BY <1>1
  <2>2. s.ok => count = IF n <= m THEN n ELSE m
    BY <2>1, MinOfTwo
  <2> QED BY <2>1, <2>2
<1>3. r.ok \in BOOLEAN /\ DOMAIN r.rep = DOMAIN rep /\ (r.ok <=> s.ok /\ count = n)
  BY <1>1
<1> HIDE DEF count
<1>4. Parts(S, s.bytes, count, Len(s.bytes), r.bytes)
  BY <1>1, <1>2, Parted
<1>5. ASSUME count = n
      PROVE  \A i \in DOMAIN rep : i - from \in 1..n => r.rep[i] = s.bytes[i - from]
  BY <1>1, <1>5
<1>6. Reads(S, s, rep, from, n, r)
  BY <1>1, <1>2, <1>3, <1>4, <1>5 DEF Parts, Reads
<1> QED BY <1>0, <1>6

(* A message of the given type, in front of its body.  (S can be made to   *)
(* hold the bytes of what else is in the datagram.)                        *)
LEMMA PacketBytes ==
  ASSUME NEW type, NEW id, NEW seq, NEW n \in Nat, NEW p, p = Packet(type, id, seq, Zeros(n)),
         NEW others
  PROVE  \E S : /\ others \subseteq S /\ p \in Seq(S) /\ Len(p) = 8 + n
                /\ p[1] = type
                /\ p[5] = id \div 256 /\ p[6] = id % 256
                /\ p[7] = seq \div 256 /\ p[8] = seq % 256
<1>0. PICK sum : sum = compute_checksum(<<type, 0>> \o (encode(id) \o encode(seq)), Zeros(n))
  OBVIOUS
<1>1. PICK v, w, x, y, z : v = <<type, 0>> /\ w = encode(sum) /\ x = encode(id) /\ y = encode(seq) /\ z = Zeros(n)
  OBVIOUS
<1> DEFINE S == {type, 0, sum \div 256, sum % 256, id \div 256, id % 256, seq \div 256, seq % 256}
                \cup others
<1>3. /\ v \in Seq(S) /\ Len(v) = 2 /\ v[1] = type
      /\ w \in Seq(S) /\ Len(w) = 2
      /\ x \in Seq(S) /\ Len(x) = 2 /\ x[1] = id \div 256 /\ x[2] = id % 256
      /\ y \in Seq(S) /\ Len(y) = 2 /\ y[1] = seq \div 256 /\ y[2] = seq % 256
  BY <1>1 DEF encode
<1>4. z \in Seq(S) /\ Len(z) = n
  BY <1>1 DEF Zeros
<1>a. others \subseteq S
  OBVIOUS
<1> HIDE DEF S
<1>5. PICK a, b, c : a = v \o w /\ b = x \o y /\ c = a \o b
  OBVIOUS
<1>6. a \in Seq(S) /\ Len(a) = 4 /\ a[1] = type
  <2>1. Joins(S, v, w, a)
    BY <1>3, <1>5, Joined
  <2>2. 1 \in 1..2
    OBVIOUS
  <2> QED BY <1>3, <2>1, <2>2 DEF Joins
<1>7. /\ b \in Seq(S) /\ Len(b) = 4
      /\ b[1] = id \div 256 /\ b[2] = id % 256 /\ b[3] = seq \div 256 /\ b[4] = seq % 256
  <2>1. Joins(S, x, y, b)
    BY <1>3, <1>5, Joined
  <2>2. 1 \in 1..2 /\ 2 \in 1..2 /\ 2 + 1 = 3 /\ 2 + 2 = 4
    OBVIOUS
  <2> QED BY <1>3, <2>1, <2>2 DEF Joins
<1>8. /\ c \in Seq(S) /\ Len(c) = 8 /\ c[1] = type
      /\ c[5] = b[1] /\ c[6] = b[2] /\ c[7] = b[3] /\ c[8] = b[4]
  <2>1. Joins(S, a, b, c)
    BY <1>5, <1>6, <1>7, Joined
  <2>2. /\ 1 \in 1..4 /\ 2 \in 1..4 /\ 3 \in 1..4 /\ 4 \in 1..4
        /\ 4 + 1 = 5 /\ 4 + 2 = 6 /\ 4 + 3 = 7 /\ 4 + 4 = 8
    OBVIOUS
  <2> QED BY <1>6, <1>7, <2>1, <2>2 DEF Joins
<1>9. Joins(S, c, z, p)
  <2>1. p = c \o z
    BY <1>0, <1>1, <1>5 DEF Packet
  <2> QED BY <1>4, <1>8, <2>1, Joined
<1>10. p \in Seq(S) /\ Len(p) = 8 + n /\ \A i \in 1..8 : p[i] = c[i]
  BY <1>4, <1>8, <1>9 DEF Joins
<1>11. 1 \in 1..8 /\ 5 \in 1..8 /\ 6 \in 1..8 /\ 7 \in 1..8 /\ 8 \in 1..8
  OBVIOUS
<1> QED BY <1>a, <1>7, <1>8, <1>10, <1>11

(* A datagram that is cut off.                                             *)
Clip(S, full, cut, bytes) ==
  /\ bytes \in Seq(S)
  /\ Len(bytes) = IF cut <= Len(full) THEN cut ELSE Len(full)
  /\ \A i \in 1..Len(bytes) : bytes[i] = full[i]

LEMMA Clipped ==
  ASSUME NEW S, NEW full \in Seq(S), NEW cut \in Nat
  PROVE  Clip(S, full, cut, SubSeq(full, 1, Min({cut, Len(full)})))
<1>1. Len(full) \in Nat
  BY LenProperties
<1>2. PICK n : n = IF cut <= Len(full) THEN cut ELSE Len(full)
  OBVIOUS
<1>3. n \in Nat /\ n <= Len(full) /\ Min({cut, Len(full)}) = n
  BY <1>1, <1>2, MinOfTwo
<1>4. Parts(S, full, 0, n, SubSeq(full, 0 + 1, n))
  BY <1>3, Parted
<1>5. 0 + 1 = 1
  OBVIOUS
<1>6. PICK bytes : bytes = SubSeq(full, 1, n)
  OBVIOUS
<1>7. bytes \in Seq(S) /\ Len(bytes) = n /\ \A i \in 1..n : bytes[i] = full[i]
  <2>1. Parts(S, full, 0, n, bytes)
    BY <1>4, <1>5, <1>6
  <2> QED BY <1>3, <2>1 DEF Parts
<1>8. Clip(S, full, cut, bytes)
  BY <1>2, <1>7 DEF Clip
<1> QED BY <1>3, <1>6, <1>8

(* What is in a datagram, cut off or not: an IP header that tells its      *)
(* length, if there is one, and the message behind it.                     *)
HeaderLength(d) == 20 + 4 * d.ip

Message(d, bytes, h) ==
  /\ bytes[h + 1] = d.type
  /\ bytes[h + 5] = d.id \div 256 /\ bytes[h + 6] = d.id % 256
  /\ bytes[h + 7] = d.seq \div 256 /\ bytes[h + 8] = d.seq % 256

Bare(d, bytes) == Len(bytes) > 0 => bytes[1] = d.type

Headed(d, bytes) ==
  LET h == HeaderLength(d) IN
    /\ Len(bytes) > 0 => bytes[1] = 69 + d.ip
    /\ h + 8 <= Len(bytes) <=> h + 8 <= d.cut
    /\ h + 8 <= Len(bytes) => Message(d, bytes, h)

LEMMA CutsAreNat == \A c \in Cuts \cup {Uncut} : c \in Nat
<1>1. Uncut \in Nat
  BY SMT DEF Uncut
<1>2. Cuts \subseteq Nat
  BY EchoPacketAssumption
<1> QED BY <1>1, <1>2

LEMMA DatagramBytes ==
  ASSUME size \in Nat, NEW d \in Arrivals, NEW bytes, bytes = Datagram(d)
  PROVE  \E S : bytes \in Seq(S) /\ IF d.ip = -1 THEN Bare(d, bytes) ELSE Headed(d, bytes)
<1>1. /\ d.ip = -1 \/ (d.ip \in Nat /\ d.ip <= 10)
      /\ d.cut \in Nat
  <2>1. d.ip \in OptionWords \cup {-1} /\ d.cut \in Cuts \cup {Uncut}
    BY DEF Arrivals
  <2>2. d.cut \in Nat
    BY <2>1, CutsAreNat
  <2>3. \A w \in OptionWords \cup {-1} : w = -1 \/ (w \in Nat /\ w <= 10)
    BY EchoPacketAssumption, SMT
  <2> QED BY <2>1, <2>2, <2>3
<1>2. PICK p, w : p = Packet(d.type, d.id, d.seq, Zeros(size)) /\ w = d.ip
  OBVIOUS
<1>3. PICK S : /\ 69 + w \in S /\ 0 \in S /\ p \in Seq(S) /\ Len(p) = 8 + size
               /\ p[1] = d.type
               /\ p[5] = d.id \div 256 /\ p[6] = d.id % 256
               /\ p[7] = d.seq \div 256 /\ p[8] = d.seq % 256
  <2>1. PICK others : 69 + w \in others /\ 0 \in others
    <3>1. 69 + w \in {69 + w, 0} /\ 0 \in {69 + w, 0}
      OBVIOUS
    <3> QED BY <3>1
  <2>2. \E S : /\ others \subseteq S /\ p \in Seq(S) /\ Len(p) = 8 + size
               /\ p[1] = d.type
               /\ p[5] = d.id \div 256 /\ p[6] = d.id % 256
               /\ p[7] = d.seq \div 256 /\ p[8] = d.seq % 256
    BY <1>2, PacketBytes
  <2> QED BY <2>1, <2>2
<1>4. CASE w = -1
  <2>1. bytes = SubSeq(p, 1, Min({d.cut, Len(p)}))
    <3>1. <<>> \o p = p
      BY <1>3, ConcatEmptySeq
    <3> QED BY <1>2, <1>4, <3>1 DEF Datagram
  <2>2. Clip(S, p, d.cut, bytes)
    BY <1>1, <1>3, <2>1, Clipped
  <2>3. bytes \in Seq(S) /\ Len(bytes) \in Nat /\ \A i \in 1..Len(bytes) : bytes[i] = p[i]
    BY <2>2, LenProperties DEF Clip
  <2>4. Bare(d, bytes)
    BY <1>3, <2>3 DEF Bare
  <2> QED BY <1>2, <1>4, <2>3, <2>4
<1>5. CASE w \in Nat /\ w <= 10
  <2>1. PICK ip, full : ip = IpHeader(w) /\ full = ip \o p
    OBVIOUS
  <2>2. ip \in Seq(S) /\ Len(ip) = 20 + 4 * w /\ ip[1] = 69 + w
    <3>1. PICK a, z : a = <<64 + 5 + w>> /\ z = Zeros(19 + 4 * w)
      OBVIOUS
    <3>2. a \in Seq(S) /\ Len(a) = 1 /\ a[1] = 69 + w
      BY <1>3, <1>5, <3>1
    <3>3. z \in Seq(S) /\ Len(z) = 19 + 4 * w
      BY <1>3, <1>5, <3>1 DEF Zeros
    <3>4. ip = a \o z
      BY <2>1, <3>1 DEF IpHeader
    <3>5. Joins(S, a, z, ip)
      BY <3>2, <3>3, <3>4, Joined
    <3>6. 1 \in 1..1
      OBVIOUS
    <3> QED BY <1>5, <3>2, <3>3, <3>5, <3>6 DEF Joins
  <2>3. Joins(S, ip, p, full)
    BY <1>3, <2>1, <2>2, Joined
  <2>4. PICK h : h = 20 + 4 * w /\ h \in Nat
    BY <1>5
  <2>5. /\ full \in Seq(S) /\ Len(full) = h + 8 + size /\ full[1] = 69 + w
        /\ \A i \in 1..8 : full[h + i] = p[i]
    <3>1. /\ full \in Seq(S) /\ Len(full) = h + (8 + size)
          /\ \A i \in 1..h : full[i] = ip[i]
          /\ \A i \in 1..(8 + size) : full[h + i] = p[i]
      BY <1>3, <2>2, <2>3, <2>4 DEF Joins
    <3>2. 1 \in 1..h /\ 1..8 \subseteq 1..(8 + size) /\ h + (8 + size) = h + 8 + size
      BY <1>5, <2>4
    <3> QED BY <2>2, <3>1, <3>2
  <2>6. bytes = SubSeq(full, 1, Min({d.cut, Len(full)}))
    <3>1. d.ip # -1
      BY <1>2, <1>5
    <3> QED BY <1>2, <2>1, <3>1 DEF Datagram
  <2>7. Clip(S, full, d.cut, bytes)
    <3>1. full \in Seq(S) /\ d.cut \in Nat
      BY <1>1, <2>5
    <3> QED BY <2>6, <3>1, Clipped
  <2>8. /\ bytes \in Seq(S) /\ Len(bytes) \in Nat
        /\ Len(bytes) = IF d.cut <= Len(full) THEN d.cut ELSE Len(full)
        /\ \A i \in 1..Len(bytes) : bytes[i] = full[i]
    BY <2>7, LenProperties DEF Clip
  <2>10. h + 8 <= Len(bytes) <=> h + 8 <= d.cut
    <3>1. PICK c, f, n : c = d.cut /\ f = Len(full) /\ n = Len(bytes)
      OBVIOUS
    <3>2. c \in Nat /\ f = h + 8 + size /\ n = IF c <= f THEN c ELSE f
      BY <1>1, <2>5, <2>8, <3>1
    <3>3. h + 8 <= n <=> h + 8 <= c
      BY <2>4, <3>2
    <3> QED BY <3>1, <3>3
  <2>11. Len(bytes) > 0 => bytes[1] = 69 + w
    BY <2>5, <2>8
  <2>12. ASSUME h + 8 <= Len(bytes), NEW i \in 1..8 PROVE bytes[h + i] = p[i]
    <3>1. h + i \in 1..Len(bytes)
      BY <2>4, <2>8, <2>12
    <3> QED BY <2>5, <2>8, <3>1
  <2>13. 1 \in 1..8 /\ 5 \in 1..8 /\ 6 \in 1..8 /\ 7 \in 1..8 /\ 8 \in 1..8
    OBVIOUS
  <2>14. h + 8 <= Len(bytes) => Message(d, bytes, h)
    BY <1>3, <2>12, <2>13 DEF Message
  <2>15. Headed(d, bytes)
    BY <1>2, <2>4, <2>10, <2>11, <2>14 DEF Headed, HeaderLength
  <2> QED BY <1>2, <1>5, <2>8, <2>15
<1> QED BY <1>1, <1>2, <1>4, <1>5

(* What operator>> leaves of an IP header, and where it stops: the options *)
(* are skipped, however many there are.                                    *)
HeaderResult(S, bytes, r) ==
  /\ r.bytes \in Seq(S) /\ r.ok \in BOOLEAN /\ DOMAIN r.rep = 1..60
  /\ r.ok => Len(bytes) >= 20 /\ bytes[1] \div 16 = 4
  /\ \A w \in Nat : w <= 10 /\ Len(bytes) >= 20 /\ bytes[1] = 69 + w =>
       /\ r.ok <=> 20 + 4 * w <= Len(bytes)
       /\ r.ok => /\ Len(r.bytes) = Len(bytes) - (20 + 4 * w)
                  /\ \A j \in 1..Len(r.bytes) : r.bytes[j] = bytes[20 + 4 * w + j]

LEMMA HeaderRead ==
  ASSUME NEW S, NEW bytes \in Seq(S), NEW rep, DOMAIN rep = 1..60,
         NEW r, r = ReadIpv4([bytes |-> bytes, ok |-> TRUE], rep)
  PROVE  HeaderResult(S, bytes, r)
<1>1. PICK s, fixed, length : /\ s = [bytes |-> bytes, ok |-> TRUE]
                              /\ fixed = ReadInto(s, rep, 0, 20)
                              /\ length = OptionsLength(fixed.rep)
  OBVIOUS
<1>2. PICK good : good = [fixed EXCEPT !.ok = @ /\ fixed.rep[1] \div 16 = 4]
  OBVIOUS
<1>3. s.bytes = bytes /\ s.ok = TRUE /\ Len(bytes) \in Nat
  BY <1>1, LenProperties
<1>4. Reads(S, s, rep, 0, 20, fixed)
  BY <1>1, <1>3, ReadIntoReads
<1>a. /\ fixed.bytes \in Seq(S) /\ fixed.ok \in BOOLEAN /\ DOMAIN fixed.rep = 1..60
      /\ fixed.ok <=> 20 <= Len(bytes)
      /\ fixed.ok => /\ Len(fixed.bytes) = Len(bytes) - 20
                     /\ \A j \in 1..(Len(bytes) - 20) : fixed.bytes[j] = bytes[20 + j]
  BY <1>3, <1>4 DEF Reads
<1>5. fixed.ok => fixed.rep[1] = bytes[1]
  <2>1. 1 \in 1..60 /\ 1 - 0 \in 1..20 /\ 1 - 0 = 1
    OBVIOUS
  <2> QED BY <1>3, <1>4, <2>1 DEF Reads
<1>6. /\ good.bytes = fixed.bytes /\ good.rep = fixed.rep /\ good.ok \in BOOLEAN
      /\ good.ok <=> fixed.ok /\ fixed.rep[1] \div 16 = 4
  BY <1>1, <1>2, <1>a DEF ReadInto
<1>7. r = IF length \in 0..40 THEN ReadInto(good, fixed.rep, 20, length) ELSE [good EXCEPT !.ok = FALSE]
  BY <1>1, <1>2 DEF ReadIpv4
<1>8. CASE length \notin 0..40
  <2>1. r = [good EXCEPT !.ok = FALSE]
    BY <1>7, <1>8
  <2>2. r.bytes = good.bytes /\ r.rep = good.rep /\ r.ok = FALSE
    BY <1>1, <1>2, <2>1 DEF ReadInto
  <2>3. ASSUME NEW w \in Nat, w <= 10, Len(bytes) >= 20, bytes[1] = 69 + w
        PROVE  FALSE
    <3>1. length = ((69 + w) % 16) * 4 - 20
      BY <1>1, <1>3, <1>a, <1>5, <2>3 DEF OptionsLength
    <3>2. (69 + w) % 16 = 5 + w
      BY <2>3
    <3> QED BY <1>8, <2>3, <3>1, <3>2
  <2> QED BY <1>a, <1>6, <2>2, <2>3 DEF HeaderResult
<1>9. CASE length \in 0..40
  <2>1. Reads(S, good, fixed.rep, 20, length, r)
    <3>1. length \in Nat
      BY <1>9
    <3>2. good.bytes \in Seq(S) /\ good.ok \in BOOLEAN
      BY <1>a, <1>6
    <3>3. r = ReadInto(good, fixed.rep, 20, length)
      BY <1>7, <1>9
    <3> QED BY <3>1, <3>2, <3>3, ReadIntoReads
  <2>2. /\ r.bytes \in Seq(S) /\ r.ok \in BOOLEAN /\ DOMAIN r.rep = 1..60
        /\ r.ok <=> good.ok /\ length <= Len(good.bytes)
        /\ r.ok => /\ Len(r.bytes) = Len(good.bytes) - length
                   /\ \A j \in 1..(Len(good.bytes) - length) : r.bytes[j] = good.bytes[length + j]
    BY <1>a, <2>1 DEF Reads
  <2>3. r.ok => Len(bytes) >= 20 /\ bytes[1] \div 16 = 4
    BY <1>3, <1>a, <1>5, <1>6, <2>2
  <2>4. ASSUME NEW w \in Nat, w <= 10, Len(bytes) >= 20, bytes[1] = 69 + w
        PROVE  /\ r.ok <=> 20 + 4 * w <= Len(bytes)
               /\ r.ok => /\ Len(r.bytes) = Len(bytes) - (20 + 4 * w)
                          /\ \A j \in 1..Len(r.bytes) : r.bytes[j] = bytes[20 + 4 * w + j]
    <3>1. (69 + w) % 16 = 5 + w /\ (69 + w) \div 16 = 4
      BY <2>4
    <3>2. fixed.ok /\ good.ok
      BY <1>3, <1>a, <1>5, <1>6, <2>4, <3>1
    <3>3. length = 4 * w
      <4>1. fixed.rep[1] = 69 + w
        BY <1>5, <2>4, <3>2
      <4>2. length = ((69 + w) % 16) * 4 - 20
        BY <1>1, <4>1 DEF OptionsLength
      <4> QED BY <2>4, <3>1, <4>2
    <3>4. PICK m : m = 4 * w /\ m \in Nat
      BY <2>4
    <3>a. m \in Nat
      BY <3>4
    <3>b. PICK k : k = Len(bytes) /\ k \in Nat
      BY <1>3
    <3>5. Len(good.bytes) = Len(bytes) - 20 /\ Len(bytes) - 20 \in Nat
      BY <1>3, <1>a, <1>6, <2>4, <3>2
    <3>6. r.ok <=> 20 + m <= Len(bytes)
      BY <1>3, <2>2, <3>2, <3>3, <3>4, <3>5
    <3>7. ASSUME r.ok PROVE Len(r.bytes) = Len(bytes) - (20 + m)
      <4>1. Len(r.bytes) = Len(good.bytes) - length
        BY <2>2, <3>7
      <4>2. Len(r.bytes) = (Len(bytes) - 20) - m
        BY <3>3, <3>4, <3>5, <4>1
      <4>3. (k - 20) - m = k - (20 + m)
        BY <3>a, <3>b
      <4> QED BY <3>b, <4>2, <4>3
    <3>8. ASSUME r.ok, NEW j \in 1..Len(r.bytes) PROVE r.bytes[j] = bytes[20 + m + j]
      <4>1. j \in Nat /\ j >= 1 /\ j <= Len(bytes) - 20 - m
        <5>1. Len(r.bytes) = Len(bytes) - (20 + m)
          BY <3>7, <3>8
        <5>2. j \in 1..(k - (20 + m))
          BY <3>8, <3>b, <5>1
        <5>3. j \in Nat /\ j >= 1 /\ j <= k - 20 - m
          BY <3>a, <3>b, <5>2
        <5> QED BY <3>b, <5>3
      <4>2. j \in 1..(Len(good.bytes) - length)
        BY <1>3, <3>3, <3>4, <3>5, <4>1
      <4>3. r.bytes[j] = fixed.bytes[m + j]
        BY <1>6, <2>2, <3>3, <3>4, <3>8, <4>2
      <4>4. m + j \in 1..(Len(bytes) - 20) /\ 20 + (m + j) = 20 + m + j
        BY <1>3, <3>4, <4>1
      <4> QED BY <1>a, <3>2, <4>3, <4>4
    <3> QED BY <3>4, <3>6, <3>7, <3>8
  <2> QED BY <2>2, <2>3, <2>4 DEF HeaderResult
<1> QED BY <1>8, <1>9

(* What the test of read_data finds, whatever the headers held before.     *)
LEMMA Recognition ==
  ASSUME size \in Nat, pid \in Pids, echo_seq \in Nat,
         DOMAIN ipv4_hdr = 1..60, DOMAIN icmp_hdr = 1..8, NEW d \in Arrivals,
         NEW ip, ip = ReadIpv4([bytes |-> Datagram(d), ok |-> TRUE], ipv4_hdr),
         NEW icmp, icmp = ReadInto(ip, icmp_hdr, 0, 8)
  PROVE  /\ DOMAIN ip.rep = 1..60 /\ DOMAIN icmp.rep = 1..8
         /\ Recognised(icmp) <=> /\ d.type = EchoReply /\ d.id = pid /\ d.seq = echo_seq
                                 /\ d.ip # -1 /\ d.cut >= 20 + 4 * d.ip + 8
<1>1. PICK bytes : bytes = Datagram(d)
  OBVIOUS
<1>2. PICK S : bytes \in Seq(S) /\ IF d.ip = -1 THEN Bare(d, bytes) ELSE Headed(d, bytes)
  BY <1>1, DatagramBytes
<1>a. HeaderResult(S, bytes, ip)
  BY <1>1, <1>2, HeaderRead
<1>3. /\ ip.bytes \in Seq(S) /\ ip.ok \in BOOLEAN /\ DOMAIN ip.rep = 1..60
      /\ ip.ok => Len(bytes) >= 20 /\ bytes[1] \div 16 = 4
  BY <1>a DEF HeaderResult
<1>4. Reads(S, ip, icmp_hdr, 0, 8, icmp)
  BY <1>3, ReadIntoReads
<1>5. /\ DOMAIN icmp.rep = 1..8 /\ (icmp.ok <=> ip.ok /\ 8 <= Len(ip.bytes))
      /\ icmp.ok => \A i \in 1..8 : icmp.rep[i] = ip.bytes[i]
  <2>1. \A i \in 1..8 : i - 0 \in 1..8 /\ i - 0 = i
    OBVIOUS
  <2> QED BY <1>4, <2>1 DEF Reads
<1>6. Len(bytes) \in Nat /\ Len(ip.bytes) \in Nat
  BY <1>2, <1>3, LenProperties
<1>7. /\ d.type \in {0, 3}
      /\ d.ip = -1 \/ (d.ip \in Nat /\ d.ip <= 10)
      /\ d.id \in Nat /\ d.seq \in Nat /\ pid \in Nat /\ d.cut \in Nat
  <2>1. /\ d.type \in {EchoReply, 3} /\ d.id \in Pids /\ d.seq \in 1..echo_seq
        /\ d.ip \in OptionWords \cup {-1} /\ d.cut \in Cuts \cup {Uncut}
    BY DEF Arrivals
  <2>2. d.cut \in Nat
    BY <2>1, CutsAreNat
  <2>3. \A w \in OptionWords \cup {-1} : w = -1 \/ (w \in Nat /\ w <= 10)
    BY EchoPacketAssumption, SMT
  <2>4. d.id \in Nat /\ pid \in Nat
    BY <2>1, EchoPacketAssumption
  <2>5. d.type \in {0, 3} /\ d.seq \in Nat
    BY <2>1, SMT DEF EchoReply
  <2> QED BY <2>1, <2>2, <2>3, <2>4, <2>5
<1>8. CASE d.ip = -1
  <2>1. ~ip.ok
    <3>1. SUFFICES ASSUME ip.ok PROVE FALSE
      OBVIOUS
    <3>2. Len(bytes) >= 20 /\ bytes[1] \div 16 = 4 /\ Bare(d, bytes)
      BY <1>2, <1>3, <1>8, <3>1
    <3>3. bytes[1] = d.type
      BY <1>6, <3>2 DEF Bare
    <3>4. 0 \div 16 = 0 /\ 3 \div 16 = 0
      OBVIOUS
    <3> QED BY <1>7, <3>2, <3>3, <3>4
  <2> QED BY <1>3, <1>5, <1>8, <2>1 DEF Recognised
<1>9. CASE d.ip \in Nat /\ d.ip <= 10
  <2>1. PICK h : h = 20 + 4 * d.ip /\ h \in Nat /\ h >= 20
    BY <1>9
  <2>2. /\ Len(bytes) > 0 => bytes[1] = 69 + d.ip
        /\ h + 8 <= Len(bytes) <=> h + 8 <= d.cut
        /\ h + 8 <= Len(bytes) => Message(d, bytes, h)
    <3>1. d.ip # -1
      BY <1>9
    <3>2. Headed(d, bytes)
      BY <1>2, <3>1
    <3> QED BY <2>1, <3>2 DEF Headed, HeaderLength
  <2>3. Len(bytes) >= 20 =>
          /\ ip.ok <=> h <= Len(bytes)
          /\ ip.ok => /\ Len(ip.bytes) = Len(bytes) - h
                      /\ \A j \in 1..Len(ip.bytes) : ip.bytes[j] = bytes[h + j]
    <3>1. Len(bytes) >= 20 => bytes[1] = 69 + d.ip
      BY <1>6, <2>2
    <3> QED BY <1>a, <1>9, <2>1, <3>1 DEF HeaderResult
  <2>4. icmp.ok <=> h + 8 <= d.cut
    BY <1>3, <1>5, <1>6, <2>1, <2>2, <2>3
  <2>5. ASSUME icmp.ok
        PROVE  /\ icmp.rep[1] = d.type
               /\ icmp.rep[5] = d.id \div 256 /\ icmp.rep[6] = d.id % 256
               /\ icmp.rep[7] = d.seq \div 256 /\ icmp.rep[8] = d.seq % 256
    <3>1. Message(d, bytes, h) /\ ip.ok /\ 8 <= Len(ip.bytes) /\ Len(bytes) >= 20
      BY <1>3, <1>5, <2>2, <2>4, <2>5
    <3>2. \A i \in 1..8 : icmp.rep[i] = bytes[h + i]
      <4> SUFFICES ASSUME NEW i \in 1..8 PROVE icmp.rep[i] = bytes[h + i]
        OBVIOUS
      <4>1. icmp.rep[i] = ip.bytes[i]
        BY <1>5, <2>5
      <4>2. i \in 1..Len(ip.bytes)
        BY <1>6, <3>1
      <4> QED BY <2>3, <3>1, <4>1, <4>2
    <3>3. 1 \in 1..8 /\ 5 \in 1..8 /\ 6 \in 1..8 /\ 7 \in 1..8 /\ 8 \in 1..8
      OBVIOUS
    <3> QED BY <3>1, <3>2, <3>3 DEF Message
  <2>6. icmp.ok => decode(icmp.rep, 4) = d.id /\ decode(icmp.rep, 6) = d.seq
    <3>1. 4 + 1 = 5 /\ 4 + 2 = 6 /\ 6 + 1 = 7 /\ 6 + 2 = 8
      OBVIOUS
    <3>2. \A n \in Nat : (n \div 256) * 256 + (n % 256) = n
      OBVIOUS
    <3>3. icmp.ok => /\ decode(icmp.rep, 4) = (d.id \div 256) * 256 + (d.id % 256)
                     /\ decode(icmp.rep, 6) = (d.seq \div 256) * 256 + (d.seq % 256)
      <4> SUFFICES ASSUME icmp.ok
                   PROVE  /\ decode(icmp.rep, 4) = (d.id \div 256) * 256 + (d.id % 256)
                          /\ decode(icmp.rep, 6) = (d.seq \div 256) * 256 + (d.seq % 256)
        OBVIOUS
      <4>1. /\ decode(icmp.rep, 4) = icmp.rep[5] * 256 + icmp.rep[6]
            /\ decode(icmp.rep, 6) = icmp.rep[7] * 256 + icmp.rep[8]
        BY <3>1 DEF decode
      <4> QED BY <2>5, <4>1
    <3>4. d.id \in Nat /\ d.seq \in Nat
      BY <1>7
    <3> QED BY <3>2, <3>3, <3>4, Zenon
  <2>7. d.ip # -1
    BY <1>9
  <2>8. h + 8 <= d.cut <=> d.cut >= 20 + 4 * d.ip + 8
    BY <1>7, <1>9, <2>1
  <2> QED BY <1>3, <1>5, <2>4, <2>5, <2>6, <2>7, <2>8 DEF Recognised
<1> QED BY <1>7, <1>8, <1>9

-----------------------------------------------------------------------------
EchoInv ==
  /\ stage \in {"send", "receive"} /\ pid \in Pids /\ size \in PackageSizes
  /\ echo_seq \in Nat /\ echo_seq <= MaxEchoes
  /\ DOMAIN ipv4_hdr = 1..60 /\ DOMAIN icmp_hdr = 1..8
  /\ ReplyRecognised

(* A datagram is taken for the reply exactly if it is that and both its    *)
(* headers arrived, with whatever IP options, wherever it was cut off: a   *)
(* part of a header is not completed by what the members kept from an      *)
(* earlier one, and of a cut in the body nothing is noticed (read_data,    *)
(* lines 148-158).                                                         *)
THEOREM RepliesRecognised == EchoSpec => []ReplyRecognised
<1>1. EchoInit => EchoInv
  BY EchoPacketAssumption, SMT DEF EchoInit, EchoInv, ReplyRecognised, Zeros
<1>2. EchoInv /\ [EchoNext]_echoVars => EchoInv'
  <2> SUFFICES ASSUME EchoInv, [EchoNext]_echoVars PROVE EchoInv'
    OBVIOUS
  <2>1. CASE BuildRequest
    <3>1. /\ echo_seq' = echo_seq + 1 /\ echo_seq < MaxEchoes /\ stage' \in {"send", "receive"}
          /\ arrived' = <<>> /\ UNCHANGED <<pid, size, ipv4_hdr, icmp_hdr>>
      BY <2>1 DEF BuildRequest, EchoInv
    <3>2. ReplyRecognised'
      BY <3>1 DEF ReplyRecognised
    <3> QED BY <3>1, <3>2, EchoPacketAssumption, SMT DEF EchoInv
  <2>2. CASE ReadReply
    <3>1. PICK d \in Arrivals :
            LET ip == ReadIpv4([bytes |-> Datagram(d), ok |-> TRUE], ipv4_hdr)
                icmp == ReadInto(ip, icmp_hdr, 0, 8)
            IN /\ arrived' = d
               /\ ipv4_hdr' = ip.rep /\ icmp_hdr' = icmp.rep
               /\ matched' = Recognised(icmp)
      BY <2>2 DEF ReadReply
    <3>2. PICK ip, icmp : /\ ip = ReadIpv4([bytes |-> Datagram(d), ok |-> TRUE], ipv4_hdr)
                          /\ icmp = ReadInto(ip, icmp_hdr, 0, 8)
      OBVIOUS
    <3>3. arrived' = d /\ ipv4_hdr' = ip.rep /\ icmp_hdr' = icmp.rep /\ matched' = Recognised(icmp)
      BY <3>1, <3>2
    <3>4. size \in Nat
      BY EchoPacketAssumption, SMT DEF EchoInv
    <3>5. /\ DOMAIN ip.rep = 1..60 /\ DOMAIN icmp.rep = 1..8
          /\ Recognised(icmp) <=> /\ d.type = EchoReply /\ d.id = pid /\ d.seq = echo_seq
                                  /\ d.ip # -1 /\ d.cut >= 20 + 4 * d.ip + 8
      BY <3>2, <3>4, Recognition DEF EchoInv
    <3>6. stage' = "send" /\ UNCHANGED <<pid, size, echo_seq>>
      BY <2>2 DEF ReadReply
    <3>7. ReplyRecognised'
      BY <3>3, <3>5, <3>6 DEF ReplyRecognised
    <3> QED BY <3>3, <3>5, <3>6, <3>7 DEF EchoInv
  <2>3. CASE UNCHANGED echoVars
    BY <2>3 DEF echoVars, EchoInv, ReplyRecognised
  <2> QED BY <2>1, <2>2, <2>3 DEF EchoNext
<1>3. EchoInv => ReplyRecognised
  BY DEF EchoInv
<1> QED BY <1>1, <1>2, <1>3, PTL DEF EchoSpec

-----------------------------------------------------------------------------
(* The sum of the words, element by element.                               *)
WordSums(bytes, p) ==
  /\ p \in [0..Len(bytes) -> Nat] /\ p[0] = 0
  /\ \A i \in 1..Len(bytes) : p[i] = p[i - 1] + Words(bytes)[i]

LEMMA WordsSummed ==
  ASSUME NEW bytes \in Seq(Nat)
  PROVE  \E p : WordSums(bytes, p) /\ SumOfWords(bytes) = p[Len(bytes)]
<1>1. PICK w, n : w = Words(bytes) /\ n = Len(bytes)
  OBVIOUS
<1>2. n \in Nat /\ DOMAIN w = 1..n /\ \A i \in 1..n : w[i] \in Nat
  BY <1>1 DEF Words
<1>3. PICK p : RunningTotal(w, n, p) /\ AddUp(w) = p[n]
  BY <1>2, AddedUp
<1>4. SumOfWords(bytes) = AddUp(w)
  BY <1>1, Zenon DEF SumOfWords, Total, AddUp
<1> QED BY <1>1, <1>3, <1>4 DEF WordSums, RunningTotal

(* Zeros add nothing.                                                      *)
LEMMA ZerosAddNothing ==
  ASSUME NEW bytes \in Seq(Nat), NEW k \in 0..Len(bytes),
         \A i \in (k + 1)..Len(bytes) : bytes[i] = 0
  PROVE  \E p : WordSums(bytes, p) /\ SumOfWords(bytes) = p[k]
<1>1. PICK p : WordSums(bytes, p) /\ SumOfWords(bytes) = p[Len(bytes)]
  BY WordsSummed
<1>2. PICK n : n = Len(bytes) /\ n \in Nat
  BY LenProperties
<1>3. p \in [0..n -> Nat] /\ \A i \in 1..n : p[i] = p[i - 1] + Words(bytes)[i]
  BY <1>1, <1>2 DEF WordSums
<1>4. \A i \in (k + 1)..n : Words(bytes)[i] = 0
  <2>1. \A i \in (k + 1)..n : i \in DOMAIN bytes /\ bytes[i] = 0
    BY <1>2, LenProperties
  <2> QED BY <2>1 DEF Words
<1> DEFINE T == {m \in Nat : k + m <= n => p[k + m] = p[k]}
<1>5. 0 \in T
  OBVIOUS
<1>6. ASSUME NEW m \in Nat, m \in T PROVE m + 1 \in T
  <2> SUFFICES ASSUME k + (m + 1) <= n PROVE p[k + (m + 1)] = p[k]
    OBVIOUS
  <2>1. p[k + m] = p[k]
    BY <1>2, <1>6
  <2>2. PICK i : i = k + (m + 1)
    OBVIOUS
  <2>3. i \in 1..n /\ i \in (k + 1)..n /\ i - 1 = k + m /\ i - 1 \in 0..n
    BY <1>2, <2>2
  <2>4. p[i] = p[i - 1] + 0
    BY <1>3, <1>4, <2>3
  <2> QED BY <1>3, <2>1, <2>2, <2>3, <2>4
<1>7. Nat \subseteq T
  <2> HIDE DEF T
  <2> QED BY <1>5, <1>6, InductionOnNat
<1>8. p[k + (n - k)] = p[k]
  <2>1. n - k \in Nat /\ k + (n - k) <= n
    BY <1>2
  <2> QED BY <1>7, <2>1
<1>9. k + (n - k) = n
  BY <1>2
<1> QED BY <1>1, <1>2, <1>8, <1>9

(* One byte after the other, two bytes a word.                             *)
WordsAdded(bytes, p, k) ==
  p[k] \in Nat /\ p[k + 2] = p[k] + (bytes[k + 1] * 256 + bytes[k + 2]) /\ p[k + 2] \in Nat

LEMMA WordAdded ==
  ASSUME NEW bytes \in Seq(Nat), NEW p, WordSums(bytes, p),
         NEW k \in Nat, k % 2 = 0, k + 2 <= Len(bytes)
  PROVE  WordsAdded(bytes, p, k)
<1>1. PICK n : n = Len(bytes) /\ n \in Nat
  BY LenProperties
<1>2. k + 1 \in 1..n /\ k + 2 \in 1..n /\ (k + 1) - 1 = k /\ (k + 2) - 1 = k + 1 /\ k \in 0..n
      /\ (k + 1) % 2 = 1 /\ (k + 2) % 2 = 0 /\ k + 1 \in 0..n /\ k + 2 \in 0..n
  BY <1>1
<1>3. \A i \in 1..n : Words(bytes)[i] = (IF i % 2 = 1 THEN bytes[i] * 256 ELSE bytes[i]) /\ bytes[i] \in Nat
  <2>1. DOMAIN bytes = 1..n /\ \A i \in 1..n : bytes[i] \in Nat
    BY <1>1, LenProperties
  <2> QED BY <2>1 DEF Words
<1>4. /\ \A i \in 1..n : p[i] = p[i - 1] + Words(bytes)[i]
      /\ \A i \in 0..n : p[i] \in Nat
  BY <1>1 DEF WordSums
<1>5. PICK a, b, x, y, z : a = bytes[k + 1] /\ b = bytes[k + 2] /\ x = p[k] /\ y = p[k + 1] /\ z = p[k + 2]
  OBVIOUS
<1>6. a \in Nat /\ b \in Nat /\ x \in Nat /\ y \in Nat /\ z \in Nat
  BY <1>2, <1>3, <1>4, <1>5
<1>7. y = x + a * 256
  <2>1. Words(bytes)[k + 1] = bytes[k + 1] * 256
    BY <1>2, <1>3
  <2>2. p[k + 1] = p[(k + 1) - 1] + Words(bytes)[k + 1]
    BY <1>2, <1>4
  <2>3. p[(k + 1) - 1] = p[k]
    BY <1>2
  <2> QED BY <1>5, <2>1, <2>2, <2>3
<1>8. z = y + b
  <2>1. Words(bytes)[k + 2] = bytes[k + 2]
    BY <1>2, <1>3
  <2>2. p[k + 2] = p[(k + 2) - 1] + Words(bytes)[k + 2]
    BY <1>2, <1>4
  <2>3. p[(k + 2) - 1] = p[k + 1]
    BY <1>2
  <2> QED BY <1>5, <2>1, <2>2, <2>3
<1>9. z = x + (a * 256 + b)
  BY <1>6, <1>7, <1>8
<1> QED BY <1>5, <1>6, <1>9 DEF WordsAdded

SumsThree(bytes, p) ==
  p[6] = (bytes[1] * 256 + bytes[2]) + (bytes[3] * 256 + bytes[4]) + (bytes[5] * 256 + bytes[6])

SumsFour(bytes, p) ==
  p[8] = (bytes[1] * 256 + bytes[2]) + (bytes[3] * 256 + bytes[4])
           + (bytes[5] * 256 + bytes[6]) + (bytes[7] * 256 + bytes[8])

LEMMA ThreeWords ==
  ASSUME NEW bytes \in Seq(Nat), NEW p, WordSums(bytes, p), 6 <= Len(bytes)
  PROVE  SumsThree(bytes, p)
<1>1. Len(bytes) \in Nat
  BY LenProperties
<1>2. 0 % 2 = 0 /\ 2 % 2 = 0 /\ 4 % 2 = 0 /\ 0 + 2 <= Len(bytes) /\ 2 + 2 <= Len(bytes) /\ 4 + 2 <= Len(bytes)
  BY <1>1
<1>3. WordsAdded(bytes, p, 0)
  BY <1>2, WordAdded
<1>4. WordsAdded(bytes, p, 2)
  BY <1>2, WordAdded
<1>5. WordsAdded(bytes, p, 4)
  BY <1>2, WordAdded
<1>6. PICK a, b, c : a = bytes[1] * 256 + bytes[2] /\ b = bytes[3] * 256 + bytes[4] /\ c = bytes[5] * 256 + bytes[6]
  OBVIOUS
<1>7. p[0] = 0
  BY DEF WordSums
<1>8. p[2] = p[0] + a /\ p[4] = p[2] + b /\ p[6] = p[4] + c
  BY <1>3, <1>4, <1>5, <1>6 DEF WordsAdded
<1>9. a \in Nat /\ b \in Nat /\ c \in Nat
  <2>1. \A i \in 1..6 : bytes[i] \in Nat
    BY <1>1, LenProperties
  <2>2. bytes[1] \in Nat /\ bytes[2] \in Nat /\ bytes[3] \in Nat /\ bytes[4] \in Nat
        /\ bytes[5] \in Nat /\ bytes[6] \in Nat
    BY <2>1
  <2>3. \A x, y \in Nat : x * 256 + y \in Nat
    OBVIOUS
  <2> QED BY <1>6, <2>2, <2>3
<1>10. p[6] = a + b + c
  BY <1>7, <1>8, <1>9
<1> QED BY <1>6, <1>10 DEF SumsThree

LEMMA FourWords ==
  ASSUME NEW bytes \in Seq(Nat), NEW p, WordSums(bytes, p), 8 <= Len(bytes)
  PROVE  SumsFour(bytes, p)
<1>1. Len(bytes) \in Nat
  BY LenProperties
<1>2. 6 <= Len(bytes) /\ 6 % 2 = 0 /\ 6 + 2 <= Len(bytes)
  BY <1>1
<1>3. SumsThree(bytes, p)
  BY <1>2, ThreeWords
<1>4. WordsAdded(bytes, p, 6)
  BY <1>2, WordAdded
<1>5. p[8] = p[6] + (bytes[7] * 256 + bytes[8])
  BY <1>4 DEF WordsAdded
<1> QED BY <1>3, <1>5 DEF SumsThree, SumsFour

(* A carry out of 16 bits is added again: modulo 65535 nothing is lost.    *)
LEMMA Halves ==
  ASSUME NEW sum \in Nat, 0 < sum, sum < 65535 * 65536
  PROVE  \E h \in Nat, l \in Nat :
           /\ h = sum \div 65536 /\ l = sum % 65536
           /\ h <= 65535 /\ l <= 65535 /\ sum = h * 65536 + l
<1>1. sum \div 65536 \in Nat /\ sum \div 65536 <= 65535
  BY SMT
<1>2. sum % 65536 \in Nat /\ sum % 65536 <= 65535
  BY SMT
<1>3. \A n \in Nat : (n \div 65536) * 65536 + (n % 65536) = n
  BY SMT
<1>4. (sum \div 65536) * 65536 + (sum % 65536) = sum
  BY <1>3, SMT
<1> QED BY <1>1, <1>2, <1>4, SMT

Leaves(sum, m, f) == \E q \in Nat : sum = q * m + f

LEMMA Carried ==
  ASSUME NEW h \in Nat, NEW l \in Nat, h <= 65535, l <= 65535, h + l > 0,
         NEW folded, folded = (h + l + (h + l) \div 65536) % 65536
  PROVE  /\ folded \in Nat /\ 1 <= folded /\ folded <= 65535
         /\ Leaves(h * 65536 + l, 65535, folded)
<1>1. CASE h + l < 65536
  <2>1. (h + l) \div 65536 = 0 /\ (h + l) % 65536 = h + l
    BY <1>1, SMT
  <2>2. folded = h + l
    BY <2>1, SMT
  <2>3. h * 65536 + l = h * 65535 + folded
    BY <2>2, SMT
  <2>4. Leaves(h * 65536 + l, 65535, folded)
    <3>1. PICK sum, m : sum = h * 65536 + l /\ m = 65535
      OBVIOUS
    <3>2. sum = h * m + folded
      BY <2>3, <3>1, SMT
    <3>3. Leaves(sum, m, folded)
      BY <3>2 DEF Leaves
    <3> QED BY <3>1, <3>3, SMT
  <2> QED BY <1>1, <2>2, <2>4, SMT
<1>2. CASE h + l >= 65536
  <2>1. (h + l) \div 65536 = 1
    BY <1>2, SMT
  <2>2. (h + l + 1) % 65536 = h + l - 65535
    BY <1>2, SMT
  <2>3. folded = h + l - 65535
    BY <2>1, <2>2, SMT
  <2>4. Leaves(h * 65536 + l, 65535, folded)
    <3>1. PICK sum, m, q : sum = h * 65536 + l /\ m = 65535 /\ q = h + 1
      OBVIOUS
    <3>2. h * 65536 + l = (h + 1) * 65535 + folded
      BY <2>3, SMT
    <3>3. sum = q * m + folded /\ q \in Nat
      BY <3>1, <3>2, SMT
    <3>4. Leaves(sum, m, folded)
      BY <3>3 DEF Leaves
    <3> QED BY <3>1, <3>4, SMT
  <2> QED BY <1>2, <2>3, <2>4, SMT
<1> QED BY <1>1, <1>2, SMT

LEMMA FoldedIsRest ==
  ASSUME NEW sum \in Nat, 0 < sum, sum < 65535 * 65536
  PROVE  /\ Folded(sum) \in Nat /\ 1 <= Folded(sum) /\ Folded(sum) <= 65535
         /\ Leaves(sum, 65535, Folded(sum))
<1>1. PICK h \in Nat, l \in Nat : /\ h = sum \div 65536 /\ l = sum % 65536
                                 /\ h <= 65535 /\ l <= 65535 /\ sum = h * 65536 + l
  BY Halves, SMT
<1>2. h + l > 0
  BY <1>1, SMT
<1>3. Folded(sum) = (h + l + (h + l) \div 65536) % 65536
  BY <1>1, SMT DEF Folded
<1>4. PICK folded : folded = Folded(sum)
  OBVIOUS
<1>5. folded \in Nat /\ 1 <= folded /\ folded <= 65535 /\ Leaves(h * 65536 + l, 65535, folded)
  BY <1>1, <1>2, <1>3, <1>4, Carried, SMT
<1> QED BY <1>1, <1>4, <1>5, SMT

IsWord(x, n) ==
  x \in Seq(Nat) /\ Len(x) = 2 /\ x[1] \in Nat /\ x[2] \in Nat /\ x[1] * 256 + x[2] = n

LEMMA Encoded ==
  ASSUME NEW n \in Nat
  PROVE  IsWord(encode(n), n)
<1>1. n \div 256 \in Nat /\ n % 256 \in Nat /\ (n \div 256) * 256 + (n % 256) = n
  <2>1. \A k \in Nat : (k \div 256) * 256 + (k % 256) = k
    OBVIOUS
  <2> QED BY <2>1
<1>2. PICK a, b : a = n \div 256 /\ b = n % 256
  OBVIOUS
<1>3. encode(n) = <<a, b>> /\ a \in Nat /\ b \in Nat /\ a * 256 + b = n
  BY <1>1, <1>2 DEF encode
<1> QED BY <1>3 DEF IsWord

(* A header without its checksum, and its words.                           *)
HeaderOf(type, id, seq) == <<type, 0>> \o (encode(id) \o encode(seq))

LEMMA SumOfHeader ==
  ASSUME NEW type \in Nat, NEW id \in Nat, NEW seq \in Nat
  PROVE  SumOfWords(HeaderOf(type, id, seq)) = type * 256 + id + seq
<1>1. PICK v, x, y, b, header :
        /\ v = <<type, 0>> /\ x = encode(id) /\ y = encode(seq) /\ b = x \o y
        /\ header = HeaderOf(type, id, seq)
  OBVIOUS
<1>2. /\ v \in Seq(Nat) /\ Len(v) = 2 /\ v[1] = type /\ v[2] = 0
      /\ IsWord(x, id) /\ IsWord(y, seq)
  BY <1>1, Encoded
<1>a. x \in Seq(Nat) /\ Len(x) = 2 /\ y \in Seq(Nat) /\ Len(y) = 2
  BY <1>2 DEF IsWord
<1>3. Joins(Nat, x, y, b)
  BY <1>1, <1>a, Joined
<1>4. /\ b \in Seq(Nat) /\ Len(b) = 4 /\ b[1] = x[1] /\ b[2] = x[2] /\ b[3] = y[1] /\ b[4] = y[2]
  <2>1. 1 \in 1..2 /\ 2 \in 1..2 /\ 2 + 1 = 3 /\ 2 + 2 = 4
    OBVIOUS
  <2> QED BY <1>a, <1>3, <2>1 DEF Joins
<1>5. header = v \o b
  BY <1>1 DEF HeaderOf
<1>6. Joins(Nat, v, b, header)
  BY <1>2, <1>4, <1>5, Joined
<1>7. /\ header \in Seq(Nat) /\ Len(header) = 6 /\ header[1] = type /\ header[2] = 0
      /\ header[3] = b[1] /\ header[4] = b[2] /\ header[5] = b[3] /\ header[6] = b[4]
  <2>1. /\ 1 \in 1..2 /\ 2 \in 1..2 /\ 1 \in 1..4 /\ 2 \in 1..4 /\ 3 \in 1..4 /\ 4 \in 1..4
        /\ 2 + 1 = 3 /\ 2 + 2 = 4 /\ 2 + 3 = 5 /\ 2 + 4 = 6 /\ 2 + 4 = 6
    OBVIOUS
  <2>2. /\ header \in Seq(Nat) /\ Len(header) = 6
        /\ \A i \in 1..2 : header[i] = v[i]
        /\ \A i \in 1..4 : header[2 + i] = b[i]
    BY <1>2, <1>4, <1>6, <2>1 DEF Joins
  <2>3. header[1] = type /\ header[2] = 0
    BY <1>2, <2>1, <2>2
  <2>4. header[3] = b[1] /\ header[4] = b[2] /\ header[5] = b[3] /\ header[6] = b[4]
    BY <2>1, <2>2
  <2> QED BY <2>2, <2>3, <2>4
<1>8. PICK p : WordSums(header, p) /\ SumOfWords(header) = p[6]
  BY <1>7, WordsSummed
<1>9. SumsThree(header, p)
  <2>1. 6 <= Len(header)
    BY <1>7
  <2> QED BY <1>7, <1>8, <2>1, ThreeWords
<1>10. p[6] = (type * 256 + 0) + (x[1] * 256 + x[2]) + (y[1] * 256 + y[2])
  BY <1>4, <1>7, <1>9 DEF SumsThree
<1>11. x[1] * 256 + x[2] = id /\ y[1] * 256 + y[2] = seq
  BY <1>2 DEF IsWord
<1>12. p[6] = (type * 256 + 0) + id + seq
  BY <1>10, <1>11
<1>13. p[6] = type * 256 + id + seq
  BY <1>12
<1> QED BY <1>1, <1>8, <1>13

LEMMA SumOfZeros ==
  ASSUME NEW n \in Nat
  PROVE  Zeros(n) \in Seq(Nat) /\ Len(Zeros(n)) = n /\ SumOfWords(Zeros(n)) = 0
<1>1. PICK z : z = Zeros(n)
  OBVIOUS
<1>2. z \in Seq(Nat) /\ Len(z) = n /\ \A i \in 1..n : z[i] = 0
  BY <1>1 DEF Zeros
<1>3. PICK p : WordSums(z, p) /\ SumOfWords(z) = p[0]
  <2>1. 0 \in 0..Len(z) /\ \A i \in (0 + 1)..Len(z) : z[i] = 0
    BY <1>2
  <2> QED BY <1>2, <2>1, ZerosAddNothing
<1> QED BY <1>1, <1>2, <1>3 DEF WordSums

(* The words of a message, the checksum among them.                        *)
LEMMA SumOfPacket ==
  ASSUME NEW type \in Nat, NEW id \in Nat, NEW seq \in Nat, NEW n \in Nat,
         NEW sum, sum = compute_checksum(<<type, 0>> \o (encode(id) \o encode(seq)), Zeros(n)),
         sum \in Nat
  PROVE  SumOfWords(Packet(type, id, seq, Zeros(n))) = type * 256 + sum + id + seq
<1>1. PICK v, w, x, y, z : v = <<type, 0>> /\ w = encode(sum) /\ x = encode(id) /\ y = encode(seq) /\ z = Zeros(n)
  OBVIOUS
<1>2. PICK a, b, c, packet0 : a = v \o w /\ b = x \o y /\ c = a \o b /\ packet0 = c \o z
  OBVIOUS
<1>3. packet0 = Packet(type, id, seq, Zeros(n))
  BY <1>1, <1>2 DEF Packet
<1>4. /\ v \in Seq(Nat) /\ Len(v) = 2 /\ v[1] = type /\ v[2] = 0
      /\ IsWord(w, sum) /\ IsWord(x, id) /\ IsWord(y, seq)
      /\ z \in Seq(Nat) /\ Len(z) = n /\ \A i \in 1..n : z[i] = 0
  <2>1. \A i \in 1..n : z[i] = 0
    BY <1>1 DEF Zeros
  <2>2. z \in Seq(Nat) /\ Len(z) = n
    BY <1>1, SumOfZeros
  <2>3. v \in Seq(Nat) /\ Len(v) = 2 /\ v[1] = type /\ v[2] = 0
    BY <1>1
  <2>4. IsWord(w, sum) /\ IsWord(x, id) /\ IsWord(y, seq)
    BY <1>1, Encoded
  <2> QED BY <2>1, <2>2, <2>3, <2>4
<1>b. /\ w \in Seq(Nat) /\ Len(w) = 2 /\ x \in Seq(Nat) /\ Len(x) = 2
      /\ y \in Seq(Nat) /\ Len(y) = 2
  BY <1>4 DEF IsWord
<1>5. Joins(Nat, v, w, a) /\ Joins(Nat, x, y, b)
  BY <1>2, <1>4, <1>b, Joined
<1>6. 1 \in 1..2 /\ 2 \in 1..2 /\ 2 + 1 = 3 /\ 2 + 2 = 4
  OBVIOUS
<1>7. a \in Seq(Nat) /\ Len(a) = 4 /\ a[1] = v[1] /\ a[2] = v[2] /\ a[3] = w[1] /\ a[4] = w[2]
  BY <1>4, <1>5, <1>6, <1>b DEF Joins
<1>8. b \in Seq(Nat) /\ Len(b) = 4 /\ b[1] = x[1] /\ b[2] = x[2] /\ b[3] = y[1] /\ b[4] = y[2]
  BY <1>4, <1>5, <1>6, <1>b DEF Joins
<1>9. Joins(Nat, a, b, c)
  BY <1>2, <1>7, <1>8, Joined
<1>10. /\ c \in Seq(Nat) /\ Len(c) = 8
       /\ c[1] = a[1] /\ c[2] = a[2] /\ c[3] = a[3] /\ c[4] = a[4]
       /\ c[5] = b[1] /\ c[6] = b[2] /\ c[7] = b[3] /\ c[8] = b[4]
  <2>1. /\ 1 \in 1..4 /\ 2 \in 1..4 /\ 3 \in 1..4 /\ 4 \in 1..4
        /\ 4 + 1 = 5 /\ 4 + 2 = 6 /\ 4 + 3 = 7 /\ 4 + 4 = 8
    OBVIOUS
  <2> QED BY <1>7, <1>8, <1>9, <2>1 DEF Joins
<1>11. Joins(Nat, c, z, packet0)
  BY <1>2, <1>4, <1>10, Joined
<1>12. /\ packet0 \in Seq(Nat) /\ Len(packet0) = 8 + n
       /\ \A i \in 1..8 : packet0[i] = c[i]
       /\ \A i \in 1..n : packet0[8 + i] = z[i]
  BY <1>4, <1>10, <1>11 DEF Joins
<1>13. \A i \in (8 + 1)..Len(packet0) : packet0[i] = 0
  <2> SUFFICES ASSUME NEW i \in 9..(8 + n) PROVE packet0[i] = 0
    BY <1>12
  <2>1. i - 8 \in 1..n /\ 8 + (i - 8) = i
    OBVIOUS
  <2> QED BY <1>4, <1>12, <2>1
<1>14. PICK p : WordSums(packet0, p) /\ SumOfWords(packet0) = p[8]
  <2>1. 8 \in 0..Len(packet0)
    BY <1>12
  <2> QED BY <1>12, <1>13, <2>1, ZerosAddNothing
<1>15. SumsFour(packet0, p)
  <2>1. 8 <= Len(packet0)
    BY <1>12
  <2> QED BY <1>12, <1>14, <2>1, FourWords
<1>21. /\ packet0[1] = type /\ packet0[2] = 0 /\ packet0[3] = w[1] /\ packet0[4] = w[2]
       /\ packet0[5] = x[1] /\ packet0[6] = x[2] /\ packet0[7] = y[1] /\ packet0[8] = y[2]
  <2>1. /\ 1 \in 1..8 /\ 2 \in 1..8 /\ 3 \in 1..8 /\ 4 \in 1..8
        /\ 5 \in 1..8 /\ 6 \in 1..8 /\ 7 \in 1..8 /\ 8 \in 1..8
    OBVIOUS
  <2> QED BY <1>4, <1>7, <1>8, <1>10, <1>12, <2>1
<1>22. p[8] = (type * 256 + 0) + (w[1] * 256 + w[2]) + (x[1] * 256 + x[2]) + (y[1] * 256 + y[2])
  BY <1>15, <1>21 DEF SumsFour
<1>23. w[1] * 256 + w[2] = sum /\ x[1] * 256 + x[2] = id /\ y[1] * 256 + y[2] = seq
  BY <1>4 DEF IsWord
<1>24. p[8] = (type * 256 + 0) + sum + id + seq
  BY <1>22, <1>23
<1>25. p[8] = type * 256 + sum + id + seq
  BY <1>24
<1> QED BY <1>3, <1>14, <1>25

LEMMA HeaderSums ==
  ASSUME NEW id \in Nat, NEW seq \in Nat, NEW n \in Nat
  PROVE  SumOfWords(HeaderOf(EchoRequest, id, seq)) + SumOfWords(Zeros(n)) = 2048 + id + seq
<1>1. EchoRequest \in Nat /\ EchoRequest = 8
  BY DEF EchoRequest
<1>2. SumOfWords(HeaderOf(EchoRequest, id, seq)) = EchoRequest * 256 + id + seq
  BY <1>1, SumOfHeader
<1>3. SumOfWords(Zeros(n)) = 0
  BY SumOfZeros
<1> QED BY <1>1, <1>2, <1>3

LEMMA RequestSums ==
  ASSUME NEW id \in Nat, NEW seq \in Nat, NEW n \in Nat,
         NEW sum \in Nat, sum = compute_checksum(HeaderOf(EchoRequest, id, seq), Zeros(n))
  PROVE  SumOfWords(Packet(EchoRequest, id, seq, Zeros(n))) = 2048 + id + seq + sum
<1>1. EchoRequest \in Nat /\ EchoRequest = 8
  BY DEF EchoRequest
<1>2. sum = compute_checksum(<<EchoRequest, 0>> \o (encode(id) \o encode(seq)), Zeros(n))
  BY DEF HeaderOf
<1>3. SumOfWords(Packet(EchoRequest, id, seq, Zeros(n))) = EchoRequest * 256 + sum + id + seq
  BY <1>1, <1>2, SumOfPacket
<1> QED BY <1>1, <1>3

(* Process identifier and sequence number are unsigned shorts.             *)
LEMMA PacketVerifies ==
  ASSUME NEW id \in Nat, id < 65536, NEW seq \in Nat, seq < 65536, NEW n \in Nat
  PROVE  /\ SumOfWords(Packet(EchoRequest, id, seq, Zeros(n))) > 0
         /\ SumOfWords(Packet(EchoRequest, id, seq, Zeros(n))) % 65535 = 0
<1>1. PICK total : total = 2048 + id + seq
  BY SMT
<1>2. id \in Nat /\ seq \in Nat /\ total \in Nat /\ 0 < total /\ total < 65535 * 65536
  BY <1>1, SMT
<1>3. PICK folded : folded = Folded(total)
  BY SMT
<1>4. folded \in Nat /\ 1 <= folded /\ folded <= 65535 /\ Leaves(total, 65535, folded)
  BY <1>2, <1>3, FoldedIsRest, SMT
<1>5. PICK sum : sum = 65535 - folded
  BY SMT
<1>a. SumOfWords(HeaderOf(EchoRequest, id, seq)) + SumOfWords(Zeros(n)) = total
  BY <1>1, HeaderSums, SMT
<1>b. compute_checksum(HeaderOf(EchoRequest, id, seq), Zeros(n)) = 65535 - Folded(total)
  BY <1>a, SMT DEF compute_checksum
<1>6. sum \in Nat /\ sum = compute_checksum(HeaderOf(EchoRequest, id, seq), Zeros(n))
  BY <1>3, <1>4, <1>5, <1>b, SMT
<1>7. SumOfWords(Packet(EchoRequest, id, seq, Zeros(n))) = total + sum
  BY <1>1, <1>2, <1>6, RequestSums, SMT
<1>8. PICK q \in Nat : total = q * 65535 + folded
  BY <1>4, SMT DEF Leaves
<1>9. total + sum = (q + 1) * 65535
  BY <1>2, <1>4, <1>5, <1>8, SMT
<1>10. \A k \in Nat : (k * 65535) % 65535 = 0
  BY SMT
<1> QED BY <1>7, <1>9, <1>10, SMT

(* The packet, as long as the buffer holds it, is the request that         *)
(* send_data built.                                                        *)
Built ==
  /\ pid \in Pids /\ size \in PackageSizes
  /\ echo_seq \in Nat /\ echo_seq <= MaxEchoes
  /\ packet # <<>> /\ Len(packet) <= SendLen => packet = Packet(EchoRequest, pid, echo_seq, Zeros(size))

LEMMA SentAsBuilt ==
  ASSUME NEW S, NEW message \in Seq(S), NEW sent \in Sendable(message), Len(sent) <= SendLen
  PROVE  sent = message
<1>1. PICK behind : sent = [i \in DOMAIN message |-> IF i <= SendLen THEN message[i] ELSE behind[i]]
  BY DEF Sendable
<1>2. PICK n \in Nat : n = Len(message) /\ DOMAIN message = 1..n
  BY LenProperties
<1>3. DOMAIN sent = 1..n
  BY <1>1, <1>2
<1>4. Len(sent) = n
  BY <1>2, <1>3
<1>5. \A i \in 1..n : sent[i] = message[i]
  BY <1>1, <1>2, <1>4, EchoPacketAssumption
<1>6. message = [i \in 1..n |-> message[i]] /\ sent = [i \in 1..n |-> sent[i]]
  BY <1>1, <1>2
<1> QED BY <1>5, <1>6

LEMMA BuiltVerifies == Built => ChecksumVerifies
<1> SUFFICES ASSUME Built, packet # <<>>, Len(packet) <= SendLen
             PROVE  SumOfWords(packet) > 0 /\ SumOfWords(packet) % 65535 = 0
  BY SMT DEF ChecksumVerifies
<1>1. packet = Packet(EchoRequest, pid, echo_seq, Zeros(size))
  BY SMT DEF Built
<1>2. pid \in Nat /\ pid < 65536 /\ echo_seq \in Nat /\ echo_seq < 65536 /\ size \in Nat
  BY EchoPacketAssumption, SMT DEF Built
<1> QED BY <1>1, <1>2, PacketVerifies, SMT

(* For every process identifier, every sequence number and every size that *)
(* the send buffer holds, odd ones and carries out of 16 bits included,    *)
(* the words of a request with its checksum add up to all ones             *)
(* (compute_checksum, lines 76-93 of icmp_header.hpp).  What is sent of a  *)
(* larger request ends in other bytes (lines 42 and 124 of pinger.hpp).    *)
THEOREM ChecksumCorrect == EchoSpec => []ChecksumVerifies
<1>1. EchoInit => Built
  BY EchoPacketAssumption, SMT DEF EchoInit, Built
<1>2. Built /\ [EchoNext]_echoVars => Built'
  <2> SUFFICES ASSUME Built, [EchoNext]_echoVars PROVE Built'
    OBVIOUS
  <2>1. CASE BuildRequest
    <3>1. /\ echo_seq' = echo_seq + 1 /\ echo_seq < MaxEchoes /\ UNCHANGED <<pid, size>>
          /\ packet' \in Sendable(Packet(EchoRequest, pid, echo_seq', Zeros(size))) \/ packet' = <<>>
      BY <2>1 DEF BuildRequest
    <3>2. PICK p : p = Packet(EchoRequest, pid, echo_seq', Zeros(size))
      OBVIOUS
    <3>3. \E S : p \in Seq(S)
      <4>1. size \in Nat
        BY EchoPacketAssumption, SMT DEF Built
      <4> QED BY <3>2, <4>1, PacketBytes
    <3>4. packet' # <<>> /\ Len(packet') <= SendLen => packet' = p
      BY <3>1, <3>2, <3>3, SentAsBuilt
    <3> QED BY <3>1, <3>2, <3>4, EchoPacketAssumption, SMT DEF Built
  <2>2. CASE ReadReply
    BY <2>2, SMT DEF ReadReply, Built
  <2>3. CASE UNCHANGED echoVars
    BY <2>3, SMT DEF echoVars, Built
  <2> QED BY <2>1, <2>2, <2>3 DEF EchoNext
<1>3. Built => ChecksumVerifies
  BY BuiltVerifies
<1> QED BY <1>1, <1>2, <1>3, PTL DEF EchoSpec
=============================================================================
