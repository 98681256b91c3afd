------------------------------- MODULE Pinger -------------------------------
(***************************************************************************)
(* src/ping/pinger.hpp, the socket version of class pinger (iOS, macOS):   *)
(* `times` echo requests are sent one after the other, each one followed   *)
(* by a single recvfrom, and statistics() sums up the rounds.              *)
(*                                                                         *)
(* The network loses, delays and, a bounded number of times, duplicates    *)
(* replies or delivers an ICMP message that answers no request.            *)
(***************************************************************************)
EXTENDS Integers, SequencesExt

CONSTANTS Times,     \* the constructor's argument `times`
          Interval,  \* SO_RCVTIMEO in clock ticks; 0 means: wait for ever
          Slack,     \* how much later than the packet the clock may be read
          Strays     \* bound: duplicated or unrelated messages

ASSUME PingerAssumption ==
  Times \in Nat /\ Interval \in Nat /\ Slack \in Nat /\ Strays \in Nat

(* _times: zero stands for four.                                           *)
Rounds == IF Times = 0 THEN 4 ELSE Times

VARIABLES pc,               \* control point of start()
          sock,             \* _socket: none, good, bad (-1), zero, closed
          sequence_number,  \* _sequence_number
          waited,           \* ticks since this round's steady_clock::now()
          result,           \* _result: [recv, cost] of each round
          at,               \* how many rounds statistics() has gone through
          status,           \* its sums, which _ping_status is made of
          outstanding,      \* requests whose reply is still on its way
          rcvbuf,           \* the socket's queue: sequence numbers, 0 for others
          strays,           \* duplicated and unrelated messages so far
          credit            \* history: the message each round read, -1 for none

vars == <<pc, sock, sequence_number, waited, result, at, status, outstanding,
          rcvbuf, strays, credit>>

network == <<outstanding, rcvbuf, strays>>

(* The initial values of statistics(): loss is the numerator of the loss   *)
(* rate, over 2 * _times, and sum that of the average, over _times.        *)
NoRounds == [loss |-> 2 * Rounds, max |-> 0, sum |-> 0, min |-> Interval]

Init == /\ pc = "open"
        /\ sock = "none"
        /\ sequence_number = 0
        /\ waited = 0
        /\ result = <<>>
        /\ at = 0 /\ status = NoRounds
        /\ outstanding = {} /\ rcvbuf = <<>> /\ strays = 0
        /\ credit = <<>>

-----------------------------------------------------------------------------
(* socket(): only descriptor 0 is taken for an error, so that -1 goes on   *)
(* into the rounds and 0, a good descriptor, skips them all.               *)
Open ==
  /\ pc = "open"
  /\ \E s \in {"good", "bad", "zero"} :
       /\ sock' = s
       /\ pc' = IF s = "zero" THEN "statistics" ELSE "send"
  /\ UNCHANGED <<sequence_number, waited, result, at, status, network, credit>>

(* A round ends: its PingState is appended, and the loop goes on or stops. *)
EndRound(recv, cost, msg) ==
  /\ result' = Append(result, [recv |-> recv, cost |-> cost])
  /\ credit' = Append(credit, msg)
  /\ pc' = IF Len(result) + 1 = Rounds THEN "statistics" ELSE "send"
  /\ waited' = 0

NextNumber_Same == IF sequence_number = 0 THEN 1 ELSE sequence_number  \* faulty form: not incremented

NextNumber_Twice == sequence_number + 2  \* faulty form: incremented in the header as well

NextNumber == sequence_number + 1

(* send_data: the sequence number grows whether or not the request leaves. *)
Send ==
  /\ pc = "send"
  /\ sequence_number' = NextNumber
  /\ \/ /\ sock = "good"
        /\ pc' = "read"
        /\ outstanding' = outstanding \cup {sequence_number'}
        /\ UNCHANGED <<result, credit, waited>>
     \/ EndRound(FALSE, 0, -1) /\ UNCHANGED outstanding
  /\ UNCHANGED <<sock, at, status, rcvbuf, strays>>

Rest_Peek(queue) == queue  \* faulty form: the message stays in the queue (MSG_PEEK)

Rest(queue) == Tail(queue)

(* read_data: whatever message is first in the queue ends the round as     *)
(* answered; whether it matches the request decides the return value       *)
(* between two positive numbers only.                                      *)
Read ==
  /\ pc = "read" /\ rcvbuf # <<>>
  /\ \E d \in 0..Slack : EndRound(TRUE, waited + d, Head(rcvbuf))
  /\ rcvbuf' = Rest(rcvbuf)
  /\ UNCHANGED <<sock, sequence_number, at, status, outstanding, strays>>

(* recvfrom fails: after SO_RCVTIMEO, or at once when it is interrupted.   *)
(* The round then counts as not sent either.                               *)
TimedOut_Never == FALSE  \* faulty form: SO_RCVTIMEO is not set

TimedOut == Interval > 0 /\ waited = Interval

ReadFails ==
  /\ pc = "read" /\ rcvbuf = <<>>
  /\ TimedOut
  /\ EndRound(FALSE, 0, -1)
  /\ UNCHANGED <<sock, sequence_number, at, status, network>>

Interrupted ==
  /\ pc = "read" /\ rcvbuf = <<>>
  /\ EndRound(FALSE, 0, -1)
  /\ UNCHANGED <<sock, sequence_number, at, status, network>>

(* What a round adds to the sums.                                          *)
Lower_Wrong(a, b) == IF a < b THEN b ELSE a  \* faulty form: the comparison the wrong way round

Lower(a, b) == IF a > b THEN b ELSE a

Account(acc, r) ==
  IF ~r.recv THEN acc
  ELSE [loss |-> acc.loss - 2,
        max |-> IF acc.max < r.cost THEN r.cost ELSE acc.max,
        sum |-> acc.sum + r.cost,
        min |-> Lower(acc.min, r.cost)]

(* One turn of the loop of statistics().                                   *)
Statistics ==
  /\ pc = "statistics" /\ at < Len(result)
  /\ status' = Account(status, result[at + 1])
  /\ at' = at + 1
  /\ UNCHANGED <<pc, sock, sequence_number, waited, result, network, credit>>

(* The sums become _ping_status.                                           *)
Publish ==
  /\ pc = "statistics" /\ at = Len(result)
  /\ pc' = "done"
  /\ UNCHANGED <<sock, sequence_number, waited, result, at, status, network, credit>>

Destroy ==
  /\ pc = "done"
  /\ sock' = "closed" /\ pc' = "gone"
  /\ UNCHANGED <<sequence_number, waited, result, at, status, network, credit>>

-----------------------------------------------------------------------------
(* The network and the clock.                                              *)
Deliver ==
  /\ sock = "good"
  /\ \E n \in outstanding : /\ rcvbuf' = Append(rcvbuf, n)
                            /\ outstanding' = outstanding \ {n}
  /\ UNCHANGED <<pc, sock, sequence_number, waited, result, at, status, strays, credit>>

Stray ==
  /\ sock = "good" /\ strays < Strays
  /\ strays' = strays + 1
  /\ \E n \in outstanding \cup {0} : rcvbuf' = Append(rcvbuf, n)
  /\ UNCHANGED <<pc, sock, sequence_number, waited, result, at, status, outstanding, credit>>

(* A message in the queue ends the wait; the delay until the clock is read *)
(* is Slack.                                                               *)
Tick ==
  /\ pc = "read" /\ rcvbuf = <<>>
  /\ waited < Interval
  /\ waited' = waited + 1
  /\ UNCHANGED <<pc, sock, sequence_number, result, at, status, network, credit>>

-----------------------------------------------------------------------------
Run == Open \/ Send \/ Read \/ ReadFails \/ Statistics \/ Publish \/ Destroy

Next == Run \/ Interrupted \/ Deliver \/ Stray \/ Tick

(* The thread runs and time passes; the network owes nothing.              *)
Fairness == WF_vars(Run) /\ WF_vars(Tick)

Spec == Init /\ [][Next]_vars /\ Fairness

-----------------------------------------------------------------------------
(* Properties                                                              *)

Stages == {"open", "send", "read", "statistics", "done", "gone"}

(* Types; each round adds one PingState and uses one sequence number.      *)
HistoryOK ==
  /\ result \in Seq([recv : BOOLEAN, cost : 0..(Interval + Slack)])
  /\ credit \in Seq(-1..Rounds)
  /\ Len(credit) = Len(result)

NetworkOK ==
  /\ outstanding \subseteq 1..Rounds
  /\ rcvbuf \in Seq(0..Rounds)
  /\ strays \in 0..Strays

ControlOK ==
  /\ pc \in Stages
  /\ sock \in {"none", "good", "bad", "zero", "closed"}
  /\ pc = "read" => sock = "good"
  /\ waited \in 0..Interval
  /\ sequence_number \in 0..Rounds
  /\ sequence_number = Len(result) + (IF pc = "read" THEN 1 ELSE 0)
  /\ pc = "open" => Len(result) = 0
  /\ pc \in {"send", "read"} => Len(result) < Rounds
  /\ at \in 0..Len(result)
  /\ pc \in {"open", "send", "read"} => at = 0
  /\ pc \in {"done", "gone"} => at = Len(result)

StatusOK == status \in [loss : Int, max : Nat, sum : Nat, min : Nat]

TypeOK == HistoryOK /\ NetworkOK /\ ControlOK /\ StatusOK

(* Replies are never told apart by their sequence number, yet the rounds   *)
(* stay in step with the requests as long as nothing went wrong: a round   *)
(* that counts another request's reply comes after a round that counted    *)
(* none, or after a stray message (lines 153-161, 79).                     *)
InStep ==
  \A i \in 1..Len(result) :
    result[i].recv /\ strays = 0 /\ (\A j \in 1..(i - 1) : result[j].recv) => credit[i] = i

(* A round never counts the reply to a request that was not sent yet.      *)
NeverAhead == \A i \in 1..Len(result) : credit[i] <= i

(* Late replies are counted, but no reply in two rounds: without strays    *)
(* the loss rate is never below the share of requests nobody answered.     *)
CountedOnce ==
  strays = 0 =>
    \A i, j \in 1..Len(result) : result[i].recv /\ result[j].recv /\ credit[i] = credit[j] => i = j

(* The rounds among the first n that were counted, and their costs.        *)
Received(n) == {j \in 1..n : result[j].recv}
Costs(n) == {result[j].cost : j \in Received(n)}

(* What statistics() reports against the definition of each number: the    *)
(* loss is that of the rounds, maxrtt the greatest cost, minrtt the least  *)
(* one unless every cost is above the interval, its initial value.         *)
StatusSound ==
  pc \in {"done", "gone"} =>
    LET n == Len(result) IN
      /\ status.loss = 2 * (Rounds - Cardinality(Received(n)))
      /\ status.max = Max(Costs(n) \cup {0})
      /\ status.min = Min(Costs(n) \cup {Interval})

(* start() ends, whatever the network does (lines 65-69: SO_RCVTIMEO).     *)
Terminates == <>(pc = "gone")

(* "round-trip min/avg/max" (line 186): an average lies between the least  *)
(* and the greatest.                                                       *)
AverageInRange ==
  pc \in {"done", "gone"} /\ Received(Len(result)) # {} =>
    Rounds * status.min <= status.sum /\ status.sum <= Rounds * status.max
=============================================================================
