----------------------------- MODULE EchoPacket -----------------------------
(***************************************************************************)
(* The bytes of a ping: the echo request that pinger::send_data builds     *)
(* (icmp_header.hpp), and what pinger::read_data finds in what comes back: *)
(* an IP header with options of any length, an ICMP header, or a part of   *)
(* them.  Both headers are members of pinger and keep what they held when  *)
(* a read from the stream fails.                                           *)
(***************************************************************************)
EXTENDS Integers, SequencesExt

CONSTANTS Pids,         \* __getpid(), an unsigned short
          PackageSizes, \* the constructor's package_size
          OptionWords,  \* lengths of IP options, in 4 bytes
          Cuts,         \* lengths of datagrams that are cut off
          SendLen,      \* send_len, the size of _send_buf
          Beyond,       \* bytes that memory behind _send_buf may hold
          MaxEchoes     \* bound: rounds, which the field in the header can number

ASSUME EchoPacketAssumption ==
  /\ \A p \in Pids : p \in Nat /\ p < 65536
  /\ PackageSizes \subseteq Nat
  /\ \A w \in OptionWords : w \in Nat /\ w <= 10
  /\ Cuts \subseteq Nat
  /\ SendLen \in Nat /\ SendLen >= 8 /\ Beyond \subseteq 0..255
  /\ MaxEchoes \in Nat /\ MaxEchoes < 65536

VARIABLES stage,
          pid, size,        \* the process, and the size of _body
          echo_seq,         \* _sequence_number
          packet,           \* what was sent
          ipv4_hdr, icmp_hdr,  \* _recv_ipv4_hdr and _recv_icmp_hdr: their bytes
          matched,          \* whether the last datagram passed the test
          arrived           \* history: what the last datagram was

echoVars == <<stage, pid, size, echo_seq, packet, ipv4_hdr, icmp_hdr, matched, arrived>>

encode(n) == <<n \div 256, n % 256>>
decode(rep, a) == rep[a + 1] * 256 + rep[a + 2]

EchoReply == 0
EchoRequest == 8
Zeros(n) == [i \in 1..n |-> 0]

-----------------------------------------------------------------------------
(* Two bytes make a word, an odd one at the end its upper half.            *)
Words(bytes) == [i \in DOMAIN bytes |-> IF i % 2 = 1 THEN bytes[i] * 256 ELSE bytes[i]]

Total(s) == FoldLeft(LAMBDA a, b : a + b, 0, s)
SumOfWords(bytes) == Total(Words(bytes))

Folded_NoCarry(sum) == sum % 65536  \* faulty form: the upper half is dropped

Folded(sum) ==
  LET once == (sum \div 65536) + (sum % 65536)
  IN (once + (once \div 65536)) % 65536

compute_checksum(header, body) == 65535 - Folded(SumOfWords(header) + SumOfWords(body))

(* The header with its checksum, and the body, which holds NULs only.      *)
Packet(type, id, seq, body) ==
  LET rest == encode(id) \o encode(seq)
  IN <<type, 0>> \o encode(compute_checksum(<<type, 0>> \o rest, body)) \o rest \o body

-----------------------------------------------------------------------------
(* istream::read of n bytes into rep from offset `at`: nothing once the    *)
(* stream has failed, and what there is, with a failure, if that is less.  *)
ReadInto(s, rep, at, n) ==
  LET count == IF s.ok THEN Min({n, Len(s.bytes)}) ELSE 0
  IN [rep |-> [i \in DOMAIN rep |-> IF i - at \in 1..count THEN s.bytes[i - at] ELSE rep[i]],
      bytes |-> SubSeq(s.bytes, count + 1, Len(s.bytes)),
      ok |-> s.ok /\ count = n]

(* operator>> of ipv4_header: 20 bytes, version 4, and the options.        *)
OptionsLength_Ignored(rep) == 0  \* faulty form: a header is taken for 20 bytes

OptionsLength(rep) == (rep[1] % 16) * 4 - 20

ReadIpv4(s, rep) ==
  LET fixed == ReadInto(s, rep, 0, 20)
      length == OptionsLength(fixed.rep)
      good == [fixed EXCEPT !.ok = @ /\ fixed.rep[1] \div 16 = 4]
  IN IF length \in 0..40 THEN ReadInto(good, fixed.rep, 20, length)
     ELSE [good EXCEPT !.ok = FALSE]

-----------------------------------------------------------------------------
EchoInit == /\ stage = "send"
            /\ pid \in Pids /\ size \in PackageSizes
            /\ echo_seq = 0 /\ packet = <<>>
            /\ ipv4_hdr = Zeros(60) /\ icmp_hdr = Zeros(8)
            /\ matched = FALSE /\ arrived = <<>>

(* The buffer holds SendLen bytes (lines 42 and 202), but sendto is told   *)
(* to send as many as the message has (line 124): behind the end of the    *)
(* buffer it reads what happens to be there.                               *)
Sendable(message) ==
  {[i \in DOMAIN message |-> IF i <= SendLen THEN message[i] ELSE behind[i]] :
     behind \in [(SendLen + 1)..Len(message) -> Beyond]}

(* sendto may fail, beyond memory that is mapped among other reasons: then *)
(* nothing is sent, and the round reads nothing.                           *)
BuildRequest ==
  /\ stage = "send" /\ echo_seq < MaxEchoes
  /\ echo_seq' = echo_seq + 1
  /\ \/ /\ packet' \in Sendable(Packet(EchoRequest, pid, echo_seq', Zeros(size)))
        /\ stage' = "receive"
     \/ packet' = <<>> /\ UNCHANGED stage
  /\ matched' = FALSE /\ arrived' = <<>>
  /\ UNCHANGED <<pid, size, ipv4_hdr, icmp_hdr>>

(* The socket: replies to any request so far or to another process, and    *)
(* other messages; with the IP header or, as some systems have it, without *)
(* (ip = -1); whole, or cut off anywhere.  The bytes of a body count only  *)
(* by their number: nothing reads them.                                    *)
Uncut == 65535  \* as long as a datagram can be: nothing is cut off

IpHeader(words) == <<64 + 5 + words>> \o Zeros(19 + 4 * words)

Arrivals == [type : {EchoReply, 3}, id : Pids, seq : 1..echo_seq, ip : OptionWords \cup {-1},
             cut : Cuts \cup {Uncut}]

Datagram(d) ==
  LET full == (IF d.ip = -1 THEN <<>> ELSE IpHeader(d.ip)) \o Packet(d.type, d.id, d.seq, Zeros(size))
  IN SubSeq(full, 1, Min({d.cut, Len(full)}))

(* read_data, lines 148-158 of pinger.hpp.                                 *)
Recognised(s) ==
  /\ s.ok /\ s.rep[1] = EchoReply
  /\ decode(s.rep, 4) = pid /\ decode(s.rep, 6) = echo_seq

ReadReply ==
  /\ stage = "receive"
  /\ \E d \in Arrivals :
       LET ip == ReadIpv4([bytes |-> Datagram(d), ok |-> TRUE], ipv4_hdr)
           icmp == ReadInto(ip, icmp_hdr, 0, 8)
       IN /\ arrived' = d
          /\ ipv4_hdr' = ip.rep /\ icmp_hdr' = icmp.rep
          /\ matched' = Recognised(icmp)
  /\ stage' = "send"
  /\ UNCHANGED <<pid, size, echo_seq, packet>>

EchoNext == BuildRequest \/ ReadReply

EchoSpec == EchoInit /\ [][EchoNext]_echoVars

-----------------------------------------------------------------------------
(* Properties                                                              *)

(* A receiver that adds up the words of a request, checksum included, in   *)
(* one's complement gets all ones: for every pid and every size that the   *)
(* send buffer holds, odd ones and carries out of 16 bits included         *)
(* (compute_checksum, lines 76-93).  A larger request ends in bytes that   *)
(* the checksum does not cover, and nothing is claimed of it.              *)
ChecksumVerifies ==
  packet # <<>> /\ Len(packet) <= SendLen =>
    SumOfWords(packet) > 0 /\ SumOfWords(packet) % 65535 = 0

(* The test of lines 153-155 passes for a reply to this round's request of *)
(* which both headers arrived, the IP header with whatever options, and    *)
(* for nothing else: no part of a header is completed by what it held      *)
(* before.  (Of a body that is cut off the program does not learn.)        *)
ReplyRecognised ==
  arrived # <<>> =>
    (matched <=> /\ arrived.type = EchoReply /\ arrived.id = pid /\ arrived.seq = echo_seq
                 /\ arrived.ip # -1 /\ arrived.cut >= 20 + 4 * arrived.ip + 8)
=============================================================================
