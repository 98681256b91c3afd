----------------------------- MODULE DnsMessage -----------------------------
(***************************************************************************)
(* The messages of src/dnsquery/dnsquery.cpp: the name in a query          *)
(* (ChangetoDnsNameFormat), and names, records and addresses in an answer  *)
(* (ReadName, ReadRecvAnswer, lines 206-223).                              *)
(*                                                                         *)
(* A message is a sequence of bytes; positions are counted from 0, as the  *)
(* code does.  A server's answer repeats the question and then has its     *)
(* records, whose names are written out or end in a pointer to a part of   *)
(* the question's name.                                                    *)
(***************************************************************************)
EXTENDS Integers, SequencesExt

CONSTANTS Hosts,         \* names asked for: sequences of labels
          Labels,        \* other labels a server may use, sequences of bytes
          HostAddresses, \* IPv4 addresses: sequences of 4 bytes
          MaxAddresses,  \* SOCKET_MAX_IP_COUNT
          MaxAnswers     \* bound: records of an answer

Byte == 0..255
Dot == 46
HeaderLen == 12    \* sizeof(DNS_HEADER)
QuestionLen == 4   \* sizeof(QUESTION)
ResourceLen == 10  \* sizeof(R_DATA)
PointerMark == 49152  \* 11000000 00000000: the rest of the word is a position

(* A label has 1 to 63 bytes.  One of 192 or more would be taken for a     *)
(* pointer wherever it stands, since ReadName looks at every byte alike;   *)
(* the names of hosts are ASCII.                                           *)
Label == {l \in Seq(Nat) : /\ Len(l) > 0 /\ Len(l) < 64
                          /\ \A i \in 1..Len(l) : l[i] > 0 /\ l[i] < 192 /\ l[i] # Dot}

ASSUME DnsMessageAssumption ==
  /\ Hosts \subseteq Seq(Label) \ {<<>>} /\ Labels \subseteq Label
  /\ \A a \in HostAddresses : a \in Seq(Byte) /\ Len(a) = 4
  /\ MaxAddresses \in Nat \ {0} /\ MaxAnswers \in Nat

VARIABLES phase,
          host,     \* the labels of the name asked for
          rooted,   \* the caller wrote it with a dot at its end
          qname,    \* what was written to the query
          records,  \* history: the records the server meant
          message,  \* recv_buf
          answers   \* what ReadRecvAnswer found: [name, type, rdata]

messageVars == <<phase, host, rooted, qname, records, message, answers>>

Word16(n) == <<n \div 256, n % 256>>

(* Labels in the form of a message, and in dotted form.                    *)
Wire(labels) == FlattenSeq([i \in DOMAIN labels |-> <<Len(labels[i])>> \o labels[i]])
Dotted(labels) == Tail(FlattenSeq([i \in DOMAIN labels |-> <<Dot>> \o labels[i]]))

-----------------------------------------------------------------------------
(* "www.google.com" to "3www6google3com": at every dot, and at the one     *)
(* that is added at the end, the length and the bytes since the last one.  *)
Rest_KeepsDot == <<Dot>>  \* faulty form: lock is not moved over the dot

Rest == <<>>

ScanByte(acc, c) ==
  IF c = Dot THEN [out |-> acc.out \o <<Len(acc.label)>> \o acc.label, label |-> Rest]
  ELSE [acc EXCEPT !.label = Append(@, c)]

Scanned(text) == FoldLeft(ScanByte, [out |-> <<>>, label |-> <<>>], text)

ChangetoDnsNameFormat(text) == Scanned(Append(text, Dot)).out \o <<0>>

(* strlen: the bytes before the first NUL.                                 *)
Strlen(bytes) == Min({i \in DOMAIN bytes : bytes[i] = 0}) - 1

(* "3www6google3com" to "www.google.com".                                  *)
UnpackByte(acc, b) ==
  IF acc.left = 0
  THEN [left |-> b, out |-> IF acc.out = <<>> THEN <<>> ELSE Append(acc.out, Dot)]
  ELSE [left |-> acc.left - 1, out |-> Append(acc.out, b)]

Unpacked(raw) == FoldLeft(UnpackByte, [left |-> 0, out |-> <<>>], raw)

Dots(raw) == Unpacked(raw).out

(* ReadName: a byte of 192 or more begins a pointer; count says how far    *)
(* the caller's reader moves, which is not behind what a pointer leads to. *)
Follow(m, s) ==
  LET b == m[s.at + 1] IN
    IF b = 0 THEN s
    ELSE IF b >= 192
         THEN [s EXCEPT !.at = b * 256 + m[s.at + 2] - PointerMark, !.jumped = TRUE]
         ELSE [at |-> s.at + 1, raw |-> Append(s.raw, b), jumped |-> s.jumped,
               count |-> IF s.jumped THEN s.count ELSE s.count + 1]

PointerBytes_One(jumped) == 0  \* faulty form: a pointer is taken for one byte

PointerBytes(jumped) == IF jumped THEN 1 ELSE 0

Followed(m, reader) ==
  LET walk[n \in 0..Len(m)] ==
        IF n = 0 THEN [at |-> reader, raw |-> <<>>, jumped |-> FALSE, count |-> 1]
        ELSE Follow(m, walk[n - 1])
  IN walk[Len(m)]

ReadName(m, reader) ==
  LET end == Followed(m, reader)
  IN [name |-> Dots(end.raw), count |-> end.count + PointerBytes(end.jumped)]

Ntohs(m, at) == m[at + 1] * 256 + m[at + 2]

(* One record: its name, the fixed part, and its data, which is read as a  *)
(* name unless it is an address.                                           *)
IsAddress_Never(type) == FALSE  \* faulty form: the data is read as a name always

IsAddress(type) == type = 1

ReadRecord(m, s) ==
  LET name == ReadName(m, s.at)
      resource == s.at + name.count
      type == Ntohs(m, resource)
      data == resource + ResourceLen
      len == Ntohs(m, resource + 8)
      target == ReadName(m, data)
  IN IF IsAddress(type)
     THEN [at |-> data + len,
           found |-> Append(s.found, [name |-> name.name, type |-> type,
                                      rdata |-> SubSeq(m, data + 1, data + len)])]
     ELSE [at |-> data + target.count,
           found |-> Append(s.found, [name |-> name.name, type |-> type, rdata |-> target.name])]

ReadRecords(m, reader, count) ==
  LET walk[n \in 0..count] ==
        IF n = 0 THEN [at |-> reader, found |-> <<>>] ELSE ReadRecord(m, walk[n - 1])
  IN walk[count].found

ReadRecvAnswer(m, reader) == ReadRecords(m, reader, Min({MaxAddresses, Ntohs(m, 6)}))

(* Lines 215-223: the result has the data of the records of type 1.        *)
TakeAddress(ips, answer) ==
  IF answer.type = 1 THEN Append(ips, answer.rdata) ELSE ips

Ips == FoldLeft(TakeAddress, <<>>, answers)

-----------------------------------------------------------------------------
(* The server: a name is some labels, then all labels of the host but the  *)
(* first `rest` -- as a pointer to them -- or nothing more.                *)
Forms == {f \in [labels : {<<>>} \cup {<<l>> : l \in Labels}, rest : 0..Len(host)] :
            f.labels # <<>> \/ f.rest < Len(host)}

Whole(f) == f.labels \o SubSeq(host, f.rest + 1, Len(host))

Encode(f) == Wire(f.labels) \o
  IF f.rest = Len(host) THEN <<0>>
  ELSE Word16(PointerMark + HeaderLen + Len(Wire(SubSeq(host, 1, f.rest))))

Record(r) ==
  LET data == IF r.type = 1 THEN r.data ELSE Encode(r.data)
  IN Encode(r.name) \o Word16(r.type) \o Word16(1) \o <<0, 0, 1, 44>>
       \o Word16(Len(data)) \o data

Answer(list) ==
  <<1, 2, 129, 128>> \o Word16(1) \o Word16(Len(list)) \o <<0, 0, 0, 0>>
    \o Wire(host) \o <<0>> \o Word16(1) \o Word16(1)
    \o FlattenSeq([i \in DOMAIN list |-> Record(list[i])])

MessageInit ==
  /\ phase = "query"
  /\ host \in Hosts /\ rooted \in BOOLEAN
  /\ qname = <<>> /\ records = <<>> /\ message = <<>> /\ answers = <<>>

PrepareDnsQueryPacket ==
  /\ phase = "query"
  /\ qname' = ChangetoDnsNameFormat(Dotted(host) \o (IF rooted THEN <<Dot>> ELSE <<>>))
  /\ phase' = "server"
  /\ UNCHANGED <<host, rooted, records, message, answers>>

(* The server adds records to its answer, or sends it.                     *)
AddRecord ==
  /\ phase = "server" /\ Len(records) < MaxAnswers
  /\ \E name \in Forms :
       \/ \E a \in HostAddresses :
            records' = Append(records, [name |-> name, type |-> 1, data |-> a])
       \/ \E f \in Forms : records' = Append(records, [name |-> name, type |-> 5, data |-> f])
  /\ UNCHANGED <<phase, host, rooted, qname, message, answers>>

Reply ==
  /\ phase = "server"
  /\ message' = Answer(records)
  /\ phase' = "read"
  /\ UNCHANGED <<host, rooted, qname, records, answers>>

(* Behind the header and the question, which the reader takes to be as     *)
(* long as the one that was sent.                                          *)
Read ==
  /\ phase = "read"
  /\ answers' = ReadRecvAnswer(message, HeaderLen + Strlen(qname) + 1 + QuestionLen)
  /\ phase' = "done"
  /\ UNCHANGED <<host, rooted, qname, records, message>>

MessageNext == PrepareDnsQueryPacket \/ AddRecord \/ Reply \/ Read

MessageSpec == MessageInit /\ [][MessageNext]_messageVars

-----------------------------------------------------------------------------
(* Properties                                                              *)

(* The query asks for the name the caller meant, with or without a dot at  *)
(* its end: the empty label that makes is behind the NUL at which strlen,  *)
(* and the packet's name, end (lines 187, 358-376).                        *)
QueryNameRight ==
  phase # "query" => SubSeq(qname, 1, Strlen(qname) + 1) = Wire(host) \o <<0>>

(* Every name of the answer is read as the server meant it, in a pointer   *)
(* or not, and the reader is at the right place for what follows it.       *)
NamesRead ==
  phase = "done" =>
    /\ Len(answers) = Min({MaxAddresses, Len(records)})
    /\ \A i \in 1..Len(answers) :
         /\ answers[i].name = Dotted(Whole(records[i].name))
         /\ answers[i].type = records[i].type
         /\ answers[i].type = 5 => answers[i].rdata = Dotted(Whole(records[i].data))

(* The result: the addresses of the first MaxAddresses records, in their   *)
(* order, those that look like a pointer or an end of a name included.     *)
AddressesRead ==
  phase = "done" =>
    LET meant == {i \in 1..Min({MaxAddresses, Len(records)}) : records[i].type = 1}
    IN /\ Len(Ips) = Cardinality(meant)
       /\ \A i \in meant : Ips[Cardinality({j \in meant : j <= i})] = records[i].data
=============================================================================
