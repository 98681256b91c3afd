---------------------------- MODULE PingCommand ----------------------------
(***************************************************************************)
(* The Android versions of pinger (ping/pinger.hpp, lines 210-323) and of  *)
(* TraceRouter (tracerouter/tracerouter.hpp, lines 314-411).  Both run the *)
(* ping program through popen, collect its output up to the end, and look  *)
(* in the text for what they want; the trace does so once per probe.       *)
(*                                                                         *)
(* The text is a sequence of lines of the forms ping has; addresses are    *)
(* numbers, those of the route their distance.                             *)
(***************************************************************************)
EXTENDS Integers, SequencesExt

CONSTANTS Counts,     \* what `-c times` may be
          Rtts,       \* round-trip times, naturals
          LastTTL,    \* MaxTraceTTL - 1
          HostAt      \* hops to the host

ASSUME PingCommandAssumption ==
  /\ Counts \subseteq Nat \ {0} /\ Rtts \subseteq Nat /\ {LastTTL, HostAt} \subseteq Nat \ {0}

NoAddress == 0
Probes == 3  \* times, line 337

VARIABLES tool,        \* pinger or trace
          step,        \* run, collect, process, crash, end
          pipe,        \* what the program still has to say
          str_result,  \* what was collected
          ping_status, \* _ping_status: [ip, loss, min, avg, max]
          index,       \* trace: the TTL
          probes,      \* trace: probes left on its line
          shown_ip,    \* trace: t_ip
          trace,       \* trace: the output, [ttl, ip, shown] of each probe
          meant,       \* history: what the pinger's program had to report
          answerers    \* history: who answered each run of ping of the trace

toolVars == <<tool, step, pipe, str_result, ping_status, index, probes, shown_ip, trace, meant, answerers>>

NoStatus == [ip |-> NoAddress, loss |-> 0, min |-> 0, avg |-> 0, max |-> 0]

ToolInit ==
  /\ tool \in {"pinger", "trace"} /\ step = "run"
  /\ pipe = <<>> /\ str_result = <<>>
  /\ ping_status = NoStatus /\ meant = <<>>
  /\ index = 1 /\ probes = Probes /\ shown_ip = NoAddress
  /\ trace = <<>> /\ answerers = <<>>

-----------------------------------------------------------------------------
(* The ping program.  It prints a line with the host's address, one per    *)
(* answer, the loss in per cent, and the times if there was an answer.     *)
Title == [is |-> "title", ip |-> HostAt]
AnswerLine(ttl) == IF ttl < HostAt THEN [is |-> "From", ip |-> ttl] ELSE [is |-> "from", ip |-> HostAt]

(* The loss as digits; some versions of ping print a fraction.             *)
Point == -2  \* '.' - '0'
Digits(n) == IF n = 100 THEN <<1, 0, 0>> ELSE IF n < 10 THEN <<n>> ELSE <<n \div 10, n % 10>>

Loss(percent, fraction) == [is |-> "loss", text |-> Digits(percent) \o fraction]

Reports == [sent : Counts, lost : UNION {0..c : c \in Counts}, min : Rtts, avg : Rtts, max : Rtts, fraction : BOOLEAN]
WholePercent(r) == (100 * r.lost) % r.sent = 0

Printed(r) ==
  <<Title>>
    \o (IF r.lost < r.sent THEN <<AnswerLine(HostAt)>> ELSE <<>>)
    \o <<Loss((100 * r.lost) \div r.sent,
              IF r.fraction /\ ~WholePercent(r) THEN <<Point, 3, 3>> ELSE <<>>)>>
    \o (IF r.lost < r.sent THEN <<[is |-> "rtt", min |-> r.min, avg |-> r.avg, max |-> r.max]>> ELSE <<>>)

-----------------------------------------------------------------------------
(* popen.  One that fails is noticed, and the NULL handed to fgets.        *)
Fails == step' = "crash" /\ UNCHANGED <<pipe, str_result, meant, answerers>>

(* A host that cannot be resolved is reported on another stream, and so is *)
(* what is no command: the string that cmd points to is destroyed before   *)
(* popen reads it (line 226).                                              *)
RunPing ==
  /\ step = "run" /\ tool = "pinger"
  /\ \/ Fails
     \/ /\ step' = "collect" /\ UNCHANGED <<str_result, answerers>>
        /\ \/ pipe' = <<>> /\ meant' = <<>>
           \/ \E r \in Reports : /\ r.lost <= r.sent /\ r.min <= r.avg /\ r.avg <= r.max
                                 /\ pipe' = Printed(r) /\ meant' = <<r>>
  /\ UNCHANGED <<tool, ping_status, index, probes, shown_ip, trace>>

(* One probe of a trace: str_result is a variable of the loop.             *)
Fresh_Kept == str_result  \* faulty form: it is one of the function

Fresh == <<>>

RunProbe ==
  /\ step = "run" /\ tool = "trace" /\ probes > 0
  /\ probes' = probes - 1
  /\ \/ Fails
     \/ /\ step' = "collect" /\ str_result' = Fresh /\ UNCHANGED meant
        /\ \/ /\ pipe' = <<Title, Loss(100, <<>>)>>
              /\ answerers' = Append(answerers, NoAddress)
           \/ /\ pipe' = <<Title, AnswerLine(index), Loss(IF index < HostAt THEN 100 ELSE 0, <<>>)>>
              /\ answerers' = Append(answerers, AnswerLine(index).ip)
  /\ UNCHANGED <<tool, ping_status, index, shown_ip, trace>>

(* fgets, until the program has ended.                                     *)
Collect ==
  /\ step = "collect"
  /\ IF pipe = <<>> THEN step' = "process" /\ UNCHANGED <<pipe, str_result>>
     ELSE str_result' = Append(str_result, Head(pipe)) /\ pipe' = Tail(pipe) /\ UNCHANGED step
  /\ UNCHANGED <<tool, ping_status, index, probes, shown_ip, trace, meant, answerers>>

-----------------------------------------------------------------------------
(* GetPingStatus, line by line.  The digits before "% packet loss" are     *)
(* read from the right; the result is divided by 100.  (Here loss is in    *)
(* hundredths.)                                                            *)
Power_OffByOne(i) == 10^i  \* faulty form: pow(10, i - 2)

Power(i) == 10^(i - 1)

LossRate(text) ==
  FoldLeft(LAMBDA a, b : a + b, 0,
           [i \in DOMAIN text |-> text[Len(text) + 1 - i] * Power(i)])

ReadLine(status, n, line) ==
  CASE n = 1 /\ line.is = "title" -> [status EXCEPT !.ip = line.ip]
    [] line.is = "loss" -> [status EXCEPT !.loss = LossRate(line.text)]
    [] line.is = "rtt" -> [status EXCEPT !.min = line.min, !.avg = line.avg, !.max = line.max]
    [] OTHER -> status

ReadLines(status, lines) ==
  FoldLeft(LAMBDA s, i : ReadLine(s, i, lines[i]), status, [i \in DOMAIN lines |-> i])

GetPingStatus ==
  /\ step = "process" /\ tool = "pinger"
  /\ ping_status' = ReadLines(ping_status, str_result)
  /\ step' = "end"
  /\ UNCHANGED <<tool, pipe, str_result, index, probes, shown_ip, trace, meant, answerers>>

(* process_ping_result: the address after the first "From ".  The host's   *)
(* own answer says "from" and is taken for a timeout.                      *)
process_ping_result ==
  LET at == {i \in DOMAIN str_result : str_result[i].is = "From"}
  IN IF at = {} THEN NoAddress ELSE str_result[Min(at)].ip

(* explore_router, what it prints of a probe.                              *)
ProcessProbe ==
  /\ step = "process" /\ tool = "trace"
  /\ LET ip == process_ping_result
     IN /\ trace' = Append(trace, [ttl |-> index, ip |-> ip,
                                   shown |-> ip \notin {NoAddress, shown_ip}])
        /\ shown_ip' = IF ip = NoAddress THEN shown_ip ELSE ip
  /\ step' = "run"
  /\ UNCHANGED <<tool, pipe, str_result, ping_status, index, probes, meant, answerers>>

(* The next line, or the end: the host is not looked for.                  *)
NextLine ==
  /\ step = "run" /\ tool = "trace" /\ probes = 0
  /\ IF index < LastTTL
     THEN index' = index + 1 /\ probes' = Probes /\ UNCHANGED step
     ELSE step' = "end" /\ UNCHANGED <<index, probes>>
  /\ shown_ip' = NoAddress
  /\ UNCHANGED <<tool, pipe, str_result, ping_status, trace, meant, answerers>>

ToolNext == RunPing \/ RunProbe \/ Collect \/ GetPingStatus \/ ProcessProbe \/ NextLine

ToolSpec == ToolInit /\ [][ToolNext]_toolVars

-----------------------------------------------------------------------------
(* Properties                                                              *)

(* The status is what ping reported: the loss, as long as it is a whole    *)
(* number of per cent, as a fraction of 1 (where the socket version has it *)
(* in per cent, line 179), and the times, or zeros if nothing was          *)
(* answered.  Without a report it stays as it was constructed, its ip      *)
(* empty, and looks like one of a host that answers at once (lines         *)
(* 246-308).                                                               *)
ReportRead ==
  step = "end" /\ tool = "pinger" =>
    IF meant = <<>> THEN ping_status = NoStatus
    ELSE LET r == meant[1] IN
      /\ ping_status.ip = HostAt
      /\ WholePercent(r) => ping_status.loss * r.sent = 100 * r.lost
      /\ r.lost < r.sent => <<ping_status.min, ping_status.avg, ping_status.max>> = <<r.min, r.avg, r.max>>
      /\ r.lost = r.sent => <<ping_status.min, ping_status.avg, ping_status.max>> = <<0, 0, 0>>

(* Unlike the socket version this one cannot take a late answer for that   *)
(* of a later probe: an entry's address is that of who answered its own    *)
(* run of ping, the router at its line's TTL or the host; every router     *)
(* that answers is shown; and an address is shown once per line, at its    *)
(* first entry (lines 336-363).  Whether the host is shown is the question *)
(* of StarIsTimeout.                                                       *)
ProbeByProbe ==
  \A i \in DOMAIN trace :
    LET e == trace[i] IN
      /\ e.ip # NoAddress => e.ip = answerers[i] /\ e.ip = Min({e.ttl, HostAt})
      /\ answerers[i] # NoAddress /\ e.ttl < HostAt => e.ip # NoAddress
      /\ e.shown <=> /\ e.ip # NoAddress
                     /\ \A j \in 1..(i - 1) : trace[j].ttl = e.ttl => trace[j].ip = NoAddress

(* "is timeout" (line 386): what process_ping_result takes for a timeout,  *)
(* and is printed as a star, is a probe that nobody answered.              *)
StarIsTimeout ==
  \A i \in DOMAIN trace : trace[i].ip = NoAddress => answerers[i] = NoAddress
=============================================================================
