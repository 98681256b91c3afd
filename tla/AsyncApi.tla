------------------------------ MODULE AsyncApi ------------------------------
(***************************************************************************)
(* The asynchronous API of src/global_func.cpp on the task queue of        *)
(* include/qyutil.h: what runs inside a task's functions, and what the     *)
(* application's callbacks are told.                                       *)
(*                                                                         *)
(*   OC_NetworkDiagnosis            .first is NetworkDiagnosis (qyutil.cpp)*)
(*   AsyncNativeGetHostNameByServer,                                       *)
(*   AsyncNativePing, AsyncNativeTraceRouter                               *)
(*                                  .first fills a buffer, .second hands   *)
(*                                  it to the callback                     *)
(*                                                                         *)
(* Of the resolver only its outcome is kept, a list of addresses or none   *)
(* (Resolver's ReturnSound), of a ping run only whose it is.  What `told`  *)
(* has of a diagnosis is what its qyutil::Callback is told; behind the C   *)
(* API that is an OC_Callback, whose dns_query is empty: the application's *)
(* PingCallback hears of the pings only.                                   *)
(***************************************************************************)
EXTENDS TaskQueue, Integers

CONSTANTS Kind,     \* which function each task came from
          Ips,      \* addresses
          LongIps,  \* those of 15 characters, which fill PingStatus's ip
          IpLists   \* what the resolver may find: sequences of addresses

Kinds == {"diagnosis", "dns", "ping", "trace"}

ASSUME AsyncApiAssumption ==
  /\ Kind \in [Tasks -> Kinds]
  /\ NullFirst = {} /\ NullSecond = {}
  /\ LongIps \subseteq Ips
  /\ IpLists \subseteq Seq(Ips)

VARIABLES stage,   \* where each worker is inside .first
          ips,     \* ipInfo of each task
          error,   \* the QYErrorInfo_ all callbacks of a diagnosis share
          pinged,  \* addresses the diagnosis is done with
          result,  \* the buffer of an AsyncNative call
          events,  \* history: whose the callbacks were, in the order they were made
          told,    \* history: what the callbacks of each task were told
          unended  \* history: addresses handed over as a string without an end

heard == <<events, told, unended>>
api == <<stage, ips, error, pinged, result, heard>>
apiVars == <<vars, api>>

(* QYErrorInfo_.  A message is as long as it takes to see what remains of  *)
(* a longer one: set copies it without a NUL over the message before;      *)
(* only recover, a set without a message, clears the buffer.               *)
NoMessage == <<>>
UnknownHost == <<"u", "u">>
EmptyIpList == <<"e", "e", "e">>

Set(e, code, msg) ==
  [code |-> code, msg |-> msg \o SubSeq(e.msg, Len(msg) + 1, Len(e.msg))]
Recovered == [code |-> 0, msg |-> NoMessage]

ApiInit == /\ Init
           /\ stage = [w \in Workers |-> "end"]
           /\ ips = [k \in Tasks |-> <<>>]
           /\ error = [k \in Tasks |-> Recovered]
           /\ pinged = [k \in Tasks |-> 0]
           /\ result = [k \in Tasks |-> "empty"]
           /\ events = <<>> /\ told = [k \in Tasks |-> <<>>] /\ unended = {}

(* Worker w is at this stage of the .first of a task of this kind, and not *)
(* inside a put_task that one of the task's callbacks made.                *)
At(w, kind, s) == /\ pc[w] = "first" /\ putting[w] = NoTask
                  /\ Kind[tmp_task[w]] = kind /\ stage[w] = s

Goto(w, s) == stage' = [stage EXCEPT ![w] = s]

(* A callback of task k is made.                                           *)
Tell(k, what) == /\ events' = Append(events, k)
                 /\ told' = [told EXCEPT ![k] = Append(@, what)]

About(what, list, err) == [what |-> what, list |-> list, error |-> err]

-----------------------------------------------------------------------------
(* NetworkDiagnosis: the query, then the first setting of the error.       *)
Query(w) ==
  /\ At(w, "diagnosis", "start")
  /\ \E list \in IpLists :
       /\ ips' = [ips EXCEPT ![tmp_task[w]] = list]
       /\ error' = [error EXCEPT ![tmp_task[w]] =
                     IF list = <<>> THEN Set(Recovered, -1, UnknownHost) ELSE Recovered]
  /\ Goto(w, "dns_query")
  /\ UNCHANGED <<vars, pinged, result, heard>>

(* The qyutil::Callback gets the list; an OC_Callback drops it.            *)
DnsQuery(w) ==
  /\ At(w, "diagnosis", "dns_query")
  /\ LET k == tmp_task[w] IN
       Tell(k, About("dns_query", ips[k], error[k]))
  /\ Goto(w, "ping")
  /\ UNCHANGED <<vars, ips, error, pinged, result, unended>>

(* OC_Callback::ping copies the status.  ZeroPingStatus clears its first   *)
(* 16 bytes, which are numbers, and strncpy up to 15 bytes of ip: the last *)
(* byte of ip is whatever was there when the address has 15 characters.    *)
OcPing(k, list, err) ==
  /\ Tell(k, About("ping", list, err))
  /\ unended' \in {unended, unended \cup (Range(list) \cap LongIps)}

(* Without an address: one callback, which says so.                        *)
PingEmpty_Silent(w) ==  \* faulty form: no callback for an empty list
  /\ At(w, "diagnosis", "ping") /\ ips[tmp_task[w]] = <<>>
  /\ Goto(w, "end")
  /\ UNCHANGED <<vars, ips, error, pinged, result, heard>>

PingEmpty(w) ==
  /\ At(w, "diagnosis", "ping") /\ ips[tmp_task[w]] = <<>>
  /\ error' = [error EXCEPT ![tmp_task[w]] = Set(Recovered, -1, EmptyIpList)]
  /\ OcPing(tmp_task[w], <<>>, error'[tmp_task[w]])
  /\ Goto(w, "end")
  /\ UNCHANGED <<vars, ips, pinged, result>>

(* One turn of the loop: a pinger for the next address, one callback.  The *)
(* status has the address that was pinged; on Android its ip is that of    *)
(* ping's report, or empty without one (PingCommand).                      *)
PingNext(w) ==
  /\ At(w, "diagnosis", "ping")
  /\ LET k == tmp_task[w]
         i == pinged[k] + 1
     IN /\ i <= Len(ips[k])
        /\ pinged' = [pinged EXCEPT ![k] = i]
        /\ error' = [error EXCEPT ![k] = Recovered]
        /\ OcPing(k, <<ips[k][i]>>, Recovered)
        /\ Goto(w, IF i = Len(ips[k]) THEN "end" ELSE "ping")
  /\ UNCHANGED <<vars, ips, result>>

-----------------------------------------------------------------------------
(* The work of the AsyncNative calls.  The addresses are written to the    *)
(* buffer when there are any; NativePing writes nothing; NativeTraceRouter *)
(* copies from a string that is destroyed by then.                         *)
NativeGetHostNameByServer_NoCheck(w) ==  \* faulty form: `ret` is not looked at
  /\ At(w, "dns", "start")
  /\ LET k == tmp_task[w] IN
       \E list \in IpLists : /\ ips' = [ips EXCEPT ![k] = list]
                            /\ result' = [result EXCEPT ![k] = "addresses"]
  /\ Goto(w, "end")
  /\ UNCHANGED <<vars, error, pinged, heard>>

NativeGetHostNameByServer(w) ==
  /\ At(w, "dns", "start")
  /\ LET k == tmp_task[w] IN
       \E list \in IpLists :
         /\ ips' = [ips EXCEPT ![k] = list]
         /\ result' = [result EXCEPT ![k] = IF list = <<>> THEN @ ELSE "addresses"]
  /\ Goto(w, "end")
  /\ UNCHANGED <<vars, error, pinged, heard>>

NativePing(w) ==
  /\ At(w, "ping", "start")
  /\ Goto(w, "end")
  /\ UNCHANGED <<vars, ips, error, pinged, result, heard>>

NativeTraceRouter(w) ==
  /\ At(w, "trace", "start")
  /\ \E text \in {"report", "empty", "garbage"} :
       result' = [result EXCEPT ![tmp_task[w]] = text]
  /\ Goto(w, "end")
  /\ UNCHANGED <<vars, ips, error, pinged, heard>>

First(w) == \/ Query(w) \/ DnsQuery(w) \/ PingEmpty(w) \/ PingNext(w)
            \/ NativeGetHostNameByServer(w) \/ NativePing(w) \/ NativeTraceRouter(w)

(* .second: the callback of an AsyncNative call is always told `true`;     *)
(* that of a diagnosis calls nothing.                                      *)
Second(k) ==
  /\ IF Kind[k] = "diagnosis" THEN UNCHANGED <<events, told>> ELSE Tell(k, result[k])
  /\ UNCHANGED unended

-----------------------------------------------------------------------------
(* The queue's steps.  A task may be submitted from a callback.            *)
Submit(t) == UNCHANGED api /\ \E k \in Tasks : Put(t, k)

Begin(w) == Take(w) /\ Goto(w, "start") /\ UNCHANGED <<ips, error, pinged, result, heard>>

EndFirst(w) == FirstReturns(w) /\ stage[w] = "end" /\ UNCHANGED api

EndSecond(w) == /\ SecondReturns(w) /\ Second(tmp_task[w])
                /\ UNCHANGED <<stage, ips, error, pinged, result>>

Work(w) == \/ (Spawn(w) \/ Enter(w)) /\ UNCHANGED api
           \/ Begin(w) \/ First(w) \/ EndFirst(w) \/ EndSecond(w)

ApiNext == \/ \E t \in Threads : Submit(t) \/ (NotifyAll(t) /\ UNCHANGED api)
           \/ \E w \in Workers : Work(w) \/ (SpuriousWake(w) /\ UNCHANGED api)

(* As TaskQueue's; that .first returns is the resolver's and the pinger's  *)
(* liveness (Resolver's Returns, Pinger's Terminates).                     *)
ApiFairness == /\ \A t \in Threads : WF_apiVars(NotifyAll(t) /\ UNCHANGED api)
               /\ \A w \in Workers : WF_apiVars(Work(w))

ApiSpec == ApiInit /\ [][ApiNext]_apiVars /\ ApiFairness

-----------------------------------------------------------------------------
(* Properties                                                              *)

(* What the callbacks of a diagnosis should be told: a dns_query with the  *)
(* whole list, an error exactly if it is empty; then one ping per address  *)
(* in the order of the list, or a single one with an error of its own and  *)
(* nothing of the message before.                                          *)
Story(k) ==
  IF ips[k] = <<>>
  THEN <<About("dns_query", <<>>, [code |-> -1, msg |-> UnknownHost]),
         About("ping", <<>>, [code |-> -1, msg |-> EmptyIpList])>>
  ELSE <<About("dns_query", ips[k], Recovered)>>
         \o [i \in 1..Len(ips[k]) |-> About("ping", <<ips[k][i]>>, Recovered)]

(* The callbacks of a diagnosis tell that story and nothing else, although *)
(* one error object is passed to all of them and set again in between      *)
(* (qyutil.cpp lines 35-60), each being told what is in it at the time of  *)
(* the call; and nothing of it is left out when NetworkDiagnosis has       *)
(* returned: the Callback heard of every address, or that there is none.   *)
OneStory ==
  \A k \in Tasks : Kind[k] = "diagnosis" =>
    /\ IsPrefix(told[k], Story(k))
    /\ k \in Range(worked) => told[k] = Story(k)

(* The callback of an AsyncNative call is made at most once, and then the  *)
(* buffer is no longer written: what it is given is what the work left     *)
(* there (lines 151-202).                                                  *)
AsyncAnswer ==
  \A k \in Tasks : Kind[k] # "diagnosis" /\ told[k] # <<>> =>
    /\ k \in Range(worked) /\ told[k] = <<result[k]>>
    /\ Kind[k] = "dns" => (result[k] = "addresses" <=> ips[k] # <<>>)

(* With the one worker of qyutil_instance, the callbacks of two requests   *)
(* never mix, and come in the order of the requests -- those made from     *)
(* inside a callback included.                                             *)
NeverMixed ==
  LET turn(k) == CHOOSE n \in 1..Len(accepted) : accepted[n] = k
  IN (\A v, w \in Workers : v = w) =>
       \A i, j \in 1..Len(events) : i <= j => turn(events[i]) <= turn(events[j])

(* Every request gets its last callback.                                   *)
Answered ==
  \A k \in Tasks :
    k \in Range(accepted) ~>
      IF Kind[k] = "diagnosis"
      THEN told[k] = Story(k) /\ k \in Range(worked)
      ELSE Len(told[k]) = 1

(* "zero the structure" (global_func.h:42): the status a callback is given *)
(* holds a string that ends.                                               *)
StatusZeroed == unended = {}
=============================================================================
