--------------------------- MODULE AsyncApiProofs ---------------------------
(***************************************************************************)
(* Proofs about AsyncApi, for any number of workers, callers and requests  *)
(* and for whatever the resolver may find.  Every step is one of the       *)
(* queue's or leaves the queue alone, so that the queue's invariant (Inv   *)
(* of TaskQueueProofs) is one of the API; what is added is how far the     *)
(* work on each request is, and whose callbacks have been made.            *)
(***************************************************************************)
EXTENDS AsyncApi, TaskQueueProofs

(* The list is a queue, as in TaskQueueProofs.                             *)
USE DEF Push, Woken, Oldest, Dropped, Unlocked

Letters == {"u", "e"}
Errors == [code : Int, msg : Seq(Letters)]
Tells == [what : {"dns_query", "ping"}, list : Seq(Ips), error : Errors]
Texts == {"empty", "addresses", "report", "garbage"}

Stages == {"start", "dns_query", "ping", "end"}

Types ==
  /\ stage \in [Workers -> Stages]
  /\ ips \in [Tasks -> Seq(Ips)]
  /\ error \in [Tasks -> Errors]
  /\ pinged \in [Tasks -> Nat]
  /\ result \in [Tasks -> Texts]
  /\ events \in Seq(Tasks)
  /\ told \in [Tasks -> Seq(Tells \cup Texts)]

-----------------------------------------------------------------------------
(* How far the work on task k is.                                          *)
Untouched(k) == told[k] = <<>> /\ pinged[k] = 0 /\ ips[k] = <<>> /\ result[k] = "empty"

(* The first n callbacks are those of the story.                           *)
Heard(k, n) ==
  /\ n <= Len(Story(k))
  /\ told[k] = [i \in 1..n |-> Story(k)[i]]

Addressed(k) == Kind[k] = "dns" => (result[k] = "addresses" <=> ips[k] # <<>>)

Progress(k, s) ==
  /\ s = "start" => Untouched(k)
  /\ Kind[k] = "diagnosis" =>
       /\ s = "dns_query" =>
            /\ told[k] = <<>> /\ pinged[k] = 0
            /\ error[k] = IF ips[k] = <<>> THEN [code |-> -1, msg |-> UnknownHost] ELSE Recovered
       /\ s = "ping" =>
            /\ Heard(k, pinged[k] + 1)
            /\ IF ips[k] = <<>> THEN pinged[k] = 0 ELSE pinged[k] < Len(ips[k])
       /\ s = "end" => told[k] = Story(k)
  /\ Kind[k] # "diagnosis" =>
       /\ told[k] = <<>>
       /\ s = "end" => Addressed(k)

Complete(k) ==
  /\ Kind[k] = "diagnosis" => told[k] = Story(k)
  /\ Kind[k] # "diagnosis" =>
       /\ Addressed(k)
       /\ told[k] = IF k \in Range(reported) THEN <<result[k]>> ELSE <<>>

(* A task that was fetched is being worked on, by one worker, or was.      *)
Tasked ==
  /\ \A k \in Range(fetched) \ Range(worked) : \E w \in Workers : pc[w] = "first" /\ tmp_task[w] = k
  /\ \A k \in Tasks \ Range(fetched) : Untouched(k)
  /\ \A w \in Workers, k \in Tasks, s \in Stages :
       pc[w] = "first" /\ tmp_task[w] = k /\ stage[w] = s => Progress(k, s)
  /\ \A k \in Range(worked) : Complete(k)

-----------------------------------------------------------------------------
(* Callbacks are made for fetched tasks, and by a single worker for the    *)
(* one fetched last.                                                       *)
Alone == \A v, w \in Workers : v = w

InTurn ==
  /\ Range(events) \subseteq Range(fetched)
  /\ Alone =>
       /\ \A w \in Workers : tmp_task[w] # NoTask =>
            fetched # <<>> /\ tmp_task[w] = fetched[Len(fetched)]
       /\ \A i, j \in 1..Len(events) : i <= j =>
            \A m, n \in 1..Len(fetched) :
              fetched[m] = events[i] /\ fetched[n] = events[j] => m <= n

ApiInv == Inv /\ Types /\ Tasked /\ InTurn

-----------------------------------------------------------------------------
(* A step of the API is a step of the queue, or none.                      *)
LEMMA StepOfQueue == [ApiNext]_apiVars => [Next]_vars
<1>1. ASSUME NEW w \in Workers, First(w) PROVE UNCHANGED vars
  BY <1>1 DEF First, Query, DnsQuery, PingEmpty, PingNext, NativeGetHostNameByServer, NativePing,
              NativeTraceRouter
<1>2. ASSUME NEW w \in Workers, Work(w) PROVE RunStep(w) \/ UNCHANGED vars
  BY <1>1, <1>2 DEF Work, Begin, EndFirst, EndSecond, RunStep
<1> QED BY <1>2 DEF ApiNext, Submit, Next, apiVars

LEMMA QueueStep == Inv /\ [ApiNext]_apiVars => Inv'
BY StepOfQueue, TypeStep, SyncStep, FifoStep, OwnershipStep DEF Inv

(* The task a worker is inside of.                                         *)
LEMMA Current ==
  ASSUME Inv, NEW w \in Workers, pc[w] \in {"first", "second"}
  PROVE  /\ tmp_task[w] \in Tasks
         /\ \A v \in Workers \ {w} : tmp_task[v] # tmp_task[w]
         /\ tmp_task[w] \in Range(fetched)
         /\ pc[w] = "first" => tmp_task[w] \notin Range(worked)
         /\ pc[w] = "second" => tmp_task[w] \in Range(worked) \ Range(reported)
BY TaskQueueAssumption DEF Inv, TypeOK, Ownership

LEMMA HistoriesNest ==
  ASSUME Inv
  PROVE  /\ Range(reported) \subseteq Range(worked) /\ Range(worked) \subseteq Range(fetched)
         /\ Range(fetched) \subseteq Tasks
BY RangeOfSeq DEF Inv, TypeOK, Ownership

-----------------------------------------------------------------------------
(* The story is told in calls of OC_Callback.                              *)
LEMMA Message ==
  ASSUME NEW what \in {"dns_query", "ping"}, NEW list \in Seq(Ips), NEW err \in Errors
  PROVE  About(what, list, err) \in Tells
BY DEF About, Tells

LEMMA FirstSet ==
  ASSUME NEW msg \in Seq(Letters), NEW code \in Int
  PROVE  /\ Set(Recovered, code, msg) = [code |-> code, msg |-> msg]
         /\ Recovered \in Errors /\ [code |-> code, msg |-> msg] \in Errors
<1>1. Recovered = [code |-> 0, msg |-> <<>>] /\ <<>> \in Seq(Letters)
  BY DEF Recovered, NoMessage
<1>2. SubSeq(<<>>, Len(msg) + 1, Len(<<>>)) = <<>>
  OBVIOUS
<1>3. msg \o <<>> = msg
  BY ConcatEmptySeq
<1> QED BY <1>1, <1>2, <1>3 DEF Set, Errors

LEMMA StoryParts ==
  ASSUME NEW k \in Tasks, ips[k] \in Seq(Ips)
  PROVE  /\ Story(k) \in Seq(Tells)
         /\ ips[k] = <<>> =>
              /\ Len(Story(k)) = 2
              /\ Story(k)[1] = About("dns_query", <<>>, [code |-> -1, msg |-> UnknownHost])
              /\ Story(k)[2] = About("ping", <<>>, [code |-> -1, msg |-> EmptyIpList])
         /\ ips[k] # <<>> =>
              /\ Len(Story(k)) = Len(ips[k]) + 1
              /\ Story(k)[1] = About("dns_query", ips[k], Recovered)
              /\ \A i \in 1..Len(ips[k]) : Story(k)[i + 1] = About("ping", <<ips[k][i]>>, Recovered)
<1>1. UnknownHost \in Seq(Letters) /\ EmptyIpList \in Seq(Letters)
  BY DEF UnknownHost, EmptyIpList, Letters
<1>2. /\ [code |-> -1, msg |-> UnknownHost] \in Errors
      /\ [code |-> -1, msg |-> EmptyIpList] \in Errors /\ Recovered \in Errors
  BY <1>1, FirstSet
<1>3. CASE ips[k] = <<>>
  <2> DEFINE a == About("dns_query", <<>>, [code |-> -1, msg |-> UnknownHost])
             b == About("ping", <<>>, [code |-> -1, msg |-> EmptyIpList])
  <2>1. a \in Tells /\ b \in Tells
    <3>1. <<>> \in Seq(Ips)
      OBVIOUS
    <3> QED BY <1>2, <3>1, Message
  <2>2. Story(k) = <<a, b>>
    BY <1>3 DEF Story
  <2> HIDE DEF a, b
  <2>3. Story(k) \in Seq(Tells) /\ Len(Story(k)) = 2 /\ Story(k)[1] = a /\ Story(k)[2] = b
    BY <2>1, <2>2
  <2> QED BY <1>3, <2>3 DEF a, b
<1>4. CASE ips[k] # <<>>
  <2> DEFINE a == About("dns_query", ips[k], Recovered)
             ping(i) == About("ping", <<ips[k][i]>>, Recovered)
             p == [i \in 1..Len(ips[k]) |-> ping(i)]
  <2>1. a \in Tells /\ \A i \in 1..Len(ips[k]) : ping(i) \in Tells
    <3>1. ASSUME NEW i \in 1..Len(ips[k]) PROVE <<ips[k][i]>> \in Seq(Ips)
      BY <3>1, ElementOfSeq
    <3> QED BY <1>2, <3>1, Message
  <2>2. Story(k) = <<a>> \o p
    BY <1>4 DEF Story
  <2> HIDE DEF a, ping
  <2>3. p \in Seq(Tells) /\ Len(p) = Len(ips[k]) /\ \A i \in 1..Len(ips[k]) : p[i] = ping(i)
    BY <2>1, LenProperties
  <2>4. <<a>> \in Seq(Tells) /\ Len(<<a>>) = 1 /\ <<a>>[1] = a
    BY <2>1
  <2> HIDE DEF p
  <2>5. /\ Story(k) \in Seq(Tells) /\ Len(Story(k)) = 1 + Len(ips[k])
        /\ \A i \in 1..(1 + Len(ips[k])) : Story(k)[i] = IF i <= 1 THEN <<a>>[i] ELSE p[i - 1]
    BY <2>2, <2>3, <2>4, ConcatProperties
  <2>6. Story(k)[1] = a /\ \A i \in 1..Len(ips[k]) : Story(k)[i + 1] = ping(i)
    <3>1. Len(ips[k]) \in Nat
      BY LenProperties
    <3>2. Story(k)[1] = a
      BY <2>4, <2>5, <3>1
    <3>3. ASSUME NEW i \in 1..Len(ips[k]) PROVE Story(k)[i + 1] = ping(i)
      BY <2>3, <2>5, <3>1, <3>3
    <3> QED BY <3>2, <3>3
  <2>7. 1 + Len(ips[k]) = Len(ips[k]) + 1
    BY LenProperties
  <2> QED BY <1>4, <2>5, <2>6, <2>7 DEF a, ping
<1> QED BY <1>3, <1>4

(* The next callback of the story.                                         *)
LEMMA HeardNext ==
  ASSUME Types, NEW k \in Tasks, NEW n \in Nat, NEW m, m = n + 1, Heard(k, n), n < Len(Story(k)),
         UNCHANGED ips, told' = [told EXCEPT ![k] = Append(@, Story(k)[m])]
  PROVE  /\ Heard(k, m)'
         /\ m = Len(Story(k)) => told'[k] = Story(k)
<1> DEFINE S == Story(k)
           f == [i \in 1..n |-> S[i]]
           g == [i \in 1..m |-> S[i]]
<1>1. S \in Seq(Tells) /\ Len(S) \in Nat
  BY StoryParts, LenProperties DEF Types
<1>2. S' = S
  BY DEF Story
<1>3. \A i \in 1..Len(S) : S[i] \in Tells
  BY <1>1, ElementOfSeq
<1>4. told'[k] = Append(told[k], S[m]) /\ told[k] = f
  BY DEF Types, Heard
<1> HIDE DEF S
<1>5. f \in Seq(Tells) /\ g \in Seq(Tells) /\ Len(f) = n /\ Len(g) = m /\ S[m] \in Tells
  BY <1>1, <1>3 DEF S
<1>6. Append(f, S[m]) = g
  <2>1. /\ Append(f, S[m]) \in Seq(Tells) /\ Len(Append(f, S[m])) = m
        /\ \A i \in 1..n : Append(f, S[m])[i] = f[i]
        /\ Append(f, S[m])[m] = S[m]
    BY <1>5, AppendProperties
  <2>2. \A i \in 1..(m) : Append(f, S[m])[i] = g[i]
    BY <2>1
  <2> QED BY <1>5, <2>1, <2>2, SeqEqual
<1>7. m = Len(S) => g = S
  BY <1>1, <1>5, SeqEqual
<1>8. m <= Len(S)
  BY <1>1 DEF S
<1> QED BY <1>2, <1>4, <1>6, <1>7, <1>8 DEF Heard, S

-----------------------------------------------------------------------------
(* What the steps inside .first share: the worker is at a task, and only   *)
(* that worker's stage and that task's data change.                        *)
Same(k) == UNCHANGED <<told[k], pinged[k], ips[k], result[k], error[k]>>

WorksOn(w, k) ==
  /\ pc[w] = "first" /\ tmp_task[w] = k /\ UNCHANGED vars
  /\ \A v \in Workers \ {w} : stage'[v] = stage[v]
  /\ \A j \in Tasks \ {k} : Same(j)

LEMMA SameKept ==
  ASSUME NEW k, Same(k)
  PROVE  /\ Untouched(k) => Untouched(k)'
         /\ \A s : Progress(k, s) => Progress(k, s)'
         /\ (k \in Range(reported') <=> k \in Range(reported)) => (Complete(k) => Complete(k)')
<1>1. Story(k)' = Story(k) /\ (Addressed(k) <=> Addressed(k)') /\ (Untouched(k) <=> Untouched(k)')
  BY DEF Same, Story, Addressed, Untouched
<1>2. \A n : Heard(k, n) <=> Heard(k, n)'
  BY <1>1 DEF Same, Heard
<1> QED BY <1>1, <1>2 DEF Same, Progress, Complete

LEMMA WorkKept ==
  ASSUME ApiInv, NEW w \in Workers, NEW k \in Tasks, WorksOn(w, k),
         NEW s \in Stages, stage'[w] = s, Progress(k, s)'
  PROVE  Tasked'
<1> USE DEF WorksOn
<1>1. UNCHANGED <<pc, tmp_task, fetched, worked, reported>>
  BY DEF vars
<1>2. /\ k \in Range(fetched) /\ k \notin Range(worked)
      /\ \A v \in Workers \ {w} : tmp_task[v] # k
  BY Current DEF ApiInv
<1>3. Range(worked) \subseteq Tasks
  BY HistoriesNest DEF ApiInv
<1>4. \A j \in Range(fetched') \ Range(worked') : \E v \in Workers : pc'[v] = "first" /\ tmp_task'[v] = j
  BY <1>1 DEF ApiInv, Tasked
<1>5. ASSUME NEW j \in Tasks \ Range(fetched') PROVE Untouched(j)'
  <2>1. Same(j) /\ Untouched(j)
    BY <1>1, <1>2, <1>5 DEF ApiInv, Tasked
  <2> QED BY <2>1, SameKept
<1>6. ASSUME NEW v \in Workers, NEW j \in Tasks, NEW r \in Stages,
             pc'[v] = "first", tmp_task'[v] = j, stage'[v] = r
      PROVE  Progress(j, r)'
  <2>1. CASE v = w
    BY <1>1, <1>6, <2>1
  <2>2. CASE v # w
    <3>1. stage[v] = r /\ pc[v] = "first" /\ tmp_task[v] = j /\ j # k
      BY <1>1, <1>2, <1>6, <2>2
    <3>2. Same(j) /\ Progress(j, r)
      BY <3>1 DEF ApiInv, Tasked
    <3> QED BY <3>2, SameKept
  <2> QED BY <2>1, <2>2
<1>7. ASSUME NEW j \in Range(worked') PROVE Complete(j)'
  <2>1. Same(j) /\ Complete(j)
    BY <1>1, <1>2, <1>3, <1>7 DEF ApiInv, Tasked
  <2> QED BY <1>1, <2>1, SameKept
<1> QED BY <1>4, <1>5, <1>6, <1>7 DEF Tasked

(* What the invariant says of a worker inside .first.                      *)
LEMMA Reached ==
  ASSUME ApiInv, NEW w \in Workers, NEW kind, NEW s \in Stages, At(w, kind, s),
         NEW k, k = tmp_task[w]
  PROVE  /\ k \in Tasks /\ Kind[k] = kind /\ Progress(k, s)
         /\ pc[w] = "first" /\ stage[w] = s
BY Current DEF ApiInv, At, Tasked

-----------------------------------------------------------------------------
LEMMA Queried ==
  ASSUME ApiInv, NEW w \in Workers, NEW k, k = tmp_task[w], Query(w)
  PROVE  Tasked' /\ Types'
<1>1. At(w, "diagnosis", "start") /\ UNCHANGED vars /\ UNCHANGED <<pinged, result, heard>>
      /\ stage' = [stage EXCEPT ![w] = "dns_query"]
  BY DEF Query, Goto
<1>2. PICK list \in IpLists :
        /\ ips' = [ips EXCEPT ![k] = list]
        /\ error' = [error EXCEPT ![k] =
                      IF list = <<>> THEN Set(Recovered, -1, UnknownHost) ELSE Recovered]
  BY DEF Query
<1>3. k \in Tasks /\ Kind[k] = "diagnosis" /\ Progress(k, "start") /\ pc[w] = "first"
  BY <1>1, Reached DEF Stages
<1>4. Types /\ list \in Seq(Ips)
  BY AsyncApiAssumption DEF ApiInv
<1>5. /\ Set(Recovered, -1, UnknownHost) = [code |-> -1, msg |-> UnknownHost]
      /\ [code |-> -1, msg |-> UnknownHost] \in Errors /\ Recovered \in Errors
  <2>1. UnknownHost \in Seq(Letters)
    BY DEF UnknownHost, Letters
  <2> QED BY <2>1, FirstSet
<1>6. /\ ips'[k] = list
      /\ error'[k] = IF list = <<>> THEN [code |-> -1, msg |-> UnknownHost] ELSE Recovered
      /\ told'[k] = <<>> /\ pinged'[k] = 0
  BY <1>1, <1>2, <1>3, <1>4, <1>5 DEF Types, Progress, Untouched, heard
<1>7. Types'
  <2>1. ips' \in [Tasks -> Seq(Ips)] /\ error' \in [Tasks -> Errors]
    BY <1>2, <1>4, <1>5 DEF Types
  <2> QED BY <1>1, <1>4, <2>1 DEF Types, Stages, heard
<1>8. \A j \in Tasks \ {k} : Same(j)
  BY <1>1, <1>2, <1>4 DEF Types, Same, heard
<1>9. WorksOn(w, k) /\ stage'[w] = "dns_query"
  BY <1>1, <1>3, <1>4, <1>8 DEF WorksOn, Types
<1>10. Progress(k, "dns_query")'
  BY <1>3, <1>6 DEF Progress
<1> QED BY <1>3, <1>7, <1>9, <1>10, WorkKept DEF Stages

LEMMA DnsTold ==
  ASSUME ApiInv, NEW w \in Workers, NEW k, k = tmp_task[w], DnsQuery(w)
  PROVE  Tasked' /\ Types'
<1>1. At(w, "diagnosis", "dns_query") /\ UNCHANGED vars /\ UNCHANGED <<ips, error, pinged, result>>
      /\ stage' = [stage EXCEPT ![w] = "ping"]
      /\ events' = Append(events, k)
      /\ told' = [told EXCEPT ![k] = Append(@, About("dns_query", ips[k], error[k]))]
  BY DEF DnsQuery, Goto, Tell
<1>2. k \in Tasks /\ Kind[k] = "diagnosis" /\ Progress(k, "dns_query") /\ pc[w] = "first"
  BY <1>1, Reached DEF Stages
<1>3. Types /\ ips[k] \in Seq(Ips) /\ error[k] \in Errors
  BY <1>2 DEF ApiInv, Types
<1>4. told[k] = <<>> /\ pinged[k] = 0
      /\ error[k] = IF ips[k] = <<>> THEN [code |-> -1, msg |-> UnknownHost] ELSE Recovered
  BY <1>2 DEF Progress
<1>5. Story(k)[1] = About("dns_query", ips[k], error[k]) /\ Len(Story(k)) > 1
      /\ Story(k)[1] \in Tells
  <2>1. Story(k)[1] = About("dns_query", ips[k], error[k])
    BY <1>2, <1>3, <1>4, StoryParts
  <2>2. Len(Story(k)) > 1
    BY <1>2, <1>3, StoryParts, LenProperties, EmptySeq
  <2> QED BY <1>3, <2>1, <2>2, Message
<1>6. Heard(k, 0)
  <2>1. <<>> = [i \in 1..0 |-> Story(k)[i]]
    OBVIOUS
  <2> QED BY <1>4, <1>5, <2>1 DEF Heard
<1>7. Heard(k, 1)'
  <2>1. told' = [told EXCEPT ![k] = Append(@, Story(k)[1])]
    BY <1>1, <1>5
  <2>2. 0 \in Nat /\ 1 = 0 + 1 /\ 0 < Len(Story(k))
    BY <1>5, <1>2, <1>3, StoryParts, LenProperties
  <2> QED BY <1>1, <1>2, <1>3, <1>6, <2>1, <2>2, HeardNext
<1>8. Types'
  <2>1. told' \in [Tasks -> Seq(Tells \cup Texts)] /\ events' \in Seq(Tasks)
    BY <1>1, <1>2, <1>3, <1>5, AppendProperties DEF Types
  <2> QED BY <1>1, <1>3, <2>1 DEF Types, Stages
<1>9. WorksOn(w, k) /\ stage'[w] = "ping"
  BY <1>1, <1>2, <1>3 DEF WorksOn, Types, Same
<1>10. Progress(k, "ping")'
  <2>1. pinged'[k] + 1 = 1 /\ (ips'[k] # <<>> => pinged'[k] < Len(ips'[k]))
    BY <1>1, <1>3, <1>4, EmptySeq, LenProperties
  <2>2. Heard(k, pinged[k] + 1)'
    BY <1>7, <2>1 DEF Heard
  <2> QED BY <1>1, <1>2, <1>4, <2>1, <2>2 DEF Progress
<1> QED BY <1>2, <1>8, <1>9, <1>10, WorkKept DEF Stages

LEMMA EmptyTold ==
  ASSUME ApiInv, NEW w \in Workers, NEW k, k = tmp_task[w], PingEmpty(w)
  PROVE  Tasked' /\ Types'
<1> DEFINE e == [code |-> -1, msg |-> EmptyIpList]
<1>1. Set(Recovered, -1, EmptyIpList) = e /\ e \in Errors
  <2>1. EmptyIpList \in Seq(Letters)
    BY DEF EmptyIpList, Letters
  <2> QED BY <2>1, FirstSet
<1>2. At(w, "diagnosis", "ping") /\ UNCHANGED vars /\ UNCHANGED <<ips, pinged, result>>
      /\ stage' = [stage EXCEPT ![w] = "end"] /\ ips[k] = <<>>
      /\ error' = [error EXCEPT ![k] = e]
      /\ events' = Append(events, k)
      /\ told' = [told EXCEPT ![k] = Append(@, About("ping", <<>>, error'[k]))]
  BY <1>1 DEF PingEmpty, Goto, OcPing, Tell
<1>3. k \in Tasks /\ Kind[k] = "diagnosis" /\ Progress(k, "ping") /\ pc[w] = "first"
  BY <1>2, Reached DEF Stages
<1>4. Types /\ ips[k] \in Seq(Ips)
  BY <1>3 DEF ApiInv, Types
<1> HIDE DEF e
<1>5. error'[k] = e
  BY <1>2, <1>3, <1>4 DEF Types
<1>6. Heard(k, 1)
  <2>1. pinged[k] + 1 = 1 /\ Heard(k, pinged[k] + 1)
    BY <1>2, <1>3 DEF Progress
  <2> QED BY <2>1
<1>7. Len(Story(k)) = 2 /\ Story(k)[2] = About("ping", <<>>, e) /\ Story(k)[2] \in Tells
  BY <1>1, <1>2, <1>3, <1>4, StoryParts, Message DEF e
<1>8. told'[k] = Story(k)
  <2>1. told' = [told EXCEPT ![k] = Append(@, Story(k)[2])]
    BY <1>2, <1>5, <1>7
  <2>2. 1 \in Nat /\ 2 = 1 + 1 /\ 1 < Len(Story(k))
    BY <1>7
  <2> QED BY <1>2, <1>3, <1>4, <1>6, <1>7, <2>1, <2>2, HeardNext
<1>9. Types'
  <2>1. told' \in [Tasks -> Seq(Tells \cup Texts)] /\ events' \in Seq(Tasks)
    BY <1>2, <1>3, <1>4, <1>5, <1>7, AppendProperties DEF Types
  <2> QED BY <1>1, <1>2, <1>4, <2>1 DEF Types, Stages
<1>10. WorksOn(w, k) /\ stage'[w] = "end"
  BY <1>2, <1>3, <1>4 DEF WorksOn, Types, Same
<1>11. Progress(k, "end")'
  <2>1. Story(k)' = Story(k)
    BY <1>2 DEF Story
  <2> QED BY <1>3, <1>8, <2>1 DEF Progress
<1> QED BY <1>3, <1>9, <1>10, <1>11, WorkKept DEF Stages

LEMMA NextTold ==
  ASSUME ApiInv, NEW w \in Workers, NEW k, k = tmp_task[w], PingNext(w)
  PROVE  Tasked' /\ Types'
<1>0. PICK i, s : i = pinged[k] + 1 /\ s = IF i = Len(ips[k]) THEN "end" ELSE "ping"
  OBVIOUS
<1>1. At(w, "diagnosis", "ping") /\ UNCHANGED vars /\ UNCHANGED <<ips, result>>
      /\ stage' = [stage EXCEPT ![w] = s] /\ i <= Len(ips[k])
      /\ pinged' = [pinged EXCEPT ![k] = i]
      /\ error' = [error EXCEPT ![k] = Recovered]
      /\ events' = Append(events, k)
      /\ told' = [told EXCEPT ![k] = Append(@, About("ping", <<ips[k][i]>>, Recovered))]
  BY <1>0 DEF PingNext, Goto, OcPing, Tell
<1>2. k \in Tasks /\ Kind[k] = "diagnosis" /\ Progress(k, "ping") /\ pc[w] = "first"
  BY <1>1, Reached DEF Stages
<1>3. Types /\ ips[k] \in Seq(Ips) /\ pinged[k] \in Nat /\ Len(ips[k]) \in Nat
  BY <1>2, LenProperties DEF ApiInv, Types
<1>4. i \in 1..Len(ips[k]) /\ i \in Nat
  BY <1>0, <1>1, <1>3
<1>5. ips[k] # <<>>
  BY <1>3, <1>4, EmptySeq
<1>6. Heard(k, i)
  BY <1>0, <1>2 DEF Progress
<1>7. Len(Story(k)) = Len(ips[k]) + 1 /\ Story(k)[i + 1] = About("ping", <<ips[k][i]>>, Recovered)
  BY <1>2, <1>3, <1>4, <1>5, StoryParts
<1>8. About("ping", <<ips[k][i]>>, Recovered) \in Tells /\ Recovered \in Errors
  <2>1. <<ips[k][i]>> \in Seq(Ips)
    BY <1>3, <1>4, ElementOfSeq
  <2>2. Recovered \in Errors
    BY DEF Recovered, NoMessage, Errors
  <2> QED BY <2>1, <2>2, Message
<1>9. Heard(k, i + 1)' /\ (i + 1 = Len(Story(k)) => told'[k] = Story(k))
  <2>1. told' = [told EXCEPT ![k] = Append(@, Story(k)[i + 1])] /\ i < Len(Story(k))
    BY <1>1, <1>3, <1>4, <1>7
  <2> QED BY <1>1, <1>2, <1>3, <1>4, <1>6, <2>1, HeardNext
<1>10. s \in Stages
  BY <1>0 DEF Stages
<1>11. Types'
  <2>1. told' \in [Tasks -> Seq(Tells \cup Texts)] /\ events' \in Seq(Tasks)
    BY <1>1, <1>2, <1>3, <1>8, AppendProperties DEF Types
  <2> QED BY <1>1, <1>3, <1>4, <1>8, <1>10, <2>1 DEF Types
<1>12. WorksOn(w, k) /\ stage'[w] = s
  BY <1>1, <1>2, <1>3 DEF WorksOn, Types, Same
<1>13. Progress(k, s)'
  <2>1. Story(k)' = Story(k) /\ pinged'[k] = i /\ ips'[k] = ips[k]
    BY <1>1, <1>2, <1>3 DEF Story, Types
  <2>2. CASE i = Len(ips[k])
    <3>1. told'[k] = Story(k)'
      BY <1>7, <1>9, <2>1, <2>2
    <3> QED BY <1>0, <1>2, <2>2, <3>1 DEF Progress
  <2>3. CASE i # Len(ips[k])
    <3>1. i < Len(ips[k])
      BY <1>3, <1>4, <2>3
    <3>2. Heard(k, pinged[k] + 1)'
      BY <1>9, <2>1 DEF Heard
    <3> QED BY <1>0, <1>2, <1>5, <2>1, <2>3, <3>1, <3>2 DEF Progress
  <2> QED BY <2>2, <2>3
<1> QED BY <1>2, <1>10, <1>11, <1>12, <1>13, WorkKept

(* The work of an AsyncNative call tells nobody anything.                  *)
LEMMA NativeWorked ==
  ASSUME ApiInv, NEW w \in Workers, NEW k, k = tmp_task[w],
         NativeGetHostNameByServer(w) \/ NativePing(w) \/ NativeTraceRouter(w)
  PROVE  Tasked' /\ Types'
<1>1. /\ \E kind \in {"dns", "ping", "trace"} : At(w, kind, "start")
      /\ UNCHANGED vars /\ UNCHANGED <<error, pinged, heard>>
      /\ stage' = [stage EXCEPT ![w] = "end"]
  BY DEF NativeGetHostNameByServer, NativePing, NativeTraceRouter, Goto
<1>2. k \in Tasks /\ Kind[k] # "diagnosis" /\ Progress(k, "start") /\ pc[w] = "first"
  BY <1>1, Reached DEF Stages
<1>3. Types
  BY DEF ApiInv
<1>4. /\ ips' \in [Tasks -> Seq(Ips)] /\ result' \in [Tasks -> Texts]
      /\ \A j \in Tasks \ {k} : ips'[j] = ips[j] /\ result'[j] = result[j]
      /\ Kind[k] = "dns" => (result'[k] = "addresses" <=> ips'[k] # <<>>)
  <2>1. CASE NativeGetHostNameByServer(w)
    <3>1. PICK list \in IpLists :
            /\ ips' = [ips EXCEPT ![k] = list]
            /\ result' = [result EXCEPT ![k] = IF list = <<>> THEN result[k] ELSE "addresses"]
      BY <2>1 DEF NativeGetHostNameByServer
    <3>2. list \in Seq(Ips) /\ result[k] = "empty"
      BY <1>2, AsyncApiAssumption DEF Progress, Untouched
    <3> QED BY <1>2, <1>3, <3>1, <3>2 DEF Types, Texts
  <2>2. CASE NativePing(w)
    <3>1. Kind[k] = "ping"
      BY <2>2 DEF NativePing, At
    <3> QED BY <1>3, <2>2, <3>1 DEF NativePing, Types
  <2>3. CASE NativeTraceRouter(w)
    <3>1. Kind[k] = "trace"
      BY <2>3 DEF NativeTraceRouter, At
    <3>2. UNCHANGED ips
      BY <2>3 DEF NativeTraceRouter
    <3>3. PICK text \in Texts : result' = [result EXCEPT ![k] = text]
      BY <2>3 DEF NativeTraceRouter, Texts
    <3> QED BY <1>3, <3>1, <3>2, <3>3 DEF Types
  <2> QED BY <2>1, <2>2, <2>3
<1>5. Types'
  BY <1>1, <1>3, <1>4 DEF Types, Stages, heard
<1>6. WorksOn(w, k) /\ stage'[w] = "end"
  BY <1>1, <1>2, <1>3, <1>4 DEF WorksOn, Types, Same, heard
<1>7. told'[k] = <<>>
  BY <1>1, <1>2 DEF Progress, Untouched, heard
<1>8. Progress(k, "end")'
  BY <1>2, <1>4, <1>7 DEF Progress, Addressed
<1> QED BY <1>2, <1>5, <1>6, <1>8, WorkKept DEF Stages

-----------------------------------------------------------------------------
(* The queue's own steps.                                                  *)
Quiet ==
  /\ UNCHANGED <<api, tmp_task, fetched, worked, reported>>
  /\ \A v \in Workers : pc'[v] = "first" <=> pc[v] = "first"

LEMMA QuietSteps ==
  ASSUME ApiInv,
         \/ \E t \in Threads : Submit(t) \/ (NotifyAll(t) /\ UNCHANGED api)
         \/ \E w \in Workers : (Spawn(w) \/ Enter(w) \/ SpuriousWake(w)) /\ UNCHANGED api
         \/ UNCHANGED apiVars
  PROVE  Quiet
<1>0. pc \in [Workers -> {"unborn", "lock", "wait", "pop", "first", "second"}]
  BY DEF ApiInv, Inv, TypeOK
<1>1. ASSUME NEW t \in Threads, Submit(t) PROVE Quiet
  BY <1>1 DEF Submit, Put, Quiet
<1>2. ASSUME NEW t \in Threads, NotifyAll(t), UNCHANGED api PROVE Quiet
  BY <1>0, <1>2 DEF NotifyAll, Quiet
<1>3. ASSUME NEW w \in Workers, Spawn(w) \/ Enter(w) \/ SpuriousWake(w), UNCHANGED api PROVE Quiet
  BY <1>0, <1>3 DEF Spawn, Enter, SpuriousWake, Quiet
<1>4. CASE UNCHANGED apiVars
  BY <1>4 DEF apiVars, vars, Quiet
<1> QED BY <1>1, <1>2, <1>3, <1>4

LEMMA QuietKept == ApiInv /\ Quiet => Types' /\ Tasked' /\ InTurn'
<1> SUFFICES ASSUME ApiInv, Quiet PROVE Types' /\ Tasked' /\ InTurn'
  OBVIOUS
<1>0. Types /\ Tasked /\ InTurn /\ UNCHANGED <<stage, ips, error, pinged, result, events, told>>
      /\ UNCHANGED <<tmp_task, fetched, worked, reported>>
      /\ \A v \in Workers : pc'[v] = "first" <=> pc[v] = "first"
  BY DEF ApiInv, Quiet, api, heard
<1>1. Types'
  BY <1>0 DEF Types
<1>4. InTurn'
  BY <1>0 DEF InTurn, Alone
<1>2. \A k : Same(k)
  BY <1>0 DEF Same
<1>3. Tasked'
  BY <1>0, <1>2, SameKept DEF Tasked
<1> QED BY <1>1, <1>3, <1>4

(* A worker takes the task that is next.                                   *)
LEMMA Begun ==
  ASSUME ApiInv, NEW w \in Workers, NEW k, k = Head(msg_queue), Begin(w)
  PROVE  Types' /\ Tasked' /\ InTurn'
<1>1. /\ pc[w] = "pop" /\ k \in Tasks /\ k \notin Range(fetched)
      /\ Range(fetched') = Range(fetched) \cup {k}
      /\ fetched' = Append(fetched, k) /\ fetched \in Seq(Tasks)
  <2>1. pc[w] = "pop" /\ msg_queue \in Seq(Tasks) /\ msg_queue # <<>> /\ fetched \in Seq(Tasks)
        /\ fetched' = Append(fetched, k) /\ IsInjective(fetched \o msg_queue)
    BY DEF ApiInv, Inv, TypeOK, Begin, Take, TakeHasTask, Ownership, FifoNoLoss
  <2>2. k \in Tasks
    BY <2>1, HeadTailProperties
  <2> QED BY <2>1, <2>2, HeadIsFresh, RangeAppend
<1>2. /\ tmp_task' = [tmp_task EXCEPT ![w] = k]
      /\ pc' = [pc EXCEPT ![w] = "first"]
      /\ UNCHANGED <<worked, reported>>
      /\ stage' = [stage EXCEPT ![w] = "start"]
      /\ UNCHANGED <<ips, error, pinged, result, events, told>>
  BY AsyncApiAssumption DEF Begin, Take, Goto, heard
<1>3. Types /\ Tasked /\ InTurn
      /\ pc \in [Workers -> {"unborn", "lock", "wait", "pop", "first", "second"}]
      /\ tmp_task \in [Workers -> Tasks \cup {NoTask}]
  BY DEF ApiInv, Inv, TypeOK
<1>4. Types'
  BY <1>2, <1>3 DEF Types, Stages
<1>5. \A j : Same(j)
  BY <1>2 DEF Same
<1>6. Range(worked) \subseteq Range(fetched)
  BY HistoriesNest DEF ApiInv
<1>7. Tasked'
  <2>1. \A j \in Range(fetched') \ Range(worked') : \E v \in Workers : pc'[v] = "first" /\ tmp_task'[v] = j
    BY <1>1, <1>2, <1>3 DEF Tasked
  <2>2. \A j \in Tasks \ Range(fetched') : Untouched(j)'
    BY <1>1, <1>3, <1>5, SameKept DEF Tasked
  <2>3. ASSUME NEW v \in Workers, NEW j \in Tasks, NEW s \in Stages,
               pc'[v] = "first", tmp_task'[v] = j, stage'[v] = s
        PROVE  Progress(j, s)'
    <3>1. CASE v = w
      <4>1. j = k /\ s = "start"
        BY <1>2, <1>3, <2>3, <3>1 DEF Types
      <4>2. Untouched(k)'
        BY <1>1, <1>3, <1>5, SameKept DEF Tasked
      <4> QED BY <4>1, <4>2 DEF Progress, Untouched
    <3>2. CASE v # w
      <4>1. Progress(j, s)
        BY <1>2, <1>3, <2>3, <3>2 DEF Tasked, Types
      <4> QED BY <1>5, <4>1, SameKept
    <3> QED BY <3>1, <3>2
  <2>4. \A j \in Range(worked') : Complete(j)'
    BY <1>2, <1>3, <1>5, SameKept DEF Tasked
  <2> QED BY <2>1, <2>2, <2>3, <2>4 DEF Tasked
<1>8. InTurn'
  <2>0. /\ Len(fetched) \in Nat /\ Len(fetched') = Len(fetched) + 1 /\ fetched'[Len(fetched) + 1] = k
        /\ \A n \in 1..Len(fetched) : fetched'[n] = fetched[n]
    BY <1>1, AppendProperties, LenProperties
  <2>1. Range(events') \subseteq Range(fetched')
    BY <1>1, <1>2, <1>3 DEF InTurn
  <2>2. ASSUME Alone PROVE \A v \in Workers : fetched' # <<>> /\ tmp_task'[v] = fetched'[Len(fetched')]
    <3>1. fetched' # <<>>
      BY <1>1
    <3>2. \A v \in Workers : v = w
      BY <2>2 DEF Alone
    <3> QED BY <1>2, <1>3, <2>0, <3>1, <3>2
  <2>3. ASSUME Alone, NEW i \in 1..Len(events'), NEW j \in 1..Len(events'), i <= j,
               NEW m \in 1..Len(fetched'), NEW n \in 1..Len(fetched'),
               fetched'[m] = events'[i], fetched'[n] = events'[j]
        PROVE  m <= n
    <3>1. events'[i] # k /\ events'[j] # k
      <4>1. events[i] \in Range(events) /\ events[j] \in Range(events)
        BY <1>2, <1>3, <2>3, LenProperties DEF Types, Range
      <4> QED BY <1>1, <1>2, <1>3, <4>1 DEF InTurn
    <3>2. m \in 1..Len(fetched) /\ n \in 1..Len(fetched)
      BY <2>0, <2>3, <3>1
    <3> QED BY <1>2, <1>3, <2>0, <2>3, <3>2 DEF InTurn
  <2> QED BY <2>1, <2>2, <2>3 DEF InTurn, Alone
<1> QED BY <1>4, <1>7, <1>8

(* .first returns: the work on the task is complete.                       *)
LEMMA FirstEnded ==
  ASSUME ApiInv, NEW w \in Workers, NEW k, k = tmp_task[w], EndFirst(w)
  PROVE  Types' /\ Tasked' /\ InTurn'
<1>1. /\ pc[w] = "first" /\ stage[w] = "end" /\ UNCHANGED <<stage, ips, error, pinged, result, events, told>>
      /\ pc' = [pc EXCEPT ![w] = "second"]
      /\ worked' = Append(worked, k) /\ UNCHANGED <<tmp_task, fetched, reported>>
  BY AsyncApiAssumption DEF EndFirst, FirstReturns, api, heard
<1>2. Types /\ Tasked /\ InTurn /\ worked \in Seq(Tasks)
      /\ pc \in [Workers -> {"unborn", "lock", "wait", "pop", "first", "second"}]
  BY DEF ApiInv, Inv, TypeOK
<1>3. /\ k \in Tasks /\ k \in Range(fetched) /\ k \notin Range(worked)
      /\ \A v \in Workers \ {w} : tmp_task[v] # k
      /\ k \notin Range(reported)
  BY <1>1, Current, HistoriesNest DEF ApiInv
<1>4. Range(worked') = Range(worked) \cup {k}
  BY <1>1, <1>2, <1>3, RangeAppend
<1>5. Types' /\ InTurn'
  BY <1>1, <1>2 DEF Types, InTurn, Alone
<1>6. \A j : Same(j)
  BY <1>1 DEF Same
<1>7. Complete(k)'
  <2>1. Progress(k, "end")
    BY <1>1, <1>2, <1>3 DEF Tasked, Stages
  <2>2. Complete(k)
    BY <1>3, <2>1 DEF Progress, Complete
  <2> QED BY <1>1, <1>6, <2>2, SameKept
<1>8. Tasked'
  <2>1. \A j \in Range(fetched') \ Range(worked') : \E v \in Workers : pc'[v] = "first" /\ tmp_task'[v] = j
    BY <1>1, <1>2, <1>4 DEF Tasked
  <2>2. \A j \in Tasks \ Range(fetched') : Untouched(j)'
    BY <1>1, <1>2, <1>6, SameKept DEF Tasked
  <2>3. ASSUME NEW v \in Workers, NEW j \in Tasks, NEW s \in Stages,
               pc'[v] = "first", tmp_task'[v] = j, stage'[v] = s
        PROVE  Progress(j, s)'
    <3>1. Progress(j, s)
      BY <1>1, <1>2, <2>3 DEF Tasked
    <3> QED BY <1>6, <3>1, SameKept
  <2>4. ASSUME NEW j \in Range(worked') PROVE Complete(j)'
    <3>1. CASE j = k
      BY <1>7, <3>1
    <3>2. CASE j # k
      <4>1. Complete(j)
        BY <1>2, <1>4, <2>4, <3>2 DEF Tasked
      <4> QED BY <1>1, <1>6, <4>1, SameKept
    <3> QED BY <3>1, <3>2
  <2> QED BY <2>1, <2>2, <2>3, <2>4 DEF Tasked
<1> QED BY <1>5, <1>8

(* .second returns: an AsyncNative call has made its callback.             *)
LEMMA SecondEnded ==
  ASSUME ApiInv, NEW w \in Workers, NEW k, k = tmp_task[w], EndSecond(w)
  PROVE  Types' /\ Tasked'
<1>1. /\ pc[w] = "second" /\ UNCHANGED <<stage, ips, error, pinged, result, fetched, worked>>
      /\ pc' = [pc EXCEPT ![w] = "lock"]
      /\ tmp_task' = [tmp_task EXCEPT ![w] = NoTask]
      /\ reported' = Append(reported, k)
      /\ IF Kind[k] = "diagnosis" THEN UNCHANGED <<events, told>> ELSE Tell(k, result[k])
  BY DEF EndSecond, SecondReturns, Second
<1>2. Types /\ Tasked /\ InTurn /\ reported \in Seq(Tasks)
      /\ pc \in [Workers -> {"unborn", "lock", "wait", "pop", "first", "second"}]
      /\ tmp_task \in [Workers -> Tasks \cup {NoTask}]
  BY DEF ApiInv, Inv, TypeOK
<1>3. k \in Tasks /\ k \in Range(fetched) /\ k \in Range(worked) /\ k \notin Range(reported)
  BY <1>1, Current DEF ApiInv
<1>4. Range(reported') = Range(reported) \cup {k}
  BY <1>1, <1>2, <1>3, RangeAppend
<1>5. Complete(k)
  BY <1>2, <1>3 DEF Tasked
<1>6. Types' /\ (\A j \in Tasks \ {k} : Same(j))
  <2>1. CASE Kind[k] = "diagnosis"
    BY <1>1, <1>2, <2>1 DEF Types, Same
  <2>2. CASE Kind[k] # "diagnosis"
    <3>1. told' = [told EXCEPT ![k] = Append(told[k], result[k])] /\ events' = Append(events, k)
      BY <1>1, <2>2 DEF Tell
    <3>2. result[k] \in Tells \cup Texts /\ told[k] \in Seq(Tells \cup Texts)
      BY <1>2, <1>3 DEF Types
    <3>3. told' \in [Tasks -> Seq(Tells \cup Texts)] /\ events' \in Seq(Tasks)
      BY <1>2, <1>3, <3>1, <3>2, AppendProperties DEF Types
    <3> QED BY <1>1, <1>2, <3>1, <3>3 DEF Types, Same
  <2> QED BY <2>1, <2>2
<1>7. Complete(k)'
  <2>1. CASE Kind[k] = "diagnosis"
    <3>1. told'[k] = told[k] /\ Story(k)' = Story(k)
      BY <1>1, <2>1 DEF Story
    <3> QED BY <1>5, <2>1, <3>1 DEF Complete
  <2>2. CASE Kind[k] # "diagnosis"
    <3>1. told[k] = <<>> /\ Addressed(k)
      BY <1>3, <1>5, <2>2 DEF Complete
    <3>2. told'[k] = <<result[k]>>
      BY <1>1, <1>2, <1>3, <2>2, <3>1 DEF Tell, Types
    <3>3. Addressed(k)'
      BY <1>1, <3>1 DEF Addressed
    <3> QED BY <1>1, <1>4, <2>2, <3>2, <3>3 DEF Complete
  <2> QED BY <2>1, <2>2
<1>8. Tasked'
  <2>1. \A v \in Workers : pc'[v] = "first" <=> pc[v] = "first"
    BY <1>1, <1>2
  <2>2. \A v \in Workers : pc[v] = "first" => tmp_task'[v] = tmp_task[v] /\ tmp_task[v] # k
    BY <1>1, <1>2, Current DEF ApiInv
  <2>3. \A j \in Range(fetched') \ Range(worked') : \E v \in Workers : pc'[v] = "first" /\ tmp_task'[v] = j
    BY <1>1, <1>2, <2>1, <2>2 DEF Tasked
  <2>4. ASSUME NEW j \in Tasks \ Range(fetched') PROVE Untouched(j)'
    <3>1. Untouched(j) /\ Same(j)
      BY <1>1, <1>2, <1>3, <1>6, <2>4 DEF Tasked
    <3> QED BY <3>1, SameKept
  <2>5. ASSUME NEW v \in Workers, NEW j \in Tasks, NEW s \in Stages,
               pc'[v] = "first", tmp_task'[v] = j, stage'[v] = s
        PROVE  Progress(j, s)'
    <3>1. Progress(j, s) /\ Same(j)
      BY <1>1, <1>2, <1>6, <2>1, <2>2, <2>5 DEF Tasked
    <3> QED BY <3>1, SameKept
  <2>6. ASSUME NEW j \in Range(worked') PROVE Complete(j)'
    <3>1. CASE j = k
      BY <1>7, <3>1
    <3>2. CASE j # k
      <4>1. Complete(j) /\ j \in Tasks
        BY <1>1, <1>2, <2>6, HistoriesNest DEF Tasked, ApiInv
      <4>2. Same(j) /\ (j \in Range(reported') <=> j \in Range(reported))
        BY <1>4, <1>6, <3>2, <4>1
      <4> QED BY <4>1, <4>2, SameKept
    <3> QED BY <3>1, <3>2
  <2> QED BY <2>3, <2>4, <2>5, <2>6 DEF Tasked
<1> QED BY <1>6, <1>8

-----------------------------------------------------------------------------
(* A callback for the task a worker is inside of: with a single worker it  *)
(* is the task fetched last.                                               *)
LEMMA TurnKept ==
  ASSUME ApiInv, NEW w \in Workers, NEW k, k = tmp_task[w], k \in Range(fetched),
         UNCHANGED fetched, events' \in {events, Append(events, k)},
         tmp_task' \in {tmp_task, [tmp_task EXCEPT ![w] = NoTask]}
  PROVE  InTurn'
<1>1. InTurn /\ events \in Seq(Tasks) /\ k \in Tasks /\ k # NoTask /\ fetched \in Seq(Tasks)
      /\ tmp_task \in [Workers -> Tasks \cup {NoTask}] /\ IsInjective(fetched)
  <2>1. IsInjective(fetched)
    <3>1. fetched \in Seq(Tasks) /\ msg_queue \in Seq(Tasks) /\ IsInjective(fetched \o msg_queue)
      BY DEF ApiInv, Inv, TypeOK, FifoNoLoss, Ownership
    <3>2. ASSUME NEW a \in DOMAIN fetched, NEW b \in DOMAIN fetched, fetched[a] = fetched[b] PROVE a = b
      <4>1. a \in 1..Len(fetched) /\ b \in 1..Len(fetched) /\ Len(fetched) \in Nat /\ Len(msg_queue) \in Nat
        BY <3>1, <3>2, LenProperties
      <4>2. a \in DOMAIN (fetched \o msg_queue) /\ b \in DOMAIN (fetched \o msg_queue)
        BY <3>1, <4>1, ConcatProperties, LenProperties
      <4>3. (fetched \o msg_queue)[a] = fetched[a] /\ (fetched \o msg_queue)[b] = fetched[b]
        BY <3>1, <4>1, ConcatProperties
      <4> QED BY <3>1, <3>2, <4>2, <4>3 DEF IsInjective
    <3> QED BY <3>2 DEF IsInjective
  <2>2. k \in Tasks
    BY HistoriesNest DEF ApiInv
  <2> QED BY <2>1, <2>2, TaskQueueAssumption DEF ApiInv, Inv, Types, TypeOK
<1>2. Range(events') \subseteq Range(fetched')
  <2>1. CASE events' = events
    BY <1>1, <2>1 DEF InTurn
  <2>2. CASE events' = Append(events, k)
    BY <1>1, <2>2, RangeAppend DEF InTurn
  <2> QED BY <2>1, <2>2
<1>3. \A v \in Workers : tmp_task'[v] # NoTask => tmp_task'[v] = tmp_task[v]
  BY <1>1
<1>4. ASSUME Alone, NEW i \in 1..Len(events'), NEW j \in 1..Len(events'), i <= j,
             NEW m \in 1..Len(fetched), NEW n \in 1..Len(fetched),
             fetched[m] = events'[i], fetched[n] = events'[j]
      PROVE  m <= n
  <2>1. CASE events' = events
    BY <1>1, <1>4, <2>1 DEF InTurn
  <2>2. CASE events' = Append(events, k)
    <3>1. /\ Len(events) \in Nat /\ Len(events') = Len(events) + 1 /\ events'[Len(events) + 1] = k
          /\ \A x \in 1..Len(events) : events'[x] = events[x]
      BY <1>1, <2>2, AppendProperties, LenProperties
    <3>2. CASE j <= Len(events)
      <4>1. i \in 1..Len(events) /\ j \in 1..Len(events)
        BY <1>4, <3>1, <3>2
      <4>2. fetched[m] = events[i] /\ fetched[n] = events[j]
        BY <1>4, <3>1, <4>1
      <4> QED BY <1>1, <1>4, <4>1, <4>2 DEF InTurn
    <3>3. CASE ~(j <= Len(events))
      <4>1. fetched[n] = k /\ k = fetched[Len(fetched)]
        <5>1. j = Len(events) + 1
          BY <3>1, <3>3
        <5>2. k = fetched[Len(fetched)]
          BY <1>1, <1>4 DEF InTurn
        <5> QED BY <1>4, <3>1, <5>1, <5>2
      <4>2. n = Len(fetched)
        <5>1. Len(fetched) \in DOMAIN fetched /\ n \in DOMAIN fetched
          BY <1>1, LenProperties
        <5> QED BY <1>1, <4>1, <5>1 DEF IsInjective
      <4> QED BY <1>1, <4>2, LenProperties
    <3> QED BY <3>2, <3>3
  <2> QED BY <2>1, <2>2
<1>5. ASSUME Alone
      PROVE  \A v \in Workers : tmp_task'[v] # NoTask =>
               fetched' # <<>> /\ tmp_task'[v] = fetched'[Len(fetched')]
  BY <1>1, <1>3, <1>5 DEF InTurn
<1>6. Alone' = Alone
  BY DEF Alone
<1> QED BY <1>2, <1>4, <1>5, <1>6 DEF InTurn

LEMMA WorkInTurn ==
  ASSUME ApiInv, NEW w \in Workers, First(w) \/ EndSecond(w)
  PROVE  InTurn'
<1>0. PICK k : k = tmp_task[w]
  OBVIOUS
<1>1. UNCHANGED fetched /\ pc[w] \in {"first", "second"}
      /\ tmp_task' \in {tmp_task, [tmp_task EXCEPT ![w] = NoTask]}
  BY DEF First, Query, DnsQuery, PingEmpty, PingNext, NativeGetHostNameByServer, NativePing,
         NativeTraceRouter, At, vars, EndSecond, SecondReturns
<1>2. events' \in {events, Append(events, k)}
  BY <1>0 DEF First, Query, DnsQuery, PingEmpty, PingNext, NativeGetHostNameByServer, NativePing,
              NativeTraceRouter, heard, OcPing, Tell, EndSecond, Second
<1>3. k \in Range(fetched)
  BY <1>0, <1>1, Current DEF ApiInv
<1> QED BY <1>0, <1>1, <1>2, <1>3, TurnKept

-----------------------------------------------------------------------------
LEMMA ApiInitInv == ApiInit => ApiInv
<1> SUFFICES ASSUME ApiInit PROVE ApiInv
  OBVIOUS
<1>1. Inv
  BY InitInv DEF ApiInit
<1>2. Types
  <2>1. Recovered \in Errors
    BY DEF Recovered, NoMessage, Errors
  <2>2. <<>> \in Seq(Ips) /\ <<>> \in Seq(Tells \cup Texts) /\ events \in Seq(Tasks)
    BY DEF ApiInit
  <2>3. error \in [Tasks -> Errors]
    BY <2>1 DEF ApiInit
  <2> HIDE DEF Tells
  <2> QED BY <2>2, <2>3 DEF ApiInit, Types, Stages, Texts
<1>3. Range(fetched) = {} /\ Range(worked) = {} /\ Range(events) = {} /\ Len(events) = 0
  BY DEF ApiInit, Init, Range
<1>4. \A k \in Tasks : Untouched(k)
  BY DEF ApiInit, Untouched
<1>5. Tasked
  BY <1>3, <1>4 DEF ApiInit, Init, Tasked
<1>6. InTurn
  BY <1>3 DEF ApiInit, Init, InTurn
<1> QED BY <1>1, <1>2, <1>5, <1>6 DEF ApiInv

LEMMA ApiStep == ApiInv /\ [ApiNext]_apiVars => ApiInv'
<1> SUFFICES ASSUME ApiInv, [ApiNext]_apiVars PROVE ApiInv'
  OBVIOUS
<1>1. Inv'
  BY QueueStep DEF ApiInv
<1>2. ASSUME NEW w \in Workers, First(w) PROVE Types' /\ Tasked' /\ InTurn'
  <2>1. Types' /\ Tasked'
    BY <1>2, Queried, DnsTold, EmptyTold, NextTold, NativeWorked DEF First
  <2> QED BY <1>2, <2>1, WorkInTurn
<1>3. ASSUME NEW w \in Workers, Begin(w) \/ EndFirst(w) \/ EndSecond(w)
      PROVE  Types' /\ Tasked' /\ InTurn'
  BY <1>3, Begun, FirstEnded, SecondEnded, WorkInTurn
<1>4. Types' /\ Tasked' /\ InTurn'
  BY <1>2, <1>3, QuietSteps, QuietKept DEF ApiNext, Work
<1> QED BY <1>1, <1>4 DEF ApiInv

(* The inductive invariant of the API.                                     *)
THEOREM ApiInvariance == ApiSpec => []ApiInv
BY ApiInitInv, ApiStep, PTL DEF ApiSpec

(* The API's tasks are served as TaskQueue promises: run() and put_task    *)
(* are not disturbed by what the functions of its tasks do, callbacks that *)
(* submit again included.                                                  *)
THEOREM QueueServesApi ==
  ApiSpec => [](TypeOK /\ MutexDiscipline /\ TakeHasTask /\ FifoNoLoss /\ NoLostWakeup /\ AtMostOnce)
<1>1. ApiInv => TypeOK /\ MutexDiscipline /\ TakeHasTask /\ FifoNoLoss /\ NoLostWakeup /\ AtMostOnce
  BY DEF ApiInv, Inv, Ownership, AtMostOnce
<1> QED BY <1>1, ApiInvariance, PTL

(* The callbacks of a diagnosis are told its story and nothing else, all   *)
(* of it once NetworkDiagnosis has returned (qyutil.cpp).                  *)
THEOREM StoryTold == ApiSpec => []OneStory
<1>1. ApiInv => OneStory
  <2> SUFFICES ASSUME ApiInv, NEW k \in Tasks, Kind[k] = "diagnosis"
               PROVE  /\ IsPrefix(told[k], Story(k))
                      /\ k \in Range(worked) => told[k] = Story(k)
    BY DEF OneStory
  <2>1. Types /\ Tasked
    BY DEF ApiInv
  <2>2. k \in Range(worked) => told[k] = Story(k)
    BY <2>1 DEF Tasked, Complete
  <2>3. Story(k) \in Seq(Tells) /\ Len(Story(k)) \in Nat
    BY <2>1, StoryParts, LenProperties DEF Types
  <2>4. ASSUME told[k] = Story(k) PROVE IsPrefix(told[k], Story(k))
    BY <2>3, <2>4 DEF IsPrefix
  <2>5. ASSUME NEW n \in Nat, Heard(k, n) PROVE IsPrefix(told[k], Story(k))
    <3>1. \A i \in 1..n : Story(k)[i] \in Tells
      BY <2>3, <2>5, ElementOfSeq DEF Heard
    <3>2. told[k] = [i \in 1..n |-> Story(k)[i]] /\ n <= Len(Story(k))
      BY <2>5 DEF Heard
    <3>3. told[k] \in Seq(Tells) /\ Len(told[k]) = n
      BY <3>1, <3>2
    <3>4. SubSeq(told[k], 1, n) = told[k]
      BY <3>3, SubSeqFull
    <3>5. SubSeq(Story(k), 1, n) = told[k]
      BY <2>3, <3>2
    <3> QED BY <3>2, <3>3, <3>4, <3>5 DEF IsPrefix
  <2>6. ASSUME told[k] = <<>> PROVE IsPrefix(told[k], Story(k))
    <3>1. [i \in 1..0 |-> Story(k)[i]] = <<>>
      OBVIOUS
    <3>2. Heard(k, 0)
      BY <2>3, <2>6, <3>1 DEF Heard
    <3> QED BY <2>5, <3>2
  <2>7. CASE k \in Range(worked)
    BY <2>2, <2>4, <2>7
  <2>8. CASE k \notin Range(fetched)
    <3>1. Untouched(k)
      BY <2>1, <2>8 DEF Tasked
    <3> QED BY <2>2, <2>6, <3>1 DEF Untouched
  <2>9. CASE k \in Range(fetched) \ Range(worked)
    <3>1. PICK w \in Workers : pc[w] = "first" /\ tmp_task[w] = k
      BY <2>1, <2>9 DEF Tasked
    <3>2. stage[w] \in Stages /\ Progress(k, stage[w])
      BY <2>1, <3>1 DEF Tasked, Types
    <3>3. CASE stage[w] \in {"start", "dns_query"}
      <4>1. told[k] = <<>>
        BY <3>2, <3>3 DEF Progress, Untouched
      <4> QED BY <2>2, <2>6, <4>1
    <3>4. CASE stage[w] = "ping"
      <4>1. PICK n : n = pinged[k] + 1
        OBVIOUS
      <4>2. n \in Nat /\ Heard(k, n)
        BY <2>1, <3>2, <3>4, <4>1 DEF Progress, Types
      <4> QED BY <2>2, <2>5, <4>2
    <3>5. CASE stage[w] = "end"
      BY <2>4, <3>2, <3>5 DEF Progress
    <3> QED BY <3>2, <3>3, <3>4, <3>5 DEF Stages
  <2> QED BY <2>2, <2>7, <2>8, <2>9
<1> QED BY <1>1, ApiInvariance, PTL

(* The callback of an AsyncNative call is made once at most, after the     *)
(* work, with the buffer as the work left it (global_func.cpp).            *)
THEOREM AnswersOnce == ApiSpec => []AsyncAnswer
<1>1. ApiInv => AsyncAnswer
  <2> SUFFICES ASSUME ApiInv, NEW k \in Tasks, Kind[k] # "diagnosis", told[k] # <<>>
               PROVE  /\ k \in Range(worked) /\ told[k] = <<result[k]>>
                      /\ Kind[k] = "dns" => (result[k] = "addresses" <=> ips[k] # <<>>)
    BY DEF AsyncAnswer
  <2>1. Types /\ Tasked
    BY DEF ApiInv
  <2>2. k \in Range(fetched)
    BY <2>1 DEF Tasked, Untouched
  <2>3. k \in Range(worked)
    <3> SUFFICES ASSUME k \notin Range(worked) PROVE FALSE
      OBVIOUS
    <3>1. PICK w \in Workers : pc[w] = "first" /\ tmp_task[w] = k
      BY <2>1, <2>2 DEF Tasked
    <3>2. stage[w] \in Stages /\ Progress(k, stage[w])
      BY <2>1, <3>1 DEF Tasked, Types
    <3> QED BY <3>2 DEF Progress
  <2>4. Complete(k)
    BY <2>1, <2>3 DEF Tasked
  <2> QED BY <2>3, <2>4 DEF Complete, Addressed
<1> QED BY <1>1, ApiInvariance, PTL

(* With one worker the callbacks of two requests never mix, and come in    *)
(* the order of the requests (qyutil_instance is qyutil<1>).               *)
THEOREM InTheirTurn == ApiSpec => []NeverMixed
<1>1. ApiInv => NeverMixed
  <2> DEFINE turn(k) == CHOOSE n \in 1..Len(accepted) : accepted[n] = k
  <2> SUFFICES ASSUME ApiInv, Alone, NEW i \in 1..Len(events), NEW j \in 1..Len(events), i <= j
               PROVE  turn(events[i]) <= turn(events[j])
    BY DEF NeverMixed, Alone
  <2>1. /\ fetched \in Seq(Tasks) /\ msg_queue \in Seq(Tasks) /\ accepted \in Seq(Tasks)
        /\ accepted = fetched \o msg_queue /\ IsInjective(accepted)
        /\ InTurn /\ events \in Seq(Tasks)
    BY DEF ApiInv, Inv, TypeOK, FifoNoLoss, Ownership, Types
  <2>2. /\ Len(fetched) \in Nat /\ Len(accepted) \in Nat /\ Len(fetched) <= Len(accepted)
        /\ \A n \in 1..Len(fetched) : accepted[n] = fetched[n]
    BY <2>1, ConcatProperties, LenProperties
  <2>3. ASSUME NEW n \in 1..Len(fetched) PROVE turn(fetched[n]) = n
    <3>1. n \in 1..Len(accepted) /\ accepted[n] = fetched[n]
      BY <2>2
    <3>2. turn(fetched[n]) \in 1..Len(accepted) /\ accepted[turn(fetched[n])] = fetched[n]
      BY <3>1
    <3> HIDE DEF turn
    <3> QED BY <2>1, <3>1, <3>2, LenProperties DEF IsInjective
  <2> HIDE DEF turn
  <2>4. events[i] \in Range(fetched) /\ events[j] \in Range(fetched)
    <3>1. events[i] \in Range(events) /\ events[j] \in Range(events)
      BY <2>1, LenProperties DEF Range
    <3> QED BY <2>1, <3>1 DEF InTurn
  <2>5. PICK m \in 1..Len(fetched), n \in 1..Len(fetched) : fetched[m] = events[i] /\ fetched[n] = events[j]
    BY <2>1, <2>4, LenProperties DEF Range
  <2>6. m <= n
    BY <2>1, <2>5 DEF InTurn
  <2> QED BY <2>3, <2>5, <2>6
<1> QED BY <1>1, ApiInvariance, PTL
=============================================================================
