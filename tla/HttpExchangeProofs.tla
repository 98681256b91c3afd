------------------------- MODULE HttpExchangeProofs -------------------------
(***************************************************************************)
(* Proofs about HttpExchange, for every buffer length, every set of        *)
(* responses and urls, and any number of calls.  The invariant has two     *)
(* parts that do not meet: Kept is about what a Request keeps from one     *)
(* call to the next, Reading about the bytes of one response.                 *)
(***************************************************************************)
EXTENDS HttpExchange, SequenceLemmas

Stages == {"idle", "parse", "open", "send", "header", "body", "done", "thrown", "crash"}

Types ==
  /\ pc \in Stages
  /\ urls \in Seq(Urls) /\ requests \in Seq(Nat) /\ ips \in Seq(Nat)
  /\ first \in Nat
  /\ response \in Response
  /\ read_length \in Nat /\ header_size \in Nat
  /\ has_some_body \in BOOLEAN /\ content_length \in Nat
  /\ output \in Seq(Nat)
  /\ ending \in {"none", "length", "read"}

-----------------------------------------------------------------------------
(* The calls that parse_url has looked at, among them those with a port.   *)
Looked == IF pc = "parse" THEN 1..(Len(urls) - 1) ELSE 1..Len(urls)
Gets == {k \in Looked : urls[k].method = "GET"}
Usable == {k \in Gets : urls[k].http /\ Short(urls[k].port) > 0}

PortKept ==
  \/ Usable = {} /\ port = DEFAULT_PORT
  \/ \E k \in Usable : port = Short(urls[k].port) /\ \A j \in Usable : j <= k

(* ips holds calls in their order, and the requests of the gets that are   *)
(* in ips are in requests; no call is in requests twice.                   *)
InOrder ==
  /\ \A i, j \in 1..Len(ips) : i <= j => ips[i] <= ips[j]
  /\ IsInjective(requests)
  /\ Range(requests) \subseteq Looked
  /\ \A k \in Gets : k \in Range(requests) <=> k \in Range(ips)
  /\ Range(ips) \subseteq Gets

(* The get in progress was the last to add to them.                        *)
Current ==
  /\ pc \in {"parse", "open", "send", "header", "body"} =>
       urls # <<>> /\ Last(urls).method = "GET"
  /\ pc \in {"open", "send", "header", "body"} =>
       requests # <<>> /\ Last(requests) = Len(urls) /\ first >= 1
  /\ pc \in {"send", "header", "body"} => first <= Len(ips)

Kept == PortKept /\ InOrder /\ Current

-----------------------------------------------------------------------------
(* The reading of one response.  m_header is longer than what was read     *)
(* until the rest is cut off it; from then on it is the header, and what   *)
(* was written is what was read behind it.                                 *)
Cutoff == header_size = response.Head /\ ~response.nul

Reading ==
  /\ pc \in {"parse", "open", "send", "header"} =>
       /\ read_length < header_size /\ ~has_some_body /\ output = <<>> /\ ending = "none"
  /\ pc \in {"parse", "open", "send"} => read_length = 0
  /\ pc = "header" => response \in Responses /\ read_length <= response.sent
  /\ pc = "body" =>
       /\ response \in Responses
       /\ response.Head <= read_length /\ read_length <= response.sent
       /\ ending = "none"
       /\ has_some_body => Cutoff /\ read_length > header_size /\ output = <<>>
       /\ ~has_some_body /\ ~response.nul => Len(output) = read_length - response.Head
       /\ header_size = response.Head => Cutoff

IInv == Types /\ Kept /\ Reading /\ InPlace /\ BodyComplete

-----------------------------------------------------------------------------
(* The same entry n times.                                                 *)
LEMMA Constant ==
  ASSUME NEW S, NEW e \in S, NEW n \in Nat
  PROVE  LET c == [i \in 1..n |-> e]
         IN  c \in Seq(S) /\ Len(c) = n /\ (n # 0 => Range(c) = {e})
<1> DEFINE c == [i \in 1..n |-> e]
<1>1. c \in Seq(S) /\ Len(c) = n
  OBVIOUS
<1>2. ASSUME n # 0 PROVE Range(c) = {e}
  <2>1. 1 \in DOMAIN c
    BY <1>2
  <2> QED BY <2>1 DEF Range
<1> QED BY <1>1, <1>2

(* The numbers of a response.                                              *)
LEMMA Numbers ==
  ASSUME NEW r \in Response
  PROVE  r.Head \in Nat /\ r.Head > 0 /\ r.sent \in Nat /\ r.length \in Nat
BY DEF Response

(* What is found in a sequence, and its last element.                      *)
LEMMA Extended ==
  ASSUME NEW S, NEW s \in Seq(S), NEW e \in S
  PROVE  /\ Append(s, e) \in Seq(S) /\ Append(s, e) # <<>>
         /\ Len(Append(s, e)) = Len(s) + 1 /\ Last(Append(s, e)) = e
         /\ \A i \in 1..Len(s) : Append(s, e)[i] = s[i]
BY AppendProperties, LenProperties, EmptySeq DEF Last

(* What the steps that add a call do.                                      *)
LEMMA Called ==
  ASSUME Types, Get \/ Post
  PROVE  /\ pc \in {"idle", "done", "thrown"} /\ Len(urls) \in Nat
         /\ Len(urls') = Len(urls) + 1 /\ urls' \in Seq(Urls) /\ urls' # <<>>
         /\ \A i \in 1..Len(urls) : urls'[i] = urls[i]
         /\ UNCHANGED <<port, ips, first>>
         /\ Last(urls') = urls'[Len(urls) + 1]
         /\ \/ Get /\ Last(urls').method = "GET" /\ pc' = "parse" /\ UNCHANGED requests
            \/ Post /\ Last(urls').method # "GET" /\ pc' \in {"idle", "thrown"}
<1>1. PICK u \in Urls : urls' = Append(urls, u) /\ (Get => u.method = "GET") /\ (Post => u.method # "GET")
  BY DEF Get, Post
<1>2. /\ urls' \in Seq(Urls) /\ urls' # <<>> /\ Len(urls') = Len(urls) + 1 /\ Last(urls') = u
      /\ \A i \in 1..Len(urls) : urls'[i] = urls[i]
  BY <1>1, Extended DEF Types
<1>3. Len(urls) \in Nat
  BY DEF Types
<1> QED BY <1>1, <1>2, <1>3 DEF Get, Post, Ready, Last

(* The calls looked at, before and after a step.                           *)
LEMMA LookedAdded ==
  ASSUME Types, Get \/ Post
  PROVE  /\ Looked = 1..Len(urls) /\ Looked \subseteq Looked'
         /\ Gets' = Gets /\ Usable' = Usable
         /\ Post => Len(urls') \in Looked' /\ Len(urls') \notin Looked
<1>1. Looked = 1..Len(urls) /\ (Get => Looked' = Looked)
      /\ (Post => Looked' = 1..(Len(urls) + 1))
  <2>1. Looked = 1..Len(urls)
    BY Called DEF Looked
  <2>2. ASSUME Get PROVE pc' = "parse" /\ Len(urls') - 1 = Len(urls)
    BY <2>2, Called DEF Get
  <2>3. ASSUME Post PROVE pc' # "parse" /\ Len(urls') = Len(urls) + 1
    BY <2>3, Called DEF Post
  <2> QED BY <2>1, <2>2, <2>3 DEF Looked
<1>2. ASSUME NEW k \in Looked PROVE urls'[k] = urls[k]
  BY <1>1, <1>2, Called
<1>3. Post => ~(urls'[Len(urls) + 1].method = "GET")
  BY Called DEF Get, Post
<1>4. Looked \subseteq Looked' /\ Looked' \subseteq Looked \cup {Len(urls) + 1}
      /\ (Get => Looked' = Looked) /\ (Post => Len(urls') \in Looked' /\ Len(urls') \notin Looked)
  BY <1>1, Called
<1>5. Gets' = Gets
  BY <1>2, <1>3, <1>4 DEF Gets
<1>6. Usable' = Usable
  <2>1. \A k \in Gets : urls'[k] = urls[k]
    BY <1>2 DEF Gets
  <2> QED BY <1>5, <2>1 DEF Usable
<1> QED BY <1>1, <1>4, <1>5, <1>6

LEMMA LookedParsed ==
  ASSUME Types, Current, BadUrl \/ ParseUrl
  PROVE  LET k == Len(urls) IN
         /\ k \in Nat \ {0} /\ k \notin Looked /\ Looked' = Looked \cup {k}
         /\ \A j \in Looked : j <= k
         /\ Gets' = Gets \cup {k}
         /\ Usable' = IF Last(urls).http /\ Short(Last(urls).port) > 0
                      THEN Usable \cup {k} ELSE Usable
<1> DEFINE k == Len(urls)
<1>1. pc = "parse" /\ pc' # "parse" /\ UNCHANGED urls /\ k \in Nat \ {0}
      /\ Last(urls) = urls[k] /\ Last(urls).method = "GET"
  BY EmptySeq, LenProperties DEF BadUrl, ParseUrl, Types, Current, Last, request
<1>2. Looked = 1..(k - 1) /\ Looked' = 1..k
  BY <1>1 DEF Looked
<1>3. k \notin Looked /\ Looked' = Looked \cup {k} /\ \A j \in Looked : j <= k
  BY <1>1, <1>2
<1>4. Gets' = Gets \cup {k}
  BY <1>1, <1>3 DEF Gets
<1>5. Usable' = IF Last(urls).http /\ Short(Last(urls).port) > 0
                THEN Usable \cup {k} ELSE Usable
  BY <1>1, <1>3, <1>4 DEF Usable, Gets
<1> QED BY <1>1, <1>3, <1>4, <1>5

(* The steps that look at no url.                                          *)
Elsewhere == Open \/ SendData \/ ReadHeader \/ ReadHeaderFails \/ WriteRest \/ ReadBody \/ ReadBodyEnds

LEMMA LookedUnchanged ==
  ASSUME Elsewhere \/ UNCHANGED vars
  PROVE  /\ UNCHANGED <<urls, port, ips, requests>>
         /\ Looked' = Looked /\ Gets' = Gets /\ Usable' = Usable
<1>1. UNCHANGED <<urls, port, ips, requests>> /\ (pc' = "parse" <=> pc = "parse")
  BY DEF Elsewhere, Open, SendData, ReadHeader, ReadHeaderFails, WriteRest, ReadBody,
         ReadBodyEnds, vars, request
<1>2. Looked' = Looked
  BY <1>1 DEF Looked
<1>3. Gets' = Gets
  BY <1>1, <1>2 DEF Gets
<1> QED BY <1>1, <1>2, <1>3 DEF Usable

-----------------------------------------------------------------------------
(* The port is that of the last url with a usable one.                     *)
LEMMA PortStep == Types /\ Kept /\ [Next]_vars => PortKept'
<1> SUFFICES ASSUME Types, PortKept, InOrder, Current, [Next]_vars PROVE PortKept'
  BY DEF Kept
<1>1. CASE Get \/ Post
  <2>1. \A k \in Usable : urls'[k] = urls[k]
    BY <1>1, Called, LookedAdded DEF Usable, Gets
  <2> QED BY <1>1, <2>1, Called, LookedAdded DEF PortKept
<1>2. CASE BadUrl
  BY <1>2, LookedParsed DEF BadUrl, request, PortKept
<1>3. CASE ParseUrl
  <2> DEFINE k == Len(urls)
  <2>1. k \in Nat \ {0} /\ \A j \in Usable : j <= k
    BY <1>3, LookedParsed DEF Usable, Gets
  <2>2. Last(urls).http /\ port' = PortAfter(Last(urls).port) /\ UNCHANGED urls
        /\ Last(urls) = urls[k]
    BY <1>3 DEF ParseUrl, Last
  <2>3. CASE Short(Last(urls).port) > 0
    <3>1. Usable' = Usable \cup {k} /\ port' = Short(urls'[k].port)
      BY <1>3, <2>2, <2>3, LookedParsed DEF PortAfter
    <3>2. k \in Usable' /\ \A j \in Usable' : j <= k
      BY <2>1, <3>1
    <3> QED BY <3>1, <3>2 DEF PortKept
  <2>4. CASE ~(Short(Last(urls).port) > 0)
    BY <1>3, <2>2, <2>4, LookedParsed DEF PortAfter, PortKept
  <2> QED BY <2>3, <2>4
<1>4. CASE Elsewhere \/ UNCHANGED vars
  BY <1>4, LookedUnchanged DEF PortKept
<1> QED BY <1>1, <1>2, <1>3, <1>4 DEF Next, Step, Elsewhere

(* The lists of calls stay in order and in step.                           *)
LEMMA OrderStep == Types /\ Kept /\ [Next]_vars => InOrder'
<1> SUFFICES ASSUME Types, InOrder, Current, [Next]_vars PROVE InOrder'
  BY DEF Kept
<1>0. Range(requests) \subseteq Looked /\ Range(ips) \subseteq Looked
  BY DEF InOrder, Gets
<1>1. CASE Get
  BY <1>0, <1>1, Called, LookedAdded DEF InOrder, Get, Post
<1>2. CASE Post
  <2>1. CASE UNCHANGED requests
    BY <1>0, <1>2, <2>1, Called, LookedAdded DEF InOrder
  <2>2. CASE requests' = Append(requests, Len(urls'))
    <3>1. Len(urls') \in Nat /\ Len(urls') \notin Range(requests)
      BY <1>0, <1>2, Called, LookedAdded
    <3>2. IsInjective(requests') /\ Range(requests') = Range(requests) \cup {Len(urls')}
      BY <2>2, <3>1, InjectiveAppend, RangeAppend DEF Types, InOrder
    <3>3. Len(urls') \notin Gets
      BY <1>2, LookedAdded DEF Gets
    <3> QED BY <1>0, <1>2, <3>2, <3>3, Called, LookedAdded DEF InOrder
  <2> QED BY <1>2, <2>1, <2>2 DEF Post
<1>3. CASE (BadUrl \/ ParseUrl) /\ UNCHANGED <<ips, requests>>
  BY <1>0, <1>3, LookedParsed DEF InOrder
<1>4. CASE ParseUrl /\ ~UNCHANGED <<ips, requests>>
  <2> DEFINE k == Len(urls)
  <2>1. PICK n \in 1..MaxIps : ips' = ips \o [i \in 1..n |-> k]
    BY <1>4 DEF ParseUrl
  <2>2. requests' = Append(requests, k)
    BY <1>4 DEF ParseUrl
  <2> DEFINE c == [i \in 1..n |-> k]
  <2>3. k \in Nat /\ n \in Nat \ {0} /\ k \notin Looked
    BY <1>4, LookedParsed, HttpAssumption
  <2>4. c \in Seq(Nat) /\ Len(c) = n /\ Range(c) = {k} /\ \A i \in 1..n : c[i] = k
    BY <2>3, Constant
  <2>5. IsInjective(requests') /\ Range(requests') = Range(requests) \cup {k}
    BY <1>0, <2>2, <2>3, InjectiveAppend, RangeAppend DEF Types, InOrder
  <2>6. Range(ips') = Range(ips) \cup {k}
    <3>1. ips' = ips \o c /\ ips \in Seq(Nat)
      BY <2>1 DEF Types
    <3> HIDE DEF c
    <3> QED BY <2>4, <3>1, RangeConcatenation
  <2>7. \A i, j \in 1..Len(ips') : i <= j => ips'[i] <= ips'[j]
    <3>1. Len(ips') = Len(ips) + n /\ Len(ips) \in Nat
          /\ \A i \in 1..Len(ips') : ips'[i] = IF i <= Len(ips) THEN ips[i] ELSE k
      BY <2>1, <2>3, <2>4, ConcatProperties DEF Types
    <3>2. \A i \in 1..Len(ips) : ips[i] \in Nat /\ ips[i] <= k
      <4>1. \A i \in 1..Len(ips) : ips[i] \in Looked /\ ips[i] \in Nat
        BY <1>0, ElementOfSeq DEF Types, Range
      <4> QED BY <1>4, <4>1, LookedParsed
    <3> QED BY <2>3, <3>1, <3>2 DEF InOrder
  <2> QED BY <1>0, <1>4, <2>3, <2>5, <2>6, <2>7, LookedParsed DEF InOrder
<1>5. CASE Elsewhere \/ UNCHANGED vars
  BY <1>5, LookedUnchanged DEF InOrder
<1> QED BY <1>1, <1>2, <1>3, <1>4, <1>5 DEF Next, Step, Elsewhere, BadUrl, request

(* The last request is that of the get in progress.                        *)
LEMMA CurrentStep == Types /\ Kept /\ [Next]_vars => Current'
<1> SUFFICES ASSUME Types, Current, [Next]_vars PROVE Current'
  BY DEF Kept
<1>1. CASE Get \/ Post
  BY <1>1, Called DEF Current
<1>2. CASE BadUrl
  BY <1>2 DEF BadUrl, Current
<1>3. CASE ParseUrl
  <2>1. Len(urls) \in Nat
    BY DEF Types
  <2>2. CASE pc' = "thrown"
    BY <2>2 DEF Current
  <2>3. CASE pc' # "thrown"
    <3>1. requests' = Append(requests, Len(urls)) /\ first' = 1 /\ pc' = "open" /\ UNCHANGED urls
      BY <1>3, <2>3 DEF ParseUrl
    <3>2. requests' # <<>> /\ Last(requests') = Len(urls)
      BY <2>1, <3>1, Extended DEF Types
    <3> QED BY <1>3, <3>1, <3>2 DEF ParseUrl, Current
  <2> QED BY <2>2, <2>3
<1>4. CASE Open
  BY <1>4 DEF Open, Current, Types
<1>5. CASE SendData \/ ReadHeader \/ ReadHeaderFails \/ WriteRest \/ ReadBody \/ ReadBodyEnds \/ UNCHANGED vars
  BY <1>5 DEF SendData, ReadHeader, ReadHeaderFails, WriteRest, ReadBody, ReadBodyEnds, vars,
     request, Current
<1> QED BY <1>1, <1>2, <1>3, <1>4, <1>5 DEF Next, Step

(* A turn of get_header that reads n bytes; has_some_body' as a formula.   *)
Turn(n) ==
  /\ Segment(n)
  /\ read_length' = read_length + n
  /\ \/ /\ read_length' < response.Head
        /\ header_size' = Grown(read_length + n)
        /\ UNCHANGED <<pc, has_some_body, content_length>>
     \/ /\ ~(read_length' < response.Head)
        /\ header_size' = Cut(read_length + n, Grown(read_length + n))
        /\ has_some_body' \in BOOLEAN
        /\ has_some_body' <=> read_length' > header_size'
        /\ content_length' = response.length
        /\ pc' = "body"

LEMMA Turned == ReadHeader => \E n \in 0..ReadBufLength : Turn(n)
<1> SUFFICES ASSUME ReadHeader PROVE \E n \in 0..ReadBufLength : Turn(n)
  OBVIOUS
<1>1. PICK n \in 0..ReadBufLength :
        LET read == read_length + n
            size == Grown(read)
        IN /\ Segment(n)
           /\ read_length' = read
           /\ IF read < response.Head
              THEN header_size' = size /\ UNCHANGED <<pc, has_some_body, content_length>>
              ELSE /\ header_size' = Cut(read, size)
                   /\ has_some_body' = (read > header_size')
                   /\ content_length' = response.length
                   /\ pc' = "body"
  BY DEF ReadHeader
<1>2. Segment(n) /\ read_length' = read_length + n
  BY <1>1
<1>3. CASE read_length' < response.Head
  BY <1>1, <1>2, <1>3 DEF Turn
<1>4. CASE ~(read_length' < response.Head)
  <2>1. has_some_body' = (read_length' > header_size')
    BY <1>1, <1>2, <1>4, Zenon
  <2>2. has_some_body' \in BOOLEAN /\ (has_some_body' <=> read_length' > header_size')
    <3>1. (read_length' > header_size') \in BOOLEAN
      OBVIOUS
    <3>2. has_some_body' \in BOOLEAN
      BY <2>1, <3>1, Zenon
    <3>3. has_some_body' <=> read_length' > header_size'
      BY <2>1, Zenon
    <3> QED BY <3>2, <3>3
  <2>3. header_size' = Cut(read_length + n, Grown(read_length + n)) /\ content_length' = response.length
        /\ pc' = "body"
    BY <1>1, <1>2, <1>4
  <2> QED BY <1>2, <1>4, <2>2, <2>3 DEF Turn
<1> QED BY <1>3, <1>4

LEMMA KeptStep == Types /\ Kept /\ [Next]_vars => Kept'
BY PortStep, OrderStep, CurrentStep DEF Kept

-----------------------------------------------------------------------------
(* Every step keeps the types.                                             *)
LEMMA TypesStep == IInv /\ [Next]_vars => Types'
<1> SUFFICES ASSUME IInv, [Next]_vars PROVE Types'
  OBVIOUS
<1>0. Types /\ Reading /\ Len(urls) \in Nat /\ Len(output) \in Nat
  BY LenProperties DEF IInv, Types
<1> USE HttpAssumption
<1>1. CASE Get
  BY <1>0, <1>1, Called, EmptySeq DEF Get, Types, Stages
<1>2. CASE Post
  <2>1. urls' \in Seq(Urls) /\ Len(urls') \in Nat
    BY <1>0, <1>2, Called
  <2>2. requests' \in Seq(Nat)
    <3>1. CASE UNCHANGED requests
      BY <1>0, <3>1 DEF Types
    <3>2. CASE requests' = Append(requests, Len(urls'))
      BY <1>0, <2>1, <3>2, AppendProperties DEF Types
    <3> QED BY <1>2, <3>1, <3>2 DEF Post
  <2> QED BY <1>0, <1>2, <2>1, <2>2 DEF Post, Types, Stages, reading
<1>3. CASE BadUrl \/ ReadHeaderFails \/ ReadBodyEnds
  BY <1>0, <1>3 DEF BadUrl, ReadHeaderFails, ReadBodyEnds, Types, Stages, request, reading
<1>4. CASE ParseUrl
  <2>1. ips' \in Seq(Nat)
    <3>1. CASE UNCHANGED ips
      BY <1>0, <3>1 DEF Types
    <3>2. ASSUME NEW n \in 1..MaxIps, ips' = ips \o [i \in 1..n |-> Len(urls)]
          PROVE  ips' \in Seq(Nat)
      <4> DEFINE c == [i \in 1..n |-> Len(urls)]
      <4>1. c \in Seq(Nat) /\ ips \in Seq(Nat) /\ ips' = ips \o c
        BY <1>0, <3>2 DEF Types
      <4> HIDE DEF c
      <4> QED BY <4>1, ConcatProperties
    <3> QED BY <1>4, <3>1, <3>2 DEF ParseUrl
  <2>2. requests' \in Seq(Nat) /\ first' \in Nat
    <3>1. CASE pc' = "thrown"
      BY <1>0, <1>4, <3>1 DEF ParseUrl, Types
    <3>2. CASE pc' # "thrown"
      <4>1. requests' = Append(requests, Len(urls)) /\ first' = 1
        BY <1>4, <3>2 DEF ParseUrl
      <4> QED BY <1>0, <4>1, AppendProperties DEF Types
    <3> QED BY <3>1, <3>2
  <2> QED BY <1>0, <1>4, <2>1, <2>2 DEF ParseUrl, Types, Stages, reading
<1>5. CASE Open \/ SendData
  BY <1>0, <1>5 DEF Open, SendData, Types, Stages, request, reading
<1>6. CASE ReadHeader
  <2>1. PICK n \in 0..ReadBufLength : Turn(n)
    BY <1>6, Turned
  <2>2. read_length' \in Nat /\ Grown(read_length + n) \in Nat
    BY <1>0, <2>1 DEF Turn, Grown, Types
  <2>3. header_size' \in Nat /\ content_length' \in Nat
    BY <1>0, <2>1, <2>2, Numbers DEF Turn, Cut, Types
  <2>4. has_some_body' \in BOOLEAN /\ pc' \in Stages
    BY <1>0, <2>1 DEF Turn, Types, Stages
  <2> QED BY <1>0, <1>6, <2>2, <2>3, <2>4 DEF ReadHeader, Types, request
<1>7. CASE WriteRest
  <2>1. Remain \in Nat
    BY <1>0, <1>7 DEF WriteRest, Remain, Reading, Types
  <2> DEFINE c == [i \in 1..Remain |-> 0]
  <2>2. c \in Seq(Nat)
    BY <2>1
  <2>3. output \in Seq(Nat) /\ output' = output \o c
    BY <1>0, <1>7 DEF WriteRest, Types
  <2>4. output' \in Seq(Nat)
    <3> HIDE DEF c
    <3> QED BY <2>2, <2>3, ConcatProperties
  <2> QED BY <1>0, <1>7, <2>4 DEF WriteRest, Types, Stages, request
<1>8. CASE ReadBody
  <2>1. PICK n \in 1..ReadBufLength :
          /\ read_length' = read_length + n
          /\ output' = output \o [i \in 1..n |-> read_length - response.Head + i]
    BY <1>8 DEF ReadBody
  <2> DEFINE c == [i \in 1..n |-> read_length - response.Head + i]
  <2>2. c \in Seq(Nat)
    <3>1. read_length \in Nat /\ response.Head \in Nat /\ response.Head <= read_length
      BY <1>0, <1>8, Numbers DEF ReadBody, Reading, Types
    <3>2. \A i \in 1..n : read_length - response.Head + i \in Nat
      BY <3>1
    <3> QED BY <3>2
  <2>3. output \in Seq(Nat) /\ output' = output \o c
    BY <1>0, <2>1 DEF Types
  <2>4. output' \in Seq(Nat)
    <3> HIDE DEF c
    <3> QED BY <2>2, <2>3, ConcatProperties
  <2> QED BY <1>0, <1>8, <2>1, <2>4 DEF ReadBody, Types, Stages, request
<1>9. CASE UNCHANGED vars
  BY <1>0, <1>9 DEF vars, request, reading, Types
<1> QED BY <1>1, <1>2, <1>3, <1>4, <1>5, <1>6, <1>7, <1>8, <1>9 DEF Next, Step

-----------------------------------------------------------------------------
(* A size_t is never more than the number it stands for.                   *)
LEMMA SizeBound ==
  ASSUME NEW x \in Nat, x < Word
  PROVE  Size_t(x) = x
BY HttpAssumption, SMT DEF Size_t

(* What the steps that read no byte of the response do.                    *)
LEMMA NotReading ==
  ASSUME Get \/ Post \/ BadUrl \/ ParseUrl \/ Open \/ ReadHeaderFails \/ ReadBodyEnds \/ UNCHANGED vars,
         IInv
  PROVE  Reading' /\ InPlace' /\ BodyComplete'
<1>0. Types /\ Reading /\ InPlace /\ BodyComplete
  BY DEF IInv
<1>1. CASE Get
  <2>1. Reading'
    BY <1>1, HttpAssumption DEF Get, Reading
  <2> QED BY <1>1, <2>1 DEF Get, InPlace, BodyComplete
<1>2. CASE ReadBodyEnds
  BY <1>0, <1>2 DEF ReadBodyEnds, Reading, InPlace, BodyComplete
<1>3. CASE Post \/ BadUrl \/ ParseUrl \/ Open \/ ReadHeaderFails \/ UNCHANGED vars
  <2>1. UNCHANGED reading
    BY <1>3 DEF Post, BadUrl, ParseUrl, Open, ReadHeaderFails, vars
  <2>2. InPlace' /\ BodyComplete'
    BY <1>0, <2>1 DEF reading, InPlace, BodyComplete
  <2>3. pc' \in {"parse", "open", "send", "header", "body"} =>
          \/ pc' = pc
          \/ pc \in {"parse", "open"} /\ pc' \in {"open", "send"}
    BY <1>3 DEF Post, BadUrl, ParseUrl, Open, ReadHeaderFails, vars
  <2>4. Reading'
    BY <1>0, <2>1, <2>3 DEF reading, Reading, Cutoff
  <2> QED BY <2>2, <2>4
<1> QED BY <1>1, <1>2, <1>3

(* A response begins with nothing read or written.                         *)
LEMMA Sent == IInv /\ SendData => Reading' /\ InPlace' /\ BodyComplete'
<1> SUFFICES ASSUME Types, Reading, InPlace, BodyComplete, SendData
             PROVE  Reading' /\ InPlace' /\ BodyComplete'
  BY DEF IInv
<1>1. pc = "send" /\ output = <<>> /\ ending = "none" /\ read_length < header_size /\ ~has_some_body
      /\ read_length = 0
      /\ UNCHANGED <<read_length, header_size, has_some_body, content_length, output, ending>>
  BY DEF SendData, Reading
<1>2. InPlace' /\ BodyComplete'
  BY <1>1 DEF InPlace, BodyComplete
<1>3. CASE pc' = "thrown"
  BY <1>2, <1>3 DEF Reading
<1>4. CASE pc' = "header" /\ response' \in Responses
  BY <1>1, <1>2, <1>4, HttpAssumption, Numbers DEF Reading
<1> QED BY <1>3, <1>4 DEF SendData

LEMMA HeaderRead == IInv /\ ReadHeader => Reading' /\ InPlace' /\ BodyComplete'
<1> SUFFICES ASSUME Types, Reading, InPlace, BodyComplete, ReadHeader
             PROVE  Reading' /\ InPlace' /\ BodyComplete'
  BY DEF IInv
<1>1. PICK n \in 0..ReadBufLength : Turn(n)
  BY Turned
<1>2. /\ pc = "header" /\ output = <<>> /\ ending = "none" /\ ~has_some_body
      /\ read_length < header_size /\ response \in Responses
      /\ UNCHANGED <<response, output, ending>>
  BY DEF ReadHeader, Reading
<1>3. /\ n \in Nat /\ read_length' \in Nat /\ response.Head \in Nat /\ response.sent \in Nat
      /\ header_size \in Nat /\ read_length' <= response.sent
  BY <1>1, HttpAssumption, Numbers DEF Turn, Segment, Types
<1>4. Grown(read_length') \in Nat /\ read_length' < Grown(read_length')
  BY <1>1, <1>2, <1>3, HttpAssumption DEF Turn, Grown, Types
<1>5. InPlace' /\ BodyComplete'
  BY <1>2 DEF InPlace, BodyComplete
<1>6. CASE read_length' < response.Head
  BY <1>1, <1>2, <1>3, <1>4, <1>5, <1>6 DEF Turn, Reading
<1>7. CASE ~(read_length' < response.Head)
  <2>1. pc' = "body" /\ header_size' = Cut(read_length', Grown(read_length'))
        /\ (has_some_body' <=> read_length' > header_size')
    BY <1>1, <1>7 DEF Turn
  <2>2. CASE read_length' > response.Head /\ ~response.nul
    <3>1. header_size' = response.Head /\ has_some_body'
      BY <2>1, <2>2, <1>3 DEF Cut
    <3> QED BY <1>2, <1>3, <1>5, <1>7, <2>1, <2>2, <3>1 DEF Reading, Cutoff
  <2>3. CASE ~(read_length' > response.Head /\ ~response.nul)
    <3>1. header_size' = Grown(read_length')
      BY <2>1, <2>3 DEF Cut
    <3>5. ~has_some_body'
      BY <1>3, <1>4, <2>1, <3>1
    <3>2. ~response.nul => read_length' = response.Head
      BY <1>3, <1>7, <2>3
    <3>3. header_size' # response.Head
      BY <1>3, <1>4, <1>7, <3>1
    <3>4. Len(output') = 0
      BY <1>2
    <3> QED BY <1>2, <1>3, <1>5, <1>7, <2>1, <3>2, <3>3, <3>4, <3>5 DEF Reading
  <2> QED BY <2>2, <2>3
<1> QED BY <1>6, <1>7

LEMMA RestWritten == IInv /\ WriteRest => Reading' /\ InPlace' /\ BodyComplete'
<1> SUFFICES ASSUME Types, Reading, WriteRest PROVE Reading' /\ InPlace' /\ BodyComplete'
  BY DEF IInv
<1>1. /\ pc = "body" /\ pc' = "body" /\ ~has_some_body' /\ Cutoff /\ read_length > header_size
      /\ output' = output \o [i \in 1..Remain |-> 0] /\ output = <<>> /\ ending = "none"
      /\ UNCHANGED <<response, read_length, header_size, content_length, ending>>
  BY DEF WriteRest, Reading
<1>2. Remain \in Nat /\ Remain = read_length - response.Head
  BY <1>1 DEF Remain, Cutoff, Types
<1> DEFINE c == [i \in 1..Remain |-> 0]
<1>3. c \in Seq(Nat) /\ Len(c) = Remain /\ \A i \in 1..Remain : c[i] = 0
  BY <1>2
<1>4. output' = c
  <2> HIDE DEF c
  <2>1. output' = <<>> \o c
    BY <1>1 DEF c
  <2> QED BY <1>3, <2>1, ConcatEmptySeq
<1>5. Reading'
  BY <1>1, <1>2, <1>3, <1>4 DEF Reading, Cutoff
<1> QED BY <1>1, <1>3, <1>4, <1>5 DEF InPlace, BodyComplete

LEMMA BodyRead == IInv /\ ReadBody => Reading' /\ InPlace' /\ BodyComplete'
<1> SUFFICES ASSUME Types, Reading, InPlace, BodyComplete, ReadBody
             PROVE  Reading' /\ InPlace' /\ BodyComplete'
  BY DEF IInv
<1>1. PICK n \in 1..ReadBufLength :
        /\ Segment(n)
        /\ read_length' = read_length + n
        /\ output' = output \o [i \in 1..n |-> read_length - response.Head + i]
        /\ IF Enough(read_length')
           THEN pc' = "done" /\ ending' = "length" ELSE UNCHANGED <<pc, ending>>
  BY DEF ReadBody
<1>2. /\ pc = "body" /\ ~has_some_body /\ ending = "none" /\ response \in Responses
      /\ response.Head <= read_length
      /\ ~response.nul => Len(output) = read_length - response.Head
      /\ header_size = response.Head => Cutoff
      /\ UNCHANGED <<response, header_size, has_some_body, content_length>>
  BY DEF ReadBody, Reading
<1>3. /\ n \in Nat \ {0} /\ response.Head \in Nat \ {0} /\ response.sent \in Nat /\ read_length \in Nat
      /\ content_length \in Nat /\ read_length' \in Nat /\ read_length' <= response.sent
  BY <1>1, HttpAssumption, Numbers DEF Segment, Types
<1> DEFINE c == [i \in 1..n |-> read_length - response.Head + i]
<1>4. c \in Seq(Nat) /\ Len(c) = n /\ \A i \in 1..n : c[i] = read_length - response.Head + i
  BY <1>2, <1>3
<1>5. output' = output \o c /\ output \in Seq(Nat)
  BY <1>1 DEF Types
<1> HIDE DEF c
<1>6. /\ Len(output) \in Nat /\ Len(output') = Len(output) + n
      /\ \A i \in 1..Len(output) : output'[i] = output[i]
      /\ \A i \in (Len(output) + 1)..(Len(output) + n) : output'[i] = c[i - Len(output)]
  <2>1. Len(output) \in Nat /\ Len(output') = Len(output) + n
    BY <1>4, <1>5, ConcatProperties, LenProperties
  <2>2. \A i \in 1..(Len(output) + n) :
          output'[i] = IF i <= Len(output) THEN output[i] ELSE c[i - Len(output)]
    BY <1>4, <1>5, ConcatProperties
  <2> QED BY <1>3, <2>1, <2>2
<1>7. ~response.nul => Len(output') = read_length' - response.Head
  <2> SUFFICES ASSUME ~response.nul PROVE Len(output') = read_length' - response.Head
    OBVIOUS
  <2>1. Len(output) = read_length - response.Head
    BY <1>2
  <2>2. read_length' = read_length + n
    BY <1>1
  <2> QED BY <1>3, <1>6, <2>1, <2>2
<1>8. InPlace'
  <2> SUFFICES ASSUME ~response.nul, NEW i \in 1..Len(output') PROVE output'[i] \in {0, i}
    BY <1>2 DEF InPlace
  <2>1. CASE i <= Len(output)
    BY <1>6, <2>1 DEF InPlace
  <2>2. CASE i > Len(output)
    <3>1. i - Len(output) \in 1..n /\ output'[i] = c[i - Len(output)]
      BY <1>3, <1>6, <2>2
    <3>2. Len(output) = read_length - response.Head
      BY <1>2
    <3>3. c[i - Len(output)] = read_length - response.Head + (i - Len(output))
      BY <1>4, <3>1
    <3> QED BY <1>3, <1>6, <3>1, <3>2, <3>3
  <2> QED BY <1>6, <2>1, <2>2
<1>9. BodyComplete'
  <2> SUFFICES ASSUME ending' = "length", header_size = response.Head
               PROVE  Len(output') >= content_length
    BY <1>2 DEF BodyComplete
  <2>1. Enough(read_length') /\ Cutoff
    BY <1>1, <1>2
  <2>2. read_length' - response.Head \in Nat /\ read_length' - response.Head < Word
    <3>1. response.sent + response.Head + 2 * ReadBufLength < Word
      BY <1>2, HttpAssumption
    <3>2. read_length' = read_length + n /\ response.Head <= read_length
      BY <1>1, <1>2
    <3> QED BY <1>3, <3>1, <3>2, HttpAssumption
  <2>3. Size_t(read_length' - response.Head) = read_length' - response.Head
    BY <2>2, SizeBound
  <2> QED BY <1>7, <2>1, <2>3 DEF Enough, Cutoff
<1>10. Reading'
  <2>1. CASE Enough(read_length')
    BY <1>1, <2>1 DEF Reading
  <2>2. CASE ~Enough(read_length')
    <3>1. pc' = "body" /\ ending' = "none"
      BY <1>1, <1>2, <2>2
    <3> QED BY <1>1, <1>2, <1>3, <1>7, <3>1 DEF Reading, Cutoff
  <2> QED BY <2>1, <2>2
<1> QED BY <1>8, <1>9, <1>10

LEMMA InitInv == Init => IInv
<1> SUFFICES ASSUME Init PROVE IInv
  OBVIOUS
<1> USE HttpAssumption DEF Init
<1>1. Types
  <2>1. response \in Response
    BY DEF Response
  <2>2. urls \in Seq(Urls) /\ requests \in Seq(Nat) /\ ips \in Seq(Nat) /\ output \in Seq(Nat)
    BY EmptySeq
  <2> QED BY <2>1, <2>2 DEF Types, Stages
<1>2. Len(urls) = 0 /\ Looked = {} /\ Range(ips) = {} /\ Range(requests) = {}
  BY DEF Looked, Range
<1>3. Kept
  BY <1>2 DEF Kept, PortKept, InOrder, Current, Usable, Gets, IsInjective
<1>4. Reading /\ InPlace /\ BodyComplete
  BY DEF Reading, InPlace, BodyComplete
<1> QED BY <1>1, <1>3, <1>4 DEF IInv

LEMMA Invariance == Spec => []IInv
<1>1. IInv /\ [Next]_vars => IInv'
  <2> SUFFICES ASSUME IInv, [Next]_vars PROVE IInv'
    OBVIOUS
  <2>1. Types' /\ Kept'
    BY TypesStep, KeptStep DEF IInv
  <2>2. Reading' /\ InPlace' /\ BodyComplete'
    BY NotReading, Sent, HeaderRead, RestWritten, BodyRead DEF Next, Step
  <2> QED BY <2>1, <2>2 DEF IInv
<1> QED BY InitInv, <1>1, PTL DEF Spec

-----------------------------------------------------------------------------
(* A get that reached a server is at the port of the last usable url, at   *)
(* an address no younger than the others, with the requests of all gets    *)
(* whose addresses are listed (request.hpp keeps port, ips and header from *)
(* one call to the next).                                                  *)
THEOREM Arrives == Spec => []Destination
<1> DEFINE gets == {k \in DOMAIN urls : urls[k].method = "GET"}
           usable == {k \in gets : urls[k].http /\ Short(urls[k].port) > 0}
<1>1. IInv => Destination
  <2> SUFFICES ASSUME Types, PortKept, InOrder, Current, pc \in {"send", "header", "body"}
               PROVE  /\ port = IF usable = {} THEN DEFAULT_PORT ELSE Short(urls[Max(usable)].port)
                      /\ \A i \in first..Len(ips) : ips[first] <= ips[i]
                      /\ ToSet(requests) \cap gets = ToSet(ips)
                      /\ Last(requests) \in gets /\ IsInjective(requests)
    BY DEF IInv, Kept, Destination
  <2>1. DOMAIN urls = Looked /\ Looked = 1..Len(urls) /\ Len(urls) \in Nat
    BY LenProperties DEF Looked, Types
  <2>2. gets = Gets
    BY <2>1 DEF Gets
  <2>3. usable = Usable
    BY <2>2 DEF Usable
  <2>4. port = IF usable = {} THEN DEFAULT_PORT ELSE Short(urls[Max(usable)].port)
    <3>1. CASE Usable = {}
      BY <2>3, <3>1 DEF PortKept
    <3>2. CASE Usable # {}
      <4>1. PICK k \in Usable : port = Short(urls[k].port) /\ \A j \in Usable : j <= k
        BY <3>2 DEF PortKept
      <4>2. Usable \subseteq Nat
        BY <2>1 DEF Usable, Gets
      <4>3. Max(Usable) \in Usable /\ \A j \in Usable : Max(Usable) >= j
        BY <4>1, <4>2 DEF Max
      <4>4. Max(Usable) = k
        <5>1. Max(Usable) \in Nat /\ k \in Nat
          BY <4>2, <4>3
        <5>2. Max(Usable) <= k /\ Max(Usable) >= k
          BY <4>1, <4>3
        <5> QED BY <5>1, <5>2
      <4> HIDE DEF usable
      <4> QED BY <2>3, <3>2, <4>1, <4>4
    <3> QED BY <3>1, <3>2
  <2>5. \A i \in first..Len(ips) : ips[first] <= ips[i]
    BY LenProperties DEF InOrder, Current, Types
  <2>6. ToSet(requests) \cap gets = ToSet(ips)
    <3>1. ToSet(requests) = Range(requests) /\ ToSet(ips) = Range(ips)
      BY DEF ToSet, Range
    <3> HIDE DEF gets
    <3> QED BY <2>2, <3>1 DEF InOrder
  <2>7. Last(requests) \in gets /\ IsInjective(requests)
    <3>1. Last(requests) = Len(urls) /\ urls[Len(urls)].method = "GET" /\ Len(urls) \in 1..Len(urls)
      BY <2>1, EmptySeq, LenProperties DEF Current, Last, Types
    <3> QED BY <2>1, <3>1 DEF InOrder
  <2> QED BY <2>4, <2>5, <2>6, <2>7
<1> QED BY <1>1, Invariance, PTL

(* m_header never has less room than what is copied into it                *)
(* (get_header, SocketStream.hpp).                                         *)
THEOREM HeaderHasRoom == Spec => []HeaderFits
<1>1. IInv => HeaderFits
  BY DEF IInv, Types, Reading, Cutoff, HeaderFits
<1> QED BY <1>1, Invariance, PTL

(* What get_boday writes of a body is at its place or garbage, however the *)
(* response is split and whatever an earlier get left.                     *)
THEOREM BodyInPlace == Spec => []InPlace
<1>1. IInv => InPlace
  BY DEF IInv
<1> QED BY <1>1, Invariance, PTL

(* Reading that ends because of Content-Length wrote that many bytes, if   *)
(* the header had been cut (get_boday, SocketStream.hpp).                  *)
THEOREM LengthReached == Spec => []BodyComplete
<1>1. IInv => BodyComplete
  BY DEF IInv
<1> QED BY <1>1, Invariance, PTL
=============================================================================
