---------------------------- MODULE HttpExchange ----------------------------
(***************************************************************************)
(* A Request (src/http/request.hpp) and the calls of get and post made on  *)
(* it one after the other: its port, its list of addresses and its text    *)
(* are kept from one to the next.  Each get opens a TcpSocketStream and reads   *)
(* the response with a BaseResponse of its own (SocketStream.hpp).         *)
(*                                                                         *)
(* Bytes are counted, in units that make ReadBufLength small.  A response  *)
(* has Head bytes up to and including its empty line, then a body; the     *)
(* body's bytes are known by their position.  The response arrives in      *)
(* segments of any length; a read may fail (timeout, error) at any time,   *)
(* and at its end the server closes the connection or keeps it open.       *)
(***************************************************************************)
EXTENDS Integers, SequencesExt, FiniteSetsExt

CONSTANTS ReadBufLength,
          Word,         \* 2^64: the values of a size_t
          Responses,    \* what servers may send, records of Response
          Urls,         \* what they are called with, records of Url
          MaxIps,       \* bound: addresses of a domain
          MaxCalls      \* bound: calls of get and post

(* sent is less than Head when the server closes before the empty line;    *)
(* length is what get_content_length finds, 0 without one -- or when the   *)
(* name first occurs elsewhere or in other letters; nul tells that the     *)
(* body's first byte is a NUL.                                             *)
Response == [Head : Nat \ {0}, sent : Nat, length : Nat, nul : BOOLEAN, closes : BOOLEAN]

(* A call: port is what follows the ':' of the url's domain, 0 if there is *)
(* no number.                                                              *)
Url == [method : {"GET", "POST"}, http : BOOLEAN, port : Nat]

ASSUME HttpAssumption ==
  /\ ReadBufLength \in Nat \ {0}
  /\ Responses \subseteq Response
  /\ Urls \subseteq Url
  /\ MaxIps \in Nat /\ MaxCalls \in Nat
  /\ Word \in Nat
  /\ \A r \in Responses : r.sent + r.Head + 2 * ReadBufLength < Word

VARIABLES pc,              \* where get() is
          urls,            \* history: the calls
          port, ips,       \* members of Request; an address is the call that found it
          requests,        \* header: the calls whose requests its text holds
          first,           \* the address that get() tries
          response,        \* what the server sends, from the request on
          read_length,     \* m_read_length
          header_size,     \* m_header.size()
          has_some_body,   \* m_is_has_some_body
          content_length,  \* m_content_length
          output,          \* what get_boday wrote: body positions, 0 for garbage
          ending           \* history: why the reading ended

request == <<urls, port, ips, requests, first>>
reading == <<response, read_length, header_size, has_some_body, content_length,
             output, ending>>
vars == <<pc, request, reading>>

DEFAULT_PORT == 80

Init == /\ pc = "idle"
        /\ urls = <<>> /\ port = DEFAULT_PORT /\ ips = <<>> /\ requests = <<>> /\ first = 0
        /\ response = [Head |-> 1, sent |-> 0, length |-> 0, nul |-> FALSE, closes |-> TRUE]
        /\ read_length = 0 /\ header_size = ReadBufLength
        /\ has_some_body = FALSE /\ content_length = 0
        /\ output = <<>> /\ ending = "none"

-----------------------------------------------------------------------------
(* get() on the Request, which may have served other urls: one that ended, *)
(* or threw, is no hindrance.  The BaseResponse is a new one.              *)
Ready == pc \in {"idle", "done", "thrown"} /\ Len(urls) < MaxCalls

Get ==
  /\ Ready
  /\ \E u \in Urls : u.method = "GET" /\ urls' = Append(urls, u)
  /\ read_length' = 0 /\ header_size' = ReadBufLength
  /\ has_some_body' = FALSE /\ content_length' = 0
  /\ output' = <<>> /\ ending' = "none"
  /\ pc' = "parse"
  /\ UNCHANGED <<port, ips, requests, first, response>>

(* post() throws when the url is too short for its path to be cut out; it  *)
(* sends nothing, and what it added to the text goes out with a later get. *)
Post ==
  /\ Ready
  /\ \E u \in Urls : u.method = "POST" /\ urls' = Append(urls, u)
  /\ \/ pc' = "thrown" /\ UNCHANGED requests
     \/ pc' = "idle" /\ requests' = Append(requests, Len(urls'))
  /\ UNCHANGED <<port, ips, first, reading>>

(* nPort: atoi's int in a short.                                           *)
Short(n) == ((n + 2^15) % 2^16) - 2^15

PortAfter_Any(n) == Short(n)  \* faulty form: the sign is not looked at

PortAfter(n) == IF Short(n) > 0 THEN Short(n) ELSE port

(* parse_url: a url that is not http:// throws before its port is looked   *)
(* at, a domain without addresses -- the ':' and the port are still part   *)
(* of what is asked for -- after it.  Then build_req_header adds to the    *)
(* text of the requests before.                                            *)
BadUrl ==
  /\ pc = "parse" /\ ~Last(urls).http
  /\ pc' = "thrown"
  /\ UNCHANGED <<request, reading>>

ParseUrl ==
  /\ pc = "parse" /\ Last(urls).http
  /\ port' = PortAfter(Last(urls).port)
  /\ \/ pc' = "thrown" /\ UNCHANGED <<ips, requests, first>>
     \/ \E n \in 1..MaxIps :
          /\ ips' = ips \o [i \in 1..n |-> Len(urls)]
          /\ requests' = Append(requests, Len(urls))
          /\ first' = 1
          /\ pc' = "open"
  /\ UNCHANGED <<urls, reading>>

(* The addresses are tried in turn from the first, those of earlier urls   *)
(* before those of this one.  No socket is ever closed.                    *)
Open ==
  /\ pc = "open"
  /\ \/ first > Len(ips) /\ pc' = "done" /\ UNCHANGED first
     \/ first <= Len(ips) /\ pc' = "send" /\ UNCHANGED first
     \/ first <= Len(ips) /\ first' = first + 1 /\ UNCHANGED pc
  /\ UNCHANGED <<urls, port, ips, requests, reading>>

(* write() returns a size_t: an error, -1, is not below zero and passes;   *)
(* only zero throws.                                                       *)
SendData ==
  /\ pc = "send"
  /\ \/ pc' = "header" /\ response' \in Responses
     \/ pc' = "thrown" /\ UNCHANGED response
  /\ UNCHANGED <<request, read_length, header_size, has_some_body, content_length,
                 output, ending>>

-----------------------------------------------------------------------------
(* recv: some of the bytes not yet read, 0 when the server closed after    *)
(* the last one.                                                           *)
Segment(n) == /\ n \in 0..ReadBufLength
              /\ n <= response.sent - read_length
              /\ n = 0 => response.closes /\ read_length = response.sent

(* What get_header makes of `read` bytes, when the empty line is among     *)
(* them: the rest of what was read is cut off the header -- unless it      *)
(* begins with a NUL, where strlen stops -- and remembered as a beginning  *)
(* of the body.  Nothing to cut off: m_header keeps its padded size.       *)
Cut(read, size) == IF read > response.Head /\ ~response.nul THEN response.Head ELSE size

Grown_Never(read) == header_size  \* faulty form: the first ReadBufLength bytes have to do

Grown(read) == IF read >= header_size THEN header_size + ReadBufLength ELSE header_size

(* One turn of the loop of get_header; the last one is followed by         *)
(* get_content_length.                                                     *)
ReadHeader ==
  /\ pc = "header"
  /\ \E n \in 0..ReadBufLength :
       LET read == read_length + n
           size == Grown(read)
       IN /\ Segment(n)
          /\ read_length' = read
          /\ IF read < response.Head
             THEN header_size' = size /\ UNCHANGED <<pc, has_some_body, content_length>>
             ELSE /\ header_size' = Cut(read, size)
                  /\ has_some_body' = (read > header_size')
                  /\ content_length' = response.length
                  /\ pc' = "body"
  /\ UNCHANGED <<request, response, output, ending>>

(* A failing read, -1, is a size_t and not found to be below zero: memcpy  *)
(* is told to copy 2^64 - 1 bytes.                                         *)
ReadHeaderFails ==
  /\ pc = "header"
  /\ pc' = "crash"
  /\ UNCHANGED <<request, reading>>

-----------------------------------------------------------------------------
(* get_boday.  First what came with the header: memcpy copied from m_boday *)
(* instead of into it, so that what is written is uninitialised.           *)
Remain_Whole == read_length  \* faulty form: all that was read is written

Remain == read_length - header_size  \* remain_count

WriteRest ==
  /\ pc = "body" /\ has_some_body
  /\ has_some_body' = FALSE
  /\ output' = output \o [i \in 1..Remain |-> 0]
  /\ UNCHANGED <<pc, request, response, read_length, header_size, content_length, ending>>

(* m_read_length - m_header.size(), a size_t.                              *)
Size_t(n) == n % Word

Enough_Total(read) == read >= content_length  \* faulty form: the header is counted

Enough(read) == Size_t(read - header_size) >= content_length

(* Then a read at a time, until Content-Length is reached.                 *)
ReadBody ==
  /\ pc = "body" /\ ~has_some_body
  /\ \E n \in 1..ReadBufLength :
       /\ Segment(n)
       /\ read_length' = read_length + n
       /\ output' = output \o [i \in 1..n |-> read_length - response.Head + i]
       /\ IF Enough(read_length')
          THEN pc' = "done" /\ ending' = "length" ELSE UNCHANGED <<pc, ending>>
  /\ UNCHANGED <<request, response, header_size, has_some_body, content_length>>

(* A read that fails, or the end of the connection.                        *)
ReadBodyEnds_Ignored == FALSE  \* faulty form: the length is not looked at

ReadBodyEnds ==
  /\ pc = "body" /\ ~has_some_body
  /\ pc' = "done" /\ ending' = "read"
  /\ UNCHANGED <<request, response, read_length, header_size, has_some_body,
                 content_length, output>>

-----------------------------------------------------------------------------
Step == \/ BadUrl \/ ParseUrl \/ Open \/ SendData
        \/ ReadHeader \/ WriteRest \/ ReadBody \/ ReadBodyEnds

Next == Get \/ Post \/ Step \/ ReadHeaderFails

(* The thread runs, and SO_RCVTIMEO ends a read that nothing answers.      *)
Spec == Init /\ [][Next]_vars /\ WF_vars(Step)

-----------------------------------------------------------------------------
(* Properties                                                              *)

(* Where a get that reached a server is: at the port that the last url     *)
(* with a usable number named, though that was another get's and though    *)
(* that one threw, but not a post's; at an address no younger than those   *)
(* it would try next; and with the requests of all the gets whose          *)
(* addresses are in the list, one each, and of posts, which no server is   *)
(* sent otherwise (lines 121-129, 92-95, 55-59 and 159-166 of request.hpp  *)
(* keep port, ips and header from one call to the next, and never two of   *)
(* them without the third).                                                *)
Destination ==
  LET gets == {k \in DOMAIN urls : urls[k].method = "GET"}
      usable == {k \in gets : urls[k].http /\ Short(urls[k].port) > 0}
  IN pc \in {"send", "header", "body"} =>
       /\ port = IF usable = {} THEN DEFAULT_PORT ELSE Short(urls[Max(usable)].port)
       /\ \A i \in first..Len(ips) : ips[first] <= ips[i]
       /\ ToSet(requests) \cap gets = ToSet(ips)
       /\ Last(requests) \in gets /\ IsInjective(requests)

(* m_header is large enough for what is copied into it, at any time        *)
(* (lines 102-107 and 124 write behind std::string's back).                *)
HeaderFits ==
  /\ pc = "header" => read_length <= header_size
  /\ pc = "body" /\ has_some_body => header_size = response.Head /\ read_length > header_size

(* A byte of the body is never written at another's place, lost or written *)
(* twice, however the response is split and whatever an earlier get left:  *)
(* what is wrong with the output is only the part that came with the       *)
(* header (and was never copied), or all that lies behind a NUL where the  *)
(* body should begin (line 119).                                           *)
InPlace ==
  ~response.nul => \A i \in 1..Len(output) : output[i] \in {0, i}

(* When reading ends because of Content-Length, and the header had been    *)
(* cut, the whole body is there (lines 133-156: m_read_length counts the   *)
(* header's bytes and both parts of the body).                             *)
BodyComplete ==
  ending = "length" /\ header_size = response.Head => Len(output) >= content_length

(* Content-Length or not, get() ends once it has the header.               *)
Ends == pc = "body" ~> pc = "done"
=============================================================================
