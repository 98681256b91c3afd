# qyutil: models and proofs

qyutil is a small C++ library of network diagnosis for Android and iOS: it
resolves names with its own DNS client, pings and traces hosts, and runs all of
that on a background thread for an application that gets its answers through
callbacks. This directory holds TLA+ modules of its core logic, the TLC
configurations that check them on small instances, and theorems about them
that TLAPS has checked. Paths are relative to the repository; what
`PROJECT.json` calls `src/...` is the repository's root.

## 1. Inventory

| part | code | state it keeps | operations | hard behaviour |
|---|---|---|---|---|
| task queue | `include/qyutil.h` 25-80 | list of tasks, mutex, condition variable, detached worker threads | `put_task`, `run` | interleavings of callers and workers, wake-ups, tasks that submit tasks |
| network diagnosis | `src/qyutil.cpp` | the list of addresses, one error object for all callbacks | `NetworkDiagnosis` | the error changes between callbacks; empty list |
| asynchronous API | `src/global_func.cpp` | a buffer per request | `OC_NetworkDiagnosis`, `AsyncNative*` | a buffer written by one function of a task and read by another |
| resolver | `src/dnsquery/dnsquery.cpp` | a socket, the list of servers, the time left | `socket_gethostbyname`, `RecvWithinTime` | several threads at a time, late answers, signals, early returns |
| DNS messages | `src/dnsquery/dnsquery.cpp` | two buffers of a call | `ChangetoDnsNameFormat`, `ReadName`, `ReadRecvAnswer` | pointers inside names, lengths that must agree with the reader's place |
| pinger | `src/ping/pinger.hpp` 28-208 | socket, sequence number, one `PingState` per round, the statistics | constructor (runs everything), destructor | replies lost, late, doubled; not matched with requests |
| trace router | `src/tracerouter/tracerouter.hpp` 53-312 | two sockets, TTL, the address last printed | constructor (runs everything), destructor | as the pinger's, over TTLs; signals in waits |
| HTTP client | `src/http/` | port, addresses and request text of a `Request`; counts of bytes read, the header buffer | `Request::get`, `post` | what one call leaves to the next; a response in pieces; unsigned counts; failing reads |
| ping program (Android) | `pinger.hpp` 210-323, `tracerouter.hpp` 314-411 | the program's output | run and parse | text of another program |
| packet headers | `common/net_common/*_header.hpp` | bytes, members of the pinger | get, set, checksum, read from a stream | word arithmetic; what a failed read leaves in place |
| log | `common/qylog`, `include/qylog.h` | a logger and a flag | initialise, log | first use races with initialisation |
| semaphore, pingback, JNI | `src/Semaphore.cpp`, `include/Pingback.hpp`, `src/jni` | - | - | wrappers; the first two are used by nothing |
| vendored and auxiliary | `common/asio`, `common/cmdline.h`, `build`, `Test` | - | - | not the library's own logic |

How they interact. An application thread calls `OC_NetworkDiagnosis` or an
`AsyncNative` function, which packs the work and a second function into a task
and calls `put_task` of the one instance `qyutil<1>`. Its worker pops the task
and calls both functions outside the mutex. The first one runs the resolver and
then a pinger per address (a diagnosis), or one of resolver, pinger and trace
router; callbacks run on the worker, and may call the API again. The HTTP client
uses the resolver too, on the caller's thread, so that the resolver may run on
several threads at a time. There is no shared state but the queue, the process's
table of descriptors and the log.

What makes each part correct:

- queue: no task lost, doubled, reordered or taken from an empty list; no worker
  asleep over a task; no function called with the mutex held; each task carried
  out to its end;
- diagnosis and API: every request told a complete and consistent story, once,
  without another's in between;
- resolver: success exactly with addresses; one's own answer; within the time
  given; the descriptor closed;
- DNS messages: the name that was meant in the query; the names and the addresses
  the server meant in the result;
- pinger and trace router: a reply counted where it belongs, or at least never
  twice and never before its request; an end in bounded time; the printed
  statistics are those of the rounds;
- HTTP client: the request goes where its url says, or where the state kept from
  earlier calls sends it; each byte of the body at its place; reading stops at the end;
- packets: a checksum that verifies; a reply recognised by two whole headers or not at all;
- ping program: the numbers it printed, each probe's output read by itself;
- log: one logger made, and used by whoever initialised it.

`PROJECT.json` lists the hazards behind these at their lines.

## 2. Modules

| module | models | composes |
|---|---|---|
| `TaskExecutor` | what the queue promises: submit, start, drop, work, finish | - |
| `TaskQueue` | the queue as it is written | implements `TaskExecutor` |
| `AsyncApi` | diagnosis and asynchronous API | extends `TaskQueue`: its actions are those of the queue joined with what runs in the task |
| `Resolver` | `socket_gethostbyname`, by any number of threads | - |
| `DnsMessage` | the name in a query, the names, records and addresses in an answer | - |
| `Pinger` | one pinger object and the ICMP traffic of its socket | - |
| `TraceRouter` | one trace and the ICMP traffic of its socket | - |
| `EchoPacket` | the bytes of an echo request and the reading of what comes back | - |
| `PingCommand` | the Android pinger and trace router, which read the output of the ping program | - |
| `HttpExchange` | calls of `get` and `post` on one `Request` | - |
| `LogMgr` | the log's singleton, initialised and used by several threads | - |
| `SequenceLemmas` | facts about the community modules' sequence operators, folds among them, and induction over numbers and sequences | used by the proofs |
| `TaskQueueProofs`, `HttpExchangeProofs`, `LogMgrProofs` | theorems | extend the component's module |
| `ResolverProofs` | theorems | extends `Resolver` and `DnsMessage`, the exchange and its messages |
| `PingerProofs` | theorems | extends `Pinger` and `EchoPacket`, the rounds and the bytes of the same class |
| `TraceRouterProofs` | theorems | extends `TraceRouter` and `PingCommand`, the trace with sockets and the one with the ping program |
| `AsyncApiProofs` | theorems | extends `AsyncApi` and `TaskQueueProofs`, whose step lemmas it uses |
| `MC*` | values for the constants | extend the component's module; `MCMessages` puts four modules that need little room, `DnsMessage`, `EchoPacket`, `PingCommand` and `LogMgr`, side by side: a behaviour is one of theirs |

Definitions whose name has a suffix (`Push_Front`) are faulty forms of the
definition without it: what a plausible slip in that code would be. No
specification uses them; substituted for the true definition they show that a
property depends on it.

### Correspondence

**TaskQueue.** `pc` of a worker is its place in `run()`: `lock` before line 52,
`wait` in `wait()`, `pop` with the mutex before line 58, `first` and `second`
inside the task's functions. `cvmtx` is the mutex. `Enter` acquires it and tests
the list, `SpuriousWake` is `wait` returning on its own, `Take` is lines 58-60
with the test of line 62. `put_task` is two actions, `Put` (lock and push) and
`NotifyAll` (notify and unlock), so that what others do between them is visible.
A worker may call `put_task` while it is inside a task's function. Histories
`accepted`, `fetched`, `worked` and `reported` exist for the properties only.
Three kinds of tasks: with both functions, without the second, without the first.

**AsyncApi.** `stage` is the place inside the first function. `Query`,
`DnsQuery`, `PingEmpty`, `PingNext` are the parts of `NetworkDiagnosis` between
two callbacks; `error` is the shared error object, a code and a message: `Set` writes
over the message before without ending it, as `strncpy` does there, `Recovered` clears it. The resolver's outcome is any
list of addresses (empty when it fails), which is what `ReturnSound` of
`Resolver` allows. What `strncpy` leaves of an address of 15 characters, and the
text copied from the destroyed string of `result_output`, are nondeterministic.
`events` has whose callback each one was, in the order they were made, `told` what
each request's own were told, `unended` the addresses that went out without a NUL.
Of a diagnosis `told` is what the `qyutil::Callback` inside the library is told, and at the
time it is told: an application behind the C API never hears `dns_query`, since that member
of `OC_Callback` is empty (`global_func.cpp` 65-68), and a callback that keeps a reference to
the error object would find the later error in it. On Android the `ip` of a status is the
one that the ping program printed, or empty, as `PingCommand` has it.

**Resolver.** One call is `Call`, `Socket` (with its three exits), `Send`, then
the wait: `Tick`, `Signal`, `Recv`, `TimesOut`, `RecvFails`; `Leave` is the
common exit that closes the socket. Descriptors are reused at once. A reply is
delivered to whoever has the descriptor, and the port, the query came from. A
reply is a sequence of record types; `Addresses` counts what lines 211-223 take
of it. What a call takes may be the late answer to a call that is over, which had the
descriptor before it: for another name, then, as line 207 does not look at the name.

**DnsMessage.** Messages are sequences of bytes with positions from 0, as in the
code. `ChangetoDnsNameFormat`, `ReadName`, `ReadRecord`, `ReadRecvAnswer` and
`Ips` are the functions (lines 358-376, 291-355, 259-289, 211-223). Each loop of theirs is
a fold over what it goes through (`Scanned`, `Unpacked`, `Ips`), or a recursive function of
the number of its turns where the loop jumps (`Followed`, `ReadRecords`). One behaviour is
`PrepareDnsQueryPacket`, a server that builds an answer (`AddRecord`, `Reply`: external) and
`Read`. A label (`Label`) has 1 to 63 bytes, none of them a dot, a NUL or 192 and more:
`ReadName` takes any byte from 192 on for a pointer, wherever it stands. `Resolver`
abstracts this to the types of the records; that it may is what `AddressesRead`
shows.

**Pinger.** A round is `Send` and one of `Read`, `ReadFails`, `TimedOut`
(inside `ReadFails`), `Interrupted`; each ends in `EndRound`, which appends to
`result`. `Statistics` goes through the rounds one by one, `Publish` writes the
status. `loss` is kept as the number of missing sends and receives, `sum` is what
the average is divided from. `credit` remembers which request's reply a round
read, which the code does not know.

**TraceRouter.** `BeginLine` and `EndLine` are the loop over TTLs, `Send` one turn of
the loop over probes, `Recv`, `TimesOut` and `RecvFails` its outcomes; a failing `sendto`
leaves the line with fewer entries. `report`
has one entry per probe, with what was printed. The route is a chain; a probe of
TTL t is answered by the router at distance t or by the host. The socket gets every ICMP
message and the code takes each for the answer (lines 206-224, TODO in 215): a `Stray` is an
answer once more, or a message that answers no probe here, from any of `Senders`, routers
beyond the TTL or the host among them. `NumberText` and
`DottedText` keep the two forms of an address apart (line 142).

**EchoPacket.** Packets are sequences of bytes. `Packet` is an echo message with
its checksum (`SumOfWords`, `Folded` and `compute_checksum` are lines 75-93 of
`icmp_header.hpp`); `ReadInto` is `istream::read`, which fails when there is less
than asked for and then leaves the rest of the member as it was; `ReadIpv4` is the
extraction of an IPv4 header with its options. `Recognised` is the test of lines
153-155 of `pinger.hpp`. `Pinger` abstracts the test away, since
`read_data` returns the same to its caller whether it passes or not. The send buffer has
`SendLen` bytes (1024 in the code), while line 124 sends as many as header and body have:
`Sendable` has behind its end whatever memory may hold there (`Beyond`). What arrives may be cut
off anywhere, in the body as well, which nothing reads and nobody misses.

**PingCommand.** Output is a sequence of lines of the forms that the program has;
of the line with the loss the digits are kept. `RunPing` and `RunProbe` are `popen`
with its failure, `Collect` the loop over `fgets`, `GetPingStatus` and
`process_ping_result` the readers. `cmd` is a pointer into a string that no longer
exists when `popen` reads it (`pinger.hpp` 226), so that any run may be one without a report.
`answerers` remembers who answered each probe, which the code knows from the text only. The
loss is a fraction of 1 here and in per cent in the version with sockets (line 179).

**HttpExchange.** `Get` and `Post` begin a call; `BadUrl`, `ParseUrl`, `Open`,
`SendData` are its steps up to the response, with what each leaves in the
`Request` when it throws. The port is an `int` stored in a `short` (`Short`). The
domain handed to the resolver still contains `:port`, so that a url with one will
normally throw, with its port kept (lines 121-137).
Bytes are counted; a response is its header's length, what is
sent in all, what Content-Length says, whether the body begins with a NUL, and
whether the server closes. It is chosen when the request is sent. `ReadHeader` is
one turn of the loop of `get_header`, `Cut` lines 114-127, `Grown` 102-105,
`WriteRest` and `ReadBody` the two branches of `get_boday`. `output` holds the body
position of each byte written, 0 for a byte that was never copied. A failing read in
the header ends in `crash`.

**LogMgr.** `InitLogMgr` is the test outside the mutex, `Lock` the one inside with
the fields, `Create` the switch, `Unlock` the end of the scope. `m_isInit` and
`m_logger` are plain variables that are read without the mutex: `Seen` gives a thread
that has not been through the mutex the old value or the new one, and
`QYLogUndefined` is the case of a pointer seen before the object it points to.

## 3. Runs

| run | instance | shows |
|---|---|---|
| `queue` | 2 workers, 2 callers, a task of each kind; refinement and liveness included | the wake-ups, the order, no pop of an empty list, every task finished, `TaskExecutor` implemented |
| `pinger` | 3 rounds, interval 2, cost up to one tick above it, 1 stray | rounds keep in step until something goes wrong; no reply counted twice; statistics; end |
| `pinger_avg` | 2 rounds | violation: average below the minimum |
| `resolver` | 2 threads, 2 descriptors, 3 calls, 1 signal, array of 2 addresses | descriptors, results, no cross-talk between calls in progress, time, return |
| `resolver_darwin` | 1 thread, `select` that leaves `tv` alone | violation: a signal restarts the timeout |
| `messages` | DNS names of 1 and 2 labels with and without a dot at the end, up to 3 records, array of 2; 2 echo requests, pids 1 and 65535, bodies of 0, 3 and 6 bytes with a send buffer of 12, options of 0, 2 and 10 words, datagrams whole or cut at 10 places; ping with 1, 3 and 4 packets, 3 TTLs, a host 3 hops away; 2 threads with 3 uses of the log each, levels `UNKNOWN` and `ERROR`, threads symmetric | the query asks for the name meant, names, pointers and addresses are read as meant; checksums; which reply is recognised; reports and probes read right; one logger, used by whom initialised it |
| `trace_star` | ping program, 3 TTLs, host at 2 | violation: the host's answer is a star |
| `api` | 1 worker, 1 application thread, one request of each kind, lists of 0 to 2 addresses | story, order, buffers, answers |
| `api_zero` | same | violation: a string without an end |
| `trace` | 2 lines of 3 probes, 2 hops, 1 stray (an answer doubled, or a message from hop 1 or 3), 1 signal | which answers to this trace an entry may show, what is printed of it, time, end |
| `trace_host` | 3 lines of 1 probe, host at 2 | violation: the trace does not stop |
| `http` | 2 calls on one `Request`, ports 0, 8080, 40000 and 65616, up to 2 addresses each, buffer of 3 bytes, headers of 2-4, bodies of 0-5, all splittings | where a get goes, header buffer, body, end |

**Why the bounds are enough.** Two workers and two callers give every pair of
threads that can meet at the mutex, with a third task to arrive while both
workers are in some other place; the theorems then cover any number. Three rounds
of a pinger let a reply be late by one round and by two. In the resolver, a
third call is what it takes for a late answer to the first one to meet two
others; two descriptors force reuse. One answer more than the array of two
exercises the limit. Two lines with two probes or more let an answer be late within a line
and across lines; that an address is not printed again after a star needs three probes on
one line. Three records are one more than the array of two; a name may be written out,
be a pointer, or a label and a pointer into either place of the question, as owner
and as CNAME target, and addresses hold bytes that end a name or begin a pointer.
The HTTP buffer of 3 with headers of 2 to 4 has the header end before, at
and behind the buffer's end, and responses up to 8 bytes take three reads; of its ports
one is negative and one another as a `short`, and two calls are what it takes for one to
see what another left. A body of an odd number of bytes and the pid 65535 make the
checksum carry twice; a body of 6 bytes is 2 more than the buffer of 12 takes behind the
header. Cuts fall in the fixed part of the IP header, in its options, in the ICMP header, at
its end and in the body, for each length of options. Hops 1 and 3 are nearer than the host
and beyond it. Two threads are all that meet at the log's flag; three calls let
one log before, during and after.
Bounds inside the models: `Calls`, `MaxCalls`, `Signals`, `Strays`, `MaxIps`, `MaxAnswers`,
`MaxEchoes`, `Word`; each is a constant of its module and appears in a guard or an assumption.

**Reductions.** What arrives at a socket is delivered only while somebody waits for it,
in `TraceRouter`: a message that came earlier is read by the same
wait as one that comes at its beginning. Replies still overtake each other and rounds, since
delivery is from a set.

**Deadlock** is checked for the queue and the API, whose workers never end. The
other programs end or run out of calls, and their configurations say
`CHECK_DEADLOCK FALSE`.

**Fairness.** Threads run: weak fairness of each thread's own step. The mutex needs
no strong fairness in these runs because tasks are finitely many, so that no thread can take it
infinitely often. Time passes: weak fairness of `Tick`. Nothing is assumed of the
network, of signals, or of spurious wake-ups; what is checked of messages and of the log
is safety only. A `get` that is past its header ends because each read has a
timeout (`SO_RCVTIMEO`); inside the header it may never end (`SocketStream.hpp` 112), and
`Ends` does not say it does. `AsyncApi` assumes that what runs
inside a task goes on, which is what `Returns` of `Resolver` and `Terminates` of
`Pinger` and `TraceRouter` show of the parts; `Pinger`'s holds for an interval
above zero only, which is what a diagnosis uses.

### What the violations say

- `pinger.hpp` 182 divides the sum over the answered rounds by all rounds.
- `dnsquery.cpp` 429 restarts `select` with a `tv` that only Linux has updated.
- `global_func.cpp` 95 clears the first 16 bytes of the structure, not its `ip`.
- `tracerouter.hpp` 390 looks for `From `, while the line of the host's own answer begins with
  `from`: it is printed as a star, which line 386 says is a timeout. `ProbeByProbe` leaves
  open whether the host's answer is shown.
- `tracerouter.hpp` 142 compares an address printed as an integer with one in
  dotted form, so that the loop never ends at the host, as line 140 says it does.

## 4. Theorems

All are of the form `Spec => []P` (`ApiSpec`, `ToolSpec`, `EchoSpec`, `MessageSpec`, `LogSpec` for
`AsyncApi`, `PingCommand`, `EchoPacket`, `DnsMessage`, `LogMgr`) for every value of the constants that satisfies
the module's named assumption, except `Refinement`.

- `TaskQueueProofs`. `Inv` joins the type invariant, the properties themselves,
  `PutFromTask` (a worker is inside `put_task` only from a task's function) and
  `Ownership` (where each task that left the list is: with one worker, in one of
  its functions, or done). `TakeHasTask` alone is not inductive: that the list is
  still non-empty when `Take` comes needs that no one else can pop meanwhile, which is
  the mutex discipline. `NoLostWakeup` needs that only a thread inside
  `put_task` stands between a push and its `notify_all`. `OnceOnly` is a part of
  `Ownership`. `Refinement` maps `Put` to `Submit`, `Take` to `Start` or `Drop`,
  the returns to `Work` and `Finish`, everything else to a stutter.
- `PingerProofs`. `Flight` says where each request's reply can be: on its way, in
  the socket's queue or counted, in one place only as long as there are no
  strays; and while every round so far was counted, only the current one's is
  still out, which is why the rounds keep in step. `Sums` is the invariant of the
  loop of `statistics()`.
  `RepliesRecognised` is about the bytes. Little of it is in the invariant `EchoInv`,
  which says of the two headers only how long they are: whatever they hold, nothing of
  it is used. The work is in the lemmas. `DatagramBytes` says what is where in a
  datagram that arrives, whole or cut off anywhere; `HeaderRead` that `operator>>` stops behind the
  options, however long they are, and fails where the datagram ends before;
  `Recognition` that the test then looks at the type, id and number that were sent. A
  message without an IP header fails it because its first byte, the type, is no version
  4. There the checksum's value plays no part, only its place. `ChecksumCorrect` is about its
  value, for requests that the send buffer holds: one of those goes out as it was built
  (`SentAsBuilt`; `Built` is the whole invariant), and a packet that was built has words whose sum is that
  of the words without the checksum, plus the checksum (`SumOfPacket`, the fold
  unfolded word by word, `ZerosAddNothing` for the body); folding a sum into 16 bits
  leaves its rest modulo 65535 (`FoldedIsRest`), so that adding the complement gives
  65535, the form of zero that verifies.
- `ResolverProofs`. `Numbers` says that calls are numbered once, `Placement` that
  while a call is in progress its query and its answer are at its own socket, so
  that what another call can read there is only an answer to a call that is over: that much
  is possible, and `CallsKeptApart` is about calls in progress.
  `TimeLeft` (time left and time waited make up the timeout) gives `TimeoutKept`,
  which assumes `TvUpdated`; without it the run `resolver_darwin` refutes the
  property.

  The theorems about messages (`QueryNameCorrect`, `NamesReadRight`, `AddressesReadRight`)
  have a small invariant, `MessageInv`: the message is the answer with the server's records,
  and the result is what was read from it. What is read is settled by induction.
  One more element is one more step of each fold (`ScanMore`, `UnpackMore`, `TakeMore`).
  Over the labels of a name, with that: scanning a name with a dot behind each label gives
  its form in a message (`ScanWire`), and unpacking that form gives the dotted name
  (`UnpackWire`). Over the turns of `ReadName`: it goes along a name without pointers byte by
  byte (`WalkPlain`), stays where it found the NUL (`WalkStops`), and behind a pointer
  goes on the same way, with the reader's count left at the pointer (`FollowPointed`). So a
  record is read right wherever it lies in the message, and the reader stops behind it
  (`ReadRecordRight`); over the list of records, so are they all (`WalkRecords`), once
  it is known where the parts of an answer lie (`AnswerLaid`). The addresses are then
  a matter of counting: the address of the i-th record has as its place the number of
  address records up to i (`KeptAll`).
- `TraceRouterProofs`. `Near` says that an answer to this trace, still out or queued, is to a
  probe sent by now and from no farther away than the TTL in use, which is why no entry that
  is such an answer names a router beyond its own TTL (`NothingBeyond`); of messages of others
  it says nothing, as they come from anywhere;
  `Flight` is as in `PingerProofs`; `LastShown` relates `t_ip` to the last entry of
  the line that is no star; `Waited` adds up the waits, the current one with what is left of it.
  `EachProbeByItself` is the trace with the ping program. `Reported`: what was collected
  and what is still in the pipe make up the output of one run, the one of this probe, since
  both were empty before it, so that an address in it is that of who answered this run
  (`Answerer`, `ProbeResult`). `OfLine`: `t_ip` stands for an answer of this line, or for none
  so far, through the line's three runs. `ReportParsedRight` is the pinger with the ping
  program: what the fold of `ReadLines` leaves in `PingStatus` after a report's lines, for
  any number of packets and of replies (`ReportParsed`), with `PingerInv` to say that what is
  parsed is a whole report, or nothing.
- `LogMgrProofs`. `Inside` says who holds the mutex, `Progress` that a logger is made
  exactly by the one that set the flag, so that the mutex is free and the flag set only
  with a logger there; what a thread finds that has been through the mutex follows.
- `HttpExchangeProofs`. The invariant has two halves. `Kept` is what a `Request` carries
  from call to call: `PortKept` (the port is that of the latest usable url, or the
  default), `InOrder` (the list of addresses is in the order of the calls, and the
  requests kept are those of its gets) and `Current` (the last request is the call's
  own). `Destination` speaks of three states only, but what it says there was settled
  calls before, by calls that may have thrown, so `Kept` holds throughout. `Reading` is
  about one response: until the header ends the buffer is strictly longer than what was
  read, which needs that `get` starts with nothing read; from then on the bytes written
  are those read behind the header. `HeaderFits` and `BodyComplete` both rest on
  `Cutoff`: the size is the header's exactly when the rest was cut off, which a NUL
  at the beginning of the body prevents (line 119).
- `AsyncApiProofs`. `StepOfQueue`: each step of the API is a step of the queue or leaves
  its variables alone, so that `Inv` of `TaskQueueProofs` is an invariant of `ApiSpec`
  too, and with it the queue's properties (`QueueServesApi`). `Tasked` follows a task's
  work through its stages: untouched before it is fetched; then as far as the stage of
  the one worker inside it says (`Progress`: after the n-th address the callbacks were
  the first n + 1 of the story, and the shared error object is what the next callback
  needs); complete once `.first` has returned. That no second worker writes to a task's
  error, buffer or addresses is `Ownership` of the queue. `StoryTold` and `AnswersOnce`
  follow. `InTurn` is for a single worker: the task it is inside of is the one fetched
  last, so that the callbacks are made in the order of fetching; `FifoNoLoss` makes
  that the order of the requests (`InTheirTurn`).
- `SequenceLemmas` has the facts about `Range`, `Append`, `Head`, `Tail` and injectivity that
  these use, and what the proofs about data rest on. The library's induction theorems
  take an operator, which the provers cannot instantiate; here induction is about a set:
  one that has 0, and n + 1 with each n, has every number (`InductionOnNat`), since of
  those it lacks one would be least; likewise for sequences (`SeqInduction`). A proof
  takes for the set the inputs it is right for. That a recursive function exists is got the
  same way (`FoldExists`, `FlattenExists`), which gives `FoldLeft` as a run of steps
  (`FoldRuns`) and `FlattenSeq` part by part (`FlattenAppend`, `FlattenConcat`).
  `SitsAt` and its lemmas speak of a part's place in a longer sequence of bytes.

Only model-checked: liveness (`Completes`, `Answered`, `Ends`, `Terminates`, `Returns`) and
the fairness half of the refinement, since the prover has no rule for fairness. Every other
property of a run that passes is the statement of a theorem.

## 5. Limits

What the properties leave open, since the code does:

- An echo request larger than the send buffer (a `package_size` above 1016, `pinger.hpp` 42
  and 124): it ends in bytes from behind the buffer, which the model sends too, and nothing is
  claimed of its checksum.
- A reply cut off in its body is recognised like a whole one.
- Once a reply or an answer was lost, later rounds and probes may be credited with earlier
  ones' (`InStep` and `HopsInStep` end there; `CountedOnce` and `NotBeyond` go on), and the
  trace shows messages that answer none of its probes as routers.
- A resolver's call may take the answer to a call that gave up (`NoCrossTalk`).
- `BodyComplete` excludes responses whose header was not cut off, for which the unsigned
  count of what is left may wrap around; `Ends` begins behind the header.
- A thread that finds the log's flag set has not been through the mutex and may use a logger
  that it cannot see all of (`Configured`).
- A callback that keeps the shared error object beyond its return.

## 6. Not modelled

- Vendored code: `common/asio`, all but some 3,850 of the repository's nearly 140,000 lines of
  source, of which one function is used (the text of an IPv4 address), and
  `common/cmdline.h`. It is another project's code with its own concerns, the program
  reaches next to none of it, and a model of it would say nothing about qyutil.
- Semaphore (used by nothing), pingback (stores an empty list that nothing reads), the JNI
  wrapper (conversion for a virtual machine whose rules are not in the repository), the
  build scripts and the test program.
- Of DNS messages: the flags of the header, memory allocation, the empty name, and
  record types other than A and CNAME (`dnsquery.cpp` 285 is listed as a hazard).
- The text of HTTP requests and header fields: `parse_header` fills a map that nothing
  reads.
- Formatting of the log and of results.
- The life of pointers an application passes to the asynchronous API, an exception out of
  a task, and process exit while workers wait: the code has no step for any of them.

## 7. Plan

Done, in this order: queue and executor with proofs; pinger with proofs; resolver
with proofs; asynchronous API on the queue; trace router; HTTP exchange; DNS
messages; log with proofs; echo packets; the Android pinger and trace router; several
calls on one `Request`; proofs about the trace router, about `HttpExchange`, about
`AsyncApi` from the queue's, about the trace with the ping program and about the
recognition of a reply; induction over numbers and sequences, and with it proofs about
the checksum, the report of the ping program and the DNS messages.

Left: no safety property is without a theorem. What is open are the liveness
properties, which need another prover, and the hazards that have no property yet.
