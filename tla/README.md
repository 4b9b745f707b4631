# A TLA+ model of myhttpd

myhttpd is a web server in C++20 on top of Boost.Asio: it accepts connections
on plain and TLS listeners, spreads them over worker threads, and serves files
and WSGI applications with keep-alive, pipelining, ranges, conditional
requests, TRACE and access control. This directory holds TLA+ modules
translated from its source, the instances TLC checks, and theorems TLAPS
proves. The repository has no tests; the code is the only reference. Paths
below are relative to `src/src/` of the repository.

    tlc -workers 2 -config MCHttpWorker_one.cfg MCHttpWorker    # one run
    tlapm HttpWorkerProofs.tla                                  # one proof module

## 1. Inventory

| component | state | operations | correct if |
|---|---|---|---|
| start-up (`startup.cpp`, `network/listener_factory.cpp`, constructors) | listeners, workers, threads built so far | one listener, worker, thread, accept after another | it runs as configured, or fails before it has taken a client; whoever connected meanwhile is served |
| server (`server.cpp`, `network/*_listener.cpp`) | list of workers, one outstanding accept per listener | accept, give to the front worker, rotate | every connection goes to one worker, evenly, and accepting goes on |
| worker (`worker.cpp`) | an io_context with one thread | take over a posted connection, TLS handshake, run handlers | a connection becomes one session |
| manager (`service/http/manager.cpp`) | pool of identifiers, map of sessions, wheel, resource tree | create a session, terminating handler | pool and map partition the identifiers |
| session (`session.cpp`) | keep-alive flag, timer, connection, transceiver | start, wait / receive / send handlers, next request, terminate | one exchange after another; closed once; nothing after closing |
| transceiver (`transceiver/transceiver.cpp`) | three busy flags, canceled flag, header buffer | async_wait, async_receive, async_send, cancel and their completions; encode and decode a header | the stream is cut into requests rightly; cancellation waits for what is outstanding; a header is read as it was written |
| body buffer (`transmitting_content.cpp`) | bytes received, the reader that asked for them | commit, async_read, cancel | the reader is called once |
| linked buffer (`linked_buffer.hpp`) | blocks, offset, size, capacity | get_available_block, commit, take_data, consume | no byte lost, repeated or overwritten |
| timing wheel (`timer/`) | 120 slots, each a ring of nodes | set, cancel, tick | a timer runs at the 120th tick unless canceled; never after its node is gone |
| resource tree (`resource/resource.cpp`, `host.cpp`) | hosts, rnodes by mount, error pages | async_request and what is done to the response | the longest mount serves; lengths stated are true |
| files (`filesystem/`) | a directory | one function per method, ranges, conditional requests, mapping and sending | slices lie in the file; no stale 304; what is sent is what was mapped |
| applications (`wsgi/`) | one Python callable | call it with the whole body | its answer comes back; an exception ends no more than the request |
| access control, users (`security/`) | three sets of methods, owner, group | check, cut the OPTIONS answer, authenticate | served only if every layer entitles the sender |
| messages (`message.hpp`, `request.hpp`, `response.hpp`) | title, attributes (a multimap), content | parse, set, insert | a title is taken apart as it was put together |
| proxies | — | — | their headers are empty files |

How they interact. The main thread builds everything and then runs the accept
loops; it *posts* each connection to a worker. A worker's thread runs
everything else of that connection: workers share nothing but the process's
descriptors, the file of users each read when it was built, and the Python
interpreter. Within a worker all is callbacks. `manager` creates a `session`,
which sets its timer on the `timing_wheel` and asks the `transceiver` to wait;
each completion calls the session's next handler; the resource tree answers by
calling back, at once or from the body buffer's reader; a timer calls
`_terminate`, and the transceiver calls the terminating handler of the manager
when no busy flag is left. Other processes change the files that are served.

What is hard here: no lock is involved, yet completions are *queued* by the
reactor and run later, so a timer, a disconnection and a completion race; a
body may still be arriving when its response has been sent; one busy flag
serves two kinds of read; handlers hold raw pointers to a session another
handler may erase; the search for a header sees only one block of the buffer; a
wait on the socket does not see what is buffered above it; positions that may
be `npos` are added to; several kinds of request are never answered; exceptions
leave a handler, and with it the thread, in more places than one sees; a
handshake may read what comes behind it; a file changes between the look at it and its last byte sent.
`PROJECT.json` lists every hazard at its line.

## 2. Modules

| module | models | how |
|---|---|---|
| `Session` | one session with its transceiver, body buffer and timer | a handler runs to its end on one thread, so it is a *function from the session to the session*; the record's fields are the fields of the three classes, the outstanding operations and five history fields |
| `HttpWorker` | manager, sessions, wheel, reactor with sockets and TLS engine, clients | one action per handler run, per completion found by the reactor, per step of a client |
| `Exchange` | abstract: what a connection is promised | phases waiting, reading, serving, replying, closing, closed, with counts of requests and responses |
| `Timeouts` | abstract: what a timing wheel promises | ticks left to each owner |
| `TimingWheel` | the wheel's pointers | implements `Timeouts`; `HttpWorker` obeys it |
| `Server` | accept loops, distribution, transfer, handshake | |
| `Service` | `Server` with the sessions of one of its workers, and the descriptors they share | both modules' actions, joined where a session is created |
| `Startup` | the main thread until the server runs, early clients, edits of the file of users | one action per thing built; `Server` begins where it ends |
| `LinkedBuffer` | the block buffer, byte by byte | operators on a record |
| `HeaderScan` | the search for headers, byte by byte | implements `MessageStream` |
| `MessageStream` | abstract: cut the stream at blank lines | |
| `Text` | `std::string` positions, `npos`, unsigned wrap-around | operators |
| `HeaderCodec` | `_encode_header`, `_decode_header`, the title of a request | one step per round of a loop |
| `RangeScan` | the loop of `extract_ranges` | one step per round |
| `Messages`, `AccessControl`, `FileNode`, `Resource` | the resource tree from a request to its response | pure functions, composed as the code nests its callbacks; `Resource` adds a file others write between two requests |
| `FileTransfer` | a file from the look at it to its last block sent | one action per system call of the server and per kind of change by others |
| `HttpWorkerProofs` | theorems about `Session` and `HttpWorker` (safety, framing), what relates them to `Exchange` and `Timeouts`, and `Service` to its parts | extends `Service` |
| `ServerProofs`, `StartupProofs`, `FileTransferProofs`, `ResourceProofs`, `TimingWheelProofs`, `HeaderScanProofs` | theorems about the module they are named for | each extends it |
| `TextProofs` | theorems about `HeaderCodec` and `RangeScan`, which share the lemmas about `Text` | extends both |
| `MC*` | instances | |

Composition: `Session` ⊂ `HttpWorker`, which implements `Exchange` and uses
timers as `Timeouts` says, while `TimingWheel` implements `Timeouts`. `Service`
joins `Server` and `HttpWorker` and is shown to implement both. What `Session`
assumes of the header search (a header is found where it ends) is what
`HeaderScan` shows; what `Session` calls a resource's answer (content, empty,
bare, silent, throws) is what `Resource` computes; `FileNode` begins with the
first range of `RangeScan`; `FileTransfer` opens up what `FileNode` does in one step.

A definition marked *Fault:* is not the code's: it is the definition after it
with a plausible mistake, and each property is shown to notice one of them
(`PROJECT.json`, "mutants").

### Abstractions

* `Session`: bytes are units. A request is `<<Part, r>>` (its header: a
  beginning, and the end with the blank line) followed by `r.body` units.
  Reads return any non-empty prefix that fits, so every cut is explored.
  What the buffer holds when a body has been misread is not followed: the
  session is then `garbled`.
* A request whose header cannot be decoded, or whose content-length is no
  number or one for which there is no memory, is not `sound`: it throws
  (`message.hpp:97`, `transceiver.cpp:77`). `body` is the length of the others.
* TLS: `held` is what the TLS engine has decrypted and the session not read; a
  read of the socket takes any number of units into it, and it is returned
  before the socket is read again. The reads of the handshake may have taken a
  first part of what the client sends (`ReadAhead`). `broken` is a handshake
  that failed: every read fails. Records and keys are left out.
* `asked`, `answered`, `overlap`, `node`, `sound` are history: no guard reads
  them.
* A fault stands for an exception nobody catches (`bad_call`, `thrown`) or
  undefined behaviour (`dangling`, `timer`, `pool`: an identifier from an empty
  pool), after which the worker does nothing (`Up`).
* `WokenToo`: one readiness event completes a wait and a read together;
  `"more"`: a composed read between two reads is not outstanding, and a
  cancellation misses it. Both are how Asio's reactor behaves, and both
  matter (`Framing`, `TerminationCompletes`).
* `TimingWheel`: the handler of a node is `session::_terminate`, which does
  not touch the wheel, so a tick is one step. A tick with no node in the wheel
  only renames slots and is left out.
* `Service`: descriptors are those of connections on their way to a worker, of
  the open sessions of the observed worker, and of all connections given to
  other workers. An accept fails exactly when none is left. Any of them may
  outnumber the identifiers: `MaxOpen` and `PoolSize` are not compared.
* `Startup`: an element of the configuration is well formed or has one of four
  defects; the file of users is a version number, or gone. Any accept may fail,
  and a handshake may never end.
* `Text`: characters are their codes, and `std::size_t` wraps at `Wrap`.
  `HeaderCodec` keeps attributes in the order they are read. `RangeScan` has
  the word "bytes=" as one character.
* `Resource`: urls are strings of characters, since mounts are matched as
  strings and not by names. The file's bytes are its version. The requests
  sent to a configuration depend on it (`Inquiries`), so that access control,
  files and routing are each explored fully without their product. A path may
  be `Barred`, or be longer than the file system looks up (`MaxPath`), and a
  file may be one the server cannot open. An application answers, raises, or
  breaks what is done around its call.
* `FileTransfer`: a file is a sequence of blocks, a block the number of the
  change it was written in; memory of a mapped file ends with the page in
  which the file ends. A file that is moved to the path brings its own time, of
  any age, and may be one the server cannot read or a directory; the path may
  be closed to the server, and mapping may fail for want of descriptors.

## 3. Runs

All pass. Deadlock is checked except where the system may stop (clients that
never come back; a stream that is used up).

| run | instance | states | properties | shows |
|---|---|---|---|---|
| `one` | 1 TLS connection, any 1 of 12 requests, any pair ending in one of 5, three in a row; 2 slots, block of 3 | 138378 | `TypeOK TimerWhileWaiting OneControl NoDangling AnsweredInOrder OnlyKnownLeaks NoFault HeaderDetected Framing CancelIsFinal KeepsPromise TerminationCompletes SessionsEnd` | the core: every race of timer, completion, cancellation and disconnection, every cut by network, handshake, TLS engine and blocks |
| `polite` | the same clients, not pipelining, no ticks | 9330 | `PoliteServed` | every request is dispatched without the help of a timer, but a first one the handshake took |
| `many` | 3 connections, 2 identifiers, 2 slots, symmetry | 615490 | `Registry KeepsTime` | reuse of identifiers and a pool used up; timers that end together or one after the other |
| `wheel` | 3 owners, 3 nodes, 3 slots, fairness | 7120 | `KeepsTime RunsWhenDue` | the pointers |
| `scan` | all streams of 9 bytes over {CR, LF, x}, blocks of 3, bodies of 0–1 | 223896 | `TakesHeaders` | the byte level |
| `codec` | all headers of up to 5 characters, titles of up to 7; messages of 2 titles and up to 2 attributes with names over letter, dash, digit and colon and 5 values with and without blanks and CR | 123336 | `AsGrammar RoundTrip DecodingEnds` | the text of headers |
| `ranges` | all values of up to 7 characters after the word | 9309 | `ListExtracted` | the text of ranges |
| `server` | 2 listeners (1 TLS), 2 workers, 3 clients | 10712 | `Balanced OneOwner` | distribution |
| `service` | 3 clients, 2 listeners (1 TLS), 2 workers, 2 descriptors, fairness | 33568 | `OwnSessions EndToEnd` | from the listener to the answer |
| `startup` | up to 2 listeners of 6 kinds, 0–2 workers, 2 clients, 1 edit, failing accepts, fairness | 116616 | `FailsUnserved RunsAsConfigured SameUsers EarlyServed` | the start, how it fails, and what becomes of early clients |
| `transfer` | 3 blocks, pages of 2, 3 changes, 2 seconds, 2 requests, plain and TLS | 6906164 | `SentAsMapped NeverStale DiesOfOthers` | a file that changes while it is served |
| `resource` | 7 host × 28 rnode rules with 9 methods and 6 logins; a file of 3 sizes, to be opened or not, and closed paths, with 26 ranges and 4 dates; 32 sets of mounts with 40 urls and 30 answers and ends of applications | 135680 | `EntitledOnly OptionsUsable RoutedLongest LengthsTrue SliceInFile AnswersAll` | access, files, routing and the way back |

Why the bounds are enough. A session's handlers depend on the latest request
only, plus what the one before left in the buffer and in `body`: two requests
reach every kind of pair, and three Gets move the buffer's position over the
blocks. Bodies of two units allow a read to be found half done. Two slots tell
"now" from "later". Sessions interact only through pool, map and tick: three
connections and two identifiers give reuse, an empty pool and two timers in one
tick. Nine
bytes hold two blank lines, or one that begins in any position of three blocks.
Three nodes give a ring with a first, a middle and a last. Five characters are
an empty title and a whole attribute line with its end. Seven characters after
the word are three ranges of all forms that fit. Two descriptors for three
clients make an accept fail or wait. Three blocks in pages of two give a file
whose end can move within a page, to its edge and to another page; two seconds
tell an older time from the present one.

The bounds in the modules are `MaxOpen`, `MaxBody`, `Length`, `Wrap`,
`MaxAttributes`, `MaxBlocks`, `MaxWrites`, `MaxTime`, `MaxRequests`,
`MaxEdits`, `MaxVersion`, and that each client of `Server`, `Service` and
`Startup` connects once.

### Fairness

* `WorkerFairness`: the thread runs every queued handler (`HandlerFairness`)
  and the wheel's raw timer is always re-armed (`timing_wheel.cpp:32`).
* `ReactorFairness`: the reactor reports what has happened on a socket. Nothing
  is assumed of what a client does.
* `ClientFairness` (only as the premise of `SessionsEnd`): clients leave in the
  end; without it nothing bounds a stalled client, since no timer runs while a
  request is read or a response sent.
* `PoliteSpec`: clients send what they have to send, a request at a time, and
  the wheel stands still, so that the timer cannot be what helps.
* `ServiceSpec`: both kinds of thread run what is queued, and clients are
  polite: they finish their handshakes, which nothing in the code makes them do,
  and send what they have to send. The backlog is served while the accept loop
  lives.
* `Startup!FairSpec`: the threads run. Nothing is assumed of clients or of
  handshakes, so `EarlyServed` promises no more than that a handshake begins.
  `HeaderCodec` is functions that run until
  they return. `TimingWheel`: the raw timer goes off.

### What the runs say about the code

The properties are stated as they hold; what is remarkable about the code is in
their exceptions.

* `OnlyKnownLeaks`: exactly three ways leave a session that nothing will ever
  call: an unanswered request (PUT, DELETE, CONNECT, unknown methods, an
  application's exception), a termination that waits for the receiving flag
  that `async_receive` set for a header already in the buffer, and a TRACE
  whose body was cut short.
* `NoFault`: where a resource does not read the body, a failing read of the
  body calls an unset handler (`transmitting_content.cpp:28`); an application
  reads it and is safe from that. Exceptions leave the handler, and end the
  process, for a header without colons or a content-length that is no size
  (`message.hpp:97`), and wherever a resource throws: an application called with
  a body always does, since its bytes are made a bytearray out of a text before
  the try block (`wsgi_rnode.cpp:99`). And the pool of identifiers is popped
  unchecked (`manager.cpp:27`): `Registry` says that it is empty only when every
  identifier is an open session's, so that it takes as many open connections as
  there are identifiers.
* `NoDangling` and `Framing` hold until a header is read while a body is still
  outstanding (`overlap`).
* `PoliteServed` needs clients that do not pipeline: the wait for a request
  sees neither the header buffer nor what the TLS engine holds
  (`session.cpp:74`, `ssl_connection.cpp:29`). Even so the first request is
  missed if the handshake's reads took it with the client's last message
  (`Overlooked`): such a session waits for its timer. Behind it there is nothing
  to be missed.
* `HeaderDetected`: searching only the first block is enough, because buffered
  data always lies in one block between requests.
* `KeepsPromise`: a response without content (304, OPTIONS, HEAD) goes to
  `closing` even under keep-alive: `Exchange!Close` allows it from `replying`.
  `PoliteServed` says that no other answer does (`Finished`).
* `EndToEnd`, `EarlyServed`: one failed accept, for want of a descriptor, ends a
  listener (`tcp_listener.cpp:16`), and whoever is in its backlog then is never
  served; a failed handshake makes a session that cannot speak
  (`worker.cpp:26`).
* `RunsAsConfigured`: a listener of an unknown type is a null pointer that is
  met only when workers run and clients have connected; and where
  `hardware_concurrency` is 0 the first accepted client ends the process.
  `SameUsers`: workers differ if the file was edited while they were built.
* `DecodingEnds`, `AsGrammar`: a last line without a colon is never left.
  `RoundTrip`: a message comes back exactly if its title has no CR and each
  attribute is `Sendable`: the name has no colon and nothing but a small letter
  (or the character before them) at its beginning and after its dashes, the
  value has no CR and no blank at its beginning. Nothing checks that: an
  application spells its headers as it likes (`wsgi_rnode.cpp:123`).
  `ListExtracted`: the loop takes no more ranges than the value has characters,
  so it ends. All ranges are found, but those after the first begin with their
  comma, so that only the first can be used.
* `NeverStale`: a 304 is right unless two writes fell into one second, or a
  file came to the path, or was given a time, since the copy was fetched: a file
  that is renamed keeps its own time, which may be the one of the copy. For
  writes in place looking at the time *before* mapping is what makes it so.
  `DiesOfOthers`: the process dies of a file that was removed or hidden between
  two looks, of a path it may not follow, of a file that it may not read, that
  is empty or has become a directory, of one truncated while TLS reads it, and
  of a want of descriptors or memory. `SentAsMapped`: replacing a file by
  renaming is safe.
* `LengthsTrue`, `AnswersAll`, `OptionsUsable`: an application's error keeps
  its own false length (`host.cpp:119`); statuses without a page, applications
  that raise or break what is around their call, files that cannot be mapped,
  paths that cannot be looked up and unreadable bounds are not answered; OPTIONS
  may name CONNECT, and names what the *group* may whoever asks.

## 4. Proofs

| theorem | states | from |
|---|---|---|
| `HttpWorkerProofs!Invariance` | `Spec => []IInv` | induction |
| `TypeCorrect`, `TimerSafe`, `ControlSafe`, `DanglingSafe`, `OrderSafe`, `CancelSafe` | `TypeOK`, `TimerWhileWaiting`, `OneControl`, `NoDangling`, `AnsweredInOrder` of run `one`; and that a terminated session reads no header | `Invariance` |
| `RegistrySafe` | `Registry` of run `many` | `Invariance` |
| `FrameInvariance` | `Spec => []FrameInv` | `Invariance` and induction |
| `HeaderSafe`, `FramingSafe` | `HeaderDetected`, `Framing` of run `one` | `FrameInvariance` |
| `CancelSound`, `PromiseKept` | `CancelIsFinal`, `KeepsPromise` of run `one` | `Invariance`, step by step |
| `KnownEnds` | `Spec => [](IInv /\ EndOK of every session)` | induction |
| `FaultsKnown`, `LeaksKnown`, `TimeKept` | `NoFault`, `OnlyKnownLeaks` of run `one`, `KeepsTime` of run `many` | `KnownEnds` |
| `WorkerKept`, `ServerKept` | `Service` implements `HttpWorker` and `Server` | induction |
| `OwnSafe` | `OwnSessions` of run `service` | the same invariant |
| `PoolSuffices` | `Spare`: a worker with fewer open sessions than the pool has identifiers has one left | `Invariance`, by counting |
| `TimingWheelProofs!WheelInvariance` | `Spec => []WInv`: every slot and the list of what runs are rings linked both ways | induction |
| `DueSafe` | `RunsWhenDue` of run `wheel` | `WheelInvariance` |
| `WheelRefines` | the wheel's pointers implement `Timeouts` (run `wheel` adds that timers end) | `WheelInvariance`, step by step |
| `HeaderScanProofs!ScanRefines` | `TakesHeaders` of run `scan`: `HeaderScan` implements `MessageStream` | induction (`ScanInv`) |
| `TextProofs!HeaderInvariance` | `Spec => []Inv` of `HeaderCodec` | induction |
| `GrammarHolds`, `RoundTripHolds` | `AsGrammar`, `RoundTrip` of run `codec` | `HeaderInvariance` |
| `RangeInvariance` | `RangeSpec => []RangeInv` | induction |
| `RangesExtracted` | `ListExtracted` of run `ranges` | `RangeInvariance` |
| `ResourceProofs!ResourceInvariance` | `Spec => []Inv` of `Resource`: the latest response is what `Serve` says of the present configuration and file | induction |
| `EntitledSafe`, `OptionsSafe`, `RoutedSafe`, `LengthsSafe`, `SliceSafe`, `AnswersSafe` | the six properties of run `resource` | `ResourceInvariance` and what `Serve` delivers |
| `ServerProofs!Distribution` | `Spec => []SInv` of `Server` | induction |
| `BalancedSafe`, `OwnerSafe` | `Balanced`, `OneOwner` | `Distribution` |
| `StartupProofs!StartInvariance`, `StartTyped` | the invariant of the start, its types | induction |
| `FailsUnservedSafe`, `RunsAsConfiguredSafe`, `SameUsersSafe` | run `startup` but its liveness | `StartInvariance` |
| `FileTransferProofs!TransferInvariance` | `Spec => []Inv` of `FileTransfer` | induction |
| `MappedSafe`, `StaleSafe`, `DeathsKnown` | `SentAsMapped`, `NeverStale`, `DiesOfOthers` | `TransferInvariance` |

They hold for every number of connections, identifiers, slots, every block
size, every set of requests and streams, every number of listeners, workers and
clients, every set of configurations, of rules, mounts and requests to them,
every number of slots and nodes of the wheel, every stream of bytes, every
header, every message to encode, every value of a range header, and every size
of file and page, under the named assumptions of the modules: positive
sizes, finite sets of connections, nodes and workers, special values outside the
sets they are special to (`NullAssumption`, `PathAssumption` among them),
configurations,
inquiries, sizes and dates of the right type (`SiteAssumption`,
`InquiryAssumption`, `FileAssumption`), headers, range headers and messages
made of bytes and of a size that is a `std::size_t` (`HeadersAssumption`,
`ValuesAssumption`; `MessagesAssumption`, by which names are also in lower case,
as `message::insert_attribute` stores them), bounds that are numbers
(`BoundsAssumption`, `OpenAssumption`, `MaxEditsAssumption`, `TimeAssumption`), and that a client sends one whole
request after another (`RestsAssumption`: every suffix of a stream that begins
a request is that request and then such a suffix again). The last is what a
stream *is* here and no restriction on its end: clients may leave anywhere.

The argument for `HttpWorker`. None of the invariants is inductive alone. The
flags, the timer and the callbacks depend on each other: that a wait's handler
may cancel the timer needs the timer to be set, which needs that the session
was not canceled, which needs that whoever canceled it had seen the flag of the
wait. The inductive invariant `IInv` is therefore `SafeSession` of every session
(type; timer set exactly while waiting and not terminated; wait, header read,
write and reader exclude each other; the flags cover what is outstanding, as
long as two reads did not overlap; whether an answer is owed can be told from
what is outstanding), plus what ties sessions to the manager: a new session is
`Fresh`, an open one has an identifier, pool and map are a `Partition`, and a
connection for which there was none found the pool empty (`UsedUp`). The lemmas
show,
operator by operator, that each handler preserves `SafeSession`. Within a
handler, between the flag it clears and the operation it starts, a session is
only `Running`; the lemmas follow the calls of the code from there back to
`SafeSession` (`NextRequest` ends in `AwaitRequest` or `Cancel`, and so on).
The induction has one step per action, most of which cite one lemma, and
the registry's part: `Become` returns an identifier exactly when a session
ends, and a tick returns the identifiers of all it erased, as a sequence without
duplicates.

Promises and ends. The same walk over the operators says in which *phase* each
leaves a session and how many requests and responses it adds (`Leads`); a
handler's change is then one of those `Exchange` allows (`Kept`), and a tick is
many at once, one per session. Faults and leaks need more of a session than its
safety: `EndOK` says that something drives every live session (an operation, a
timer or a reader, unless an answer is owed, an echo was cut short or a
cancellation waits for a flag), that an application is the reader of any body
of its own that is outstanding, and that an echo's reader belongs to an echo.
It is proved by a second induction along the same operators, and the timer's
part of it makes every step one of `Timeouts`.

`Server`: the queue of workers is sorted by what they were given, and its last
has at most one connection more than its first (`Sorted`). `Service`: a queue
holds only connections given to its worker, each once (`Queued`); every step
then is a step of either part or leaves it alone. `PoolSuffices` is about the
worker alone, whatever is before it: pool and map partition the identifiers and
an open session has one of its own, so that an empty pool takes as many open
sessions as there are identifiers. Nothing in the code bounds those, and
nothing is assumed to. `Startup`: what is built at each phase is a
function of the configuration so far (`Progress`, `Built`), and clients are
given out only behind the last step that can fail. `FileTransfer`: a file's
time tells it from what it was in any earlier second, unless it came there or
was given its time since (`Dated`), the part sent
is a beginning of the file as mapped, and the file does not shrink unless it is
truncated (`Sending`); the pages of a file cover it (`PagesCover`).

Framing. What has been received, the read that has returned and is not handled
yet, what is in the TLS engine and the socket, and what the client is still to
send (or would have sent, had it stayed: the `\E u` of `FrameInv`) are, put
together, the rest of the current body and then whole requests (`FrameOK`).
Every cut of the stream moves a prefix from one of these parts to the next, so
most steps only reassociate a concatenation. That a header is found is harder:
the first search sees the first block only, and the search in the read's handler
only what that read brought. `HeaderOK` says that between them nothing is left
out: while a read is outstanding what precedes it was searched without success,
and between requests the data lies in one block. `overlap` is the premise the
code needs: a header read begun while a body read is outstanding.

`ResourceProofs` follows the nesting of the callbacks from the inside out:
`FromNode` what a file or an application may answer, `Stated` and `Dealt` what
its host has made of that, `FromHost` with access control before it, `Delivered`
what the tree sends after it has added pages. Each of the six properties is then
read off `Delivered`. The reason why lengths are true, for instance, is that
only an application can name a length of its own, and that a page replaces a
content and its length together unless the application gave one.

`TimingWheelProofs`. The pointers are hard to reason about as such. `Placed(r)`
therefore gives, for each ring, the *sequence* of its nodes: it has no node
twice, following `next` or `previous` from any of them leads to its neighbour
(`Linked`), no two rings share a node, and the nodes in rings are exactly those
with a handler. Setting a timer appends to one of the sequences, canceling takes
one out, and a tick moves a whole sequence to the empty ring of what runs and
empties it; the lemmas show that the few assignments of the code do this to the
pointers, including for rings of one node, where they meet the same cell twice.
`WheelRefines` follows: a node in the ring k slots ahead has k ticks left.

`HeaderScanProofs`. `Made` relates a buffer to its blocks: offset, data and free
space add up to whole blocks, and a datum at position k is in block
`k \div BlockSize`. From this and the uniqueness of quotient and remainder,
`WriteAppends` and `ConsumeDrops` say that the operations of the buffer are
those of a sequence. `StatusAt(T, n)` is what the matcher's status *means* after
n bytes of T: a blank line is among them, or they end with so much of one.
`Matches` shows that the five statuses are enough to go on from, which is where
a matcher that forgets a CR after a CR fails. Between reads at most one block
is left, because the header ended in what had just been written to the last one;
so searching the first block is searching everything.

`TextProofs`. The encoder writes by counted positions, the decoder searches,
and the grammar speaks of lines, so the invariant has to say the same of a text
in three ways. `Written` gives every byte of it by its position, with
`Start` the position of an attribute's line, counted by `Sizes` as the code
counts: each step of the encoder adds the line that the count expects, so at the
end the buffer is full (`EncodeInv`, `TextInv`). `LinesInv` gives lines by the
number of line ends before them: the decoder stands behind the line end after
the last attribute it has read, and what it read of each line is what
`IsAttribute` says; without `WellFormed` neither holds, because a search for a
colon runs on into the next line. `TripInv` joins both: up to the first
attribute that is not `Sendable` the decoder stands at the `Start` of the next
one; that one is read as another, or is never reached, and stays lost. That
*only* those are lost needs the spelling of a name in both directions
(`NameBack`: 32 is subtracted modulo 256, and added again to what is then
between 64 and 90). A title is cut at the places of its two spaces and of its
first question mark (`FindsCuts`), and the pieces joined again are the title
(`PutTogether`). For the scan of ranges, `Taken` gives the place where each range
extracted so far ends. A sound list has exactly one dash between two such
places, so the next search for a dash stays in its range (`NextRange`); at the
end the prefixes of the value up to these places are the function by which
`ListText` is defined (`TextOfList`). Of every value, sound or not, `RoundsInv`
says that each range taken moved the offset on by a character at least, so that
the rounds are no more than the characters.

Recursion. `Ring`, `Scan`, `Sizes`, `ListText` and the position of a mount are
recursive functions. TLAPS has no induction over them here, but where the
recursion is over numbers two steps replace it: a function written down explicitly satisfies the recursive
equation, so that the one CHOOSE takes does too; and the least argument where
the two would differ is refuted (`LeastOf`, from the well-foundedness of the
naturals). For `Sizes`, a sum over a list, the explicit function is found by
induction on the length of the list, as the least length that had none
(`Counting`).

Only model-checked: liveness (`TerminationCompletes`, `SessionsEnd`,
`PoliteServed`, `EndToEnd`, `EarlyServed`, `DecodingEnds`, the ending of timers
in `TimingWheel!KeepsTime`), which is beyond TLAPS here, as is ENABLED. Every safety property of every run is proved.

## 5. Not modelled

* The proxies: `proxy_rnode.hpp`, `revers_proxy.hpp` and `socket_proxy/*` are
  empty files. `default_rnode` is compiled but nothing creates one.
* Applications: the environment dictionary, and the Python interpreter, which
  every worker enters without its lock (`wsgi_rnode.cpp:115`); what it then
  does is not defined by this code. An application is one that was loaded: where
  its module could not be imported the rnode keeps a null pointer
  (`wsgi_rnode.cpp:193`), which the first request uses.
* Tables and wording: the words of statuses, the html of error pages, media
  types, the forms of dates, the headers a session adds (`date`, `server`).
* base64 and the splitting of credentials; XML parsing, whose result is the
  configuration.
* The depth of a path (`host.cpp:58`): it is counted in an unsigned number of
  path names, whereas `Resource` has urls as characters.
* TLS records and certificates, beyond what `held` and `broken` say.

## 6. Plan

Done: every component with state of its own; all safety properties of the
sessions, the worker, the service, the start, the wheel, the header search, the
resource tree, the text of headers and ranges and the sending of files are proved.

What is left:

1. Compose: `Resource` as the resource of `HttpWorker`, in place of the request's
   field `out`; the wheel's pointers in place of the ticks left of each session.
2. Model: the path names of `host.cpp:58`.
