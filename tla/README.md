# A verification of sse-broadcast-benchmark

The repository holds one small service written nine times: clients open an
event stream on `/sse`, a `POST` to `/broadcast` (or a timer) hands one message
to all of them, `/connections` counts them. Two clients measure it. This directory
models five of the servers and both clients in TLA+, checks small instances with
TLC, and proves safety properties for every instance with TLAPS.

## Inventory

| Component | State | Operations | What is hard about it | What makes it correct |
|---|---|---|---|---|
| Rules (`README.md`) | subscribers, streams | subscribe, leave, broadcast | it must look atomic | a message reaches exactly the streams open at that moment, once, in one order |
| `node.js/server.js` | per worker: `clients` with holes, `numClients`; per connection: `buffer`, `header` | data, end and error events | chunks of any size, a data listener that outlives the answer, indices captured by closures, worker crashes, clusters | registry and count exact, one answer per request, atomic broadcast per worker |
| `c++/` lists and broadcast | buckets with `_head` and `_mutex`, nodes on the heap, an `int` count | `/sse` completion, `/broadcast`, write completions on a pool of threads | push without a lock, tuples used after the lock is given up, reused addresses, an unsynchronised count | lists stay lists, every listed client is reached, one order per bucket, no deadlock |
| `c++/` HTTP handler | `_buffer`, `_buffered`, `_body_offset` | header and body reads | chunks, length arithmetic | one answer per request, the whole body broadcast |
| `c/server.c` | two kinds of epoll sets, descriptors, `numclients` per thread | accept, `main_thread`, `sse_thread` | three kinds of threads without a lock, reused descriptors, edge triggering | a descriptor is acted on by its owner, every request is answered, the count is exact |
| `go/server.go` | subscriber map, a channel of 50 per client | `Subscribe`, `Unsubscribe`, `Publish` | a blocking send to each client in turn, an unlocked map | every subscriber gets every tick, in order |
| `python-twisted` | a set of requests | `add`, `remove`, `publish_to_all` | callbacks during iteration | as node.js |
| `clojure-http-kit` | an atom holding a map | `handle-sse`, on-close, `broadcast` | registration in two steps, broadcast over a snapshot | no closed channel is counted for ever |
| `erlang-cowboy` | one process and one timer per connection | `init`, `info` | timers that outlive their process | a stream gets a tick a second |
| `nim` | a `seq` of sockets | `handleSSE`, `pingClients`, `checkClients` | awaits between the answer and the registration | as node.js |
| `ruby-eventmachine` | class variables: count and array | `handle_sse`, `unbind`, timer | a second request on one connection | count and array agree |
| `php-react` | array keyed by `array_push`, count | `handleSse`, end, `broadcast` | the key captured is not the key used | as node.js |
| `stats-reporter/report.js` | probes, one shared stream, one callback, timers | `gatherStats`, delivery timing, broadcasts | callbacks overwritten, timers that multiply | a callback belongs to a probe that awaits it, chains of broadcasts are accounted for, a probe ends |
| `bench/bench.js` | samples per run, `results.json` | probes, messages, the report | late answers, runs at the file together, kills | a row has the samples asked for, no row is lost, a run ends |

`PROJECT.json` lists the hazards of all of them, line by line, with the
properties that cover each one or the reason none does yet.

Interaction: the servers are alternatives and never talk to each other. Their
clients (`bench/`, `stats-reporter/`, `test.js`) talk to one of them over HTTP.
Inside a server the components interact through the shared registry.

## Modules

* `SseBroadcast` is the abstract service: `subscribers` per group, the
  `streams` of the clients, the messages `published`; `Subscribe`, `Leave` and
  `Publish` are atomic. A group is the set of clients one broadcast reaches: one
  for a server that keeps rule 4, one per worker for node.js with `--cluster`, one
  per bucket for C++, whose broadcasts go from bucket to bucket. `AtOnce` says
  whether a message is written to a group in one step, as by node.js; otherwise a
  client that leaves while it is being written may miss it.
* `NodeServer` is `node.js/server.js`. A step is one socket event, which
  JavaScript runs to completion: `Connect` (a worker accepts), `parseData` (a
  data event with every call it makes: `handlePostRequest`, `handleRequest`,
  `initSseClient`, `broadcast`, the replies), `End` (the client closes;
  `removeClient`) and `Reset` (an error event nobody listens to: the process
  dies). A request is a run of characters delivered in chunks that end at any of
  `Cuts`, so the header can be cut before, in and after the request line, and the
  body likewise. `HeaderChars` is the length of the slice the code takes, by
  characters, and `Cut` what such a slice leaves of a word: the words are strings of
  which the model knows the length (`Chars`) and the prefixes (`Prefix`), constants
  that `MCNodeServer` gives the values of real strings. `clients` keeps its
  holes and `slot` is the index each `removeClient` closed over.
* `CppServer` is the concurrent core of `c++/`: one action per access to shared
  memory. `sseOpened`, `pushNode` and `countClient` are the completion of a
  `/sse` response; `scanLock` to `scanUnlock` the first loop of `broadcast`,
  `removeLock` to `removeUnlock` the second, with `singlylist::remove` between;
  `peerCloses` and `writeFails` the environment and the completion handler that
  sets `_dead`. `heap` maps addresses to nodes, and an address may be handed out
  again once it is freed. `NodesFrom` is the set of nodes a walk along `next` meets.
  `raced`, `job`'s `front` and the client in each removal tuple are history. Its
  `Service` is `SseBroadcast` seen through a mapping: a bucket's subscribers are the
  clients it lists that are not dead (`Listeners`), a message is published to it when
  a broadcast takes its mutex (`Visited`), and a client's stream is what it has been
  sent plus what the walk now in its bucket has yet to bring it (`Due`).
* `CServer` is `c/server.c`: `accept` and `addAccepted` are the loop of `main()`;
  `mainWaits` to `countClient` that of `main_thread`; `sseStarts` to `sseSleeps`
  `sse_thread`. `file` is the descriptor table: `close` frees a number and its
  registrations, `accept` takes the lowest free one. `efd` is edge triggered
  (`edge` holds the events no `epoll_wait` has returned), `epollfd` level
  triggered (events are computed from the state of the sockets). A step is one
  system call or one access to a counter, except that `getnumclients` is one step
  (its comment says why that loses nothing) and that a read, its answer and the
  call after it are one: no other thread can tell them apart. `Event` remembers
  the connection an event was reported for (history).
* `GoBroker` is `go/server.go`: `Open` to `Unsubscribe` are the goroutine of a
  client, `wake` to `rangeEnds` the publisher. A write to the map takes two steps
  so that others can fall in between; `touchMap` is the runtime's check.
  `Behave` is the client: it may stop reading, read on or go.
* `CppHttp` is `c++/http_handler.cpp`: a step is one completion of
  `async_read_some` with every call it makes. A request is where its header ends,
  how many characters follow and how many it announces; `got` counts the
  characters in `_buffer`, `remaining` is `remaining_size`. `do_read_header`,
  `do_handle_request`, `readBody` and `do_read_body` keep the code's comparisons
  (`>=` on the header's limit, `<=` on what remains, the size of the last read).
  `stoiThrows` ends the process, since nothing catches the exception.
* `HttpKit` is `clojure-http-kit/src/sse_server/core.clj`. The atom is `hub`;
  `Open`, `handle_sse` (join, `on-close`, and its check) and `Close` are the steps
  of a channel, in two threads; `derefHub`, `sendNext` and `finish` those of a
  broadcast, any number of which run at once. Of the library it models what the
  code relies on: `send!` to a closed channel does nothing, and `on-close` runs
  its callback at once if the channel is closed.
* `Reporter` is `stats-reporter/report.js`: one callback per step, and the server's
  part as the numbers of messages on their way (`posts`, `inbox`). `current` is the
  timer `timeoutId` names, `orphans` are those whose id was overwritten.
* `Bench` is `bench/bench.js`: runs as processes that share `results.json`. One
  callback per step, except that the report takes a step for each access to the
  file: `readResults`, `emptyFile` (the open of `writeFileSync` truncates),
  `writeFile`. A row is the numbers of samples its statistics are computed from.
* `MCNodeServer`, `MCCppServer`, `MCCppHttp`, `MCCServer`, `MCGoBroker`,
  `MCHttpKit` and `MCBench` give the constants their values (`Reporter` needs none).
* `NodeServerProofs`, `CServerProofs`, `CppHttpProofs`, `GoBrokerProofs`,
  `CppServerProofs`, `HttpKitProofs`, `ReporterProofs` and `BenchProofs` hold the theorems about the
  module each is named for.

The modules share no variables, since the programs share no memory: what one needs
of another is the service of `SseBroadcast`. `CppHttp` and `CppServer` divide one
program at `broadcast`: the first says what is handed to it and how often, the
second what becomes of it.

## Runs

| Run | Instance | What it shows |
|---|---|---|
| `node` | one worker, three connections (one sends any of ten requests, among them `GET /sse123`, one subscribes, one subscribes or posts), chunks ending after 9, 12, 18, 22, 25, 26 or 28 characters or at the end | `CountIsOpenStreams`, `RegistryExact`, `AnsweredOnce`, `RoutedByRules`, `EveryRequestAnswered`, and `ImplementsService`: the process implements `SseBroadcast` |
| `node_cluster` | two workers, a publisher and a subscriber | violates `BroadcastReachesAllClients` (README rule 4) |
| `cpp` | two threads, one bucket, two clients, three broadcasts, two addresses | `ListsSound`, `SameOrderInBucket`, `CountExactUnlessRaced`, and `OnlyStaleTuplesHarm`: a crash or the removal of a live client needs a tuple whose node another broadcast has freed |
| `cpp_buckets` | two threads, two buckets, two clients, two broadcasts | `ImplementsService`: each bucket implements `SseBroadcast`, a broadcast taking effect when it takes the mutex; and, with fair threads, `BroadcastTerminates` |
| `cpp_http` | two connections; chunks of 3 and 2, limits of 4 and 5; headers of 2, 4, 6; bodies of 0, 2, 5, 7; a length that is missing, malformed, -1, 0, 2, 3, 5 or 6 | `BodyWhole` (what is broadcast is what was announced), `BufferBounded`, `AnswersOnce`, and with fair reads `RequestAnswered` |
| `c` | two descriptors, one sse thread, two clients: one opens a stream, asks for the count or posts, one opens a stream; both may cut the request in two, close and reset | `EventsCurrent` (no thread acts on somebody else's descriptor), `PassedOnForGood`, `CountExactUnlessRaced`, and with fair threads `StreamsReclaimed` |
| `c_del` | one descriptor, one sse thread, two clients of `/sse` | violates `EveryRequestAnswered`: the late `EPOLL_CTL_DEL` hits the next connection |
| `go` | two clients, channels of two messages, three ticks | `NoGaps`, and with fair goroutines `DepartedForgotten` and `DeliveredUnlessFull` |
| `go_stuck` | two clients, channels of one message, two ticks | violates `TicksReachReaders`: a client leaves with its channel full and the publisher waits for ever |
| `httpkit` | two clients, one POST, two ticks | `HubSettles`, `OnceEach`, and with fair threads `ClosedForgotten` |
| `reporter` | two probes, two messages of others, two errors of the shared stream | `ChainsAccounted`, `CallbackAwaited`, and with fair callbacks `ProbeEnds` |
| `bench` | two runs over one file with any of five command lines, two probes in flight, three samples, one error, one message | `RowsComplete`, `ResultsKept`, and with fair timers `RunEnds` |

Every passing run also checks its module's `TypeOK` (`cpp` leaves it to
`cpp_buckets`).

Why the bounds are enough. Three connections give a hole left by one client
between others, a broadcast with two listeners, and a POST beside them; the cuts
leave of a request line everything the parser tells apart (all of it, with the line
feed alone in the second chunk or not; a part of the path, also one that is another
route, as /sse of /sse123; a part of the method; nothing) and fall before the blank
line and in the body. Requests of one
connection do not interact, since the server never answers a second one on it.
For `CppServer` two threads make any two handlers overlap; a third broadcast lets
one free, one reuse an address and one still remember it; two clients are the
least that make a removal from the middle of a list; two buckets make overlapping
scans cross. For `CServer` two connections are one that is passed on and one that
takes its number or waits beside it; two descriptors let events of both be in one
batch. One sse thread is enough for every race, since an sse thread meets only
`main_thread`, `main()` and the clients; `CServerProofs` covers any number.
`Garbage` is one arbitrary value of the counter nobody has set. For `GoBroker` a channel of two messages is sometimes
neither empty nor full, and three ticks fill it; the code's 50 only makes that
take longer. In `CppHttp` the chunks are smaller than the limits and no limit is a
multiple of its chunk, so a read may end before, at and after each limit; there is
a header below, at and above the limit, and a body shorter than, equal to and longer
than a length. For `HttpKit` two clients and three broadcasts, of which the POST
overlaps either tick, put a join, a close and a second message between any two
steps of one walk. For `Reporter` the second probe overtakes the first or follows
it, an error comes before and after each, and two foreign messages make timers
overwrite each other twice. For `Bench` two runs follow or overlap each other or
are killed at any access to the file; three samples leave a probe in flight when
the report of two is printed. Deadlock checking is off because every instance has a finite number
of clients and messages and stops when they are used up.

## Fairness

`NodeServer!Fairness`: data the client has sent is read eventually (libuv polls
every socket). Clients are not obliged to close, and crashes are never forced.
`CppServer!Fairness`: the thread that runs a broadcast runs on, and a mutex that
is free for ever is taken. Nothing is assumed about clients, pushes or writes.
`CServer!Fairness`: every thread runs, and what is sent to a client that has
gone draws a reset. Clients are not obliged to send or to close.
`GoBroker!Fairness`: every goroutine that can run does (the Go scheduler), and,
since `select` picks among ready cases at random, strong fairness of the close
notification. Clients may stall for ever.
`CppHttp!FairSpec`: what a client has sent is read. Nobody need close.
`HttpKit!Fairness`: a handler or a close callback that has begun goes on. No client
need come or go; `ClosedForgotten` needs nothing of broadcasts.
`Reporter!Fairness`: the event loop runs every callback that is due and every timer
fires; the server accepts, answers and broadcasts. Nothing need fail.
`Bench!Fairness`: timers fire, synchronous code runs on, and the server answers a
probe unless it fails it.

## Proofs

`THEOREM XCorrect == Spec => []X`, for every value of the constants that meets the
module's assumption. The assumptions only say that bounds are numbers, sizes of
chunks and pools positive, and `NULL` and the like none of the other values;
`NodeAssumption` also that the connections are finite, `CppAssumption` that the
addresses are.

Of the liveness properties, which are left to TLC, the part that is about states is
proved: the last two columns belong together.

| Module | Proved | Left to TLC | Its safety core, proved |
|---|---|---|---|
| `NodeServerProofs` | `TypeOK`, `CountIsOpenStreams`, `RegistryExact`, `AnsweredOnce`, `RoutedByRules`, and `Spec => ImplementsService` | `EveryRequestAnswered` | `NeverStuck` |
| `CppServerProofs` | `TypeOK`, `ListsSound`, `OnlyStaleTuplesHarm`, `CountExactUnlessRaced`, `ScanReachesBucket` (by no run), `SameOrderInBucket`, and `Spec => ImplementsService` | `BroadcastTerminates` | `NoLockCycle` |
| `CServerProofs` | `TypeOK`, `EventsCurrent`, `PassedOnForGood`, `CountExactUnlessRaced` | `StreamsReclaimed` | `NeverUnwatched` |
| `CppHttpProofs` | `TypeOK`, `BodyWhole`, `BufferBounded`, `AnswersOnce` | `RequestAnswered` | `NeverStuck` |
| `GoBrokerProofs` | `TypeOK`, `NoGaps` | `DepartedForgotten`, `DeliveredUnlessFull` | `MapCorrect` (of the first) |
| `HttpKitProofs` | `TypeOK`, `HubSettles`, `OnceEach` | `ClosedForgotten` | `NeverBackCorrect` |
| `ReporterProofs` | `TypeOK`, `ChainsAccounted`, `CallbackAwaited` | `ProbeEnds` | `NeverForgotten` |
| `BenchProofs` | `TypeOK`, `RowsComplete`, `ResultsKept` | `RunEnds` | `NeverPastReport` |

None of these is inductive alone; each module proves an `IInv` preserved, action by
action, and derives the properties from it.

* `NodeServer`: what a connection that was never accepted looks like (`Accepted`),
  which states an answered connection may be in (`Answers`), that a POST still being
  read has not reached the end its answer needs (`BodyBehind`), that a nonzero `slot`
  is the place of its own connection in the array of its own worker (`SlotOwned`),
  that every other place is a hole (`HoleOrOwner`), and that a connection that is not
  an event stream has received no message (`Unheard`). `CountIsOpenStreams` follows
  from the effect of each action on `OpenStreams`, the refinement from
  `Listed = OpenStreams`. `RoutedByRules` needs that who still reads the
  first line has not seen its end, and that who reads a body has a POST (`LineRead`);
  it is proved for words of any length and any prefixes, from what `HeaderChars` leaves
  of a line: the path whole (`HeaderWhole`), or a proper prefix of it (`RouteCut`).
* `CppServer`: the listed nodes make up lists (`Lists`): what a node points to is a
  node of its bucket, nothing else points there, `next` descends along some ranking,
  and the head's walk meets the whole bucket. No induction over walks is needed: a
  walk is the least set closed under `next`, so each fact about it is shown by naming
  a closed set. Every broadcast holds the mutex of the bucket it works on (`LocksOK`)
  and stands on one of its nodes (`IteratorsOK`), so that while it scans the bucket
  only grows at its head (`Kept`). On these rest four more invariants: a tuple is of
  a dead client and finds its node unless that was freed (`TuplesOK`); the count is
  short of the nodes pushed and not counted, and has those removed and not counted
  out (`CountOK`); what a scan has passed has its message or belongs to the dead
  (`ScansOK`); and a message is in a bucket's streams only once its broadcast has
  taken the bucket, as the last of each while it holds it (`OrdersOK`). The
  refinement adds that at most one broadcast owes a client a message, so that `Due`
  is the stream plus one. Taking a bucket appends to every `Due` of its listeners,
  sending moves a message from what is owed to the stream, and a death or a removal
  takes back what was owed; every other step leaves `Due` alone and stutters.
* `CServer`: two descriptors never stand for one connection (`Sockets`); a
  descriptor in use has one owner, `main()`, then `main_thread`, then one sse
  thread, except between `EPOLL_CTL_ADD` and `EPOLL_CTL_DEL` (`Roles`); a thread holds
  events of its own descriptors only, one of each (`Held`), so that a close by one
  thread cannot make stale what another holds; and a counter differs from the size of
  its set by the update that is under way (`Counted`), unless two have overlapped.
* `CppHttp`: while a body is read, what has been got and what remains add up to what
  was announced (`Reading`).
* `GoBroker`: where the handler of a client is (`Served`), that the publisher never
  comes to a channel twice in a tick (`Ranging`), and that a client has the present
  tick if the publisher has been there and else the one before (`Progress`).
* `HttpKit`: where a channel is in its handler and its close (`Joined`); what a
  broadcast has yet to reach it has not sent to (`Sent`).
* `Reporter`: a probe owns the callback only once its own stream is closed
  (`Probed`); the stream is opened at most once more than it failed (`Opened`,
  `Stopped`); chains are counted in every state of the stream (`Counted`).
* `Bench`: what is in the file, and what a run is about to write, is a good table
  (`TablesGood`), a run reports with exactly its samples (`ReportsInFull`), and until
  two runs meet there the file belongs to the one that is about to write
  (`FileOwned`).

A safety core says that progress cannot get stuck in a state: what a request, a
broadcast, a stream or a probe waits for is there or still to come. What remains of
the liveness property is that a fair step is taken and that a finite quantity
decreases. For `NodeServer` and `CppHttp` it is that characters are left to read
(`UnansweredWaits`, `ReadsWhatComes`); for `CppServer` that who waits for a mutex
holds none (`WaitersHoldNone`); for `CServer` that a stream is in the epoll set of
its thread (`StreamsWatched`); for `GoBroker` that the map is the clients being
served (`MapExact`); for `HttpKit` that nothing comes back to the hub (`NeverBack`);
for `Reporter` that a broadcast is to come (`MessageToCome`); for `Bench` that the
report's number of samples is still ahead (`ReportNotMissed`).

Only model-checked: what the third column leaves to TLC. All of it is liveness: the
prover does not reason about fairness and `ENABLED`.

## What the code does not do

The violation runs and the other findings in `PROJECT.json` are disagreements
between the code and what the repository says of it.

* Servers: a broadcast in a cluster misses other workers' clients; a request line in
  two chunks loses its end in node.js, which refuses the request or takes it for that
  of another route (`GET /sse123`, cut after its path, opens an event stream); a POST
  without a `Content-Length` is answered 202 by C++, which drops its body and
  broadcasts an empty message, where the rules ask for a 411; C++'s `remove`, under its lock, may still
  dereference `nullptr`, and a `Content-Length` that `stoi` rejects ends the C++
  process; the C server can lose a new connection to a late `EPOLL_CTL_DEL`; one
  departing client can silence the Go server, whose unlocked map can also end it; a
  POST whose body has a multi-byte character is never answered by node.js, and none
  is broadcast by C or Go; `OPTIONS` of any path is a 204; the PHP server removes the
  wrong client.
* Clients: a probe that cannot open its stream ends the reporter, because its error
  handler reads an undeclared variable; each message somebody else broadcasts adds a
  broadcast per second to the reporter's own for ever, and one that is lost ends a
  chain for ever; a benchmark counts answered probes, so it runs on by one interval
  for each failed one, and for ever if its duration is no multiple of its interval.

What a property has to except is in the property: `RoutedByRules` allows a line cut in
two the status of any proper prefix of its path, and names the cuts that lead to it;
`RequestAnswered` speaks of headers within the limit (a longer one is dropped without
an answer); `BodyWhole` of requests with a `Content-Length`, and allows what comes with
the end of the header (it is broadcast even beyond the length announced); `AnswersOnce`
says nothing of which 202 should have been a 411; `CountExactUnlessRaced` excuses the
updates that overlap, `ProbeEnds` the callback that is overwritten and the crash,
`ResultsKept` runs that are at the file together or killed there, and a crash of a
node.js worker or of the Go server excuses what was promised to its clients. Those
outcomes are listed as hazards or findings: the properties show that nothing else
goes wrong.

## Not modelled

* Header text, status wording, arguments, logging, and how the C++ parser finds a
  method, a path and the headers.
* Bytes on the wire: a message counts as sent when `write` or `async_write` is called,
  so the lifetime of the buffer C++ hands to `async_write` and overlapping writes on
  one socket are only listed as hazards.
* Requests that are not well formed (a word missing from the request line, lines
  without CR), and in node.js methods other than POST that begin with it (`Request`).
* In C: the pool's write past its end, `cleanup()`, `main_thread` spinning before
  `efd` is set, and the limits on the events of one `epoll_wait` (the model's returns
  all there are). In Go: what an overlap on the map does when the runtime does not
  notice it, beyond the serial outcomes. In C++: `interval.hpp`, a timer whose
  broadcast `CppServer` allows at any time, and what the relaxed loads of `_head`
  permit beyond sequential consistency.
* In the clients: an error of a broadcast's socket once its POST has been answered,
  the arithmetic of the statistics, the printed table, and the POST of the statistics
  to an endpoint. In http-kit: the number in the answer to a POST, and the size of the
  pool of workers (handlers do not wait for one another).
* The Python, PHP, Ruby and Nim servers: a single event loop each, whose steps are
  callbacks of a library outside `src/`, so that their models would rest on the
  library's order of callbacks more than on this code. The Erlang server: processes
  that share nothing. Their hazards are listed, PHP's wrong index as a finding.
* `test.js`, which is a client; vendored code, lock files and compiled binaries.

## Plan

1. `SseBroadcast`, `NodeServer`, `CppServer`, `CServer`, `GoBroker`, then `CppHttp`,
   `HttpKit`, `Reporter`, `Bench`, with proofs of their safety properties, of the two
   refinements and of the safety cores of their liveness properties (done).
2. `LoopServers`, one module for the single-threaded servers with a parameter for the
   key their registry uses, against `SseBroadcast`.
