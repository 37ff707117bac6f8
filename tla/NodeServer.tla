----------------------------- MODULE NodeServer -----------------------------
(***************************************************************************)
(* node.js/server.js: the sample implementation, one event loop per worker *)
(* process (one worker without --cluster).  A step is one socket event,    *)
(* which JavaScript runs to completion.                                    *)
(*                                                                         *)
(* A request is a run of characters that TCP delivers in chunks of any     *)
(* size: the request line, character by character since the code slices it *)
(* so (method, space, path, space, version, CR, LF); the headers up to the *)
(* blank line, which count as one; and the body.                           *)
(***************************************************************************)
EXTENDS Integers, Sequences, FiniteSets

CONSTANTS Workers,  \* the forked processes; connections are spread over them
          Conns,    \* client connections, each carrying one request
          Requests, \* connection -> the requests its client may send
          Cuts,     \* bound: where a chunk may end, besides a request's end
          Chars(_), \* word -> the number of its characters
          Prefix(_, _), \* word, n -> its first n characters, 0 < n < Chars(word)
          NULL      \* JavaScript's null and undefined, and the empty string

Word == {s \in STRING : Chars(s) \in Nat \ {0}}

\* length is the Content-Length, if any, in bytes; body is in characters.  No
\* method but POST begins with it.
Request ==
  {r \in [method: Word, path: Word, length: Nat \cup {NULL}, body: Nat] :
     \A n \in 1..(Chars(r.method) - 1) : Prefix(r.method, n) # "POST"}

ASSUME NodeAssumption ==
  /\ IsFiniteSet(Conns)
  /\ NULL \notin Conns
  /\ NULL \notin Workers
  /\ NULL \notin STRING
  /\ NULL # "POST"        \* said apart: provers do not know literals' types
  /\ NULL \notin Nat
  /\ Cuts \subseteq Nat
  /\ \A c \in Conns : Requests[c] \subseteq Request

VARIABLES
  up,         \* worker -> is the process alive?
  worker,     \* connection -> the worker that accepted it
  request,    \* connection -> the request its client sends
  sock,       \* "none", "open", "ended" (server called end()) or "closed"
  arrived,    \* connection -> characters in its `buffer'
  reading,    \* "line", "post" (header parsed) or "off" (listener removed)
  clients,    \* worker -> the array `clients', holes included
  numClients, \* worker -> the counter /connections reports
  slot,       \* connection -> 1 + the index its removeClient closed over, or 0
  response,   \* connection -> statuses the server wrote to it, oldest first
  stream      \* connection -> messages written to it; a message is named by
              \* the connection that posted it

connVars == <<worker, request>>
registry == <<clients, numClients, slot>>
vars == <<up, worker, request, sock, arrived, reading, clients, numClients,
          slot, response, stream>>

Version == 8      \* HTTP/1.x

\* Characters up to and including the line feed of the request line, the blank
\* line after the headers, and the body
LF(r) == Chars(r.method) + 1 + Chars(r.path) + 1 + Version + 2
HeadersEnd(r) == LF(r) + 1
Size(r) == HeadersEnd(r) + r.body

Init ==
  /\ up = [w \in Workers |-> TRUE]
  /\ worker = [c \in Conns |-> NULL]
  /\ request = [c \in Conns |-> NULL]
  /\ sock = [c \in Conns |-> "none"]
  /\ arrived = [c \in Conns |-> 0]
  /\ reading = [c \in Conns |-> "line"]
  /\ clients = [w \in Workers |-> <<>>]
  /\ numClients = [w \in Workers |-> 0]
  /\ slot = [c \in Conns |-> 0]
  /\ response = [c \in Conns |-> <<>>]
  /\ stream = [c \in Conns |-> <<>>]

----------------------------------------------------------------------------
(* Parsing                                                                 *)

\* Mutant of HeaderChars: slice(0, i - 2)
HeaderOneShort(r, before, now) ==
  IF before = LF(r) - 1 THEN now - 2 ELSE LF(r) - 3 - before

\* The length of buffer.slice(0, i - 1), where i is the line feed's index in the
\* CHUNK while buffer also holds the `before' characters of earlier chunks: a
\* line in two pieces loses as many at its end.  slice(0, -1), when i is 0, is
\* all of buffer but its last character.
HeaderChars(r, before, now) ==
  IF before = LF(r) - 1 THEN now - 1 ELSE LF(r) - 2 - before

Cut(word, n) ==
  IF n <= 0 THEN NULL ELSE IF n < Chars(word) THEN Prefix(word, n) ELSE word

\* parts[0] and parts[1] of a header of n characters
MethodIn(r, n) == Cut(r.method, n)
PathIn(r, n) == Cut(r.path, n - Chars(r.method) - 1)

\* The branch handleRequest takes, named by the status it writes; "stream" is
\* the 200 of an event stream, "count" the 200 of /connections.
Route(method, path) ==
  IF method = NULL \/ path = NULL THEN "400"
  ELSE IF method = "OPTIONS" THEN "204"
  ELSE IF method = "POST" /\ path = "/broadcast" THEN "202"
  ELSE IF path = "/connections" THEN "count"
  ELSE IF path = "/sse" THEN "stream"
  ELSE "404"

----------------------------------------------------------------------------
(* Handlers                                                                *)

writeHead(c, status) ==
  response' = [response EXCEPT ![c] = Append(@, status)]

\* Every reply but the event stream ends with res.end().
reply(c, status) ==
  /\ writeHead(c, status)
  /\ sock' = [sock EXCEPT ![c] = "ended"]
  /\ UNCHANGED registry

\* Mutants of initSseClient: numClients++ forgotten; push() used as the index
initUncounted(c) ==
  LET w == worker[c] IN
  /\ writeHead(c, "stream")
  /\ clients' = [clients EXCEPT ![w] = Append(@, c)]
  /\ slot' = [slot EXCEPT ![c] = Len(clients[w]) + 1]
  /\ UNCHANGED <<sock, stream, numClients>>
initPushIndex(c) ==
  LET w == worker[c] IN
  /\ writeHead(c, "stream")
  /\ clients' = [clients EXCEPT ![w] = Append(@, c)]
  /\ numClients' = [numClients EXCEPT ![w] = @ + 1]
  /\ slot' = [slot EXCEPT ![c] = Len(clients[w]) + 2]
  /\ UNCHANGED <<sock, stream>>

initSseClient(c) ==
  LET w == worker[c] IN
  /\ writeHead(c, "stream")
  /\ clients' = [clients EXCEPT ![w] = Append(@, c)]
  /\ numClients' = [numClients EXCEPT ![w] = @ + 1]
  /\ slot' = [slot EXCEPT ![c] = Len(clients[w]) + 1]
  /\ UNCHANGED <<sock, stream>>

\* Mutant of Listed: while (--i)
ListedButFirst(w) == {clients[w][i] : i \in 2..Len(clients[w])} \ {NULL}

\* The connections the while loop of broadcast writes to
Listed(w) == {clients[w][i] : i \in 1..Len(clients[w])} \ {NULL}

broadcast(c) ==
  stream' = [d \in Conns |-> IF d \in Listed(worker[c]) THEN Append(stream[d], c)
                                                        ELSE stream[d]]

handleRequest(c, status) ==
  \/ /\ status = "202"
     /\ broadcast(c)
     /\ reply(c, status)
  \/ /\ status = "stream"
     /\ initSseClient(c)
  \/ /\ status \notin {"202", "stream"}
     /\ reply(c, status)
     /\ UNCHANGED stream

\* Mutants of BodyComplete: < where the code has !==, and a bodyOffset that
\* stops one short.
BodyAtLeast(r, now) == now - HeadersEnd(r) >= r.length
BodyOffByOne(r, now) == now - HeadersEnd(r) + 1 = r.length

\* buffer counts characters, Content-Length (r.length) counts bytes.
BodyComplete(r, now) == now - HeadersEnd(r) = r.length

\* `now' characters are in the buffer.  Nothing removes the data listener here, so
\* this runs again on every later chunk of the connection.
handlePostRequest(c, now) ==
  LET r == request[c] IN
  \/ /\ \/ now < HeadersEnd(r)
        \/ r.length # NULL /\ ~BodyComplete(r, now)
     /\ UNCHANGED <<sock, response, stream>>
     /\ UNCHANGED registry
  \/ /\ now >= HeadersEnd(r)
     /\ r.length = NULL
     /\ writeHead(c, "411")
     /\ sock' = [sock EXCEPT ![c] = "closed"]
     /\ UNCHANGED stream
     /\ UNCHANGED registry
  \/ /\ now >= HeadersEnd(r)
     /\ r.length # NULL
     /\ BodyComplete(r, now)
     /\ handleRequest(c, Route(r.method, r.path))

\* One 'data' event, after which the buffer holds `now' characters.
onData(c, now) ==
  LET r == request[c]
      n == HeaderChars(r, arrived[c], now)
      post == MethodIn(r, n) = "POST"
  IN
  \/ /\ reading[c] = "line"
     /\ now < LF(r)
     /\ handlePostRequest(c, now)
     /\ UNCHANGED reading
  \/ /\ reading[c] = "line"
     /\ now >= LF(r)
     /\ ~post
     /\ reading' = [reading EXCEPT ![c] = "off"]
     /\ handleRequest(c, Route(MethodIn(r, n), PathIn(r, n)))
  \/ /\ reading[c] = "line"
     /\ now >= LF(r)
     /\ post
     /\ reading' = [reading EXCEPT ![c] = "post"]
     /\ handlePostRequest(c, now)
  \/ /\ reading[c] = "post"
     /\ handlePostRequest(c, now)
     /\ UNCHANGED reading

parseData(c) ==
  /\ sock[c] \in {"open", "ended"}
  /\ up[worker[c]]
  /\ reading[c] # "off"
  /\ \E now \in (arrived[c] + 1)..Size(request[c]) :
       /\ now \in Cuts \cup {Size(request[c])}
       /\ arrived' = [arrived EXCEPT ![c] = now]
       /\ onData(c, now)
  /\ UNCHANGED connVars
  /\ UNCHANGED up

Connect(c, w, r) ==
  /\ sock[c] = "none"
  /\ up[w]
  /\ sock' = [sock EXCEPT ![c] = "open"]
  /\ worker' = [worker EXCEPT ![c] = w]
  /\ request' = [request EXCEPT ![c] = r]
  /\ UNCHANGED <<up, arrived, reading, response, stream>>
  /\ UNCHANGED registry

\* Mutant of removeClient: numClients-- forgotten
removeUncounted(c) ==
  /\ clients' = [clients EXCEPT ![worker[c]] = [@ EXCEPT ![slot[c]] = NULL]]
  /\ slot' = [slot EXCEPT ![c] = 0]
  /\ UNCHANGED numClients

\* The 'end' event of an event stream: the slot is nulled, never reused.
removeClient(c) ==
  /\ clients' = [clients EXCEPT ![worker[c]] = [@ EXCEPT ![slot[c]] = NULL]]
  /\ numClients' = [numClients EXCEPT ![worker[c]] = @ - 1]
  /\ slot' = [slot EXCEPT ![c] = 0]

\* The client closes its side.  Only an event stream has an 'end' listener;
\* allowHalfOpen is false, so the server's side closes with it.
End(c) ==
  /\ sock[c] \in {"open", "ended"}
  /\ up[worker[c]]
  /\ sock' = [sock EXCEPT ![c] = "closed"]
  /\ \/ slot[c] # 0 /\ removeClient(c)
     \/ slot[c] = 0 /\ UNCHANGED registry
  /\ UNCHANGED connVars
  /\ UNCHANGED <<up, arrived, reading, response, stream>>

\* The client resets.  No socket has an 'error' listener, so the exception is
\* uncaught: the process dies with all its connections and is not replaced.
Reset(c) ==
  LET w == worker[c]
      dead == {d \in Conns : worker[d] = w}
  IN
  /\ sock[c] \in {"open", "ended"}
  /\ up[w]
  /\ up' = [up EXCEPT ![w] = FALSE]
  /\ sock' = [d \in Conns |-> IF d \in dead THEN "closed" ELSE sock[d]]
  /\ slot' = [d \in Conns |-> IF d \in dead THEN 0 ELSE slot[d]]
  /\ clients' = [clients EXCEPT ![w] = <<>>]
  /\ numClients' = [numClients EXCEPT ![w] = 0]
  /\ UNCHANGED connVars
  /\ UNCHANGED <<arrived, reading, response, stream>>

Next == \E c \in Conns :
          \/ \E w \in Workers, r \in Requests[c] : Connect(c, w, r)
          \/ parseData(c)
          \/ End(c)
          \/ Reset(c)

Spec == Init /\ [][Next]_vars

\* libuv polls every socket, and TCP delivers what a client sends while both
\* ends stay up: a chunk that can be read is read.
Fairness == \A c \in Conns : WF_vars(parseData(c))
FairSpec == Spec /\ Fairness

----------------------------------------------------------------------------
(* Properties                                                              *)

Statuses == {"204", "400", "404", "411", "202", "count", "stream"}

\* Every variable keeps its shape; in particular numClients, which any number
\* of connects and disconnects moves up and down, never goes below zero.
TypeOK ==
  /\ up \in [Workers -> BOOLEAN]
  /\ worker \in [Conns -> Workers \cup {NULL}]
  /\ request \in [Conns -> Request \cup {NULL}]
  /\ sock \in [Conns -> {"none", "open", "ended", "closed"}]
  /\ arrived \in [Conns -> Nat]
  /\ reading \in [Conns -> {"line", "post", "off"}]
  /\ clients \in [Workers -> Seq(Conns \cup {NULL})]
  /\ numClients \in [Workers -> Nat]
  /\ slot \in [Conns -> Nat]
  /\ response \in [Conns -> Seq(Statuses)]
  /\ stream \in [Conns -> Seq(Conns)]

\* The event streams of worker w that are open
OpenStreams(w) ==
  {c \in Conns : worker[c] = w /\ sock[c] = "open" /\ response[c] = <<"stream">>}

\* /connections reports numClients: it is the number of event streams the
\* process has open, through any order of connects, closes and crashes.
CountIsOpenStreams ==
  \A w \in Workers : numClients[w] = Cardinality(OpenStreams(w))

\* The index removeClient captured still names its own connection however many
\* joined and left since: every open stream sits in exactly one slot of its
\* worker's array, and no slot holds a stream that is gone.
RegistryExact ==
  \A w \in Workers :
    /\ \A c \in OpenStreams(w) :
         {i \in DOMAIN clients[w] : clients[w][i] = c} = {slot[c]}
    /\ Listed(w) \subseteq OpenStreams(w)

\* The data listener of a POST survives its answer, yet later chunks never make
\* the server answer, or broadcast, a second time.
AnsweredOnce == \A c \in Conns : Len(response[c]) <= 1

\* README.md, Rules: the status each request asks for
RuleStatus(r) ==
  IF r.method = "OPTIONS" /\ r.path \in {"/connections", "/sse"} THEN "204"
  ELSE IF r.method = "POST" /\ r.path = "/broadcast" THEN "202"
  ELSE IF r.path = "/connections" THEN "count"
  ELSE IF r.path = "/sse" THEN "stream"
  ELSE "404"

\* What a request gets that lost its line's end: the status of a prefix of its
\* path, which may be another route's (/sse of GET /sse123), or 400 for none.
StatusesOfPrefixes(r) ==
  IF r.method = "POST" THEN {"400"}
  ELSE {Route(r.method, Cut(r.path, n)) : n \in 0..(Chars(r.path) - 1)}

\* A request gets the status of the README's rules, however it is cut into
\* chunks, except: OPTIONS elsewhere (204 too), a POST without a length (411),
\* and a request line in two chunks of which the first is longer than version
\* and space, and the second more than the line feed.  Even such a line never
\* makes the server broadcast.
RoutedByRules ==
  [][\A c \in Conns : response'[c] # response[c] =>
       LET r == request[c]
           status == response'[c][Len(response'[c])]
       IN \/ status = RuleStatus(r)
          \/ status = "204" /\ r.method = "OPTIONS"
          \/ status = "411" /\ r.method = "POST" /\ r.length = NULL
          \/ /\ status \in StatusesOfPrefixes(r)
             /\ reading[c] = "line"
             /\ arrived[c] \in (Version + 2)..(LF(r) - 2)]_vars

\* The registry, its holes and the loop over them implement the README's atomic
\* broadcast within each worker: every message goes to exactly the streams open
\* at that moment, once, in the same order for all of them.
Service == INSTANCE SseBroadcast WITH
  Groups <- Workers, Clients <- Conns, Messages <- Conns, AtOnce <- TRUE,
  subscribers <- [w \in Workers |-> OpenStreams(w)],
  streams <- stream,
  published <- [w \in Workers |->
                  {c \in Conns : worker[c] = w /\ response[c] = <<"202">>}]
ImplementsService == Service!Spec

\* Content-Length counts bytes and buffer.length characters: a POST is answered
\* for sure when the two agree and nothing follows the body.
Answerable(r) == r.method # "POST" \/ r.length \in {NULL, r.body}

\* However its chunks arrive, a request that is Answerable gets an answer
\* unless the connection or its worker is lost first.
EveryRequestAnswered ==
  \A c \in Conns :
    (sock[c] = "open" /\ Answerable(request[c]))
      ~> (response[c] # <<>> \/ sock[c] = "closed")

----------------------------------------------------------------------------
(* A claim of the README that the code does not keep                       *)

\* README.md rule 4: a POST to /broadcast reaches all clients of the server,
\* whichever process of a cluster they are connected to.
BroadcastReachesAllClients ==
  [][\A c \in Conns : response[c] = <<>> /\ response'[c] = <<"202">> =>
       \A d \in Conns : (\E w \in Workers : d \in OpenStreams(w)) =>
         stream'[d] = Append(stream[d], c)]_vars
=============================================================================
