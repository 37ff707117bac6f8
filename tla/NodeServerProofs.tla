-------------------------- MODULE NodeServerProofs --------------------------
(***************************************************************************)
(* Proofs about NodeServer for every set of workers and connections, every *)
(* population of requests and every way of cutting them into chunks.       *)
(***************************************************************************)
EXTENDS NodeServer, FiniteSetTheorems, SequenceTheorems, TLAPS

\* The variables' shapes, with the counter's sign left to be proved
Shapes ==
  /\ up \in [Workers -> BOOLEAN]
  /\ worker \in [Conns -> Workers \cup {NULL}]
  /\ request \in [Conns -> Request \cup {NULL}]
  /\ sock \in [Conns -> {"none", "open", "ended", "closed"}]
  /\ arrived \in [Conns -> Nat]
  /\ reading \in [Conns -> {"line", "post", "off"}]
  /\ clients \in [Workers -> Seq(Conns \cup {NULL})]
  /\ numClients \in [Workers -> Int]
  /\ slot \in [Conns -> Nat]
  /\ response \in [Conns -> Seq(Statuses)]
  /\ stream \in [Conns -> Seq(Conns)]

\* A socket that was accepted has its worker and request; one that was not has
\* no answer; a worker with a live socket is up.
Accepted ==
  \A c \in Conns :
    /\ sock[c] # "none" => worker[c] \in Workers /\ request[c] \in Request
    /\ sock[c] = "none" => response[c] = <<>> /\ worker[c] = NULL
    /\ sock[c] \in {"open", "ended"} => up[worker[c]]

\* What a socket's state and its reader's say of the answer it had
Answers ==
  \A c \in Conns :
    /\ response[c] = <<>> \/ \E status \in Statuses : response[c] = <<status>>
    /\ sock[c] = "open" => response[c] \in {<<>>, <<"stream">>}
    /\ sock[c] = "ended" => response[c] # <<>>
    /\ reading[c] = "line" => response[c] = <<>>

\* An answered POST that can still be read has all of its body behind it, so
\* no later chunk makes the lengths equal again.
BodyBehind ==
  \A c \in Conns :
    (reading[c] = "post" /\ response[c] # <<>> /\ sock[c] # "closed") =>
      /\ request[c].length \in Nat
      /\ arrived[c] >= HeadersEnd(request[c]) + request[c].length

\* slot is exactly the index of an open stream in its worker's array.
SlotOwned ==
  \A c \in Conns :
    /\ slot[c] # 0 <=> (sock[c] = "open" /\ response[c] = <<"stream">>)
    /\ slot[c] # 0 => /\ slot[c] \in DOMAIN clients[worker[c]]
                      /\ clients[worker[c]][slot[c]] = c

\* Every slot is a hole or holds the connection whose slot it is.
HoleOrOwner ==
  \A w \in Workers : \A i \in DOMAIN clients[w] :
    clients[w][i] # NULL =>
      /\ worker[clients[w][i]] = w
      /\ slot[clients[w][i]] = i

\* Only an event stream has been sent messages.
Unheard == \A c \in Conns : response[c] # <<"stream">> => stream[c] = <<>>

\* The inductive invariant
IInv == /\ Shapes
        /\ Accepted
        /\ Answers
        /\ BodyBehind
        /\ SlotOwned
        /\ HoleOrOwner
        /\ Unheard
        /\ CountIsOpenStreams

\* A request's parts, and the places in it that the code tells apart
LEMMA RequestParts ==
  ASSUME NEW r \in Request
  PROVE  /\ r.method \in STRING /\ r.path \in STRING
         /\ r.method # NULL /\ r.path # NULL
         /\ r.length \in Nat \cup {NULL} /\ r.body \in Nat
         /\ Chars(r.method) \in Nat \ {0} /\ Chars(r.path) \in Nat \ {0}
         /\ LF(r) = Chars(r.method) + Chars(r.path) + Version + 4
         /\ LF(r) \in Nat
         /\ HeadersEnd(r) = LF(r) + 1
         /\ Size(r) = HeadersEnd(r) + r.body
<1>1. r \in [method: Word, path: Word, length: Nat \cup {NULL}, body: Nat]
  BY DEF Request
<1>2. /\ r.method \in Word /\ r.path \in Word
      /\ r.length \in Nat \cup {NULL} /\ r.body \in Nat
  BY <1>1
<1> QED BY <1>2, NodeAssumption DEF Word, LF, HeadersEnd, Size, Version

\* An unanswered connection is not one that got a single status.
LEMMA NoAnswer == \A status : <<>> # <<status>>
OBVIOUS

\* The array and the slots agree: what RegistryExact says.
LEMMA IInvRegistry == IInv => RegistryExact
<1> SUFFICES ASSUME IInv PROVE RegistryExact
  OBVIOUS
<1> SUFFICES ASSUME NEW w \in Workers
             PROVE  /\ \A c \in OpenStreams(w) :
                         {i \in DOMAIN clients[w] : clients[w][i] = c} = {slot[c]}
                    /\ Listed(w) \subseteq OpenStreams(w)
  BY DEF RegistryExact
<1>1. ASSUME NEW c \in OpenStreams(w)
      PROVE  {i \in DOMAIN clients[w] : clients[w][i] = c} = {slot[c]}
  <2>1. c \in Conns /\ c # NULL /\ worker[c] = w /\ slot[c] # 0
    BY NodeAssumption DEF OpenStreams, IInv, SlotOwned
  <2>2. slot[c] \in DOMAIN clients[w] /\ clients[w][slot[c]] = c
    BY <2>1 DEF IInv, SlotOwned
  <2>3. \A i \in DOMAIN clients[w] : clients[w][i] = c => i = slot[c]
    BY <2>1 DEF IInv, HoleOrOwner
  <2> QED BY <2>2, <2>3
<1>2. ASSUME NEW c \in Listed(w) PROVE c \in OpenStreams(w)
  <2>1. PICK i \in DOMAIN clients[w] : clients[w][i] = c /\ c # NULL
    BY DEF Listed, IInv, Shapes
  <2>2. c \in Conns /\ i # 0
    BY <2>1 DEF IInv, Shapes
  <2>3. worker[c] = w /\ slot[c] = i
    BY <2>1 DEF IInv, HoleOrOwner
  <2> QED BY <2>2, <2>3 DEF IInv, SlotOwned, OpenStreams
<1> QED BY <1>1, <1>2

\* The loop of broadcast writes to exactly the open streams of the worker.
LEMMA ListedIsOpen ==
  ASSUME IInv, NEW w \in Workers
  PROVE  Listed(w) = OpenStreams(w)
<1> SUFFICES ASSUME NEW c \in OpenStreams(w) PROVE c \in Listed(w)
  BY IInvRegistry DEF RegistryExact
<1>1. /\ c # NULL /\ worker[c] = w
      /\ slot[c] \in DOMAIN clients[w] /\ clients[w][slot[c]] = c
  BY NodeAssumption DEF OpenStreams, IInv, SlotOwned
<1> QED BY <1>1 DEF Listed, IInv, Shapes

----------------------------------------------------------------------------
(* One 'data' event                                                        *)

\* The chunk changes nothing but the buffer and, on a POST's first line, the
\* reader.
Silent(c) ==
  /\ UNCHANGED <<sock, response, stream, clients, numClients, slot>>
  /\ reading'[c] = "line" => reading[c] = "line"
  /\ reading'[c] = "post" /\ reading[c] # "post" => reading[c] = "line"

\* The first answer on c, which ends or destroys the socket
Replies(c) ==
  /\ \E status \in Statuses \ {"stream"} :
       /\ response' = [response EXCEPT ![c] = <<status>>]
       /\ \/ status = "202" /\ broadcast(c)
          \/ status # "202" /\ UNCHANGED stream
  /\ \E state \in {"ended", "closed"} : sock' = [sock EXCEPT ![c] = state]
  /\ UNCHANGED <<clients, numClients, slot>>

\* The first answer on c, which opens an event stream
Joins(c) ==
  /\ response' = [response EXCEPT ![c] = <<"stream">>]
  /\ initSseClient(c)

\* After an answer the reader is off, or a POST whose whole body has arrived
BodyRead(c) ==
  /\ reading'[c] # "line"
  /\ reading'[c] = "post" /\ sock'[c] # "closed" =>
       /\ request[c].length \in Nat
       /\ arrived'[c] >= HeadersEnd(request[c]) + request[c].length

\* Every branch of handleRequest writes one of the statuses the server knows.
LEMMA RouteStatus == \A method, path : Route(method, path) \in Statuses
BY DEF Route, Statuses

\* handleRequest answers a connection that had no answer.
LEMMA HandleRequestEffect ==
  ASSUME IInv, NEW c \in Conns, sock[c] = "open", response[c] = <<>>,
         NEW status \in Statuses, handleRequest(c, status)
  PROVE  Replies(c) \/ Joins(c)
<1>1. response' = [response EXCEPT ![c] = <<status>>]
  BY DEF handleRequest, reply, writeHead, initSseClient, IInv, Shapes, Statuses
<1>2. CASE status = "202" /\ broadcast(c) /\ reply(c, status)
  BY <1>1, <1>2 DEF reply, registry, Replies
<1>3. CASE status = "stream" /\ initSseClient(c)
  BY <1>1, <1>3 DEF Joins
<1>4. CASE status \notin {"202", "stream"} /\ reply(c, status) /\ UNCHANGED stream
  BY <1>1, <1>4 DEF reply, registry, Replies, IInv, Shapes
<1> QED BY <1>2, <1>3, <1>4 DEF handleRequest

\* A chunk either leaves a connection's answer alone or gives its only one.
LEMMA ParseDataEffect ==
  ASSUME IInv, NEW c \in Conns, parseData(c)
  PROVE  /\ UNCHANGED <<up, worker, request>>
         /\ arrived' \in [Conns -> Nat]
         /\ \A d \in Conns : arrived'[d] >= arrived[d]
         /\ reading' \in [Conns -> {"line", "post", "off"}]
         /\ \A d \in Conns \ {c} : reading'[d] = reading[d]
         /\ sock[c] \in {"open", "ended"}
         /\ \/ Silent(c)
            \/ /\ sock[c] = "open"
               /\ response[c] = <<>>
               /\ BodyRead(c)
               /\ Replies(c) \/ Joins(c)
<1> DEFINE r == request[c]
<1>0. /\ sock[c] \in {"open", "ended"}
      /\ reading[c] # "off"
      /\ UNCHANGED <<up, worker, request>>
      /\ r \in Request
      /\ arrived[c] \in Nat
      /\ response[c] = <<>> => sock[c] = "open"
  BY DEF parseData, connVars, IInv, Accepted, Answers, Shapes
<1>1. PICK now \in (arrived[c] + 1)..Size(r) :
        /\ arrived' = [arrived EXCEPT ![c] = now]
        /\ onData(c, now)
  BY DEF parseData
<1>2. /\ now \in Nat
      /\ now > arrived[c]
      /\ arrived'[c] = now
      /\ arrived' \in [Conns -> Nat]
      /\ \A d \in Conns : arrived'[d] >= arrived[d]
  <2>1. Size(r) \in Nat
    BY <1>0, RequestParts
  <2>2. now \in Nat /\ now > arrived[c]
    BY <1>0, <2>1
  <2> QED BY <1>0, <1>1, <2>2 DEF IInv, Shapes
<1>3. /\ reading' \in [Conns -> {"line", "post", "off"}]
      /\ \A d \in Conns \ {c} : reading'[d] = reading[d]
  BY <1>1 DEF onData, IInv, Shapes
<1>4. ASSUME NEW m, NEW p, response[c] = <<>>, handleRequest(c, Route(m, p))
      PROVE  Replies(c) \/ Joins(c)
  BY <1>0, <1>4, RouteStatus, HandleRequestEffect
\* The POST handler while the connection has no answer
<1>5. ASSUME response[c] = <<>>, handlePostRequest(c, now)
      PROVE  \/ UNCHANGED <<sock, response, stream, clients, numClients, slot>>
             \/ sock'[c] = "closed" /\ now >= HeadersEnd(r) /\ Replies(c)
             \/ /\ r.length \in Nat
                /\ now >= HeadersEnd(r) + r.length
                /\ Replies(c) \/ Joins(c)
  <2>1. CASE UNCHANGED <<sock, response, stream>> /\ UNCHANGED registry
    BY <2>1 DEF registry
  <2>2. CASE /\ writeHead(c, "411") /\ now >= HeadersEnd(r)
             /\ sock' = [sock EXCEPT ![c] = "closed"]
             /\ UNCHANGED stream /\ UNCHANGED registry
    <3>1. response' = [response EXCEPT ![c] = <<"411">>]
      BY <1>5, <2>2 DEF writeHead, IInv, Shapes
    <3>2. sock'[c] = "closed"
      BY <2>2 DEF IInv, Shapes
    <3>3. Replies(c)
      <4>1. "411" \in Statuses \ {"stream"} /\ "411" # "202"
        BY DEF Statuses
      <4>2. UNCHANGED <<stream, clients, numClients, slot>>
        BY <2>2 DEF registry
      <4> QED BY <2>2, <3>1, <4>1, <4>2 DEF Replies
    <3> QED BY <2>2, <3>2, <3>3
  <2>3. CASE /\ now >= HeadersEnd(r) /\ r.length # NULL /\ BodyComplete(r, now)
             /\ handleRequest(c, Route(r.method, r.path))
    <3>1. r.length \in Nat /\ now >= HeadersEnd(r) + r.length
      BY <1>0, <1>2, <2>3, RequestParts DEF BodyComplete
    <3> QED BY <1>4, <1>5, <2>3, <3>1
  <2> QED BY <1>5, <2>1, <2>2, <2>3 DEF handlePostRequest
<1>6. CASE reading[c] = "line"
  <2>0. response[c] = <<>>
    BY <1>6 DEF IInv, Answers
  <2>1. CASE now < LF(r) /\ handlePostRequest(c, now) /\ UNCHANGED reading
    <3>1. UNCHANGED <<sock, response, stream, clients, numClients, slot>>
      BY <1>0, <1>2, <2>1, RequestParts DEF handlePostRequest, registry
    <3> QED BY <1>0, <1>2, <1>3, <1>6, <2>1, <3>1 DEF Silent
  <2>2. CASE /\ reading' = [reading EXCEPT ![c] = "off"]
             /\ \E m, p : handleRequest(c, Route(m, p))
    <3>1. reading'[c] = "off"
      BY <2>2 DEF IInv, Shapes
    <3> QED BY <1>0, <1>2, <1>3, <1>4, <2>0, <2>2, <3>1 DEF BodyRead
  <2>3. CASE /\ reading' = [reading EXCEPT ![c] = "post"]
             /\ handlePostRequest(c, now)
    <3>1. reading'[c] = "post"
      BY <2>3 DEF IInv, Shapes
    <3> QED BY <1>0, <1>2, <1>3, <1>5, <1>6, <2>0, <2>3, <3>1
            DEF BodyRead, Silent
  <2> QED BY <1>1, <1>6, <2>1, <2>2, <2>3 DEF onData
<1>7. CASE reading[c] = "post"
  <2>0. handlePostRequest(c, now) /\ UNCHANGED reading
    BY <1>1, <1>7 DEF onData
  <2>1. CASE response[c] = <<>>
    BY <1>0, <1>2, <1>3, <1>5, <1>7, <2>0, <2>1 DEF BodyRead, Silent
  <2>2. CASE response[c] # <<>>
    <3>1. r.length \in Nat /\ arrived[c] >= HeadersEnd(r) + r.length
      BY <1>0, <1>7, <2>2 DEF IInv, BodyBehind
    <3>2. r.length # NULL /\ ~BodyComplete(r, now)
      BY <1>0, <1>2, <3>1, RequestParts, NodeAssumption DEF BodyComplete
    <3>3. UNCHANGED <<sock, response, stream, clients, numClients, slot>>
      BY <2>0, <3>2 DEF handlePostRequest, registry
    <3> QED BY <1>0, <1>2, <1>3, <1>7, <2>0, <3>3 DEF Silent
  <2> QED BY <2>1, <2>2
<1> QED BY <1>0, <1>6, <1>7 DEF IInv, Shapes

----------------------------------------------------------------------------
(* Every step preserves the invariant                                      *)

\* The invariant holds before anyone has connected.
LEMMA InitIInv == Init => IInv
<1> SUFFICES ASSUME Init PROVE IInv
  OBVIOUS
<1>1. CountIsOpenStreams
  <2>1. \A w \in Workers : OpenStreams(w) = {}
    BY DEF Init, OpenStreams
  <2> QED BY <2>1, FS_EmptySet DEF Init, CountIsOpenStreams
<1> QED BY <1>1 DEF Init, IInv, Shapes, Accepted, Answers, BodyBehind,
                    SlotOwned, HoleOrOwner, Unheard

\* Steps that leave every worker's set of open streams and the counters alone
LEMMA CountUnchanged ==
  ASSUME CountIsOpenStreams, UNCHANGED numClients,
         \A w \in Workers : OpenStreams(w)' = OpenStreams(w)
  PROVE  CountIsOpenStreams'
BY DEF CountIsOpenStreams

\* A new connection disturbs nobody: it has no answer and no slot.
LEMMA ConnectIInv ==
  ASSUME IInv, NEW c \in Conns, NEW w \in Workers,
         NEW r \in Requests[c], Connect(c, w, r)
  PROVE  IInv'
<1>1. r \in Request
  BY NodeAssumption
<1>2. Shapes'
  BY <1>1 DEF Connect, registry, IInv, Shapes
<1>3. Accepted' /\ Answers' /\ BodyBehind'
  BY <1>1 DEF Connect, IInv, Shapes, Accepted, Answers, BodyBehind
<1>4. response[c] = <<>> /\ slot[c] = 0 /\ sock[c] = "none"
  BY DEF Connect, IInv, Accepted, SlotOwned
<1>5. SlotOwned'
  <2> SUFFICES ASSUME NEW d \in Conns
               PROVE  /\ slot[d] # 0 <=> sock'[d] = "open" /\ response[d] = <<"stream">>
                      /\ slot[d] # 0 => /\ slot[d] \in DOMAIN clients[worker'[d]]
                                        /\ clients[worker'[d]][slot[d]] = d
    BY DEF Connect, registry, SlotOwned
  <2>1. CASE d = c
    BY <1>4, <2>1 DEF Connect, IInv, Shapes
  <2>2. CASE d # c
    <3>1. sock'[d] = sock[d] /\ worker'[d] = worker[d]
      BY <2>2 DEF Connect, IInv, Shapes
    <3> QED BY <3>1 DEF IInv, SlotOwned
  <2> QED BY <2>1, <2>2
<1>6. HoleOrOwner'
  <2> SUFFICES ASSUME NEW v \in Workers, NEW i \in DOMAIN clients[v],
                      clients[v][i] # NULL
               PROVE  worker'[clients[v][i]] = v /\ slot[clients[v][i]] = i
    BY DEF Connect, registry, HoleOrOwner
  <2>1. clients[v][i] \in Conns /\ i \in Nat \ {0}
    BY DEF IInv, Shapes
  <2>2. worker[clients[v][i]] = v /\ slot[clients[v][i]] = i
    BY DEF IInv, HoleOrOwner
  <2>3. clients[v][i] # c
    BY <1>4, <2>1, <2>2
  <2> QED BY <2>1, <2>2, <2>3 DEF Connect, IInv, Shapes
<1>7. CountIsOpenStreams'
  <2>1. \A v \in Workers : OpenStreams(v)' = OpenStreams(v)
    <3> SUFFICES ASSUME NEW v \in Workers, NEW d \in Conns
                 PROVE  d \in OpenStreams(v)' <=> d \in OpenStreams(v)
      BY DEF OpenStreams
    <3>1. CASE d = c
      <4>1. response'[d] = <<>> /\ response[d] = <<>>
        BY <1>4, <3>1 DEF Connect
      <4> QED BY <4>1, NoAnswer DEF OpenStreams
    <3>2. CASE d # c
      BY <3>2 DEF Connect, OpenStreams, IInv, Shapes
    <3> QED BY <3>1, <3>2
  <2> QED BY <2>1, CountUnchanged DEF Connect, registry, IInv
<1>8. Unheard'
  BY DEF Connect, IInv, Unheard
<1> QED BY <1>2, <1>3, <1>5, <1>6, <1>7, <1>8 DEF IInv

\* The end of a connection nulls the slot it owned, and no other.
LEMMA EndIInv ==
  ASSUME IInv, NEW c \in Conns, End(c)
  PROVE  IInv'
<1> DEFINE w == worker[c]
<1>1. w \in Workers /\ sock[c] \in {"open", "ended"}
  BY DEF End, IInv, Accepted
<1>2. Accepted' /\ Answers' /\ BodyBehind'
  BY DEF End, connVars, IInv, Shapes, Accepted, Answers, BodyBehind
<1>3. /\ UNCHANGED <<up, worker, request, arrived, reading, response, stream>>
      /\ sock' = [sock EXCEPT ![c] = "closed"]
  BY DEF End, connVars
<1>6. Unheard'
  BY <1>3 DEF IInv, Unheard
<1>4. CASE slot[c] = 0 /\ UNCHANGED registry
  <2>1. Shapes'
    BY <1>3, <1>4 DEF registry, IInv, Shapes
  <2>2. SlotOwned' /\ HoleOrOwner'
    BY <1>3, <1>4 DEF registry, IInv, Shapes, SlotOwned, HoleOrOwner
  <2>3. \A v \in Workers : OpenStreams(v)' = OpenStreams(v)
    BY <1>3, <1>4 DEF OpenStreams, IInv, Shapes, SlotOwned
  <2>4. CountIsOpenStreams'
    BY <1>4, <2>3, CountUnchanged DEF registry, IInv
  <2> QED BY <1>2, <1>6, <2>1, <2>2, <2>4 DEF IInv
<1>5. CASE slot[c] # 0 /\ removeClient(c)
  <2> DEFINE k == slot[c]
  <2>1. k \in DOMAIN clients[w] /\ clients[w][k] = c
    BY <1>5 DEF IInv, SlotOwned
  <2>2. /\ clients' = [clients EXCEPT ![w] = [@ EXCEPT ![k] = NULL]]
        /\ numClients' = [numClients EXCEPT ![w] = @ - 1]
        /\ slot' = [slot EXCEPT ![c] = 0]
    BY <1>5 DEF removeClient
  <2>3. clients'[w] = [clients[w] EXCEPT ![k] = NULL]
    BY <1>1, <2>2 DEF IInv, Shapes
  <2>4. /\ clients'[w] \in Seq(Conns \cup {NULL})
        /\ DOMAIN clients'[w] = DOMAIN clients[w]
        /\ \A i \in DOMAIN clients[w] :
             clients'[w][i] = IF i = k THEN NULL ELSE clients[w][i]
    <3>1. clients[w] \in Seq(Conns \cup {NULL})
      BY <1>1 DEF IInv, Shapes
    <3>2. k \in 1..Len(clients[w]) /\ NULL \in Conns \cup {NULL}
      BY <2>1, <3>1
    <3>3. [clients[w] EXCEPT ![k] = NULL] \in Seq(Conns \cup {NULL})
      BY <3>1, <3>2, ExceptSeq
    <3> QED BY <2>3, <3>1, <3>3
  <2>5. Shapes'
    <3>1. clients' = [clients EXCEPT ![w] = clients'[w]]
      BY <2>2, <2>3
    <3>2. clients' \in [Workers -> Seq(Conns \cup {NULL})]
      BY <2>4, <3>1 DEF IInv, Shapes
    <3>3. numClients' \in [Workers -> Int] /\ slot' \in [Conns -> Nat]
      BY <1>1, <2>2 DEF IInv, Shapes
    <3> QED BY <1>3, <3>2, <3>3 DEF IInv, Shapes
  <2>6. SlotOwned'
    <3> SUFFICES ASSUME NEW d \in Conns
                 PROVE  /\ slot'[d] # 0 <=> sock'[d] = "open" /\ response[d] = <<"stream">>
                        /\ slot'[d] # 0 => /\ slot'[d] \in DOMAIN clients'[worker[d]]
                                           /\ clients'[worker[d]][slot'[d]] = d
      BY <1>3 DEF SlotOwned
    <3>1. CASE d = c
      BY <1>3, <2>2, <3>1 DEF IInv, Shapes
    <3>2. CASE d # c
      <4>1. slot'[d] = slot[d] /\ sock'[d] = sock[d]
        BY <1>3, <2>2, <3>2 DEF IInv, Shapes
      <4>2. slot[d] # 0 <=> sock[d] = "open" /\ response[d] = <<"stream">>
        BY DEF IInv, SlotOwned
      <4>3. ASSUME slot[d] # 0
            PROVE  /\ slot[d] \in DOMAIN clients'[worker[d]]
                   /\ clients'[worker[d]][slot[d]] = d
        <5>1. /\ slot[d] \in DOMAIN clients[worker[d]]
              /\ clients[worker[d]][slot[d]] = d
          BY <4>3 DEF IInv, SlotOwned
        <5>2. CASE worker[d] = w
          BY <2>1, <2>4, <3>2, <5>1, <5>2
        <5>3. CASE worker[d] # w
          BY <2>2, <5>1, <5>3 DEF IInv, Shapes
        <5> QED BY <5>2, <5>3
      <4> QED BY <4>1, <4>2, <4>3
    <3> QED BY <3>1, <3>2
  <2>7. HoleOrOwner'
    <3> SUFFICES ASSUME NEW v \in Workers, NEW i \in DOMAIN clients'[v],
                        clients'[v][i] # NULL
                 PROVE  /\ worker[clients'[v][i]] = v
                        /\ slot'[clients'[v][i]] = i
      BY <1>3 DEF HoleOrOwner
    <3>1. i \in DOMAIN clients[v] /\ clients'[v][i] = clients[v][i] /\ ~(v = w /\ i = k)
      BY <1>1, <2>2, <2>4 DEF IInv, Shapes
    <3>2. /\ clients[v][i] \in Conns
          /\ worker[clients[v][i]] = v
          /\ slot[clients[v][i]] = i
      BY <3>1 DEF IInv, Shapes, HoleOrOwner
    <3>3. clients[v][i] # c
      BY <3>1, <3>2
    <3> QED BY <2>2, <3>1, <3>2, <3>3 DEF IInv, Shapes
  <2>8. CountIsOpenStreams'
    <3> SUFFICES ASSUME NEW v \in Workers
                 PROVE  numClients'[v] = Cardinality(OpenStreams(v)')
      BY DEF CountIsOpenStreams
    <3>1. IsFiniteSet(OpenStreams(v))
      BY FS_Subset, NodeAssumption DEF OpenStreams
    <3>2. numClients[v] = Cardinality(OpenStreams(v))
      BY DEF IInv, CountIsOpenStreams
    <3>3. CASE v = w
      <4>1. c \in OpenStreams(v)
        BY <1>5, <3>3 DEF OpenStreams, IInv, SlotOwned
      <4>2. OpenStreams(v)' = OpenStreams(v) \ {c}
        BY <1>3 DEF OpenStreams, IInv, Shapes
      <4>3. Cardinality(OpenStreams(v)') = Cardinality(OpenStreams(v)) - 1
        BY <3>1, <4>1, <4>2, FS_RemoveElement
      <4>4. numClients'[v] = numClients[v] - 1
        BY <2>2, <3>3 DEF IInv, Shapes
      <4> QED BY <3>2, <4>3, <4>4
    <3>4. CASE v # w
      <4>1. OpenStreams(v)' = OpenStreams(v)
        BY <1>3, <3>4 DEF OpenStreams, IInv, Shapes
      <4> QED BY <2>2, <3>2, <3>4, <4>1 DEF IInv, Shapes
    <3> QED BY <3>3, <3>4
  <2> QED BY <1>2, <1>6, <2>5, <2>6, <2>7, <2>8 DEF IInv
<1> QED BY <1>4, <1>5 DEF End

\* A crash empties the worker's array and counter with its streams.
LEMMA ResetIInv ==
  ASSUME IInv, NEW c \in Conns, Reset(c)
  PROVE  IInv'
<1> DEFINE w == worker[c]
           dead == {d \in Conns : worker[d] = w}
<1>1. w \in Workers
  BY DEF Reset, IInv, Accepted
<1>2. /\ UNCHANGED <<worker, request, arrived, reading, response, stream>>
      /\ up' = [up EXCEPT ![w] = FALSE]
      /\ sock' = [d \in Conns |-> IF d \in dead THEN "closed" ELSE sock[d]]
      /\ slot' = [d \in Conns |-> IF d \in dead THEN 0 ELSE slot[d]]
      /\ clients' = [clients EXCEPT ![w] = <<>>]
      /\ numClients' = [numClients EXCEPT ![w] = 0]
  BY DEF Reset, connVars
<1>3. Shapes'
  <2>1. clients' \in [Workers -> Seq(Conns \cup {NULL})]
    <3>1. <<>> \in Seq(Conns \cup {NULL})
      BY EmptySeq
    <3> QED BY <1>2, <3>1 DEF IInv, Shapes
  <2>2. up' \in [Workers -> BOOLEAN] /\ numClients' \in [Workers -> Int]
    <3>1. up \in [Workers -> BOOLEAN] /\ numClients \in [Workers -> Int]
      BY DEF IInv, Shapes
    <3>2. up' \in [Workers -> BOOLEAN]
      BY <1>2, <3>1, Zenon
    <3> QED BY <1>2, <3>1, <3>2
  <2>3. slot' \in [Conns -> Nat]
    BY <1>2 DEF IInv, Shapes
  <2>4. sock' \in [Conns -> {"none", "open", "ended", "closed"}]
    BY <1>2 DEF IInv, Shapes
  <2> QED BY <1>2, <2>1, <2>2, <2>3, <2>4 DEF IInv, Shapes
<1>4. Accepted' /\ Answers' /\ BodyBehind'
  <2> SUFFICES ASSUME NEW d \in Conns
               PROVE  /\ sock'[d] # "none" => worker[d] \in Workers /\ request[d] \in Request
                      /\ sock'[d] = "none" => response[d] = <<>> /\ worker[d] = NULL
                      /\ sock'[d] \in {"open", "ended"} => up'[worker[d]]
                      /\ sock'[d] = "open" => response[d] \in {<<>>, <<"stream">>}
                      /\ sock'[d] = "ended" => response[d] # <<>>
                      /\ sock'[d] # "closed" => sock[d] # "closed"
    BY <1>2 DEF IInv, Accepted, Answers, BodyBehind
  <2>1. CASE d \in dead
    BY <1>1, <1>2, <2>1, NodeAssumption DEF IInv, Accepted
  <2>2. CASE d \notin dead
    BY <1>2, <2>2 DEF IInv, Shapes, Accepted, Answers
  <2> QED BY <2>1, <2>2
<1>5. SlotOwned'
  <2> SUFFICES ASSUME NEW d \in Conns
               PROVE  /\ slot'[d] # 0 <=> sock'[d] = "open" /\ response[d] = <<"stream">>
                      /\ slot'[d] # 0 => /\ slot'[d] \in DOMAIN clients'[worker[d]]
                                         /\ clients'[worker[d]][slot'[d]] = d
    BY <1>2 DEF SlotOwned
  <2>1. CASE d \in dead
    BY <1>2, <2>1
  <2>2. CASE d \notin dead
    <3>1. slot'[d] = slot[d] /\ sock'[d] = sock[d] /\ worker[d] # w
      BY <1>2, <2>2
    <3>2. clients'[worker[d]] = clients[worker[d]] \/ slot[d] = 0
      BY <1>2, <3>1 DEF IInv, Shapes, SlotOwned, Accepted
    <3> QED BY <3>1, <3>2 DEF IInv, SlotOwned
  <2> QED BY <2>1, <2>2
<1>6. HoleOrOwner'
  <2> SUFFICES ASSUME NEW v \in Workers, NEW i \in DOMAIN clients'[v],
                      clients'[v][i] # NULL
               PROVE  /\ worker[clients'[v][i]] = v
                      /\ slot'[clients'[v][i]] = i
    BY <1>2 DEF HoleOrOwner
  <2>1. v # w /\ clients'[v] = clients[v]
    BY <1>1, <1>2 DEF IInv, Shapes
  <2>2. clients[v][i] \in Conns
    BY <2>1 DEF IInv, Shapes
  <2> QED BY <1>2, <2>1, <2>2 DEF IInv, HoleOrOwner
<1>7. CountIsOpenStreams'
  <2> SUFFICES ASSUME NEW v \in Workers
               PROVE  numClients'[v] = Cardinality(OpenStreams(v)')
    BY DEF CountIsOpenStreams
  <2>1. CASE v = w
    <3>1. OpenStreams(v)' = {}
      BY <1>2, <2>1 DEF OpenStreams
    <3>2. numClients'[v] = 0
      BY <1>2, <2>1 DEF IInv, Shapes
    <3> QED BY <3>1, <3>2, FS_EmptySet
  <2>2. CASE v # w
    <3>1. OpenStreams(v)' = OpenStreams(v)
      BY <1>2, <2>2 DEF OpenStreams
    <3>2. numClients'[v] = numClients[v]
      BY <1>2, <2>2 DEF IInv, Shapes
    <3> QED BY <3>1, <3>2 DEF IInv, CountIsOpenStreams
  <2> QED BY <2>1, <2>2
<1>8. Unheard'
  BY <1>2 DEF IInv, Unheard
<1> QED BY <1>3, <1>4, <1>5, <1>6, <1>7, <1>8 DEF IInv

\* A chunk that is only buffered, one that is answered, and one that opens an
\* event stream.
LEMMA DataIInv ==
  ASSUME IInv, NEW c \in Conns, parseData(c)
  PROVE  IInv'
<1> DEFINE w == worker[c]
<1>1. /\ UNCHANGED <<up, worker, request>>
      /\ arrived' \in [Conns -> Nat]
      /\ \A d \in Conns : arrived'[d] >= arrived[d]
      /\ reading' \in [Conns -> {"line", "post", "off"}]
      /\ \A d \in Conns \ {c} : reading'[d] = reading[d]
      /\ sock[c] \in {"open", "ended"}
  BY ParseDataEffect
<1>2. CASE Silent(c)
  <2>1. Shapes' /\ Accepted' /\ SlotOwned' /\ HoleOrOwner'
    BY <1>1, <1>2 DEF Silent, IInv, Shapes, Accepted, SlotOwned, HoleOrOwner
  <2>2. Answers'
    BY <1>1, <1>2 DEF Silent, IInv, Answers
  <2>3. BodyBehind'
    <3> SUFFICES ASSUME NEW d \in Conns, reading'[d] = "post",
                        response[d] # <<>>, sock[d] # "closed"
                 PROVE  /\ request[d].length \in Nat
                        /\ arrived'[d] >= HeadersEnd(request[d]) + request[d].length
      BY <1>1, <1>2 DEF Silent, BodyBehind
    <3>1. reading[d] = "post"
      BY <1>1, <1>2 DEF Silent, IInv, Answers
    <3>2. /\ request[d].length \in Nat
          /\ arrived[d] >= HeadersEnd(request[d]) + request[d].length
      BY <3>1 DEF IInv, BodyBehind
    <3>3. HeadersEnd(request[d]) \in Nat
      BY RequestParts DEF IInv, Accepted
    <3> QED BY <1>1, <3>2, <3>3 DEF IInv, Shapes
  <2>4. CountIsOpenStreams'
    <3>1. \A v \in Workers : OpenStreams(v)' = OpenStreams(v)
      BY <1>1, <1>2 DEF Silent, OpenStreams
    <3> QED BY <1>2, <3>1, CountUnchanged DEF Silent, IInv
  <2>5. Unheard'
    BY <1>2 DEF Silent, IInv, Unheard
  <2> QED BY <2>1, <2>2, <2>3, <2>4, <2>5 DEF IInv
\* What an answer preserves of BodyBehind, whichever answer it is
<1>3. ASSUME BodyRead(c), UNCHANGED request,
             \A d \in Conns \ {c} : response'[d] = response[d] /\ sock'[d] = sock[d]
      PROVE  BodyBehind'
  <2> SUFFICES ASSUME NEW d \in Conns, reading'[d] = "post",
                      response'[d] # <<>>, sock'[d] # "closed"
               PROVE  /\ request[d].length \in Nat
                      /\ arrived'[d] >= HeadersEnd(request[d]) + request[d].length
    BY <1>3 DEF BodyBehind
  <2>1. CASE d = c
    BY <1>3, <2>1 DEF BodyRead
  <2>2. CASE d # c
    <3>1. /\ request[d].length \in Nat
          /\ arrived[d] >= HeadersEnd(request[d]) + request[d].length
      BY <1>1, <1>3, <2>2 DEF IInv, BodyBehind
    <3>2. HeadersEnd(request[d]) \in Nat
      BY <1>3, <2>2, RequestParts DEF IInv, Accepted
    <3> QED BY <1>1, <3>1, <3>2 DEF IInv, Shapes
  <2> QED BY <2>1, <2>2
<1>4. CASE /\ sock[c] = "open" /\ response[c] = <<>>
           /\ BodyRead(c) /\ Replies(c)
  <2>1. PICK status \in Statuses \ {"stream"}, state \in {"ended", "closed"} :
          /\ response' = [response EXCEPT ![c] = <<status>>]
          /\ sock' = [sock EXCEPT ![c] = state]
          /\ broadcast(c) \/ UNCHANGED stream
    BY <1>4 DEF Replies
  <2>2. UNCHANGED <<clients, numClients, slot>>
    BY <1>4 DEF Replies
  <2>3. slot[c] = 0
    BY <1>4 DEF IInv, SlotOwned
  <2>4. /\ response'[c] = <<status>> /\ sock'[c] = state
        /\ \A d \in Conns \ {c} : response'[d] = response[d] /\ sock'[d] = sock[d]
    BY <2>1 DEF IInv, Shapes
  <2>5. Shapes'
    <3>1. <<status>> \in Seq(Statuses)
      OBVIOUS
    <3>2. response' \in [Conns -> Seq(Statuses)]
      BY <2>1, <3>1 DEF IInv, Shapes
    <3>3. stream' \in [Conns -> Seq(Conns)]
      <4>1. \A d \in Conns : Append(stream[d], c) \in Seq(Conns)
        BY AppendProperties DEF IInv, Shapes
      <4>2. CASE broadcast(c)
        BY <4>1, <4>2 DEF broadcast, IInv, Shapes
      <4>3. CASE UNCHANGED stream
        BY <4>3 DEF IInv, Shapes
      <4> QED BY <2>1, <4>2, <4>3
    <3>4. sock' \in [Conns -> {"none", "open", "ended", "closed"}]
      BY <2>1 DEF IInv, Shapes
    <3> QED BY <1>1, <2>2, <3>2, <3>3, <3>4 DEF IInv, Shapes
  <2>6. Accepted'
    BY <1>1, <1>4, <2>4 DEF IInv, Accepted
  <2>12. Answers'
    <3> SUFFICES ASSUME NEW d \in Conns
                 PROVE  /\ \/ response'[d] = <<>>
                           \/ \E s \in Statuses : response'[d] = <<s>>
                        /\ sock'[d] = "open" => response'[d] \in {<<>>, <<"stream">>}
                        /\ sock'[d] = "ended" => response'[d] # <<>>
                        /\ reading'[d] = "line" => response'[d] = <<>>
      BY DEF Answers
    <3>1. CASE d = c
      BY <1>4, <2>1, <2>4, <3>1 DEF BodyRead
    <3>2. CASE d # c
      BY <1>1, <2>4, <3>2 DEF IInv, Answers
    <3> QED BY <3>1, <3>2
  <2>7. BodyBehind'
    BY <1>1, <1>3, <1>4, <2>4
  <2>8. SlotOwned'
    BY <1>1, <2>2, <2>3, <2>4 DEF IInv, SlotOwned
  <2>9. HoleOrOwner'
    BY <1>1, <2>2 DEF IInv, HoleOrOwner
  <2>10. CountIsOpenStreams'
    <3>1. \A v \in Workers : OpenStreams(v)' = OpenStreams(v)
      BY <1>1, <1>4, <2>4 DEF OpenStreams
    <3> QED BY <2>2, <3>1, CountUnchanged DEF IInv
  <2>11. Unheard'
    <3> SUFFICES ASSUME NEW d \in Conns, response'[d] # <<"stream">>
                 PROVE  stream'[d] = <<>>
      BY DEF Unheard
    <3>1. response[d] # <<"stream">> /\ stream[d] = <<>>
      BY <1>4, <2>4 DEF IInv, Unheard
    <3>2. d \notin Listed(w)
      <4>1. w \in Workers
        BY <1>4 DEF IInv, Accepted
      <4>2. d \notin OpenStreams(w)
        BY <3>1 DEF OpenStreams
      <4> QED BY <4>1, <4>2, ListedIsOpen
    <3> QED BY <2>1, <3>1, <3>2 DEF broadcast
  <2> QED BY <2>5, <2>6, <2>12, <2>7, <2>8, <2>9, <2>10, <2>11 DEF IInv
<1>5. CASE /\ sock[c] = "open" /\ response[c] = <<>>
           /\ BodyRead(c) /\ Joins(c)
  <2> DEFINE k == Len(clients[w]) + 1
  <2>1. w \in Workers /\ slot[c] = 0 /\ clients[w] \in Seq(Conns \cup {NULL})
    <3>1. w \in Workers
      BY <1>5 DEF IInv, Accepted
    <3>2. slot[c] = 0
      BY <1>5 DEF IInv, SlotOwned
    <3> QED BY <3>1, <3>2 DEF IInv, Shapes
  <2>2. /\ response' = [response EXCEPT ![c] = <<"stream">>]
        /\ clients' = [clients EXCEPT ![w] = Append(@, c)]
        /\ numClients' = [numClients EXCEPT ![w] = @ + 1]
        /\ slot' = [slot EXCEPT ![c] = k]
        /\ UNCHANGED <<sock, stream>>
    BY <1>5 DEF Joins, initSseClient
  <2>3. /\ response'[c] = <<"stream">> /\ slot'[c] = k
        /\ \A d \in Conns \ {c} : response'[d] = response[d] /\ slot'[d] = slot[d]
    BY <2>2 DEF IInv, Shapes
  <2>4. /\ clients'[w] \in Seq(Conns \cup {NULL})
        /\ k \in Nat \ {0}
        /\ DOMAIN clients[w] = 1..(k - 1)
        /\ DOMAIN clients'[w] = 1..k
        /\ clients'[w][k] = c
        /\ \A i \in 1..(k - 1) : clients'[w][i] = clients[w][i]
    <3>1. clients'[w] = Append(clients[w], c) /\ c \in Conns \cup {NULL}
      BY <2>1, <2>2 DEF IInv, Shapes
    <3> QED BY <2>1, <3>1, AppendProperties
  <2>5. \A v \in Workers : v # w => clients'[v] = clients[v]
    BY <2>2 DEF IInv, Shapes
  <2>6. Shapes'
    <3>1. response' \in [Conns -> Seq(Statuses)]
      BY <2>2 DEF IInv, Shapes, Statuses
    <3>2. clients' \in [Workers -> Seq(Conns \cup {NULL})]
      <4>1. clients' = [clients EXCEPT ![w] = clients'[w]]
        BY <2>1, <2>2 DEF IInv, Shapes
      <4> QED BY <2>4, <4>1 DEF IInv, Shapes
    <3>3. numClients' \in [Workers -> Int] /\ slot' \in [Conns -> Nat]
      BY <2>1, <2>2, <2>4 DEF IInv, Shapes
    <3> QED BY <1>1, <2>2, <3>1, <3>2, <3>3 DEF IInv, Shapes
  <2>7. Accepted' /\ Answers'
    <3> SUFFICES ASSUME NEW d \in Conns
                 PROVE  /\ sock[d] = "none" => response'[d] = response[d]
                        /\ \/ response'[d] = <<>>
                           \/ \E s \in Statuses : response'[d] = <<s>>
                        /\ sock[d] = "open" => response'[d] \in {<<>>, <<"stream">>}
                        /\ sock[d] = "ended" => response'[d] # <<>>
                        /\ reading'[d] = "line" => response'[d] = <<>>
      BY <1>1, <2>2 DEF IInv, Accepted, Answers
    <3>1. CASE d = c
      BY <1>5, <2>3, <3>1 DEF BodyRead, Statuses
    <3>2. CASE d # c
      BY <1>1, <2>3, <3>2 DEF IInv, Answers
    <3> QED BY <3>1, <3>2
  <2>8. BodyBehind'
    BY <1>1, <1>3, <1>5, <2>2, <2>3
  <2>9. SlotOwned'
    <3> SUFFICES ASSUME NEW d \in Conns
                 PROVE  /\ slot'[d] # 0 <=> sock[d] = "open" /\ response'[d] = <<"stream">>
                        /\ slot'[d] # 0 => /\ slot'[d] \in DOMAIN clients'[worker[d]]
                                           /\ clients'[worker[d]][slot'[d]] = d
      BY <1>1, <2>2 DEF SlotOwned
    <3>1. CASE d = c
      BY <1>5, <2>3, <2>4, <3>1
    <3>2. CASE d # c
      <4>1. slot'[d] = slot[d] /\ response'[d] = response[d]
        BY <2>3, <3>2
      <4>2. ASSUME slot[d] # 0
            PROVE  /\ slot[d] \in DOMAIN clients'[worker[d]]
                   /\ clients'[worker[d]][slot[d]] = d
        <5>1. /\ slot[d] \in DOMAIN clients[worker[d]]
              /\ clients[worker[d]][slot[d]] = d
              /\ worker[d] \in Workers
          BY <4>2 DEF IInv, SlotOwned, Accepted
        <5>2. CASE worker[d] = w
          BY SMTT(30), <2>4, <5>1, <5>2
        <5>3. CASE worker[d] # w
          BY <2>5, <5>1, <5>3
        <5> QED BY <5>2, <5>3
      <4> QED BY <4>1, <4>2 DEF IInv, SlotOwned
    <3> QED BY <3>1, <3>2
  <2>10. HoleOrOwner'
    <3> SUFFICES ASSUME NEW v \in Workers, NEW i \in DOMAIN clients'[v],
                        clients'[v][i] # NULL
                 PROVE  /\ worker[clients'[v][i]] = v
                        /\ slot'[clients'[v][i]] = i
      BY <1>1 DEF HoleOrOwner
    <3>1. CASE v = w /\ i = k
      BY <2>3, <2>4, <3>1
    <3>2. CASE ~(v = w /\ i = k)
      <4>1. i \in DOMAIN clients[v] /\ clients'[v][i] = clients[v][i]
        <5>1. CASE v = w
          <6>1. i \in 1..k /\ i # k
            BY <2>4, <3>2, <5>1
          <6>2. i \in 1..(k - 1)
            BY <2>4, <6>1
          <6> QED BY <2>4, <5>1, <6>2
        <5>2. CASE v # w
          BY <2>5, <5>2
        <5> QED BY <5>1, <5>2
      <4>2. /\ clients[v][i] \in Conns /\ i # 0
            /\ worker[clients[v][i]] = v /\ slot[clients[v][i]] = i
        BY <4>1 DEF IInv, Shapes, HoleOrOwner
      <4> QED BY <2>1, <2>3, <4>1, <4>2
    <3> QED BY <3>1, <3>2
  <2>11. CountIsOpenStreams'
    <3> SUFFICES ASSUME NEW v \in Workers
                 PROVE  numClients'[v] = Cardinality(OpenStreams(v)')
      BY DEF CountIsOpenStreams
    <3>1. IsFiniteSet(OpenStreams(v))
      BY FS_Subset, NodeAssumption DEF OpenStreams
    <3>2. numClients[v] = Cardinality(OpenStreams(v))
      BY DEF IInv, CountIsOpenStreams
    <3>3. CASE v = w
      <4>1. c \notin OpenStreams(v)
        BY SMTT(30), <1>5 DEF OpenStreams
      <4>2. OpenStreams(v)' = OpenStreams(v) \cup {c}
        BY <1>1, <1>5, <2>2, <2>3, <3>3 DEF OpenStreams
      <4>3. Cardinality(OpenStreams(v)') = Cardinality(OpenStreams(v)) + 1
        BY <3>1, <4>1, <4>2, FS_AddElement
      <4>4. numClients'[v] = numClients[v] + 1
        BY <2>2, <3>3 DEF IInv, Shapes
      <4> QED BY <3>2, <4>3, <4>4
    <3>4. CASE v # w
      <4>1. OpenStreams(v)' = OpenStreams(v)
        BY <1>1, <1>5, <2>2, <2>3, <3>4 DEF OpenStreams
      <4> QED BY <2>2, <3>2, <3>4, <4>1 DEF IInv, Shapes
    <3> QED BY <3>3, <3>4
  <2>12. Unheard'
    BY <1>5, <2>2, <2>3 DEF IInv, Unheard
  <2> QED BY <2>6, <2>7, <2>8, <2>9, <2>10, <2>11, <2>12 DEF IInv
<1> QED BY <1>2, <1>4, <1>5, ParseDataEffect

----------------------------------------------------------------------------
(* The invariant and what follows from it                                  *)

\* Every step of the server, or none, preserves the invariant.
LEMMA NextIInv == IInv /\ [Next]_vars => IInv'
<1> SUFFICES ASSUME IInv, [Next]_vars PROVE IInv'
  OBVIOUS
<1>1. CASE UNCHANGED vars
  <2>1. \A w \in Workers : OpenStreams(w)' = OpenStreams(w)
    BY <1>1 DEF vars, OpenStreams
  <2>2. CountIsOpenStreams'
    BY <1>1, <2>1, CountUnchanged DEF vars, IInv
  <2>3. Shapes' /\ Accepted' /\ Answers' /\ BodyBehind'
    BY <1>1 DEF vars, IInv, Shapes, Accepted, Answers, BodyBehind
  <2>4. SlotOwned' /\ HoleOrOwner' /\ Unheard'
    BY <1>1 DEF vars, IInv, SlotOwned, HoleOrOwner, Unheard
  <2> QED BY <2>2, <2>3, <2>4 DEF IInv
<1>2. ASSUME NEW c \in Conns, NEW w \in Workers, NEW r \in Requests[c],
             Connect(c, w, r)
      PROVE  IInv'
  BY <1>2, ConnectIInv
<1>3. ASSUME NEW c \in Conns, parseData(c) PROVE IInv'
  BY <1>3, DataIInv
<1>4. ASSUME NEW c \in Conns, End(c) PROVE IInv'
  BY <1>4, EndIInv
<1>5. ASSUME NEW c \in Conns, Reset(c) PROVE IInv'
  BY <1>5, ResetIInv
<1> QED BY <1>1, <1>2, <1>3, <1>4, <1>5 DEF Next

\* The invariant holds in every reachable state.
THEOREM Invariance == Spec => []IInv
<1>1. Init => IInv
  BY InitIInv
<1>2. IInv /\ [Next]_vars => IInv'
  BY NextIInv
<1> QED BY <1>1, <1>2, PTL DEF Spec

\* The invariant implies the properties the runs check.
LEMMA IInvImplies == IInv => TypeOK /\ RegistryExact /\ AnsweredOnce
<1> SUFFICES ASSUME IInv PROVE TypeOK /\ RegistryExact /\ AnsweredOnce
  OBVIOUS
<1>1. TypeOK
  <2>1. \A w \in Workers : numClients[w] \in Nat
    <3> SUFFICES ASSUME NEW w \in Workers PROVE numClients[w] \in Nat
      OBVIOUS
    <3>1. IsFiniteSet(OpenStreams(w))
      BY FS_Subset, NodeAssumption DEF OpenStreams
    <3> QED BY <3>1, FS_CardinalityType DEF IInv, CountIsOpenStreams
  <2> QED BY <2>1 DEF IInv, Shapes, TypeOK
<1>2. RegistryExact
  BY IInvRegistry
<1>3. AnsweredOnce
  <2> SUFFICES ASSUME NEW c \in Conns PROVE Len(response[c]) <= 1
    BY DEF AnsweredOnce
  <2>1. CASE response[c] = <<>>
    BY <2>1
  <2>2. CASE \E status \in Statuses : response[c] = <<status>>
    BY <2>2
  <2> QED BY <2>1, <2>2 DEF IInv, Answers
<1> QED BY <1>1, <1>2, <1>3

\* The counter never goes below zero and every variable keeps its shape.
THEOREM TypeCorrect == Spec => []TypeOK
BY Invariance, IInvImplies, PTL

\* numClients is the number of open event streams of the process.
THEOREM CountCorrect == Spec => []CountIsOpenStreams
<1>1. IInv => CountIsOpenStreams
  BY DEF IInv
<1> QED BY <1>1, Invariance, PTL

\* The closure of removeClient always nulls its own connection's slot: an open
\* stream is in its worker's array exactly once and a closed one is not in it.
THEOREM RegistryCorrect == Spec => []RegistryExact
BY Invariance, IInvImplies, PTL

\* No connection is answered twice, so no POST is broadcast twice.
THEOREM AnsweredOnceCorrect == Spec => []AnsweredOnce
BY Invariance, IInvImplies, PTL

----------------------------------------------------------------------------
(* RoutedByRules                                                           *)

\* A reader at the first line has not yet seen its line feed; one past it is
\* the reader of a POST.
LineRead ==
  \A c \in Conns :
    /\ sock[c] = "none" => reading[c] = "line" /\ arrived[c] = 0
    /\ sock[c] # "none" /\ reading[c] = "line" => arrived[c] < LF(request[c])
    /\ reading[c] = "post" => request[c].method = "POST"

\* handleRequest writes one status, whatever else it does.
LEMMA HandleRequestWrites ==
  ASSUME NEW c, NEW status, handleRequest(c, status)
  PROVE  response' = [response EXCEPT ![c] = Append(@, status)]
BY DEF handleRequest, reply, writeHead, initSseClient

\* Of a request line read whole, handleRequest takes the branch of the rules.
LEMMA RouteWhole ==
  ASSUME NEW r \in Request
  PROVE  \/ Route(r.method, r.path) = RuleStatus(r)
         \/ Route(r.method, r.path) = "204" /\ r.method = "OPTIONS"
BY RequestParts DEF Route, RuleStatus

\* Only a POST reads as one, however short its header is cut.
LEMMA MethodCut ==
  ASSUME NEW r \in Request, NEW n \in Int, MethodIn(r, n) = "POST"
  PROVE  r.method = "POST"
<1>1. CASE n <= 0
  BY <1>1, NodeAssumption DEF MethodIn, Cut
<1>2. CASE n > 0 /\ n < Chars(r.method)
  <2>1. n \in 1..(Chars(r.method) - 1)
    BY <1>2, RequestParts
  <2>2. MethodIn(r, n) = Prefix(r.method, n)
    BY <1>2 DEF MethodIn, Cut
  <2> QED BY <2>1, <2>2 DEF Request
<1>3. CASE n > 0 /\ n >= Chars(r.method)
  BY <1>3, RequestParts DEF MethodIn, Cut
<1> QED BY <1>1, <1>2, <1>3, RequestParts

\* A header as long as method, space and path holds them whole.
LEMMA HeaderWhole ==
  ASSUME NEW r \in Request, NEW n \in Int,
         n >= Chars(r.method) + 1 + Chars(r.path)
  PROVE  MethodIn(r, n) = r.method /\ PathIn(r, n) = r.path
BY RequestParts DEF MethodIn, PathIn, Cut

\* Of a shorter one, if it is not the method of a POST, handleRequest takes the
\* branch of what is left of the path.
LEMMA RouteCut ==
  ASSUME NEW r \in Request, NEW n \in Int,
         n < Chars(r.method) + 1 + Chars(r.path), MethodIn(r, n) # "POST"
  PROVE  Route(MethodIn(r, n), PathIn(r, n)) \in StatusesOfPrefixes(r)
<1> DEFINE k == n - Chars(r.method) - 1
<1>1. PathIn(r, n) = Cut(r.path, k) /\ k \in Int /\ k < Chars(r.path)
  BY RequestParts DEF PathIn
<1>2. CASE k <= 0
  <2>1. Route(MethodIn(r, n), PathIn(r, n)) = "400"
    BY <1>1, <1>2 DEF Route, Cut
  <2>2. 0 \in 0..(Chars(r.path) - 1) /\ Route(r.method, Cut(r.path, 0)) = "400"
    BY RequestParts DEF Route, Cut
  <2> QED BY <2>1, <2>2 DEF StatusesOfPrefixes
<1>3. CASE k > 0
  <2>1. k \in 0..(Chars(r.path) - 1)
    BY <1>1, <1>3, RequestParts
  <2>2. MethodIn(r, n) = r.method
    BY <1>3, RequestParts DEF MethodIn, Cut
  <2> QED BY <1>1, <2>1, <2>2 DEF StatusesOfPrefixes
<1> QED BY <1>1, <1>2, <1>3

\* The status a chunk's answer may have on connection c
Allowed(c, status) ==
  LET r == request[c]
  IN \/ status = RuleStatus(r)
     \/ status = "204" /\ r.method = "OPTIONS"
     \/ status = "411" /\ r.method = "POST" /\ r.length = NULL
     \/ /\ status \in StatusesOfPrefixes(r)
        /\ reading[c] = "line"
        /\ arrived[c] \in (Version + 2)..(LF(r) - 2)

\* A chunk changes no response but that of its connection, and that one to a
\* status the rules allow.
LEMMA DataRouted ==
  ASSUME IInv, LineRead, NEW c \in Conns, parseData(c)
  PROVE  \/ UNCHANGED response
         \/ \E status : /\ response' = [response EXCEPT ![c] = Append(@, status)]
                        /\ Allowed(c, status)
<1> DEFINE r == request[c]
<1>1. r \in Request /\ arrived[c] \in Nat
  BY DEF parseData, IInv, Accepted, Shapes
<1>2. PICK now \in (arrived[c] + 1)..Size(r) : onData(c, now)
  BY DEF parseData
<1>3. now \in Int /\ now > arrived[c]
  BY <1>1, <1>2, RequestParts
\* The POST handler answers by the rules, or asks for a length.
<1>4. ASSUME r.method = "POST", handlePostRequest(c, now)
      PROVE  \/ UNCHANGED response
             \/ \E status : /\ response' = [response EXCEPT ![c] = Append(@, status)]
                            /\ Allowed(c, status)
  <2>1. CASE r.length = NULL /\ writeHead(c, "411")
    BY <1>4, <2>1 DEF writeHead, Allowed
  <2>2. CASE handleRequest(c, Route(r.method, r.path))
    <3>1. Allowed(c, Route(r.method, r.path))
      BY <1>1, RouteWhole DEF Allowed
    <3> QED BY <2>2, <3>1, HandleRequestWrites
  <2> QED BY <1>4, <2>1, <2>2 DEF handlePostRequest
<1>5. CASE reading[c] = "line" /\ now < LF(r) /\ handlePostRequest(c, now)
  BY <1>1, <1>3, <1>5, RequestParts DEF handlePostRequest
<1>6. CASE reading[c] = "post" /\ handlePostRequest(c, now)
  BY <1>4, <1>6 DEF LineRead
<1>7. CASE reading[c] = "line" /\ now >= LF(r)
  <2> DEFINE n == HeaderChars(r, arrived[c], now)
  <2>1. arrived[c] < LF(r) /\ Version = 8
    BY <1>1, <1>7 DEF LineRead, parseData, Version
  <2>2. n \in Int
    BY <1>1, <1>3, RequestParts DEF HeaderChars
  <2>3. \/ n >= Chars(r.method) + 1 + Chars(r.path)
        \/ arrived[c] \in (Version + 2)..(LF(r) - 2)
    BY <1>1, <1>3, <1>7, <2>1, RequestParts DEF HeaderChars
  <2>4. MethodIn(r, n) = "POST" => r.method = "POST"
    BY <1>1, <2>2, MethodCut
  <2>5. CASE handlePostRequest(c, now) /\ MethodIn(r, n) = "POST"
    BY <1>4, <2>4, <2>5
  <2>6. CASE /\ MethodIn(r, n) # "POST"
             /\ handleRequest(c, Route(MethodIn(r, n), PathIn(r, n)))
    <3>1. CASE n >= Chars(r.method) + 1 + Chars(r.path)
      <4>1. MethodIn(r, n) = r.method /\ PathIn(r, n) = r.path
        BY <1>1, <2>2, <3>1, HeaderWhole
      <4>2. Allowed(c, Route(r.method, r.path))
        BY <1>1, RouteWhole DEF Allowed
      <4> QED BY <2>6, <4>1, <4>2, HandleRequestWrites
    <3>2. CASE n < Chars(r.method) + 1 + Chars(r.path)
      <4>1. Route(MethodIn(r, n), PathIn(r, n)) \in StatusesOfPrefixes(r)
        BY <1>1, <2>2, <2>6, <3>2, RouteCut
      <4>2. arrived[c] \in (Version + 2)..(LF(r) - 2)
        BY <1>1, <2>2, <2>3, <3>2, RequestParts
      <4>3. Allowed(c, Route(MethodIn(r, n), PathIn(r, n)))
        BY <1>7, <4>1, <4>2 DEF Allowed
      <4> QED BY <2>6, <4>3, HandleRequestWrites
    <3>3. Chars(r.method) + 1 + Chars(r.path) \in Int
      BY <1>1, RequestParts
    <3> HIDE DEF n
    <3> QED BY <2>2, <3>1, <3>2, <3>3
  <2> QED BY <1>1, <1>2, <1>3, <1>7, <2>5, <2>6, RequestParts DEF onData
<1> QED BY <1>1, <1>2, <1>3, <1>5, <1>6, <1>7, RequestParts DEF onData

\* Every step keeps the reader and the buffer in agreement.
LEMMA LineReadStep == IInv /\ LineRead /\ [Next]_vars => LineRead'
<1> SUFFICES ASSUME IInv, LineRead, [Next]_vars PROVE LineRead'
  OBVIOUS
<1>1. CASE UNCHANGED vars
  BY <1>1 DEF vars, LineRead
<1>2. ASSUME NEW c \in Conns, NEW w \in Workers, NEW r \in Requests[c],
             Connect(c, w, r)
      PROVE  LineRead'
  <2>1. /\ reading[c] = "line" /\ arrived[c] = 0 /\ UNCHANGED <<reading, arrived>>
        /\ LF(r) \in Nat /\ LF(r) > 0 /\ request'[c] = r
    <3>1. r \in Request
      BY NodeAssumption
    <3> QED BY <1>2, <3>1, RequestParts DEF Connect, LineRead, IInv, Shapes, Version
  <2>2. \A d \in Conns \ {c} : sock'[d] = sock[d] /\ request'[d] = request[d]
    BY <1>2 DEF Connect, IInv, Shapes
  <2>3. sock'[c] = "open"
    BY <1>2 DEF Connect, IInv, Shapes
  <2> QED BY <2>1, <2>2, <2>3 DEF LineRead
<1>3. ASSUME NEW c \in Conns, parseData(c) PROVE LineRead'
  <2> DEFINE r == request[c]
  <2>0. /\ UNCHANGED request /\ r \in Request
        /\ sock[c] # "none"
        /\ \A d \in Conns \ {c} : reading'[d] = reading[d]
        /\ \A d \in Conns : sock'[d] = "none" => sock[d] = "none"
    <3>1. \A d \in Conns : sock'[d] = "none" => sock[d] = "none"
      <4>1. Silent(c) => UNCHANGED sock
        BY DEF Silent
      <4>2. Joins(c) => UNCHANGED sock
        BY DEF Joins, initSseClient
      <4>3. Replies(c) => \A d \in Conns : sock'[d] = "none" => sock[d] = "none"
        BY DEF Replies, IInv, Shapes
      <4> QED BY <1>3, <4>1, <4>2, <4>3, ParseDataEffect
    <3> QED BY <1>3, <3>1, ParseDataEffect DEF parseData, IInv, Accepted
  <2>1. PICK now \in (arrived[c] + 1)..Size(r) :
          /\ arrived' = [arrived EXCEPT ![c] = now]
          /\ onData(c, now)
    BY <1>3 DEF parseData
  <2>2. arrived'[c] = now /\ \A d \in Conns \ {c} : arrived'[d] = arrived[d]
    BY <2>1 DEF IInv, Shapes
  <2>3. /\ reading'[c] = "line" => now < LF(r)
        /\ reading'[c] = "post" => r.method = "POST"
    <3>1. CASE reading[c] = "line" /\ now < LF(r) /\ UNCHANGED reading
      BY <3>1
    <3>2. CASE reading' = [reading EXCEPT ![c] = "off"]
      BY <3>2 DEF IInv, Shapes
    <3>3. CASE /\ MethodIn(r, HeaderChars(r, arrived[c], now)) = "POST"
               /\ reading' = [reading EXCEPT ![c] = "post"]
      <4>1. HeaderChars(r, arrived[c], now) \in Int
        <5>1. LF(r) \in Nat /\ Size(r) \in Nat
          BY <2>0, RequestParts
        <5>2. arrived[c] \in Nat /\ now \in Int
          BY <2>1, <5>1 DEF IInv, Shapes
        <5> QED BY <5>1, <5>2 DEF HeaderChars
      <4>2. r.method = "POST"
        BY <2>0, <3>3, <4>1, MethodCut
      <4> QED BY <3>3, <4>2 DEF IInv, Shapes
    <3>4. CASE reading[c] = "post" /\ UNCHANGED reading
      BY <3>4 DEF LineRead
    <3> QED BY <2>1, <3>1, <3>2, <3>3, <3>4 DEF onData
  <2>4. \A d \in Conns : sock'[d] # "none" => sock[d] # "none"
    <3>1. Silent(c) \/ Joins(c) => UNCHANGED sock
      BY DEF Silent, Joins, initSseClient
    <3>2. Replies(c) => \A d \in Conns \ {c} : sock'[d] = sock[d]
      BY DEF Replies, IInv, Shapes
    <3> QED BY <1>3, <2>0, <3>1, <3>2, ParseDataEffect
  <2>5. \A d \in Conns \ {c} : request'[d] = request[d] /\ reading'[d] = reading[d]
                             /\ arrived'[d] = arrived[d]
    BY <2>0, <2>2
  <2> SUFFICES ASSUME NEW d \in Conns
               PROVE  /\ sock'[d] = "none" => reading'[d] = "line" /\ arrived'[d] = 0
                      /\ sock'[d] # "none" /\ reading'[d] = "line" => arrived'[d] < LF(request'[d])
                      /\ reading'[d] = "post" => request'[d].method = "POST"
    BY DEF LineRead
  <2>6. CASE d = c
    BY <2>0, <2>2, <2>3, <2>6
  <2>7. CASE d # c
    BY <2>0, <2>4, <2>5, <2>7 DEF LineRead
  <2> QED BY <2>6, <2>7
<1>4. ASSUME NEW c \in Conns, End(c) PROVE LineRead'
  <2>1. UNCHANGED <<request, arrived, reading>>
    BY <1>4 DEF End, connVars
  <2>2. \A d \in Conns : sock'[d] = "none" <=> sock[d] = "none"
    BY <1>4 DEF End, IInv, Shapes
  <2> QED BY <2>1, <2>2 DEF LineRead
<1>5. ASSUME NEW c \in Conns, Reset(c) PROVE LineRead'
  <2>1. /\ UNCHANGED <<request, arrived, reading>> /\ worker[c] \in Workers
        /\ sock' = [d \in Conns |-> IF worker[d] = worker[c] THEN "closed" ELSE sock[d]]
    BY <1>5 DEF Reset, connVars, IInv, Accepted
  <2>2. \A d \in Conns : sock'[d] = "none" <=> sock[d] = "none"
    BY <2>1, NodeAssumption DEF IInv, Accepted
  <2> QED BY <2>1, <2>2 DEF LineRead
<1> QED BY <1>1, <1>2, <1>3, <1>4, <1>5 DEF Next

\* However a request is cut into chunks, the answer is the one the README's
\* rules give it, with the three exceptions RoutedByRules lists.  The last, of a
\* line cut in two, is tight: such a request is answered as one for a proper
\* prefix of its path, possibly another route's, and never as a broadcast.
THEOREM RoutesCorrect == Spec => RoutedByRules
<1>1. Init => LineRead
  BY DEF Init, LineRead
<1>2. IInv /\ LineRead /\ [Next]_vars => LineRead'
  BY LineReadStep
<1> DEFINE Routed ==
      \A c \in Conns : response'[c] # response[c] =>
        Allowed(c, response'[c][Len(response'[c])])
<1>3. IInv /\ LineRead /\ [Next]_vars => Routed
  <2> SUFFICES ASSUME IInv, LineRead, [Next]_vars PROVE Routed
    OBVIOUS
  <2>1. ASSUME NEW c \in Conns, NEW status,
               response' = [response EXCEPT ![c] = Append(@, status)],
               Allowed(c, status)
        PROVE  Routed
    <3>1. response'[c] = Append(response[c], status)
      BY <2>1 DEF IInv, Shapes
    <3>2. response'[c][Len(response'[c])] = status
      BY <3>1 DEF IInv, Shapes
    <3>3. \A d \in Conns \ {c} : response'[d] = response[d]
      BY <2>1 DEF IInv, Shapes
    <3> QED BY <2>1, <3>2, <3>3
  <2>2. CASE UNCHANGED response
    BY <2>2
  <2>3. ASSUME NEW c \in Conns, parseData(c) PROVE Routed
    BY <2>1, <2>2, <2>3, DataRouted
  <2> QED BY <2>2, <2>3 DEF Next, Connect, End, Reset, vars
<1>4. Routed => \A c \in Conns : response'[c] # response[c] =>
       LET r == request[c]
           status == response'[c][Len(response'[c])]
       IN \/ status = RuleStatus(r)
          \/ status = "204" /\ r.method = "OPTIONS"
          \/ status = "411" /\ r.method = "POST" /\ r.length = NULL
          \/ /\ status \in StatusesOfPrefixes(r)
             /\ reading[c] = "line"
             /\ arrived[c] \in (Version + 2)..(LF(r) - 2)
  BY DEF Allowed
<1> QED BY <1>1, <1>2, <1>3, <1>4, Invariance, PTL DEF Spec, RoutedByRules

----------------------------------------------------------------------------
(* NodeServer implements SseBroadcast                                      *)

\* What the abstract service sees of the server
Subscribers == [w \in Workers |-> OpenStreams(w)]
Published ==
  [w \in Workers |-> {c \in Conns : worker[c] = w /\ response[c] = <<"202">>}]

\* A step that gives no 202, writes no message and opens or closes no stream
LEMMA ServiceStutters ==
  ASSUME UNCHANGED stream, Published' = Published,
         \A w \in Workers : OpenStreams(w)' = OpenStreams(w)
  PROVE  UNCHANGED Service!vars
BY DEF Service!vars, Published

\* No one is subscribed and nothing is published at the start.
LEMMA ServiceInit == Init => Service!Init
<1> SUFFICES ASSUME Init PROVE Service!Init
  OBVIOUS
<1>1. \A w \in Workers : OpenStreams(w) = {}
  BY DEF Init, OpenStreams
<1>2. Published = [w \in Workers |-> {}]
  BY NoAnswer DEF Init, Published
<1> QED BY <1>1, <1>2 DEF Service!Init, Init, Published

\* A chunk stutters, publishes to the worker's open streams, or subscribes.
LEMMA ServiceData ==
  ASSUME IInv, NEW c \in Conns, parseData(c)
  PROVE  Service!Next \/ UNCHANGED Service!vars
<1> DEFINE w == worker[c]
<1>0. UNCHANGED worker /\ w \in Workers
  BY ParseDataEffect DEF IInv, Accepted
<1>1. CASE Silent(c)
  <2>1. \A v \in Workers : OpenStreams(v)' = OpenStreams(v)
    BY <1>0, <1>1 DEF Silent, OpenStreams
  <2>2. UNCHANGED stream /\ Published' = Published
    BY <1>0, <1>1 DEF Silent, Published
  <2> QED BY <2>1, <2>2, ServiceStutters
<1>2. CASE sock[c] = "open" /\ response[c] = <<>> /\ Replies(c)
  <2>1. PICK status \in Statuses \ {"stream"}, state \in {"ended", "closed"} :
          /\ response' = [response EXCEPT ![c] = <<status>>]
          /\ sock' = [sock EXCEPT ![c] = state]
          /\ \/ status = "202" /\ broadcast(c)
             \/ status # "202" /\ UNCHANGED stream
    BY <1>2 DEF Replies
  <2>2. /\ response'[c] = <<status>> /\ sock'[c] = state
        /\ \A d \in Conns \ {c} : response'[d] = response[d] /\ sock'[d] = sock[d]
    BY <2>1 DEF IInv, Shapes
  <2>3. \A v \in Workers : OpenStreams(v)' = OpenStreams(v)
    BY <1>0, <1>2, <2>2 DEF OpenStreams
  <2>4. c \notin Published[w]
    BY <1>0, <1>2, NoAnswer DEF Published
  <2>5. CASE status = "202" /\ broadcast(c)
    <3>1. Published' = [Published EXCEPT ![w] = @ \cup {c}]
      <4>1. \A v \in Workers :
              {d \in Conns : worker[d] = v /\ response'[d] = <<"202">>} =
                IF v = w THEN Published[v] \cup {c} ELSE Published[v]
        BY <1>0, <2>2, <2>5 DEF Published
      <4>2. Published' = [v \in Workers |->
                           {d \in Conns : worker[d] = v /\ response'[d] = <<"202">>}]
        BY <1>0 DEF Published
      <4>3. Published' = [v \in Workers |->
                           IF v = w THEN Published[v] \cup {c} ELSE Published[v]]
        BY <4>1, <4>2
      <4>4. PICK p : p = Published
        OBVIOUS
      <4>5. p = [v \in Workers |-> p[v]]
        BY <4>4 DEF Published
      <4> QED BY <1>0, <4>3, <4>4, <4>5
    <3>2. stream' = [d \in Conns |-> IF d \in OpenStreams(w) THEN Append(stream[d], c)
                                                             ELSE stream[d]]
      BY <1>0, <2>5, ListedIsOpen DEF broadcast
    <3>3. Service!Publish(w, c)
      BY <1>0, <2>3, <2>4, <3>1, <3>2 DEF Service!Publish, Published
    <3> QED
      <4>1. \E g \in Workers : \E m \in Conns : Service!Publish(g, m)
        BY <1>0, <3>3 DEF Service!Publish
      <4> QED
        BY <4>1 DEF Service!Next
  <2>6. CASE status # "202" /\ UNCHANGED stream
    <3>1. Published' = Published
      <4>1. \A d \in Conns : response'[d] = <<"202">> <=> response[d] = <<"202">>
        BY <1>2, <2>2, <2>6
      <4> QED BY <1>0, <4>1 DEF Published
    <3> QED BY <2>3, <2>6, <3>1, ServiceStutters
  <2> QED BY <2>1, <2>5, <2>6
<1>3. CASE sock[c] = "open" /\ response[c] = <<>> /\ Joins(c)
  <2>1. /\ response'[c] = <<"stream">>
        /\ \A d \in Conns \ {c} : response'[d] = response[d]
        /\ UNCHANGED <<sock, stream>>
    BY <1>3 DEF Joins, initSseClient, IInv, Shapes
  <2>2. OpenStreams(w)' = OpenStreams(w) \cup {c}
    BY <1>0, <1>3, <2>1 DEF OpenStreams
  <2>3. \A v \in Workers : v # w => OpenStreams(v)' = OpenStreams(v)
    BY <1>0, <1>3, <2>1 DEF OpenStreams
  <2>4. Subscribers' = [Subscribers EXCEPT ![w] = @ \cup {c}]
    BY <1>0, <2>2, <2>3 DEF Subscribers
  <2>5. \A v \in Workers : c \notin OpenStreams(v)
    BY <1>3, NoAnswer DEF OpenStreams
  <2>6. stream[c] = <<>>
    BY <1>3 DEF IInv, Unheard
  <2>7. Published' = Published
    <3>1. \A d \in Conns : response'[d] = <<"202">> <=> response[d] = <<"202">>
      BY <1>3, <2>1
    <3> QED BY <1>0, <3>1 DEF Published
  <2>8. Service!Subscribe(w, c)
    BY <2>1, <2>4, <2>5, <2>6, <2>7 DEF Service!Subscribe, Subscribers, Published
  <2> QED BY <1>0, <2>8 DEF Service!Next
<1> QED BY <1>1, <1>2, <1>3, ParseDataEffect

\* A closing connection leaves if it was a stream, and a crash makes all the
\* streams of its worker leave.
LEMMA ServiceLeave ==
  ASSUME IInv, NEW w \in Workers, NEW gone \in SUBSET OpenStreams(w),
         OpenStreams(w)' = OpenStreams(w) \ gone,
         \A v \in Workers : v # w => OpenStreams(v)' = OpenStreams(v),
         UNCHANGED <<stream, response, worker>>
  PROVE  Service!Next
<1>1. Subscribers' = [Subscribers EXCEPT ![w] = @ \ gone]
  BY DEF Subscribers
<1>2. Published' = Published
  BY DEF Published
<1>3. stream' = [c \in Conns |->
                  IF c \in {} THEN SubSeq(stream[c], 1, Len(stream[c]) - 1)
                            ELSE stream[c]]
  BY DEF IInv, Shapes
<1>4. Service!Leave(w, gone)
  <2> DEFINE missed == {}
  <2>1. missed \in SUBSET gone
    OBVIOUS
  <2> QED BY <1>1, <1>2, <1>3, <2>1 DEF Service!Leave, Subscribers, Published
<1> QED BY <1>4 DEF Service!Next

\* Every step of the server is a step of the service or invisible to it.
LEMMA ServiceNext == IInv /\ [Next]_vars => [Service!Next]_Service!vars
<1> SUFFICES ASSUME IInv, [Next]_vars
             PROVE  Service!Next \/ UNCHANGED Service!vars
  OBVIOUS
<1>1. CASE UNCHANGED vars
  <2>1. \A w \in Workers : OpenStreams(w)' = OpenStreams(w)
    BY <1>1 DEF vars, OpenStreams
  <2> QED BY <1>1, <2>1, ServiceStutters DEF vars, Published
<1>2. ASSUME NEW c \in Conns, NEW w \in Workers, NEW r \in Requests[c],
             Connect(c, w, r)
      PROVE  UNCHANGED Service!vars
  <2>1. /\ UNCHANGED <<response, stream>>
        /\ response[c] = <<>>
        /\ \A d \in Conns \ {c} : worker'[d] = worker[d] /\ sock'[d] = sock[d]
    BY <1>2 DEF Connect, IInv, Shapes, Accepted
  <2>2. \A v \in Workers : OpenStreams(v)' = OpenStreams(v)
    BY <2>1 DEF OpenStreams
  <2>3. \A d \in Conns : response[d] = <<"202">> => worker'[d] = worker[d]
    BY <2>1, NoAnswer
  <2> QED BY <2>1, <2>2, <2>3, ServiceStutters DEF Published
<1>3. ASSUME NEW c \in Conns, parseData(c)
      PROVE  Service!Next \/ UNCHANGED Service!vars
  BY <1>3, ServiceData
<1>4. ASSUME NEW c \in Conns, End(c)
      PROVE  Service!Next
  <2> DEFINE w == worker[c]
             gone == {c} \cap OpenStreams(w)
  <2>1. w \in Workers /\ UNCHANGED <<worker, response, stream>>
        /\ sock'[c] = "closed" /\ \A d \in Conns \ {c} : sock'[d] = sock[d]
    BY <1>4 DEF End, connVars, IInv, Shapes, Accepted
  <2>2. OpenStreams(w)' = OpenStreams(w) \ gone
    BY <2>1 DEF OpenStreams
  <2>3. \A v \in Workers : v # w => OpenStreams(v)' = OpenStreams(v)
    BY <2>1 DEF OpenStreams
  <2> QED BY <2>1, <2>2, <2>3, ServiceLeave
<1>5. ASSUME NEW c \in Conns, Reset(c)
      PROVE  Service!Next
  <2> DEFINE w == worker[c]
  <2>1. /\ w \in Workers /\ UNCHANGED <<worker, response, stream>>
        /\ sock' = [d \in Conns |-> IF worker[d] = w THEN "closed" ELSE sock[d]]
    BY <1>5 DEF Reset, connVars, IInv, Accepted
  <2>2. OpenStreams(w)' = OpenStreams(w) \ OpenStreams(w)
    BY <2>1 DEF OpenStreams
  <2>3. \A v \in Workers : v # w => OpenStreams(v)' = OpenStreams(v)
    BY <2>1 DEF OpenStreams
  <2> QED BY <2>1, <2>2, <2>3, ServiceLeave
<1> QED BY <1>1, <1>2, <1>3, <1>4, <1>5 DEF Next

\* Each worker of node.js/server.js implements the README's broadcast service:
\* a message goes to exactly the streams open at that moment, once and in the
\* same order for all of them.
THEOREM ServiceImplemented == Spec => ImplementsService
<1>1. Init => Service!Init
  BY ServiceInit
<1>2. IInv /\ [Next]_vars => [Service!Next]_Service!vars
  BY ServiceNext
<1> QED BY <1>1, <1>2, Invariance, PTL DEF Spec, ImplementsService, Service!Spec

----------------------------------------------------------------------------
(* The safety core of EveryRequestAnswered                                 *)

\* A request that is Answerable and not answered yet waits for its client's next
\* chunk and for nothing else: its worker is alive and reads it, and there is
\* something left to read.
UnansweredWaits ==
  \A c \in Conns :
    sock[c] = "open" /\ response[c] = <<>> /\ Answerable(request[c]) =>
      up[worker[c]] /\ reading[c] # "off" /\ arrived[c] < Size(request[c])

\* The same, of every request
Waits(c) ==
  sock[c] = "open" /\ response[c] = <<>> =>
    /\ reading[c] # "off"
    /\ reading[c] = "post" /\ Answerable(request[c]) => arrived[c] < Size(request[c])
WaitsOK == \A c \in Conns : Waits(c)

\* The handler of a POST keeps silent only if the body is incomplete.
LEMMA PostWaits ==
  ASSUME NEW c \in Conns, request[c] \in Request, request[c].method = "POST",
         response[c] \in Seq(Statuses), response \in [Conns -> Seq(Statuses)],
         NEW now \in Int, now <= Size(request[c]), handlePostRequest(c, now),
         response'[c] = <<>>, Answerable(request[c])
  PROVE  now < Size(request[c])
<1> DEFINE r == request[c]
<1>1. ASSUME NEW status, response' = [response EXCEPT ![c] = Append(@, status)]
      PROVE  FALSE
  <2>1. response'[c] = Append(response[c], status)
    BY <1>1
  <2>2. PICK s \in Seq(Statuses) : s = response[c]
    OBVIOUS
  <2>3. Append(s, status) # <<>>
    OBVIOUS
  <2> QED BY <2>1, <2>2, <2>3
<1>2. now < HeadersEnd(r) \/ (r.length # NULL /\ ~BodyComplete(r, now))
  BY <1>1, HandleRequestWrites DEF handlePostRequest, writeHead
<1>3. r.length \in {NULL, r.body} /\ r.body \in Nat
  BY RequestParts DEF Answerable
<1>4. HeadersEnd(r) \in Nat /\ Size(r) = HeadersEnd(r) + r.body
  BY RequestParts
<1>5. CASE now < HeadersEnd(r)
  BY <1>3, <1>4, <1>5
<1>6. CASE r.length # NULL /\ ~BodyComplete(r, now)
  <2>1. r.length = r.body /\ now - HeadersEnd(r) # r.body
    BY <1>3, <1>6 DEF BodyComplete
  <2> QED BY <1>3, <1>4, <2>1
<1> QED BY <1>2, <1>5, <1>6

LEMMA WaitsStep == IInv /\ LineRead /\ WaitsOK /\ [Next]_vars => WaitsOK'
<1> SUFFICES ASSUME IInv, LineRead, WaitsOK, [Next]_vars PROVE WaitsOK'
  OBVIOUS
<1>0. Shapes
  BY DEF IInv
<1>1. CASE UNCHANGED vars
  BY <1>1 DEF vars, WaitsOK, Waits
<1>2. ASSUME NEW c \in Conns, NEW w \in Workers, NEW r \in Requests[c],
             Connect(c, w, r)
      PROVE  WaitsOK'
  <2>1. reading[c] = "line" /\ UNCHANGED <<reading, arrived, response>>
    BY <1>2 DEF Connect, LineRead
  <2>2. \A d \in Conns \ {c} : sock'[d] = sock[d] /\ request'[d] = request[d]
    BY <1>0, <1>2 DEF Connect, Shapes
  <2> QED BY <2>1, <2>2 DEF WaitsOK, Waits
<1>3. ASSUME NEW c \in Conns, parseData(c) PROVE WaitsOK'
  <2> DEFINE r == request[c]
  <2>0. /\ UNCHANGED request /\ r \in Request /\ arrived[c] \in Nat
        /\ \A d \in Conns \ {c} : reading'[d] = reading[d]
    BY <1>3, ParseDataEffect DEF parseData, IInv, Accepted, Shapes
  <2>1. PICK now \in (arrived[c] + 1)..Size(r) :
          /\ arrived' = [arrived EXCEPT ![c] = now]
          /\ onData(c, now)
    BY <1>3 DEF parseData
  <2>2. /\ now \in Int /\ now <= Size(r)
        /\ arrived'[c] = now /\ \A d \in Conns \ {c} : arrived'[d] = arrived[d]
    BY <1>0, <2>0, <2>1, RequestParts DEF Shapes
  <2>3. \A d \in Conns \ {c} : sock'[d] = sock[d] /\ response'[d] = response[d]
    <3>1. Silent(c) => UNCHANGED <<sock, response>>
      BY DEF Silent
    <3>2. Joins(c) => \A d \in Conns \ {c} : sock'[d] = sock[d] /\ response'[d] = response[d]
      BY <1>0 DEF Joins, initSseClient, Shapes
    <3>3. Replies(c) => \A d \in Conns \ {c} : sock'[d] = sock[d] /\ response'[d] = response[d]
      BY <1>0 DEF Replies, Shapes
    <3> QED BY <1>3, <3>1, <3>2, <3>3, ParseDataEffect
  <2>4. Waits(c)'
    <3> SUFFICES ASSUME response'[c] = <<>>
                 PROVE  /\ reading'[c] # "off"
                        /\ reading'[c] = "post" /\ Answerable(r) => now < Size(r)
      BY <2>0, <2>2 DEF Waits
    <3>0. \A m, p : ~handleRequest(c, Route(m, p))
      <4> SUFFICES ASSUME NEW m, NEW p, handleRequest(c, Route(m, p)) PROVE FALSE
        OBVIOUS
      <4>1. response'[c] = Append(response[c], Route(m, p))
        BY <1>0, HandleRequestWrites DEF Shapes
      <4>2. PICK s \in Seq(Statuses) : s = response[c]
        BY <1>0 DEF Shapes
      <4>3. Append(s, Route(m, p)) # <<>>
        OBVIOUS
      <4> QED BY <4>1, <4>2, <4>3
    <3>1. CASE reading[c] = "line" /\ now < LF(r) /\ UNCHANGED reading
      BY <3>1
    <3>2. CASE reading[c] = "line" /\ now >= LF(r)
               /\ MethodIn(r, HeaderChars(r, arrived[c], now)) = "POST"
               /\ reading' = [reading EXCEPT ![c] = "post"] /\ handlePostRequest(c, now)
      <4>0. HeaderChars(r, arrived[c], now) \in Int
        BY <2>0, <2>2, RequestParts DEF HeaderChars
      <4>1. r.method = "POST" /\ reading'[c] = "post"
        BY <1>0, <2>0, <3>2, <4>0, MethodCut DEF Shapes
      <4> QED BY <1>0, <2>0, <2>2, <3>2, <4>1, PostWaits DEF Shapes
    <3>3. CASE reading[c] = "post" /\ handlePostRequest(c, now) /\ UNCHANGED reading
      <4>1. r.method = "POST"
        BY <3>3 DEF LineRead
      <4> QED BY <1>0, <2>0, <2>2, <3>3, <4>1, PostWaits DEF Shapes
    <3> QED BY <2>1, <3>0, <3>1, <3>2, <3>3 DEF onData
  <2> QED BY <2>0, <2>2, <2>3, <2>4 DEF WaitsOK, Waits
<1>4. ASSUME NEW c \in Conns, End(c) PROVE WaitsOK'
  BY <1>0, <1>4 DEF End, connVars, WaitsOK, Waits, Shapes
<1>5. ASSUME NEW c \in Conns, Reset(c) PROVE WaitsOK'
  BY <1>0, <1>5 DEF Reset, connVars, WaitsOK, Waits, Shapes
<1> QED BY <1>1, <1>2, <1>3, <1>4, <1>5 DEF Next

\* However a request is cut into chunks, the server never comes to wait for
\* something that does not come: with the reads that Fairness grants, and the
\* characters being finite in number, this is why every request is answered.
THEOREM NeverStuck == Spec => []UnansweredWaits
<1>1. Init => LineRead /\ WaitsOK
  BY DEF Init, LineRead, WaitsOK, Waits
<1>2. IInv /\ LineRead /\ WaitsOK /\ [Next]_vars => LineRead' /\ WaitsOK'
  BY LineReadStep, WaitsStep
<1>3. IInv /\ LineRead /\ WaitsOK => UnansweredWaits
  <2> SUFFICES ASSUME IInv, LineRead, WaitsOK, NEW c \in Conns,
                      sock[c] = "open", response[c] = <<>>, Answerable(request[c])
               PROVE  up[worker[c]] /\ reading[c] # "off" /\ arrived[c] < Size(request[c])
    BY DEF UnansweredWaits
  <2>1. up[worker[c]] /\ request[c] \in Request /\ reading[c] \in {"line", "post", "off"}
    BY DEF IInv, Accepted, Shapes
  <2>2. arrived[c] < LF(request[c]) => arrived[c] < Size(request[c])
    <3>1. PICK r \in Request : r = request[c]
      BY <2>1
    <3>2. LF(r) \in Nat /\ Size(r) \in Nat /\ LF(r) < Size(r)
      BY <3>1, RequestParts
    <3> QED BY <3>1, <3>2 DEF IInv, Shapes
  <2> QED BY <2>1, <2>2 DEF WaitsOK, Waits, LineRead
<1> QED BY <1>1, <1>2, <1>3, Invariance, PTL DEF Spec
=============================================================================
