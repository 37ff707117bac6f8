------------------------------ MODULE GoBroker ------------------------------
(***************************************************************************)
(* go/server.go: a goroutine per /sse client, which subscribes a buffered  *)
(* channel and copies its messages to the response until the client is     *)
(* gone, and one goroutine that publishes the time every second: it ranges *)
(* over the map of subscribers and sends to each channel in turn.          *)
(*                                                                         *)
(* A message is named by its tick, a channel by its client.  The map has   *)
(* no lock: when two goroutines are in it at once and one of them writes,  *)
(* the runtime may notice and end the process.                             *)
(***************************************************************************)
EXTENDS Integers, Sequences, FiniteSets

CONSTANTS Clients,  \* those that may open /sse, once each
          MsgBuf,   \* capacity of a channel, msgBuf
          NumTicks  \* bound: the messages the publisher sends

ASSUME BrokerAssumption ==
  /\ IsFiniteSet(Clients)
  /\ MsgBuf \in Nat \ {0}
  /\ NumTicks \in Nat

VARIABLES
  conn,        \* "none", "open", "stalled" (buffers full, writes block), "closed"
  pc,          \* client -> the next step of its handler
  messages,    \* client -> what its channel holds
  held,        \* client -> the msg its handler has received, or <<>>
  stream,      \* client -> messages written to it while it was there
  subscribers, \* the keys of Broker.subscribers
  pub,         \* publisher: "sleep", "range" (between two sends) or "send"
  tick,        \* the last tick published
  at,          \* the channels `range' has produced for this tick, oldest first
  todo,        \* history: the subscribers when this tick began
  fatal        \* has the runtime ended the process?

publisher == <<pub, tick, at, todo>>
handlers == <<pc, messages, held, stream, subscribers>>
vars == <<conn, handlers, publisher, fatal>>

Init ==
  /\ conn = [c \in Clients |-> "none"]
  /\ pc = [c \in Clients |-> "none"]
  /\ messages = [c \in Clients |-> <<>>]
  /\ held = [c \in Clients |-> <<>>]
  /\ stream = [c \in Clients |-> <<>>]
  /\ subscribers = {}
  /\ pub = "sleep"
  /\ tick = 0
  /\ at = <<>>
  /\ todo = {}
  /\ fatal = FALSE

goto(c, from, to) == pc[c] = from /\ pc' = [pc EXCEPT ![c] = to]

\* The goroutines that are writing to the map
Writing == {c \in Clients : pc[c] \in {"subscribing", "unsubscribing"}}

\* The check for concurrent access is made on a best effort.
touchMap == fatal' = FALSE \/ (Writing # {} /\ fatal' = TRUE)

----------------------------------------------------------------------------
(* A client, and the goroutine that serves it                              *)

\* The response headers and `:ok' are flushed before Subscribe is called.
Open(c) ==
  /\ conn[c] = "none"
  /\ conn' = [conn EXCEPT ![c] = "open"]
  /\ goto(c, "none", "subscribe")
  /\ UNCHANGED <<messages, held, stream, subscribers, publisher, fatal>>

\* A client stops reading, reads on, or goes away.
Behave(c) ==
  /\ \/ conn[c] = "open" /\ conn' = [conn EXCEPT ![c] = "stalled"]
     \/ conn[c] = "stalled" /\ conn' = [conn EXCEPT ![c] = "open"]
     \/ conn[c] \in {"open", "stalled"} /\ conn' = [conn EXCEPT ![c] = "closed"]
  /\ UNCHANGED <<handlers, publisher, fatal>>

\* make(chan []byte, msgBuf), and the assignment to the map in two steps
Subscribe(c) ==
  /\ \/ /\ goto(c, "subscribe", "subscribing")
        /\ touchMap
        /\ UNCHANGED subscribers
     \/ /\ goto(c, "subscribing", "loop")
        /\ subscribers' = subscribers \cup {c}
        /\ UNCHANGED fatal
  /\ UNCHANGED <<conn, messages, held, stream, publisher>>

\* select chooses freely among the cases that are ready.
receive(c) ==
  /\ goto(c, "loop", "flush")
  /\ messages[c] # <<>>
  /\ held' = [held EXCEPT ![c] = <<Head(messages[c])>>]
  /\ messages' = [messages EXCEPT ![c] = Tail(@)]
  /\ UNCHANGED <<conn, stream, subscribers, publisher, fatal>>

\* Fprintf and Flush: a write to a closed connection fails, and nobody looks.
flush(c) ==
  /\ goto(c, "flush", "loop")
  /\ conn[c] # "stalled"
  /\ IF conn[c] = "open"
       THEN stream' = [stream EXCEPT ![c] = @ \o held[c]]
       ELSE UNCHANGED stream
  /\ held' = [held EXCEPT ![c] = <<>>]
  /\ UNCHANGED <<conn, messages, subscribers, publisher, fatal>>

\* Mutant of Unsubscribe: the delete is forgotten
unsubscribeNothing(c) ==
  /\ \/ /\ goto(c, "loop", "unsubscribing")
        /\ conn[c] = "closed"
        /\ touchMap
     \/ /\ goto(c, "unsubscribing", "returned")
        /\ UNCHANGED fatal
  /\ UNCHANGED <<conn, messages, held, stream, subscribers, publisher>>

\* CloseNotify is ready; what the channel still holds stays in it.
Unsubscribe(c) ==
  /\ \/ /\ goto(c, "loop", "unsubscribing")
        /\ conn[c] = "closed"
        /\ touchMap
        /\ UNCHANGED subscribers
     \/ /\ goto(c, "unsubscribing", "returned")
        /\ subscribers' = subscribers \ {c}
        /\ UNCHANGED fatal
  /\ UNCHANGED <<conn, messages, held, stream, publisher>>

----------------------------------------------------------------------------
(* The publisher                                                           *)

wake ==
  /\ pub = "sleep"
  /\ tick < NumTicks
  /\ pub' = "range"
  /\ tick' = tick + 1
  /\ at' = <<>>
  /\ todo' = subscribers
  /\ UNCHANGED <<conn, handlers, fatal>>

Visited == {at[i] : i \in DOMAIN at}

\* range yields the keys in any order.  A key deleted before it is reached is
\* not yielded; one that is added meanwhile may be or not.
nextKey(c) ==
  /\ pub = "range"
  /\ c \in subscribers \ Visited
  /\ pub' = "send"
  /\ at' = Append(at, c)
  /\ touchMap
  /\ UNCHANGED <<conn, handlers, tick, todo>>

\* Mutants of Publish: a channel made one too large, and a select with a default
\* that drops what does not fit
PublishOneMore ==
  /\ pub = "send"
  /\ LET ch == at[Len(at)] IN
     /\ Len(messages[ch]) <= MsgBuf
     /\ messages' = [messages EXCEPT ![ch] = Append(@, tick)]
  /\ pub' = "range"
  /\ UNCHANGED <<conn, pc, held, stream, subscribers, tick, at, todo, fatal>>
PublishOrDrop ==
  /\ pub = "send"
  /\ LET ch == at[Len(at)] IN
     messages' = [messages EXCEPT ![ch] = IF Len(@) < MsgBuf THEN Append(@, tick) ELSE @]
  /\ pub' = "range"
  /\ UNCHANGED <<conn, pc, held, stream, subscribers, tick, at, todo, fatal>>

\* ch <- msg: waits while the channel is full.
Publish ==
  /\ pub = "send"
  /\ LET ch == at[Len(at)] IN
     /\ Len(messages[ch]) < MsgBuf
     /\ messages' = [messages EXCEPT ![ch] = Append(@, tick)]
  /\ pub' = "range"
  /\ UNCHANGED <<conn, pc, held, stream, subscribers, tick, at, todo, fatal>>

\* Mutant of rangeEnds: the loop ends after its first key
rangeEndsEarly ==
  /\ pub = "range"
  /\ todo \cap subscribers # {} => at # <<>>
  /\ pub' = "sleep"
  /\ touchMap
  /\ UNCHANGED <<conn, handlers, tick, at, todo>>

rangeEnds ==
  /\ pub = "range"
  /\ todo \cap subscribers \subseteq Visited
  /\ pub' = "sleep"
  /\ touchMap
  /\ UNCHANGED <<conn, handlers, tick, at, todo>>

----------------------------------------------------------------------------

handle(c) == Subscribe(c) \/ receive(c) \/ flush(c) \/ Unsubscribe(c)
publish == wake \/ (\E c \in Clients : nextKey(c)) \/ Publish \/ rangeEnds

Next ==
  /\ ~fatal
  /\ \/ \E c \in Clients : Open(c) \/ Behave(c) \/ handle(c)
     \/ publish

Spec == Init /\ [][Next]_vars

\* Every goroutine that can run does, and select, which picks a ready case at
\* random, picks CloseNotify at some point if it is ready time and again.
Fairness ==
  /\ WF_vars(~fatal /\ publish)
  /\ \A c \in Clients : WF_vars(~fatal /\ handle(c)) /\ SF_vars(~fatal /\ Unsubscribe(c))
FairSpec == Spec /\ Fairness

----------------------------------------------------------------------------
(* Properties                                                              *)

\* Every variable keeps its shape; no channel exceeds its capacity.
TypeOK ==
  /\ conn \in [Clients -> {"none", "open", "stalled", "closed"}]
  /\ pc \in [Clients -> {"none", "subscribe", "subscribing", "loop", "flush",
                         "unsubscribing", "returned"}]
  /\ messages \in [Clients -> Seq(1..NumTicks)]
  /\ held \in [Clients -> Seq(1..NumTicks)]
  /\ stream \in [Clients -> Seq(1..NumTicks)]
  /\ subscribers \subseteq Clients
  /\ pub \in {"sleep", "range", "send"}
  /\ tick \in 0..NumTicks
  /\ at \in Seq(Clients)
  /\ todo \subseteq Clients
  /\ fatal \in BOOLEAN
  /\ \A c \in Clients : Len(messages[c]) <= MsgBuf

\* What has been sent to client c, read or not
Sent(c) == stream[c] \o held[c] \o messages[c]

\* A client that is still there has been sent consecutive ticks up to the
\* present one: none is lost, doubled or out of order, however its joining, its
\* reading and other clients' coming and going fall into the publisher's loop.
NoGaps ==
  \A c \in Clients : conn[c] # "closed" =>
    LET sent == Sent(c) IN
    /\ \A i \in 1..(Len(sent) - 1) : sent[i + 1] = sent[i] + 1
    /\ sent # <<>> => sent[Len(sent)] \in {tick - 1, tick}
    /\ pub = "sleep" /\ c \in todo => sent # <<>> /\ sent[Len(sent)] = tick

\* A client that has gone leaves the map, and so the number /connections
\* reports, however many messages its handler finds ready instead.
DepartedForgotten ==
  \A c \in Clients :
    conn[c] = "closed" ~> (c \notin subscribers /\ pc[c] = "returned") \/ fatal

\* The publisher only ever stops at a full channel: as long as there is none, a
\* tick reaches every subscriber of its beginning that stays and reads.
DeliveredUnlessFull ==
  \A c \in Clients, n \in 1..NumTicks :
    (tick = n /\ c \in todo)
      ~> \/ n \in {stream[c][i] : i \in DOMAIN stream[c]}
         \/ conn[c] \in {"stalled", "closed"}
         \/ \E d \in Clients : Len(messages[d]) = MsgBuf
         \/ fatal

----------------------------------------------------------------------------
(* A claim of the README that the code does not keep                       *)

\* README.md:7: "broadcast messages to all the clients in ~realtime".  A tick
\* reaches every subscriber of its beginning that stays and reads, unless some
\* client stalls after that; one that stalled before and has left is enough.
TicksReachReaders ==
  \A c \in Clients, n \in 1..NumTicks :
    (tick = n /\ pub # "sleep" /\ c \in todo)
      ~> \/ n \in {stream[c][i] : i \in DOMAIN stream[c]}
         \/ conn[c] = "closed"
         \/ \E d \in Clients : conn[d] = "stalled"
         \/ fatal
=============================================================================
