---------------------------- MODULE GoBrokerProofs ----------------------------
(***************************************************************************)
(* The type invariant and NoGaps of GoBroker hold for any clients, any     *)
(* capacity of a channel and any number of ticks.                          *)
(*                                                                         *)
(* NoGaps is not inductive: between two ticks and within one, how far the  *)
(* last message of a client may lag depends on whether the publisher has   *)
(* been at its channel (Progress), which in turn depends on where its      *)
(* handler is (Served).                                                    *)
(***************************************************************************)
EXTENDS GoBroker, SequenceTheorems, TLAPS

Before == {"none", "subscribe", "subscribing"}

\* The channels that have this tick
Done == {at[i] : i \in 1..(IF pub = "send" THEN Len(at) - 1 ELSE Len(at))}

\* What the step of a handler says of its client
Served ==
  \A c \in Clients :
    /\ conn[c] = "none" <=> pc[c] = "none"
    /\ pc[c] \in Before =>
         /\ c \notin subscribers /\ c \notin todo /\ c \notin Visited
         /\ stream[c] = <<>> /\ messages[c] = <<>>
    /\ pc[c] \in {"loop", "flush"} => c \in subscribers
    /\ pc[c] \in {"unsubscribing", "returned"} => conn[c] = "closed"
    /\ pc[c] # "flush" => held[c] = <<>>

\* The publisher is never at a channel for the second time in a tick.
Ranging ==
  /\ pub = "send" => at # <<>> /\ at[Len(at)] \notin Done
  /\ pub # "sleep" => tick \in 1..NumTicks

Consecutive(s) == \A i \in 1..(Len(s) - 1) : s[i + 1] = s[i] + 1
EndsAt(s, n) == s # <<>> /\ s[Len(s)] = n

\* Between ticks a client has the last one or nothing; within a tick it has it
\* if the publisher has been there, and else the one before or nothing.
Progress ==
  \A c \in Clients : conn[c] # "closed" =>
    LET sent == Sent(c) IN
    /\ Consecutive(sent)
    /\ pub = "sleep" => IF c \in todo THEN EndsAt(sent, tick)
                                      ELSE sent = <<>> \/ EndsAt(sent, tick)
    /\ pub # "sleep" /\ c \in Done => EndsAt(sent, tick)
    /\ pub # "sleep" /\ c \notin Done => sent = <<>> \/ (c \in todo /\ EndsAt(sent, tick - 1))

IInv == TypeOK /\ Served /\ Ranging /\ Progress

----------------------------------------------------------------------------
(* Sequences                                                               *)

LEMMA SentByReceive ==
  ASSUME NEW T, NEW s \in Seq(T), NEW m \in Seq(T), m # <<>>
  PROVE  (s \o <<>>) \o m = (s \o <<Head(m)>>) \o Tail(m)
OBVIOUS

LEMMA SentByFlush ==
  ASSUME NEW T, NEW s \in Seq(T), NEW h \in Seq(T), NEW m \in Seq(T)
  PROVE  ((s \o h) \o <<>>) \o m = (s \o h) \o m
OBVIOUS

\* The next tick continues a sequence that ends at the one before.
LEMMA ConsecutiveAppend ==
  ASSUME NEW T, NEW s \in Seq(T), NEW t \in T, t \in Int,
         Consecutive(s), s = <<>> \/ EndsAt(s, t - 1)
  PROVE  Consecutive(Append(s, t)) /\ EndsAt(Append(s, t), t)
<1> DEFINE a == Append(s, t)
<1>1. /\ Len(s) \in Nat /\ Len(a) = Len(s) + 1 /\ a # <<>>
      /\ \A i \in 1..Len(s) : a[i] = s[i]
      /\ a[Len(s) + 1] = t
      /\ s = <<>> => Len(s) = 0
  BY AppendProperties, EmptySeq
<1> HIDE DEF a
<1>2. EndsAt(a, t)
  BY <1>1 DEF EndsAt
<1>3. Consecutive(a)
  <2> SUFFICES ASSUME NEW i \in 1..Len(s) PROVE a[i + 1] = a[i] + 1
    BY <1>1 DEF Consecutive
  <2>1. CASE i = Len(s)
    BY <1>1, <2>1 DEF EndsAt
  <2>2. CASE i < Len(s)
    BY <1>1, <2>2 DEF Consecutive
  <2> QED
    BY <1>1, <2>1, <2>2
<1> QED
  BY <1>2, <1>3 DEF a

\* Publish continues what ends at the tick before.
LEMMA PublishContinues ==
  ASSUME NEW T, NEW s \in Seq(T), NEW h \in Seq(T), NEW m \in Seq(T), NEW t \in T, t \in Int,
         Consecutive(s \o h \o m), s \o h \o m = <<>> \/ EndsAt(s \o h \o m, t - 1)
  PROVE  Consecutive(s \o h \o Append(m, t)) /\ EndsAt(s \o h \o Append(m, t), t)
<1>1. s \o h \o Append(m, t) = Append(s \o h \o m, t)
  OBVIOUS
<1>2. s \o h \o m \in Seq(T)
  OBVIOUS
<1>3. Consecutive(Append(s \o h \o m, t)) /\ EndsAt(Append(s \o h \o m, t), t)
  BY ONLY <1>2, t \in T, t \in Int, ConsecutiveAppend, Consecutive(s \o h \o m),
          s \o h \o m = <<>> \/ EndsAt(s \o h \o m, t - 1), Zenon
<1> QED
  BY <1>1, <1>3

----------------------------------------------------------------------------

USE BrokerAssumption DEF Before

LEMMA InitIInv == Init => IInv
<1> SUFFICES ASSUME Init PROVE IInv
  OBVIOUS
<1>1. TypeOK
  <2>1. fatal \in BOOLEAN
    BY Zenon DEF Init
  <2> QED
    BY <2>1 DEF Init, TypeOK
<1>2. Served /\ Ranging
  BY DEF Init, Served, Ranging, Visited
<1>3. \A c \in Clients : Sent(c) = <<>>
  BY DEF Init, Sent
<1>4. Progress
  BY <1>3 DEF Init, Progress, Consecutive
<1> QED
  BY <1>1, <1>2, <1>4 DEF IInv

\* What a handler or its client does leaves the publisher alone, and no client
\* that is still there loses what it was sent.
LEMMA PublisherUntouched ==
  ASSUME IInv, UNCHANGED publisher,
         \A c \in Clients : conn'[c] # "closed" => conn[c] # "closed" /\ Sent(c)' = Sent(c)
  PROVE  Ranging' /\ Progress'
<1>1. Done' = Done /\ Ranging'
  BY DEF IInv, Ranging, Done, publisher
<1>2. Progress'
  BY <1>1 DEF IInv, Progress, publisher
<1> QED
  BY <1>1, <1>2

LEMMA HandlerStep ==
  ASSUME IInv, NEW c \in Clients, Open(c) \/ Behave(c) \/ handle(c)
  PROVE  IInv'
<1> USE DEF IInv
<1>0. fatal' \in BOOLEAN
  BY Zenon DEF Open, Behave, handle, Subscribe, receive, flush, Unsubscribe, touchMap, TypeOK
<1>1. CASE Open(c)
  <2>1. TypeOK'
    BY <1>1 DEF Open, goto, TypeOK, publisher
  <2>2. Served'
    BY SMTT(30), <1>1 DEF Open, goto, Served, TypeOK, publisher, Visited
  <2>3. \A d \in Clients : conn'[d] # "closed" => conn[d] # "closed" /\ Sent(d)' = Sent(d)
    BY <1>1 DEF Open, TypeOK, Sent
  <2> QED
    BY <1>1, <2>1, <2>2, <2>3, PublisherUntouched DEF Open
<1>2. CASE Behave(c)
  <2>1. TypeOK'
    BY <1>2 DEF Behave, TypeOK, publisher, handlers
  <2>2. Served'
    BY SMTT(30), <1>2 DEF Behave, Served, TypeOK, publisher, handlers, Visited
  <2>3. \A d \in Clients : conn'[d] # "closed" => conn[d] # "closed" /\ Sent(d)' = Sent(d)
    BY <1>2 DEF Behave, TypeOK, Sent, handlers
  <2> QED
    BY <1>2, <2>1, <2>2, <2>3, PublisherUntouched DEF Behave
<1>3. CASE Subscribe(c)
  <2>1. TypeOK'
    BY <1>0, <1>3 DEF Subscribe, goto, TypeOK, publisher
  <2>2. Served'
    BY SMTT(30), <1>3 DEF Subscribe, goto, Served, TypeOK, publisher, Visited
  <2>3. \A d \in Clients : conn'[d] # "closed" => conn[d] # "closed" /\ Sent(d)' = Sent(d)
    BY <1>3 DEF Subscribe, Sent
  <2> QED
    BY <1>3, <2>1, <2>2, <2>3, PublisherUntouched DEF Subscribe
<1>4. CASE receive(c)
  <2>1. /\ messages[c] \in Seq(1..NumTicks) /\ messages[c] # <<>>
        /\ stream[c] \in Seq(1..NumTicks) /\ held[c] = <<>>
    BY <1>4 DEF receive, goto, Served, TypeOK
  <2>2. /\ messages'[c] = Tail(messages[c]) /\ held'[c] = <<Head(messages[c])>>
        /\ Tail(messages[c]) \in Seq(1..NumTicks) /\ <<Head(messages[c])>> \in Seq(1..NumTicks)
        /\ Len(Tail(messages[c])) <= MsgBuf
    BY <1>4, <2>1 DEF receive, TypeOK
  <2>3. TypeOK'
    BY <1>0, <1>4, <2>2 DEF receive, goto, TypeOK, publisher
  <2>4. Served'
    BY <1>4 DEF receive, goto, Served, TypeOK, publisher, Visited
  <2>5. Sent(c)' = Sent(c)
    BY ZenonT(40), <1>4, <2>1, <2>2, SentByReceive DEF receive, Sent
  <2>6. \A d \in Clients : conn'[d] # "closed" => conn[d] # "closed" /\ Sent(d)' = Sent(d)
    BY <1>4, <2>5 DEF receive, TypeOK, Sent
  <2> QED
    BY <1>4, <2>3, <2>4, <2>6, PublisherUntouched DEF receive
<1>5. CASE flush(c)
  <2>1. /\ stream[c] \in Seq(1..NumTicks) /\ held[c] \in Seq(1..NumTicks)
        /\ messages[c] \in Seq(1..NumTicks)
        /\ stream[c] \o held[c] \in Seq(1..NumTicks) /\ <<>> \in Seq(1..NumTicks)
    BY DEF TypeOK
  <2>2. held'[c] = <<>> /\ (conn[c] = "open" => stream'[c] = stream[c] \o held[c])
    BY <1>5 DEF flush, TypeOK
  <2>3. TypeOK'
    BY <1>0, <1>5, <2>1 DEF flush, goto, TypeOK, publisher
  <2>4. Served'
    BY <1>5 DEF flush, goto, Served, TypeOK, publisher, Visited
  <2>5. conn[c] = "open" => Sent(c)' = Sent(c)
    <3>1. SUFFICES ASSUME conn[c] = "open" PROVE Sent(c)' = Sent(c)
      OBVIOUS
    <3>2. Sent(c)' = ((stream[c] \o held[c]) \o <<>>) \o messages[c]
      BY <1>5, <2>2, <3>1 DEF flush, Sent
    <3> QED
      BY <2>1, <3>2, SentByFlush DEF Sent
  <2>6. conn[c] \in {"open", "closed"}
    BY <1>5 DEF flush, goto, Served, TypeOK
  <2>7. \A d \in Clients : conn'[d] # "closed" => conn[d] # "closed" /\ Sent(d)' = Sent(d)
    BY <1>5, <2>5, <2>6 DEF flush, TypeOK, Sent
  <2> QED
    BY <1>5, <2>3, <2>4, <2>7, PublisherUntouched DEF flush
<1>6. CASE Unsubscribe(c)
  <2>1. TypeOK'
    BY <1>0, <1>6 DEF Unsubscribe, goto, TypeOK, publisher
  <2>2. Served'
    BY <1>6 DEF Unsubscribe, goto, Served, TypeOK, publisher, Visited
  <2>3. \A d \in Clients : conn'[d] # "closed" => conn[d] # "closed" /\ Sent(d)' = Sent(d)
    BY <1>6 DEF Unsubscribe, Sent
  <2> QED
    BY <1>6, <2>1, <2>2, <2>3, PublisherUntouched DEF Unsubscribe
<1> QED
  BY <1>1, <1>2, <1>3, <1>4, <1>5, <1>6 DEF handle

----------------------------------------------------------------------------
(* The publisher                                                           *)

\* A client of the map has been subscribed.
LEMMA StillThere ==
  ASSUME IInv, NEW c \in Clients, conn[c] # "closed", Sent(c) # <<>> \/ c \in todo
  PROVE  c \in subscribers
<1>1. pc[c] \in Before => stream[c] = <<>> /\ held[c] = <<>> /\ messages[c] = <<>> /\ c \notin todo
  BY DEF IInv, Served
<1>2. pc[c] \in Before => Sent(c) = <<>>
  BY <1>1 DEF Sent
<1> QED
  BY <1>1, <1>2 DEF IInv, Served, TypeOK

LEMMA WakeStep ==
  ASSUME IInv, wake
  PROVE  IInv'
<1> USE DEF IInv
<1>1. TypeOK'
  BY DEF wake, handlers, TypeOK
<1>2. Done' = {} /\ Visited' = {}
  BY DEF wake, Done, Visited
<1>3. Served'
  BY <1>2 DEF wake, handlers, Served
<1>4. Ranging'
  BY DEF wake, Ranging, TypeOK
<1>5. Progress'
  <2> SUFFICES ASSUME NEW c \in Clients, conn[c] # "closed"
               PROVE  /\ Consecutive(Sent(c))
                      /\ Sent(c) = <<>> \/ (c \in subscribers /\ EndsAt(Sent(c), tick'  - 1))
    BY <1>2 DEF wake, handlers, Progress, Sent
  <2>1. Consecutive(Sent(c)) /\ (Sent(c) = <<>> \/ EndsAt(Sent(c), tick))
    BY DEF wake, Progress
  <2>2. tick' - 1 = tick
    BY DEF wake, TypeOK
  <2> QED
    BY <2>1, <2>2, StillThere
<1> QED
  BY <1>1, <1>3, <1>4, <1>5

LEMMA NextKeyStep ==
  ASSUME IInv, NEW c \in Clients, nextKey(c)
  PROVE  IInv'
<1> USE DEF IInv
<1>1. TypeOK'
  <2>1. fatal' \in BOOLEAN
    BY Zenon DEF nextKey, touchMap, TypeOK
  <2> QED
    BY <2>1 DEF nextKey, handlers, TypeOK
<1>2. /\ Len(at') = Len(at) + 1 /\ Len(at) \in Nat
      /\ at'[Len(at')] = c
      /\ \A i \in 1..Len(at) : at'[i] = at[i]
      /\ DOMAIN at = 1..Len(at) /\ DOMAIN at' = 1..(Len(at) + 1)
  BY DEF nextKey, TypeOK
<1>3. Done' = Done /\ Done = Visited /\ Visited' = Visited \cup {c}
  BY <1>2 DEF nextKey, Done, Visited
<1>4. Served'
  BY <1>3 DEF nextKey, handlers, Served
<1>5. Ranging'
  BY <1>2, <1>3 DEF nextKey, Ranging
<1>6. Progress'
  BY <1>3 DEF nextKey, handlers, Progress, Sent
<1> QED
  BY <1>1, <1>4, <1>5, <1>6

LEMMA PublishStep ==
  ASSUME IInv, Publish
  PROVE  IInv'
<1> USE DEF IInv
<1>0. PICK ch \in Clients : ch = at[Len(at)]
  BY DEF Publish, Ranging, TypeOK
<1>1. /\ ch \notin Done
      /\ Len(at) \in Nat \ {0} /\ DOMAIN at = 1..Len(at)
      /\ tick \in 1..NumTicks
  BY <1>0 DEF Publish, Ranging, TypeOK
<1>2. /\ Len(messages[ch]) < MsgBuf
      /\ messages' = [messages EXCEPT ![ch] = Append(@, tick)]
      /\ pub = "send" /\ pub' = "range"
      /\ UNCHANGED <<conn, pc, held, stream, subscribers, tick, at, todo, fatal>>
  BY <1>0 DEF Publish
<1>3. ch \in Visited /\ Done' = Done \cup {ch} /\ Visited' = Visited
  BY <1>0, <1>1, <1>2 DEF Visited, Done
<1>4. /\ stream[ch] \in Seq(1..NumTicks) /\ held[ch] \in Seq(1..NumTicks)
      /\ messages[ch] \in Seq(1..NumTicks)
      /\ Append(messages[ch], tick) \in Seq(1..NumTicks)
      /\ Len(Append(messages[ch], tick)) <= MsgBuf
  BY <1>1, <1>2 DEF TypeOK
<1>5. TypeOK'
  BY <1>2, <1>4 DEF TypeOK
<1>6. Served'
  BY <1>2, <1>3 DEF Served, TypeOK
<1>7. Ranging'
  BY <1>1, <1>2 DEF Ranging
<1>8. Progress'
  <2>1. /\ messages'[ch] = Append(messages[ch], tick)
        /\ stream'[ch] = stream[ch] /\ held'[ch] = held[ch]
    BY <1>1, <1>2 DEF TypeOK
  <2>2. Sent(ch)' = stream[ch] \o held[ch] \o Append(messages[ch], tick)
    BY <2>1 DEF Sent
  <2>3. conn[ch] # "closed" => Consecutive(Sent(ch)) /\ (Sent(ch) = <<>> \/ EndsAt(Sent(ch), tick - 1))
    BY <1>1, <1>2 DEF Progress
  <2>4. conn[ch] # "closed" => Consecutive(Sent(ch)') /\ EndsAt(Sent(ch)', tick)
    <3>1. tick \in Int
      BY <1>1
    <3> QED
      BY <1>1, <1>4, <2>2, <2>3, <3>1, PublishContinues, Zenon DEF Sent
  <2>5. \A c \in Clients \ {ch} : Sent(c)' = Sent(c)
    BY <1>2 DEF Sent, TypeOK
  <2>6. ASSUME NEW c \in Clients, conn[c] # "closed", c # ch
        PROVE  /\ Consecutive(Sent(c)')
               /\ c \in Done => EndsAt(Sent(c)', tick)
               /\ c \notin Done => Sent(c)' = <<>> \/ (c \in todo /\ EndsAt(Sent(c)', tick - 1))
    <3>1. Sent(c)' = Sent(c)
      BY <2>5, <2>6
    <3> QED
      BY <1>2, <2>6, <3>1 DEF Progress
  <2> SUFFICES ASSUME NEW c \in Clients, conn[c] # "closed"
               PROVE  /\ Consecutive(Sent(c)')
                      /\ c \in Done \/ c = ch => EndsAt(Sent(c)', tick)
                      /\ ~(c \in Done \/ c = ch) =>
                           Sent(c)' = <<>> \/ (c \in todo /\ EndsAt(Sent(c)', tick - 1))
    BY <1>2, <1>3 DEF Progress, Sent
  <2> QED
    BY <2>4, <2>6
<1> QED
  BY <1>5, <1>6, <1>7, <1>8

\* Where the range ends, those of the tick's beginning that are still there have
\* been visited.
LEMMA RangeEndsStep ==
  ASSUME IInv, rangeEnds
  PROVE  IInv'
<1> USE DEF IInv
<1>1. TypeOK'
  <2>1. fatal' \in BOOLEAN
    BY Zenon DEF rangeEnds, touchMap, TypeOK
  <2> QED
    BY <2>1 DEF rangeEnds, handlers, TypeOK
<1>2. Done = Visited /\ Visited' = Visited
  BY SMTT(30) DEF rangeEnds, Done, Visited, TypeOK
<1>3. Served' /\ Ranging'
  BY <1>2 DEF rangeEnds, handlers, Served, Ranging
<1>4. Progress'
  <2> SUFFICES ASSUME NEW c \in Clients, conn[c] # "closed"
               PROVE  /\ Consecutive(Sent(c))
                      /\ IF c \in todo THEN EndsAt(Sent(c), tick)
                                       ELSE Sent(c) = <<>> \/ EndsAt(Sent(c), tick)
    BY DEF rangeEnds, handlers, Progress, Sent
  <2>1. c \in todo => c \in Done
    BY <1>2, StillThere DEF rangeEnds
  <2> QED
    BY <2>1 DEF rangeEnds, Progress
<1> QED
  BY <1>1, <1>3, <1>4

----------------------------------------------------------------------------

LEMMA NextIInv == IInv /\ [Next]_vars => IInv'
<1> SUFFICES ASSUME IInv, [Next]_vars PROVE IInv'
  OBVIOUS
<1>1. CASE UNCHANGED vars
  BY <1>1 DEF vars, handlers, publisher, IInv, TypeOK, Served, Ranging, Progress, Done,
              Visited, Sent
<1>2. CASE Next
  BY <1>2, HandlerStep, WakeStep, NextKeyStep, PublishStep, RangeEndsStep DEF Next, publish
<1> QED
  BY <1>1, <1>2

LEMMA Invariance == Spec => []IInv
  BY InitIInv, NextIInv, PTL DEF Spec

\* Whatever the publisher and the handlers do, every variable keeps its shape and
\* no channel of make(chan []byte, msgBuf) exceeds its capacity.
THEOREM TypeCorrect == Spec => []TypeOK
<1>1. IInv => TypeOK
  BY DEF IInv
<1> QED
  BY <1>1, Invariance, PTL

\* A client that is still there has been sent consecutive ticks up to the present
\* one: Publish, the range over the map and the handlers lose and double none.
THEOREM NoGapsCorrect == Spec => []NoGaps
<1>1. IInv => NoGaps
  BY DEF IInv, TypeOK, Progress, NoGaps, Consecutive, EndsAt
<1> QED
  BY <1>1, Invariance, PTL

----------------------------------------------------------------------------
(* The safety core of DepartedForgotten                                    *)

\* The map holds exactly the clients whose handler is between the assignment and
\* the delete, whatever the publisher does: what /connections reports counts
\* nobody whose handler has returned and misses nobody whose handler serves him.
MapExact == subscribers = {c \in Clients : pc[c] \in {"loop", "flush", "unsubscribing"}}

LEMMA MapStep == IInv /\ MapExact /\ [Next]_vars => MapExact'
<1> SUFFICES ASSUME IInv, MapExact, [Next]_vars PROVE MapExact'
  OBVIOUS
<1>0. TypeOK
  BY DEF IInv
<1>1. ASSUME UNCHANGED <<pc, subscribers>> PROVE MapExact'
  BY <1>1 DEF MapExact
<1>2. ASSUME NEW c \in Clients, Open(c) PROVE MapExact'
  BY <1>0, <1>2 DEF Open, goto, MapExact, TypeOK
<1>3. ASSUME NEW c \in Clients, Subscribe(c) PROVE MapExact'
  BY <1>0, <1>3 DEF Subscribe, goto, MapExact, TypeOK
<1>4. ASSUME NEW c \in Clients, receive(c) \/ flush(c) PROVE MapExact'
  BY <1>0, <1>4 DEF receive, flush, goto, MapExact, TypeOK
<1>5. ASSUME NEW c \in Clients, Unsubscribe(c) PROVE MapExact'
  BY <1>0, <1>5 DEF Unsubscribe, goto, MapExact, TypeOK
<1>6. ASSUME NEW c \in Clients, Behave(c) PROVE MapExact'
  BY <1>1, <1>6 DEF Behave, handlers
<1>7. CASE publish
  BY <1>1, <1>7 DEF publish, wake, nextKey, Publish, rangeEnds, handlers
<1>8. CASE UNCHANGED vars
  BY <1>1, <1>8 DEF vars, handlers
<1> QED
  BY <1>2, <1>3, <1>4, <1>5, <1>6, <1>7, <1>8 DEF Next, handle

\* Subscribe and Unsubscribe keep the map to the handlers that serve somebody.
THEOREM MapCorrect == Spec => []MapExact
<1>1. Init => MapExact
  BY DEF Init, MapExact
<1> QED
  BY <1>1, MapStep, Invariance, PTL DEF Spec
=============================================================================
