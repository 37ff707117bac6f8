---------------------------- MODULE HttpKitProofs ----------------------------
(***************************************************************************)
(* The safety properties of HttpKit hold for any clients, any POSTs and    *)
(* any number of ticks.                                                    *)
(*                                                                         *)
(* None is inductive alone.  That the hub settles follows from where the   *)
(* channel is at each step of its handler and its close (Joined); that a   *)
(* message is sent once, from what doseq has left to do (Sent).            *)
(***************************************************************************)
EXTENDS HttpKit, FiniteSetTheorems, TLAPS

\* Where a channel is in the course of its handler and of its close
Joined ==
  \A c \in Clients :
    /\ closedRan[c] <=> closer[c] # "none"
    /\ closeHandler[c] <=> pc[c] \in {"check", "done"}
    /\ pc[c] \in {"none", "join"} => c \notin hub
    /\ pc[c] = "on-close" => c \in hub
    /\ pc[c] \in {"check", "done"} /\ ~closedRan[c] => c \in hub
    /\ pc[c] = "done" /\ closer[c] = "done" => c \notin hub

\* Message m is in the stream of c at place i.
At(m, c, i) == i \in DOMAIN stream[c] /\ stream[c][i] = m

\* What a broadcast has not reached it has not sent to; what it has reached and
\* is open has the message; and nobody has it twice.
Sent ==
  \A m \in Messages, c \in Clients :
    /\ todo[m] \subseteq snapshot[m]
    /\ bc[m] \in {"none", "rejected"} => snapshot[m] = {}
    /\ c \in todo[m] \/ c \notin snapshot[m] => \A i \in Nat : ~At(m, c, i)
    /\ \A i, j \in Nat : At(m, c, i) /\ At(m, c, j) => i = j
    /\ c \in snapshot[m] \ todo[m] /\ ~closedRan[c] => \E i \in Nat : At(m, c, i)

IInv == TypeOK /\ Joined /\ Sent

----------------------------------------------------------------------------

USE DEF Messages, Ticks

LEMMA InitIInv == Init => IInv
<1> SUFFICES ASSUME Init PROVE IInv
  OBVIOUS
<1>1. TypeOK
  BY DEF Init, TypeOK
<1>2. Joined
  BY DEF Init, Joined
<1>3. \A m \in Messages, c \in Clients, i \in Nat : ~At(m, c, i)
  BY DEF Init, At
<1>4. Sent
  BY <1>3 DEF Init, Sent
<1> QED
  BY <1>1, <1>2, <1>4 DEF IInv

\* What leaves the streams and the broadcasts alone keeps all that is about
\* them, as long as no channel opens again.
LEMMA StreamsUntouched ==
  ASSUME IInv, UNCHANGED <<stream, broadcasts>>,
         \A c \in Clients : closedRan[c] => closedRan'[c]
  PROVE  Sent'
<1>1. \A m, c, i : At(m, c, i)' <=> At(m, c, i)
  BY DEF At
<1> QED
  BY <1>1 DEF IInv, Sent, broadcasts

\* A step of one client
LEMMA ChannelStep ==
  ASSUME IInv, NEW c \in Clients, Open(c) \/ handle_sse(c) \/ Close(c)
  PROVE  IInv'
<1> USE DEF IInv
<1>1. CASE Open(c)
  <2>1. TypeOK'
    BY <1>1 DEF Open, goto, TypeOK, channels, broadcasts
  <2>2. Joined'
    BY <1>1 DEF Open, goto, Joined, TypeOK, channels
  <2> QED
    BY <1>1, <2>1, <2>2, StreamsUntouched DEF Open, channels
<1>2. CASE handle_sse(c)
  <2>1. TypeOK'
    BY <1>2 DEF handle_sse, goto, TypeOK, broadcasts
  <2>2. Joined'
    BY <1>2 DEF handle_sse, goto, Joined, TypeOK
  <2> QED
    BY <1>2, <2>1, <2>2, StreamsUntouched DEF handle_sse
<1>3. CASE Close(c)
  <2>1. TypeOK'
    BY <1>3 DEF Close, TypeOK, broadcasts
  <2>2. Joined'
    BY <1>3 DEF Close, Joined, TypeOK
  <2>3. \A d \in Clients : closedRan[d] => closedRan'[d]
    BY <1>3 DEF Close, TypeOK
  <2> QED
    BY <1>3, <2>1, <2>2, <2>3, StreamsUntouched DEF Close
<1> QED
  BY <1>1, <1>2, <1>3

\* reject, derefHub and finish leave the streams alone.
LEMMA PhaseStep ==
  ASSUME IInv, NEW m \in Messages, reject(m) \/ derefHub(m) \/ finish(m)
  PROVE  IInv'
<1> USE DEF IInv
<1>1. TypeOK'
  BY DEF reject, derefHub, finish, TypeOK, channels
<1>2. Joined'
  BY DEF reject, derefHub, finish, Joined, channels
<1>3. UNCHANGED <<stream, closedRan>>
  BY DEF reject, derefHub, finish, channels
<1>4. \A n, c, i : At(n, c, i)' <=> At(n, c, i)
  BY <1>3 DEF At
<1> QED
  BY <1>1, <1>2, <1>3, <1>4, HttpKitAssumption
     DEF reject, derefHub, finish, Sent, TypeOK

\* Where a message is after another was appended
LEMMA AppendAt ==
  ASSUME NEW c \in Clients, NEW m \in Messages,
         stream \in [Clients -> Seq(Messages)],
         stream' = [stream EXCEPT ![c] = Append(@, m)]
  PROVE  /\ \A n \in Messages, d \in Clients, i \in Nat :
              At(n, d, i)' <=> At(n, d, i) \/ (d = c /\ n = m /\ i = Len(stream[c]) + 1)
         /\ \A n \in Messages, i \in Nat : At(n, c, i) => i <= Len(stream[c])
<1>1. stream[c] \in Seq(Messages)
  OBVIOUS
<1>2. stream'[c] = Append(stream[c], m) /\ \A d \in Clients : d # c => stream'[d] = stream[d]
  OBVIOUS
<1>3. /\ DOMAIN stream'[c] = 1..(Len(stream[c]) + 1)
      /\ DOMAIN stream[c] = 1..Len(stream[c])
      /\ \A i \in 1..Len(stream[c]) : stream'[c][i] = stream[c][i]
      /\ stream'[c][Len(stream[c]) + 1] = m
  BY <1>1, <1>2
<1>4. Len(stream[c]) \in Nat
  BY <1>1
<1> QED
  BY <1>2, <1>3, <1>4 DEF At

LEMMA SendStep ==
  ASSUME IInv, NEW m \in Messages, NEW c \in Clients, sendNext(m, c)
  PROVE  IInv'
<1> USE DEF IInv
<1>1. TypeOK'
  BY DEF sendNext, TypeOK, channels
<1>2. Joined'
  BY DEF sendNext, Joined, channels
<1>3. c \in snapshot[m] /\ \A i \in Nat : ~At(m, c, i)
  BY DEF sendNext, Sent
<1>4. \A n \in Messages : todo'[n] = IF n = m THEN todo[n] \ {c} ELSE todo[n]
  BY DEF sendNext, TypeOK
<1>5. CASE closedRan[c]
  <2>1. UNCHANGED <<stream, closedRan, bc, snapshot>>
    BY <1>5 DEF sendNext, channels
  <2>2. \A n, d, i : At(n, d, i)' <=> At(n, d, i)
    BY <2>1 DEF At
  <2>3. Sent'
    BY <1>3, <1>4, <1>5, <2>1, <2>2 DEF Sent
  <2> QED
    BY <1>1, <1>2, <2>3
<1>6. CASE ~closedRan[c]
  <2> DEFINE last == Len(stream[c]) + 1
  <2>1. /\ stream' = [stream EXCEPT ![c] = Append(@, m)]
        /\ UNCHANGED <<closedRan, bc, snapshot>>
    BY <1>6 DEF sendNext, channels
  <2>2. /\ \A n \in Messages, d \in Clients, i \in Nat :
             At(n, d, i)' <=> At(n, d, i) \/ (d = c /\ n = m /\ i = last)
        /\ \A n \in Messages, i \in Nat : At(n, c, i) => i < last
        /\ last \in Nat
    <3>1. stream \in [Clients -> Seq(Messages)]
      BY DEF TypeOK
    <3>2. Len(stream[c]) \in Nat
      BY <3>1
    <3>3. /\ \A n \in Messages, d \in Clients, i \in Nat :
               At(n, d, i)' <=> At(n, d, i) \/ (d = c /\ n = m /\ i = last)
          /\ \A n \in Messages, i \in Nat : At(n, c, i) => i <= Len(stream[c])
      BY <2>1, <3>1, AppendAt
    <3> QED
      BY <3>2, <3>3
  <2> HIDE DEF last
  <2>3. Sent'
    <3> SUFFICES ASSUME NEW n \in Messages, NEW d \in Clients
                 PROVE  /\ todo'[n] \subseteq snapshot'[n]
                        /\ bc'[n] \in {"none", "rejected"} => snapshot'[n] = {}
                        /\ d \in todo'[n] \/ d \notin snapshot'[n] => \A i \in Nat : ~At(n, d, i)'
                        /\ \A i, j \in Nat : At(n, d, i)' /\ At(n, d, j)' => i = j
                        /\ d \in snapshot'[n] \ todo'[n] /\ ~closedRan'[d] => \E i \in Nat : At(n, d, i)'
      BY DEF Sent
    <3>1. /\ todo'[n] \subseteq snapshot'[n]
          /\ bc'[n] \in {"none", "rejected"} => snapshot'[n] = {}
      BY <1>4, <2>1 DEF Sent
    <3>2. CASE n = m /\ d = c
      <4>1. \A i \in Nat : At(n, d, i)' <=> i = last
        BY <1>3, <2>2, <3>2
      <4>2. d \in snapshot'[n] /\ d \notin todo'[n]
        BY <1>3, <1>4, <2>1, <3>2
      <4> QED
        BY <2>2, <3>1, <4>1, <4>2
    <3>3. CASE ~(n = m /\ d = c)
      <4>1. \A i \in Nat : At(n, d, i)' <=> At(n, d, i)
        BY <2>2, <3>3
      <4>2. /\ d \in todo'[n] <=> d \in todo[n]
            /\ d \in snapshot'[n] <=> d \in snapshot[n]
            /\ closedRan'[d] = closedRan[d]
        BY <1>4, <2>1, <3>3
      <4>3. /\ d \in todo[n] \/ d \notin snapshot[n] => \A i \in Nat : ~At(n, d, i)
            /\ \A i, j \in Nat : At(n, d, i) /\ At(n, d, j) => i = j
            /\ d \in snapshot[n] \ todo[n] /\ ~closedRan[d] => \E i \in Nat : At(n, d, i)
        BY DEF Sent
      <4> QED
        BY <3>1, <4>1, <4>2, <4>3
    <3> QED
      BY <3>2, <3>3
  <2> QED
    BY <1>1, <1>2, <2>3
<1> QED
  BY <1>5, <1>6

LEMMA NextIInv == IInv /\ [Next]_vars => IInv'
<1> SUFFICES ASSUME IInv, [Next]_vars PROVE IInv'
  OBVIOUS
<1>1. CASE UNCHANGED vars
  <2>1. TypeOK' /\ Joined'
    BY <1>1 DEF vars, channels, broadcasts, IInv, TypeOK, Joined
  <2> QED
    BY <1>1, <2>1, StreamsUntouched DEF vars, channels, IInv
<1> QED
  BY <1>1, ChannelStep, PhaseStep, SendStep DEF Next, broadcast

LEMMA Invariance == Spec => []IInv
BY InitIInv, NextIInv, PTL DEF Spec

----------------------------------------------------------------------------

\* Every reachable state of the Clojure server has its type, and no broadcast
\* (core.clj:7-9) that has ended has left out a channel of its snapshot.
THEOREM TypeCorrect == Spec => []TypeOK
<1>1. IInv => TypeOK
  BY DEF IInv
<1> QED
  BY <1>1, Invariance, PTL

\* However a close falls between the steps of handle-sse (core.clj:37-39), the
\* hub has a channel in the end if and only if it is open.
THEOREM HubCorrect == Spec => []HubSettles
<1>1. IInv => HubSettles
  BY DEF IInv, Joined, HubSettles, TypeOK
<1> QED
  BY <1>1, Invariance, PTL

\* The places of a message in a stream are none or one.
LEMMA PlacesOfMessage ==
  ASSUME IInv, NEW m \in Messages, NEW c \in Clients
  PROVE  /\ (\A i \in Nat : ~At(m, c, i)) => Times(m, c) = 0
         /\ (\E i \in Nat : At(m, c, i)) => Times(m, c) = 1
<1> DEFINE S == {i \in DOMAIN stream[c] : stream[c][i] = m}
<1>1. DOMAIN stream[c] \subseteq Nat
  BY DEF IInv, TypeOK
<1>2. \A i \in S : i \in Nat /\ At(m, c, i)
  BY <1>1 DEF At
<1>3. ASSUME \A i \in Nat : ~At(m, c, i)
      PROVE  Times(m, c) = 0
  <2>1. S = {}
    BY <1>2, <1>3
  <2> QED
    BY <2>1, FS_EmptySet DEF Times
<1>4. ASSUME NEW i \in Nat, At(m, c, i)
      PROVE  Times(m, c) = 1
  <2>1. \A j \in S : j = i
    BY <1>2, <1>4 DEF IInv, Sent
  <2>2. S = {i}
    BY <1>4, <2>1 DEF At
  <2> QED
    BY <2>2, FS_Singleton DEF Times
<1> QED
  BY <1>3, <1>4

\* A broadcast over a snapshot of the hub (core.clj:8) reaches each channel that
\* stays open exactly once, and no other channel.
THEOREM OnceCorrect == Spec => []OnceEach
<1>1. ASSUME IInv, NEW m \in Messages, NEW c \in Clients
      PROVE  /\ Times(m, c) <= IF c \in snapshot[m] THEN 1 ELSE 0
             /\ bc[m] = "done" /\ c \in snapshot[m] /\ ~closedRan[c] => Times(m, c) = 1
  <2>1. Times(m, c) \in {0, 1}
    BY <1>1, PlacesOfMessage
  <2>2. c \notin snapshot[m] => Times(m, c) = 0
    BY <1>1, PlacesOfMessage DEF IInv, Sent
  <2>3. bc[m] = "done" => todo[m] = {}
    BY <1>1 DEF IInv, TypeOK
  <2>4. bc[m] = "done" /\ c \in snapshot[m] /\ ~closedRan[c] => Times(m, c) = 1
    BY <1>1, <2>3, PlacesOfMessage DEF IInv, Sent
  <2> QED
    BY <2>1, <2>2, <2>4
<1>2. IInv => OnceEach
  BY <1>1 DEF OnceEach
<1> QED
  BY <1>2, Invariance, PTL

----------------------------------------------------------------------------
(* The safety core of ClosedForgotten                                      *)

\* Has the channel joined the hub and left it?
Left(c) == pc[c] \notin {"none", "join"} /\ c \notin hub

\* A channel that has joined and left the hub never comes back to it.
NeverBack == [][\A c \in Clients : Left(c) => Left(c)']_vars

\* Of the steps of handle-sse (core.clj:37-39) only the swap! that joins adds to
\* the hub, and it is taken once: what has closed and left is gone for good.
THEOREM NeverBackCorrect == Spec => NeverBack
<1>1. ASSUME TypeOK, NEW c \in Clients, Left(c), [Next]_vars
      PROVE  Left(c)'
  <2>1. ASSUME NEW d \in Clients, Open(d) \/ handle_sse(d) \/ Close(d)
        PROVE  Left(c)'
    BY <1>1, <2>1 DEF Left, Open, handle_sse, Close, goto, TypeOK
  <2>2. ASSUME NEW m \in Messages, reject(m) \/ broadcast(m)
        PROVE  Left(c)'
    BY <1>1, <2>2 DEF Left, reject, broadcast, derefHub, sendNext, finish
  <2>3. CASE UNCHANGED vars
    BY <1>1, <2>3 DEF Left, vars
  <2> QED
    BY <1>1, <2>1, <2>2, <2>3 DEF Next
<1>2. TypeOK /\ [Next]_vars => [\A c \in Clients : Left(c) => Left(c)']_vars
  BY <1>1
<1> QED
  BY <1>2, TypeCorrect, PTL DEF Spec, NeverBack
=============================================================================
