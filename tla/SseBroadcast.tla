---------------------------- MODULE SseBroadcast ----------------------------
(***************************************************************************)
(* What README.md asks of every server in the repository, as one atomic    *)
(* service: clients subscribe to /sse, a POST to /broadcast hands one      *)
(* message to every client that is subscribed at that moment, and a client *)
(* that has left receives nothing more.                                    *)
(*                                                                         *)
(* A group is a set of clients that one broadcast reaches.  A server that  *)
(* keeps the README's rule 4 has one group; node.js started with --cluster *)
(* has one per worker process, and the C++ server, whose broadcast takes    *)
(* its lists of clients one after the other, has one per list.             *)
(***************************************************************************)
EXTENDS Naturals, Sequences, FiniteSets

CONSTANTS Groups,      \* the sets of clients one broadcast reaches
          Clients,     \* the connections that may subscribe
          Messages,    \* the bodies posted to /broadcast
          AtOnce       \* is a message written to all of a group in one step?

VARIABLES subscribers, \* group -> the clients with an open event stream
          streams,     \* client -> the messages sent to it, in order
          published    \* group -> the messages broadcast to it

vars == <<subscribers, streams, published>>

Init == /\ subscribers = [g \in Groups |-> {}]
        /\ streams = [c \in Clients |-> <<>>]
        /\ published = [g \in Groups |-> {}]

\* README.md rule 1: a client opens /sse and belongs to one group.
Subscribe(g, c) ==
  /\ \A h \in Groups : c \notin subscribers[h]
  /\ streams[c] = <<>>
  /\ subscribers' = [subscribers EXCEPT ![g] = @ \cup {c}]
  /\ UNCHANGED <<streams, published>>

\* Clients leave one at a time, or all together when their server dies.  Who
\* leaves while a message is being written may miss it.
Leave(g, gone) ==
  /\ subscribers' = [subscribers EXCEPT ![g] = @ \ gone]
  /\ \E missed \in SUBSET gone :
       /\ AtOnce => missed = {}
       /\ \A c \in missed : streams[c] # <<>>
       /\ streams' = [c \in Clients |->
                        IF c \in missed THEN SubSeq(streams[c], 1, Len(streams[c]) - 1)
                                       ELSE streams[c]]
  /\ UNCHANGED published

\* README.md rule 4: one message to all clients of the group, once.
Publish(g, m) ==
  /\ m \notin published[g]
  /\ published' = [published EXCEPT ![g] = @ \cup {m}]
  /\ streams' = [c \in Clients |->
                   IF c \in subscribers[g] THEN Append(streams[c], m)
                                           ELSE streams[c]]
  /\ UNCHANGED subscribers

Next == \E g \in Groups :
          \/ \E c \in Clients : Subscribe(g, c)
          \/ \E gone \in SUBSET subscribers[g] : Leave(g, gone)
          \/ \E m \in Messages : Publish(g, m)

Spec == Init /\ [][Next]_vars
=============================================================================
