------------------------------- MODULE HttpKit -------------------------------
(***************************************************************************)
(* clojure-http-kit: worker threads run the handlers, the server's thread  *)
(* runs the close callbacks, a timer thread broadcasts the time.  They     *)
(* share one atom, channel-hub; a swap! and a deref are atomic.            *)
(*                                                                         *)
(* Of http-kit itself the code relies on two things, both modelled here:   *)
(* send! on a closed channel does nothing, and on-close runs its callback  *)
(* at once if the channel is closed already.  A channel is named by its    *)
(* client, a message by the POST or the tick that broadcasts it.  Handlers *)
(* do not wait for one another, so the size of the pool is left out.       *)
(***************************************************************************)
EXTENDS Naturals, Sequences, FiniteSets

CONSTANTS Clients,  \* those that may open /sse, once each
          Posts,    \* the POSTs to /broadcast
          NumTicks  \* bound: broadcasts of the timer

Ticks == 1..NumTicks
Messages == Posts \cup Ticks

ASSUME HttpKitAssumption ==
  /\ NumTicks \in Nat
  /\ Posts \cap Ticks = {}

VARIABLES
  pc,           \* client -> the next step of handle-sse
  hub,          \* the keys of channel-hub
  closeHandler, \* client -> has on-close stored its callback?
  closedRan,    \* client -> is the channel closed?
  closer,       \* client -> the server's thread: "none", "calling" or "done"
  stream,       \* client -> the messages sent to it while it was open
  bc,           \* message -> "none", "sending", "done" or "rejected"
  todo,         \* message -> the channels that doseq has not reached
  snapshot      \* history: the hub that the broadcast has seen

channels == <<closeHandler, closedRan, closer>>
broadcasts == <<bc, todo, snapshot>>
vars == <<pc, hub, channels, stream, broadcasts>>

Init ==
  /\ pc = [c \in Clients |-> "none"]
  /\ hub = {}
  /\ closeHandler = [c \in Clients |-> FALSE]
  /\ closedRan = [c \in Clients |-> FALSE]
  /\ closer = [c \in Clients |-> "none"]
  /\ stream = [c \in Clients |-> <<>>]
  /\ bc = [m \in Messages |-> "none"]
  /\ todo = [m \in Messages |-> {}]
  /\ snapshot = [m \in Messages |-> {}]

goto(c, from, to) == pc[c] = from /\ pc' = [pc EXCEPT ![c] = to]

----------------------------------------------------------------------------
(* A channel                                                               *)

\* The first send!: the headers and `:ok'
Open(c) ==
  /\ goto(c, "none", "join")
  /\ UNCHANGED <<hub, channels, stream, broadcasts>>

\* Mutant of handle_sse: on-close is called before the channel joins the hub
onCloseFirst(c) ==
  /\ \/ /\ goto(c, "join", "on-close")
        /\ closeHandler' = [closeHandler EXCEPT ![c] = TRUE]
        /\ UNCHANGED hub
     \/ /\ goto(c, "on-close", "check")
        /\ hub' = IF closedRan[c] THEN hub \ {c} ELSE hub
        /\ UNCHANGED closeHandler
     \/ /\ goto(c, "check", "done")
        /\ hub' = hub \cup {c}
        /\ UNCHANGED closeHandler
  /\ UNCHANGED <<closedRan, closer, stream, broadcasts>>

\* (swap! channel-hub assoc channel req), then on-close: it stores the callback
\* and runs it if the channel is closed by then.
handle_sse(c) ==
  /\ \/ /\ goto(c, "join", "on-close")
        /\ hub' = hub \cup {c}
        /\ UNCHANGED closeHandler
     \/ /\ goto(c, "on-close", "check")
        /\ closeHandler' = [closeHandler EXCEPT ![c] = TRUE]
        /\ UNCHANGED hub
     \/ /\ goto(c, "check", "done")
        /\ hub' = IF closedRan[c] THEN hub \ {c} ELSE hub
        /\ UNCHANGED closeHandler
  /\ UNCHANGED <<closedRan, closer, stream, broadcasts>>

\* The client goes: the channel is closed and the callback, if it is there, run.
\* It may run twice, here and in on-close.
Close(c) ==
  /\ \/ /\ pc[c] # "none"
        /\ closer[c] = "none"
        /\ closer' = [closer EXCEPT ![c] = "calling"]
        /\ closedRan' = [closedRan EXCEPT ![c] = TRUE]
        /\ UNCHANGED hub
     \/ /\ closer[c] = "calling"
        /\ closer' = [closer EXCEPT ![c] = "done"]
        /\ hub' = IF closeHandler[c] THEN hub \ {c} ELSE hub
        /\ UNCHANGED closedRan
  /\ UNCHANGED <<pc, closeHandler, stream, broadcasts>>

----------------------------------------------------------------------------
(* A broadcast: of a POST in a worker, of a tick in the timer's thread     *)

\* start-timer sets the next tick when notify-channels has returned.
Due(m) == m \in Ticks \ {1} => bc[m - 1] = "done"

\* A POST without a body is answered 400.
reject(m) ==
  /\ m \in Posts
  /\ bc[m] = "none"
  /\ bc' = [bc EXCEPT ![m] = "rejected"]
  /\ UNCHANGED <<pc, hub, channels, stream, todo, snapshot>>

\* (keys @channel-hub)
derefHub(m) ==
  /\ bc[m] = "none"
  /\ Due(m)
  /\ bc' = [bc EXCEPT ![m] = "sending"]
  /\ todo' = [todo EXCEPT ![m] = hub]
  /\ snapshot' = [snapshot EXCEPT ![m] = hub]
  /\ UNCHANGED <<pc, hub, channels, stream>>

\* Mutant of sendNext: the loop ends when a send! returns false
sendWhileOpen(m, c) ==
  /\ bc[m] = "sending"
  /\ c \in todo[m]
  /\ todo' = [todo EXCEPT ![m] = IF closedRan[c] THEN {} ELSE @ \ {c}]
  /\ stream' = IF closedRan[c] THEN stream ELSE [stream EXCEPT ![c] = Append(@, m)]
  /\ UNCHANGED <<pc, hub, channels, bc, snapshot>>

\* (send! channel message false), to a channel that may have left the hub since
sendNext(m, c) ==
  /\ bc[m] = "sending"
  /\ c \in todo[m]
  /\ todo' = [todo EXCEPT ![m] = @ \ {c}]
  /\ stream' = IF closedRan[c] THEN stream ELSE [stream EXCEPT ![c] = Append(@, m)]
  /\ UNCHANGED <<pc, hub, channels, bc, snapshot>>

\* Mutant of finish: the broadcast is answered while it is still running
finishEarly(m) ==
  /\ bc[m] = "sending"
  /\ bc' = [bc EXCEPT ![m] = "done"]
  /\ UNCHANGED <<pc, hub, channels, stream, todo, snapshot>>

\* doseq has reached its end; a POST is answered 202.
finish(m) ==
  /\ bc[m] = "sending"
  /\ todo[m] = {}
  /\ bc' = [bc EXCEPT ![m] = "done"]
  /\ UNCHANGED <<pc, hub, channels, stream, todo, snapshot>>

broadcast(m) == derefHub(m) \/ (\E c \in Clients : sendNext(m, c)) \/ finish(m)

----------------------------------------------------------------------------

Next == \/ \E c \in Clients : Open(c) \/ handle_sse(c) \/ Close(c)
        \/ \E m \in Messages : reject(m) \/ broadcast(m)

Spec == Init /\ [][Next]_vars

\* A handler and a close callback that have begun go on; no client need come or
\* go.  No property needs a broadcast to.
Fairness ==
  \A c \in Clients : /\ WF_vars(handle_sse(c))
                     /\ WF_vars(closer[c] = "calling" /\ Close(c))
FairSpec == Spec /\ Fairness

----------------------------------------------------------------------------
(* Properties                                                              *)

\* Every variable keeps its shape; a broadcast that has ended, or has not begun,
\* has no channel left to send to.
TypeOK ==
  /\ pc \in [Clients -> {"none", "join", "on-close", "check", "done"}]
  /\ hub \subseteq Clients
  /\ closeHandler \in [Clients -> BOOLEAN]
  /\ closedRan \in [Clients -> BOOLEAN]
  /\ closer \in [Clients -> {"none", "calling", "done"}]
  /\ stream \in [Clients -> Seq(Messages)]
  /\ bc \in [Messages -> {"none", "sending", "done", "rejected"}]
  /\ todo \in [Messages -> SUBSET Clients]
  /\ \A m \in Messages : todo[m] # {} => bc[m] = "sending"
  /\ snapshot \in [Messages -> SUBSET Clients]

\* Wherever a close falls between the steps of handle-sse, the number that
\* /connections reports settles: once the handler of a channel and its close
\* have run, the hub has the channel if and only if it is open.
HubSettles ==
  \A c \in Clients :
    pc[c] = "done" /\ closer[c] # "calling" => (c \in hub <=> ~closedRan[c])

Times(m, c) == Cardinality({i \in DOMAIN stream[c] : stream[c][i] = m})

\* A broadcast walks over the hub as it was while others join, leave and
\* broadcast: a client that was there at its beginning and still is has the
\* message exactly once when it ends, and no other client ever gets it.
OnceEach ==
  \A m \in Messages, c \in Clients :
    /\ Times(m, c) <= IF c \in snapshot[m] THEN 1 ELSE 0
    /\ bc[m] = "done" /\ c \in snapshot[m] /\ ~closedRan[c] => Times(m, c) = 1

\* A channel that was closed leaves the hub and never comes back to it.
ClosedForgotten == \A c \in Clients : closedRan[c] ~> [](c \notin hub)
=============================================================================
