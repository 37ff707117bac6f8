------------------------------- MODULE CServer -------------------------------
(***************************************************************************)
(* c/server.c: main() accepts connections and adds their descriptors to    *)
(* the epoll set of main_thread, which reads one request, answers it, and  *)
(* either closes the descriptor or passes it to the epoll set of one of    *)
(* the sse threads; these write the time to their clients and close those  *)
(* that have gone.  No thread takes a lock.                                *)
(*                                                                         *)
(* A descriptor is a number that accept may hand out again as soon as it   *)
(* is closed; closing takes it out of every epoll set.  main_thread's set  *)
(* is edge triggered, those of the sse threads level triggered.  Before    *)
(* efd and events are set, epoll_wait fails at once and main_thread spins. *)
(***************************************************************************)
EXTENDS Integers, FiniteSets, Sequences

CONSTANTS Conns,      \* the connections that clients make
          Requests,   \* connection -> the requests its client may send
          NumFds,     \* the descriptors that are left for connections
          NumThreads, \* NUM_THREADS
          Garbage,    \* bound: values of numclients before sse_thread sets it
          NULL

Fds == 1..NumFds
Threads == 0..(NumThreads - 1)
Request == {"GET /sse", "GET /sse...", "GET /connections", "GET /undefined",
            "OPTIONS /sse", "POST /broadcast"}
Statuses == {"204", "404", "count", "stream"}

ASSUME CAssumption ==
  /\ NumFds \in Nat
  /\ NumThreads \in Nat \ {0}
  /\ Garbage \subseteq Int
  /\ NULL \notin Conns /\ NULL \notin Fds /\ NULL \notin Threads
  /\ \A c \in Conns : Requests[c] \subseteq Request

VARIABLES
  file,       \* descriptor -> the connection it stands for, or NULL
  peer,       \* "none", "open", "gone" (closed), "failing" (closed, and written
              \*   to since) or "reset" (the socket is in error)
  request,    \* connection -> what its client sends
  data,       \* connection -> "none", "part" or "whole": what can be read;
              \*   "had part", "rest" or "had all" once some has been read
  accepted,   \* the descriptor main() has accepted and not added, or NULL
  efd,        \* the epoll set of main_thread
  edge,       \* those of efd with an event that no epoll_wait has returned
  mainpc,     \* main_thread's next step
  events,     \* the events main_thread has not handled yet
  cur,        \* the event it is handling
  cur_thread, \* the sse thread that gets the next client
  epollfd,    \* sse thread -> its epoll set
  pc,         \* sse thread -> its next step
  t_events,   \* sse thread -> the events it has not handled yet
  numclients, \* sse thread -> its counter
  reg,        \* thread -> the value of numclients it loaded (0 once stored);
              \*   main_thread's is reg[NumThreads]
  response,   \* connection -> statuses written to it by main_thread
  owner,      \* history: connection -> the sse thread it was given to
  raced       \* history: have two updates of a counter overlapped?

sockets == <<peer, request, data>>
sets == <<efd, edge, epollfd>>
mainThread == <<mainpc, events, cur, cur_thread>>
sseThreads == <<pc, t_events>>
counters == <<numclients, reg, raced>>
vars == <<file, sockets, accepted, sets, mainThread, sseThreads, counters,
          response, owner>>

Init ==
  /\ file = [f \in Fds |-> NULL]
  /\ peer = [c \in Conns |-> "none"]
  /\ request = [c \in Conns |-> NULL]
  /\ data = [c \in Conns |-> "none"]
  /\ accepted = NULL
  /\ efd = {}
  /\ edge = {}
  /\ mainpc = "wait"
  /\ events = {}
  /\ cur = NULL
  /\ cur_thread = 0
  /\ epollfd = [t \in Threads |-> {}]
  /\ pc = [t \in Threads |-> "start"]
  /\ t_events = [t \in Threads |-> {}]
  /\ numclients \in [Threads -> Garbage]
  /\ reg = [t \in 0..NumThreads |-> 0]
  /\ response = [c \in Conns |-> <<>>]
  /\ owner = [c \in Conns |-> NULL]
  /\ raced = FALSE

Event(f, bad) == [fd |-> f, conn |-> file[f], bad |-> bad]

\* close(): the description goes, and with it the descriptor's registrations.
close(f) ==
  /\ file' = [file EXCEPT ![f] = NULL]
  /\ efd' = efd \ {f}
  /\ edge' = edge \ {f}
  /\ epollfd' = [t \in Threads |-> epollfd[t] \ {f}]

\* A connection's state changes: its descriptor has an event for main_thread.
signal(c) == edge' = edge \cup {f \in efd : file[f] = c}

\* send() to a client that has closed its side is answered with a reset.
written(c) ==
  peer' = IF peer[c] = "gone" THEN [peer EXCEPT ![c] = "failing"] ELSE peer

----------------------------------------------------------------------------
(* The clients, as long as the server has a descriptor for them            *)

Connected(c) == \E f \in Fds : file[f] = c

\* The request arrives whole or in two segments.
clientSends(c) ==
  /\ Connected(c)
  /\ peer[c] = "open"
  /\ \/ data[c] = "none" /\ \E d \in {"part", "whole"} : data' = [data EXCEPT ![c] = d]
     \/ data[c] = "part" /\ data' = [data EXCEPT ![c] = "whole"]
     \/ data[c] = "had part" /\ data' = [data EXCEPT ![c] = "rest"]
  /\ signal(c)
  /\ UNCHANGED <<file, peer, request, accepted, efd, epollfd, mainThread,
                 sseThreads, counters, response, owner>>

clientCloses(c) ==
  /\ Connected(c)
  /\ \/ peer[c] = "open" /\ \E p \in {"gone", "reset"} : peer' = [peer EXCEPT ![c] = p]
     \/ peer[c] = "failing" /\ peer' = [peer EXCEPT ![c] = "reset"]
  /\ signal(c)
  /\ UNCHANGED <<file, request, data, accepted, efd, epollfd, mainThread,
                 sseThreads, counters, response, owner>>

----------------------------------------------------------------------------
(* main(): the accept loop                                                 *)

Free == {f \in Fds : file[f] = NULL}

\* accept takes the lowest free number; with none left (EMFILE) it tries again.
accept(c, r) ==
  /\ accepted = NULL
  /\ peer[c] = "none"
  /\ \E f \in Free :
       /\ \A g \in Free : f <= g
       /\ file' = [file EXCEPT ![f] = c]
       /\ accepted' = f
  /\ peer' = [peer EXCEPT ![c] = "open"]
  /\ request' = [request EXCEPT ![c] = r]
  /\ UNCHANGED <<data, sets, mainThread, sseThreads, counters, response, owner>>

\* EPOLL_CTL_ADD reports what is there already.  It may fail: line 354.
addAccepted ==
  LET c == file[accepted] IN
  /\ accepted # NULL
  /\ accepted' = NULL
  /\ \/ /\ efd' = efd \cup {accepted}
        /\ edge' = IF data[c] # "none" \/ peer[c] # "open" THEN edge \cup {accepted}
                                                         ELSE edge
        /\ UNCHANGED <<file, epollfd>>
     \/ close(accepted)
  /\ UNCHANGED <<sockets, mainThread, sseThreads, counters, response, owner>>

----------------------------------------------------------------------------
(* main_thread                                                             *)

mainWaits ==
  /\ mainpc = "wait"
  /\ edge # {}
  /\ events' = {Event(f, peer[file[f]] = "reset") : f \in edge}
  /\ edge' = {}
  /\ mainpc' = "next"
  /\ UNCHANGED <<file, sockets, accepted, efd, cur, cur_thread, epollfd,
                 sseThreads, counters, response, owner>>

\* The answer to a whole request; "close" is none.
Route(r) ==
  CASE r = "OPTIONS /sse" -> "204"
    [] r = "GET /connections" -> "count"
    [] r \in {"GET /sse", "GET /sse..."} -> "stream"   \* strncmp of 4 characters
    [] r = "GET /undefined" -> "404"
    [] r = "POST /broadcast" -> "close"

\* The answers to what one read returns: a first segment is taken for all of it.
Answers(c) ==
  LET r == request[c] IN
  CASE data[c] = "whole" -> {Route(r)}
    [] data[c] = "part" -> {"close", Route(r)} \cup
                           (IF r \in {"OPTIONS /sse", "POST /broadcast"} THEN {} ELSE {"404"})
    [] OTHER -> {"close"}

Consumed(d) ==
  CASE d = "part" -> "had part" [] d \in {"whole", "rest"} -> "had all" [] OTHER -> d

dropBroken(e) ==
  /\ e.bad
  /\ close(e.fd)
  /\ UNCHANGED <<sockets, response, owner, cur, mainpc>>

\* getnumclients is read in one step: the other threads only count down while it
\* runs, by ones, so that the sum it returns is that of some instant.
respond(e) ==
  /\ ~e.bad
  /\ \E answer \in Answers(e.conn) \ {"stream"} :
       response' = IF answer = "close" THEN response
                   ELSE [response EXCEPT ![e.conn] = Append(@, answer)]
  /\ data' = [data EXCEPT ![e.conn] = Consumed(@)]
  /\ close(e.fd)
  /\ UNCHANGED <<peer, request, owner, cur, mainpc>>

\* /sse: the headers, then EPOLL_CTL_ADD, which may fail (line 219).
openStream(e) ==
  /\ ~e.bad
  /\ "stream" \in Answers(e.conn)
  /\ response' = [response EXCEPT ![e.conn] = Append(@, "stream")]
  /\ data' = [data EXCEPT ![e.conn] = Consumed(@)]
  /\ written(e.conn)
  /\ \/ /\ file[e.fd] # NULL
        /\ epollfd' = [epollfd EXCEPT ![cur_thread] = @ \cup {e.fd}]
        /\ owner' = [owner EXCEPT ![e.conn] = cur_thread]
        /\ cur' = e
        /\ mainpc' = "del"
        /\ UNCHANGED <<file, efd, edge>>
     \/ /\ close(e.fd)
        /\ UNCHANGED <<owner, cur, mainpc>>
  /\ UNCHANGED request

handleEvent ==
  /\ mainpc = "next"
  /\ \E e \in events :
       /\ dropBroken(e) \/ respond(e) \/ openStream(e)
       /\ events' = events \ {e}
  /\ UNCHANGED <<accepted, cur_thread, sseThreads, counters>>

eventsDone ==
  /\ mainpc = "next"
  /\ events = {}
  /\ mainpc' = "wait"
  /\ UNCHANGED <<file, sockets, accepted, sets, events, cur, cur_thread,
                 sseThreads, counters, response, owner>>

\* Mutant of removeFromMain: the descriptor stays in main_thread's set
keepInMain ==
  /\ mainpc = "del"
  /\ mainpc' = "incLoad"
  /\ UNCHANGED <<file, sockets, accepted, sets, events, cur, cur_thread,
                 sseThreads, counters, response, owner>>

\* EPOLL_CTL_DEL by number: the descriptor may be another connection's by now.
removeFromMain ==
  /\ mainpc = "del"
  /\ efd' = efd \ {cur.fd}
  /\ edge' = edge \ {cur.fd}
  /\ mainpc' = "incLoad"
  /\ UNCHANGED <<file, sockets, accepted, epollfd, events, cur, cur_thread,
                 sseThreads, counters, response, owner>>

\* Mutant of NextThread: no wrap
NextThreadOn(t) == t + 1
NextThread(t) == IF t = NumThreads - 1 THEN 0 ELSE t + 1

\* numclients++ is a load and a store.
countClient ==
  LET t == cur_thread IN
  \/ /\ mainpc = "incLoad"
     /\ mainpc' = "incStore"
     /\ reg' = [reg EXCEPT ![NumThreads] = numclients[t]]
     /\ raced' = (raced \/ pc[t] \in {"start", "decStore"})
     /\ UNCHANGED <<file, sockets, accepted, sets, events, cur, cur_thread,
                    sseThreads, numclients, response, owner>>
  \/ /\ mainpc = "incStore"
     /\ mainpc' = "next"
     /\ numclients' = [numclients EXCEPT ![t] = reg[NumThreads] + 1]
     /\ cur' = NULL
     /\ cur_thread' = NextThread(t)
     /\ reg' = [reg EXCEPT ![NumThreads] = 0]
     /\ UNCHANGED <<file, sockets, accepted, sets, events, sseThreads, raced,
                    response, owner>>

----------------------------------------------------------------------------
(* sse_thread                                                              *)

sseStarts(t) ==
  /\ pc[t] = "start"
  /\ pc' = [pc EXCEPT ![t] = "wait"]
  /\ numclients' = [numclients EXCEPT ![t] = 0]
  /\ UNCHANGED <<file, sockets, accepted, sets, mainThread, t_events, reg, raced,
                 response, owner>>

\* Mutant of sseWaits: errors are not looked at
sseWaitsBlind(t) ==
  /\ pc[t] = "wait"
  /\ epollfd[t] # {}
  /\ t_events' = [t_events EXCEPT ![t] = {Event(f, FALSE) : f \in epollfd[t]}]
  /\ pc' = [pc EXCEPT ![t] = "next"]
  /\ UNCHANGED <<file, sockets, accepted, sets, mainThread, counters, response, owner>>

\* EPOLLHUP or EPOLLERR for a socket in error, EPOLLOUT for one with room in its
\* buffer: a client that does not read may have none.
sseWaits(t) ==
  LET Bad == {f \in epollfd[t] : peer[file[f]] = "reset"}
      Slow == {f \in epollfd[t] : peer[file[f]] = "open"}
  IN
  /\ pc[t] = "wait"
  /\ \E full \in SUBSET Slow :
       /\ epollfd[t] \ full # {}
       /\ t_events' = [t_events EXCEPT
                         ![t] = {Event(f, f \in Bad) : f \in epollfd[t] \ full}]
  /\ pc' = [pc EXCEPT ![t] = "next"]
  /\ UNCHANGED <<file, sockets, accepted, sets, mainThread, counters, response, owner>>

\* Mutant of drop: numclients-- is forgotten
dropUncounted(t, e) ==
  /\ e.bad
  /\ close(e.fd)
  /\ UNCHANGED <<pc, peer>>

drop(t, e) ==
  /\ e.bad
  /\ close(e.fd)
  /\ pc' = [pc EXCEPT ![t] = "decLoad"]
  /\ UNCHANGED peer

sendTime(t, e) ==
  /\ ~e.bad
  /\ written(e.conn)
  /\ UNCHANGED <<file, sets, pc>>

sseHandles(t) ==
  /\ pc[t] = "next"
  /\ \E e \in t_events[t] :
       /\ drop(t, e) \/ sendTime(t, e)
       /\ t_events' = [t_events EXCEPT ![t] = @ \ {e}]
  /\ UNCHANGED <<request, data, accepted, mainThread, counters, response, owner>>

\* numclients-- is a load and a store.
uncountClient(t) ==
  /\ \/ /\ pc[t] = "decLoad"
        /\ pc' = [pc EXCEPT ![t] = "decStore"]
        /\ reg' = [reg EXCEPT ![t] = numclients[t]]
        /\ raced' = (raced \/ (mainpc = "incStore" /\ cur_thread = t))
        /\ UNCHANGED numclients
     \/ /\ pc[t] = "decStore"
        /\ pc' = [pc EXCEPT ![t] = "next"]
        /\ numclients' = [numclients EXCEPT ![t] = reg[t] - 1]
        /\ reg' = [reg EXCEPT ![t] = 0]
        /\ UNCHANGED raced
  /\ UNCHANGED <<file, sockets, accepted, sets, mainThread, t_events, response, owner>>

\* sleep(1), and epoll_wait again
sseSleeps(t) ==
  /\ pc[t] = "next"
  /\ t_events[t] = {}
  /\ pc' = [pc EXCEPT ![t] = "wait"]
  /\ UNCHANGED <<file, sockets, accepted, sets, mainThread, t_events, counters,
                 response, owner>>

----------------------------------------------------------------------------

main_thread == mainWaits \/ handleEvent \/ eventsDone \/ removeFromMain \/ countClient

sse_thread(t) ==
  sseStarts(t) \/ sseWaits(t) \/ sseHandles(t) \/ uncountClient(t) \/ sseSleeps(t)

Next ==
  \/ \E c \in Conns : \/ clientSends(c)
                      \/ clientCloses(c)
                      \/ \E r \in Requests[c] : accept(c, r)
  \/ addAccepted
  \/ main_thread
  \/ \E t \in Threads : sse_thread(t)

Spec == Init /\ [][Next]_vars

\* Threads run, and a client that has gone answers what it is sent with a reset.
Fairness ==
  /\ WF_vars(addAccepted)
  /\ WF_vars(main_thread)
  /\ \A t \in Threads : WF_vars(sse_thread(t))
  /\ \A c \in Conns : WF_vars(peer[c] = "failing" /\ clientCloses(c))
FairSpec == Spec /\ Fairness

----------------------------------------------------------------------------
(* Properties                                                              *)

Events == [fd: Fds, conn: Conns, bad: BOOLEAN]

\* Every variable keeps its shape; only descriptors in use are in an epoll set.
TypeOK ==
  /\ file \in [Fds -> Conns \cup {NULL}]
  /\ peer \in [Conns -> {"none", "open", "gone", "failing", "reset"}]
  /\ request \in [Conns -> Request \cup {NULL}]
  /\ data \in [Conns -> {"none", "part", "whole", "had part", "rest", "had all"}]
  /\ accepted \in Fds \cup {NULL}
  /\ edge \subseteq efd /\ efd \subseteq Fds \ Free
  /\ mainpc \in {"wait", "next", "del", "incLoad", "incStore"}
  /\ events \subseteq Events
  /\ cur \in Events \cup {NULL}
  /\ cur_thread \in Threads
  /\ epollfd \in [Threads -> SUBSET (Fds \ Free)]
  /\ pc \in [Threads -> {"start", "wait", "next", "decLoad", "decStore"}]
  /\ t_events \in [Threads -> SUBSET Events]
  /\ numclients \in [Threads -> Int]
  /\ reg \in [0..NumThreads -> Int]
  /\ response \in [Conns -> Seq(Statuses)]
  /\ owner \in [Conns -> Threads \cup {NULL}]
  /\ raced \in BOOLEAN

\* A thread acts on the events of an earlier epoll_wait while others close and
\* accept descriptors; every event it still holds is about the connection it
\* was reported for, so no thread writes to or closes somebody else's.
EventsCurrent ==
  /\ \A e \in events : file[e.fd] = e.conn
  /\ \A t \in Threads : \A e \in t_events[t] : file[e.fd] = e.conn

\* A thread's counter is the number of clients in its epoll set whenever neither
\* it nor main_thread is about to change it, provided no updates ever overlapped.
CountExactUnlessRaced ==
  \A t \in Threads :
    ~raced /\ pc[t] \in {"wait", "next"} /\ mainpc \in {"wait", "next"}
      => numclients[t] = Cardinality(epollfd[t])

\* main_thread is never told again of a connection it has passed on, whatever
\* its client sends or does between EPOLL_CTL_ADD and EPOLL_CTL_DEL: it does not
\* read from it, answer it or close it under the sse thread.
PassedOnForGood == \A e \in events : owner[e.conn] = NULL

\* The descriptor of an event stream whose client has gone is closed, although
\* only a write, and then the reset it draws, can tell.
StreamsReclaimed ==
  \A c \in Conns :
    (owner[c] # NULL /\ peer[c] # "open") ~> ~Connected(c)

----------------------------------------------------------------------------
(* A claim of the README that the code does not keep                       *)

\* README.md, rules 1 to 3: a request gets a response.  One that has arrived
\* whole is answered, or its connection is closed by either side.
EveryRequestAnswered ==
  \A c \in Conns :
    (peer[c] = "open" /\ data[c] = "whole")
      ~> \/ response[c] # <<>>
         \/ peer[c] # "open"
         \/ ~Connected(c)
=============================================================================
