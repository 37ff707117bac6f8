---------------------------- MODULE CServerProofs ----------------------------
(***************************************************************************)
(* The invariants of CServer hold for any numbers of connections,          *)
(* descriptors and sse threads.                                            *)
(*                                                                         *)
(* What keeps the threads apart, which take no lock, is that a descriptor  *)
(* in use has one owner: main() while it is accepted and not added, then   *)
(* main_thread, then the sse thread it is given to (Roles); that a thread  *)
(* holds events of its own descriptors only, one of each (Held); and that  *)
(* only the owner closes.  The counters follow from where main_thread and  *)
(* the sse thread are in the course of an update (Counted).                *)
(***************************************************************************)
EXTENDS CServer, FiniteSetTheorems, TLAPS

\* A descriptor stands for a connection that was accepted, and no other one does.
Sockets ==
  /\ \A f \in Fds : file[f] # NULL => peer[file[f]] # "none"
  /\ \A f, g \in Fds : file[f] # NULL /\ file[f] = file[g] => f = g
  /\ \A c \in Conns : peer[c] = "none" => owner[c] = NULL
  /\ \A c \in Conns : peer[c] # "none" => request[c] \in Request

\* Whose a descriptor is.  Only between EPOLL_CTL_ADD and EPOLL_CTL_DEL has
\* main_thread one in its set that it has given away.
Roles ==
  /\ accepted # NULL => /\ file[accepted] # NULL
                        /\ owner[file[accepted]] = NULL
                        /\ accepted \notin efd
  /\ \A f \in efd : owner[file[f]] # NULL => mainpc = "del" /\ cur.fd = f
  /\ \A t \in Threads : \A f \in epollfd[t] : owner[file[f]] = t

\* The events a thread holds are about descriptors of its own, one of each.
Held ==
  /\ \A e \in events : file[e.fd] = e.conn /\ owner[e.conn] = NULL /\ e.fd # accepted
  /\ \A d, e \in events : d.fd = e.fd => d = e
  /\ \A t \in Threads : \A e \in t_events[t] : file[e.fd] = e.conn /\ e.fd \in epollfd[t]
  /\ \A t \in Threads : \A d, e \in t_events[t] : d.fd = e.fd => d = e

\* Is main_thread about to count, or thread t to uncount, a client?
Adding(t) == IF mainpc \in {"del", "incLoad", "incStore"} /\ cur_thread = t THEN 1 ELSE 0
Dropping(t) == IF pc[t] \in {"decLoad", "decStore"} THEN 1 ELSE 0

\* A counter, and a copy of it in a register, in the course of an update
Counted ==
  ~raced => \A t \in Threads :
    /\ pc[t] # "start" => numclients[t] = Cardinality(epollfd[t]) + Dropping(t) - Adding(t)
    /\ pc[t] = "start" => Cardinality(epollfd[t]) = Adding(t)
    /\ pc[t] = "decStore" => reg[t] = numclients[t]
    /\ mainpc = "incStore" /\ cur_thread = t =>
         pc[t] \notin {"start", "decStore"} /\ reg[NumThreads] = numclients[t]

IInv == TypeOK /\ Sockets /\ Roles /\ Held /\ Counted

----------------------------------------------------------------------------

USE CAssumption DEF Fds, Threads

\* What TypeOK says of descriptors and events, for the leaves that need no more
LEMMA InUse ==
  ASSUME TypeOK
  PROVE  /\ \A f \in Fds : file[f] # NULL => file[f] \in Conns
         /\ \A f \in efd : f \in Fds /\ file[f] # NULL
         /\ \A t \in Threads : \A f \in epollfd[t] : f \in Fds /\ file[f] # NULL
         /\ \A e \in events : e.fd \in Fds /\ e.conn \in Conns
         /\ \A t \in Threads : \A e \in t_events[t] : e.fd \in Fds /\ e.conn \in Conns
<1>1. \A f \in Fds : file[f] # NULL => file[f] \in Conns
  BY DEF TypeOK
<1>2. \A f \in efd : f \in Fds /\ file[f] # NULL
  BY DEF TypeOK, Free
<1>3. \A t \in Threads : \A f \in epollfd[t] : f \in Fds /\ file[f] # NULL
  BY ZenonT(40) DEF TypeOK, Free
<1>4. \A e \in events : e.fd \in Fds /\ e.conn \in Conns
  BY DEF TypeOK, Events
<1>5. \A t \in Threads : \A e \in t_events[t] : e.fd \in Fds /\ e.conn \in Conns
  <2>1. \A t \in Threads : t_events[t] \subseteq Events
    BY DEF TypeOK
  <2>2. \A e \in Events : e.fd \in Fds /\ e.conn \in Conns
    BY DEF Events
  <2> QED
    BY <2>1, <2>2
<1> QED
  BY <1>1, <1>2, <1>3, <1>4, <1>5

LEMMA SetsFinite ==
  ASSUME TypeOK
  PROVE  \A t \in Threads : IsFiniteSet(epollfd[t]) /\ Cardinality(epollfd[t]) \in Nat
<1>1. IsFiniteSet(Fds)
  <2>1. 1 \in Int /\ NumFds \in Int
    OBVIOUS
  <2> QED
    BY <2>1, FS_Interval
<1>2. \A t \in Threads : epollfd[t] \subseteq Fds
  BY DEF TypeOK, Free
<1> QED
  BY <1>1, <1>2, FS_Subset, FS_CardinalityType

LEMMA InitIInv == Init => IInv
<1> SUFFICES ASSUME Init PROVE IInv
  OBVIOUS
<1>1. TypeOK
  <2>1. raced \in BOOLEAN
    BY Zenon DEF Init
  <2>2. /\ numclients \in [Threads -> Int]
        /\ cur_thread \in Threads
        /\ reg \in [0..NumThreads -> Int]
    <3>1. numclients \in [Threads -> Int]
      BY DEF Init
    <3>2. cur_thread \in Threads
      BY DEF Init
    <3>3. reg \in [0..NumThreads -> Int]
      BY DEF Init
    <3> QED
      BY <3>1, <3>2, <3>3
  <2>3. /\ edge \subseteq efd /\ efd \subseteq Fds \ Free
        /\ epollfd \in [Threads -> SUBSET (Fds \ Free)]
        /\ events \subseteq Events
        /\ t_events \in [Threads -> SUBSET Events]
    BY DEF Init
  <2>4. /\ file \in [Fds -> Conns \cup {NULL}]
        /\ peer \in [Conns -> {"none", "open", "gone", "failing", "reset"}]
        /\ request \in [Conns -> Request \cup {NULL}]
        /\ data \in [Conns -> {"none", "part", "whole", "had part", "rest", "had all"}]
        /\ response \in [Conns -> Seq(Statuses)]
        /\ owner \in [Conns -> Threads \cup {NULL}]
        /\ pc \in [Threads -> {"start", "wait", "next", "decLoad", "decStore"}]
    BY DEF Init
  <2> QED
    BY <2>1, <2>2, <2>3, <2>4 DEF Init, TypeOK
<1>2. Sockets /\ Roles /\ Held
  BY DEF Init, Sockets, Roles, Held
<1>3. Counted
  <2>1. Cardinality({}) = 0
    BY FS_EmptySet
  <2>2. \A t \in Threads : /\ pc[t] = "start"
                          /\ Cardinality(epollfd[t]) = 0
                          /\ Adding(t) = 0
                          /\ mainpc = "wait"
    BY <2>1 DEF Init, Adding
  <2> QED
    BY <2>2 DEF Counted
<1> QED
  BY <1>1, <1>2, <1>3 DEF IInv

----------------------------------------------------------------------------
(* What a step leaves alone                                                *)

\* Sockets speaks of the table and of what clients do; peers only come up.
LEMMA SocketsKept ==
  ASSUME IInv, UNCHANGED <<file, request, owner>>,
         \A c \in Conns : peer'[c] = "none" <=> peer[c] = "none"
  PROVE  Sockets'
BY InUse DEF IInv, Sockets

LEMMA RolesKept ==
  ASSUME IInv, UNCHANGED <<file, owner, accepted, efd, epollfd>>,
         mainpc = "del" => UNCHANGED <<mainpc, cur>>
  PROVE  Roles'
BY DEF IInv, Roles, TypeOK

LEMMA HeldKept ==
  ASSUME IInv, UNCHANGED <<file, owner, accepted, epollfd, events, t_events>>
  PROVE  Held'
BY DEF IInv, Held

LEMMA CountedKept ==
  ASSUME IInv, UNCHANGED <<raced, numclients, reg, cur_thread, epollfd>>,
         mainpc' = mainpc \/ {mainpc, mainpc'} \subseteq {"wait", "next"}
                          \/ {mainpc, mainpc'} \subseteq {"del", "incLoad"},
         \A t \in Threads : pc'[t] = pc[t] \/ {pc[t], pc'[t]} \subseteq {"wait", "next"}
  PROVE  Counted'
<1>1. \A t \in Threads : Adding(t)' = Adding(t) /\ Dropping(t)' = Dropping(t)
  BY DEF Adding, Dropping
<1> QED
  BY <1>1 DEF IInv, Counted

----------------------------------------------------------------------------
(* Clients and accept                                                      *)

LEMMA ClientStep ==
  ASSUME IInv, NEW c \in Conns, clientSends(c) \/ clientCloses(c)
  PROVE  IInv'
<1> USE DEF IInv
<1>1. \A d \in Conns : peer'[d] = "none" <=> peer[d] = "none"
  BY DEF clientSends, clientCloses, TypeOK
<1>2. TypeOK'
  <2>1. edge' \subseteq efd' /\ UNCHANGED <<file, efd, epollfd>>
    BY DEF clientSends, clientCloses, signal, TypeOK
  <2>2. Free' = Free
    BY <2>1 DEF Free
  <2>3. /\ peer' \in [Conns -> {"none", "open", "gone", "failing", "reset"}]
        /\ data' \in [Conns -> {"none", "part", "whole", "had part", "rest", "had all"}]
    BY DEF clientSends, clientCloses, TypeOK
  <2>4. UNCHANGED <<request, accepted, mainThread, sseThreads, counters, response, owner>>
    BY DEF clientSends, clientCloses
  <2> QED
    BY <2>1, <2>2, <2>3, <2>4 DEF TypeOK, mainThread, sseThreads, counters
<1>3. UNCHANGED <<file, request, owner, accepted, efd, epollfd, mainpc, cur, cur_thread,
                 events, t_events, raced, numclients, reg, pc>>
  BY DEF clientSends, clientCloses, mainThread, sseThreads, counters
<1> QED
  BY <1>1, <1>2, <1>3, SocketsKept, RolesKept, HeldKept, CountedKept

LEMMA AcceptStep ==
  ASSUME IInv, NEW c \in Conns, NEW r \in Requests[c], accept(c, r)
  PROVE  IInv'
<1> USE DEF IInv
<1>1. PICK f \in Fds : /\ file[f] = NULL
                       /\ file' = [file EXCEPT ![f] = c]
                       /\ accepted' = f
  BY DEF accept, Free
<1>2. /\ UNCHANGED <<data, sets, mainThread, sseThreads, counters, response, owner>>
      /\ peer' = [peer EXCEPT ![c] = "open"]
      /\ request' = [request EXCEPT ![c] = r]
      /\ peer[c] = "none" /\ accepted = NULL /\ r \in Request
  BY DEF accept
<1>3. TypeOK'
  <2>1. /\ file' \in [Fds -> Conns \cup {NULL}]
        /\ \A g \in Fds : g \notin Free => g \notin Free'
    BY <1>1 DEF TypeOK, Free
  <2>2. edge' \subseteq efd' /\ efd' \subseteq Fds \ Free'
    BY <1>2, <2>1 DEF TypeOK, sets
  <2>3. epollfd' \in [Threads -> SUBSET (Fds \ Free')]
    BY <1>2, <2>1 DEF TypeOK, sets
  <2>4. /\ peer' \in [Conns -> {"none", "open", "gone", "failing", "reset"}]
        /\ request' \in [Conns -> Request \cup {NULL}]
        /\ accepted' \in Fds \cup {NULL}
    BY <1>1, <1>2 DEF TypeOK
  <2> QED
    BY <1>2, <2>1, <2>2, <2>3, <2>4 DEF TypeOK, mainThread, sseThreads, counters
<1>4. \A g \in Fds : file[g] # c
  BY <1>2 DEF Sockets, TypeOK
<1>5. Sockets'
  BY ZenonT(40), <1>1, <1>2, <1>4 DEF Sockets, TypeOK
<1>6. \A g \in Fds : g # f => file'[g] = file[g]
  BY <1>1 DEF TypeOK
<1>7. f \notin efd /\ \A t \in Threads : f \notin epollfd[t]
  BY <1>1, InUse
<1>8. Roles'
  <2>1. file'[f] = c /\ owner[c] = NULL
    BY <1>1, <1>2 DEF Sockets, TypeOK
  <2>2. \A g \in efd : file'[g] = file[g]
    BY <1>6, <1>7, InUse
  <2>3. \A t \in Threads : \A g \in epollfd[t] : file'[g] = file[g]
    BY <1>6, <1>7, InUse
  <2> QED
    BY <1>1, <1>2, <1>7, <2>1, <2>2, <2>3 DEF Roles, sets, mainThread
<1>9. Held'
  <2>1. \A e \in events : e.fd # f /\ e.fd \in Fds
    BY <1>1, InUse DEF Held
  <2>2. \A t \in Threads : \A e \in t_events[t] : e.fd # f /\ e.fd \in Fds
    BY <1>1, InUse DEF Held
  <2> QED
    BY <1>1, <1>2, <1>6, <2>1, <2>2 DEF Held, sets, mainThread, sseThreads
<1>10. Counted'
  BY <1>2, CountedKept DEF counters, mainThread, sets, sseThreads
<1> QED
  BY <1>3, <1>5, <1>8, <1>9, <1>10

----------------------------------------------------------------------------
(* Closing a descriptor                                                    *)

\* What close alone keeps, of a descriptor that main() is done with
LEMMA Closed ==
  ASSUME IInv, NEW f \in Fds, file[f] # NULL, close(f),
         UNCHANGED <<request, owner>>,
         \A c \in Conns : peer'[c] = "none" <=> peer[c] = "none",
         accepted' \in {accepted, NULL}, accepted' = NULL \/ accepted' # f,
         UNCHANGED <<mainpc, cur>>
  PROVE  /\ Sockets'
         /\ Roles'
         /\ \A g \in Fds : g # f => file'[g] = file[g]
         /\ file' \in [Fds -> Conns \cup {NULL}]
         /\ edge' \subseteq efd' /\ efd' \subseteq Fds \ Free'
         /\ epollfd' \in [Threads -> SUBSET (Fds \ Free')]
<1> USE DEF IInv, close
<1>1. /\ \A g \in Fds : g # f => file'[g] = file[g]
      /\ file'[f] = NULL
      /\ file' \in [Fds -> Conns \cup {NULL}]
  BY DEF TypeOK
<1>2. Sockets'
  BY <1>1, InUse DEF Sockets
<1>3. \A g \in Fds : g \notin Free /\ g # f => g \notin Free'
  BY <1>1 DEF Free
<1>4. /\ edge' \subseteq efd' /\ efd' \subseteq Fds \ Free'
      /\ epollfd' \in [Threads -> SUBSET (Fds \ Free')]
  BY <1>3 DEF TypeOK
<1>5. \A g \in efd' : g # f /\ g \in efd /\ g \in Fds
  BY DEF TypeOK
<1>6. \A t \in Threads : \A g \in epollfd'[t] : g # f /\ g \in epollfd[t] /\ g \in Fds
  BY DEF TypeOK, Free
<1>7. accepted' # NULL => /\ file'[accepted'] # NULL
                          /\ owner'[file'[accepted']] = NULL
                          /\ accepted' \notin efd'
  BY <1>1 DEF Roles, TypeOK
<1>8. Roles'
  BY <1>1, <1>5, <1>6, <1>7 DEF Roles
<1> QED
  BY <1>1, <1>2, <1>4, <1>8

\* A descriptor that no sse thread has is in none of their sets.
LEMMA Unowned ==
  ASSUME IInv, NEW f, owner[file[f]] = NULL
  PROVE  \A t \in Threads : f \notin epollfd[t]
BY DEF IInv, Roles

LEMMA ClosedUnowned ==
  ASSUME IInv, NEW f \in Fds, owner[file[f]] = NULL, close(f)
  PROVE  epollfd' = epollfd
<1>1. \A t \in Threads : f \notin epollfd[t]
  BY Unowned
<1>2. epollfd \in [Threads -> SUBSET (Fds \ Free)]
  BY DEF IInv, TypeOK
<1>3. \A t \in Threads : epollfd[t] \ {f} = epollfd[t]
  BY <1>1
<1> QED
  BY <1>2, <1>3 DEF close

LEMMA AddStep ==
  ASSUME IInv, addAccepted
  PROVE  IInv'
<1> USE DEF IInv
<1>1. /\ accepted # NULL /\ accepted' = NULL /\ accepted \in Fds
      /\ UNCHANGED <<sockets, mainThread, sseThreads, counters, response, owner>>
  BY DEF addAccepted, TypeOK
<1>2. file[accepted] # NULL /\ owner[file[accepted]] = NULL
  BY <1>1 DEF Roles
<1>3. CASE /\ efd' = efd \cup {accepted}
           /\ edge' \subseteq edge \cup {accepted}
           /\ UNCHANGED <<file, epollfd>>
  <2>1. TypeOK'
    <3>1. Free' = Free /\ accepted \notin Free
      BY <1>2, <1>3 DEF Free
    <3>2. edge' \subseteq efd' /\ efd' \subseteq Fds \ Free'
      BY <1>1, <1>3, <3>1 DEF TypeOK
    <3> QED
      BY <1>1, <1>3, <3>1, <3>2 DEF TypeOK, sockets, mainThread, sseThreads, counters
  <2>2. Sockets' /\ Counted'
    BY <1>1, <1>3, SocketsKept, CountedKept DEF sockets, mainThread, sseThreads, counters
  <2>3. Roles'
    BY <1>1, <1>2, <1>3 DEF Roles, mainThread
  <2>4. Held'
    <3>1. \A e \in events : e.fd # NULL
      BY InUse
    <3> QED
      BY <1>1, <1>3, <3>1 DEF Held, mainThread, sseThreads
  <2> QED
    BY <2>1, <2>2, <2>3, <2>4
<1>4. CASE close(accepted)
  <2>1. epollfd' = epollfd
    BY <1>1, <1>2, <1>4, ClosedUnowned
  <2>2. /\ Sockets' /\ Roles'
        /\ \A g \in Fds : g # accepted => file'[g] = file[g]
        /\ file' \in [Fds -> Conns \cup {NULL}]
        /\ edge' \subseteq efd' /\ efd' \subseteq Fds \ Free'
        /\ epollfd' \in [Threads -> SUBSET (Fds \ Free')]
    BY <1>1, <1>2, <1>4, Closed DEF sockets, mainThread
  <2>3. TypeOK'
    BY <1>1, <2>2 DEF TypeOK, sockets, mainThread, sseThreads, counters
  <2>4. Held'
    <3>1. \A e \in events : e.fd # accepted /\ e.fd \in Fds /\ e.fd # NULL
      BY InUse DEF Held
    <3>2. \A t \in Threads : \A e \in t_events[t] : e.fd # accepted /\ e.fd \in Fds
      BY <1>2, InUse DEF Held, Roles
    <3> QED
      BY SMTT(30), <1>1, <2>1, <2>2, <3>1, <3>2 DEF Held, mainThread, sseThreads
  <2>5. Counted'
    BY <1>1, <2>1, CountedKept DEF mainThread, sseThreads, counters
  <2> QED
    BY <2>2, <2>3, <2>4, <2>5
<1> QED
  BY <1>3, <1>4 DEF addAccepted

----------------------------------------------------------------------------
(* main_thread                                                             *)

LEMMA WaitStep ==
  ASSUME IInv, mainWaits
  PROVE  IInv'
<1> USE DEF IInv
<1>1. /\ mainpc = "wait" /\ mainpc' = "next" /\ edge' = {}
      /\ events' = {Event(f, peer[file[f]] = "reset") : f \in edge}
      /\ UNCHANGED <<file, sockets, accepted, efd, cur, cur_thread, epollfd,
                     sseThreads, counters, response, owner>>
  BY DEF mainWaits
<1>2. \A f \in edge : /\ f \in Fds /\ file[f] \in Conns /\ f # accepted
                      /\ owner[file[f]] = NULL
  BY ZenonT(40), <1>1, InUse DEF Roles, TypeOK
<1>3. \A e \in events' : \E f \in edge : e = Event(f, peer[file[f]] = "reset")
  BY <1>1
<1>4. \A e \in events' : /\ e \in Events /\ e.fd \in edge
                         /\ e = Event(e.fd, peer[file[e.fd]] = "reset")
  <2> SUFFICES ASSUME NEW f \in edge
               PROVE  LET e == Event(f, peer[file[f]] = "reset")
                      IN  e \in Events /\ e.fd = f
    BY <1>3
  <2>1. (peer[file[f]] = "reset") \in BOOLEAN
    OBVIOUS
  <2> QED
    BY <1>2, <2>1 DEF Event, Events
<1>5. TypeOK'
  <2>1. Free' = Free
    BY <1>1 DEF Free
  <2> QED
    BY <1>1, <1>4, <2>1 DEF TypeOK, sockets, sseThreads, counters
<1>6. Sockets' /\ Roles' /\ Counted'
  BY <1>1, SocketsKept, RolesKept, CountedKept DEF sockets, sseThreads, counters
<1>7. Held'
  <2>1. \A e \in events' : e.conn = file[e.fd]
    BY <1>4 DEF Event
  <2>2. \A d, e \in events' : d.fd = e.fd => d = e
    BY <1>4
  <2> QED
    BY <1>1, <1>2, <1>4, <2>1, <2>2 DEF Held, sseThreads
<1> QED
  BY <1>5, <1>6, <1>7

\* An event of main_thread is about a connection that is open and its own.
LEMMA EventOfMain ==
  ASSUME IInv, NEW e \in events
  PROVE  /\ e.fd \in Fds /\ e.conn \in Conns
         /\ file[e.fd] = e.conn /\ file[e.fd] # NULL
         /\ owner[e.conn] = NULL /\ owner[file[e.fd]] = NULL
         /\ e.fd # accepted
         /\ peer[e.conn] # "none"
         /\ request[e.conn] \in Request
<1>1. /\ e.fd \in Fds /\ e.conn \in Conns
      /\ file[e.fd] = e.conn /\ owner[e.conn] = NULL /\ e.fd # accepted
  BY InUse DEF IInv, Held
<1>2. file[e.fd] # NULL /\ owner[file[e.fd]] = NULL
  BY <1>1
<1>3. peer[e.conn] # "none"
  BY <1>1, <1>2 DEF IInv, Sockets
<1> QED
  BY <1>1, <1>2, <1>3 DEF IInv, Sockets

\* Closing the descriptor of an event it holds, main_thread disturbs nobody.
LEMMA MainCloses ==
  ASSUME IInv, NEW e \in events, close(e.fd), events' = events \ {e},
         UNCHANGED <<request, owner, accepted, mainpc, cur, cur_thread, sseThreads, counters>>,
         \A c \in Conns : peer'[c] = "none" <=> peer[c] = "none",
         peer' \in [Conns -> {"none", "open", "gone", "failing", "reset"}],
         data' \in [Conns -> {"none", "part", "whole", "had part", "rest", "had all"}],
         response' \in [Conns -> Seq(Statuses)]
  PROVE  IInv'
<1> USE DEF IInv
<1>1. /\ e.fd \in Fds /\ file[e.fd] = e.conn /\ file[e.fd] # NULL
      /\ owner[file[e.fd]] = NULL /\ e.fd # accepted
  BY EventOfMain
<1>2. epollfd' = epollfd
  BY <1>1, ClosedUnowned
<1>3. /\ Sockets' /\ Roles'
      /\ \A g \in Fds : g # e.fd => file'[g] = file[g]
      /\ file' \in [Fds -> Conns \cup {NULL}]
      /\ edge' \subseteq efd' /\ efd' \subseteq Fds \ Free'
      /\ epollfd' \in [Threads -> SUBSET (Fds \ Free')]
  BY <1>1, Closed
<1>4. TypeOK'
  BY <1>3 DEF TypeOK, sseThreads, counters
<1>5. Held'
  <2>1. \A d \in events' : d \in events /\ d.fd # e.fd /\ d.fd \in Fds
    BY InUse DEF Held
  <2>2. \A t \in Threads : \A d \in t_events[t] : d.fd # e.fd /\ d.fd \in Fds
    <3>1. \A t \in Threads : e.fd \notin epollfd[t]
      BY <1>1, Unowned
    <3> QED
      BY <3>1, InUse DEF Held
  <2>3. \A d \in events' : file'[d.fd] = file[d.fd]
    BY <1>3, <2>1
  <2>4. \A t \in Threads : \A d \in t_events[t] : file'[d.fd] = file[d.fd]
    BY <1>3, <2>2
  <2> QED
    BY ZenonT(40), <1>2, <2>1, <2>3, <2>4 DEF Held, sseThreads
<1>6. Counted'
  BY <1>2, CountedKept DEF sseThreads, counters
<1> QED
  BY <1>3, <1>4, <1>5, <1>6

LEMMA AnswersTyped ==
  ASSUME NEW c \in Conns, request[c] \in Request
  PROVE  Answers(c) \subseteq Statuses \cup {"close"}
BY DEF Answers, Route, Request, Statuses

LEMMA ConsumedTyped ==
  ASSUME IInv, NEW c \in Conns, data' = [data EXCEPT ![c] = Consumed(@)]
  PROVE  data' \in [Conns -> {"none", "part", "whole", "had part", "rest", "had all"}]
BY DEF IInv, TypeOK, Consumed

LEMMA WrittenTyped ==
  ASSUME IInv, NEW c \in Conns, written(c)
  PROVE  /\ peer' \in [Conns -> {"none", "open", "gone", "failing", "reset"}]
         /\ \A d \in Conns : peer'[d] = "none" <=> peer[d] = "none"
BY DEF IInv, TypeOK, written

LEMMA AppendedTyped ==
  ASSUME IInv, NEW c \in Conns, NEW status \in Statuses,
         response' = [response EXCEPT ![c] = Append(@, status)]
  PROVE  response' \in [Conns -> Seq(Statuses)]
<1>1. response \in [Conns -> Seq(Statuses)]
  BY DEF IInv, TypeOK
<1>2. Append(response[c], status) \in Seq(Statuses)
  BY <1>1
<1> QED
  BY <1>1, <1>2

\* The descriptor of event e is handed to cur_thread.
Passed(e) ==
  /\ mainpc = "next" /\ mainpc' = "del"
  /\ events' = events \ {e} /\ cur' = e
  /\ epollfd' = [epollfd EXCEPT ![cur_thread] = @ \cup {e.fd}]
  /\ owner' = [owner EXCEPT ![e.conn] = cur_thread]
  /\ UNCHANGED <<file, request, efd, edge, accepted, cur_thread, sseThreads, counters>>

\* The answer to the request keeps the shape of what it touches.
Wrote ==
  /\ \A c \in Conns : peer'[c] = "none" <=> peer[c] = "none"
  /\ peer' \in [Conns -> {"none", "open", "gone", "failing", "reset"}]
  /\ data' \in [Conns -> {"none", "part", "whole", "had part", "rest", "had all"}]
  /\ response' \in [Conns -> Seq(Statuses)]

LEMMA StreamPassed ==
  ASSUME IInv, NEW e \in events, Passed(e), Wrote
  PROVE  IInv'
<1> USE DEF IInv
<1>1. /\ e.fd \in Fds /\ file[e.fd] = e.conn /\ owner[e.conn] = NULL
      /\ e.fd # accepted /\ e.conn \in Conns /\ file[e.fd] # NULL
      /\ peer[e.conn] # "none"
  BY EventOfMain
<1>2. cur_thread \in Threads /\ \A t \in Threads : e.fd \notin epollfd[t]
  BY EventOfMain, Unowned DEF TypeOK
<1>3. /\ owner'[e.conn] = cur_thread
      /\ \A c \in Conns : c # e.conn => owner'[c] = owner[c]
      /\ owner' \in [Conns -> Threads \cup {NULL}]
  BY <1>1, <1>2 DEF TypeOK, Passed
<1>4. /\ epollfd'[cur_thread] = epollfd[cur_thread] \cup {e.fd}
      /\ \A t \in Threads : t # cur_thread => epollfd'[t] = epollfd[t]
  BY <1>2 DEF TypeOK, Passed
<1>5. TypeOK'
  <2>1. Free' = Free /\ e.fd \notin Free
    BY <1>1 DEF Free, Passed
  <2>2. epollfd' \in [Threads -> SUBSET (Fds \ Free')]
    BY ZenonT(40), <1>1, <1>2, <2>1 DEF TypeOK, Passed
  <2>3. events' \subseteq Events /\ cur' \in Events
    BY DEF TypeOK, Passed
  <2> QED
    BY <1>3, <2>1, <2>2, <2>3 DEF TypeOK, Passed, Wrote, sseThreads, counters
<1>6. Sockets'
  <2>1. \A c \in Conns : peer'[c] = "none" => owner'[c] = NULL
    BY <1>1, <1>3 DEF Sockets, Wrote
  <2>2. \A f \in Fds : file[f] # NULL => peer'[file[f]] # "none"
    BY InUse DEF Sockets, Wrote
  <2> QED
    BY <2>1, <2>2 DEF Sockets, Passed, Wrote
<1>7. Roles'
  <2>1. \A f \in Fds : f # e.fd /\ file[f] # NULL =>
          file[f] \in Conns /\ owner'[file[f]] = owner[file[f]]
    BY <1>1, <1>3, InUse DEF Sockets
  <2>2. accepted # NULL => accepted \in Fds
    BY DEF TypeOK
  <2>3. \A f \in efd : owner'[file[f]] # NULL => f = e.fd
    BY <1>3, <2>1, InUse DEF Roles, Passed
  <2>4. \A t \in Threads : \A f \in epollfd'[t] : owner'[file[f]] = t
    <3> SUFFICES ASSUME NEW t \in Threads, NEW f \in epollfd'[t]
                 PROVE  owner'[file[f]] = t
      OBVIOUS
    <3>1. CASE f = e.fd
      BY <1>1, <1>2, <1>3, <1>4, <3>1
    <3>2. CASE f # e.fd
      <4>1. f \in epollfd[t]
        BY <1>4, <3>2
      <4>2. owner[file[f]] = t /\ f \in Fds /\ file[f] # NULL
        BY <4>1, InUse DEF Roles
      <4> QED
        BY <2>1, <3>2, <4>2
    <3> QED
      BY <3>1, <3>2
  <2>5. accepted # NULL => owner'[file[accepted]] = NULL
    BY <1>1, <2>1, <2>2 DEF Roles
  <2> QED
    BY <2>3, <2>4, <2>5 DEF Roles, Passed
<1>8. Held'
  <2>1. \A d \in events' : d \in events /\ d.conn # e.conn /\ d.conn \in Conns
    <3> SUFFICES ASSUME NEW d \in events, d # e
                 PROVE  d.conn # e.conn /\ d.conn \in Conns
      BY DEF Passed
    <3>1. d.fd # e.fd
      BY DEF Held
    <3>2. file[d.fd] = d.conn /\ d.fd \in Fds /\ file[d.fd] # NULL /\ d.conn \in Conns
      BY EventOfMain
    <3> QED
      BY <1>1, <3>1, <3>2 DEF Sockets
  <2>2. \A t \in Threads : epollfd[t] \subseteq epollfd'[t]
    BY <1>4
  <2> QED
    BY <1>3, <2>1, <2>2 DEF Held, Passed, sseThreads
<1>9. Counted'
  <2>1. Cardinality(epollfd'[cur_thread]) = Cardinality(epollfd[cur_thread]) + 1
    BY <1>2, <1>4, SetsFinite, FS_AddElement
  <2>2. /\ Adding(cur_thread)' = 1 /\ Adding(cur_thread) = 0
        /\ \A t \in Threads : t # cur_thread => Adding(t)' = Adding(t)
        /\ \A t \in Threads : Dropping(t)' = Dropping(t)
    BY DEF Adding, Dropping, Passed, sseThreads
  <2>3. \A t \in Threads : /\ Cardinality(epollfd[t]) \in Nat
                          /\ numclients[t] \in Int
                          /\ Dropping(t) \in {0, 1}
    BY SetsFinite DEF TypeOK, Dropping
  <2> QED
    <3> SUFFICES ASSUME ~raced, NEW t \in Threads
                 PROVE  /\ pc[t] # "start" => numclients[t] = Cardinality(epollfd'[t])
                                                + Dropping(t) - Adding(t)'
                        /\ pc[t] = "start" => Cardinality(epollfd'[t]) = Adding(t)'
      BY <2>2 DEF Counted, Passed, sseThreads, counters
    <3>0. /\ pc[t] # "start" => numclients[t] = Cardinality(epollfd[t]) + Dropping(t) - Adding(t)
          /\ pc[t] = "start" => Cardinality(epollfd[t]) = Adding(t)
      BY DEF Counted
    <3>1. CASE t = cur_thread
      <4>1. /\ Cardinality(epollfd'[t]) = Cardinality(epollfd[t]) + 1
            /\ Adding(t)' = 1 /\ Adding(t) = 0
        BY <2>1, <3>1 DEF Adding, Passed
      <4> QED
        BY <2>3, <3>0, <4>1
    <3>2. CASE t # cur_thread
      BY <1>4, <2>2, <3>0, <3>2
    <3> QED
      BY <3>1, <3>2
<1> QED
  BY <1>5, <1>6, <1>7, <1>8, <1>9

LEMMA HandleStep ==
  ASSUME IInv, handleEvent
  PROVE  IInv'
<1>1. PICK e \in events : /\ dropBroken(e) \/ respond(e) \/ openStream(e)
                         /\ events' = events \ {e}
  BY DEF handleEvent
<1>2. /\ mainpc = "next"
      /\ UNCHANGED <<accepted, cur_thread, sseThreads, counters>>
  BY DEF handleEvent
<1>3. e.conn \in Conns
  BY EventOfMain
<1>5. Answers(e.conn) \subseteq Statuses \cup {"close"}
  BY EventOfMain, AnswersTyped
<1>6. CASE dropBroken(e)
  BY <1>1, <1>2, <1>6, MainCloses DEF dropBroken, sockets, IInv, TypeOK
<1>7. CASE respond(e)
  <2>1. /\ close(e.fd) /\ UNCHANGED <<peer, request, owner, cur, mainpc>>
        /\ data' = [data EXCEPT ![e.conn] = Consumed(@)]
    BY <1>7 DEF respond
  <2>2. response' \in [Conns -> Seq(Statuses)]
    <3>1. PICK answer \in Answers(e.conn) :
            response' = IF answer = "close" THEN response
                        ELSE [response EXCEPT ![e.conn] = Append(@, answer)]
      BY <1>7 DEF respond
    <3>2. CASE answer = "close"
      BY <3>1, <3>2 DEF IInv, TypeOK
    <3>3. CASE answer # "close"
      <4>1. answer \in Statuses
        BY <1>5, <3>3
      <4> QED
        BY <1>3, <3>1, <3>3, <4>1, AppendedTyped
    <3> QED
      BY <3>2, <3>3
  <2>3. data' \in [Conns -> {"none", "part", "whole", "had part", "rest", "had all"}]
    BY <1>3, <2>1, ConsumedTyped
  <2>4. peer' \in [Conns -> {"none", "open", "gone", "failing", "reset"}]
    BY <2>1 DEF IInv, TypeOK
  <2> QED
    BY <1>1, <1>2, <2>1, <2>2, <2>3, <2>4, MainCloses
<1>8. CASE openStream(e)
  <2>1. /\ response' = [response EXCEPT ![e.conn] = Append(@, "stream")]
        /\ data' = [data EXCEPT ![e.conn] = Consumed(@)]
        /\ written(e.conn)
        /\ UNCHANGED request
    BY <1>8 DEF openStream
  <2>2. response' \in [Conns -> Seq(Statuses)]
    BY <1>3, <2>1, AppendedTyped DEF Statuses
  <2>3. data' \in [Conns -> {"none", "part", "whole", "had part", "rest", "had all"}]
    BY <1>3, <2>1, ConsumedTyped
  <2>4. /\ peer' \in [Conns -> {"none", "open", "gone", "failing", "reset"}]
        /\ \A d \in Conns : peer'[d] = "none" <=> peer[d] = "none"
    BY <1>3, <2>1, WrittenTyped
  <2>5. CASE close(e.fd) /\ UNCHANGED <<owner, cur, mainpc>>
    BY <1>1, <1>2, <2>1, <2>2, <2>3, <2>4, <2>5, MainCloses
  <2>6. CASE /\ epollfd' = [epollfd EXCEPT ![cur_thread] = @ \cup {e.fd}]
             /\ owner' = [owner EXCEPT ![e.conn] = cur_thread]
             /\ cur' = e
             /\ mainpc' = "del"
             /\ UNCHANGED <<file, efd, edge>>
    BY <1>1, <1>2, <2>1, <2>2, <2>3, <2>4, <2>6, StreamPassed DEF Passed, Wrote
  <2> QED
    BY <1>8, <2>5, <2>6 DEF openStream
<1> QED
  BY <1>1, <1>6, <1>7, <1>8

LEMMA MainStep ==
  ASSUME IInv, eventsDone \/ removeFromMain
  PROVE  IInv'
<1> USE DEF IInv
<1>1. CASE eventsDone
  <2>1. /\ UNCHANGED <<file, sockets, accepted, sets, events, cur, cur_thread, sseThreads,
                       counters, response, owner>>
        /\ mainpc = "next" /\ mainpc' = "wait"
    BY <1>1 DEF eventsDone
  <2>2. TypeOK'
    BY <2>1 DEF TypeOK, Free, sockets, sets, sseThreads, counters
  <2>3. Sockets' /\ Roles' /\ Held' /\ Counted'
    BY <2>1, SocketsKept, RolesKept, HeldKept, CountedKept DEF sockets, sets, sseThreads, counters
  <2> QED
    BY <2>2, <2>3
<1>2. CASE removeFromMain
  <2>1. /\ UNCHANGED <<file, sockets, accepted, epollfd, events, cur, cur_thread, sseThreads,
                       counters, response, owner>>
        /\ efd' = efd \ {cur.fd} /\ edge' = edge \ {cur.fd}
        /\ mainpc = "del" /\ mainpc' = "incLoad"
    BY <1>2 DEF removeFromMain
  <2>2. TypeOK'
    BY <2>1 DEF TypeOK, Free, sockets, sseThreads, counters
  <2>3. Sockets' /\ Held' /\ Counted'
    BY <2>1, SocketsKept, HeldKept, CountedKept DEF sockets, sseThreads, counters
  <2>4. Roles'
    BY <2>1 DEF Roles
  <2> QED
    BY <2>2, <2>3, <2>4
<1> QED
  BY <1>1, <1>2

\* numclients++ of main_thread
LEMMA CountStep ==
  ASSUME IInv, countClient
  PROVE  IInv'
<1> USE DEF IInv
<1>1. /\ cur_thread \in Threads /\ NumThreads \notin Threads
      /\ numclients \in [Threads -> Int] /\ reg \in [0..NumThreads -> Int]
      /\ NumThreads \in 0..NumThreads
  <2>1. NumThreads \notin Threads /\ NumThreads \in 0..NumThreads
    OBVIOUS
  <2>2. /\ cur_thread \in Threads
        /\ numclients \in [Threads -> Int] /\ reg \in [0..NumThreads -> Int]
    BY DEF TypeOK
  <2> QED
    BY <2>1, <2>2
<1>2. CASE mainpc = "incLoad"
  <2>1. /\ UNCHANGED <<file, sockets, accepted, sets, events, cur, cur_thread,
                       sseThreads, numclients, response, owner>>
        /\ mainpc' = "incStore"
        /\ reg' = [reg EXCEPT ![NumThreads] = numclients[cur_thread]]
    BY <1>2 DEF countClient
  <2>2. /\ raced' <=> (raced \/ pc[cur_thread] \in {"start", "decStore"})
        /\ raced' \in BOOLEAN
    <3>1. raced' = (raced \/ pc[cur_thread] \in {"start", "decStore"})
      BY <1>2 DEF countClient
    <3> QED
      BY <3>1, Zenon
  <2>3. reg' \in [0..NumThreads -> Int] /\ reg'[NumThreads] = numclients[cur_thread]
        /\ \A t \in Threads : reg'[t] = reg[t]
    BY <1>1, <2>1
  <2>4. TypeOK'
    BY <2>1, <2>2, <2>3 DEF TypeOK, Free, sockets, sets, sseThreads
  <2>5. Sockets' /\ Roles' /\ Held'
    BY <1>2, <2>1, SocketsKept, RolesKept, HeldKept DEF sockets, sets, sseThreads
  <2>6. \A t \in Threads : Adding(t)' = Adding(t) /\ Dropping(t)' = Dropping(t)
    BY <1>2, <2>1 DEF Adding, Dropping, sseThreads
  <2>7. Counted'
    BY <1>2, <2>1, <2>2, <2>3, <2>6 DEF Counted, sets, sseThreads
  <2> QED
    BY <2>4, <2>5, <2>7
<1>3. CASE mainpc = "incStore"
  <2> DEFINE t == cur_thread
  <2>1. /\ UNCHANGED <<file, sockets, accepted, sets, events, sseThreads, raced,
                       response, owner>>
        /\ mainpc' = "next" /\ cur' = NULL
        /\ numclients' = [numclients EXCEPT ![cur_thread] = reg[NumThreads] + 1]
        /\ cur_thread' = NextThread(cur_thread)
        /\ reg' = [reg EXCEPT ![NumThreads] = 0]
    BY <1>3 DEF countClient
  <2>2. /\ cur_thread' \in Threads
        /\ numclients' \in [Threads -> Int]
        /\ reg' \in [0..NumThreads -> Int]
        /\ \A u \in Threads : reg'[u] = reg[u]
        /\ \A u \in Threads : u # cur_thread => numclients'[u] = numclients[u]
        /\ numclients'[cur_thread] = reg[NumThreads] + 1
    BY SMTT(30), <1>1, <2>1 DEF NextThread
  <2>3. TypeOK'
    BY <2>1, <2>2 DEF TypeOK, Free, sockets, sets, sseThreads
  <2>4. Sockets' /\ Roles' /\ Held'
    BY <1>3, <2>1, SocketsKept, RolesKept, HeldKept DEF sockets, sets, sseThreads
  <2>5. Counted'
    <3>1. \A u \in Threads : Adding(u)' = 0 /\ Dropping(u)' = Dropping(u)
      BY <2>1 DEF Adding, Dropping, sseThreads
    <3> SUFFICES ASSUME ~raced, NEW u \in Threads
                 PROVE  /\ pc[u] # "start" => numclients'[u] = Cardinality(epollfd[u]) + Dropping(u) - 0
                        /\ pc[u] = "start" => Cardinality(epollfd[u]) = 0
                        /\ pc[u] = "decStore" => reg[u] = numclients'[u]
      BY <2>1, <2>2, <3>1 DEF Counted, sets, sseThreads
    <3>2. /\ pc[u] # "start" => numclients[u] = Cardinality(epollfd[u]) + Dropping(u) - Adding(u)
          /\ pc[u] = "start" => Cardinality(epollfd[u]) = Adding(u)
          /\ pc[u] = "decStore" => reg[u] = numclients[u]
          /\ cur_thread = u => pc[u] \notin {"start", "decStore"} /\ reg[NumThreads] = numclients[u]
      BY <1>3 DEF Counted
    <3>3. /\ Cardinality(epollfd[u]) \in Nat /\ Dropping(u) \in {0, 1} /\ numclients[u] \in Int
          /\ Adding(u) = IF cur_thread = u THEN 1 ELSE 0
      BY <1>1, <1>3, SetsFinite DEF Dropping, Adding
    <3>4. CASE u = cur_thread
      <4>1. numclients'[u] = numclients[u] + 1 /\ Adding(u) = 1 /\ pc[u] \notin {"start", "decStore"}
        BY <2>2, <3>2, <3>3, <3>4
      <4> QED
        BY <3>2, <3>3, <4>1
    <3>5. CASE u # cur_thread
      <4>1. numclients'[u] = numclients[u] /\ Adding(u) = 0
        BY <2>2, <3>3, <3>5
      <4> QED
        BY <3>2, <3>3, <4>1
    <3> QED
      BY <3>4, <3>5
  <2> QED
    BY <2>3, <2>4, <2>5
<1> QED
  BY <1>2, <1>3 DEF countClient

----------------------------------------------------------------------------
(* sse_thread                                                              *)

LEMMA SseStartStep ==
  ASSUME IInv, NEW t \in Threads, sseStarts(t)
  PROVE  IInv'
<1> USE DEF IInv
<1>1. /\ UNCHANGED <<file, sockets, accepted, sets, mainThread, t_events, reg, raced,
                     response, owner>>
      /\ pc[t] = "start" /\ pc' = [pc EXCEPT ![t] = "wait"]
      /\ numclients' = [numclients EXCEPT ![t] = 0]
  BY DEF sseStarts
<1>2. TypeOK'
  <2>1. numclients' \in [Threads -> Int]
    <3>1. numclients \in [Threads -> Int]
      BY DEF TypeOK
    <3>2. numclients' = [numclients EXCEPT ![t] = 0]
      BY <1>1
    <3> QED
      BY <3>1, <3>2
  <2>2. pc' \in [Threads -> {"start", "wait", "next", "decLoad", "decStore"}]
    BY <1>1 DEF TypeOK
  <2>3. Free' = Free
    BY <1>1 DEF Free
  <2> QED
    BY <1>1, <2>1, <2>2, <2>3 DEF TypeOK, sockets, sets, mainThread
<1>3. Sockets' /\ Roles' /\ Held'
  BY <1>1, SocketsKept, RolesKept, HeldKept DEF sockets, sets, mainThread
<1>4. /\ pc'[t] = "wait" /\ numclients'[t] = 0
      /\ \A u \in Threads : u # t => pc'[u] = pc[u] /\ numclients'[u] = numclients[u]
  BY <1>1 DEF TypeOK
<1>5. /\ \A u \in Threads : Adding(u)' = Adding(u)
      /\ \A u \in Threads : u # t => Dropping(u)' = Dropping(u)
      /\ Dropping(t)' = 0
      /\ \A u \in Threads : Adding(u) \in {0, 1}
  BY <1>1, <1>4 DEF Adding, Dropping, mainThread
<1>6. Counted'
  <2> SUFFICES ASSUME ~raced, NEW u \in Threads
               PROVE  /\ pc'[u] # "start" => numclients'[u] = Cardinality(epollfd[u]) + Dropping(u)' - Adding(u)
                      /\ pc'[u] = "start" => Cardinality(epollfd[u]) = Adding(u)
                      /\ pc'[u] = "decStore" => reg[u] = numclients'[u]
                      /\ mainpc = "incStore" /\ cur_thread = u =>
                           pc'[u] \notin {"start", "decStore"} /\ reg[NumThreads] = numclients'[u]
    BY <1>1, <1>5 DEF Counted, mainThread, sets
  <2>1. CASE u = t
    <3>1. Cardinality(epollfd[t]) = Adding(t) /\ ~(mainpc = "incStore" /\ cur_thread = t)
      BY <1>1 DEF Counted
    <3> QED
      BY <1>4, <1>5, <2>1, <3>1
  <2>2. CASE u # t
    BY <1>4, <1>5, <2>2 DEF Counted
  <2> QED
    BY <2>1, <2>2
<1> QED
  BY <1>2, <1>3, <1>6

LEMMA SseWaitStep ==
  ASSUME IInv, NEW t \in Threads, sseWaits(t)
  PROVE  IInv'
<1> USE DEF IInv
<1>1. PICK ready \in SUBSET epollfd[t] :
        t_events' = [t_events EXCEPT ![t] = {Event(f, f \in {g \in epollfd[t] : peer[file[g]] = "reset"}) : f \in ready}]
  BY DEF sseWaits
<1>2. /\ pc[t] = "wait" /\ pc' = [pc EXCEPT ![t] = "next"]
      /\ UNCHANGED <<file, sockets, accepted, sets, mainThread, counters, response, owner>>
  BY DEF sseWaits
<1>3. /\ \A u \in Threads : u # t => t_events'[u] = t_events[u] /\ pc'[u] = pc[u]
      /\ t_events'[t] = {Event(f, f \in {g \in epollfd[t] : peer[file[g]] = "reset"}) : f \in ready}
      /\ pc'[t] = "next"
  BY <1>1, <1>2 DEF TypeOK
<1>4. \A e \in t_events'[t] : /\ e \in Events /\ e.fd \in ready /\ e.conn = file[e.fd]
                              /\ e = Event(e.fd, e.fd \in {g \in epollfd[t] : peer[file[g]] = "reset"})
  <2> SUFFICES ASSUME NEW f \in ready
               PROVE  LET e == Event(f, f \in {g \in epollfd[t] : peer[file[g]] = "reset"})
                      IN  e \in Events /\ e.fd = f /\ e.conn = file[f]
    BY <1>3
  <2>1. (f \in {g \in epollfd[t] : peer[file[g]] = "reset"}) \in BOOLEAN
    OBVIOUS
  <2>2. f \in Fds /\ file[f] \in Conns
    BY InUse
  <2> QED
    BY <2>1, <2>2 DEF Event, Events
<1>5. TypeOK'
  <2>1. t_events' \in [Threads -> SUBSET Events]
    BY <1>1, <1>3, <1>4 DEF TypeOK
  <2>2. pc' \in [Threads -> {"start", "wait", "next", "decLoad", "decStore"}]
    BY <1>2 DEF TypeOK
  <2> QED
    BY ZenonT(40), <1>2, <2>1, <2>2 DEF TypeOK, Free, sockets, sets, mainThread, counters
<1>6. Sockets' /\ Roles' /\ Counted'
  BY <1>2, <1>3, SocketsKept, RolesKept, CountedKept DEF sockets, sets, mainThread, counters
<1>7. Held'
  <2>1. \A d, e \in t_events'[t] : d.fd = e.fd => d = e
    BY <1>4
  <2>2. \A e \in t_events'[t] : file[e.fd] = e.conn /\ e.fd \in epollfd[t]
    BY <1>4
  <2>3. \A u \in Threads : \A e \in t_events'[u] : file[e.fd] = e.conn /\ e.fd \in epollfd[u]
    BY <1>3, <2>2 DEF Held
  <2>4. \A u \in Threads : \A d, e \in t_events'[u] : d.fd = e.fd => d = e
    BY <1>3, <2>1 DEF Held
  <2> QED
    BY <1>2, <2>3, <2>4 DEF Held, sets, mainThread
<1> QED
  BY <1>5, <1>6, <1>7

LEMMA SseSleepStep ==
  ASSUME IInv, NEW t \in Threads, sseSleeps(t)
  PROVE  IInv'
<1> USE DEF IInv
<1>1. /\ pc[t] = "next" /\ pc' = [pc EXCEPT ![t] = "wait"]
      /\ UNCHANGED <<file, sockets, accepted, sets, mainThread, t_events, counters,
                     response, owner>>
  BY DEF sseSleeps
<1>2. \A u \in Threads : pc'[u] = pc[u] \/ {pc[u], pc'[u]} \subseteq {"wait", "next"}
  BY <1>1 DEF TypeOK
<1>3. TypeOK'
  BY <1>1 DEF TypeOK, Free, sockets, sets, mainThread, counters
<1>4. Sockets' /\ Roles' /\ Held' /\ Counted'
  BY <1>1, <1>2, SocketsKept, RolesKept, HeldKept, CountedKept
     DEF sockets, sets, mainThread, counters
<1> QED
  BY <1>3, <1>4

\* The sse thread closes the descriptor of an event it holds.
LEMMA SseDropStep ==
  ASSUME IInv, NEW t \in Threads, NEW e \in t_events[t], drop(t, e), pc[t] = "next",
         t_events' = [t_events EXCEPT ![t] = @ \ {e}],
         UNCHANGED <<request, data, accepted, mainThread, counters, response, owner>>
  PROVE  IInv'
<1> USE DEF IInv
<1>1. /\ e.fd \in epollfd[t] /\ e.fd \in Fds /\ file[e.fd] # NULL /\ owner[file[e.fd]] = t
      /\ file[e.fd] = e.conn
  BY InUse DEF Held, Roles
<1>2. close(e.fd) /\ pc' = [pc EXCEPT ![t] = "decLoad"] /\ UNCHANGED peer
  BY DEF drop
<1>3. e.fd # accepted \/ accepted = NULL
  BY <1>1 DEF Roles
<1>4. /\ Sockets' /\ Roles'
      /\ \A g \in Fds : g # e.fd => file'[g] = file[g]
      /\ file' \in [Fds -> Conns \cup {NULL}]
      /\ edge' \subseteq efd' /\ efd' \subseteq Fds \ Free'
      /\ epollfd' \in [Threads -> SUBSET (Fds \ Free')]
  BY <1>1, <1>2, <1>3, Closed DEF mainThread
<1>5. /\ epollfd'[t] = epollfd[t] \ {e.fd}
      /\ \A u \in Threads : u # t => e.fd \notin epollfd[u] /\ epollfd'[u] = epollfd[u]
  <2>1. \A u \in Threads : epollfd'[u] = epollfd[u] \ {e.fd}
    BY <1>2 DEF close
  <2>2. \A u \in Threads : u # t => e.fd \notin epollfd[u]
    BY <1>1 DEF Roles
  <2> QED
    BY ZenonT(40), <2>1, <2>2
<1>6. /\ t_events'[t] = t_events[t] \ {e}
      /\ \A u \in Threads : u # t => t_events'[u] = t_events[u]
      /\ t_events' \in [Threads -> SUBSET Events]
  BY DEF TypeOK
<1>7. /\ pc'[t] = "decLoad" /\ \A u \in Threads : u # t => pc'[u] = pc[u]
      /\ pc' \in [Threads -> {"start", "wait", "next", "decLoad", "decStore"}]
  BY <1>2 DEF TypeOK
<1>8. TypeOK'
  BY <1>2, <1>4, <1>6, <1>7 DEF TypeOK, mainThread, counters
<1>9. Held'
  <2>1. \A d \in events : d.fd # e.fd /\ d.fd \in Fds
    BY <1>1, EventOfMain
  <2>2. \A u \in Threads : \A d \in t_events'[u] : d \in t_events[u] /\ d.fd # e.fd /\ d.fd \in Fds
    <3> SUFFICES ASSUME NEW u \in Threads, NEW d \in t_events'[u]
                 PROVE  d \in t_events[u] /\ d.fd # e.fd /\ d.fd \in Fds
      OBVIOUS
    <3>1. CASE u = t
      BY <1>6, <3>1, InUse DEF Held
    <3>2. CASE u # t
      BY <1>5, <1>6, <3>2, InUse DEF Held
    <3> QED
      BY <3>1, <3>2
  <2>3. \A u \in Threads : \A d \in t_events'[u] : file'[d.fd] = d.conn /\ d.fd \in epollfd'[u]
    <3>1. \A u \in Threads : \A d \in t_events[u] : file[d.fd] = d.conn /\ d.fd \in epollfd[u]
      BY DEF Held
    <3>2. \A u \in Threads : \A g \in epollfd[u] : g # e.fd => g \in epollfd'[u]
      BY <1>5
    <3> QED
      BY <1>4, <2>2, <3>1, <3>2
  <2>4. \A u \in Threads : \A c, d \in t_events'[u] : c.fd = d.fd => c = d
    BY <2>2 DEF Held
  <2>5. \A d \in events : file'[d.fd] = d.conn /\ owner[d.conn] = NULL /\ d.fd # accepted
    BY <1>4, <2>1, EventOfMain
  <2> QED
    BY <2>3, <2>4, <2>5 DEF Held, mainThread
<1>10. Counted'
  <2>1. Cardinality(epollfd'[t]) = Cardinality(epollfd[t]) - 1
    <3>1. e.fd \in epollfd[t] /\ IsFiniteSet(epollfd[t])
      BY <1>1, SetsFinite DEF Held
    <3>2. Cardinality(epollfd[t] \ {e.fd}) = Cardinality(epollfd[t]) - 1
      BY <3>1, FS_RemoveElement
    <3>3. epollfd'[t] = epollfd[t] \ {e.fd}
      BY <1>5
    <3> QED
      BY <3>2, <3>3
  <2>2. /\ \A u \in Threads : Adding(u)' = Adding(u) /\ Adding(u) \in {0, 1}
        /\ \A u \in Threads : u # t => Dropping(u)' = Dropping(u)
        /\ Dropping(t)' = 1 /\ Dropping(t) = 0
    BY <1>7 DEF Adding, Dropping, mainThread
  <2> SUFFICES ASSUME ~raced, NEW u \in Threads
               PROVE  /\ pc'[u] # "start" => numclients[u] = Cardinality(epollfd'[u]) + Dropping(u)' - Adding(u)
                      /\ pc'[u] = "start" => Cardinality(epollfd'[u]) = Adding(u)
                      /\ pc'[u] = "decStore" => reg[u] = numclients[u]
                      /\ mainpc = "incStore" /\ cur_thread = u =>
                           pc'[u] \notin {"start", "decStore"} /\ reg[NumThreads] = numclients[u]
    BY <2>2 DEF Counted, mainThread, counters
  <2>3. CASE u = t
    <3>1. numclients[t] = Cardinality(epollfd[t]) + 0 - Adding(t)
      BY <2>2 DEF Counted
    <3>2. Cardinality(epollfd[t]) \in Nat /\ Adding(t) \in {0, 1}
      BY <2>2, SetsFinite
    <3>3. numclients[t] = Cardinality(epollfd'[t]) + 1 - Adding(t)
      BY <2>1, <3>1, <3>2
    <3> QED
      BY <1>7, <2>2, <2>3, <3>3 DEF Counted
  <2>4. CASE u # t
    BY <1>5, <1>7, <2>2, <2>4 DEF Counted
  <2> QED
    BY <2>3, <2>4
<1> QED
  BY <1>4, <1>8, <1>9, <1>10

LEMMA SseHandleStep ==
  ASSUME IInv, NEW t \in Threads, sseHandles(t)
  PROVE  IInv'
<1> USE DEF IInv
<1>1. PICK e \in t_events[t] : /\ drop(t, e) \/ sendTime(t, e)
                              /\ t_events' = [t_events EXCEPT ![t] = @ \ {e}]
  BY DEF sseHandles
<1>2. /\ pc[t] = "next"
      /\ UNCHANGED <<request, data, accepted, mainThread, counters, response, owner>>
  BY DEF sseHandles
<1>3. CASE sendTime(t, e)
  <2>1. written(e.conn) /\ UNCHANGED <<file, sets, pc>>
    BY <1>3 DEF sendTime
  <2>2. e.conn \in Conns
    BY InUse
  <2>3. /\ peer' \in [Conns -> {"none", "open", "gone", "failing", "reset"}]
        /\ \A d \in Conns : peer'[d] = "none" <=> peer[d] = "none"
    BY <2>1, <2>2, WrittenTyped
  <2>4. /\ \A u \in Threads : t_events'[u] \subseteq t_events[u]
        /\ t_events' \in [Threads -> SUBSET Events]
    BY <1>1 DEF TypeOK
  <2>5. TypeOK'
    BY <1>2, <2>1, <2>3, <2>4 DEF TypeOK, Free, sets, mainThread, counters
  <2>6. Sockets' /\ Roles' /\ Counted'
    BY <1>2, <2>1, <2>3, SocketsKept, RolesKept, CountedKept DEF sets, mainThread, counters
  <2>7. Held'
    BY <1>2, <2>1, <2>4 DEF Held, sets, mainThread
  <2> QED
    BY <2>5, <2>6, <2>7
<1> QED
  BY <1>1, <1>2, <1>3, SseDropStep

\* numclients-- of an sse thread
LEMMA UncountStep ==
  ASSUME IInv, NEW t \in Threads, uncountClient(t)
  PROVE  IInv'
<1> USE DEF IInv
<1>1. UNCHANGED <<file, sockets, accepted, sets, mainThread, t_events, response, owner>>
  BY DEF uncountClient
<1>2. Sockets' /\ Roles' /\ Held'
  BY <1>1, SocketsKept, RolesKept, HeldKept DEF sockets, sets, mainThread
<1>3. t \in 0..NumThreads /\ t # NumThreads /\ NumThreads \in 0..NumThreads
  OBVIOUS
<1>4. /\ \A u \in Threads : Adding(u)' = Adding(u) /\ Adding(u) \in {0, 1}
      /\ \A u \in Threads : Cardinality(epollfd[u]) \in Nat
  BY <1>1, SetsFinite DEF Adding, mainThread
<1>5. numclients \in [Threads -> Int] /\ reg \in [0..NumThreads -> Int]
  BY DEF TypeOK
<1>6. CASE pc[t] = "decLoad"
  <2>1. /\ pc' = [pc EXCEPT ![t] = "decStore"] /\ reg' = [reg EXCEPT ![t] = numclients[t]]
        /\ UNCHANGED numclients
    BY <1>6 DEF uncountClient
  <2>2. /\ raced' <=> (raced \/ (mainpc = "incStore" /\ cur_thread = t))
        /\ raced' \in BOOLEAN
    <3>1. raced' = (raced \/ (mainpc = "incStore" /\ cur_thread = t))
      BY <1>6 DEF uncountClient
    <3> QED
      BY <3>1, Zenon
  <2>3. /\ reg' \in [0..NumThreads -> Int]
        /\ reg'[t] = numclients[t] /\ reg'[NumThreads] = reg[NumThreads]
        /\ \A u \in Threads : u # t => reg'[u] = reg[u]
    BY <1>3, <1>5, <2>1
  <2>4. /\ pc' \in [Threads -> {"start", "wait", "next", "decLoad", "decStore"}]
        /\ pc'[t] = "decStore" /\ \A u \in Threads : u # t => pc'[u] = pc[u]
    BY <2>1 DEF TypeOK
  <2>5. TypeOK'
    BY ZenonT(40), <1>1, <2>1, <2>2, <2>3, <2>4 DEF TypeOK, Free, sockets, sets, mainThread
  <2>6. \A u \in Threads : Dropping(u)' = Dropping(u)
    BY <1>6, <2>4 DEF Dropping
  <2>7. Counted'
    <3> SUFFICES ASSUME ~raced, ~(mainpc = "incStore" /\ cur_thread = t), NEW u \in Threads
                 PROVE  /\ pc'[u] # "start" => numclients[u] = Cardinality(epollfd[u]) + Dropping(u) - Adding(u)
                        /\ pc'[u] = "start" => Cardinality(epollfd[u]) = Adding(u)
                        /\ pc'[u] = "decStore" => reg'[u] = numclients[u]
                        /\ mainpc = "incStore" /\ cur_thread = u =>
                             pc'[u] \notin {"start", "decStore"} /\ reg[NumThreads] = numclients[u]
      BY <1>1, <1>4, <2>1, <2>2, <2>3, <2>6 DEF Counted, mainThread, sets
    <3>1. CASE u = t
      BY <1>6, <2>3, <2>4, <3>1 DEF Counted
    <3>2. CASE u # t
      BY <2>3, <2>4, <3>2 DEF Counted
    <3> QED
      BY <3>1, <3>2
  <2> QED
    BY <1>2, <2>5, <2>7
<1>7. CASE pc[t] = "decStore"
  <2>1. /\ pc' = [pc EXCEPT ![t] = "next"]
        /\ numclients' = [numclients EXCEPT ![t] = reg[t] - 1]
        /\ reg' = [reg EXCEPT ![t] = 0]
        /\ UNCHANGED raced
    BY <1>7 DEF uncountClient
  <2>2. /\ numclients' \in [Threads -> Int] /\ numclients'[t] = reg[t] - 1
        /\ \A u \in Threads : u # t => numclients'[u] = numclients[u]
    BY <1>3, <1>5, <2>1
  <2>3. /\ reg' \in [0..NumThreads -> Int] /\ reg'[NumThreads] = reg[NumThreads]
        /\ \A u \in Threads : u # t => reg'[u] = reg[u]
    BY <1>3, <1>5, <2>1
  <2>4. /\ pc' \in [Threads -> {"start", "wait", "next", "decLoad", "decStore"}]
        /\ pc'[t] = "next" /\ \A u \in Threads : u # t => pc'[u] = pc[u]
    BY <2>1 DEF TypeOK
  <2>5. TypeOK'
    <3>1. raced' \in BOOLEAN /\ Free' = Free
      BY <1>1, <2>1, Zenon DEF TypeOK, Free
    <3> QED
      BY <1>1, <2>2, <2>3, <2>4, <3>1 DEF TypeOK, sockets, sets, mainThread
  <2>6. /\ \A u \in Threads : u # t => Dropping(u)' = Dropping(u)
        /\ Dropping(t) = 1 /\ Dropping(t)' = 0
    BY <1>7, <2>4 DEF Dropping
  <2>7. Counted'
    <3> SUFFICES ASSUME ~raced, NEW u \in Threads
                 PROVE  /\ pc'[u] # "start" => numclients'[u] = Cardinality(epollfd[u]) + Dropping(u)' - Adding(u)
                        /\ pc'[u] = "start" => Cardinality(epollfd[u]) = Adding(u)
                        /\ pc'[u] = "decStore" => reg'[u] = numclients'[u]
                        /\ mainpc = "incStore" /\ cur_thread = u =>
                             pc'[u] \notin {"start", "decStore"} /\ reg[NumThreads] = numclients'[u]
      BY <1>1, <1>4, <2>1, <2>3 DEF Counted, mainThread, sets
    <3>1. CASE u = t
      <4>1. /\ numclients[t] = Cardinality(epollfd[t]) + 1 - Adding(t) /\ reg[t] = numclients[t]
            /\ ~(mainpc = "incStore" /\ cur_thread = t)
        BY <1>7, <2>6 DEF Counted
      <4>2. numclients'[t] = Cardinality(epollfd[t]) + 0 - Adding(t)
        <5>1. numclients'[t] = numclients[t] - 1
          BY <2>2, <4>1
        <5>2. Cardinality(epollfd[t]) \in Nat /\ Adding(t) \in {0, 1}
          BY SetsFinite DEF Adding
        <5> QED
          BY <4>1, <5>1, <5>2
      <4> QED
        BY <2>4, <2>6, <3>1, <4>1, <4>2
    <3>2. CASE u # t
      BY ZenonT(40), <2>2, <2>3, <2>4, <2>6, <3>2 DEF Counted
    <3> QED
      BY <3>1, <3>2
  <2> QED
    BY <1>2, <2>5, <2>7
<1> QED
  BY <1>6, <1>7 DEF uncountClient

----------------------------------------------------------------------------

LEMMA NextIInv == IInv /\ [Next]_vars => IInv'
<1> SUFFICES ASSUME IInv, [Next]_vars PROVE IInv'
  OBVIOUS
<1>1. CASE UNCHANGED vars
  <2>1. TypeOK'
    BY <1>1 DEF IInv, TypeOK, Free, vars, sockets, sets, mainThread, sseThreads, counters
  <2> QED
    BY <1>1, <2>1, SocketsKept, RolesKept, HeldKept, CountedKept
       DEF IInv, vars, sockets, sets, mainThread, sseThreads, counters
<1>2. CASE main_thread
  BY <1>2, WaitStep, HandleStep, MainStep, CountStep DEF main_thread
<1>3. ASSUME NEW t \in Threads, sse_thread(t)
      PROVE  IInv'
  BY <1>3, SseStartStep, SseWaitStep, SseHandleStep, UncountStep, SseSleepStep DEF sse_thread
<1> QED
  BY <1>1, <1>2, <1>3, ClientStep, AcceptStep, AddStep DEF Next

LEMMA Invariance == Spec => []IInv
BY InitIInv, NextIInv, PTL DEF Spec

----------------------------------------------------------------------------

\* Every reachable state of the C server has its type: cur_thread is one of the
\* pool (c/server.c:230), and an epoll set holds open descriptors only.
THEOREM TypeCorrect == Spec => []TypeOK
<1>1. IInv => TypeOK
  BY DEF IInv
<1> QED
  BY <1>1, Invariance, PTL

\* However many threads share the descriptor table without a lock, the events
\* that main_thread (c/server.c:186) and sse_thread (c/server.c:149) work through
\* are about the connections they were reported for.
THEOREM EventsCorrect == Spec => []EventsCurrent
<1>1. IInv => EventsCurrent
  BY DEF IInv, Held, EventsCurrent
<1> QED
  BY <1>1, Invariance, PTL

\* Between EPOLL_CTL_ADD (c/server.c:218) and EPOLL_CTL_DEL (c/server.c:226) and
\* after, main_thread hears no more of the connection it has passed on.
THEOREM PassedOnCorrect == Spec => []PassedOnForGood
<1>1. IInv => PassedOnForGood
  BY DEF IInv, Held, PassedOnForGood
<1> QED
  BY <1>1, Invariance, PTL

\* The counters that /connections adds up (c/server.c:121-130) are exact as long as
\* no two updates of one have overlapped.
THEOREM CountCorrect == Spec => []CountExactUnlessRaced
<1>1. ASSUME IInv
      PROVE  CountExactUnlessRaced
  <2>1. \A t \in Threads : Cardinality(epollfd[t]) \in Nat
    BY <1>1, SetsFinite DEF IInv
  <2> QED
    BY <1>1, <2>1 DEF IInv, Counted, CountExactUnlessRaced, Adding, Dropping
<1> QED
  BY <1>1, Invariance, PTL

----------------------------------------------------------------------------
(* The safety core of StreamsReclaimed                                     *)

\* A descriptor in use of a client that was given to an sse thread is in that
\* thread's epoll set, so that a client who goes away is noticed by a write.
StreamsWatched ==
  \A f \in Fds : file[f] # NULL /\ owner[file[f]] # NULL => f \in epollfd[owner[file[f]]]

\* A descriptor is closed, and nothing else changes of those in use.
LEMMA CloseWatched ==
  ASSUME TypeOK, StreamsWatched, NEW f \in Fds, close(f), UNCHANGED owner
  PROVE  StreamsWatched'
<1> SUFFICES ASSUME NEW g \in Fds, file'[g] # NULL, owner[file'[g]] # NULL
             PROVE  g \in epollfd'[owner[file'[g]]]
  BY DEF StreamsWatched
<1>1. g # f /\ file'[g] = file[g]
  BY DEF close, TypeOK
<1>2. owner[file[g]] \in Threads
  BY <1>1 DEF TypeOK
<1> QED
  BY <1>1, <1>2 DEF close, StreamsWatched

LEMMA WatchedStep == IInv /\ StreamsWatched /\ [Next]_vars => StreamsWatched'
<1> SUFFICES ASSUME IInv, StreamsWatched, [Next]_vars PROVE StreamsWatched'
  OBVIOUS
<1>0. TypeOK /\ Sockets /\ Held
  BY DEF IInv
<1>1. ASSUME UNCHANGED <<file, owner, epollfd>> PROVE StreamsWatched'
  BY <1>1 DEF StreamsWatched
<1>2. ASSUME NEW c \in Conns, NEW r \in Requests[c], accept(c, r)
      PROVE  StreamsWatched'
  <2>1. PICK f \in Free : file' = [file EXCEPT ![f] = c]
    BY <1>2 DEF accept
  <2>2. owner[c] = NULL /\ UNCHANGED <<owner, epollfd>>
    BY <1>0, <1>2 DEF accept, Sockets, sets
  <2> QED
    BY <1>0, <2>1, <2>2 DEF StreamsWatched, TypeOK, Free
<1>3. CASE addAccepted
  <2>1. UNCHANGED owner /\ accepted \in Fds
    BY <1>0, <1>3 DEF addAccepted, TypeOK
  <2>2. CASE close(accepted)
    BY <1>0, <2>1, <2>2, CloseWatched
  <2>3. CASE UNCHANGED <<file, epollfd>>
    BY <1>1, <2>1, <2>3
  <2> QED
    BY <1>3, <2>2, <2>3 DEF addAccepted
<1>4. CASE handleEvent
  <2>1. PICK e \in events : dropBroken(e) \/ respond(e) \/ openStream(e)
    BY <1>4 DEF handleEvent
  <2>2. e.fd \in Fds /\ file[e.fd] = e.conn
    BY <1>0, <2>1, InUse DEF Held
  <2>3. CASE close(e.fd) /\ UNCHANGED owner
    BY <1>0, <2>2, <2>3, CloseWatched
  <2>4. CASE /\ epollfd' = [epollfd EXCEPT ![cur_thread] = @ \cup {e.fd}]
             /\ owner' = [owner EXCEPT ![e.conn] = cur_thread]
             /\ UNCHANGED file
    <3> SUFFICES ASSUME NEW g \in Fds, file[g] # NULL, owner'[file[g]] # NULL
                 PROVE  g \in epollfd'[owner'[file[g]]]
      BY <2>4 DEF StreamsWatched
    <3>1. CASE g = e.fd
      BY <1>0, <2>2, <2>4, <3>1 DEF TypeOK
    <3>2. CASE g # e.fd
      <4>1. file[g] # e.conn
        BY <1>0, <2>2, <3>2 DEF Sockets
      <4>2. owner'[file[g]] = owner[file[g]] /\ owner[file[g]] \in Threads
        BY <1>0, <2>4, <4>1 DEF TypeOK
      <4> QED
        BY <1>0, <2>4, <4>2 DEF StreamsWatched, TypeOK
    <3> QED
      BY <3>1, <3>2
  <2> QED
    BY <2>1, <2>3, <2>4 DEF dropBroken, respond, openStream
<1>5. ASSUME NEW t \in Threads, sseHandles(t) PROVE StreamsWatched'
  <2>1. PICK e \in t_events[t] : drop(t, e) \/ sendTime(t, e)
    BY <1>5 DEF sseHandles
  <2>2. e.fd \in Fds /\ UNCHANGED owner
    BY <1>0, <1>5, <2>1, InUse DEF sseHandles
  <2>3. CASE drop(t, e)
    BY <1>0, <2>2, <2>3, CloseWatched DEF drop
  <2>4. CASE sendTime(t, e)
    BY <1>1, <2>2, <2>4 DEF sendTime, sets
  <2> QED
    BY <2>1, <2>3, <2>4
<1>6. ASSUME NEW c \in Conns, clientSends(c) \/ clientCloses(c) PROVE StreamsWatched'
  BY <1>1, <1>6 DEF clientSends, clientCloses
<1>7. ASSUME mainWaits \/ eventsDone \/ removeFromMain \/ countClient PROVE StreamsWatched'
  BY <1>1, <1>7 DEF mainWaits, eventsDone, removeFromMain, countClient, sets
<1>8. ASSUME NEW t \in Threads, sseStarts(t) \/ sseWaits(t) \/ uncountClient(t) \/ sseSleeps(t)
      PROVE  StreamsWatched'
  BY <1>1, <1>8 DEF sseStarts, sseWaits, uncountClient, sseSleeps, sets
<1>9. CASE UNCHANGED vars
  BY <1>1, <1>9 DEF vars, sets
<1> QED
  BY <1>2, <1>3, <1>4, <1>5, <1>6, <1>7, <1>8, <1>9 DEF Next, main_thread, sse_thread

\* Closing by main, main_thread and the sse threads, and numbers used again,
\* leave no stream that is in use outside the set of the thread it was given to.
THEOREM NeverUnwatched == Spec => []StreamsWatched
<1>1. Init => StreamsWatched
  BY DEF Init, StreamsWatched
<1> QED
  BY <1>1, WatchedStep, Invariance, PTL DEF Spec
=============================================================================
