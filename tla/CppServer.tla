------------------------------ MODULE CppServer ------------------------------
(***************************************************************************)
(* c++/: the clients of the asio server and its broadcast.  A pool of      *)
(* threads runs handlers: the completion of a /sse response, which pushes  *)
(* a node onto a bucket's list without a lock, and a POST to /broadcast,   *)
(* which walks every bucket under its mutex, remembers the nodes of dead   *)
(* clients, and comes back to remove them after giving the mutexes up.     *)
(* A node is an address; the allocator may hand a freed one out again.     *)
(***************************************************************************)
EXTENDS Integers, Sequences, FiniteSets

CONSTANTS Threads,       \* threads running io_service::run
          Buckets,       \* number of lists, _sse_client_bucket_count
          NumBroadcasts, \* bound: POSTs to /broadcast, numbered as they start
          NumClients,    \* bound: /sse clients, numbered as they open
          Addrs,         \* bound: addresses the allocator gives nodes
          NULL           \* nullptr

Broadcasts == 1..NumBroadcasts
Clients == 1..NumClients
Bucket == 1..Buckets
Post(m) == <<"post", m>>
Sse(c) == <<"sse", c>>
Handlers == {Post(m) : m \in Broadcasts} \cup {Sse(c) : c \in Clients}
Node == [client: Clients, bucket: Bucket, next: Addrs \cup {NULL}]

ASSUME CppAssumption ==
  /\ Threads \in Nat \ {0}
  /\ Buckets \in Nat \ {0}
  /\ NumBroadcasts \in Nat
  /\ NumClients \in Nat
  /\ IsFiniteSet(Addrs)
  /\ NULL \notin Addrs
  /\ NULL \notin Nat
  /\ NULL \notin Node

VARIABLES
  head,   \* bucket -> _head
  lock,   \* bucket -> the broadcast that holds _mutex, or NULL
  heap,   \* address -> [client, bucket, next] of an allocated node, or NULL
  count,  \* _sse_client_count, an int the threads share without a lock
  pc,     \* handler -> its next step
  reg,    \* handler -> the value of count it loaded
  job,    \* broadcast -> the bucket it is at, its iterator and remove_tuples;
          \*   history: the front the scan found, and in each tuple the client
          \*   that its node was for
  peer,   \* client -> "open", "gone" (closed by the peer), "failing" (and a
          \*   write is going to report it) or "dead" (_dead is set)
  stream, \* client -> messages sent to it
  raced   \* history: have two updates of count overlapped?

lists == <<head, heap>>
counter == <<count, reg, raced>>
clients == <<peer, stream>>
vars == <<head, lock, heap, count, pc, reg, job, peer, stream, raced>>

Init ==
  /\ head = [b \in Bucket |-> NULL]
  /\ lock = [b \in Bucket |-> NULL]
  /\ heap = [a \in Addrs |-> NULL]
  /\ count = 0
  /\ pc = [h \in Handlers |-> "idle"]
  /\ reg = [h \in Handlers |-> 0]
  /\ job = [m \in Broadcasts |->
              [at |-> 1, iterator |-> NULL, removals |-> <<>>, front |-> NULL]]
  /\ peer = [c \in Clients |-> "open"]
  /\ stream = [c \in Clients |-> <<>>]
  /\ raced = FALSE

goto(h, label) == pc' = [pc EXCEPT ![h] = label]
step(h, from, to) == pc[h] = from /\ goto(h, to)

\* A handler needs one of the pool's threads, and keeps it while it waits for
\* a mutex.
ThreadFree == Cardinality({h \in Handlers : pc[h] \notin {"idle", "done"}}) < Threads

\* The nodes that a walk from address a meets: the least set that has a and, with
\* a node, the one it points to
Follows(S) == \A x \in S : heap[x] # NULL /\ heap[x].next # NULL => heap[x].next \in S
NodesFrom(a) ==
  {x \in Addrs : \A S \in SUBSET Addrs : (a # NULL => a \in S) /\ Follows(S) => x \in S}

Nodes(b) == NodesFrom(head[b])

\* ++ and -- on a plain int: a load and a store, with other threads between.
Updating == {h \in Handlers : pc[h] \in {"incStore", "decStore"}}

loadCount(h) ==
  /\ reg' = [reg EXCEPT ![h] = count]
  /\ raced' = (raced \/ Updating # {})
  /\ UNCHANGED count

\* Mutant of storeCount: the client is not counted out
storeUp(h, delta) ==
  /\ count' = IF delta > 0 THEN reg[h] + delta ELSE reg[h]
  /\ UNCHANGED <<reg, raced>>

storeCount(h, delta) ==
  /\ count' = reg[h] + delta
  /\ UNCHANGED <<reg, raced>>

----------------------------------------------------------------------------
(* The completion of a /sse response                                       *)

\* push allocates a node and loads the head.  The bucket counter is read and
\* incremented without synchronisation, so any bucket may come out of it.
sseOpened(c, b, a) ==
  /\ ThreadFree
  /\ \A d \in Clients : d < c => pc[Sse(d)] # "idle"
  /\ step(Sse(c), "idle", "cas")
  /\ heap[a] = NULL
  /\ heap' = [heap EXCEPT ![a] = [client |-> c, bucket |-> b, next |-> head[b]]]
  /\ UNCHANGED <<head, lock, job, counter, clients>>

\* push's loop: on failure old_head becomes the head that was found.
pushNode(c, a) ==
  LET b == heap[a].bucket IN
  /\ pc[Sse(c)] = "cas"
  /\ heap[a].client = c
  /\ \/ /\ head[b] = heap[a].next
        /\ head' = [head EXCEPT ![b] = a]
        /\ goto(Sse(c), "incLoad")
        /\ UNCHANGED heap
     \/ /\ head[b] # heap[a].next
        /\ heap' = [heap EXCEPT ![a].next = head[b]]
        /\ UNCHANGED <<head, pc>>
  /\ UNCHANGED <<lock, job, counter, clients>>

countClient(c) ==
  /\ \/ step(Sse(c), "incLoad", "incStore") /\ loadCount(Sse(c))
     \/ step(Sse(c), "incStore", "done") /\ storeCount(Sse(c), 1)
  /\ UNCHANGED <<lists, lock, job, clients>>

\* The server never reads from an event stream: only writes that complete after
\* the peer has closed can tell, and the first of them may still succeed.
peerCloses(c) ==
  /\ pc[Sse(c)] # "idle"
  /\ peer[c] = "open"
  /\ \/ peer' = [peer EXCEPT ![c] = "gone"]
     \/ stream[c] # <<>> /\ peer' = [peer EXCEPT ![c] = "failing"]
  /\ UNCHANGED <<lists, lock, job, counter, pc, stream>>

writeFails(c) ==
  /\ peer[c] = "failing"
  /\ peer' = [peer EXCEPT ![c] = "dead"]
  /\ UNCHANGED <<lists, lock, job, counter, pc, stream>>

----------------------------------------------------------------------------
(* broadcast: the scan                                                     *)

broadcastStarts(m) ==
  /\ ThreadFree
  /\ \A k \in Broadcasts : k < m => pc[Post(k)] # "idle"
  /\ step(Post(m), "idle", "scan")
  /\ UNCHANGED <<lists, lock, job, counter, clients>>

\* Mutant of take: the mutex is forgotten
takeNothing(m, b) == lock' = [lock EXCEPT ![b] = m]
take(m, b) == lock[b] = NULL /\ lock' = [lock EXCEPT ![b] = m]
\* Mutant of release: the mutex is never given back
releaseNothing(b) == UNCHANGED lock
release(b) == lock' = [lock EXCEPT ![b] = NULL]

\* bucket->lock() and get_front()
scanLock(m) ==
  /\ step(Post(m), "scan", "check")
  /\ take(m, job[m].at)
  /\ job' = [job EXCEPT ![m].iterator = head[job[m].at],
                        ![m].front = head[job[m].at]]
  /\ UNCHANGED <<lists, counter, clients>>

\* make_tuple(bucket, iterator)
Tuple(m) ==
  LET a == job[m].iterator
  IN [bucket |-> job[m].at, node |-> a, client |-> heap[a].client]

\* Mutant of scanCheck: is_dead() negated
scanCheckNegated(m) ==
  LET a == job[m].iterator IN
  /\ a # NULL
  /\ \/ /\ step(Post(m), "check", "check")
        /\ peer[heap[a].client] # "dead"
        /\ job' = [job EXCEPT
             ![m].removals = Append(@, Tuple(m)),
             ![m].iterator = heap[a].next]
     \/ /\ step(Post(m), "check", "send")
        /\ peer[heap[a].client] = "dead"
        /\ UNCHANGED job
  /\ UNCHANGED <<lists, lock, counter, clients>>

scanCheck(m) ==
  LET a == job[m].iterator IN
  /\ a # NULL
  /\ \/ /\ step(Post(m), "check", "check")
        /\ peer[heap[a].client] = "dead"
        /\ job' = [job EXCEPT
             ![m].removals = Append(@, Tuple(m)),
             ![m].iterator = heap[a].next]
     \/ /\ step(Post(m), "check", "send")
        /\ peer[heap[a].client] # "dead"
        /\ UNCHANGED job
  /\ UNCHANGED <<lists, lock, counter, clients>>

\* Mutant of scanSend: a closed connection ends the loop
scanSendBreaks(m) ==
  LET a == job[m].iterator
      c == heap[a].client
  IN
  /\ step(Post(m), "send", "check")
  /\ \/ /\ peer[c] \in {"open", "failing"}
        /\ stream' = [stream EXCEPT ![c] = Append(@, m)]
        /\ job' = [job EXCEPT ![m].iterator = heap[a].next]
     \/ /\ peer[c] \in {"gone", "dead"}
        /\ job' = [job EXCEPT ![m].iterator = NULL]
        /\ UNCHANGED stream
  /\ UNCHANGED <<lists, lock, counter, peer>>

\* send() looks at _dead again; a write to a closed peer may be found out.
scanSend(m) ==
  LET a == job[m].iterator
      c == heap[a].client
  IN
  /\ step(Post(m), "send", "check")
  /\ \/ /\ peer[c] # "dead"
        /\ stream' = [stream EXCEPT ![c] = Append(@, m)]
        /\ \/ peer[c] = "gone" /\ peer' = [peer EXCEPT ![c] = "failing"]
           \/ UNCHANGED peer
     \/ peer[c] = "dead" /\ UNCHANGED clients
  /\ job' = [job EXCEPT ![m].iterator = heap[a].next]
  /\ UNCHANGED <<lists, lock, counter>>

\* Mutant of scanUnlock: <= for <
scanPastEnd(m) ==
  LET b == job[m].at IN
  /\ job[m].iterator = NULL
  /\ release(b)
  /\ step(Post(m), "check", IF b <= Buckets THEN "scan" ELSE "clean")
  /\ job' = [job EXCEPT ![m].at = b + 1, ![m].front = NULL]
  /\ UNCHANGED <<lists, counter, clients>>

scanUnlock(m) ==
  LET b == job[m].at IN
  /\ job[m].iterator = NULL
  /\ release(b)
  /\ \/ /\ step(Post(m), "check", "scan")
        /\ b < Buckets
        /\ job' = [job EXCEPT ![m].at = b + 1, ![m].front = NULL]
     \/ /\ step(Post(m), "check", "clean")
        /\ b = Buckets
        /\ job' = [job EXCEPT ![m].front = NULL]
  /\ UNCHANGED <<lists, counter, clients>>

----------------------------------------------------------------------------
(* broadcast: removing the dead                                            *)

Target(m) == Head(job[m].removals)

\* bucket->lock() and the load of _head in remove
removeLock(m) ==
  /\ job[m].removals # <<>>
  /\ step(Post(m), "clean", "remove")
  /\ take(m, Target(m).bucket)
  /\ job' = [job EXCEPT ![m].iterator = head[Target(m).bucket]]
  /\ UNCHANGED <<lists, counter, clients>>

\* The special case for the first element.  compare_exchange_weak fails when a
\* push came between, or spuriously; either way iterator becomes the head.
removeHead(m) ==
  LET b == Target(m).bucket
      a == Target(m).node
  IN
  /\ \/ /\ step(Post(m), "remove", "decLoad")
        /\ job[m].iterator = a
        /\ head[b] = a
        /\ head' = [head EXCEPT ![b] = heap[a].next]
        /\ heap' = [heap EXCEPT ![a] = NULL]
        /\ UNCHANGED job
     \/ /\ step(Post(m), "remove", "walk")
        /\ job[m].iterator = a
        /\ job' = [job EXCEPT ![m].iterator = head[b]]
        /\ UNCHANGED lists
     \/ /\ step(Post(m), "remove", "walk")
        /\ job[m].iterator # a
        /\ UNCHANGED <<job, lists>>
  /\ UNCHANGED <<lock, counter, clients>>

\* Mutant of removeOther: prev_iterator->next is not updated
removeUnlinked(m) ==
  LET a == Target(m).node
      next == heap[job[m].iterator].next
  IN
  /\ job[m].iterator # NULL
  /\ step(Post(m), "walk", IF next = a THEN "decLoad" ELSE "removed")
  /\ heap' = IF next = a THEN [heap EXCEPT ![a] = NULL] ELSE heap
  /\ UNCHANGED <<head, lock, job, counter, clients>>

\* The loop over the other elements; job's iterator is prev_iterator.
removeOther(m) ==
  LET a == Target(m).node
      prev == job[m].iterator
      next == heap[prev].next
  IN
  /\ prev # NULL
  /\ \/ /\ step(Post(m), "walk", "decLoad")
        /\ next = a
        /\ heap' = [heap EXCEPT ![prev].next = heap[a].next, ![a] = NULL]
        /\ UNCHANGED job
     \/ /\ step(Post(m), "walk", "walk")
        /\ next \notin {a, NULL}
        /\ job' = [job EXCEPT ![m].iterator = next]
        /\ UNCHANGED heap
     \/ /\ step(Post(m), "walk", "removed")
        /\ next = NULL
        /\ UNCHANGED <<heap, job>>
  /\ UNCHANGED <<head, lock, counter, clients>>

\* Line 61 reads iterator->next whatever iterator is: the list may be empty.
removeCrashes(m) ==
  /\ job[m].iterator = NULL
  /\ step(Post(m), "walk", "crashed")
  /\ UNCHANGED <<lists, lock, job, counter, clients>>

uncountClient(m) ==
  /\ \/ step(Post(m), "decLoad", "decStore") /\ loadCount(Post(m))
     \/ step(Post(m), "decStore", "removed") /\ storeCount(Post(m), -1)
  /\ UNCHANGED <<lists, lock, job, clients>>

removeUnlock(m) ==
  /\ step(Post(m), "removed", "clean")
  /\ release(Target(m).bucket)
  /\ job' = [job EXCEPT ![m].removals = Tail(@), ![m].iterator = NULL]
  /\ UNCHANGED <<lists, counter, clients>>

\* The 202 is written once broadcast returns.
broadcastEnds(m) ==
  /\ job[m].removals = <<>>
  /\ step(Post(m), "clean", "done")
  /\ UNCHANGED <<lists, lock, job, counter, clients>>

----------------------------------------------------------------------------

broadcast(m) ==
  \/ scanLock(m) \/ scanCheck(m) \/ scanSend(m) \/ scanUnlock(m)
  \/ removeLock(m) \/ removeHead(m) \/ removeOther(m) \/ removeCrashes(m)
  \/ uncountClient(m) \/ removeUnlock(m) \/ broadcastEnds(m)

Crashed == \E h \in Handlers : pc[h] = "crashed"

Next ==
  /\ ~Crashed
  /\ \/ \E c \in Clients :
          \/ \E b \in Bucket, a \in Addrs : sseOpened(c, b, a)
          \/ \E a \in Addrs : heap[a] # NULL /\ pushNode(c, a)
          \/ countClient(c)
          \/ peerCloses(c)
          \/ writeFails(c)
     \/ \E m \in Broadcasts : broadcastStarts(m) \/ broadcast(m)

Spec == Init /\ [][Next]_vars

\* The threads of the pool all run.
Fairness == \A m \in Broadcasts : WF_vars(~Crashed /\ broadcast(m))
FairSpec == Spec /\ Fairness

----------------------------------------------------------------------------
(* Properties                                                              *)

\* Every variable keeps its shape; a scan stays on a bucket that exists.
TypeOK ==
  /\ head \in [Bucket -> Addrs \cup {NULL}]
  /\ lock \in [Bucket -> Broadcasts \cup {NULL}]
  /\ heap \in [Addrs -> Node \cup {NULL}]
  /\ count \in Int
  /\ pc \in [Handlers -> {"idle", "cas", "incLoad", "incStore", "scan", "check", "send",
                         "clean", "remove", "walk", "decLoad", "decStore", "removed",
                         "done", "crashed"}]
  /\ reg \in [Handlers -> Int]
  /\ job \in [Broadcasts ->
                [at: Bucket, iterator: Addrs \cup {NULL},
                 removals: Seq([bucket: Bucket, node: Addrs, client: Clients]),
                 front: Addrs \cup {NULL}]]
  /\ peer \in [Clients -> {"open", "gone", "failing", "dead"}]
  /\ stream \in [Clients -> Seq(Broadcasts)]
  /\ raced \in BOOLEAN

\* Pushes without the lock, racing with removals under it, never damage a list:
\* its nodes are allocated, belong to it, and end; and a scan under way stands
\* on one of them, so it never reads freed memory.
ListsSound ==
  /\ \A b \in Bucket : \A a \in Nodes(b) :
       heap[a] # NULL /\ heap[a].bucket = b /\ a \notin NodesFrom(heap[a].next)
  /\ \A m \in Broadcasts :
       pc[Post(m)] \in {"check", "send"} =>
         job[m].iterator \in Nodes(job[m].at) \cup {NULL}

\* _sse_client_count is the number of listed clients whenever no handler is
\* about to change it, provided no two updates of it ever overlapped.
CountExactUnlessRaced ==
  ~raced /\ (\A h \in Handlers :
               pc[h] \notin {"incLoad", "incStore", "decLoad", "decStore"})
    => count = Cardinality(UNION {Nodes(b) : b \in Bucket})

\* When a scan gives a bucket back, its message has gone to every client that
\* was in it when the scan took it, whatever was pushed meanwhile, except the
\* dead.
ScanReachesBucket ==
  [][\A m \in Broadcasts : scanUnlock(m) =>
       \A a \in NodesFrom(job[m].front) :
         LET c == heap[a].client
         IN m \in {stream[c][i] : i \in DOMAIN stream[c]} \/ peer[c] = "dead"]_vars

\* What the README's service sees of the lists: a bucket's live clients, and the
\* broadcasts that have taken the bucket
Listeners(b) ==
  {c \in Clients : peer[c] # "dead" /\ \E a \in Nodes(b) : heap[a].client = c}
Visited(m, b) ==
  /\ pc[Post(m)] # "idle"
  /\ pc[Post(m)] \in {"scan", "check", "send"} => b <= job[m].at
  /\ pc[Post(m)] = "scan" => b # job[m].at

\* The clients that a scan has yet to meet, the broadcasts that will meet c, and
\* what c is sent if it lives until then
Ahead(m) == {c \in Clients : \E a \in NodesFrom(job[m].iterator) : heap[a].client = c}
Owed(c) == {m \in Broadcasts : pc[Post(m)] \in {"check", "send"} /\ c \in Ahead(m)}
Due(c) == IF peer[c] = "dead" \/ Owed(c) = {}
            THEN stream[c]
            ELSE Append(stream[c], CHOOSE m \in Owed(c) : TRUE)

\* A broadcast takes effect on a bucket at the moment it takes the bucket's
\* mutex, although it then walks the list step by step among pushes, closes and
\* other broadcasts: each bucket is the README's atomic service.  A client that
\* dies before the walk gets to it may miss the one message being written, and
\* a removal may take a live client out (see OnlyStaleTuplesHarm); it leaves.
Service == INSTANCE SseBroadcast WITH
  Groups <- Bucket, Clients <- Clients, Messages <- Broadcasts, AtOnce <- FALSE,
  subscribers <- [b \in Bucket |-> Listeners(b)],
  streams <- [c \in Clients |-> Due(c)],
  published <- [b \in Bucket |-> {m \in Broadcasts : Visited(m, b)}]
ImplementsService == Service!Spec

\* Two clients of a bucket get the messages they both get in the same order,
\* and none twice, however the broadcasts overlap.
SameOrderInBucket ==
  \A b \in Bucket : \A x, y \in Nodes(b) :
    LET s == stream[heap[x].client]
        t == stream[heap[y].client]
    IN \A i, j \in DOMAIN s, k, l \in DOMAIN t :
         s[i] = t[k] /\ s[j] = t[l] /\ i < j => k < l

\* The node of a tuple has been freed since, if only to be allocated again.
Stale(t) == heap[t.node] = NULL \/ heap[t.node].client # t.client

\* Overlapping broadcasts harm in one way only: through a tuple whose node one
\* of them has freed.  Then remove may crash on an emptied list, or free the
\* node of a live client that was given the same address.
OnlyStaleTuplesHarm ==
  [][\A m \in Broadcasts :
       /\ pc[Post(m)] \in {"remove", "walk"}
       /\ \/ pc'[Post(m)] = "crashed"
          \/ /\ pc'[Post(m)] = "decLoad"
             /\ peer[heap[Target(m).node].client] # "dead"
       => Stale(Target(m))]_vars

\* No order of locks, pushes and removals blocks a broadcast: each is answered,
\* unless the process crashes first.
BroadcastTerminates ==
  \A m \in Broadcasts :
    pc[Post(m)] = "scan" ~> (pc[Post(m)] = "done" \/ Crashed)
=============================================================================
