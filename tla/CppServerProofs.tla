--------------------------- MODULE CppServerProofs ---------------------------
(***************************************************************************)
(* The properties of CppServer hold for any numbers of threads, buckets,   *)
(* clients, broadcasts and addresses.                                      *)
(*                                                                         *)
(* Lists says when nodes make up lists, in terms of what points to what;   *)
(* a walk meets a bucket's nodes and comes to an end because of it.  Four  *)
(* things happen to lists - nodes outside them change, a node becomes a    *)
(* head, a head is taken out, a node behind another is taken out - and     *)
(* each keeps Lists (ListsSame to ListsUnlink).  IInv adds that a          *)
(* broadcast holds the mutex of the bucket it works on and stands on one   *)
(* of its nodes: a bucket changes under an iterator by pushes only (Kept). *)
(* On it rest, one after the other, what the removal tuples mean           *)
(* (TuplesOK), the count (CountOK), what a scan has passed (ScansOK), the   *)
(* order of the messages (OrdersOK), and that each bucket implements       *)
(* SseBroadcast: what a client is due (Due) changes when its bucket is     *)
(* taken, when it leaves, and at no other step.                            *)
(***************************************************************************)
EXTENDS CppServer, FiniteSetTheorems, TLAPS

\* NodesFrom, of any heap H
From(H, a) ==
  {x \in Addrs : \A S \in SUBSET Addrs :
     /\ a # NULL => a \in S
     /\ \A y \in S : H[y] # NULL /\ H[y].next # NULL => H[y].next \in S
     => x \in S}

\* The nodes L of heap H make up the lists that begin at hd: what a node points
\* to is a node of its list, nothing else points there, no walk comes back, and
\* a walk from the head meets them all.
Lists(H, hd, L) ==
  /\ L \subseteq Addrs /\ \A a \in L : H[a] # NULL
  /\ \A b \in Bucket : hd[b] # NULL => hd[b] \in L /\ H[hd[b]].bucket = b
  /\ \A a \in L : H[a].next # NULL => H[a].next \in L /\ H[H[a].next].bucket = H[a].bucket
  /\ \A a, d \in L : H[a].next = H[d].next /\ H[a].next # NULL => a = d
  /\ \A a \in L, b \in Bucket : H[a].next # NULL => hd[b] # H[a].next
  /\ \E r \in [Addrs -> Int] : \A a \in L : H[a].next # NULL => r[H[a].next] < r[a]
  /\ \A a \in L : a \in From(H, hd[H[a].bucket])

Heaps == [Addrs -> Node \cup {NULL}]
Heads == [Bucket -> Addrs \cup {NULL}]

USE CppAssumption

----------------------------------------------------------------------------
(* Walks                                                                   *)

LEMMA NodeFields ==
  ASSUME NEW H \in Heaps, NEW a \in Addrs, H[a] # NULL
  PROVE  /\ H[a] \in Node
         /\ H[a].client \in Clients /\ H[a].bucket \in Bucket
         /\ H[a].next \in Addrs \cup {NULL}
BY DEF Heaps, Node

LEMMA FromUnfold ==
  ASSUME NEW H \in Heaps, NEW a \in Addrs, H[a] # NULL
  PROVE  From(H, a) = {a} \cup From(H, H[a].next)
<1>0. H[a].next \in Addrs \cup {NULL} /\ a # NULL
  BY NodeFields
<1>1. ASSUME NEW x \in From(H, a), x # a
      PROVE  x \in From(H, H[a].next)
  <2> SUFFICES ASSUME NEW S \in SUBSET Addrs,
                      H[a].next # NULL => H[a].next \in S,
                      \A y \in S : H[y] # NULL /\ H[y].next # NULL => H[y].next \in S
               PROVE  x \in S
    BY <1>1 DEF From
  <2>1. S \cup {a} \in SUBSET Addrs
    OBVIOUS
  <2>2. \A y \in S \cup {a} : H[y] # NULL /\ H[y].next # NULL => H[y].next \in S \cup {a}
    OBVIOUS
  <2>3. x \in S \cup {a}
    BY <2>1, <2>2, <1>1 DEF From
  <2> QED
    BY <2>3, <1>1
<1>2. a \in From(H, a)
  BY <1>0 DEF From
<1>3. ASSUME NEW x \in From(H, H[a].next)
      PROVE  x \in From(H, a)
  <2> SUFFICES ASSUME NEW S \in SUBSET Addrs, a \in S,
                      \A y \in S : H[y] # NULL /\ H[y].next # NULL => H[y].next \in S
               PROVE  x \in S
    BY <1>0, <1>3 DEF From
  <2>1. H[a].next # NULL => H[a].next \in S
    OBVIOUS
  <2> QED
    BY <2>1, <1>3 DEF From
<1> QED
  BY <1>1, <1>2, <1>3

\* A walk that begins in a closed set stays in it.
LEMMA FromClosed ==
  ASSUME NEW H, NEW S \in SUBSET Addrs, NEW a, a # NULL => a \in S,
         \A y \in S : H[y] # NULL /\ H[y].next # NULL => H[y].next \in S
  PROVE  From(H, a) \subseteq S
BY DEF From

LEMMA FromNull ==
  ASSUME NEW H
  PROVE  From(H, NULL) = {}
<1>1. /\ {} \in SUBSET Addrs /\ (NULL # NULL => NULL \in {})
      /\ \A y \in {} : H[y] # NULL /\ H[y].next # NULL => H[y].next \in {}
  OBVIOUS
<1>2. From(H, NULL) \subseteq {}
  BY <1>1, FromClosed, Zenon
<1> QED
  BY <1>2

\* What a walk meets depends on the nodes of a closed set it begins in only.
LEMMA FromSame ==
  ASSUME NEW H, NEW G, NEW S \in SUBSET Addrs, NEW a, a # NULL => a \in S,
         \A y \in S : G[y] = H[y],
         \A y \in S : H[y] # NULL /\ H[y].next # NULL => H[y].next \in S
  PROVE  From(G, a) = From(H, a)
<1>1. ASSUME NEW x \in From(G, a) PROVE x \in From(H, a)
  <2> SUFFICES ASSUME NEW T \in SUBSET Addrs, a # NULL => a \in T,
                      \A y \in T : H[y] # NULL /\ H[y].next # NULL => H[y].next \in T
               PROVE  x \in T
    BY <1>1 DEF From
  <2>1. \A y \in S \cap T : G[y] # NULL /\ G[y].next # NULL => G[y].next \in S \cap T
    OBVIOUS
  <2>2. S \cap T \in SUBSET Addrs /\ (a # NULL => a \in S \cap T)
    OBVIOUS
  <2>3. x \in S \cap T
    BY <2>1, <2>2, <1>1, FromClosed
  <2> QED
    BY <2>3
<1>2. ASSUME NEW x \in From(H, a) PROVE x \in From(G, a)
  <2> SUFFICES ASSUME NEW T \in SUBSET Addrs, a # NULL => a \in T,
                      \A y \in T : G[y] # NULL /\ G[y].next # NULL => G[y].next \in T
               PROVE  x \in T
    BY <1>2 DEF From
  <2>1. \A y \in S \cap T : H[y] # NULL /\ H[y].next # NULL => H[y].next \in S \cap T
    OBVIOUS
  <2>2. S \cap T \in SUBSET Addrs /\ (a # NULL => a \in S \cap T)
    OBVIOUS
  <2>3. x \in S \cap T
    BY <2>1, <2>2, <1>2, FromClosed
  <2> QED
    BY <2>3
<1> QED
  BY <1>1, <1>2

----------------------------------------------------------------------------
(* The four things that happen to the lists                                *)

\* The nodes that are not in a list change.
LEMMA ListsSame ==
  ASSUME NEW H \in Heaps, NEW G \in Heaps, NEW hd \in Heads, NEW L, Lists(H, hd, L),
         \A a \in L : G[a] = H[a]
  PROVE  Lists(G, hd, L)
<1>1. \A y \in L : H[y] # NULL /\ H[y].next # NULL => H[y].next \in L
  BY DEF Lists
<1>2. ASSUME NEW a \in L PROVE a \in From(G, hd[G[a].bucket])
  <2>1. H[a] # NULL /\ a \in Addrs /\ a \in From(H, hd[H[a].bucket]) /\ G[a] = H[a]
    BY DEF Lists
  <2>2. H[a].bucket \in Bucket
    BY <2>1, NodeFields
  <2>3. hd[H[a].bucket] # NULL => hd[H[a].bucket] \in L
    BY <2>2 DEF Lists
  <2>4. From(G, hd[H[a].bucket]) = From(H, hd[H[a].bucket])
    BY <1>1, <2>3, FromSame DEF Lists
  <2> QED
    BY <2>1, <2>4
<1>3. /\ L \subseteq Addrs /\ \A a \in L : G[a] # NULL
      /\ \A b \in Bucket : hd[b] # NULL => hd[b] \in L /\ G[hd[b]].bucket = b
      /\ \A a \in L : G[a].next # NULL => G[a].next \in L /\ G[G[a].next].bucket = G[a].bucket
      /\ \A a, d \in L : G[a].next = G[d].next /\ G[a].next # NULL => a = d
      /\ \A a \in L, b \in Bucket : G[a].next # NULL => hd[b] # G[a].next
  BY DEF Lists
<1>4. \E r \in [Addrs -> Int] : \A a \in L : G[a].next # NULL => r[G[a].next] < r[a]
  BY DEF Lists
<1> QED
  BY <1>2, <1>3, <1>4 DEF Lists

\* Node a becomes the head of list b.
LEMMA ListsPush ==
  ASSUME NEW H \in Heaps, NEW hd \in Heads, NEW L, Lists(H, hd, L),
         NEW b \in Bucket, NEW a \in Addrs \ L, H[a] # NULL,
         H[a].bucket = b, H[a].next = hd[b]
  PROVE  Lists(H, [hd EXCEPT ![b] = a], L \cup {a})
<1> DEFINE new == [hd EXCEPT ![b] = a]
           M == L \cup {a}
<1>1. new[b] = a /\ \A c \in Bucket : c # b => new[c] = hd[c]
  BY DEF Heads
<1> HIDE DEF new
<1>2. /\ M \subseteq Addrs /\ \A x \in M : H[x] # NULL
      /\ \A c \in Bucket : new[c] # NULL => new[c] \in M /\ H[new[c]].bucket = c
      /\ \A x \in M : H[x].next # NULL => H[x].next \in M /\ H[H[x].next].bucket = H[x].bucket
  BY <1>1 DEF Lists
<1>3. \A x, y \in M : H[x].next = H[y].next /\ H[x].next # NULL => x = y
  BY DEF Lists
<1>4. \A x \in M, c \in Bucket : H[x].next # NULL => new[c] # H[x].next
  <2> SUFFICES ASSUME NEW x \in M, NEW c \in Bucket, H[x].next # NULL
               PROVE  new[c] # H[x].next
    OBVIOUS
  <2>1. H[x].next \in L
    BY DEF Lists
  <2>2. CASE c = b
    BY <1>1, <2>1, <2>2
  <2>3. CASE c # b /\ x = a
    <3>1. hd[b] # NULL /\ H[hd[b]].bucket = b
      BY <2>3 DEF Lists
    <3>2. hd[c] # NULL => H[hd[c]].bucket = c
      BY DEF Lists
    <3> QED
      BY <1>1, <2>3, <3>1, <3>2
  <2>4. CASE c # b /\ x # a
    BY <1>1, <2>4 DEF Lists
  <2> QED
    BY <2>2, <2>3, <2>4
<1>5. \E r \in [Addrs -> Int] : \A x \in M : H[x].next # NULL => r[H[x].next] < r[x]
  <2>1. PICK r \in [Addrs -> Int] : \A x \in L : H[x].next # NULL => r[H[x].next] < r[x]
    BY DEF Lists
  <2>2. PICK n \in Int : hd[b] # NULL => r[hd[b]] < n
    <3>1. CASE hd[b] = NULL
      BY <3>1
    <3>2. CASE hd[b] # NULL
      <4>1. r[hd[b]] \in Int
        BY <3>2 DEF Heads
      <4>2. r[hd[b]] + 1 \in Int /\ r[hd[b]] < r[hd[b]] + 1
        BY <4>1
      <4> QED
        BY <4>2
    <3> QED
      BY <3>1, <3>2
  <2>3. [r EXCEPT ![a] = n] \in [Addrs -> Int]
    BY <2>1, <2>2
  <2>4. \A x \in M : H[x].next # NULL => [r EXCEPT ![a] = n][H[x].next] < [r EXCEPT ![a] = n][x]
    <3> SUFFICES ASSUME NEW x \in M, H[x].next # NULL
                 PROVE  [r EXCEPT ![a] = n][H[x].next] < [r EXCEPT ![a] = n][x]
      OBVIOUS
    <3>1. H[x].next \in L /\ H[x].next # a
      BY DEF Lists
    <3>2. H[x].next \in Addrs /\ x \in Addrs
      BY <3>1 DEF Lists
    <3> QED
      BY <2>1, <2>2, <3>1, <3>2
  <2> QED
    BY <2>3, <2>4
<1>6. \A x \in M : x \in From(H, new[H[x].bucket])
  <2> SUFFICES ASSUME NEW x \in M PROVE x \in From(H, new[H[x].bucket])
    OBVIOUS
  <2>1. From(H, a) = {a} \cup From(H, hd[b])
    BY FromUnfold
  <2>2. x # a => x \in From(H, hd[H[x].bucket]) /\ H[x].bucket \in Bucket
    BY NodeFields DEF Lists
  <2>3. CASE x = a
    BY <1>1, <2>1, <2>3
  <2>4. CASE x # a /\ H[x].bucket = b
    BY <1>1, <2>1, <2>2, <2>4
  <2>5. CASE x # a /\ H[x].bucket # b
    BY <1>1, <2>2, <2>5
  <2> QED
    BY <2>3, <2>4, <2>5
<1> QED
  BY <1>2, <1>3, <1>4, <1>5, <1>6 DEF Lists, new

\* The head of list b is taken out and freed.
LEMMA ListsPop ==
  ASSUME NEW H \in Heaps, NEW hd \in Heads, NEW L, Lists(H, hd, L),
         NEW b \in Bucket, NEW a \in Addrs, hd[b] = a
  PROVE  /\ a \in L /\ H[a].bucket = b
         /\ Lists([H EXCEPT ![a] = NULL], [hd EXCEPT ![b] = H[a].next], L \ {a})
<1> DEFINE G == [H EXCEPT ![a] = NULL]
           new == [hd EXCEPT ![b] = H[a].next]
           M == L \ {a}
<1>0. a # NULL /\ a \in L /\ H[a].bucket = b
  BY DEF Lists
<1>1. new[b] = H[a].next /\ \A c \in Bucket : c # b => new[c] = hd[c]
  BY DEF Heads
<1>2. \A x \in M : G[x] = H[x]
  BY DEF Lists, Heaps
<1>3. G \in Heaps
  BY DEF Heaps
<1> HIDE DEF new, G
<1>4. \A x \in M : H[x].next # a
  BY <1>0 DEF Lists
<1>5. H[a].next # a
  BY <1>0 DEF Lists
<1>6. /\ M \subseteq Addrs /\ \A x \in M : G[x] # NULL
      /\ \A x \in M : G[x].next # NULL => G[x].next \in M /\ G[G[x].next].bucket = G[x].bucket
  BY <1>2, <1>4 DEF Lists
<1>7. \A c \in Bucket : new[c] # NULL => new[c] \in M /\ G[new[c]].bucket = c
  <2> SUFFICES ASSUME NEW c \in Bucket, new[c] # NULL
               PROVE  new[c] \in M /\ G[new[c]].bucket = c
    OBVIOUS
  <2>1. CASE c = b
    BY <1>0, <1>1, <1>2, <1>5, <2>1 DEF Lists
  <2>2. CASE c # b
    <3>1. hd[c] \in L /\ H[hd[c]].bucket = c
      BY <1>1, <2>2 DEF Lists
    <3> QED
      BY <1>0, <1>1, <1>2, <2>2, <3>1
  <2> QED
    BY <2>1, <2>2
<1>8. \A x, y \in M : G[x].next = G[y].next /\ G[x].next # NULL => x = y
  BY <1>2 DEF Lists
<1>9. \A x \in M, c \in Bucket : G[x].next # NULL => new[c] # G[x].next
  <2> SUFFICES ASSUME NEW x \in M, NEW c \in Bucket, H[x].next # NULL
               PROVE  new[c] # H[x].next
    BY <1>2
  <2>1. CASE c = b
    BY <1>0, <1>1, <2>1 DEF Lists
  <2>2. CASE c # b
    BY <1>1, <2>2 DEF Lists
  <2> QED
    BY <2>1, <2>2
<1>10. \E r \in [Addrs -> Int] : \A x \in M : G[x].next # NULL => r[G[x].next] < r[x]
  BY <1>2 DEF Lists
<1>11. \A x \in M : x \in From(G, new[G[x].bucket])
  <2> SUFFICES ASSUME NEW x \in M PROVE x \in From(G, new[H[x].bucket])
    BY <1>2
  <2>1. H[x].bucket \in Bucket /\ x \in From(H, hd[H[x].bucket])
    BY NodeFields DEF Lists
  <2>2. new[H[x].bucket] # NULL => new[H[x].bucket] \in M
    BY <1>7, <2>1
  <2>3. \A y \in M : H[y] # NULL /\ H[y].next # NULL => H[y].next \in M
    BY <1>4 DEF Lists
  <2>4. From(G, new[H[x].bucket]) = From(H, new[H[x].bucket])
    <3>1. PICK h : h = new[H[x].bucket]
      OBVIOUS
    <3>2. PICK S : S = M
      OBVIOUS
    <3> HIDE DEF M
    <3>3. /\ S \in SUBSET Addrs /\ (h # NULL => h \in S)
          /\ \A y \in S : G[y] = H[y]
          /\ \A y \in S : H[y] # NULL /\ H[y].next # NULL => H[y].next \in S
      BY <1>2, <1>6, <2>2, <2>3, <3>1, <3>2
    <3>4. From(G, h) = From(H, h)
      BY <3>3, FromSame
    <3> QED
      BY <3>1, <3>4
  <2>5. CASE H[x].bucket = b
    <3>1. From(H, a) = {a} \cup From(H, H[a].next)
      BY <1>0, FromUnfold DEF Lists
    <3> QED
      BY <1>1, <2>1, <2>4, <2>5, <3>1
  <2>6. CASE H[x].bucket # b
    BY <1>1, <2>1, <2>4, <2>6
  <2> QED
    BY <2>5, <2>6
<1>12. Lists(G, new, M)
  BY <1>6, <1>7, <1>8, <1>9, <1>10, <1>11 DEF Lists
<1> QED
  BY <1>0, <1>12 DEF G, new

\* The node a that node p points to is taken out and freed.
LEMMA ListsUnlink ==
  ASSUME NEW H \in Heaps, NEW hd \in Heads, NEW L, Lists(H, hd, L),
         NEW p \in L, NEW a \in Addrs, H[p].next = a
  PROVE  /\ a \in L /\ H[a].bucket = H[p].bucket
         /\ Lists([H EXCEPT ![p].next = H[a].next, ![a] = NULL], hd, L \ {a})
<1> DEFINE G == [H EXCEPT ![p].next = H[a].next, ![a] = NULL]
           M == L \ {a}
<1>0. /\ a # NULL /\ a \in L /\ H[a].bucket = H[p].bucket /\ p \in Addrs
      /\ H[p] # NULL /\ H[a] # NULL
  BY DEF Lists
<1>1. a # p
  BY <1>0 DEF Lists
<1>2. H[a].next # a /\ (H[a].next # NULL => H[a].next \in M)
  BY <1>0 DEF Lists
<1>3. \A x \in M : x # p => G[x] = H[x]
  BY <1>0 DEF Lists, Heaps
<1>4. G[p].next = H[a].next /\ G[p].bucket = H[p].bucket /\ G[p] # NULL
  <2>1. H[p] \in Node /\ H[a].next \in Addrs \cup {NULL}
    BY <1>0, NodeFields
  <2>2. G[p] = [H[p] EXCEPT !.next = H[a].next]
    BY <1>0, <1>1 DEF Heaps
  <2>3. [H[p] EXCEPT !.next = H[a].next] \in Node
    BY <2>1 DEF Node
  <2> QED
    BY <2>1, <2>2, <2>3 DEF Node
<1>5. \A x \in M : x # p => H[x].next # a
  BY <1>0 DEF Lists
<1> HIDE DEF G
<1>6. \A x \in M : G[x] # NULL /\ G[x].bucket = H[x].bucket
  BY <1>3, <1>4 DEF Lists
<1>7. \A x \in M : G[x].next # NULL => G[x].next \in M /\ G[G[x].next].bucket = G[x].bucket
  <2> SUFFICES ASSUME NEW x \in M, G[x].next # NULL
               PROVE  G[x].next \in M /\ H[G[x].next].bucket = H[x].bucket
    BY <1>6
  <2>1. CASE x = p
    BY <1>0, <1>2, <1>4, <2>1 DEF Lists
  <2>2. CASE x # p
    BY <1>3, <1>5, <2>2 DEF Lists
  <2> QED
    BY <2>1, <2>2
<1>8. \A c \in Bucket : hd[c] # NULL => hd[c] \in M /\ G[hd[c]].bucket = c
  <2> SUFFICES ASSUME NEW c \in Bucket, hd[c] # NULL
               PROVE  hd[c] \in M /\ G[hd[c]].bucket = c
    OBVIOUS
  <2>1. hd[c] \in L /\ H[hd[c]].bucket = c /\ hd[c] # a
    BY <1>0 DEF Lists
  <2> QED
    BY <1>6, <2>1
<1>9. \A x, y \in M : G[x].next = G[y].next /\ G[x].next # NULL => x = y
  <2>1. \A x \in M : x # p /\ H[x].next # NULL => H[x].next # H[a].next
    BY <1>0 DEF Lists
  <2>2. \A x, y \in M : H[x].next = H[y].next /\ H[x].next # NULL => x = y
    BY DEF Lists
  <2> QED
    BY <1>3, <1>4, <2>1, <2>2
<1>10. \A x \in M, c \in Bucket : G[x].next # NULL => hd[c] # G[x].next
  <2>1. \A x \in L, c \in Bucket : H[x].next # NULL => hd[c] # H[x].next
    BY DEF Lists
  <2> QED
    BY <1>0, <1>3, <1>4, <2>1
<1>11. \E r \in [Addrs -> Int] : \A x \in M : G[x].next # NULL => r[G[x].next] < r[x]
  <2>1. PICK r \in [Addrs -> Int] : \A x \in L : H[x].next # NULL => r[H[x].next] < r[x]
    BY DEF Lists
  <2>2. H[a].next # NULL => r[H[a].next] < r[p]
    <3>1. r[a] < r[p] /\ (H[a].next # NULL => r[H[a].next] < r[a])
      BY <1>0, <2>1
    <3>2. r[a] \in Int /\ r[p] \in Int /\ (H[a].next # NULL => r[H[a].next] \in Int)
      BY <1>0, <1>2, <2>1 DEF Lists
    <3> QED
      BY <3>1, <3>2
  <2>3. \A x \in M : G[x].next # NULL => r[G[x].next] < r[x]
    BY <1>3, <1>4, <2>1, <2>2
  <2> QED
    BY <2>1, <2>3
<1>12. \A x \in M : x \in From(G, hd[G[x].bucket])
  <2> SUFFICES ASSUME NEW x \in M PROVE x \in From(G, hd[H[x].bucket])
    BY <1>6
  <2> DEFINE h == hd[H[x].bucket]
  <2>1. H[x].bucket \in Bucket /\ x \in From(H, h) /\ x \in Addrs
    BY NodeFields DEF Lists
  <2>2. h # NULL => h \in M
    BY <1>8, <2>1
  <2> HIDE DEF h
  <2> SUFFICES ASSUME NEW S \in SUBSET Addrs, h # NULL => h \in S,
                      \A y \in S : G[y] # NULL /\ G[y].next # NULL => G[y].next \in S
               PROVE  x \in S
    BY <2>1 DEF From, h
  <2> DEFINE T == (S \cap M) \cup (IF p \in S THEN {a} ELSE {})
  <2>3. T \in SUBSET Addrs /\ (h # NULL => h \in T)
    BY <2>2
  <2>4. \A y \in T : H[y] # NULL /\ H[y].next # NULL => H[y].next \in T
    <3> SUFFICES ASSUME NEW y \in T, H[y].next # NULL PROVE H[y].next \in T
      OBVIOUS
    <3>1. CASE y = a
      <4>1. p \in S
        BY <3>1
      <4>2. H[a].next \in S
        BY <1>4, <3>1, <4>1
      <4> QED
        BY <1>2, <3>1, <4>2
    <3>2. CASE y = p
      BY <1>1, <3>2
    <3>3. CASE y # a /\ y # p
      <4>1. y \in S \cap M
        BY <3>3
      <4>2. G[y] = H[y] /\ G[y] # NULL
        BY <1>3, <1>6, <3>3, <4>1
      <4>3. H[y].next \in S
        BY <4>1, <4>2
      <4>4. H[y].next \in M
        BY <1>7, <4>1, <4>2
      <4> QED
        BY <4>3, <4>4
    <3> QED
      BY <3>1, <3>2, <3>3
  <2> HIDE DEF T
  <2>5. x \in T
    BY <2>1, <2>3, <2>4 DEF From
  <2> QED
    BY <2>5 DEF T
<1>13. M \subseteq Addrs
  BY DEF Lists
<1>14. Lists(G, hd, M)
  BY <1>6, <1>7, <1>8, <1>9, <1>10, <1>11, <1>12, <1>13 DEF Lists
<1> QED
  BY <1>0, <1>14 DEF G
----------------------------------------------------------------------------
(* The inductive invariant                                                 *)

\* The nodes that a push has linked; a client's node is its own until then.
Listed == {a \in Addrs : heap[a] # NULL /\ pc[Sse(heap[a].client)] # "cas"}
InBucket(b) == {a \in Listed : heap[a].bucket = b}

Scanning == {"check", "send"}
Searching == {"remove", "walk"}
Removing == {"remove", "walk", "decLoad", "decStore", "removed"}

\* Which steps a handler of either kind has
SseSteps == {"idle", "cas", "incLoad", "incStore", "done"}
PostSteps == {"idle", "scan", "clean", "done", "crashed"} \cup Scanning \cup Removing
StepsOK ==
  /\ \A c \in Clients : pc[Sse(c)] \in SseSteps
  /\ \A m \in Broadcasts : pc[Post(m)] \in PostSteps

\* A client has at most one node, from the time it opens.
NodesOK ==
  /\ \A a \in Addrs : heap[a] # NULL => pc[Sse(heap[a].client)] # "idle"
  /\ \A a, d \in Addrs :
       heap[a] # NULL /\ heap[d] # NULL /\ heap[a].client = heap[d].client => a = d

\* A broadcast holds the mutex of the bucket it works on.
LockOK(m) ==
  /\ pc[Post(m)] \in Scanning => lock[job[m].at] = m
  /\ pc[Post(m)] \in Removing =>
       job[m].removals # <<>> /\ lock[Target(m).bucket] = m
LocksOK == \A m \in Broadcasts : LockOK(m)

\* An iterator stands on a node of that bucket, or has passed the last.
IteratorOK(m) ==
  /\ pc[Post(m)] \in Scanning => job[m].iterator \in InBucket(job[m].at) \cup {NULL}
  /\ pc[Post(m)] = "send" => job[m].iterator # NULL
  /\ pc[Post(m)] \in Searching =>
       job[m].iterator \in InBucket(Target(m).bucket) \cup {NULL}
IteratorsOK == \A m \in Broadcasts : IteratorOK(m)

ListsOK == Lists(heap, head, Listed)

IInv ==
  /\ TypeOK
  /\ StepsOK
  /\ NodesOK
  /\ LocksOK
  /\ IteratorsOK
  /\ ListsOK

\* A tuple is of a client that was dead, and finds its node in its bucket until
\* the node is freed; a search for such a node does not run off the list.
TupleOK(t) ==
  /\ pc[Sse(t.client)] \notin {"idle", "cas"}
  /\ peer[t.client] = "dead"
  /\ ~Stale(t) => heap[t.node].bucket = t.bucket
RemovalsOK(m) == \A i \in DOMAIN job[m].removals : TupleOK(job[m].removals[i])
SearchOK(m) ==
  pc[Post(m)] \in Searching /\ ~Stale(Target(m)) => job[m].iterator # NULL
TuplesOK == \A m \in Broadcasts : RemovalsOK(m) /\ SearchOK(m)

\* The count is short of the nodes that are pushed but not counted yet, and has
\* the freed ones that are not counted out; a handler between its load and its
\* store is alone, and has the value to change.
Arriving == {c \in Clients : pc[Sse(c)] \in {"incLoad", "incStore"}}
Leaving == {m \in Broadcasts : pc[Post(m)] \in {"decLoad", "decStore"}}
CountOK ==
  ~raced =>
    /\ count = Cardinality(Listed) - Cardinality(Arriving) + Cardinality(Leaving)
    /\ \A h \in Updating : reg[h] = count
    /\ \A h, k \in Updating : h = k

\* What a client has been sent
Heard(c) == {stream[c][i] : i \in DOMAIN stream[c]}

\* The nodes a scan has passed have its message, or belong to the dead.
ScanOK(m) ==
  pc[Post(m)] \in Scanning =>
    /\ job[m].front \in InBucket(job[m].at) \cup {NULL}
    /\ \A a \in NodesFrom(job[m].front) :
         \/ a \in NodesFrom(job[m].iterator)
         \/ m \in Heard(heap[a].client)
         \/ peer[heap[a].client] = "dead"
ScansOK == \A m \in Broadcasts : ScanOK(m)

\* The clients with a node in bucket b
Members(b) == {c \in Clients : \E a \in InBucket(b) : heap[a].client = c}

\* The messages that s and t share are in the same order in both.
InOrder(s, t) ==
  \A i, j \in DOMAIN s, k, l \in DOMAIN t : s[i] = t[k] /\ s[j] = t[l] /\ i < j => k < l

\* A message is in a bucket's streams only once its broadcast has taken the
\* bucket; while it holds it, its message is the last of each stream, and not in
\* the streams of the clients that it has yet to meet.
VisitOK(m) ==
  \A b \in Bucket : \A c \in Members(b) : m \in Heard(c) => Visited(m, b)
LastOK(m) ==
  pc[Post(m)] \in Scanning =>
    /\ \A c \in Members(job[m].at) :
         \A i \in DOMAIN stream[c] : stream[c][i] = m => i = Len(stream[c])
    /\ \A c \in Ahead(m) : m \notin Heard(c)
OrdersOK ==
  /\ \A m \in Broadcasts : VisitOK(m) /\ LastOK(m)
  /\ \A c \in Clients : pc[Sse(c)] \in {"idle", "cas"} => stream[c] = <<>>
  /\ \A b \in Bucket : \A c, d \in Members(b) : InOrder(stream[c], stream[d])

----------------------------------------------------------------------------
(* Facts about the state and its steps                                     *)

Steps == {"idle", "cas", "incLoad", "incStore", "scan", "check", "send",
          "clean", "remove", "walk", "decLoad", "decStore", "removed",
          "done", "crashed"}
TupleSet == [bucket: Bucket, node: Addrs, client: Clients]
Job == [at: Bucket, iterator: Addrs \cup {NULL}, removals: Seq(TupleSet),
        front: Addrs \cup {NULL}]

LEMMA TypeFacts ==
  ASSUME TypeOK
  PROVE  /\ head \in Heads /\ heap \in Heaps
         /\ lock \in [Bucket -> Broadcasts \cup {NULL}]
         /\ count \in Int /\ raced \in BOOLEAN
         /\ pc \in [Handlers -> Steps] /\ reg \in [Handlers -> Int]
         /\ job \in [Broadcasts -> Job]
         /\ peer \in [Clients -> {"open", "gone", "failing", "dead"}]
         /\ stream \in [Clients -> Seq(Broadcasts)]
BY DEF TypeOK, Heads, Heaps, Steps, Job, TupleSet

LEMMA HandlerNames ==
  /\ \A m \in Broadcasts : Post(m) \in Handlers
  /\ \A c \in Clients : Sse(c) \in Handlers
  /\ \A m, k \in Broadcasts : Post(m) = Post(k) => m = k
  /\ \A c, d \in Clients : Sse(c) = Sse(d) => c = d
  /\ \A m \in Broadcasts, c \in Clients : Post(m) # Sse(c)
  /\ \A h \in Handlers : (\E m \in Broadcasts : h = Post(m)) \/ (\E c \in Clients : h = Sse(c))
BY DEF Post, Sse, Handlers

LEMMA PostStep ==
  ASSUME pc \in [Handlers -> Steps], NEW m \in Broadcasts, NEW l, goto(Post(m), l)
  PROVE  /\ pc'[Post(m)] = l
         /\ \A k \in Broadcasts : k # m => pc'[Post(k)] = pc[Post(k)]
         /\ \A c \in Clients : pc'[Sse(c)] = pc[Sse(c)]
         /\ l \in Steps => pc' \in [Handlers -> Steps]
<1> USE DEF goto
<1>1. pc'[Post(m)] = l
  BY HandlerNames
<1>2. \A h \in Handlers : h # Post(m) => pc'[h] = pc[h]
  OBVIOUS
<1>3. l \in Steps => pc' \in [Handlers -> Steps]
  OBVIOUS
<1> QED
  BY <1>1, <1>2, <1>3, HandlerNames, Zenon

LEMMA SseStep ==
  ASSUME pc \in [Handlers -> Steps], NEW c \in Clients, NEW l, goto(Sse(c), l)
  PROVE  /\ pc'[Sse(c)] = l
         /\ \A k \in Broadcasts : pc'[Post(k)] = pc[Post(k)]
         /\ \A d \in Clients : d # c => pc'[Sse(d)] = pc[Sse(d)]
         /\ l \in Steps => pc' \in [Handlers -> Steps]
<1> USE DEF goto
<1>1. pc'[Sse(c)] = l
  BY HandlerNames
<1>2. \A h \in Handlers : h # Sse(c) => pc'[h] = pc[h]
  OBVIOUS
<1>3. l \in Steps => pc' \in [Handlers -> Steps]
  OBVIOUS
<1> QED
  BY <1>1, <1>2, <1>3, HandlerNames, Zenon

LEMMA JobFields ==
  ASSUME job \in [Broadcasts -> Job], NEW m \in Broadcasts
  PROVE  /\ job[m] \in Job
         /\ job[m].at \in Bucket /\ job[m].iterator \in Addrs \cup {NULL}
         /\ job[m].removals \in Seq(TupleSet) /\ job[m].front \in Addrs \cup {NULL}
BY DEF Job

LEMMA TargetFields ==
  ASSUME job \in [Broadcasts -> Job], NEW m \in Broadcasts, job[m].removals # <<>>
  PROVE  /\ Target(m) \in TupleSet /\ Target(m) = job[m].removals[1]
         /\ 1 \in DOMAIN job[m].removals
         /\ Target(m).bucket \in Bucket /\ Target(m).node \in Addrs
         /\ Target(m).client \in Clients
<1>1. job[m].removals \in Seq(TupleSet)
  BY JobFields
<1>2. Target(m) \in TupleSet /\ Target(m) = job[m].removals[1] /\ 1 \in DOMAIN job[m].removals
  BY <1>1 DEF Target
<1> QED
  BY <1>2 DEF TupleSet

\* Where the broadcast that iterates stands
LEMMA IteratorFacts ==
  ASSUME IInv, NEW m \in Broadcasts, pc[Post(m)] \in Scanning, job[m].iterator # NULL
  PROVE  /\ job[m].iterator \in InBucket(job[m].at)
         /\ job[m].iterator \in Listed /\ job[m].iterator \in Addrs
         /\ heap[job[m].iterator] # NULL /\ heap[job[m].iterator] \in Node
         /\ heap[job[m].iterator].client \in Clients
         /\ heap[job[m].iterator].next \in Addrs \cup {NULL}
         /\ heap[job[m].iterator].bucket = job[m].at
<1>1. job[m].iterator \in InBucket(job[m].at)
  BY DEF IInv, IteratorsOK, IteratorOK
<1>2. /\ job[m].iterator \in Listed /\ job[m].iterator \in Addrs
      /\ heap[job[m].iterator].bucket = job[m].at /\ heap[job[m].iterator] # NULL
  BY <1>1 DEF InBucket, Listed
<1>3. heap \in Heaps
  BY TypeFacts DEF IInv
<1> QED
  BY <1>1, <1>2, <1>3, NodeFields

LEMMA SearchFacts ==
  ASSUME IInv, NEW m \in Broadcasts, pc[Post(m)] \in Searching
  PROVE  /\ job[m].removals # <<>> /\ lock[Target(m).bucket] = m
         /\ Target(m) \in TupleSet /\ Target(m) = job[m].removals[1]
         /\ Target(m).bucket \in Bucket /\ Target(m).node \in Addrs
         /\ job[m].iterator # NULL =>
              /\ job[m].iterator \in Listed /\ job[m].iterator \in Addrs
              /\ heap[job[m].iterator].bucket = Target(m).bucket
              /\ heap[job[m].iterator] # NULL
              /\ heap[job[m].iterator].next \in Addrs \cup {NULL}
<1>0. heap \in Heaps /\ job \in [Broadcasts -> Job]
  BY TypeFacts DEF IInv
<1>1. job[m].removals # <<>> /\ lock[Target(m).bucket] = m
  BY DEF IInv, LocksOK, LockOK, Searching, Removing
<1>2. job[m].iterator \in InBucket(Target(m).bucket) \cup {NULL}
  BY DEF IInv, IteratorsOK, IteratorOK
<1>3. job[m].iterator # NULL =>
        /\ job[m].iterator \in Listed /\ job[m].iterator \in Addrs
        /\ heap[job[m].iterator].bucket = Target(m).bucket
        /\ heap[job[m].iterator] # NULL
  BY <1>2 DEF InBucket, Listed
<1> QED
  BY <1>0, <1>1, <1>3, NodeFields, TargetFields

----------------------------------------------------------------------------
(* What a step does to the lists                                           *)

\* The nodes of bucket b stay as they are; others may join them.
Kept(b) == \A x \in InBucket(b) : heap'[x] = heap[x] /\ x \in InBucket(b)'

\* Most steps leave the lists alone.
LEMMA ListsFrame ==
  ASSUME IInv, UNCHANGED lists,
         \A c \in Clients : /\ pc'[Sse(c)] = "cas" <=> pc[Sse(c)] = "cas"
                            /\ pc'[Sse(c)] = "idle" => pc[Sse(c)] = "idle"
  PROVE  /\ Listed' = Listed /\ NodesOK' /\ ListsOK'
         /\ \A q \in Bucket : Kept(q)
<1>1. heap' = heap /\ head' = head /\ heap \in Heaps
  BY TypeFacts DEF lists, IInv
<1>2. \A a \in Addrs : heap[a] # NULL => heap[a].client \in Clients
  BY <1>1, NodeFields
<1>3. Listed' = Listed
  BY <1>1, <1>2 DEF Listed
<1>4. NodesOK'
  BY <1>1, <1>2 DEF IInv, NodesOK
<1>5. ListsOK'
  BY <1>1, <1>3 DEF IInv, ListsOK
<1>6. \A q \in Bucket : Kept(q)
  BY <1>1, <1>3 DEF Kept, InBucket
<1> QED
  BY <1>3, <1>4, <1>5, <1>6

LEMMA OpenLists ==
  ASSUME IInv, NEW c \in Clients, NEW b \in Bucket, NEW a \in Addrs, sseOpened(c, b, a)
  PROVE  /\ Listed' = Listed /\ NodesOK' /\ ListsOK'
         /\ \A q \in Bucket : Kept(q)
         /\ heap' \in Heaps /\ head' = head
         /\ heap'[a] # NULL /\ heap'[a].client = c
         /\ \A x \in Addrs : x # a => heap'[x] = heap[x]
<1>0. heap \in Heaps /\ head \in Heads /\ pc \in [Handlers -> Steps]
  BY TypeFacts DEF IInv
<1>1. PICK node \in Node : /\ node.client = c
                           /\ heap[a] = NULL /\ heap' = [heap EXCEPT ![a] = node]
  <2>1. head[b] \in Addrs \cup {NULL}
    BY <1>0 DEF Heads
  <2>2. [client |-> c, bucket |-> b, next |-> head[b]] \in Node
    BY <2>1 DEF Node
  <2> QED
    BY <2>2 DEF sseOpened
<1>2. /\ pc[Sse(c)] = "idle" /\ pc'[Sse(c)] = "cas" /\ head' = head
      /\ \A d \in Clients : d # c => pc'[Sse(d)] = pc[Sse(d)]
  <2>1. pc[Sse(c)] = "idle" /\ goto(Sse(c), "cas") /\ head' = head
    BY DEF sseOpened, step
  <2> QED
    BY <1>0, <2>1, SseStep
<1>3. \A x \in Addrs : x # a => heap'[x] = heap[x]
  BY <1>0, <1>1 DEF Heaps
<1>4. heap'[a] # NULL /\ heap'[a].client = c /\ heap' \in Heaps
  BY <1>0, <1>1, CppAssumption DEF Heaps
<1>5. \A x \in Addrs : heap[x] # NULL => heap[x].client \in Clients /\ heap[x].client # c /\ x # a
  BY <1>0, <1>1, <1>2, NodeFields DEF IInv, NodesOK
<1>6. Listed' = Listed
  BY <1>2, <1>3, <1>4, <1>5 DEF Listed
<1>7. NodesOK'
  <2>1. \A x \in Addrs : heap'[x] # NULL => pc'[Sse(heap'[x].client)] # "idle"
    BY <1>2, <1>3, <1>4, <1>5 DEF IInv, NodesOK
  <2>2. \A x, d \in Addrs :
          heap'[x] # NULL /\ heap'[d] # NULL /\ heap'[x].client = heap'[d].client => x = d
    BY <1>3, <1>4, <1>5 DEF IInv, NodesOK
  <2> QED
    BY <2>1, <2>2 DEF NodesOK
<1>8. \A x \in Listed : heap'[x] = heap[x]
  BY <1>3, <1>5 DEF Listed
<1>9. ListsOK'
  <2>1. Lists(heap, head, Listed)
    BY DEF IInv, ListsOK
  <2>2. Lists(heap', head, Listed)
    BY <1>0, <1>4, <1>8, <2>1, ListsSame
  <2> QED
    BY <1>2, <1>6, <2>2 DEF ListsOK
<1>10. \A q \in Bucket : Kept(q)
  BY <1>6, <1>8 DEF Kept, InBucket
<1> QED
  BY <1>2, <1>3, <1>4, <1>6, <1>7, <1>9, <1>10

\* A push whose head has changed notes the new one in its node.
RetryPush(c, a) ==
  /\ pc[Sse(c)] = "cas" /\ heap[a].client = c /\ head[heap[a].bucket] # heap[a].next
  /\ heap' = [heap EXCEPT ![a].next = head[heap[a].bucket]]
  /\ UNCHANGED <<head, pc>>

LEMMA RetryLists ==
  ASSUME IInv, NEW c \in Clients, NEW a \in Addrs, heap[a] # NULL, RetryPush(c, a)
  PROVE  /\ Listed' = Listed /\ NodesOK' /\ ListsOK'
         /\ \A q \in Bucket : Kept(q)
         /\ heap' \in Heaps
         /\ \A x \in Addrs :
              /\ heap'[x] = NULL <=> heap[x] = NULL
              /\ heap[x] # NULL => /\ heap'[x].client = heap[x].client
                                   /\ heap'[x].bucket = heap[x].bucket
<1>0. heap \in Heaps /\ head \in Heads
  BY TypeFacts DEF IInv
<1>1. heap[a] \in Node /\ heap[a].bucket \in Bucket
  BY <1>0, NodeFields
<1>2. PICK next \in Addrs \cup {NULL} : heap' = [heap EXCEPT ![a] = [heap[a] EXCEPT !.next = next]]
  <2>1. head[heap[a].bucket] \in Addrs \cup {NULL}
    BY <1>0, <1>1 DEF Heads
  <2> QED
    BY <1>0, <2>1 DEF RetryPush, Heaps
<1>3. PICK node \in Node : /\ node.client = heap[a].client /\ node.bucket = heap[a].bucket
                           /\ heap' = [heap EXCEPT ![a] = node]
  BY <1>1, <1>2 DEF Node
<1>4. heap' \in Heaps /\ heap'[a] = node /\ node # NULL /\ \A x \in Addrs : x # a => heap'[x] = heap[x]
  BY <1>0, <1>3, CppAssumption DEF Heaps
<1>5. \A x \in Addrs :
        /\ heap'[x] = NULL <=> heap[x] = NULL
        /\ heap[x] # NULL => /\ heap'[x].client = heap[x].client
                             /\ heap'[x].bucket = heap[x].bucket
  BY <1>3, <1>4
<1>6. pc' = pc /\ head' = head /\ a \notin Listed
  BY DEF RetryPush, Listed
<1>7. Listed' = Listed
  BY <1>5, <1>6 DEF Listed
<1>8. NodesOK'
  BY <1>5, <1>6 DEF IInv, NodesOK
<1>9. \A x \in Listed : heap'[x] = heap[x]
  BY <1>4, <1>6 DEF Listed
<1>10. ListsOK'
  <2>1. Lists(heap, head, Listed)
    BY DEF IInv, ListsOK
  <2>2. Lists(heap', head, Listed)
    BY <1>0, <1>4, <1>9, <2>1, ListsSame
  <2> QED
    BY <1>6, <1>7, <2>2 DEF ListsOK
<1>11. \A q \in Bucket : Kept(q)
  BY <1>7, <1>9 DEF Kept, InBucket
<1> QED
  BY <1>4, <1>5, <1>7, <1>8, <1>10, <1>11

\* A push that finds its head links its node.
LinkNode(c, a) ==
  /\ pc[Sse(c)] = "cas" /\ heap[a].client = c /\ head[heap[a].bucket] = heap[a].next
  /\ head' = [head EXCEPT ![heap[a].bucket] = a]
  /\ goto(Sse(c), "incLoad")
  /\ UNCHANGED heap

LEMMA LinkLists ==
  ASSUME IInv, NEW c \in Clients, NEW a \in Addrs, heap[a] # NULL, LinkNode(c, a)
  PROVE  /\ a \notin Listed /\ Listed' = Listed \cup {a} /\ NodesOK' /\ ListsOK'
         /\ \A q \in Bucket : Kept(q)
         /\ heap' = heap /\ head' \in Heads
<1>0. heap \in Heaps /\ head \in Heads /\ pc \in [Handlers -> Steps]
  BY TypeFacts DEF IInv
<1>1. heap[a] \in Node /\ heap[a].bucket \in Bucket /\ heap[a].client = c
  BY <1>0, NodeFields DEF LinkNode
<1>2. /\ pc[Sse(c)] = "cas" /\ pc'[Sse(c)] = "incLoad" /\ heap' = heap
      /\ \A d \in Clients : d # c => pc'[Sse(d)] = pc[Sse(d)]
  BY <1>0, SseStep DEF LinkNode
<1>3. head' = [head EXCEPT ![heap[a].bucket] = a] /\ head' \in Heads
  BY <1>0, <1>1 DEF LinkNode, Heads
<1>4. \A x \in Addrs : heap[x] # NULL =>
        heap[x].client \in Clients /\ (heap[x].client = c => x = a)
  BY <1>0, <1>1, NodeFields DEF IInv, NodesOK
<1>5. a \notin Listed /\ Listed' = Listed \cup {a}
  BY <1>1, <1>2, <1>4 DEF Listed
<1>6. NodesOK'
  BY <1>2, <1>4 DEF IInv, NodesOK
<1>7. ListsOK'
  <2>1. Lists(heap, head, Listed) /\ heap[a].next = head[heap[a].bucket]
    BY DEF IInv, ListsOK, LinkNode
  <2>2. Lists(heap, [head EXCEPT ![heap[a].bucket] = a], Listed \cup {a})
    BY <1>0, <1>1, <1>5, <2>1, ListsPush
  <2> QED
    BY <1>2, <1>3, <1>5, <2>2 DEF ListsOK
<1>8. \A q \in Bucket : Kept(q)
  BY <1>2, <1>5 DEF Kept, InBucket
<1> QED
  BY <1>2, <1>3, <1>5, <1>6, <1>7, <1>8

\* remove takes the head out.
PopHead(m) ==
  LET b == Target(m).bucket
      a == Target(m).node
  IN
  /\ step(Post(m), "remove", "decLoad")
  /\ job[m].iterator = a
  /\ head[b] = a
  /\ head' = [head EXCEPT ![b] = heap[a].next]
  /\ heap' = [heap EXCEPT ![a] = NULL]
  /\ UNCHANGED job

LEMMA PopLists ==
  ASSUME IInv, NEW m \in Broadcasts, PopHead(m)
  PROVE  /\ Target(m).node \in Listed /\ heap[Target(m).node].bucket = Target(m).bucket
         /\ Listed' = Listed \ {Target(m).node} /\ NodesOK' /\ ListsOK'
         /\ \A q \in Bucket : q # Target(m).bucket => Kept(q)
         /\ heap' \in Heaps /\ head' \in Heads
         /\ heap'[Target(m).node] = NULL
         /\ \A x \in Addrs : x # Target(m).node => heap'[x] = heap[x]
<1>0. heap \in Heaps /\ head \in Heads /\ pc \in [Handlers -> Steps]
  BY TypeFacts DEF IInv
<1>1. PICK b \in Bucket, a \in Addrs : b = Target(m).bucket /\ a = Target(m).node
  <2>1. pc[Post(m)] \in Searching
    BY DEF PopHead, step, Searching
  <2> QED
    BY <2>1, SearchFacts
<1>2. /\ pc[Post(m)] = "remove" /\ pc'[Post(m)] = "decLoad" /\ head[b] = a
      /\ \A c \in Clients : pc'[Sse(c)] = pc[Sse(c)]
  <2>1. pc[Post(m)] = "remove" /\ goto(Post(m), "decLoad") /\ head[b] = a
    BY <1>1 DEF PopHead, step
  <2> QED
    BY <1>0, <2>1, PostStep
<1>3. head' = [head EXCEPT ![b] = heap[a].next] /\ heap' = [heap EXCEPT ![a] = NULL]
  BY <1>1 DEF PopHead
<1>4. a \in Listed /\ heap[a].bucket = b /\ Lists(heap', head', Listed \ {a})
  <2>1. Lists(heap, head, Listed)
    BY DEF IInv, ListsOK
  <2>2. /\ a \in Listed /\ heap[a].bucket = b
        /\ Lists([heap EXCEPT ![a] = NULL], [head EXCEPT ![b] = heap[a].next], Listed \ {a})
    BY <1>0, <1>2, <2>1, ListsPop
  <2> QED
    BY <1>3, <2>2
<1>5. heap[a].next \in Addrs \cup {NULL}
  BY <1>0, <1>4, NodeFields DEF Listed
<1>6. /\ heap' \in Heaps /\ head' \in Heads /\ heap'[a] = NULL
      /\ \A x \in Addrs : x # a => heap'[x] = heap[x]
  BY <1>0, <1>3, <1>5 DEF Heaps, Heads
<1>7. \A x \in Addrs : heap[x] # NULL => heap[x].client \in Clients
  BY <1>0, NodeFields
<1>8. Listed' = Listed \ {a}
  BY <1>2, <1>6, <1>7 DEF Listed
<1>9. NodesOK'
  BY <1>2, <1>6, <1>7 DEF IInv, NodesOK
<1>10. \A q \in Bucket : q # b => Kept(q)
  BY <1>4, <1>6, <1>8 DEF Kept, InBucket, Listed
<1> QED
  BY <1>1, <1>4, <1>6, <1>8, <1>9, <1>10 DEF ListsOK

\* remove takes a node out behind the iterator.
Unlink(m) ==
  LET a == Target(m).node
      prev == job[m].iterator
  IN
  /\ prev # NULL
  /\ step(Post(m), "walk", "decLoad")
  /\ heap[prev].next = a
  /\ heap' = [heap EXCEPT ![prev].next = heap[a].next, ![a] = NULL]
  /\ UNCHANGED <<head, job>>

LEMMA UnlinkLists ==
  ASSUME IInv, NEW m \in Broadcasts, Unlink(m)
  PROVE  /\ Target(m).node \in Listed /\ heap[Target(m).node].bucket = Target(m).bucket
         /\ Listed' = Listed \ {Target(m).node} /\ NodesOK' /\ ListsOK'
         /\ \A q \in Bucket : q # Target(m).bucket => Kept(q)
         /\ heap' \in Heaps
         /\ heap'[Target(m).node] = NULL
         /\ \A x \in Addrs : x # Target(m).node =>
              /\ heap'[x] = NULL <=> heap[x] = NULL
              /\ heap[x] # NULL => /\ heap'[x].client = heap[x].client
                                   /\ heap'[x].bucket = heap[x].bucket
<1>0. heap \in Heaps /\ head \in Heads /\ pc \in [Handlers -> Steps]
  BY TypeFacts DEF IInv
<1>1. PICK b \in Bucket, a \in Addrs, p \in Addrs :
        /\ b = Target(m).bucket /\ a = Target(m).node /\ p = job[m].iterator
        /\ p \in Listed /\ heap[p].bucket = b /\ heap[p] # NULL
  <2>1. pc[Post(m)] \in Searching /\ job[m].iterator # NULL
    BY DEF Unlink, step, Searching
  <2> QED
    BY <2>1, SearchFacts
<1>2. /\ pc[Post(m)] = "walk" /\ pc'[Post(m)] = "decLoad" /\ heap[p].next = a
      /\ \A c \in Clients : pc'[Sse(c)] = pc[Sse(c)]
  <2>1. pc[Post(m)] = "walk" /\ goto(Post(m), "decLoad") /\ heap[p].next = a
    BY <1>1 DEF Unlink, step
  <2> QED
    BY <1>0, <2>1, PostStep
<1>3. head' = head /\ heap' = [heap EXCEPT ![p].next = heap[a].next, ![a] = NULL]
  BY <1>1 DEF Unlink
<1>4. a \in Listed /\ heap[a].bucket = b /\ Lists(heap', head', Listed \ {a})
  <2>1. Lists(heap, head, Listed)
    BY DEF IInv, ListsOK
  <2>2. /\ a \in Listed /\ heap[a].bucket = heap[p].bucket
        /\ Lists([heap EXCEPT ![p].next = heap[a].next, ![a] = NULL], head, Listed \ {a})
    BY SMTT(30), <1>0, <1>1, <1>2, <2>1, ListsUnlink
  <2> QED
    BY <1>1, <1>3, <2>2
<1>5. heap[a].next \in Addrs \cup {NULL} /\ heap[a] # NULL /\ a # p
  <2>1. heap[a].next \in Addrs \cup {NULL} /\ heap[a] # NULL
    BY <1>0, <1>4, NodeFields DEF Listed
  <2>2. PICK r \in [Addrs -> Int] : \A x \in Listed : heap[x].next # NULL => r[heap[x].next] < r[x]
    BY DEF IInv, ListsOK, Lists
  <2>3. r[a] < r[p] /\ r[a] \in Int
    BY <1>1, <1>2, <1>4, <2>2, CppAssumption
  <2> QED
    BY <2>1, <2>3
<1>6. PICK node \in Node :
        /\ node.client = heap[p].client /\ node.bucket = heap[p].bucket
        /\ heap' = [heap EXCEPT ![p] = node, ![a] = NULL]
  <2>1. heap[p] \in Node
    BY <1>0, <1>1, NodeFields
  <2>2. heap' = [heap EXCEPT ![p] = [heap[p] EXCEPT !.next = heap[a].next], ![a] = NULL]
    BY <1>0, <1>1, <1>3, <1>5 DEF Heaps
  <2>3. PICK next \in Addrs \cup {NULL} : next = heap[a].next
    BY <1>5
  <2>4. /\ [heap[p] EXCEPT !.next = next] \in Node
        /\ [heap[p] EXCEPT !.next = next].client = heap[p].client
        /\ [heap[p] EXCEPT !.next = next].bucket = heap[p].bucket
    BY <2>1 DEF Node
  <2> QED
    BY <2>2, <2>3, <2>4
<1>7. heap' \in Heaps /\ heap'[a] = NULL /\ heap'[p] = node /\ node # NULL
  BY <1>0, <1>1, <1>5, <1>6, CppAssumption DEF Heaps
<1>8. \A x \in Addrs : x # a /\ x # p => heap'[x] = heap[x]
  BY <1>0, <1>6 DEF Heaps
<1>9. \A x \in Addrs : x # a =>
        /\ heap'[x] = NULL <=> heap[x] = NULL
        /\ heap[x] # NULL => /\ heap'[x].client = heap[x].client
                             /\ heap'[x].bucket = heap[x].bucket
  BY <1>1, <1>6, <1>7, <1>8
<1>10. \A x \in Addrs : heap[x] # NULL => heap[x].client \in Clients
  BY <1>0, NodeFields
<1>11. Listed' = Listed \ {a}
  BY <1>2, <1>7, <1>9, <1>10 DEF Listed
<1>12. NodesOK'
  BY <1>2, <1>7, <1>9, <1>10 DEF IInv, NodesOK
<1>13. \A q \in Bucket : q # b => Kept(q)
  BY <1>1, <1>4, <1>8, <1>11 DEF Kept, InBucket, Listed
<1> QED
  BY <1>1, <1>3, <1>4, <1>7, <1>9, <1>11, <1>12, <1>13 DEF ListsOK

----------------------------------------------------------------------------
(* What a step of a broadcast does to the broadcasts                       *)

\* Other broadcasts, and the responses, stay where they are, and keep what they
\* hold.
Local(m) ==
  /\ pc' \in [Handlers -> Steps] /\ job' \in [Broadcasts -> Job]
  /\ lock' \in [Bucket -> Broadcasts \cup {NULL}]
  /\ \A k \in Broadcasts : k # m => pc'[Post(k)] = pc[Post(k)] /\ job'[k] = job[k]
  /\ \A c \in Clients : pc'[Sse(c)] = pc[Sse(c)]
  /\ \A b \in Bucket, k \in Broadcasts : k # m /\ lock[b] = k => lock'[b] = k

LEMMA JobUpdate ==
  ASSUME job \in [Broadcasts -> Job], NEW m \in Broadcasts, NEW r \in Job,
         job' = [job EXCEPT ![m] = r]
  PROVE  /\ job' \in [Broadcasts -> Job] /\ job'[m] = r
         /\ \A k \in Broadcasts : k # m => job'[k] = job[k]
OBVIOUS

LEMMA TakeFacts ==
  ASSUME lock \in [Bucket -> Broadcasts \cup {NULL}], NEW m \in Broadcasts,
         NEW b \in Bucket, take(m, b)
  PROVE  /\ lock' \in [Bucket -> Broadcasts \cup {NULL}] /\ lock'[b] = m
         /\ \A q \in Bucket, k \in Broadcasts : k # m /\ lock[q] = k => lock'[q] = k
BY CppAssumption DEF take, Broadcasts

LEMMA ReleaseFacts ==
  ASSUME lock \in [Bucket -> Broadcasts \cup {NULL}], NEW m \in Broadcasts,
         NEW b \in Bucket, lock[b] = m, release(b)
  PROVE  /\ lock' \in [Bucket -> Broadcasts \cup {NULL}] /\ lock'[b] = NULL
         /\ \A q \in Bucket, k \in Broadcasts : k # m /\ lock[q] = k => lock'[q] = k
BY DEF release

LEMMA ScanLockStep ==
  ASSUME IInv, NEW m \in Broadcasts, scanLock(m)
  PROVE  /\ Local(m) /\ UNCHANGED lists
         /\ pc[Post(m)] = "scan" /\ pc'[Post(m)] = "check"
         /\ lock'[job'[m].at] = m
         /\ job'[m].at = job[m].at /\ job'[m].removals = job[m].removals
         /\ job'[m].iterator = head[job[m].at] /\ job'[m].front = head[job[m].at]
<1>0. /\ job \in [Broadcasts -> Job] /\ pc \in [Handlers -> Steps] /\ head \in Heads
      /\ lock \in [Bucket -> Broadcasts \cup {NULL}]
  BY TypeFacts DEF IInv
<1>1. job[m] \in Job /\ job[m].at \in Bucket /\ head[job[m].at] \in Addrs \cup {NULL}
  BY <1>0, JobFields DEF Heads
<1>2. PICK r \in Job : /\ job' = [job EXCEPT ![m] = r]
                       /\ r.at = job[m].at /\ r.removals = job[m].removals
                       /\ r.iterator = head[job[m].at] /\ r.front = head[job[m].at]
  <2>1. PICK i \in Addrs \cup {NULL} : i = head[job[m].at]
    BY <1>1
  <2>2. job' = [job EXCEPT ![m].iterator = i, ![m].front = i]
    BY <2>1 DEF scanLock
  <2>3. job' = [job EXCEPT ![m] = [job[m] EXCEPT !.iterator = i, !.front = i]]
    BY <1>0, <2>2
  <2>4. [job[m] EXCEPT !.iterator = i, !.front = i] \in Job
    BY <1>1 DEF Job
  <2> QED
    BY <1>1, <2>1, <2>3, <2>4 DEF Job
<1>3. /\ job' \in [Broadcasts -> Job] /\ job'[m] = r
      /\ \A k \in Broadcasts : k # m => job'[k] = job[k]
  BY <1>0, <1>2, JobUpdate
<1>4. /\ pc[Post(m)] = "scan" /\ pc'[Post(m)] = "check" /\ pc' \in [Handlers -> Steps]
      /\ \A k \in Broadcasts : k # m => pc'[Post(k)] = pc[Post(k)]
      /\ \A c \in Clients : pc'[Sse(c)] = pc[Sse(c)]
  <2>1. pc[Post(m)] = "scan" /\ goto(Post(m), "check") /\ "check" \in Steps
    BY DEF scanLock, step, Steps
  <2> QED
    BY <1>0, <2>1, PostStep
<1>5. take(m, job[m].at) /\ UNCHANGED lists
  BY DEF scanLock
<1>6. /\ lock' \in [Bucket -> Broadcasts \cup {NULL}] /\ lock'[job[m].at] = m
      /\ \A q \in Bucket, k \in Broadcasts : k # m /\ lock[q] = k => lock'[q] = k
  BY <1>0, <1>1, <1>5, TakeFacts
<1> QED
  BY <1>2, <1>3, <1>4, <1>5, <1>6 DEF Local

\* The scan passes a dead client, and notes it.
NoteDead(m) ==
  /\ step(Post(m), "check", "check")
  /\ peer[heap[job[m].iterator].client] = "dead"
  /\ job' = [job EXCEPT ![m].removals = Append(@, Tuple(m)),
                        ![m].iterator = heap[job[m].iterator].next]

LEMMA NoteDeadStep ==
  ASSUME IInv, NEW m \in Broadcasts, job[m].iterator # NULL, NoteDead(m), UNCHANGED lock
  PROVE  /\ Local(m)
         /\ pc[Post(m)] = "check" /\ pc'[Post(m)] = "check"
         /\ job'[m].at = job[m].at /\ job'[m].front = job[m].front
         /\ job'[m].iterator = heap[job[m].iterator].next
         /\ Tuple(m) \in TupleSet /\ job'[m].removals = Append(job[m].removals, Tuple(m))
<1>0. /\ job \in [Broadcasts -> Job] /\ pc \in [Handlers -> Steps]
      /\ lock \in [Bucket -> Broadcasts \cup {NULL}]
  BY TypeFacts DEF IInv
<1>1. /\ pc[Post(m)] = "check" /\ pc'[Post(m)] = "check" /\ pc' \in [Handlers -> Steps]
      /\ \A k \in Broadcasts : k # m => pc'[Post(k)] = pc[Post(k)]
      /\ \A c \in Clients : pc'[Sse(c)] = pc[Sse(c)]
  <2>1. pc[Post(m)] = "check" /\ goto(Post(m), "check") /\ "check" \in Steps
    BY DEF NoteDead, step, Steps
  <2> QED
    BY <1>0, <2>1, PostStep
<1>2. /\ job[m].iterator \in Addrs /\ heap[job[m].iterator].client \in Clients
      /\ heap[job[m].iterator].next \in Addrs \cup {NULL}
  BY <1>1, IteratorFacts DEF Scanning
<1>3. job[m] \in Job /\ job[m].at \in Bucket /\ job[m].removals \in Seq(TupleSet)
  BY <1>0, JobFields
<1>4. Tuple(m) \in TupleSet
  BY <1>2, <1>3 DEF Tuple, TupleSet
<1>5. PICK q \in Seq(TupleSet) : q = Append(job[m].removals, Tuple(m))
  <2>1. PICK s \in Seq(TupleSet), t \in TupleSet : s = job[m].removals /\ t = Tuple(m)
    BY <1>3, <1>4
  <2>2. Append(s, t) \in Seq(TupleSet)
    OBVIOUS
  <2> QED
    BY <2>1, <2>2
<1>6. PICK r \in Job : /\ job' = [job EXCEPT ![m] = r]
                       /\ r.at = job[m].at /\ r.removals = q
                       /\ r.iterator = heap[job[m].iterator].next /\ r.front = job[m].front
  <2>1. job' = [job EXCEPT ![m].removals = q, ![m].iterator = heap[job[m].iterator].next]
    BY <1>0, <1>5 DEF NoteDead
  <2>2. job' = [job EXCEPT ![m] =
                  [job[m] EXCEPT !.removals = q, !.iterator = heap[job[m].iterator].next]]
    BY <1>0, <2>1
  <2>3. PICK i \in Addrs \cup {NULL} : i = heap[job[m].iterator].next
    BY <1>2
  <2>4. [job[m] EXCEPT !.removals = q, !.iterator = i] \in Job
    BY <1>3 DEF Job
  <2> QED
    BY <1>3, <2>2, <2>3, <2>4 DEF Job
<1>7. /\ job' \in [Broadcasts -> Job] /\ job'[m] = r
      /\ \A k \in Broadcasts : k # m => job'[k] = job[k]
  BY <1>0, <1>6, JobUpdate
<1> QED
  BY <1>0, <1>1, <1>4, <1>5, <1>6, <1>7 DEF Local

LEMMA ScanSendStep ==
  ASSUME IInv, NEW m \in Broadcasts, scanSend(m)
  PROVE  /\ Local(m) /\ UNCHANGED lists
         /\ pc[Post(m)] = "send" /\ pc'[Post(m)] = "check" /\ lock' = lock
         /\ job'[m].at = job[m].at /\ job'[m].front = job[m].front
         /\ job[m].iterator # NULL
         /\ job'[m].iterator = heap[job[m].iterator].next
         /\ job'[m].removals = job[m].removals
<1>0. /\ job \in [Broadcasts -> Job] /\ pc \in [Handlers -> Steps]
      /\ lock \in [Bucket -> Broadcasts \cup {NULL}]
  BY TypeFacts DEF IInv
<1>1. /\ pc[Post(m)] = "send" /\ pc'[Post(m)] = "check" /\ pc' \in [Handlers -> Steps]
      /\ \A k \in Broadcasts : k # m => pc'[Post(k)] = pc[Post(k)]
      /\ \A c \in Clients : pc'[Sse(c)] = pc[Sse(c)]
  <2>1. pc[Post(m)] = "send" /\ goto(Post(m), "check") /\ "check" \in Steps
    BY DEF scanSend, step, Steps
  <2> QED
    BY <1>0, <2>1, PostStep
<1>2. job[m].iterator # NULL
  BY <1>1 DEF IInv, IteratorsOK, IteratorOK
<1>3. heap[job[m].iterator].next \in Addrs \cup {NULL}
  BY <1>1, <1>2, IteratorFacts DEF Scanning
<1>4. job[m] \in Job
  BY <1>0, JobFields
<1>5. PICK r \in Job : /\ job' = [job EXCEPT ![m] = r]
                       /\ r.at = job[m].at /\ r.removals = job[m].removals
                       /\ r.iterator = heap[job[m].iterator].next /\ r.front = job[m].front
  <2>1. PICK i \in Addrs \cup {NULL} : i = heap[job[m].iterator].next
    BY <1>3
  <2>2. job' = [job EXCEPT ![m].iterator = i]
    BY <2>1 DEF scanSend
  <2>3. job' = [job EXCEPT ![m] = [job[m] EXCEPT !.iterator = i]]
    BY <1>0, <2>2
  <2>4. [job[m] EXCEPT !.iterator = i] \in Job
    BY <1>4 DEF Job
  <2> QED
    BY <1>4, <2>1, <2>3, <2>4 DEF Job
<1>6. /\ job' \in [Broadcasts -> Job] /\ job'[m] = r
      /\ \A k \in Broadcasts : k # m => job'[k] = job[k]
  BY <1>0, <1>5, JobUpdate
<1>7. UNCHANGED lists /\ lock' = lock
  BY DEF scanSend
<1> QED
  BY <1>0, <1>1, <1>2, <1>5, <1>6, <1>7 DEF Local

\* The scan moves on to the next bucket, or to the removals.
LEMMA ScanUnlockStep ==
  ASSUME IInv, NEW m \in Broadcasts, scanUnlock(m)
  PROVE  /\ Local(m) /\ UNCHANGED lists
         /\ pc[Post(m)] = "check" /\ pc'[Post(m)] \in {"scan", "clean"}
         /\ job[m].iterator = NULL /\ job'[m].removals = job[m].removals
<1>0. /\ job \in [Broadcasts -> Job] /\ pc \in [Handlers -> Steps]
      /\ lock \in [Bucket -> Broadcasts \cup {NULL}]
  BY TypeFacts DEF IInv
<1>1. PICK to \in {"scan", "clean"} :
        /\ step(Post(m), "check", to) /\ job[m].iterator = NULL /\ release(job[m].at)
        /\ \/ to = "scan" /\ job[m].at < Buckets
              /\ job' = [job EXCEPT ![m].at = job[m].at + 1, ![m].front = NULL]
           \/ to = "clean" /\ job' = [job EXCEPT ![m].front = NULL]
        /\ UNCHANGED lists
  BY DEF scanUnlock
<1>2. /\ pc[Post(m)] = "check" /\ pc'[Post(m)] = to /\ pc' \in [Handlers -> Steps]
      /\ \A k \in Broadcasts : k # m => pc'[Post(k)] = pc[Post(k)]
      /\ \A c \in Clients : pc'[Sse(c)] = pc[Sse(c)]
  <2>1. pc[Post(m)] = "check" /\ goto(Post(m), to) /\ to \in Steps
    BY <1>1 DEF step, Steps
  <2> QED
    BY <1>0, <2>1, PostStep
<1>3. job[m] \in Job /\ job[m].at \in Bucket
  BY <1>0, JobFields
<1>4. PICK r \in Job : job' = [job EXCEPT ![m] = r] /\ r.removals = job[m].removals
  <2>1. CASE to = "scan"
    <3>1. PICK b \in Bucket : b = job[m].at + 1
      BY <1>1, <1>3, <2>1, CppAssumption DEF Bucket
    <3>2. job' = [job EXCEPT ![m].at = b, ![m].front = NULL]
      BY <1>1, <2>1, <3>1
    <3>3. job' = [job EXCEPT ![m] = [job[m] EXCEPT !.at = b, !.front = NULL]]
      BY <1>0, <3>2
    <3>4. [job[m] EXCEPT !.at = b, !.front = NULL] \in Job
      BY <1>3 DEF Job
    <3> QED
      BY <1>3, <3>3, <3>4 DEF Job
  <2>2. CASE to = "clean"
    <3>1. job' = [job EXCEPT ![m] = [job[m] EXCEPT !.front = NULL]]
      BY <1>0, <1>1, <2>2
    <3>2. [job[m] EXCEPT !.front = NULL] \in Job
      BY <1>3 DEF Job
    <3> QED
      BY <1>3, <3>1, <3>2 DEF Job
  <2> QED
    BY <2>1, <2>2
<1>5. /\ job' \in [Broadcasts -> Job] /\ job'[m] = r
      /\ \A k \in Broadcasts : k # m => job'[k] = job[k]
  BY <1>0, <1>4, JobUpdate
<1>6. /\ lock' \in [Bucket -> Broadcasts \cup {NULL}]
      /\ \A q \in Bucket, k \in Broadcasts : k # m /\ lock[q] = k => lock'[q] = k
  <2>1. lock[job[m].at] = m
    BY <1>2 DEF IInv, LocksOK, LockOK, Scanning
  <2> QED
    BY <1>0, <1>1, <1>3, <2>1, ReleaseFacts
<1> QED
  BY <1>1, <1>2, <1>4, <1>5, <1>6 DEF Local

LEMMA MoveIterator ==
  ASSUME IInv, NEW m \in Broadcasts, NEW i \in Addrs \cup {NULL},
         job' = [job EXCEPT ![m].iterator = i]
  PROVE  /\ job' \in [Broadcasts -> Job] /\ job'[m].iterator = i
         /\ job'[m].at = job[m].at /\ job'[m].removals = job[m].removals
         /\ job'[m].front = job[m].front
         /\ \A k \in Broadcasts : k # m => job'[k] = job[k]
<1>0. job \in [Broadcasts -> Job]
  BY TypeFacts DEF IInv
<1>1. job[m] \in Job
  BY <1>0
<1>2. PICK r \in Job : /\ job' = [job EXCEPT ![m] = r]
                       /\ r.at = job[m].at /\ r.removals = job[m].removals
                       /\ r.iterator = i /\ r.front = job[m].front
  <2>1. job' = [job EXCEPT ![m] = [job[m] EXCEPT !.iterator = i]]
    BY <1>0
  <2>2. [job[m] EXCEPT !.iterator = i] \in Job
    BY <1>1 DEF Job
  <2> QED
    BY <1>1, <2>1, <2>2 DEF Job
<1> QED
  BY <1>0, <1>2, JobUpdate

LEMMA RemoveLockStep ==
  ASSUME IInv, NEW m \in Broadcasts, removeLock(m)
  PROVE  /\ Local(m) /\ UNCHANGED lists
         /\ pc[Post(m)] = "clean" /\ pc'[Post(m)] = "remove"
         /\ job[m].removals # <<>> /\ Target(m).bucket \in Bucket
         /\ job'[m].at = job[m].at /\ job'[m].removals = job[m].removals
         /\ job'[m].iterator = head[Target(m).bucket]
         /\ lock'[Target(m).bucket] = m
<1>0. /\ job \in [Broadcasts -> Job] /\ pc \in [Handlers -> Steps] /\ head \in Heads
      /\ lock \in [Bucket -> Broadcasts \cup {NULL}]
  BY TypeFacts DEF IInv
<1>1. /\ job[m].removals # <<>> /\ take(m, Target(m).bucket) /\ UNCHANGED lists
      /\ job' = [job EXCEPT ![m].iterator = head[Target(m).bucket]]
  BY DEF removeLock
<1>2. Target(m).bucket \in Bucket /\ head[Target(m).bucket] \in Addrs \cup {NULL}
  BY <1>0, <1>1, TargetFields DEF Heads
<1>3. /\ pc[Post(m)] = "clean" /\ pc'[Post(m)] = "remove" /\ pc' \in [Handlers -> Steps]
      /\ \A k \in Broadcasts : k # m => pc'[Post(k)] = pc[Post(k)]
      /\ \A c \in Clients : pc'[Sse(c)] = pc[Sse(c)]
  <2>1. pc[Post(m)] = "clean" /\ goto(Post(m), "remove") /\ "remove" \in Steps
    BY DEF removeLock, step, Steps
  <2> QED
    BY <1>0, <2>1, PostStep
<1>4. /\ job' \in [Broadcasts -> Job] /\ job'[m].iterator = head[Target(m).bucket]
      /\ job'[m].at = job[m].at /\ job'[m].removals = job[m].removals
      /\ \A k \in Broadcasts : k # m => job'[k] = job[k]
  <2>1. PICK i \in Addrs \cup {NULL} : i = head[Target(m).bucket]
    BY <1>2
  <2>2. job' = [job EXCEPT ![m].iterator = i]
    BY <1>1, <2>1
  <2> QED
    BY <2>1, <2>2, MoveIterator
<1>5. /\ lock' \in [Bucket -> Broadcasts \cup {NULL}] /\ lock'[Target(m).bucket] = m
      /\ \A q \in Bucket, k \in Broadcasts : k # m /\ lock[q] = k => lock'[q] = k
  BY <1>0, <1>1, <1>2, TakeFacts
<1> QED
  BY <1>1, <1>2, <1>3, <1>4, <1>5 DEF Local

\* remove begins its walk, or goes on with it: at the head, or one node further.
WalkFrom(m, from, i) ==
  /\ step(Post(m), from, "walk")
  /\ job' = [job EXCEPT ![m].iterator = i]
  /\ UNCHANGED <<lists, lock>>

LEMMA WalkStep ==
  ASSUME IInv, NEW m \in Broadcasts, NEW from \in Searching,
         NEW i \in Addrs \cup {NULL}, WalkFrom(m, from, i)
  PROVE  /\ Local(m) /\ UNCHANGED lists /\ lock' = lock
         /\ pc[Post(m)] = from /\ pc'[Post(m)] = "walk"
         /\ job'[m].at = job[m].at /\ job'[m].removals = job[m].removals
         /\ job'[m].iterator = i
<1>0. /\ pc \in [Handlers -> Steps] /\ lock \in [Bucket -> Broadcasts \cup {NULL}]
  BY TypeFacts DEF IInv
<1>1. /\ pc[Post(m)] = from /\ pc'[Post(m)] = "walk" /\ pc' \in [Handlers -> Steps]
      /\ \A k \in Broadcasts : k # m => pc'[Post(k)] = pc[Post(k)]
      /\ \A c \in Clients : pc'[Sse(c)] = pc[Sse(c)]
  <2>1. pc[Post(m)] = from /\ goto(Post(m), "walk") /\ "walk" \in Steps
    BY DEF WalkFrom, step, Steps
  <2> QED
    BY <1>0, <2>1, PostStep
<1>2. job' = [job EXCEPT ![m].iterator = i] /\ UNCHANGED lists /\ lock' = lock
  BY DEF WalkFrom
<1>3. /\ job' \in [Broadcasts -> Job] /\ job'[m].iterator = i
      /\ job'[m].at = job[m].at /\ job'[m].removals = job[m].removals
      /\ \A k \in Broadcasts : k # m => job'[k] = job[k]
  BY <1>2, MoveIterator
<1> QED
  BY <1>0, <1>1, <1>2, <1>3 DEF Local

LEMMA RemoveUnlockStep ==
  ASSUME IInv, NEW m \in Broadcasts, removeUnlock(m)
  PROVE  /\ Local(m) /\ UNCHANGED lists
         /\ pc[Post(m)] = "removed" /\ pc'[Post(m)] = "clean"
         /\ job[m].removals # <<>> /\ job'[m].removals = Tail(job[m].removals)
<1>0. /\ job \in [Broadcasts -> Job] /\ pc \in [Handlers -> Steps]
      /\ lock \in [Bucket -> Broadcasts \cup {NULL}]
  BY TypeFacts DEF IInv
<1>1. /\ pc[Post(m)] = "removed" /\ pc'[Post(m)] = "clean" /\ pc' \in [Handlers -> Steps]
      /\ \A k \in Broadcasts : k # m => pc'[Post(k)] = pc[Post(k)]
      /\ \A c \in Clients : pc'[Sse(c)] = pc[Sse(c)]
  <2>1. pc[Post(m)] = "removed" /\ goto(Post(m), "clean") /\ "clean" \in Steps
    BY DEF removeUnlock, step, Steps
  <2> QED
    BY <1>0, <2>1, PostStep
<1>2. job[m].removals # <<>> /\ lock[Target(m).bucket] = m
  BY <1>1 DEF IInv, LocksOK, LockOK, Removing
<1>3. job[m] \in Job /\ job[m].removals \in Seq(TupleSet) /\ Target(m).bucket \in Bucket
  BY <1>0, <1>2, JobFields, TargetFields
<1>4. release(Target(m).bucket) /\ UNCHANGED lists
  BY DEF removeUnlock
<1>5. /\ lock' \in [Bucket -> Broadcasts \cup {NULL}]
      /\ \A q \in Bucket, k \in Broadcasts : k # m /\ lock[q] = k => lock'[q] = k
  BY <1>0, <1>2, <1>3, <1>4, ReleaseFacts
<1>6. PICK r \in Job : /\ job' = [job EXCEPT ![m] = r]
                       /\ r.removals = Tail(job[m].removals)
  <2>1. Tail(job[m].removals) \in Seq(TupleSet)
    <3>1. PICK s \in Seq(TupleSet) : s = job[m].removals /\ s # <<>>
      BY <1>2, <1>3
    <3>2. Tail(s) \in Seq(TupleSet)
      BY <3>1
    <3> QED
      BY <3>1, <3>2
  <2>2. PICK q \in Seq(TupleSet) : q = Tail(job[m].removals)
    BY <2>1
  <2>3. job' = [job EXCEPT ![m].removals = q, ![m].iterator = NULL]
    BY <1>0, <2>2 DEF removeUnlock
  <2>4. job' = [job EXCEPT ![m] = [job[m] EXCEPT !.removals = q, !.iterator = NULL]]
    BY <1>0, <2>3
  <2>5. [job[m] EXCEPT !.removals = q, !.iterator = NULL] \in Job
    BY <1>3 DEF Job
  <2> QED
    BY <1>3, <2>2, <2>4, <2>5 DEF Job
<1>7. /\ job' \in [Broadcasts -> Job] /\ job'[m] = r
      /\ \A k \in Broadcasts : k # m => job'[k] = job[k]
  BY <1>0, <1>6, JobUpdate
<1> QED
  BY <1>1, <1>2, <1>4, <1>5, <1>6, <1>7 DEF Local

\* A step that only goes on
LEMMA PlainStep ==
  ASSUME IInv, NEW m \in Broadcasts, NEW from, NEW to \in Steps,
         step(Post(m), from, to), UNCHANGED <<lock, job>>
  PROVE  /\ Local(m) /\ pc[Post(m)] = from /\ pc'[Post(m)] = to
         /\ job'[m] = job[m] /\ lock' = lock
<1>0. /\ job \in [Broadcasts -> Job] /\ pc \in [Handlers -> Steps]
      /\ lock \in [Bucket -> Broadcasts \cup {NULL}]
  BY TypeFacts DEF IInv
<1>1. pc[Post(m)] = from /\ goto(Post(m), to)
  BY DEF step
<1>2. /\ pc'[Post(m)] = to /\ pc' \in [Handlers -> Steps]
      /\ \A k \in Broadcasts : k # m => pc'[Post(k)] = pc[Post(k)]
      /\ \A c \in Clients : pc'[Sse(c)] = pc[Sse(c)]
  BY <1>0, <1>1, PostStep
<1> QED
  BY <1>0, <1>1, <1>2 DEF Local

----------------------------------------------------------------------------
(* The lists stay sound                                                    *)

\* A broadcast that does not move keeps its mutex and its place, as long as the
\* nodes of the buckets it holds stay.
LEMMA StaysOK ==
  ASSUME IInv, NEW k \in Broadcasts, job'[k] = job[k], pc'[Post(k)] = pc[Post(k)],
         \A b \in Bucket : lock[b] = k => lock'[b] = k /\ Kept(b)
  PROVE  LockOK(k)' /\ IteratorOK(k)'
<1>0. job \in [Broadcasts -> Job]
  BY TypeFacts DEF IInv
<1>1. job[k].at \in Bucket
  BY <1>0, JobFields
<1>2. Target(k)' = Target(k)
  BY DEF Target
<1>3. job[k].removals # <<>> => Target(k).bucket \in Bucket
  BY <1>0, TargetFields
<1>4. LockOK(k) /\ IteratorOK(k)
  BY DEF IInv, LocksOK, IteratorsOK
<1>5. LockOK(k)'
  BY <1>1, <1>2, <1>3, <1>4 DEF LockOK
<1>6. PICK b \in Bucket : b = job[k].at
  BY <1>1
<1>7. pc[Post(k)] \in Scanning => job[k].iterator \in InBucket(b)' \cup {NULL}
  <2> SUFFICES ASSUME pc[Post(k)] \in Scanning
               PROVE  job[k].iterator \in InBucket(b)' \cup {NULL}
    OBVIOUS
  <2>1. Kept(b) /\ job[k].iterator \in InBucket(b) \cup {NULL}
    BY <1>4, <1>6 DEF LockOK, IteratorOK
  <2> QED
    BY <2>1 DEF Kept
<1>8. pc[Post(k)] \in Searching => job[k].iterator \in InBucket(Target(k).bucket)' \cup {NULL}
  <2> SUFFICES ASSUME pc[Post(k)] \in Searching
               PROVE  job[k].iterator \in InBucket(Target(k).bucket)' \cup {NULL}
    OBVIOUS
  <2>1. job[k].removals # <<>> /\ lock[Target(k).bucket] = k
    BY <1>4 DEF LockOK, Searching, Removing
  <2>2. PICK q \in Bucket : q = Target(k).bucket
    BY <1>3, <2>1
  <2>3. Kept(q) /\ job[k].iterator \in InBucket(q) \cup {NULL}
    BY <1>4, <2>1, <2>2 DEF IteratorOK
  <2>4. job[k].iterator \in InBucket(q)' \cup {NULL}
    BY <2>3 DEF Kept
  <2> QED
    BY <1>2, <2>2, <2>4
<1>9. pc[Post(k)] = "send" => job[k].iterator # NULL
  BY <1>4 DEF IteratorOK
<1>10. IteratorOK(k)'
  BY <1>6, <1>7, <1>8, <1>9 DEF IteratorOK
<1> QED
  BY <1>5, <1>10

\* The variables that the lists do not depend on keep their types.
DataOK ==
  /\ count \in Int /\ raced \in BOOLEAN /\ reg \in [Handlers -> Int]
  /\ peer \in [Clients -> {"open", "gone", "failing", "dead"}]
  /\ stream \in [Clients -> Seq(Broadcasts)]

LEMMA PostInv ==
  ASSUME IInv, NEW m \in Broadcasts, Local(m), DataOK',
         head' \in Heads, heap' \in Heaps, NodesOK', ListsOK',
         \A q \in Bucket : Kept(q) \/ lock[q] = m,
         pc'[Post(m)] \in PostSteps, LockOK(m)', IteratorOK(m)'
  PROVE  IInv'
<1>1. TypeOK'
  BY DEF TypeOK, DataOK, Local, Heads, Heaps, Steps, Job, TupleSet
<1>2. StepsOK'
  BY DEF IInv, StepsOK, Local
<1>3. \A k \in Broadcasts : k # m => LockOK(k)' /\ IteratorOK(k)'
  <2> SUFFICES ASSUME NEW k \in Broadcasts, k # m PROVE LockOK(k)' /\ IteratorOK(k)'
    OBVIOUS
  <2>1. job'[k] = job[k] /\ pc'[Post(k)] = pc[Post(k)]
    BY DEF Local
  <2>2. \A b \in Bucket : lock[b] = k => lock'[b] = k /\ Kept(b)
    BY DEF Local
  <2> QED
    BY <2>1, <2>2, StaysOK
<1>4. LocksOK' /\ IteratorsOK'
  BY <1>3 DEF LocksOK, IteratorsOK
<1> QED
  BY <1>1, <1>2, <1>4 DEF IInv

LEMMA PostFrame ==
  ASSUME IInv, NEW m \in Broadcasts, Local(m), UNCHANGED lists, DataOK',
         pc'[Post(m)] \in PostSteps, LockOK(m)', IteratorOK(m)'
  PROVE  IInv'
<1>1. head' \in Heads /\ heap' \in Heaps
  BY TypeFacts DEF IInv, lists
<1>2. \A c \in Clients : /\ pc'[Sse(c)] = "cas" <=> pc[Sse(c)] = "cas"
                         /\ pc'[Sse(c)] = "idle" => pc[Sse(c)] = "idle"
  BY DEF Local
<1>3. NodesOK' /\ ListsOK' /\ \A q \in Bucket : Kept(q)
  BY <1>2, ListsFrame
<1> QED
  BY <1>1, <1>3, PostInv

\* A response leaves the broadcasts alone.
LEMMA SseInv ==
  ASSUME IInv, UNCHANGED <<lock, job>>, DataOK',
         head' \in Heads, heap' \in Heaps, NodesOK', ListsOK',
         \A q \in Bucket : Kept(q),
         pc' \in [Handlers -> Steps],
         \A m \in Broadcasts : pc'[Post(m)] = pc[Post(m)],
         \A c \in Clients : pc'[Sse(c)] \in SseSteps
  PROVE  IInv'
<1>1. job \in [Broadcasts -> Job] /\ lock \in [Bucket -> Broadcasts \cup {NULL}]
  BY TypeFacts DEF IInv
<1>2. TypeOK'
  BY <1>1 DEF TypeOK, DataOK, Heads, Heaps, Steps, Job, TupleSet
<1>3. StepsOK'
  BY DEF IInv, StepsOK
<1>4. LocksOK' /\ IteratorsOK'
  BY StaysOK DEF LocksOK, IteratorsOK
<1> QED
  BY <1>2, <1>3, <1>4 DEF IInv

\* A node of a bucket leads to a node of it, and its head is one.
LEMMA BucketNodes ==
  ASSUME IInv, NEW b \in Bucket
  PROVE  /\ head[b] \in InBucket(b) \cup {NULL}
         /\ \A a \in InBucket(b) : heap[a].next \in InBucket(b) \cup {NULL}
BY DEF IInv, ListsOK, Lists, InBucket

LEMMA CountData ==
  ASSUME DataOK, NEW h \in Handlers,
         \/ loadCount(h)
         \/ storeCount(h, 1)
         \/ storeCount(h, -1)
  PROVE  /\ count' \in Int /\ raced' \in BOOLEAN /\ reg' \in [Handlers -> Int]
<1>1. CASE loadCount(h)
  BY <1>1 DEF DataOK, loadCount
<1>2. ASSUME NEW delta \in {1, -1}, storeCount(h, delta)
      PROVE  count' \in Int /\ raced' = raced /\ reg' = reg
  BY <1>2 DEF DataOK, storeCount
<1> QED
  BY <1>1, <1>2 DEF DataOK

LEMMA CounterKept ==
  ASSUME DataOK, UNCHANGED counter
  PROVE  count' \in Int /\ raced' \in BOOLEAN /\ reg' \in [Handlers -> Int]
BY DEF DataOK, counter

LEMMA ClientsKept ==
  ASSUME DataOK, UNCHANGED clients
  PROVE  /\ peer' \in [Clients -> {"open", "gone", "failing", "dead"}]
         /\ stream' \in [Clients -> Seq(Broadcasts)]
BY DEF DataOK, clients

LEMMA SendData ==
  ASSUME IInv, NEW m \in Broadcasts, scanSend(m)
  PROVE  /\ peer' \in [Clients -> {"open", "gone", "failing", "dead"}]
         /\ stream' \in [Clients -> Seq(Broadcasts)]
<1>0. /\ peer \in [Clients -> {"open", "gone", "failing", "dead"}]
      /\ stream \in [Clients -> Seq(Broadcasts)]
  BY TypeFacts DEF IInv
<1>1. job[m].iterator # NULL /\ pc[Post(m)] \in Scanning
  BY DEF IInv, IteratorsOK, IteratorOK, scanSend, step, Scanning
<1>2. PICK c \in Clients : c = heap[job[m].iterator].client
  BY <1>1, IteratorFacts
<1>3. \/ /\ stream' = [stream EXCEPT ![c] = Append(@, m)]
         /\ peer' = [peer EXCEPT ![c] = "failing"] \/ peer' = peer
      \/ peer' = peer /\ stream' = stream
  BY <1>2 DEF scanSend, clients
<1>4. stream[c] \in Seq(Broadcasts) /\ Append(stream[c], m) \in Seq(Broadcasts)
  BY <1>0
<1> QED
  BY <1>0, <1>3, <1>4

LEMMA InitInv ==
  ASSUME Init
  PROVE  IInv
<1>1. 1 \in Bucket
  BY CppAssumption DEF Bucket
<1>2. /\ head = [b \in Bucket |-> NULL] /\ lock = [b \in Bucket |-> NULL]
      /\ heap = [a \in Addrs |-> NULL] /\ count = 0
      /\ pc = [h \in Handlers |-> "idle"] /\ reg = [h \in Handlers |-> 0]
      /\ job = [m \in Broadcasts |->
              [at |-> 1, iterator |-> NULL, removals |-> <<>>, front |-> NULL]]
      /\ peer = [c \in Clients |-> "open"] /\ stream = [c \in Clients |-> <<>>]
      /\ raced = FALSE
  BY DEF Init
<1>3. job \in [Broadcasts -> Job]
  <2>1. <<>> \in Seq(TupleSet)
    OBVIOUS
  <2> QED
    BY <1>1, <1>2, <2>1 DEF Job
<1>4. pc \in [Handlers -> Steps] /\ reg \in [Handlers -> Int]
  BY <1>2 DEF Steps
<1>5. stream \in [Clients -> Seq(Broadcasts)]
  <2>1. <<>> \in Seq(Broadcasts)
    OBVIOUS
  <2> QED
    BY <1>2, <2>1
<1>6. TypeOK
  <2>1. /\ head \in [Bucket -> Addrs \cup {NULL}] /\ lock \in [Bucket -> Broadcasts \cup {NULL}]
        /\ heap \in [Addrs -> Node \cup {NULL}]
    BY <1>2, Zenon
  <2>2. count \in Int /\ peer \in [Clients -> {"open", "gone", "failing", "dead"}]
    BY <1>2
  <2>3. raced \in BOOLEAN
    BY <1>2, Zenon
  <2> QED
    BY <2>1, <2>2, <2>3, <1>3, <1>4, <1>5 DEF TypeOK, Job, TupleSet, Steps
<1>7. Listed = {}
  BY <1>2 DEF Listed
<1>8. /\ \A m \in Broadcasts : pc[Post(m)] = "idle"
      /\ \A c \in Clients : pc[Sse(c)] = "idle"
  BY <1>2, HandlerNames
<1>9. StepsOK /\ NodesOK
  BY <1>2, <1>8 DEF StepsOK, NodesOK, SseSteps, PostSteps
<1>10. LocksOK /\ IteratorsOK
  BY <1>8 DEF LocksOK, LockOK, IteratorsOK, IteratorOK, Scanning, Removing, Searching
<1>11. ListsOK
  <2>1. [a \in Addrs |-> 0] \in [Addrs -> Int]
    OBVIOUS
  <2> QED
    BY <1>2, <1>7, <2>1 DEF ListsOK, Lists
<1> QED
  BY <1>6, <1>9, <1>10, <1>11 DEF IInv

\* The steps of the responses
LEMMA ResponseInv ==
  ASSUME IInv, NEW c \in Clients,
         \/ \E b \in Bucket, a \in Addrs : sseOpened(c, b, a)
         \/ \E a \in Addrs : heap[a] # NULL /\ pushNode(c, a)
         \/ countClient(c)
         \/ peerCloses(c)
         \/ writeFails(c)
  PROVE  IInv'
<1>0. /\ head \in Heads /\ heap \in Heaps /\ pc \in [Handlers -> Steps]
      /\ DataOK /\ Sse(c) \in Handlers
      /\ peer \in [Clients -> {"open", "gone", "failing", "dead"}]
  BY TypeFacts, HandlerNames DEF IInv, DataOK
<1>1. \A d \in Clients : pc[Sse(d)] \in SseSteps
  BY DEF IInv, StepsOK
<1>2. ASSUME NEW b \in Bucket, NEW a \in Addrs, sseOpened(c, b, a)
      PROVE  IInv'
  <2>1. NodesOK' /\ ListsOK' /\ (\A q \in Bucket : Kept(q)) /\ heap' \in Heaps /\ head' = head
    BY <1>2, OpenLists
  <2>2. /\ UNCHANGED <<lock, job, counter, clients>>
        /\ goto(Sse(c), "cas") /\ "cas" \in Steps /\ "cas" \in SseSteps
    BY <1>2 DEF sseOpened, step, Steps, SseSteps
  <2>3. /\ pc'[Sse(c)] = "cas" /\ pc' \in [Handlers -> Steps]
        /\ \A m \in Broadcasts : pc'[Post(m)] = pc[Post(m)]
        /\ \A d \in Clients : d # c => pc'[Sse(d)] = pc[Sse(d)]
    BY <1>0, <2>2, SseStep
  <2>4. DataOK'
    BY <1>0, <2>2, CounterKept, ClientsKept DEF DataOK
  <2>5. \A d \in Clients : pc'[Sse(d)] \in SseSteps
    BY <1>1, <2>2, <2>3
  <2> QED
    BY <1>0, <2>1, <2>2, <2>3, <2>4, <2>5, SseInv
<1>3. ASSUME NEW a \in Addrs, heap[a] # NULL, pushNode(c, a)
      PROVE  IInv'
  <2>1. UNCHANGED <<lock, job, counter, clients>> /\ (LinkNode(c, a) \/ RetryPush(c, a))
    BY <1>3 DEF pushNode, LinkNode, RetryPush
  <2>2. DataOK'
    BY <1>0, <2>1, CounterKept, ClientsKept DEF DataOK
  <2>3. CASE LinkNode(c, a)
    <3>1. NodesOK' /\ ListsOK' /\ (\A q \in Bucket : Kept(q)) /\ heap' = heap /\ head' \in Heads
      BY <1>3, <2>3, LinkLists
    <3>2. goto(Sse(c), "incLoad") /\ "incLoad" \in Steps /\ "incLoad" \in SseSteps
      BY <2>3 DEF LinkNode, Steps, SseSteps
    <3>3. /\ pc'[Sse(c)] = "incLoad" /\ pc' \in [Handlers -> Steps]
          /\ \A m \in Broadcasts : pc'[Post(m)] = pc[Post(m)]
          /\ \A d \in Clients : d # c => pc'[Sse(d)] = pc[Sse(d)]
      BY <1>0, <3>2, SseStep
    <3>4. \A d \in Clients : pc'[Sse(d)] \in SseSteps
      BY <1>1, <3>2, <3>3
    <3> QED
      BY <1>0, <2>1, <2>2, <3>1, <3>3, <3>4, SseInv
  <2>4. CASE RetryPush(c, a)
    <3>1. NodesOK' /\ ListsOK' /\ (\A q \in Bucket : Kept(q)) /\ heap' \in Heaps
      BY <1>3, <2>4, RetryLists
    <3>2. pc' = pc /\ head' = head
      BY <2>4 DEF RetryPush
    <3> QED
      BY <1>0, <1>1, <2>1, <2>2, <3>1, <3>2, SseInv
  <2> QED
    BY <2>1, <2>3, <2>4
<1>4. ASSUME countClient(c)
      PROVE  IInv'
  <2>1. PICK to \in {"incStore", "done"} :
          /\ goto(Sse(c), to) /\ pc[Sse(c)] \in {"incLoad", "incStore"}
          /\ loadCount(Sse(c)) \/ storeCount(Sse(c), 1)
          /\ UNCHANGED <<lists, lock, job, clients>>
    BY <1>4 DEF countClient, step
  <2>2. to \in Steps /\ to \in SseSteps
    BY DEF Steps, SseSteps
  <2>3. /\ pc'[Sse(c)] = to /\ pc' \in [Handlers -> Steps]
        /\ \A m \in Broadcasts : pc'[Post(m)] = pc[Post(m)]
        /\ \A d \in Clients : d # c => pc'[Sse(d)] = pc[Sse(d)]
    BY <1>0, <2>1, <2>2, SseStep
  <2>4. DataOK'
    BY <1>0, <2>1, CountData, ClientsKept DEF DataOK
  <2>5. /\ \A d \in Clients : pc'[Sse(d)] \in SseSteps
        /\ \A d \in Clients : /\ pc'[Sse(d)] = "cas" <=> pc[Sse(d)] = "cas"
                              /\ pc'[Sse(d)] = "idle" => pc[Sse(d)] = "idle"
    BY <1>1, <2>1, <2>2, <2>3
  <2>6. NodesOK' /\ ListsOK' /\ \A q \in Bucket : Kept(q)
    BY <2>1, <2>5, ListsFrame
  <2> QED
    BY <1>0, <2>1, <2>3, <2>4, <2>5, <2>6, SseInv DEF lists
<1>5. ASSUME peerCloses(c) \/ writeFails(c)
      PROVE  IInv'
  <2>1. /\ UNCHANGED <<lists, lock, job, counter, pc, stream>>
        /\ \E to \in {"gone", "failing", "dead"} : peer' = [peer EXCEPT ![c] = to]
    BY <1>5 DEF peerCloses, writeFails
  <2>2. peer' \in [Clients -> {"open", "gone", "failing", "dead"}]
    BY <1>0, <2>1
  <2>3. DataOK'
    BY <1>0, <2>1, <2>2, CounterKept DEF DataOK
  <2>4. NodesOK' /\ ListsOK' /\ \A q \in Bucket : Kept(q)
    BY <2>1, ListsFrame
  <2> QED
    BY <1>0, <1>1, <2>1, <2>3, <2>4, SseInv DEF lists
<1> QED
  BY <1>2, <1>3, <1>4, <1>5

\* The steps of a broadcast
LEMMA BroadcastInv ==
  ASSUME IInv, NEW m \in Broadcasts, broadcastStarts(m) \/ broadcast(m)
  PROVE  IInv'
<1>0. /\ head \in Heads /\ heap \in Heaps /\ pc \in [Handlers -> Steps] /\ DataOK
      /\ job \in [Broadcasts -> Job] /\ Post(m) \in Handlers
      /\ lock \in [Bucket -> Broadcasts \cup {NULL}]
  BY TypeFacts, HandlerNames DEF IInv, DataOK
<1>1. job[m].at \in Bucket
  BY <1>0, JobFields
<1>2. LockOK(m) /\ IteratorOK(m)
  BY DEF IInv, LocksOK, IteratorsOK
<1>3. ASSUME broadcastStarts(m) PROVE IInv'
  <2>1. /\ step(Post(m), "idle", "scan") /\ "scan" \in Steps
        /\ UNCHANGED <<lists, lock, job, counter, clients>>
    BY <1>3 DEF broadcastStarts, Steps
  <2>2. Local(m) /\ pc'[Post(m)] = "scan"
    BY <2>1, PlainStep
  <2>3. DataOK'
    BY <1>0, <2>1, CounterKept, ClientsKept DEF DataOK
  <2>4. LockOK(m)' /\ IteratorOK(m)' /\ pc'[Post(m)] \in PostSteps
    BY <2>2 DEF LockOK, IteratorOK, Scanning, Removing, Searching, PostSteps
  <2> QED
    BY <2>1, <2>2, <2>3, <2>4, PostFrame
<1>4. ASSUME scanLock(m) PROVE IInv'
  <2>1. /\ Local(m) /\ UNCHANGED lists /\ pc'[Post(m)] = "check"
        /\ lock'[job'[m].at] = m
        /\ job'[m].at = job[m].at /\ job'[m].iterator = head[job[m].at]
    BY <1>4, ScanLockStep
  <2>2. UNCHANGED <<counter, clients>>
    BY <1>4 DEF scanLock
  <2>3. DataOK'
    BY <1>0, <2>2, CounterKept, ClientsKept DEF DataOK
  <2>4. PICK b \in Bucket : b = job[m].at
    BY <1>1
  <2>5. InBucket(b)' = InBucket(b)
    BY <2>1, <1>0, NodeFields DEF Local, InBucket, Listed, lists
  <2>6. IteratorOK(m)'
    <3>1. job'[m].iterator \in InBucket(b)' \cup {NULL}
      BY <2>1, <2>4, <2>5, BucketNodes
    <3> QED
      BY <2>1, <2>4, <3>1 DEF IteratorOK, Searching
  <2>7. LockOK(m)' /\ pc'[Post(m)] \in PostSteps
    BY <2>1 DEF LockOK, Removing, PostSteps, Scanning
  <2> QED
    BY <2>1, <2>3, <2>6, <2>7, PostFrame
<1>5. ASSUME scanCheck(m) PROVE IInv'
  <2>1. /\ job[m].iterator # NULL /\ UNCHANGED <<lists, lock, counter, clients>>
        /\ \/ NoteDead(m)
           \/ step(Post(m), "check", "send") /\ UNCHANGED job
    BY <1>5 DEF scanCheck, NoteDead
  <2>2. DataOK'
    BY <1>0, <2>1, CounterKept, ClientsKept DEF DataOK
  <2>3. CASE NoteDead(m)
    <3>1. /\ Local(m) /\ pc[Post(m)] = "check" /\ pc'[Post(m)] = "check"
          /\ job'[m].at = job[m].at /\ job'[m].iterator = heap[job[m].iterator].next
      BY <2>1, <2>3, NoteDeadStep
    <3>2. PICK b \in Bucket : b = job[m].at
      BY <1>1
    <3>3. InBucket(b)' = InBucket(b)
      BY <2>1, <3>1, <1>0, NodeFields DEF Local, InBucket, Listed, lists
    <3>4. IteratorOK(m)'
      <4>1. job[m].iterator \in InBucket(b)
        BY <2>1, <3>1, <3>2, IteratorFacts DEF Scanning
      <4>2. job'[m].iterator \in InBucket(b)' \cup {NULL}
        BY <3>1, <3>3, <4>1, BucketNodes
      <4> QED
        BY <3>1, <3>2, <4>2 DEF IteratorOK, Searching
    <3>5. LockOK(m)' /\ pc'[Post(m)] \in PostSteps
      BY <1>2, <2>1, <3>1 DEF LockOK, Removing, PostSteps, Scanning
    <3> QED
      BY <2>1, <2>2, <3>1, <3>4, <3>5, PostFrame
  <2>4. CASE step(Post(m), "check", "send") /\ UNCHANGED job
    <3>1. "send" \in Steps /\ step(Post(m), "check", "send") /\ UNCHANGED <<lock, job>>
      BY <2>1, <2>4 DEF Steps
    <3>2. /\ Local(m) /\ pc[Post(m)] = "check" /\ pc'[Post(m)] = "send"
          /\ job'[m] = job[m] /\ lock' = lock
      BY <3>1, PlainStep
    <3>3. PICK b \in Bucket : b = job[m].at
      BY <1>1
    <3>4. InBucket(b)' = InBucket(b)
      BY <2>1, <3>2, <1>0, NodeFields DEF Local, InBucket, Listed, lists
    <3>5. IteratorOK(m)'
      <4>1. job'[m].iterator \in InBucket(b)'
        BY <2>1, <3>2, <3>3, <3>4, IteratorFacts DEF Scanning
      <4> QED
        BY <2>1, <3>2, <3>3, <4>1 DEF IteratorOK, Searching
    <3>6. LockOK(m)' /\ pc'[Post(m)] \in PostSteps
      BY <1>2, <3>2 DEF LockOK, Removing, PostSteps, Scanning
    <3> QED
      BY <2>1, <2>2, <3>2, <3>5, <3>6, PostFrame
  <2> QED
    BY <2>1, <2>3, <2>4
<1>6. ASSUME scanSend(m) PROVE IInv'
  <2>1. /\ Local(m) /\ UNCHANGED lists /\ pc[Post(m)] = "send" /\ pc'[Post(m)] = "check"
        /\ lock' = lock /\ job'[m].at = job[m].at /\ job[m].iterator # NULL
        /\ job'[m].iterator = heap[job[m].iterator].next
    BY <1>6, ScanSendStep
  <2>2. DataOK'
    <3>1. UNCHANGED counter
      BY <1>6 DEF scanSend
    <3> QED
      BY <1>0, <1>6, <3>1, CounterKept, SendData DEF DataOK
  <2>3. PICK b \in Bucket : b = job[m].at
    BY <1>1
  <2>4. InBucket(b)' = InBucket(b)
    BY <2>1, <1>0, NodeFields DEF Local, InBucket, Listed, lists
  <2>5. IteratorOK(m)'
    <3>1. job[m].iterator \in InBucket(b)
      BY <2>1, <2>3, IteratorFacts DEF Scanning
    <3>2. job'[m].iterator \in InBucket(b)' \cup {NULL}
      BY <2>1, <2>4, <3>1, BucketNodes
    <3> QED
      BY <2>1, <2>3, <3>2 DEF IteratorOK, Searching
  <2>6. LockOK(m)' /\ pc'[Post(m)] \in PostSteps
    BY <1>2, <2>1 DEF LockOK, Removing, PostSteps, Scanning
  <2> QED
    BY <2>1, <2>2, <2>5, <2>6, PostFrame
<1>7. ASSUME scanUnlock(m) PROVE IInv'
  <2>1. Local(m) /\ UNCHANGED lists /\ pc'[Post(m)] \in {"scan", "clean"}
    BY <1>7, ScanUnlockStep
  <2>2. UNCHANGED <<counter, clients>>
    BY <1>7 DEF scanUnlock
  <2>3. DataOK'
    BY <1>0, <2>2, CounterKept, ClientsKept DEF DataOK
  <2>4. LockOK(m)' /\ IteratorOK(m)' /\ pc'[Post(m)] \in PostSteps
    BY <2>1 DEF LockOK, IteratorOK, Scanning, Removing, Searching, PostSteps
  <2> QED
    BY <2>1, <2>3, <2>4, PostFrame
<1>8. ASSUME removeLock(m) PROVE IInv'
  <2>1. /\ Local(m) /\ UNCHANGED lists /\ pc'[Post(m)] = "remove"
        /\ job[m].removals # <<>> /\ Target(m).bucket \in Bucket
        /\ job'[m].removals = job[m].removals
        /\ job'[m].iterator = head[Target(m).bucket]
        /\ lock'[Target(m).bucket] = m
    BY <1>8, RemoveLockStep
  <2>2. UNCHANGED <<counter, clients>>
    BY <1>8 DEF removeLock
  <2>3. DataOK'
    BY <1>0, <2>2, CounterKept, ClientsKept DEF DataOK
  <2>4. PICK b \in Bucket : b = Target(m).bucket /\ b = Target(m)'.bucket
    BY <2>1 DEF Target
  <2>5. InBucket(b)' = InBucket(b)
    BY <2>1, <1>0, NodeFields DEF Local, InBucket, Listed, lists
  <2>6. IteratorOK(m)'
    <3>1. job'[m].iterator \in InBucket(b)' \cup {NULL}
      BY <2>1, <2>4, <2>5, BucketNodes
    <3> QED
      BY <2>1, <2>4, <3>1 DEF IteratorOK, Scanning
  <2>7. LockOK(m)' /\ pc'[Post(m)] \in PostSteps
    BY <2>1, <2>4 DEF LockOK, Removing, PostSteps, Scanning
  <2> QED
    BY <2>1, <2>3, <2>6, <2>7, PostFrame
<1>9. ASSUME PopHead(m) \/ Unlink(m), UNCHANGED <<lock, counter, clients>>
      PROVE  IInv'
  <2>1. /\ step(Post(m), pc[Post(m)], "decLoad") /\ UNCHANGED <<lock, job>>
        /\ pc[Post(m)] \in Searching /\ "decLoad" \in Steps
    BY <1>9 DEF PopHead, Unlink, step, Searching, Steps
  <2>2. /\ Local(m) /\ pc'[Post(m)] = "decLoad" /\ job'[m] = job[m] /\ lock' = lock
    BY <2>1, PlainStep
  <2>3. DataOK'
    BY <1>0, <1>9, CounterKept, ClientsKept DEF DataOK
  <2>4. /\ NodesOK' /\ ListsOK' /\ head' \in Heads /\ heap' \in Heaps
        /\ \A q \in Bucket : q # Target(m).bucket => Kept(q)
    <3>1. CASE PopHead(m)
      BY <3>1, PopLists
    <3>2. CASE Unlink(m)
      BY <1>0, <3>2, UnlinkLists DEF Unlink
    <3> QED
      BY <1>9, <3>1, <3>2
  <2>5. job[m].removals # <<>> /\ lock[Target(m).bucket] = m
    BY <2>1, SearchFacts
  <2>6. LockOK(m)' /\ IteratorOK(m)' /\ pc'[Post(m)] \in PostSteps
    BY <2>2, <2>5 DEF LockOK, IteratorOK, Scanning, Removing, Searching, PostSteps, Target
  <2> QED
    BY <2>2, <2>3, <2>4, <2>5, <2>6, PostInv
<1>10. ASSUME NEW from \in Searching, NEW i, WalkFrom(m, from, i), UNCHANGED <<counter, clients>>,
              \/ i = head[Target(m).bucket]
              \/ job[m].iterator # NULL /\ i = heap[job[m].iterator].next
              \/ i = job[m].iterator
       PROVE  IInv'
  <2>1. pc[Post(m)] = from
    BY <1>10 DEF WalkFrom, step
  <2>2. PICK b \in Bucket : b = Target(m).bucket
    BY <2>1, SearchFacts
  <2>3. i \in InBucket(b) \cup {NULL}
    <3>1. job[m].iterator \in InBucket(b) \cup {NULL}
      BY <1>2, <2>1, <2>2 DEF IteratorOK
    <3> QED
      BY <1>10, <2>2, <3>1, BucketNodes
  <2>4. i \in Addrs \cup {NULL}
    BY <2>3 DEF InBucket, Listed
  <2>5. /\ Local(m) /\ UNCHANGED lists /\ lock' = lock /\ pc'[Post(m)] = "walk"
        /\ job'[m].removals = job[m].removals /\ job'[m].iterator = i
    BY <1>10, <2>4, WalkStep
  <2>6. DataOK'
    BY <1>0, <1>10, CounterKept, ClientsKept DEF DataOK
  <2>7. InBucket(b)' = InBucket(b)
    BY <2>5, <1>0, NodeFields DEF Local, InBucket, Listed, lists
  <2>8. Target(m)' = Target(m)
    BY <2>5 DEF Target
  <2>9. IteratorOK(m)'
    BY <2>2, <2>3, <2>5, <2>7, <2>8 DEF IteratorOK, Scanning
  <2>10. job[m].removals # <<>> /\ lock[Target(m).bucket] = m
    BY <2>1, SearchFacts
  <2>11. LockOK(m)' /\ pc'[Post(m)] \in PostSteps
    BY <2>5, <2>8, <2>10 DEF LockOK, Removing, PostSteps, Scanning
  <2> QED
    BY <2>5, <2>6, <2>9, <2>11, PostFrame
<1>11. ASSUME NEW from \in Removing, NEW to \in {"decStore", "removed", "crashed"},
              step(Post(m), from, to), UNCHANGED <<lists, lock, job, clients>>, DataOK'
       PROVE  IInv'
  <2>1. to \in Steps /\ UNCHANGED <<lock, job>>
    BY <1>11 DEF Steps
  <2>2. /\ Local(m) /\ pc[Post(m)] = from /\ pc'[Post(m)] = to
        /\ job'[m] = job[m] /\ lock' = lock
    BY <1>11, <2>1, PlainStep
  <2>3. LockOK(m)' /\ IteratorOK(m)' /\ pc'[Post(m)] \in PostSteps
    BY <1>2, <2>2 DEF LockOK, IteratorOK, Scanning, Removing, Searching, PostSteps, Target
  <2> QED
    BY <1>11, <2>2, <2>3, PostFrame
<1>12. ASSUME removeHead(m) PROVE IInv'
  <2>1. UNCHANGED <<lock, counter, clients>>
    BY <1>12 DEF removeHead
  <2>2. \/ PopHead(m)
        \/ WalkFrom(m, "remove", head[Target(m).bucket])
        \/ step(Post(m), "remove", "walk") /\ UNCHANGED <<job, lists>>
    BY <1>12 DEF removeHead, PopHead, WalkFrom
  <2>3. "remove" \in Searching /\ "walk" \in Steps
    BY DEF Searching, Steps
  <2>4. CASE PopHead(m)
    BY <1>9, <2>1, <2>4
  <2>5. CASE WalkFrom(m, "remove", head[Target(m).bucket])
    BY <1>10, <2>1, <2>3, <2>5
  <2>6. CASE step(Post(m), "remove", "walk") /\ UNCHANGED <<job, lists>>
    <3>1. /\ Local(m) /\ pc[Post(m)] = "remove" /\ pc'[Post(m)] = "walk"
          /\ job'[m] = job[m] /\ lock' = lock
      BY <2>1, <2>3, <2>6, PlainStep
    <3>2. DataOK'
      BY <1>0, <2>1, CounterKept, ClientsKept DEF DataOK
    <3>3. PICK b \in Bucket : b = Target(m).bucket
      BY <2>3, <3>1, SearchFacts
    <3>4. InBucket(b)' = InBucket(b) /\ Target(m)' = Target(m)
      BY <2>6, <3>1, <1>0, NodeFields DEF Local, InBucket, Listed, lists, Target
    <3>5. LockOK(m)' /\ IteratorOK(m)' /\ pc'[Post(m)] \in PostSteps
      BY <1>2, <3>1, <3>3, <3>4
      DEF LockOK, IteratorOK, Scanning, Removing, Searching, PostSteps
    <3> QED
      BY <2>6, <3>1, <3>2, <3>5, PostFrame
  <2> QED
    BY <2>2, <2>4, <2>5, <2>6
<1>13. ASSUME removeOther(m) PROVE IInv'
  <2>1. UNCHANGED <<head, lock, counter, clients>> /\ job[m].iterator # NULL
    BY <1>13 DEF removeOther
  <2>2. \/ Unlink(m)
        \/ WalkFrom(m, "walk", heap[job[m].iterator].next)
        \/ step(Post(m), "walk", "removed") /\ UNCHANGED <<heap, job>>
    BY <1>13 DEF removeOther, Unlink, WalkFrom, lists
  <2>3. "walk" \in Searching /\ "walk" \in Removing
    BY DEF Searching, Removing
  <2>4. CASE Unlink(m)
    BY <1>9, <2>1, <2>4
  <2>5. CASE WalkFrom(m, "walk", heap[job[m].iterator].next)
    BY <1>10, <2>1, <2>3, <2>5
  <2>6. CASE step(Post(m), "walk", "removed") /\ UNCHANGED <<heap, job>>
    <3>1. DataOK'
      BY <1>0, <2>1, CounterKept, ClientsKept DEF DataOK
    <3> QED
      BY <1>11, <2>1, <2>3, <2>6, <3>1 DEF lists
  <2> QED
    BY <2>2, <2>4, <2>5, <2>6
<1>14. ASSUME removeCrashes(m) PROVE IInv'
  <2>1. /\ step(Post(m), "walk", "crashed") /\ UNCHANGED <<lists, lock, job, counter, clients>>
        /\ "walk" \in Removing
    BY <1>14 DEF removeCrashes, Removing
  <2>2. DataOK'
    BY <1>0, <2>1, CounterKept, ClientsKept DEF DataOK
  <2> QED
    BY <1>11, <2>1, <2>2
<1>15. ASSUME uncountClient(m) PROVE IInv'
  <2>1. PICK from \in {"decLoad", "decStore"}, to \in {"decStore", "removed"} :
          /\ step(Post(m), from, to)
          /\ loadCount(Post(m)) \/ storeCount(Post(m), -1)
          /\ UNCHANGED <<lists, lock, job, clients>>
    BY <1>15 DEF uncountClient
  <2>2. from \in Removing
    BY DEF Removing
  <2>3. DataOK'
    BY <1>0, <2>1, CountData, ClientsKept DEF DataOK
  <2> QED
    BY <1>11, <2>1, <2>2, <2>3
<1>16. ASSUME removeUnlock(m) PROVE IInv'
  <2>1. Local(m) /\ UNCHANGED lists /\ pc'[Post(m)] = "clean"
    BY <1>16, RemoveUnlockStep
  <2>2. UNCHANGED <<counter, clients>>
    BY <1>16 DEF removeUnlock
  <2>3. DataOK'
    BY <1>0, <2>2, CounterKept, ClientsKept DEF DataOK
  <2>4. LockOK(m)' /\ IteratorOK(m)' /\ pc'[Post(m)] \in PostSteps
    BY <2>1 DEF LockOK, IteratorOK, Scanning, Removing, Searching, PostSteps
  <2> QED
    BY <2>1, <2>3, <2>4, PostFrame
<1>17. ASSUME broadcastEnds(m) PROVE IInv'
  <2>1. /\ step(Post(m), "clean", "done") /\ "done" \in Steps
        /\ UNCHANGED <<lists, lock, job, counter, clients>>
    BY <1>17 DEF broadcastEnds, Steps
  <2>2. Local(m) /\ pc'[Post(m)] = "done"
    BY <2>1, PlainStep
  <2>3. DataOK'
    BY <1>0, <2>1, CounterKept, ClientsKept DEF DataOK
  <2>4. LockOK(m)' /\ IteratorOK(m)' /\ pc'[Post(m)] \in PostSteps
    BY <2>2 DEF LockOK, IteratorOK, Scanning, Removing, Searching, PostSteps
  <2> QED
    BY <2>1, <2>2, <2>3, <2>4, PostFrame
<1> QED
  BY <1>3, <1>4, <1>5, <1>6, <1>7, <1>8, <1>12, <1>13, <1>14, <1>15, <1>16, <1>17
  DEF broadcast

LEMMA StutterInv ==
  ASSUME IInv, UNCHANGED vars
  PROVE  IInv'
<1>1. /\ UNCHANGED <<lists, lock, job>> /\ pc' = pc
      /\ UNCHANGED <<counter, clients>>
  BY DEF vars, lists, counter, clients
<1>2. DataOK /\ head \in Heads /\ heap \in Heaps /\ pc \in [Handlers -> Steps]
  BY TypeFacts DEF IInv, DataOK
<1>3. DataOK'
  BY <1>1, <1>2, CounterKept, ClientsKept DEF DataOK
<1>4. NodesOK' /\ ListsOK' /\ \A q \in Bucket : Kept(q)
  BY <1>1, ListsFrame
<1>5. \A c \in Clients : pc[Sse(c)] \in SseSteps
  BY DEF IInv, StepsOK
<1> QED
  BY <1>1, <1>2, <1>3, <1>4, <1>5, SseInv DEF lists

LEMMA StepInv ==
  ASSUME IInv, [Next]_vars
  PROVE  IInv'
<1>1. CASE Next
  BY <1>1, ResponseInv, BroadcastInv DEF Next
<1>2. CASE UNCHANGED vars
  BY <1>2, StutterInv
<1> QED
  BY <1>1, <1>2

\* The inductive invariant of the lists.
THEOREM Inductive == Spec => []IInv
<1>1. Init => IInv
  BY InitInv
<1>2. IInv /\ [Next]_vars => IInv'
  BY StepInv
<1> QED
  BY <1>1, <1>2, PTL DEF Spec

\* Every variable keeps its shape, for any threads, buckets, clients and
\* broadcasts: c++/sse_server.cpp and c++/singlylist.hpp.
THEOREM TypeCorrect == Spec => []TypeOK
<1>1. IInv => TypeOK
  BY DEF IInv
<1> QED
  BY <1>1, Inductive, PTL

----------------------------------------------------------------------------
(* What the lists hold                                                     *)

LEMMA WalksAreFrom == \A a : NodesFrom(a) = From(heap, a)
BY DEF NodesFrom, Follows, From

\* A walk from a node of a bucket stays in the bucket.
LEMMA WalkInBucket ==
  ASSUME IInv, NEW b \in Bucket, NEW a \in InBucket(b) \cup {NULL}
  PROVE  NodesFrom(a) \subseteq InBucket(b)
<1>1. PICK S : S = InBucket(b)
  OBVIOUS
<1>2. \A y \in S : heap[y] # NULL /\ heap[y].next # NULL => heap[y].next \in S
  BY <1>1, BucketNodes
<1>3. S \in SUBSET Addrs /\ (a # NULL => a \in S)
  BY <1>1 DEF InBucket, Listed
<1>4. From(heap, a) \subseteq S
  BY <1>2, <1>3, FromClosed
<1> QED
  BY <1>1, <1>4, WalksAreFrom

\* The nodes of a bucket are what a walk from its head meets.
LEMMA NodesAreBucket ==
  ASSUME IInv, NEW b \in Bucket
  PROVE  Nodes(b) = InBucket(b)
<1>1. Nodes(b) \subseteq InBucket(b)
  BY BucketNodes, WalkInBucket DEF Nodes
<1>2. \A a \in InBucket(b) : a \in From(heap, head[b])
  BY DEF IInv, ListsOK, Lists, InBucket
<1> QED
  BY <1>1, <1>2, WalksAreFrom DEF Nodes

LEMMA NodesAreListed ==
  ASSUME IInv
  PROVE  UNION {Nodes(b) : b \in Bucket} = Listed
<1>1. \A b \in Bucket : Nodes(b) = InBucket(b)
  BY NodesAreBucket
<1>2. \A a \in Listed : heap[a].bucket \in Bucket
  BY TypeFacts, NodeFields DEF IInv, Listed
<1> QED
  BY <1>1, <1>2 DEF InBucket

\* A walk does not come back to where it began.
LEMMA NoLoop ==
  ASSUME IInv, NEW a \in Listed
  PROVE  a \notin NodesFrom(heap[a].next)
<1>1. PICK r \in [Addrs -> Int] : \A x \in Listed : heap[x].next # NULL => r[heap[x].next] < r[x]
  BY DEF IInv, ListsOK, Lists
<1>2. a \in Addrs
  BY DEF Listed
<1>3. PICK S : S = {x \in Listed : r[x] < r[a]}
  OBVIOUS
<1>4. S \in SUBSET Addrs /\ a \notin S
  BY <1>1, <1>2, <1>3 DEF Listed
<1>5. \A x \in Listed : heap[x].next # NULL => heap[x].next \in Listed
  BY DEF IInv, ListsOK, Lists
<1>6. heap[a].next # NULL => heap[a].next \in S
  BY <1>1, <1>3, <1>5
<1>7. \A y \in S : heap[y] # NULL /\ heap[y].next # NULL => heap[y].next \in S
  <2> SUFFICES ASSUME NEW y \in S, heap[y].next # NULL PROVE heap[y].next \in S
    OBVIOUS
  <2>1. y \in Listed /\ r[y] < r[a] /\ heap[y].next \in Listed /\ r[heap[y].next] < r[y]
    BY <1>1, <1>3, <1>5
  <2>2. heap[y].next \in Addrs /\ y \in Addrs
    BY <2>1 DEF Listed
  <2>3. r[heap[y].next] \in Int /\ r[y] \in Int /\ r[a] \in Int
    BY <1>1, <1>2, <2>2
  <2>4. r[heap[y].next] < r[a]
    BY <2>1, <2>3
  <2> QED
    BY <1>3, <2>1, <2>4
<1>8. PICK i : i = heap[a].next
  OBVIOUS
<1>9. From(heap, i) \subseteq S
  BY <1>4, <1>6, <1>7, <1>8, FromClosed
<1> QED
  BY <1>4, <1>8, <1>9, WalksAreFrom

\* Pushes without the lock and removals under it never damage a list, and a scan
\* never stands on a freed node, for any number of buckets, clients, broadcasts
\* and threads: c++/singlylist.hpp push and remove, c++/sse_server.cpp broadcast.
THEOREM ListsCorrect == Spec => []ListsSound
<1>1. ASSUME IInv PROVE ListsSound
  <2>1. ASSUME NEW b \in Bucket, NEW a \in Nodes(b)
        PROVE  heap[a] # NULL /\ heap[a].bucket = b /\ a \notin NodesFrom(heap[a].next)
    <3>1. a \in InBucket(b)
      BY <1>1, <2>1, NodesAreBucket
    <3> QED
      BY <1>1, <3>1, NoLoop DEF InBucket, Listed
  <2>2. ASSUME NEW m \in Broadcasts, pc[Post(m)] \in {"check", "send"}
        PROVE  job[m].iterator \in Nodes(job[m].at) \cup {NULL}
    <3>1. job[m].at \in Bucket
      BY <1>1, TypeFacts, JobFields DEF IInv
    <3>2. job[m].iterator \in InBucket(job[m].at) \cup {NULL}
      BY <1>1, <2>2 DEF IInv, IteratorsOK, IteratorOK, Scanning
    <3> QED
      BY <1>1, <3>1, <3>2, NodesAreBucket
  <2> QED
    BY <2>1, <2>2 DEF ListsSound
<1> QED
  BY <1>1, Inductive, PTL

----------------------------------------------------------------------------
(* What overlapping broadcasts can harm                                    *)

\* A node keeps its client and bucket while it is allocated, and the client of
\* a new one has just opened.
LEMMA HeapStep ==
  ASSUME IInv, Next, NEW x \in Addrs, heap'[x] # NULL
  PROVE  \/ /\ heap[x] # NULL
            /\ heap'[x].client = heap[x].client /\ heap'[x].bucket = heap[x].bucket
         \/ heap'[x].client \in Clients /\ pc[Sse(heap'[x].client)] = "idle"
<1>1. ASSUME NEW c \in Clients, NEW b \in Bucket, NEW a \in Addrs, sseOpened(c, b, a)
      PROVE  \/ heap[x] # NULL /\ heap'[x] = heap[x]
             \/ heap'[x].client \in Clients /\ pc[Sse(heap'[x].client)] = "idle"
  <2>1. pc[Sse(c)] = "idle"
    BY <1>1 DEF sseOpened, step
  <2>2. heap'[a].client = c /\ \A y \in Addrs : y # a => heap'[y] = heap[y]
    BY <1>1, OpenLists
  <2> QED
    BY <2>1, <2>2
<1>2. ASSUME NEW c \in Clients, NEW a \in Addrs, heap[a] # NULL, pushNode(c, a)
      PROVE  /\ heap[x] # NULL
             /\ heap'[x].client = heap[x].client /\ heap'[x].bucket = heap[x].bucket
  <2>1. LinkNode(c, a) \/ RetryPush(c, a)
    BY <1>2 DEF pushNode, LinkNode, RetryPush
  <2>2. CASE LinkNode(c, a)
    BY <2>2 DEF LinkNode
  <2>3. CASE RetryPush(c, a)
    BY <1>2, <2>3, RetryLists
  <2> QED
    BY <2>1, <2>2, <2>3
<1>3. ASSUME NEW m \in Broadcasts, broadcast(m)
      PROVE  heap' = heap \/ PopHead(m) \/ Unlink(m)
  <2>1. CASE removeHead(m)
    BY <2>1 DEF removeHead, PopHead, lists
  <2>2. CASE removeOther(m)
    BY <2>2 DEF removeOther, Unlink
  <2>3. CASE ~(removeHead(m) \/ removeOther(m))
    BY <1>3, <2>3 DEF broadcast, lists, scanLock, scanCheck, scanSend, scanUnlock, removeLock,
       removeCrashes, uncountClient, removeUnlock, broadcastEnds
  <2> QED
    BY <2>1, <2>2, <2>3
<1>4. ASSUME NEW m \in Broadcasts, PopHead(m)
      PROVE  heap[x] # NULL /\ heap'[x] = heap[x]
  BY <1>4, PopLists
<1>5. ASSUME NEW m \in Broadcasts, Unlink(m)
      PROVE  /\ heap[x] # NULL
             /\ heap'[x].client = heap[x].client /\ heap'[x].bucket = heap[x].bucket
  BY <1>5, UnlinkLists
<1>6. ASSUME NEW c \in Clients, countClient(c) \/ peerCloses(c) \/ writeFails(c)
      PROVE  heap' = heap
  BY <1>6 DEF countClient, peerCloses, writeFails, lists
<1>7. ASSUME NEW m \in Broadcasts, broadcastStarts(m)
      PROVE  heap' = heap
  BY <1>7 DEF broadcastStarts, lists
<1> QED
  BY <1>1, <1>2, <1>3, <1>4, <1>5, <1>6, <1>7 DEF Next

\* An opened client stays so, and a dead one dead.
LEMMA ClientStep ==
  ASSUME IInv, Next, NEW c \in Clients
  PROVE  /\ pc[Sse(c)] \notin {"idle", "cas"} => pc'[Sse(c)] \notin {"idle", "cas"}
         /\ peer[c] = "dead" => peer'[c] = "dead"
<1>0. /\ pc \in [Handlers -> Steps] /\ peer \in [Clients -> {"open", "gone", "failing", "dead"}]
  BY TypeFacts DEF IInv
<1>1. ASSUME NEW d \in Clients, NEW b \in Bucket, NEW a \in Addrs, sseOpened(d, b, a)
      PROVE  /\ pc[Sse(c)] \notin {"idle", "cas"} => pc'[Sse(c)] = pc[Sse(c)]
             /\ peer' = peer
  <2>1. pc[Sse(d)] = "idle" /\ goto(Sse(d), "cas") /\ peer' = peer
    BY <1>1 DEF sseOpened, step, clients
  <2>2. \A e \in Clients : e # d => pc'[Sse(e)] = pc[Sse(e)]
    BY <1>0, <2>1, SseStep
  <2> QED
    BY <2>1, <2>2
<1>2. ASSUME NEW d \in Clients, NEW a \in Addrs, heap[a] # NULL, pushNode(d, a)
      PROVE  /\ pc[Sse(c)] \notin {"idle", "cas"} => pc'[Sse(c)] = pc[Sse(c)]
             /\ peer' = peer
  <2>1. /\ pc[Sse(d)] = "cas" /\ peer' = peer
        /\ goto(Sse(d), "incLoad") \/ pc' = pc
    BY <1>2 DEF pushNode, clients
  <2>2. CASE goto(Sse(d), "incLoad")
    <3>1. \A e \in Clients : e # d => pc'[Sse(e)] = pc[Sse(e)]
      BY <1>0, <2>2, SseStep
    <3> QED
      BY <2>1, <3>1
  <2> QED
    BY <2>1, <2>2
<1>3. ASSUME NEW d \in Clients, countClient(d)
      PROVE  /\ pc[Sse(c)] \notin {"idle", "cas"} => pc'[Sse(c)] \notin {"idle", "cas"}
             /\ peer' = peer
  <2>1. PICK to \in {"incStore", "done"} : goto(Sse(d), to) /\ peer' = peer
    BY <1>3 DEF countClient, step, clients
  <2>2. pc'[Sse(d)] = to /\ \A e \in Clients : e # d => pc'[Sse(e)] = pc[Sse(e)]
    BY <1>0, <2>1, SseStep
  <2> QED
    BY <2>1, <2>2
<1>4. ASSUME NEW d \in Clients, peerCloses(d) \/ writeFails(d)
      PROVE  pc' = pc /\ (peer[c] = "dead" => peer'[c] = "dead")
  BY <1>0, <1>4 DEF peerCloses, writeFails
<1>5. ASSUME NEW m \in Broadcasts, broadcastStarts(m) \/ broadcast(m)
      PROVE  pc'[Sse(c)] = pc[Sse(c)]
  <2>1. \E to : goto(Post(m), to)
    BY <1>5 DEF broadcastStarts, broadcast, scanLock, scanCheck, scanSend, scanUnlock, removeLock,
       removeHead, removeOther, removeCrashes, uncountClient, removeUnlock, broadcastEnds, step
  <2> QED
    BY <1>0, <2>1, PostStep
<1>6. ASSUME NEW m \in Broadcasts, broadcastStarts(m) \/ broadcast(m)
      PROVE  peer[c] = "dead" => peer'[c] = "dead"
  <2>1. CASE scanSend(m)
    BY <1>0, <2>1 DEF scanSend, clients
  <2>2. CASE ~scanSend(m)
    BY <1>6, <2>2 DEF broadcastStarts, broadcast, scanLock, scanCheck, scanUnlock, removeLock,
       removeHead, removeOther, removeCrashes, uncountClient, removeUnlock, broadcastEnds, clients
  <2> QED
    BY <2>1, <2>2
<1> QED
  BY <1>1, <1>2, <1>3, <1>4, <1>5, <1>6 DEF Next

LEMMA StaleStays ==
  ASSUME IInv, Next, NEW t \in TupleSet, pc[Sse(t.client)] \notin {"idle", "cas"}, ~Stale(t)'
  PROVE  ~Stale(t) /\ heap'[t.node].bucket = heap[t.node].bucket
<1>1. t.node \in Addrs
  BY DEF TupleSet
<1>2. heap'[t.node] # NULL /\ heap'[t.node].client = t.client
  BY DEF Stale
<1>3. \/ /\ heap[t.node] # NULL
         /\ heap'[t.node].client = heap[t.node].client
         /\ heap'[t.node].bucket = heap[t.node].bucket
      \/ pc[Sse(heap'[t.node].client)] = "idle"
  BY <1>1, <1>2, HeapStep
<1> QED
  BY <1>2, <1>3 DEF Stale

LEMMA TupleStays ==
  ASSUME IInv, Next, NEW t \in TupleSet, TupleOK(t)
  PROVE  TupleOK(t)'
<1>1. t.client \in Clients
  BY DEF TupleSet
<1>2. pc'[Sse(t.client)] \notin {"idle", "cas"} /\ peer'[t.client] = "dead"
  BY <1>1, ClientStep DEF TupleOK
<1>3. ~Stale(t)' => ~Stale(t) /\ heap'[t.node].bucket = heap[t.node].bucket
  BY StaleStays DEF TupleOK
<1> QED
  BY <1>2, <1>3 DEF TupleOK

\* A broadcast moves by its own steps only.
LEMMA OwnStep ==
  ASSUME IInv, Next, NEW k \in Broadcasts
  PROVE  \/ broadcastStarts(k) \/ broadcast(k)
         \/ job'[k] = job[k] /\ pc'[Post(k)] = pc[Post(k)]
<1>0. pc \in [Handlers -> Steps] /\ job \in [Broadcasts -> Job]
  BY TypeFacts DEF IInv
<1>1. ASSUME NEW c \in Clients,
         \/ \E b \in Bucket, a \in Addrs : sseOpened(c, b, a)
         \/ \E a \in Addrs : heap[a] # NULL /\ pushNode(c, a)
         \/ countClient(c)
         \/ peerCloses(c)
         \/ writeFails(c)
      PROVE  job'[k] = job[k] /\ pc'[Post(k)] = pc[Post(k)]
  <2>1. job' = job /\ (pc' = pc \/ \E to : goto(Sse(c), to))
    BY <1>1 DEF sseOpened, pushNode, countClient, peerCloses, writeFails, step
  <2> QED
    BY <1>0, <2>1, SseStep
<1>2. ASSUME NEW m \in Broadcasts, broadcastStarts(m) \/ broadcast(m), m # k
      PROVE  job'[k] = job[k] /\ pc'[Post(k)] = pc[Post(k)]
  <2>1. \E to : goto(Post(m), to)
    BY <1>2 DEF broadcastStarts, broadcast, scanLock, scanCheck, scanSend, scanUnlock, removeLock,
       removeHead, removeOther, removeCrashes, uncountClient, removeUnlock, broadcastEnds, step
  <2>2. pc'[Post(k)] = pc[Post(k)]
    BY <1>0, <1>2, <2>1, PostStep
  <2>3. job' = job \/ \E r : job' = [job EXCEPT ![m] = r]
    <3>1. CASE scanCheck(m)
      <4>1. NoteDead(m) \/ job' = job
        BY <3>1 DEF scanCheck, NoteDead
      <4>2. CASE NoteDead(m)
        BY <1>0, <4>2 DEF NoteDead
      <4> QED
        BY <4>1, <4>2
    <3>2. CASE scanLock(m)
      BY <1>0, <3>2 DEF scanLock
    <3>3. CASE scanSend(m)
      BY <1>0, <3>3 DEF scanSend
    <3>4. CASE scanUnlock(m)
      BY <1>0, <3>4 DEF scanUnlock
    <3>5. CASE removeLock(m)
      BY <1>0, <3>5 DEF removeLock
    <3>6. CASE removeHead(m)
      BY <1>0, <3>6 DEF removeHead
    <3>7. CASE removeOther(m)
      BY <1>0, <3>7 DEF removeOther
    <3>8. CASE removeUnlock(m)
      BY <1>0, <3>8 DEF removeUnlock
    <3>9. CASE broadcastStarts(m) \/ removeCrashes(m) \/ uncountClient(m) \/ broadcastEnds(m)
      BY <3>9 DEF broadcastStarts, removeCrashes, uncountClient, broadcastEnds
    <3> QED
      BY <1>2, <3>1, <3>2, <3>3, <3>4, <3>5, <3>6, <3>7, <3>8, <3>9 DEF broadcast
  <2> QED
    BY <1>0, <1>2, <2>2, <2>3
<1> QED
  BY <1>1, <1>2 DEF Next

\* How a broadcast gets a tuple, gives one up, or comes to search
LEMMA Moves ==
  ASSUME IInv, Next, NEW k \in Broadcasts
  PROVE  \/ job'[k] = job[k] /\ pc'[Post(k)] = pc[Post(k)]
         \/ job'[k].removals = job[k].removals /\ pc'[Post(k)] \notin Searching
         \/ NoteDead(k) /\ job[k].iterator # NULL /\ UNCHANGED <<lists, lock, clients>>
         \/ removeUnlock(k)
         \/ removeLock(k)
         \/ /\ WalkFrom(k, "remove", head[Target(k).bucket])
            /\ job'[k].iterator = head[Target(k).bucket]
            /\ job'[k].removals = job[k].removals
         \/ job'[k] = job[k] /\ pc[Post(k)] = "remove"
         \/ /\ WalkFrom(k, "walk", heap[job[k].iterator].next)
            /\ job'[k].iterator # NULL /\ job'[k].removals = job[k].removals
<1>0. /\ pc \in [Handlers -> Steps] /\ heap \in Heaps /\ head \in Heads
      /\ job \in [Broadcasts -> Job]
  BY TypeFacts DEF IInv
<1>1. ASSUME NEW from, NEW to \in Steps, to \notin Searching, step(Post(k), from, to), UNCHANGED job
      PROVE  job'[k].removals = job[k].removals /\ pc'[Post(k)] \notin Searching
  BY <1>0, <1>1, PostStep DEF step
<1>2. \A to \in {"scan", "send", "decLoad", "decStore", "removed", "crashed", "done"} :
        to \in Steps /\ to \notin Searching
  BY DEF Steps, Searching
<1>3. ASSUME broadcastStarts(k) \/ removeCrashes(k) \/ uncountClient(k) \/ broadcastEnds(k)
      PROVE  job'[k].removals = job[k].removals /\ pc'[Post(k)] \notin Searching
  <2>1. PICK to \in {"scan", "decStore", "removed", "crashed", "done"} :
          (\E from : step(Post(k), from, to)) /\ UNCHANGED job
    BY <1>3 DEF broadcastStarts, removeCrashes, uncountClient, broadcastEnds
  <2> QED
    BY <1>1, <1>2, <2>1
<1>4. ASSUME scanLock(k)
      PROVE  job'[k].removals = job[k].removals /\ pc'[Post(k)] \notin Searching
  BY <1>4, ScanLockStep DEF Searching
<1>5. ASSUME scanSend(k)
      PROVE  job'[k].removals = job[k].removals /\ pc'[Post(k)] \notin Searching
  BY <1>5, ScanSendStep DEF Searching
<1>6. ASSUME scanUnlock(k)
      PROVE  job'[k].removals = job[k].removals /\ pc'[Post(k)] \notin Searching
  BY <1>6, ScanUnlockStep DEF Searching
<1>7. ASSUME scanCheck(k)
      PROVE  \/ NoteDead(k) /\ job[k].iterator # NULL /\ UNCHANGED <<lists, lock, clients>>
             \/ job'[k].removals = job[k].removals /\ pc'[Post(k)] \notin Searching
  <2>1. /\ job[k].iterator # NULL /\ UNCHANGED <<lists, lock, clients>>
        /\ \/ NoteDead(k)
           \/ step(Post(k), "check", "send") /\ UNCHANGED job
    BY <1>7 DEF scanCheck, NoteDead
  <2> QED
    BY <1>1, <1>2, <2>1
<1>8. ASSUME removeHead(k)
       PROVE  \/ job'[k].removals = job[k].removals /\ pc'[Post(k)] \notin Searching
              \/ /\ WalkFrom(k, "remove", head[Target(k).bucket])
                 /\ job'[k].iterator = head[Target(k).bucket]
                 /\ job'[k].removals = job[k].removals
              \/ job'[k] = job[k] /\ pc[Post(k)] = "remove"
  <2>1. \/ PopHead(k)
        \/ WalkFrom(k, "remove", head[Target(k).bucket])
        \/ step(Post(k), "remove", "walk") /\ UNCHANGED job
    BY <1>8 DEF removeHead, PopHead, WalkFrom
  <2>2. CASE PopHead(k)
    BY <1>1, <1>2, <2>2 DEF PopHead
  <2>3. CASE WalkFrom(k, "remove", head[Target(k).bucket])
    <3>1. pc[Post(k)] \in Searching /\ "remove" \in Searching
      BY <2>3 DEF WalkFrom, step, Searching
    <3>2. head[Target(k).bucket] \in Addrs \cup {NULL}
      BY <1>0, <3>1, SearchFacts DEF Heads
    <3>3. PICK i \in Addrs \cup {NULL} : i = head[Target(k).bucket]
      BY <3>2
    <3>4. WalkFrom(k, "remove", i)
      BY <2>3, <3>3
    <3> QED
      BY <2>3, <3>1, <3>3, <3>4, WalkStep
  <2>4. CASE step(Post(k), "remove", "walk") /\ UNCHANGED job
    BY <2>4 DEF step
  <2> QED
    BY <2>1, <2>2, <2>3, <2>4
<1>9. ASSUME removeOther(k)
       PROVE  \/ job'[k].removals = job[k].removals /\ pc'[Post(k)] \notin Searching
              \/ /\ WalkFrom(k, "walk", heap[job[k].iterator].next)
                 /\ job'[k].iterator # NULL /\ job'[k].removals = job[k].removals
  <2>1. \/ Unlink(k)
        \/ /\ WalkFrom(k, "walk", heap[job[k].iterator].next)
           /\ heap[job[k].iterator].next # NULL
        \/ step(Post(k), "walk", "removed") /\ UNCHANGED job
    BY <1>9 DEF removeOther, Unlink, WalkFrom, lists
  <2>2. CASE Unlink(k)
    BY <1>1, <1>2, <2>2 DEF Unlink
  <2>3. CASE /\ WalkFrom(k, "walk", heap[job[k].iterator].next)
             /\ heap[job[k].iterator].next # NULL
    <3>1. pc[Post(k)] \in Searching /\ "walk" \in Searching /\ job[k].iterator # NULL
      BY <1>9, <2>3 DEF WalkFrom, step, Searching, removeOther
    <3>2. PICK i \in Addrs \cup {NULL} : i = heap[job[k].iterator].next
      BY <3>1, SearchFacts
    <3>3. WalkFrom(k, "walk", i)
      BY <2>3, <3>2
    <3>4. job'[k].iterator = i /\ job'[k].removals = job[k].removals
      BY <3>1, <3>3, WalkStep
    <3> QED
      BY <2>3, <3>2, <3>4
  <2>4. CASE step(Post(k), "walk", "removed") /\ UNCHANGED job
    BY <1>1, <1>2, <2>4
  <2> QED
    BY <2>1, <2>2, <2>3, <2>4
<1> QED
  BY <1>3, <1>4, <1>5, <1>6, <1>7, <1>8, <1>9, OwnStep DEF broadcast

\* A search for a node that is not stale begins on a list that has it.
LEMMA HeadOfFresh ==
  ASSUME IInv, NEW t \in TupleSet, TupleOK(t), ~Stale(t)
  PROVE  head[t.bucket] # NULL
<1>1. t.node \in Addrs /\ t.bucket \in Bucket
  BY DEF TupleSet
<1>2. t.node \in InBucket(t.bucket)
  BY <1>1 DEF TupleOK, Stale, InBucket, Listed
<1>3. t.node \in From(heap, head[t.bucket])
  BY <1>1, <1>2, NodesAreBucket, WalksAreFrom DEF Nodes
<1> QED
  BY <1>3, FromNull

LEMMA TuplesStep ==
  ASSUME IInv, TuplesOK, [Next]_vars
  PROVE  TuplesOK'
<1>0. /\ job \in [Broadcasts -> Job] /\ IInv' /\ job' \in [Broadcasts -> Job]
  BY StepInv, TypeFacts DEF IInv, TypeOK, Job, TupleSet
<1>1. ASSUME Next, NEW k \in Broadcasts
      PROVE  RemovalsOK(k)' /\ SearchOK(k)'
  <2>0. /\ job[k].removals \in Seq(TupleSet) /\ job'[k].removals \in Seq(TupleSet)
        /\ RemovalsOK(k) /\ SearchOK(k)
    <3>1. job'[k] \in Job
      BY <1>0
    <3> QED
      BY <1>0, <3>1, JobFields DEF TuplesOK, Job
  <2>1. ASSUME NEW i \in DOMAIN job[k].removals
        PROVE  job[k].removals[i] \in TupleSet /\ TupleOK(job[k].removals[i])
    BY <2>0 DEF RemovalsOK
  <2>2. ASSUME NEW t, NEW i \in DOMAIN job[k].removals, t = job[k].removals[i]
        PROVE  t \in TupleSet /\ TupleOK(t) /\ TupleOK(t)'
    BY <1>1, <2>1, <2>2, TupleStays
  <2>3. RemovalsOK(k)'
    <3> SUFFICES ASSUME NEW i \in DOMAIN job'[k].removals, NEW t, t = job'[k].removals[i]
                 PROVE  TupleOK(t)'
      BY DEF RemovalsOK
    <3>1. CASE job'[k].removals = job[k].removals
      BY <2>2, <3>1
    <3>2. CASE NoteDead(k) /\ job[k].iterator # NULL /\ UNCHANGED <<lists, lock, clients>>
      <4>1. /\ Tuple(k) \in TupleSet /\ job'[k].removals = Append(job[k].removals, Tuple(k))
            /\ pc[Post(k)] = "check"
        BY <3>2, NoteDeadStep
      <4>2. CASE i \in DOMAIN job[k].removals
        <5>1. t = job[k].removals[i]
          BY <2>0, <4>1, <4>2
        <5> QED
          BY <2>2, <4>2, <5>1
      <4>3. CASE i \notin DOMAIN job[k].removals
        <5>1. t = Tuple(k)
          BY <2>0, <4>1, <4>3
        <5>2. /\ t.node = job[k].iterator /\ t.bucket = job[k].at
              /\ t.client = heap[job[k].iterator].client
          BY <5>1 DEF Tuple
        <5>3. /\ job[k].iterator \in Listed /\ heap[job[k].iterator].bucket = job[k].at
          BY <3>2, <4>1, IteratorFacts DEF Scanning
        <5>4. pc[Sse(t.client)] \notin {"idle", "cas"}
          BY <5>2, <5>3 DEF Listed, IInv, NodesOK
        <5>5. peer[t.client] = "dead"
          BY <3>2, <5>2 DEF NoteDead
        <5>6. TupleOK(t)
          BY <5>2, <5>3, <5>4, <5>5 DEF TupleOK
        <5> QED
          BY <1>1, <4>1, <5>1, <5>6, TupleStays
      <4> QED
        BY <4>2, <4>3
    <3>3. CASE removeUnlock(k)
      <4>1. job[k].removals # <<>> /\ job'[k].removals = Tail(job[k].removals)
        BY <3>3, RemoveUnlockStep
      <4>2. i + 1 \in DOMAIN job[k].removals /\ t = job[k].removals[i + 1]
        BY <2>0, <4>1
      <4> QED
        BY <2>2, <4>2
    <3>4. CASE removeLock(k)
      BY <3>1, <3>4, RemoveLockStep
    <3> QED
      BY <1>1, <3>1, <3>2, <3>3, <3>4, Moves
  <2>4. SearchOK(k)'
    <3> SUFFICES ASSUME pc'[Post(k)] \in Searching, NEW t, t = Target(k)', ~Stale(t)'
                 PROVE  job'[k].iterator # NULL
      BY DEF SearchOK
    <3>1. ASSUME job'[k].removals = job[k].removals, job[k].removals # <<>>
          PROVE  t = Target(k) /\ t \in TupleSet /\ TupleOK(t) /\ ~Stale(t)
      <4>1. t = Target(k) /\ t = job[k].removals[1] /\ 1 \in DOMAIN job[k].removals
        BY <1>0, <3>1, TargetFields DEF Target
      <4>2. t \in TupleSet /\ TupleOK(t)
        BY <2>2, <4>1
      <4> QED
        BY <1>1, <4>1, <4>2, StaleStays DEF TupleOK
    <3>2. CASE job'[k] = job[k] /\ pc[Post(k)] \in Searching
      BY <2>0, <3>1, <3>2, SearchFacts DEF SearchOK
    <3>3. CASE NoteDead(k) /\ job[k].iterator # NULL /\ UNCHANGED <<lists, lock, clients>>
      BY <3>3, NoteDeadStep DEF Searching
    <3>4. CASE removeUnlock(k)
      BY <3>4, RemoveUnlockStep DEF Searching
    <3>5. CASE removeLock(k)
      BY <3>1, <3>5, RemoveLockStep, HeadOfFresh
    <3>6. CASE /\ WalkFrom(k, "remove", head[Target(k).bucket])
               /\ job'[k].iterator = head[Target(k).bucket]
               /\ job'[k].removals = job[k].removals
      <4>1. job[k].removals # <<>>
        BY <3>6, SearchFacts DEF WalkFrom, step, Searching
      <4> QED
        BY <3>1, <3>6, <4>1, HeadOfFresh
    <3>7. "remove" \in Searching
      BY DEF Searching
    <3> QED
      BY <1>1, <3>2, <3>3, <3>4, <3>5, <3>6, <3>7, Moves
  <2> QED
    BY <2>3, <2>4
<1>2. CASE Next
  BY <1>1, <1>2 DEF TuplesOK
<1>3. CASE UNCHANGED vars
  BY <1>3 DEF TuplesOK, RemovalsOK, SearchOK, TupleOK, Stale, Target, vars
<1> QED
  BY <1>2, <1>3

LEMMA CrashStep ==
  ASSUME IInv, Next, NEW m \in Broadcasts, pc[Post(m)] \in Searching,
         pc'[Post(m)] = "crashed"
  PROVE  job[m].iterator = NULL
<1>0. pc \in [Handlers -> Steps]
  BY TypeFacts DEF IInv
<1>1. ASSUME NEW from, NEW to, step(Post(m), from, to)
      PROVE  pc[Post(m)] = from /\ pc'[Post(m)] = to
  BY <1>0, <1>1, PostStep DEF step
<1>2. CASE removeCrashes(m)
  BY <1>2 DEF removeCrashes
<1>3. ASSUME ~removeCrashes(m) PROVE FALSE
  <2>1. broadcastStarts(m) \/ broadcast(m)
    BY OwnStep DEF Searching
  <2>2. CASE broadcastStarts(m) \/ broadcastEnds(m)
    BY <1>1, <2>2 DEF broadcastStarts, broadcastEnds
  <2>3. CASE scanCheck(m)
    BY <1>1, <2>3 DEF scanCheck
  <2>4. CASE removeHead(m)
    BY <1>1, <2>4 DEF removeHead
  <2>5. CASE removeOther(m)
    BY <1>1, <2>5 DEF removeOther
  <2>6. CASE uncountClient(m)
    BY <1>1, <2>6 DEF uncountClient
  <2>7. CASE scanLock(m) \/ scanSend(m) \/ scanUnlock(m) \/ removeLock(m) \/ removeUnlock(m)
    BY <2>7, ScanLockStep, ScanSendStep, ScanUnlockStep, RemoveLockStep, RemoveUnlockStep
  <2> QED
    BY <1>3, <2>1, <2>2, <2>3, <2>4, <2>5, <2>6, <2>7 DEF broadcast
<1> QED
  BY <1>2, <1>3

\* Overlapping broadcasts harm through a tuple whose node one of them has freed,
\* and in no other way, for any number of them: c++/sse_server.cpp broadcast and
\* c++/singlylist.hpp remove.
THEOREM StaleCorrect == Spec => OnlyStaleTuplesHarm
<1>1. Init => TuplesOK
  <2> SUFFICES ASSUME Init PROVE TuplesOK
    OBVIOUS
  <2>1. \A m \in Broadcasts : job[m].removals = <<>>
    BY DEF Init
  <2>2. \A m \in Broadcasts : pc[Post(m)] = "idle"
    <3>1. pc = [h \in Handlers |-> "idle"]
      BY DEF Init
    <3> QED
      BY <3>1, HandlerNames
  <2> QED
    BY <2>1, <2>2 DEF TuplesOK, RemovalsOK, SearchOK, Searching
<1>2. TuplesOK /\ IInv /\ [Next]_vars => TuplesOK'
  BY TuplesStep
<1>3. ASSUME IInv, TuplesOK, Next, NEW m \in Broadcasts, pc[Post(m)] \in {"remove", "walk"},
             \/ pc'[Post(m)] = "crashed"
             \/ /\ pc'[Post(m)] = "decLoad"
                /\ peer[heap[Target(m).node].client] # "dead",
             ~Stale(Target(m))
      PROVE  FALSE
  <2>1. pc[Post(m)] \in Searching
    BY <1>3 DEF Searching
  <2>2. PICK t : t = Target(m)
    OBVIOUS
  <2>3. TupleOK(t)
    <3>1. job[m].removals # <<>>
      BY <1>3, <2>1, SearchFacts
    <3>2. t = job[m].removals[1] /\ 1 \in DOMAIN job[m].removals
      BY <1>3, <2>2, <3>1, TypeFacts, TargetFields DEF IInv
    <3> QED
      BY <1>3, <3>2 DEF TuplesOK, RemovalsOK
  <2>4. peer[heap[t.node].client] = "dead"
    BY <1>3, <2>2, <2>3 DEF TupleOK, Stale
  <2>5. job[m].iterator # NULL
    BY <1>3, <2>1, <2>2 DEF TuplesOK, SearchOK
  <2> QED
    BY <1>3, <2>1, <2>2, <2>4, <2>5, CrashStep
<1>4. IInv /\ TuplesOK /\ [Next]_vars =>
        [\A m \in Broadcasts :
           /\ pc[Post(m)] \in {"remove", "walk"}
           /\ \/ pc'[Post(m)] = "crashed"
              \/ /\ pc'[Post(m)] = "decLoad"
                 /\ peer[heap[Target(m).node].client] # "dead"
           => Stale(Target(m))]_vars
  BY <1>3
<1> QED
  BY <1>1, <1>2, <1>4, Inductive, PTL DEF Spec, OnlyStaleTuplesHarm

----------------------------------------------------------------------------
(* The count                                                               *)

Counting == {"incLoad", "incStore", "decLoad", "decStore"}

\* A step that neither begins nor ends an update of the count
LEMMA QuietStep ==
  ASSUME pc \in [Handlers -> Steps], NEW h \in Handlers, NEW to, goto(h, to),
         pc[h] \notin Counting, to \notin Counting
  PROVE  Arriving' = Arriving /\ Leaving' = Leaving /\ Updating' = Updating
<1>1. pc'[h] = to /\ \A k \in Handlers : k # h => pc'[k] = pc[k]
  BY DEF goto
<1>2. \A k \in Handlers, s \in Counting : pc'[k] = s <=> pc[k] = s
  BY <1>1
<1>3. /\ \A c \in Clients : Sse(c) \in Handlers
      /\ \A m \in Broadcasts : Post(m) \in Handlers
  BY HandlerNames
<1>4. Arriving' = Arriving
  BY <1>2, <1>3 DEF Arriving, Counting
<1>5. Leaving' = Leaving
  BY <1>2, <1>3 DEF Leaving, Counting
<1>6. Updating' = Updating
  BY <1>2 DEF Updating, Counting
<1> QED
  BY <1>4, <1>5, <1>6

Uncounted ==
  /\ Listed' = Listed /\ (\A q \in Bucket : Kept(q)) /\ UNCHANGED counter
  /\ Arriving' = Arriving /\ Leaving' = Leaving /\ Updating' = Updating

LEMMA CountMoves ==
  ASSUME IInv, Next
  PROVE  \/ Uncounted
         \/ \E c \in Clients, a \in Addrs :
              heap[a] # NULL /\ LinkNode(c, a) /\ UNCHANGED counter
         \/ \E m \in Broadcasts : (PopHead(m) \/ Unlink(m)) /\ UNCHANGED counter
         \/ \E c \in Clients : countClient(c)
         \/ \E m \in Broadcasts : uncountClient(m)
<1>0. pc \in [Handlers -> Steps]
  BY TypeFacts DEF IInv
<1>1. ASSUME NEW c \in Clients, NEW b \in Bucket, NEW a \in Addrs, sseOpened(c, b, a)
      PROVE  Uncounted
  <2>1. pc[Sse(c)] = "idle" /\ goto(Sse(c), "cas") /\ UNCHANGED counter
    BY <1>1 DEF sseOpened, step
  <2>2. "idle" \notin Counting /\ "cas" \notin Counting /\ Sse(c) \in Handlers
    BY HandlerNames DEF Counting
  <2>3. Listed' = Listed /\ \A q \in Bucket : Kept(q)
    BY <1>1, OpenLists
  <2> QED
    BY <1>0, <2>1, <2>2, <2>3, QuietStep DEF Uncounted
<1>2. ASSUME NEW c \in Clients, NEW a \in Addrs, heap[a] # NULL, pushNode(c, a)
      PROVE  \/ Uncounted
             \/ LinkNode(c, a) /\ UNCHANGED counter
  <2>1. UNCHANGED counter /\ (LinkNode(c, a) \/ RetryPush(c, a))
    BY <1>2 DEF pushNode, LinkNode, RetryPush
  <2>2. CASE RetryPush(c, a)
    <3>1. Listed' = Listed /\ pc' = pc /\ \A q \in Bucket : Kept(q)
      BY <1>2, <2>2, RetryLists DEF RetryPush
    <3> QED
      BY <2>1, <3>1 DEF Uncounted, Arriving, Leaving, Updating
  <2> QED
    BY <2>1, <2>2
<1>3. ASSUME NEW c \in Clients, peerCloses(c) \/ writeFails(c)
      PROVE  Uncounted
  <2>1. UNCHANGED <<lists, counter, pc>>
    BY <1>3 DEF peerCloses, writeFails
  <2> QED
    BY <2>1, ListsFrame DEF Uncounted, Arriving, Leaving, Updating
<1>4. ASSUME NEW m \in Broadcasts, NEW from, NEW to, step(Post(m), from, to),
             from \notin Counting, to \notin Counting, UNCHANGED <<lists, counter>>
      PROVE  Uncounted
  <2>1. pc[Post(m)] = from /\ goto(Post(m), to) /\ Post(m) \in Handlers
    BY <1>4, HandlerNames DEF step
  <2>2. \A c \in Clients : pc'[Sse(c)] = pc[Sse(c)]
    BY <1>0, <2>1, PostStep
  <2>3. Listed' = Listed /\ \A q \in Bucket : Kept(q)
    BY <1>4, <2>2, ListsFrame
  <2> QED
    BY <1>0, <1>4, <2>1, <2>3, QuietStep DEF Uncounted
<1>5. \A s \in {"idle", "scan", "check", "send", "clean", "remove", "walk", "removed", "done", "crashed"} :
        s \notin Counting
  BY DEF Counting
<1>6. ASSUME NEW m \in Broadcasts, removeHead(m)
      PROVE  Uncounted \/ (PopHead(m) /\ UNCHANGED counter)
  <2>1. /\ UNCHANGED counter
        /\ \/ PopHead(m)
           \/ step(Post(m), "remove", "walk") /\ UNCHANGED lists
    BY <1>6 DEF removeHead, PopHead
  <2> QED
    BY <1>4, <1>5, <2>1
<1>7. ASSUME NEW m \in Broadcasts, removeOther(m)
      PROVE  Uncounted \/ (Unlink(m) /\ UNCHANGED counter)
  <2>1. /\ UNCHANGED counter
        /\ \/ Unlink(m)
           \/ step(Post(m), "walk", "walk") /\ UNCHANGED lists
           \/ step(Post(m), "walk", "removed") /\ UNCHANGED lists
    BY <1>7 DEF removeOther, Unlink, lists
  <2> QED
    BY <1>4, <1>5, <2>1
<1>8. ASSUME NEW m \in Broadcasts,
             \/ broadcastStarts(m) \/ scanLock(m) \/ scanSend(m) \/ removeLock(m)
             \/ removeCrashes(m) \/ removeUnlock(m) \/ broadcastEnds(m)
      PROVE  Uncounted
  <2>1. PICK from \in {"idle", "scan", "send", "clean", "walk", "removed"},
             to \in {"scan", "check", "remove", "crashed", "clean", "done"} :
          step(Post(m), from, to) /\ UNCHANGED <<lists, counter>>
    BY <1>8 DEF broadcastStarts, scanLock, scanSend, removeLock, removeCrashes,
       removeUnlock, broadcastEnds
  <2> QED
    BY <1>4, <1>5, <2>1
<1>9. ASSUME NEW m \in Broadcasts, scanCheck(m) \/ scanUnlock(m)
      PROVE  Uncounted
  <2>1. PICK to \in {"scan", "check", "send", "clean"} :
          step(Post(m), "check", to) /\ UNCHANGED <<lists, counter>>
    BY <1>9 DEF scanCheck, scanUnlock
  <2> QED
    BY <1>4, <1>5, <2>1
<1>10. CASE \E c \in Clients :
          \/ \E b \in Bucket, a \in Addrs : sseOpened(c, b, a)
          \/ \E a \in Addrs : heap[a] # NULL /\ pushNode(c, a)
          \/ countClient(c)
          \/ peerCloses(c)
          \/ writeFails(c)
  BY <1>1, <1>2, <1>3, <1>10
<1>11. CASE \E m \in Broadcasts : broadcastStarts(m) \/ broadcast(m)
  BY <1>6, <1>7, <1>8, <1>9, <1>11 DEF broadcast
<1> QED
  BY <1>10, <1>11 DEF Next

LEMMA SetsFinite ==
  /\ IsFiniteSet(Listed) /\ Cardinality(Listed) \in Int
  /\ IsFiniteSet(Arriving) /\ Cardinality(Arriving) \in Int
  /\ IsFiniteSet(Leaving) /\ Cardinality(Leaving) \in Int
<1>1. IsFiniteSet(Addrs) /\ NumClients \in Int /\ NumBroadcasts \in Int /\ 1 \in Int
  BY CppAssumption
<1>2. IsFiniteSet(Clients) /\ IsFiniteSet(Broadcasts)
  BY <1>1, FS_Interval DEF Clients, Broadcasts
<1>3. Listed \in SUBSET Addrs /\ Arriving \in SUBSET Clients /\ Leaving \in SUBSET Broadcasts
  BY DEF Listed, Arriving, Leaving
<1>4. IsFiniteSet(Listed) /\ IsFiniteSet(Arriving) /\ IsFiniteSet(Leaving)
  BY <1>1, <1>2, <1>3, FS_Subset
<1> QED
  BY <1>4, FS_CardinalityType

\* An update of the count begins.
LEMMA LoadStep ==
  ASSUME IInv, NEW h \in Handlers, loadCount(h), goto(h, "incStore") \/ goto(h, "decStore"),
         ~raced'
  PROVE  /\ ~raced /\ count' = count /\ Updating' = {h} /\ reg'[h] = count
<1>0. pc \in [Handlers -> Steps] /\ reg \in [Handlers -> Int]
  BY TypeFacts DEF IInv
<1>1. ~raced /\ Updating = {}
  BY DEF loadCount
<1>2. count' = count /\ reg'[h] = count
  BY <1>0 DEF loadCount
<1>3. Updating' = {h}
  BY <1>0, <1>1 DEF Updating, goto
<1> QED
  BY <1>1, <1>2, <1>3

\* An update of the count ends.
LEMMA StoreStep ==
  ASSUME IInv, CountOK, NEW h \in Handlers, NEW delta \in {1, -1}, storeCount(h, delta),
         h \in Updating, NEW to \in {"done", "removed"}, goto(h, to), ~raced'
  PROVE  ~raced /\ count' = count + delta /\ Updating' = {}
<1>0. pc \in [Handlers -> Steps] /\ reg \in [Handlers -> Int]
  BY TypeFacts DEF IInv
<1>1. ~raced /\ count' = reg[h] + delta
  BY DEF storeCount
<1>2. reg[h] = count /\ \A k \in Updating : k = h
  BY <1>1 DEF CountOK
<1>3. Updating' = {}
  BY <1>0, <1>2 DEF Updating, goto
<1> QED
  BY <1>1, <1>2, <1>3

LEMMA CountStep ==
  ASSUME IInv, CountOK, [Next]_vars
  PROVE  CountOK'
<1>0. /\ pc \in [Handlers -> Steps] /\ count \in Int
      /\ Cardinality(Listed) \in Int /\ Cardinality(Arriving) \in Int /\ Cardinality(Leaving) \in Int
  BY TypeFacts, SetsFinite DEF IInv
<1>1. CASE Uncounted
  BY <1>1 DEF Uncounted, CountOK, counter
<1>2. ASSUME NEW c \in Clients, NEW a \in Addrs, heap[a] # NULL, LinkNode(c, a), UNCHANGED counter
      PROVE  CountOK'
  <2>1. a \notin Listed /\ Listed' = Listed \cup {a}
    BY <1>2, LinkLists
  <2>2. /\ pc[Sse(c)] = "cas" /\ pc'[Sse(c)] = "incLoad"
        /\ \A d \in Clients : d # c => pc'[Sse(d)] = pc[Sse(d)]
        /\ \A m \in Broadcasts : pc'[Post(m)] = pc[Post(m)]
    BY <1>0, <1>2, SseStep DEF LinkNode
  <2>3. c \notin Arriving /\ Arriving' = Arriving \cup {c} /\ Leaving' = Leaving
    BY <2>2 DEF Arriving, Leaving
  <2>4. Updating' = Updating
    BY <1>0, <1>2, HandlerNames DEF LinkNode, goto, Updating
  <2>5. /\ Cardinality(Listed') = Cardinality(Listed) + 1
        /\ Cardinality(Arriving') = Cardinality(Arriving) + 1
    BY <2>1, <2>3, SetsFinite, FS_AddElement
  <2>6. Cardinality(Listed') - Cardinality(Arriving') = Cardinality(Listed) - Cardinality(Arriving)
    BY <1>0, <2>5
  <2> QED
    BY <1>0, <1>2, <2>3, <2>4, <2>5, <2>6 DEF CountOK, counter
<1>3. ASSUME NEW m \in Broadcasts, PopHead(m) \/ Unlink(m), UNCHANGED counter
      PROVE  CountOK'
  <2>1. Target(m).node \in Listed /\ Listed' = Listed \ {Target(m).node}
    BY <1>3, PopLists, UnlinkLists
  <2>2. goto(Post(m), "decLoad") /\ pc[Post(m)] \in {"remove", "walk"}
    BY <1>3 DEF PopHead, Unlink, step
  <2>3. /\ pc'[Post(m)] = "decLoad"
        /\ \A k \in Broadcasts : k # m => pc'[Post(k)] = pc[Post(k)]
        /\ \A c \in Clients : pc'[Sse(c)] = pc[Sse(c)]
    BY <1>0, <2>2, PostStep
  <2>4. m \notin Leaving /\ Leaving' = Leaving \cup {m} /\ Arriving' = Arriving
    BY <2>2, <2>3 DEF Arriving, Leaving
  <2>5. Updating' = Updating
    BY <1>0, <2>2, HandlerNames DEF goto, Updating
  <2>6. /\ Cardinality(Listed') = Cardinality(Listed) - 1
        /\ Cardinality(Leaving') = Cardinality(Leaving) + 1
    BY <2>1, <2>4, SetsFinite, FS_AddElement, FS_RemoveElement
  <2>7. Cardinality(Listed') - Cardinality(Arriving) + Cardinality(Leaving')
          = Cardinality(Listed) - Cardinality(Arriving) + Cardinality(Leaving)
    BY <1>0, <2>6
  <2> QED
    BY <1>3, <2>4, <2>5, <2>7 DEF CountOK, counter
<1>4. ASSUME NEW c \in Clients, countClient(c), ~raced'
      PROVE  CountOK'
  <2>0. Sse(c) \in Handlers
    BY HandlerNames
  <2>1. ASSUME NEW to, goto(Sse(c), to), UNCHANGED lists,
               pc[Sse(c)] \in {"incLoad", "incStore"}, to \in {"incStore", "done"}
        PROVE  /\ pc'[Sse(c)] = to /\ Listed' = Listed /\ Leaving' = Leaving
               /\ \A d \in Clients : d # c => pc'[Sse(d)] = pc[Sse(d)]
    <3>1. /\ pc'[Sse(c)] = to
          /\ \A d \in Clients : d # c => pc'[Sse(d)] = pc[Sse(d)]
          /\ \A m \in Broadcasts : pc'[Post(m)] = pc[Post(m)]
      BY <1>0, <2>1, SseStep
    <3>2. Listed' = Listed
      BY <2>1, <3>1, ListsFrame
    <3> QED
      BY <3>1, <3>2 DEF Leaving
  <2>2. CASE step(Sse(c), "incLoad", "incStore") /\ loadCount(Sse(c)) /\ UNCHANGED lists
    <3>1. pc[Sse(c)] = "incLoad" /\ goto(Sse(c), "incStore")
      BY <2>2 DEF step
    <3>2. Listed' = Listed /\ Leaving' = Leaving /\ Arriving' = Arriving
      BY <2>1, <2>2, <3>1 DEF Arriving
    <3>3. ~raced /\ count' = count /\ Updating' = {Sse(c)} /\ reg'[Sse(c)] = count
      BY <1>4, <2>0, <2>2, <3>1, LoadStep
    <3> QED
      BY <3>2, <3>3 DEF CountOK
  <2>3. CASE step(Sse(c), "incStore", "done") /\ storeCount(Sse(c), 1) /\ UNCHANGED lists
    <3>1. pc[Sse(c)] = "incStore" /\ goto(Sse(c), "done") /\ Sse(c) \in Updating
      BY <2>0, <2>3 DEF step, Updating
    <3>2. /\ Listed' = Listed /\ Leaving' = Leaving
          /\ c \in Arriving /\ Arriving' = Arriving \ {c}
      BY <2>1, <2>3, <3>1 DEF Arriving
    <3>3. ~raced /\ count' = count + 1 /\ Updating' = {}
      BY <1>4, <2>0, <2>3, <3>1, StoreStep
    <3>4. Cardinality(Arriving') = Cardinality(Arriving) - 1
      BY <3>2, SetsFinite, FS_RemoveElement
    <3> QED
      BY <1>0, <3>2, <3>3, <3>4 DEF CountOK
  <2> QED
    BY <1>4, <2>2, <2>3 DEF countClient
<1>5. ASSUME NEW m \in Broadcasts, uncountClient(m), ~raced'
      PROVE  CountOK'
  <2>0. Post(m) \in Handlers
    BY HandlerNames
  <2>1. ASSUME NEW to, goto(Post(m), to), UNCHANGED lists
        PROVE  /\ pc'[Post(m)] = to /\ Listed' = Listed /\ Arriving' = Arriving
               /\ \A k \in Broadcasts : k # m => pc'[Post(k)] = pc[Post(k)]
    <3>1. /\ pc'[Post(m)] = to
          /\ \A k \in Broadcasts : k # m => pc'[Post(k)] = pc[Post(k)]
          /\ \A c \in Clients : pc'[Sse(c)] = pc[Sse(c)]
      BY <1>0, <2>1, PostStep
    <3>2. Listed' = Listed
      BY <2>1, <3>1, ListsFrame
    <3> QED
      BY <3>1, <3>2 DEF Arriving
  <2>2. CASE step(Post(m), "decLoad", "decStore") /\ loadCount(Post(m)) /\ UNCHANGED lists
    <3>1. pc[Post(m)] = "decLoad" /\ goto(Post(m), "decStore")
      BY <2>2 DEF step
    <3>2. Listed' = Listed /\ Leaving' = Leaving /\ Arriving' = Arriving
      BY <2>1, <2>2, <3>1 DEF Leaving
    <3>3. ~raced /\ count' = count /\ Updating' = {Post(m)} /\ reg'[Post(m)] = count
      BY <1>5, <2>0, <2>2, <3>1, LoadStep
    <3> QED
      BY <3>2, <3>3 DEF CountOK
  <2>3. CASE step(Post(m), "decStore", "removed") /\ storeCount(Post(m), -1) /\ UNCHANGED lists
    <3>1. pc[Post(m)] = "decStore" /\ goto(Post(m), "removed") /\ Post(m) \in Updating
      BY <2>0, <2>3 DEF step, Updating
    <3>2. /\ Listed' = Listed /\ Arriving' = Arriving
          /\ m \in Leaving /\ Leaving' = Leaving \ {m}
      BY <2>1, <2>3, <3>1 DEF Leaving
    <3>3. ~raced /\ count' = count + (-1) /\ Updating' = {}
      BY <1>5, <2>0, <2>3, <3>1, StoreStep
    <3>4. Cardinality(Leaving') = Cardinality(Leaving) - 1
      BY <3>2, SetsFinite, FS_RemoveElement
    <3> QED
      BY <1>0, <3>2, <3>3, <3>4 DEF CountOK
  <2> QED
    BY <1>5, <2>2, <2>3 DEF uncountClient
<1>6. CASE raced'
  BY <1>6 DEF CountOK
<1>7. CASE UNCHANGED vars
  <2>1. Listed' = Listed /\ Arriving' = Arriving /\ Leaving' = Leaving /\ Updating' = Updating
    BY <1>7 DEF vars, Listed, Arriving, Leaving, Updating
  <2> QED
    BY <1>7, <2>1 DEF CountOK, vars
<1>8. CASE Next
  BY <1>1, <1>2, <1>3, <1>4, <1>5, <1>6, <1>8, CountMoves
<1> QED
  BY <1>7, <1>8

\* The count of clients is exact at rest unless two updates of it overlapped, for
\* any number of clients, broadcasts and threads: the ++ and -- of
\* c++/sse_server.cpp on _sse_client_count.
THEOREM CountCorrect == Spec => []CountExactUnlessRaced
<1>1. Init => CountOK
  <2> SUFFICES ASSUME Init PROVE CountOK
    OBVIOUS
  <2>1. /\ pc = [h \in Handlers |-> "idle"] /\ heap = [a \in Addrs |-> NULL] /\ count = 0
    BY DEF Init
  <2>2. Listed = {} /\ Arriving = {} /\ Leaving = {} /\ Updating = {}
    BY <2>1, HandlerNames DEF Listed, Arriving, Leaving, Updating
  <2> QED
    BY <2>1, <2>2, FS_EmptySet DEF CountOK
<1>2. CountOK /\ IInv /\ [Next]_vars => CountOK'
  BY CountStep
<1>3. ASSUME IInv, CountOK PROVE CountExactUnlessRaced
  <2> SUFFICES ASSUME ~raced,
                      \A h \in Handlers : pc[h] \notin {"incLoad", "incStore", "decLoad", "decStore"}
               PROVE  count = Cardinality(UNION {Nodes(b) : b \in Bucket})
    BY DEF CountExactUnlessRaced
  <2>1. Arriving = {} /\ Leaving = {}
    BY HandlerNames DEF Arriving, Leaving
  <2>2. count = Cardinality(Listed)
    BY <1>3, <2>1, FS_EmptySet, SetsFinite DEF CountOK
  <2> QED
    BY <1>3, <2>2, NodesAreListed
<1> QED
  BY <1>1, <1>2, <1>3, Inductive, PTL DEF Spec

----------------------------------------------------------------------------
(* What a scan reaches                                                     *)

\* Only the broadcast that holds a bucket takes nodes out of it.
LEMMA KeptStep ==
  ASSUME IInv, Next, NEW b \in Bucket
  PROVE  Kept(b) \/ \E m \in Broadcasts : lock[b] = m /\ pc[Post(m)] \in Searching
<1>0. pc \in [Handlers -> Steps]
  BY TypeFacts DEF IInv
<1>1. ASSUME NEW m \in Broadcasts, PopHead(m) \/ Unlink(m)
      PROVE  Kept(b) \/ (lock[b] = m /\ pc[Post(m)] \in Searching)
  <2>1. pc[Post(m)] \in Searching
    BY <1>1 DEF PopHead, Unlink, step, Searching
  <2>2. lock[Target(m).bucket] = m
    BY <2>1, SearchFacts
  <2>3. b # Target(m).bucket => Kept(b)
    BY <1>1, PopLists, UnlinkLists
  <2> QED
    BY <2>1, <2>2, <2>3
<1>2. ASSUME NEW c \in Clients, countClient(c)
      PROVE  Kept(b)
  <2>1. PICK to \in {"incStore", "done"} :
          goto(Sse(c), to) /\ pc[Sse(c)] \in {"incLoad", "incStore"} /\ UNCHANGED lists
    BY <1>2 DEF countClient, step
  <2>2. pc'[Sse(c)] = to /\ \A d \in Clients : d # c => pc'[Sse(d)] = pc[Sse(d)]
    BY <1>0, <2>1, SseStep
  <2> QED
    BY <2>1, <2>2, ListsFrame
<1>3. ASSUME NEW m \in Broadcasts, uncountClient(m)
      PROVE  Kept(b)
  <2>1. PICK to : goto(Post(m), to) /\ UNCHANGED lists
    BY <1>3 DEF uncountClient, step
  <2>2. \A c \in Clients : pc'[Sse(c)] = pc[Sse(c)]
    BY <1>0, <2>1, PostStep
  <2> QED
    BY <2>1, <2>2, ListsFrame
<1> QED
  BY <1>1, <1>2, <1>3, CountMoves, LinkLists DEF Uncounted

\* A walk within a bucket whose nodes stay meets the same nodes.
LEMMA WalkKept ==
  ASSUME IInv, NEW b \in Bucket, Kept(b), NEW a \in InBucket(b) \cup {NULL}
  PROVE  NodesFrom(a)' = NodesFrom(a)
<1>1. PICK S : S = InBucket(b)
  OBVIOUS
<1>2. /\ S \in SUBSET Addrs /\ (a # NULL => a \in S)
      /\ \A y \in S : heap'[y] = heap[y]
      /\ \A y \in S : heap[y] # NULL /\ heap[y].next # NULL => heap[y].next \in S
  BY <1>1, BucketNodes DEF Kept, InBucket, Listed
<1>3. From(heap', a) = From(heap, a)
  BY <1>2, FromSame
<1>4. NodesFrom(a)' = From(heap', a)
  BY DEF NodesFrom, Follows, From
<1> QED
  BY <1>3, <1>4, WalksAreFrom

\* The scan sends to the node it is at.
SentTo(m, c) ==
  /\ scanSend(m) /\ c = heap[job[m].iterator].client
  /\ stream' = [stream EXCEPT ![c] = Append(stream[c], m)]

LEMMA StreamStep ==
  ASSUME IInv, Next
  PROVE  \/ stream' = stream
         \/ \E m \in Broadcasts, c \in Clients : SentTo(m, c)
<1>1. ASSUME NEW c \in Clients,
         \/ \E b \in Bucket, a \in Addrs : sseOpened(c, b, a)
         \/ \E a \in Addrs : heap[a] # NULL /\ pushNode(c, a)
         \/ countClient(c)
         \/ peerCloses(c)
         \/ writeFails(c)
      PROVE  stream' = stream
  BY <1>1 DEF sseOpened, pushNode, countClient, peerCloses, writeFails, clients
<1>2. ASSUME NEW m \in Broadcasts, broadcastStarts(m) \/ broadcast(m), ~scanSend(m)
      PROVE  stream' = stream
  BY <1>2 DEF broadcastStarts, broadcast, scanLock, scanCheck, scanUnlock, removeLock,
     removeHead, removeOther, removeCrashes, uncountClient, removeUnlock, broadcastEnds, clients
<1>3. ASSUME NEW m \in Broadcasts, scanSend(m)
      PROVE  stream' = stream \/ \E c \in Clients : SentTo(m, c)
  <2>1. job[m].iterator # NULL /\ pc[Post(m)] \in Scanning
    BY <1>3 DEF IInv, IteratorsOK, IteratorOK, scanSend, step, Scanning
  <2>2. PICK c \in Clients : c = heap[job[m].iterator].client
    BY <2>1, IteratorFacts
  <2>3. stream' = stream \/ stream' = [stream EXCEPT ![c] = Append(@, m)]
    BY <1>3, <2>2 DEF scanSend, clients
  <2>4. [stream EXCEPT ![c] = Append(@, m)] = [stream EXCEPT ![c] = Append(stream[c], m)]
    BY TypeFacts DEF IInv
  <2> QED
    BY <1>3, <2>2, <2>3, <2>4 DEF SentTo
<1> QED
  BY <1>1, <1>2, <1>3 DEF Next

LEMMA SentFacts ==
  ASSUME IInv, NEW m \in Broadcasts, NEW c \in Clients, SentTo(m, c)
  PROVE  /\ stream[c] \in Seq(Broadcasts)
         /\ stream'[c] = Append(stream[c], m) /\ stream'[c] \in Seq(Broadcasts)
         /\ \A d \in Clients : d # c => stream'[d] = stream[d]
         /\ Heard(c)' = Heard(c) \cup {m}
         /\ pc[Post(m)] = "send" /\ lock[job[m].at] = m
         /\ job[m].iterator \in InBucket(job[m].at) /\ heap[job[m].iterator].client = c
         /\ \A a \in Addrs : heap[a] # NULL /\ heap[a].client = c => a = job[m].iterator
<1>1. stream \in [Clients -> Seq(Broadcasts)]
  BY TypeFacts DEF IInv
<1>2. PICK s \in Seq(Broadcasts) : s = stream[c]
  BY <1>1
<1>3. /\ stream'[c] = Append(s, m) /\ Append(s, m) \in Seq(Broadcasts)
      /\ \A d \in Clients : d # c => stream'[d] = stream[d]
  BY SMTT(30), <1>1, <1>2 DEF SentTo
<1>4. {Append(s, m)[i] : i \in DOMAIN Append(s, m)} = {s[i] : i \in DOMAIN s} \cup {m}
  <2>1. /\ DOMAIN Append(s, m) = DOMAIN s \cup {Len(s) + 1}
        /\ \A i \in DOMAIN s : Append(s, m)[i] = s[i]
        /\ Append(s, m)[Len(s) + 1] = m
    OBVIOUS
  <2> QED
    BY <2>1
<1>5. Heard(c)' = Heard(c) \cup {m}
  BY <1>2, <1>3, <1>4 DEF Heard
<1>6. pc[Post(m)] = "send" /\ lock[job[m].at] = m /\ job[m].iterator # NULL
  BY DEF SentTo, scanSend, step, IInv, LocksOK, LockOK, IteratorsOK, IteratorOK, Scanning
<1>7. /\ job[m].iterator \in InBucket(job[m].at) /\ heap[job[m].iterator].client = c
      /\ job[m].iterator \in Addrs /\ heap[job[m].iterator] # NULL
  BY <1>6, IteratorFacts DEF Scanning, SentTo
<1>8. \A a \in Addrs : heap[a] # NULL /\ heap[a].client = c => a = job[m].iterator
  BY <1>7 DEF IInv, NodesOK
<1> QED
  BY <1>2, <1>3, <1>5, <1>6, <1>7, <1>8

LEMMA HeardGrows ==
  ASSUME IInv, Next, NEW c \in Clients
  PROVE  Heard(c) \subseteq Heard(c)'
<1>1. CASE stream' = stream
  BY <1>1 DEF Heard
<1>2. ASSUME NEW m \in Broadcasts, NEW d \in Clients, SentTo(m, d)
      PROVE  Heard(c) \subseteq Heard(c)'
  <2>1. CASE c = d
    BY <1>2, <2>1, SentFacts
  <2>2. CASE c # d
    <3>1. stream'[c] = stream[c]
      BY <1>2, <2>2, SentFacts
    <3> QED
      BY <3>1 DEF Heard
  <2> QED
    BY <2>1, <2>2
<1> QED
  BY <1>1, <1>2, StreamStep

\* How a broadcast comes to scan, and goes on
LEMMA ScanMoves ==
  ASSUME IInv, Next, NEW k \in Broadcasts, pc'[Post(k)] \in Scanning
  PROVE  \/ job'[k] = job[k] /\ pc[Post(k)] \in Scanning /\ ~scanSend(k)
         \/ scanLock(k)
         \/ NoteDead(k) /\ job[k].iterator # NULL /\ UNCHANGED <<lists, lock, clients>>
         \/ scanSend(k)
<1>0. pc \in [Handlers -> Steps]
  BY TypeFacts DEF IInv
<1>1. ASSUME NEW from, NEW to, step(Post(k), from, to)
      PROVE  pc[Post(k)] = from /\ pc'[Post(k)] = to
  BY <1>0, <1>1, PostStep DEF step
<1>2. ASSUME job'[k] = job[k], pc'[Post(k)] = pc[Post(k)]
      PROVE  job'[k] = job[k] /\ pc[Post(k)] \in Scanning /\ ~scanSend(k)
  <2>1. scanSend(k) => pc'[Post(k)] # pc[Post(k)]
    BY ScanSendStep
  <2> QED
    BY <1>2, <2>1
<1>3. ASSUME scanCheck(k)
      PROVE  \/ job'[k] = job[k] /\ pc[Post(k)] \in Scanning /\ ~scanSend(k)
             \/ NoteDead(k) /\ job[k].iterator # NULL /\ UNCHANGED <<lists, lock, clients>>
  <2>1. /\ job[k].iterator # NULL /\ UNCHANGED <<lists, lock, clients>>
        /\ \/ NoteDead(k)
           \/ step(Post(k), "check", "send") /\ UNCHANGED job
    BY <1>3 DEF scanCheck, NoteDead
  <2>2. scanSend(k) => pc[Post(k)] = "send"
    BY ScanSendStep
  <2> QED
    BY <1>1, <2>1, <2>2 DEF Scanning
<1>4. CASE broadcastStarts(k) \/ broadcastEnds(k) \/ removeCrashes(k)
  BY <1>1, <1>4 DEF broadcastStarts, broadcastEnds, removeCrashes, Scanning
<1>5. CASE removeHead(k)
  BY <1>1, <1>5 DEF removeHead, Scanning
<1>6. CASE removeOther(k)
  BY <1>1, <1>6 DEF removeOther, Scanning
<1>7. CASE uncountClient(k)
  BY <1>1, <1>7 DEF uncountClient, Scanning
<1>8. CASE scanUnlock(k) \/ removeLock(k) \/ removeUnlock(k)
  BY <1>8, ScanUnlockStep, RemoveLockStep, RemoveUnlockStep DEF Scanning
<1> QED
  BY <1>2, <1>3, <1>4, <1>5, <1>6, <1>7, <1>8, OwnStep DEF broadcast

\* The bucket of a scan keeps its nodes.
LEMMA ScanKept ==
  ASSUME IInv, Next, NEW k \in Broadcasts, pc[Post(k)] \in Scanning,
         NEW b \in Bucket, b = job[k].at
  PROVE  lock[b] = k /\ Kept(b)
<1>1. lock[b] = k
  BY DEF IInv, LocksOK, LockOK
<1>2. Kept(b) \/ pc[Post(k)] \in Searching
  BY <1>1, KeptStep
<1> QED
  BY <1>1, <1>2 DEF Scanning, Searching

LEMMA ScansStep ==
  ASSUME IInv, ScansOK, [Next]_vars
  PROVE  ScansOK'
<1>0. IInv' /\ heap \in Heaps /\ job \in [Broadcasts -> Job]
  BY StepInv, TypeFacts DEF IInv
<1>1. ASSUME Next, NEW k \in Broadcasts, pc'[Post(k)] \in Scanning
      PROVE  ScanOK(k)'
  <2>1. PICK b \in Bucket : b = job[k].at
    BY <1>0, JobFields
  \* what the scan had passed, it has passed still
  <2>2. ASSUME pc[Post(k)] \in Scanning, job'[k].at = b, job'[k].front = job[k].front,
               NEW i \in InBucket(b) \cup {NULL}, i = job'[k].iterator,
               \A a \in NodesFrom(job[k].iterator) :
                 \/ a \in NodesFrom(i)
                 \/ \E c \in Clients : c = heap[a].client /\ (k \in Heard(c)' \/ peer'[c] = "dead")
        PROVE  ScanOK(k)'
    <3>1. Kept(b)
      BY <1>1, <2>1, <2>2, ScanKept
    <3>2. PICK f \in InBucket(b) \cup {NULL} : f = job[k].front
      BY <1>1, <2>1, <2>2 DEF ScansOK, ScanOK
    <3>3. NodesFrom(i)' = NodesFrom(i) /\ NodesFrom(f)' = NodesFrom(f)
      BY <2>2, <3>1, <3>2, WalkKept
    <3>4. f \in InBucket(b)' \cup {NULL}
      BY <3>1, <3>2 DEF Kept
    <3>5. ASSUME NEW a \in NodesFrom(f)
          PROVE  \/ a \in NodesFrom(i)
                 \/ \E c \in Clients : c = heap'[a].client /\ (k \in Heard(c)' \/ peer'[c] = "dead")
      <4>1. a \in InBucket(b) /\ heap'[a] = heap[a] /\ heap[a].client \in Clients
        BY <1>0, <3>1, <3>2, WalkInBucket, NodeFields DEF Kept, InBucket, Listed
      <4>2. PICK c \in Clients : c = heap[a].client /\ c = heap'[a].client
        BY <4>1
      <4>3. Heard(c) \subseteq Heard(c)' /\ (peer[c] = "dead" => peer'[c] = "dead")
        BY <1>1, HeardGrows, ClientStep
      <4>4. a \in NodesFrom(job[k].iterator) \/ k \in Heard(c) \/ peer[c] = "dead"
        <5>1. ScanOK(k) /\ a \in NodesFrom(job[k].front)
          BY <3>2 DEF ScansOK
        <5>2. a \in NodesFrom(job[k].iterator) \/ k \in Heard(heap[a].client)
                \/ peer[heap[a].client] = "dead"
          BY <2>2, <5>1 DEF ScanOK
        <5> QED
          BY <4>2, <5>2
      <4>5. \/ a \in NodesFrom(i)
            \/ k \in Heard(c)' \/ peer'[c] = "dead"
        BY <2>2, <4>2, <4>3, <4>4
      <4> QED
        BY <4>2, <4>5
    <3>6. \A a \in NodesFrom(f) :
            a \in NodesFrom(i) \/ k \in Heard(heap[a].client)' \/ peer'[heap'[a].client] = "dead"
      BY <3>5 DEF Heard
    <3>7. /\ (job[k].front)' = f /\ (job[k].iterator)' = i /\ (job[k].at)' = b
      BY <2>1, <2>2, <3>2
    <3>8. \A a \in NodesFrom(job[k].front)' :
            \/ a \in NodesFrom(job[k].iterator)'
            \/ k \in Heard(heap[a].client)' \/ peer'[heap'[a].client] = "dead"
      BY <3>3, <3>6, <3>7
    <3>9. (job[k].front)' \in InBucket(job[k].at)' \cup {NULL}
      BY <3>4, <3>7
    <3> QED
      BY <3>8, <3>9 DEF ScanOK
  <2>3. CASE job'[k] = job[k] /\ pc[Post(k)] \in Scanning
    <3>1. PICK i \in InBucket(b) \cup {NULL} : i = job[k].iterator
      BY <2>1, <2>3 DEF IInv, IteratorsOK, IteratorOK
    <3> QED
      BY <2>1, <2>2, <2>3, <3>1
  <2>4. CASE scanLock(k)
    <3>1. job'[k].front = job'[k].iterator
      BY <2>4, ScanLockStep
    <3>2. (job[k].iterator)' \in InBucket(job[k].at)' \cup {NULL}
      BY <1>0, <1>1 DEF IInv, IteratorsOK, IteratorOK
    <3>3. (job[k].front)' \in InBucket(job[k].at)' \cup {NULL}
      BY <3>1, <3>2
    <3>4. NodesFrom(job[k].front)' = NodesFrom(job[k].iterator)'
      BY <3>1
    <3> QED
      BY <3>3, <3>4 DEF ScanOK
  <2>5. CASE NoteDead(k) /\ job[k].iterator # NULL /\ UNCHANGED <<lists, lock, clients>>
    <3>1. /\ pc[Post(k)] = "check" /\ job'[k].at = job[k].at /\ job'[k].front = job[k].front
          /\ job'[k].iterator = heap[job[k].iterator].next
      BY <2>5, NoteDeadStep
    <3>2. PICK a \in InBucket(b) : a = job[k].iterator
      BY <2>1, <2>5, <3>1, IteratorFacts DEF Scanning
    <3>3. PICK i \in InBucket(b) \cup {NULL} : i = heap[a].next
      BY <3>2, BucketNodes
    <3>4. a \in Addrs /\ heap[a] # NULL
      BY <3>2 DEF InBucket, Listed
    <3>5. NodesFrom(a) = {a} \cup NodesFrom(i)
      BY <1>0, <3>3, <3>4, FromUnfold, WalksAreFrom
    <3>6. heap[a].client \in Clients /\ peer'[heap[a].client] = "dead"
      BY <1>0, <2>5, <3>2, <3>4, NodeFields DEF NoteDead, clients
    <3> QED
      BY <2>1, <2>2, <3>1, <3>2, <3>3, <3>5, <3>6 DEF Scanning
  <2>6. CASE scanSend(k)
    <3>1. /\ pc[Post(k)] = "send" /\ job'[k].at = job[k].at /\ job'[k].front = job[k].front
          /\ job[k].iterator # NULL /\ job'[k].iterator = heap[job[k].iterator].next
      BY <2>6, ScanSendStep
    <3>2. PICK a \in InBucket(b) : a = job[k].iterator
      BY <2>1, <3>1, IteratorFacts DEF Scanning
    <3>3. PICK i \in InBucket(b) \cup {NULL} : i = heap[a].next
      BY <3>2, BucketNodes
    <3>4. a \in Addrs /\ heap[a] # NULL
      BY <3>2 DEF InBucket, Listed
    <3>5. NodesFrom(a) = {a} \cup NodesFrom(i)
      BY <1>0, <3>3, <3>4, FromUnfold, WalksAreFrom
    <3>6. PICK c \in Clients : c = heap[a].client
      BY <1>0, <3>4, NodeFields
    <3>7. k \in Heard(c)' \/ peer'[c] = "dead"
      <4>1. CASE stream' = [stream EXCEPT ![c] = Append(@, k)]
        <5>1. [stream EXCEPT ![c] = Append(@, k)] = [stream EXCEPT ![c] = Append(stream[c], k)]
          BY TypeFacts DEF IInv
        <5>2. SentTo(k, c)
          BY <2>6, <3>2, <3>6, <4>1, <5>1 DEF SentTo
        <5> QED
          BY <5>2, SentFacts
      <4>2. CASE peer[c] = "dead" /\ peer' = peer
        BY <4>2
      <4> QED
        BY <2>6, <3>2, <3>6, <4>1, <4>2 DEF scanSend, clients
    <3> QED
      BY <2>1, <2>2, <3>1, <3>2, <3>3, <3>5, <3>6, <3>7 DEF Scanning
  <2> QED
    BY <1>1, <2>3, <2>4, <2>5, <2>6, ScanMoves
<1>2. CASE Next
  <2>1. ASSUME NEW k \in Broadcasts PROVE ScanOK(k)'
    <3>1. CASE pc'[Post(k)] \in Scanning
      BY <1>1, <1>2, <3>1
    <3>2. CASE pc'[Post(k)] \notin Scanning
      BY <3>2 DEF ScanOK
    <3> QED
      BY <3>1, <3>2
  <2> QED
    BY <2>1 DEF ScansOK
<1>3. CASE UNCHANGED vars
  BY <1>3 DEF ScansOK, ScanOK, vars, InBucket, Listed, NodesFrom, Follows, Heard
<1> QED
  BY <1>2, <1>3

\* A scan that gives a bucket back has sent its message to every client that was
\* in the bucket when it took it, but the dead, for any number of buckets,
\* clients and broadcasts: the first loop of c++/sse_server.cpp broadcast.
THEOREM ScanCorrect == Spec => ScanReachesBucket
<1>1. Init => ScansOK
  <2> SUFFICES ASSUME Init PROVE ScansOK
    OBVIOUS
  <2>1. pc = [h \in Handlers |-> "idle"]
    BY DEF Init
  <2> QED
    BY <2>1, HandlerNames DEF ScansOK, ScanOK, Scanning
<1>2. ScansOK /\ IInv /\ [Next]_vars => ScansOK'
  BY ScansStep
<1>3. ASSUME IInv, ScansOK, NEW m \in Broadcasts, scanUnlock(m), NEW a \in NodesFrom(job[m].front)
      PROVE  m \in Heard(heap[a].client) \/ peer[heap[a].client] = "dead"
  <2>1. pc[Post(m)] = "check" /\ job[m].iterator = NULL
    BY <1>3, ScanUnlockStep
  <2>2. NodesFrom(job[m].iterator) = {}
    BY <2>1, FromNull, WalksAreFrom
  <2> QED
    BY <1>3, <2>1, <2>2 DEF ScansOK, ScanOK, Scanning
<1>4. IInv /\ ScansOK =>
        [\A m \in Broadcasts : scanUnlock(m) =>
           \A a \in NodesFrom(job[m].front) :
             LET c == heap[a].client
             IN m \in {stream[c][i] : i \in DOMAIN stream[c]} \/ peer[c] = "dead"]_vars
  BY <1>3 DEF Heard
<1> QED
  BY <1>1, <1>2, <1>4, Inductive, PTL DEF Spec, ScanReachesBucket

----------------------------------------------------------------------------
(* In which order the clients of a bucket are sent the messages            *)

\* A message that is new to s and last in t, if it is there, keeps the order.
LEMMA AppendOrder ==
  ASSUME NEW S, NEW s \in Seq(S), NEW t \in Seq(S), NEW m \in S,
         \A i \in DOMAIN s : s[i] # m,
         \A i \in DOMAIN t : t[i] = m => i = Len(t)
  PROVE  /\ InOrder(s, t) => InOrder(Append(s, m), t)
         /\ InOrder(t, s) => InOrder(t, Append(s, m))
         /\ InOrder(s, s) => InOrder(Append(s, m), Append(s, m))
<1>1. PICK u \in Seq(S) : u = Append(s, m)
  <2>1. Append(s, m) \in Seq(S)
    OBVIOUS
  <2> QED
    BY <2>1
<1>2. /\ DOMAIN u = 1..(Len(s) + 1) /\ DOMAIN s = 1..Len(s) /\ DOMAIN t = 1..Len(t)
      /\ Len(s) \in Nat /\ Len(t) \in Nat
      /\ \A i \in 1..Len(s) : u[i] = s[i]
      /\ u[Len(s) + 1] = m
  BY <1>1
<1>3. ASSUME InOrder(s, t) PROVE InOrder(u, t)
  <2> SUFFICES ASSUME NEW i \in 1..(Len(s) + 1), NEW j \in 1..(Len(s) + 1), i < j,
                      NEW k \in 1..Len(t), NEW l \in 1..Len(t), u[i] = t[k], u[j] = t[l]
               PROVE  k < l
    BY <1>2 DEF InOrder
  <2>1. i \in 1..Len(s) /\ t[k] = s[i]
    BY <1>2
  <2>2. CASE j \in 1..Len(s)
    BY <1>2, <1>3, <2>1, <2>2 DEF InOrder
  <2>3. CASE j = Len(s) + 1
    <3>1. l = Len(t) /\ t[k] # m /\ t[l] = m
      BY <1>2, <2>1, <2>3
    <3>2. k # l
      BY <3>1
    <3>3. Len(t) \in Nat
      BY <1>2
    <3> QED
      BY <3>1, <3>2, <3>3
  <2> QED
    BY <1>2, <2>2, <2>3
<1>4. ASSUME InOrder(t, s) PROVE InOrder(t, u)
  <2> SUFFICES ASSUME NEW i \in 1..Len(t), NEW j \in 1..Len(t), i < j,
                      NEW k \in 1..(Len(s) + 1), NEW l \in 1..(Len(s) + 1), t[i] = u[k], t[j] = u[l]
               PROVE  k < l
    BY <1>2 DEF InOrder
  <2>1. k # Len(s) + 1
    BY <1>2
  <2>2. k \in 1..Len(s)
    BY <1>2, <2>1
  <2>3. CASE l \in 1..Len(s)
    BY <1>2, <1>4, <2>2, <2>3 DEF InOrder
  <2>4. CASE l = Len(s) + 1
    BY <1>2, <2>2, <2>4
  <2> QED
    BY <1>2, <2>3, <2>4
<1>5. ASSUME InOrder(s, s) PROVE InOrder(u, u)
  <2> SUFFICES ASSUME NEW i \in 1..(Len(s) + 1), NEW j \in 1..(Len(s) + 1), i < j,
                      NEW k \in 1..(Len(s) + 1), NEW l \in 1..(Len(s) + 1), u[i] = u[k], u[j] = u[l]
               PROVE  k < l
    BY <1>2 DEF InOrder
  <2>1. i \in 1..Len(s) /\ u[i] = s[i] /\ u[i] # m
    BY <1>2
  <2>2. k # Len(s) + 1
    BY <1>2, <2>1
  <2>3. k \in 1..Len(s) /\ u[k] = s[k]
    <3>1. \A n \in Nat : \A x \in 1..(n + 1) : x # n + 1 => x \in 1..n
      OBVIOUS
    <3>2. Len(s) \in Nat
      BY <1>2
    <3>3. k \in 1..Len(s)
      BY <2>2, <3>1, <3>2
    <3> QED
      BY <1>2, <3>3
  <2>4. CASE l = Len(s) + 1
    BY <1>2, <2>3, <2>4
  <2>5. CASE l \in 1..Len(s)
    <3>1. u[l] = s[l] /\ u[l] # m
      BY <1>2, <2>5
    <3>2. j # Len(s) + 1
      BY <1>2, <3>1
    <3>3. j \in 1..Len(s) /\ u[j] = s[j]
      BY SMTT(30), <1>2, <3>2
    <3> QED
      BY <1>2, <1>5, <2>1, <2>3, <2>5, <3>1, <3>3 DEF InOrder
  <2> QED
    BY <1>2, <2>4, <2>5
<1> QED
  BY <1>1, <1>3, <1>4, <1>5

\* How a broadcast moves between the buckets of its scan
LEMMA PhaseStep ==
  ASSUME IInv, Next, NEW k \in Broadcasts
  PROVE  \/ pc'[Post(k)] = pc[Post(k)] /\ job'[k].at = job[k].at
         \/ pc[Post(k)] = "idle" /\ pc'[Post(k)] = "scan" /\ job'[k].at = job[k].at
         \/ scanLock(k)
         \/ /\ pc[Post(k)] \in Scanning /\ pc'[Post(k)] \in Scanning
            /\ job'[k].at = job[k].at
         \/ /\ pc[Post(k)] = "check" /\ pc'[Post(k)] = "scan"
            /\ job'[k].at = job[k].at + 1
         \/ /\ pc[Post(k)] = "check" /\ pc'[Post(k)] = "clean"
            /\ job[k].at = Buckets
         \/ /\ pc[Post(k)] \notin {"idle", "scan"} \cup Scanning
            /\ pc'[Post(k)] \notin {"idle", "scan"} \cup Scanning
<1>0. pc \in [Handlers -> Steps] /\ job \in [Broadcasts -> Job] /\ job[k] \in Job
  BY TypeFacts DEF IInv
<1>1. ASSUME NEW from, NEW to, step(Post(k), from, to)
      PROVE  pc[Post(k)] = from /\ pc'[Post(k)] = to
  BY <1>0, <1>1, PostStep DEF step
<1>2. CASE broadcastStarts(k)
  BY <1>1, <1>2 DEF broadcastStarts
<1>3. CASE scanCheck(k)
  <2>1. /\ job[k].iterator # NULL /\ UNCHANGED lock
        /\ NoteDead(k) \/ (step(Post(k), "check", "send") /\ UNCHANGED job)
    BY <1>3 DEF scanCheck, NoteDead
  <2> QED
    BY <1>1, <2>1, NoteDeadStep DEF Scanning
<1>4. CASE scanSend(k)
  BY <1>4, ScanSendStep DEF Scanning
<1>5. CASE scanUnlock(k)
  <2>1. CASE /\ step(Post(k), "check", "scan")
             /\ job' = [job EXCEPT ![k].at = job[k].at + 1, ![k].front = NULL]
    <3>1. job'[k] = [job[k] EXCEPT !.at = job[k].at + 1, !.front = NULL]
      BY <1>0, <2>1
    <3>2. job'[k].at = job[k].at + 1
      BY <1>0, <3>1 DEF Job
    <3> QED
      BY <1>1, <2>1, <3>2
  <2>2. CASE step(Post(k), "check", "clean") /\ job[k].at = Buckets
    BY <1>1, <2>2
  <2> QED
    BY <1>5, <2>1, <2>2 DEF scanUnlock
<1>6. CASE removeLock(k) \/ removeUnlock(k)
  BY <1>6, RemoveLockStep, RemoveUnlockStep DEF Scanning
<1>7. CASE removeHead(k)
  BY <1>1, <1>7 DEF removeHead, Scanning
<1>8. CASE removeOther(k)
  BY <1>1, <1>8 DEF removeOther, Scanning
<1>9. CASE uncountClient(k)
  BY <1>1, <1>9 DEF uncountClient, Scanning
<1>10. CASE removeCrashes(k) \/ broadcastEnds(k)
  BY <1>1, <1>10 DEF removeCrashes, broadcastEnds, Scanning
<1> QED
  BY <1>2, <1>3, <1>4, <1>5, <1>6, <1>7, <1>8, <1>9, <1>10, OwnStep DEF broadcast

LEMMA VisitedStays ==
  ASSUME IInv, Next, NEW k \in Broadcasts, NEW b \in Bucket, Visited(k, b)
  PROVE  Visited(k, b)'
<1>1. job[k].at \in Int /\ b \in Int /\ b <= Buckets
  BY TypeFacts, JobFields, CppAssumption DEF IInv, Bucket
<1>2. CASE scanLock(k)
  BY <1>2, ScanLockStep DEF Visited
<1>3. CASE ~scanLock(k)
  BY <1>1, <1>3, PhaseStep DEF Visited, Scanning
<1> QED
  BY <1>2, <1>3

LEMMA MemberFacts ==
  ASSUME IInv, NEW b \in Bucket, NEW c \in Members(b)
  PROVE  /\ c \in Clients /\ pc[Sse(c)] \notin {"idle", "cas"}
         /\ \E a \in InBucket(b) : heap[a].client = c /\ heap[a] # NULL /\ a \in Addrs
BY DEF Members, InBucket, Listed, IInv, NodesOK

\* Who is new in a bucket had not been pushed.
LEMMA MembersStep ==
  ASSUME IInv, Next, NEW b \in Bucket, NEW c, c \in Members(b)'
  PROVE  c \in Clients /\ (c \in Members(b) \/ pc[Sse(c)] \in {"idle", "cas"})
<1>1. PICK a \in Addrs : /\ c \in Clients /\ heap'[a] # NULL
                         /\ heap'[a].client = c /\ heap'[a].bucket = b
  BY DEF Members, InBucket, Listed
<1>2. \/ heap[a] # NULL /\ heap[a].client = c /\ heap[a].bucket = b
      \/ pc[Sse(c)] = "idle"
  BY <1>1, HeapStep
<1> QED
  BY <1>1, <1>2 DEF Members, InBucket, Listed

\* A client is sent a message by the broadcast that stands on its node.
LEMMA HearStep ==
  ASSUME IInv, Next, NEW c \in Clients
  PROVE  stream'[c] = stream[c] \/ \E m \in Broadcasts : SentTo(m, c)
<1>1. ASSUME NEW m \in Broadcasts, NEW d \in Clients, SentTo(m, d), c # d
      PROVE  stream'[c] = stream[c]
  BY <1>1, SentFacts
<1> QED
  BY <1>1, StreamStep

LEMMA SentMember ==
  ASSUME IInv, NEW m \in Broadcasts, NEW c \in Clients, SentTo(m, c)
  PROVE  /\ pc[Post(m)] = "send" /\ job[m].at \in Bucket /\ lock[job[m].at] = m
         /\ c \in Members(job[m].at) /\ c \in Ahead(m)
         /\ \A b \in Bucket : c \in Members(b) => b = job[m].at
<1>1. PICK a : a = job[m].iterator
  OBVIOUS
<1>2. /\ a \in InBucket(job[m].at) /\ heap[a].client = c /\ pc[Post(m)] = "send"
      /\ lock[job[m].at] = m
      /\ \A x \in Addrs : heap[x] # NULL /\ heap[x].client = c => x = a
  BY <1>1, SentFacts
<1>3. job[m].at \in Bucket /\ heap \in Heaps
  BY TypeFacts, JobFields DEF IInv
<1>4. a \in Addrs /\ heap[a] # NULL /\ heap[a].bucket = job[m].at
  BY <1>2 DEF InBucket, Listed
<1>5. a \in NodesFrom(job[m].iterator)
  BY <1>1, <1>3, <1>4, FromUnfold, WalksAreFrom
<1>6. \A b \in Bucket : c \in Members(b) => b = job[m].at
  BY <1>2, <1>4 DEF Members, InBucket, Listed
<1> QED
  BY <1>2, <1>3, <1>5, <1>6 DEF Members, Ahead

\* A client that is not pushed yet is sent nothing.
LEMMA EmptyStays ==
  ASSUME IInv, Next, NEW c \in Clients, pc[Sse(c)] \in {"idle", "cas"}
  PROVE  stream'[c] = stream[c]
<1>1. ASSUME NEW m \in Broadcasts, SentTo(m, c) PROVE FALSE
  <2>1. job[m].at \in Bucket /\ c \in Members(job[m].at)
    BY <1>1, SentMember
  <2> QED
    BY <2>1, MemberFacts
<1> QED
  BY <1>1, HearStep

\* Nobody else sends to the clients of the bucket that a scan holds.
LEMMA HeldStep ==
  ASSUME IInv, Next, NEW k \in Broadcasts, pc[Post(k)] \in Scanning,
         NEW b \in Bucket, b = job[k].at, NEW c \in Members(b),
         stream'[c] # stream[c]
  PROVE  SentTo(k, c)
<1>1. c \in Clients
  BY DEF Members
<1>2. PICK m \in Broadcasts : SentTo(m, c)
  BY <1>1, HearStep
<1>3. lock[b] = m
  BY <1>1, <1>2, SentMember
<1>4. lock[b] = k
  BY ScanKept
<1> QED
  BY <1>2, <1>3, <1>4

LEMMA AheadInBucket ==
  ASSUME IInv, NEW k \in Broadcasts, pc[Post(k)] \in Scanning
  PROVE  Ahead(k) \subseteq Members(job[k].at)
<1>1. PICK b \in Bucket : b = job[k].at
  BY TypeFacts, JobFields DEF IInv
<1>2. PICK i \in InBucket(b) \cup {NULL} : i = job[k].iterator
  BY <1>1 DEF IInv, IteratorsOK, IteratorOK
<1>3. NodesFrom(i) \subseteq InBucket(b)
  BY WalkInBucket
<1> QED
  BY <1>1, <1>2, <1>3 DEF Ahead, Members

LEMMA VisitStep ==
  ASSUME IInv, OrdersOK, Next, NEW k \in Broadcasts
  PROVE  VisitOK(k)'
<1>1. ASSUME NEW b \in Bucket, NEW c, c \in Members(b)', k \in Heard(c)'
      PROVE  Visited(k, b)'
  <2>1. c \in Clients /\ (c \in Members(b) \/ pc[Sse(c)] \in {"idle", "cas"})
    BY <1>1, MembersStep
  <2>2. CASE pc[Sse(c)] \in {"idle", "cas"}
    <3>1. stream'[c] = stream[c] /\ stream[c] = <<>>
      BY <2>1, <2>2, EmptyStays DEF OrdersOK
    <3> QED
      BY <1>1, <3>1 DEF Heard
  <2>3. CASE c \in Members(b) /\ k \in Heard(c)
    <3>1. Visited(k, b)
      BY <2>3 DEF OrdersOK, VisitOK
    <3> QED
      BY <3>1, VisitedStays
  <2>4. CASE c \in Members(b) /\ k \notin Heard(c)
    <3>1. stream'[c] # stream[c]
      BY <1>1, <2>4 DEF Heard
    <3>2. PICK m \in Broadcasts : SentTo(m, c)
      BY <2>1, <3>1, HearStep
    <3>3. m = k
      BY <1>1, <2>1, <2>4, <3>2, SentFacts
    <3>4. pc[Post(k)] = "send" /\ b = job[k].at /\ job[k].at \in Bucket
      BY <2>1, <2>4, <3>2, <3>3, SentMember
    <3>5. b \in Int /\ b <= job[k].at
      BY <3>4, CppAssumption DEF Bucket
    <3>6. Visited(k, b)
      BY <3>4, <3>5 DEF Visited
    <3> QED
      BY <3>6, VisitedStays
  <2> QED
    BY <2>1, <2>2, <2>3, <2>4
<1> QED
  BY <1>1 DEF VisitOK

\* While a scan holds a bucket, nothing is sent to the clients there but by it.
LEMMA LastKept ==
  ASSUME IInv, OrdersOK, Next, NEW k \in Broadcasts, pc[Post(k)] \in Scanning,
         NEW b \in Bucket, b = job[k].at, b = job'[k].at,
         \A c \in Clients : c \in Ahead(k)' => c \in Ahead(k) /\ ~SentTo(k, c)
  PROVE  LastOK(k)'
<1>0. stream \in [Clients -> Seq(Broadcasts)]
  BY TypeFacts DEF IInv
<1>1. ASSUME NEW c, c \in Members(b)', NEW i \in DOMAIN stream'[c], stream'[c][i] = k
      PROVE  i = Len(stream'[c])
  <2>1. c \in Clients /\ (c \in Members(b) \/ pc[Sse(c)] \in {"idle", "cas"})
    BY <1>1, MembersStep
  <2>2. CASE pc[Sse(c)] \in {"idle", "cas"}
    <3>1. stream'[c] = stream[c] /\ stream[c] = <<>>
      BY <2>1, <2>2, EmptyStays DEF OrdersOK
    <3> QED
      BY <1>1, <3>1
  <2>3. CASE c \in Members(b) /\ stream'[c] = stream[c]
    BY <1>1, <2>3 DEF OrdersOK, LastOK
  <2>4. CASE c \in Members(b) /\ stream'[c] # stream[c]
    <3>1. SentTo(k, c)
      BY <2>4, HeldStep
    <3>2. c \in Ahead(k)
      BY <2>1, <3>1, SentMember
    <3>3. k \notin Heard(c)
      BY <3>2 DEF OrdersOK, LastOK
    <3>4. PICK s \in Seq(Broadcasts) : s = stream[c]
      BY <1>0, <2>1
    <3>5. stream'[c] = Append(s, k)
      BY <2>1, <3>1, <3>4, SentFacts
    <3>6. \A n \in DOMAIN s : s[n] # k
      BY <3>3, <3>4 DEF Heard
    <3>7. \A n \in DOMAIN Append(s, k) : Append(s, k)[n] = k => n = Len(Append(s, k))
      BY <3>6
    <3> QED
      BY <1>1, <3>5, <3>7
  <2> QED
    BY <2>1, <2>2, <2>3, <2>4
<1>2. ASSUME NEW c, c \in Ahead(k)'
      PROVE  k \notin Heard(c)'
  <2>1. c \in Clients
    BY <1>2 DEF Ahead
  <2>2. c \in Ahead(k) /\ ~SentTo(k, c)
    BY <1>2, <2>1
  <2>3. stream'[c] = stream[c]
    BY <2>2, AheadInBucket, HeldStep
  <2>4. k \notin Heard(c)
    BY <2>2 DEF OrdersOK, LastOK
  <2> QED
    BY <2>3, <2>4 DEF Heard
<1>3. (job[k].at)' = b
  OBVIOUS
<1>4. \A c \in Members(job[k].at)' :
        \A i \in DOMAIN stream'[c] : stream'[c][i] = k => i = Len(stream'[c])
  BY <1>1, <1>3
<1> QED
  BY <1>2, <1>4 DEF LastOK

\* What is ahead of a scan after a step that moves its iterator to i
LEMMA AheadStep ==
  ASSUME IInv, Next, NEW k \in Broadcasts, pc[Post(k)] \in Scanning,
         NEW b \in Bucket, b = job[k].at,
         NEW i \in InBucket(b) \cup {NULL}, i = job'[k].iterator,
         NEW c, c \in Ahead(k)'
  PROVE  c \in Clients /\ \E a \in NodesFrom(i) : a \in InBucket(b) /\ heap[a].client = c
<1>1. Kept(b)
  BY ScanKept
<1>2. NodesFrom(i)' = NodesFrom(i) /\ NodesFrom(i) \subseteq InBucket(b)
  BY <1>1, WalkKept, WalkInBucket
<1>3. Ahead(k)' = {d \in Clients : \E a \in NodesFrom(i)' : heap'[a].client = d}
  BY DEF Ahead
<1> QED
  BY <1>1, <1>2, <1>3 DEF Kept

LEMMA LastStep ==
  ASSUME IInv, OrdersOK, Next, NEW k \in Broadcasts
  PROVE  LastOK(k)'
<1>0. IInv' /\ heap \in Heaps /\ job \in [Broadcasts -> Job]
  BY StepInv, TypeFacts DEF IInv
<1>1. PICK b \in Bucket : b = job[k].at
  BY <1>0, JobFields
<1>2. CASE job'[k] = job[k] /\ pc[Post(k)] \in Scanning /\ ~scanSend(k)
  <2>1. PICK i \in InBucket(b) \cup {NULL} : i = job[k].iterator
    BY <1>1, <1>2 DEF IInv, IteratorsOK, IteratorOK
  <2>2. ASSUME NEW c, c \in Ahead(k)' PROVE c \in Ahead(k) /\ ~SentTo(k, c)
    <3>1. c \in Clients /\ \E a \in NodesFrom(i) : heap[a].client = c
      BY <1>1, <1>2, <2>1, <2>2, AheadStep
    <3> QED
      BY <1>2, <2>1, <3>1 DEF Ahead, SentTo
  <2> QED
    BY <1>1, <1>2, <2>2, LastKept
<1>3. CASE scanLock(k)
  <2>1. /\ pc[Post(k)] = "scan" /\ job'[k].at = b /\ pc'[Post(k)] = "check"
        /\ stream' = stream
    BY <1>1, <1>3, ScanLockStep DEF scanLock, clients
  <2>2. ASSUME NEW c, c \in Members(b)' PROVE k \notin Heard(c)'
    <3>1. c \in Clients /\ (c \in Members(b) \/ pc[Sse(c)] \in {"idle", "cas"})
      BY <2>2, MembersStep
    <3>2. CASE pc[Sse(c)] \in {"idle", "cas"}
      <4>1. stream'[c] = <<>>
        BY <2>1, <3>1, <3>2 DEF OrdersOK
      <4> QED
        BY <4>1 DEF Heard
    <3>3. CASE c \in Members(b)
      <4>1. ~Visited(k, b)
        BY <1>1, <2>1 DEF Visited
      <4>2. k \notin Heard(c)
        BY <3>3, <4>1 DEF OrdersOK, VisitOK
      <4> QED
        BY <2>1, <4>2 DEF Heard
    <3> QED
      BY <3>1, <3>2, <3>3
  <2>3. Ahead(k)' \subseteq Members(job[k].at)'
    <3>1. PICK i \in InBucket(b) \cup {NULL} : i = head[b]
      BY BucketNodes
    <3>2. lock[b] = NULL /\ job'[k].iterator = i /\ (job[k].at)' = b
      BY <1>1, <1>3, <2>1, <3>1, ScanLockStep DEF scanLock, take
    <3>3. Kept(b)
      BY <3>2, KeptStep, CppAssumption DEF Broadcasts
    <3>4. NodesFrom(i)' = NodesFrom(i) /\ NodesFrom(i) \subseteq InBucket(b)
      BY <3>3, WalkKept, WalkInBucket
    <3>5. Ahead(k)' = {c \in Clients : \E a \in NodesFrom(i)' : heap'[a].client = c}
      BY <3>2 DEF Ahead
    <3>6. Members(b)' = {c \in Clients : \E a \in InBucket(b)' : heap'[a].client = c}
      BY DEF Members
    <3>7. Ahead(k)' \subseteq Members(b)'
      BY <3>3, <3>4, <3>5, <3>6 DEF Kept
    <3> QED
      BY <3>2, <3>7
  <2>4. (job[k].at)' = b
    BY <2>1
  <2>5. \A c \in Members(job[k].at)' : k \notin Heard(c)'
    BY <2>2, <2>4
  <2>6. \A c \in Members(job[k].at)' : \A i \in DOMAIN stream'[c] : stream'[c][i] # k
    BY <2>5 DEF Heard
  <2> QED
    BY <2>3, <2>5, <2>6 DEF LastOK
<1>4. CASE \/ NoteDead(k) /\ job[k].iterator # NULL /\ UNCHANGED <<lists, lock, clients>>
           \/ scanSend(k)
  <2>1. /\ pc[Post(k)] \in Scanning /\ job'[k].at = job[k].at
        /\ job[k].iterator # NULL /\ job'[k].iterator = heap[job[k].iterator].next
    BY <1>4, NoteDeadStep, ScanSendStep DEF Scanning
  <2>2. PICK a \in InBucket(b) : a = job[k].iterator
    BY <1>1, <2>1, IteratorFacts
  <2>3. PICK i \in InBucket(b) \cup {NULL} : i = heap[a].next
    BY <2>2, BucketNodes
  <2>4. a \in Addrs /\ heap[a] # NULL /\ a \in Listed
    BY <2>2 DEF InBucket, Listed
  <2>5. NodesFrom(a) = {a} \cup NodesFrom(i) /\ a \notin NodesFrom(i)
    BY <1>0, <2>3, <2>4, FromUnfold, WalksAreFrom, NoLoop
  <2>6. ASSUME NEW c, c \in Ahead(k)' PROVE c \in Ahead(k) /\ ~SentTo(k, c)
    <3>1. PICK x \in NodesFrom(i) : c \in Clients /\ x \in InBucket(b) /\ heap[x].client = c
      BY <1>1, <2>1, <2>2, <2>3, <2>6, AheadStep
    <3>2. x # a /\ x \in Addrs /\ heap[x] # NULL
      BY <2>5, <3>1 DEF InBucket, Listed
    <3>3. ~SentTo(k, c)
      BY <2>2, <3>1, <3>2, SentFacts
    <3>4. x \in NodesFrom(job[k].iterator)
      BY <2>2, <2>5
    <3> QED
      BY <3>1, <3>3, <3>4 DEF Ahead
  <2> QED
    BY <1>1, <2>1, <2>6, LastKept
<1>5. CASE pc'[Post(k)] \notin Scanning
  BY <1>5 DEF LastOK
<1> QED
  BY <1>2, <1>3, <1>4, <1>5, ScanMoves

LEMMA SharedStep ==
  ASSUME IInv, OrdersOK, Next, NEW b \in Bucket, NEW c, c \in Members(b)',
         NEW d, d \in Members(b)'
  PROVE  InOrder(stream'[c], stream'[d])
<1>0. stream \in [Clients -> Seq(Broadcasts)]
  BY TypeFacts DEF IInv
<1>1. /\ c \in Clients /\ (c \in Members(b) \/ pc[Sse(c)] \in {"idle", "cas"})
      /\ d \in Clients /\ (d \in Members(b) \/ pc[Sse(d)] \in {"idle", "cas"})
  BY MembersStep
<1>2. CASE pc[Sse(c)] \in {"idle", "cas"} \/ pc[Sse(d)] \in {"idle", "cas"}
  <2>1. stream'[c] = <<>> \/ stream'[d] = <<>>
    BY <1>1, <1>2, EmptyStays DEF OrdersOK
  <2> QED
    BY <2>1 DEF InOrder
<1>3. CASE c \in Members(b) /\ d \in Members(b)
  <2>1. PICK s \in Seq(Broadcasts), t \in Seq(Broadcasts) : s = stream[c] /\ t = stream[d]
    BY <1>0, <1>1
  <2>2. InOrder(s, t) /\ InOrder(t, s) /\ InOrder(s, s) /\ InOrder(t, t)
    BY <1>3, <2>1 DEF OrdersOK
  \* the message a client is sent is new to it, and the last of the others' streams
  <2>3. ASSUME NEW m \in Broadcasts, NEW x \in Members(b), SentTo(m, x), NEW y \in Members(b)
        PROVE  /\ \A i \in DOMAIN stream[x] : stream[x][i] # m
               /\ \A i \in DOMAIN stream[y] : stream[y][i] = m => i = Len(stream[y])
    <3>1. x \in Clients
      BY DEF Members
    <3>2. pc[Post(m)] \in Scanning /\ b = job[m].at /\ x \in Ahead(m)
      BY <2>3, <3>1, SentMember DEF Scanning
    <3>3. m \notin Heard(x)
      BY <3>2 DEF OrdersOK, LastOK
    <3>4. \A i \in DOMAIN stream[y] : stream[y][i] = m => i = Len(stream[y])
      BY <3>2 DEF OrdersOK, LastOK
    <3> QED
      BY <3>3, <3>4 DEF Heard
  <2>4. CASE stream'[c] = s /\ stream'[d] = t
    BY <2>2, <2>4
  <2>5. ASSUME NEW m \in Broadcasts, SentTo(m, c)
        PROVE  InOrder(stream'[c], stream'[d])
    <3>1. stream'[c] = Append(s, m)
      BY <1>1, <2>1, <2>5, SentFacts
    <3>2. /\ \A i \in DOMAIN s : s[i] # m
          /\ \A i \in DOMAIN t : t[i] = m => i = Len(t)
      BY <1>3, <2>1, <2>3, <2>5
    <3>3. InOrder(Append(s, m), t) /\ InOrder(Append(s, m), Append(s, m))
      BY <2>2, <3>2, AppendOrder
    <3>4. stream'[d] = t \/ d = c
      BY <1>1, <2>1, <2>5, SentFacts
    <3> QED
      BY <3>1, <3>3, <3>4
  <2>6. ASSUME NEW m \in Broadcasts, SentTo(m, d), c # d
        PROVE  InOrder(stream'[c], stream'[d])
    <3>1. stream'[d] = Append(t, m) /\ stream'[c] = s
      BY <1>1, <2>1, <2>6, SentFacts
    <3>2. /\ \A i \in DOMAIN t : t[i] # m
          /\ \A i \in DOMAIN s : s[i] = m => i = Len(s)
      BY <1>3, <2>1, <2>3, <2>6
    <3>3. InOrder(s, Append(t, m))
      BY <2>2, <3>2, AppendOrder
    <3> QED
      BY <3>1, <3>3
  <2>7. /\ stream'[c] = stream[c] \/ \E m \in Broadcasts : SentTo(m, c)
        /\ stream'[d] = stream[d] \/ \E m \in Broadcasts : SentTo(m, d)
    BY <1>1, HearStep
  <2> QED
    BY <2>1, <2>4, <2>5, <2>6, <2>7
<1> QED
  BY <1>1, <1>2, <1>3

LEMMA OrdersInv == Spec => []OrdersOK
<1>1. Init => OrdersOK
  <2> SUFFICES ASSUME Init PROVE OrdersOK
    OBVIOUS
  <2>1. /\ pc = [h \in Handlers |-> "idle"] /\ heap = [a \in Addrs |-> NULL]
        /\ stream = [c \in Clients |-> <<>>]
    BY DEF Init
  <2>2. \A m \in Broadcasts : LastOK(m)
    BY <2>1, HandlerNames DEF LastOK, Scanning
  <2>3. \A b \in Bucket : Members(b) = {}
    BY <2>1 DEF Members, InBucket, Listed
  <2> QED
    BY <2>1, <2>2, <2>3 DEF OrdersOK, VisitOK
<1>2. OrdersOK /\ IInv /\ [Next]_vars => OrdersOK'
  <2>1. ASSUME OrdersOK, IInv, Next PROVE OrdersOK'
    <3>1. \A m \in Broadcasts : VisitOK(m)' /\ LastOK(m)'
      BY <2>1, VisitStep, LastStep
    <3>2. ASSUME NEW c \in Clients, pc'[Sse(c)] \in {"idle", "cas"} PROVE stream'[c] = <<>>
      <4>1. pc[Sse(c)] \in {"idle", "cas"}
        BY <2>1, <3>2, ClientStep
      <4> QED
        BY <2>1, <4>1, EmptyStays DEF OrdersOK
    <3>3. \A b \in Bucket : \A c, d \in Members(b)' : InOrder(stream'[c], stream'[d])
      BY <2>1, SharedStep
    <3>4. \A b \in Bucket : \A c, d \in Members(b)' : InOrder(stream[c], stream[d])'
      BY <3>3 DEF InOrder
    <3> QED
      BY <3>1, <3>2, <3>4 DEF OrdersOK
  <2>2. ASSUME OrdersOK, UNCHANGED vars PROVE OrdersOK'
    BY <2>2 DEF OrdersOK, VisitOK, LastOK, Visited, Members, Ahead, InBucket, Listed,
       NodesFrom, Follows, Heard, InOrder, vars
  <2> QED
    BY <2>1, <2>2
<1> QED
  BY <1>1, <1>2, Inductive, PTL DEF Spec

\* Two clients of a bucket get the messages they share in the same order, and
\* none twice, for any number of buckets, clients and broadcasts: the scans of
\* c++/sse_server.cpp broadcast hold a bucket's mutex from its head to its end.
THEOREM OrderCorrect == Spec => []SameOrderInBucket
<1>1. IInv /\ OrdersOK => SameOrderInBucket
  <2> SUFFICES ASSUME IInv, OrdersOK, NEW b \in Bucket, NEW x \in Nodes(b), NEW y \in Nodes(b)
               PROVE  InOrder(stream[heap[x].client], stream[heap[y].client])
    BY DEF SameOrderInBucket, InOrder
  <2>1. x \in InBucket(b) /\ y \in InBucket(b)
    BY NodesAreBucket
  <2>2. heap[x].client \in Members(b) /\ heap[y].client \in Members(b)
    BY <2>1, TypeFacts, NodeFields DEF IInv, Members, InBucket, Listed
  <2> QED
    BY <2>2 DEF OrdersOK
<1> QED
  BY <1>1, Inductive, OrdersInv, PTL
----------------------------------------------------------------------------
(* Each bucket implements SseBroadcast                                     *)

\* A broadcast that has not begun is at the first bucket.
FreshOK == \A m \in Broadcasts : pc[Post(m)] = "idle" => job[m].at = 1

LEMMA FreshInv == Spec => []FreshOK
<1>1. Init => FreshOK
  BY HandlerNames DEF Init, FreshOK
<1>2. IInv /\ FreshOK /\ [Next]_vars => FreshOK'
  <2>1. ASSUME IInv, FreshOK, Next, NEW k \in Broadcasts, pc'[Post(k)] = "idle"
        PROVE  job'[k].at = 1
    <3>1. CASE scanLock(k)
      BY <2>1, <3>1, ScanLockStep
    <3>2. CASE ~scanLock(k)
      BY <2>1, <3>2, PhaseStep DEF FreshOK, Scanning
    <3> QED
      BY <3>1, <3>2
  <2>2. ASSUME FreshOK, UNCHANGED vars PROVE FreshOK'
    BY <2>2 DEF FreshOK, vars
  <2> QED
    BY <2>1, <2>2 DEF FreshOK
<1> QED
  BY <1>1, <1>2, Inductive, PTL DEF Spec

\* A broadcast takes a bucket by locking it, and in no other way.
LEMMA VisitedStep ==
  ASSUME IInv, FreshOK, Next, NEW k \in Broadcasts, NEW b \in Bucket
  PROVE  Visited(k, b)' <=> Visited(k, b) \/ (scanLock(k) /\ b = job[k].at)
<1>1. job[k].at \in Int /\ b \in Int /\ 1 <= b /\ b <= Buckets
  BY TypeFacts, JobFields, CppAssumption DEF IInv, Bucket
<1>2. CASE scanLock(k)
  BY <1>1, <1>2, ScanLockStep DEF Visited
<1>3. CASE ~scanLock(k)
  BY <1>1, <1>3, PhaseStep DEF Visited, Scanning, FreshOK
<1> QED
  BY <1>2, <1>3

\* The members of a bucket change when a node is linked or taken out.
Emptied(m, b, c) ==
  /\ PopHead(m) \/ Unlink(m)
  /\ b = Target(m).bucket /\ Members(b)' = Members(b) \ {c}
  /\ \A q \in Bucket : q # b => Members(q)' = Members(q)
Joined(c, b) ==
  /\ pc[Sse(c)] = "cas"
  /\ Members(b)' = Members(b) \cup {c}
  /\ \A q \in Bucket : q # b => Members(q)' = Members(q)

LEMMA MembersKept ==
  ASSUME IInv, Listed' = Listed, \A q \in Bucket : Kept(q)
  PROVE  \A b \in Bucket : Members(b)' = Members(b) /\ InBucket(b)' = InBucket(b)
<1>1. \A x \in Listed : heap[x].bucket \in Bucket
  BY TypeFacts, NodeFields DEF IInv, Listed
<1>2. \A x \in Listed : heap'[x] = heap[x]
  BY <1>1 DEF Kept, InBucket
<1>3. \A b \in Bucket : InBucket(b)' = InBucket(b)
  BY <1>2 DEF InBucket
<1> QED
  BY <1>2, <1>3 DEF Members, InBucket

LEMMA MemberMoves ==
  ASSUME IInv, Next
  PROVE  \/ \A b \in Bucket : Members(b)' = Members(b)
         \/ \E c \in Clients, b \in Bucket : Joined(c, b)
         \/ \E m \in Broadcasts, b \in Bucket, c \in Clients : Emptied(m, b, c)
<1>0. heap \in Heaps /\ pc \in [Handlers -> Steps]
  BY TypeFacts DEF IInv
<1>1. CASE Uncounted
  BY <1>1, MembersKept DEF Uncounted
<1>2. ASSUME NEW c \in Clients, NEW a \in Addrs, heap[a] # NULL, LinkNode(c, a)
      PROVE  \E b \in Bucket : Joined(c, b)
  <2>1. PICK b \in Bucket : b = heap[a].bucket
    BY <1>0, <1>2, NodeFields
  <2>2. /\ heap' = heap /\ Listed' = Listed \cup {a} /\ heap[a].client = c
        /\ pc[Sse(c)] = "cas"
    BY <1>2, LinkLists DEF LinkNode
  <2>3. InBucket(b)' = InBucket(b) \cup {a}
    BY <2>1, <2>2 DEF InBucket
  <2>4. \A q \in Bucket : q # b => InBucket(q)' = InBucket(q)
    BY <2>1, <2>2 DEF InBucket
  <2>5. Members(b)' = Members(b) \cup {c}
    BY <2>2, <2>3 DEF Members
  <2>6. \A q \in Bucket : q # b => Members(q)' = Members(q)
    BY <2>2, <2>4 DEF Members
  <2> QED
    BY <2>2, <2>5, <2>6 DEF Joined
<1>3. ASSUME NEW m \in Broadcasts, PopHead(m) \/ Unlink(m)
      PROVE  \E b \in Bucket, c \in Clients : Emptied(m, b, c)
  <2>1. PICK a \in Addrs, b \in Bucket : a = Target(m).node /\ b = Target(m).bucket
    <3>1. pc[Post(m)] \in Searching
      BY <1>3 DEF PopHead, Unlink, step, Searching
    <3> QED
      BY <3>1, SearchFacts
  <2>2. /\ a \in Listed /\ heap[a].bucket = b /\ Listed' = Listed \ {a}
        /\ \A x \in Addrs : x # a =>
              /\ heap'[x] = NULL <=> heap[x] = NULL
              /\ heap[x] # NULL => /\ heap'[x].client = heap[x].client
                                   /\ heap'[x].bucket = heap[x].bucket
    BY <1>3, <2>1, PopLists, UnlinkLists
  <2>3. PICK c \in Clients : c = heap[a].client
    BY <1>0, <2>2, NodeFields DEF Listed
  <2>4. \A x \in Listed : x # a => heap[x].client # c
    BY <2>2, <2>3 DEF IInv, NodesOK, Listed
  <2>5. \A q \in Bucket : InBucket(q)' = InBucket(q) \ {a}
    BY <2>2 DEF InBucket, Listed
  <2>6. \A q \in Bucket : \A x \in InBucket(q) \ {a} : heap'[x].client = heap[x].client
    BY <2>2 DEF InBucket, Listed
  <2>7. Members(b)' = Members(b) \ {c}
    <3>1. \A x \in InBucket(b) \ {a} : heap[x].client # c
      BY <2>4 DEF InBucket
    <3> QED
      BY <2>3, <2>5, <2>6, <3>1 DEF Members
  <2>8. ASSUME NEW q \in Bucket, q # b PROVE Members(q)' = Members(q)
    <3>1. a \notin InBucket(q)
      BY <2>2, <2>8 DEF InBucket
    <3> QED
      BY <2>5, <2>6, <3>1 DEF Members
  <2> QED
    BY <1>3, <2>1, <2>7, <2>8 DEF Emptied
<1>4. ASSUME UNCHANGED lists, \A c \in Clients : pc'[Sse(c)] = "cas" <=> pc[Sse(c)] = "cas",
             \A c \in Clients : pc'[Sse(c)] = "idle" => pc[Sse(c)] = "idle"
      PROVE  \A b \in Bucket : Members(b)' = Members(b)
  BY <1>4, ListsFrame, MembersKept
<1>5. ASSUME NEW c \in Clients, countClient(c)
      PROVE  \A b \in Bucket : Members(b)' = Members(b)
  <2>1. PICK to \in {"incStore", "done"} :
          goto(Sse(c), to) /\ pc[Sse(c)] \in {"incLoad", "incStore"} /\ UNCHANGED lists
    BY <1>5 DEF countClient, step
  <2>2. pc'[Sse(c)] = to /\ \A d \in Clients : d # c => pc'[Sse(d)] = pc[Sse(d)]
    BY <1>0, <2>1, SseStep
  <2> QED
    BY <1>4, <2>1, <2>2
<1>6. ASSUME NEW m \in Broadcasts, uncountClient(m)
      PROVE  \A b \in Bucket : Members(b)' = Members(b)
  <2>1. PICK to : goto(Post(m), to) /\ UNCHANGED lists
    BY <1>6 DEF uncountClient, step
  <2>2. \A c \in Clients : pc'[Sse(c)] = pc[Sse(c)]
    BY <1>0, <2>1, PostStep
  <2> QED
    BY <1>4, <2>1, <2>2
<1> QED
  BY <1>1, <1>2, <1>3, <1>5, <1>6, CountMoves

\* The service's subscribers are the members that are not dead.
Subscribers == [b \in Bucket |-> Listeners(b)]
Streams == [c \in Clients |-> Due(c)]
Published == [b \in Bucket |-> {m \in Broadcasts : Visited(m, b)}]

LEMMA ListenersAre ==
  IInv => \A b \in Bucket : Listeners(b) = {c \in Members(b) : peer[c] # "dead"}
BY NodesAreBucket DEF Listeners, Members

LEMMA ListenersNext ==
  IInv' => \A b \in Bucket : Listeners(b)' = {c \in Members(b)' : peer'[c] # "dead"}
<1>1. IInv' => (\A b \in Bucket : Listeners(b) = {c \in Members(b) : peer[c] # "dead"})'
  BY ListenersAre, PTL
<1> QED
  BY <1>1

\* A client is owed at most one message, and by the broadcast that holds its
\* bucket.
LEMMA DueIs ==
  IInv => \A c \in Clients :
    /\ \A m \in Owed(c) : c \in Members(job[m].at) /\ lock[job[m].at] = m
    /\ \A m, k \in Owed(c) : m = k
    /\ \A m \in Owed(c) : peer[c] # "dead" => Due(c) = Append(stream[c], m)
    /\ peer[c] = "dead" \/ Owed(c) = {} => Due(c) = stream[c]
<1> SUFFICES ASSUME IInv, NEW c \in Clients
             PROVE  /\ \A m \in Owed(c) : c \in Members(job[m].at) /\ lock[job[m].at] = m
                    /\ \A m, k \in Owed(c) : m = k
                    /\ \A m \in Owed(c) : peer[c] # "dead" => Due(c) = Append(stream[c], m)
                    /\ peer[c] = "dead" \/ Owed(c) = {} => Due(c) = stream[c]
  OBVIOUS
<1>1. ASSUME NEW m \in Owed(c)
      PROVE  c \in Members(job[m].at) /\ lock[job[m].at] = m
  <2>1. m \in Broadcasts /\ pc[Post(m)] \in Scanning /\ c \in Ahead(m)
    BY DEF Owed, Scanning
  <2> QED
    BY <2>1, AheadInBucket DEF IInv, LocksOK, LockOK
<1>2. ASSUME NEW m \in Owed(c), NEW k \in Owed(c)
      PROVE  m = k
  <2>1. PICK x \in InBucket(job[m].at) : heap[x].client = c
    BY <1>1 DEF Members
  <2>2. PICK y \in InBucket(job[k].at) : heap[y].client = c
    BY <1>1 DEF Members
  <2>3. x = y
    BY <2>1, <2>2 DEF IInv, NodesOK, InBucket, Listed
  <2>4. job[m].at = job[k].at
    BY <2>1, <2>2, <2>3 DEF InBucket
  <2> QED
    BY <1>1, <2>4
<1>3. ASSUME NEW m \in Owed(c), peer[c] # "dead"
      PROVE  Due(c) = Append(stream[c], m)
  <2>1. (CHOOSE k \in Owed(c) : TRUE) \in Owed(c)
    OBVIOUS
  <2>2. (CHOOSE k \in Owed(c) : TRUE) = m
    BY <1>2, <2>1
  <2> QED
    BY <1>3, <2>2 DEF Due
<1>4. peer[c] = "dead" \/ Owed(c) = {} => Due(c) = stream[c]
  BY DEF Due
<1> QED
  BY <1>1, <1>2, <1>3, <1>4

LEMMA DueNext ==
  IInv' => \A c \in Clients :
    /\ \A m \in Owed(c)' : peer'[c] # "dead" => Due(c)' = Append(stream'[c], m)
    /\ peer'[c] = "dead" \/ Owed(c)' = {} => Due(c)' = stream'[c]
<1>1. IInv' => (\A c \in Clients :
    /\ \A m \in Owed(c) : c \in Members(job[m].at) /\ lock[job[m].at] = m
    /\ \A m, k \in Owed(c) : m = k
    /\ \A m \in Owed(c) : peer[c] # "dead" => Due(c) = Append(stream[c], m)
    /\ peer[c] = "dead" \/ Owed(c) = {} => Due(c) = stream[c])'
  BY DueIs, PTL
<1> QED
  BY <1>1

\* Broadcast k gets past client c.
Passes(k, c) ==
  /\ pc[Post(k)] \in Scanning /\ c = heap[job[k].iterator].client
  /\ \/ scanSend(k)
     \/ peer[c] = "dead"

\* A scan that takes a bucket owes its message to all who are in it.
LEMMA OwedLock ==
  ASSUME IInv, Next, NEW c \in Clients, NEW k \in Broadcasts, scanLock(k)
  PROVE  k \in Owed(c)' <=> c \in Members(job[k].at)
<1>1. PICK b \in Bucket : b = job[k].at
  BY TypeFacts, JobFields DEF IInv
<1>2. Owed(c)' = {m \in Broadcasts : pc'[Post(m)] \in Scanning /\ c \in Ahead(m)'}
  BY DEF Owed, Scanning
<1>3. pc'[Post(k)] = "check" /\ job'[k].iterator = head[b]
  BY <1>1, ScanLockStep
<1>4. PICK i \in InBucket(b) \cup {NULL} : i = head[b]
  BY BucketNodes
<1>5. lock[b] = NULL
  BY <1>1 DEF scanLock, take
<1>6. Kept(b)
  BY <1>5, KeptStep, CppAssumption DEF Broadcasts
<1>7. NodesFrom(i)' = InBucket(b)
  BY <1>4, <1>6, WalkKept, NodesAreBucket DEF Nodes
<1>8. NodesFrom(job[k].iterator)' = NodesFrom(i)'
  BY <1>3, <1>4
<1>9. c \in Ahead(k)' <=> \E a \in InBucket(b) : heap'[a].client = c
  BY <1>7, <1>8 DEF Ahead
<1>10. c \in Ahead(k)' <=> c \in Members(b)
  BY <1>6, <1>9 DEF Members, Kept
<1> QED
  BY <1>1, <1>2, <1>3, <1>10 DEF Scanning

\* A scan owes its message to who is in the bucket when it takes it, until it
\* gets past them.
LEMMA OwedStep ==
  ASSUME IInv, Next, NEW c \in Clients, NEW k \in Broadcasts
  PROVE  \/ k \in Owed(c)' <=> k \in Owed(c)
         \/ scanLock(k) /\ k \in Owed(c)' /\ c \in Members(job[k].at)
         \/ k \in Owed(c) /\ k \notin Owed(c)' /\ Passes(k, c)
<1>0. heap \in Heaps /\ job \in [Broadcasts -> Job]
  BY TypeFacts DEF IInv
<1>1. PICK b \in Bucket : b = job[k].at
  BY <1>0, JobFields
<1>2. Owed(c)' = {m \in Broadcasts : pc'[Post(m)] \in Scanning /\ c \in Ahead(m)'}
  BY DEF Owed, Scanning
<1>3. Owed(c) = {m \in Broadcasts : pc[Post(m)] \in Scanning /\ c \in Ahead(m)}
  BY DEF Owed, Scanning
<1>4. Ahead(k)' = {d \in Clients : \E a \in NodesFrom(job[k].iterator)' : heap'[a].client = d}
  BY DEF Ahead
\* What is ahead of a scan that stays in its bucket, its iterator being i
<1>5. ASSUME pc[Post(k)] \in Scanning, NEW i \in InBucket(b) \cup {NULL}, i = job'[k].iterator
      PROVE  c \in Ahead(k)' <=> \E a \in NodesFrom(i) : heap[a].client = c
  <2>1. Kept(b)
    BY <1>1, <1>5, ScanKept
  <2>2. NodesFrom(i)' = NodesFrom(i) /\ NodesFrom(i) \subseteq InBucket(b)
    BY <2>1, WalkKept, WalkInBucket
  <2>3. NodesFrom(job[k].iterator)' = NodesFrom(i)'
    BY <1>5
  <2> QED
    BY <1>4, <2>1, <2>2, <2>3 DEF Kept
<1>6. CASE job'[k] = job[k] /\ pc[Post(k)] \in Scanning /\ pc'[Post(k)] \in Scanning
  <2>1. PICK i \in InBucket(b) \cup {NULL} : i = job[k].iterator
    BY <1>1, <1>6 DEF IInv, IteratorsOK, IteratorOK
  <2>2. c \in Ahead(k)' <=> c \in Ahead(k)
    BY <1>5, <1>6, <2>1 DEF Ahead
  <2> QED
    BY <1>2, <1>3, <1>6, <2>2
<1>7. CASE scanLock(k)
  <2>1. pc[Post(k)] \notin Scanning
    BY <1>7, ScanLockStep DEF Scanning
  <2> QED
    BY <1>3, <1>7, <2>1, OwedLock
<1>8. CASE \/ NoteDead(k) /\ job[k].iterator # NULL /\ UNCHANGED <<lists, lock, clients>>
           \/ scanSend(k)
  <2>1. /\ pc[Post(k)] \in Scanning /\ pc'[Post(k)] \in Scanning
        /\ job[k].iterator # NULL /\ job'[k].iterator = heap[job[k].iterator].next
    BY <1>8, NoteDeadStep, ScanSendStep DEF Scanning
  <2>2. PICK a \in InBucket(b) : a = job[k].iterator
    BY <1>1, <2>1, IteratorFacts
  <2>3. PICK i \in InBucket(b) \cup {NULL} : i = heap[a].next
    BY <2>2, BucketNodes
  <2>4. a \in Addrs /\ heap[a] # NULL
    BY <2>2 DEF InBucket, Listed
  <2>5. NodesFrom(a) = {a} \cup NodesFrom(i)
    BY <1>0, <2>3, <2>4, FromUnfold, WalksAreFrom
  <2>6. c \in Ahead(k)' <=> \E x \in NodesFrom(i) : heap[x].client = c
    BY <1>5, <2>1, <2>2, <2>3
  <2>7. c \in Ahead(k) <=> c \in Ahead(k)' \/ heap[a].client = c
    BY <2>2, <2>5, <2>6 DEF Ahead
  <2>8. heap[a].client = c => Passes(k, c)
    BY <1>8, <2>1, <2>2 DEF Passes, NoteDead
  <2> QED
    BY <1>2, <1>3, <2>1, <2>7, <2>8
<1>9. CASE pc'[Post(k)] \notin Scanning
  <2>1. CASE pc[Post(k)] \notin Scanning
    BY <1>2, <1>3, <1>9, <2>1
  <2>2. CASE pc[Post(k)] \in Scanning
    <3>1. scanUnlock(k)
      <4>1. ASSUME NEW from, NEW to, step(Post(k), from, to)
            PROVE  pc[Post(k)] = from /\ pc'[Post(k)] = to
        BY <4>1, TypeFacts, PostStep DEF step, IInv
      <4>2. ~(scanLock(k) \/ scanSend(k))
        BY <1>9, ScanLockStep, ScanSendStep DEF Scanning
      <4>3. ~scanCheck(k)
        BY <1>9, <4>1 DEF scanCheck, Scanning
      <4>4. ~(removeLock(k) \/ removeUnlock(k))
        BY <2>2, RemoveLockStep, RemoveUnlockStep DEF Scanning
      <4>5. ~(removeHead(k) \/ removeOther(k) \/ removeCrashes(k) \/ uncountClient(k)
               \/ broadcastEnds(k) \/ broadcastStarts(k))
        BY <2>2, <4>1 DEF Scanning, removeHead, removeOther, removeCrashes, uncountClient,
           broadcastEnds, broadcastStarts
      <4> QED
        BY <1>9, <2>2, <4>2, <4>3, <4>4, <4>5, OwnStep DEF broadcast
    <3>2. NodesFrom(job[k].iterator) = {}
      BY <3>1, ScanUnlockStep, FromNull, WalksAreFrom
    <3> QED
      BY <1>2, <1>3, <1>9, <3>2 DEF Ahead
  <2> QED
    BY <2>1, <2>2
<1> QED
  BY <1>6, <1>7, <1>8, <1>9, ScanMoves


\* Only a write that fails makes a client dead.
LEMMA PeerStep ==
  ASSUME IInv, Next, NEW c \in Clients
  PROVE  peer'[c] = "dead" <=> peer[c] = "dead" \/ writeFails(c)
<1>0. peer \in [Clients -> {"open", "gone", "failing", "dead"}]
  BY TypeFacts DEF IInv
<1>1. ASSUME NEW d \in Clients, peerCloses(d)
      PROVE  /\ peer[d] # "dead" /\ peer'[d] # "dead"
             /\ \A e \in Clients : e # d => peer'[e] = peer[e]
  BY <1>0, <1>1 DEF peerCloses
<1>2. ASSUME NEW d \in Clients, writeFails(d)
      PROVE  peer'[d] = "dead" /\ \A e \in Clients : e # d => peer'[e] = peer[e]
  BY <1>0, <1>2 DEF writeFails
<1>3. ASSUME NEW m \in Broadcasts, scanSend(m)
      PROVE  peer'[c] = "dead" <=> peer[c] = "dead"
  <2>1. job[m].iterator # NULL /\ pc[Post(m)] \in Scanning
    BY <1>3 DEF IInv, IteratorsOK, IteratorOK, scanSend, step, Scanning
  <2>2. PICK d \in Clients : d = heap[job[m].iterator].client
    BY <2>1, IteratorFacts
  <2>3. \/ peer' = peer
        \/ peer[d] = "gone" /\ peer' = [peer EXCEPT ![d] = "failing"]
    BY <1>3, <2>2 DEF scanSend, clients
  <2> QED
    BY <1>0, <2>3
<1>4. ASSUME NEW m \in Broadcasts, broadcastStarts(m) \/ broadcast(m), ~scanSend(m)
      PROVE  peer' = peer
  BY <1>4 DEF broadcastStarts, broadcast, scanLock, scanCheck, scanUnlock, removeLock,
     removeHead, removeOther, removeCrashes, uncountClient, removeUnlock, broadcastEnds, clients
<1>5. ASSUME NEW d \in Clients,
         \/ \E b \in Bucket, a \in Addrs : sseOpened(d, b, a)
         \/ \E a \in Addrs : heap[a] # NULL /\ pushNode(d, a)
         \/ countClient(d)
      PROVE  peer' = peer
  BY <1>5 DEF sseOpened, pushNode, countClient, clients
<1>6. writeFails(c) => peer'[c] = "dead"
  BY <1>2
<1> QED
  BY <1>1, <1>2, <1>3, <1>4, <1>5, <1>6 DEF Next

LEMMA OneBucket ==
  ASSUME IInv, NEW b \in Bucket, NEW q \in Bucket, NEW c \in Members(b), c \in Members(q)
  PROVE  b = q
<1>1. PICK x \in InBucket(b) : heap[x].client = c
  BY DEF Members
<1>2. PICK y \in InBucket(q) : heap[y].client = c
  BY DEF Members
<1>3. x = y
  BY <1>1, <1>2 DEF IInv, NodesOK, InBucket, Listed
<1> QED
  BY <1>3 DEF InBucket

\* What a client is due is settled when its bucket is taken: no later step of
\* the scan changes it, unless the client dies first.
LEMMA DueKept ==
  ASSUME IInv, IInv', OrdersOK', Next, NEW c \in Clients, ~writeFails(c),
         \A k \in Broadcasts : scanLock(k) => c \notin Members(job[k].at)
  PROVE  Due(c)' = Due(c)
<1>0. stream \in [Clients -> Seq(Broadcasts)]
  BY TypeFacts DEF IInv
<1>1. ASSUME NEW m \in Broadcasts, SentTo(m, c)
      PROVE  /\ stream'[c] = Append(stream[c], m) /\ stream'[c] # stream[c]
             /\ peer[c] # "dead" /\ m \in Owed(c) /\ m \notin Owed(c)'
  <2>1. PICK s \in Seq(Broadcasts) : s = stream[c]
    BY <1>0
  <2>2. stream'[c] = Append(stream[c], m)
    BY <1>1, SentFacts
  <2>3. Append(s, m) # s
    OBVIOUS
  <2>4. stream'[c] # stream[c]
    BY <2>1, <2>2, <2>3
  <2>5. peer[c] # "dead"
    BY <1>1, <2>4 DEF SentTo, scanSend, clients
  <2>6. m \in Owed(c)
    BY <1>1, SentMember DEF Owed
  <2>7. m \in Heard(c)'
    BY <1>1, SentFacts
  <2>8. LastOK(m)'
    BY DEF OrdersOK
  <2>9. pc'[Post(m)] \in Scanning => c \notin Ahead(m)'
    BY <2>7, <2>8 DEF LastOK
  <2>10. m \notin Owed(c)'
    BY <2>9 DEF Owed, Scanning
  <2> QED
    BY <2>2, <2>4, <2>5, <2>6, <2>10
<1>2. peer'[c] = "dead" <=> peer[c] = "dead"
  BY PeerStep
<1>3. ASSUME NEW k \in Broadcasts, k \in Owed(c)', k \notin Owed(c)
      PROVE  FALSE
  BY <1>3, OwedStep
<1>4. Owed(c)' \subseteq Broadcasts /\ Owed(c) \subseteq Broadcasts
  BY DEF Owed
<1>5. CASE peer[c] = "dead"
  <2>1. stream'[c] = stream[c]
    BY <1>1, <1>5, HearStep
  <2> QED
    BY <1>2, <1>5, <2>1, DueIs, DueNext
<1>6. CASE peer[c] # "dead" /\ stream'[c] = stream[c]
  <2>1. ASSUME NEW k \in Broadcasts, k \in Owed(c), k \notin Owed(c)'
        PROVE  FALSE
    <3>1. scanSend(k) /\ c = heap[job[k].iterator].client
      BY <1>6, <2>1, OwedStep DEF Passes
    <3>2. stream' = [stream EXCEPT ![c] = Append(@, k)]
      BY <1>6, <3>1 DEF scanSend
    <3>3. stream' = [stream EXCEPT ![c] = Append(stream[c], k)]
      BY <1>0, <3>2
    <3>4. SentTo(k, c)
      BY <3>1, <3>3 DEF SentTo
    <3> QED
      BY <1>1, <1>6, <3>4
  <2>2. Owed(c)' = Owed(c)
    BY <1>3, <1>4, <2>1
  <2>3. CASE Owed(c) = {}
    BY <1>6, <2>2, <2>3, DueIs, DueNext
  <2>4. CASE Owed(c) # {}
    <3>1. PICK k : k \in Owed(c)
      BY <2>4
    <3>2. Due(c) = Append(stream[c], k)
      BY <1>6, <3>1, DueIs
    <3>3. Due(c)' = Append(stream'[c], k)
      BY <1>2, <1>6, <2>2, <3>1, DueNext
    <3> QED
      BY <1>6, <3>2, <3>3
  <2> QED
    BY <2>3, <2>4
<1>7. ASSUME NEW m \in Broadcasts, SentTo(m, c)
      PROVE  Due(c)' = Due(c)
  <2>1. Owed(c)' = {}
    <3>1. \A k \in Owed(c) : k = m
      BY <1>1, <1>7, DueIs
    <3> QED
      BY <1>1, <1>3, <1>4, <1>7, <3>1
  <2>2. Due(c)' = stream'[c]
    BY <2>1, DueNext
  <2>3. Due(c) = Append(stream[c], m)
    BY <1>1, <1>7, DueIs
  <2> QED
    BY <1>1, <1>7, <2>2, <2>3
<1> QED
  BY <1>5, <1>6, <1>7, HearStep

\* Taking a bucket makes its message due to every live client in it.
LEMMA DueLock ==
  ASSUME IInv, IInv', Next, NEW k \in Broadcasts, scanLock(k),
         NEW c \in Members(job[k].at), peer[c] # "dead"
  PROVE  Due(c)' = Append(Due(c), k)
<1>1. PICK b \in Bucket : b = job[k].at
  BY TypeFacts, JobFields DEF IInv
<1>2. c \in Clients /\ c \in Members(b)
  BY <1>1 DEF Members
<1>3. lock[b] = NULL /\ peer' = peer /\ stream' = stream
  BY <1>1 DEF scanLock, take, clients
<1>4. ASSUME NEW m \in Owed(c) PROVE FALSE
  <2>1. m \in Broadcasts
    BY DEF Owed
  <2>2. job[m].at \in Bucket /\ c \in Members(job[m].at) /\ lock[job[m].at] = m
    BY <1>2, <2>1, TypeFacts, JobFields, DueIs DEF IInv
  <2>3. job[m].at = b
    BY <1>2, <2>2, OneBucket
  <2> QED
    BY <1>3, <2>1, <2>2, <2>3, CppAssumption DEF Broadcasts
<1>5. Due(c) = stream[c]
  BY <1>2, <1>4, DueIs
<1>6. k \in Owed(c)'
  BY <1>2, OwedLock
<1>7. Due(c)' = Append(stream'[c], k)
  BY <1>2, <1>3, <1>6, DueNext
<1> QED
  BY <1>3, <1>5, <1>7

----------------------------------------------------------------------------
(* The four kinds of step the service sees                                 *)

LEMMA ServiceStutters ==
  ASSUME \A b \in Bucket : Listeners(b)' = Listeners(b),
         \A c \in Clients : Due(c)' = Due(c),
         \A b \in Bucket : \A k \in Broadcasts : Visited(k, b)' <=> Visited(k, b)
  PROVE  UNCHANGED Service!vars
<1>1. Subscribers' = Subscribers
  BY DEF Subscribers
<1>2. Streams' = Streams
  BY DEF Streams
<1>3. Published' = Published
  BY DEF Published
<1> QED
  BY <1>1, <1>2, <1>3 DEF Service!vars, Subscribers, Streams, Published

LEMMA ServicePublishes ==
  ASSUME NEW g \in Bucket, NEW m \in Broadcasts, ~Visited(m, g),
         \A b \in Bucket : Listeners(b)' = Listeners(b),
         \A c \in Clients : Due(c)' = IF c \in Listeners(g) THEN Append(Due(c), m) ELSE Due(c),
         \A b \in Bucket : \A k \in Broadcasts :
           Visited(k, b)' <=> Visited(k, b) \/ (k = m /\ b = g)
  PROVE  Service!Next
<1>1. Subscribers' = Subscribers
  BY DEF Subscribers
<1>2. Streams' = [c \in Clients |-> IF c \in Subscribers[g] THEN Append(Streams[c], m)
                                                           ELSE Streams[c]]
  BY DEF Streams, Subscribers
<1>3. Published' = [Published EXCEPT ![g] = @ \cup {m}]
  BY DEF Published
<1>4. m \notin Published[g]
  BY DEF Published
<1>5. Service!Publish(g, m)
  BY <1>1, <1>2, <1>3, <1>4 DEF Service!Publish, Subscribers, Streams, Published
<1> QED
  BY <1>5 DEF Service!Next

LEMMA ServiceSubscribes ==
  ASSUME NEW g \in Bucket, NEW c \in Clients, \A b \in Bucket : c \notin Listeners(b),
         Due(c) = <<>>, Listeners(g)' = Listeners(g) \cup {c},
         \A b \in Bucket : b # g => Listeners(b)' = Listeners(b),
         \A d \in Clients : Due(d)' = Due(d),
         \A b \in Bucket : \A k \in Broadcasts : Visited(k, b)' <=> Visited(k, b)
  PROVE  Service!Next
<1>1. Subscribers' = [Subscribers EXCEPT ![g] = @ \cup {c}]
  BY DEF Subscribers
<1>2. Streams' = Streams /\ Streams[c] = <<>>
  BY DEF Streams
<1>3. Published' = Published
  BY DEF Published
<1>4. \A b \in Bucket : c \notin Subscribers[b]
  BY DEF Subscribers
<1>5. Service!Subscribe(g, c)
  BY <1>1, <1>2, <1>3, <1>4 DEF Service!Subscribe, Subscribers, Streams, Published
<1> QED
  BY <1>5 DEF Service!Next

\* Who leaves may miss the message that it was due.
LEMMA ServiceLeaves ==
  ASSUME NEW g \in Bucket, NEW gone \in SUBSET Listeners(g),
         NEW missed \in SUBSET gone, \A c \in missed : Due(c) # <<>>,
         Listeners(g)' = Listeners(g) \ gone,
         \A b \in Bucket : b # g => Listeners(b)' = Listeners(b),
         \A c \in Clients : Due(c)' = IF c \in missed THEN SubSeq(Due(c), 1, Len(Due(c)) - 1)
                                                     ELSE Due(c),
         \A b \in Bucket : \A k \in Broadcasts : Visited(k, b)' <=> Visited(k, b)
  PROVE  Service!Next
<1>0. missed \subseteq Clients /\ gone \in SUBSET Subscribers[g]
  BY DEF Listeners, Subscribers
<1>1. Subscribers' = [Subscribers EXCEPT ![g] = @ \ gone]
  BY DEF Subscribers
<1>2. /\ Streams' = [c \in Clients |->
                       IF c \in missed THEN SubSeq(Streams[c], 1, Len(Streams[c]) - 1)
                                      ELSE Streams[c]]
      /\ \A c \in missed : Streams[c] # <<>>
  BY <1>0 DEF Streams
<1>3. Published' = Published
  BY DEF Published
<1>4. Service!Leave(g, gone)
  BY <1>1, <1>2, <1>3 DEF Service!Leave, Subscribers, Streams, Published
<1> QED
  BY <1>0, <1>4 DEF Service!Next, Subscribers

----------------------------------------------------------------------------
(* Which of them a step of the server is                                   *)

LEMMA ServiceInit == Init => Service!Init
<1> SUFFICES ASSUME Init PROVE Service!Init
  OBVIOUS
<1>1. /\ heap = [a \in Addrs |-> NULL] /\ stream = [c \in Clients |-> <<>>]
      /\ \A m \in Broadcasts : pc[Post(m)] = "idle"
  BY HandlerNames DEF Init
<1>2. ASSUME NEW b \in Bucket PROVE Listeners(b) = {}
  <2>1. \A a \in Nodes(b) : a \in Addrs
    BY DEF Nodes, NodesFrom
  <2>2. head[b] = NULL
    BY DEF Init
  <2>3. Nodes(b) = {}
    BY <2>2, FromNull, WalksAreFrom DEF Nodes
  <2> QED
    BY <2>3 DEF Listeners
<1>3. \A c \in Clients : Due(c) = <<>>
  BY <1>1 DEF Due, Owed
<1>4. \A b \in Bucket : \A m \in Broadcasts : ~Visited(m, b)
  BY <1>1 DEF Visited
<1> QED
  BY <1>2, <1>3, <1>4 DEF Service!Init

\* A scan that locks a bucket
LEMMA LockPublishes ==
  ASSUME IInv, IInv', OrdersOK', FreshOK, Next, NEW k \in Broadcasts, scanLock(k)
  PROVE  Service!Next
<1>1. PICK g \in Bucket : g = job[k].at
  BY TypeFacts, JobFields DEF IInv
<1>2. ~Visited(k, g)
  BY <1>1, ScanLockStep DEF Visited
<1>3. peer' = peer /\ Local(k) /\ UNCHANGED lists
  BY ScanLockStep DEF scanLock, clients
<1>4. \A b \in Bucket : Members(b)' = Members(b)
  BY <1>3, ListsFrame, MembersKept DEF Local
<1>5. \A b \in Bucket : Listeners(b)' = Listeners(b)
  BY <1>3, <1>4, ListenersAre, ListenersNext
<1>6. ASSUME NEW m \in Broadcasts, scanLock(m) PROVE m = k
  <2>1. pc[Post(m)] # pc'[Post(m)]
    BY <1>6, ScanLockStep
  <2> QED
    BY <1>3, <2>1 DEF Local
<1>7. ASSUME NEW c \in Clients
      PROVE  Due(c)' = IF c \in Listeners(g) THEN Append(Due(c), k) ELSE Due(c)
  <2>1. CASE c \in Listeners(g)
    BY <1>1, <2>1, DueLock, ListenersAre
  <2>2. CASE c \notin Members(g)
    <3>1. ~writeFails(c)
      BY <1>3, TypeFacts DEF writeFails, IInv
    <3>2. Due(c)' = Due(c)
      BY <1>1, <1>6, <2>2, <3>1, DueKept
    <3> QED
      BY <2>2, <3>2, ListenersAre
  <2>3. CASE peer[c] = "dead"
    <3>1. Due(c) = stream[c] /\ stream' = stream
      BY <2>3, DueIs DEF scanLock, clients
    <3>2. Due(c)' = stream'[c]
      BY <1>3, <2>3, DueNext
    <3> QED
      BY <2>3, <3>1, <3>2, ListenersAre
  <2> QED
    BY <2>1, <2>2, <2>3, ListenersAre
<1>8. \A b \in Bucket : \A m \in Broadcasts :
        Visited(m, b)' <=> Visited(m, b) \/ (m = k /\ b = g)
  BY <1>1, <1>6, VisitedStep
<1> QED
  BY <1>2, <1>5, <1>7, <1>8, ServicePublishes

\* A write that fails
LEMMA FailureLeaves ==
  ASSUME IInv, IInv', OrdersOK', FreshOK, Next, NEW c \in Clients, writeFails(c)
  PROVE  Service!Next \/ UNCHANGED Service!vars
<1>0. /\ stream \in [Clients -> Seq(Broadcasts)]
      /\ peer \in [Clients -> {"open", "gone", "failing", "dead"}]
  BY TypeFacts DEF IInv
<1>1. /\ peer[c] # "dead" /\ peer'[c] = "dead" /\ stream' = stream
      /\ \A d \in Clients : d # c => peer'[d] = peer[d]
      /\ pc' = pc /\ UNCHANGED lists
  BY <1>0 DEF writeFails
<1>2. \A b \in Bucket : Members(b)' = Members(b)
  BY <1>1, ListsFrame, MembersKept
<1>3. \A m \in Broadcasts : ~scanLock(m)
  BY <1>1, ScanLockStep
<1>4. \A b \in Bucket : \A m \in Broadcasts : Visited(m, b)' <=> Visited(m, b)
  BY <1>3, VisitedStep
<1>5. ASSUME NEW b \in Bucket PROVE Listeners(b)' = Listeners(b) \ {c}
  <2>1. Members(b) \subseteq Clients
    BY DEF Members
  <2> QED
    BY <1>1, <1>2, <2>1, ListenersAre, ListenersNext
<1>6. ASSUME NEW d \in Clients, d # c PROVE Due(d)' = Due(d)
  <2>1. ~writeFails(d)
    BY <1>0, <1>1, <1>6 DEF writeFails
  <2> QED
    BY <1>3, <2>1, DueKept
<1>7. Due(c)' = stream[c]
  BY <1>1, DueNext
<1>8. CASE Owed(c) = {}
  <2>1. Due(c)' = Due(c)
    BY <1>7, <1>8, DueIs
  <2>2. CASE \A b \in Bucket : c \notin Listeners(b)
    <3>1. \A b \in Bucket : Listeners(b)' = Listeners(b)
      BY <1>5, <2>2
    <3> QED
      BY <1>4, <1>6, <2>1, <3>1, ServiceStutters
  <2>3. ASSUME NEW b \in Bucket, c \in Listeners(b)
        PROVE  Service!Next
    <3>1. \A q \in Bucket : q # b => Listeners(q)' = Listeners(q)
      <4>1. ASSUME NEW q \in Bucket, q # b PROVE c \notin Listeners(q)
        BY <2>3, <4>1, OneBucket, ListenersAre
      <4> QED
        BY <1>5, <4>1
    <3>2. \A d \in Clients : Due(d)' = Due(d)
      BY <1>6, <2>1
    <3>3. PICK gone : gone = {c}
      OBVIOUS
    <3>4. PICK missed : missed = {}
      OBVIOUS
    <3>5. /\ gone \in SUBSET Listeners(b) /\ missed \in SUBSET gone
          /\ Listeners(b)' = Listeners(b) \ gone
          /\ \A d \in missed : Due(d) # <<>>
          /\ \A d \in Clients : Due(d)' = IF d \in missed THEN SubSeq(Due(d), 1, Len(Due(d)) - 1)
                                                         ELSE Due(d)
      BY <1>5, <2>3, <3>2, <3>3, <3>4
    <3> QED
      BY <1>4, <3>1, <3>5, ServiceLeaves
  <2> QED
    BY <2>2, <2>3
<1>9. CASE Owed(c) # {}
  <2>1. PICK m \in Broadcasts : m \in Owed(c)
    BY <1>9 DEF Owed
  <2>2. PICK b \in Bucket : b = job[m].at
    BY TypeFacts, JobFields DEF IInv
  <2>3. c \in Members(b) /\ c \in Listeners(b)
    BY <1>1, <2>1, <2>2, DueIs, ListenersAre
  <2>4. \A q \in Bucket : q # b => Listeners(q)' = Listeners(q)
    <3>1. ASSUME NEW q \in Bucket, q # b PROVE c \notin Listeners(q)
      BY <2>3, <3>1, OneBucket, ListenersAre
    <3> QED
      BY <1>5, <3>1
  <2>5. Due(c) # <<>> /\ Due(c)' = SubSeq(Due(c), 1, Len(Due(c)) - 1)
    <3>1. PICK s \in Seq(Broadcasts) : s = stream[c]
      BY <1>0
    <3>2. Append(s, m) \in Seq(Broadcasts)
      OBVIOUS
    <3>3. Append(s, m) # <<>> /\ SubSeq(Append(s, m), 1, Len(Append(s, m)) - 1) = s
      <4>1. Len(Append(s, m)) = Len(s) + 1 /\ Len(s) \in Nat
        OBVIOUS
      <4>2. PICK t \in Seq(Broadcasts) : t = SubSeq(Append(s, m), 1, Len(s))
        BY <3>2, <4>1
      <4>3. Len(t) = Len(s)
        BY <3>2, <4>1, <4>2
      <4>4. \A i \in 1..Len(s) : t[i] = s[i]
        BY <3>2, <4>1, <4>2
      <4>5. t = s
        BY <4>3, <4>4
      <4> QED
        BY <4>1, <4>2, <4>5
    <3>4. Due(c) = Append(s, m)
      BY <1>1, <2>1, <3>1, DueIs
    <3> QED
      BY <1>7, <3>1, <3>3, <3>4
  <2>6. PICK gone : gone = {c}
    OBVIOUS
  <2>7. /\ gone \in SUBSET Listeners(b) /\ gone \in SUBSET gone
        /\ Listeners(b)' = Listeners(b) \ gone
        /\ \A d \in gone : Due(d) # <<>>
        /\ \A d \in Clients : Due(d)' = IF d \in gone THEN SubSeq(Due(d), 1, Len(Due(d)) - 1)
                                                     ELSE Due(d)
    BY <1>5, <1>6, <2>3, <2>5, <2>6
  <2> QED
    BY <1>4, <2>4, <2>7, ServiceLeaves
<1> QED
  BY <1>8, <1>9

\* Every other step: only a push and the removal of a live client are seen.
LEMMA OtherSteps ==
  ASSUME IInv, IInv', OrdersOK, OrdersOK', FreshOK, Next,
         \A k \in Broadcasts : ~scanLock(k), \A c \in Clients : ~writeFails(c)
  PROVE  Service!Next \/ UNCHANGED Service!vars
<1>1. \A b \in Bucket : \A m \in Broadcasts : Visited(m, b)' <=> Visited(m, b)
  BY VisitedStep
<1>2. \A c \in Clients : Due(c)' = Due(c)
  BY DueKept
<1>3. \A c \in Clients : peer'[c] = "dead" <=> peer[c] = "dead"
  BY PeerStep
<1>4. ASSUME NEW b \in Bucket, Members(b)' = Members(b)
      PROVE  Listeners(b)' = Listeners(b)
  <2>1. Members(b) \subseteq Clients
    BY DEF Members
  <2> QED
    BY <1>3, <1>4, <2>1, ListenersAre, ListenersNext
<1>5. CASE \A b \in Bucket : Members(b)' = Members(b)
  BY <1>1, <1>2, <1>4, <1>5, ServiceStutters
<1>6. ASSUME NEW c \in Clients, NEW b \in Bucket, Joined(c, b)
      PROVE  Service!Next \/ UNCHANGED Service!vars
  <2>1. \A q \in Bucket : q # b => Listeners(q)' = Listeners(q)
    BY <1>4, <1>6 DEF Joined
  <2>2. Members(b) \subseteq Clients /\ Members(b)' = Members(b) \cup {c}
    BY <1>6 DEF Members, Joined
  <2>3. CASE peer[c] = "dead"
    <3>1. Listeners(b)' = Listeners(b)
      BY <1>3, <2>2, <2>3, ListenersAre, ListenersNext
    <3> QED
      BY <1>1, <1>2, <2>1, <3>1, ServiceStutters
  <2>4. CASE peer[c] # "dead"
    <3>1. Listeners(b)' = Listeners(b) \cup {c}
      BY <1>3, <2>2, <2>4, ListenersAre, ListenersNext
    <3>2. \A q \in Bucket : c \notin Members(q)
      BY <1>6, MemberFacts DEF Joined
    <3>3. \A q \in Bucket : c \notin Listeners(q)
      BY <3>2, ListenersAre
    <3>4. Owed(c) = {}
      <4>1. ASSUME NEW m \in Owed(c) PROVE FALSE
        <5>1. m \in Broadcasts
          BY DEF Owed
        <5>2. job[m].at \in Bucket
          BY <5>1, TypeFacts, JobFields DEF IInv
        <5> QED
          BY <3>2, <5>2, DueIs
      <4> QED
        BY <4>1
    <3>5. Due(c) = <<>>
      BY <1>6, <3>4, DueIs DEF OrdersOK, Joined
    <3> QED
      BY <1>1, <1>2, <2>1, <3>1, <3>3, <3>5, ServiceSubscribes
  <2> QED
    BY <2>3, <2>4
<1>7. ASSUME NEW m \in Broadcasts, NEW b \in Bucket, NEW c \in Clients, Emptied(m, b, c)
      PROVE  Service!Next
  <2>1. \A q \in Bucket : q # b => Listeners(q)' = Listeners(q)
    BY <1>4, <1>7 DEF Emptied
  <2>2. Members(b) \subseteq Clients /\ Members(b)' = Members(b) \ {c}
    BY <1>7 DEF Members, Emptied
  <2>3. Listeners(b)' = Listeners(b) \ {c}
    BY <1>3, <2>2, ListenersAre, ListenersNext
  <2>4. PICK gone : gone = {c} \cap Listeners(b)
    OBVIOUS
  <2>5. PICK missed : missed = {}
    OBVIOUS
  <2>6. /\ gone \in SUBSET Listeners(b) /\ missed \in SUBSET gone
        /\ Listeners(b)' = Listeners(b) \ gone
        /\ \A d \in missed : Due(d) # <<>>
        /\ \A d \in Clients : Due(d)' = IF d \in missed THEN SubSeq(Due(d), 1, Len(Due(d)) - 1)
                                                       ELSE Due(d)
    BY <1>2, <2>3, <2>4, <2>5
  <2> QED
    BY <1>1, <2>1, <2>6, ServiceLeaves
<1> QED
  BY <1>5, <1>6, <1>7, MemberMoves

LEMMA ServiceStep ==
  ASSUME IInv, OrdersOK, FreshOK, OrdersOK', [Next]_vars
  PROVE  [Service!Next]_Service!vars
<1>1. CASE Next
  <2>1. IInv'
    BY <1>1, StepInv
  <2> QED
    BY <1>1, <2>1, LockPublishes, FailureLeaves, OtherSteps
<1>2. CASE UNCHANGED vars
  BY <1>2, ServiceStutters DEF vars, Listeners, Due, Owed, Ahead, Visited, Nodes,
     NodesFrom, Follows
<1> QED
  BY <1>1, <1>2

\* A broadcast of c++/sse_server.cpp, which walks a list step by step among
\* pushes, closes and other broadcasts, is one atomic broadcast to each bucket,
\* at the moment it takes the bucket's mutex: for any number of threads,
\* buckets, clients, broadcasts and addresses.
THEOREM ServiceImplemented == Spec => ImplementsService
<1>1. Init => Service!Init
  BY ServiceInit
<1>2. /\ IInv /\ OrdersOK /\ FreshOK /\ OrdersOK' /\ [Next]_vars
      => [Service!Next]_Service!vars
  BY ServiceStep
<1> QED
  BY <1>1, <1>2, Inductive, OrdersInv, FreshInv, PTL DEF Spec, ImplementsService, Service!Spec

----------------------------------------------------------------------------
(* No broadcast waits for one that waits                                   *)

\* Where a broadcast holds the mutex of bucket b: a crash leaves it locked.
WorksOn(m, b) ==
  \/ pc[Post(m)] \in Scanning /\ job[m].at = b
  \/ /\ pc[Post(m)] \in Removing \cup {"crashed"}
     /\ job[m].removals # <<>> /\ Target(m).bucket = b
HoldersOK == \A b \in Bucket : lock[b] # NULL => WorksOn(lock[b], b)

LEMMA LockStep ==
  ASSUME IInv, Next, NEW b \in Bucket
  PROVE  \/ lock'[b] \in {lock[b], NULL}
         \/ \E m \in Broadcasts :
              /\ lock'[b] = m
              /\ \/ scanLock(m) /\ job[m].at = b
                 \/ removeLock(m) /\ Target(m).bucket = b
<1>0. lock \in [Bucket -> Broadcasts \cup {NULL}]
  BY TypeFacts DEF IInv
<1>1. ASSUME NEW c \in Clients,
         \/ \E q \in Bucket, a \in Addrs : sseOpened(c, q, a)
         \/ \E a \in Addrs : heap[a] # NULL /\ pushNode(c, a)
         \/ countClient(c)
         \/ peerCloses(c)
         \/ writeFails(c)
      PROVE  lock' = lock
  BY <1>1 DEF sseOpened, pushNode, countClient, peerCloses, writeFails
<1>2. ASSUME NEW m \in Broadcasts,
         \/ broadcastStarts(m) \/ scanCheck(m) \/ scanSend(m) \/ removeHead(m)
         \/ removeOther(m) \/ removeCrashes(m) \/ uncountClient(m) \/ broadcastEnds(m)
      PROVE  lock' = lock
  BY <1>2 DEF broadcastStarts, scanCheck, scanSend, removeHead, removeOther, removeCrashes,
     uncountClient, broadcastEnds
<1>3. ASSUME NEW m \in Broadcasts, scanLock(m)
      PROVE  lock'[b] = lock[b] \/ (job[m].at = b /\ lock'[b] = m)
  BY <1>0, <1>3 DEF scanLock, take
<1>4. ASSUME NEW m \in Broadcasts, removeLock(m)
      PROVE  lock'[b] = lock[b] \/ (Target(m).bucket = b /\ lock'[b] = m)
  BY <1>0, <1>4 DEF removeLock, take
<1>5. ASSUME NEW m \in Broadcasts, scanUnlock(m) \/ removeUnlock(m)
      PROVE  lock'[b] \in {lock[b], NULL}
  BY <1>0, <1>5 DEF scanUnlock, removeUnlock, release
<1> QED
  BY <1>1, <1>2, <1>3, <1>4, <1>5 DEF Next, broadcast

\* A broadcast works on a bucket until it gives the mutex back.
LEMMA WorkStep ==
  ASSUME IInv, Next, NEW m \in Broadcasts, NEW b \in Bucket, WorksOn(m, b)
  PROVE  WorksOn(m, b)' \/ lock'[b] = NULL
<1>0. /\ pc \in [Handlers -> Steps] /\ job \in [Broadcasts -> Job] /\ job[m] \in Job
      /\ lock \in [Bucket -> Broadcasts \cup {NULL}]
  BY TypeFacts DEF IInv
<1>1. ASSUME NEW from, NEW to, step(Post(m), from, to)
      PROVE  pc[Post(m)] = from /\ pc'[Post(m)] = to
  BY <1>0, <1>1, PostStep DEF step
<1>2. ASSUME job'[m].removals = job[m].removals PROVE Target(m)' = Target(m)
  BY <1>2 DEF Target
<1>3. CASE job'[m] = job[m] /\ pc'[Post(m)] = pc[Post(m)]
  BY <1>2, <1>3 DEF WorksOn
<1>4. CASE broadcastStarts(m) \/ broadcastEnds(m) \/ scanLock(m) \/ removeLock(m)
  BY <1>1, <1>4 DEF broadcastStarts, broadcastEnds, scanLock, removeLock, WorksOn, Scanning,
     Removing
<1>5. CASE scanCheck(m)
  <2>1. /\ job[m].iterator # NULL /\ UNCHANGED lock
        /\ NoteDead(m) \/ (step(Post(m), "check", "send") /\ UNCHANGED job)
    BY <1>5 DEF scanCheck, NoteDead
  <2>2. /\ pc[Post(m)] = "check" /\ pc'[Post(m)] \in Scanning /\ job'[m].at = job[m].at
    BY <1>1, <2>1, NoteDeadStep DEF Scanning
  <2> QED
    BY <2>2 DEF WorksOn, Scanning, Removing
<1>6. CASE scanSend(m)
  BY <1>6, ScanSendStep DEF WorksOn, Scanning, Removing
<1>7. CASE scanUnlock(m)
  <2>1. pc[Post(m)] = "check" /\ release(job[m].at)
    BY <1>1, <1>7 DEF scanUnlock
  <2> QED
    BY <1>0, <2>1 DEF WorksOn, Scanning, Removing, release
<1>8. CASE removeUnlock(m)
  <2>1. pc[Post(m)] = "removed" /\ release(Target(m).bucket)
    BY <1>1, <1>8 DEF removeUnlock
  <2> QED
    BY <1>0, <2>1 DEF WorksOn, Scanning, Removing, release
<1>9. CASE removeHead(m) \/ removeOther(m)
  <2>1. \E from \in Searching : \E to \in Removing : step(Post(m), from, to)
    BY <1>9 DEF removeHead, removeOther, Searching, Removing
  <2>2. pc[Post(m)] \in Searching /\ pc'[Post(m)] \in Removing
    BY <1>1, <2>1
  <2>3. job' = job \/ \E i : job' = [job EXCEPT ![m].iterator = i]
    BY <1>9 DEF removeHead, removeOther
  <2>4. job'[m].removals = job[m].removals
    BY <1>0, <2>3 DEF Job
  <2> QED
    BY <1>2, <2>2, <2>4 DEF WorksOn, Scanning, Searching
<1>10. CASE removeCrashes(m) \/ uncountClient(m)
  <2>1. \E from \in Removing : \E to \in Removing \cup {"crashed"} : step(Post(m), from, to)
    BY <1>10 DEF removeCrashes, uncountClient, Removing
  <2>2. pc[Post(m)] \in Removing /\ pc'[Post(m)] \in Removing \cup {"crashed"} /\ job' = job
    BY <1>1, <1>10, <2>1 DEF removeCrashes, uncountClient
  <2> QED
    BY <1>2, <2>2 DEF WorksOn, Scanning, Removing
<1> QED
  BY <1>3, <1>4, <1>5, <1>6, <1>7, <1>8, <1>9, <1>10, OwnStep DEF broadcast

LEMMA HoldersInv == Spec => []HoldersOK
<1>1. Init => HoldersOK
  BY DEF Init, HoldersOK
<1>2. IInv /\ HoldersOK /\ [Next]_vars => HoldersOK'
  <2>1. ASSUME IInv, HoldersOK, Next, NEW b \in Bucket, lock'[b] # NULL
        PROVE  WorksOn(lock[b], b)'
    <3>1. CASE lock'[b] = lock[b]
      <4>1. PICK m \in Broadcasts : m = lock[b]
        BY <2>1, <3>1, TypeFacts DEF IInv
      <4>2. WorksOn(m, b)'
        BY <2>1, <3>1, <4>1, WorkStep DEF HoldersOK
      <4> QED
        BY <3>1, <4>1, <4>2 DEF WorksOn, Target
    <3>2. ASSUME NEW m \in Broadcasts, lock'[b] = m,
                 \/ scanLock(m) /\ job[m].at = b
                 \/ removeLock(m) /\ Target(m).bucket = b
          PROVE  WorksOn(lock[b], b)'
      <4>1. CASE scanLock(m) /\ job[m].at = b
        <5>1. pc'[Post(m)] = "check" /\ job'[m].at = b
          BY <2>1, <4>1, ScanLockStep
        <5> QED
          BY <3>2, <5>1 DEF WorksOn, Scanning
      <4>2. CASE removeLock(m) /\ Target(m).bucket = b
        <5>1. /\ pc'[Post(m)] = "remove" /\ job'[m].removals # <<>>
              /\ Head(job'[m].removals).bucket = b
          BY <2>1, <4>2, RemoveLockStep DEF Target
        <5> QED
          BY <3>2, <5>1 DEF WorksOn, Removing, Target
      <4> QED
        BY <3>2, <4>1, <4>2
    <3> QED
      BY <2>1, <3>1, <3>2, LockStep
  <2>2. ASSUME HoldersOK, UNCHANGED vars PROVE HoldersOK'
    BY <2>2 DEF HoldersOK, WorksOn, Target, vars
  <2> QED
    BY <2>1, <2>2 DEF HoldersOK
<1> QED
  BY <1>1, <1>2, Inductive, PTL DEF Spec

\* A broadcast that waits for a mutex, to scan or to remove, holds none; and the
\* one it waits for holds no other.
WaitersHoldNone ==
  /\ \A m \in Broadcasts : pc[Post(m)] \in {"idle", "scan", "clean", "done"} =>
       \A b \in Bucket : lock[b] # m
  /\ \A b, q \in Bucket : lock[b] # NULL /\ lock[b] = lock[q] => b = q

\* The locks of c++/sse_server.cpp cannot form a cycle, for any number of buckets
\* and threads: nobody waits for a broadcast that waits.
THEOREM NoLockCycle == Spec => []WaitersHoldNone
<1>1. IInv /\ HoldersOK => WaitersHoldNone
  <2> SUFFICES ASSUME IInv, HoldersOK PROVE WaitersHoldNone
    OBVIOUS
  <2>1. ASSUME NEW m \in Broadcasts, NEW b \in Bucket, lock[b] = m
        PROVE  WorksOn(m, b)
    BY <2>1, CppAssumption DEF HoldersOK, Broadcasts
  <2>2. \A m \in Broadcasts : pc[Post(m)] \in {"idle", "scan", "clean", "done"} =>
          \A b \in Bucket : lock[b] # m
    BY <2>1 DEF WorksOn, Scanning, Removing
  <2>3. \A b, q \in Bucket : lock[b] # NULL /\ lock[b] = lock[q] => b = q
    BY DEF HoldersOK, WorksOn, Scanning, Removing
  <2> QED
    BY <2>2, <2>3 DEF WaitersHoldNone
<1> QED
  BY <1>1, Inductive, HoldersInv, PTL
=============================================================================
