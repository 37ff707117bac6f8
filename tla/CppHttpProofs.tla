---------------------------- MODULE CppHttpProofs ----------------------------
(***************************************************************************)
(* The invariants of CppHttp hold for any sizes of the chunks, any limits  *)
(* and any requests.                                                       *)
(*                                                                         *)
(* What makes them inductive is the accounting of Reading: while a body is *)
(* read, what has been got and what remains add up to what was announced.  *)
(***************************************************************************)
EXTENDS CppHttp, TLAPS

Quiet(c) == response[c] = <<>> /\ published[c] = <<>>

Reading(c) ==
  LET r == request[c] IN
  /\ pc[c] = "none" <=> r = NULL
  /\ pc[c] = "none" => got[c] = 0
  /\ pc[c] # "done" => Quiet(c)
  /\ pc[c] = "header" => got[c] < r.header
  /\ pc[c] = "body" => /\ r.announces = "number"
                       /\ r.length \in 0..BodyMax
                       /\ r.header < HdrMax + HdrChunk
                       /\ got[c] + remaining[c] = r.header + r.length

IInv ==
  /\ TypeOK
  /\ \A c \in Conns : Reading(c)
  /\ BodyWhole
  /\ BufferBounded
  /\ AnswersOnce

USE HttpAssumption

LEMMA InitIInv == Init => IInv
<1> SUFFICES ASSUME Init PROVE IInv
  OBVIOUS
<1>1. TypeOK
  <2>1. up \in BOOLEAN /\ peer \in [Conns -> BOOLEAN]
    BY Zenon DEF Init
  <2> QED
    BY <2>1 DEF Init, TypeOK
<1>2. \A c \in Conns : Reading(c)
  BY DEF Init, Reading, Quiet
<1>3. BodyWhole /\ BufferBounded /\ AnswersOnce
  BY DEF Init, BodyWhole, BufferBounded, AnswersOnce
<1> QED
  BY <1>1, <1>2, <1>3 DEF IInv

----------------------------------------------------------------------------
(* How a completion ends, for a connection c that has now got g characters *)

\* What every completion of c leaves alone
Got(c, g) ==
  /\ got' = [got EXCEPT ![c] = g]
  /\ UNCHANGED <<request, peer>>

\* The handler answers c without broadcasting.
LEMMA Answered ==
  ASSUME IInv, NEW c \in Conns, NEW g \in Nat, NEW s \in {"200", "400", "404"},
         pc[c] = "header", Got(c, g), g < HdrMax + HdrChunk + BodyMax, answer(c, s)
  PROVE  IInv'
<1> USE DEF IInv, Got, answer, write, moveOn
<1>0. Quiet(c) /\ request[c] # NULL
  BY DEF Reading
<1>1. response'[c] = <<s>> /\ published'[c] = <<>> /\ pc'[c] = "done"
  BY <1>0 DEF TypeOK, Quiet
<1>2. TypeOK'
  <2>1. Append(response[c], s) \in Seq({"200", "202", "400", "404"})
    BY DEF TypeOK
  <2> QED
    BY <2>1 DEF TypeOK
<1>3. \A d \in Conns : Reading(d)'
  BY <1>0, <1>1 DEF Reading, Quiet, TypeOK
<1>4. BodyWhole' /\ BufferBounded'
  BY DEF BodyWhole, BufferBounded, TypeOK
<1>5. AnswersOnce'
  <2>0. Len(<<s>>) = 1 /\ <<s>> # <<>> /\ <<s>>[1] = s /\ <<"202">>[1] = "202"
    OBVIOUS
  <2>1. /\ Len(response'[c]) = 1 /\ response'[c] # <<"202">> /\ response'[c] # <<>>
        /\ Len(published'[c]) = 0
    BY <1>1, <2>0
  <2>2. \A d \in Conns \ {c} : /\ response'[d] = response[d] /\ published'[d] = published[d]
                              /\ pc'[d] = pc[d]
    BY DEF TypeOK
  <2> QED
    BY SMTT(30), <2>1, <2>2 DEF AnswersOnce
<1> QED
  BY <1>2, <1>3, <1>4, <1>5

\* The handler broadcasts `size' characters and answers 202.
LEMMA Published ==
  ASSUME IInv, NEW c \in Conns, NEW g \in Nat, NEW size \in Int,
         pc[c] \in {"header", "body"}, Got(c, g), g < HdrMax + HdrChunk + BodyMax,
         request[c].announces # "nothing" =>
           size = request[c].length \/ (size > request[c].length /\ size < HdrChunk),
         publish(c, size)
  PROVE  IInv'
<1> USE DEF IInv, Got, publish, write, moveOn
<1>0. Quiet(c) /\ request[c] # NULL
  BY DEF Reading
<1>1. response'[c] = <<"202">> /\ published'[c] = <<size>> /\ pc'[c] = "done"
  BY <1>0 DEF TypeOK, Quiet
<1>2. TypeOK'
  <2>1. /\ Append(response[c], "202") \in Seq({"200", "202", "400", "404"})
        /\ Append(published[c], size) \in Seq(Int)
    BY DEF TypeOK
  <2> QED
    BY <2>1 DEF TypeOK
<1>3. \A d \in Conns : Reading(d)'
  BY <1>0, <1>1 DEF Reading, Quiet, TypeOK
<1>4. \A d \in Conns \ {c} : /\ response'[d] = response[d] /\ published'[d] = published[d]
                            /\ pc'[d] = pc[d]
  BY DEF TypeOK
<1>5. BodyWhole'
  <2>1. \A i \in DOMAIN published'[c] : published'[c][i] = size
    BY <1>1
  <2> QED
    BY SMTT(30), <1>4, <2>1 DEF BodyWhole
<1>6. BufferBounded'
  BY DEF BufferBounded, TypeOK
<1>7. AnswersOnce'
  <2>1. Len(<<"202">>) = 1 /\ <<"202">> # <<>> /\ Len(<<size>>) = 1
    OBVIOUS
  <2>2. ASSUME NEW d \in Conns
        PROVE  /\ Len(response'[d]) <= 1
               /\ Len(published'[d]) = IF response'[d] = <<"202">> THEN 1 ELSE 0
               /\ pc'[d] = "done" /\ response'[d] = <<>> =>
                    ~peer[d] \/ request[d].header > HdrMax \/ ~up
    <3>0. /\ Len(response'[c]) = 1 /\ response'[c] = <<"202">> /\ response'[c] # <<>>
          /\ Len(published'[c]) = 1
      BY <1>1, <2>1, Zenon
    <3>1. CASE d = c
      <4>1. /\ Len(response'[d]) = 1 /\ response'[d] # <<>>
        BY <3>0, <3>1, Zenon
      <4>2. response'[d] = <<"202">> /\ Len(published'[d]) = 1
        BY <3>0, <3>1, Zenon
      <4>3. 1 <= 1
        OBVIOUS
      <4> QED
        BY <4>1, <4>2, <4>3, Zenon
    <3>2. CASE d # c
      BY <1>4, <3>2 DEF AnswersOnce
    <3> QED
      BY <3>1, <3>2
  <2> QED
    BY <2>2 DEF AnswersOnce
<1> QED
  BY <1>2, <1>3, <1>5, <1>6, <1>7

\* The handler goes on reading.
LEMMA ReadsOn ==
  ASSUME IInv, NEW c \in Conns, NEW g \in Nat, NEW rest \in Nat, NEW p \in {"header", "body"},
         pc[c] \in {"header", "body"}, Got(c, g), g < HdrMax + HdrChunk + BodyMax,
         p = "header" => g < HdrMax /\ g < request[c].header,
         p = "body" => /\ request[c].announces = "number"
                       /\ request[c].length \in 0..BodyMax
                       /\ request[c].header < HdrMax + HdrChunk
                       /\ g + rest = request[c].header + request[c].length
                       /\ rest > 0,
         pc' = [pc EXCEPT ![c] = p], remaining' = [remaining EXCEPT ![c] = rest],
         UNCHANGED <<up, response, published>>
  PROVE  IInv'
<1> USE DEF IInv, Got
<1>0. Quiet(c) /\ request[c] # NULL
  BY DEF Reading
<1>1. TypeOK'
  BY DEF TypeOK
<1>2. \A d \in Conns : Reading(d)'
  BY <1>0 DEF Reading, Quiet, TypeOK
<1>3. BodyWhole' /\ BufferBounded' /\ AnswersOnce'
  BY DEF BodyWhole, BufferBounded, AnswersOnce, TypeOK
<1> QED
  BY <1>1, <1>2, <1>3

\* The handler ends without an answer.
LEMMA Dropped ==
  ASSUME IInv, NEW c \in Conns, NEW g \in Nat,
         pc[c] \in {"header", "body"}, Got(c, g), g < HdrMax + HdrChunk + BodyMax,
         ~peer[c] \/ request[c].header > HdrMax \/ ~up', up' \in BOOLEAN, up' => up,
         moveOn(c, "done"), UNCHANGED <<remaining, response, published>>
  PROVE  IInv'
<1> USE DEF IInv, Got, moveOn
<1>0. Quiet(c) /\ request[c] # NULL
  BY DEF Reading
<1>1. TypeOK'
  BY DEF TypeOK
<1>2. \A d \in Conns : Reading(d)'
  BY <1>0 DEF Reading, Quiet, TypeOK
<1>3. BodyWhole' /\ BufferBounded'
  BY DEF BodyWhole, BufferBounded, TypeOK
<1>4. AnswersOnce'
  BY <1>0 DEF AnswersOnce, TypeOK, Quiet
<1> QED
  BY <1>1, <1>2, <1>3, <1>4

----------------------------------------------------------------------------

LEMMA HeaderStep ==
  ASSUME IInv, NEW c \in Conns, do_read_header(c)
  PROVE  IInv'
<1> DEFINE r == request[c]
<1>1. PICK n \in 1..HdrChunk : got' = [got EXCEPT ![c] = @ + n]
  BY DEF do_read_header
<1>2. /\ got[c] \in Nat /\ got[c] + n \in Nat /\ got'[c] = got[c] + n
      /\ pc[c] = "header" /\ got[c] < r.header /\ got[c] < HdrMax
      /\ r \in Request
  BY <1>1 DEF do_read_header, IInv, TypeOK, Reading, BufferBounded
<1>3. Got(c, got[c] + n) /\ got[c] + n < HdrMax + HdrChunk + BodyMax
  <2>1. Got(c, got[c] + n)
    BY <1>1 DEF do_read_header, Got
  <2>2. got[c] + n < HdrMax + HdrChunk + BodyMax
    BY <1>2
  <2> QED
    BY <2>1, <2>2
<1>4. CASE got'[c] < r.header
  <2>1. /\ moveOn(c, IF headerTooLong(got'[c]) THEN "done" ELSE "header")
        /\ UNCHANGED <<up, remaining, response, published>>
    BY <1>2, <1>4 DEF do_read_header, Request
  <2>2. CASE headerTooLong(got'[c])
    <3>1. r.header > HdrMax
      BY <1>2, <1>4, <2>2 DEF headerTooLong, Request
    <3>2. up' \in BOOLEAN /\ (up' => up)
      BY <2>1, Zenon DEF IInv, TypeOK
    <3> QED
      BY <1>2, <1>3, <2>1, <2>2, <3>1, <3>2, Dropped
  <2>3. CASE ~headerTooLong(got'[c])
    <3>1. got[c] + n < HdrMax
      BY <1>2, <2>3 DEF headerTooLong
    <3>2. remaining[c] \in Nat /\ remaining' = [remaining EXCEPT ![c] = remaining[c]]
      BY <2>1 DEF IInv, TypeOK
    <3>3. pc' = [pc EXCEPT ![c] = "header"]
      BY <2>1, <2>3 DEF moveOn
    <3> QED
      BY <1>2, <1>3, <1>4, <2>1, <3>1, <3>2, <3>3, ReadsOn
  <2> QED
    BY <2>2, <2>3
<1>5. CASE got'[c] >= r.header
  <2>0. do_handle_request(c)
    BY <1>5 DEF do_read_header
  <2>1. CASE r.handler \in {"400", "404"}
    <3>1. answer(c, r.handler)
      BY <2>0, <2>1 DEF do_handle_request
    <3> QED
      BY <1>2, <1>3, <2>1, <3>1, Answered
  <2>2. CASE r.handler \in {"post", "get"} /\ r.announces = "other"
    <3>1. stoiThrows(c)
      BY <2>0, <2>2 DEF do_handle_request, TooLarge
    <3>2. up' \in BOOLEAN /\ ~up'
      BY <3>1, Zenon DEF stoiThrows
    <3> QED
      BY <1>2, <1>3, <3>1, <3>2, Dropped DEF stoiThrows
  <2>3. CASE r.handler \in {"post", "get"} /\ TooLarge(r)
    <3>1. answer(c, "400")
      BY <2>0, <2>3 DEF do_handle_request, TooLarge
    <3> QED
      BY <1>2, <1>3, <3>1, Answered
  <2>4. CASE r.handler = "get" /\ r.announces # "other" /\ ~TooLarge(r)
    <3>1. answer(c, "200")
      BY <2>0, <2>4 DEF do_handle_request
    <3> QED
      BY <1>2, <1>3, <3>1, Answered
  <2>5. CASE r.handler = "post" /\ r.announces = "nothing"
    <3>1. publish(c, 0)
      BY <2>0, <2>5 DEF do_handle_request, TooLarge
    <3> QED
      BY <1>2, <1>3, <2>5, <3>1, Published
  <2>6. CASE r.handler = "post" /\ r.announces = "number" /\ ~TooLarge(r)
    <3> DEFINE buffered == got'[c] - r.header
    <3>1. readBody(c, r.length) /\ r.length \in 0..BodyMax
      BY <1>2, <2>0, <2>6 DEF do_handle_request, TooLarge, Request
    <3>2. buffered \in Nat /\ buffered < HdrChunk /\ r.header < HdrMax + HdrChunk /\ r.header \in Nat
      BY <1>2, <1>5 DEF Request
    <3>3. CASE r.length - buffered <= 0
      <4>1. publish(c, buffered)
        BY <3>1, <3>3 DEF readBody
      <4>2. buffered = r.length \/ (buffered > r.length /\ buffered < HdrChunk)
        BY <3>1, <3>2, <3>3
      <4> QED
        BY <1>2, <1>3, <2>6, <3>2, <4>1, <4>2, Published
    <3>4. CASE r.length - buffered > 0
      <4> DEFINE rest == r.length - buffered
      <4>1. /\ remaining' = [remaining EXCEPT ![c] = rest]
            /\ pc' = [pc EXCEPT ![c] = "body"]
            /\ UNCHANGED <<up, response, published>>
        BY <3>1, <3>2, <3>4 DEF readBody, moveOn
      <4>2. rest \in Nat /\ rest > 0 /\ (got[c] + n) + rest = r.header + r.length
        BY <1>2, <3>1, <3>2, <3>4
      <4> HIDE DEF rest
      <4> QED
        BY <1>2, <1>3, <2>6, <3>1, <3>2, <4>1, <4>2, ReadsOn
    <3> QED
      BY <3>1, <3>2, <3>3, <3>4
  <2> QED
    BY <1>2, <2>1, <2>2, <2>3, <2>4, <2>5, <2>6 DEF Request, TooLarge
<1> QED
  BY <1>2, <1>4, <1>5 DEF Request

LEMMA BodyStep ==
  ASSUME IInv, NEW c \in Conns, do_read_body(c)
  PROVE  IInv'
<1> DEFINE r == request[c]
<1>1. PICK n \in 1..bodyRead(c) :
        /\ got' = [got EXCEPT ![c] = @ + n]
        /\ IF remaining[c] - n <= 0
             THEN publish(c, got'[c] - r.header)
             ELSE /\ remaining' = [remaining EXCEPT ![c] = @ - n]
                  /\ UNCHANGED <<up, pc, response, published>>
  BY DEF do_read_body
<1>2. /\ pc[c] = "body" /\ r \in Request /\ r.announces = "number"
      /\ r.length \in 0..BodyMax /\ r.header \in Nat
      /\ r.header < HdrMax + HdrChunk
      /\ got[c] + remaining[c] = r.header + r.length
      /\ got[c] \in Nat /\ remaining[c] \in Nat \ {0}
  BY DEF do_read_body, IInv, TypeOK, Reading, Request
<1>3. n \in Nat /\ n <= remaining[c] /\ got'[c] = got[c] + n
  BY SMTT(30), <1>1, <1>2 DEF bodyRead, IInv, TypeOK
<1>4. Got(c, got[c] + n) /\ got[c] + n \in Nat /\ got[c] + n < HdrMax + HdrChunk + BodyMax
  <2>1. Got(c, got[c] + n)
    BY <1>1 DEF do_read_body, Got
  <2>2. got[c] + n \in Nat /\ got[c] + n < HdrMax + HdrChunk + BodyMax
    BY <1>2, <1>3
  <2> QED
    BY <2>1, <2>2
<1>5. CASE remaining[c] - n <= 0
  <2>1. got'[c] - r.header = r.length /\ publish(c, got'[c] - r.header)
    BY <1>1, <1>2, <1>3, <1>5
  <2> QED
    BY <1>2, <1>4, <2>1, Published
<1>6. CASE remaining[c] - n > 0
  <2> DEFINE rest == remaining[c] - n
  <2>1. /\ remaining' = [remaining EXCEPT ![c] = rest]
        /\ UNCHANGED <<up, pc, response, published>>
    BY <1>1, <1>2, <1>3, <1>6
  <2>2. rest \in Nat /\ rest > 0 /\ (got[c] + n) + rest = r.header + r.length
    BY <1>2, <1>3, <1>6
  <2>3. pc' = [pc EXCEPT ![c] = "body"]
    BY <1>2, <2>1 DEF IInv, TypeOK
  <2> HIDE DEF rest
  <2> QED
    BY <1>2, <1>4, <2>1, <2>2, <2>3, ReadsOn
<1> QED
  BY <1>2, <1>3, <1>5, <1>6

LEMMA FailStep ==
  ASSUME IInv, NEW c \in Conns, readFails(c)
  PROVE  IInv'
<1>1. Got(c, got[c]) /\ got[c] \in Nat /\ got[c] < HdrMax + HdrChunk + BodyMax
  BY DEF readFails, Got, IInv, TypeOK, BufferBounded
<1>2. up' \in BOOLEAN /\ (up' => up)
  BY Zenon DEF readFails, IInv, TypeOK
<1> QED
  BY <1>1, <1>2, Dropped DEF readFails

LEMMA ClientStep ==
  ASSUME IInv, NEW c \in Conns,
         (\E r \in Requests[c] : accept(c, r)) \/ clientCloses(c)
  PROVE  IInv'
<1> USE DEF IInv
<1>1. ASSUME NEW r \in Requests[c], accept(c, r)
      PROVE  IInv'
  <2>1. r \in Request /\ r # NULL /\ r.header > 0
    BY DEF Request
  <2>2. TypeOK'
    BY <1>1, <2>1 DEF accept, TypeOK
  <2>3. \A d \in Conns : Reading(d)'
    BY <1>1, <2>1 DEF accept, TypeOK, Reading, Quiet
  <2>4. BodyWhole' /\ BufferBounded' /\ AnswersOnce'
    BY SMTT(30), <1>1, <2>1 DEF accept, TypeOK, Reading, Quiet, BodyWhole, BufferBounded, AnswersOnce
  <2> QED
    BY <2>2, <2>3, <2>4
<1>2. CASE clientCloses(c)
  <2>1. peer' \in [Conns -> BOOLEAN]
    BY <1>2, Zenon DEF clientCloses, TypeOK
  <2>2. TypeOK'
    BY <1>2, <2>1 DEF clientCloses, TypeOK
  <2>3. \A d \in Conns : Reading(d)'
    BY <1>2 DEF clientCloses, Reading, Quiet
  <2>4. BodyWhole' /\ BufferBounded' /\ AnswersOnce'
    BY <1>2 DEF clientCloses, TypeOK, BodyWhole, BufferBounded, AnswersOnce
  <2> QED
    BY <2>2, <2>3, <2>4
<1> QED
  BY <1>1, <1>2

LEMMA NextIInv == IInv /\ [Next]_vars => IInv'
<1> SUFFICES ASSUME IInv, [Next]_vars PROVE IInv'
  OBVIOUS
<1>1. CASE UNCHANGED vars
  BY <1>1 DEF vars, IInv, TypeOK, Reading, Quiet, BodyWhole, BufferBounded, AnswersOnce
<1>2. CASE Next
  BY <1>2, ClientStep, HeaderStep, BodyStep, FailStep DEF Next, complete
<1> QED
  BY <1>1, <1>2

LEMMA Invariance == Spec => []IInv
  BY InitIInv, NextIInv, PTL DEF Spec

----------------------------------------------------------------------------

\* In every state of http_handler the variables keep their shape, and the int
\* remaining_size of do_read_body is positive.
THEOREM TypeCorrect == Spec => []TypeOK
<1>1. IInv => TypeOK
  BY DEF IInv
<1> QED
  BY <1>1, Invariance, PTL

\* For any chunk sizes, limits and cuts, the message broadcast of a POST with a
\* Content-Length is the body that was announced, plus at most what came in the
\* header's last chunk.
THEOREM BodyCorrect == Spec => []BodyWhole
<1>1. IInv => BodyWhole
  BY DEF IInv
<1> QED
  BY <1>1, Invariance, PTL

\* No connection makes _buffer grow beyond the limits and one chunk.
THEOREM BufferCorrect == Spec => []BufferBounded
<1>1. IInv => BufferBounded
  BY DEF IInv
<1> QED
  BY <1>1, Invariance, PTL

\* No request is answered twice, and do_read_header drops only what is too long.
THEOREM AnswersCorrect == Spec => []AnswersOnce
<1>1. IInv => AnswersOnce
  BY DEF IInv
<1> QED
  BY <1>1, Invariance, PTL

----------------------------------------------------------------------------
(* The safety core of RequestAnswered                                      *)

\* A handler that reads a complete request has something left to read, and of a
\* body no less than remaining_size; its next read is into a buffer with room.
ReadsWhatComes ==
  \A c \in Conns :
    pc[c] \in {"header", "body"} /\ Complete(request[c]) =>
      /\ Unsent(c) > 0
      /\ pc[c] = "body" => remaining[c] <= Unsent(c) /\ bodyRead(c) \in 1..BodyChunk

\* Whatever the chunks, the limits and the announced length, the arithmetic of
\* do_read_header and do_read_body never waits for characters that do not come:
\* with reads that complete, and finitely many characters, this is why every
\* complete request is answered.
THEOREM NeverStuck == Spec => []ReadsWhatComes
<1>1. IInv => ReadsWhatComes
  <2> SUFFICES ASSUME IInv, NEW c \in Conns, pc[c] \in {"header", "body"}, Complete(request[c])
               PROVE  /\ Unsent(c) > 0
                      /\ pc[c] = "body" => /\ remaining[c] <= Unsent(c)
                                           /\ bodyRead(c) \in 1..BodyChunk
    BY DEF ReadsWhatComes
  <2>1. /\ request[c] \in Request /\ got[c] \in Nat /\ remaining[c] \in Nat
        /\ request[c].header \in Nat /\ request[c].body \in Nat
    BY DEF IInv, TypeOK, Reading, Request
  <2>2. CASE pc[c] = "header"
    BY <2>1, <2>2 DEF IInv, Reading, Unsent
  <2>3. CASE pc[c] = "body"
    <3>1. /\ request[c].length \in Int /\ request[c].length <= request[c].body
          /\ got[c] + remaining[c] = request[c].header + request[c].length
          /\ remaining[c] > 0
      BY <2>3 DEF IInv, TypeOK, Reading, Complete
    <3>2. remaining[c] <= Unsent(c) /\ Unsent(c) > 0
      BY <2>1, <3>1 DEF Unsent
    <3>3. bodyRead(c) \in 1..BodyChunk
      BY <2>1, <3>1 DEF bodyRead
    <3> QED
      BY <3>2, <3>3
  <2> QED
    BY <2>2, <2>3
<1> QED
  BY <1>1, Invariance, PTL
=============================================================================
