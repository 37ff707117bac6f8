------------------------------- MODULE CppHttp -------------------------------
(***************************************************************************)
(* c++/http_handler.cpp: an http_handler per connection reads the header   *)
(* in chunks until it holds a blank line, routes the request and, for a    *)
(* POST to /broadcast, reads the rest of the body and broadcasts it.  A    *)
(* step is one completion of async_read_some with every call it makes.     *)
(*                                                                         *)
(* A request is a run of characters; what matters of it is where its       *)
(* header ends, how many follow, and how many it announces.  The broadcast *)
(* itself is the subject of CppServer.                                     *)
(***************************************************************************)
EXTENDS Integers, Sequences

CONSTANTS Conns,     \* client connections, each carrying one request
          Requests,  \* connection -> the requests its client may send
          HdrChunk,  \* hdr_chunk_size
          HdrMax,    \* hdr_max_size
          BodyChunk, \* body_chunk_size
          BodyMax,   \* body_max_size
          NULL

\* handler: what parse_request and the map of handlers make of the request; "get"
\* stands for those that answer at once and never call read_body, "200" for their
\* statuses.  header: characters up to and including the blank line; body:
\* those the client sends after it; announces, length: the Content-Length, on which
\* stoi fails if it is "other".
Request == [handler: {"400", "404", "post", "get"}, header: Nat \ {0}, body: Nat,
            announces: {"nothing", "number", "other"}, length: Int]

ASSUME HttpAssumption ==
  /\ HdrChunk \in Nat \ {0}
  /\ HdrMax \in Nat \ {0}
  /\ BodyChunk \in Nat \ {0}
  /\ BodyMax \in Nat
  /\ NULL \notin Request
  /\ \A c \in Conns : Requests[c] \subseteq Request

VARIABLES
  up,        \* is the process alive?
  request,   \* connection -> the request its client sends, or NULL
  peer,      \* connection -> is the client still there?
  pc,        \* "none", "header" and "body" (a read is in progress) or "done"
  got,       \* connection -> characters in _buffer
  remaining, \* connection -> remaining_size of do_read_body
  response,  \* connection -> the statuses written to it
  published  \* connection -> the sizes of the messages it has had broadcast

vars == <<up, request, peer, pc, got, remaining, response, published>>

Init ==
  /\ up = TRUE
  /\ request = [c \in Conns |-> NULL]
  /\ peer = [c \in Conns |-> TRUE]
  /\ pc = [c \in Conns |-> "none"]
  /\ got = [c \in Conns |-> 0]
  /\ remaining = [c \in Conns |-> 0]
  /\ response = [c \in Conns |-> <<>>]
  /\ published = [c \in Conns |-> <<>>]

accept(c, r) ==
  /\ pc[c] = "none"
  /\ request' = [request EXCEPT ![c] = r]
  /\ pc' = [pc EXCEPT ![c] = "header"]
  /\ UNCHANGED <<up, peer, got, remaining, response, published>>

clientCloses(c) ==
  /\ pc[c] # "none"
  /\ peer[c]
  /\ peer' = [peer EXCEPT ![c] = FALSE]
  /\ UNCHANGED <<up, request, pc, got, remaining, response, published>>

----------------------------------------------------------------------------
(* Steps of a handler, once got' is known                                  *)

Unsent(c) == request[c].header + request[c].body - got[c]

moveOn(c, where) == pc' = [pc EXCEPT ![c] = where]

write(c, status) == response' = [response EXCEPT ![c] = Append(@, status)]

answer(c, status) ==
  /\ write(c, status)
  /\ moveOn(c, "done")
  /\ UNCHANGED <<up, remaining, published>>

\* The body is all of _buffer from _body_offset on.  The answer comes second.
publish(c, size) ==
  /\ published' = [published EXCEPT ![c] = Append(@, size)]
  /\ write(c, "202")
  /\ moveOn(c, "done")
  /\ UNCHANGED <<up, remaining>>

\* Mutant of readBody: the characters that came with the header are forgotten
readBodyAnew(c, size) ==
  IF size <= 0
    THEN publish(c, got'[c] - request[c].header)
    ELSE /\ remaining' = [remaining EXCEPT ![c] = size]
         /\ moveOn(c, "body")
         /\ UNCHANGED <<up, response, published>>

\* Mutant of readBody: < for <=
readBodyAtEnd(c, size) ==
  LET buffered == got'[c] - request[c].header IN
  IF size - buffered < 0
    THEN publish(c, buffered)
    ELSE /\ remaining' = [remaining EXCEPT ![c] = size - buffered]
         /\ moveOn(c, "body")
         /\ UNCHANGED <<up, response, published>>

\* read_body of a request that announces `size' characters
readBody(c, size) ==
  LET buffered == got'[c] - request[c].header IN
  IF size - buffered <= 0
    THEN publish(c, buffered)
    ELSE /\ remaining' = [remaining EXCEPT ![c] = size - buffered]
         /\ moveOn(c, "body")
         /\ UNCHANGED <<up, response, published>>

\* stoi throws and nobody catches: the exception ends the process.
stoiThrows(c) ==
  /\ up' = FALSE
  /\ moveOn(c, "done")
  /\ UNCHANGED <<remaining, response, published>>

\* Mutant of TooLarge: the limit is forgotten
TooLargeNever(r) == r.announces = "number" /\ r.length < 0

\* A negative length is a huge one once it is a size_t.
TooLarge(r) == r.announces = "number" /\ r.length \notin 0..BodyMax

\* Without a Content-Length, "" is broadcast and the body never read.
do_handle_request(c) ==
  LET r == request[c] IN
  CASE r.handler \in {"400", "404"} -> answer(c, r.handler)
    [] r.handler \in {"post", "get"} /\ r.announces = "other" -> stoiThrows(c)
    [] r.handler \in {"post", "get"} /\ TooLarge(r) -> answer(c, "400")
    [] r.handler = "get" /\ r.announces # "other" /\ ~TooLarge(r) -> answer(c, "200")
    [] r.handler = "post" /\ r.announces = "nothing" -> publish(c, 0)
    [] r.handler = "post" /\ r.announces = "number" /\ ~TooLarge(r) -> readBody(c, r.length)

----------------------------------------------------------------------------
(* Completions of async_read_some                                          *)

\* Mutant of headerTooLong: room for a whole chunk is asked for
headerLeavesNoRoom(size) == size + HdrChunk > HdrMax
headerTooLong(size) == size >= HdrMax

\* _buffered counts what the header's reads have returned: all of _buffer.  A
\* header that is too long is dropped without an answer ("will just die").
do_read_header(c) ==
  /\ pc[c] = "header"
  /\ \E n \in 1..HdrChunk :
       /\ n <= Unsent(c)
       /\ got' = [got EXCEPT ![c] = @ + n]
  /\ IF got'[c] >= request[c].header THEN do_handle_request(c)
     ELSE /\ moveOn(c, IF headerTooLong(got'[c]) THEN "done" ELSE "header")
          /\ UNCHANGED <<up, remaining, response, published>>
  /\ UNCHANGED <<request, peer>>

\* Mutant of bodyRead: no limit but the chunk's
bodyReadChunk(c) == BodyChunk

\* The size of the buffer that do_read_body reads into
bodyRead(c) == IF remaining[c] < BodyChunk THEN remaining[c] ELSE BodyChunk

do_read_body(c) ==
  /\ pc[c] = "body"
  /\ \E n \in 1..bodyRead(c) :
       /\ n <= Unsent(c)
       /\ got' = [got EXCEPT ![c] = @ + n]
       /\ IF remaining[c] - n <= 0
            THEN publish(c, got'[c] - request[c].header)
            ELSE /\ remaining' = [remaining EXCEPT ![c] = @ - n]
                 /\ UNCHANGED <<up, pc, response, published>>
  /\ UNCHANGED <<request, peer>>

\* An error, of a client that has gone: the handler ends without an answer.
readFails(c) ==
  /\ pc[c] \in {"header", "body"}
  /\ ~peer[c]
  /\ moveOn(c, "done")
  /\ UNCHANGED <<up, request, peer, got, remaining, response, published>>

complete(c) == do_read_header(c) \/ do_read_body(c) \/ readFails(c)

----------------------------------------------------------------------------

Next ==
  /\ up
  /\ \E c \in Conns : \/ \E r \in Requests[c] : accept(c, r)
                      \/ clientCloses(c)
                      \/ complete(c)

Spec == Init /\ [][Next]_vars

\* What a client has sent is read.  No client need close its connection.
FairSpec == Spec /\ \A c \in Conns : WF_vars(up /\ complete(c))

----------------------------------------------------------------------------
(* Properties                                                              *)

\* Every variable keeps its shape; remaining_size, an int that stands for an
\* unsigned difference, is positive while a body is read.
TypeOK ==
  /\ up \in BOOLEAN
  /\ request \in [Conns -> Request \cup {NULL}]
  /\ peer \in [Conns -> BOOLEAN]
  /\ pc \in [Conns -> {"none", "header", "body", "done"}]
  /\ got \in [Conns -> Nat]
  /\ remaining \in [Conns -> Nat]
  /\ response \in [Conns -> Seq({"200", "202", "400", "404"})]
  /\ published \in [Conns -> Seq(Int)]
  /\ \A c \in Conns : pc[c] = "body" => remaining[c] > 0

\* What is broadcast of a POST with a Content-Length is the body announced,
\* however header and body fall into chunks: nothing before the last character
\* is in, and nothing more except what came in the same chunk as the end of the
\* header.  Of a POST without one this promises nothing: the code drops its body
\* and answers 202 (do_handle_request), where README.md:57 asks for a 411.
BodyWhole ==
  \A c \in Conns : \A i \in DOMAIN published[c] :
    LET r == request[c] IN
    r.announces # "nothing" =>
      \/ published[c][i] = r.length
      \/ published[c][i] > r.length /\ published[c][i] < HdrChunk

\* No connection makes the server hold more than a header's limit and a chunk,
\* and for a body no more than its limit and a chunk on top of the header.
BufferBounded ==
  \A c \in Conns :
    /\ got[c] < HdrMax + HdrChunk + BodyMax
    /\ pc[c] = "header" => got[c] < HdrMax

\* No request is answered twice, a 202 means that one message was broadcast (the
\* body, or "" if there is no Content-Length), and a handler ends without an
\* answer only if the client has gone, the header is longer than its limit, or
\* the process has ended.
AnswersOnce ==
  \A c \in Conns :
    /\ Len(response[c]) <= 1
    /\ Len(published[c]) = IF response[c] = <<"202">> THEN 1 ELSE 0
    /\ pc[c] = "done" /\ response[c] = <<>> => ~peer[c] \/ request[c].header > HdrMax \/ ~up

Complete(r) == r.header <= HdrMax /\ (r.announces = "number" => r.length <= r.body)

\* README.md, rules 1 to 4: a complete request of a client that stays is answered.
RequestAnswered ==
  \A c \in Conns :
    (pc[c] # "none" /\ Complete(request[c])) ~> (response[c] # <<>> \/ ~peer[c] \/ ~up)
=============================================================================
