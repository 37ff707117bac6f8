---------------------------- MODULE MCNodeServer ----------------------------
(* Small instances of NodeServer for TLC.                                   *)
EXTENDS NodeServer, TLC

CONSTANTS c1, c2, c3, w1, w2

MCChars(word) == Len(word)
MCPrefix(word, n) == SubSeq(word, 1, n)

Req(method, path, length, body) ==
  [method |-> method, path |-> path, length |-> length, body |-> body]

GetSse == Req("GET", "/sse", NULL, 0)
PostOk == Req("POST", "/broadcast", 1, 1)

\* Every branch of handleRequest and handlePostRequest; `PostMultibyte' is a
\* body of one two-byte character, `PostSurplus' goes on after its body, and
\* the path of `GetSse123' begins with that of another route.
PostMultibyte == Req("POST", "/broadcast", 2, 1)
PostSurplus == Req("POST", "/broadcast", 1, 2)
GetSse123 == Req("GET", "/sse123", NULL, 0)
AnyRequest ==
  {GetSse, GetSse123, PostOk, PostSurplus,
   Req("GET", "/connections", NULL, 0), Req("OPTIONS", "/sse", NULL, 0),
   Req("POST", "/broadcast", NULL, 1), Req("POST", "/sse", 1, 1),
   Req("GET", "/undefined", NULL, 0), PostMultibyte}

\* One client sends anything; the others subscribe or broadcast.
MCRequests == (c1 :> AnyRequest) @@ (c2 :> {GetSse}) @@ (c3 :> {GetSse, PostOk})

\* The smallest population that shows the claim of the README failing
PostAndSse == (c1 :> {PostOk}) @@ (c2 :> {GetSse})

\* Of the lines of 19 (GET /sse), 22 (GET /sse123) and 26 characters (POST
\* /broadcast) a cut at 9 loses nothing, at 12 three characters of the path,
\* which leaves /sse of /sse123, at 18 nothing of the first line and all but GE
\* of the second, at 22 all but PO of the third, at 25 nothing of it; 26 and 28
\* are the ends of a POST's line and of its body's first character.
MCCuts == {9, 12, 18, 22, 25, 26, 28}
=============================================================================
