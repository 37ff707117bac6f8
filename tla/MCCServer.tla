----------------------------- MODULE MCCServer ------------------------------
(* Small instances of CServer for TLC.                                      *)
EXTENDS CServer, TLC

CONSTANTS c1, c2

\* One client sends a request of each kind, the other opens a stream.
MCRequests == (c1 :> {"GET /sse", "GET /connections", "POST /broadcast"}) @@ (c2 :> {"GET /sse"})
OnlySse == [c \in Conns |-> {"GET /sse"}]
=============================================================================
