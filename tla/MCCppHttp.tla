----------------------------- MODULE MCCppHttp ------------------------------
(* Small instances of CppHttp for TLC.                                      *)
EXTENDS CppHttp, TLC

CONSTANTS c1, c2

Lengths == {<<"nothing", 0>>, <<"other", 0>>} \cup {<<"number", n>> : n \in {-1, 0, 2, 3, 5, 6}}

Posts == {[handler |-> "post", header |-> h, body |-> b, announces |-> l[1], length |-> l[2]] :
            h \in {2, 4, 6}, b \in {0, 2, 5, 7}, l \in Lengths}

Others == {[handler |-> x, header |-> 3, body |-> 0, announces |-> "nothing", length |-> 0] :
            x \in {"400", "404", "get"}}

MCRequests == (c1 :> Posts \cup Others) @@ (c2 :> Others \cup {r \in Posts : r.header = 2 /\ r.body = 2})
=============================================================================
