----------------------------- MODULE MCGoBroker -----------------------------
(* Small instances of GoBroker for TLC.                                     *)
EXTENDS GoBroker

CONSTANTS c1, c2
=============================================================================
