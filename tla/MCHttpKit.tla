------------------------------ MODULE MCHttpKit ------------------------------
(* Small instances of HttpKit for TLC.                                      *)
EXTENDS HttpKit

CONSTANTS c1, c2, p1
=============================================================================
