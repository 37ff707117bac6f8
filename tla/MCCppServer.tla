---------------------------- MODULE MCCppServer -----------------------------
(* Small instances of CppServer for TLC.                                    *)
EXTENDS CppServer

CONSTANTS a1, a2
=============================================================================
