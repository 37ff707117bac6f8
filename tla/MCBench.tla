------------------------------- MODULE MCBench -------------------------------
(* Small instances of Bench for TLC.                                        *)
EXTENDS Bench

CONSTANTS b1, b2

Run(reset, duration, probeInterval, numClients) ==
  [onlyResults |-> FALSE, profileName |-> TRUE, reset |-> reset,
   duration |-> duration, probeInterval |-> probeInterval, numClients |-> numClients]

\* Two samples, with and without --reset; a duration that is no multiple of the
\* interval; --results; and a command line without a profile name
MCArgs ==
  {Run(FALSE, 2, 1, 1), Run(TRUE, 2, 1, 1), Run(FALSE, 3, 2, 0),
   [Run(FALSE, 2, 1, 0) EXCEPT !.onlyResults = TRUE],
   [Run(FALSE, 2, 1, 0) EXCEPT !.profileName = FALSE]}
=============================================================================
