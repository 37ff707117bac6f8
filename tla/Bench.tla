-------------------------------- MODULE Bench --------------------------------
(***************************************************************************)
(* bench/bench.js: a run of the benchmark opens its clients, probes the    *)
(* server at an interval until it has the samples of the whole duration,   *)
(* and then adds a row to results.json, which all runs share.              *)
(*                                                                         *)
(* A run is a process; several may follow or overlap one another, and each *)
(* may be killed.  A step is one callback of one run, but the callback     *)
(* that prints the report takes a step for each access to the file.  Time  *)
(* is left out: a row is made of the numbers of its samples.               *)
(***************************************************************************)
EXTENDS Integers, Sequences, FiniteSets

CONSTANTS Runs,        \* the invocations of bench.js
          Args,        \* the command lines they may be given
          MaxPending,  \* bound: probes in flight
          MaxSamples,  \* bound: samples of a run, in flight or taken
          MaxErrors,   \* bound: errors of a run
          MaxMessages, \* bound: messages its sampled clients receive
          BROKEN       \* what JSON.parse throws at

\* duration and probeInterval in the same unit; profileName: is there one?
Arguments == [onlyResults: BOOLEAN, profileName: BOOLEAN, reset: BOOLEAN,
              duration: Nat, probeInterval: Nat \ {0}, numClients: Nat]

\* A row of the table, by the numbers its statistics are computed from
Row == [run: Runs, samples: Nat, messages: Nat, errors: Nat]

ASSUME BenchAssumption ==
  /\ Args \subseteq Arguments
  /\ MaxPending \in Nat
  /\ MaxSamples \in Nat
  /\ MaxErrors \in Nat
  /\ MaxMessages \in Nat
  /\ BROKEN \notin Seq(Row)

VARIABLES
  status,        \* run -> see TypeOK
  args,          \* run -> its arguments
  pending,       \* run -> probes in flight
  responseTimes, \* run -> how many there are
  pushDiffTimes, \* run -> how many there are
  numErrors,     \* run -> the counter
  results,       \* run -> the rows it has read, with its own
  file,          \* the rows in results.json, or BROKEN
  kept,          \* history: the runs that reported since the last --reset
  disturbed      \* history: have two runs been at the file at once, or has
                 \* one been killed while it wrote?

samples == <<pending, responseTimes, pushDiffTimes, numErrors>>
history == <<kept, disturbed>>
vars == <<status, args, samples, results, file, history>>

Init ==
  /\ status = [b \in Runs |-> "idle"]
  /\ args \in [Runs -> Args]
  /\ pending = [b \in Runs |-> 0]
  /\ responseTimes = [b \in Runs |-> 0]
  /\ pushDiffTimes = [b \in Runs |-> 0]
  /\ numErrors = [b \in Runs |-> 0]
  /\ results = [b \in Runs |-> <<>>]
  /\ file = <<>>
  /\ kept = {}
  /\ disturbed = FALSE

goto(b, from, to) == status[b] = from /\ status' = [status EXCEPT ![b] = to]

----------------------------------------------------------------------------
(* Sampling                                                                *)

\* The clients that get an onmessage handler; sampleRate is 0 below 20 clients,
\* and nothing is 0 modulo that.
Sampled(numClients) ==
  LET sampleRate == numClients \div 20
  IN  {i \in 0..(numClients - 1) :
         i = 0 \/ (sampleRate > 0 /\ i % sampleRate = 0) \/ i = numClients}

Start(b) ==
  /\ \/ args[b].onlyResults /\ goto(b, "idle", "reading")
     \/ ~args[b].onlyResults /\ ~args[b].profileName /\ goto(b, "idle", "exited")
     \/ ~args[b].onlyResults /\ args[b].profileName /\ goto(b, "idle", "running")
  /\ UNCHANGED <<args, samples, results, file, history>>

\* responseTimer and sysLoadTimer have one interval and fire one after another.
getResponseTime(b) ==
  /\ status[b] = "running"
  /\ pending[b] < MaxPending
  /\ pending[b] + responseTimes[b] < MaxSamples
  /\ pending' = [pending EXCEPT ![b] = @ + 1]
  /\ UNCHANGED <<status, args, responseTimes, pushDiffTimes, numErrors, results,
                 file, history>>

\* Mutant of Finished: >= for ===, which needs no printingReport
FinishedOrOver(b) ==
  (responseTimes[b] + 1) * args[b].probeInterval >= args[b].duration

\* With the sample that has just arrived: length === benchDuration / probeInterval
\* and not yet printing the report.
Finished(b) ==
  /\ status[b] = "running"
  /\ (responseTimes[b] + 1) * args[b].probeInterval = args[b].duration

\* A probe is answered, perhaps after the report.  The answer that completes the
\* samples stops both timers and prints the report in the same callback.
onResponse(b) ==
  /\ status[b] \in {"running", "printed"}
  /\ pending[b] > 0
  /\ pending' = [pending EXCEPT ![b] = @ - 1]
  /\ responseTimes' = [responseTimes EXCEPT ![b] = @ + 1]
  /\ status' = [status EXCEPT ![b] = IF Finished(b) THEN "reading" ELSE @]
  /\ UNCHANGED <<args, pushDiffTimes, numErrors, results, file, history>>

\* Mutant of onProbeError: a failed probe counts as a sample
onProbeErrorSampled(b) ==
  /\ status[b] \in {"running", "printed"}
  /\ pending[b] > 0
  /\ numErrors[b] < MaxErrors
  /\ pending' = [pending EXCEPT ![b] = @ - 1]
  /\ responseTimes' = [responseTimes EXCEPT ![b] = @ + 1]
  /\ numErrors' = [numErrors EXCEPT ![b] = @ + 1]
  /\ UNCHANGED <<status, args, pushDiffTimes, results, file, history>>

\* Mutant of onProbeError: req.abort() makes an answered probe fail as well
onProbeErrorAfterAbort(b) ==
  /\ status[b] \in {"running", "printed"}
  /\ pending[b] + responseTimes[b] > 0
  /\ numErrors[b] < MaxErrors
  /\ pending' = [pending EXCEPT ![b] = @ - 1]
  /\ numErrors' = [numErrors EXCEPT ![b] = @ + 1]
  /\ UNCHANGED <<status, args, responseTimes, pushDiffTimes, results, file, history>>

\* A probe fails: it is no sample, and the timer goes on.
onProbeError(b) ==
  /\ status[b] \in {"running", "printed"}
  /\ pending[b] > 0
  /\ numErrors[b] < MaxErrors
  /\ pending' = [pending EXCEPT ![b] = @ - 1]
  /\ numErrors' = [numErrors EXCEPT ![b] = @ + 1]
  /\ UNCHANGED <<status, args, responseTimes, pushDiffTimes, results, file, history>>

\* One of the clients fails; the library connects it again.
onClientError(b) ==
  /\ status[b] = "running"
  /\ args[b].numClients > 0
  /\ numErrors[b] < MaxErrors
  /\ numErrors' = [numErrors EXCEPT ![b] = @ + 1]
  /\ UNCHANGED <<status, args, pending, responseTimes, pushDiffTimes, results,
                 file, history>>

onMsgReceived(b) ==
  /\ status[b] = "running"
  /\ Sampled(args[b].numClients) # {}
  /\ pushDiffTimes[b] < MaxMessages
  /\ pushDiffTimes' = [pushDiffTimes EXCEPT ![b] = @ + 1]
  /\ UNCHANGED <<status, args, pending, responseTimes, numErrors, results, file,
                 history>>

----------------------------------------------------------------------------
(* printReport                                                             *)

AtFile == {"writing", "emptied"}

row(b) == [run |-> b, samples |-> responseTimes[b],
           messages |-> pushDiffTimes[b], errors |-> numErrors[b]]

\* Mutant of Previous: --reset is forgotten
PreviousAlways(b) == IF file = BROKEN THEN <<>> ELSE file

\* What the try block yields: '[]' with --reset or without a file, and an empty
\* array for a file that is not JSON.
Previous(b) == IF args[b].reset \/ file = BROKEN THEN <<>> ELSE file

\* Closes the clients; --results prints and exits without writing.
readResults(b) ==
  /\ status[b] = "reading"
  /\ IF args[b].onlyResults
       THEN /\ goto(b, "reading", "exited")
            /\ results' = [results EXCEPT ![b] = Previous(b)]
            /\ UNCHANGED disturbed
       ELSE /\ goto(b, "reading", "writing")
            /\ results' = [results EXCEPT ![b] = Append(Previous(b), row(b))]
            /\ disturbed' = (disturbed \/ \E d \in Runs : status[d] \in AtFile)
  /\ UNCHANGED <<args, samples, file, kept>>

\* writeFileSync, step one: the file is opened and emptied.
emptyFile(b) ==
  /\ goto(b, "writing", "emptied")
  /\ file' = BROKEN
  /\ UNCHANGED <<args, samples, results, history>>

\* Step two: the rows are written from the beginning of the file, over whatever
\* another run has put there since.
writeFile(b) ==
  /\ goto(b, "emptied", "printed")
  /\ file' \in {results[b]} \cup (IF file = BROKEN THEN {} ELSE {BROKEN})
  /\ kept' = IF args[b].reset THEN {b} ELSE kept \cup {b}
  /\ UNCHANGED <<args, samples, results, disturbed>>

\* Nothing keeps the process any more: timers stopped, clients closed, and the
\* probes that were in flight answered or failed.
exit(b) ==
  /\ goto(b, "printed", "exited")
  /\ pending[b] = 0
  /\ UNCHANGED <<args, samples, results, file, history>>

\* The user or the system ends the run, perhaps with part of the rows written.
Kill(b) ==
  /\ status[b] \notin {"idle", "exited", "killed"}
  /\ status' = [status EXCEPT ![b] = "killed"]
  /\ disturbed' = (disturbed \/ status[b] = "emptied")
  /\ file' \in {file} \cup (IF status[b] = "emptied" THEN {BROKEN} ELSE {})
  /\ UNCHANGED <<args, samples, results, kept>>

----------------------------------------------------------------------------

printReport(b) == readResults(b) \/ emptyFile(b) \/ writeFile(b)
callbacks(b) == getResponseTime(b) \/ onResponse(b) \/ onProbeError(b)
                  \/ onClientError(b) \/ onMsgReceived(b)

Next == \E b \in Runs : Start(b) \/ callbacks(b) \/ printReport(b) \/ exit(b) \/ Kill(b)

Spec == Init /\ [][Next]_vars

\* Timers fire, synchronous code runs on, and the server answers a probe unless
\* it fails it.
Fairness ==
  \A b \in Runs : /\ WF_vars(getResponseTime(b))
                  /\ WF_vars(onResponse(b))
                  /\ WF_vars(printReport(b))
                  /\ WF_vars(exit(b))
FairSpec == Spec /\ Fairness

----------------------------------------------------------------------------
(* Properties                                                              *)

\* Every variable keeps its shape.
TypeOK ==
  /\ status \in [Runs -> {"idle", "running", "reading", "writing", "emptied",
                          "printed", "exited", "killed"}]
  /\ args \in [Runs -> Args]
  /\ pending \in [Runs -> 0..MaxPending]
  /\ responseTimes \in [Runs -> Nat]
  /\ pushDiffTimes \in [Runs -> 0..MaxMessages]
  /\ numErrors \in [Runs -> 0..MaxErrors]
  /\ results \in [Runs -> Seq(Row)]
  /\ file \in Seq(Row) \cup {BROKEN}
  /\ kept \subseteq Runs
  /\ disturbed \in BOOLEAN

\* The runs that have a row in the file
Filed == {file[i].run : i \in DOMAIN file}

\* A row stands for exactly the samples of the duration asked for, however many
\* probes failed, were late or were still in flight when the report was printed;
\* and no run has two rows, though answers still arrive after its report.
RowsComplete ==
  file # BROKEN =>
    /\ \A i \in DOMAIN file :
         file[i].samples * args[file[i].run].probeInterval = args[file[i].run].duration
    /\ \A i, j \in DOMAIN file : file[i].run = file[j].run => i = j

\* The table keeps the row of every run since the last --reset, and no other,
\* as long as no two runs are between reading and writing at once and none is
\* killed while the file is empty.
ResultsKept ==
  ~disturbed /\ (\A b \in Runs : status[b] # "emptied") =>
    file # BROKEN /\ Filed = kept

\* A run ends if its duration is a multiple of its interval, whatever another
\* run, alive or killed, has left in the file, and however often probes fail.
RunEnds ==
  \A b \in Runs :
    (/\ status[b] = "running"
     /\ args[b].duration > 0
     /\ args[b].duration % args[b].probeInterval = 0)
      ~> status[b] \in {"exited", "killed"}
=============================================================================
