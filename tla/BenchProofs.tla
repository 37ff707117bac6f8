----------------------------- MODULE BenchProofs -----------------------------
(***************************************************************************)
(* The safety properties of Bench hold for any number of runs, any command *)
(* lines and any bounds.                                                   *)
(*                                                                         *)
(* A table is good if its rows are complete and belong to runs that have   *)
(* reported (GoodTable).  The file is good, and so is what a run is about  *)
(* to write into it (TablesGood).  As long as no two runs are at the file  *)
(* together, what the one that is there will write is what the file should *)
(* hold (FileOwned).                                                       *)
(***************************************************************************)
EXTENDS Bench, TLAPS

Unreported == {"idle", "running", "reading"}

\* Rows of runs that have reported, by their status st, each with the samples
\* that its arguments as ask for, and none twice
GoodTable(s, st, as) ==
  /\ \A i \in DOMAIN s :
       /\ s[i].samples * as[s[i].run].probeInterval = as[s[i].run].duration
       /\ st[s[i].run] \notin Unreported
  /\ \A i, j \in DOMAIN s : s[i].run = s[j].run => i = j

\* A run that reports has exactly the samples of its duration.
ReportsInFull ==
  \A b \in Runs :
    /\ status[b] = "running" => ~args[b].onlyResults
    /\ status[b] = "reading" /\ ~args[b].onlyResults =>
         responseTimes[b] * args[b].probeInterval = args[b].duration

TablesGood ==
  /\ file # BROKEN => GoodTable(file, status, args)
  /\ \A b \in Runs : status[b] \in AtFile => GoodTable(results[b], status, args)

RunsIn(s) == {s[i].run : i \in DOMAIN s}

\* Until two runs meet there, the file belongs to the one that is about to write.
FileOwned ==
  ~disturbed =>
    /\ \A b, d \in Runs : status[b] \in AtFile /\ status[d] \in AtFile => b = d
    /\ \A b \in Runs : status[b] = "emptied" => file = BROKEN
    /\ \A b \in Runs : status[b] \in AtFile =>
         RunsIn(results[b]) = IF args[b].reset THEN {b} ELSE kept \cup {b}
    /\ (\A b \in Runs : status[b] # "emptied") => file # BROKEN /\ RunsIn(file) = kept

IInv == TypeOK /\ ReportsInFull /\ TablesGood /\ FileOwned

----------------------------------------------------------------------------

USE DEF AtFile, Unreported

LEMMA InitIInv == Init => IInv
<1> SUFFICES ASSUME Init PROVE IInv
  OBVIOUS
<1>1. file = <<>> /\ file \in Seq(Row) /\ file # BROKEN
  <2>1. file = <<>>
    BY DEF Init
  <2>2. <<>> \in Seq(Row)
    OBVIOUS
  <2>3. BROKEN \notin Seq(Row)
    BY BenchAssumption
  <2> QED
    BY <2>1, <2>2, <2>3
<1>2. TypeOK
  <2>1. /\ pending \in [Runs -> 0..MaxPending]
        /\ pushDiffTimes \in [Runs -> 0..MaxMessages]
        /\ numErrors \in [Runs -> 0..MaxErrors]
        /\ results \in [Runs -> Seq(Row)]
    BY BenchAssumption DEF Init
  <2>2. disturbed \in BOOLEAN
    BY Zenon DEF Init
  <2> QED
    BY <1>1, <2>1, <2>2 DEF Init, TypeOK
<1>3. ReportsInFull /\ TablesGood
  BY <1>1 DEF Init, ReportsInFull, TablesGood, GoodTable
<1>4. FileOwned
  BY <1>1 DEF Init, FileOwned, RunsIn
<1> QED
  BY <1>2, <1>3, <1>4 DEF IInv

LEMMA RowOfTable ==
  ASSUME NEW s \in Seq(Row), NEW i \in DOMAIN s
  PROVE  s[i].run \in Runs
<1>1. s[i] \in Row
  OBVIOUS
<1> QED
  BY <1>1 DEF Row

\* A table stays good when no run that has reported takes that back.
LEMMA TableKept ==
  ASSUME NEW s \in Seq(Row), NEW st, NEW st2, NEW as, GoodTable(s, st, as),
         \A d \in Runs : st2[d] \in Unreported => st[d] \in Unreported
  PROVE  GoodTable(s, st2, as)
BY RowOfTable DEF GoodTable

\* What leaves the file and the tables alone and sends nobody to the file or
\* away keeps everything but TypeOK and ReportsInFull.
LEMMA FileUntouched ==
  ASSUME IInv, UNCHANGED <<args, results, file, kept>>, disturbed' = disturbed,
         \A b \in Runs : /\ status'[b] \in AtFile <=> status[b] \in AtFile
                         /\ status'[b] = "emptied" <=> status[b] = "emptied"
                         /\ status'[b] \in Unreported => status[b] \in Unreported
  PROVE  TablesGood' /\ FileOwned'
<1>1. ASSUME NEW s \in Seq(Row), GoodTable(s, status, args)
      PROVE  GoodTable(s, status', args')
  BY <1>1, TableKept
<1>2. TablesGood'
  BY <1>1 DEF IInv, TablesGood, TypeOK
<1>3. FileOwned'
  BY DEF IInv, FileOwned, RunsIn
<1> QED
  BY <1>2, <1>3

LEMMA StartStep ==
  ASSUME IInv, NEW b \in Runs, Start(b)
  PROVE  IInv'
<1> USE DEF IInv
<1>1. TypeOK'
  BY DEF Start, goto, TypeOK, samples, history
<1>2. ReportsInFull'
  BY DEF Start, goto, ReportsInFull, TypeOK, samples
<1>3. /\ UNCHANGED <<args, results, file, kept>> /\ disturbed' = disturbed
      /\ \A d \in Runs : /\ status'[d] \in AtFile <=> status[d] \in AtFile
                         /\ status'[d] = "emptied" <=> status[d] = "emptied"
                         /\ status'[d] \in Unreported => status[d] \in Unreported
  BY DEF Start, goto, TypeOK, history
<1> QED
  BY <1>1, <1>2, <1>3, FileUntouched

LEMMA CallbackStep ==
  ASSUME IInv, NEW b \in Runs, callbacks(b)
  PROVE  IInv'
<1> USE DEF IInv
<1>1. /\ UNCHANGED <<args, results, file, kept>> /\ disturbed' = disturbed
      /\ status' = [status EXCEPT ![b] = IF onResponse(b) /\ Finished(b) THEN "reading" ELSE @]
  <2>1. CASE onResponse(b)
    BY <2>1 DEF onResponse, history
  <2>2. CASE ~onResponse(b)
    BY <2>2 DEF callbacks, getResponseTime, onProbeError, onClientError, onMsgReceived,
                history, TypeOK
  <2> QED
    BY <2>1, <2>2
<1>2. TypeOK'
  <2> USE BenchAssumption DEF TypeOK
  <2>1. CASE getResponseTime(b)
    BY SMTT(30), <1>1, <2>1 DEF getResponseTime
  <2>2. CASE onResponse(b)
    <3>1. /\ pending' \in [Runs -> 0..MaxPending]
          /\ responseTimes' \in [Runs -> Nat]
          /\ status' \in [Runs -> {"idle", "running", "reading", "emptied", "writing",
                                   "printed", "exited", "killed"}]
      BY SMTT(30), <2>2 DEF onResponse
    <3> QED
      BY <1>1, <2>2, <3>1 DEF onResponse
  <2>3. CASE onProbeError(b)
    BY SMTT(30), <1>1, <2>3 DEF onProbeError
  <2>4. CASE onClientError(b)
    BY <1>1, <2>4 DEF onClientError
  <2>5. CASE onMsgReceived(b)
    BY SMTT(30), <1>1, <2>5 DEF onMsgReceived
  <2> QED
    BY <2>1, <2>2, <2>3, <2>4, <2>5 DEF callbacks
<1>3. ReportsInFull'
  <2> SUFFICES ASSUME NEW d \in Runs
               PROVE  /\ status'[d] = "running" => ~args[d].onlyResults
                      /\ status'[d] = "reading" /\ ~args[d].onlyResults =>
                           responseTimes'[d] * args[d].probeInterval = args[d].duration
    BY <1>1 DEF ReportsInFull
  <2>1. CASE d = b /\ onResponse(b) /\ Finished(b)
    BY <1>1, <2>1 DEF onResponse, Finished, TypeOK
  <2>2. CASE ~(d = b /\ onResponse(b) /\ Finished(b))
    <3>1. status'[d] = status[d]
      BY <1>1, <2>2 DEF TypeOK
    <3>2. status[d] = "reading" => responseTimes'[d] = responseTimes[d]
      BY DEF callbacks, getResponseTime, onResponse, onProbeError, onClientError,
             onMsgReceived, TypeOK
    <3> QED
      BY <3>1, <3>2 DEF ReportsInFull
  <2> QED
    BY <2>1, <2>2
<1>4. \A d \in Runs : /\ status'[d] \in AtFile <=> status[d] \in AtFile
                      /\ status'[d] = "emptied" <=> status[d] = "emptied"
                      /\ status'[d] \in Unreported => status[d] \in Unreported
  BY <1>1 DEF Finished, TypeOK
<1> QED
  BY <1>1, <1>2, <1>3, <1>4, FileUntouched

----------------------------------------------------------------------------
(* The report                                                              *)

\* A table with one more row
LEMMA RowAppended ==
  ASSUME NEW s \in Seq(Row), NEW r \in Row
  PROVE  /\ Append(s, r) \in Seq(Row)
         /\ DOMAIN Append(s, r) = DOMAIN s \cup {Len(s) + 1}
         /\ Len(s) + 1 \notin DOMAIN s
         /\ \A i \in DOMAIN s : Append(s, r)[i] = s[i]
         /\ Append(s, r)[Len(s) + 1] = r
OBVIOUS

LEMMA ReadStep ==
  ASSUME IInv, NEW b \in Runs, readResults(b)
  PROVE  IInv'
<1> USE DEF IInv
<1>1. Previous(b) \in Seq(Row)
  BY DEF Previous, TypeOK
<1>2. row(b) \in Row
  <2>1. pushDiffTimes[b] \in Nat /\ numErrors[b] \in Nat /\ responseTimes[b] \in Nat
    BY BenchAssumption DEF TypeOK
  <2> QED
    BY <2>1 DEF row, Row
<1>3. GoodTable(Previous(b), status, args)
  BY DEF Previous, TablesGood, GoodTable
<1>4. CASE args[b].onlyResults
  <2>1. /\ status' = [status EXCEPT ![b] = "exited"] /\ status[b] = "reading"
        /\ results' = [results EXCEPT ![b] = Previous(b)]
        /\ UNCHANGED <<args, samples, file, kept>> /\ disturbed' = disturbed
    BY <1>4 DEF readResults, goto
  <2>2. TypeOK'
    BY <1>1, <2>1 DEF TypeOK, samples
  <2>3. ReportsInFull'
    BY <2>1 DEF ReportsInFull, TypeOK, samples
  <2>4. \A d \in Runs : status'[d] \in AtFile \cup Unreported =>
                          status'[d] = status[d] /\ results'[d] = results[d]
    BY <2>1 DEF TypeOK
  <2>5. \A d \in Runs : /\ status'[d] \in AtFile <=> status[d] \in AtFile
                        /\ status'[d] = "emptied" <=> status[d] = "emptied"
    BY <2>1 DEF TypeOK
  <2>6. ASSUME NEW s \in Seq(Row), GoodTable(s, status, args)
        PROVE  GoodTable(s, status', args')
    BY <2>1, <2>4, <2>6, TableKept
  <2>7. TablesGood'
    BY <2>1, <2>4, <2>6 DEF TablesGood, TypeOK
  <2>8. FileOwned'
    BY <2>1, <2>4, <2>5 DEF FileOwned, RunsIn
  <2> QED
    BY <2>2, <2>3, <2>7, <2>8
<1>5. CASE ~args[b].onlyResults
  <2> DEFINE t == Append(Previous(b), row(b))
  <2>1. /\ status' = [status EXCEPT ![b] = "writing"] /\ status[b] = "reading"
        /\ results' = [results EXCEPT ![b] = t]
        /\ UNCHANGED <<args, samples, file, kept>>
        /\ disturbed' = (disturbed \/ \E d \in Runs : status[d] \in AtFile)
    BY <1>5 DEF readResults, goto
  <2>2. TypeOK'
    <3>1. t \in Seq(Row)
      BY <1>1, <1>2
    <3>2. results' \in [Runs -> Seq(Row)]
      BY <2>1, <3>1 DEF TypeOK
    <3>3. disturbed' \in BOOLEAN
      BY <2>1, Zenon
    <3> QED
      BY <2>1, <3>2, <3>3 DEF TypeOK, samples
  <2>3. ReportsInFull'
    BY <2>1 DEF ReportsInFull, TypeOK, samples
  <2>4. \A d \in Runs \ {b} : status'[d] = status[d] /\ results'[d] = results[d]
    BY <2>1 DEF TypeOK
  <2>5. status'[b] = "writing" /\ results'[b] = t
    BY <2>1 DEF TypeOK
  <2>6. ASSUME NEW s \in Seq(Row), GoodTable(s, status, args)
        PROVE  GoodTable(s, status', args')
    BY <2>1, <2>4, <2>5, <2>6, TableKept
  <2>7. GoodTable(t, status', args')
    <3> DEFINE s == Previous(b)
               last == Len(s) + 1
    <3>1. /\ DOMAIN t = DOMAIN s \cup {last}
          /\ \A i \in DOMAIN s : t[i] = s[i]
          /\ t[last] = row(b)
      BY <1>1, <1>2, RowAppended
    <3>2. /\ row(b).run = b
          /\ row(b).samples * args[b].probeInterval = args[b].duration
      BY <1>5, <2>1 DEF row, ReportsInFull
    <3>3. \A i \in DOMAIN s : s[i].run # b
      BY <1>3, <2>1 DEF GoodTable
    <3> HIDE DEF s, t, last
    <3>4. GoodTable(s, status', args')
      BY <1>1, <1>3, <2>6 DEF s
    <3> QED
      BY <2>1, <2>5, <3>1, <3>2, <3>3, <3>4 DEF GoodTable
  <2>8. TablesGood'
    <3>1. \A d \in Runs : status'[d] \in AtFile => GoodTable(results'[d], status', args')
      BY <2>4, <2>5, <2>6, <2>7 DEF TablesGood, TypeOK
    <3> QED
      BY <2>1, <2>6, <3>1 DEF TablesGood, TypeOK
  <2>9. FileOwned'
    <3> SUFFICES ASSUME ~disturbed, \A d \in Runs : status[d] \notin AtFile
                 PROVE  FileOwned'
      BY <2>1 DEF FileOwned
    <3>1. file # BROKEN /\ RunsIn(file) = kept
      BY DEF FileOwned
    <3>2. RunsIn(t) = RunsIn(Previous(b)) \cup {b}
      BY <1>1, <1>2, RowAppended DEF RunsIn, row
    <3>3. RunsIn(Previous(b)) = IF args[b].reset THEN {} ELSE kept
      BY <3>1 DEF RunsIn, Previous
    <3> HIDE DEF t
    <3>4. RunsIn(results'[b]) = IF args[b].reset THEN {b} ELSE kept \cup {b}
      BY <2>5, <3>2, <3>3
    <3>5. \A d \in Runs : status'[d] \in AtFile => d = b
      BY <2>4
    <3> QED
      BY <2>1, <2>5, <3>1, <3>4, <3>5 DEF FileOwned, RunsIn
  <2> QED
    BY <2>2, <2>3, <2>8, <2>9
<1> QED
  BY <1>4, <1>5

LEMMA EmptyStep ==
  ASSUME IInv, NEW b \in Runs, emptyFile(b)
  PROVE  IInv'
<1> USE DEF IInv
<1>1. /\ status' = [status EXCEPT ![b] = "emptied"] /\ status[b] = "writing"
      /\ file' = BROKEN
      /\ UNCHANGED <<args, samples, results, kept>> /\ disturbed' = disturbed
  BY DEF emptyFile, goto, history
<1>2. TypeOK'
  BY <1>1 DEF TypeOK, samples
<1>3. ReportsInFull'
  BY <1>1 DEF ReportsInFull, TypeOK, samples
<1>4. \A d \in Runs : /\ status'[d] \in AtFile <=> status[d] \in AtFile
                      /\ status'[d] \in Unreported => status[d] \in Unreported
  BY <1>1 DEF TypeOK
<1>5. TablesGood'
  <2>1. \A d \in Runs : status'[d] \in AtFile => GoodTable(results[d], status', args')
    BY <1>1, <1>4, TableKept DEF TypeOK, TablesGood
  <2> QED
    BY <1>1, <2>1 DEF TablesGood
<1>6. FileOwned'
  <2> SUFFICES ASSUME ~disturbed PROVE FileOwned'
    BY <1>1 DEF FileOwned
  <2>1. status'[b] = "emptied" /\ \A d \in Runs : status'[d] \in AtFile => d = b
    BY <1>1, <1>4 DEF FileOwned, TypeOK
  <2>2. RunsIn(results[b]) = IF args[b].reset THEN {b} ELSE kept \cup {b}
    BY <1>1 DEF FileOwned
  <2>3. \A d, e \in Runs : status'[d] \in AtFile /\ status'[e] \in AtFile => d = e
    BY <2>1
  <2>4. \A d \in Runs : status'[d] \in AtFile =>
          RunsIn(results'[d]) = IF args'[d].reset THEN {d} ELSE kept' \cup {d}
    BY <1>1, <2>1, <2>2
  <2>5. ~ \A d \in Runs : status'[d] # "emptied"
    BY <2>1
  <2> QED
    BY <1>1, <2>3, <2>4, <2>5 DEF FileOwned, RunsIn
<1> QED
  BY <1>2, <1>3, <1>5, <1>6

LEMMA WriteStep ==
  ASSUME IInv, NEW b \in Runs, writeFile(b)
  PROVE  IInv'
<1> USE DEF IInv
<1>1. /\ status' = [status EXCEPT ![b] = "printed"] /\ status[b] = "emptied"
      /\ file' \in {results[b], BROKEN}
      /\ file = BROKEN => file' = results[b]
      /\ kept' = IF args[b].reset THEN {b} ELSE kept \cup {b}
      /\ UNCHANGED <<args, samples, results>> /\ disturbed' = disturbed
  BY DEF writeFile, goto
<1>2. results[b] \in Seq(Row) /\ GoodTable(results[b], status, args)
  BY <1>1 DEF TypeOK, TablesGood
<1>3. TypeOK'
  BY <1>1, <1>2 DEF TypeOK, samples
<1>4. ReportsInFull'
  BY <1>1 DEF ReportsInFull, TypeOK, samples
<1>5. \A d \in Runs : /\ status'[d] \in AtFile => d # b /\ status'[d] = status[d]
                      /\ status'[d] \in Unreported => status[d] \in Unreported
  BY <1>1 DEF TypeOK
<1>6. TablesGood'
  <2>1. file' # BROKEN => GoodTable(file', status', args')
    BY <1>1, <1>2, <1>5, TableKept
  <2>2. \A d \in Runs : status'[d] \in AtFile => GoodTable(results'[d], status', args')
    BY <1>1, <1>5, TableKept DEF TypeOK, TablesGood
  <2> QED
    BY <2>1, <2>2 DEF TablesGood
<1>7. FileOwned'
  <2> SUFFICES ASSUME ~disturbed PROVE FileOwned'
    BY <1>1 DEF FileOwned
  <2>1. \A d \in Runs : status'[d] \notin AtFile
    BY <1>1, <1>5 DEF FileOwned
  <2>2. file' = results[b] /\ RunsIn(results[b]) = kept'
    BY <1>1 DEF FileOwned
  <2>3. file' # BROKEN
    BY <1>2, <2>2, BenchAssumption
  <2> QED
    BY <2>1, <2>2, <2>3 DEF FileOwned, RunsIn
<1> QED
  BY <1>3, <1>4, <1>6, <1>7

\* The ends of a run
LEMMA EndStep ==
  ASSUME IInv, NEW b \in Runs, exit(b) \/ Kill(b)
  PROVE  IInv'
<1> USE DEF IInv
<1>1. PICK to \in {"exited", "killed"} : status' = [status EXCEPT ![b] = to]
  BY DEF exit, goto, Kill
<1>2. /\ UNCHANGED <<args, samples, results, kept>>
      /\ file' \in {file, BROKEN}
      /\ file' # file => disturbed'
      /\ disturbed' = (disturbed \/ status[b] = "emptied")
  BY DEF exit, goto, Kill, history, TypeOK
<1>3. TypeOK'
  <2>1. disturbed' \in BOOLEAN
    BY <1>2, Zenon
  <2> QED
    BY <1>1, <1>2, <2>1 DEF TypeOK, samples
<1>4. ReportsInFull'
  BY <1>1, <1>2 DEF ReportsInFull, TypeOK, samples
<1>5. \A d \in Runs : /\ status'[d] \in AtFile => d # b /\ status'[d] = status[d]
                      /\ status[d] = "emptied" => d = b \/ status'[d] = "emptied"
                      /\ status'[d] \in Unreported => status[d] \in Unreported
  BY <1>1 DEF TypeOK
<1>6. TablesGood'
  <2>1. file' # BROKEN => GoodTable(file', status', args')
    BY ZenonT(40), <1>1, <1>2, <1>5, TableKept DEF TypeOK, TablesGood
  <2>2. \A d \in Runs : status'[d] \in AtFile => GoodTable(results'[d], status', args')
    BY <1>1, <1>2, <1>5, TableKept DEF TypeOK, TablesGood
  <2> QED
    BY <2>1, <2>2 DEF TablesGood
<1>7. FileOwned'
  <2> SUFFICES ASSUME ~disturbed' PROVE FileOwned'
    BY DEF FileOwned
  <2>1. ~disturbed /\ status[b] # "emptied" /\ file' = file
    BY <1>2
  <2>2. (\A d \in Runs : status'[d] # "emptied") => (\A d \in Runs : status[d] # "emptied")
    BY <1>5, <2>1
  <2> QED
    BY <1>2, <1>5, <2>1, <2>2 DEF FileOwned, RunsIn
<1> QED
  BY <1>3, <1>4, <1>6, <1>7

LEMMA NextIInv == IInv /\ [Next]_vars => IInv'
<1> SUFFICES ASSUME IInv, [Next]_vars PROVE IInv'
  OBVIOUS
<1>1. CASE UNCHANGED vars
  <2>1. TypeOK' /\ ReportsInFull'
    BY <1>1 DEF vars, samples, history, IInv, TypeOK, ReportsInFull
  <2> QED
    BY <1>1, <2>1, FileUntouched DEF vars, history, IInv
<1> QED
  BY <1>1, StartStep, CallbackStep, ReadStep, EmptyStep, WriteStep, EndStep DEF Next, printReport

LEMMA Invariance == Spec => []IInv
BY InitIInv, NextIInv, PTL DEF Spec

----------------------------------------------------------------------------

\* Every reachable state of any number of benchmark runs has its type.
THEOREM TypeCorrect == Spec => []TypeOK
<1>1. IInv => TypeOK
  BY DEF IInv
<1> QED
  BY <1>1, Invariance, PTL

\* Every row of results.json (bench.js:122-143) stands for exactly the samples
\* of its duration, and no run has two rows, whatever runs do to one another.
THEOREM RowsCorrect == Spec => []RowsComplete
<1>1. IInv => RowsComplete
  BY DEF IInv, TablesGood, GoodTable, RowsComplete
<1> QED
  BY <1>1, Invariance, PTL

\* Without two runs at the file together or a kill while it is empty,
\* results.json (bench.js:74-143) keeps the rows of all runs since the last
\* --reset.
THEOREM ResultsCorrect == Spec => []ResultsKept
<1>1. IInv => ResultsKept
  BY DEF IInv, FileOwned, RunsIn, ResultsKept, Filed
<1> QED
  BY <1>1, Invariance, PTL

----------------------------------------------------------------------------
(* The safety core of RunEnds                                              *)

\* The report is printed when the samples are exactly as many as the duration
\* asks for: a run that can come to that number has not passed it.
ReportNotMissed ==
  \A b \in Runs :
    /\ status[b] = "running"
    /\ args[b].duration > 0
    /\ args[b].duration % args[b].probeInterval = 0
    => responseTimes[b] * args[b].probeInterval < args[b].duration

\* Below a multiple, one more step of that length reaches it at most.
LEMMA NextMultiple ==
  ASSUME NEW p \in Nat \ {0}, NEW d \in Nat, d % p = 0, NEW r \in Nat, r * p < d
  PROVE  (r + 1) * p <= d
<1>1. PICK q \in Nat : d = q * p
  <2>1. d \div p \in Nat /\ d = (p * (d \div p)) + (d % p)
    OBVIOUS
  <2> QED
    BY <2>1
<1>2. r < q
  <2>1. ASSUME r >= q PROVE FALSE
    <3>1. PICK k \in Nat : r = q + k
      BY <2>1
    <3>2. r * p = q * p + k * p /\ k * p >= 0
      BY <3>1
    <3> QED
      BY <1>1, <3>2
  <2> QED
    BY <1>1, <2>1
<1>3. PICK k \in Nat : q = (r + 1) + k
  BY <1>1, <1>2
<1>4. q * p = (r + 1) * p + k * p /\ k * p >= 0 /\ (r + 1) * p \in Int
  BY <1>3
<1> QED
  BY <1>1, <1>4

\* A run that has not begun has no samples.
SamplesOK ==
  /\ \A b \in Runs : status[b] = "idle" => responseTimes[b] = 0
  /\ ReportNotMissed

LEMMA SamplesStep == IInv /\ SamplesOK /\ [Next]_vars => SamplesOK'
<1> SUFFICES ASSUME IInv, SamplesOK, [Next]_vars PROVE SamplesOK'
  OBVIOUS
<1>0. TypeOK
  BY DEF IInv
<1>1. ASSUME NEW b \in Runs PROVE args[b] \in Arguments
  BY <1>0, BenchAssumption DEF TypeOK
<1>2. ASSUME NEW b \in Runs, onResponse(b) PROVE SamplesOK'
  <2>1. /\ responseTimes'[b] = responseTimes[b] + 1 /\ args' = args
        /\ status'[b] = IF Finished(b) THEN "reading" ELSE status[b]
        /\ status[b] \in {"running", "printed"}
        /\ \A d \in Runs \ {b} : responseTimes'[d] = responseTimes[d] /\ status'[d] = status[d]
    BY <1>0, <1>2 DEF onResponse, TypeOK
  <2>2. ASSUME status'[b] = "running", args[b].duration > 0,
               args[b].duration % args[b].probeInterval = 0
        PROVE  (responseTimes[b] + 1) * args[b].probeInterval < args[b].duration
    <3>1. status[b] = "running" /\ ~Finished(b)
      BY <2>1, <2>2
    <3>2. responseTimes[b] * args[b].probeInterval < args[b].duration
      BY <2>2, <3>1 DEF SamplesOK, ReportNotMissed
    <3>3. PICK p \in Nat \ {0}, d \in Nat, r \in Nat :
            p = args[b].probeInterval /\ d = args[b].duration /\ r = responseTimes[b]
      BY <1>0, <1>1 DEF Arguments, TypeOK
    <3>4. (r + 1) * p <= d
      BY <2>2, <3>2, <3>3, NextMultiple
    <3>5. (r + 1) * p # d
      BY <3>1, <3>3 DEF Finished
    <3>6. PICK n \in Int : n = (r + 1) * p
      OBVIOUS
    <3> QED
      BY <3>3, <3>4, <3>5, <3>6
  <2> QED
    BY <2>1, <2>2 DEF SamplesOK, ReportNotMissed
<1>3. ASSUME NEW b \in Runs, Start(b) PROVE SamplesOK'
  <2>1. /\ responseTimes' = responseTimes /\ args' = args /\ status[b] = "idle"
        /\ status'[b] # "idle"
        /\ \A d \in Runs \ {b} : status'[d] = status[d]
    BY <1>0, <1>3 DEF Start, goto, samples, TypeOK
  <2>2. responseTimes[b] * args[b].probeInterval = 0
    BY <1>1, <2>1 DEF SamplesOK, Arguments
  <2> QED
    BY <2>1, <2>2 DEF SamplesOK, ReportNotMissed
<1>4. ASSUME NEW b \in Runs, UNCHANGED <<responseTimes, args>>,
             \A d \in Runs : status'[d] \in {"idle", "running"} => status'[d] = status[d]
      PROVE  SamplesOK'
  BY <1>4 DEF SamplesOK, ReportNotMissed
<1>5. ASSUME NEW b \in Runs, printReport(b) \/ exit(b) \/ Kill(b)
      PROVE  SamplesOK'
  <2>1. UNCHANGED <<responseTimes, args>>
    BY <1>5 DEF printReport, readResults, emptyFile, writeFile, exit, Kill, samples
  <2>2. \E to \in {"exited", "writing", "emptied", "printed", "killed"} :
          status' = [status EXCEPT ![b] = to]
    BY <1>5 DEF printReport, readResults, emptyFile, writeFile, exit, Kill, goto
  <2> QED
    BY <1>0, <1>4, <2>1, <2>2 DEF TypeOK
<1>6. ASSUME NEW b \in Runs, callbacks(b), ~onResponse(b)
      PROVE  SamplesOK'
  <2>1. UNCHANGED <<responseTimes, args, status>>
    BY <1>6 DEF callbacks, getResponseTime, onProbeError, onClientError, onMsgReceived
  <2> QED
    BY <1>4, <2>1, <1>6
<1>7. CASE UNCHANGED vars
  BY <1>7 DEF vars, samples, SamplesOK, ReportNotMissed
<1> QED
  BY <1>2, <1>3, <1>5, <1>6, <1>7 DEF Next

\* The === of bench.js's onResponse is never stepped over, however many probes
\* fail, overtake each other or are late: with probes that are answered this is
\* why a run ends, if its duration is a multiple of its interval.
THEOREM NeverPastReport == Spec => []ReportNotMissed
<1>1. Init => SamplesOK
  BY DEF Init, SamplesOK, ReportNotMissed
<1>2. SamplesOK => ReportNotMissed
  BY DEF SamplesOK
<1> QED
  BY <1>1, <1>2, SamplesStep, Invariance, PTL DEF Spec
=============================================================================
