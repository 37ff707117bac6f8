--------------------------- MODULE ReporterProofs ---------------------------
(***************************************************************************)
(* The safety properties of Reporter hold for any number of probes, of     *)
(* messages of others and of errors.                                       *)
(*                                                                         *)
(* None is inductive alone.  What a callback waits for follows from the    *)
(* order of the steps of a probe (Probed); how many chains of broadcasts   *)
(* there are follows from how often the stream was opened (Opened) and     *)
(* from there being none before it was (Counted).                          *)
(***************************************************************************)
EXTENDS Reporter, TLAPS

\* Probes start in order; until the stream of a probe is closed its timing is
\* awaited, and only then can it own the callback.
Probed ==
  /\ \A p \in Probes : p > gathered => source[p] = "none"
  /\ \A p \in Probes : source[p] # "closed" => "networkTiming" \in pending[p]
  /\ cb # NULL => source[cb] = "closed"

\* The shared stream is closed exactly while deliveryTimingRunning is false, and
\* has no timer then that could still be cancelled.
Stopped ==
  /\ deliveryTimingRunning <=> es # "closed"
  /\ es \in {"closed", "connecting", "accepted"} => ~current /\ (es # "accepted" => inbox = 0)

\* The stream is open as often as it failed, and once more if it is open now;
\* before it was accepted for the first time nothing has happened on it.
Opened ==
  /\ opens <= IF es = "open" THEN 1 + errors ELSE errors
  /\ errors = 0 /\ ~Subscribed => opens = 0 /\ foreign = 0

\* ChainsAccounted, for every state of the stream
Counted ==
  /\ Chains <= opens + foreign
  /\ errors = 0 /\ ~lost => Chains = foreign + (IF es = "open" THEN 1 ELSE 0)

IInv == TypeOK /\ CallbackAwaited /\ Stopped /\ Probed /\ Opened /\ Counted

----------------------------------------------------------------------------

USE ReporterAssumption DEF Probes, Tasks

LEMMA InitIInv == Init => IInv
<1> SUFFICES ASSUME Init PROVE IInv
  OBVIOUS
<1>1. TypeOK
  <2>1. /\ source \in [Probes -> {"none", "connecting", "closed"}]
        /\ pending \in [Probes -> SUBSET Tasks]
        /\ outcome \in [Probes -> {"none", "reported", "dropped"}]
    BY DEF Init
  <2>2. deliveryTimingRunning \in BOOLEAN /\ current \in BOOLEAN /\ broken \in BOOLEAN /\ lost \in BOOLEAN
    BY Zenon DEF Init
  <2>3. gathered \in 0..NumProbes /\ foreign \in 0..MaxForeign /\ errors \in 0..MaxErrors /\ opens \in 0..(1 + errors)
    BY DEF Init
  <2> QED
    BY <2>1, <2>2, <2>3 DEF Init, TypeOK
<1>2. CallbackAwaited /\ Stopped
  BY DEF Init, CallbackAwaited, Stopped
<1>3. Probed /\ Opened
  BY DEF Init, Probed, Opened, Subscribed
<1>4. Counted
  BY DEF Init, Counted, Chains
<1> QED
  BY <1>1, <1>2, <1>3, <1>4 DEF IInv

\* What does not touch the shared stream keeps everything that is about it.
LEMMA StreamUntouched ==
  ASSUME IInv, TypeOK', UNCHANGED <<deliveryTimingRunning, es, timers, wire, opens, foreign, errors, lost>>
  PROVE  Stopped' /\ Opened' /\ Counted'
BY DEF IInv, Stopped, Opened, Counted, Chains, Subscribed, timers, wire

\* What does not touch the probes or the callback keeps everything about them.
LEMMA ProbesUntouched ==
  ASSUME IInv, UNCHANGED <<probes, cb>>
  PROVE  CallbackAwaited' /\ Probed'
BY DEF IInv, CallbackAwaited, Probed, probes

\* A task other than the network timing calls back.
LEMMA OtherTaskEnds ==
  ASSUME IInv, NEW p \in Probes, NEW task \in {"systemInfo", "connectionCount"},
         NEW err \in BOOLEAN, callback(p, task, err),
         UNCHANGED <<status, gathered, source, deliveryTimingRunning, cb, es,
                     timers, wire, history>>
  PROVE  IInv'
<1>1. /\ pending' \in [Probes -> SUBSET Tasks]
      /\ outcome' \in [Probes -> {"none", "reported", "dropped"}]
  BY DEF IInv, TypeOK, callback
<1>2. TypeOK'
  BY <1>1 DEF IInv, TypeOK, timers, wire, history
<1>3. \A q \in Probes : "networkTiming" \in pending[q] => "networkTiming" \in pending'[q]
  BY DEF IInv, TypeOK, callback
<1>4. Probed'
  BY <1>3 DEF IInv, Probed
<1>5. CallbackAwaited'
  BY <1>3 DEF IInv, CallbackAwaited, TypeOK
<1>6. Stopped' /\ Opened' /\ Counted'
  BY <1>2, StreamUntouched DEF history
<1> QED
  BY <1>2, <1>4, <1>5, <1>6 DEF IInv

LEMMA ChainsInNat == TypeOK => Chains \in Nat
BY DEF TypeOK, Chains

\* A timer is armed: one more of them, whatever becomes of the others.
LEMMA OneMoreTimer ==
  ASSUME current \in BOOLEAN, orphans \in Nat, scheduleBroadcast
  PROVE  /\ current' = TRUE /\ orphans' \in Nat
         /\ (IF current' THEN 1 ELSE 0) + orphans' = (IF current THEN 1 ELSE 0) + orphans + 1
BY DEF scheduleBroadcast

LEMMA ProbeStep ==
  ASSUME IInv, probe
  PROVE  IInv'
<1> USE DEF IInv
<1>1. CASE gatherStats
  <2>1. gathered' \in Probes /\ source[gathered'] = "none"
    BY <1>1 DEF gatherStats, Probed, TypeOK
  <2>2. TypeOK'
    BY <1>1, <2>1 DEF gatherStats, TypeOK, timers, wire, history
  <2>3. Probed'
    BY <1>1, <2>1 DEF gatherStats, Probed, TypeOK
  <2>4. CallbackAwaited'
    BY <1>1 DEF gatherStats, CallbackAwaited
  <2>5. Stopped' /\ Opened' /\ Counted'
    BY <1>1, <2>2, StreamUntouched DEF gatherStats, history
  <2> QED
    BY <2>2, <2>3, <2>4, <2>5
<1>2. ASSUME NEW p \in Probes, systemInfoEnds(p)
      PROVE  IInv'
  BY <1>2, OtherTaskEnds DEF systemInfoEnds
<1>3. ASSUME NEW p \in Probes, connectionCountEnds(p)
      PROVE  IInv'
  BY <1>3, OtherTaskEnds DEF connectionCountEnds
<1>4. ASSUME NEW p \in Probes, probeOpens(p)
      PROVE  IInv'
  <2> USE DEF probeOpens, fetchDeliveryTiming
  <2>1. TypeOK'
    BY <1>4 DEF TypeOK, timers, wire
  <2>2. Probed' /\ CallbackAwaited'
    BY <1>4 DEF Probed, CallbackAwaited, TypeOK
  <2>3. Stopped'
    BY <1>4 DEF Stopped, timers, wire
  <2>4. Opened'
    BY <1>4 DEF Opened, Stopped, Subscribed
  <2>5. Counted'
    BY <1>4 DEF Counted, Chains, Stopped, timers, wire
  <2> QED
    BY <2>1, <2>2, <2>3, <2>4, <2>5
<1>5. ASSUME NEW p \in Probes, probeFails(p)
      PROVE  IInv'
  <2>1. TypeOK'
    BY <1>5 DEF probeFails, TypeOK, probes, timers, wire, history
  <2> QED
    BY <1>5, <2>1, StreamUntouched, ProbesUntouched DEF probeFails, history
<1> QED
  BY <1>1, <1>2, <1>3, <1>4, <1>5 DEF probe

LEMMA StreamStep ==
  ASSUME IInv, stream
  PROVE  IInv'
<1> USE DEF IInv
<1>1. CASE onopen
  <2>1. TypeOK'
    BY <1>1, OneMoreTimer DEF onopen, TypeOK, Opened, probes, wire
  <2>2. CallbackAwaited' /\ Probed'
    BY <1>1, ProbesUntouched DEF onopen
  <2>3. Stopped' /\ Opened'
    BY <1>1 DEF onopen, Stopped, Opened, Subscribed, TypeOK
  <2>4. Counted'
    <3>1. Chains' = Chains + 1
      BY <1>1, OneMoreTimer DEF onopen, Chains, TypeOK, wire
    <3> QED
      BY <1>1, <3>1, ChainsInNat DEF onopen, Counted, TypeOK
  <2> QED
    BY <2>1, <2>2, <2>3, <2>4
<1>2. CASE onerror
  <2>1. errors' \in 0..MaxErrors /\ opens' \in 0..(1 + errors')
    BY <1>2 DEF onerror, TypeOK, Opened
  <2>5. TypeOK'
    BY <1>2, <2>1 DEF onerror, TypeOK, probes
  <2>2. CallbackAwaited' /\ Probed'
    BY <1>2, ProbesUntouched DEF onerror
  <2>3. Stopped' /\ Opened'
    BY <1>2 DEF onerror, Stopped, Opened, TypeOK
  <2>4. Counted'
    <3>1. Chains' \in Nat /\ Chains' <= Chains
      BY <1>2 DEF onerror, Chains, TypeOK
    <3>2. errors' # 0
      BY <1>2 DEF onerror, TypeOK
    <3> QED
      BY <1>2, <3>1, <3>2, ChainsInNat DEF onerror, Counted, TypeOK
  <2> QED
    BY <2>2, <2>3, <2>4, <2>5
<1>3. CASE onmessage
  <2> USE <1>3 DEF onmessage
  <2>1. cb # NULL => cb \in Probes /\ callback(cb, "networkTiming", FALSE)
    BY DEF TypeOK
  <2>2. /\ pending' \in [Probes -> SUBSET Tasks]
        /\ outcome' \in [Probes -> {"none", "reported", "dropped"}]
        /\ \A q \in Probes : q # cb => pending'[q] = pending[q]
    BY SMTT(30), <2>1 DEF TypeOK, callback
  <2>3. TypeOK'
    BY <2>2, OneMoreTimer DEF TypeOK, history
  <2>4. CallbackAwaited'
    BY DEF CallbackAwaited
  <2>5. Probed'
    BY <2>2 DEF Probed
  <2>6. Stopped' /\ Opened'
    BY DEF Stopped, Opened, Subscribed, history
  <2>7. Counted'
    <3>1. Chains' = Chains
      BY OneMoreTimer DEF Chains, TypeOK
    <3> QED
      BY <3>1 DEF Counted, history
  <2> QED
    BY <2>3, <2>4, <2>5, <2>6, <2>7
<1>4. CASE sendTimestampBroadcast
  <2> USE <1>4 DEF sendTimestampBroadcast
  <2>5. current' \in BOOLEAN
    BY Zenon DEF TypeOK
  <2>6. orphans' \in Nat /\ posts' \in Nat
    BY DEF TypeOK
  <2>1. TypeOK'
    BY <2>5, <2>6 DEF TypeOK, probes, history
  <2>2. CallbackAwaited' /\ Probed'
    BY ProbesUntouched
  <2>3. Stopped' /\ Opened'
    BY DEF Stopped, Opened, Subscribed, history
  <2>4. Counted'
    <3>1. Chains' = Chains
      <4>1. CASE orphans > 0
        <5>1. /\ orphans' = orphans - 1 /\ posts' = posts + 1 /\ inbox' = inbox
              /\ (IF current' THEN 1 ELSE 0) = (IF current THEN 1 ELSE 0)
          BY <4>1
        <5>2. orphans \in Nat /\ posts \in Nat /\ inbox \in Nat
          BY DEF TypeOK
        <5> QED
          BY <5>1, <5>2 DEF Chains
      <4>2. CASE orphans = 0
        BY <4>2 DEF Chains, TypeOK
      <4> QED
        BY <4>1, <4>2 DEF TypeOK
    <3> QED
      BY <3>1 DEF Counted, history
  <2> QED
    BY <2>1, <2>2, <2>3, <2>4
<1>5. CASE broadcastFails
  <2>1. TypeOK'
    BY <1>5 DEF broadcastFails, TypeOK, probes, timers, wire, history
  <2> QED
    BY <1>5, <2>1, StreamUntouched, ProbesUntouched DEF broadcastFails, history
<1> QED
  BY <1>1, <1>2, <1>3, <1>4, <1>5 DEF stream

LEMMA ServerStep ==
  ASSUME IInv, server
  PROVE  IInv'
<1> USE DEF IInv
<1>1. CASE serverAccepts
  <2> USE <1>1 DEF serverAccepts
  <2>1. TypeOK'
    BY DEF TypeOK, probes, timers, wire, history
  <2>2. CallbackAwaited' /\ Probed'
    BY ProbesUntouched
  <2>3. Stopped' /\ Opened' /\ Counted'
    BY DEF Stopped, Opened, Counted, Chains, Subscribed, timers, wire, history
  <2> QED
    BY <2>1, <2>2, <2>3
<1>2. CASE serverBroadcasts
  <2> USE <1>2 DEF serverBroadcasts
  <2>1. TypeOK'
    BY DEF TypeOK, probes, timers, history
  <2>2. CallbackAwaited' /\ Probed'
    BY ProbesUntouched
  <2>3. Stopped' /\ Opened'
    BY DEF Stopped, Opened, Subscribed, TypeOK, timers, history
  <2>4. errors = 0 => Subscribed
    BY DEF Opened, Counted, Chains, TypeOK
  <2>5. Counted'
    BY <2>4 DEF Counted, Chains, TypeOK, timers, history
  <2> QED
    BY <2>1, <2>2, <2>3, <2>5
<1>3. CASE serverIgnores
  <2> USE <1>3 DEF serverIgnores
  <2>1. TypeOK'
    BY DEF TypeOK, probes, timers
  <2>2. CallbackAwaited' /\ Probed'
    BY ProbesUntouched
  <2>3. Stopped' /\ Opened'
    BY DEF Stopped, Opened, Subscribed, timers
  <2>4. Counted'
    BY DEF Counted, Chains, TypeOK, timers
  <2> QED
    BY <2>1, <2>2, <2>3, <2>4
<1>4. CASE othersBroadcast
  <2> USE <1>4 DEF othersBroadcast
  <2>1. TypeOK'
    BY DEF TypeOK, probes, timers
  <2>2. CallbackAwaited' /\ Probed'
    BY ProbesUntouched
  <2>3. Stopped' /\ Opened'
    BY DEF Stopped, Opened, Subscribed, timers
  <2>4. Counted'
    BY DEF Counted, Chains, TypeOK, timers
  <2> QED
    BY <2>1, <2>2, <2>3, <2>4
<1> QED
  BY <1>1, <1>2, <1>3, <1>4 DEF server

LEMMA NextIInv == IInv /\ [Next]_vars => IInv'
<1> SUFFICES ASSUME IInv, [Next]_vars PROVE IInv'
  OBVIOUS
<1>1. ASSUME NEW args \in Args, Start(args)
      PROVE  IInv'
  <2>1. status' \in {"exit1", "exit2", "running", "crashed"}
    BY <1>1 DEF Start
  <2>2. UNCHANGED <<probes, deliveryTimingRunning, cb, es, timers, wire, history>>
    BY <1>1 DEF Start
  <2>3. TypeOK'
    BY <2>1, <2>2 DEF IInv, TypeOK, probes, timers, wire, history
  <2> QED
    BY <2>2, <2>3, StreamUntouched, ProbesUntouched DEF IInv, history
<1>2. CASE UNCHANGED vars
  <2>1. TypeOK'
    BY <1>2 DEF vars, IInv, TypeOK, probes, timers, wire, history
  <2> QED
    BY <1>2, <2>1, StreamUntouched, ProbesUntouched DEF vars, IInv, history
<1> QED
  BY <1>1, <1>2, ProbeStep, StreamStep, ServerStep DEF Next

LEMMA Invariance == Spec => []IInv
BY InitIInv, NextIInv, PTL DEF Spec

----------------------------------------------------------------------------

\* Every reachable state of the reporter has its type; in particular the shared
\* stream (report.js:129-157) is never opened again before it has failed.
THEOREM TypeCorrect == Spec => []TypeOK
<1>1. IInv => TypeOK
  BY DEF IInv
<1> QED
  BY <1>1, Invariance, PTL

\* The callback kept at report.js:129 and run at report.js:152 is never that of
\* a probe whose network timing has been reported.
THEOREM CallbackCorrect == Spec => []CallbackAwaited
<1>1. IInv => CallbackAwaited
  BY DEF IInv
<1> QED
  BY <1>1, Invariance, PTL

\* However probes, errors and messages fall, the broadcasts that the reporter
\* schedules (report.js:135-156) are one chain per stream opened and one per
\* message of somebody else, and exactly those until something fails.
THEOREM ChainsCorrect == Spec => []ChainsAccounted
<1>1. IInv => ChainsAccounted
  BY SMTT(30) DEF IInv, TypeOK, Counted, ChainsAccounted, Chains
<1> QED
  BY <1>1, Invariance, PTL

----------------------------------------------------------------------------
(* The safety core of ProbeEnds                                            *)

\* A probe that waits for a message is not forgotten: unless the shared stream
\* has failed since or a broadcast was lost, the stream is being opened, or is
\* open and a broadcast is to come, on its way or there to be read.
MessageToCome ==
  /\ cb # NULL /\ ~broken => es # "closed"
  /\ es = "open" /\ ~lost => Chains > 0

LEMMA MessageStep == IInv /\ MessageToCome /\ [Next]_vars => MessageToCome'
<1> SUFFICES ASSUME IInv, MessageToCome, [Next]_vars PROVE MessageToCome'
  OBVIOUS
<1> USE DEF IInv
<1>1. ASSUME UNCHANGED <<cb, broken, es, timers, wire, lost>>
      PROVE  MessageToCome'
  BY <1>1 DEF MessageToCome, Chains, timers, wire
<1>2. ASSUME NEW args \in Args, Start(args)
      PROVE  MessageToCome'
  BY <1>1, <1>2 DEF Start, history
<1>3. CASE probe
  <2>1. ASSUME NEW p \in Probes, probeOpens(p)
        PROVE  MessageToCome'
    BY <2>1 DEF probeOpens, fetchDeliveryTiming, MessageToCome, Stopped, Chains, timers, wire
  <2>2. ASSUME NEW p \in Probes, gatherStats \/ systemInfoEnds(p) \/ connectionCountEnds(p) \/ probeFails(p)
        PROVE  MessageToCome'
    BY <1>1, <2>2 DEF gatherStats, systemInfoEnds, connectionCountEnds, probeFails, probes, history
  <2> QED
    BY <1>1, <1>3, <2>1, <2>2 DEF probe, gatherStats, history
<1>4. CASE stream
  <2>1. CASE onopen
    BY <2>1, OneMoreTimer DEF onopen, MessageToCome, Chains, TypeOK, wire
  <2>2. CASE onerror
    BY <2>2 DEF onerror, MessageToCome
  <2>3. CASE onmessage
    <3>1. es = "open" /\ es' = es /\ scheduleBroadcast /\ posts' = posts /\ inbox' = inbox - 1 /\ inbox > 0
          /\ broken' = broken /\ cb' = NULL
      BY <2>3 DEF onmessage, history
    <3> QED
      BY <3>1, OneMoreTimer DEF MessageToCome, Chains, TypeOK
  <2>4. CASE sendTimestampBroadcast
    BY <2>4 DEF sendTimestampBroadcast, MessageToCome, Chains, TypeOK, history
  <2>5. CASE broadcastFails
    BY <1>1, <2>5 DEF broadcastFails, history
  <2> QED
    BY <1>4, <2>1, <2>2, <2>3, <2>4, <2>5 DEF stream
<1>5. CASE server
  <2>1. CASE serverAccepts
    BY <2>1 DEF serverAccepts, MessageToCome, history
  <2>2. CASE serverBroadcasts
    BY <2>2 DEF serverBroadcasts, MessageToCome, Subscribed, Chains, TypeOK, timers, history
  <2>3. CASE serverIgnores
    BY <2>3 DEF serverIgnores, MessageToCome
  <2>4. CASE othersBroadcast
    BY <2>4 DEF othersBroadcast, MessageToCome, Chains, TypeOK, timers
  <2> QED
    BY <1>5, <2>1, <2>2, <2>3, <2>4 DEF server
<1>6. CASE UNCHANGED vars
  BY <1>1, <1>6 DEF vars, history
<1> QED
  BY <1>2, <1>3, <1>4, <1>5, <1>6 DEF Next

\* However probes overtake each other and messages of others come between, the
\* callback kept at report.js:129 is left waiting for nothing only by an error
\* of the shared stream or by a broadcast that does not come back.
THEOREM NeverForgotten == Spec => []MessageToCome
<1>1. Init => MessageToCome
  BY DEF Init, MessageToCome
<1> QED
  BY <1>1, MessageStep, Invariance, PTL DEF Spec
=============================================================================
