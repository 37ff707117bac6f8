------------------------------ MODULE Reporter ------------------------------
(***************************************************************************)
(* stats-reporter/report.js: one event loop that probes a server at an     *)
(* interval.  A probe is an async.parallel of three tasks: system info, a  *)
(* connection count and the network timing, which first times a stream of  *)
(* its own and then waits for the next message on a stream that all probes *)
(* share.  Every message on that stream arms a timer that posts the next.  *)
(*                                                                         *)
(* A step is one callback, or one thing the server does.  The server is    *)
(* the service of SseBroadcast, of which this module needs only how many   *)
(* requests are on their way to it and how many messages are on their way  *)
(* back; time is left out, so a timer fires at some point after it is set. *)
(***************************************************************************)
EXTENDS Integers, FiniteSets

CONSTANTS NumProbes,  \* bound: calls of gatherStats
          MaxForeign, \* bound: messages broadcast by anybody else
          MaxErrors,  \* bound: errors of the shared stream
          NULL        \* JavaScript's null

ASSUME ReporterAssumption ==
  /\ NumProbes \in Nat
  /\ MaxForeign \in Nat
  /\ MaxErrors \in Nat
  /\ NULL \notin Nat

Probes == 1..NumProbes
Tasks == {"systemInfo", "networkTiming", "connectionCount"}

VARIABLES
  status,   \* "starting", "running", "exit1", "exit2" or "crashed"
  gathered, \* calls of gatherStats so far; they name the probes
  source,   \* probe -> its own EventSource: "none", "connecting" or "closed"
  pending,  \* probe -> the tasks that have not called back
  outcome,  \* probe -> "none", "reported" or "dropped"
  deliveryTimingRunning,
  cb,       \* the probe whose callback the next message runs, or NULL
  es,       \* the shared stream: "closed", "connecting", "accepted" (by the
            \* server, which now sends to it) or "open" (onopen has run)
  current,  \* is the timer that timeoutId names armed?
  orphans,  \* armed timers whose id has been overwritten
  posts,    \* broadcasts on their way to the server
  inbox,    \* messages on their way to the shared stream
  opens,    \* history: times onopen ran
  foreign,  \* history: messages of others sent to the shared stream
  errors,   \* history: times onerror ran
  broken,   \* history: has onerror run since the last fetchDeliveryTiming?
  lost      \* history: has a broadcast not come back?

probes == <<gathered, source, pending, outcome>>
timers == <<current, orphans>>
wire == <<posts, inbox>>
history == <<opens, foreign, errors, broken, lost>>
vars == <<status, probes, deliveryTimingRunning, cb, es, timers, wire, history>>

Init ==
  /\ status = "starting"
  /\ gathered = 0
  /\ source = [p \in Probes |-> "none"]
  /\ pending = [p \in Probes |-> Tasks]
  /\ outcome = [p \in Probes |-> "none"]
  /\ deliveryTimingRunning = FALSE
  /\ cb = NULL
  /\ es = "closed"
  /\ current = FALSE
  /\ orphans = 0
  /\ posts = 0
  /\ inbox = 0
  /\ opens = 0
  /\ foreign = 0
  /\ errors = 0
  /\ broken = FALSE
  /\ lost = FALSE

----------------------------------------------------------------------------
(* Starting                                                                *)

\* The arguments that say what to watch; an implementation is a directory.
Args == [pid: BOOLEAN, cmd: BOOLEAN, implementation: {"none", "missing", "present"}]

\* A child that cannot be spawned emits an 'error' nobody listens to.
Start(args) ==
  /\ status = "starting"
  /\ \/ /\ ~args.pid /\ ~args.cmd /\ args.implementation = "none"
        /\ status' = "exit1"
     \/ /\ args.implementation = "missing"
        /\ status' = "exit2"
     \/ /\ args.pid \/ args.cmd \/ args.implementation = "present"
        /\ args.implementation # "missing"
        /\ status' \in {"running"} \cup (IF args.pid THEN {} ELSE {"crashed"})
  /\ UNCHANGED <<probes, deliveryTimingRunning, cb, es, timers, wire, history>>

----------------------------------------------------------------------------
(* Probes                                                                  *)

\* A task of probe p calls back.  async.parallel runs its own callback at the
\* first error or when all tasks are done, whichever comes first, and once.
callback(p, task, err) ==
  /\ pending' = [pending EXCEPT ![p] = @ \ {task}]
  /\ outcome' = [outcome EXCEPT ![p] =
       IF @ # "none" THEN @
       ELSE IF err THEN "dropped"
       ELSE IF pending[p] \subseteq {task} THEN "reported"
       ELSE "none"]

\* setInterval: a new probe starts whether or not the earlier ones have ended.
gatherStats ==
  /\ gathered < NumProbes
  /\ gathered' = gathered + 1
  /\ source' = [source EXCEPT ![gathered'] = "connecting"]
  /\ UNCHANGED <<status, pending, outcome, deliveryTimingRunning, cb, es,
                 timers, wire, history>>

\* usage.lookup succeeds or fails, as it does once the process has gone.
systemInfoEnds(p) ==
  /\ p <= gathered
  /\ "systemInfo" \in pending[p]
  /\ \E err \in BOOLEAN : callback(p, "systemInfo", err)
  /\ UNCHANGED <<status, gathered, source, deliveryTimingRunning, cb, es,
                 timers, wire, history>>

\* The GET of /connections ends, with any status or an error.
connectionCountEnds(p) ==
  /\ p <= gathered
  /\ "connectionCount" \in pending[p]
  /\ \E err \in BOOLEAN : callback(p, "connectionCount", err)
  /\ UNCHANGED <<status, gathered, source, deliveryTimingRunning, cb, es,
                 timers, wire, history>>

\* Mutant of fetchDeliveryTiming: deliveryTimingRunning is not looked at
fetchAlwaysOpens(p) ==
  /\ cb' = p
  /\ broken' = FALSE
  /\ deliveryTimingRunning' = TRUE
  /\ es' = "connecting"

\* The callback of an earlier probe is overwritten, whatever it waits for.
fetchDeliveryTiming(p) ==
  /\ cb' = p
  /\ broken' = FALSE
  /\ deliveryTimingRunning' = TRUE
  /\ es' = IF deliveryTimingRunning THEN es ELSE "connecting"

\* getNetworkTiming: onopen closes the probe's stream and waits for a message.
probeOpens(p) ==
  /\ source[p] = "connecting"
  /\ source' = [source EXCEPT ![p] = "closed"]
  /\ fetchDeliveryTiming(p)
  /\ UNCHANGED <<status, gathered, pending, outcome, timers, wire, opens,
                 foreign, errors, lost>>

\* Its onerror reads a timeoutId that is not in scope: the ReferenceError is
\* uncaught and callback(err) is never reached.
probeFails(p) ==
  /\ source[p] = "connecting"
  /\ status' = "crashed"
  /\ UNCHANGED <<probes, deliveryTimingRunning, cb, es, timers, wire, history>>

----------------------------------------------------------------------------
(* The shared stream and its timers                                        *)

\* The new timer's id overwrites that of a timer that may still be armed.
scheduleBroadcast ==
  /\ current' = TRUE
  /\ orphans' = IF current THEN orphans + 1 ELSE orphans

onopen ==
  /\ es = "accepted"
  /\ es' = "open"
  /\ scheduleBroadcast
  /\ opens' = opens + 1
  /\ UNCHANGED <<status, probes, deliveryTimingRunning, cb, wire, foreign,
                 errors, broken, lost>>

\* Only the timer that timeoutId names can be cancelled, and cb keeps waiting.
\* What was on its way to the closed stream is dropped.
onerror ==
  /\ es # "closed"
  /\ errors < MaxErrors
  /\ es' = "closed"
  /\ deliveryTimingRunning' = FALSE
  /\ current' = FALSE
  /\ inbox' = 0
  /\ errors' = errors + 1
  /\ broken' = TRUE
  /\ UNCHANGED <<status, probes, cb, orphans, posts, opens, foreign, lost>>

\* Mutants of onmessage: cb is not reset; only an awaited message arms a timer
onmessageKeepsCb ==
  /\ es = "open"
  /\ inbox > 0
  /\ inbox' = inbox - 1
  /\ IF cb # NULL THEN callback(cb, "networkTiming", FALSE)
                  ELSE UNCHANGED <<pending, outcome>>
  /\ scheduleBroadcast
  /\ UNCHANGED <<status, gathered, source, deliveryTimingRunning, cb, es, posts, history>>
onmessageAwaited ==
  /\ es = "open"
  /\ inbox > 0
  /\ inbox' = inbox - 1
  /\ IF cb # NULL THEN callback(cb, "networkTiming", FALSE) /\ scheduleBroadcast
                  ELSE UNCHANGED <<pending, outcome, timers>>
  /\ cb' = NULL
  /\ UNCHANGED <<status, gathered, source, deliveryTimingRunning, es, posts, history>>

\* Any message ends the wait and arms a timer, whoever has broadcast it.
onmessage ==
  /\ es = "open"
  /\ inbox > 0
  /\ inbox' = inbox - 1
  /\ IF cb # NULL THEN callback(cb, "networkTiming", FALSE)
                  ELSE UNCHANGED <<pending, outcome>>
  /\ cb' = NULL
  /\ scheduleBroadcast
  /\ UNCHANGED <<status, gathered, source, deliveryTimingRunning, es, posts, history>>

\* Mutant of sendTimestampBroadcast: setInterval for setTimeout
sendEverySecond ==
  /\ current \/ orphans > 0
  /\ posts' = posts + 1
  /\ UNCHANGED <<status, probes, deliveryTimingRunning, cb, es, timers, inbox, history>>

\* A timer fires: all have the same delay, so the oldest does first.
sendTimestampBroadcast ==
  /\ \/ orphans > 0 /\ orphans' = orphans - 1 /\ UNCHANGED current
     \/ orphans = 0 /\ current /\ current' = FALSE /\ UNCHANGED orphans
  /\ posts' = posts + 1
  /\ UNCHANGED <<status, probes, deliveryTimingRunning, cb, es, inbox, history>>

\* The socket it connects has no 'error' listener.
broadcastFails ==
  /\ posts > 0
  /\ status' = "crashed"
  /\ UNCHANGED <<probes, deliveryTimingRunning, cb, es, timers, wire, history>>

----------------------------------------------------------------------------
(* The server                                                              *)

Subscribed == es \in {"accepted", "open"}

serverAccepts ==
  /\ es = "connecting"
  /\ es' = "accepted"
  /\ UNCHANGED <<status, probes, deliveryTimingRunning, cb, timers, wire, history>>

serverBroadcasts ==
  /\ posts > 0
  /\ posts' = posts - 1
  /\ inbox' = IF Subscribed THEN inbox + 1 ELSE inbox
  /\ UNCHANGED <<status, probes, deliveryTimingRunning, cb, es, timers, history>>

\* A server without /broadcast, or another worker of a cluster, takes the POST.
serverIgnores ==
  /\ posts > 0
  /\ posts' = posts - 1
  /\ lost' = TRUE
  /\ UNCHANGED <<status, probes, deliveryTimingRunning, cb, es, timers, inbox,
                 opens, foreign, errors, broken>>

\* Somebody else posts, or the server has a timer of its own.
othersBroadcast ==
  /\ Subscribed
  /\ foreign < MaxForeign
  /\ foreign' = foreign + 1
  /\ inbox' = inbox + 1
  /\ UNCHANGED <<status, probes, deliveryTimingRunning, cb, es, timers, posts,
                 opens, errors, broken, lost>>

----------------------------------------------------------------------------

probe == \/ gatherStats
         \/ \E p \in Probes : \/ systemInfoEnds(p)
                            \/ connectionCountEnds(p)
                            \/ probeOpens(p)
                            \/ probeFails(p)
stream == onopen \/ onerror \/ onmessage \/ sendTimestampBroadcast \/ broadcastFails
server == serverAccepts \/ serverBroadcasts \/ serverIgnores \/ othersBroadcast

Next == \/ \E args \in Args : Start(args)
        \/ status = "running" /\ (probe \/ stream \/ server)

Spec == Init /\ [][Next]_vars

\* The event loop runs every callback that is due and every timer fires; the
\* server accepts, answers and broadcasts.  Nothing need fail, no further probe
\* need start and nobody else need broadcast.
Fairness ==
  LET running == status = "running" IN
  /\ \A p \in Probes : /\ WF_vars(running /\ systemInfoEnds(p))
                       /\ WF_vars(running /\ connectionCountEnds(p))
                       /\ WF_vars(running /\ probeOpens(p))
  /\ WF_vars(running /\ serverAccepts)
  /\ WF_vars(running /\ onopen)
  /\ WF_vars(running /\ onmessage)
  /\ WF_vars(running /\ sendTimestampBroadcast)
  /\ WF_vars(running /\ serverBroadcasts)
FairSpec == Spec /\ Fairness

----------------------------------------------------------------------------
(* Properties                                                              *)

\* Every variable keeps its shape; the shared stream is opened again only after
\* it has failed.
TypeOK ==
  /\ status \in {"starting", "running", "exit1", "exit2", "crashed"}
  /\ gathered \in 0..NumProbes
  /\ source \in [Probes -> {"none", "connecting", "closed"}]
  /\ pending \in [Probes -> SUBSET Tasks]
  /\ outcome \in [Probes -> {"none", "reported", "dropped"}]
  /\ deliveryTimingRunning \in BOOLEAN
  /\ cb \in Probes \cup {NULL}
  /\ es \in {"closed", "connecting", "accepted", "open"}
  /\ current \in BOOLEAN
  /\ orphans \in Nat
  /\ posts \in Nat
  /\ inbox \in Nat
  /\ foreign \in 0..MaxForeign
  /\ errors \in 0..MaxErrors
  /\ opens \in 0..(1 + errors)
  /\ broken \in BOOLEAN
  /\ lost \in BOOLEAN

\* Broadcasts that will happen, are happening or wait to be read: each of them
\* leads to the next.
Chains == (IF current THEN 1 ELSE 0) + orphans + posts + inbox

\* "Schedules timestamps to be broadcast every second": one chain per stream
\* opened, plus one for ever for each message somebody else broadcasts.  Nothing
\* else adds a chain: no probe that finds the stream running, no timer left over
\* from a stream that failed.  And while the first stream lives and broadcasts
\* come back, no chain ends either.
ChainsAccounted ==
  /\ Chains <= opens + foreign
  /\ es = "open" /\ errors = 0 /\ ~lost => Chains = 1 + foreign

\* async throws if a task calls back twice.  The callback left for the next
\* message always belongs to a probe whose timing is still awaited, though
\* probes overtake each other and messages keep coming after it was used.
CallbackAwaited == cb # NULL => "networkTiming" \in pending[cb]

\* A probe comes to an end, unless a later one takes its place, the shared
\* stream fails while it waits, a broadcast is lost or the process ends.
ProbeEnds ==
  \A p \in Probes :
    source[p] # "none" ~>
      \/ outcome[p] # "none"
      \/ source[p] = "closed" /\ "networkTiming" \in pending[p] /\ cb # p
      \/ cb = p /\ broken
      \/ lost
      \/ status # "running"
=============================================================================
