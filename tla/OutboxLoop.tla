----------------------------- MODULE OutboxLoop -----------------------------
(***************************************************************************)
(* The life of the poll loop in one process: boot, the timer, the run in   *)
(* flight, and a shutdown signal that may come at any moment               *)
(* (src/messaging/outbound/index.js, src/index.js and the hooks of         *)
(* src/api/common/helpers/pulse.js).                                       *)
(*                                                                         *)
(* Node runs one synchronous stretch at a time, so an action is what       *)
(* happens between two awaits.  A run is reduced to its awaits: what it    *)
(* does to the outbox is in Outbox.tla, where a run that this module       *)
(* abandons is a Crash.                                                    *)
(***************************************************************************)
EXTENDS Naturals, FiniteSets

CONSTANTS
  Runs,         \* room for invocations of runOutbox in flight
  NoRun,        \* currentRun before the first run
  MaxBatches    \* bound on the batches of one run

ASSUME RunAssumption == NoRun \notin Runs /\ MaxBatches \in Nat

VARIABLES
  boot,        \* where src/index.js is
  isStopping,
  outboxTimer, \* is the next poll scheduled?
  currentRun,  \* the run whose promise currentRun holds
  run,         \* the invocations of runOutbox
  shutdown,    \* where hapi-pulse is
  drained,     \* how the race in stopOutbox ended
  dbOpen       \* mongo.client is set

vars == <<boot, isStopping, outboxTimer, currentRun, run, shutdown, drained, dbOpen>>

-----------------------------------------------------------------------------

\* step: the await a run is at.  failed: it has thrown, and is in its finally.
Run == [step : {"none", "claiming", "publishing", "finalizing", "reporting", "metrics"},
        batches : 0 .. MaxBatches,
        failed : BOOLEAN]

Over == [step |-> "none", batches |-> 0, failed |-> FALSE]

InFlight == {i \in Runs : run[i].step # "none"}

\* pulse is registered after mongoDb, so the client is open from here on.
Init ==
  /\ boot = "startingServer"
  /\ isStopping = FALSE
  /\ outboxTimer = "none"
  /\ currentRun = NoRun
  /\ run = [i \in Runs |-> Over]
  /\ shutdown = "none"
  /\ drained = "waiting"
  /\ dbOpen = TRUE

Alive == boot # "failed" /\ shutdown # "exited"

-----------------------------------------------------------------------------
(* startOutbox and the run                                                 *)

\* Mutant of StartOutbox: isStopping is not looked at.
StartAnyway ==
  \E i \in Runs \ InFlight :
    /\ currentRun' = i
    /\ run' = [run EXCEPT ![i].step = "claiming"]

\* startOutbox, from its two call sites: refuses once shutdown has begun.
StartOutbox ==
  IF isStopping THEN UNCHANGED <<currentRun, run>>
  ELSE \E i \in Runs \ InFlight :
         /\ currentRun' = i
         /\ run' = [run EXCEPT ![i].step = "claiming"]

\* await startServer() resolves, and startOutbox is called in the same turn.
BootOutbox ==
  /\ Alive
  /\ boot = "startingServer"
  /\ boot' = "up"
  /\ StartOutbox
  /\ UNCHANGED <<isStopping, outboxTimer, shutdown, drained, dbOpen>>

\* startServer rejects: the top-level await ends the process.
BootFails ==
  /\ Alive
  /\ boot = "startingServer"
  /\ boot' = "failed"
  /\ UNCHANGED <<isStopping, outboxTimer, currentRun, run, shutdown, drained, dbOpen>>

\* Mutant of FireTimer: an interval timer.
FireInterval ==
  /\ Alive
  /\ outboxTimer = "armed"
  /\ StartOutbox
  /\ UNCHANGED <<boot, isStopping, outboxTimer, shutdown, drained, dbOpen>>

FireTimer ==
  /\ Alive
  /\ outboxTimer = "armed"
  /\ outboxTimer' = "none"
  /\ StartOutbox
  /\ UNCHANGED <<boot, isStopping, shutdown, drained, dbOpen>>

Goes(i, step, batches) ==
  run' = [run EXCEPT ![i] = [step |-> step, batches |-> batches, failed |-> FALSE]]

NextBatch(i) == IF run[i].batches = 0 THEN "metrics" ELSE "publishing"

\* publishPendingMessages comes back from an await that went well.
RunAdvances(i) ==
  /\ Alive
  /\ run[i].step # "publishing" => dbOpen
  /\ \/ /\ run[i].step = "claiming"
        /\ \E n \in 0 .. MaxBatches :
             Goes(i, IF n = 0 THEN "metrics" ELSE "publishing", n)
     \/ /\ run[i].step = "publishing"
        /\ Goes(i, "finalizing", run[i].batches - 1)
     \/ /\ run[i].step = "finalizing"
        /\ Goes(i, "reporting", run[i].batches) \/ Goes(i, NextBatch(i), run[i].batches)
     \/ /\ run[i].step = "reporting"
        /\ Goes(i, NextBatch(i), run[i].batches)
  /\ UNCHANGED <<boot, isStopping, outboxTimer, currentRun, shutdown, drained, dbOpen>>

\* Mutant of RunThrows: runOutbox rejects, past its finally.
RunRejects(i) ==
  /\ Alive
  /\ run[i].step \in {"claiming", "finalizing", "reporting"}
  /\ run' = [run EXCEPT ![i] = Over]
  /\ UNCHANGED <<boot, isStopping, outboxTimer, currentRun, shutdown, drained, dbOpen>>

\* Or throws: the client is gone, or the database or SNS client fails.
RunThrows(i) ==
  /\ Alive
  /\ run[i].step \in {"claiming", "finalizing", "reporting"}
  /\ run' = [run EXCEPT ![i] = [step |-> "metrics", batches |-> 0, failed |-> TRUE]]
  /\ UNCHANGED <<boot, isStopping, outboxTimer, currentRun, shutdown, drained, dbOpen>>

\* scheduleNextRun, called in runOutbox's finally.
ScheduleNextRun ==
  outboxTimer' = IF isStopping THEN outboxTimer ELSE "armed"

\* emitPollMetrics, which never throws, then the end of runOutbox, which never
\* rejects.
RunEnds(i) ==
  /\ Alive
  /\ run[i].step = "metrics"
  /\ ScheduleNextRun
  /\ run' = [run EXCEPT ![i] = Over]
  /\ UNCHANGED <<boot, isStopping, currentRun, shutdown, drained, dbOpen>>

-----------------------------------------------------------------------------
(* Shutdown: hapi-pulse (external) runs stopOutbox, server.stop, closeDb   *)

\* A signal: stopOutbox up to its await.
StopOutbox ==
  /\ Alive
  /\ shutdown = "none"
  /\ isStopping' = TRUE
  /\ outboxTimer' = "none"
  /\ IF currentRun = NoRun
     THEN shutdown' = "stoppingServer" /\ drained' = "noRun"
     ELSE shutdown' = "draining" /\ drained' = "waiting"
  /\ UNCHANGED <<boot, currentRun, run, dbOpen>>

\* Mutant of RunDrained: the run is not awaited.
RunNotAwaited ==
  /\ Alive
  /\ shutdown = "draining"
  /\ shutdown' = "stoppingServer"
  /\ drained' = "drained"
  /\ UNCHANGED <<boot, isStopping, outboxTimer, currentRun, run, dbOpen>>

\* currentRun settles first.
RunDrained ==
  /\ Alive
  /\ shutdown = "draining"
  /\ currentRun \notin InFlight
  /\ shutdown' = "stoppingServer"
  /\ drained' = "drained"
  /\ UNCHANGED <<boot, isStopping, outboxTimer, currentRun, run, dbOpen>>

\* Mutant of DrainTimesOut: the wait has no limit.
DrainWaits == FALSE

\* outboxDrainTimeoutMs passes first: the run is abandoned.
DrainTimesOut ==
  /\ Alive
  /\ shutdown = "draining"
  /\ shutdown' = "stoppingServer"
  /\ drained' = "timedOut"
  /\ UNCHANGED <<boot, isStopping, outboxTimer, currentRun, run, dbOpen>>

\* server.stop returns, within hapi-pulse's own timeout.
StopServer ==
  /\ Alive
  /\ shutdown = "stoppingServer"
  /\ shutdown' = "closing"
  /\ UNCHANGED <<boot, isStopping, outboxTimer, currentRun, run, drained, dbOpen>>

\* closeDb forgets the client at once, then waits for it to close.
CloseDb ==
  /\ Alive
  /\ shutdown = "closing"
  /\ dbOpen
  /\ dbOpen' = FALSE
  /\ UNCHANGED <<boot, isStopping, outboxTimer, currentRun, run, shutdown, drained>>

Exit ==
  /\ Alive
  /\ shutdown = "closing"
  /\ ~dbOpen
  /\ shutdown' = "exited"
  /\ UNCHANGED <<boot, isStopping, outboxTimer, currentRun, run, drained, dbOpen>>

-----------------------------------------------------------------------------

RunStep(i) == RunAdvances(i) \/ RunThrows(i) \/ RunEnds(i)

ShutdownStep == RunDrained \/ DrainTimesOut \/ StopServer \/ CloseDb \/ Exit

Next ==
  \/ BootOutbox
  \/ BootFails
  \/ FireTimer
  \/ \E i \in Runs : RunStep(i)
  \/ StopOutbox
  \/ ShutdownStep

Spec == Init /\ [][Next]_vars

\* hapi-pulse goes on with the shutdown and timers fire; a run may stall for
\* ever, since neither the MongoDB nor the SNS client has a request timeout.
ShutdownSpec == Spec /\ WF_vars(ShutdownStep)

\* The boot ends, the timer fires and no run stalls.
PollingFairness ==
  /\ WF_vars(BootOutbox \/ BootFails)
  /\ WF_vars(FireTimer)
  /\ \A i \in Runs : WF_vars(RunStep(i))

-----------------------------------------------------------------------------
(* Properties                                                              *)

\* The state of the process keeps values of its type.
TypeOK ==
  /\ boot \in {"startingServer", "up", "failed"}
  /\ isStopping \in BOOLEAN
  /\ outboxTimer \in {"none", "armed"}
  /\ currentRun \in Runs \cup {NoRun}
  /\ run \in [Runs -> Run]
  /\ shutdown \in {"none", "draining", "stoppingServer", "closing", "exited"}
  /\ drained \in {"waiting", "noRun", "drained", "timedOut"}
  /\ dbOpen \in BOOLEAN

\* One process never has two runs in flight, nor a poll scheduled besides the
\* one it is making, and currentRun is the run to wait for.
OneRunAtATime ==
  /\ \A i, j \in InFlight : i = j
  /\ InFlight # {} => outboxTimer = "none" /\ currentRun \in InFlight

\* "The next run is always scheduled": however its runs fail, the loop dies
\* only when it is told to stop.
LoopIsAlive ==
  boot = "up" /\ ~isStopping => InFlight # {} \/ outboxTimer = "armed"

\* A run meets a closed client only if it outlived the drain timeout.
ClosedOnlyAfterDrain ==
  ~dbOpen /\ InFlight # {} => drained = "timedOut"

\* No run starts once shutdown has begun, not even the first one, which
\* src/index.js starts when the signal came during boot.
NothingStartsAfterStop ==
  [][\A i \in Runs : isStopping /\ i \notin InFlight => run'[i] = run[i]]_vars

\* A stalled run cannot hang the shutdown.
ShutdownTerminates == isStopping ~> ~Alive

\* While runs come to an end, polling goes on for ever or until the shutdown.
PollingGoesOn ==
  PollingFairness => []<>(InFlight # {} \/ isStopping \/ ~Alive)

=============================================================================
