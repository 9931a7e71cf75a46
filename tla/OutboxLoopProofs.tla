-------------------------- MODULE OutboxLoopProofs --------------------------
(***************************************************************************)
(* Proofs about OutboxLoop, for any number of invocations and batches.     *)
(* Loop is the inductive invariant: the safety properties of the module    *)
(* and how the stages of the shutdown bind the timer and the run.          *)
(***************************************************************************)
EXTENDS OutboxLoop, TLAPS

\* Before the first run there is neither run nor timer; once shutdown has begun
\* the timer stays cleared; past the drain a run is left only if it timed out.
Stages ==
  /\ isStopping <=> shutdown # "none"
  /\ isStopping => outboxTimer = "none"
  /\ boot # "up" => InFlight = {} /\ outboxTimer = "none"
  /\ ~dbOpen => shutdown \in {"closing", "exited"}
  /\ shutdown \in {"stoppingServer", "closing", "exited"} =>
       drained = "timedOut" \/ InFlight = {}

\* A run that publishes has a batch to publish.
BatchLeft == \A i \in Runs : run[i].step = "publishing" => run[i].batches # 0

Loop == TypeOK /\ BatchLeft /\ OneRunAtATime /\ LoopIsAlive /\ ClosedOnlyAfterDrain /\ Stages

USE RunAssumption

\* The first state: a process that is booting.
LEMMA LoopInit == Init => Loop
<1> SUFFICES ASSUME Init PROVE Loop
  OBVIOUS
<1>1. InFlight = {} /\ BatchLeft
  BY DEF Init, InFlight, BatchLeft, Over
<1>2. run \in [Runs -> Run]
  <2>1. Over \in Run
    BY DEF Over, Run
  <2> QED BY <2>1 DEF Init
<1>3. TypeOK
  BY <1>2 DEF Init, TypeOK
<1> QED BY <1>1, <1>3 DEF Init, Loop, OneRunAtATime, LoopIsAlive, ClosedOnlyAfterDrain,
             Stages

\* What the two callers of startOutbox rely on: it starts at most one run, none
\* once shutdown has begun.
LEMMA Starting ==
  ASSUME TypeOK, BatchLeft, InFlight = {}, StartOutbox
  PROVE  /\ currentRun' \in Runs \cup {NoRun}
         /\ run' \in [Runs -> Run]
         /\ BatchLeft'
         /\ \A i, j \in InFlight' : i = j
         /\ InFlight' # {} => currentRun' \in InFlight'
         /\ isStopping => InFlight' = {} /\ run' = run
         /\ ~isStopping => InFlight' # {}
<1>1. CASE isStopping
  BY <1>1 DEF StartOutbox, TypeOK, InFlight, BatchLeft
<1>2. CASE ~isStopping
  <2>1. PICK i \in Runs \ InFlight :
          currentRun' = i /\ run' = [run EXCEPT ![i].step = "claiming"]
    BY <1>2 DEF StartOutbox
  <2>2. run' = [k \in Runs |-> IF k = i THEN [run[i] EXCEPT !.step = "claiming"]
                               ELSE run[k]]
    BY <2>1 DEF TypeOK
  <2>3. \A k \in Runs : run[k] \in Run
    BY DEF TypeOK
  <2>4. run' \in [Runs -> Run]
    BY <2>2, <2>3, <2>1 DEF Run
  <2>5. InFlight' = {i}
    BY <2>2, <2>3, <2>1 DEF InFlight, Run
  <2>6. BatchLeft'
    BY <2>2, <2>3, <2>1 DEF BatchLeft, Run
  <2> QED BY <2>1, <2>4, <2>5, <2>6, <1>2
<1> QED BY <1>1, <1>2

\* Every step keeps the invariant.
LEMMA LoopStep == Loop /\ [Next]_vars => Loop'
<1> SUFFICES ASSUME Loop, [Next]_vars PROVE Loop'
  OBVIOUS
<1> USE DEF Loop
<1>1. CASE BootOutbox
  <2>1. InFlight = {} /\ outboxTimer = "none"
    BY <1>1 DEF BootOutbox, Stages
  <2> QED BY <1>1, <2>1, Starting DEF BootOutbox, TypeOK, OneRunAtATime, LoopIsAlive,
               ClosedOnlyAfterDrain, Stages, Alive
<1>2. CASE BootFails
  BY <1>2 DEF BootFails, BatchLeft, TypeOK, OneRunAtATime, LoopIsAlive, ClosedOnlyAfterDrain,
              Stages, InFlight
<1>3. CASE FireTimer
  <2>1. InFlight = {} /\ ~isStopping /\ boot = "up"
    BY <1>3 DEF FireTimer, OneRunAtATime, Stages
  <2> QED BY <1>3, <2>1, Starting DEF FireTimer, TypeOK, OneRunAtATime, LoopIsAlive,
               ClosedOnlyAfterDrain, Stages
<1>4. ASSUME NEW i \in Runs, RunStep(i) PROVE Loop'
  <2>1. i \in InFlight /\ run \in [Runs -> Run] /\ run[i] \in Run
    BY <1>4 DEF RunStep, RunAdvances, RunThrows, RunEnds, InFlight, TypeOK, Goes
  <2>2. InFlight = {i} /\ outboxTimer = "none" /\ currentRun = i /\ boot = "up"
    BY <2>1 DEF OneRunAtATime, Stages
  <2>3. CASE RunAdvances(i)
    <3>1. PICK s \in {"metrics", "publishing", "finalizing", "reporting"},
               n \in 0 .. MaxBatches : Goes(i, s, n) /\ (s = "publishing" => n # 0)
      <4>1. run[i].batches \in 0 .. MaxBatches
        BY <2>1 DEF Run
      <4>2. CASE run[i].step = "claiming"
        BY <4>2, <2>3 DEF RunAdvances
      <4>3. CASE run[i].step = "publishing"
        <5>1. run[i].batches - 1 \in 0 .. MaxBatches
          BY <4>3, <4>1 DEF BatchLeft
        <5>2. Goes(i, "finalizing", run[i].batches - 1)
          BY <4>3, <2>3 DEF RunAdvances
        <5> QED BY <5>1, <5>2
      <4>4. CASE run[i].step \in {"finalizing", "reporting"}
        BY <4>4, <4>1, <2>3 DEF RunAdvances, NextBatch
      <4> QED BY <4>2, <4>3, <4>4, <2>3 DEF RunAdvances
    <3>2. run' = [k \in Runs |->
                    IF k = i THEN [step |-> s, batches |-> n, failed |-> FALSE]
                    ELSE run[k]]
      BY <3>1, <2>1 DEF Goes
    <3>3. run' \in [Runs -> Run] /\ InFlight' = {i} /\ BatchLeft'
      BY <3>1, <3>2, <2>1, <2>2 DEF Run, InFlight, BatchLeft
    <3>4. UNCHANGED <<boot, isStopping, outboxTimer, currentRun, shutdown, drained,
                      dbOpen>>
      BY <2>3 DEF RunAdvances
    <3> QED BY <3>3, <3>4, <2>2 DEF TypeOK, OneRunAtATime, LoopIsAlive,
                 ClosedOnlyAfterDrain, Stages
  <2>4. CASE RunThrows(i)
    <3>1. run' = [k \in Runs |->
                    IF k = i THEN [step |-> "metrics", batches |-> 0, failed |-> TRUE]
                    ELSE run[k]]
      BY <2>4, <2>1 DEF RunThrows
    <3>2. run' \in [Runs -> Run] /\ InFlight' = {i} /\ BatchLeft'
      BY <3>1, <2>1, <2>2 DEF Run, InFlight, BatchLeft
    <3>3. UNCHANGED <<boot, isStopping, outboxTimer, currentRun, shutdown, drained,
                      dbOpen>>
      BY <2>4 DEF RunThrows
    <3> QED BY <3>2, <3>3, <2>2 DEF TypeOK, OneRunAtATime, LoopIsAlive,
                 ClosedOnlyAfterDrain, Stages
  <2>5. CASE RunEnds(i)
    <3>1. run' = [k \in Runs |-> IF k = i THEN Over ELSE run[k]]
      BY <2>5, <2>1 DEF RunEnds
    <3>2. run' \in [Runs -> Run] /\ InFlight' = {} /\ BatchLeft'
      BY <3>1, <2>1, <2>2 DEF Run, Over, InFlight, BatchLeft
    <3>3. outboxTimer' = IF isStopping THEN "none" ELSE "armed"
      BY <2>5, <2>2 DEF RunEnds, ScheduleNextRun
    <3>4. UNCHANGED <<boot, isStopping, currentRun, shutdown, drained, dbOpen>>
      BY <2>5 DEF RunEnds
    <3> QED BY <3>2, <3>3, <3>4, <2>2 DEF TypeOK, OneRunAtATime, LoopIsAlive,
                 ClosedOnlyAfterDrain, Stages
  <2> QED BY <1>4, <2>3, <2>4, <2>5 DEF RunStep
<1>5. CASE StopOutbox
  <2>1. InFlight' = InFlight /\ BatchLeft'
    BY <1>5 DEF StopOutbox, InFlight, BatchLeft
  <2>2. CASE currentRun = NoRun
    <3>1. InFlight = {}
      BY <2>2 DEF OneRunAtATime, InFlight
    <3> QED BY <1>5, <2>1, <2>2, <3>1 DEF StopOutbox, TypeOK, OneRunAtATime,
                 LoopIsAlive, ClosedOnlyAfterDrain, Stages
  <2>3. CASE currentRun # NoRun
    BY <1>5, <2>1, <2>3 DEF StopOutbox, TypeOK, OneRunAtATime, LoopIsAlive,
         ClosedOnlyAfterDrain, Stages
  <2> QED BY <2>2, <2>3
<1>6. CASE ShutdownStep
  <2>1. InFlight' = InFlight /\ BatchLeft' /\ isStopping
    BY <1>6 DEF ShutdownStep, RunDrained, DrainTimesOut, StopServer, CloseDb, Exit,
                InFlight, BatchLeft, Stages
  <2>2. CASE RunDrained
    <3>1. InFlight = {}
      BY <2>2 DEF RunDrained, OneRunAtATime
    <3> QED BY <2>1, <2>2, <3>1 DEF RunDrained, TypeOK, OneRunAtATime, LoopIsAlive,
                 ClosedOnlyAfterDrain, Stages
  <2>3. CASE DrainTimesOut
    BY <2>1, <2>3 DEF DrainTimesOut, TypeOK, OneRunAtATime, LoopIsAlive,
         ClosedOnlyAfterDrain, Stages
  <2>4. CASE StopServer
    BY <2>1, <2>4 DEF StopServer, TypeOK, OneRunAtATime, LoopIsAlive,
         ClosedOnlyAfterDrain, Stages
  <2>5. CASE CloseDb
    BY <2>1, <2>5 DEF CloseDb, TypeOK, OneRunAtATime, LoopIsAlive,
         ClosedOnlyAfterDrain, Stages
  <2>6. CASE Exit
    BY <2>1, <2>6 DEF Exit, TypeOK, OneRunAtATime, LoopIsAlive,
         ClosedOnlyAfterDrain, Stages
  <2> QED BY <1>6, <2>2, <2>3, <2>4, <2>5, <2>6 DEF ShutdownStep
<1>7. CASE UNCHANGED vars
  BY <1>7 DEF vars, BatchLeft, TypeOK, OneRunAtATime, LoopIsAlive, ClosedOnlyAfterDrain, Stages,
              InFlight
<1> QED BY <1>1, <1>2, <1>3, <1>4, <1>5, <1>6, <1>7 DEF Next

\* The loop's invariant holds in every reachable state.
THEOREM LoopInvariance == Spec => []Loop
BY LoopInit, LoopStep, PTL DEF Spec

\* In one process runs never overlap, and the run stopOutbox waits for is the
\* one in flight.
THEOREM RunsNeverOverlap == Spec => []OneRunAtATime
<1>1. Loop => OneRunAtATime
  BY DEF Loop
<1> QED BY <1>1, LoopInvariance, PTL

\* The loop never dies on its own: a live process is making a poll or has the
\* next one scheduled.
THEOREM LoopStaysAlive == Spec => []LoopIsAlive
<1>1. Loop => LoopIsAlive
  BY DEF Loop
<1> QED BY <1>1, LoopInvariance, PTL

\* closeDb leaves a run without its client only if the drain timed out.
THEOREM DrainPrecedesClose == Spec => []ClosedOnlyAfterDrain
<1>1. Loop => ClosedOnlyAfterDrain
  BY DEF Loop
<1> QED BY <1>1, LoopInvariance, PTL

\* No run starts after the signal, on any path, the boot's included.
THEOREM StopIsObeyed == Spec => NothingStartsAfterStop
<1>1. Loop /\ [Next]_vars =>
        [\A i \in Runs : isStopping /\ i \notin InFlight => run'[i] = run[i]]_vars
  <2> SUFFICES ASSUME Loop, Next, NEW i \in Runs, isStopping, i \notin InFlight
               PROVE  run'[i] = run[i]
    OBVIOUS
  <2>1. CASE BootOutbox \/ FireTimer
    BY <2>1 DEF BootOutbox, FireTimer, StartOutbox
  <2>2. ASSUME NEW j \in Runs, RunStep(j) PROVE run'[i] = run[i]
    <3>1. j \in InFlight /\ run \in [Runs -> Run]
      BY <2>2 DEF RunStep, RunAdvances, RunThrows, RunEnds, InFlight, TypeOK, Loop
    <3>2. i # j
      BY <3>1
    <3>3. \E r : run' = [run EXCEPT ![j] = r]
      BY <2>2 DEF RunStep, RunAdvances, RunThrows, RunEnds, Goes
    <3> QED BY <3>1, <3>2, <3>3
  <2>3. CASE BootFails \/ StopOutbox \/ ShutdownStep
    BY <2>3 DEF BootFails, StopOutbox, ShutdownStep, RunDrained, DrainTimesOut,
         StopServer, CloseDb, Exit
  <2> QED BY <2>1, <2>2, <2>3 DEF Next
<1> QED BY <1>1, LoopInvariance, PTL DEF Spec, NothingStartsAfterStop

=============================================================================
