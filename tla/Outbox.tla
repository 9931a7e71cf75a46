------------------------------- MODULE Outbox -------------------------------
(***************************************************************************)
(* The transactional outbox: src/repos/outbox.js and the poller            *)
(* publishPendingMessages in src/messaging/outbound/crm/doc-upload.        *)
(*                                                                         *)
(* Every service instance runs one poller (a worker).  A run claims        *)
(* entries one findOneAndUpdate at a time under a lease, publishes them to *)
(* SNS in batches, finalises each batch in one MongoDB transaction and     *)
(* then reports the entries that have failed for good.  MongoDB applies    *)
(* one statement, or one transaction, per step; workers interleave between *)
(* these steps, crash, and have runs that throw.                           *)
(***************************************************************************)
EXTENDS Integers, Sequences, FiniteSets

CONSTANTS
  Entries,         \* outbox documents, named by payload.file.fileId
  Workers,         \* values of outboxWorkerId, one per live instance
  NoWorker,        \* claimedBy of an entry that is not claimed
  MaxAttempts,     \* messaging.outboxMaxAttempts
  Lease,           \* messaging.outboxClaimLeaseMs, in ticks
  QueryLimit,      \* mongo.outboxQueryLimit
  BatchSize,       \* BATCH_SIZE of constants/outbox.js
  Resends,         \* how often the SNS client repeats a request by itself
  Skew,            \* how far each worker's clock is ahead of the reference
  ReadSecondary,   \* mongo.readPreference is a secondary one
  MaxTime,         \* bound on the clock
  MaxFaults        \* bound on crashes and runs that throw, together

ASSUME NoWorkerAssumption == NoWorker \notin Workers
ASSUME LimitAssumption ==
  /\ MaxAttempts \in Nat \ {0}
  /\ Lease \in Nat \ {0}
  /\ QueryLimit \in Nat \ {0}
  /\ BatchSize \in Nat \ {0}
  /\ Resends \in Nat
ASSUME ClockAssumption == Skew \in [Workers -> Nat]
ASSUME ReadAssumption == ReadSecondary \in BOOLEAN
ASSUME BoundAssumption == MaxTime \in Nat /\ MaxFaults \in Nat

VARIABLES
  clock,      \* reference time
  outbox,     \* the outbox collection on the primary
  replica,    \* entries the secondary that serves reads shows as failed for good
  published,  \* per file: is messaging.publishedAt set on its metadata?
  copies,     \* per entry and attempt: messages SNS accepted (external)
  audited,    \* per entry: failure audit events handed to sendAuditEvent
  worker,     \* the poller of each instance
  faults      \* crashes and thrown runs so far

vars == <<clock, outbox, replica, published, copies, audited, worker, faults>>

-----------------------------------------------------------------------------
(* State                                                                   *)

\* ABSENT: not inserted yet.  DELETED: removed by the TTL index on SENT entries.
Statuses == {"ABSENT", "PENDING", "PROCESSING", "SENT", "PERMANENT_FAILURE",
             "DELETED"}

Attempts == 1 .. MaxAttempts

Entry == [status : Statuses, attempts : 0 .. MaxAttempts, claimedUntil : Nat,
          claimedBy : Workers \cup {NoWorker}, createdAt : Nat]

\* What a worker keeps of a claimed entry: its own copy of attempts.
Claim == [entry : Entries, attempt : Attempts]

\* An entry the worker has just finalised as failed, with its own label for it.
Failure == [entry : Entries, status : {"PENDING", "PERMANENT_FAILURE"}]

Worker == [pc : {"idle", "claiming", "publishing", "finalizing", "reporting",
                 "down"},
           now : Nat,                \* the date claimProcessableOutboxEntries uses
           claims : Seq(Claim),      \* claimed, not yet finalised, in claim order
           successful : SUBSET Entries,   \* Successful of the batch's publish
           failed : SUBSET Failure]       \* finalizedFailed of the last batch

NoEntry == [status |-> "ABSENT", attempts |-> 0, claimedUntil |-> 0,
            claimedBy |-> NoWorker, createdAt |-> 0]

Resting(pc) == [pc |-> pc, now |-> 0, claims |-> <<>>, successful |-> {},
                failed |-> {}]

Init ==
  /\ clock = 0
  /\ outbox = [e \in Entries |-> NoEntry]
  /\ replica = {}
  /\ published = [e \in Entries |-> FALSE]
  /\ copies = [e \in Entries |-> [n \in Attempts |-> 0]]
  /\ audited = [e \in Entries |-> 0]
  /\ worker = [w \in Workers |-> Resting("idle")]
  /\ faults = 0

\* terminalFilter of logTerminalFailuresIfAny: all that the poller ever asks a
\* secondary.
TerminalFailures == {e \in Entries : /\ outbox[e].status = "PERMANENT_FAILURE"
                                     /\ outbox[e].attempts >= MaxAttempts}

\* new Date() in worker w's process
Now(w) == clock + Skew[w]

-----------------------------------------------------------------------------
(* The environment: callbacks, time, TTL index, replication                *)

\* The callback's transaction inserts an entry (see Intake.tla).
CreateOutboxEntry(e) ==
  /\ outbox[e].status = "ABSENT"
  /\ outbox' = [outbox EXCEPT ![e].status = "PENDING", ![e].createdAt = clock]
  /\ UNCHANGED <<clock, replica, published, copies, audited, worker, faults>>

Tick ==
  /\ clock < MaxTime
  /\ clock' = clock + 1
  /\ UNCHANGED <<outbox, replica, published, copies, audited, worker, faults>>

\* The partial TTL index deletes a SENT entry some time after its delivery.
ExpireSent(e) ==
  /\ outbox[e].status = "SENT"
  /\ outbox' = [outbox EXCEPT ![e].status = "DELETED"]
  /\ UNCHANGED <<clock, replica, published, copies, audited, worker, faults>>

\* The secondary catches up; between two catch-ups it serves a past state.
Replicate ==
  /\ ReadSecondary
  /\ replica # TerminalFailures
  /\ replica' = TerminalFailures
  /\ UNCHANGED <<clock, outbox, published, copies, audited, worker, faults>>

-----------------------------------------------------------------------------
(* One run of a worker                                                     *)

StartRun(w) ==
  /\ worker[w].pc = "idle"
  /\ worker' = [worker EXCEPT ![w].pc = "claiming", ![w].now = Now(w)]
  /\ UNCHANGED <<clock, outbox, replica, published, copies, audited, faults>>

\* Mutants of Claimable: a claim is not respected while its lease lasts; an
\* expired claim is not taken over.
ClaimableThoughLeased(e, now) ==
  /\ outbox[e].attempts < MaxAttempts
  /\ outbox[e].status \in {"PENDING", "PROCESSING"}

ClaimableIfPending(e, now) ==
  /\ outbox[e].attempts < MaxAttempts
  /\ outbox[e].status = "PENDING"

Claimable(e, now) ==
  /\ outbox[e].attempts < MaxAttempts
  /\ \/ outbox[e].status = "PENDING"
     \/ outbox[e].status = "PROCESSING" /\ outbox[e].claimedUntil < now

\* The filter of findOneAndUpdate with its sort on createdAt.
OldestClaimable(now) ==
  {e \in Entries :
     /\ Claimable(e, now)
     /\ \A f \in Entries :
          Claimable(f, now) => outbox[e].createdAt <= outbox[f].createdAt}

\* One iteration of the claim loop.  The loop keeps the date it started with.
ClaimEntry(w) ==
  /\ worker[w].pc = "claiming"
  /\ Len(worker[w].claims) < QueryLimit
  /\ \E e \in OldestClaimable(worker[w].now) :
       /\ outbox' = [outbox EXCEPT ![e].status = "PROCESSING",
                                   ![e].claimedUntil = worker[w].now + Lease,
                                   ![e].claimedBy = w,
                                   ![e].attempts = @ + 1]
       /\ worker' = [worker EXCEPT ![w].claims =
                       Append(@, [entry |-> e, attempt |-> outbox[e].attempts + 1])]
  /\ UNCHANGED <<clock, replica, published, copies, audited, faults>>

\* Where a run goes once a batch is dealt with, or the claim loop has ended.
NextBatch(claims) == IF claims = <<>> THEN Resting("idle")
                     ELSE [Resting("publishing") EXCEPT !.claims = claims]

StopClaiming(w) ==
  /\ worker[w].pc = "claiming"
  /\ \/ Len(worker[w].claims) = QueryLimit
     \/ OldestClaimable(worker[w].now) = {}
  /\ worker' = [worker EXCEPT ![w] = NextBatch(worker[w].claims)]
  /\ UNCHANGED <<clock, outbox, replica, published, copies, audited, faults>>

\* pendingMessages.slice(i, i + BATCH_SIZE); what precedes it has been dropped.
BatchIndices(w) == {i \in DOMAIN worker[w].claims : i <= BatchSize}

BatchEntries(w) == {worker[w].claims[i].entry : i \in BatchIndices(w)}

\* Mutants of AfterBatch: the last entry is published again; one is skipped.
AfterBatchRepeats(w) == SubSeq(worker[w].claims, BatchSize, Len(worker[w].claims))

AfterBatchSkips(w) == SubSeq(worker[w].claims, BatchSize + 2, Len(worker[w].claims))

AfterBatch(w) == SubSeq(worker[w].claims, BatchSize + 1, Len(worker[w].claims))

\* entriesById of mapPublishResultsToEntries: the last claim of an entry wins.
ClaimIn(w, e) ==
  LET indices == {i \in BatchIndices(w) : worker[w].claims[i].entry = e}
  IN  worker[w].claims[CHOOSE i \in indices : \A j \in indices : j <= i]

\* SNS refuses a batch in which one Id occurs twice.
HasRepeatedId(w) ==
  \E i, j \in BatchIndices(w) :
    i # j /\ worker[w].claims[i].entry = worker[w].claims[j].entry

\* Messages that one call leaves on the topic for an entry: one for each request
\* that SNS accepted it in.
Accepted(e, unanswered, answered) ==
  unanswered[e] + (IF e \in answered THEN 1 ELSE 0)

\* One call of the SNS client.  A request whose answer is lost, late or a 5xx is
\* repeated up to Resends times, each time with the same entries and no
\* deduplication id: SNS may have accepted any of them by then.  Of the last request
\* SNS accepts some entries; Successful are these, unless the call throws, in
\* building the messages or in the client, and every entry counts as Failed.
PublishBatch(w) ==
  /\ worker[w].pc = "publishing"
  /\ \E unanswered \in [BatchEntries(w) -> 0 .. Resends],
        answered \in SUBSET BatchEntries(w), throws \in BOOLEAN :
       /\ HasRepeatedId(w) =>
            throws /\ \A e \in BatchEntries(w) : Accepted(e, unanswered, answered) = 0
       /\ copies' = [e \in Entries |->
                       IF e \in BatchEntries(w)
                       THEN [copies[e] EXCEPT ![ClaimIn(w, e).attempt] =
                               @ + Accepted(e, unanswered, answered)]
                       ELSE copies[e]]
       /\ worker' = [worker EXCEPT
                       ![w].pc = "finalizing",
                       ![w].successful = IF throws THEN {} ELSE answered]
  /\ UNCHANGED <<clock, outbox, replica, published, audited, faults>>

\* Mutant of ClaimHeldAt: entries are matched by _id alone.
ClaimUnchecked(w, e, now) == outbox[e].status \notin {"ABSENT", "DELETED"}

\* The filter of finalizeClaimedOutboxEntries.
ClaimHeldAt(w, e, now) ==
  /\ outbox[e].status = "PROCESSING"
  /\ outbox[e].claimedBy = w
  /\ outbox[e].claimedUntil > now

ClaimHeld(w, e) == ClaimHeldAt(w, e, Now(w))

\* Mutant of ClaimedFailureStatus: given up one attempt too late.
FailureStatusLate(attempts) ==
  IF attempts > MaxAttempts THEN "PERMANENT_FAILURE" ELSE "PENDING"

\* buildClaimedFailurePipeline, which the database evaluates.
ClaimedFailureStatus(attempts) ==
  IF attempts >= MaxAttempts THEN "PERMANENT_FAILURE" ELSE "PENDING"

\* Its mirror in the worker, evaluated on the worker's own copy of attempts.
ResolveFailedStatus(attempts) ==
  IF attempts >= MaxAttempts THEN "PERMANENT_FAILURE" ELSE "PENDING"

FinalizedEntry(w, e) ==
  [outbox[e] EXCEPT
     !.status = IF e \in worker[w].successful THEN "SENT"
                ELSE ClaimedFailureStatus(outbox[e].attempts),
     !.claimedUntil = 0,
     !.claimedBy = NoWorker]

\* Mutant of PublishedAt: files whose finalisation was rejected are not left out.
PublishedThoughRejected(w, finalized) ==
  [e \in Entries |-> published[e] \/ e \in worker[w].successful]

\* bulkUpdatePublishedAtDate, given what could be finalised of the Successful ones.
PublishedAt(w, finalized) ==
  [e \in Entries |-> published[e] \/ e \in finalized \cap worker[w].successful]

\* The order of finalizeEntries: first the Successful ones, then the Failed ones.
IsLatePart(w, late) ==
  \A e \in late \cap worker[w].successful, f \in BatchEntries(w) \ worker[w].successful :
    f \in late

\* Each entry is finalised with a date of its own, so a lease can run out while the
\* transaction is under way: late are the entries finalised at its end.
StillClaimed(w, late, end) ==
  {e \in BatchEntries(w) :
     ClaimHeldAt(w, e, Skew[w] + IF e \in late THEN end ELSE clock)}

\* One transaction: both finalizeEntries calls and bulkUpdatePublishedAtDate.
\* An entry whose claim is no longer held is rejected: logged and forgotten.
FinalizeBatch(w) ==
  /\ worker[w].pc = "finalizing"
  /\ \E late \in SUBSET BatchEntries(w), end \in clock .. MaxTime :
       LET finalized == StillClaimed(w, late, end)
           failed == {[entry |-> e,
                       status |-> ResolveFailedStatus(ClaimIn(w, e).attempt)] :
                        e \in finalized \ worker[w].successful}
       IN  /\ IsLatePart(w, late)
           /\ clock' = end
           /\ outbox' = [e \in Entries |-> IF e \in finalized THEN FinalizedEntry(w, e)
                                           ELSE outbox[e]]
           /\ published' = PublishedAt(w, finalized)
           /\ worker' = [worker EXCEPT ![w] =
                IF failed = {} THEN NextBatch(AfterBatch(w))
                ELSE [Resting("reporting") EXCEPT !.claims = AfterBatch(w),
                                                  !.failed = failed]]
  /\ UNCHANGED <<replica, copies, audited, faults>>

\* Mutant of ReadView: the secondary is read whatever the preference.
StaleView == replica

\* What logTerminalFailuresIfAny sees: it reads outside the transaction, with
\* the client's read preference.
ReadView == IF ReadSecondary THEN replica ELSE TerminalFailures

\* Mutant of ReportFailures: all that has failed for good is looked up again.
ReportAllFailures(w) ==
  /\ worker[w].pc = "reporting"
  /\ audited' = [e \in Entries |-> IF e \in ReadView THEN audited[e] + 1
                                   ELSE audited[e]]
  /\ worker' = [worker EXCEPT ![w] = NextBatch(worker[w].claims)]
  /\ UNCHANGED <<clock, outbox, replica, published, copies, faults>>

\* handleFailedEntries: looks the batch's failed files up again and hands an audit
\* event to sendAuditEvent for each that is a permanent failure by now.  Whether SNS
\* takes the event is not told from here: a refusal is logged and swallowed.
ReportFailures(w) ==
  /\ worker[w].pc = "reporting"
  /\ LET terminal == {f.entry : f \in worker[w].failed} \cap ReadView
     IN  audited' = [e \in Entries |-> IF e \in terminal THEN audited[e] + 1
                                       ELSE audited[e]]
  /\ worker' = [worker EXCEPT ![w] = NextBatch(worker[w].claims)]
  /\ UNCHANGED <<clock, outbox, replica, published, copies, faults>>

-----------------------------------------------------------------------------
(* Faults                                                                  *)

\* A database call throws: the rest of the run is dropped, its entries stay
\* claimed, and the loop goes on with the next run.
RunThrows(w) ==
  /\ worker[w].pc \notin {"idle", "down"}
  /\ faults < MaxFaults
  /\ faults' = faults + 1
  /\ worker' = [worker EXCEPT ![w] = Resting("idle")]
  /\ UNCHANGED <<clock, outbox, replica, published, copies, audited>>

\* The process dies, or shuts down with its run not drained.
Crash(w) ==
  /\ worker[w].pc # "down"
  /\ faults < MaxFaults
  /\ faults' = faults + 1
  /\ worker' = [worker EXCEPT ![w] = Resting("down")]
  /\ UNCHANGED <<clock, outbox, replica, published, copies, audited>>

Restart(w) ==
  /\ worker[w].pc = "down"
  /\ worker' = [worker EXCEPT ![w] = Resting("idle")]
  /\ UNCHANGED <<clock, outbox, replica, published, copies, audited, faults>>

-----------------------------------------------------------------------------

RunStep(w) ==
  \/ StartRun(w)
  \/ ClaimEntry(w)
  \/ StopClaiming(w)
  \/ PublishBatch(w)
  \/ FinalizeBatch(w)
  \/ ReportFailures(w)

Fault(w) == RunThrows(w) \/ Crash(w) \/ Restart(w)

Environment ==
  \/ Tick
  \/ Replicate
  \/ \E e \in Entries : CreateOutboxEntry(e) \/ ExpireSent(e)

Next ==
  \/ \E w \in Workers : RunStep(w) \/ Fault(w)
  \/ Environment

Spec == Init /\ [][Next]_vars

\* A live process goes on with its run and its timer starts the next one; time
\* passes; the secondary catches up.  Nothing obliges a dead worker to return.
Fairness ==
  /\ \A w \in Workers : WF_vars(RunStep(w))
  /\ WF_vars(Tick)
  /\ WF_vars(Replicate)

FairSpec == Spec /\ Fairness

-----------------------------------------------------------------------------
(* Properties                                                              *)

ClaimsOf(w) == {worker[w].claims[i] : i \in DOMAIN worker[w].claims}

\* Every collection and every worker keeps values of its type.
TypeOK ==
  /\ clock \in Nat
  /\ outbox \in [Entries -> Entry]
  /\ replica \in SUBSET Entries
  /\ published \in [Entries -> BOOLEAN]
  /\ copies \in [Entries -> [Attempts -> Nat]]
  /\ audited \in [Entries -> Nat]
  /\ worker \in [Workers -> Worker]
  /\ faults \in Nat

Sent(e) == outbox[e].status \in {"SENT", "DELETED"}

\* An entry is marked SENT only if SNS accepted a message for it, and a file's
\* metadata shows a publishedAt exactly when its entry was marked SENT: never
\* for a rejected finalisation, whatever crashes and expired claims did.  (KeepsPromise
\* and KeepsEntryLife, which the runs check, say the same of the steps.)
SentWasDelivered ==
  \A e \in Entries :
    /\ Sent(e) => \E n \in Attempts : copies[e][n] > 0
    /\ published[e] <=> Sent(e)

\* A claim buys one call of the SNS client: an attempt leaves no more messages than
\* the requests of one call can, and none before it was claimed, whoever else has
\* claimed the entry since.  With what the client repeats by itself, a file reaches
\* CRM at most MaxAttempts * (1 + Resends) times.
OneCallPerAttempt ==
  \A e \in Entries, n \in Attempts :
    /\ copies[e][n] <= 1 + Resends
    /\ copies[e][n] > 0 => n <= outbox[e].attempts

\* The claim filter (attempts < max) and the failure pipeline (attempts >= max)
\* agree: no PENDING entry is out of the claim loop's reach, and no entry is
\* given up, or audited as failed, with attempts to spare or once published.
PendingOrGivenUp ==
  \A e \in Entries :
    /\ outbox[e].status = "PENDING" => outbox[e].attempts < MaxAttempts
    /\ outbox[e].status = "PERMANENT_FAILURE" =>
         outbox[e].attempts = MaxAttempts /\ ~published[e]
    /\ audited[e] > 0 => outbox[e].status = "PERMANENT_FAILURE"

\* The comment on resolveFailedStatus: no other worker changes attempts while
\* this claim is held, so the worker's copy is the count in the database.
HeldClaimIsCurrent ==
  \A w \in Workers : \A c \in ClaimsOf(w) :
    ClaimHeld(w, c.entry) => outbox[c.entry].attempts = c.attempt

\* While no run threw or crashed, a claim that can still be finalised is one
\* its worker still means to finalise: batching loses no entry.
LiveClaimIsRemembered ==
  faults = 0 =>
    \A e \in Entries, w \in Workers :
      ClaimHeld(w, e) => \E c \in ClaimsOf(w) : c.entry = e

\* SENT and PERMANENT_FAILURE are final, whoever still holds an old claim: a
\* late finalisation cannot resurrect an entry or overturn its outcome.  (Of what shows
\* outside, KeepsPromise says so too.)
OutcomeIsFinal ==
  [][\A e \in Entries :
       /\ Sent(e) => Sent(e)'
       /\ outbox[e].status = "PERMANENT_FAILURE" => UNCHANGED outbox[e]
       /\ outbox[e].attempts <= outbox'[e].attempts]_vars

\* While no run threw or crashed, an audit event was attempted for a permanent
\* failure, or a worker is just about to: no later run looks for what this one
\* missed.
TerminalFailureAudited ==
  faults = 0 =>
    \A e \in Entries :
      outbox[e].status = "PERMANENT_FAILURE" =>
        \/ audited[e] > 0
        \/ \E w \in Workers : \E f \in worker[w].failed : f.entry = e

\* The look-up is by fileId and follows the transaction: a worker whose attempt
\* failed early can find, and audit once more, a failure that another worker made
\* final since.  Still, an attempt buys at most one event: there are no more events
\* for an entry than tries.
AuditsAreBounded == \A e \in Entries : audited[e] <= outbox[e].attempts

\* README: a worker that dies mid-publish does not strand its entries.  A claim
\* that has expired on every worker's clock, so that nobody can finalise it
\* any more, can be claimed again.
ExpiredClaimIsReclaimable ==
  \A e \in Entries :
    (/\ outbox[e].status = "PROCESSING"
     /\ \A w \in Workers : outbox[e].claimedUntil < Now(w))
      => outbox[e].attempts < MaxAttempts

\* What the rest of the system can tell of an entry.
FilePhase(e) ==
  CASE outbox[e].status = "ABSENT" -> "none"
    [] outbox[e].status \in {"PENDING", "PROCESSING"} -> "waiting"
    [] Sent(e) -> "sent"
    [] outbox[e].status = "PERMANENT_FAILURE" -> "failed"

FileView(e) == [phase |-> FilePhase(e),
                tries |-> outbox[e].attempts,
                delivered |-> {n \in Attempts : copies[e][n] > 0}]

Promise == INSTANCE Delivery WITH Files <- Entries,
                                  file <- [e \in Entries |-> FileView(e)]

\* Every step of the workers is, for each file, a step the promise allows.
KeepsPromise == Promise!Spec

\* A claim does not show in what a status request reads of an entry.
EntryView(e) == [status |-> IF outbox[e].status = "PROCESSING" THEN "PENDING"
                            ELSE outbox[e].status,
                 published |-> published[e]]

Life == INSTANCE EntryLife WITH Files <- Entries,
                                life <- [e \in Entries |-> EntryView(e)]

\* Seen from a status request, each entry runs the course that UploadVerdict.tla
\* relies on, whatever claims, retries and crashes are behind it: publishedAt and
\* SENT appear together, and no entry comes back.
KeepsEntryLife == Life!Spec

\* No worker is going to finalise this claim.
Abandoned(e) ==
  /\ outbox[e].status = "PROCESSING"
  /\ ~ \E w \in Workers : ClaimHeld(w, e) /\ \E c \in ClaimsOf(w) : c.entry = e

\* Every entry is delivered or given up, through runs that throw, workers that
\* die and claims that expire before their batch's turn comes: what one worker
\* abandons another takes over.  Excepted is an entry abandoned in its last attempt
\* (see ExpiredClaimIsReclaimable), and a lease the bounded clock does not outlast.
EveryEntrySettles ==
  \A e \in Entries :
    outbox[e].status = "PENDING" ~>
      \/ Sent(e)
      \/ outbox[e].status = "PERMANENT_FAILURE"
      \/ /\ Abandoned(e)
         /\ outbox[e].attempts = MaxAttempts \/ outbox[e].claimedUntil >= MaxTime

=============================================================================
