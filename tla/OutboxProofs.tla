---------------------------- MODULE OutboxProofs ----------------------------
(***************************************************************************)
(* Proofs about Outbox for every set of entries and workers, every limit,  *)
(* every lease and any disagreement of the workers' clocks; only the last  *)
(* theorem, HeldClaimsAreCurrent, is about clocks that agree.              *)
(***************************************************************************)
EXTENDS Outbox, FiniteSetTheorems, TLAPS

-----------------------------------------------------------------------------
(* The inductive invariant                                                 *)

\* The claims whose message has not been handed to SNS yet: in "finalizing"
\* the current batch has been.
ToPublish(w) == {i \in DOMAIN worker[w].claims :
                   worker[w].pc = "finalizing" => i > BatchSize}

\* A worker's copy of attempts never runs ahead of the database.
ClaimsArePast ==
  \A w \in Workers : \A i \in DOMAIN worker[w].claims :
    worker[w].claims[i].attempt <= outbox[worker[w].claims[i].entry].attempts

\* No attempt is claimed twice, by one worker or by two.
ClaimsAreDistinct ==
  \A w, v \in Workers :
    \A i \in DOMAIN worker[w].claims, j \in DOMAIN worker[v].claims :
      worker[w].claims[i] = worker[v].claims[j] => w = v /\ i = j

\* An attempt that is still to be published has produced no message.
UnpublishedHasNoCopy ==
  \A w \in Workers : \A i \in ToPublish(w) :
    copies[worker[w].claims[i].entry][worker[w].claims[i].attempt] = 0

\* SNS accepted a message for every entry it reported as successful.
SuccessfulWasDelivered ==
  \A w \in Workers : \A e \in worker[w].successful :
    \E n \in Attempts : copies[e][n] > 0

\* An entry that is not inserted yet has never been tried.
AbsentIsFresh ==
  \A e \in Entries : outbox[e].status = "ABSENT" => outbox[e].attempts = 0

\* A permanent failure seen on the secondary is one on the primary.
ReplicaIsPast ==
  \A e \in Entries : e \in replica => outbox[e].status = "PERMANENT_FAILURE"

ClaimInv ==
  /\ ClaimsArePast
  /\ ClaimsAreDistinct
  /\ UnpublishedHasNoCopy
  /\ SuccessfulWasDelivered

EntryInv ==
  /\ AbsentIsFresh
  /\ ReplicaIsPast
  /\ OneCallPerAttempt
  /\ SentWasDelivered
  /\ PendingOrGivenUp

IInv == TypeOK /\ ClaimInv /\ EntryInv

-----------------------------------------------------------------------------
(* Lemmas about a worker's record                                          *)

\* A worker's clock shows a date.
LEMMA NowIsNat == ASSUME TypeOK, NEW w \in Workers PROVE Now(w) \in Nat
  BY ClockAssumption DEF TypeOK, Now

\* The fields of a document, a worker and a claim have their types.
LEMMA EntryFields ==
  ASSUME TypeOK, NEW e \in Entries
  PROVE  /\ outbox[e] \in Entry
         /\ outbox[e].attempts \in 0 .. MaxAttempts
         /\ outbox[e].claimedUntil \in Nat
  BY DEF TypeOK, Entry

\* The types of a worker's variables.
LEMMA WorkerFields ==
  ASSUME TypeOK, NEW w \in Workers
  PROVE  /\ worker[w] \in Worker
         /\ worker[w].now \in Nat
         /\ worker[w].claims \in Seq(Claim)
         /\ worker[w].successful \subseteq Entries
  BY DEF TypeOK, Worker

\* The types of a claim that a worker still has to publish.
LEMMA ClaimFields ==
  ASSUME TypeOK, NEW w \in Workers, NEW i \in DOMAIN worker[w].claims
  PROVE  /\ i \in Nat
         /\ worker[w].claims[i] \in Claim
         /\ worker[w].claims[i].entry \in Entries
         /\ worker[w].claims[i].attempt \in Attempts
         /\ worker[w].claims[i].attempt \in Nat
  <1>1. i \in Nat /\ worker[w].claims[i] \in Claim
    BY WorkerFields
  <1> QED BY <1>1, LimitAssumption DEF Claim, Attempts

\* A batch is made of entries.
LEMMA BatchFields ==
  ASSUME TypeOK, NEW w \in Workers
  PROVE  BatchEntries(w) \subseteq Entries
  BY ClaimFields DEF BatchEntries, BatchIndices

\* A resting worker holds no claim.
LEMMA RestingWorker ==
  ASSUME NEW pc \in {"idle", "publishing", "reporting", "down"}
  PROVE  /\ Resting(pc) \in Worker
         /\ Resting(pc).pc = pc
         /\ Resting(pc).claims = <<>>
         /\ Resting(pc).successful = {}
         /\ Resting(pc).failed = {}
  BY DEF Resting, Worker

\* Going on to the next batch keeps the claims that are left.
LEMMA NextBatchWorker ==
  ASSUME NEW claims \in Seq(Claim)
  PROVE  /\ NextBatch(claims) \in Worker
         /\ NextBatch(claims).pc \in {"idle", "publishing"}
         /\ NextBatch(claims).claims = claims
         /\ NextBatch(claims).successful = {}
  <1>1. CASE claims = <<>>
    BY <1>1, RestingWorker DEF NextBatch
  <1>2. CASE claims # <<>>
    BY <1>2 DEF NextBatch, Resting, Worker
  <1> QED BY <1>1, <1>2

\* Dropping a batch shifts the claims behind it.
LEMMA AfterBatchShifts ==
  ASSUME NEW w \in Workers, worker[w].claims \in Seq(Claim)
  PROVE  /\ AfterBatch(w) \in Seq(Claim)
         /\ \A i \in DOMAIN AfterBatch(w) :
              /\ i \in Nat
              /\ i + BatchSize \in DOMAIN worker[w].claims
              /\ AfterBatch(w)[i] = worker[w].claims[i + BatchSize]
  BY LimitAssumption DEF AfterBatch

-----------------------------------------------------------------------------
(* The two steps of a batch, freed of the choices inside them              *)

\* What a call of the SNS client does: sent counts the messages it leaves for each
\* entry of the batch, and ok are the entries it reports as Successful.
Publishes(w, sent, ok) ==
  /\ worker[w].pc = "publishing"
  /\ sent \in [BatchEntries(w) -> 0 .. 1 + Resends]
  /\ HasRepeatedId(w) => \A e \in BatchEntries(w) : sent[e] = 0
  /\ ok \subseteq {e \in BatchEntries(w) : sent[e] > 0}
  /\ copies' = [e \in Entries |->
                  IF e \in BatchEntries(w)
                  THEN [copies[e] EXCEPT ![ClaimIn(w, e).attempt] = @ + sent[e]]
                  ELSE copies[e]]
  /\ worker' = [worker EXCEPT ![w].pc = "finalizing", ![w].successful = ok]
  /\ UNCHANGED <<clock, outbox, replica, published, audited, faults>>

\* Whatever was lost, repeated and refused, this is what a publish comes to.
LEMMA PublishIs ==
  ASSUME NEW w \in Workers, PublishBatch(w)
  PROVE  \E sent, ok : Publishes(w, sent, ok)
  <1>1. PICK unanswered \in [BatchEntries(w) -> 0 .. Resends],
             answered \in SUBSET BatchEntries(w), throws \in BOOLEAN :
          /\ HasRepeatedId(w) =>
               throws /\ \A e \in BatchEntries(w) : Accepted(e, unanswered, answered) = 0
          /\ copies' = [e \in Entries |->
                          IF e \in BatchEntries(w)
                          THEN [copies[e] EXCEPT ![ClaimIn(w, e).attempt] =
                                  @ + Accepted(e, unanswered, answered)]
                          ELSE copies[e]]
          /\ worker' = [worker EXCEPT
                          ![w].pc = "finalizing",
                          ![w].successful = IF throws THEN {} ELSE answered]
    BY DEF PublishBatch
  <1> DEFINE sent == [e \in BatchEntries(w) |-> Accepted(e, unanswered, answered)]
             ok == IF throws THEN {} ELSE answered
  <1>2. \A e \in BatchEntries(w) : /\ sent[e] = Accepted(e, unanswered, answered)
                                   /\ sent[e] \in 0 .. 1 + Resends
                                   /\ e \in answered => sent[e] > 0
    BY LimitAssumption DEF Accepted
  <1>3. sent \in [BatchEntries(w) -> 0 .. 1 + Resends]
    BY <1>2
  <1>4. copies' = [e \in Entries |->
                    IF e \in BatchEntries(w)
                    THEN [copies[e] EXCEPT ![ClaimIn(w, e).attempt] = @ + sent[e]]
                    ELSE copies[e]]
    BY <1>1, <1>2, Zenon
  <1>5. worker' = [worker EXCEPT ![w].pc = "finalizing", ![w].successful = ok]
    BY <1>1
  <1>6. ok \subseteq {e \in BatchEntries(w) : sent[e] > 0}
    BY <1>2
  <1>7. HasRepeatedId(w) => \A e \in BatchEntries(w) : sent[e] = 0
    BY <1>1, <1>2
  <1> HIDE DEF sent, ok
  <1>8. Publishes(w, sent, ok)
    BY <1>3, <1>4, <1>5, <1>6, <1>7 DEF Publishes, PublishBatch
  <1> QED BY <1>8

\* What the transaction that finalises a batch does: finalized are the entries it
\* found still claimed, each at its own date.
Finalizes(w, finalized) ==
  LET failed == {[entry |-> e, status |-> ResolveFailedStatus(ClaimIn(w, e).attempt)] :
                   e \in finalized \ worker[w].successful}
  IN  /\ finalized \subseteq BatchEntries(w)
      /\ \A e \in finalized : ClaimHeld(w, e)
      /\ outbox' = [e \in Entries |-> IF e \in finalized THEN FinalizedEntry(w, e)
                                      ELSE outbox[e]]
      /\ published' = PublishedAt(w, finalized)
      /\ worker' = [worker EXCEPT ![w] =
           IF failed = {} THEN NextBatch(AfterBatch(w))
           ELSE [Resting("reporting") EXCEPT !.claims = AfterBatch(w),
                                             !.failed = failed]]

\* What it finds claimed is claimed at the date it starts, and what it does not is not
\* claimed any more when it ends.
LEMMA FinalizeIs ==
  ASSUME TypeOK, NEW w \in Workers, FinalizeBatch(w)
  PROVE  /\ \E finalized :
              /\ Finalizes(w, finalized)
              /\ \A e \in BatchEntries(w) \ finalized : ~ ClaimHeld(w, e)'
         /\ worker[w].pc = "finalizing"
         /\ clock' \in Nat /\ clock' >= clock
         /\ UNCHANGED <<replica, copies, audited, faults>>
  <1>1. PICK late \in SUBSET BatchEntries(w), end \in clock .. MaxTime :
          LET finalized == StillClaimed(w, late, end)
              failed == {[entry |-> e,
                          status |-> ResolveFailedStatus(ClaimIn(w, e).attempt)] :
                           e \in finalized \ worker[w].successful}
          IN  /\ clock' = end
              /\ outbox' = [e \in Entries |-> IF e \in finalized THEN FinalizedEntry(w, e)
                                              ELSE outbox[e]]
              /\ published' = PublishedAt(w, finalized)
              /\ worker' = [worker EXCEPT ![w] =
                   IF failed = {} THEN NextBatch(AfterBatch(w))
                   ELSE [Resting("reporting") EXCEPT !.claims = AfterBatch(w),
                                                     !.failed = failed]]
    BY Zenon DEF FinalizeBatch
  <1>2. clock \in Nat /\ Skew[w] \in Nat /\ end \in Nat /\ end >= clock
    BY ClockAssumption, BoundAssumption DEF TypeOK
  <1>3. \A e \in Entries : outbox[e].claimedUntil \in Nat
    BY EntryFields
  <1>4. \A e \in StillClaimed(w, late, end) : ClaimHeld(w, e)
    BY <1>2, <1>3, BatchFields DEF StillClaimed, ClaimHeld, ClaimHeldAt, Now
  <1>5. ASSUME NEW e \in BatchEntries(w) \ StillClaimed(w, late, end)
        PROVE  ~ ClaimHeld(w, e)'
    <2>1. e \in Entries
      BY <1>5, BatchFields
    <2>2. outbox'[e] = outbox[e] /\ clock' = end
      BY <1>1, <1>5, <2>1
    <2>3. ~ ClaimHeldAt(w, e, Skew[w] + IF e \in late THEN end ELSE clock)
      BY <1>5 DEF StillClaimed
    <2> QED BY <1>2, <1>3, <2>1, <2>2, <2>3 DEF ClaimHeld, ClaimHeldAt, Now
  <1>6. StillClaimed(w, late, end) \subseteq BatchEntries(w)
    BY DEF StillClaimed
  <1>7. Finalizes(w, StillClaimed(w, late, end))
    BY <1>1, <1>4, <1>6 DEF Finalizes
  <1>8. /\ worker[w].pc = "finalizing"
        /\ UNCHANGED <<replica, copies, audited, faults>>
    BY DEF FinalizeBatch
  <1> QED BY <1>1, <1>2, <1>5, <1>7, <1>8

-----------------------------------------------------------------------------
(* Type correctness                                                        *)

\* An empty outbox with resting workers has its types.
LEMMA InitTypeOK == Init => TypeOK
  <1> SUFFICES ASSUME Init PROVE TypeOK
    OBVIOUS
  <1>1. NoEntry \in Entry
    BY LimitAssumption DEF NoEntry, Entry, Statuses
  <1>2. [n \in Attempts |-> 0] \in [Attempts -> Nat]
    OBVIOUS
  <1> QED BY <1>1, <1>2, RestingWorker DEF Init, TypeOK

\* Every action keeps the types.
LEMMA NextTypeOK == TypeOK /\ [Next]_vars => TypeOK'
  <1> SUFFICES ASSUME TypeOK, [Next]_vars PROVE TypeOK'
    OBVIOUS
  <1> USE DEF TypeOK
  <1>1. ASSUME NEW w \in Workers, StartRun(w) PROVE TypeOK'
    BY <1>1, NowIsNat DEF StartRun, Worker
  <1>2. ASSUME NEW w \in Workers, ClaimEntry(w) PROVE TypeOK'
    <2>1. PICK e \in OldestClaimable(worker[w].now) :
            /\ outbox' = [outbox EXCEPT ![e].status = "PROCESSING",
                                        ![e].claimedUntil = worker[w].now + Lease,
                                        ![e].claimedBy = w,
                                        ![e].attempts = @ + 1]
            /\ worker' = [worker EXCEPT ![w].claims =
                 Append(@, [entry |-> e, attempt |-> outbox[e].attempts + 1])]
      BY <1>2 DEF ClaimEntry
    <2>2. e \in Entries /\ outbox[e].attempts < MaxAttempts
      BY DEF OldestClaimable, Claimable
    <2>3. [entry |-> e, attempt |-> outbox[e].attempts + 1] \in Claim
      BY <2>2, LimitAssumption DEF Claim, Attempts, Entry
    <2> DEFINE claimed == [outbox[e] EXCEPT !.status = "PROCESSING",
                                           !.claimedUntil = worker[w].now + Lease,
                                           !.claimedBy = w,
                                           !.attempts = @ + 1]
               claiming == [worker[w] EXCEPT !.claims =
                 Append(@, [entry |-> e, attempt |-> outbox[e].attempts + 1])]
    <2>4. claimed \in Entry
      <3>1. outbox[e].attempts + 1 \in 0 .. MaxAttempts
        BY <2>2, EntryFields, LimitAssumption
      <3>2. worker[w].now + Lease \in Nat
        BY WorkerFields, LimitAssumption
      <3> QED BY <2>2, <3>1, <3>2, EntryFields DEF Entry, Statuses
    <2>5. claiming \in Worker
      <3>1. Append(worker[w].claims, [entry |-> e, attempt |-> outbox[e].attempts + 1])
              \in Seq(Claim)
        BY <2>3, WorkerFields
      <3> QED BY <3>1, WorkerFields DEF Worker
    <2>6. outbox' = [outbox EXCEPT ![e] = claimed]
      BY <2>1, <2>2
    <2>7. worker' = [worker EXCEPT ![w] = claiming]
      BY <2>1
    <2> HIDE DEF claimed, claiming
    <2> QED BY <1>2, <2>2, <2>4, <2>5, <2>6, <2>7 DEF ClaimEntry
  <1>3. ASSUME NEW w \in Workers, StopClaiming(w) PROVE TypeOK'
    <2>1. worker[w].claims \in Seq(Claim)
      BY DEF Worker
    <2> QED BY <1>3, <2>1, NextBatchWorker DEF StopClaiming
  <1>4. ASSUME NEW w \in Workers, PublishBatch(w) PROVE TypeOK'
    <2>1. PICK sent, ok : Publishes(w, sent, ok)
      BY <1>4, PublishIs
    <2> DEFINE publishing == [worker[w] EXCEPT !.pc = "finalizing", !.successful = ok]
    <2>2. publishing \in Worker
      BY <2>1, BatchFields, WorkerFields DEF Worker, Publishes
    <2>3. worker' = [worker EXCEPT ![w] = publishing]
      BY <2>1 DEF Publishes
    <2>4. copies' \in [Entries -> [Attempts -> Nat]]
      <3>1. ASSUME NEW e \in Entries, NEW n, NEW m \in Nat
            PROVE  [copies[e] EXCEPT ![n] = @ + m] \in [Attempts -> Nat]
        <4>1. copies[e] \in [Attempts -> Nat]
          BY DEF TypeOK
        <4>2. CASE n \in Attempts
          <5>1. copies[e][n] + m \in Nat
            BY <4>1, <4>2
          <5> QED BY <4>1, <5>1
        <4>3. CASE n \notin Attempts
          BY <4>1, <4>3
        <4> QED BY <4>2, <4>3
      <3>2. \A e \in Entries : copies[e] \in [Attempts -> Nat]
        BY DEF TypeOK
      <3>3. \A e \in BatchEntries(w) : sent[e] \in Nat
        BY <2>1, LimitAssumption DEF Publishes
      <3> QED BY <2>1, <3>1, <3>2, <3>3 DEF Publishes
    <2> HIDE DEF publishing
    <2> QED BY <2>1, <2>2, <2>3, <2>4 DEF Publishes
  <1>5. ASSUME NEW w \in Workers, FinalizeBatch(w) PROVE TypeOK'
    <2>1. PICK finalized : Finalizes(w, finalized)
      BY <1>5, FinalizeIs
    <2> DEFINE failed == {[entry |-> e,
                           status |-> ResolveFailedStatus(ClaimIn(w, e).attempt)] :
                            e \in finalized \ worker[w].successful}
    <2>2. failed \subseteq Failure
      BY <2>1, BatchFields DEF Finalizes, Failure, ResolveFailedStatus
    <2>3. AfterBatch(w) \in Seq(Claim)
      BY AfterBatchShifts DEF Worker
    <2>4. [Resting("reporting") EXCEPT !.claims = AfterBatch(w), !.failed = failed]
            \in Worker
      BY <2>2, <2>3 DEF Resting, Worker
    <2>5. worker' \in [Workers -> Worker]
      BY <2>1, <2>3, <2>4, NextBatchWorker DEF Finalizes
    <2>6. \A e \in Entries : FinalizedEntry(w, e) \in Entry
      BY EntryFields DEF FinalizedEntry, ClaimedFailureStatus, Entry, Statuses
    <2>7. outbox' \in [Entries -> Entry]
      BY <2>1, <2>6 DEF Finalizes
    <2>8. published' \in [Entries -> BOOLEAN]
      BY <2>1 DEF Finalizes, PublishedAt
    <2> QED BY <1>5, <2>5, <2>7, <2>8, FinalizeIs
  <1>6. ASSUME NEW w \in Workers, ReportFailures(w) PROVE TypeOK'
    <2>1. worker[w].claims \in Seq(Claim)
      BY DEF Worker
    <2>2. worker' \in [Workers -> Worker]
      BY <1>6, <2>1, NextBatchWorker DEF ReportFailures
    <2>3. audited' \in [Entries -> Nat]
      BY <1>6 DEF ReportFailures
    <2> QED BY <1>6, <2>2, <2>3 DEF ReportFailures
  <1>7. ASSUME NEW w \in Workers, Fault(w) PROVE TypeOK'
    <2>1. worker' \in [Workers -> Worker]
      BY <1>7, RestingWorker DEF Fault, RunThrows, Crash, Restart
    <2>2. faults' \in Nat /\ UNCHANGED <<clock, outbox, replica, published, copies, audited>>
      BY <1>7 DEF Fault, RunThrows, Crash, Restart
    <2> QED BY <2>1, <2>2
  <1>8. CASE Tick
    BY <1>8 DEF Tick
  <1>9. CASE Replicate
    BY <1>9 DEF Replicate, TerminalFailures
  <1>10. ASSUME NEW e \in Entries, CreateOutboxEntry(e) PROVE TypeOK'
    <2>1. [outbox[e] EXCEPT !.status = "PENDING", !.createdAt = clock] \in Entry
      BY EntryFields DEF Entry, Statuses
    <2> QED BY <1>10, <2>1 DEF CreateOutboxEntry
  <1>11. ASSUME NEW e \in Entries, ExpireSent(e) PROVE TypeOK'
    BY <1>11 DEF ExpireSent, Entry, Statuses
  <1>12. CASE UNCHANGED vars
    BY <1>12 DEF vars
  <1> QED
    BY <1>1, <1>2, <1>3, <1>4, <1>5, <1>6, <1>7, <1>8, <1>9, <1>10, <1>11, <1>12
    DEF Next, RunStep, Environment

\* Every collection and every worker keeps values of its type, for every number
\* of entries and workers and every setting of the limits.
THEOREM TypeCorrect == Spec => []TypeOK
  BY InitTypeOK, NextTypeOK, PTL DEF Spec

-----------------------------------------------------------------------------
(* The part of the invariant about claims                                  *)

\* In this step worker w keeps its claims behind some position, in order, and
\* none that it has published comes back as one to publish.
KeepsSuffix(w) ==
  \E k \in Nat : \A i \in DOMAIN worker'[w].claims :
    /\ i + k \in DOMAIN worker[w].claims
    /\ worker'[w].claims[i] = worker[w].claims[i + k]
    /\ (worker'[w].pc = "finalizing" => i > BatchSize) =>
         (worker[w].pc = "finalizing" => i + k > BatchSize)

\* A step that takes and publishes nothing keeps what is known of the claims.
LEMMA DroppingClaims ==
  ASSUME TypeOK, TypeOK', ClaimInv,
         copies' = copies,
         \A e \in Entries : outbox'[e].attempts = outbox[e].attempts,
         \A w \in Workers : KeepsSuffix(w),
         \A w \in Workers : worker'[w].successful \subseteq worker[w].successful
  PROVE  ClaimInv'
  <1>1. ClaimsArePast'
    <2> SUFFICES ASSUME NEW w \in Workers, NEW i \in DOMAIN worker'[w].claims
                 PROVE  worker'[w].claims[i].attempt
                          <= outbox'[worker'[w].claims[i].entry].attempts
      BY DEF ClaimsArePast
    <2>1. PICK j \in DOMAIN worker[w].claims :
            worker'[w].claims[i] = worker[w].claims[j]
      BY DEF KeepsSuffix
    <2> QED BY <2>1, ClaimFields DEF ClaimInv, ClaimsArePast
  <1>2. ClaimsAreDistinct'
    <2> SUFFICES ASSUME NEW w \in Workers, NEW v \in Workers,
                        NEW i \in DOMAIN worker'[w].claims,
                        NEW j \in DOMAIN worker'[v].claims,
                        worker'[w].claims[i] = worker'[v].claims[j]
                 PROVE  w = v /\ i = j
      BY DEF ClaimsAreDistinct
    <2>1. PICK k \in Nat : \A n \in DOMAIN worker'[w].claims :
            /\ n + k \in DOMAIN worker[w].claims
            /\ worker'[w].claims[n] = worker[w].claims[n + k]
      BY DEF KeepsSuffix
    <2>2. PICK l \in Nat : \A n \in DOMAIN worker'[v].claims :
            /\ n + l \in DOMAIN worker[v].claims
            /\ worker'[v].claims[n] = worker[v].claims[n + l]
      BY DEF KeepsSuffix
    <2>3. w = v
      BY <2>1, <2>2 DEF ClaimInv, ClaimsAreDistinct
    <2>4. i + k = j + k
      BY <2>1, <2>3 DEF ClaimInv, ClaimsAreDistinct
    <2>5. i \in Nat /\ j \in Nat
      BY ClaimFields, TypeOK' DEF TypeOK, Worker
    <2> QED BY <2>3, <2>4, <2>5
  <1>3. UnpublishedHasNoCopy'
    <2> SUFFICES ASSUME NEW w \in Workers, NEW i \in ToPublish(w)'
                 PROVE  copies'[worker'[w].claims[i].entry]
                               [worker'[w].claims[i].attempt] = 0
      BY DEF UnpublishedHasNoCopy
    <2>1. PICK j \in ToPublish(w) : worker'[w].claims[i] = worker[w].claims[j]
      BY DEF KeepsSuffix, ToPublish
    <2> QED BY <2>1 DEF ClaimInv, UnpublishedHasNoCopy
  <1>4. SuccessfulWasDelivered'
    BY DEF ClaimInv, SuccessfulWasDelivered
  <1> QED BY <1>1, <1>2, <1>3, <1>4 DEF ClaimInv

\* Claiming an entry takes an attempt number nobody has had.
LEMMA ClaimingKeepsClaims ==
  ASSUME IInv, TypeOK', NEW w \in Workers, ClaimEntry(w)
  PROVE  ClaimInv'
  <1> DEFINE n == Len(worker[w].claims) + 1
  <1>1. PICK e \in OldestClaimable(worker[w].now) :
          /\ outbox' = [outbox EXCEPT ![e].status = "PROCESSING",
                                      ![e].claimedUntil = worker[w].now + Lease,
                                      ![e].claimedBy = w,
                                      ![e].attempts = @ + 1]
          /\ worker' = [worker EXCEPT ![w].claims =
               Append(@, [entry |-> e, attempt |-> outbox[e].attempts + 1])]
    BY DEF ClaimEntry
  <1> DEFINE c == [entry |-> e, attempt |-> outbox[e].attempts + 1]
  <1>2. e \in Entries
    BY DEF OldestClaimable
  <1>3. /\ outbox'[e].attempts = outbox[e].attempts + 1
        /\ \A f \in Entries \ {e} : outbox'[f] = outbox[f]
        /\ \A f \in Entries : outbox'[f].attempts >= outbox[f].attempts
    <2>1. outbox'[e].attempts = outbox[e].attempts + 1
      BY <1>1, <1>2 DEF IInv, TypeOK, Entry
    <2>2. \A f \in Entries \ {e} : outbox'[f] = outbox[f]
      BY <1>1, <1>2 DEF IInv, TypeOK
    <2> QED BY <2>1, <2>2, <1>2, EntryFields DEF IInv
  <1>4. /\ DOMAIN worker'[w].claims = DOMAIN worker[w].claims \cup {n}
        /\ worker'[w].claims[n] = c
        /\ \A i \in DOMAIN worker[w].claims :
             worker'[w].claims[i] = worker[w].claims[i]
        /\ n \notin DOMAIN worker[w].claims
        /\ worker'[w].pc = "claiming" /\ worker[w].pc = "claiming"
        /\ worker'[w].successful = worker[w].successful
        /\ \A v \in Workers \ {w} : worker'[v] = worker[v]
    <2>1. worker[w].claims \in Seq(Claim)
      BY WorkerFields DEF IInv
    <2>2. worker'[w] = [worker[w] EXCEPT !.claims = Append(@, c)]
      BY <1>1 DEF IInv, TypeOK
    <2>3. worker'[w].claims = Append(worker[w].claims, c)
      BY <2>2, WorkerFields DEF IInv, Worker
    <2>4. worker'[w].pc = worker[w].pc /\ worker'[w].successful = worker[w].successful
      BY <2>2, WorkerFields DEF IInv, Worker
    <2>5. worker[w].pc = "claiming"
      BY DEF ClaimEntry
    <2>6. \A v \in Workers \ {w} : worker'[v] = worker[v]
      BY <1>1 DEF IInv, TypeOK
    <2> HIDE DEF c
    <2> QED BY <2>1, <2>3, <2>4, <2>5, <2>6
  <1>5. \A v \in Workers : \A i \in DOMAIN worker[v].claims :
          worker[v].claims[i] # c
    BY <1>2, EntryFields, ClaimFields DEF IInv, ClaimInv, ClaimsArePast
  <1>6. copies[e][outbox[e].attempts + 1] = 0
    <2>1. outbox[e].attempts + 1 \in Attempts
      BY <1>1, EntryFields, LimitAssumption
         DEF IInv, OldestClaimable, Claimable, Attempts
    <2>2. copies[e][outbox[e].attempts + 1] \in Nat
      BY <1>2, <2>1 DEF IInv, TypeOK
    <2> QED BY <1>2, <2>1, <2>2, EntryFields DEF IInv, EntryInv, OneCallPerAttempt
  <1>7. copies' = copies
    BY DEF ClaimEntry
  <1> HIDE DEF n
  <1>8. ClaimsArePast'
    <2> SUFFICES ASSUME NEW v \in Workers, NEW i \in DOMAIN worker'[v].claims
                 PROVE  worker'[v].claims[i].attempt
                          <= outbox'[worker'[v].claims[i].entry].attempts
      BY DEF ClaimsArePast
    <2>1. CASE worker'[v].claims[i] = c
      BY <2>1, <1>3, <1>2, EntryFields DEF IInv
    <2>2. CASE i \in DOMAIN worker[v].claims /\ worker'[v].claims[i] = worker[v].claims[i]
      BY <2>2, <1>3, EntryFields, ClaimFields, TypeOK'
         DEF IInv, ClaimInv, ClaimsArePast, TypeOK, Entry
    <2> QED BY <2>1, <2>2, <1>4
  <1>9. ClaimsAreDistinct'
    <2> HIDE DEF c
    <2> QED BY <1>4, <1>5 DEF ClaimsAreDistinct, IInv, ClaimInv
  <1>10. UnpublishedHasNoCopy'
    <2> SUFFICES ASSUME NEW v \in Workers, NEW i \in ToPublish(v)'
                 PROVE  copies[worker'[v].claims[i].entry]
                              [worker'[v].claims[i].attempt] = 0
      BY <1>7 DEF UnpublishedHasNoCopy
    <2>1. CASE worker'[v].claims[i] = c
      BY <2>1, <1>6
    <2>2. CASE i \in ToPublish(v) /\ worker'[v].claims[i] = worker[v].claims[i]
      BY <2>2 DEF IInv, ClaimInv, UnpublishedHasNoCopy
    <2> HIDE DEF c
    <2> QED BY <2>1, <2>2, <1>4 DEF ToPublish
  <1>11. SuccessfulWasDelivered'
    BY <1>4, <1>7 DEF SuccessfulWasDelivered, IInv, ClaimInv
  <1> QED BY <1>8, <1>9, <1>10, <1>11 DEF ClaimInv

\* In a batch without repeated files a file's claim is the only one of its own.
LEMMA ClaimInBatch ==
  ASSUME NEW w \in Workers, ~HasRepeatedId(w), NEW e \in BatchEntries(w),
         TypeOK
  PROVE  \E i \in BatchIndices(w) :
           worker[w].claims[i].entry = e /\ ClaimIn(w, e) = worker[w].claims[i]
  <1> DEFINE indices == {i \in BatchIndices(w) : worker[w].claims[i].entry = e}
  <1>1. PICK i \in BatchIndices(w) : worker[w].claims[i].entry = e
    BY DEF BatchEntries
  <1>2. indices = {i}
    BY <1>1 DEF HasRepeatedId
  <1>3. i <= i
    BY <1>1, ClaimFields DEF BatchIndices
  <1>4. (CHOOSE j \in indices : \A k \in indices : k <= j) = i
    <2> HIDE DEF indices
    <2> QED BY <1>2, <1>3
  <1> QED BY <1>1, <1>4 DEF ClaimIn

\* An entry that no request of the call left a message for keeps its counts.
LEMMA UnsentIsUnchanged ==
  ASSUME TypeOK, NEW w \in Workers, NEW sent, NEW ok, Publishes(w, sent, ok),
         NEW e \in Entries, e \in BatchEntries(w) => sent[e] = 0
  PROVE  copies'[e] = copies[e]
  <1>1. CASE e \notin BatchEntries(w)
    BY <1>1 DEF Publishes
  <1>2. CASE e \in BatchEntries(w)
    <2> DEFINE n == ClaimIn(w, e).attempt
    <2>1. copies'[e] = [copies[e] EXCEPT ![n] = @ + 0]
      BY <1>2 DEF Publishes
    <2>2. copies[e] \in [Attempts -> Nat]
      BY DEF TypeOK
    <2> HIDE DEF n
    <2>3. CASE n \in Attempts
      <3>1. copies[e][n] + 0 = copies[e][n]
        BY <2>2, <2>3
      <3> QED BY <2>1, <2>2, <3>1
    <2>4. CASE n \notin Attempts
      BY <2>1, <2>2, <2>4
    <2> QED BY <2>3, <2>4
  <1> QED BY <1>1, <1>2

\* Publishing a batch uses up the attempts of the batch, each for the requests of one
\* call.
LEMMA PublishingKeepsClaims ==
  ASSUME IInv, TypeOK', NEW w \in Workers, PublishBatch(w)
  PROVE  ClaimInv' /\ OneCallPerAttempt'
  <1>1. PICK sent, ok : Publishes(w, sent, ok)
    BY PublishIs
  <1> DEFINE accepted == {e \in BatchEntries(w) : sent[e] > 0}
  <1>2. worker[w].pc = "publishing" /\ outbox' = outbox
    BY <1>1 DEF Publishes
  <1>3. /\ worker'[w].claims = worker[w].claims
        /\ worker'[w].pc = "finalizing"
        /\ worker'[w].successful \subseteq accepted
        /\ \A v \in Workers \ {w} : worker'[v] = worker[v]
    BY <1>1, WorkerFields DEF Publishes, IInv, TypeOK, Worker
  <1>4. \A v \in Workers : worker'[v].claims = worker[v].claims
    BY <1>3
  \* The attempt of an accepted entry is that of a claim in the batch.
  <1>5. ASSUME NEW e \in accepted
        PROVE  \E i \in BatchIndices(w) :
                 /\ worker[w].claims[i].entry = e
                 /\ copies[e][worker[w].claims[i].attempt] = 0
                 /\ copies'[e] = [copies[e] EXCEPT ![worker[w].claims[i].attempt] = sent[e]]
                 /\ sent[e] \in 1 .. 1 + Resends
    <2>0. e \in BatchEntries(w) /\ sent[e] \in 1 .. 1 + Resends /\ ~ HasRepeatedId(w)
      BY <1>1, LimitAssumption DEF Publishes
    <2>1. PICK i \in BatchIndices(w) :
            worker[w].claims[i].entry = e /\ ClaimIn(w, e) = worker[w].claims[i]
      BY <2>0, ClaimInBatch DEF IInv
    <2>2. i \in ToPublish(w)
      BY <1>2 DEF ToPublish, BatchIndices
    <2>3. copies[e][worker[w].claims[i].attempt] = 0
      BY <2>1, <2>2 DEF IInv, ClaimInv, UnpublishedHasNoCopy
    <2>4. e \in Entries
      BY <2>0, BatchFields DEF IInv
    <2>5. copies'[e] = [copies[e] EXCEPT ![worker[w].claims[i].attempt] =
                          copies[e][worker[w].claims[i].attempt] + sent[e]]
      BY <1>1, <2>0, <2>1, <2>4 DEF Publishes
    <2>6. copies[e][worker[w].claims[i].attempt] + sent[e] = sent[e]
      BY <2>0, <2>3
    <2> QED BY <2>0, <2>1, <2>3, <2>5, <2>6
  <1>6. ASSUME NEW e \in Entries \ accepted PROVE copies'[e] = copies[e]
    <2>1. e \in BatchEntries(w) => sent[e] = 0
      BY <1>1, LimitAssumption DEF Publishes
    <2> QED BY <1>1, <2>1, UnsentIsUnchanged DEF IInv
  <1>7. accepted \subseteq Entries
    BY BatchFields DEF IInv
  <1>8. \A e \in Entries : copies[e] \in [Attempts -> Nat]
    BY DEF IInv, TypeOK
  <1>9. ClaimsArePast'
    BY <1>2, <1>4 DEF IInv, ClaimInv, ClaimsArePast
  <1>10. ClaimsAreDistinct'
    BY <1>4 DEF IInv, ClaimInv, ClaimsAreDistinct
  <1>11. UnpublishedHasNoCopy'
    <2> SUFFICES ASSUME NEW v \in Workers, NEW j \in ToPublish(v)'
                 PROVE  copies'[worker[v].claims[j].entry]
                               [worker[v].claims[j].attempt] = 0
      BY <1>4 DEF UnpublishedHasNoCopy
    <2> DEFINE e == worker[v].claims[j].entry
               n == worker[v].claims[j].attempt
    <2>1. j \in DOMAIN worker[v].claims /\ (v = w => j > BatchSize)
      BY <1>3, <1>4 DEF ToPublish
    <2>2. j \in ToPublish(v)
      BY <2>1, <1>2, <1>3 DEF ToPublish
    <2>3. copies[e][n] = 0
      BY <2>2 DEF IInv, ClaimInv, UnpublishedHasNoCopy
    <2>4. e \in Entries /\ n \in Attempts /\ worker[v].claims[j] \in Claim
      BY <2>1, ClaimFields DEF IInv
    <2>5. CASE e \in accepted
      <3>1. PICK i \in BatchIndices(w) :
              /\ worker[w].claims[i].entry = e
              /\ copies'[e] = [copies[e] EXCEPT ![worker[w].claims[i].attempt] = sent[e]]
        BY <1>5, <2>5
      <3>2. i \in DOMAIN worker[w].claims /\ i <= BatchSize
        BY DEF BatchIndices
      <3>3. worker[w].claims[i] # worker[v].claims[j]
        <4>1. i \in Nat /\ j \in Nat
          BY <2>1, <3>2, ClaimFields DEF IInv
        <4> QED BY <2>1, <3>2, <4>1, LimitAssumption
                DEF IInv, ClaimInv, ClaimsAreDistinct
      <3>4. worker[w].claims[i].attempt # n
        BY <3>1, <3>2, <3>3, <2>4, ClaimFields DEF IInv, Claim
      <3>5. copies'[e][n] = copies[e][n]
        <4> HIDE DEF e, n
        <4> QED BY <3>1, <3>4, <2>4, <1>8
      <3> QED BY <3>5, <2>3
    <2>6. CASE e \notin accepted
      BY <2>3, <2>4, <2>6, <1>6
    <2> QED BY <2>5, <2>6
  <1>12. \A e \in Entries, n \in Attempts : copies[e][n] > 0 => copies'[e][n] > 0
    <2> SUFFICES ASSUME NEW e \in Entries, NEW n \in Attempts, copies[e][n] > 0
                 PROVE  copies'[e][n] > 0
      OBVIOUS
    <2>1. CASE e \in accepted
      <3>1. PICK i \in BatchIndices(w) :
              /\ copies'[e] = [copies[e] EXCEPT ![worker[w].claims[i].attempt] = sent[e]]
              /\ sent[e] \in 1 .. 1 + Resends
        BY <1>5, <2>1
      <3> QED BY <3>1, <1>8, LimitAssumption
    <2>2. CASE e \notin accepted
      BY <2>2, <1>6
    <2> QED BY <2>1, <2>2
  <1>13. SuccessfulWasDelivered'
    <2> SUFFICES ASSUME NEW v \in Workers, NEW e \in worker'[v].successful
                 PROVE  \E n \in Attempts : copies'[e][n] > 0
      BY DEF SuccessfulWasDelivered
    <2>1. CASE v = w
      <3>1. PICK i \in BatchIndices(w) :
              /\ copies'[e] = [copies[e] EXCEPT ![worker[w].claims[i].attempt] = sent[e]]
              /\ sent[e] \in 1 .. 1 + Resends
        BY <2>1, <1>3, <1>5
      <3>2. worker[w].claims[i].attempt \in Attempts
        BY ClaimFields DEF BatchIndices, IInv
      <3>3. e \in Entries
        BY <1>3, <1>7, <2>1
      <3>4. copies'[e][worker[w].claims[i].attempt] > 0
        BY <3>1, <3>2, <3>3, <1>8, LimitAssumption
      <3> QED BY <3>2, <3>4
    <2>2. CASE v # w
      <3>1. e \in Entries /\ e \in worker[v].successful
        BY <2>2, <1>3, WorkerFields DEF IInv
      <3> QED BY <3>1, <1>12 DEF IInv, ClaimInv, SuccessfulWasDelivered
    <2> QED BY <2>1, <2>2
  <1>14. OneCallPerAttempt'
    <2> SUFFICES ASSUME NEW e \in Entries, NEW n \in Attempts
                 PROVE  /\ copies'[e][n] <= 1 + Resends
                        /\ copies'[e][n] > 0 => n <= outbox[e].attempts
      BY <1>2 DEF OneCallPerAttempt
    <2>1. CASE e \in accepted
      <3>1. PICK i \in BatchIndices(w) :
              /\ worker[w].claims[i].entry = e
              /\ copies'[e] = [copies[e] EXCEPT ![worker[w].claims[i].attempt] = sent[e]]
              /\ sent[e] \in 1 .. 1 + Resends
        BY <1>5, <2>1
      <3>2. worker[w].claims[i].attempt <= outbox[e].attempts
        BY <3>1 DEF IInv, ClaimInv, ClaimsArePast, BatchIndices
      <3> HIDE DEF accepted
      <3> QED BY <3>1, <3>2, <1>8, LimitAssumption
              DEF IInv, EntryInv, OneCallPerAttempt
    <2>2. CASE e \notin accepted
      BY <2>2, <1>6 DEF IInv, EntryInv, OneCallPerAttempt
    <2> QED BY <2>1, <2>2
  <1> QED BY <1>9, <1>10, <1>11, <1>13, <1>14 DEF ClaimInv

-----------------------------------------------------------------------------
(* The part of the invariant about entries                                 *)

\* What a worker's finalisation makes of an entry whose claim it holds.
LEMMA FinalizedFields ==
  ASSUME TypeOK, NEW w \in Workers, NEW e \in Entries
  PROVE  /\ FinalizedEntry(w, e).attempts = outbox[e].attempts
         /\ e \in worker[w].successful => FinalizedEntry(w, e).status = "SENT"
         /\ e \notin worker[w].successful =>
              FinalizedEntry(w, e).status = ClaimedFailureStatus(outbox[e].attempts)
  BY EntryFields DEF FinalizedEntry, Entry

\* A finalisation marks SENT only what SNS accepted, and gives up only what has
\* no attempt left.
LEMMA FinalizingKeepsEntries ==
  ASSUME IInv, TypeOK', NEW w \in Workers, FinalizeBatch(w)
  PROVE  EntryInv'
  <1>0. PICK finalized : Finalizes(w, finalized)
    BY FinalizeIs DEF IInv
  <1>1. ASSUME NEW e \in Entries
        PROVE  /\ e \in finalized => /\ outbox[e].status = "PROCESSING"
                                     /\ outbox'[e] = FinalizedEntry(w, e)
               /\ e \notin finalized => outbox'[e] = outbox[e]
               /\ published'[e] <=> (published[e] \/ e \in finalized \cap worker[w].successful)
    BY <1>0 DEF Finalizes, PublishedAt, ClaimHeld, ClaimHeldAt
  <1>2. copies' = copies /\ replica' = replica /\ audited' = audited
    BY DEF FinalizeBatch
  <1>3. \A e \in Entries : outbox'[e].attempts = outbox[e].attempts
    BY <1>1, FinalizedFields DEF IInv
  <1>4. \A e \in Entries :
          \/ outbox'[e].status = outbox[e].status /\ (published'[e] <=> published[e])
          \/ /\ outbox[e].status = "PROCESSING"
             /\ outbox'[e].status = "SENT" /\ published'[e]
             /\ e \in worker[w].successful
          \/ /\ outbox[e].status = "PROCESSING" /\ (published'[e] <=> published[e])
             /\ outbox'[e].status = ClaimedFailureStatus(outbox[e].attempts)
    <2> TAKE e \in Entries
    <2>1. CASE e \notin finalized
      BY <1>1, <2>1
    <2>2. CASE e \in finalized /\ e \in worker[w].successful
      BY <1>1, <2>2, FinalizedFields DEF IInv
    <2>3. CASE e \in finalized /\ e \notin worker[w].successful
      BY <1>1, <2>3, FinalizedFields DEF IInv
    <2> QED BY <2>1, <2>2, <2>3
  <1>5. AbsentIsFresh'
    BY <1>3, <1>4 DEF AbsentIsFresh, IInv, EntryInv, ClaimedFailureStatus
  <1>6. ReplicaIsPast'
    BY <1>2, <1>4 DEF ReplicaIsPast, IInv, EntryInv
  <1>7. OneCallPerAttempt'
    BY <1>2, <1>3 DEF OneCallPerAttempt, IInv, EntryInv
  <1>8. SentWasDelivered'
    <2> SUFFICES ASSUME NEW e \in Entries
                 PROVE  /\ Sent(e)' => \E n \in Attempts : copies[e][n] > 0
                        /\ published'[e] <=> Sent(e)'
      BY <1>2 DEF SentWasDelivered
    <2>1. e \in worker[w].successful => \E n \in Attempts : copies[e][n] > 0
      BY DEF IInv, ClaimInv, SuccessfulWasDelivered
    <2>2. published[e] <=> Sent(e)
      BY DEF IInv, EntryInv, SentWasDelivered
    <2>3. Sent(e) => \E n \in Attempts : copies[e][n] > 0
      BY DEF IInv, EntryInv, SentWasDelivered
    <2> QED BY <1>4, <2>1, <2>2, <2>3 DEF Sent, ClaimedFailureStatus
  <1>9. PendingOrGivenUp'
    <2> SUFFICES ASSUME NEW e \in Entries
                 PROVE  /\ outbox'[e].status = "PENDING" => outbox'[e].attempts < MaxAttempts
                        /\ outbox'[e].status = "PERMANENT_FAILURE" =>
                             outbox'[e].attempts = MaxAttempts /\ ~published'[e]
                        /\ audited[e] > 0 => outbox'[e].status = "PERMANENT_FAILURE"
      BY <1>2 DEF PendingOrGivenUp
    <2>1. published[e] <=> Sent(e)
      BY DEF IInv, EntryInv, SentWasDelivered
    <2>2. outbox[e].attempts \in 0 .. MaxAttempts
      BY EntryFields DEF IInv
    <2> QED BY <1>3, <1>4, <2>1, <2>2, LimitAssumption
            DEF Sent, ClaimedFailureStatus, PendingOrGivenUp, IInv, EntryInv
  <1> QED BY <1>5, <1>6, <1>7, <1>8, <1>9 DEF EntryInv

\* An audit event is sent for an entry that is a permanent failure on the
\* primary, whichever member of the replica set answered.
LEMMA ReportingKeepsEntries ==
  ASSUME IInv, NEW w \in Workers, ReportFailures(w)
  PROVE  EntryInv'
  <1>1. /\ outbox' = outbox /\ copies' = copies
        /\ replica' = replica /\ published' = published
    BY DEF ReportFailures
  <1>2. ASSUME NEW e \in Entries, audited'[e] > 0
        PROVE  outbox[e].status = "PERMANENT_FAILURE"
    <2>1. CASE audited[e] > 0
      BY <2>1 DEF IInv, EntryInv, PendingOrGivenUp
    <2>2. CASE e \in ReadView
      BY <2>2 DEF ReadView, TerminalFailures, IInv, EntryInv, ReplicaIsPast
    <2>3. e \in ReadView \/ audited'[e] = audited[e]
      BY DEF ReportFailures
    <2> QED BY <1>2, <2>1, <2>2, <2>3
  <1>3. PendingOrGivenUp'
    BY <1>1, <1>2 DEF IInv, EntryInv, PendingOrGivenUp
  <1> QED BY <1>1, <1>3 DEF IInv, EntryInv, AbsentIsFresh, ReplicaIsPast,
             OneCallPerAttempt, SentWasDelivered, Sent

-----------------------------------------------------------------------------
(* The invariant                                                           *)

\* An empty outbox has no claim and no message.
LEMMA InitIInv == Init => IInv
  <1> SUFFICES ASSUME Init PROVE IInv
    OBVIOUS
  <1>1. TypeOK
    BY InitTypeOK
  <1>2. \A w \in Workers : worker[w].claims = <<>> /\ worker[w].successful = {}
    BY RestingWorker DEF Init
  <1>3. ClaimInv
    BY <1>2 DEF ClaimInv, ClaimsArePast, ClaimsAreDistinct, UnpublishedHasNoCopy,
                SuccessfulWasDelivered, ToPublish
  <1>4. \A e \in Entries : outbox[e].status = "ABSENT" /\ outbox[e].attempts = 0
    BY DEF Init, NoEntry
  <1>5. EntryInv
    BY <1>4, LimitAssumption DEF Init, EntryInv, AbsentIsFresh, ReplicaIsPast, OneCallPerAttempt,
                SentWasDelivered, PendingOrGivenUp, Sent
  <1> QED BY <1>1, <1>3, <1>5 DEF IInv

\* Steps that leave every worker alone.
LEMMA IdlingKeepsClaims ==
  ASSUME IInv, TypeOK', worker' = worker, copies' = copies,
         \A e \in Entries : outbox'[e].attempts = outbox[e].attempts
  PROVE  ClaimInv'
  <1>1. \A w \in Workers : KeepsSuffix(w)
    BY ClaimFields DEF KeepsSuffix, IInv
  <1> QED BY <1>1, DroppingClaims DEF IInv

\* Steps of a worker that only change its record, keeping all claims or none.
LEMMA WorkerStepKeepsClaims ==
  ASSUME IInv, TypeOK', NEW w \in Workers,
         copies' = copies, outbox' = outbox,
         \A v \in Workers \ {w} : worker'[v] = worker[v],
         worker'[w].claims \in {worker[w].claims, <<>>},
         worker'[w].claims # <<>> => worker[w].pc # "finalizing",
         worker'[w].successful \subseteq worker[w].successful
  PROVE  ClaimInv'
  <1>1. ASSUME NEW v \in Workers PROVE KeepsSuffix(v)
    <2>1. CASE v = w /\ worker'[w].claims = <<>>
      BY <2>1 DEF KeepsSuffix
    <2>2. CASE v = w /\ worker'[w].claims # <<>>
      <3>1. ASSUME NEW i \in DOMAIN worker'[v].claims
            PROVE  /\ i + 0 \in DOMAIN worker[v].claims
                   /\ worker'[v].claims[i] = worker[v].claims[i + 0]
                   /\ worker[v].pc # "finalizing"
        <4>1. worker'[v].claims = worker[v].claims
          BY <2>2
        <4>2. i + 0 = i
          BY <4>1, ClaimFields DEF IInv
        <4> QED BY <2>2, <4>1, <4>2
      <3> QED BY <3>1 DEF KeepsSuffix
    <2>3. CASE v # w
      BY <2>3, ClaimFields DEF KeepsSuffix, IInv
    <2> QED BY <2>1, <2>2, <2>3
  <1> QED BY <1>1, DroppingClaims DEF IInv

\* A finalisation drops the claims of its batch and disturbs no other.
LEMMA FinalizingKeepsClaims ==
  ASSUME IInv, TypeOK', NEW w \in Workers, FinalizeBatch(w)
  PROVE  ClaimInv'
  <1>1. worker[w].claims \in Seq(Claim)
    BY WorkerFields DEF IInv
  <1>2. /\ worker'[w].claims = AfterBatch(w)
        /\ worker'[w].successful = {}
        /\ worker'[w].pc # "finalizing"
        /\ \A v \in Workers \ {w} : worker'[v] = worker[v]
    <2>0. PICK finalized : Finalizes(w, finalized)
      BY FinalizeIs DEF IInv
    <2> DEFINE failed == {[entry |-> e,
                           status |-> ResolveFailedStatus(ClaimIn(w, e).attempt)] :
                            e \in finalized \ worker[w].successful}
               next == IF failed = {} THEN NextBatch(AfterBatch(w))
                       ELSE [Resting("reporting") EXCEPT !.claims = AfterBatch(w),
                                                         !.failed = failed]
    <2>1. worker' = [worker EXCEPT ![w] = next]
      BY <2>0 DEF Finalizes
    <2>2. /\ next.claims = AfterBatch(w) /\ next.successful = {}
          /\ next.pc # "finalizing"
      <3> HIDE DEF failed
      <3>1. CASE failed = {}
        BY <3>1, <1>1, AfterBatchShifts, NextBatchWorker
      <3>2. CASE failed # {}
        BY <3>2 DEF Resting
      <3> QED BY <3>1, <3>2
    <2>3. DOMAIN worker = Workers
      BY DEF IInv, TypeOK
    <2> HIDE DEF next
    <2> QED BY <2>1, <2>2, <2>3
  <1>3. \A e \in Entries : outbox'[e].attempts = outbox[e].attempts
    BY FinalizedFields, FinalizeIs DEF Finalizes, IInv
  <1>4. KeepsSuffix(w)
    BY <1>1, <1>2, AfterBatchShifts, LimitAssumption DEF KeepsSuffix
  <1>5. \A v \in Workers \ {w} : KeepsSuffix(v)
    BY <1>2, ClaimFields DEF KeepsSuffix, IInv
  <1>6. copies' = copies
    BY FinalizeIs DEF IInv
  <1> QED BY <1>2, <1>3, <1>4, <1>5, <1>6, DroppingClaims DEF IInv

\* A claim begins an attempt that has no message yet.
LEMMA ClaimingKeepsEntries ==
  ASSUME IInv, TypeOK', NEW w \in Workers, ClaimEntry(w)
  PROVE  EntryInv'
  <1>1. PICK e \in OldestClaimable(worker[w].now) :
          outbox' = [outbox EXCEPT ![e].status = "PROCESSING",
                                   ![e].claimedUntil = worker[w].now + Lease,
                                   ![e].claimedBy = w,
                                   ![e].attempts = @ + 1]
    BY DEF ClaimEntry
  <1>2. e \in Entries /\ outbox[e].status \in {"PENDING", "PROCESSING"}
    BY DEF OldestClaimable, Claimable
  <1>3. /\ outbox'[e].status = "PROCESSING"
        /\ outbox'[e].attempts = outbox[e].attempts + 1
        /\ \A f \in Entries \ {e} : outbox'[f] = outbox[f]
    BY <1>1, <1>2 DEF IInv, TypeOK, Entry
  <1>4. /\ copies' = copies /\ replica' = replica
        /\ published' = published /\ audited' = audited
    BY DEF ClaimEntry
  <1>5. AbsentIsFresh'
    BY <1>2, <1>3 DEF AbsentIsFresh, IInv, EntryInv
  <1>6. ReplicaIsPast'
    BY <1>2, <1>3, <1>4 DEF ReplicaIsPast, IInv, EntryInv
  <1>7. OneCallPerAttempt'
    <2> SUFFICES ASSUME NEW f \in Entries, NEW n \in Attempts, copies[f][n] > 0
                 PROVE  n <= outbox'[f].attempts
      BY <1>4 DEF OneCallPerAttempt, IInv, EntryInv
    <2>1. n <= outbox[f].attempts /\ n \in Nat
      BY LimitAssumption DEF OneCallPerAttempt, IInv, EntryInv, Attempts
    <2> QED BY <2>1, <1>3, EntryFields DEF IInv
  <1>8. SentWasDelivered'
    BY <1>2, <1>3, <1>4 DEF SentWasDelivered, Sent, IInv, EntryInv
  <1>9. PendingOrGivenUp'
    BY <1>2, <1>3, <1>4 DEF PendingOrGivenUp, IInv, EntryInv
  <1> QED BY <1>5, <1>6, <1>7, <1>8, <1>9 DEF EntryInv

\* Every action keeps entries, claims and messages in agreement.
LEMMA NextIInv == IInv /\ [Next]_vars => IInv'
  <1> SUFFICES ASSUME IInv, [Next]_vars PROVE IInv'
    OBVIOUS
  <1>0. TypeOK'
    BY NextTypeOK DEF IInv
  <1> SUFFICES ClaimInv' /\ EntryInv'
    BY <1>0 DEF IInv
  <1>a. DOMAIN worker = Workers /\ DOMAIN outbox = Entries
    BY DEF IInv, TypeOK
  <1>b. ASSUME outbox' = outbox, replica' = replica, published' = published,
               copies' = copies, audited' = audited
        PROVE  EntryInv'
    BY <1>b DEF IInv, EntryInv, AbsentIsFresh, ReplicaIsPast, OneCallPerAttempt,
                SentWasDelivered, PendingOrGivenUp, Sent
  <1>1. ASSUME NEW w \in Workers, StartRun(w) PROVE ClaimInv' /\ EntryInv'
    <2>1. /\ worker'[w].claims = worker[w].claims
          /\ worker'[w].successful = worker[w].successful
          /\ worker[w].pc = "idle"
          /\ \A v \in Workers \ {w} : worker'[v] = worker[v]
      BY <1>1, <1>a, WorkerFields DEF StartRun, IInv, Worker
    <2>2. UNCHANGED <<outbox, replica, published, copies, audited>>
      BY <1>1 DEF StartRun
    <2> QED BY <1>0, <1>b, <2>1, <2>2, WorkerStepKeepsClaims
  <1>2. ASSUME NEW w \in Workers, ClaimEntry(w) PROVE ClaimInv' /\ EntryInv'
    BY <1>0, <1>2, ClaimingKeepsClaims, ClaimingKeepsEntries
  <1>3. ASSUME NEW w \in Workers, StopClaiming(w) PROVE ClaimInv' /\ EntryInv'
    <2>1. /\ worker'[w].claims = worker[w].claims
          /\ worker'[w].successful = {}
          /\ worker[w].pc = "claiming"
          /\ \A v \in Workers \ {w} : worker'[v] = worker[v]
      BY <1>3, <1>a, WorkerFields, NextBatchWorker DEF StopClaiming, IInv
    <2>2. UNCHANGED <<outbox, replica, published, copies, audited>>
      BY <1>3 DEF StopClaiming
    <2> QED BY <1>0, <1>b, <2>1, <2>2, WorkerStepKeepsClaims
  <1>4. ASSUME NEW w \in Workers, PublishBatch(w) PROVE ClaimInv' /\ EntryInv'
    <2>1. ClaimInv' /\ OneCallPerAttempt'
      BY <1>0, <1>4, PublishingKeepsClaims
    <2>2. UNCHANGED <<outbox, replica, published, audited>>
      BY <1>4 DEF PublishBatch
    <2>0. PICK sent, ok : Publishes(w, sent, ok)
      BY <1>4, PublishIs
    <2>3. \A e \in Entries, n \in Attempts : copies[e][n] > 0 => copies'[e][n] > 0
      <3> SUFFICES ASSUME NEW e \in Entries, NEW n \in Attempts, copies[e][n] > 0
                   PROVE  copies'[e][n] > 0
        OBVIOUS
      <3>1. copies[e] \in [Attempts -> Nat]
        BY DEF IInv, TypeOK
      <3>2. \/ copies'[e] = copies[e]
            \/ /\ copies'[e] = [copies[e] EXCEPT ![ClaimIn(w, e).attempt] = @ + sent[e]]
               /\ sent[e] \in Nat
        BY <2>0, LimitAssumption DEF Publishes
      <3> QED BY <3>1, <3>2
    <2>4. SentWasDelivered'
      BY <2>2, <2>3 DEF IInv, EntryInv, SentWasDelivered, Sent
    <2> QED BY <2>1, <2>2, <2>4
            DEF IInv, EntryInv, AbsentIsFresh, ReplicaIsPast, PendingOrGivenUp
  <1>5. ASSUME NEW w \in Workers, FinalizeBatch(w) PROVE ClaimInv' /\ EntryInv'
    BY <1>0, <1>5, FinalizingKeepsClaims, FinalizingKeepsEntries
  <1>6. ASSUME NEW w \in Workers, ReportFailures(w) PROVE ClaimInv' /\ EntryInv'
    <2>1. /\ worker'[w].claims = worker[w].claims
          /\ worker'[w].successful = {}
          /\ worker[w].pc = "reporting"
          /\ \A v \in Workers \ {w} : worker'[v] = worker[v]
      BY <1>6, <1>a, WorkerFields, NextBatchWorker DEF ReportFailures, IInv
    <2>2. UNCHANGED <<outbox, copies>>
      BY <1>6 DEF ReportFailures
    <2> QED BY <1>0, <1>6, <2>1, <2>2, WorkerStepKeepsClaims, ReportingKeepsEntries
  <1>7. ASSUME NEW w \in Workers, Fault(w) PROVE ClaimInv' /\ EntryInv'
    <2>1. /\ worker'[w].claims = <<>> /\ worker'[w].successful = {}
          /\ \A v \in Workers \ {w} : worker'[v] = worker[v]
      BY <1>7, <1>a, RestingWorker DEF Fault, RunThrows, Crash, Restart
    <2>2. UNCHANGED <<outbox, replica, published, copies, audited>>
      BY <1>7 DEF Fault, RunThrows, Crash, Restart
    <2> QED BY <1>0, <1>b, <2>1, <2>2, WorkerStepKeepsClaims
  <1>8. CASE Tick \/ UNCHANGED vars
    <2>1. UNCHANGED <<outbox, replica, published, copies, audited, worker>>
      BY <1>8 DEF Tick, vars
    <2> QED BY <1>0, <1>b, <2>1, IdlingKeepsClaims
  <1>9. CASE Replicate
    <2>1. UNCHANGED <<outbox, published, copies, audited, worker>>
      BY <1>9 DEF Replicate
    <2>2. ReplicaIsPast'
      BY <1>9 DEF Replicate, TerminalFailures, ReplicaIsPast
    <2> QED BY <1>0, <2>1, <2>2, IdlingKeepsClaims
            DEF IInv, EntryInv, AbsentIsFresh, OneCallPerAttempt, SentWasDelivered,
                PendingOrGivenUp, Sent
  <1>10. ASSUME NEW e \in Entries, CreateOutboxEntry(e) \/ ExpireSent(e)
         PROVE  ClaimInv' /\ EntryInv'
    <2>1. UNCHANGED <<replica, published, copies, audited, worker>>
      BY <1>10 DEF CreateOutboxEntry, ExpireSent
    <2>2. /\ outbox'[e].attempts = outbox[e].attempts
          /\ \A f \in Entries \ {e} : outbox'[f] = outbox[f]
          /\ \/ outbox[e].status = "ABSENT" /\ outbox'[e].status = "PENDING"
             \/ outbox[e].status = "SENT" /\ outbox'[e].status = "DELETED"
      BY <1>10, <1>a, EntryFields DEF CreateOutboxEntry, ExpireSent, IInv, Entry
    <2>3. \A f \in Entries : outbox'[f].attempts = outbox[f].attempts
      BY <2>2
    <2>4. SentWasDelivered' /\ AbsentIsFresh' /\ ReplicaIsPast'
      BY <2>1, <2>2 DEF IInv, EntryInv, SentWasDelivered, Sent, AbsentIsFresh,
                        ReplicaIsPast
    <2>5. OneCallPerAttempt'
      BY <2>1, <2>3 DEF IInv, EntryInv, OneCallPerAttempt
    <2>6. PendingOrGivenUp'
      BY <2>1, <2>2, LimitAssumption
         DEF IInv, EntryInv, PendingOrGivenUp, AbsentIsFresh
    <2> QED BY <1>0, <2>1, <2>3, <2>4, <2>5, <2>6, IdlingKeepsClaims DEF EntryInv
  <1> QED
    BY <1>1, <1>2, <1>3, <1>4, <1>5, <1>6, <1>7, <1>8, <1>9, <1>10
    DEF Next, RunStep, Environment

\* The inductive invariant holds of every reachable state.
THEOREM Invariance == Spec => []IInv
  BY InitIInv, NextIInv, PTL DEF Spec

\* No entry is marked SENT, and no file's metadata published, before SNS has
\* accepted its message; the two marks always agree.
THEOREM SentIsDelivered == Spec => []SentWasDelivered
  <1>1. IInv => SentWasDelivered
    BY DEF IInv, EntryInv
  <1> QED BY <1>1, Invariance, PTL

\* However often claims expire, are taken over or outlive their run, an attempt is
\* published in one call of the SNS client, and only once it has been claimed: it puts
\* no more messages on the topic than that call sends requests.
THEOREM DeliveriesAreBounded == Spec => []OneCallPerAttempt
  <1>1. IInv => OneCallPerAttempt
    BY DEF IInv, EntryInv
  <1> QED BY <1>1, Invariance, PTL

\* A PENDING entry has an attempt left; one that was given up, and only such a
\* one is audited as failed, has used them all and was never marked published.
THEOREM FailureIsDeserved == Spec => []PendingOrGivenUp
  <1>1. IInv => PendingOrGivenUp
    BY DEF IInv, EntryInv
  <1> QED BY <1>1, Invariance, PTL

-----------------------------------------------------------------------------
(* Outcomes are final                                                      *)

\* SENT and PERMANENT_FAILURE are final, whoever holds which claim and however
\* leases are timed, and no attempt is given back.
THEOREM FinalOutcome == Spec => OutcomeIsFinal
  <1> DEFINE Final == \A e \in Entries :
                        /\ Sent(e) => Sent(e)'
                        /\ outbox[e].status = "PERMANENT_FAILURE" => UNCHANGED outbox[e]
                        /\ outbox[e].attempts <= outbox'[e].attempts
  <1>1. IInv /\ [Next]_vars => [Final]_vars
    <2> SUFFICES ASSUME IInv, Next PROVE Final
      OBVIOUS
    <2> USE DEF Final, Sent
    <2>0. DOMAIN outbox = Entries /\ \A e \in Entries : outbox[e].attempts \in Nat
      BY EntryFields DEF IInv, TypeOK
    <2>1. ASSUME outbox' = outbox PROVE Final
      BY <2>0, <2>1
    <2>2. ASSUME NEW w \in Workers, ClaimEntry(w) PROVE Final
      <3>1. PICK e \in OldestClaimable(worker[w].now) :
              outbox' = [outbox EXCEPT ![e].status = "PROCESSING",
                                       ![e].claimedUntil = worker[w].now + Lease,
                                       ![e].claimedBy = w,
                                       ![e].attempts = @ + 1]
        BY <2>2 DEF ClaimEntry
      <3>2. e \in Entries /\ outbox[e].status \in {"PENDING", "PROCESSING"}
        BY DEF OldestClaimable, Claimable
      <3>3. /\ outbox'[e].attempts = outbox[e].attempts + 1
            /\ \A f \in Entries \ {e} : outbox'[f] = outbox[f]
        BY <3>1, <3>2 DEF IInv, TypeOK, Entry
      <3> QED BY <2>0, <3>2, <3>3
    <2>3. ASSUME NEW w \in Workers, FinalizeBatch(w) PROVE Final
      <3>0. PICK finalized : Finalizes(w, finalized)
        BY <2>3, FinalizeIs DEF IInv
      <3> TAKE e \in Entries
      <3>1. \/ outbox'[e] = outbox[e]
            \/ /\ outbox[e].status = "PROCESSING"
               /\ outbox'[e] = FinalizedEntry(w, e)
        BY <3>0 DEF Finalizes, ClaimHeld, ClaimHeldAt
      <3> QED BY <2>0, <3>1, FinalizedFields DEF IInv
    <2>4. ASSUME NEW e \in Entries, CreateOutboxEntry(e) \/ ExpireSent(e) PROVE Final
      <3>1. /\ outbox'[e].attempts = outbox[e].attempts
            /\ \A f \in Entries \ {e} : outbox'[f] = outbox[f]
            /\ \/ outbox[e].status = "ABSENT" /\ outbox'[e].status = "PENDING"
               \/ outbox[e].status = "SENT" /\ outbox'[e].status = "DELETED"
        BY <2>4, <2>0, EntryFields DEF CreateOutboxEntry, ExpireSent, IInv, Entry
      <3> QED BY <2>0, <3>1
    <2> HIDE DEF Final
    <2> QED BY <2>1, <2>2, <2>3, <2>4
            DEF Next, RunStep, Fault, Environment, StartRun, StopClaiming,
                PublishBatch, ReportFailures, RunThrows, Crash, Restart, Tick,
                Replicate
  <1> QED BY <1>1, Invariance, PTL DEF Spec, OutcomeIsFinal

-----------------------------------------------------------------------------
(* The promise of Delivery is kept                                         *)

\* FileView is a function of the entry's status, attempts and copies.
LEMMA SameView ==
  ASSUME NEW e \in Entries, outbox'[e].status = outbox[e].status,
         outbox'[e].attempts = outbox[e].attempts, copies'[e] = copies[e]
  PROVE  FileView(e)' = FileView(e)
  BY DEF FileView, FilePhase, Sent

\* Seen from one file, every action is a step of the promise or none.
LEMMA StepKeepsPromise ==
  ASSUME IInv, IInv', [Next]_vars, NEW e \in Entries
  PROVE  FileView(e)' = FileView(e) \/ Promise!FileStep(FileView(e), FileView(e)')
  <1> DEFINE s == FileView(e)
             t == FileView(e)'
  <1>0. /\ s = [phase |-> s.phase, tries |-> s.tries, delivered |-> s.delivered]
        /\ t = [phase |-> t.phase, tries |-> t.tries, delivered |-> t.delivered]
        /\ s.phase = FilePhase(e) /\ t.phase = FilePhase(e)'
        /\ s.tries = outbox[e].attempts /\ t.tries = outbox'[e].attempts
        /\ s.delivered = {n \in Attempts : copies[e][n] > 0}
        /\ t.delivered = {n \in Attempts : copies'[e][n] > 0}
    BY DEF FileView
  <1>same. ASSUME outbox'[e].status = outbox[e].status,
                  outbox'[e].attempts = outbox[e].attempts, copies'[e] = copies[e]
           PROVE  s = t
    BY <1>same, SameView
  <1> HIDE DEF s, t
  <1>1. /\ outbox[e] \in Entry /\ copies[e] \in [Attempts -> Nat]
        /\ outbox[e].attempts \in 0 .. MaxAttempts
        /\ DOMAIN outbox = Entries
    BY EntryFields DEF IInv, TypeOK
  <1>2. ASSUME outbox'[e] = outbox[e], copies'[e] = copies[e] PROVE s = t
    BY <1>2, <1>same
  <1>3. ASSUME NEW w \in Workers, ClaimEntry(w) PROVE s = t \/ Promise!Try(s, t)
    <2>1. PICK f \in OldestClaimable(worker[w].now) :
            outbox' = [outbox EXCEPT ![f].status = "PROCESSING",
                                     ![f].claimedUntil = worker[w].now + Lease,
                                     ![f].claimedBy = w,
                                     ![f].attempts = @ + 1]
      BY <1>3 DEF ClaimEntry
    <2>2. copies' = copies
      BY <1>3 DEF ClaimEntry
    <2>3. CASE f # e
      BY <2>1, <2>2, <2>3, <1>1, <1>same
    <2>4. CASE f = e
      <3>1. /\ outbox[e].status \in {"PENDING", "PROCESSING"}
            /\ outbox[e].attempts < MaxAttempts
        BY <2>4 DEF OldestClaimable, Claimable
      <3>2. outbox'[e].status = "PROCESSING" /\ outbox'[e].attempts = outbox[e].attempts + 1
        BY <2>1, <2>4, <1>1 DEF Entry
      <3>3. s.phase = "waiting" /\ t.phase = "waiting"
        BY <1>0, <3>1, <3>2 DEF FilePhase, Sent
      <3> QED BY <1>0, <2>2, <3>1, <3>2, <3>3 DEF Promise!Try
    <2> QED BY <2>3, <2>4
  <1>4. ASSUME NEW w \in Workers, PublishBatch(w) PROVE s = t \/ Promise!Deliver(s, t)
    <2>1. PICK sent, ok : Publishes(w, sent, ok)
      BY <1>4, PublishIs
    <2>2. outbox' = outbox /\ worker[w].pc = "publishing"
      BY <1>4 DEF PublishBatch
    <2>3. CASE e \in BatchEntries(w) => sent[e] = 0
      <3>1. copies'[e] = copies[e]
        BY <2>1, <2>3, UnsentIsUnchanged DEF IInv
      <3> QED BY <2>2, <3>1, <1>same
    <2>4. CASE e \in BatchEntries(w) /\ sent[e] # 0
      <3>0. sent[e] \in Nat /\ sent[e] > 0 /\ ~ HasRepeatedId(w)
        BY <2>1, <2>4, LimitAssumption DEF Publishes
      <3>1. PICK i \in BatchIndices(w) :
              worker[w].claims[i].entry = e /\ ClaimIn(w, e) = worker[w].claims[i]
        BY <2>4, <3>0, ClaimInBatch DEF IInv
      <3> DEFINE n == worker[w].claims[i].attempt
      <3>2. i \in ToPublish(w) /\ i \in DOMAIN worker[w].claims
        BY <2>2 DEF ToPublish, BatchIndices
      <3>3. copies[e][n] = 0
        BY <3>1, <3>2 DEF IInv, ClaimInv, UnpublishedHasNoCopy
      <3>4. n \in Attempts /\ n \in 1 .. outbox[e].attempts
        <4>1. n \in Attempts /\ n <= outbox[e].attempts
          BY <3>1, <3>2, ClaimFields DEF IInv, ClaimInv, ClaimsArePast
        <4> QED BY <4>1, <1>1, LimitAssumption DEF Attempts
      <3>5. copies'[e] = [copies[e] EXCEPT ![n] = copies[e][n] + sent[e]]
        BY <2>1, <2>4, <3>1 DEF Publishes
      <3> HIDE DEF n
      <3>6. {m \in Attempts : copies'[e][m] > 0} =
              {m \in Attempts : copies[e][m] > 0} \cup {n}
        BY <3>0, <3>3, <3>4, <3>5, <1>1
      <3>7. t.phase = s.phase /\ t.tries = s.tries
        BY <1>0, <2>2 DEF FilePhase, Sent
      <3>8. n \in (1 .. s.tries) \ s.delivered
        BY <1>0, <3>3, <3>4, <1>1
      <3>9. t = [s EXCEPT !.delivered = @ \cup {n}]
        BY <1>0, <3>6, <3>7
      <3> QED BY <3>8, <3>9 DEF Promise!Deliver
    <2> QED BY <2>3, <2>4
  <1>5. ASSUME NEW w \in Workers, FinalizeBatch(w)
        PROVE  s = t \/ Promise!Succeed(s, t) \/ Promise!GiveUp(s, t)
    <2>0. PICK finalized : Finalizes(w, finalized)
      BY <1>5, FinalizeIs DEF IInv
    <2>1. \/ outbox'[e] = outbox[e]
          \/ outbox[e].status = "PROCESSING" /\ outbox'[e] = FinalizedEntry(w, e)
      BY <2>0 DEF Finalizes, ClaimHeld, ClaimHeldAt
    <2>2. copies' = copies
      BY <1>5, FinalizeIs DEF IInv
    <2>3. CASE outbox'[e] = outbox[e]
      BY <2>2, <2>3, <1>same
    <2>4. CASE outbox[e].status = "PROCESSING" /\ outbox'[e] = FinalizedEntry(w, e)
      <3>1. s.phase = "waiting" /\ t.tries = s.tries /\ t.delivered = s.delivered
        BY <1>0, <2>2, <2>4, FinalizedFields DEF FilePhase, Sent, IInv
      <3>2. CASE e \in worker[w].successful
        <4>1. outbox'[e].status = "SENT"
          BY <2>4, <3>2, FinalizedFields DEF IInv
        <4>2. t.phase = "sent"
          BY <1>0, <4>1 DEF FilePhase, Sent
        <4>3. s.delivered # {}
          BY <1>0, <3>2 DEF IInv, ClaimInv, SuccessfulWasDelivered
        <4>4. t = [s EXCEPT !.phase = "sent"]
          BY <1>0, <3>1, <4>2
        <4> QED BY <3>1, <4>3, <4>4 DEF Promise!Succeed
      <3>3. CASE e \notin worker[w].successful /\ outbox[e].attempts >= MaxAttempts
        <4>1. outbox'[e].status = "PERMANENT_FAILURE"
          BY <2>4, <3>3, FinalizedFields DEF IInv, ClaimedFailureStatus
        <4>2. t.phase = "failed"
          BY <1>0, <4>1 DEF FilePhase, Sent
        <4>3. s.tries = MaxAttempts
          BY <1>0, <3>3, <1>1, LimitAssumption
        <4>4. t = [s EXCEPT !.phase = "failed"]
          BY <1>0, <3>1, <4>2
        <4> QED BY <3>1, <4>3, <4>4 DEF Promise!GiveUp
      <3>4. CASE e \notin worker[w].successful /\ ~(outbox[e].attempts >= MaxAttempts)
        <4>1. outbox'[e].status = "PENDING"
          BY <2>4, <3>4, FinalizedFields DEF IInv, ClaimedFailureStatus
        <4>2. t.phase = "waiting"
          BY <1>0, <4>1 DEF FilePhase, Sent
        <4> QED BY <1>0, <3>1, <4>2
      <3> QED BY <3>2, <3>3, <3>4
    <2> QED BY <2>1, <2>3, <2>4
  <1>6. ASSUME CreateOutboxEntry(e) PROVE Promise!Submit(s, t)
    <2>1. /\ outbox[e].status = "ABSENT" /\ outbox'[e].status = "PENDING"
          /\ outbox'[e].attempts = outbox[e].attempts /\ copies' = copies
      BY <1>6, <1>1 DEF CreateOutboxEntry, Entry
    <2>2. s.phase = "none" /\ t.phase = "waiting"
      BY <1>0, <2>1 DEF FilePhase, Sent
    <2> QED BY <1>0, <2>1, <2>2 DEF Promise!Submit
  <1>7. ASSUME ExpireSent(e) PROVE s = t
    <2>1. /\ outbox[e].status = "SENT" /\ outbox'[e].status = "DELETED"
          /\ outbox'[e].attempts = outbox[e].attempts /\ copies' = copies
      BY <1>7, <1>1 DEF ExpireSent, Entry
    <2> QED BY <1>0, <2>1 DEF FilePhase, Sent
  <1>8. \/ UNCHANGED <<outbox, copies>>
        \/ \E w \in Workers : ClaimEntry(w) \/ PublishBatch(w) \/ FinalizeBatch(w)
        \/ CreateOutboxEntry(e) \/ ExpireSent(e)
        \/ outbox'[e] = outbox[e] /\ copies'[e] = copies[e]
    <2>1. ASSUME NEW f \in Entries, f # e, CreateOutboxEntry(f) \/ ExpireSent(f)
          PROVE  outbox'[e] = outbox[e] /\ copies'[e] = copies[e]
      BY <2>1, <1>1 DEF CreateOutboxEntry, ExpireSent
    <2> QED BY <2>1 DEF Next, RunStep, Fault, Environment, StartRun, StopClaiming,
                        ReportFailures, RunThrows, Crash, Restart, Tick, Replicate, vars
  <1>9. s = t \/ Promise!FileStep(s, t)
    BY <1>2, <1>3, <1>4, <1>5, <1>6, <1>7, <1>8 DEF Promise!FileStep
  <1> QED BY <1>9 DEF s, t

\* The outbox implements Delivery: for every file, at least once or an explicit
\* failure, within MaxAttempts tries, each of which is published only once claimed.
THEOREM Refinement == Spec => KeepsPromise
  <1>1. Init => Promise!Init
    <2> SUFFICES ASSUME Init, NEW e \in Entries
                 PROVE  FileView(e) = [phase |-> "none", tries |-> 0, delivered |-> {}]
      BY DEF Promise!Init
    <2>1. /\ outbox[e].status = "ABSENT" /\ outbox[e].attempts = 0
          /\ \A n \in Attempts : copies[e][n] = 0
      BY DEF Init, NoEntry
    <2>2. FilePhase(e) = "none"
      BY <2>1 DEF FilePhase, Sent
    <2> QED BY <2>1, <2>2 DEF FileView
  <1>2. IInv /\ IInv' /\ [Next]_vars => [Promise!Next]_([e \in Entries |-> FileView(e)])
    <2> SUFFICES ASSUME IInv, IInv', [Next]_vars PROVE Promise!Next
      OBVIOUS
    <2> QED BY StepKeepsPromise DEF Promise!Next
  <1> QED BY <1>1, <1>2, Invariance, PTL DEF Spec, KeepsPromise, Promise!Spec

-----------------------------------------------------------------------------
(* What a status request sees of an entry                                  *)

\* An entry that stays as it is looks as it did.
LEMMA SameEntryView ==
  ASSUME NEW e, outbox'[e] = outbox[e], published'[e] = published[e]
  PROVE  EntryView(e)' = EntryView(e)
  BY DEF EntryView

\* A finalisation is a delivery, a failure or no event for each entry of its batch.
LEMMA FinalizingMovesOn ==
  ASSUME IInv, NEW w \in Workers, FinalizeBatch(w), NEW e \in Entries
  PROVE  EntryView(e)' = EntryView(e) \/ Life!FileStep(EntryView(e), EntryView(e)')
  <1>0. PICK finalized : Finalizes(w, finalized)
    BY FinalizeIs DEF IInv
  <1>1. /\ outbox'[e] = IF e \in finalized THEN FinalizedEntry(w, e) ELSE outbox[e]
        /\ published'[e] = (published[e] \/ e \in finalized \cap worker[w].successful)
        /\ e \in finalized => outbox[e].status = "PROCESSING"
    BY <1>0 DEF Finalizes, PublishedAt, ClaimHeld, ClaimHeldAt
  <1>2. published[e] \in BOOLEAN
    BY DEF IInv, TypeOK
  <1>3. CASE e \notin finalized
    <2>1. published'[e] = published[e]
      BY <1>1, <1>2, <1>3
    <2> QED BY <1>1, <1>3, <2>1, SameEntryView
  <1>4. CASE e \in finalized /\ e \in worker[w].successful
    <2>1. outbox'[e].status = "SENT" /\ published'[e] = TRUE
      BY <1>1, <1>4, FinalizedFields DEF IInv
    <2>2. EntryView(e)' = [status |-> "SENT", published |-> TRUE]
      BY <2>1 DEF EntryView
    <2>3. EntryView(e).status = "PENDING"
      BY <1>1, <1>4 DEF EntryView
    <2> QED BY <2>2, <2>3 DEF Life!FileStep, Life!Deliver
  <1>5. CASE e \in finalized /\ e \notin worker[w].successful
    <2>1. /\ outbox'[e].status = ClaimedFailureStatus(outbox[e].attempts)
          /\ published'[e] = published[e]
      BY <1>1, <1>2, <1>5, FinalizedFields DEF IInv
    <2>2. EntryView(e) = [status |-> "PENDING", published |-> published[e]]
      BY <1>1, <1>5 DEF EntryView
    <2>3. CASE outbox'[e].status = "PENDING"
      BY <2>1, <2>2, <2>3 DEF EntryView
    <2>4. CASE outbox'[e].status = "PERMANENT_FAILURE"
      <3>1. EntryView(e)' = [status |-> "PERMANENT_FAILURE", published |-> published[e]]
        BY <2>1, <2>4 DEF EntryView
      <3> QED BY <2>2, <3>1 DEF Life!FileStep, Life!GiveUp
    <2> QED BY <2>1, <2>3, <2>4 DEF ClaimedFailureStatus
  <1> QED BY <1>3, <1>4, <1>5

\* So is every other step: claims do not show.
LEMMA StepKeepsLife ==
  ASSUME IInv, [Next]_vars, NEW e \in Entries
  PROVE  EntryView(e)' = EntryView(e) \/ Life!FileStep(EntryView(e), EntryView(e)')
  <1>1. DOMAIN outbox = Entries /\ \A f \in Entries : outbox[f] \in Entry
    BY EntryFields DEF IInv, TypeOK
  <1>2. ASSUME NEW w \in Workers, RunStep(w), ~ClaimEntry(w), ~FinalizeBatch(w)
        PROVE  EntryView(e)' = EntryView(e)
    <2>1. UNCHANGED <<outbox, published>>
      BY <1>2 DEF RunStep, StartRun, StopClaiming, PublishBatch, ReportFailures
    <2> QED BY <2>1, SameEntryView
  <1>3. ASSUME NEW w \in Workers, ClaimEntry(w) PROVE EntryView(e)' = EntryView(e)
    <2>1. PICK f \in Entries :
            /\ Claimable(f, worker[w].now)
            /\ outbox'[f].status = "PROCESSING"
            /\ \A g \in Entries \ {f} : outbox'[g] = outbox[g]
      <3>1. PICK f \in OldestClaimable(worker[w].now) :
              outbox' = [outbox EXCEPT ![f].status = "PROCESSING",
                                       ![f].claimedUntil = worker[w].now + Lease,
                                       ![f].claimedBy = w,
                                       ![f].attempts = @ + 1]
        BY <1>3 DEF ClaimEntry
      <3>2. f \in Entries /\ Claimable(f, worker[w].now)
        BY DEF OldestClaimable
      <3> QED BY <1>1, <3>1, <3>2 DEF Entry
    <2>2. published' = published
      BY <1>3 DEF ClaimEntry
    <2>3. CASE e = f
      BY <2>1, <2>2, <2>3 DEF EntryView, Claimable
    <2>4. CASE e # f
      BY <2>1, <2>2, <2>4, SameEntryView
    <2> QED BY <2>3, <2>4
  <1>4. ASSUME NEW w \in Workers, Fault(w) PROVE EntryView(e)' = EntryView(e)
    BY <1>4, SameEntryView DEF Fault, RunThrows, Crash, Restart
  <1>5. CASE Tick \/ Replicate \/ UNCHANGED vars
    BY <1>5, SameEntryView DEF Tick, Replicate, vars
  <1>6. ASSUME NEW f \in Entries, CreateOutboxEntry(f) \/ ExpireSent(f)
        PROVE  EntryView(e)' = EntryView(e) \/ Life!FileStep(EntryView(e), EntryView(e)')
    <2>1. published' = published /\ \A g \in Entries \ {f} : outbox'[g] = outbox[g]
      BY <1>1, <1>6 DEF CreateOutboxEntry, ExpireSent
    <2>2. CASE e # f
      BY <2>1, <2>2, SameEntryView
    <2>3. CASE e = f /\ CreateOutboxEntry(f)
      <3>1. outbox[e].status = "ABSENT" /\ outbox'[e].status = "PENDING"
        BY <1>1, <2>3 DEF CreateOutboxEntry, Entry
      <3> QED BY <2>1, <3>1 DEF EntryView, Life!FileStep, Life!Insert
    <2>4. CASE e = f /\ ExpireSent(f)
      <3>1. outbox[e].status = "SENT" /\ outbox'[e].status = "DELETED"
        BY <1>1, <2>4 DEF ExpireSent, Entry
      <3> QED BY <2>1, <3>1 DEF EntryView, Life!FileStep, Life!Expire
    <2> QED BY <1>6, <2>2, <2>3, <2>4
  <1> QED
    BY <1>2, <1>3, <1>4, <1>5, <1>6, FinalizingMovesOn DEF Next, Environment

\* For any workers, leases, limits and crashes: what a status request sees of an
\* entry is the course of EntryLife, which UploadVerdict relies on.
THEOREM OutboxImplementsLife == Spec => KeepsEntryLife
  <1>1. Init => Life!Init
    <2> SUFFICES ASSUME Init, NEW e \in Entries
                 PROVE  EntryView(e) = [status |-> "ABSENT", published |-> FALSE]
      BY DEF Life!Init
    <2>1. outbox[e].status = "ABSENT" /\ published[e] = FALSE
      BY DEF Init, NoEntry
    <2> QED BY <2>1 DEF EntryView
  <1>2. IInv /\ [Next]_vars => [Life!Next]_([e \in Entries |-> EntryView(e)])
    <2> SUFFICES ASSUME IInv, [Next]_vars PROVE Life!Next
      OBVIOUS
    <2> QED BY StepKeepsLife DEF Life!Next
  <1> QED BY <1>1, <1>2, Invariance, PTL DEF Spec, KeepsEntryLife, Life!Spec

-----------------------------------------------------------------------------
(* What each action does to the records of the workers                     *)

\* All other workers keep their records.
OthersKeep(w) == \A v \in Workers \ {w} : worker'[v] = worker[v]

\* The claims and the failures of w stay as they are, and so does the outbox.
KeepsClaims(w) ==
  /\ OthersKeep(w)
  /\ worker'[w].claims = worker[w].claims
  /\ worker'[w].pc # "down" /\ worker[w].pc # "down"
  /\ UNCHANGED <<clock, outbox, faults>>

\* Going on after a batch or after the claim loop leaves the rest of a record empty.
LEMMA NextBatchRests ==
  ASSUME NEW claims \in Seq(Claim)
  PROVE  /\ NextBatch(claims).failed = {} /\ NextBatch(claims).now = 0
         /\ NextBatch(claims).pc \in {"idle", "publishing"}
         /\ NextBatch(claims).claims = claims
         /\ NextBatch(claims).pc = "idle" => claims = <<>>
  BY NextBatchWorker DEF NextBatch, Resting

\* A run begins with the claims its worker rested with.
LEMMA StartEffect ==
  ASSUME IInv, NEW w \in Workers, StartRun(w)
  PROVE  /\ KeepsClaims(w)
         /\ worker[w].pc = "idle"
         /\ worker'[w].pc = "claiming" /\ worker'[w].now = Now(w)
         /\ worker'[w].failed = worker[w].failed
         /\ audited' = audited
  <1>1. DOMAIN worker = Workers /\ worker[w] \in Worker
    BY WorkerFields DEF IInv, TypeOK
  <1> QED BY <1>1 DEF StartRun, KeepsClaims, OthersKeep, Worker

\* A claim is appended to those of its worker, under the attempt it begins.
LEMMA ClaimEffect ==
  ASSUME IInv, NEW w \in Workers, ClaimEntry(w)
  PROVE  \E e \in Entries :
           /\ Claimable(e, worker[w].now)
           /\ outbox'[e].status = "PROCESSING"
           /\ outbox'[e].claimedBy = w
           /\ outbox'[e].claimedUntil = worker[w].now + Lease
           /\ outbox'[e].attempts = outbox[e].attempts + 1
           /\ \A f \in Entries \ {e} : outbox'[f] = outbox[f]
           /\ ClaimsOf(w)' = ClaimsOf(w)
                               \cup {[entry |-> e, attempt |-> outbox[e].attempts + 1]}
           /\ worker'[w].pc = "claiming" /\ worker[w].pc = "claiming"
           /\ worker'[w].now = worker[w].now
           /\ worker'[w].failed = worker[w].failed
           /\ OthersKeep(w)
           /\ UNCHANGED <<clock, audited, faults>>
  <1>1. PICK e \in OldestClaimable(worker[w].now) :
          /\ outbox' = [outbox EXCEPT ![e].status = "PROCESSING",
                                      ![e].claimedUntil = worker[w].now + Lease,
                                      ![e].claimedBy = w,
                                      ![e].attempts = @ + 1]
          /\ worker' = [worker EXCEPT ![w].claims =
               Append(@, [entry |-> e, attempt |-> outbox[e].attempts + 1])]
    BY DEF ClaimEntry
  <1> DEFINE c == [entry |-> e, attempt |-> outbox[e].attempts + 1]
  <1>2. e \in Entries /\ Claimable(e, worker[w].now)
    BY DEF OldestClaimable
  <1>3. DOMAIN worker = Workers /\ DOMAIN outbox = Entries
        /\ worker[w] \in Worker /\ outbox[e] \in Entry /\ worker[w].claims \in Seq(Claim)
    BY <1>2, WorkerFields, EntryFields DEF IInv, TypeOK
  <1>4. /\ outbox'[e].status = "PROCESSING"
        /\ outbox'[e].claimedBy = w
        /\ outbox'[e].claimedUntil = worker[w].now + Lease
        /\ outbox'[e].attempts = outbox[e].attempts + 1
        /\ \A f \in Entries \ {e} : outbox'[f] = outbox[f]
    BY <1>1, <1>2, <1>3 DEF Entry
  <1>5. /\ worker'[w].claims = Append(worker[w].claims, c)
        /\ worker'[w].pc = worker[w].pc
        /\ worker'[w].now = worker[w].now
        /\ worker'[w].failed = worker[w].failed
        /\ OthersKeep(w)
    BY <1>1, <1>3 DEF Worker, OthersKeep
  <1>6. ClaimsOf(w)' = ClaimsOf(w) \cup {c}
    <2>1. LET s == worker[w].claims
          IN  /\ DOMAIN Append(s, c) = DOMAIN s \cup {Len(s) + 1}
              /\ Append(s, c)[Len(s) + 1] = c
              /\ \A i \in DOMAIN s : Append(s, c)[i] = s[i]
      <3> HIDE DEF c
      <3> QED BY <1>3
    <2> HIDE DEF c
    <2> QED BY <1>5, <2>1 DEF ClaimsOf
  <1>7. worker[w].pc = "claiming" /\ UNCHANGED <<clock, audited, faults>>
    BY DEF ClaimEntry
  <1> QED BY <1>2, <1>4, <1>5, <1>6, <1>7

\* The claim loop ends with its claims to publish.
LEMMA StopEffect ==
  ASSUME IInv, NEW w \in Workers, StopClaiming(w)
  PROVE  /\ KeepsClaims(w)
         /\ worker'[w].pc \in {"idle", "publishing"} /\ worker[w].pc = "claiming"
         /\ worker'[w].now = 0 /\ worker'[w].failed = {}
         /\ worker'[w].pc = "idle" => worker'[w].claims = <<>>
         /\ audited' = audited
  <1>1. DOMAIN worker = Workers /\ worker[w].claims \in Seq(Claim)
    BY WorkerFields DEF IInv, TypeOK
  <1>2. worker'[w] = NextBatch(worker[w].claims) /\ OthersKeep(w)
    BY <1>1 DEF StopClaiming, OthersKeep
  <1> QED BY <1>1, <1>2, NextBatchRests DEF StopClaiming, KeepsClaims

\* A batch that was handed to SNS is still to be finalised.
LEMMA PublishEffect ==
  ASSUME IInv, NEW w \in Workers, PublishBatch(w)
  PROVE  /\ KeepsClaims(w)
         /\ worker'[w].pc = "finalizing" /\ worker[w].pc = "publishing"
         /\ worker'[w].now = worker[w].now /\ worker'[w].failed = worker[w].failed
         /\ audited' = audited
  <1>1. DOMAIN worker = Workers /\ worker[w] \in Worker
    BY WorkerFields DEF IInv, TypeOK
  <1>2. PICK sent, ok : Publishes(w, sent, ok)
    BY PublishIs
  <1>3. /\ worker'[w].pc = "finalizing" /\ worker'[w].now = worker[w].now
        /\ worker'[w].claims = worker[w].claims
        /\ worker'[w].failed = worker[w].failed
        /\ OthersKeep(w)
    BY <1>1, <1>2 DEF Publishes, Worker, OthersKeep
  <1> QED BY <1>2, <1>3 DEF Publishes, KeepsClaims

\* A finalisation settles the entries of the batch that are still claimed, and none
\* whose claim outlasts it is left; it drops the claims of the batch and no others, and
\* remembers what it has given up.
LEMMA FinalizeEffect ==
  ASSUME IInv, NEW w \in Workers, FinalizeBatch(w)
  PROVE  /\ OthersKeep(w)
         /\ clock' \in Nat /\ clock' >= clock
         /\ UNCHANGED <<audited, faults>>
         /\ worker[w].pc = "finalizing"
         /\ worker'[w].pc \in {"idle", "publishing", "reporting"} /\ worker'[w].now = 0
         /\ ClaimsOf(w)' \subseteq ClaimsOf(w)
         /\ \A c \in ClaimsOf(w) : c.entry \in BatchEntries(w) \/ c \in ClaimsOf(w)'
         /\ \A e \in Entries :
              \/ /\ ClaimHeld(w, e)
                 /\ outbox'[e].status # "PROCESSING"
                 /\ outbox'[e].attempts = outbox[e].attempts
                 /\ outbox'[e].status = "PERMANENT_FAILURE" =>
                      \E f \in worker'[w].failed : f.entry = e
              \/ /\ outbox'[e] = outbox[e]
                 /\ e \in BatchEntries(w) => ~ ClaimHeld(w, e)'
                 /\ \A f \in worker'[w].failed : f.entry # e
         /\ worker'[w].failed # {} => worker'[w].pc = "reporting"
         /\ worker'[w].pc = "idle" => worker'[w].claims = <<>>
  <1>0. PICK finalized : /\ Finalizes(w, finalized)
                         /\ \A e \in BatchEntries(w) \ finalized : ~ ClaimHeld(w, e)'
    BY FinalizeIs DEF IInv
  <1> DEFINE failed == {[entry |-> e,
                         status |-> ResolveFailedStatus(ClaimIn(w, e).attempt)] :
                          e \in finalized \ worker[w].successful}
             next == IF failed = {} THEN NextBatch(AfterBatch(w))
                     ELSE [Resting("reporting") EXCEPT !.claims = AfterBatch(w),
                                                       !.failed = failed]
  <1>1. DOMAIN worker = Workers /\ worker[w].claims \in Seq(Claim)
    BY WorkerFields DEF IInv, TypeOK
  <1>2. worker'[w] = next /\ OthersKeep(w)
    <2>1. worker' = [worker EXCEPT ![w] = next]
      BY <1>0 DEF Finalizes
    <2> HIDE DEF next
    <2> QED BY <1>1, <2>1 DEF OthersKeep
  <1>3. /\ next.claims = AfterBatch(w) /\ next.now = 0
        /\ next.pc \in {"idle", "publishing", "reporting"}
        /\ next.failed = failed
        /\ next.failed # {} => next.pc = "reporting"
        /\ next.pc = "idle" => next.claims = <<>>
    <2> HIDE DEF failed
    <2>1. CASE failed = {}
      BY <2>1, <1>1, AfterBatchShifts, NextBatchRests
    <2>2. CASE failed # {}
      BY <2>2 DEF Resting
    <2> QED BY <2>1, <2>2
  <1>4. worker'[w].claims = AfterBatch(w)
    <2> HIDE DEF next
    <2> QED BY <1>2, <1>3
  <1>5. ClaimsOf(w)' \subseteq ClaimsOf(w)
    BY <1>1, <1>4, AfterBatchShifts DEF ClaimsOf
  <1>6. ASSUME NEW i \in DOMAIN worker[w].claims, i > BatchSize
        PROVE  worker[w].claims[i] \in ClaimsOf(w)'
    <2>1. /\ i - BatchSize \in DOMAIN AfterBatch(w)
          /\ AfterBatch(w)[i - BatchSize] = worker[w].claims[i]
      BY <1>1, <1>6, LimitAssumption DEF AfterBatch
    <2> QED BY <1>4, <2>1 DEF ClaimsOf
  <1>7. \A c \in ClaimsOf(w) : c.entry \in BatchEntries(w) \/ c \in ClaimsOf(w)'
    <2> SUFFICES ASSUME NEW i \in DOMAIN worker[w].claims
                 PROVE  \/ worker[w].claims[i].entry \in BatchEntries(w)
                        \/ worker[w].claims[i] \in ClaimsOf(w)'
      BY DEF ClaimsOf
    <2>1. i \in Nat
      BY ClaimFields DEF IInv
    <2>2. CASE i <= BatchSize
      BY <2>2 DEF BatchEntries, BatchIndices
    <2> QED BY <1>6, <2>1, <2>2, LimitAssumption
  <1>8. ASSUME NEW e \in Entries
        PROVE  IF e \in finalized
               THEN /\ outbox'[e].status # "PROCESSING"
                    /\ outbox'[e].attempts = outbox[e].attempts
                    /\ outbox'[e].status = "PERMANENT_FAILURE" =>
                         \E f \in failed : f.entry = e
               ELSE outbox'[e] = outbox[e]
    <2>1. outbox'[e] = IF e \in finalized THEN FinalizedEntry(w, e) ELSE outbox[e]
      BY <1>0 DEF Finalizes
    <2>2. CASE e \in finalized /\ e \in worker[w].successful
      <3>1. outbox'[e].status = "SENT" /\ outbox'[e].attempts = outbox[e].attempts
        BY <2>1, <2>2, FinalizedFields DEF IInv
      <3> HIDE DEF failed
      <3> QED BY <2>2, <3>1
    <2>3. CASE e \in finalized /\ e \notin worker[w].successful
      <3>1. \E f \in failed : f.entry = e
        <4> DEFINE f == [entry |-> e,
                         status |-> ResolveFailedStatus(ClaimIn(w, e).attempt)]
        <4>1. f \in failed
          BY <2>3
        <4>2. f.entry = e
          OBVIOUS
        <4> HIDE DEF f, failed
        <4> QED BY <4>1, <4>2
      <3> HIDE DEF failed
      <3>2. /\ outbox'[e].status = ClaimedFailureStatus(outbox[e].attempts)
            /\ outbox'[e].attempts = outbox[e].attempts
        BY <2>1, <2>3, FinalizedFields DEF IInv
      <3> QED BY <2>3, <3>1, <3>2 DEF ClaimedFailureStatus
    <2>4. CASE e \notin finalized
      BY <2>1, <2>4
    <2> QED BY <2>2, <2>3, <2>4
  <1>9. /\ clock' \in Nat /\ clock' >= clock
        /\ UNCHANGED <<audited, faults>> /\ worker[w].pc = "finalizing"
    BY FinalizeIs DEF IInv
  <1>10. /\ \A f \in failed : f.entry \in finalized
         /\ \A e \in finalized : ClaimHeld(w, e)
    BY <1>0 DEF Finalizes
  <1> HIDE DEF next, failed
  <1>11. worker'[w].failed = failed
    BY <1>2, <1>3
  <1>12. ASSUME NEW e \in Entries
         PROVE  \/ /\ ClaimHeld(w, e)
                   /\ outbox'[e].status # "PROCESSING"
                   /\ outbox'[e].attempts = outbox[e].attempts
                   /\ outbox'[e].status = "PERMANENT_FAILURE" =>
                        \E f \in worker'[w].failed : f.entry = e
                \/ /\ outbox'[e] = outbox[e]
                   /\ e \in BatchEntries(w) => ~ ClaimHeld(w, e)'
                   /\ \A f \in worker'[w].failed : f.entry # e
    BY <1>0, <1>8, <1>10, <1>11
  <1> QED BY <1>2, <1>3, <1>5, <1>7, <1>9, <1>12

\* A report looks up the failures it was given and forgets them.
LEMMA ReportEffect ==
  ASSUME IInv, NEW w \in Workers, ReportFailures(w)
  PROVE  /\ KeepsClaims(w)
         /\ worker[w].pc = "reporting" /\ worker'[w].pc \in {"idle", "publishing"}
         /\ worker'[w].now = 0 /\ worker'[w].failed = {}
         /\ worker'[w].pc = "idle" => worker'[w].claims = <<>>
         /\ \A e \in Entries :
              /\ audited'[e] \in {audited[e], audited[e] + 1}
              /\ e \in ReadView /\ (\E f \in worker[w].failed : f.entry = e) =>
                   audited'[e] = audited[e] + 1
              /\ audited'[e] # audited[e] => \E f \in worker[w].failed : f.entry = e
  <1>1. DOMAIN worker = Workers /\ worker[w].claims \in Seq(Claim)
    BY WorkerFields DEF IInv, TypeOK
  <1>2. worker'[w] = NextBatch(worker[w].claims) /\ OthersKeep(w)
    BY <1>1 DEF ReportFailures, OthersKeep
  <1>3. \A e \in Entries :
          audited'[e] = IF e \in {f.entry : f \in worker[w].failed} \cap ReadView
                        THEN audited[e] + 1 ELSE audited[e]
    BY DEF ReportFailures
  <1> QED BY <1>1, <1>2, <1>3, NextBatchRests DEF ReportFailures, KeepsClaims

\* A fault takes all a worker remembers, and only a restart is none that counts.
LEMMA FaultEffect ==
  ASSUME IInv, NEW w \in Workers, Fault(w)
  PROVE  /\ OthersKeep(w)
         /\ UNCHANGED <<clock, outbox, audited>>
         /\ worker'[w].claims = <<>> /\ worker'[w].failed = {} /\ worker'[w].now = 0
         /\ worker'[w].pc \in {"idle", "down"}
         /\ faults' = 0 => worker[w].pc = "down" /\ faults = 0
  <1>1. DOMAIN worker = Workers /\ faults \in Nat
    BY DEF IInv, TypeOK
  <1>2. PICK pc \in {"idle", "down"} : worker' = [worker EXCEPT ![w] = Resting(pc)]
    BY DEF Fault, RunThrows, Crash, Restart
  <1>3. worker'[w] = Resting(pc) /\ OthersKeep(w)
    BY <1>1, <1>2 DEF OthersKeep
  <1>4. UNCHANGED <<clock, outbox, audited>>
    BY DEF Fault, RunThrows, Crash, Restart
  <1>5. faults' = 0 => worker[w].pc = "down" /\ faults = 0
    BY <1>1 DEF Fault, RunThrows, Crash, Restart
  <1> QED BY <1>3, <1>4, <1>5 DEF Resting

\* The environment leaves workers and audit events alone, and no entry in PROCESSING
\* appears, goes or changes; nor does one that was given up.
LEMMA EnvironmentEffect ==
  ASSUME IInv, Environment \/ UNCHANGED vars
  PROVE  /\ UNCHANGED <<worker, audited, faults>>
         /\ clock' \in Nat /\ clock' >= clock
         /\ \A e \in Entries :
              \/ outbox'[e] = outbox[e]
              \/ /\ outbox[e].status \in {"ABSENT", "SENT"}
                 /\ outbox'[e].status \in {"PENDING", "DELETED"}
                 /\ outbox'[e].attempts = outbox[e].attempts
  <1>1. DOMAIN outbox = Entries /\ clock \in Nat
        /\ \A e \in Entries : outbox[e] \in Entry
    BY EntryFields DEF IInv, TypeOK
  <1>2. CASE Tick \/ Replicate \/ UNCHANGED vars
    BY <1>1, <1>2 DEF Tick, Replicate, vars
  <1>3. ASSUME NEW e \in Entries, CreateOutboxEntry(e) \/ ExpireSent(e)
        PROVE  /\ UNCHANGED <<worker, audited, faults, clock>>
               /\ \A f \in Entries \ {e} : outbox'[f] = outbox[f]
               /\ outbox[e].status \in {"ABSENT", "SENT"}
               /\ outbox'[e].status \in {"PENDING", "DELETED"}
               /\ outbox'[e].attempts = outbox[e].attempts
    BY <1>1, <1>3 DEF CreateOutboxEntry, ExpireSent, Entry
  <1> QED BY <1>1, <1>2, <1>3 DEF Environment

-----------------------------------------------------------------------------
(* No live claim is forgotten                                              *)

\* Without a crash no worker is down, and only a report has failures to look up.
WorkersAtWork ==
  \A w \in Workers :
    /\ faults = 0 => worker[w].pc # "down"
    /\ worker[w].pc # "reporting" => worker[w].failed = {}

Remembered == IInv /\ WorkersAtWork /\ LiveClaimIsRemembered

\* A step of one worker keeps this of all, if it keeps it of that one.
LEMMA AtWorkStep ==
  ASSUME WorkersAtWork, NEW w \in Workers, OthersKeep(w),
         faults' = 0 => faults = 0 /\ worker'[w].pc # "down",
         worker'[w].pc # "reporting" => worker'[w].failed = {}
  PROVE  WorkersAtWork'
  BY DEF WorkersAtWork, OthersKeep

\* Restarts apart, which there are none of without a crash.
LEMMA WorkersStayAtWork ==
  ASSUME IInv, WorkersAtWork, [Next]_vars
  PROVE  WorkersAtWork'
  <1>1. ASSUME NEW w \in Workers, RunStep(w) PROVE WorkersAtWork'
    <2>1. CASE StartRun(w)
      BY <2>1, StartEffect, AtWorkStep DEF KeepsClaims, WorkersAtWork
    <2>2. CASE ClaimEntry(w)
      BY <2>2, ClaimEffect, AtWorkStep DEF WorkersAtWork
    <2>3. CASE StopClaiming(w)
      BY <2>3, StopEffect, AtWorkStep DEF KeepsClaims
    <2>4. CASE PublishBatch(w)
      BY <2>4, PublishEffect, AtWorkStep DEF KeepsClaims, WorkersAtWork
    <2>5. CASE FinalizeBatch(w)
      BY <2>5, FinalizeEffect, AtWorkStep
    <2>6. CASE ReportFailures(w)
      BY <2>6, ReportEffect, AtWorkStep DEF KeepsClaims
    <2> QED BY <1>1, <2>1, <2>2, <2>3, <2>4, <2>5, <2>6 DEF RunStep
  <1>2. ASSUME NEW w \in Workers, Fault(w) PROVE WorkersAtWork'
    BY <1>2, FaultEffect, AtWorkStep DEF WorkersAtWork
  <1>3. CASE Environment \/ UNCHANGED vars
    BY <1>3, EnvironmentEffect DEF WorkersAtWork
  <1> QED BY <1>1, <1>2, <1>3 DEF Next

\* The claims of a worker are those of its record.
LEMMA SameClaims ==
  ASSUME NEW v, worker'[v].claims = worker[v].claims
  PROVE  ClaimsOf(v)' = ClaimsOf(v)
  BY DEF ClaimsOf

\* A claim that is held after a step that leaves its entry alone was held before.
LEMMA HeldBefore ==
  ASSUME TypeOK, NEW v \in Workers, NEW e \in Entries, outbox'[e] = outbox[e],
         clock' \in Nat, clock' >= clock, ClaimHeld(v, e)'
  PROVE  ClaimHeld(v, e)
  <1>1. /\ clock \in Nat /\ Skew[v] \in Nat
        /\ outbox[e].claimedUntil \in Nat
    BY ClockAssumption, EntryFields DEF TypeOK
  <1> QED BY <1>1 DEF ClaimHeld, ClaimHeldAt, Now

\* Claiming is done by one who remembers, batches end with all claims of theirs
\* settled or lost, and only crashes and runs that throw forget the rest.
LEMMA RememberingStep ==
  ASSUME IInv, WorkersAtWork, LiveClaimIsRemembered, [Next]_vars, faults' = 0,
         NEW e \in Entries, NEW v \in Workers, ClaimHeld(v, e)'
  PROVE  \E c \in ClaimsOf(v)' : c.entry = e
  <1>a. clock \in Nat /\ clock >= clock
    BY DEF IInv, TypeOK
  <1>b. ASSUME faults = 0, outbox'[e] = outbox[e], clock' \in Nat, clock' >= clock,
               ClaimsOf(v) \subseteq ClaimsOf(v)'
        PROVE  \E c \in ClaimsOf(v)' : c.entry = e
    BY <1>b, HeldBefore DEF LiveClaimIsRemembered, IInv
  <1>c. ASSUME NEW w \in Workers, KeepsClaims(w) PROVE \E c \in ClaimsOf(v)' : c.entry = e
    <2>1. worker'[v].claims = worker[v].claims
      BY <1>c DEF KeepsClaims, OthersKeep
    <2> QED BY <1>a, <1>b, <1>c, <2>1, SameClaims DEF KeepsClaims
  <1>1. ASSUME NEW w \in Workers, ClaimEntry(w) PROVE \E c \in ClaimsOf(v)' : c.entry = e
    <2>1. PICK f \in Entries :
            /\ outbox'[f].claimedBy = w
            /\ \A g \in Entries \ {f} : outbox'[g] = outbox[g]
            /\ ClaimsOf(w)' = ClaimsOf(w)
                                \cup {[entry |-> f, attempt |-> outbox[f].attempts + 1]}
            /\ OthersKeep(w) /\ clock' = clock /\ faults' = faults
      BY <1>1, ClaimEffect
    <2>2. CASE e = f
      <3>1. v = w
        BY <2>1, <2>2 DEF ClaimHeld, ClaimHeldAt
      <3>2. [entry |-> f, attempt |-> outbox[f].attempts + 1].entry = f
        OBVIOUS
      <3> QED BY <2>1, <2>2, <3>1, <3>2, Zenon
    <2>3. CASE e # f
      <3>1. ClaimsOf(v) \subseteq ClaimsOf(v)'
        BY <2>1, SameClaims DEF OthersKeep
      <3> QED BY <1>a, <1>b, <2>1, <2>3, <3>1
    <2> QED BY <2>2, <2>3
  <1>2. ASSUME NEW w \in Workers, FinalizeBatch(w)
        PROVE  \E c \in ClaimsOf(v)' : c.entry = e
    <2>1. /\ clock' \in Nat /\ clock' >= clock /\ faults' = faults /\ OthersKeep(w)
          /\ \A c \in ClaimsOf(w) : c.entry \in BatchEntries(w) \/ c \in ClaimsOf(w)'
      BY <1>2, FinalizeEffect
    <2>2. outbox'[e] = outbox[e] /\ (e \in BatchEntries(w) => ~ ClaimHeld(w, e)')
      <3>1. outbox'[e].status = "PROCESSING"
        BY DEF ClaimHeld, ClaimHeldAt
      <3> QED BY <1>2, <3>1, FinalizeEffect
    <2>3. CASE v # w
      <3>1. ClaimsOf(v)' = ClaimsOf(v)
        BY <2>1, <2>3, SameClaims DEF OthersKeep
      <3> QED BY <1>b, <2>1, <2>2, <3>1
    <2>4. CASE v = w
      <3>1. ClaimHeld(w, e)
        BY <2>1, <2>2, <2>4, HeldBefore DEF IInv
      <3>2. PICK c \in ClaimsOf(w) : c.entry = e
        BY <2>1, <3>1 DEF LiveClaimIsRemembered
      <3> QED BY <2>1, <2>2, <2>4, <3>1, <3>2
    <2> QED BY <2>3, <2>4
  <1>3. ASSUME NEW w \in Workers, Fault(w) PROVE FALSE
    BY <1>3, FaultEffect DEF WorkersAtWork
  <1>4. CASE Environment \/ UNCHANGED vars
    <2>1. /\ UNCHANGED <<worker, faults>> /\ clock' \in Nat /\ clock' >= clock
          /\ outbox'[e] = outbox[e] \/ outbox'[e].status \in {"PENDING", "DELETED"}
      BY <1>4, EnvironmentEffect
    <2>2. outbox'[e] = outbox[e]
      BY <2>1 DEF ClaimHeld, ClaimHeldAt
    <2>3. ClaimHeld(v, e)
      BY <2>1, <2>2, HeldBefore DEF IInv
    <2> QED BY <2>1, <2>3, SameClaims DEF LiveClaimIsRemembered
  <1>5. ASSUME NEW w \in Workers, RunStep(w), ~ClaimEntry(w), ~FinalizeBatch(w)
        PROVE  KeepsClaims(w)
    BY <1>5, StartEffect, StopEffect, PublishEffect, ReportEffect DEF RunStep
  <1> QED BY <1>c, <1>1, <1>2, <1>3, <1>4, <1>5 DEF Next

\* The invariant is inductive.
LEMMA RememberedInvariant == Spec => []Remembered
  <1>1. Init => Remembered
    <2> SUFFICES ASSUME Init PROVE WorkersAtWork /\ LiveClaimIsRemembered
      BY InitIInv DEF Remembered
    <2>1. WorkersAtWork
      BY RestingWorker DEF Init, WorkersAtWork
    <2>2. \A e \in Entries : outbox[e].status = "ABSENT"
      BY DEF Init, NoEntry
    <2> QED BY <2>1, <2>2 DEF LiveClaimIsRemembered, ClaimHeld, ClaimHeldAt
  <1>2. Remembered /\ [Next]_vars => Remembered'
    <2> SUFFICES ASSUME Remembered, [Next]_vars
                 PROVE  IInv' /\ WorkersAtWork' /\ LiveClaimIsRemembered'
      BY DEF Remembered
    <2>1. IInv'
      BY NextIInv DEF Remembered
    <2>2. WorkersAtWork'
      BY WorkersStayAtWork DEF Remembered
    <2>3. LiveClaimIsRemembered'
      BY RememberingStep DEF Remembered, LiveClaimIsRemembered
    <2> QED BY <2>1, <2>2, <2>3
  <1> QED BY <1>1, <1>2, PTL DEF Spec

\* While nothing crashes or throws, no worker forgets a claim it may still finalise,
\* for any number of entries, batches and workers, and any skew of their clocks.
THEOREM NoClaimIsForgotten == Spec => []LiveClaimIsRemembered
  <1>1. Remembered => LiveClaimIsRemembered
    BY DEF Remembered
  <1> QED BY <1>1, RememberedInvariant, PTL

-----------------------------------------------------------------------------
(* Every permanent failure is audited                                      *)

\* The worker that gave an entry up is the one to look it up, on the primary.
LEMMA AuditingStep ==
  ASSUME ReadSecondary = FALSE, IInv, WorkersAtWork, TerminalFailureAudited,
         [Next]_vars, faults' = 0,
         NEW e \in Entries, outbox'[e].status = "PERMANENT_FAILURE"
  PROVE  \/ audited'[e] > 0
         \/ \E v \in Workers : \E f \in worker'[v].failed : f.entry = e
  <1> DEFINE Audited == \/ audited'[e] > 0
                        \/ \E v \in Workers : \E f \in worker'[v].failed : f.entry = e
  <1> SUFFICES Audited
    OBVIOUS
  <1>a. audited[e] \in Nat /\ outbox[e].attempts \in 0 .. MaxAttempts
    BY EntryFields DEF IInv, TypeOK
  <1>b. ASSUME faults = 0, outbox'[e].status = outbox[e].status, audited'[e] >= audited[e],
               audited'[e] \in Nat,
               NEW w \in Workers, OthersKeep(w),
               worker'[w].failed = worker[w].failed \/ worker[w].failed = {}
        PROVE  Audited
    BY <1>a, <1>b DEF TerminalFailureAudited, OthersKeep
  <1>1. ASSUME NEW w \in Workers, StartRun(w) \/ PublishBatch(w) PROVE Audited
    <2>1. /\ KeepsClaims(w) /\ audited' = audited
          /\ worker'[w].failed = worker[w].failed
      BY <1>1, StartEffect, PublishEffect
    <2> QED BY <1>a, <1>b, <2>1 DEF KeepsClaims
  <1>2. ASSUME NEW w \in Workers, StopClaiming(w) PROVE Audited
    <2>1. KeepsClaims(w) /\ audited' = audited /\ worker[w].pc = "claiming"
      BY <1>2, StopEffect
    <2>2. worker[w].failed = {}
      BY <2>1 DEF WorkersAtWork
    <2> QED BY <1>a, <1>b, <2>1, <2>2 DEF KeepsClaims
  <1>3. ASSUME NEW w \in Workers, ClaimEntry(w) PROVE Audited
    <2>1. /\ OthersKeep(w) /\ UNCHANGED <<audited, faults>>
          /\ worker'[w].failed = worker[w].failed
          /\ outbox'[e] = outbox[e] \/ outbox'[e].status = "PROCESSING"
      BY <1>3, ClaimEffect
    <2> QED BY <1>a, <1>b, <2>1
  <1>4. ASSUME NEW w \in Workers, FinalizeBatch(w) PROVE Audited
    <2>1. /\ OthersKeep(w) /\ UNCHANGED <<audited, faults>>
          /\ worker[w].pc = "finalizing"
          /\ outbox'[e] = outbox[e] \/ \E f \in worker'[w].failed : f.entry = e
      BY <1>4, FinalizeEffect
    <2>2. worker[w].failed = {}
      BY <2>1 DEF WorkersAtWork
    <2> QED BY <1>a, <1>b, <2>1, <2>2
  <1>5. ASSUME NEW w \in Workers, ReportFailures(w) PROVE Audited
    <2>1. /\ KeepsClaims(w)
          /\ audited'[e] \in {audited[e], audited[e] + 1}
          /\ e \in ReadView /\ (\E f \in worker[w].failed : f.entry = e) =>
               audited'[e] = audited[e] + 1
      BY <1>5, ReportEffect
    <2>2. outbox' = outbox /\ faults = 0 /\ OthersKeep(w)
      BY <2>1 DEF KeepsClaims
    <2>3. e \in ReadView
      BY <1>a, <2>2 DEF ReadView, TerminalFailures, IInv, EntryInv, PendingOrGivenUp
    <2>4. CASE \E f \in worker[w].failed : f.entry = e
      BY <1>a, <2>1, <2>3, <2>4
    <2>5. CASE \E v \in Workers \ {w} : \E f \in worker[v].failed : f.entry = e
      BY <2>2, <2>5 DEF OthersKeep
    <2>6. CASE audited[e] > 0
      BY <1>a, <2>1, <2>6
    <2> QED BY <2>2, <2>4, <2>5, <2>6 DEF TerminalFailureAudited
  <1>6. ASSUME NEW w \in Workers, Fault(w) PROVE FALSE
    BY <1>6, FaultEffect DEF WorkersAtWork
  <1>7. CASE Environment \/ UNCHANGED vars
    <2>1. /\ UNCHANGED <<worker, audited, faults>>
          /\ outbox'[e] = outbox[e] \/ outbox'[e].status \in {"PENDING", "DELETED"}
      BY <1>7, EnvironmentEffect
    <2> QED BY <2>1 DEF TerminalFailureAudited
  <1> HIDE DEF Audited
  <1> QED BY <1>1, <1>2, <1>3, <1>4, <1>5, <1>6, <1>7 DEF Next, RunStep

\* While nothing crashes or throws and the look-up reads the primary, every entry
\* that is given up is audited by the worker that gave it up.
THEOREM EveryFailureIsAudited ==
  ASSUME ReadSecondary = FALSE
  PROVE  Spec => []TerminalFailureAudited
  <1> DEFINE Inv == Remembered /\ TerminalFailureAudited
  <1>1. Init => TerminalFailureAudited
    BY DEF Init, NoEntry, TerminalFailureAudited
  <1>2. Remembered /\ TerminalFailureAudited /\ [Next]_vars => TerminalFailureAudited'
    <2> SUFFICES ASSUME Remembered, TerminalFailureAudited, [Next]_vars
                 PROVE  TerminalFailureAudited'
      OBVIOUS
    <2>1. IInv /\ WorkersAtWork
      BY DEF Remembered
    <2> QED BY <2>1, AuditingStep DEF TerminalFailureAudited
  <1> QED BY <1>1, <1>2, RememberedInvariant, PTL DEF Spec

-----------------------------------------------------------------------------
(* Failures are audited no more often than entries are tried               *)

\* The workers that have yet to look entry e up.
Holders(e) == {w \in Workers : \E f \in worker[w].failed : f.entry = e}

\* An attempt is under way.
Trying(e) == IF outbox[e].status = "PROCESSING" THEN 1 ELSE 0

\* Each attempt that has ended in a failure is held by one worker, or has led to
\* one event, or is forgotten.
AttemptsOK(e) ==
  /\ IsFiniteSet(Holders(e))
  /\ audited[e] + Cardinality(Holders(e)) + Trying(e) <= outbox[e].attempts

AuditInv == IInv /\ WorkersAtWork /\ \A e \in Entries : AttemptsOK(e)

\* A worker that does not fail an entry does not become its holder.
LEMMA NoNewHolder ==
  ASSUME NEW e \in Entries, NEW w \in Workers, OthersKeep(w), IsFiniteSet(Holders(e)),
         worker'[w].failed = worker[w].failed
           \/ \A f \in worker'[w].failed : f.entry # e
  PROVE  /\ IsFiniteSet(Holders(e)')
         /\ Cardinality(Holders(e)') \in Nat /\ Cardinality(Holders(e)) \in Nat
         /\ Cardinality(Holders(e)') <= Cardinality(Holders(e))
         /\ w \in Holders(e) /\ (\A f \in worker'[w].failed : f.entry # e) =>
              Cardinality(Holders(e)') + 1 <= Cardinality(Holders(e))
  <1>1. Holders(e)' = Holders(e) \/ Holders(e)' = Holders(e) \ {w}
    <2>1. \A v \in Workers \ {w} : v \in Holders(e)' <=> v \in Holders(e)
      BY DEF Holders, OthersKeep
    <2>2. Holders(e)' \subseteq Workers /\ Holders(e) \subseteq Workers
      BY DEF Holders
    <2>3. CASE worker'[w].failed = worker[w].failed
      <3>1. w \in Holders(e)' <=> w \in Holders(e)
        BY <2>3 DEF Holders
      <3> QED BY <2>1, <2>2, <3>1
    <2>4. CASE \A f \in worker'[w].failed : f.entry # e
      <3>1. w \notin Holders(e)'
        BY <2>4 DEF Holders
      <3> QED BY <2>1, <2>2, <3>1
    <2> QED BY <2>3, <2>4
  <1>2. (\A f \in worker'[w].failed : f.entry # e) => w \notin Holders(e)'
    BY DEF Holders
  <1>3. Cardinality(Holders(e)) \in Nat
    BY FS_CardinalityType
  <1> HIDE DEF Holders
  <1>4. /\ IsFiniteSet(Holders(e) \ {w})
        /\ Cardinality(Holders(e) \ {w}) =
             IF w \in Holders(e) THEN Cardinality(Holders(e)) - 1
             ELSE Cardinality(Holders(e))
    BY FS_RemoveElement
  <1>5. Cardinality(Holders(e)') \in Nat
    BY <1>1, <1>3, <1>4, FS_CardinalityType
  <1>6. CASE Holders(e)' = Holders(e)
    BY <1>2, <1>3, <1>6
  <1>7. CASE Holders(e)' = Holders(e) \ {w}
    <2>1. Cardinality(Holders(e)') = IF w \in Holders(e) THEN Cardinality(Holders(e)) - 1
                                    ELSE Cardinality(Holders(e))
      BY <1>4, <1>7
    <2>2. IsFiniteSet(Holders(e)')
      BY <1>4, <1>7
    <2> QED BY <1>3, <1>5, <2>1, <2>2
  <1> QED BY <1>1, <1>6, <1>7

\* A worker becomes at most one holder more.
LEMMA OneNewHolder ==
  ASSUME NEW e \in Entries, NEW w \in Workers, OthersKeep(w), IsFiniteSet(Holders(e))
  PROVE  /\ IsFiniteSet(Holders(e)')
         /\ Cardinality(Holders(e)') \in Nat /\ Cardinality(Holders(e)) \in Nat
         /\ Cardinality(Holders(e)') <= Cardinality(Holders(e)) + 1
  <1>1. Holders(e)' \subseteq Holders(e) \cup {w}
    BY DEF Holders, OthersKeep
  <1>2. /\ IsFiniteSet(Holders(e) \cup {w})
        /\ Cardinality(Holders(e) \cup {w}) =
             IF w \in Holders(e) THEN Cardinality(Holders(e))
             ELSE Cardinality(Holders(e)) + 1
    BY FS_AddElement
  <1>3. /\ IsFiniteSet(Holders(e)')
        /\ Cardinality(Holders(e)') <= Cardinality(Holders(e) \cup {w})
    BY <1>1, <1>2, FS_Subset
  <1> QED BY <1>2, <1>3, FS_CardinalityType

\* A claim pays for the event its failure may lead to; the look-up spends it, and a
\* fault loses it.
LEMMA AttemptsStep ==
  ASSUME AuditInv, [Next]_vars, NEW e \in Entries
  PROVE  AttemptsOK(e)'
  <1>1. /\ IInv /\ WorkersAtWork /\ AttemptsOK(e) /\ IsFiniteSet(Holders(e))
        /\ audited[e] \in Nat /\ outbox[e].attempts \in Nat
    BY EntryFields DEF AuditInv, IInv, TypeOK, AttemptsOK
  <1>2. ASSUME NEW w \in Workers, OthersKeep(w), audited'[e] = audited[e],
               \/ worker'[w].failed = worker[w].failed
               \/ \A f \in worker'[w].failed : f.entry # e,
               outbox'[e].attempts \in Nat,
               outbox'[e].attempts - Trying(e)' >= outbox[e].attempts - Trying(e)
        PROVE  AttemptsOK(e)'
    BY <1>1, <1>2, NoNewHolder DEF AttemptsOK, Trying
  <1>3. ASSUME outbox'[e] = outbox[e]
        PROVE  /\ Trying(e)' = Trying(e) /\ outbox'[e].attempts \in Nat
               /\ outbox'[e].attempts - Trying(e)' >= outbox[e].attempts - Trying(e)
    BY <1>1, <1>3 DEF Trying
  <1>4. ASSUME NEW w \in Workers, StartRun(w) \/ PublishBatch(w) PROVE AttemptsOK(e)'
    BY <1>2, <1>3, <1>4, StartEffect, PublishEffect, <1>1 DEF KeepsClaims
  <1>5. ASSUME NEW w \in Workers, StopClaiming(w) PROVE AttemptsOK(e)'
    BY <1>1, <1>2, <1>3, <1>5, StopEffect DEF KeepsClaims
  <1>6. ASSUME NEW w \in Workers, ClaimEntry(w) PROVE AttemptsOK(e)'
    <2>1. PICK g \in Entries :
            /\ outbox'[g].status = "PROCESSING"
            /\ outbox'[g].attempts = outbox[g].attempts + 1
            /\ \A f \in Entries \ {g} : outbox'[f] = outbox[f]
            /\ worker'[w].failed = worker[w].failed
            /\ OthersKeep(w) /\ audited' = audited
      BY <1>1, <1>6, ClaimEffect
    <2>2. CASE e = g
      <3>1. /\ outbox'[e].attempts \in Nat
            /\ outbox'[e].attempts - Trying(e)' >= outbox[e].attempts - Trying(e)
        BY <1>1, <2>1, <2>2 DEF Trying
      <3> QED BY <1>2, <2>1, <3>1
    <2>3. CASE e # g
      BY <1>2, <1>3, <2>1, <2>3
    <2> QED BY <2>2, <2>3
  <1>7. ASSUME NEW w \in Workers, FinalizeBatch(w) PROVE AttemptsOK(e)'
    <2>1. /\ OthersKeep(w) /\ audited' = audited
          /\ \/ /\ ClaimHeld(w, e)
                /\ outbox'[e].status # "PROCESSING"
                /\ outbox'[e].attempts = outbox[e].attempts
             \/ /\ outbox'[e] = outbox[e]
                /\ \A f \in worker'[w].failed : f.entry # e
      BY <1>1, <1>7, FinalizeEffect
    <2>2. CASE /\ ClaimHeld(w, e)
               /\ outbox'[e].status # "PROCESSING"
               /\ outbox'[e].attempts = outbox[e].attempts
      <3>1. Trying(e) = 1 /\ Trying(e)' = 0
        BY <2>2 DEF Trying, ClaimHeld, ClaimHeldAt
      <3> QED BY <1>1, <2>1, <2>2, <3>1, OneNewHolder DEF AttemptsOK
    <2>3. CASE outbox'[e] = outbox[e] /\ \A f \in worker'[w].failed : f.entry # e
      BY <1>2, <1>3, <2>1, <2>3
    <2> QED BY <2>1, <2>2, <2>3
  <1>8. ASSUME NEW w \in Workers, ReportFailures(w) PROVE AttemptsOK(e)'
    <2>1. /\ OthersKeep(w) /\ outbox' = outbox /\ worker'[w].failed = {}
          /\ audited'[e] \in {audited[e], audited[e] + 1}
          /\ audited'[e] # audited[e] => w \in Holders(e)
      BY <1>1, <1>8, ReportEffect DEF KeepsClaims, Holders
    <2>2. /\ IsFiniteSet(Holders(e)')
          /\ Cardinality(Holders(e)') \in Nat /\ Cardinality(Holders(e)) \in Nat
          /\ Cardinality(Holders(e)') <= Cardinality(Holders(e))
          /\ w \in Holders(e) => Cardinality(Holders(e)') + 1 <= Cardinality(Holders(e))
      BY <1>1, <2>1, NoNewHolder
    <2>3. Trying(e) \in {0, 1} /\ Trying(e)' = Trying(e)
      BY <1>3, <2>1 DEF Trying
    <2> QED BY <1>1, <2>1, <2>2, <2>3 DEF AttemptsOK
  <1>9. ASSUME NEW w \in Workers, Fault(w) PROVE AttemptsOK(e)'
    BY <1>1, <1>2, <1>3, <1>9, FaultEffect
  <1>10. CASE Environment \/ UNCHANGED vars
    <2>1. /\ UNCHANGED <<worker, audited>>
          /\ \/ outbox'[e] = outbox[e]
             \/ /\ outbox[e].status \in {"ABSENT", "SENT"}
                /\ outbox'[e].status \in {"PENDING", "DELETED"}
                /\ outbox'[e].attempts = outbox[e].attempts
      BY <1>1, <1>10, EnvironmentEffect
    <2>2. Holders(e)' = Holders(e)
      BY <2>1 DEF Holders
    <2>3. Trying(e)' = Trying(e) /\ outbox'[e].attempts = outbox[e].attempts
      BY <2>1 DEF Trying
    <2> QED BY <1>1, <2>1, <2>2, <2>3 DEF AttemptsOK
  <1> QED BY <1>4, <1>5, <1>6, <1>7, <1>8, <1>9, <1>10 DEF Next, RunStep

\* For any number of workers, and any crashes: an entry is audited no more often
\* than it was tried, whoever looks it up and however late.
THEOREM AuditsBounded == Spec => []AuditsAreBounded
  <1>1. Init => AuditInv
    <2> SUFFICES ASSUME Init PROVE WorkersAtWork /\ \A e \in Entries : AttemptsOK(e)
      BY InitIInv DEF AuditInv
    <2>1. WorkersAtWork
      BY RestingWorker DEF Init, WorkersAtWork
    <2>2. ASSUME NEW e \in Entries PROVE AttemptsOK(e)
      <3>1. Holders(e) = {}
        BY RestingWorker DEF Init, Holders
      <3>2. audited[e] = 0 /\ outbox[e].status = "ABSENT" /\ outbox[e].attempts = 0
        BY DEF Init, NoEntry
      <3> QED BY <3>1, <3>2, FS_EmptySet DEF AttemptsOK, Trying
    <2> QED BY <2>1, <2>2
  <1>2. AuditInv /\ [Next]_vars => AuditInv'
    <2> SUFFICES ASSUME AuditInv, [Next]_vars PROVE AuditInv'
      OBVIOUS
    <2>1. IInv' /\ WorkersAtWork'
      BY NextIInv, WorkersStayAtWork DEF AuditInv
    <2> QED BY <2>1, AttemptsStep DEF AuditInv
  <1>3. AuditInv => AuditsAreBounded
    <2> SUFFICES ASSUME AuditInv, NEW e \in Entries
                 PROVE  audited[e] <= outbox[e].attempts
      BY DEF AuditsAreBounded
    <2>1. /\ AttemptsOK(e) /\ Cardinality(Holders(e)) \in Nat /\ Trying(e) \in {0, 1}
          /\ audited[e] \in Nat /\ outbox[e].attempts \in Nat
      BY FS_CardinalityType, EntryFields DEF AuditInv, AttemptsOK, Trying, IInv, TypeOK
    <2> QED BY <2>1 DEF AttemptsOK
  <1> QED BY <1>1, <1>2, <1>3, PTL DEF Spec

-----------------------------------------------------------------------------
(* A held claim is current                                                 *)

\* The instances' clocks agree.
Synchronised == \A w, v \in Workers : Skew[w] = Skew[v]

\* The date of the claim loop is past.
NowIsPast == \A w \in Workers : worker[w].now <= Now(w)

\* While worker w claims, the lease of claim c is over, or nobody has touched the
\* entry since.
Untouched(w, c) ==
  \/ worker[w].now + Lease < Now(w)
  \/ /\ outbox[c.entry].status = "PROCESSING"
     /\ outbox[c.entry].claimedBy = w
     /\ outbox[c.entry].claimedUntil = worker[w].now + Lease
     /\ outbox[c.entry].attempts = c.attempt

LoopClaims ==
  \A w \in Workers :
    worker[w].pc = "claiming" => \A c \in ClaimsOf(w) : Untouched(w, c)

\* An idle worker has no claims.
IdleIsEmpty == \A w \in Workers : worker[w].pc = "idle" => worker[w].claims = <<>>

Current == IInv /\ IdleIsEmpty /\ NowIsPast /\ LoopClaims /\ HeldClaimIsCurrent

\* Claims are of entries.
LEMMA ClaimedEntry ==
  ASSUME TypeOK, NEW v \in Workers, NEW c \in ClaimsOf(v)
  PROVE  c.entry \in Entries
  BY ClaimFields DEF ClaimsOf

\* Steps that claim nothing: time may pass, claims may be dropped, and entries may
\* leave PROCESSING, but not from under a worker that is still claiming.
LEMMA QuietStep ==
  ASSUME Current, TypeOK', clock' >= clock,
         \A v \in Workers :
           /\ worker'[v].now \in {worker[v].now, 0, Now(v)}
           /\ ClaimsOf(v)' \subseteq ClaimsOf(v)
           /\ worker'[v].pc = "claiming" =>
                worker'[v] = worker[v] \/ worker'[v].claims = <<>>
           /\ worker'[v].pc = "idle" => worker'[v].claims = <<>>,
         \A e \in Entries :
           \/ outbox'[e] = outbox[e]
           \/ /\ outbox'[e].status # "PROCESSING"
              /\ \A v \in Workers :
                   worker'[v].pc = "claiming" =>
                     outbox[e].status # "PROCESSING" \/ outbox[e].claimedBy # v
  PROVE  IdleIsEmpty' /\ NowIsPast' /\ LoopClaims' /\ HeldClaimIsCurrent'
  <1>a. /\ TypeOK /\ clock \in Nat /\ clock' \in Nat
        /\ \A v \in Workers : /\ Skew[v] \in Nat
                              /\ worker[v].now \in Nat /\ worker[v].now <= Now(v)
    BY ClockAssumption, WorkerFields DEF Current, IInv, TypeOK, NowIsPast
  <1>1. NowIsPast'
    BY <1>a DEF NowIsPast, Now
  <1>2. ASSUME NEW v \in Workers, worker'[v].pc = "claiming", NEW c \in ClaimsOf(v)'
        PROVE  Untouched(v, c)'
    <2>1. worker'[v] = worker[v]
      BY <1>2 DEF ClaimsOf
    <2>2. c \in ClaimsOf(v) /\ c.entry \in Entries
      BY <1>a, ClaimedEntry
    <2>3. Untouched(v, c)
      BY <1>2, <2>1, <2>2 DEF Current, LoopClaims
    <2>4. CASE worker[v].now + Lease < Now(v)
      BY <1>a, <2>1, <2>4, LimitAssumption DEF Untouched, Now
    <2>5. CASE /\ outbox[c.entry].status = "PROCESSING"
               /\ outbox[c.entry].claimedBy = v
               /\ outbox[c.entry].claimedUntil = worker[v].now + Lease
               /\ outbox[c.entry].attempts = c.attempt
      <3>1. outbox'[c.entry] = outbox[c.entry]
        BY <1>2, <2>2, <2>5
      <3> QED BY <2>1, <2>5, <3>1 DEF Untouched
    <2> QED BY <2>3, <2>4, <2>5 DEF Untouched
  <1>3. ASSUME NEW v \in Workers, NEW c \in ClaimsOf(v)', ClaimHeld(v, c.entry)'
        PROVE  outbox'[c.entry].attempts = c.attempt
    <2>1. c \in ClaimsOf(v) /\ c.entry \in Entries
      BY <1>a, ClaimedEntry
    <2>2. outbox'[c.entry] = outbox[c.entry]
      BY <1>3, <2>1 DEF ClaimHeld, ClaimHeldAt
    <2>3. ClaimHeld(v, c.entry)
      BY <1>a, <1>3, <2>1, <2>2, HeldBefore
    <2> QED BY <2>1, <2>2, <2>3 DEF Current, HeldClaimIsCurrent
  <1> QED BY <1>1, <1>2, <1>3 DEF IdleIsEmpty, LoopClaims, HeldClaimIsCurrent

\* A claim is made of an entry nobody holds: what another claim of it says is over.
LEMMA ClaimingStep ==
  ASSUME Synchronised, Current, TypeOK', NEW w \in Workers, ClaimEntry(w)
  PROVE  IdleIsEmpty' /\ NowIsPast' /\ LoopClaims' /\ HeldClaimIsCurrent'
  <1>1. PICK e \in Entries :
           /\ Claimable(e, worker[w].now)
           /\ outbox'[e].status = "PROCESSING"
           /\ outbox'[e].claimedBy = w
           /\ outbox'[e].claimedUntil = worker[w].now + Lease
           /\ outbox'[e].attempts = outbox[e].attempts + 1
           /\ \A f \in Entries \ {e} : outbox'[f] = outbox[f]
           /\ ClaimsOf(w)' = ClaimsOf(w)
                               \cup {[entry |-> e, attempt |-> outbox[e].attempts + 1]}
           /\ worker'[w].pc = "claiming" /\ worker[w].pc = "claiming"
           /\ worker'[w].now = worker[w].now
           /\ OthersKeep(w)
           /\ clock' = clock
    BY ClaimEffect DEF Current
  <1> DEFINE new == [entry |-> e, attempt |-> outbox[e].attempts + 1]
  <1>a. /\ TypeOK /\ clock \in Nat
        /\ \A v \in Workers : /\ Skew[v] \in Nat /\ Now(v) \in Nat /\ Now(v)' = Now(v)
                              /\ worker[v].now \in Nat /\ worker[v].now <= Now(v)
                              /\ Now(v) = Now(w)
    BY <1>1, ClockAssumption, NowIsNat, WorkerFields
       DEF Current, IInv, TypeOK, NowIsPast, Now, Synchronised
  <1>b. \A v \in Workers : worker'[v].now = worker[v].now /\ worker'[v].pc = worker[v].pc
    BY <1>1 DEF OthersKeep
  <1>2. new.entry = e /\ new.attempt = outbox'[e].attempts
    BY <1>1
  <1>c. ClaimsOf(w)' = ClaimsOf(w) \cup {new}
    BY <1>1
  <1> HIDE DEF new
  <1>3. \A v \in Workers : \A c \in ClaimsOf(v)' :
          \/ c \in ClaimsOf(v) /\ c.entry \in Entries
          \/ v = w /\ c = new
    <2>1. \A v \in Workers \ {w} : ClaimsOf(v)' = ClaimsOf(v)
      BY <1>1, SameClaims DEF OthersKeep
    <2>2. \A v \in Workers : \A c \in ClaimsOf(v) : c.entry \in Entries
      BY <1>a, ClaimedEntry
    <2> HIDE DEF ClaimsOf
    <2> QED BY <1>c, <2>1, <2>2
  <1>4. ASSUME NEW v \in Workers, worker[v].pc = "claiming", NEW c \in ClaimsOf(v),
               c.entry = e
        PROVE  worker[v].now + Lease < Now(v)
    <2>1. Untouched(v, c)
      BY <1>4 DEF Current, LoopClaims
    <2>2. outbox[e].status = "PENDING" \/ outbox[e].claimedUntil < worker[w].now
      BY <1>1 DEF Claimable
    <2>3. CASE outbox[e].claimedUntil < worker[w].now
                 /\ outbox[e].claimedUntil = worker[v].now + Lease
      BY <1>a, <2>3, LimitAssumption
    <2> QED BY <1>4, <2>1, <2>2, <2>3 DEF Untouched
  <1>5. NowIsPast' /\ IdleIsEmpty'
    <2>1. \A v \in Workers : worker'[v].pc = "idle" => worker'[v] = worker[v]
      BY <1>1 DEF OthersKeep
    <2> QED BY <1>a, <1>b, <2>1 DEF NowIsPast, IdleIsEmpty, Current
  <1>6. ASSUME NEW v \in Workers, worker'[v].pc = "claiming", NEW c \in ClaimsOf(v)'
        PROVE  Untouched(v, c)'
    <2>1. CASE v = w /\ c = new
      BY <1>1, <1>2, <2>1 DEF Untouched
    <2>2. CASE c \in ClaimsOf(v) /\ c.entry \in Entries /\ c.entry = e
      <3>1. worker[v].now + Lease < Now(v)
        BY <1>4, <1>6, <1>b, <2>2
      <3> QED BY <1>a, <1>b, <3>1 DEF Untouched
    <2>3. CASE c \in ClaimsOf(v) /\ c.entry \in Entries /\ c.entry # e
      <3>1. Untouched(v, c) /\ outbox'[c.entry] = outbox[c.entry]
        BY <1>1, <1>6, <1>b, <2>3 DEF Current, LoopClaims
      <3> QED BY <1>a, <1>b, <3>1 DEF Untouched
    <2> QED BY <1>3, <2>1, <2>2, <2>3
  <1>7. ASSUME NEW v \in Workers, NEW c \in ClaimsOf(v)', ClaimHeld(v, c.entry)'
        PROVE  outbox'[c.entry].attempts = c.attempt
    <2>1. CASE v = w /\ c = new
      BY <1>2, <2>1
    <2>2. CASE c \in ClaimsOf(v) /\ c.entry \in Entries /\ c.entry = e
      <3>1. v = w
        BY <1>1, <1>7, <2>2 DEF ClaimHeld, ClaimHeldAt
      <3>2. worker[w].now + Lease < Now(w)
        BY <1>1, <1>4, <2>2, <3>1
      <3>3. worker[w].now + Lease > Now(w)
        BY <1>a, <1>1, <1>7, <2>2, <3>1 DEF ClaimHeld, ClaimHeldAt
      <3> QED BY <1>a, <3>2, <3>3, LimitAssumption
    <2>3. CASE c \in ClaimsOf(v) /\ c.entry \in Entries /\ c.entry # e
      <3>1. outbox'[c.entry] = outbox[c.entry]
        BY <1>1, <2>3
      <3>2. ClaimHeld(v, c.entry)
        <4>1. clock' \in Nat /\ clock' >= clock
          BY <1>a, <1>1
        <4> QED BY <1>a, <1>7, <2>3, <3>1, <4>1, HeldBefore
      <3> QED BY <2>3, <3>1, <3>2 DEF Current, HeldClaimIsCurrent
    <2> QED BY <1>3, <2>1, <2>2, <2>3
  <1> QED BY <1>5, <1>6, <1>7 DEF LoopClaims, HeldClaimIsCurrent

\* Every step keeps held claims current.
LEMMA CurrentStep ==
  ASSUME Synchronised, Current, [Next]_vars
  PROVE  Current'
  <1>a. IInv' /\ TypeOK'
    BY NextIInv DEF Current, IInv
  <1>b. IInv /\ clock \in Nat
    BY DEF Current, IInv, TypeOK
  <1> SUFFICES IdleIsEmpty' /\ NowIsPast' /\ LoopClaims' /\ HeldClaimIsCurrent'
    BY <1>a DEF Current
  <1>1. ASSUME NEW w \in Workers, KeepsClaims(w),
               worker'[w].now \in {worker[w].now, 0, Now(w)},
               worker'[w].pc = "claiming" => worker'[w].claims = <<>>,
               worker'[w].pc = "idle" => worker'[w].claims = <<>>
        PROVE  IdleIsEmpty' /\ NowIsPast' /\ LoopClaims' /\ HeldClaimIsCurrent'
    <2>1. /\ clock' >= clock /\ outbox' = outbox
          /\ \A v \in Workers : worker'[v].claims = worker[v].claims
          /\ \A v \in Workers \ {w} : worker'[v] = worker[v]
      BY <1>b, <1>1 DEF KeepsClaims, OthersKeep
    <2>2. \A v \in Workers : ClaimsOf(v)' \subseteq ClaimsOf(v)
      BY <2>1, SameClaims
    <2>3. \A v \in Workers : worker'[v].pc = "idle" => worker'[v].claims = <<>>
      BY <1>1, <2>1 DEF Current, IdleIsEmpty
    <2> QED BY <1>a, <1>1, <2>1, <2>2, <2>3, QuietStep
  <1>2. ASSUME NEW w \in Workers, StartRun(w) \/ StopClaiming(w) \/ PublishBatch(w)
                                    \/ ReportFailures(w)
        PROVE  IdleIsEmpty' /\ NowIsPast' /\ LoopClaims' /\ HeldClaimIsCurrent'
    <2>1. CASE StartRun(w)
      <3>1. /\ KeepsClaims(w) /\ worker'[w].now = Now(w)
            /\ worker[w].pc = "idle" /\ worker'[w].pc = "claiming"
        BY <1>b, <2>1, StartEffect
      <3>2. worker'[w].claims = <<>>
        BY <3>1 DEF KeepsClaims, Current, IdleIsEmpty
      <3> QED BY <1>1, <3>1, <3>2
    <2>2. CASE StopClaiming(w)
      BY <1>1, <1>b, <2>2, StopEffect
    <2>3. CASE PublishBatch(w)
      BY <1>1, <1>b, <2>3, PublishEffect
    <2>4. CASE ReportFailures(w)
      BY <1>1, <1>b, <2>4, ReportEffect
    <2> QED BY <1>2, <2>1, <2>2, <2>3, <2>4
  <1>3. ASSUME NEW w \in Workers, FinalizeBatch(w) \/ Fault(w)
        PROVE  IdleIsEmpty' /\ NowIsPast' /\ LoopClaims' /\ HeldClaimIsCurrent'
    <2>1. /\ OthersKeep(w) /\ clock' >= clock
          /\ worker'[w].now = 0 /\ worker'[w].pc # "claiming"
          /\ ClaimsOf(w)' \subseteq ClaimsOf(w)
          /\ worker'[w].pc = "idle" => worker'[w].claims = <<>>
      <3>1. CASE FinalizeBatch(w)
        BY <1>b, <3>1, FinalizeEffect
      <3>2. CASE Fault(w)
        <4>1. /\ OthersKeep(w) /\ clock' = clock
              /\ worker'[w].now = 0 /\ worker'[w].pc # "claiming"
              /\ worker'[w].claims = <<>>
          BY <1>b, <3>2, FaultEffect
        <4>2. ClaimsOf(w)' = {}
          BY <4>1 DEF ClaimsOf
        <4> QED BY <1>b, <4>1, <4>2
      <3> QED BY <1>3, <3>1, <3>2
    <2>2. \A v \in Workers :
            /\ worker'[v].now \in {worker[v].now, 0, Now(v)}
            /\ ClaimsOf(v)' \subseteq ClaimsOf(v)
            /\ worker'[v].pc = "claiming" => worker'[v] = worker[v]
            /\ worker'[v].pc = "idle" => worker'[v].claims = <<>>
      BY <2>1, SameClaims DEF OthersKeep, Current, IdleIsEmpty
    <2>3. \A e \in Entries :
            \/ outbox'[e] = outbox[e]
            \/ outbox'[e].status # "PROCESSING" /\ outbox[e].claimedBy = w
      BY <1>b, <1>3, FinalizeEffect, FaultEffect DEF ClaimHeld, ClaimHeldAt
    <2> QED BY <1>a, <1>b, <2>1, <2>2, <2>3, QuietStep
  <1>4. CASE Environment \/ UNCHANGED vars
    <2>1. /\ worker' = worker /\ clock' >= clock
          /\ \A e \in Entries :
               \/ outbox'[e] = outbox[e]
               \/ /\ outbox[e].status \in {"ABSENT", "SENT"}
                  /\ outbox'[e].status \in {"PENDING", "DELETED"}
      BY <1>b, <1>4, EnvironmentEffect
    <2>2. \A v \in Workers :
            /\ worker'[v].now = worker[v].now
            /\ ClaimsOf(v)' \subseteq ClaimsOf(v)
            /\ worker'[v].pc = "idle" => worker'[v].claims = <<>>
      BY <2>1, SameClaims DEF Current, IdleIsEmpty
    <2> QED BY <1>a, <2>1, <2>2, QuietStep
  <1>5. ASSUME NEW w \in Workers, ClaimEntry(w)
        PROVE  IdleIsEmpty' /\ NowIsPast' /\ LoopClaims' /\ HeldClaimIsCurrent'
    BY <1>a, <1>5, ClaimingStep
  <1> QED BY <1>2, <1>3, <1>4, <1>5 DEF Next, RunStep

\* Where the instances' clocks agree, the attempt count a worker labels a failure
\* with is the one in the database for as long as its claim is held.
THEOREM HeldClaimsAreCurrent ==
  ASSUME Synchronised
  PROVE  Spec => []HeldClaimIsCurrent
  <1>1. Init => Current
    <2> SUFFICES ASSUME Init PROVE IdleIsEmpty /\ NowIsPast /\ LoopClaims /\ HeldClaimIsCurrent
      BY InitIInv DEF Current
    <2>1. \A w \in Workers : /\ worker[w].claims = <<>> /\ worker[w].now = 0
                             /\ worker[w].pc = "idle" /\ Now(w) \in Nat
      BY InitTypeOK, NowIsNat, RestingWorker DEF Init, Resting
    <2>2. \A w \in Workers : ClaimsOf(w) = {}
      BY <2>1 DEF ClaimsOf
    <2> QED BY <2>1, <2>2 DEF IdleIsEmpty, NowIsPast, LoopClaims, HeldClaimIsCurrent
  <1>2. Current /\ [Next]_vars => Current'
    BY CurrentStep
  <1>3. Current => HeldClaimIsCurrent
    BY DEF Current
  <1> QED BY <1>1, <1>2, <1>3, PTL DEF Spec

=============================================================================
