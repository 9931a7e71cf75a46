---------------------------- MODULE UploadVerdict ----------------------------
(***************************************************************************)
(* What a client is told of its upload: GET /uploader/status/{uploadId}    *)
(* asks CDP Uploader and, once the upload is ready with no rejected file,  *)
(* getLocalVerdictByUploadId (uploader-status-service.js) reads four       *)
(* collections one after the other, while callbacks and the outbox poller  *)
(* write to them.                                                          *)
(*                                                                         *)
(* The database and the callbacks are those of Intake; the poller is       *)
(* reduced to the outcomes its transaction can have for a file, which are  *)
(* those of Outbox.tla: both implement EntryLife.tla.                      *)
(***************************************************************************)
EXTENDS Intake

CONSTANT Polls     \* status requests

VARIABLES
  poll,   \* the status requests
  scan    \* what CDP Uploader answers of each upload (external)

allVars == <<vars, poll, scan>>

\* The values of "stage" in the answer.
Verdicts == {"scanning", "awaiting-callback", "accepted", "delivery-failed",
             "rejected-by-processor", "rejected-by-scanner"}

\* How far an upload has come: no verdict is ever withdrawn for a lower one.
Rank(verdict) == CASE verdict = "scanning" -> 0
                   [] verdict = "awaiting-callback" -> 1
                   [] verdict = "accepted" -> 2
                   [] verdict = "delivery-failed" -> 3
                   [] verdict = "rejected-by-processor" -> 4
                   [] verdict = "rejected-by-scanner" -> 5

\* "failed": the client is answered 404, 500, 502 or 504.
Poll == [pc : {"unused", "uploader", "session", "status", "metadata", "outbox",
               "done", "failed"},
         upload : Uploads \cup {NoId},
         files : SUBSET Files,        \* fileIds of the status records
         isPublished : SUBSET Files,  \* those with a publishedAt when it was read
         verdict : Verdicts,
         truth : Verdicts,            \* the upload's verdict when the poll began
         seen : Verdicts]             \* the same, as the member that is read had it

UnusedPoll == [pc |-> "unused", upload |-> NoId, files |-> {}, isPublished |-> {},
               verdict |-> "scanning", truth |-> "scanning", seen |-> "scanning"]

VerdictInit ==
  /\ Init
  /\ poll = [p \in Polls |-> UnusedPoll]
  /\ scan = [u \in Uploads |-> "pending"]

-----------------------------------------------------------------------------
(* CDP Uploader                                                            *)

\* It has scanned the files of an upload: ready, or ready with rejected files.
FinishScan(u) ==
  /\ initiate[u] = "open"
  /\ scan[u] = "pending"
  /\ \E result \in {"ready", "rejected"} : scan' = [scan EXCEPT ![u] = result]
  /\ UNCHANGED <<vars, poll>>

\* It calls back for an upload it has scanned.
CallbackFollowsScan ==
  \A r \in Requests :
    request'[r].pc = "resolving" => scan[request'[r].upload] # "pending"

IntakeStep == Next /\ CallbackFollowsScan /\ UNCHANGED <<poll, scan>>

-----------------------------------------------------------------------------
(* The poller, for one file                                                *)

\* SENT and publishedAt are written in one transaction.
DeliverFile(f) ==
  /\ db.outbox[f] = "PENDING"
  /\ db' = [db EXCEPT !.outbox[f] = "SENT", !.published[f] = TRUE]
  /\ UNCHANGED <<replica, initiate, request, created, failed, faults, poll, scan>>

GiveUpFile(f) ==
  /\ db.outbox[f] = "PENDING"
  /\ db' = [db EXCEPT !.outbox[f] = "PERMANENT_FAILURE"]
  /\ UNCHANGED <<replica, initiate, request, created, failed, faults, poll, scan>>

\* The TTL index removes a SENT entry.
ExpireFile(f) ==
  /\ db.outbox[f] = "SENT"
  /\ db' = [db EXCEPT !.outbox[f] = "DELETED"]
  /\ UNCHANGED <<replica, initiate, request, created, failed, faults, poll, scan>>

-----------------------------------------------------------------------------
(* getLocalVerdictByUploadId                                               *)

StatusRecords(d, u) == {s \in d.status : s.id = u}

\* Mutant of HasRejection: every record must be a rejection.
AllRejected(d, u) == \A s \in StatusRecords(d, u) : ~s.validated

HasRejection(d, u) == \E s \in StatusRecords(d, u) : ~s.validated

\* hasUnpublishedPermanentFailure
Undelivered(files, outbox, isPublished) ==
  \E f \in files : outbox[f] = "PERMANENT_FAILURE" /\ f \notin isPublished

\* The verdict an upload deserves in database d, were it read at one instant.
VerdictIn(d, u) ==
  LET files == {s.file : s \in StatusRecords(d, u)}
      known == u \in d.sessions /\ files # {}
  IN  CASE ~known -> "awaiting-callback"
        [] known /\ HasRejection(d, u) -> "rejected-by-processor"
        [] known /\ ~HasRejection(d, u) ->
             IF Undelivered(files, d.outbox, {f \in files : d.published[f]})
             THEN "delivery-failed" ELSE "accepted"

\* The answer it deserves, given what its scan has found.
AnswerIn(d, result, u) ==
  CASE result = "pending" -> "scanning"
    [] result = "rejected" -> "rejected-by-scanner"
    [] result = "ready" -> VerdictIn(d, u)

Truth(u) == AnswerIn(db, scan[u], u)

Seen(u) == AnswerIn(ReadView, scan[u], u)

\* The client knows an uploadId only once initiate has answered.
StartPoll(p, u) ==
  /\ poll[p].pc = "unused"
  /\ initiate[u] = "open"
  /\ poll' = [poll EXCEPT ![p] =
       [UnusedPoll EXCEPT !.pc = "uploader", !.upload = u,
                          !.truth = Truth(u), !.seen = Seen(u)]]
  /\ UNCHANGED <<vars, scan>>

Conclude(p, verdict) ==
  poll' = [poll EXCEPT ![p].pc = "done", ![p].verdict = verdict]

\* CDP Uploader cannot be reached, or answers something that is not a status; or a
\* collection cannot be read.
PollFails(p) ==
  /\ poll[p].pc \in {"uploader", "session", "status", "metadata", "outbox"}
  /\ poll' = [poll EXCEPT ![p].pc = "failed"]
  /\ UNCHANGED <<vars, scan>>

\* mapCdpStatus: the local verdict counts only when the scan found nothing.
AskUploader(p) ==
  /\ poll[p].pc = "uploader"
  /\ CASE scan[poll[p].upload] = "pending" -> Conclude(p, "scanning")
       [] scan[poll[p].upload] = "rejected" -> Conclude(p, "rejected-by-scanner")
       [] scan[poll[p].upload] = "ready" -> poll' = [poll EXCEPT ![p].pc = "session"]
  /\ UNCHANGED <<vars, scan>>

\* Mutant of ReadSession: the status records are not read.
SkipStatus(p) ==
  /\ poll[p].pc = "session"
  /\ IF poll[p].upload \in ReadView.sessions
     THEN poll' = [poll EXCEPT ![p].pc = "metadata"]
     ELSE Conclude(p, "awaiting-callback")
  /\ UNCHANGED <<vars, scan>>

\* getSessionByUploadId
ReadSession(p) ==
  /\ poll[p].pc = "session"
  /\ IF poll[p].upload \in ReadView.sessions
     THEN poll' = [poll EXCEPT ![p].pc = "status"]
     ELSE Conclude(p, "awaiting-callback")
  /\ UNCHANGED <<vars, scan>>

\* getStatusByCorrelationId; a single rejected record decides.
ReadStatus(p) ==
  /\ poll[p].pc = "status"
  /\ LET records == StatusRecords(ReadView, poll[p].upload)
     IN  CASE records = {} -> Conclude(p, "awaiting-callback")
           [] HasRejection(ReadView, poll[p].upload) ->
                Conclude(p, "rejected-by-processor")
           [] records # {} /\ ~HasRejection(ReadView, poll[p].upload) ->
                poll' = [poll EXCEPT ![p].pc = "metadata",
                                     ![p].files = {s.file : s \in records}]
  /\ UNCHANGED <<vars, scan>>

\* Mutant of ReadMetadata: a document counts as published whatever its
\* publishedAt.
StoredIsPublished(p) ==
  /\ poll[p].pc = "metadata"
  /\ poll' = [poll EXCEPT
       ![p].pc = "outbox",
       ![p].isPublished = {f \in poll[p].files : ReadView.metadata[f] # NoId}]
  /\ UNCHANGED <<vars, scan>>

\* getMetadataMessagingByFileIds
ReadMetadata(p) ==
  /\ poll[p].pc = "metadata"
  /\ poll' = [poll EXCEPT
       ![p].pc = "outbox",
       ![p].isPublished = {f \in poll[p].files : ReadView.published[f]}]
  /\ UNCHANGED <<vars, scan>>

\* getOutboxStatusesByFileIds
ReadOutbox(p) ==
  /\ poll[p].pc = "outbox"
  /\ Conclude(p, IF Undelivered(poll[p].files, ReadView.outbox, poll[p].isPublished)
                 THEN "delivery-failed" ELSE "accepted")
  /\ UNCHANGED <<vars, scan>>

PollStep(p) == \/ \E u \in Uploads : StartPoll(p, u)
               \/ PollFails(p)
               \/ AskUploader(p)
               \/ ReadSession(p)
               \/ ReadStatus(p)
               \/ ReadMetadata(p)
               \/ ReadOutbox(p)

Deliver(f) == DeliverFile(f) \/ GiveUpFile(f) \/ ExpireFile(f)

VerdictNext == \/ IntakeStep
               \/ \E u \in Uploads : FinishScan(u)
               \/ \E f \in Files : Deliver(f)
               \/ \E p \in Polls : PollStep(p)

VerdictSpec == VerdictInit /\ [][VerdictNext]_allVars

-----------------------------------------------------------------------------
(* Properties                                                              *)

\* The comment on getLocalVerdictByUploadId: a write that landed just before
\* the call is visible to every read of it.  So a poll never reports less than
\* was true when it began.
VerdictNotBehind ==
  \A p \in Polls :
    poll[p].pc = "done" => Rank(poll[p].verdict) >= Rank(poll[p].truth)

\* What the session does give, whichever member is read: its reads do not go back
\* in time.  However the secondary lags, or catches up between two of the reads, a
\* poll never reports less than that member showed when it began.
VerdictNotOlder ==
  \A p \in Polls :
    poll[p].pc = "done" => Rank(poll[p].verdict) >= Rank(poll[p].seen)

\* Nor more than is true when it answers: however writes fall between its five
\* reads, a poll never announces an acceptance, a failed delivery or a
\* rejection the database does not hold.
VerdictNotAhead ==
  [][\A p \in Polls :
       poll'[p].pc = "done" /\ poll[p].pc # "done" =>
         Rank(poll'[p].verdict) <= Rank(Truth(poll[p].upload))]_allVars

\* What a poll may have told the client is never taken back: no later callback,
\* retry or delivery lowers an upload's verdict.
VerdictAdvances ==
  [][\A u \in Uploads : Rank(Truth(u)) <= Rank(Truth(u))']_allVars

EntryView(f) == [status |-> db.outbox[f], published |-> db.published[f]]

Life == INSTANCE EntryLife WITH life <- [f \in Files |-> EntryView(f)]

\* The entries run the course that those of Outbox.tla do, so that the reduced
\* poller stands for the detailed one: no callback inserts an entry again, and
\* none changes what the poller made of it.
KeepsEntryLife == Life!Spec

\* While nothing fails and CDP Uploader echoes the metadata, an upload whose
\* callback was answered 201 does have a verdict: no client polls for ever.
AnsweredIsKnown ==
  faults = 0 =>
    \A r \in Requests :
      (request[r].echoed /\ request[r].response \in {"rejected", "created"})
        => VerdictIn(db, request[r].upload) # "awaiting-callback"

=============================================================================
