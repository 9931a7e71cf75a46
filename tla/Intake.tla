------------------------------- MODULE Intake -------------------------------
(***************************************************************************)
(* How an upload enters the database: POST /uploader/initiate mints a      *)
(* journey id and stores the session; CDP Uploader later posts callbacks,  *)
(* which are correlated with the session, validated, and stored as status, *)
(* metadata and outbox documents in one transaction.  Callbacks may be     *)
(* delivered twice and are handled concurrently, one MongoDB operation at  *)
(* a time (src/api/v1/uploader/initiate, src/api/v1/callback,              *)
(* src/services/metadata-service.js, journey-correlation-service.js).      *)
(*                                                                         *)
(* The journey id of an upload is modelled by the upload itself, and the   *)
(* id generated for a callback that cannot be correlated by the request.   *)
(***************************************************************************)
EXTENDS Integers, FiniteSets

CONSTANTS
  Uploads,         \* uploads, each with the journey id minted for it
  Files,           \* fileIds
  FilesOf,         \* the files of each upload
  Requests,        \* callback requests
  NoId,            \* no correlation id
  ReadSecondary,   \* mongo.readPreference is a secondary one
  MaxFaults        \* bound on failing or interrupted operations

ASSUME IdAssumption ==
  /\ Uploads \cap Requests = {}
  /\ NoId \notin Uploads \cup Requests
ASSUME FilesAssumption ==
  /\ FilesOf \in [Uploads -> (SUBSET Files) \ {{}}]
  /\ \A u, v \in Uploads : u # v => FilesOf[u] \cap FilesOf[v] = {}
ASSUME ModeAssumption == ReadSecondary \in BOOLEAN /\ MaxFaults \in Nat

VARIABLES
  db,        \* the collections on the primary
  replica,   \* the collections on the secondary that serves reads
  initiate,  \* the initiate request of each upload
  request,   \* the callback requests
  created,   \* per file: "document created" audit events sent
  failed,    \* per file: "document failed" audit events sent
  faults     \* operations that failed so far

vars == <<db, replica, initiate, request, created, failed, faults>>

-----------------------------------------------------------------------------
(* State                                                                   *)

CorrelationId == Uploads \cup Requests

StatusRecord == [id : CorrelationId, file : Files, validated : BOOLEAN]

\* sessions and status are sets of documents; metadata holds the correlationId
\* of the file's document under the unique index on fileId; outbox the status
\* of its entry; published tells whether its messaging.publishedAt is set.
Database == [sessions : SUBSET Uploads,
             status : SUBSET StatusRecord,
             metadata : [Files -> CorrelationId \cup {NoId}],
             outbox : [Files -> {"ABSENT", "PENDING", "SENT", "PERMANENT_FAILURE",
                                 "DELETED"}],
             published : [Files -> BOOLEAN]]

EmptyDatabase == [sessions |-> {}, status |-> {},
                  metadata |-> [f \in Files |-> NoId],
                  outbox |-> [f \in Files |-> "ABSENT"],
                  published |-> [f \in Files |-> FALSE]]

\* "schema": fails the Joi schema and is handled by failAction.  "contract":
\* fails validateCallbackPayload in the handler.  "valid": fails neither.
Kinds == {"schema", "contract", "valid"}

Request == [pc : {"unused", "resolving", "rejecting", "persisting", "duplicate",
                  "auditing", "done"},
            upload : Uploads \cup {NoId},
            kind : Kinds,
            echoed : BOOLEAN,   \* carries the upload's journey id, sbi and submissionId
            id : CorrelationId \cup {NoId},          \* the resolved correlation id
            response : {"none", "rejected", "created", "duplicate", "error"}]

Unused == [pc |-> "unused", upload |-> NoId, kind |-> "valid", echoed |-> FALSE,
           id |-> NoId, response |-> "none"]

Init ==
  /\ db = EmptyDatabase
  /\ replica = EmptyDatabase
  /\ initiate = [u \in Uploads |-> "none"]
  /\ request = [r \in Requests |-> Unused]
  /\ created = [f \in Files |-> 0]
  /\ failed = [f \in Files |-> 0]
  /\ faults = 0

\* Mutant of ReadView: the secondary is read whatever the preference.
StaleView == replica

\* What an operation without a transaction reads.
ReadView == IF ReadSecondary THEN replica ELSE db

FilesIn(r) == FilesOf[request[r].upload]

Fails == faults < MaxFaults /\ faults' = faults + 1

Replicate ==
  /\ ReadSecondary
  /\ replica # db
  /\ replica' = db
  /\ UNCHANGED <<db, initiate, request, created, failed, faults>>

-----------------------------------------------------------------------------
(* POST /uploader/initiate                                                 *)

\* The journey id is minted and the request forwarded to CDP Uploader, whose
\* answer is good, or is an error that is passed on (external).
ForwardInitiate(u) ==
  /\ initiate[u] = "none"
  /\ initiate' = [initiate EXCEPT ![u] = "forwarded"]
  /\ UNCHANGED <<db, replica, request, created, failed, faults>>

RefuseInitiate(u) ==
  /\ initiate[u] = "forwarded"
  /\ initiate' = [initiate EXCEPT ![u] = "refused"]
  /\ UNCHANGED <<db, replica, request, created, failed, faults>>

\* insertSession; the client is given the upload's url only after it.
InsertSession(u) ==
  /\ initiate[u] = "forwarded"
  /\ initiate' = [initiate EXCEPT ![u] = "open"]
  /\ db' = [db EXCEPT !.sessions = @ \cup {u}]
  /\ UNCHANGED <<replica, request, created, failed, faults>>

\* insertSession throws, with its document stored or not: 503.
InsertSessionThrows(u) ==
  /\ initiate[u] = "forwarded"
  /\ Fails
  /\ initiate' = [initiate EXCEPT ![u] = "refused"]
  /\ \/ db' = [db EXCEPT !.sessions = @ \cup {u}]
     \/ db' = db
  /\ UNCHANGED <<replica, request, created, failed>>

-----------------------------------------------------------------------------
(* POST /callback                                                          *)

\* CDP Uploader calls back for an upload somebody could start (external): any
\* number of times, well or ill formed, the metadata echoed or not.
ReceiveCallback(r, u, kind, echoed) ==
  /\ request[r].pc = "unused"
  /\ initiate[u] = "open"
  /\ request' = [request EXCEPT ![r] =
       [Unused EXCEPT !.pc = "resolving", !.upload = u, !.kind = kind,
                      !.echoed = echoed]]
  /\ UNCHANGED <<db, replica, initiate, created, failed, faults>>

AfterResolving(kind) == IF kind = "valid" THEN "persisting" ELSE "rejecting"

\* Mutant of ResolveJourneyId: the session is not consulted at all.
GenerateJourneyId(r) ==
  /\ request[r].pc = "resolving"
  /\ request' = [request EXCEPT ![r].pc = AfterResolving(request[r].kind), ![r].id = r]
  /\ UNCHANGED <<db, replica, initiate, created, failed, faults>>

\* resolveJourneyId: the journey id, if a session confirms it, or a fresh one.
ResolveJourneyId(r) ==
  /\ request[r].pc = "resolving"
  /\ request' = [request EXCEPT
       ![r].pc = AfterResolving(request[r].kind),
       ![r].id = IF request[r].echoed /\ request[r].upload \in ReadView.sessions
                 THEN request[r].upload ELSE r]
  /\ UNCHANGED <<db, replica, initiate, created, failed, faults>>

\* The session lookup throws: the callback goes on with a fresh id.
LookupThrows(r) ==
  /\ request[r].pc = "resolving"
  /\ request[r].echoed
  /\ Fails
  /\ request' = [request EXCEPT ![r].pc = AfterResolving(request[r].kind), ![r].id = r]
  /\ UNCHANGED <<db, replica, initiate, created, failed>>

StatusOf(id, files, validated) ==
  {[id |-> id, file |-> f, validated |-> validated] : f \in files}

Answer(r, response) ==
  request' = [request EXCEPT ![r].pc = "done", ![r].response = response]

AuditFailed(files) ==
  failed' = [f \in Files |-> IF f \in files THEN failed[f] + 1 ELSE failed[f]]

\* Only failAction audits the rejection; validateCallbackPayload does not.
AuditRejection(r) ==
  IF request[r].kind = "schema" THEN AuditFailed(FilesIn(r)) ELSE failed' = failed

\* persistValidationFailureStatus, outside any transaction; then 201.
RejectCallback(r) ==
  /\ request[r].pc = "rejecting"
  /\ db' = [db EXCEPT !.status = @ \cup StatusOf(request[r].id, FilesIn(r), FALSE)]
  /\ AuditRejection(r)
  /\ Answer(r, "rejected")
  /\ UNCHANGED <<replica, initiate, created, faults>>

\* Its insertMany throws, having inserted some of the records: caught, 201.
RejectionThrows(r) ==
  /\ request[r].pc = "rejecting"
  /\ Fails
  /\ \E files \in SUBSET FilesIn(r) :
       db' = [db EXCEPT !.status = @ \cup StatusOf(request[r].id, files, FALSE)]
  /\ AuditRejection(r)
  /\ Answer(r, "rejected")
  /\ UNCHANGED <<replica, initiate, created>>

\* Mutant of HasDuplicate: the index on fileId is not unique.
NeverDuplicate(r) == FALSE

HasDuplicate(r) == \E f \in FilesIn(r) : db.metadata[f] # NoId

\* The three inserts of persistMetadataWithOutbox, committed together.  Every
\* file of a valid callback is 'complete', so each gets an outbox entry.
Stored(r) ==
  [db EXCEPT
     !.status = @ \cup StatusOf(request[r].id, FilesIn(r), TRUE),
     !.metadata = [f \in Files |-> IF f \in FilesIn(r) THEN request[r].id ELSE @[f]],
     !.outbox = [f \in Files |-> IF f \in FilesIn(r) THEN "PENDING" ELSE @[f]]]

PersistMetadata(r) ==
  /\ request[r].pc = "persisting"
  /\ ~HasDuplicate(r)
  /\ db' = Stored(r)
  /\ request' = [request EXCEPT ![r].pc = "auditing"]
  /\ UNCHANGED <<replica, initiate, created, failed, faults>>

\* Mutant of RefuseDuplicate: insertStatus is not given the session.
RefuseKeepsStatus(r) ==
  /\ request[r].pc = "persisting"
  /\ HasDuplicate(r)
  /\ db' = [db EXCEPT !.status = @ \cup StatusOf(request[r].id, FilesIn(r), TRUE)]
  /\ request' = [request EXCEPT ![r].pc = "duplicate"]
  /\ UNCHANGED <<replica, initiate, created, failed, faults>>

\* The unique index refuses a file: error 11000, and the transaction aborts.
RefuseDuplicate(r) ==
  /\ request[r].pc = "persisting"
  /\ HasDuplicate(r)
  /\ request' = [request EXCEPT ![r].pc = "duplicate"]
  /\ UNCHANGED <<db, replica, initiate, created, failed, faults>>

\* Mutant of PersistThrows: the error is swallowed.
PersistSwallows(r) ==
  /\ request[r].pc = "persisting"
  /\ Fails
  /\ Answer(r, "created")
  /\ UNCHANGED <<db, replica, initiate, created, failed>>

\* withTransaction throws, the commit lost or its outcome unknown: 500.
PersistThrows(r) ==
  /\ request[r].pc = "persisting"
  /\ Fails
  /\ \/ db' = db
     \/ ~HasDuplicate(r) /\ db' = Stored(r)
  /\ AuditFailed(FilesIn(r))
  /\ Answer(r, "error")
  /\ UNCHANGED <<replica, initiate, created>>

\* getMetadataByFileId on the first file, to find the id already stored.
FirstFile(r) == CHOOSE f \in FilesIn(r) : TRUE

AnswerDuplicate(r) ==
  /\ request[r].pc = "duplicate"
  /\ ReadView.metadata[FirstFile(r)] # NoId
  /\ Answer(r, "duplicate")
  /\ UNCHANGED <<db, replica, initiate, created, failed, faults>>

\* NotFoundError: the index knows the file, the member that is read does not.
DuplicateNotFound(r) ==
  /\ request[r].pc = "duplicate"
  /\ ReadView.metadata[FirstFile(r)] = NoId
  /\ AuditFailed(FilesIn(r))
  /\ Answer(r, "error")
  /\ UNCHANGED <<db, replica, initiate, created, faults>>

DuplicateLookupThrows(r) ==
  /\ request[r].pc = "duplicate"
  /\ Fails
  /\ AuditFailed(FilesIn(r))
  /\ Answer(r, "error")
  /\ UNCHANGED <<db, replica, initiate, created>>

AuditCreated(r) ==
  /\ request[r].pc = "auditing"
  /\ created' = [f \in Files |-> IF f \in FilesIn(r) THEN created[f] + 1 ELSE created[f]]
  /\ Answer(r, "created")
  /\ UNCHANGED <<db, replica, initiate, failed, faults>>

\* The instance dies while it handles the request.
LoseRequest(r) ==
  /\ request[r].pc \notin {"unused", "done"}
  /\ Fails
  /\ Answer(r, "none")
  /\ UNCHANGED <<db, replica, initiate, created, failed>>

-----------------------------------------------------------------------------

InitiateStep(u) == \/ ForwardInitiate(u)
                   \/ RefuseInitiate(u)
                   \/ InsertSession(u)
                   \/ InsertSessionThrows(u)

Handle(r) == \/ ResolveJourneyId(r)
             \/ RejectCallback(r)
             \/ PersistMetadata(r)
             \/ RefuseDuplicate(r)
             \/ AnswerDuplicate(r)
             \/ DuplicateNotFound(r)
             \/ AuditCreated(r)

HandleFault(r) == \/ LookupThrows(r)
                  \/ RejectionThrows(r)
                  \/ PersistThrows(r)
                  \/ DuplicateLookupThrows(r)
                  \/ LoseRequest(r)

Next ==
  \/ \E u \in Uploads : InitiateStep(u)
  \/ \E r \in Requests :
       \/ \E u \in Uploads, kind \in Kinds, echoed \in BOOLEAN :
            ReceiveCallback(r, u, kind, echoed)
       \/ Handle(r)
       \/ HandleFault(r)
  \/ Replicate

Spec == Init /\ [][Next]_vars

-----------------------------------------------------------------------------
(* Properties                                                              *)

\* Every collection and every request keeps values of its type.
TypeOK ==
  /\ db \in Database
  /\ replica \in Database
  /\ initiate \in [Uploads -> {"none", "forwarded", "refused", "open"}]
  /\ request \in [Requests -> Request]
  /\ created \in [Files -> Nat]
  /\ failed \in [Files -> Nat]
  /\ faults \in Nat

IsStored(f) == db.metadata[f] # NoId

\* The files of an upload are stored together, under one correlation id (the
\* comment in metadata-service.js relies on it), and metadata, validated status
\* and outbox entry of a file stand or fall together, whatever callbacks race,
\* repeat or break off.
StoredTogether ==
  \A u \in Uploads : \A f \in FilesOf[u] :
    /\ IsStored(f) <=> db.outbox[f] # "ABSENT"
    /\ \A g \in FilesOf[u] : db.metadata[f] = db.metadata[g]
    /\ \A id \in CorrelationId :
         [id |-> id, file |-> f, validated |-> TRUE] \in db.status
           <=> db.metadata[f] = id

\* No answer promises what is not there: a callback answered as created or as a
\* duplicate has its files stored.
AnswerIsTrue ==
  \A r \in Requests :
    request[r].response \in {"created", "duplicate"} =>
      \A f \in FilesIn(r) : IsStored(f)

\* Of all the callbacks for an upload one stores it, under its own id, and is
\* the only one to audit its files as created.
OneCallbackStores ==
  /\ \A r \in Requests :
       request[r].pc = "auditing" \/ request[r].response = "created" =>
         \A f \in FilesIn(r) : db.metadata[f] = request[r].id
  /\ \A q, r \in Requests :
       (/\ request[q].upload = request[r].upload
        /\ request[q].pc = "auditing" \/ request[q].response = "created"
        /\ request[r].pc = "auditing" \/ request[r].response = "created") => q = r
  /\ \A f \in Files : created[f] <= 1 /\ (created[f] > 0 => IsStored(f))

Queued == {f \in Files : db.outbox[f] # "ABSENT"}

Accepted == {[id |-> s.id, file |-> s.file] : s \in {s \in db.status : s.validated}}

Register == INSTANCE UploadRegister WITH Ids <- CorrelationId,
                                         id <- db.metadata,
                                         queued <- Queued,
                                         accepted <- Accepted,
                                         announced <- created

\* Every step of the callbacks is one the register allows: whatever races,
\* repeats or breaks off, the first stored id stands, no later callback replaces
\* it, queues a file again or adds an accepting record of its own.
KeepsRegister == Register!Spec

\* While nothing fails, a duplicate callback is answered 200, never 500, and no
\* stored document is audited as failed to process on its account: only a callback
\* the schema rejects has its files audited so.
DuplicateIsIgnored ==
  faults = 0 =>
    /\ \A r \in Requests : request[r].response # "error"
    /\ \A f \in Files : failed[f] > 0 =>
         \E r \in Requests : /\ request[r].response = "rejected"
                             /\ request[r].kind = "schema"
                             /\ f \in FilesIn(r)

=============================================================================
