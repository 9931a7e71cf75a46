---------------------------- MODULE IntakeProofs ----------------------------
(***************************************************************************)
(* Proofs, for any number of uploads, files and callbacks and any faults,  *)
(* that an upload is stored whole, once and under one id, that answers are *)
(* true, and that the intake implements UploadRegister; and, for reads of  *)
(* the primary, that duplicates do no harm.                                *)
(***************************************************************************)
EXTENDS Intake, TLAPS

USE IdAssumption, FilesAssumption, ModeAssumption

-----------------------------------------------------------------------------
(* What a step does to the stored files                                    *)

\* As far as the files of uploads go, the database stays as it is: new records
\* are rejections, and entries that are there may move on.
SameFiles ==
  /\ db'.metadata = db.metadata
  /\ \A f \in Files : db'.outbox[f] = "ABSENT" <=> db.outbox[f] = "ABSENT"
  /\ \A s \in StatusRecord : s.validated => (s \in db'.status <=> s \in db.status)

\* The transaction of callback r commits.
StoresFiles(r) ==
  /\ request[r].upload \in Uploads
  /\ request[r].id \in CorrelationId
  /\ ~HasDuplicate(r)
  /\ db' = Stored(r)

\* Stored files stay stored, under the id they have.
StoredGrows ==
  \A f \in Files : IsStored(f) => db'.metadata[f] = db.metadata[f]

\* The files of different uploads are different.
LEMMA OwnFiles ==
  ASSUME NEW u \in Uploads, NEW v \in Uploads, NEW f, f \in FilesOf[u], f \in FilesOf[v]
  PROVE  u = v /\ f \in Files /\ FilesOf[u] \subseteq Files /\ FilesOf[u] # {}
  OBVIOUS

\* A transaction that commits keeps the types of the collections.
LEMMA StoredType ==
  ASSUME TypeOK, NEW r \in Requests, StoresFiles(r)
  PROVE  /\ db' \in Database
         /\ db'.sessions = db.sessions
         /\ db'.published = db.published
         /\ db'.metadata = [f \in Files |-> IF f \in FilesIn(r) THEN request[r].id
                                            ELSE db.metadata[f]]
         /\ db'.outbox = [f \in Files |-> IF f \in FilesIn(r) THEN "PENDING"
                                          ELSE db.outbox[f]]
         /\ db'.status = db.status \cup StatusOf(request[r].id, FilesIn(r), TRUE)
<1>1. FilesIn(r) \subseteq Files
  BY DEF StoresFiles, FilesIn
<1>2. StatusOf(request[r].id, FilesIn(r), TRUE) \subseteq StatusRecord
  <2>1. ASSUME NEW g \in Files
        PROVE  [id |-> request[r].id, file |-> g, validated |-> TRUE] \in StatusRecord
    BY DEF StoresFiles, StatusRecord
  <2>. QED
    BY <1>1, <2>1 DEF StatusOf
<1>3. db \in Database /\ db' = Stored(r)
  BY DEF TypeOK, StoresFiles
<1>. DEFINE status == db.status \cup StatusOf(request[r].id, FilesIn(r), TRUE)
            metadata == [f \in Files |-> IF f \in FilesIn(r) THEN request[r].id
                                        ELSE db.metadata[f]]
            outbox == [f \in Files |-> IF f \in FilesIn(r) THEN "PENDING"
                                      ELSE db.outbox[f]]
<1>9. db' = [db EXCEPT !.status = status, !.metadata = metadata, !.outbox = outbox]
  BY <1>3 DEF Stored
<1>. HIDE DEF status, metadata, outbox
<1>10. /\ db'.sessions = db.sessions
       /\ db'.published = db.published
       /\ db'.metadata = metadata
       /\ db'.outbox = outbox
       /\ db'.status = status
       /\ db' = [sessions |-> db'.sessions, status |-> db'.status,
                 metadata |-> db'.metadata, outbox |-> db'.outbox,
                 published |-> db'.published]
  BY <1>3, <1>9 DEF Database
<1>4. /\ db'.sessions = db.sessions
      /\ db'.published = db.published
      /\ db'.metadata = [f \in Files |-> IF f \in FilesIn(r) THEN request[r].id
                                         ELSE db.metadata[f]]
      /\ db'.outbox = [f \in Files |-> IF f \in FilesIn(r) THEN "PENDING"
                                       ELSE db.outbox[f]]
      /\ db'.status = db.status \cup StatusOf(request[r].id, FilesIn(r), TRUE)
      /\ db' = [sessions |-> db'.sessions, status |-> db'.status,
                metadata |-> db'.metadata, outbox |-> db'.outbox,
                published |-> db'.published]
  BY <1>10 DEF status, metadata, outbox
<1>5. db'.metadata \in [Files -> CorrelationId \cup {NoId}]
  BY <1>3, <1>4 DEF Database, StoresFiles
<1>6. db'.outbox \in [Files -> {"ABSENT", "PENDING", "SENT", "PERMANENT_FAILURE",
                                "DELETED"}]
  BY <1>3, <1>4 DEF Database
<1>7. db'.status \in SUBSET StatusRecord
  BY <1>2, <1>3, <1>4 DEF Database
<1>8. db'.sessions \in SUBSET Uploads /\ db'.published \in [Files -> BOOLEAN]
  BY <1>3, <1>4 DEF Database
<1>. QED
  BY <1>4, <1>5, <1>6, <1>7, <1>8 DEF Database

\* Neither kind of step takes a stored file away or puts it under another id.
LEMMA StoredStays ==
  ASSUME TypeOK, SameFiles \/ \E r \in Requests : StoresFiles(r)
  PROVE  StoredGrows
<1>1. CASE SameFiles
  BY <1>1 DEF SameFiles, StoredGrows
<1>2. ASSUME NEW r \in Requests, StoresFiles(r) PROVE StoredGrows
  <2>1. \A f \in FilesIn(r) : ~IsStored(f)
    BY <1>2 DEF StoresFiles, HasDuplicate, IsStored
  <2>2. db'.metadata = [f \in Files |-> IF f \in FilesIn(r) THEN request[r].id
                                        ELSE db.metadata[f]]
    BY <1>2, StoredType
  <2>. QED
    BY <2>1, <2>2 DEF StoredGrows
<1>. QED
  BY <1>1, <1>2

\* Both keep the files of an upload together.
LEMMA TogetherStep ==
  ASSUME TypeOK, StoredTogether, SameFiles \/ \E r \in Requests : StoresFiles(r)
  PROVE  StoredTogether'
<1>1. CASE SameFiles
  <2>1. ASSUME NEW u \in Uploads, NEW f \in FilesOf[u], NEW id \in CorrelationId
        PROVE  [id |-> id, file |-> f, validated |-> TRUE] \in db'.status
                 <=> db'.metadata[f] = id
    <3>1. [id |-> id, file |-> f, validated |-> TRUE] \in StatusRecord
      BY DEF StatusRecord
    <3>. QED
      BY <1>1, <3>1 DEF SameFiles, StoredTogether
  <2>2. ASSUME NEW u \in Uploads, NEW f \in FilesOf[u]
        PROVE  /\ IsStored(f)' <=> db'.outbox[f] # "ABSENT"
               /\ \A g \in FilesOf[u] : db'.metadata[f] = db'.metadata[g]
    BY <1>1 DEF SameFiles, StoredTogether, IsStored
  <2>. QED
    BY <2>1, <2>2 DEF StoredTogether
<1>2. ASSUME NEW r \in Requests, StoresFiles(r) PROVE StoredTogether'
  <2>9. /\ db'.metadata = [f \in Files |-> IF f \in FilesIn(r) THEN request[r].id
                                            ELSE db.metadata[f]]
        /\ db'.outbox = [f \in Files |-> IF f \in FilesIn(r) THEN "PENDING"
                                          ELSE db.outbox[f]]
        /\ db'.status = db.status \cup StatusOf(request[r].id, FilesIn(r), TRUE)
    BY <1>2, StoredType
  <2>1. SUFFICES ASSUME NEW u \in Uploads, NEW f \in FilesOf[u]
                 PROVE  /\ IsStored(f)' <=> db'.outbox[f] # "ABSENT"
                        /\ \A g \in FilesOf[u] : db'.metadata[f] = db'.metadata[g]
                        /\ \A id \in CorrelationId :
                             [id |-> id, file |-> f, validated |-> TRUE] \in db'.status
                               <=> db'.metadata[f] = id
    BY DEF StoredTogether
  <2>10. FilesIn(r) = FilesOf[request[r].upload] /\ request[r].upload \in Uploads
    BY <1>2 DEF StoresFiles, FilesIn
  <2>2. CASE u = request[r].upload
    <3>1. \A g \in FilesOf[u] : /\ g \in Files
                                /\ db.metadata[g] = NoId
                                /\ db'.metadata[g] = request[r].id
                                /\ db'.outbox[g] = "PENDING"
      BY <1>2, <2>2, <2>9, <2>10 DEF StoresFiles, HasDuplicate
    <3>2. ASSUME NEW id \in CorrelationId
          PROVE  [id |-> id, file |-> f, validated |-> TRUE] \in db'.status
                   <=> db'.metadata[f] = id
      <4>1. [id |-> id, file |-> f, validated |-> TRUE] \notin db.status
        BY <3>1 DEF StoredTogether, CorrelationId
      <4>2. [id |-> id, file |-> f, validated |-> TRUE]
               \in StatusOf(request[r].id, FilesIn(r), TRUE) <=> request[r].id = id
        BY <2>2, <2>10 DEF StatusOf
      <4>. QED
        BY <2>9, <3>1, <4>1, <4>2
    <3>. QED
      BY <1>2, <3>1, <3>2 DEF StoresFiles, IsStored, CorrelationId
  <2>3. CASE u # request[r].upload
    <3>1. \A g \in FilesOf[u] : /\ g \in Files /\ g \notin FilesIn(r)
                                /\ db'.metadata[g] = db.metadata[g]
                                /\ db'.outbox[g] = db.outbox[g]
      BY <2>3, <2>9, <2>10, OwnFiles
    <3>2. ASSUME NEW id \in CorrelationId
          PROVE  [id |-> id, file |-> f, validated |-> TRUE] \in db'.status
                   <=> db'.metadata[f] = id
      <4>1. [id |-> id, file |-> f, validated |-> TRUE]
               \notin StatusOf(request[r].id, FilesIn(r), TRUE)
        BY <3>1 DEF StatusOf
      <4>. QED
        <5>1. [id |-> id, file |-> f, validated |-> TRUE] \in db.status
                <=> db.metadata[f] = id
          BY DEF StoredTogether
        <5>. QED
          BY <2>9, <3>1, <4>1, <5>1
    <3>. QED
      BY <3>1, <3>2 DEF StoredTogether, IsStored
  <2>. QED
    BY <2>2, <2>3
<1>. QED
  BY <1>1, <1>2

-----------------------------------------------------------------------------
(* The callbacks                                                           *)

\* Callback r stored its upload, and is about to audit that or has done so.
IsStorer(r) == request[r].pc = "auditing" \/ request[r].response = "created"

\* What a callback knows of the database where it is.
RequestOK(r) ==
  /\ request[r].pc = "unused" \/ request[r].upload \in Uploads
  /\ request[r].pc \in {"rejecting", "persisting", "duplicate", "auditing"} =>
       request[r].id \in CorrelationId
  /\ request[r].pc # "done" => request[r].response = "none"
  /\ (\/ request[r].pc \in {"duplicate", "auditing"}
      \/ request[r].response \in {"created", "duplicate"}) =>
       \A f \in FilesIn(r) : IsStored(f)
  /\ IsStorer(r) => \A f \in FilesIn(r) : db.metadata[f] = request[r].id

OneStorer ==
  \A q, r \in Requests :
    request[q].upload = request[r].upload /\ IsStorer(q) /\ IsStorer(r) => q = r

\* A file is announced once, by a callback that has gone on since.
CreatedOK ==
  \A f \in Files :
    /\ created[f] <= 1
    /\ created[f] > 0 =>
         /\ IsStored(f)
         /\ \A r \in Requests : request[r].pc = "auditing" => f \notin FilesIn(r)

CallbacksOK == (\A r \in Requests : RequestOK(r)) /\ OneStorer /\ CreatedOK

IInv == TypeOK /\ StoredTogether /\ CallbacksOK

\* A callback whose record stays as it is loses nothing it knows.
LEMMA OtherRequest ==
  ASSUME NEW r \in Requests, RequestOK(r), StoredGrows, request'[r] = request[r]
  PROVE  RequestOK(r)' /\ IsStorer(r)' = IsStorer(r) /\ FilesIn(r)' = FilesIn(r)
<1>1. IsStorer(r)' = IsStorer(r) /\ FilesIn(r)' = FilesIn(r)
  BY DEF IsStorer, FilesIn
<1>2. /\ request[r].pc \in {"duplicate", "auditing"}
           \/ request[r].response \in {"created", "duplicate"} \/ IsStorer(r)
         => FilesIn(r) \subseteq Files
  BY DEF RequestOK, FilesIn, IsStorer
<1>3. \A f \in Files : IsStored(f) => IsStored(f)' /\ db'.metadata[f] = db.metadata[f]
  BY DEF StoredGrows, IsStored
<1>4. (\/ request'[r].pc \in {"duplicate", "auditing"}
       \/ request'[r].response \in {"created", "duplicate"}) =>
        \A f \in FilesIn(r)' : IsStored(f)'
  BY <1>1, <1>2, <1>3 DEF RequestOK
<1>5. IsStorer(r)' => \A f \in FilesIn(r)' : db'.metadata[f] = request'[r].id
  BY <1>1, <1>2, <1>3 DEF RequestOK, IsStorer
<1>. QED
  BY <1>1, <1>4, <1>5 DEF RequestOK

\* A step of one callback that neither stores nor announces anything.
LEMMA OneRequestMoves ==
  ASSUME CallbacksOK, StoredGrows, created' = created, NEW r \in Requests,
         \A q \in Requests \ {r} : request'[q] = request[q],
         RequestOK(r)',
         IsStorer(r)' => IsStorer(r) /\ request'[r].upload = request[r].upload,
         request'[r].pc = "auditing" => request[r].pc = "auditing"
  PROVE  CallbacksOK'
<1>1. \A q \in Requests : RequestOK(q)'
  BY OtherRequest DEF CallbacksOK
<1>2. \A q \in Requests :
        IsStorer(q)' => IsStorer(q) /\ request'[q].upload = request[q].upload
  BY DEF IsStorer
<1>3. OneStorer'
  BY <1>2 DEF CallbacksOK, OneStorer
<1>4. \A q \in Requests : request'[q].pc = "auditing" =>
        request[q].pc = "auditing" /\ request'[q].upload = request[q].upload
  BY <1>2 DEF IsStorer
<1>5. \A f \in Files : IsStored(f) => IsStored(f)'
  BY DEF StoredGrows, IsStored
<1>6. CreatedOK'
  BY <1>4, <1>5 DEF CallbacksOK, CreatedOK, FilesIn
<1>. QED
  BY <1>1, <1>3, <1>6 DEF CallbacksOK

\* A step of nobody's.
LEMMA NoRequestMoves ==
  ASSUME CallbacksOK, StoredGrows, created' = created, request' = request
  PROVE  CallbacksOK'
<1>1. \A r \in Requests : RequestOK(r)' /\ IsStorer(r)' = IsStorer(r)
  BY OtherRequest DEF CallbacksOK
<1>2. OneStorer'
  BY <1>1 DEF CallbacksOK, OneStorer
<1>3. \A f \in Files : IsStored(f) => IsStored(f)'
  BY DEF StoredGrows, IsStored
<1>4. CreatedOK'
  BY <1>3 DEF CallbacksOK, CreatedOK, FilesIn
<1>. QED
  BY <1>1, <1>2, <1>4 DEF CallbacksOK

-----------------------------------------------------------------------------
(* The steps of the intake                                                 *)

\* What every step does: the stored files stay, or one upload is stored.
Effect == /\ TypeOK'
          /\ CallbacksOK'
          /\ SameFiles \/ \E r \in Requests : StoresFiles(r)

\* A database that does not change.
LEMMA SameDb ==
  ASSUME db' = db
  PROVE  SameFiles /\ StoredGrows
  BY DEF SameFiles, StoredGrows

\* A session does not touch the stored files.
LEMMA SessionOnly ==
  ASSUME TypeOK, NEW u \in Uploads, db' = [db EXCEPT !.sessions = @ \cup {u}]
  PROVE  db' \in Database /\ SameFiles /\ StoredGrows
<1>1. db \in Database
  BY DEF TypeOK
<1>. QED
  BY <1>1 DEF Database, SameFiles, StoredGrows

\* A rejection adds no accepting record.
LEMMA RejectionOnly ==
  ASSUME TypeOK, NEW files \in SUBSET Files, NEW id \in CorrelationId,
         db' = [db EXCEPT !.status = @ \cup StatusOf(id, files, FALSE)]
  PROVE  db' \in Database /\ SameFiles /\ StoredGrows
<1>1. db \in Database
  BY DEF TypeOK
<1>2. \A s \in StatusOf(id, files, FALSE) : s \in StatusRecord /\ ~s.validated
  <2>1. ASSUME NEW f \in files
        PROVE  LET s == [id |-> id, file |-> f, validated |-> FALSE]
               IN  s \in StatusRecord /\ ~s.validated
    BY DEF StatusRecord
  <2>. QED
    BY <2>1 DEF StatusOf
<1>. DEFINE records == StatusOf(id, files, FALSE)
<1>. HIDE DEF records
<1>3. \A s \in records : s \in StatusRecord /\ ~s.validated
  BY <1>2 DEF records
<1>4. db' = [db EXCEPT !.status = @ \cup records]
  BY DEF records
<1>5. db' \in Database /\ db'.metadata = db.metadata /\ db'.outbox = db.outbox
  BY <1>1, <1>3, <1>4 DEF Database
<1>6. db'.status = db.status \cup records
  BY <1>1, <1>4 DEF Database
<1>. QED
  BY <1>3, <1>5, <1>6 DEF SameFiles, StoredGrows

\* What does not concern the callbacks: initiate and replication.
LEMMA InitiateEffect ==
  ASSUME IInv, NEW u \in Uploads, InitiateStep(u)
  PROVE  Effect
<1>1. /\ request' = request /\ created' = created /\ failed' = failed
      /\ replica' = replica /\ faults' \in Nat
      /\ initiate' \in [Uploads -> {"none", "forwarded", "refused", "open"}]
  BY DEF InitiateStep, ForwardInitiate, RefuseInitiate, InsertSession,
         InsertSessionThrows, Fails, IInv, TypeOK
<1>2. db' = db \/ db' = [db EXCEPT !.sessions = @ \cup {u}]
  BY DEF InitiateStep, ForwardInitiate, RefuseInitiate, InsertSession,
         InsertSessionThrows
<1>3. db' \in Database /\ SameFiles /\ StoredGrows
  BY <1>2, SameDb, SessionOnly DEF IInv, TypeOK
<1>4. TypeOK'
  BY <1>1, <1>3 DEF IInv, TypeOK
<1>5. CallbacksOK'
  BY <1>1, <1>3, NoRequestMoves DEF IInv
<1>. QED
  BY <1>3, <1>4, <1>5 DEF Effect

\* A replication changes only what the secondary shows.
LEMMA ReplicateEffect ==
  ASSUME IInv, Replicate
  PROVE  Effect
<1>1. /\ request' = request /\ created' = created /\ failed' = failed /\ db' = db
      /\ replica' = db /\ initiate' = initiate /\ faults' = faults
  BY DEF Replicate
<1>2. TypeOK'
  BY <1>1 DEF IInv, TypeOK
<1>3. SameFiles /\ StoredGrows
  BY <1>1, SameDb
<1>4. CallbacksOK'
  BY <1>1, <1>3, NoRequestMoves DEF IInv
<1>. QED
  BY <1>2, <1>3, <1>4 DEF Effect

\* A callback arrives.
LEMMA ReceiveEffect ==
  ASSUME IInv, NEW r \in Requests, NEW u \in Uploads, NEW kind \in Kinds,
         NEW echoed \in BOOLEAN, ReceiveCallback(r, u, kind, echoed)
  PROVE  Effect
<1>1. request'[r] = [Unused EXCEPT !.pc = "resolving", !.upload = u, !.kind = kind,
                                   !.echoed = echoed]
      /\ \A q \in Requests \ {r} : request'[q] = request[q]
  BY DEF ReceiveCallback, IInv, TypeOK
<1>2. db' = db /\ replica' = replica /\ initiate' = initiate /\ created' = created
      /\ failed' = failed /\ faults' = faults
  BY DEF ReceiveCallback
<1>3. request'[r] \in Request
  BY <1>1 DEF Request, Unused
<1>4. TypeOK'
  <2>1. request' \in [Requests -> Request]
    BY <1>3 DEF ReceiveCallback, IInv, TypeOK
  <2>. QED
    BY <1>2, <2>1 DEF IInv, TypeOK
<1>5. SameFiles /\ StoredGrows
  BY <1>2, SameDb
<1>6. RequestOK(r)' /\ ~IsStorer(r)' /\ request'[r].pc # "auditing"
  BY <1>1 DEF RequestOK, IsStorer, Unused
<1>7. CallbacksOK'
  BY <1>1, <1>2, <1>5, <1>6, OneRequestMoves DEF IInv
<1>. QED
  BY <1>4, <1>5, <1>7 DEF Effect

\* Events are counted.
LEMMA AuditType ==
  ASSUME TypeOK, NEW files, AuditFailed(files) \/ failed' = failed
  PROVE  failed' \in [Files -> Nat]
  BY DEF AuditFailed, TypeOK

\* The callback gets its correlation id, by the session or without it.
LEMMA ResolveEffect ==
  ASSUME IInv, NEW r \in Requests, ResolveJourneyId(r) \/ LookupThrows(r)
  PROVE  Effect
<1>1. PICK id \in {request[r].upload, r} :
        request' = [request EXCEPT ![r].pc = AfterResolving(request[r].kind), ![r].id = id]
  BY DEF ResolveJourneyId, LookupThrows
<1>2. /\ db' = db /\ replica' = replica /\ initiate' = initiate
      /\ created' = created /\ failed' = failed /\ faults' \in Nat
      /\ request[r].pc = "resolving"
  BY DEF ResolveJourneyId, LookupThrows, Fails, IInv, TypeOK
<1>3. request[r] \in Request /\ RequestOK(r)
  BY DEF IInv, TypeOK, CallbacksOK
<1>4. request[r].upload \in Uploads /\ id \in CorrelationId /\ request[r].response = "none"
  BY <1>2, <1>3 DEF RequestOK, CorrelationId
<1>5. /\ request' \in [Requests -> Request]
      /\ request'[r].pc \in {"persisting", "rejecting"}
      /\ request'[r].upload = request[r].upload
      /\ request'[r].response = "none"
      /\ request'[r].id = id
      /\ \A q \in Requests \ {r} : request'[q] = request[q]
  <2>1. AfterResolving(request[r].kind) \in {"persisting", "rejecting"}
    BY DEF AfterResolving
  <2>. DEFINE t == [request[r] EXCEPT !.pc = AfterResolving(request[r].kind), !.id = id]
  <2>2. /\ t \in Request /\ t.pc \in {"persisting", "rejecting"} /\ t.id = id
        /\ t.upload = request[r].upload /\ t.response = "none"
    BY <1>3, <1>4, <2>1 DEF Request
  <2>3. request' = [request EXCEPT ![r] = t] /\ request \in [Requests -> Request]
    BY <1>1 DEF IInv, TypeOK
  <2>. HIDE DEF t
  <2>. QED
    BY <2>2, <2>3
<1>6. TypeOK'
  BY <1>2, <1>5 DEF IInv, TypeOK
<1>7. SameFiles /\ StoredGrows
  BY <1>2, SameDb
<1>8. RequestOK(r)' /\ ~IsStorer(r)'
  BY <1>4, <1>5 DEF RequestOK, IsStorer
<1>9. CallbacksOK'
  BY <1>2, <1>5, <1>7, <1>8, OneRequestMoves DEF IInv
<1>. QED
  BY <1>6, <1>7, <1>9 DEF Effect

\* A callback that has been answered otherwise than as created or as a duplicate
\* claims nothing.
LEMMA AnswerFacts ==
  ASSUME IInv, NEW r \in Requests, request[r].pc # "unused",
         NEW response \in {"none", "rejected", "created", "duplicate", "error"},
         Answer(r, response)
  PROVE  /\ request' \in [Requests -> Request]
         /\ request'[r].pc = "done" /\ request'[r].response = response
         /\ request'[r].upload = request[r].upload
         /\ request'[r].id = request[r].id
         /\ \A q \in Requests \ {r} : request'[q] = request[q]
         /\ FilesIn(r)' = FilesIn(r)
         /\ response \notin {"created", "duplicate"} => RequestOK(r)' /\ ~IsStorer(r)'
<1>1. request[r] \in Request /\ RequestOK(r)
  BY DEF IInv, TypeOK, CallbacksOK
<1>. DEFINE t == [request[r] EXCEPT !.pc = "done", !.response = response]
<1>2. /\ t \in Request /\ t.pc = "done" /\ t.response = response
      /\ t.upload = request[r].upload /\ t.id = request[r].id
  BY <1>1 DEF Request
<1>7. request' = [request EXCEPT ![r] = t] /\ request \in [Requests -> Request]
  BY DEF Answer, IInv, TypeOK
<1>. HIDE DEF t
<1>3. /\ request' \in [Requests -> Request]
      /\ request'[r].pc = "done" /\ request'[r].response = response
      /\ request'[r].upload = request[r].upload
      /\ request'[r].id = request[r].id
      /\ \A q \in Requests \ {r} : request'[q] = request[q]
  BY <1>2, <1>7
<1>4. FilesIn(r)' = FilesIn(r)
  BY <1>3 DEF FilesIn
<1>5. request[r].upload \in Uploads
  BY <1>1 DEF RequestOK
<1>6. ASSUME response \notin {"created", "duplicate"} PROVE RequestOK(r)' /\ ~IsStorer(r)'
  BY <1>3, <1>5, <1>6 DEF RequestOK, IsStorer
<1>. QED
  BY <1>3, <1>4, <1>6

\* A rejected callback leaves rejections and its answer.
LEMMA RejectEffect ==
  ASSUME IInv, NEW r \in Requests, RejectCallback(r) \/ RejectionThrows(r)
  PROVE  Effect
<1>1. request[r].pc = "rejecting" /\ Answer(r, "rejected") /\ replica' = replica
      /\ initiate' = initiate /\ created' = created /\ faults' \in Nat
  <2>1. faults \in Nat
    BY DEF IInv, TypeOK
  <2>2. CASE RejectCallback(r)
    BY <2>1, <2>2 DEF RejectCallback
  <2>3. CASE RejectionThrows(r)
    BY <2>1, <2>3 DEF RejectionThrows, Fails
  <2>. QED
    BY <2>2, <2>3
<1>2. PICK files \in SUBSET FilesIn(r) :
        db' = [db EXCEPT !.status = @ \cup StatusOf(request[r].id, files, FALSE)]
  <2>1. CASE RejectCallback(r)
    BY <2>1 DEF RejectCallback
  <2>2. CASE RejectionThrows(r)
    BY <2>2 DEF RejectionThrows
  <2>. QED
    BY <2>1, <2>2
<1>3. RequestOK(r) /\ TypeOK
  BY DEF IInv, CallbacksOK
<1>4. files \in SUBSET Files /\ request[r].id \in CorrelationId
  BY <1>1, <1>3 DEF RequestOK, FilesIn
<1>5. db' \in Database /\ SameFiles /\ StoredGrows
  BY <1>2, <1>3, <1>4, RejectionOnly
<1>6. failed' \in [Files -> Nat]
  BY <1>3, AuditType DEF RejectCallback, RejectionThrows, AuditRejection
<1>7. /\ request' \in [Requests -> Request] /\ RequestOK(r)' /\ ~IsStorer(r)'
      /\ request'[r].pc = "done"
      /\ \A q \in Requests \ {r} : request'[q] = request[q]
  BY <1>1, AnswerFacts
<1>8. TypeOK'
  BY <1>1, <1>3, <1>5, <1>6, <1>7 DEF TypeOK
<1>9. CallbacksOK'
  BY <1>1, <1>5, <1>7, OneRequestMoves DEF IInv
<1>. QED
  BY <1>5, <1>8, <1>9 DEF Effect

\* A callback that is answered 500, or is lost.
LEMMA NothingDoneEffect ==
  ASSUME IInv, NEW r \in Requests,
         \/ DuplicateNotFound(r)
         \/ DuplicateLookupThrows(r)
         \/ LoseRequest(r)
  PROVE  Effect
<1>1. request[r].pc # "unused" /\ db' = db /\ replica' = replica
      /\ initiate' = initiate /\ created' = created /\ faults' \in Nat
  BY DEF DuplicateNotFound, DuplicateLookupThrows, LoseRequest, Fails, IInv, TypeOK
<1>2. Answer(r, "error") \/ Answer(r, "none")
  BY DEF DuplicateNotFound, DuplicateLookupThrows, LoseRequest
<1>3. failed' \in [Files -> Nat]
  BY AuditType DEF DuplicateNotFound, DuplicateLookupThrows, LoseRequest, IInv
<1>4. SameFiles /\ StoredGrows
  BY <1>1, SameDb
<1>5. /\ request' \in [Requests -> Request] /\ RequestOK(r)' /\ ~IsStorer(r)'
      /\ request'[r].pc = "done"
      /\ \A q \in Requests \ {r} : request'[q] = request[q]
  BY <1>1, <1>2, AnswerFacts
<1>6. TypeOK'
  BY <1>1, <1>3, <1>5 DEF IInv, TypeOK
<1>7. CallbacksOK'
  BY <1>1, <1>4, <1>5, OneRequestMoves DEF IInv
<1>. QED
  BY <1>4, <1>6, <1>7 DEF Effect

\* A callback that goes to another place, its answer still open.
LEMMA MoveFacts ==
  ASSUME IInv, NEW r \in Requests, NEW pc \in {"duplicate", "auditing"},
         request[r].pc = "persisting", request' = [request EXCEPT ![r].pc = pc]
  PROVE  /\ request' \in [Requests -> Request]
         /\ request'[r].pc = pc /\ request'[r].response = "none"
         /\ request'[r].upload = request[r].upload
         /\ request'[r].id = request[r].id
         /\ \A q \in Requests \ {r} : request'[q] = request[q]
         /\ FilesIn(r)' = FilesIn(r)
         /\ request[r].upload \in Uploads /\ request[r].id \in CorrelationId
<1>1. request[r] \in Request /\ RequestOK(r)
  BY DEF IInv, TypeOK, CallbacksOK
<1>2. /\ request[r].response = "none" /\ request[r].upload \in Uploads
      /\ request[r].id \in CorrelationId
  BY <1>1 DEF RequestOK
<1>. DEFINE t == [request[r] EXCEPT !.pc = pc]
<1>3. /\ t \in Request /\ t.pc = pc /\ t.response = "none"
      /\ t.upload = request[r].upload /\ t.id = request[r].id
  BY <1>1, <1>2 DEF Request
<1>4. request' = [request EXCEPT ![r] = t] /\ request \in [Requests -> Request]
  BY DEF IInv, TypeOK
<1>. HIDE DEF t
<1>5. /\ request' \in [Requests -> Request]
      /\ request'[r] = t
      /\ \A q \in Requests \ {r} : request'[q] = request[q]
  BY <1>3, <1>4
<1>. QED
  BY <1>2, <1>3, <1>5 DEF FilesIn

\* The transaction commits and the callback goes on to its audit events.
LEMMA PersistEffect ==
  ASSUME IInv, NEW r \in Requests, PersistMetadata(r)
  PROVE  Effect
<1>1. /\ request[r].pc = "persisting" /\ ~HasDuplicate(r) /\ db' = Stored(r)
      /\ request' = [request EXCEPT ![r].pc = "auditing"]
      /\ replica' = replica /\ initiate' = initiate /\ created' = created
      /\ failed' = failed /\ faults' = faults
  BY DEF PersistMetadata
<1>2. /\ request' \in [Requests -> Request]
      /\ request'[r].pc = "auditing" /\ request'[r].response = "none"
      /\ request'[r].upload = request[r].upload
      /\ request'[r].id = request[r].id
      /\ \A q \in Requests \ {r} : request'[q] = request[q]
      /\ FilesIn(r)' = FilesIn(r)
      /\ request[r].upload \in Uploads /\ request[r].id \in CorrelationId
  BY <1>1, MoveFacts
<1>3. StoresFiles(r) /\ TypeOK /\ CallbacksOK
  BY <1>1, <1>2 DEF StoresFiles, IInv
<1>4. db' \in Database /\ StoredGrows
      /\ db'.metadata = [f \in Files |-> IF f \in FilesIn(r) THEN request[r].id
                                         ELSE db.metadata[f]]
  BY <1>3, StoredType, StoredStays
<1>5. FilesIn(r) \subseteq Files /\ FilesIn(r) # {} /\ FilesIn(r) = FilesOf[request[r].upload]
  BY <1>2 DEF FilesIn
<1>6. TypeOK'
  BY <1>1, <1>2, <1>3, <1>4 DEF TypeOK
<1>7. \A f \in FilesIn(r) : ~IsStored(f) /\ db'.metadata[f] = request[r].id /\ IsStored(f)'
  BY <1>1, <1>2, <1>4, <1>5 DEF HasDuplicate, IsStored, CorrelationId
<1>8. RequestOK(r)'
  BY <1>2, <1>7 DEF RequestOK, IsStorer
<1>9. \A q \in Requests \ {r} : /\ RequestOK(q)' /\ IsStorer(q)' = IsStorer(q)
                                /\ IsStorer(q) => request[q].upload # request[r].upload
  <2>1. SUFFICES ASSUME NEW q \in Requests \ {r}
                 PROVE  /\ RequestOK(q)' /\ IsStorer(q)' = IsStorer(q)
                        /\ IsStorer(q) => request[q].upload # request[r].upload
    OBVIOUS
  <2>2. RequestOK(q)
    BY <1>3 DEF CallbacksOK
  <2>3. RequestOK(q)' /\ IsStorer(q)' = IsStorer(q)
    BY <1>2, <1>4, <2>2, OtherRequest
  <2>4. IsStorer(q) => \A f \in FilesIn(q) : IsStored(f)
    BY <2>2 DEF RequestOK, IsStorer
  <2>. QED
    BY <1>5, <1>7, <2>3, <2>4 DEF FilesIn
<1>10. OneStorer'
  BY <1>2, <1>3, <1>9 DEF CallbacksOK, OneStorer
<1>11. \A f \in Files : IsStored(f) => IsStored(f)'
  BY <1>4 DEF StoredGrows, IsStored
<1>12. CreatedOK'
  <2>1. SUFFICES ASSUME NEW f \in Files, created[f] > 0
                 PROVE  /\ IsStored(f)'
                        /\ \A q \in Requests :
                             request'[q].pc = "auditing" => f \notin FilesIn(q)'
    BY <1>1, <1>3 DEF CallbacksOK, CreatedOK
  <2>2. IsStored(f) /\ \A q \in Requests : request[q].pc = "auditing" => f \notin FilesIn(q)
    BY <1>3, <2>1 DEF CallbacksOK, CreatedOK
  <2>3. f \notin FilesIn(r)
    BY <1>7, <2>2
  <2>. QED
    BY <1>2, <1>11, <2>2, <2>3 DEF FilesIn
<1>13. CallbacksOK'
  BY <1>8, <1>9, <1>10, <1>12 DEF CallbacksOK
<1>. QED
  BY <1>3, <1>6, <1>13 DEF Effect

\* The transaction throws, having committed or not.
LEMMA PersistThrowsEffect ==
  ASSUME IInv, NEW r \in Requests, PersistThrows(r)
  PROVE  Effect
<1>1. /\ request[r].pc = "persisting" /\ Answer(r, "error")
      /\ replica' = replica /\ initiate' = initiate /\ created' = created
      /\ faults' \in Nat
  BY DEF PersistThrows, Fails, IInv, TypeOK
<1>2. request[r].upload \in Uploads /\ request[r].id \in CorrelationId /\ TypeOK
  BY <1>1 DEF IInv, CallbacksOK, RequestOK
<1>3. db' = db \/ StoresFiles(r)
  BY <1>2 DEF PersistThrows, StoresFiles
<1>4. StoredGrows /\ db' \in Database /\ (SameFiles \/ StoresFiles(r))
  BY <1>2, <1>3, SameDb, StoredStays, StoredType DEF TypeOK
<1>5. failed' \in [Files -> Nat]
  BY <1>2, AuditType DEF PersistThrows
<1>6. /\ request' \in [Requests -> Request] /\ RequestOK(r)' /\ ~IsStorer(r)'
      /\ request'[r].pc = "done"
      /\ \A q \in Requests \ {r} : request'[q] = request[q]
  BY <1>1, AnswerFacts
<1>7. TypeOK'
  BY <1>1, <1>2, <1>4, <1>5, <1>6 DEF TypeOK
<1>8. CallbacksOK'
  BY <1>1, <1>4, <1>6, OneRequestMoves DEF IInv
<1>. QED
  BY <1>4, <1>7, <1>8 DEF Effect

\* The index refuses one file: then all of the upload's files are stored.
LEMMA RefuseEffect ==
  ASSUME IInv, NEW r \in Requests, RefuseDuplicate(r)
  PROVE  Effect
<1>1. /\ request[r].pc = "persisting" /\ HasDuplicate(r)
      /\ request' = [request EXCEPT ![r].pc = "duplicate"]
      /\ db' = db /\ replica' = replica /\ initiate' = initiate /\ created' = created
      /\ failed' = failed /\ faults' = faults
  BY DEF RefuseDuplicate
<1>2. /\ request' \in [Requests -> Request]
      /\ request'[r].pc = "duplicate" /\ request'[r].response = "none"
      /\ request'[r].upload = request[r].upload
      /\ \A q \in Requests \ {r} : request'[q] = request[q]
      /\ FilesIn(r)' = FilesIn(r)
      /\ request[r].upload \in Uploads /\ request[r].id \in CorrelationId
      /\ request'[r].id = request[r].id
  BY <1>1, MoveFacts
<1>3. SameFiles /\ StoredGrows
  BY <1>1, SameDb
<1>4. TypeOK'
  BY <1>1, <1>2 DEF IInv, TypeOK
<1>5. \A f \in FilesIn(r) : IsStored(f)
  BY <1>1, <1>2 DEF HasDuplicate, FilesIn, IInv, StoredTogether, IsStored
<1>6. \A f \in FilesIn(r)' : IsStored(f)'
  BY <1>1, <1>2, <1>5 DEF IsStored
<1>7. RequestOK(r)' /\ ~IsStorer(r)'
  BY <1>2, <1>6 DEF RequestOK, IsStorer
<1>8. CallbacksOK'
  BY <1>1, <1>2, <1>3, <1>7, OneRequestMoves DEF IInv
<1>. QED
  BY <1>3, <1>4, <1>8 DEF Effect

\* The duplicate is answered 200: its files are there.
LEMMA DuplicateEffect ==
  ASSUME IInv, NEW r \in Requests, AnswerDuplicate(r)
  PROVE  Effect
<1>1. /\ request[r].pc = "duplicate" /\ Answer(r, "duplicate")
      /\ db' = db /\ replica' = replica /\ initiate' = initiate /\ created' = created
      /\ failed' = failed /\ faults' = faults
  BY DEF AnswerDuplicate
<1>2. /\ request' \in [Requests -> Request]
      /\ request'[r].pc = "done" /\ request'[r].response = "duplicate"
      /\ request'[r].upload = request[r].upload
      /\ \A q \in Requests \ {r} : request'[q] = request[q]
      /\ FilesIn(r)' = FilesIn(r)
  BY <1>1, AnswerFacts
<1>3. SameFiles /\ StoredGrows
  BY <1>1, SameDb
<1>4. TypeOK'
  BY <1>1, <1>2 DEF IInv, TypeOK
<1>5. RequestOK(r)
  BY DEF IInv, CallbacksOK
<1>6. request[r].upload \in Uploads /\ \A f \in FilesIn(r)' : IsStored(f)'
  BY <1>1, <1>2, <1>5 DEF RequestOK, IsStored
<1>7. RequestOK(r)' /\ ~IsStorer(r)'
  BY <1>2, <1>6 DEF RequestOK, IsStorer
<1>8. CallbacksOK'
  BY <1>1, <1>2, <1>3, <1>7, OneRequestMoves DEF IInv
<1>. QED
  BY <1>3, <1>4, <1>8 DEF Effect

\* The files are announced, which nobody else has done or is about to do.
LEMMA AuditCreatedEffect ==
  ASSUME IInv, NEW r \in Requests, AuditCreated(r)
  PROVE  Effect
<1>1. /\ request[r].pc = "auditing" /\ Answer(r, "created")
      /\ created' = [f \in Files |-> IF f \in FilesIn(r) THEN created[f] + 1 ELSE created[f]]
      /\ db' = db /\ replica' = replica /\ initiate' = initiate
      /\ failed' = failed /\ faults' = faults
  BY DEF AuditCreated
<1>2. /\ request' \in [Requests -> Request]
      /\ request'[r].pc = "done" /\ request'[r].response = "created"
      /\ request'[r].upload = request[r].upload
      /\ request'[r].id = request[r].id
      /\ \A q \in Requests \ {r} : request'[q] = request[q]
      /\ FilesIn(r)' = FilesIn(r)
  BY <1>1, AnswerFacts
<1>3. SameFiles /\ StoredGrows
  BY <1>1, SameDb
<1>4. created \in [Files -> Nat] /\ created' \in [Files -> Nat]
  BY <1>1 DEF IInv, TypeOK
<1>5. TypeOK'
  BY <1>1, <1>2, <1>4 DEF IInv, TypeOK
<1>6. /\ RequestOK(r) /\ IsStorer(r) /\ OneStorer /\ CreatedOK
      /\ \A q \in Requests : RequestOK(q)
  BY <1>1 DEF IInv, CallbacksOK, IsStorer
<1>7. /\ request[r].upload \in Uploads
      /\ \A f \in FilesIn(r) : IsStored(f) /\ db.metadata[f] = request[r].id
  BY <1>1, <1>6 DEF RequestOK
<1>8. \A f \in FilesIn(r)' : IsStored(f)' /\ db'.metadata[f] = request'[r].id
  BY <1>1, <1>2, <1>7 DEF IsStored
<1>9. RequestOK(r)'
  BY <1>2, <1>7, <1>8 DEF RequestOK, IsStorer
<1>10. \A q \in Requests \ {r} : RequestOK(q)' /\ IsStorer(q)' = IsStorer(q)
  BY <1>2, <1>3, <1>6, OtherRequest
<1>11. OneStorer'
  BY <1>2, <1>6, <1>10 DEF OneStorer
<1>12. CreatedOK'
  <2>1. ASSUME NEW f \in FilesIn(r)
        PROVE  /\ f \in Files => created'[f] = 1
               /\ IsStored(f)'
               /\ \A q \in Requests : request'[q].pc = "auditing" => f \notin FilesIn(q)'
    <3>1. f \in Files => created[f] = 0
      BY <1>1, <1>4, <1>6 DEF CreatedOK
    <3>2. ASSUME NEW q \in Requests, request'[q].pc = "auditing", f \in FilesIn(q)'
          PROVE  FALSE
      <4>1. q # r /\ request[q].pc = "auditing" /\ f \in FilesIn(q)
        BY <1>2, <3>2 DEF FilesIn
      <4>2. request[q].upload \in Uploads
        BY <1>6, <4>1 DEF RequestOK
      <4>3. request[q].upload = request[r].upload
        BY <1>7, <4>1, <4>2, OwnFiles DEF FilesIn
      <4>. QED
        BY <1>6, <4>1, <4>3 DEF OneStorer, IsStorer
    <3>. QED
      BY <1>1, <1>2, <1>8, <3>1, <3>2
  <2>2. ASSUME NEW f \in Files \ FilesIn(r), created'[f] > 0
        PROVE  /\ IsStored(f)'
               /\ \A q \in Requests : request'[q].pc = "auditing" => f \notin FilesIn(q)'
    BY <1>1, <1>2, <1>6, <2>2 DEF CreatedOK, IsStored, FilesIn
  <2>3. \A f \in Files \ FilesIn(r) : created'[f] <= 1
    BY <1>1, <1>6 DEF CreatedOK
  <2>. QED
    BY <2>1, <2>2, <2>3 DEF CreatedOK
<1>13. CallbacksOK'
  BY <1>9, <1>10, <1>11, <1>12 DEF CallbacksOK
<1>. QED
  BY <1>3, <1>5, <1>13 DEF Effect

-----------------------------------------------------------------------------
(* The invariant                                                           *)

\* Nothing is stored and nobody has called.
LEMMA Initially == Init => IInv
<1>. SUFFICES ASSUME Init PROVE IInv
  OBVIOUS
<1>1. EmptyDatabase \in Database
  BY DEF EmptyDatabase, Database
<1>2. Unused \in Request
  BY DEF Unused, Request, Kinds
<1>3. TypeOK
  BY <1>1, <1>2 DEF Init, TypeOK
<1>4. StoredTogether
  <2>1. db.status = {} /\ \A f \in Files : db.metadata[f] = NoId /\ db.outbox[f] = "ABSENT"
    BY DEF Init, EmptyDatabase
  <2>2. \A u \in Uploads : FilesOf[u] \subseteq Files
    OBVIOUS
  <2>3. NoId \notin CorrelationId
    BY DEF CorrelationId
  <2>. QED
    BY <2>1, <2>2, <2>3 DEF StoredTogether, IsStored
<1>5. \A r \in Requests : request[r].pc = "unused" /\ request[r].response = "none"
  BY DEF Init, Unused
<1>6. CallbacksOK
  BY <1>5 DEF Init, CallbacksOK, RequestOK, IsStorer, OneStorer, CreatedOK
<1>. QED
  BY <1>3, <1>4, <1>6 DEF IInv

\* The kinds of steps of the intake.
LEMMA NextEffect ==
  ASSUME IInv, Next
  PROVE  Effect
<1>1. ASSUME NEW u \in Uploads, InitiateStep(u) PROVE Effect
  BY <1>1, InitiateEffect
<1>2. ASSUME NEW r \in Requests, NEW u \in Uploads, NEW kind \in Kinds,
             NEW echoed \in BOOLEAN, ReceiveCallback(r, u, kind, echoed)
      PROVE  Effect
  BY <1>2, ReceiveEffect
<1>3. ASSUME NEW r \in Requests, Handle(r) PROVE Effect
  BY <1>3, ResolveEffect, RejectEffect, PersistEffect, RefuseEffect, DuplicateEffect,
     NothingDoneEffect, AuditCreatedEffect DEF Handle
<1>4. ASSUME NEW r \in Requests, HandleFault(r) PROVE Effect
  BY <1>4, ResolveEffect, RejectEffect, PersistThrowsEffect, NothingDoneEffect
     DEF HandleFault
<1>. QED
  BY <1>1, <1>2, <1>3, <1>4, ReplicateEffect DEF Next

\* Every such step keeps the invariant.
LEMMA EffectKeepsInvariant ==
  ASSUME IInv, Effect
  PROVE  IInv'
  BY TogetherStep DEF IInv, Effect

\* So does a step of others.
LEMMA StutterKeepsInvariant ==
  ASSUME IInv, UNCHANGED vars
  PROVE  IInv'
<1>1. /\ db' = db /\ replica' = replica /\ initiate' = initiate /\ request' = request
      /\ created' = created /\ failed' = failed /\ faults' = faults
  BY DEF vars
<1>2. TypeOK' /\ StoredTogether'
  BY <1>1 DEF IInv, TypeOK, StoredTogether, IsStored
<1>3. CallbacksOK'
  BY <1>1, SameDb, NoRequestMoves DEF IInv
<1>. QED
  BY <1>2, <1>3 DEF IInv

\* The inductive invariant: what is stored is whole, and each callback knows
\* what it may of it.
THEOREM IntakeInvariance == Spec => []IInv
<1>1. IInv /\ [Next]_vars => IInv'
  BY NextEffect, EffectKeepsInvariant, StutterKeepsInvariant
<1>. QED
  BY Initially, <1>1, PTL DEF Spec

\* For any number of uploads, files, callbacks and faults, the files of an upload
\* are stored together with their entries and accepting records, or not at all.
THEOREM UploadsAreWhole == Spec => []StoredTogether
<1>1. IInv => StoredTogether
  BY DEF IInv
<1>. QED
  BY <1>1, IntakeInvariance, PTL

\* No callback is answered as created or as a duplicate whose files are missing.
THEOREM AnswersAreTrue == Spec => []AnswerIsTrue
<1>1. IInv => AnswerIsTrue
  BY DEF IInv, CallbacksOK, RequestOK, AnswerIsTrue
<1>. QED
  BY <1>1, IntakeInvariance, PTL

\* One callback stores an upload, under its own id, and alone announces it.
THEOREM OneStores == Spec => []OneCallbackStores
<1>1. IInv => OneCallbackStores
  BY DEF IInv, CallbacksOK, RequestOK, OneStorer, CreatedOK, IsStorer, OneCallbackStores
<1>. QED
  BY <1>1, IntakeInvariance, PTL

-----------------------------------------------------------------------------
(* The refinement                                                          *)

registerVars == <<db.metadata, Queued, Accepted, created>>

\* The accepting records that a step over the same files leaves.
LEMMA SameRegister ==
  ASSUME TypeOK, TypeOK', SameFiles
  PROVE  db'.metadata = db.metadata /\ Queued' = Queued /\ Accepted' = Accepted
<1>1. Queued' = Queued
  BY DEF Queued, SameFiles
<1>2. {s \in db'.status : s.validated} = {s \in db.status : s.validated}
  <2>1. db.status \subseteq StatusRecord /\ db'.status \subseteq StatusRecord
    BY DEF TypeOK, Database
  <2>. QED
    BY <2>1 DEF SameFiles
<1>. QED
  BY <1>1, <1>2 DEF SameFiles, Accepted

\* The transaction of a callback is a Store of the register.
LEMMA StoreStep ==
  ASSUME TypeOK, NEW r \in Requests, StoresFiles(r), created' = created
  PROVE  Register!Store(request[r].upload, request[r].id)
<1>1. /\ db'.metadata = [f \in Files |-> IF f \in FilesIn(r) THEN request[r].id
                                         ELSE db.metadata[f]]
      /\ db'.outbox = [f \in Files |-> IF f \in FilesIn(r) THEN "PENDING"
                                       ELSE db.outbox[f]]
      /\ db'.status = db.status \cup StatusOf(request[r].id, FilesIn(r), TRUE)
  BY StoredType
<1>2. FilesIn(r) = FilesOf[request[r].upload] /\ FilesIn(r) \subseteq Files
  BY DEF StoresFiles, FilesIn
<1>3. \A f \in FilesIn(r) : db.metadata[f] = NoId
  BY DEF StoresFiles, HasDuplicate
<1>4. Queued' = Queued \cup FilesIn(r)
  BY <1>1, <1>2 DEF Queued
<1>5. Accepted' = Accepted \cup {[id |-> request[r].id, file |-> f] : f \in FilesIn(r)}
  <2>. DEFINE records == StatusOf(request[r].id, FilesIn(r), TRUE)
  <2>1. \A s \in records : s.validated /\ s.id = request[r].id /\ s.file \in FilesIn(r)
    BY DEF StatusOf
  <2>2. ASSUME NEW f \in FilesIn(r) PROVE \E s \in records : s.file = f
    <3>1. [id |-> request[r].id, file |-> f, validated |-> TRUE] \in records
      BY DEF StatusOf
    <3>. QED
      BY <3>1
  <2>3. db'.status = db.status \cup records
    BY <1>1
  <2>. HIDE DEF records
  <2>4. ASSUME NEW a \in Accepted'
        PROVE  a \in Accepted \cup {[id |-> request[r].id, file |-> f] : f \in FilesIn(r)}
    <3>1. PICK s \in db'.status : s.validated /\ a = [id |-> s.id, file |-> s.file]
      BY DEF Accepted
    <3>. QED
      BY <2>1, <2>3, <3>1 DEF Accepted
  <2>5. Accepted \subseteq Accepted'
    BY <2>3 DEF Accepted
  <2>6. ASSUME NEW f \in FilesIn(r)
        PROVE  [id |-> request[r].id, file |-> f] \in Accepted'
    <3>1. PICK s \in records : s.file = f
      BY <2>2
    <3>2. s \in db'.status /\ s.validated /\ s.id = request[r].id
      BY <2>1, <2>3
    <3>. QED
      BY <3>1, <3>2 DEF Accepted
  <2>. QED
    BY <2>4, <2>5, <2>6
<1>. QED
  BY <1>1, <1>2, <1>3, <1>4, <1>5 DEF Register!Store

\* A step over the same files that announces nothing is none of the register's.
LEMMA SilentStep ==
  ASSUME IInv, Effect, created' = created
  PROVE  [Register!Next]_registerVars
<1>1. CASE SameFiles
  BY <1>1, SameRegister DEF IInv, Effect, registerVars
<1>2. ASSUME NEW r \in Requests, StoresFiles(r) PROVE Register!Next
  <2>1. Register!Store(request[r].upload, request[r].id)
    BY <1>2, StoreStep DEF IInv
  <2>. QED
    BY <1>2, <2>1 DEF StoresFiles, Register!Next
<1>. QED
  BY <1>1, <1>2 DEF Effect

\* The audit events of a callback are an Announce of the register.
LEMMA AnnounceStep ==
  ASSUME IInv, NEW r \in Requests, AuditCreated(r)
  PROVE  Register!Next
<1>1. /\ request[r].pc = "auditing"
      /\ created' = [f \in Files |-> IF f \in FilesIn(r) THEN created[f] + 1 ELSE created[f]]
      /\ db' = db
  BY DEF AuditCreated
<1>2. RequestOK(r) /\ CreatedOK /\ created \in [Files -> Nat]
  BY DEF IInv, CallbacksOK, TypeOK
<1>3. request[r].upload \in Uploads /\ \A f \in FilesIn(r) : IsStored(f)
  BY <1>1, <1>2 DEF RequestOK
<1>4. FilesIn(r) = FilesOf[request[r].upload] /\ FilesIn(r) \subseteq Files
  BY <1>3 DEF FilesIn
<1>5. \A f \in FilesIn(r) : created[f] = 0
  BY <1>1, <1>2, <1>4 DEF CreatedOK
<1>6. created' = [f \in Files |-> IF f \in FilesIn(r) THEN 1 ELSE created[f]]
  BY <1>1, <1>4, <1>5
<1>7. Register!Announce(request[r].upload)
  BY <1>1, <1>3, <1>4, <1>5, <1>6 DEF Register!Announce, IsStored, Queued, Accepted
<1>. QED
  BY <1>3, <1>7 DEF Register!Next

\* Each step of the intake is one of the register's, or none.
LEMMA RegisterStep ==
  ASSUME IInv, Next
  PROVE  [Register!Next]_registerVars
<1>1. CASE \E r \in Requests : AuditCreated(r)
  BY <1>1, AnnounceStep
<1>2. CASE ~ \E r \in Requests : AuditCreated(r)
  <2>1. created' = created
    BY <1>2 DEF Next, InitiateStep, ForwardInitiate, RefuseInitiate, InsertSession,
       InsertSessionThrows, ReceiveCallback, Handle, HandleFault, ResolveJourneyId,
       LookupThrows, RejectCallback, RejectionThrows, PersistMetadata, RefuseDuplicate,
       PersistThrows, AnswerDuplicate, DuplicateNotFound, DuplicateLookupThrows,
       LoseRequest, Replicate
  <2>. QED
    BY <2>1, NextEffect, SilentStep
<1>. QED
  BY <1>1, <1>2

\* Nothing is registered at first.
LEMMA RegisterInit == Init => Register!Init
  BY DEF Init, EmptyDatabase, Register!Init, Queued, Accepted

\* The intake implements the register: one atomic store per upload, announced once.
THEOREM IntakeImplementsRegister == Spec => KeepsRegister
<1>1. IInv /\ [Next]_vars => [Register!Next]_registerVars
  <2>1. UNCHANGED vars => UNCHANGED registerVars
    BY DEF vars, registerVars, Queued, Accepted
  <2>. QED
    BY <2>1, RegisterStep
<1>. QED
  BY <1>1, RegisterInit, IntakeInvariance, PTL
     DEF Spec, KeepsRegister, Register!Spec, registerVars

-----------------------------------------------------------------------------
(* Duplicates                                                              *)

\* A callback that is not answered yet is given a place, an id or an answer.
Moves(r) ==
  /\ request[r].pc \notin {"unused", "done"}
  /\ request' \in [Requests -> Request]
  /\ request'[r].upload = request[r].upload
  /\ request'[r].kind = request[r].kind
  /\ request'[r].echoed = request[r].echoed
  /\ \A q \in Requests \ {r} : request'[q] = request[q]

\* Every step of a callback but the first is a move of it alone.
LEMMA CallbackMoves ==
  ASSUME TypeOK, NEW r \in Requests, Handle(r) \/ HandleFault(r)
  PROVE  Moves(r)
<1>1. request \in [Requests -> Request] /\ request[r] \in Request
  BY DEF TypeOK
<1>2. PICK pc \in {"rejecting", "persisting", "duplicate", "auditing", "done"},
           id \in CorrelationId \cup {NoId},
           response \in {"none", "rejected", "created", "duplicate", "error"} :
        request' = [request EXCEPT ![r] =
                      [request[r] EXCEPT !.pc = pc, !.id = id, !.response = response]]
  <2>1. CASE ResolveJourneyId(r) \/ LookupThrows(r)
    <3>1. PICK id \in {request[r].upload, r} :
            request' = [request EXCEPT ![r].pc = AfterResolving(request[r].kind),
                                       ![r].id = id]
      BY <2>1 DEF ResolveJourneyId, LookupThrows
    <3>2. AfterResolving(request[r].kind) \in {"rejecting", "persisting"}
      BY DEF AfterResolving
    <3>3. id \in CorrelationId \cup {NoId}
      BY <1>1 DEF Request, CorrelationId
    <3>4. request' = [request EXCEPT ![r] =
                        [request[r] EXCEPT !.pc = AfterResolving(request[r].kind),
                                           !.id = id, !.response = request[r].response]]
      BY <1>1, <3>1 DEF Request
    <3>5. request[r].response \in {"none", "rejected", "created", "duplicate", "error"}
      BY <1>1 DEF Request
    <3> QED BY <3>2, <3>3, <3>4, <3>5
  <2>2. CASE PersistMetadata(r) \/ RefuseDuplicate(r)
    <3>1. PICK pc \in {"duplicate", "auditing"} : request' = [request EXCEPT ![r].pc = pc]
      BY <2>2 DEF PersistMetadata, RefuseDuplicate
    <3>2. request' = [request EXCEPT ![r] =
                        [request[r] EXCEPT !.pc = pc, !.id = request[r].id,
                                           !.response = request[r].response]]
      BY <1>1, <3>1 DEF Request
    <3>3. /\ request[r].response \in {"none", "rejected", "created", "duplicate", "error"}
          /\ request[r].id \in CorrelationId \cup {NoId}
      BY <1>1 DEF Request
    <3> QED BY <3>2, <3>3
  <2>3. CASE \E response \in {"none", "rejected", "created", "duplicate", "error"} :
               Answer(r, response)
    <3>1. PICK response \in {"none", "rejected", "created", "duplicate", "error"} :
            request' = [request EXCEPT ![r].pc = "done", ![r].response = response]
      BY <2>3 DEF Answer
    <3>2. request' = [request EXCEPT ![r] =
                        [request[r] EXCEPT !.pc = "done", !.id = request[r].id,
                                           !.response = response]]
      BY <1>1, <3>1 DEF Request
    <3>3. request[r].id \in CorrelationId \cup {NoId}
      BY <1>1 DEF Request
    <3> QED BY <3>2, <3>3
  <2> QED
    BY <2>1, <2>2, <2>3 DEF Handle, HandleFault, RejectCallback, RejectionThrows,
       PersistThrows, AnswerDuplicate, DuplicateNotFound, DuplicateLookupThrows,
       AuditCreated, LoseRequest
<1>. DEFINE t == [request[r] EXCEPT !.pc = pc, !.id = id, !.response = response]
<1>3. /\ t \in Request /\ t.upload = request[r].upload /\ t.kind = request[r].kind
      /\ t.echoed = request[r].echoed
  BY <1>1 DEF Request
<1>4. request' = [request EXCEPT ![r] = t]
  BY <1>2
<1>. HIDE DEF t
<1>5. request[r].pc \notin {"unused", "done"}
  BY DEF Handle, HandleFault, ResolveJourneyId, LookupThrows, RejectCallback,
     RejectionThrows, PersistMetadata, RefuseDuplicate, PersistThrows, AnswerDuplicate,
     DuplicateNotFound, DuplicateLookupThrows, AuditCreated, LoseRequest
<1>. QED
  BY <1>1, <1>3, <1>4, <1>5 DEF Moves

\* Every fault counts.
LEMMA FaultCounts ==
  ASSUME TypeOK, NEW r \in Requests, HandleFault(r)
  PROVE  faults \in Nat /\ faults' = faults + 1
<1>1. faults \in Nat
  BY DEF TypeOK
<1>2. ASSUME LookupThrows(r) PROVE Fails
  BY <1>2 DEF LookupThrows
<1>3. ASSUME RejectionThrows(r) PROVE Fails
  BY <1>3 DEF RejectionThrows
<1>4. ASSUME PersistThrows(r) PROVE Fails
  BY <1>4 DEF PersistThrows
<1>5. ASSUME DuplicateLookupThrows(r) \/ LoseRequest(r) PROVE Fails
  BY <1>5 DEF DuplicateLookupThrows, LoseRequest
<1>. QED
  BY <1>1, <1>2, <1>3, <1>4, <1>5 DEF HandleFault, Fails

\* The other steps of a callback count none.
LEMMA HandleCountsNone ==
  ASSUME NEW r \in Requests, Handle(r)
  PROVE  faults' = faults
  BY DEF Handle, ResolveJourneyId, RejectCallback, PersistMetadata, RefuseDuplicate,
     AnswerDuplicate, DuplicateNotFound, AuditCreated

\* A step that leaves the count of faults at nought found it there, and is no fault.
LEMMA NoFault ==
  ASSUME TypeOK, Next, faults' = 0
  PROVE  faults = 0 /\ \A r \in Requests : ~HandleFault(r)
<1>1. faults \in Nat
  BY DEF TypeOK
<1>2. ASSUME NEW u \in Uploads, InitiateStep(u) PROVE faults = 0
  BY <1>1, <1>2 DEF InitiateStep, ForwardInitiate, RefuseInitiate, InsertSession,
     InsertSessionThrows, Fails
<1>3. ASSUME NEW r \in Requests, NEW u \in Uploads, NEW kind \in Kinds,
             NEW echoed \in BOOLEAN, ReceiveCallback(r, u, kind, echoed)
      PROVE  faults = 0
  BY <1>3 DEF ReceiveCallback
<1>4. Replicate => faults = 0
  BY DEF Replicate
<1>. QED
  BY <1>1, <1>2, <1>3, <1>4, FaultCounts, HandleCountsNone DEF Next

\* A read of the primary finds a duplicate's document: all files of its upload are
\* stored.
LEMMA DuplicateIsFound ==
  ASSUME ReadSecondary = FALSE, IInv, NEW r \in Requests
  PROVE  ~DuplicateNotFound(r)
<1>. SUFFICES ASSUME DuplicateNotFound(r) PROVE FALSE
  OBVIOUS
<1>1. request[r].pc = "duplicate" /\ db.metadata[FirstFile(r)] = NoId
  BY DEF DuplicateNotFound, ReadView
<1>2. RequestOK(r)
  BY DEF IInv, CallbacksOK
<1>3. request[r].upload \in Uploads /\ \A f \in FilesIn(r) : IsStored(f)
  BY <1>1, <1>2 DEF RequestOK
<1>4. FirstFile(r) \in FilesIn(r)
  BY <1>3 DEF FirstFile, FilesIn
<1>. QED
  BY <1>1, <1>3, <1>4 DEF IsStored

\* The events that name files as failed, and the answers.
FailedAsRejected ==
  /\ \A r \in Requests : request[r].response # "error"
  /\ \A f \in Files : failed[f] > 0 =>
       \E r \in Requests : /\ request[r].response = "rejected"
                           /\ request[r].kind = "schema"
                           /\ f \in FilesIn(r)

\* One more callback, or one more answer, takes no rejection back.
LEMMA IgnoredMove ==
  ASSUME FailedAsRejected, NEW r \in Requests, request[r].response # "rejected",
         \A q \in Requests \ {r} : request'[q] = request[q],
         request'[r].response # "error",
         \A f \in Files : failed'[f] > 0 =>
           \/ failed[f] > 0
           \/ /\ request'[r].response = "rejected" /\ request'[r].kind = "schema"
              /\ f \in FilesIn(r)'
  PROVE  FailedAsRejected'
<1>1. \A q \in Requests \ {r} : FilesIn(q)' = FilesIn(q)
  BY DEF FilesIn
<1>. QED
  BY <1>1 DEF FailedAsRejected

\* No step but a fault answers 500 or names a file as failed without a rejection.
LEMMA IgnoredStep ==
  ASSUME ReadSecondary = FALSE, IInv, DuplicateIsIgnored, Next
  PROVE  DuplicateIsIgnored'
<1>. SUFFICES ASSUME faults' = 0 PROVE FailedAsRejected'
  BY DEF DuplicateIsIgnored, FailedAsRejected, FilesIn
<1>1. TypeOK /\ faults \in Nat /\ \A r \in Requests : RequestOK(r)
  BY DEF IInv, TypeOK, CallbacksOK
<1>2. FailedAsRejected
  BY <1>1, NoFault DEF DuplicateIsIgnored, FailedAsRejected
<1>3. ASSUME request' = request, failed' = failed PROVE FailedAsRejected'
  BY <1>2, <1>3 DEF FailedAsRejected, FilesIn
<1>4. ASSUME NEW r \in Requests, NEW u \in Uploads, NEW kind \in Kinds,
             NEW echoed \in BOOLEAN, ReceiveCallback(r, u, kind, echoed)
      PROVE  FailedAsRejected'
  <2>1. /\ request'[r].response = "none" /\ request[r].pc = "unused" /\ failed' = failed
        /\ \A q \in Requests \ {r} : request'[q] = request[q]
    BY <1>1, <1>4 DEF ReceiveCallback, TypeOK, Unused
  <2>2. request[r].response = "none"
    BY <1>1, <2>1 DEF RequestOK
  <2>. QED
    BY <1>2, <2>1, <2>2, IgnoredMove
<1>5. ASSUME NEW r \in Requests, Handle(r) PROVE FailedAsRejected'
  <2>1. Moves(r)
    BY <1>1, <1>5, CallbackMoves
  <2>2. request[r].response = "none" /\ request[r] \in Request
    BY <1>1, <2>1 DEF RequestOK, Moves, TypeOK
  <2>3. CASE RejectCallback(r)
    <3>1. request'[r].response = "rejected" /\ FilesIn(r)' = FilesIn(r)
      BY <1>1, <2>1, <2>3 DEF RejectCallback, Answer, Moves, FilesIn, TypeOK
    <3>2. \A f \in Files : failed'[f] # failed[f] =>
                           request[r].kind = "schema" /\ f \in FilesIn(r)
      BY <2>3 DEF RejectCallback, AuditRejection, AuditFailed
    <3>. QED
      BY <1>2, <2>1, <2>2, <3>1, <3>2, IgnoredMove DEF Moves
  <2>4. CASE ResolveJourneyId(r) \/ PersistMetadata(r) \/ RefuseDuplicate(r)
               \/ AnswerDuplicate(r) \/ AuditCreated(r)
    <3>1. failed' = failed /\ request'[r].response # "error"
      <4>1. CASE ResolveJourneyId(r)
        <5>1. PICK id : request' = [request EXCEPT
                  ![r].pc = AfterResolving(request[r].kind), ![r].id = id]
          BY <4>1 DEF ResolveJourneyId
        <5>. QED
          BY <1>1, <2>2, <4>1, <5>1 DEF ResolveJourneyId, TypeOK, Request
      <4>2. CASE PersistMetadata(r)
        BY <1>1, <2>2, <4>2 DEF PersistMetadata, TypeOK, Request
      <4>3. CASE RefuseDuplicate(r)
        BY <1>1, <2>2, <4>3 DEF RefuseDuplicate, TypeOK, Request
      <4>4. CASE AnswerDuplicate(r)
        BY <1>1, <2>2, <4>4 DEF AnswerDuplicate, Answer, TypeOK, Request
      <4>5. CASE AuditCreated(r)
        BY <1>1, <2>2, <4>5 DEF AuditCreated, Answer, TypeOK, Request
      <4>. QED
        BY <2>4, <4>1, <4>2, <4>3, <4>4, <4>5
    <3>. QED
      BY <1>2, <2>1, <2>2, <3>1, IgnoredMove DEF Moves
  <2>. QED
    BY <1>5, <2>3, <2>4, DuplicateIsFound DEF Handle
<1>6. ASSUME NEW u \in Uploads, InitiateStep(u) PROVE request' = request /\ failed' = failed
  BY <1>6 DEF InitiateStep, ForwardInitiate, RefuseInitiate, InsertSession,
     InsertSessionThrows
<1>. QED
  BY <1>1, <1>3, <1>4, <1>5, <1>6, NoFault DEF Next, Replicate

\* With reads of the primary: while nothing fails, duplicates are answered 200, and
\* files are named as failed for rejections by the schema only.
THEOREM DuplicatesAreIgnored ==
  ASSUME ReadSecondary = FALSE
  PROVE  Spec => []DuplicateIsIgnored
<1>1. Init => DuplicateIsIgnored
  BY DEF Init, Unused, DuplicateIsIgnored
<1>2. IInv /\ DuplicateIsIgnored /\ [Next]_vars => DuplicateIsIgnored'
  <2>1. DuplicateIsIgnored /\ UNCHANGED vars => DuplicateIsIgnored'
    BY DEF vars, DuplicateIsIgnored, FilesIn
  <2>. QED
    BY <2>1, IgnoredStep
<1>. QED
  BY <1>1, <1>2, IntakeInvariance, PTL DEF Spec

=============================================================================
