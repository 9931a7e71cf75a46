------------------------- MODULE UploadVerdictProofs -------------------------
(***************************************************************************)
(* Proofs about the upload's status, for any number of uploads, files,     *)
(* callbacks and polls.  The poller and the polls leave the promises of    *)
(* the intake standing; an upload's verdict only advances; a poll is never *)
(* ahead of the truth, nor behind what it could see when it began,         *)
(* whichever member of the database it reads.  If the primary is read, a   *)
(* poll is never behind the truth it began with, and an answered callback  *)
(* gives its upload a verdict.  The last section shows that the reduced    *)
(* poller stands for that of Outbox.                                       *)
(***************************************************************************)
EXTENDS UploadVerdict, IntakeProofs

-----------------------------------------------------------------------------
(* The intake among the poller and the polls                               *)

\* The poller moves entries that are there.
LEMMA DeliverEffect ==
  ASSUME IInv, NEW f \in Files, Deliver(f)
  PROVE  Effect /\ created' = created
<1>1. /\ request' = request /\ created' = created /\ failed' = failed
      /\ replica' = replica /\ initiate' = initiate /\ faults' = faults
  BY DEF Deliver, DeliverFile, GiveUpFile, ExpireFile
<1>2. /\ db' \in Database
      /\ db'.metadata = db.metadata /\ db'.status = db.status
      /\ \A g \in Files : db'.outbox[g] = "ABSENT" <=> db.outbox[g] = "ABSENT"
  <2>1. db \in Database
    BY DEF IInv, TypeOK
  <2>2. CASE DeliverFile(f)
    BY <2>1, <2>2 DEF DeliverFile, Database
  <2>3. CASE GiveUpFile(f)
    BY <2>1, <2>3 DEF GiveUpFile, Database
  <2>4. CASE ExpireFile(f)
    BY <2>1, <2>4 DEF ExpireFile, Database
  <2>. QED
    BY <2>2, <2>3, <2>4 DEF Deliver
<1>3. TypeOK'
  BY <1>1, <1>2 DEF IInv, TypeOK
<1>4. SameFiles /\ StoredGrows
  BY <1>2 DEF SameFiles, StoredGrows
<1>5. CallbacksOK'
  BY <1>1, <1>4, NoRequestMoves DEF IInv
<1>. QED
  BY <1>1, <1>3, <1>4, <1>5 DEF Effect

\* What the steps of the verdict's specification are to the intake.
LEMMA VerdictSteps ==
  ASSUME [VerdictNext]_allVars
  PROVE  Next \/ (\E f \in Files : Deliver(f)) \/ UNCHANGED vars
<1>1. ASSUME NEW p \in Polls, PollStep(p) PROVE UNCHANGED vars
  BY <1>1 DEF PollStep, StartPoll, PollFails, AskUploader, ReadSession, ReadStatus,
              ReadMetadata, ReadOutbox
<1>2. ASSUME NEW u \in Uploads, FinishScan(u) PROVE UNCHANGED vars
  BY <1>2 DEF FinishScan
<1>3. IntakeStep => Next
  BY DEF IntakeStep
<1>4. UNCHANGED allVars => UNCHANGED vars
  BY DEF allVars
<1>. QED
  BY <1>1, <1>2, <1>3, <1>4 DEF VerdictNext

\* It holds as well while the poller and the status requests are at work.
THEOREM VerdictInvariance == VerdictSpec => []IInv
<1>1. VerdictInit => IInv
  BY Initially DEF VerdictInit
<1>2. IInv /\ [VerdictNext]_allVars => IInv'
  BY VerdictSteps, NextEffect, DeliverEffect, EffectKeepsInvariant, StutterKeepsInvariant
<1>. QED
  BY <1>1, <1>2, PTL DEF VerdictSpec

\* Nothing the poller or a status request does undoes it: the composition with
\* the poller implements the register too.
THEOREM PollerKeepsRegister == VerdictSpec => KeepsRegister
<1>1. IInv /\ [VerdictNext]_allVars => [Register!Next]_registerVars
  <2>1. UNCHANGED vars => UNCHANGED registerVars
    BY DEF vars, registerVars, Queued, Accepted
  <2>. QED
    BY <2>1, RegisterStep, VerdictSteps, DeliverEffect, SilentStep
<1>2. VerdictInit => Register!Init
  BY RegisterInit DEF VerdictInit
<1>. QED
  BY <1>1, <1>2, VerdictInvariance, PTL
     DEF VerdictSpec, KeepsRegister, Register!Spec, registerVars

-----------------------------------------------------------------------------
(* What becomes of the collections                                         *)

GivenUp(d, f) == d.outbox[f] = "PERMANENT_FAILURE"

\* Database e is one that d can become: sessions, records and final failures stay.
Le(d, e) ==
  /\ d.sessions \subseteq e.sessions
  /\ d.status \subseteq e.status
  /\ \A f \in Files : GivenUp(d, f) => GivenUp(e, f)

\* A file has been published only if its entry was marked so.
PublishedOK(d) ==
  \A f \in Files : d.published[f] => d.outbox[f] \in {"SENT", "DELETED"}

\* The secondary shows a past of the primary.
CollectionsOK == PublishedOK(db) /\ PublishedOK(replica) /\ Le(replica, db)

\* What a step does to the collections.
Grows == Le(db, db') /\ PublishedOK(db') /\ (replica' = replica \/ replica' = db)

\* Initiate adds sessions.
LEMMA InitiateGrows ==
  ASSUME IInv, PublishedOK(db), NEW u \in Uploads, InitiateStep(u)
  PROVE  Grows
<1>1. db \in Database
  BY DEF IInv, TypeOK
<1>2. db' = db \/ db' = [db EXCEPT !.sessions = @ \cup {u}]
  BY DEF InitiateStep, ForwardInitiate, RefuseInitiate, InsertSession,
         InsertSessionThrows
<1>3. replica' = replica
  BY DEF InitiateStep, ForwardInitiate, RefuseInitiate, InsertSession,
         InsertSessionThrows
<1>4. /\ db.sessions \subseteq db'.sessions /\ db'.status = db.status
      /\ db'.outbox = db.outbox /\ db'.published = db.published
  BY <1>1, <1>2 DEF Database
<1>5. Le(db, db')
  BY <1>4 DEF Le, GivenUp
<1>6. PublishedOK(db')
  BY <1>4 DEF PublishedOK
<1>. QED
  BY <1>3, <1>5, <1>6 DEF Grows

\* New rejections, or none.
LEMMA RecordsGrow ==
  ASSUME IInv, PublishedOK(db), NEW records, replica' = replica,
         db' = [db EXCEPT !.status = @ \cup records]
  PROVE  Grows
<1>1. db \in Database
  BY DEF IInv, TypeOK
<1>2. /\ db'.sessions = db.sessions /\ db'.outbox = db.outbox
      /\ db'.published = db.published /\ db'.status = db.status \cup records
  BY <1>1 DEF Database
<1>. QED
  BY <1>2 DEF Grows, Le, PublishedOK, GivenUp

\* The files of a callback that stores them have no entry yet, hence no failure.
LEMMA StoreGrows ==
  ASSUME IInv, PublishedOK(db), NEW r \in Requests, StoresFiles(r), replica' = replica
  PROVE  Grows
<1>1. /\ db'.sessions = db.sessions
      /\ db'.published = db.published
      /\ db'.outbox = [f \in Files |-> IF f \in FilesIn(r) THEN "PENDING"
                                       ELSE db.outbox[f]]
      /\ db.status \subseteq db'.status
  BY StoredType DEF IInv
<1>2. \A f \in FilesIn(r) : f \in Files /\ db.outbox[f] = "ABSENT"
  BY FilesAssumption
     DEF StoresFiles, HasDuplicate, FilesIn, IInv, StoredTogether, IsStored
<1>3. \A f \in FilesIn(r) : ~db.published[f] /\ ~GivenUp(db, f)
  BY <1>2 DEF PublishedOK, GivenUp
<1>. QED
  BY <1>1, <1>3 DEF Grows, Le, PublishedOK, GivenUp

\* A callback adds records, or stores files.
LEMMA HandleGrows ==
  ASSUME IInv, PublishedOK(db), NEW r \in Requests,
         Handle(r) \/ HandleFault(r)
  PROVE  Grows
<1>1. replica' = replica
  BY DEF Handle, HandleFault, ResolveJourneyId, LookupThrows, RejectCallback,
         RejectionThrows, PersistMetadata, RefuseDuplicate, PersistThrows,
         AnswerDuplicate, DuplicateNotFound, DuplicateLookupThrows, AuditCreated,
         LoseRequest
<1>2. \/ db' = db
      \/ RejectCallback(r)
      \/ RejectionThrows(r)
      \/ request[r].pc = "persisting" /\ ~HasDuplicate(r) /\ db' = Stored(r)
  BY DEF Handle, HandleFault, ResolveJourneyId, LookupThrows, PersistMetadata,
         RefuseDuplicate, PersistThrows, AnswerDuplicate, DuplicateNotFound,
         DuplicateLookupThrows, AuditCreated, LoseRequest
<1>3. CASE db' = db
  BY <1>1, <1>3 DEF Grows, Le, PublishedOK, GivenUp
<1>4. CASE RejectCallback(r)
  BY <1>1, <1>4, RecordsGrow DEF RejectCallback
<1>5. CASE RejectionThrows(r)
  BY <1>1, <1>5, RecordsGrow DEF RejectionThrows
<1>6. CASE request[r].pc = "persisting" /\ ~HasDuplicate(r) /\ db' = Stored(r)
  <2>1. RequestOK(r)
    BY DEF IInv, CallbacksOK
  <2>2. StoresFiles(r)
    BY <1>6, <2>1 DEF StoresFiles, RequestOK
  <2>. QED
    BY <1>1, <2>2, StoreGrows
<1>. QED
  BY <1>2, <1>3, <1>4, <1>5, <1>6

\* The poller only moves entries that are pending or sent.
LEMMA DeliverGrows ==
  ASSUME IInv, PublishedOK(db), NEW f \in Files, Deliver(f)
  PROVE  Grows
<1>1. db \in Database
  BY DEF IInv, TypeOK
<1>2. replica' = replica
  BY DEF Deliver, DeliverFile, GiveUpFile, ExpireFile
<1>3. CASE DeliverFile(f)
  <2>1. /\ db'.sessions = db.sessions /\ db'.status = db.status
        /\ db.outbox[f] = "PENDING" /\ db'.outbox[f] = "SENT"
        /\ \A g \in Files \ {f} : db'.outbox[g] = db.outbox[g]
                                  /\ db'.published[g] = db.published[g]
    BY <1>1, <1>3 DEF DeliverFile, Database
  <2>. QED
    BY <1>2, <2>1 DEF Grows, Le, PublishedOK, GivenUp
<1>4. CASE GiveUpFile(f)
  <2>1. /\ db'.sessions = db.sessions /\ db'.status = db.status
        /\ db.outbox[f] = "PENDING"
        /\ db'.published = db.published
        /\ \A g \in Files \ {f} : db'.outbox[g] = db.outbox[g]
    BY <1>1, <1>4 DEF GiveUpFile, Database
  <2>. QED
    BY <1>2, <2>1 DEF Grows, Le, PublishedOK, GivenUp
<1>5. CASE ExpireFile(f)
  <2>1. /\ db'.sessions = db.sessions /\ db'.status = db.status
        /\ db.outbox[f] = "SENT" /\ db'.outbox[f] = "DELETED"
        /\ db'.published = db.published
        /\ \A g \in Files \ {f} : db'.outbox[g] = db.outbox[g]
    BY <1>1, <1>5 DEF ExpireFile, Database
  <2>. QED
    BY <1>2, <2>1 DEF Grows, Le, PublishedOK, GivenUp
<1>. QED
  BY <1>3, <1>4, <1>5 DEF Deliver

\* Every step lets the collections grow.
LEMMA StepGrows ==
  ASSUME IInv, PublishedOK(db), [VerdictNext]_allVars
  PROVE  Grows
<1>1. CASE UNCHANGED vars
  BY <1>1 DEF vars, Grows, Le, PublishedOK, GivenUp
<1>2. CASE Replicate
  BY <1>2 DEF Replicate, Grows, Le, PublishedOK, GivenUp
<1>3. ASSUME NEW r \in Requests, NEW u \in Uploads, NEW kind \in Kinds,
             NEW echoed \in BOOLEAN, ReceiveCallback(r, u, kind, echoed)
      PROVE  Grows
  BY <1>3 DEF ReceiveCallback, Grows, Le, PublishedOK, GivenUp
<1>. QED
  BY <1>1, <1>2, <1>3, VerdictSteps, InitiateGrows, HandleGrows, DeliverGrows DEF Next

\* So the secondary stays behind the primary.
LEMMA GrowsKeepsCollections ==
  ASSUME CollectionsOK, Grows
  PROVE  CollectionsOK'
<1>1. CASE replica' = replica
  BY <1>1 DEF CollectionsOK, Grows, Le
<1>2. CASE replica' = db
  BY <1>2 DEF CollectionsOK, Grows, Le
<1>. QED
  BY <1>1, <1>2 DEF Grows

-----------------------------------------------------------------------------
(* The verdict                                                             *)

\* Some file of upload u has been given up in database d.
SomeGivenUp(d, u) == \E s \in StatusRecords(d, u) : GivenUp(d, s.file)

\* The rank of the verdict of an upload, without CASE and strings.
Level(d, u) ==
  IF u \notin d.sessions \/ StatusRecords(d, u) = {} THEN 1
  ELSE IF HasRejection(d, u) THEN 4
  ELSE IF SomeGivenUp(d, u) THEN 3
  ELSE 2

\* The ranks, one by one.
LEMMA Ranks ==
  /\ Rank("scanning") = 0
  /\ Rank("awaiting-callback") = 1
  /\ Rank("accepted") = 2
  /\ Rank("delivery-failed") = 3
  /\ Rank("rejected-by-processor") = 4
  /\ Rank("rejected-by-scanner") = 5
  BY DEF Rank

\* Its verdict in words.
LEMMA VerdictWords ==
  ASSUME NEW d \in Database, PublishedOK(d), NEW u \in Uploads
  PROVE  /\ VerdictIn(d, u) \in {"awaiting-callback", "accepted", "delivery-failed",
                                 "rejected-by-processor"}
         /\ Rank(VerdictIn(d, u)) = Level(d, u)
<1>. DEFINE records == StatusRecords(d, u)
            files == {s.file : s \in records}
<1>1. files = {} <=> records = {}
  OBVIOUS
<1>2. records \subseteq d.status /\ d.status \subseteq StatusRecord
  BY DEF StatusRecords, Database
<1>3. \A s \in records : s.file \in Files
  BY <1>2 DEF StatusRecord
<1>4. Undelivered(files, d.outbox, {f \in files : d.published[f]}) <=> SomeGivenUp(d, u)
  <2>1. ASSUME NEW f \in files, d.outbox[f] = "PERMANENT_FAILURE"
        PROVE  ~d.published[f]
    BY <1>3, <2>1 DEF PublishedOK
  <2>. QED
    BY <2>1 DEF Undelivered, SomeGivenUp, GivenUp
<1>. DEFINE known == u \in d.sessions /\ files # {}
            verdict == IF Undelivered(files, d.outbox, {f \in files : d.published[f]})
                       THEN "delivery-failed" ELSE "accepted"
<1>5. VerdictIn(d, u) =
        CASE ~known -> "awaiting-callback"
          [] known /\ HasRejection(d, u) -> "rejected-by-processor"
          [] known /\ ~HasRejection(d, u) -> verdict
  BY DEF VerdictIn
<1>6. verdict = IF SomeGivenUp(d, u) THEN "delivery-failed" ELSE "accepted"
  BY <1>4
<1>7. Level(d, u) = IF u \notin d.sessions \/ records = {} THEN 1
                    ELSE IF HasRejection(d, u) THEN 4
                    ELSE IF SomeGivenUp(d, u) THEN 3
                    ELSE 2
  BY DEF Level
<1>. HIDE DEF records, files, verdict
<1>8. CASE u \notin d.sessions \/ files = {}
  <2>1. VerdictIn(d, u) = "awaiting-callback"
    BY <1>5, <1>8
  <2>. QED
    BY <1>1, <1>7, <1>8, <2>1, Ranks
<1>9. CASE u \in d.sessions /\ files # {} /\ HasRejection(d, u)
  <2>1. VerdictIn(d, u) = "rejected-by-processor"
    BY <1>5, <1>9
  <2>. QED
    BY <1>1, <1>7, <1>9, <2>1, Ranks
<1>10. CASE u \in d.sessions /\ files # {} /\ ~HasRejection(d, u)
  <2>1. VerdictIn(d, u) = verdict
    BY <1>5, <1>10
  <2>. QED
    BY <1>1, <1>6, <1>7, <1>10, <2>1, Ranks
<1>. QED
  BY <1>8, <1>9, <1>10

\* A database that has grown gives no lower verdict.
LEMMA LevelGrows ==
  ASSUME NEW d \in Database, NEW e, Le(d, e), NEW u
  PROVE  Level(d, u) <= Level(e, u)
<1>1. StatusRecords(d, u) \subseteq StatusRecords(e, u)
  BY DEF StatusRecords, Le
<1>2. u \in d.sessions => u \in e.sessions
  BY DEF Le
<1>3. HasRejection(d, u) => HasRejection(e, u)
  BY <1>1 DEF HasRejection
<1>4. SomeGivenUp(d, u) => SomeGivenUp(e, u)
  <2>1. \A s \in StatusRecords(d, u) : s.file \in Files
    BY DEF StatusRecords, Database, StatusRecord
  <2>. QED
    BY <1>1, <2>1 DEF SomeGivenUp, Le
<1>. QED
  BY <1>1, <1>2, <1>3, <1>4 DEF Level

ScanOK == scan \in [Uploads -> {"pending", "ready", "rejected"}]

\* The invariant of the collections and the scan.
CInv == IInv /\ CollectionsOK /\ ScanOK

\* The rank of the answer a database gives, by the result of the scan.
LEMMA AnswerWords ==
  ASSUME NEW d \in Database, PublishedOK(d), NEW u \in Uploads,
         NEW result \in {"pending", "ready", "rejected"}
  PROVE  /\ AnswerIn(d, result, u) \in Verdicts
         /\ result = "pending" => Rank(AnswerIn(d, result, u)) = 0
         /\ result = "rejected" => Rank(AnswerIn(d, result, u)) = 5
         /\ result = "ready" => Rank(AnswerIn(d, result, u)) = Level(d, u)
         /\ Rank(AnswerIn(d, result, u)) \in 0 .. 5
<1>1. CASE result = "pending"
  BY <1>1, Ranks DEF AnswerIn, Verdicts
<1>2. CASE result = "rejected"
  BY <1>2, Ranks DEF AnswerIn, Verdicts
<1>3. CASE result = "ready"
  <2>1. AnswerIn(d, result, u) = VerdictIn(d, u)
    BY <1>3 DEF AnswerIn
  <2>2. Level(d, u) \in 0 .. 5
    BY DEF Level
  <2>. QED
    BY <1>3, <2>1, <2>2, VerdictWords DEF Verdicts
<1>. QED
  BY <1>1, <1>2, <1>3

\* What is read is a past of the primary.
LEMMA ReadViewFacts ==
  ASSUME CInv
  PROVE  ReadView \in Database /\ PublishedOK(ReadView) /\ Le(ReadView, db)
  BY ModeAssumption DEF CInv, IInv, TypeOK, CollectionsOK, ReadView, Le

\* The rank of what is true of an upload now.
LEMMA TruthNow ==
  ASSUME CInv, NEW u \in Uploads
  PROVE  /\ Truth(u) \in Verdicts
         /\ scan[u] = "pending" => Rank(Truth(u)) = 0
         /\ scan[u] = "rejected" => Rank(Truth(u)) = 5
         /\ scan[u] = "ready" => Rank(Truth(u)) = Level(db, u)
         /\ Rank(Truth(u)) \in 0 .. 5
<1>1. db \in Database /\ PublishedOK(db) /\ scan[u] \in {"pending", "ready", "rejected"}
  BY DEF CInv, IInv, TypeOK, CollectionsOK, ScanOK
<1>. QED
  BY <1>1, AnswerWords DEF Truth

\* The rank of what the member that is read shows of an upload now.
LEMMA SeenNow ==
  ASSUME CInv, NEW u \in Uploads
  PROVE  /\ Seen(u) \in Verdicts
         /\ scan[u] = "pending" => Rank(Seen(u)) = 0
         /\ scan[u] = "rejected" => Rank(Seen(u)) = 5
         /\ scan[u] = "ready" => Rank(Seen(u)) = Level(ReadView, u)
         /\ Rank(Seen(u)) \in 0 .. 5
<1>1. /\ ReadView \in Database /\ PublishedOK(ReadView)
      /\ scan[u] \in {"pending", "ready", "rejected"}
  BY ReadViewFacts DEF CInv, ScanOK
<1>. QED
  BY <1>1, AnswerWords DEF Seen

\* A scan ends once.
LEMMA ScanStep ==
  ASSUME CInv, [VerdictNext]_allVars
  PROVE  ScanOK' /\ \A u \in Uploads : scan[u] # "pending" => scan'[u] = scan[u]
<1>1. CASE scan' = scan
  BY <1>1 DEF CInv, ScanOK
<1>2. ASSUME NEW u \in Uploads, FinishScan(u)
      PROVE  ScanOK' /\ \A v \in Uploads : scan[v] # "pending" => scan'[v] = scan[v]
  BY <1>2 DEF FinishScan, CInv, ScanOK
<1>. QED
  BY <1>1, <1>2 DEF VerdictNext, IntakeStep, Deliver, DeliverFile, GiveUpFile, ExpireFile,
     PollStep, StartPoll, PollFails, AskUploader, ReadSession, ReadStatus,
     ReadMetadata, ReadOutbox, allVars

\* The invariant is kept.
LEMMA CollectionsStep ==
  ASSUME CInv, [VerdictNext]_allVars
  PROVE  CInv'
<1>1. Grows
  BY StepGrows DEF CInv, CollectionsOK
<1>2. CollectionsOK' /\ ScanOK'
  BY <1>1, GrowsKeepsCollections, ScanStep DEF CInv
<1>3. IInv'
  BY VerdictSteps, NextEffect, DeliverEffect, EffectKeepsInvariant, StutterKeepsInvariant
     DEF CInv
<1>. QED
  BY <1>2, <1>3 DEF CInv

\* The collections start in order.
LEMMA CollectionsInit == VerdictInit => CInv
<1>1. Init => CollectionsOK
  BY DEF Init, CollectionsOK, EmptyDatabase, PublishedOK, Le, GivenUp
<1>2. VerdictInit => ScanOK
  BY DEF VerdictInit, ScanOK
<1>. QED
  BY <1>1, <1>2, Initially DEF VerdictInit, CInv

\* A later database, and a scan that ended meanwhile or before, give no lower answer.
LEMMA AnswerGrows ==
  ASSUME NEW d \in Database, NEW e \in Database, PublishedOK(d), PublishedOK(e),
         Le(d, e), NEW u \in Uploads,
         NEW before \in {"pending", "ready", "rejected"},
         NEW after \in {"pending", "ready", "rejected"},
         before # "pending" => after = before
  PROVE  /\ Rank(AnswerIn(d, before, u)) <= Rank(AnswerIn(e, after, u))
         /\ Rank(AnswerIn(e, after, u)) \in 0 .. 5
<1>1. Level(d, u) <= Level(e, u)
  BY LevelGrows
<1>2. /\ before = "pending" => Rank(AnswerIn(d, before, u)) = 0
      /\ before = "rejected" => Rank(AnswerIn(d, before, u)) = 5
      /\ before = "ready" => Rank(AnswerIn(d, before, u)) = Level(d, u)
  BY AnswerWords
<1>3. /\ after = "rejected" => Rank(AnswerIn(e, after, u)) = 5
      /\ after = "ready" => Rank(AnswerIn(e, after, u)) = Level(e, u)
      /\ Rank(AnswerIn(e, after, u)) \in 0 .. 5
  BY AnswerWords
<1>. QED
  BY <1>1, <1>2, <1>3

\* What the truth about an upload was, it still is, or more.
LEMMA TruthGrows ==
  ASSUME CInv, [VerdictNext]_allVars, NEW u \in Uploads
  PROVE  Rank(Truth(u)) <= Rank(Truth(u)')
<1>1. CInv' /\ Le(db, db')
  BY CollectionsStep, StepGrows DEF CInv, CollectionsOK, Grows
<1>2. scan[u] # "pending" => scan'[u] = scan[u]
  BY ScanStep
<1>3. /\ db \in Database /\ PublishedOK(db) /\ db' \in Database /\ PublishedOK(db')
      /\ scan[u] \in {"pending", "ready", "rejected"}
      /\ scan'[u] \in {"pending", "ready", "rejected"}
  BY <1>1 DEF CInv, IInv, TypeOK, CollectionsOK, ScanOK
<1>4. Rank(AnswerIn(db, scan[u], u)) <= Rank(AnswerIn(db', scan'[u], u))
  BY <1>1, <1>2, <1>3, AnswerGrows
<1>5. Truth(u)' = AnswerIn(db', scan'[u], u)
  BY DEF Truth, AnswerIn, VerdictIn, StatusRecords, HasRejection, Undelivered
<1>. QED
  BY <1>4, <1>5 DEF Truth

\* The member that is read does not go back in time.
LEMMA ReadViewGrows ==
  ASSUME CInv, [VerdictNext]_allVars
  PROVE  Le(ReadView, ReadView')
<1>1. Grows /\ Le(replica, db)
  BY StepGrows DEF CInv, CollectionsOK
<1>2. Le(db, db') /\ Le(replica, replica')
  BY <1>1 DEF Grows, Le
<1>. QED
  BY <1>2, ModeAssumption DEF ReadView

\* So what it shows of an upload, it still shows, or more.
LEMMA SeenGrows ==
  ASSUME CInv, [VerdictNext]_allVars, NEW u \in Uploads
  PROVE  Rank(Seen(u)) <= Rank(Seen(u)') /\ Rank(Seen(u)') \in 0 .. 5
<1>1. CInv' /\ Le(ReadView, ReadView')
  BY CollectionsStep, ReadViewGrows
<1>2. scan[u] # "pending" => scan'[u] = scan[u]
  BY ScanStep
<1>3. ReadView \in Database /\ PublishedOK(ReadView)
  BY ReadViewFacts
<1>4. ReadView' \in Database /\ PublishedOK(ReadView')
  BY <1>1, ModeAssumption DEF CInv, IInv, TypeOK, CollectionsOK, ReadView
<1>5. /\ scan[u] \in {"pending", "ready", "rejected"}
      /\ scan'[u] \in {"pending", "ready", "rejected"}
  BY <1>1 DEF CInv, ScanOK
<1>6. /\ Rank(AnswerIn(ReadView, scan[u], u)) <= Rank(AnswerIn(ReadView', scan'[u], u))
      /\ Rank(AnswerIn(ReadView', scan'[u], u)) \in 0 .. 5
  BY <1>1, <1>2, <1>3, <1>4, <1>5, AnswerGrows
<1>7. Seen(u)' = AnswerIn(ReadView', scan'[u], u)
  BY DEF Seen, AnswerIn, VerdictIn, StatusRecords, HasRejection, Undelivered
<1>. QED
  BY <1>6, <1>7 DEF Seen

\* For any number of callbacks and deliveries, a verdict is never taken back.
THEOREM VerdictsOnlyAdvance == VerdictSpec => VerdictAdvances
<1>1. CInv /\ [VerdictNext]_allVars => CInv'
  BY CollectionsStep
<1>2. CInv /\ [VerdictNext]_allVars
        => [\A u \in Uploads : Rank(Truth(u)) <= Rank(Truth(u))']_allVars
  BY TruthGrows
<1>. QED
  BY <1>1, <1>2, CollectionsInit, PTL DEF VerdictSpec, VerdictAdvances

-----------------------------------------------------------------------------
(* The polls                                                               *)

PollsTyped == poll \in [Polls -> Poll]

\* What a poll has learnt holds for good.
PollOK(p) ==
  /\ poll[p].pc # "unused" => poll[p].upload \in Uploads
  /\ poll[p].pc \in {"session", "status", "metadata", "outbox"} =>
       scan[poll[p].upload] = "ready"
  /\ poll[p].pc \in {"status", "metadata", "outbox"} =>
       poll[p].upload \in db.sessions
  /\ poll[p].pc \in {"metadata", "outbox"} =>
       /\ poll[p].files # {}
       /\ \A f \in poll[p].files :
            \E s \in StatusRecords(db, poll[p].upload) : s.file = f

PInv == CInv /\ PollsTyped /\ \A p \in Polls : PollOK(p)

\* Nothing of that is lost while the collections grow.
LEMMA OtherPoll ==
  ASSUME CInv, [VerdictNext]_allVars, NEW p \in Polls, PollOK(p), poll'[p] = poll[p]
  PROVE  PollOK(p)'
<1>1. Le(db, db')
  BY StepGrows DEF CInv, CollectionsOK, Grows
<1>2. \A u : StatusRecords(db, u) \subseteq StatusRecords(db', u)
  BY <1>1 DEF Le, StatusRecords
<1>3. \A u \in Uploads : scan[u] # "pending" => scan'[u] = scan[u]
  BY ScanStep
<1>4. poll[p].pc \in {"metadata", "outbox"} =>
        \A f \in poll[p].files :
          \E s \in StatusRecords(db', poll[p].upload) : s.file = f
  BY <1>2 DEF PollOK
<1>5. db.sessions \subseteq db'.sessions
  BY <1>1 DEF Le
<1>6. StatusRecords(db, poll[p].upload)' = StatusRecords(db', poll[p].upload)
  BY DEF StatusRecords
<1>. QED
  BY <1>3, <1>4, <1>5, <1>6 DEF PollOK, StatusRecords

\* A poll that ends claims nothing more of the database.
LEMMA ConcludeFacts ==
  ASSUME PollsTyped, NEW p \in Polls, NEW verdict \in Verdicts, Conclude(p, verdict),
         PollOK(p), poll[p].pc # "unused"
  PROVE  /\ PollsTyped' /\ PollOK(p)'
         /\ poll'[p].pc = "done" /\ poll'[p].verdict = verdict
         /\ poll'[p].seen = poll[p].seen
<1>. DEFINE t == [poll[p] EXCEPT !.pc = "done", !.verdict = verdict]
<1>1. /\ t \in Poll /\ t.pc = "done" /\ t.verdict = verdict
      /\ t.seen = poll[p].seen /\ t.upload = poll[p].upload
  BY DEF PollsTyped, Poll
<1>2. poll' = [poll EXCEPT ![p] = t]
  BY DEF Conclude
<1>. HIDE DEF t
<1>3. PollsTyped' /\ poll'[p] = t
  BY <1>1, <1>2 DEF PollsTyped
<1>. QED
  BY <1>1, <1>3 DEF PollOK

\* What each read makes of a poll that goes on.
Read(p, t) == t \in Poll /\ poll' = [poll EXCEPT ![p] = t]

\* A poll that goes on is where the read has put it.
LEMMA ReadFacts ==
  ASSUME PollsTyped, NEW p \in Polls, NEW t, Read(p, t)
  PROVE  PollsTyped' /\ poll'[p] = t
  BY DEF PollsTyped, Read

\* The records a poll finds are there.
LEMMA ReadRecords ==
  ASSUME CInv, NEW u
  PROVE  /\ StatusRecords(ReadView, u) \subseteq StatusRecords(db, u)
         /\ \A s \in StatusRecords(db, u) : s \in StatusRecord
         /\ HasRejection(ReadView, u) => HasRejection(db, u)
<1>1. db \in Database /\ ReadView \in Database /\ Le(ReadView, db)
  BY ReadViewFacts DEF CInv, IInv, TypeOK
<1>2. StatusRecords(ReadView, u) \subseteq StatusRecords(db, u)
  BY <1>1 DEF StatusRecords, Le
<1>3. \A s \in StatusRecords(db, u) : s \in StatusRecord
  BY <1>1 DEF StatusRecords, Database
<1>. QED
  BY <1>2, <1>3 DEF HasRejection


\* CDP Uploader is asked: the scan decides, or the database is read next.
LEMMA AskOutcome ==
  ASSUME CInv, PollsTyped, NEW p \in Polls, PollOK(p), AskUploader(p)
  PROVE  /\ poll[p].pc = "uploader" /\ poll[p].upload \in Uploads
         /\ \/ /\ Conclude(p, Truth(poll[p].upload))
               /\ Truth(poll[p].upload) \in Verdicts
               /\ Seen(poll[p].upload) = Truth(poll[p].upload)
            \/ /\ scan[poll[p].upload] = "ready"
               /\ Read(p, [poll[p] EXCEPT !.pc = "session"])
<1>1. poll[p].pc = "uploader" /\ poll[p].upload \in Uploads /\ poll[p] \in Poll
  BY DEF AskUploader, PollOK, PollsTyped
<1>2. scan[poll[p].upload] \in {"pending", "rejected", "ready"}
  BY <1>1 DEF CInv, ScanOK
<1>3. CASE scan[poll[p].upload] = "pending"
  BY <1>1, <1>3 DEF AskUploader, Truth, Seen, AnswerIn, Verdicts
<1>4. CASE scan[poll[p].upload] = "rejected"
  BY <1>1, <1>4 DEF AskUploader, Truth, Seen, AnswerIn, Verdicts
<1>5. CASE scan[poll[p].upload] = "ready"
  <2>1. poll' = [poll EXCEPT ![p].pc = "session"]
    BY <1>5 DEF AskUploader
  <2>2. [poll[p] EXCEPT !.pc = "session"] \in Poll
    BY <1>1 DEF Poll
  <2>. QED
    BY <1>1, <1>5, <2>1, <2>2 DEF Read, PollsTyped
<1>. QED
  BY <1>2, <1>3, <1>4, <1>5

\* The session is read: an upload without one is not known yet.
LEMMA SessionOutcome ==
  ASSUME PollsTyped, NEW p \in Polls, ReadSession(p)
  PROVE  /\ poll[p].pc = "session"
         /\ \/ /\ poll[p].upload \notin ReadView.sessions
               /\ Conclude(p, "awaiting-callback")
            \/ /\ poll[p].upload \in ReadView.sessions
               /\ Read(p, [poll[p] EXCEPT !.pc = "status"])
<1>1. [poll[p] EXCEPT !.pc = "status"] \in Poll
  BY DEF PollsTyped, Poll
<1>2. poll[p].upload \in ReadView.sessions =>
        poll' = [poll EXCEPT ![p] = [poll[p] EXCEPT !.pc = "status"]]
  BY DEF ReadSession, PollsTyped
<1>. QED
  BY <1>1, <1>2 DEF ReadSession, Read

\* The status records are read: none, a rejection, or the files to look up.
LEMMA StatusOutcome ==
  ASSUME CInv, PollsTyped, NEW p \in Polls, ReadStatus(p)
  PROVE  LET records == StatusRecords(ReadView, poll[p].upload)
             files == {s.file : s \in records}
         IN  /\ poll[p].pc = "status"
             /\ \/ records = {} /\ Conclude(p, "awaiting-callback")
                \/ /\ HasRejection(ReadView, poll[p].upload)
                   /\ Conclude(p, "rejected-by-processor")
                \/ /\ records # {} /\ ~HasRejection(ReadView, poll[p].upload)
                   /\ Read(p, [poll[p] EXCEPT !.pc = "metadata", !.files = files])
<1>. DEFINE records == StatusRecords(ReadView, poll[p].upload)
            files == {s.file : s \in records}
            t == [poll[p] EXCEPT !.pc = "metadata", !.files = files]
<1>1. \A s \in records : s \in StatusRecord
  BY ReadRecords
<1>2. files \subseteq Files
  BY <1>1 DEF StatusRecord
<1>3. /\ poll[p].pc = "status"
      /\ CASE records = {} -> Conclude(p, "awaiting-callback")
           [] HasRejection(ReadView, poll[p].upload) ->
                Conclude(p, "rejected-by-processor")
           [] records # {} /\ ~HasRejection(ReadView, poll[p].upload) ->
                poll' = [poll EXCEPT ![p].pc = "metadata", ![p].files = files]
  BY DEF ReadStatus
<1>4. HasRejection(ReadView, poll[p].upload) => records # {}
  BY DEF HasRejection
<1>. HIDE DEF records, files
<1>5. t \in Poll
  BY <1>2 DEF PollsTyped, Poll
<1>6. poll' = [poll EXCEPT ![p].pc = "metadata", ![p].files = files]
        => poll' = [poll EXCEPT ![p] = t]
  BY DEF PollsTyped
<1>. HIDE DEF t
<1>7. CASE records = {}
  BY <1>3, <1>4, <1>7 DEF records
<1>8. CASE HasRejection(ReadView, poll[p].upload)
  BY <1>3, <1>4, <1>8
<1>9. CASE records # {} /\ ~HasRejection(ReadView, poll[p].upload)
  <2>1. Read(p, t)
    BY <1>3, <1>5, <1>6, <1>9 DEF Read
  <2>. QED
    BY <1>3, <1>9, <2>1 DEF records, files, t
<1>. QED
  BY <1>7, <1>8, <1>9

\* The metadata is read: which of the files have been published.
LEMMA MetadataOutcome ==
  ASSUME PollsTyped, NEW p \in Polls, ReadMetadata(p)
  PROVE  LET isPublished == {f \in poll[p].files : ReadView.published[f]}
         IN  /\ poll[p].pc = "metadata"
             /\ Read(p, [poll[p] EXCEPT !.pc = "outbox", !.isPublished = isPublished])
<1>. DEFINE isPublished == {f \in poll[p].files : ReadView.published[f]}
            t == [poll[p] EXCEPT !.pc = "outbox", !.isPublished = isPublished]
<1>1. poll[p] \in Poll
  BY DEF PollsTyped
<1>2. isPublished \in SUBSET Files
  BY <1>1 DEF Poll
<1>3. poll[p].pc = "metadata"
      /\ poll' = [poll EXCEPT ![p].pc = "outbox", ![p].isPublished = isPublished]
  BY DEF ReadMetadata
<1>. HIDE DEF isPublished
<1>4. t \in Poll
  BY <1>1, <1>2 DEF Poll
<1>5. poll' = [poll EXCEPT ![p] = t]
  BY <1>3 DEF PollsTyped
<1>6. Read(p, t)
  BY <1>4, <1>5 DEF Read
<1>. QED
  BY <1>3, <1>6 DEF isPublished

\* A poll's step is its own.
LEMMA OnePoll ==
  ASSUME CInv, PollsTyped, NEW p \in Polls, PollOK(p), PollStep(p)
  PROVE  /\ \A q \in Polls \ {p} : poll'[q] = poll[q]
         /\ UNCHANGED <<vars, scan>>
<1>1. UNCHANGED <<vars, scan>>
  BY DEF PollStep, StartPoll, PollFails, AskUploader, ReadSession, ReadStatus,
         ReadMetadata, ReadOutbox
<1>2. ASSUME NEW q \in Polls \ {p} PROVE poll'[q] = poll[q]
  <2>1. CASE \E u \in Uploads : StartPoll(p, u)
    <3>1. PICK t : poll' = [poll EXCEPT ![p] = t]
      BY <2>1 DEF StartPoll
    <3>. QED
      BY <3>1 DEF PollsTyped
  <2>2. CASE PollFails(p)
    BY <2>2 DEF PollFails, PollsTyped
  <2>3. CASE AskUploader(p)
    <3>1. CASE Conclude(p, Truth(poll[p].upload))
      BY <3>1 DEF Conclude, PollsTyped
    <3>2. CASE Read(p, [poll[p] EXCEPT !.pc = "session"])
      BY <3>2 DEF Read, PollsTyped
    <3>. QED
      BY <2>3, <3>1, <3>2, AskOutcome
  <2>4. CASE ReadSession(p)
    BY <2>4 DEF ReadSession, Conclude, PollsTyped
  <2>5. CASE ReadStatus(p)
    BY <2>5 DEF ReadStatus, Conclude, PollsTyped
  <2>6. CASE ReadMetadata(p)
    BY <2>6 DEF ReadMetadata, PollsTyped
  <2>7. CASE ReadOutbox(p)
    BY <2>7 DEF ReadOutbox, Conclude, PollsTyped
  <2>. QED
    BY <2>1, <2>2, <2>3, <2>4, <2>5, <2>6, <2>7 DEF PollStep
<1>. QED
  BY <1>1, <1>2

\* A poll that starts remembers what was true, and what could be seen, at that moment.
LEMMA StartOutcome ==
  ASSUME CInv, PollsTyped, NEW p \in Polls, NEW u \in Uploads, StartPoll(p, u)
  PROVE  /\ PollsTyped' /\ poll'[p].pc = "uploader" /\ poll'[p].upload = u
         /\ poll'[p].truth = Truth(u) /\ poll'[p].seen = Seen(u)
<1>1. Truth(u) \in Verdicts /\ Seen(u) \in Verdicts
  BY TruthNow, SeenNow
<1>. DEFINE t == [UnusedPoll EXCEPT !.pc = "uploader", !.upload = u,
                                    !.truth = Truth(u), !.seen = Seen(u)]
<1>2. /\ t \in Poll /\ t.pc = "uploader" /\ t.upload = u
      /\ t.truth = Truth(u) /\ t.seen = Seen(u)
  BY <1>1 DEF UnusedPoll, Poll, Verdicts
<1>3. poll' = [poll EXCEPT ![p] = t]
  BY DEF StartPoll
<1>. HIDE DEF t
<1>. QED
  BY <1>2, <1>3 DEF PollsTyped

\* A poll keeps to what it knows.
LEMMA PollStepOK ==
  ASSUME PInv, NEW p \in Polls, PollStep(p)
  PROVE  PollsTyped' /\ PollOK(p)'
<1>1. CInv /\ PollsTyped /\ PollOK(p) /\ poll[p] \in Poll
  BY DEF PInv, PollsTyped
<1>2. /\ scan' = scan /\ db' = db
      /\ \A u : StatusRecords(db, u)' = StatusRecords(db, u)'
  BY <1>1, OnePoll DEF vars
<1>3. CASE \E u \in Uploads : StartPoll(p, u)
  BY <1>1, <1>3, StartOutcome DEF PollOK
<1>4. CASE PollFails(p)
  <2>1. poll[p].pc # "unused" /\ Read(p, [poll[p] EXCEPT !.pc = "failed"])
    BY <1>1, <1>4 DEF PollFails, Read, Poll, PollsTyped
  <2>2. PollsTyped' /\ poll'[p].pc = "failed" /\ poll'[p].upload = poll[p].upload
    BY <1>1, <2>1, ReadFacts DEF Poll
  <2>. QED
    BY <1>1, <2>1, <2>2 DEF PollOK
<1>5. CASE AskUploader(p)
  <2>1. CASE Conclude(p, Truth(poll[p].upload))
    BY <1>1, <1>5, <2>1, AskOutcome, ConcludeFacts, TruthNow
  <2>2. CASE /\ scan[poll[p].upload] = "ready"
             /\ Read(p, [poll[p] EXCEPT !.pc = "session"])
    <3>1. PollsTyped' /\ poll'[p].pc = "session" /\ poll'[p].upload = poll[p].upload
      BY <1>1, <2>2, ReadFacts DEF Poll
    <3>. QED
      BY <1>1, <1>2, <1>5, <2>2, <3>1, AskOutcome DEF PollOK
  <2>. QED
    BY <1>1, <1>5, <2>1, <2>2, AskOutcome
<1>6. CASE ReadSession(p)
  <2>1. CASE Conclude(p, "awaiting-callback")
    BY <1>1, <1>6, <2>1, SessionOutcome, ConcludeFacts DEF Verdicts
  <2>2. CASE /\ poll[p].upload \in ReadView.sessions
             /\ Read(p, [poll[p] EXCEPT !.pc = "status"])
    <3>1. PollsTyped' /\ poll'[p].pc = "status" /\ poll'[p].upload = poll[p].upload
      BY <1>1, <2>2, ReadFacts DEF Poll
    <3>2. poll[p].upload \in db.sessions
      BY <1>1, <2>2, ReadViewFacts DEF Le
    <3>. QED
      BY <1>1, <1>2, <1>6, <3>1, <3>2, SessionOutcome DEF PollOK
  <2>. QED
    BY <1>1, <1>6, <2>1, <2>2, SessionOutcome
<1>7. CASE ReadStatus(p)
  <2>. DEFINE records == StatusRecords(ReadView, poll[p].upload)
              files == {s.file : s \in records}
  <2>1. CASE Conclude(p, "awaiting-callback") \/ Conclude(p, "rejected-by-processor")
    BY <1>1, <1>7, <2>1, StatusOutcome, ConcludeFacts DEF Verdicts
  <2>2. CASE records # {} /\ Read(p, [poll[p] EXCEPT !.pc = "metadata", !.files = files])
    <3>1. /\ PollsTyped' /\ poll'[p].pc = "metadata"
          /\ poll'[p].upload = poll[p].upload /\ poll'[p].files = files
      <4>. DEFINE t == [poll[p] EXCEPT !.pc = "metadata", !.files = files]
      <4>. HIDE DEF files
      <4>1. t.pc = "metadata" /\ t.upload = poll[p].upload /\ t.files = files
        BY <1>1 DEF Poll
      <4>. HIDE DEF t
      <4>2. PollsTyped' /\ poll'[p] = t
        BY <1>1, <2>2, ReadFacts DEF t
      <4>. QED
        BY <4>1, <4>2
    <3>2. files # {} /\ \A f \in files :
                          \E s \in StatusRecords(db, poll[p].upload) : s.file = f
      BY <1>1, <2>2, ReadRecords
    <3>3. StatusRecords(db, poll[p].upload)' = StatusRecords(db, poll'[p].upload)
      BY <1>2 DEF StatusRecords
    <3>4. poll[p].pc = "status"
      BY <1>1, <1>7, StatusOutcome
    <3>. HIDE DEF records, files
    <3>. QED
      BY <1>1, <1>2, <3>1, <3>2, <3>3, <3>4 DEF PollOK
  <2>. QED
    BY <1>1, <1>7, <2>1, <2>2, StatusOutcome
<1>8. CASE ReadMetadata(p)
  <2>. DEFINE isPublished == {f \in poll[p].files : ReadView.published[f]}
  <2>1. /\ poll[p].pc = "metadata"
        /\ Read(p, [poll[p] EXCEPT !.pc = "outbox", !.isPublished = isPublished])
    BY <1>1, <1>8, MetadataOutcome
  <2>. HIDE DEF isPublished
  <2>. DEFINE t == [poll[p] EXCEPT !.pc = "outbox", !.isPublished = isPublished]
  <2>4. t.pc = "outbox" /\ t.upload = poll[p].upload /\ t.files = poll[p].files
    BY <1>1 DEF Poll
  <2>. HIDE DEF t
  <2>5. PollsTyped' /\ poll'[p] = t
    BY <1>1, <2>1, ReadFacts DEF t
  <2>2. /\ PollsTyped' /\ poll'[p].pc = "outbox"
        /\ poll'[p].upload = poll[p].upload /\ poll'[p].files = poll[p].files
    BY <2>4, <2>5
  <2>3. StatusRecords(db, poll[p].upload)' = StatusRecords(db, poll'[p].upload)
    BY <1>2 DEF StatusRecords
  <2>. QED
    BY <1>1, <1>2, <2>1, <2>2, <2>3 DEF PollOK
<1>9. CASE ReadOutbox(p)
  <2>1. poll[p].pc = "outbox"
        /\ (Conclude(p, "delivery-failed") \/ Conclude(p, "accepted"))
    BY <1>9 DEF ReadOutbox
  <2>. QED
    BY <1>1, <2>1, ConcludeFacts DEF Verdicts
<1>. QED
  BY <1>3, <1>4, <1>5, <1>6, <1>7, <1>8, <1>9 DEF PollStep

\* The invariant of the polls is kept.
LEMMA PollsStep ==
  ASSUME PInv, [VerdictNext]_allVars
  PROVE  PInv'
<1>1. CInv /\ PollsTyped /\ (\A p \in Polls : PollOK(p)) /\ CInv'
  BY CollectionsStep DEF PInv
<1>2. CASE poll' = poll
  BY <1>1, <1>2, OtherPoll DEF PInv, PollsTyped
<1>3. ASSUME NEW p \in Polls, PollStep(p) PROVE PInv'
  <2>1. PollsTyped' /\ PollOK(p)'
    BY <1>3, PollStepOK
  <2>2. \A q \in Polls \ {p} : PollOK(q)'
    BY <1>1, <1>3, OnePoll, OtherPoll
  <2>. QED
    BY <1>1, <2>1, <2>2 DEF PInv
<1>. QED
  BY <1>2, <1>3 DEF VerdictNext, IntakeStep, FinishScan, Deliver, DeliverFile, GiveUpFile,
     ExpireFile, allVars

\* It holds at the start.
LEMMA PollsInit == VerdictInit => PInv
<1>. SUFFICES ASSUME VerdictInit PROVE PInv
  OBVIOUS
<1>1. UnusedPoll \in Poll /\ UnusedPoll.pc = "unused"
  BY DEF UnusedPoll, Poll, Verdicts
<1>2. PollsTyped /\ \A p \in Polls : poll[p].pc = "unused"
  BY <1>1 DEF VerdictInit, PollsTyped
<1>. QED
  BY <1>2, CollectionsInit DEF PInv, PollOK

\* A poll that ends announces no more than is true of the upload then.
LEMMA ConclusionHolds ==
  ASSUME PInv, NEW p \in Polls, PollStep(p), poll'[p].pc = "done", poll[p].pc # "done"
  PROVE  Rank(poll'[p].verdict) <= Rank(Truth(poll[p].upload))
<1>. DEFINE u == poll[p].upload
<1>1. CInv /\ PollsTyped /\ PollOK(p) /\ poll[p] \in Poll
  BY DEF PInv, PollsTyped
<1>2. CASE \E v \in Uploads : StartPoll(p, v)
  BY <1>1, <1>2, StartOutcome
<1>3. CASE PollFails(p)
  BY <1>1, <1>3 DEF PollFails, PollsTyped, Poll
<1>4. CASE AskUploader(p)
  <2>1. CASE Conclude(p, Truth(u)) /\ Truth(u) \in Verdicts
    <3>1. poll'[p].verdict = Truth(u)
      BY <1>1, <1>4, <2>1, AskOutcome, ConcludeFacts
    <3>2. Rank(Truth(u)) \in 0 .. 5
      BY <1>1, <1>4, AskOutcome, TruthNow
    <3>. QED
      BY <3>1, <3>2
  <2>2. CASE Read(p, [poll[p] EXCEPT !.pc = "session"])
    <3>1. poll'[p].pc = "session"
      BY <1>1, <2>2, ReadFacts DEF Poll
    <3>. QED
      BY <3>1
  <2>. QED
    BY <1>1, <1>4, <2>1, <2>2, AskOutcome
<1>5. ASSUME poll[p].pc \in {"session", "status", "outbox"}
      PROVE  /\ u \in Uploads /\ Rank(Truth(u)) = Level(db, u) /\ Level(db, u) >= 1
  BY <1>1, <1>5, TruthNow DEF PollOK, Level
<1>6. CASE ReadSession(p)
  <2>1. CASE Conclude(p, "awaiting-callback")
    <3>1. poll'[p].verdict = "awaiting-callback"
      BY <1>1, <1>6, <2>1, SessionOutcome, ConcludeFacts DEF Verdicts
    <3>. QED
      BY <1>1, <1>5, <1>6, <3>1, Ranks, SessionOutcome
  <2>2. CASE Read(p, [poll[p] EXCEPT !.pc = "status"])
    <3>1. poll'[p].pc = "status"
      BY <1>1, <2>2, ReadFacts DEF Poll
    <3>. QED
      BY <3>1
  <2>. QED
    BY <1>1, <1>6, <2>1, <2>2, SessionOutcome
<1>7. CASE ReadStatus(p)
  <2>. DEFINE files == {s.file : s \in StatusRecords(ReadView, u)}
  <2>0. poll[p].pc = "status" /\ u \in db.sessions
    BY <1>1, <1>7, StatusOutcome DEF PollOK
  <2>1. CASE Conclude(p, "awaiting-callback")
    <3>1. poll'[p].verdict = "awaiting-callback"
      BY <1>1, <2>0, <2>1, ConcludeFacts DEF Verdicts
    <3>. QED
      BY <1>5, <2>0, <3>1, Ranks
  <2>2. CASE HasRejection(ReadView, u) /\ Conclude(p, "rejected-by-processor")
    <3>1. poll'[p].verdict = "rejected-by-processor"
      BY <1>1, <2>0, <2>2, ConcludeFacts DEF Verdicts
    <3>2. HasRejection(db, u)
      BY <1>1, <2>2, ReadRecords
    <3>3. Level(db, u) = 4
      BY <2>0, <3>2 DEF Level, HasRejection
    <3>. QED
      BY <1>5, <2>0, <3>1, <3>3, Ranks
  <2>3. CASE Read(p, [poll[p] EXCEPT !.pc = "metadata", !.files = files])
    <3>. DEFINE t == [poll[p] EXCEPT !.pc = "metadata", !.files = files]
    <3>. HIDE DEF files
    <3>1. t.pc = "metadata"
      BY <1>1 DEF Poll
    <3>. HIDE DEF t
    <3>2. poll'[p] = t
      BY <1>1, <2>3, ReadFacts DEF t
    <3>. QED
      BY <3>1, <3>2
  <2>. QED
    BY <1>1, <1>7, <2>1, <2>2, <2>3, StatusOutcome
<1>8. CASE ReadMetadata(p)
  <2>. DEFINE isPublished == {f \in poll[p].files : ReadView.published[f]}
  <2>1. Read(p, [poll[p] EXCEPT !.pc = "outbox", !.isPublished = isPublished])
    BY <1>1, <1>8, MetadataOutcome
  <2>. HIDE DEF isPublished
  <2>. DEFINE t == [poll[p] EXCEPT !.pc = "outbox", !.isPublished = isPublished]
  <2>2. t.pc = "outbox"
    BY <1>1 DEF Poll
  <2>. HIDE DEF t
  <2>3. poll'[p].pc = "outbox"
    BY <1>1, <2>1, <2>2, ReadFacts DEF t
  <2>. QED
    BY <2>3
<1>9. CASE ReadOutbox(p)
  <2>1. poll[p].pc = "outbox"
        /\ Conclude(p, IF Undelivered(poll[p].files, ReadView.outbox, poll[p].isPublished)
                       THEN "delivery-failed" ELSE "accepted")
    BY <1>9 DEF ReadOutbox
  <2>2. /\ u \in db.sessions /\ poll[p].files # {}
        /\ \A f \in poll[p].files : \E s \in StatusRecords(db, u) : s.file = f
    BY <1>1, <2>1 DEF PollOK
  <2>3. StatusRecords(db, u) # {} /\ Level(db, u) >= 2
    BY <2>2 DEF Level
  <2>4. CASE Undelivered(poll[p].files, ReadView.outbox, poll[p].isPublished)
    <3>1. poll'[p].verdict = "delivery-failed"
      BY <1>1, <2>1, <2>4, ConcludeFacts DEF Verdicts
    <3>2. PICK f \in poll[p].files : ReadView.outbox[f] = "PERMANENT_FAILURE"
      BY <2>4 DEF Undelivered
    <3>3. f \in Files
      BY <1>1 DEF Poll
    <3>4. GivenUp(db, f)
      BY <1>1, <3>2, <3>3, ReadViewFacts DEF Le, GivenUp
    <3>5. SomeGivenUp(db, u)
      BY <2>2, <3>4 DEF SomeGivenUp
    <3>6. Level(db, u) >= 3
      BY <2>2, <2>3, <3>5 DEF Level
    <3>. QED
      BY <1>5, <2>1, <3>1, <3>6, Ranks
  <2>5. CASE ~Undelivered(poll[p].files, ReadView.outbox, poll[p].isPublished)
    <3>1. poll'[p].verdict = "accepted"
      BY <1>1, <2>1, <2>5, ConcludeFacts DEF Verdicts
    <3>. QED
      BY <1>5, <2>1, <2>3, <3>1, Ranks
  <2>. QED
    BY <2>4, <2>5
<1>. QED
  BY <1>2, <1>3, <1>4, <1>6, <1>7, <1>8, <1>9 DEF PollStep

\* For any number of callbacks, deliveries and polls, and whichever member of the
\* database is read: a poll is never ahead of what is true when it answers.
THEOREM NeverAhead == VerdictSpec => VerdictNotAhead
<1>1. PInv /\ [VerdictNext]_allVars => PInv'
  BY PollsStep
<1>. DEFINE NotAhead == \A p \in Polls :
              poll'[p].pc = "done" /\ poll[p].pc # "done" =>
                Rank(poll'[p].verdict) <= Rank(Truth(poll[p].upload))
<1>2. PInv /\ VerdictNext => NotAhead
  <2>. SUFFICES ASSUME PInv, VerdictNext, NEW p \in Polls,
                       poll'[p].pc = "done", poll[p].pc # "done"
                PROVE  Rank(poll'[p].verdict) <= Rank(Truth(poll[p].upload))
    OBVIOUS
  <2>1. poll' # poll
    OBVIOUS
  <2>2. PICK q \in Polls : PollStep(q)
    BY <2>1 DEF VerdictNext, IntakeStep, FinishScan, Deliver, DeliverFile, GiveUpFile,
       ExpireFile
  <2>3. q = p
    BY <2>2, OnePoll DEF PInv
  <2>. QED
    BY <2>2, <2>3, ConclusionHolds
<1>. QED
  BY <1>1, <1>2, PollsInit, PTL DEF VerdictSpec, VerdictNotAhead

-----------------------------------------------------------------------------
(* What a poll has seen                                                    *)

\* What a poll has read cannot make it fall below what it could have seen at the start: a
\* file given up by then is among the files it looks up, and is not published.
SeenOK(p) ==
  LET past == Rank(poll[p].seen)
  IN  /\ poll[p].pc \in {"uploader", "session", "status"} =>
           past <= Rank(Seen(poll[p].upload))
      /\ poll[p].pc \in {"metadata", "outbox"} =>
           /\ past <= 3
           /\ past = 3 => \E f \in poll[p].files :
                            /\ GivenUp(ReadView, f)
                            /\ poll[p].pc = "outbox" => f \notin poll[p].isPublished
      /\ poll[p].pc = "done" => past <= Rank(poll[p].verdict)

\* Ranks are small numbers.
LEMMA RankTyped == \A verdict \in Verdicts : Rank(verdict) \in 0 .. 5
  BY Ranks DEF Verdicts

\* While others act, a poll stays as far as it was.
LEMMA OtherNotOlder ==
  ASSUME PInv, [VerdictNext]_allVars, NEW p \in Polls, SeenOK(p), poll'[p] = poll[p]
  PROVE  SeenOK(p)'
<1>1. CInv /\ PollsTyped /\ PollOK(p) /\ poll[p] \in Poll
  BY DEF PInv, PollsTyped
<1>2. Le(ReadView, ReadView')
  BY <1>1, ReadViewGrows
<1>3. Rank(poll[p].seen) \in 0 .. 5
  BY <1>1, RankTyped DEF Poll
<1>4. CASE poll[p].pc \in {"uploader", "session", "status"}
  <2>1. PICK u \in Uploads : u = poll[p].upload
    BY <1>1, <1>4 DEF PollOK
  <2>2. Rank(Seen(u)) <= Rank(Seen(u)') /\ Rank(Seen(u)') \in 0 .. 5
    BY <1>1, <2>1, SeenGrows
  <2>3. Rank(Seen(u)) \in 0 .. 5
    BY <1>1, <2>1, SeenNow
  <2>4. Seen(poll[p].upload)' = Seen(u)'
    BY <2>1
  <2>5. Rank(poll[p].seen) <= Rank(Seen(u))
    BY <1>4, <2>1 DEF SeenOK
  <2>6. Rank(poll[p].seen) <= Rank(Seen(u)')
    BY <1>3, <2>2, <2>3, <2>5
  <2>. QED
    BY <1>4, <2>4, <2>6 DEF SeenOK
<1>5. CASE poll[p].pc \in {"metadata", "outbox"}
  <2>1. \A f \in poll[p].files : f \in Files
    BY <1>1 DEF Poll
  <2>2. \A f \in Files : GivenUp(ReadView, f) => GivenUp(ReadView', f)
    BY <1>2 DEF Le
  <2>3. \A f \in Files : GivenUp(ReadView, f)' = GivenUp(ReadView', f)
    BY DEF GivenUp
  <2>. QED
    BY <1>5, <2>1, <2>2, <2>3 DEF SeenOK
<1>6. CASE poll[p].pc \in {"unused", "done", "failed"}
  BY <1>6 DEF SeenOK
<1>. QED
  BY <1>1, <1>4, <1>5, <1>6 DEF Poll

\* While a poll moves, what it reads stays.
LEMMA PollKeepsView ==
  ASSUME PInv, NEW p \in Polls, PollStep(p), NEW u
  PROVE  Seen(u)' = Seen(u) /\ ReadView' = ReadView
<1>1. scan' = scan /\ db' = db /\ replica' = replica
  BY OnePoll DEF PInv, vars
<1>2. ReadView' = ReadView
  BY <1>1 DEF ReadView
<1>. QED
  BY <1>1, <1>2 DEF Seen, AnswerIn, VerdictIn, StatusRecords, HasRejection, Undelivered

\* A poll may conclude with v when v is as high as what it has seen.
LEMMA ConcludeNotOlder ==
  ASSUME PInv, NEW p \in Polls, NEW v \in Verdicts, Conclude(p, v),
         poll[p].pc # "unused", Rank(poll[p].seen) <= Rank(v)
  PROVE  SeenOK(p)'
<1>1. /\ poll'[p].pc = "done" /\ poll'[p].verdict = v
      /\ poll'[p].seen = poll[p].seen
  BY ConcludeFacts DEF PInv
<1>. QED
  BY <1>1 DEF SeenOK

\* No read takes a poll below what it could have seen.
LEMMA PollNotOlder ==
  ASSUME PInv, NEW p \in Polls, PollStep(p), SeenOK(p)
  PROVE  SeenOK(p)'
<1>1. /\ CInv /\ PollsTyped /\ PollOK(p) /\ poll[p] \in Poll
      /\ ReadView \in Database /\ PublishedOK(ReadView)
  BY ReadViewFacts DEF PInv, PollsTyped
<1>2. ReadView' = ReadView
  BY PollKeepsView
<1>. DEFINE past == Rank(poll[p].seen)
<1>3. past \in 0 .. 5
  BY <1>1, RankTyped DEF Poll
<1>. HIDE DEF past
<1>4. ASSUME poll[p].pc \in {"session", "status"}
      PROVE  past <= Level(ReadView, poll[p].upload)
  BY <1>1, <1>4, SeenNow DEF PollOK, SeenOK, past
<1>5. CASE \E u \in Uploads : StartPoll(p, u)
  <2>1. PICK u \in Uploads : StartPoll(p, u)
    BY <1>5
  <2>2. poll'[p].pc = "uploader" /\ poll'[p].upload = u /\ poll'[p].seen = Seen(u)
    BY <1>1, <2>1, StartOutcome
  <2>3. Seen(u)' = Seen(u) /\ Rank(Seen(u)) \in 0 .. 5
    BY <1>1, PollKeepsView, SeenNow
  <2>4. Seen(poll[p].upload)' = Seen(u)'
    BY <2>2
  <2>. QED
    BY <2>2, <2>3, <2>4 DEF SeenOK
<1>6. CASE PollFails(p)
  <2>1. poll'[p].pc = "failed"
    BY <1>1, <1>6 DEF PollFails, PollsTyped, Poll
  <2>. QED
    BY <2>1 DEF SeenOK
<1>7. CASE AskUploader(p)
  <2>1. poll[p].pc = "uploader"
    BY <1>1, <1>7, AskOutcome
  <2>2. PICK u \in Uploads : u = poll[p].upload
    BY <1>1, <1>7, AskOutcome
  <2>3. past <= Rank(Seen(u)) /\ Seen(u) \in Verdicts
    BY <1>1, <2>1, <2>2, SeenNow DEF SeenOK, past
  <2>4. CASE Conclude(p, Seen(u))
    BY <2>1, <2>3, <2>4, ConcludeNotOlder DEF past
  <2>5. CASE Read(p, [poll[p] EXCEPT !.pc = "session"])
    <3>1. poll'[p].pc = "session" /\ poll'[p].upload = u /\ poll'[p].seen = poll[p].seen
      BY <1>1, <2>2, <2>5, ReadFacts DEF Poll
    <3>2. Seen(poll[p].upload)' = Seen(u)' /\ Seen(u)' = Seen(u)
      BY <3>1, PollKeepsView
    <3>. QED
      BY <2>3, <3>1, <3>2 DEF SeenOK, past
  <2>. QED
    BY <1>1, <1>7, <2>2, <2>4, <2>5, AskOutcome
<1>8. CASE ReadSession(p)
  <2>1. poll[p].pc = "session" /\ poll[p].upload \in Uploads
    BY <1>1, <1>8, SessionOutcome DEF PollOK
  <2>2. CASE poll[p].upload \notin ReadView.sessions /\ Conclude(p, "awaiting-callback")
    <3>1. Level(ReadView, poll[p].upload) = 1
      BY <2>2 DEF Level
    <3>2. past <= Rank("awaiting-callback")
      BY <1>4, <2>1, <3>1, Ranks
    <3>. QED
      BY <2>1, <2>2, <3>2, ConcludeNotOlder DEF past, Verdicts
  <2>3. CASE Read(p, [poll[p] EXCEPT !.pc = "status"])
    <3>1. PICK u \in Uploads : u = poll[p].upload
      BY <2>1
    <3>2. poll'[p].pc = "status" /\ poll'[p].upload = u /\ poll'[p].seen = poll[p].seen
      BY <1>1, <2>3, <3>1, ReadFacts DEF Poll
    <3>3. Seen(poll[p].upload)' = Seen(u)' /\ Seen(u)' = Seen(u)
      BY <3>2, PollKeepsView
    <3>4. past <= Rank(Seen(u))
      BY <2>1, <3>1 DEF SeenOK, past
    <3>. QED
      BY <3>2, <3>3, <3>4 DEF SeenOK, past
  <2>. QED
    BY <1>1, <1>2, <1>8, <2>2, <2>3, SessionOutcome
<1>9. CASE ReadStatus(p)
  <2>. DEFINE u == poll[p].upload
              records == StatusRecords(ReadView, u)
              files == {s.file : s \in records}
  <2>1. poll[p].pc = "status"
    BY <1>1, <1>9, StatusOutcome
  <2>2. past <= Level(ReadView, u)
    BY <1>4, <2>1
  <2>3. CASE records = {} /\ Conclude(p, "awaiting-callback")
    <3>1. Level(ReadView, u) = 1
      BY <2>3 DEF Level
    <3>2. past <= Rank("awaiting-callback")
      BY <2>2, <3>1, Ranks
    <3>. QED
      BY <2>1, <2>3, <3>2, ConcludeNotOlder DEF past, Verdicts
  <2>4. CASE Conclude(p, "rejected-by-processor")
    <3>1. Level(ReadView, u) \in 1 .. 4
      BY DEF Level
    <3>2. past <= Rank("rejected-by-processor")
      BY <1>3, <2>2, <3>1, Ranks
    <3>. QED
      BY <2>1, <2>4, <3>2, ConcludeNotOlder DEF past, Verdicts
  <2>5. CASE /\ records # {} /\ ~HasRejection(ReadView, u)
             /\ Read(p, [poll[p] EXCEPT !.pc = "metadata", !.files = files])
    <3>1. poll'[p].pc = "metadata" /\ poll'[p].files = files /\ poll'[p].seen = poll[p].seen
      <4>. DEFINE t == [poll[p] EXCEPT !.pc = "metadata", !.files = files]
      <4>. HIDE DEF files
      <4>1. t.pc = "metadata" /\ t.files = files /\ t.seen = poll[p].seen
        BY <1>1 DEF Poll
      <4>. HIDE DEF t
      <4>2. poll'[p] = t
        BY <1>1, <2>5, ReadFacts DEF t
      <4>. QED
        BY <4>1, <4>2
    <3>2. Level(ReadView, u) \in IF SomeGivenUp(ReadView, u) THEN {1, 3} ELSE {1, 2}
      BY <2>5 DEF Level
    <3>3. past <= 3 /\ (past = 3 => SomeGivenUp(ReadView, u))
      BY <1>3, <2>2, <3>2
    <3>4. past = 3 => \E f \in files : GivenUp(ReadView, f)
      BY <3>3 DEF SomeGivenUp
    <3>5. \A f : GivenUp(ReadView, f)' = GivenUp(ReadView, f)
      BY <1>2 DEF GivenUp
    <3>. HIDE DEF files
    <3>. QED
      BY <3>1, <3>3, <3>4, <3>5 DEF SeenOK, past
  <2>. QED
    BY <1>1, <1>2, <1>9, <2>3, <2>4, <2>5, StatusOutcome
<1>10. CASE ReadMetadata(p)
  <2>. DEFINE isPublished == {f \in poll[p].files : ReadView.published[f]}
              t == [poll[p] EXCEPT !.pc = "outbox", !.isPublished = isPublished]
  <2>1. poll[p].pc = "metadata" /\ Read(p, t)
    BY <1>1, <1>2, <1>10, MetadataOutcome
  <2>2. past <= 3 /\ (past = 3 => \E f \in poll[p].files : GivenUp(ReadView, f))
    BY <2>1 DEF SeenOK, past
  <2>3. \A f \in poll[p].files : GivenUp(ReadView, f) => f \notin isPublished
    BY <1>1 DEF Poll, GivenUp, PublishedOK
  <2>4. \A f : GivenUp(ReadView, f)' = GivenUp(ReadView, f)
    BY <1>2 DEF GivenUp
  <2>. HIDE DEF isPublished
  <2>5. /\ t.pc = "outbox" /\ t.files = poll[p].files /\ t.isPublished = isPublished
        /\ t.seen = poll[p].seen
    BY <1>1 DEF Poll
  <2>. HIDE DEF t
  <2>6. poll'[p] = t
    BY <1>1, <2>1, ReadFacts
  <2>. QED
    BY <2>2, <2>3, <2>4, <2>5, <2>6 DEF SeenOK, past
<1>11. CASE ReadOutbox(p)
  <2>1. poll[p].pc = "outbox"
        /\ Conclude(p, IF Undelivered(poll[p].files, ReadView.outbox, poll[p].isPublished)
                       THEN "delivery-failed" ELSE "accepted")
    BY <1>2, <1>11 DEF ReadOutbox
  <2>2. past <= 3 /\ (past = 3 => Undelivered(poll[p].files, ReadView.outbox, poll[p].isPublished))
    BY <2>1 DEF SeenOK, past, Undelivered, GivenUp
  <2>3. CASE Undelivered(poll[p].files, ReadView.outbox, poll[p].isPublished)
    <3>1. Conclude(p, "delivery-failed")
      BY <2>1, <2>3
    <3>2. past <= Rank("delivery-failed")
      BY <2>2, Ranks
    <3>. QED
      BY <2>1, <3>1, <3>2, ConcludeNotOlder DEF past, Verdicts
  <2>4. CASE ~Undelivered(poll[p].files, ReadView.outbox, poll[p].isPublished)
    <3>1. Conclude(p, "accepted")
      BY <2>1, <2>4
    <3>2. past <= Rank("accepted")
      BY <1>3, <2>2, <2>4, Ranks
    <3>. QED
      BY <2>1, <3>1, <3>2, ConcludeNotOlder DEF past, Verdicts
  <2>. QED
    BY <2>3, <2>4
<1>. QED
  BY <1>5, <1>6, <1>7, <1>8, <1>9, <1>10, <1>11 DEF PollStep

\* The invariant of what the polls have seen.
SInv == PInv /\ \A p \in Polls : SeenOK(p)

\* For any number of callbacks, deliveries and polls, and however the member that
\* is read lags or catches up: a poll never reports less than that member showed
\* when it began.
THEOREM NeverOlder == VerdictSpec => []VerdictNotOlder
<1>1. VerdictInit => SInv
  <2>. SUFFICES ASSUME VerdictInit PROVE SInv
    OBVIOUS
  <2>1. UnusedPoll.pc = "unused"
    BY DEF UnusedPoll
  <2>2. \A p \in Polls : poll[p].pc = "unused"
    BY <2>1 DEF VerdictInit
  <2>. QED
    BY <2>2, PollsInit DEF SInv, SeenOK
<1>2. SInv /\ [VerdictNext]_allVars => SInv'
  <2>. SUFFICES ASSUME SInv, [VerdictNext]_allVars PROVE SInv'
    OBVIOUS
  <2>1. PInv /\ PInv'
    BY PollsStep DEF SInv
  <2>2. CASE poll' = poll
    BY <2>1, <2>2, OtherNotOlder DEF SInv
  <2>3. ASSUME NEW p \in Polls, PollStep(p) PROVE SInv'
    <3>1. SeenOK(p)'
      BY <2>1, <2>3, PollNotOlder DEF SInv
    <3>2. \A q \in Polls \ {p} : SeenOK(q)'
      BY <2>1, <2>3, OnePoll, OtherNotOlder DEF SInv, PInv
    <3>. QED
      BY <2>1, <3>1, <3>2 DEF SInv
  <2>. QED
    BY <2>2, <2>3 DEF VerdictNext, IntakeStep, FinishScan, Deliver, DeliverFile, GiveUpFile,
       ExpireFile, allVars
<1>3. SInv => VerdictNotOlder
  <2>. SUFFICES ASSUME SInv, NEW p \in Polls, poll[p].pc = "done"
                PROVE  Rank(poll[p].verdict) >= Rank(poll[p].seen)
    BY DEF VerdictNotOlder
  <2>1. Rank(poll[p].seen) \in 0 .. 5 /\ Rank(poll[p].verdict) \in 0 .. 5
    BY RankTyped DEF SInv, PInv, PollsTyped, Poll
  <2>. QED
    BY <2>1 DEF SInv, SeenOK
<1>. QED
  BY <1>1, <1>2, <1>3, PTL DEF VerdictSpec

\* A poll that reads the primary has seen what was true when it began.
SameMoment(p) == poll[p].seen = poll[p].truth

\* Only the first step of a poll sets either.
LEMMA MomentStays ==
  ASSUME PInv, ReadSecondary = FALSE, NEW p \in Polls, PollStep(p), SameMoment(p)
  PROVE  SameMoment(p)'
<1>1. CInv /\ PollsTyped
  BY DEF PInv
<1>2. CASE \E u \in Uploads : StartPoll(p, u)
  <2>1. PICK u \in Uploads : StartPoll(p, u)
    BY <1>2
  <2>2. poll'[p].truth = Truth(u) /\ poll'[p].seen = Seen(u)
    BY <1>1, <2>1, StartOutcome
  <2>3. Truth(u) = Seen(u)
    BY DEF Truth, Seen, ReadView
  <2>. QED
    BY <2>2, <2>3 DEF SameMoment
<1>3. CASE PollFails(p)
  BY <1>1, <1>3 DEF PollFails, PollsTyped, Poll, SameMoment
<1>4. ASSUME NEW verdict, Conclude(p, verdict) PROVE SameMoment(p)'
  BY <1>1, <1>4 DEF Conclude, PollsTyped, Poll, SameMoment
<1>5. CASE AskUploader(p)
  <2>1. \/ \E verdict : Conclude(p, verdict)
        \/ poll' = [poll EXCEPT ![p].pc = "session"]
    BY <1>1, <1>5, AskOutcome DEF AskUploader, PInv
  <2>. QED
    BY <1>1, <1>4, <2>1 DEF PollsTyped, Poll, SameMoment
<1>6. CASE ReadSession(p)
  BY <1>1, <1>4, <1>6 DEF ReadSession, PollsTyped, Poll, SameMoment
<1>7. CASE ReadStatus(p)
  <2>. DEFINE files == {s.file : s \in StatusRecords(ReadView, poll[p].upload)}
  <2>1. \/ \E verdict : Conclude(p, verdict)
        \/ Read(p, [poll[p] EXCEPT !.pc = "metadata", !.files = files])
    BY <1>1, <1>7, StatusOutcome
  <2>. HIDE DEF files
  <2>2. CASE Read(p, [poll[p] EXCEPT !.pc = "metadata", !.files = files])
    BY <1>1, <2>2 DEF Read, PollsTyped, Poll, SameMoment
  <2>. QED
    BY <1>4, <2>1, <2>2
<1>8. CASE ReadMetadata(p)
  <2>. DEFINE isPublished == {f \in poll[p].files : ReadView.published[f]}
  <2>1. Read(p, [poll[p] EXCEPT !.pc = "outbox", !.isPublished = isPublished])
    BY <1>1, <1>8, MetadataOutcome
  <2>. HIDE DEF isPublished
  <2>. QED
    BY <1>1, <2>1 DEF Read, PollsTyped, Poll, SameMoment
<1>9. CASE ReadOutbox(p)
  BY <1>4, <1>9 DEF ReadOutbox
<1>. QED
  BY <1>2, <1>3, <1>5, <1>6, <1>7, <1>8, <1>9 DEF PollStep

\* With reads of the primary, and for any number of callbacks, deliveries and
\* polls: a poll never reports less than was true when it began.
THEOREM NeverBehind ==
  ASSUME ReadSecondary = FALSE
  PROVE  VerdictSpec => []VerdictNotBehind
<1>. DEFINE Moments == PInv /\ \A p \in Polls : SameMoment(p)
<1>1. VerdictInit => Moments
  <2>1. UnusedPoll.seen = UnusedPoll.truth
    BY DEF UnusedPoll
  <2>. QED
    BY <2>1, PollsInit DEF VerdictInit, SameMoment
<1>2. Moments /\ [VerdictNext]_allVars => Moments'
  <2>. SUFFICES ASSUME Moments, [VerdictNext]_allVars PROVE Moments'
    OBVIOUS
  <2>1. PInv /\ PInv'
    BY PollsStep
  <2>2. CASE poll' = poll
    BY <2>1, <2>2 DEF SameMoment
  <2>3. ASSUME NEW p \in Polls, PollStep(p) PROVE Moments'
    <3>1. SameMoment(p)'
      BY <2>1, <2>3, MomentStays
    <3>2. \A q \in Polls \ {p} : SameMoment(q)'
      BY <2>1, <2>3, OnePoll DEF PInv, SameMoment
    <3>. QED
      BY <2>1, <3>1, <3>2
  <2>. QED
    BY <2>2, <2>3 DEF VerdictNext, IntakeStep, FinishScan, Deliver, DeliverFile, GiveUpFile,
       ExpireFile, allVars
<1>3. Moments /\ VerdictNotOlder => VerdictNotBehind
  BY DEF SameMoment, VerdictNotOlder, VerdictNotBehind
<1>. QED
  BY <1>1, <1>2, <1>3, NeverOlder, PTL DEF VerdictSpec

-----------------------------------------------------------------------------
(* The answers and the verdict                                             *)

\* What the poller and the polls leave alone.
LEMMA QuietSteps ==
  ASSUME (\E f \in Files : Deliver(f)) \/ UNCHANGED vars
  PROVE  request' = request /\ initiate' = initiate /\ failed' = failed /\ faults' = faults
  BY DEF Deliver, DeliverFile, GiveUpFile, ExpireFile, vars

\* Beside the poller and the polls too, duplicates do no harm when the primary is read.
THEOREM PollerIgnoresDuplicates ==
  ASSUME ReadSecondary = FALSE
  PROVE  VerdictSpec => []DuplicateIsIgnored
<1>1. VerdictInit => DuplicateIsIgnored
  BY DEF VerdictInit, Init, Unused, DuplicateIsIgnored
<1>2. IInv /\ DuplicateIsIgnored /\ [VerdictNext]_allVars => DuplicateIsIgnored'
  <2>. SUFFICES ASSUME IInv, DuplicateIsIgnored, [VerdictNext]_allVars
                PROVE  DuplicateIsIgnored'
    OBVIOUS
  <2>1. CASE Next
    BY <2>1, IgnoredStep
  <2>2. CASE (\E f \in Files : Deliver(f)) \/ UNCHANGED vars
    BY <2>2, QuietSteps DEF DuplicateIsIgnored, FilesIn
  <2>. QED
    BY <2>1, <2>2, VerdictSteps
<1>. QED
  BY <1>1, <1>2, VerdictInvariance, PTL DEF VerdictSpec

\* Callbacks are for uploads whose session is stored.
SessionsOK ==
  /\ \A u \in Uploads : initiate[u] = "open" => u \in db.sessions
  /\ \A r \in Requests :
       request[r].pc # "unused" => initiate[request[r].upload] = "open"

\* A callback that echoes the metadata is put under the upload's own id, and its
\* rejection is on record.
RecordedOK(r) ==
  /\ request[r].echoed /\ request[r].pc \notin {"unused", "resolving"} =>
       request[r].id = request[r].upload
  /\ request[r].response = "rejected" =>
       StatusOf(request[r].id, FilesIn(r), FALSE) \subseteq db.status

\* The invariant of the callbacks that are answered.
KnownInv == CInv /\ SessionsOK /\ (faults = 0 => \A r \in Requests : RecordedOK(r))

\* A session that is open stays open, and is stored before.
LEMMA SessionsStep ==
  ASSUME CInv, SessionsOK, [VerdictNext]_allVars
  PROVE  SessionsOK'
<1>1. /\ Le(db, db') /\ db \in Database
      /\ initiate \in [Uploads -> {"none", "forwarded", "refused", "open"}]
      /\ TypeOK /\ \A r \in Requests : RequestOK(r)
  BY StepGrows DEF CInv, CollectionsOK, Grows, IInv, TypeOK, CallbacksOK
<1>2. /\ \A u \in Uploads : initiate[u] = "open" => initiate'[u] = "open"
      /\ \A u \in Uploads : initiate'[u] = "open" => u \in db'.sessions
  <2>1. CASE initiate' = initiate
    BY <1>1, <2>1 DEF SessionsOK, Le
  <2>2. ASSUME NEW u \in Uploads, InitiateStep(u)
        PROVE  <1>2
    <3>1. CASE InsertSession(u)
      <4>1. /\ initiate'[u] = "open" /\ \A v \in Uploads \ {u} : initiate'[v] = initiate[v]
            /\ u \in db'.sessions
        BY <1>1, <3>1 DEF InsertSession, Database
      <4>. QED
        BY <1>1, <4>1 DEF SessionsOK, Le
    <3>2. CASE ForwardInitiate(u) \/ RefuseInitiate(u) \/ InsertSessionThrows(u)
      <4>1. /\ initiate[u] # "open" /\ initiate'[u] # "open"
            /\ \A v \in Uploads \ {u} : initiate'[v] = initiate[v]
        BY <1>1, <3>2 DEF ForwardInitiate, RefuseInitiate, InsertSessionThrows
      <4>. QED
        BY <1>1, <4>1 DEF SessionsOK, Le
    <3>. QED
      BY <2>2, <3>1, <3>2 DEF InitiateStep
  <2>3. ASSUME NEW r \in Requests, Handle(r) \/ HandleFault(r)
        PROVE  initiate' = initiate
    BY <2>3 DEF Handle, HandleFault, ResolveJourneyId, LookupThrows, RejectCallback,
       RejectionThrows, PersistMetadata, RefuseDuplicate, PersistThrows, AnswerDuplicate,
       DuplicateNotFound, DuplicateLookupThrows, AuditCreated, LoseRequest
  <2>. QED
    BY <2>1, <2>2, <2>3, VerdictSteps, QuietSteps DEF Next, ReceiveCallback, Replicate
<1>3. ASSUME NEW r \in Requests, request'[r].pc # "unused"
      PROVE  initiate'[request'[r].upload] = "open"
  <2>1. CASE request'[r] = request[r]
    <3>1. request[r].upload \in Uploads /\ initiate[request[r].upload] = "open"
      BY <1>1, <1>3, <2>1 DEF RequestOK, SessionsOK
    <3>. QED
      BY <1>2, <2>1, <3>1
  <2>2. ASSUME NEW q \in Requests, NEW u \in Uploads, NEW kind \in Kinds,
               NEW echoed \in BOOLEAN, ReceiveCallback(q, u, kind, echoed),
               request'[r] # request[r]
        PROVE  initiate'[request'[r].upload] = "open"
    BY <1>1, <2>2 DEF ReceiveCallback, TypeOK, Unused
  <2>3. ASSUME NEW q \in Requests, Handle(q) \/ HandleFault(q), request'[r] # request[r]
        PROVE  initiate'[request'[r].upload] = "open"
    <3>1. Moves(q)
      BY <1>1, <2>3, CallbackMoves
    <3>2. q = r /\ request'[r].upload = request[r].upload /\ request[r].pc # "unused"
      BY <2>3, <3>1 DEF Moves
    <3>3. request[r].upload \in Uploads /\ initiate[request[r].upload] = "open"
      BY <1>1, <3>2 DEF RequestOK, SessionsOK
    <3>. QED
      BY <1>2, <3>2, <3>3
  <2>4. ASSUME NEW u \in Uploads, InitiateStep(u) PROVE request' = request
    BY <2>4 DEF InitiateStep, ForwardInitiate, RefuseInitiate, InsertSession,
       InsertSessionThrows
  <2>. QED
    BY <2>1, <2>2, <2>3, <2>4, VerdictSteps, QuietSteps DEF Next, Replicate
<1>. QED
  BY <1>2, <1>3 DEF SessionsOK

\* A callback whose record stays loses none of its own.
LEMMA RecordedStays ==
  ASSUME Le(db, db'), NEW r \in Requests, RecordedOK(r), request'[r] = request[r]
  PROVE  RecordedOK(r)'
  BY DEF RecordedOK, FilesIn, Le

\* A fault aside, a callback that moves keeps to the upload's id, and records what
\* it rejects.
LEMMA RecordedMove ==
  ASSUME CInv, ReadSecondary = FALSE, SessionsOK, NEW r \in Requests, Handle(r),
         RecordedOK(r)
  PROVE  RecordedOK(r)'
<1>1. /\ TypeOK /\ request[r] \in Request /\ request \in [Requests -> Request]
      /\ RequestOK(r) /\ db \in Database
  BY DEF CInv, IInv, TypeOK, CallbacksOK
<1>2. /\ Moves(r) /\ request'[r].upload = request[r].upload
      /\ request'[r].echoed = request[r].echoed
      /\ request[r].pc \notin {"unused", "done"} /\ request[r].response = "none"
  BY <1>1, CallbackMoves DEF Moves, RequestOK
<1>3. FilesIn(r)' = FilesIn(r)
  BY <1>2 DEF FilesIn
<1>4. CASE ResolveJourneyId(r)
  <2>1. request[r].upload \in db.sessions
    BY <1>1, <1>2 DEF SessionsOK, RequestOK
  <2>2. request' = [request EXCEPT
          ![r].pc = AfterResolving(request[r].kind),
          ![r].id = IF request[r].echoed THEN request[r].upload ELSE r]
    BY <1>4, <2>1 DEF ResolveJourneyId, ReadView
  <2>. DEFINE id == IF request[r].echoed THEN request[r].upload ELSE r
  <2>3. id = IF request[r].echoed THEN request[r].upload ELSE r
    OBVIOUS
  <2>. HIDE DEF id
  <2>4. request' = [request EXCEPT ![r].pc = AfterResolving(request[r].kind), ![r].id = id]
    BY <2>2, <2>3
  <2>5. request'[r].id = id /\ request'[r].response = request[r].response
    BY <1>1, <2>4 DEF Request
  <2>. QED
    BY <1>2, <2>3, <2>5 DEF RecordedOK
<1>5. CASE RejectCallback(r)
  <2>1. request'[r].id = request[r].id
    BY <1>1, <1>5 DEF RejectCallback, Answer, Request
  <2>2. StatusOf(request[r].id, FilesIn(r), FALSE) \subseteq db'.status
    BY <1>1, <1>5 DEF RejectCallback, Database
  <2>. QED
    BY <1>2, <1>3, <1>5, <2>1, <2>2 DEF RejectCallback, RecordedOK
<1>6. ASSUME PersistMetadata(r) \/ RefuseDuplicate(r)
      PROVE  RecordedOK(r)'
  <2>1. PICK pc : request' = [request EXCEPT ![r].pc = pc]
    BY <1>6 DEF PersistMetadata, RefuseDuplicate
  <2>2. /\ request'[r].id = request[r].id /\ request'[r].response = request[r].response
        /\ request[r].pc = "persisting"
    BY <1>1, <1>6, <2>1 DEF PersistMetadata, RefuseDuplicate, Request
  <2>. QED
    BY <1>2, <2>2 DEF RecordedOK
<1>7. ASSUME AnswerDuplicate(r) \/ DuplicateNotFound(r) \/ AuditCreated(r)
      PROVE  RecordedOK(r)'
  <2>1. PICK response \in {"created", "duplicate", "error"} : Answer(r, response)
    BY <1>7 DEF AnswerDuplicate, DuplicateNotFound, AuditCreated
  <2>2. request'[r].id = request[r].id /\ request'[r].response # "rejected"
    BY <1>1, <2>1 DEF Answer, Request
  <2>3. request[r].pc \in {"duplicate", "auditing"}
    BY <1>7 DEF AnswerDuplicate, DuplicateNotFound, AuditCreated
  <2>. QED
    BY <1>2, <2>2, <2>3 DEF RecordedOK
<1>. QED
  BY <1>4, <1>5, <1>6, <1>7 DEF Handle

\* The invariant is kept.
LEMMA KnownStep ==
  ASSUME KnownInv, ReadSecondary = FALSE, [VerdictNext]_allVars
  PROVE  KnownInv'
<1>1. CInv /\ CInv' /\ SessionsOK /\ SessionsOK' /\ Le(db, db') /\ TypeOK
  BY CollectionsStep, SessionsStep, StepGrows
     DEF KnownInv, CInv, CollectionsOK, Grows, IInv
<1>2. ASSUME faults' = 0, NEW r \in Requests PROVE RecordedOK(r)'
  <2>1. faults = 0
    BY <1>1, <1>2, NoFault, VerdictSteps, QuietSteps
  <2>2. \A q \in Requests : RecordedOK(q)
    BY <2>1 DEF KnownInv
  <2>3. CASE request'[r] = request[r]
    BY <1>1, <2>2, <2>3, RecordedStays
  <2>4. ASSUME NEW q \in Requests, NEW u \in Uploads, NEW kind \in Kinds,
               NEW echoed \in BOOLEAN, ReceiveCallback(q, u, kind, echoed),
               request'[r] # request[r]
        PROVE  RecordedOK(r)'
    <3>1. request'[r].pc = "resolving" /\ request'[r].response = "none"
      BY <1>1, <2>4 DEF ReceiveCallback, TypeOK, Unused
    <3>. QED
      BY <3>1 DEF RecordedOK
  <2>5. ASSUME NEW q \in Requests, Handle(q), request'[r] # request[r]
        PROVE  RecordedOK(r)'
    <3>1. q = r
      BY <1>1, <2>5, CallbackMoves DEF Moves
    <3>. QED
      BY <1>1, <2>2, <2>5, <3>1, RecordedMove
  <2>6. ASSUME NEW u \in Uploads, InitiateStep(u) PROVE request' = request
    BY <2>6 DEF InitiateStep, ForwardInitiate, RefuseInitiate, InsertSession,
       InsertSessionThrows
  <2>. QED
    BY <1>1, <1>2, <2>3, <2>4, <2>5, <2>6, NoFault, VerdictSteps, QuietSteps
       DEF Next, Replicate
<1>. QED
  BY <1>1, <1>2 DEF KnownInv

\* With reads of the primary, and for any number of uploads, callbacks and polls:
\* while nothing fails, a callback that echoes the metadata and is answered 201
\* gives its upload a verdict.
THEOREM AnsweredAreKnown ==
  ASSUME ReadSecondary = FALSE
  PROVE  VerdictSpec => []AnsweredIsKnown
<1>1. VerdictInit => KnownInv
  <2>. SUFFICES ASSUME VerdictInit PROVE KnownInv
    OBVIOUS
  <2>1. /\ \A r \in Requests : request[r].pc = "unused" /\ request[r].response = "none"
        /\ \A u \in Uploads : initiate[u] = "none"
    BY DEF VerdictInit, Init, Unused
  <2>. QED
    BY <2>1, CollectionsInit DEF KnownInv, SessionsOK, RecordedOK
<1>2. KnownInv /\ [VerdictNext]_allVars => KnownInv'
  BY KnownStep
<1>3. KnownInv => AnsweredIsKnown
  <2>. SUFFICES ASSUME KnownInv, faults = 0, NEW r \in Requests, request[r].echoed,
                       request[r].response \in {"rejected", "created"}
                PROVE  VerdictIn(db, request[r].upload) # "awaiting-callback"
    BY DEF AnsweredIsKnown
  <2>1. /\ RequestOK(r) /\ StoredTogether /\ RecordedOK(r) /\ SessionsOK
        /\ db \in Database /\ PublishedOK(db)
    BY DEF KnownInv, CInv, IInv, CallbacksOK, CollectionsOK, TypeOK
  <2>2. request[r].pc = "done"
    BY <2>1 DEF RequestOK
  <2>3. PICK u \in Uploads : u = request[r].upload
    BY <2>1, <2>2 DEF RequestOK
  <2>4. u \in db.sessions /\ request[r].id = u
    BY <2>1, <2>2, <2>3 DEF SessionsOK, RecordedOK
  <2>5. PICK f \in FilesIn(r) : f \in FilesOf[u]
    BY <2>3, FilesAssumption DEF FilesIn
  <2>6. \E s \in db.status : s.id = u
    <3>1. CASE request[r].response = "rejected"
      <4>1. [id |-> u, file |-> f, validated |-> FALSE] \in db.status
        BY <2>1, <2>4, <2>5, <3>1 DEF RecordedOK, StatusOf
      <4>. QED
        BY <4>1
    <3>2. CASE request[r].response = "created"
      <4>1. db.metadata[f] = u /\ u \in CorrelationId
        BY <2>1, <2>4, <2>5, <3>2 DEF RequestOK, IsStorer, CorrelationId
      <4>2. [id |-> u, file |-> f, validated |-> TRUE] \in db.status
        BY <2>1, <2>5, <4>1 DEF StoredTogether
      <4>. QED
        BY <4>2
    <3>. QED
      BY <3>1, <3>2
  <2>7. Level(db, u) # 1
    BY <2>4, <2>6 DEF Level, StatusRecords
  <2>. QED
    BY <2>1, <2>3, <2>7, VerdictWords, Ranks
<1>. QED
  BY <1>1, <1>2, <1>3, PTL DEF VerdictSpec

-----------------------------------------------------------------------------
(* The reduced poller stands for the detailed one                          *)

\* The collections change in what is seen of entries when a callback stores its
\* files, or not at all.
EntriesStay == db'.outbox = db.outbox /\ db'.published = db.published

\* Of the steps of the intake only that of a transaction inserts entries.
LEMMA IntakeEntries ==
  ASSUME IInv, Next
  PROVE  EntriesStay \/ \E r \in Requests : StoresFiles(r)
<1>1. db \in Database /\ \A r \in Requests : RequestOK(r)
  BY DEF IInv, TypeOK, CallbacksOK
<1>2. ASSUME NEW u \in Uploads, InitiateStep(u) PROVE EntriesStay
  <2>1. db' = db \/ db' = [db EXCEPT !.sessions = @ \cup {u}]
    BY <1>2 DEF InitiateStep, ForwardInitiate, RefuseInitiate, InsertSession,
       InsertSessionThrows
  <2>. QED
    BY <1>1, <2>1 DEF Database, EntriesStay
<1>3. ASSUME NEW r \in Requests, Handle(r) \/ HandleFault(r)
      PROVE  EntriesStay \/ StoresFiles(r)
  <2>1. \/ db' = db
        \/ \E records : db' = [db EXCEPT !.status = @ \cup records]
        \/ request[r].pc = "persisting" /\ ~HasDuplicate(r) /\ db' = Stored(r)
    BY <1>3 DEF Handle, HandleFault, ResolveJourneyId, LookupThrows, RejectCallback,
       RejectionThrows, PersistMetadata, RefuseDuplicate, PersistThrows, AnswerDuplicate,
       DuplicateNotFound, DuplicateLookupThrows, AuditCreated, LoseRequest
  <2>2. ASSUME NEW records, db' = [db EXCEPT !.status = @ \cup records]
        PROVE  EntriesStay
    BY <1>1, <2>2 DEF Database, EntriesStay
  <2>3. ASSUME request[r].pc = "persisting", ~HasDuplicate(r), db' = Stored(r)
        PROVE  StoresFiles(r)
    BY <1>1, <2>3 DEF StoresFiles, RequestOK
  <2>. QED
    BY <2>1, <2>2, <2>3 DEF EntriesStay
<1>4. ASSUME NEW r \in Requests, NEW u \in Uploads, NEW kind \in Kinds,
             NEW echoed \in BOOLEAN, ReceiveCallback(r, u, kind, echoed)
      PROVE  EntriesStay
  BY <1>4 DEF ReceiveCallback, EntriesStay
<1>5. Replicate => EntriesStay
  BY DEF Replicate, EntriesStay
<1>. QED
  BY <1>2, <1>3, <1>4, <1>5 DEF Next

\* A step of the poller moves one entry on, as EntryLife says.
LEMMA DeliverMovesOn ==
  ASSUME IInv, NEW f \in Files, Deliver(f), NEW g \in Files
  PROVE  EntryView(g)' = EntryView(g) \/ Life!FileStep(EntryView(g), EntryView(g)')
<1>1. db \in Database
  BY DEF IInv, TypeOK
<1>2. CASE DeliverFile(f)
  <2>1. /\ db.outbox[f] = "PENDING" /\ db'.outbox[f] = "SENT" /\ db'.published[f] = TRUE
        /\ g # f => db'.outbox[g] = db.outbox[g] /\ db'.published[g] = db.published[g]
    BY <1>1, <1>2 DEF DeliverFile, Database
  <2>. QED
    BY <2>1 DEF EntryView, Life!FileStep, Life!Deliver
<1>3. CASE GiveUpFile(f)
  <2>1. /\ db.outbox[f] = "PENDING" /\ db'.outbox[f] = "PERMANENT_FAILURE"
        /\ db'.published = db.published
        /\ g # f => db'.outbox[g] = db.outbox[g]
    BY <1>1, <1>3 DEF GiveUpFile, Database
  <2>. QED
    BY <2>1 DEF EntryView, Life!FileStep, Life!GiveUp
<1>4. CASE ExpireFile(f)
  <2>1. /\ db.outbox[f] = "SENT" /\ db'.outbox[f] = "DELETED"
        /\ db'.published = db.published
        /\ g # f => db'.outbox[g] = db.outbox[g]
    BY <1>1, <1>4 DEF ExpireFile, Database
  <2>. QED
    BY <2>1 DEF EntryView, Life!FileStep, Life!Expire
<1>. QED
  BY <1>2, <1>3, <1>4 DEF Deliver

\* Callbacks, deliveries and polls together keep every entry to the course that the
\* entries of Outbox run.
THEOREM VerdictImplementsLife == VerdictSpec => KeepsEntryLife
<1>1. VerdictInit => Life!Init
  BY DEF VerdictInit, Init, EmptyDatabase, Life!Init, EntryView
<1>2. IInv /\ [VerdictNext]_allVars => [Life!Next]_([f \in Files |-> EntryView(f)])
  <2>. SUFFICES ASSUME IInv, [VerdictNext]_allVars, NEW g \in Files
                PROVE  EntryView(g)' = EntryView(g)
                         \/ Life!FileStep(EntryView(g), EntryView(g)')
    BY DEF Life!Next
  <2>1. CASE EntriesStay
    BY <2>1 DEF EntriesStay, EntryView
  <2>2. ASSUME NEW r \in Requests, StoresFiles(r)
        PROVE  EntryView(g)' = EntryView(g) \/ Life!FileStep(EntryView(g), EntryView(g)')
    <3>1. /\ db'.published = db.published
          /\ db'.outbox[g] = IF g \in FilesIn(r) THEN "PENDING" ELSE db.outbox[g]
      <4>1. TypeOK
        BY DEF IInv
      <4>2. /\ db'.published = db.published
            /\ db'.outbox = [f \in Files |-> IF f \in FilesIn(r) THEN "PENDING"
                                             ELSE db.outbox[f]]
        BY <2>2, <4>1, StoredType
      <4>. QED
        BY <4>2
    <3>2. g \in FilesIn(r) => db.outbox[g] = "ABSENT"
      BY <2>2 DEF StoresFiles, HasDuplicate, FilesIn, IInv, StoredTogether, IsStored
    <3>. QED
      BY <3>1, <3>2 DEF EntryView, Life!FileStep, Life!Insert
  <2>3. UNCHANGED vars => EntriesStay
    BY DEF vars, EntriesStay
  <2>. QED
    BY <2>1, <2>2, <2>3, VerdictSteps, IntakeEntries, DeliverMovesOn
<1>. QED
  BY <1>1, <1>2, VerdictInvariance, PTL DEF VerdictSpec, KeepsEntryLife, Life!Spec

\* Conversely the reduced poller leaves nothing out: whatever EntryLife lets become
\* of an entry once it is inserted, as one step that touches nothing else, the poller
\* does.
THEOREM PollerIsComplete ==
  ASSUME IInv, NEW f \in Files, NEW t,
         Life!FileStep(EntryView(f), t), ~Life!Insert(EntryView(f), t),
         db' = [db EXCEPT !.outbox[f] = t.status, !.published[f] = t.published],
         UNCHANGED <<replica, initiate, request, created, failed, faults, poll, scan>>
  PROVE  Deliver(f)
<1>1. db \in Database
  BY DEF IInv, TypeOK
<1>2. CASE Life!Deliver(EntryView(f), t)
  <2>1. db.outbox[f] = "PENDING" /\ t.status = "SENT" /\ t.published = TRUE
    BY <1>2 DEF Life!Deliver, EntryView
  <2>. QED
    BY <2>1 DEF Deliver, DeliverFile
<1>3. ASSUME t.published = db.published[f]
      PROVE  db' = [db EXCEPT !.outbox[f] = t.status]
  <2>1. /\ [db.published EXCEPT ![f] = t.published] = db.published
        /\ [db EXCEPT !.published = db.published] = db
    BY <1>1, <1>3 DEF Database
  <2>. QED
    BY <1>1, <1>3, <2>1 DEF Database
<1>4. CASE Life!GiveUp(EntryView(f), t)
  <2>1. /\ db.outbox[f] = "PENDING" /\ t.status = "PERMANENT_FAILURE"
        /\ t.published = db.published[f]
    BY <1>4 DEF Life!GiveUp, EntryView
  <2>. QED
    BY <1>3, <2>1 DEF Deliver, GiveUpFile
<1>5. CASE Life!Expire(EntryView(f), t)
  <2>1. /\ db.outbox[f] = "SENT" /\ t.status = "DELETED"
        /\ t.published = db.published[f]
    BY <1>5 DEF Life!Expire, EntryView
  <2>. QED
    BY <1>3, <2>1 DEF Deliver, ExpireFile
<1>. QED
  BY <1>2, <1>4, <1>5 DEF Life!FileStep

=============================================================================
