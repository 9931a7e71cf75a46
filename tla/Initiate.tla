------------------------------- MODULE Initiate -------------------------------
(***************************************************************************)
(* POST /uploader/initiate: one request from its validation to its answer, *)
(* with the attempts HttpRetry makes of the call to CDP Uploader           *)
(* (src/api/v1/uploader/initiate, src/repos/sessions.js).  An attempt that *)
(* is given up as unreachable may have opened an upload, or may yet open   *)
(* one while the next attempt is made: all carry one journey id.           *)
(*                                                                         *)
(* An upload is the number of the attempt that opened it.                  *)
(***************************************************************************)
EXTENDS HttpRetry, FiniteSets

VARIABLES
  handler,   \* where the handler is
  code,      \* the status of the answer
  opened,    \* uploads CDP Uploader has opened (external)
  body,      \* what the last good response says
  sessions   \* uploads that have a session record under the journey id

initiateVars == <<vars, handler, code, opened, body, sessions>>

NoUpload == 0

\* isGuid: it is a UUID, as the schema of our own answer wants it.  A body that is
\* not JSON or lacks an uploadId is NoBody.
Body == [uploadId : Nat, isGuid : BOOLEAN]

NoBody == [uploadId |-> NoUpload, isGuid |-> FALSE]

InitiateInit ==
  /\ Init
  /\ handler = "validating"
  /\ code = 0
  /\ opened = {}
  /\ body = NoBody
  /\ sessions = {}

-----------------------------------------------------------------------------
(* CDP Uploader (external)                                                 *)

\* A response below 400 is given by an upload that was opened, or is not what it
\* should be; a 4xx opens none; anything else may have.
OpensWith(outcome) ==
  /\ opened' \in {opened, opened \cup {attempt + 1}}
  /\ outcome = "refused" => opened' = opened
  /\ body' \in IF outcome = "ok" /\ attempt + 1 \in opened'
               THEN {NoBody} \cup [uploadId : {attempt + 1}, isGuid : BOOLEAN]
               ELSE {NoBody}

\* It gets to an attempt that has been given up.
OpenLate ==
  /\ \E i \in DOMAIN outcomes :
       /\ outcomes[i] \in Thrown
       /\ i \notin opened
       /\ opened' = opened \cup {i}
  /\ UNCHANGED <<vars, handler, code, body, sessions>>

-----------------------------------------------------------------------------
(* The handler                                                             *)

AnswerWith(status) == handler' = "answered" /\ code' = status

\* failAction throws the validation error.
RefusePayload ==
  /\ handler = "validating"
  /\ AnswerWith(400)
  /\ UNCHANGED <<vars, opened, body, sessions>>

\* The journey id is minted and the call begins.
Forward ==
  /\ handler = "validating"
  /\ BeforeHook
  /\ handler' = "calling"
  /\ UNCHANGED <<code, opened, body, sessions>>

CallAttempt ==
  /\ handler = "calling"
  /\ \E outcome \in Outcomes : Attempt(outcome) /\ OpensWith(outcome)
  /\ UNCHANGED <<handler, code, sessions>>

CallStep ==
  /\ handler = "calling"
  /\ Return \/ ShouldRetryHook \/ Backoff \/ OnCompleteHook
  /\ UNCHANGED <<handler, code, opened, body, sessions>>

\* Mutant of CallFails: only a call that throws is answered.
CallFailsIfThrown ==
  /\ handler = "calling" /\ pc = "done"
  /\ outcomes[attempt] \in Thrown
  /\ AnswerWith(502)
  /\ UNCHANGED <<vars, opened, body, sessions>>

\* Boom.gatewayTimeout for a TimeoutError, Boom.badGateway for every other error,
\* for a response that is not ok and for one that names no upload.
CallFails ==
  /\ handler = "calling" /\ pc = "done"
  /\ body.uploadId = NoUpload
  /\ \/ outcomes[attempt] = "unreachable" /\ AnswerWith(504)
     \/ AnswerWith(502)
  /\ UNCHANGED <<vars, opened, body, sessions>>

UploadIsOpen ==
  /\ handler = "calling" /\ pc = "done"
  /\ body.uploadId # NoUpload
  /\ handler' = "storing"
  /\ UNCHANGED <<vars, code, opened, body, sessions>>

\* Mutant of InsertSession: its failure is logged and the upload handed out.
InsertIsBestEffort ==
  /\ handler = "storing"
  /\ sessions' \in {sessions, sessions \cup {body.uploadId}}
  /\ AnswerWith(IF body.isGuid THEN 200 ELSE 500)
  /\ UNCHANGED <<vars, opened, body>>

\* insertSession, then the answer, which is checked against its own schema.
InsertSession ==
  /\ handler = "storing"
  /\ sessions' = sessions \cup {body.uploadId}
  /\ AnswerWith(IF body.isGuid THEN 200 ELSE 500)
  /\ UNCHANGED <<vars, opened, body>>

\* It throws, its record stored or not.
InsertSessionThrows ==
  /\ handler = "storing"
  /\ sessions' \in {sessions, sessions \cup {body.uploadId}}
  /\ AnswerWith(503)
  /\ UNCHANGED <<vars, opened, body>>

HandlerStep == \/ RefusePayload
               \/ Forward
               \/ CallAttempt
               \/ CallStep
               \/ CallFails
               \/ UploadIsOpen
               \/ InsertSession
               \/ InsertSessionThrows

InitiateNext == HandlerStep \/ OpenLate

InitiateSpec == InitiateInit /\ [][InitiateNext]_initiateVars

\* Every attempt ends, by cdpUploaderTimeoutMs at the latest, and so does the
\* insert.
FairInitiateSpec == InitiateSpec /\ WF_initiateVars(HandlerStep)

-----------------------------------------------------------------------------
(* Properties                                                              *)

\* The handler's variables keep values of their types.
InitiateTypeOK ==
  /\ handler \in {"validating", "calling", "storing", "answered"}
  /\ code \in {0, 200, 400, 500, 502, 503, 504}
  /\ opened \in SUBSET Nat
  /\ body \in Body
  /\ sessions \in SUBSET Nat

\* The upload a client is sent to is open, is the one of the attempt whose response
\* was used, and is the only one to have a session, so that its callback and its
\* status can be found, however many uploads lost attempts have opened.  A request
\* answered 400, 502 or 504 leaves no session behind for a journey nobody is on.
AnswerIsBacked ==
  /\ code = 200 => /\ sessions = {body.uploadId}
                   /\ body.uploadId = Len(outcomes)
                   /\ outcomes[body.uploadId] = "ok"
  /\ code \in {400, 502, 504} => sessions = {}
  /\ sessions \subseteq opened

\* Every request is answered, whatever CDP Uploader does: the attempts come to an
\* end.
InitiateIsAnswered == <>(handler = "answered")

=============================================================================
