--------------------------- MODULE CallbackPayload ---------------------------
(***************************************************************************)
(* What the form of one callback becomes: the Joi schema, the contract and *)
(* consistency checks (api/v1/callback), the re-keying of grouped fields,  *)
(* and the status, metadata and outbox documents made of its files.  The   *)
(* steps walk the form in ways of their own and have to agree on which     *)
(* files there are.                                                        *)
(*                                                                         *)
(* Intake.tla has what concurrent and repeated callbacks do to each other. *)
(***************************************************************************)
EXTENDS Integers, SequencesExt

CONSTANTS
  FileIds,
  Words,      \* what names are made of
  Unknown,    \* the fileId 'unknown' of a record that names no file
  Payloads    \* the payloads that may be received

VARIABLES
  payload,    \* the callback's payload
  stage,      \* the next step of its handling
  response,   \* the answer
  status,     \* fileId and validated of the status records
  metadata,   \* fileIds of the metadata documents
  outbox,     \* fileIds of the outbox entries
  audited     \* fileIds of the audit events, per action

vars == <<payload, stage, response, status, metadata, outbox, audited>>

-----------------------------------------------------------------------------
(* The payload                                                             *)

\* A file upload object, as far as the checks look at it: located has s3Key
\* and s3Bucket, sized a positive contentLength, message an errorMessage, detail an
\* errorCode or errorParams.
File == [id : FileIds, status : {"complete", "rejected", "pending"},
         located : BOOLEAN, checksum : BOOLEAN, sized : BOOLEAN,
         hasError : {"absent", "true", "false"}, message : BOOLEAN, detail : BOOLEAN]

\* The value of a text field.
Text == [id |-> Unknown, status |-> "text", located |-> FALSE, checksum |-> FALSE,
         sized |-> FALSE, hasError |-> "absent", message |-> FALSE, detail |-> FALSE]

\* A name is a sequence: <<"document", 1>> is 'document-1'.  A field that is
\* not grouped has one item.  A form is a sequence of fields, in the order of
\* Object.entries.
IsField(field) ==
  /\ field.name \in Seq(Words \cup Nat)
  /\ field.grouped \in BOOLEAN
  /\ field.items \in Seq(File \cup {Text})
  /\ field.grouped \/ Len(field.items) = 1

\* sound: uploadStatus, metadata and numberOfRejectedFiles pass the schema.
IsPayload(p) ==
  /\ p.ready \in BOOLEAN /\ p.sound \in BOOLEAN
  /\ Len(p.form) \in Nat /\ DOMAIN p.form = 1 .. Len(p.form)
  /\ \A i \in DOMAIN p.form : IsField(p.form[i])
  /\ \A i, j \in DOMAIN p.form : p.form[i].name = p.form[j].name => i = j

ASSUME PayloadsAssumption == Unknown \notin FileIds /\ \A p \in Payloads : IsPayload(p)

Init ==
  /\ payload \in Payloads
  /\ stage = "schema"
  /\ response = "none"
  /\ status = {}
  /\ metadata = {}
  /\ outbox = {}
  /\ audited = [created |-> {}, failed |-> {}]

-----------------------------------------------------------------------------
(* The walks over the form                                                 *)

FlattenFormValues(form) == UNION {ToSet(form[i].items) : i \in DOMAIN form}

FilesIn(form) == {item \in FlattenFormValues(form) : item.status # "text"}

\* Mutant of ExtractFileIds: no record stands for a form without files.
ExtractKnownIds(form) == {file.id : file \in FilesIn(form)}

ExtractFileIds(form) ==
  IF FilesIn(form) = {} THEN {Unknown} ELSE {file.id : file \in FilesIn(form)}

\* Mutant of IndexedName: grouped files keep the name of their group.
GroupName(name, k) == name

IndexedName(name, k) == Append(name, k)

\* The assignments normaliseFormFields makes to its result: one for each item of
\* each field.
Assignments(form) ==
  UNION {{<<i, k>> : k \in DOMAIN form[i].items} : i \in DOMAIN form}

\* The property that is assigned to.
NameOf(form, a) == LET field == form[a[1]]
                   IN  IF field.grouped THEN IndexedName(field.name, a[2]) ELSE field.name

ItemOf(form, a) == form[a[1]].items[a[2]]

Later(b, a) == b[1] > a[1] \/ (b[1] = a[1] /\ b[2] > a[2])

\* The assignments whose value stays in the result of normaliseFormFields.
NormaliseFormFields(form) ==
  {a \in Assignments(form) :
     \A b \in Assignments(form) : Later(b, a) => NameOf(form, b) # NameOf(form, a)}

\* formatInboundMetadata: the files in it, each with its name.
Documents(form) ==
  {[name |-> NameOf(form, a), item |-> ItemOf(form, a)] :
     a \in {a \in NormaliseFormFields(form) : ItemOf(form, a).status # "text"}}

-----------------------------------------------------------------------------
(* The checks                                                              *)

\* Mutant of SchemaAccepts: a complete file may have an error.
SchemaIgnoresErrors(file) ==
  file.status = "complete" => file.located /\ file.checksum /\ file.sized

\* applyFileStatusConditionals
SchemaAccepts(file) ==
  /\ file.status = "complete" =>
       /\ file.located /\ file.checksum /\ file.sized
       /\ file.hasError = "absent" /\ ~file.message /\ ~file.detail
  /\ file.status = "rejected" =>
       file.hasError = "true" /\ file.message /\ ~file.located

\* A form without a file, or with text in a group, is refused as well.
CallbackPayloadSchema ==
  /\ payload.sound
  /\ FilesIn(payload.form) # {}
  /\ \A i \in DOMAIN payload.form :
       payload.form[i].grouped => Text \notin ToSet(payload.form[i].items)
  /\ \A file \in FilesIn(payload.form) : SchemaAccepts(file)

\* Mutant of Contract: only rejected files are looked for.
NothingRejected ==
  payload.ready /\ \A file \in FilesIn(payload.form) : file.status # "rejected"

\* Stages 1 and 2 of validateCallbackPayload.
Contract ==
  payload.ready /\ \A file \in FilesIn(payload.form) : file.status = "complete"

\* validateFileUploadConsistency: of a complete file it does not look for an errorCode
\* or errorParams; of a rejected one it forbids the checksum, which the schema allows.
Consistent(file) ==
  /\ file.status = "complete" =>
       /\ file.located /\ file.checksum /\ file.sized
       /\ file.hasError = "absent" /\ ~file.message
  /\ file.status = "rejected" =>
       file.hasError = "true" /\ file.message /\ ~file.located /\ ~file.checksum

\* Stage 3.
ValidateFormFiles == \A file \in FilesIn(payload.form) : Consistent(file)

-----------------------------------------------------------------------------
(* The handler                                                             *)

\* A record per file, of either outcome.
Records(ids, validated) == {[file |-> f, validated |-> validated] : f \in ids}

\* A payload that fails a check is answered 201, its failure recorded.
Check(passes, at, next) ==
  /\ stage = at
  /\ stage' = IF passes THEN next ELSE "done"
  /\ response' = IF passes THEN response ELSE "rejected"
  /\ status' = IF passes THEN status
                ELSE Records(ExtractFileIds(payload.form), FALSE)
  /\ UNCHANGED <<payload, metadata, outbox>>

\* Only failAction audits the files.
CheckSchema ==
  /\ Check(CallbackPayloadSchema, "schema", "contract")
  /\ audited' = IF CallbackPayloadSchema THEN audited
                 ELSE [audited EXCEPT !.failed = ExtractFileIds(payload.form)]

CheckContract == Check(Contract, "contract", "consistency") /\ UNCHANGED audited

CheckConsistency == Check(ValidateFormFiles, "consistency", "persist") /\ UNCHANGED audited

\* The inserts of an empty list throw, and the unique index refuses a fileId
\* the form has twice, of which none is found afterwards.
Insertable(documents) ==
  /\ documents # {}
  /\ \A d, e \in documents : d.item.id = e.item.id => d = e

PersistMetadataWithOutbox ==
  /\ stage = "persist"
  /\ LET documents == Documents(payload.form)
         ids == {d.item.id : d \in documents}
     IN  /\ Insertable(documents)
         /\ status' = Records(ids, TRUE)
         /\ metadata' = ids
         /\ outbox' = {d.item.id : d \in {d \in documents : d.item.status = "complete"}}
  /\ audited' = [audited EXCEPT !.created = ExtractFileIds(payload.form)]
  /\ response' = "created"
  /\ stage' = "done"
  /\ UNCHANGED payload

PersistThrows ==
  /\ stage = "persist"
  /\ ~Insertable(Documents(payload.form))
  /\ audited' = [audited EXCEPT !.failed = ExtractFileIds(payload.form)]
  /\ response' = "error"
  /\ stage' = "done"
  /\ UNCHANGED <<payload, status, metadata, outbox>>

Next ==
  \/ CheckSchema
  \/ CheckContract
  \/ CheckConsistency
  \/ PersistMetadataWithOutbox
  \/ PersistThrows

Spec == Init /\ [][Next]_vars

-----------------------------------------------------------------------------
(* Properties                                                              *)

\* The name of a grouped file is also that of another field.
Collides(form) ==
  \E i, j \in DOMAIN form :
    form[i].grouped /\ \E k \in DOMAIN form[i].items :
                         Append(form[i].name, k) = form[j].name

\* However the form groups its files, and as long as no two names meet, the
\* files the client sent, those stored, those to be delivered, those with a
\* status record and those audited as created are the same.
NoFileIsLost ==
  response = "created" /\ ~Collides(payload.form) =>
    /\ metadata = {file.id : file \in FilesIn(payload.form)}
    /\ {s.file : s \in status} = metadata
    /\ audited.created = metadata

\* No file is stored without being sent on: the filter of createOutboxEntries
\* never drops one, although files that are not complete pass the schema.
StoredIsDelivered == metadata = outbox

\* A rejection leaves a record that the status route can find, for each file of
\* the form and even if it has none, and stores nothing else.
RejectionIsRecorded ==
  response = "rejected" =>
    /\ status # {} /\ \A s \in status : ~s.validated
    /\ {file.id : file \in FilesIn(payload.form)} \subseteq {s.file : s \in status}
    /\ metadata = {} /\ outbox = {}

\* The schema and the consistency check are written separately and differ: each has a
\* rule that the other lacks.  In the order they run in it does not show: the last check
\* refuses nothing that the schema and the contract let pass, and a form that is about
\* to be stored satisfies the rules of both, whichever of them has a rule.
ChecksCompose ==
  /\ stage = "consistency" => ValidateFormFiles
  /\ stage = "persist" =>
       \A file \in FilesIn(payload.form) : SchemaAccepts(file) /\ Consistent(file)

\* README.md: audit events "document created" are sent one per persisted file.
CreatedMeansPersisted == audited.created \subseteq metadata

=============================================================================
