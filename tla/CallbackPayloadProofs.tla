------------------------ MODULE CallbackPayloadProofs ------------------------
(***************************************************************************)
(* Proofs about CallbackPayload, for forms with any number of fields,      *)
(* groups of any size and any names: unless two names meet, what is stored *)
(* is what was sent.                                                       *)
(***************************************************************************)
EXTENDS CallbackPayload, SequenceTheorems, TLAPS

-----------------------------------------------------------------------------
(* The walks over a form                                                   *)

\* An assignment is the place of an item.
LEMMA AssignmentIs ==
  ASSUME NEW form, NEW a
  PROVE  a \in Assignments(form) <=>
           \E i \in DOMAIN form : \E k \in DOMAIN form[i].items : a = <<i, k>>
  BY DEF Assignments

\* A field's items are where the walks look for them.
LEMMA FileIs ==
  ASSUME NEW form, NEW item
  PROVE  item \in FilesIn(form) <=>
           \E a \in Assignments(form) : item = ItemOf(form, a) /\ item.status # "text"
<1>1. item \in FilesIn(form) <=>
        /\ \E i \in DOMAIN form : \E k \in DOMAIN form[i].items : item = form[i].items[k]
        /\ item.status # "text"
  BY DEF FilesIn, FlattenFormValues, ToSet
<1>2. \A i, k : ItemOf(form, <<i, k>>) = form[i].items[k]
  BY DEF ItemOf
<1>3. ASSUME NEW i \in DOMAIN form, NEW k \in DOMAIN form[i].items
      PROVE  <<i, k>> \in Assignments(form) /\ ItemOf(form, <<i, k>>) = form[i].items[k]
  BY <1>2, AssignmentIs
<1>4. ASSUME NEW a \in Assignments(form)
      PROVE  \E i \in DOMAIN form : \E k \in DOMAIN form[i].items :
               ItemOf(form, a) = form[i].items[k]
  <2>1. PICK i \in DOMAIN form : \E k \in DOMAIN form[i].items : a = <<i, k>>
    BY AssignmentIs
  <2>. QED
    BY <1>2, <2>1
<1>5. item \in FilesIn(form) =>
        \E a \in Assignments(form) : item = ItemOf(form, a) /\ item.status # "text"
  <2>. SUFFICES ASSUME item \in FilesIn(form)
                PROVE  \E a \in Assignments(form) :
                         item = ItemOf(form, a) /\ item.status # "text"
    OBVIOUS
  <2>1. PICK i \in DOMAIN form : \E k \in DOMAIN form[i].items : item = form[i].items[k]
    BY <1>1
  <2>2. PICK k \in DOMAIN form[i].items : item = form[i].items[k]
    BY <2>1
  <2>3. <<i, k>> \in Assignments(form) /\ item = ItemOf(form, <<i, k>>)
    BY <1>3, <2>2
  <2>. QED
    BY <1>1, <2>3
<1>6. (\E a \in Assignments(form) : item = ItemOf(form, a) /\ item.status # "text")
        => item \in FilesIn(form)
  BY <1>1, <1>4
<1>. QED
  BY <1>5, <1>6

\* A form's fields and items are numbered, its names are sequences.
LEMMA FormFacts ==
  ASSUME NEW p, IsPayload(p)
  PROVE  /\ DOMAIN p.form \subseteq Nat
         /\ \A i \in DOMAIN p.form : /\ p.form[i].name \in Seq(Words \cup Nat)
                                     /\ DOMAIN p.form[i].items \subseteq Nat
                                     /\ p.form[i].grouped \in BOOLEAN
                                     /\ ~p.form[i].grouped => DOMAIN p.form[i].items = {1}
<1>1. DOMAIN p.form = 1 .. Len(p.form) /\ Len(p.form) \in Nat
  BY DEF IsPayload
<1>2. ASSUME NEW i \in DOMAIN p.form
      PROVE  /\ p.form[i].name \in Seq(Words \cup Nat)
             /\ DOMAIN p.form[i].items \subseteq Nat
             /\ p.form[i].grouped \in BOOLEAN
             /\ ~p.form[i].grouped => DOMAIN p.form[i].items = {1}
  <2>1. IsField(p.form[i])
    BY DEF IsPayload
  <2>. DEFINE items == p.form[i].items
  <2>2. items \in Seq(File \cup {Text})
    BY <2>1 DEF IsField
  <2>3. DOMAIN items = 1 .. Len(items) /\ Len(items) \in Nat
    BY <2>2
  <2>4. ~p.form[i].grouped => Len(items) = 1
    BY <2>1 DEF IsField
  <2>5. DOMAIN items \subseteq Nat
    BY <2>3
  <2>6. ~p.form[i].grouped => DOMAIN items = {1}
    <3>1. 1 .. 1 = {1}
      OBVIOUS
    <3>. QED
      BY <2>3, <2>4, <3>1
  <2>. HIDE DEF items
  <2>7. p.form[i].name \in Seq(Words \cup Nat) /\ p.form[i].grouped \in BOOLEAN
    BY <2>1 DEF IsField
  <2>. QED
    BY <2>5, <2>6, <2>7 DEF items
<1>. QED
  BY <1>1, <1>2

\* An indexed name tells its group and its index.
LEMMA NamesInjective ==
  ASSUME NEW m \in Seq(Words \cup Nat), NEW n \in Seq(Words \cup Nat),
         NEW k \in Words \cup Nat, NEW l \in Words \cup Nat,
         Append(m, k) = Append(n, l)
  PROVE  m = n /\ k = l
<1>. DEFINE S == Words \cup Nat
<1>1. k \in S /\ l \in S /\ m \in Seq(S) /\ n \in Seq(S)
  OBVIOUS
<1>. HIDE DEF S
<1>. QED
  BY <1>1, AppendInjective

\* While no two names meet, two assignments with one name are the same one.
LEMMA NamesTellApart ==
  ASSUME NEW p, IsPayload(p), ~Collides(p.form),
         NEW i \in DOMAIN p.form, NEW k \in DOMAIN p.form[i].items,
         NEW j \in DOMAIN p.form, NEW l \in DOMAIN p.form[j].items,
         NameOf(p.form, <<i, k>>) = NameOf(p.form, <<j, l>>)
  PROVE  i = j /\ k = l
<1>. DEFINE fi == p.form[i]
            fj == p.form[j]
<1>1. /\ fi.name \in Seq(Words \cup Nat) /\ fj.name \in Seq(Words \cup Nat)
      /\ k \in Words \cup Nat /\ l \in Words \cup Nat
      /\ fi.grouped \in BOOLEAN /\ fj.grouped \in BOOLEAN
      /\ ~fi.grouped => k = 1
      /\ ~fj.grouped => l = 1
  BY FormFacts
<1>2. fi.name = fj.name => i = j
  BY DEF IsPayload
<1>3. /\ NameOf(p.form, <<i, k>>) = IF fi.grouped THEN Append(fi.name, k) ELSE fi.name
      /\ NameOf(p.form, <<j, l>>) = IF fj.grouped THEN Append(fj.name, l) ELSE fj.name
  BY DEF NameOf, IndexedName
<1>4. /\ fi.grouped => Append(fi.name, k) # fj.name
      /\ fj.grouped => Append(fj.name, l) # fi.name
  BY DEF Collides
<1>. HIDE DEF fi, fj
<1>5. CASE fi.grouped /\ fj.grouped
  <2>1. Append(fi.name, k) = Append(fj.name, l)
    BY <1>3, <1>5
  <2>2. fi.name = fj.name /\ k = l
    BY <1>1, <2>1, NamesInjective
  <2>. QED
    BY <1>2, <2>2
<1>6. CASE ~fi.grouped /\ ~fj.grouped
  BY <1>1, <1>2, <1>3, <1>6
<1>7. CASE fi.grouped /\ ~fj.grouped
  BY <1>3, <1>4, <1>7
<1>8. CASE ~fi.grouped /\ fj.grouped
  BY <1>3, <1>4, <1>8
<1>. QED
  BY <1>1, <1>5, <1>6, <1>7, <1>8

\* So nothing is replaced.
LEMMA NothingReplaced ==
  ASSUME NEW p, IsPayload(p), ~Collides(p.form)
  PROVE  NormaliseFormFields(p.form) = Assignments(p.form)
<1>. SUFFICES ASSUME NEW a \in Assignments(p.form), NEW b \in Assignments(p.form),
                     Later(b, a), NameOf(p.form, b) = NameOf(p.form, a)
              PROVE  FALSE
  BY DEF NormaliseFormFields
<1>1. PICK i \in DOMAIN p.form : \E k \in DOMAIN p.form[i].items : a = <<i, k>>
  BY AssignmentIs
<1>2. PICK k \in DOMAIN p.form[i].items : a = <<i, k>>
  BY <1>1
<1>3. PICK j \in DOMAIN p.form : \E l \in DOMAIN p.form[j].items : b = <<j, l>>
  BY AssignmentIs
<1>4. PICK l \in DOMAIN p.form[j].items : b = <<j, l>>
  BY <1>3
<1>5. i = j /\ k = l
  BY <1>2, <1>4, NamesTellApart
<1>6. i \in Nat /\ k \in Nat
  BY FormFacts
<1>. QED
  BY <1>2, <1>4, <1>5, <1>6 DEF Later

\* Every document is that of a file of the form.
LEMMA DocumentsAreFiles ==
  ASSUME NEW form, NEW d \in Documents(form)
  PROVE  d.item \in FilesIn(form)
<1>1. PICK a \in NormaliseFormFields(form) :
        /\ ItemOf(form, a).status # "text"
        /\ d = [name |-> NameOf(form, a), item |-> ItemOf(form, a)]
  BY DEF Documents
<1>2. a \in Assignments(form)
  BY DEF NormaliseFormFields
<1>. QED
  BY <1>1, <1>2, FileIs

\* While no two names meet, every file has a document.
LEMMA FilesHaveDocuments ==
  ASSUME NEW p, IsPayload(p), ~Collides(p.form)
  PROVE  {d.item.id : d \in Documents(p.form)} = {file.id : file \in FilesIn(p.form)}
<1>1. ASSUME NEW file \in FilesIn(p.form)
      PROVE  \E d \in Documents(p.form) : d.item = file
  <2>1. PICK a \in Assignments(p.form) :
          file = ItemOf(p.form, a) /\ file.status # "text"
    BY FileIs
  <2>2. a \in NormaliseFormFields(p.form)
    BY NothingReplaced
  <2>3. [name |-> NameOf(p.form, a), item |-> ItemOf(p.form, a)] \in Documents(p.form)
    BY <2>1, <2>2 DEF Documents
  <2>. QED
    BY <2>1, <2>3
<1>2. ASSUME NEW d \in Documents(p.form)
      PROVE  d.item \in FilesIn(p.form)
  BY DocumentsAreFiles
<1>. QED
  BY <1>1, <1>2

-----------------------------------------------------------------------------
(* The handler                                                             *)

\* What has been passed holds, and nothing is written before the last step.
PInv ==
  /\ payload \in Payloads
  /\ stage \in {"schema", "contract", "consistency", "persist", "done"}
  /\ stage # "done" => /\ response = "none" /\ status = {} /\ metadata = {} /\ outbox = {}
                       /\ audited = [created |-> {}, failed |-> {}]
  /\ stage \in {"contract", "consistency", "persist"} => CallbackPayloadSchema
  /\ stage \in {"consistency", "persist"} => Contract
  /\ NoFileIsLost /\ StoredIsDelivered /\ RejectionIsRecorded

\* There is a record for each of the ids and for nothing else.
LEMMA RecordsOf ==
  ASSUME NEW ids, NEW validated
  PROVE  /\ {s.file : s \in Records(ids, validated)} = ids
         /\ \A s \in Records(ids, validated) : s.validated = validated
<1>1. ASSUME NEW s \in Records(ids, validated)
      PROVE  s.file \in ids /\ s.validated = validated
  BY DEF Records
<1>2. ASSUME NEW f \in ids
      PROVE  \E s \in Records(ids, validated) : s.file = f
  <2>1. [file |-> f, validated |-> validated] \in Records(ids, validated)
    BY DEF Records
  <2>. QED
    BY <2>1
<1>. QED
  BY <1>1, <1>2

\* The records of a rejection.
LEMMA RejectionRecords ==
  ASSUME NEW form
  PROVE  LET records == Records(ExtractFileIds(form), FALSE)
         IN  /\ records # {} /\ \A s \in records : ~s.validated
             /\ {file.id : file \in FilesIn(form)} \subseteq {s.file : s \in records}
<1>1. ExtractFileIds(form) # {}
      /\ {file.id : file \in FilesIn(form)} \subseteq ExtractFileIds(form)
  BY DEF ExtractFileIds
<1>2. /\ {s.file : s \in Records(ExtractFileIds(form), FALSE)} = ExtractFileIds(form)
      /\ \A s \in Records(ExtractFileIds(form), FALSE) : ~s.validated
  BY RecordsOf
<1>. QED
  BY <1>1, <1>2

\* A check passes or ends in a rejection.
LEMMA CheckStep ==
  ASSUME PInv, NEW passes \in BOOLEAN, NEW at \in {"schema", "contract", "consistency"},
         NEW next, Check(passes, at, next)
  PROVE  /\ stage = at /\ payload' = payload /\ metadata' = {} /\ outbox' = {}
         /\ \/ passes /\ stage' = next /\ response' = "none" /\ status' = {}
            \/ ~passes /\ stage' = "done" /\ response' = "rejected" /\ RejectionIsRecorded'
<1>1. /\ stage = at /\ payload' = payload /\ metadata' = {} /\ outbox' = {}
      /\ response = "none" /\ status = {}
  BY DEF Check, PInv
<1>2. CASE passes
  BY <1>1, <1>2 DEF Check
<1>3. CASE ~passes
  <2>1. /\ stage' = "done" /\ response' = "rejected"
        /\ status' = Records(ExtractFileIds(payload.form), FALSE)
    BY <1>3 DEF Check
  <2>. DEFINE records == Records(ExtractFileIds(payload.form), FALSE)
  <2>2. /\ records # {} /\ \A s \in records : ~s.validated
        /\ {file.id : file \in FilesIn(payload.form)} \subseteq {s.file : s \in records}
    BY RejectionRecords
  <2>. HIDE DEF records
  <2>3. status' = records
    BY <2>1 DEF records
  <2>. QED
    BY <1>1, <1>3, <2>1, <2>2, <2>3 DEF RejectionIsRecorded
<1>. QED
  BY <1>2, <1>3

\* A step that only checks keeps the invariant.
LEMMA CheckKeeps ==
  ASSUME PInv, NEW passes \in BOOLEAN, NEW at \in {"schema", "contract", "consistency"},
         NEW next \in {"contract", "consistency", "persist"}, Check(passes, at, next),
         passes => /\ audited' = audited /\ CallbackPayloadSchema
                   /\ next # "contract" => Contract
  PROVE  PInv'
<1>1. payload' = payload /\ metadata' = {} /\ outbox' = {} /\ stage = at
  BY CheckStep
<1>2. /\ CallbackPayloadSchema <=> CallbackPayloadSchema'
      /\ Contract <=> Contract'
  BY <1>1 DEF CallbackPayloadSchema, FilesIn, FlattenFormValues, SchemaAccepts, Contract
<1>3. payload \in Payloads /\ audited = [created |-> {}, failed |-> {}]
  BY <1>1 DEF PInv
<1>4. CASE passes /\ stage' = next /\ response' = "none" /\ status' = {}
  BY <1>1, <1>2, <1>3, <1>4 DEF PInv, NoFileIsLost, StoredIsDelivered, RejectionIsRecorded
<1>5. CASE stage' = "done" /\ response' = "rejected" /\ RejectionIsRecorded'
  BY <1>1, <1>3, <1>5 DEF PInv, NoFileIsLost, StoredIsDelivered
<1>. QED
  BY <1>4, <1>5, CheckStep

\* What is stored is what was sent, and complete.
LEMMA PersistStep ==
  ASSUME PInv, PersistMetadataWithOutbox
  PROVE  PInv'
<1>. DEFINE form == payload.form
            documents == Documents(form)
            ids == {d.item.id : d \in documents}
            sent == {file.id : file \in FilesIn(form)}
            complete == {d \in documents : d.item.status = "complete"}
<1>1. /\ payload \in Payloads /\ IsPayload(payload) /\ payload' = payload
      /\ CallbackPayloadSchema /\ Contract
  BY PayloadsAssumption DEF PInv, PersistMetadataWithOutbox
<1>2. /\ status' = Records(ids, TRUE) /\ metadata' = ids
      /\ outbox' = {d.item.id : d \in complete}
      /\ audited' = [audited EXCEPT !.created = ExtractFileIds(form)]
      /\ response' = "created" /\ stage' = "done"
  BY DEF PersistMetadataWithOutbox
<1>3. complete = documents
  BY <1>1, DocumentsAreFiles DEF Contract
<1>4. StoredIsDelivered'
  BY <1>2, <1>3 DEF StoredIsDelivered
<1>5. audited'.created = sent
  <2>1. FilesIn(form) # {}
    BY <1>1 DEF CallbackPayloadSchema
  <2>2. audited = [created |-> {}, failed |-> {}]
    BY DEF PInv, PersistMetadataWithOutbox
  <2>3. ExtractFileIds(form) = sent
    BY <2>1 DEF ExtractFileIds
  <2>. QED
    BY <1>2, <2>2, <2>3
<1>6. {s.file : s \in status'} = ids
  <2>. HIDE DEF ids
  <2>. QED
    BY <1>2, RecordsOf
<1>7. ~Collides(form) => ids = sent
  BY <1>1, FilesHaveDocuments
<1>. HIDE DEF ids, sent
<1>8. NoFileIsLost'
  BY <1>1, <1>2, <1>5, <1>6, <1>7 DEF NoFileIsLost, sent
<1>9. RejectionIsRecorded'
  BY <1>2 DEF RejectionIsRecorded
<1>. QED
  BY <1>1, <1>2, <1>4, <1>8, <1>9 DEF PInv

\* The invariant is inductive.
LEMMA PayloadInvariance == Spec => []PInv
<1>1. Init => PInv
  BY DEF Init, PInv, NoFileIsLost, StoredIsDelivered, RejectionIsRecorded
<1>2. PInv /\ [Next]_vars => PInv'
  <2>. SUFFICES ASSUME PInv, [Next]_vars PROVE PInv'
    OBVIOUS
  <2>1. CASE CheckSchema
    <3>1. CallbackPayloadSchema \in BOOLEAN /\ Check(CallbackPayloadSchema, "schema", "contract")
      BY <2>1 DEF CheckSchema, CallbackPayloadSchema
    <3>2. CallbackPayloadSchema => audited' = audited
      BY <2>1 DEF CheckSchema
    <3>. QED
      BY <3>1, <3>2, CheckKeeps
  <2>2. CASE CheckContract
    <3>1. Contract \in BOOLEAN /\ Check(Contract, "contract", "consistency")
          /\ audited' = audited
      BY <2>2 DEF CheckContract, Contract
    <3>2. stage = "contract" /\ CallbackPayloadSchema
      BY <3>1, CheckStep DEF PInv
    <3>. QED
      BY <3>1, <3>2, CheckKeeps
  <2>3. CASE CheckConsistency
    <3>1. ValidateFormFiles \in BOOLEAN /\ Check(ValidateFormFiles, "consistency", "persist")
          /\ audited' = audited
      BY <2>3 DEF CheckConsistency, ValidateFormFiles
    <3>2. stage = "consistency" /\ CallbackPayloadSchema /\ Contract
      BY <3>1, CheckStep DEF PInv
    <3>. QED
      BY <3>1, <3>2, CheckKeeps
  <2>4. CASE PersistMetadataWithOutbox
    BY <2>4, PersistStep
  <2>5. CASE PersistThrows
    BY <2>5 DEF PersistThrows, PInv, NoFileIsLost, StoredIsDelivered, RejectionIsRecorded
  <2>6. CASE UNCHANGED vars
    BY <2>6 DEF vars, PInv, NoFileIsLost, StoredIsDelivered, RejectionIsRecorded,
       CallbackPayloadSchema, Contract
  <2>. QED
    BY <2>1, <2>2, <2>3, <2>4, <2>5, <2>6 DEF Next
<1>. QED
  BY <1>1, <1>2, PTL DEF Spec

\* However large the form and its groups, while no two names meet the files sent,
\* stored, recorded and audited are the same.
THEOREM NothingLost == Spec => []NoFileIsLost
<1>1. PInv => NoFileIsLost
  BY DEF PInv
<1>. QED
  BY <1>1, PayloadInvariance, PTL

\* Every file that is stored has an outbox entry, even when names meet.
THEOREM AllDelivered == Spec => []StoredIsDelivered
<1>1. PInv => StoredIsDelivered
  BY DEF PInv
<1>. QED
  BY <1>1, PayloadInvariance, PTL

\* A rejection is recorded for each file, and stores nothing.
THEOREM RejectionRecorded == Spec => []RejectionIsRecorded
<1>1. PInv => RejectionIsRecorded
  BY DEF PInv
<1>. QED
  BY <1>1, PayloadInvariance, PTL

\* Nothing that has passed the schema and the contract fails the last check, and nothing
\* is stored that a rule of either check refuses.
THEOREM ChecksComposed == Spec => []ChecksCompose
<1>1. PInv => ChecksCompose
  <2>. SUFFICES ASSUME PInv, stage \in {"consistency", "persist"},
                       NEW file \in FilesIn(payload.form)
                PROVE  SchemaAccepts(file) /\ Consistent(file)
    BY DEF ChecksCompose, ValidateFormFiles
  <2>1. SchemaAccepts(file) /\ file.status = "complete"
    BY DEF PInv, CallbackPayloadSchema, Contract
  <2>. QED
    BY <2>1 DEF SchemaAccepts, Consistent
<1>. QED
  BY <1>1, PayloadInvariance, PTL

=============================================================================
