---------------------------- MODULE DocumentReads ----------------------------
(***************************************************************************)
(* Reading what was uploaded: GET /metadata/sbi/{sbi}, which a client      *)
(* follows page by page from the newest record to the oldest, and          *)
(* GET /blob/{fileId} (src/api/v1/metadata, src/api/v1/blobs), while       *)
(* callbacks store more.  Ids are minted by several processes before their *)
(* transactions commit, so records do not appear in the order of their     *)
(* ids.  Every read is audited before it is answered.                      *)
(*                                                                         *)
(* A record is its _id, an ObjectId taken as a number; its fileId, under a *)
(* unique index, is not told from it.  Records are never deleted.          *)
(***************************************************************************)
EXTENDS Access, FiniteSets

CONSTANTS
  Ids,             \* the ids of all records that may be stored
  Sbis,
  SbiOf,           \* metadata.sbi of each record
  Clients,
  Tokens,          \* the tokens clients may send
  Configurations,  \* the configurations the service may run with
  MaxPageSize,     \* mongo.metadataSbiMaxPageSize
  ReadSecondary,   \* mongo.readPreference is a secondary one
  MaxFaults        \* bound on failing requests and refused events together

ASSUME RecordAssumption == /\ Ids \subseteq Nat \ {0} /\ IsFiniteSet(Ids)
                           /\ SbiOf \in [Ids -> Sbis]
ASSUME ConfigurationAssumption == /\ Tokens \subseteq Token
                                  /\ \A c \in Configurations : IsConfiguration(c)
ASSUME PageAssumption == /\ MaxPageSize \in Nat \ {0}
                         /\ ReadSecondary \in BOOLEAN /\ MaxFaults \in Nat

VARIABLES
  config,     \* config.auth
  stored,     \* the metadata collection on the primary
  replica,    \* the collection on the secondary that serves reads
  request,    \* the request each client has in flight
  walk,       \* each client's walk through the pages of one SBI
  balance,    \* of each client and record: read events that SNS took for one of the
              \* client's requests and that name the record, less answers that name it
  refusals,   \* read events that SNS did not take
  faults      \* requests that failed so far

trail == <<balance, refusals, faults>>
vars == <<config, stored, replica, request, walk, trail>>

-----------------------------------------------------------------------------
(* State                                                                   *)

NoId == 0

\* found: false if the answer is going to be 404.
Request == [pc : {"refused", "reading", "auditing", "answering"},
            kind : {"page", "blob"},
            token : Tokens,
            size : 0 .. MaxPageSize,    \* pageSize
            id : Ids \cup {NoId},       \* the record asked for
            docs : SUBSET Ids,
            hasMore : BOOLEAN,
            found : BOOLEAN]

Idle == [pc |-> "idle"]

\* The database has answered.
IsRead(r) == r.pc \in {"auditing", "answering"}

\* after: the cursor to be sent next.  existed: what the first page's read saw.
Walk == [sbi : Sbis,
         after : Ids \cup {NoId},
         existed : SUBSET Ids,
         returned : SUBSET Ids,
         over : BOOLEAN]

Init ==
  /\ config \in Configurations
  /\ stored = {} /\ replica = {}
  /\ request = [c \in Clients |-> Idle]
  /\ walk \in [Clients -> {[sbi |-> s, after |-> NoId, existed |-> {},
                            returned |-> {}, over |-> FALSE] : s \in Sbis}]
  /\ balance = [c \in Clients |-> [id \in Ids |-> 0]]
  /\ refusals = 0 /\ faults = 0

ReadView == IF ReadSecondary THEN replica ELSE stored

MayFail == refusals + faults < MaxFaults

\* A callback's transaction commits (PersistMetadata in Intake).
InsertMany(ids) ==
  /\ ids \cap stored = {}
  /\ stored' = stored \cup ids
  /\ UNCHANGED <<config, replica, request, walk, trail>>

Replicate ==
  /\ ReadSecondary
  /\ replica # stored
  /\ replica' = stored
  /\ UNCHANGED <<config, stored, request, walk, trail>>

-----------------------------------------------------------------------------
(* Requests                                                                *)

Send(c, ask) ==
  /\ request[c].pc = "idle"
  /\ request' = [request EXCEPT ![c] =
       [ask EXCEPT !.pc = IF Authenticated(config, ask.token) THEN "reading" ELSE "refused"]]
  /\ UNCHANGED <<config, stored, replica, walk, trail>>

Ask(kind, token, size, id) ==
  [pc |-> "idle", kind |-> kind, token |-> token, size |-> size, id |-> id,
   docs |-> {}, hasMore |-> FALSE, found |-> FALSE]

\* A client goes on with its walk; other page sizes are answered 400.
AskPage(c, token, size) == ~walk[c].over /\ Send(c, Ask("page", token, size, NoId))

AskBlob(c, token, id) == Send(c, Ask("blob", token, 0, id))

\* 401, and a security event that names no record it has not been asked for.
Refuse(c) ==
  /\ request[c].pc = "refused"
  /\ request' = [request EXCEPT ![c] = Idle]
  /\ UNCHANGED <<config, stored, replica, walk, trail>>

-----------------------------------------------------------------------------
(* getMetadataPageBySbi                                                    *)

\* Mutant of Matching: the cursor is included.
MatchingInclusive(view, sbi, after) ==
  {id \in view : SbiOf[id] = sbi /\ (after # NoId => id <= after)}

Matching(view, sbi, after) ==
  {id \in view : SbiOf[id] = sbi /\ (after # NoId => id < after)}

\* sort and limit: the n records with the largest ids.
Newest(ids, n) == {id \in ids : Cardinality({i \in ids : i > id}) < n}

\* Mutant of HasMore: a full page is taken for one with a successor.
HasFullPage(ids, size) == Cardinality(ids) >= size

\* The query was given a limit of pageSize + 1, and reached it.
HasMore(ids, size) == Cardinality(ids) > size

\* documents.at(-1)._id
NextCursor(page) == CHOOSE id \in page : \A i \in page : id <= i

\* A first page without records is a NotFoundError, a later one an empty page.
ReadPage(c) ==
  /\ request[c].pc = "reading" /\ request[c].kind = "page"
  /\ LET size == request[c].size
         ids == Matching(ReadView, walk[c].sbi, walk[c].after)
     IN  /\ request' = [request EXCEPT ![c].pc = "auditing",
                                       ![c].docs = Newest(ids, size),
                                       ![c].hasMore = HasMore(ids, size),
                                       ![c].found = walk[c].after # NoId \/ ids # {}]
         /\ walk' = [walk EXCEPT ![c].existed = IF walk[c].after = NoId THEN ids ELSE @]
  /\ UNCHANGED <<config, stored, replica, trail>>

-----------------------------------------------------------------------------
(* getS3ReferenceAndAccountsByFileId                                       *)

\* A file that is not found is answered 404, and no event sent.
ReadBlob(c) ==
  /\ request[c].pc = "reading" /\ request[c].kind = "blob"
  /\ LET found == request[c].id \in ReadView
     IN  request' = [request EXCEPT ![c].pc = IF found THEN "auditing" ELSE "answering",
                                    ![c].docs = {request[c].id} \cap ReadView,
                                    ![c].found = found]
  /\ UNCHANGED <<config, stored, replica, walk, trail>>

-----------------------------------------------------------------------------
(* Events and answers                                                      *)

Add(c, ids, n) ==
  balance' = [balance EXCEPT ![c] = [id \in Ids |-> IF id \in ids THEN @[id] + n ELSE @[id]]]

\* SNS takes the event, or does not, and sendAuditEvent swallows the failure.
Publish(c, ids) ==
  \/ Add(c, ids, 1) /\ UNCHANGED refusals
  \/ MayFail /\ refusals' = refusals + 1 /\ UNCHANGED balance

\* Mutant of SendReadEvent: first pages only are audited.
SendFirstReadEvent(c) ==
  /\ request[c].pc = "auditing"
  /\ IF walk[c].after = NoId THEN Publish(c, request[c].docs)
     ELSE UNCHANGED <<balance, refusals>>
  /\ request' = [request EXCEPT ![c].pc = "answering"]
  /\ UNCHANGED <<config, stored, replica, walk, faults>>

\* One event with the records of the answer to come, or with a count of 0.
SendReadEvent(c) ==
  /\ request[c].pc = "auditing"
  /\ Publish(c, request[c].docs)
  /\ request' = [request EXCEPT ![c].pc = "answering"]
  /\ UNCHANGED <<config, stored, replica, walk, faults>>

Answer(c) ==
  /\ request[c].pc = "answering"
  /\ Add(c, request[c].docs, -1)
  /\ walk' = IF request[c].kind = "blob" THEN walk
             ELSE [walk EXCEPT ![c].returned = @ \cup request[c].docs,
                               ![c].over = ~request[c].hasMore,
                               ![c].after = IF request[c].hasMore
                                            THEN NextCursor(request[c].docs) ELSE @]
  /\ request' = [request EXCEPT ![c] = Idle]
  /\ UNCHANGED <<config, stored, replica, refusals, faults>>

\* 500: the database cannot be read, or the URL of a file that was found not be signed,
\* before the event; or the answer fails the response schema, after it.
RequestThrows(c) ==
  /\ \/ request[c].pc \in {"reading", "answering"}
     \/ request[c].pc = "auditing" /\ request[c].kind = "blob"
  /\ MayFail /\ faults' = faults + 1
  /\ request' = [request EXCEPT ![c] = Idle]
  /\ UNCHANGED <<config, stored, replica, walk, balance, refusals>>

-----------------------------------------------------------------------------

Handle(c) ==
  Refuse(c) \/ ReadPage(c) \/ ReadBlob(c) \/ SendReadEvent(c) \/ Answer(c)

Next ==
  \/ \E ids \in SUBSET Ids \ {{}} : InsertMany(ids)
  \/ Replicate
  \/ \E c \in Clients :
       \/ \E token \in Tokens, size \in 1 .. MaxPageSize : AskPage(c, token, size)
       \/ \E token \in Tokens, id \in Ids : AskBlob(c, token, id)
       \/ Handle(c)
       \/ RequestThrows(c)

Spec == Init /\ [][Next]_vars

\* A client with a token that is accepted goes on with its walk, whatever else it
\* asks for in between, and every request is handled.
Follow(c) == \E token \in Tokens, size \in 1 .. MaxPageSize :
               Authenticated(config, token) /\ AskPage(c, token, size)

FairSpec == Spec /\ \A c \in Clients : SF_vars(Follow(c)) /\ WF_vars(Handle(c))

-----------------------------------------------------------------------------
(* Properties                                                              *)

\* Collections, requests and walks keep values of their types.
TypeOK ==
  /\ config \in Configurations
  /\ stored \in SUBSET Ids /\ replica \in SUBSET stored
  /\ request \in [Clients -> Request \cup {Idle}]
  /\ walk \in [Clients -> Walk]
  /\ balance \in [Clients -> [Ids -> Int]]
  /\ refusals \in Nat /\ faults \in Nat

\* README: "no record that existed when the first page was read is repeated or
\* skipped", whatever is stored while the client follows the cursor, in whatever
\* order of ids, and however it changes the page size on its way; records come
\* newest first and from the SBI asked for.
ListingIsExact ==
  \A c \in Clients :
    /\ walk[c].existed \subseteq
         walk[c].returned \cup (IF walk[c].over THEN {}
                                ELSE {id \in Ids : walk[c].after = NoId \/ id < walk[c].after})
    /\ IsRead(request[c]) /\ request[c].kind = "page" =>
         \A id \in request[c].docs :
           SbiOf[id] = walk[c].sbi /\ \A r \in walk[c].returned : id < r

\* What one answer promises the next one keeps, also when the one member that is
\* read lags behind the primary: a page announced by hasMore is not empty, and a
\* listed file is never answered 404.
PromiseIsKept ==
  \A c \in Clients :
    IsRead(request[c]) =>
      IF request[c].kind = "page" THEN walk[c].after # NoId => request[c].docs # {}
      ELSE request[c].id \in walk[c].returned => request[c].found

\* README: a read is audited as "one per request, listing the file ID of every
\* document".  Of every client and record there are as many read events as answers
\* that name it, beyond the answer under way: an event that SNS refuses is missing,
\* as its failure "can never turn a successful request into a 500", and one whose
\* answer failed is left over, but nothing else tells the two apart.
EveryReadIsAudited ==
  \A c \in Clients, id \in Ids :
    LET underWay == IF request[c].pc = "answering" /\ id \in request[c].docs THEN 1 ELSE 0
    IN  balance[c][id] - underWay \in -refusals .. faults

\* A request is handled only if the entry of the tenant, or of the user pool, that
\* issued its token lets it in, or no provider could be set up; and one that some
\* entry lets in is refused only if its tenant has more than one.
AccessIsOwn ==
  \A c \in Clients :
    /\ request[c].pc = "reading" \/ IsRead(request[c]) =>
         Issuers(config) = {} \/ Entitled(config, request[c].token)
    /\ request[c].pc = "refused" =>
         \/ ~Entitled(config, request[c].token)
         \/ IsListedTwice(config, request[c].token.iss)

\* A caller that follows the cursor comes to the end, although records may be
\* stored all the while.
WalkEnds == \A c \in Clients : walk[c].after # NoId ~> walk[c].over

=============================================================================
