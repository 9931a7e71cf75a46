# A formal model of fcp-sfd-object-processor

TLA+ modules for the parts of the object processor where interleaving, failure
and timing decide what happens, TLC configurations that check them on small
instances, and TLAPS proofs of the results that should hold whatever the number
of instances, entries, files and attempts. Source paths below are relative to the
repository's `src/`.

## The system

Clients open an upload (`POST /uploader/initiate`), send files to CDP Uploader,
and poll for a verdict (`GET /uploader/status/{id}`). CDP Uploader posts a
callback when it has scanned the files; the callback's data goes into MongoDB
together with an outbox entry per file, and a poller in every service instance
publishes the entries to SNS for CRM. Other systems list what was stored
(`GET /metadata/sbi/{sbi}`) and fetch it (`GET /blob/{fileId}`).

| Component | State | Operations | Hard part | Correct when |
|---|---|---|---|---|
| Outbox and poller (`repos/outbox.js`, `messaging/outbound/crm/doc-upload/`) | `outbox` documents, `publishedAt` of metadata, the worker's claims | insert, claim, publish, finalise, report, TTL | several workers, leases, publish outside the transaction, crashes, runs that throw, reads from a secondary | outcomes are deserved and final, one publishing call per attempt, nothing waits for ever, failures are audited |
| Poll loop (`messaging/outbound/index.js`, `index.js`, `pulse.js`) | timer, run in flight, `isStopping`, the client | start, timer, end of run, signal, drain, close | a signal at any moment, a stalled run | one run at a time, polling survives failures, shutdown ends |
| Initiate (`api/v1/uploader/initiate`, `repos/sessions.js`) | `sessions` | validate, forward with retries, store the session, answer | a lost attempt may have opened an upload, or opens it later; the insert can fail either way | a client is only sent to an upload that can be found again, and every request is answered |
| Intake (`api/v1/callback`, `services/metadata-service.js`, `journey-correlation-service.js`) | `sessions`, `status`, `metadata`, `outbox` | correlate, reject, persist, duplicate | repeated and concurrent callbacks, unknown commit outcome, lagging lookups | an upload is stored whole, once, under one id, and answers are true |
| Validation and document building (`callback/schema.js`, `callback/validation`, `utils/*form*`, `mappers/status.js`) | one payload | schema, contract, consistency, re-key, build | several walks over one form that have to agree | no file is lost, stored unsent or rejected without a record |
| Verdict (`api/v1/uploader/status`, `services/uploader-status-service.js`) | none of its own | ask CDP Uploader, four reads | writers between the reads, secondaries | neither behind what was true at the start nor ahead of what is true at the end |
| HTTP client retries (`http/client.js`) | the retry state of a request | classify, delay, retry, report | two limits, attempts counted in two ways | the report is what happened, no class overspends or gives up early |
| Index reconciliation (`data/db.js`) | the TTL index of the outbox | compare, drop, collMod, create | several instances booting, redeployments, stale readings | a complete deployment has the index with its retention, and every instance boots |
| Metadata listing and blobs (`api/v1/metadata`, `api/v1/blobs`, `getMetadataPageBySbi`) | the caller's cursor | read a page, read a file's reference, audit, answer | inserts while paging, ids out of commit order, a lagging secondary, a refused event, an answer that fails after its event | no record skipped or repeated, promises kept, a read event for each answer |
| Authentication (`plugins/auth`) | configuration | fold the providers, decide by issuer | tenants share keys, a tenant may be listed twice | a token is let in by its own issuer's entry |
| Audit event content, configuration, logging, metrics | none that a property needs | | | left out |

They interact through MongoDB: initiate writes the session that the callback
and the verdict read; the callback's transaction writes the status, metadata and
outbox documents that the poller, the verdict and the listing read; the poller's
transaction writes the outcome that the verdict reports. Initiate and the verdict
call CDP Uploader through the HTTP client. The poll loop decides when the poller
runs and when the client under it is closed. MongoDB, SNS, S3, CDP Uploader, the
token issuers, ffetch, hapi-pulse and the platform that starts and kills
processes are external.

## Modules

| Module | Models | State ↔ code |
|---|---|---|
| `Outbox` | the outbox and its workers | `outbox`: the documents; `worker[w]`: the local variables of one `publishPendingMessages` (`now` of the claim loop, `pendingMessages` still to do, `Successful`, `finalizedFailed`); `copies`: the messages SNS has accepted of each attempt; `audited`: the failure events handed to `sendAuditEvent`; `replica`: the permanent failures a secondary shows |
| `Delivery` | what the outbox promises: per file, at least once or an explicit failure, tries bounded; how many copies of its message a try leaves is open | no workers, leases, batches or transactions |
| `EntryLife` | what a status request sees of one outbox entry: inserted, then delivered with `publishedAt` or given up without, the former removed in the end | no workers, files' messages or attempts |
| `OutboxLoop` | one process: boot, timer, runs, shutdown | the module variables of `messaging/outbound/index.js`, the await each run is at, the stage of hapi-pulse |
| `Intake` | initiate (as far as callbacks can tell) and the callback | `db`: the four collections as they matter here; `request[r]`: where a callback is, its resolved id, its answer |
| `UploadRegister` | what the intake promises: each upload stored once, whole, for good, then announced at most once | no callbacks, sessions, duplicates or transactions |
| `UploadVerdict` | the status route over `Intake` | `poll[p]`: the read it is at and what it read; `scan`: what CDP Uploader would answer; the poller reduced to delivering a file, giving it up, TTL |
| `CallbackPayload` | one callback's payload, from the Joi schema to the documents | `payload`; `status`, `metadata`, `outbox`, `audited`: the fileIds of what is written and sent |
| `HttpRetry` | one call of `httpClient` | `outcomes`: what came of each attempt; `state`: its entry of `retryStateByRequest`; `metadata`, `logged`: what `onCompleteHook` reports |
| `Initiate` | one initiate request over `HttpRetry` | `handler`, `code`, `body`: where it is, its answer, `cdpResponse`; `opened`: uploads that attempts have opened; `sessions` |
| `IndexReconcile` | `createIndexes` in several instances | `index`: `outbox_sent_ttl_idx`, absent, foreign or a retention; `stage[i]`, `config[i]` of each instance; `replica`: the index as a secondary shows it |
| `Access` | the auth plugin, as operators on a configuration and a token | no state |
| `DocumentReads` | the listing and the blob route behind `Access`, while callbacks store | `request[c]`: the request in flight; `walk[c]`: how far a client has followed the cursor; `balance`: per client and record, events taken by SNS less answers; `refusals`: events SNS did not take |
| `...Proofs` | the theorems about the module in their name; `InitiateProofs` also those about `HttpRetry` | |
| `MC...` | instances for TLC | |

`Initiate` extends `HttpRetry`, `UploadVerdict` extends `Intake`, `DocumentReads`
extends `Access`; `Outbox` instantiates `Delivery`, and `Intake` `UploadRegister`, with
a refinement mapping; `Outbox` and `UploadVerdict` both instantiate `EntryLife`. `Intake` has of initiate what it leaves in the database, for
several uploads; `Initiate` has one request with its attempts.

A step is one MongoDB statement, one transaction, one call of SNS, one attempt of an
HTTP call or, in `OutboxLoop`, one synchronous stretch of Node code. A transaction is
one step: MongoDB makes it atomic, and a commit whose outcome is lost is a step of its
own (`PersistThrows`; `RunThrows` after a claim or a finalisation). `RunThrows` covers a
call whose effect happened and whose answer did not arrive, because it may follow
the successful step immediately.

What is abstracted: a journey id is the upload it was minted for, and a
generated one is the request it was generated for; a payload is its kind (fails
the schema, fails the contract checks, valid); an entry carries its status,
attempts, lease, owner and creation time; `READ_PREFERENCE` is primary or one
secondary that shows a past state of the primary (`replica`, caught up by
`Replicate`). Several secondaries, which could also make reads go backwards, are
not modelled, nor is a change of primary. Every answer of SNS puts each entry of
the batch in `Successful` or in `Failed`, as its contract says.

`sns/client.js` leaves the AWS SDK its retries, and the topic is a standard one, so a
`PublishBatch` whose answer is lost, or is a 5xx, is sent again and SNS accepts the
messages once more. `Resends` bounds these repetitions within one call; each of the
requests that are not answered may be accepted in part. What the audit publisher does
within one call is external, and events are counted, not their copies: `audited` has those
that `sendAuditEvent` was given, for it swallows a refusal and nothing in the outbox
depends on it. A finalising transaction takes a date per entry: `FinalizeBatch` lets time
pass within it, so that a lease may be over for the entries finalised late.

In `CallbackPayload` a field name is a sequence, so that appending an index to the
group's name can meet the name of another field, as `'document-1'` can; a file is the
attributes the checks look at; everything else the schema demands is the flag
`sound`. Intake takes the outcome (which check fails) as the `kind` of its callbacks.

`HttpRetry` assumes of ffetch, which is not part of the repository, that it asks
`shouldRetry` after every failed attempt but the last it may make, with that
attempt's error or response, and returns a success at once. The comment in
`onCompleteHook` describes the same. `Initiate` lets every attempt open an upload
unless it is answered 4xx, also after it was given up (`OpenLate`).

`IndexReconcile` lets `indexes()` be served by the secondary, because it is given no
read preference of its own; if the driver sends it to the primary the runs
still hold, for `ReadSecondary = FALSE` allows no step the other does not. The four
indexes created with it, and those of the other collections, never change.

`UploadVerdict` has a reduced poller of three one-file steps. `EntryLife` says why it
may: `Outbox`, with all its workers, implements it (PENDING, PROCESSING and FAILED are
one state of it), and so does `UploadVerdict`, whose poller moreover can take every step
`EntryLife` has for an inserted entry (`PollerIsComplete`). What finalising a batch does
in one transaction the reduced poller does file by file, with no read between two of
the steps if it so happens; the converse interleavings are extra behaviours, so what
holds of the reduced poller's polls holds of the detailed one's.

`DocumentReads` takes an ObjectId as a number and a token as what @hapi/jwt has
verified of it. `ListingIsExact` says what the README's paragraph on paging says, of
what the first page's read saw: with `readPreference` secondary, which
`config/database.js` recommends for production, that is what the member it read
held, and a record the primary already had may be among those missed. With
several secondaries a later page could show less than an earlier one, and a listed file
be answered 404; `PromiseIsKept` is claimed for one secondary that only moves forward,
where what it says is that the look-ahead by one record is right.

A read is audited in a step before the one that answers it. SNS may refuse the event,
and the request is answered all the same; the database, the signing of the URL (both
before the event) and the response schema (after it) may fail. `EveryReadIsAudited`
counts the difference: between the events SNS took and the answers there are only the
refused events and the failed answers.

Operators introduced as *mutants* stand before the definition they replace. Each
is a plausible bug of that code, and each property of a passing run is violated
by one of them: they show that the property can fail.

## Runs

Bounds are the CONSTANTS of each `.cfg`; `MaxTime` and `MaxFaults` bound the clock
and the faults. `Resends` is 1 in `OutboxRecovers` and 0 in the runs with two entries, whose
properties do not depend on it; the theorems hold for any number. Two workers are enough for every race over one entry (an old and
a new owner), two entries for order, batches and the claim limit; leases of one
tick against three to five ticks of time let claims expire, be taken over and
expire again; two or three attempts separate retryable from final failures.

| Run | Shows |
|---|---|
| `OutboxSafety` | Two entries, two workers, batches of one, a fault: giving up is deserved and audited, never more often than the entry was tried, no claim is forgotten; `Delivery` (SENT was delivered, outcomes are final) and `EntryLife` (`publishedAt` comes with SENT) are implemented |
| `OutboxRecovers` | One entry through three attempts, a fault, a lagging secondary. Liveness: every entry is delivered or given up, through expired leases and workers that never come back. Safety: a claim buys one call of the SNS client, whose requests bound the messages of the attempt; the worker's copy of `attempts` is current while its claim is held |
| `IntakeSafety` | Two uploads, three callbacks, a fault, lookups on a lagging secondary: stored whole, once, under the first id, by the one callback that is answered 201; `UploadRegister` is implemented |
| `VerdictPrimary` | Reads on the primary, one poll (polls share nothing), two callbacks, a fault: duplicates ignored; verdicts between the truth at the start and at the end; what the truth is never goes back; an answered upload has a verdict; entries keep to `EntryLife` |
| `CallbackPayload` | Every file object alone, and every form of up to two fields, single or grouped in up to two, over three files: the walks over the form agree, a rejection has its records, the schema and the consistency check between them leave nothing to the third stage (`ChecksCompose`; the schema alone forbids a complete file's `errorCode` and `errorParams`). Two fields are enough for names to meet; the walks look at one item at a time |
| `Initiate` | Every sequence of six kinds of outcome under limits 3 and 2, with uploads opened or not, in time or late: reported attempts, budgets, the answer is backed by the one session; liveness: every request is answered |
| `IndexReconcile` | Three instances, two retentions, two deaths, any index to begin with. Liveness: once the retention no longer differs, everybody comes up for good |
| `Loop` | The poll loop; runs have up to three batches and a signal may come at every step. Liveness: polling goes on, shutdown ends |
| `Reads` | A client, four records of two SBIs stored in every order and in every grouping, pages of one and two, a lagging secondary, a request that fails or an event that SNS refuses (`MaxFaults` bounds both together); tokens and configurations in which each provider can be off, refuse or accept, and a tenant is listed twice. Four records make three pages with one inserted between them. Clients share only what is stored, so one is enough |

Deadlock checking is off in all of them: the bounded clock, requests and polls,
and an exited process, do stop.

### Where the code and its documentation differ

| Run | What TLC finds |
|---|---|
| `OutboxStranded` | `attempts` is raised by the claim and the claim filter asks `attempts < max`: an entry whose worker dies during its last attempt stays in PROCESSING for ever. README: a worker that dies mid-publish "does not strand its entries" |
| `CallbackCollision` | A group `document` and a field `document-1` are re-keyed to one name. One file is dropped, and audited as created. README: one `created` event "per persisted file" |
| `VerdictStale` | A causally consistent session that has not operated yet orders nothing: with `readPreference` secondary a poll can miss a write that landed before it |

The lag of a secondary breaks three more properties, which is why `OutboxSafety` and
`VerdictPrimary` read the primary:

- `TerminalFailureAudited`: the look-up of terminal failures can miss the write it
  follows, and nobody looks again, so a permanent failure is never audited.
- `DuplicateIsIgnored`: a duplicate callback can be answered 500, and stored files
  audited as failed.
- `AnsweredIsKnown`: a callback close to its initiate can miss the session.
  Its id is generated, and its upload's status stays `awaiting-callback`, although
  the comment above `resolveJourneyId` says of the generated id that it "should
  never happen".

Three things the code does that no property denies, because nothing promises
otherwise: two workers can both audit one permanent failure (a failure put back to
PENDING by one and failed for good by the other before the first looks it up;
`AuditsAreBounded` is what can be said: no more often than the entry was tried); a
call that is retried and finally answered 4xx or 5xx is logged as recovered, with
outcome success, since `throwOnHttpError` is false; and two instances with different
retentions that boot together can make each other fail with conflicting options,
or leave the index with the older of the two.

## Fairness

`Outbox!Fairness`: a live worker goes on with its run and its timer starts the next
(`WF` of `RunStep`; `PollingGoesOn` shows that the loop does so), time passes and
the secondary catches up. Workers are not obliged to restart, callbacks not to
come, SNS not to accept anything. `EveryEntrySettles` excepts an entry that nobody
will finalise any more and that is in its last attempt, which is what
`OutboxStranded` is about, or has a lease the bounded clock does not outlast. It is
checked with one entry; that batching forgets none of several is
`LiveClaimIsRemembered`.

`IndexReconcile!Fairness`: the platform restarts a process that exits, boots proceed
and the secondary catches up. `EveryInstanceBoots` speaks of executions whose deaths
end and whose instances come to share one retention; two retentions that meet in
every boot could keep refusing each other.

`ShutdownSpec` asks only that hapi-pulse and the drain timer proceed: nothing is
assumed of the run, since neither the MongoDB nor the SNS client has a request
timeout. `PollingGoesOn` assumes `PollingFairness` besides: boot ends, the timer fires
and no run stalls.

`FairInitiateSpec`: the handler goes on; an attempt ends because `cdpUploaderTimeoutMs`
bounds it. Nothing is assumed of what CDP Uploader answers.

`DocumentReads!FairSpec`: requests are handled, and a client whose token is accepted
goes on with its walk (`SF`, because it may ask for other things in between). A client
that is not let in, or stops asking, has no walk to end.

## Proofs

All theorems hold for every value of the constants under the named assumptions
of the modules (`LimitAssumption`, `ClockAssumption`, `RecordAssumption`, ...), which
TLC evaluates in the runs.

`OutboxProofs` proves type correctness, then an inductive invariant `IInv`. The
properties alone are not inductive: that SENT was delivered needs to know that
a worker's `successful` entries have a message under the attempt the worker
claimed, and that a message under attempt *n* cannot exist before *n* is
claimed; that no attempt is given a second call of the SNS client (`OneCallPerAttempt`)
needs that a claim (entry, attempt) is held by one worker, once, and is dropped before
its run publishes again; that publishing is final needs the same of claims not yet
published. What one call and one finalising transaction do is stated apart
(`PublishIs`, `FinalizeIs`), by how many messages each claim has more and which entries
were still claimed. From `IInv`
follow `SentIsDelivered`, `DeliveriesAreBounded`, `FailureIsDeserved`,
`FinalOutcome` and `Refinement`, the last by showing that each action is, for each
file, a `FileStep` of `Delivery` or none. No clock assumption is used: these
results hold for any skew between instances, so none of them rests on leases
being timed well.

Three more follow from a second, smaller invariant on top of `IInv`, found by asking
what each action does to the workers' records (`StartEffect` to `EnvironmentEffect`).
`NoClaimIsForgotten` (for any skew, while nothing crashes or throws) needs only that no
worker is down. `EveryFailureIsAudited` assumes look-ups on the primary,
`ReadSecondary = FALSE`: in production the reads go to a secondary (the comment in
`config/database.js`), and there it does not hold. `HeldClaimsAreCurrent` assumes that the instances' clocks agree
(`Synchronised`). Its invariant says what a claim loop may rely on although it uses the
date it began with throughout: until its lease is over, an entry it claimed is as it
left it (`LoopClaims`). `worker.now` is kept for the loop only.

`AuditsBounded` needs to count: an entry's failure events so far and the workers that
may yet audit it (those that hold it, or have finalised it and not reported) are together
no more than its attempts (`AttemptsOK`). Only a claim adds a holder, and it adds an
attempt; `NoNewHolder` and `OneNewHolder` say what each step does to the set. It holds for
any skew, any read preference, crashes and runs that throw.

`OutboxImplementsLife` proves the refinement of `EntryLife` from `IInv`: a finalising
transaction touches only entries its worker still owns, which are PROCESSING.

`IntakeProofs` proves `StoredTogether`, `AnswerIsTrue`, `OneCallbackStores` and that
`Intake` implements `UploadRegister`, for any number of uploads, files and callbacks
and whatever the secondary shows. `IInv` adds to the properties what each request
knows at its place: one that is about to audit has stored its files under its own
id, no other for the same upload has, and none of them has been announced yet
(`CallbacksOK`). Of `replica` it knows nothing but its type. `DuplicatesAreIgnored` (for
`ReadSecondary = FALSE`) follows from it: the look-up of a duplicate reads what the
index has refused. Each action is summed up by its `Effect` (it leaves the files alone, stores one upload, or
announces one), and the refinement follows from these.

`UploadVerdictProofs` proves that adding the poller and the status route keeps
`IInv`, and that the register is still implemented; that an upload's verdict never
goes back (`VerdictsOnlyAdvance`), that no poll is ahead of the database
(`NeverAhead`), and that no poll is behind what the member it reads showed when it began
(`NeverOlder`), all for any read preference. For reads of the primary the last becomes
`NeverBehind`, which `VerdictStale` refutes otherwise. The
invariant says, for each place of a poll, what its reads so far still imply: all
collections only grow in the order in which the verdict ranks them (`Le`), on the primary
and so on a secondary that shows a past of it, and a fact that was read stays true.

`AnsweredAreKnown` and `PollerIgnoresDuplicates` are for reads of the primary too. The
first needs an invariant that joins three collections (`KnownInv`): an open upload has its
session, so a callback that echoes the metadata resolves to the upload's own id unless an
operation fails, and what it was answered for is recorded under that id, as a rejection
of each of its files or as stored documents. `VerdictImplementsLife` is the other half of
the argument that the reduced poller stands for `Outbox`.

`CallbackPayloadProofs` proves the four properties of `CallbackPayload` for forms of
any size and any set of payloads. `NormaliseFormFields` is defined by the assignments
the code makes and which of them come last under their name, not as a loop, so that
no induction is needed: a file is lost only if a later assignment has its name,
which without a collision means it is the same one.

`InitiateProofs` proves, of `HttpRetry`, that the attempts reported are those made and
that the budgets are kept and spent, for all limits. The invariant says, for each
place a call can be at, what its recorded state knows of its attempts:
`BetweenAttempts` (every attempt was decided on, and allowed), `AfterAttempt` (the last
one is not decided on yet) and `AtTheEnd` (it was, with `finalAttempt` set, or the loop
returned without asking). `AttemptsAreCounted` alone is not inductive, because the two
ways of counting depend on how the call got there. `CallIsHttpRetry` carries these over
to the call `Initiate` makes, and `AnswerBacked` proves that a client is only sent to
the upload of the last attempt, which has the only session.

`IndexReconcileProofs` proves that a complete deployment has its index and that no
change of retention takes it away, for any number of instances, retentions and
deaths. Both follow from what MongoDB checks in the last step: `createIndexes` only
succeeds over no index or the same one, and only an instance that read a foreign
index drops.

`OutboxLoopProofs` proves that runs never overlap, that the loop stays alive (what
`PollingGoesOn` needs of the state: a running, unstopped process has a timer or a run),
that the client is closed under a run only after a drain timeout and that nothing
starts after the signal. The invariant `Loop` adds what each stage of the
shutdown knows of timer, run and client (`Stages`) and that a publishing run has a
batch left.

`DocumentReadsProofs` proves `ListingIsExact`, `PromiseIsKept`, `EveryReadIsAudited` and
`AccessIsOwn` for any number of clients, records and page sizes and any configuration.
The lemmas on `Newest` say what sorting and limiting return; the invariant relates
each walk to its cursor (all it has returned is at or above it, all that existed above
it was returned) and each page to the collection it was read from, which only grows.
`EveryReadIsAudited` is inductive by itself, being stated with the answer under way:
`BalanceStep` goes through the steps that move an event, an answer or a count.

Only model-checked: every liveness property (`EveryEntrySettles`, `InitiateIsAnswered`,
`EveryInstanceBoots`, `ShutdownTerminates`, `PollingGoesOn`, `WalkEnds`), which TLAPS cannot
prove (fairness and ENABLED are out of its reach). Every invariant and every action
property of a passing run is the subject of a theorem. `SentWasDelivered`, `OutcomeIsFinal`,
`AnswerIsTrue` and `VerdictNotOlder` are in no run: the first two are contained in the
refinements that `OutboxSafety` checks, the third, for a 201, in `OneCallbackStores`; the
last is `VerdictNotBehind` for the member that is read, and TLC confirms it under
`VerdictStale.cfg` when it stands there in place of the invariant that fails.

## Not modelled, and why

- The limit of the status query (`repos/status.js`): the comment there says what it
  truncates and a warning makes it visible; it is far above the files of an upload.
- `Intake` with the detailed `Outbox` in place of the reduced poller: each of the two
  is already at the size TLC can explore in minutes. They meet in the outbox documents
  only, and `EntryLife` is what each may rely on of the other.
- Several secondaries and a change of primary, see above.
- The content of audit events, formats of single fields, OpenAPI generation,
  configuration, logging, metrics and the health route: values and output, no state
  that a property here depends on. The records an audit event names, and when it is
  sent, are in `DocumentReads`, `Intake` and `Outbox`.
- Signatures, S3's presigned URLs, the scripts under `scripts/` and the compose files.
