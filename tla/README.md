# Verification of tp.pwa

A verification development for the backend of tp.pwa (`src/backend/app`): TLA+
models of the parts that must survive crashes, retries, lost answers and
concurrent actors, model-checked with TLC on small instances, and theorems about
them that TLAPS checks for every value of the constants.

Contents: [the system](#the-system), [the modules](#the-modules),
[the runs](#the-runs), [the theorems](#the-theorems),
[disagreements](#where-code-and-documents-disagree),
[other observations](#observations-without-a-run),
[what is not modelled](#what-is-not-modelled), [the plan](#the-plan).

## The system

Technicians of an internet provider use a web application to see their tickets,
to take payments and to report a finished connection. The backend is a FastAPI
process plus workers that share PostgreSQL and Redis and talk to Bitrix24 (CRM),
TechPortal (tickets) and a GIS.

| component | state it keeps | operations | properties that make it correct |
|---|---|---|---|
| payment execution core (`payment_event_repository`, `payment_execution`, `payment_job_executor`, `payment_write_recovery`, `bitrix24_client`) | jobs, one execution lease per payment with a fencing token, a journal of external writes | claim, renew, begin / confirm / reject a write, recover unknown writes, finish, administrator's retry | a CRM write happens at most once and after what it builds on, whoever is late; only what happened is recorded; an open payment has a job or waits for the employee's choice |
| payment delivery (`payment_outbox`, `payment_events`, `payment_consumer`, `payment_recovery`, `payment_runtime`) | outbox rows with a publisher lease, a Redis stream per job kind with its pending list | claim and publish a row, read / reclaim / acknowledge an entry, execute due jobs from the database, republish | delivered at least once, acknowledged only when durably done, independent of Redis' memory |
| payment business rules (`payments`, `payment_status`, `repositories`, `routers/payments`) | the payment row and its columns | formation steps, choice of a client, cancel, resend, callbacks, status reads, comments and activities | final states are final, no callback is lost, a paid payment is recognised and followed up, commands are not lost |
| mode interlock (`payment_runtime_registry`, `main` lifespan) | the mode in force, registered processes | register, heartbeat, unregister, set_mode | the two ways to run payments never run together |
| payment retention (`payment_retention`) | archive of job identities, quarantine rows | archive old jobs, delete acknowledged entries, prune quarantine | nothing unfinished is deleted, nothing archived becomes unknown |
| payment client search (`payment_client_resolver`, `payments`, `bitrix24_client`) | what was remembered and asked on the payment; contacts and leads in the CRM | search by phone and address, questions and answers, create and link a lead and a contact | one new client at most, a whole one; an address is replaced only when the employee chose so |
| CRM request budget (`payment_limiter`, `payment_event_repository`) | one row per webhook: next slot, cooldown | reserve, cool down | slots are spaced, and none falls into the cooldown, whoever calls |
| connection completion (`completion_service`, `completion_repository`, `completion_worker`, `tickets`, `gis_client`) | one operation row with the statuses of three deliveries and two leases | mark in TechPortal, reconcile an unknown mark, send the report to the GIS, append the link | the order mark, report, link; the row tells the truth; every operation comes to a result |
| report photos and object storage (`report_photos`, `object_storage`, `techportal_photo_delivery`, `techportal_photo_adapter`) | objects in S3, files of tickets, copies and links of an operation | prepare, save through the adapters, stage for the GIS, read for the report | the report has every photo; no public link while S3 is private |
| sessions (`session_store`, `techportal_keepalive`, `dependencies`) | sessions in Redis, claims of the keepalive | login, use, logout, keepalive | an unused session ends, an ended one stays ended |
| messenger links (`messenger_links`, `routers/messengers`) | one-time tokens, identities | create, consume, revoke | one active identity per user and per account; a revocation reaches waiting tokens; no transaction waits for ever |
| access to the Telegram bot (`telegram_access`, `telegram_bot`) | a cache of memberships | look up, ask Telegram, store, let in | only members of the groups configured now, by an answer that is current |
| reads for the screens (tickets, map data, catalogue) | caches | read-through | a stale answer is bounded by its TTL |
| employees' and administrators' applications | the browser | screens | they may send any request, again and at once |

How they interact. An HTTP request never talks to the CRM about a payment: it
commits a job and its outbox row in one transaction. A relay publishes the row to
a stream; a consumer reads it, or the recovery loop finds the job in the
database; both call the same executor, which claims the execution lease of the
payment and runs the business rules with the lease as context. Every CRM write
goes through the journal: announced before it is sent, confirmed or rejected
after, `unknown` when its owner disappeared. The CRM calls back through an HTTP
endpoint, which only queues a status read. Retention cleans up behind all of
them; the interlock decides who may run. The completion saga has no queue: the
request that presses the button does what it can, and one worker continues.

What is hard: leases run out while their owners still work; answers of external
systems are lost and requests executed late; processes die between any two steps
of a saga; a callback, a poll, a command, a customer and an administrator change
the same payment; Redis forgets; old and new processes overlap at a deployment.
`PROJECT.json` lists these hazards with the line where each one bites and the
properties that speak of it.

## The modules

```
CrmLedger  <--implements--  PaymentFencing  <--EXTENDS--  PaymentFencingProofs
                                   ^ MCPaymentFencing (symmetry)
PaymentDelivery  (uses the lease that PaymentFencing details) <-- PaymentDeliveryProofs
PaymentLifecycle (one owner at a time, as PaymentFencing proves) <-- PaymentLifecycleProofs
PaymentRetention <-- PaymentRetentionProofs
CompletionContract <--implements-- Completion <-- CompletionProofs

Services = RuntimeMode
         + Sessions          <-- AccessProofs
         + MessengerLinks    <-- AccessProofs
         + TelegramAccess    <-- AccessProofs
         + RequestBudget     <-- CrmProofs
         + ClientResolution  <-- CrmProofs (a step of PaymentLifecycle)
         + ReportPhotos      (a step of Completion)
Services <-- ServicesProofs (RuntimeMode, ReportPhotos, and all seven together;
             EXTENDS AccessProofs and CrmProofs)
```

The payment modules divide the engine by question. `PaymentFencing` shows that a
payment has one effective owner and that a write happens once; `PaymentDelivery`
takes the lease as given and asks whether every job reaches somebody;
`PaymentLifecycle` takes a single owner and at-most-once writes as given and asks
what happens to the payment; `PaymentRetention` asks what may be deleted, and
`ClientResolution` what happens inside the one step that resolves the client.

Common conventions. One database transaction is one action, because the
repository locks payment, job and lease in that order; the code between two
transactions, where a process can be overtaken, is two actions. Time is not
counted in the payment modules and Completion: whatever waits for a moment
(`available_at`, a lease, a cutoff) may come at any later step. Sessions,
RequestBudget and TelegramAccess have a clock, because what they promise is about
durations. What is rare and undone by nothing (a crash, an error, a lease
that runs out under a living owner, a lost answer) counts against `MaxFaults`.
Every bound is a constant marked *bound* where it is declared. Operators whose
comment says *Mutant of* are plausible mistakes in the operator they name; no
specification uses them, they show that a property can fail.

### PaymentFencing and CrmLedger

`PaymentFencing` is one payment with its jobs (`nJobs`, `jobKind`, `jobState`,
`jobAttempt`), its lease (`leaseOwner`, `leaseToken`, `leaseLive`), its journal
(`journal`, `journalToken`), the part of its row that execution looks at
(`recorded`, `status`), the CRM (`remote`), the network (`net`) and each worker's
program counter and local copies (`claimJob`, `claimToken`, `view`, `todo`, `seen`,
`target`).

The row is a set of *columns*; each CRM write belongs to one (`Field`). A column may
take several writes before one `repository.update` records it: the client takes a
lead, a contact, their link, e-mails and phones before payments.py:199. Some of these
are `Optional`, because the resolver may find instead of create; which of them a run
makes, and in which order within the column, is left open here (ClientResolution has
it). A formation fills the columns of `Form` in order; of a payment that is already
paid it completes the comment and the activity only (`Audit`, payments.py:167-176); a
status check of a paid payment makes its own comment and activity (`Paid`,
payment_status.py:49-71), and what no column records (`Unrecorded`). `Plan` says which
columns a run is to fill, `Missing` which of them its own copy of the row (`view`, as
old as its last read) says are empty, `AtColumn` that it has come to one.

The actions follow `_execute`: `Claim` (`claim`), `LoadUnknownWrites`, `RecoverWrite`
and `RecoveryInconclusive` (`recover_write`, one write after the other), `StartWork`,
`FormationExpires`, `FindExisting`, `AnswerFromJournal`, `BeginWrite`, `Send`, the
CRM's `RemoteApply`, `RemoteReject` and `RequestLost`, `NoAnswer`, `ConfirmWrite`,
`RejectWrite`, `StoreResult`, `FormationAsks` (AmbiguousClient, payments.py:194: the
run ends, the payment waits for a choice, no job is queued), `WorkReturns`,
`CheckStatus`, `ReadFails`, and the three ends `FinishDone`, `FinishUnknown`,
`FinishBroken`, all through `finish` with its rule about polling chains
(`FollowUp`). `LeaseExpires` may strike at any moment, also between the last check
of the lease and the POST; `Abandon` is the worker that notices. `AdminRetry`,
`SelectClient` and `Callback` come from outside.

Left to PaymentLifecycle: cancel and resend, whose writes have scopes of their own.
Abstracted: the two forms in which a formation makes its activity count as one write;
in the paid branch, completing an activity that exists already (payments.py:373-376)
is not a write of its own.

`CrmLedger` is what the engine promises: every write happens at most once, only when
the columns it builds on (`Prior`) are recorded and before its own column is; a column
is recorded only when the writes it cannot do without have happened. How many writes
lie between two records is not bounded. `PaymentFencing` implements it with the
identity as refinement mapping (`remote`, `recorded`).

### PaymentDelivery

Jobs and outbox rows, relays in three steps (`ClaimOutbox`, `Publish`,
`Published`, with `PublishFails` and `RelayCrashes`), the stream as entries that
are new, pending, acknowledged or lost, consumers (`Receive` for XREADGROUP and
XAUTOCLAIM), the recovery loop (`PickDue`, `Republish`), and the executor reduced
to `CheckJob`, `Claim`, `ClaimRefused`, `Finish`, `LeaseLost`, `Ack`.
`RedisLosesData` is a restart without persistence. The streams of the two job
kinds are one stream here.

### PaymentLifecycle

The row (`status`, `formed`, `sent`, `audit`, `paidAudit`), the jobs that are
unfinished or stopped, the inbox of callbacks, the journal reduced to the unknown
write, the CRM's document (`doc`, `sends`, `notice`), requests on their way
(`net`) and one run. `process` is `StartFormation`, `ResolveClient` (which may ask,
also when it carries a choice), one `FormStep` per step and `FinishForming`;
`execute_command` is `ExecuteCommand`; `handle` of the status is `ReadStatus`, then
`StoreUnpaid` or `StorePaid`, so that
a callback or a customer can come between the read and the store. The four steps
of the formation before the document are `formed`; their CRM writes are
PaymentFencing's subject and do not appear one by one.

A callback for a document nobody knows yet is a row of PostgreSQL (`inbox`). It expires
24 hours after the first such callback, and `RecoverCallback` then deletes it while the
document is still unknown (payment_event_repository.py:105). The module does not count
the hours: the row may be given up at any time, `asked` is then cleared, and
CallbackNotLost, which speaks of the callbacks that are due an answer, says nothing of
that one. If the document turns up after all, the polling that starts with it finds
the payment (PaidIsRecognised).

### RuntimeMode

Processes are incarnations with a configured mode, a heartbeat task (which in an
API process ends for good with the first error) and a registration. The tasks of a
draining process may still claim a job, if its mode is the one in force. `SetMode`
refuses while anybody is registered or a lease is live. `renew` does not lock the
row of the mode and may commit after its condition was evaluated, so it is
`BeginRenew` and `EndRenew`.

### PaymentRetention

One payment's jobs of one kind, their rows in the outbox (a row lives and dies
with its job), late relays, the stream with two groups, the consumer step by step
(the two lookups of `valid_event` are two steps), job retention (`Pick`,
`Archive`) and stream retention (`Select`, `DeleteAcknowledged`, `Prune`). A page
of the scan is the whole stream, and the two cutoffs, both thirty days by default,
are one.

### Completion and CompletionContract

One operation row, the requests that press the button (`Posts`), the workers, and
the outside world (`marks`, `reported`, `linked`, `late`). Each handler is split at
its awaits: it reads the row, calls a service, writes the row, and nothing checks
the lease when a result is written. `CompletionContract` promises only the order:
mark, report, link.

### Services and its seven modules

`create_application_services` hands each of these its own tables, keys and clients:
they share no state, so their steps commute and a run of their product would only
multiply states. `Services` holds the variables of all seven, and each of its
behaviours runs one (`service`) while the others rest in one of their initial
states; TLC explores the sum. `RuntimeFairness` is RuntimeMode's fairness while it
runs.

**Sessions.** Per session the value in Redis (`stored`: readable, of another schema,
or gone), when the key is due (`expires`), `limit` (absolute_expires_at) and the
cookies. A request is `Get`, `CheckLimit`, `Extend` (EXPIRE), then `Logout` or
`Answer`; anything may happen between them. The keepalive is `Scan`, `Visit` (claim
for `Interval`), `Touch` (the call to TechPortal), `StoreCookies` (the Lua script),
and may fail anywhere (`KeeperFails`).

**MessengerLinks.** Transactions at READ COMMITTED: a statement finds rows
(`todo`), locks them one by one (`LockToken`, `LockIdentity`), looks at each again
once it holds it, and the next check decides. The unique indexes are in `Insert`:
it waits for an uncommitted insert of the same employee or account and fails on an
active one. `DeadlockAbort` is PostgreSQL's detector, `Abort` a lost connection.
An identity is named by the token it was made with. The initial states are all
tables that satisfy OneLinkEach, in `services` the empty ones.

**TelegramAccess.** The updates of one account, handled concurrently: `LookUp` in the
cache, `AskGroup` per group in any order, `StoreAnswer`, `LetIn`. The account joins
and leaves groups, the bot is restarted with another list, Redis drops what is due.
`proved` remembers when a membership was last stored. Access therefore outlives a
membership by the time to live and by the delay between Telegram's answer and its
storing; a slow update may also replace a newer denial by its older permission.

**RequestBudget.** The row (`nextSlot`, `cooldownUntil`) by the database's clock, and
callers that `Reserve`, sleep, `Post`, are `Limited`, retry a read or give up.

**ClientResolution.** The CRM's cards as far as the resolver sees them, what the
payment remembers (`saved`, `asked`, `contact`, `lead`), the attempt (`doing` and its
locals) and the employee's answers. The selected address is written by `ApplyAddress` on
two paths: on the contact the phone found, and on the contact of a lead found by its
address (resolver line 157), each after a comparison of its own (`Compare`,
`CompareLead`) and a second reading of the card. Each call of the resolver that writes to the
CRM or to the payment is an action; `CrmEdit` is the CRM's users, `AttemptFails` a
crash (the job and its choice remain) or an error (the next job has no choice).

**ReportPhotos.** A request from `Submit` over `Prepare`, `BeginReport`, the adapters
(`SavePhoto`, one photo a step) and `StagePhoto` to `RecordPhotos`, with `SaveFails` at
every photo; then the mark and the report as one step each. `Restart` changes the
settings of S3 and the adapters between any two steps.

## The runs

All runs finish in about three minutes or less each, with two workers.

| run | instance | what it shows |
|---|---|---|
| `fencing` | 2 workers, 5 columns (client, document, activity; the paid comment and what no column records), 5 writes (lead, optional, and contact of the client, document, activity, paid comment), 4 jobs, 3 claims, 1 retry of each sort | AppliedAtMostOnce, RecordedIsApplied, WorkNotLost, NoPollFork, and that the engine implements CrmLedger |
| `fencing_forgotten` | no retries | *violated*: FormationNotForgotten, see below |
| `delivery` | 2 relays, 1 consumer, 1 recovery loop, 2 jobs, 2 entries, 1 fault, Redis may forget | AckedIsFinished, PublishedIsReadable; under fairness EveryJobFinishes, EveryEntryAcked |
| `lifecycle` | every command, an ambiguous client, expiry, 5 jobs at a time, 1 command, 2 faults, 1 retry of a failed job and none of an unknown write | CallbackNotLost, PaidIsFollowedUp, FinalStaysFinal, FinalIsSilent, PaidIsRecognised, PaymentSettles |
| `lifecycle_selection`, `lifecycle_resend` | the part of it that matters | *violated*: SelectionKept, ConfirmedWasSent |
| `retention` | 2 jobs, 2 entries, 1 fault | EventsAreRecognised, DeletedIsDone, DamageIsOnRecord, GenerationsAreUnique, EntriesLeave |
| `completion` | 2 presses, 1 worker, 2 faults | StatusesAreTrue, SentInOrder (the contract), UnknownIsSettled, ReportSettles |
| `completion_repeat`, `completion_crash` | | *violated*: MarkedOnce, OperationSettles |
| `services` | see below | per service: LeasesInMode, OldWorkersStop; IdleSessionsEnd, EndedStaysEnded; OneLinkEach, RevokedTokensDie, TransactionsEnd; OneNewClient, ClientIsWhole, OverwriteIsChosen; SlotsAreSpaced; PhotosReachGis, LinksArePublic; MembersOnly |
| `resolution_apply` | 2 contacts, 2 leads | *violated*: AnsweredOnce |

The instance of `services`: an API process and two worker incarnations of either
mode with 2 faults; one session, two requests and one keepalive on a clock up to 4
(idle 2, absolute 3, so both limits pass); one employee and one account with two
tokens and three transactions (two that compete and one before or between them);
one contact beside the one the payment makes, two leads, one edit and one failed
attempt; two callers on a
clock up to 9 with spacing 2 and cooldown 3 (several slots and a 429 between them);
two presses with up to two photos each and one restart; two groups, two updates and
one restart of the bot on a clock up to 3 with a cache of 2. About 502 thousand
states, 349 thousand in `delivery`. Two contacts with two leads are in
`resolution_apply`; the theorems of `CrmProofs` hold for any number, and their inductive
invariant was tried with TLC on two contacts, two leads and two edits before it was proved.

Why the bounds are enough. The interesting cases need an owner and its successor
(two workers, or one worker and a request that outlives it), a job and the one
that follows it, a write whose answer is lost and the next one, an entry and its
duplicate; each instance has these and one or two faults to put anywhere. In
`fencing` three claims let two leases run out and a worker come back as its own
successor, and one retry of each sort makes both the retry and the last failure
happen; its client takes two writes, so a run may be overtaken between two writes of
one column, and 1.6 million states say so. In
`lifecycle` (702 thousand states) an unknown write stops its job at once: the next job,
or the administrator's retry of this one, settles it. With one retry of it the same
properties hold in 1.2 million states; the theorems are for any number.
In PaymentLifecycle a further question after the employee chose counts as a fault, since
nothing bounds how often the CRM's users make the client ambiguous again.

What a third worker, transaction, job, card, photo or update could add is answered by
the theorems for every safety property of every passing run; for the liveness
properties it remains an assumption. Completion is checked with one
worker because `compose.yaml` starts one, and proved for any number.

Type invariants are part of the runs `lifecycle` and `services`; in the others they
are proved (`TypeCorrect`) and not checked again.

The symmetry of `fencing` is over workers that no definition tells apart, and the run
has no liveness property. Deadlock is not checked: a payment or an operation that
is done leaves nothing to do, and bounded counters stop a run in the end.

Fairness. Loops that the source repeats for ever (`while not stop.is_set()`) are
weakly fair, handlers that run go on, external services answer unless a fault is
counted, and clocks advance. In RuntimeMode a process beats, exits or counts as
gone, and a payment's renewal ends or its lease does, which is one weakly fair
disjunction each. A link transaction that runs goes on: PostgreSQL grants a free
row and aborts one of a deadlock. Strong fairness appears once, for the claim of the
oldest job in PaymentLifecycle: `due_jobs` orders by `available_at`, and a poll
goes behind what is waiting, so the oldest job gets the lease if the lease is free
again and again. Employees, administrators, the customer, crashes and job
retention are not fair: they may never act. Faults are finite by their bound,
which stands for the assumption that they cease.

## The theorems

Checked by TLAPS, for every number of workers, jobs, writes, requests, entries,
transactions, callers, cards, photos, updates and faults and every duration; the
assumptions are the `ASSUME`s of the modules (disjoint sets, natural bounds, positive
durations). Every safety and action property of a passing run is a theorem. Each one
is about its module's own specification; for the seven services `ServicesAreSafe`
says the same of `ServicesSpec`, what the run explores. Each invariant below was
checked by TLC as an invariant of a run before it was proved.

`PaymentFencingProofs`. AppliedAtMostOnce is not inductive. `IInv` adds what makes
it so: tokens are granted once and the newest belongs to the owner of a running
job (`ClaimsInv`); a worker's copy of the row is never ahead of the row, and not
behind it while nobody claimed since (`ViewInv`); the newest worker knows every write
whose outcome is unknown, and once it works there is none but the one in its hand
(`UnknownInv`); an announced write that was not sent, or was refused, has not happened
and is not on its way (`AnnouncedInv`), and a request on its way belongs to the
in-flight journal row with its token (`RequestsInv`); what a worker believes to have
happened has happened (`SeenInv`); a write is announced only when what it builds on is
recorded, and unknown only while its own column is not (`WritesInv`); only a payment
with a document is polled or paid, only one without waits for a choice (`DocumentInv`);
and a run that completes the job of an open payment without a document leaves another
job, the one the choice queued (`SuccessorInv`). One lemma per action shows that it is
kept. From it follow `TypeCorrect`, `AtMostOnce`, `RecordsAreTrue`, `OwnerHasJob`,
`PaymentNotForgotten`, `PollsNeverFork` and, step by step, `LedgerImplemented`:
`ColumnIsNext` says that a column an owner has come to is empty and everything it
builds on is recorded, which is the guard of both actions of the ledger.

`PaymentDeliveryProofs`. `IInv` ties what a relay has sent to the row it claimed, an
entry's acknowledgement to the end of its job, and the executor's memory of a job
to the job. From it follow `AcknowledgedAfterWork` and `PublishedIsDelivered`: a row
that says published has an entry that will be read, or one that Redis lost.

`CompletionProofs`. `IInv` ties every program counter and every late request to the
outside world (`HandlersKnow`, `LateInOrder`, `WrittenInOrder`); `RowIsTrue` and
`ContractImplemented` follow.

`PaymentLifecycleProofs`. None of the module's properties is inductive: they speak of
the row, and what endangers them is a run that holds an older copy of it. `IInv` says
what a run may believe. `OwnerRuns`: a run has its job, and the job is running while the run
goes on. `RunKnows`: what the run read of the status is still so, apart from the
employee's choice of a client. `JournalKnows`: no run goes on before an unknown write
is settled, so a payment with one is not final, and a request on its way is unknown or
believed to be executed. `CheckedHasDocument`: only a payment with a document is
checked, or paid. `DocumentKnown` ties the journal to the document in the CRM,
`EarlyCallbacks` the inbox to a document that is not stored yet and a callback the inbox
did not give up. From it follow `TypeCorrect`, `CallbackKept`,
`PaidFollowed`, and, step by step, `FinalStays` and `FinalSilent`.

`PaymentRetentionProofs`. Generations stay unique because the newest job is always
in the table, so the generation of a job is its number (`JobsInv`); entries name
jobs that exist (`StreamInv`), an entry chosen for deletion stays deletable
(`EligibleInv`), and what the consumer believes of the entry it holds stays true
while jobs move to the archive (`HeldInv`). From it follow `PublishedIsRecognised`,
`OnlyDoneIsDeleted`, `DamageStaysOnRecord` and `GenerationsNeverRepeat`.

`AccessProofs` has three services. *Sessions*: a key is dropped in time and was never
told to live longer than the idle time after a request (`KeysAreDue`); a request that
extends one does so by no more (`WorkIsKnown`). From it follow `IdleSessionsAreOver` and
`EndedForGood`. *MessengerLinks*: a transaction past its check holds its token, which is
open, and nobody else has its employee or account once it has inserted
(`ConsumesHold`); only live transactions hold rows, as they found them (`LocksAreHeld`);
a token in the making is nobody else's (`CreatesAreFresh`); a revocation holds every
token that was open when it began, or finds it dead (`RevokesReach`). `LinksAreUnique`
and `RevocationReaches` follow. *TelegramAccess*: `AccessIsProved` rests on
`AnswersAreProved`, a cached permission lives no longer than the membership it rests on
is remembered.

`CrmProofs`. *RequestBudget*: the row remembers the last slot and the last 429
(`RowRemembers`), whatever the callers do; `BudgetIsKept` follows. *ClientResolution*:
`RInv` says what the worker knows at each place of the resolver (`WorkerKnows`): that it
searches only while nothing is remembered, writes the address only on a card that had
none or another one the employee agreed to replace, on the lead's path too, makes a
contact only for the remembered lead or one that was picked, and finishes with a
contact that is on the lead. `SavedKnows` and `MadeOnce` tie the cards
that were made to what is remembered, which an attempt that fails leaves in place;
`CrmHolds` keeps the searches to cards that others made. One lemma moves the worker
(`Moved`), one lets it ask (`Asked`), one lets it remember (`RememberedFirst`); each action
is an instance. From `RInv` follow `ClientMadeOnce`, `ClientWhole` and
`OverwritesAreChosen`.

`ServicesProofs`. *RuntimeMode*: `RuntimeInv` adds to MembersInMode and LeasesInMode that
an open renewal is of a lease that is live or ran out (`RenewalsAreKnown`).
*ReportPhotos*: PhotosReachGis speaks of the row, which is written after the last
photo; `PhInv` says how far each request has come before it. One request owns the
operation (`OwnerKnows`), a copy that is noted is in the bucket (`CopiesAreStored`), and
either the adapter of public links or the staging, never both, has copied all photos
up to the current one (`SavedSoFar`, `StagedSoFar`), because the settings change only
when every request is lost. `GisGetsThePhotos` and `LinksArePublicOnly` follow.
*Services*: a step of one service is none of another, so the composition implements
each service's specification (`ServicesAreSeparate`), and with it every theorem of
the seven: `ServicesInvariance`, `ServicesTypeCorrect` and `ServicesAreSafe`.

Only model-checked: the liveness properties (EveryJobFinishes, EveryEntryAcked,
PaidIsRecognised, PaymentSettles, EntriesLeave, UnknownIsSettled, ReportSettles,
OldWorkersStop, TransactionsEnd): liveness under fairness and ENABLED are out of the
prover's reach. The properties of the runs that expect a violation are refuted by
their runs, and no theorem speaks of them, but that `FinalSilent` takes
ConfirmedWasSent, and nothing else, as a condition.

What the proofs changed. Two properties failed in the attempt to prove them, on
instances larger than those of the runs, and TLC then showed the counterexample.
PaidIsFollowedUp had asked for a job that is under way or a stopped status check; with
no retries left the last job can be a stopped formation or command (see the
observations). OneNewClient had taken the lead of a contact for one that was picked
in the end; a contact may have been made for the remembered lead that nobody picked,
when the attempt then failed and the CRM changed. Both now say what is so.

## Where code and documents disagree

1. **FormationNotForgotten** (`fencing_forgotten`, payment_event_repository.py:386).
   Acceptance row T18 wants the missing steps to go on separately from the status
   check. A status check that uses up its retries fails the payment while the
   formation is queued; the formation then ends without doing anything, and the
   administrator's retry brings back the status check only.
2. **SelectionKept** (`lifecycle_selection`, payments.py:194). T20: the chosen
   client is not lost in a failure. After a crash of the run that asked, it asks
   again and the choice is dropped.
3. **ConfirmedWasSent** (`lifecycle_resend`, payment_write_recovery.py:84). Recovery
   of a resend finds the fields of the first send request and takes them for
   proof.
4. **MarkedOnce** (`completion_repeat`, completion_service.py:88). A repeated press
   that finds `marking` marks again, blindly.
5. **OperationSettles** (`completion_crash`, completion_repository.py:98). An
   operation left `prepared` or `marking` by a dead process is found by no query.
6. **AnsweredOnce** (`resolution_apply`, payment_client_resolver.py:105). The employee
   is asked which address to use and chooses the selected one. With two leads at
   that address the resolver asks for the lead before it has written or remembered
   anything; if the lead they pick belongs to the same contact it asks for the
   address again. Using the selected address never ends in a client then.

The properties that hold are stated around these: FinalIsSilent assumes
ConfirmedWasSent, ReportSettles and UnknownIsSettled allow for what a repeated
press may do, WorkNotLost speaks of some job and not of the formation, and of payments
that do not wait for the employee's choice: of those the status is what is left to see.

## Observations without a run

* A cancel that dies between deleting the document and storing the status reads a
  document that is gone when it is repeated, and fails the payment in the end
  (payments.py:310).
* The inbox row of an early callback is refreshed by the callbacks that follow it, but
  its `expires_at` is not (payment_event_repository.py, `ON CONFLICT` of the insert): a
  callback that comes just before the end of the first one's day is given up with it.
* A cancel that waits while the payment fails is completed without effect
  (payments.py:301).
* An unreadable answer to the mark becomes `completion_failed` although TechPortal
  may have marked (completion_service.py:99).
* A reconciliation that outlives its lease clears the lease of a delivery under
  way; the row is then claimed by nobody (completion_service.py:122; the case
  `LeaseDropped` of ReportSettles).
* A renewal evaluated before the end of its lease and committed after a mode switch
  leaves a live lease in the old mode (the case `outlived` of LeasesInMode).
* The heartbeat of an API process ends with its first error and is not restarted
  (main.py:72): the process goes on unregistered.
* The retry of a stopped status check can start a second polling chain
  (payment_event_repository.py:493).
* Consuming and revoking a messenger link lock in opposite orders
  (messenger_links.py:73 and 146): one of the two may be aborted by PostgreSQL, and
  nobody repeats it. TransactionsEnd says that neither waits for ever.
* Two links that are created at once leave two open tokens (messenger_links.py:57):
  neither sees the other's. Only one of them can be consumed.
* A payment may get a contact for one lead and a second one for another: the one it
  found is remembered and its contact made, the attempt fails, another card turns up,
  the employee is asked and picks a different lead; or a selection is lost in an error
  and made differently (OneNewClient allows for both: one contact, and one for every
  lead that was picked).
* A cancel that finds the document paid stores that and makes the comment and the
  activity itself (payments.py:310). If it fails for good there, and the formation
  beside it too, the paid payment is left with stopped jobs, none of them a status
  check; the comment and the activity wait for an administrator to retry any of them.
* An address that CRM users enter between the comparison and the write, or between
  two attempts, is overwritten unasked (payment_client_resolver.py:137).
* `begin` compares the texts and the object of a reused key, not the photos, and after
  `completion_failed` the same key can never succeed, although the application keeps
  it (completion_service.py:62, src/frontend/src/App.tsx:862).
* Files that the TechPortal adapter has attached stay at the ticket when a later
  photo fails.
* EXPIRE uses a time to live computed before it: a session may outlive its absolute
  limit by the delay between the two, at the end of which the next request ends it.
* A keepalive whose upstream call failed is not tried again for a day
  (session_store.py:89).

## What is not modelled

The screens, the maps and their caches, tickets for the screens and the catalogue
(reads with caches that may be stale, no state that outlives a request), roles and
permissions (pure functions of a session), health, telemetry and timings (read-only
observation), configuration, migrations, deployment. Within the modelled parts:
amounts and texts, the idempotency key of a payment (creation is the initial
state), the backfill of payments older than the queue, the cursors of retention over
several pages, several operations of one ticket in Completion, the length of the day
after which an early callback is given up, e-mails and phones that are added to a card
in the CRM (in PaymentFencing they are writes of the client's column; what is in the
list, which is read and written as a whole, is left out), decoding of images, names of objects,
profiles of messenger users, the pause before a repeated read of the CRM, and the
order in which services are constructed and closed.

## The plan

1. *Done*: PaymentFencing with CrmLedger; PaymentDelivery; PaymentLifecycle;
   PaymentRetention; Completion with its contract; RuntimeMode; Sessions;
   MessengerLinks; TelegramAccess; RequestBudget; ClientResolution; ReportPhotos; proofs
   of every safety and action property the passing runs check.
2. *Proofs*: that PaymentLifecycle's single run is a sound view of PaymentFencing; the
   safety half of the liveness properties (what each of them waits for is always
   possible).
3. *Composition*: ReportPhotos inside Completion and ClientResolution inside
   PaymentLifecycle, on instances small enough for the product.
4. *Idempotent requests*: generation and fingerprint rules of the payment's key.
