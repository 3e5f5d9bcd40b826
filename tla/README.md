# PetAd backend: a TLA+ model

The backend (NestJS, Prisma on PostgreSQL, BullMQ on Redis) lets people adopt
pets or take them into temporary custody, holds money in escrow meanwhile, keeps
a trust score per user, and writes what happened to an event log from which an
administrator can rebuild rows. Paths below are relative to the repository;
modules, configurations and proofs are in this directory.

What makes the program hard is not its arithmetic but *where its statements
commit*. A handler opens an interactive Prisma transaction, checks a status it
read, and then calls other services, some of which use the transaction's client
and some a connection of their own. What the first kind writes is invisible
until the commit and rolls back with it; what the second kind writes is visible
at once and survives. Between any two awaits every other request may run.

## Components

| component | state | operations | calls |
|---|---|---|---|
| custody agreements (`src/custody`) | `custodies.status` | create, return, report violation, cancel | status machine, escrow, trust score, event log, notification queue |
| escrows (`src/escrow`) | `escrows.status` | create (inside the custody's transaction), release, refund | adoption and pet rows, event log |
| trust scores (`src/users`) | `users.trustScore`, profiles | `updateTrustScore`, profile updates | event log |
| adoptions (`src/adoption`) | `adoptions.status` | request, approve, reject, complete | status machine, event log, notification queue |
| status machines (`src/*/services/*-state-machine*`, `src/common`) | none | two transition tables | |
| event log (`src/events/events.service.ts`) | `eventLog` rows | `logEvent`, readers | |
| event ledger (`src/events/event-ledger.service.ts`) | numbered events, advisory locks | append, next number, integrity check | |
| reducers (`src/events`, `src/admin/services`) | none | folds from events to a status, a score or an availability | |
| event replay (`src/admin`) | rows it corrects, audit entries | dry and live replay of one aggregate | reducers, every row above, `LoggingService` |
| pets and availability (`src/pets`) | pets and owners | create, update, remove, compute availability, verify it against the events (a read) | rows of adoptions and custodies, reducer of availability |
| notification queue (`src/jobs`, `src/email`) | jobs in Redis | enqueue, process, retry, stall | mail provider, `LoggingService` |
| documents, Cloudinary (`src/documents`, `src/cloudinary`) | `Document` rows, remote files | upload | adoptions, Cloudinary |
| accounts (`src/auth`, `src/users`) | `users` rows | register, log in, delete a profile, upload an avatar | Cloudinary |
| connection pool (`src/prisma`) | connections lent | transactions and single statements of every handler | PostgreSQL |
| movement timeline, health, guards, filters, logging | none of their own | reads and wiring | |

The hard behaviour, by kind (`PROJECT.json` lists every place under "hazards"):

* **Interleaving.** Every `findUnique` followed by an `update`: the update waits
  for the row and then overwrites whatever it has become.
* **Partial failure.** Events are inserted outside the transaction they report on.
* **Time limits.** An interactive transaction that outlives its limit is rolled
  back by Prisma while its handler still awaits a statement elsewhere.
* **Order.** An event logged after its commit can be overtaken.
* **Waiting.** A handler holds row locks (and pool connections) while a nested
  transaction asks for more.
* **Retries and crashes** of mail jobs, whose sending is not transactional.

## Modules

| module | models | abstract specification |
|---|---|---|
| `Lifecycle` | status enumerations and the two transition tables | |
| `CustodyService` | custodies, their escrows, trust scores, the events of all four | `DepositContract` |
| `AdoptionService` | adoptions, their escrows, owners of pets, their events | |
| `EventLedger` | numbering under advisory locks | `SerialLedger` |
| `EventReducers` | the reducers the replay uses | |
| `EventReplay` | the replay beside `CustodyService` (it extends it) | |
| `NotificationQueue` | mails from the handler to the provider | |
| `Shelter` | pets, composed of one `AdoptionService`, one `CustodyService` and removals | `PetRegister` |
| `ConnectionPool` | the nesting of transactions and statements over one pool | |
| `UserAccounts` | registrations, tokens, deletions, avatars | |
| `DocumentsService` | uploads, beside the accounts (it extends `UserAccounts`) and adoptions they refer to | |
| `CustodyServiceProofs`, `AdoptionServiceProofs`, `EventLedgerProofs`, `EventReplayProofs`, `NotificationQueueProofs`, `ShelterProofs`, `ConnectionPoolProofs`, `DocumentsServiceProofs` | theorems about the module of the same name | |
| `MC*` | values of the constants for TLC | |

### How code becomes actions

A request is a process with a control state `pc[r]`. The read that opens a
handler, with all checks on its result, is one action (`Begin...`); each awaited
statement after it that changes something another request can see is one more.
`rows` hold what is *committed*. An `update` inside a transaction takes the row
lock (`custodyLock`, `escrowLock`, `lock`) and the `Commit` writes the row and
frees the lock; `logEvent` and `updateTrustScore` write at once. A request's
custody or adoption (`on[r]`) is chosen by its client and never changes.

Failures are actions of their own, counted in `faults` up to `MaxFaults`: `Fail`
is a statement that throws or a dead process (open transactions roll back),
`...TxExpires` a transaction that is rolled back *under* a running handler,
`CommitExpired` / `UseExpired` the exception at its next use.

`CustodyService`: `BeginCreate`, `Insert`, `LogStarted` are `createCustody`
(`src/src/custody/custody.service.ts`); `BeginSettle`, `Update`,
`LogSettlement`, `LogPetCancelled` and `Commit` are the common shape of
`returnCustody`, `violationCustody` and `cancelCustody`, the tables `Target`,
`TargetEvent`, `EscrowTarget`, `Delta` hold what differs; `EscrowUpdate`,
`LogEscrow`, `EscrowCommit` are `releaseEscrow` / `refundEscrow`
(`src/src/escrow/escrow.service.ts`), called without the outer transaction's
client; `ReadScore`, `WriteScore`, `LogScore` are `updateTrustScore`
(`src/src/users/users.service.ts`). The code creates custodies as PENDING and no
operation activates one, so ACTIVE custodies are those of the seed (`Init`).

`AdoptionService`: `BeginRequest` ... `CommitRequest` are `requestAdoption`;
`BeginDecision` ... `CommitDecision` are `approveAdoption` and `rejectAdoption`;
`BeginComplete`, `WriteStatus`, `LogStatus` are `updateAdoptionStatus`, which has
no transaction; `BeginPayout` ... `CommitPayout` are release and refund of an
adoption's escrow, which call on three rows. `Operator` stands for the screening
step and the blockchain monitor the documentation names and the code lacks
(REQUESTED to PENDING, APPROVED to ESCROW_FUNDED); without it approvals and
releases would be unreachable. It is marked external.

`EventLedger`: `Lock`, `ReadLatest`, `Insert`, `Commit` are the statements of
both `appendEvent` and `getNextSequenceNumber`; `Hash` is `hashtext`, any
function, so ids may collide. The `sequenceNumber` column is assumed: the
repository's Prisma schema does not declare it.

`EventReplay`: `BeginReplay`, `ReadEvents` (all of the stream or the prefix
`upToSequence` selects), `ReadRow`, then `ApplyUpdate`, `WriteAudit`,
`CommitReplay` for a live replay with a difference, or `Report` otherwise.
`ReportFails` is the swallowed failure of `LoggingService.log`.

`NotificationQueue`: a handler enqueues before its commit (approvals and
rejections, the set `Inside`) or after it (completions, new custodies); `Take`,
`Send`, `SendFails`, `LogFailure`, `Finish` are the worker and the processor
with the mailer; attempts, back-off, locks and stalls are BullMQ's, modelled
from the options the code passes, and marked external.

`Shelter` instantiates the two services (`A`, `C`) with the pets they share and
adds what they meet in the database. `CustodyChecks` splits the read of
`createCustody` into its three searches (`custody.service.ts:45-81`), between
which an adoption may be requested or the pet removed. `CreatePet` and the
removal are `PetsService`; a removal is one `delete`, but PostgreSQL locks the
pet first (`TakePet`) and then each adoption and custody the foreign keys of
`migrations/20260224090945_init` cascade to (`TakeDependent`), and only
`CommitRemove` lets anybody see it. A statement of the services that would
update a row the removal has, or insert a row that refers to its pet, waits
(`AdoptionWaits`, `CustodyWaits`); once the row is gone it throws
(`AdoptionRowGone`, `CustodyRowGone`). A release takes adoption then pet, so the
two can wait for each other: `BreakDeadlock` is PostgreSQL ending one of them.

`ConnectionPool` forgets what statements do and keeps how they nest: for each
handler the number of connections it has after each step (`ReturnCustody`,
`CancelCustody`, ... in `Profile`). `Take` and `Give` are a connection taken and
given back, `Expire` the time limit of a transaction, which gives the connection
back under a running handler, `UseExpired` the exception at the handler's next
use of it (not while it still waits for a connection), and `Fail` any other
exception, Prisma's limit on waiting for a transaction (`maxWait`)
included. pg sets no limit for a single statement, so none is modelled.

`UserAccounts`: an account id is the outcome of one registration (`Register` is
the search, `CreateUser` the insert after `bcrypt`). A token is not stored: it is
the fact that its account has ever existed, since `JwtStrategy` trusts the
payload. Log in therefore changes nothing. `ByAdmin` says who passes
`checkOwnership` (see the divergences). In `DocumentsService` `Begin` holds the
checks of `uploadDocuments`, `UploadFile` one turn of its loop, `Record` the
transaction, which inserts all rows or none; every step may fail, and both
Cloudinary and the database may do what they were asked while the answer is lost.

## Runs

Bounds are small because the interesting cases need few actors: a race needs two
requests on one row, overwriting a third. Two to three requests and one to three
faults reach every action and every disjunct (the coverage is checked), and each
property below is broken by a small plausible bug ("mutants" in `PROJECT.json`)
within the same bounds.

| run | instance | shows |
|---|---|---|
| `custody` | 2 custodies of one pet, different holders (scores 10 and 98, so that both limits of the clamp are met), 2 requests, 2 faults | `ClosedIsSettled`, `EventBacked` whatever fails; `DepositMatchesOutcome`, `LogFollowsRow`, `ScoreFollowsLog` without failures; every request ends; refinement of `DepositContract` |
| `adoption` | 2 adoptions of one pet, from an empty database or one seeded with a funded adoption, 3 requests, 1 fault | events are inserted before the rows they report can be seen (`LogAheadOfRows`); an event of what never happened is of a failure or of a refused release, and none is lost or doubled (`OrphansAreFailures`); escrow, adoption and owner change in one step (`AtomicRelease`); no deadlock over the three rows of a release; every request ends |
| `ledger` | 3 aggregates on 2 keys (two collide), 3 calls, 2 faults | numbers are 1, 2, 3, ... ; a number handed out is the next one at that moment (`HandedOutIsNext`); every call ends; refinement of `SerialLedger` |
| `replay` | 1 custody, 2 requests, 1 replay, 1 fault | what a replay writes is in the log and audited in the same commit; without failures it closes no custody over an unpaid deposit (`ReplayKeepsSettled`); a whole-stream replay leaves the row the last event names; everyone ends |
| `notifications` | 2 mails (one enqueued inside its transaction), 2 slots, 2 attempts, 1 stall, 3 faults | at most attempts + stalls sendings; every job ends |
| `shelter` | 1 pet, listed or still to be created, 1 adoption with 2 requests, 1 custody with 1 request, 1 removal, a fault in each service | no row outlives its pet; a release pays only as it hands the pet over; the two services agree on who is available; the deadlock of release and removal is broken and everyone ends; refinement of `PetRegister` |
| `pool` | 2 requests of every kind, pools of 1 to 5 connections | whatever expires or throws, a pool larger than requests * (depth - 1) never starves; every request ends even on a pool of one |
| `documents` | 2 registrations of one e-mail, 2 uploads of up to 2 files by anybody, an avatar, deletions of accounts and of the adoption | one account per e-mail; no row refers to nothing; an upload is recorded as a whole or not at all |

In `shelter` two requests on one adoption beside one removal are what the
deadlock and every wait need; a second pet would share no row with the first. In
`pool` 5 is the smallest size that counts as roomy for two requests of depth 3,
and 1 to 4 are the sizes on which they starve each other until a limit runs out.

Four runs end in a counterexample, each against a sentence of the repository:

| run | sentence | what the code does |
|---|---|---|
| `custody_terminal` | "terminal states are immutable" (`custody-state-machine.service.spec.ts:146`) | two settlements read ACTIVE; the second overwrites the first |
| `custody_score` | a return "updates trust score positively" (`custody.controller.ts:91`) | read and write of the score are separate; one of two updates is lost |
| `adoption_two_active` | "Throws ConflictException if the pet ... already has an active adoption" (`adoption.service.ts:43`) | two requests search before either commits |
| `replay_score` | "so delta events apply on top of the correct baseline" (`event-replay.service.ts:314`) | deltas are added to a score that contains them |

**Deadlock** is checked in every run but `documents`; the explicit last disjunct
of each `Next` (`Quiet`, `AllQuiet`) is the state in which every request has been
answered. `documents` really may stop: no registration, upload or deletion has
to come, and nothing in it waits.

**Fairness** is weak fairness of a handler's next statement, nothing else: Node's
event loop resumes a handler whose statement has been answered, and PostgreSQL
answers a statement that waits for no lock. Weak fairness suffices for lock waits
because a run has finitely many requests, so a lock is released and from some
moment stays free. No request has to arrive, no fault has to happen, the operator
need not act. In the queue, BullMQ's timers (back-off, stall check) and a worker
that takes a waiting job when a slot is free are fair. `Shelter` asks for less,
weak fairness of all answered statements together (`Answered`): requests are
finite in number and in length. It includes the deadlock detector of PostgreSQL.
`ConnectionPool` needs more, strong fairness of a request's next step, because
others may take the connection it waits for again and again; the queue of
pg.Pool is first come, first served. The timer of a transaction is weakly fair.

## Proofs

For every set of custodies, adoptions, users, pets, requests, removals, mails,
aggregates and calls, any hash function, any start scores and any bound on
failures, TLAPS checks that every invariant and every action property of the
passing runs holds, and that the three abstract specifications are implemented:

| module | theorem | statement |
|---|---|---|
| `CustodyServiceProofs` | `TypeCorrect` | statuses are in the schema, scores stay in 0..100 |
| | `ClosedCustodyIsSettled` | a closed custody with a deposit has it paid out |
| | `SettlementsAreLogged` | no committed settlement is missing from the log |
| | `ServiceImplementsContract` | the service implements `DepositContract` |
| | `OutcomeDecidesDeposit` | without failures custody and deposit have the same outcome |
| | `LogOrderIsRowOrder` | without failures the last settlement event is the row's |
| | `ScoreIsLogged` | without failures the score of a single custody's holder is the last one logged |
| `AdoptionServiceProofs` | `AdoptionTypeCorrect` | statuses, events and locks are well typed |
| | `RowsNeverAheadOfLog` | what is decided in a transaction is logged before it can be seen |
| | `OrphansCostFailures` | every event of what was never committed is of a failure or of a refused release |
| | `ReleaseIsAtomic` | escrow, adoption and owner change in one step, owners in no other |
| `EventLedgerProofs` | `LedgerTypeCorrect` | numbers and locks are well typed |
| | `StreamsAreConsecutive` | every stream is numbered 1, 2, 3, ... |
| | `HandedOutNumbersAreNext` | a number handed out is the next one at that moment |
| | `IntegrityCheckPasses` | `detectGaps` finds nothing |
| | `ServiceImplementsSerialLedger` | the service implements `SerialLedger` |
| `EventReplayProofs` | `ReduceIsLast` | a reducer gives the status of the last event it knows |
| | `ReplayTypeCorrect` | replays beside the service are well typed |
| | `ReplayKeepsEventBacked` | `EventBacked` survives replays |
| | `ReplaysKeepDeposits` | without failures replays close no custody over an unpaid deposit |
| | `CorrectionsAreAudited` | a corrected row and its audit entry commit together |
| | `ReplaysConverge` | without failures a whole-stream replay leaves the row its last event names |
| `NotificationQueueProofs` | `QueueTypeCorrect` | attempts and stalls stay within their limits |
| | `SendsAreBounded` | no mail is sent more often than attempts + stalls |
| `ShelterProofs` | `ShelterTypeCorrect` | rows of both services and pets are well typed |
| | `RowsHavePets` | no adoption and no custody outlives its pet |
| | `SearchesAgree` | the two services agree on who is available |
| | `PaymentHandsOver` | a payment is released as the pet is handed over, or alone if its adoption was gone |
| | `ShelterImplementsRegister` | the shelter implements `PetRegister` |
| `ConnectionPoolProofs` | `PoolTypeCorrect` | at most 3 connections a request |
| | `ConnectionsReturn` | only a running request has connections, none above its nesting level |
| | `RoomyPoolIsEnough` | with N requests and more than 2N connections somebody can always go on |
| `DocumentsServiceProofs` | `DocumentsTypeCorrect` | accounts and uploads are well typed |
| | `EmailsAreUnique` | one live account per e-mail |
| | `NothingDangles` | adoptions, documents and avatars refer to what is there |
| | `UploadsAreAtomic` | an upload is recorded as a whole or not at all |

The assumptions are those the modules name (`ConstantsAssumption` of each
service, `LedgerAssumption`, `AdminAssumption`, `QueueAssumption`,
`ShelterAssumption`, `PoolAssumption`, `AccountAssumption`,
`DocumentAssumption`): the functions among the constants have their types, the
"nobody" values are not members of the sets they stand beside, a job has at least
one attempt, administrators are seeded and seeded accounts have different
e-mails. `ShelterAssumption` is that of the two services with the shelter's
constants, and that who may create a pet is a user. `PoolAssumption` and the
theorem `OrphansCostFailures` ask for a finite set of requests, because they count
them.

### Why the invariants are strengthened

**Custodies.** `ClosedIsSettled` speaks about committed rows only; what makes it
true is where requests are. `ControlOK` says that a request is in the part of a
handler that belongs to its operation. `RowsOK` says what a request may rely on
since its checks: the row it settles exists, the id it creates is free. `PaidOK`
adds that a request past the inner transaction has its escrow settled. No step
deletes a row or leaves `EscrowSettled`, so other requests cannot disturb this.
The outer commit then closes a custody whose deposit is paid out, even when its
transaction expired meanwhile (in which case it does not close it). For the log,
`LogsOK` says what a request has logged by the time it reaches each control
state, and `LogsGrow` that no step removes an event. `RowTypes` is the part of
the types these proofs need without the scores, because a replay computes a
score by a recursion.

The three properties conditional on `faults = 0` need to know who has a lock.
`LockOK`: a request has the row lock of its custody exactly from its update to
its commit, and that of the escrow within the payout; an expired transaction
breaks the first half, which is why the properties are conditional. From it two
requests are never both past the update of one custody, and `OutcomeOK` (who is
past the payout has paid its own way; where nobody is, escrow and custody agree),
`OrderOK` (who has announced a settlement has announced the last one; where
nobody has, the last one is the row's) and `ScoreOK` (the score is the last one
logged, except between a write and its event) are inductive one after the other.
`LastSettlement` is a CHOOSE over the log; lemmas say what an append does to it.

**Adoptions.** The same `ControlOK`, `RowsOK` and `LogsOK` for the handlers of
`AdoptionService`. A release relies on the status it read with the escrow
(`seen`), on rows that are never deleted, and on having logged both of its
events when it reaches its commit. `OrphansAreFailures` counts: events logged
against requests that reported something they committed or may still commit. It
is not inductive, because an expired transaction is a failure now and costs its
request the commit only later; `Account` therefore counts the requests whose
transaction has expired without their knowing (`Doomed`) on the side of the
events. A step moves one request only, so each step is one entry in the account
of one adoption (`Entry`), and `EntryKeeps` does the sum.

**Ledger.** `Fresh` says that the number a call computed is still the next one
*as long as it holds its transaction*: a call that lost the lock may hold a stale
number but can no longer commit it, nor answer with it.

**Replays.** `Reduce` and `ReduceScore` are folds written as recursive functions.
That such a function exists (`FoldExists`) and what it computes (`ReduceIsLast`)
is an induction over the length of a stream; it is done over the *set* of
positions the argument reaches (`Reaches`), which the provers can instantiate
where an operator parameter they cannot. `ReplayInv` then takes the invariants of
`CustodyServiceProofs` over and adds what a replay has read: at least one event
and no more than there are (`ReadOK`); what it writes is the status of the last
event it read, over a row that exists (`WritesOK`); who has an entry in the audit
has committed (`AuditOK`). The logs only grow, so what was read stays a prefix.
`ReplaysConverge` needs `ConvergeInv`: locks as above for requests and replays
(`ReplayLocks`), one creation per custody whose event may be late (`CreateOK`),
no live replay leaves ACTIVE behind (`NeverActive`), and `Agreement`: in a log
that begins with the start, the last event is that of the request which announced
one, or the row's, unless the row is seeded and unsettled or some replay wrote an
event that is no longer the last one. `ReplaysKeepDeposits` rests on the same
locks: while a deposit is unpaid its custody is open, and if a settlement is in
the log already, the request that logged it has the row (`HeldOK`). So a replay
that can write has read nothing that closes the custody.

**Queue.** `SendsBounded` is a counting argument. Every time a worker takes a job
it ends as an attempt, as a stall, or is under way (`Takes`); a slot that is in
the middle of sending has a take of its own, even after a stall handed the job to
another slot. `SendsOK` bounds what was sent plus what is being sent by the
takes; `BudgetOK` bounds the takes; `OwnershipOK` says who has a job's lock.

**Shelter.** The services' own steps are handled by the services' own proofs,
through `INSTANCE` (`AdoptionsStep`, `CustodiesStep`); custodies use
`EventReplayProofs` with no administrators. The case lemmas (`AdoptionActs`,
`CustodyActs`, `PetCases`) say what each step of the composition is to one
component. The new argument is about the removal. `NoRowWithoutPet` alone is not
inductive: a commit writes a row without asking whether it is still there.
`LocksHeld`: a request past its update has the row while its transaction is open.
`LockedRows`: a row that somebody has exists and no removal has claimed it.
`PetsHeld`: a removal has its pet alone, the pet is listed, and no request refers
to it. So whoever commits writes a row that is there (`RowsBacked`), whoever
inserts one found the pet and keeps it, and a removal deletes what it has claimed,
which is every row of the pet. TLC checked the four conjuncts as invariants of
the `shelter` instance, and with two removals, before they were proved.
`ShelterImplementsRegister` follows: the commit of a payout has the adoption, so
its pet is listed when it changes hands.

**Refinements** follow from these invariants: each step is a step of the abstract
specification or leaves its variables alone; a second payout of one deposit, or a
second closing, is a stutter, so the contract is honest about those races.

**Pool.** `ProfileShape` is what the proof takes from the code: every handler
goes up and down by one, never above `Depth`, and ends at zero. From it and
`NoLeak` follows the counting argument of `RoomyPoolIsEnough`: if everyone with a
connection wanted one more, nobody would have the one of level 3, so all lent
connections would be among `Request \X (1..2)`, fewer than the pool has. With the
default pool of ten, four settlements at a time are safe; a fifth can exhaust it
until a transaction runs into its limit of five seconds.

**Documents.** `Admitted` carries what `Begin` checked to the transaction that
relies on it, and says what is *not* carried: only that the caller was a
participant, which no operation changes. That the adoption and the account still
exist must come from the foreign keys, and `NothingDangles` holds because a row
that is referred to cannot be deleted.

### Only model-checked

Liveness (`EveryRequestEnds`, `EveryCallEnds`, `EveryoneEnds`, `EveryJobEnds`):
the prover does not do fairness. That nothing deadlocks, which speaks of ENABLED.
The four runs that end in a counterexample need none.

## What the model leaves out

* Payload of events, dates, amounts, Stellar accounts (the Stellar calls are
  placeholders), pagination, validation, wording of mails.
* `appendEvent` and `replayAggregate` of `EventsService`, called by tests only.
* Exported reducers of custodies and adoptions in `src/events`, called by tests only.
* `verifyAvailability` and its reducer: a read, whose answer is the database's,
  because the reducer knows no event that a handler logs for a pet (see below).
* In `EventLedger`, the unnumbered rows that `EventsService` writes into the same
  table.
* Updates of names and of a pet's description; reads, guards, log in: no state
  another component depends on.
* In `Shelter`, documents, which keep an adoption (and so its pet) from being
  removed; `DocumentsService` has them. In `DocumentsService`, pets and custodies
  of a user (a pet's owner is set to null, a custody keeps its holder).
* In `ConnectionPool`, the time limit of a transaction that waits for a row only.
* Graceful shutdown of the worker, which waits for running jobs.
* A lost commit acknowledgement: a request that fails has not committed.
* Components listed as `not_modelled` in `PROJECT.json`.

## Divergences noted without a run

* `README.md:94` promises operations that are "Safe to retry"; a settlement
  retried after a failed commit repeats score, events and payout
  (`custody.service.ts:231`).
* `README.md:575-579` describes a completion that releases the escrow;
  `adoption.service.ts:127` sets the status only, and afterwards the release is
  refused.
* `README.md:91` promises an audit trail of all operations; a completion whose
  `logEvent` fails stays without its event (`adoption.service.ts:139`).
* `admin.controller.ts:56-57`: "Every invocation is audit-logged"; the entry of
  a dry run goes through `LoggingService.log`, which swallows failures.
* `docs/event-sourcing-design.md:9` says the operational event log is not the
  authoritative ledger; the replay rebuilds rows from it.
* `events/reducers/custody.reducer.ts` maps CUSTODY_STARTED to ACTIVE; the
  service creates PENDING custodies with that event, the admin's reducer agrees
  with the service.
* `adoption.service.ts:269-273` enqueues the mail of a decision before its
  commit: the mail can announce what rolls back.
* `adoption.service.ts:192`: "@throws DomainException if adoption is not in
  PENDING status"; an approval that read PENDING commits over a rejection that
  committed meanwhile (`:215`).
* `escrow.service.ts:65`: "ensure adoption is in ESCROW_FUNDED before
  completing"; the release is logged first (`:53`) and the event stays when it is
  refused.
* `event-replay.service.ts:396`: CUSTODY_STARTED gives PENDING; logged after the
  events of a fast settlement, it makes a live replay reopen a closed custody.
* `event-replay.service.ts:202` reads every event of a stream as a fact; after a
  settlement that failed once it was logged, a live replay closes the custody
  although its deposit is unpaid, which the service itself never does.
* `docs/PET_STATUS_LIFECYCLE.md:56-58` keeps a pet with an adoption out of
  custody; between the searches of `createCustody` and its insert
  (`custody.service.ts:45-137`) an adoption may be requested, and `requestAdoption`
  does not look for custodies.
* `pets.service.ts:201-204`: `verifyAvailability` compares with events of the pet
  that no handler logs, and so reports a discrepancy for every unavailable pet.
* Removing a pet deletes its adoptions and custodies but not their escrows: a
  deposit or payment still held stays where it is, and a release that read its
  escrow after the adoption was gone pays without a pet changing hands.
* `users.controller.ts:45-49` compares `req.user.userId`, which `JwtStrategy`
  never sets: owners are refused, administrators pass.

## Plan

Done: custodies, adoptions, the ledger, replay of custodies, the queue, the
shelter, the pool, documents and accounts. Next:

1. Replays of adoptions: no event exists for a rejection or a funding, so a live
   replay returns a rejected adoption to what it was requested or approved as.
2. Proofs of what a replay of a score computes, for streams of any length: the
   baseline and the sum of the deltas, by the same induction over positions.

To run: `tlc -config MCCustodyService.cfg MCCustodyService`,
`tlapm CustodyServiceProofs.tla`.
