# TLA+ verification of the wagering service

This directory holds a formal model of the core of this repository: the wallet
and wagering service (NestJS, MikroORM, PostgreSQL, SQS). The modules are
translated from the TypeScript sources; TLC checks them on small instances and
TLAPS proves the central properties for every number of sessions, wallets,
calls, publishers, consumers, readers and failures. `PROJECT.json` maps each
definition to the lines it stands for.

## 1. The system

Paths are relative to the repository's root; `W` is
`src/application/wagering/wagering.service.ts`.

| Component | State | Operations | Makes it correct |
|---|---|---|---|
| Wagering service (`W`) | tables `wallets`, `wager_transactions`, `wallet_ledger_entries`, `inbox_messages`, `outbox_messages`; a row lock per wallet | `execute`, `resolvePendingReference`, `expirePendingReference`, two reads | one effect per operation; balance = ledger; each commit is what the rules say at that commit; inbox and outbox commit with the row |
| Wager, wallet and ledger domain (`src/domain/wagering`, `src/domain/wallet`) | in-memory copies of rows | status changes, `credit`/`debit`, ledger entries | balances never negative, terminal statuses stay |
| Wallet service (`src/application/wallets/wallet.service.ts`) | same tables | `create`, `ledger` pages, `get` | one wallet per player and currency, opening balance explained by the ledger; following cursors lists every entry once |
| Pending reference worker (`pending-reference-worker.ts`) | lease, attempt and next-attempt columns of parked rows | `processBatch` | a parked row is settled once, by the rules, and in the end |
| Outbox publisher (`outbox-publisher.ts`) | lease token, next attempt and `published_at` of outbox rows; the event queue | `publishBatch` | nothing published unsent, duplicates only after a failure, everything published in the end |
| SQS consumer (`sqs-wager-consumer.ts`) | in-flight set, visibility timers; command queue, dead letter queue | `pollOnce`, `consume`, `toDlq`, `shutdown` | deleted only after commit or dead letter; one worker per message unless something failed; every message leaves the queue |
| Messaging coordinator | three loops, `stopping` | start, shutdown | every loop ends, nothing in flight is lost |
| Reconciliation service | none (reads) | `reconcile` | a reported difference is what the entries committed meanwhile explain |
| HTTP interface (`src/interfaces/http`) | none | one service call per request, status codes | a refusal (422, 409) is final, anything undecided looks different |
| Money, backoff policy | values | arithmetic, delays | exact to the cent, bounded delays |
| Identity, observability, configuration | none in the financial path | guards, metrics | stateless |

**How they interact.** HTTP controllers and the SQS consumer call
`WageringService.execute`; each call is one database transaction at READ
COMMITTED, up to three attempts. The transaction looks up the inbox and the
idempotency indexes, locks the wallet (`SELECT ... FOR UPDATE`), inserts the row
as PENDING, applies the rules and flushes row, wallet, ledger, outbox and inbox
together. Operations whose reference has not arrived are committed as
`PENDING_REFERENCE`; the pending reference worker claims them under a lease and
resolves or expires each in a transaction that locks the row and then the
wallet. The outbox publisher claims unpublished events under a lease token, sends
them outside any transaction and finalises them in two more. Reconciliation and
ledger pages read the same tables in autocommitted statements. Any number of
instances run all of this against the same tables.

**What is hard.** Interleaved statements of concurrent transactions on the same
wallet, index entries and parked rows; the same operation delivered over two
channels under different keys; message ids reused for another payload; crashes
between flush, commit, answer and acknowledgement; references that arrive late;
lock cycles between sessions and workers; leases that run out under a worker or
publisher that is still running; partial and lost answers of the queue; redelivery
of messages that are still being processed, and instances that stop meanwhile;
messages of one wallet in one batch while the group is released by a timeout;
readers whose statements have commits between them; clients that take a status
code for a decision.

## 2. The modules

| Module | Models | Correspondence |
|---|---|---|
| `WagerRules` | the decision taken inside a transaction: `apply`, `resolveAndValidateReference`, the reference rules, `executeWalletMovement`, `Wallet.applyMovement` | pure operators over the rows a statement sees, one wallet row and one payload; `Apply` is a set, since the lookup by external id alone may return any provider's row |
| `Wagering` | `execute` and `WalletService.create` over the tables | one action per SQL statement; `pc[s]` names the next statement of session `s`; what a session has read or decided is in `seen`, `copy`, `draft` until `Commit` publishes everything at once |
| `WalletBook` | the abstract promise: an operation is settled at most once, result and balance change in one step, no balance is negative | refined by `Wagering` and by `PendingReference` (`ImplementsWalletBook`) |
| `PendingReference` | `processBatch`, `resolvePendingReference`, `expirePendingReference` | `EXTENDS Wagering`: workers and sessions share tables, wallet locks and row locks; lock cycles of any length are broken by a victim, as PostgreSQL does |
| `LedgerBook` | the promise to readers: balance and ledger change in one step, by one entry appended last, and never below zero | refined by `Wagering` and by `PendingReference` (`ImplementsLedgerBook`, with `SignedLedger` for its ledger) |
| `WalletReads` | `reconcile` and `WalletService.ledger` beside the commits of `LedgerBook` | `EXTENDS LedgerBook`: one action per autocommitted statement; `keys` adds the sort key of each entry, `check` and `report` are an auditor's two statements, `cursor`, `page`, `listed` what a client has been given |
| `HttpWagering` | what `wagering.controller.ts` makes of `execute`'s answer | `EXTENDS Wagering` with the status tables; no state of its own |
| `OutboxPublisher` | `publishBatch`, the loop around it and its shutdown, and the queue's deduplication | `step[k]` names the publisher's next statement, `mode[k]` whether its process runs, is stopping or is down; `rows` are the outbox rows |
| `SqsConsumer` | `pollOnce`, `consume`, `toDlq`, `shutdown` of the SQS consumer, the consumer loop and the coordinator's shutdown | `step[<<m, n>>]` is what the n-th receive of message `m` does next; `mode` and `poll` are the instances, `visible`, `received`, `gone`, `dlq` the queues and `groups` the FIFO groups of the messages; `execute` is reduced to its outcomes |
| `WageringProofs`, `WageringEffects`, `WageringRefinement`, `HttpWageringProofs`, `PendingProofs`, `WalletReadsProofs`, `OutboxProofs`, `SqsConsumerProofs` | TLAPS proofs | section 5 |
| `MCWagering`, `MCPendingReference`, `MCWalletReads` | the calls of the small instances | section 3 |

Definitions whose comment says "Mutant" are wrong variants of a definition (a
dropped guard, a missing token in a WHERE clause); each property is checked to
fail when one of them replaces the original. They are used by nothing else.

What the models abstract:

- A row's id is its position in commit order; the SHA-256 hash is the payload;
  amounts are minor units; `gameId`, timestamps, correlation ids and metrics are
  left out, and so is the text of messages.
- A statement is atomic; a transaction is not. Uncommitted INSERTs are visible
  to others only as index waits (`InsertBlocked`), which is what READ COMMITTED
  shows. Unique violations, deadlocks (40P01) and serialisation failures (40001)
  end the statement in the model as in the code.
- A crash loses the session, worker or publisher and its open transaction. A
  crash after a commit is the next call's problem: clients may repeat any call at
  any time.
- Time is abstract: leases, backoffs, a row's time to live and the queue's
  deduplication window end at any moment. The worker's attempt count saturates
  at `MaxRefAttempts`; the outbox's, which only lengthens a delay, is left out.
- An entry's `created_at` is drawn from some instance's clock before its commit,
  so in `WalletReads` it may be any time; its id is a random uuid and may fall
  anywhere in the order. A cursor is the key it encodes: both hold milliseconds.
- PostgreSQL's row locks, its foreign key locks and deadlock detection, and the
  queues' deduplication, message groups, visibility timeout and redrive policy are
  external; they are modelled from how the code uses them and marked so in the map.

## 3. The runs

Each run states a separate question. All bounds are in the `.cfg` files.

| Run | Instance | Question |
|---|---|---|
| `race` | 2 sessions, wallet of 3, bets of 2; a bet over HTTP and as a message under another key, its message id reused for a second bet, its key reused for a loss; contention and crashes | Is an update lost, a bet run twice, a message recorded without its transaction, an event missing or an answer wrong, the redelivery of a stored message refused, or a refused operation carried out? |
| `scope` | 2 sessions, 1 wallet, 2 providers; a bet, two refunds of it, the other provider's bet of the same external id | Is a bet refunded twice, is each commit serial, and do the sessions implement `WalletBook`? |
| `live` | 2 sessions; one message id for a bet and a rollback that names itself, two wins of the bet | Does every call end? |
| `pending_workers` | 2 workers, 2 sessions; a bet and its refund; crashes, rows growing old | Is a parked row settled once, serially, and announced? |
| `pending_chain` | 1 worker, 1 session; a bet of all there is, its refund, rollback of the refund | Do parked chains keep rows, ledger, `WalletBook` and `LedgerBook`? |
| `pending_live` | 1 worker, 1 session, a wallet of any of 2 players and 2 currencies; a bet and two wins of it | Is the bet paid out twice, is every parked row settled in the end, even one that aborts its worker every time, and does a refusal stay one beside the worker? |
| `outbox` | 2 publishers, 2 events, batches of 2, 2 failures, any number of shutdowns and starts | Is anything published unsent, sent twice without cause, changed by a stale publisher, orphaned by a shutdown, or never published? |
| `sqs` | 2 instances, a valid and an invalid message of one group or of two, 2 receives each, 1 failure | Is a message lost, dead-lettered although carried out, executed twice at once, its group split between instances, or left in the queue for ever? |
| `reads` | 1 auditor, 1 client, 1 wallet of up to 3 entries, 2 times, pages of at most 2, limits below, inside and above the range | What can a reconciliation report, and what can cursors skip or repeat? |
| `wins` (violation) | bet and two wins of it | Are rejections persisted? |
| `pending_backoff` (violation) | 1 worker, 1 session | Is the backoff kept? |
| `pending_orphans` (violation) | 1 worker, 1 session | Does a row expire only without its reference? |

**Why the bounds are enough to be interesting.** Two sessions suffice for every
two-party race on a wallet, an index entry or an inbox id; the calls are chosen
so that two collide on each index and on the balance. Every call can be made
any number of times, so repeats, redeliveries and retries after crashes are all
there; the tables stay finite because an operation is stored at most once. The
attempt loop has its real bound, three (`MaxAttempts`). `MaxRefAttempts` is 2
instead of 10: one fruitless attempt and one that reaches the limit. In `outbox`
`MaxFailures` bounds crashes, failed or half-answered sends and leases outlived
by their batch to two in total, enough for a crash and a stale publisher in one
history; shutdowns and starts are not failures and are not bounded; the send
count saturates at two. In `sqs` the receive limit and the redrive limit are 2
instead of 5 (equal, as in production): a first receive that is retried and a
last one. `MaxFailures` is 1: one crash, shutdown, failed or unanswered call, or
late heartbeat; a shutdown adds the failures of its own (aborted poll, released
visibility, destroyed client). Both groupings of the two messages are initial
states: one wallet, where the second waits for the first, and two, where any two
deliveries may be concurrent. In `reads` three entries give a full page, a next
one and an entry that commits in between, with equal times, with ids against the
order of commits and with a later commit that carries an earlier time; auditors
and clients do not influence each other, so one of each is enough. The proofs
need none of these bounds.

Deadlock checking is off only in `sqs`, where the system really stops when every
message is gone. `scope`
and `live` run without failures: they ask about the rules and about progress,
and `race` covers failures at every statement (and that contention never takes
`attempt` past its bound); the attempt loop of `live` turns because of the inbox
conflict.

The race of two reversals is in `scope`: each refund reads the stored bet and
looks for an earlier refund statements before it commits. Between sessions, and
between a session and a worker, that check runs under the wallet lock, so for
REFUND and ROLLBACK the partial unique index on the reference is a second line of
defence: without the index alone nothing is refunded twice, without the stored
link (`reference_transaction_id`, on which check and index both rely) it is, and
that is what the mutant of `scope` shows. For WIN there is no check, only the
index: there two wins race in `pending_live` (and in `live`), and without the
index the bet is paid twice. `ReversalsUndoMovements` and `EntriesMatchRows` are
checked in `pending_chain`, where a session and a worker both write, on a bet and
a rollback that debit exactly the balance.

In `pending_live` the wallet may also be another player's or hold another
currency; then each operation is rejected at once, and `RefusalsAreFinal` is about
those refusals too. No run has two wallets: a reference in another wallet or of
another round is a rejection like one of another provider (`SameScope`), which
`scope` has. The proofs hold for any of these sets.

Sessions (and workers) are symmetric in the safety runs; liveness runs use no
symmetry.

**Fairness.** `Wagering`: strong fairness of each session's own progress.
PostgreSQL queues lock waiters, and a call that waits for nothing is driven by
the event loop; contention and crashes are not fair and need not happen.
`PendingReference`: in addition the worker loop polls for ever
(`messaging-coordinator.ts`, `runPendingReferencesLoop`), a deadlock victim is
always chosen, leases and backoffs end because time passes. `OutboxPublisher`:
weak fairness of each publisher's next statement, of the loop that calls
`publishBatch` again (`runOutboxLoop`), of the exit of a stopping instance and
the start of one that is down, and of time. Shutdowns need not end:
`onApplicationBootstrap` calls `publishBatch` at once, and an instance exits only
between batches, so every start makes one. The bound on failures stands for
"failures do not go on for ever", which `EventsArePublished` needs. `SqsConsumer`: weak fairness of each delivery's next
call, of polling (`runConsumerLoop`), of shutdown's end and the restart of an
instance that is down, and of the visibility timeout and the redrive policy,
which are time and the queue's own; failures are bounded as in `OutboxPublisher`,
and which outcome `execute` has is never assumed. No fairness is assumed of clients, of wallet
creation, of rows growing old or of events being staged.

## 4. What the checks show

Kept on every instance: no lost update and an unbroken ledger
(`WalletMatchesLedger`, `EntriesMatchRows`), one row per operation
(`OneRowPerOperation`), the inbox backed by a transaction
(`InboxHasTransaction`), answers that are and stay the stored result
(`AnswersAreDurable`), events equal to rows (`OutboxTellsRows`,
`OutboxTellsStory`), commits and resolutions that equal a serial decision
(`CommitsAreSerial`, `ResolutionsAreSerial`), reversals that undo the movement of
their reference (`ReversalsUndoMovements`), references used once by each kind
(`ReferencesUsedOnce`), parked rows that settle once and in the end
(`RowsSettleOnce`, `ParkedRowsSettle`), the refinements of `WalletBook` and
`LedgerBook`, refusals that are final (`RefusalsAreFinal`), the readers'
properties, the outbox properties (with `LeasesHaveWorkers`: a shutdown finishes its batch), and
those of the consumer: a group stays with one instance (`OneInstancePerGroup`), no message leaves the queue without
its operation or a dead letter (`NothingIsLost`), and every message leaves it
(`MessagesSettle`).

`AnswersAreDurable` is about results and refusals: a result is the stored one, an
`IDEMPOTENCY_CONFLICT` means that another operation owns the key or external id,
and a `MESSAGE_PERMANENT_FAILURE` that another operation owns the message id. So
a message redelivered after its commit is a replay and never an error that the
consumer dead-letters (`isPermanentDomainError`); `DeadLettersAreEarned` is the
consumer's half. `EntriesMatchRows` also says that a row refused for want of
funds saw a balance short of its amount: a debit of all there is passes.
`OutboxTellsRows` and `OutboxTellsStory` count in both directions: every client
transaction has its events and no event is about an opening balance or a row that
is not stored (`EventsHaveRows`).

`RefusalsAreFinal` is about what a client may conclude from a status: 422 means
that no later step, under any key, over any channel or by a worker, carries the
operation out; 409 that none does under the same key. It promises nothing for 404
(the wallet may be created later) and 503 (`DEPENDENCY_UNAVAILABLE` after three
contended attempts), and it includes the `REFERENCE_ALREADY_REVERSED` that is
thrown and leaves no row: the index entry that caused it stays for ever.

`DivergenceIsExplained` says what `consistent: false` is worth: the difference is
exactly the sum of the entries committed between the two statements, none is
hidden, and it is zero when nothing committed. So one report (and one increment
of `reconciliation_divergences_total`, README.md:242) may be about a divergence
that never existed; a difference that repeats while nothing commits is none of these.

`DeadLettersAreEarned`, `ExecutedAlone` and `OneInstancePerGroup` except messages that met a failure, a
shutdown or a call without heartbeat that outlasts the visibility timeout
(`troubled`): a redelivery of an operation already stored may then fail
transiently on its last receive and be dead-lettered, and a message released by
`handleDrainTimeout` is executed by two instances at once. The tables are safe
all the same: `OneRowPerOperation` assumes nothing about deliveries.

`CommitsAreSerial` holds only for operations whose possible references are all
in their own wallet (`LocalReferences`): the wallet lock does not freeze other
wallets' rows, and a reference there may change between the read and the commit.
The decision it feeds is a rejection either way (the scope differs), so no
balance depends on it. The exception matters to the theorem; on the one wallet of
`scope` every reference is local.

Three claims of the documentation do not hold; each has a run that shows it:

- `RejectionsArePersisted` (`docs/brain/functions/WageringService.md:34`). A
  second WIN of the same BET meets the partial unique index only in the final
  flush; the caller gets an error and no row remains.
- `BackoffIsKept` (`ARCHITECTURE.md:257-258`). A fruitless resolution overwrites
  the next attempt time with the current time.
- `ExpiresOnlyOrphans` (`ARCHITECTURE.md:258`,
  `docs/brain/entities/WagerTransaction.md:27`). The claim that reaches the
  attempt limit expires the row without looking for its reference.

Observations met while modelling, which no run states as a claim: locks are not
taken in a fixed order (`docs/brain/conventions/Concurrency.md:13`): the worker
locks row, then wallet, a session wallet, then (foreign key) row. PostgreSQL
breaks the cycle, which `pending_chain` goes through, and a worker that is the
victim loses its batch until the lease ends; a BET can be
both refunded and rolled back (the rule is once per kind); `WalletService.create`
stages no outbox event for the opening balance, although
`docs/brain/functions/WageringService.md:7` speaks of events; the outbox keeps no
order between the events of a wallet (a failed one is postponed while later ones
go out) and never gives up on an event; the consumer runs the messages of a
batch concurrently (`Promise.all`), whatever their group, so the order that
`ARCHITECTURE.md:252` expects of a FIFO group holds between instances and not
inside one (the wallet lock decides, and an operation that overtakes its
reference is parked); ledger pages list entries of the same millisecond by uuid,
not by commit, and an entry that commits during a listing with a time above the
cursor is not shown by it.

## 5. What is proved

`tlapm` checks the eight proof modules. The proofs assume only the named assumptions:
`CallsAssumption` and `NamesAssumption` (calls are well formed, client keys are
not wallet ids, `INTERNAL` is no provider, `Null` is none of the values it stands
apart from), `LedgerAssumption` and `ReadsAssumption` (amounts, times and ids are
integers, initial balances are natural, pages are not empty),
`OutboxAssumption` (bounds are natural numbers, batches are not
empty, `Null` is no publisher and no row) and `ConsumerAssumption` (likewise, the
groups do not overlap, and the consumer's receive limit is at most the redrive
limit). Sessions, calls, wallets, publishers, messages, instances and readers may
be any sets, finite or not.

`WageringProofs` (specification `Spec` of `Wagering`, whatever `Faults`):

| Theorem | States |
|---|---|
| `TypeCorrect` | `TypeOK`: stored rows are final or parked, no balance is negative |
| `WalletLedgerAgreement` | `WalletMatchesLedger` |
| `OperationsRunOnce` | `OneRowPerOperation` |
| `InboxIsBacked` | `InboxHasTransaction` |
| `AnswersStayTrue` | `AnswersAreDurable`: results are the stored ones, conflicts and permanent failures have their cause in the tables |

`TypeOK` is not inductive: a commit stores `draft`, so one must know what each
session holds at each statement (`SessionOK`); `TypeInv` adds that. Nor is
`WalletMatchesLedger`: that a commit extends the ledger from the balance it read
needs `LocksInv`, which says that from the lock to the commit a session owns the
wallet's lock, its copy equals the stored wallet (`HoldsWallet`) and its draft
moves that copy by its amount (`DraftFits`). `OneRowPerOperation` needs
`WritersInv`: between INSERT and COMMIT no two sessions hold colliding index
entries and none duplicates a committed row; and `RowOrigins`, which keeps
opening rows apart from clients'. `AnswersAreDurable` and `InboxHasTransaction`
need `StagedInv`: a session about to stage an inbox row has found the transaction.
That refusals last is `RefusalsLast`: rows and inbox entries never change or go, so
the contradiction found by a statement stays true.
Each invariant was checked by TLC on the `race` instance before it was proved.

`WageringEffects` (the same specification):

| Theorem | States |
|---|---|
| `RowsAndLedgerAgree` | `EntriesMatchRows` |
| `ReversalsAreExact` | `ReversalsUndoMovements` |
| `SerialCommits` | `CommitsAreSerial` |
| `EventsMatchRows` | `OutboxTellsRows` |

A row and its entry are appended by one commit and never change, so it is enough
to know what a session is about to flush: `DraftsInv` says that a draft moves
money exactly when it processes more than a LOSS, in the direction of its kind,
and that a processed reversal undoes the row it references (`Undoes`).
`DirectionsFollowKind` and `ReversalsUndo` carry this over to the tables.
`ReversalsAreExact` follows from the two by equal amounts and opposite
directions.

`CommitsAreSerial` compares the draft with what the rules would decide on the
tables of the commit, for operations all of whose possible references lie in their
own wallet (`LocalReferences`; rows elsewhere are frozen by no lock). While a
session holds the wallet, other steps change rows only as `RowsMove` allows: a row
keeps its payload, and a new or changed row is another wallet's or a parked one
now rejected. Under that the rules decide the same (`RulesStable`), because an
active reversal lies in the wallet of what it reverses (`ReversalsLocal`) and a
parked row names no reference (`ParkedUnlinked`). `EventsInv` knows what a draft
will announce (`DraftsObserve`) and that every event belongs to a stored row
(`EventsHaveRows`), so the events staged for a row are all it ever has
(`EventsStaged`).

`WageringRefinement` (the same specification):

| Theorem | States |
|---|---|
| `ServiceKeepsWalletBook` | `ImplementsWalletBook`, by the refinement mapping `BookBalance`, `BookResult` |
| `ServiceKeepsLedgerBook` | `ImplementsLedgerBook`, by `BookBalance`, `SignedLedger` |

Only `Commit` and `CreateWallet` change what is mapped: each is shown to be one
step of the book (`CommitSettles`, `CommitPosts`, `CreateWalletOpensBook`,
`CreateWalletOpens`), every other step a stutter. That a commit settles an
operation for the first time is `UniqueInv`; that its effect is the one the book
allows is `SettledInv`, about the draft; that the balance it replaces is the
stored one is `LocksInv`.

`HttpWageringProofs` (specification `Spec` of `Wagering`):

| Theorem | States |
|---|---|
| `RefusalsStand` | `RefusalsAreFinal` |
| `ReferencesServeOnce` | `ReferencesUsedOnce` |

`ReasonsInv` gives every refusal a reason that outlives any step (`Grounded`): the
operation is stored, as rejected if the answer said so (`Recorded`), its key or external id belongs to a
different stored operation (`Contradicted`), or its reference already has a
processed row of its kind (`Exhausted`). `CommitRespectsRefusal` shows
that a commit of that operation as anything but rejected contradicts each of them.

`ReferencesUsedOnce` speaks of names (kind, provider, external id of the
reference), the code of ids. `LinkedOnce` connects them: a processed row stores the
id of the row its operation names and is the only one of its kind to store it. The
first comes from the decision (`DraftRefers`), the second from the reference index
at the commit (`CommitUsesFirst`); that a name has one id is `OneRowPerOperation`
(`LinksAreNames`).

`PendingProofs` (specification `PendingSpec` of `PendingReference`: the sessions
beside any set of workers):

| Theorem | States |
|---|---|
| `WorkersTypeCorrect` | `PendingTypeOK` |
| `WorkersKeepLedger` | `WalletMatchesLedger` |
| `WorkersMatchEntries` | `EntriesMatchRows` |
| `WorkersReverseExactly` | `ReversalsUndoMovements` |
| `WorkersUseReferencesOnce` | `ReferencesUsedOnce` |
| `RowsSettleOnceHolds` | `RowsSettleOnce` |
| `SerialResolutions` | `ResolutionsAreSerial` |
| `WorkersTellStory` | `OutboxTellsStory` |
| `WorkersKeepWalletBook` | `ImplementsWalletBook` |
| `WorkersKeepLedgerBook` | `ImplementsLedgerBook` |
| `WorkersRespectRefusals` | `RefusalsAreFinal` |
| `WorkersKeepAnswers` | `AnswersStand` |
| `WorkersKeepInbox` | `InboxHasTransaction` |
| `WorkersKeepOneRow` | `OneRowPerOperation` |

The invariants of the sessions are stated for any wallet locks (`LocksOK`), so one
proof of each session statement serves `Spec` and `PendingSpec`; only where a
session relies on a lock must it be shown that no worker holds it. `PendingInv` is
those invariants together with what workers rely on in parked rows (`ParkedRows`:
they are clients', and their wallets exist) and what each worker knows at each
statement (`WorkerOK`): from locking the row to the end of its transaction it owns
that row lock and no other (`HoldsRow`) and the row is still parked; before the
flush it owns the wallet too, its copy is the stored wallet (`WorksOn`), and its
draft is what the rules decide from them (`Decides`). A step of anybody else leaves
a worker `Undisturbed`, since only the holder of a row lock moves a parked row and
only the holder of a wallet its balance: that is why a row is settled once.
`ResolutionsInv` adds that a decision would be the same on the rows as they are now
(`SerialResolution`). `StoryInv` says which events each stage of a row's life has
left: parked once, settled once, in that order; a worker that claims a row counts
an attempt, and by that count the story knows a row that was parked.

`WorkersRespectRefusals` needs that the reasons of a refusal (`ReasonsInv`, above)
outlive settlements too (`ReasonsRemain`): a rejected row and a row that uses up a
reference are no parked ones. Of all reasons only a used up reference can be that
of a parked row, and then the reference index stops its resolution, because the
worker's draft refers to the very row the operation names (`HeldRefers`). From the
same two facts a settlement keeps `LinkedOnce` (`ResolveUsesFirst`).
`AnswersStand` is `AnswersAreDurable` as it holds beside workers: an answer tells
the stored row unless it said "parked" and the row has been settled since. TLC
checked it on the `pending_workers` instance.

`WalletReadsProofs` (specification `Spec` of `WalletReads`):

| Theorem | States |
|---|---|
| `ReadsTypeCorrect` | `ReadsTypeOK` |
| `DivergencesAreExplained` | `DivergenceIsExplained` |
| `PagesGoDown` | `PagesDescend` |
| `ListingsAreComplete` | `ListingIsComplete` |

`CursorEndsPage` says that the cursor is the lowest entry shown, `RestIsBelow`
that every entry known at the start and not yet shown is below it; a page takes
the highest of what is below the cursor, so both are kept whatever commits.

`DivergencesAreExplained` is about two sums: the balance an auditor read, and the
ledger it summed one statement later. `AuditInv` says that the balance of a wallet
is the sum of its entries, and that what an auditor has read or reported was the
sum of a first part of them (`AddsUp`); the difference of two of those is the sum
of what was committed in between.
The facts about sums (`SumProperties`, `TotalSplits`, `SumsCommute`) are proved by
induction with a set of numbers in place of a predicate (`AllNaturals`): a set of
naturals that contains 0 and the successor of each member is `Nat`.

`OutboxProofs` (specification `Spec` of `OutboxPublisher`):

| Theorem | States |
|---|---|
| `OutboxTypeCorrect` | `TypeOK` (inductive as it stands) |
| `NothingPublishedUnsent` | `PublishedWasSent` |
| `DuplicatesNeedAnExcuse` | `DuplicatesAreExcused` |
| `PublishedStays` | `PublishedIsFinal` |
| `StaleOwnersAreHarmless` | `LeasesAreRespected` |
| `ShutdownsOrphanNothing` | `LeasesHaveWorkers` |

`SendInv` says that an answer lists rows of the batch and that the queue has
what is listed or remembered. `DeliveryInv` adds what is true of an event for
which no answer was lost and no lease ran out: an unaccepted row of a batch is
leased to that batch and unknown to the queue (`BatchOwnsRows`), and an event the
queue has is published or still leased (`SentIsHeld`). So no second claim can
reach it. TLC checked `DeliveryInv` on the `outbox` instance. `LeasesHaveWorkers`
needs `BatchesEnd`: a publisher that is idle has no batch, which is why waiting
for the loop before exiting is enough.

`SqsConsumerProofs` (specification `Spec` of `SqsConsumer`):

| Theorem | States |
|---|---|
| `ConsumerTypes` | `TypeOK`: deliveries, receive counts and owners agree |
| `ConsumerLosesNothing` | `NothingIsLost` |
| `GroupsStayTogether` | `OneInstancePerGroup` |
| `ExecutionsAreAlone` | `ExecutedAlone` |
| `DeadLettersEarned` | `DeadLettersAreEarned` |

`NothingIsLost` speaks only of messages already deleted; `StepsInv` adds what a
delivery about to delete has done: at "ack" the operation is stored, at
"dlqDelete" the dead letter is sent (`EarnedStep`). The proof has one lemma for
each way a delivery moves on, so that a step of one leaves the others alone.
`HiddenInv` says that a message with a live delivery that met no failure is
hidden; a hidden message holds its group back, so a receive can only take groups
nobody works on. `ExecutedAlone` follows from the same invariant, and so does
`DeadLettersAreEarned`, with what each delivery on its way to the dead letters
has met (`EarnedInv`).

Every safety invariant and every action property of the passing runs has a
theorem. Only model-checked are the liveness properties, `EveryCallEnds`,
`ParkedRowsSettle`, `EventsArePublished` and `MessagesSettle`: they rest on
fairness, and neither ENABLED nor fairness is within the provers' reach. What the
recursive definitions of the models compute is proved only where it is a sum
(above).

## 6. Not modelled, and what is left

Not modelled, for good: DTO validation and the HTTP routes other than
`POST /wagering/transactions` (one service call or one read each, no state), the
provider guard, metrics and tracing, configuration, entity mappings, and the reads
of one row. The reference worker's loop has no stopping flag in `PendingReference`:
a shutdown waits for the batch and a start polls at once, so it only delays the
next claim, which may come arbitrarily late anyway. `Money` and the backoff policy are pure values: the other modules take
amounts in minor units and a delay as the time until it ends, and no property
depends on their arithmetic beyond that. A zero-amount LOSS, which the database's amount
check refuses, is outside `CallsAssumption`. No line of the repository promises an
order between a wallet's events, so no property speaks of it.

The parts modelled are `WagerRules`, `Wagering`, `WalletBook`, `LedgerBook`,
`PendingReference`, `HttpWagering`, `WalletReads`, `OutboxPublisher` and
`SqsConsumer`. Left to do: `Money`
(scale, rounding, width of `numeric(20,2)`) and the delays computed in SQL, as
operators against a reference definition over bounded inputs.
