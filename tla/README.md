# A TLA+ model of ledger-rs

ledger-rs is a double-entry ledger behind an HTTP API: a Rust service (axum,
sqlx) over one PostgreSQL database. This directory models the transfer path, run
by concurrent requests with faults; the database schema, run by concurrent
sessions with arbitrary SQL; the HTTP edge with its handling of amounts and the
reconciliation sweep; and the life of the server processes. TLC checks small
instances of all of them; TLAPS proves the safety properties of all of them for
every size.

Paths below are relative to the repository.

## The system

| Part | State | Operations | What makes it correct |
|---|---|---|---|
| Transfer path, `src/db/transfers.rs` | none of its own; an open database transaction | `execute` (retry loop), `execute_once` (find, claim key, lock, check, adjust, post, commit, read back), `replay` | no overdraft, no lost update, at most one transfer per key, no deadlock, true answers |
| Schema, `migrations/0001_init.sql` | tables `accounts`, `transactions`, `entries` | any SQL; CHECKs, keys, triggers | every committed transaction balances; its entries are written in one database transaction; history is never edited |
| Sweep, `ledger_check_invariants()` | reads all tables | seven queries | each row true of every committed ledger |
| Accounts, `src/db/accounts.rs`, `src/http/accounts.rs` | `accounts` | `create`, `get`, `fetch_for_update` | only the operator's policy lets a caller open an account that may go negative |
| Transaction reads, `src/db/transactions.rs` | - | `find_by_idempotency_key`, `get` | show one committed transaction, whole |
| Pool and timeouts, `src/db/mod.rs` | connections | acquire; `lock_timeout`, `statement_timeout`, `idle_in_transaction_timeout` | no wait is for ever |
| Errors, `src/error.rs` | - | SQLSTATE to error, error to status | a refusal is typed, a retryable conflict is retried |
| Money, `src/domain/money.rs` | - | `Money::new`, `canonical`, checked arithmetic | what was checked is what is stored and hashed |
| Domain, `src/domain/mod.rs` | - | `signed`, `request_hash`, `is_balanced` | one hash per payload |
| HTTP edge, `src/http/*` | - | validation, timeout, panic, body limit, health | only valid requests reach the ledger |
| Configuration, `src/config.rs` | settings | `from_env`, `validate` | the timeouts fit each other |
| Lifecycle, `src/main.rs` | process | start, migrate, serve, drain | a transfer in flight is finished or rolled back |

The parts interact through the database. A request takes a connection for one
statement or for a whole transaction; requests meet on row locks of `accounts`,
on the unique index of `idempotency_key` and in the pool. The hard behaviour is
there: statements of different requests interleave under READ COMMITTED; a lock
wait may time out; the connection may be lost; the timeout layer may drop the
handler at any `await`, even while its COMMIT is under way; an error returned
with the transaction open answers the client before the ROLLBACK has run; and
the client retries with the same key. Around the requests, processes start,
migrate, drain and die with sessions open, and half a dozen timers run at once.
`PROJECT.json` lists these hazards one by
one, at their lines, with the property that watches each.

## Modules

    Ledger               rows, constraints, the rows of the sweep
      Transfers          the transfer path, one action per SQL statement
        MCTransfers      instances for TLC
        TransfersProofs  discipline, funds, keys
          SafetyProofs   answers, the books, no circle of waiting (with LedgerProofs)
            RefinementProofs   Transfers implements TransferService and obeys Schema
      LedgerProofs       sums of entries
      TransferService    abstract: a transfer is one step
      Schema             any SQL against the constraints and triggers
        MCSchema         instances for TLC
        SchemaProofs     sealed log, balance
      Money              decimals, checks, canonical form, arithmetic, columns
        MoneyProofs      powers of ten, exact amounts
        Edge             the HTTP handlers in front of TransferService
          Sweep          the reconciliation sweep, and what it is there to find
            MCSweep      instance for TLC
            SweepProofs  edge and sweep (with MoneyProofs and LedgerProofs)
    Server               configuration, start, timers, shutdown, crash
      MCServer           instances for TLC
      ServerProofs       timers, pool, shutdown

**Ledger.** Amounts are integers, in units of 10^-8, the scale of
`NUMERIC(20, 8)`; `Representable` is its range. Account ids are naturals because
the transfer path sorts them. The request hash is an injective tuple.

**Transfers.** `pc[r]` is the statement request `r` issues next. `accounts`,
`transactions`, `entries` are what is committed; `delta[r]` and `posted[r]` are
what the open transaction of `r` has written; `lockedBy` and `claimedBy` are row
locks and the uncommitted entry of the unique index; `locked[r]` is the `HashMap`
of rows read `FOR UPDATE`; `answer[r]` is what the client was told.

| Code (`src/db/transfers.rs`) | Action |
|---|---|
| fast path and checks without the database, 153-162 | `FindRecord`, `FindNothing` |
| `pool.begin()`, 164 | `Begin` |
| INSERT INTO transactions, 166-200 | `ClaimKey`, `ClaimCollides`, `FindWinner` |
| the lock loop, 203-212 | `LockFirst`, `LockSecond` |
| currency and funds, 214-238 | `Check` |
| `adjust_balance` twice, 242-243 | `AdjustFrom`, `AdjustTo` |
| `insert_entry` twice, 245-262 | `PostCredit`, `PostDebit` |
| COMMIT with the deferred trigger, 264-274 | `Commit` |
| `transactions::get`, 276-279 | `GetTransaction`, `GetEntries` |
| the retry loop of `execute`, 118-140 | `ConflictAbort` |
| `lock_timeout` (`src/db/mod.rs` 41) | `LockTimeout` |
| `TimeoutLayer`, a lost connection, `acquire_timeout` | `Abandon` |
| the ROLLBACK sqlx queues on drop; a COMMIT that got through | `Rollback`, `LateCommit` |
| `accounts::create` | `CreateAccount` |

A fault may strike at every `await`. A statement that fails aborts the
transaction at once (`FailStatement`); an error the handler itself returns leaves
the transaction open until its queued ROLLBACK runs (`RejectOpen`, `Rollback`).
An abandoned transaction keeps its locks until then, and if it was in its COMMIT
either outcome is possible. A conflict may surface after the COMMIT, in the read
of the response: the next attempt then finds its own transaction and answers
"replayed".

**TransferService** has the tables, the requests and the answers, and nothing
else: money moves in one step (`Move`), an answer is given when the ledger of
that moment justifies it (`Justified`). `ImplementsService` says `Transfers`
does this, under the identity mapping of the shared variables.

`Storage`, in `Transfers`, is `Schema` with a session per request: the rows with
the columns the INSERTs name, `created_xid` the attempt's own transaction, the
uncommitted writes what the open transaction has written so far. `ObeysSchema`
says that every statement of the transfer path is one the schema accepts, COMMIT
and its deferred trigger included. `SpentIds` are the transaction ids used up; the
id of an attempt that ends before its BEGIN counts as one taken elsewhere in the
cluster (`TakeXid`).

**Schema** lets every session insert, update and delete as it likes. A refused
statement leaves the session able only to roll back. An INSERT of a transaction
row may leave `created_xid` to its DEFAULT or name any id: one that has ended, one
open in another session, one still to come (`spent` are the ids handed out, here or
elsewhere in the cluster). The migration says of its trigger that no transaction can
ever be extended (`Sealed`); the column being only a DEFAULT, this is so of rows that
leave it alone, and the run `named_xid` shows another that gains its entries after
its COMMIT. `SealedOnceClosed` is what the trigger does guarantee of every row:
once the database transaction it names has ended, or it has entries, nothing is
added. Deadlock is not checked, since ids run out in an instance.

**Money** has numerals, a mantissa and a scale, so 1.5 and 1.50 differ until
`Normalize`. A text is any numeral; a `Decimal` is one within `MaxMantissa` (2^96 - 1)
and `MaxDecimalScale` (28). `Parse` is `Decimal::from_str`: it keeps as many
decimals as fit and rounds the rest away. `MoneyNew`, `Canonical`, `CheckedAdd`, `CheckedSub` and `CheckedLt`
are the methods of `Money`; `Stored` is the silent rounding of a NUMERIC column,
which the checks are there to forestall; `IsWhole` is the reference.

**Edge** has what a client sends (`sent`), in every spelling and with every
mistake, and what it reads (`Response`). The checks of each handler are a sequence
whose first failure decides. An amount is a text, parsed when the body is
deserialized; one that does not parse is refused with the body. What passes becomes an input of `TransferService`,
which stands for the path that implements it. `PostAccount` may insert its row
although the client is told otherwise. The GETs are operators: they change
nothing, but the conversion of a row can fail.

**Sweep** runs the seven queries one at a time (`row`, `reported`) beside the edge,
and lets one act of damage be done that the schema does not stop: a balance
updated, the log truncated (TRUNCATE fires no row trigger), a transaction without
entries inserted. The view that
row 5 reads casts a sum to `NUMERIC(20, 8)`: where the sum is out of range the sweep
ends in an error (`SweepFails`).

**Server** has one process per replica and its requests, on a clock. `timer`,
`deadline`, `wait` and `left` count down, and `Tick` waits for a timer that is due.

| Code | Action |
|---|---|
| `Config::from_env`, `validate`, `db::connect` | `StartFails`, `Connect` |
| `run_migrations` under the advisory lock | `LockMigrations`, `Migrate`, `MigrationTimesOut` |
| bind and serve | `Bind` |
| `shutdown_signal`, `serve.await` | `ShutdownSignal`, `Drained` |
| `timeout(shutdown_grace, pool.close())` | `Exit` |
| killed, or signalled before it serves | `Crash`, `ReleaseMigrator` |
| `TimeoutLayer` | `Arrive`, `RequestTimesOut` |
| the pool and `acquire_timeout` | `AskForConnection`, `Acquire`, `AcquireTimesOut`, `AskAgain`, `ReturnConnection` |
| `lock_timeout`, `statement_timeout`, `idle_in_transaction_session_timeout` | `LockTimesOut`, `StatementTimesOut`, `StatementEnds`, `IdleTimesOut` |

What a handler does between its statements is the business of `Transfers`; here a
statement may take any time its limits allow. A connection on its way back to the
pool waits for its statement; the ROLLBACK itself, which waits for no lock, takes
no time. Three things the code leaves to the operator show up in the conditions
of the properties: zero switches a server-side limit off (PostgreSQL's meaning of
0, which `validate` lets pass for `lock_timeout` and the idle limit); a grace no
longer than `statement_timeout`, as in the defaults, can leave sessions behind; and
a request whose body arrives slowly may be cancelled in the queue after all.
`serve.await` is modelled as waiting for the handlers. axum waits for connections,
so a client that stalls inside a request head or reads its response slowly can hold
a shutdown up longer than `ShutdownBounded` says: the timeout layer sees neither, and
the property is about clients that send and read.
The wait for the advisory lock is a statement like any other, so a replica waits
for another's migration for `lock_timeout` at most and then fails to start, where
`src/main.rs` 23-25 says "the others wait, then find nothing to do": the run
`migration_wait` shows it.

PostgreSQL and sqlx are modelled from how the code uses them and are marked
external in the map: row locks, the wait on a unique index, visibility, the end
of a transaction, the queued ROLLBACK.

## Runs

| Run | Instance | Shows |
|---|---|---|
| `contention` | three requests that fund and drain one account, one key with two payloads, two connections, conflicts, lock timeouts and cancellations, the CHECK constraint removed | the locks and the funds check alone prevent overdraft; balances and log agree; at most one transfer per key; answers true; replays agree; the collision always finds its winner; history append-only; `TransferDiscipline`, the inductive invariant; `ImplementsService` |
| `opposing` | three requests around a ring of three accounts and against it, others that are refused, no fault | no wait cycle; every request answered, none with a 500 |
| `recovery` | two requests, one connection, an account opened meanwhile, all faults | no wait cycle even with the pool exhausted; requests answered; an answered request lets go of everything; `ObeysSchema`, every statement is one the schema accepts |
| `raw_sql` | two sessions, two accounts, two transaction and two entry ids, two database transaction ids, any of which a row may name | the schema keeps balance and anchoring by itself, and seals a transaction once the database transaction it names has ended |
| `api` | two requests, transfers and accounts in every spelling and with every mistake, a sweep beside them, one act of damage | statuses tell what happened to the money; an amount is kept as parsed, which is as sent if a Decimal can hold the text, refused for cause and hashed by value; committed rows can be read; on a sound ledger the sweep neither alarms nor fails, and it misses no damage done before it |
| `server` | two replicas, two requests at a pool of one, two environments that run and seven that are refused | the timeouts `validate` relates do what their comments say; shutdown is bounded, and clean if the grace exceeds a statement; sessions end; nobody waits for ever |
| `lock_convoy` | violation | a lock wait beyond `lock_timeout` is a 500 `internal_error`, which `src/db/mod.rs` 39-41 calls a typed failure |
| `balance_range` | violation | a balance past `NUMERIC(20, 8)` is a 500 with no fault anywhere, against `src/error.rs` 3-7 |
| `shutdown_grace` | violation | a request runs on past `shutdown_grace` after the signal, against `src/config.rs` 24 and `src/http/mod.rs` 115 |
| `named_xid` | violation | a row committed with the id of another open transaction in `created_xid` gains its entries later, against `migrations/0001_init.sql` 181-184 |
| `amount_text` | violation | an amount spelt with more decimals than a Decimal has is rounded by the parser and posted, against `src/http/transfers.rs` 51-53 and `src/domain/money.rs` 10-12 |
| `migration_wait` | violation | a replica that finds another one migrating fails at `lock_timeout`, against `src/main.rs` 23-25 |

**Bounds.** Three requests are the smallest number with a holder, a waiter and a
third who acts between them; a ring of three accounts needs three. One retry
(`MaxConflictRetries = 1`) has an attempt that may start over and one that may not.
Amounts are chosen so that either of two drains is covered and both are not, and
`MaxMagnitude` so that a sum leaves the range where that is the question. A lost
connection does in the model what a cancellation does but for the answer, so
`contention` leaves it to `recovery`, where all four faults strike. One
connection is the tightest pool; two make the pool contended without making it
sequential. For the schema, two database transactions suffice for the cases that
matter: one commits, with entries or with a row that names the other's id, and the
other, open meanwhile or later, tries to post to it; account inserts outside them
are unlimited. For the edge, a column with one digit on either side
of the point has amounts at and past both edges in every spelling, a Decimal of two
decimals and three digits is finer than the column and coarser than the texts (1.999
is parsed as 2.00, 9.999 as 10.0, 1000 not at all), and two
requests are a transfer and its retry, a replay, a conflict, two transfers, or a
transfer and a new account, with the sweep between any two steps. In `server` the
limits are one to three seconds, so that every pair of timers can be due together;
one connection for two requests makes one of them queue; the second replica is there for the advisory lock and is sent no request.
Requests are symmetric in the safety runs; symmetry is not used with liveness.

**Fairness.** `FairSpec` asks weak fairness of `Step(r)` for each request: the
runtime polls a ready handler, the database executes a statement that waits for
nothing, the pool hands out connections in order, and an abandoned session is
rolled back (by sqlx, or by `idle_in_transaction_session_timeout`). No fairness
is asked of clients, of faults, or of account creation. `Server` asks weak fairness
of time, of what `main` does by itself and of limits that are reached: nothing
makes a statement finish, a lock come free or a dead client be noticed. Row locks and
connections are granted to a waiter in the model's order of steps; weak
fairness suffices because the number of requests is finite.

## Proofs

All theorems hold for every set of requests, accounts, keys and currencies, any
number of connections and retries, any subset of the faults, with and without
the CHECK constraint; those of `Server` for every set of replicas, requests and
environments; those of `Edge` and `Sweep` for everything a client may send, every
scale and width of the amount column, and every drift. They rest on the named
ASSUMEs of `Ledger`, `Transfers`, `Schema`, `Money`, `Edge`, `Sweep` and `Server`,
which TLC evaluates on the instances. These say that constants have their types,
that inputs of `Transfers` passed the edge's range check (which `EdgeTypeCorrect`
proves of the edge), that accounts start at balance 0, that `None` is none of the
values it stands beside, that what parses in an environment is a number
(`EnvironmentsAssumption`), that the range of a column follows from its digits
(`ScaleAssumption`), that a Decimal can hold the sum of two amounts
(`DecimalAssumption`), and that an UPDATE that changes nothing is no damage
(`DriftsAssumption`).

*Transfers.* `NoOverdraft` and `OneTransactionPerKey` are not inductive: they
say nothing of what is in flight. `TransferDiscipline` does, stage by stage:
the request passed the early checks; it alone has its key; it holds the rows it
read and its copies are the committed rows; the funds are still there; its
uncommitted writes are exactly those of the statements executed. A step of `r`
re-establishes this for `r` and leaves it alone for others because they hold
other keys and other rows. `Discipline` proves it, `FundsStaySecured`,
`NeverOverdrawn` and `KeysUsedOnce` follow.

*Answers.* `HistorySound` (every committed transaction is the payload of its
request with its two postings) and `RepliesBacked` (what is about to be reported
is committed; the loser of a key has a winner) are inductive together with the
discipline (`HistoryAndReplies`). From them: `ClientsToldTheTruth`,
`ReplaysAlwaysAgree`, `CollisionFindsWinner` (the branch `transfers.rs` 188-195
calls unreachable is), `LedgerAppendOnly`.

*Books.* `LogAlwaysBalanced` and `BalancesAlwaysMatch` are about sums over the
whole log, and `Net` is a fold. `LedgerProofs` shows what the fold computes without
an induction theorem: were a sum wrong for some finite set of entries, it would be
wrong for a smallest one (`SmallestFinite`), and taking an entry away leads to a
smaller one. So a set with one entry more has its signed amount more (`NetAdd`),
and the two postings of a transfer add up to nothing (`PostingsBalanced`). The
inductive invariant `BooksInv` adds to the two properties that the log is finite
and that its accounts exist: a COMMIT moves each balance by what its postings add
to the account, and a new account starts where an empty sum does.

*Progress.* `NobodyWaitsInACircle`: `WaitInv` says who may hold what, a key only
from its INSERT on, a second row only after the first. In a set of requests that
wait only for one another, somebody waiting for the pool leads to an open
transaction, somebody waiting for a key to one that waits for a row, and of those
that wait for their second row the one that waits for the highest id waits for
nobody in the set, because whoever has that row waits for a higher one.
`NoErrorWithoutFault` needs a hypothesis, since `balance_range` shows a 500 without
any fault: `Roomy(A)`, no amount exceeds A, and A for every key there is fits the
balance column (with amounts of 1, seven keys and a limit of 10, the `opposing` run
is such an instance). Each key is used once, so no balance is ever further from 0
than A times the number of transactions (`BalancesWithin`), and a transfer that has
claimed a key has room for one more.

*Refinement.* `PathImplementsService`: `Commit` and `LateCommit` are `Move`,
every action that answers is a `Reply` justified by the rows the discipline says
are locked or recorded, the rest stutter. `PathObeysSchema`: `ClaimKey` is the
INSERT of the transaction row, `AdjustFrom` and `AdjustTo` are UPDATEs of accounts
no other session has written, `PostCredit` and `PostDebit` INSERTs of entries
under a parent of the same database transaction, `Commit` and `LateCommit` a COMMIT whose
deferred check holds, every failure a ROLLBACK, and reads and locks are invisible;
an attempt that ends before its BEGIN leaves its id to the cluster (`TakeXid`).
Beyond the invariants above it needs that a request which committed and starts
over never draws a second transaction (`Unspent`).

*Schema.* `WritesConfined`: transaction ids are never reused, rows of open
transactions clash with nothing, every uncommitted entry is being written by the
database transaction its parent names, and every committed one was, by one that has
ended (`SchemaSound`). It needs nothing of how `created_xid` came by its value. All
entries of a transaction are thus written by one database transaction and become
visible in one COMMIT, whose deferred check saw them all (`AnySqlAlwaysBalances`); a
transaction that has entries, or names a database transaction that has ended, never
gains one (`LogSealed`, which is `SealedOnceClosed`); and currencies agree
(`EntriesStayAnchored`). `RowsAllowed` is the type invariant: whatever is
committed satisfies the constraints of its table.

*Server.* `ServerInv` says by how much each timer is ahead of those it is compared
with: a prompt request in the queue has more of its deadline left than of its wait
(`request_timeout > acquire_timeout`), a blocked statement less of its lock limit
than of its statement limit, a draining process no older than its requests' deadlines
and then its grace permit, a statement of a closing pool no longer to run than the
grace has left. `PromptRequestsHeard`, `LockTimeoutNamed`, `ShutdownInTime`,
`ExitLeavesNothing` and `ServerTypeCorrect` read it off, for every configuration
`validate` accepts.

*Money.* Powers of ten are the recursive function `TenTo`. Its laws are proved
without an induction theorem: were one to fail, it would fail for a least exponent
(`Least`, from the well-foundedness of the naturals), and the one before it does
not. From `TenTo[a + b] = TenTo[a] * TenTo[b]` and cancellation, comparing decimals
at their common scale is comparing them at any finer one (`Refine`), equality of
values is transitive, and `Normalize` yields the one decimal of that value with the
smallest scale (`NormalizeLowest`, `CanonicalByValue`). Parsing yields a Decimal
and rounds only where no finer one fits (`ParseFinest`); a text a Decimal can hold is
parsed exactly (`ParseOfDecimal`), and one whose value is an amount of the ledger is
parsed to that value however long it is spelt (`ParseOfWhole`). `MoneyNewExact`: an amount is
accepted exactly if its value is a representable number of units, and what the
column stores is that value. `CheckedArithmetic`: sums, differences and comparisons
of two amounts are those of their units.

*Edge.* `EdgeInv` says what the tables and answers owe to what was sent: a request
has the input made of its body or the refusal the first failing check gives; a
transaction is of a request that was let through, under its key; an entry is of an
account that exists and of the amount let through; an answer the service gave is
still justified. The refusals of the checks are worked out per chain
(`TransferChecked`, `AccountChecked`). It is inductive under the damage too, which
is why `RowsReadBack` and `AmountsKept` hold of a damaged ledger. From it and the
lemmas on money: `EdgeTypeCorrect`, `StatusTruthful`, `AmountsKept`,
`AmountsRefusedDuly`, `HashFollowsValue`, `ArithmeticIsExact`, `RowsReadBack`. `AmountsKept` says that what is stored is what the
parser made of the text, and is the value sent wherever a Decimal can hold it;
`amount_text` shows that the condition is needed.

*Sweep.* `SweepInv`: while nothing was damaged, the ledger is `Intact` (every
transaction has its two postings, every balance its entries) and nothing is
reported; once it was, the ledger is `Scarred` in the way the damage calls for, and
a sweep that began after it and is past the row that sees it has reported it. A
transfer adds the same to a balance and to its entries, so it neither closes nor
opens a gap between them (`MoveKeepsDifference`), and it never gives entries to
another transaction. The sweep can fail only in row 5 (`SweepGivesUp`), and on a sound
ledger it does not: there every derived balance is the balance in the row, which is in
range. `NoFalseAlarms` and `DamageIsReported` follow. A drifted balance
shows in row 5, a truncated log and an empty transaction in row 4.

*Only model-checked:* liveness (`EveryRequestAnswered`, `AnsweredLetsGo`,
`LocksReleased`, `EveryoneSettles`), which needs fairness and is out of the prover's
reach. Every other property of the passing runs is also a theorem.

## Not modelled

Logging and its setup, request ids, error messages, `redact_url` (text for the
log); the bytes of a body and the ISO table;
`max_lifetime` and `idle_timeout`, which recycle connections nobody uses. The
migration runner appears as a lock and a step. PostgreSQL's own deadlock detector
appears only as the conflict it raises. A client that stalls in a request head or
reads its response slowly is not modelled: the timeout layer begins after the one
and ends before the other.

## Keeping it true

A change to a statement of `transfers.rs` is a change to one action of `Transfers`;
the discipline says what the statement may rely on, and `SafetyProofs` and
`RefinementProofs` fail where it no longer can. A new check at the edge is one more
element of `TransferChecks` or `AccountChecks`, a new row of the sweep one more
element of `Rows`. What would extend the model most is a client that reads its
response slowly, and `max_lifetime` beside the timers of `Server`.
