------------------------------ MODULE Transfers ------------------------------
(***************************************************************************)
(* The transfer path (src/db/transfers.rs) run by concurrent requests      *)
(* against one PostgreSQL database under READ COMMITTED.                   *)
(*                                                                         *)
(* Each request is one POST /transfers.  Its control state pc[r] names     *)
(* the SQL statement it is about to issue; a step of the model is one      *)
(* statement, atomic in the database, and steps of different requests      *)
(* interleave.  accounts, transactions and entries hold COMMITTED rows;    *)
(* what an open database transaction has written is in delta[r] and        *)
(* posted[r], visible to r alone until its COMMIT.                         *)
(*                                                                         *)
(* External: row locks, the wait on a unique index, the delivery of the    *)
(* ROLLBACK that sqlx queues when an open transaction is dropped.          *)
(***************************************************************************)
EXTENDS Ledger

CONSTANTS
    Inputs,                       \* validated requests: [key, intent]
    SeedAccounts,                 \* id -> row or None: accounts opened earlier
    AllowFundingAccountCreation,  \* AppState.allow_funding_account_creation
    MaxConnections,               \* PoolConfig.max_connections
    HasBalanceCheck,              \* is accounts_balance_non_negative installed?
    Faults                        \* which faults of FaultKinds may strike

FaultKinds == {"conflict", "lock_timeout", "connection", "cancel"}

ASSUME InputsAssumption ==
    /\ None \notin Inputs
    /\ \A in \in Inputs : /\ in.key \in Keys
                          /\ in.intent \in TransferIntent
                          /\ Representable(in.intent.amount)

ASSUME SeedAssumption ==
    /\ SeedAccounts \in [AccountIds -> AccountRow \cup {None}]
    /\ \A a \in AccountIds :
          SeedAccounts[a] # None => SeedAccounts[a].balance = 0

ASSUME SettingsAssumption ==
    /\ AllowFundingAccountCreation \in BOOLEAN
    /\ HasBalanceCheck \in BOOLEAN
    /\ MaxConnections \in Nat \ {0}
    /\ Faults \subseteq FaultKinds

VARIABLES
    accounts,      \* id -> committed row, or None
    transactions,  \* committed transaction rows
    entries,       \* committed entry rows
    claimedBy,     \* key -> request whose open transaction inserted it
    lockedBy,      \* id -> request whose open transaction locked the row
    delta,         \* request -> uncommitted change of each balance
    posted,        \* request -> uncommitted entries
    locked,        \* request -> the HashMap of rows read FOR UPDATE
    pc,            \* request -> the statement it issues next
    req,           \* request -> its input
    attempt,       \* request -> `attempt` of execute
    result,        \* request -> the TransferResult being assembled
    answer         \* request -> the outcome sent to the client, or None

db == <<accounts, transactions, entries>>
locks == <<claimedBy, lockedBy>>
work == <<delta, posted, locked>>
vars == <<db, locks, work, pc, req, attempt, result, answer>>

-----------------------------------------------------------------------------
(* Control states and outcomes *)

\* Mutant: the loser of a key keeps its transaction while it reads the winner.
InTransaction_KeptByLoser ==
    {"claim", "lock_first", "lock_second", "check", "adjust_from", "adjust_to",
     "post_credit", "post_debit", "commit", "rollback", "find_winner"}

\* Stages inside the database transaction: the request holds a connection.
InTransaction == {"claim", "lock_first", "lock_second", "check", "adjust_from",
                  "adjust_to", "post_credit", "post_debit", "commit", "rollback"}

\* Single statements run on the pool: they need a connection for the statement.
OnPool == {"find", "begin", "find_winner", "get_transaction", "get_entries"}

\* Where the handler awaits the database, and so where a fault can strike.
Awaiting == (OnPool \cup InTransaction) \ {"check", "rollback"}

Stages == OnPool \cup InTransaction \cup {"idle", "done"}

\* LedgerError::code() of the outcomes that are decided, not merely failed.
Rejections == {"account_not_found", "insufficient_funds", "currency_mismatch",
               "self_transfer", "non_positive_amount",
               "idempotency_key_conflict"}

Successes == {"created", "replayed"}

\* Outcomes that leave the client not knowing whether the money moved.
Unknown == {"internal_error", "timeout"}

Outcomes == Rejections \cup Successes \cup Unknown
                \cup {"validation_failed", "transaction_not_found"}

ASSUME OutcomeAssumption == None \notin Outcomes

NoResult == [outcome |-> None, transaction_id |-> None, entries |-> {}]

Results == [outcome : Successes \cup {None},
            transaction_id : TransactionId \cup {None},
            entries : SUBSET Entry]

Key(r) == req[r].key
Intent(r) == req[r].intent
TxnId(r) == <<r, attempt[r]>>

\* Mutant: the accounts are locked sender first.
LockOrder_Unsorted(i) == <<i.from_account_id, i.to_account_id>>

\* lock_order after sort_unstable: the ids in ascending order.
LockOrder(i) == IF i.from_account_id <= i.to_account_id
                THEN <<i.from_account_id, i.to_account_id>>
                ELSE <<i.to_account_id, i.from_account_id>>

-----------------------------------------------------------------------------
(* Waiting *)

Connected == {q \in Requests : pc[q] \in InTransaction}

ConnectionFree == Cardinality(Connected) < MaxConnections

\* The row lock or index entry that the next statement of r needs, if held
\* by another request.
LockBlockers(r) ==
    {q \in Requests \ {r} :
        \/ pc[r] = "claim" /\ claimedBy[Key(r)] = q
        \/ pc[r] = "lock_first" /\ lockedBy[LockOrder(Intent(r))[1]] = q
        \/ pc[r] = "lock_second" /\ lockedBy[LockOrder(Intent(r))[2]] = q
        \/ pc[r] = "adjust_from" /\ lockedBy[Intent(r).from_account_id] = q
        \/ pc[r] = "adjust_to" /\ lockedBy[Intent(r).to_account_id] = q}

\* All that r waits for: a lock, or any one of the connections in use.
Blockers(r) ==
    IF pc[r] \in OnPool
    THEN (IF ConnectionFree THEN {} ELSE Connected)
    ELSE LockBlockers(r)

-----------------------------------------------------------------------------
(* Steps shared by the actions *)

\* r is about to issue the statement of the given stage, its client waiting.
At(r, stage) == pc[r] = stage /\ answer[r] = None

Goto(r, stage) == pc' = [pc EXCEPT ![r] = stage]

Answer(r, outcome) == answer' = [answer EXCEPT ![r] = outcome]

\* The handler returns with no database transaction open.
Conclude(r, outcome) == Goto(r, "done") /\ Answer(r, outcome)

\* Mutant: the row locks outlive the transaction.
EndTransaction_KeepsLocks(r) ==
    /\ claimedBy' = [k \in Keys |-> IF claimedBy[k] = r THEN None ELSE claimedBy[k]]
    /\ delta' = [delta EXCEPT ![r] = [a \in AccountIds |-> 0]]
    /\ posted' = [posted EXCEPT ![r] = {}]
    /\ locked' = [locked EXCEPT ![r] = [a \in AccountIds |-> None]]
    /\ UNCHANGED lockedBy

\* Mutant: an aborted attempt's balance changes survive into the next one.
EndTransaction_KeepsDelta(r) ==
    /\ claimedBy' = [k \in Keys |-> IF claimedBy[k] = r THEN None ELSE claimedBy[k]]
    /\ lockedBy' = [a \in AccountIds |-> IF lockedBy[a] = r THEN None ELSE lockedBy[a]]
    /\ posted' = [posted EXCEPT ![r] = {}]
    /\ locked' = [locked EXCEPT ![r] = [a \in AccountIds |-> None]]
    /\ UNCHANGED delta

\* The end of r's database transaction: its locks and its claim go, and with
\* them what it wrote (a COMMIT has applied that first).
EndTransaction(r) ==
    /\ claimedBy' = [k \in Keys |-> IF claimedBy[k] = r THEN None ELSE claimedBy[k]]
    /\ lockedBy' = [a \in AccountIds |-> IF lockedBy[a] = r THEN None ELSE lockedBy[a]]
    /\ delta' = [delta EXCEPT ![r] = [a \in AccountIds |-> 0]]
    /\ posted' = [posted EXCEPT ![r] = {}]
    /\ locked' = [locked EXCEPT ![r] = [a \in AccountIds |-> None]]

\* A statement fails: PostgreSQL aborts the transaction and drops its locks
\* before the handler sees the error.
FailStatement(r, outcome) ==
    /\ EndTransaction(r)
    /\ Conclude(r, outcome)
    /\ UNCHANGED <<db, req, attempt, result>>

\* The handler returns an error with the transaction open: the client is
\* answered, the ROLLBACK sqlx queued on drop is still to run.
RejectOpen(r, outcome) ==
    /\ Answer(r, outcome)
    /\ Goto(r, "rollback")
    /\ UNCHANGED <<db, locks, work, req, attempt, result>>

-----------------------------------------------------------------------------
(* The transfer path, one action per statement *)

\* A request arrives and passes the edge validation of http::transfers::create.
Deliver(r) ==
    /\ pc[r] = "idle"
    /\ \E in \in Inputs : req' = [req EXCEPT ![r] = in]
    /\ Goto(r, "find")
    /\ UNCHANGED <<db, locks, work, attempt, result, answer>>

Recorded(k) == {t \in transactions : t.idempotency_key = k}

\* Mutant: the stored hash is not compared.
Replay_AnyPayload(r, t) ==
    /\ result' = [result EXCEPT ![r] = [outcome |-> "replayed",
                                        transaction_id |-> t.id, entries |-> {}]]
    /\ Goto(r, "get_transaction")
    /\ UNCHANGED answer

\* Mutant: a replay is reported as 201 Created.
Replay_AsCreated(r, t) ==
    IF t.request_hash # RequestHash(Intent(r))
    THEN Conclude(r, "idempotency_key_conflict") /\ UNCHANGED result
    ELSE /\ result' = [result EXCEPT ![r] = [outcome |-> "created",
                                             transaction_id |-> t.id, entries |-> {}]]
         /\ Goto(r, "get_transaction")
         /\ UNCHANGED answer

\* Same key, same hash: return the original.  Same key, other hash: conflict.
Replay(r, t) ==
    IF t.request_hash # RequestHash(Intent(r))
    THEN /\ Conclude(r, "idempotency_key_conflict")
         /\ UNCHANGED result
    ELSE /\ result' = [result EXCEPT ![r] = [outcome |-> "replayed",
                                             transaction_id |-> t.id,
                                             entries |-> {}]]
         /\ Goto(r, "get_transaction")
         /\ UNCHANGED answer

\* The fast path finds the key committed.
FindRecord(r) ==
    /\ At(r, "find") /\ ConnectionFree
    /\ \E t \in Recorded(Key(r)) : Replay(r, t)
    /\ UNCHANGED <<db, locks, work, req, attempt>>

\* The fast path finds nothing: the checks that need no database.
FindNothing(r) ==
    /\ At(r, "find") /\ ConnectionFree
    /\ Recorded(Key(r)) = {}
    /\ LET i == Intent(r)
           self == i.from_account_id = i.to_account_id
       IN \/ self /\ Conclude(r, "self_transfer")
          \/ ~self /\ ~(i.amount > 0) /\ Conclude(r, "non_positive_amount")
          \/ ~self /\ i.amount > 0 /\ Goto(r, "begin") /\ UNCHANGED answer
    /\ UNCHANGED <<db, locks, work, req, attempt, result>>

\* pool.begin()
Begin(r) ==
    /\ At(r, "begin") /\ ConnectionFree
    /\ Goto(r, "claim")
    /\ UNCHANGED <<db, locks, work, req, attempt, result, answer>>

\* Mutant: no unique index, only the read before the insert.
ClaimKey_NotUnique(r) ==
    /\ At(r, "claim")
    /\ claimedBy' = [claimedBy EXCEPT ![Key(r)] = r]
    /\ Goto(r, "lock_first")
    /\ UNCHANGED <<db, lockedBy, work, req, attempt, result, answer>>

\* INSERT INTO transactions: claims the key, unless it waits on another claim.
ClaimKey(r) ==
    /\ At(r, "claim")
    /\ claimedBy[Key(r)] = None
    /\ Recorded(Key(r)) = {}
    /\ claimedBy' = [claimedBy EXCEPT ![Key(r)] = r]
    /\ Goto(r, "lock_first")
    /\ UNCHANGED <<db, lockedBy, work, req, attempt, result, answer>>

\* Mutant: the INSERT fails at once on a key that is claimed but not committed.
ClaimCollides_Early(r) ==
    /\ At(r, "claim")
    /\ claimedBy[Key(r)] # None \/ Recorded(Key(r)) # {}
    /\ EndTransaction(r)
    /\ Goto(r, "find_winner")
    /\ UNCHANGED <<db, req, attempt, result, answer>>

\* The same INSERT fails with 23505 and the transaction is rolled back.
ClaimCollides(r) ==
    /\ At(r, "claim")
    /\ claimedBy[Key(r)] = None
    /\ Recorded(Key(r)) # {}
    /\ EndTransaction(r)
    /\ Goto(r, "find_winner")
    /\ UNCHANGED <<db, req, attempt, result, answer>>

\* The loser reads the winner's row on a fresh connection.
FindWinner(r) ==
    /\ At(r, "find_winner") /\ ConnectionFree
    /\ IF Recorded(Key(r)) = {}
       THEN Conclude(r, "validation_failed") /\ UNCHANGED result
       ELSE \E t \in Recorded(Key(r)) : Replay(r, t)
    /\ UNCHANGED <<db, locks, work, req, attempt>>

\* Mutant: a plain SELECT, as accounts::fetch is.
FetchForUpdate_Plain(r, a, next) ==
    IF accounts[a] = None
    THEN RejectOpen(r, "account_not_found")
    ELSE /\ locked' = [locked EXCEPT ![r][a] = accounts[a]]
         /\ Goto(r, next)
         /\ UNCHANGED <<db, locks, delta, posted, req, attempt, result, answer>>

\* SELECT ... FOR UPDATE: wait for the lock, return the newest committed row.
FetchForUpdate(r, a, next) ==
    /\ lockedBy[a] = None
    /\ IF accounts[a] = None
       THEN RejectOpen(r, "account_not_found")
       ELSE /\ lockedBy' = [lockedBy EXCEPT ![a] = r]
            /\ locked' = [locked EXCEPT ![r][a] = accounts[a]]
            /\ Goto(r, next)
            /\ UNCHANGED <<db, claimedBy, delta, posted, req, attempt, result, answer>>

LockFirst(r) ==
    At(r, "lock_first") /\ FetchForUpdate(r, LockOrder(Intent(r))[1], "lock_second")

LockSecond(r) ==
    At(r, "lock_second") /\ FetchForUpdate(r, LockOrder(Intent(r))[2], "check")

\* Mutant: a sender with exactly the amount is refused.
Check_Strict(r) ==
    LET i == Intent(r)
        from == locked[r][i.from_account_id]
        to == locked[r][i.to_account_id]
        sameCurrency == from.currency = i.currency /\ to.currency = i.currency
        funded == from.allows_negative_balance \/ from.balance > i.amount
    IN /\ At(r, "check")
       /\ \/ ~sameCurrency /\ RejectOpen(r, "currency_mismatch")
          \/ sameCurrency /\ ~funded /\ RejectOpen(r, "insufficient_funds")
          \/ /\ sameCurrency /\ funded
             /\ Goto(r, "adjust_from")
             /\ UNCHANGED <<db, locks, work, req, attempt, result, answer>>

\* Mutant: the funds are left to the CHECK constraint.
Check_Unfunded(r) ==
    LET i == Intent(r)
    IN /\ At(r, "check")
       /\ IF \A a \in {i.from_account_id, i.to_account_id} :
                 locked[r][a].currency = i.currency
          THEN /\ Goto(r, "adjust_from")
               /\ UNCHANGED <<db, locks, work, req, attempt, result, answer>>
          ELSE RejectOpen(r, "currency_mismatch")

\* The checks on the locked copies: currency of both, then funds of the sender.
Check(r) ==
    LET i == Intent(r)
        from == locked[r][i.from_account_id]
        to == locked[r][i.to_account_id]
        sameCurrency == from.currency = i.currency /\ to.currency = i.currency
        funded == from.allows_negative_balance \/ from.balance >= i.amount
    IN /\ At(r, "check")
       /\ \/ ~sameCurrency /\ RejectOpen(r, "currency_mismatch")
          \/ sameCurrency /\ ~funded /\ RejectOpen(r, "insufficient_funds")
          \/ /\ sameCurrency /\ funded
             /\ Goto(r, "adjust_from")
             /\ UNCHANGED <<db, locks, work, req, attempt, result, answer>>

\* Mutant: the UPDATE runs on the pool, outside the transaction.
AdjustBalance_OnPool(r, a, d, next) ==
    /\ lockedBy[a] \in {None, r}
    /\ accounts' = [accounts EXCEPT ![a].balance = @ + d]
    /\ Goto(r, next)
    /\ UNCHANGED <<transactions, entries, locks, work, req, attempt, result, answer>>

\* UPDATE accounts SET balance = balance + $1: applied to the newest row.
AdjustBalance(r, a, d, next) ==
    LET row == [accounts[a] EXCEPT !.balance = @ + delta[r][a] + d]
    IN /\ lockedBy[a] \in {None, r}
       /\ IF ~Representable(row.balance)
          THEN FailStatement(r, "internal_error")
          ELSE IF HasBalanceCheck /\ ~BalanceNonNegative(row)
          THEN FailStatement(r, "insufficient_funds")
          ELSE /\ lockedBy' = [lockedBy EXCEPT ![a] = r]
               /\ delta' = [delta EXCEPT ![r][a] = @ + d]
               /\ Goto(r, next)
               /\ UNCHANGED <<db, claimedBy, posted, locked, req, attempt, result, answer>>

AdjustFrom(r) ==
    /\ At(r, "adjust_from")
    /\ AdjustBalance(r, Intent(r).from_account_id, -Intent(r).amount, "adjust_to")

\* Mutant: the entries are never written.
AdjustTo_NoEntries(r) ==
    /\ At(r, "adjust_to")
    /\ AdjustBalance(r, Intent(r).to_account_id, Intent(r).amount, "commit")

AdjustTo(r) ==
    /\ At(r, "adjust_to")
    /\ AdjustBalance(r, Intent(r).to_account_id, Intent(r).amount, "post_credit")

\* Mutant: the id of the first attempt is kept for the retries.
InsertEntry_FirstId(r, a, direction, next) ==
    LET e == [transaction_id |-> <<r, 0>>, account_id |-> a, direction |-> direction,
              amount |-> Intent(r).amount, currency |-> Intent(r).currency]
    IN IF EntryAllowed(e, accounts)
       THEN /\ posted' = [posted EXCEPT ![r] = @ \cup {e}]
            /\ Goto(r, next)
            /\ UNCHANGED <<db, locks, delta, locked, req, attempt, result, answer>>
       ELSE FailStatement(r, "internal_error")

InsertEntry(r, a, direction, next) ==
    LET e == [transaction_id |-> TxnId(r), account_id |-> a, direction |-> direction,
              amount |-> Intent(r).amount, currency |-> Intent(r).currency]
    IN IF EntryAllowed(e, accounts)
       THEN /\ posted' = [posted EXCEPT ![r] = @ \cup {e}]
            /\ Goto(r, next)
            /\ UNCHANGED <<db, locks, delta, locked, req, attempt, result, answer>>
       ELSE FailStatement(r, "internal_error")

PostCredit(r) ==
    /\ At(r, "post_credit")
    /\ InsertEntry(r, Intent(r).from_account_id, "credit", "post_debit")

\* Mutant: both legs are credits.
PostDebit_Credit(r) ==
    /\ At(r, "post_debit")
    /\ InsertEntry(r, Intent(r).to_account_id, "credit", "commit")

PostDebit(r) ==
    /\ At(r, "post_debit")
    /\ InsertEntry(r, Intent(r).to_account_id, "debit", "commit")

\* What a COMMIT makes visible, all of it at once.
Apply(r) ==
    /\ transactions' = transactions \cup
           {[id |-> TxnId(r), idempotency_key |-> Key(r),
             request_hash |-> RequestHash(Intent(r))]}
    /\ entries' = entries \cup posted[r]
    /\ accounts' = [a \in AccountIds |->
           IF accounts[a] = None THEN None
           ELSE [accounts[a] EXCEPT !.balance = @ + delta[r][a]]]

\* COMMIT, with the deferred balance trigger.
Commit(r) ==
    /\ At(r, "commit")
    /\ IF TransactionBalanced(posted[r])
       THEN /\ Apply(r)
            /\ EndTransaction(r)
            /\ result' = [result EXCEPT ![r] = [outcome |-> "created",
                                                transaction_id |-> TxnId(r),
                                                entries |-> {}]]
            /\ Goto(r, "get_transaction")
            /\ UNCHANGED <<req, attempt, answer>>
       ELSE FailStatement(r, "internal_error")

\* transactions::get, first statement
GetTransaction(r) ==
    /\ At(r, "get_transaction") /\ ConnectionFree
    /\ IF \E t \in transactions : t.id = result[r].transaction_id
       THEN Goto(r, "get_entries") /\ UNCHANGED answer
       ELSE Conclude(r, "transaction_not_found")
    /\ UNCHANGED <<db, locks, work, req, attempt, result>>

\* transactions::get, second statement: the response is complete.
GetEntries(r) ==
    /\ At(r, "get_entries") /\ ConnectionFree
    /\ result' = [result EXCEPT ![r].entries =
                      EntriesOf(result[r].transaction_id, entries)]
    /\ Conclude(r, result[r].outcome)
    /\ UNCHANGED <<db, locks, work, req, attempt>>

-----------------------------------------------------------------------------
(* Failures *)

\* Mutant: one retry too many.
ConflictAbort_OneMore(r) ==
    /\ "conflict" \in Faults
    /\ answer[r] = None /\ pc[r] \in Awaiting
    /\ attempt[r] <= MaxConflictRetries
    /\ EndTransaction(r)
    /\ attempt' = [attempt EXCEPT ![r] = @ + 1]
    /\ result' = [result EXCEPT ![r] = NoResult]
    /\ Goto(r, "find")
    /\ UNCHANGED <<db, req, answer>>

\* A statement fails with 40001 or 40P01: execute starts over, or gives up.
ConflictAbort(r) ==
    /\ "conflict" \in Faults
    /\ answer[r] = None /\ pc[r] \in Awaiting
    /\ EndTransaction(r)
    /\ \/ /\ attempt[r] < MaxConflictRetries
          /\ attempt' = [attempt EXCEPT ![r] = @ + 1]
          /\ result' = [result EXCEPT ![r] = NoResult]
          /\ Goto(r, "find")
          /\ UNCHANGED answer
       \/ /\ attempt[r] >= MaxConflictRetries
          /\ Conclude(r, "internal_error")
          /\ UNCHANGED <<attempt, result>>
    /\ UNCHANGED <<db, req>>

\* lock_timeout cancels a statement that waits for a lock (55P03).
LockTimeout(r) ==
    /\ "lock_timeout" \in Faults
    /\ answer[r] = None
    /\ LockBlockers(r) # {}
    /\ FailStatement(r, "internal_error")

\* Mutant: a dropped handler leaves its transaction open for ever.
Abandon_Leaks(r) ==
    /\ answer[r] = None /\ pc[r] \in Awaiting
    /\ \/ "cancel" \in Faults /\ Answer(r, "timeout")
       \/ "connection" \in Faults /\ Answer(r, "internal_error")
    /\ Goto(r, "done")
    /\ UNCHANGED <<db, locks, work, req, attempt, result>>

\* The client is answered while the statement is under way: the TimeoutLayer
\* drops the handler, or its connection or the wait for one fails.
Abandon(r) ==
    /\ answer[r] = None /\ pc[r] \in Awaiting
    /\ \/ "cancel" \in Faults /\ Answer(r, "timeout")
       \/ "connection" \in Faults /\ Answer(r, "internal_error")
    /\ IF pc[r] \in InTransaction THEN UNCHANGED pc ELSE Goto(r, "done")
    /\ UNCHANGED <<db, locks, work, req, attempt, result>>

\* The transaction nobody waits for any more is rolled back, once the
\* statement it was in has ended.
Rollback(r) ==
    /\ answer[r] # None /\ pc[r] \in InTransaction
    /\ LockBlockers(r) = {} \/ "lock_timeout" \in Faults
    /\ EndTransaction(r)
    /\ Goto(r, "done")
    /\ UNCHANGED <<db, req, attempt, result, answer>>

\* ... unless the statement under way was the COMMIT, and it got through.
LateCommit(r) ==
    /\ answer[r] # None /\ pc[r] = "commit"
    /\ TransactionBalanced(posted[r])
    /\ Apply(r)
    /\ EndTransaction(r)
    /\ Goto(r, "done")
    /\ UNCHANGED <<req, attempt, result, answer>>

-----------------------------------------------------------------------------
(* Accounts *)

\* POST /accounts: a new row with balance 0.  Only the operator's policy
\* lets a caller open an account that may go negative.
CreateAccount(a, currency, allowsNegative) ==
    /\ ConnectionFree
    /\ accounts[a] = None
    /\ allowsNegative => AllowFundingAccountCreation
    /\ accounts' = [accounts EXCEPT ![a] =
           [currency |-> currency, balance |-> 0,
            allows_negative_balance |-> allowsNegative]]
    /\ UNCHANGED <<transactions, entries, locks, work, pc, req, attempt, result, answer>>

-----------------------------------------------------------------------------
(* Specification *)

Init ==
    /\ accounts = SeedAccounts
    /\ transactions = {}
    /\ entries = {}
    /\ claimedBy = [k \in Keys |-> None]
    /\ lockedBy = [a \in AccountIds |-> None]
    /\ delta = [r \in Requests |-> [a \in AccountIds |-> 0]]
    /\ posted = [r \in Requests |-> {}]
    /\ locked = [r \in Requests |-> [a \in AccountIds |-> None]]
    /\ pc = [r \in Requests |-> "idle"]
    /\ req = [r \in Requests |-> None]
    /\ attempt = [r \in Requests |-> 0]
    /\ result = [r \in Requests |-> NoResult]
    /\ answer = [r \in Requests |-> None]

\* The steps the handler, the runtime and the database owe every request.
Step(r) ==
    \/ FindRecord(r) \/ FindNothing(r) \/ Begin(r)
    \/ ClaimKey(r) \/ ClaimCollides(r) \/ FindWinner(r)
    \/ LockFirst(r) \/ LockSecond(r) \/ Check(r)
    \/ AdjustFrom(r) \/ AdjustTo(r) \/ PostCredit(r) \/ PostDebit(r)
    \/ Commit(r) \/ GetTransaction(r) \/ GetEntries(r)
    \/ Rollback(r) \/ LateCommit(r)

Fault(r) == ConflictAbort(r) \/ LockTimeout(r) \/ Abandon(r)

\* Every request has been served: the server idles.
AllServed == (\A r \in Requests : pc[r] = "done") /\ UNCHANGED vars

Next ==
    \/ \E r \in Requests : Deliver(r) \/ Step(r) \/ Fault(r)
    \/ \E a \in AccountIds, c \in Currencies, n \in BOOLEAN : CreateAccount(a, c, n)
    \/ AllServed

Spec == Init /\ [][Next]_vars

Fairness == \A r \in Requests : WF_vars(Step(r))

FairSpec == Spec /\ Fairness
-----------------------------------------------------------------------------
(* Properties *)

\* Every variable has its type.  Of substance here: execute never starts more
\* than MAX_CONFLICT_RETRIES extra attempts, and no committed balance leaves
\* the range of its NUMERIC(20, 8) column.
TypeOK ==
    /\ accounts \in [AccountIds -> AccountRow \cup {None}]
    /\ \A a \in AccountIds : accounts[a] # None => Representable(accounts[a].balance)
    /\ transactions \subseteq TransactionRow
    /\ entries \subseteq Entry
    /\ claimedBy \in [Keys -> Requests \cup {None}]
    /\ lockedBy \in [AccountIds -> Requests \cup {None}]
    /\ delta \in [Requests -> [AccountIds -> Int]]
    /\ posted \in [Requests -> SUBSET Entry]
    /\ locked \in [Requests -> [AccountIds -> AccountRow \cup {None}]]
    /\ pc \in [Requests -> Stages]
    /\ req \in [Requests -> Inputs \cup {None}]
    /\ attempt \in [Requests -> 0 .. MaxConflictRetries]
    /\ result \in [Requests -> Results]
    /\ answer \in [Requests -> Outcomes \cup {None}]

\* Invariant #2 of the ledger: no account without allows_negative_balance is
\* ever committed below zero, however drains interleave (transfers.rs 1-38;
\* the sweep's no_unauthorized_negative_balance).
NoOverdraft == NoNegativeBalance(accounts)

\* Invariants #1 and #3: every committed transaction has its entries, they
\* balance in one currency, and the whole log nets to zero.
LogBalanced == /\ NoEmptyTransactions(transactions, entries)
               /\ TransactionShape(entries)
               /\ PerTransactionBalanced(entries)
               /\ GlobalSumZero(entries)

\* The materialized balances agree with the log in every committed state: no
\* update is lost and none is applied twice.
BalancesMatchLog == BalanceMatchesEntries(accounts, entries)

\* Invariant #4: an idempotency key belongs to at most one transaction, retries
\* of execute and of the client included.
OneTransactionPerKey == KeysUnique(transactions)

\* Stages at which the funds check has been passed but not yet committed.
Authorized == {"adjust_from", "adjust_to", "post_credit", "post_debit", "commit"}

\* The check and the debit it authorizes are one atomic step: from the check to
\* COMMIT the committed row of the sender is the row that was checked, and it
\* still covers the amount.
FundsSecured ==
    \A r \in Requests : pc[r] \in Authorized =>
        LET a == Intent(r).from_account_id
        IN /\ accounts[a] = locked[r][a]
           /\ \/ accounts[a].allows_negative_balance
              \/ accounts[a].balance >= Intent(r).amount

\* No set of requests waits only for one another: for row locks, for a claimed
\* key or for a pooled connection.  The ascending lock order, and a handler
\* that never waits for a second connection, are what this rests on.
NoWaitCycle ==
    \A S \in (SUBSET Requests) \ {{}} :
        \E r \in S : Blockers(r) = {} \/ ~(Blockers(r) \subseteq S)

\* The committed transaction t is the one r asked for and is about to report.
Reports(r, t) ==
    /\ t.id = result[r].transaction_id
    /\ t.idempotency_key = Key(r)
    /\ t.request_hash = RequestHash(Intent(r))
    /\ result[r].outcome = "created" => t.id = TxnId(r)

\* What a client is told is so.  After a typed rejection no transaction of that
\* request ever commits; a success shows a committed transaction with the
\* request's own key and payload and exactly its two postings.
AnswersTruthful ==
    \A r \in Requests :
        /\ answer[r] \in Rejections => \A t \in transactions : t.id[1] # r
        /\ answer[r] \in Successes =>
              /\ answer[r] = result[r].outcome
              /\ \E t \in transactions :
                    /\ Reports(r, t)
                    /\ result[r].entries = Postings(t.id, Intent(r))

\* All successful answers for one key describe one transaction, entry for
\* entry, and at most one of them says 201 Created.
ReplaysAgree ==
    \A r, q \in Requests :
        r # q /\ answer[r] \in Successes /\ answer[q] \in Successes
              /\ Key(r) = Key(q) =>
            /\ result[r].transaction_id = result[q].transaction_id
            /\ result[r].entries = result[q].entries
            /\ ~(answer[r] = "created" /\ answer[q] = "created")

\* The branch transfers.rs 188-195 calls unreachable is: a collision on the key
\* always finds the winner's row, and a transaction once found or committed can
\* be fetched.
WinnerAlwaysFound ==
    \A r \in Requests :
        answer[r] \notin {"validation_failed", "transaction_not_found"}

\* With no fault, no request fails: each is created, replayed or refused with a
\* typed error (error.rs 3-7).
NoInternalError == \A r \in Requests : answer[r] # "internal_error"

\* The log is append-only: rows stay, an old transaction gains no entry, money
\* moves only with a new transaction, and currency and overdraft terms of an
\* account never change.
AppendOnly ==
    [][/\ transactions \subseteq transactions'
       /\ entries \subseteq entries'
       /\ \A e \in entries' \ entries :
             \A t \in transactions : t.id # e.transaction_id
       /\ transactions' = transactions =>
             \A a \in AccountIds : accounts[a] # None => accounts'[a] = accounts[a]
       /\ \A a \in AccountIds : accounts[a] # None =>
             /\ accounts'[a] # None
             /\ accounts'[a].currency = accounts[a].currency
             /\ accounts'[a].allows_negative_balance
                    = accounts[a].allows_negative_balance]_vars

\* Every request that reaches the service is answered.
EveryRequestAnswered ==
    \A r \in Requests : pc[r] = "find" ~> answer[r] # None

\* "A rejected transfer releases its key" (transfers.rs 67-72): once a client is
\* answered, its request comes to hold no lock, no key and no connection.
AnsweredLetsGo ==
    \A r \in Requests :
        answer[r] # None ~> /\ pc[r] = "done"
                            /\ \A k \in Keys : claimedBy[k] # r
                            /\ \A a \in AccountIds : lockedBy[a] # r

-----------------------------------------------------------------------------
(* The inductive invariant: what an open database transaction holds, has     *)
(* checked and has written at each stage, a transaction whose client was     *)
(* already answered included.                                                *)

\* The request was received and, from begin on, passed the checks that need no
\* database.
RequestSound(r) ==
    /\ req[r] = None <=> pc[r] = "idle"
    /\ pc[r] \in InTransaction \cup {"begin"} =>
          /\ Intent(r).from_account_id # Intent(r).to_account_id
          /\ Intent(r).amount > 0

Claiming == {"lock_first", "lock_second", "check"} \cup Authorized

\* From its INSERT on, r alone has the key, and no committed row carries it.
KeyClaimed(r) ==
    pc[r] \in Claiming => claimedBy[Key(r)] = r /\ Recorded(Key(r)) = {}

\* r has the row lock and its copy is the committed row.
HoldsRow(r, a) ==
    lockedBy[a] = r /\ accounts[a] # None /\ locked[r][a] = accounts[a]

RowsLocked(r) ==
    /\ pc[r] = "lock_second" => HoldsRow(r, LockOrder(Intent(r))[1])
    /\ pc[r] \in {"check"} \cup Authorized =>
          /\ HoldsRow(r, Intent(r).from_account_id)
          /\ HoldsRow(r, Intent(r).to_account_id)

AfterDebit == Authorized \ {"adjust_from"}
AfterCredit == AfterDebit \ {"adjust_to"}

\* What the checks and the two UPDATEs established stays true of the committed
\* rows until COMMIT.
StillAuthorized(r) ==
    LET i == Intent(r)
        from == accounts[i.from_account_id]
        to == accounts[i.to_account_id]
    IN /\ pc[r] \in Authorized =>
             /\ from.currency = i.currency /\ to.currency = i.currency
             /\ from.allows_negative_balance \/ from.balance >= i.amount
       /\ pc[r] \in AfterDebit => Representable(from.balance - i.amount)
       /\ pc[r] \in AfterCredit => Representable(to.balance + i.amount)

ExpectedDelta(r) ==
    LET i == Intent(r)
    IN [a \in AccountIds |->
           IF pc[r] \in AfterDebit /\ a = i.from_account_id THEN -i.amount
           ELSE IF pc[r] \in AfterCredit /\ a = i.to_account_id THEN i.amount
           ELSE 0]

ExpectedPosted(r) ==
    IF pc[r] = "commit" THEN Postings(TxnId(r), Intent(r))
    ELSE IF pc[r] = "post_debit"
    THEN {e \in Postings(TxnId(r), Intent(r)) : e.direction = "credit"}
    ELSE {}

\* The uncommitted writes are exactly those of the statements executed so far.
WritesExpected(r) == delta[r] = ExpectedDelta(r) /\ posted[r] = ExpectedPosted(r)

Disciplined(r) == /\ RequestSound(r)
                  /\ KeyClaimed(r)
                  /\ RowsLocked(r)
                  /\ StillAuthorized(r)
                  /\ WritesExpected(r)

\* The discipline of the transfer path, from which its safety follows: at every
\* stage an open transaction has its key and its locks, its copies are fresh,
\* the funds are there and its writes are those of the stages passed, whatever
\* the other requests do and whether or not its client still waits.
TransferDiscipline == \A r \in Requests : Disciplined(r)

\* Every committed transaction is the payload of the request that committed it,
\* with exactly its two postings, and no entry is an orphan.
HistorySound ==
    /\ \A t \in transactions :
          LET r == t.id[1]
          IN /\ req[r] # None
             /\ t.idempotency_key = Key(r)
             /\ t.request_hash = RequestHash(Intent(r))
             /\ EntriesOf(t.id, entries) = Postings(t.id, Intent(r))
    /\ \A e \in entries : \E t \in transactions : t.id = e.transaction_id

\* An answer given before the handler was through is not a decision; the loser
\* of a key has a winner to read; what is being fetched is committed.
ReplyBacked(r) ==
    /\ answer[r] # None => pc[r] \in {"rollback", "done"} \/ answer[r] \in Unknown
    /\ pc[r] = "find_winner" => Recorded(Key(r)) # {}
    /\ pc[r] \in {"get_transaction", "get_entries"} =>
          /\ result[r].outcome \in Successes
          /\ \E t \in transactions : Reports(r, t)

\* With TransferDiscipline, enough to justify every answer.
RepliesBacked == \A r \in Requests : ReplyBacked(r)

\* The transfer path implements the abstract service.
Service == INSTANCE TransferService

-----------------------------------------------------------------------------
(* The transfer path as a client of the schema.  Each request is a session;  *)
(* the id of its database transaction is that of the one row it inserts.     *)

InDatabase(t) == [id |-> t.id, idempotency_key |-> t.idempotency_key, created_xid |-> t.id]

EntryInDatabase(e) ==
    [id |-> <<e.transaction_id, e.direction>>, transaction_id |-> e.transaction_id,
     account_id |-> e.account_id, direction |-> e.direction, amount |-> e.amount,
     currency |-> e.currency]

\* The row versions the open transaction of r has written.
WroteInDatabase(r) ==
    [accounts |-> [a \in AccountIds |->
         IF delta[r][a] = 0 THEN None
         ELSE [accounts[a] EXCEPT !.balance = @ + delta[r][a]]],
     transactions |-> {[id |-> TxnId(r), idempotency_key |-> k, created_xid |-> TxnId(r)] :
                           k \in {k \in Keys : claimedBy[k] = r}},
     entries |-> {EntryInDatabase(e) : e \in posted[r]}]

\* Stages of an attempt before its BEGIN.
BeforeBegin == {"idle", "find", "begin"}

\* The transaction ids used up: those of earlier attempts, and the current one's
\* once it has begun.  An id whose attempt ends before BEGIN is taken by some
\* other transaction of the cluster.
SpentIds ==
    {id \in TransactionId :
        \/ id[2] < attempt[id[1]]
        \/ id[2] = attempt[id[1]] /\ pc[id[1]] \notin BeforeBegin}

Storage == INSTANCE Schema WITH
    Sessions <- Requests,
    TransactionIds <- TransactionId,
    EntryIds <- TransactionId \X Direction,
    Xids <- TransactionId,
    Amounts <- {in.intent.amount : in \in Inputs},
    Balances <- (-MaxMagnitude) .. MaxMagnitude,
    transactions <- {InDatabase(t) : t \in transactions},
    entries <- {EntryInDatabase(e) : e \in entries},
    spent <- SpentIds,
    xid <- [r \in Requests |-> IF pc[r] \in InTransaction THEN TxnId(r) ELSE None],
    failed <- [r \in Requests |-> FALSE],
    wrote <- [r \in Requests |-> WroteInDatabase(r)]

\* The transfer path uses the schema as its constraints and triggers allow: every
\* statement is one the schema accepts, none is refused by a trigger the code
\* does not expect (transfers.rs 166-262), an aborted attempt leaves no row and
\* only COMMIT shows rows to others.  What Schema promises of any SQL so holds
\* of the transfer path.
ObeysSchema == Storage!Spec

\* Every answer is true of the committed ledger at the moment it is given, and
\* every transfer takes effect in one step.
ImplementsService == Service!Spec
=============================================================================
