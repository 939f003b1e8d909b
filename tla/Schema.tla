------------------------------- MODULE Schema -------------------------------
(***************************************************************************)
(* What migrations/0001_init.sql enforces on its own: concurrent sessions  *)
(* that issue any INSERT, UPDATE or DELETE on the three tables, not only   *)
(* the statements of the transfer path.                                    *)
(*                                                                         *)
(* A step is one statement.  accounts, transactions and entries hold       *)
(* committed rows; wrote[s] is what the open transaction of s has written. *)
(* A statement that a constraint or a trigger refuses leaves the session   *)
(* able to do nothing but ROLLBACK.  An INSERT of a transaction row may    *)
(* leave created_xid to its DEFAULT or name any transaction id: one that   *)
(* has ended, one that is open elsewhere, or one still to come.            *)
(*                                                                         *)
(* External: row versions, locks and unique-index waits of PostgreSQL.     *)
(***************************************************************************)
EXTENDS Ledger

CONSTANTS
    Sessions,        \* connections open to the database
    TransactionIds,  \* UUIDs of transaction rows
    EntryIds,        \* UUIDs of entry rows
    Amounts,         \* amounts an INSERT of an entry may carry
    Balances,        \* balances an INSERT or UPDATE of an account may carry
    SeedAccounts,    \* id -> row or None: accounts committed earlier
    Xids             \* ids of database transactions

ASSUME SchemaAssumption ==
    /\ Amounts \subseteq Int
    /\ Balances \subseteq Int
    /\ SeedAccounts \in [AccountIds -> AccountRow \cup {None}]
    /\ \A a \in AccountIds : SeedAccounts[a] # None =>
          Representable(SeedAccounts[a].balance) /\ BalanceNonNegative(SeedAccounts[a])
    /\ None \notin Xids

VARIABLES
    accounts,      \* id -> committed row, or None
    transactions,  \* committed transaction rows
    entries,       \* committed entry rows
    spent,         \* transaction ids pg_current_xact_id() has handed out
    xid,           \* session -> pg_current_xact_id(), or None
    failed,        \* session -> has a statement of its transaction failed?
    wrote          \* session -> rows its open transaction has written

vars == <<accounts, transactions, entries, spent, xid, failed, wrote>>

TransactionRows == [id : TransactionIds, idempotency_key : Keys, created_xid : Xids]

EntryRows == [id : EntryIds, transaction_id : TransactionIds, account_id : AccountIds,
              direction : Direction, amount : Int, currency : Currencies]

\* accounts holds the new row versions, None where nothing was written.
Writes == [accounts : [AccountIds -> AccountRow \cup {None}],
           transactions : SUBSET TransactionRows,
           entries : SUBSET EntryRows]

NoWrites == [accounts |-> [a \in AccountIds |-> None], transactions |-> {}, entries |-> {}]

-----------------------------------------------------------------------------
(* What a session sees and waits for *)

Writing(s) == xid[s] # None /\ ~failed[s]

Others(s) == Sessions \ {s}

\* Committed rows overlaid with the session's own.
SeenAccounts(s) ==
    [a \in AccountIds |-> IF wrote[s].accounts[a] # None
                          THEN wrote[s].accounts[a] ELSE accounts[a]]

SeenTransactions(s) == transactions \cup wrote[s].transactions

SeenEntries(s) == entries \cup wrote[s].entries

\* No other open transaction has written the row.
Unlocked(s, a) == \A q \in Others(s) : wrote[q].accounts[a] = None

-----------------------------------------------------------------------------
(* Statements *)

\* A statement succeeds with the given writes, or fails the transaction.
Statement(s, allowed, writes) ==
    /\ IF allowed
       THEN wrote' = [wrote EXCEPT ![s] = writes] /\ UNCHANGED failed
       ELSE failed' = [failed EXCEPT ![s] = TRUE] /\ UNCHANGED wrote
    /\ UNCHANGED <<accounts, transactions, entries, spent, xid>>

WriteAccount(s, a, row) == [wrote[s] EXCEPT !.accounts[a] = row]

\* pg_current_xact_id() never returns an id twice.
Begin(s) ==
    /\ xid[s] = None
    /\ \E x \in Xids \ spent :
          /\ spent' = spent \cup {x}
          /\ xid' = [xid EXCEPT ![s] = x]
    /\ UNCHANGED <<accounts, transactions, entries, failed, wrote>>

\* Another transaction of the cluster, one that writes nothing here, uses up an id.
TakeXid(x) ==
    /\ x \notin spent
    /\ spent' = spent \cup {x}
    /\ UNCHANGED <<accounts, transactions, entries, xid, failed, wrote>>

\* NUMERIC(20, 8) and accounts_balance_non_negative
AccountAllowed(row) == Representable(row.balance) /\ BalanceNonNegative(row)

InsertAccount(s, a, row) ==
    /\ Writing(s)
    /\ Unlocked(s, a)
    /\ Statement(s, SeenAccounts(s)[a] = None /\ AccountAllowed(row),
                 WriteAccount(s, a, row))

\* reject_account_mutation on UPDATE: only balance may change.
TermsFixed(old, new) ==
    /\ new.currency = old.currency
    /\ new.allows_negative_balance = old.allows_negative_balance

\* UPDATE accounts waits for the row lock and is judged on the newest version.
\* The BEFORE trigger refuses a new currency before the foreign key of the
\* entries that refer to the row is looked at.
UpdateAccount(s, a, new) ==
    LET old == SeenAccounts(s)[a]
    IN /\ Writing(s)
       /\ old # None
       /\ Unlocked(s, a)
       /\ Statement(s, TermsFixed(old, new) /\ AccountAllowed(new), WriteAccount(s, a, new))

\* reject_account_mutation on DELETE
DeleteAccount(s, a) ==
    /\ Writing(s)
    /\ SeenAccounts(s)[a] # None
    /\ Unlocked(s, a)
    /\ Statement(s, FALSE, wrote[s])

TransactionCollides(t, u) == t.id = u.id \/ t.idempotency_key = u.idempotency_key

\* x is the DEFAULT, xid[s], or an id the INSERT names: nothing checks the
\* column.  The unique indexes wait on uncommitted rows.
InsertTransaction(s, id, key, x) ==
    LET t == [id |-> id, idempotency_key |-> key, created_xid |-> x]
    IN /\ Writing(s)
       /\ \A q \in Others(s) :
             \A u \in wrote[q].transactions : ~TransactionCollides(t, u)
       /\ Statement(s, \A u \in SeenTransactions(s) : ~TransactionCollides(t, u),
                    [wrote[s] EXCEPT !.transactions = @ \cup {t}])

\* Mutant: any existing parent will do.
EntryInParentXact_Dropped(s, e) ==
    \E t \in SeenTransactions(s) : t.id = e.transaction_id

\* assert_entry_in_parent_xact
EntryInParentXact(s, e) ==
    \E t \in SeenTransactions(s) : t.id = e.transaction_id /\ t.created_xid = xid[s]

\* Mutant: a zero amount is an amount.
EntryRowAllowed_Zero(s, e) ==
    \/ EntryAllowed(e, SeenAccounts(s))
    \/ e.amount = 0 /\ EntryAllowed([e EXCEPT !.amount = 1], SeenAccounts(s))

\* Mutant: the foreign key is on account_id alone.
EntryRowAllowed_NoCurrency(s, e) ==
    e.amount > 0 /\ SeenAccounts(s)[e.account_id] # None

\* The CHECK on amount and the composite foreign key.
EntryRowAllowed(s, e) == EntryAllowed(e, SeenAccounts(s))

InsertEntry(s, e) ==
    /\ Writing(s)
    /\ \A q \in Others(s) : \A f \in wrote[q].entries : f.id # e.id
    /\ Statement(s, /\ \A f \in SeenEntries(s) : f.id # e.id
                    /\ EntryInParentXact(s, e)
                    /\ EntryRowAllowed(s, e),
                 [wrote[s] EXCEPT !.entries = @ \cup {e}])

\* UPDATE or DELETE of any row of the log: reject_mutation.
ChangeLog(s) ==
    /\ Writing(s)
    /\ SeenEntries(s) \cup SeenTransactions(s) # {}
    /\ Statement(s, FALSE, wrote[s])

End(s) ==
    /\ xid' = [xid EXCEPT ![s] = None]
    /\ failed' = [failed EXCEPT ![s] = FALSE]
    /\ wrote' = [wrote EXCEPT ![s] = NoWrites]
    /\ UNCHANGED spent

\* Mutant: each inserted entry is checked alone for the shape, not the sum.
BalancedAtCommit_NoSum(s) ==
    \A e \in wrote[s].entries :
        Cardinality(EntriesOf(e.transaction_id, SeenEntries(s))) >= 2

\* The deferred trigger, once per inserted entry.
BalancedAtCommit(s) ==
    \A e \in wrote[s].entries :
        TransactionBalanced(EntriesOf(e.transaction_id, SeenEntries(s)))

Commit(s) ==
    /\ Writing(s)
    /\ IF BalancedAtCommit(s)
       THEN /\ accounts' = SeenAccounts(s)
            /\ transactions' = SeenTransactions(s)
            /\ entries' = SeenEntries(s)
       ELSE UNCHANGED <<accounts, transactions, entries>>
    /\ End(s)

Rollback(s) ==
    /\ xid[s] # None
    /\ End(s)
    /\ UNCHANGED <<accounts, transactions, entries>>

\* A single INSERT outside any transaction, in autocommit; one that is refused
\* changes nothing.
InsertAccountAlone(a, row) ==
    /\ \A q \in Sessions : wrote[q].accounts[a] = None
    /\ accounts[a] = None /\ AccountAllowed(row)
    /\ accounts' = [accounts EXCEPT ![a] = row]
    /\ UNCHANGED <<transactions, entries, spent, xid, failed, wrote>>

-----------------------------------------------------------------------------
(* Specification *)

Init ==
    /\ accounts = SeedAccounts
    /\ transactions = {}
    /\ entries = {}
    /\ spent = {}
    /\ xid = [s \in Sessions |-> None]
    /\ failed = [s \in Sessions |-> FALSE]
    /\ wrote = [s \in Sessions |-> NoWrites]

CandidateAccounts ==
    [currency : Currencies, balance : Balances, allows_negative_balance : BOOLEAN]

CandidateEntries == [id : EntryIds, transaction_id : TransactionIds,
                     account_id : AccountIds, direction : Direction,
                     amount : Amounts, currency : Currencies]

Next ==
    \/ \E s \in Sessions :
          \/ Begin(s)
          \/ \E a \in AccountIds, row \in CandidateAccounts : InsertAccount(s, a, row)
          \/ \E a \in AccountIds, new \in CandidateAccounts : UpdateAccount(s, a, new)
          \/ \E a \in AccountIds : DeleteAccount(s, a)
          \/ \E id \in TransactionIds, key \in Keys, x \in Xids :
                InsertTransaction(s, id, key, x)
          \/ \E e \in CandidateEntries : InsertEntry(s, e)
          \/ ChangeLog(s)
          \/ Commit(s)
          \/ Rollback(s)
    \/ \E a \in AccountIds, row \in CandidateAccounts : InsertAccountAlone(a, row)
    \/ \E x \in Xids : TakeXid(x)

Spec == Init /\ [][Next]_vars

-----------------------------------------------------------------------------
(* Properties *)

\* Every variable has its type.  Of substance: every committed row satisfies
\* the CHECKs of its table, and keys and ids are unique.
TypeOK ==
    /\ accounts \in [AccountIds -> AccountRow \cup {None}]
    /\ \A a \in AccountIds : accounts[a] # None => AccountAllowed(accounts[a])
    /\ transactions \subseteq TransactionRows
    /\ \A t, u \in transactions : t # u => ~TransactionCollides(t, u)
    /\ entries \subseteq EntryRows
    /\ \A e, f \in entries : e.amount > 0 /\ (e # f => e.id # f.id)
    /\ spent \subseteq Xids
    /\ xid \in [Sessions -> Xids \cup {None}]
    /\ failed \in [Sessions -> BOOLEAN]
    /\ wrote \in [Sessions -> Writes]

\* Invariant #1 against any SQL: whatever sessions insert and in whichever
\* order they commit, every transaction that has entries balances, in one
\* currency.  With EntriesAnchored the log as a whole then nets to zero.
AnySqlBalances ==
    \A e \in entries : TransactionBalanced(EntriesOf(e.transaction_id, entries))

\* No entry is an orphan, and its currency is its account's, for ever.
EntriesAnchored ==
    \A e \in entries :
        /\ \E t \in transactions : t.id = e.transaction_id
        /\ accounts[e.account_id] # None
        /\ accounts[e.account_id].currency = e.currency

\* "There is no later moment at which a transaction's set of entries can be
\* extended" (0001_init.sql 181-184), said of every transaction row.
Sealed ==
    [][\A t \in transactions : EntriesOf(t.id, entries') = EntriesOf(t.id, entries)]_vars

\* The database transaction with id x has ended.
Closed(x) == x \in spent /\ \A s \in Sessions : xid[s] # x

\* What the triggers do guarantee of the claim of 181-184.  A committed
\* transaction that has entries, or whose created_xid is of a database
\* transaction that has ended, never gains or loses one; a row whose INSERT left
\* created_xid to its DEFAULT is in that case from its COMMIT on.  And nothing
\* committed is ever edited or removed but an account's balance.
SealedOnceClosed ==
    [][/\ transactions \subseteq transactions' /\ entries \subseteq entries'
       /\ \A t \in transactions :
             /\ Closed(t.created_xid) => Closed(t.created_xid)'
             /\ Closed(t.created_xid) \/ EntriesOf(t.id, entries) # {} =>
                   EntriesOf(t.id, entries') = EntriesOf(t.id, entries)
       /\ \A s \in Sessions : \A t \in wrote[s].transactions :
             t \in transactions' \ transactions /\ t.created_xid = xid[s] =>
                   Closed(t.created_xid)'
       /\ \A a \in AccountIds : accounts[a] # None =>
             /\ accounts'[a] # None
             /\ accounts'[a].currency = accounts[a].currency
             /\ accounts'[a].allows_negative_balance
                    = accounts[a].allows_negative_balance]_vars

-----------------------------------------------------------------------------
(* The inductive invariant: transaction ids are never reused, and entries    *)
(* are written only by the database transaction their parent names.          *)

XidsDistinct ==
    \A s \in Sessions : xid[s] # None =>
        /\ xid[s] \in spent
        /\ \A q \in Others(s) : xid[q] # xid[s]

\* Every committed entry was written by a database transaction that has ended:
\* the one its parent names.
LogClosed ==
    \A e \in entries : \E t \in transactions :
        t.id = e.transaction_id /\ Closed(t.created_xid)

\* Rows inserted by open transactions clash with nothing committed and with
\* nothing another open transaction inserted.
RowsDistinct ==
    \A s \in Sessions :
        /\ \A t, u \in SeenTransactions(s) : t # u => ~TransactionCollides(t, u)
        /\ \A e, f \in SeenEntries(s) : e # f => e.id # f.id
        /\ \A q \in Others(s) :
              /\ \A t \in wrote[s].transactions, u \in wrote[q].transactions :
                    ~TransactionCollides(t, u)
              /\ \A e \in wrote[s].entries, f \in wrote[q].entries : e.id # f.id

\* Entries wait for COMMIT in the transaction their parent names; new row
\* versions of an account are locked, allowed and keep its terms.
WritesSound ==
    \A s \in Sessions :
        /\ xid[s] = None => wrote[s] = NoWrites
        /\ \A e \in wrote[s].entries :
              /\ e.amount > 0
              /\ \E t \in SeenTransactions(s) :
                    t.id = e.transaction_id /\ t.created_xid = xid[s]
              /\ SeenAccounts(s)[e.account_id] # None
              /\ SeenAccounts(s)[e.account_id].currency = e.currency
        /\ \A a \in AccountIds : wrote[s].accounts[a] # None =>
              /\ Unlocked(s, a)
              /\ AccountAllowed(wrote[s].accounts[a])
              /\ accounts[a] # None => TermsFixed(accounts[a], wrote[s].accounts[a])

\* Why the triggers suffice, whatever created_xid a row was given: all entries
\* of a transaction are written by the one database transaction it names, so
\* they become visible together, in one COMMIT that checks them all.
WritesConfined == XidsDistinct /\ LogClosed /\ RowsDistinct /\ WritesSound
=============================================================================
