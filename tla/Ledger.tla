------------------------------- MODULE Ledger -------------------------------
(***************************************************************************)
(* The vocabulary of the ledger: the rows of its three tables, the         *)
(* constraints migrations/0001_init.sql puts on them, and the rows of the  *)
(* reconciliation sweep ledger_check_invariants().                         *)
(*                                                                         *)
(* Amounts are integers: one unit is 10^-8 of a currency, the scale of     *)
(* NUMERIC(20, 8).  Account ids are naturals because the transfer path     *)
(* sorts them; every other name is an uninterpreted value.                 *)
(***************************************************************************)
EXTENDS Integers, FiniteSets, FiniteSetsExt

CONSTANTS
    AccountIds,      \* the UUIDs an account may have, ordered as naturals
    Currencies,      \* the currency codes in use
    Keys,            \* idempotency keys
    Descriptions,    \* free text carried by a transfer
    Requests,        \* one element per POST /transfers the server receives
    MaxConflictRetries, \* MAX_CONFLICT_RETRIES: an attempt is 0..that
    MaxMagnitude,    \* the first magnitude NUMERIC(20, 8) cannot store
    None             \* SQL NULL, Rust's Option::None

ASSUME AccountIdsAssumption == AccountIds \subseteq Nat
ASSUME MagnitudeAssumption == MaxMagnitude \in Nat \ {0}
ASSUME RetriesAssumption == MaxConflictRetries \in Nat

-----------------------------------------------------------------------------
(* Rows *)

AccountRow ==
    [currency : Currencies, balance : Int, allows_negative_balance : BOOLEAN]

Direction == {"debit", "credit"}

\* One attempt of one request draws one fresh UUID for its transaction row.
TransactionId == Requests \X (0 .. MaxConflictRetries)

ASSUME NoneAssumption == None \notin AccountRow \cup Requests \cup TransactionId

Entry == [transaction_id : TransactionId, account_id : AccountIds,
          direction : Direction, amount : Int, currency : Currencies]

TransferIntent == [from_account_id : AccountIds, to_account_id : AccountIds,
                   amount : Int, currency : Currencies,
                   description : Descriptions]

\* SHA-256 over the field-tagged canonical encoding: as an injective tuple.
\* Amounts are numbers here, so 10 and 10.00 are one value already.
RequestHash(intent) ==
    <<intent.from_account_id, intent.to_account_id,
      intent.amount, intent.currency, intent.description>>

RequestHashes == AccountIds \X AccountIds \X Int \X Currencies \X Descriptions

TransactionRow == [id : TransactionId, idempotency_key : Keys,
                   request_hash : RequestHashes]

-----------------------------------------------------------------------------
(* Constraints *)

\* What NUMERIC(20, 8) can hold; a value outside raises SQLSTATE 22003.
Representable(n) == -MaxMagnitude < n /\ n < MaxMagnitude

\* accounts_balance_non_negative
BalanceNonNegative(row) == row.allows_negative_balance \/ row.balance >= 0

\* The column constraints of entries and the composite foreign key to accounts.
EntryAllowed(e, accounts) ==
    /\ e.amount > 0
    /\ Representable(e.amount)
    /\ accounts[e.account_id] # None
    /\ accounts[e.account_id].currency = e.currency

Signed(e) == IF e.direction = "debit" THEN e.amount ELSE -e.amount

Net(E) == MapThenSumSet(Signed, E)

\* The two entries a transfer writes: its sender credited, its receiver debited.
Postings(id, intent) ==
    LET Leg(a, direction) ==
            [transaction_id |-> id, account_id |-> a, direction |-> direction,
             amount |-> intent.amount, currency |-> intent.currency]
    IN {Leg(intent.from_account_id, "credit"), Leg(intent.to_account_id, "debit")}

\* entries_balanced_trigger, run at COMMIT once per inserted entry: with no
\* entry inserted it never runs.
TransactionBalanced(E) ==
    E # {} => /\ Cardinality(E) >= 2
              /\ Cardinality({e.currency : e \in E}) = 1
              /\ Net(E) = 0

-----------------------------------------------------------------------------
(* ledger_check_invariants(): each row is a predicate on the tables. *)

EntriesOf(id, entries) == {e \in entries : e.transaction_id = id}

\* account_balances_derived
DerivedBalance(a, entries) == Net({e \in entries : e.account_id = a})

\* per_transaction_balanced
PerTransactionBalanced(entries) ==
    \A e \in entries : Net(EntriesOf(e.transaction_id, entries)) = 0

\* transaction_shape
TransactionShape(entries) ==
    \A e \in entries :
        LET E == EntriesOf(e.transaction_id, entries)
        IN Cardinality(E) >= 2 /\ Cardinality({f.currency : f \in E}) = 1

\* no_empty_transactions
NoEmptyTransactions(transactions, entries) ==
    \A t \in transactions : EntriesOf(t.id, entries) # {}

\* global_sum_zero
GlobalSumZero(entries) == Net(entries) = 0

\* materialized_balance_matches_entries
BalanceMatchesEntries(accounts, entries) ==
    \A a \in AccountIds :
        accounts[a] # None => accounts[a].balance = DerivedBalance(a, entries)

\* no_unauthorized_negative_balance
NoNegativeBalance(accounts) ==
    \A a \in AccountIds : accounts[a] # None => BalanceNonNegative(accounts[a])

\* idempotency_keys_unique
KeysUnique(transactions) ==
    \A t, u \in transactions : t.idempotency_key = u.idempotency_key => t = u
=============================================================================
