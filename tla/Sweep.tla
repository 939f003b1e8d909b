-------------------------------- MODULE Sweep --------------------------------
(***************************************************************************)
(* The reconciliation sweep, db::check_invariants, run beside the service. *)
(* ledger_check_invariants() is a volatile function: each of its seven     *)
(* queries takes a snapshot of its own, so commits fall between its rows.  *)
(*                                                                         *)
(* What the sweep is for is damage done behind the service's back, by      *)
(* statements the schema lets through: an UPDATE of a balance, a TRUNCATE  *)
(* of the log, a transaction row without entries.                          *)
(***************************************************************************)
EXTENDS Edge

CONSTANT Drifts  \* how far an UPDATE may take a balance from the log

ASSUME DriftsAssumption == Drifts \subseteq Int \ {0}

VARIABLES
    row,      \* the row the sweep evaluates next; 0 before, past the last after
    reported, \* the rows it has reported as not ok
    damage,   \* what was done to the tables, None so far
    tainted   \* was it done before the sweep began?

sweepVars == <<row, reported, tainted>>
vars == <<edgeVars, sweepVars, damage>>

-----------------------------------------------------------------------------
(* The sweep *)

\* Mutant: a funding account is reported for being one.
Rows_FundingIsNegative ==
    <<GlobalSumZero(entries), PerTransactionBalanced(entries), TransactionShape(entries),
      NoEmptyTransactions(transactions, entries), BalanceMatchesEntries(accounts, entries),
      \A a \in AccountIds : accounts[a] # None => accounts[a].balance >= 0,
      KeysUnique(transactions)>>

\* Mutant: the derived balances are an inner join, without accounts that have
\* no entries.
Rows_InnerJoin ==
    <<GlobalSumZero(entries), PerTransactionBalanced(entries), TransactionShape(entries),
      NoEmptyTransactions(transactions, entries),
      \A e \in entries : accounts[e.account_id].balance = DerivedBalance(e.account_id, entries),
      NoNegativeBalance(accounts), KeysUnique(transactions)>>

\* The rows in the order of the function.
Rows == <<GlobalSumZero(entries), PerTransactionBalanced(entries), TransactionShape(entries),
          NoEmptyTransactions(transactions, entries), BalanceMatchesEntries(accounts, entries),
          NoNegativeBalance(accounts), KeysUnique(transactions)>>

Last == 7

Finished == row > Last

BeginSweep ==
    /\ row = 0 \/ Finished
    /\ row' = 1
    /\ reported' = {}
    /\ tainted' = (damage # None)
    /\ UNCHANGED <<edgeVars, damage>>

\* The row that reads account_balances_derived, whose sums are cast back to the
\* type of the column.
DerivedRow == 5

DerivedFits ==
    \A a \in AccountIds : accounts[a] # None => Representable(DerivedBalance(a, entries))

EvaluateRow ==
    /\ row \in 1 .. Last
    /\ row = DerivedRow => DerivedFits
    /\ reported' = IF Rows[row] THEN reported ELSE reported \cup {row}
    /\ row' = row + 1
    /\ UNCHANGED <<edgeVars, tainted, damage>>

\* 22003: the caller gets the error and none of the rows.
SweepFails ==
    /\ row = DerivedRow
    /\ ~DerivedFits
    /\ row' = 0
    /\ reported' = {}
    /\ UNCHANGED <<edgeVars, tainted, damage>>

-----------------------------------------------------------------------------
(* Damage, at most once *)

Damages == {"drift", "truncate", "empty transaction"}

ASSUME DamagesAssumption == None \notin Damages

Harm(kind) ==
    damage = None /\ damage' = kind /\ UNCHANGED <<sweepVars, sent, reply, req, answer>>

\* reject_account_mutation lets any balance pass that the CHECK allows.
Drift(a, d) ==
    LET new == [accounts[a] EXCEPT !.balance = @ + d]
    IN /\ Harm("drift")
       /\ accounts[a] # None
       /\ Representable(new.balance) /\ BalanceNonNegative(new)
       /\ accounts' = [accounts EXCEPT ![a] = new]
       /\ UNCHANGED <<transactions, entries>>

Truncate ==
    /\ Harm("truncate")
    /\ entries # {}
    /\ entries' = {}
    /\ UNCHANGED <<accounts, transactions>>

\* With no entry inserted the balance trigger never runs.
InsertEmpty(in) ==
    /\ Harm("empty transaction")
    /\ Service!Used(in.key) = {}
    /\ transactions' = transactions \cup
           {[id |-> <<None, 0>>, idempotency_key |-> in.key,
             request_hash |-> RequestHash(in.intent)]}
    /\ UNCHANGED <<accounts, entries>>

-----------------------------------------------------------------------------
(* Specification *)

Init ==
    /\ EdgeInit
    /\ row = 0
    /\ reported = {}
    /\ damage = None
    /\ tainted = FALSE

Next ==
    \/ EdgeNext /\ UNCHANGED <<sweepVars, damage>>
    \/ BeginSweep
    \/ EvaluateRow
    \/ SweepFails
    \/ \E a \in AccountIds, d \in Drifts : Drift(a, d)
    \/ Truncate
    \/ \E in \in EdgeInputs : InsertEmpty(in)

Spec == Init /\ [][Next]_vars

-----------------------------------------------------------------------------
(* Properties *)

\* A sound ledger never raises an alarm, although each row is read from another
\* snapshot while transfers commit (0001_init.sql 290-296), nor does the sweep
\* of one fail.
NoFalseAlarm == damage = None => reported = {} /\ (row = DerivedRow => DerivedFits)

\* "The post-factum rung of the control ladder" (db/mod.rs 106-112): damage done
\* before a sweep begins is reported by it, whatever transfers and accounts come
\* on top, before it or between its rows.
DamageReported == Finished /\ tainted => reported # {}
=============================================================================
