--------------------------- MODULE TransferService ---------------------------
(***************************************************************************)
(* What the transfer path promises, with no locks, connections, retries or *)
(* statements: a transfer takes effect in one step, at most once per key,  *)
(* and every answer is true of the ledger at the moment it is given.       *)
(***************************************************************************)
EXTENDS Ledger

CONSTANTS Inputs, SeedAccounts, AllowFundingAccountCreation

VARIABLES accounts, transactions, entries, req, answer

tables == <<accounts, transactions, entries>>
vars == <<tables, req, answer>>

Init ==
    /\ accounts = SeedAccounts
    /\ transactions = {}
    /\ entries = {}
    /\ req = [r \in Requests |-> None]
    /\ answer = [r \in Requests |-> None]

\* A client sends a request.
Submit(r) ==
    /\ req[r] = None
    /\ \E in \in Inputs : req' = [req EXCEPT ![r] = in]
    /\ UNCHANGED <<tables, answer>>

Used(k) == {t \in transactions : t.idempotency_key = k}

Exists(i) == accounts[i.from_account_id] # None /\ accounts[i.to_account_id] # None

SameCurrency(i) ==
    /\ accounts[i.from_account_id].currency = i.currency
    /\ accounts[i.to_account_id].currency = i.currency

Funded(i) ==
    \/ accounts[i.from_account_id].allows_negative_balance
    \/ accounts[i.from_account_id].balance >= i.amount

\* The money of request r moves: balances, transaction row and both entries
\* change together.  Possible only while the client has not been told of a
\* rejection, and only with a key that no transaction carries.
Move(r) ==
    /\ req[r] # None
    /\ answer[r] \in {None, "timeout", "internal_error"}
    /\ Used(req[r].key) = {}
    /\ LET i == req[r].intent
       IN /\ i.from_account_id # i.to_account_id
          /\ i.amount > 0
          /\ Exists(i) /\ SameCurrency(i) /\ Funded(i)
          /\ Representable(accounts[i.from_account_id].balance - i.amount)
          /\ Representable(accounts[i.to_account_id].balance + i.amount)
          /\ \E n \in 0 .. MaxConflictRetries :
                LET id == <<r, n>>
                IN /\ transactions' = transactions \cup
                          {[id |-> id, idempotency_key |-> req[r].key,
                            request_hash |-> RequestHash(i)]}
                   /\ entries' = entries \cup Postings(id, i)
          /\ accounts' = [accounts EXCEPT
                             ![i.from_account_id].balance = @ - i.amount,
                             ![i.to_account_id].balance = @ + i.amount]
    /\ UNCHANGED <<req, answer>>

\* When the service may say what it says to request r.
Justified(r, outcome) ==
    LET i == req[r].intent
        used == Used(req[r].key)
    IN /\ outcome = "created" => \E t \in used : t.id[1] = r
       /\ outcome = "replayed" => \E t \in used : t.request_hash = RequestHash(i)
       /\ outcome = "idempotency_key_conflict" =>
              \E t \in used : t.request_hash # RequestHash(i)
       /\ outcome = "self_transfer" => used = {} /\ i.from_account_id = i.to_account_id
       /\ outcome = "non_positive_amount" => used = {} /\ i.amount <= 0
       /\ outcome = "account_not_found" => used = {} /\ ~Exists(i)
       /\ outcome = "currency_mismatch" => used = {} /\ Exists(i) /\ ~SameCurrency(i)
       /\ outcome = "insufficient_funds" =>
              used = {} /\ Exists(i) /\ SameCurrency(i) /\ ~Funded(i)

\* A rejection is given only to a request that moved no money.
Reply(r) ==
    /\ req[r] # None
    /\ answer[r] = None
    /\ \E outcome \in {"created", "replayed", "idempotency_key_conflict",
                       "self_transfer", "non_positive_amount",
                       "account_not_found", "currency_mismatch",
                       "insufficient_funds", "timeout", "internal_error"} :
          /\ Justified(r, outcome)
          /\ outcome \in {"created", "replayed", "timeout", "internal_error"}
                \/ \A t \in transactions : t.id[1] # r
          /\ answer' = [answer EXCEPT ![r] = outcome]
    /\ UNCHANGED <<tables, req>>

OpenAccount(a) ==
    /\ accounts[a] = None
    /\ \E c \in Currencies, n \in BOOLEAN :
          /\ n => AllowFundingAccountCreation
          /\ accounts' = [accounts EXCEPT ![a] =
                 [currency |-> c, balance |-> 0, allows_negative_balance |-> n]]
    /\ UNCHANGED <<transactions, entries, req, answer>>

Next ==
    \/ \E r \in Requests : Submit(r) \/ Move(r) \/ Reply(r)
    \/ \E a \in AccountIds : OpenAccount(a)

Spec == Init /\ [][Next]_vars
=============================================================================
