-------------------------------- MODULE Edge --------------------------------
(***************************************************************************)
(* The HTTP edge (src/http) in front of the transfer service: what a       *)
(* client sends, which requests are refused before the ledger sees them,   *)
(* in which order, and the status the client reads.                        *)
(*                                                                         *)
(* Behind the edge is TransferService, which the statement-level transfer  *)
(* path implements.  A text (key, description, name) is named by its       *)
(* length, what is left of it after trim() where the code trims; that of   *)
(* an amount is the numeral it spells, of any length.                      *)
(***************************************************************************)
EXTENDS Money, Sequences

CONSTANTS
    RawTransfers,         \* POST /transfers, as they may arrive
    RawAccounts,          \* POST /accounts, as they may arrive
    SeedAccounts,         \* id -> row or None: accounts opened earlier
    AllowFundingAccountCreation,
    MaxKeyLength,         \* MAX_IDEMPOTENCY_KEY_LEN
    MaxDescriptionLength, \* MAX_DESCRIPTION_LEN
    MaxNameLength         \* MAX_NAME_LEN

ASSUME EdgeAssumption ==
    /\ Keys = 1 .. MaxKeyLength /\ MaxKeyLength \in Nat
    /\ Descriptions = 0 .. MaxDescriptionLength /\ MaxDescriptionLength \in Nat
    /\ MaxNameLength \in Nat
    /\ AllowFundingAccountCreation \in BOOLEAN

\* What the server is given to read: any text and any number, but one request is
\* to one route.
ASSUME RawAssumption ==
    /\ \A q \in RawTransfers :
          /\ q.header \in [present : BOOLEAN, ascii : BOOLEAN, length : Nat]
          /\ q.from_account_id \in AccountIds /\ q.to_account_id \in AccountIds
          /\ q.amount \in Numeral
          /\ q.description \in Nat
    /\ \A b \in RawAccounts : b.name \in Nat /\ b.allows_negative_balance \in BOOLEAN
    /\ RawTransfers \cap RawAccounts = {}
    /\ None \notin RawTransfers \cup RawAccounts

ASSUME SeedAssumption ==
    /\ SeedAccounts \in [AccountIds -> AccountRow \cup {None}]
    /\ \A a \in AccountIds :
          SeedAccounts[a] # None => SeedAccounts[a].balance = 0

VARIABLES
    accounts, transactions, entries,  \* committed rows
    req,      \* request -> what the edge made of it, once it let it through
    answer,   \* request -> the service's outcome
    sent,     \* request -> what its client sent
    reply     \* request -> the outcome decided at the edge

served == <<accounts, transactions, entries, req, answer>>
edgeVars == <<served, sent, reply>>

-----------------------------------------------------------------------------
(* Responses *)

\* What a handler or a layer may answer.
Codes == {"opened", "created", "replayed", "found", "missing_idempotency_key",
          "funding_account_creation_disabled", "account_not_found",
          "transaction_not_found", "timeout", "idempotency_key_conflict",
          "payload_too_large", "insufficient_funds", "currency_mismatch",
          "self_transfer", "non_positive_amount", "validation_failed",
          "invalid_amount", "internal_error"}

ASSUME CodesAssumption == None \notin Codes

\* Mutant: a database error looks like a refusal.
Status_DatabaseRefuses(code) ==
    CASE code \in {"opened", "created"} -> 201
      [] code = "replayed" -> 200
      [] code = "timeout" -> 408
      [] code = "idempotency_key_conflict" -> 409
      [] OTHER -> 422

\* LedgerError::status, the successes of the handlers and the answers of the
\* layers around them.
Status(code) ==
    CASE code \in {"opened", "created"} -> 201
      [] code \in {"replayed", "found"} -> 200
      [] code = "missing_idempotency_key" -> 400
      [] code = "funding_account_creation_disabled" -> 403
      [] code \in {"account_not_found", "transaction_not_found"} -> 404
      [] code = "timeout" -> 408
      [] code = "idempotency_key_conflict" -> 409
      [] code = "payload_too_large" -> 413
      [] code \in {"insufficient_funds", "currency_mismatch", "self_transfer",
                   "non_positive_amount", "validation_failed", "invalid_amount"} -> 422
      [] code = "internal_error" -> 500

\* What the client of r reads, None while it waits.
Response(r) ==
    LET code == IF reply[r] # None THEN reply[r] ELSE answer[r]
    IN IF code = None THEN None ELSE Status(code)

-----------------------------------------------------------------------------
(* Validation: the first check that fails decides. *)

Check(passes, code) == [passes |-> passes, code |-> code]

FirstFailure(checks) ==
    LET failing == {i \in DOMAIN checks : ~checks[i].passes}
    IN IF failing = {} THEN None ELSE checks[Min(failing)].code

\* RequestBodyLimitLayer, and TimeoutLayer while the body is awaited.
LayerChecks(body) ==
    <<Check(body # "declared_too_large", "payload_too_large"),
      Check(body # "stalled", "timeout")>>

\* Mutant: the key may have any length.
KeyChecks_Unbounded(header) ==
    <<Check(header.present, "missing_idempotency_key"),
      Check(header.ascii, "validation_failed"),
      Check(header.length > 0, "missing_idempotency_key")>>

\* extract_idempotency_key
KeyChecks(header) ==
    <<Check(header.present, "missing_idempotency_key"),
      Check(header.ascii, "validation_failed"),
      Check(header.length > 0, "missing_idempotency_key"),
      Check(header.length <= MaxKeyLength, "validation_failed")>>

\* Json<T>: a body that outgrows the limit while it is read fails here too.
JsonCheck(q) == <<Check(q.body = "json" /\ q.currency \in Currencies, "validation_failed")>>

\* TransferRequest.amount: a string no Decimal can hold is not of the type.
AmountCheck(q) == <<Check(Parses(q.amount), "validation_failed")>>

AmountOf(q) == MoneyNew(Parse(q.amount), q.currency)

\* http::transfers::create
TransferChecks(q) ==
    LayerChecks(q.body) \o KeyChecks(q.header) \o JsonCheck(q) \o AmountCheck(q) \o
    <<Check(Parses(q.amount) => AmountOf(q).error = None, "invalid_amount"),
      Check(q.description <= MaxDescriptionLength, "validation_failed")>>

\* http::accounts::create
AccountChecks(b) ==
    LayerChecks(b.body) \o JsonCheck(b) \o
    <<Check(b.allows_negative_balance => AllowFundingAccountCreation,
            "funding_account_creation_disabled"),
      Check(b.name > 0, "validation_failed"),
      Check(b.name <= MaxNameLength, "validation_failed")>>

Accepted == {q \in RawTransfers : FirstFailure(TransferChecks(q)) = None}

AmountSent(q) == AmountOf(q).value

\* The TransferIntent, its amount as the columns will hold it.
Input(q) ==
    [key |-> q.header.length,
     intent |-> [from_account_id |-> q.from_account_id,
                 to_account_id |-> q.to_account_id,
                 amount |-> Stored(AmountSent(q).amount),
                 currency |-> q.currency,
                 description |-> q.description]]

EdgeInputs == {Input(q) : q \in Accepted}

ASSUME InputsAssumption == None \notin EdgeInputs

-----------------------------------------------------------------------------
(* Handlers *)

Service == INSTANCE TransferService WITH Inputs <- EdgeInputs

Arrives(r, q) == sent[r] = None /\ sent' = [sent EXCEPT ![r] = q]

Decide(r, code) == reply' = [reply EXCEPT ![r] = code]

\* POST /transfers
PostTransfer(r, q) ==
    LET code == FirstFailure(TransferChecks(q))
    IN /\ Arrives(r, q)
       /\ \/ code # None /\ Decide(r, code) /\ UNCHANGED served
          \/ /\ code = None
             /\ Service!Submit(r)
             /\ req' = [req EXCEPT ![r] = Input(q)]
             /\ UNCHANGED reply

\* db::transfers::execute
Execute(r) ==
    /\ Service!Move(r) \/ Service!Reply(r)
    /\ UNCHANGED <<sent, reply>>

\* POST /accounts.  Its single INSERT may take effect although the client is
\* told otherwise.
PostAccount(r, b) ==
    LET code == FirstFailure(AccountChecks(b))
    IN /\ Arrives(r, b)
       /\ \/ code # None /\ Decide(r, code) /\ UNCHANGED served
          \/ /\ code = None
             /\ \E a \in AccountIds :
                   /\ Service!OpenAccount(a)
                   /\ accounts'[a].currency = b.currency
                   /\ accounts'[a].allows_negative_balance = b.allows_negative_balance
             /\ \E told \in {"opened", "timeout", "internal_error"} : Decide(r, told)
          \/ /\ code = None
             /\ \E told \in {"timeout", "internal_error"} : Decide(r, told)
             /\ UNCHANGED served

\* A row becomes a domain object again (TryFrom), or the read fails.
ToAccount(a) == MoneyNew(FromColumn(a.balance), a.currency)

ToEntry(e) == MoneyNew(FromColumn(e.amount), e.currency)

\* GET /accounts/{id}: the outcome
GetAccount(id) ==
    IF accounts[id] = None THEN "account_not_found"
    ELSE IF ToAccount(accounts[id]).error # None THEN "invalid_amount"
    ELSE "found"

\* GET /transactions/{id}: the outcome
GetTransaction(id) ==
    IF \A t \in transactions : t.id # id THEN "transaction_not_found"
    ELSE IF \E e \in EntriesOf(id, entries) : ToEntry(e).error # None THEN "invalid_amount"
    ELSE "found"

EdgeInit ==
    /\ Service!Init
    /\ sent = [r \in Requests |-> None]
    /\ reply = [r \in Requests |-> None]

EdgeNext ==
    \E r \in Requests :
        \/ \E q \in RawTransfers : PostTransfer(r, q)
        \/ Execute(r)
        \/ \E b \in RawAccounts : PostAccount(r, b)

-----------------------------------------------------------------------------
(* Properties *)

\* The edge delivers what Transfers assumes of its inputs: a key and a
\* description within bounds and an amount its columns can hold; and an account
\* of a known currency within range is all that POST /accounts can leave.
EdgeTypeOK ==
    /\ accounts \in [AccountIds -> AccountRow \cup {None}]
    /\ \A r \in Requests : req[r] # None =>
          /\ req[r].key \in Keys
          /\ req[r].intent \in TransferIntent
          /\ Representable(req[r].intent.amount)
          /\ reply[r] = None
    /\ \A r \in Requests : Response(r) \in 200 .. 599 \cup {None}

Moved(r) == {t \in transactions : t.id[1] = r}

\* The transaction t is what the client sent in q, compared by the value that was
\* parsed: 10 and 10.00 are one amount, a padded key is the key.
SamePayload(q, t) ==
    LET h == t.request_hash
    IN /\ h[1] = q.from_account_id /\ h[2] = q.to_account_id
       /\ SameValue(Parse(q.amount), FromColumn(h[3])) /\ h[4] = q.currency
       /\ h[5] = q.description

\* The status alone tells a client what happened to its money (http/transfers.rs
\* 1-4, error.rs 1-7): 201, its own transfer; 200, a transfer of the same key
\* and, by value, the same payload; 409, one of another payload; any other
\* status below 500 but 408, nothing and never.
StatusTellsTruth ==
    \A r \in Requests :
        LET status == Response(r)
            sameKey == {t \in transactions : t.idempotency_key = sent[r].header.length}
        IN status # None /\ sent[r] \in RawTransfers =>
              /\ status = 201 => Moved(r) # {}
              /\ status = 200 => \E t \in sameKey : SamePayload(sent[r], t)
              /\ status = 409 => \E t \in sameKey : ~SamePayload(sent[r], t)
              /\ status \in 400 .. 499 \ {408} => Moved(r) = {}

\* What was sent is what is kept: every entry carries exactly the value the body
\* was parsed to, never one the column has rounded (money.rs 10-12), and that is
\* the value of the text itself wherever a Decimal can hold the text.
ExactAmounts ==
    \A r \in Requests : \A t \in Moved(r) : \A e \in EntriesOf(t.id, entries) :
        LET text == sent[r].amount
        IN /\ SameValue(Parse(text), FromColumn(e.amount))
           /\ text \in Decimal => SameValue(text, FromColumn(e.amount))

\* An amount is refused, by Money::new or by the parser before it, only if no row
\* could hold the value of its text, in whatever length it is spelt; what is let
\* through is a value a row can hold once parsed, and as it was sent wherever a
\* Decimal can hold the text (money.rs 115-125).
RefusedForCause ==
    \A r \in Requests : sent[r] \in RawTransfers =>
        LET text == sent[r].amount
        IN /\ reply[r] = "invalid_amount" \/ ~Parses(text) => ~IsWhole(text)
           /\ req[r] # None => /\ IsWhole(Parse(text))
                               /\ text \in Decimal => Parse(text) = text

\* "A client sending an amount finer than the ledger's precision is told so
\* instead of having it silently rounded" (http/transfers.rs 51-53), said of
\* every text: no amount that is not a whole number of units is let through.
FinerIsRefused ==
    \A r \in Requests : req[r] # None => IsWhole(sent[r].amount)

\* The canonical form that is hashed tells amounts apart exactly by value and
\* currency, so that the hash may be taken as the tuple of RequestHash.
HashedByValue ==
    \A r, q \in Requests : req[r] # None /\ req[q] # None =>
        LET m == AmountSent(sent[r])
            n == AmountSent(sent[q])
        IN Canonical(m) = Canonical(n)
              <=> m.currency = n.currency /\ SameValue(m.amount, n.amount)

\* Checked arithmetic on any two accepted amounts is exact in units, or an error
\* exactly when currencies differ or the result leaves the range of the column.
ArithmeticExact ==
    \A r, q \in Requests : req[r] # None /\ req[q] # None =>
        LET m == AmountSent(sent[r])
            n == AmountSent(sent[q])
            Exact(result, units) ==
                IF m.currency = n.currency /\ Representable(units)
                THEN result.error = None /\ Stored(result.value.amount) = units
                ELSE result.error # None
            x == req[r].intent.amount
            y == req[q].intent.amount
        IN /\ Exact(CheckedAdd(m, n), x + y)
           /\ Exact(CheckedSub(m, n), x - y)
           /\ m.currency = n.currency => CheckedLt(m, n).value = (x < y)

\* Whatever is committed can be read back: no GET of an account or a transaction
\* that exists fails in the conversion of its rows, not for a negative balance
\* nor for one summed up to the edge of its column (db/accounts.rs 24-36).
RowsReadable ==
    /\ \A a \in AccountIds : Status(GetAccount(a)) = IF accounts[a] = None THEN 404 ELSE 200
    /\ \A t \in transactions : Status(GetTransaction(t.id)) = 200
=============================================================================
