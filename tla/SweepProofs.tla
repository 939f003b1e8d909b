---------------------------- MODULE SweepProofs ----------------------------
(***************************************************************************)
(* The HTTP edge and the reconciliation sweep, for every set of requests   *)
(* a client may send and every damage the sweep is made for.  EdgeInv says *)
(* what the edge let through and what the tables and the answers owe to    *)
(* it; SweepInv what a sound ledger looks like, and what damage leaves     *)
(* behind that no later transfer covers up.                                *)
(***************************************************************************)
EXTENDS Sweep, MoneyProofs, LedgerProofs, SequenceTheorems

-----------------------------------------------------------------------------
(* Chains of checks *)

Checks == [passes : BOOLEAN, code : Codes]

AllPass(s) == \A i \in DOMAIN s : s[i].passes

FailsWith(s, c) == \E i \in DOMAIN s : ~s[i].passes /\ s[i].code = c

\* The first failure is a failure, and there is none exactly if every check passes.
LEMMA FirstFailureFails ==
  ASSUME NEW s \in Seq(Checks)
  PROVE  /\ FirstFailure(s) = None <=> AllPass(s)
         /\ FirstFailure(s) # None =>
               FirstFailure(s) \in Codes /\ FailsWith(s, FirstFailure(s))
<1> DEFINE failing == {i \in DOMAIN s : ~s[i].passes}
<1>1. DOMAIN s \subseteq Nat /\ \A i \in DOMAIN s : s[i] \in Checks
  OBVIOUS
<1>2. CASE failing = {}
  BY <1>2 DEF FirstFailure, AllPass
<1>3. CASE failing # {}
  <2>1. \E i \in failing : \A j \in failing : i <= j
    <3>1. failing \subseteq Nat
      BY <1>1
    <3> HIDE DEF failing
    <3> QED BY <1>3, <3>1, Least
  <2>2. Min(failing) \in failing
    BY <2>1 DEF Min
  <2>3. FirstFailure(s) = s[Min(failing)].code
    BY <1>3 DEF FirstFailure
  <2>4. PICK i \in DOMAIN s : ~s[i].passes /\ FirstFailure(s) = s[i].code
    BY <2>2, <2>3
  <2>5. FirstFailure(s) \in Codes
    BY <1>1, <2>4 DEF Checks
  <2> QED BY <2>4, <2>5, CodesAssumption DEF AllPass, FailsWith
<1> QED BY <1>2, <1>3

\* One chain after the other.
LEMMA ChainOfChecks ==
  ASSUME NEW s \in Seq(Checks), NEW t \in Seq(Checks)
  PROVE  /\ s \o t \in Seq(Checks)
         /\ AllPass(s \o t) <=> AllPass(s) /\ AllPass(t)
         /\ \A c : FailsWith(s \o t, c) => FailsWith(s, c) \/ FailsWith(t, c)
<1>1. s \o t \in Seq(Checks)
  OBVIOUS
<1>2. /\ \A i \in DOMAIN s : i \in DOMAIN (s \o t) /\ (s \o t)[i] = s[i]
      /\ \A i \in DOMAIN t : i + Len(s) \in DOMAIN (s \o t) /\ (s \o t)[i + Len(s)] = t[i]
  OBVIOUS
<1>3. ASSUME NEW i \in DOMAIN (s \o t)
      PROVE  \/ i \in DOMAIN s /\ (s \o t)[i] = s[i]
             \/ \E j \in DOMAIN t : (s \o t)[i] = t[j]
  <2>1. i \in 1 .. (Len(s) + Len(t)) /\ Len(s) \in Nat /\ Len(t) \in Nat
    OBVIOUS
  <2>2. CASE i <= Len(s)
    BY <2>1, <2>2
  <2>3. CASE i > Len(s)
    <3>1. i - Len(s) \in DOMAIN t /\ (s \o t)[i] = t[i - Len(s)]
      BY <2>1, <2>3
    <3> QED BY <3>1
  <2> QED BY <2>1, <2>2, <2>3
<1>4. AllPass(s \o t) <=> AllPass(s) /\ AllPass(t)
  <2> HIDE DEF AllPass
  <2>1. AllPass(s \o t) => AllPass(s)
    BY <1>2 DEF AllPass
  <2>2. AllPass(s \o t) => AllPass(t)
    BY <1>2 DEF AllPass
  <2>3. AllPass(s) /\ AllPass(t) => AllPass(s \o t)
    BY <1>3 DEF AllPass
  <2> QED BY <2>1, <2>2, <2>3
<1>5. \A c : FailsWith(s \o t, c) => FailsWith(s, c) \/ FailsWith(t, c)
  BY <1>3 DEF FailsWith
<1> QED BY <1>1, <1>4, <1>5

\* A chain of one, two or three checks.
LEMMA ShortChains ==
  ASSUME NEW x \in Checks, NEW y \in Checks, NEW z \in Checks
  PROVE  /\ <<x>> \in Seq(Checks) /\ <<x, y>> \in Seq(Checks) /\ <<x, y, z>> \in Seq(Checks)
         /\ AllPass(<<x>>) => x.passes
         /\ AllPass(<<x, y>>) => x.passes /\ y.passes
<1>1. <<x>> \in Seq(Checks) /\ <<x, y>> \in Seq(Checks) /\ <<x, y, z>> \in Seq(Checks)
  OBVIOUS
<1>2. AllPass(<<x>>) => x.passes
  <2>1. 1 \in DOMAIN <<x>> /\ <<x>>[1] = x
    OBVIOUS
  <2> QED BY <2>1, Zenon DEF AllPass
<1>3. AllPass(<<x, y>>) => x.passes /\ y.passes
  <2> DEFINE s == <<x, y>>
  <2>1. 1 \in DOMAIN s /\ s[1] = x /\ 2 \in DOMAIN s /\ s[2] = y
    OBVIOUS
  <2> HIDE DEF s
  <2>2. AllPass(s) => s[1].passes /\ s[2].passes
    BY <2>1 DEF AllPass
  <2> QED BY <2>1, <2>2 DEF s
<1> QED BY <1>1, <1>2, <1>3

\* A check, and what it says when it passes.
LEMMA OneCheck ==
  ASSUME NEW p \in BOOLEAN, NEW c \in Codes
  PROVE  Check(p, c) \in Checks /\ Check(p, c).passes = p /\ Check(p, c).code = c
  BY DEF Check, Checks

\* A chain of one check.
LEMMA ChainOfOne ==
  ASSUME NEW p \in BOOLEAN, NEW c \in Codes
  PROVE  <<Check(p, c)>> \in Seq(Checks) /\ (AllPass(<<Check(p, c)>>) => p)
<1> DEFINE x == Check(p, c)
<1>1. x \in Checks /\ x.passes = p
  BY OneCheck
<1> HIDE DEF x
<1>2. <<x>> \in Seq(Checks) /\ (AllPass(<<x>>) => x.passes)
  BY <1>1, ShortChains
<1>3. AllPass(<<x>>) => p
  BY <1>1, <1>2
<1> QED BY <1>2, <1>3 DEF x

\* The codes a transfer is refused with before the ledger sees it.
Refusals == {"payload_too_large", "timeout", "missing_idempotency_key",
             "validation_failed", "invalid_amount"}

\* Every check of POST /transfers was made on what is let through, and only the
\* amount is called invalid.
LEMMA TransferChecked ==
  ASSUME NEW q \in RawTransfers
  PROVE  LET code == FirstFailure(TransferChecks(q))
         IN /\ code \in Refusals \cup {None}
            /\ code = None =>
                  /\ q.header.length \in Keys /\ q.currency \in Currencies
                  /\ Parses(q.amount) /\ AmountOf(q).error = None
                  /\ q.description \in Descriptions
            /\ code = "invalid_amount" => Parses(q.amount) /\ AmountOf(q).error # None
<1> DEFINE L == LayerChecks(q.body)
           K == KeyChecks(q.header)
           J == JsonCheck(q)
           A == AmountCheck(q)
           parses == Parses(q.amount)
           good == parses => AmountOf(q).error = None
           M == <<Check(good, "invalid_amount"),
                  Check(q.description <= MaxDescriptionLength, "validation_failed")>>
           code == FirstFailure(TransferChecks(q))
<1>0. TransferChecks(q) = (((L \o K) \o J) \o A) \o M
  BY DEF TransferChecks
<1>1. /\ L \in Seq(Checks)
      /\ \A c : FailsWith(L, c) => c \in Refusals \ {"invalid_amount"}
  BY DEF LayerChecks, Check, Checks, Codes, FailsWith, Refusals
<1>2. /\ K \in Seq(Checks)
      /\ AllPass(K) => q.header.length > 0 /\ q.header.length <= MaxKeyLength
      /\ \A c : FailsWith(K, c) => c \in Refusals \ {"invalid_amount"}
  <2>1. q.header.present \in BOOLEAN /\ q.header.ascii \in BOOLEAN
    BY RawAssumption
  <2>2. K \in Seq(Checks)
    BY <2>1 DEF KeyChecks, Check, Checks, Codes
  <2>3. AllPass(K) => q.header.length > 0 /\ q.header.length <= MaxKeyLength
    <3>1. /\ 3 \in DOMAIN K /\ K[3].passes = (q.header.length > 0)
          /\ 4 \in DOMAIN K /\ K[4].passes = (q.header.length <= MaxKeyLength)
      BY DEF KeyChecks, Check
    <3> HIDE DEF K
    <3>2. AllPass(K) => K[3].passes /\ K[4].passes
      BY <3>1 DEF AllPass
    <3> QED BY <3>1, <3>2
  <2>4. \A c : FailsWith(K, c) => c \in Refusals \ {"invalid_amount"}
    BY DEF KeyChecks, Check, FailsWith, Refusals
  <2> QED BY <2>2, <2>3, <2>4
<1>3. /\ J \in Seq(Checks)
      /\ AllPass(J) => q.currency \in Currencies
      /\ \A c : FailsWith(J, c) => c \in Refusals \ {"invalid_amount"}
  <2> DEFINE p == q.body = "json" /\ q.currency \in Currencies
  <2>1. p \in BOOLEAN /\ "validation_failed" \in Codes
    BY DEF Codes
  <2>2. J = <<Check(p, "validation_failed")>>
    BY DEF JsonCheck
  <2>3. p => q.currency \in Currencies
    OBVIOUS
  <2> HIDE DEF p
  <2>4. J \in Seq(Checks) /\ (AllPass(J) => p)
    BY <2>1, <2>2, ChainOfOne
  <2>5. \A c : FailsWith(J, c) => c \in Refusals \ {"invalid_amount"}
    BY <2>2 DEF Check, FailsWith, Refusals
  <2> QED BY <2>3, <2>4, <2>5
<1>a. /\ A \in Seq(Checks)
      /\ AllPass(A) => parses
      /\ \A c : FailsWith(A, c) => c \in Refusals \ {"invalid_amount"}
  <2>1. parses \in BOOLEAN /\ "validation_failed" \in Codes
    BY DEF Parses, Codes
  <2>2. A = <<Check(parses, "validation_failed")>>
    BY DEF AmountCheck
  <2> HIDE DEF parses
  <2>3. A \in Seq(Checks) /\ (AllPass(A) => parses)
    BY <2>1, <2>2, ChainOfOne
  <2>4. \A c : FailsWith(A, c) => c \in Refusals \ {"invalid_amount"}
    BY <2>2 DEF Check, FailsWith, Refusals
  <2> QED BY <2>3, <2>4
<1>4. /\ M \in Seq(Checks)
      /\ AllPass(M) => good /\ q.description <= MaxDescriptionLength
      /\ \A c : FailsWith(M, c) => c \in Refusals
      /\ FailsWith(M, "invalid_amount") => ~good
  <2> DEFINE short == q.description <= MaxDescriptionLength
  <2>0. /\ good \in BOOLEAN /\ short \in BOOLEAN
        /\ "invalid_amount" \in Codes /\ "validation_failed" \in Codes
    BY DEF Codes
  <2> HIDE DEF good, short
  <2>1. M \in Seq(Checks)
    BY <2>0, OneCheck, ShortChains DEF short
  <2>2. AllPass(M) => good /\ short
    BY <2>0, OneCheck, ShortChains DEF short
  <2>3. \A c : FailsWith(M, c) => c \in Refusals
    BY DEF Check, FailsWith, Refusals
  <2>4. FailsWith(M, "invalid_amount") => ~good
    BY DEF Check, FailsWith
  <2> QED BY <2>1, <2>2, <2>3, <2>4 DEF short
<1>b. ~good => parses /\ AmountOf(q).error # None
  OBVIOUS
<1>c. parses /\ good => AmountOf(q).error = None
  OBVIOUS
<1> HIDE DEF L, K, J, A, M, good, parses
<1>5. /\ L \o K \in Seq(Checks) /\ (L \o K) \o J \in Seq(Checks)
      /\ ((L \o K) \o J) \o A \in Seq(Checks) /\ TransferChecks(q) \in Seq(Checks)
  BY <1>0, <1>1, <1>2, <1>3, <1>4, <1>a, ChainOfChecks
<1>6. AllPass(TransferChecks(q)) => AllPass(K) /\ AllPass(J) /\ AllPass(A) /\ AllPass(M)
  <2>1. AllPass(TransferChecks(q)) => AllPass(((L \o K) \o J) \o A) /\ AllPass(M)
    BY ONLY <1>0, <1>4, <1>5, ChainOfChecks
  <2>2. AllPass(((L \o K) \o J) \o A) => AllPass((L \o K) \o J) /\ AllPass(A)
    BY ONLY <1>a, <1>5, ChainOfChecks
  <2>3. AllPass((L \o K) \o J) => AllPass(L \o K) /\ AllPass(J)
    BY ONLY <1>3, <1>5, ChainOfChecks
  <2>4. AllPass(L \o K) => AllPass(K)
    BY ONLY <1>1, <1>2, ChainOfChecks
  <2> QED BY <2>1, <2>2, <2>3, <2>4
<1>7. \A c : FailsWith(TransferChecks(q), c) =>
               \/ FailsWith(L, c) \/ FailsWith(K, c) \/ FailsWith(J, c)
               \/ FailsWith(A, c) \/ FailsWith(M, c)
  <2>1. \A c : FailsWith(TransferChecks(q), c) =>
                 FailsWith(((L \o K) \o J) \o A, c) \/ FailsWith(M, c)
    BY ONLY <1>0, <1>4, <1>5, ChainOfChecks
  <2>2. \A c : FailsWith(((L \o K) \o J) \o A, c) =>
                 FailsWith((L \o K) \o J, c) \/ FailsWith(A, c)
    BY ONLY <1>a, <1>5, ChainOfChecks
  <2>3. \A c : FailsWith((L \o K) \o J, c) => FailsWith(L \o K, c) \/ FailsWith(J, c)
    BY ONLY <1>3, <1>5, ChainOfChecks
  <2>4. \A c : FailsWith(L \o K, c) => FailsWith(L, c) \/ FailsWith(K, c)
    BY ONLY <1>1, <1>2, ChainOfChecks
  <2> QED BY <2>1, <2>2, <2>3, <2>4
<1>8. /\ code = None <=> AllPass(TransferChecks(q))
      /\ code # None => FailsWith(TransferChecks(q), code)
  BY <1>5, FirstFailureFails
<1> HIDE DEF code
<1>9. code \in Refusals \cup {None}
  BY <1>1, <1>2, <1>3, <1>4, <1>7, <1>8, <1>a
<1>10. ASSUME code = None
       PROVE  /\ q.header.length \in Keys /\ q.currency \in Currencies
              /\ parses /\ AmountOf(q).error = None /\ q.description \in Descriptions
  <2>1. AllPass(K) /\ AllPass(J) /\ AllPass(A) /\ AllPass(M)
    BY <1>6, <1>8, <1>10
  <2>2. q.header.length \in Nat /\ q.description \in Nat
    BY RawAssumption
  <2>3. parses /\ AmountOf(q).error = None
    BY <1>4, <1>a, <1>c, <2>1
  <2> QED BY <1>2, <1>3, <1>4, <2>1, <2>2, <2>3, EdgeAssumption
<1>11. ASSUME code = "invalid_amount" PROVE parses /\ AmountOf(q).error # None
  <2>1. "invalid_amount" # None
    BY CodesAssumption DEF Codes
  <2>2. FailsWith(TransferChecks(q), "invalid_amount")
    BY <1>8, <1>11, <2>1
  <2>3. FailsWith(M, "invalid_amount")
    BY <1>1, <1>2, <1>3, <1>7, <1>a, <2>2
  <2> QED BY <1>4, <1>b, <2>3
<1> QED BY <1>9, <1>10, <1>11 DEF code, parses

\* The checks of POST /accounts: a refusal has a code of its own, and a currency
\* that is let through is known.
LEMMA AccountChecked ==
  ASSUME NEW b \in RawAccounts
  PROVE  LET code == FirstFailure(AccountChecks(b))
         IN /\ code \in Codes \cup {None}
            /\ code = None => b.currency \in Currencies
<1> DEFINE L == LayerChecks(b.body)
           J == JsonCheck(b)
           M == <<Check(b.allows_negative_balance => AllowFundingAccountCreation,
                        "funding_account_creation_disabled"),
                  Check(b.name > 0, "validation_failed"),
                  Check(b.name <= MaxNameLength, "validation_failed")>>
           code == FirstFailure(AccountChecks(b))
<1>0. AccountChecks(b) = (L \o J) \o M
  BY DEF AccountChecks
<1>1. L \in Seq(Checks)
  BY DEF LayerChecks, Check, Checks, Codes
<1>2. J \in Seq(Checks) /\ (AllPass(J) => b.currency \in Currencies)
  <2> DEFINE p == b.body = "json" /\ b.currency \in Currencies
  <2>1. p \in BOOLEAN /\ "validation_failed" \in Codes
    BY DEF Codes
  <2>2. J = <<Check(p, "validation_failed")>>
    BY DEF JsonCheck
  <2>3. p => b.currency \in Currencies
    OBVIOUS
  <2> HIDE DEF p
  <2>4. J \in Seq(Checks) /\ (AllPass(J) => p)
    BY <2>1, <2>2, ChainOfOne
  <2> QED BY <2>3, <2>4
<1>3. M \in Seq(Checks)
  BY DEF Check, Checks, Codes
<1> HIDE DEF L, J, M
<1>4. /\ L \o J \in Seq(Checks) /\ AccountChecks(b) \in Seq(Checks)
      /\ AllPass(AccountChecks(b)) => AllPass(J)
  <2>1. L \o J \in Seq(Checks) /\ (AllPass(L \o J) => AllPass(J))
    BY ONLY <1>1, <1>2, ChainOfChecks
  <2>2. /\ AccountChecks(b) \in Seq(Checks)
        /\ AllPass(AccountChecks(b)) => AllPass(L \o J)
    BY ONLY <1>0, <1>3, <2>1, ChainOfChecks
  <2> QED BY <2>1, <2>2
<1>5. code \in Codes \cup {None} /\ (code = None => AllPass(AccountChecks(b)))
  BY <1>4, FirstFailureFails
<1> QED BY <1>2, <1>4, <1>5

\* What an accepted transfer becomes: an input the ledger's columns can hold, of
\* the value that was parsed.
LEMMA InputSound ==
  ASSUME NEW q \in Accepted
  PROVE  LET v == AmountSent(q)
             i == Input(q).intent
         IN /\ q \in RawTransfers
            /\ IsMoney(v) /\ v.currency = q.currency
            /\ q.amount \in Numeral /\ Parses(q.amount) /\ Parse(q.amount) \in Numeral
            /\ IsWhole(Parse(q.amount)) /\ SameValue(Parse(q.amount), v.amount)
            /\ Input(q) # None
            /\ Input(q).key = q.header.length /\ Input(q).key \in Keys
            /\ i \in TransferIntent
            /\ i.from_account_id = q.from_account_id /\ i.to_account_id = q.to_account_id
            /\ i.amount \in Int
            /\ i.amount = AtScale(v.amount, MaxScale) /\ Representable(i.amount)
            /\ SameValue(Parse(q.amount), FromColumn(i.amount))
            /\ i.currency = q.currency /\ i.description = q.description
<1> DEFINE v == AmountSent(q)
           d == Parse(q.amount)
<1>1. q \in RawTransfers /\ FirstFailure(TransferChecks(q)) = None
  BY DEF Accepted
<1>2. /\ q.header.length \in Keys /\ q.currency \in Currencies /\ q.description \in Descriptions
      /\ Parses(q.amount) /\ MoneyNew(d, q.currency).error = None
  BY <1>1, TransferChecked DEF AmountOf
<1>3. /\ q.amount \in Numeral /\ q.from_account_id \in AccountIds /\ q.to_account_id \in AccountIds
  BY <1>1, RawAssumption
<1>p. d \in Numeral /\ v = MoneyNew(d, q.currency).value
  BY <1>2, <1>3, ParseFinest DEF Decimal, AmountSent, AmountOf
<1> HIDE DEF d, v
<1>4. /\ v.currency = q.currency /\ IsWhole(d)
      /\ v.amount \in Numeral /\ v.amount.scale <= MaxScale
      /\ SameValue(d, v.amount)
      /\ Stored(v.amount) = AtScale(v.amount, MaxScale)
      /\ Stored(v.amount) \in Int /\ Representable(Stored(v.amount))
      /\ SameValue(d, FromColumn(Stored(v.amount)))
  BY <1>2, <1>p, MoneyNewExact
<1> DEFINE i == [from_account_id |-> q.from_account_id, to_account_id |-> q.to_account_id,
                 amount |-> Stored(v.amount), currency |-> q.currency,
                 description |-> q.description]
<1>5. Input(q).key = q.header.length /\ Input(q).intent = i /\ Input(q) # None
  BY InputsAssumption DEF Input, EdgeInputs, v
<1>6. i \in TransferIntent
  BY <1>2, <1>3, <1>4 DEF TransferIntent
<1> QED BY <1>1, <1>2, <1>3, <1>4, <1>5, <1>6, <1>p DEF IsMoney, v, d

-----------------------------------------------------------------------------
(* The invariant of the edge *)

\* What execute may answer.
Outcomes == {"created", "replayed", "idempotency_key_conflict", "self_transfer",
             "non_positive_amount", "account_not_found", "currency_mismatch",
             "insufficient_funds", "timeout", "internal_error"}

\* Answers after which the money may have moved, or may still move.
Undecided == {"created", "replayed", "timeout", "internal_error"}

\* Every variable has its type, every balance fits its column and its CHECK.
Typed ==
    /\ accounts \in [AccountIds -> AccountRow \cup {None}]
    /\ \A a \in AccountIds : accounts[a] # None =>
          Representable(accounts[a].balance) /\ BalanceNonNegative(accounts[a])
    /\ sent \in [Requests -> RawTransfers \cup RawAccounts \cup {None}]
    /\ reply \in [Requests -> Codes \cup {None}]
    /\ req \in [Requests -> EdgeInputs \cup {None}]
    /\ answer \in [Requests -> Outcomes \cup {None}]

\* A request is refused by the checks on what was sent, or becomes the input made
\* of what was sent; only then is it ever answered by the service.
IntakeSound(r) ==
    /\ sent[r] = None => reply[r] = None /\ req[r] = None
    /\ req[r] # None => /\ sent[r] \in Accepted /\ req[r] = Input(sent[r])
                        /\ reply[r] = None
    /\ req[r] = None => answer[r] = None
    /\ reply[r] # None /\ sent[r] \in RawTransfers =>
          reply[r] = FirstFailure(TransferChecks(sent[r]))

\* A transaction is of a request that was let through, under its key, or the one
\* without entries.
TransactionsSound ==
    \A t \in transactions :
        /\ t.request_hash \in RequestHashes
        /\ \/ t.id = <<None, 0>>
           \/ /\ t.id \in TransactionId
              /\ req[t.id[1]] # None
              /\ t.idempotency_key = req[t.id[1]].key

\* An entry is of a transaction, of an account that exists, and of the amount the
\* request was let through with.
EntriesSound ==
    /\ IsFiniteSet(entries)
    /\ \A e \in entries :
          /\ e \in Entry
          /\ accounts[e.account_id] # None
          /\ req[e.transaction_id[1]] # None
          /\ e.amount = req[e.transaction_id[1]].intent.amount
          /\ \E t \in transactions : t.id = e.transaction_id

\* What the service said is still so.
AnswerSound(r) ==
    LET used == {t \in transactions : t.idempotency_key = req[r].key}
        hash == RequestHash(req[r].intent)
    IN /\ answer[r] = "created" => Moved(r) # {}
       /\ answer[r] = "replayed" => \E t \in used : t.request_hash = hash
       /\ answer[r] = "idempotency_key_conflict" => \E t \in used : t.request_hash # hash
       /\ answer[r] \notin Undecided \cup {None} => Moved(r) = {}

EdgeInv ==
    /\ Typed
    /\ \A r \in Requests : IntakeSound(r) /\ AnswerSound(r)
    /\ TransactionsSound
    /\ EntriesSound

\* The service behind the edge speaks the language of the edge.
LEMMA SameVocabulary ==
  /\ \A i : Service!RequestHash(i) = RequestHash(i)
  /\ \A id, i : Service!Postings(id, i) = Postings(id, i)
  /\ \A n : Service!Representable(n) <=> Representable(n)
  BY DEF Service!RequestHash, RequestHash, Service!Postings, Postings,
     Service!Representable, Representable

\* A request that was let through has the input of what it sent.
LEMMA InputOf ==
  ASSUME EdgeInv, NEW r \in Requests, req[r] # None
  PROVE  /\ sent[r] \in Accepted /\ req[r] = Input(sent[r]) /\ reply[r] = None
         /\ req[r].key \in Keys /\ req[r].intent \in TransferIntent
         /\ req[r].intent.from_account_id \in AccountIds
         /\ req[r].intent.to_account_id \in AccountIds
         /\ req[r].intent.amount \in Int /\ Representable(req[r].intent.amount)
         /\ req[r].intent.currency \in Currencies
         /\ RequestHash(req[r].intent) \in RequestHashes
<1>1. sent[r] \in Accepted /\ req[r] = Input(sent[r]) /\ reply[r] = None
  BY DEF EdgeInv, IntakeSound
<1>2. /\ req[r].key \in Keys /\ req[r].intent \in TransferIntent
      /\ req[r].intent.amount \in Int /\ Representable(req[r].intent.amount)
  BY <1>1, InputSound
<1>3. /\ req[r].intent.from_account_id \in AccountIds
      /\ req[r].intent.to_account_id \in AccountIds
      /\ req[r].intent.currency \in Currencies
      /\ RequestHash(req[r].intent) \in RequestHashes
  BY <1>2 DEF TransferIntent, RequestHash, RequestHashes
<1> QED BY <1>1, <1>2, <1>3

\* The id of a transaction of r, or of any other.
LEMMA IdOf ==
  ASSUME EdgeInv, NEW t \in transactions, NEW r \in Requests, t.id[1] = r
  PROVE  /\ t.id \in TransactionId /\ req[r] # None
         /\ t.idempotency_key = req[r].key
<1>1. <<None, 0>>[1] = None /\ None \notin Requests
  BY NoneAssumption
<1> QED BY <1>1 DEF EdgeInv, TransactionsSound

\* The tables before and after a transfer of r.
Posting(r, n) ==
    LET i == req[r].intent
        id == <<r, n>>
        t == [id |-> id, idempotency_key |-> req[r].key, request_hash |-> RequestHash(i)]
    IN /\ id \in TransactionId
       /\ transactions' = transactions \cup {t}
       /\ entries' = entries \cup Postings(id, i)
       /\ \A u \in transactions : u.id # id /\ u.id[1] # r
       /\ \A u \in transactions : u.idempotency_key # req[r].key
       /\ \A e \in entries : e.transaction_id # id

\* Money moves under an id and a key of its own.
LEMMA MovePosts ==
  ASSUME EdgeInv, NEW r \in Requests, Service!Move(r)
  PROVE  \E n \in 0 .. MaxConflictRetries : Posting(r, n)
<1> DEFINE i == req[r].intent
<1>1. PICK n \in 0 .. MaxConflictRetries :
         LET id == <<r, n>>
         IN /\ transactions' = transactions \cup
                   {[id |-> id, idempotency_key |-> req[r].key,
                     request_hash |-> RequestHash(i)]}
            /\ entries' = entries \cup Postings(id, i)
  BY SameVocabulary DEF Service!Move
<1>2. \A u \in transactions : u.idempotency_key # req[r].key
  BY DEF Service!Move, Service!Used
<1>3. \A u \in transactions : u.id[1] # r
  BY <1>2, IdOf
<1>4. <<r, n>> \in TransactionId /\ <<r, n>>[1] = r
  BY DEF TransactionId
<1>5. \A e \in entries : \E t \in transactions : t.id = e.transaction_id
  BY DEF EdgeInv, EntriesSound
<1>6. /\ \A u \in transactions : u.id # <<r, n>>
      /\ \A e \in entries : e.transaction_id # <<r, n>>
  BY <1>3, <1>4, <1>5
<1> QED BY <1>1, <1>2, <1>3, <1>4, <1>6 DEF Posting

\* What it does to the balances.
LEMMA MoveBalances ==
  ASSUME EdgeInv, NEW r \in Requests, Service!Move(r)
  PROVE  LET i == req[r].intent
         IN /\ req[r] # None /\ i.from_account_id # i.to_account_id /\ i.amount > 0
            /\ accounts[i.from_account_id] # None /\ accounts[i.to_account_id] # None
            /\ accounts' \in [AccountIds -> AccountRow \cup {None}]
            /\ \A a \in AccountIds :
                  /\ accounts'[a] # None <=> accounts[a] # None
                  /\ accounts[a] # None =>
                        /\ accounts'[a].balance =
                              IF a = i.from_account_id THEN accounts[a].balance - i.amount
                              ELSE IF a = i.to_account_id THEN accounts[a].balance + i.amount
                              ELSE accounts[a].balance
                        /\ Representable(accounts'[a].balance)
                        /\ BalanceNonNegative(accounts'[a])
<1> DEFINE i == req[r].intent
           f == i.from_account_id
           t == i.to_account_id
<1>1. /\ req[r] # None /\ f # t /\ i.amount > 0 /\ accounts[f] # None /\ accounts[t] # None
      /\ accounts[f].allows_negative_balance \/ accounts[f].balance >= i.amount
      /\ Representable(accounts[f].balance - i.amount)
      /\ Representable(accounts[t].balance + i.amount)
      /\ accounts' = [accounts EXCEPT ![f].balance = @ - i.amount,
                                      ![t].balance = @ + i.amount]
  BY SameVocabulary DEF Service!Move, Service!Exists, Service!Funded
<1>2. f \in AccountIds /\ t \in AccountIds /\ i.amount \in Int
  BY <1>1, InputOf
<1>3. accounts \in [AccountIds -> AccountRow \cup {None}]
  BY DEF EdgeInv, Typed
<1> HIDE DEF f, t, i
<1>4. accounts[f] \in AccountRow /\ accounts[t] \in AccountRow
  BY <1>1, <1>2, <1>3
<1>5. /\ accounts'[f] = [accounts[f] EXCEPT !.balance = accounts[f].balance - i.amount]
      /\ accounts'[t] = [accounts[t] EXCEPT !.balance = accounts[t].balance + i.amount]
      /\ \A a \in AccountIds \ {f, t} : accounts'[a] = accounts[a]
      /\ DOMAIN accounts' = AccountIds
  BY <1>1, <1>2, <1>3, <1>4
<1>6. /\ accounts'[f] \in AccountRow /\ accounts'[t] \in AccountRow
      /\ accounts'[f].balance = accounts[f].balance - i.amount
      /\ accounts'[t].balance = accounts[t].balance + i.amount
      /\ accounts'[f].allows_negative_balance = accounts[f].allows_negative_balance
      /\ accounts'[t].allows_negative_balance = accounts[t].allows_negative_balance
      /\ accounts[f].balance \in Int /\ accounts[t].balance \in Int
  BY <1>2, <1>4, <1>5 DEF AccountRow
<1>7. accounts' \in [AccountIds -> AccountRow \cup {None}]
  <2>1. accounts' = [a \in AccountIds |-> accounts'[a]]
    BY <1>1, <1>3
  <2>2. \A a \in AccountIds : accounts'[a] \in AccountRow \cup {None}
    BY <1>3, <1>5, <1>6
  <2> QED BY <2>1, <2>2
<1>8. None \notin AccountRow
  BY NoneAssumption
<1>9. \A a \in AccountIds : accounts[a] # None =>
         Representable(accounts[a].balance) /\ BalanceNonNegative(accounts[a])
  BY DEF EdgeInv, Typed
<1>10. BalanceNonNegative(accounts'[f]) /\ BalanceNonNegative(accounts'[t])
  BY <1>1, <1>2, <1>6, <1>9 DEF BalanceNonNegative
<1>11. ASSUME NEW a \in AccountIds
       PROVE  /\ accounts'[a] # None <=> accounts[a] # None
              /\ accounts[a] # None =>
                    /\ accounts'[a].balance =
                          IF a = f THEN accounts[a].balance - i.amount
                          ELSE IF a = t THEN accounts[a].balance + i.amount
                          ELSE accounts[a].balance
                    /\ Representable(accounts'[a].balance)
                    /\ BalanceNonNegative(accounts'[a])
  <2>1. CASE a = f
    BY <1>1, <1>6, <1>8, <1>10, <2>1
  <2>2. CASE a = t
    BY <1>1, <1>6, <1>8, <1>10, <2>2
  <2>3. CASE a # f /\ a # t
    BY <1>5, <1>9, <2>3
  <2> QED BY <2>1, <2>2, <2>3
<1> QED BY <1>1, <1>7, <1>11 DEF f, t, i

-----------------------------------------------------------------------------
(* The invariant of the sweep *)

\* A ledger nobody has damaged.
Intact ==
    /\ \A t \in transactions :
          /\ t.id \in TransactionId
          /\ EntriesOf(t.id, entries) = Postings(t.id, req[t.id[1]].intent)
    /\ GlobalSumZero(entries)
    /\ BalanceMatchesEntries(accounts, entries)
    /\ KeysUnique(transactions)

\* What damage leaves behind, and which row of the sweep sees it.
ScarRow == IF damage = "drift" THEN 5 ELSE 4

Scarred ==
    IF damage = "drift" THEN ~BalanceMatchesEntries(accounts, entries)
                        ELSE ~NoEmptyTransactions(transactions, entries)

SweepInv ==
    /\ row \in 0 .. Last + 1 /\ tainted \in BOOLEAN /\ damage \in Damages \cup {None}
    /\ damage = None => Intact /\ reported = {} /\ ~tainted
    /\ damage # None => Scarred
    /\ tainted /\ row > ScarRow => ScarRow \in reported

-----------------------------------------------------------------------------
(* Every step keeps the invariant of the edge *)

\* An answer is not None.
LEMMA AnswersAreCodes == Outcomes \subseteq Codes /\ None \notin Outcomes
  BY CodesAssumption DEF Outcomes, Codes

\* Who sends for the first time has no input, no answer and no reply.
LEMMA Arriving ==
  ASSUME EdgeInv, NEW r \in Requests, sent[r] = None
  PROVE  req[r] = None /\ answer[r] = None /\ reply[r] = None
  BY DEF EdgeInv, IntakeSound

\* Without new rows the log stays sound as long as inputs and accounts stay.
LEMMA LogKept ==
  ASSUME EdgeInv, transactions' = transactions, entries' = entries,
         \A p \in Requests : req[p] # None => req'[p] = req[p],
         \A a \in AccountIds : accounts[a] # None => accounts'[a] # None
  PROVE  TransactionsSound' /\ EntriesSound'
<1>1. TransactionsSound'
  <2>1. \A t \in transactions : t.id \in TransactionId => t.id[1] \in Requests
    BY DEF TransactionId
  <2> QED BY <2>1 DEF EdgeInv, TransactionsSound
<1>2. EntriesSound'
  <2>1. \A e \in entries : e.transaction_id[1] \in Requests /\ e.account_id \in AccountIds
    BY DEF EdgeInv, EntriesSound, Entry, TransactionId
  <2> QED BY <2>1 DEF EdgeInv, EntriesSound
<1> QED BY <1>1, <1>2

\* An answer once given stays true while the log grows, provided nobody else's
\* rejection is overtaken by a transfer.
LEMMA AnswerKept ==
  ASSUME EdgeInv, NEW p \in Requests, answer'[p] = answer[p],
         answer[p] # None => req'[p] = req[p],
         transactions \subseteq transactions',
         answer[p] \notin Undecided \cup {None} =>
            \A t \in transactions' : t.id[1] = p => t \in transactions
  PROVE  AnswerSound(p)'
<1>1. AnswerSound(p)
  BY DEF EdgeInv
<1>2. CASE answer[p] = None
  BY <1>2, AnswersAreCodes DEF AnswerSound, Outcomes
<1>3. CASE answer[p] # None
  <2>1. Moved(p) # {} => Moved(p)' # {}
    BY DEF Moved
  <2>2. answer[p] \notin Undecided \cup {None} /\ Moved(p) = {} => Moved(p)' = {}
    BY DEF Moved
  <2> QED BY <1>1, <1>3, <2>1, <2>2 DEF AnswerSound
<1> QED BY <1>2, <1>3

\* POST /transfers, refused or let through.
LEMMA EdgePostTransfer ==
  ASSUME EdgeInv, NEW r \in Requests, NEW q \in RawTransfers, PostTransfer(r, q)
  PROVE  EdgeInv'
<1> DEFINE code == FirstFailure(TransferChecks(q))
<1>1. /\ sent[r] = None /\ sent' = [sent EXCEPT ![r] = q]
      /\ req[r] = None /\ answer[r] = None /\ reply[r] = None
  BY Arriving DEF PostTransfer, Arrives
<1>2. code \in Refusals \cup {None} /\ Refusals \subseteq Codes /\ q # None
  BY TransferChecked, RawAssumption DEF Refusals, Codes
<1>3. /\ UNCHANGED <<accounts, transactions, entries, answer>>
      /\ \/ /\ code # None /\ reply' = [reply EXCEPT ![r] = code] /\ req' = req
         \/ /\ code = None /\ q \in Accepted /\ req' = [req EXCEPT ![r] = Input(q)]
            /\ reply' = reply
  BY DEF PostTransfer, Decide, served, Service!Submit, Service!tables, Accepted
<1> HIDE DEF code
<1>4. Typed'
  <2>1. /\ accounts' \in [AccountIds -> AccountRow \cup {None}]
        /\ \A a \in AccountIds : accounts'[a] # None =>
              Representable(accounts'[a].balance) /\ BalanceNonNegative(accounts'[a])
        /\ answer' \in [Requests -> Outcomes \cup {None}]
    BY <1>3 DEF EdgeInv, Typed
  <2>2. sent' \in [Requests -> RawTransfers \cup RawAccounts \cup {None}]
    BY <1>1 DEF EdgeInv, Typed
  <2>3. reply' \in [Requests -> Codes \cup {None}]
    BY <1>2, <1>3 DEF EdgeInv, Typed
  <2>4. req' \in [Requests -> EdgeInputs \cup {None}]
    BY <1>3 DEF EdgeInv, Typed, EdgeInputs
  <2> QED BY <2>1, <2>2, <2>3, <2>4 DEF Typed
<1>5. \A p \in Requests \ {r} : /\ sent'[p] = sent[p] /\ req'[p] = req[p]
                                /\ reply'[p] = reply[p] /\ answer'[p] = answer[p]
  BY <1>1, <1>3 DEF EdgeInv, Typed
<1>6. ASSUME NEW p \in Requests PROVE IntakeSound(p)'
  <2>1. CASE p # r
    BY <1>5, <2>1 DEF EdgeInv, IntakeSound
  <2>2. CASE p = r
    <3>1. sent'[r] = q /\ answer'[r] = None
      BY <1>1, <1>3 DEF EdgeInv, Typed
    <3>2. CASE code # None
      <4>1. reply'[r] = code /\ req'[r] = None
        BY <1>1, <1>3, <3>2 DEF EdgeInv, Typed
      <4> QED BY <1>2, <2>2, <3>1, <4>1 DEF IntakeSound, code
    <3>3. CASE code = None
      <4>1. reply'[r] = None /\ req'[r] = Input(q) /\ q \in Accepted
        BY <1>1, <1>3, <3>3 DEF EdgeInv, Typed
      <4>2. Input(q) # None
        BY <4>1, InputsAssumption DEF EdgeInputs
      <4> QED BY <1>2, <2>2, <3>1, <4>1, <4>2 DEF IntakeSound
    <3> QED BY <3>2, <3>3
  <2> QED BY <2>1, <2>2
<1>7. ASSUME NEW p \in Requests PROVE AnswerSound(p)'
  BY <1>1, <1>3, <1>5, AnswerKept
<1>8. TransactionsSound' /\ EntriesSound'
  BY <1>1, <1>3, <1>5, LogKept
<1> QED BY <1>4, <1>6, <1>7, <1>8 DEF EdgeInv

\* POST /accounts, refused, failed, or with its row inserted.
LEMMA EdgePostAccount ==
  ASSUME EdgeInv, NEW r \in Requests, NEW b \in RawAccounts, PostAccount(r, b)
  PROVE  EdgeInv'
<1> DEFINE code == FirstFailure(AccountChecks(b))
<1>1. /\ sent[r] = None /\ sent' = [sent EXCEPT ![r] = b]
      /\ req[r] = None /\ answer[r] = None /\ reply[r] = None
  BY Arriving DEF PostAccount, Arrives
<1>2. b # None /\ b \notin RawTransfers
  BY RawAssumption
<1>3. /\ UNCHANGED <<transactions, entries, req, answer>>
      /\ \E c \in Codes : reply' = [reply EXCEPT ![r] = c]
  <2>1. code \in Codes \cup {None}
    BY AccountChecked
  <2>2. {"opened", "timeout", "internal_error"} \subseteq Codes
    BY DEF Codes
  <2> HIDE DEF code
  <2> QED BY <2>1, <2>2 DEF PostAccount, Decide, served, Service!OpenAccount, code
<1>4. \/ accounts' = accounts
      \/ \E a \in AccountIds, c \in Currencies, n \in BOOLEAN :
            /\ accounts[a] = None
            /\ accounts' = [accounts EXCEPT ![a] =
                   [currency |-> c, balance |-> 0, allows_negative_balance |-> n]]
  BY DEF PostAccount, served, Service!OpenAccount
<1>5. /\ accounts' \in [AccountIds -> AccountRow \cup {None}]
      /\ \A a \in AccountIds : accounts[a] # None => accounts'[a] # None
      /\ \A a \in AccountIds : accounts'[a] # None =>
            Representable(accounts'[a].balance) /\ BalanceNonNegative(accounts'[a])
  <2>0. /\ accounts \in [AccountIds -> AccountRow \cup {None}]
        /\ \A a \in AccountIds : accounts[a] # None =>
              Representable(accounts[a].balance) /\ BalanceNonNegative(accounts[a])
    BY DEF EdgeInv, Typed
  <2>1. CASE accounts' = accounts
    BY <2>0, <2>1
  <2>2. CASE \E a \in AccountIds, c \in Currencies, n \in BOOLEAN :
                /\ accounts[a] = None
                /\ accounts' = [accounts EXCEPT ![a] =
                       [currency |-> c, balance |-> 0, allows_negative_balance |-> n]]
    <3>1. PICK a \in AccountIds, c \in Currencies, n \in BOOLEAN :
                /\ accounts[a] = None
                /\ accounts' = [accounts EXCEPT ![a] =
                       [currency |-> c, balance |-> 0, allows_negative_balance |-> n]]
      BY <2>2
    <3> DEFINE new == [currency |-> c, balance |-> 0, allows_negative_balance |-> n]
    <3>2. new \in AccountRow /\ Representable(new.balance) /\ BalanceNonNegative(new)
      BY MagnitudeAssumption DEF AccountRow, Representable, BalanceNonNegative
    <3> HIDE DEF new
    <3>3. accounts'[a] = new /\ \A d \in AccountIds \ {a} : accounts'[d] = accounts[d]
      BY <2>0, <3>1 DEF new
    <3>4. accounts' \in [AccountIds -> AccountRow \cup {None}]
      BY <2>0, <3>1, <3>2 DEF new
    <3> QED BY <2>0, <3>1, <3>2, <3>3, <3>4
  <2> QED BY <1>4, <2>1, <2>2
<1>6. Typed'
  <2>1. sent' \in [Requests -> RawTransfers \cup RawAccounts \cup {None}]
    BY <1>1 DEF EdgeInv, Typed
  <2>2. /\ reply' \in [Requests -> Codes \cup {None}]
        /\ req' \in [Requests -> EdgeInputs \cup {None}]
        /\ answer' \in [Requests -> Outcomes \cup {None}]
    BY <1>3 DEF EdgeInv, Typed
  <2> QED BY <1>5, <2>1, <2>2 DEF Typed
<1>7. \A p \in Requests \ {r} : sent'[p] = sent[p] /\ reply'[p] = reply[p]
  BY <1>1, <1>3 DEF EdgeInv, Typed
<1>8. ASSUME NEW p \in Requests PROVE IntakeSound(p)'
  <2>1. CASE p # r
    BY <1>3, <1>7, <2>1 DEF EdgeInv, IntakeSound
  <2>2. CASE p = r
    <3>1. sent'[r] = b
      BY <1>1 DEF EdgeInv, Typed
    <3> QED BY <1>1, <1>2, <1>3, <2>2, <3>1 DEF IntakeSound
  <2> QED BY <2>1, <2>2
<1>9. ASSUME NEW p \in Requests PROVE AnswerSound(p)'
  BY <1>3, AnswerKept
<1>10. TransactionsSound' /\ EntriesSound'
  BY <1>3, <1>5, LogKept
<1> QED BY <1>6, <1>8, <1>9, <1>10 DEF EdgeInv

\* The postings of a transfer are typed entries of its transaction and its amount.
LEMMA PostingsTyped ==
  ASSUME NEW id \in TransactionId, NEW i \in TransferIntent, NEW e \in Postings(id, i)
  PROVE  /\ e \in Entry /\ e.transaction_id = id /\ e.amount = i.amount
         /\ e.account_id \in {i.from_account_id, i.to_account_id}
  BY DEF Postings, Entry, Direction, TransferIntent

\* The money moves.
LEMMA EdgeMove ==
  ASSUME EdgeInv, NEW r \in Requests, Service!Move(r), UNCHANGED <<sent, reply>>
  PROVE  EdgeInv'
<1>1. PICK n \in 0 .. MaxConflictRetries : Posting(r, n)
  BY MovePosts
<1> DEFINE i == req[r].intent
           id == <<r, n>>
           new == [id |-> id, idempotency_key |-> req[r].key, request_hash |-> RequestHash(i)]
<1>2. /\ id \in TransactionId /\ transactions' = transactions \cup {new}
      /\ entries' = entries \cup Postings(id, i)
  BY <1>1 DEF Posting
<1>3. /\ UNCHANGED <<sent, reply, req, answer>>
      /\ answer[r] \in {None, "timeout", "internal_error"} /\ req[r] # None
  BY DEF Service!Move
<1>4. /\ i \in TransferIntent /\ i.amount \in Int /\ RequestHash(i) \in RequestHashes
      /\ i.from_account_id \in AccountIds /\ i.to_account_id \in AccountIds
  BY <1>3, InputOf
<1>5. id[1] = r /\ new.id = id /\ new.request_hash = RequestHash(i)
      /\ new.idempotency_key = req[r].key
  OBVIOUS
<1> HIDE DEF new, id
<1>6. Typed'
  <2>1. /\ accounts' \in [AccountIds -> AccountRow \cup {None}]
        /\ \A a \in AccountIds : accounts'[a] # None =>
              Representable(accounts'[a].balance) /\ BalanceNonNegative(accounts'[a])
    BY MoveBalances
  <2> QED BY <1>3, <2>1 DEF EdgeInv, Typed
<1>7. \A p \in Requests : IntakeSound(p)'
  BY <1>3 DEF EdgeInv, IntakeSound
<1>8. ASSUME NEW p \in Requests PROVE AnswerSound(p)'
  <2>1. answer[p] \notin Undecided \cup {None} => p # r
    BY <1>3 DEF Undecided
  <2>2. \A t \in transactions' : t.id[1] = p /\ p # r => t \in transactions
    BY <1>2, <1>5
  <2>3. transactions \subseteq transactions'
    BY <1>2
  <2> QED BY <1>3, <2>1, <2>2, <2>3, AnswerKept
<1>9. TransactionsSound'
  BY <1>2, <1>3, <1>4, <1>5 DEF EdgeInv, TransactionsSound
<1>10. EntriesSound'
  <2>1. \A a \in AccountIds : accounts[a] # None => accounts'[a] # None
    BY MoveBalances
  <2>2. accounts'[i.from_account_id] # None /\ accounts'[i.to_account_id] # None
    BY <1>4, <2>1, MoveBalances
  <2>3. IsFiniteSet(entries')
    <3>1. Postings(id, i) = {CreditLeg(id, i), DebitLeg(id, i)}
      BY <1>4, Legs
    <3>2. IsFiniteSet(entries \cup {CreditLeg(id, i)})
      BY FS_AddElement DEF EdgeInv, EntriesSound
    <3>3. IsFiniteSet((entries \cup {CreditLeg(id, i)}) \cup {DebitLeg(id, i)})
      BY <3>2, FS_AddElement
    <3>4. entries' = (entries \cup {CreditLeg(id, i)}) \cup {DebitLeg(id, i)}
      BY <1>2, <3>1
    <3> QED BY <3>3, <3>4
  <2>4. ASSUME NEW e \in entries
        PROVE  /\ e \in Entry /\ accounts'[e.account_id] # None
               /\ req'[e.transaction_id[1]] # None
               /\ e.amount = req'[e.transaction_id[1]].intent.amount
               /\ \E t \in transactions' : t.id = e.transaction_id
    <3>1. e \in Entry /\ e.account_id \in AccountIds
      BY DEF EdgeInv, EntriesSound, Entry
    <3> QED BY <1>2, <1>3, <2>1, <3>1 DEF EdgeInv, EntriesSound
  <2>5. ASSUME NEW e \in Postings(id, i)
        PROVE  /\ e \in Entry /\ accounts'[e.account_id] # None
               /\ req'[e.transaction_id[1]] # None
               /\ e.amount = req'[e.transaction_id[1]].intent.amount
               /\ \E t \in transactions' : t.id = e.transaction_id
    BY <1>2, <1>3, <1>4, <1>5, <2>2, PostingsTyped
  <2> QED BY <1>2, <2>3, <2>4, <2>5 DEF EntriesSound
<1> QED BY <1>6, <1>7, <1>8, <1>9, <1>10 DEF EdgeInv

\* The service answers.
LEMMA EdgeReply ==
  ASSUME EdgeInv, NEW r \in Requests, Service!Reply(r), UNCHANGED <<sent, reply>>
  PROVE  EdgeInv'
<1>1. PICK outcome \in Outcomes :
         /\ Service!Justified(r, outcome)
         /\ outcome \in Undecided \/ \A t \in transactions : t.id[1] # r
         /\ answer' = [answer EXCEPT ![r] = outcome]
  BY DEF Service!Reply, Outcomes, Undecided
<1>2. UNCHANGED <<accounts, transactions, entries, req>> /\ req[r] # None /\ answer[r] = None
  BY DEF Service!Reply, Service!tables
<1>3. Typed'
  <2>1. answer' \in [Requests -> Outcomes \cup {None}]
    BY <1>1 DEF EdgeInv, Typed
  <2> QED BY <1>2, <2>1 DEF EdgeInv, Typed
<1>4. answer'[r] = outcome /\ \A p \in Requests \ {r} : answer'[p] = answer[p]
  BY <1>1 DEF EdgeInv, Typed
<1>5. \A p \in Requests : IntakeSound(p)'
  BY <1>2, <1>4 DEF EdgeInv, IntakeSound
<1>6. ASSUME NEW p \in Requests PROVE AnswerSound(p)'
  <2>1. CASE p # r
    BY <1>2, <1>4, <2>1, AnswerKept
  <2>2. CASE p = r
    <3> DEFINE used == {t \in transactions : t.idempotency_key = req[r].key}
               hash == RequestHash(req[r].intent)
    <3>1. /\ outcome = "created" => \E t \in used : t.id[1] = r
          /\ outcome = "replayed" => \E t \in used : t.request_hash = hash
          /\ outcome = "idempotency_key_conflict" => \E t \in used : t.request_hash # hash
      BY <1>1, SameVocabulary DEF Service!Justified, Service!Used
    <3>2. outcome = "created" => Moved(r) # {}
      BY <3>1 DEF Moved
    <3>3. outcome \notin Undecided => Moved(r) = {}
      BY <1>1 DEF Moved
    <3>4. Moved(r)' = Moved(r) /\ used' = used /\ hash' = hash
      BY <1>2 DEF Moved
    <3> QED BY <1>2, <1>4, <2>2, <3>1, <3>2, <3>3, <3>4 DEF AnswerSound
  <2> QED BY <2>1, <2>2
<1>7. TransactionsSound' /\ EntriesSound'
  BY <1>2, LogKept
<1> QED BY <1>3, <1>5, <1>6, <1>7 DEF EdgeInv

\* A balance is changed behind the service's back.
LEMMA EdgeDrift ==
  ASSUME EdgeInv, NEW a \in AccountIds, NEW d \in Drifts, Drift(a, d)
  PROVE  /\ EdgeInv'
         /\ accounts[a] # None /\ accounts'[a] # None
         /\ accounts'[a].balance = accounts[a].balance + d
<1> DEFINE new == [accounts[a] EXCEPT !.balance = accounts[a].balance + d]
<1>1. /\ accounts[a] # None /\ Representable(new.balance) /\ BalanceNonNegative(new)
      /\ accounts' = [accounts EXCEPT ![a] = new]
      /\ UNCHANGED <<transactions, entries, sent, reply, req, answer>>
  BY DEF Drift, Harm
<1>2. accounts \in [AccountIds -> AccountRow \cup {None}] /\ d \in Int
  BY DriftsAssumption DEF EdgeInv, Typed
<1>3. accounts[a] \in AccountRow
  BY <1>1, <1>2
<1>4. new \in AccountRow /\ new.balance = accounts[a].balance + d
  BY <1>2, <1>3 DEF AccountRow
<1> HIDE DEF new
<1>5. /\ accounts'[a] = new /\ new # None
      /\ \A c \in AccountIds \ {a} : accounts'[c] = accounts[c]
      /\ accounts' \in [AccountIds -> AccountRow \cup {None}]
  BY <1>1, <1>2, <1>4, NoneAssumption
<1>6. Typed'
  <2>1. \A c \in AccountIds : accounts'[c] # None =>
              Representable(accounts'[c].balance) /\ BalanceNonNegative(accounts'[c])
    BY <1>1, <1>5 DEF EdgeInv, Typed
  <2> QED BY <1>1, <1>5, <2>1 DEF EdgeInv, Typed
<1>7. \A p \in Requests : IntakeSound(p)'
  BY <1>1 DEF EdgeInv, IntakeSound
<1>8. \A p \in Requests : AnswerSound(p)'
  BY <1>1, AnswerKept
<1>9. TransactionsSound' /\ EntriesSound'
  BY <1>1, <1>5, LogKept
<1> QED BY <1>1, <1>4, <1>5, <1>6, <1>7, <1>8, <1>9 DEF EdgeInv

\* The log is emptied.
LEMMA EdgeTruncate ==
  ASSUME EdgeInv, Truncate
  PROVE  EdgeInv'
<1>1. entries' = {} /\ UNCHANGED <<accounts, transactions, sent, reply, req, answer>>
  BY DEF Truncate, Harm
<1>2. Typed' /\ TransactionsSound' /\ \A p \in Requests : IntakeSound(p)'
  BY <1>1 DEF EdgeInv, Typed, IntakeSound, TransactionsSound
<1>3. \A p \in Requests : AnswerSound(p)'
  BY <1>1, AnswerKept
<1>4. EntriesSound'
  BY <1>1, FS_EmptySet DEF EntriesSound
<1> QED BY <1>2, <1>3, <1>4 DEF EdgeInv

\* A transaction row is inserted without entries.
LEMMA EdgeInsertEmpty ==
  ASSUME EdgeInv, NEW in \in EdgeInputs, InsertEmpty(in)
  PROVE  EdgeInv'
<1> DEFINE i == in.intent
           new == [id |-> <<None, 0>>, idempotency_key |-> in.key,
                   request_hash |-> RequestHash(i)]
<1>1. /\ transactions' = transactions \cup {new}
      /\ UNCHANGED <<accounts, entries, sent, reply, req, answer>>
  BY DEF InsertEmpty, Harm
<1>2. i \in TransferIntent /\ RequestHash(i) \in RequestHashes
  BY InputSound DEF EdgeInputs, TransferIntent, RequestHash, RequestHashes
<1>3. new.id = <<None, 0>> /\ new.id[1] = None /\ new.request_hash = RequestHash(i)
  OBVIOUS
<1> HIDE DEF new, i
<1>4. Typed' /\ \A p \in Requests : IntakeSound(p)'
  BY <1>1 DEF EdgeInv, Typed, IntakeSound
<1>5. ASSUME NEW p \in Requests PROVE AnswerSound(p)'
  <2>1. \A t \in transactions' : t.id[1] = p => t \in transactions
    BY <1>1, <1>3, NoneAssumption
  <2>2. transactions \subseteq transactions'
    BY <1>1
  <2> QED BY <1>1, <2>1, <2>2, AnswerKept
<1>6. TransactionsSound'
  BY <1>1, <1>2, <1>3 DEF EdgeInv, TransactionsSound
<1>7. EntriesSound'
  BY <1>1 DEF EdgeInv, EntriesSound
<1> QED BY <1>4, <1>5, <1>6, <1>7 DEF EdgeInv

\* Nothing is promised or kept at the start.
LEMMA EdgeStart ==
  ASSUME Init
  PROVE  EdgeInv
<1>1. /\ accounts = SeedAccounts /\ transactions = {} /\ entries = {}
      /\ req = [r \in Requests |-> None] /\ answer = [r \in Requests |-> None]
      /\ sent = [r \in Requests |-> None] /\ reply = [r \in Requests |-> None]
  BY DEF Init, EdgeInit, Service!Init
<1>2. Typed
  <2>1. Representable(0)
    BY MagnitudeAssumption DEF Representable
  <2>2. \A a \in AccountIds : accounts[a] # None =>
              Representable(accounts[a].balance) /\ BalanceNonNegative(accounts[a])
    BY <1>1, <2>1, SeedAssumption DEF BalanceNonNegative
  <2> QED BY <1>1, <2>2, SeedAssumption DEF Typed
<1>3. \A r \in Requests : IntakeSound(r)
  BY <1>1 DEF IntakeSound
<1>4. \A r \in Requests : AnswerSound(r)
  BY <1>1, AnswersAreCodes DEF AnswerSound, Outcomes
<1>5. TransactionsSound /\ EntriesSound
  BY <1>1, FS_EmptySet DEF TransactionsSound, EntriesSound
<1> QED BY <1>2, <1>3, <1>4, <1>5 DEF EdgeInv

\* A step of the sweep reads only.
LEMMA EdgeRead ==
  ASSUME EdgeInv, UNCHANGED edgeVars
  PROVE  EdgeInv'
<1>1. UNCHANGED <<accounts, transactions, entries, req, answer, sent, reply>>
  BY DEF edgeVars, served
<1>2. Typed' /\ TransactionsSound' /\ EntriesSound' /\ \A p \in Requests : IntakeSound(p)'
  BY <1>1 DEF EdgeInv, Typed, IntakeSound, TransactionsSound, EntriesSound
<1>3. \A p \in Requests : AnswerSound(p)'
  BY <1>1, AnswerKept
<1> QED BY <1>2, <1>3 DEF EdgeInv

\* Every step keeps the invariant.
LEMMA EdgeStep ==
  ASSUME EdgeInv, [Next]_vars
  PROVE  EdgeInv'
<1>1. CASE \E r \in Requests, q \in RawTransfers : PostTransfer(r, q)
  BY <1>1, EdgePostTransfer
<1>2. CASE \E r \in Requests, b \in RawAccounts : PostAccount(r, b)
  BY <1>2, EdgePostAccount
<1>3. CASE \E r \in Requests : Execute(r)
  BY <1>3, EdgeMove, EdgeReply DEF Execute
<1>4. CASE BeginSweep \/ EvaluateRow \/ SweepFails \/ UNCHANGED vars
  BY <1>4, EdgeRead DEF BeginSweep, EvaluateRow, SweepFails, vars
<1>5. CASE \E a \in AccountIds, d \in Drifts : Drift(a, d)
  BY <1>5, EdgeDrift
<1>6. CASE Truncate
  BY <1>6, EdgeTruncate
<1>7. CASE \E in \in EdgeInputs : InsertEmpty(in)
  BY <1>7, EdgeInsertEmpty
<1> QED BY <1>1, <1>2, <1>3, <1>4, <1>5, <1>6, <1>7 DEF Next, EdgeNext

\* The invariant of the edge holds in every reachable state, whatever is sent and
\* whatever damage is done.
THEOREM EdgeInvariant == Spec => []EdgeInv
  BY EdgeStart, EdgeStep, PTL DEF Spec

-----------------------------------------------------------------------------
(* What the edge promises *)

\* The status of every code.
LEMMA StatusOf ==
  /\ Status("opened") = 201 /\ Status("created") = 201
  /\ Status("replayed") = 200 /\ Status("found") = 200
  /\ Status("missing_idempotency_key") = 400
  /\ Status("funding_account_creation_disabled") = 403
  /\ Status("account_not_found") = 404 /\ Status("transaction_not_found") = 404
  /\ Status("timeout") = 408 /\ Status("idempotency_key_conflict") = 409
  /\ Status("payload_too_large") = 413
  /\ Status("insufficient_funds") = 422 /\ Status("currency_mismatch") = 422
  /\ Status("self_transfer") = 422 /\ Status("non_positive_amount") = 422
  /\ Status("validation_failed") = 422 /\ Status("invalid_amount") = 422
  /\ Status("internal_error") = 500
  BY DEF Status

\* A status is one of HTTP's, and the ones that say something of the money are
\* each of one code.
LEMMA StatusSays ==
  ASSUME NEW c \in Codes
  PROVE  /\ Status(c) \in 200 .. 599
         /\ Status(c) = 201 => c \in {"opened", "created"}
         /\ Status(c) = 200 => c \in {"replayed", "found"}
         /\ Status(c) = 409 => c = "idempotency_key_conflict"
         /\ Status(c) \in 400 .. 499 \ {408} => c \notin Undecided
  BY StatusOf DEF Codes, Undecided

\* A response is the status of the reply or of the answer.
LEMMA ResponseCode ==
  ASSUME EdgeInv, NEW r \in Requests, Response(r) # None
  PROVE  \/ reply[r] \in Codes /\ Response(r) = Status(reply[r])
         \/ reply[r] = None /\ answer[r] \in Outcomes /\ Response(r) = Status(answer[r])
  BY DEF EdgeInv, Typed, Response

\* The edge delivers what Transfers assumes, and every response is a status.
LEMMA EdgeTypes ==
  ASSUME EdgeInv
  PROVE  EdgeTypeOK
<1>1. accounts \in [AccountIds -> AccountRow \cup {None}]
  BY DEF EdgeInv, Typed
<1>2. \A r \in Requests : req[r] # None =>
         /\ req[r].key \in Keys /\ req[r].intent \in TransferIntent
         /\ Representable(req[r].intent.amount) /\ reply[r] = None
  BY InputOf
<1>3. ASSUME NEW r \in Requests PROVE Response(r) \in 200 .. 599 \cup {None}
  <2>1. CASE Response(r) = None
    BY <2>1
  <2>2. CASE Response(r) # None
    BY <2>2, ResponseCode, AnswersAreCodes, StatusSays
  <2> QED BY <2>1, <2>2
<1> QED BY <1>1, <1>2, <1>3 DEF EdgeTypeOK

\* Two inputs of one payload, compared by value, have one hash.
LEMMA PayloadIsHash ==
  ASSUME EdgeInv, NEW r \in Requests, req[r] # None, NEW t \in transactions
  PROVE  SamePayload(sent[r], t) <=> t.request_hash = RequestHash(req[r].intent)
<1> DEFINE q == sent[r]
           d == Parse(q.amount)
           i == Input(q).intent
           h == t.request_hash
<1>1. q \in Accepted /\ req[r] = Input(q)
  BY InputOf
<1>2. /\ i.amount \in Int /\ SameValue(d, FromColumn(i.amount)) /\ d \in Numeral
      /\ i.from_account_id = q.from_account_id /\ i.to_account_id = q.to_account_id
      /\ i.currency = q.currency /\ i.description = q.description
  BY <1>1, InputSound
<1>4. h \in RequestHashes
  BY DEF EdgeInv, TransactionsSound
<1>5. h[3] \in Int /\ h = <<h[1], h[2], h[3], h[4], h[5]>>
  BY <1>4 DEF RequestHashes
<1>d. d = Parse(q.amount)
  OBVIOUS
<1> HIDE DEF q, d, i, h
<1>6. SameValue(d, FromColumn(h[3])) <=> h[3] = i.amount
  <2> DEFINE x == FromColumn(i.amount)
             y == FromColumn(h[3])
  <2>1. /\ x \in Numeral /\ y \in Numeral /\ x.scale = MaxScale /\ y.scale = MaxScale
        /\ AtScale(x, MaxScale) = i.amount /\ AtScale(y, MaxScale) = h[3]
    BY <1>2, <1>5, ColumnValue
  <2>2. MaxScale \in Nat /\ MaxScale <= MaxScale
    BY ScaleAssumption
  <2>3. SameValue(d, x)
    BY <1>2
  <2> HIDE DEF x, y
  <2>4. SameValue(d, y) <=> SameValue(x, y)
    BY <1>2, <2>1, <2>3, SameValueTransitive
  <2>5. SameValue(x, y) <=> AtScale(x, MaxScale) = AtScale(y, MaxScale)
    BY <2>1, <2>2, ByValue
  <2> QED BY <2>1, <2>4, <2>5 DEF y
<1>7. SamePayload(q, t) <=> h = <<i.from_account_id, i.to_account_id, i.amount, i.currency,
                                  i.description>>
  <2>1. SamePayload(q, t) <=> /\ h[1] = q.from_account_id /\ h[2] = q.to_account_id
                              /\ SameValue(d, FromColumn(h[3])) /\ h[4] = q.currency
                              /\ h[5] = q.description
    BY <1>d DEF SamePayload, h
  <2> QED BY <1>2, <1>5, <1>6, <2>1
<1> QED BY <1>1, <1>7 DEF RequestHash, q, i, h

\* The status alone tells a client what happened to its money.
LEMMA StatusTrue ==
  ASSUME EdgeInv
  PROVE  StatusTellsTruth
<1> SUFFICES ASSUME NEW r \in Requests, Response(r) # None, sent[r] \in RawTransfers
             PROVE  LET status == Response(r)
                        sameKey == {t \in transactions :
                                       t.idempotency_key = sent[r].header.length}
                    IN /\ status = 201 => Moved(r) # {}
                       /\ status = 200 => \E t \in sameKey : SamePayload(sent[r], t)
                       /\ status = 409 => \E t \in sameKey : ~SamePayload(sent[r], t)
                       /\ status \in 400 .. 499 \ {408} => Moved(r) = {}
  BY DEF StatusTellsTruth
<1>1. IntakeSound(r) /\ AnswerSound(r)
  BY DEF EdgeInv
<1>2. CASE reply[r] \in Codes /\ Response(r) = Status(reply[r])
  <2>1. reply[r] # None /\ reply[r] = FirstFailure(TransferChecks(sent[r]))
    BY <1>1, <1>2, CodesAssumption DEF IntakeSound
  <2>2. reply[r] \in Refusals
    BY <2>1, TransferChecked
  <2>3. Response(r) \notin {200, 201, 409}
    BY <1>2, <2>2, StatusOf DEF Refusals
  <2>4. req[r] = None
    BY <1>1, <2>1 DEF IntakeSound
  <2>5. Moved(r) = {}
    BY <2>4, IdOf DEF Moved
  <2> QED BY <2>3, <2>5
<1>3. CASE /\ reply[r] = None /\ answer[r] \in Outcomes /\ Response(r) = Status(answer[r])
  <2>1. answer[r] # None /\ answer[r] \in Codes
    BY <1>3, AnswersAreCodes
  <2>2. req[r] # None
    BY <1>1, <2>1 DEF IntakeSound
  <2>3. req[r].key = sent[r].header.length
    BY <2>2, InputOf, InputSound
  <2>4. \A t \in transactions :
           SamePayload(sent[r], t) <=> t.request_hash = RequestHash(req[r].intent)
    BY <2>2, PayloadIsHash
  <2>c. /\ Status(answer[r]) = 201 => answer[r] \in {"opened", "created"}
        /\ Status(answer[r]) = 200 => answer[r] \in {"replayed", "found"}
        /\ Status(answer[r]) = 409 => answer[r] = "idempotency_key_conflict"
    BY ONLY <2>1, StatusSays
  <2>o. answer[r] \notin {"opened", "found"}
    BY <1>3 DEF Outcomes
  <2>5. Response(r) = 201 => answer[r] = "created"
    BY <1>3, <2>c, <2>o
  <2>6. Response(r) = 200 => answer[r] = "replayed"
    BY <1>3, <2>c, <2>o
  <2>7. Response(r) = 409 => answer[r] = "idempotency_key_conflict"
    BY <1>3, <2>c
  <2>8. Response(r) \in 400 .. 499 \ {408} => answer[r] \notin Undecided \cup {None}
    BY <1>3, <2>1, StatusSays
  <2> QED BY <1>1, <2>3, <2>4, <2>5, <2>6, <2>7, <2>8 DEF AnswerSound
<1> QED BY <1>2, <1>3, ResponseCode

\* What was sent is what is kept.
LEMMA KeptExactly ==
  ASSUME EdgeInv
  PROVE  ExactAmounts
<1> SUFFICES ASSUME NEW r \in Requests, NEW t \in Moved(r), NEW e \in EntriesOf(t.id, entries)
             PROVE  LET text == sent[r].amount
                    IN /\ SameValue(Parse(text), FromColumn(e.amount))
                       /\ text \in Decimal => SameValue(text, FromColumn(e.amount))
  BY DEF ExactAmounts
<1>1. e \in entries /\ e.transaction_id[1] = r
  BY DEF EntriesOf, Moved
<1>2. req[r] # None /\ e.amount = req[r].intent.amount
  BY <1>1 DEF EdgeInv, EntriesSound
<1>3. SameValue(Parse(sent[r].amount), FromColumn(e.amount))
  BY <1>2, InputOf, InputSound
<1> QED BY <1>3, ParseOfDecimal

\* An amount is refused only if no row could hold it.
LEMMA RefusedDuly ==
  ASSUME EdgeInv
  PROVE  RefusedForCause
<1> SUFFICES ASSUME NEW r \in Requests, sent[r] \in RawTransfers
             PROVE  LET text == sent[r].amount
                    IN /\ reply[r] = "invalid_amount" \/ ~Parses(text) => ~IsWhole(text)
                       /\ req[r] # None => /\ IsWhole(Parse(text))
                                           /\ text \in Decimal => Parse(text) = text
  BY DEF RefusedForCause
<1> DEFINE text == sent[r].amount
<1>1. text \in Numeral
  BY RawAssumption
<1>2. IsWhole(text) => Parses(text) /\ IsWhole(Parse(text))
  BY <1>1, ParseOfWhole
<1>3. req[r] # None => IsWhole(Parse(text))
  BY InputOf, InputSound
<1>4. text \in Decimal => Parse(text) = text
  BY ParseOfDecimal
<1>5. ASSUME reply[r] = "invalid_amount" PROVE ~IsWhole(text)
  <2>1. "invalid_amount" # None
    BY CodesAssumption DEF Codes
  <2>2. FirstFailure(TransferChecks(sent[r])) = "invalid_amount"
    BY <1>5, <2>1 DEF EdgeInv, IntakeSound
  <2>3. Parses(text) /\ MoneyNew(Parse(text), sent[r].currency).error # None
    BY <2>2, TransferChecked DEF AmountOf
  <2>4. Parse(text) \in Numeral
    BY <1>1, <2>3, ParseFinest DEF Decimal
  <2> QED BY <1>2, <2>3, <2>4, MoneyNewExact
<1> QED BY <1>2, <1>3, <1>4, <1>5

\* The hash tells amounts apart by value and currency, and the arithmetic on them
\* is exact.
LEMMA AmountsExact ==
  ASSUME EdgeInv
  PROVE  HashedByValue /\ ArithmeticExact
<1> SUFFICES ASSUME NEW r \in Requests, NEW q \in Requests, req[r] # None, req[q] # None
             PROVE  LET m == AmountSent(sent[r])
                        n == AmountSent(sent[q])
                        Exact(result, units) ==
                            IF m.currency = n.currency /\ Representable(units)
                            THEN result.error = None /\ Stored(result.value.amount) = units
                            ELSE result.error # None
                        x == req[r].intent.amount
                        y == req[q].intent.amount
                    IN /\ Canonical(m) = Canonical(n)
                             <=> m.currency = n.currency /\ SameValue(m.amount, n.amount)
                       /\ Exact(CheckedAdd(m, n), x + y)
                       /\ Exact(CheckedSub(m, n), x - y)
                       /\ m.currency = n.currency => CheckedLt(m, n).value = (x < y)
  BY DEF HashedByValue, ArithmeticExact
<1> DEFINE m == AmountSent(sent[r])
           n == AmountSent(sent[q])
<1>1. /\ IsMoney(m) /\ req[r].intent.amount = AtScale(m.amount, MaxScale)
      /\ IsMoney(n) /\ req[q].intent.amount = AtScale(n.amount, MaxScale)
  BY InputOf, InputSound
<1> HIDE DEF m, n
<1>2. Canonical(m) = Canonical(n)
         <=> m.currency = n.currency /\ SameValue(m.amount, n.amount)
  BY <1>1, CanonicalByValue DEF IsMoney
<1> QED BY <1>1, <1>2, CheckedArithmetic DEF m, n

\* Whatever is committed can be read back.
LEMMA ReadBack ==
  ASSUME EdgeInv
  PROVE  RowsReadable
<1>1. \A x \in Int : \A c : Representable(x) => MoneyNew(FromColumn(x), c).error = None
  <2> SUFFICES ASSUME NEW x \in Int, NEW c, Representable(x)
               PROVE  MoneyNew(FromColumn(x), c).error = None
    OBVIOUS
  <2> DEFINE d == FromColumn(x)
  <2>1. d \in Numeral /\ d.scale <= MaxScale /\ AtScale(d, MaxScale) = x
    BY ColumnValue, ScaleAssumption
  <2> HIDE DEF d
  <2>2. MoneyNew(d, c) = Ok([amount |-> d, currency |-> c])
    BY <2>1, MoneyNewInScale
  <2> QED BY <2>2, OkOrErr DEF d
<1>2. ASSUME NEW a \in AccountIds
      PROVE  Status(GetAccount(a)) = IF accounts[a] = None THEN 404 ELSE 200
  <2>1. CASE accounts[a] = None
    BY <2>1, StatusOf DEF GetAccount
  <2>2. CASE accounts[a] # None
    <3>1. accounts[a].balance \in Int /\ Representable(accounts[a].balance)
      BY <2>2 DEF EdgeInv, Typed, AccountRow
    <3>2. ToAccount(accounts[a]).error = None
      BY <1>1, <3>1 DEF ToAccount
    <3> QED BY <2>2, <3>2, StatusOf DEF GetAccount
  <2> QED BY <2>1, <2>2
<1>3. ASSUME NEW t \in transactions
      PROVE  Status(GetTransaction(t.id)) = 200
  <2>1. ASSUME NEW e \in EntriesOf(t.id, entries)
        PROVE  ToEntry(e).error = None
    <3>1. /\ e \in Entry /\ req[e.transaction_id[1]] # None
          /\ e.amount = req[e.transaction_id[1]].intent.amount
      BY DEF EdgeInv, EntriesSound, EntriesOf
    <3>2. e.transaction_id[1] \in Requests
      BY <3>1 DEF Entry, TransactionId
    <3>3. e.amount \in Int /\ Representable(e.amount)
      BY <3>1, <3>2, InputOf
    <3> QED BY <1>1, <3>3 DEF ToEntry
  <2> QED BY <2>1, StatusOf DEF GetTransaction
<1> QED BY <1>2, <1>3 DEF RowsReadable

-----------------------------------------------------------------------------
(* Every step keeps the invariant of the sweep *)

\* Derived balances are numbers.
LEMMA DerivedType ==
  ASSUME EdgeInv, NEW a
  PROVE  /\ \A e \in entries : Signed(e) \in Int
         /\ IsFiniteSet({e \in entries : e.account_id = a})
         /\ DerivedBalance(a, entries) \in Int
<1> DEFINE E == {e \in entries : e.account_id = a}
<1>1. IsFiniteSet(entries) /\ \A e \in entries : Signed(e) \in Int
  BY DEF EdgeInv, EntriesSound, Entry, Signed
<1>2. IsFiniteSet(E) /\ \A e \in E : Signed(e) \in Int
  BY <1>1, FS_Subset
<1> HIDE DEF E
<1>3. Net(E) \in Int
  BY <1>2, NetType
<1> QED BY <1>1, <1>2, <1>3 DEF DerivedBalance, E

\* A transfer moves the derived balances as it moves the materialized ones.
LEMMA MoveSums ==
  ASSUME EdgeInv, NEW r \in Requests, Service!Move(r),
         NEW n \in 0 .. MaxConflictRetries, Posting(r, n)
  PROVE  LET i == req[r].intent
         IN /\ Net(entries') = Net(entries)
            /\ \A a \in AccountIds :
                  DerivedBalance(a, entries') =
                     IF a = i.from_account_id THEN DerivedBalance(a, entries) - i.amount
                     ELSE IF a = i.to_account_id THEN DerivedBalance(a, entries) + i.amount
                     ELSE DerivedBalance(a, entries)
            /\ EntriesOf(<<r, n>>, entries') = Postings(<<r, n>>, i)
            /\ \A u \in transactions : EntriesOf(u.id, entries') = EntriesOf(u.id, entries)
<1> DEFINE i == req[r].intent
           id == <<r, n>>
           C == CreditLeg(id, i)
           D == DebitLeg(id, i)
<1>1. /\ entries' = entries \cup Postings(id, i)
      /\ \A u \in transactions : u.id # id
      /\ \A e \in entries : e.transaction_id # id
  BY DEF Posting
<1>2. i.from_account_id # i.to_account_id /\ i.amount \in Int
  BY MoveBalances, InputOf
<1>3. /\ Postings(id, i) = {C, D} /\ C # D /\ Signed(C) = -i.amount /\ Signed(D) = i.amount
      /\ C.account_id = i.from_account_id /\ D.account_id = i.to_account_id
      /\ C.transaction_id = id /\ D.transaction_id = id
  BY <1>2, Legs
<1> HIDE DEF C, D, i, id
<1>4. C \notin entries /\ D \notin entries /\ entries \cap Postings(id, i) = {}
  BY <1>1, <1>3
<1>5. IsFiniteSet(entries) /\ \A e \in entries : Signed(e) \in Int
  BY DerivedType DEF EdgeInv, EntriesSound
<1>6. Net(entries') = Net(entries)
  BY <1>1, <1>2, <1>4, <1>5, PostingsNet
<1>7. /\ EntriesOf(id, entries') = Postings(id, i)
      /\ \A u \in transactions : EntriesOf(u.id, entries') = EntriesOf(u.id, entries)
  BY <1>1, <1>3 DEF EntriesOf
<1>8. ASSUME NEW a \in AccountIds
      PROVE  DerivedBalance(a, entries') =
                IF a = i.from_account_id THEN DerivedBalance(a, entries) - i.amount
                ELSE IF a = i.to_account_id THEN DerivedBalance(a, entries) + i.amount
                ELSE DerivedBalance(a, entries)
  <2> DEFINE E == {e \in entries : e.account_id = a}
             F == {e \in entries' : e.account_id = a}
  <2>1. F = IF a = i.from_account_id THEN E \cup {C}
            ELSE IF a = i.to_account_id THEN E \cup {D} ELSE E
    BY <1>1, <1>2, <1>3
  <2>2. /\ IsFiniteSet(E) /\ C \notin E /\ D \notin E
        /\ \A e \in E : Signed(e) \in Int
    BY <1>4, <1>5, DerivedType
  <2>3. Signed(C) \in Int /\ Signed(D) \in Int
    BY <1>2, <1>3
  <2> HIDE DEF E
  <2>4. /\ Net(E \cup {C}) = Net(E) + Signed(C)
        /\ Net(E \cup {D}) = Net(E) + Signed(D)
        /\ Net(E) \in Int
    BY <2>2, <2>3, NetAdd, NetType
  <2>5. Net(F) = IF a = i.from_account_id THEN Net(E) - i.amount
                 ELSE IF a = i.to_account_id THEN Net(E) + i.amount ELSE Net(E)
    <3> HIDE DEF F
    <3>1. \A x, y \in Int : x + (-y) = x - y
      OBVIOUS
    <3> QED BY <1>2, <1>3, <2>1, <2>4, <3>1
  <2> QED BY <2>5 DEF DerivedBalance, E
<1> QED BY <1>6, <1>7, <1>8 DEF i, id

\* A balance agrees with the log after a transfer exactly if it did before.
LEMMA MoveKeepsDifference ==
  ASSUME EdgeInv, NEW r \in Requests, Service!Move(r), NEW a \in AccountIds, accounts[a] # None
  PROVE  accounts'[a].balance = DerivedBalance(a, entries')
            <=> accounts[a].balance = DerivedBalance(a, entries)
<1> DEFINE i == req[r].intent
<1>1. PICK n \in 0 .. MaxConflictRetries : Posting(r, n)
  BY MovePosts
<1>2. i.amount \in Int /\ accounts[a].balance \in Int /\ DerivedBalance(a, entries) \in Int
  <2>1. req[r] # None
    BY MoveBalances
  <2>2. i.amount \in Int
    BY <2>1, InputOf
  <2>3. accounts[a].balance \in Int
    BY DEF EdgeInv, Typed, AccountRow
  <2>4. DerivedBalance(a, entries) \in Int
    BY DerivedType
  <2> QED BY <2>2, <2>3, <2>4
<1>3. accounts'[a].balance = IF a = i.from_account_id THEN accounts[a].balance - i.amount
                             ELSE IF a = i.to_account_id THEN accounts[a].balance + i.amount
                             ELSE accounts[a].balance
  BY MoveBalances
<1>4. DerivedBalance(a, entries') =
         IF a = i.from_account_id THEN DerivedBalance(a, entries) - i.amount
         ELSE IF a = i.to_account_id THEN DerivedBalance(a, entries) + i.amount
         ELSE DerivedBalance(a, entries)
  BY <1>1, MoveSums
<1> HIDE DEF i
<1>5. \A x, y, z \in Int : (x - z = y - z <=> x = y) /\ (x + z = y + z <=> x = y)
  OBVIOUS
<1> QED BY <1>2, <1>3, <1>4, <1>5

\* A transfer on a sound ledger leaves it sound.
LEMMA IntactMove ==
  ASSUME EdgeInv, Intact, NEW r \in Requests, Service!Move(r)
  PROVE  Intact'
<1>1. PICK n \in 0 .. MaxConflictRetries : Posting(r, n)
  BY MovePosts
<1> DEFINE i == req[r].intent
           id == <<r, n>>
           new == [id |-> id, idempotency_key |-> req[r].key, request_hash |-> RequestHash(i)]
<1>2. /\ id \in TransactionId /\ transactions' = transactions \cup {new} /\ req' = req
      /\ \A u \in transactions : u.idempotency_key # req[r].key
  BY <1>1 DEF Posting, Service!Move
<1>3. new.id = id /\ id[1] = r /\ new.idempotency_key = req[r].key
  OBVIOUS
<1>4. /\ Net(entries') = Net(entries)
      /\ EntriesOf(id, entries') = Postings(id, i)
      /\ \A u \in transactions : EntriesOf(u.id, entries') = EntriesOf(u.id, entries)
  BY <1>1, MoveSums
<1> HIDE DEF new, id
<1>5. \A t \in transactions' :
         /\ t.id \in TransactionId
         /\ EntriesOf(t.id, entries') = Postings(t.id, req'[t.id[1]].intent)
  BY <1>2, <1>3, <1>4 DEF Intact
<1>6. GlobalSumZero(entries')
  BY <1>4 DEF Intact, GlobalSumZero
<1>7. BalanceMatchesEntries(accounts', entries')
  <2>1. \A a \in AccountIds : accounts'[a] # None => accounts[a] # None
    BY MoveBalances
  <2> QED BY <2>1, MoveKeepsDifference DEF Intact, BalanceMatchesEntries
<1>8. KeysUnique(transactions')
  BY <1>2, <1>3 DEF Intact, KeysUnique
<1> QED BY <1>5, <1>6, <1>7, <1>8 DEF Intact

\* No transfer covers up the damage: a balance stays as far from the log as it is,
\* a transaction without entries stays without.
LEMMA ScarredMove ==
  ASSUME EdgeInv, Scarred, NEW r \in Requests, Service!Move(r), damage' = damage
  PROVE  Scarred'
<1>1. PICK n \in 0 .. MaxConflictRetries : Posting(r, n)
  BY MovePosts
<1>2. ASSUME ~BalanceMatchesEntries(accounts, entries)
      PROVE  ~BalanceMatchesEntries(accounts', entries')
  <2>1. PICK a \in AccountIds :
           accounts[a] # None /\ accounts[a].balance # DerivedBalance(a, entries)
    BY <1>2 DEF BalanceMatchesEntries
  <2>2. accounts'[a] # None
    BY <2>1, MoveBalances
  <2> QED BY <2>1, <2>2, MoveKeepsDifference DEF BalanceMatchesEntries
<1>3. ASSUME ~NoEmptyTransactions(transactions, entries)
      PROVE  ~NoEmptyTransactions(transactions', entries')
  <2>1. PICK t \in transactions : EntriesOf(t.id, entries) = {}
    BY <1>3 DEF NoEmptyTransactions
  <2>2. EntriesOf(t.id, entries') = {} /\ t \in transactions'
    BY <1>1, <2>1, MoveSums DEF Posting
  <2> QED BY <2>2 DEF NoEmptyTransactions
<1> QED BY <1>2, <1>3 DEF Scarred

\* Nor does a new account, whose balance is 0 and which has no entries.
LEMMA OpeningKeeps ==
  ASSUME EdgeInv, NEW b \in AccountIds, NEW c \in Currencies, NEW n \in BOOLEAN,
         accounts[b] = None,
         accounts' = [accounts EXCEPT ![b] =
             [currency |-> c, balance |-> 0, allows_negative_balance |-> n]]
  PROVE  BalanceMatchesEntries(accounts', entries) <=> BalanceMatchesEntries(accounts, entries)
<1>1. /\ accounts'[b] # None /\ accounts'[b].balance = 0
      /\ \A a \in AccountIds \ {b} : accounts'[a] = accounts[a]
  <2>1. [currency |-> c, balance |-> 0, allows_negative_balance |-> n] \in AccountRow
    BY DEF AccountRow
  <2> QED BY <2>1, NoneAssumption DEF EdgeInv, Typed
<1>2. DerivedBalance(b, entries) = 0
  <2>1. {e \in entries : e.account_id = b} = {}
    BY DEF EdgeInv, EntriesSound
  <2> QED BY <2>1, NetEmpty DEF DerivedBalance
<1> QED BY <1>1, <1>2 DEF BalanceMatchesEntries

\* Steps without a new transaction keep a sound ledger sound and a damaged one
\* damaged.
LEMMA LogUntouched ==
  ASSUME EdgeInv, transactions' = transactions, entries' = entries, damage' = damage,
         \A p \in Requests : req[p] # None => req'[p] = req[p],
         BalanceMatchesEntries(accounts', entries) <=> BalanceMatchesEntries(accounts, entries)
  PROVE  (Intact => Intact') /\ (Scarred => Scarred')
<1>1. \A t \in transactions : t.id \in TransactionId => req'[t.id[1]] = req[t.id[1]]
  <2>1. <<None, 0>> \notin TransactionId
    BY NoneAssumption DEF TransactionId
  <2>2. \A t \in transactions : t.id \in TransactionId =>
           t.id[1] \in Requests /\ req[t.id[1]] # None
    BY <2>1 DEF EdgeInv, TransactionsSound, TransactionId
  <2> QED BY <2>2
<1> QED BY <1>1 DEF Intact, Scarred

\* The service behind the edge never damages the ledger and never repairs it.
LEMMA ServiceNeutral ==
  ASSUME EdgeInv, EdgeNext, damage' = damage
  PROVE  (Intact => Intact') /\ (Scarred => Scarred')
<1>1. ASSUME NEW r \in Requests, NEW q \in RawTransfers, PostTransfer(r, q)
      PROVE  (Intact => Intact') /\ (Scarred => Scarred')
  <2>1. UNCHANGED <<accounts, transactions, entries>> /\ req[r] = None
    BY <1>1, Arriving DEF PostTransfer, Arrives, served, Service!Submit, Service!tables
  <2>2. \A p \in Requests \ {r} : req'[p] = req[p]
    BY <1>1 DEF PostTransfer, served, EdgeInv, Typed
  <2> QED BY <2>1, <2>2, LogUntouched
<1>2. ASSUME NEW r \in Requests, NEW b \in RawAccounts, PostAccount(r, b)
      PROVE  (Intact => Intact') /\ (Scarred => Scarred')
  <2>1. UNCHANGED <<transactions, entries, req>>
    BY <1>2 DEF PostAccount, served, Service!OpenAccount
  <2>2. \/ accounts' = accounts
        \/ \E a \in AccountIds, c \in Currencies, n \in BOOLEAN :
              /\ accounts[a] = None
              /\ accounts' = [accounts EXCEPT ![a] =
                     [currency |-> c, balance |-> 0, allows_negative_balance |-> n]]
    BY <1>2 DEF PostAccount, served, Service!OpenAccount
  <2>3. BalanceMatchesEntries(accounts', entries) <=> BalanceMatchesEntries(accounts, entries)
    BY <2>2, OpeningKeeps
  <2> QED BY <2>1, <2>3, LogUntouched
<1>3. ASSUME NEW r \in Requests, Service!Reply(r)
      PROVE  (Intact => Intact') /\ (Scarred => Scarred')
  <2>1. UNCHANGED <<accounts, transactions, entries, req>>
    BY <1>3 DEF Service!Reply, Service!tables
  <2> QED BY <2>1, LogUntouched
<1> QED BY <1>1, <1>2, <1>3, IntactMove, ScarredMove DEF EdgeNext, Execute

\* A sound ledger passes every row of the sweep.
LEMMA SoundRows ==
  ASSUME EdgeInv, Intact
  PROVE  DerivedFits /\ \A k \in 1 .. Last : Rows[k]
<1>1. ASSUME NEW t \in transactions
      PROVE  LET E == EntriesOf(t.id, entries)
             IN /\ E # {} /\ Net(E) = 0 /\ Cardinality(E) >= 2
                /\ Cardinality({f.currency : f \in E}) = 1
  <2> DEFINE i == req[t.id[1]].intent
             E == Postings(t.id, i)
  <2>1. t.id \in TransactionId /\ t.id[1] \in Requests /\ EntriesOf(t.id, entries) = E
    BY DEF Intact, TransactionId
  <2>2. i.amount \in Int
    BY <2>1, IdOf, InputOf
  <2>3. Net(E) = 0 /\ Cardinality(E) = 2 /\ {f.currency : f \in E} = {i.currency}
    BY <2>2, PostingsBalanced
  <2>4. E # {}
    BY DEF Postings
  <2>5. Cardinality({i.currency}) = 1
    BY FS_Singleton
  <2>6. /\ E # {} /\ Net(E) = 0 /\ Cardinality(E) >= 2
        /\ Cardinality({f.currency : f \in E}) = 1
    <3> HIDE DEF E, i
    <3>1. Cardinality(E) >= 2
      BY <2>3
    <3>2. Cardinality({f.currency : f \in E}) = 1
      BY <2>3, <2>5
    <3> QED BY <2>3, <2>4, <3>1, <3>2
  <2> HIDE DEF E, i
  <2> QED BY <2>1, <2>6
<1>2. \A e \in entries : \E t \in transactions : t.id = e.transaction_id
  BY DEF EdgeInv, EntriesSound
<1>3. /\ PerTransactionBalanced(entries) /\ TransactionShape(entries)
      /\ NoEmptyTransactions(transactions, entries)
  BY <1>1, <1>2 DEF NoEmptyTransactions, TransactionShape, PerTransactionBalanced
<1>4. /\ GlobalSumZero(entries) /\ BalanceMatchesEntries(accounts, entries)
      /\ KeysUnique(transactions)
  BY DEF Intact
<1>5. NoNegativeBalance(accounts)
  BY DEF EdgeInv, Typed, NoNegativeBalance
<1>6. Rows[1] /\ Rows[2] /\ Rows[3] /\ Rows[4] /\ Rows[5] /\ Rows[6] /\ Rows[7]
  BY <1>3, <1>4, <1>5 DEF Rows
<1>7. \A k \in 1 .. Last :
         k = 1 \/ k = 2 \/ k = 3 \/ k = 4 \/ k = 5 \/ k = 6 \/ k = 7
  BY DEF Last
<1>8. DerivedFits
  BY <1>4 DEF EdgeInv, Typed, BalanceMatchesEntries, DerivedFits
<1> QED BY <1>6, <1>7, <1>8

\* The row made for a kind of damage reports it.
LEMMA ScarredRow ==
  ASSUME Scarred
  PROVE  ~Rows[ScarRow]
<1>1. CASE damage = "drift"
  BY <1>1 DEF Scarred, ScarRow, Rows
<1>2. CASE damage # "drift"
  BY <1>2 DEF Scarred, ScarRow, Rows
<1> QED BY <1>1, <1>2

\* Freshly migrated tables are sound.
LEMMA SweepStart == Init => SweepInv
<1> SUFFICES ASSUME Init PROVE SweepInv
  OBVIOUS
<1>1. /\ accounts = SeedAccounts /\ transactions = {} /\ entries = {}
      /\ row = 0 /\ reported = {} /\ damage = None /\ tainted = FALSE
  BY DEF Init, EdgeInit, Service!Init
<1>2. GlobalSumZero(entries) /\ \A a \in AccountIds : DerivedBalance(a, entries) = 0
  <2>1. \A a \in AccountIds : {e \in entries : e.account_id = a} = {}
    BY <1>1
  <2> QED BY <1>1, <2>1, NetEmpty DEF GlobalSumZero, DerivedBalance
<1>3. BalanceMatchesEntries(accounts, entries)
  BY <1>1, <1>2, SeedAssumption DEF BalanceMatchesEntries
<1>4. Intact
  BY <1>1, <1>2, <1>3 DEF Intact, KeysUnique
<1>5. ~(row > ScarRow)
  BY <1>1 DEF ScarRow
<1>6. row \in 0 .. Last + 1
  BY <1>1 DEF Last
<1>7. tainted \in BOOLEAN /\ ~tainted
  BY <1>1, Zenon
<1> QED BY <1>1, <1>4, <1>5, <1>6, <1>7 DEF SweepInv

\* A sweep begins with nothing reported, knowing whether damage was done.
LEMMA SweepBegins ==
  ASSUME SweepInv, BeginSweep
  PROVE  SweepInv'
<1>1. /\ row' = 1 /\ reported' = {} /\ tainted' = (damage # None) /\ damage' = damage
      /\ UNCHANGED <<accounts, transactions, entries, req>>
  BY DEF BeginSweep, edgeVars, served
<1>2. (Intact <=> Intact') /\ (Scarred <=> Scarred')
  BY <1>1 DEF Intact, Scarred
<1>3. ~(row > ScarRow)'
  BY <1>1 DEF ScarRow
<1>4. row' \in 0 .. Last + 1 /\ tainted' \in BOOLEAN
  BY <1>1 DEF Last
<1> QED BY <1>1, <1>2, <1>3, <1>4 DEF SweepInv

\* The row that sees the damage reports it; no row reports a sound ledger.
LEMMA SweepEvaluates ==
  ASSUME EdgeInv, SweepInv, EvaluateRow
  PROVE  SweepInv'
<1>1. /\ row \in 1 .. Last /\ row' = row + 1 /\ damage' = damage /\ tainted' = tainted
      /\ UNCHANGED <<accounts, transactions, entries, req>>
  BY DEF EvaluateRow, edgeVars, served
<1>2. reported' = IF Rows[row] THEN reported ELSE reported \cup {row}
  BY DEF EvaluateRow
<1>3. (Intact <=> Intact') /\ (Scarred <=> Scarred') /\ ScarRow' = ScarRow
  BY <1>1 DEF Intact, Scarred, ScarRow
<1>4. row' \in 0 .. Last + 1
  BY <1>1 DEF Last
<1>5. damage = None => reported' = {}
  BY <1>1, <1>2, SoundRows DEF SweepInv
<1>6. ASSUME tainted, row' > ScarRow
      PROVE  ScarRow \in reported'
  <2>1. Scarred /\ ScarRow \in Int
    BY <1>6 DEF SweepInv, ScarRow
  <2>2. CASE row = ScarRow
    <3>1. ~Rows[row]
      BY <2>1, <2>2, ScarredRow
    <3> QED BY <1>2, <2>2, <3>1
  <2>3. CASE row # ScarRow
    <3>1. row > ScarRow
      BY <1>1, <1>6, <2>1, <2>3
    <3>2. ScarRow \in reported
      BY <1>6, <3>1 DEF SweepInv
    <3> QED BY <1>2, <3>2
  <2> QED BY <2>2, <2>3
<1> QED BY <1>1, <1>3, <1>4, <1>5, <1>6 DEF SweepInv

\* A sweep that fails has reported nothing.
LEMMA SweepGivesUp ==
  ASSUME SweepInv, SweepFails
  PROVE  SweepInv'
<1>1. /\ row' = 0 /\ reported' = {} /\ damage' = damage /\ tainted' = tainted
      /\ UNCHANGED <<accounts, transactions, entries, req>>
  BY DEF SweepFails, edgeVars, served
<1>2. (Intact <=> Intact') /\ (Scarred <=> Scarred')
  BY <1>1 DEF Intact, Scarred
<1>3. ~(row > ScarRow)'
  BY <1>1 DEF ScarRow
<1>4. row' \in 0 .. Last + 1
  BY <1>1 DEF Last
<1> QED BY <1>1, <1>2, <1>3, <1>4 DEF SweepInv

\* Damage is done to a sound ledger, and no sweep that runs was told of it.
LEMMA SweepHarmed ==
  ASSUME SweepInv, NEW kind \in Damages, Harm(kind), Scarred'
  PROVE  SweepInv'
<1>1. damage = None /\ damage' = kind /\ UNCHANGED <<row, reported, tainted>>
  BY DEF Harm, sweepVars
<1>2. ~tainted' /\ damage' # None /\ damage' \in Damages
  BY <1>1, DamagesAssumption DEF SweepInv
<1> QED BY <1>1, <1>2 DEF SweepInv

\* What each kind of damage leaves behind.
LEMMA HarmScars ==
  ASSUME EdgeInv, SweepInv
  PROVE  /\ \A a \in AccountIds, d \in Drifts : Drift(a, d) => Scarred'
         /\ Truncate => Scarred'
         /\ \A in \in EdgeInputs : InsertEmpty(in) => Scarred'
<1>1. ASSUME NEW a \in AccountIds, NEW d \in Drifts, Drift(a, d)
      PROVE  Scarred'
  <2>1. damage = None /\ damage' = "drift" /\ entries' = entries
    BY <1>1 DEF Drift, Harm
  <2>2. /\ accounts[a] # None /\ accounts'[a] # None
        /\ accounts'[a].balance = accounts[a].balance + d
    BY <1>1, EdgeDrift
  <2>3. accounts[a].balance = DerivedBalance(a, entries)
    BY <2>1, <2>2 DEF SweepInv, Intact, BalanceMatchesEntries
  <2>4. DerivedBalance(a, entries) \in Int /\ d \in Int /\ d # 0
    BY DerivedType, DriftsAssumption
  <2>5. accounts'[a].balance # DerivedBalance(a, entries)
    BY <2>2, <2>3, <2>4
  <2> QED BY <2>1, <2>2, <2>5 DEF Scarred, BalanceMatchesEntries
<1>2. ASSUME Truncate
      PROVE  Scarred'
  <2>1. /\ damage' = "truncate" /\ entries # {} /\ entries' = {}
        /\ transactions' = transactions
    BY <1>2 DEF Truncate, Harm
  <2>2. PICK t \in transactions : TRUE
    BY <2>1 DEF EdgeInv, EntriesSound
  <2>3. EntriesOf(t.id, entries') = {}
    BY <2>1 DEF EntriesOf
  <2> QED BY <2>1, <2>2, <2>3 DEF Scarred, NoEmptyTransactions
<1>3. ASSUME NEW in \in EdgeInputs, InsertEmpty(in)
      PROVE  Scarred'
  <2> DEFINE new == [id |-> <<None, 0>>, idempotency_key |-> in.key,
                     request_hash |-> RequestHash(in.intent)]
  <2>1. /\ damage' = "empty transaction" /\ new \in transactions' /\ entries' = entries
        /\ new.id = <<None, 0>>
    BY <1>3 DEF InsertEmpty, Harm
  <2> HIDE DEF new
  <2>2. \A e \in entries : e.transaction_id # <<None, 0>>
    <3>1. <<None, 0>> \notin TransactionId
      BY NoneAssumption DEF TransactionId
    <3> QED BY <3>1 DEF EdgeInv, EntriesSound, Entry
  <2>3. EntriesOf(new.id, entries') = {}
    BY <2>1, <2>2 DEF EntriesOf
  <2> QED BY <2>1, <2>3 DEF Scarred, NoEmptyTransactions
<1> QED BY <1>1, <1>2, <1>3

\* Every step keeps the invariant of the sweep.
LEMMA SweepStep == EdgeInv /\ SweepInv /\ [Next]_vars => SweepInv'
<1> SUFFICES ASSUME EdgeInv, SweepInv, [Next]_vars PROVE SweepInv'
  OBVIOUS
<1>1. CASE EdgeNext /\ UNCHANGED <<sweepVars, damage>>
  <2>1. UNCHANGED <<row, reported, tainted, damage>>
    BY <1>1 DEF sweepVars
  <2>2. (Intact => Intact') /\ (Scarred => Scarred')
    BY <1>1, <2>1, ServiceNeutral
  <2>3. ScarRow' = ScarRow
    BY <2>1 DEF ScarRow
  <2> QED BY <2>1, <2>2, <2>3 DEF SweepInv
<1>2. CASE BeginSweep
  BY <1>2, SweepBegins
<1>3. CASE EvaluateRow
  BY <1>3, SweepEvaluates
<1>4. ASSUME NEW a \in AccountIds, NEW d \in Drifts, Drift(a, d)
      PROVE  SweepInv'
  BY <1>4, HarmScars, SweepHarmed DEF Drift, Damages
<1>5. CASE Truncate
  BY <1>5, HarmScars, SweepHarmed DEF Truncate, Damages
<1>6. ASSUME NEW in \in EdgeInputs, InsertEmpty(in)
      PROVE  SweepInv'
  BY <1>6, HarmScars, SweepHarmed DEF InsertEmpty, Damages
<1>8. CASE SweepFails
  BY <1>8, SweepGivesUp
<1>7. CASE UNCHANGED vars
  <2>1. UNCHANGED <<row, reported, tainted, damage, accounts, transactions, entries, req>>
    BY <1>7 DEF vars, sweepVars, edgeVars, served
  <2> QED BY <2>1 DEF SweepInv, Intact, Scarred, ScarRow
<1> QED BY <1>1, <1>2, <1>3, <1>4, <1>5, <1>6, <1>7, <1>8 DEF Next

-----------------------------------------------------------------------------
(* The theorems *)

\* What makes the sweep trustworthy: the service keeps a sound ledger sound and a
\* damaged one damaged, at every commit between two rows of
\* ledger_check_invariants().
THEOREM SweepInvariant == Spec => []SweepInv
  BY SweepStart, SweepStep, EdgeInvariant, PTL DEF Spec

\* transfers::create and accounts::create of the HTTP edge keep within their types:
\* what reaches db::transfers has a key and an intent within range, and whoever is
\* refused never gets there.
THEOREM EdgeTypeCorrect == Spec => []EdgeTypeOK
  BY EdgeInvariant, EdgeTypes, PTL

\* LedgerError::status: the status tells what happened to the money, for every
\* order in which the requests under one key arrive, commit and are answered.
THEOREM StatusTruthful == Spec => []StatusTellsTruth
  BY EdgeInvariant, StatusTrue, PTL

\* The parser, Money::new and the NUMERIC column: the entries of a transfer hold
\* the value its text was parsed to, never one the column has rounded, and the
\* value of the text itself if the text is one a Decimal can hold.
THEOREM AmountsKept == Spec => []ExactAmounts
  BY EdgeInvariant, KeptExactly, PTL

\* An amount is refused, by the parser or by Money::new, only if no row could hold
\* the value of its text; what is let through has been parsed to a value a row
\* can hold, and unchanged if the text is one a Decimal can hold.
THEOREM AmountsRefusedDuly == Spec => []RefusedForCause
  BY EdgeInvariant, RefusedDuly, PTL

\* TransferIntent::request_hash: two amounts have the same canonical form exactly
\* if they have the same value and currency, whatever scale they were sent in.
THEOREM HashFollowsValue == Spec => []HashedByValue
<1>1. EdgeInv => HashedByValue
  BY AmountsExact
<1> QED BY <1>1, EdgeInvariant, PTL

\* Money::checked_add, checked_sub and checked_lt on the amounts let through are
\* exact, or refuse.
THEOREM ArithmeticIsExact == Spec => []ArithmeticExact
<1>1. EdgeInv => ArithmeticExact
  BY AmountsExact
<1> QED BY <1>1, EdgeInvariant, PTL

\* TryFrom<AccountRow> for Account and TryFrom<EntryRow> for Entry never fail on a
\* committed row, not even when the tables were damaged.
THEOREM RowsReadBack == Spec => []RowsReadable
  BY EdgeInvariant, ReadBack, PTL

\* ledger_check_invariants() reads every row from a snapshot of its own and still
\* reports nothing of a sound ledger, nor fails on one, however the transfers
\* commit in between.
THEOREM NoFalseAlarms == Spec => []NoFalseAlarm
<1>1. EdgeInv /\ SweepInv => NoFalseAlarm
  BY SoundRows DEF SweepInv, NoFalseAlarm
<1> QED BY <1>1, EdgeInvariant, SweepInvariant, PTL

\* check_invariants reports every damage done before it began: no transfer and no
\* new account covers it up.
THEOREM DamageIsReported == Spec => []DamageReported
<1>1. SweepInv => DamageReported
  <2> SUFFICES ASSUME SweepInv, row > Last, tainted PROVE reported # {}
    BY DEF DamageReported, Finished
  <2>1. row > ScarRow
    BY DEF ScarRow, Last, SweepInv
  <2> QED BY <2>1 DEF SweepInv
<1> QED BY <1>1, SweepInvariant, PTL
=============================================================================
