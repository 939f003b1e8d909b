-------------------------- MODULE RefinementProofs --------------------------
(***************************************************************************)
(* Two refinements.  Upwards, the transfer path implements the abstract    *)
(* TransferService: a COMMIT is its Move, an answer is its Reply,          *)
(* everything else is invisible.  Downwards, it is a lawful client of      *)
(* Schema: each request is a session that issues only statements the       *)
(* constraints and triggers accept.                                        *)
(***************************************************************************)
EXTENDS SafetyProofs

USE DEF At, Goto, Answer, Conclude, db, locks, work

\* Everything proved so far that a step of the refinement uses.
Sound == /\ TypeOK /\ TransferDiscipline /\ NoOverdraft /\ OneTransactionPerKey
         /\ HistorySound /\ RepliesBacked /\ AnswersTruthful

\* It holds in every reachable state.
LEMMA SoundAlways == Spec => []Sound
<1>1. Spec => /\ [](TypeOK /\ TransferDiscipline) /\ []NoOverdraft /\ []OneTransactionPerKey
              /\ [](HistorySound /\ RepliesBacked /\ AnswersTruthful)
  BY Discipline, NeverOverdrawn, KeysUsedOnce, HistoryAndReplies
<1> QED BY <1>1, PTL DEF Sound

\* The abstract vocabulary is the concrete one.
LEMMA SameVocabulary ==
  /\ \A i : Service!RequestHash(i) = RequestHash(i)
  /\ \A id, i : Service!Postings(id, i) = Postings(id, i)
  /\ \A n : Service!Representable(n) <=> Representable(n)
  /\ \A k : Service!Used(k) = Recorded(k)
  BY DEF Service!RequestHash, RequestHash, Service!Postings, Postings,
     Service!Representable, Representable, Service!Used, Recorded

\* An arrival is a Submit.
LEMMA DeliverSubmits ==
  ASSUME Sound, NEW r \in Requests, Deliver(r)
  PROVE  Service!Submit(r)
  BY DEF Sound, Deliver, Service!Submit, Service!tables, TransferDiscipline, Disciplined,
     RequestSound

\* A COMMIT is a Move, whether or not the client still waits.
LEMMA CommitMoves ==
  ASSUME Sound, NEW r \in Requests, pc[r] = "commit", Apply(r), UNCHANGED <<req, answer>>
  PROVE  Service!Move(r)
<1> DEFINE i == Intent(r)
<1> USE DEF Sound
<1>0. Disciplined(r) /\ TypeOK
  BY DEF TransferDiscipline
<1>1. /\ req[r] # None
      /\ \A t \in transactions : t.idempotency_key # Key(r)
      /\ posted[r] = Postings(TxnId(r), i)
  BY CommitFresh
<1>2. answer[r] \in {None, "timeout", "internal_error"}
  BY DEF RepliesBacked, ReplyBacked, Unknown
<1>3. /\ i.from_account_id \in AccountIds /\ i.to_account_id \in AccountIds /\ i.amount \in Int
      /\ i.from_account_id # i.to_account_id /\ i.amount > 0
  BY <1>0, IntentType DEF Disciplined, RequestSound, InTransaction
<1>4. /\ accounts[i.from_account_id] # None /\ accounts[i.to_account_id] # None
  BY <1>0 DEF Disciplined, RowsLocked, HoldsRow, Authorized
<1>5. /\ accounts[i.from_account_id].currency = i.currency
      /\ accounts[i.to_account_id].currency = i.currency
      /\ \/ accounts[i.from_account_id].allows_negative_balance
         \/ accounts[i.from_account_id].balance >= i.amount
      /\ Representable(accounts[i.from_account_id].balance - i.amount)
      /\ Representable(accounts[i.to_account_id].balance + i.amount)
  BY <1>0 DEF Disciplined, StillAuthorized, Authorized, AfterDebit, AfterCredit
<1>6. accounts' = [accounts EXCEPT ![i.from_account_id].balance = @ - i.amount,
                                   ![i.to_account_id].balance = @ + i.amount]
  <2> DEFINE new == [accounts EXCEPT ![i.from_account_id].balance = @ - i.amount,
                                     ![i.to_account_id].balance = @ + i.amount]
  <2>1. \A a \in AccountIds :
           delta[r][a] = IF a = i.from_account_id THEN -i.amount
                         ELSE IF a = i.to_account_id THEN i.amount ELSE 0
    BY <1>0 DEF Disciplined, WritesExpected, ExpectedDelta, AfterDebit, AfterCredit, Authorized
  <2>2. ASSUME NEW a \in AccountIds PROVE accounts'[a] = new[a]
    <3>0. accounts[a] # None => accounts[a] \in AccountRow
      BY <1>0 DEF TypeOK
    <3>1. CASE a = i.from_account_id
      <4>1. accounts'[a] = [accounts[a] EXCEPT !.balance = @ + (-i.amount)]
        BY <1>4, <2>1, <3>1 DEF Apply
      <4>2. new[a] = [accounts[a] EXCEPT !.balance = @ - i.amount]
        BY <1>0, <1>3, <3>1 DEF TypeOK
      <4> QED BY <1>3, <1>4, <3>0, <3>1, <4>1, <4>2 DEF AccountRow
    <3>2. CASE a = i.to_account_id
      <4>1. accounts'[a] = [accounts[a] EXCEPT !.balance = @ + i.amount]
        BY <1>3, <1>4, <2>1, <3>2 DEF Apply
      <4>2. new[a] = [accounts[a] EXCEPT !.balance = @ + i.amount]
        BY <1>0, <1>3, <3>2 DEF TypeOK
      <4> QED BY <4>1, <4>2
    <3>3. CASE a # i.from_account_id /\ a # i.to_account_id
      <4>1. accounts'[a] = IF accounts[a] = None THEN None
                           ELSE [accounts[a] EXCEPT !.balance = @ + 0]
        BY <2>1, <3>3 DEF Apply
      <4>2. new[a] = accounts[a]
        BY <1>0, <1>3, <3>3 DEF TypeOK
      <4> QED BY <3>0, <4>1, <4>2 DEF AccountRow
    <3> QED BY <3>1, <3>2, <3>3
  <2>3. accounts' = [a \in AccountIds |-> accounts'[a]] /\ new = [a \in AccountIds |-> new[a]]
    BY <1>0 DEF Apply, TypeOK
  <2> HIDE DEF new
  <2>4. accounts' = new
    BY <2>2, <2>3
  <2> QED BY <2>4 DEF new
<1>7. attempt[r] \in 0 .. MaxConflictRetries
  BY <1>0 DEF TypeOK
<1>8. Service!Used(req[r].key) = {}
  BY <1>1 DEF Service!Used, Key
<1>9. \E n \in 0 .. MaxConflictRetries :
        LET id == <<r, n>>
        IN /\ transactions' = transactions \cup
                  {[id |-> id, idempotency_key |-> req[r].key,
                    request_hash |-> Service!RequestHash(i)]}
           /\ entries' = entries \cup Service!Postings(id, i)
  <2>1. /\ transactions' = transactions \cup
                  {[id |-> <<r, attempt[r]>>, idempotency_key |-> req[r].key,
                    request_hash |-> Service!RequestHash(i)]}
        /\ entries' = entries \cup Service!Postings(<<r, attempt[r]>>, i)
    BY <1>1, SameVocabulary DEF Apply, TxnId, Key
  <2> QED BY <1>7, <2>1
<1> QED
  BY <1>1, <1>2, <1>3, <1>4, <1>5, <1>6, <1>8, <1>9, SameVocabulary
     DEF Service!Move, Service!Exists, Service!SameCurrency, Service!Funded, Intent

-----------------------------------------------------------------------------
(* Answers *)

\* What justifies each answer, in the terms of the implementation.
LEMMA Justify ==
  ASSUME NEW r \in Requests
  PROVE  LET i == Intent(r)
             used == Recorded(Key(r))
         IN /\ Service!Justified(r, "internal_error") /\ Service!Justified(r, "timeout")
            /\ (\E t \in used : t.id[1] = r) => Service!Justified(r, "created")
            /\ (\E t \in used : t.request_hash = RequestHash(i)) =>
                  Service!Justified(r, "replayed")
            /\ (\E t \in used : t.request_hash # RequestHash(i)) =>
                  Service!Justified(r, "idempotency_key_conflict")
            /\ (used = {} /\ i.from_account_id = i.to_account_id) =>
                  Service!Justified(r, "self_transfer")
            /\ (used = {} /\ i.amount <= 0) => Service!Justified(r, "non_positive_amount")
            /\ (used = {} /\ ~Service!Exists(i)) => Service!Justified(r, "account_not_found")
            /\ (used = {} /\ Service!Exists(i) /\ ~Service!SameCurrency(i)) =>
                  Service!Justified(r, "currency_mismatch")
            /\ (used = {} /\ Service!Exists(i) /\ Service!SameCurrency(i)
                          /\ ~Service!Funded(i)) =>
                  Service!Justified(r, "insufficient_funds")
  BY DEF Service!Justified, Service!Used, Service!RequestHash, RequestHash, Recorded, Key, Intent

\* The answers the service gives: it never reports a missing winner.
Given == Rejections \cup Successes \cup Unknown

\* A step that changes nothing visible but r's answer, and justifies it, is a Reply.
LEMMA ReplyShape ==
  ASSUME Sound, NEW r \in Requests, answer[r] = None, pc[r] # "idle", UNCHANGED <<db, req>>,
         NEW o \in Given, Answer(r, o), Service!Justified(r, o),
         o \in Rejections => \A t \in transactions : t.id[1] # r
  PROVE  Service!Reply(r)
<1>1. req[r] # None
  BY DEF Sound, TransferDiscipline, Disciplined, RequestSound
<1> QED
  BY <1>1 DEF Service!Reply, Service!tables, Given, Rejections, Successes, Unknown

\* An answer that decides nothing needs no justification.
LEMMA UnknownReply ==
  ASSUME Sound, NEW r \in Requests, answer[r] = None, pc[r] # "idle", UNCHANGED <<db, req>>,
         NEW o \in Unknown, Answer(r, o)
  PROVE  Service!Reply(r)
<1>1. o \in Given /\ o \notin Rejections
  BY DEF Given, Unknown, Rejections
<1>2. Service!Justified(r, o)
  BY Justify DEF Unknown
<1> QED BY <1>1, <1>2, ReplyShape

\* replay answers a conflict, or says nothing yet.
LEMMA ReplayReply ==
  ASSUME Sound, NEW r \in Requests, answer[r] = None, pc[r] # "idle", UNCHANGED <<db, req>>,
         NEW t \in Recorded(Key(r)), Replay(r, t)
  PROVE  Service!Reply(r) \/ UNCHANGED Service!vars
<1>1. CASE t.request_hash # RequestHash(Intent(r))
  <2>1. Service!Justified(r, "idempotency_key_conflict")
    BY <1>1, Justify
  <2>2. \A u \in transactions : u.id[1] # r
    BY <1>1, NothingMoved DEF Sound
  <2>3. Answer(r, "idempotency_key_conflict")
    BY <1>1 DEF Replay
  <2> QED BY <2>1, <2>2, <2>3, ReplyShape DEF Given, Rejections
<1>2. CASE t.request_hash = RequestHash(Intent(r))
  BY <1>2 DEF Replay, Service!vars, Service!tables
<1> QED BY <1>1, <1>2

\* A rejection while the key is unused is given to a request that moved nothing.
LEMMA UnusedReply ==
  ASSUME Sound, NEW r \in Requests, answer[r] = None, pc[r] # "idle", UNCHANGED <<db, req>>,
         Recorded(Key(r)) = {}, NEW o \in Rejections, Answer(r, o), Service!Justified(r, o)
  PROVE  Service!Reply(r)
<1>1. \A u \in transactions : u.id[1] # r
  BY NothingMoved DEF Sound
<1> QED BY <1>1, ReplyShape DEF Given

\* The rejections read from the locked rows are true of the committed rows.
LEMMA LockedReply ==
  ASSUME Sound, NEW r \in Requests, LockFirst(r) \/ LockSecond(r) \/ Check(r)
  PROVE  Service!Reply(r) \/ UNCHANGED Service!vars
<1> DEFINE i == Intent(r)
<1> USE DEF Rejections
<1>0. TypeOK /\ Disciplined(r)
  BY DEF Sound, TransferDiscipline
<1>1. pc[r] \in {"lock_first", "lock_second", "check"} /\ answer[r] = None /\ pc[r] # "idle"
  BY DEF LockFirst, LockSecond, Check
<1>2. Recorded(Key(r)) = {}
  BY <1>0, <1>1 DEF Disciplined, KeyClaimed, Claiming
<1>3. CASE LockFirst(r) \/ LockSecond(r)
  <2>1. CASE \E a \in {LockOrder(i)[1], LockOrder(i)[2]} :
                accounts[a] = None /\ RejectOpen(r, "account_not_found")
    <3>1. ~Service!Exists(i)
      BY <1>0, <1>1, <2>1, LockOrderType DEF Disciplined, Service!Exists
    <3>2. Service!Justified(r, "account_not_found")
      BY <1>2, <3>1, Justify
    <3>3. Answer(r, "account_not_found") /\ UNCHANGED <<db, req>>
      BY <2>1 DEF RejectOpen
    <3> QED BY <1>1, <1>2, <3>2, <3>3, UnusedReply
  <2>2. CASE UNCHANGED Service!vars
    BY <2>2
  <2> QED BY <1>3, <2>1, <2>2 DEF LockFirst, LockSecond, FetchForUpdate, Service!vars, Service!tables
<1>4. CASE Check(r)
  <2>1. /\ locked[r][i.from_account_id] = accounts[i.from_account_id]
        /\ locked[r][i.to_account_id] = accounts[i.to_account_id]
        /\ Service!Exists(i)
    BY <1>0, <1>4 DEF Check, Disciplined, RowsLocked, HoldsRow, Service!Exists
  <2>2. CASE ~Service!SameCurrency(i) /\ RejectOpen(r, "currency_mismatch")
    <3>1. Service!Justified(r, "currency_mismatch")
      BY <1>2, <2>1, <2>2, Justify
    <3>2. Answer(r, "currency_mismatch") /\ UNCHANGED <<db, req>>
      BY <2>2 DEF RejectOpen
    <3> QED BY <1>1, <1>2, <3>1, <3>2, UnusedReply
  <2>3. CASE Service!SameCurrency(i) /\ ~Service!Funded(i) /\ RejectOpen(r, "insufficient_funds")
    <3>1. Service!Justified(r, "insufficient_funds")
      BY <1>2, <2>1, <2>3, Justify
    <3>2. Answer(r, "insufficient_funds") /\ UNCHANGED <<db, req>>
      BY <2>3 DEF RejectOpen
    <3> QED BY <1>1, <1>2, <3>1, <3>2, UnusedReply
  <2>4. CASE UNCHANGED <<db, req, answer>>
    BY <2>4 DEF Service!vars, Service!tables
  <2> QED
    BY <1>4, <2>1, <2>2, <2>3, <2>4 DEF Check, Service!SameCurrency, Service!Funded
<1> QED BY <1>3, <1>4

\* The checks that need no database.
LEMMA EarlyReply ==
  ASSUME Sound, NEW r \in Requests, FindRecord(r) \/ FindNothing(r)
  PROVE  Service!Reply(r) \/ UNCHANGED Service!vars
<1> DEFINE i == Intent(r)
<1> USE DEF Rejections
<1>0. TypeOK /\ RequestSound(r)
  BY DEF Sound, TransferDiscipline, Disciplined
<1>1. pc[r] # "idle" /\ answer[r] = None /\ UNCHANGED <<db, req>>
  BY DEF FindRecord, FindNothing
<1>2. CASE FindRecord(r)
  BY <1>1, <1>2, ReplayReply DEF FindRecord
<1>3. CASE FindNothing(r)
  <2>0. Recorded(Key(r)) = {} /\ i.amount \in Int
    BY <1>0, <1>1, <1>3, IntentType DEF FindNothing
  <2>1. CASE i.from_account_id = i.to_account_id /\ Answer(r, "self_transfer")
    <3>1. Service!Justified(r, "self_transfer")
      BY <2>0, <2>1, Justify
    <3> QED BY <1>1, <2>0, <2>1, <3>1, UnusedReply
  <2>2. CASE ~(i.amount > 0) /\ Answer(r, "non_positive_amount")
    <3>1. Service!Justified(r, "non_positive_amount")
      BY <2>0, <2>2, Justify
    <3> QED BY <1>1, <2>0, <2>2, <3>1, UnusedReply
  <2>3. CASE UNCHANGED answer
    BY <1>1, <2>3 DEF Service!vars, Service!tables
  <2> QED BY <1>3, <2>1, <2>2, <2>3 DEF FindNothing
<1> QED BY <1>2, <1>3

\* The CHECK constraint never speaks: the funds check came first, so an UPDATE
\* fails only on the range of the column.
LEMMA AdjustReply ==
  ASSUME Sound, NEW r \in Requests, AdjustFrom(r) \/ AdjustTo(r)
  PROVE  Service!Reply(r) \/ UNCHANGED Service!vars
<1> DEFINE i == Intent(r)
           a == IF pc[r] = "adjust_from" THEN i.from_account_id ELSE i.to_account_id
           d == IF pc[r] = "adjust_from" THEN -i.amount ELSE i.amount
           row == [accounts[a] EXCEPT !.balance = @ + delta[r][a] + d]
<1>0. TypeOK /\ Disciplined(r)
  BY DEF Sound, TransferDiscipline
<1>1. /\ pc[r] \in {"adjust_from", "adjust_to"} /\ answer[r] = None /\ pc[r] # "idle"
  BY DEF AdjustFrom, AdjustTo
<1>2. /\ i.from_account_id \in AccountIds /\ i.to_account_id \in AccountIds /\ i.amount \in Int
      /\ i.from_account_id # i.to_account_id /\ i.amount > 0
  BY <1>0, <1>1, IntentType DEF Disciplined, RequestSound, InTransaction
<1>3. /\ accounts[a] # None /\ accounts[a] \in AccountRow
      /\ BalanceNonNegative(accounts[a]) /\ delta[r][a] = 0
  <2>1. accounts[a] # None
    BY <1>0, <1>1 DEF Disciplined, RowsLocked, HoldsRow, Authorized
  <2>2. delta[r][a] = 0
    BY <1>0, <1>1, <1>2 DEF Disciplined, WritesExpected, ExpectedDelta, AfterDebit, AfterCredit,
       Authorized
  <2> QED BY <1>0, <1>2, <2>1, <2>2 DEF Sound, NoOverdraft, NoNegativeBalance, TypeOK
<1>4. pc[r] = "adjust_from" => accounts[a].allows_negative_balance \/ accounts[a].balance >= i.amount
  BY <1>0 DEF Disciplined, StillAuthorized, Authorized
<1>5. /\ row.balance = accounts[a].balance + d
      /\ row.allows_negative_balance = accounts[a].allows_negative_balance
  BY <1>1, <1>2, <1>3 DEF AccountRow
<1>6. BalanceNonNegative(row)
  BY <1>1, <1>2, <1>3, <1>4, <1>5 DEF BalanceNonNegative, AccountRow
<1>7. \/ FailStatement(r, "internal_error")
      \/ UNCHANGED <<db, req, answer>>
  BY <1>1, <1>6 DEF AdjustFrom, AdjustTo, AdjustBalance
<1>8. CASE FailStatement(r, "internal_error")
  BY <1>1, <1>8, UnknownReply DEF FailStatement, Unknown
<1>9. CASE UNCHANGED <<db, req, answer>>
  BY <1>9 DEF Service!vars, Service!tables
<1> QED BY <1>7, <1>8, <1>9

\* The last statement reports a committed transaction of the request's key.
LEMMA SuccessReply ==
  ASSUME Sound, NEW r \in Requests, GetEntries(r)
  PROVE  Service!Reply(r)
<1>1. /\ pc[r] = "get_entries" /\ pc[r] # "idle" /\ answer[r] = None
      /\ Answer(r, result[r].outcome) /\ UNCHANGED <<db, req>>
  BY DEF GetEntries
<1>2. result[r].outcome \in Successes
  BY <1>1 DEF Sound, RepliesBacked, ReplyBacked
<1>3. PICK t \in transactions : Reports(r, t)
  BY <1>1 DEF Sound, RepliesBacked, ReplyBacked
<1>4. t \in Recorded(Key(r))
  BY <1>3 DEF Reports, Recorded
<1>5. t.request_hash = RequestHash(Intent(r))
  BY <1>3 DEF Reports
<1>6. result[r].outcome = "created" => t.id[1] = r
  BY <1>3 DEF Reports, TxnId
<1>7. Service!Justified(r, result[r].outcome)
  BY <1>2, <1>4, <1>5, <1>6, Justify DEF Successes
<1>8. result[r].outcome \in Given /\ result[r].outcome \notin Rejections
  BY <1>2 DEF Given, Successes, Rejections
<1> QED BY <1>1, <1>7, <1>8, ReplyShape

-----------------------------------------------------------------------------
(* Steps *)

\* Every step of a request is a step of the service or invisible to it.
LEMMA RequestImplements ==
  ASSUME Sound, NEW r \in Requests, Deliver(r) \/ Step(r) \/ Fault(r)
  PROVE  Service!Submit(r) \/ Service!Move(r) \/ Service!Reply(r) \/ UNCHANGED Service!vars
<1> USE DEF Unknown
<1>f. ASSUME FailStatement(r, "internal_error"), answer[r] = None, pc[r] # "idle"
      PROVE  Service!Reply(r)
  BY <1>f, UnknownReply DEF FailStatement
<1>u. ASSUME UNCHANGED <<db, req, answer>> PROVE UNCHANGED Service!vars
  BY <1>u DEF Service!vars, Service!tables
<1>1. CASE Deliver(r)
  BY <1>1, DeliverSubmits
<1>2. CASE FindRecord(r) \/ FindNothing(r)
  BY <1>2, EarlyReply
<1>3. CASE Begin(r) \/ ClaimKey(r) \/ ClaimCollides(r) \/ Rollback(r)
  BY <1>3, <1>u DEF Begin, ClaimKey, ClaimCollides, Rollback
<1>4. CASE FindWinner(r)
  <2>1. Recorded(Key(r)) # {}
    BY <1>4 DEF FindWinner, Sound, RepliesBacked, ReplyBacked
  <2>2. PICK t \in Recorded(Key(r)) : Replay(r, t)
    BY <1>4, <2>1 DEF FindWinner
  <2>3. answer[r] = None /\ pc[r] # "idle" /\ UNCHANGED <<db, req>>
    BY <1>4 DEF FindWinner
  <2> QED BY <2>2, <2>3, ReplayReply
<1>5. CASE LockFirst(r) \/ LockSecond(r) \/ Check(r)
  BY <1>5, LockedReply
<1>6. CASE AdjustFrom(r) \/ AdjustTo(r)
  BY <1>6, AdjustReply
<1>7. CASE PostCredit(r) \/ PostDebit(r)
  BY <1>7, <1>f, <1>u DEF PostCredit, PostDebit, InsertEntry
<1>8. CASE Commit(r)
  <2>1. pc[r] = "commit" /\ answer[r] = None
    BY <1>8 DEF Commit
  <2>2. CASE FailStatement(r, "internal_error")
    BY <1>f, <2>1, <2>2
  <2>3. CASE ~FailStatement(r, "internal_error")
    <3>1. Apply(r) /\ UNCHANGED <<req, answer>>
      BY <1>8, <2>3 DEF Commit
    <3> QED BY <2>1, <3>1, CommitMoves
  <2> QED BY <2>2, <2>3
<1>9. CASE GetTransaction(r)
  <2>1. \E t \in transactions : t.id = result[r].transaction_id
    BY <1>9 DEF GetTransaction, Sound, RepliesBacked, ReplyBacked, Reports
  <2> QED BY <1>9, <1>u, <2>1 DEF GetTransaction
<1>10. CASE GetEntries(r)
  BY <1>10, SuccessReply
<1>11. CASE LateCommit(r)
  BY <1>11, CommitMoves DEF LateCommit
<1>12. CASE ConflictAbort(r)
  <2>1. answer[r] = None /\ pc[r] # "idle" /\ UNCHANGED <<db, req>>
    BY <1>12 DEF ConflictAbort, Awaiting, OnPool, InTransaction
  <2>2. UNCHANGED answer \/ Answer(r, "internal_error")
    BY <1>12 DEF ConflictAbort
  <2> QED BY <1>u, <2>1, <2>2, UnknownReply
<1>13. CASE LockTimeout(r)
  <2>1. pc[r] # "idle"
    BY <1>13 DEF LockTimeout, LockBlockers
  <2> QED BY <1>13, <1>f, <2>1 DEF LockTimeout
<1>14. CASE Abandon(r)
  <2>1. answer[r] = None /\ pc[r] # "idle" /\ UNCHANGED <<db, req>>
    BY <1>14 DEF Abandon, Awaiting, OnPool, InTransaction
  <2>2. Answer(r, "timeout") \/ Answer(r, "internal_error")
    BY <1>14 DEF Abandon
  <2> QED BY <2>1, <2>2, UnknownReply
<1> QED
  BY <1>1, <1>2, <1>3, <1>4, <1>5, <1>6, <1>7, <1>8, <1>9, <1>10, <1>11, <1>12, <1>13, <1>14
     DEF Step, Fault

\* Every step of the system is a step of the service or invisible to it.
LEMMA StepImplements ==
  ASSUME Sound, [Next]_vars
  PROVE  [Service!Next]_Service!vars
<1>1. ASSUME NEW r \in Requests, Deliver(r) \/ Step(r) \/ Fault(r)
      PROVE  [Service!Next]_Service!vars
  BY <1>1, RequestImplements DEF Service!Next
<1>2. ASSUME NEW a \in AccountIds, NEW c \in Currencies, NEW n \in BOOLEAN,
             CreateAccount(a, c, n)
      PROVE  [Service!Next]_Service!vars
  <2>1. Service!OpenAccount(a)
    BY <1>2 DEF CreateAccount, Service!OpenAccount
  <2> QED BY <2>1 DEF Service!Next
<1>3. ASSUME UNCHANGED vars PROVE [Service!Next]_Service!vars
  BY <1>3 DEF vars, Service!vars, Service!tables
<1> QED BY <1>1, <1>2, <1>3 DEF Next, AllServed

\* The transfer path implements the atomic service, for any number of requests,
\* accounts, retries and connections and under every fault: each transfer takes
\* effect in one step, and each answer is true of the committed ledger at the
\* moment it is given.
THEOREM PathImplementsService == Spec => ImplementsService
<1>1. Init => Service!Init
  BY DEF Init, Service!Init
<1>2. Sound /\ [Next]_vars => [Service!Next]_Service!vars
  BY StepImplements
<1>3. Spec => []Sound
  BY SoundAlways
<1>4. Spec => Service!Spec
  BY <1>1, <1>2, <1>3, PTL DEF Spec, Service!Spec
<1> QED BY <1>4 DEF ImplementsService
-----------------------------------------------------------------------------
(* The transfer path as a client of the schema: each request is a session,  *)
(* its statements are statements of Schema, the rest is invisible there.    *)

\* The variables of Schema, as the transfer path has them.
Xid == [q \in Requests |-> IF pc[q] \in InTransaction THEN TxnId(q) ELSE None]
Wrote == [q \in Requests |-> WroteInDatabase(q)]

\* A request that has yet to insert its transaction row has committed none: the
\* UUID it draws is fresh.
Unspent(q) == pc[q] \in {"begin", "claim"} => \A t \in transactions : t.id[1] # q

\* Everything proved so far that this refinement uses.
Stored == Sound /\ WaitInv /\ \A q \in Requests : Unspent(q)

\* The vocabulary of the schema is that of the ledger.
LEMMA SchemaVocabulary ==
  /\ \A n : Storage!Representable(n) <=> Representable(n)
  /\ \A row : Storage!BalanceNonNegative(row) <=> BalanceNonNegative(row)
  /\ \A e, accs : Storage!EntryAllowed(e, accs) <=> EntryAllowed(e, accs)
  /\ \A id, E : Storage!EntriesOf(id, E) = EntriesOf(id, E)
  /\ \A E : Storage!TransactionBalanced(E) <=> TransactionBalanced(E)
<1>1. \A E : Storage!Net(E) = Net(E)
  BY DEF Storage!Net, Net, Storage!MapThenSumSet, MapThenSumSet, Storage!MapThenFoldSet,
     MapThenFoldSet, Storage!Signed, Signed
<1>2. \A E : Storage!TransactionBalanced(E) <=> TransactionBalanced(E)
  BY <1>1 DEF Storage!TransactionBalanced, TransactionBalanced, Storage!Cardinality, Cardinality
<1>3. \A n : Storage!Representable(n) <=> Representable(n)
  BY DEF Storage!Representable, Representable
<1> QED
  BY <1>2, <1>3 DEF Storage!BalanceNonNegative, BalanceNonNegative, Storage!EntryAllowed,
     EntryAllowed, Storage!EntriesOf, EntriesOf

\* A request that has changed a balance has locked the row.
LEMMA DeltaLocked ==
  ASSUME TypeOK, NEW q \in Requests, Disciplined(q), NEW a \in AccountIds, delta[q][a] # 0
  PROVE  lockedBy[a] = q /\ accounts[a] # None /\ pc[q] \in Authorized
  BY DEF Disciplined, RowsLocked, HoldsRow, WritesExpected, ExpectedDelta, AfterDebit,
     AfterCredit, Authorized

\* What a session has written stays as it is while its request, its key and the
\* rows it has changed do.
LEMMA SameWrites ==
  ASSUME NEW q \in Requests, delta'[q] = delta[q], posted'[q] = posted[q],
         TxnId(q)' = TxnId(q),
         \A k \in Keys : claimedBy'[k] = q <=> claimedBy[k] = q,
         \A a \in AccountIds : delta[q][a] # 0 => accounts'[a] = accounts[a]
  PROVE  WroteInDatabase(q)' = WroteInDatabase(q)
<1>1. [a \in AccountIds |-> IF delta[q][a] = 0 THEN None
          ELSE [accounts[a] EXCEPT !.balance = @ + delta[q][a]]]
      = [a \in AccountIds |-> IF delta'[q][a] = 0 THEN None
          ELSE [accounts'[a] EXCEPT !.balance = @ + delta'[q][a]]]
  OBVIOUS
<1>2. {k \in Keys : claimedBy'[k] = q} = {k \in Keys : claimedBy[k] = q}
  OBVIOUS
<1>3. {[id |-> TxnId(q)', idempotency_key |-> k, created_xid |-> TxnId(q)'] :
           k \in {k \in Keys : claimedBy'[k] = q}}
      = {[id |-> TxnId(q), idempotency_key |-> k, created_xid |-> TxnId(q)] :
           k \in {k \in Keys : claimedBy[k] = q}}
  BY <1>2
<1> QED BY <1>1, <1>3 DEF WroteInDatabase, EntryInDatabase

\* A step of r is a step of its session alone.
LEMMA OtherSessions ==
  ASSUME Stored, NEW r \in Requests, Deliver(r) \/ Step(r) \/ Fault(r)
  PROVE  /\ Xid' = [Xid EXCEPT ![r] = Xid'[r]]
         /\ Wrote' = [Wrote EXCEPT ![r] = WroteInDatabase(r)']
<1>1. ASSUME NEW q \in Requests \ {r}
      PROVE  Xid'[q] = Xid[q] /\ Wrote'[q] = Wrote[q]
  <2>1. TypeOK /\ Disciplined(r) /\ Disciplined(q)
    BY DEF Stored, Sound, TransferDiscipline
  <2>2. Untouched(q)
    BY <2>1, Others
  <2>3. \A k \in Keys : claimedBy'[k] = q => claimedBy[k] = q
    BY <2>1, TakesForNobodyElse
  <2>4. \A a \in AccountIds : delta[q][a] # 0 => accounts'[a] = accounts[a]
    BY <2>1, <2>2, DeltaLocked DEF Untouched
  <2>5. TxnId(q)' = TxnId(q)
    BY <2>2 DEF TxnId, Untouched
  <2>6. WroteInDatabase(q)' = WroteInDatabase(q)
    BY <2>2, <2>3, <2>4, <2>5, SameWrites DEF Untouched
  <2> QED BY <2>2, <2>5, <2>6 DEF Xid, Wrote, Untouched
<1> QED BY <1>1 DEF Xid, Wrote

\* A session without a transaction has written nothing.
LEMMA EmptyHanded ==
  ASSUME TypeOK, NEW q \in Requests, Disciplined(q), Holds(q), pc[q] \notin InTransaction
  PROVE  WroteInDatabase(q) = Storage!NoWrites
<1>1. \A a \in AccountIds : delta[q][a] = 0
  BY DeltaLocked DEF InTransaction, Authorized
<1>2. posted[q] = {}
  BY DEF Disciplined, WritesExpected, ExpectedPosted, InTransaction
<1>3. {k \in Keys : claimedBy[k] = q} = {}
  BY DEF Holds, InTransaction, Claiming, Authorized
<1> QED BY <1>1, <1>2, <1>3 DEF WroteInDatabase, Storage!NoWrites

\* Nor has one whose transaction has just ended.
LEMMA EndedEmpty ==
  ASSUME TypeOK, NEW r \in Requests, EndTransaction(r)
  PROVE  WroteInDatabase(r)' = Storage!NoWrites
<1>1. \A a \in AccountIds : delta'[r][a] = 0
  BY DEF EndTransaction, TypeOK
<1>2. posted'[r] = {}
  BY DEF EndTransaction, TypeOK
<1>3. {k \in Keys : claimedBy'[k] = r} = {}
  BY NoneAssumption DEF EndTransaction
<1> QED BY <1>1, <1>2, <1>3 DEF WroteInDatabase, Storage!NoWrites

\* A session is in a transaction while its request is; each has an id of its own.
LEMMA Session ==
  ASSUME TypeOK, NEW q \in Requests
  PROVE  /\ TxnId(q) \in TransactionId /\ TxnId(q) # None
         /\ Xid[q] = IF pc[q] \in InTransaction THEN TxnId(q) ELSE None
         /\ pc[q] \in InTransaction => Storage!Writing(q)
         /\ \A r \in Requests \ {q} : TxnId(r) # TxnId(q)
<1>1. TxnId(q) \in TransactionId /\ TxnId(q) # None
  BY NoneAssumption DEF TypeOK, TxnId, TransactionId
<1>2. \A r \in Requests \ {q} : TxnId(r) # TxnId(q)
  BY DEF TxnId
<1> QED BY <1>1, <1>2 DEF Xid, Storage!Writing

\* A step of r uses up no transaction id but r's own.
LEMMA SpentOfOthers ==
  ASSUME Stored, NEW r \in Requests, Deliver(r) \/ Step(r) \/ Fault(r),
         NEW id \in TransactionId, id[1] # r
  PROVE  id \in SpentIds' <=> id \in SpentIds
<1>1. id[1] \in Requests \ {r}
  BY DEF TransactionId
<1>2. TypeOK /\ Disciplined(r) /\ Disciplined(id[1])
  BY <1>1 DEF Stored, Sound, TransferDiscipline
<1>3. Untouched(id[1])
  BY <1>1, <1>2, Others
<1> QED BY <1>3 DEF SpentIds, Untouched

\* An attempt that has begun, and goes on, ends or starts over, uses up no other id.
LEMMA SpentKept ==
  ASSUME Stored, NEW r \in Requests, Deliver(r) \/ Step(r) \/ Fault(r),
         pc[r] \notin BeforeBegin,
         \/ attempt' = attempt /\ pc'[r] \notin BeforeBegin
         \/ attempt' = [attempt EXCEPT ![r] = @ + 1] /\ pc'[r] = "find"
  PROVE  SpentIds' = SpentIds
<1>1. attempt \in [Requests -> 0 .. MaxConflictRetries] /\ attempt[r] \in Nat
  BY DEF Stored, Sound, TypeOK
<1>2. ASSUME NEW id \in TransactionId, id[1] = r PROVE id \in SpentIds' <=> id \in SpentIds
  <2>1. id[2] \in Nat
    BY DEF TransactionId
  <2>2. id \in SpentIds <=> id[2] <= attempt[r]
    BY <1>1, <1>2, <2>1 DEF SpentIds
  <2>3. id \in SpentIds' <=> id[2] <= attempt[r]
    BY <1>1, <1>2, <2>1 DEF SpentIds, BeforeBegin
  <2> QED BY <2>2, <2>3
<1>3. \A id \in TransactionId : id \in SpentIds' <=> id \in SpentIds
  BY <1>2, SpentOfOthers
<1> QED BY <1>3 DEF SpentIds

\* An attempt that begins, or ends before that, uses up its id.
LEMMA SpentGrows ==
  ASSUME Stored, NEW r \in Requests, Deliver(r) \/ Step(r) \/ Fault(r),
         pc[r] \in BeforeBegin,
         \/ attempt' = attempt /\ pc'[r] \notin BeforeBegin
         \/ attempt' = [attempt EXCEPT ![r] = @ + 1] /\ pc'[r] = "find"
  PROVE  TxnId(r) \in TransactionId \ SpentIds /\ SpentIds' = SpentIds \cup {TxnId(r)}
<1>1. attempt \in [Requests -> 0 .. MaxConflictRetries] /\ attempt[r] \in Nat
  BY DEF Stored, Sound, TypeOK
<1>2. TxnId(r) \in TransactionId
  BY Session DEF Stored, Sound
<1>3. TxnId(r) \notin SpentIds
  BY <1>1 DEF SpentIds, TxnId
<1>4. ASSUME NEW id \in TransactionId, id[1] = r
      PROVE  id \in SpentIds' <=> id \in SpentIds \/ id = TxnId(r)
  <2>1. id[2] \in Nat /\ id = <<id[1], id[2]>>
    BY DEF TransactionId
  <2>2. id \in SpentIds <=> id[2] < attempt[r]
    BY <1>1, <1>4, <2>1 DEF SpentIds
  <2>3. id \in SpentIds' <=> id[2] <= attempt[r]
    BY <1>1, <1>4, <2>1 DEF SpentIds, BeforeBegin
  <2>4. id = TxnId(r) <=> id[2] = attempt[r]
    BY <1>4, <2>1 DEF TxnId
  <2> QED BY <1>1, <2>1, <2>2, <2>3, <2>4
<1>5. \A id \in TransactionId : id[1] # r => id # TxnId(r)
  BY DEF TxnId
<1>6. \A id \in TransactionId : id \in SpentIds' <=> id \in SpentIds \/ id = TxnId(r)
  BY <1>4, <1>5, SpentOfOthers
<1> QED BY <1>2, <1>3, <1>6 DEF SpentIds

\* What the schema has no variable for it does not see; it may see an id used up.
LEMMA Invisible ==
  ASSUME UNCHANGED db, Xid' = Xid, Wrote' = Wrote,
         \/ SpentIds' = SpentIds
         \/ \E x \in TransactionId \ SpentIds : SpentIds' = SpentIds \cup {x}
  PROVE  [Storage!Next]_(Storage!vars)
<1>1. CASE SpentIds' = SpentIds
  BY <1>1 DEF Storage!vars, Xid, Wrote
<1>2. ASSUME NEW x \in TransactionId \ SpentIds, SpentIds' = SpentIds \cup {x}
      PROVE  Storage!Next
  <2>1. Storage!TakeXid(x)
    BY <1>2 DEF Storage!TakeXid, Xid, Wrote
  <2> QED BY <2>1 DEF Storage!Next
<1> QED BY <1>1, <1>2

\* A step that writes nothing and neither opens nor ends a transaction is invisible.
LEMMA QuietSession ==
  ASSUME Stored, NEW r \in Requests, Deliver(r) \/ Step(r) \/ Fault(r),
         UNCHANGED <<db, delta, posted, claimedBy, attempt>>,
         pc'[r] \in InTransaction <=> pc[r] \in InTransaction,
         pc'[r] \in BeforeBegin => pc[r] \in BeforeBegin
  PROVE  [Storage!Next]_(Storage!vars)
<1>1. TxnId(r)' = TxnId(r)
  BY DEF TxnId
<1>2. WroteInDatabase(r)' = WroteInDatabase(r)
  BY <1>1, SameWrites
<1>3. Xid'[r] = Xid[r] /\ WroteInDatabase(r)' = Wrote[r]
  BY <1>1, <1>2 DEF Xid, Wrote
<1>4. Xid' = Xid /\ Wrote' = Wrote
  BY <1>3, OtherSessions DEF Xid, Wrote
<1>5. CASE pc[r] \in BeforeBegin /\ pc'[r] \in BeforeBegin
  <2>1. \A id \in TransactionId : id \in SpentIds' <=> id \in SpentIds
    BY <1>5, SpentOfOthers DEF SpentIds
  <2>2. SpentIds' = SpentIds
    BY <2>1 DEF SpentIds
  <2> QED BY <1>4, <2>2, Invisible
<1>6. CASE ~(pc[r] \in BeforeBegin /\ pc'[r] \in BeforeBegin)
  BY <1>4, <1>6, SpentKept, SpentGrows, Invisible
<1> QED BY <1>5, <1>6

\* The end of a transaction that does not commit is a ROLLBACK.
LEMMA RollsBack ==
  ASSUME Stored, NEW r \in Requests, Deliver(r) \/ Step(r) \/ Fault(r),
         pc[r] \in InTransaction, pc'[r] \notin InTransaction,
         EndTransaction(r), UNCHANGED db,
         \/ attempt' = attempt /\ pc'[r] \notin BeforeBegin
         \/ attempt' = [attempt EXCEPT ![r] = @ + 1] /\ pc'[r] = "find"
  PROVE  Storage!Rollback(r)
<1>1. TypeOK
  BY DEF Stored, Sound
<1>2. Xid[r] # None
  BY <1>1, Session
<1>3. Xid' = [Xid EXCEPT ![r] = None] /\ Wrote' = [Wrote EXCEPT ![r] = Storage!NoWrites]
  BY <1>1, OtherSessions, EndedEmpty DEF Xid
<1>4. SpentIds' = SpentIds
  BY SpentKept DEF InTransaction, BeforeBegin
<1> QED BY <1>2, <1>3, <1>4 DEF Storage!Rollback, Storage!End, Xid, Wrote

\* BEGIN: the attempt draws an id never handed out before.
LEMMA SessionBegins ==
  ASSUME Stored, NEW r \in Requests, Begin(r)
  PROVE  Storage!Begin(r)
<1>1. TypeOK /\ Disciplined(r) /\ Unspent(r) /\ pc[r] = "begin" /\ pc'[r] = "claim"
  BY DEF Stored, Sound, TransferDiscipline, Begin, TypeOK
<1>2. Xid[r] = None /\ Xid'[r] = TxnId(r)
  BY <1>1 DEF Xid, InTransaction, Begin, TxnId
<1>5. TxnId(r) \in TransactionId \ SpentIds /\ SpentIds' = SpentIds \cup {TxnId(r)}
  <2>1. attempt' = attempt /\ Step(r)
    BY DEF Begin, Step
  <2> QED BY <1>1, <2>1, SpentGrows DEF BeforeBegin
<1>6. WroteInDatabase(r)' = Wrote[r]
  <2>1. TxnId(r)' = TxnId(r)
    BY DEF Begin, TxnId
  <2> QED BY <2>1, SameWrites DEF Begin, Wrote
<1>7. Xid' = [Xid EXCEPT ![r] = TxnId(r)] /\ Wrote' = Wrote
  BY <1>2, <1>6, OtherSessions DEF Wrote, Step
<1>8. TxnId(r) \in TransactionId /\ UNCHANGED db
  BY <1>1, Session DEF Begin
<1> QED BY <1>2, <1>5, <1>7, <1>8 DEF Storage!Begin, Xid, Wrote

\* INSERT INTO transactions: the key is new, and so is the id; created_xid takes
\* its DEFAULT.
LEMMA SessionClaims ==
  ASSUME Stored, NEW r \in Requests, ClaimKey(r)
  PROVE  Storage!InsertTransaction(r, TxnId(r), Key(r), TxnId(r))
<1> DEFINE row == [id |-> TxnId(r), idempotency_key |-> Key(r), created_xid |-> TxnId(r)]
<1>1. TypeOK /\ Disciplined(r) /\ Unspent(r) /\ pc[r] = "claim" /\ pc'[r] = "lock_first"
  BY DEF Stored, Sound, TransferDiscipline, ClaimKey, TypeOK
<1>2. Key(r) \in Keys /\ claimedBy[Key(r)] = None /\ Recorded(Key(r)) = {}
  BY <1>1, IntentType DEF ClaimKey, Disciplined
<1>3. /\ Storage!Writing(r) /\ Xid[r] = TxnId(r) /\ TxnId(r)' = TxnId(r)
      /\ Xid' = Xid
  <2>1. TxnId(r)' = TxnId(r)
    BY DEF ClaimKey, TxnId
  <2>2. Xid'[r] = Xid[r]
    BY <1>1, <2>1 DEF Xid, InTransaction
  <2> QED BY <1>1, <2>1, <2>2, Session, OtherSessions DEF Xid, InTransaction, Step
<1>4. ASSUME NEW q \in Requests \ {r}, NEW u \in Wrote[q].transactions
      PROVE  u.id # TxnId(r) /\ u.idempotency_key # Key(r)
  <2>1. PICK k \in Keys : claimedBy[k] = q /\ u.id = TxnId(q) /\ u.idempotency_key = k
    BY DEF Wrote, WroteInDatabase
  <2> QED BY <1>1, <1>2, <2>1, Session, NoneAssumption
<1>5. ASSUME NEW u \in {InDatabase(t) : t \in transactions} \cup Wrote[r].transactions
      PROVE  u.id # TxnId(r) /\ u.idempotency_key # Key(r)
  <2>1. \A k \in Keys : claimedBy[k] # r
    BY <1>1 DEF Stored, WaitInv, Holds, Claiming, Authorized
  <2>2. Wrote[r].transactions = {}
    BY <2>1 DEF Wrote, WroteInDatabase
  <2>3. PICK t \in transactions : u = InDatabase(t)
    BY <2>2
  <2> QED BY <1>1, <1>2, <2>3 DEF InDatabase, Unspent, TxnId, Recorded
<1>6. WroteInDatabase(r)' = [Wrote[r] EXCEPT !.transactions = @ \cup {row}]
  <2>1. {k \in Keys : claimedBy'[k] = r} = {k \in Keys : claimedBy[k] = r} \cup {Key(r)}
    BY <1>1, <1>2 DEF ClaimKey, TypeOK
  <2>2. UNCHANGED <<accounts, delta, posted>>
    BY DEF ClaimKey
  <2>3. {[id |-> TxnId(r), idempotency_key |-> k, created_xid |-> TxnId(r)] :
             k \in {k \in Keys : claimedBy'[k] = r}}
        = {[id |-> TxnId(r), idempotency_key |-> k, created_xid |-> TxnId(r)] :
             k \in {k \in Keys : claimedBy[k] = r}} \cup {row}
    BY <2>1
  <2> DEFINE A == WroteInDatabase(r).accounts
             T == WroteInDatabase(r).transactions
             E == WroteInDatabase(r).entries
  <2>4. Wrote[r] = [accounts |-> A, transactions |-> T, entries |-> E]
    BY DEF WroteInDatabase, Wrote
  <2>5. WroteInDatabase(r)' = [accounts |-> A, transactions |-> T \cup {row}, entries |-> E]
    BY <1>3, <2>2, <2>3 DEF WroteInDatabase, EntryInDatabase
  <2> HIDE DEF A, T, E, row
  <2> QED BY <2>4, <2>5
<1>7. Wrote' = [Wrote EXCEPT ![r] = [Wrote[r] EXCEPT !.transactions = @ \cup {row}]]
  BY <1>6, OtherSessions DEF Step
<1>8. UNCHANGED db /\ attempt' = attempt /\ Step(r)
  BY DEF ClaimKey, Step
<1>9. SpentIds' = SpentIds
  BY <1>1, <1>8, SpentKept DEF BeforeBegin
<1> QED
  BY <1>3, <1>4, <1>5, <1>7, <1>8, <1>9
     DEF Storage!InsertTransaction, Storage!Others, Storage!Statement,
         Storage!SeenTransactions, Storage!TransactionCollides, Xid, Wrote

\* What a session sees of an account is the committed row with its own change.
LEMMA SeenRow ==
  ASSUME TypeOK, NEW q \in Requests, Disciplined(q), NEW a \in AccountIds
  PROVE  /\ Storage!SeenAccounts(q)[a] =
                IF accounts[a] = None THEN None
                ELSE [accounts[a] EXCEPT !.balance = @ + delta[q][a]]
         /\ Storage!SeenAccounts(q) = [b \in AccountIds |-> Storage!SeenAccounts(q)[b]]
         /\ delta[q][a] = 0 => Wrote[q].accounts[a] = None
         /\ delta[q][a] = 0 => Storage!SeenAccounts(q)[a] = accounts[a]
<1>1. Wrote[q].accounts[a] = IF delta[q][a] = 0 THEN None
                             ELSE [accounts[a] EXCEPT !.balance = @ + delta[q][a]]
  BY DEF Wrote, WroteInDatabase
<1>2. Storage!SeenAccounts(q)[a] = IF Wrote[q].accounts[a] # None THEN Wrote[q].accounts[a]
                                   ELSE accounts[a]
  BY DEF Storage!SeenAccounts, Wrote
<1>3. Storage!SeenAccounts(q) = [b \in AccountIds |-> Storage!SeenAccounts(q)[b]]
  BY DEF Storage!SeenAccounts
<1>4. delta[q][a] \in Int /\ (accounts[a] # None => accounts[a] \in AccountRow)
  BY DEF TypeOK
<1>5. CASE delta[q][a] = 0
  <2>1. accounts[a] # None => accounts[a] = [accounts[a] EXCEPT !.balance = @ + 0]
    BY <1>4 DEF AccountRow
  <2> QED BY <1>1, <1>2, <1>3, <1>5, <2>1
<1>6. CASE delta[q][a] # 0
  <2>1. accounts[a] # None
    BY <1>6, DeltaLocked
  <2>2. [accounts[a] EXCEPT !.balance = @ + delta[q][a]] \in AccountRow
    BY <1>4, <2>1 DEF AccountRow
  <2>3. [accounts[a] EXCEPT !.balance = @ + delta[q][a]] # None
    BY <2>2, NoneAssumption
  <2> QED BY <1>1, <1>2, <1>3, <1>6, <2>1, <2>3
<1> QED BY <1>5, <1>6

\* UPDATE accounts: of a row r has locked, to a balance the constraints allow.
LEMMA SessionAdjusts ==
  ASSUME Stored, NEW r \in Requests, Step(r), pc[r] \in Authorized, pc'[r] \in InTransaction,
         NEW a \in AccountIds, HoldsRow(r, a), delta[r][a] = 0,
         NEW d \in Int, d # 0, Representable(accounts[a].balance + d),
         accounts[a].allows_negative_balance \/ accounts[a].balance + d >= 0,
         delta' = [delta EXCEPT ![r][a] = @ + d],
         UNCHANGED <<db, claimedBy, posted, attempt>>
  PROVE  \E new \in Storage!CandidateAccounts : Storage!UpdateAccount(r, a, new)
<1> DEFINE new == [accounts[a] EXCEPT !.balance = @ + d]
<1>1. TypeOK /\ Disciplined(r) /\ pc[r] \in InTransaction
  BY DEF Stored, Sound, TransferDiscipline, InTransaction, Authorized
<1>2. accounts[a] \in AccountRow /\ accounts[a] # None
  BY <1>1 DEF TypeOK, HoldsRow
<1>3. /\ new.balance = accounts[a].balance + d /\ new.currency = accounts[a].currency
      /\ new.allows_negative_balance = accounts[a].allows_negative_balance
      /\ new \in AccountRow
  BY <1>2 DEF AccountRow
<1>4. new \in Storage!CandidateAccounts
  <2>1. new.balance \in (-MaxMagnitude) .. MaxMagnitude
    BY <1>2, <1>3, MagnitudeAssumption DEF Representable, AccountRow
  <2> QED BY <1>3, <2>1 DEF Storage!CandidateAccounts, AccountRow
<1>5. Storage!SeenAccounts(r)[a] = accounts[a]
  BY <1>1, SeenRow
<1>6. \A q \in Requests \ {r} : Wrote[q].accounts[a] = None
  <2> SUFFICES ASSUME NEW q \in Requests \ {r} PROVE Wrote[q].accounts[a] = None
    OBVIOUS
  <2>1. Disciplined(q)
    BY DEF Stored, Sound, TransferDiscipline
  <2>2. delta[q][a] = 0
    BY <1>1, <2>1, DeltaLocked DEF HoldsRow
  <2> QED BY <1>1, <2>1, <2>2, SeenRow
<1>7. WroteInDatabase(r)' = [Wrote[r] EXCEPT !.accounts[a] = new]
  <2> DEFINE A == WroteInDatabase(r).accounts
             T == WroteInDatabase(r).transactions
             E == WroteInDatabase(r).entries
             B == [b \in AccountIds |->
                      IF delta'[r][b] = 0 THEN None
                      ELSE [accounts[b] EXCEPT !.balance = @ + delta'[r][b]]]
  <2>1. TxnId(r)' = TxnId(r)
    BY DEF TxnId
  <2>2. delta'[r][a] = d /\ \A b \in AccountIds \ {a} : delta'[r][b] = delta[r][b]
    BY <1>1 DEF TypeOK
  <2>3. A = [b \in AccountIds |-> IF delta[r][b] = 0 THEN None
                                  ELSE [accounts[b] EXCEPT !.balance = @ + delta[r][b]]]
    BY DEF WroteInDatabase
  <2>4. B = [A EXCEPT ![a] = new]
    BY <2>2, <2>3
  <2>5. Wrote[r] = [accounts |-> A, transactions |-> T, entries |-> E]
    BY DEF WroteInDatabase, Wrote
  <2>6. WroteInDatabase(r)' = [accounts |-> B, transactions |-> T, entries |-> E]
    BY <2>1 DEF WroteInDatabase, EntryInDatabase
  <2> HIDE DEF A, T, E, B, new
  <2> QED BY <2>4, <2>5, <2>6
<1>8. Wrote' = [Wrote EXCEPT ![r] = [Wrote[r] EXCEPT !.accounts[a] = new]]
  BY <1>7, OtherSessions
<1>9. Xid' = Xid
  <2>1. Xid'[r] = Xid[r]
    BY <1>1 DEF Xid, TxnId
  <2> QED BY <2>1, OtherSessions DEF Xid
<1>10. Storage!TermsFixed(Storage!SeenAccounts(r)[a], new) /\ Storage!AccountAllowed(new)
  BY <1>3, <1>5, SchemaVocabulary DEF Storage!TermsFixed, Storage!AccountAllowed,
     BalanceNonNegative
<1>11. Storage!Writing(r)
  BY <1>1, Session
<1>s. SpentIds' = SpentIds
  BY <1>1, SpentKept DEF InTransaction, BeforeBegin
<1>12. Storage!UpdateAccount(r, a, new)
  <2> HIDE DEF new
  <2> QED
    BY <1>2, <1>5, <1>6, <1>8, <1>9, <1>10, <1>11, <1>s
       DEF Storage!UpdateAccount, Storage!Unlocked, Storage!Others, Storage!Statement,
           Storage!WriteAccount, Xid, Wrote
<1> QED BY <1>4, <1>12

\* What r has posted carries the id of its own transaction.
LEMMA PostedOwn ==
  ASSUME NEW q \in Requests, Disciplined(q)
  PROVE  /\ \A e \in posted[q] : e.transaction_id = TxnId(q)
         /\ pc[q] = "post_credit" => posted[q] = {}
         /\ pc[q] = "post_debit" => \A e \in posted[q] : e.direction = "credit"
  BY PostingsId DEF Disciplined, WritesExpected, ExpectedPosted

\* Nothing of a request whose key is only claimed is committed.
LEMMA NothingOfItsOwn ==
  ASSUME Stored, NEW r \in Requests, pc[r] \in Claiming
  PROVE  /\ \A t \in transactions : t.id[1] # r
         /\ \A e \in entries : e.transaction_id # TxnId(r)
<1>1. Recorded(Key(r)) = {}
  BY DEF Stored, Sound, TransferDiscipline, Disciplined, KeyClaimed
<1>2. \A t \in transactions : t.id[1] # r
  BY <1>1, NothingMoved DEF Stored, Sound
<1> QED BY <1>2 DEF Stored, Sound, HistorySound, TxnId

\* The row a claimed key will commit, alone, as its session has it.
LEMMA OwnParent ==
  ASSUME Stored, NEW r \in Requests, pc[r] \in Claiming
  PROVE  /\ Wrote[r].transactions = {[id |-> TxnId(r), idempotency_key |-> Key(r),
                                      created_xid |-> TxnId(r)]}
         /\ Key(r) \in Keys
<1>1. Key(r) \in Keys /\ claimedBy[Key(r)] = r
  BY IntentType DEF Stored, Sound, TransferDiscipline, Disciplined, KeyClaimed, Claiming,
     Authorized
<1>2. \A k \in Keys : claimedBy[k] = r => k = Key(r)
  BY DEF Stored, WaitInv, Holds
<1>3. {k \in Keys : claimedBy[k] = r} = {Key(r)}
  BY <1>1, <1>2
<1> QED BY <1>1, <1>3 DEF Wrote, WroteInDatabase

\* INSERT INTO entries: a new id, under the parent of the same transaction, on an
\* account in the entry's currency.
LEMMA SessionPosts ==
  ASSUME Stored, NEW r \in Requests, Step(r), pc[r] \in {"post_credit", "post_debit"},
         pc'[r] \in InTransaction, NEW a \in AccountIds, NEW s \in Direction,
         pc[r] = "post_debit" => s = "debit",
         NEW e, e = [transaction_id |-> TxnId(r), account_id |-> a, direction |-> s,
                     amount |-> Intent(r).amount, currency |-> Intent(r).currency],
         EntryAllowed(e, accounts), posted' = [posted EXCEPT ![r] = @ \cup {e}],
         UNCHANGED <<db, claimedBy, delta, attempt>>
  PROVE  \E x \in Storage!CandidateEntries : Storage!InsertEntry(r, x)
<1> DEFINE x == EntryInDatabase(e)
<1>1. /\ TypeOK /\ Disciplined(r) /\ pc[r] \in InTransaction /\ pc[r] \in Claiming
      /\ pc[r] # "idle" /\ RequestSound(r)
  BY DEF Stored, Sound, TransferDiscipline, Disciplined, InTransaction, Claiming, Authorized
<1>2. /\ x.id = <<TxnId(r), s>> /\ x.transaction_id = TxnId(r) /\ x.account_id = a
      /\ x.direction = s /\ x.amount = Intent(r).amount /\ x.currency = Intent(r).currency
  BY DEF EntryInDatabase
<1>3. x \in Storage!CandidateEntries
  <2>1. /\ TxnId(r) \in TransactionId /\ Intent(r).currency \in Currencies
        /\ Intent(r).amount \in {in.intent.amount : in \in Inputs}
    BY <1>1, IntentType DEF Intent
  <2> QED BY <2>1 DEF Storage!CandidateEntries, Storage!Direction, Direction, EntryInDatabase
<1>4. \A q \in Requests \ {r} : \A f \in Wrote[q].entries : f.id # x.id
  <2> SUFFICES ASSUME NEW q \in Requests \ {r}, NEW f \in Wrote[q].entries
               PROVE  f.id # x.id
    OBVIOUS
  <2>1. PICK g \in posted[q] : f = EntryInDatabase(g)
    BY DEF Wrote, WroteInDatabase
  <2>2. Disciplined(q)
    BY DEF Stored, Sound, TransferDiscipline
  <2>3. f.id = <<TxnId(q), g.direction>>
    BY <2>1, <2>2, PostedOwn DEF EntryInDatabase
  <2>4. TxnId(q) # TxnId(r)
    BY <1>1, Session
  <2> QED BY <1>2, <2>3, <2>4
<1>5. \A f \in {EntryInDatabase(g) : g \in entries} \cup Wrote[r].entries : f.id # x.id
  <2>1. \A g \in entries : EntryInDatabase(g).id # x.id
    BY <1>1, <1>2, NothingOfItsOwn DEF EntryInDatabase
  <2>2. \A g \in posted[r] : g.direction # s
    BY <1>1, PostedOwn
  <2>3. \A g \in posted[r] : EntryInDatabase(g).id # x.id
    BY <1>2, <2>2 DEF EntryInDatabase
  <2>4. Wrote[r].entries = {EntryInDatabase(g) : g \in posted[r]}
    BY DEF Wrote, WroteInDatabase
  <2> HIDE DEF x
  <2> QED BY <2>1, <2>3, <2>4
<1>6. Storage!EntryInParentXact(r, x)
  <2> DEFINE t == [id |-> TxnId(r), idempotency_key |-> Key(r), created_xid |-> TxnId(r)]
  <2>1. t \in Wrote[r].transactions /\ Xid[r] = TxnId(r)
    BY <1>1, OwnParent, Session
  <2>2. t \in Storage!SeenTransactions(r)
    BY <2>1 DEF Storage!SeenTransactions, Wrote
  <2>3. t.id = x.transaction_id /\ t.created_xid = Xid[r]
    BY <1>2, <2>1
  <2> HIDE DEF t, x
  <2> QED BY <2>2, <2>3 DEF Storage!EntryInParentXact, Xid
<1>7. Storage!EntryRowAllowed(r, x)
  <2>1. /\ e.amount > 0 /\ Representable(e.amount)
        /\ accounts[a] # None /\ accounts[a].currency = Intent(r).currency
    BY DEF EntryAllowed
  <2>2. accounts[a] \in AccountRow /\ delta[r][a] \in Int
    BY <1>1, <2>1 DEF TypeOK
  <2>3. Storage!SeenAccounts(r)[a] = [accounts[a] EXCEPT !.balance = @ + delta[r][a]]
    BY <1>1, <2>1, SeenRow
  <2>4. /\ Storage!SeenAccounts(r)[a] \in AccountRow
        /\ Storage!SeenAccounts(r)[a].currency = Intent(r).currency
    BY <2>1, <2>2, <2>3 DEF AccountRow
  <2>5. Storage!SeenAccounts(r)[a] # None
    BY <2>4, NoneAssumption
  <2>6. EntryAllowed(x, Storage!SeenAccounts(r))
    BY <1>2, <2>1, <2>4, <2>5 DEF EntryAllowed
  <2> QED BY <2>6, SchemaVocabulary DEF Storage!EntryRowAllowed
<1>8. WroteInDatabase(r)' = [Wrote[r] EXCEPT !.entries = @ \cup {x}]
  <2> DEFINE A == WroteInDatabase(r).accounts
             T == WroteInDatabase(r).transactions
             E == WroteInDatabase(r).entries
  <2>1. TxnId(r)' = TxnId(r)
    BY DEF TxnId
  <2>2. {EntryInDatabase(g) : g \in posted'[r]} = {EntryInDatabase(g) : g \in posted[r]} \cup {x}
    <3>1. posted'[r] = posted[r] \cup {e}
      BY <1>1 DEF TypeOK
    <3> QED BY <3>1
  <2>3. Wrote[r] = [accounts |-> A, transactions |-> T, entries |-> E]
    BY DEF WroteInDatabase, Wrote
  <2>4. E = {EntryInDatabase(g) : g \in posted[r]}
    BY DEF WroteInDatabase
  <2>5. WroteInDatabase(r)' = [accounts |-> A, transactions |-> T,
                               entries |-> {EntryInDatabase(g) : g \in posted'[r]}]
    BY <2>1 DEF WroteInDatabase, EntryInDatabase
  <2> HIDE DEF A, T, E, x
  <2>6. {EntryInDatabase(g) : g \in posted'[r]} = E \cup {x}
    BY <2>2, <2>4
  <2>7. WroteInDatabase(r)' = [accounts |-> A, transactions |-> T, entries |-> E \cup {x}]
    BY <2>5, <2>6
  <2> QED BY <2>3, <2>7
<1>9. Wrote' = [Wrote EXCEPT ![r] = [Wrote[r] EXCEPT !.entries = @ \cup {x}]]
  BY <1>8, OtherSessions
<1>10. Xid' = Xid
  <2>1. Xid'[r] = Xid[r]
    BY <1>1 DEF Xid, TxnId
  <2> QED BY <2>1, OtherSessions DEF Xid
<1>11. Storage!Writing(r)
  BY <1>1, Session
<1>s. SpentIds' = SpentIds
  BY <1>1, SpentKept DEF InTransaction, BeforeBegin
<1>12. Storage!InsertEntry(r, x)
  <2> HIDE DEF x
  <2> QED
    BY <1>4, <1>5, <1>6, <1>7, <1>9, <1>10, <1>11, <1>s
       DEF Storage!InsertEntry, Storage!Others, Storage!Statement, Storage!SeenEntries, Xid, Wrote
<1> QED BY <1>3, <1>12

\* What r posts is a balanced pair of rows.
LEMMA PostedBalanced ==
  ASSUME NEW id, NEW i, i.amount \in Int
  PROVE  TransactionBalanced({EntryInDatabase(e) : e \in Postings(id, i)})
<1> DEFINE c == EntryInDatabase(CreditLeg(id, i))
           d == EntryInDatabase(DebitLeg(id, i))
<1>1. {EntryInDatabase(e) : e \in Postings(id, i)} = {c, d}
  BY Legs
<1>2. c.direction = "credit" /\ d.direction = "debit" /\ c.currency = d.currency
  BY DEF EntryInDatabase, CreditLeg, DebitLeg
<1>3. c # d
  BY <1>2
<1>4. Signed(c) = -i.amount /\ Signed(d) = i.amount
  BY DEF EntryInDatabase, CreditLeg, DebitLeg, Signed
<1>5. Signed(c) \in Int /\ Signed(d) = -Signed(c)
  BY <1>4
<1> HIDE DEF c, d
<1>6. TransactionBalanced({c, d})
  BY <1>2, <1>3, <1>5, PairBalanced
<1> QED BY <1>1, <1>6

\* COMMIT: the deferred trigger is satisfied, and all rows appear at once.
LEMMA SessionCommits ==
  ASSUME Stored, NEW r \in Requests, Step(r), pc[r] = "commit", pc'[r] \notin InTransaction,
         Apply(r), EndTransaction(r), attempt' = attempt, pc'[r] \notin BeforeBegin
  PROVE  Storage!Commit(r)
<1>1. /\ TypeOK /\ Disciplined(r) /\ pc[r] \in InTransaction /\ pc[r] \in Claiming
      /\ Intent(r).amount \in Int
  BY IntentType DEF Stored, Sound, TransferDiscipline, Disciplined, InTransaction, Claiming,
     Authorized
<1> DEFINE P == {EntryInDatabase(e) : e \in posted[r]}
           C == {EntryInDatabase(e) : e \in entries}
<1>2. posted[r] = Postings(TxnId(r), Intent(r)) /\ Wrote[r].entries = P
  BY <1>1 DEF Disciplined, WritesExpected, ExpectedPosted, Wrote, WroteInDatabase
<1>3. /\ \A x \in P : x.transaction_id = TxnId(r)
      /\ \A x \in C : x.transaction_id # TxnId(r)
  BY <1>1, PostedOwn, NothingOfItsOwn DEF EntryInDatabase
<1>4. TransactionBalanced(P)
  BY <1>1, <1>2, PostedBalanced
<1>5. Storage!SeenEntries(r) = C \cup P
  BY <1>2 DEF Storage!SeenEntries, Wrote
<1>6. Storage!BalancedAtCommit(r)
  <2> HIDE DEF P, C
  <2>1. EntriesOf(TxnId(r), C \cup P) = P
    BY <1>3 DEF EntriesOf
  <2>2. \A x \in P : TransactionBalanced(EntriesOf(x.transaction_id, C \cup P))
    BY <1>3, <1>4, <2>1
  <2> QED BY <1>2, <1>5, <2>2, SchemaVocabulary DEF Storage!BalancedAtCommit, Wrote
<1>7. accounts' = Storage!SeenAccounts(r)
  <2>1. \A a \in AccountIds : accounts'[a] = Storage!SeenAccounts(r)[a]
    BY <1>1, SeenRow DEF Apply
  <2>2. Storage!SeenAccounts(r) = [b \in AccountIds |-> Storage!SeenAccounts(r)[b]]
    BY DEF Storage!SeenAccounts
  <2>3. accounts' = [b \in AccountIds |-> accounts'[b]]
    BY DEF Apply
  <2> QED BY <2>1, <2>2, <2>3
<1>8. {InDatabase(t) : t \in transactions'} = Storage!SeenTransactions(r)
  <2> DEFINE t == [id |-> TxnId(r), idempotency_key |-> Key(r),
                   request_hash |-> RequestHash(Intent(r))]
  <2>1. InDatabase(t) = [id |-> TxnId(r), idempotency_key |-> Key(r), created_xid |-> TxnId(r)]
    BY DEF InDatabase
  <2>2. transactions' = transactions \cup {t}
    BY DEF Apply
  <2>3. Wrote[r].transactions = {InDatabase(t)}
    BY <1>1, <2>1, OwnParent
  <2> HIDE DEF t
  <2> QED BY <2>2, <2>3 DEF Storage!SeenTransactions, Wrote
<1>9. {EntryInDatabase(e) : e \in entries'} = Storage!SeenEntries(r)
  <2>1. entries' = entries \cup posted[r]
    BY DEF Apply
  <2> QED BY <1>5, <2>1
<1>10. Xid' = [Xid EXCEPT ![r] = None] /\ Wrote' = [Wrote EXCEPT ![r] = Storage!NoWrites]
  BY <1>1, OtherSessions, EndedEmpty DEF Xid
<1>11. Storage!Writing(r)
  BY <1>1, Session
<1>s. SpentIds' = SpentIds
  BY <1>1, SpentKept DEF BeforeBegin
<1>12. Storage!End(r)
  BY <1>10, <1>s DEF Storage!End, Xid, Wrote
<1> QED
  BY <1>6, <1>7, <1>8, <1>9, <1>11, <1>12 DEF Storage!Commit, InDatabase, EntryInDatabase

\* A request that starts over after its COMMIT finds its own row, and inserts none.
LEMMA UnspentStep ==
  ASSUME Sound, NEW q \in Requests, Unspent(q), [Next]_vars
  PROVE  Unspent(q)'
<1> USE DEF Sound
<1>1. ASSUME NEW r \in Requests \ {q}, Deliver(r) \/ Step(r) \/ Fault(r)
      PROVE  Unspent(q)'
  <2>1. pc'[q] = pc[q]
    BY <1>1, Bystander
  <2>2. \A t \in transactions' \ transactions : t.id[1] # q
    <3>1. CASE Commit(r) \/ LateCommit(r)
      BY <3>1 DEF Commit, LateCommit, Apply, TxnId, FailStatement
    <3>2. CASE ~(Commit(r) \/ LateCommit(r))
      BY <1>1, <3>2 DEF Step, Fault, Deliver, FindRecord, FindNothing, Begin, ClaimKey,
         ClaimCollides, FindWinner, LockFirst, LockSecond, FetchForUpdate, Check, AdjustFrom,
         AdjustTo, AdjustBalance, PostCredit, PostDebit, InsertEntry, GetTransaction,
         GetEntries, Rollback, ConflictAbort, LockTimeout, Abandon, FailStatement, RejectOpen
    <3> QED BY <3>1, <3>2
  <2> QED BY <2>1, <2>2 DEF Unspent
<1>2. CASE FindNothing(q)
  <2>1. \A t \in transactions : t.id[1] # q
    BY <1>2, NothingMoved DEF FindNothing
  <2> QED BY <1>2, <2>1 DEF FindNothing, Unspent
<1>3. CASE Begin(q) \/ Abandon(q)
  <2>1. pc \in [Requests -> Stages]
    BY DEF TypeOK
  <2> QED BY <1>3, <2>1 DEF Begin, Abandon, Unspent
<1>4. CASE Deliver(q) \/ (Step(q) /\ ~FindNothing(q) /\ ~Begin(q)) \/ ConflictAbort(q) \/ LockTimeout(q)
  <2>1. pc'[q] \notin {"begin", "claim"}
    <3>1. pc \in [Requests -> Stages]
      BY DEF TypeOK
    <3> QED
      BY <1>4, <3>1 DEF Step, Deliver, FindRecord, ClaimKey, ClaimCollides, FindWinner, Replay,
         LockFirst, LockSecond, FetchForUpdate, Check, AdjustFrom, AdjustTo, AdjustBalance,
         PostCredit, PostDebit, InsertEntry, Commit, GetTransaction, GetEntries, Rollback,
         LateCommit, ConflictAbort, LockTimeout, FailStatement, RejectOpen
  <2> QED BY <2>1 DEF Unspent
<1>5. CASE UNCHANGED <<pc, transactions>>
  BY <1>5 DEF Unspent
<1> QED
  BY <1>1, <1>2, <1>3, <1>4, <1>5 DEF Next, Fault, AllServed, CreateAccount, vars

\* The two UPDATEs of a transfer, refused or not.
LEMMA AdjustObeys ==
  ASSUME Stored, NEW r \in Requests, AdjustFrom(r) \/ AdjustTo(r)
  PROVE  \/ \E a \in AccountIds, new \in Storage!CandidateAccounts : Storage!UpdateAccount(r, a, new)
         \/ Storage!Rollback(r)
<1> DEFINE i == Intent(r)
<1>1. /\ TypeOK /\ Disciplined(r) /\ NoOverdraft /\ Step(r)
      /\ pc[r] \in Authorized /\ pc[r] \in InTransaction /\ pc[r] # "idle"
  BY DEF Stored, Sound, TransferDiscipline, AdjustFrom, AdjustTo, Step, Authorized, InTransaction
<1>2. /\ i.from_account_id \in AccountIds /\ i.to_account_id \in AccountIds
      /\ i.from_account_id # i.to_account_id /\ i.amount \in Int /\ i.amount > 0
  BY <1>1, IntentType DEF Disciplined, RequestSound
<1>3. HoldsRow(r, i.from_account_id) /\ HoldsRow(r, i.to_account_id)
  BY <1>1 DEF Disciplined, RowsLocked
<1>4. ASSUME NEW o, FailStatement(r, o) PROVE Storage!Rollback(r)
  <2>1. pc'[r] = "done"
    BY <1>1, <1>4 DEF FailStatement, TypeOK
  <2> QED BY <1>1, <1>4, <2>1, RollsBack DEF FailStatement, InTransaction, BeforeBegin
<1>5. ASSUME NEW a \in AccountIds, HoldsRow(r, a), delta[r][a] = 0,
             NEW d \in Int, d # 0, NEW s \in {"adjust_to", "post_credit"}, AdjustBalance(r, a, d, s),
             accounts[a].allows_negative_balance \/ accounts[a].balance + d >= 0
      PROVE  \/ \E new \in Storage!CandidateAccounts : Storage!UpdateAccount(r, a, new)
             \/ Storage!Rollback(r)
  <2>1. CASE \E o : FailStatement(r, o)
    BY <1>4, <2>1
  <2>2. CASE ~\E o : FailStatement(r, o)
    <3>1. accounts[a] \in AccountRow
      BY <1>1, <1>5 DEF HoldsRow, TypeOK
    <3>2. [accounts[a] EXCEPT !.balance = @ + delta[r][a] + d].balance
              = accounts[a].balance + delta[r][a] + d
      BY <3>1 DEF AccountRow
    <3>3. accounts[a].balance + delta[r][a] + d = accounts[a].balance + d
      BY <1>5, <3>1 DEF AccountRow
    <3>4. Representable(accounts[a].balance + d)
      BY <1>5, <2>2, <3>2, <3>3 DEF AdjustBalance
    <3>5. /\ delta' = [delta EXCEPT ![r][a] = @ + d]
          /\ UNCHANGED <<db, claimedBy, posted, attempt>>
          /\ pc' = [pc EXCEPT ![r] = s]
      BY <1>5, <2>2 DEF AdjustBalance
    <3>6. pc'[r] \in InTransaction
      BY <1>1, <3>5 DEF TypeOK, InTransaction
    <3>7. \E new \in Storage!CandidateAccounts : Storage!UpdateAccount(r, a, new)
      BY <1>1, <1>5, <3>4, <3>5, <3>6, SessionAdjusts
    <3> QED BY <3>7
  <2> QED BY <2>1, <2>2
<1>6. CASE AdjustFrom(r)
  <2> DEFINE a == i.from_account_id
  <2>1. delta[r][a] = 0
    BY <1>1, <1>2, <1>6 DEF AdjustFrom, Disciplined, WritesExpected, ExpectedDelta, AfterDebit,
       AfterCredit, Authorized
  <2>2. accounts[a].balance \in Int
    BY <1>1, <1>2, <1>3 DEF HoldsRow, TypeOK, AccountRow
  <2>3. accounts[a].allows_negative_balance \/ accounts[a].balance >= i.amount
    BY <1>1 DEF Disciplined, StillAuthorized
  <2>4. /\ accounts[a].allows_negative_balance \/ accounts[a].balance + (-i.amount) >= 0
        /\ -i.amount \in Int /\ -i.amount # 0
    BY <1>2, <2>2, <2>3
  <2>5. AdjustBalance(r, a, -i.amount, "adjust_to")
    BY <1>6 DEF AdjustFrom
  <2> QED BY <1>2, <1>3, <1>5, <2>1, <2>4, <2>5
<1>7. CASE AdjustTo(r)
  <2> DEFINE a == i.to_account_id
  <2>1. delta[r][a] = 0
    BY <1>1, <1>2, <1>7 DEF AdjustTo, Disciplined, WritesExpected, ExpectedDelta, AfterDebit,
       AfterCredit, Authorized
  <2>2. accounts[a].balance \in Int
    BY <1>1, <1>2, <1>3 DEF HoldsRow, TypeOK, AccountRow
  <2>3. accounts[a].allows_negative_balance \/ accounts[a].balance >= 0
    BY <1>1, <1>2, <1>3 DEF NoOverdraft, NoNegativeBalance, BalanceNonNegative, HoldsRow
  <2>4. accounts[a].allows_negative_balance \/ accounts[a].balance + i.amount >= 0
    BY <1>2, <2>2, <2>3
  <2>5. AdjustBalance(r, a, i.amount, "post_credit") /\ i.amount # 0
    BY <1>2, <1>7 DEF AdjustTo
  <2> QED BY <1>2, <1>3, <1>5, <2>1, <2>4, <2>5
<1> QED BY <1>6, <1>7

\* The two INSERTs of entries, refused or not.
LEMMA PostObeys ==
  ASSUME Stored, NEW r \in Requests, PostCredit(r) \/ PostDebit(r)
  PROVE  \/ \E x \in Storage!CandidateEntries : Storage!InsertEntry(r, x)
         \/ Storage!Rollback(r)
<1> DEFINE i == Intent(r)
<1>1. /\ TypeOK /\ Disciplined(r) /\ Step(r) /\ pc[r] \in InTransaction /\ pc[r] # "idle"
      /\ pc[r] \in {"post_credit", "post_debit"}
  BY DEF Stored, Sound, TransferDiscipline, PostCredit, PostDebit, Step, InTransaction
<1>2. i.from_account_id \in AccountIds /\ i.to_account_id \in AccountIds
  BY <1>1, IntentType DEF Disciplined
<1>3. ASSUME NEW o, FailStatement(r, o) PROVE Storage!Rollback(r)
  <2>1. pc'[r] = "done"
    BY <1>1, <1>3 DEF FailStatement, TypeOK
  <2> QED BY <1>1, <1>3, <2>1, RollsBack DEF FailStatement, InTransaction, BeforeBegin
<1>4. ASSUME NEW a \in AccountIds, NEW s \in Direction, pc[r] = "post_debit" => s = "debit",
             NEW next \in {"post_debit", "commit"}, InsertEntry(r, a, s, next)
      PROVE  \/ \E x \in Storage!CandidateEntries : Storage!InsertEntry(r, x)
             \/ Storage!Rollback(r)
  <2> DEFINE e == [transaction_id |-> TxnId(r), account_id |-> a, direction |-> s,
                   amount |-> i.amount, currency |-> i.currency]
  <2>1. CASE EntryAllowed(e, accounts)
    <3>1. /\ posted' = [posted EXCEPT ![r] = @ \cup {e}]
          /\ pc' = [pc EXCEPT ![r] = next]
          /\ UNCHANGED <<db, claimedBy, delta, attempt>>
      BY <1>4, <2>1 DEF InsertEntry
    <3>2. pc'[r] \in InTransaction
      BY <1>1, <3>1 DEF TypeOK, InTransaction
    <3>3. e = [transaction_id |-> TxnId(r), account_id |-> a, direction |-> s,
               amount |-> Intent(r).amount, currency |-> Intent(r).currency]
      OBVIOUS
    <3> HIDE DEF e
    <3>4. \E x \in Storage!CandidateEntries : Storage!InsertEntry(r, x)
      BY <1>1, <1>4, <2>1, <3>1, <3>2, <3>3, SessionPosts
    <3> QED BY <3>4
  <2>2. CASE ~EntryAllowed(e, accounts)
    BY <1>3, <1>4, <2>2 DEF InsertEntry
  <2> QED BY <2>1, <2>2
<1>5. CASE PostCredit(r)
  <2>1. pc[r] = "post_credit" /\ InsertEntry(r, i.from_account_id, "credit", "post_debit")
    BY <1>5 DEF PostCredit
  <2> QED BY <1>2, <1>4, <2>1 DEF Direction
<1>6. CASE PostDebit(r)
  <2>1. InsertEntry(r, i.to_account_id, "debit", "commit")
    BY <1>6 DEF PostDebit
  <2> QED BY <1>2, <1>4, <2>1 DEF Direction
<1> QED BY <1>5, <1>6

\* Every step of a request is a statement the schema accepts, or invisible to it.
LEMMA RequestObeys ==
  ASSUME Stored, NEW r \in Requests, Deliver(r) \/ Step(r) \/ Fault(r)
  PROVE  [Storage!Next]_(Storage!vars)
<1>0. TypeOK /\ Disciplined(r) /\ pc \in [Requests -> Stages] /\ Holds(r)
  BY DEF Stored, Sound, TransferDiscipline, TypeOK, WaitInv
<1>e. ASSUME \/ Storage!Begin(r) \/ Storage!Commit(r) \/ Storage!Rollback(r)
             \/ \E id \in TransactionId, k \in Keys : Storage!InsertTransaction(r, id, k, id)
             \/ \E a \in AccountIds, new \in Storage!CandidateAccounts : Storage!UpdateAccount(r, a, new)
             \/ \E x \in Storage!CandidateEntries : Storage!InsertEntry(r, x)
      PROVE  Storage!Next
  BY <1>e DEF Storage!Next
<1>f. ASSUME NEW o, FailStatement(r, o), pc[r] \in InTransaction PROVE Storage!Next
  <2>1. pc'[r] = "done"
    BY <1>0, <1>f DEF FailStatement
  <2>2. Storage!Rollback(r)
    BY <1>f, <2>1, RollsBack DEF FailStatement, InTransaction, BeforeBegin
  <2> QED BY <1>e, <2>2
<1>1. CASE Deliver(r) \/ FindRecord(r) \/ FindNothing(r) \/ FindWinner(r) \/ GetTransaction(r)
           \/ GetEntries(r)
  <2>1. /\ pc[r] \notin InTransaction /\ pc'[r] \notin InTransaction
        /\ pc'[r] \in BeforeBegin => pc[r] \in BeforeBegin
    BY <1>0, <1>1 DEF Deliver, FindRecord, FindNothing, FindWinner, GetTransaction, GetEntries,
       Replay, InTransaction, BeforeBegin
  <2>2. UNCHANGED <<db, delta, posted, claimedBy, attempt>>
    BY <1>1 DEF Deliver, FindRecord, FindNothing, FindWinner, GetTransaction, GetEntries
  <2> QED BY <2>1, <2>2, QuietSession
<1>2. CASE LockFirst(r) \/ LockSecond(r) \/ Check(r)
  <2>1. /\ pc[r] \in InTransaction /\ pc'[r] \in InTransaction
        /\ pc'[r] \notin BeforeBegin
    BY <1>0, <1>2 DEF LockFirst, LockSecond, FetchForUpdate, Check, RejectOpen, InTransaction,
       BeforeBegin
  <2>2. UNCHANGED <<db, delta, posted, claimedBy, attempt>>
    BY <1>2 DEF LockFirst, LockSecond, FetchForUpdate, Check, RejectOpen
  <2> QED BY <2>1, <2>2, QuietSession
<1>3. CASE Abandon(r)
  <2>1. /\ pc'[r] \in InTransaction <=> pc[r] \in InTransaction
        /\ pc'[r] \notin BeforeBegin
    BY <1>0, <1>3 DEF Abandon, InTransaction, BeforeBegin
  <2>2. UNCHANGED <<db, delta, posted, claimedBy, attempt>>
    BY <1>3 DEF Abandon
  <2> QED BY <2>1, <2>2, QuietSession
<1>4. CASE Begin(r)
  BY <1>4, <1>e, SessionBegins
<1>5. CASE ClaimKey(r)
  <2>1. TxnId(r) \in TransactionId /\ Key(r) \in Keys
    BY <1>0, <1>5, Session, IntentType DEF ClaimKey, Disciplined
  <2> QED BY <1>5, <1>e, <2>1, SessionClaims
<1>6. CASE AdjustFrom(r) \/ AdjustTo(r)
  BY <1>6, <1>e, AdjustObeys
<1>7. CASE PostCredit(r) \/ PostDebit(r)
  BY <1>7, <1>e, PostObeys
<1>8. CASE ClaimCollides(r) \/ Rollback(r)
  <2>1. /\ pc[r] \in InTransaction /\ pc'[r] \notin InTransaction
        /\ EndTransaction(r) /\ UNCHANGED db
        /\ attempt' = attempt /\ pc'[r] \notin BeforeBegin
    BY <1>0, <1>8 DEF ClaimCollides, Rollback, InTransaction, BeforeBegin
  <2> QED BY <1>e, <2>1, RollsBack
<1>9. CASE Commit(r) \/ LateCommit(r)
  <2>1. pc[r] = "commit" /\ Step(r)
    BY <1>9 DEF Commit, LateCommit, Step
  <2>2. CASE \E o : FailStatement(r, o)
    BY <1>f, <2>1, <2>2 DEF InTransaction
  <2>3. CASE ~\E o : FailStatement(r, o)
    <3>1. /\ Apply(r) /\ EndTransaction(r) /\ pc'[r] \notin InTransaction
          /\ attempt' = attempt /\ pc'[r] \notin BeforeBegin
      BY <1>0, <1>9, <2>3 DEF Commit, LateCommit, InTransaction, BeforeBegin
    <3> QED BY <1>e, <2>1, <3>1, SessionCommits
  <2> QED BY <2>2, <2>3
<1>10. CASE LockTimeout(r)
  <2>1. pc[r] \in InTransaction
    BY <1>10 DEF LockTimeout, LockBlockers, InTransaction
  <2> QED BY <1>10, <1>f, <2>1 DEF LockTimeout
<1>11. CASE ConflictAbort(r)
  <2>1. /\ EndTransaction(r) /\ UNCHANGED db /\ pc'[r] \notin InTransaction
        /\ \/ attempt' = attempt /\ pc'[r] \notin BeforeBegin
           \/ attempt' = [attempt EXCEPT ![r] = @ + 1] /\ pc'[r] = "find"
    BY <1>0, <1>11 DEF ConflictAbort, InTransaction, BeforeBegin
  <2>2. CASE pc[r] \in InTransaction
    BY <1>e, <2>1, <2>2, RollsBack
  <2>3. CASE pc[r] \notin InTransaction
    <3>1. WroteInDatabase(r)' = Wrote[r]
      BY <1>0, <2>1, <2>3, EmptyHanded, EndedEmpty DEF Wrote
    <3>2. Xid'[r] = Xid[r]
      BY <2>1, <2>3 DEF Xid
    <3>3. Xid' = Xid /\ Wrote' = Wrote
      BY <3>1, <3>2, OtherSessions DEF Xid, Wrote
    <3> QED BY <2>1, <3>3, SpentKept, SpentGrows, Invisible
  <2> QED BY <2>2, <2>3
<1> QED
  BY <1>1, <1>2, <1>3, <1>4, <1>5, <1>6, <1>7, <1>8, <1>9, <1>10, <1>11 DEF Step, Fault

\* POST /accounts is an INSERT in autocommit, which waits for nobody.
LEMMA CreateObeys ==
  ASSUME Stored, NEW a \in AccountIds, NEW c \in Currencies, NEW n \in BOOLEAN,
         CreateAccount(a, c, n)
  PROVE  Storage!Next
<1> DEFINE row == [currency |-> c, balance |-> 0, allows_negative_balance |-> n]
<1>1. TypeOK /\ \A q \in Requests : Disciplined(q)
  BY DEF Stored, Sound, TransferDiscipline
<1>2. \A q \in Requests : delta[q][a] = 0
  BY <1>1, DeltaLocked DEF CreateAccount
<1>3. \A q \in Requests : Wrote[q].accounts[a] = None
  BY <1>1, <1>2, SeenRow
<1>4. \A q \in Requests : WroteInDatabase(q)' = WroteInDatabase(q)
  <2> SUFFICES ASSUME NEW q \in Requests
               PROVE  WroteInDatabase(q)' = WroteInDatabase(q)
    OBVIOUS
  <2>1. TxnId(q)' = TxnId(q)
    BY DEF CreateAccount, TxnId
  <2>2. \A b \in AccountIds : delta[q][b] # 0 => accounts'[b] = accounts[b]
    BY <1>1, <1>2 DEF CreateAccount, TypeOK
  <2> QED BY <2>1, <2>2, SameWrites DEF CreateAccount
<1>5. Wrote' = Wrote /\ Xid' = Xid /\ SpentIds' = SpentIds
  BY <1>4 DEF Wrote, Xid, CreateAccount, TxnId, SpentIds
<1>6. accounts[a] = None /\ accounts' = [accounts EXCEPT ![a] = row] /\ UNCHANGED <<transactions, entries>>
  BY DEF CreateAccount
<1>7. row \in Storage!CandidateAccounts
  BY MagnitudeAssumption DEF Storage!CandidateAccounts
<1>8. Storage!AccountAllowed(row)
  BY MagnitudeAssumption, SchemaVocabulary
     DEF Storage!AccountAllowed, Representable, BalanceNonNegative
<1> HIDE DEF row
<1>9. Storage!InsertAccountAlone(a, row)
  BY <1>3, <1>5, <1>6, <1>8 DEF Storage!InsertAccountAlone, Xid, Wrote
<1> QED BY <1>7, <1>9 DEF Storage!Next

\* The transfer path is a lawful client of the schema, for any number of requests,
\* accounts, retries and connections and under every fault: every statement is one
\* that constraints and triggers accept, its COMMIT passes the deferred check, an
\* aborted attempt leaves no row, and rows appear to others at COMMIT alone.
THEOREM PathObeysSchema == Spec => ObeysSchema
<1>1. Init => Storage!Init
  <2> SUFFICES ASSUME Init PROVE Storage!Init
    OBVIOUS
  <2>1. \A q \in Requests : WroteInDatabase(q) = Storage!NoWrites
    <3> SUFFICES ASSUME NEW q \in Requests PROVE WroteInDatabase(q) = Storage!NoWrites
      OBVIOUS
    <3>1. {k \in Keys : claimedBy[k] = q} = {}
      BY NoneAssumption DEF Init
    <3>2. (\A a \in AccountIds : delta[q][a] = 0) /\ posted[q] = {}
      BY DEF Init
    <3> QED BY <3>1, <3>2 DEF WroteInDatabase, Storage!NoWrites
  <2>2. SpentIds = {}
    BY DEF Init, SpentIds, TransactionId, BeforeBegin
  <2> QED BY <2>1, <2>2 DEF Init, Storage!Init, InTransaction
<1>2. Stored /\ [Next]_vars => [Storage!Next]_(Storage!vars)
  <2> SUFFICES ASSUME Stored, [Next]_vars PROVE [Storage!Next]_(Storage!vars)
    OBVIOUS
  <2>1. CASE UNCHANGED vars
    <3>1. Xid' = Xid
      BY <2>1 DEF vars, Xid, TxnId
    <3>2. ASSUME NEW q \in Requests PROVE WroteInDatabase(q)' = WroteInDatabase(q)
      BY <2>1, SameWrites DEF vars, TxnId
    <3>3. Wrote' = Wrote
      BY <3>2 DEF Wrote
    <3>4. SpentIds' = SpentIds
      BY <2>1 DEF vars, SpentIds
    <3> QED BY <2>1, <3>1, <3>3, <3>4, Invisible DEF vars
  <2> QED BY <2>1, RequestObeys, CreateObeys DEF Next, AllServed
<1> DEFINE U == \A q \in Requests : Unspent(q)
<1>3. Init => U /\ WaitInv
  BY WaitInitially DEF Init, Unspent
<1>4. Sound /\ U /\ WaitInv /\ [Next]_vars => U' /\ WaitInv'
  BY UnspentStep, WaitStep DEF Sound
<1>5. Spec => []Sound
  BY SoundAlways
<1>6. Stored <=> Sound /\ WaitInv /\ U
  BY DEF Stored
<1> HIDE DEF U
<1>7. Spec => Storage!Spec
  BY <1>1, <1>2, <1>3, <1>4, <1>5, <1>6, PTL DEF Spec, Storage!Spec
<1> QED BY <1>7 DEF ObeysSchema
=============================================================================
