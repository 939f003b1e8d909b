---------------------------- MODULE SafetyProofs ----------------------------
(***************************************************************************)
(* What the discipline of TransfersProofs is good for, in three parts.     *)
(*                                                                         *)
(* Replies: the log of committed transactions is sound, every answer is    *)
(* backed by it, replays agree, nothing is ever rewritten.                 *)
(*                                                                         *)
(* Books: however transfers interleave, fail and are retried, every        *)
(* transaction nets to zero, the whole log does, and each balance is the   *)
(* sum of the account's entries.                                           *)
(*                                                                         *)
(* Progress: never a circle of waiting requests, and without a fault never *)
(* an error of the server's own making.  Waiting is acyclic because        *)
(* account ids are locked in ascending order and a request inside a        *)
(* transaction waits for no connection.  It has to be known who may hold a *)
(* lock or a key (Holds); the rest of the argument follows a circle: a     *)
(* pool waiter leads to an open transaction, that one to a waiter for a    *)
(* row, and the waiter for the highest row to nobody.                      *)
(***************************************************************************)
EXTENDS TransfersProofs, LedgerProofs

USE DEF At, Goto, Answer, Conclude, db, locks, work

-----------------------------------------------------------------------------
(* Replies *)

\* A step of r leaves the control state, the input and the reply of every other
\* request alone.
LEMMA Bystander ==
  ASSUME TypeOK, NEW r \in Requests, NEW q \in Requests \ {r},
         Deliver(r) \/ Step(r) \/ Fault(r)
  PROVE  /\ pc'[q] = pc[q] /\ req'[q] = req[q] /\ attempt'[q] = attempt[q]
         /\ result'[q] = result[q] /\ answer'[q] = answer[q]
  BY DEF TypeOK, Step, Fault, Deliver, FindRecord, FindNothing, Begin, ClaimKey, ClaimCollides,
     FindWinner, Replay, LockFirst, LockSecond, FetchForUpdate, Check, AdjustFrom, AdjustTo,
     AdjustBalance, PostCredit, PostDebit, InsertEntry, Commit, GetTransaction, GetEntries,
     Rollback, LateCommit, ConflictAbort, LockTimeout, Abandon, FailStatement, RejectOpen

\* The input of a request that has arrived never changes.
LEMMA InputFixed ==
  ASSUME TypeOK, TransferDiscipline, [Next]_vars, NEW q \in Requests, req[q] # None
  PROVE  req'[q] = req[q]
<1>1. pc[q] # "idle"
  BY DEF TransferDiscipline, Disciplined, RequestSound
<1>2. ASSUME Step(q) \/ Fault(q) PROVE req'[q] = req[q]
  BY <1>2 DEF Step, Fault, FindRecord, FindNothing, Begin, ClaimKey, ClaimCollides,
     FindWinner, LockFirst, LockSecond, FetchForUpdate, Check, AdjustFrom, AdjustTo,
     AdjustBalance, PostCredit, PostDebit, InsertEntry, Commit, GetTransaction, GetEntries,
     Rollback, LateCommit, ConflictAbort, LockTimeout, Abandon, FailStatement, RejectOpen
<1> QED BY <1>1, <1>2, Bystander DEF Next, AllServed, vars, CreateAccount, Deliver

\* What r commits has a key no committed row has, an id no committed row or entry
\* has, and exactly the two postings of its intent.
LEMMA CommitFresh ==
  ASSUME TypeOK, TransferDiscipline, HistorySound, NEW r \in Requests, pc[r] = "commit"
  PROVE  /\ req[r] # None
         /\ \A t \in transactions : t.idempotency_key # Key(r) /\ t.id[1] # r
         /\ \A e \in entries : e.transaction_id # TxnId(r)
         /\ posted[r] = Postings(TxnId(r), Intent(r))
<1>1. Disciplined(r)
  BY DEF TransferDiscipline
<1>2. \A t \in transactions : t.idempotency_key # Key(r)
  BY <1>1 DEF Disciplined, KeyClaimed, Recorded, Claiming, Authorized
<1>3. \A t \in transactions : t.id[1] # r
  BY <1>2 DEF HistorySound
<1>4. \A e \in entries : e.transaction_id # TxnId(r)
  BY <1>3 DEF HistorySound, TxnId
<1>5. posted[r] = Postings(TxnId(r), Intent(r))
  BY <1>1 DEF Disciplined, WritesExpected, ExpectedPosted
<1> QED BY <1>1, <1>2, <1>3, <1>4, <1>5 DEF Disciplined, RequestSound

\* The postings of a transaction carry its id.
LEMMA PostingsId == \A id, i : \A e \in Postings(id, i) : e.transaction_id = id
  BY DEF Postings

\* Rows are only ever added.
LEMMA Monotone ==
  ASSUME [Next]_vars
  PROVE  transactions \subseteq transactions' /\ entries \subseteq entries'
  BY WritesOnlyAtCommit DEF Apply, CreateAccount

\* Every step keeps the history sound.
LEMMA HistoryStep ==
  ASSUME TypeOK, TransferDiscipline, HistorySound, [Next]_vars
  PROVE  HistorySound'
<1>0. \A t \in transactions : /\ t.id[1] \in Requests
                              /\ req'[t.id[1]] = req[t.id[1]]
  BY InputFixed DEF TypeOK, TransactionRow, TransactionId, HistorySound
<1>1. ASSUME UNCHANGED <<transactions, entries>> PROVE HistorySound'
  BY <1>0, <1>1 DEF HistorySound, Key, Intent
<1>2. ASSUME NEW r \in Requests, pc[r] = "commit", Apply(r) PROVE HistorySound'
  <2>0. PICK new : new = [id |-> TxnId(r), idempotency_key |-> Key(r),
                          request_hash |-> RequestHash(Intent(r))]
    OBVIOUS
  <2>1. /\ req[r] # None
        /\ \A t \in transactions : t.id[1] # r
        /\ \A e \in entries : e.transaction_id # TxnId(r)
        /\ posted[r] = Postings(TxnId(r), Intent(r))
    BY <1>2, CommitFresh
  <2>2. /\ transactions' = transactions \cup {new}
        /\ entries' = entries \cup Postings(TxnId(r), Intent(r))
    BY <1>2, <2>0, <2>1 DEF Apply
  <2>3. req'[r] = req[r] /\ Key(r)' = Key(r) /\ Intent(r)' = Intent(r)
    BY <2>1, InputFixed DEF Key, Intent
  <2>4. ASSUME NEW t \in transactions
        PROVE  LET q == t.id[1]
               IN /\ req'[q] # None
                  /\ t.idempotency_key = Key(q)'
                  /\ t.request_hash = RequestHash(Intent(q))'
                  /\ EntriesOf(t.id, entries)' = Postings(t.id, Intent(q))'
    <3>1. t.id # TxnId(r)
      BY <2>1 DEF TxnId
    <3>2. EntriesOf(t.id, entries') = EntriesOf(t.id, entries)
      BY <2>2, <3>1, PostingsId DEF EntriesOf
    <3> QED BY <1>0, <3>2 DEF HistorySound, Key, Intent, EntriesOf
  <2>5. EntriesOf(TxnId(r), entries') = Postings(TxnId(r), Intent(r))
    BY <2>1, <2>2, PostingsId DEF EntriesOf
  <2>6. new.id = TxnId(r) /\ new.id[1] = r /\ new.idempotency_key = Key(r)
        /\ new.request_hash = RequestHash(Intent(r))
    BY <2>0 DEF TxnId
  <2>7. LET q == new.id[1]
        IN /\ req'[q] # None
           /\ new.idempotency_key = Key(q)'
           /\ new.request_hash = RequestHash(Intent(q))'
           /\ EntriesOf(new.id, entries)' = Postings(new.id, Intent(q))'
    BY <2>1, <2>3, <2>5, <2>6 DEF RequestHash, Postings, EntriesOf
  <2>8. \A e \in entries' : \E t \in transactions' : t.id = e.transaction_id
    BY <2>2, <2>6, PostingsId DEF HistorySound
  <2> QED BY <2>2, <2>4, <2>7, <2>8 DEF HistorySound
<1> QED BY <1>1, <1>2, WritesOnlyAtCommit DEF CreateAccount

-----------------------------------------------------------------------------
(* Replies *)

\* A step that changes nothing of q's keeps what backs its reply: committed rows
\* stay.
LEMMA BackedFrame ==
  ASSUME NEW q \in Requests, ReplyBacked(q), transactions \subseteq transactions',
         pc'[q] = pc[q], req'[q] = req[q], attempt'[q] = attempt[q],
         result'[q] = result[q], answer'[q] = answer[q]
  PROVE  ReplyBacked(q)'
<1>1. ASSUME NEW t, Reports(q, t) PROVE Reports(q, t)'
  BY <1>1 DEF Reports, Key, Intent, TxnId
<1>2. Recorded(Key(q)) # {} => Recorded(Key(q))' # {}
  BY DEF Recorded, Key
<1> QED BY <1>1, <1>2 DEF ReplyBacked

\* A stage at which nothing needs backing.
LEMMA BackedTrivially ==
  ASSUME NEW r \in Requests,
         pc'[r] \notin {"find_winner", "get_transaction", "get_entries"},
         answer'[r] = None \/ pc'[r] \in {"rollback", "done"} \/ answer'[r] \in Unknown
  PROVE  ReplyBacked(r)'
  BY DEF ReplyBacked

\* replay: the record found is what will be reported.
LEMMA ReplayBacked ==
  ASSUME TypeOK, NEW r \in Requests, NEW t \in Recorded(Key(r)), Replay(r, t), answer[r] = None,
         UNCHANGED <<db, req, attempt>>
  PROVE  ReplyBacked(r)'
<1>1. CASE t.request_hash # RequestHash(Intent(r))
  BY <1>1, BackedTrivially DEF Replay, TypeOK
<1>2. CASE t.request_hash = RequestHash(Intent(r))
  <2>1. /\ result'[r] = [outcome |-> "replayed", transaction_id |-> t.id, entries |-> {}]
        /\ pc'[r] = "get_transaction" /\ answer'[r] = None
    BY <1>2 DEF Replay, TypeOK
  <2>2. Key(r)' = Key(r) /\ Intent(r)' = Intent(r)
    BY DEF Key, Intent
  <2>3. Reports(r, t)'
    BY <1>2, <2>1, <2>2 DEF Reports, Recorded, RequestHash
  <2> QED BY <2>1, <2>3 DEF ReplyBacked, Recorded, Successes
<1> QED BY <1>1, <1>2

\* A committed transaction is what its request reports as created.
LEMMA CommitBacked ==
  ASSUME TypeOK, NEW r \in Requests, Commit(r), ~FailStatement(r, "internal_error")
  PROVE  ReplyBacked(r)'
<1>0. PICK new : new = [id |-> TxnId(r), idempotency_key |-> Key(r),
                        request_hash |-> RequestHash(Intent(r))]
  OBVIOUS
<1>1. /\ new \in transactions'
      /\ result'[r] = [outcome |-> "created", transaction_id |-> TxnId(r), entries |-> {}]
      /\ pc'[r] = "get_transaction" /\ answer'[r] = None
  BY <1>0 DEF Commit, Apply, TypeOK
<1>2. Key(r)' = Key(r) /\ Intent(r)' = Intent(r) /\ TxnId(r)' = TxnId(r)
  BY DEF Commit, Key, Intent, TxnId
<1>3. Reports(r, new)'
  BY <1>0, <1>1, <1>2 DEF Reports, RequestHash
<1> QED BY <1>1, <1>3 DEF ReplyBacked, Successes

\* Every step of r keeps r's reply backed.
LEMMA BackedOwn ==
  ASSUME TypeOK, NEW r \in Requests, ReplyBacked(r), Deliver(r) \/ Step(r) \/ Fault(r),
         RequestSound(r)
  PROVE  ReplyBacked(r)'
<1> USE DEF TypeOK
<1>f. ASSUME NEW o, FailStatement(r, o) PROVE ReplyBacked(r)'
  BY <1>f, BackedTrivially DEF FailStatement
<1>o. ASSUME NEW o, RejectOpen(r, o) PROVE ReplyBacked(r)'
  BY <1>o, BackedTrivially DEF RejectOpen
<1>1. CASE Deliver(r)
  BY <1>1, BackedTrivially DEF Deliver, ReplyBacked
<1>2. CASE FindRecord(r)
  BY <1>2, ReplayBacked DEF FindRecord
<1>3. CASE FindNothing(r)
  BY <1>3, BackedTrivially DEF FindNothing
<1>4. CASE Begin(r)
  BY <1>4, BackedTrivially DEF Begin
<1>5. CASE ClaimKey(r)
  BY <1>5, BackedTrivially DEF ClaimKey
<1>6. CASE ClaimCollides(r)
  BY <1>6 DEF ClaimCollides, ReplyBacked, Recorded, Key
<1>7. CASE FindWinner(r)
  <2>1. CASE Recorded(Key(r)) = {}
    BY <1>7, <2>1, BackedTrivially DEF FindWinner
  <2>2. CASE Recorded(Key(r)) # {}
    BY <1>7, <2>2, ReplayBacked DEF FindWinner
  <2> QED BY <2>1, <2>2
<1>8. CASE LockFirst(r) \/ LockSecond(r)
  BY <1>8, <1>o, BackedTrivially DEF LockFirst, LockSecond, FetchForUpdate
<1>9. CASE Check(r)
  BY <1>9, <1>o, BackedTrivially DEF Check
<1>10. CASE AdjustFrom(r) \/ AdjustTo(r)
  BY <1>10, <1>f, BackedTrivially DEF AdjustFrom, AdjustTo, AdjustBalance
<1>11. CASE PostCredit(r) \/ PostDebit(r)
  BY <1>11, <1>f, BackedTrivially DEF PostCredit, PostDebit, InsertEntry
<1>12. CASE Commit(r)
  BY <1>12, <1>f, CommitBacked
<1>13. CASE GetTransaction(r)
  <2>1. CASE pc'[r] = "done"
    BY <1>13, <2>1, BackedTrivially DEF GetTransaction
  <2>2. CASE pc'[r] # "done"
    <3>1. /\ pc[r] = "get_transaction" /\ pc'[r] = "get_entries" /\ answer'[r] = None
          /\ UNCHANGED <<transactions, req, attempt, result>>
      BY <1>13, <2>2 DEF GetTransaction
    <3>2. PICK t \in transactions : Reports(r, t)
      BY <3>1 DEF ReplyBacked
    <3>3. Reports(r, t)'
      BY <3>1, <3>2 DEF Reports, Key, Intent, TxnId
    <3> QED BY <3>1, <3>2, <3>3 DEF ReplyBacked
  <2> QED BY <2>1, <2>2
<1>14. CASE GetEntries(r)
  BY <1>14, BackedTrivially DEF GetEntries
<1>15. CASE Rollback(r) \/ LateCommit(r)
  BY <1>15, BackedTrivially DEF Rollback, LateCommit
<1>16. CASE ConflictAbort(r)
  BY <1>16, BackedTrivially DEF ConflictAbort
<1>17. CASE LockTimeout(r)
  BY <1>17, <1>f DEF LockTimeout
<1>18. CASE Abandon(r)
  BY <1>18, BackedTrivially DEF Abandon, Unknown, InTransaction
<1> QED
  BY <1>1, <1>2, <1>3, <1>4, <1>5, <1>6, <1>7, <1>8, <1>9, <1>10, <1>11, <1>12, <1>13, <1>14,
     <1>15, <1>16, <1>17, <1>18 DEF Step, Fault

\* Every step keeps every reply backed.
LEMMA BackedStep ==
  ASSUME TypeOK, TransferDiscipline, RepliesBacked, [Next]_vars
  PROVE  RepliesBacked'
<1> SUFFICES ASSUME NEW q \in Requests PROVE ReplyBacked(q)'
  BY DEF RepliesBacked
<1>0. ReplyBacked(q) /\ RequestSound(q) /\ transactions \subseteq transactions'
  BY Monotone DEF RepliesBacked, TransferDiscipline, Disciplined
<1>1. ASSUME NEW r \in Requests, Deliver(r) \/ Step(r) \/ Fault(r)
      PROVE  ReplyBacked(q)'
  <2>1. CASE q = r
    BY <1>0, <1>1, <2>1, BackedOwn
  <2>2. CASE q # r
    BY <1>0, <1>1, <2>2, Bystander, BackedFrame
  <2> QED BY <2>1, <2>2
<1>2. ASSUME UNCHANGED <<pc, req, attempt, result, answer>> PROVE ReplyBacked(q)'
  BY <1>0, <1>2, BackedFrame
<1> QED BY <1>1, <1>2 DEF Next, AllServed, vars, CreateAccount

-----------------------------------------------------------------------------
(* Answers *)

\* No transaction of r is committed while its key is unused, nor when its key was
\* used with another payload.
LEMMA NothingMoved ==
  ASSUME TypeOK, HistorySound, OneTransactionPerKey, NEW r \in Requests,
         \/ Recorded(Key(r)) = {}
         \/ \E t \in Recorded(Key(r)) : t.request_hash # RequestHash(Intent(r))
  PROVE  \A u \in transactions : u.id[1] # r
  BY DEF HistorySound, OneTransactionPerKey, KeysUnique, Recorded

\* Equal fingerprints mean equal postings.
LEMMA SamePostings ==
  ASSUME NEW i, NEW j, RequestHash(i) = RequestHash(j), NEW id
  PROVE  Postings(id, i) = Postings(id, j)
<1>1. /\ i.from_account_id = j.from_account_id /\ i.to_account_id = j.to_account_id
      /\ i.amount = j.amount /\ i.currency = j.currency
  BY DEF RequestHash
<1> QED BY <1>1 DEF Postings

\* When a step of r answers its client with a typed rejection, nothing of r is
\* committed, and the step commits nothing.
LEMMA RejectionTrue ==
  ASSUME TypeOK, TransferDiscipline, HistorySound, OneTransactionPerKey,
         NEW r \in Requests, Deliver(r) \/ Step(r) \/ Fault(r),
         answer'[r] # answer[r], answer'[r] \in Rejections
  PROVE  transactions' = transactions /\ \A u \in transactions : u.id[1] # r
<1> USE DEF TypeOK, Rejections
<1>0. Disciplined(r)
  BY DEF TransferDiscipline
<1>1. ASSUME pc[r] \in Claiming PROVE Recorded(Key(r)) = {}
  BY <1>0, <1>1 DEF Disciplined, KeyClaimed
<1>2. CASE FindRecord(r) \/ FindWinner(r)
  BY <1>2, NothingMoved DEF FindRecord, FindWinner, Replay
<1>3. CASE FindNothing(r)
  BY <1>3, NothingMoved DEF FindNothing
<1>4. CASE LockFirst(r) \/ LockSecond(r) \/ Check(r)
  <2>1. pc[r] \in Claiming /\ transactions' = transactions
    BY <1>4 DEF LockFirst, LockSecond, FetchForUpdate, Check, RejectOpen, Claiming
  <2> QED BY <1>1, <2>1, NothingMoved
<1>5. CASE AdjustFrom(r) \/ AdjustTo(r) \/ PostCredit(r) \/ PostDebit(r)
  <2>1. pc[r] \in Claiming /\ transactions' = transactions
    BY <1>5 DEF AdjustFrom, AdjustTo, AdjustBalance, PostCredit, PostDebit, InsertEntry,
       FailStatement, Claiming, Authorized
  <2> QED BY <1>1, <2>1, NothingMoved
<1>6. CASE Commit(r) \/ GetTransaction(r) \/ Fault(r)
  BY <1>6 DEF Commit, GetTransaction, Fault, ConflictAbort, LockTimeout, Abandon, FailStatement
<1>7. CASE GetEntries(r)
  <2>1. result[r].outcome \in Successes \cup {None}
    BY DEF Results
  <2>2. answer'[r] = result[r].outcome
    BY <1>7 DEF GetEntries
  <2> QED BY <1>7, <2>1, <2>2 DEF GetEntries, Successes
<1> QED
  BY <1>2, <1>3, <1>4, <1>5, <1>6, <1>7 DEF Step, Deliver, Begin, ClaimKey, ClaimCollides,
     Rollback, LateCommit

\* A step that answers with a success is the last statement of transactions::get.
LEMMA SuccessOnlyAtEnd ==
  ASSUME TypeOK, NEW r \in Requests, Deliver(r) \/ Step(r) \/ Fault(r),
         answer'[r] # answer[r], answer'[r] \in Successes
  PROVE  GetEntries(r)
  BY DEF TypeOK, Successes, Step, Fault, Deliver, FindRecord, FindNothing, Begin, ClaimKey,
     ClaimCollides, FindWinner, Replay, LockFirst, LockSecond, FetchForUpdate, Check,
     AdjustFrom, AdjustTo, AdjustBalance, PostCredit, PostDebit, InsertEntry, Commit,
     GetTransaction, Rollback, LateCommit, ConflictAbort, LockTimeout, Abandon,
     FailStatement, RejectOpen

\* The entries fetched last are the two postings of the request's own intent.
LEMMA SuccessTrue ==
  ASSUME TypeOK, RepliesBacked, HistorySound, NEW r \in Requests, GetEntries(r)
  PROVE  /\ answer'[r] = result'[r].outcome
         /\ \E t \in transactions' : /\ Reports(r, t)'
                                     /\ result'[r].entries = Postings(t.id, Intent(r))'
<1>1. PICK t \in transactions : Reports(r, t)
  BY DEF GetEntries, RepliesBacked, ReplyBacked
<1>2. /\ result'[r].entries = EntriesOf(t.id, entries)
      /\ result'[r].outcome = result[r].outcome
      /\ result'[r].transaction_id = result[r].transaction_id
      /\ answer'[r] = result[r].outcome
      /\ UNCHANGED <<transactions, req, attempt>>
  <2>1. result[r] \in Results
    BY DEF TypeOK
  <2> QED BY <1>1, <2>1 DEF GetEntries, Reports, TypeOK, Results
<1>3. EntriesOf(t.id, entries) = Postings(t.id, Intent(r))
  <2>1. /\ EntriesOf(t.id, entries) = Postings(t.id, Intent(t.id[1]))
        /\ RequestHash(Intent(t.id[1])) = RequestHash(Intent(r))
    BY <1>1 DEF HistorySound, Reports
  <2> QED BY <2>1, SamePostings
<1>4. Reports(r, t)' /\ Intent(r)' = Intent(r)
  BY <1>1, <1>2 DEF Reports, Key, Intent, TxnId
<1> QED BY <1>1, <1>2, <1>3, <1>4 DEF Postings

\* A successful answer stays true: what it reports is fixed.
LEMMA SuccessStays ==
  ASSUME TypeOK, RepliesBacked, NEW r \in Requests, Deliver(r) \/ Step(r) \/ Fault(r),
         answer[r] \in Successes, TransferDiscipline
  PROVE  UNCHANGED <<result, answer, attempt, req>>
<1>1. /\ answer[r] # None => pc[r] \in {"rollback", "done"} \/ answer[r] \in Unknown
      /\ pc[r] \in {"rollback", "done"} => pc[r] # "idle"
  BY DEF RepliesBacked, ReplyBacked
<1>2. answer[r] # None
  BY OutcomeAssumption DEF Outcomes
<1> QED
  BY <1>1, <1>2 DEF TypeOK, Step, Fault, Deliver, FindRecord, FindNothing, Begin,
     ClaimKey, ClaimCollides, FindWinner, LockFirst, LockSecond, Check, AdjustFrom, AdjustTo,
     PostCredit, PostDebit, Commit, GetTransaction, GetEntries, Rollback, LateCommit,
     ConflictAbort, LockTimeout, Abandon, Successes, Unknown

\* What must be true of one answer.
Truthful(r) ==
  /\ answer[r] \in Rejections => \A t \in transactions : t.id[1] # r
  /\ answer[r] \in Successes =>
        /\ answer[r] = result[r].outcome
        /\ \E t \in transactions : /\ Reports(r, t)
                                   /\ result[r].entries = Postings(t.id, Intent(r))

\* A request whose reply is complete is never the one that commits.
LEMMA DecidedNeverCommits ==
  ASSUME RepliesBacked, NEW r \in Requests, answer[r] \in Rejections
  PROVE  pc[r] # "commit"
<1>1. answer[r] # None /\ answer[r] \notin Unknown
  BY OutcomeAssumption DEF Outcomes, Rejections, Unknown
<1> QED BY <1>1 DEF RepliesBacked, ReplyBacked

\* Every step keeps every answer true.
LEMMA TruthStep ==
  ASSUME TypeOK, TransferDiscipline, HistorySound, OneTransactionPerKey, RepliesBacked,
         AnswersTruthful, [Next]_vars
  PROVE  AnswersTruthful'
<1> SUFFICES ASSUME NEW q \in Requests PROVE Truthful(q)'
  BY DEF AnswersTruthful, Truthful
<1>0. Truthful(q) /\ transactions \subseteq transactions'
  BY Monotone DEF AnswersTruthful, Truthful
<1>1. ASSUME answer'[q] = answer[q], answer[q] \in Rejections
      PROVE  \A t \in transactions' : t.id[1] # q
  <2>1. ASSUME NEW r \in Requests, pc[r] = "commit", Apply(r)
        PROVE  \A t \in transactions' : t.id[1] # q
    <3>1. r # q
      BY <1>1, <2>1, DecidedNeverCommits
    <3>2. \A t \in transactions' \ transactions : t.id = <<r, attempt[r]>>
      BY <2>1 DEF Apply, TxnId
    <3> QED BY <1>0, <1>1, <3>1, <3>2 DEF Truthful
  <2> QED BY <1>0, <1>1, <2>1, WritesOnlyAtCommit DEF CreateAccount, Truthful
<1>2. ASSUME answer[q] \in Successes,
             answer'[q] = answer[q], result'[q] = result[q], attempt'[q] = attempt[q],
             req'[q] = req[q]
      PROVE  Truthful(q)'
  <2>1. PICK t \in transactions : Reports(q, t) /\ result[q].entries = Postings(t.id, Intent(q))
    BY <1>0, <1>2 DEF Truthful
  <2>2. Reports(q, t)' /\ result'[q].entries = Postings(t.id, Intent(q))'
    BY <1>2, <2>1 DEF Reports, Key, Intent, TxnId, Postings
  <2>3. answer'[q] \notin Rejections
    BY <1>2 DEF Successes, Rejections
  <2> QED BY <1>0, <1>2, <2>1, <2>2, <2>3 DEF Truthful
<1>3. ASSUME answer'[q] = answer[q], result'[q] = result[q], attempt'[q] = attempt[q],
             req'[q] = req[q]
      PROVE  Truthful(q)'
  BY <1>1, <1>2, <1>3 DEF Truthful
<1>4. ASSUME NEW r \in Requests, Deliver(r) \/ Step(r) \/ Fault(r)
      PROVE  Truthful(q)'
  <2>1. CASE q # r
    BY <1>3, <1>4, <2>1, Bystander
  <2>2. CASE q = r /\ answer'[r] = answer[r]
    <3>1. CASE answer[r] \in Successes
      BY <1>2, <1>4, <2>2, <3>1, SuccessStays
    <3>2. CASE answer[r] \notin Successes
      BY <1>1, <2>2, <3>2 DEF Truthful
    <3> QED BY <3>1, <3>2
  <2>3. CASE q = r /\ answer'[r] # answer[r]
    <3>1. CASE answer'[r] \in Rejections
      <4>1. \A t \in transactions' : t.id[1] # r
        BY <1>4, <2>3, <3>1, RejectionTrue
      <4>2. answer'[r] \notin Successes
        BY <3>1 DEF Successes, Rejections
      <4> QED BY <2>3, <4>1, <4>2 DEF Truthful
    <3>2. CASE answer'[r] \in Successes
      <4>1. answer'[r] \notin Rejections
        BY <3>2 DEF Successes, Rejections
      <4>2. GetEntries(r)
        BY <1>4, <2>3, <3>2, SuccessOnlyAtEnd
      <4> QED BY <2>3, <4>1, <4>2, SuccessTrue DEF Truthful
    <3>3. CASE answer'[r] \notin Rejections \cup Successes
      BY <2>3, <3>3 DEF Truthful
    <3> QED BY <3>1, <3>2, <3>3
  <2> QED BY <2>1, <2>2, <2>3
<1> QED BY <1>3, <1>4 DEF Next, AllServed, vars, CreateAccount

-----------------------------------------------------------------------------
(* The theorems *)

\* The history is sound and every reply is backed by it, in every reachable state.
THEOREM HistoryAndReplies ==
  Spec => [](HistorySound /\ RepliesBacked /\ AnswersTruthful)
<1> DEFINE I == TypeOK /\ TransferDiscipline
           K == OneTransactionPerKey
           J == HistorySound /\ RepliesBacked /\ AnswersTruthful
<1>1. Init => J
  <2> SUFFICES ASSUME Init PROVE J
    OBVIOUS
  <2>1. HistorySound
    BY DEF Init, HistorySound
  <2>2. RepliesBacked
    BY DEF Init, RepliesBacked, ReplyBacked
  <2>3. AnswersTruthful
    <3>1. None \notin Rejections /\ None \notin Successes
      BY OutcomeAssumption DEF Outcomes
    <3> QED BY <3>1 DEF Init, AnswersTruthful
  <2> QED BY <2>1, <2>2, <2>3
<1>2. I /\ K /\ J /\ [Next]_vars => J'
  BY HistoryStep, BackedStep, TruthStep
<1>3. Spec => []I /\ []K
  BY Discipline, KeysUsedOnce
<1> HIDE DEF I, K, J
<1>4. Spec => []J
  BY <1>1, <1>2, <1>3, PTL DEF Spec
<1> QED BY <1>4 DEF J

\* What a client is told is so, for any number of requests, under every fault:
\* after a typed rejection that request never moves money, and a success shows
\* its own committed postings.
THEOREM ClientsToldTheTruth == Spec => []AnswersTruthful
  BY HistoryAndReplies, PTL

\* All successful answers for one key agree, and at most one says Created.
THEOREM ReplaysAlwaysAgree == Spec => []ReplaysAgree
<1>1. OneTransactionPerKey /\ AnswersTruthful => ReplaysAgree
  <2> SUFFICES ASSUME OneTransactionPerKey, AnswersTruthful,
                      NEW r \in Requests, NEW q \in Requests, r # q,
                      answer[r] \in Successes, answer[q] \in Successes, Key(r) = Key(q)
               PROVE  /\ result[r].transaction_id = result[q].transaction_id
                      /\ result[r].entries = result[q].entries
                      /\ ~(answer[r] = "created" /\ answer[q] = "created")
    BY DEF ReplaysAgree
  <2>1. PICK t \in transactions : Reports(r, t) /\ result[r].entries = Postings(t.id, Intent(r))
    BY DEF AnswersTruthful
  <2>2. PICK u \in transactions : Reports(q, u) /\ result[q].entries = Postings(u.id, Intent(q))
    BY DEF AnswersTruthful
  <2>3. t = u
    BY <2>1, <2>2 DEF OneTransactionPerKey, KeysUnique, Reports
  <2>4. RequestHash(Intent(r)) = RequestHash(Intent(q))
    BY <2>1, <2>2, <2>3 DEF Reports
  <2>5. Postings(t.id, Intent(r)) = Postings(t.id, Intent(q))
    BY <2>4, SamePostings
  <2>6. answer[r] = result[r].outcome /\ answer[q] = result[q].outcome
    BY DEF AnswersTruthful
  <2>7. TxnId(r) # TxnId(q)
    BY DEF TxnId
  <2> QED BY <2>1, <2>2, <2>3, <2>5, <2>6, <2>7 DEF Reports
<1> QED BY <1>1, KeysUsedOnce, ClientsToldTheTruth, PTL

\* The branch the code calls unreachable is unreachable: a key collision finds
\* the winner, and what was found or committed can be fetched.
THEOREM CollisionFindsWinner == Spec => []WinnerAlwaysFound
<1>1. Init => WinnerAlwaysFound
  BY OutcomeAssumption DEF Init, WinnerAlwaysFound, Outcomes
<1>2. TypeOK /\ RepliesBacked /\ WinnerAlwaysFound /\ [Next]_vars => WinnerAlwaysFound'
  <2> SUFFICES ASSUME TypeOK, RepliesBacked, WinnerAlwaysFound, [Next]_vars,
                      NEW q \in Requests
               PROVE  answer'[q] \notin {"validation_failed", "transaction_not_found"}
    BY DEF WinnerAlwaysFound
  <2>0. answer[q] \notin {"validation_failed", "transaction_not_found"}
    BY DEF WinnerAlwaysFound
  <2>1. ASSUME NEW r \in Requests, Deliver(r) \/ Step(r) \/ Fault(r)
        PROVE  answer'[q] \notin {"validation_failed", "transaction_not_found"}
    <3>1. CASE q # r
      BY <2>0, <2>1, <3>1, Bystander
    <3>2. CASE q = r /\ FindWinner(r)
      BY <2>0, <3>2 DEF FindWinner, Replay, RepliesBacked, ReplyBacked, TypeOK
    <3>3. CASE q = r /\ GetTransaction(r)
      BY <2>0, <3>3 DEF GetTransaction, RepliesBacked, ReplyBacked, Reports
    <3>4. CASE q = r /\ GetEntries(r)
      BY <2>0, <3>4 DEF GetEntries, RepliesBacked, ReplyBacked, Successes, TypeOK
    <3>5. CASE q = r /\ ~FindWinner(r) /\ ~GetTransaction(r) /\ ~GetEntries(r)
      BY <2>0, <2>1, <3>5 DEF TypeOK, Step, Fault, Deliver, FindRecord, FindNothing, Begin,
         ClaimKey, ClaimCollides, Replay, LockFirst, LockSecond, FetchForUpdate, Check,
         AdjustFrom, AdjustTo, AdjustBalance, PostCredit, PostDebit, InsertEntry, Commit,
         Rollback, LateCommit, ConflictAbort, LockTimeout, Abandon, FailStatement, RejectOpen
    <3> QED BY <3>1, <3>2, <3>3, <3>4, <3>5
  <2> QED BY <2>0, <2>1 DEF Next, AllServed, vars, CreateAccount
<1> QED BY <1>1, <1>2, TypeCorrect, HistoryAndReplies, PTL DEF Spec

\* Nothing is ever rewritten: rows stay, an old transaction gains no entry, money
\* moves only with a new transaction, the terms of an account are fixed.
THEOREM LedgerAppendOnly == Spec => AppendOnly
<1> DEFINE
      A == /\ transactions \subseteq transactions'
           /\ entries \subseteq entries'
           /\ \A e \in entries' \ entries :
                 \A t \in transactions : t.id # e.transaction_id
           /\ transactions' = transactions =>
                 \A a \in AccountIds : accounts[a] # None => accounts'[a] = accounts[a]
           /\ \A a \in AccountIds : accounts[a] # None =>
                 /\ accounts'[a] # None
                 /\ accounts'[a].currency = accounts[a].currency
                 /\ accounts'[a].allows_negative_balance
                        = accounts[a].allows_negative_balance
<1>1. TypeOK /\ TransferDiscipline /\ HistorySound /\ [Next]_vars => [A]_vars
  <2> SUFFICES ASSUME TypeOK, TransferDiscipline, HistorySound, [Next]_vars PROVE A
    OBVIOUS
  <2>1. CASE UNCHANGED db
    BY <2>1
  <2>2. ASSUME NEW r \in Requests, pc[r] = "commit", Apply(r) PROVE A
    <3>0. Disciplined(r)
      BY DEF TransferDiscipline
    <3>1. /\ \A t \in transactions : t.id[1] # r
          /\ posted[r] = Postings(TxnId(r), Intent(r))
      BY <2>2, CommitFresh
    <3>2. transactions' # transactions
      <4>1. \A t \in transactions : t.id # TxnId(r)
        BY <3>1 DEF TxnId
      <4>2. PICK new : new = [id |-> TxnId(r), idempotency_key |-> Key(r),
                              request_hash |-> RequestHash(Intent(r))]
        OBVIOUS
      <4>3. new \in transactions' /\ new.id = TxnId(r)
        BY <2>2, <4>2 DEF Apply
      <4> QED BY <4>1, <4>3
    <3>3. \A e \in entries' \ entries : e.transaction_id = TxnId(r)
      BY <2>2, <3>1, PostingsId DEF Apply
    <3>4. \A e \in entries' \ entries : \A t \in transactions : t.id # e.transaction_id
      BY <3>1, <3>3 DEF TxnId
    <3>5. \A a \in AccountIds : accounts[a] # None =>
              /\ accounts'[a] # None
              /\ accounts'[a].currency = accounts[a].currency
              /\ accounts'[a].allows_negative_balance = accounts[a].allows_negative_balance
      BY <2>2, <3>0, AppliedBalances, NoneAssumption
    <3> QED BY <2>2, <3>2, <3>4, <3>5 DEF Apply
  <2>3. ASSUME NEW a \in AccountIds, NEW c \in Currencies, NEW n \in BOOLEAN,
               CreateAccount(a, c, n)
        PROVE  A
    BY <2>3 DEF CreateAccount, TypeOK
  <2> QED BY <2>1, <2>2, <2>3, WritesOnlyAtCommit
<1>2. Spec => [](TypeOK /\ TransferDiscipline) /\ [](HistorySound /\ RepliesBacked /\ AnswersTruthful)
  BY Discipline, HistoryAndReplies
<1>3. Spec => [][A]_vars
  <2> HIDE DEF A
  <2> QED BY <1>1, <1>2, PTL DEF Spec
<1> QED BY <1>3 DEF AppendOnly

-----------------------------------------------------------------------------
(* Books *)

\* Signed amounts of typed entries are numbers.
LEMMA SignedType ==
  ASSUME TypeOK, NEW e \in entries
  PROVE  Signed(e) \in Int
  BY DEF TypeOK, Entry, Signed

\* A committed transaction's entries pass every per-transaction row of the sweep:
\* they are the two postings of one intent.
LEMMA EveryTransactionBalanced ==
  ASSUME TypeOK, TransferDiscipline, HistorySound
  PROVE  /\ NoEmptyTransactions(transactions, entries)
         /\ TransactionShape(entries)
         /\ PerTransactionBalanced(entries)
<1>1. ASSUME NEW t \in transactions
      PROVE  LET E == EntriesOf(t.id, entries)
             IN /\ E # {} /\ Net(E) = 0 /\ Cardinality(E) >= 2
                /\ Cardinality({f.currency : f \in E}) = 1
  <2> DEFINE r == t.id[1]
  <2>1. r \in Requests /\ req[r] # None
    BY DEF TypeOK, TransactionRow, TransactionId, HistorySound
  <2>2. Intent(r).amount \in Int
    BY <2>1, IntentType DEF TransferDiscipline, Disciplined, RequestSound
  <2>3. EntriesOf(t.id, entries) = Postings(t.id, Intent(r))
    BY DEF HistorySound
  <2> DEFINE E == Postings(t.id, Intent(r))
  <2>4. Net(E) = 0 /\ Cardinality(E) = 2 /\ {f.currency : f \in E} = {Intent(r).currency}
    BY <2>2, PostingsBalanced
  <2>5. E # {}
    BY DEF Postings
  <2>6. Cardinality({Intent(r).currency}) = 1
    BY FS_Singleton
  <2> HIDE DEF E, r
  <2> QED BY <2>3, <2>4, <2>5, <2>6 DEF E
<1>2. ASSUME NEW e \in entries
      PROVE  \E t \in transactions : t.id = e.transaction_id
  BY DEF HistorySound
<1> QED BY <1>1, <1>2 DEF NoEmptyTransactions, TransactionShape, PerTransactionBalanced

\* What the sums rest on: a finite log, entries of existing accounts only.
BooksInv ==
    /\ IsFiniteSet(entries)
    /\ \A e \in entries : accounts[e.account_id] # None
    /\ GlobalSumZero(entries)
    /\ BalancesMatchLog

\* A COMMIT moves the balances of two accounts and the sums of their entries by the
\* same amounts.
LEMMA BooksCommit ==
  ASSUME TypeOK, TransferDiscipline, HistorySound, BooksInv,
         NEW r \in Requests, pc[r] = "commit", Apply(r)
  PROVE  BooksInv'
<1> DEFINE i == Intent(r)
           C == CreditLeg(TxnId(r), i)
           D == DebitLeg(TxnId(r), i)
<1>0. Disciplined(r)
  BY DEF TransferDiscipline
<1>1. /\ i.from_account_id \in AccountIds /\ i.to_account_id \in AccountIds
      /\ i.from_account_id # i.to_account_id /\ i.amount \in Int
      /\ accounts[i.from_account_id] # None /\ accounts[i.to_account_id] # None
  BY <1>0, IntentType DEF Disciplined, RequestSound, RowsLocked, HoldsRow, InTransaction,
     Authorized
<1>2. /\ Postings(TxnId(r), i) = {C, D} /\ C # D
      /\ Signed(C) = -i.amount /\ Signed(D) = i.amount
      /\ C.account_id = i.from_account_id /\ D.account_id = i.to_account_id
      /\ C.transaction_id = TxnId(r) /\ D.transaction_id = TxnId(r)
  BY <1>1, Legs
<1>3. /\ entries' = entries \cup {C, D}
      /\ \A e \in entries : e.transaction_id # TxnId(r)
  <2>1. /\ posted[r] = Postings(TxnId(r), i)
        /\ \A e \in entries : e.transaction_id # TxnId(r)
    BY CommitFresh
  <2> HIDE DEF C, D
  <2> QED BY <1>2, <2>1 DEF Apply
<1> HIDE DEF C, D, i
<1>4. C \notin entries /\ D \notin entries
  BY <1>2, <1>3
<1>5. \A e \in entries : Signed(e) \in Int
  BY SignedType
<1>6. IsFiniteSet(entries) /\ Net(entries) = 0
  BY DEF BooksInv, GlobalSumZero
<1>7. IsFiniteSet(entries') /\ GlobalSumZero(entries')
  <2>1. entries \cap Postings(TxnId(r), i) = {} /\ entries' = entries \cup Postings(TxnId(r), i)
    BY <1>2, <1>3, <1>4
  <2> QED BY <1>1, <1>5, <1>6, <2>1, PostingsNet DEF GlobalSumZero
<1>8. \A a \in AccountIds : accounts'[a] # None <=> accounts[a] # None
  BY AppliedBalances, <1>0, NoneAssumption DEF Apply
<1>9. \A e \in entries' : accounts'[e.account_id] # None
  <2>1. \A e \in entries : e.account_id \in AccountIds /\ accounts[e.account_id] # None
    BY DEF BooksInv, TypeOK, Entry
  <2> QED BY <1>1, <1>2, <1>3, <1>8, <2>1
<1>10. ASSUME NEW a \in AccountIds, accounts'[a] # None
       PROVE  accounts'[a].balance = DerivedBalance(a, entries')
  <2> DEFINE E == {e \in entries : e.account_id = a}
             F == {e \in entries' : e.account_id = a}
  <2>1. accounts[a] # None /\ accounts[a].balance = Net(E)
    BY <1>8, <1>10 DEF BooksInv, BalancesMatchLog, BalanceMatchesEntries, DerivedBalance
  <2>2. accounts'[a].balance =
            IF a = i.from_account_id THEN accounts[a].balance - i.amount
            ELSE IF a = i.to_account_id THEN accounts[a].balance + i.amount
            ELSE accounts[a].balance
    BY <1>0, <2>1, AppliedBalances DEF i
  <2>3. F = IF a = i.from_account_id THEN E \cup {C}
            ELSE IF a = i.to_account_id THEN E \cup {D} ELSE E
    BY <1>1, <1>2, <1>3
  <2>4. /\ IsFiniteSet(E) /\ C \notin E /\ D \notin E
        /\ \A e \in E : Signed(e) \in Int
    BY <1>4, <1>5, <1>6, FS_Subset
  <2>5. Signed(C) \in Int /\ Signed(D) \in Int
    BY <1>1, <1>2
  <2> HIDE DEF E
  <2>6. /\ Net(E \cup {C}) = Net(E) + Signed(C)
        /\ Net(E \cup {D}) = Net(E) + Signed(D)
        /\ Net(E) \in Int
    BY <2>4, <2>5, NetAdd, NetType
  <2>7. Net(F) = IF a = i.from_account_id THEN Net(E) - i.amount
                 ELSE IF a = i.to_account_id THEN Net(E) + i.amount ELSE Net(E)
    <3> HIDE DEF F
    <3>1. \A x, y \in Int : x + (-y) = x - y
      OBVIOUS
    <3> QED BY <1>1, <1>2, <2>3, <2>6, <3>1
  <2> QED BY <2>1, <2>2, <2>7 DEF DerivedBalance
<1> QED BY <1>7, <1>9, <1>10 DEF BooksInv, BalancesMatchLog, BalanceMatchesEntries

\* A new account has balance 0 and no entries.
LEMMA BooksCreate ==
  ASSUME TypeOK, BooksInv, NEW b \in AccountIds, NEW c \in Currencies, NEW n \in BOOLEAN,
         CreateAccount(b, c, n)
  PROVE  BooksInv'
<1>1. /\ entries' = entries /\ accounts[b] = None /\ accounts'[b] # None
      /\ accounts'[b].balance = 0
      /\ \A a \in AccountIds \ {b} : accounts'[a] = accounts[a]
  <2>1. [currency |-> c, balance |-> 0, allows_negative_balance |-> n] \in AccountRow
    BY DEF AccountRow
  <2> QED BY <2>1, NoneAssumption DEF CreateAccount, TypeOK
<1>2. \A e \in entries : e.account_id \in AccountIds \ {b} /\ accounts[e.account_id] # None
  BY <1>1 DEF BooksInv, TypeOK, Entry
<1>3. DerivedBalance(b, entries) = 0
  <2>1. {e \in entries : e.account_id = b} = {}
    BY <1>2
  <2> QED BY <2>1, NetEmpty DEF DerivedBalance
<1>4. ASSUME NEW a \in AccountIds, accounts'[a] # None
      PROVE  accounts'[a].balance = DerivedBalance(a, entries')
  <2>1. CASE a = b
    BY <1>1, <1>3, <2>1
  <2>2. CASE a # b
    BY <1>1, <1>4, <2>2 DEF BooksInv, BalancesMatchLog, BalanceMatchesEntries
  <2> QED BY <2>1, <2>2
<1> QED BY <1>1, <1>2, <1>4 DEF BooksInv, BalancesMatchLog, BalanceMatchesEntries

\* Every step keeps the books.
LEMMA BooksStep ==
  ASSUME TypeOK, TransferDiscipline, HistorySound, BooksInv, [Next]_vars
  PROVE  BooksInv'
<1>1. CASE UNCHANGED db
  <2>1. accounts' = accounts /\ entries' = entries
    BY <1>1
  <2> QED BY <2>1 DEF BooksInv, BalancesMatchLog, BalanceMatchesEntries, GlobalSumZero
<1> QED BY <1>1, BooksCommit, BooksCreate, WritesOnlyAtCommit

\* The books are kept in every reachable state, for any number of requests,
\* accounts and keys and for every set of faults.
THEOREM BooksKept == Spec => [](BooksInv /\ LogBalanced)
<1>1. Init => BooksInv
  <2> SUFFICES ASSUME Init PROVE BooksInv
    OBVIOUS
  <2>1. entries = {} /\ accounts = SeedAccounts
    BY DEF Init
  <2>2. ASSUME NEW a \in AccountIds PROVE DerivedBalance(a, entries) = 0
    <3>1. {e \in entries : e.account_id = a} = {}
      BY <2>1
    <3> QED BY <3>1, NetEmpty DEF DerivedBalance
  <2> QED BY <2>1, <2>2, FS_EmptySet, NetEmpty, SeedAssumption
          DEF BooksInv, GlobalSumZero, BalancesMatchLog, BalanceMatchesEntries
<1>2. TypeOK /\ TransferDiscipline /\ HistorySound /\ BooksInv /\ [Next]_vars => BooksInv'
  BY BooksStep
<1>3. TypeOK /\ TransferDiscipline /\ HistorySound /\ BooksInv => LogBalanced
  BY EveryTransactionBalanced DEF LogBalanced, BooksInv
<1> QED BY <1>1, <1>2, <1>3, Discipline, HistoryAndReplies, PTL DEF Spec

\* Invariants #1 and #3: every committed transaction has its entries, they balance
\* in one currency, and the whole log nets to zero.
THEOREM LogAlwaysBalanced == Spec => []LogBalanced
  BY BooksKept, PTL

\* The materialized balances agree with the log: whatever transfers interleave, are
\* retried, time out or commit late, no update is lost and none is applied twice.
THEOREM BalancesAlwaysMatch == Spec => []BalancesMatchLog
<1>1. BooksInv => BalancesMatchLog
  BY DEF BooksInv
<1> QED BY <1>1, BooksKept, PTL

-----------------------------------------------------------------------------
(* Progress *)

\* Stages at which r may have a row lock.
Locking == {"lock_second", "check", "rollback"} \cup Authorized

\* What q holds fits where it is: its key only from its INSERT on, and a second row
\* only after the first.
Holds(q) ==
    /\ \A k \in Keys : claimedBy[k] = q =>
          pc[q] \in Claiming \cup {"rollback"} /\ k = Key(q)
    /\ \A a \in AccountIds : lockedBy[a] = q =>
          /\ pc[q] \in Locking
          /\ pc[q] = "lock_second" => a = LockOrder(Intent(q))[1]

\* The connections in use are finitely many.
WaitInv == (\A q \in Requests : Holds(q)) /\ IsFiniteSet(Connected)

\* A step of r takes nothing for another request.
LEMMA TakesForNobodyElse ==
  ASSUME TypeOK, NEW r \in Requests, NEW q \in Requests \ {r},
         Deliver(r) \/ Step(r) \/ Fault(r)
  PROVE  /\ \A k \in Keys : claimedBy'[k] = q => claimedBy[k] = q
         /\ \A a \in AccountIds : lockedBy'[a] = q => lockedBy[a] = q
         /\ pc'[q] = pc[q] /\ req'[q] = req[q]
<1> USE NoneAssumption DEF TypeOK
<1>1. ASSUME EndTransaction(r)
      PROVE  /\ \A k \in Keys : claimedBy'[k] = q => claimedBy[k] = q
             /\ \A a \in AccountIds : lockedBy'[a] = q => lockedBy[a] = q
  BY <1>1 DEF EndTransaction
<1>2. pc'[q] = pc[q] /\ req'[q] = req[q]
  BY DEF Step, Fault, Deliver, FindRecord, FindNothing, Begin, ClaimKey, ClaimCollides,
     FindWinner, Replay, LockFirst, LockSecond, FetchForUpdate, Check, AdjustFrom, AdjustTo,
     AdjustBalance, PostCredit, PostDebit, InsertEntry, Commit, GetTransaction, GetEntries,
     Rollback, LateCommit, ConflictAbort, LockTimeout, Abandon, FailStatement, RejectOpen
<1>3. CASE EndTransaction(r)
  BY <1>1, <1>2, <1>3
<1>4. CASE ~EndTransaction(r)
  BY <1>2, <1>4 DEF Step, Fault, Deliver, FindRecord, FindNothing, Begin, ClaimKey, ClaimCollides,
     FindWinner, Replay, LockFirst, LockSecond, FetchForUpdate, Check, AdjustFrom, AdjustTo,
     AdjustBalance, PostCredit, PostDebit, InsertEntry, Commit, GetTransaction, GetEntries,
     Rollback, LateCommit, ConflictAbort, LockTimeout, Abandon, FailStatement, RejectOpen
<1> QED BY <1>3, <1>4

\* What the steps of r take for r fits the stage they lead to.
LEMMA HoldsOwn ==
  ASSUME TypeOK, NEW r \in Requests, Disciplined(r), Holds(r),
         Deliver(r) \/ Step(r) \/ Fault(r)
  PROVE  Holds(r)'
<1> USE NoneAssumption DEF TypeOK, Key
<1>1. CASE EndTransaction(r)
  BY <1>1 DEF EndTransaction, Holds
<1>2. ASSUME UNCHANGED locks, req'[r] = req[r], pc'[r] = pc[r] \/ pc'[r] = "rollback"
      PROVE  Holds(r)'
  BY <1>2 DEF Holds, Locking, Intent
<1>3. ASSUME pc[r] \notin Claiming \cup {"rollback"}, UNCHANGED locks
      PROVE  Holds(r)'
  <2>1. pc[r] \notin Locking
    BY <1>3 DEF Locking, Claiming, Authorized
  <2> QED BY <1>3, <2>1 DEF Holds
<1>4. CASE Deliver(r) \/ FindRecord(r) \/ FindNothing(r) \/ Begin(r) \/ FindWinner(r)
           \/ GetTransaction(r) \/ GetEntries(r)
  BY <1>3, <1>4 DEF Deliver, FindRecord, FindNothing, Begin, FindWinner, GetTransaction,
     GetEntries, Claiming, Authorized
<1>5. CASE ClaimKey(r)
  BY <1>5 DEF ClaimKey, Holds, Locking, Claiming, Authorized
<1>6. ASSUME NEW o, RejectOpen(r, o) PROVE Holds(r)'
  BY <1>2, <1>6 DEF RejectOpen
<1>7. CASE LockFirst(r)
  <2>1. CASE RejectOpen(r, "account_not_found")
    BY <1>6, <2>1
  <2>2. CASE ~RejectOpen(r, "account_not_found")
    <3>1. Intent(r)' = Intent(r) /\ pc[r] = "lock_first" /\ pc'[r] = "lock_second"
      BY <1>7, <2>2 DEF LockFirst, FetchForUpdate, Intent
    <3> QED BY <1>7, <2>2, <3>1 DEF LockFirst, FetchForUpdate, Holds, Locking, Claiming, Authorized
  <2> QED BY <2>1, <2>2
<1>8. CASE LockSecond(r)
  <2>1. CASE RejectOpen(r, "account_not_found")
    BY <1>6, <2>1
  <2>2. CASE ~RejectOpen(r, "account_not_found")
    BY <1>8, <2>2 DEF LockSecond, FetchForUpdate, Holds, Locking, Claiming, Authorized
  <2> QED BY <2>1, <2>2
<1>9. CASE Check(r)
  <2>1. CASE \E o \in Rejections : RejectOpen(r, o)
    BY <1>6, <2>1
  <2>2. CASE ~\E o \in Rejections : RejectOpen(r, o)
    BY <1>9, <2>2 DEF Check, Rejections, Holds, Locking, Claiming, Authorized
  <2> QED BY <2>1, <2>2
<1>10. CASE (AdjustFrom(r) \/ AdjustTo(r)) /\ ~EndTransaction(r)
  BY <1>10 DEF AdjustFrom, AdjustTo, AdjustBalance, FailStatement, Holds, Locking, Claiming,
     Authorized
<1>11. CASE (PostCredit(r) \/ PostDebit(r)) /\ ~EndTransaction(r)
  BY <1>11 DEF PostCredit, PostDebit, InsertEntry, FailStatement, Holds, Locking, Claiming,
     Authorized
<1>12. CASE Abandon(r) /\ pc[r] \in InTransaction
  BY <1>2, <1>12 DEF Abandon
<1>13. CASE Abandon(r) /\ pc[r] \notin InTransaction
  BY <1>3, <1>13 DEF Abandon, InTransaction, Claiming, Authorized
<1> QED
  BY <1>1, <1>4, <1>5, <1>7, <1>8, <1>9, <1>10, <1>11, <1>12, <1>13
     DEF Step, Fault, ClaimCollides, Commit, FailStatement, Rollback, LateCommit, ConflictAbort,
         LockTimeout

\* Only BEGIN takes a connection for a transaction, and only one that is free.
LEMMA ConnectedStep ==
  ASSUME TypeOK, TransferDiscipline, IsFiniteSet(Connected), [Next]_vars
  PROVE  IsFiniteSet(Connected)'
<1>1. ASSUME NEW r \in Requests, Deliver(r) \/ Step(r) \/ Fault(r)
      PROVE  IsFiniteSet(Connected)'
  <2>1. Connected' \subseteq Connected \cup {r}
    BY <1>1, TakesForNobodyElse DEF Connected
  <2>2. IsFiniteSet(Connected \cup {r})
    BY FS_AddElement
  <2> QED BY <2>1, <2>2, FS_Subset
<1>2. CASE UNCHANGED pc
  BY <1>2 DEF Connected
<1> QED BY <1>1, <1>2 DEF Next, AllServed, vars, CreateAccount

\* Every step keeps what is known of waiting.
LEMMA WaitStep ==
  ASSUME TypeOK, TransferDiscipline, WaitInv, [Next]_vars
  PROVE  WaitInv'
<1>1. ASSUME NEW q \in Requests PROVE Holds(q)'
  <2>0. Holds(q)
    BY DEF WaitInv
  <2>1. ASSUME NEW r \in Requests, Deliver(r) \/ Step(r) \/ Fault(r)
        PROVE  Holds(q)'
    <3>1. CASE q = r
      BY <2>0, <2>1, <3>1, HoldsOwn DEF TransferDiscipline
    <3>2. CASE q # r
      BY <2>0, <2>1, <3>2, TakesForNobodyElse DEF Holds, Intent, Key
    <3> QED BY <3>1, <3>2
  <2>2. CASE UNCHANGED <<claimedBy, lockedBy, pc, req>>
    BY <2>0, <2>2 DEF Holds, Intent, Key
  <2> QED BY <2>1, <2>2 DEF Next, AllServed, vars, CreateAccount
<1> QED BY <1>1, ConnectedStep DEF WaitInv

\* Before the first request nothing is held.
LEMMA WaitInitially == Init => WaitInv
<1> SUFFICES ASSUME Init PROVE WaitInv
  OBVIOUS
<1>1. Connected = {}
  BY DEF Init, Connected, InTransaction
<1> QED BY <1>1, FS_EmptySet, NoneAssumption DEF Init, WaitInv, Holds
-----------------------------------------------------------------------------
(* No circle *)

\* A finite set has an element where f is highest.
LEMMA Highest ==
  ASSUME NEW T, IsFiniteSet(T), T # {}, NEW f \in [T -> Nat]
  PROVE  \E m \in T : \A n \in T : f[n] <= f[m]
<1> DEFINE Top(s, m) == m \in s /\ \A n \in s : f[n] <= f[m]
           Z == {s \in SUBSET T : s # {} /\ ~\E m : Top(s, m)}
<1> SUFFICES ASSUME Z # {} PROVE FALSE
  OBVIOUS
<1>1. FiniteFamily(Z, T)
  BY FS_Subset DEF FiniteFamily
<1>2. \E s : Smallest(s, Z)
  <2> HIDE DEF Z
  <2> QED BY <1>1, SmallestFinite
<1>3. PICK s \in Z : \A u \in Z : u \subseteq s => u = s
  BY <1>2 DEF Smallest
<1>4. PICK x \in s : TRUE
  OBVIOUS
<1> DEFINE u == s \ {x}
<1>5. u \notin Z /\ u \in SUBSET T
  BY <1>3, <1>4
<1>6. CASE u = {}
  <2>1. s = {x} /\ f[x] \in Nat
    BY <1>4, <1>6
  <2>2. Top(s, x)
    BY <2>1
  <2> QED BY <2>2
<1>7. CASE u # {}
  <2>1. PICK m : Top(u, m)
    BY <1>5, <1>7
  <2>2. \A n \in s : f[n] \in Nat
    OBVIOUS
  <2>3. CASE f[x] <= f[m]
    <3>1. Top(s, m)
      BY <1>4, <2>1, <2>3
    <3> QED BY <3>1
  <2>4. CASE ~(f[x] <= f[m])
    <3>1. \A n \in u : f[n] <= f[x]
      BY <1>4, <2>1, <2>2, <2>4
    <3>2. Top(s, x)
      BY <1>4, <2>2, <3>1
    <3> QED BY <3>2
  <2> QED BY <2>3, <2>4
<1> QED BY <1>6, <1>7

\* Lock order is ascending, so that a request that waits for its second row has a
\* lower one.
LEMMA Ascending ==
  ASSUME TypeOK, NEW r \in Requests, Disciplined(r), pc[r] \in InTransaction
  PROVE  LET o == LockOrder(Intent(r))
         IN o[1] \in AccountIds /\ o[2] \in AccountIds /\ o[1] \in Nat /\ o[2] \in Nat /\ o[1] < o[2]
<1>1. /\ Intent(r).from_account_id \in AccountIds /\ Intent(r).to_account_id \in AccountIds
      /\ Intent(r).from_account_id # Intent(r).to_account_id
  BY IntentType DEF Disciplined, RequestSound, InTransaction
<1> DEFINE i == Intent(r)
           o == LockOrder(i)
<1>2. i.from_account_id \in Nat /\ i.to_account_id \in Nat
  BY <1>1, AccountIdsAssumption
<1>3. CASE i.from_account_id <= i.to_account_id
  <2>1. o[1] = i.from_account_id /\ o[2] = i.to_account_id
    BY <1>3 DEF LockOrder
  <2>2. i.from_account_id < i.to_account_id
    BY <1>1, <1>2, <1>3
  <2> QED BY <1>1, <1>2, <2>1, <2>2
<1>4. CASE ~(i.from_account_id <= i.to_account_id)
  <2>1. o[1] = i.to_account_id /\ o[2] = i.from_account_id
    BY <1>4 DEF LockOrder
  <2>2. i.to_account_id < i.from_account_id
    BY <1>2, <1>4
  <2> QED BY <1>1, <1>2, <2>1, <2>2
<1> QED BY <1>3, <1>4

\* A request that waits for a lock is at one of three statements, and another has
\* what it needs: the two UPDATEs find their rows locked by their own transaction.
LEMMA LockWaiter ==
  ASSUME TypeOK, NEW r \in Requests, Disciplined(r), LockBlockers(r) # {}
  PROVE  pc[r] \in {"claim", "lock_first", "lock_second"}
  BY DEF LockBlockers, Disciplined, RowsLocked, HoldsRow, Authorized

\* The heart of the matter: some member of any set of requests waits for nobody,
\* or for somebody outside the set.
LEMMA NoCircle ==
  ASSUME TypeOK, TransferDiscipline, WaitInv
  PROVE  NoWaitCycle
<1> SUFFICES ASSUME NEW S \in (SUBSET Requests) \ {{}},
                    \A r \in S : Blockers(r) # {} /\ Blockers(r) \subseteq S
             PROVE  FALSE
  BY DEF NoWaitCycle
<1> USE DEF TransferDiscipline
<1> DEFINE second(r) == LockOrder(Intent(r))[2]
           T == {r \in S : pc[r] = "lock_second"}
<1>1. ASSUME NEW r \in S, pc[r] \notin OnPool
      PROVE  /\ LockBlockers(r) # {} /\ LockBlockers(r) \subseteq S
             /\ pc[r] \in {"claim", "lock_first", "lock_second"}
  BY <1>1, LockWaiter DEF Blockers
<1>2. ASSUME NEW q \in S, pc[q] \in Locking PROVE q \in T
  BY <1>1, <1>2 DEF Locking, Authorized, OnPool
<1>3. ASSUME NEW r \in S, pc[r] \in {"lock_first", "lock_second"} PROVE T # {}
  <2>1. PICK q \in LockBlockers(r) : q \in S
    BY <1>1, <1>3 DEF OnPool
  <2>2. \E a \in AccountIds : lockedBy[a] = q
    BY <1>3, <2>1, Ascending DEF LockBlockers, InTransaction
  <2>3. pc[q] \in Locking
    BY <2>1, <2>2 DEF WaitInv, Holds
  <2> QED BY <1>2, <2>1, <2>3
<1>4. ASSUME NEW r \in S, pc[r] \notin OnPool PROVE T # {}
  <2>1. CASE pc[r] = "claim"
    <3>1. PICK q \in LockBlockers(r) : q \in S
      BY <1>1, <1>4
    <3>2. claimedBy[Key(r)] = q /\ Key(r) \in Keys
      BY <2>1, <3>1, IntentType DEF LockBlockers, Disciplined
    <3>3. pc[q] \in Claiming \cup {"rollback"}
      BY <3>1, <3>2 DEF WaitInv, Holds
    <3>4. pc[q] \in {"lock_first", "lock_second"}
      BY <1>1, <3>1, <3>3 DEF Claiming, Authorized, OnPool
    <3> QED BY <1>3, <3>1, <3>4
  <2> QED BY <1>1, <1>3, <1>4, <2>1
<1>5. T # {}
  <2>1. PICK r \in S : TRUE
    OBVIOUS
  <2>2. CASE pc[r] \in OnPool
    <3>1. PICK q \in S : q \in Connected
      BY <2>1, <2>2 DEF Blockers
    <3>2. pc[q] \notin OnPool
      BY <3>1 DEF Connected, InTransaction, OnPool
    <3> QED BY <1>4, <3>2
  <2> QED BY <1>4, <2>1, <2>2
<1>6. IsFiniteSet(T)
  <2>1. T \subseteq Connected
    BY DEF Connected, InTransaction
  <2> QED BY <2>1, FS_Subset DEF WaitInv
<1>7. ASSUME NEW r \in T
      PROVE  /\ second(r) \in Nat
             /\ \E q \in T : second(r) < second(q)
  <2>1. second(r) \in AccountIds /\ second(r) \in Nat
    BY Ascending DEF InTransaction
  <2>2. PICK q \in LockBlockers(r) : q \in S
    BY <1>1 DEF OnPool
  <2>3. lockedBy[second(r)] = q
    BY <2>2 DEF LockBlockers
  <2>4. /\ pc[q] \in Locking
        /\ pc[q] = "lock_second" => second(r) = LockOrder(Intent(q))[1]
    BY <2>1, <2>3, <2>2 DEF WaitInv, Holds
  <2>5. q \in T
    BY <1>2, <2>2, <2>4
  <2>6. LockOrder(Intent(q))[1] < second(q)
    BY <2>5, Ascending DEF InTransaction
  <2> QED BY <2>1, <2>4, <2>5, <2>6
<1> DEFINE f == [r \in T |-> second(r)]
<1>8. f \in [T -> Nat]
  BY <1>7
<1>9. PICK m \in T : \A n \in T : f[n] <= f[m]
  <2> HIDE DEF T, f
  <2> QED BY <1>5, <1>6, <1>8, Highest
<1>10. PICK q \in T : second(m) < second(q)
  BY <1>7
<1>11. second(q) <= second(m) /\ second(q) \in Nat /\ second(m) \in Nat
  BY <1>7, <1>9
<1> HIDE DEF second
<1> QED BY <1>10, <1>11

\* Who waits for whom never closes a circle, for any number of requests, accounts,
\* keys and connections: lock_order's sort and the single connection of a transfer
\* exclude deadlock, in the database and around the pool.
THEOREM NobodyWaitsInACircle == Spec => []NoWaitCycle
<1>1. TypeOK /\ TransferDiscipline /\ WaitInv /\ [Next]_vars => WaitInv'
  BY WaitStep
<1>2. TypeOK /\ TransferDiscipline /\ WaitInv => NoWaitCycle
  BY NoCircle
<1> QED BY <1>1, <1>2, WaitInitially, Discipline, PTL DEF Spec
-----------------------------------------------------------------------------
(* No error of the server's own making *)

\* No amount exceeds A, and a transfer of A for every key there is fits the balance
\* column: NUMERIC(20, 8) is wide enough for the traffic.
Roomy(A) ==
    /\ A \in Nat /\ IsFiniteSet(Keys)
    /\ \A in \in Inputs : in.intent.amount <= A
    /\ A * Cardinality(Keys) < MaxMagnitude

\* A balance has moved by at most A with each committed transaction.
BalancesWithin(A) ==
    LET reach == A * Cardinality(transactions)
    IN \A a \in AccountIds : accounts[a] # None =>
           -reach <= accounts[a].balance /\ accounts[a].balance <= reach

\* There are no more transactions than keys, and fewer while a key is unused.
LEMMA KeysLeft ==
  ASSUME TypeOK, OneTransactionPerKey, IsFiniteSet(Keys)
  PROVE  /\ IsFiniteSet(transactions)
         /\ \A k \in Keys : Recorded(k) = {} => Cardinality(transactions) + 1 <= Cardinality(Keys)
<1> DEFINE f == [t \in transactions |-> t.idempotency_key]
<1>1. ASSUME NEW K \in SUBSET Keys, \A t \in transactions : t.idempotency_key \in K
      PROVE  IsFiniteSet(transactions) /\ Cardinality(transactions) <= Cardinality(K)
  <2>1. IsFiniteSet(K)
    BY FS_Subset
  <2>2. f \in Injection(transactions, K)
    BY <1>1 DEF Injection, IsInjective, OneTransactionPerKey, KeysUnique
  <2> HIDE DEF f
  <2> QED BY <2>1, <2>2, FS_Injection
<1>2. \A t \in transactions : t.idempotency_key \in Keys
  BY DEF TypeOK, TransactionRow
<1>3. IsFiniteSet(transactions)
  BY <1>1, <1>2
<1>4. ASSUME NEW k \in Keys, Recorded(k) = {}
      PROVE  Cardinality(transactions) + 1 <= Cardinality(Keys)
  <2>1. \A t \in transactions : t.idempotency_key \in Keys \ {k}
    BY <1>2, <1>4 DEF Recorded
  <2>2. Cardinality(transactions) <= Cardinality(Keys \ {k})
    BY <1>1, <2>1
  <2>3. Cardinality(Keys \ {k}) = Cardinality(Keys) - 1
    BY FS_RemoveElement
  <2>4. Cardinality(Keys) \in Nat /\ Cardinality(transactions) \in Nat
    BY <1>3, FS_CardinalityType
  <2> QED BY <2>2, <2>3, <2>4
<1> QED BY <1>3, <1>4

\* One more transaction leaves every balance within reach of the keys in use.
LEMMA Reach ==
  ASSUME NEW A \in Nat, NEW n \in Nat, NEW b \in Int, NEW x \in Int,
         -(A * n) <= b, b <= A * n, 0 < x, x <= A
  PROVE  /\ -(A * (n + 1)) <= b /\ b <= A * (n + 1)
         /\ -(A * (n + 1)) <= b - x /\ b - x <= A * (n + 1)
         /\ -(A * (n + 1)) <= b + x /\ b + x <= A * (n + 1)
<1>1. A * (n + 1) = A * n + A /\ A * n \in Nat
  OBVIOUS
<1> QED BY <1>1

\* While its key is claimed, a transfer finds room in both balances.
LEMMA RoomLeft ==
  ASSUME NEW A, Roomy(A), TypeOK, OneTransactionPerKey, BalancesWithin(A),
         NEW r \in Requests, Disciplined(r), pc[r] \in Claiming,
         NEW a \in AccountIds, accounts[a] # None
  PROVE  LET reach == A * (Cardinality(transactions) + 1)
             b == accounts[a].balance
             x == Intent(r).amount
         IN /\ -reach <= b /\ b <= reach
            /\ -reach <= b - x /\ b - x <= reach
            /\ -reach <= b + x /\ b + x <= reach
            /\ Representable(b - x) /\ Representable(b + x)
<1> DEFINE n == Cardinality(transactions)
           m == Cardinality(Keys)
           b == accounts[a].balance
           x == Intent(r).amount
<1>1. Key(r) \in Keys /\ req[r] \in Inputs /\ x \in Int
  BY IntentType DEF Disciplined, Claiming, Authorized
<1>2. 0 < x /\ x <= A
  BY <1>1 DEF Disciplined, RequestSound, Claiming, Authorized, InTransaction, Roomy, Intent
<1>3. IsFiniteSet(transactions) /\ n + 1 <= m
  BY <1>1, KeysLeft DEF Disciplined, KeyClaimed, Roomy
<1>4. n \in Nat /\ m \in Nat
  BY <1>3, FS_CardinalityType DEF Roomy
<1>5. A \in Nat /\ A * m < MaxMagnitude /\ MaxMagnitude \in Nat
  BY MagnitudeAssumption DEF Roomy
<1>6. b \in Int /\ -(A * n) <= b /\ b <= A * n
  BY DEF TypeOK, AccountRow, BalancesWithin
<1> HIDE DEF n, m, b, x
<1>7. /\ -(A * (n + 1)) <= b /\ b <= A * (n + 1)
      /\ -(A * (n + 1)) <= b - x /\ b - x <= A * (n + 1)
      /\ -(A * (n + 1)) <= b + x /\ b + x <= A * (n + 1)
  BY <1>1, <1>2, <1>4, <1>5, <1>6, Reach
<1>8. A * (n + 1) <= A * m
  BY <1>3, <1>4, <1>5
<1>9. A * (n + 1) \in Int /\ A * m \in Int
  BY <1>4, <1>5
<1>10. Representable(b - x) /\ Representable(b + x)
  BY <1>1, <1>5, <1>6, <1>7, <1>8, <1>9 DEF Representable
<1> QED BY <1>7, <1>10 DEF n, b, x

\* Balances stay within reach of the committed transactions.
LEMMA WithinStep ==
  ASSUME NEW A, Roomy(A), TypeOK, TransferDiscipline, OneTransactionPerKey,
         BalancesWithin(A), [Next]_vars
  PROVE  BalancesWithin(A)'
<1>1. IsFiniteSet(transactions)
  BY KeysLeft DEF Roomy
<1>2. CASE UNCHANGED db
  BY <1>2 DEF BalancesWithin
<1>3. ASSUME NEW r \in Requests, pc[r] = "commit", Apply(r)
      PROVE  BalancesWithin(A)'
  <2>1. Disciplined(r) /\ pc[r] \in Claiming
    BY <1>3 DEF TransferDiscipline, Claiming, Authorized
  <2> DEFINE t == [id |-> TxnId(r), idempotency_key |-> Key(r),
                   request_hash |-> RequestHash(Intent(r))]
  <2>2. transactions' = transactions \cup {t} /\ t \notin transactions
    BY <1>3, <2>1 DEF Apply, Disciplined, KeyClaimed, Recorded
  <2>3. Cardinality(transactions') = Cardinality(transactions) + 1
    <3> HIDE DEF t
    <3> QED BY <1>1, <2>2, FS_AddElement
  <2>4. \A a \in AccountIds : accounts'[a] # None => accounts[a] # None
    BY <1>3 DEF Apply
  <2>5. ASSUME NEW a \in AccountIds, accounts[a] # None
        PROVE  LET reach == A * (Cardinality(transactions) + 1)
               IN -reach <= accounts'[a].balance /\ accounts'[a].balance <= reach
    BY <1>3, <2>1, <2>5, AppliedBalances, RoomLeft
  <2> QED BY <2>3, <2>4, <2>5 DEF BalancesWithin
<1>4. ASSUME NEW b \in AccountIds, NEW c \in Currencies, NEW m \in BOOLEAN,
             CreateAccount(b, c, m)
      PROVE  BalancesWithin(A)'
  <2>1. transactions' = transactions
    BY <1>4 DEF CreateAccount
  <2>2. A \in Nat /\ Cardinality(transactions) \in Nat
    BY <1>1, FS_CardinalityType DEF Roomy
  <2>3. A * Cardinality(transactions) \in Nat
    BY <2>2
  <2>4. \A a \in AccountIds : accounts'[a] = accounts[a] \/ accounts'[a].balance = 0
    BY <1>4 DEF CreateAccount, TypeOK
  <2> QED BY <2>1, <2>3, <2>4 DEF BalancesWithin
<1> QED BY <1>2, <1>3, <1>4, WritesOnlyAtCommit

\* Without a fault no statement of r fails for a reason of the server's own: the
\* UPDATEs stay in range, the trigger on entries finds account and currency in
\* order, and the postings balance at COMMIT.
LEMMA NoOwnError ==
  ASSUME NEW A, Roomy(A), Faults = {}, TypeOK, OneTransactionPerKey, BalancesWithin(A),
         NEW r \in Requests, Disciplined(r), answer[r] # "internal_error",
         Deliver(r) \/ Step(r) \/ Fault(r)
  PROVE  answer'[r] # "internal_error"
<1>1. answer \in [Requests -> Outcomes \cup {None}] /\ "internal_error" # None
  BY OutcomeAssumption DEF TypeOK, Outcomes, Unknown
<1>2. ASSUME NEW o, o # "internal_error", FailStatement(r, o) \/ RejectOpen(r, o)
      PROVE  answer'[r] # "internal_error"
  BY <1>1, <1>2 DEF FailStatement, RejectOpen
<1>3. CASE answer' = answer
  BY <1>3
<1>4. ASSUME NEW a \in AccountIds, NEW d, NEW s, pc[r] \in Authorized,
             accounts[a] # None, Representable(accounts[a].balance + delta[r][a] + d),
             AdjustBalance(r, a, d, s)
      PROVE  answer'[r] # "internal_error"
  <2>1. accounts[a] \in AccountRow
    BY <1>4 DEF TypeOK
  <2>2. [accounts[a] EXCEPT !.balance = @ + delta[r][a] + d].balance
            = accounts[a].balance + delta[r][a] + d
    BY <2>1 DEF AccountRow
  <2>3. FailStatement(r, "insufficient_funds") \/ answer' = answer
    BY <1>4, <2>2 DEF AdjustBalance
  <2> QED BY <1>2, <1>3, <2>3
<1>5. CASE AdjustFrom(r)
  <2> DEFINE a == Intent(r).from_account_id
  <2>1. pc[r] \in Authorized /\ pc[r] \in Claiming /\ pc[r] = "adjust_from"
    BY <1>5 DEF AdjustFrom, Authorized, Claiming
  <2>2. a \in AccountIds /\ Intent(r).amount \in Int
    BY <2>1, IntentType DEF Disciplined
  <2>3. accounts[a] # None /\ accounts[a].balance \in Int
    BY <2>1, <2>2 DEF Disciplined, RowsLocked, HoldsRow, TypeOK, AccountRow
  <2>4. delta[r][a] = 0
    BY <2>1, <2>2 DEF Disciplined, WritesExpected, ExpectedDelta, AfterDebit, AfterCredit,
       Authorized
  <2>5. Representable(accounts[a].balance - Intent(r).amount)
    BY <2>1, <2>2, <2>3, RoomLeft
  <2>6. accounts[a].balance + delta[r][a] + (-Intent(r).amount)
            = accounts[a].balance - Intent(r).amount
    BY <2>2, <2>3, <2>4
  <2> QED BY <1>4, <1>5, <2>1, <2>2, <2>3, <2>5, <2>6 DEF AdjustFrom
<1>6. CASE AdjustTo(r)
  <2> DEFINE a == Intent(r).to_account_id
  <2>1. pc[r] \in Authorized /\ pc[r] \in Claiming /\ pc[r] = "adjust_to"
    BY <1>6 DEF AdjustTo, Authorized, Claiming
  <2>2. a \in AccountIds /\ Intent(r).amount \in Int /\ a # Intent(r).from_account_id
    BY <2>1, IntentType DEF Disciplined, RequestSound, InTransaction
  <2>3. accounts[a] # None /\ accounts[a].balance \in Int
    BY <2>1, <2>2 DEF Disciplined, RowsLocked, HoldsRow, TypeOK, AccountRow
  <2>4. delta[r][a] = 0
    BY <2>1, <2>2 DEF Disciplined, WritesExpected, ExpectedDelta, AfterDebit, AfterCredit,
       Authorized
  <2>5. Representable(accounts[a].balance + Intent(r).amount)
    BY <2>1, <2>2, <2>3, RoomLeft
  <2>6. accounts[a].balance + delta[r][a] + Intent(r).amount
            = accounts[a].balance + Intent(r).amount
    BY <2>2, <2>3, <2>4
  <2> QED BY <1>4, <1>6, <2>1, <2>2, <2>3, <2>5, <2>6 DEF AdjustTo
<1>7. CASE PostCredit(r) \/ PostDebit(r)
  <2>1. pc[r] \in {"post_credit", "post_debit"} /\ pc[r] \in Authorized
    BY <1>7 DEF PostCredit, PostDebit, Authorized
  <2>2. /\ Intent(r).amount > 0 /\ Representable(Intent(r).amount)
        /\ accounts[Intent(r).from_account_id] # None
        /\ accounts[Intent(r).to_account_id] # None
        /\ accounts[Intent(r).from_account_id].currency = Intent(r).currency
        /\ accounts[Intent(r).to_account_id].currency = Intent(r).currency
    BY <2>1, IntentType DEF Disciplined, RequestSound, RowsLocked, HoldsRow, StillAuthorized,
       InTransaction
  <2>3. answer' = answer
    BY <1>7, <2>2 DEF PostCredit, PostDebit, InsertEntry, EntryAllowed
  <2> QED BY <1>3, <2>3
<1>8. CASE Commit(r)
  <2>1. pc[r] = "commit" /\ Intent(r).amount \in Int
    BY <1>8, IntentType DEF Commit, Disciplined
  <2>2. posted[r] = Postings(TxnId(r), Intent(r))
    BY <2>1 DEF Disciplined, WritesExpected, ExpectedPosted
  <2>3. TransactionBalanced(posted[r])
    BY <2>1, <2>2, PostingsBalanced
  <2>4. answer' = answer
    BY <1>8, <2>3 DEF Commit
  <2> QED BY <1>3, <2>4
<1>9. CASE GetEntries(r)
  <2>1. result[r].outcome \in Successes \cup {None}
    BY DEF TypeOK, Results
  <2> QED BY <1>1, <1>9, <2>1 DEF GetEntries, Successes
<1>10. ~Fault(r)
  BY DEF Fault, ConflictAbort, LockTimeout, Abandon
<1>11. CASE Deliver(r) \/ Begin(r) \/ ClaimKey(r) \/ ClaimCollides(r) \/ Rollback(r) \/ LateCommit(r)
  BY <1>3, <1>11 DEF Deliver, Begin, ClaimKey, ClaimCollides, Rollback, LateCommit
<1>12. CASE FindRecord(r) \/ FindNothing(r) \/ FindWinner(r) \/ GetTransaction(r)
  BY <1>1, <1>12 DEF FindRecord, FindNothing, FindWinner, GetTransaction, Replay
<1>13. CASE LockFirst(r) \/ LockSecond(r) \/ Check(r)
  BY <1>2, <1>3, <1>13 DEF LockFirst, LockSecond, FetchForUpdate, Check
<1> QED BY <1>5, <1>6, <1>7, <1>8, <1>9, <1>10, <1>11, <1>12, <1>13 DEF Step

\* The answer of any other request is left alone.
LEMMA ErrorOnlyOwn ==
  ASSUME TypeOK, NEW r \in Requests, NEW q \in Requests \ {r},
         Deliver(r) \/ Step(r) \/ Fault(r)
  PROVE  answer'[q] = answer[q]
  BY DEF TypeOK, Step, Fault, Deliver, FindRecord, FindNothing, Begin, ClaimKey, ClaimCollides,
     FindWinner, Replay, LockFirst, LockSecond, FetchForUpdate, Check, AdjustFrom, AdjustTo,
     AdjustBalance, PostCredit, PostDebit, InsertEntry, Commit, GetTransaction, GetEntries,
     Rollback, LateCommit, ConflictAbort, LockTimeout, Abandon, FailStatement, RejectOpen

\* Where nothing fails around it, the server itself fails nobody, for any number of
\* requests and accounts: as long as the amounts and keys together fit the balance
\* column, every transfer is created, replayed or refused with a typed error.
THEOREM NoErrorWithoutFault ==
  ASSUME NEW A, Roomy(A), Faults = {}
  PROVE  Spec => []NoInternalError
<1> DEFINE Inv == BalancesWithin(A) /\ NoInternalError
<1>1. Init => Inv
  <2> SUFFICES ASSUME Init PROVE Inv
    OBVIOUS
  <2>1. A * Cardinality(transactions) = 0
    BY FS_EmptySet DEF Init, Roomy
  <2>2. BalancesWithin(A)
    BY <2>1, SeedAssumption DEF Init, BalancesWithin
  <2>3. NoInternalError
    BY OutcomeAssumption DEF Init, NoInternalError, Outcomes, Unknown
  <2> QED BY <2>2, <2>3
<1>2. TypeOK /\ TransferDiscipline /\ OneTransactionPerKey /\ Inv /\ [Next]_vars => Inv'
  <2> SUFFICES ASSUME TypeOK, TransferDiscipline, OneTransactionPerKey, Inv, [Next]_vars
               PROVE  Inv'
    OBVIOUS
  <2>1. BalancesWithin(A)'
    BY WithinStep
  <2>2. ASSUME NEW q \in Requests PROVE answer'[q] # "internal_error"
    <3>1. answer[q] # "internal_error" /\ Disciplined(q)
      BY DEF NoInternalError, TransferDiscipline
    <3>2. ASSUME NEW r \in Requests, Deliver(r) \/ Step(r) \/ Fault(r)
          PROVE  answer'[q] # "internal_error"
      <4>1. CASE q = r
        BY <3>1, <3>2, <4>1, NoOwnError
      <4>2. CASE q # r
        BY <3>1, <3>2, <4>2, ErrorOnlyOwn
      <4> QED BY <4>1, <4>2
    <3>3. CASE answer' = answer
      BY <3>1, <3>3
    <3> QED BY <3>2, <3>3 DEF Next, AllServed, vars, CreateAccount
  <2> QED BY <2>1, <2>2 DEF NoInternalError
<1> HIDE DEF Inv
<1>3. Inv => NoInternalError
  BY DEF Inv
<1> QED BY <1>1, <1>2, <1>3, Discipline, KeysUsedOnce, PTL DEF Spec
=============================================================================
