-------------------------- MODULE TransfersProofs --------------------------
(***************************************************************************)
(* Safety of the transfer path for every number of requests, accounts and  *)
(* keys, for every set of faults, with or without the balance CHECK.       *)
(*                                                                         *)
(* The inductive invariant is TypeOK /\ TransferDiscipline.  A step of r   *)
(* splits in two: what it does to the other requests (Others, Frame) and   *)
(* what it does to r itself (the Own lemmas, one per kind of statement).   *)
(***************************************************************************)
EXTENDS Transfers, TLAPS

USE DEF At, Goto, Answer, Conclude, db, locks, work

\* A request that has arrived carries one of the inputs: the ids, the amount, the
\* key, the fingerprint and the transaction id built from it have their types.
LEMMA IntentType ==
  ASSUME TypeOK, NEW r \in Requests, RequestSound(r), pc[r] # "idle"
  PROVE  /\ req[r] \in Inputs
         /\ Key(r) \in Keys
         /\ Intent(r) \in TransferIntent
         /\ Intent(r).from_account_id \in AccountIds
         /\ Intent(r).to_account_id \in AccountIds
         /\ Intent(r).amount \in Int
         /\ Intent(r).currency \in Currencies
         /\ Representable(Intent(r).amount)
         /\ TxnId(r) \in TransactionId
         /\ RequestHash(Intent(r)) \in RequestHashes
  BY InputsAssumption DEF TypeOK, RequestSound, Key, Intent, TransferIntent, TxnId,
     TransactionId, RequestHash, RequestHashes

\* Sorting lock_order permutes the two account ids of the intent.
LEMMA LockOrderType ==
  ASSUME TypeOK, NEW r \in Requests, RequestSound(r), pc[r] # "idle"
  PROVE  LET i == Intent(r)
             first == LockOrder(i)[1]
             second == LockOrder(i)[2]
         IN \/ first = i.from_account_id /\ second = i.to_account_id
            \/ first = i.to_account_id /\ second = i.from_account_id
  BY IntentType DEF LockOrder

\* What a step of some other request leaves alone.
Untouched(q) ==
  /\ pc'[q] = pc[q]
  /\ req'[q] = req[q]
  /\ attempt'[q] = attempt[q]
  /\ delta'[q] = delta[q]
  /\ posted'[q] = posted[q]
  /\ locked'[q] = locked[q]
  /\ \A k \in Keys : claimedBy[k] = q => claimedBy'[k] = q
  /\ \A a \in AccountIds : lockedBy[a] = q => /\ lockedBy'[a] = q
                                              /\ accounts[a] # None => accounts'[a] = accounts[a]
  /\ \A t \in transactions' \ transactions : claimedBy[t.idempotency_key] # q

\* A request that a step leaves untouched keeps its discipline.
LEMMA Frame ==
  ASSUME TypeOK, NEW q \in Requests, Disciplined(q), Untouched(q)
  PROVE  Disciplined(q)'
<1> USE DEF Disciplined, Untouched
<1>0. Intent(q)' = Intent(q) /\ Key(q)' = Key(q) /\ TxnId(q)' = TxnId(q)
  BY DEF Intent, Key, TxnId
<1>a. CASE pc[q] = "idle"
  BY <1>a, <1>0 DEF RequestSound, KeyClaimed, RowsLocked, StillAuthorized, WritesExpected,
     ExpectedDelta, ExpectedPosted, Claiming, Authorized, AfterDebit, AfterCredit, InTransaction
<1>b. CASE pc[q] # "idle"
  <2>1. RequestSound(q)'
    BY <1>0 DEF RequestSound
  <2>2. KeyClaimed(q)'
    BY <1>0, <1>b, IntentType DEF KeyClaimed, Recorded
  <2>3. RowsLocked(q)'
    BY <1>0, <1>b, IntentType, LockOrderType DEF RowsLocked, HoldsRow
  <2>4. StillAuthorized(q)'
    BY <1>0, <1>b, IntentType DEF StillAuthorized, RowsLocked, HoldsRow, Authorized, AfterDebit, AfterCredit
  <2>5. WritesExpected(q)'
    BY <1>0 DEF WritesExpected, ExpectedDelta, ExpectedPosted
  <2> QED BY <2>1, <2>2, <2>3, <2>4, <2>5
<1> QED BY <1>a, <1>b

\* When r's transaction ends without a commit, no other request notices.
LEMMA EndUntouched ==
  ASSUME TypeOK, NEW r \in Requests, NEW q \in Requests \ {r},
         NEW s, EndTransaction(r), Goto(r, s), UNCHANGED <<db, req>>,
         attempt'[q] = attempt[q]
  PROVE  Untouched(q)
  BY DEF Untouched, EndTransaction, TypeOK

\* When r's transaction ends without a commit, r is left with nothing to keep.
LEMMA OwnEnd ==
  ASSUME TypeOK, NEW r \in Requests, Disciplined(r),
         NEW s \in {"find", "find_winner", "done"},
         pc[r] # "idle",
         EndTransaction(r), Goto(r, s), UNCHANGED <<db, req>>
  PROVE  Disciplined(r)'
  BY IntentType DEF Disciplined, RequestSound, KeyClaimed, RowsLocked, StillAuthorized, WritesExpected, ExpectedDelta,
     ExpectedPosted, EndTransaction, TypeOK, InTransaction, Claiming, Authorized, AfterDebit, AfterCredit

-----------------------------------------------------------------------------

\* At COMMIT r changes only rows it has locked, under a key it has claimed.
LEMMA CommitDelta ==
  ASSUME TypeOK, NEW r \in Requests, Disciplined(r), pc[r] = "commit"
  PROVE  /\ \A a \in AccountIds : delta[r][a] # 0 => lockedBy[a] = r
         /\ claimedBy[Key(r)] = r
         /\ Key(r) \in Keys
  BY IntentType DEF Disciplined, KeyClaimed, RowsLocked, HoldsRow, WritesExpected,
     ExpectedDelta, Claiming, Authorized

\* A COMMIT of r leaves alone every row another request has locked and every key
\* another request has claimed: the row locks and the unique index at work.
LEMMA ApplyUntouched ==
  ASSUME TypeOK, NEW r \in Requests, NEW q \in Requests \ {r}, Disciplined(r),
         pc[r] = "commit", Apply(r), EndTransaction(r), UNCHANGED <<req, attempt>>,
         NEW s, Goto(r, s)
  PROVE  Untouched(q)
<1>1. \A a \in AccountIds : lockedBy[a] = q /\ accounts[a] # None => accounts'[a] = accounts[a]
  <2> SUFFICES ASSUME NEW a \in AccountIds, lockedBy[a] = q, accounts[a] # None
               PROVE  accounts'[a] = accounts[a]
    OBVIOUS
  <2>1. delta[r][a] = 0
    BY CommitDelta
  <2>2. accounts[a] \in AccountRow
    BY DEF TypeOK
  <2> QED BY <2>1, <2>2 DEF Apply, AccountRow
<1>2. \A t \in transactions' \ transactions : claimedBy[t.idempotency_key] # q
  BY CommitDelta DEF Apply
<1> QED BY <1>1, <1>2 DEF Untouched, EndTransaction, TypeOK

\* No step of r touches what another request holds or has written.
LEMMA Others ==
  ASSUME TypeOK, NEW r \in Requests, NEW q \in Requests \ {r}, Disciplined(r),
         Deliver(r) \/ Step(r) \/ Fault(r)
  PROVE  Untouched(q)
<1> USE DEF TypeOK
<1>1. CASE Deliver(r)
  BY <1>1 DEF Deliver, Untouched
<1>2. CASE FindRecord(r)
  BY <1>2 DEF FindRecord, Replay, Untouched
<1>3. CASE FindNothing(r)
  BY <1>3 DEF FindNothing, Untouched
<1>4. CASE Begin(r)
  BY <1>4 DEF Begin, Untouched
<1>5. CASE ClaimKey(r)
  BY <1>5, NoneAssumption DEF ClaimKey, Untouched
<1>6. CASE ClaimCollides(r)
  BY <1>6, EndUntouched DEF ClaimCollides
<1>7. CASE FindWinner(r)
  BY <1>7 DEF FindWinner, Replay, Untouched
<1>8. ASSUME NEW a, NEW next, FetchForUpdate(r, a, next) PROVE Untouched(q)
  BY <1>8, NoneAssumption DEF FetchForUpdate, RejectOpen, Untouched
<1>9. CASE Check(r)
  BY <1>9 DEF Check, RejectOpen, Untouched
<1>10. ASSUME NEW o, FailStatement(r, o) PROVE Untouched(q)
  BY <1>10, EndUntouched DEF FailStatement
<1>11. ASSUME NEW a, NEW d, NEW next, AdjustBalance(r, a, d, next) PROVE Untouched(q)
  BY <1>11, <1>10, NoneAssumption DEF AdjustBalance, Untouched
<1>12. ASSUME NEW a, NEW d, NEW next, InsertEntry(r, a, d, next) PROVE Untouched(q)
  BY <1>12, <1>10 DEF InsertEntry, Untouched
<1>13. CASE Commit(r)
  BY <1>13, <1>10, ApplyUntouched DEF Commit
<1>14. CASE GetTransaction(r)
  BY <1>14 DEF GetTransaction, Untouched
<1>15. CASE GetEntries(r)
  BY <1>15 DEF GetEntries, Untouched
<1>16. CASE Rollback(r)
  BY <1>16, EndUntouched DEF Rollback
<1>17. CASE LateCommit(r)
  BY <1>17, ApplyUntouched DEF LateCommit
<1>18. CASE ConflictAbort(r)
  BY <1>18, EndUntouched DEF ConflictAbort
<1>19. CASE Abandon(r)
  BY <1>19 DEF Abandon, Untouched
<1> QED
  BY <1>1, <1>2, <1>3, <1>4, <1>5, <1>6, <1>7, <1>8, <1>9, <1>10, <1>11, <1>12, <1>13,
     <1>14, <1>15, <1>16, <1>17, <1>18, <1>19
     DEF Step, Fault, LockFirst, LockSecond, AdjustFrom, AdjustTo, PostCredit, PostDebit,
         LockTimeout

-----------------------------------------------------------------------------

\* A step of r that writes nothing and enters a stage with no claim yet.
LEMMA OwnQuiet ==
  ASSUME TypeOK, NEW r \in Requests, Disciplined(r),
         NEW s \in {"find", "begin", "claim", "rollback", "get_transaction",
                    "get_entries", "done"},
         pc[r] \notin AfterDebit,
         pc' = [pc EXCEPT ![r] = s],
         req'[r] # None,
         s \in {"begin", "claim", "rollback"} =>
             /\ Intent(r)'.from_account_id # Intent(r)'.to_account_id
             /\ Intent(r)'.amount > 0,
         UNCHANGED <<db, locks, work>>
  PROVE  Disciplined(r)'
  BY DEF Disciplined, RequestSound, KeyClaimed, RowsLocked, StillAuthorized, WritesExpected,
     ExpectedDelta, ExpectedPosted, TypeOK, InTransaction, Claiming, Authorized,
     AfterDebit, AfterCredit

\* A failed statement keeps the discipline: the transaction is gone.
LEMMA OwnFail ==
  ASSUME TypeOK, NEW r \in Requests, Disciplined(r), pc[r] # "idle",
         NEW o, FailStatement(r, o)
  PROVE  Disciplined(r)'
  BY OwnEnd DEF FailStatement

\* A rejection with the transaction open keeps the discipline: nothing is written.
LEMMA OwnReject ==
  ASSUME TypeOK, NEW r \in Requests, Disciplined(r),
         pc[r] \in InTransaction \ AfterDebit, NEW o, RejectOpen(r, o)
  PROVE  Disciplined(r)'
  <1>1. pc[r] # "idle"
    BY DEF InTransaction
  <1> QED BY <1>1, OwnQuiet DEF RejectOpen, Disciplined, RequestSound, Intent

\* The INSERT that claims the key.
LEMMA OwnClaim ==
  ASSUME TypeOK, NEW r \in Requests, Disciplined(r), ClaimKey(r)
  PROVE  Disciplined(r)'
<1>1. /\ Intent(r)' = Intent(r) /\ Key(r)' = Key(r) /\ TxnId(r)' = TxnId(r)
      /\ pc[r] = "claim" /\ pc'[r] = "lock_first" /\ Key(r) \in Keys
  BY IntentType DEF ClaimKey, Intent, Key, TxnId, Disciplined, TypeOK
<1> QED
  BY <1>1 DEF ClaimKey, Disciplined, RequestSound, KeyClaimed, Recorded, RowsLocked, StillAuthorized,
     WritesExpected, ExpectedDelta, ExpectedPosted, TypeOK, InTransaction, Claiming,
     Authorized, AfterDebit, AfterCredit

\* The two SELECT ... FOR UPDATE: the copies are the committed rows.
LEMMA OwnLock ==
  ASSUME TypeOK, NEW r \in Requests, Disciplined(r), LockFirst(r) \/ LockSecond(r)
  PROVE  Disciplined(r)'
<1>0. pc[r] \in {"lock_first", "lock_second"} /\ pc[r] # "idle"
  BY DEF LockFirst, LockSecond
<1>1. CASE RejectOpen(r, "account_not_found")
  BY <1>0, <1>1, OwnReject DEF InTransaction, AfterDebit, Authorized
<1>2. CASE ~RejectOpen(r, "account_not_found")
  <2>1. /\ Intent(r)' = Intent(r) /\ Key(r)' = Key(r) /\ TxnId(r)' = TxnId(r)
        /\ UNCHANGED <<db, claimedBy, delta, posted, req>>
    BY <1>2 DEF LockFirst, LockSecond, FetchForUpdate, Intent, Key, TxnId
  <2>2. RowsLocked(r)'
    BY <1>0, <1>2, <2>1, IntentType, LockOrderType
       DEF LockFirst, LockSecond, FetchForUpdate, Disciplined, RowsLocked, HoldsRow,
           TypeOK, Authorized
  <2>3. pc'[r] \in {"lock_second", "check"}
    BY <1>2 DEF LockFirst, LockSecond, FetchForUpdate, TypeOK
  <2> QED
    BY <1>0, <2>1, <2>2, <2>3 DEF Disciplined, RequestSound, KeyClaimed, Recorded,
       StillAuthorized, WritesExpected, ExpectedDelta, ExpectedPosted, InTransaction,
       Claiming, Authorized, AfterDebit, AfterCredit
<1> QED BY <1>1, <1>2

\* The checks on the locked copies hold of the committed rows.
LEMMA OwnCheck ==
  ASSUME TypeOK, NEW r \in Requests, Disciplined(r), Check(r)
  PROVE  Disciplined(r)'
<1>0. pc[r] = "check"
  BY DEF Check
<1>1. ASSUME NEW o, RejectOpen(r, o) PROVE Disciplined(r)'
  BY <1>0, <1>1, OwnReject DEF InTransaction, AfterDebit, Authorized
<1>2. ASSUME pc' = [pc EXCEPT ![r] = "adjust_from"],
             UNCHANGED <<db, locks, work, req, attempt>>,
             StillAuthorized(r)'
      PROVE  Disciplined(r)'
  BY <1>0, <1>2 DEF Disciplined, RequestSound, KeyClaimed, Recorded, RowsLocked, HoldsRow,
     WritesExpected, ExpectedDelta, ExpectedPosted, InTransaction, Claiming, Authorized,
     AfterDebit, AfterCredit, Intent, Key, TypeOK
<1>3. ASSUME ~\E o \in {"currency_mismatch", "insufficient_funds"} : RejectOpen(r, o)
      PROVE  StillAuthorized(r)'
  BY <1>0, <1>3 DEF Check, Disciplined, RowsLocked, HoldsRow, StillAuthorized, Authorized,
     AfterDebit, AfterCredit, Intent, TypeOK
<1> QED BY <1>1, <1>2, <1>3 DEF Check

\* The two UPDATEs: range checked against the committed row, written to delta.
LEMMA OwnAdjust ==
  ASSUME TypeOK, NEW r \in Requests, Disciplined(r), AdjustFrom(r) \/ AdjustTo(r)
  PROVE  Disciplined(r)'
<1> DEFINE i == Intent(r)
<1>0. /\ pc[r] \in {"adjust_from", "adjust_to"} /\ pc[r] # "idle"
      /\ i.from_account_id \in AccountIds /\ i.to_account_id \in AccountIds
      /\ i.from_account_id # i.to_account_id
      /\ i.amount \in Int
  BY IntentType DEF AdjustFrom, AdjustTo, Disciplined, RequestSound, InTransaction
<1>1. CASE \E o \in {"internal_error", "insufficient_funds"} : FailStatement(r, o)
  BY <1>0, <1>1, OwnFail
<1>2. CASE ~\E o \in {"internal_error", "insufficient_funds"} : FailStatement(r, o)
  <2>1. /\ i' = i /\ Key(r)' = Key(r) /\ TxnId(r)' = TxnId(r)
        /\ UNCHANGED <<db, claimedBy, posted, locked, req>>
    BY <1>2 DEF AdjustFrom, AdjustTo, AdjustBalance, Intent, Key, TxnId
  <2>2. /\ accounts[i.from_account_id] \in AccountRow
        /\ accounts[i.to_account_id] \in AccountRow
    BY <1>0 DEF Disciplined, RowsLocked, HoldsRow, Authorized, TypeOK
  <2>3. CASE pc[r] = "adjust_from"
    <3>1. /\ pc'[r] = "adjust_to"
          /\ Representable(accounts[i.from_account_id].balance - i.amount)
          /\ delta' = [delta EXCEPT ![r][i.from_account_id] = @ - i.amount]
          /\ lockedBy' = [lockedBy EXCEPT ![i.from_account_id] = r]
      <4>1. delta[r][i.from_account_id] = 0
        BY <1>0, <2>3 DEF Disciplined, WritesExpected, ExpectedDelta, AfterDebit, AfterCredit, Authorized
      <4> QED BY <1>0, <1>2, <2>2, <2>3, <4>1 DEF AdjustFrom, AdjustTo, AdjustBalance, TypeOK, AccountRow
    <3>2. WritesExpected(r)'
      BY <1>0, <2>1, <2>3, <3>1 DEF Disciplined, WritesExpected, ExpectedDelta, ExpectedPosted, AfterDebit,
         AfterCredit, Authorized, TypeOK
    <3>3. RowsLocked(r)' /\ StillAuthorized(r)'
      BY <1>0, <2>1, <2>3, <3>1 DEF Disciplined, RowsLocked, HoldsRow, StillAuthorized,
         AfterDebit, AfterCredit, Authorized, TypeOK
    <3> QED
      BY <2>1, <2>3, <3>1, <3>2, <3>3 DEF Disciplined, RequestSound, KeyClaimed, Recorded,
         Claiming, Authorized, InTransaction
  <2>4. CASE pc[r] = "adjust_to"
    <3>1. /\ pc'[r] = "post_credit"
          /\ Representable(accounts[i.to_account_id].balance + i.amount)
          /\ delta' = [delta EXCEPT ![r][i.to_account_id] = @ + i.amount]
          /\ lockedBy' = [lockedBy EXCEPT ![i.to_account_id] = r]
      <4>1. delta[r][i.to_account_id] = 0
        BY <1>0, <2>4 DEF Disciplined, WritesExpected, ExpectedDelta, AfterDebit, AfterCredit, Authorized
      <4> QED BY <1>0, <1>2, <2>2, <2>4, <4>1 DEF AdjustFrom, AdjustTo, AdjustBalance, TypeOK, AccountRow
    <3>2. WritesExpected(r)'
      <4>1. delta'[r] = [delta[r] EXCEPT ![i.to_account_id] = @ + i.amount]
        BY <3>1 DEF TypeOK
      <4>2. delta[r] = [a \in AccountIds |-> IF a = i.from_account_id THEN -i.amount ELSE 0]
        BY <2>4 DEF Disciplined, WritesExpected, ExpectedDelta, AfterDebit, AfterCredit, Authorized
      <4>3. ExpectedDelta(r)' = [a \in AccountIds |-> IF a = i.from_account_id THEN -i.amount
                                   ELSE IF a = i.to_account_id THEN i.amount ELSE 0]
        BY <2>1, <3>1 DEF ExpectedDelta, AfterDebit, AfterCredit, Authorized
      <4>4. delta'[r] = ExpectedDelta(r)'
        BY <1>0, <4>1, <4>2, <4>3
      <4> QED
        BY <2>1, <2>4, <3>1, <4>4 DEF Disciplined, WritesExpected, ExpectedPosted
    <3>3. RowsLocked(r)' /\ StillAuthorized(r)'
      BY <1>0, <2>1, <2>4, <3>1 DEF Disciplined, RowsLocked, HoldsRow, StillAuthorized,
         AfterDebit, AfterCredit, Authorized, TypeOK
    <3> QED
      BY <2>1, <2>4, <3>1, <3>2, <3>3 DEF Disciplined, RequestSound, KeyClaimed, Recorded,
         Claiming, Authorized, InTransaction
  <2> QED BY <1>0, <2>3, <2>4
<1> QED BY <1>1, <1>2

\* The two entry INSERTs: after both, posted[r] is the pair of postings.
LEMMA OwnPost ==
  ASSUME TypeOK, NEW r \in Requests, Disciplined(r), PostCredit(r) \/ PostDebit(r)
  PROVE  Disciplined(r)'
<1> DEFINE i == Intent(r)
<1>0. pc[r] \in {"post_credit", "post_debit"} /\ pc[r] # "idle"
  BY DEF PostCredit, PostDebit
<1>1. CASE FailStatement(r, "internal_error")
  BY <1>0, <1>1, OwnFail
<1>2. CASE ~FailStatement(r, "internal_error")
  <2>1. /\ i' = i /\ Key(r)' = Key(r) /\ TxnId(r)' = TxnId(r)
        /\ UNCHANGED <<db, locks, delta, locked, req>>
        /\ pc'[r] = IF pc[r] = "post_credit" THEN "post_debit" ELSE "commit"
    BY <1>2 DEF PostCredit, PostDebit, InsertEntry, Intent, Key, TxnId, TypeOK
  <2>2. posted'[r] = ExpectedPosted(r)'
    <3> DEFINE Leg(a, d) == [transaction_id |-> TxnId(r), account_id |-> a, direction |-> d,
                             amount |-> i.amount, currency |-> i.currency]
               C == Leg(i.from_account_id, "credit")
               D == Leg(i.to_account_id, "debit")
    <3>1. Postings(TxnId(r), i) = {C, D} /\ C.direction = "credit" /\ D.direction = "debit"
      BY DEF Postings
    <3>2. {e \in Postings(TxnId(r), i) : e.direction = "credit"} = {C}
      <4> HIDE DEF C, D
      <4> QED BY <3>1
    <3>3. /\ pc[r] = "post_credit" => posted[r] = {} /\ posted'[r] = posted[r] \cup {C}
          /\ pc[r] = "post_debit" => posted[r] = {C} /\ posted'[r] = posted[r] \cup {D}
      BY <1>2, <3>2 DEF PostCredit, PostDebit, InsertEntry, ExpectedPosted, Disciplined,
         WritesExpected, TypeOK
    <3> HIDE DEF C, D
    <3> QED BY <1>0, <2>1, <3>1, <3>2, <3>3 DEF ExpectedPosted
  <2> QED
    BY <1>0, <2>1, <2>2 DEF Disciplined, RequestSound, KeyClaimed, Recorded, RowsLocked,
       HoldsRow, StillAuthorized, WritesExpected, ExpectedDelta, Claiming, Authorized,
       AfterDebit, AfterCredit, InTransaction
<1> QED BY <1>1, <1>2

\* A transaction committed by r leaves r with nothing of its own.
LEMMA OwnCommitted ==
  ASSUME TypeOK, NEW r \in Requests, Disciplined(r), pc[r] = "commit",
         NEW s \in {"get_transaction", "done"}, Goto(r, s), EndTransaction(r), UNCHANGED req
  PROVE  Disciplined(r)'
  BY DEF Disciplined, RequestSound, KeyClaimed, RowsLocked, StillAuthorized, WritesExpected,
     ExpectedDelta, ExpectedPosted, EndTransaction, TypeOK, InTransaction, Claiming,
     Authorized, AfterDebit, AfterCredit

\* Every step of r keeps r's own discipline.
LEMMA OwnStep ==
  ASSUME TypeOK, NEW r \in Requests, Disciplined(r), Deliver(r) \/ Step(r) \/ Fault(r)
  PROVE  Disciplined(r)'
<1> USE DEF TypeOK, Disciplined, RequestSound
<1>1. CASE Deliver(r)
  BY <1>1, OwnQuiet, InputsAssumption DEF Deliver, AfterDebit, Authorized
<1>2. CASE FindRecord(r)
  BY <1>2, OwnQuiet DEF FindRecord, Replay, AfterDebit, Authorized
<1>3. CASE FindNothing(r)
  BY <1>3, OwnQuiet DEF FindNothing, AfterDebit, Authorized, Intent
<1>4. CASE Begin(r)
  BY <1>4, OwnQuiet DEF Begin, AfterDebit, Authorized, Intent
<1>5. CASE ClaimCollides(r)
  BY <1>5, OwnEnd DEF ClaimCollides
<1>6. CASE FindWinner(r)
  BY <1>6, OwnQuiet DEF FindWinner, Replay, AfterDebit, Authorized
<1>7. CASE Commit(r)
  BY <1>7, OwnFail, OwnCommitted DEF Commit
<1>8. CASE GetTransaction(r)
  BY <1>8, OwnQuiet DEF GetTransaction, AfterDebit, Authorized
<1>9. CASE GetEntries(r)
  BY <1>9, OwnQuiet DEF GetEntries, AfterDebit, Authorized
<1>10. CASE Rollback(r)
  BY <1>10, OwnEnd DEF Rollback, InTransaction
<1>11. CASE LateCommit(r)
  BY <1>11, OwnCommitted DEF LateCommit
<1>12. CASE ConflictAbort(r)
  BY <1>12, OwnEnd DEF ConflictAbort, Awaiting, OnPool, InTransaction
<1>13. CASE LockTimeout(r)
  BY <1>13, OwnFail DEF LockTimeout, LockBlockers
<1>14. CASE Abandon(r)
  <2>1. CASE pc[r] \in InTransaction
    <3>1. Untouched(r)
      BY <1>14, <2>1 DEF Abandon, Untouched
    <3> QED BY <3>1, Frame
  <2>2. CASE pc[r] \notin InTransaction
    BY <1>14, <2>2, OwnQuiet DEF Abandon, AfterDebit, Authorized, Awaiting, OnPool,
       InTransaction
  <2> QED BY <2>1, <2>2
<1> QED
  BY <1>1, <1>2, <1>3, <1>4, <1>5, <1>6, <1>7, <1>8, <1>9, <1>10, <1>11, <1>12, <1>13, <1>14,
     OwnClaim, OwnLock, OwnCheck, OwnAdjust, OwnPost
     DEF Step, Fault

-----------------------------------------------------------------------------

\* Every step keeps the discipline of every request.
LEMMA DisciplineStep ==
  ASSUME TypeOK, TransferDiscipline, [Next]_vars
  PROVE  TransferDiscipline'
<1> SUFFICES ASSUME NEW q \in Requests PROVE Disciplined(q)'
  BY DEF TransferDiscipline
<1>0. Disciplined(q)
  BY DEF TransferDiscipline
<1>1. ASSUME NEW r \in Requests, Deliver(r) \/ Step(r) \/ Fault(r)
      PROVE  Disciplined(q)'
  <2>1. CASE q = r
    BY <1>0, <1>1, <2>1, OwnStep
  <2>2. CASE q # r
    <3>1. Disciplined(r)
      BY DEF TransferDiscipline
    <3>2. Untouched(q)
      BY <1>1, <2>2, <3>1, Others
    <3> QED BY <1>0, <3>2, Frame
  <2> QED BY <2>1, <2>2
<1>2. ASSUME NEW a \in AccountIds, NEW c \in Currencies, NEW n \in BOOLEAN,
             CreateAccount(a, c, n)
      PROVE  Disciplined(q)'
  <2>1. Untouched(q)
    BY <1>2 DEF CreateAccount, Untouched, TypeOK
  <2> QED BY <1>0, <2>1, Frame
<1>3. CASE UNCHANGED vars
  <2>1. Untouched(q)
    BY <1>3 DEF vars, Untouched
  <2> QED BY <1>0, <2>1, Frame
<1> QED BY <1>1, <1>2, <1>3 DEF Next, AllServed

-----------------------------------------------------------------------------
(* Types *)

\* The end of a transaction keeps the types of locks and uncommitted writes.
LEMMA EndType ==
  ASSUME TypeOK, NEW r \in Requests, EndTransaction(r)
  PROVE  /\ claimedBy' \in [Keys -> Requests \cup {None}]
         /\ lockedBy' \in [AccountIds -> Requests \cup {None}]
         /\ delta' \in [Requests -> [AccountIds -> Int]]
         /\ posted' \in [Requests -> SUBSET Entry]
         /\ locked' \in [Requests -> [AccountIds -> AccountRow \cup {None}]]
  BY DEF EndTransaction, TypeOK

\* A failed statement keeps the types.
LEMMA FailType ==
  ASSUME TypeOK, NEW r \in Requests, NEW o \in Outcomes, FailStatement(r, o)
  PROVE  TypeOK'
  BY EndType DEF FailStatement, TypeOK, Stages

\* What a COMMIT writes, account by account.
LEMMA AppliedBalances ==
  ASSUME TypeOK, NEW r \in Requests, Disciplined(r), pc[r] = "commit", Apply(r),
         NEW a \in AccountIds, accounts[a] # None
  PROVE  LET i == Intent(r)
         IN /\ accounts[a] \in AccountRow /\ accounts'[a] \in AccountRow
            /\ accounts'[a].currency = accounts[a].currency
            /\ accounts'[a].allows_negative_balance = accounts[a].allows_negative_balance
            /\ accounts'[a].balance =
                  IF a = i.from_account_id THEN accounts[a].balance - i.amount
                  ELSE IF a = i.to_account_id THEN accounts[a].balance + i.amount
                  ELSE accounts[a].balance
<1>1. accounts[a] \in AccountRow
  BY DEF TypeOK
<1>2. accounts'[a] = [accounts[a] EXCEPT !.balance = @ + delta[r][a]]
  BY DEF Apply
<1>3. delta[r][a] = IF a = Intent(r).from_account_id THEN -Intent(r).amount
                    ELSE IF a = Intent(r).to_account_id THEN Intent(r).amount ELSE 0
  BY DEF Disciplined, WritesExpected, ExpectedDelta, AfterDebit, AfterCredit, Authorized
<1>4. Intent(r).amount \in Int
  BY IntentType DEF Disciplined
<1> QED BY <1>1, <1>2, <1>3, <1>4 DEF AccountRow

\* A COMMIT writes rows of the right type and balances the column can hold.
LEMMA ApplyType ==
  ASSUME TypeOK, NEW r \in Requests, Disciplined(r), pc[r] = "commit", Apply(r)
  PROVE  /\ accounts' \in [AccountIds -> AccountRow \cup {None}]
         /\ \A a \in AccountIds : accounts'[a] # None => Representable(accounts'[a].balance)
         /\ transactions' \subseteq TransactionRow
         /\ entries' \subseteq Entry
<1>1. /\ Intent(r).amount \in Int /\ Key(r) \in Keys /\ TxnId(r) \in TransactionId
      /\ RequestHash(Intent(r)) \in RequestHashes
  BY IntentType DEF Disciplined
<1>2. ASSUME NEW a \in AccountIds, accounts[a] # None
      PROVE  accounts'[a] \in AccountRow /\ Representable(accounts'[a].balance)
  <2>1. accounts'[a] \in AccountRow
    BY <1>2, AppliedBalances
  <2>2. Representable(accounts[a].balance)
    BY <1>2 DEF TypeOK
  <2>3. /\ a = Intent(r).from_account_id => Representable(accounts[a].balance - Intent(r).amount)
        /\ a = Intent(r).to_account_id => Representable(accounts[a].balance + Intent(r).amount)
    BY DEF Disciplined, StillAuthorized, AfterDebit, AfterCredit, Authorized
  <2> QED BY <1>2, <2>1, <2>2, <2>3, AppliedBalances
<1>3. \A a \in AccountIds : accounts[a] = None => accounts'[a] = None
  BY DEF Apply
<1>4. accounts' = [a \in AccountIds |-> accounts'[a]]
  BY DEF Apply
<1>5. accounts' \in [AccountIds -> AccountRow \cup {None}]
  BY <1>2, <1>3, <1>4
<1>6. transactions' \subseteq TransactionRow
  BY <1>1 DEF Apply, TypeOK, TransactionRow
<1>7. entries' \subseteq Entry
  BY DEF Apply, TypeOK
<1> QED BY <1>2, <1>3, <1>5, <1>6, <1>7

\* Every step keeps the types; the range of a balance needs the discipline.
LEMMA TypeStep ==
  ASSUME TypeOK, TransferDiscipline, [Next]_vars
  PROVE  TypeOK'
<1> USE DEF Stages, OnPool, InTransaction, Outcomes, Unknown, Rejections, Successes
<1>a. ASSUME NEW r \in Requests, Deliver(r) \/ Step(r) \/ Fault(r)
      PROVE  TypeOK'
  <2>0. Disciplined(r)
    BY DEF TransferDiscipline
  <2>i. ASSUME pc[r] # "idle"
        PROVE  /\ Intent(r).from_account_id \in AccountIds
               /\ Intent(r).to_account_id \in AccountIds
               /\ Intent(r).amount \in Int /\ Intent(r).currency \in Currencies
               /\ Key(r) \in Keys /\ TxnId(r) \in TransactionId
               /\ LockOrder(Intent(r))[1] \in AccountIds
               /\ LockOrder(Intent(r))[2] \in AccountIds
    BY <2>0, <2>i, IntentType, LockOrderType DEF Disciplined
  <2>r. ASSUME NEW o \in Outcomes, RejectOpen(r, o) PROVE TypeOK'
    BY <2>r DEF RejectOpen, TypeOK
  <2>1. CASE Deliver(r)
    BY <2>1 DEF Deliver, TypeOK
  <2>p. ASSUME NEW t \in transactions, Replay(r, t), UNCHANGED <<db, locks, work, req, attempt>>
        PROVE  TypeOK'
    <3>1. t.id \in TransactionId
      BY <2>p DEF TypeOK, TransactionRow
    <3>2. [outcome |-> "replayed", transaction_id |-> t.id, entries |-> {}] \in Results
      BY <3>1 DEF Results
    <3>3. result' \in [Requests -> Results]
      BY <2>p, <3>2 DEF Replay, TypeOK
    <3> QED BY <2>p, <3>3 DEF Replay, TypeOK
  <2>2. CASE FindRecord(r)
    BY <2>2, <2>p DEF FindRecord, Recorded
  <2>3. CASE FindNothing(r)
    BY <2>3 DEF FindNothing, TypeOK
  <2>4. CASE Begin(r)
    BY <2>4 DEF Begin, TypeOK
  <2>5. CASE ClaimKey(r)
    BY <2>5, <2>i DEF ClaimKey, TypeOK
  <2>6. CASE ClaimCollides(r)
    BY <2>6, EndType DEF ClaimCollides, TypeOK
  <2>7. CASE FindWinner(r)
    <3>1. CASE Recorded(Key(r)) = {}
      BY <2>7, <3>1 DEF FindWinner, TypeOK
    <3>2. CASE Recorded(Key(r)) # {}
      BY <2>7, <3>2, <2>p DEF FindWinner, Recorded
    <3> QED BY <3>1, <3>2
  <2>8. CASE LockFirst(r) \/ LockSecond(r)
    <3>1. PICK a \in AccountIds, next \in {"lock_second", "check"} : FetchForUpdate(r, a, next)
      BY <2>8, <2>i DEF LockFirst, LockSecond
    <3>2. CASE RejectOpen(r, "account_not_found")
      BY <2>r, <3>2
    <3>3. CASE ~RejectOpen(r, "account_not_found")
      <4>1. /\ lockedBy' \in [AccountIds -> Requests \cup {None}]
            /\ pc' \in [Requests -> Stages]
        BY <3>1, <3>3 DEF FetchForUpdate, TypeOK
      <4>2. locked' \in [Requests -> [AccountIds -> AccountRow \cup {None}]]
        <5>1. /\ locked \in [Requests -> [AccountIds -> AccountRow \cup {None}]]
              /\ accounts[a] \in AccountRow \cup {None}
          BY DEF TypeOK
        <5>2. locked' = [locked EXCEPT ![r][a] = accounts[a]]
          BY <3>1, <3>3 DEF FetchForUpdate
        <5>3. [locked[r] EXCEPT ![a] = accounts[a]] \in [AccountIds -> AccountRow \cup {None}]
          BY <5>1
        <5> QED BY <5>1, <5>2, <5>3
      <4> QED BY <3>1, <3>3, <4>1, <4>2 DEF FetchForUpdate, TypeOK
    <3> QED BY <3>2, <3>3
  <2>9. CASE Check(r)
    BY <2>9, <2>r DEF Check, TypeOK
  <2>10. CASE AdjustFrom(r) \/ AdjustTo(r)
    <3>1. PICK a \in AccountIds, d \in Int, next \in {"adjust_to", "post_credit"} :
              AdjustBalance(r, a, d, next)
      BY <2>10, <2>i DEF AdjustFrom, AdjustTo
    <3>2. CASE \E o \in {"internal_error", "insufficient_funds"} : FailStatement(r, o)
      BY <3>2, FailType
    <3>3. CASE ~\E o \in {"internal_error", "insufficient_funds"} : FailStatement(r, o)
      <4>1. /\ lockedBy' \in [AccountIds -> Requests \cup {None}]
            /\ pc' \in [Requests -> Stages]
        BY <3>1, <3>3 DEF AdjustBalance, TypeOK
      <4>2. delta' \in [Requests -> [AccountIds -> Int]]
        <5>1. delta \in [Requests -> [AccountIds -> Int]]
          BY DEF TypeOK
        <5>2. delta' = [delta EXCEPT ![r][a] = @ + d]
          BY <3>1, <3>3 DEF AdjustBalance
        <5>3. [delta[r] EXCEPT ![a] = @ + d] \in [AccountIds -> Int]
          BY <5>1
        <5> QED BY <5>1, <5>2, <5>3
      <4> QED BY <3>1, <3>3, <4>1, <4>2 DEF AdjustBalance, TypeOK
    <3> QED BY <3>2, <3>3
  <2>11. CASE PostCredit(r) \/ PostDebit(r)
    <3>1. PICK a \in AccountIds, d \in Direction, next \in {"post_debit", "commit"} :
              InsertEntry(r, a, d, next)
      BY <2>11, <2>i DEF PostCredit, PostDebit, Direction
    <3>2. CASE FailStatement(r, "internal_error")
      BY <3>2, FailType
    <3>3. CASE ~FailStatement(r, "internal_error")
      <4> DEFINE e == [transaction_id |-> TxnId(r), account_id |-> a, direction |-> d,
                       amount |-> Intent(r).amount, currency |-> Intent(r).currency]
      <4>1. e \in Entry
        BY <2>11, <2>i DEF Entry, PostCredit, PostDebit
      <4>p. posted' = [posted EXCEPT ![r] = posted[r] \cup {e}]
        BY <3>1, <3>3 DEF InsertEntry, TypeOK
      <4>2. posted' \in [Requests -> SUBSET Entry]
        <5>1. posted \in [Requests -> SUBSET Entry]
          BY DEF TypeOK
        <5> HIDE DEF e
        <5> QED BY <4>1, <4>p, <5>1
      <4> QED BY <3>1, <3>3, <4>2 DEF InsertEntry, TypeOK
    <3> QED BY <3>2, <3>3
  <2>12. CASE Commit(r)
    <3>1. CASE FailStatement(r, "internal_error")
      BY <3>1, FailType
    <3>2. CASE ~FailStatement(r, "internal_error")
      <4>1. [outcome |-> "created", transaction_id |-> TxnId(r), entries |-> {}] \in Results
        BY <2>12, <2>i DEF Commit, Results
      <4>2. result' \in [Requests -> Results]
        BY <2>12, <3>2, <4>1 DEF Commit, TypeOK
      <4>3. Apply(r) /\ EndTransaction(r) /\ pc[r] = "commit"
        BY <2>12, <3>2 DEF Commit
      <4> QED BY <2>0, <2>12, <3>2, <4>2, <4>3, ApplyType, EndType DEF Commit, TypeOK
    <3> QED BY <3>1, <3>2
  <2>13. CASE GetTransaction(r)
    BY <2>13 DEF GetTransaction, TypeOK
  <2>14. CASE GetEntries(r)
    <3>1. EntriesOf(result[r].transaction_id, entries) \in SUBSET Entry
      BY DEF EntriesOf, TypeOK
    <3>2. result[r] \in Results
      BY DEF TypeOK
    <3>3. result' \in [Requests -> Results]
      BY <2>14, <3>1, <3>2 DEF GetEntries, Results, TypeOK
    <3>4. answer' \in [Requests -> Outcomes \cup {None}]
      BY <2>14, <3>2 DEF GetEntries, Results, TypeOK
    <3> QED BY <2>14, <3>3, <3>4 DEF GetEntries, TypeOK
  <2>15. CASE Rollback(r)
    BY <2>15, EndType DEF Rollback, TypeOK
  <2>16. CASE LateCommit(r)
    BY <2>0, <2>16, ApplyType, EndType DEF LateCommit, TypeOK
  <2>17. CASE ConflictAbort(r)
    <3>1. NoResult \in Results
      BY DEF NoResult, Results
    <3>2. /\ attempt' \in [Requests -> 0 .. MaxConflictRetries]
          /\ result' \in [Requests -> Results]
      <4>1. CASE attempt[r] < MaxConflictRetries
        <5>1. attempt[r] + 1 \in 0 .. MaxConflictRetries
          BY <4>1, RetriesAssumption DEF TypeOK
        <5>2. /\ attempt' = [attempt EXCEPT ![r] = attempt[r] + 1]
              /\ result' = [result EXCEPT ![r] = NoResult]
          BY <2>17, <4>1, RetriesAssumption DEF ConflictAbort, TypeOK
        <5> QED BY <3>1, <5>1, <5>2 DEF TypeOK
      <4>2. CASE ~(attempt[r] < MaxConflictRetries)
        BY <2>17, <4>2 DEF ConflictAbort, TypeOK
      <4> QED BY <4>1, <4>2
    <3> QED BY <2>17, <3>2, EndType DEF ConflictAbort, TypeOK
  <2>18. CASE LockTimeout(r)
    BY <2>18, FailType DEF LockTimeout
  <2>19. CASE Abandon(r)
    BY <2>19 DEF Abandon, TypeOK
  <2> QED
    BY <1>a, <2>1, <2>2, <2>3, <2>4, <2>5, <2>6, <2>7, <2>8, <2>9, <2>10, <2>11, <2>12, <2>13,
       <2>14, <2>15, <2>16, <2>17, <2>18, <2>19 DEF Step, Fault
<1>b. ASSUME NEW a \in AccountIds, NEW c \in Currencies, NEW n \in BOOLEAN,
             CreateAccount(a, c, n)
      PROVE  TypeOK'
  BY <1>b, MagnitudeAssumption DEF CreateAccount, TypeOK, AccountRow, Representable
<1>c. CASE UNCHANGED vars
  BY <1>c DEF vars, TypeOK
<1> QED BY <1>a, <1>b, <1>c DEF Next, AllServed

-----------------------------------------------------------------------------
(* The theorems *)

\* The initial state, with no request yet, satisfies the inductive invariant.
LEMMA Initially == Init => TypeOK /\ TransferDiscipline
<1> SUFFICES ASSUME Init PROVE TypeOK /\ TransferDiscipline
  OBVIOUS
<1>1. TypeOK
  <2>1. accounts \in [AccountIds -> AccountRow \cup {None}]
    BY SeedAssumption DEF Init
  <2>2. \A a \in AccountIds : accounts[a] # None => Representable(accounts[a].balance)
    BY SeedAssumption, MagnitudeAssumption DEF Init, Representable
  <2>3. NoResult \in Results
    BY DEF NoResult, Results
  <2> QED
    BY <2>1, <2>2, <2>3, RetriesAssumption DEF Init, TypeOK, Stages
<1>2. TransferDiscipline
  BY DEF Init, TransferDiscipline, Disciplined, RequestSound, KeyClaimed, RowsLocked,
     StillAuthorized, WritesExpected, ExpectedDelta, ExpectedPosted, InTransaction,
     Claiming, Authorized, AfterDebit, AfterCredit
<1> QED BY <1>1, <1>2

\* The inductive invariant.  At every stage, under every interleaving and every
\* fault, an open transfer has its key and its locks, its copies are fresh, the
\* funds it was granted are still there, and it has written what its stage says.
THEOREM Discipline == Spec => [](TypeOK /\ TransferDiscipline)
<1>1. Init => TypeOK /\ TransferDiscipline
  BY Initially
<1>2. TypeOK /\ TransferDiscipline /\ [Next]_vars => (TypeOK /\ TransferDiscipline)'
  BY TypeStep, DisciplineStep
<1> QED BY <1>1, <1>2, PTL DEF Spec

\* Type correctness: in particular execute never exceeds MAX_CONFLICT_RETRIES and
\* no committed balance leaves the range of NUMERIC(20, 8).
THEOREM TypeCorrect == Spec => []TypeOK
  BY Discipline, PTL

\* The funds check and the debit it authorizes are atomic, for any number of
\* requests: FOR UPDATE holds the checked row still until COMMIT.
THEOREM FundsStaySecured == Spec => []FundsSecured
<1>1. TypeOK /\ TransferDiscipline => FundsSecured
  BY DEF TransferDiscipline, Disciplined, RowsLocked, HoldsRow, StillAuthorized,
     FundsSecured, Authorized
<1> QED BY <1>1, Discipline, PTL

\* Committed rows change in three ways only.
LEMMA WritesOnlyAtCommit ==
  ASSUME [Next]_vars
  PROVE  \/ UNCHANGED db
         \/ \E r \in Requests : pc[r] = "commit" /\ Apply(r)
         \/ \E a \in AccountIds, c \in Currencies, n \in BOOLEAN : CreateAccount(a, c, n)
<1>1. ASSUME NEW r \in Requests, Deliver(r) \/ Step(r) \/ Fault(r)
      PROVE  UNCHANGED db \/ (pc[r] = "commit" /\ Apply(r))
  <2>1. CASE Commit(r) \/ LateCommit(r)
    BY <2>1 DEF Commit, LateCommit, FailStatement
  <2>2. CASE ~(Commit(r) \/ LateCommit(r))
    BY <1>1, <2>2 DEF Step, Fault, Deliver, FindRecord, FindNothing, Begin, ClaimKey,
       ClaimCollides, FindWinner, LockFirst, LockSecond, FetchForUpdate, Check, AdjustFrom,
       AdjustTo, AdjustBalance, PostCredit, PostDebit, InsertEntry, GetTransaction,
       GetEntries, Rollback, ConflictAbort, LockTimeout, Abandon, FailStatement, RejectOpen
  <2> QED BY <2>1, <2>2
<1> QED BY <1>1 DEF Next, AllServed, vars

\* A committed balance falls only under a passed funds check.
LEMMA NoOverdraftStep ==
  ASSUME TypeOK, TransferDiscipline, NoOverdraft, [Next]_vars
  PROVE  NoOverdraft'
<1> SUFFICES ASSUME NEW a \in AccountIds, accounts'[a] # None
             PROVE  BalanceNonNegative(accounts'[a])
  BY DEF NoOverdraft, NoNegativeBalance
<1>1. ASSUME NEW r \in Requests, pc[r] = "commit", Apply(r)
      PROVE  BalanceNonNegative(accounts'[a])
  <2>1. Disciplined(r)
    BY DEF TransferDiscipline
  <2>2. accounts[a] # None /\ BalanceNonNegative(accounts[a])
    BY <1>1 DEF Apply, NoOverdraft, NoNegativeBalance
  <2>3. Intent(r).amount \in Int /\ Intent(r).amount > 0
    BY <1>1, <2>1, IntentType DEF Disciplined, RequestSound, InTransaction
  <2>4. a = Intent(r).from_account_id =>
            accounts[a].allows_negative_balance \/ accounts[a].balance >= Intent(r).amount
    BY <1>1, <2>1 DEF Disciplined, StillAuthorized, Authorized
  <2> QED
    BY <1>1, <2>1, <2>2, <2>3, <2>4, AppliedBalances DEF BalanceNonNegative, AccountRow
<1>2. CASE accounts' = accounts
  BY <1>2 DEF NoOverdraft, NoNegativeBalance
<1>3. ASSUME NEW b \in AccountIds, NEW c \in Currencies, NEW n \in BOOLEAN,
             CreateAccount(b, c, n)
      PROVE  BalanceNonNegative(accounts'[a])
  BY <1>3 DEF CreateAccount, NoOverdraft, NoNegativeBalance, BalanceNonNegative, TypeOK
<1> QED
  BY <1>1, <1>2, <1>3, WritesOnlyAtCommit

\* Invariant #2 for any number of accounts and requests, with the CHECK constraint
\* or without it: the row locks and the funds check alone prevent an overdraft.
THEOREM NeverOverdrawn == Spec => []NoOverdraft
<1>1. Init => NoOverdraft
  BY SeedAssumption DEF Init, NoOverdraft, NoNegativeBalance, BalanceNonNegative
<1>2. TypeOK /\ TransferDiscipline /\ NoOverdraft /\ [Next]_vars => NoOverdraft'
  BY NoOverdraftStep
<1> QED BY <1>1, <1>2, Discipline, PTL DEF Spec

\* Invariant #4: whatever is retried by execute or by clients, and whenever a lost
\* COMMIT takes effect, a key is committed at most once.
THEOREM KeysUsedOnce == Spec => []OneTransactionPerKey
<1>1. Init => OneTransactionPerKey
  BY DEF Init, OneTransactionPerKey, KeysUnique
<1>2. TypeOK /\ TransferDiscipline /\ OneTransactionPerKey /\ [Next]_vars
          => OneTransactionPerKey'
  <2> SUFFICES ASSUME TypeOK, TransferDiscipline, OneTransactionPerKey, [Next]_vars
               PROVE  OneTransactionPerKey'
    OBVIOUS
  <2>1. ASSUME NEW r \in Requests, pc[r] = "commit", Apply(r)
        PROVE  OneTransactionPerKey'
    <3>1. Recorded(Key(r)) = {}
      BY <2>1 DEF TransferDiscipline, Disciplined, KeyClaimed, Claiming, Authorized
    <3>2. \A t \in transactions : t.idempotency_key # Key(r)
      BY <3>1 DEF Recorded
    <3> QED BY <2>1, <3>2 DEF Apply, OneTransactionPerKey, KeysUnique
  <2>2. CASE transactions' = transactions
    BY <2>2 DEF OneTransactionPerKey, KeysUnique
  <2> QED BY <2>1, <2>2, WritesOnlyAtCommit DEF CreateAccount
<1> QED BY <1>1, <1>2, Discipline, PTL DEF Spec
=============================================================================
