---------------------------- MODULE SchemaProofs ----------------------------
(***************************************************************************)
(* The constraints and triggers of the schema keep the log sound against   *)
(* any SQL, for any number of sessions, rows and database transactions.    *)
(***************************************************************************)
EXTENDS Schema, TLAPS

USE DEF Others

Inv == TypeOK /\ WritesConfined

\* What one statement of s may do: nothing committed changes, no other session's
\* writes change, and s either fails or has written what the statement says.
StatementOf(s) ==
  \/ \E a \in AccountIds, row \in CandidateAccounts : InsertAccount(s, a, row) \/ UpdateAccount(s, a, row)
  \/ \E a \in AccountIds : DeleteAccount(s, a)
  \/ \E id \in TransactionIds, key \in Keys, x \in Xids : InsertTransaction(s, id, key, x)
  \/ \E e \in CandidateEntries : InsertEntry(s, e)
  \/ ChangeLog(s)

\* Every step is one of these.
LEMMA StepCases ==
  ASSUME Next
  PROVE  \/ \E s \in Sessions : Begin(s) \/ StatementOf(s) \/ Commit(s) \/ Rollback(s)
         \/ \E a \in AccountIds, row \in AccountRow : InsertAccountAlone(a, row)
         \/ \E x \in Xids : TakeXid(x)
<1>1. CandidateAccounts \subseteq AccountRow
  BY SchemaAssumption DEF CandidateAccounts, AccountRow
<1> QED BY <1>1 DEF Next, StatementOf

\* The writes of s after a statement: as before, or one row more.
LEMMA StatementWrites ==
  ASSUME TypeOK, NEW s \in Sessions, StatementOf(s)
  PROVE  /\ UNCHANGED <<accounts, transactions, entries, spent, xid>>
         /\ failed' \in [Sessions -> BOOLEAN]
         /\ \A q \in Others(s) : wrote'[q] = wrote[q]
         /\ Writing(s)
         /\ \/ wrote' = wrote
            \/ \E a \in AccountIds, row \in AccountRow :
                  /\ wrote' = [wrote EXCEPT ![s] = WriteAccount(s, a, row)]
                  /\ Unlocked(s, a) /\ AccountAllowed(row)
                  /\ SeenAccounts(s)[a] # None => TermsFixed(SeenAccounts(s)[a], row)
            \/ \E t \in TransactionRows :
                  /\ wrote' = [wrote EXCEPT ![s] = [wrote[s] EXCEPT !.transactions = @ \cup {t}]]
                  /\ \A q \in Others(s) : \A u \in wrote[q].transactions : ~TransactionCollides(t, u)
                  /\ \A u \in SeenTransactions(s) : ~TransactionCollides(t, u)
            \/ \E e \in EntryRows :
                  /\ wrote' = [wrote EXCEPT ![s] = [wrote[s] EXCEPT !.entries = @ \cup {e}]]
                  /\ \A q \in Others(s) : \A f \in wrote[q].entries : f.id # e.id
                  /\ \A f \in SeenEntries(s) : f.id # e.id
                  /\ EntryInParentXact(s, e)
                  /\ EntryRowAllowed(s, e)
<1> USE DEF Statement
<1>0. CandidateAccounts \subseteq AccountRow /\ CandidateEntries \subseteq EntryRows
  BY SchemaAssumption DEF CandidateAccounts, AccountRow, CandidateEntries, EntryRows
<1>1. ASSUME NEW a \in AccountIds, NEW row \in CandidateAccounts,
             InsertAccount(s, a, row) \/ UpdateAccount(s, a, row)
      PROVE  /\ UNCHANGED <<accounts, transactions, entries, spent, xid>>
             /\ failed' \in [Sessions -> BOOLEAN]
             /\ Writing(s)
             /\ \/ wrote' = wrote
                \/ /\ wrote' = [wrote EXCEPT ![s] = WriteAccount(s, a, row)]
                   /\ Unlocked(s, a) /\ AccountAllowed(row)
                   /\ SeenAccounts(s)[a] # None => TermsFixed(SeenAccounts(s)[a], row)
  BY <1>1 DEF InsertAccount, UpdateAccount, TypeOK
<1>2. ASSUME NEW id \in TransactionIds, NEW key \in Keys, NEW x \in Xids,
             InsertTransaction(s, id, key, x)
      PROVE  /\ UNCHANGED <<accounts, transactions, entries, spent, xid>>
             /\ failed' \in [Sessions -> BOOLEAN]
             /\ Writing(s)
             /\ \/ wrote' = wrote
                \/ \E t \in TransactionRows :
                  /\ wrote' = [wrote EXCEPT ![s] = [wrote[s] EXCEPT !.transactions = @ \cup {t}]]
                  /\ \A q \in Others(s) : \A u \in wrote[q].transactions : ~TransactionCollides(t, u)
                  /\ \A u \in SeenTransactions(s) : ~TransactionCollides(t, u)
  <2>1. [id |-> id, idempotency_key |-> key, created_xid |-> x] \in TransactionRows
    BY DEF TransactionRows
  <2> QED BY <1>2, <2>1 DEF InsertTransaction, TypeOK
<1>3. ASSUME NEW e \in CandidateEntries, InsertEntry(s, e)
      PROVE  /\ UNCHANGED <<accounts, transactions, entries, spent, xid>>
             /\ failed' \in [Sessions -> BOOLEAN]
             /\ Writing(s)
             /\ \/ wrote' = wrote
                \/ /\ wrote' = [wrote EXCEPT ![s] = [wrote[s] EXCEPT !.entries = @ \cup {e}]]
                   /\ \A q \in Others(s) : \A f \in wrote[q].entries : f.id # e.id
                   /\ \A f \in SeenEntries(s) : f.id # e.id
                   /\ EntryInParentXact(s, e)
                   /\ EntryRowAllowed(s, e)
  BY <1>3 DEF InsertEntry, TypeOK
<1>4. ASSUME (\E a \in AccountIds : DeleteAccount(s, a)) \/ ChangeLog(s)
      PROVE  /\ UNCHANGED <<accounts, transactions, entries, spent, xid>>
             /\ failed' \in [Sessions -> BOOLEAN]
             /\ Writing(s)
             /\ wrote' = wrote
  BY <1>4 DEF DeleteAccount, ChangeLog, TypeOK
<1>5. /\ UNCHANGED <<accounts, transactions, entries, spent, xid>>
      /\ failed' \in [Sessions -> BOOLEAN]
      /\ Writing(s)
  BY <1>1, <1>2, <1>3, <1>4 DEF StatementOf
<1>6. \A q \in Others(s) : wrote'[q] = wrote[q]
  BY <1>1, <1>2, <1>3, <1>4 DEF StatementOf, TypeOK
<1> QED BY <1>0, <1>1, <1>2, <1>3, <1>4, <1>5, <1>6 DEF StatementOf

\* A statement that writes nothing, or fails, keeps the invariant.
LEMMA KeepsQuiet ==
  ASSUME Inv, UNCHANGED <<accounts, transactions, entries, spent, xid, wrote>>,
         failed' \in [Sessions -> BOOLEAN]
  PROVE  Inv'
<1> USE DEF Inv, WritesConfined
<1>1. TypeOK'
  BY DEF TypeOK, TransactionCollides, AccountAllowed
<1>2. XidsDistinct'
  BY DEF XidsDistinct
<1>l. LogClosed'
  BY DEF LogClosed, Closed
<1>3. RowsDistinct'
  BY DEF RowsDistinct, SeenTransactions, SeenEntries, TransactionCollides
<1>4. WritesSound'
  <2>1. \A q \in Sessions : SeenAccounts(q)' = SeenAccounts(q)
    BY DEF SeenAccounts
  <2> QED BY <2>1 DEF WritesSound, Unlocked, AccountAllowed, TermsFixed, SeenTransactions
<1> QED BY <1>1, <1>2, <1>l, <1>3, <1>4

\* A new row version of an account keeps the invariant.
LEMMA KeepsAccount ==
  ASSUME Inv, NEW s \in Sessions, Writing(s),
         UNCHANGED <<accounts, transactions, entries, spent, xid>>,
         failed' \in [Sessions -> BOOLEAN],
         NEW a \in AccountIds, NEW row \in AccountRow,
         wrote' = [wrote EXCEPT ![s] = WriteAccount(s, a, row)],
         Unlocked(s, a), AccountAllowed(row),
         SeenAccounts(s)[a] # None => TermsFixed(SeenAccounts(s)[a], row)
  PROVE  Inv'
<1> USE DEF Inv, TypeOK, WritesConfined
<1>0. wrote[s] \in Writes /\ wrote' \in [Sessions -> Writes]
  BY DEF Writes, WriteAccount
<1>1. /\ wrote'[s].accounts = [wrote[s].accounts EXCEPT ![a] = row]
      /\ wrote'[s].transactions = wrote[s].transactions
      /\ wrote'[s].entries = wrote[s].entries
      /\ \A q \in Sessions \ {s} : wrote'[q] = wrote[q]
  BY <1>0 DEF WriteAccount, Writes
<1>2. \A q \in Sessions : /\ wrote'[q].transactions = wrote[q].transactions
                          /\ wrote'[q].entries = wrote[q].entries
  BY <1>1
<1>3. TypeOK'
  BY <1>0 DEF TransactionCollides, AccountAllowed
<1>4. XidsDistinct'
  BY DEF XidsDistinct
<1>l. LogClosed'
  BY DEF LogClosed, Closed
<1>5. RowsDistinct'
  BY <1>2 DEF RowsDistinct, SeenTransactions, SeenEntries, TransactionCollides
<1>6. WritesSound'
  <2> SUFFICES ASSUME NEW q \in Sessions
        PROVE  /\ xid'[q] = None => wrote'[q] = NoWrites
               /\ \A e \in wrote'[q].entries :
                     /\ e.amount > 0
                     /\ \E t \in SeenTransactions(q)' :
                           t.id = e.transaction_id /\ t.created_xid = xid'[q]
                     /\ SeenAccounts(q)'[e.account_id] # None
                     /\ SeenAccounts(q)'[e.account_id].currency = e.currency
               /\ \A b \in AccountIds : wrote'[q].accounts[b] # None =>
                     /\ Unlocked(q, b)'
                     /\ AccountAllowed(wrote[q].accounts[b])'
                     /\ accounts[b] # None => TermsFixed(accounts[b], wrote'[q].accounts[b])
    BY DEF WritesSound, AccountAllowed, TermsFixed
  <2>1. CASE q # s
    <3>0. wrote[s].accounts \in [AccountIds -> AccountRow \cup {None}]
      BY <1>0 DEF Writes
    <3>1. wrote'[q] = wrote[q] /\ SeenAccounts(q)' = SeenAccounts(q)
          /\ SeenTransactions(q)' = SeenTransactions(q)
      BY <1>1, <2>1 DEF SeenAccounts, SeenTransactions
    <3>2. ASSUME NEW b \in AccountIds, wrote[q].accounts[b] # None PROVE Unlocked(q, b)'
      <4>1. b # a /\ Unlocked(q, b)
        BY <2>1, <3>2 DEF Unlocked, WritesSound
      <4> QED BY <1>1, <3>0, <4>1 DEF Unlocked
    <3> QED BY <3>1, <3>2 DEF WritesSound, AccountAllowed, TermsFixed
  <2>2. CASE q = s
    <3>0. wrote[s].accounts \in [AccountIds -> AccountRow \cup {None}]
          /\ \A e \in wrote[s].entries : e.account_id \in AccountIds
      BY <1>0 DEF Writes, EntryRows
    <3>1. \A b \in AccountIds : SeenAccounts(s)'[b] = IF b = a THEN row ELSE SeenAccounts(s)[b]
      BY <1>1, <3>0, NoneAssumption DEF SeenAccounts
    <3>2. \A e \in wrote[s].entries :
             /\ SeenAccounts(s)'[e.account_id] # None
             /\ SeenAccounts(s)'[e.account_id].currency = e.currency
      BY <3>0, <3>1, NoneAssumption DEF WritesSound, TermsFixed
    <3>3. \A b \in AccountIds : wrote'[s].accounts[b] # None /\ accounts[b] # None =>
             TermsFixed(accounts[b], wrote'[s].accounts[b])
      BY <1>1, <3>0 DEF WritesSound, TermsFixed, SeenAccounts
    <3>4. \A b \in AccountIds : wrote'[s].accounts[b] # None =>
             Unlocked(s, b)' /\ AccountAllowed(wrote[s].accounts[b])'
      BY <1>1, <3>0 DEF WritesSound, Unlocked, AccountAllowed
    <3>5. SeenTransactions(s)' = SeenTransactions(s)
      BY <1>1 DEF SeenTransactions
    <3> QED BY <1>1, <2>2, <3>2, <3>3, <3>4, <3>5 DEF WritesSound, Writing
  <2> QED BY <2>1, <2>2
<1> QED BY <1>3, <1>4, <1>l, <1>5, <1>6

\* A new transaction row keeps the invariant.
LEMMA KeepsTransaction ==
  ASSUME Inv, NEW s \in Sessions, Writing(s),
         UNCHANGED <<accounts, transactions, entries, spent, xid>>,
         failed' \in [Sessions -> BOOLEAN],
         NEW t \in TransactionRows,
         wrote' = [wrote EXCEPT ![s] = [wrote[s] EXCEPT !.transactions = @ \cup {t}]],
         \A q \in Others(s) : \A u \in wrote[q].transactions : ~TransactionCollides(t, u),
         \A u \in SeenTransactions(s) : ~TransactionCollides(t, u)
  PROVE  Inv'
<1> USE DEF Inv, TypeOK, WritesConfined
<1>0. wrote[s] \in Writes /\ wrote' \in [Sessions -> Writes]
  BY DEF Writes
<1>1. /\ wrote'[s].accounts = wrote[s].accounts
      /\ wrote'[s].transactions = wrote[s].transactions \cup {t}
      /\ wrote'[s].entries = wrote[s].entries
      /\ \A q \in Sessions \ {s} : wrote'[q] = wrote[q]
  BY <1>0 DEF Writes
<1>3. TypeOK'
  BY <1>0 DEF TransactionCollides, AccountAllowed
<1>4. XidsDistinct'
  BY DEF XidsDistinct
<1>l. LogClosed'
  BY DEF LogClosed, Closed
<1>5. RowsDistinct'
  BY <1>1 DEF RowsDistinct, SeenTransactions, SeenEntries, TransactionCollides
<1>6. WritesSound'
  <2>1. \A q \in Sessions : SeenAccounts(q)' = SeenAccounts(q) /\ wrote'[q].accounts = wrote[q].accounts
    BY <1>1 DEF SeenAccounts
  <2>2. \A q \in Sessions, b \in AccountIds : Unlocked(q, b)' <=> Unlocked(q, b)
    BY <2>1 DEF Unlocked
  <2>3. \A q \in Sessions : /\ SeenTransactions(q) \subseteq SeenTransactions(q)'
                            /\ wrote'[q].entries = wrote[q].entries
    BY <1>1 DEF SeenTransactions
  <2>4. xid[s] # None
    BY DEF Writing
  <2>5. \A q \in Sessions : xid'[q] = None => wrote'[q] = NoWrites
    BY <1>1, <2>4 DEF WritesSound
  <2> QED BY <2>1, <2>2, <2>3, <2>5 DEF WritesSound, AccountAllowed, TermsFixed
<1> QED BY <1>3, <1>4, <1>l, <1>5, <1>6

\* A new entry keeps the invariant: its parent names the transaction that writes it.
LEMMA KeepsEntry ==
  ASSUME Inv, NEW s \in Sessions, Writing(s),
         UNCHANGED <<accounts, transactions, entries, spent, xid>>,
         failed' \in [Sessions -> BOOLEAN],
         NEW e \in EntryRows,
         wrote' = [wrote EXCEPT ![s] = [wrote[s] EXCEPT !.entries = @ \cup {e}]],
         \A q \in Others(s) : \A f \in wrote[q].entries : f.id # e.id,
         \A f \in SeenEntries(s) : f.id # e.id,
         EntryInParentXact(s, e), EntryRowAllowed(s, e)
  PROVE  Inv'
<1> USE DEF Inv, TypeOK, WritesConfined
<1>0. wrote[s] \in Writes /\ wrote' \in [Sessions -> Writes]
  BY DEF Writes
<1>1. /\ wrote'[s].accounts = wrote[s].accounts
      /\ wrote'[s].transactions = wrote[s].transactions
      /\ wrote'[s].entries = wrote[s].entries \cup {e}
      /\ \A q \in Sessions \ {s} : wrote'[q] = wrote[q]
  BY <1>0 DEF Writes
<1>2. \E t \in SeenTransactions(s) : t.id = e.transaction_id /\ t.created_xid = xid[s]
  BY DEF EntryInParentXact
<1>3. TypeOK'
  BY <1>0 DEF TransactionCollides, AccountAllowed
<1>4. XidsDistinct'
  BY DEF XidsDistinct
<1>l. LogClosed'
  BY DEF LogClosed, Closed
<1>5. RowsDistinct'
  BY <1>1 DEF RowsDistinct, SeenTransactions, SeenEntries, TransactionCollides
<1>6. WritesSound'
  <2>1. SeenAccounts(s)[e.account_id] # None /\ SeenAccounts(s)[e.account_id].currency = e.currency
        /\ e.amount > 0
    BY DEF EntryRowAllowed, EntryAllowed
  <2>2. \A q \in Sessions : SeenAccounts(q)' = SeenAccounts(q)
                            /\ SeenTransactions(q)' = SeenTransactions(q)
    BY <1>1 DEF SeenAccounts, SeenTransactions
  <2> QED BY <1>1, <1>2, <2>1, <2>2 DEF WritesSound, Unlocked, AccountAllowed, TermsFixed, Writing
<1> QED BY <1>3, <1>4, <1>l, <1>5, <1>6

\* BEGIN draws a transaction id never handed out before.
LEMMA KeepsBegin ==
  ASSUME Inv, NEW s \in Sessions, Begin(s)
  PROVE  Inv'
<1> USE DEF Inv, WritesConfined
<1>0. /\ UNCHANGED <<accounts, transactions, entries, failed, wrote>>
      /\ xid[s] = None /\ wrote[s] = NoWrites
  BY DEF Begin, WritesSound
<1>x. PICK x \in Xids \ spent : spent' = spent \cup {x} /\ xid' = [xid EXCEPT ![s] = x]
  BY DEF Begin
<1>1. TypeOK'
  BY <1>0, <1>x DEF TypeOK, TransactionCollides, AccountAllowed
<1>2. XidsDistinct'
  BY <1>0, <1>x DEF XidsDistinct, TypeOK
<1>l. LogClosed'
  BY <1>0, <1>x DEF LogClosed, Closed, TypeOK
<1>3. RowsDistinct'
  BY <1>0 DEF RowsDistinct, SeenTransactions, SeenEntries, TransactionCollides
<1>4. WritesSound'
  <2>1. \A q \in Sessions : SeenAccounts(q)' = SeenAccounts(q)
                            /\ SeenTransactions(q)' = SeenTransactions(q)
    BY <1>0 DEF SeenAccounts, SeenTransactions
  <2>2. wrote'[s].entries = {}
    BY <1>0 DEF NoWrites
  <2>3. \A q \in Sessions \ {s} : xid'[q] = xid[q]
    BY <1>x DEF TypeOK
  <2>4. xid'[s] # None
    BY <1>x, SchemaAssumption DEF TypeOK
  <2> QED BY <1>0, <2>1, <2>2, <2>3, <2>4 DEF WritesSound, Unlocked, AccountAllowed, TermsFixed
<1> QED BY <1>1, <1>2, <1>l, <1>3, <1>4

\* An id used up elsewhere keeps the invariant.
LEMMA KeepsTakeXid ==
  ASSUME Inv, NEW x \in Xids, TakeXid(x)
  PROVE  Inv'
<1> USE DEF Inv, WritesConfined, TakeXid
<1>0. \A q \in Sessions : /\ SeenAccounts(q)' = SeenAccounts(q)
                          /\ SeenTransactions(q)' = SeenTransactions(q)
                          /\ SeenEntries(q)' = SeenEntries(q)
  BY DEF SeenAccounts, SeenTransactions, SeenEntries
<1>1. TypeOK'
  BY DEF TypeOK, TransactionCollides, AccountAllowed
<1>2. XidsDistinct' /\ LogClosed'
  BY DEF XidsDistinct, LogClosed, Closed
<1>3. RowsDistinct'
  BY <1>0 DEF RowsDistinct, TransactionCollides
<1>4. WritesSound'
  BY <1>0 DEF WritesSound, Unlocked, AccountAllowed, TermsFixed
<1> QED BY <1>1, <1>2, <1>3, <1>4

\* What the end of a transaction leaves of its session.
LEMMA Ended ==
  ASSUME TypeOK, NEW s \in Sessions, End(s)
  PROVE  /\ xid'[s] = None /\ wrote'[s] = NoWrites /\ spent' = spent
         /\ \A q \in Sessions \ {s} : xid'[q] = xid[q] /\ wrote'[q] = wrote[q]
         /\ xid' \in [Sessions -> Xids \cup {None}]
         /\ failed' \in [Sessions -> BOOLEAN]
         /\ wrote' \in [Sessions -> Writes]
         /\ NoWrites.transactions = {} /\ NoWrites.entries = {}
         /\ \A a \in AccountIds : NoWrites.accounts[a] = None
<1>1. NoWrites \in Writes
  BY DEF NoWrites, Writes
<1> QED BY <1>1 DEF End, TypeOK, NoWrites

\* A transaction that ends without a trace keeps the invariant.
LEMMA KeepsRollback ==
  ASSUME Inv, NEW s \in Sessions, End(s), UNCHANGED <<accounts, transactions, entries>>
  PROVE  Inv'
<1> USE DEF Inv, WritesConfined
<1>1. TypeOK'
  BY Ended DEF TypeOK, TransactionCollides, AccountAllowed
<1>2. XidsDistinct'
  BY Ended DEF XidsDistinct
<1>l. LogClosed'
  <2>1. \A t \in transactions : t.created_xid # None
    BY SchemaAssumption DEF TypeOK, TransactionRows
  <2> QED BY <2>1, Ended DEF LogClosed, Closed
<1>3. RowsDistinct'
  BY Ended DEF RowsDistinct, SeenTransactions, SeenEntries, TransactionCollides
<1>4. WritesSound'
  <2>1. \A q \in Sessions \ {s} : SeenAccounts(q)' = SeenAccounts(q)
                                  /\ SeenTransactions(q)' = SeenTransactions(q)
    BY Ended DEF SeenAccounts, SeenTransactions
  <2>2. ASSUME NEW q \in Sessions \ {s}, NEW b \in AccountIds, Unlocked(q, b) PROVE Unlocked(q, b)'
    BY <2>2, Ended DEF Unlocked
  <2> QED BY <2>1, <2>2, Ended DEF WritesSound, AccountAllowed, TermsFixed
<1> QED BY <1>1, <1>2, <1>l, <1>3, <1>4

\* A COMMIT that passes the deferred trigger keeps the invariant.
LEMMA KeepsCommit ==
  ASSUME Inv, NEW s \in Sessions, Writing(s), End(s),
         accounts' = SeenAccounts(s), transactions' = SeenTransactions(s),
         entries' = SeenEntries(s)
  PROVE  Inv'
<1> USE DEF Inv, WritesConfined
<1>0. wrote[s] \in Writes /\ xid[s] \in Xids /\ xid[s] # None
  BY SchemaAssumption DEF TypeOK, Writing
<1>1. TypeOK'
  <2>1. accounts' \in [AccountIds -> AccountRow \cup {None}]
    BY <1>0 DEF TypeOK, SeenAccounts, Writes
  <2>2. \A a \in AccountIds : accounts'[a] # None => AccountAllowed(accounts'[a])
    BY <1>0 DEF TypeOK, SeenAccounts, Writes, WritesSound
  <2>3. transactions' \subseteq TransactionRows /\ entries' \subseteq EntryRows
    BY <1>0 DEF TypeOK, SeenTransactions, SeenEntries, Writes
  <2>4. \A t, u \in transactions' : t # u => ~TransactionCollides(t, u)
    BY DEF RowsDistinct
  <2>5. \A e, f \in entries' : e # f => e.id # f.id
    BY DEF RowsDistinct
  <2>6. \A e \in entries' : e.amount > 0
    BY DEF WritesSound, SeenEntries, TypeOK
  <2> QED BY <2>1, <2>2, <2>3, <2>4, <2>5, <2>6, Ended
          DEF TypeOK, TransactionCollides, AccountAllowed
<1>2. XidsDistinct'
  BY Ended DEF XidsDistinct
<1>l. LogClosed'
  <2>1. \A t \in transactions' : t.created_xid # None
    BY <1>0, SchemaAssumption DEF TypeOK, TransactionRows, SeenTransactions, Writes
  <2>2. ASSUME NEW t \in transactions', Closed(t.created_xid) \/ t.created_xid = xid[s]
        PROVE  Closed(t.created_xid)'
    BY <1>0, <2>1, <2>2, Ended DEF Closed, XidsDistinct
  <2>3. ASSUME NEW e \in entries'
        PROVE  \E t \in transactions' :
                  t.id = e.transaction_id /\ (Closed(t.created_xid) \/ t.created_xid = xid[s])
    <3>1. CASE e \in entries
      BY <3>1 DEF LogClosed, SeenTransactions
    <3>2. CASE e \in wrote[s].entries
      BY <3>2 DEF WritesSound
    <3> QED BY <3>1, <3>2 DEF SeenEntries
  <2>4. \A e \in entries' : \E t \in transactions' :
           t.id = e.transaction_id /\ Closed(t.created_xid)'
    BY <2>2, <2>3
  <2> QED BY <2>4 DEF LogClosed, Closed
<1>3. RowsDistinct'
  <2> SUFFICES ASSUME NEW q \in Sessions
        PROVE  /\ \A t, u \in SeenTransactions(q)' : t # u => ~TransactionCollides(t, u)
               /\ \A e, f \in SeenEntries(q)' : e # f => e.id # f.id
               /\ \A p \in Sessions \ {q} :
                     /\ \A t \in wrote'[q].transactions, u \in wrote'[p].transactions :
                           ~TransactionCollides(t, u)
                     /\ \A e \in wrote'[q].entries, f \in wrote'[p].entries : e.id # f.id
    BY DEF RowsDistinct, TransactionCollides
  <2>1. CASE q = s
    BY <2>1, Ended DEF RowsDistinct, SeenTransactions, SeenEntries, TransactionCollides
  <2>2. CASE q # s
    <3>1. SeenTransactions(q)' = SeenTransactions(s) \cup wrote[q].transactions
          /\ SeenEntries(q)' = SeenEntries(s) \cup wrote[q].entries
      BY <2>2, Ended DEF SeenTransactions, SeenEntries
    <3>2. \A t, u \in SeenTransactions(q)' : t # u => ~TransactionCollides(t, u)
      BY <2>2, <3>1 DEF RowsDistinct, SeenTransactions, TransactionCollides
    <3>3. \A e, f \in SeenEntries(q)' : e # f => e.id # f.id
      BY <2>2, <3>1 DEF RowsDistinct, SeenEntries
    <3> QED BY <2>2, <3>2, <3>3, Ended DEF RowsDistinct
  <2> QED BY <2>1, <2>2
<1>4. WritesSound'
  <2> SUFFICES ASSUME NEW q \in Sessions
        PROVE  /\ xid'[q] = None => wrote'[q] = NoWrites
               /\ \A e \in wrote'[q].entries :
                     /\ e.amount > 0
                     /\ \E t \in SeenTransactions(q)' :
                           t.id = e.transaction_id /\ t.created_xid = xid'[q]
                     /\ SeenAccounts(q)'[e.account_id] # None
                     /\ SeenAccounts(q)'[e.account_id].currency = e.currency
               /\ \A b \in AccountIds : wrote'[q].accounts[b] # None =>
                     /\ Unlocked(q, b)'
                     /\ AccountAllowed(wrote'[q].accounts[b])
                     /\ accounts'[b] # None => TermsFixed(accounts'[b], wrote'[q].accounts[b])
    BY DEF WritesSound, AccountAllowed, TermsFixed
  <2>1. CASE q = s
    BY <2>1, Ended
  <2>2. CASE q # s
    <3>0. wrote'[q] = wrote[q] /\ xid'[q] = xid[q] /\ wrote[q] \in Writes
          /\ SeenTransactions(q) \subseteq SeenTransactions(q)'
      BY <2>2, Ended DEF TypeOK, SeenTransactions
    <3>1. ASSUME NEW b \in AccountIds, wrote[q].accounts[b] # None
          PROVE  /\ Unlocked(q, b)'
                 /\ AccountAllowed(wrote[q].accounts[b])
                 /\ accounts'[b] = accounts[b]
      <4>1. Unlocked(q, b) /\ AccountAllowed(wrote[q].accounts[b])
        BY <3>1 DEF WritesSound
      <4>2. wrote[s].accounts[b] = None
        BY <2>2, <4>1 DEF Unlocked
      <4> QED BY <4>1, <4>2, Ended DEF Unlocked, SeenAccounts
    <3>2. ASSUME NEW e \in wrote[q].entries
          PROVE  /\ SeenAccounts(q)'[e.account_id] # None
                 /\ SeenAccounts(q)'[e.account_id].currency = e.currency
      <4>0. e.account_id \in AccountIds
        BY <3>0 DEF Writes, EntryRows
      <4>1. SeenAccounts(q)[e.account_id] # None /\ SeenAccounts(q)[e.account_id].currency = e.currency
        BY DEF WritesSound
      <4>2. CASE wrote[q].accounts[e.account_id] # None
        BY <3>0, <4>0, <4>1, <4>2 DEF SeenAccounts
      <4>3. CASE wrote[q].accounts[e.account_id] = None
        <5>1. accounts[e.account_id] # None /\ accounts[e.account_id].currency = e.currency
          BY <4>0, <4>1, <4>3 DEF SeenAccounts
        <5>2. accounts'[e.account_id] # None /\ accounts'[e.account_id].currency = e.currency
          BY <4>0, <5>1 DEF SeenAccounts, WritesSound, TermsFixed
        <5> QED BY <3>0, <4>0, <4>3, <5>2 DEF SeenAccounts
      <4> QED BY <4>2, <4>3
    <3>3. \A b \in AccountIds : wrote[q].accounts[b] # None /\ accounts'[b] # None =>
             TermsFixed(accounts'[b], wrote[q].accounts[b])
      BY <3>1 DEF WritesSound
    <3> QED BY <3>0, <3>1, <3>2, <3>3 DEF WritesSound
  <2> QED BY <2>1, <2>2
<1> QED BY <1>1, <1>2, <1>l, <1>3, <1>4

\* An account inserted outside any transaction keeps the invariant.
LEMMA KeepsInsertAlone ==
  ASSUME Inv, NEW a \in AccountIds, NEW row \in AccountRow, InsertAccountAlone(a, row)
  PROVE  Inv'
<1> USE DEF Inv, WritesConfined
<1>0. /\ UNCHANGED <<transactions, entries, spent, xid, failed, wrote>>
      /\ accounts[a] = None /\ AccountAllowed(row)
      /\ accounts' = [accounts EXCEPT ![a] = row]
      /\ \A q \in Sessions : wrote[q].accounts[a] = None
  BY DEF InsertAccountAlone
<1>1. TypeOK'
  BY <1>0 DEF TypeOK, TransactionCollides, AccountAllowed
<1>2. XidsDistinct'
  BY <1>0 DEF XidsDistinct
<1>l. LogClosed'
  BY <1>0 DEF LogClosed, Closed
<1>3. RowsDistinct'
  BY <1>0 DEF RowsDistinct, SeenTransactions, SeenEntries, TransactionCollides
<1>4. WritesSound'
  <2>1. ASSUME NEW q \in Sessions, NEW b \in AccountIds, SeenAccounts(q)[b] # None
        PROVE  SeenAccounts(q)'[b] = SeenAccounts(q)[b] /\ b # a
    BY <1>0, <2>1 DEF SeenAccounts, TypeOK
  <2>2. \A q \in Sessions : \A e \in wrote[q].entries : e.account_id \in AccountIds
    BY DEF TypeOK, Writes, EntryRows
  <2>3. \A b \in AccountIds \ {a} : accounts'[b] = accounts[b]
    BY <1>0 DEF TypeOK
  <2>4. \A q \in Sessions : SeenTransactions(q)' = SeenTransactions(q)
    BY <1>0 DEF SeenTransactions
  <2> QED BY <1>0, <2>1, <2>2, <2>3, <2>4 DEF WritesSound, Unlocked, AccountAllowed, TermsFixed
<1> QED BY <1>1, <1>2, <1>l, <1>3, <1>4

-----------------------------------------------------------------------------
(* The theorems *)

\* What a step commits: nothing, all that one session wrote, checked, or one
\* new account.
LEMMA CommitsOrNot ==
  ASSUME TypeOK, [Next]_vars
  PROVE  \/ UNCHANGED <<accounts, transactions, entries>>
         \/ \E s \in Sessions : /\ Writing(s) /\ BalancedAtCommit(s) /\ End(s)
                                /\ accounts' = SeenAccounts(s)
                                /\ transactions' = SeenTransactions(s)
                                /\ entries' = SeenEntries(s)
         \/ \E a \in AccountIds, row \in AccountRow : InsertAccountAlone(a, row)
  BY StepCases, StatementWrites DEF Begin, Commit, Rollback, TakeXid, vars

\* Every step keeps the invariant.
LEMMA InvStep ==
  ASSUME Inv, [Next]_vars
  PROVE  Inv'
<1>1. ASSUME UNCHANGED vars PROVE Inv'
  BY <1>1, KeepsQuiet DEF vars, Inv, TypeOK
<1>2. ASSUME NEW s \in Sessions, StatementOf(s) PROVE Inv'
  BY <1>2, StatementWrites, KeepsQuiet, KeepsAccount, KeepsTransaction, KeepsEntry DEF Inv
<1>3. ASSUME NEW s \in Sessions, Commit(s) PROVE Inv'
  BY <1>3, KeepsCommit, KeepsRollback DEF Commit
<1>4. ASSUME NEW s \in Sessions, Begin(s) \/ Rollback(s) PROVE Inv'
  BY <1>4, KeepsBegin, KeepsRollback DEF Rollback
<1>5. ASSUME NEW a \in AccountIds, NEW row \in AccountRow, InsertAccountAlone(a, row) PROVE Inv'
  BY <1>5, KeepsInsertAlone
<1>6. ASSUME NEW x \in Xids, TakeXid(x) PROVE Inv'
  BY <1>6, KeepsTakeXid
<1> QED BY <1>1, <1>2, <1>3, <1>4, <1>5, <1>6, StepCases

\* The invariant holds initially.
LEMMA InvInit ==
  ASSUME Init
  PROVE  Inv
<1>1. NoWrites \in Writes /\ NoWrites.transactions = {} /\ NoWrites.entries = {}
      /\ \A a \in AccountIds : NoWrites.accounts[a] = None
  BY DEF NoWrites, Writes
<1>2. TypeOK
  BY <1>1, SchemaAssumption DEF Init, TypeOK, AccountAllowed
<1>3. WritesConfined
  BY <1>1 DEF Init, WritesConfined, XidsDistinct, LogClosed, RowsDistinct, WritesSound, SeenTransactions, SeenEntries
<1> QED BY <1>2, <1>3 DEF Inv

\* Transaction ids are never reused, and entries are written only by the one
\* database transaction their parent names, whatever created_xid a row was
\* given; in particular every committed row satisfies the CHECKs of its table.
THEOREM SchemaSound == Spec => [](TypeOK /\ WritesConfined)
<1>1. Init => Inv
  BY InvInit
<1>2. Inv /\ [Next]_vars => Inv'
  BY InvStep
<1>3. Spec => []Inv
  BY <1>1, <1>2, PTL DEF Spec
<1> QED BY <1>3 DEF Inv

\* Every committed row satisfies the CHECKs of its table, and ids and keys are
\* unique, whatever SQL is issued.
THEOREM RowsAllowed == Spec => []TypeOK
  BY SchemaSound, PTL

\* A COMMIT adds no entry to a transaction that has some, or whose created_xid is
\* of a database transaction that has ended.
LEMMA OldTransactionsSealed ==
  ASSUME Inv, NEW s \in Sessions, Writing(s), NEW t \in transactions,
         Closed(t.created_xid) \/ EntriesOf(t.id, entries) # {}
  PROVE  EntriesOf(t.id, SeenEntries(s)) = EntriesOf(t.id, entries)
<1>0. Closed(t.created_xid)
  <2> SUFFICES ASSUME EntriesOf(t.id, entries) # {} PROVE Closed(t.created_xid)
    OBVIOUS
  <2>1. PICK e \in entries : e.transaction_id = t.id
    BY DEF EntriesOf
  <2>2. PICK u \in transactions : u.id = e.transaction_id /\ Closed(u.created_xid)
    BY DEF Inv, WritesConfined, LogClosed
  <2>3. u = t
    BY <2>1, <2>2 DEF Inv, TypeOK, TransactionCollides
  <2> QED BY <2>2, <2>3
<1>1. ASSUME NEW e \in wrote[s].entries PROVE e.transaction_id # t.id
  <2>1. PICK u \in SeenTransactions(s) : u.id = e.transaction_id /\ u.created_xid = xid[s]
    BY DEF Inv, WritesConfined, WritesSound
  <2>2. t.created_xid # xid[s]
    BY <1>0 DEF Closed
  <2>3. u # t /\ t \in SeenTransactions(s)
    BY <2>1, <2>2 DEF SeenTransactions
  <2>4. ~TransactionCollides(u, t)
    BY <2>3 DEF Inv, WritesConfined, RowsDistinct
  <2> QED BY <2>1, <2>4 DEF TransactionCollides
<1> QED BY <1>1 DEF EntriesOf, SeenEntries

\* The terms of an account survive every step.
LEMMA TermsSurvive ==
  ASSUME Inv, NEW s \in Sessions, accounts' = SeenAccounts(s),
         NEW a \in AccountIds, accounts[a] # None
  PROVE  /\ accounts'[a] # None
         /\ accounts'[a].currency = accounts[a].currency
         /\ accounts'[a].allows_negative_balance = accounts[a].allows_negative_balance
  BY DEF Inv, WritesConfined, WritesSound, SeenAccounts, TermsFixed

\* A database transaction that has ended stays ended.
LEMMA ClosedForGood ==
  ASSUME TypeOK, [Next]_vars, NEW x, Closed(x), x # None
  PROVE  Closed(x)'
<1>1. CASE spent' = spent /\ xid' = xid
  BY <1>1 DEF Closed
<1>2. ASSUME NEW s \in Sessions, Begin(s) PROVE Closed(x)'
  BY <1>2 DEF Begin, Closed, TypeOK
<1>3. ASSUME NEW s \in Sessions, End(s) PROVE Closed(x)'
  BY <1>3, Ended DEF Closed
<1>4. ASSUME NEW y \in Xids, TakeXid(y) PROVE Closed(x)'
  BY <1>4 DEF TakeXid, Closed
<1> QED BY <1>1, <1>2, <1>3, <1>4, StepCases, StatementWrites
        DEF Commit, Rollback, InsertAccountAlone, vars

\* Whatever SQL is issued, and whatever created_xid it names, no committed
\* transaction that has entries or names a database transaction that has ended
\* gains or loses one; a row that took the DEFAULT is sealed by its own COMMIT;
\* no row is edited or removed but for an account's balance.
THEOREM LogSealed == Spec => SealedOnceClosed
<1> DEFINE
      A == /\ transactions \subseteq transactions' /\ entries \subseteq entries'
           /\ \A t \in transactions :
                 /\ Closed(t.created_xid) => Closed(t.created_xid)'
                 /\ Closed(t.created_xid) \/ EntriesOf(t.id, entries) # {} =>
                       EntriesOf(t.id, entries') = EntriesOf(t.id, entries)
           /\ \A s \in Sessions : \A t \in wrote[s].transactions :
                 t \in transactions' \ transactions /\ t.created_xid = xid[s] =>
                       Closed(t.created_xid)'
           /\ \A a \in AccountIds : accounts[a] # None =>
                 /\ accounts'[a] # None
                 /\ accounts'[a].currency = accounts[a].currency
                 /\ accounts'[a].allows_negative_balance
                        = accounts[a].allows_negative_balance
<1>1. TypeOK /\ WritesConfined /\ [Next]_vars => [A]_vars
  <2> SUFFICES ASSUME TypeOK, WritesConfined, [Next]_vars PROVE A
    OBVIOUS
  <2>0. \A t \in transactions : Closed(t.created_xid) => Closed(t.created_xid)'
    <3>1. \A t \in transactions : t.created_xid # None
      BY SchemaAssumption DEF TypeOK, TransactionRows
    <3> QED BY <3>1, ClosedForGood
  <2>1. CASE UNCHANGED <<accounts, transactions, entries>>
    BY <2>0, <2>1
  <2>2. ASSUME NEW s \in Sessions, Writing(s), End(s), accounts' = SeenAccounts(s),
               transactions' = SeenTransactions(s), entries' = SeenEntries(s)
        PROVE  A
    <3>1. \A t \in transactions : Closed(t.created_xid) \/ EntriesOf(t.id, entries) # {} =>
             EntriesOf(t.id, entries') = EntriesOf(t.id, entries)
      BY <2>2, OldTransactionsSealed DEF Inv
    <3>2. \A a \in AccountIds : accounts[a] # None =>
             /\ accounts'[a] # None
             /\ accounts'[a].currency = accounts[a].currency
             /\ accounts'[a].allows_negative_balance = accounts[a].allows_negative_balance
      BY <2>2, TermsSurvive DEF Inv
    <3>3. ASSUME NEW q \in Sessions, NEW t \in wrote[q].transactions,
                 t \in transactions' \ transactions, t.created_xid = xid[q]
          PROVE  Closed(t.created_xid)'
      <4>1. t \in wrote[s].transactions
        BY <2>2, <3>3 DEF SeenTransactions
      <4>2. q = s
        BY <4>1 DEF WritesConfined, RowsDistinct, TransactionCollides
      <4>3. xid[s] # None /\ xid[s] \in spent
        BY <2>2 DEF Writing, WritesConfined, XidsDistinct
      <4> QED BY <2>2, <3>3, <4>2, <4>3, Ended DEF Closed, WritesConfined, XidsDistinct
    <3> QED BY <2>0, <2>2, <3>1, <3>2, <3>3 DEF SeenTransactions, SeenEntries
  <2>3. ASSUME NEW a \in AccountIds, NEW row \in AccountRow, InsertAccountAlone(a, row)
        PROVE  A
    BY <2>0, <2>3 DEF InsertAccountAlone, TypeOK
  <2> QED BY <2>1, <2>2, <2>3, CommitsOrNot
<1>2. Spec => [][A]_vars
  <2> HIDE DEF A
  <2> QED BY <1>1, SchemaSound, PTL DEF Spec
<1> QED BY <1>2 DEF SealedOnceClosed

\* Whatever SQL is issued, every entry has its transaction and its account, in
\* the account's currency.
THEOREM EntriesStayAnchored == Spec => []EntriesAnchored
<1>1. Init => EntriesAnchored
  BY DEF Init, EntriesAnchored
<1>2. TypeOK /\ WritesConfined /\ EntriesAnchored /\ [Next]_vars => EntriesAnchored'
  <2> SUFFICES ASSUME TypeOK, WritesConfined, EntriesAnchored, [Next]_vars PROVE EntriesAnchored'
    OBVIOUS
  <2>1. CASE UNCHANGED <<accounts, transactions, entries>>
    BY <2>1 DEF EntriesAnchored
  <2>2. ASSUME NEW s \in Sessions, accounts' = SeenAccounts(s),
               transactions' = SeenTransactions(s), entries' = SeenEntries(s),
               NEW e \in entries'
        PROVE  /\ \E t \in transactions' : t.id = e.transaction_id
               /\ accounts'[e.account_id] # None
               /\ accounts'[e.account_id].currency = e.currency
    <3>1. CASE e \in wrote[s].entries
      BY <2>2, <3>1 DEF WritesConfined, WritesSound, SeenTransactions
    <3>2. CASE e \in entries
      <4>1. e.account_id \in AccountIds /\ accounts[e.account_id] # None
            /\ accounts[e.account_id].currency = e.currency
        BY <3>2 DEF EntriesAnchored, TypeOK, EntryRows
      <4>2. accounts'[e.account_id] # None /\ accounts'[e.account_id].currency = e.currency
        BY <2>2, <4>1, TermsSurvive DEF Inv
      <4> QED BY <2>2, <3>2, <4>2 DEF EntriesAnchored, SeenTransactions
    <3> QED BY <2>2, <3>1, <3>2 DEF SeenEntries
  <2>3. ASSUME NEW a \in AccountIds, NEW row \in AccountRow, InsertAccountAlone(a, row)
        PROVE  EntriesAnchored'
    BY <2>3 DEF InsertAccountAlone, EntriesAnchored, TypeOK, EntryRows
  <2> QED BY <2>1, <2>2, <2>3, CommitsOrNot DEF EntriesAnchored
<1> QED BY <1>1, <1>2, SchemaSound, PTL DEF Spec

\* Whatever SQL is issued, every committed transaction that has entries balances.
THEOREM AnySqlAlwaysBalances == Spec => []AnySqlBalances
<1>1. Init => AnySqlBalances
  BY DEF Init, AnySqlBalances
<1>2. TypeOK /\ WritesConfined /\ EntriesAnchored /\ AnySqlBalances /\ [Next]_vars => AnySqlBalances'
  <2> SUFFICES ASSUME TypeOK, WritesConfined, EntriesAnchored, AnySqlBalances, [Next]_vars
               PROVE  AnySqlBalances'
    OBVIOUS
  <2>1. CASE UNCHANGED <<accounts, transactions, entries>>
    BY <2>1 DEF AnySqlBalances, EntriesOf
  <2>2. ASSUME NEW s \in Sessions, Writing(s), BalancedAtCommit(s), entries' = SeenEntries(s),
               NEW e \in entries'
        PROVE  TransactionBalanced(EntriesOf(e.transaction_id, entries'))
    <3>1. CASE e \in wrote[s].entries
      BY <2>2, <3>1 DEF BalancedAtCommit
    <3>2. CASE e \in entries
      <4>1. PICK t \in transactions : t.id = e.transaction_id
        BY <3>2 DEF EntriesAnchored
      <4>2. EntriesOf(e.transaction_id, entries') = EntriesOf(e.transaction_id, entries)
        <5>1. EntriesOf(t.id, entries) # {}
          BY <3>2, <4>1 DEF EntriesOf
        <5> QED BY <2>2, <4>1, <5>1, OldTransactionsSealed DEF Inv
      <4> QED BY <3>2, <4>2 DEF AnySqlBalances
    <3> QED BY <2>2, <3>1, <3>2 DEF SeenEntries
  <2>3. (\A e \in entries' : TransactionBalanced(EntriesOf(e.transaction_id, entries')))
          => AnySqlBalances'
    BY DEF AnySqlBalances, EntriesOf
  <2>4. ASSUME NEW a \in AccountIds, NEW row \in AccountRow, InsertAccountAlone(a, row)
        PROVE  UNCHANGED entries
    BY <2>4 DEF InsertAccountAlone
  <2>5. UNCHANGED entries => AnySqlBalances'
    BY DEF AnySqlBalances, EntriesOf
  <2> QED BY <2>1, <2>2, <2>3, <2>4, <2>5, CommitsOrNot
<1> QED BY <1>1, <1>2, SchemaSound, EntriesStayAnchored, PTL DEF Spec
=============================================================================
