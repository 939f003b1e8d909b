---------------------------- MODULE LedgerProofs ----------------------------
(***************************************************************************)
(* Sums of entries.  Net(E) folds over E in the order CHOOSE picks; here   *)
(* it is shown to be a sum: Net({}) = 0, and one entry more adds its       *)
(* signed amount, whichever it is.  The arguments are by smallest          *)
(* counterexample: strict inclusion is well-founded on finite sets.        *)
(***************************************************************************)
EXTENDS Ledger, FiniteSetTheorems, TLAPS

\* Some finite subsets of S.
FiniteFamily(Z, S) == Z # {} /\ Z \subseteq SUBSET S /\ \A T \in Z : IsFiniteSet(T)

\* T is in Z, and no other member of Z is part of it.
Smallest(T, Z) == T \in Z /\ \A U \in Z : U \subseteq T => U = T

\* Among finite sets there is always one that contains none of the others.
LEMMA SmallestFinite ==
  ASSUME NEW S, NEW Z, FiniteFamily(Z, S)
  PROVE  \E T : Smallest(T, Z)
<1> USE DEF FiniteFamily, Smallest
<1>1. IsWellFoundedOn(StrictSubsetOrdering(S), FiniteSubsetsOf(S))
  BY FS_StrictSubsetOrderingWellFounded
<1>2. Z \subseteq FiniteSubsetsOf(S)
  BY DEF FiniteSubsetsOf
<1>3. PICK T \in Z : \A U \in Z : ~(<<U, T>> \in StrictSubsetOrdering(S))
  BY <1>1, <1>2, WFMin
<1> QED BY <1>3 DEF StrictSubsetOrdering

\* The entry the fold takes first from a set.
First(s) == CHOOSE x \in s : TRUE

\* What the fold adds to the sum g has for the rest of s.
Fold(g, s) == IF s = {} THEN 0 ELSE Signed(First(s)) + g[s \ {First(s)}]

\* g is the function that the fold over S computes.
IsFold(g, S) == g = [s \in SUBSET S |-> Fold(g, s)]

\* Net(S) is the value at S of the function the fold defines.
LEMMA NetFolds ==
  ASSUME NEW S
  PROVE  Net(S) = (CHOOSE g : IsFold(g, S))[S]
  BY DEF Net, MapThenSumSet, MapThenFoldSet, IsFold, Fold, First

\* The first entry of a set that has one is in it.
LEMMA FirstIn ==
  ASSUME NEW s, s # {}
  PROVE  First(s) \in s
  BY DEF First

\* Two folds agree wherever both are defined.
LEMMA FoldsAgree ==
  ASSUME NEW S, IsFiniteSet(S), NEW T, IsFiniteSet(T), NEW g, IsFold(g, S), NEW h, IsFold(h, T)
  PROVE  \A s \in (SUBSET S) \cap (SUBSET T) : g[s] = h[s]
<1> DEFINE Z == {s \in (SUBSET S) \cap (SUBSET T) : g[s] # h[s]}
<1> SUFFICES ASSUME Z # {} PROVE FALSE
  OBVIOUS
<1>1. \A s \in SUBSET S : IsFiniteSet(s)
  BY FS_Subset
<1>f. FiniteFamily(Z, S)
  BY <1>1 DEF FiniteFamily
<1>s. \E s : Smallest(s, Z)
  <2> HIDE DEF Z
  <2> QED BY <1>f, SmallestFinite
<1>2. PICK s \in Z : \A u \in Z : u \subseteq s => u = s
  BY <1>s DEF Smallest
<1>3. g[s] = Fold(g, s) /\ h[s] = Fold(h, s)
  BY DEF IsFold
<1>4. s # {}
  BY <1>3 DEF Fold
<1>5. First(s) \in s
  BY <1>4, FirstIn
<1>6. s \ {First(s)} \notin Z
  BY <1>2, <1>5
<1>7. g[s \ {First(s)}] = h[s \ {First(s)}]
  BY <1>6
<1> QED BY <1>3, <1>4, <1>7 DEF Fold

\* The fold over a finite set is defined.
LEMMA FoldExists ==
  ASSUME NEW S, IsFiniteSet(S)
  PROVE  \E g : IsFold(g, S)
<1> DEFINE Z == {s \in SUBSET S : ~\E g : IsFold(g, s)}
<1> SUFFICES ASSUME Z # {} PROVE FALSE
  OBVIOUS
<1>1. \A s \in SUBSET S : IsFiniteSet(s)
  BY FS_Subset
<1>2. PICK T \in Z : \A u \in Z : u \subseteq T => u = T
  <2>1. FiniteFamily(Z, S)
    BY <1>1 DEF FiniteFamily
  <2>2. \E T : Smallest(T, Z)
    <3> HIDE DEF Z
    <3> QED BY <2>1, SmallestFinite
  <2> QED BY <2>2 DEF Smallest
<1> DEFINE f(s) == CHOOSE g : IsFold(g, s)
<1>3. ASSUME NEW s \in SUBSET T, s # T PROVE IsFold(f(s), s)
  <2>1. s \notin Z /\ s \in SUBSET S
    BY <1>2, <1>3
  <2>2. \E g : IsFold(g, s)
    BY <2>1
  <2> HIDE DEF IsFold
  <2> QED BY <2>2
<1> DEFINE rest(s) == s \ {First(s)}
           g == [s \in SUBSET T |-> IF s = {} THEN 0 ELSE Signed(First(s)) + f(rest(s))[rest(s)]]
<1>4. ASSUME NEW s \in SUBSET T, s # T PROVE g[s] = f(s)[s]
  <2>1. f(s)[s] = Fold(f(s), s)
    <3> HIDE DEF f
    <3> QED BY <1>3, <1>4 DEF IsFold
  <2>2. CASE s = {}
    BY <2>1, <2>2 DEF Fold
  <2>3. CASE s # {}
    <3>1. First(s) \in s
      BY <2>3, FirstIn
    <3>2. rest(s) \in SUBSET T /\ rest(s) # T /\ rest(s) \in SUBSET s
      BY <3>1
    <3>3. IsFold(f(rest(s)), rest(s)) /\ IsFold(f(s), s)
      BY <1>3, <1>4, <3>2
    <3>4. IsFiniteSet(s) /\ IsFiniteSet(rest(s))
      BY <1>1, <3>2
    <3> HIDE DEF f, rest
    <3>5. rest(s) \in (SUBSET s) \cap (SUBSET rest(s))
      BY <3>2
    <3>6. f(s)[rest(s)] = f(rest(s))[rest(s)]
      BY <3>3, <3>4, <3>5, FoldsAgree
    <3> QED BY <2>1, <2>3, <3>6 DEF Fold, rest
  <2> QED BY <2>2, <2>3
<1>5. ASSUME NEW s \in SUBSET T PROVE g[s] = Fold(g, s)
  <2>1. CASE s = {}
    BY <2>1 DEF Fold
  <2>2. CASE s # {}
    <3>1. First(s) \in s
      BY <2>2, FirstIn
    <3>2. rest(s) \in SUBSET T /\ rest(s) # T
      BY <3>1
    <3>3. g[rest(s)] = f(rest(s))[rest(s)]
      BY <1>4, <3>2
    <3>4. g[s] = Signed(First(s)) + f(rest(s))[rest(s)]
      BY <2>2
    <3> HIDE DEF g, f
    <3> QED BY <2>2, <3>3, <3>4 DEF Fold
  <2> QED BY <2>1, <2>2
<1>6. IsFold(g, T)
  <2>1. g = [s \in SUBSET T |-> g[s]]
    OBVIOUS
  <2> HIDE DEF g
  <2> QED BY <1>5, <2>1 DEF IsFold
<1> QED BY <1>2, <1>6
\* The sum starts with the first entry.
LEMMA NetFirst ==
  ASSUME NEW S, IsFiniteSet(S)
  PROVE  Net(S) = IF S = {} THEN 0 ELSE Signed(First(S)) + Net(S \ {First(S)})
<1> DEFINE f(s) == CHOOSE g : IsFold(g, s)
           rest == S \ {First(S)}
<1>1. IsFiniteSet(rest)
  BY FS_Subset
<1>2. IsFold(f(S), S) /\ IsFold(f(rest), rest)
  <2> HIDE DEF IsFold, rest
  <2> QED BY <1>1, FoldExists
<1>3. Net(S) = f(S)[S] /\ Net(rest) = f(rest)[rest]
  BY NetFolds
<1> HIDE DEF f
<1>4. f(S)[S] = Fold(f(S), S)
  BY <1>2 DEF IsFold
<1>5. rest \in (SUBSET S) \cap (SUBSET rest)
  OBVIOUS
<1>6. f(S)[rest] = f(rest)[rest]
  <2> HIDE DEF rest
  <2> QED BY <1>1, <1>2, <1>5, FoldsAgree
<1> QED BY <1>3, <1>4, <1>6 DEF Fold

\* No entries, no balance.
LEMMA NetEmpty == Net({}) = 0
  BY NetFirst, FS_EmptySet

\* A sum of amounts is a number.
LEMMA NetType ==
  ASSUME NEW S, IsFiniteSet(S), \A e \in S : Signed(e) \in Int
  PROVE  Net(S) \in Int
<1> DEFINE Z == {s \in SUBSET S : Net(s) \notin Int}
<1> SUFFICES ASSUME Z # {} PROVE FALSE
  OBVIOUS
<1>1. \A s \in SUBSET S : IsFiniteSet(s)
  BY FS_Subset
<1>f. FiniteFamily(Z, S)
  BY <1>1 DEF FiniteFamily
<1>s. \E s : Smallest(s, Z)
  <2> HIDE DEF Z
  <2> QED BY <1>f, SmallestFinite
<1>2. PICK s \in Z : \A u \in Z : u \subseteq s => u = s
  BY <1>s DEF Smallest
<1>3. s # {}
  BY NetEmpty
<1>4. First(s) \in s
  BY <1>3, FirstIn
<1>5. s \ {First(s)} \notin Z
  BY <1>2, <1>4
<1>6. Net(s \ {First(s)}) \in Int /\ Signed(First(s)) \in Int
  BY <1>4, <1>5
<1>7. Net(s) = Signed(First(s)) + Net(s \ {First(s)})
  BY <1>1, <1>3, NetFirst
<1> QED BY <1>6, <1>7

\* Any entry may be taken out of a sum.
LEMMA NetRemove ==
  ASSUME NEW S, IsFiniteSet(S), \A e \in S : Signed(e) \in Int, NEW x \in S
  PROVE  Net(S) = Signed(x) + Net(S \ {x})
<1> DEFINE Z == {s \in SUBSET S : \E e \in s : Net(s) # Signed(e) + Net(s \ {e})}
<1> SUFFICES ASSUME Z # {} PROVE FALSE
  OBVIOUS
<1>1. \A s \in SUBSET S : IsFiniteSet(s)
  BY FS_Subset
<1>f. FiniteFamily(Z, S)
  BY <1>1 DEF FiniteFamily
<1>s. \E s : Smallest(s, Z)
  <2> HIDE DEF Z
  <2> QED BY <1>f, SmallestFinite
<1>2. PICK s \in Z : \A u \in Z : u \subseteq s => u = s
  BY <1>s DEF Smallest
<1>3. PICK e \in s : Net(s) # Signed(e) + Net(s \ {e})
  OBVIOUS
<1> DEFINE f == First(s)
<1>4. f \in s /\ Net(s) = Signed(f) + Net(s \ {f})
  BY <1>1, NetFirst, FirstIn
<1>5. f # e
  BY <1>3, <1>4
<1> HIDE DEF f
<1>6. s \ {f} \notin Z /\ s \ {e} \notin Z
  BY <1>2, <1>3, <1>4
<1>7. /\ Net(s \ {f}) = Signed(e) + Net((s \ {f}) \ {e})
      /\ Net(s \ {e}) = Signed(f) + Net((s \ {e}) \ {f})
  BY <1>3, <1>4, <1>5, <1>6
<1>8. (s \ {f}) \ {e} = (s \ {e}) \ {f}
  OBVIOUS
<1>9. Signed(e) \in Int /\ Signed(f) \in Int
  BY <1>3, <1>4
<1>10. Net((s \ {e}) \ {f}) \in Int
  <2>1. IsFiniteSet((s \ {e}) \ {f}) /\ \A d \in (s \ {e}) \ {f} : Signed(d) \in Int
    BY <1>1
  <2> QED BY <2>1, NetType
<1>11. /\ Net(s) = Signed(f) + (Signed(e) + Net((s \ {e}) \ {f}))
       /\ Net(s \ {e}) = Signed(f) + Net((s \ {e}) \ {f})
  BY <1>4, <1>7, <1>8
<1>12. \A x1, x2, x3 \in Int : x1 + (x2 + x3) = x2 + (x1 + x3)
  OBVIOUS
<1> QED BY <1>3, <1>9, <1>10, <1>11, <1>12

\* One entry more adds its signed amount.
LEMMA NetAdd ==
  ASSUME NEW S, IsFiniteSet(S), \A e \in S : Signed(e) \in Int,
         NEW x, x \notin S, Signed(x) \in Int
  PROVE  Net(S \cup {x}) = Net(S) + Signed(x)
<1>1. IsFiniteSet(S \cup {x})
  BY FS_AddElement
<1>2. Net(S \cup {x}) = Signed(x) + Net((S \cup {x}) \ {x})
  BY <1>1, NetRemove
<1>3. (S \cup {x}) \ {x} = S
  OBVIOUS
<1>4. Net(S) \in Int
  BY NetType
<1>5. Net(S \cup {x}) = Signed(x) + Net(S)
  BY <1>2, <1>3
<1> QED BY <1>4, <1>5

\* Two entries of opposite sign in one currency are a balanced transaction.
LEMMA PairBalanced ==
  ASSUME NEW c, NEW d, c # d, Signed(c) \in Int, Signed(d) = -Signed(c), c.currency = d.currency
  PROVE  TransactionBalanced({c, d})
<1>1. Net({} \cup {c}) = Net({}) + Signed(c)
  BY FS_EmptySet, NetAdd
<1>2. {} \cup {c} = {c} /\ {c} \cup {d} = {c, d} /\ {e.currency : e \in {c, d}} = {c.currency}
  OBVIOUS
<1>3. Net({c}) = 0 + Signed(c)
  BY <1>1, <1>2, NetEmpty
<1>4. IsFiniteSet({c}) /\ Cardinality({c}) = 1 /\ \A x : Cardinality({x}) = 1
  BY FS_Singleton
<1>5. Signed(d) \in Int
  OBVIOUS
<1>6. Net({c} \cup {d}) = Net({c}) + Signed(d)
  BY <1>4, <1>5, NetAdd
<1>7. Net({c, d}) = 0
  <2>1. Net({c, d}) = (0 + Signed(c)) + (-Signed(c))
    BY <1>2, <1>3, <1>6
  <2>2. \A x \in Int : (0 + x) + (-x) = 0
    OBVIOUS
  <2> QED BY <2>1, <2>2
<1>8. Cardinality({c, d}) >= 2
  <2>1. Cardinality({c} \cup {d}) = 1 + 1
    BY <1>4, FS_AddElement
  <2>2. Cardinality({c, d}) = 1 + 1
    BY <1>2, <2>1
  <2> QED BY <2>2
<1>9. Cardinality({e.currency : e \in {c, d}}) = 1
  BY <1>2, <1>4
<1> QED BY <1>7, <1>8, <1>9 DEF TransactionBalanced
-----------------------------------------------------------------------------
(* The two postings of a transfer *)

\* The credit of the sender and the debit of the receiver.
CreditLeg(id, i) == [transaction_id |-> id, account_id |-> i.from_account_id,
                     direction |-> "credit", amount |-> i.amount, currency |-> i.currency]

DebitLeg(id, i) == [transaction_id |-> id, account_id |-> i.to_account_id,
                    direction |-> "debit", amount |-> i.amount, currency |-> i.currency]

\* They are two entries, with opposite signs.
LEMMA Legs ==
  ASSUME NEW id, NEW i, i.amount \in Int
  PROVE  /\ Postings(id, i) = {CreditLeg(id, i), DebitLeg(id, i)}
         /\ CreditLeg(id, i) # DebitLeg(id, i)
         /\ Signed(CreditLeg(id, i)) = -i.amount
         /\ Signed(DebitLeg(id, i)) = i.amount
         /\ CreditLeg(id, i).account_id = i.from_account_id
         /\ DebitLeg(id, i).account_id = i.to_account_id
         /\ CreditLeg(id, i).currency = i.currency
         /\ DebitLeg(id, i).currency = i.currency
         /\ CreditLeg(id, i).transaction_id = id
         /\ DebitLeg(id, i).transaction_id = id
<1>1. CreditLeg(id, i).direction = "credit" /\ DebitLeg(id, i).direction = "debit"
  BY DEF CreditLeg, DebitLeg
<1>2. CreditLeg(id, i) # DebitLeg(id, i)
  BY <1>1
<1> QED BY <1>2 DEF Postings, CreditLeg, DebitLeg, Signed

\* Adding the postings of a transfer to a log leaves its sum as it was, and so the
\* postings alone sum to nothing.
LEMMA PostingsNet ==
  ASSUME NEW E, IsFiniteSet(E), \A e \in E : Signed(e) \in Int,
         NEW id, NEW i, i.amount \in Int, E \cap Postings(id, i) = {}
  PROVE  /\ IsFiniteSet(E \cup Postings(id, i))
         /\ \A e \in E \cup Postings(id, i) : Signed(e) \in Int
         /\ Net(E \cup Postings(id, i)) = Net(E)
<1> DEFINE C == CreditLeg(id, i)
           D == DebitLeg(id, i)
<1>1. Postings(id, i) = {C, D} /\ C # D /\ Signed(C) = -i.amount /\ Signed(D) = i.amount
  BY Legs
<1> HIDE DEF C, D
<1>2. C \notin E /\ D \notin E \cup {C} /\ E \cup Postings(id, i) = (E \cup {C}) \cup {D}
  BY <1>1
<1>3. Signed(C) \in Int /\ Signed(D) \in Int
  BY <1>1
<1>4. /\ IsFiniteSet(E \cup {C}) /\ \A e \in E \cup {C} : Signed(e) \in Int
      /\ Net(E \cup {C}) = Net(E) + Signed(C)
  BY <1>2, <1>3, FS_AddElement, NetAdd
<1>5. /\ IsFiniteSet((E \cup {C}) \cup {D})
      /\ \A e \in (E \cup {C}) \cup {D} : Signed(e) \in Int
      /\ Net((E \cup {C}) \cup {D}) = Net(E \cup {C}) + Signed(D)
  <2> DEFINE F == E \cup {C}
  <2>1. IsFiniteSet(F) /\ D \notin F /\ \A e \in F : Signed(e) \in Int
    BY <1>2, <1>4
  <2> HIDE DEF F
  <2>2. /\ IsFiniteSet(F \cup {D}) /\ Net(F \cup {D}) = Net(F) + Signed(D)
        /\ \A e \in F \cup {D} : Signed(e) \in Int
    BY <1>3, <2>1, FS_AddElement, NetAdd
  <2> QED BY <2>2 DEF F
<1>6. Net(E) \in Int
  BY NetType
<1>7. Net((E \cup {C}) \cup {D}) = (Net(E) + (-i.amount)) + i.amount
  BY <1>1, <1>4, <1>5
<1>8. \A x, y \in Int : (x + (-y)) + y = x
  OBVIOUS
<1> QED BY <1>2, <1>5, <1>6, <1>7, <1>8

\* The postings of a transfer pass entries_balanced_trigger.
LEMMA PostingsBalanced ==
  ASSUME NEW id, NEW i, i.amount \in Int
  PROVE  /\ Net(Postings(id, i)) = 0
         /\ IsFiniteSet(Postings(id, i)) /\ Cardinality(Postings(id, i)) = 2
         /\ {e.currency : e \in Postings(id, i)} = {i.currency}
         /\ TransactionBalanced(Postings(id, i))
<1> DEFINE C == CreditLeg(id, i)
           D == DebitLeg(id, i)
<1>1. Postings(id, i) = {C, D} /\ C # D /\ C.currency = i.currency /\ D.currency = i.currency
  BY Legs
<1> HIDE DEF C, D
<1>2. Net(Postings(id, i)) = 0
  <2>1. {} \cup Postings(id, i) = Postings(id, i) /\ {} \cap Postings(id, i) = {}
    OBVIOUS
  <2>2. IsFiniteSet({}) /\ \A e \in {} : Signed(e) \in Int
    BY FS_EmptySet
  <2>3. Net({} \cup Postings(id, i)) = Net({})
    BY <2>1, <2>2, PostingsNet
  <2> QED BY <2>1, <2>3, NetEmpty
<1>3. IsFiniteSet(Postings(id, i)) /\ Cardinality(Postings(id, i)) = 2
  <2>1. IsFiniteSet({C}) /\ Cardinality({C}) = 1
    BY FS_Singleton
  <2>2. D \notin {C}
    BY <1>1
  <2>3. /\ IsFiniteSet({C} \cup {D})
        /\ Cardinality({C} \cup {D}) =
             IF D \in {C} THEN Cardinality({C}) ELSE Cardinality({C}) + 1
    BY ONLY <2>1, FS_AddElement, Zenon
  <2>4. Cardinality({C} \cup {D}) = 2
    BY ONLY <2>1, <2>2, <2>3
  <2>5. Postings(id, i) = {C} \cup {D}
    BY <1>1
  <2> QED BY <2>3, <2>4, <2>5
<1>4. {e.currency : e \in Postings(id, i)} = {i.currency}
  BY <1>1
<1>5. Cardinality({i.currency}) = 1
  BY FS_Singleton
<1> QED BY <1>2, <1>3, <1>4, <1>5 DEF TransactionBalanced
=============================================================================
