------------------------------ MODULE MCSchema ------------------------------
(* Small instances of Schema for TLC. *)
EXTENDS Schema, TLC

CONSTANT usd

\* A funding account opened earlier; the other id is still to be inserted.
FirstOpen ==
    [a \in AccountIds |-> IF a = 1 THEN [currency |-> usd, balance |-> 0,
                                         allows_negative_balance |-> TRUE]
                          ELSE None]

\* Sessions, ids and keys are interchangeable.
Symmetry == Permutations(Sessions) \cup Permutations(TransactionIds)
                \cup Permutations(Keys) \cup Permutations(EntryIds)
                \cup Permutations(Xids)
=============================================================================
