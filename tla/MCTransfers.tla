----------------------------- MODULE MCTransfers -----------------------------
(***************************************************************************)
(* Small instances of Transfers for TLC.  Account 1 is the treasury (it    *)
(* may go negative), the others are customers unless said otherwise.       *)
(***************************************************************************)
EXTENDS Transfers, TLC

Symmetry == Permutations(Requests)

Row(currency, allowsNegative) ==
    [currency |-> currency, balance |-> 0, allows_negative_balance |-> allowsNegative]

Transfer(key, from, to, amount) ==
    [key |-> key,
     intent |-> [from_account_id |-> from, to_account_id |-> to,
                 amount |-> amount, currency |-> "EUR", description |-> "d"]]

ThreeAccounts == 1 .. 3

Treasury == 1 :> Row("EUR", TRUE) @@ 2 :> Row("EUR", FALSE) @@ 3 :> Row("EUR", FALSE)

\* The customer gets 2; either drain alone is covered, both are not.  The key
\* of one drain comes with a second payload.
ContentionInputs == {Transfer("fund", 1, 2, 2), Transfer("k", 2, 3, 2),
                     Transfer("d", 2, 3, 2), Transfer("k", 1, 3, 1)}

\* Transfers around a ring and against it, all able to pay; two requests that
\* pick the same input carry the same key.  The others are refused: own account, no
\* amount, another currency.
FourAccounts == 1 .. 4
RingAccounts == [a \in ThreeAccounts |-> Row("EUR", TRUE)] @@ 4 :> Row("USD", TRUE)
RingInputs == {Transfer("ab", 1, 2, 1), Transfer("ba", 2, 1, 1),
               Transfer("bc", 2, 3, 1), Transfer("ca", 3, 1, 1)}
OpposingInputs == RingInputs \cup {Transfer("self", 2, 2, 1), Transfer("zero", 1, 2, 0),
                                Transfer("usd", 3, 4, 1)}

\* A customer with enough for a single spend, and an account that is opened
\* meanwhile or is not.
RecoveryAccounts == 1 :> Row("EUR", TRUE) @@ 2 :> Row("EUR", FALSE) @@ 3 :> None
RecoveryInputs == {Transfer("fund", 1, 2, 1), Transfer("spend", 2, 1, 1),
                   Transfer("gone", 1, 3, 1)}

\* Two transfers into one customer whose balance then leaves its column.
RangeInputs == {Transfer("p", 1, 2, 3), Transfer("q", 1, 2, 3)}
=============================================================================
