------------------------------- MODULE MCSweep -------------------------------
(***************************************************************************)
(* An instance of Sweep, and with it of Edge and Money, for TLC.  One      *)
(* decimal place and one integer digit: 9.9 is the largest amount.  A      *)
(* Decimal has two decimal places and a mantissa of three digits.          *)
(* Account 1 is the treasury, 2 and 3 are customers, 4 is still to be      *)
(* opened.                                                                 *)
(***************************************************************************)
EXTENDS Sweep, TLC

Seed == 1 :> [currency |-> "EUR", balance |-> 0, allows_negative_balance |-> TRUE]
     @@ 2 :> [currency |-> "EUR", balance |-> 0, allows_negative_balance |-> FALSE]
     @@ 3 :> [currency |-> "EUR", balance |-> 0, allows_negative_balance |-> FALSE]
     @@ 4 :> None

Dec(mantissa, scale) == [mantissa |-> mantissa, scale |-> scale]

Header(length) == [present |-> TRUE, ascii |-> TRUE, length |-> length]

\* 2.0 from the treasury to the customer, with the key of length 1.
Plain == [header |-> Header(1), body |-> "json", from_account_id |-> 1,
          to_account_id |-> 2, amount |-> Dec(20, 1), currency |-> "EUR",
          description |-> 1]

\* Spellings of one value, longer than a Decimal too; values at and past either
\* limit, nothing.  1.999 is parsed as 2.00, 9.999 as 10.0, and 1000 not at all.
Amounts == {Dec(20, 1), Dec(2000, 3), Dec(1999, 3), Dec(155, 2), Dec(9999, 3),
            Dec(1000, 0), Dec(-10, 0), Dec(0, 2)}

Transfers ==
    {[Plain EXCEPT !.amount = d] : d \in Amounts}
    \cup {[Plain EXCEPT !.header.length = n] : n \in {0, 3}}
    \cup {[Plain EXCEPT !.header.present = FALSE, !.body = b] :
               b \in {"declared_too_large", "stalled"}}
    \cup {[Plain EXCEPT !.header.ascii = FALSE], [Plain EXCEPT !.currency = "???"]}
    \cup {[Plain EXCEPT !.description = 2]}
    \cup {[Plain EXCEPT !.header.length = 2, !.currency = "USD"],
          [Plain EXCEPT !.header.length = 2, !.from_account_id = 2, !.to_account_id = 1],
          [Plain EXCEPT !.header.length = 2, !.to_account_id = 3, !.amount = Dec(99, 1)]}

\* Amounts spelt with more decimals than a Decimal has.
LongTransfers == {[Plain EXCEPT !.amount = d] : d \in {Dec(2000, 3), Dec(1999, 3)}}

NewAccount == [body |-> "json", name |-> 1, currency |-> "EUR",
               allows_negative_balance |-> FALSE]

Openings == {NewAccount, [NewAccount EXCEPT !.body = "malformed", !.name = 0],
             [NewAccount EXCEPT !.name = 0, !.allows_negative_balance = TRUE],
             [NewAccount EXCEPT !.name = 2]}

Drifted == {99}

Symmetry == Permutations(Requests)
=============================================================================
