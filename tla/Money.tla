-------------------------------- MODULE Money --------------------------------
(***************************************************************************)
(* Amounts as src/domain/money.rs handles them.  A numeral is a mantissa   *)
(* and a scale, so 1.5 and 1.50 are two numerals of one value: a text may  *)
(* be any numeral, a Decimal is one that 96 bits and a scale of 28 can     *)
(* hold, and Parse is how a text becomes a Decimal.  The ledger keeps      *)
(* amounts as integers in units of 10^-MaxScale; Stored is what a NUMERIC  *)
(* column of that scale makes of a decimal.                                *)
(***************************************************************************)
EXTENDS Ledger

CONSTANTS
    MaxScale,         \* MAX_SCALE
    MaxIntegerDigits, \* MAX_INTEGER_DIGITS
    MaxDecimalScale,  \* of rust_decimal: 28
    MaxMantissa       \* of rust_decimal: 2^96 - 1

\* 10^k, as a function whose laws can be proved from its recursion.
TenTo[k \in Nat] == IF k = 0 THEN 1 ELSE 10 * TenTo[k - 1]

ASSUME ScaleAssumption ==
    /\ MaxScale \in Nat
    /\ MaxIntegerDigits \in Nat
    /\ MaxMagnitude = TenTo[MaxIntegerDigits + MaxScale]

\* Sums and differences of two amounts need no rounding either.
ASSUME DecimalAssumption ==
    /\ MaxDecimalScale \in Nat /\ MaxScale <= MaxDecimalScale
    /\ MaxMantissa \in Nat /\ 2 * MaxMagnitude <= MaxMantissa

-----------------------------------------------------------------------------
(* rust_decimal *)

Numeral == [mantissa : Int, scale : Nat]

Fits(mantissa) == mantissa \in (-MaxMantissa) .. MaxMantissa

Decimal == {d \in Numeral : Fits(d.mantissa) /\ d.scale <= MaxDecimalScale}

\* The mantissa of d at a scale not below its own.
AtScale(d, s) == d.mantissa * TenTo[s - d.scale]

CommonScale(d, e) == Max({d.scale, e.scale})

SameValue(d, e) == LET s == CommonScale(d, e) IN AtScale(d, s) = AtScale(e, s)

\* The mantissa of d at scale s, rounded half away from zero.
Rounded(d, s) ==
    IF d.scale <= s THEN AtScale(d, s)
    ELSE LET cut == TenTo[d.scale - s]
             Half(n) == (2 * n + cut) \div (2 * cut)
         IN IF d.mantissa >= 0 THEN Half(d.mantissa) ELSE -Half(-d.mantissa)

\* The scales at which a Decimal can hold the text, rounded.
FittingScales(text) ==
    {s \in 0 .. Min({text.scale, MaxDecimalScale}) : Fits(Rounded(text, s))}

Parses(text) == FittingScales(text) # {}

\* Decimal::from_str: as many of the decimals of the text as fit, the rest
\* rounded away.
Parse(text) ==
    LET s == Max(FittingScales(text)) IN [mantissa |-> Rounded(text, s), scale |-> s]

\* Decimal::normalize: no trailing zeros after the point.
Normalize(d) ==
    LET zeros == Max({k \in 0 .. d.scale : d.mantissa % TenTo[k] = 0})
    IN [mantissa |-> d.mantissa \div TenTo[zeros], scale |-> d.scale - zeros]

\* d + n * e at the finer of the two scales
PlusTimes(d, n, e) ==
    LET s == CommonScale(d, e)
    IN [mantissa |-> AtScale(d, s) + n * AtScale(e, s), scale |-> s]

-----------------------------------------------------------------------------
(* Money *)

Ok(value) == [error |-> None, value |-> value]

MoneyErrors == {"too_many_decimal_places", "magnitude_too_large", "currency_mismatch"}

ASSUME MoneyErrorsAssumption == None \notin MoneyErrors

Err(error) == [error |-> error, value |-> None]

\* Mutant: a scale within bounds is read off the text.
MoneyNew_NotNormalized(d, currency) ==
    IF d.scale > MaxScale THEN Err("too_many_decimal_places")
    ELSE IF d.mantissa >= TenTo[MaxIntegerDigits + d.scale]
            \/ -d.mantissa >= TenTo[MaxIntegerDigits + d.scale]
    THEN Err("magnitude_too_large")
    ELSE Ok([amount |-> d, currency |-> currency])

\* Mutant: what is too fine is left for the database to round.
MoneyNew_Rounds(d, currency) ==
    IF d.mantissa >= TenTo[MaxIntegerDigits + d.scale]
       \/ -d.mantissa >= TenTo[MaxIntegerDigits + d.scale]
    THEN Err("magnitude_too_large")
    ELSE Ok([amount |-> d, currency |-> currency])

\* Mutant: money is never negative.
MoneyNew_Unsigned(d, currency) ==
    LET n == Normalize(d)
    IN IF n.scale > MaxScale THEN Err("too_many_decimal_places")
       ELSE IF n.mantissa \notin 0 .. TenTo[MaxIntegerDigits + n.scale] - 1
       THEN Err("magnitude_too_large")
       ELSE Ok([amount |-> n, currency |-> currency])

\* Money::new: an amount that is too fine even without its trailing zeros, or
\* too large, is an error.
MoneyNew(d, currency) ==
    LET amount == IF d.scale > MaxScale THEN Normalize(d) ELSE d
        limit == TenTo[MaxIntegerDigits + amount.scale]
    IN IF amount.scale > MaxScale THEN Err("too_many_decimal_places")
       ELSE IF amount.mantissa >= limit \/ -amount.mantissa >= limit
       THEN Err("magnitude_too_large")
       ELSE Ok([amount |-> amount, currency |-> currency])

\* Mutant: the text as it was sent.
Canonical_AsSent(m) == m

\* Money::canonical, the form that is hashed.
Canonical(m) == [amount |-> Normalize(m.amount), currency |-> m.currency]

Combined(m, n, amount) ==
    IF m.currency # n.currency THEN Err("currency_mismatch")
    ELSE MoneyNew(amount, m.currency)

\* Mutant: the sum is not checked again.
CheckedAdd_Unchecked(m, n) ==
    Ok([amount |-> PlusTimes(m.amount, 1, n.amount), currency |-> m.currency])

CheckedAdd(m, n) == Combined(m, n, PlusTimes(m.amount, 1, n.amount))

CheckedSub(m, n) == Combined(m, n, PlusTimes(m.amount, -1, n.amount))

CheckedLt(m, n) ==
    IF m.currency # n.currency THEN Err("currency_mismatch")
    ELSE Ok(PlusTimes(m.amount, -1, n.amount).mantissa < 0)

-----------------------------------------------------------------------------
(* The NUMERIC column *)

\* Storing rounds silently.
Stored(d) == Rounded(d, MaxScale)

\* A column value as it is read back.
FromColumn(n) == [mantissa |-> n, scale |-> MaxScale]

\* Reference: d is a whole number of units within the range of the column.
IsWhole(d) ==
    LET s == Max({d.scale, MaxScale})
        units == AtScale(d, s)
        unit == TenTo[s - MaxScale]
    IN \E n \in (1 - MaxMagnitude) .. (MaxMagnitude - 1) : units = n * unit
=============================================================================
