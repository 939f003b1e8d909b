---------------------------- MODULE MoneyProofs ----------------------------
(***************************************************************************)
(* The arithmetic of src/domain/money.rs for every scale and every number  *)
(* of digits: powers of ten, decimals compared by value, the normal form,  *)
(* what the parser keeps of a text, what Money::new accepts and what       *)
(* checked arithmetic returns.                                             *)
(*                                                                         *)
(* Arguments over the exponent are by smallest counterexample: the less-   *)
(* than relation is well-founded on the naturals.                          *)
(***************************************************************************)
EXTENDS Money, WellFoundedInduction, TLAPS

-----------------------------------------------------------------------------
(* Powers of ten *)

\* Every set of naturals has a least element.
LEMMA Least ==
  ASSUME NEW S, S \subseteq Nat, S # {}
  PROVE  \E n \in S : \A m \in S : n <= m
<1>1. PICK n \in S : \A m \in S : ~(<<m, n>> \in OpToRel(<, Nat))
  BY NatLessThanWellFounded, WFMin
<1>2. \A m \in S : ~(m < n)
  BY <1>1 DEF OpToRel
<1> QED BY <1>2

\* g holds the powers of ten up to n.
Powers(g, n) == g[0] = 1 /\ \A k \in 1 .. n : g[k] = 10 * g[k - 1]

\* There are such g for every n.
LEMMA PowersExist ==
  \A n \in Nat : \E g : Powers(g, n)
<1> DEFINE Z == {n \in Nat : ~\E g : Powers(g, n)}
<1> SUFFICES ASSUME Z # {} PROVE FALSE
  OBVIOUS
<1>1. PICK n \in Z : \A m \in Z : n <= m
  <2>1. Z \subseteq Nat
    OBVIOUS
  <2> HIDE DEF Z
  <2> QED BY <2>1, Least
<1>2. CASE n = 0
  <2>1. Powers([k \in {0} |-> 1], 0)
    BY DEF Powers
  <2> QED BY <1>2, <2>1
<1>3. CASE n # 0
  <2>1. n - 1 \in Nat /\ n - 1 \notin Z
    BY <1>1, <1>3
  <2>2. PICK g : Powers(g, n - 1)
    BY <2>1
  <2> DEFINE h == [k \in 0 .. n |-> IF k = n THEN 10 * g[n - 1] ELSE g[k]]
  <2>3. Powers(h, n)
    BY <1>3, <2>1, <2>2 DEF Powers
  <2> QED BY <2>3
<1> QED BY <1>2, <1>3

\* Any two of them agree as far as both go.
LEMMA PowersAgree ==
  ASSUME NEW m \in Nat, NEW n \in Nat, NEW g, NEW h, Powers(g, m), Powers(h, n)
  PROVE  \A k \in Nat : k <= m /\ k <= n => g[k] = h[k]
<1> DEFINE Z == {k \in Nat : k <= m /\ k <= n /\ g[k] # h[k]}
<1> SUFFICES ASSUME Z # {} PROVE FALSE
  OBVIOUS
<1>1. PICK k \in Z : \A j \in Z : k <= j
  <2>1. Z \subseteq Nat
    OBVIOUS
  <2> HIDE DEF Z
  <2> QED BY <2>1, Least
<1>2. k # 0
  BY DEF Powers
<1>3. k - 1 \in Nat /\ k - 1 \notin Z
  BY <1>1, <1>2
<1>4. g[k - 1] = h[k - 1]
  BY <1>3
<1>5. k \in 1 .. m /\ k \in 1 .. n
  BY <1>2
<1> QED BY <1>4, <1>5 DEF Powers

\* So the recursion that defines TenTo has a solution, and TenTo is one.
LEMMA TenToDef ==
  TenTo = [k \in Nat |-> IF k = 0 THEN 1 ELSE 10 * TenTo[k - 1]]
<1> DEFINE Pw(n) == CHOOSE g : Powers(g, n)
           G == [n \in Nat |-> Pw(n)[n]]
           IsG(g) == g = [k \in Nat |-> IF k = 0 THEN 1 ELSE 10 * g[k - 1]]
<1>1. \A n \in Nat : Powers(Pw(n), n)
  BY PowersExist
<1> HIDE DEF Pw
<1>2. ASSUME NEW n \in Nat, n # 0 PROVE G[n] = 10 * G[n - 1]
  <2>1. n - 1 \in Nat /\ n \in 1 .. n
    BY <1>2
  <2>2. Pw(n)[n] = 10 * Pw(n)[n - 1]
    BY <1>1, <2>1 DEF Powers
  <2>3. Pw(n)[n - 1] = Pw(n - 1)[n - 1]
    BY <1>1, <2>1, PowersAgree
  <2> QED BY <2>1, <2>2, <2>3
<1>3. G[0] = 1
  BY <1>1 DEF Powers
<1>4. IsG(G)
  <2>1. G = [k \in Nat |-> G[k]]
    OBVIOUS
  <2> HIDE DEF G
  <2> QED BY <1>2, <1>3, <2>1
<1>5. TenTo = CHOOSE g : IsG(g)
  BY DEF TenTo
<1> HIDE DEF IsG
<1>6. IsG(TenTo)
  BY <1>4, <1>5
<1> QED BY <1>6 DEF IsG

\* The recursion, upwards.
LEMMA TenToStep ==
  TenTo[0] = 1 /\ \A n \in Nat : TenTo[n + 1] = 10 * TenTo[n]
<1>1. TenTo[0] = 1
  BY TenToDef
<1>2. ASSUME NEW n \in Nat PROVE TenTo[n + 1] = 10 * TenTo[n]
  <2>1. n + 1 \in Nat /\ n + 1 # 0 /\ (n + 1) - 1 = n
    OBVIOUS
  <2> QED BY <2>1, TenToDef
<1> QED BY <1>1, <1>2

\* A power of ten is a positive number.
LEMMA TenToType ==
  \A n \in Nat : TenTo[n] \in Nat /\ TenTo[n] >= 1
<1> DEFINE Z == {n \in Nat : ~(TenTo[n] \in Nat /\ TenTo[n] >= 1)}
<1> SUFFICES ASSUME Z # {} PROVE FALSE
  OBVIOUS
<1>1. PICK n \in Z : \A m \in Z : n <= m
  <2>1. Z \subseteq Nat
    OBVIOUS
  <2> HIDE DEF Z
  <2> QED BY <2>1, Least
<1>2. n # 0
  BY TenToStep
<1>3. n - 1 \in Nat /\ n - 1 \notin Z /\ (n - 1) + 1 = n
  BY <1>1, <1>2
<1>4. TenTo[n] = 10 * TenTo[n - 1]
  BY <1>3, TenToStep
<1> QED BY <1>3, <1>4

\* Powers multiply by adding exponents.
LEMMA TenToPlus ==
  \A m, n \in Nat : TenTo[m + n] = TenTo[m] * TenTo[n]
<1> SUFFICES ASSUME NEW m \in Nat PROVE \A n \in Nat : TenTo[m + n] = TenTo[m] * TenTo[n]
  OBVIOUS
<1> DEFINE Z == {n \in Nat : TenTo[m + n] # TenTo[m] * TenTo[n]}
<1> SUFFICES ASSUME Z # {} PROVE FALSE
  OBVIOUS
<1>1. PICK n \in Z : \A k \in Z : n <= k
  <2>1. Z \subseteq Nat
    OBVIOUS
  <2> HIDE DEF Z
  <2> QED BY <2>1, Least
<1>2. n # 0
  BY TenToStep, TenToType
<1>3. n - 1 \in Nat /\ n - 1 \notin Z /\ (n - 1) + 1 = n /\ (m + (n - 1)) + 1 = m + n
  BY <1>1, <1>2
<1>4. /\ TenTo[n] = 10 * TenTo[n - 1]
      /\ TenTo[m + n] = 10 * TenTo[m + (n - 1)]
      /\ TenTo[m + (n - 1)] = TenTo[m] * TenTo[n - 1]
  BY <1>3, TenToStep
<1>5. \A x, y \in Nat : 10 * (x * y) = x * (10 * y)
  OBVIOUS
<1> QED BY <1>3, <1>4, <1>5, TenToType

\* Two powers of ten, one as a multiple of the other.
LEMMA TenToSplit ==
  ASSUME NEW m \in Nat, NEW n \in Nat, m <= n
  PROVE  n - m \in Nat /\ TenTo[n] = TenTo[m] * TenTo[n - m]
<1>1. n - m \in Nat /\ m + (n - m) = n
  OBVIOUS
<1> QED BY <1>1, TenToPlus

-----------------------------------------------------------------------------
(* Multiplication and division *)

\* A positive factor may be cancelled.
LEMMA Cancel ==
  \A x, y \in Int, t \in Nat : t >= 1 =>
     (x * t = y * t <=> x = y) /\ (x * t < y * t <=> x < y)
<1>1. \A x, y \in Int, t \in Nat : t >= 1 => (x * t = y * t <=> x = y)
  OBVIOUS
<1>2. \A x, y \in Int, t \in Nat : t >= 1 => (x * t < y * t <=> x < y)
  OBVIOUS
<1> QED BY <1>1, <1>2

\* Products are numbers, and may be regrouped.
LEMMA Products ==
  \A x, y, z \in Int : /\ x * y \in Int
                       /\ (x * y) * z = x * (y * z)
                       /\ (x + y) * z = x * z + y * z
                       /\ (x - y) * z = x * z - y * z
<1>1. \A x, y, z \in Int : x * y \in Int /\ (x * y) * z = x * (y * z)
  OBVIOUS
<1>2. \A x, y, z \in Int : (x + y) * z = x * z + y * z
  OBVIOUS
<1>3. \A x, y, z \in Int : (x - y) * z = x * z - y * z
  OBVIOUS
<1> QED BY <1>1, <1>2, <1>3

\* The remainder is zero for multiples, and for nothing else.
LEMMA Divides ==
  ASSUME NEW a \in Int, NEW b \in Nat, b >= 1
  PROVE  /\ (a \div b) \in Int
         /\ (a % b) = 0 => a = (a \div b) * b
         /\ \A q \in Int : a = q * b => (a % b) = 0
<1>1. (a \div b) \in Int
  OBVIOUS
<1>2. (a % b) = 0 => a = (a \div b) * b
  OBVIOUS
<1>3. \A q \in Int : a = q * b => (a % b) = 0
  OBVIOUS
<1> QED BY <1>1, <1>2, <1>3

-----------------------------------------------------------------------------
(* Decimals by value *)

\* A set of naturals with a bound has a greatest element.
LEMMA Greatest ==
  ASSUME NEW n \in Nat, NEW S, S \subseteq 0 .. n, S # {}
  PROVE  Max(S) \in S /\ \A k \in S : k <= Max(S)
<1> DEFINE Z == {z \in Nat : \E k \in S : z = n - k}
<1>0. \A k \in S : k \in Nat /\ k <= n /\ n - k \in Nat
  OBVIOUS
<1>1. Z \subseteq Nat /\ Z # {}
  BY <1>0
<1>2. PICK z \in Z : \A y \in Z : z <= y
  <2> HIDE DEF Z
  <2> QED BY <1>1, Least
<1>3. PICK m \in S : z = n - m
  OBVIOUS
<1>4. \A k \in S : n - m <= n - k
  BY <1>0, <1>2, <1>3
<1>5. \A k \in S : m >= k
  <2>1. \A x, y \in Nat : n - x <= n - y => x >= y
    OBVIOUS
  <2> QED BY <1>0, <1>4, <2>1
<1>6. \E x \in S : \A y \in S : x >= y
  BY <1>5
<1>7. Max(S) \in S /\ \A y \in S : Max(S) >= y
  BY <1>6 DEF Max
<1> QED BY <1>7

\* The finer of two scales.
LEMMA CommonScaleFiner ==
  ASSUME NEW d \in Numeral, NEW e \in Numeral
  PROVE  /\ CommonScale(d, e) \in {d.scale, e.scale}
         /\ d.scale <= CommonScale(d, e) /\ e.scale <= CommonScale(d, e)
<1> DEFINE S == {d.scale, e.scale}
<1>1. d.scale \in Nat /\ e.scale \in Nat
  BY DEF Numeral
<1>2. S \subseteq 0 .. (d.scale + e.scale) /\ S # {} /\ d.scale + e.scale \in Nat
  BY <1>1
<1>3. Max(S) \in S /\ \A k \in S : k <= Max(S)
  <2> HIDE DEF S
  <2> QED BY <1>2, Greatest
<1> QED BY <1>3 DEF CommonScale

\* A decimal at a finer scale has as many more digits.
LEMMA Refine ==
  ASSUME NEW d \in Numeral, NEW s \in Nat, NEW u \in Nat, d.scale <= s, s <= u
  PROVE  /\ AtScale(d, s) \in Int
         /\ u - s \in Nat
         /\ AtScale(d, u) = AtScale(d, s) * TenTo[u - s]
<1>1. d.mantissa \in Int /\ d.scale \in Nat
  BY DEF Numeral
<1>2. /\ s - d.scale \in Nat /\ u - s \in Nat
      /\ (s - d.scale) + (u - s) = u - d.scale
  BY <1>1
<1>3. TenTo[u - d.scale] = TenTo[s - d.scale] * TenTo[u - s]
  BY <1>2, TenToPlus
<1>4. TenTo[s - d.scale] \in Int /\ TenTo[u - s] \in Int
  BY <1>2, TenToType
<1> QED BY <1>1, <1>2, <1>3, <1>4, Products DEF AtScale

\* The comparison by value may be made at any scale fine enough for both.
LEMMA ByValue ==
  ASSUME NEW d \in Numeral, NEW e \in Numeral, NEW u \in Nat, d.scale <= u, e.scale <= u
  PROVE  SameValue(d, e) <=> AtScale(d, u) = AtScale(e, u)
<1> DEFINE s == CommonScale(d, e)
<1>1. s \in Nat /\ d.scale <= s /\ e.scale <= s /\ s <= u
  BY CommonScaleFiner DEF Numeral
<1> HIDE DEF s
<1>2. /\ AtScale(d, s) \in Int /\ AtScale(e, s) \in Int /\ u - s \in Nat
      /\ AtScale(d, u) = AtScale(d, s) * TenTo[u - s]
      /\ AtScale(e, u) = AtScale(e, s) * TenTo[u - s]
  BY <1>1, Refine
<1>3. TenTo[u - s] \in Nat /\ TenTo[u - s] >= 1
  BY <1>2, TenToType
<1>4. AtScale(d, u) = AtScale(e, u) <=> AtScale(d, s) = AtScale(e, s)
  BY <1>2, <1>3, Cancel
<1> QED BY <1>4 DEF SameValue, s

\* Having the same value is symmetric and transitive.
LEMMA SameValueTransitive ==
  ASSUME NEW d \in Numeral, NEW e \in Numeral, NEW f \in Numeral, SameValue(d, e)
  PROVE  SameValue(e, d) /\ (SameValue(d, f) <=> SameValue(e, f))
<1> DEFINE u == d.scale + e.scale + f.scale
<1>1. u \in Nat /\ d.scale <= u /\ e.scale <= u /\ f.scale <= u
  BY DEF Numeral
<1> HIDE DEF u
<1>2. /\ SameValue(d, e) <=> AtScale(d, u) = AtScale(e, u)
      /\ SameValue(e, d) <=> AtScale(e, u) = AtScale(d, u)
      /\ SameValue(d, f) <=> AtScale(d, u) = AtScale(f, u)
      /\ SameValue(e, f) <=> AtScale(e, u) = AtScale(f, u)
  BY <1>1, ByValue
<1> QED BY <1>2

-----------------------------------------------------------------------------
(* The normal form *)

\* No trailing zero after the point.
Lowest(d) == d.scale # 0 => (d.mantissa % 10) # 0

\* Normalize drops as many zeros as there are, and keeps the value.
LEMMA NormalizeDrops ==
  ASSUME NEW d \in Numeral
  PROVE  /\ Normalize(d) \in Numeral
         /\ Normalize(d).scale <= d.scale
         /\ d.mantissa = Normalize(d).mantissa * TenTo[d.scale - Normalize(d).scale]
         /\ \A k \in 0 .. d.scale :
               (d.mantissa % TenTo[k]) = 0 => Normalize(d).scale <= d.scale - k
<1> DEFINE S == {k \in 0 .. d.scale : (d.mantissa % TenTo[k]) = 0}
           z == Max(S)
           m == d.mantissa \div TenTo[z]
<1>1. d.mantissa \in Int /\ d.scale \in Nat
  BY DEF Numeral
<1>2. 0 \in S
  <2>1. TenTo[0] = 1 /\ d.mantissa = d.mantissa * 1
    BY <1>1, TenToStep
  <2> QED BY <1>1, <2>1, Divides
<1>3. z \in S /\ \A k \in S : k <= z
  <2>1. S \subseteq 0 .. d.scale /\ S # {}
    BY <1>2
  <2> HIDE DEF S
  <2> QED BY <1>1, <2>1, Greatest
<1>4. Normalize(d) = [mantissa |-> m, scale |-> d.scale - z]
  BY DEF Normalize
<1>5. z \in Nat /\ z <= d.scale /\ (d.mantissa % TenTo[z]) = 0
  BY <1>1, <1>3
<1> HIDE DEF z
<1>6. TenTo[z] \in Nat /\ TenTo[z] >= 1
  BY <1>5, TenToType
<1>7. m \in Int /\ d.mantissa = m * TenTo[z]
  BY <1>1, <1>5, <1>6, Divides
<1> HIDE DEF m
<1>8. d.scale - z \in Nat /\ d.scale - (d.scale - z) = z
  BY <1>1, <1>5
<1>9. ASSUME NEW k \in 0 .. d.scale, (d.mantissa % TenTo[k]) = 0
      PROVE  d.scale - z <= d.scale - k
  <2>1. k <= z
    BY <1>3, <1>9
  <2> QED BY <1>1, <1>5, <2>1
<1> HIDE DEF S
<1> QED BY <1>1, <1>4, <1>5, <1>7, <1>8, <1>9 DEF Numeral

\* The normal form has the value, and no trailing zero.
LEMMA NormalizeLowest ==
  ASSUME NEW d \in Numeral
  PROVE  SameValue(d, Normalize(d)) /\ Lowest(Normalize(d))
<1> DEFINE n == Normalize(d)
           z == d.scale - n.scale
<1>1. /\ d.mantissa \in Int /\ d.scale \in Nat /\ n.mantissa \in Int /\ n.scale \in Nat
      /\ n \in Numeral /\ n.scale <= d.scale /\ d.mantissa = n.mantissa * TenTo[z]
      /\ \A k \in 0 .. d.scale : (d.mantissa % TenTo[k]) = 0 => n.scale <= d.scale - k
  BY NormalizeDrops DEF Numeral
<1> HIDE DEF n
<1>2. SameValue(d, n)
  <2>1. AtScale(d, d.scale) = d.mantissa
    <3>1. d.scale - d.scale = 0 /\ d.mantissa * 1 = d.mantissa
      BY <1>1
    <3> QED BY <3>1, TenToStep DEF AtScale
  <2>2. AtScale(n, d.scale) = d.mantissa
    BY <1>1 DEF AtScale
  <2>3. d.scale <= d.scale
    BY <1>1
  <2> QED BY <1>1, <2>1, <2>2, <2>3, ByValue
<1>3. ASSUME n.scale # 0, (n.mantissa % 10) = 0 PROVE FALSE
  <2> DEFINE q == n.mantissa \div 10
  <2>1. q \in Int /\ n.mantissa = q * 10
    BY <1>1, <1>3, Divides
  <2> HIDE DEF q
  <2>2. z \in Nat /\ z + 1 \in 0 .. d.scale /\ ~(n.scale <= d.scale - (z + 1))
    BY <1>1, <1>3
  <2> HIDE DEF z
  <2>3. TenTo[z + 1] = 10 * TenTo[z] /\ TenTo[z] \in Int
    BY <2>2, TenToStep, TenToType
  <2>4. d.mantissa = q * TenTo[z + 1]
    BY <1>1, <2>1, <2>3, Products
  <2>5. TenTo[z + 1] \in Nat /\ TenTo[z + 1] >= 1
    BY <2>2, TenToType
  <2>6. (d.mantissa % TenTo[z + 1]) = 0
    BY <1>1, <2>1, <2>4, <2>5, Divides
  <2> QED BY <1>1, <2>2, <2>6
<1> QED BY <1>2, <1>3 DEF n, Lowest

\* Of two decimals of one value in normal form, neither is finer.
LEMMA LowestNotFiner ==
  ASSUME NEW d \in Numeral, NEW e \in Numeral, SameValue(d, e), Lowest(e), d.scale <= e.scale
  PROVE  d = e
<1>1. /\ d.mantissa \in Int /\ d.scale \in Nat /\ e.mantissa \in Int /\ e.scale \in Nat
      /\ d = [mantissa |-> d.mantissa, scale |-> d.scale]
      /\ e = [mantissa |-> e.mantissa, scale |-> e.scale]
  BY DEF Numeral
<1> DEFINE k == e.scale - d.scale
<1>2. k \in Nat /\ e.scale <= e.scale /\ e.scale - e.scale = 0 /\ e.mantissa * 1 = e.mantissa
  BY <1>1
<1>3. AtScale(d, e.scale) = AtScale(e, e.scale)
  BY <1>1, <1>2, ByValue
<1>4. d.mantissa * TenTo[k] = e.mantissa
  BY <1>2, <1>3, TenToStep DEF AtScale
<1>5. CASE k = 0
  <2>1. d.mantissa * 1 = d.mantissa /\ d.scale = e.scale
    BY <1>1, <1>5
  <2>2. d.mantissa = e.mantissa
    BY <1>4, <1>5, <2>1, TenToStep
  <2> QED BY <1>1, <2>1, <2>2
<1>6. CASE k # 0
  <2>1. k - 1 \in Nat /\ (k - 1) + 1 = k /\ e.scale # 0
    BY <1>1, <1>2, <1>6
  <2> HIDE DEF k
  <2>2. TenTo[k] = 10 * TenTo[k - 1] /\ TenTo[k - 1] \in Int
    BY <2>1, TenToStep, TenToType
  <2>3. d.mantissa * TenTo[k - 1] \in Int /\ e.mantissa = (d.mantissa * TenTo[k - 1]) * 10
    <3>1. \A x, y \in Int : x * (10 * y) = (x * y) * 10 /\ x * y \in Int
      OBVIOUS
    <3> QED BY <1>1, <1>4, <2>2, <3>1
  <2>4. (e.mantissa % 10) = 0
    BY <1>1, <2>3, Divides
  <2> QED BY <2>1, <2>4 DEF Lowest
<1> QED BY <1>5, <1>6

\* The form that is hashed is the same exactly for amounts of one currency and one
\* value, so that it may stand for the value in the hash.
LEMMA CanonicalByValue ==
  ASSUME NEW m, NEW n, m.amount \in Numeral, n.amount \in Numeral
  PROVE  Canonical(m) = Canonical(n)
            <=> m.currency = n.currency /\ SameValue(m.amount, n.amount)
<1> DEFINE d == Normalize(m.amount)
           e == Normalize(n.amount)
<1>1. d \in Numeral /\ e \in Numeral /\ d.scale \in Nat /\ e.scale \in Nat
  BY NormalizeDrops DEF Numeral
<1>2. /\ SameValue(m.amount, d) /\ Lowest(d)
      /\ SameValue(n.amount, e) /\ Lowest(e)
  BY NormalizeLowest
<1> HIDE DEF d, e
<1>3. SameValue(m.amount, n.amount) <=> SameValue(d, e)
  <2>1. SameValue(m.amount, n.amount) <=> SameValue(d, n.amount)
    BY <1>1, <1>2, SameValueTransitive
  <2>2. SameValue(n.amount, d) <=> SameValue(e, d)
    BY <1>1, <1>2, SameValueTransitive
  <2>3. \A x, y \in Numeral : SameValue(x, y) => SameValue(y, x)
    BY SameValueTransitive
  <2> QED BY <1>1, <2>1, <2>2, <2>3
<1>4. SameValue(d, e) => d = e
  <2>1. d.scale <= e.scale \/ e.scale <= d.scale
    BY <1>1
  <2>2. SameValue(d, e) => SameValue(e, d)
    BY <1>1, SameValueTransitive
  <2> QED BY <1>1, <1>2, <2>1, <2>2, LowestNotFiner
<1>5. d = e => SameValue(d, e)
  BY DEF SameValue
<1>6. /\ Canonical(m) = [amount |-> d, currency |-> m.currency]
      /\ Canonical(n) = [amount |-> e, currency |-> n.currency]
  BY DEF Canonical, d, e
<1>7. Canonical(m) = Canonical(n) <=> d = e /\ m.currency = n.currency
  BY <1>6
<1> QED BY <1>3, <1>4, <1>5, <1>7

-----------------------------------------------------------------------------
(* Money::new and the column *)

\* What the column can hold, as an interval.
LEMMA RepresentableRange ==
  /\ MaxMagnitude \in Nat /\ MaxMagnitude >= 1
  /\ \A n \in Int : Representable(n) <=> n \in (1 - MaxMagnitude) .. (MaxMagnitude - 1)
<1>1. MaxMagnitude \in Nat /\ MaxMagnitude >= 1
  BY MagnitudeAssumption
<1> QED BY <1>1 DEF Representable

\* A column value is a decimal, whose mantissa counts units.
LEMMA ColumnValue ==
  ASSUME NEW n \in Int
  PROVE  /\ FromColumn(n) \in Numeral /\ FromColumn(n).scale = MaxScale
         /\ AtScale(FromColumn(n), MaxScale) = n
<1>1. MaxScale \in Nat /\ MaxScale - MaxScale = 0 /\ n * 1 = n
  BY ScaleAssumption
<1> QED BY <1>1, TenToStep DEF FromColumn, Numeral, AtScale

\* A decimal no finer than the column is a whole number of units.
LEMMA Units ==
  ASSUME NEW d \in Numeral, d.scale <= MaxScale
  PROVE  /\ AtScale(d, MaxScale) \in Int
         /\ \A n \in Int : SameValue(d, FromColumn(n)) <=> AtScale(d, MaxScale) = n
<1>1. MaxScale \in Nat /\ MaxScale <= MaxScale
  BY ScaleAssumption
<1>2. AtScale(d, MaxScale) \in Int
  BY <1>1, Refine
<1>3. ASSUME NEW n \in Int
      PROVE  SameValue(d, FromColumn(n)) <=> AtScale(d, MaxScale) = n
  <2>1. /\ FromColumn(n) \in Numeral /\ FromColumn(n).scale <= MaxScale
        /\ AtScale(FromColumn(n), MaxScale) = n
    BY <1>1, ColumnValue
  <2> QED BY <1>1, <2>1, ByValue
<1> QED BY <1>2, <1>3

\* The reference is that some value of the column has the value of d.
LEMMA WholeMeans ==
  ASSUME NEW d \in Numeral
  PROVE  IsWhole(d) <=>
           \E n \in (1 - MaxMagnitude) .. (MaxMagnitude - 1) : SameValue(d, FromColumn(n))
<1> QED BY DEF IsWhole, SameValue, CommonScale, AtScale, FromColumn

\* So it is a value of the column exactly if it is within range.
LEMMA WholeInScale ==
  ASSUME NEW d \in Numeral, d.scale <= MaxScale
  PROVE  IsWhole(d) <=> Representable(AtScale(d, MaxScale))
<1> DEFINE R == (1 - MaxMagnitude) .. (MaxMagnitude - 1)
<1>1. AtScale(d, MaxScale) \in Int /\ R \subseteq Int
  BY Units, RepresentableRange
<1>2. \A n \in R : SameValue(d, FromColumn(n)) <=> AtScale(d, MaxScale) = n
  BY <1>1, Units
<1>3. IsWhole(d) <=> \E n \in R : SameValue(d, FromColumn(n))
  BY WholeMeans
<1>4. Representable(AtScale(d, MaxScale)) <=> AtScale(d, MaxScale) \in R
  BY <1>1, RepresentableRange
<1> HIDE DEF R
<1> QED BY <1>2, <1>3, <1>4

\* Being whole is a matter of value.
LEMMA WholeByValue ==
  ASSUME NEW d \in Numeral, NEW e \in Numeral, SameValue(d, e)
  PROVE  IsWhole(d) <=> IsWhole(e)
<1> DEFINE R == (1 - MaxMagnitude) .. (MaxMagnitude - 1)
<1>1. \A n \in R : n \in Int /\ FromColumn(n) \in Numeral
  BY ColumnValue, RepresentableRange
<1> HIDE DEF R
<1>2. \A n \in R : SameValue(d, FromColumn(n)) <=> SameValue(e, FromColumn(n))
  BY <1>1, SameValueTransitive
<1> QED BY <1>2, WholeMeans DEF R

\* A whole number of units, however finely written, loses its zeros in the
\* normal form.
LEMMA WholeNormalizes ==
  ASSUME NEW d \in Numeral, d.scale > MaxScale, IsWhole(d)
  PROVE  Normalize(d).scale <= MaxScale
<1>1. MaxScale \in Nat /\ d.scale \in Nat /\ d.mantissa \in Int
  BY ScaleAssumption DEF Numeral
<1>2. PICK n \in Int : SameValue(d, FromColumn(n))
  BY RepresentableRange, WholeMeans
<1> DEFINE k == d.scale - MaxScale
<1>3. /\ k \in 0 .. d.scale /\ k \in Nat /\ d.scale - k = MaxScale
      /\ d.scale <= d.scale /\ MaxScale <= d.scale
      /\ d.scale - d.scale = 0 /\ d.mantissa * 1 = d.mantissa
  BY <1>1
<1>4. AtScale(d, d.scale) = AtScale(FromColumn(n), d.scale)
  BY <1>1, <1>2, <1>3, ColumnValue, ByValue
<1>5. d.mantissa = n * TenTo[k]
  BY <1>3, <1>4, TenToStep DEF AtScale, FromColumn
<1> HIDE DEF k
<1>6. (d.mantissa % TenTo[k]) = 0
  BY <1>1, <1>3, <1>5, TenToType, Divides
<1>7. Normalize(d).scale <= d.scale - k
  BY <1>3, <1>6, NormalizeDrops
<1> QED BY <1>3, <1>7

\* Counting integer digits is the same as measuring units.
LEMMA WithinDigits ==
  ASSUME NEW d \in Numeral, d.scale <= MaxScale
  PROVE  LET limit == TenTo[MaxIntegerDigits + d.scale]
         IN d.mantissa >= limit \/ -d.mantissa >= limit
               <=> ~Representable(AtScale(d, MaxScale))
<1> DEFINE limit == TenTo[MaxIntegerDigits + d.scale]
           t == TenTo[MaxScale - d.scale]
           x == d.mantissa
<1>1. /\ MaxScale \in Nat /\ MaxIntegerDigits \in Nat /\ d.scale \in Nat /\ x \in Int
      /\ MaxMagnitude = TenTo[MaxIntegerDigits + MaxScale]
  BY ScaleAssumption DEF Numeral
<1>2. /\ MaxIntegerDigits + d.scale \in Nat /\ MaxScale - d.scale \in Nat
      /\ (MaxIntegerDigits + d.scale) + (MaxScale - d.scale) = MaxIntegerDigits + MaxScale
  BY <1>1
<1>3. limit \in Nat /\ limit >= 1 /\ t \in Nat /\ t >= 1 /\ MaxMagnitude = limit * t
  <2>1. limit \in Nat /\ limit >= 1 /\ t \in Nat /\ t >= 1
    BY <1>2, TenToType
  <2>2. TenTo[(MaxIntegerDigits + d.scale) + (MaxScale - d.scale)] = limit * t
    BY <1>2, TenToPlus
  <2> QED BY <1>1, <1>2, <2>1, <2>2
<1>4. AtScale(d, MaxScale) = x * t
  BY DEF AtScale
<1> HIDE DEF limit, t, x
<1>5. x * t < limit * t <=> x < limit
  BY <1>1, <1>3, Cancel
<1>6. (-limit) * t < x * t <=> -limit < x
  <2>1. -limit \in Int
    BY <1>3
  <2> QED BY <1>1, <1>3, <2>1, Cancel
<1>7. (-limit) * t = -(limit * t)
  BY <1>3
<1>8. Representable(x * t) <=> -limit < x /\ x < limit
  BY <1>3, <1>5, <1>6, <1>7 DEF Representable
<1>9. x >= limit \/ -x >= limit <=> ~(-limit < x /\ x < limit)
  BY <1>1, <1>3
<1> QED BY <1>4, <1>8, <1>9 DEF limit, x

\* Money::new on an amount no finer than the column: taken as it is, or refused
\* for its size.
LEMMA MoneyNewInScale ==
  ASSUME NEW d \in Numeral, d.scale <= MaxScale, NEW c
  PROVE  MoneyNew(d, c) = IF Representable(AtScale(d, MaxScale))
                          THEN Ok([amount |-> d, currency |-> c])
                          ELSE Err("magnitude_too_large")
<1>1. ~(d.scale > MaxScale)
  BY ScaleAssumption DEF Numeral
<1> QED BY <1>1, WithinDigits DEF MoneyNew

\* Ok is told from Err.
LEMMA OkOrErr ==
  /\ \A v : Ok(v).error = None /\ Ok(v).value = v
  /\ \A e \in MoneyErrors : Err(e).error # None
  BY MoneyErrorsAssumption DEF Ok, Err

\* Money::new accepts an amount exactly if some column value equals it, and what it
\* keeps has that value: nothing is rounded (money.rs 10-12, 115-125).
THEOREM MoneyNewExact ==
  ASSUME NEW d \in Numeral, NEW c
  PROVE  /\ MoneyNew(d, c).error = None <=> IsWhole(d)
         /\ MoneyNew(d, c).error = None =>
               LET v == MoneyNew(d, c).value
               IN /\ v.currency = c
                  /\ v.amount \in Numeral /\ v.amount.scale <= MaxScale
                  /\ SameValue(d, v.amount)
                  /\ Stored(v.amount) = AtScale(v.amount, MaxScale)
                  /\ Stored(v.amount) \in Int /\ Representable(Stored(v.amount))
                  /\ SameValue(d, FromColumn(Stored(v.amount)))
<1> DEFINE a == IF d.scale > MaxScale THEN Normalize(d) ELSE d
<1>1. MaxScale \in Nat /\ d.scale \in Nat
  BY ScaleAssumption DEF Numeral
<1>2. a \in Numeral /\ SameValue(d, a) /\ a.scale \in Nat
  <2>1. CASE d.scale > MaxScale
    BY <2>1, NormalizeDrops, NormalizeLowest DEF Numeral
  <2>2. CASE ~(d.scale > MaxScale)
    BY <1>1, <2>2 DEF SameValue
  <2> QED BY <2>1, <2>2
<1>3. IsWhole(d) => a.scale <= MaxScale
  BY <1>1, WholeNormalizes
<1>4. IsWhole(d) <=> IsWhole(a)
  <2> HIDE DEF a
  <2> QED BY <1>2, WholeByValue
<1>5. CASE a.scale > MaxScale
  <2>1. MoneyNew(d, c) = Err("too_many_decimal_places")
    BY <1>5 DEF MoneyNew
  <2>2. ~IsWhole(d)
    <3> HIDE DEF a
    <3> QED BY <1>1, <1>2, <1>3, <1>5
  <2> QED BY <2>1, <2>2, OkOrErr DEF MoneyErrors
<1>6. CASE a.scale <= MaxScale
  <2>1. MoneyNew(d, c) = MoneyNew(a, c)
    <3>1. ~(a.scale > MaxScale)
      BY <1>1, <1>2, <1>6
    <3> QED BY <3>1 DEF MoneyNew
  <2> HIDE DEF a
  <2>2. IsWhole(d) <=> Representable(AtScale(a, MaxScale))
    BY <1>2, <1>4, <1>6, WholeInScale
  <2>3. CASE Representable(AtScale(a, MaxScale))
    <3>1. MoneyNew(d, c) = Ok([amount |-> a, currency |-> c])
      BY <1>2, <1>6, <2>1, <2>3, MoneyNewInScale
    <3>2. /\ MoneyNew(d, c).error = None
          /\ MoneyNew(d, c).value.amount = a /\ MoneyNew(d, c).value.currency = c
      BY <3>1, OkOrErr
    <3>3. Stored(a) = AtScale(a, MaxScale)
      BY <1>6 DEF Stored, Rounded
    <3>4. AtScale(a, MaxScale) \in Int /\ SameValue(a, FromColumn(Stored(a)))
      BY <1>2, <1>6, <3>3, Units
    <3>5. SameValue(d, FromColumn(Stored(a)))
      <4>1. FromColumn(Stored(a)) \in Numeral
        BY <3>3, <3>4, ColumnValue
      <4> QED BY <1>2, <3>4, <4>1, SameValueTransitive
    <3> QED BY <1>2, <1>6, <2>2, <2>3, <3>2, <3>3, <3>4, <3>5
  <2>4. CASE ~Representable(AtScale(a, MaxScale))
    <3>1. MoneyNew(d, c) = Err("magnitude_too_large")
      BY <1>2, <1>6, <2>1, <2>4, MoneyNewInScale
    <3> QED BY <2>2, <2>4, <3>1, OkOrErr DEF MoneyErrors
  <2> QED BY <2>3, <2>4
<1> QED BY <1>1, <1>2, <1>5, <1>6

-----------------------------------------------------------------------------
(* Parsing *)

\* Halves are rounded upwards, so a multiple of the unit is left alone.
LEMMA HalfExact ==
  ASSUME NEW q \in Int, NEW c \in Nat, c >= 1
  PROVE  (2 * (q * c) + c) \div (2 * c) = q
<1> DEFINE a == 2 * (q * c) + c
           b == 2 * c
<1>1. a \in Int /\ b \in Nat /\ b > 0 /\ a = q * b + c /\ 0 <= c /\ c < b
  OBVIOUS
<1> HIDE DEF a, b
<1>2. \A x \in Int : a - x * b >= 0 /\ a - x * b < b => x = q
  <2> SUFFICES ASSUME NEW x \in Int, a - x * b >= 0, a - x * b < b PROVE x = q
    OBVIOUS
  <2>1. (q - x) * b = q * b - x * b
    BY <1>1, Products
  <2>2. (q - x) * b < 1 * b /\ (-1) * b < (q - x) * b
    BY <1>1, <2>1
  <2>3. q - x < 1 /\ -1 < q - x
    <3>1. q - x \in Int /\ 1 \in Int /\ -1 \in Int /\ b \in Nat /\ b >= 1
      BY <1>1
    <3> QED BY <2>2, <3>1, Cancel
  <2> QED BY <2>3
<1>3. (a \div b) \in Int /\ a - (a \div b) * b >= 0 /\ a - (a \div b) * b < b
  BY <1>1
<1> QED BY <1>2, <1>3 DEF a, b

\* Rounding gives an integer, and the exact one if there is no remainder.
LEMMA RoundedExact ==
  ASSUME NEW d \in Numeral, NEW s \in Nat, s <= d.scale
  PROVE  /\ Rounded(d, s) \in Int
         /\ \A q \in Int : d.mantissa = q * TenTo[d.scale - s] => Rounded(d, s) = q
<1> DEFINE c == TenTo[d.scale - s]
           m == d.mantissa
           Half(n) == (2 * n + c) \div (2 * c)
<1>1. m \in Int /\ d.scale \in Nat /\ d.scale - s \in Nat /\ c \in Nat /\ c >= 1
  BY TenToType DEF Numeral
<1>2. CASE d.scale <= s
  <2>1. d.scale - s = 0 /\ s - d.scale = 0 /\ \A x \in Int : x * 1 = x
    BY <1>1, <1>2
  <2>2. Rounded(d, s) = m
    BY <1>1, <1>2, <2>1, TenToStep DEF Rounded, AtScale
  <2> QED BY <1>1, <2>1, <2>2, TenToStep
<1>3. CASE ~(d.scale <= s)
  <2>1. Rounded(d, s) = IF m >= 0 THEN Half(m) ELSE -Half(-m)
    BY <1>3 DEF Rounded
  <2> HIDE DEF c, m
  <2>2. Half(m) \in Int /\ -Half(-m) \in Int
    BY <1>1
  <2>3. ASSUME NEW q \in Int, m = q * c PROVE Half(m) = q /\ -Half(-m) = q
    <3>1. -q \in Int /\ -m = (-q) * c
      BY <1>1, <2>3
    <3>2. Half(m) = q
      BY <1>1, <2>3, HalfExact
    <3>3. Half(-m) = -q
      BY <1>1, <3>1, HalfExact
    <3> QED BY <3>2, <3>3
  <2> HIDE DEF Half
  <2> QED BY <2>1, <2>2, <2>3 DEF c, m
<1> QED BY <1>2, <1>3

\* The smaller of two scales.
LEMMA SmallerScale ==
  ASSUME NEW x \in Nat, NEW y \in Nat
  PROVE  Min({x, y}) \in Nat /\ Min({x, y}) <= x /\ Min({x, y}) <= y
         /\ \A s \in Nat : s <= x /\ s <= y => s <= Min({x, y})
<1>1. \E z \in {x, y} : \A w \in {x, y} : z <= w
  <2>1. CASE x <= y
    BY <2>1
  <2>2. CASE y <= x
    BY <2>2
  <2> QED BY <2>1, <2>2
<1>2. Min({x, y}) \in {x, y} /\ \A w \in {x, y} : Min({x, y}) <= w
  BY <1>1 DEF Min
<1> QED BY <1>2

\* The finest scale at which a text fits is the one it is parsed to.
LEMMA ParseFinest ==
  ASSUME NEW d \in Numeral, Parses(d)
  PROVE  /\ Parse(d).scale \in Nat /\ Parse(d).scale \in FittingScales(d)
         /\ Parse(d).scale <= d.scale /\ Parse(d).scale <= MaxDecimalScale
         /\ \A s \in FittingScales(d) : s <= Parse(d).scale
         /\ Parse(d).mantissa = Rounded(d, Parse(d).scale)
         /\ Parse(d) \in Decimal
<1> DEFINE F == FittingScales(d)
           top == Min({d.scale, MaxDecimalScale})
           s == Max(F)
<1>1. d.scale \in Nat /\ MaxDecimalScale \in Nat
  BY DecimalAssumption DEF Numeral
<1>2. /\ top \in Nat /\ top <= d.scale /\ top <= MaxDecimalScale
  BY <1>1, SmallerScale
<1>3. F = {k \in 0 .. top : Fits(Rounded(d, k))}
  BY DEF FittingScales
<1>4. F # {} /\ Parse(d) = [mantissa |-> Rounded(d, s), scale |-> s]
  BY DEF Parses, Parse
<1> HIDE DEF F, top
<1>5. s \in F /\ \A k \in F : k <= s
  <2>1. F \subseteq 0 .. top
    BY <1>3
  <2> QED BY <1>2, <1>4, <2>1, Greatest
<1> HIDE DEF s
<1>6. s \in Nat /\ s <= d.scale /\ s <= MaxDecimalScale /\ Fits(Rounded(d, s))
  BY <1>1, <1>2, <1>3, <1>5
<1>7. Rounded(d, s) \in Int
  BY <1>6, RoundedExact
<1> QED BY <1>4, <1>5, <1>6, <1>7 DEF Decimal, Numeral, F

\* A text that fits without rounding at some scale is parsed to its value.
LEMMA ParseExact ==
  ASSUME NEW d \in Numeral, NEW s \in Nat, s <= d.scale, s <= MaxDecimalScale,
         NEW q \in Int, Fits(q), d.mantissa = q * TenTo[d.scale - s]
  PROVE  Parses(d) /\ s <= Parse(d).scale /\ SameValue(d, Parse(d))
<1>1. d.scale \in Nat /\ d.mantissa \in Int /\ MaxDecimalScale \in Nat
  BY DecimalAssumption DEF Numeral
<1>2. s \in FittingScales(d)
  <2>1. Rounded(d, s) = q
    BY RoundedExact
  <2>2. s \in 0 .. Min({d.scale, MaxDecimalScale})
    <3> DEFINE top == Min({d.scale, MaxDecimalScale})
    <3>1. top \in Nat /\ s <= top
      BY <1>1, SmallerScale
    <3> HIDE DEF top
    <3>2. s \in 0 .. top
      BY <3>1
    <3> QED BY <3>2 DEF top
  <2> QED BY <2>1, <2>2 DEF FittingScales
<1>3. Parses(d)
  BY <1>2 DEF Parses
<1> DEFINE p == Parse(d)
           t == p.scale
<1>4. /\ t \in Nat /\ t <= d.scale /\ s <= t
      /\ p.mantissa = Rounded(d, t) /\ p \in Numeral
  BY <1>2, <1>3, ParseFinest DEF Decimal
<1> HIDE DEF p, t
<1>5. /\ d.scale - t \in Nat /\ t - s \in Nat /\ d.scale - s = (t - s) + (d.scale - t)
  BY <1>1, <1>4
<1> DEFINE x == TenTo[t - s]
           y == TenTo[d.scale - t]
<1>6. x \in Int /\ y \in Int /\ TenTo[d.scale - s] = x * y
  <2>1. x \in Int /\ y \in Int
    BY <1>5, TenToType
  <2>2. TenTo[(t - s) + (d.scale - t)] = x * y
    BY <1>5, TenToPlus
  <2> QED BY <1>5, <2>1, <2>2
<1> HIDE DEF x, y
<1>7. q * x \in Int /\ d.mantissa = (q * x) * y
  BY <1>6, Products
<1>8. p.mantissa = q * x
  BY <1>4, <1>7, RoundedExact DEF y
<1>9. AtScale(p, d.scale) = AtScale(d, d.scale)
  <2>1. AtScale(p, d.scale) = (q * x) * y
    BY <1>8 DEF AtScale, y, t
  <2>2. d.scale - d.scale = 0 /\ d.mantissa * 1 = d.mantissa
    BY <1>1
  <2>3. AtScale(d, d.scale) = d.mantissa
    BY <2>2, TenToStep DEF AtScale
  <2> QED BY <1>7, <2>1, <2>3
<1>10. SameValue(d, p)
  <2>1. d.scale <= d.scale /\ p.scale <= d.scale
    BY <1>1, <1>4 DEF t
  <2> QED BY <1>1, <1>4, <1>9, <2>1, ByValue
<1> QED BY <1>3, <1>4, <1>10 DEF p, t

\* A text that a Decimal can hold is parsed to itself.
LEMMA ParseOfDecimal ==
  ASSUME NEW d \in Decimal
  PROVE  Parses(d) /\ Parse(d) = d
<1>1. /\ d \in Numeral /\ d.mantissa \in Int /\ Fits(d.mantissa)
      /\ d.scale \in Nat /\ d.scale <= MaxDecimalScale
  BY DEF Decimal, Numeral
<1>2. d.scale <= d.scale /\ d.scale - d.scale = 0 /\ d.mantissa * 1 = d.mantissa
  BY <1>1
<1>3. d.mantissa = d.mantissa * TenTo[d.scale - d.scale]
  BY <1>2, TenToStep
<1>4. Parses(d) /\ d.scale <= Parse(d).scale
  BY <1>1, <1>2, <1>3, ParseExact
<1>5. /\ Parse(d) \in Numeral /\ Parse(d).scale = d.scale
      /\ Parse(d).mantissa = Rounded(d, d.scale)
  BY <1>1, <1>4, ParseFinest DEF Decimal
<1>6. Rounded(d, d.scale) = d.mantissa
  BY <1>1, <1>2, <1>3, RoundedExact
<1>7. \A x, y \in Numeral : x.mantissa = y.mantissa /\ x.scale = y.scale => x = y
  BY DEF Numeral
<1> QED BY <1>1, <1>4, <1>5, <1>6, <1>7

\* A text whose value a column can hold is parsed to that value, with however
\* many zeros it is spelt.
LEMMA ParseOfWhole ==
  ASSUME NEW d \in Numeral, IsWhole(d)
  PROVE  Parses(d) /\ SameValue(d, Parse(d)) /\ IsWhole(Parse(d))
<1>1. /\ d.scale \in Nat /\ d.mantissa \in Int /\ MaxScale \in Nat
      /\ MaxDecimalScale \in Nat /\ MaxScale <= MaxDecimalScale
      /\ MaxMantissa \in Nat /\ 2 * MaxMagnitude <= MaxMantissa
      /\ MaxMagnitude \in Nat /\ MaxMagnitude >= 1
  BY ScaleAssumption, DecimalAssumption, RepresentableRange DEF Numeral
<1>2. PICK n \in (1 - MaxMagnitude) .. (MaxMagnitude - 1) : SameValue(d, FromColumn(n))
  BY WholeMeans
<1>3. n \in Int /\ Fits(n)
  BY <1>1 DEF Fits
<1>4. Parses(d) /\ SameValue(d, Parse(d))
  <2>1. CASE d.scale <= MaxScale
    <3> DEFINE t == TenTo[MaxScale - d.scale]
    <3>1. MaxScale - d.scale \in Nat
      BY <1>1, <2>1
    <3>2. t \in Nat /\ t >= 1
      BY <3>1, TenToType
    <3>3. n = d.mantissa * t
      BY <1>2, <1>3, <2>1, Units DEF AtScale
    <3> HIDE DEF t
    <3>4. Fits(d.mantissa)
      <4>1. d.mantissa >= 0 => d.mantissa <= d.mantissa * t
        BY <1>1, <3>2
      <4>2. d.mantissa <= 0 => d.mantissa * t <= d.mantissa
        BY <1>1, <3>2
      <4> QED BY <1>1, <1>2, <3>3, <4>1, <4>2 DEF Fits
    <3>5. d \in Decimal
      BY <1>1, <2>1, <3>4 DEF Decimal
    <3> QED BY <3>5, ParseOfDecimal DEF SameValue
  <2>2. CASE d.scale > MaxScale
    <3>1. d.mantissa = n * TenTo[d.scale - MaxScale]
      <4>1. MaxScale <= d.scale /\ d.scale <= d.scale /\ d.scale - d.scale = 0
            /\ d.mantissa * 1 = d.mantissa
        BY <1>1, <2>2
      <4>2. AtScale(d, d.scale) = AtScale(FromColumn(n), d.scale)
        BY <1>1, <1>2, <1>3, <4>1, ColumnValue, ByValue
      <4> QED BY <4>1, <4>2, TenToStep DEF AtScale, FromColumn
    <3>2. MaxScale <= d.scale
      BY <1>1, <2>2
    <3> QED BY <1>1, <1>3, <3>1, <3>2, ParseExact
  <2> QED BY <1>1, <2>1, <2>2
<1>5. Parse(d) \in Numeral
  BY <1>4, ParseFinest DEF Decimal
<1> QED BY <1>4, <1>5, WholeByValue

-----------------------------------------------------------------------------
(* Checked arithmetic *)

\* Sums and differences of decimals are sums and differences of units.
LEMMA PlusTimesUnits ==
  ASSUME NEW d \in Numeral, NEW e \in Numeral, NEW k \in Int,
         d.scale <= MaxScale, e.scale <= MaxScale
  PROVE  LET p == PlusTimes(d, k, e)
         IN /\ p \in Numeral /\ p.scale <= MaxScale
            /\ AtScale(p, MaxScale) = AtScale(d, MaxScale) + k * AtScale(e, MaxScale)
            /\ AtScale(p, MaxScale) = p.mantissa * TenTo[MaxScale - p.scale]
            /\ MaxScale - p.scale \in Nat
<1> DEFINE s == CommonScale(d, e)
           t == TenTo[MaxScale - s]
           x == AtScale(d, s)
           y == AtScale(e, s)
           p == PlusTimes(d, k, e)
<1>1. /\ s \in Nat /\ d.scale <= s /\ e.scale <= s /\ s <= MaxScale
      /\ MaxScale \in Nat /\ MaxScale - s \in Nat
  BY CommonScaleFiner, ScaleAssumption DEF Numeral
<1>2. p = [mantissa |-> x + k * y, scale |-> s]
  BY DEF PlusTimes
<1> HIDE DEF s
<1>3. /\ x \in Int /\ y \in Int
      /\ AtScale(d, MaxScale) = x * t /\ AtScale(e, MaxScale) = y * t
  BY <1>1, Refine
<1>4. t \in Int
  BY <1>1, TenToType
<1>5. AtScale(p, MaxScale) = (x + k * y) * t
  BY <1>2 DEF AtScale
<1> HIDE DEF x, y, t, p
<1>6. k * y \in Int /\ (x + k * y) * t = x * t + (k * y) * t /\ (k * y) * t = k * (y * t)
  BY <1>3, <1>4, Products
<1>7. p.mantissa = x + k * y /\ p.scale = s /\ p \in Numeral
  BY <1>1, <1>2, <1>3, <1>6 DEF Numeral
<1> QED BY <1>1, <1>3, <1>5, <1>6, <1>7 DEF p, t

\* The result of checked arithmetic is exact, or an error that is due.
LEMMA CombinedExact ==
  ASSUME NEW m, NEW n, NEW d \in Numeral, d.scale <= MaxScale
  PROVE  LET result == Combined(m, n, d)
             units == AtScale(d, MaxScale)
         IN IF m.currency = n.currency /\ Representable(units)
            THEN result.error = None /\ Stored(result.value.amount) = units
            ELSE result.error # None
<1>1. CASE m.currency # n.currency
  BY <1>1, OkOrErr DEF Combined, MoneyErrors
<1>2. CASE m.currency = n.currency /\ ~Representable(AtScale(d, MaxScale))
  <2>1. Combined(m, n, d) = Err("magnitude_too_large")
    BY <1>2, MoneyNewInScale DEF Combined
  <2> QED BY <1>2, <2>1, OkOrErr DEF MoneyErrors
<1>3. CASE m.currency = n.currency /\ Representable(AtScale(d, MaxScale))
  <2>1. Combined(m, n, d) = Ok([amount |-> d, currency |-> m.currency])
    BY <1>3, MoneyNewInScale DEF Combined
  <2>2. Combined(m, n, d).error = None /\ Combined(m, n, d).value.amount = d
    BY <2>1, OkOrErr
  <2>3. Stored(d) = AtScale(d, MaxScale)
    BY DEF Stored, Rounded
  <2> QED BY <1>3, <2>2, <2>3
<1> QED BY <1>1, <1>2, <1>3

\* An amount as Money::new returns it.
IsMoney(m) == m.amount \in Numeral /\ m.amount.scale <= MaxScale

\* checked_add, checked_sub and checked_lt compute with units: exactly, or not at
\* all when the currencies differ or the column cannot hold the result.
THEOREM CheckedArithmetic ==
  ASSUME NEW m, NEW n, IsMoney(m), IsMoney(n)
  PROVE  LET x == AtScale(m.amount, MaxScale)
             y == AtScale(n.amount, MaxScale)
         IN /\ IF m.currency = n.currency /\ Representable(x + y)
               THEN /\ CheckedAdd(m, n).error = None
                    /\ Stored(CheckedAdd(m, n).value.amount) = x + y
               ELSE CheckedAdd(m, n).error # None
            /\ IF m.currency = n.currency /\ Representable(x - y)
               THEN /\ CheckedSub(m, n).error = None
                    /\ Stored(CheckedSub(m, n).value.amount) = x - y
               ELSE CheckedSub(m, n).error # None
            /\ m.currency = n.currency => CheckedLt(m, n).value = (x < y)
<1> USE DEF IsMoney
<1> DEFINE x == AtScale(m.amount, MaxScale)
           y == AtScale(n.amount, MaxScale)
           p == PlusTimes(m.amount, 1, n.amount)
           q == PlusTimes(m.amount, -1, n.amount)
<1>1. x \in Int /\ y \in Int
  BY Units
<1>2. p \in Numeral /\ p.scale <= MaxScale /\ AtScale(p, MaxScale) = x + 1 * y
  BY PlusTimesUnits
<1>3. /\ q \in Numeral /\ q.scale <= MaxScale /\ AtScale(q, MaxScale) = x + (-1) * y
      /\ AtScale(q, MaxScale) = q.mantissa * TenTo[MaxScale - q.scale]
      /\ MaxScale - q.scale \in Nat
  <2>1. -1 \in Int
    OBVIOUS
  <2> QED BY <2>1, PlusTimesUnits
<1>4. CheckedAdd(m, n) = Combined(m, n, p) /\ CheckedSub(m, n) = Combined(m, n, q)
  BY DEF CheckedAdd, CheckedSub
<1>5. m.currency = n.currency => CheckedLt(m, n).value = (q.mantissa < 0)
  BY OkOrErr DEF CheckedLt
<1> HIDE DEF x, y, p, q
<1>6. AtScale(p, MaxScale) = x + y /\ AtScale(q, MaxScale) = x - y
  BY <1>1, <1>2, <1>3
<1>7. q.mantissa < 0 <=> x < y
  <2> DEFINE t == TenTo[MaxScale - q.scale]
  <2>1. t \in Nat /\ t >= 1 /\ q.mantissa \in Int /\ q.mantissa * t = x - y
    BY <1>3, <1>6, TenToType DEF Numeral
  <2> HIDE DEF t
  <2>2. q.mantissa * t < 0 * t <=> q.mantissa < 0
    BY <2>1, Cancel
  <2>3. 0 * t = 0
    BY <2>1
  <2> QED BY <1>1, <2>1, <2>2, <2>3
<1>8. /\ IF m.currency = n.currency /\ Representable(x + y)
         THEN /\ CheckedAdd(m, n).error = None
              /\ Stored(CheckedAdd(m, n).value.amount) = x + y
         ELSE CheckedAdd(m, n).error # None
      /\ IF m.currency = n.currency /\ Representable(x - y)
         THEN /\ CheckedSub(m, n).error = None
              /\ Stored(CheckedSub(m, n).value.amount) = x - y
         ELSE CheckedSub(m, n).error # None
  BY <1>2, <1>3, <1>4, <1>6, CombinedExact
<1>9. m.currency = n.currency => CheckedLt(m, n).value = (x < y)
  BY <1>5, <1>7
<1> QED BY <1>8, <1>9 DEF x, y
=============================================================================
