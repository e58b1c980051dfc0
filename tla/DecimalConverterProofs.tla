----------------------- MODULE DecimalConverterProofs -----------------------
(***************************************************************************)
(* What the decimal converter does to an amount that is converted and      *)
(* converted back, for any decimals and any width of the fixed point type: *)
(* the amount never grows, and a second trip changes nothing.              *)
(***************************************************************************)
EXTENDS DecimalConverter, TLAPS

\* The quotient of a division is the largest multiplier that stays below.
LEMMA Quotient ==
    ASSUME NEW x \in Nat, NEW y \in Nat \ {0}
    PROVE  /\ x \div y \in Nat
           /\ (x \div y) * y <= x
           /\ x < (x \div y) * y + y
           /\ x \div y <= x
<1>1. x \div y \in Nat
  OBVIOUS
<1>2. x = y * (x \div y) + (x % y) /\ x % y \in 0 .. y - 1
  OBVIOUS
<1>3. (x \div y) * y = y * (x \div y) /\ y * (x \div y) \in Nat
  BY <1>1
<1>4. (x \div y) * y <= x /\ x < (x \div y) * y + y
  BY <1>1, <1>2, <1>3
<1>5. x \div y <= (x \div y) * y
  BY <1>1
<1> QED
  BY <1>1, <1>3, <1>4, <1>5

\* It is the only one.
LEMMA QuotientUnique ==
    ASSUME NEW x \in Nat, NEW y \in Nat \ {0}, NEW q \in Nat, q * y <= x, x < q * y + y
    PROVE  x \div y = q
<1> DEFINE p == x \div y
<1>1. p \in Nat /\ p * y <= x /\ x < p * y + y
  BY Quotient
<1> HIDE DEF p
<1>2. ASSUME NEW m \in Nat, NEW n \in Nat, m < n PROVE m * y + y <= n * y
  <2>1. PICK k \in Nat : n = m + 1 + k
    <3>1. n - (m + 1) \in Nat /\ n = m + 1 + (n - (m + 1))
      BY <1>2
    <3> QED
      BY <3>1
  <2>2. n * y = m * y + y + k * y
    BY <2>1
  <2>3. k * y \in Nat /\ m * y \in Nat
    BY <2>1
  <2> QED
    BY <2>2, <2>3
<1>3. p * y \in Nat /\ q * y \in Nat
  BY <1>1
<1>4. ~(p < q) /\ ~(q < p)
  BY <1>1, <1>2, <1>3
<1>5. p = q
  BY <1>1, <1>4
<1> QED
  BY <1>5 DEF p

\* Dividing a multiple.
LEMMA QuotientOfProduct ==
    ASSUME NEW q \in Nat, NEW y \in Nat \ {0}
    PROVE  (q * y) \div y = q
<1>1. q * y \in Nat
  OBVIOUS
<1> QED
  BY <1>1, QuotientUnique

\* Dividing by a product is dividing by its factors in turn.
LEMMA QuotientOfQuotient ==
    ASSUME NEW n \in Nat, NEW a \in Nat \ {0}, NEW b \in Nat \ {0}
    PROVE  n \div (a * b) = (n \div a) \div b
<1> DEFINE p == n \div a
           q == p \div b
<1>1. p \in Nat /\ p * a <= n /\ n < p * a + a
  BY Quotient
<1> HIDE DEF p
<1>2. q \in Nat /\ q * b <= p /\ p + 1 <= q * b + b
  BY <1>1, Quotient
<1> HIDE DEF q
<1>3. a * b \in Nat \ {0} /\ q * (a * b) = (q * b) * a /\ q * (a * b) + a * b = (q * b + b) * a
  BY <1>2
<1>4. (q * b) * a <= p * a
  BY <1>1, <1>2
<1>5. (p + 1) * a <= (q * b + b) * a
  BY <1>1, <1>2
<1>6. p * a + a = (p + 1) * a
  BY <1>1
<1>7. q * (a * b) <= n /\ n < q * (a * b) + a * b
  BY <1>1, <1>2, <1>3, <1>4, <1>5, <1>6
<1>8. n \div (a * b) = q
  BY <1>2, <1>3, <1>7, QuotientUnique
<1> QED
  BY <1>8 DEF p, q

\* A digit is the remainder of a division by the base.
LEMMA Digit ==
    ASSUME NEW q \in Nat, NEW B \in Nat \ {0}, NEW d \in 0 .. B - 1
    PROVE  (q * B + d) \div B = q /\ (q * B + d) % B = d
<1>1. q * B \in Nat /\ q * B + d \in Nat
  OBVIOUS
<1>2. (q * B + d) \div B = q
  BY <1>1, QuotientUnique
<1>3. q * B + d = B * ((q * B + d) \div B) + ((q * B + d) % B)
  BY <1>1
<1> QED
  BY <1>1, <1>2, <1>3

\* A dividend below a multiple has at most this quotient.
LEMMA QuotientBounded ==
    ASSUME NEW x \in Nat, NEW y \in Nat \ {0}, NEW q \in Nat, x <= q * y
    PROVE  x \div y <= q
<1>1. x \div y \in Nat /\ (x \div y) * y <= q * y /\ (x \div y) * y \in Nat /\ q * y \in Nat
  BY Quotient
<1>2. ASSUME NEW m \in Nat, m > q PROVE m * y > q * y
  BY <1>2
<1> QED
  BY <1>1, <1>2

----------------------------------------------------------------------------
\* The power of ten as the fixed point type holds it.
factor(k) == from_num(Pow10[k])

\* The operations of the fixed point type, on amounts that fit it.
LEMMA FixedPoint ==
    /\ FixedMax \in Nat \ {0} /\ FixedMax <= MaxU128
    /\ \A n \in Nat : from_num(n) \in 0 .. FixedMax /\ from_num(n) <= n
    /\ \A n \in 0 .. FixedMax : from_num(n) = n
    /\ \A k \in 0 .. MaxExp : Pow10[k] \in Nat \ {0} /\ factor(k) \in 0 .. FixedMax
<1>1. FixedMax \in Nat \ {0} /\ FixedMax <= MaxU128
  BY DecimalAssumption, TraitsAssumption DEF U128
<1>2. \A n \in Nat : from_num(n) \in 0 .. FixedMax /\ from_num(n) <= n
  <2> SUFFICES ASSUME NEW n \in Nat PROVE n % (FixedMax + 1) \in 0 .. FixedMax /\ n % (FixedMax + 1) <= n
    BY DEF from_num
  <2>1. n % (FixedMax + 1) \in 0 .. FixedMax
    BY <1>1
  <2>2. n = (FixedMax + 1) * (n \div (FixedMax + 1)) + (n % (FixedMax + 1))
    BY <1>1
  <2>3. (FixedMax + 1) * (n \div (FixedMax + 1)) \in Nat
    BY <1>1
  <2> QED
    BY <1>1, <2>1, <2>2, <2>3
<1>3. \A n \in 0 .. FixedMax : from_num(n) = n
  BY <1>1 DEF from_num
<1>4. \A k \in 0 .. MaxExp : Pow10[k] \in Nat \ {0}
  BY DecimalAssumption, TraitsAssumption
<1> QED
  BY <1>1, <1>2, <1>3, <1>4 DEF factor

\* Dividing and then multiplying returns the multiple of the factor below the
\* amount, and the next trip returns the same.
LEMMA DownThenUp ==
    ASSUME NEW x \in Nat, NEW k \in 0 .. MaxExp, NEW y, y = scale_down(x, k), y # None,
           NEW z, z = scale_up(y, k)
    PROVE  /\ y \in 0 .. FixedMax /\ z \in 0 .. FixedMax
           /\ z <= x
           /\ scale_down(z, k) = y
<1> DEFINE q == factor(k)
           w == from_num(x)
<1>1. q \in 0 .. FixedMax /\ w \in 0 .. FixedMax /\ w <= x /\ FixedMax \in Nat
  BY FixedPoint
<1>2. y = fixed_div(w, q) /\ y # 0
  BY DEF scale_down, factor
<1>3. q # 0 /\ y = w \div q
  BY <1>2 DEF fixed_div
<1>4. y \in Nat /\ y <= w /\ y * q <= w /\ y * q \in Nat
  BY <1>1, <1>3, Quotient
<1>5. y \in 0 .. FixedMax
  BY <1>1, <1>4
<1>6. from_num(y) = y
  BY <1>5, FixedPoint
<1>7. z = fixed_mul(y, q)
  BY <1>1, <1>5, <1>6 DEF scale_up, factor
<1>8. z = y * q
  BY <1>1, <1>4, <1>7 DEF fixed_mul, Lesser
<1>9. z \in 0 .. FixedMax /\ z <= x
  BY <1>1, <1>4, <1>8
<1>10. from_num(z) = z
  BY <1>9, FixedPoint
<1>11. z \div q = y
  BY <1>1, <1>3, <1>4, <1>8, QuotientOfProduct
<1>12. fixed_div(z, q) = y
  BY <1>3, <1>11 DEF fixed_div
<1>13. scale_down(z, k) = y
  BY <1>2, <1>10, <1>12 DEF scale_down, factor
<1> QED
  BY <1>5, <1>9, <1>13

\* Multiplying and then dividing returns the amount, or what is left of it at
\* the limit of the type, and the next trip returns the same.
LEMMA UpThenDown ==
    ASSUME NEW x \in Nat, NEW k \in 0 .. MaxExp, NEW y, y = scale_up(x, k), y # None,
           NEW z, z = scale_down(y, k), z # None
    PROVE  /\ x \in 0 .. FixedMax /\ y \in 0 .. FixedMax /\ z \in 0 .. FixedMax
           /\ z <= x
           /\ x * factor(k) <= FixedMax => z = x
           /\ scale_up(z, k) # None
           /\ scale_down(scale_up(z, k), k) = z
<1> DEFINE q == factor(k)
<1>1. q \in 0 .. FixedMax /\ FixedMax \in Nat
  BY FixedPoint
<1>2. x \in 0 .. FixedMax
  BY <1>1 DEF scale_up
<1>3. from_num(x) = x
  BY <1>2, FixedPoint
<1>4. y = fixed_mul(x, q)
  BY <1>1, <1>2, <1>3 DEF scale_up, factor
<1>5. x * q \in Nat
  BY <1>1, <1>2
<1>6. /\ y \in 0 .. FixedMax /\ y <= x * q
      /\ x * q <= FixedMax => y = x * q
      /\ x * q > FixedMax => y = FixedMax
  BY <1>1, <1>4, <1>5 DEF fixed_mul, Lesser
<1>7. from_num(y) = y
  BY <1>6, FixedPoint
<1>8. z = fixed_div(y, q) /\ z # 0
  BY <1>7 DEF scale_down, factor
<1>9. q # 0 /\ z = y \div q
  BY <1>8 DEF fixed_div
<1>10. z \in Nat /\ z * q <= y /\ z * q \in Nat /\ z <= y
  <2> HIDE DEF q
  <2>1. y \in Nat /\ q \in Nat \ {0}
    BY <1>1, <1>6, <1>9
  <2>2. z \in Nat /\ z * q <= y /\ z <= y
    BY <1>9, <2>1, Quotient, Zenon
  <2>3. z * q \in Nat
    BY <2>1, <2>2
  <2> QED
    BY <2>2, <2>3
<1>11. z <= x
  BY <1>1, <1>2, <1>6, <1>9, QuotientBounded
<1>12. z \in 0 .. FixedMax
  BY <1>1, <1>6, <1>10
<1>13. x * q <= FixedMax => z = x
  BY <1>1, <1>2, <1>6, <1>9, QuotientOfProduct
<1>14. from_num(z) = z
  BY <1>12, FixedPoint
<1>15. fixed_mul(z, q) = z * q
  BY <1>1, <1>6, <1>10 DEF fixed_mul, Lesser
<1>16. scale_up(z, k) = z * q
  BY <1>1, <1>12, <1>14, <1>15 DEF scale_up, factor
<1>17. z * q \in 0 .. FixedMax
  BY <1>1, <1>6, <1>10
<1>18. from_num(z * q) = z * q /\ (z * q) \div q = z
  BY <1>1, <1>9, <1>10, <1>17, FixedPoint, QuotientOfProduct
<1>19. scale_down(z * q, k) = z
  BY <1>8, <1>9, <1>18 DEF scale_down, fixed_div, factor
<1>20. z * q # None
  BY <1>10, TraitsAssumption
<1> QED
  BY <1>2, <1>6, <1>11, <1>12, <1>13, <1>16, <1>19, <1>20

\* The two branches of the decimal converter return natural numbers or None.
LEMMA ScaleType ==
    ASSUME NEW n \in Nat, NEW k \in 0 .. MaxExp
    PROVE  /\ scale_down(n, k) \in Nat \cup {None}
           /\ scale_up(n, k) \in Nat \cup {None}
<1>1. \A m \in Nat : from_num(m) \in Nat
  BY DecimalAssumption DEF from_num, U128
<1>2. Pow10[k] \in Nat
  BY DecimalAssumption
<1>3. \A x, y \in Nat : fixed_div(x, y) \in Nat
  BY DEF fixed_div
<1>4. \A x, y \in Nat : fixed_mul(x, y) \in Nat
  BY DecimalAssumption DEF fixed_mul, Lesser, U128
<1> QED
  BY <1>1, <1>2, <1>3, <1>4, Zenon DEF scale_down, scale_up

\* An asset with known decimals: the exponent is in the table.
LEMMA Exponent ==
    ASSUME NEW a \in AssetIds, Decimals[a] # None
    PROVE  /\ Decimals[a] \in Int
           /\ Decimals[a] >= 18 => Decimals[a] - 18 \in 0 .. MaxExp
           /\ Decimals[a] <= 18 => 18 - Decimals[a] \in 0 .. MaxExp
<1>1. Decimals[a] \in (18 - MaxExp) .. (18 + MaxExp) /\ MaxExp \in Nat
  BY DecimalAssumption
<1> QED
  BY <1>1

\* So do the conversions of an asset, in both directions.
LEMMA ConvertType ==
    ASSUME NEW a \in AssetIds, NEW n \in Nat
    PROVE  /\ convert_to(a, n) \in Nat \cup {None}
           /\ convert_from(a, n) \in Nat \cup {None}
<1>1. CASE Decimals[a] = None
  BY <1>1 DEF convert_to, convert_from
<1>2. CASE Decimals[a] # None
  <2>1. /\ Decimals[a] \in Int
        /\ Decimals[a] > 18 => Decimals[a] - 18 \in 0 .. MaxExp
        /\ Decimals[a] <= 18 => 18 - Decimals[a] \in 0 .. MaxExp
    BY <1>2, Exponent
  <2>2. CASE Decimals[a] > 18
    BY <1>2, <2>1, <2>2, ScaleType DEF convert_to, convert_from
  <2>3. CASE Decimals[a] <= 18
    BY <1>2, <2>1, <2>3, ScaleType DEF convert_to, convert_from
  <2> QED
    BY <2>1, <2>2, <2>3
<1> QED
  BY <1>1, <1>2

\* An amount that is converted and converted back: it has not grown, it fits
\* where it fitted before, and it survives all further trips.
LEMMA RoundTrip ==
    ASSUME NEW a \in AssetIds, NEW x \in Nat, NEW y, y = convert_to(a, x), y # None,
           NEW z, z = convert_from(a, y), z # None
    PROVE  /\ y \in Nat /\ z \in Nat
           /\ z <= x
           /\ x <= MaxU128 => y <= MaxU128
           /\ convert_to(a, z) # None
           /\ convert_from(a, convert_to(a, z)) = z
<1> DEFINE d == Decimals[a]
<1>1. d # None
  BY DEF convert_to
<1>2. d \in Int
  BY <1>1, Exponent
<1>3. CASE d = 18
  BY <1>1, <1>3, TraitsAssumption DEF convert_to, convert_from
<1>4. CASE d > 18
  <2>1. /\ \A n : convert_to(a, n) = scale_down(n, d - 18)
        /\ \A n : convert_from(a, n) = scale_up(n, d - 18)
    BY <1>1, <1>2, <1>4 DEF convert_to, convert_from
  <2>2. /\ y \in 0 .. FixedMax /\ z \in 0 .. FixedMax /\ z <= x
        /\ scale_down(z, d - 18) = y
    BY <1>1, <1>4, <2>1, Exponent, DownThenUp
  <2>3. FixedMax \in Nat /\ FixedMax <= MaxU128 /\ MaxU128 \in Nat
    BY FixedPoint, TraitsAssumption
  <2> HIDE DEF d
  <2> QED
    BY <2>1, <2>2, <2>3
<1>5. CASE d < 18
  <2>1. /\ \A n : convert_to(a, n) = scale_up(n, 18 - d)
        /\ \A n : convert_from(a, n) = scale_down(n, 18 - d)
    BY <1>1, <1>2, <1>5 DEF convert_to, convert_from
  <2>2. /\ y \in 0 .. FixedMax /\ z \in 0 .. FixedMax /\ z <= x
        /\ scale_up(z, 18 - d) # None
        /\ scale_down(scale_up(z, 18 - d), 18 - d) = z
    BY <1>1, <1>5, <2>1, Exponent, UpThenDown
  <2>3. FixedMax \in Nat /\ FixedMax <= MaxU128 /\ MaxU128 \in Nat
    BY FixedPoint, TraitsAssumption
  <2> HIDE DEF d
  <2> QED
    BY <2>1, <2>2, <2>3
<1> QED
  BY <1>2, <1>3, <1>4, <1>5

\* What convert_to returns for a u128 is a u128.
LEMMA ConvertedFits ==
    ASSUME NEW a \in AssetIds, NEW x \in U128
    PROVE  /\ convert_to(a, x) \in U128 \cup {None}
           /\ convert_from(a, x) \in U128 \cup {None}
<1>1. ASSUME NEW k \in 0 .. MaxExp
      PROVE  scale_down(x, k) \in U128 \cup {None} /\ scale_up(x, k) \in U128 \cup {None}
  <2>1. /\ FixedMax \in Nat /\ FixedMax <= MaxU128 /\ MaxU128 \in Nat /\ x \in Nat
        /\ from_num(x) \in 0 .. FixedMax /\ factor(k) \in 0 .. FixedMax
    BY FixedPoint, TraitsAssumption DEF U128
  <2>2. fixed_mul(from_num(x), factor(k)) \in U128
    BY <2>1 DEF fixed_mul, Lesser, U128
  <2>3. fixed_div(from_num(x), factor(k)) \in U128
    <3>1. CASE factor(k) = 0
      BY <2>1, <3>1 DEF fixed_div, U128
    <3>2. CASE factor(k) # 0
      <4>1. from_num(x) \div factor(k) \in Nat /\ from_num(x) \div factor(k) <= from_num(x)
        BY <2>1, <3>2, Quotient
      <4> QED
        BY <2>1, <3>2, <4>1 DEF fixed_div, U128
    <3> QED
      BY <3>1, <3>2
  <2> QED
    BY <2>2, <2>3 DEF scale_down, scale_up, factor
<1>2. CASE Decimals[a] = None
  BY <1>2 DEF convert_to, convert_from
<1>3. CASE Decimals[a] # None
  BY <1>1, <1>3, Exponent DEF convert_to, convert_from
<1> QED
  BY <1>2, <1>3

=============================================================================
