-------------------------- MODULE DecimalConverter --------------------------
(***************************************************************************)
(* SygmaDecimalConverter of the runtimes: amounts travel between chains in *)
(* 18 decimals.  convert_to turns a local amount into the amount sent to   *)
(* the relayers, convert_from the reverse.  Conversions go through the     *)
(* fixed point type U112F16, whose integer part is at most FixedMax        *)
(* (2^112 - 1; a run picks a small value).                                 *)
(*                                                                         *)
(* The fixed crate is used as the release build compiles it: from_num      *)
(* wraps an integer that does not fit, and to_num drops the fraction.      *)
(***************************************************************************)
EXTENDS SygmaTraits

CONSTANTS
    Decimals,   \* AssetDecimalPairs: the decimals of each asset, or None
    MaxExp,     \* bound: the largest |decimals - 18| of Decimals
    Pow10,      \* 10u128.saturating_pow(k) for k in 0 .. MaxExp
    FixedMax    \* integer part of U112F16::MAX

ASSUME DecimalAssumption ==
    /\ MaxExp \in Nat
    /\ Decimals \in [AssetIds -> ((18 - MaxExp) .. (18 + MaxExp)) \cup {None}]
    /\ Pow10 \in [0 .. MaxExp -> 1 .. MaxU128]
    /\ Pow10[0] = 1
    /\ \A k \in 1 .. MaxExp : Pow10[k] = saturating_mul(10, Pow10[k - 1])
    /\ FixedMax \in U128 /\ FixedMax # 0

from_num(n) == n % (FixedMax + 1)

\* Mutant: the product is not limited.
fixed_mul_unbounded(x, y) == x * y

\* U112F16::saturating_mul of two values without a fraction, then to_num.
fixed_mul(x, y) == Lesser(x * y, FixedMax)

\* checked_div, unwrap_or 0, to_num: the integer part of the quotient.
fixed_div(x, y) == IF y = 0 THEN 0 ELSE x \div y

\* Mutant: the quotient is rounded up.
scale_down_ceil(amount, k) ==
    LET r == fixed_div(from_num(amount) + from_num(Pow10[k]) - 1, from_num(Pow10[k]))
    IN  IF r = 0 THEN None ELSE r

\* The branch that divides: None when nothing is left.
scale_down(amount, k) ==
    LET r == fixed_div(from_num(amount), from_num(Pow10[k]))
    IN  IF r = 0 THEN None ELSE r

\* The branch that multiplies: None when the amount does not fit.
scale_up(amount, k) ==
    IF amount > FixedMax THEN None
    ELSE fixed_mul(from_num(amount), from_num(Pow10[k]))

convert_to(asset, amount) ==
    LET d == Decimals[asset]
    IN  IF d = None THEN None
        ELSE IF d = 18 THEN amount
        ELSE IF d > 18 THEN scale_down(amount, d - 18)
        ELSE scale_up(amount, 18 - d)

\* Mutant: the exponent is one too small below 18 decimals.
convert_from_off_by_one(asset, amount) ==
    LET d == Decimals[asset]
    IN  IF d = None THEN None
        ELSE IF d = 18 THEN amount
        ELSE IF d > 18 THEN scale_up(amount, d - 18)
        ELSE scale_down(amount, 17 - d)

convert_from(asset, amount) ==
    LET d == Decimals[asset]
    IN  IF d = None THEN None
        ELSE IF d = 18 THEN amount
        ELSE IF d > 18 THEN scale_up(amount, d - 18)
        ELSE scale_down(amount, 18 - d)

=============================================================================
