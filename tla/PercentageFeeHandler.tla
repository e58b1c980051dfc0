------------------------ MODULE PercentageFeeHandler ------------------------
(***************************************************************************)
(* Pallet percentage-fee-handler: a rate in basis points with a lower and  *)
(* an upper bound for each (domain, asset) pair.                           *)
(***************************************************************************)
EXTENDS AccessSegregator

CONSTANT FeeRates   \* bound: the triples <<rate, lower, upper>> set_fee_rate is called with

SET_FEE_RATE == <<"PercentageFeeHandler", "set_fee_rate">>

BASIS_POINTS == 10000

ASSUME PercentageFeeAssumption ==
    /\ FeeRates \subseteq Nat \X U128 \X U128
    /\ SET_FEE_RATE \in Extrinsics

VARIABLE AssetFeeRate   \* the triple of each pair, or None

RateKeys == Domains \X AssetIds

PercentageFeeTypeOK == AssetFeeRate \in [RateKeys -> (Nat \X U128 \X U128) \cup {None}]

PercentageFeeInit == AssetFeeRate = [k \in RateKeys |-> None]

\* Mutant: a rate of 100% is let through, bounds are not compared.
valid_rate_inclusive(r) == r[1] <= BASIS_POINTS

valid_rate(r) == r[1] < BASIS_POINTS /\ r[2] < r[3]

set_fee_rate(origin, domain, asset, r) ==
    /\ has_access(SET_FEE_RATE, origin)
    /\ valid_rate(r)
    /\ AssetFeeRate' = [AssetFeeRate EXCEPT ![<<domain, asset>>] = r]

\* Mutant: the multiplication wraps around instead of saturating.
fee_of_rate_wrapping(r, amount) ==
    LET fee == ((amount * r[1]) % (MaxU128 + 1)) \div BASIS_POINTS
    IN  IF fee > r[3] THEN r[3] ELSE IF fee < r[2] THEN r[2] ELSE fee

fee_of_rate(r, amount) ==
    LET fee == saturating_mul(amount, r[1]) \div BASIS_POINTS
    IN  IF fee > r[3] THEN r[3] ELSE IF fee < r[2] THEN r[2] ELSE fee

percentage_get_fee(domain, asset, amount) ==
    LET r == AssetFeeRate[<<domain, asset>>]
    IN  IF r = None THEN None ELSE fee_of_rate(r, amount)

=============================================================================
