-------------------------- MODULE BasicFeeHandler --------------------------
(***************************************************************************)
(* Pallet basic-fee-handler: a fixed fee for each (domain, asset) pair.    *)
(***************************************************************************)
EXTENDS AccessSegregator

CONSTANT FeeAmounts   \* bound: the amounts set_fee is called with

SET_FEE == <<"BasicFeeHandler", "set_fee">>

ASSUME BasicFeeAssumption == FeeAmounts \subseteq U128 /\ SET_FEE \in Extrinsics

VARIABLE AssetFees    \* the fee of each pair, or None

FeeKeys == Domains \X AssetIds

BasicFeeTypeOK == AssetFees \in [FeeKeys -> U128 \cup {None}]

BasicFeeInit == AssetFees = [k \in FeeKeys |-> None]

\* Mutant: the fee is stored under the asset alone, for every domain.
fees_by_asset(domain, asset, amount) ==
    [k \in FeeKeys |-> IF k[2] = asset THEN amount ELSE AssetFees[k]]

fees_with(domain, asset, amount) == [AssetFees EXCEPT ![<<domain, asset>>] = amount]

set_fee(origin, domain, asset, amount) ==
    /\ has_access(SET_FEE, origin)
    /\ AssetFees' = fees_with(domain, asset, amount)

basic_get_fee(domain, asset) == AssetFees[<<domain, asset>>]

============================================================================
