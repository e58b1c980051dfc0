-------------------------- MODULE FeeHandlerRouter --------------------------
(***************************************************************************)
(* Pallet fee-handler-router: which fee handler quotes each (domain,       *)
(* asset) pair, composed with the handlers it routes to.                   *)
(***************************************************************************)
EXTENDS BasicFeeHandler, PercentageFeeHandler

CONSTANT HandlerChoices   \* bound: the types set_fee_handler is called with

SET_FEE_HANDLER == <<"FeeHandlerRouter", "set_fee_handler">>

FeeHandlerType == {"BasicFeeHandler", "PercentageFeeHandler", "DynamicFeeHandler"}

ASSUME RouterAssumption ==
    /\ HandlerChoices \subseteq FeeHandlerType
    /\ SET_FEE_HANDLER \in Extrinsics
    /\ None \notin FeeHandlerType

VARIABLE HandlerType      \* the handler of each pair, or None

feeVars == <<AssetFees, AssetFeeRate, HandlerType>>

FeeTypeOK ==
    /\ BasicFeeTypeOK
    /\ PercentageFeeTypeOK
    /\ HandlerType \in [FeeKeys -> FeeHandlerType \cup {None}]

FeeInit ==
    /\ BasicFeeInit
    /\ PercentageFeeInit
    /\ HandlerType = [k \in FeeKeys |-> None]

set_fee_handler(origin, domain, asset, type) ==
    /\ has_access(SET_FEE_HANDLER, origin)
    /\ HandlerType' = [HandlerType EXCEPT ![<<domain, asset>>] = type]

\* Mutant: without a percentage configuration the fixed fee is used.
get_fee_fallback(domain, asset, amount) ==
    CASE HandlerType[<<domain, asset>>] = "BasicFeeHandler" -> basic_get_fee(domain, asset)
      [] HandlerType[<<domain, asset>>] = "PercentageFeeHandler" ->
            LET fee == percentage_get_fee(domain, asset, amount)
            IN  IF fee = None THEN basic_get_fee(domain, asset) ELSE fee
      [] OTHER -> None

get_fee(domain, asset, amount) ==
    CASE HandlerType[<<domain, asset>>] = "BasicFeeHandler" -> basic_get_fee(domain, asset)
      [] HandlerType[<<domain, asset>>] = "PercentageFeeHandler" ->
            percentage_get_fee(domain, asset, amount)
      [] OTHER -> None   \* DynamicFeeHandler, or no handler set

FeeNext ==
    \E origin \in Origins, domain \in Domains, asset \in AssetIds :
        \/ \E amount \in FeeAmounts :
              set_fee(origin, domain, asset, amount) /\ UNCHANGED <<AssetFeeRate, HandlerType>>
        \/ \E r \in FeeRates :
              set_fee_rate(origin, domain, asset, r) /\ UNCHANGED <<AssetFees, HandlerType>>
        \/ \E type \in HandlerChoices :
              set_fee_handler(origin, domain, asset, type) /\ UNCHANGED <<AssetFees, AssetFeeRate>>

=============================================================================
