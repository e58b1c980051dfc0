---------------------------- MODULE FeeSchedule ----------------------------
(***************************************************************************)
(* The three fee pallets and the access segregator as one system: who may  *)
(* change a fee, and what the bridge is quoted while fees are changed.     *)
(***************************************************************************)
EXTENDS FeeHandlerRouter

CONSTANT QuoteAmounts   \* bound: the transfer amounts the bridge asks a quote for

ASSUME QuoteAssumption == QuoteAmounts \subseteq U128

scheduleVars == <<ExtrinsicAccess, AssetFees, AssetFeeRate, HandlerType>>

ScheduleInit == AccessInit /\ FeeInit

ScheduleNext ==
    \/ FeeNext /\ UNCHANGED ExtrinsicAccess
    \/ AccessNext /\ UNCHANGED feeVars

ScheduleSpec == ScheduleInit /\ [][ScheduleNext]_scheduleVars

ScheduleTypeOK == AccessTypeOK /\ FeeTypeOK

----------------------------------------------------------------------------
\* Whatever rates were configured, a percentage quote is strictly below the
\* amount as soon as the amount exceeds the configured lower bound: deposit can
\* then refuse a transfer as FeeTooExpensive only because of the lower bound
\* (set_fee_rate's checks together with get_fee's clamping and saturation).
AffordableAboveLowerBound ==
    \A d \in Domains, a \in AssetIds, x \in QuoteAmounts :
        LET r == AssetFeeRate[<<d, a>>]
        IN  r # None /\ x > r[2] => percentage_get_fee(d, a, x) < x

\* Sending more never lowers a fee: a larger transfer is
\* quoted at least the fee of a smaller one, also where amount * rate exceeds a
\* u128 (saturating_mul in the percentage handler's get_fee).
QuotesMonotone ==
    \A d \in Domains, a \in AssetIds, x, y \in QuoteAmounts :
        x <= y /\ get_fee(d, a, x) # None => get_fee(d, a, x) <= get_fee(d, a, y)

\* The quote for pair k differs between the two states of a step.
Requoted(k) == \E x \in QuoteAmounts : get_fee(k[1], k[2], x)' # get_fee(k[1], k[2], x)

\* An administrator's call re-prices at most one (domain, asset) pair: the
\* three storage maps are keyed alike and no call touches a second key.
OnePairAtATime ==
    [][\A j, k \in FeeKeys : Requoted(j) /\ Requoted(k) => j = k]_scheduleVars

\* Configuring a handler that is not the selected one prices nothing: as long
\* as HandlerType and the selected handler's own entry of a pair stay as they
\* are, its quotes stay (get_fee of the router never falls back).
DormantHandlersSilent ==
    [][\A k \in FeeKeys :
          /\ HandlerType'[k] = HandlerType[k]
          /\ HandlerType[k] = "BasicFeeHandler" => AssetFees'[k] = AssetFees[k]
          /\ HandlerType[k] = "PercentageFeeHandler" => AssetFeeRate'[k] = AssetFeeRate[k]
          => ~Requoted(k)]_scheduleVars

============================================================================
