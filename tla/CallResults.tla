---------------------------- MODULE CallResults ----------------------------
(***************************************************************************)
(* The calls of the bridge pallet and of the pallets below it as values,   *)
(* and the DispatchResult each one returns: "Ok", or the name of the first *)
(* check that fails, in the order of the source.  The actions of           *)
(* SygmaBridge only say when a call goes through; its callers see which    *)
(* error they get.                                                         *)
(***************************************************************************)
EXTENDS SygmaBridge

\* ensure!(has_access(...), AccessDenied), then `rest`.
guarded(e, origin, rest) == IF has_access(e, origin) THEN rest ELSE "AccessDenied"

supported(d) == IF d \in DestDomainIds THEN "Ok" ELSE "DestDomainNotSupported"

pause_result(origin, d) == guarded(BRIDGE("pause_bridge"), origin, supported(d))

unpause_result(origin, d) ==
    guarded(BRIDGE("unpause_bridge"), origin,
            IF supported(d) = "Ok" /\ d \notin IsPaused THEN "BridgeUnpaused" ELSE supported(d))

set_mpc_result(origin) ==
    guarded(BRIDGE("set_mpc_address"), origin,
            IF mpc_updatable THEN "Ok" ELSE "MpcAddrNotUpdatable")

unregister_result(origin, d, chain) ==
    guarded(BRIDGE("unregister_domain"), origin,
            IF d \notin DestDomainIds \/ DestChainIds[d] = None THEN "DestDomainNotSupported"
            ELSE IF DestChainIds[d] # chain THEN "DestChainIDNotMatch"
            ELSE "Ok")

unpause_all_result(origin) ==
    guarded(BRIDGE("unpause_all_bridges"), origin,
            IF MpcAddr = ZeroAddress THEN "MissingMpcAddress" ELSE "Ok")

retry_result(origin, d) ==
    guarded(BRIDGE("retry"), origin,
            IF MpcAddr = ZeroAddress THEN "MissingMpcAddress"
            ELSE IF d \in IsPaused THEN "BridgePaused"
            ELSE supported(d))

execute_result(proposals, signer) ==
    IF MpcAddr = ZeroAddress THEN "MissingMpcAddress"
    ELSE IF proposals = <<>> THEN "EmptyProposalList"
    ELSE IF ~verify_by_mpc_address(signer) THEN "BadMpcSignature"
    ELSE "Ok"

\* deposit, once the destination d is known.
deposit_to_result(origin, asset, amount, d) ==
    LET fee == get_fee(d, asset, amount)
        reserve == get_token_reserved_account(asset)
    IN  IF d \in IsPaused THEN "BridgePaused"
        ELSE IF d \notin DestDomainIds THEN "DestDomainNotSupported"
        ELSE IF extract_asset(asset) = None THEN "AssetNotBound"
        ELSE IF fee = None THEN "MissingFeeConfig"
        ELSE IF ~covers_fee(amount, fee) THEN "FeeTooExpensive"
        ELSE IF \/ ~can_withdraw(balances, asset, origin, amount)
                \/ ~can_deposit(withdrawn(balances, asset, origin, amount), asset,
                                FeeReserveAccount, fee)
             THEN "TransactFailed"
        ELSE IF reserve = None THEN "NoLiquidityHolderAccountBound"
        ELSE IF /\ is_reserve(asset)
                /\ ~can_deposit(after_fee(origin, asset, amount, fee), asset, reserve,
                                bridge_amount(amount, fee))
             THEN "TransactFailed"
        ELSE IF DepositCounts[d] = MaxNonce THEN "DepositNonceOverflow"
        ELSE IF convert_to(asset, bridge_amount(amount, fee)) = None THEN "DecimalConversionFail"
        ELSE "Ok"

deposit_result(origin, asset, amount, dest) ==
    IF origin \notin Users THEN "BadOrigin"
    ELSE IF MpcAddr = ZeroAddress THEN "MissingMpcAddress"
    ELSE IF extract_dest(dest) = None THEN "ExtractDestDataFailed"
    ELSE deposit_to_result(origin, asset, amount, extract_dest(dest))

set_fee_rate_result(origin, r) ==
    guarded(SET_FEE_RATE, origin,
            IF r[1] >= BASIS_POINTS THEN "FeeRateOutOfRange"
            ELSE IF r[2] >= r[3] THEN "InvalidFeeBound"
            ELSE "Ok")

grant_result(origin) == IF has_access(GRANT_ACCESS, origin) THEN "Ok" ELSE "GrantAccessFailed"

result(c) ==
    LET a == c.args
    IN  CASE c.call = "pause_bridge" -> pause_result(a[1], a[2])
          [] c.call = "unpause_bridge" -> unpause_result(a[1], a[2])
          [] c.call = "pause_all_bridges" -> guarded(BRIDGE("pause_all_bridges"), a[1], "Ok")
          [] c.call = "unpause_all_bridges" -> unpause_all_result(a[1])
          [] c.call = "set_mpc_address" -> set_mpc_result(a[1])
          [] c.call = "register_domain" -> guarded(BRIDGE("register_domain"), a[1], "Ok")
          [] c.call = "unregister_domain" -> unregister_result(a[1], a[2], a[3])
          [] c.call = "retry" -> retry_result(a[1], a[3])
          [] c.call = "deposit" -> deposit_result(a[1], a[2], a[3], a[4])
          [] c.call = "execute_proposal" -> execute_result(a[1], a[2])
          [] c.call = "grant_access" -> grant_result(a[1])
          [] c.call = "set_fee" -> guarded(SET_FEE, a[1], "Ok")
          [] c.call = "set_fee_rate" -> set_fee_rate_result(a[1], a[4])
          [] c.call = "set_fee_handler" -> guarded(SET_FEE_HANDLER, a[1], "Ok")

perform(c) ==
    LET a == c.args
        configures == UNCHANGED <<pauseVars, domainVars, mpcVars, moneyVars>>
    IN  \/ c.call = "pause_bridge" /\ pause_bridge(a[1], a[2])
        \/ c.call = "unpause_bridge" /\ unpause_bridge(a[1], a[2])
        \/ c.call = "pause_all_bridges" /\ pause_all_bridges(a[1])
        \/ c.call = "unpause_all_bridges" /\ unpause_all_bridges(a[1])
        \/ c.call = "set_mpc_address" /\ set_mpc_address(a[1], a[2])
        \/ c.call = "register_domain" /\ register_domain(a[1], a[2], a[3])
        \/ c.call = "unregister_domain" /\ unregister_domain(a[1], a[2], a[3])
        \/ c.call = "retry" /\ retry(a[1], a[2], a[3])
        \/ c.call = "deposit" /\ deposit(a[1], a[2], a[3], a[4])
        \/ c.call = "execute_proposal" /\ execute_proposal(a[1], a[2])
        \/ /\ c.call = "grant_access" /\ grant_access(a[1], a[2], a[3])
           /\ configures /\ UNCHANGED feeVars
        \/ /\ c.call = "set_fee" /\ set_fee(a[1], a[2], a[3], a[4])
           /\ configures /\ UNCHANGED <<ExtrinsicAccess, AssetFeeRate, HandlerType>>
        \/ /\ c.call = "set_fee_rate" /\ set_fee_rate(a[1], a[2], a[3], a[4])
           /\ configures /\ UNCHANGED <<ExtrinsicAccess, AssetFees, HandlerType>>
        \/ /\ c.call = "set_fee_handler" /\ set_fee_handler(a[1], a[2], a[3], a[4])
           /\ configures /\ UNCHANGED <<ExtrinsicAccess, AssetFees, AssetFeeRate>>

============================================================================
