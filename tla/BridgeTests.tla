---------------------------- MODULE BridgeTests ----------------------------
(***************************************************************************)
(* The unit tests of the bridge pallet, as scripts, and the replay of all  *)
(* the pallets' tests.  Amounts follow the scale of MockRuntime; a comment *)
(* names the unit where a test counts in whole tokens.                     *)
(***************************************************************************)
EXTENDS PalletTests

D == DEST_DOMAIN_ID
ThreeDomains == 1 .. 3
RegisterAll == Steps(1, 3, LAMBDA d : Ok("register_domain", <<Committee, d, 1>>))
PauseAll(who) == Steps(1, 3, LAMBDA d : Ok("pause_bridge", <<who, d>>))
Paused(S) == Assert_("paused", S)
Mpc(addr) == Assert_("mpc", addr)
Pause(who) == Ok("pause_bridge", <<who, D>>)
Unpause(who) == Ok("unpause_bridge", <<who, D>>)
Denied(name, args) == Err("AccessDenied", name, args)

----------------------------------------------------------------------------
(* Administration *)

get_token_reserved_account_test == <<
    Assert_("reserved_account", <<usdt, bridgeOther>>),
    Assert_("reserved_account", <<native, bridgeNative>>),
    Assert_("reserved_account", <<astr, bridgeOther>>),
    Assert_("reserved_account", <<unbound, None>>) >>

set_mpc_address_test == <<
    Mpc(ZeroAddress), SetMpc, Mpc(mpc),
    Err("MpcAddrNotUpdatable", "set_mpc_address", <<Committee, otherMpc>>),
    Denied("set_mpc_address", <<alice, mpc>>),
    Mpc(mpc) >>

pause_bridge_test == <<
    Register, Pause(Committee), Paused({D}),
    Pause(Committee), Paused({D}),
    Denied("pause_bridge", <<alice, D>>), Paused({D}) >>

unpause_bridge_test == <<
    Register, Pause(Committee), Paused({D}),
    Unpause(Committee), Paused({}),
    Err("BridgeUnpaused", "unpause_bridge", <<Committee, D>>),
    Denied("unpause_bridge", <<alice, D>>), Paused({}) >>

get_bridge_pause_status == <<
    Paused({}), SetMpc, Register,
    Pause(Committee), Paused({D}), Unpause(Committee), Paused({}) >>

access_control == <<
    Denied("set_mpc_address", <<alice, mpc>>),
    Denied("pause_bridge", <<bob, D>>), Denied("unpause_bridge", <<bob, D>>),
    Grant(BRIDGE("set_mpc_address"), alice),
    Grant(BRIDGE("pause_bridge"), bob), Grant(BRIDGE("unpause_bridge"), bob),
    Denied("set_mpc_address", <<bob, mpc>>),
    Ok("set_mpc_address", <<alice, mpc>>), Mpc(mpc),
    Register,
    Denied("pause_bridge", <<alice, D>>), Denied("unpause_bridge", <<alice, D>>),
    Pause(bob), Paused({D}), Unpause(bob), Paused({}) >>

multi_domain_test == <<
    Ok("register_domain", <<Committee, D, 0>>), SetMpc,
    Denied("register_domain", <<alice, D, 1>>),
    Grant(BRIDGE("register_domain"), alice),
    Ok("register_domain", <<alice, D, 1>>), Assert_("domain", <<D, 1>>),
    Denied("unregister_domain", <<alice, D, 0>>),
    Grant(BRIDGE("unregister_domain"), alice),
    Err("DestChainIDNotMatch", "unregister_domain", <<alice, D, 2>>),
    Err("DestDomainNotSupported", "unregister_domain", <<alice, 2, 2>>),
    Ok("unregister_domain", <<alice, D, 1>>), Assert_("no_domain", D) >>

unpause_all_domains_test ==
    << Grant(BRIDGE("register_domain"), alice), Grant(BRIDGE("pause_bridge"), alice) >>
    \o Steps(1, 3, LAMBDA d : Ok("register_domain", <<alice, d, 1>>))
    \o PauseAll(alice)
    \o << Paused(ThreeDomains), Ok("unpause_all_domains", <<>>), Paused({}) >>

pause_all_bridges_test ==
    RegisterAll \o <<
    Paused({}), Denied("pause_all_bridges", <<alice>>),
    Grant(BRIDGE("pause_all_bridges"), alice),
    Ok("pause_all_bridges", <<alice>>), Paused(ThreeDomains) >>

unpause_all_bridges_test ==
    RegisterAll \o <<
    Err("MissingMpcAddress", "unpause_all_bridges", <<Committee>>),
    SetMpc, Denied("unpause_all_bridges", <<alice>>),
    Grant(BRIDGE("unpause_all_bridges"), alice) >>
    \o PauseAll(Committee)
    \o << Paused(ThreeDomains), Ok("unpause_all_bridges", <<alice>>), Paused({}) >>

retry_bridge == <<
    Denied("retry", <<alice, 1234567, D>>), Grant(BRIDGE("retry"), alice),
    Err("MissingMpcAddress", "retry", <<alice, 1234567, D>>),
    SetMpc, Register, Pause(Committee), Paused({D}),
    Err("BridgePaused", "retry", <<alice, 1234567, D>>),
    Unpause(Committee), Paused({}),
    Ok("retry", <<alice, 1234567, D>>), Assert_("retry_event", D) >>

\* set_proposal_executed for a range of nonces of domain 0.
Mark(lo, hi) == Steps(lo, hi, LAMBDA n : Ok("set_proposal_executed", <<n, 0>>))
Marked(n) == Assert_("executed", <<n, 0>>)
NotMarked(n) == Assert_("not_executed", <<n, 0>>)

deposit_nonce_fix_should_work ==
    Mark(1, 63) \o << NotMarked(0), Marked(1), Marked(63) >>
    \o Mark(64, 127) \o << Marked(64), Marked(127), NotMarked(128) >>
    \o Mark(256, 300) \o << Marked(256), Marked(300), NotMarked(301) >>

----------------------------------------------------------------------------
(* Deposits; a native token is 50 units, 500 with 18 decimals *)

deposit_native_asset_should_work == <<
    Register, SetFee(native, 50), SetHandler(native, "BasicFeeHandler"), SetMpc,
    Ok("deposit", Deposit(native, 10000)),
    Balance(native, alice, ENDOWED_BALANCE - 10000),
    Balance(native, bridgeNative, 9950), Balance(native, treasury, 50),
    DepositedEvent(0, ridNative, 99500, 50) >>

\* Bridge::transfer signs a deposit with the sender.
transfer_wrap_deposit_should_work == deposit_native_asset_should_work

deposit_foreign_asset_should_work == <<
    SetFee(usdt, 100), SetHandler(usdt, "BasicFeeHandler"), Register, SetMpc,
    Ok("mint", <<usdt, alice, ENDOWED_BALANCE>>), Balance(usdt, alice, ENDOWED_BALANCE),
    Ok("deposit", Deposit(usdt, 200)),
    Balance(usdt, alice, ENDOWED_BALANCE - 200),
    Balance(usdt, bridgeOther, 100), Balance(usdt, treasury, 100),
    DepositedEvent(0, ridUsdt, 100, 100) >>

deposit_unbounded_asset_should_fail == <<
    SetMpc, SetFee(unbound, 100), Register,
    Err("AssetNotBound", "deposit", Deposit(unbound, 200)) >>

deposit_to_unrecognized_dest_should_fail == <<
    SetMpc, SetFee(native, 100), Register,
    Err("ExtractDestDataFailed", "deposit", <<alice, native, 200, Elsewhere>>) >>

deposit_without_fee_set_should_fail == <<
    SetMpc, Register, Err("MissingFeeConfig", "deposit", Deposit(native, 200)) >>

deposit_less_than_fee_should_fail == <<
    SetMpc, SetFee(native, 200), SetHandler(native, "BasicFeeHandler"), Register,
    Err("FeeTooExpensive", "deposit", Deposit(native, 100)) >>

deposit_when_bridge_paused_should_fail == <<
    SetFee(usdt, 100), SetHandler(usdt, "BasicFeeHandler"), Register, SetMpc,
    Ok("mint", <<usdt, alice, ENDOWED_BALANCE>>), Balance(usdt, alice, ENDOWED_BALANCE),
    Pause(Committee), Paused({D}),
    Err("BridgePaused", "deposit", Deposit(usdt, 200)),
    Unpause(Committee), Paused({}), Ok("deposit", Deposit(usdt, 200)) >>

deposit_without_mpc_set == <<
    SetFee(native, 200), Err("MissingMpcAddress", "deposit", Deposit(native, 100)) >>

\* Digits as in the source, three of them being one: 123.456789123456 is 1234.
deposit_with_decimal_converter == <<
    SetMpc, SetFee(native, 10), SetFee(usdt, 100), SetFee(astr, 1000),
    SetHandler(native, "BasicFeeHandler"), SetHandler(usdt, "BasicFeeHandler"),
    SetHandler(astr, "BasicFeeHandler"), Register,
    Ok("deposit", Deposit(native, 1234)),
    Balance(native, alice, ENDOWED_BALANCE - 1234),
    Balance(native, bridgeNative, 1224), Balance(native, treasury, 10),
    DepositedEvent(0, ridNative, 12240, 10),
    Ok("mint", <<usdt, alice, ENDOWED_BALANCE>>),
    Ok("deposit", Deposit(usdt, 12345)),
    Balance(usdt, alice, ENDOWED_BALANCE - 12345),
    Balance(usdt, bridgeOther, 12245), Balance(usdt, treasury, 100),
    DepositedEvent(1, ridUsdt, 12245, 100) >>

deposit_with_decimal_converter_astr == deposit_with_decimal_converter \o <<
    Ok("mint", <<astr, alice, ENDOWED_BALANCE>>),
    Ok("deposit", Deposit(astr, 123456)),
    Balance(astr, alice, ENDOWED_BALANCE - 123456),
    Balance(astr, bridgeOther, 122456), Balance(astr, treasury, 1000),
    DepositedEvent(2, ridAstr, 12245, 1000),
    SetFee(astr, 1),
    Err("DecimalConversionFail", "deposit", Deposit(astr, 5)) >>

SetRate(asset, r) == Ok("set_fee_rate", <<Committee, D, asset, r>>)
BadRate(asset, r) == Err("FeeRateOutOfRange", "set_fee_rate", <<Committee, D, asset, r>>)

deposit_with_percentage_fee == <<
    Register, SetHandler(native, "PercentageFeeHandler"), SetMpc,
    SetRate(native, <<500, 0, 50000>>),
    Ok("deposit", Deposit(native, 10000)),
    Balance(native, alice, ENDOWED_BALANCE - 10000),
    Balance(native, bridgeNative, 9500), Balance(native, treasury, 500),
    DepositedEvent(0, ridNative, 95000, 500),
    BadRate(native, <<10000, 0, 50000>>),
    SetRate(native, <<9999, 0, 50000>>), Ok("deposit", Deposit(native, 10000)),
    Balance(native, bridgeNative, 9501), Balance(native, treasury, 10499),
    SetRate(native, <<0, 0, 50000>>), Ok("deposit", Deposit(native, 10000)),
    Balance(native, bridgeNative, 19501), Balance(native, treasury, 10499) >>

\* The end of the same test, with fees at the bounds: a token is one unit.
deposit_with_percentage_fee_bounds == <<
    Register, SetHandler(native, "PercentageFeeHandler"), SetMpc,
    BadRate(native, <<15000, 0, 1000>>),
    SetRate(native, <<500, 100, 1000>>),
    Ok("deposit", Deposit(native, 200)),
    Balance(native, bridgeNative, 100), Balance(native, treasury, 100),
    Ok("deposit", Deposit(native, 200000)),
    Balance(native, bridgeNative, 199100), Balance(native, treasury, 1100) >>

percentage_fee_rate_not_set == <<
    Register, SetMpc, SetHandler(native, "PercentageFeeHandler"),
    Err("MissingFeeConfig", "deposit", Deposit(native, 10000)) >>

percentage_overrides_basic_fee == <<
    Register, SetMpc, SetHandler(native, "BasicFeeHandler"), SetFee(native, 50),
    Ok("deposit", Deposit(native, 10000)),
    Balance(native, alice, ENDOWED_BALANCE - 10000),
    Balance(native, bridgeNative, 9950), Balance(native, treasury, 50),
    SetHandler(native, "PercentageFeeHandler"), SetRate(native, <<500, 0, 50000>>),
    Ok("deposit", Deposit(native, 10000)),
    Balance(native, alice, ENDOWED_BALANCE - 20000),
    Balance(native, bridgeNative, 19450), Balance(native, treasury, 550) >>

----------------------------------------------------------------------------
(* Proposals *)

\* Two good ones, and one for each way to fail, in the order of the source.
SevenProposals ==
    LET p(nonce, rid, to) == Proposal(D, nonce, rid, 200, to)
    IN  << p(1, ridNative, bobLocation), p(2, ridUsdt, bobLocation),
           p(2, ridNative, bobLocation),
           [p(3, ridNative, bobLocation) EXCEPT !.origin_domain_id = 2],
           p(3, ridUnknown, bobLocation), p(3, ridNative, None),
           WithoutData(p(3, ridUsdt, bobLocation)) >>

proposal_execution_set_up == <<
    Err("MissingMpcAddress", "execute_proposal", << <<>>, mpc >>),
    SetMpc, Register, SetFee(native, 50), SetHandler(native, "BasicFeeHandler"),
    Ok("deposit", Deposit(native, 10000)),
    Ok("mint", <<usdt, bridgeOther, 400>>),
    Balance(native, bridgeNative, 9950), Balance(usdt, bridgeOther, 400) >>

proposal_execution_should_work == proposal_execution_set_up \o <<
    Pause(Committee), Paused({D}),
    Ok("execute_proposal", <<SevenProposals, mpc>>),
    Assert_("failure", <<"BridgePaused", D, 3>>),
    Unpause(Committee), Paused({}),
    Err("BadMpcSignature", "execute_proposal", <<SevenProposals, otherMpc>>),
    Balance(native, bob, ENDOWED_BALANCE), Balance(usdt, bob, 0),
    Ok("execute_proposal", <<SevenProposals, mpc>>),
    Balance(native, bob, ENDOWED_BALANCE + 20), Balance(usdt, bob, 200),
    Balance(native, bridgeNative, 9930), Balance(usdt, bridgeOther, 200) >>

Execute(nonce, rid, amount) ==
    Ok("execute_proposal", << <<Proposal(D, nonce, rid, amount, aliceLocation)>>, mpc >>)

\* A native token is 10 units here.
proposal_execution_with_decimal_converter == <<
    SetMpc, Register, SetFee(native, 10), SetHandler(native, "BasicFeeHandler"),
    Ok("deposit", Deposit(native, ENDOWED_BALANCE \div 2)),
    Balance(native, bridgeNative, ENDOWED_BALANCE \div 2 - 10), Balance(native, treasury, 10),
    Balance(native, alice, ENDOWED_BALANCE \div 2),
    Execute(1, ridNative, 10000), Balance(native, alice, ENDOWED_BALANCE \div 2 + 1000),
    Ok("mint", <<usdt, bridgeOther, ENDOWED_BALANCE>>), Balance(usdt, alice, 0),
    Execute(2, ridUsdt, 10000), Balance(usdt, alice, 10000) >>

proposal_execution_with_decimal_converter_astr ==
    proposal_execution_with_decimal_converter \o <<
    Ok("mint", <<astr, bridgeOther, ENDOWED_BALANCE>>), Balance(astr, alice, 0),
    Execute(3, ridAstr, 10000), Balance(astr, alice, 100000),
    Execute(4, ridNative, 5), Assert_("failure", <<"DecimalConversionFail", D, 4>>) >>

\* Until the MPC address is set nothing but administration works.
setup_order_before_mpc ==
    << Mpc(ZeroAddress) >>
    \o [i \in 1 .. 5 |-> Grant(BRIDGE(<<"register_domain", "unregister_domain",
                                  "pause_bridge", "unpause_bridge", "retry">>[i]), alice)]
    \o << Ok("register_domain", <<alice, D, 1>>), Ok("unregister_domain", <<alice, D, 1>>),
          Ok("register_domain", <<alice, D, 1>>),
          Pause(alice), Paused({D}), Unpause(alice), Paused({}), Pause(alice), Paused({D}),
          Err("MissingMpcAddress", "retry", <<alice, 1234567, D>>),
          Err("MissingMpcAddress", "deposit", Deposit(astr, 100)),
          Err("MissingMpcAddress", "execute_proposal", << <<>>, mpc >>) >>

setup_order_test == setup_order_before_mpc \o <<
    SetMpc, Paused({}),
    Ok("retry", <<alice, 1234567, D>>),
    SetFee(native, 50), SetHandler(native, "BasicFeeHandler"),
    Ok("deposit", Deposit(native, 10000)),
    Balance(native, alice, ENDOWED_BALANCE - 10000),
    Balance(native, bridgeNative, 9950), Balance(native, treasury, 50),
    Balance(native, bob, ENDOWED_BALANCE),
    Ok("execute_proposal", << <<Proposal(D, 1, ridNative, 200, bobLocation)>>, mpc >>),
    Balance(native, bob, ENDOWED_BALANCE + 20), Balance(native, bridgeNative, 9930) >>

----------------------------------------------------------------------------
(* The replay *)

Scripts == <<
    access_should_work, pure_grant_access_test, basic_set_get_fee, basic_access_control,
    percentage_set_get_fee, percentage_access_control, router_access_control,
    fee_router_should_work, get_token_reserved_account_test, set_mpc_address_test,
    pause_bridge_test, unpause_bridge_test, get_bridge_pause_status, access_control,
    multi_domain_test, unpause_all_domains_test, pause_all_bridges_test,
    unpause_all_bridges_test, retry_bridge, deposit_nonce_fix_should_work,
    deposit_native_asset_should_work, transfer_wrap_deposit_should_work,
    deposit_foreign_asset_should_work, deposit_unbounded_asset_should_fail,
    deposit_to_unrecognized_dest_should_fail, deposit_without_fee_set_should_fail,
    deposit_less_than_fee_should_fail, deposit_when_bridge_paused_should_fail,
    deposit_without_mpc_set, deposit_with_decimal_converter_astr, deposit_with_percentage_fee,
    deposit_with_percentage_fee_bounds, percentage_fee_rate_not_set,
    percentage_overrides_basic_fee, proposal_execution_should_work,
    proposal_execution_with_decimal_converter_astr, setup_order_test >>

replayVars == <<vars, test, line>>

ReplayInit == new_test_ext(DOMAIN Scripts)

ReplayNext == RunLine(Scripts[test]) \/ RunProposal

\* A test runs to its end unless an assertion fails.
ReplaySpec == ReplayInit /\ [][ReplayNext]_replayVars /\ WF_replayVars(ReplayNext)

\* Every unit test passes: each call of its script returns what the test says
\* - Ok, or the error of the first check that fails in the order of the source
\* - and leaves the balances, flags, nonces and events the test asserts, so the
\* replay reaches the end of the script with no proposal left to handle.
EveryTestPasses == <>(line > Len(Scripts[test]) /\ Idle)

============================================================================
