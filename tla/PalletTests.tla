---------------------------- MODULE PalletTests ----------------------------
(***************************************************************************)
(* The unit tests of the access segregator, the two fee handlers and the   *)
(* fee handler router, as scripts.                                         *)
(***************************************************************************)
EXTENDS MockRuntime

Can(e, who) == Assert_("access", <<e, who>>)
Cannot(e, who) == Assert_("no_access", <<e, who>>)

access_should_work == <<
    Err("GrantAccessFailed", "grant_access", <<alice, GRANT_ACCESS, bob>>),
    Cannot(GRANT_ACCESS, alice),
    Grant(GRANT_ACCESS, alice), Can(GRANT_ACCESS, alice),
    Ok("grant_access", <<alice, UNKNOWN, bob>>),
    Cannot(UNKNOWN, alice), Can(UNKNOWN, bob) >>

pure_grant_access_test == <<
    Err("GrantAccessFailed", "grant_access", <<alice, GRANT_ACCESS, bob>>),
    Cannot(GRANT_ACCESS, alice), Cannot(GRANT_ACCESS, bob),
    Grant(GRANT_ACCESS, bob),
    Can(GRANT_ACCESS, bob), Can(GRANT_ACCESS, Committee), Cannot(GRANT_ACCESS, alice),
    Cannot(UNKNOWN, charlie), Can(UNKNOWN, Committee),
    Ok("grant_access", <<bob, UNKNOWN, charlie>>),
    Can(GRANT_ACCESS, bob),
    Cannot(GRANT_ACCESS, charlie), Cannot(UNKNOWN2, charlie), Can(UNKNOWN, charlie),
    Cannot(UNKNOWN, alice),
    Err("GrantAccessFailed", "grant_access", <<charlie, UNKNOWN, alice>>) >>

basic_set_get_fee == <<
    Ok("set_fee", <<Committee, 0, usdt, 100>>),
    Ok("set_fee", <<Committee, 1, usdt, 200>>),
    Assert_("fee", <<0, usdt, 100>>), Assert_("fee", <<1, usdt, 200>>),
    Ok("set_fee", <<Committee, 0, astr, 101>>),
    Assert_("fee", <<0, astr, 101>>), Assert_("fee", <<0, usdt, 100>>),
    Err("AccessDenied", "set_fee", <<alice, 0, usdt, 100>>) >>

basic_access_control == <<
    Ok("set_fee", <<Committee, 0, native, 100>>),
    Err("AccessDenied", "set_fee", <<alice, 0, native, 200>>),
    Cannot(SET_FEE, alice), Grant(SET_FEE, alice), Can(SET_FEE, alice),
    Ok("set_fee", <<alice, 0, native, 200>>),
    Assert_("fee", <<0, native, 200>>) >>

percentage_set_get_fee == <<
    Assert_("rate", <<0, usdt, None>>),
    Ok("set_fee_rate", <<Committee, 0, usdt, <<0, 0, 100>>>>),
    Err("FeeRateOutOfRange", "set_fee_rate", <<Committee, 0, usdt, <<10000, 0, 100>>>>),
    Ok("set_fee_rate", <<Committee, 0, usdt, <<50, 0, 100>>>>),
    Ok("set_fee_rate", <<Committee, 1, astr, <<200, 0, 100>>>>),
    Assert_("rate", <<0, usdt, <<50, 0, 100>>>>),
    Assert_("rate", <<1, astr, <<200, 0, 100>>>>),
    Err("AccessDenied", "set_fee_rate", <<alice, 0, usdt, <<100, 0, 100>>>>) >>

percentage_access_control == <<
    Ok("set_fee_rate", <<Committee, 0, native, <<100, 0, 100>>>>),
    Err("AccessDenied", "set_fee_rate", <<alice, 0, native, <<200, 0, 100>>>>),
    Cannot(SET_FEE_RATE, alice), Grant(SET_FEE_RATE, alice), Can(SET_FEE_RATE, alice),
    Ok("set_fee_rate", <<alice, 0, native, <<200, 0, 100>>>>),
    Assert_("rate", <<0, native, <<200, 0, 100>>>>) >>

\* Domain 1 is EthereumDomainID, 2 MoonbeamDomainID; usdt stands for PHA.
router_access_control == <<
    Ok("set_fee_handler", <<Committee, 1, usdt, "BasicFeeHandler">>),
    Err("AccessDenied", "set_fee_handler", <<alice, 1, usdt, "BasicFeeHandler">>),
    Cannot(SET_FEE_HANDLER, alice), Grant(SET_FEE_HANDLER, alice), Can(SET_FEE_HANDLER, alice),
    Ok("set_fee_handler", <<alice, 2, usdt, "DynamicFeeHandler">>),
    Assert_("handler", <<2, usdt, "DynamicFeeHandler">>) >>

fee_router_should_work == <<
    Ok("set_fee_handler", <<Committee, 1, usdt, "BasicFeeHandler">>),
    Ok("set_fee_handler", <<Committee, 2, usdt, "DynamicFeeHandler">>),
    Ok("set_fee", <<Committee, 1, usdt, 10000>>),
    Assert_("get_fee", <<1, usdt, 10000, 10000>>),
    Assert_("get_fee", <<2, usdt, 10000, None>>) >>

============================================================================
