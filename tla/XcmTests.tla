------------------------------ MODULE XcmTests -----------------------------
(***************************************************************************)
(* The tests of sygma-xcm-bridge and of sygma-bridge-forwarder, replayed.  *)
(*                                                                         *)
(* The network of the former has parachains A, B and C, the reserve of     *)
(* USDT; its asset adapters keep Here, USDT and the two siblings' own      *)
(* assets apart.  The minimum fee is 10 and a message costs 4; the tests'  *)
(* amount, ten times the minimum fee, is one of TestAmounts.               *)
(*                                                                         *)
(* The latter run on one chain, Home, whose forwarder returns Ok and moves *)
(* nothing: an asset for a recipient elsewhere stays in the temporary      *)
(* account.                                                                *)
(***************************************************************************)
EXTENDS XcmAssetTransactor, TLC

CONSTANTS alice, bob, owner,
          TestAmounts   \* the amounts the tests of sygma-xcm-bridge are run with

A == 1
B == 2
C == 2005
ParachainInfo == 100
ENDOWED_BALANCE == 1000
UsdtLocation == Sibling(C)

\* CurrencyTransactor and SimpleForeignAssetConverter of the test runtime.
TestTokenOf(c, asset) ==
    IF asset = HERE THEN "Balances"
    ELSE IF asset = UsdtLocation THEN "Usdt"
    ELSE IF asset \in {Sibling(A), Sibling(B)} THEN "NativeAsset"
    ELSE None

TestMinXcmFee(asset) == IF asset \in {HERE, Sibling(B), Sibling(C)} THEN 10 ELSE None

TestRoutes == {p \in Nodes \X Nodes : p[1] # p[2]}

\* FungiblesTransactor of the forwarder's test runtime, which has no bridge.
TestConverter(asset) == IF asset = UsdtLocation THEN "Usdt" ELSE None
NoFee(who, asset) == None

\* On the forwarder's chain alice and the asset owner are endowed.
TestNet ==
    LET endowed(c) == IF c = Home THEN {alice, owner} ELSE {alice, bob, owner}
    IN  [c \in Nodes |->
            "Balances" :> [h \in Holders |-> IF h \in endowed(c) THEN ENDOWED_BALANCE ELSE 0]
            @@ "Usdt" :> [h \in Holders |-> 0]
            @@ "NativeAsset" :> [h \in Holders |-> 0]]

Send(c, sender, asset, amount, d, who) ==
    [step |-> "transfer", chain |-> c, sender |-> sender, asset |-> asset, amount |-> amount,
     dest |-> [parents |-> 1, first |-> d, who |-> who]]
Mint(c, token, who, amount) == [step |-> "mint", at |-> <<c, token, who>>, amount |-> amount]
Holds(c, token, who, amount) == [step |-> "holds", at |-> <<c, token, who>>, amount |-> amount]

DepositAsset(asset, amount, who) ==
    [step |-> "deposit", asset |-> asset, amount |-> amount, who |-> who]
WithdrawAsset(asset, amount, who) ==
    [step |-> "withdraw", asset |-> asset, amount |-> amount, who |-> who]
IsNative(asset, yes) == [step |-> "is_native", asset |-> asset, yes |-> yes]

Location(parents, interior, first, who) ==
    [parents |-> parents, interior |-> interior, first |-> first, who |-> who]

----------------------------------------------------------------------------
(* sygma-xcm-bridge *)

test_transfer_self_reserve_asset_to_parachain(amount) == <<
    Holds(B, "NativeAsset", bob, 0), Holds(A, "Balances", alice, ENDOWED_BALANCE),
    Send(A, alice, HERE, amount, B, bob),
    Holds(A, "Balances", alice, ENDOWED_BALANCE - amount), Holds(A, "Balances", B, amount),
    Holds(B, "NativeAsset", bob, amount - 4) >>

test_transfer_to_reserve_to_parachain(amount) == <<
    Holds(B, "Balances", bob, ENDOWED_BALANCE),
    Send(B, alice, HERE, amount, A, alice),
    Holds(B, "Balances", alice, ENDOWED_BALANCE - amount), Holds(B, "Balances", A, amount),
    Holds(A, "NativeAsset", alice, amount - 4),
    Send(A, alice, Sibling(B), amount - 4, B, bob),
    Holds(A, "NativeAsset", alice, 0),
    Holds(B, "Balances", bob, ENDOWED_BALANCE + amount - 2 * 4), Holds(B, "Balances", A, 4) >>

\* The sovereign account of A on C is endowed with C's own asset, since a
\* withdrawal sees USDT there as Here.
usdt_on_a(amount) == <<
    Mint(C, "Usdt", owner, ENDOWED_BALANCE),
    Holds(C, "Usdt", owner, ENDOWED_BALANCE), Holds(C, "Usdt", alice, 0),
    Holds(C, "Usdt", bob, 0),
    Mint(C, "Balances", A, 1000), Holds(C, "Balances", A, 1000), Holds(C, "Balances", B, 0),
    Send(C, owner, Sibling(C), amount, A, alice),
    Holds(C, "Usdt", owner, ENDOWED_BALANCE - amount),
    Holds(A, "Usdt", alice, amount - 4) >>

test_transfer_to_non_reserve_to_parachain(amount) == usdt_on_a(amount) \o <<
    Holds(B, "Usdt", bob, 0),
    Send(A, alice, Sibling(C), amount - 4, B, bob),
    Holds(A, "Usdt", alice, 0),
    Holds(C, "Balances", A, 1000 - (amount - 4)), Holds(C, "Balances", B, amount - 2 * 4),
    Holds(B, "Usdt", bob, amount - 3 * 4) >>

----------------------------------------------------------------------------
(* sygma-bridge-forwarder *)

test_asset_type_identifier_native_asset == <<
    IsNative(HERE, TRUE), IsNative(Sibling(ParachainInfo), TRUE),
    IsNative(Loc(0, ParachainInfo), FALSE) >>

test_xcm_asset_transactor_local ==
    LET recipient == Location(0, <<"AccountId32">>, OtherJunction, bob)
    IN  << DepositAsset(HERE, 10, recipient), Holds(Home, "Balances", bob, 10),
           DepositAsset(UsdtLocation, 10, recipient), Holds(Home, "Usdt", bob, 10) >>

test_xcm_asset_transactor_outer ==
    LET recipient == Location(1, OUTER_WORLD, OtherJunction, None)
    IN  << DepositAsset(HERE, 10, recipient), Holds(Home, "Balances", tmpOuter, 10),
           DepositAsset(UsdtLocation, 10, recipient), Holds(Home, "Usdt", tmpOuter, 10) >>

test_xcm_asset_transactor_substrate ==
    LET recipient == Location(1, <<"Parachain", "GeneralKey">>, 2005, None)
    IN  << DepositAsset(HERE, 10, recipient), Holds(Home, "Balances", tmpXcm, 10),
           DepositAsset(UsdtLocation, 10, recipient), Holds(Home, "Usdt", tmpXcm, 10) >>

test_xcm_asset_transactor_other_dest ==
    LET recipient == Location(2, <<"Parachain", "GeneralKey", "AccountId32">>, 2005, bob)
    IN  << DepositAsset(HERE, 10, recipient),
           Holds(Home, "Balances", tmpOuter, 0), Holds(Home, "Balances", tmpXcm, 10) >>

test_xcm_asset_transactor_withdraw == <<
    WithdrawAsset(HERE, 10, alice), Holds(Home, "Balances", alice, ENDOWED_BALANCE - 10),
    Mint(Home, "Usdt", alice, ENDOWED_BALANCE), Holds(Home, "Usdt", alice, ENDOWED_BALANCE),
    WithdrawAsset(UsdtLocation, 10, alice), Holds(Home, "Usdt", alice, ENDOWED_BALANCE - 10) >>

XcmScripts(amount) == <<
    test_transfer_self_reserve_asset_to_parachain(amount),
    test_transfer_to_reserve_to_parachain(amount),
    test_transfer_to_non_reserve_to_parachain(amount),
    test_asset_type_identifier_native_asset, test_xcm_asset_transactor_local,
    test_xcm_asset_transactor_outer, test_xcm_asset_transactor_substrate,
    test_xcm_asset_transactor_other_dest, test_xcm_asset_transactor_withdraw >>

----------------------------------------------------------------------------
VARIABLES test, line, tested

xcmTestVars == <<payoutVars, test, line, tested>>

script == XcmScripts(tested)[test]

Quiet == \A p \in Pairs : channel[p] = <<>>

at(s) == ledger[s.at[1]][s.at[2]][s.at[3]]

\* deposit_asset with the test's forwarder.
deposit_asset_test(s) ==
    /\ adapter_token(s.asset) # None
    /\ recipient_world(s.who) = "local" => account_of(s.who) # None
    /\ ledger' = deposited(ledger, s)

withdraw_asset(s) ==
    LET token == adapter_token(s.asset)
    IN  /\ token # None /\ ledger[Home][token][s.who] >= s.amount
        /\ ledger' = debit(ledger, Home, token, s.who, s.amount)

\* A line that acts on the ledgers alone.
RunLocally(s) ==
    /\ \/ s.step = "deposit" /\ deposit_asset_test(s)
       \/ s.step = "withdraw" /\ withdraw_asset(s)
       \/ s.step = "mint" /\ ledger' = credit(ledger, s.at[1], s.at[2], s.at[3], s.amount)
       \/ s.step = "holds" /\ at(s) = s.amount /\ UNCHANGED ledger
       \/ s.step = "is_native" /\ is_native_asset(Home, s.asset) = s.yes /\ UNCHANGED ledger
    /\ UNCHANGED <<channel, sent, delivered, lost>>

\* A block of the test starts when the messages of the one before it have been
\* executed.
RunXcmLine ==
    /\ Quiet /\ line <= Len(script)
    /\ LET s == script[line]
       IN  \/ s.step = "transfer" /\ transfer(s)
           \/ RunLocally(s)
    /\ line' = line + 1 /\ UNCHANGED <<payouts, test, tested>>

XcmTestInit == PayoutInit /\ test \in 1 .. 9 /\ line = 1 /\ tested \in TestAmounts

XcmTestNext ==
    \/ RunXcmLine
    \/ \E p \in Pairs : receive(p[1], p[2]) /\ UNCHANGED <<payouts, test, line, tested>>

XcmTestSpec == XcmTestInit /\ [][XcmTestNext]_xcmTestVars /\ WF_xcmTestVars(XcmTestNext)

\* The tests pass: every transfer of the three kinds returns Ok and leaves the
\* balances of the users and of the sovereign accounts, on the chains it goes
\* through, that the test asserts; each asset handed to XCMAssetTransactor
\* reaches the recipient's account or the temporary account of its world.
EveryXcmTestPasses == <>(line > Len(script) /\ Quiet)

============================================================================
