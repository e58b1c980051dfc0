-------------------------- MODULE ParachainRuntime -------------------------
(***************************************************************************)
(* How the parachain runtime configures the bridge pallet, its asset       *)
(* transactor and sygma-xcm-bridge.  The assets besides its own are known  *)
(* by their reserve chain, 2005.                                           *)
(***************************************************************************)
EXTENDS XcmAssetTransactor, TLC

CONSTANTS
    user,           \* an account of the chain, or of another one
    BasicFee        \* a fee set for every asset

NativeLocation == HERE
UsdtLocation == Sibling(2005)
RelayLocation == PARENT

\* CurrencyTransactor of the bridge pallet.
RuntimeCurrencyLocation == RelayLocation

SimpleForeignAssetConverter(asset) == IF asset = UsdtLocation THEN "Assets" ELSE None

\* LocalAssetTransactor of the XCM executor: NativeAssetMatcher.
LocalAssetTransactor(c, asset) ==
    IF c = Home /\ is_native_asset(Home, asset) THEN "Balances" ELSE None

\* One token, in units of a token.
RuntimeMinXcmFee(asset) == IF asset = NativeLocation THEN 1 ELSE None

\* DestinationDataParser: the domain of a location, or None.
ExtractDestData(who) ==
    IF who.parents = 0 /\ who.interior = <<"sygma", "GeneralIndex", "GeneralKey">>
    THEN who.who ELSE None

RuntimeOuterFee(who, asset) == IF ExtractDestData(who) = None THEN None ELSE BasicFee

\* The assets of ResourcePairs, with the ledger that holds them.
ResourcePairs == NativeLocation :> "Balances" @@ UsdtLocation :> "Assets"

RuntimeEndowed ==
    [c \in Nodes |-> [t \in {"Balances", "Assets"} |->
        [h \in Holders |-> IF c = Home /\ h = vault THEN 9 ELSE 0]]]

At(parents, interior, first) ==
    [parents |-> parents, interior |-> interior, first |-> first, who |-> user]

RuntimeRecipients ==
    {At(0, <<"AccountId32">>, OtherJunction), At(1, OUTER_WORLD, OtherJunction),
     At(0, OUTER_WORLD, OtherJunction), At(1, <<"Parachain", "AccountId32">>, 2005),
     At(0, <<"Parachain", "AccountId32">>, 2005)}

RuntimePayouts == [asset : DOMAIN ResourcePairs, amount : {3}, who : RuntimeRecipients]

============================================================================
