-------------------------- MODULE AssetTransactor --------------------------
(***************************************************************************)
(* The asset transactors of the standalone runtime, as the bridge pallet   *)
(* uses them: CurrencyTransactor moves the native asset (pallet balances), *)
(* FungiblesTransactor the assets that SimpleForeignAssetConverter knows   *)
(* (pallet assets).  The adapters and the two pallets are external code:   *)
(* a withdrawal burns, a deposit mints, an account that falls below the    *)
(* minimum balance is reaped with its dust, and a deposit that would leave *)
(* an account below the minimum mints nothing (balances) or fails (assets).*)
(***************************************************************************)
EXTENDS AccessSegregator

CONSTANTS
    Accounts,       \* every account that can hold assets
    Locations,      \* decoded MultiLocations a proposal can name as recipient
    AccountOf,      \* LocationToAccountId: the account of a location, or None
    NativeAsset,    \* the asset of CurrencyTransactor
    ForeignAssets,  \* the assets of SimpleForeignAssetConverter
    MinBalance,     \* existential deposit, or min_balance, of each asset
    AssetLocation,  \* of each asset: parents, and first interior junction
    OtherJunction,  \* a first junction that is not Parachain(id)
    Endowment       \* balances at genesis

OWN_PARACHAIN == 2004

ASSUME TransactorAssumption ==
    /\ Users \subseteq Accounts
    /\ None \notin Accounts /\ None # OtherJunction
    /\ AccountOf \in [Locations -> Accounts \cup {None}]
    /\ ForeignAssets \subseteq AssetIds \ {NativeAsset}
    /\ MinBalance \in [AssetIds -> Nat \ {0}]
    /\ AssetLocation \in [AssetIds -> [parents : Nat, first : Nat \cup {None, OtherJunction}]]
    /\ Endowment \in [AssetIds -> [Accounts -> Nat]]

VARIABLE balances   \* free balance of each account in each asset

BalancesTypeOK == balances \in [AssetIds -> [Accounts -> Nat]]

BalancesInit == balances = Endowment

matches(asset) == asset = NativeAsset \/ asset \in ForeignAssets

can_withdraw(bal, asset, who, amount) == matches(asset) /\ amount <= bal[asset][who]

\* What is left in an account: less than the minimum is dust and is lost.
above_dust(asset, left) == IF left < MinBalance[asset] THEN 0 ELSE left

withdrawn(bal, asset, who, amount) ==
    [bal EXCEPT ![asset][who] = above_dust(asset, bal[asset][who] - amount)]

can_deposit(bal, asset, who, amount) ==
    /\ matches(asset)
    /\ who # None
    /\ \/ asset = NativeAsset
       \/ amount = 0
       \/ bal[asset][who] + amount >= MinBalance[asset]

deposited(bal, asset, who, amount) ==
    [bal EXCEPT ![asset][who] = above_dust(asset, bal[asset][who] + amount)]

\* ConcrateSygmaAsset::origin is here: so it is for the chain's own asset and
\* for those that came by the relay chain, save the ones registered under the
\* chain's own parachain id, whose reserve is remote.
origin_is_here(asset) ==
    LET l == AssetLocation[asset]
    IN  \/ l.parents = 1 /\ l.first # OWN_PARACHAIN
        \/ l.parents = 0 /\ l.first = None

\* ReserveChecker::contains(asset, here).
is_reserve(asset) == origin_is_here(asset)

============================================================================
