----------------------------- MODULE XcmBridge -----------------------------
(***************************************************************************)
(* The pallet sygma-xcm-bridge: how a transfer to another chain of the     *)
(* relay network is turned into an XCM program.  A chain is known by its   *)
(* parachain id, the relay chain by 0.  A location is seen from a chain:   *)
(* its parents and its first interior junction, a Parachain(id), None when *)
(* there is none (Here) or OtherJunction.  An asset id is such a location  *)
(* (its further junctions are left out), a destination has a recipient as  *)
(* well.                                                                   *)
(***************************************************************************)
EXTENDS Integers, Sequences

CONSTANTS
    Chains,         \* parachain ids
    None,           \* Option::None, and the first junction of Here
    OtherJunction,  \* any junction that is not a Parachain(id)
    MinXcmFee(_)    \* the entry of Config::MinXcmFee for an asset id, or None

RELAY == 0

ASSUME XcmAssumption == Chains \subseteq Nat \ {RELAY} /\ None \notin Nat /\ OtherJunction \notin Nat

Loc(parents, first) == [parents |-> parents, first |-> first]
HERE == Loc(0, None)
PARENT == Loc(1, None)
Sibling(id) == Loc(1, id)

\* NativeAssetTypeIdentifier of the integrating runtime, on chain c.
is_native_asset(c, asset) == asset \in {HERE, Sibling(c)}

reserved_location(asset) ==
    IF asset.parents = 1 /\ asset.first \in Nat THEN Sibling(asset.first)
    ELSE IF asset.parents = 1 THEN PARENT
    ELSE IF asset.parents = 0 /\ asset.first \in Nat THEN Loc(0, asset.first)
    ELSE IF asset.parents = 0 /\ asset.first = None THEN asset
    ELSE None

\* The chain a destination names, as a location; None if it is neither a
\* sibling nor the relay chain.
extract_dest(dest) ==
    IF dest.parents # 1 THEN None
    ELSE IF dest.first \in Nat THEN Sibling(dest.first)
    ELSE PARENT

----------------------------------------------------------------------------
(* Points of view (external: xcm's MultiLocation) *)

\* The chain that a location, seen from c, leads to.
chain_of(c, l) ==
    IF l.parents = 0 /\ l.first = None THEN c
    ELSE IF l.parents = 0 THEN l.first
    ELSE IF l.first \in Nat THEN l.first
    ELSE RELAY

\* The same place seen from chain c.
seen_from(c, chain) == IF chain = c THEN HERE ELSE IF chain = RELAY THEN PARENT ELSE Sibling(chain)

reanchored(asset, from, at) == seen_from(at, chain_of(from, asset))

----------------------------------------------------------------------------
(* Programs *)

fungible_amount(asset) == asset.amount

half(fee) == [fee EXCEPT !.amount = fungible_amount(fee) \div 2]

\* Mutant: the fee asset is named as it is seen from the chain of the sender.
buy_execution_not_reanchored(fee, c, at) == fee

\* The fees a BuyExecution offers on chain `at`.
buy_execution(fee, c, at) == [asset |-> reanchored(fee.asset, c, at), amount |-> fee.amount]

deposit_asset(recipient) == [op |-> "DepositAsset", beneficiary |-> recipient]

\* Mutant: whatever is not the chain's own goes straight to the destination.
transfer_kind_no_detour(c, asset, dest) ==
    IF is_native_asset(c, asset) THEN "SelfReserveAsset" ELSE "ToReserve"

transfer_kind(c, asset, dest) ==
    IF is_native_asset(c, asset) THEN "SelfReserveAsset"
    ELSE IF reserved_location(asset) = dest THEN "ToReserve"
    ELSE "ToNonReserve"

\* A program: what it does with the sender's asset here, how the message to the
\* chain `to` begins, the fees offered there, and what is done with the rest.
transfer_self_reserve_asset(c, fee, dest, recipient) ==
    [local |-> "TransferReserveAsset", begins |-> "ReserveAssetDeposited", to |-> chain_of(c, dest),
     fees |-> buy_execution(fee, c, chain_of(c, dest)), then |-> deposit_asset(recipient)]

\* Mutant: the asset is transferred on this chain instead of being withdrawn.
transfer_to_reserve_asset_kept(c, fee, reserve, recipient) ==
    [local |-> "TransferReserveAsset", begins |-> "WithdrawAsset", to |-> chain_of(c, reserve),
     fees |-> buy_execution(fee, c, chain_of(c, reserve)), then |-> deposit_asset(recipient)]

transfer_to_reserve_asset(c, fee, reserve, recipient) ==
    [local |-> "WithdrawAsset", begins |-> "WithdrawAsset", to |-> chain_of(c, reserve),
     fees |-> buy_execution(fee, c, chain_of(c, reserve)), then |-> deposit_asset(recipient)]

\* Where the reserve chain sends the asset on: a sibling is a child when the
\* reserve is the relay chain.
reanchored_dest(reserve, dest) ==
    IF reserve = PARENT /\ dest.first \in Nat THEN Loc(0, dest.first) ELSE dest

transfer_to_non_reserve_asset(c, fee, reserve, dest, recipient) ==
    LET r == chain_of(c, reserve)
        d == chain_of(c, dest)
    IN  [local |-> "WithdrawAsset", begins |-> "WithdrawAsset", to |-> r,
         fees |-> buy_execution(half(fee), c, r),
         then |-> [op |-> "DepositReserveAsset", dest |-> reanchored_dest(reserve, dest),
                   fees |-> buy_execution(half(fee), c, d), then |-> deposit_asset(recipient)]]

create_instructions(c, asset, dest, recipient) ==
    LET kind == transfer_kind(c, asset, dest)
        fee == [asset |-> asset, amount |-> MinXcmFee(asset)]
    IN  IF kind = "SelfReserveAsset" THEN transfer_self_reserve_asset(c, fee, dest, recipient)
        ELSE IF kind = "ToReserve" THEN transfer_to_reserve_asset(c, fee, dest, recipient)
        ELSE transfer_to_non_reserve_asset(c, fee, reserved_location(asset), dest, recipient)

\* The error of BridgeImpl::transfer before anything is executed, or "Ok".
transfer_error(asset, dest) ==
    IF extract_dest(dest) = None THEN "InvalidDestination"
    ELSE IF MinXcmFee(asset) = None THEN "NoXcmMinFeeSet"
    ELSE IF reserved_location(asset) = None THEN "AssetReservedLocationNotFound"
    ELSE "Ok"

============================================================================
