------------------------------ MODULE MCBridge ------------------------------
(***************************************************************************)
(* Small instances of the bridge pallet.                                   *)
(*   native  is reserved here, 17 decimals: times 10 on the way out;       *)
(*   token   is registered under the own parachain id, so its reserve is   *)
(*           remote, 19 decimals: divided by 10 on the way out;            *)
(*   alice signs, treasury collects fees, vault is the reserve account.    *)
(***************************************************************************)
EXTENDS BridgeAudit, TLC

CONSTANTS alice, treasury, vault, native, token,
          ridNative, ridToken, ridUnbound, here, nowhere, mpc

MC_Extrinsics ==
    BridgeCalls \cup {GRANT_ACCESS, SET_FEE, SET_FEE_RATE, SET_FEE_HANDLER}

MC_AccountOf == here :> alice @@ nowhere :> None

MC_AssetLocation ==
    [a \in AssetIds |-> IF a = native THEN [parents |-> 0, first |-> None]
                                      ELSE [parents |-> 1, first |-> 2004]]

MC_Decimals == [a \in AssetIds |-> IF a = native THEN 17 ELSE 19]

MC_Pow10 == 0 :> 1 @@ 1 :> 10

MC_ResourcePairs ==
    << <<native, ridNative>> >> \o (IF token \in AssetIds THEN << <<token, ridToken>> >> ELSE <<>>)

MC_ReserveAccounts == [a \in AssetIds |-> vault]

MC_MinOne == [a \in AssetIds |-> 1]
MC_MinMixed == [a \in AssetIds |-> IF a = native THEN 1 ELSE 2]

MC_Endowment ==
    [a \in AssetIds |-> IF a = native THEN alice :> 6 @@ treasury :> 0 @@ vault :> 2
                                      ELSE alice :> 26 @@ treasury :> 0 @@ vault :> 0]

To(d) == [shape |-> "X2", domain |-> d]
Nowhere == [shape |-> "other", domain |-> 1]

\* A well-formed proposal.
Prop(d, n, rid, value, loc) ==
    [origin_domain_id |-> d, deposit_nonce |-> n, resource_id |-> rid,
     data |-> [len |-> 100, amount |-> value, recipient_len |-> 36, location |-> loc]]

----------------------------------------------------------------------------
(* The protocol run, on the native asset, from a chain on which only the     *)
(* fees were set.                                                            *)

MC_Dests == {To(d) : d \in Domains} \cup {Nowhere}

MC_Grantable == {BRIDGE("pause_bridge")}

\* Nonces on both sides of a word boundary, from two domains; one batch has the
\* later nonce first, one repeats a proposal.
MC_Edge(domain, nonce) == Prop(domain, nonce, ridNative, 10, here)

MC_EdgeProposals == {MC_Edge(1, 63), MC_Edge(1, 64), MC_Edge(0, 64)}

MC_EdgeBatches == {<<MC_Edge(1, 64), MC_Edge(1, 63)>>, <<MC_Edge(0, 64), MC_Edge(0, 64)>>}

Genesis ==
    /\ AccessInit /\ BalancesInit /\ NoncesInit
    /\ DepositCounts = [d \in Domains |-> 0]
    /\ batch = <<>>
    /\ DepositEvents = <<>> /\ ExecutionEvents = <<>>
    /\ LastFailure = None /\ RetryEvents = {}

\* A fee of 1 for the native asset, of 10% between 1 and 2 for the token.
FeeSettings ==
    /\ AssetFees = [k \in FeeKeys |-> IF k[2] = native THEN 1 ELSE None]
    /\ HandlerType = [k \in FeeKeys |-> IF k[2] = native THEN "BasicFeeHandler"
                                                        ELSE "PercentageFeeHandler"]
    /\ AssetFeeRate = [k \in RateKeys |-> IF k[2] = native THEN None ELSE <<1000, 1, 2>>]

FeesSet ==
    /\ Genesis /\ FeeSettings
    /\ IsPaused = {} /\ PauseEntries = {}
    /\ MpcAddr = ZeroAddress /\ StorageVersion \in {0, 1}
    /\ DestDomainIds = {} /\ DestChainIds = [d \in Domains |-> None]

FeesSetSpec == FeesSet /\ [][Next]_vars

----------------------------------------------------------------------------
(* The other runs start from a chain on which every domain was registered   *)
(* and the MPC address set.                                                 *)

Configured ==
    /\ Genesis /\ FeeSettings
    /\ IsPaused = {} /\ PauseEntries = Domains
    /\ MpcAddr = mpc /\ StorageVersion = 1
    /\ DestDomainIds = Domains
    /\ DestChainIds = [d \in Domains |-> CHOOSE c \in ChainIds : TRUE]

ConfiguredSpec == Configured /\ [][Next]_vars

\* Two payouts of native and one of token; the second proposal with nonce 1
\* names a recipient who cannot be paid, and a batch goes on after it.
MC_Good ==
    {Prop(1, 0, ridNative, 10, here), Prop(1, 1, ridNative, 25, here),
     Prop(1, 2, ridToken, 2, here)}

MC_Unpayable == Prop(1, 1, ridNative, 15, nowhere)

MC_LedgerProposals == MC_Good \cup {MC_Unpayable}

MC_LedgerBatches ==
    {<<MC_Unpayable, Prop(1, 0, ridNative, 10, here)>>, <<Prop(1, 1, ridNative, 25, here)>>,
     <<Prop(1, 2, ridToken, 2, here)>>}

=============================================================================
