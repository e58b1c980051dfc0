---------------------------- MODULE SygmaBridge ----------------------------
(***************************************************************************)
(* Pallet bridge (bridge/src/lib.rs) with the pallets it calls: access     *)
(* segregator, fee handlers, decimal converter and asset transactors.      *)
(*                                                                         *)
(* One action is one extrinsic.  Extrinsics run one after the other, and   *)
(* one that returns an error is rolled back, so a refused call is no step. *)
(* execute_proposal never fails once its loop has started: it is a step    *)
(* that checks the signature and loads `batch`, then one step for each     *)
(* proposal; no other extrinsic runs while `batch` is not empty.           *)
(***************************************************************************)
EXTENDS FeeHandlerRouter, DecimalConverter, AssetTransactor, UsedNonces, Sequences

CONSTANTS
    ChainIds,           \* bound: the chain ids domains are registered with
    ResourceIds,        \* resource ids, also ones bound to no asset
    ResourcePairs,      \* Config::ResourcePairs, a sequence of <<asset, resource id>>
    ReserveAccounts,    \* Config::TransferReserveAccounts: the account of an asset, or None
    FeeReserveAccount,  \* Config::FeeReserveAccount
    MpcAddresses,       \* addresses of signing keys
    ZeroAddress,        \* the clear MpcAddress
    MigrationAddress,   \* the address FixMpcAddress installs
    MaxNonce,           \* the largest DepositNonce (u64); small in a run
    Amounts,            \* bound: the amounts deposit is called with
    Dests,              \* bound: the destinations deposit is called with
    Proposals,          \* bound: the proposals relayers submit
    Batches,            \* bound: the sequences of proposals relayers submit
    RetryHeights        \* bound: the block heights retry is called with

BRIDGE(name) == <<"SygmaBridge", name>>

BridgeCalls ==
    {BRIDGE("pause_bridge"), BRIDGE("unpause_bridge"), BRIDGE("set_mpc_address"),
     BRIDGE("register_domain"), BRIDGE("unregister_domain"), BRIDGE("retry"),
     BRIDGE("pause_all_bridges"), BRIDGE("unpause_all_bridges")}

\* A proposal's data: its length in bytes, the amount and the recipient length
\* it declares, and the location its recipient bytes decode to (or None).
ProposalData ==
    [len : Nat, amount : Nat, recipient_len : Nat, location : Locations \cup {None}]

ASSUME BridgeAssumption ==
    /\ BridgeCalls \subseteq Extrinsics
    /\ ResourcePairs \in Seq(AssetIds \X ResourceIds)
    /\ ReserveAccounts \in [AssetIds -> Accounts \cup {None}]
    /\ FeeReserveAccount \in Accounts
    /\ ZeroAddress \notin MpcAddresses
    /\ MigrationAddress \in MpcAddresses
    /\ None \notin ChainIds \cup ResourceIds \cup Domains
    /\ MaxNonce \in Nat
    /\ Amounts \subseteq U128
    /\ Dests \subseteq [shape : {"X2", "other"}, domain : Domains]
    /\ Proposals \subseteq [origin_domain_id : Domains, deposit_nonce : Nonces,
                            resource_id : ResourceIds, data : ProposalData]
    /\ Batches \subseteq Seq(Proposals)

VARIABLES
    DepositCounts,    \* deposits made to each domain, the next deposit nonce
    IsPaused,         \* the domains whose IsPaused entry is true
    PauseEntries,     \* the domains that have an IsPaused entry
    MpcAddr,
    StorageVersion,
    DestDomainIds,    \* the registered domains
    DestChainIds,     \* the chain id of each domain, or None
    batch,            \* proposals the running execute_proposal has still to handle
    DepositEvents,    \* the Deposit and FeeCollected events, in order
    ExecutionEvents,  \* the ProposalExecution events, in order
    LastFailure,      \* the latest FailedHandlerExecution event, or None
    RetryEvents       \* the Retry events

pauseVars == <<IsPaused, PauseEntries>>
domainVars == <<DestDomainIds, DestChainIds>>
eventVars == <<DepositEvents, ExecutionEvents, LastFailure, RetryEvents>>
moneyVars == <<balances, DepositCounts, UsedNonces, batch, eventVars>>
mpcVars == <<MpcAddr, StorageVersion>>
settingVars == <<ExtrinsicAccess, feeVars>>
vars == <<settingVars, pauseVars, domainVars, mpcVars, moneyVars>>

Init ==
    /\ AccessInit /\ FeeInit /\ BalancesInit /\ NoncesInit
    /\ DepositCounts = [d \in Domains |-> 0]
    /\ IsPaused = {} /\ PauseEntries = {}
    /\ MpcAddr = ZeroAddress
    /\ StorageVersion \in {0, 1}   \* 1 on a new chain, 0 on one started before the migration
    /\ DestDomainIds = {} /\ DestChainIds = [d \in Domains |-> None]
    /\ batch = <<>>
    /\ DepositEvents = <<>> /\ ExecutionEvents = <<>>
    /\ LastFailure = None /\ RetryEvents = {}

\* No execute_proposal is running, another extrinsic may.
Idle == batch = <<>>

----------------------------------------------------------------------------
(* Pausing and registration *)

\* The IsPaused entries an *_all_domains loop visits.
all_domains == DestDomainIds \cup PauseEntries

unpause_all_domains == IsPaused' = {} /\ PauseEntries' = all_domains

pause_all_domains == IsPaused' = all_domains /\ PauseEntries' = all_domains

pause_bridge(origin, d) ==
    /\ Idle
    /\ has_access(BRIDGE("pause_bridge"), origin)
    /\ d \in DestDomainIds
    /\ IsPaused' = IsPaused \cup {d}
    /\ PauseEntries' = PauseEntries \cup {d}
    /\ UNCHANGED <<settingVars, domainVars, mpcVars, moneyVars>>

unpause_bridge(origin, d) ==
    /\ Idle
    /\ has_access(BRIDGE("unpause_bridge"), origin)
    /\ d \in DestDomainIds
    /\ d \in IsPaused
    /\ IsPaused' = IsPaused \ {d}
    /\ PauseEntries' = PauseEntries \cup {d}
    /\ UNCHANGED <<settingVars, domainVars, mpcVars, moneyVars>>

pause_all_bridges(origin) ==
    /\ Idle
    /\ has_access(BRIDGE("pause_all_bridges"), origin)
    /\ pause_all_domains
    /\ UNCHANGED <<settingVars, domainVars, mpcVars, moneyVars>>

unpause_all_bridges(origin) ==
    /\ Idle
    /\ has_access(BRIDGE("unpause_all_bridges"), origin)
    /\ MpcAddr # ZeroAddress
    /\ unpause_all_domains
    /\ UNCHANGED <<settingVars, domainVars, mpcVars, moneyVars>>

\* Mutant: an address that is already set is replaced.
mpc_updatable_always == TRUE

mpc_updatable == MpcAddr = ZeroAddress

set_mpc_address(origin, addr) ==
    /\ Idle
    /\ has_access(BRIDGE("set_mpc_address"), origin)
    /\ mpc_updatable
    /\ MpcAddr' = addr
    /\ unpause_all_domains
    /\ UNCHANGED <<settingVars, domainVars, StorageVersion, moneyVars>>

\* Mutant: registration clears the pause of an earlier registration.
register_domain_unpauses(origin, d, chain) ==
    /\ Idle
    /\ has_access(BRIDGE("register_domain"), origin)
    /\ DestDomainIds' = DestDomainIds \cup {d}
    /\ DestChainIds' = [DestChainIds EXCEPT ![d] = chain]
    /\ IsPaused' = IsPaused \ {d}
    /\ UNCHANGED <<settingVars, PauseEntries, mpcVars, moneyVars>>

register_domain(origin, d, chain) ==
    /\ Idle
    /\ has_access(BRIDGE("register_domain"), origin)
    /\ DestDomainIds' = DestDomainIds \cup {d}
    /\ DestChainIds' = [DestChainIds EXCEPT ![d] = chain]
    /\ UNCHANGED <<settingVars, pauseVars, mpcVars, moneyVars>>

\* Mutant: the domain's history goes with its registration.
unregister_domain_forgets(origin, d, chain) ==
    /\ Idle
    /\ has_access(BRIDGE("unregister_domain"), origin)
    /\ d \in DestDomainIds /\ DestChainIds[d] = chain
    /\ DestDomainIds' = DestDomainIds \ {d}
    /\ DestChainIds' = [DestChainIds EXCEPT ![d] = None]
    /\ DepositCounts' = [DepositCounts EXCEPT ![d] = 0]
    /\ UsedNonces' = [UsedNonces EXCEPT ![d] = [w \in Words |-> {}]]
    /\ UNCHANGED <<settingVars, pauseVars, mpcVars, balances, batch, eventVars>>

\* Mutant: the chain id stays behind.
unregister_domain_keeps_chain(origin, d, chain) ==
    /\ Idle
    /\ has_access(BRIDGE("unregister_domain"), origin)
    /\ d \in DestDomainIds /\ DestChainIds[d] = chain
    /\ DestDomainIds' = DestDomainIds \ {d}
    /\ UNCHANGED <<settingVars, pauseVars, DestChainIds, mpcVars, moneyVars>>

unregister_domain(origin, d, chain) ==
    /\ Idle
    /\ has_access(BRIDGE("unregister_domain"), origin)
    /\ d \in DestDomainIds /\ DestChainIds[d] # None
    /\ DestChainIds[d] = chain
    /\ DestDomainIds' = DestDomainIds \ {d}
    /\ DestChainIds' = [DestChainIds EXCEPT ![d] = None]
    /\ UNCHANGED <<settingVars, pauseVars, mpcVars, moneyVars>>

\* FixMpcAddress: an upgrade of a chain whose storage version is 0.
on_runtime_upgrade ==
    /\ Idle
    /\ StorageVersion = 0
    /\ MpcAddr' = MigrationAddress
    /\ StorageVersion' = 1
    /\ UNCHANGED <<settingVars, pauseVars, domainVars, moneyVars>>

----------------------------------------------------------------------------
(* Outgoing transfers *)

\* DestinationDataParser: parents 0, two general keys, the second one starting
\* with a domain id other than 0.
extract_dest(dest) ==
    IF dest.shape = "X2" /\ dest.domain # 0 THEN dest.domain ELSE None

\* The first position of ResourcePairs whose entry i (1: asset, 2: resource
\* id) is x, or 0.
position(i, x) ==
    LET found == {n \in 1 .. Len(ResourcePairs) : ResourcePairs[n][i] = x}
    IN  IF found = {} THEN 0 ELSE CHOOSE n \in found : \A m \in found : n <= m

extract_asset(asset) ==
    IF position(1, asset) = 0 THEN None ELSE ResourcePairs[position(1, asset)][2]

rid_to_assetid(rid) ==
    IF position(2, rid) = 0 THEN None ELSE ResourcePairs[position(2, rid)][1]

get_token_reserved_account(asset) == ReserveAccounts[asset]

\* Mutant: the whole amount goes to the reserve although the fee was taken.
bridge_amount_gross(amount, fee) == amount

bridge_amount(amount, fee) == amount - fee

\* Mutant: a fee larger than the amount is let through.
covers_fee_not_checked(amount, fee) == TRUE

covers_fee(amount, fee) == amount > fee

\* Mutant: the counter is not advanced.
bumped_not(d) == DepositCounts

bumped(d) == [DepositCounts EXCEPT ![d] = @ + 1]

\* Balances after the sender paid `amount` and the treasury got `fee`.
after_fee(sender, asset, amount, fee) ==
    deposited(withdrawn(balances, asset, sender, amount), asset, FeeReserveAccount, fee)

\* Balances after the deposit: an asset reserved here is kept by its reserve
\* account, any other one is burnt.
after_deposit(sender, asset, amount, fee) ==
    IF is_reserve(asset)
    THEN deposited(after_fee(sender, asset, amount, fee), asset,
                   get_token_reserved_account(asset), bridge_amount(amount, fee))
    ELSE after_fee(sender, asset, amount, fee)

\* The extrinsic deposit, also reached through Bridge::transfer.  Any error
\* rolls back what was withdrawn and deposited before it.
deposit(origin, asset, amount, dest) ==
    LET d == extract_dest(dest)
        fee == get_fee(d, asset, amount)
        paid == withdrawn(balances, asset, origin, amount)
        reserve == get_token_reserved_account(asset)
        sent == convert_to(asset, bridge_amount(amount, fee))
    IN  /\ Idle
        /\ origin \in Users
        /\ MpcAddr # ZeroAddress
        /\ d # None
        /\ d \notin IsPaused
        /\ d \in DestDomainIds
        /\ extract_asset(asset) # None
        /\ fee # None
        /\ covers_fee(amount, fee)
        /\ can_withdraw(balances, asset, origin, amount)
        /\ can_deposit(paid, asset, FeeReserveAccount, fee)
        /\ reserve # None
        /\ is_reserve(asset) =>
              can_deposit(after_fee(origin, asset, amount, fee), asset, reserve,
                          bridge_amount(amount, fee))
        /\ DepositCounts[d] < MaxNonce
        /\ sent # None
        /\ balances' = after_deposit(origin, asset, amount, fee)
        /\ DepositCounts' = bumped(d)
        /\ DepositEvents' =
              Append(DepositEvents,
                     [dest_domain_id |-> d, deposit_nonce |-> DepositCounts[d],
                      resource_id |-> extract_asset(asset), sender |-> origin,
                      deposit_data |-> sent, fee_amount |-> fee,
                      asset |-> asset, bridged |-> bridge_amount(amount, fee)])
        /\ UNCHANGED <<settingVars, pauseVars, domainVars, mpcVars, UsedNonces, batch,
                       ExecutionEvents, LastFailure, RetryEvents>>

\* Mutant: retry succeeds without its event.
retry_silent(origin, height, d) ==
    /\ Idle /\ has_access(BRIDGE("retry"), origin)
    /\ MpcAddr # ZeroAddress /\ d \notin IsPaused /\ d \in DestDomainIds
    /\ UNCHANGED <<settingVars, pauseVars, domainVars, mpcVars, moneyVars>>

retry(origin, height, d) ==
    /\ Idle
    /\ has_access(BRIDGE("retry"), origin)
    /\ MpcAddr # ZeroAddress
    /\ d \notin IsPaused
    /\ d \in DestDomainIds
    /\ RetryEvents' = RetryEvents \cup {[deposit_on_block_height |-> height, dest_domain_id |-> d]}
    /\ UNCHANGED <<settingVars, pauseVars, domainVars, mpcVars, balances, DepositCounts,
                   UsedNonces, batch, DepositEvents, ExecutionEvents, LastFailure>>

----------------------------------------------------------------------------
(* Incoming transfers *)

\* extract_deposit_data succeeds.
valid_deposit_data(data) ==
    /\ data.len >= 64
    /\ data.amount <= MaxU128
    /\ data.len - 64 = data.recipient_len
    /\ data.location # None

\* The asset, the local amount, the reserve account and the recipient of p.
asset_of(p) == rid_to_assetid(p.resource_id)
amount_of(p) == convert_from(asset_of(p), p.data.amount)
reserve_of(p) == get_token_reserved_account(asset_of(p))
recipient_of(p) == AccountOf[p.data.location]

\* The error of execute_proposal_internal up to the withdrawal from the
\* reserve account, in the order of the checks; "Ok" when none applies.
rejection(p) ==
    IF p.origin_domain_id \in IsPaused THEN "BridgePaused"
    ELSE IF p.origin_domain_id \notin DestDomainIds THEN "DestDomainNotSupported"
    ELSE IF is_proposal_executed(p.deposit_nonce, p.origin_domain_id) THEN "ProposalAlreadyComplete"
    ELSE IF asset_of(p) = None THEN "AssetNotBound"
    ELSE IF ~valid_deposit_data(p.data) THEN "InvalidDepositData"
    ELSE IF amount_of(p) = None THEN "DecimalConversionFail"
    ELSE IF reserve_of(p) = None THEN "NoLiquidityHolderAccountBound"
    ELSE IF /\ is_reserve(asset_of(p))
            /\ ~can_withdraw(balances, asset_of(p), reserve_of(p), amount_of(p))
         THEN "TransactFailed"
    ELSE "Ok"

\* Mutant: an asset reserved here is minted without touching the reserve.
after_release_minting(p) == balances

\* Balances after the withdrawal from the reserve account.
after_release(p) ==
    IF is_reserve(asset_of(p))
    THEN withdrawn(balances, asset_of(p), reserve_of(p), amount_of(p))
    ELSE balances

after_payout(p) == deposited(after_release(p), asset_of(p), recipient_of(p), amount_of(p))

payable(p) == can_deposit(after_release(p), asset_of(p), recipient_of(p), amount_of(p))

failure(p, error) ==
    [error |-> error, origin_domain_id |-> p.origin_domain_id, deposit_nonce |-> p.deposit_nonce]

\* verify_by_mpc_address: the key that signed this batch has the MPC address.
verify_by_mpc_address(signer) == signer = MpcAddr

\* The checks of execute_proposal; the origin is not looked at.
execute_proposal(proposals, signer) ==
    /\ Idle
    /\ MpcAddr # ZeroAddress
    /\ proposals # <<>>
    /\ verify_by_mpc_address(signer)
    /\ batch' = proposals
    /\ UNCHANGED <<settingVars, pauseVars, domainVars, mpcVars, balances, DepositCounts,
                   UsedNonces, eventVars>>

\* Mutant: a proposal that was refused counts as executed.
reject_proposal_completes(p) ==
    /\ rejection(p) # "Ok"
    /\ LastFailure' = failure(p, rejection(p))
    /\ UsedNonces' = with_executed(p.deposit_nonce, p.origin_domain_id)
    /\ UNCHANGED <<balances, ExecutionEvents>>

\* One turn of the loop: execute_proposal_internal returns an error before it
\* moved anything ...
reject_proposal(p) ==
    /\ rejection(p) # "Ok"
    /\ LastFailure' = failure(p, rejection(p))
    /\ UNCHANGED <<balances, UsedNonces, ExecutionEvents>>

\* ... or the recipient cannot be paid after the reserve was debited (the
\* error is swallowed by the loop, nothing undoes the debit) ...
fail_payout(p) ==
    /\ rejection(p) = "Ok"
    /\ ~payable(p)
    /\ balances' = after_release(p)
    /\ LastFailure' = failure(p, "TransactFailed")
    /\ UNCHANGED <<UsedNonces, ExecutionEvents>>

\* ... or it succeeds, and the nonce is marked.
complete_proposal(p) ==
    /\ rejection(p) = "Ok"
    /\ payable(p)
    /\ balances' = after_payout(p)
    /\ UsedNonces' = with_executed(p.deposit_nonce, p.origin_domain_id)
    /\ ExecutionEvents' = Append(ExecutionEvents, p)
    /\ UNCHANGED LastFailure

execute_next ==
    /\ batch # <<>>
    /\ reject_proposal(Head(batch)) \/ fail_payout(Head(batch)) \/ complete_proposal(Head(batch))
    /\ batch' = Tail(batch)
    /\ UNCHANGED <<settingVars, pauseVars, domainVars, mpcVars, DepositCounts,
                   DepositEvents, RetryEvents>>

----------------------------------------------------------------------------
administer ==
    \E origin \in Origins :
        \/ pause_all_bridges(origin)
        \/ unpause_all_bridges(origin)
        \/ \E addr \in MpcAddresses \cup {ZeroAddress} : set_mpc_address(origin, addr)
        \/ \E d \in Domains :
              \/ pause_bridge(origin, d)
              \/ unpause_bridge(origin, d)
              \/ \E chain \in ChainIds :
                    register_domain(origin, d, chain) \/ unregister_domain(origin, d, chain)
              \/ \E height \in RetryHeights : retry(origin, height, d)

configure ==
    /\ Idle
    /\ \/ AccessNext /\ UNCHANGED feeVars
       \/ FeeNext /\ UNCHANGED ExtrinsicAccess
    /\ UNCHANGED <<pauseVars, domainVars, mpcVars, moneyVars>>

Next ==
    \/ administer
    \/ configure
    \/ on_runtime_upgrade
    \/ \E origin \in Origins, asset \in AssetIds, amount \in Amounts, dest \in Dests :
          deposit(origin, asset, amount, dest)
    \/ \E proposals \in Batches, signer \in MpcAddresses : execute_proposal(proposals, signer)
    \/ execute_next

Spec == Init /\ [][Next]_vars

----------------------------------------------------------------------------
(* Correctness *)

Errors ==
    {"BridgePaused", "DestDomainNotSupported", "ProposalAlreadyComplete", "AssetNotBound",
     "InvalidDepositData", "DecimalConversionFail", "NoLiquidityHolderAccountBound",
     "TransactFailed"}

FailureEvent == [error : Errors, origin_domain_id : Domains, deposit_nonce : Nonces]

\* No failure reported is told apart from every failure.
ASSUME FailureAssumption == None \notin FailureEvent

DepositEvent ==
    [dest_domain_id : Domains, deposit_nonce : Nat, resource_id : ResourceIds, sender : Users,
     deposit_data : Nat, fee_amount : Nat, asset : AssetIds, bridged : Nat]

TypeOK ==
    /\ AccessTypeOK /\ FeeTypeOK /\ BalancesTypeOK /\ NoncesTypeOK
    /\ DepositCounts \in [Domains -> 0 .. MaxNonce]
    /\ IsPaused \subseteq PauseEntries
    /\ PauseEntries \subseteq Domains
    /\ MpcAddr \in MpcAddresses \cup {ZeroAddress}
    /\ StorageVersion \in {0, 1}
    /\ DestDomainIds \subseteq Domains
    /\ DestChainIds \in [Domains -> ChainIds \cup {None}]
    /\ batch \in Seq(Proposals)
    /\ DepositEvents \in Seq(DepositEvent)
    /\ ExecutionEvents \in Seq(Proposals)
    /\ LastFailure \in FailureEvent \cup {None}
    /\ RetryEvents \subseteq [deposit_on_block_height : RetryHeights, dest_domain_id : Domains]

\* Deposits to a domain are numbered without a gap and without a repetition
\* from 0 up to DepositCounts, whatever was paused, unregistered and registered
\* again in between: the relayers key their work on these numbers.
NonceSequence ==
    /\ \A i \in 1 .. Len(DepositEvents) :
          DepositEvents[i].deposit_nonce < DepositCounts[DepositEvents[i].dest_domain_id]
    /\ \A i, j \in 1 .. Len(DepositEvents) :
          i < j /\ DepositEvents[i].dest_domain_id = DepositEvents[j].dest_domain_id
          => DepositEvents[i].deposit_nonce < DepositEvents[j].deposit_nonce
    /\ \A d \in Domains : \A n \in 0 .. DepositCounts[d] - 1 :
          \E i \in 1 .. Len(DepositEvents) :
              DepositEvents[i].dest_domain_id = d /\ DepositEvents[i].deposit_nonce = n

\* The i-th executed proposal carries deposit nonce n of domain d.
ExecutedAs(i, d, n) ==
    ExecutionEvents[i].origin_domain_id = d /\ ExecutionEvents[i].deposit_nonce = n

\* A deposit on another chain is paid out at most once here, over replayed
\* batches, duplicates inside a batch, failed attempts, pauses and
\* re-registrations; and the bitmap that decides it marks exactly the nonces
\* that were paid, none of their neighbours in the 64-bit word.
AtMostOnce ==
    /\ \A i, j \in 1 .. Len(ExecutionEvents) :
          ExecutedAs(i, ExecutionEvents[j].origin_domain_id, ExecutionEvents[j].deposit_nonce)
          => i = j
    /\ \A d \in Domains, n \in Nonces :
          is_proposal_executed(n, d) <=> \E i \in 1 .. Len(ExecutionEvents) : ExecutedAs(i, d, n)

\* No transfer, in or out, and no retry before an MPC address was set, and the
\* address is never cleared again: with the zero address nobody can sign for
\* the transfers already made.
TrafficNeedsMpc ==
    \/ DepositEvents # <<>>
    \/ ExecutionEvents # <<>>
    \/ RetryEvents # {}
    \/ batch # <<>>
    => MpcAddr # ZeroAddress

\* The two registration maps agree, so an unregistration never finds half of a
\* registration (the error path DestDomainNotSupported of unregister_domain).
DomainTablesAgree == \A d \in Domains : d \in DestDomainIds <=> DestChainIds[d] # None

\* "Pause bridge, this would lead to bridge transfer failure before it being
\* unpaused": nothing goes out to or comes in from a paused domain, and only an
\* unpausing call, never a registration, an unregistration or an upgrade ends
\* the pause.
PauseHolds ==
    [][\A d \in IsPaused :
          /\ DepositCounts'[d] = DepositCounts[d]
          /\ UsedNonces'[d] = UsedNonces[d]
          /\ d \notin IsPaused' =>
                UNCHANGED <<settingVars, domainVars, StorageVersion, moneyVars>>]_vars

\* The MPC address is set once; after that only the storage migration of a
\* chain of version 0, itself run once, replaces it ("MPC address can not be
\* updated").
MpcAddrFixed ==
    [][MpcAddr' # MpcAddr => \/ MpcAddr = ZeroAddress
                             \/ StorageVersion = 0 /\ StorageVersion' = 1]_vars

----------------------------------------------------------------------------
(* Implementation of the abstract channel *)

Channel == INSTANCE BridgeChannel WITH
    Lanes <- Domains,
    Numbers <- Nonces,
    ready <- MpcAddr # ZeroAddress,
    open <- DestDomainIds \ IsPaused,
    sent <- DepositCounts,
    done <- {k \in Domains \X Nonces : is_proposal_executed(k[2], k[1])}

\* The pallet, with its bitmap, batches, partial failures and registration
\* tables, implements the channel that relayers rely on.
ImplementsChannel == Channel!ChannelSpec

----------------------------------------------------------------------------
(* What a test of the pallet states, and the code does not do *)

\* Test proposal_execution_should_work: after a batch with failing proposals
\* the liquidity holder accounts are short of the successful ones only; a
\* proposal reported as failed moves no money.
FailedProposalMovesNothing ==
    [][Len(batch') < Len(batch) /\ ExecutionEvents' = ExecutionEvents
       => balances' = balances]_vars

============================================================================
