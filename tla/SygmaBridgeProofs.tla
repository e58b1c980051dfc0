-------------------------- MODULE SygmaBridgeProofs -------------------------
(***************************************************************************)
(* The bridge pallet, for every value of the constants: every extrinsic    *)
(* keeps every storage item within its type, and the safety invariants are *)
(* inductive together with TypeOK.                                         *)
(***************************************************************************)
EXTENDS SygmaBridge, DecimalConverterProofs, WellFoundedInduction

----------------------------------------------------------------------------
(* Types *)

Balances == [AssetIds -> [Accounts -> Nat]]

\* A withdrawal leaves well-typed balances, also when dust is reaped.
LEMMA WithdrawnType ==
    ASSUME NEW bal \in Balances, NEW a \in AssetIds, NEW x \in Accounts, NEW n \in Nat
    PROVE  withdrawn(bal, a, x, n) \in Balances
BY TransactorAssumption DEF Balances, withdrawn, above_dust

\* A deposit leaves well-typed balances.
LEMMA DepositedType ==
    ASSUME NEW bal \in Balances, NEW a \in AssetIds, NEW x \in Accounts, NEW n \in Nat
    PROVE  deposited(bal, a, x, n) \in Balances
BY TransactorAssumption DEF Balances, deposited, above_dust

\* A quote is a natural number or None.
LEMMA FeeType ==
    ASSUME FeeTypeOK, NEW d \in Domains, NEW a \in AssetIds, NEW x \in U128,
           get_fee(d, a, x) # None
    PROVE  get_fee(d, a, x) \in Nat
<1>1. CASE HandlerType[<<d, a>>] = "BasicFeeHandler"
  BY <1>1, TraitsAssumption
  DEF get_fee, basic_get_fee, FeeTypeOK, BasicFeeTypeOK, FeeKeys, U128
<1>2. CASE HandlerType[<<d, a>>] = "PercentageFeeHandler"
  <2> DEFINE r == AssetFeeRate[<<d, a>>]
  <2>1. r # None /\ get_fee(d, a, x) = fee_of_rate(r, x)
    BY <1>2 DEF get_fee, percentage_get_fee
  <2>2. r \in Nat \X U128 \X U128
    BY <2>1 DEF FeeTypeOK, PercentageFeeTypeOK, RateKeys
  <2>3. saturating_mul(x, r[1]) \in Nat
    BY <2>2, TraitsAssumption DEF saturating_mul, Lesser, U128
  <2>4. saturating_mul(x, r[1]) \div BASIS_POINTS \in Nat
    BY <2>3 DEF BASIS_POINTS
  <2> QED
    BY <2>1, <2>2, <2>4 DEF fee_of_rate, U128
<1> QED
  BY <1>1, <1>2 DEF get_fee

\* A position that is not 0 is an index of ResourcePairs with the value sought.
LEMMA PositionFound ==
    ASSUME NEW i \in {1, 2}, NEW x, position(i, x) # 0
    PROVE  /\ position(i, x) \in 1 .. Len(ResourcePairs)
           /\ ResourcePairs[position(i, x)][i] = x
<1> DEFINE found == {n \in 1 .. Len(ResourcePairs) : ResourcePairs[n][i] = x}
<1>1. found \subseteq Nat /\ found # {}
  BY BridgeAssumption DEF position
<1> HIDE DEF found
<1>2. PICK n \in found : \A m \in found : ~(<<m, n>> \in OpToRel(<, Nat))
  BY <1>1, NatLessThanWellFounded, WFMin, Zenon
<1>3. \A m \in found : n <= m
  <2> TAKE m \in found
  <2>1. ~(<<m, n>> \in {s \in Nat \X Nat : s[1] < s[2]})
    BY <1>2 DEF OpToRel
  <2>2. m \in Nat /\ n \in Nat
    BY <1>1
  <2> QED
    BY <2>1, <2>2
<1> QED
  BY <1>1, <1>3 DEF position, found

\* What the two lookups in ResourcePairs return.
LEMMA BindingType ==
    ASSUME NEW x
    PROVE  /\ extract_asset(x) # None => extract_asset(x) \in ResourceIds
           /\ rid_to_assetid(x) # None => rid_to_assetid(x) \in AssetIds
<1>1. \A n \in 1 .. Len(ResourcePairs) :
          ResourcePairs[n][1] \in AssetIds /\ ResourcePairs[n][2] \in ResourceIds
  BY BridgeAssumption
<1>2. extract_asset(x) # None => extract_asset(x) \in ResourceIds
  BY <1>1, PositionFound DEF extract_asset
<1>3. rid_to_assetid(x) # None => rid_to_assetid(x) \in AssetIds
  BY <1>1, PositionFound DEF rid_to_assetid
<1> QED
  BY <1>2, <1>3

\* What a proposal in the batch looks like.
LEMMA ProposalType ==
    ASSUME NEW p \in Proposals
    PROVE  /\ p.origin_domain_id \in Domains
           /\ p.deposit_nonce \in Nonces
           /\ p.resource_id \in ResourceIds
           /\ p.data.amount \in Nat
           /\ p.data.location \in Locations \cup {None}
BY BridgeAssumption DEF ProposalData

\* A proposal without a reason for rejection names a bound asset, an amount and
\* a recipient, and its asset has a reserve account.
LEMMA AcceptedType ==
    ASSUME NEW p \in Proposals, rejection(p) = "Ok"
    PROVE  /\ asset_of(p) \in AssetIds
           /\ amount_of(p) \in Nat
           /\ reserve_of(p) \in Accounts
           /\ recipient_of(p) \in Accounts \cup {None}
           /\ p.origin_domain_id \in DestDomainIds \ IsPaused
           /\ ~is_proposal_executed(p.deposit_nonce, p.origin_domain_id)
<1>1. /\ asset_of(p) # None
      /\ valid_deposit_data(p.data)
      /\ amount_of(p) # None
      /\ reserve_of(p) # None
      /\ p.origin_domain_id \in DestDomainIds \ IsPaused
      /\ ~is_proposal_executed(p.deposit_nonce, p.origin_domain_id)
  BY DEF rejection
<1>2. asset_of(p) \in AssetIds
  BY <1>1, BindingType DEF asset_of
<1>3. amount_of(p) \in Nat
  BY <1>1, <1>2, ProposalType, ConvertType DEF amount_of
<1>4. reserve_of(p) \in Accounts
  BY <1>1, <1>2, BridgeAssumption DEF reserve_of, get_token_reserved_account
<1>5. recipient_of(p) \in Accounts \cup {None}
  BY <1>1, ProposalType, TransactorAssumption DEF recipient_of, valid_deposit_data
<1> QED
  BY <1>1, <1>2, <1>3, <1>4, <1>5

----------------------------------------------------------------------------
\* The initial storage is well typed.
LEMMA TypeInit == Init => TypeOK
<1> SUFFICES ASSUME Init PROVE TypeOK
  OBVIOUS
<1>1. AccessTypeOK /\ FeeTypeOK
  BY DEF Init, AccessInit, AccessTypeOK, FeeInit, FeeTypeOK, BasicFeeInit, BasicFeeTypeOK,
         PercentageFeeInit, PercentageFeeTypeOK
<1>2. BalancesTypeOK /\ NoncesTypeOK
  BY TransactorAssumption
  DEF Init, BalancesInit, BalancesTypeOK, NoncesInit, NoncesTypeOK
<1> QED
  BY <1>1, <1>2, BridgeAssumption DEF Init, TypeOK

\* Administration keeps the types: the pause tables, the registration tables,
\* the MPC address and the retry events.
LEMMA AdministerType == TypeOK /\ administer => TypeOK'
<1> SUFFICES ASSUME TypeOK, administer PROVE TypeOK'
  OBVIOUS
<1> USE DEF TypeOK, settingVars, pauseVars, domainVars, mpcVars, moneyVars, eventVars, feeVars
<1>0. PICK origin \in Origins :
        \/ pause_all_bridges(origin)
        \/ unpause_all_bridges(origin)
        \/ \E addr \in MpcAddresses \cup {ZeroAddress} : set_mpc_address(origin, addr)
        \/ \E d \in Domains :
              \/ pause_bridge(origin, d)
              \/ unpause_bridge(origin, d)
              \/ \E chain \in ChainIds :
                    register_domain(origin, d, chain) \/ unregister_domain(origin, d, chain)
              \/ \E height \in RetryHeights : retry(origin, height, d)
  BY DEF administer
<1> DEFINE Frame ==
      UNCHANGED <<ExtrinsicAccess, AssetFees, AssetFeeRate, HandlerType, balances, UsedNonces>>
<1>1. Frame => (AccessTypeOK /\ FeeTypeOK /\ BalancesTypeOK /\ NoncesTypeOK)'
  BY DEF AccessTypeOK, FeeTypeOK, BasicFeeTypeOK, PercentageFeeTypeOK, BalancesTypeOK, NoncesTypeOK
<1>2. CASE pause_all_bridges(origin) \/ unpause_all_bridges(origin)
  BY <1>1, <1>2
  DEF pause_all_bridges, unpause_all_bridges, pause_all_domains, unpause_all_domains, all_domains
<1>3. ASSUME NEW addr \in MpcAddresses \cup {ZeroAddress}, set_mpc_address(origin, addr)
      PROVE  TypeOK'
  BY <1>1, <1>3 DEF set_mpc_address, unpause_all_domains, all_domains
<1>4. ASSUME NEW d \in Domains, pause_bridge(origin, d) \/ unpause_bridge(origin, d)
      PROVE  TypeOK'
  BY <1>1, <1>4 DEF pause_bridge, unpause_bridge
<1>5. ASSUME NEW d \in Domains, NEW chain \in ChainIds,
             register_domain(origin, d, chain) \/ unregister_domain(origin, d, chain)
      PROVE  TypeOK'
  BY <1>1, <1>5, Zenon DEF register_domain, unregister_domain
<1>6. ASSUME NEW d \in Domains, NEW height \in RetryHeights, retry(origin, height, d)
      PROVE  TypeOK'
  BY <1>1, <1>6 DEF retry
<1> QED
  BY <1>0, <1>2, <1>3, <1>4, <1>5, <1>6

\* So do grants and fee settings ...
LEMMA ConfigureType == TypeOK /\ configure => TypeOK'
<1> SUFFICES ASSUME TypeOK, configure PROVE TypeOK'
  OBVIOUS
<1> USE DEF TypeOK, pauseVars, domainVars, mpcVars, moneyVars, eventVars
<1>1. (AccessTypeOK /\ FeeTypeOK)' => TypeOK'
  BY DEF configure, BalancesTypeOK, NoncesTypeOK
<1>2. CASE AccessNext /\ UNCHANGED feeVars
  BY <1>1, <1>2, AccessAssumption
  DEF AccessNext, grant_access, granted, AccessTypeOK, feeVars, FeeTypeOK, BasicFeeTypeOK,
      PercentageFeeTypeOK
<1>3. CASE FeeNext /\ UNCHANGED ExtrinsicAccess
  <2>1. PICK origin \in Origins, d \in Domains, a \in AssetIds :
          \/ \E x \in FeeAmounts :
                set_fee(origin, d, a, x) /\ UNCHANGED <<AssetFeeRate, HandlerType>>
          \/ \E r \in FeeRates :
                set_fee_rate(origin, d, a, r) /\ UNCHANGED <<AssetFees, HandlerType>>
          \/ \E type \in HandlerChoices :
                set_fee_handler(origin, d, a, type) /\ UNCHANGED <<AssetFees, AssetFeeRate>>
    BY <1>3 DEF FeeNext
  <2>2. AccessTypeOK'
    BY <1>3 DEF AccessTypeOK
  <2>3. FeeTypeOK'
    BY <2>1, BasicFeeAssumption, PercentageFeeAssumption, RouterAssumption, Zenon
    DEF FeeTypeOK, BasicFeeTypeOK, PercentageFeeTypeOK, FeeKeys, RateKeys, set_fee, fees_with,
        set_fee_rate, set_fee_handler
  <2> QED
    BY <1>1, <2>2, <2>3
<1> QED
  BY <1>2, <1>3 DEF configure

\* ... and the migration.
LEMMA UpgradeType == TypeOK /\ on_runtime_upgrade => TypeOK'
BY BridgeAssumption
DEF TypeOK, on_runtime_upgrade, settingVars, feeVars, pauseVars, domainVars, moneyVars, eventVars,
    AccessTypeOK, FeeTypeOK, BasicFeeTypeOK, PercentageFeeTypeOK, BalancesTypeOK, NoncesTypeOK

----------------------------------------------------------------------------
\* What an accepted deposit moves: the fee is below the amount, and the amount
\* announced is the converted remainder.
LEMMA DepositFacts ==
    ASSUME TypeOK, NEW origin \in Origins, NEW a \in AssetIds, NEW x \in Amounts,
           NEW dest \in Dests, deposit(origin, a, x, dest)
    PROVE  LET d == extract_dest(dest)
               fee == get_fee(d, a, x)
           IN  /\ d \in Domains
               /\ d \in DestDomainIds \ IsPaused
               /\ MpcAddr # ZeroAddress
               /\ x \in Nat /\ fee \in Nat /\ bridge_amount(x, fee) \in Nat
               /\ convert_to(a, bridge_amount(x, fee)) \in Nat
<1> DEFINE d == extract_dest(dest)
           fee == get_fee(d, a, x)
<1>1. /\ d # None /\ fee # None
      /\ d \in DestDomainIds \ IsPaused
      /\ MpcAddr # ZeroAddress
      /\ covers_fee(x, fee)
      /\ convert_to(a, bridge_amount(x, fee)) # None
  BY DEF deposit
<1>2. d \in Domains
  BY <1>1, BridgeAssumption DEF extract_dest
<1>3. x \in U128 /\ x \in Nat
  BY BridgeAssumption, TraitsAssumption DEF U128
<1>4. fee \in Nat
  BY <1>1, <1>2, <1>3, FeeType DEF TypeOK
<1>5. bridge_amount(x, fee) \in Nat
  BY <1>1, <1>3, <1>4 DEF bridge_amount, covers_fee
<1>6. convert_to(a, bridge_amount(x, fee)) \in Nat
  BY <1>1, <1>5, ConvertType
<1> QED
  BY <1>1, <1>2, <1>3, <1>4, <1>5, <1>6

\* A deposit keeps the types: balances stay natural numbers because the fee is
\* below the amount, and the nonce stays a u64.
LEMMA DepositType ==
    ASSUME TypeOK, NEW origin \in Origins, NEW a \in AssetIds, NEW x \in Amounts,
           NEW dest \in Dests, deposit(origin, a, x, dest)
    PROVE  TypeOK'
<1> DEFINE d == extract_dest(dest)
           fee == get_fee(d, a, x)
           net == bridge_amount(x, fee)
           sent == convert_to(a, net)
<1>1. d \in Domains /\ x \in Nat /\ fee \in Nat /\ net \in Nat /\ sent \in Nat
  BY DepositFacts
<1>2. /\ origin \in Users
      /\ extract_asset(a) # None
      /\ get_token_reserved_account(a) # None
      /\ DepositCounts[d] < MaxNonce
      /\ balances' = after_deposit(origin, a, x, fee)
      /\ DepositCounts' = bumped(d)
      /\ DepositEvents' =
            Append(DepositEvents,
                   [dest_domain_id |-> d, deposit_nonce |-> DepositCounts[d],
                    resource_id |-> extract_asset(a), sender |-> origin,
                    deposit_data |-> sent, fee_amount |-> fee, asset |-> a, bridged |-> net])
  BY DEF deposit
<1>3. UNCHANGED <<settingVars, pauseVars, domainVars, mpcVars, UsedNonces, batch,
                  ExecutionEvents, LastFailure, RetryEvents>>
  BY DEF deposit
<1>4. BalancesTypeOK'
  <2>1. origin \in Accounts /\ balances \in Balances
    BY <1>2, TransactorAssumption DEF TypeOK, BalancesTypeOK, Balances
  <2>2. after_fee(origin, a, x, fee) \in Balances
    BY <1>1, <2>1, WithdrawnType, DepositedType, BridgeAssumption DEF after_fee
  <2>3. get_token_reserved_account(a) \in Accounts
    BY <1>2, BridgeAssumption DEF get_token_reserved_account
  <2>4. after_deposit(origin, a, x, fee) \in Balances
    BY <1>1, <2>2, <2>3, DepositedType DEF after_deposit
  <2> QED
    BY <1>2, <2>4 DEF BalancesTypeOK, Balances
<1>5. DepositCounts' \in [Domains -> 0 .. MaxNonce]
  <2>1. DepositCounts \in [Domains -> 0 .. MaxNonce] /\ MaxNonce \in Nat
    BY BridgeAssumption DEF TypeOK
  <2>2. DepositCounts' = [DepositCounts EXCEPT ![d] = @ + 1] /\ DepositCounts[d] < MaxNonce
    BY <1>2 DEF bumped
  <2> HIDE DEF d
  <2>3. DepositCounts[d] + 1 \in 0 .. MaxNonce
    BY <1>1, <2>1, <2>2
  <2> QED
    BY <1>1, <2>1, <2>2, <2>3
<1>6. DepositEvents' \in Seq(DepositEvent)
  <2>1. DepositCounts[d] \in Nat
    <3>1. DepositCounts \in [Domains -> 0 .. MaxNonce] /\ MaxNonce \in Nat
      BY BridgeAssumption DEF TypeOK
    <3> HIDE DEF d
    <3> QED
      BY <1>1, <3>1
  <2>2. [dest_domain_id |-> d, deposit_nonce |-> DepositCounts[d],
         resource_id |-> extract_asset(a), sender |-> origin,
         deposit_data |-> sent, fee_amount |-> fee, asset |-> a, bridged |-> net]
           \in DepositEvent
    BY <1>1, <1>2, <2>1, BindingType DEF DepositEvent
  <2>3. PICK ev \in DepositEvent : DepositEvents' = Append(DepositEvents, ev)
    BY <1>2, <2>2
  <2>4. DepositEvents \in Seq(DepositEvent)
    BY DEF TypeOK
  <2> QED
    BY <2>3, <2>4
<1> QED
  BY <1>3, <1>4, <1>5, <1>6
  DEF TypeOK, settingVars, feeVars, pauseVars, domainVars, mpcVars, AccessTypeOK, FeeTypeOK,
      BasicFeeTypeOK, PercentageFeeTypeOK, NoncesTypeOK

\* Loading a batch keeps the types.
LEMMA ExecuteType ==
    ASSUME TypeOK, NEW proposals \in Batches, NEW signer \in MpcAddresses,
           execute_proposal(proposals, signer)
    PROVE  TypeOK'
BY BridgeAssumption, Zenon
DEF TypeOK, execute_proposal, settingVars, feeVars, pauseVars, domainVars, mpcVars, eventVars,
    AccessTypeOK, FeeTypeOK, BasicFeeTypeOK, PercentageFeeTypeOK, BalancesTypeOK, NoncesTypeOK

\* A nonce's word and bit exist, so marking it keeps the bitmap well typed.
LEMMA MarkedType ==
    ASSUME NoncesTypeOK, NEW n \in Nonces, NEW d \in Domains
    PROVE  with_executed(n, d) \in [Domains -> [Words -> SUBSET (0 .. WORD - 1)]]
<1>1. n \in Nat /\ n \div WORD \in Words
  BY NonceAssumption DEF Words
<1>2. n % WORD \in 0 .. WORD - 1
  BY <1>1 DEF WORD
<1> QED
  BY <1>1, <1>2 DEF with_executed, NoncesTypeOK

\* One turn of the loop of execute_proposal keeps the types.
LEMMA ExecuteNextType == TypeOK /\ execute_next => TypeOK'
<1> SUFFICES ASSUME TypeOK, execute_next PROVE TypeOK'
  OBVIOUS
<1> DEFINE p == Head(batch)
<1>1. p \in Proposals /\ batch' \in Seq(Proposals)
  BY DEF TypeOK, execute_next
<1>2. UNCHANGED <<settingVars, pauseVars, domainVars, mpcVars, DepositCounts, DepositEvents,
                  RetryEvents>>
  BY DEF execute_next
<1> HIDE DEF p
<1>3. /\ balances' \in Balances
      /\ NoncesTypeOK'
      /\ ExecutionEvents' \in Seq(Proposals)
      /\ LastFailure' \in FailureEvent \cup {None}
  <2> USE DEF TypeOK, BalancesTypeOK, Balances
  <2>0. p.origin_domain_id \in Domains /\ p.deposit_nonce \in Nonces
    BY <1>1, ProposalType
  <2>1. CASE reject_proposal(p)
    <3>1. rejection(p) # "Ok" => rejection(p) \in Errors
      BY DEF rejection, Errors
    <3> QED
      BY <2>0, <2>1, <3>1, Zenon DEF reject_proposal, failure, NoncesTypeOK, FailureEvent
  <2>2. rejection(p) = "Ok" => after_release(p) \in Balances
    BY <1>1, AcceptedType, WithdrawnType DEF after_release
  <2>3. CASE fail_payout(p)
    BY <2>0, <2>2, <2>3 DEF fail_payout, failure, NoncesTypeOK, Errors, FailureEvent
  <2>4. CASE complete_proposal(p)
    <3>1. balances' \in Balances
      BY <1>1, <2>2, <2>4, AcceptedType, DepositedType, Zenon
      DEF complete_proposal, payable, can_deposit, after_payout
    <3>2. NoncesTypeOK'
      BY <2>0, <2>4, MarkedType DEF complete_proposal, NoncesTypeOK
    <3> QED
      BY <1>1, <2>4, <3>1, <3>2 DEF complete_proposal
  <2> QED
    BY <2>1, <2>3, <2>4 DEF execute_next, p
<1> QED
  BY <1>1, <1>2, <1>3
  DEF TypeOK, settingVars, feeVars, pauseVars, domainVars, mpcVars, AccessTypeOK, FeeTypeOK,
      BasicFeeTypeOK, PercentageFeeTypeOK, BalancesTypeOK, Balances

----------------------------------------------------------------------------
\* Administration runs between extrinsics only and moves no money.
LEMMA AdministerFrame ==
    ASSUME administer
    PROVE  /\ Idle /\ UNCHANGED <<settingVars, balances, DepositCounts, UsedNonces, batch>>
           /\ UNCHANGED <<DepositEvents, ExecutionEvents, LastFailure>>
<1> DEFINE Frame == /\ Idle /\ UNCHANGED <<settingVars, balances, DepositCounts, UsedNonces, batch>>
                    /\ UNCHANGED <<DepositEvents, ExecutionEvents, LastFailure>>
<1>1. ASSUME NEW origin, pause_all_bridges(origin) \/ unpause_all_bridges(origin) PROVE Frame
  BY <1>1 DEF pause_all_bridges, unpause_all_bridges, moneyVars, eventVars
<1>2. ASSUME NEW origin, NEW addr, set_mpc_address(origin, addr) PROVE Frame
  BY <1>2 DEF set_mpc_address, moneyVars, eventVars
<1>3. ASSUME NEW origin, NEW d, pause_bridge(origin, d) \/ unpause_bridge(origin, d) PROVE Frame
  BY <1>3 DEF pause_bridge, unpause_bridge, moneyVars, eventVars
<1>4. ASSUME NEW origin, NEW d, NEW chain,
             register_domain(origin, d, chain) \/ unregister_domain(origin, d, chain)
      PROVE  Frame
  BY <1>4 DEF register_domain, unregister_domain, moneyVars, eventVars
<1>5. ASSUME NEW origin, NEW height, NEW d, retry(origin, height, d) PROVE Frame
  BY <1>5 DEF retry
<1> HIDE DEF Frame
<1>6. Frame
  BY <1>1, <1>2, <1>3, <1>4, <1>5 DEF administer
<1> QED
  BY <1>6 DEF Frame

\* Every step keeps the types.
LEMMA TypeStep == TypeOK /\ [Next]_vars => TypeOK'
<1> SUFFICES ASSUME TypeOK, [Next]_vars PROVE TypeOK'
  OBVIOUS
<1>1. CASE UNCHANGED vars
  BY <1>1
  DEF TypeOK, vars, settingVars, feeVars, pauseVars, domainVars, mpcVars, moneyVars, eventVars,
      AccessTypeOK, FeeTypeOK, BasicFeeTypeOK, PercentageFeeTypeOK, BalancesTypeOK, NoncesTypeOK
<1> QED
  BY <1>1, AdministerType, ConfigureType, UpgradeType, DepositType, ExecuteType, ExecuteNextType
  DEF Next

\* The pallets' storage stays within its types whatever extrinsics are called:
\* no balance becomes negative (the fee is below the amount, a release is
\* covered by the reserve), deposit nonces stay within u64, every event and
\* every bit of UsedNonces is where the code looks for it.
THEOREM TypeCorrectness == Spec => []TypeOK
BY TypeInit, TypeStep, PTL DEF Spec

----------------------------------------------------------------------------
(* Safety *)

\* Grants and fee settings touch nothing else, and run between extrinsics only.
LEMMA ConfigureFrame ==
    ASSUME configure
    PROVE  Idle /\ UNCHANGED <<pauseVars, domainVars, mpcVars, moneyVars>>
BY DEF configure

----------------------------------------------------------------------------
(* Replay protection *)

\* Two nonces with the same word and the same bit are the same nonce.
LEMMA WordAndBit ==
    ASSUME NEW m \in Nat, NEW n \in Nat, m \div WORD = n \div WORD, m % WORD = n % WORD
    PROVE  m = n
BY DEF WORD

\* Marking a nonce of a domain changes the answer for this nonce alone.
LEMMA MarkedExactly ==
    ASSUME NoncesTypeOK, NEW n \in Nonces, NEW d \in Domains,
           UsedNonces' = with_executed(n, d),
           NEW m \in Nonces, NEW e \in Domains
    PROVE  is_proposal_executed(m, e)' <=> is_proposal_executed(m, e) \/ (m = n /\ e = d)
<1>1. m \in Nat /\ n \in Nat /\ m \div WORD \in Words /\ n \div WORD \in Words
  BY NonceAssumption DEF Words
<1>2. CASE e = d /\ m \div WORD = n \div WORD
  <2>1. UsedNonces'[e][m \div WORD] = UsedNonces[e][m \div WORD] \cup {n % WORD}
    BY <1>1, <1>2 DEF with_executed, NoncesTypeOK
  <2>2. m % WORD = n % WORD <=> m = n
    BY <1>1, <1>2, WordAndBit
  <2> QED
    BY <1>2, <2>1, <2>2 DEF is_proposal_executed
<1>3. CASE ~(e = d /\ m \div WORD = n \div WORD)
  <2>1. UsedNonces'[e][m \div WORD] = UsedNonces[e][m \div WORD]
    BY <1>1, <1>3 DEF with_executed, NoncesTypeOK
  <2> QED
    BY <1>3, <2>1 DEF is_proposal_executed
<1> QED
  BY <1>2, <1>3

\* Completing a proposal that was not executed before keeps AtMostOnce.
LEMMA CompleteOnce ==
    ASSUME TypeOK, AtMostOnce, NEW p \in Proposals, complete_proposal(p)
    PROVE  AtMostOnce'
<1> DEFINE L == Len(ExecutionEvents)
           Marked(d, n) == \E i \in 1 .. L : ExecutedAs(i, d, n)
<1>1. /\ ExecutionEvents \in Seq(Proposals)
      /\ ExecutionEvents' = Append(ExecutionEvents, p)
      /\ L \in Nat /\ Len(ExecutionEvents') = L + 1
      /\ ExecutionEvents'[L + 1] = p
      /\ \A i \in 1 .. L : /\ ExecutionEvents'[i] = ExecutionEvents[i]
                           /\ ExecutionEvents[i] \in Proposals
  <2>1. ExecutionEvents \in Seq(Proposals)
    BY Zenon DEF TypeOK
  <2>2. ExecutionEvents' = Append(ExecutionEvents, p)
    BY Zenon DEF complete_proposal
  <2> QED
    BY <2>1, <2>2
<1>2. p.origin_domain_id \in Domains /\ p.deposit_nonce \in Nonces
  BY ProposalType
<1>3. ~is_proposal_executed(p.deposit_nonce, p.origin_domain_id)
  BY AcceptedType DEF complete_proposal
<1>4. \A i \in 1 .. L : ~ExecutedAs(i, p.origin_domain_id, p.deposit_nonce)
  BY <1>2, <1>3 DEF AtMostOnce
<1>5. ASSUME NEW i \in 1 .. L + 1, NEW j \in 1 .. L + 1,
             ExecutionEvents'[i].origin_domain_id = ExecutionEvents'[j].origin_domain_id,
             ExecutionEvents'[i].deposit_nonce = ExecutionEvents'[j].deposit_nonce
      PROVE  i = j
  <2>1. CASE i \in 1 .. L /\ j \in 1 .. L
    BY <1>1, <1>5, <2>1 DEF AtMostOnce, ExecutedAs
  <2>2. CASE i = L + 1 /\ j \in 1 .. L
    BY <1>1, <1>4, <1>5, <2>2 DEF ExecutedAs
  <2>3. CASE i \in 1 .. L /\ j = L + 1
    BY <1>1, <1>4, <1>5, <2>3 DEF ExecutedAs
  <2> QED
    BY <1>1, <2>1, <2>2, <2>3
<1>6. ASSUME NEW d \in Domains, NEW n \in Nonces
      PROVE  is_proposal_executed(n, d)'
             <=> \E i \in 1 .. L + 1 :
                    /\ ExecutionEvents'[i].origin_domain_id = d
                    /\ ExecutionEvents'[i].deposit_nonce = n
  <2>1. is_proposal_executed(n, d)'
        <=> is_proposal_executed(n, d) \/ (n = p.deposit_nonce /\ d = p.origin_domain_id)
    BY <1>2, MarkedExactly DEF complete_proposal, TypeOK
  <2>2. is_proposal_executed(n, d) <=> Marked(d, n)
    BY DEF AtMostOnce
  <2> QED
    BY <1>1, <2>1, <2>2 DEF ExecutedAs
<1> QED
  BY <1>1, <1>5, <1>6 DEF AtMostOnce, ExecutedAs

\* Every step keeps AtMostOnce: only a completed proposal touches what it is
\* about.
LEMMA AtMostOnceStep == TypeOK /\ AtMostOnce /\ [Next]_vars => AtMostOnce'
<1> SUFFICES ASSUME TypeOK, AtMostOnce, [Next]_vars PROVE AtMostOnce'
  OBVIOUS
<1>1. UNCHANGED <<UsedNonces, ExecutionEvents>> => AtMostOnce'
  BY DEF AtMostOnce, ExecutedAs, is_proposal_executed
<1>2. CASE administer
  BY <1>1, <1>2, AdministerFrame
<1>3. CASE configure \/ on_runtime_upgrade \/ UNCHANGED vars
  BY <1>1, <1>3 DEF configure, on_runtime_upgrade, vars, moneyVars, eventVars
<1>4. ASSUME NEW origin \in Origins, NEW asset \in AssetIds, NEW amount \in Amounts,
             NEW dest \in Dests, deposit(origin, asset, amount, dest)
      PROVE  AtMostOnce'
  BY <1>1, <1>4 DEF deposit
<1>5. ASSUME NEW proposals \in Batches, NEW signer \in MpcAddresses,
             execute_proposal(proposals, signer)
      PROVE  AtMostOnce'
  BY <1>1, <1>5 DEF execute_proposal, eventVars
<1>6. CASE execute_next
  <2>1. Head(batch) \in Proposals
    BY <1>6 DEF execute_next, TypeOK
  <2>2. CASE reject_proposal(Head(batch)) \/ fail_payout(Head(batch))
    BY <1>1, <2>2 DEF reject_proposal, fail_payout
  <2>3. CASE complete_proposal(Head(batch))
    BY <2>1, <2>3, CompleteOnce
  <2> QED
    BY <1>6, <2>2, <2>3 DEF execute_next
<1> QED
  BY <1>2, <1>3, <1>4, <1>5, <1>6 DEF Next

\* A deposit of another chain is paid out at most once, for any number of
\* domains, nonces, batches and replays, and the bitmap marks exactly the
\* nonces paid.
THEOREM ReplayProtection == Spec => []AtMostOnce
<1>1. Init => AtMostOnce
  BY DEF Init, NoncesInit, AtMostOnce, ExecutedAs, is_proposal_executed, Words
<1> QED
  BY <1>1, AtMostOnceStep, TypeCorrectness, PTL DEF Spec

----------------------------------------------------------------------------
(* Deposit numbers *)

\* An accepted deposit takes the next number of its domain.
LEMMA DepositNumbered ==
    ASSUME TypeOK, NonceSequence, NEW origin \in Origins, NEW asset \in AssetIds,
           NEW amount \in Amounts, NEW dest \in Dests, deposit(origin, asset, amount, dest)
    PROVE  NonceSequence'
<1> DEFINE d == extract_dest(dest)
           L == Len(DepositEvents)
           New == DepositEvents'[L + 1]
<1>1. d \in Domains
  BY DepositFacts
<1>2. /\ L \in Nat /\ Len(DepositEvents') = L + 1
      /\ New.dest_domain_id = d /\ New.deposit_nonce = DepositCounts[d]
      /\ \A i \in 1 .. L : /\ DepositEvents'[i] = DepositEvents[i]
                           /\ DepositEvents[i].dest_domain_id \in Domains
                           /\ DepositEvents[i].deposit_nonce \in Nat
  <2>1. PICK ev : /\ DepositEvents' = Append(DepositEvents, ev)
                  /\ ev.dest_domain_id = d /\ ev.deposit_nonce = DepositCounts[d]
    <3>1. DepositEvents' =
             Append(DepositEvents,
                    LET fee == get_fee(d, asset, amount)
                        net == bridge_amount(amount, fee)
                    IN  [dest_domain_id |-> d, deposit_nonce |-> DepositCounts[d],
                         resource_id |-> extract_asset(asset), sender |-> origin,
                         deposit_data |-> convert_to(asset, net), fee_amount |-> fee,
                         asset |-> asset, bridged |-> net])
      BY DEF deposit
    <3> HIDE DEF d
    <3> QED
      BY <3>1
  <2>2. DepositEvents \in Seq(DepositEvent)
    BY DEF TypeOK
  <2>3. /\ L \in Nat /\ Len(DepositEvents') = L + 1
        /\ New = ev
        /\ \A i \in 1 .. L : /\ DepositEvents'[i] = DepositEvents[i]
                             /\ DepositEvents[i] \in DepositEvent
    BY <2>1, <2>2
  <2> QED
    BY <2>1, <2>3 DEF DepositEvent
<1>3. /\ \A e \in Domains : DepositCounts[e] \in Nat
      /\ DepositCounts'[d] = DepositCounts[d] + 1
      /\ \A e \in Domains \ {d} : DepositCounts'[e] = DepositCounts[e]
  <2>1. DepositCounts \in [Domains -> Nat]
    BY BridgeAssumption DEF TypeOK
  <2>2. DepositCounts' = [DepositCounts EXCEPT ![d] = @ + 1]
    BY DEF deposit, bumped
  <2> QED
    BY <1>1, <2>1, <2>2
<1> HIDE DEF d, L, New
<1>4. \A i \in 1 .. L + 1 :
         DepositEvents'[i].deposit_nonce < DepositCounts'[DepositEvents'[i].dest_domain_id]
  <2> TAKE i \in 1 .. L + 1
  <2>1. CASE i \in 1 .. L
    <3> DEFINE e == DepositEvents[i].dest_domain_id
               n == DepositEvents[i].deposit_nonce
    <3>1. n < DepositCounts[e]
      BY <2>1 DEF NonceSequence, L
    <3>2. DepositEvents'[i].dest_domain_id = e /\ DepositEvents'[i].deposit_nonce = n
      BY <1>2, <2>1
    <3>3. e \in Domains /\ n \in Nat
      BY <1>2, <2>1
    <3> HIDE DEF e, n
    <3>4. n < DepositCounts'[e]
      BY <1>1, <1>3, <3>1, <3>3
    <3> QED
      BY <3>2, <3>4
  <2>2. CASE i = L + 1
    <3>1. DepositEvents'[i] = New
      BY <2>2 DEF New
    <3>2. DepositCounts[d] < DepositCounts'[d]
      BY <1>1, <1>3
    <3> QED
      BY <1>2, <3>1, <3>2
  <2>3. i \in 1 .. L \/ i = L + 1
    <3>1. L \in Nat
      BY <1>2
    <3> QED
      BY <3>1
  <2> QED
    BY <2>1, <2>2, <2>3, Zenon
<1>5. \A i, j \in 1 .. L + 1 :
         i < j /\ DepositEvents'[i].dest_domain_id = DepositEvents'[j].dest_domain_id
         => DepositEvents'[i].deposit_nonce < DepositEvents'[j].deposit_nonce
  <2> SUFFICES ASSUME NEW i \in 1 .. L + 1, NEW j \in 1 .. L + 1, i < j,
                      DepositEvents'[i].dest_domain_id = DepositEvents'[j].dest_domain_id
               PROVE  DepositEvents'[i].deposit_nonce < DepositEvents'[j].deposit_nonce
    OBVIOUS
  <2>1. i \in 1 .. L
    BY <1>2
  <2>2. CASE j \in 1 .. L
    BY <1>2, <2>1, <2>2 DEF NonceSequence, L
  <2>3. CASE j = L + 1
    <3>1. DepositEvents[i].dest_domain_id = d
      BY <1>2, <2>1, <2>3 DEF New
    <3>2. DepositEvents[i].deposit_nonce < DepositCounts[d]
      BY <2>1, <3>1 DEF NonceSequence, L
    <3> QED
      BY <1>2, <2>1, <2>3, <3>2 DEF New
  <2> QED
    BY <1>2, <2>2, <2>3
<1>6. ASSUME NEW e \in Domains, NEW n \in 0 .. DepositCounts'[e] - 1
      PROVE  \E i \in 1 .. L + 1 :
                DepositEvents'[i].dest_domain_id = e /\ DepositEvents'[i].deposit_nonce = n
  <2>1. CASE n \in 0 .. DepositCounts[e] - 1
    <3>1. PICK i \in 1 .. L :
             DepositEvents[i].dest_domain_id = e /\ DepositEvents[i].deposit_nonce = n
      BY <2>1 DEF NonceSequence, L
    <3> QED
      BY <1>2, <3>1
  <2>2. CASE n \notin 0 .. DepositCounts[e] - 1
    <3>1. e = d /\ n = DepositCounts[d]
      BY <1>1, <1>3, <2>2
    <3>2. L + 1 \in 1 .. L + 1
      BY <1>2
    <3> QED
      BY <1>2, <3>1, <3>2 DEF New
  <2> QED
    BY <2>1, <2>2
<1> QED
  BY <1>2, <1>4, <1>5, <1>6 DEF NonceSequence

\* Every step keeps the numbering: only a deposit touches what it is about.
LEMMA NonceSequenceStep == TypeOK /\ NonceSequence /\ [Next]_vars => NonceSequence'
<1> SUFFICES ASSUME TypeOK, NonceSequence, [Next]_vars PROVE NonceSequence'
  OBVIOUS
<1>1. UNCHANGED <<DepositCounts, DepositEvents>> => NonceSequence'
  BY DEF NonceSequence
<1>2. CASE administer
  BY <1>1, <1>2, AdministerFrame
<1>3. CASE configure \/ on_runtime_upgrade \/ UNCHANGED vars
  BY <1>1, <1>3 DEF configure, on_runtime_upgrade, vars, moneyVars, eventVars
<1>4. ASSUME NEW proposals \in Batches, NEW signer \in MpcAddresses,
             execute_proposal(proposals, signer)
      PROVE  NonceSequence'
  BY <1>1, <1>4 DEF execute_proposal, eventVars
<1>5. CASE execute_next
  BY <1>1, <1>5 DEF execute_next
<1> QED
  BY <1>2, <1>3, <1>4, <1>5, DepositNumbered DEF Next

\* Deposits to a domain carry the numbers 0, 1, 2, ... in order, without a gap
\* and without a repetition, over pauses, unregistrations and upgrades.
THEOREM DepositNumbering == Spec => []NonceSequence
<1>1. Init => NonceSequence
  BY DEF Init, NonceSequence
<1> QED
  BY <1>1, NonceSequenceStep, TypeCorrectness, PTL DEF Spec

----------------------------------------------------------------------------
(* Keys and registrations *)

\* Every step keeps TrafficNeedsMpc: set_mpc_address acts on a clear address only.
LEMMA TrafficStep == TypeOK /\ TrafficNeedsMpc /\ [Next]_vars => TrafficNeedsMpc'
<1> SUFFICES ASSUME TypeOK, TrafficNeedsMpc, [Next]_vars PROVE TrafficNeedsMpc'
  OBVIOUS
<1> USE DEF TrafficNeedsMpc
<1>1. CASE administer
  <2>1. UNCHANGED <<DepositEvents, ExecutionEvents, batch>>
    BY <1>1, AdministerFrame
  <2>2. CASE UNCHANGED <<MpcAddr, RetryEvents>>
    BY <2>1, <2>2
  <2>3. ASSUME NEW origin \in Origins, NEW addr, set_mpc_address(origin, addr)
        PROVE  TrafficNeedsMpc'
    BY <2>1, <2>3 DEF set_mpc_address, mpc_updatable, moneyVars, eventVars
  <2>4. ASSUME NEW origin \in Origins, NEW height, NEW d, retry(origin, height, d)
        PROVE  TrafficNeedsMpc'
    BY <2>4 DEF retry, mpcVars
  <2>5. ASSUME NEW origin \in Origins,
               \/ pause_all_bridges(origin) \/ unpause_all_bridges(origin)
               \/ \E d \in Domains : pause_bridge(origin, d) \/ unpause_bridge(origin, d)
               \/ \E d \in Domains, chain \in ChainIds :
                     register_domain(origin, d, chain) \/ unregister_domain(origin, d, chain)
        PROVE  UNCHANGED <<MpcAddr, RetryEvents>>
    BY <2>5 DEF pause_all_bridges, unpause_all_bridges, pause_bridge, unpause_bridge,
                register_domain, unregister_domain, mpcVars, moneyVars, eventVars
  <2> HIDE DEF TrafficNeedsMpc
  <2> QED
    BY <1>1, <2>2, <2>3, <2>4, <2>5 DEF administer
<1>2. CASE configure \/ on_runtime_upgrade \/ UNCHANGED vars
  BY <1>2, BridgeAssumption
  DEF configure, on_runtime_upgrade, vars, mpcVars, moneyVars, eventVars
<1>3. ASSUME NEW origin \in Origins, NEW asset \in AssetIds, NEW amount \in Amounts,
             NEW dest \in Dests, deposit(origin, asset, amount, dest)
      PROVE  TrafficNeedsMpc'
  BY <1>3 DEF deposit, mpcVars
<1>4. ASSUME NEW proposals \in Batches, NEW signer \in MpcAddresses,
             execute_proposal(proposals, signer)
      PROVE  TrafficNeedsMpc'
  BY <1>4 DEF execute_proposal, mpcVars
<1>5. CASE execute_next
  BY <1>5 DEF execute_next, mpcVars
<1> QED
  BY <1>1, <1>2, <1>3, <1>4, <1>5 DEF Next

\* Nothing is sent, executed or retried before there is an MPC address, and the
\* address is never cleared afterwards.
THEOREM TrafficAfterSetup == Spec => []TrafficNeedsMpc
<1>1. Init => TrafficNeedsMpc
  BY DEF Init, TrafficNeedsMpc
<1> QED
  BY <1>1, TrafficStep, TypeCorrectness, PTL DEF Spec

\* Every step keeps the two registration tables in agreement.
LEMMA DomainTablesStep == TypeOK /\ DomainTablesAgree /\ [Next]_vars => DomainTablesAgree'
<1> SUFFICES ASSUME TypeOK, DomainTablesAgree, [Next]_vars PROVE DomainTablesAgree'
  OBVIOUS
<1>1. UNCHANGED domainVars => DomainTablesAgree'
  BY DEF DomainTablesAgree, domainVars
<1>2. CASE administer
  <2>1. ASSUME NEW origin \in Origins, NEW d \in Domains, NEW chain \in ChainIds,
               register_domain(origin, d, chain) \/ unregister_domain(origin, d, chain)
        PROVE  DomainTablesAgree'
    <3>1. chain # None /\ DestChainIds \in [Domains -> ChainIds \cup {None}]
      BY BridgeAssumption DEF TypeOK
    <3>2. CASE register_domain(origin, d, chain)
      BY <3>1, <3>2 DEF register_domain, DomainTablesAgree
    <3>3. CASE unregister_domain(origin, d, chain)
      BY <3>1, <3>3 DEF unregister_domain, DomainTablesAgree
    <3> QED
      BY <2>1, <3>2, <3>3
  <2>2. ASSUME NEW origin \in Origins, pause_all_bridges(origin) \/ unpause_all_bridges(origin)
        PROVE  UNCHANGED domainVars
    BY <2>2 DEF pause_all_bridges, unpause_all_bridges
  <2>3. ASSUME NEW origin \in Origins, NEW addr, set_mpc_address(origin, addr)
        PROVE  UNCHANGED domainVars
    BY <2>3 DEF set_mpc_address
  <2>4. ASSUME NEW origin \in Origins, NEW d \in Domains,
               pause_bridge(origin, d) \/ unpause_bridge(origin, d)
        PROVE  UNCHANGED domainVars
    BY <2>4 DEF pause_bridge, unpause_bridge
  <2>5. ASSUME NEW origin \in Origins, NEW d \in Domains, NEW height, retry(origin, height, d)
        PROVE  UNCHANGED domainVars
    BY <2>5 DEF retry
  <2> QED
    BY <1>1, <1>2, <2>1, <2>2, <2>3, <2>4, <2>5 DEF administer
<1>3. CASE configure \/ on_runtime_upgrade \/ UNCHANGED vars
  BY <1>1, <1>3 DEF configure, on_runtime_upgrade, vars
<1>4. ASSUME NEW origin \in Origins, NEW asset \in AssetIds, NEW amount \in Amounts,
             NEW dest \in Dests, deposit(origin, asset, amount, dest)
      PROVE  DomainTablesAgree'
  BY <1>1, <1>4 DEF deposit
<1>5. ASSUME NEW proposals \in Batches, NEW signer \in MpcAddresses,
             execute_proposal(proposals, signer)
      PROVE  DomainTablesAgree'
  BY <1>1, <1>5 DEF execute_proposal
<1>6. CASE execute_next
  BY <1>1, <1>6 DEF execute_next
<1> QED
  BY <1>2, <1>3, <1>4, <1>5, <1>6 DEF Next

\* A registered domain always has a chain id and an unregistered one never.
THEOREM DomainTables == Spec => []DomainTablesAgree
<1>1. Init => DomainTablesAgree
  BY Zenon DEF Init, DomainTablesAgree
<1> QED
  BY <1>1, DomainTablesStep, TypeCorrectness, PTL DEF Spec

----------------------------------------------------------------------------
(* Action properties *)

\* What a step may do to a domain that is paused.
PauseKept ==
    \A d \in IsPaused :
        /\ DepositCounts'[d] = DepositCounts[d]
        /\ UsedNonces'[d] = UsedNonces[d]
        /\ d \notin IsPaused' => UNCHANGED <<settingVars, domainVars, StorageVersion, moneyVars>>

\* Every step keeps what is promised for paused domains.
LEMMA PauseStep == TypeOK /\ [Next]_vars => PauseKept
<1> SUFFICES ASSUME TypeOK, [Next]_vars PROVE PauseKept
  OBVIOUS
<1>0. IsPaused \subseteq Domains
  BY DEF TypeOK
<1>1. CASE administer
  <2>1. UNCHANGED <<DepositCounts, UsedNonces>>
    BY <1>1, AdministerFrame
  <2>2. PICK origin \in Origins :
          \/ pause_all_bridges(origin)
          \/ unpause_all_bridges(origin)
          \/ \E addr \in MpcAddresses \cup {ZeroAddress} : set_mpc_address(origin, addr)
          \/ \E d \in Domains :
                \/ pause_bridge(origin, d)
                \/ unpause_bridge(origin, d)
                \/ \E chain \in ChainIds :
                      register_domain(origin, d, chain) \/ unregister_domain(origin, d, chain)
                \/ \E height \in RetryHeights : retry(origin, height, d)
    BY <1>1 DEF administer
  <2>3. \/ IsPaused \subseteq IsPaused'
        \/ UNCHANGED <<settingVars, domainVars, StorageVersion, moneyVars>>
    <3>1. CASE pause_all_bridges(origin)
      BY <3>1 DEF pause_all_bridges, pause_all_domains, all_domains, TypeOK
    <3>2. CASE unpause_all_bridges(origin)
      BY <3>2 DEF unpause_all_bridges, mpcVars
    <3>3. ASSUME NEW addr, set_mpc_address(origin, addr)
          PROVE  UNCHANGED <<settingVars, domainVars, StorageVersion, moneyVars>>
      BY <3>3 DEF set_mpc_address
    <3>4. ASSUME NEW d \in Domains, pause_bridge(origin, d)
          PROVE  IsPaused \subseteq IsPaused'
      BY <3>4 DEF pause_bridge
    <3>5. ASSUME NEW d \in Domains, unpause_bridge(origin, d)
          PROVE  UNCHANGED <<settingVars, domainVars, StorageVersion, moneyVars>>
      BY <3>5 DEF unpause_bridge, mpcVars
    <3>6. ASSUME NEW d \in Domains, NEW chain,
                 register_domain(origin, d, chain) \/ unregister_domain(origin, d, chain)
          PROVE  IsPaused \subseteq IsPaused'
      BY <3>6 DEF register_domain, unregister_domain, pauseVars
    <3>7. ASSUME NEW d \in Domains, NEW height, retry(origin, height, d)
          PROVE  IsPaused \subseteq IsPaused'
      BY <3>7 DEF retry, pauseVars
    <3> QED
      BY <2>2, <3>1, <3>2, <3>3, <3>4, <3>5, <3>6, <3>7
  <2> QED
    BY <2>1, <2>3, Zenon DEF PauseKept
<1>2. CASE configure \/ on_runtime_upgrade \/ UNCHANGED vars
  BY <1>2 DEF configure, on_runtime_upgrade, vars, pauseVars, moneyVars, PauseKept
<1>3. ASSUME NEW origin \in Origins, NEW asset \in AssetIds, NEW amount \in Amounts,
             NEW dest \in Dests, deposit(origin, asset, amount, dest)
      PROVE  PauseKept
  <2>1. extract_dest(dest) \notin IsPaused /\ UNCHANGED <<IsPaused, UsedNonces>>
    BY <1>3 DEF deposit, pauseVars
  <2>2. DepositCounts' = [DepositCounts EXCEPT ![extract_dest(dest)] = @ + 1]
    BY <1>3 DEF deposit, bumped
  <2> QED
    BY <1>0, <2>1, <2>2 DEF PauseKept, TypeOK
<1>4. ASSUME NEW proposals \in Batches, NEW signer \in MpcAddresses,
             execute_proposal(proposals, signer)
      PROVE  PauseKept
  BY <1>4, Zenon DEF execute_proposal, pauseVars, PauseKept
<1>5. CASE execute_next
  <2>1. UNCHANGED <<IsPaused, DepositCounts>>
    BY <1>5 DEF execute_next, pauseVars
  <2>2. Head(batch) \in Proposals
    BY <1>5 DEF execute_next, TypeOK
  <2>3. CASE reject_proposal(Head(batch)) \/ fail_payout(Head(batch))
    BY <2>1, <2>3 DEF reject_proposal, fail_payout, PauseKept
  <2>4. CASE complete_proposal(Head(batch))
    <3>1. Head(batch).origin_domain_id \notin IsPaused
      BY <2>2, <2>4, AcceptedType DEF complete_proposal
    <3> QED
      BY <1>0, <2>1, <2>4, <3>1
      DEF complete_proposal, with_executed, TypeOK, NoncesTypeOK, PauseKept
  <2> QED
    BY <1>5, <2>3, <2>4 DEF execute_next
<1> QED
  BY <1>1, <1>2, <1>3, <1>4, <1>5 DEF Next

\* Nothing goes out to or comes in from a paused domain, and only an unpausing
\* call ends the pause.
THEOREM PauseIsKept == Spec => PauseHolds
<1>1. TypeOK /\ [Next]_vars => [PauseKept]_vars
  BY PauseStep
<1> QED
  BY <1>1, TypeCorrectness, PTL DEF Spec, PauseHolds, PauseKept

\* What a step may do to the MPC address.
MpcAddrKept ==
    MpcAddr' # MpcAddr => \/ MpcAddr = ZeroAddress
                          \/ StorageVersion = 0 /\ StorageVersion' = 1

\* Once set, it is never cleared.
MpcAddrNotCleared == MpcAddr # ZeroAddress => MpcAddr' # ZeroAddress

\* Every step keeps a set MPC address, the migration aside.
LEMMA MpcAddrStep == [Next]_vars => MpcAddrKept /\ MpcAddrNotCleared
<1> SUFFICES ASSUME [Next]_vars PROVE MpcAddrKept /\ MpcAddrNotCleared
  OBVIOUS
<1> USE DEF MpcAddrKept, MpcAddrNotCleared, mpcVars
<1>1. CASE administer
  BY <1>1
  DEF administer, pause_all_bridges, unpause_all_bridges, set_mpc_address, mpc_updatable,
      pause_bridge, unpause_bridge, register_domain, unregister_domain, retry
<1>2. CASE configure \/ on_runtime_upgrade \/ UNCHANGED vars
  BY <1>2, BridgeAssumption DEF configure, on_runtime_upgrade, vars
<1>3. ASSUME NEW origin, NEW asset, NEW amount, NEW dest, deposit(origin, asset, amount, dest)
      PROVE  MpcAddrKept /\ MpcAddrNotCleared
  BY <1>3 DEF deposit
<1>4. ASSUME NEW proposals, NEW signer, execute_proposal(proposals, signer)
      PROVE  MpcAddrKept /\ MpcAddrNotCleared
  BY <1>4 DEF execute_proposal
<1>5. CASE execute_next
  BY <1>5 DEF execute_next
<1> QED
  BY <1>1, <1>2, <1>3, <1>4, <1>5 DEF Next

\* The MPC address is set once; only the migration of a version 0 chain, which
\* runs once, replaces it.
THEOREM MpcAddrIsFixed == Spec => MpcAddrFixed
<1>1. [Next]_vars => [MpcAddrKept]_vars
  BY MpcAddrStep
<1> QED
  BY <1>1, PTL DEF Spec, MpcAddrFixed, MpcAddrKept

----------------------------------------------------------------------------
(* Implementation of the abstract channel *)

\* The mapped variables.
Ready == MpcAddr # ZeroAddress
Open == DestDomainIds \ IsPaused
Done == {k \in Domains \X Nonces : is_proposal_executed(k[2], k[1])}

\* A step that leaves counters and bitmap alone, and does not clear the MPC
\* address, is administration or nothing.
LEMMA QuietStep ==
    ASSUME TypeOK, TypeOK', UNCHANGED <<DepositCounts, UsedNonces>>, Ready => Ready'
    PROVE  Channel!Administer
<1>1. Open' \in SUBSET Domains
  BY DEF Open, TypeOK
<1>2. Done' = Done
  BY DEF Done, is_proposal_executed
<1>3. Ready' \in {Ready, TRUE}
  BY Zenon DEF Ready
<1> QED
  BY <1>1, <1>2, <1>3, Zenon DEF Channel!Administer, Open, Done, Ready

\* A deposit sends one message on an open lane.
LEMMA DepositSends ==
    ASSUME TypeOK, NEW origin \in Origins, NEW asset \in AssetIds, NEW amount \in Amounts,
           NEW dest \in Dests, deposit(origin, asset, amount, dest)
    PROVE  Channel!ChannelNext
<1> DEFINE d == extract_dest(dest)
<1>1. d \in Domains /\ d \in Open /\ Ready
  BY DepositFacts DEF Open, Ready
<1>2. DepositCounts' = [DepositCounts EXCEPT ![d] = @ + 1]
  BY DEF deposit, bumped
<1>3. Ready' = Ready /\ Open' = Open /\ Done' = Done
  BY Zenon DEF deposit, mpcVars, pauseVars, domainVars, Ready, Open, Done, is_proposal_executed
<1>4. Channel!Send(d)
  BY <1>1, <1>2, <1>3 DEF Channel!Send, Ready, Open, Done
<1> QED
  BY <1>1, <1>4 DEF Channel!ChannelNext

\* A completed proposal delivers one message that was not delivered before.
LEMMA CompleteDelivers ==
    ASSUME TypeOK, TrafficNeedsMpc, execute_next, complete_proposal(Head(batch))
    PROVE  Channel!ChannelNext
<1> DEFINE p == Head(batch)
           d == p.origin_domain_id
           n == p.deposit_nonce
<1>1. p \in Proposals /\ Ready
  BY DEF execute_next, TypeOK, TrafficNeedsMpc, Ready
<1> HIDE DEF p
<1>2. d \in Domains /\ n \in Nonces
  BY <1>1, ProposalType
<1>3. complete_proposal(p)
  BY DEF p
<1>4. d \in Open /\ <<d, n>> \notin Done
  BY <1>1, <1>3, AcceptedType, Zenon DEF complete_proposal, Open, Done
<1>5. Done' = Done \cup {<<d, n>>}
  <2>1. \A k \in Domains \X Nonces :
           is_proposal_executed(k[2], k[1])'
           <=> is_proposal_executed(k[2], k[1]) \/ (k[2] = n /\ k[1] = d)
    <3>1. UsedNonces' = with_executed(n, d) /\ NoncesTypeOK
      BY <1>3, Zenon DEF complete_proposal, TypeOK
    <3>2. \A m \in Nonces, e \in Domains :
             is_proposal_executed(m, e)'
             <=> is_proposal_executed(m, e) \/ (m = n /\ e = d)
      BY <1>2, <3>1, MarkedExactly, Zenon
    <3>3. SUFFICES ASSUME NEW k \in Domains \X Nonces
                   PROVE  is_proposal_executed(k[2], k[1])'
                          <=> is_proposal_executed(k[2], k[1]) \/ (k[2] = n /\ k[1] = d)
      OBVIOUS
    <3>4. k[1] \in Domains /\ k[2] \in Nonces
      OBVIOUS
    <3> QED
      BY <3>2, <3>4, Zenon
  <2> QED
    BY <1>2, <2>1 DEF Done
<1>6. Ready' = Ready /\ Open' = Open /\ DepositCounts' = DepositCounts
  BY DEF execute_next, mpcVars, pauseVars, domainVars, Ready, Open
<1>7. Channel!Deliver(d, n)
  BY <1>1, <1>4, <1>5, <1>6 DEF Channel!Deliver, Ready, Open, Done
<1> QED
  BY <1>2, <1>7 DEF Channel!ChannelNext

\* Every step of the pallet is a step of the channel or leaves it alone.
LEMMA ChannelStep ==
    TypeOK /\ TypeOK' /\ TrafficNeedsMpc /\ [Next]_vars
    => [Channel!ChannelNext]_(Channel!channelVars)
<1> SUFFICES ASSUME TypeOK, TypeOK', TrafficNeedsMpc, [Next]_vars
             PROVE  Channel!ChannelNext
  OBVIOUS
<1>1. Ready => Ready'
  BY MpcAddrStep DEF Ready, MpcAddrNotCleared
<1>2. UNCHANGED <<DepositCounts, UsedNonces>> => Channel!ChannelNext
  BY <1>1, QuietStep DEF Channel!ChannelNext
<1>3. CASE administer
  BY <1>2, <1>3, AdministerFrame
<1>4. CASE configure \/ on_runtime_upgrade \/ UNCHANGED vars
  BY <1>2, <1>4 DEF configure, on_runtime_upgrade, vars, moneyVars
<1>5. ASSUME NEW proposals \in Batches, NEW signer \in MpcAddresses,
             execute_proposal(proposals, signer)
      PROVE  Channel!ChannelNext
  BY <1>2, <1>5 DEF execute_proposal
<1>6. CASE execute_next
  <2>1. CASE reject_proposal(Head(batch)) \/ fail_payout(Head(batch))
    BY <1>2, <1>6, <2>1 DEF reject_proposal, fail_payout, execute_next
  <2> QED
    BY <1>6, <2>1, CompleteDelivers DEF execute_next
<1> QED
  BY <1>3, <1>4, <1>5, <1>6, DepositSends DEF Next

\* The pallet, with its bitmap, batches, partial failures and registration
\* tables, implements the channel: numbered sends, at most one delivery per
\* message, traffic only on open lanes of a ready channel.
THEOREM ChannelRefinement == Spec => ImplementsChannel
<1>1. Init => Channel!ChannelInit
  <2> SUFFICES ASSUME Init PROVE Channel!ChannelInit
    OBVIOUS
  <2>1. Ready = FALSE /\ Open = {} /\ DepositCounts = [d \in Domains |-> 0]
    BY DEF Init, Ready, Open
  <2>2. \A d \in Domains, n \in Nonces : ~is_proposal_executed(n, d)
    BY DEF Init, NoncesInit, is_proposal_executed, Words
  <2>3. Done = {}
    BY <2>2 DEF Done
  <2> QED
    BY <2>1, <2>3 DEF Channel!ChannelInit, Ready, Open, Done
<1> QED
  BY <1>1, ChannelStep, TypeCorrectness, TrafficAfterSetup, PTL
  DEF Spec, ImplementsChannel, Channel!ChannelSpec

=============================================================================
