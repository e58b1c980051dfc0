---------------------------- MODULE PalletProofs ----------------------------
(***************************************************************************)
(* The pallets around the bridge pallet, for any number of accounts,       *)
(* extrinsics, assets, keys and deployments: the access segregator's       *)
(* history of grants, the signature on a batch of proposals, and what the  *)
(* fee pallets quote.                                                      *)
(***************************************************************************)
EXTENDS AccessAudit, ProposalSigning, FeeSchedule, FoldTheorems

----------------------------------------------------------------------------
(* Grants *)

LogEntries == [by : Origins, extrinsic : Extrinsics, who : Users]

\* The stored holder of every pair is the one the history names.
StoredIsLatest ==
    \A e \in Extrinsics : ExtrinsicAccess[e] = HolderAfter(e, Len(log))

GrantsInv ==
    /\ AccessTypeOK /\ log \in Seq(LogEntries)
    /\ StoredIsLatest /\ DelegationChain

\* If e was granted among the first n entries there is a latest grant of it,
\* and it names the holder.
LEMMA LatestGrant ==
    ASSUME NEW n \in Nat, NEW e, GrantsOf(e, n) # {}
    PROVE  \E i \in GrantsOf(e, n) :
              /\ \A j \in GrantsOf(e, n) : j <= i
              /\ HolderAfter(e, n) = log[i].who
<1> DEFINE grants == GrantsOf(e, n)
           latest == CHOOSE i \in grants : \A j \in grants : j <= i
<1>1. grants \in SUBSET (0 .. n) /\ grants # {}
  BY DEF GrantsOf
<1>2. \E i \in grants : \A j \in grants : j <= i
  BY <1>1, GreatestNatural, Zenon
<1>3. latest \in grants /\ \A j \in grants : j <= latest
  BY <1>2
<1>4. HolderAfter(e, n) = log[latest].who
  BY DEF HolderAfter
<1> QED
  BY <1>3, <1>4, Zenon

\* A grant appended to the history leaves what the earlier entries say, and
\* decides its own pair.
LEMMA HistoryExtended ==
    ASSUME log \in Seq(LogEntries), NEW g \in LogEntries, log' = Append(log, g),
           NEW n, n = Len(log), NEW e
    PROVE  /\ \A m \in 0 .. n : HolderAfter(e, m)' = HolderAfter(e, m)
           /\ HolderAfter(e, n + 1)' = IF g.extrinsic = e THEN g.who ELSE HolderAfter(e, n)
<1>1. n \in Nat /\ \A i \in 1 .. n : log'[i] = log[i]
  OBVIOUS
<1>2. log'[n + 1] = g
  OBVIOUS
<1>3. ASSUME NEW m \in 0 .. n PROVE HolderAfter(e, m)' = HolderAfter(e, m)
  <2>1. GrantsOf(e, m)' = GrantsOf(e, m)
    BY <1>1 DEF GrantsOf
  <2>2. CASE GrantsOf(e, m) = {}
    BY <2>1, <2>2 DEF HolderAfter
  <2>3. CASE GrantsOf(e, m) # {}
    <3> DEFINE latest == CHOOSE i \in GrantsOf(e, m) : \A j \in GrantsOf(e, m) : j <= i
    <3>1. latest \in GrantsOf(e, m)
      BY <1>1, <2>3, LatestGrant
    <3>2. HolderAfter(e, m)' = log'[latest].who /\ HolderAfter(e, m) = log[latest].who
      BY <2>1, <2>3, Zenon DEF HolderAfter
    <3>3. latest \in 1 .. m
      BY <3>1 DEF GrantsOf
    <3> QED
      BY <1>1, <3>2, <3>3
  <2> QED
    BY <2>2, <2>3
<1> DEFINE now == GrantsOf(e, n + 1)'
           latest == CHOOSE i \in now : \A j \in now : j <= i
<1>4. now = {i \in 1 .. n + 1 : log'[i].extrinsic = e}
  BY DEF GrantsOf
<1>5. HolderAfter(e, n + 1)' = IF now = {} THEN None ELSE log'[latest].who
  BY DEF HolderAfter
<1>6. CASE g.extrinsic = e
  <2>1. n + 1 \in now /\ \A j \in now : j \in Nat /\ j <= n + 1
    BY <1>1, <1>2, <1>4, <1>6
  <2> HIDE DEF now
  <2>2. latest \in now /\ \A j \in now : j <= latest
    BY <2>1
  <2>3. latest = n + 1
    BY <1>1, <2>1, <2>2
  <2> QED
    BY <1>2, <1>3, <1>5, <1>6, <2>1, <2>3
<1>7. CASE g.extrinsic # e
  <2> DEFINE earlier == GrantsOf(e, n)'
  <2>1. earlier = {i \in 1 .. n : log'[i].extrinsic = e}
    BY DEF GrantsOf
  <2>2. now = earlier
    BY <1>1, <1>2, <1>4, <1>7, <2>1
  <2>3. HolderAfter(e, n)' =
          IF earlier = {} THEN None
          ELSE log'[CHOOSE i \in earlier : \A j \in earlier : j <= i].who
    BY DEF HolderAfter
  <2> HIDE DEF now, earlier
  <2>4. HolderAfter(e, n + 1)' = HolderAfter(e, n)'
    BY <1>5, <2>2, <2>3, Zenon
  <2> QED
    BY <1>1, <1>3, <1>7, <2>4
<1> QED
  BY <1>3, <1>6, <1>7

\* The history and the storage tell the same story.
LEMMA GrantsInductive ==
    /\ AuditInit => GrantsInv
    /\ GrantsInv /\ [AuditNext]_AuditVars => GrantsInv'
<1>1. ASSUME AuditInit PROVE GrantsInv
  <2>1. log = <<>> /\ Len(log) = 0 /\ ExtrinsicAccess = [e \in Extrinsics |-> None]
    BY <1>1 DEF AuditInit, AccessInit
  <2>2. \A e : HolderAfter(e, 0) = None
    BY DEF HolderAfter, GrantsOf
  <2>3. StoredIsLatest
    BY <2>1, <2>2 DEF StoredIsLatest
  <2> QED
    BY <2>1, <2>3 DEF GrantsInv, AccessTypeOK, DelegationChain
<1>2. ASSUME GrantsInv, UNCHANGED AuditVars PROVE GrantsInv'
  <2>1. log' = log /\ ExtrinsicAccess' = ExtrinsicAccess
    BY <1>2 DEF AuditVars
  <2>2. ASSUME NEW e, NEW m PROVE HolderAfter(e, m)' = HolderAfter(e, m)
    BY <2>1 DEF HolderAfter, GrantsOf
  <2> QED
    BY <1>2, <2>1, <2>2 DEF GrantsInv, AccessTypeOK, StoredIsLatest, DelegationChain
<1>3. ASSUME GrantsInv, AuditNext PROVE GrantsInv'
  <2>1. PICK origin \in Origins, e \in Grantable, who \in Users :
          /\ grant_access(origin, e, who)
          /\ log' = Append(log, [by |-> origin, extrinsic |-> e, who |-> who])
    BY <1>3 DEF AuditNext
  <2> DEFINE g == [by |-> origin, extrinsic |-> e, who |-> who]
  <2>2. e \in Extrinsics /\ g \in LogEntries /\ log \in Seq(LogEntries)
    BY <1>3, AccessAssumption DEF LogEntries, GrantsInv
  <2>3. PICK n \in Nat : n = Len(log)
    BY <2>2
  <2>4. /\ log' \in Seq(LogEntries) /\ Len(log') = n + 1
        /\ \A i \in 1 .. n : log'[i] = log[i]
        /\ log'[n + 1] = g
    BY <2>1, <2>2, <2>3
  <2>5. ExtrinsicAccess' = [ExtrinsicAccess EXCEPT ![e] = who] /\ AccessTypeOK'
    BY <1>3, <2>1, <2>2 DEF GrantsInv, grant_access, granted, AccessTypeOK
  <2>6. \A d : /\ \A m \in 0 .. n : HolderAfter(d, m)' = HolderAfter(d, m)
               /\ HolderAfter(d, n + 1)' = IF e = d THEN who ELSE HolderAfter(d, n)
    <3>1. g.extrinsic = e /\ g.who = who /\ log' = Append(log, g)
      BY <2>1
    <3> HIDE DEF g
    <3> QED
      BY <2>2, <2>3, <3>1, HistoryExtended
  <2>7. StoredIsLatest'
    <3>1. \A d \in Extrinsics : ExtrinsicAccess'[d] = HolderAfter(d, n + 1)'
      BY <1>3, <2>3, <2>5, <2>6 DEF GrantsInv, StoredIsLatest, AccessTypeOK
    <3> QED
      BY <2>4, <3>1 DEF StoredIsLatest
  <2>8. DelegationChain'
    <3> DEFINE Legitimate(i) ==
          \/ log'[i].by = Committee
          \/ /\ GRANT_ACCESS \in RegisteredExtrinsics
             /\ log'[i].by = HolderAfter(GRANT_ACCESS, i - 1)'
    <3>1. \A i \in 1 .. n : Legitimate(i)
      <4> TAKE i \in 1 .. n
      <4>1. i - 1 \in 0 .. n
        BY <2>3
      <4> QED
        BY <1>3, <2>3, <2>4, <2>6, <4>1 DEF GrantsInv, DelegationChain
    <3>2. Legitimate(n + 1)
      <4>1. \/ origin = Committee
            \/ GRANT_ACCESS \in RegisteredExtrinsics /\ ExtrinsicAccess[GRANT_ACCESS] = origin
        BY <2>1 DEF grant_access, has_access, has_registered
      <4>2. ExtrinsicAccess[GRANT_ACCESS] = HolderAfter(GRANT_ACCESS, n)
        BY <1>3, <2>3, AccessAssumption DEF GrantsInv, StoredIsLatest
      <4>3. HolderAfter(GRANT_ACCESS, (n + 1) - 1)' = HolderAfter(GRANT_ACCESS, n)
        BY <2>3, <2>6
      <4> QED
        BY <2>4, <4>1, <4>2, <4>3
    <3>3. \A i \in 1 .. n + 1 : Legitimate(i)
      BY <2>3, <3>1, <3>2
    <3> QED
      BY <2>4, <3>3 DEF DelegationChain
  <2> QED
    BY <2>4, <2>5, <2>7, <2>8 DEF GrantsInv
<1> QED
  BY <1>1, <1>2, <1>3

\* For any accounts, extrinsics and sequence of grants: nobody makes a grant
\* without being the committee or the current holder of grant_access.
THEOREM GrantsAreDelegated == AuditSpec => []DelegationChain
<1>1. GrantsInv => DelegationChain
  BY DEF GrantsInv
<1> QED
  BY <1>1, GrantsInductive, PTL DEF AuditSpec

\* And access is what the latest grant of a registered extrinsic says.
THEOREM GrantsDecide == AuditSpec => []LatestGrantDecides
<1>1. GrantsInv => LatestGrantDecides
  BY AccessAssumption
  DEF GrantsInv, StoredIsLatest, LatestGrantDecides, has_access, has_registered
<1> QED
  BY <1>1, GrantsInductive, PTL DEF AuditSpec

----------------------------------------------------------------------------
(* Signatures *)

\* Nothing but itself has the hash of a value.
LEMMA HashInjective ==
    ASSUME NEW x, NEW y, keccak_256(x) = keccak_256(y)
    PROVE  x = y
BY DEF keccak_256

\* A signing message says which deployment and which batch it is for.
LEMMA MessageDecides ==
    ASSUME NEW d \in Deployments, NEW e \in Deployments,
           NEW b \in SignedBatches, NEW c \in SignedBatches, b # <<>>,
           construct_ecdsa_signing_proposals_data(d, b)
             = construct_ecdsa_signing_proposals_data(e, c)
    PROVE  d = e /\ b = c
<1> DEFINE hashes(s) == [i \in DOMAIN s |-> proposal_hash(s[i])]
           struct_hash(s) == keccak_256(<<"Proposals", keccak_256(hashes(s))>>)
           packed(x, s) == <<"0x1901", separator(x), struct_hash(s)>>
<1>1. c # <<>>
  BY DEF construct_ecdsa_signing_proposals_data, keccak_256
<1>2. keccak_256(packed(d, b)) = keccak_256(packed(e, c))
  BY <1>1 DEF construct_ecdsa_signing_proposals_data
<1>3. packed(d, b) = packed(e, c)
  BY <1>2, HashInjective
<1>4. separator(d) = separator(e) /\ struct_hash(b) = struct_hash(c)
  BY <1>3
<1>5. d = e
  BY <1>4, FieldsAssumption DEF separator, keccak_256
<1>6. hashes(b) = hashes(c)
  BY <1>4 DEF keccak_256
<1>7. PICK m \in 0 .. MaxBatch, n \in 0 .. MaxBatch :
         b \in [1 .. m -> BatchProposals] /\ c \in [1 .. n -> BatchProposals]
  BY DEF SignedBatches
<1>8. DOMAIN b = DOMAIN c
  BY <1>6
<1>9. ASSUME NEW i \in DOMAIN b PROVE b[i] = c[i]
  <2>1. proposal_hash(b[i]) = proposal_hash(c[i])
    BY <1>6, <1>8, <1>9
  <2>2. b[i] \in BatchProposals /\ c[i] \in BatchProposals
    BY <1>7, <1>8, <1>9
  <2>3. /\ b[i].origin_domain_id = c[i].origin_domain_id
        /\ b[i].deposit_nonce = c[i].deposit_nonce
        /\ b[i].resource_id = c[i].resource_id
        /\ b[i].data = c[i].data
    BY <2>1 DEF proposal_hash, keccak_256
  <2> QED
    BY <2>2, <2>3, FieldsAssumption
<1>10. b = c
  BY <1>7, <1>8, <1>9
<1> QED
  BY <1>5, <1>10

\* A batch is accepted only when an MPC address is set, and that stays.
SigningInv ==
    /\ mpc \in [Deployments -> Keys \cup {ZeroAddress}]
    /\ asked \subseteq Keys \X Deployments \X SignedBatches
    /\ accepted \subseteq Deployments \X SignedBatches
    /\ \A a \in accepted : mpc[a[1]] # ZeroAddress
    /\ AcceptedWasSigned

\* However many deployments share a key and whatever it signs, a deployment
\* runs only batches that its own key signed for it.
THEOREM OnlySignedBatchesRun == SigningSpec => []AcceptedWasSigned
<1>1. SigningInit => SigningInv
  BY DEF SigningInit, SigningInv, AcceptedWasSigned
<1>2. ASSUME SigningInv, [SigningNext]_signingVars PROVE SigningInv'
  <2>1. CASE UNCHANGED signingVars
    BY <1>2, <2>1 DEF SigningInv, signingVars, AcceptedWasSigned
  <2>2. ASSUME NEW d \in Deployments, NEW key \in Keys, set_mpc_address(d, key)
        PROVE  SigningInv'
    BY <1>2, <2>2, SigningAssumption DEF SigningInv, set_mpc_address, AcceptedWasSigned
  <2>3. ASSUME NEW d \in Deployments, NEW key \in Keys, NEW b \in SignedBatches, sign(key, d, b)
        PROVE  SigningInv'
    BY <1>2, <2>3 DEF SigningInv, sign, AcceptedWasSigned
  <2>4. ASSUME NEW d \in Deployments, NEW b \in SignedBatches, NEW sig \in Signatures,
               execute_proposal(d, b, sig)
        PROVE  SigningInv'
    <3> DEFINE msg == construct_ecdsa_signing_proposals_data(d, b)
    <3>1. /\ mpc[d] \in Keys /\ mpc[d] # ZeroAddress /\ b # <<>>
          /\ sig # Malformed /\ recovered(sig, msg) = mpc[d]
      BY <1>2, <2>4 DEF execute_proposal, verify_by_mpc_address, SigningInv
    <3>2. sig.message = msg /\ sig.key = mpc[d]
      BY <3>1, SigningAssumption DEF recovered
    <3>3. PICK a \in asked :
            sig = Signature(a[1], construct_ecdsa_signing_proposals_data(a[2], a[3]))
      BY <3>1 DEF Signatures
    <3>4. a[1] = mpc[d] /\ construct_ecdsa_signing_proposals_data(a[2], a[3]) = msg
      BY <3>2, <3>3 DEF Signature
    <3>5. a \in Keys \X Deployments \X SignedBatches
      BY <1>2 DEF SigningInv
    <3>6. a[2] = d /\ a[3] = b
      BY <3>1, <3>4, <3>5, MessageDecides
    <3>7. <<mpc[d], d, b>> \in asked
      BY <3>4, <3>5, <3>6
    <3> QED
      BY <1>2, <2>4, <3>1, <3>7 DEF execute_proposal, SigningInv, AcceptedWasSigned
  <2> QED
    BY <1>2, <2>1, <2>2, <2>3, <2>4 DEF SigningNext
<1>3. SigningInv => AcceptedWasSigned
  BY DEF SigningInv
<1> QED
  BY <1>1, <1>2, <1>3, PTL DEF SigningSpec

----------------------------------------------------------------------------
(* Fees: the inductive invariant is that every stored rate passed the checks of
   set_fee_rate. *)

RateTriple == Nat \X U128 \X U128

\* Every stored rate is well formed and valid.
RatesValid ==
    \A k \in RateKeys : AssetFeeRate[k] # None =>
        AssetFeeRate[k] \in RateTriple /\ valid_rate(AssetFeeRate[k])

FeesInv == ScheduleTypeOK /\ RatesValid

\* Only a rate that set_fee_rate accepted is stored.
LEMMA FeesInvInductive ==
    /\ ScheduleInit => FeesInv
    /\ FeesInv /\ [ScheduleNext]_scheduleVars => FeesInv'
<1>1. ScheduleInit => FeesInv
  BY DEF ScheduleInit, AccessInit, FeeInit, BasicFeeInit, PercentageFeeInit, FeesInv,
         ScheduleTypeOK, AccessTypeOK, FeeTypeOK, BasicFeeTypeOK, PercentageFeeTypeOK, RatesValid
<1>2. ASSUME FeesInv, [ScheduleNext]_scheduleVars PROVE FeesInv'
  <2> USE DEF FeesInv, ScheduleTypeOK
  <2>1. CASE UNCHANGED scheduleVars
    BY <1>2, <2>1 DEF scheduleVars, AccessTypeOK, FeeTypeOK, BasicFeeTypeOK, PercentageFeeTypeOK,
                      RatesValid
  <2>2. CASE AccessNext /\ UNCHANGED feeVars
    BY <1>2, <2>2, AccessAssumption
    DEF AccessNext, grant_access, granted, feeVars, AccessTypeOK, FeeTypeOK, BasicFeeTypeOK,
        PercentageFeeTypeOK, RatesValid
  <2>3. CASE FeeNext /\ UNCHANGED ExtrinsicAccess
    <3>1. PICK origin \in Origins, d \in Domains, a \in AssetIds :
            \/ \E x \in FeeAmounts :
                  set_fee(origin, d, a, x) /\ UNCHANGED <<AssetFeeRate, HandlerType>>
            \/ \E r \in FeeRates :
                  set_fee_rate(origin, d, a, r) /\ UNCHANGED <<AssetFees, HandlerType>>
            \/ \E type \in HandlerChoices :
                  set_fee_handler(origin, d, a, type) /\ UNCHANGED <<AssetFees, AssetFeeRate>>
      BY <2>3 DEF FeeNext
    <3>2. AccessTypeOK'
      BY <1>2, <2>3 DEF AccessTypeOK
    <3>3. FeeTypeOK'
      <4> USE DEF FeeTypeOK, BasicFeeTypeOK, PercentageFeeTypeOK, FeeKeys, RateKeys
      <4>1. ASSUME NEW x \in FeeAmounts, set_fee(origin, d, a, x),
                   UNCHANGED <<AssetFeeRate, HandlerType>>
            PROVE  FeeTypeOK'
        BY <1>2, <4>1, BasicFeeAssumption DEF set_fee, fees_with
      <4>2. ASSUME NEW r \in FeeRates, set_fee_rate(origin, d, a, r),
                   UNCHANGED <<AssetFees, HandlerType>>
            PROVE  FeeTypeOK'
        BY <1>2, <4>2, PercentageFeeAssumption DEF set_fee_rate
      <4>3. ASSUME NEW type \in HandlerChoices, set_fee_handler(origin, d, a, type),
                   UNCHANGED <<AssetFees, AssetFeeRate>>
            PROVE  FeeTypeOK'
        BY <1>2, <4>3, RouterAssumption DEF set_fee_handler
      <4> HIDE DEF FeeTypeOK
      <4> QED
        BY <3>1, <4>1, <4>2, <4>3
    <3>4. RatesValid'
      <4>1. CASE UNCHANGED AssetFeeRate
        BY <1>2, <4>1 DEF RatesValid
      <4>2. ASSUME NEW r \in FeeRates, set_fee_rate(origin, d, a, r)
            PROVE  RatesValid'
        <5>1. r \in RateTriple /\ valid_rate(r)
          BY <4>2, PercentageFeeAssumption DEF set_fee_rate, RateTriple
        <5>2. \A k \in RateKeys : AssetFeeRate'[k] = r \/ AssetFeeRate'[k] = AssetFeeRate[k]
          BY <1>2, <4>2 DEF set_fee_rate, FeeTypeOK, PercentageFeeTypeOK
        <5> QED
          BY <1>2, <5>1, <5>2 DEF RatesValid
      <4> QED
        BY <3>1, <4>1, <4>2
    <3> QED
      BY <3>2, <3>3, <3>4
  <2> QED
    BY <1>2, <2>1, <2>2, <2>3 DEF ScheduleNext
<1> QED
  BY <1>1, <1>2

----------------------------------------------------------------------------
\* The raw percentage never exceeds the amount, and grows with it.
LEMMA RawFee ==
    ASSUME NEW x \in U128, NEW y \in U128, x <= y, NEW r \in Nat, r < BASIS_POINTS
    PROVE  LET raw(z) == saturating_mul(z, r) \div BASIS_POINTS
           IN  /\ raw(x) \in Nat /\ raw(y) \in Nat
               /\ raw(x) <= raw(y)
               /\ x > 0 => raw(x) < x
               /\ raw(x) <= x
<1>1. x \in Nat /\ y \in Nat /\ MaxU128 \in Nat
  BY TraitsAssumption DEF U128
<1>2. x * r \in Nat /\ y * r \in Nat
  BY <1>1
<1>3. x * r <= y * r
  BY <1>1
<1>4. x * r <= x * 9999
  <2>1. r <= 9999
    BY DEF BASIS_POINTS
  <2> QED
    BY <1>1, <2>1
<1> DEFINE sx == saturating_mul(x, r)
           sy == saturating_mul(y, r)
<1>5. sx \in Nat /\ sy \in Nat /\ sx <= sy /\ sx <= x * 9999
  BY <1>1, <1>2, <1>3, <1>4 DEF saturating_mul, Lesser
<1> HIDE DEF sx, sy
<1>6. /\ sx \div BASIS_POINTS \in Nat /\ sy \div BASIS_POINTS \in Nat
      /\ sx \div BASIS_POINTS <= sy \div BASIS_POINTS
      /\ x > 0 => sx \div BASIS_POINTS < x
      /\ sx \div BASIS_POINTS <= x
  BY <1>1, <1>5 DEF BASIS_POINTS
<1> QED
  BY <1>6 DEF sx, sy

\* A valid rate quotes less than any amount above its lower bound, and never
\* less for more.
LEMMA RateQuotes ==
    ASSUME NEW r \in RateTriple, valid_rate(r), NEW x \in U128, NEW y \in U128, x <= y
    PROVE  /\ x > r[2] => fee_of_rate(r, x) < x
           /\ fee_of_rate(r, x) <= fee_of_rate(r, y)
<1>1. r[1] \in Nat /\ r[1] < BASIS_POINTS /\ r[2] \in Nat /\ r[3] \in Nat /\ r[2] < r[3]
  BY TraitsAssumption DEF RateTriple, valid_rate, U128
<1>2. x \in Nat /\ y \in Nat
  BY TraitsAssumption DEF U128
<1> DEFINE rx == saturating_mul(x, r[1]) \div BASIS_POINTS
           ry == saturating_mul(y, r[1]) \div BASIS_POINTS
<1>3. rx \in Nat /\ ry \in Nat /\ rx <= ry /\ (x > 0 => rx < x)
  BY <1>1, RawFee
<1>4. /\ fee_of_rate(r, x) = IF rx > r[3] THEN r[3] ELSE IF rx < r[2] THEN r[2] ELSE rx
      /\ fee_of_rate(r, y) = IF ry > r[3] THEN r[3] ELSE IF ry < r[2] THEN r[2] ELSE ry
  BY DEF fee_of_rate
<1> HIDE DEF rx, ry
<1> QED
  BY <1>1, <1>2, <1>3, <1>4

\* Whatever the committee configures, a percentage fee can make a transfer too
\* expensive only through its lower bound.
THEOREM PercentageAffordable == ScheduleSpec => []AffordableAboveLowerBound
<1>1. FeesInv => AffordableAboveLowerBound
  <2> SUFFICES ASSUME FeesInv, NEW d \in Domains, NEW a \in AssetIds, NEW x \in QuoteAmounts,
                      AssetFeeRate[<<d, a>>] # None, x > AssetFeeRate[<<d, a>>][2]
               PROVE  percentage_get_fee(d, a, x) < x
    BY DEF AffordableAboveLowerBound
  <2>1. AssetFeeRate[<<d, a>>] \in RateTriple /\ valid_rate(AssetFeeRate[<<d, a>>])
    BY DEF FeesInv, RatesValid, RateKeys
  <2>2. x \in U128 /\ x <= x
    BY QuoteAssumption, TraitsAssumption DEF U128
  <2> QED
    BY <2>1, <2>2, RateQuotes DEF percentage_get_fee
<1> QED
  BY <1>1, FeesInvInductive, PTL DEF ScheduleSpec

\* Whichever handler is selected, a larger transfer is never quoted a smaller
\* fee, saturation included.
THEOREM QuotesAreMonotone == ScheduleSpec => []QuotesMonotone
<1>1. FeesInv => QuotesMonotone
  <2> SUFFICES ASSUME FeesInv, NEW d \in Domains, NEW a \in AssetIds,
                      NEW x \in QuoteAmounts, NEW y \in QuoteAmounts,
                      x <= y, get_fee(d, a, x) # None
               PROVE  get_fee(d, a, x) <= get_fee(d, a, y)
    BY DEF QuotesMonotone
  <2>1. x \in U128 /\ y \in U128
    BY QuoteAssumption
  <2>2. CASE HandlerType[<<d, a>>] = "BasicFeeHandler"
    <3>1. get_fee(d, a, x) = AssetFees[<<d, a>>] /\ get_fee(d, a, y) = AssetFees[<<d, a>>]
      BY <2>2 DEF get_fee, basic_get_fee
    <3>2. AssetFees[<<d, a>>] \in Nat
      BY <3>1, TraitsAssumption
      DEF FeesInv, ScheduleTypeOK, FeeTypeOK, BasicFeeTypeOK, FeeKeys, U128
    <3> QED
      BY <3>1, <3>2
  <2>3. CASE HandlerType[<<d, a>>] = "PercentageFeeHandler"
    <3> DEFINE r == AssetFeeRate[<<d, a>>]
    <3>1. /\ r # None
          /\ get_fee(d, a, x) = fee_of_rate(r, x)
          /\ get_fee(d, a, y) = fee_of_rate(r, y)
      BY <2>3 DEF get_fee, percentage_get_fee
    <3>2. r \in RateTriple /\ valid_rate(r)
      BY <3>1 DEF FeesInv, RatesValid, RateKeys
    <3> QED
      BY <2>1, <3>1, <3>2, RateQuotes
  <2> QED
    BY <2>2, <2>3 DEF get_fee
<1> QED
  BY <1>1, FeesInvInductive, PTL DEF ScheduleSpec

----------------------------------------------------------------------------
\* What a pair is quoted depends on its handler and on the selected handler's
\* own entry, and on nothing else.
LEMMA QuoteIsLocal ==
    ASSUME NEW k \in FeeKeys,
           HandlerType'[k] = HandlerType[k],
           HandlerType[k] = "BasicFeeHandler" => AssetFees'[k] = AssetFees[k],
           HandlerType[k] = "PercentageFeeHandler" => AssetFeeRate'[k] = AssetFeeRate[k]
    PROVE  ~Requoted(k)
<1>1. <<k[1], k[2]>> = k
  BY DEF FeeKeys
<1>2. SUFFICES ASSUME NEW x \in QuoteAmounts
               PROVE  get_fee(k[1], k[2], x)' = get_fee(k[1], k[2], x)
  BY DEF Requoted
<1>3. CASE HandlerType[k] = "BasicFeeHandler"
  BY <1>1, <1>3 DEF get_fee, basic_get_fee
<1>4. CASE HandlerType[k] = "PercentageFeeHandler"
  BY <1>1, <1>4 DEF get_fee, percentage_get_fee, fee_of_rate
<1>5. CASE HandlerType[k] \notin {"BasicFeeHandler", "PercentageFeeHandler"}
  BY <1>1, <1>5 DEF get_fee
<1> QED
  BY <1>3, <1>4, <1>5

\* One call writes one key of one of the three maps.
LEMMA OneKeyWritten ==
    ASSUME FeesInv, [ScheduleNext]_scheduleVars
    PROVE  \/ UNCHANGED feeVars
           \/ \E k \in FeeKeys : \A j \in FeeKeys \ {k} :
                 /\ HandlerType'[j] = HandlerType[j]
                 /\ AssetFees'[j] = AssetFees[j]
                 /\ AssetFeeRate'[j] = AssetFeeRate[j]
<1>1. CASE UNCHANGED feeVars
  BY <1>1
<1>2. CASE FeeNext
  <2>1. PICK d \in Domains, a \in AssetIds, origin \in Origins :
          \/ \E x \in FeeAmounts :
                set_fee(origin, d, a, x) /\ UNCHANGED <<AssetFeeRate, HandlerType>>
          \/ \E r \in FeeRates :
                set_fee_rate(origin, d, a, r) /\ UNCHANGED <<AssetFees, HandlerType>>
          \/ \E type \in HandlerChoices :
                set_fee_handler(origin, d, a, type) /\ UNCHANGED <<AssetFees, AssetFeeRate>>
    BY <1>2 DEF FeeNext
  <2>2. <<d, a>> \in FeeKeys
    BY DEF FeeKeys
  <2>3. \A j \in FeeKeys \ {<<d, a>>} :
           /\ HandlerType'[j] = HandlerType[j]
           /\ AssetFees'[j] = AssetFees[j]
           /\ AssetFeeRate'[j] = AssetFeeRate[j]
    BY <2>1 DEF set_fee, fees_with, set_fee_rate, set_fee_handler, FeesInv, ScheduleTypeOK,
                FeeTypeOK, BasicFeeTypeOK, PercentageFeeTypeOK, FeeKeys, RateKeys
  <2> QED
    BY <2>2, <2>3
<1> QED
  BY <1>1, <1>2 DEF ScheduleNext, scheduleVars, feeVars

\* However many domains and assets there are, a call of an administrator
\* re-prices at most one pair.
THEOREM PricesOnePairAtATime == ScheduleSpec => OnePairAtATime
<1> DEFINE OnePair == \A j, k \in FeeKeys : Requoted(j) /\ Requoted(k) => j = k
<1>1. ASSUME FeesInv, [ScheduleNext]_scheduleVars PROVE OnePair
  <2>1. CASE UNCHANGED feeVars
    BY <2>1, QuoteIsLocal DEF feeVars
  <2>2. CASE ~UNCHANGED feeVars
    BY <1>1, <2>2, OneKeyWritten, QuoteIsLocal
  <2> QED
    BY <2>1, <2>2
<1> QED
  BY <1>1, FeesInvInductive, PTL DEF ScheduleSpec, OnePairAtATime

\* Whatever is configured for a handler that is not selected, the quotes stay.
THEOREM UnselectedHandlersPriceNothing == ScheduleSpec => DormantHandlersSilent
<1> DEFINE Silent ==
      \A k \in FeeKeys :
          /\ HandlerType'[k] = HandlerType[k]
          /\ HandlerType[k] = "BasicFeeHandler" => AssetFees'[k] = AssetFees[k]
          /\ HandlerType[k] = "PercentageFeeHandler" => AssetFeeRate'[k] = AssetFeeRate[k]
          => ~Requoted(k)
<1>1. [ScheduleNext]_scheduleVars => [Silent]_scheduleVars
  BY QuoteIsLocal
<1> QED
  BY <1>1, PTL DEF ScheduleSpec, DormantHandlersSilent

=============================================================================
