---------------------------- MODULE MockRuntime ----------------------------
(***************************************************************************)
(* The runtime the pallets' unit tests run on, and a machine that replays  *)
(* a test against the model.  A test is a sequence of steps: a call that   *)
(* has to return Ok, one that has to return a named error and leave the    *)
(* state alone (assert_noop!), or an assertion on the state.               *)
(*                                                                         *)
(* Scale: six decimals of the source are one here, so the assets have 17,  *)
(* 18 and 19 decimals instead of 12, 18 and 24, and 10^6 becomes 10.       *)
(***************************************************************************)
EXTENDS CallResults, SequencesExt

CONSTANTS alice, bob, charlie, treasury, bridgeNative, bridgeOther,
          native, usdt, astr, unbound, ridNative, ridUsdt, ridAstr, ridUnknown,
          bobLocation, aliceLocation, mpc, otherMpc

ENDOWED_BALANCE == 1000000
DEST_DOMAIN_ID == 1

MockAccounts == {alice, bob, charlie, treasury, bridgeNative, bridgeOther}

MockExtrinsics ==
    {GRANT_ACCESS, SET_FEE, SET_FEE_RATE, SET_FEE_HANDLER} \cup
    {BRIDGE(name) : name \in {"set_mpc_address", "pause_bridge", "unpause_bridge",
        "register_domain", "unregister_domain", "retry", "pause_all_bridges",
        "unpause_all_bridges"}}

\* The extra names of access-segregator's own test runtime.
UNKNOWN == <<"AccessSegregator", "unknown_extrinsic">>
UNKNOWN2 == <<"AccessSegregator", "unknown_extrinsic2">>
MockRegistered == MockExtrinsics \cup {UNKNOWN, UNKNOWN2}

bridge_accounts_generator ==
    [a \in AssetIds |-> IF a = native THEN bridgeNative
                        ELSE IF a \in {usdt, astr} THEN bridgeOther
                        ELSE None]

MockAssetLocation ==
    [a \in AssetIds |-> IF a = native THEN [parents |-> 0, first |-> None]
                                      ELSE [parents |-> 1, first |-> 2005]]

MockResourcePairs == << <<native, ridNative>>, <<usdt, ridUsdt>>, <<astr, ridAstr>> >>

MockDecimals ==
    [a \in AssetIds |-> IF a = native THEN 17 ELSE IF a = usdt THEN 18
                        ELSE IF a = astr THEN 19 ELSE None]

MockPow10 == [k \in {0, 1} |-> IF k = 0 THEN 1 ELSE 10]

\* The nonces the tests use: words 0 to 4 of a domain's bitmap.
ReplayNonces == 0 .. 301

MockMinBalance == [a \in AssetIds |-> 1]

MockAccountOf ==
    [l \in Locations |-> IF l = bobLocation THEN bob
                         ELSE IF l = aliceLocation THEN alice ELSE None]

MockEndowment ==
    [a \in AssetIds |-> [w \in Accounts |->
        IF a = native /\ w \in {alice, bob} THEN ENDOWED_BALANCE ELSE 0]]

----------------------------------------------------------------------------
(* Steps of a test *)

Ok(name, args) == [expect |-> "Ok", call |-> name, args |-> args]
Err(error, name, args) == [expect |-> error, call |-> name, args |-> args]
Assert_(what, args) == [expect |-> "assert", call |-> what, args |-> args]

\* The same step for each of lo .. hi.
Steps(lo, hi, Step(_)) == [i \in 1 .. hi - lo + 1 |-> Step(lo + i - 1)]

To(d) == [shape |-> "X2", domain |-> d]
Elsewhere == [shape |-> "other", domain |-> DEST_DOMAIN_ID]

\* A proposal with data of the right length (its recipient decodes to a
\* location, or to None), and one without data.
Proposal(d, nonce, rid, amount, location) ==
    [origin_domain_id |-> d, deposit_nonce |-> nonce, resource_id |-> rid,
     data |-> [len |-> 100, amount |-> amount, recipient_len |-> 36, location |-> location]]
WithoutData(p) == [p EXCEPT !.data.len = 0]

\* Calls most tests start with.
Register == Ok("register_domain", <<Committee, DEST_DOMAIN_ID, 1>>)
SetMpc == Ok("set_mpc_address", <<Committee, mpc>>)
SetFee(asset, fee) == Ok("set_fee", <<Committee, DEST_DOMAIN_ID, asset, fee>>)
SetHandler(asset, type) == Ok("set_fee_handler", <<Committee, DEST_DOMAIN_ID, asset, type>>)
Grant(e, who) == Ok("grant_access", <<Committee, e, who>>)
Deposit(asset, amount) == <<alice, asset, amount, To(DEST_DOMAIN_ID)>>
Balance(asset, who, n) == Assert_("balance", <<asset, who, n>>)

\* The last Deposit and FeeCollected events.
DepositedEvent(nonce, rid, sent, fee) == Assert_("deposit_event", <<nonce, rid, sent, fee>>)

----------------------------------------------------------------------------
(* Calls of the tests that are no extrinsics of the pallets *)

\* pallet_assets: mint by the owner of a new asset class.
mint(asset, who, amount) ==
    /\ balances' = [balances EXCEPT ![asset][who] = @ + amount]
    /\ UNCHANGED <<settingVars, pauseVars, domainVars, mpcVars, DepositCounts, UsedNonces,
                   batch, eventVars>>

direct(c) ==
    \/ c.call = "mint" /\ mint(c.args[1], c.args[2], c.args[3])
    \/ /\ c.call = "unpause_all_domains" /\ unpause_all_domains
       /\ UNCHANGED <<settingVars, domainVars, mpcVars, moneyVars>>
    \/ /\ c.call = "set_proposal_executed"
       /\ UsedNonces' = with_executed(c.args[1], c.args[2])
       /\ UNCHANGED <<settingVars, pauseVars, domainVars, mpcVars, balances, DepositCounts,
                      batch, eventVars>>

Direct == {"mint", "unpause_all_domains", "set_proposal_executed"}

\* The assertions.
holds(c) ==
    LET a == c.args
    IN  CASE c.call = "balance" -> balances[a[1]][a[2]] = a[3]
          [] c.call = "paused" -> IsPaused = a
          [] c.call = "mpc" -> MpcAddr = a
          [] c.call = "domain" -> a[1] \in DestDomainIds /\ DestChainIds[a[1]] = a[2]
          [] c.call = "no_domain" -> a \notin DestDomainIds /\ DestChainIds[a] = None
          [] c.call = "deposit_event" ->
                LET e == Last(DepositEvents)
                IN  <<e.deposit_nonce, e.resource_id, e.deposit_data, e.fee_amount>> = a
          [] c.call = "failure" ->
                /\ LastFailure.error = a[1]
                /\ LastFailure.origin_domain_id = a[2] /\ LastFailure.deposit_nonce = a[3]
          [] c.call = "retry_event" -> a \in {e.dest_domain_id : e \in RetryEvents}
          [] c.call = "executed" -> is_proposal_executed(a[1], a[2])
          [] c.call = "not_executed" -> ~is_proposal_executed(a[1], a[2])
          [] c.call = "access" -> has_access(a[1], a[2])
          [] c.call = "no_access" -> ~has_access(a[1], a[2])
          [] c.call = "fee" -> AssetFees[<<a[1], a[2]>>] = a[3]
          [] c.call = "rate" -> AssetFeeRate[<<a[1], a[2]>>] = a[3]
          [] c.call = "handler" -> HandlerType[<<a[1], a[2]>>] = a[3]
          [] c.call = "get_fee" -> get_fee(a[1], a[2], a[3]) = a[4]
          [] c.call = "reserved_account" -> get_token_reserved_account(a[1]) = a[2]

----------------------------------------------------------------------------
VARIABLES test, line

\* A test starts on a new chain (new_test_ext).
new_test_ext(tests) ==
    /\ Init /\ StorageVersion = 1
    /\ test \in tests /\ line = 1

\* The next line of the script of the test; the replay stops at a line that
\* the model does not agree with.
RunLine(script) ==
    /\ Idle /\ line <= Len(script)
    /\ LET c == script[line]
       IN  \/ /\ c.expect = "Ok" /\ c.call \notin Direct
              /\ result(c) = "Ok" /\ perform(c)
           \/ c.expect = "Ok" /\ c.call \in Direct /\ direct(c)
           \/ /\ c.expect \notin {"Ok", "assert"}
              /\ result(c) = c.expect /\ UNCHANGED vars
           \/ c.expect = "assert" /\ holds(c) /\ UNCHANGED vars
    /\ line' = line + 1 /\ UNCHANGED test

\* The proposals of the execute_proposal that the last line called.
RunProposal == ~Idle /\ execute_next /\ UNCHANGED <<test, line>>

============================================================================
