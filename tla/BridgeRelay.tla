----------------------------- MODULE BridgeRelay ---------------------------
(***************************************************************************)
(* The bridge pallet with the relayers around it.  Relayers are external:  *)
(* they are modelled from what the pallet offers them, its events, its     *)
(* retry extrinsic and the RPC isProposalExecuted.                         *)
(*                                                                         *)
(* In: each of Proposals is a deposit made on the other chain.  A relayer  *)
(* submits the deposits it knows of that were not executed at the block    *)
(* its node has, which may be old; a submitted extrinsic may be dropped,   *)
(* and several relayers submit the same deposit.                           *)
(* Out: relayers may miss a Deposit event, and read the deposits of a      *)
(* block again when a Retry event names it.  The i-th deposit is made in   *)
(* block i.                                                                *)
(***************************************************************************)
EXTENDS SygmaBridge, SequencesExt

CONSTANTS
    Relayers,
    mpcKey,         \* the key all relayers sign with
    MaxPauses,      \* bound: how often the committee pauses a domain
    MaxDrops,       \* bound: how many submitted extrinsics are dropped
    MaxMissed       \* bound: how many Deposit events the relayers miss

ASSUME RelayAssumption == /\ mpcKey \in MpcAddresses
                          /\ {MaxPauses, MaxDrops, MaxMissed} \subseteq Nat

VARIABLES
    seen,           \* the deposits on the other chain each relayer has seen
    view,           \* UsedNonces at the block each relayer's node has
    pending,        \* the batch each relayer has submitted, <<>> if none
    relayed,        \* the Deposit events, by position, that relayers took up
    missed,         \* and the ones they missed
    pauses, drops

inVars == <<seen, view, pending, drops>>
outVars == <<relayed, missed>>
relayVars == <<vars, inVars, outVars, pauses>>

RelayInit ==
    /\ drops = 0 /\ pauses = 0
    /\ seen = [r \in Relayers |-> {}]
    /\ view = [r \in Relayers |-> UsedNonces]
    /\ pending = [r \in Relayers |-> <<>>]
    /\ relayed = {} /\ missed = {}

----------------------------------------------------------------------------
(* In *)

\* The RPC isProposalExecuted: the runtime's answer in the state of block at.
rpc_is_proposal_executed(nonce, domain, at) ==
    nonce % WORD \in at[domain][nonce \div WORD]

observe(r, p) ==
    /\ p \notin seen[r]
    /\ seen' = [seen EXCEPT ![r] = @ \cup {p}]
    /\ UNCHANGED <<vars, view, pending, drops, outVars, pauses>>

\* The relayer's node imports the latest block.
import_block(r) ==
    /\ Idle /\ view[r] # UsedNonces
    /\ view' = [view EXCEPT ![r] = UsedNonces]
    /\ UNCHANGED <<vars, seen, pending, drops, outVars, pauses>>

\* What relayer r takes to be unexecuted.
outstanding(r) ==
    {p \in seen[r] : ~rpc_is_proposal_executed(p.deposit_nonce, p.origin_domain_id, view[r])}

submit(r) ==
    /\ pending[r] = <<>> /\ outstanding(r) # {}
    /\ pending' = [pending EXCEPT ![r] = SetToSeq(outstanding(r))]
    /\ UNCHANGED <<vars, seen, view, drops, outVars, pauses>>

drop(r) ==
    /\ pending[r] # <<>> /\ drops < MaxDrops
    /\ pending' = [pending EXCEPT ![r] = <<>>]
    /\ drops' = drops + 1
    /\ UNCHANGED <<vars, seen, view, outVars, pauses>>

\* A block includes the extrinsic of relayer r.
include(r) ==
    /\ pending[r] # <<>>
    /\ execute_proposal(pending[r], mpcKey)
    /\ pending' = [pending EXCEPT ![r] = <<>>]
    /\ UNCHANGED <<seen, view, drops, outVars, pauses>>

execute_included == execute_next /\ UNCHANGED <<inVars, outVars, pauses>>

----------------------------------------------------------------------------
(* Out *)

user_deposit ==
    /\ \E user \in Users, asset \in AssetIds, amount \in Amounts, dest \in Dests :
          deposit(user, asset, amount, dest)
    /\ UNCHANGED <<inVars, outVars, pauses>>

relay(i) ==
    /\ i \in DOMAIN DepositEvents \ (relayed \cup missed)
    /\ relayed' = relayed \cup {i}
    /\ UNCHANGED <<vars, inVars, missed, pauses>>

miss(i) ==
    /\ i \in DOMAIN DepositEvents \ (relayed \cup missed)
    /\ Cardinality(missed) < MaxMissed
    /\ missed' = missed \cup {i}
    /\ UNCHANGED <<vars, inVars, relayed, pauses>>

\* The committee asks for the block of a missed deposit.
request_retry(i) ==
    /\ i \in missed \ relayed
    /\ retry(Committee, i, DepositEvents[i].dest_domain_id)
    /\ UNCHANGED <<inVars, outVars, pauses>>

\* A Retry event makes the relayers read the block again.
relay_again(i) ==
    /\ i \in missed \ relayed
    /\ [deposit_on_block_height |-> i, dest_domain_id |-> DepositEvents[i].dest_domain_id]
         \in RetryEvents
    /\ relayed' = relayed \cup {i}
    /\ UNCHANGED <<vars, inVars, missed, pauses>>

----------------------------------------------------------------------------
pause(d) ==
    /\ pauses < MaxPauses
    /\ pause_bridge(Committee, d)
    /\ pauses' = pauses + 1
    /\ UNCHANGED <<inVars, outVars>>

unpause(d) == unpause_bridge(Committee, d) /\ UNCHANGED <<inVars, outVars, pauses>>

Positions == 1 .. MaxNonce * Cardinality(Domains)

RelayNext ==
    \/ \E p \in Proposals, r \in Relayers : observe(r, p)
    \/ \E r \in Relayers : import_block(r) \/ submit(r) \/ drop(r) \/ include(r)
    \/ execute_included
    \/ user_deposit
    \/ \E i \in Positions : relay(i) \/ miss(i) \/ request_retry(i) \/ relay_again(i)
    \/ \E d \in Domains : pause(d) \/ unpause(d)

\* A started execute_proposal goes on to its end.  Relayers follow the other
\* chain, submit again what is not executed, and read the events.  Block authors
\* include what stays in the pool although other extrinsics come in between (SF),
\* nodes import blocks.  The committee unpauses what it paused and asks for
\* retries.  Nobody has to deposit, pause or lose anything.
RelayFairness ==
    /\ WF_relayVars(execute_included)
    /\ \A p \in Proposals : WF_relayVars(\E r \in Relayers : observe(r, p))
    /\ \A r \in Relayers : /\ WF_relayVars(submit(r))
                           /\ SF_relayVars(include(r)) /\ SF_relayVars(import_block(r))
    /\ \A i \in Positions : /\ WF_relayVars(relay(i)) /\ WF_relayVars(relay_again(i))
                            /\ SF_relayVars(request_retry(i))
    /\ \A d \in Domains : SF_relayVars(unpause(d))

----------------------------------------------------------------------------
(* Correctness *)

PaidOut(p) == \E i \in DOMAIN ExecutionEvents : ExecutionEvents[i] = p

\* Every deposit on the other chain that this chain can pay is paid out in the
\* end, although the domain is paused for a time, extrinsics are dropped, the
\* relayers ask old states and submit the same deposit several times: a refused
\* proposal leaves nothing behind in execute_proposal that would stop a later
\* attempt, and no other nonce's bit is taken for its own.
EveryDepositPaidOut == \A p \in Proposals : <>PaidOut(p)

\* Every Deposit event reaches the other chain in the end, the missed ones
\* through retry.
EveryDepositRelayed == \A i \in Positions : (i \in DOMAIN DepositEvents) ~> (i \in relayed)

============================================================================
