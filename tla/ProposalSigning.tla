-------------------------- MODULE ProposalSigning --------------------------
(***************************************************************************)
(* What an MPC signature on a batch of proposals stands for: the EIP-712   *)
(* message the bridge pallet builds from the batch and from its own domain,*)
(* and the check of execute_proposal against it, in several deployments of *)
(* the pallet that share their MPC keys.                                   *)
(*                                                                         *)
(* keccak_256 has no collisions and a recovered key signed the message; the*)
(* key is its own address.  A word of abi_encode is an element of a tuple, *)
(* the concatenation of words that of tuples.                              *)
(***************************************************************************)
EXTENDS Naturals, Sequences, FiniteSets

CONSTANTS
    Deployments,        \* instances of the pallet, [chain_id, contract]
    Keys,               \* MPC keys
    ZeroAddress,        \* the clear MpcAddress
    Malformed,          \* bytes that are not a signature
    BatchProposals,     \* bound: the proposals that are signed and submitted
    MaxBatch,           \* bound: the length of a batch
    MaxSigned           \* bound: how many signatures the MPC keys make

\* The key that recovery finds when the message is not the one signed.
OtherKey == "other"

ASSUME SigningAssumption ==
    /\ ZeroAddress \notin Keys /\ OtherKey \notin Keys
    /\ {MaxBatch, MaxSigned} \subseteq Nat

\* A deployment is its two fields and a proposal its four.
ASSUME FieldsAssumption ==
    /\ \A d, e \in Deployments :
          d.chain_id = e.chain_id /\ d.contract = e.contract => d = e
    /\ \A p, q \in BatchProposals :
          /\ p.origin_domain_id = q.origin_domain_id /\ p.deposit_nonce = q.deposit_nonce
          /\ p.resource_id = q.resource_id /\ p.data = q.data
          => p = q

SignedBatches == UNION {[1 .. n -> BatchProposals] : n \in 0 .. MaxBatch}

VARIABLES
    mpc,        \* MpcAddr of each deployment
    asked,      \* what the keys have signed: key, deployment, batch
    accepted    \* the batches that passed the checks of execute_proposal

signingVars == <<mpc, asked, accepted>>

----------------------------------------------------------------------------
(* The message *)

keccak_256(x) == <<"keccak_256", x>>

\* Mutant: the chain id is left out.
separator_no_chain(d) ==
    keccak_256(<<"EIP712Domain", keccak_256("Bridge"), keccak_256("3.1.0"), d.contract>>)

\* EIP712Domain::separator; the pallet's domain has no salt.
separator(d) ==
    keccak_256(<<"EIP712Domain", keccak_256("Bridge"), keccak_256("3.1.0"), d.chain_id, d.contract>>)

proposal_hash(p) ==
    keccak_256(<<"Proposal", p.origin_domain_id, p.deposit_nonce, p.resource_id, keccak_256(p.data)>>)

construct_ecdsa_signing_proposals_data(d, proposals) ==
    LET hashes == [i \in DOMAIN proposals |-> proposal_hash(proposals[i])]
        struct_hash == keccak_256(<<"Proposals", keccak_256(hashes)>>)
    IN  IF proposals = <<>> THEN <<"zero">>
        ELSE keccak_256(<<"0x1901", separator(d), struct_hash>>)

\* A signature: its key and the message it was made for.
Signature(key, message) == [key |-> key, message |-> message]

\* secp256k1_ecdsa_recover: with another message it finds some other key.
recovered(sig, message) == IF sig.message = message THEN sig.key ELSE OtherKey

verify_by_mpc_address(d, message, sig) ==
    sig # Malformed /\ recovered(sig, message) = mpc[d]

----------------------------------------------------------------------------
SigningInit ==
    /\ mpc = [d \in Deployments |-> ZeroAddress]
    /\ asked = {} /\ accepted = {}

set_mpc_address(d, key) ==
    /\ mpc[d] = ZeroAddress
    /\ mpc' = [mpc EXCEPT ![d] = key]
    /\ UNCHANGED <<asked, accepted>>

\* The holders of a key sign a batch for a deployment.
sign(key, d, proposals) ==
    /\ Cardinality(asked) < MaxSigned
    /\ asked' = asked \cup {<<key, d, proposals>>}
    /\ UNCHANGED <<mpc, accepted>>

Signatures ==
    {Malformed} \cup
    {Signature(a[1], construct_ecdsa_signing_proposals_data(a[2], a[3])) : a \in asked}

\* The checks of execute_proposal: any signature may come with any batch.
execute_proposal(d, proposals, sig) ==
    /\ mpc[d] # ZeroAddress
    /\ proposals # <<>>
    /\ verify_by_mpc_address(d, construct_ecdsa_signing_proposals_data(d, proposals), sig)
    /\ accepted' = accepted \cup {<<d, proposals>>}
    /\ UNCHANGED <<mpc, asked>>

SigningNext ==
    \/ \E d \in Deployments, key \in Keys : set_mpc_address(d, key)
    \/ \E d \in Deployments, key \in Keys, b \in SignedBatches : sign(key, d, b)
    \/ \E d \in Deployments, b \in SignedBatches, sig \in Signatures : execute_proposal(d, b, sig)

SigningSpec == SigningInit /\ [][SigningNext]_signingVars

\* A deployment runs a batch only if its own MPC key signed that batch, with the
\* same proposals in the same order, for that deployment: a signature is of no
\* use with other proposals, with part of the batch or on another chain.
AcceptedWasSigned ==
    \A a \in accepted : <<mpc[a[1]], a[1], a[2]>> \in asked

============================================================================
