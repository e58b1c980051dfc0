----------------------------- MODULE UsedNonces -----------------------------
(***************************************************************************)
(* The UsedNonces storage of the bridge pallet: for each origin domain a   *)
(* bitmap of executed deposit nonces, 64 to a u64 word.  A word is the set *)
(* of its bits that are 1, so `current |= 1 << b` adds b and               *)
(* `word & (1 << b) != 0` is membership.                                   *)
(***************************************************************************)
EXTENDS SygmaTraits

CONSTANT Nonces   \* bound: the deposit nonces (u64) that proposals carry

ASSUME NonceAssumption == Nonces \subseteq Nat

VARIABLE UsedNonces

WORD == 64

Words == {n \div WORD : n \in Nonces}

NoncesTypeOK == UsedNonces \in [Domains -> [Words -> SUBSET (0 .. WORD - 1)]]

NoncesInit == UsedNonces = [d \in Domains |-> [w \in Words |-> {}]]

is_proposal_executed(nonce, domain) == nonce % WORD \in UsedNonces[domain][nonce \div WORD]

\* Mutant: the shift is computed on a 32-bit integer.
with_executed_32(nonce, domain) ==
    [UsedNonces EXCEPT ![domain][nonce \div WORD] = @ \cup {nonce % 32}]

\* set_proposal_executed: the bitmap with the bit of one more nonce.
with_executed(nonce, domain) ==
    [UsedNonces EXCEPT ![domain][nonce \div WORD] = @ \cup {nonce % WORD}]

=============================================================================
