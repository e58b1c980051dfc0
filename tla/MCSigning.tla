----------------------------- MODULE MCSigning -----------------------------
(***************************************************************************)
(* Three deployments: two chains, and two verifying contracts on one of    *)
(* them; and proposals that differ in one field.                           *)
(***************************************************************************)
EXTENDS ProposalSigning

MC_Deployments == {[chain_id |-> 5, contract |-> "c1"], [chain_id |-> 6, contract |-> "c1"],
                   [chain_id |-> 5, contract |-> "c2"]}

MC_Base == [origin_domain_id |-> 1, deposit_nonce |-> 1, resource_id |-> 1, data |-> <<1>>]

MC_Proposals == {MC_Base, [MC_Base EXCEPT !.deposit_nonce = 2], [MC_Base EXCEPT !.data = <<2>>]}

============================================================================
