------------------------------- MODULE MCRelay -----------------------------
(***************************************************************************)
(* Two relayers and one domain of the bridge configured as in MCBridge,    *)
(* with a deposit to pay out and deposits to relay.                        *)
(***************************************************************************)
EXTENDS MCBridge, BridgeRelay

MC_RelayProposals == {Prop(1, n, ridNative, 10, here) : n \in Nonces}

RelaySpec == Configured /\ RelayInit /\ [][RelayNext]_relayVars /\ RelayFairness

============================================================================
