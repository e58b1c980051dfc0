------------------------------- MODULE MCFees -------------------------------
(* Fee pallets on two (domain, asset) pairs.  MaxU128 = 40000 makes amount  *)
(* times rate saturate; the rates include one that set_fee_rate must refuse *)
(* (100%) and one with equal bounds.  Fees are set by the committee and by  *)
(* the account that was granted set_fee.                                    *)
EXTENDS FeeSchedule

MC_Extrinsics == {GRANT_ACCESS, SET_FEE, SET_FEE_RATE, SET_FEE_HANDLER}

MC_Grantable == {SET_FEE}

MC_FeeRates == {<<5000, 1, 4>>, <<9999, 0, 20>>, <<10000, 0, 20>>, <<100, 3, 3>>}

=============================================================================
