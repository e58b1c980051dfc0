----------------------------- MODULE MCDecimals -----------------------------
(* Every decimal count from 16 to 20 and one asset without an entry, with  *)
(* a u128 of 299 and a fixed point range of 120: amounts exceed the range  *)
(* of the multiplications (saturation) and of from_num (wrap-around).      *)
(* A word has two bytes of 18 values, so that words beyond a u128 exist.   *)
EXTENDS DecimalRoundTrip, TLC

CONSTANTS dec16, dec17, dec18, dec19, dec20, unlisted

MC_Assets == {dec16, dec17, dec18, dec19, dec20, unlisted}

MC_Decimals ==
    dec16 :> 16 @@ dec17 :> 17 @@ dec18 :> 18 @@ dec19 :> 19 @@ dec20 :> 20 @@ unlisted :> None

MC_Pow10 == 0 :> 1 @@ 1 :> 10 @@ 2 :> 100

MC_Amounts == 0 .. 299

\* One location has one byte, one has two.
MC_EncodedLocations == {<<1>>, <<2, 0>>}

=============================================================================
