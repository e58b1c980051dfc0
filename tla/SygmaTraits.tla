---------------------------- MODULE SygmaTraits ----------------------------
(***************************************************************************)
(* Types shared by the pallets (traits/src/lib.rs): domain ids, asset ids  *)
(* and unsigned integers of a fixed width, with the saturating arithmetic  *)
(* the pallets use on them.  MaxU128 is 2^128 - 1 in the program; a run    *)
(* picks a small value so that the limit is met.                           *)
(***************************************************************************)
EXTENDS Integers

CONSTANTS
    Domains,    \* DomainID (u8); 0 is a legal id with a special meaning to one parser
    AssetIds,   \* XCM asset ids (AssetId::Concrete of a MultiLocation)
    MaxU128,    \* the largest u128
    None        \* Option::None

ASSUME TraitsAssumption ==
    /\ Domains \subseteq Nat
    /\ MaxU128 \in Nat \ {0}
    /\ None \notin Nat \cup AssetIds

U128 == 0 .. MaxU128

Lesser(x, y) == IF x <= y THEN x ELSE y

saturating_mul(x, y) == Lesser(x * y, MaxU128)

============================================================================
