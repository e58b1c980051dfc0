------------------------------ MODULE MCPayouts ----------------------------
(***************************************************************************)
(* Payouts on parachain 1, with parachains 2 and 3 and the relay chain.    *)
(* The runtime of parachain 1 registers the assets of 2 and of the relay   *)
(* chain besides its own, but sets no minimum XCM fee for the latter, and  *)
(* has no channel to 3.  Its parser accepts recipients of the outer world, *)
(* for which deposit takes a fee of 1.  A user y of parachain 2 holds the  *)
(* asset of 1 and sends it to 1, or over 1 to 3, for which its minimum fee *)
(* of 2 is too little: half of it does not pay for a hop.  Parachain 2 has *)
(* no channel to the relay chain.                                          *)
(***************************************************************************)
EXTENDS XcmAssetTransactor, TLC

CONSTANT y

MC_Nodes == {RELAY, 1, 2, 3}
MC_Tokens == {"one", "two", "dot"}

MC_TokenOf(c, asset) ==
    LET home == chain_of(c, asset)
    IN  CASE home = 1 -> "one" [] home = 2 -> "two" [] home = RELAY -> "dot" [] OTHER -> None

MC_FungibleToken(asset) ==
    IF asset = Sibling(2) THEN "two" ELSE IF asset = PARENT THEN "dot" ELSE None

MC_MinXcmFee(asset) == IF asset \in {HERE, Sibling(1)} THEN 2 ELSE IF asset = Sibling(2) THEN 4 ELSE None

MC_OuterFee(who, asset) == IF asset = PARENT THEN None ELSE 1

MC_Routes == {<<c, d>> \in MC_Nodes \X MC_Nodes : c # d /\ <<c, d>> \notin {<<1, 3>>, <<2, RELAY>>}}

Nothing == [h \in Holders |-> 0]

MC_Endowed ==
    [c \in Nodes |->
        "one" :> (IF c = 1 THEN [Nothing EXCEPT ![vault] = 8, ![2] = 6]
                  ELSE IF c = 2 THEN [Nothing EXCEPT ![y] = 6] ELSE Nothing)
        @@ "two" :> (IF c = 1 THEN [Nothing EXCEPT ![vault] = 8]
                     ELSE IF c = 2 THEN [Nothing EXCEPT ![1] = 8, ![y] = 2] ELSE Nothing)
        @@ "dot" :> (IF c = 1 THEN [Nothing EXCEPT ![vault] = 8]
                     ELSE IF c = RELAY THEN [Nothing EXCEPT ![1] = 8] ELSE Nothing)]

Who(parents, interior, first) ==
    [parents |-> parents, interior |-> interior, first |-> first, who |-> y]

Account == Who(0, <<"AccountId32">>, OtherJunction)
Recipients ==
    {Account, Who(0, <<"AccountKey20">>, OtherJunction), Who(1, <<"Parachain">>, 2),
     Who(1, OUTER_WORLD, OtherJunction), Who(1, <<"Parachain", "AccountId32">>, 2),
     Who(1, <<"Parachain", "AccountId32">>, 3), Who(2, <<"Parachain", "AccountId32">>, 2)}

MC_Payouts ==
    [asset : {HERE, Sibling(2)}, amount : {1, 5}, who : Recipients]
    \cup [asset : {PARENT}, amount : {5}, who : {Who(1, OUTER_WORLD, OtherJunction),
                                                 Who(1, <<"Parachain", "AccountId32">>, 2)}]
    \cup [asset : {Sibling(1)}, amount : {1}, who : {Account}]

Request(asset, amount, d) ==
    [chain |-> 2, sender |-> y, asset |-> asset, amount |-> amount,
     dest |-> [parents |-> 1, first |-> d, who |-> y]]

\* The third cannot be sent, and the last is refused: y does not hold as much.
MC_Requests ==
    {Request(Sibling(1), 4, 1), Request(Sibling(1), 4, 3), Request(HERE, 2, None),
     Request(Sibling(1), 7, 1)}

\* The assets of the three chains have ledgers of their own.
ASSUME LedgersAssumption == DistinctLedgers

============================================================================
