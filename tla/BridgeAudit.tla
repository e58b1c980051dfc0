---------------------------- MODULE BridgeAudit ----------------------------
(***************************************************************************)
(* The books of the bridge: what every account should hold according to    *)
(* the events the pallet emitted, against what it does hold.               *)
(***************************************************************************)
EXTENDS SygmaBridge, Functions

\* Account x is the one that keeps asset a while it is on other chains.
Keeps(x, a) == is_reserve(a) /\ x = ReserveAccounts[a]

\* n if the test holds, and 0 otherwise.
If(test, n) == IF test THEN n ELSE 0

\* What a Deposit event, with its fee, and an executed proposal tell of the
\* balance of account x in asset a.
DepositMove(e, a, x) ==
    IF e.asset # a THEN 0
    ELSE If(x = FeeReserveAccount, e.fee_amount) + If(Keeps(x, a), e.bridged)
         - If(x = e.sender, e.bridged + e.fee_amount)

ExecutionMove(p, a, x) ==
    IF asset_of(p) # a THEN 0
    ELSE If(x = recipient_of(p), amount_of(p)) - If(Keeps(x, a), amount_of(p))

DepositMoves(a, x) == [i \in 1 .. Len(DepositEvents) |-> DepositMove(DepositEvents[i], a, x)]

ExecutionMoves(a, x) ==
    [i \in 1 .. Len(ExecutionEvents) |-> ExecutionMove(ExecutionEvents[i], a, x)]

\* What account x holds of asset a if every event is taken at its word.
Explained(a, x) ==
    Endowment[a][x] + SumFunction(DepositMoves(a, x)) + SumFunction(ExecutionMoves(a, x))

\* The events explain every balance to the last unit: senders paid amount and
\* fee, the treasury got the fees, the reserve account of an asset reserved
\* here got what was bridged and paid what was executed, recipients were paid.
\* It holds for an asset whose minimum balance leaves no dust, until a proposal
\* fails.
BooksBalance ==
    LastFailure = None =>
        \A a \in AssetIds, x \in Accounts : MinBalance[a] = 1 => balances[a][x] = Explained(a, x)

\* Whatever fails: no account ever holds more than the events explain.  Failed
\* payouts and dust can only destroy value, never create it.
NothingFromNothing == \A a \in AssetIds, x \in Accounts : balances[a][x] <= Explained(a, x)

\* A Deposit event never announces more than was taken: the amount sent to the
\* relayers is worth, converted back, at most what the sender paid beyond the
\* fee (convert_to against convert_from, on amounts that a fee reduced).
NoOverstatement ==
    \A i \in 1 .. Len(DepositEvents) :
        LET e == DepositEvents[i]
            back == convert_from(e.asset, e.deposit_data)
        IN  back # None => back <= e.bridged

============================================================================
