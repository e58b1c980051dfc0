------------------------ MODULE XcmAssetTransactor -------------------------
(***************************************************************************)
(* Payouts of the bridge pallet on a parachain that uses                   *)
(* XCMAssetTransactor as its asset transactor: a recipient on the chain is *)
(* paid at once; for a recipient elsewhere the asset is put into a         *)
(* temporary account and sygma-bridge-forwarder hands it on, to the bridge *)
(* pallet (another domain) or to sygma-xcm-bridge (another parachain).     *)
(*                                                                         *)
(* A recipient is a location: its parents, the kinds of its junctions, the *)
(* parachain id its first junction names (or None) and the account of its  *)
(* last one.  execute_proposal reports a payout that failed and goes on,   *)
(* so what a failed payout did before it failed stays done.                *)
(***************************************************************************)
EXTENDS XcmNetwork

CONSTANTS
    Home,               \* the chain of the bridge pallet
    vault,              \* the account that holds the bridge's liquidity
    treasury,           \* and the one that gets its fees
    tmpOuter, tmpXcm,   \* the temporary accounts of deposit_asset
    CurrencyLocation,   \* the asset id CurrencyTransactor matches ...
    CurrencyToken,      \* ... its ledger ...
    FungibleToken(_),   \* ... and the ledger FungiblesTransactor has for an asset id, or None
    OuterFee(_, _),     \* the fee deposit takes for (recipient, asset), None if it refuses them
    Payouts,            \* bound: the payouts that proposals ask for
    MaxPayouts          \* bound: the number of payouts

ASSUME PayoutAssumption ==
    /\ Home \in Nodes
    /\ {vault, treasury, tmpOuter, tmpXcm} \subseteq Accounts
    /\ vault \notin {treasury, tmpOuter, tmpXcm} /\ treasury \notin {tmpOuter, tmpXcm}
    /\ tmpOuter # tmpXcm
    /\ MaxPayouts \in Nat

VARIABLE payouts    \* the payouts so far, with their outcomes

payoutVars == <<netVars, payouts>>

----------------------------------------------------------------------------
\* The ledger of the adapter that the asset is handed to, None if it refuses.
adapter_token(asset) ==
    IF ~is_native_asset(Home, asset) THEN FungibleToken(asset)
    ELSE IF asset = CurrencyLocation THEN CurrencyToken ELSE None

\* ReserveChecker::contains(asset, here) of the bridge pallet's runtime.
is_reserve(asset) == asset = HERE \/ (asset.parents = 1 /\ asset.first # Home)

LOCAL_ACCOUNTS == {<<"AccountId32">>, <<"AccountKey20">>}
OUTER_WORLD == <<"sygma", "sygma-bridge", "GeneralIndex", "GeneralKey">>

\* Where deposit_asset sends an asset for the recipient.
recipient_world(who) ==
    IF \/ who.parents = 0 /\ who.interior \in LOCAL_ACCOUNTS
       \/ who.parents = 1 /\ who.interior = <<"Parachain">>
    THEN "local"
    ELSE IF who.interior = OUTER_WORLD THEN "outer"
    ELSE "xcm"

\* LocationToAccountId: sibling chains and AccountId32 have accounts.
account_of(who) ==
    IF who.interior = <<"Parachain">> THEN who.first
    ELSE IF who.interior = <<"AccountId32">> THEN who.who
    ELSE None

\* Mutant: one temporary account serves both worlds.
tmp_account_shared(who) == tmpXcm

tmp_account(who) == IF recipient_world(who) = "outer" THEN tmpOuter ELSE tmpXcm

can_withdraw(p) ==
    LET token == adapter_token(p.asset)
    IN  /\ token # None
        /\ is_reserve(p.asset) => ledger[Home][token][vault] >= p.amount

\* Mutant: the vault is not debited.
withdrawn_not(p) == ledger

\* The ledgers once the payout's amount has left the vault ...
withdrawn(p) ==
    IF is_reserve(p.asset) THEN debit(ledger, Home, adapter_token(p.asset), vault, p.amount)
                           ELSE ledger

\* ... and once it has been deposited, to the recipient or on its way.
deposited(led, p) ==
    LET to == IF recipient_world(p.who) = "local" THEN account_of(p.who) ELSE tmp_account(p.who)
    IN  credit(led, Home, adapter_token(p.asset), to, p.amount)

ended(p, outcome) == payouts' = Append(payouts, [payout |-> p, outcome |-> outcome])

----------------------------------------------------------------------------
(* The outcomes of a payout *)

\* The adapter does not know the asset or the vault does not hold enough.
withdraw_fails(p) ==
    /\ ~can_withdraw(p)
    /\ ended(p, "withdraw failed") /\ UNCHANGED netVars

pay_local(p) ==
    /\ can_withdraw(p) /\ recipient_world(p.who) = "local" /\ account_of(p.who) # None
    /\ ledger' = deposited(withdrawn(p), p)
    /\ ended(p, "paid") /\ UNCHANGED <<channel, sent, delivered, lost>>

\* The recipient has no account here: what was withdrawn is gone.
no_account(p) ==
    /\ can_withdraw(p) /\ recipient_world(p.who) = "local" /\ account_of(p.who) = None
    /\ ledger' = withdrawn(p)
    /\ ended(p, "no account") /\ UNCHANGED <<channel, sent, delivered, lost>>

\* other_world_transactor_forwarder: the temporary account makes a deposit into
\* the bridge pallet, which keeps the asset in the vault and the fee.
forward_outer(p) ==
    LET fee == OuterFee(p.who, p.asset)
        token == adapter_token(p.asset)
        emptied == debit(deposited(withdrawn(p), p), Home, token, tmpOuter, p.amount)
        charged == credit(emptied, Home, token, treasury, fee)
    IN  /\ can_withdraw(p) /\ recipient_world(p.who) = "outer"
        /\ fee # None /\ p.amount > fee
        /\ ledger' = IF is_reserve(p.asset)
                     THEN credit(charged, Home, token, vault, p.amount - fee)
                     ELSE charged
        /\ ended(p, "deposited") /\ UNCHANGED <<channel, sent, delivered, lost>>

outer_refused(p) ==
    LET fee == OuterFee(p.who, p.asset)
    IN  /\ can_withdraw(p) /\ recipient_world(p.who) = "outer"
        /\ fee # None => p.amount <= fee
        /\ ledger' = deposited(withdrawn(p), p)
        /\ ended(p, "outer refused") /\ UNCHANGED <<channel, sent, delivered, lost>>

\* xcm_transactor_forwarder: the temporary account asks for this transfer.
forwarded(p) ==
    [chain |-> Home, sender |-> tmp_account(p.who), asset |-> p.asset, amount |-> p.amount,
     dest |-> [parents |-> p.who.parents, first |-> p.who.first, who |-> p.who.who]]

forward_xcm(p) ==
    /\ can_withdraw(p) /\ recipient_world(p.who) = "xcm"
    /\ transfer_on(deposited(withdrawn(p), p), forwarded(p))
    /\ ended(p, "sent")

xcm_unsent(p) ==
    /\ can_withdraw(p) /\ recipient_world(p.who) = "xcm"
    /\ transfer_unsent_on(deposited(withdrawn(p), p), forwarded(p))
    /\ ended(p, "unsent")

xcm_refused(p) ==
    LET led == deposited(withdrawn(p), p)
    IN  /\ can_withdraw(p) /\ recipient_world(p.who) = "xcm"
        /\ \/ transfer_error(p.asset, forwarded(p).dest) # "Ok"
           \/ ~affordable(led, forwarded(p))
        /\ ledger' = led
        /\ ended(p, "xcm refused") /\ UNCHANGED <<channel, sent, delivered, lost>>

pay(p) ==
    \/ withdraw_fails(p) \/ pay_local(p) \/ no_account(p)
    \/ forward_outer(p) \/ outer_refused(p)
    \/ forward_xcm(p) \/ xcm_unsent(p) \/ xcm_refused(p)

----------------------------------------------------------------------------
PayoutInit == NetInit /\ payouts = <<>>

PayoutNext ==
    \/ /\ Len(payouts) < MaxPayouts /\ Len(sent) < MaxTransfers
       /\ \E p \in Payouts : pay(p)
    \/ Ask /\ UNCHANGED payouts
    \/ \E q \in Pairs : receive(q[1], q[2]) /\ UNCHANGED payouts

\* As in the network: messages are executed in the end, proposals and transfers
\* on other chains need not come.
PayoutSpec ==
    /\ PayoutInit /\ [][PayoutNext]_payoutVars
    /\ \A q \in Pairs : WF_payoutVars(receive(q[1], q[2]) /\ UNCHANGED payouts)

----------------------------------------------------------------------------
(* What the constants must be like *)

\* The transfers that may be asked for, by users and for payouts.
Asked == Requests \cup {forwarded(p) : p \in Payouts}

ASSUME TransferAssumption ==
    /\ Endowed \in [Nodes -> [Tokens -> [Holders -> Nat]]]
    /\ \A r \in Asked : /\ r.chain \in Nodes /\ r.sender \in Accounts
                         /\ r.amount \in Nat /\ r.dest.who \in Accounts
                         /\ MinXcmFee(r.asset) \in Nat \cup {None}

BridgeAccounts == {vault, treasury, tmpOuter, tmpXcm}

\* The accounts of the bridge are its own: no user sends from them or names one
\* as a recipient, and only the vault is endowed.  The bridge pallet and
\* sygma-xcm-bridge keep an asset on the same ledger if both know it, and the
\* bridge pays out of the vault whatever its adapters know.
ASSUME BridgeAccountsAssumption ==
    /\ \A r \in Asked : r.dest.who \notin BridgeAccounts
    /\ \A r \in Requests : r.chain = Home => r.sender \notin BridgeAccounts
    /\ \A t \in Tokens, x \in BridgeAccounts \ {vault} : Endowed[Home][t][x] = 0
    /\ \A p \in Payouts :
          /\ p.who.interior = <<"Parachain">> => p.who.first \in Nat
          /\ OuterFee(p.who, p.asset) \in Nat \cup {None}
          /\ adapter_token(p.asset) # None => is_reserve(p.asset)
          /\ adapter_token(p.asset) # None /\ TokenOf(Home, p.asset) # None
             => adapter_token(p.asset) = TokenOf(Home, p.asset)

\* Every chain keeps the asset of a chain on one ledger, the one an asset id that
\* leads there stands for, and at the start every derivative is backed.
ASSUME BackingAssumption ==
    /\ IsFiniteSet(Accounts) /\ IsFiniteSet(Nodes)
    /\ \A c, r \in Nodes : TokenOf(c, seen_from(c, r)) \in Tokens \cup {None}
    /\ \A r \in Asked :
          TokenOf(r.chain, r.asset) \in {None, TokenOf(r.chain, reanchored(r.asset, r.chain, r.chain))}
    /\ \A r \in Nodes : \A c \in Nodes \ {r} :
          LET derivative == TokenOf(c, seen_from(c, r))
              own == TokenOf(r, HERE)
          IN  derivative # None /\ own # None
              => SumFunction(Endowed[c][derivative]) <= Endowed[r][own][c]

\* No chain keeps the assets of two chains on one ledger.
DistinctLedgers ==
    \A c, x, y \in Nodes :
        TokenOf(c, seen_from(c, x)) = TokenOf(c, seen_from(c, y)) /\ TokenOf(c, seen_from(c, x)) # None
        => x = y

----------------------------------------------------------------------------
(* Correctness *)

\* The amounts of the payouts of a token that had one of the outcomes.
total(token, outcomes) ==
    LET counted(i) == /\ payouts[i].outcome \in outcomes
                      /\ adapter_token(payouts[i].payout.asset) = token
    IN  SumFunction([i \in DOMAIN payouts |->
                        IF counted(i) THEN payouts[i].payout.amount ELSE 0])

\* A temporary account holds exactly what the refused forwards of its own world
\* left there: nothing of a payout that was handed on stays behind, and no later
\* payout of deposit_asset is paid with what an earlier one stranded.
StrandedIsRefused ==
    \A token \in Tokens :
        /\ ledger[Home][token][tmpOuter] = total(token, {"outer refused"})
        /\ ledger[Home][token][tmpXcm] = total(token, {"xcm refused"})

\* Whatever happens to payouts, the vault has given out no more than they asked
\* for: its balance is what it had, less every payout that got past
\* withdraw_asset, plus what deposits from the temporary account brought back.
VaultPaysOnce ==
    \A token \in Tokens :
        LET spent == {"paid", "no account", "sent", "unsent", "outer refused", "xcm refused"}
        IN  Endowed[Home][token][vault] - ledger[Home][token][vault]
              = total(token, spent) + ledger[Home][token][treasury]

\* A recipient on a chain that is not a substrate chain is forwarded to the
\* bridge pallet (deposit_asset, case 2): such a payout by a vault that holds
\* the asset is not refused.
OuterWorldIsForwarded ==
    \A i \in DOMAIN payouts : payouts[i].outcome # "outer refused"

============================================================================
