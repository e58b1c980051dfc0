----------------------------- MODULE XcmNetwork ----------------------------
(***************************************************************************)
(* A relay network of chains that run sygma-xcm-bridge: transfer on one    *)
(* chain, and the messages it causes on the others.  The XCM executor, the *)
(* asset adapters and the message queues are external; they are modelled   *)
(* from the programs the pallet builds for them.                           *)
(*                                                                         *)
(* On every chain a holder is an account or, written as its id, the        *)
(* sovereign account of another chain.  Each message is four instructions  *)
(* long and costs HopCost of the asset it carries.  Minimum balances are   *)
(* left out.                                                               *)
(***************************************************************************)
EXTENDS XcmBridge, FiniteSets, Functions

CONSTANTS
    Nodes,          \* the chains of the network: Chains, and RELAY if it takes part
    Accounts,       \* accounts, the same on every chain
    Tokens,         \* the ledgers a chain may have
    TokenOf(_, _),  \* the ledger that (chain, asset id) stands for, or None
    Routes,         \* the pairs of chains between which messages can be sent
    HopCost,        \* what a message costs to execute
    Endowed,        \* the ledgers at the start
    Requests,       \* bound: the transfers users may ask for
    MaxTransfers    \* bound: the number of transfers

ASSUME NetworkAssumption ==
    /\ Nodes \subseteq Chains \cup {RELAY}
    /\ Accounts \cap Nat = {}
    /\ Routes \subseteq Nodes \X Nodes
    /\ HopCost \in Nat /\ MaxTransfers \in Nat

VARIABLES
    ledger,     \* ledger[chain][token][holder]
    channel,    \* messages on their way, in order, for each pair of chains
    sent,       \* the transfers that returned Ok, in order
    delivered,  \* the positions of those whose recipient was credited
    lost        \* and of those that ended without that

netVars == <<ledger, channel, sent, delivered, lost>>

Holders == Accounts \cup Nodes
Pairs == Nodes \X Nodes

NetInit ==
    /\ ledger = Endowed
    /\ channel = [p \in Pairs |-> <<>>]
    /\ sent = <<>> /\ delivered = {} /\ lost = {}

\* The ledgers hold no negative balance, and a transfer has one outcome at most:
\* it is delivered, lost or still on its way.
NetTypeOK ==
    /\ ledger \in [Nodes -> [Tokens -> [Holders -> Nat]]]
    /\ DOMAIN channel = Pairs
    /\ Len(sent) <= MaxTransfers
    /\ delivered \cup lost \subseteq DOMAIN sent /\ delivered \cap lost = {}

----------------------------------------------------------------------------
debit(led, c, token, who, amount) == [led EXCEPT ![c][token][who] = @ - amount]
credit(led, c, token, who, amount) == [led EXCEPT ![c][token][who] = @ + amount]

message(id, begins, asset, amount, fees, then) ==
    [id |-> id, begins |-> begins, asset |-> asset, amount |-> amount, fees |-> fees,
     then |-> then]

\* The program of request r (chain, sender, asset, amount, dest).
program(r) == create_instructions(r.chain, r.asset, extract_dest(r.dest), r.dest.who)

\* The local part of the program: the asset moves to the sovereign account of
\* the destination, or leaves this chain.
executed_here(led, r) ==
    LET token == TokenOf(r.chain, r.asset)
        left == debit(led, r.chain, token, r.sender, r.amount)
        p == program(r)
    IN  IF p.local = "TransferReserveAsset" THEN credit(left, r.chain, token, p.to, r.amount)
                                            ELSE left

\* Mutant: the sender's balance is not looked at.
affordable_unchecked(led, r) == TokenOf(r.chain, r.asset) # None

\* The executor finds the asset in the sender's account.
affordable(led, r) ==
    LET token == TokenOf(r.chain, r.asset)
    IN  token # None /\ led[r.chain][token][r.sender] >= r.amount

routed(r) == <<r.chain, program(r).to>> \in Routes

\* BridgeImpl::transfer of request r, on ledgers led ...
transfer_on(led, r) ==
    LET p == program(r)
        m == message(Len(sent) + 1, p.begins, reanchored(r.asset, r.chain, p.to), r.amount,
                     p.fees, p.then)
    IN  /\ transfer_error(r.asset, r.dest) = "Ok"
        /\ affordable(led, r)
        /\ routed(r)
        /\ ledger' = executed_here(led, r)
        /\ channel' = [channel EXCEPT ![<<r.chain, p.to>>] = Append(@, m)]
        /\ sent' = Append(sent, r)
        /\ UNCHANGED <<delivered, lost>>

\* ... and when the message cannot be sent: it returns XcmExecutionFailed, but
\* what was done before sending stays done.
transfer_unsent_on(led, r) ==
    /\ transfer_error(r.asset, r.dest) = "Ok"
    /\ affordable(led, r)
    /\ ~routed(r)
    /\ ledger' = executed_here(led, r)
    /\ UNCHANGED <<channel, sent, delivered, lost>>

transfer(r) == transfer_on(ledger, r)

transfer_unsent(r) == transfer_unsent_on(ledger, r)

----------------------------------------------------------------------------
(* Execution of the message at the head of a channel (external) *)

\* The first instruction fills the holding register: a reserve deposit if the
\* sender is the chain the asset is native to, a withdrawal if the sender's
\* sovereign account holds as much.
held(m, from, to) ==
    IF m.begins = "ReserveAssetDeposited"
    THEN m.asset = seen_from(to, from) /\ TokenOf(to, m.asset) # None
    ELSE TokenOf(to, m.asset) # None /\ ledger[to][TokenOf(to, m.asset)][from] >= m.amount

taken(m, from, to) ==
    IF m.begins = "ReserveAssetDeposited" THEN ledger
    ELSE debit(ledger, to, TokenOf(to, m.asset), from, m.amount)

\* BuyExecution: the holding covers the fees offered, and they cover the cost.
paid_for(m) == m.fees.asset = m.asset /\ m.amount >= m.fees.amount /\ m.fees.amount >= HopCost

\* What is left of the message's amount.
rest(m) == m.amount - HopCost

popped(from, to) == [channel EXCEPT ![<<from, to>>] = Tail(@)]

receive_refused(from, to, m) ==
    /\ ~held(m, from, to)
    /\ channel' = popped(from, to) /\ lost' = lost \cup {m.id}
    /\ UNCHANGED <<ledger, sent, delivered>>

receive_unpaid(from, to, m) ==
    /\ held(m, from, to) /\ ~paid_for(m)
    /\ ledger' = taken(m, from, to)
    /\ channel' = popped(from, to) /\ lost' = lost \cup {m.id}
    /\ UNCHANGED <<sent, delivered>>

receive_deposit(from, to, m) ==
    /\ held(m, from, to) /\ paid_for(m) /\ m.then.op = "DepositAsset"
    /\ ledger' = credit(taken(m, from, to), to, TokenOf(to, m.asset), m.then.beneficiary, rest(m))
    /\ channel' = popped(from, to) /\ delivered' = delivered \cup {m.id}
    /\ UNCHANGED <<sent, lost>>

receive_forward(from, to, m) ==
    LET d == chain_of(to, m.then.dest)
        onward == message(m.id, "ReserveAssetDeposited", reanchored(m.asset, to, d), rest(m),
                          m.then.fees, m.then.then)
    IN  /\ held(m, from, to) /\ paid_for(m) /\ m.then.op = "DepositReserveAsset"
        /\ ledger' = credit(taken(m, from, to), to, TokenOf(to, m.asset), d, rest(m))
        /\ IF <<to, d>> \in Routes
           THEN /\ channel' = [popped(from, to) EXCEPT ![<<to, d>>] = Append(@, onward)]
                /\ UNCHANGED lost
           ELSE channel' = popped(from, to) /\ lost' = lost \cup {m.id}
        /\ UNCHANGED <<sent, delivered>>

receive(from, to) ==
    /\ channel[<<from, to>>] # <<>>
    /\ LET m == Head(channel[<<from, to>>])
       IN  \/ receive_refused(from, to, m)
           \/ receive_unpaid(from, to, m)
           \/ receive_deposit(from, to, m)
           \/ receive_forward(from, to, m)

----------------------------------------------------------------------------
Ask == Len(sent) < MaxTransfers /\ \E r \in Requests : transfer(r) \/ transfer_unsent(r)

NetNext == Ask \/ \E p \in Pairs : receive(p[1], p[2])

\* Every queued message is executed in the end: the queues keep a message
\* until it is, and no user has to ask for a transfer.
NetSpec ==
    /\ NetInit /\ [][NetNext]_netVars
    /\ \A p \in Pairs : WF_netVars(receive(p[1], p[2]))

----------------------------------------------------------------------------
(* Correctness *)

\* The amount of the messages in a channel that carry an asset of chain r and
\* begin with the given instruction.
carried(from, to, begins, r) ==
    LET ms == channel[<<from, to>>]
        relevant(i) == ms[i].begins = begins /\ chain_of(to, ms[i].asset) = r
    IN  SumFunction([i \in DOMAIN ms |-> IF relevant(i) THEN ms[i].amount ELSE 0])

\* What chain c has issued of the asset of chain r.
issued(c, r) == SumFunction(ledger[c][TokenOf(c, seen_from(c, r))])

\* The programs of create_instructions never leave a derivative unbacked: what
\* chain c has issued of the asset of r, with what is on its way to c and what
\* left c but has not reached r, is at most what the sovereign account of c
\* holds on r.
Backed ==
    \A r \in Nodes : \A c \in Nodes \ {r} :
        LET token == TokenOf(r, HERE)
        IN  TokenOf(c, seen_from(c, r)) # None /\ token # None =>
              issued(c, r) + carried(r, c, "ReserveAssetDeposited", r)
                           + carried(c, r, "WithdrawAsset", r) <= ledger[r][token][c]

\* The minimum fee of r's asset pays for every hop of the way it takes, the
\* amount is not below the fee, and the destination has registered the asset and
\* can be reached from the reserve chain.
Covered(r) ==
    LET p == program(r)
        d == chain_of(r.chain, extract_dest(r.dest))
    IN  /\ r.amount >= MinXcmFee(r.asset)
        /\ p.fees.amount >= HopCost
        /\ d # p.to => <<p.to, d>> \in Routes
        /\ TokenOf(d, reanchored(r.asset, r.chain, d)) # None

\* A transfer that returned Ok reaches its recipient when the amount is at least
\* the minimum fee of its asset and that fee - half of it, on the way through
\* the reserve chain (transfer_to_non_reserve_asset) - pays for a hop.
CoveredIsDelivered ==
    \A id \in 1 .. MaxTransfers :
        (id \in DOMAIN sent /\ Covered(sent[id])) ~> (id \in delivered)

============================================================================
